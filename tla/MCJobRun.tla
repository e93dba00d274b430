-------------------------------- MODULE MCJobRun --------------------------------
(***************************************************************************)
(* The two loops of a `codex-job` supervisor, in one run of TLC: the wait  *)
(* for memory and a cool host (AdmissionWait), and everything from the     *)
(* registration to the end of its payload (JobSupervisor), where Admit and *)
(* Readmit stand for a wait that ended well.  They are composed, and one   *)
(* of them is over from the start.                                         *)
(***************************************************************************)
EXTENDS MCAdmissionWait, JobSupervisor

\* A wait that ended at once, the thermal settings being unreadable.
WaitOver ==
    /\ host = Hot /\ policy = "ignore" /\ recovery = FALSE
    /\ settings = "unreadable" /\ sensor = NoSample /\ status = NoStatus /\ guard = 0
    /\ clock = 0 /\ slept = 0 /\ back = 0 /\ gate = Fresh /\ deferUntil = 0
    /\ outcome = "failed" /\ log = <<>>

\* A supervisor that could not use the store.
PayloadOver ==
    /\ opts = [role |-> "batch", scope |-> "off", limits |-> FALSE, restartable |-> FALSE]
    /\ pc = "error" /\ leader = "none" /\ exitcode = 1 /\ desc = "none"
    /\ rec = [status |-> "none", restarts |-> 0, payload |-> 0, launch |-> 0]
    /\ marker = FALSE /\ request = 0 /\ scoped = FALSE /\ attempt = 0
    /\ held = FALSE /\ execs = 0

RunInit == (Init /\ PayloadOver) \/ (WaitOver /\ SupervisorInit)

RunNext == \/ Next /\ UNCHANGED supervisor_vars
           \/ SupervisorNext /\ UNCHANGED vars

RunSpec == /\ RunInit /\ [][RunNext]_<<vars, supervisor_vars>>
           /\ WF_vars(Polls) /\ Fairness
=============================================================================
