----------------------------- MODULE JobSupervisor -----------------------------
(***************************************************************************)
(* One supervised job of codex_looper/resource_jobs.py: main() and _wait() *)
(* in the supervisor, inner_main() in the process it starts, the requester *)
(* of a restart, and the processes of the payload's group.  They share the *)
(* record, the durable start marker and the request file.                  *)
(*                                                                         *)
(* The launched process is followed under one pid: systemd-run --scope     *)
(* executes its command in place, and inner_main executes the payload in   *)
(* place.  One descendant stands for the rest of its process group.  The    *)
(* supervisor may be killed at any point, and any use of the private store *)
(* in the middle of a run may fail.                                        *)
(***************************************************************************)
EXTENDS Integers

VARIABLES
    opts,      \* the command line
    pc,        \* where main() stands
    rec,       \* the stored record
    marker,    \* the durable .started.json of the current attempt
    request,   \* the attempt a .restart.json names, 0 without one
    scoped,    \* main()'s local: launch through systemd-run
    attempt,   \* launches so far
    leader,    \* the process started by the last launch
    exitcode,  \* zero or not, once the leader has exited: its own code
    desc,      \* a descendant in the payload's process group
    held,      \* terminate_owned_batch captured that descendant
    execs      \* executions of the payload

supervisor_vars ==
    <<opts, pc, rec, marker, request, scoped, attempt, leader, exitcode, desc, held, execs>>
childVars == <<leader, exitcode, desc, held, execs>>

Options == [role : {"agent", "batch"}, scope : {"auto", "required", "off"},
            limits : BOOLEAN, restartable : BOOLEAN]

(* main() refuses these combinations before it registers anything. *)
Accepted == {o \in Options : /\ o.role = "agent" => ~o.restartable /\ ~o.limits
                             /\ o.limits => o.scope # "off"}

Mandatory == opts.scope = "required" \/ opts.limits

MaxAttempts == 3      \* a scoped launch, one fallback from it, one restart

Statuses == {"none", "queued", "admitted", "running", "finished", "failed",
             "queued_timeout", "stale"}
Leaders  == {"none", "boot", "registered", "marked", "started", "zombie", "gone"}
Record   == [status : Statuses, restarts : {0, 1},
             payload : 0..MaxAttempts, launch : 0..MaxAttempts]  \* 0: no pid
Points   == {"start", "admit", "scope", "launch", "record", "wait", "polled",
             "terminate", "grace", "reap", "requeue", "readmit", "rejected",
             "settle", "done", "error", "crashed", "replaced"}

SupervisorTypeOK ==
    /\ opts \in Accepted
    /\ pc \in Points
    /\ rec \in Record
    /\ marker \in BOOLEAN
    /\ request \in 0..MaxAttempts
    /\ scoped \in BOOLEAN
    /\ attempt \in 0..MaxAttempts
    /\ leader \in Leaders
    /\ exitcode \in {0, 1}
    /\ desc \in {"none", "member", "left", "gone"}
    /\ held \in BOOLEAN
    /\ execs \in 0..2

(* main() has returned ("done"), has returned 2 over an error of the store or of
   Popen ("error"), was killed, or executed the command in its own place. *)
Supervised == pc \notin {"done", "error", "crashed", "replaced"}
Running    == leader \in {"boot", "registered", "marked", "started"}
Exited     == leader \in {"zombie", "gone"}

SupervisorInit ==
    /\ opts \in Accepted
    /\ pc = "start"
    /\ rec = [status |-> "none", restarts |-> 0, payload |-> 0, launch |-> 0]
    /\ marker = FALSE /\ request = 0 /\ scoped = FALSE /\ attempt = 0
    /\ leader = "none" /\ exitcode = 1
    /\ desc = "none" /\ held = FALSE
    /\ execs = 0

-----------------------------------------------------------------------------
(* JobStore.validate for a managed job: the identity of the named attempt is
   still the recorded one and every recorded process is that live process. *)
Valid(a) == /\ rec.status = "running"
            /\ rec.payload = a /\ rec.launch = a /\ attempt = a
            /\ leader \in {"registered", "marked", "started"}
            /\ Supervised

-----------------------------------------------------------------------------
(* Registration, admission and the choice of a scope. *)

Register == /\ pc = "start"
            /\ rec' = [rec EXCEPT !.status = "queued"]
            /\ pc' = "admit"
            /\ UNCHANGED <<opts, marker, request, scoped, attempt, childVars>>

(* An unavailable store never blocks an optional agent: it replaces main(). *)
RegistrationFails ==
    /\ pc = "start"
    /\ IF opts.role = "agent" /\ opts.scope # "required"
       THEN /\ pc' = "replaced" /\ leader' = "started" /\ execs' = 1
            /\ UNCHANGED <<exitcode, desc, held>>
       ELSE pc' = "error" /\ UNCHANGED childVars
    /\ UNCHANGED <<opts, rec, marker, request, scoped, attempt>>

(* Whether the reservation wrote "admitted" depends on the declared ceilings;
   JobAdmission models it. *)
Admit ==
    /\ pc = "admit"
    /\ \/ rec' = [rec EXCEPT !.status = "admitted"] /\ opts.role = "batch"
       \/ UNCHANGED rec
    /\ pc' = "scope"
    /\ UNCHANGED <<opts, marker, request, scoped, attempt, childVars>>

QueueTimeout ==
    /\ pc = "admit" /\ opts.role = "batch"
    /\ rec' = [rec EXCEPT !.status = "queued_timeout"]
    /\ pc' = "done"
    /\ UNCHANGED <<opts, marker, request, scoped, attempt, childVars>>

Answers == {"environment", "slices", "weights", "memory"}

(* Of the manager's calls that succeed, those for weights and for the memory
   of agents are only wished for. *)
ScopeReady(answers) == {"environment", "slices"} \subseteq answers

ChooseScope ==
    /\ pc = "scope"
    /\ \E answers \in SUBSET Answers :
         /\ scoped' = (opts.scope # "off" /\ ScopeReady(answers))
         /\ IF Mandatory /\ ~ScopeReady(answers)
            THEN rec' = [rec EXCEPT !.status = "failed"] /\ pc' = "done"
            ELSE UNCHANGED rec /\ pc' = "launch"
    /\ UNCHANGED <<opts, marker, request, attempt, childVars>>

-----------------------------------------------------------------------------
(* _launch(): Popen, then the launcher's identity is stored. *)

Popen ==
    /\ pc = "launch"
    /\ attempt' = attempt + 1
    /\ leader' = "boot" /\ exitcode' = 1
    /\ pc' = "record"
    /\ UNCHANGED <<opts, rec, marker, request, scoped, desc, held, execs>>

PopenFails ==
    /\ pc = "launch"
    /\ CASE scoped /\ ~Mandatory -> scoped' = FALSE /\ UNCHANGED <<rec, pc>>
         [] scoped /\ Mandatory  -> /\ rec' = [rec EXCEPT !.status = "failed"]
                                    /\ pc' = "done" /\ UNCHANGED scoped
         [] ~scoped              -> pc' = "error" /\ UNCHANGED <<rec, scoped>>
    /\ UNCHANGED <<opts, marker, request, attempt, childVars>>

RecordLaunch_LauncherError ==      \* a failed write taken for a failed launch
    /\ pc = "record"
    /\ \/ Running /\ rec' = [rec EXCEPT !.launch = attempt] /\ pc' = "wait" /\ UNCHANGED scoped
       \/ /\ UNCHANGED rec
          /\ pc' = (IF scoped THEN "launch" ELSE "error") /\ scoped' = FALSE
    /\ UNCHANGED <<opts, marker, request, attempt, childVars>>

RecordLaunch ==
    /\ pc = "record"
    /\ \/ Running /\ rec' = [rec EXCEPT !.launch = attempt]
       \/ UNCHANGED rec      \* the child cannot be read, the record not written
    /\ pc' = "wait"
    /\ UNCHANGED <<opts, marker, request, scoped, attempt, childVars>>

-----------------------------------------------------------------------------
(* inner_main(), in the launched process. *)

Exits(code) == /\ leader' = IF Supervised THEN "zombie" ELSE "gone"
               /\ exitcode' = code

Refused(verified) ==
    Mandatory /\ ~(verified /\ rec.launch = attempt /\ Supervised)

(* What the cgroup of the recorded identity shows: the scope is on its path;
   its quota and memory limits are absent, weaker or as asked. *)
Kernel == [scope : BOOLEAN, limits : {"absent", "weaker", "kept"}]

KernelLimitsEffective(kernel) ==
    kernel.scope /\ (opts.limits => kernel.limits = "kept")

(* A job whose scope is mandatory also validates itself, and its own launcher
   must be recorded by then. *)
RegisterPayload ==
    /\ leader = "boot"
    /\ rec' = [rec EXCEPT !.payload = attempt, !.status = "running"]
    /\ \E kernel \in Kernel :
         /\ kernel.scope => scoped
         /\ IF Refused(KernelLimitsEffective(kernel))
            THEN Exits(1)
            ELSE leader' = "registered" /\ UNCHANGED exitcode
    /\ UNCHANGED <<opts, pc, marker, request, scoped, attempt, desc, held, execs>>

WriteMarker ==
    /\ leader = "registered"
    /\ marker' = TRUE /\ leader' = "marked"
    /\ UNCHANGED <<opts, pc, rec, request, scoped, attempt, exitcode, desc, held,
                   execs>>

Exec ==
    /\ leader = "marked"
    /\ leader' = "started" /\ execs' = execs + 1
    /\ UNCHANGED <<opts, pc, rec, marker, request, scoped, attempt, exitcode, desc,
                   held>>

(* The launcher, the handshake or the payload ends at any point, also by a
   forwarded signal; only an executed payload can end with code 0. *)
LeaderExits ==
    /\ Running
    /\ \E code \in {0, 1} : (code = 0 => leader = "started") /\ Exits(code)
    /\ UNCHANGED <<opts, pc, rec, marker, request, scoped, attempt, desc, held,
                   execs>>

Fork == /\ leader = "started" /\ desc = "none"
        /\ desc' = "member"
        /\ UNCHANGED <<opts, pc, rec, marker, request, scoped, attempt, leader,
                       exitcode, held, execs>>

DescendantMoves ==
    /\ \/ desc = "member" /\ desc' = "left"
       \/ desc \in {"member", "left"} /\ desc' = "gone"
    /\ UNCHANGED <<opts, pc, rec, marker, request, scoped, attempt, leader,
                   exitcode, held, execs>>

-----------------------------------------------------------------------------
(* JobStore.request_restart, by an operator or the incident worker. *)
RequestRestart ==
    /\ Valid(attempt)
    /\ opts.role = "batch" /\ opts.restartable /\ rec.restarts = 0
    /\ request = 0
    /\ request' = attempt
    /\ UNCHANGED <<opts, pc, rec, marker, scoped, attempt, childVars>>

(* Another client's cleanup() relabels the record when a recorded process,
   here the payload or the launcher, is gone. *)
Gone(a) == a # 0 /\ (a # attempt \/ leader = "gone")

OtherCleanup ==
    /\ rec.status \in {"queued", "admitted", "running"}
    /\ Gone(rec.payload) \/ Gone(rec.launch) \/ ~Supervised
    /\ rec' = [rec EXCEPT !.status = "stale"]
    /\ UNCHANGED <<opts, pc, marker, request, scoped, attempt, childVars>>

-----------------------------------------------------------------------------
(* _wait() and handle_restart(). *)

(* poll() answers for a child that has ended, whether or not it was reaped
   already; only a child seen running makes _wait look for a request. *)
PollChild ==
    /\ pc = "wait"
    /\ IF Exited
       THEN leader' = "gone" /\ pc' = "settle"
       ELSE UNCHANGED leader /\ pc' = "polled"
    /\ UNCHANGED <<opts, rec, marker, request, scoped, attempt, exitcode, desc,
                   held, execs>>

Requested == opts.role = "batch" /\ request # 0

Sleep ==
    /\ pc = "polled" /\ ~Requested
    /\ pc' = "wait"
    /\ UNCHANGED <<opts, rec, marker, request, scoped, attempt, childVars>>

(* Consent is charged before anything is signalled.  An identity that cannot
   be read for a moment, here and before the signal, rejects the request. *)
TakeRequest ==
    /\ pc = "polled" /\ Requested
    /\ \/ /\ Valid(request) /\ opts.restartable /\ rec.restarts = 0
          /\ rec' = [rec EXCEPT !.restarts = 1] /\ pc' = "terminate"
       \/ UNCHANGED rec /\ pc' = "rejected"
    /\ UNCHANGED <<opts, marker, request, scoped, attempt, childVars>>

Members == Running \/ desc = "member"
Escaped_Ignored == FALSE
Escaped == held /\ desc = "left"

(* terminate_owned_batch: capture the members, validate again, signal. *)
SignalGroup ==
    /\ pc = "terminate"
    /\ held' = (desc = "member")
    /\ \/ Valid(attempt) /\ pc' = "grace"
       \/ pc' = "rejected"
    /\ UNCHANGED <<opts, rec, marker, request, scoped, attempt, leader, exitcode,
                   desc, execs>>

(* Each scan of the grace period captures members forked since. *)
Scan ==
    /\ pc = "grace"
    /\ held' = (held \/ desc = "member")
    /\ pc' = CASE Escaped -> "rejected"
               [] ~Members /\ ~Escaped -> "reap"
               [] OTHER -> "grace"
    /\ UNCHANGED <<opts, rec, marker, request, scoped, attempt, leader, exitcode,
                   desc, execs>>

KillGroup_LeaderOnly ==      \* a deadline for the leader, none for its descendants
    /\ pc = "grace" /\ Running /\ ~Escaped
    /\ leader' = "zombie" /\ exitcode' = 1
    /\ desc' = IF desc = "member" THEN "gone" ELSE desc
    /\ pc' = "reap"
    /\ UNCHANGED <<opts, rec, marker, request, scoped, attempt, held, execs>>

(* After the grace period every captured live member is killed; a member that
   survives the kill passes, or cannot be read, refuses the restart. *)
KillGroup ==
    /\ pc = "grace" /\ Members /\ ~Escaped
    /\ \/ /\ leader' = IF Running THEN "zombie" ELSE leader
          /\ exitcode' = IF Running THEN 1 ELSE exitcode
          /\ desc' = IF desc = "member" THEN "gone" ELSE desc
          /\ pc' = "reap"
       \/ UNCHANGED <<leader, exitcode, desc>> /\ pc' = "rejected"
    /\ UNCHANGED <<opts, rec, marker, request, scoped, attempt, held, execs>>

Emptied == Exited /\ desc # "member"

ReapOldGroup ==
    /\ pc = "reap"
    /\ leader' = IF leader = "zombie" THEN "gone" ELSE leader
    /\ pc' = IF Emptied THEN "requeue" ELSE "rejected"
    /\ UNCHANGED <<opts, rec, marker, request, scoped, attempt, exitcode, desc,
                   held, execs>>

(* The request is withdrawn, then the record is queued again; either may fail. *)
Requeue ==
    /\ pc = "requeue"
    /\ \/ /\ request' = 0
          /\ rec' = [rec EXCEPT !.status = "queued", !.payload = 0]
          /\ pc' = "readmit"
       \/ request' \in {0, request} /\ pc' = "rejected" /\ UNCHANGED rec
    /\ UNCHANGED <<opts, marker, scoped, attempt, childVars>>

(* Only an admitted next attempt clears the old marker. *)
Readmit ==
    /\ pc = "readmit"
    /\ \/ /\ \/ marker' = FALSE /\ pc' = "launch"
             \/ UNCHANGED marker /\ pc' = "rejected"
          /\ \E s \in {rec.status, "admitted"} : rec' = [rec EXCEPT !.status = s]
       \/ /\ rec' = [rec EXCEPT !.status = "queued_timeout"]
          /\ pc' = "settle" /\ UNCHANGED marker
       \/ pc' = "rejected" /\ UNCHANGED <<rec, marker>>     \* admission raised
    /\ UNCHANGED <<opts, request, scoped, attempt, childVars>>

(* The supervisor is gone: init reaps what it had not, the rest goes on. *)
Abandons(point) == /\ pc' = point
                   /\ leader' = IF leader = "zombie" THEN "gone" ELSE leader

(* The except branch of _wait, whose own calls may raise: a request that cannot
   be withdrawn, a record that cannot be marked, end main() with code 2. *)
Reject ==
    /\ pc = "rejected"
    /\ \/ /\ request' = 0
          /\ IF Exited
             THEN rec' = [rec EXCEPT !.status = "failed"] /\ leader' = "gone" /\ pc' = "settle"
             ELSE UNCHANGED <<rec, leader>> /\ pc' = "wait"
       \/ /\ UNCHANGED request \/ (Exited /\ request' = 0)
          /\ UNCHANGED rec /\ Abandons("error")
    /\ UNCHANGED <<opts, marker, scoped, attempt, exitcode, desc, held, execs>>

(* Elsewhere in main() and in _wait, the store may fail to be read or written. *)
StoreFails ==
    /\ \/ pc \in {"admit", "scope", "settle"}
       \/ pc = "launch" /\ attempt > 0              \* the record read again
       \/ pc = "polled" /\ opts.role = "batch"      \* the request looked for
    /\ Abandons("error")
    /\ UNCHANGED <<opts, rec, marker, request, scoped, attempt, exitcode, desc,
                   held, execs>>

(* The end of main()'s loop. *)
RestartFailed == rec.status = "failed" /\ rec.restarts = 1

(* What _wait returned: 1 once it has marked a rejected restart as failed. *)
Code == IF rec.status = "failed" THEN 1 ELSE exitcode

NeverStarted_ByExit == scoped /\ Code # 0 /\ ~RestartFailed
NeverStarted == scoped /\ ~marker /\ ~RestartFailed

FallBack == scoped' = FALSE /\ pc' = "launch" /\ UNCHANGED rec

Outcome == IF Code = 0 THEN "finished" ELSE "failed"

Settle ==
    /\ pc = "settle"
    /\ CASE rec.status = "queued_timeout" ->
              pc' = "done" /\ UNCHANGED <<rec, scoped>>
         [] rec.status # "queued_timeout" /\ NeverStarted ->
              IF Mandatory
              THEN rec' = [rec EXCEPT !.status = "failed"] /\ pc' = "done" /\ UNCHANGED scoped
              ELSE FallBack
         [] OTHER ->
              /\ rec' = [rec EXCEPT !.status = Outcome]
              /\ pc' = "done" /\ UNCHANGED scoped
    /\ UNCHANGED <<opts, marker, request, attempt, childVars>>

Crash ==
    /\ Supervised
    /\ Abandons("crashed")
    /\ UNCHANGED <<opts, rec, marker, request, scoped, attempt, exitcode, desc,
                   held, execs>>

-----------------------------------------------------------------------------
Main == \/ Register \/ Admit \/ ChooseScope \/ Popen \/ RecordLaunch
        \/ PollChild \/ Sleep \/ TakeRequest \/ SignalGroup \/ Scan \/ KillGroup
        \/ ReapOldGroup \/ Requeue \/ Readmit \/ Reject \/ Settle

Inner == RegisterPayload \/ WriteMarker \/ Exec \/ LeaderExits

Others == \/ RegistrationFails \/ QueueTimeout \/ PopenFails \/ StoreFails
          \/ Fork \/ DescendantMoves \/ RequestRestart \/ OtherCleanup \/ Crash

SupervisorNext == Main \/ Inner \/ Others

SupervisorSpec == SupervisorInit /\ [][SupervisorNext]_supervisor_vars

(* The supervisor keeps polling, and the process it waits for ends. *)
Fairness == WF_supervisor_vars(Main) /\ WF_supervisor_vars(LeaderExits)

-----------------------------------------------------------------------------
(* Properties.                                                             *)

(* main() promises what PayloadContract says: the payload is started once,
   or twice with consent that was given and charged, and never while it is
   still running -- across fallbacks, rejected and failed restarts, relabels
   and an unavailable store. *)
Contract == INSTANCE PayloadContract WITH
                consent <- opts.restartable, spent <- rec.restarts,
                runs <- execs, alive <- (leader = "started")
HonoursContract == Contract!Spec

(* terminate_owned_batch and handle_restart: no payload begins while a member
   of an earlier attempt's group, or one captured and then lost from sight,
   is alive. *)
NoOverlap == [][leader # "started" /\ leader' = "started" =>
                  desc # "member" /\ ~(held /\ desc = "left")]_supervisor_vars

(* What main() leaves behind.  Over an error of the store it returns 2, and then
   never with an agent still running, only with a batch job.  Otherwise no
   process it launched is running, and the record says what happened: "finished"
   that the payload ran and ended with code 0, "queued_timeout" that no request
   is left behind; and a payload that ended with code 0 is not called failed
   unless a restart could be asked for, which takes the place of its own code. *)
FinalStatus ==
    /\ pc = "error" /\ Running => opts.role = "batch"
    /\ pc = "done" =>
         /\ ~Running
         /\ rec.status = "finished" => execs > 0 /\ exitcode = 0
         /\ rec.status = "queued_timeout" => request = 0
         /\ rec.status \in {"queued", "admitted"} => execs <= rec.restarts
         /\ exitcode = 0 => rec.status = "finished" \/ opts.restartable

(* A supervisor ends when its leader does, whatever it was asked to do: neither
   a rejected or failed restart nor a descendant that ignores SIGTERM keeps
   it waiting. *)
Ends == <>~Supervised
=============================================================================
