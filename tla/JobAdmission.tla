------------------------------ MODULE JobAdmission ------------------------------
(***************************************************************************)
(* Batch admission in codex_looper/resource_jobs.py: several supervisors   *)
(* (`codex-job run`) share one private job store.  A supervisor registers  *)
(* a record, waits until it may reserve a slot, starts the payload, and    *)
(* settles the record.  Every access to a record is a read-modify-write    *)
(* under the store's flock, so each is one action; everything between two  *)
(* of them is open to the other supervisors.                               *)
(*                                                                         *)
(* A Linux process is followed from its start to its removal from /proc,   *)
(* because that is what _recorded_process_state tells apart.  Headroom and *)
(* thermal verdicts are left open here: a supervisor may try to reserve at *)
(* any poll, or give up.                                                   *)
(***************************************************************************)
EXTENDS Integers, FiniteSets, FiniteSetsExt

CONSTANTS
    Jobs,          \* batch jobs, one supervisor each
    Cohort,        \* [Jobs -> any]: the admission group or recipe fingerprint
    Limit,         \* [Jobs -> Nat]: --max-parallel, 0 when not declared
    Request,       \* [Jobs -> Nat]: --reserve-memory-mib
    Scoped,        \* jobs first launched through systemd-run
    Mandatory,     \* jobs that may not fall back to an unscoped launch
    Restartable,   \* jobs that gave consent for one restart
    CanCrash,      \* jobs whose supervisor may be killed
    CanHide,       \* jobs whose child's /proc counters may be unreadable
    Unwritable,    \* jobs whose launcher identity may fail to be stored
    Thermal,       \* thermal protection is enforcing
    MaxRemedies,   \* thermal.MAX_REMEDIES
    MaxJobs,       \* JobStore retention limit, MAX_JOBS
    Floor,         \* settings.reserve_mib
    Readings       \* MemAvailable readings, InvalidReading among them

InvalidReading == -1

ASSUME JobsFinite == IsFiniteSet(Jobs)
ASSUME LimitType  == Limit \in [Jobs -> Nat]
ASSUME RequestType == Request \in [Jobs -> Nat]
ASSUME BoundsType == /\ MaxRemedies \in Nat
                     /\ MaxJobs \in Nat
                     /\ Floor \in Nat
                     /\ Readings \subseteq Nat \cup {InvalidReading}
                     /\ Thermal \in BOOLEAN

VARIABLES
    rec,      \* the stored record of each job
    pc,       \* where the supervisor's main() stands
    sup,      \* the supervisor process
    child,    \* the process started by the last _launch
    phase,    \* how far that process got in inner_main
    scoped,   \* main()'s local: the next launch uses a scope
    kept      \* history: the reservation was counted ever since it was made

vars == <<rec, pc, sup, child, phase, scoped, kept>>

Statuses == {"none", "queued", "admitted", "running",
             "finished", "failed", "queued_timeout", "stale"}
Terminal == {"finished", "failed", "queued_timeout", "stale"}
Process  == {"absent", "live", "hidden", "zombie", "gone"}
Field    == {"none", "current", "old"}   \* which child a pid field names
Record   == [status : Statuses, payload : Field, launch : Field, restarts : {0, 1}]
Points   == {"start", "create", "admit", "launch", "record", "wait", "reaped",
             "requeue", "readmit", "done", "exited", "crashed"}
Phases   == {"boot", "registered", "started"}

NoRecord == [status |-> "none", payload |-> "none", launch |-> "none", restarts |-> 0]

TypeOK == /\ rec \in [Jobs -> Record]
          /\ pc \in [Jobs -> Points]
          /\ sup \in [Jobs -> {"absent", "live", "gone"}]
          /\ child \in [Jobs -> Process]
          /\ phase \in [Jobs -> Phases]
          /\ scoped \in [Jobs -> BOOLEAN]
          /\ kept \in [Jobs -> BOOLEAN]

-----------------------------------------------------------------------------
(* What another process can learn from a recorded pid and start time.      *)

Seen(p) == CASE p = "absent" -> "absent"
             [] p = "live"   -> "live"
             [] p = "gone"   -> "dead"
             [] OTHER        -> "unknown"     \* unreadable, or an unreaped zombie

ChildState(j, field) == CASE field = "none"    -> "absent"
                          [] field = "old"     -> "dead"
                          [] field = "current" -> Seen(child[j])

RecordedStates(j) == { Seen(sup[j]), ChildState(j, rec[j].payload),
                       ChildState(j, rec[j].launch) }

(* reserve_admission skips a record only if its owner and payload are gone;
   the launch identity is not consulted. *)
Released_Never(j) == FALSE

Released(j) == /\ Seen(sup[j]) = "dead"
               /\ ChildState(j, rec[j].payload) \notin {"live", "unknown"}

Counted(j) == rec[j].status \in {"admitted", "running"} /\ ~Released(j)

Others(j) == {k \in Jobs \ {j} : Counted(k)}
Peers(j)  == {k \in Others(j) : Limit[k] > 0 /\ Cohort[k] = Cohort[j]}
Reserved(S) == MapThenSumSet(LAMBDA k : Request[k], S)

NeedsReservation(j) == Limit[j] > 0 \/ Request[j] > 0 \/ Thermal

(* Faults named after a definition stand in for it when a property is tried
   against the mistake they describe; no other definition uses them. *)
SlotFree_OffByOne(j) == Limit[j] > 0 =>
                 \A k \in Peers(j) \cup {j} : Cardinality(Peers(j)) <= Limit[k]
SlotFree_OwnLimit(j) == Limit[j] > 0 => Cardinality(Peers(j)) < Limit[j]

SlotFree(j) == Limit[j] > 0 =>
                 \A k \in Peers(j) \cup {j} : Cardinality(Peers(j)) < Limit[k]

MemoryFits_OwnRequest(j, available) ==
    Request[j] > 0 => available # InvalidReading /\ available - Request[j] > Floor

MemoryFits(j, available) ==
    Request[j] > 0 =>
      /\ available # InvalidReading
      /\ available - Reserved(Others(j)) - Request[j] > Floor

(* The history variable follows the code's own count after every step. *)
KeepCounting     == kept' = [j \in Jobs |-> kept[j] /\ Counted(j)']
StartCounting(i) == kept' = [j \in Jobs |-> j = i \/ (kept[j] /\ Counted(j)')]

-----------------------------------------------------------------------------
(* Registration: create() runs cleanup() under the lock, releases it, and
   takes the lock again to add the record. *)

Init == /\ rec = [j \in Jobs |-> NoRecord]
        /\ pc = [j \in Jobs |-> "start"]
        /\ sup = [j \in Jobs |-> "absent"]
        /\ child = [j \in Jobs |-> "absent"]
        /\ phase = [j \in Jobs |-> "boot"]
        /\ scoped = [j \in Jobs |-> j \in Scoped]
        /\ kept = [j \in Jobs |-> FALSE]

Relabelled_Unknown(k) ==      \* an unreadable process taken for a dead one
    IF /\ rec[k].status \in {"queued", "admitted", "running"}
       /\ RecordedStates(k) \cap {"dead", "unknown"} # {}
    THEN [rec[k] EXCEPT !.status = "stale"] ELSE rec[k]

Relabelled(k) ==
    IF rec[k].status \in {"queued", "admitted", "running"} /\ "dead" \in RecordedStates(k)
    THEN [rec[k] EXCEPT !.status = "stale"]
    ELSE rec[k]

Deletable_Terminal == {k \in Jobs : rec[k].status \in Terminal}

Deletable == {k \in Jobs : /\ rec[k].status \in Terminal
                           /\ RecordedStates(k) \cap {"live", "unknown"} = {}}

(* The newly relabelled records keep for another pass; which of the terminal
   ones are past the retention age or count is open. *)
Cleanup(j) ==
    /\ pc[j] = "start"
    /\ \E expired \in SUBSET Deletable :
         rec' = [k \in Jobs |-> IF k \in expired THEN NoRecord ELSE Relabelled(k)]
    /\ pc' = [pc EXCEPT ![j] = "create"]
    /\ sup' = [sup EXCEPT ![j] = "live"]
    /\ UNCHANGED <<child, phase, scoped>>
    /\ KeepCounting

Records == {k \in Jobs : rec[k].status # "none"}

Create(j) ==
    /\ pc[j] = "create"
    /\ IF Cardinality(Records) >= MaxJobs
       THEN pc' = [pc EXCEPT ![j] = "done"] /\ UNCHANGED rec
       ELSE /\ rec' = [rec EXCEPT ![j].status = "queued"]
            /\ pc' = [pc EXCEPT ![j] = "admit"]
    /\ UNCHANGED <<sup, child, phase, scoped>>
    /\ KeepCounting

-----------------------------------------------------------------------------
(* admit(): polled until the reservation is granted or the wait times out. *)

Granted_OneTooMany(j) == \E available \in Readings :
                 /\ Thermal => Cardinality(Others(j)) <= MaxRemedies
                 /\ SlotFree(j) /\ MemoryFits(j, available)

Granted(j) == \E available \in Readings :
                 /\ Seen(sup[j]) = "live"
                 /\ Thermal => Cardinality(Others(j)) < MaxRemedies
                 /\ SlotFree(j)
                 /\ MemoryFits(j, available)

Admit(j) ==
    /\ pc[j] \in {"admit", "readmit"}
    /\ IF NeedsReservation(j)
       THEN /\ Granted(j)
            /\ rec' = [rec EXCEPT ![j].status = "admitted"]
       ELSE UNCHANGED rec
    /\ pc' = [pc EXCEPT ![j] = "launch"]
    /\ UNCHANGED <<sup, child, phase, scoped>>
    /\ IF NeedsReservation(j) THEN StartCounting(j) ELSE KeepCounting

(* A recovery wait under the warn policy reserves at every poll although the
   headroom gate is still closed, so the slot is held while waiting. *)
ReserveEarly(j) ==
    /\ pc[j] = "readmit" /\ NeedsReservation(j)
    /\ Granted(j)
    /\ rec' = [rec EXCEPT ![j].status = "admitted"]
    /\ UNCHANGED <<pc, sup, child, phase, scoped>>
    /\ StartCounting(j)

QueueTimeout(j) ==
    /\ pc[j] \in {"admit", "readmit"}
    /\ rec' = [rec EXCEPT ![j].status = "queued_timeout"]
    /\ pc' = [pc EXCEPT ![j] = "done"]
    /\ UNCHANGED <<sup, child, phase, scoped>>
    /\ KeepCounting

-----------------------------------------------------------------------------
(* _launch() and the child's inner_main(). *)

Older(f) == IF f = "current" THEN "old" ELSE f

Popen(j) ==
    /\ pc[j] = "launch"
    /\ child' = [child EXCEPT ![j] = "live"]
    /\ phase' = [phase EXCEPT ![j] = "boot"]
    /\ rec' = [rec EXCEPT ![j].payload = Older(@), ![j].launch = Older(@)]
    /\ pc' = [pc EXCEPT ![j] = "record"]
    /\ UNCHANGED <<sup, scoped>>
    /\ KeepCounting

(* systemd-run missing: fall back before execution, or fail if mandatory;
   an unscoped failure leaves main() without touching the record. *)
PopenFails(j) ==
    /\ pc[j] = "launch"
    /\ \/ /\ scoped[j] /\ j \notin Mandatory
          /\ scoped' = [scoped EXCEPT ![j] = FALSE]
          /\ UNCHANGED <<rec, pc>>
       \/ /\ scoped[j] /\ j \in Mandatory
          /\ rec' = [rec EXCEPT ![j].status = "failed"]
          /\ pc' = [pc EXCEPT ![j] = "done"]
          /\ UNCHANGED scoped
       \/ /\ ~scoped[j]
          /\ pc' = [pc EXCEPT ![j] = "done"]
          /\ UNCHANGED <<rec, scoped>>
    /\ UNCHANGED <<sup, child, phase>>
    /\ KeepCounting

(* The launcher identity is recorded unless the child cannot be read any
   more or the store cannot be written; the child stays owned either way. *)
RecordLaunch(j) ==
    /\ pc[j] = "record"
    /\ \/ /\ child[j] = "live"
          /\ rec' = [rec EXCEPT ![j].launch = "current"]
       \/ (child[j] # "live" \/ j \in Unwritable) /\ UNCHANGED rec
    /\ pc' = [pc EXCEPT ![j] = "wait"]
    /\ UNCHANGED <<sup, child, phase, scoped>>
    /\ KeepCounting

(* register_payload reads the record first: without one the child exits. *)
Register(j) ==
    /\ child[j] = "live" /\ phase[j] = "boot"
    /\ rec[j].status # "none"
    /\ rec' = [rec EXCEPT ![j].payload = "current", ![j].status = "running"]
    /\ phase' = [phase EXCEPT ![j] = "registered"]
    /\ UNCHANGED <<pc, sup, child, scoped>>
    /\ KeepCounting

(* The marker is written and the payload takes over the process. *)
Exec(j) ==
    /\ child[j] \in {"live", "hidden"} /\ phase[j] = "registered"
    /\ phase' = [phase EXCEPT ![j] = "started"]
    /\ UNCHANGED <<rec, pc, sup, child, scoped>>
    /\ KeepCounting

(* A child exits at any point; it stays a zombie until its parent reaps it. *)
ChildExit(j) ==
    /\ child[j] \in {"live", "hidden"}
    /\ child' = [child EXCEPT ![j] = IF sup[j] = "live" THEN "zombie" ELSE "gone"]
    /\ UNCHANGED <<rec, pc, sup, phase, scoped>>
    /\ KeepCounting

-----------------------------------------------------------------------------
(* _wait() and the end of main()'s loop. *)

Reap(j) ==
    /\ pc[j] = "wait" /\ child[j] = "zombie"
    /\ child' = [child EXCEPT ![j] = "gone"]
    /\ pc' = [pc EXCEPT ![j] = "reaped"]
    /\ UNCHANGED <<rec, sup, phase, scoped>>
    /\ KeepCounting

Settle(j) ==
    /\ pc[j] = "reaped"
    /\ IF scoped[j] /\ phase[j] # "started"
       THEN IF j \in Mandatory
            THEN /\ rec' = [rec EXCEPT ![j].status = "failed"]
                 /\ pc' = [pc EXCEPT ![j] = "done"]
                 /\ UNCHANGED scoped
            ELSE /\ scoped' = [scoped EXCEPT ![j] = FALSE]
                 /\ pc' = [pc EXCEPT ![j] = "launch"]
                 /\ UNCHANGED rec
       ELSE /\ \E s \in {"finished", "failed"} : rec' = [rec EXCEPT ![j].status = s]
            /\ pc' = [pc EXCEPT ![j] = "done"]
            /\ UNCHANGED scoped
    /\ UNCHANGED <<sup, child, phase>>
    /\ KeepCounting

(* handle_restart(): consent is consumed, the validated group is terminated
   and reaped; then the record goes back to the queue, keeping the identity
   of the dead launcher. *)
Restart(j) ==
    /\ pc[j] = "wait" /\ j \in Restartable
    /\ rec[j].restarts = 0
    /\ rec[j].status = "running" /\ rec[j].payload = "current" /\ rec[j].launch = "current"
    /\ child[j] = "live"
    /\ \/ /\ rec' = [rec EXCEPT ![j].restarts = 1]
          /\ child' = [child EXCEPT ![j] = "gone"]
          /\ pc' = [pc EXCEPT ![j] = "requeue"]
       \/ /\ rec' = [rec EXCEPT ![j].restarts = 1]     \* refused, the payload runs on,
          /\ pc' \in {pc, [pc EXCEPT ![j] = "done"]}   \* perhaps without its supervisor
          /\ UNCHANGED child
       \/ /\ rec' = [rec EXCEPT ![j].restarts = 1, ![j].status = "failed"]
          /\ child' = [child EXCEPT ![j] = "gone"]
          /\ pc' = [pc EXCEPT ![j] = "done"]
    /\ UNCHANGED <<sup, phase, scoped>>
    /\ KeepCounting

Requeue(j) ==
    /\ pc[j] = "requeue"
    /\ rec' = [rec EXCEPT ![j].status = "queued", ![j].payload = "none"]
    /\ pc' = [pc EXCEPT ![j] = "readmit"]
    /\ UNCHANGED <<sup, child, phase, scoped>>
    /\ KeepCounting

-----------------------------------------------------------------------------
(* The end of a supervisor, and what the operating system does. *)

Exit(j) ==
    /\ pc[j] = "done"
    /\ sup' = [sup EXCEPT ![j] = "gone"]
    /\ child' = [child EXCEPT ![j] = IF @ = "zombie" THEN "gone" ELSE @]
    /\ pc' = [pc EXCEPT ![j] = "exited"]
    /\ UNCHANGED <<rec, phase, scoped>>
    /\ KeepCounting

Crash(j) ==
    /\ j \in CanCrash /\ sup[j] = "live"
    /\ sup' = [sup EXCEPT ![j] = "gone"]
    /\ child' = [child EXCEPT ![j] = IF @ = "zombie" THEN "gone" ELSE @]
    /\ pc' = [pc EXCEPT ![j] = "crashed"]
    /\ UNCHANGED <<rec, phase, scoped>>
    /\ KeepCounting

Hide(j) ==
    /\ j \in CanHide
    /\ \/ child[j] = "live" /\ child' = [child EXCEPT ![j] = "hidden"]
       \/ child[j] = "hidden" /\ child' = [child EXCEPT ![j] = "live"]
    /\ UNCHANGED <<rec, pc, sup, phase, scoped>>
    /\ KeepCounting

Supervise(j) == \/ Cleanup(j) \/ Create(j) \/ Admit(j) \/ ReserveEarly(j)
                \/ Popen(j) \/ PopenFails(j) \/ RecordLaunch(j)
                \/ Reap(j) \/ Settle(j) \/ Requeue(j) \/ Exit(j)

Inner(j) == Register(j) \/ Exec(j) \/ ChildExit(j)

Next == \E j \in Jobs : \/ Supervise(j) \/ Inner(j)
                        \/ QueueTimeout(j) \/ Restart(j) \/ Crash(j) \/ Hide(j)

Spec == Init /\ [][Next]_vars

(* A supervisor's own steps happen; a running payload and an unreadable one
   end at some time (the model's bound on payload run time, not the code's). *)
Fairness == \A j \in Jobs : /\ WF_vars(Supervise(j))
                             /\ WF_vars(ChildExit(j))
FairSpec == Spec /\ Fairness

-----------------------------------------------------------------------------
(* Properties.                                                             *)

Cohabitants(j) == {k \in Jobs : kept[k] /\ Limit[k] > 0 /\ Cohort[k] = Cohort[j]}

(* reserve_admission: reservations made and counted ever since never exceed
   the smallest --max-parallel declared among them, whatever the order of the
   supervisors' lock sections, crashes and cleanup passes. *)
SlotLimit == \A j \in Jobs : kept[j] /\ Limit[j] > 0 =>
                Cardinality(Cohabitants(j)) <= Limit[j]

Executing(j) == child[j] \in {"live", "hidden"} /\ phase[j] = "started"

(* A supervisor still on its first launch has never lost its reservation, so
   the payloads of such jobs respect the limit: neither cleanup() nor the
   registration of the payload may drop or bypass it. *)
FirstLaunch(j) == /\ sup[j] = "live" /\ rec[j].restarts = 0
                  /\ scoped[j] = (j \in Scoped)

FirstLaunchLimit == \A j \in Jobs :
    Executing(j) /\ FirstLaunch(j) /\ Limit[j] > 0 =>
       Cardinality({k \in Jobs : /\ Executing(k) /\ FirstLaunch(k)
                                 /\ Limit[k] > 0 /\ Cohort[k] = Cohort[j]}) <= Limit[j]

(* reserve_memory_mib: the promises counted since they were made stay below
   the largest reading the machine ever gave, less the floor. *)
MemoryPromise == LET K == {k \in Jobs : kept[k]}
                 IN  (\E k \in K : Request[k] > 0) =>
                       \E available \in Readings : Reserved(K) + Floor < available

(* thermal.MAX_REMEDIES: with thermal protection enforcing, every batch job
   reserves, so no more jobs than the guard can restrain are ever counted
   without interruption. *)
GuardCapacity == Thermal => Cardinality({k \in Jobs : kept[k]}) <= MaxRemedies

(* cleanup() never removes a record some recorded process of which may still
   be alive (the comment at its deletion loop). *)
LiveRecordsRemain == [][\A j \in Jobs :
    rec[j].status # "none" /\ rec'[j].status = "none" =>
        sup[j] # "live" /\ ~(child[j] \in {"live", "hidden"} /\ phase[j] # "boot")]_vars

(* A supervisor that waits for admission gets a slot, although peers hold
   reservations while they wait for headroom and crashed peers leave theirs
   behind: nobody waits for ever once the others' processes end. *)
EventuallyAdmitted == \A j \in Jobs :
    pc[j] \in {"admit", "readmit"} ~> pc[j] \notin {"admit", "readmit"}

(* docs/resource-reliability.md:76: "Concurrency and memory reservations are
   committed under one private lock before launch." *)
SlotsHonoured == \A j \in Jobs : Executing(j) /\ Limit[j] > 0 =>
    Cardinality({k \in Jobs : /\ Executing(k) /\ Limit[k] > 0
                              /\ Cohort[k] = Cohort[j]}) <= Limit[j]
=============================================================================
