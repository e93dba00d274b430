----------------------------- MODULE Investigations -----------------------------
(***************************************************************************)
(* Who investigates a resource incident, and when: IncidentScheduler in    *)
(* the health monitor, `codex-resource investigate` by an operator, the    *)
(* detached worker, and the model process the two of them start.           *)
(*                                                                         *)
(* investigator.lock is a flock of an open file description: it is held    *)
(* until the last process with a copy of the description has closed it.    *)
(* The worker inherits the monitor's copy.  Wall time is real time less    *)
(* what the clock was set back; a unit is 30 seconds.  Steps between       *)
(* reading the clock and recording a start take no time (seconds in the    *)
(* code, minutes in its constants).  What a worker does with an answer is  *)
(* the subject of module Incidents.                                        *)
(***************************************************************************)
EXTENDS Integers, FiniteSets

CONSTANTS
    Manuals, Workers,          \* invocations of codex-resource, by an operator
                               \* and by the monitor
    Interval, Sustain, MaxGap, \* 15 s between ticks, 60 s of pressure, 60 s
                               \* between two samples that belong together
    Cooldown,                  \* COOLDOWN_SECONDS
    Calls,                     \* commands investigate() runs (probes and exec)
    Horizon, SetBack           \* bounds: real time, and the clock set back

ASSUME TimeAssumption ==
    /\ {Interval, Sustain, MaxGap, Cooldown, Calls, Horizon, SetBack} \subseteq Nat
    /\ 0 < Interval /\ Interval <= MaxGap /\ 0 < Calls

Monitor == "monitor"
Investigators == Manuals \cup Workers
ASSUME NameAssumption == Monitor \notin Investigators

Points == {"idle", "lock", "locked", "clear", "recorded", "launched", "boot",
           "begin", "report", "ask", "reading", "apply", "save"}
Never == -1

VARIABLES
    real, shift,   \* real time, what the wall clock is behind it
    ticked,        \* HealthMonitor.last_sample
    scheduler,     \* resource_scheduler is not None
    since, last,   \* IncidentScheduler.since, last_sample
    cooldown,      \* cooldown.json
    holders,       \* who has a copy of the locked description
    pc,            \* of the monitor and the investigators
    late, left,    \* of an investigator: its deadline has passed, commands
                   \* still to run
    started        \* history: when the last investigation began

clock_vars   == <<real, shift>>
monitor_vars == <<ticked, scheduler, since, last>>
run_vars     == <<late, left>>
vars == <<clock_vars, monitor_vars, cooldown, holders, pc, run_vars, started>>

TypeOK ==
    /\ real \in 0..Horizon /\ shift \in 0..SetBack
    /\ {ticked, since, last, cooldown} \subseteq Never..Horizon /\ scheduler \in BOOLEAN
    /\ holders \subseteq Investigators \cup {Monitor}
    /\ pc \in [Investigators \cup {Monitor} -> Points]
    /\ late \in [Investigators -> BOOLEAN] /\ left \in [Investigators -> 0..Calls]
    /\ started \in -Cooldown..Horizon

Init ==
    /\ real = 0 /\ shift = 0
    /\ ticked = Never /\ scheduler = FALSE /\ since = Never /\ last = Never
    /\ cooldown = Never /\ holders = {}
    /\ pc = [p \in Investigators \cup {Monitor} |-> "idle"]
    /\ late = [p \in Investigators |-> FALSE] /\ left = [p \in Investigators |-> 0]
    /\ started = -Cooldown

Wall == IF real < shift THEN 0 ELSE real - shift
GoTo(p, point) == pc' = [pc EXCEPT ![p] = point]

\* Released with a bug: the monitor forgets to close its copy of the lock.
Released_Fault(p) == IF p = Monitor THEN holders ELSE holders \ {p}

\* The `finally` of incident_lock, or the end of the process.
Released(p) == holders \ {p}

Leave(p) ==
    /\ GoTo(p, "idle") /\ holders' = Released(p)
    /\ late' = [q \in Investigators |-> q # p /\ late[q]]
    /\ left' = [q \in Investigators |-> IF q = p THEN 0 ELSE left[q]]
-----------------------------------------------------------------------------
(* The tail of HealthMonitor.tick, and IncidentScheduler.sample.            *)

Due == ticked = Never \/ Wall < ticked \/ Wall - ticked >= Interval

\* An earlier part of the tick fails and annotate's loop goes on.
TickFails ==
    /\ pc[Monitor] = "idle" /\ Due /\ ticked' = Wall
    /\ UNCHANGED <<clock_vars, scheduler, since, last, cooldown, holders, pc, run_vars, started>>

\* Unreadable settings drop the scheduler; it is made when they ask for it.
NoSample(setting) ==
    /\ pc[Monitor] = "idle" /\ Due /\ ticked' = Wall
    /\ setting = "error" \/ (setting = "off" /\ ~scheduler)
    /\ scheduler' = FALSE /\ since' = Never /\ last' = Never
    /\ UNCHANGED <<clock_vars, cooldown, holders, pc, run_vars, started>>

\* Samples too far apart, or a clock set back, begin the wait anew.
Together == last = Never \/ (Wall >= last /\ Wall - last <= MaxGap)

Sample(setting, reading) ==
    LET from == IF since # Never /\ Together THEN since ELSE Wall
        wanted == setting = "codex" /\ reading \in {"pressure", "starved"}
    IN
    /\ pc[Monitor] = "idle" /\ Due /\ ticked' = Wall
    /\ setting = "codex" \/ (setting = "off" /\ scheduler)
    /\ scheduler' = TRUE /\ last' = Wall
    /\ since' = IF wanted THEN from ELSE Never
    /\ IF wanted /\ Wall - from >= Sustain /\ reading # "starved"
       THEN GoTo(Monitor, "lock") ELSE UNCHANGED pc
    /\ UNCHANGED <<clock_vars, cooldown, holders, run_vars, started>>

\* OSError, ValueError or SubprocessError: no retry on the next passes.
SampleFails ==
    /\ pc[Monitor] \in {"lock", "locked", "clear", "recorded"}
    /\ since' = Wall /\ Leave(Monitor)
    /\ UNCHANGED <<clock_vars, ticked, scheduler, last, cooldown, started>>
-----------------------------------------------------------------------------
(* The lock and the cooldown.                                              *)

\* codex-resource investigate
Invoke(p) ==
    /\ p \in Manuals /\ pc[p] = "idle"
    /\ GoTo(p, "lock")
    /\ UNCHANGED <<clock_vars, monitor_vars, cooldown, holders, run_vars, started>>

\* Free with a bug: the lock is asked for and the answer not looked at.
Free_Fault(p) == TRUE

\* flock(LOCK_EX | LOCK_NB) succeeds on a description that holds the lock.
Free(p) == holders \subseteq {p}

TryLock(p) ==
    /\ pc[p] = "lock"
    /\ IF Free(p)
       THEN GoTo(p, "locked") /\ holders' = holders \cup {p} /\ UNCHANGED run_vars
       ELSE Leave(p)
    /\ UNCHANGED <<clock_vars, monitor_vars, cooldown, started>>

\* LastStarted with a bug: a start in the future is taken for none.
LastStarted_Fault == IF cooldown > Wall THEN Never ELSE cooldown

\* A clock set back starts a fresh cooldown, which is written at once.
LastStarted == IF cooldown > Wall THEN Wall ELSE cooldown

Ready == LastStarted = Never \/ Wall - LastStarted >= Cooldown

Check(p) ==
    /\ pc[p] = "locked"
    /\ cooldown' = LastStarted
    /\ IF Ready THEN GoTo(p, "clear") /\ UNCHANGED <<holders, run_vars>> ELSE Leave(p)
    /\ UNCHANGED <<clock_vars, monitor_vars, started>>

RecordStart(p) ==
    /\ pc[p] = "clear" /\ cooldown' = Wall
    /\ IF p = Monitor THEN GoTo(p, "recorded") /\ UNCHANGED started
                      ELSE GoTo(p, "begin") /\ started' = real
    /\ UNCHANGED <<clock_vars, monitor_vars, holders, run_vars>>

Launch(w) ==
    /\ pc[Monitor] = "recorded" /\ pc[w] = "idle"
    /\ pc' = [pc EXCEPT ![Monitor] = "launched", ![w] = "boot"]
    /\ holders' = holders \cup {w} /\ started' = real
    /\ UNCHANGED <<clock_vars, monitor_vars, cooldown, run_vars>>

Close ==
    /\ pc[Monitor] = "launched" /\ Leave(Monitor)
    /\ UNCHANGED <<clock_vars, monitor_vars, cooldown, started>>
-----------------------------------------------------------------------------
(* The investigation: run_investigation, _investigate, investigate.        *)

run_rest == <<clock_vars, monitor_vars, cooldown, started>>

\* The worker locks the description it inherited.
Boot(p) ==
    /\ pc[p] = "boot"
    /\ IF Free(p) \/ p \in holders
       THEN GoTo(p, "begin") /\ holders' = holders \cup {p} /\ UNCHANGED run_vars
       ELSE Leave(p)
    /\ UNCHANGED run_rest

\* Investigator off, memory unknown or short, or a file that cannot be used.
Decline(p) ==
    /\ pc[p] \in {"boot", "begin", "report"} \/ (p \in Manuals /\ pc[p] \in {"locked", "clear"})
    /\ Leave(p) /\ UNCHANGED run_rest

Begin(p) ==
    /\ pc[p] = "begin" /\ GoTo(p, "report")
    /\ UNCHANGED <<run_rest, holders, run_vars>>

\* The report is on disk before the model is asked.
Report(p) ==
    /\ pc[p] = "report" /\ GoTo(p, "ask")
    /\ left' = [left EXCEPT ![p] = Calls]
    /\ UNCHANGED <<run_rest, holders, late>>

\* investigate() finds no way to isolate the model, or cannot start it.
Refuse(p) ==
    /\ pc[p] = "ask" /\ GoTo(p, "save")
    /\ UNCHANGED <<run_rest, holders, run_vars>>

\* A command in a session of its own, without a copy of the lock.
Spawn(p) ==
    /\ pc[p] = "ask" /\ GoTo(p, "reading")
    /\ UNCHANGED <<run_rest, holders, run_vars>>

\* It ended well, or with an error, too much output or out of time; what is
\* left of its session is killed.
Heard(p) ==
    /\ pc[p] = "reading" /\ left' = [left EXCEPT ![p] = @ - 1]
    /\ \/ GoTo(p, IF left[p] > 1 THEN "ask" ELSE "apply")
       \/ GoTo(p, "save")
    /\ UNCHANGED <<run_rest, holders, late>>

\* The answer is validated and stored, its actions applied.
Apply(p) ==
    /\ pc[p] = "apply" /\ GoTo(p, "save")
    /\ UNCHANGED <<run_rest, holders, run_vars>>

Save(p) ==
    /\ pc[p] = "save" /\ Leave(p) /\ UNCHANGED run_rest

\* The alarm after 120 seconds, caught once a report is on disk.
WorkerTimeout(p) ==
    /\ ~late[p]
    /\ \/ /\ pc[p] \in {"begin", "report"}
                \/ (p \in Manuals /\ pc[p] \in {"lock", "locked", "clear"})
          /\ Leave(p)
       \/ /\ pc[p] \in {"ask", "reading", "apply", "save"} /\ GoTo(p, "save")
          /\ late' = [late EXCEPT ![p] = TRUE] /\ UNCHANGED <<holders, left>>
    /\ UNCHANGED run_rest

\* The end of the grace.
CleanupTimeout(p) ==
    /\ late[p] /\ Leave(p) /\ UNCHANGED run_rest
-----------------------------------------------------------------------------
(* Time, and the end of processes.                                         *)

Busy == {"lock", "locked", "clear", "recorded"}
Still == \A p \in Manuals \cup {Monitor} : pc[p] \notin Busy

Advance ==
    /\ Still /\ \E d \in {1, MaxGap + 1} : real + d <= Horizon /\ real' = real + d
    /\ UNCHANGED <<shift, monitor_vars, cooldown, holders, pc, run_vars, started>>

ClockSetBack ==
    /\ Still /\ shift = 0 /\ shift' \in 1..SetBack
    /\ UNCHANGED <<real, monitor_vars, cooldown, holders, pc, run_vars, started>>

\* SIGKILL of an investigator.
Die(p) == pc[p] # "idle" /\ Leave(p) /\ UNCHANGED run_rest

\* The annotator is restarted.
Restart ==
    /\ ticked' = Never /\ scheduler' = FALSE /\ since' = Never /\ last' = Never
    /\ Leave(Monitor)
    /\ UNCHANGED <<clock_vars, cooldown, started>>

MonitorStep == TryLock(Monitor) \/ Check(Monitor) \/ RecordStart(Monitor)
               \/ (\E w \in Workers : Launch(w)) \/ Close

Step(p) == \/ TryLock(p) \/ Check(p) \/ RecordStart(p) \/ Boot(p) \/ Begin(p) \/ Report(p)
           \/ Spawn(p) \/ Heard(p) \/ Apply(p) \/ Save(p)

Next ==
    \/ MonitorStep \/ TickFails \/ SampleFails \/ Advance \/ ClockSetBack \/ Restart
    \/ \E setting \in {"codex", "off", "error"} : NoSample(setting)
    \/ \E setting \in {"codex", "off"}, reading \in {"calm", "unknown", "pressure", "starved"} :
          Sample(setting, reading)
    \/ \E p \in Investigators : \/ Invoke(p) \/ Step(p) \/ Decline(p) \/ Refuse(p)
                                \/ WorkerTimeout(p) \/ CleanupTimeout(p) \/ Die(p)

Spec == Init /\ [][Next]_vars

(* Processes run, and bounded_run does not wait beyond its deadline. *)
FairSpec == Spec /\ WF_vars(MonitorStep) /\ \A p \in Investigators : WF_vars(Step(p))
-----------------------------------------------------------------------------
(* Properties.                                                             *)

(* README.md:807 "One private lock covers scheduled and manual workers": no
   two processes are between taking it and their last write, whichever process
   launched, inherited, closed or died on the way. *)
OneInvestigator ==
    Cardinality({p \in Investigators : pc[p] \notin {"idle", "lock"}}) <= 1

(* README.md:808 "there is a 15-minute cooldown": no investigation begins
   within a cooldown of the one before in real time, also when the clock was
   set back, the monitor restarted or a launch failed. *)
StartsApart ==
    [][(\E w \in Workers : pc[w] = "idle" /\ pc'[w] = "boot")
         \/ (\E m \in Manuals : pc[m] = "clear" /\ pc'[m] = "begin")
       => real - started >= Cooldown]_vars

(* The lock is never lost: whoever fails, times out or dies, and wherever the
   monitor is restarted, it comes free again and again. *)
LockComesFree == []<>(holders = {})
=============================================================================
