------------------------- MODULE InvestigationsProofs -------------------------
(***************************************************************************)
(* Mutual exclusion of investigations, for any number of operators and     *)
(* workers, any times and any bounds.  The lock is not owned by a process  *)
(* but by whoever has a copy of its open file, so the inductive invariant  *)
(* says who has one at which point, and that the monitor is the only one   *)
(* to share it, with the one worker it launched.                           *)
(***************************************************************************)
EXTENDS Investigations, FiniteSetTheorems, TLAPS

Free_pcs == {"idle", "lock"}
Active == Points \ Free_pcs
Alone  == {"locked", "clear", "recorded"}

HoldersInv ==
    /\ pc \in [Investigators \cup {Monitor} -> Points]
    /\ holders \subseteq Investigators \cup {Monitor}
    \* a process has a copy exactly while it is at work,
    /\ \A p \in Investigators \cup {Monitor} : p \in holders <=> pc[p] \in Active
    \* the monitor has the only one until it launches the worker,
    /\ pc[Monitor] \in Alone => holders \subseteq {Monitor}
    /\ pc[Monitor] \in Free_pcs \cup Alone \cup {"launched"}
    \* and no two investigators have one.
    /\ \A p, q \in Investigators : p \in holders /\ q \in holders => p = q

USE NameAssumption

(* A process that leaves gives up its copy and nothing else. *)
LEMMA LeaveKeeps ==
    ASSUME HoldersInv, NEW p \in Investigators \cup {Monitor}, Leave(p)
    PROVE  HoldersInv'
<1>1. pc' = [pc EXCEPT ![p] = "idle"] /\ holders' = holders \ {p}
  BY DEF Leave, GoTo, Released
<1>. QED  BY <1>1 DEF HoldersInv, Points, Active, Free_pcs, Alone

(* An investigator at work that goes on working. *)
LEMMA WorkKeeps ==
    ASSUME HoldersInv, NEW p \in Investigators, NEW point \in Active,
           pc[p] \in Active, GoTo(p, point), UNCHANGED holders
    PROVE  HoldersInv'
BY DEF HoldersInv, GoTo, Points, Active, Free_pcs, Alone

(* The monitor at work that goes on, still alone. *)
LEMMA MonitorKeeps ==
    ASSUME HoldersInv, NEW point \in Alone,
           pc[Monitor] \in Alone, GoTo(Monitor, point), UNCHANGED holders
    PROVE  HoldersInv'
BY DEF HoldersInv, GoTo, Points, Active, Free_pcs, Alone

(* A process that asks for the lock. *)
LEMMA AskKeeps ==
    ASSUME HoldersInv, NEW p \in Investigators \cup {Monitor},
           pc[p] = "idle", GoTo(p, "lock"), UNCHANGED holders
    PROVE  HoldersInv'
BY DEF HoldersInv, GoTo, Points, Active, Free_pcs, Alone

(* A process that gets it: nobody else had a copy. *)
LEMMA LockKeeps ==
    ASSUME HoldersInv, NEW p \in Investigators \cup {Monitor}, TryLock(p)
    PROVE  HoldersInv'
<1>1. CASE Free(p)
  <2>1. pc[p] = "lock" /\ holders \subseteq {p}
    BY <1>1 DEF TryLock, Free
  <2>2. pc' = [pc EXCEPT ![p] = "locked"] /\ holders' = holders \cup {p}
    BY <1>1 DEF TryLock, GoTo
  <2>. QED  BY <2>1, <2>2 DEF HoldersInv, Points, Active, Free_pcs, Alone
<1>2. CASE ~Free(p)
  BY <1>2, LeaveKeeps DEF TryLock
<1>. QED  BY <1>1, <1>2

(* Only the monitor, and only while it is alone, passes a copy on. *)
LEMMA LaunchKeeps ==
    ASSUME HoldersInv, NEW w \in Workers, Launch(w)
    PROVE  HoldersInv'
<1>1. pc[Monitor] = "recorded" /\ pc[w] = "idle" /\ w \in Investigators
  BY DEF Launch, Investigators
<1>2. holders \subseteq {Monitor}
  BY <1>1 DEF HoldersInv, Alone
<1>3. pc' = [pc EXCEPT ![Monitor] = "launched", ![w] = "boot"]
      /\ holders' = holders \cup {w}
  BY DEF Launch
<1>. QED  BY <1>1, <1>2, <1>3 DEF HoldersInv, Points, Active, Free_pcs, Alone

(* The steps of the monitor that touch the lock or its own point. *)
LEMMA MonitorStepKeeps == ASSUME HoldersInv, MonitorStep PROVE HoldersInv'
<1>1. CASE TryLock(Monitor)
  BY <1>1, LockKeeps
<1>2. CASE Check(Monitor)
  <2>1. pc[Monitor] = "locked"
    BY <1>2 DEF Check
  <2>2. \/ GoTo(Monitor, "clear") /\ UNCHANGED holders
        \/ Leave(Monitor)
    BY <1>2 DEF Check
  <2>. QED  BY <2>1, <2>2, LeaveKeeps, MonitorKeeps DEF Alone
<1>3. CASE RecordStart(Monitor)
  <2>1. pc[Monitor] = "clear" /\ GoTo(Monitor, "recorded") /\ UNCHANGED holders
    BY <1>3 DEF RecordStart
  <2>. QED  BY <2>1, MonitorKeeps DEF Alone
<1>4. CASE \E w \in Workers : Launch(w)
  BY <1>4, LaunchKeeps
<1>5. CASE Close
  BY <1>5, LeaveKeeps DEF Close
<1>. QED  BY <1>1, <1>2, <1>3, <1>4, <1>5 DEF MonitorStep

(* The steps of an investigator. *)
LEMMA StepKeeps ==
    ASSUME HoldersInv, NEW p \in Investigators, Step(p)
    PROVE  HoldersInv'
<1>m. p # Monitor
  OBVIOUS
<1>1. CASE TryLock(p)
  BY <1>1, LockKeeps
<1>2. CASE Check(p)
  <2>1. pc[p] \in Active
    BY <1>2 DEF Check, Active, Points, Free_pcs
  <2>2. \/ GoTo(p, "clear") /\ UNCHANGED holders
        \/ Leave(p)
    BY <1>2 DEF Check
  <2>. QED  BY <2>1, <2>2, LeaveKeeps, WorkKeeps DEF Active, Points, Free_pcs
<1>3. CASE RecordStart(p)
  <2>1. pc[p] = "clear" /\ GoTo(p, "begin") /\ UNCHANGED holders
    BY <1>3, <1>m DEF RecordStart
  <2>. QED  BY <2>1, WorkKeeps DEF Active, Points, Free_pcs
<1>4. CASE Boot(p)
  <2>1. pc[p] = "boot"
    BY <1>4 DEF Boot
  <2>2. p \in holders
    BY <2>1 DEF HoldersInv, Active, Points, Free_pcs
  <2>3. GoTo(p, "begin") /\ UNCHANGED holders
    BY <1>4, <2>2 DEF Boot
  <2>. QED  BY <2>1, <2>3, WorkKeeps DEF Active, Points, Free_pcs
<1>5. CASE Begin(p)
  BY <1>5, WorkKeeps DEF Begin, Active, Points, Free_pcs
<1>6. CASE Report(p)
  BY <1>6, WorkKeeps DEF Report, run_rest, Active, Points, Free_pcs
<1>7. CASE Spawn(p)
  BY <1>7, WorkKeeps DEF Spawn, Active, Points, Free_pcs
<1>8. CASE Heard(p)
  <2>1. PICK point \in {"ask", "apply", "save"} : GoTo(p, point)
    BY <1>8 DEF Heard
  <2>2. pc[p] = "reading" /\ UNCHANGED holders
    BY <1>8 DEF Heard
  <2>. QED  BY <2>1, <2>2, WorkKeeps DEF Active, Points, Free_pcs
<1>9. CASE Apply(p)
  BY <1>9, WorkKeeps DEF Apply, Active, Points, Free_pcs
<1>10. CASE Save(p)
  BY <1>10, LeaveKeeps DEF Save
<1>. QED  BY <1>1, <1>2, <1>3, <1>4, <1>5, <1>6, <1>7, <1>8, <1>9, <1>10 DEF Step

(* Refusals, timeouts and the end of an investigator. *)
LEMMA FaultKeeps ==
    ASSUME HoldersInv, NEW p \in Investigators,
           Invoke(p) \/ Decline(p) \/ Refuse(p) \/ WorkerTimeout(p)
             \/ CleanupTimeout(p) \/ Die(p)
    PROVE  HoldersInv'
<1>1. CASE Invoke(p)
  BY <1>1, AskKeeps DEF Invoke
<1>2. CASE Decline(p)
  BY <1>2, LeaveKeeps DEF Decline
<1>3. CASE Refuse(p)
  BY <1>3, WorkKeeps DEF Refuse, Active, Points, Free_pcs
<1>4. CASE WorkerTimeout(p)
  <2>1. \/ Leave(p)
        \/ pc[p] \in {"ask", "reading", "apply", "save"} /\ GoTo(p, "save")
           /\ UNCHANGED holders
    BY <1>4 DEF WorkerTimeout
  <2>. QED  BY <2>1, LeaveKeeps, WorkKeeps DEF Active, Points, Free_pcs
<1>5. CASE CleanupTimeout(p)
  BY <1>5, LeaveKeeps DEF CleanupTimeout
<1>6. CASE Die(p)
  BY <1>6, LeaveKeeps DEF Die
<1>. QED  BY <1>1, <1>2, <1>3, <1>4, <1>5, <1>6

(* Every step keeps the invariant. *)
LEMMA NextKeeps == ASSUME HoldersInv, [Next]_vars PROVE HoldersInv'
<1>1. ASSUME UNCHANGED <<holders, pc>> PROVE HoldersInv'
  BY <1>1 DEF HoldersInv
<1>2. CASE MonitorStep
  BY <1>2, MonitorStepKeeps
<1>3. CASE TickFails
  BY <1>3, <1>1 DEF TickFails
<1>4. CASE SampleFails
  BY <1>4, LeaveKeeps DEF SampleFails
<1>5. CASE Advance \/ ClockSetBack
  BY <1>5, <1>1 DEF Advance, ClockSetBack
<1>6. CASE Restart
  BY <1>6, LeaveKeeps DEF Restart
<1>7. ASSUME NEW setting \in {"codex", "off", "error"}, NoSample(setting) PROVE HoldersInv'
  BY <1>7, <1>1 DEF NoSample
<1>8. ASSUME NEW setting \in {"codex", "off"},
             NEW reading \in {"calm", "unknown", "pressure", "starved"},
             Sample(setting, reading)
      PROVE  HoldersInv'
  <2>1. /\ pc[Monitor] = "idle" /\ UNCHANGED holders
        /\ GoTo(Monitor, "lock") \/ UNCHANGED pc
    BY <1>8 DEF Sample
  <2>. QED  BY <2>1, <1>1, AskKeeps
<1>9. ASSUME NEW p \in Investigators,
             \/ Invoke(p) \/ Step(p) \/ Decline(p) \/ Refuse(p)
             \/ WorkerTimeout(p) \/ CleanupTimeout(p) \/ Die(p)
      PROVE  HoldersInv'
  BY <1>9, StepKeeps, FaultKeeps
<1>10. CASE UNCHANGED vars
  BY <1>10, <1>1 DEF vars
<1>. QED  BY <1>2, <1>3, <1>4, <1>5, <1>6, <1>7, <1>8, <1>9, <1>10 DEF Next

LEMMA InitHolds == Init => HoldersInv
BY DEF Init, HoldersInv, Points, Active, Free_pcs, Alone

(* Who has a copy of the lock, at every point of every process. *)
THEOREM HoldersHold == Spec => []HoldersInv
<1>1. HoldersInv /\ [Next]_vars => HoldersInv'
  BY NextKeeps
<1>. QED  BY <1>1, InitHolds, PTL DEF Spec

(* At most one of any number of scheduled and manual investigations is between
   taking the lock and its last write. *)
THEOREM OneInvestigatorHolds == Spec => []OneInvestigator
<1>1. HoldersInv => OneInvestigator
  <2>. SUFFICES ASSUME HoldersInv PROVE OneInvestigator
    OBVIOUS
  <2>. DEFINE Busy_ones == {p \in Investigators : pc[p] \notin {"idle", "lock"}}
  <2>1. \A p, q \in Busy_ones : p = q
    BY DEF HoldersInv, Active, Free_pcs
  <2>2. CASE Busy_ones = {}
    <3>1. Cardinality(Busy_ones) = 0
      BY <2>2, FS_EmptySet
    <3>. QED  BY <3>1 DEF OneInvestigator
  <2>3. CASE Busy_ones # {}
    <3>1. PICK p \in Busy_ones : Busy_ones = {p}
      BY <2>1, <2>3
    <3>2. Cardinality(Busy_ones) = 1
      BY <3>1, FS_Singleton
    <3>. QED  BY <3>2 DEF OneInvestigator
  <2>. QED  BY <2>2, <2>3
<1>. QED  BY <1>1, HoldersHold, PTL
-----------------------------------------------------------------------------
(* Starts are apart in real time.  What cooldown.json holds is wall time,   *)
(* so the invariant bounds what a reading of the wall clock can claim:      *)
(* never more than the real time since the start.                           *)

LeftOK == \A p \in Investigators : pc[p] \in {"ask", "reading"} => left[p] >= 1

Cleared == {"clear", "recorded"}

ApartInv ==
    /\ started <= real
    /\ cooldown = Never => started = -Cooldown
    \* the wall clock never shows more time than has passed,
    /\ cooldown \in 0..Wall => Wall - cooldown <= real - started
    \* nothing moves between the check and the start it allows,
    /\ \A p \in Investigators \cup {Monitor} : pc[p] \in Cleared => real - started >= Cooldown
    /\ pc[Monitor] = "recorded" => cooldown = Wall
    \* and time does not pass for whoever is at it.
    /\ \A p \in Investigators : /\ pc[p] \in Busy => p \in Manuals
                                /\ pc[p] # "recorded"

Everyone == Investigators \cup {Monitor}

LEMMA WallFacts ==
    ASSUME TypeOK
    PROVE  /\ Wall \in 0..Horizon /\ Horizon \in Nat /\ Cooldown \in Nat /\ Calls \in Nat \ {0}
           /\ LastStarted \in Never..Horizon
<1>1. /\ Horizon \in Nat /\ SetBack \in Nat /\ Cooldown \in Nat /\ Calls \in Nat \ {0}
  BY TimeAssumption
<1>2. real \in 0..Horizon /\ shift \in 0..SetBack /\ cooldown \in Never..Horizon
  BY DEF TypeOK
<1>3. Wall \in 0..Horizon
  BY <1>1, <1>2 DEF Wall
<1>. QED  BY <1>1, <1>2, <1>3 DEF LastStarted, Never

LEMMA Moves ==
    ASSUME TypeOK, NEW p \in Everyone, NEW point, GoTo(p, point)
    PROVE  pc'[p] = point /\ \A q \in Everyone : q # p => pc'[q] = pc[q]
BY DEF TypeOK, GoTo, Everyone

LEMMA LeaveTypes ==
    ASSUME TypeOK, LeftOK, NEW p \in Everyone, Leave(p)
    PROVE  /\ holders' \subseteq Everyone /\ pc' \in [Everyone -> Points]
           /\ late' \in [Investigators -> BOOLEAN] /\ left' \in [Investigators -> 0..Calls]
           /\ LeftOK'
<1>1. /\ pc' = [pc EXCEPT ![p] = "idle"] /\ holders' = holders \ {p}
      /\ late' = [q \in Investigators |-> q # p /\ late[q]]
      /\ left' = [q \in Investigators |-> IF q = p THEN 0 ELSE left[q]]
  BY DEF Leave, GoTo, Released
<1>2. pc \in [Everyone -> Points] /\ holders \subseteq Everyone
      /\ left \in [Investigators -> 0..Calls] /\ Calls \in Nat
  BY TimeAssumption DEF TypeOK, Everyone
<1>3. pc' \in [Everyone -> Points]
  BY <1>1, <1>2 DEF Points
<1>4. late' \in [Investigators -> BOOLEAN]
  BY <1>1
<1>5. left' \in [Investigators -> 0..Calls]
  BY <1>1, <1>2
<1>6. LeftOK'
  BY <1>1, <1>2 DEF LeftOK, Everyone
<1>. QED  BY <1>1, <1>2, <1>3, <1>4, <1>5, <1>6

(* Times and clocks. *)
Times == /\ real \in 0..Horizon /\ shift \in 0..SetBack
         /\ {ticked, since, last, cooldown} \subseteq Never..Horizon /\ scheduler \in BOOLEAN
         /\ started \in -Cooldown..Horizon

LEMMA TimesStep == ASSUME TypeOK, [Next]_vars PROVE Times'
<1>a. /\ Wall \in Never..Horizon /\ LastStarted \in Never..Horizon /\ Never \in Never..Horizon
      /\ real \in -Cooldown..Horizon
  BY WallFacts DEF TypeOK, Never
<1>b. Times
  BY DEF TypeOK, Times
<1>1. CASE UNCHANGED <<clock_vars, monitor_vars, cooldown, started>>
  BY <1>b, <1>1 DEF Times, clock_vars, monitor_vars
<1>2. CASE TickFails \/ SampleFails \/ Restart
  BY <1>a, <1>b, <1>2 DEF TickFails, SampleFails, Restart, Times, clock_vars
<1>3. CASE \E setting \in {"codex", "off", "error"} : NoSample(setting)
  BY <1>a, <1>b, <1>3 DEF NoSample, Times, clock_vars
<1>4. CASE \E setting \in {"codex", "off"}, reading \in {"calm", "unknown", "pressure", "starved"} :
              Sample(setting, reading)
  <2>1. /\ ticked' = Wall /\ scheduler' = TRUE /\ last' = Wall /\ since' \in {since, Wall, Never}
        /\ UNCHANGED <<clock_vars, cooldown, started>>
    BY <1>4 DEF Sample
  <2>. QED  BY <1>a, <1>b, <2>1 DEF Times, clock_vars
<1>5. CASE Advance
  BY <1>b, <1>5, TimeAssumption DEF Advance, Times, monitor_vars
<1>6. CASE ClockSetBack
  BY <1>b, <1>6, TimeAssumption DEF ClockSetBack, Times, monitor_vars
<1>7. ASSUME NEW p \in Everyone, Check(p) PROVE Times'
  BY <1>a, <1>b, <1>7 DEF Check, Times, clock_vars, monitor_vars
<1>8. ASSUME NEW p \in Everyone, RecordStart(p) PROVE Times'
  BY <1>a, <1>b, <1>8 DEF RecordStart, Times, clock_vars, monitor_vars
<1>9. ASSUME NEW w \in Workers, Launch(w) PROVE Times'
  BY <1>a, <1>b, <1>9 DEF Launch, Times, clock_vars, monitor_vars
<1>10. CASE \/ UNCHANGED vars \/ TryLock(Monitor) \/ Close
            \/ \E p \in Investigators :
                 \/ Invoke(p) \/ TryLock(p) \/ Boot(p) \/ Begin(p) \/ Report(p) \/ Spawn(p)
                 \/ Heard(p) \/ Apply(p) \/ Save(p) \/ Decline(p) \/ Refuse(p)
                 \/ WorkerTimeout(p) \/ CleanupTimeout(p) \/ Die(p)
  <2>1. UNCHANGED <<clock_vars, monitor_vars, cooldown, started>>
    BY <1>10 DEF vars, TryLock, Close, Invoke, Boot, Begin, Report, Spawn, Heard, Apply, Save,
                 Decline, Refuse, WorkerTimeout, CleanupTimeout, Die, run_rest
  <2>. QED  BY <1>1, <2>1
<1>. QED  BY <1>2, <1>3, <1>4, <1>5, <1>6, <1>7, <1>8, <1>9, <1>10
          DEF Next, MonitorStep, Step, Everyone

(* Points, copies of the lock and what is left of a run. *)
Runs == /\ holders \subseteq Everyone /\ pc \in [Everyone -> Points]
        /\ late \in [Investigators -> BOOLEAN] /\ left \in [Investigators -> 0..Calls]
        /\ LeftOK

LEMMA RunsStep == ASSUME TypeOK, LeftOK, [Next]_vars PROVE Runs'
<1>a. Runs
  BY DEF TypeOK, Runs, Everyone
<1>b. Monitor \in Everyone /\ Monitor \notin Investigators /\ Investigators \subseteq Everyone
      /\ Workers \subseteq Investigators
  BY DEF Everyone, Investigators
<1>1. ASSUME NEW p \in Everyone, Leave(p) PROVE Runs'
  BY <1>1, LeaveTypes DEF Runs
<1>2. ASSUME NEW p \in Everyone, NEW point \in Points \ {"ask", "reading"}, GoTo(p, point),
             holders' \subseteq Everyone, left' = left, late' \in [Investigators -> BOOLEAN]
      PROVE  Runs'
  <2>1. pc' \in [Everyone -> Points]
    BY <1>a, <1>2 DEF Runs, GoTo
  <2>2. LeftOK'
    BY <1>2, <1>a, <1>b, Moves DEF Runs, LeftOK
  <2>. QED  BY <1>a, <1>2, <2>1, <2>2 DEF Runs
<1>3. ASSUME UNCHANGED <<holders, pc, run_vars>> PROVE Runs'
  BY <1>a, <1>3 DEF Runs, run_vars, LeftOK
<1>4. ASSUME NEW p \in Everyone, TryLock(p) PROVE Runs'
  BY <1>a, <1>1, <1>2, <1>4 DEF TryLock, Runs, Points, run_vars
<1>5. ASSUME NEW p \in Everyone, Check(p) PROVE Runs'
  BY <1>a, <1>1, <1>2, <1>5 DEF Check, Runs, Points, run_vars
<1>6. ASSUME NEW p \in Everyone, RecordStart(p) PROVE Runs'
  BY <1>a, <1>2, <1>6 DEF RecordStart, Runs, Points, run_vars
<1>7. ASSUME NEW w \in Workers, Launch(w) PROVE Runs'
  <2>1. /\ pc' = [pc EXCEPT ![Monitor] = "launched", ![w] = "boot"]
        /\ holders' = holders \cup {w} /\ UNCHANGED run_vars
    BY <1>7 DEF Launch
  <2>2. pc' \in [Everyone -> Points] /\ pc'[w] = "boot"
        /\ \A q \in Investigators : q # w => pc'[q] = pc[q]
    BY <1>a, <1>b, <2>1 DEF Runs, Points
  <2>. QED  BY <1>a, <1>b, <2>1, <2>2 DEF Runs, LeftOK, run_vars
<1>8. CASE Close \/ SampleFails \/ Restart
  BY <1>b, <1>1, <1>8 DEF Close, SampleFails, Restart
<1>9. CASE \/ TickFails \/ Advance \/ ClockSetBack \/ UNCHANGED vars
           \/ \E setting \in {"codex", "off", "error"} : NoSample(setting)
  BY <1>3, <1>9 DEF TickFails, Advance, ClockSetBack, NoSample, vars
<1>10. CASE \E setting \in {"codex", "off"},
               reading \in {"calm", "unknown", "pressure", "starved"} : Sample(setting, reading)
  <2>1. GoTo(Monitor, "lock") \/ UNCHANGED pc
    BY <1>10 DEF Sample
  <2>2. UNCHANGED <<holders, run_vars>>
    BY <1>10 DEF Sample
  <2>. QED  BY <1>a, <1>b, <1>2, <1>3, <2>1, <2>2 DEF Runs, Points, run_vars
<1>11. ASSUME NEW p \in Investigators,
              \/ Invoke(p) \/ Begin(p) \/ Refuse(p) \/ Apply(p)
       PROVE  Runs'
  <2>1. \E point \in {"lock", "report", "save"} : GoTo(p, point)
    BY <1>11 DEF Invoke, Begin, Refuse, Apply
  <2>2. UNCHANGED <<holders, run_vars>>
    BY <1>11 DEF Invoke, Begin, Refuse, Apply
  <2>. QED  BY <1>a, <1>b, <1>2, <2>1, <2>2 DEF Runs, Points, run_vars
<1>12. ASSUME NEW p \in Investigators, Boot(p) PROVE Runs'
  BY <1>a, <1>b, <1>1, <1>2, <1>12 DEF Boot, Runs, Points, run_vars
<1>13. ASSUME NEW p \in Investigators, Report(p) PROVE Runs'
  <2>1. /\ GoTo(p, "ask") /\ left' = [left EXCEPT ![p] = Calls] /\ UNCHANGED <<holders, late>>
    BY <1>13 DEF Report
  <2>2. Calls \in Nat /\ Calls >= 1
    BY TimeAssumption
  <2>3. pc' \in [Everyone -> Points] /\ \A q \in Investigators : q # p => pc'[q] = pc[q]
    BY <1>a, <1>b, <2>1 DEF GoTo, Runs, Points
  <2>. QED  BY <1>a, <2>1, <2>2, <2>3 DEF Runs, LeftOK
<1>14. ASSUME NEW p \in Investigators, Spawn(p) PROVE Runs'
  <2>1. pc[p] = "ask" /\ GoTo(p, "reading") /\ UNCHANGED <<holders, run_vars>>
    BY <1>14 DEF Spawn
  <2>2. pc' \in [Everyone -> Points] /\ \A q \in Investigators : q # p => pc'[q] = pc[q]
    BY <1>a, <1>b, <2>1 DEF GoTo, Runs, Points
  <2>. QED  BY <1>a, <2>1, <2>2 DEF Runs, LeftOK, run_vars
<1>15. ASSUME NEW p \in Investigators, Heard(p) PROVE Runs'
  <2>1. pc[p] = "reading" /\ left' = [left EXCEPT ![p] = left[p] - 1]
        /\ UNCHANGED <<holders, late>>
    BY <1>15 DEF Heard
  <2>2. PICK point \in {"ask", "apply", "save"} :
          GoTo(p, point) /\ (point = "ask" => left[p] > 1)
    BY <1>15 DEF Heard
  <2>3. left[p] \in 0..Calls /\ left[p] >= 1 /\ Calls \in Nat
    BY <1>a, <2>1, TimeAssumption DEF Runs, LeftOK
  <2>4. left' \in [Investigators -> 0..Calls] /\ left'[p] = left[p] - 1
        /\ \A q \in Investigators : q # p => left'[q] = left[q]
    BY <1>a, <2>1, <2>3 DEF Runs
  <2>5. pc' \in [Everyone -> Points] /\ pc'[p] = point
        /\ \A q \in Investigators : q # p => pc'[q] = pc[q]
    BY <1>a, <1>b, <2>2 DEF GoTo, Runs, Points
  <2>6. LeftOK'
    BY <2>2, <2>3, <2>4, <2>5 DEF LeftOK
  <2>. QED  BY <1>a, <2>1, <2>4, <2>5, <2>6 DEF Runs
<1>16. ASSUME NEW p \in Investigators, WorkerTimeout(p) PROVE Runs'
  <2>1. \/ Leave(p)
        \/ /\ GoTo(p, "save") /\ late' = [late EXCEPT ![p] = TRUE]
           /\ UNCHANGED <<holders, left>>
    BY <1>16 DEF WorkerTimeout
  <2>. QED  BY <1>a, <1>b, <1>1, <1>2, <2>1 DEF Runs, Points
<1>17. ASSUME NEW p \in Investigators, Save(p) \/ Decline(p) \/ CleanupTimeout(p) \/ Die(p)
       PROVE  Runs'
  BY <1>b, <1>1, <1>17 DEF Save, Decline, CleanupTimeout, Die
<1>. QED  BY <1>b, <1>4, <1>5, <1>6, <1>7, <1>8, <1>9, <1>10, <1>11, <1>12, <1>13, <1>14,
             <1>15, <1>16, <1>17 DEF Next, MonitorStep, Step

(* Every reachable state of the scheduler, the lock, the cooldown and the
   investigations has the declared shape. *)
THEOREM TypeCorrect == Spec => [](TypeOK /\ LeftOK)
<1>1. Init => TypeOK /\ LeftOK
  <2>1. /\ 0 \in 0..Horizon /\ 0 \in 0..SetBack /\ Never \in Never..Horizon
        /\ -Cooldown \in -Cooldown..Horizon /\ 0 \in 0..Calls
    BY TimeAssumption DEF Never
  <2>2. Init => TypeOK
    BY <2>1 DEF Init, TypeOK, Points
  <2>. QED  BY <2>2 DEF Init, LeftOK
<1>2. TypeOK /\ LeftOK /\ [Next]_vars => (TypeOK /\ LeftOK)'
  BY TimesStep, RunsStep DEF TypeOK, Times, Runs, Everyone
<1>. QED  BY <1>1, <1>2, PTL DEF Spec

(* A step that neither times nor records anything, and clears nobody. *)
LEMMA ApartFrame ==
    ASSUME ApartInv, UNCHANGED <<clock_vars, cooldown, started>>,
           \A p \in Everyone : \/ pc'[p] = pc[p] \/ pc'[p] \notin Busy
                               \/ /\ pc'[p] \in {"lock", "locked"}
                                  /\ p \in Investigators => p \in Manuals
    PROVE  ApartInv'
<1>1. Wall' = Wall
  BY DEF Wall, clock_vars
<1>2. Monitor \in Everyone /\ Investigators \subseteq Everyone
  BY DEF Everyone
<1>. QED  BY <1>1, <1>2 DEF ApartInv, Cleared, Busy, Everyone, clock_vars

(* Nobody else has passed the lock while one process is between it and its start. *)
LEMMA AloneInBusy ==
    ASSUME HoldersInv, NEW p \in Everyone, pc[p] \in {"locked", "clear", "recorded"},
           NEW q \in Everyone, q # p
    PROVE  pc[q] \notin {"locked", "clear", "recorded"}
BY DEF HoldersInv, Active, Alone, Points, Free_pcs, Everyone

(* A clock that is set back runs no faster than time. *)
Clock(t, behind) == IF t < behind THEN 0 ELSE t - behind

LEMMA ClockFacts ==
    ASSUME NEW t \in Nat, NEW d \in Nat, NEW b \in Nat
    PROVE  /\ Clock(t, b) \in Nat /\ Clock(t + d, b) \in Nat
           /\ Clock(t + d, b) - Clock(t, b) <= d /\ Clock(t, b) <= Clock(t, 0)
BY DEF Clock

LEMMA Elapsed ==
    ASSUME NEW t \in Nat, NEW t2 \in Nat, NEW w \in Nat, NEW w2 \in Nat, NEW s \in Int,
           NEW c \in Int, s <= t, t <= t2, w2 - w <= t2 - t,
           c \in 0..w => w - c <= t - s, c \in 0..w2
    PROVE  w2 - c <= t2 - s
<1>1. CASE c <= w
  BY <1>1
<1>2. CASE w < c
  BY <1>2
<1>. QED  BY <1>1, <1>2

LEMMA ApartStep ==
    ASSUME TypeOK, HoldersInv, ApartInv, [Next]_vars
    PROVE  ApartInv'
<1>a. /\ Wall \in 0..Horizon /\ Horizon \in Nat /\ Cooldown \in Nat
      /\ real \in Nat /\ shift \in Nat /\ cooldown \in Int /\ started \in Int
  BY WallFacts, TimeAssumption DEF TypeOK, Never
<1>b. Monitor \in Everyone /\ Monitor \notin Investigators /\ Investigators \subseteq Everyone
      /\ Workers \subseteq Investigators /\ Manuals \subseteq Investigators
  BY DEF Everyone, Investigators
<1>1. ASSUME NEW p \in Everyone, NEW point, GoTo(p, point),
             \/ point \notin Busy
             \/ point \in {"lock", "locked"} /\ (p \in Investigators => p \in Manuals),
             UNCHANGED <<clock_vars, cooldown, started>>
      PROVE  ApartInv'
  BY <1>1, Moves, ApartFrame
<1>2. ASSUME UNCHANGED <<clock_vars, cooldown, pc, started>> PROVE ApartInv'
  BY <1>2, ApartFrame
<1>3. ASSUME NEW p \in Everyone, TryLock(p) PROVE ApartInv'
  <2>1. p \in Investigators => p \in Manuals
    BY <1>3 DEF TryLock, ApartInv, Busy
  <2>2. GoTo(p, "locked") \/ GoTo(p, "idle")
    BY <1>3 DEF TryLock, Leave
  <2>. QED  BY <1>1, <1>3, <2>1, <2>2 DEF TryLock, Busy
<1>4. ASSUME NEW p \in Everyone, Check(p) PROVE ApartInv'
  <2>1. /\ pc[p] = "locked" /\ cooldown' = LastStarted
        /\ UNCHANGED <<clock_vars, started>>
        /\ GoTo(p, "idle") \/ (Ready /\ GoTo(p, "clear"))
    BY <1>4 DEF Check, Leave
  <2>2. PICK point \in {"idle", "clear"} : GoTo(p, point) /\ (point = "clear" => Ready)
    BY <2>1
  <2>3. pc'[p] = point /\ \A q \in Everyone : q # p => pc'[q] = pc[q]
    BY <2>2, Moves
  <2>4. Wall' = Wall /\ real' = real /\ started' = started
    BY <2>1 DEF Wall, clock_vars
  <2>5. /\ cooldown' \in 0..Wall => Wall - cooldown' <= real - started
        /\ cooldown' = Never => started = -Cooldown
    BY <1>a, <2>1 DEF LastStarted, ApartInv, Never
  <2>6. Ready => real - started >= Cooldown
    <3>1. CASE LastStarted = Never
      BY <1>a, <2>1, <2>5, <3>1
    <3>2. CASE LastStarted # Never /\ Wall - LastStarted >= Cooldown
      BY <1>a, <2>1, <2>5, <3>2, WallFacts DEF LastStarted, Never
    <3>. QED  BY <3>1, <3>2 DEF Ready
  <2>7. \A q \in Everyone : q # p => pc[q] \notin {"locked", "clear", "recorded"}
    BY <2>1, AloneInBusy
  <2>8. p \in Investigators => p \in Manuals
    BY <2>1 DEF ApartInv, Busy
  <2>9. \A q \in Everyone : pc'[q] \in Cleared => real' - started' >= Cooldown
    BY <2>2, <2>3, <2>4, <2>6, <2>7 DEF Cleared
  <2>10. pc'[Monitor] # "recorded"
    BY <1>b, <2>2, <2>3, <2>7
  <2>11. \A q \in Investigators : (pc'[q] \in Busy => q \in Manuals) /\ pc'[q] # "recorded"
    BY <1>b, <2>2, <2>3, <2>8 DEF ApartInv
  <2>. QED  BY <2>4, <2>5, <2>9, <2>10, <2>11 DEF ApartInv, Everyone
<1>5. ASSUME NEW p \in Everyone, RecordStart(p) PROVE ApartInv'
  <2>1. /\ pc[p] = "clear" /\ cooldown' = Wall /\ UNCHANGED clock_vars
        /\ \/ p = Monitor /\ GoTo(p, "recorded") /\ started' = started
           \/ p # Monitor /\ GoTo(p, "begin") /\ started' = real
    BY <1>5 DEF RecordStart
  <2>2. PICK point \in {"recorded", "begin"} :
          GoTo(p, point) /\ (point = "recorded" => p = Monitor /\ started' = started)
    BY <2>1
  <2>3. pc'[p] = point /\ \A q \in Everyone : q # p => pc'[q] = pc[q]
    BY <2>2, Moves
  <2>4. Wall' = Wall /\ real' = real
    BY <2>1 DEF Wall, clock_vars
  <2>5. real - started >= Cooldown /\ started <= real
    BY <2>1 DEF ApartInv, Cleared, Everyone
  <2>6. started' <= real /\ cooldown' = Wall /\ cooldown' # Never
    BY <1>a, <2>1, <2>5 DEF Never
  <2>7. \A q \in Everyone : q # p => pc[q] \notin {"locked", "clear", "recorded"}
    BY <2>1, AloneInBusy
  <2>8. \A q \in Everyone : pc'[q] \in Cleared => real' - started' >= Cooldown
    BY <2>2, <2>3, <2>4, <2>5, <2>7 DEF Cleared
  <2>9. \A q \in Investigators : (pc'[q] \in Busy => q \in Manuals) /\ pc'[q] # "recorded"
    BY <1>b, <2>2, <2>3 DEF ApartInv, Busy
  <2>10. cooldown' \in 0..Wall' => Wall' - cooldown' <= real' - started'
    BY <1>a, <2>4, <2>6, <2>1
  <2>. QED  BY <2>4, <2>6, <2>8, <2>9, <2>10 DEF ApartInv, Everyone
<1>6. ASSUME NEW w \in Workers, Launch(w) PROVE ApartInv'
  <2>1. /\ pc[Monitor] = "recorded" /\ pc[w] = "idle" /\ started' = real
        /\ pc' = [pc EXCEPT ![Monitor] = "launched", ![w] = "boot"]
        /\ UNCHANGED <<clock_vars, cooldown>>
    BY <1>6 DEF Launch
  <2>2. pc'[w] = "boot" /\ pc'[Monitor] = "launched"
        /\ \A q \in Everyone : q \notin {w, Monitor} => pc'[q] = pc[q]
    BY <1>b, <2>1 DEF TypeOK, Everyone
  <2>3. Wall' = Wall /\ real' = real /\ cooldown' = Wall
    BY <2>1 DEF Wall, clock_vars, ApartInv
  <2>4. \A q \in Everyone : pc'[q] \notin Cleared
    BY <1>b, <2>1, <2>2, AloneInBusy DEF Cleared
  <2>5. \A q \in Investigators : (pc'[q] \in Busy => q \in Manuals) /\ pc'[q] # "recorded"
    BY <1>b, <2>2 DEF ApartInv, Busy
  <2>6. started' = real
    BY <2>1
  <2>7. /\ started' <= real' /\ cooldown' # Never
        /\ Wall' - cooldown' <= real' - started'
    BY <1>a, <2>3, <2>6 DEF Never
  <2>. QED  BY <2>2, <2>4, <2>5, <2>7 DEF ApartInv, Everyone
<1>7. CASE Advance \/ ClockSetBack
  <2>1. Still /\ UNCHANGED <<cooldown, pc, started>>
    BY <1>7 DEF Advance, ClockSetBack
  <2>2. \A p \in Everyone : pc[p] \notin Busy
    BY <2>1 DEF Still, ApartInv, Everyone
  <2>3. /\ real' \in Nat /\ real <= real' /\ Wall' \in Nat
        /\ Wall' - Wall <= real' - real
    <3>1. CASE Advance
      <4>1. PICK d \in {1, MaxGap + 1} : real' = real + d /\ shift' = shift
        BY <3>1 DEF Advance, clock_vars
      <4>2. d \in Nat
        BY TimeAssumption
      <4>3. Wall = Clock(real, shift) /\ Wall' = Clock(real + d, shift)
        BY <4>1 DEF Wall, Clock
      <4>4. Clock(real + d, shift) - Clock(real, shift) <= d /\ Clock(real + d, shift) \in Nat
        BY <1>a, <4>2, ClockFacts
      <4>. QED  BY <1>a, <4>1, <4>2, <4>3, <4>4
    <3>2. CASE ClockSetBack
      <4>1. shift = 0 /\ shift' \in Nat /\ real' = real
        BY <3>2, TimeAssumption DEF ClockSetBack
      <4>2. Wall = Clock(real, 0) /\ Wall' = Clock(real, shift')
        BY <4>1 DEF Wall, Clock
      <4>3. Clock(real, shift') \in Nat /\ Clock(real, shift') <= Clock(real, 0)
        BY <1>a, <4>1, ClockFacts
      <4>. QED  BY <1>a, <4>1, <4>2, <4>3
    <3>. QED  BY <1>7, <3>1, <3>2
  <2>4. started <= real /\ (cooldown = Never => started = -Cooldown)
        /\ (cooldown \in 0..Wall => Wall - cooldown <= real - started)
    BY DEF ApartInv
  <2>5. cooldown' \in 0..Wall' => Wall' - cooldown' <= real' - started'
    <3>1. cooldown \in 0..Wall' => Wall' - cooldown <= real' - started
      <4> SUFFICES ASSUME cooldown \in 0..Wall' PROVE Wall' - cooldown <= real' - started
        OBVIOUS
      <4>1. /\ real \in Nat /\ real' \in Nat /\ Wall \in Nat /\ Wall' \in Nat
            /\ started \in Int /\ cooldown \in Int
        BY <1>a, <2>3
      <4>2. /\ started <= real /\ real <= real' /\ Wall' - Wall <= real' - real
            /\ cooldown \in 0..Wall => Wall - cooldown <= real - started
        BY <2>3, <2>4
      <4>. QED  BY <4>1, <4>2, Elapsed
    <3>. QED  BY <2>1, <3>1
  <2>6. /\ started' <= real' /\ (cooldown' = Never => started' = -Cooldown)
        /\ pc'[Monitor] # "recorded"
    <3>1. started \in Int /\ real \in Nat /\ pc[Monitor] \notin Busy
      BY <1>a, <1>b, <2>2
    <3>. QED  BY <2>1, <2>3, <2>4, <3>1 DEF Busy
  <2>7. \A p \in Everyone : pc'[p] \notin Busy
    BY <2>1, <2>2
  <2>8. /\ \A p \in Investigators \cup {Monitor} : pc'[p] \notin Cleared
        /\ \A p \in Investigators : pc'[p] \notin Busy /\ pc'[p] # "recorded"
    BY <1>b, <2>7 DEF Busy, Cleared, Everyone
  <2>. QED  BY <2>5, <2>6, <2>8 DEF ApartInv
<1>8. CASE \/ TickFails \/ UNCHANGED vars
           \/ \E setting \in {"codex", "off", "error"} : NoSample(setting)
  <2>1. CASE TickFails
    BY <1>2, <2>1 DEF TickFails
  <2>2. CASE UNCHANGED vars
    <3>1. UNCHANGED <<clock_vars, cooldown, pc, started>>
      BY <2>2 DEF vars, clock_vars
    <3>. QED  BY <1>2, <3>1
  <2>3. ASSUME NEW setting, NoSample(setting) PROVE ApartInv'
    BY <1>2, <2>3 DEF NoSample
  <2>. QED  BY <1>8, <2>1, <2>2, <2>3
<1>9. CASE \E setting \in {"codex", "off"},
              reading \in {"calm", "unknown", "pressure", "starved"} : Sample(setting, reading)
  <2>1. GoTo(Monitor, "lock") \/ UNCHANGED pc
    BY <1>9 DEF Sample
  <2>2. UNCHANGED <<clock_vars, cooldown, started>>
    BY <1>9 DEF Sample
  <2>. QED  BY <1>b, <1>1, <1>2, <2>1, <2>2
<1>10. CASE SampleFails \/ Restart \/ Close
  BY <1>b, <1>1, <1>10 DEF SampleFails, Restart, Close, Leave, Busy
<1>11. ASSUME NEW p \in Investigators,
              \/ Invoke(p) \/ Boot(p) \/ Begin(p) \/ Report(p) \/ Spawn(p) \/ Heard(p)
              \/ Apply(p) \/ Save(p) \/ Decline(p) \/ Refuse(p) \/ WorkerTimeout(p)
              \/ CleanupTimeout(p) \/ Die(p)
       PROVE  ApartInv'
  <2>1. /\ UNCHANGED <<clock_vars, cooldown, started>>
        /\ \E point \in (Points \ Busy) \cup {"lock"} :
             GoTo(p, point) /\ (point = "lock" => p \in Manuals)
    BY <1>11 DEF Invoke, Boot, Begin, Report, Spawn, Heard, Apply, Save, Decline, Refuse,
                 WorkerTimeout, CleanupTimeout, Die, Leave, run_rest, Points, Busy
  <2>. QED  BY <1>b, <1>1, <2>1
<1>. QED  BY <1>b, <1>3, <1>4, <1>5, <1>6, <1>7, <1>8, <1>9, <1>10, <1>11
          DEF Next, MonitorStep, Step

(* Only the monitor boots a worker. *)
LEMMA BootIsLaunch ==
    ASSUME TypeOK, [Next]_vars, NEW w \in Workers, pc[w] = "idle", pc'[w] = "boot"
    PROVE  pc[Monitor] = "recorded"
<1>b. Workers \subseteq Everyone /\ Monitor \in Everyone /\ Investigators \subseteq Everyone
  BY DEF Everyone, Investigators
<1>1. ASSUME NEW p \in Everyone, NEW point \in Points \ {"boot"}, GoTo(p, point) PROVE FALSE
  BY <1>1, <1>b, Moves
<1>2. ASSUME UNCHANGED pc PROVE FALSE
  BY <1>2
<1>3. CASE \E p \in Everyone : TryLock(p) \/ Check(p) \/ RecordStart(p)
  <2>1. \E p \in Everyone, point \in Points \ {"boot"} : GoTo(p, point)
    BY <1>3 DEF TryLock, Check, RecordStart, Leave, Points
  <2>. QED  BY <1>1, <2>1
<1>4. CASE \E v \in Workers : Launch(v)
  BY <1>4 DEF Launch
<1>5. CASE Close \/ SampleFails \/ Restart
  <2>1. GoTo(Monitor, "idle")
    BY <1>5 DEF Close, SampleFails, Restart, Leave
  <2>. QED  BY <1>1, <1>b, <2>1 DEF Points
<1>6. CASE \/ TickFails \/ Advance \/ ClockSetBack \/ UNCHANGED vars
           \/ \E setting \in {"codex", "off", "error"} : NoSample(setting)
  BY <1>2, <1>6 DEF TickFails, Advance, ClockSetBack, NoSample, vars
<1>7. CASE \E setting \in {"codex", "off"},
              reading \in {"calm", "unknown", "pressure", "starved"} : Sample(setting, reading)
  <2>1. GoTo(Monitor, "lock") \/ UNCHANGED pc
    BY <1>7 DEF Sample
  <2>. QED  BY <1>1, <1>2, <1>b, <2>1 DEF Points
<1>8. ASSUME NEW p \in Investigators,
             \/ Invoke(p) \/ Boot(p) \/ Begin(p) \/ Report(p) \/ Spawn(p) \/ Heard(p)
             \/ Apply(p) \/ Save(p) \/ Decline(p) \/ Refuse(p) \/ WorkerTimeout(p)
             \/ CleanupTimeout(p) \/ Die(p)
      PROVE  FALSE
  <2>1. \E point \in Points \ {"boot"} : GoTo(p, point)
    BY <1>8 DEF Invoke, Boot, Begin, Report, Spawn, Heard, Apply, Save, Decline, Refuse,
                WorkerTimeout, CleanupTimeout, Die, Leave, Points
  <2>. QED  BY <1>1, <1>b, <2>1
<1>. QED  BY <1>b, <1>3, <1>4, <1>5, <1>6, <1>7, <1>8 DEF Next, MonitorStep, Step

(* The cooldown holds in real time: for any number of operators and workers, any
   intervals, and wherever the wall clock is set back, the monitor restarts or a
   launch fails, an investigation begins no earlier than a cooldown after the
   one before. *)
THEOREM StartsApartHolds == Spec => StartsApart
<1> DEFINE Apart == (\E w \in Workers : pc[w] = "idle" /\ pc'[w] = "boot")
                      \/ (\E m \in Manuals : pc[m] = "clear" /\ pc'[m] = "begin")
                    => real - started >= Cooldown
<1>1. Init => ApartInv
  <2>1. Cooldown \in Nat
    BY TimeAssumption
  <2>. QED  BY <2>1 DEF Init, ApartInv, Never, Busy, Cleared, Wall
<1>2. TypeOK /\ HoldersInv /\ ApartInv /\ [Next]_vars => ApartInv'
  BY ApartStep
<1>3. TypeOK /\ HoldersInv /\ ApartInv /\ [Next]_vars => Apart
  <2> SUFFICES ASSUME TypeOK, ApartInv, [Next]_vars,
                      \/ \E w \in Workers : pc[w] = "idle" /\ pc'[w] = "boot"
                      \/ \E m \in Manuals : pc[m] = "clear" /\ pc'[m] = "begin"
               PROVE  real - started >= Cooldown
    OBVIOUS
  <2>1. \E p \in Investigators \cup {Monitor} : pc[p] \in Cleared
    BY BootIsLaunch DEF Cleared, Investigators
  <2>. QED  BY <2>1 DEF ApartInv
<1>. QED  BY <1>1, <1>2, <1>3, TypeCorrect, HoldersHold, PTL DEF Spec, StartsApart

=============================================================================
