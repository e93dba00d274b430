--------------------------- MODULE JobAdmissionProofs ---------------------------
(***************************************************************************)
(* Type correctness of JobAdmission; the slot limit, the memory promise    *)
(* and the capacity of the thermal guard that every uninterrupted          *)
(* reservation respects; and that cleanup() spares the records of living   *)
(* processes: for any number of jobs, cohorts, limits and requests.        *)
(***************************************************************************)
EXTENDS JobAdmission, FiniteSetTheorems, WellFoundedInduction, TLAPS

(* The history variable is never ahead of the code's own count. *)
KeptCounted == \A j \in Jobs : kept[j] => Counted(j)

(* A record with its status, or another of its fields, replaced. *)
LEMMA RecordFields ==
    \A r \in Record :
      /\ r.payload \in Field /\ r.launch \in Field
      /\ \A x \in Statuses : [r EXCEPT !.status = x] \in Record
      /\ \A x, y \in Field : [r EXCEPT !.payload = x, !.launch = y] \in Record
      /\ \A x \in Statuses, y \in Field : [r EXCEPT !.payload = y, !.status = x] \in Record
      /\ \A x \in Statuses : [r EXCEPT !.restarts = 1, !.status = x] \in Record
      /\ [r EXCEPT !.restarts = 1] \in Record
BY DEF Record

LEMMA StatusReplaced ==
    ASSUME TypeOK, NEW j \in Jobs, NEW x \in Statuses,
           rec' = rec \/ rec' = [rec EXCEPT ![j].status = x]
    PROVE  rec' \in [Jobs -> Record]
<1>1. rec \in [Jobs -> Record]
  BY DEF TypeOK
<1>2. [rec[j] EXCEPT !.status = x] \in Record
  BY <1>1, RecordFields
<1>. QED  BY <1>1, <1>2

-----------------------------------------------------------------------------
(* Every reachable state of the job store, the supervisors and the children
   has the declared shape. *)
THEOREM TypeCorrect == Spec => []TypeOK
<1>1. Init => TypeOK
  BY DEF Init, TypeOK, NoRecord, Record, Statuses, Field, Points, Process, Phases
<1>2. TypeOK /\ [Next]_vars => TypeOK'
  <2> SUFFICES ASSUME TypeOK, [Next]_vars PROVE TypeOK'
    OBVIOUS
  <2> USE DEF TypeOK
  <2>a. ASSUME KeepCounting \/ \E i \in Jobs : StartCounting(i)
        PROVE  kept' \in [Jobs -> BOOLEAN]
    BY <2>a DEF KeepCounting, StartCounting
  <2>1. ASSUME NEW j \in Jobs, Cleanup(j) PROVE TypeOK'
    <3>1. NoRecord \in Record
      BY DEF NoRecord, Record, Statuses, Field
    <3>2. \A k \in Jobs : Relabelled(k) \in Record
      BY DEF Relabelled, Record, Statuses
    <3>3. rec' \in [Jobs -> Record]
      BY <2>1, <3>1, <3>2 DEF Cleanup
    <3>. QED  BY <2>1, <3>3, <2>a DEF Cleanup, Points
  <2>2. ASSUME NEW j \in Jobs, Create(j) PROVE TypeOK'
    <3>0. "queued" \in Statuses /\ (rec' = rec \/ rec' = [rec EXCEPT ![j].status = "queued"])
      BY <2>2 DEF Create, Statuses
    <3>1. rec' \in [Jobs -> Record]
      BY <3>0, StatusReplaced
    <3>. QED  BY <2>2, <2>a, <3>1 DEF Create, Points
  <2>3. ASSUME NEW j \in Jobs, Admit(j) PROVE TypeOK'
    <3>0. "admitted" \in Statuses /\ (rec' = rec \/ rec' = [rec EXCEPT ![j].status = "admitted"])
      BY <2>3 DEF Admit, Statuses
    <3>1. rec' \in [Jobs -> Record]
      BY <3>0, StatusReplaced
    <3>. QED  BY <2>3, <2>a, <3>1 DEF Admit, Points
  <2>4. ASSUME NEW j \in Jobs, ReserveEarly(j) PROVE TypeOK'
    <3>0. "admitted" \in Statuses /\ (rec' = rec \/ rec' = [rec EXCEPT ![j].status = "admitted"])
      BY <2>4 DEF ReserveEarly, Statuses
    <3>1. rec' \in [Jobs -> Record]
      BY <3>0, StatusReplaced
    <3>. QED  BY <2>4, <2>a, <3>1 DEF ReserveEarly
  <2>5. ASSUME NEW j \in Jobs, QueueTimeout(j) PROVE TypeOK'
    <3>0. /\ "queued_timeout" \in Statuses
          /\ (rec' = rec \/ rec' = [rec EXCEPT ![j].status = "queued_timeout"])
      BY <2>5 DEF QueueTimeout, Statuses
    <3>1. rec' \in [Jobs -> Record]
      BY <3>0, StatusReplaced
    <3>. QED  BY <2>5, <2>a, <3>1 DEF QueueTimeout, Points
  <2>6. ASSUME NEW j \in Jobs, Popen(j) PROVE TypeOK'
    <3>0. rec[j] \in Record /\ \A f \in Field : Older(f) \in Field
      BY DEF Older, Field
    <3>1. Older(rec[j].payload) \in Field /\ Older(rec[j].launch) \in Field
      BY <3>0, RecordFields
    <3>2. \A p, l \in Field : [rec[j] EXCEPT !.payload = p, !.launch = l] \in Record
      BY RecordFields
    <3>3. rec' = [rec EXCEPT ![j] = [rec[j] EXCEPT !.payload = Older(rec[j].payload),
                                                   !.launch = Older(rec[j].launch)]]
      BY <2>6 DEF Popen
    <3>4. rec' \in [Jobs -> Record]
      BY <3>1, <3>2, <3>3
    <3>5. pc' \in [Jobs -> Points] /\ child' \in [Jobs -> Process] /\ phase' \in [Jobs -> Phases]
      BY <2>6 DEF Popen, Points, Process, Phases
    <3>. QED  BY <2>6, <2>a, <3>4, <3>5 DEF Popen
  <2>7. ASSUME NEW j \in Jobs, PopenFails(j) PROVE TypeOK'
    <3>0. "failed" \in Statuses /\ (rec' = rec \/ rec' = [rec EXCEPT ![j].status = "failed"])
      BY <2>7 DEF PopenFails, Statuses
    <3>1. rec' \in [Jobs -> Record]
      BY <3>0, StatusReplaced
    <3>. QED  BY <2>7, <2>a, <3>1 DEF PopenFails, Points
  <2>8. ASSUME NEW j \in Jobs, RecordLaunch(j) PROVE TypeOK'
    <3>0. [rec[j] EXCEPT !.launch = "current"] \in Record
      <4>1. rec[j] \in Record /\ "current" \in Field
        BY DEF Field
      <4>. QED  BY <4>1 DEF Record
    <3>2. rec' = rec \/ rec' = [rec EXCEPT ![j] = [rec[j] EXCEPT !.launch = "current"]]
      BY <2>8 DEF RecordLaunch
    <3>1. rec' \in [Jobs -> Record]
      BY <3>0, <3>2
    <3>. QED  BY <2>8, <2>a, <3>1 DEF RecordLaunch, Points
  <2>9. ASSUME NEW j \in Jobs, Inner(j) PROVE TypeOK'
    <3>1. CASE Register(j)
      <4>1. [rec[j] EXCEPT !.payload = "current", !.status = "running"] \in Record
        <5>1. rec[j] \in Record /\ "current" \in Field /\ "running" \in Statuses
          BY DEF Field, Statuses
        <5>. QED  BY <5>1, RecordFields
      <4>2. rec' = [rec EXCEPT ![j] = [rec[j] EXCEPT !.payload = "current",
                                                     !.status = "running"]]
        BY <3>1 DEF Register
      <4>3. rec' \in [Jobs -> Record]
        BY <4>1, <4>2
      <4>. QED  BY <3>1, <4>3, <2>a DEF Register, Phases
    <3>2. CASE Exec(j) \/ ChildExit(j)
      BY <3>2, <2>a DEF Exec, ChildExit, Phases, Process
    <3>. QED  BY <2>9, <3>1, <3>2 DEF Inner
  <2>10. ASSUME NEW j \in Jobs, Reap(j) \/ Settle(j) PROVE TypeOK'
    <3>1. CASE Reap(j)
      BY <2>a, <3>1 DEF Reap, Points, Process
    <3>2. CASE Settle(j)
      <4>1. \E x \in {"finished", "failed"} : rec' = rec \/ rec' = [rec EXCEPT ![j].status = x]
        BY <3>2 DEF Settle
      <4>2. rec' \in [Jobs -> Record]
        BY <4>1, StatusReplaced DEF Statuses
      <4>. QED  BY <2>a, <3>2, <4>2 DEF Settle, Points, Process
    <3>. QED  BY <2>10, <3>1, <3>2
  <2>11. ASSUME NEW j \in Jobs, Restart(j) \/ Requeue(j) PROVE TypeOK'
    <3>1. {"failed", "queued"} \subseteq Statuses /\ "none" \in Field
      BY DEF Statuses, Field
    <3>2. CASE Restart(j)
      <4>1. [rec[j] EXCEPT !.restarts = 1] \in Record
            /\ [rec[j] EXCEPT !.restarts = 1, !.status = "failed"] \in Record
        BY <3>1, RecordFields
      <4>2. \/ rec' = [rec EXCEPT ![j] = [rec[j] EXCEPT !.restarts = 1]]
            \/ rec' = [rec EXCEPT ![j] = [rec[j] EXCEPT !.restarts = 1, !.status = "failed"]]
        BY <3>2 DEF Restart
      <4>3. rec' \in [Jobs -> Record]
        BY <4>1, <4>2
      <4>. QED  BY <2>a, <3>2, <4>3 DEF Restart, Points, Process
    <3>3. CASE Requeue(j)
      <4>1. [rec[j] EXCEPT !.payload = "none", !.status = "queued"] \in Record
        BY <3>1, RecordFields
      <4>2. rec' = [rec EXCEPT ![j] = [rec[j] EXCEPT !.payload = "none", !.status = "queued"]]
        BY <3>3 DEF Requeue
      <4>3. rec' \in [Jobs -> Record]
        BY <4>1, <4>2
      <4>. QED  BY <2>a, <3>3, <4>3 DEF Requeue, Points, Process
    <3>. QED  BY <2>11, <3>2, <3>3
  <2>12. ASSUME NEW j \in Jobs, Exit(j) \/ Crash(j) \/ Hide(j) PROVE TypeOK'
    BY <2>12, <2>a DEF Exit, Crash, Hide, Points, Process
  <2>13. CASE UNCHANGED vars
    BY <2>13 DEF vars
  <2>. QED  BY <2>1, <2>2, <2>3, <2>4, <2>5, <2>6, <2>7, <2>8, <2>9, <2>10,
               <2>11, <2>12, <2>13 DEF Next, Supervise
<1>. QED  BY <1>1, <1>2, PTL DEF Spec

-----------------------------------------------------------------------------
(* Reservations that only disappear cannot break the limit. *)
LEMMA LosingKeepsLimit ==
  ASSUME SlotLimit, \A j \in Jobs : kept'[j] => kept[j]
  PROVE  SlotLimit'
<1> SUFFICES ASSUME NEW j \in Jobs, kept'[j], Limit[j] > 0
             PROVE  Cardinality(Cohabitants(j)') <= Limit[j]
  BY DEF SlotLimit
<1>1. Cohabitants(j)' \subseteq Cohabitants(j)
  BY DEF Cohabitants
<1>2. IsFiniteSet(Cohabitants(j))
  BY JobsFinite, FS_Subset DEF Cohabitants
<1>3. Cardinality(Cohabitants(j)') <= Cardinality(Cohabitants(j))
  BY <1>1, <1>2, FS_Subset
<1>4. IsFiniteSet(Cohabitants(j)')
  BY <1>1, <1>2, FS_Subset
<1>5. /\ Cardinality(Cohabitants(j)) \in Nat
      /\ Cardinality(Cohabitants(j)') \in Nat
  BY <1>2, <1>4, FS_CardinalityType
<1>6. Cardinality(Cohabitants(j)) <= Limit[j]
  BY DEF SlotLimit
<1>7. Limit[j] \in Nat
  BY LimitType
<1>. QED  BY <1>3, <1>5, <1>6, <1>7

(* The supervisor that reserves under the lock sees every kept reservation
   of its cohort among its peers, so it can add itself. *)
LEMMA ReservingKeepsLimit ==
  ASSUME NEW i \in Jobs, KeptCounted, SlotLimit, SlotFree(i),
         \A j \in Jobs : kept'[j] => j = i \/ kept[j]
  PROVE  SlotLimit'
<1> SUFFICES ASSUME NEW j \in Jobs, kept'[j], Limit[j] > 0
             PROVE  Cardinality(Cohabitants(j)') <= Limit[j]
  BY DEF SlotLimit
<1> DEFINE together == Limit[i] > 0 /\ Cohort[i] = Cohort[j]
<1>1. Limit[j] \in Nat /\ Limit[i] \in Nat
  BY LimitType
<1>2. CASE ~together
  <2>1. Cohabitants(j)' \subseteq Cohabitants(j) /\ kept[j]
    BY <1>2 DEF Cohabitants
  <2>2. IsFiniteSet(Cohabitants(j))
    BY JobsFinite, FS_Subset DEF Cohabitants
  <2>3. /\ Cardinality(Cohabitants(j)') <= Cardinality(Cohabitants(j))
        /\ Cardinality(Cohabitants(j)) \in Nat
        /\ Cardinality(Cohabitants(j)') \in Nat
    BY <2>1, <2>2, FS_Subset, FS_CardinalityType
  <2>4. Cardinality(Cohabitants(j)) <= Limit[j]
    BY <2>1 DEF SlotLimit
  <2>. QED  BY <1>1, <2>3, <2>4
<1>3. CASE together
  <2>1. Cohabitants(j)' \subseteq Peers(i) \cup {i}
    BY <1>3 DEF Cohabitants, Peers, Others, KeptCounted
  <2>2. j \in Peers(i) \cup {i}
    BY <1>3 DEF Peers, Others, KeptCounted
  <2>3. Cardinality(Peers(i)) < Limit[j]
    BY <1>3, <2>2 DEF SlotFree
  <2>4. IsFiniteSet(Peers(i)) /\ i \notin Peers(i)
    BY JobsFinite, FS_Subset DEF Peers, Others
  <2>5. /\ IsFiniteSet(Peers(i) \cup {i})
        /\ Cardinality(Peers(i) \cup {i}) = Cardinality(Peers(i)) + 1
        /\ Cardinality(Peers(i)) \in Nat
    BY <2>4, FS_AddElement, FS_CardinalityType
  <2>6. /\ Cardinality(Cohabitants(j)') <= Cardinality(Peers(i) \cup {i})
        /\ Cardinality(Cohabitants(j)') \in Nat
    BY <2>1, <2>5, FS_Subset, FS_CardinalityType
  <2>. QED  BY <1>1, <2>3, <2>5, <2>6
<1>. QED  BY <1>2, <1>3

(* A granted reservation is counted: its owner is live and it is admitted. *)
LEMMA GrantedIsCounted ==
  ASSUME TypeOK, NEW j \in Jobs, Granted(j),
         rec' = [rec EXCEPT ![j].status = "admitted"], UNCHANGED <<sup, child>>
  PROVE  Counted(j)'
<1>1. sup'[j] = "live"
  BY DEF Granted, Seen, TypeOK
<1>2. rec'[j].status = "admitted"
  BY DEF TypeOK, Record
<1>. QED  BY <1>1, <1>2 DEF Counted, Released, Seen

(* What a step can do to the reservations counted so far: they stay counted,
   and the only one that may join them is granted under the lock. *)
LEMMA ReservationSteps ==
  ASSUME TypeOK, KeptCounted, [Next]_vars
  PROVE  /\ KeptCounted'
         /\ \/ \A j \in Jobs : kept'[j] => kept[j]
            \/ \E i \in Jobs : /\ Granted(i)
                              /\ \A j \in Jobs : kept'[j] => j = i \/ kept[j]
<1> DEFINE Goal == /\ KeptCounted'
                   /\ \/ \A j \in Jobs : kept'[j] => kept[j]
                      \/ \E i \in Jobs : /\ Granted(i)
                                        /\ \A j \in Jobs : kept'[j] => j = i \/ kept[j]
<1>1. CASE KeepCounting
  BY <1>1 DEF KeepCounting, KeptCounted
<1>2. ASSUME NEW j \in Jobs, StartCounting(j), Granted(j),
             rec' = [rec EXCEPT ![j].status = "admitted"], UNCHANGED <<sup, child>>
      PROVE  Goal
  <2>1. Counted(j)'
    BY <1>2, GrantedIsCounted
  <2>. QED  BY <1>2, <2>1 DEF StartCounting, KeptCounted
<1>3. ASSUME NEW j \in Jobs, Admit(j) PROVE Goal
  BY <1>1, <1>2, <1>3 DEF Admit
<1>4. ASSUME NEW j \in Jobs, ReserveEarly(j) PROVE Goal
  BY <1>2, <1>4 DEF ReserveEarly
<1>5. ASSUME NEW j \in Jobs,
             \/ Cleanup(j) \/ Create(j) \/ Popen(j) \/ PopenFails(j)
             \/ RecordLaunch(j) \/ Reap(j) \/ Settle(j) \/ Requeue(j)
             \/ Exit(j) \/ Inner(j) \/ QueueTimeout(j) \/ Restart(j)
             \/ Crash(j) \/ Hide(j)
      PROVE  Goal
  <2>1. KeepCounting
    BY <1>5 DEF Cleanup, Create, Popen, PopenFails, RecordLaunch, Reap, Settle,
                Requeue, Exit, Inner, Register, Exec, ChildExit, QueueTimeout,
                Restart, Crash, Hide
  <2>. QED  BY <1>1, <2>1
<1>6. CASE UNCHANGED vars
  BY <1>6 DEF vars, KeptCounted, Counted, Released, ChildState, Seen
<1>. QED  BY <1>3, <1>4, <1>5, <1>6 DEF Next, Supervise

(* The limit declared with --max-parallel holds of all reservations counted
   without interruption, at every step of every interleaving. *)
THEOREM SlotLimitHolds == Spec => []SlotLimit
<1>1. Init => KeptCounted /\ SlotLimit
  BY DEF Init, KeptCounted, SlotLimit
<1>2. TypeOK /\ KeptCounted /\ SlotLimit /\ [Next]_vars => KeptCounted' /\ SlotLimit'
  <2> SUFFICES ASSUME TypeOK, KeptCounted, SlotLimit, [Next]_vars
               PROVE  KeptCounted' /\ SlotLimit'
    OBVIOUS
  <2>1. KeptCounted'
    BY ReservationSteps
  <2>2. CASE \A j \in Jobs : kept'[j] => kept[j]
    BY <2>1, <2>2, LosingKeepsLimit
  <2>3. ASSUME NEW i \in Jobs, Granted(i),
               \A j \in Jobs : kept'[j] => j = i \/ kept[j]
        PROVE  SlotLimit'
    <3>1. SlotFree(i)
      BY <2>3 DEF Granted
    <3>. QED  BY <2>3, <3>1, ReservingKeepsLimit
  <2>. QED  BY <2>1, <2>2, <2>3, ReservationSteps
<1>. QED  BY <1>1, <1>2, TypeCorrect, PTL DEF Spec

(* The first launch of a supervisor that never lost its reservation: before
   the launch it has no process, during it the recorded identities name the
   living child or nobody, and the reservation is still counted. *)
LaunchOK(j) ==
    /\ scoped[j] => j \in Scoped
    /\ pc[j] = "start" => sup[j] = "absent" /\ child[j] = "absent" /\ rec[j] = NoRecord
    /\ FirstLaunch(j) =>
         /\ pc[j] \in {"create", "admit", "launch", "record", "wait", "reaped", "done"}
         /\ pc[j] \in {"create", "admit", "launch"} =>
               child[j] = "absent" /\ rec[j].payload = "none" /\ rec[j].launch = "none"
         /\ pc[j] \in {"record", "wait"} =>
               /\ child[j] \in {"live", "hidden", "zombie"}
               /\ rec[j].payload # "old" /\ rec[j].launch # "old"
         /\ pc[j] \in {"reaped", "done"} => child[j] \in {"absent", "gone"}
         /\ pc[j] \in {"launch", "record", "wait"} /\ Limit[j] > 0 => kept[j]

(* Nobody's cleanup relabels or removes the record of such a launch. *)
LEMMA CleanupSparesLaunch ==
  ASSUME TypeOK, NEW j \in Jobs, NEW i \in Jobs, i # j, LaunchOK(j), Cleanup(i), sup[j] = "live"
  PROVE  /\ rec'[j].restarts = rec[j].restarts
         /\ rec'[j].payload = rec[j].payload /\ rec'[j].launch = rec[j].launch
         /\ FirstLaunch(j) /\ pc[j] \in {"launch", "record", "wait"} => rec'[j] = rec[j]
<1>1. j \notin Deletable
  BY DEF Deletable, RecordedStates, Seen
<1>2. rec'[j] = Relabelled(j)
  BY <1>1 DEF Cleanup
<1>3. FirstLaunch(j) /\ pc[j] \in {"launch", "record", "wait"} => "dead" \notin RecordedStates(j)
  BY DEF LaunchOK, RecordedStates, ChildState, Seen, TypeOK, Record, Field
<1>. QED  BY <1>2, <1>3 DEF Relabelled, TypeOK, Record

(* The steps of the other jobs leave a launch alone. *)
LEMMA BystanderKeepsLaunch ==
  ASSUME TypeOK, KeptCounted, NEW j \in Jobs, LaunchOK(j),
         pc'[j] = pc[j], sup'[j] = sup[j], child'[j] = child[j], scoped'[j] = scoped[j],
         kept[j] /\ Counted(j)' => kept'[j],
         \/ rec'[j] = rec[j]
         \/ \E i \in Jobs \ {j} : Cleanup(i)
  PROVE  LaunchOK(j)'
<1>1. pc[j] = "start" => rec'[j] = NoRecord
  <2>1. ASSUME pc[j] = "start", NEW i \in Jobs \ {j}, Cleanup(i) PROVE rec'[j] = NoRecord
    <3>1. rec[j] = NoRecord
      BY <2>1 DEF LaunchOK
    <3>2. Relabelled(j) = NoRecord
      BY <3>1 DEF Relabelled, NoRecord
    <3>. QED  BY <2>1, <3>2 DEF Cleanup
  <2>. QED  BY <2>1 DEF LaunchOK
<1>2. ASSUME FirstLaunch(j)' PROVE FirstLaunch(j)
  BY <1>2, CleanupSparesLaunch DEF FirstLaunch
<1>3. ASSUME FirstLaunch(j)'
      PROVE  rec'[j].payload = rec[j].payload /\ rec'[j].launch = rec[j].launch
  BY <1>3, CleanupSparesLaunch DEF FirstLaunch
<1>4. ASSUME FirstLaunch(j)', pc[j] \in {"launch", "record", "wait"}, kept[j] PROVE kept'[j]
  <2>1. rec'[j] = rec[j] /\ sup'[j] = "live"
    BY <1>2, <1>4, CleanupSparesLaunch DEF FirstLaunch
  <2>2. Counted(j)'
    BY <1>4, <2>1 DEF KeptCounted, Counted, Released, Seen
  <2>. QED  BY <1>4, <2>2
<1>. QED  BY <1>1, <1>2, <1>3, <1>4 DEF LaunchOK

(* Every step keeps a launch in order. *)
LEMMA LaunchStep ==
  ASSUME TypeOK, KeptCounted, NEW j \in Jobs, LaunchOK(j), [Next]_vars
  PROVE  LaunchOK(j)'
<1>1. CASE UNCHANGED vars
  BY <1>1, BystanderKeepsLaunch DEF vars
<1>2. ASSUME NEW i \in Jobs, i # j,
             \/ Supervise(i) \/ Inner(i) \/ QueueTimeout(i)
             \/ Restart(i) \/ Crash(i) \/ Hide(i)
      PROVE  LaunchOK(j)'
  <2>1. /\ pc'[j] = pc[j] /\ sup'[j] = sup[j]
        /\ child'[j] = child[j] /\ scoped'[j] = scoped[j]
    BY <1>2 DEF TypeOK, Supervise, Inner, Cleanup, Create, Admit, ReserveEarly, Popen,
                PopenFails, RecordLaunch, Reap, Settle, Requeue, Exit, Register, Exec,
                ChildExit, QueueTimeout, Restart, Crash, Hide
  <2>2. rec'[j] = rec[j] \/ Cleanup(i)
    BY <1>2 DEF TypeOK, Supervise, Inner, Create, Admit, ReserveEarly, Popen,
                PopenFails, RecordLaunch, Reap, Settle, Requeue, Exit, Register, Exec,
                ChildExit, QueueTimeout, Restart, Crash, Hide
  <2>3. kept[j] /\ Counted(j)' => kept'[j]
    BY <1>2 DEF KeepCounting, StartCounting, Supervise, Inner, Cleanup, Create, Admit,
                ReserveEarly, Popen, PopenFails, RecordLaunch, Reap, Settle, Requeue,
                Exit, Register, Exec, ChildExit, QueueTimeout, Restart, Crash, Hide
  <2>. QED  BY <1>2, <2>1, <2>2, <2>3, BystanderKeepsLaunch
<1>3. CASE Cleanup(j)
  <2>1. rec[j] = NoRecord /\ child[j] = "absent"
    BY <1>3 DEF Cleanup, LaunchOK
  <2>2. rec'[j] = NoRecord
    BY <1>3, <2>1 DEF Cleanup, Relabelled, NoRecord
  <2>. QED  BY <1>3, <2>1, <2>2 DEF Cleanup, LaunchOK, NoRecord, TypeOK
<1>4. CASE Create(j)
  BY <1>4 DEF Create, LaunchOK, FirstLaunch, TypeOK, Record
<1>5. CASE Admit(j)
  <2>1. /\ rec'[j] = rec[j] \/ rec'[j] = [rec[j] EXCEPT !.status = "admitted"]
        /\ Limit[j] > 0 => kept'[j]
        /\ pc'[j] = "launch" /\ UNCHANGED <<sup, child, scoped>>
    BY <1>5 DEF Admit, TypeOK, StartCounting, NeedsReservation
  <2>. QED  BY <1>5, <2>1 DEF Admit, LaunchOK, FirstLaunch, TypeOK, Record
<1>6. CASE ReserveEarly(j) \/ Requeue(j)
  <2>1. ~FirstLaunch(j) /\ UNCHANGED <<sup, scoped>> /\ rec'[j].restarts = rec[j].restarts
    BY <1>6 DEF ReserveEarly, Requeue, LaunchOK, TypeOK, Record
  <2>2. pc'[j] = "readmit"
    BY <1>6 DEF ReserveEarly, Requeue, TypeOK
  <2>. QED  BY <2>1, <2>2 DEF LaunchOK, FirstLaunch
<1>7. CASE QueueTimeout(j)
  BY <1>7 DEF QueueTimeout, LaunchOK, FirstLaunch, TypeOK, Record
<1>8. CASE Restart(j)
  <2>1. rec'[j].restarts = 1 /\ pc'[j] # "start" /\ UNCHANGED scoped
    BY <1>8 DEF Restart, TypeOK, Record
  <2>. QED  BY <2>1 DEF LaunchOK, FirstLaunch
<1>9. ASSUME KeepCounting, kept[j], FirstLaunch(j)', rec'[j].status = rec[j].status PROVE kept'[j]
  <2>1. rec[j].status \in {"admitted", "running"} /\ sup'[j] = "live"
    BY <1>9 DEF KeptCounted, Counted, FirstLaunch
  <2>2. Counted(j)'
    BY <1>9, <2>1 DEF Counted, Released, Seen
  <2>. QED  BY <1>9, <2>2 DEF KeepCounting
<1>10. CASE Popen(j)
  <2>1. /\ KeepCounting /\ pc[j] = "launch" /\ pc'[j] = "record" /\ child'[j] = "live"
        /\ UNCHANGED <<sup, scoped>>
        /\ rec'[j] = [rec[j] EXCEPT !.payload = Older(@), !.launch = Older(@)]
    BY <1>10 DEF Popen, TypeOK
  <2>2. /\ rec'[j].restarts = rec[j].restarts /\ rec'[j].status = rec[j].status
        /\ rec'[j].payload = Older(rec[j].payload) /\ rec'[j].launch = Older(rec[j].launch)
    BY <2>1 DEF TypeOK, Record
  <2>. QED  BY <1>9, <2>1, <2>2 DEF LaunchOK, FirstLaunch, Older
<1>11. CASE PopenFails(j)
  <2>1. UNCHANGED <<sup, child>> /\ rec'[j].restarts = rec[j].restarts
    BY <1>11 DEF PopenFails, TypeOK, Record
  <2>2. /\ pc[j] = "launch"
        /\ \/ pc'[j] = "done" /\ scoped' = scoped
           \/ pc'[j] = "launch" /\ scoped[j] /\ ~scoped'[j]
    BY <1>11 DEF PopenFails, TypeOK
  <2>3. FirstLaunch(j)' => pc'[j] = "done" /\ scoped' = scoped /\ FirstLaunch(j)
    BY <2>1, <2>2 DEF LaunchOK, FirstLaunch
  <2>. QED  BY <2>1, <2>2, <2>3 DEF LaunchOK
<1>12. CASE RecordLaunch(j)
  <2>1. /\ KeepCounting /\ pc[j] = "record" /\ pc'[j] = "wait"
        /\ UNCHANGED <<sup, child, scoped>>
        /\ rec'[j] = rec[j] \/ rec'[j] = [rec[j] EXCEPT !.launch = "current"]
    BY <1>12 DEF RecordLaunch, TypeOK
  <2>2. /\ rec'[j].restarts = rec[j].restarts /\ rec'[j].status = rec[j].status
        /\ rec'[j].payload = rec[j].payload /\ rec'[j].launch \in {rec[j].launch, "current"}
    BY <2>1 DEF TypeOK, Record
  <2>. QED  BY <1>9, <2>1, <2>2 DEF LaunchOK, FirstLaunch
<1>13. CASE Reap(j)
  BY <1>13 DEF Reap, LaunchOK, FirstLaunch, TypeOK
<1>14. CASE Settle(j)
  <2>1. UNCHANGED <<sup, child>> /\ rec'[j].restarts = rec[j].restarts
    BY <1>14 DEF Settle, TypeOK, Record
  <2>2. /\ pc[j] = "reaped"
        /\ \/ pc'[j] = "done" /\ scoped' = scoped
           \/ pc'[j] = "launch" /\ scoped[j] /\ ~scoped'[j]
    BY <1>14 DEF Settle, TypeOK
  <2>3. FirstLaunch(j)' => pc'[j] = "done" /\ scoped' = scoped /\ FirstLaunch(j)
    BY <2>1, <2>2 DEF LaunchOK, FirstLaunch
  <2>. QED  BY <2>1, <2>2, <2>3 DEF LaunchOK
<1>15. CASE Exit(j) \/ Crash(j)
  <2>1. sup'[j] = "gone" /\ pc'[j] # "start" /\ UNCHANGED scoped
    BY <1>15 DEF Exit, Crash, TypeOK
  <2>2. ~FirstLaunch(j)'
    BY <2>1 DEF FirstLaunch
  <2>. QED  BY <2>1, <2>2 DEF LaunchOK
<1>16. CASE Register(j)
  <2>1. /\ KeepCounting /\ child[j] = "live" /\ UNCHANGED <<pc, sup, child, scoped>>
        /\ rec'[j] = [rec[j] EXCEPT !.payload = "current", !.status = "running"]
    BY <1>16 DEF Register, TypeOK
  <2>2. /\ rec'[j].restarts = rec[j].restarts /\ rec'[j].status = "running"
        /\ rec'[j].payload = "current" /\ rec'[j].launch = rec[j].launch
    BY <2>1 DEF TypeOK, Record
  <2>3. FirstLaunch(j)' /\ kept[j] => kept'[j]
    BY <2>1, <2>2 DEF FirstLaunch, KeepCounting, Counted, Released, Seen
  <2>. QED  BY <2>1, <2>2, <2>3 DEF LaunchOK, FirstLaunch
<1>17. CASE Exec(j) \/ ChildExit(j) \/ Hide(j)
  <2>1. /\ KeepCounting /\ UNCHANGED <<rec, pc, sup, scoped>>
        /\ \/ child'[j] = child[j]
           \/ /\ child[j] \in {"live", "hidden"}
              /\ sup[j] = "live" => child'[j] \in {"live", "hidden", "zombie"}
    BY <1>17 DEF Exec, ChildExit, Hide, TypeOK
  <2>. QED  BY <1>9, <2>1 DEF LaunchOK, FirstLaunch
<1>. QED  BY <1>1, <1>2, <1>3, <1>4, <1>5, <1>6, <1>7, <1>8, <1>10, <1>11, <1>12, <1>13,
             <1>14, <1>15, <1>16, <1>17 DEF Next, Supervise, Inner

(* The payloads that run on a first launch respect the limit: each of them
   still holds its reservation, and SlotLimit counts them all. *)
THEOREM FirstLaunchLimitHolds == Spec => []FirstLaunchLimit
<1> DEFINE LaunchesOK == \A j \in Jobs : LaunchOK(j)
<1>1. Init => KeptCounted /\ SlotLimit /\ LaunchesOK
  <2> SUFFICES ASSUME Init PROVE KeptCounted /\ SlotLimit /\ LaunchesOK
    OBVIOUS
  <2>1. KeptCounted /\ SlotLimit
    BY DEF Init, KeptCounted, SlotLimit
  <2>2. \A j \in Jobs : /\ pc[j] = "start" /\ sup[j] = "absent"
                        /\ child[j] = "absent" /\ rec[j] = NoRecord
    BY DEF Init
  <2>3. \A j \in Jobs : scoped[j] => j \in Scoped
    BY Zenon DEF Init
  <2>4. \A j \in Jobs : ~FirstLaunch(j)
    BY <2>2 DEF FirstLaunch
  <2>. QED  BY <2>1, <2>2, <2>3, <2>4 DEF LaunchOK
<1>2. TypeOK /\ KeptCounted /\ SlotLimit /\ LaunchesOK /\ [Next]_vars
        => KeptCounted' /\ LaunchesOK'
  BY ReservationSteps, LaunchStep
<1>3. TypeOK /\ SlotLimit /\ LaunchesOK => FirstLaunchLimit
  <2> SUFFICES ASSUME SlotLimit, LaunchesOK, NEW j \in Jobs,
                      Executing(j), FirstLaunch(j), Limit[j] > 0
               PROVE  Cardinality({k \in Jobs :
                            /\ Executing(k) /\ FirstLaunch(k)
                            /\ Limit[k] > 0 /\ Cohort[k] = Cohort[j]}) <= Limit[j]
    BY DEF FirstLaunchLimit
  <2> DEFINE Running == {k \in Jobs : /\ Executing(k) /\ FirstLaunch(k)
                                     /\ Limit[k] > 0 /\ Cohort[k] = Cohort[j]}
  <2>1. \A k \in Jobs : Executing(k) /\ FirstLaunch(k) /\ Limit[k] > 0 => kept[k]
    BY DEF LaunchOK, Executing
  <2>2. Running \subseteq Cohabitants(j)
    BY <2>1 DEF Cohabitants
  <2>3. Cardinality(Cohabitants(j)) <= Limit[j]
    BY <2>1 DEF SlotLimit
  <2>4. IsFiniteSet(Cohabitants(j))
    BY JobsFinite, FS_Subset DEF Cohabitants
  <2>5. /\ Cardinality(Running) <= Cardinality(Cohabitants(j))
        /\ Cardinality(Running) \in Nat /\ Cardinality(Cohabitants(j)) \in Nat
    BY <2>2, <2>4, FS_Subset, FS_CardinalityType
  <2>. QED  BY <2>3, <2>5, LimitType
<1>. QED  BY <1>1, <1>2, <1>3, TypeCorrect, SlotLimitHolds, PTL DEF Spec

(* With thermal protection enforcing, no more jobs than the guard can restrain
   are ever counted without interruption.  Every job passes reserve_admission
   then, which compares all counted peers with MAX_REMEDIES. *)
THEOREM GuardCapacityHolds == Spec => []GuardCapacity
<1> DEFINE Kept == {k \in Jobs : kept[k]}
<1>1. Init => KeptCounted /\ GuardCapacity
  <2>1. ASSUME Init PROVE Kept = {}
    BY <2>1 DEF Init
  <2>. QED  BY <2>1, FS_EmptySet, BoundsType DEF Init, KeptCounted, GuardCapacity
<1>2. TypeOK /\ KeptCounted /\ GuardCapacity /\ [Next]_vars => KeptCounted' /\ GuardCapacity'
  <2> SUFFICES ASSUME TypeOK, KeptCounted, GuardCapacity, [Next]_vars, Thermal
               PROVE  KeptCounted' /\ Cardinality(Kept') <= MaxRemedies
    BY ReservationSteps DEF GuardCapacity
  <2>1. KeptCounted'
    BY ReservationSteps
  <2>2. IsFiniteSet(Kept) /\ Cardinality(Kept) \in Nat /\ Cardinality(Kept) <= MaxRemedies
    BY JobsFinite, FS_Subset, FS_CardinalityType DEF GuardCapacity
  <2>3. CASE \A j \in Jobs : kept'[j] => kept[j]
    <3>1. Kept' \subseteq Kept
      BY <2>3
    <3>. QED  BY <2>1, <2>2, <3>1, FS_Subset, FS_CardinalityType, BoundsType
  <2>4. ASSUME NEW i \in Jobs, Granted(i),
               \A j \in Jobs : kept'[j] => j = i \/ kept[j]
        PROVE  Cardinality(Kept') <= MaxRemedies
    <3>1. Kept' \subseteq Others(i) \cup {i}
      BY <2>4 DEF Others, KeptCounted
    <3>2. IsFiniteSet(Others(i)) /\ i \notin Others(i)
      BY JobsFinite, FS_Subset DEF Others
    <3>3. /\ IsFiniteSet(Others(i) \cup {i})
          /\ Cardinality(Others(i) \cup {i}) = Cardinality(Others(i)) + 1
          /\ Cardinality(Others(i)) \in Nat
      BY <3>2, FS_AddElement, FS_CardinalityType
    <3>4. Cardinality(Others(i)) < MaxRemedies
      BY <2>4 DEF Granted
    <3>5. /\ Cardinality(Kept') <= Cardinality(Others(i) \cup {i})
          /\ Cardinality(Kept') \in Nat
      BY <3>1, <3>3, FS_Subset, FS_CardinalityType
    <3>. QED  BY <3>3, <3>4, <3>5, BoundsType
  <2>. QED  BY <2>1, <2>3, <2>4, ReservationSteps
<1>. QED  BY <1>1, <1>2, TypeCorrect, PTL DEF Spec

-----------------------------------------------------------------------------
(* Sums over finite sets.  Induction is on the subsets of a finite set and *)
(* names the good ones as a set: strict inclusion has a minimal bad one.   *)

LEMMA SubsetInduction ==
  ASSUME NEW S, IsFiniteSet(S), NEW Good,
         \A T \in SUBSET S : (\A U \in SUBSET T : U # T => U \in Good) => T \in Good
  PROVE  \A T \in SUBSET S : T \in Good
<1> DEFINE Bad == {T \in SUBSET S : T \notin Good}
<1> SUFFICES ASSUME Bad # {} PROVE FALSE
  OBVIOUS
<1>1. Bad \subseteq FiniteSubsetsOf(S)
  BY FS_FiniteSubsetsOfFinite
<1>2. \E T \in Bad : \A U \in Bad : <<U, T>> \notin StrictSubsetOrdering(S)
  <2> HIDE DEF Bad
  <2>1. IsWellFoundedOn(StrictSubsetOrdering(S), FiniteSubsetsOf(S))
    BY FS_StrictSubsetOrderingWellFounded
  <2>. QED  BY <1>1, <2>1, WFMin
<1>3. PICK T \in Bad : \A U \in Bad : <<U, T>> \notin StrictSubsetOrdering(S)
  BY <1>2
<1>4. ASSUME NEW U \in SUBSET T, U # T PROVE U \in Good
  <2>1. <<U, T>> \in StrictSubsetOrdering(S)
    BY <1>4 DEF StrictSubsetOrdering
  <2>. QED  BY <1>3, <2>1
<1>. QED  BY <1>4

Pick(s) == CHOOSE x \in s : TRUE

(* The recursion inside MapThenSumSet, for the sum of f over S. *)
Adds(f, S, g) ==
    g = [s \in SUBSET S |-> IF s = {} THEN 0 ELSE f[Pick(s)] + g[s \ {Pick(s)}]]

Total(f, S) == MapThenSumSet(LAMBDA x : f[x], S)

LEMMA TotalIsFold ==
  ASSUME NEW f, NEW S
  PROVE  Total(f, S) = (CHOOSE g : Adds(f, S, g))[S]
  BY DEF Total, MapThenSumSet, MapThenFoldSet, Adds, Pick

LEMMA PickIn ==
  ASSUME NEW s, s # {}
  PROVE  Pick(s) \in s
  BY DEF Pick

(* Two functions that add up f agree wherever both are defined. *)
LEMMA AddsUnique ==
  ASSUME NEW f, NEW S, IsFiniteSet(S), NEW T \in SUBSET S,
         NEW g, NEW h, Adds(f, S, g), Adds(f, T, h)
  PROVE  g[T] = h[T]
<1> DEFINE Good == {U \in SUBSET T : g[U] = h[U]}
<1>1. IsFiniteSet(T)
  BY FS_Subset
<1>2. ASSUME NEW U \in SUBSET T, \A V \in SUBSET U : V # U => V \in Good
      PROVE  U \in Good
  <2>1. CASE U = {}
    BY <2>1 DEF Adds
  <2>2. CASE U # {}
    <3> DEFINE p == Pick(U)
    <3>1. p \in U
      BY <2>2, PickIn
    <3>2. g[U \ {p}] = h[U \ {p}]
      BY <1>2, <3>1
    <3>3. g[U] = f[p] + g[U \ {p}] /\ h[U] = f[p] + h[U \ {p}]
      BY <2>2 DEF Adds
    <3>. QED  BY <3>2, <3>3
  <2>. QED  BY <2>1, <2>2
<1>3. T \in Good
  <2> HIDE DEF Good
  <2>. QED  BY <1>1, <1>2, SubsetInduction
<1>. QED  BY <1>3

LEMMA AddsExists ==
  ASSUME NEW f, NEW S, IsFiniteSet(S)
  PROVE  \E g : Adds(f, S, g)
<1> DEFINE Good == {T \in SUBSET S : \E g : Adds(f, T, g)}
           Fn(T) == CHOOSE g : Adds(f, T, g)
<1>1. ASSUME NEW T \in SUBSET S, \A U \in SUBSET T : U # T => U \in Good
      PROVE  T \in Good
  <2> DEFINE Rest(s) == Fn(s \ {Pick(s)})[s \ {Pick(s)}]
             h == [s \in SUBSET T |-> IF s = {} THEN 0 ELSE f[Pick(s)] + Rest(s)]
  <2>1. \A U \in SUBSET T : U # T => Adds(f, U, Fn(U))
    BY <1>1
  <2>2. ASSUME NEW s \in SUBSET T, s # {} PROVE h[s \ {Pick(s)}] = Rest(s)
    <3> DEFINE U == s \ {Pick(s)}
    <3>1. U \in SUBSET T /\ U # T /\ IsFiniteSet(U)
      BY <2>2, PickIn, FS_Subset
    <3>2. Adds(f, U, Fn(U))
      BY <2>1, <3>1
    <3>3. CASE U = {}
      BY <3>1, <3>2, <3>3 DEF Adds
    <3>4. CASE U # {}
      <4> DEFINE p == Pick(U)
      <4>1. p \in U
        BY <3>4, PickIn
      <4>2. Adds(f, U \ {p}, Fn(U \ {p}))
        BY <2>1, <3>1, <4>1
      <4>3. Fn(U)[U \ {p}] = Fn(U \ {p})[U \ {p}]
        <5> HIDE DEF Fn, U, p
        <5>. QED  BY <3>1, <3>2, <4>1, <4>2, AddsUnique
      <4>4. h[U] = f[p] + Fn(U \ {p})[U \ {p}]
        BY <3>1, <3>4
      <4>5. Fn(U)[U] = f[p] + Fn(U)[U \ {p}]
        <5> HIDE DEF Fn
        <5>. QED  BY <3>1, <3>2, <3>4 DEF Adds
      <4>. QED  BY <4>3, <4>4, <4>5
    <3>. QED  BY <3>3, <3>4
  <2>3. Adds(f, T, h)
    <3> HIDE DEF Fn
    <3>. QED  BY <2>2 DEF Adds
  <2>. QED  BY <2>3
<1>2. S \in Good
  <2> HIDE DEF Good
  <2>. QED  BY <1>1, SubsetInduction
<1>. QED  BY <1>2

(* MapThenSumSet unfolded once. *)
LEMMA TotalUnfolds ==
  ASSUME NEW f, NEW S, IsFiniteSet(S)
  PROVE  /\ S = {} => Total(f, S) = 0
         /\ S # {} => /\ Pick(S) \in S
                      /\ Total(f, S) = f[Pick(S)] + Total(f, S \ {Pick(S)})
<1> DEFINE T == S \ {Pick(S)}
           g == CHOOSE r : Adds(f, S, r)
           h == CHOOSE r : Adds(f, T, r)
<1>1. IsFiniteSet(T) /\ T \in SUBSET S
  BY FS_Subset
<1>2. Adds(f, S, g) /\ Adds(f, T, h)
  BY <1>1, AddsExists
<1>3. Total(f, S) = g[S] /\ Total(f, T) = h[T]
  BY TotalIsFold
<1> HIDE DEF g, h
<1>4. g[T] = h[T]
  <2> HIDE DEF T
  <2>. QED  BY <1>1, <1>2, AddsUnique
<1>5. /\ S = {} => g[S] = 0
      /\ S # {} => g[S] = f[Pick(S)] + g[T]
  BY <1>2 DEF Adds
<1>. QED  BY <1>3, <1>4, <1>5, PickIn

(* A sum of naturals is a natural, and does not depend on the order in which
   its terms are picked. *)
LEMMA TotalNat ==
  ASSUME NEW S, IsFiniteSet(S), NEW f \in [S -> Nat]
  PROVE  \A T \in SUBSET S : Total(f, T) \in Nat
<1> DEFINE Good == {T \in SUBSET S : Total(f, T) \in Nat}
<1>1. ASSUME NEW T \in SUBSET S, \A U \in SUBSET T : U # T => U \in Good
      PROVE  T \in Good
  <2>1. CASE T = {}
    <3>1. Total(f, {}) = 0
      BY FS_EmptySet, TotalUnfolds
    <3>. QED  BY <2>1, <3>1
  <2>2. CASE T # {}
    <3> DEFINE p == Pick(T)
    <3>1. IsFiniteSet(T)
      BY FS_Subset
    <3>2. p \in T /\ Total(f, T) = f[p] + Total(f, T \ {p})
      BY <2>2, <3>1, TotalUnfolds
    <3>3. Total(f, T \ {p}) \in Nat
      BY <1>1, <3>2
    <3>. QED  BY <3>2, <3>3
  <2>. QED  BY <2>1, <2>2
<1>2. \A T \in SUBSET S : T \in Good
  <2> HIDE DEF Good
  <2>. QED  BY <1>1, SubsetInduction
<1>. QED  BY <1>2

LEMMA TotalRemove ==
  ASSUME NEW S, IsFiniteSet(S), NEW f \in [S -> Nat]
  PROVE  \A T \in SUBSET S : \A x \in T : Total(f, T) = f[x] + Total(f, T \ {x})
<1> DEFINE Good == {T \in SUBSET S : \A x \in T : Total(f, T) = f[x] + Total(f, T \ {x})}
<1>1. ASSUME NEW T \in SUBSET S, \A U \in SUBSET T : U # T => U \in Good
      PROVE  T \in Good
  <2> SUFFICES ASSUME NEW x \in T PROVE Total(f, T) = f[x] + Total(f, T \ {x})
    OBVIOUS
  <2> DEFINE p == Pick(T)
  <2>1. IsFiniteSet(T) /\ IsFiniteSet(T \ {x})
    BY FS_Subset
  <2>2. p \in T /\ Total(f, T) = f[p] + Total(f, T \ {p})
    BY <2>1, TotalUnfolds
  <2>3. CASE p # x
    <3>1. Total(f, T \ {p}) = f[x] + Total(f, (T \ {p}) \ {x})
      BY <1>1, <2>2, <2>3
    <3>2. Total(f, T \ {x}) = f[p] + Total(f, (T \ {x}) \ {p})
      BY <1>1, <2>2, <2>3
    <3>3. (T \ {p}) \ {x} = (T \ {x}) \ {p}
      OBVIOUS
    <3>4. Total(f, (T \ {x}) \ {p}) \in Nat
      BY TotalNat
    <3>. QED  BY <2>2, <3>1, <3>2, <3>3, <3>4
  <2>. QED  BY <2>2, <2>3
<1>2. \A T \in SUBSET S : T \in Good
  <2> HIDE DEF Good
  <2>. QED  BY <1>1, SubsetInduction
<1>. QED  BY <1>2

(* Dropping terms of a sum of naturals does not raise it. *)
LEMMA TotalMonotone ==
  ASSUME NEW S, IsFiniteSet(S), NEW f \in [S -> Nat]
  PROVE  \A T \in SUBSET S : \A U \in SUBSET T : Total(f, U) <= Total(f, T)
<1> DEFINE Good == {T \in SUBSET S : \A U \in SUBSET T : Total(f, U) <= Total(f, T)}
<1>1. ASSUME NEW T \in SUBSET S, \A U \in SUBSET T : U # T => U \in Good
      PROVE  T \in Good
  <2> SUFFICES ASSUME NEW U \in SUBSET T, U # T PROVE Total(f, U) <= Total(f, T)
    BY TotalNat
  <2>1. PICK x \in T : x \notin U
    OBVIOUS
  <2>2. Total(f, U) <= Total(f, T \ {x})
    BY <1>1, <2>1
  <2>3. Total(f, T) = f[x] + Total(f, T \ {x})
    BY TotalRemove
  <2>4. Total(f, U) \in Nat /\ Total(f, T \ {x}) \in Nat
    BY TotalNat
  <2>. QED  BY <2>2, <2>3, <2>4
<1>2. \A T \in SUBSET S : T \in Good
  <2> HIDE DEF Good
  <2>. QED  BY <1>1, SubsetInduction
<1>. QED  BY <1>2

(* What the memory check of reserve_admission adds up. *)
LEMMA ReservedFacts ==
  ASSUME NEW T \in SUBSET Jobs
  PROVE  /\ Reserved(T) \in Nat
         /\ \A U \in SUBSET T : Reserved(U) <= Reserved(T)
         /\ \A x \in Jobs \ T : Reserved(T \cup {x}) = Reserved(T) + Request[x]
<1>1. \A U : Reserved(U) = Total(Request, U)
  BY DEF Reserved, Total
<1>2. Reserved(T) \in Nat /\ \A U \in SUBSET T : Reserved(U) <= Reserved(T)
  BY <1>1, JobsFinite, RequestType, TotalNat, TotalMonotone
<1>3. ASSUME NEW x \in Jobs \ T
      PROVE  Reserved(T \cup {x}) = Reserved(T) + Request[x]
  <2>1. (T \cup {x}) \ {x} = T /\ T \cup {x} \in SUBSET Jobs
    OBVIOUS
  <2>2. Total(Request, T \cup {x}) = Request[x] + Total(Request, T)
    BY <2>1, JobsFinite, RequestType, TotalRemove
  <2>. QED  BY <1>1, <1>2, <2>2, RequestType
<1>. QED  BY <1>2, <1>3

-----------------------------------------------------------------------------
Kept == {k \in Jobs : kept[k]}

(* Reservations that only disappear free memory. *)
LEMMA LosingKeepsPromise ==
  ASSUME MemoryPromise, Kept' \subseteq Kept
  PROVE  MemoryPromise'
<1> SUFFICES ASSUME NEW k \in Kept', Request[k] > 0
             PROVE  \E available \in Readings : Reserved(Kept') + Floor < available
  BY DEF MemoryPromise, Kept
<1>1. PICK available \in Readings : Reserved(Kept) + Floor < available
  BY DEF MemoryPromise, Kept
<1>2. Reserved(Kept') <= Reserved(Kept) /\ Reserved(Kept) \in Nat /\ Reserved(Kept') \in Nat
  BY ReservedFacts DEF Kept
<1>. QED  BY <1>1, <1>2, BoundsType DEF InvalidReading

(* The supervisor that reserves under the lock has added up every kept
   reservation; one that requests nothing changes no sum. *)
LEMMA ReservingKeepsPromise ==
  ASSUME NEW i \in Jobs, KeptCounted, MemoryPromise, Granted(i), Kept' \subseteq Kept \cup {i}
  PROVE  MemoryPromise'
<1> SUFFICES ASSUME NEW k \in Kept', Request[k] > 0
             PROVE  \E available \in Readings : Reserved(Kept') + Floor < available
  BY DEF MemoryPromise, Kept
<1>1. Request[i] \in Nat /\ Request[k] \in Nat /\ Floor \in Nat
  BY RequestType, BoundsType DEF Kept
<1>2. \A available \in Readings : available \in Int
  BY BoundsType DEF InvalidReading
<1>3. Reserved(Kept') \in Nat
  BY ReservedFacts DEF Kept
<1>4. CASE Request[i] > 0
  <2> DEFINE O == Others(i)
  <2>1. PICK available \in Readings : available - Reserved(O) - Request[i] > Floor
    BY <1>4 DEF Granted, MemoryFits
  <2>2. O \in SUBSET Jobs /\ i \notin O /\ Kept' \subseteq O \cup {i}
    BY DEF Others, Kept, KeptCounted
  <2> HIDE DEF O
  <2>3. Reserved(O) \in Nat /\ Reserved(O \cup {i}) = Reserved(O) + Request[i]
    BY <2>2, ReservedFacts
  <2>4. Reserved(Kept') <= Reserved(O \cup {i})
    BY <2>2, ReservedFacts
  <2>. QED  BY <1>1, <1>2, <1>3, <2>1, <2>3, <2>4
<1>5. CASE Request[i] = 0
  <2> DEFINE K == Kept \ {i}
  <2>1. k \in Kept
    BY <1>5
  <2>2. PICK available \in Readings : Reserved(Kept) + Floor < available
    BY <2>1 DEF MemoryPromise, Kept
  <2>3. K \in SUBSET Jobs /\ i \notin K /\ K \subseteq Kept /\ Kept \in SUBSET Jobs
        /\ Kept' \subseteq K \cup {i}
    BY DEF Kept
  <2> HIDE DEF K
  <2>4. Reserved(K) \in Nat /\ Reserved(K \cup {i}) = Reserved(K)
    BY <1>5, <2>3, ReservedFacts
  <2>5. Reserved(Kept') <= Reserved(K \cup {i})
    BY <2>3, ReservedFacts
  <2>6. Reserved(K) <= Reserved(Kept) /\ Reserved(Kept) \in Nat
    BY <2>3, ReservedFacts
  <2>. QED  BY <1>1, <1>2, <1>3, <2>2, <2>4, <2>5, <2>6
<1>. QED  BY <1>1, <1>4, <1>5

(* The memory promised to reservations counted without interruption stays
   below what the machine was seen to have, less the floor, at every step of
   every interleaving. *)
THEOREM MemoryPromiseHolds == Spec => []MemoryPromise
<1>1. Init => KeptCounted /\ MemoryPromise
  BY DEF Init, KeptCounted, MemoryPromise
<1>2. TypeOK /\ KeptCounted /\ MemoryPromise /\ [Next]_vars => KeptCounted' /\ MemoryPromise'
  <2> SUFFICES ASSUME TypeOK, KeptCounted, MemoryPromise, [Next]_vars
               PROVE  KeptCounted' /\ MemoryPromise'
    OBVIOUS
  <2>1. CASE \A j \in Jobs : kept'[j] => kept[j]
    <3>1. Kept' \subseteq Kept
      BY <2>1 DEF Kept
    <3>. QED  BY <3>1, LosingKeepsPromise, ReservationSteps
  <2>2. ASSUME NEW i \in Jobs, Granted(i), \A j \in Jobs : kept'[j] => j = i \/ kept[j]
        PROVE  MemoryPromise'
    <3>1. Kept' \subseteq Kept \cup {i}
      BY <2>2 DEF Kept
    <3>. QED  BY <2>2, <3>1, ReservingKeepsPromise
  <2>. QED  BY <2>1, <2>2, ReservationSteps
<1>. QED  BY <1>1, <1>2, TypeCorrect, PTL DEF Spec

-----------------------------------------------------------------------------
(* A registered child is named by its record, and a restart reaps it before
   its identity leaves the record. *)
RegisteredNamed == \A j \in Jobs :
    /\ child[j] \in {"live", "hidden"} /\ phase[j] # "boot" => rec[j].payload = "current"
    /\ pc[j] = "requeue" => child[j] = "gone"

LEMMA RegisteredStep ==
  ASSUME TypeOK, RegisteredNamed, [Next]_vars
  PROVE  RegisteredNamed'
<1> USE DEF RegisteredNamed, TypeOK
<1>1. ASSUME NEW i \in Jobs, Cleanup(i) PROVE RegisteredNamed'
  <2>1. \A j \in Jobs : child[j] \in {"live", "hidden"} /\ phase[j] # "boot" => j \notin Deletable
    BY DEF Deletable, RecordedStates, ChildState, Seen
  <2>2. \A j \in Jobs \ Deletable : rec'[j] = Relabelled(j)
    BY <1>1 DEF Cleanup
  <2>3. \A j \in Jobs : Relabelled(j).payload = rec[j].payload
    BY DEF Relabelled, Record
  <2>4. \A j \in Jobs : pc'[j] = "requeue" => pc[j] = "requeue"
    BY <1>1 DEF Cleanup
  <2>. QED  BY <1>1, <2>1, <2>2, <2>3, <2>4 DEF Cleanup
<1>2. ASSUME NEW i \in Jobs, Create(i) \/ Admit(i) \/ ReserveEarly(i) \/ QueueTimeout(i)
      PROVE  RegisteredNamed'
  BY <1>2 DEF Create, Admit, ReserveEarly, QueueTimeout, Record
<1>3. ASSUME NEW i \in Jobs, Popen(i) PROVE RegisteredNamed'
  BY <1>3 DEF Popen, Record
<1>4. ASSUME NEW i \in Jobs, PopenFails(i) \/ RecordLaunch(i) PROVE RegisteredNamed'
  BY <1>4 DEF PopenFails, RecordLaunch, Record
<1>5. ASSUME NEW i \in Jobs, Register(i) PROVE RegisteredNamed'
  <2>1. rec'[i].payload = "current" /\ \A j \in Jobs \ {i} : rec'[j] = rec[j]
    BY <1>5 DEF Register, Record
  <2>. QED  BY <1>5, <2>1 DEF Register
<1>6. ASSUME NEW i \in Jobs, Exec(i) \/ ChildExit(i) \/ Hide(i) PROVE RegisteredNamed'
  BY <1>6 DEF Exec, ChildExit, Hide
<1>7. ASSUME NEW i \in Jobs, Reap(i) \/ Settle(i) PROVE RegisteredNamed'
  BY <1>7 DEF Reap, Settle, Record
<1>8. ASSUME NEW i \in Jobs, Restart(i) PROVE RegisteredNamed'
  BY <1>8 DEF Restart, Record
<1>9. ASSUME NEW i \in Jobs, Requeue(i) PROVE RegisteredNamed'
  BY <1>9 DEF Requeue, Record
<1>10. ASSUME NEW i \in Jobs, Exit(i) \/ Crash(i) PROVE RegisteredNamed'
  BY <1>10 DEF Exit, Crash
<1>11. CASE UNCHANGED vars
  BY <1>11 DEF vars
<1>. QED  BY <1>1, <1>2, <1>3, <1>4, <1>5, <1>6, <1>7, <1>8, <1>9, <1>10, <1>11
          DEF Next, Supervise, Inner

(* Only cleanup() removes a record. *)
LEMMA OnlyCleanupDeletes ==
  ASSUME TypeOK, [Next]_vars, NEW j \in Jobs, rec[j].status # "none", rec'[j].status = "none"
  PROVE  j \in Deletable
<1>1. ASSUME NEW i \in Jobs, Cleanup(i) PROVE j \in Deletable
  <2>1. Relabelled(j).status # "none"
    BY DEF Relabelled, TypeOK, Record
  <2>. QED  BY <1>1, <2>1 DEF Cleanup
<1>2. ASSUME NEW i \in Jobs,
             \/ Create(i) \/ Admit(i) \/ ReserveEarly(i) \/ PopenFails(i) \/ RecordLaunch(i)
             \/ Reap(i) \/ Settle(i) \/ Requeue(i) \/ Exit(i) \/ QueueTimeout(i)
             \/ Restart(i) \/ Crash(i) \/ Hide(i)
      PROVE  FALSE
  <2>. USE DEF TypeOK, Record
  <2>1. CASE Create(i) \/ Admit(i) \/ ReserveEarly(i) \/ QueueTimeout(i)
    BY <2>1 DEF Create, Admit, ReserveEarly, QueueTimeout
  <2>2. CASE PopenFails(i) \/ RecordLaunch(i)
    BY <2>2 DEF PopenFails, RecordLaunch
  <2>3. CASE Reap(i) \/ Settle(i)
    BY <2>3 DEF Reap, Settle
  <2>4. CASE Requeue(i) \/ Restart(i)
    BY <2>4 DEF Requeue, Restart
  <2>5. CASE Exit(i) \/ Crash(i) \/ Hide(i)
    BY <2>5 DEF Exit, Crash, Hide
  <2>. QED  BY <1>2, <2>1, <2>2, <2>3, <2>4, <2>5
<1>3. ASSUME NEW i \in Jobs, Popen(i) \/ Inner(i) PROVE FALSE
  BY <1>3 DEF TypeOK, Record, Popen, Inner, Register, Exec, ChildExit
<1>. QED  BY <1>1, <1>2, <1>3 DEF Next, Supervise, vars

(* cleanup() removes no record of a living supervisor or payload, although the
   identities it goes by are rewritten by registrations and restarts. *)
THEOREM LiveRecordsRemainHolds == Spec => LiveRecordsRemain
<1>1. Init => RegisteredNamed
  BY DEF Init, RegisteredNamed
<1>2. TypeOK /\ RegisteredNamed /\ [Next]_vars => RegisteredNamed'
  BY RegisteredStep
<1> DEFINE Spared == \A j \in Jobs :
              rec[j].status # "none" /\ rec'[j].status = "none" =>
                sup[j] # "live" /\ ~(child[j] \in {"live", "hidden"} /\ phase[j] # "boot")
<1>3. TypeOK /\ RegisteredNamed /\ [Next]_vars => Spared
  <2> SUFFICES ASSUME TypeOK, RegisteredNamed, [Next]_vars,
                      NEW j \in Jobs, rec[j].status # "none", rec'[j].status = "none"
               PROVE  sup[j] # "live" /\ ~(child[j] \in {"live", "hidden"} /\ phase[j] # "boot")
    OBVIOUS
  <2>1. RecordedStates(j) \cap {"live", "unknown"} = {}
    BY OnlyCleanupDeletes DEF Deletable
  <2>. QED  BY <2>1 DEF RecordedStates, ChildState, Seen, RegisteredNamed
<1>. QED  BY <1>1, <1>2, <1>3, TypeCorrect, PTL DEF Spec, LiveRecordsRemain
=============================================================================
