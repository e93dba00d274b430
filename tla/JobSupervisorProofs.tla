------------------------- MODULE JobSupervisorProofs -------------------------
(***************************************************************************)
(* JobSupervisor implements PayloadContract, for every command line, order *)
(* of steps and fault.  The inductive invariant says at each point of the  *)
(* supervisor how many executions are behind it: as many as restarts       *)
(* charged while the next one is still ahead, one more otherwise.  The     *)
(* durable marker decides which of the two holds once a child is gone.     *)
(***************************************************************************)
EXTENDS JobSupervisor, TLAPS

Ahead    == {"boot", "registered", "marked"}   \* launched, not yet executed
Handover == {"terminate", "grace", "reap", "requeue", "readmit"}

\* No member of an earlier attempt that the supervisor could know of.
Clean == desc # "member" /\ ~(held /\ desc = "left")

\* Executions behind the supervisor.
CountInv ==
    /\ execs <= 1 + rec.restarts
    /\ leader \in Ahead \/ pc = "launch" => execs <= rec.restarts
    /\ ~marker /\ pc # "replaced" => execs <= rec.restarts
    /\ pc \in Handover => /\ rec.restarts = 1 /\ execs <= 1
                          /\ leader \in Ahead => execs = 0
    /\ pc \in {"start", "admit", "scope"} => execs = 0

\* What is known of the child at a point of main().
ChildInv ==
    /\ pc \in {"start", "admit", "scope"} => leader = "none" /\ ~marker
    /\ pc \in {"reap", "launch"} => ~Running
    /\ pc \in {"requeue", "readmit", "settle"} => Exited
    /\ pc = "done" \/ (pc = "error" /\ opts.role # "batch") => ~Running
    /\ pc = "replaced" => leader \notin Ahead
    /\ leader = "marked" \/ (leader = "started" /\ pc # "replaced") => marker
    /\ leader = "started" => execs > 0
    /\ exitcode = 0 => execs > 0

\* And of the rest of its group.
GroupInv ==
    /\ leader \in Ahead \/ pc \in {"reap", "requeue", "readmit", "launch"} => Clean
    /\ ~marker /\ pc # "replaced" => Clean

\* A launch for the first attempt, one for a restart, one for a fallback.
Spare == IF scoped THEN 0 ELSE 1

AttemptInv ==
    /\ pc \in {"start", "admit", "scope"} => attempt = 0
    /\ pc = "launch" => attempt <= rec.restarts + Spare
    /\ pc \in Handover => attempt <= 1 + Spare
    /\ attempt <= 1 + rec.restarts + Spare

\* What the record says.
StatusInv ==
    /\ rec.status = "finished" => pc = "done"
    /\ rec.status = "queued_timeout" => request = 0
    /\ pc \in {"start", "admit", "scope", "readmit"} => request = 0

\* Who did not allow restarts has none asked for, charged or failed, and a payload
\* of his that ended with code 0 is not launched again.
ConsentInv ==
    /\ request # 0 \/ rec.restarts = 1 \/ pc \in Handover \cup {"rejected"} =>
         opts.restartable /\ opts.role = "batch"
    /\ rec.status \in {"failed", "queued_timeout"} => pc = "done" \/ opts.restartable
    /\ exitcode = 0 /\ pc \in {"start", "admit", "scope", "launch"} => opts.restartable

JobInv == /\ SupervisorTypeOK /\ CountInv /\ ChildInv /\ GroupInv /\ AttemptInv /\ StatusInv
          /\ ConsentInv /\ FinalStatus
-----------------------------------------------------------------------------
(* Every step keeps the invariant.  What main(), inner_main(), the group and other
   clients do is one case each; where several conjuncts depend on a step they are
   proved one by one. *)
LEMMA JobNext == JobInv /\ [SupervisorNext]_supervisor_vars => JobInv'
<1>. SUFFICES ASSUME JobInv, [SupervisorNext]_supervisor_vars PROVE JobInv'
  OBVIOUS
<1>. USE DEF JobInv, SupervisorTypeOK, CountInv, ChildInv, GroupInv, AttemptInv, StatusInv,
             ConsentInv, FinalStatus, Record, Statuses, Leaders, Points, Ahead,
             Handover, Clean, Spare, Running, Exited, Supervised, MaxAttempts, Mandatory
<1>1. CASE Register
  BY <1>1 DEF Register, childVars
<1>2. CASE RegistrationFails
  BY <1>2 DEF RegistrationFails, childVars
<1>3. CASE Admit
  BY <1>3 DEF Admit, childVars
<1>4. CASE QueueTimeout
  BY <1>4 DEF QueueTimeout, childVars
<1>5. CASE ChooseScope
  BY <1>5 DEF ChooseScope, childVars, ScopeReady, Answers
<1>6. CASE Popen
  <2>1. SupervisorTypeOK'
    <3>1. attempt + 1 \in 0..MaxAttempts
      BY <1>6 DEF Popen
    <3>. QED  BY <1>6, <3>1 DEF Popen, childVars
  <2>2. CountInv'
    BY <1>6 DEF Popen, childVars
  <2>3. ChildInv'
    BY <1>6 DEF Popen, childVars
  <2>4. GroupInv'
    BY <1>6 DEF Popen, childVars
  <2>5. AttemptInv'
    BY <1>6 DEF Popen, childVars
  <2>6. StatusInv'
    BY <1>6 DEF Popen, childVars
  <2>7. ConsentInv'
    BY <1>6 DEF Popen, childVars
  <2>8. FinalStatus'
    BY <1>6 DEF Popen, childVars
  <2>. HIDE DEF SupervisorTypeOK, CountInv, ChildInv, GroupInv, AttemptInv, StatusInv,
                ConsentInv, FinalStatus
  <2>. QED  BY <2>1, <2>2, <2>3, <2>4, <2>5, <2>6, <2>7, <2>8
<1>7. CASE PopenFails
  <2>1. SupervisorTypeOK'
    BY <1>7 DEF PopenFails, childVars
  <2>2. CountInv'
    BY <1>7 DEF PopenFails, childVars
  <2>3. ChildInv'
    BY <1>7 DEF PopenFails, childVars
  <2>4. GroupInv'
    BY <1>7 DEF PopenFails, childVars
  <2>5. AttemptInv'
    <3>1. rec'.restarts = rec.restarts /\ attempt' = attempt
      BY <1>7 DEF PopenFails, childVars
    <3>2. pc' \in {"launch", "done", "error"} /\ Spare <= Spare'
      <4>1. CASE scoped /\ ~Mandatory
        BY <1>7, <4>1 DEF PopenFails
      <4>2. CASE scoped /\ Mandatory
        <5>1. pc' = "done" /\ scoped' = scoped
          BY <1>7, <4>2 DEF PopenFails
        <5>. QED  BY <5>1
      <4>3. CASE ~scoped
        BY <1>7, <4>3 DEF PopenFails
      <4>. QED  BY <4>1, <4>2, <4>3
    <3>3. Spare' \in {0, 1}
      OBVIOUS
    <3>. QED  BY <1>7, <3>1, <3>2, <3>3 DEF PopenFails
  <2>6. StatusInv'
    BY <1>7 DEF PopenFails, childVars
  <2>7. ConsentInv'
    BY <1>7 DEF PopenFails, childVars
  <2>8. FinalStatus'
    BY <1>7 DEF PopenFails, childVars
  <2>. HIDE DEF SupervisorTypeOK, CountInv, ChildInv, GroupInv, AttemptInv, StatusInv,
                ConsentInv, FinalStatus
  <2>. QED  BY <2>1, <2>2, <2>3, <2>4, <2>5, <2>6, <2>7, <2>8
<1>8. CASE RecordLaunch
  BY <1>8 DEF RecordLaunch, childVars
<1>9. CASE RegisterPayload
  <2>1. SupervisorTypeOK'
    <3>1. rec' \in Record
      BY <1>9 DEF RegisterPayload, Exits, Refused, Kernel, KernelLimitsEffective
    <3>2. pc' \in Points
      BY <1>9 DEF RegisterPayload, childVars, Exits, Refused, Kernel, KernelLimitsEffective
    <3>3. /\ marker' \in BOOLEAN /\ scoped' \in BOOLEAN /\ held' \in BOOLEAN
          /\ leader' \in Leaders /\ desc' \in {"none", "member", "left", "gone"}
      BY <1>9 DEF RegisterPayload, childVars, Exits, Refused, Kernel, KernelLimitsEffective
    <3>. QED  BY <1>9, <3>1, <3>2, <3>3
              DEF RegisterPayload, childVars, Exits, Refused, Kernel, KernelLimitsEffective
  <2>2. CountInv'
    BY <1>9 DEF RegisterPayload, childVars, Exits, Refused, Kernel, KernelLimitsEffective
  <2>3. ChildInv'
    BY <1>9 DEF RegisterPayload, childVars, Exits, Refused, Kernel, KernelLimitsEffective
  <2>4. GroupInv'
    BY <1>9 DEF RegisterPayload, childVars, Exits, Refused, Kernel, KernelLimitsEffective
  <2>5. AttemptInv'
    BY <1>9 DEF RegisterPayload, childVars, Exits, Refused, Kernel, KernelLimitsEffective
  <2>6. StatusInv'
    BY <1>9 DEF RegisterPayload, childVars, Exits, Refused, Kernel, KernelLimitsEffective
  <2>7. ConsentInv'
    BY <1>9 DEF RegisterPayload, childVars, Exits, Refused, Kernel, KernelLimitsEffective
  <2>8. FinalStatus'
    BY <1>9 DEF RegisterPayload, childVars, Exits, Refused, Kernel, KernelLimitsEffective
  <2>. HIDE DEF SupervisorTypeOK, CountInv, ChildInv, GroupInv, AttemptInv, StatusInv,
                ConsentInv, FinalStatus
  <2>. QED  BY <2>1, <2>2, <2>3, <2>4, <2>5, <2>6, <2>7, <2>8
<1>10. CASE WriteMarker
  BY <1>10 DEF WriteMarker, childVars
<1>11. CASE Exec
  BY <1>11 DEF Exec, childVars
<1>12. CASE LeaderExits
  BY <1>12 DEF LeaderExits, childVars, Exits
<1>13. CASE Fork
  BY <1>13 DEF Fork, childVars
<1>14. CASE DescendantMoves
  BY <1>14 DEF DescendantMoves, childVars
<1>15. CASE RequestRestart
  BY <1>15 DEF RequestRestart, childVars, Valid
<1>16. CASE OtherCleanup
  BY <1>16 DEF OtherCleanup, childVars
<1>17. CASE PollChild
  BY <1>17 DEF PollChild, childVars
<1>18. CASE TakeRequest
  BY <1>18 DEF TakeRequest, Requested, childVars
<1>19. CASE SignalGroup
  BY <1>19 DEF SignalGroup, childVars
<1>20. CASE Scan
  BY <1>20 DEF Scan, childVars, Members, Escaped
<1>21. CASE KillGroup
  BY <1>21 DEF KillGroup, childVars, Members, Escaped
<1>22. CASE ReapOldGroup
  BY <1>22 DEF ReapOldGroup, childVars, Emptied
<1>23. CASE Requeue
  <2>1. SupervisorTypeOK'
    <3>1. rec' \in Record
      <4>1. rec' = [rec EXCEPT !.status = "queued", !.payload = 0] \/ rec' = rec
        BY <1>23 DEF Requeue
      <4>2. "queued" \in Statuses /\ 0 \in 0..MaxAttempts
        OBVIOUS
      <4>. QED  BY <4>1, <4>2
    <3>. QED  BY <1>23, <3>1 DEF Requeue, childVars
  <2>2. CountInv'
    BY <1>23 DEF Requeue, childVars
  <2>3. ChildInv'
    BY <1>23 DEF Requeue, childVars
  <2>4. GroupInv'
    BY <1>23 DEF Requeue, childVars
  <2>5. AttemptInv'
    BY <1>23 DEF Requeue, childVars
  <2>6. StatusInv'
    BY <1>23 DEF Requeue, childVars
  <2>7. ConsentInv'
    BY <1>23 DEF Requeue, childVars
  <2>8. FinalStatus'
    BY <1>23 DEF Requeue, childVars
  <2>. HIDE DEF SupervisorTypeOK, CountInv, ChildInv, GroupInv, AttemptInv, StatusInv,
                ConsentInv, FinalStatus
  <2>. QED  BY <2>1, <2>2, <2>3, <2>4, <2>5, <2>6, <2>7, <2>8
<1>24. CASE Readmit
  <2>1. SupervisorTypeOK'
    <3>1. rec' \in Record
      BY <1>24 DEF Readmit
    <3>2. pc' \in Points
      BY <1>24 DEF Readmit, childVars
    <3>3. /\ marker' \in BOOLEAN /\ scoped' \in BOOLEAN /\ held' \in BOOLEAN
          /\ leader' \in Leaders /\ desc' \in {"none", "member", "left", "gone"}
      BY <1>24 DEF Readmit, childVars
    <3>. QED  BY <1>24, <3>1, <3>2, <3>3 DEF Readmit, childVars
  <2>2. CountInv'
    BY <1>24 DEF Readmit, childVars
  <2>3. ChildInv'
    BY <1>24 DEF Readmit, childVars
  <2>4. GroupInv'
    BY <1>24 DEF Readmit, childVars
  <2>5. AttemptInv'
    BY <1>24 DEF Readmit, childVars
  <2>6. StatusInv'
    BY <1>24 DEF Readmit, childVars
  <2>7. ConsentInv'
    BY <1>24 DEF Readmit, childVars
  <2>8. FinalStatus'
    BY <1>24 DEF Readmit, childVars
  <2>. HIDE DEF SupervisorTypeOK, CountInv, ChildInv, GroupInv, AttemptInv, StatusInv,
                ConsentInv, FinalStatus
  <2>. QED  BY <2>1, <2>2, <2>3, <2>4, <2>5, <2>6, <2>7, <2>8
<1>25. CASE Reject
  <2>1. SupervisorTypeOK'
    BY <1>25 DEF Reject, Abandons, childVars
  <2>2. CountInv'
    BY <1>25 DEF Reject, Abandons, childVars
  <2>3. ChildInv'
    BY <1>25 DEF Reject, Abandons, childVars
  <2>4. GroupInv'
    BY <1>25 DEF Reject, Abandons, childVars
  <2>5. AttemptInv'
    BY <1>25 DEF Reject, Abandons, childVars
  <2>6. StatusInv'
    BY <1>25 DEF Reject, Abandons, childVars
  <2>7. ConsentInv'
    BY <1>25 DEF Reject, Abandons, childVars
  <2>8. FinalStatus'
    BY <1>25 DEF Reject, Abandons, childVars
  <2>. HIDE DEF SupervisorTypeOK, CountInv, ChildInv, GroupInv, AttemptInv, StatusInv,
                ConsentInv, FinalStatus
  <2>. QED  BY <2>1, <2>2, <2>3, <2>4, <2>5, <2>6, <2>7, <2>8
<1>26. CASE Settle
  <2>1. SupervisorTypeOK'
    <3>1. rec' \in Record
      BY <1>26 DEF Settle, NeverStarted, RestartFailed, FallBack, Outcome, Code
    <3>2. pc' \in Points
      BY <1>26 DEF Settle, childVars, NeverStarted, RestartFailed, FallBack, Outcome, Code
    <3>3. /\ marker' \in BOOLEAN /\ scoped' \in BOOLEAN /\ held' \in BOOLEAN
          /\ leader' \in Leaders /\ desc' \in {"none", "member", "left", "gone"}
      BY <1>26 DEF Settle, childVars, NeverStarted, RestartFailed, FallBack, Outcome, Code
    <3>. QED  BY <1>26, <3>1, <3>2, <3>3
              DEF Settle, childVars, NeverStarted, RestartFailed, FallBack, Outcome, Code
  <2>2. CountInv'
    BY <1>26 DEF Settle, childVars, NeverStarted, RestartFailed, FallBack, Outcome, Code
  <2>3. ChildInv'
    BY <1>26 DEF Settle, childVars, NeverStarted, RestartFailed, FallBack, Outcome, Code
  <2>4. GroupInv'
    BY <1>26 DEF Settle, childVars, NeverStarted, RestartFailed, FallBack, Outcome, Code
  <2>5. AttemptInv'
    BY <1>26 DEF Settle, childVars, NeverStarted, RestartFailed, FallBack, Outcome, Code
  <2>6. StatusInv'
    BY <1>26 DEF Settle, childVars, NeverStarted, RestartFailed, FallBack, Outcome, Code
  <2>7. ConsentInv'
    BY <1>26 DEF Settle, childVars, NeverStarted, RestartFailed, FallBack, Outcome, Code
  <2>8. FinalStatus'
    BY <1>26 DEF Settle, childVars, NeverStarted, RestartFailed, FallBack, Outcome, Code
  <2>. HIDE DEF SupervisorTypeOK, CountInv, ChildInv, GroupInv, AttemptInv, StatusInv,
                ConsentInv, FinalStatus
  <2>. QED  BY <2>1, <2>2, <2>3, <2>4, <2>5, <2>6, <2>7, <2>8
<1>27. CASE Crash
  BY <1>27 DEF Crash, Abandons, childVars
<1>28. CASE UNCHANGED supervisor_vars
  BY <1>28 DEF supervisor_vars
<1>29. CASE Sleep
  BY <1>29 DEF Sleep, childVars
<1>30. CASE StoreFails
  BY <1>30 DEF StoreFails, Abandons, childVars
<1>. QED
  BY <1>1, <1>2, <1>3, <1>4, <1>5, <1>6, <1>7, <1>8, <1>9, <1>10, <1>11, <1>12, <1>13, <1>14,
     <1>15, <1>16, <1>17, <1>18, <1>19, <1>20, <1>21, <1>22, <1>23, <1>24, <1>25, <1>26, <1>27,
     <1>28, <1>29, <1>30 DEF SupervisorNext, Main, Inner, Others
-----------------------------------------------------------------------------
LEMMA JobInit == SupervisorInit => JobInv
<1>. SUFFICES ASSUME SupervisorInit PROVE JobInv
  OBVIOUS
<1>1. SupervisorTypeOK
  <2>1. rec \in Record
    BY DEF SupervisorInit, Record, Statuses, MaxAttempts
  <2>2. pc \in Points /\ leader \in Leaders /\ 0 \in 0..MaxAttempts /\ 0 \in 0..2
    BY DEF SupervisorInit, Points, Leaders, MaxAttempts
  <2>. QED  BY <2>1, <2>2 DEF SupervisorInit, SupervisorTypeOK
<1>2. CountInv /\ AttemptInv
  BY DEF SupervisorInit, CountInv, AttemptInv, Ahead, Handover, Spare
<1>3. ChildInv /\ GroupInv
  BY DEF SupervisorInit, ChildInv, GroupInv, Ahead, Running, Exited, Clean
<1>4. StatusInv /\ ConsentInv /\ FinalStatus
  BY DEF SupervisorInit, StatusInv, ConsentInv, FinalStatus, Handover
<1>. QED  BY <1>1, <1>2, <1>3, <1>4 DEF JobInv

-----------------------------------------------------------------------------
(* The refinement: nothing but an execution, the end of one and a restart that
   is charged is visible to the contract. *)
Hidden == /\ UNCHANGED <<opts, execs>> /\ rec'.restarts = rec.restarts
          /\ leader' = "started" <=> leader = "started"

LEMMA HiddenStutters == Hidden => UNCHANGED Contract!vars
<1>. SUFFICES ASSUME Hidden PROVE UNCHANGED Contract!vars
  OBVIOUS
<1>1. (leader' = "started") = (leader = "started")
  BY DEF Hidden
<1>. QED  BY <1>1 DEF Hidden, Contract!vars

LEMMA ContractNext == JobInv /\ [SupervisorNext]_supervisor_vars => [Contract!Next]_(Contract!vars)
<1>. SUFFICES ASSUME JobInv, [SupervisorNext]_supervisor_vars
              PROVE Contract!Next \/ UNCHANGED Contract!vars
  OBVIOUS
<1>1. CASE Exec
  <2>1. leader = "marked" /\ leader' = "started" /\ execs' = execs + 1
        /\ UNCHANGED <<opts, rec>>
    BY <1>1 DEF Exec
  <2>2. execs < 1 + rec.restarts
    BY <2>1 DEF JobInv, CountInv, Ahead, SupervisorTypeOK, Record
  <2>3. Contract!Begin
    BY <2>1, <2>2 DEF Contract!Begin
  <2>. QED  BY <2>3 DEF Contract!Next
<1>2. CASE RegistrationFails
  <2>1. leader = "none" /\ execs = 0 /\ rec.restarts \in Nat
    BY <1>2 DEF RegistrationFails, JobInv, CountInv, ChildInv, SupervisorTypeOK, Record
  <2>2. CASE opts.role = "agent" /\ opts.scope # "required"
    <3>1. leader' = "started" /\ execs' = 1 /\ UNCHANGED <<opts, rec>>
      BY <1>2, <2>2 DEF RegistrationFails
    <3>2. Contract!Begin
      BY <2>1, <3>1 DEF Contract!Begin
    <3>. QED  BY <3>2 DEF Contract!Next
  <2>3. CASE ~(opts.role = "agent" /\ opts.scope # "required")
    BY <1>2, <2>3, HiddenStutters DEF RegistrationFails, childVars, Hidden
  <2>. QED  BY <2>2, <2>3
<1>3. CASE LeaderExits \/ KillGroup
  <2>1. UNCHANGED <<opts, execs, rec>> /\ (leader' # leader => leader' \in {"zombie", "gone"})
    BY <1>3 DEF LeaderExits, KillGroup, Exits
  <2>2. CASE leader = "started" /\ leader' # leader
    <3>1. Contract!End
      BY <2>1, <2>2 DEF Contract!End
    <3>. QED  BY <3>1 DEF Contract!Next
  <2>3. CASE ~(leader = "started" /\ leader' # leader)
    BY <2>1, <2>3, HiddenStutters DEF Hidden
  <2>. QED  BY <2>2, <2>3
<1>4. CASE TakeRequest
  <2>1. UNCHANGED <<opts, execs, leader>>
    BY <1>4 DEF TakeRequest, childVars
  <2>2. CASE rec' = rec
    BY <2>1, <2>2, HiddenStutters DEF Hidden
  <2>3. CASE rec' # rec
    <3>1. opts.restartable /\ rec.restarts = 0 /\ rec'.restarts = 1
      BY <1>4, <2>3 DEF TakeRequest, JobInv, SupervisorTypeOK, Record
    <3>2. Contract!Spend
      BY <2>1, <3>1 DEF Contract!Spend
    <3>. QED  BY <3>2 DEF Contract!Next
  <2>. QED  BY <2>2, <2>3
<1>5. CASE Popen
  <2>1. leader # "started" /\ leader' = "boot" /\ UNCHANGED <<opts, execs, rec>>
    BY <1>5 DEF Popen, JobInv, ChildInv, Running
  <2>. QED  BY <2>1, HiddenStutters DEF Hidden
<1>6. CASE \/ Register \/ Admit \/ QueueTimeout \/ ChooseScope \/ PopenFails \/ RecordLaunch
           \/ OtherCleanup \/ Requeue \/ Readmit \/ Settle \/ RequestRestart \/ Scan
           \/ SignalGroup \/ Fork \/ DescendantMoves \/ Sleep
  <2>1. UNCHANGED <<opts, execs, leader>>
    BY <1>6 DEF Register, Admit, QueueTimeout, ChooseScope, PopenFails, RecordLaunch,
                OtherCleanup, Requeue, Readmit, Settle, RequestRestart, Scan, SignalGroup,
                Fork, DescendantMoves, Sleep, childVars
  <2>2. rec'.restarts = rec.restarts
    BY <1>6 DEF Register, Admit, QueueTimeout, ChooseScope, PopenFails, RecordLaunch,
                OtherCleanup, Requeue, Readmit, Settle, RequestRestart, Scan, SignalGroup,
                Fork, DescendantMoves, Sleep, FallBack, JobInv, SupervisorTypeOK, Record
  <2>. QED  BY <2>1, <2>2, HiddenStutters DEF Hidden
<1>7. CASE \/ RegisterPayload \/ WriteMarker \/ PollChild \/ ReapOldGroup \/ Reject \/ Crash
           \/ StoreFails
  <2>1. UNCHANGED <<opts, execs>> /\ rec'.restarts = rec.restarts
    BY <1>7 DEF RegisterPayload, WriteMarker, PollChild, ReapOldGroup, Reject, Crash, StoreFails,
                JobInv, SupervisorTypeOK, Record
  <2>2. leader' = "started" <=> leader = "started"
    BY <1>7 DEF RegisterPayload, WriteMarker, PollChild, ReapOldGroup, Reject, Crash, StoreFails,
                Abandons, Exits, Exited
  <2>. QED  BY <2>1, <2>2, HiddenStutters DEF Hidden
<1>8. CASE UNCHANGED supervisor_vars
  BY <1>8, HiddenStutters DEF supervisor_vars, Hidden
<1>. QED  BY <1>1, <1>2, <1>3, <1>4, <1>5, <1>6, <1>7, <1>8 DEF SupervisorNext, Main, Inner, Others
-----------------------------------------------------------------------------
(* The type invariant. *)
THEOREM TypeCorrect == SupervisorSpec => []SupervisorTypeOK
<1>1. JobInv => SupervisorTypeOK
  BY DEF JobInv
<1>. QED  BY <1>1, JobInit, JobNext, PTL DEF SupervisorSpec

(* main() implements the contract: the payload is started once, or twice with
   consent that was given and charged, and never twice at a time. *)
THEOREM HonoursContractHolds == SupervisorSpec => HonoursContract
<1>1. SupervisorInit => Contract!Init
  BY DEF SupervisorInit, Contract!Init, Accepted, Options
<1>. QED  BY <1>1, JobInit, JobNext, ContractNext, PTL
          DEF SupervisorSpec, HonoursContract, Contract!Spec

(* No payload begins beside a member of an earlier attempt. *)
THEOREM NoOverlapHolds == SupervisorSpec => NoOverlap
<1>1. JobInv /\ [SupervisorNext]_supervisor_vars =>
        [leader # "started" /\ leader' = "started" =>
           desc # "member" /\ ~(held /\ desc = "left")]_supervisor_vars
  <2>. SUFFICES ASSUME JobInv, SupervisorNext, leader # "started", leader' = "started"
                PROVE  Clean
    BY DEF Clean
  <2>1. Exec \/ RegistrationFails
    BY DEF SupervisorNext, Main, Inner, Others, Register, Admit, QueueTimeout, ChooseScope,
           PopenFails,
           RecordLaunch, OtherCleanup, Requeue, Readmit, Settle, RequestRestart, Scan,
           SignalGroup, Fork, DescendantMoves, childVars, RegisterPayload, WriteMarker,
           PollChild, Sleep, ReapOldGroup, Reject, Crash, StoreFails, Abandons, Exits, Popen,
           LeaderExits, KillGroup, TakeRequest
  <2>2. CASE Exec
    BY <2>2 DEF Exec, JobInv, GroupInv, Ahead
  <2>3. CASE RegistrationFails
    BY <2>3 DEF RegistrationFails, JobInv, GroupInv, ChildInv
  <2>. QED  BY <2>1, <2>2, <2>3
<1>. QED  BY <1>1, JobInit, JobNext, PTL DEF SupervisorSpec, NoOverlap

(* What main() leaves behind is true: nothing running that nobody supervises, but
   for a batch job lost over its restart request, and a record that says what
   happened, whatever fails in the store. *)
THEOREM FinalStatusHolds == SupervisorSpec => []FinalStatus
<1>1. JobInv => FinalStatus
  BY DEF JobInv
<1>. QED  BY <1>1, JobInit, JobNext, PTL DEF SupervisorSpec
=============================================================================
