------------------------------ MODULE LooperProofs ------------------------------
(***************************************************************************)
(* A run of the looper and its clients, for every configuration of agents, *)
(* prompts, sessions, retries and breakers, every sequence of output lines *)
(* and any stop commands; in the second half, the turns of a hybrid run,   *)
(* for any number of prompts, panes, lines and notes.                      *)
(*                                                                         *)
(* Each property gets an invariant that says, point by point of run_loop   *)
(* and of run_turn, what it rests on.                                      *)
(***************************************************************************)
EXTENDS LooperControl, HybridTurn, TLAPS

USE LooperAssumption

(***************************************************************************)
(* Which point runs an agent, and which wrote a final state.               *)
(***************************************************************************)
WithAgent == {"spawned", "running"}

EndInv ==
    /\ looper \in Loopers /\ pc \in Points
    \* An agent has a supervisor that waits for it and recorded it, or none.
    /\ child # 0 => pc \in WithAgent \cup {"gone"}
    /\ pc = "running" /\ child # 0 => recorded = child
    /\ pc = "spawned" /\ child # 0 => recorded # child
    /\ AgentAccounted
    \* A client repairs only the state of a supervisor that is gone,
    /\ client \in [at : Stages, mode : {"repair", "now", "force"}]
    /\ client.at = "repair" => pc = "gone"
    \* and nobody else writes a final state before the supervisor's last step.
    /\ disk.status \notin Active => pc \in {"stopped", "gone"}

LEMMA EndInit == ControlInit => EndInv
BY DEF ControlInit, Init, EndInv, Nobody, Stages, Points, Active, WithAgent, AgentAccounted

(* The new process is not the one recorded last. *)
LEMMA SpawnFresh == Free({recorded}) # recorded
<1>1. \E t \in Tokens : t \notin {recorded}
  <2>1. 1 \in Tokens /\ 2 \in Tokens /\ (1 # recorded \/ 2 # recorded)
    BY DEF Tokens
  <2>. QED  BY <2>1
<1>. QED  BY <1>1 DEF Free

(* The supervisor's own steps. *)
LEMMA EndSupervise == ASSUME EndInv, Supervise, UNCHANGED client_vars PROVE EndInv'
<1>. USE DEF EndInv, Points, Active, WithAgent, Record, StopRun, GoTo, Raise, client_vars,
             Statuses, AgentAccounted
<1>1. CASE LoopTop \/ LoopEnd \/ WakeRetry \/ WakeLoop \/ DryAttempt
  BY <1>1
  DEF LoopTop, LoopEnd, WakeRetry, WakeLoop, DryAttempt, NextPrompt, attempt_vars, end_vars, config
<1>2. CASE BeginLoop \/ CheckLoop \/ CheckRaises
  BY <1>2 DEF BeginLoop, CheckLoop, CheckRaises, attempt_vars, end_vars, config
<1>3. CASE StartAttempt \/ StartRaises \/ RecordChild \/ RecordChildFails
  BY <1>3, SpawnFresh
  DEF StartAttempt, Spawn, StartRaises, RecordChild, RecordChildFails, attempt_vars, end_vars,
      config
<1>4. CASE KillOnStop \/ AttemptTimeout \/ Reap
  BY <1>4 DEF KillOnStop, AttemptTimeout, Reap, Elsewhere, end_vars, config
<1>5. CASE Settle
  BY <1>5 DEF Settle, attempt_vars, end_vars, config
<1>6. CASE ControlStop \/ LimitStop \/ Retry \/ SignalStop \/ ExitStop \/ PromptDone
  BY <1>6 DEF ControlStop, LimitStop, Retry, SignalStop, ExitStop, PromptDone, NextPrompt,
              After, attempt_vars, end_vars, config
<1>7. CASE Exit \/ Interrupted
  BY <1>7 DEF Exit, Interrupted, Rest, end_vars, config
<1>. QED  BY <1>1, <1>2, <1>3, <1>4, <1>5, <1>6, <1>7 DEF Supervise

LEMMA EndAgent == ASSUME EndInv, Agent \/ Die, UNCHANGED client_vars PROVE EndInv'
<1>. USE DEF EndInv, WithAgent, Active, Points, client_vars, AgentAccounted
<1>1. CASE Agent
  BY <1>1
  DEF Agent, ReadLine, ReaderFails, ChildExits, OrphanExits, Elsewhere, Rest, end_vars, config
<1>2. CASE Die
  BY <1>2 DEF Die, Rest, config
<1>. QED  BY <1>1, <1>2

LEMMA EndSteer == ASSUME EndInv, Steer PROVE EndInv'
<1>. USE DEF EndInv, WithAgent, Active, Points, Untouched, end_vars, config, Nobody, Alive,
             Stages, AgentAccounted
<1>1. CASE (\E a \in ValidActions : QueueStop(a)) \/ AskRepair
  BY <1>1 DEF QueueStop, AskRepair
<1>2. CASE LoadState \/ CheckState
  BY <1>2 DEF LoadState, CheckState, Stale
<1>3. CASE RepairState
  BY <1>3 DEF RepairState, Record
<1>4. CASE SendInterrupt
  <2>1. child' \in {child, 0} /\ UNCHANGED <<looper, pc, recorded, disk, exit>>
    BY <1>4 DEF SendInterrupt, Signalled
  <2>2. /\ client' \in [at : Stages, mode : {"repair", "now", "force"}]
        /\ client'.at # "repair"
    BY <1>4 DEF SendInterrupt
  <2>. QED  BY <2>1, <2>2
<1>5. CASE SendTerminate
  BY <1>5 DEF SendTerminate, Signalled
<1>6. CASE SendKill
  BY <1>6 DEF SendKill
<1>. QED  BY <1>1, <1>2, <1>3, <1>4, <1>5, <1>6 DEF Steer

LEMMA EndNext == ASSUME EndInv, [ControlNext]_all PROVE EndInv'
<1>1. CASE UNCHANGED all
  BY <1>1 DEF all, vars, client_vars, EndInv, AgentAccounted
<1>. QED  BY <1>1, EndSupervise, EndAgent, EndSteer DEF ControlNext

(***************************************************************************)
(* A safety code, once read, stays the reason of the attempt until the run *)
(* ends with it.                                                           *)
(***************************************************************************)
SafetyInv ==
    /\ EndInv
    /\ result \in Result
    /\ unsafe => pc \in {"running", "settle", "stopped", "gone"}
    /\ unsafe /\ pc \in {"running", "settle"} => result.stop = "safety"
    /\ unsafe /\ pc = "stopped" => disk.status = "needs_review" /\ exit = "1"
    /\ unsafe /\ pc = "gone" => exit \in {"1", "130", "killed"}

(* What handle_line makes of a line: a safety code is taken over whatever stood
   there, and never given up. *)
LEMMA SafetyTaken ==
    ASSUME NEW r \in Result, NEW l \in Line, NEW kind, NEW scan
    PROVE  /\ HandleLine(r, l, kind, scan) \in Result
           /\ r.stop = "safety" \/ ParseOutputLine(l, kind, scan).stop = "safety"
                 => HandleLine(r, l, kind, scan).stop = "safety"
<1>. DEFINE parsed == ParseOutputLine(l, kind, scan)
<1>1. parsed.stop \in Stops /\ parsed.session \in BOOLEAN
  BY DEF ParseOutputLine, StopSignal, NamesSession, Stops, Words, Line
<1>. HIDE DEF parsed
<1>2. HandleLine(r, l, kind, scan) =
        [r EXCEPT !.marker = @ \/ l.marker, !.session = @ \/ parsed.session,
                  !.stop = IF Takes(r, parsed.stop) THEN parsed.stop ELSE @]
  BY DEF HandleLine, parsed
<1>3. l.marker \in BOOLEAN
  BY DEF Line
<1>4. HandleLine(r, l, kind, scan).stop =
        IF Takes(r, parsed.stop) THEN parsed.stop ELSE r.stop
  BY <1>2 DEF Result
<1>5. HandleLine(r, l, kind, scan) \in Result
  BY <1>1, <1>2, <1>3 DEF Result
<1>6. r.stop = "safety" \/ parsed.stop = "safety"
        => HandleLine(r, l, kind, scan).stop = "safety"
  BY <1>4 DEF Takes
<1>. QED  BY <1>5, <1>6 DEF parsed

(* The text of a local error does not replace a reason already found. *)
LEMMA LocalErrorStops ==
    ASSUME looper \in Loopers, result \in Result, NEW name \in {"timeout", "reader"}
    PROVE  /\ LocalError(result.stop, name, looper.reads) \in Stops
           /\ result.stop = "safety" => LocalError(result.stop, name, looper.reads) = "safety"
<1>1. looper.reads \in LocalKinds /\ result.stop \in Stops
  BY DEF Result
<1>. QED  BY <1>1 DEF LocalError, LocalKinds, Stops, Words

LEMMA SafetyInit == ControlInit => SafetyInv
BY EndInit DEF ControlInit, Init, SafetyInv, Result, NoResult, Stops, Words

LEMMA SafetySupervise == ASSUME SafetyInv, Supervise, UNCHANGED client_vars PROVE SafetyInv'
<1>e. EndInv'
  BY EndSupervise DEF SafetyInv
<1>. USE <1>e DEF SafetyInv, Record, StopRun, GoTo, Raise
<1>1. CASE LoopTop \/ LoopEnd \/ WakeRetry \/ WakeLoop \/ DryAttempt
  BY <1>1 DEF LoopTop, LoopEnd, WakeRetry, WakeLoop, DryAttempt, NextPrompt, attempt_vars
<1>2. CASE BeginLoop \/ CheckLoop \/ CheckRaises
  BY <1>2 DEF BeginLoop, CheckLoop, CheckRaises, attempt_vars
<1>3. CASE StartAttempt \/ StartRaises \/ RecordChild \/ RecordChildFails
  <2>1. ~unsafe /\ unsafe' = unsafe
    BY <1>3 DEF StartAttempt, StartRaises, RecordChild, RecordChildFails
  <2>2. result' \in {result, NoResult} /\ NoResult \in Result
    BY <1>3 DEF StartAttempt, StartRaises, RecordChild, RecordChildFails, attempt_vars, NoResult,
                Result, Stops, Words
  <2>. QED  BY <2>1, <2>2
<1>4. CASE KillOnStop
  BY <1>4 DEF KillOnStop, Elsewhere, end_vars
<1>5. CASE AttemptTimeout \/ Reap
  <2>1. result' \in Result /\ (result.stop = "safety" => result'.stop = "safety")
    <3>1. CASE AttemptTimeout
      BY <3>1, LocalErrorStops DEF AttemptTimeout, Result, EndInv
    <3>2. CASE Reap
      <4>1. PICK rc \in {"ok", "fail"} : result' = [result EXCEPT !.rc = rc]
        BY <3>2 DEF Reap
      <4>. QED  BY <4>1 DEF Result
    <3>. QED  BY <1>5, <3>1, <3>2
  <2>2. /\ pc = "running" /\ pc' \in {"running", "settle"}
        /\ UNCHANGED <<unsafe, disk, exit>>
    BY <1>5 DEF AttemptTimeout, Reap, Elsewhere, end_vars
  <2>. QED  BY <2>1, <2>2
<1>6. CASE Settle
  BY <1>6 DEF Settle, attempt_vars
<1>7. CASE ControlStop \/ LimitStop \/ Retry \/ SignalStop \/ ExitStop \/ PromptDone
  BY <1>7 DEF ControlStop, LimitStop, Retry, SignalStop, ExitStop, PromptDone, NextPrompt,
              After, attempt_vars
<1>8. CASE Exit \/ Interrupted
  BY <1>8 DEF Exit, Interrupted, Rest, end_vars
<1>. QED  BY <1>1, <1>2, <1>3, <1>4, <1>5, <1>6, <1>7, <1>8 DEF Supervise

LEMMA SafetyAgent == ASSUME SafetyInv, Agent \/ Die, UNCHANGED client_vars PROVE SafetyInv'
<1>e. EndInv'
  BY EndAgent DEF SafetyInv
<1>1. ASSUME NEW l \in looper.output, ReadLine(l) PROVE SafetyInv'
  <2>1. l \in Line /\ result \in Result
    BY DEF SafetyInv, EndInv
  <2>2. /\ result' = HandleLine(result, l, looper.kind, looper.scan)
        /\ pc = "running" /\ pc' = pc
    BY <1>1 DEF ReadLine
  <2>3. unsafe' <=> unsafe \/ ParseOutputLine(l, looper.kind, looper.scan).stop = "safety"
    BY <1>1, Zenon DEF ReadLine
  <2>. QED  BY <1>e, <2>1, <2>2, <2>3, SafetyTaken DEF SafetyInv
<1>2. CASE ReaderFails
  <2>1. result' \in Result /\ (result.stop = "safety" => result'.stop = "safety")
    BY <1>2, LocalErrorStops DEF ReaderFails, Result, SafetyInv, EndInv
  <2>. QED  BY <1>2, <1>e, <2>1 DEF ReaderFails, SafetyInv, Elsewhere, end_vars
<1>3. CASE ChildExits \/ OrphanExits \/ Die
  BY <1>3, <1>e DEF ChildExits, OrphanExits, Die, SafetyInv, Elsewhere, Rest, end_vars
<1>. QED  BY <1>1, <1>2, <1>3 DEF Agent

LEMMA SafetySteer == ASSUME SafetyInv, Steer PROVE SafetyInv'
<1>e. EndInv'
  BY EndSteer DEF SafetyInv
<1>. USE <1>e DEF SafetyInv, Untouched, end_vars, Alive
<1>1. CASE (\E a \in ValidActions : QueueStop(a)) \/ AskRepair \/ LoadState \/ CheckState
  BY <1>1 DEF QueueStop, AskRepair, LoadState, CheckState
<1>2. CASE RepairState
  BY <1>2 DEF RepairState, Record, EndInv
<1>3. CASE SendInterrupt \/ SendTerminate \/ SendKill
  BY <1>3 DEF SendInterrupt, SendTerminate, SendKill
<1>. QED  BY <1>1, <1>2, <1>3 DEF Steer

LEMMA SafetyNext == ASSUME SafetyInv, [ControlNext]_all PROVE SafetyInv'
<1>1. CASE UNCHANGED all
  BY <1>1 DEF all, vars, client_vars, SafetyInv, EndInv, AgentAccounted
<1>. QED  BY <1>1, SafetySupervise, SafetyAgent, SafetySteer DEF ControlNext

(***************************************************************************)
(* What a point of run_loop knows of the stop commands: those it has read  *)
(* let it get there, those it has not read came after the last poll.       *)
(***************************************************************************)
Polled  == {"top", "begin", "start", "sleep", "loop_end", "check", "pause"}
Between == {"top", "begin", "pause"}

Command == [action : ValidActions, since : Nat]

StopInv ==
    /\ control \in Seq(Command) /\ read \in 0..Len(control)
    /\ \A i \in 1..read : control[i].action \in asked
    /\ pc \in Polled =>
          /\ asked \cap PromptStops = {}
          /\ \A i \in (read + 1)..Len(control) :
                control[i].action \in PromptStops => control[i].since = 0
    /\ pc \in Between =>
          /\ asked = {}
          /\ \A i \in (read + 1)..Len(control) : control[i].since = 0
    /\ StopWithinOne

(* The history counts on, and nothing else about the commands changes. *)
LEMMA BegunFacts ==
    ASSUME control \in Seq(Command), NEW S
    PROVE  /\ Begun(S) \in Seq(Command) /\ Len(Begun(S)) = Len(control)
           /\ \A i \in 1..Len(control) :
                 /\ Begun(S)[i].action = control[i].action
                 /\ Begun(S)[i].since = IF control[i].action \in S
                                         THEN Least(2, control[i].since + 1)
                                         ELSE control[i].since
<1>1. \A n \in Nat : Least(2, n + 1) \in Nat
  BY DEF Least
<1>2. \A i \in 1..Len(control) : control[i] \in Command
  OBVIOUS
<1>3. \A i \in 1..Len(control) :
        Begun(S)[i] = IF control[i].action \in S
                      THEN [control[i] EXCEPT !.since = Least(2, @ + 1)]
                      ELSE control[i]
  BY DEF Begun
<1>4. \A i \in 1..Len(control) :
        /\ Begun(S)[i] \in Command
        /\ Begun(S)[i].action = control[i].action
        /\ Begun(S)[i].since = IF control[i].action \in S
                                THEN Least(2, control[i].since + 1)
                                ELSE control[i].since
  <2>. SUFFICES ASSUME NEW i \in 1..Len(control)
                PROVE  /\ Begun(S)[i] \in Command
                       /\ Begun(S)[i].action = control[i].action
                       /\ Begun(S)[i].since = IF control[i].action \in S
                                               THEN Least(2, control[i].since + 1)
                                               ELSE control[i].since
    OBVIOUS
  <2>1. control[i] \in Command /\ Least(2, control[i].since + 1) \in Nat
    BY <1>1, <1>2 DEF Command
  <2>2. CASE control[i].action \in S
    <3>1. Begun(S)[i] = [control[i] EXCEPT !.since = Least(2, control[i].since + 1)]
      BY <1>3, <2>2
    <3>. QED  BY <2>1, <2>2, <3>1 DEF Command
  <2>3. CASE control[i].action \notin S
    BY <1>3, <2>1, <2>3
  <2>. QED  BY <2>2, <2>3
<1>5. Begun(S) = [i \in 1..Len(control) |-> Begun(S)[i]] /\ Len(control) \in Nat
  BY DEF Begun
<1>. HIDE DEF Begun
<1>6. Begun(S) \in Seq(Command) /\ Len(Begun(S)) = Len(control)
  BY <1>4, <1>5
<1>. QED  BY <1>4, <1>6

(* A poll leaves nothing unread. *)
LEMMA PollFacts ==
    ASSUME StopInv, Poll
    PROVE  /\ read' = Len(control)
           /\ \A i \in 1..Len(control) : control[i].action \in asked'
           /\ asked' = {} => asked' \cap PromptStops = {}
<1>1. \A i \in 1..Len(control) : i \in 1..read \/ i \in (read + 1)..Len(control)
  BY DEF StopInv
<1>. QED  BY <1>1 DEF StopInv, Poll, Unread

LEMMA StopInit == ControlInit => StopInv
BY DEF ControlInit, Init, StopInv, StopWithinOne, Command

(* Steps that leave the commands alone, and do not get to a point that knows
   more of them. *)
LEMMA StopIdle ==
    ASSUME StopInv, UNCHANGED file_vars,
           pc' \in Polled => pc \in Polled,
           pc' \in Between => pc \in Between
    PROVE  StopInv'
BY DEF StopInv, StopWithinOne, file_vars, PromptStops

(* Steps that poll first. *)
LEMMA StopPolls ==
    ASSUME StopInv, Poll, UNCHANGED control,
           pc' \in Polled => ~PromptStop,
           pc' \in Between => ~LoopStop
    PROVE  StopInv'
BY PollFacts DEF StopInv, StopWithinOne, PromptStop, LoopStop

LEMMA StopBegins == ASSUME StopInv, BeginLoop PROVE StopInv'
<1>1. CASE pc' = "start" /\ control' = Begun({"stop_after_loop"}) /\ UNCHANGED <<read, asked>>
  <2>1. pc = "begin"
    BY DEF BeginLoop
  <2>2. \A i \in 1..Len(control) : control[i].since = 0
    <3>1. asked = {} /\ read \in Nat
      BY <2>1 DEF StopInv, Between
    <3>2. \A i \in 1..Len(control) : i \in 1..read \/ i \in (read + 1)..Len(control)
      BY <3>1 DEF StopInv
    <3>. QED  BY <2>1, <3>1, <3>2 DEF StopInv, Between
  <2>. QED  BY <1>1, <2>1, <2>2, BegunFacts
            DEF StopInv, StopWithinOne, Polled, Between, Least, PromptStops
<1>2. CASE pc' \in {"stopped", "gone"} /\ UNCHANGED control /\ UNCHANGED <<read, asked>>
  BY <1>2, StopIdle DEF file_vars, Polled, Between
<1>. QED  BY <1>1, <1>2 DEF BeginLoop, StopRun, Raise

LEMMA StopStarts == ASSUME StopInv, StartAttempt PROVE StopInv'
<1>1. /\ pc = "start" /\ pc' = "spawned"
      /\ control' = Begun(PromptStops) /\ UNCHANGED <<read, asked>>
  BY DEF StartAttempt
<1>2. \A i \in 1..Len(control) :
        control[i].action \in PromptStops => control[i].since = 0
  <2>1. \A i \in 1..Len(control) : i \in 1..read \/ i \in (read + 1)..Len(control)
    BY DEF StopInv
  <2>. QED  BY <1>1, <2>1 DEF StopInv, Polled
<1>3. \A i \in 1..Len(control) : control[i].since <= 1 /\ control[i].since \in Nat
  <2>1. control \in Seq(Command)
    BY DEF StopInv
  <2>2. DOMAIN control = 1..Len(control) /\ \A i \in 1..Len(control) : control[i] \in Command
    BY <2>1
  <2>. QED  BY <2>2 DEF StopInv, StopWithinOne, Command
<1>4. /\ control' \in Seq(Command) /\ Len(control') = Len(control)
      /\ \A i \in 1..Len(control) : /\ control'[i].action = control[i].action
                                     /\ control'[i].since <= 1
  <2>1. /\ control' \in Seq(Command) /\ Len(control') = Len(control)
        /\ \A i \in 1..Len(control) :
              /\ control'[i].action = control[i].action
              /\ control'[i].since = IF control[i].action \in PromptStops
                                     THEN Least(2, control[i].since + 1) ELSE control[i].since
    BY <1>1, BegunFacts DEF StopInv
  <2>2. Least(2, 1) = 1
    BY DEF Least
  <2>. QED  BY <1>2, <1>3, <2>1, <2>2
<1>5. \A i \in 1..read' : control'[i].action \in asked'
  BY <1>1, <1>4 DEF StopInv
<1>6. StopWithinOne'
  BY <1>4 DEF StopWithinOne
<1>. QED  BY <1>1, <1>4, <1>5, <1>6 DEF StopInv, Polled, Between

LEMMA StopSupervise == ASSUME StopInv, Supervise PROVE StopInv'
<1>1. CASE BeginLoop
  BY <1>1, StopBegins
<1>2. CASE StartAttempt
  BY <1>2, StopStarts
<1>3. CASE LoopTop
  <2>1. /\ Poll /\ UNCHANGED control
        /\ \/ LoopStop /\ pc' = "stopped"
           \/ ~LoopStop
    BY <1>3 DEF LoopTop, StopRun
  <2>. QED  BY <2>1, StopPolls DEF Polled, Between, PromptStop, LoopStop
<1>4. CASE CheckLoop
  <2>1. /\ Poll /\ UNCHANGED control
        /\ pc' \in {"stopped", "pause"}
        /\ pc' = "pause" => ~LoopStop
    BY <1>4 DEF CheckLoop, StopRun, GoTo
  <2>. QED  BY <2>1, StopPolls DEF Polled, Between, PromptStop, LoopStop
<1>5. CASE CheckRaises
  BY <1>5, StopPolls DEF CheckRaises, Raise, Polled, Between
<1>6. CASE ControlStop \/ LimitStop \/ Retry \/ SignalStop \/ ExitStop \/ PromptDone
  <2>1. Poll /\ UNCHANGED control
    BY <1>6 DEF ControlStop, LimitStop, Retry, SignalStop, ExitStop, PromptDone, After
  <2>2. /\ pc' \in {"stopped", "sleep", "start", "loop_end"}
        /\ pc' # "stopped" => ~PromptStop
    BY <1>6 DEF ControlStop, LimitStop, Retry, SignalStop, ExitStop, PromptDone, NextPrompt, StopRun
  <2>. QED  BY <2>1, <2>2, StopPolls DEF Polled, Between
<1>7. CASE LoopEnd \/ StartRaises \/ DryAttempt \/ RecordChild \/ RecordChildFails \/ KillOnStop
           \/ AttemptTimeout \/ Reap \/ Settle \/ WakeRetry \/ WakeLoop \/ Exit
           \/ Interrupted
  <2>1. UNCHANGED file_vars
    BY <1>7 DEF LoopEnd, StartRaises, DryAttempt, RecordChild, RecordChildFails, KillOnStop,
                AttemptTimeout,
                Reap, Settle, WakeRetry, WakeLoop, Exit, Interrupted, Elsewhere, Rest
  <2>2. /\ pc' \in Polled => pc \in Polled
        /\ pc' \in Between => pc \in Between
    BY <1>7 DEF LoopEnd, StartRaises, DryAttempt, RecordChild, RecordChildFails, KillOnStop,
                AttemptTimeout,
                Reap, Settle, WakeRetry, WakeLoop, Exit, Interrupted, NextPrompt,
                GoTo, StopRun, Polled, Between
  <2>. QED  BY <2>1, <2>2, StopIdle
<1>. QED  BY <1>1, <1>2, <1>3, <1>4, <1>5, <1>6, <1>7 DEF Supervise

LEMMA StopNext == ASSUME StopInv, [ControlNext]_all PROVE StopInv'
<1>1. CASE Supervise
  BY <1>1, StopSupervise
<1>2. CASE Agent \/ Die \/ UNCHANGED all
  <2>1. UNCHANGED file_vars /\ (pc' = pc \/ pc' = "gone")
    BY <1>2 DEF Agent, ReadLine, ReaderFails, ChildExits, OrphanExits, Die, Elsewhere, Rest,
                all, vars, file_vars
  <2>. QED  BY <2>1, StopIdle DEF Polled, Between
<1>3. ASSUME NEW action \in ValidActions, QueueStop(action) PROVE StopInv'
  <2>1. /\ control' = Append(control, [action |-> action, since |-> 0])
        /\ UNCHANGED <<read, asked, pc>>
    BY <1>3 DEF QueueStop, Appended, Untouched
  <2>2. control \in Seq(Command) /\ [action |-> action, since |-> 0] \in Command
    BY DEF StopInv, Command
  <2>3. /\ control' \in Seq(Command) /\ Len(control') = Len(control) + 1
        /\ \A i \in 1..Len(control) : control'[i] = control[i]
        /\ control'[Len(control')].since = 0
    BY <2>1, <2>2
  <2>4. /\ \A i \in 1..Len(control') : i \in 1..Len(control) \/ i = Len(control')
        /\ \A i \in (read + 1)..Len(control') :
              i \in (read + 1)..Len(control) \/ i = Len(control')
    BY <2>2, <2>3 DEF StopInv
  <2>5. StopWithinOne'
    BY <2>2, <2>3, <2>4 DEF StopInv, StopWithinOne
  <2>. QED  BY <2>1, <2>2, <2>3, <2>4, <2>5 DEF StopInv
<1>4. CASE AskRepair \/ LoadState \/ CheckState \/ RepairState \/ SendInterrupt
           \/ SendTerminate \/ SendKill
  <2>1. UNCHANGED file_vars /\ (pc' = pc \/ pc' = "gone")
    BY <1>4 DEF AskRepair, LoadState, CheckState, RepairState, SendInterrupt, SendTerminate,
                SendKill, Untouched, file_vars
  <2>. QED  BY <2>1, StopIdle DEF Polled, Between
<1>. QED  BY <1>1, <1>2, <1>3, <1>4 DEF ControlNext, Steer

(***************************************************************************)
(* Which conversation an attempt will work in, is working in or has just   *)
(* worked in.                                                              *)
(***************************************************************************)
Ready   == {"start", "sleep"}
Working == {"spawned", "running", "settle"}

ConvInv ==
    /\ looper \in Loopers /\ loop \in Nat /\ prompt \in Nat
    /\ pc \in Ready \cup Working \cup {"after"} => prompt > 0
    \* The first loop knows of no conversation,
    /\ pc \notin {"top", "stopped", "gone"} => loop > 0
    /\ pc = "top" /\ loop = 0 => home = 0 /\ persistent = 0
    /\ pc = "begin" /\ loop = 1 => home = 0 /\ persistent = 0
    /\ looper.kind # "generic" =>
          \* the run keeps none but the one that worked on its prompts,
          /\ ~looper.fresh /\ persistent # 0 => persistent = home
          \* and an attempt that is the first makes one, any other resumes one.
          /\ pc \in Ready /\ first => session = 0 /\ home = 0
          /\ pc \in Ready /\ home # 0 /\ session # 0 => session = home
          /\ pc \in Working /\ first => session = 0 /\ home = 0
          /\ pc \in Working \cup {"after"} /\ home # 0 => conv = home
          /\ pc \in Working \cup {"after"} /\ session # 0 => conv = session
          /\ pc = "after" /\ first /\ ~result.session => session = 0 /\ home = 0

(* What keeps the parts of ConvInv that no step of the agent touches. *)
conv_vars == <<looper, loop, prompt, first, session, persistent, home, conv>>

LEMMA ConvIdle ==
    ASSUME ConvInv, UNCHANGED conv_vars,
           \/ pc' = pc /\ result' = result
           \/ pc' \in {"stopped", "gone"}
           \/ pc' \in {"loop_end", "check", "pause"}
              /\ pc \notin {"top", "stopped", "gone"}
           \/ pc' \in Ready /\ pc \in Ready
           \/ pc' \in Working /\ pc \in Working
           \/ pc' = "top" /\ pc = "pause"
    PROVE  ConvInv'
BY DEF ConvInv, conv_vars, Ready, Working

LEMMA ConvInit == ControlInit => ConvInv
BY DEF ControlInit, Init, ConvInv, Ready, Working

LEMMA ConvBegins == ASSUME ConvInv, LoopTop \/ BeginLoop PROVE ConvInv'
<1>. USE LooperAssumption DEF ConvInv, Ready, Working, config
<1>1. CASE LoopTop
  <2>1. looper.maxLoops \in Nat
    BY DEF LooperAssumption
  <2>2. /\ pc = "top"
        /\ \/ pc' = "stopped" /\ loop' = loop
           \/ pc' = "begin" /\ loop' = Least(loop + 1, looper.maxLoops + 2)
        /\ UNCHANGED <<looper, prompt, first, session, persistent, home>>
    BY <1>1 DEF LoopTop, StopRun, GoTo, session_vars
  <2>3. CASE pc' = "stopped" /\ loop' = loop
    BY <2>2, <2>3
  <2>4. CASE pc' = "begin" /\ loop' = Least(loop + 1, looper.maxLoops + 2)
    <3>1. loop' \in Nat /\ loop' > 0 /\ (loop' = 1 => loop = 0)
      BY <2>1, <2>4 DEF Least
    <3>. QED  BY <2>2, <2>4, <3>1
  <2>. QED  BY <2>2, <2>3, <2>4
<1>2. CASE BeginLoop
  <2>1. CASE pc' = "start"
    <3>1. EnterPrompt(1) /\ BeginSession
      BY <1>2, <2>1 DEF BeginLoop, StopRun, Raise
    <3>2. /\ pc = "begin" /\ loop' = loop /\ prompt' = 1
          /\ session' = IF looper.fresh THEN 0 ELSE persistent
          /\ home' = IF looper.fresh THEN 0 ELSE home
          /\ UNCHANGED <<looper, persistent>>
      BY <1>2, <2>1, <3>1 DEF BeginLoop, BeginSession, EnterPrompt, StopRun, Raise
    <3>3. first' => looper.fresh \/ loop' = 1
      BY <3>1, Zenon DEF EnterPrompt
    <3>. QED  BY <2>1, <3>2, <3>3
  <2>2. CASE pc' # "start"
    <3>1. /\ pc' \in {"stopped", "gone"}
          /\ UNCHANGED <<looper, loop, prompt, first, session, persistent, home, conv>>
      BY <1>2, <2>2 DEF BeginLoop, StopRun, Raise, attempt_vars
    <3>. QED  BY <3>1, ConvIdle DEF conv_vars
  <2>. QED  BY <2>1, <2>2
<1>. QED  BY <1>1, <1>2

(* A prompt is left for the next one, or the loop ends. *)
LEMMA ConvNextPrompt ==
    ASSUME ConvInv, NextPrompt, UNCHANGED <<looper, session, persistent>>,
           \/ pc = "start" /\ UNCHANGED home
           \/ pc = "after" /\ home' = conv
    PROVE  ConvInv'
<1>1. CASE prompt < prompts
  <2>1. prompt \in Nat /\ prompt > 0 /\ loop > 0 /\ loop \in Nat
    BY DEF ConvInv, Ready
  <2>2. pc' = "start" /\ loop' = loop /\ prompt' = prompt + 1
    BY <1>1 DEF NextPrompt, EnterPrompt
  <2>3. ~first'
    <3>1. first' <=> prompt + 1 = 1 /\ (looper.fresh \/ loop' = 1)
      BY <1>1, Zenon DEF NextPrompt, EnterPrompt
    <3>. QED  BY <2>1, <3>1
  <2>4. looper.kind # "generic" /\ home' # 0 /\ session' # 0 => session' = home'
    BY DEF ConvInv, Ready, Working
  <2>5. looper.kind # "generic" /\ ~looper.fresh /\ persistent' # 0 => persistent' = home'
    BY DEF ConvInv, Ready, Working
  <2>. QED  BY <2>1, <2>2, <2>3, <2>4, <2>5 DEF ConvInv, Ready, Working
<1>2. CASE ~(prompt < prompts)
  <2>1. pc' = "loop_end" /\ UNCHANGED <<loop, prompt, first>>
    BY <1>2 DEF NextPrompt
  <2>2. looper.kind # "generic" /\ ~looper.fresh /\ persistent' # 0 => persistent' = home'
    BY DEF ConvInv, Ready, Working
  <2>. QED  BY <2>1, <2>2 DEF ConvInv, Ready, Working
<1>. QED  BY <1>1, <1>2

LEMMA ConvStarts == ASSUME ConvInv, StartAttempt PROVE ConvInv'
<1>1. /\ pc = "start" /\ pc' = "spawned" /\ ~NeedsSession
      /\ conv' = IF Resumes /\ session # 0 THEN session ELSE Free({session, persistent, home})
      /\ UNCHANGED <<looper, loop, prompt, first, session, persistent, home>>
  BY DEF StartAttempt, config, session_vars
<1>. QED  BY <1>1 DEF ConvInv, NeedsSession, Resumes, Ready, Working

LEMMA ConvSettles == ASSUME ConvInv, Settle PROVE ConvInv'
<1>1. /\ pc = "settle" /\ pc' \in {"after", "stopped"}
      /\ session' = IF result.session THEN conv ELSE session
      /\ persistent' = IF result.session /\ ~looper.fresh THEN conv ELSE persistent
      /\ home' = IF result.session THEN conv ELSE home
      /\ UNCHANGED <<looper, loop, prompt, first, conv, result>>
  BY DEF Settle, StopRun, config, attempt_vars
<1>. QED  BY <1>1 DEF ConvInv, Ready, Working

LEMMA ConvAfter ==
    ASSUME ConvInv, ControlStop \/ LimitStop \/ SignalStop \/ ExitStop \/ Retry \/ PromptDone
    PROVE  ConvInv'
<1>1. pc = "after" /\ UNCHANGED <<looper, session, persistent, conv, result>>
  BY DEF ControlStop, LimitStop, SignalStop, ExitStop, Retry, PromptDone, After, config,
         session_vars, attempt_vars
<1>2. CASE PromptDone
  BY <1>1, <1>2, ConvNextPrompt DEF PromptDone
<1>3. CASE Retry
  <2>1. /\ pc' = "sleep" /\ first' = (first /\ ~result.session /\ looper.kind # "claude")
        /\ UNCHANGED <<loop, prompt, home>>
    BY <1>3 DEF Retry, StillFirst
  <2>. QED  BY <1>1, <2>1 DEF ConvInv, Ready, Working
<1>4. CASE ControlStop \/ LimitStop \/ SignalStop \/ ExitStop
  <2>1. pc' = "stopped" /\ UNCHANGED conv_vars
    BY <1>1, <1>4 DEF ControlStop, LimitStop, SignalStop, ExitStop, StopRun, Stay, conv_vars
  <2>. QED  BY <2>1, ConvIdle
<1>. QED  BY <1>2, <1>3, <1>4

LEMMA ConvSupervise == ASSUME ConvInv, Supervise PROVE ConvInv'
<1>1. CASE LoopTop \/ BeginLoop
  BY <1>1, ConvBegins
<1>2. CASE StartAttempt
  BY <1>2, ConvStarts
<1>3. CASE Settle
  BY <1>3, ConvSettles
<1>4. CASE ControlStop \/ LimitStop \/ SignalStop \/ ExitStop \/ Retry \/ PromptDone
  BY <1>4, ConvAfter
<1>5. CASE DryAttempt
  BY <1>5, ConvNextPrompt DEF DryAttempt, config, session_vars
<1>6. CASE LoopEnd \/ CheckLoop \/ CheckRaises \/ StartRaises \/ RecordChild \/ RecordChildFails
           \/ KillOnStop
           \/ AttemptTimeout \/ Reap \/ WakeRetry \/ WakeLoop \/ Exit \/ Interrupted
  <2>1. UNCHANGED conv_vars
    BY <1>6 DEF LoopEnd, CheckLoop, CheckRaises, StartRaises, RecordChild, RecordChildFails,
                KillOnStop,
                AttemptTimeout, Reap, WakeRetry, WakeLoop, Exit, Interrupted,
                Elsewhere, Rest, conv_vars, config, session_vars, attempt_vars
  <2>2. \/ pc' \in {"stopped", "gone"}
        \/ /\ pc' \in {"loop_end", "check", "pause"}
           /\ pc \notin {"top", "stopped", "gone"}
        \/ pc' \in Ready /\ pc \in Ready
        \/ pc' \in Working /\ pc \in Working
        \/ pc' = "top" /\ pc = "pause"
        \/ pc' = "gone"
    <3>1. CASE LoopEnd \/ CheckLoop \/ CheckRaises \/ StartRaises
      BY <3>1 DEF LoopEnd, CheckLoop, CheckRaises, StartRaises, StopRun, GoTo, Raise
    <3>2. CASE RecordChild \/ RecordChildFails \/ KillOnStop \/ AttemptTimeout \/ Reap
      BY <3>2 DEF RecordChild, RecordChildFails, KillOnStop, AttemptTimeout, Reap, Working
    <3>3. CASE WakeRetry \/ WakeLoop
      BY <3>3 DEF WakeRetry, WakeLoop, GoTo, Ready
    <3>4. CASE Exit \/ Interrupted
      BY <3>4 DEF Exit, Interrupted
    <3>. QED  BY <1>6, <3>1, <3>2, <3>3, <3>4
  <2>. QED  BY <2>1, <2>2, ConvIdle
<1>. QED  BY <1>1, <1>2, <1>3, <1>4, <1>5, <1>6 DEF Supervise

LEMMA ConvNext == ASSUME ConvInv, [ControlNext]_all PROVE ConvInv'
<1>1. CASE Supervise
  BY <1>1, ConvSupervise
<1>2. CASE Agent
  <2>1. UNCHANGED conv_vars
    BY <1>2 DEF Agent, ReadLine, ReaderFails, ChildExits, OrphanExits, Elsewhere, Rest,
                conv_vars, config, session_vars
  <2>2. (pc' = pc /\ result' = result) \/ (pc' \in Working /\ pc \in Working)
    BY <1>2 DEF Agent, ReadLine, ReaderFails, ChildExits, OrphanExits, Working, Elsewhere, Rest
  <2>. QED  BY <2>1, <2>2, ConvIdle
<1>3. CASE Die \/ Steer \/ UNCHANGED all
  <2>1. UNCHANGED conv_vars
    BY <1>3 DEF Die, Rest, Steer, QueueStop, AskRepair, LoadState, CheckState, RepairState,
                SendInterrupt, SendTerminate, SendKill, Untouched, all, vars,
                conv_vars, config, session_vars
  <2>2. pc' = "gone" \/ (pc' = pc /\ result' = result)
    BY <1>3 DEF Die, Steer, QueueStop, AskRepair, LoadState, CheckState, RepairState,
                SendInterrupt, SendTerminate, SendKill, Untouched, all, vars
  <2>. QED  BY <2>1, <2>2, ConvIdle
<1>. QED  BY <1>1, <1>2, <1>3 DEF ControlNext

(***************************************************************************)
(* What the counters know of the loops.                                    *)
(***************************************************************************)
Ended == {"stopped", "gone"}
Limited == {b \in Breakers : looper.limit[b] > 0}

\* The streak that a counter stands for: no longer, and no shorter.
Counts(b) ==
    /\ count[b] \in Nat /\ count[b] < looper.limit[b] /\ count[b] <= Len(past)
    /\ \A i \in (Len(past) - count[b] + 1)..Len(past) : b \in past[i]
    /\ count[b] < Len(past) => b \notin past[Len(past) - count[b]]

LimitInv ==
    /\ looper \in Loopers /\ result \in Result /\ retry \in Nat /\ failed \in Nat
    /\ past \in Seq(SUBSET Breakers) /\ Len(past) \in 0..Window
    /\ pc \notin Ended => \A b \in Limited : Counts(b)
    /\ \A b \in Limited : pc = "stopped" /\ disk.reason = b => Streak(b)

LEMMA LimitInit == ControlInit => LimitInv
<1>. SUFFICES ASSUME ControlInit PROVE LimitInv
  OBVIOUS
<1>1. /\ looper \in Loopers /\ result = NoResult /\ retry = 0 /\ failed = 0 /\ pc = "top"
      /\ past = <<>> /\ count = [b \in Breakers |-> 0]
  BY DEF ControlInit, Init
<1>2. looper.maxTransient \in Nat /\ looper.limit \in [Breakers -> 0..Window]
  BY <1>1
<1>3. NoResult \in Result
  BY DEF NoResult, Result, Stops, Words
<1>4. \A b \in Limited : Counts(b)
  BY <1>1, <1>2 DEF Limited, Counts, Window
<1>. QED  BY <1>1, <1>2, <1>3, <1>4 DEF LimitInv, Window

(* Steps that change neither the loops seen nor what is counted. *)
LEMMA LimitIdle ==
    ASSUME LimitInv, UNCHANGED <<looper, count, past>>,
           result' \in Result, retry' \in Nat, failed' \in Nat,
           pc' \notin Ended => pc \notin Ended,
           pc' = "stopped" =>
              \/ pc = "stopped" /\ UNCHANGED disk
              \/ disk'.reason \notin Breakers
    PROVE  LimitInv'
<1>1. /\ Limited' = Limited
      /\ \A b \in Limited : (Counts(b)' <=> Counts(b)) /\ (Streak(b)' <=> Streak(b))
  BY DEF Limited, Counts, Streak
<1>2. \A b \in Limited : pc' = "stopped" /\ disk'.reason = b => Streak(b)
  BY DEF LimitInv, Limited
<1>. QED  BY <1>1, <1>2 DEF LimitInv

(* The end of a loop: the newest loop is added to those remembered. *)
LEMMA LimitChecks == ASSUME LimitInv, CheckLoop PROVE LimitInv'
<1>1. PICK met \in SUBSET {b \in Breakers : looper.limit[b] > 0} :
        /\ \/ pc' = "stopped" /\ disk'.reason \notin Breakers
           \/ \E b \in Breakers : Opens(b, met) /\ pc' = "stopped" /\ disk'.reason = b
           \/ pc' = "pause" /\ \A b \in Breakers : ~Opens(b, met)
        /\ count' = [b \in Breakers |-> Counted(b, met)]
        /\ past' = LET all_loops == Append(past, met)
                   IN SubSeq(all_loops, 1 + Len(all_loops) - Least(Len(all_loops), Window),
                             Len(all_loops))
  <2>1. PICK met \in SUBSET {b \in Breakers : looper.limit[b] > 0}, size \in Sizes :
          /\ IF LoopStop THEN StopRun("stopped", "control", "0")
             ELSE IF Opens("completion", met) THEN StopRun("stopped", "completion", "0")
             ELSE IF Opens("no_progress", met) THEN StopRun("stopped", "no_progress", "0")
             ELSE IF Opens("output_decline", met) THEN StopRun("stopped", "output_decline", "0")
             ELSE IF Opens("output_match", met) THEN StopRun("stopped", "output_match", "0")
             ELSE IF looper.dryRun THEN StopRun("stopped", "dry_run", "0")
             ELSE IF looper.maxLoops > 0 /\ loop >= looper.maxLoops
                  THEN StopRun("stopped", "max_loops", "0")
             ELSE GoTo("pause")
          /\ count' = [b \in Breakers |-> Counted(b, met)]
          /\ past' = LET all_loops == Append(past, met)
                     IN SubSeq(all_loops, 1 + Len(all_loops) - Least(Len(all_loops), Window),
                               Len(all_loops))
    BY DEF CheckLoop
  <2>2. \/ pc' = "stopped" /\ disk'.reason \notin Breakers
        \/ \E b \in Breakers : Opens(b, met) /\ pc' = "stopped" /\ disk'.reason = b
        \/ pc' = "pause" /\ \A b \in Breakers : ~Opens(b, met)
    BY <2>1 DEF StopRun, GoTo, Record, Breakers
  <2>. QED  BY <2>1, <2>2
<1>2. /\ pc = "check" /\ UNCHANGED <<looper, retry, failed, result>>
  BY DEF CheckLoop, config, attempt_vars
<1>3. /\ looper \in Loopers /\ looper.limit \in [Breakers -> 0..Window]
      /\ past \in Seq(SUBSET Breakers) /\ Len(past) \in 0..Window
  <2>1. looper \in Loopers /\ past \in Seq(SUBSET Breakers) /\ Len(past) \in 0..Window
    BY DEF LimitInv
  <2>2. looper.limit \in [Breakers -> 0..Window]
    BY <2>1
  <2>. QED  BY <2>1, <2>2
<1>4. /\ past' \in Seq(SUBSET Breakers)
      /\ Len(past') = Least(Len(past) + 1, Window)
      /\ past'[Len(past')] = met
      /\ Len(past) > 0 => past'[Len(past') - 1] = past[Len(past)]
  <2>. DEFINE longer == Append(past, met)
  <2>1. longer \in Seq(SUBSET Breakers) /\ Len(longer) = Len(past) + 1
    BY <1>3
  <2>2. /\ longer[Len(longer)] = met
        /\ \A i \in 1..Len(past) : longer[i] = past[i]
    BY <1>3, <2>1
  <2>. HIDE DEF longer
  <2>3. CASE Len(past) < Window
    <3>1. Least(Len(longer), Window) = Len(longer)
      BY <1>3, <2>1, <2>3 DEF Least, Window
    <3>2. past' = SubSeq(longer, 1, Len(longer))
      BY <1>1, <2>1, <3>1 DEF longer
    <3>. QED  BY <1>3, <2>1, <2>2, <2>3, <3>1, <3>2 DEF Window, Least
  <2>4. CASE Len(past) = Window
    <3>1. past' = SubSeq(longer, 2, 3) /\ Len(longer) = 3
      BY <1>1, <1>3, <2>1, <2>4 DEF longer, Least, Window
    <3>. QED  BY <1>3, <2>1, <2>2, <2>4, <3>1 DEF Window, Least
  <2>. QED  BY <1>3, <2>3, <2>4 DEF Window
<1>5. Limited' = Limited
  BY <1>2 DEF Limited
<1>6. ASSUME NEW b \in Limited PROVE (pc' = "pause" => Counts(b)') /\ (Opens(b, met) => Streak(b)')
  <2>1. /\ b \in Breakers /\ looper.limit[b] \in {1, 2} /\ looper'.limit = looper.limit
        /\ Counts(b)
    BY <1>2, <1>3 DEF Limited, LimitInv, Window, Ended
  <2>2. count'[b] = IF b \in met THEN count[b] + 1 ELSE 0
    BY <1>1, <2>1 DEF Counted
  <2>3. Opens(b, met) <=> count'[b] >= looper.limit[b]
    BY <1>1, <2>1 DEF Opens
  <2>4. Len(past') \in {1, 2} /\ (Len(past') = 1 <=> Len(past) = 0)
    BY <1>3, <1>4 DEF Least, Window
  <2>5. ASSUME pc' = "pause" PROVE Counts(b)'
    <3>1. count'[b] < looper.limit[b]
      BY <1>1, <2>1, <2>2, <2>3, <2>5 DEF Counts
    <3>2. CASE b \in met
      <4>1. count[b] = 0 /\ count'[b] = 1
        BY <2>1, <2>2, <3>1, <3>2 DEF Counts
      <4>2. Len(past) > 0 => b \notin past[Len(past)]
        BY <2>1, <4>1 DEF Counts
      <4>3. 1 < Len(past') => b \notin past'[Len(past') - 1]
        BY <1>3, <1>4, <2>4, <4>2
      <4>4. \A i \in (Len(past') - 1 + 1)..Len(past') : b \in past'[i]
        BY <1>4, <2>4, <3>2
      <4>5. /\ 1 \in Nat /\ 1 < looper'.limit[b] /\ 1 <= Len(past')
            /\ Len(past') - 1 + 1 = Len(past')
        BY <2>1, <2>4, <3>1, <4>1
      <4>. QED  BY <4>1, <4>3, <4>4, <4>5 DEF Counts
    <3>3. CASE b \notin met
      <4>1. count'[b] = 0 /\ Len(past') - 0 = Len(past') /\ Len(past') + 1 > Len(past')
        BY <2>2, <2>4, <3>3
      <4>2. (Len(past') - 0 + 1)..Len(past') = {} /\ 0 < looper'.limit[b]
        BY <2>1, <2>4
      <4>. QED  BY <1>4, <2>4, <3>3, <4>1, <4>2 DEF Counts
    <3>. QED  BY <3>2, <3>3
  <2>6. ASSUME Opens(b, met) PROVE Streak(b)'
    <3>1. b \in met
      BY <2>1, <2>2, <2>3, <2>6
    <3>2. CASE looper.limit[b] = 1
      BY <1>4, <2>1, <2>4, <3>1, <3>2 DEF Streak
    <3>3. CASE looper.limit[b] = 2
      <4>1. count[b] = 1 /\ Len(past) > 0 /\ b \in past[Len(past)]
        BY <1>3, <2>1, <2>2, <2>3, <2>6, <3>1, <3>3 DEF Counts
      <4>. QED  BY <1>3, <1>4, <2>1, <2>4, <3>1, <3>3, <4>1 DEF Streak
    <3>. QED  BY <2>1, <3>2, <3>3
  <2>. QED  BY <2>5, <2>6
<1>7. Len(past') \in 0..Window
  BY <1>3, <1>4 DEF Least, Window
<1>8. \A b \in Limited : pc' = "stopped" /\ disk'.reason = b => Streak(b)'
  BY <1>1, <1>6 DEF Limited
<1>. QED  BY <1>1, <1>2, <1>4, <1>5, <1>6, <1>7, <1>8 DEF LimitInv, Ended

(* A result is taken over. *)
LEMMA LimitAfter ==
    ASSUME LimitInv, ControlStop \/ LimitStop \/ Retry \/ SignalStop \/ ExitStop \/ PromptDone
    PROVE  LimitInv'
<1>1. pc = "after" /\ UNCHANGED <<looper, count, past, result>>
  BY DEF ControlStop, LimitStop, Retry, SignalStop, ExitStop, PromptDone, After, breaker_vars,
         config, attempt_vars
<1>2. /\ looper.maxTransient \in Nat /\ retry \in Nat /\ failed \in Nat
      /\ result \in Result /\ pc \notin Ended
  BY <1>1 DEF LimitInv, Ended
<1>3. CASE ControlStop \/ LimitStop \/ SignalStop \/ ExitStop
  <2>1. /\ pc' = "stopped" /\ UNCHANGED <<retry, failed>>
        /\ disk'.reason \in {"control", "limit", "timeout", "signal", "exit"}
    BY <1>3 DEF ControlStop, LimitStop, SignalStop, ExitStop, StopRun, Record, Stay
  <2>. QED  BY <1>1, <1>2, <2>1, LimitIdle DEF Ended, Breakers
<1>4. CASE Retry
  <2>1. /\ pc' = "sleep" /\ retry' = Least(retry + 1, looper.maxTransient + 1)
        /\ failed' \in {failed, failed + 1}
    BY <1>4 DEF Retry, Retried
  <2>2. retry' \in Nat /\ failed' \in Nat
    BY <1>2, <2>1 DEF Least
  <2>. QED  BY <1>1, <1>2, <2>1, <2>2, LimitIdle DEF Ended
<1>5. CASE PromptDone
  <2>1. /\ pc' \in {"start", "loop_end"}
        /\ (retry' = 0 /\ failed' = 0) \/ (retry' = retry /\ failed' = failed)
    BY <1>5 DEF PromptDone, NextPrompt, EnterPrompt
  <2>. QED  BY <1>1, <1>2, <2>1, LimitIdle DEF Ended
<1>. QED  BY <1>3, <1>4, <1>5

LEMMA LimitSupervise == ASSUME LimitInv, Supervise PROVE LimitInv'
<1>. DEFINE idle == LoopTop \/ BeginLoop \/ LoopEnd \/ CheckRaises \/ StartAttempt \/ StartRaises
                     \/ DryAttempt \/ RecordChild \/ RecordChildFails \/ KillOnStop
                     \/ AttemptTimeout \/ Reap
                     \/ Settle \/ WakeRetry \/ WakeLoop \/ Exit \/ Interrupted
<1>1. CASE CheckLoop
  BY <1>1, LimitChecks
<1>2. CASE ControlStop \/ LimitStop \/ Retry \/ SignalStop \/ ExitStop \/ PromptDone
  BY <1>2, LimitAfter
<1>3. CASE idle
  <2>1. UNCHANGED <<looper, count, past>>
    BY <1>3 DEF LoopTop, BeginLoop, LoopEnd, CheckRaises, StartAttempt, StartRaises,
                DryAttempt, RecordChild, RecordChildFails, KillOnStop, AttemptTimeout, Reap,
                Settle, WakeRetry,
                WakeLoop, Exit, Interrupted, Elsewhere, Rest, config, breaker_vars
  <2>2. (retry' = 0 /\ failed' = 0) \/ (retry' = retry /\ failed' = failed)
    BY <1>3 DEF LoopTop, BeginLoop, LoopEnd, CheckRaises, StartAttempt, StartRaises,
                DryAttempt, NextPrompt, EnterPrompt, RecordChild, RecordChildFails, KillOnStop,
                AttemptTimeout,
                Reap, Settle, WakeRetry, WakeLoop, Exit, Interrupted, Elsewhere, Rest
  <2>3. result \in Result /\ NoResult \in Result
    BY DEF LimitInv, NoResult, Result, Stops, Words
  <2>4. result' \in Result
    <3>1. CASE AttemptTimeout
      BY <2>3, <3>1, LocalErrorStops DEF AttemptTimeout, Result, LimitInv
    <3>2. CASE Reap
      <4>1. PICK rc \in {"ok", "fail"} : result' = [result EXCEPT !.rc = rc]
        BY <3>2 DEF Reap
      <4>. QED  BY <2>3, <4>1 DEF Result
    <3>3. CASE ~AttemptTimeout /\ ~Reap
      <4>1. result' \in {result, NoResult}
        BY <1>3, <3>3 DEF LoopTop, BeginLoop, LoopEnd, CheckRaises, StartAttempt, StartRaises,
                DryAttempt, RecordChild, RecordChildFails, KillOnStop, Settle, WakeRetry,
                WakeLoop, Exit, Interrupted, Elsewhere, Rest, attempt_vars
      <4>. QED  BY <2>3, <4>1
    <3>. QED  BY <3>1, <3>2, <3>3
  <2>5. /\ pc' \notin Ended => pc \notin Ended
        /\ pc' = "stopped" => disk'.reason \in {"control", "prompts", "safety"}
    <3>1. CASE LoopTop \/ BeginLoop \/ LoopEnd \/ CheckRaises \/ WakeRetry \/ WakeLoop
      BY <3>1 DEF LoopTop, BeginLoop, LoopEnd, CheckRaises, WakeRetry, WakeLoop, StopRun,
                  Record, GoTo, Raise, Ended
    <3>2. CASE StartAttempt \/ StartRaises \/ DryAttempt \/ RecordChild \/ RecordChildFails
      BY <3>2 DEF StartAttempt, StartRaises, DryAttempt, NextPrompt, RecordChild,
                  RecordChildFails, Ended
    <3>3. CASE KillOnStop \/ AttemptTimeout \/ Reap \/ Settle
      BY <3>3 DEF KillOnStop, AttemptTimeout, Reap, Settle, StopRun, Record, Ended
    <3>4. CASE Exit \/ Interrupted
      BY <3>4 DEF Exit, Interrupted, Ended
    <3>. QED  BY <1>3, <3>1, <3>2, <3>3, <3>4
  <2>6. retry \in Nat /\ failed \in Nat
    BY DEF LimitInv
  <2>. QED  BY <2>1, <2>2, <2>4, <2>5, <2>6, LimitIdle DEF Breakers
<1>. QED  BY <1>1, <1>2, <1>3 DEF Supervise

LEMMA LimitNext == ASSUME LimitInv, EndInv, [ControlNext]_all PROVE LimitInv'
<1>0. retry \in Nat /\ failed \in Nat /\ result \in Result
  BY DEF LimitInv
<1>1. CASE Supervise
  BY <1>1, LimitSupervise
<1>2. CASE Agent
  <2>1. UNCHANGED <<looper, count, past, retry, failed, disk, pc>>
    BY <1>2 DEF Agent, ReadLine, ReaderFails, ChildExits, OrphanExits, Elsewhere, Rest,
                config, breaker_vars
  <2>2. result' \in Result /\ (pc = "stopped" => result' = result)
    <3>1. ASSUME NEW l \in looper.output, ReadLine(l) PROVE result' \in Result /\ pc = "running"
      <4>1. l \in Line
        BY DEF LimitInv
      <4>. QED  BY <1>0, <3>1, <4>1, SafetyTaken DEF ReadLine
    <3>2. CASE ReaderFails
      BY <1>0, <3>2, LocalErrorStops DEF ReaderFails, Result, LimitInv
    <3>3. CASE ChildExits \/ OrphanExits
      BY <1>0, <3>3 DEF ChildExits, OrphanExits, Rest
    <3>. QED  BY <1>2, <3>1, <3>2, <3>3 DEF Agent
  <2>. QED  BY <1>0, <2>1, <2>2, LimitIdle
<1>3. CASE Die \/ Steer \/ UNCHANGED all
  <2>1. UNCHANGED <<looper, count, past, retry, failed, result>>
    BY <1>3 DEF Die, Rest, Steer, QueueStop, AskRepair, LoadState, CheckState, RepairState,
                SendInterrupt, SendTerminate, SendKill, Untouched, all, vars, config, breaker_vars
  <2>2. /\ pc' = pc \/ pc' = "gone"
        /\ pc' = "stopped" => UNCHANGED disk
    BY <1>3 DEF Die, Rest, Steer, QueueStop, AskRepair, LoadState, CheckState, RepairState,
                SendInterrupt, SendTerminate, SendKill, Untouched, all, vars, EndInv
  <2>. QED  BY <1>0, <2>1, <2>2, LimitIdle DEF Ended
<1>. QED  BY <1>1, <1>2, <1>3 DEF ControlNext

LEMMA LimitsCounted == LimitInv => BreakersExact
<1>. SUFFICES ASSUME LimitInv PROVE BreakersExact
  OBVIOUS
<1>1. ASSUME NEW b \in Limited PROVE pc = "begin" => ~Streak(b)
  <2>. SUFFICES ASSUME pc = "begin", Streak(b) PROVE FALSE
    OBVIOUS
  <2>1. Counts(b) /\ looper.limit[b] \in Nat /\ Len(past) \in Nat
    BY DEF LimitInv, Ended, Limited
  <2>2. Len(past) - count[b] \in (Len(past) - looper.limit[b] + 1)..Len(past)
    BY <2>1 DEF Counts, Streak
  <2>. QED  BY <2>1, <2>2 DEF Counts, Streak
<1>2. \A b \in Limited : pc = "stopped" /\ disk.reason = b => Streak(b)
  BY DEF LimitInv
<1>. QED  BY <1>1, <1>2 DEF BreakersExact, Limited

(***************************************************************************)
(* Types.  Most of them are part of the invariants above; the others rest  *)
(* on two facts: a new process or conversation is one of Tokens, and what  *)
(* a client may ask for is a valid action.                                 *)
(***************************************************************************)
Token == {0} \cup Tokens
Exits == {"none", "0", "1", "2", "124", "130", "killed"}

ControllerTypes ==
    /\ prompts \in Nat /\ first \in BOOLEAN /\ loopMark \in BOOLEAN
    /\ session \in Token /\ persistent \in Token /\ home \in Token /\ conv \in Token
    /\ count \in [Breakers -> Nat] /\ prevSize \in Sizes \cup {-1}
    /\ asked \subseteq ValidActions /\ unsafe \in BOOLEAN

ProcessTypes ==
    /\ child \in Token /\ recorded \in Token /\ disk \in Disk
    /\ exit \in Exits /\ sigint \in BOOLEAN
    /\ seen \in [status : Statuses, child : Token] /\ commands \subseteq ValidActions

\* What those invariants say of the variables these steps read.
Known ==
    /\ looper \in Loopers /\ result \in Result
    /\ control \in Seq(Command) /\ read \in 0..Len(control)

LEMMA KnownHolds == LimitInv /\ StopInv => Known
BY DEF LimitInv, StopInv, Known

LEMMA FreeToken ==
    /\ \A t : Free({t}) \in Token
    /\ \A t, u, v : Free({t, u, v}) \in Token
<1>1. \A t : \E n \in Tokens : n \notin {t}
  BY DEF Tokens
<1>2. ASSUME NEW t, NEW u, NEW v PROVE \E n \in Tokens : n \notin {t, u, v}
  <2>1. {1, 2, 3, 4} \subseteq Tokens
    BY DEF Tokens
  <2>. QED  BY <2>1
<1>. QED  BY <1>1, <1>2 DEF Free, Token

LEMMA ControlTypesInit == ControlInit => ControllerTypes /\ ProcessTypes
<1>. SUFFICES ASSUME ControlInit PROVE ControllerTypes /\ ProcessTypes
  OBVIOUS
<1>1. commands = looper.asks /\ looper \in Loopers
  BY DEF ControlInit, Init
<1>2. commands \subseteq ValidActions
  BY <1>1, AsksAssumption
<1>. QED  BY <1>2 DEF ControlInit, Init, ControllerTypes, ProcessTypes, Token, Exits, Disk,
                      Statuses, Active

LEMMA PollTypes == ASSUME Known, ControllerTypes, Poll PROVE asked' \subseteq ValidActions
<1>1. control \in Seq(Command) /\ read \in 0..Len(control)
  BY DEF Known
<1>2. \A i \in 1..Len(control) : control[i] \in Command
  BY <1>1
<1>3. (read + 1)..Len(control) \subseteq 1..Len(control)
  BY <1>1
<1>4. \A c \in Command : c.action \in ValidActions
  BY DEF Command
<1>5. Unread \subseteq ValidActions
  BY <1>2, <1>3, <1>4 DEF Unread
<1>. QED  BY <1>5 DEF ControllerTypes, Poll

LEMMA CountTypes ==
    ASSUME Known, ControllerTypes, NEW met
    PROVE  [b \in Breakers |-> Counted(b, met)] \in [Breakers -> Nat]
BY DEF Known, ControllerTypes, Counted

\* Between two attempts, and at their start.
LEMMA ControllerBegins ==
    ASSUME Known, ControllerTypes,
           LoopTop \/ BeginLoop \/ LoopEnd \/ CheckLoop \/ CheckRaises \/ StartAttempt
             \/ StartRaises \/ DryAttempt
    PROVE  ControllerTypes'
<1>. USE DEF ControllerTypes, session_vars, breaker_vars, file_vars, attempt_vars
<1>1. CASE LoopTop \/ CheckRaises
  BY <1>1, PollTypes DEF LoopTop, CheckRaises
<1>2. CASE BeginLoop
  <2>1. prompts' \in Nat
    BY <1>2 DEF BeginLoop, Known
  <2>2. /\ session' \in Token /\ home' \in Token
        /\ loopMark' \in BOOLEAN
        /\ UNCHANGED <<persistent, conv, count, prevSize, asked, unsafe>>
    BY <1>2 DEF BeginLoop, BeginSession, Token
  <2>3. first' = (1 = 1 /\ (looper.fresh \/ loop' = 1)) \/ first' = first
    BY <1>2, Zenon DEF BeginLoop, EnterPrompt
  <2>4. first' \in BOOLEAN
    BY <2>3
  <2>. QED  BY <2>1, <2>2, <2>4
<1>3. CASE LoopEnd \/ StartRaises
  BY <1>3 DEF LoopEnd, StartRaises
<1>4. CASE CheckLoop
  <2>1. /\ \E met : count' = [b \in Breakers |-> Counted(b, met)]
        /\ \E size \in Sizes : prevSize' \in {size, prevSize}
        /\ Poll
        /\ UNCHANGED <<prompts, first, loopMark, session, persistent, home, conv, unsafe>>
    BY <1>4 DEF CheckLoop
  <2>2. count' \in [Breakers -> Nat]
    BY <2>1, CountTypes
  <2>. QED  BY <2>1, <2>2, PollTypes
<1>5. CASE StartAttempt
  BY <1>5, FreeToken DEF StartAttempt
<1>6. CASE DryAttempt
  <2>1. first' = (prompt + 1 = 1 /\ (looper.fresh \/ loop' = 1)) \/ first' = first
    BY <1>6, Zenon DEF DryAttempt, NextPrompt, EnterPrompt
  <2>2. UNCHANGED <<prompts, loopMark, session, persistent, home, conv, count, prevSize,
                    asked, unsafe>>
    BY <1>6 DEF DryAttempt
  <2>. QED  BY <2>1, <2>2
<1>. QED  BY <1>1, <1>2, <1>3, <1>4, <1>5, <1>6

\* While an attempt runs, and after it.
LEMMA ControllerGoesOn ==
    ASSUME Known, ControllerTypes,
           RecordChild \/ RecordChildFails \/ KillOnStop \/ AttemptTimeout \/ Reap \/ Settle
           \/ ControlStop
             \/ LimitStop \/ Retry \/ SignalStop \/ ExitStop \/ PromptDone \/ WakeRetry
             \/ WakeLoop \/ Exit \/ Interrupted \/ Agent \/ Die \/ Steer
    PROVE  ControllerTypes'
<1>. USE DEF ControllerTypes, session_vars, breaker_vars, file_vars, attempt_vars
<1>1. CASE RecordChild \/ RecordChildFails \/ KillOnStop \/ AttemptTimeout \/ Reap \/ WakeRetry
           \/ WakeLoop
  BY <1>1 DEF RecordChild, RecordChildFails, KillOnStop, AttemptTimeout, Reap, WakeRetry,
              WakeLoop, Elsewhere
<1>2. CASE Settle
  <2>1. loopMark' \in BOOLEAN
    BY <1>2 DEF Settle, Known, Result
  <2>. QED  BY <1>2, <2>1 DEF Settle
<1>3. CASE ControlStop \/ LimitStop \/ SignalStop \/ ExitStop
  BY <1>3, PollTypes DEF ControlStop, LimitStop, SignalStop, ExitStop, After, Stay
<1>4. CASE Retry
  <2>1. first' = (first /\ ~result.session /\ looper.kind # "claude") /\ Poll
    BY <1>4, Zenon DEF Retry, StillFirst
  <2>2. UNCHANGED <<prompts, loopMark, session, persistent, home, conv, count, prevSize, unsafe>>
    BY <1>4 DEF Retry, After
  <2>. QED  BY <2>1, <2>2, PollTypes
<1>5. CASE PromptDone
  <2>1. first' = (prompt + 1 = 1 /\ (looper.fresh \/ loop' = 1)) \/ first' = first
    BY <1>5, Zenon DEF PromptDone, NextPrompt, EnterPrompt
  <2>2. /\ UNCHANGED <<prompts, loopMark, session, persistent, conv, count, prevSize, unsafe>>
        /\ home' = conv /\ Poll
    BY <1>5 DEF PromptDone, After
  <2>. QED  BY <2>1, <2>2, PollTypes
<1>6. CASE Exit \/ Interrupted \/ Die \/ ReaderFails \/ ChildExits \/ OrphanExits
  BY <1>6 DEF Exit, Interrupted, Die, Rest, ReaderFails, ChildExits, OrphanExits,
              Elsewhere
<1>7. ASSUME NEW l \in looper.output, ReadLine(l) PROVE ControllerTypes'
  <2>1. unsafe' \in BOOLEAN
    BY <1>7, Zenon DEF ReadLine
  <2>. QED  BY <1>7, <2>1 DEF ReadLine, Elsewhere
<1>8. CASE Steer
  BY <1>8 DEF Steer, QueueStop, AskRepair, LoadState, CheckState, RepairState, SendInterrupt,
              SendTerminate, SendKill, Untouched
<1>. QED  BY <1>1, <1>2, <1>3, <1>4, <1>5, <1>6, <1>7, <1>8 DEF Agent

\* The processes, state.json and the clients.
LEMMA ProcessSupervise ==
    ASSUME Known, ProcessTypes, Supervise, UNCHANGED client_vars PROVE ProcessTypes'
<1>. USE DEF ProcessTypes, client_vars, attempt_vars, end_vars, Record, StopRun, GoTo, Raise,
           Disk, Statuses, Active, Breakers, Exits
<1>1. CASE LoopTop \/ BeginLoop \/ LoopEnd
  BY <1>1 DEF LoopTop, BeginLoop, LoopEnd
<1>2. CASE CheckLoop \/ CheckRaises
  BY <1>2 DEF CheckLoop, CheckRaises
<1>3. CASE StartAttempt
  BY <1>3, FreeToken DEF StartAttempt, Spawn
<1>4. CASE StartRaises \/ DryAttempt \/ RecordChild \/ RecordChildFails
  BY <1>4 DEF StartRaises, DryAttempt, RecordChild, RecordChildFails
<1>5. CASE KillOnStop \/ AttemptTimeout \/ Reap
  BY <1>5 DEF KillOnStop, AttemptTimeout, Reap, Elsewhere, Token
<1>6. CASE Settle \/ ControlStop \/ LimitStop
  BY <1>6 DEF Settle, ControlStop, LimitStop, After
<1>7. CASE Retry \/ SignalStop \/ ExitStop \/ PromptDone
  BY <1>7 DEF Retry, SignalStop, ExitStop, PromptDone, After
<1>8. CASE WakeRetry \/ WakeLoop
  BY <1>8 DEF WakeRetry, WakeLoop
<1>9. CASE Exit \/ Interrupted
  BY <1>9 DEF Exit, Interrupted, Rest, Token
<1>. HIDE DEF ProcessTypes
<1>. QED  BY <1>1, <1>2, <1>3, <1>4, <1>5, <1>6, <1>7, <1>8, <1>9 DEF Supervise

LEMMA ProcessOthers ==
    ASSUME Known, ProcessTypes, ((Agent \/ Die) /\ UNCHANGED client_vars) \/ Steer
    PROVE  ProcessTypes'
<1>. USE DEF ProcessTypes, client_vars, end_vars, Token
<1>1. CASE Agent /\ UNCHANGED client_vars
  BY <1>1 DEF Agent, ReadLine, ReaderFails, ChildExits, OrphanExits, Elsewhere, Rest
<1>2. CASE Die /\ UNCHANGED client_vars
  BY <1>2 DEF Die, Rest, Exits
<1>3. CASE Steer
  <2>1. /\ recorded' \in {recorded, seen.child} /\ commands' \subseteq commands
        /\ child' \in {child, 0}
    BY <1>3 DEF Steer, QueueStop, AskRepair, LoadState, CheckState, RepairState, SendInterrupt,
                SendTerminate, SendKill, Untouched, Signalled
  <2>2. exit' \in {exit, "killed"} /\ sigint' \in BOOLEAN
    BY <1>3 DEF Steer, QueueStop, AskRepair, LoadState, CheckState, RepairState, SendInterrupt,
                SendTerminate, SendKill, Alive
  <2>3. disk' = disk \/ disk' = [status |-> "stopped", reason |-> "external"]
    BY <1>3 DEF Steer, QueueStop, AskRepair, LoadState, CheckState, RepairState, SendInterrupt,
                SendTerminate, SendKill, Record
  <2>4. disk' \in Disk
    BY <2>3 DEF Disk, Statuses
  <2>5. seen' = seen \/ seen' = [status |-> disk.status, child |-> recorded]
    BY <1>3 DEF Steer, QueueStop, AskRepair, LoadState, CheckState, RepairState, SendInterrupt,
                SendTerminate, SendKill
  <2>6. seen' \in [status : Statuses, child : Token]
    BY <2>5 DEF Disk
  <2>. QED  BY <2>1, <2>2, <2>4, <2>6 DEF Exits
<1>. QED  BY <1>1, <1>2, <1>3

LEMMA ControlTypesNext ==
    ASSUME Known, ControllerTypes, ProcessTypes, [ControlNext]_all
    PROVE  ControllerTypes' /\ ProcessTypes'
<1>1. CASE UNCHANGED all
  BY <1>1 DEF all, vars, client_vars, ControllerTypes, ProcessTypes
<1>2. CASE ControlNext
  BY <1>2, ControllerBegins, ControllerGoesOn, ProcessSupervise, ProcessOthers
  DEF ControlNext, Supervise
<1>. QED  BY <1>1, <1>2

-----------------------------------------------------------------------------
(* Every variable of the run and of its clients keeps to its type: state.json
   holds a status and a reason of the code, a conversation or a process group
   is none or one that was made, and the streaks and counts stay numbers. *)
THEOREM ControlTypesHold == ControlSpec => []ControlTypeOK
<1>. DEFINE Inv == /\ EndInv /\ StopInv /\ ConvInv /\ LimitInv
                   /\ ControllerTypes /\ ProcessTypes
<1>1. ControlInit => Inv
  BY EndInit, StopInit, ConvInit, LimitInit, ControlTypesInit
<1>2. Inv /\ [ControlNext]_all => Inv'
  BY EndNext, StopNext, ConvNext, LimitNext, ControlTypesNext, KnownHolds
<1>3. Inv => ControlTypeOK
  BY DEF EndInv, StopInv, ConvInv, LimitInv, ControllerTypes, ProcessTypes, ControlTypeOK,
         TypeOK, Command, Token, Exits
<1>. QED  BY <1>1, <1>2, <1>3, PTL DEF ControlSpec

(* After a stop for the prompt at most the attempt that is being started still
   begins, after one for the loop at most one loop. *)
THEOREM StopWithinOneHolds == ControlSpec => []StopWithinOne
<1>1. StopInv /\ [ControlNext]_all => StopInv'
  BY StopNext
<1>2. StopInv => StopWithinOne
  BY DEF StopInv
<1>. QED  BY <1>1, <1>2, StopInit, PTL DEF ControlSpec

(* A safety code ends the run as needing review, whatever else is asked of it. *)
THEOREM SafetyEndsRunHolds == ControlSpec => []SafetyEndsRun
<1>1. SafetyInv /\ [ControlNext]_all => SafetyInv'
  BY SafetyNext
<1>2. SafetyInv => SafetyEndsRun
  BY DEF SafetyInv, SafetyEndsRun
<1>. QED  BY <1>1, <1>2, SafetyInit, PTL DEF ControlSpec

(* A state.json that says the run ended is right, also if a client repaired it. *)
THEOREM StoppedMeansStoppedHolds == ControlSpec => []StoppedMeansStopped
<1>1. EndInv /\ [ControlNext]_all => EndInv'
  BY EndNext
<1>2. EndInv => StoppedMeansStopped
  BY DEF EndInv, StoppedMeansStopped
<1>. QED  BY <1>1, <1>2, EndInit, PTL DEF ControlSpec

(* A supervisor that is not killed leaves an agent behind when it is interrupted,
   and then state.json names it, or when it cannot record it; a repair may write
   older pids. *)
THEOREM AgentAccountedHolds == ControlSpec => []AgentAccounted
<1>1. EndInv /\ [ControlNext]_all => EndInv'
  BY EndNext
<1>2. EndInv => AgentAccounted
  BY DEF EndInv
<1>. QED  BY <1>1, <1>2, EndInit, PTL DEF ControlSpec

(* Every attempt works in the conversation that worked on the prompts so far. *)
THEOREM OneConversationHolds == ControlSpec => []OneConversation
<1>1. ConvInv /\ [ControlNext]_all => ConvInv'
  BY ConvNext
<1>2. ConvInv => OneConversation
  BY DEF ConvInv, OneConversation, Working
<1>. QED  BY <1>1, <1>2, ConvInit, PTL DEF ControlSpec

(* Breakers open exactly after their streak: not earlier and not later. *)
THEOREM BreakersExactHolds == ControlSpec => []BreakersExact
<1>1. ControlInit => LimitInv /\ EndInv
  BY LimitInit, EndInit
<1>2. LimitInv /\ EndInv /\ [ControlNext]_all => LimitInv' /\ EndInv'
  BY LimitNext, EndNext
<1>. QED  BY <1>1, <1>2, LimitsCounted, PTL DEF ControlSpec

-----------------------------------------------------------------------------
(***************************************************************************)
(* Hybrid turns: types first, since what a controller makes of a session   *)
(* file rests on which file, which lines and which offset it holds.        *)
(***************************************************************************)
HIDE LooperAssumption

\* The file of the conversation in the pane.
Log == IF pane = 0 THEN <<>> ELSE files[pane]

HybridPlaces ==
    \* Files are made in the order of the panes, and lines are torn in the last one.
    /\ pane <= panes /\ \A f \in Files : f > panes => files[f] = <<>>
    /\ torn /\ pane # 0 => files[pane] # <<>>
    /\ pane = 0 => agent = "none" /\ point \in {"idle", "over", "raised"}
    /\ note.at \in {"paste", "enter"} => note.pane # 0
    \* A prompt stands in the input line from its paste to its Enter,
    /\ "prompt" \in composer => point \in {"enter", "raised"}
    /\ point \in {"paste", "enter"} \/ "prompt" \in composer => attempt < Attempts
    \* and is a message of the turn it began.
    /\ agent = "busy" /\ turn # NoteTurn => turn > 0 /\ turn \in merged

HybridTypes == HybridTypeOK /\ HybridPlaces

LEMMA HybridFacts ==
    ASSUME HybridTypeOK
    PROVE  /\ Attempts \in Nat /\ Attempts > 0 /\ Files = 1..Attempts
           /\ hybrid.sends \in 0..Attempts /\ hybrid.says \subseteq Says
           /\ hybrid.screens \subseteq TurnScreens /\ hybrid.torn \in BOOLEAN
BY HybridAssumption DEF HybridTypeOK, ControllerTypeOK, Files

(* What a step that leaves a group of variables alone preserves. *)
LEMMA SameAgent == AgentTypeOK /\ UNCHANGED agent_vars => AgentTypeOK'
BY DEF AgentTypeOK, agent_vars

LEMMA SameController ==
    ASSUME ControllerTypeOK, UNCHANGED <<place_vars, pane_vars, poll_vars, listed>>,
           point' \in TurnPoints
    PROVE  ControllerTypeOK'
BY DEF ControllerTypeOK, place_vars, pane_vars, poll_vars

LEMMA SameNote == NoteTypeOK /\ UNCHANGED note => NoteTypeOK'
BY DEF NoteTypeOK

(* A message entered, by whoever. *)
LEMMA SubmitTypes ==
    ASSUME HybridTypes, NEW k \in 1..NoteTurn, "prompt" \in composer => k \in 1..Attempts,
           Submit(composer, k)
    PROVE  /\ agent' \in {"none", "boot", "trust", "update", "idle", "busy"}
           /\ composer' = {} /\ turn' \in 0..NoteTurn
           /\ step' \in {"start", "user", "work", "more", "late"}
           /\ merged' \subseteq 1..Attempts
           /\ agent' = "busy" /\ turn' # NoteTurn => turn' > 0 /\ turn' \in merged'
           /\ agent = "none" => agent' = "none"
<1> DEFINE mine == IF "prompt" \in composer THEN {k} ELSE {}
<1>1. /\ mine \subseteq 1..Attempts
      /\ NoteTurn \in Nat /\ NoteTurn \in 0..NoteTurn /\ k \in 0..NoteTurn
  BY HybridFacts DEF HybridTypes, NoteTurn
<1>2. CASE composer # {} /\ agent = "idle"
  <2>1. /\ composer' = {} /\ agent' = "busy" /\ step' = "start" /\ merged' = mine
        /\ turn' = IF mine = {} THEN NoteTurn ELSE k
    BY <1>2 DEF Submit
  <2>2. mine # {} => k \in mine /\ k > 0
    OBVIOUS
  <2> QED BY <2>1, <2>2, <1>1, <1>2
<1>3. CASE ~(composer # {} /\ agent = "idle")
  <2>1. /\ composer' = {} /\ agent' = agent /\ step' = step /\ turn' = turn
        /\ merged' \in {merged, merged \cup mine} /\ merged \subseteq merged'
    BY <1>3 DEF Submit
  <2> QED BY <2>1, <1>1 DEF HybridTypes, HybridTypeOK, AgentTypeOK, HybridPlaces
<1> QED BY <1>2, <1>3

LEMMA TypesInit == HybridInit => HybridTypes
<1> SUFFICES ASSUME HybridInit PROVE HybridTypes
  OBVIOUS
<1> USE DEF HybridInit
<1>1. hybrid \in Hybrids /\ Attempts \in Nat /\ Attempts > 0 /\ Files = 1..Attempts
  BY HybridAssumption DEF Files
<1>2. files \in [Files -> Seq(Event)]
  OBVIOUS
<1>3. note \in [at : {"load", "paste", "enter", "over"}, pane : {0} \cup Files,
                status : {"none", "recorded", "delivered", "failed"}]
  OBVIOUS
<1>4. turn \in 0..NoteTurn /\ attempt \in 0..Attempts
  BY <1>1 DEF NoteTurn
<1>5. HybridTypeOK
  BY <1>1, <1>2, <1>3, <1>4
  DEF HybridTypeOK, ControllerTypeOK, AgentTypeOK, NoteTypeOK, TurnPoints, Outcomes, Stops, Words
<1> QED BY <1>1, <1>5, <1>3 DEF HybridTypes, HybridPlaces

LEMMA DiscoveredFile == HybridTypeOK => Discovered \subseteq {0} \cup Files
BY DEF Discovered, Newest, Candidates, Exists, HybridTypeOK, ControllerTypeOK

(* The controller's steps up to the Enter. *)
LEMMA TypesSend ==
    ASSUME HybridTypes, \/ Split \/ WaitReady \/ SkipUpdate \/ NotReady \/ Offset \/ Paste
                        \/ Enter \/ EnterFails
    PROVE  HybridTypes'
<1>0. HybridTypeOK /\ HybridPlaces /\ ControllerTypeOK /\ AgentTypeOK /\ NoteTypeOK
  BY DEF HybridTypes, HybridTypeOK
<1> USE DEF HybridTypeOK, TurnPoints, Proceed, note_vars
<1>1. CASE Split
  <2>1. UNCHANGED <<place_vars, poll_vars, listed, note>> /\ NoteTypeOK'
    BY <1>0, <1>1, SameNote DEF Split
  <2>2. CASE point' = "raised" /\ UNCHANGED <<pane_vars, agent_vars>>
    <3>1. ControllerTypeOK' /\ AgentTypeOK'
      BY <1>0, <2>1, <2>2, SameController, SameAgent
    <3>2. HybridPlaces'
      BY <1>0, <1>1, <2>1, <2>2 DEF Split, HybridPlaces, place_vars, pane_vars, agent_vars
    <3> QED BY <3>1, <3>2, <2>1 DEF HybridTypes
  <2>3. CASE /\ panes < Attempts /\ pane' = panes + 1 /\ panes' = panes + 1 /\ skipped' = FALSE
             /\ agent' \in hybrid.screens /\ shown' = "READY" /\ composer' = {}
             /\ turn' = 0 /\ step' = "start" /\ merged' = {} /\ torn' = FALSE
             /\ point' = "waiting" /\ UNCHANGED <<files, finished>>
    <3>1. agent' \in TurnScreens /\ pane' \in Files /\ pane' > 0 /\ 0 \in 0..NoteTurn
      BY <1>0, <2>3, HybridFacts DEF ControllerTypeOK, NoteTurn
    <3>2. ControllerTypeOK'
      BY <1>0, <2>1, <2>3, <3>1 DEF ControllerTypeOK, place_vars, poll_vars
    <3>3. AgentTypeOK'
      BY <1>0, <2>3, <3>1 DEF AgentTypeOK, TurnScreens
    <3>4. HybridPlaces'
      BY <1>0, <2>1, <2>3, <3>1, HybridFacts
      DEF HybridPlaces, ControllerTypeOK, TurnScreens, place_vars
    <3> QED BY <3>2, <3>3, <3>4, <2>1 DEF HybridTypes
  <2> QED BY <1>1, <2>2, <2>3 DEF Split
<1>2. CASE WaitReady \/ NotReady \/ EnterFails
  <2>1. /\ UNCHANGED <<place_vars, pane_vars, poll_vars, agent_vars, listed, note>>
        /\ \/ point = "waiting" /\ agent # "none" /\ point' \in {"offset", "raised"}
           \/ point \in {"waiting", "enter"} /\ point' = "raised"
    BY <1>2 DEF WaitReady, NotReady, EnterFails
  <2>2. HybridTypeOK'
    BY <1>0, <2>1, SameController, SameAgent, SameNote
  <2>3. HybridPlaces'
    BY <1>0, <2>1 DEF HybridPlaces, place_vars, pane_vars, agent_vars
  <2> QED BY <2>2, <2>3 DEF HybridTypes
<1>3. CASE SkipUpdate
  <2>1. HybridTypeOK'
    BY <1>0, <1>3, SameNote
    DEF SkipUpdate, ControllerTypeOK, AgentTypeOK, place_vars, poll_vars
  <2>2. HybridPlaces'
    BY <1>0, <1>3 DEF SkipUpdate, HybridPlaces, place_vars
  <2> QED BY <2>1, <2>2 DEF HybridTypes
<1>4. CASE Offset
  <2>1. PICK f \in Discovered : path' = f /\ offset' = IF f = 0 THEN 0 ELSE Len(files[f])
    BY <1>4 DEF Offset
  <2>2. f \in {0} \cup Files
    BY <2>1, <1>0, DiscoveredFile
  <2>3. offset' \in Nat /\ logged' \in Nat
    BY <2>1, <2>2, <1>0, <1>4 DEF Offset, AgentTypeOK
  <2>4. /\ UNCHANGED <<place_vars, pane_vars, agent_vars, listed, note, shot>>
        /\ point' = "paste" /\ stop' = "none" /\ outcome' = "none"
        /\ attempt < hybrid.sends /\ point \in {"offset", "idle"} /\ pane # 0
    BY <1>0, <1>4 DEF Offset, HybridPlaces
  <2>5. HybridTypeOK'
    BY <1>0, <2>1, <2>2, <2>3, <2>4, SameAgent, SameNote
    DEF ControllerTypeOK, Outcomes, Stops, Words, place_vars, pane_vars
  <2>6. HybridPlaces'
    BY <1>0, <2>4, HybridFacts DEF HybridPlaces, ControllerTypeOK, place_vars, pane_vars, agent_vars
  <2> QED BY <2>5, <2>6 DEF HybridTypes
<1>5. CASE Paste
  <2>1. /\ UNCHANGED <<place_vars, pane_vars, poll_vars, listed, note>>
        /\ point = "paste" /\ point' \in {"enter", "raised"}
        /\ UNCHANGED <<agent, turn, step, merged, shown, files, torn, finished>>
        /\ composer' = composer \/ (composer' = composer \cup {"prompt"} /\ point' = "enter")
    BY <1>5 DEF Paste, Typed
  <2>2. HybridTypeOK'
    BY <1>0, <2>1, SameController, SameNote DEF AgentTypeOK
  <2>3. HybridPlaces'
    BY <1>0, <2>1 DEF HybridPlaces, place_vars, pane_vars
  <2> QED BY <2>2, <2>3 DEF HybridTypes
<1>6. CASE Enter
  <2>1. /\ point = "enter" /\ point' = "capture" /\ attempt' = attempt + 1
        /\ Submit(composer, attempt')
        /\ UNCHANGED <<hybrid, due, pane_vars, poll_vars, shown, files, torn, finished, listed,
                      note>>
    BY <1>6 DEF Enter
  <2>2. /\ attempt' \in 1..Attempts /\ attempt' \in 1..NoteTurn /\ attempt' \in 0..Attempts
        /\ pane # 0
    BY <1>0, <2>1, HybridFacts DEF HybridPlaces, NoteTurn, ControllerTypeOK
  <2>3. HybridTypeOK'
    BY <1>0, <2>1, <2>2, SubmitTypes, SameNote
    DEF HybridTypes, ControllerTypeOK, AgentTypeOK, pane_vars, poll_vars
  <2>4. HybridPlaces'
    BY <1>0, <2>1, <2>2, SubmitTypes DEF HybridTypes, HybridPlaces, pane_vars
  <2> QED BY <2>3, <2>4 DEF HybridTypes
<1> QED BY <1>1, <1>2, <1>3, <1>4, <1>5, <1>6


(* A poll, and what run_loop does with its result. *)
LEMMA TypesPoll ==
    ASSUME HybridTypes, \/ Capture \/ Timeout \/ NoFile \/ ReadNew \/ Assess \/ TakeResult
    PROVE  HybridTypes'
<1>0. HybridTypeOK /\ HybridPlaces /\ ControllerTypeOK /\ AgentTypeOK /\ NoteTypeOK
  BY DEF HybridTypes, HybridTypeOK
<1> USE DEF HybridTypeOK, TurnPoints, Proceed, note_vars
<1>1. CASE Capture \/ Timeout \/ NoFile \/ Assess
  <2>1. /\ UNCHANGED <<hybrid, attempt, pane_vars, agent_vars, offset, logged, stop, listed, note>>
        /\ point \in {"capture", "read", "assess"} /\ point' \in {"read", "settle", "capture"}
        /\ due' \in BOOLEAN /\ shot' \in {"READY", "RUN", "ERR"} /\ path' \in {path, 0}
        /\ outcome' \in Outcomes
    <3>1. CASE Capture
      BY <1>0, <3>1 DEF Capture, ControllerTypeOK, AgentTypeOK
    <3>2. CASE Timeout
      BY <1>0, <3>2 DEF Timeout, ControllerTypeOK, place_vars, Outcomes
    <3>3. CASE NoFile
      BY <1>0, <3>3 DEF NoFile, ControllerTypeOK, place_vars
    <3>4. CASE Assess
      BY <1>0, <3>4 DEF Assess, ControllerTypeOK, place_vars, Outcomes
    <3> QED BY <1>1, <3>1, <3>2, <3>3, <3>4
  <2>2. HybridTypeOK'
    BY <1>0, <2>1, SameAgent, SameNote DEF ControllerTypeOK, pane_vars
  <2>3. HybridPlaces'
    BY <1>0, <2>1 DEF HybridPlaces, pane_vars, agent_vars
  <2> QED BY <2>2, <2>3 DEF HybridTypes
<1>2. CASE ReadNew
  <2>0. PICK found \in Discovered : \E f \in Recent(found) \ {0} :
           LET from == IF f = found THEN logged ELSE 0
               why  == StopAfter(f, from, Readable(f))
           IN /\ path' = f /\ stop' = why /\ logged' = Readable(f)
              /\ offset' = IF f = found THEN offset ELSE 0
    BY <1>2 DEF ReadNew
  <2>1. PICK f \in Recent(found) \ {0} :
           LET from == IF f = found THEN logged ELSE 0
               why  == StopAfter(f, from, Readable(f))
           IN /\ path' = f /\ stop' = why /\ logged' = Readable(f)
              /\ offset' = IF f = found THEN offset ELSE 0
    BY <2>0
  <2>2. f \in Files /\ files[f] # <<>>
    BY <2>1, <1>0, DiscoveredFile DEF Recent, Discovered, Newest, Candidates, Exists
  <2>3. logged' \in Nat /\ offset' \in Nat
    BY <2>1, <2>2, <1>0 DEF Readable, AgentTypeOK, ControllerTypeOK
  <2>4. stop' \in Stops
    BY <2>1, <1>0 DEF StopAfter, Stops, Words, ControllerTypeOK
  <2>5. /\ UNCHANGED <<place_vars, pane_vars, shot, agent_vars, listed, note>>
        /\ point = "read" /\ point' \in {"settle", "assess", "capture"}
        /\ outcome' \in {outcome, "done", stop'}
    BY <1>2 DEF ReadNew
  <2>6. HybridTypeOK'
    BY <1>0, <2>1, <2>2, <2>3, <2>4, <2>5, SameAgent, SameNote
    DEF ControllerTypeOK, Outcomes, place_vars, pane_vars
  <2>7. HybridPlaces'
    BY <1>0, <2>5 DEF HybridPlaces, place_vars, pane_vars, agent_vars
  <2> QED BY <2>6, <2>7 DEF HybridTypes
<1>3. CASE TakeResult
  <2>1. /\ point = "settle" /\ UNCHANGED <<place_vars, note>>
        /\ point' \in {"idle", "raised", "over"} /\ listed' \in {0, pane}
        /\ \/ UNCHANGED <<pane_vars, poll_vars, agent_vars>>
           \/ ResetController /\ point' = "idle"
    BY <1>3 DEF TakeResult
  <2>2. HybridTypeOK'
    <3>1. CASE UNCHANGED <<pane_vars, poll_vars, agent_vars>>
      BY <1>0, <2>1, <3>1, SameNote, SameAgent
      DEF ControllerTypeOK, place_vars, pane_vars, poll_vars
    <3>2. CASE ResetController /\ point' = "idle"
      BY <1>0, <2>1, <3>2, SameNote
      DEF ControllerTypeOK, AgentTypeOK, ResetController, place_vars, pane_vars, poll_vars
    <3>. QED  BY <2>1, <3>1, <3>2
  <2>3. HybridPlaces'
    <3>1. 0 <= panes
      BY <1>0, HybridFacts DEF ControllerTypeOK
    <3> QED BY <1>0, <2>1, <3>1
            DEF HybridPlaces, ResetController, place_vars, pane_vars, agent_vars
  <2> QED BY <2>2, <2>3 DEF HybridTypes
<1> QED BY <1>1, <1>2, <1>3

(* A line that is appended. *)
LEMMA PutTypes ==
    ASSUME HybridTypes, pane # 0, NEW kind \in Kinds, NEW ok \in BOOLEAN, Put(kind, ok)
    PROVE  /\ files' \in [Files -> Seq(Event)] /\ torn' \in BOOLEAN
           /\ files'[pane] = Append(files[pane], [kind |-> kind, turn |-> turn, ok |-> ok])
           /\ files'[pane] # <<>> /\ \A f \in Files \ {pane} : files'[f] = files[f]
           /\ pane \in Files
<1>1. AgentTypeOK /\ ControllerTypeOK /\ hybrid.torn \in BOOLEAN
  BY HybridFacts DEF HybridTypes, HybridTypeOK
<1> DEFINE e == [kind |-> kind, turn |-> turn, ok |-> ok]
<1>2. e \in Event /\ pane \in Files /\ files[pane] \in Seq(Event)
  BY <1>1 DEF Event, AgentTypeOK, ControllerTypeOK
<1>3. Append(files[pane], e) \in Seq(Event) /\ Append(files[pane], e) # <<>>
  BY <1>2
<1> QED BY <1>1, <1>2, <1>3 DEF Put, AgentTypeOK

(* The agent. *)
LEMMA TypesAgent == ASSUME HybridTypes, AgentActs PROVE HybridTypes'
<1>0. HybridTypeOK /\ HybridPlaces /\ ControllerTypeOK /\ AgentTypeOK /\ NoteTypeOK
  BY DEF HybridTypes, HybridTypeOK
<1>1. UNCHANGED <<point, place_vars, pane_vars, poll_vars, listed, note>>
  BY DEF AgentActs, Boot, Open, WriteLine, Flush, Abort, Show, Undisturbed, note_vars
<1>2. ControllerTypeOK' /\ NoteTypeOK'
  BY <1>0, <1>1, SameController, SameNote DEF ControllerTypeOK
<1>3. CASE Boot \/ Flush \/ Abort \/ Show
  <2>1. AgentTypeOK'
    BY <1>0, <1>3 DEF Boot, Flush, Abort, Show, AgentTypeOK
  <2>2. HybridPlaces'
    BY <1>0, <1>1, <1>3 DEF Boot, Flush, Abort, Show, HybridPlaces, place_vars, pane_vars
  <2> QED BY <1>2, <2>1, <2>2 DEF HybridTypes, HybridTypeOK
<1>4. CASE Open
  <2> DEFINE header == <<[kind |-> "meta", turn |-> 0, ok |-> TRUE]>>
  <2>1. pane \in Files /\ 0 \in 0..NoteTurn
    BY <1>0, <1>4, HybridFacts DEF Open, ControllerTypeOK, NoteTurn
  <2>2. header \in Seq(Event) /\ header # <<>>
    BY <2>1 DEF Event, Kinds
  <2>3. files' = [files EXCEPT ![pane] = header]
    BY <1>4 DEF Open
  <2>4. AgentTypeOK'
    BY <1>0, <1>4, <2>1, <2>2, <2>3 DEF Open, AgentTypeOK
  <2>5. HybridPlaces'
    BY <1>0, <1>1, <1>4, <2>1, <2>2, <2>3
    DEF Open, HybridPlaces, AgentTypeOK, ControllerTypeOK, place_vars, pane_vars
  <2> QED BY <1>2, <2>4, <2>5 DEF HybridTypes, HybridTypeOK
<1>5. CASE WriteLine
  <2>1. \E kind \in Kinds, ok \in BOOLEAN : Put(kind, ok)
    BY <1>0, <1>5, HybridFacts DEF WriteLine, FirstLine, LastLine, Kinds, Says
  <2>2. /\ files' \in [Files -> Seq(Event)] /\ torn' \in BOOLEAN /\ files'[pane] # <<>>
        /\ \A f \in Files \ {pane} : files'[f] = files[f]
        /\ pane \in Files
    BY <2>1, <1>5, PutTypes DEF WriteLine
  <2>3. /\ UNCHANGED <<composer, turn, merged, shown>>
        /\ agent' \in {agent, "idle"} /\ finished' \in {finished, finished \cup merged}
        /\ step' \in {"start", "user", "work", "more", "late"} /\ pane # 0 /\ agent # "none"
    BY <1>0, <1>5 DEF WriteLine, AgentTypeOK
  <2>4. AgentTypeOK'
    BY <1>0, <2>2, <2>3 DEF AgentTypeOK
  <2>5. HybridPlaces'
    BY <1>0, <1>1, <2>2, <2>3 DEF HybridPlaces, ControllerTypeOK, place_vars, pane_vars
  <2> QED BY <1>2, <2>4, <2>5 DEF HybridTypes, HybridTypeOK
<1> QED BY <1>3, <1>4, <1>5 DEF AgentActs

(* The operator. *)
LEMMA TypesOperator == ASSUME HybridTypes, Operator PROVE HybridTypes'
<1>0. HybridTypeOK /\ HybridPlaces /\ ControllerTypeOK /\ AgentTypeOK /\ NoteTypeOK
  BY DEF HybridTypes, HybridTypeOK
<1>1. UNCHANGED <<point, place_vars, pane_vars, poll_vars, listed, shown, files, torn, finished>>
  BY DEF Operator, Resolve, PasteNote, EnterNote, NoteFails, note_rest
<1>2. ControllerTypeOK'
  BY <1>0, <1>1, SameController DEF ControllerTypeOK
<1>3. CASE Resolve \/ NoteFails
  <2>1. UNCHANGED <<agent, composer, turn, step, merged>>
    BY <1>3 DEF Resolve, NoteFails
  <2>2. NoteTypeOK' /\ (note'.at \in {"paste", "enter"} => note'.pane # 0)
    <3>1. CASE Resolve
      <4>1. listed \in {0} \cup Files /\ pane \in {0} \cup Files
        BY <1>0 DEF ControllerTypeOK
      <4>2. note' = [note EXCEPT !.at = "over", !.status = "failed"]
              => NoteTypeOK' /\ note'.at = "over"
        BY <1>0 DEF NoteTypeOK
      <4>3. note' = [note EXCEPT !.at = "over", !.status = "recorded"]
              => NoteTypeOK' /\ note'.at = "over"
        BY <1>0 DEF NoteTypeOK
      <4>4. ASSUME NEW target \in {listed, pane} \ {0},
                   note' = [note EXCEPT !.at = "paste", !.pane = target]
            PROVE  NoteTypeOK' /\ note'.pane # 0
        BY <1>0, <4>1, <4>4 DEF NoteTypeOK
      <4>. QED  BY <3>1, <4>2, <4>3, <4>4 DEF Resolve, Noted
    <3>2. CASE NoteFails
      BY <1>0, <3>2 DEF NoteFails, Noted, NoteTypeOK
    <3>. QED  BY <1>3, <3>1, <3>2
  <2>3. AgentTypeOK' /\ HybridPlaces'
    BY <1>0, <1>1, <2>1, <2>2 DEF AgentTypeOK, HybridPlaces, place_vars, pane_vars
  <2> QED BY <1>2, <2>2, <2>3 DEF HybridTypes, HybridTypeOK
<1>4. CASE PasteNote
  <2>1. /\ UNCHANGED <<agent, turn, step, merged>> /\ note.at = "paste" /\ note.pane = pane
        /\ composer' \in {composer, composer \cup {"note"}}
        /\ note' = [note EXCEPT !.at = "enter", !.status = "none"]
    BY <1>4 DEF PasteNote, Typed, Noted
  <2>2. NoteTypeOK' /\ note'.pane # 0
    BY <1>0, <2>1 DEF NoteTypeOK, HybridPlaces
  <2>3. AgentTypeOK' /\ HybridPlaces'
    BY <1>0, <1>1, <2>1, <2>2 DEF AgentTypeOK, HybridPlaces, place_vars, pane_vars
  <2> QED BY <1>2, <2>2, <2>3 DEF HybridTypes, HybridTypeOK
<1>5. CASE EnterNote
  <2>1. /\ Submit(composer, attempt + 1) /\ note.at = "enter" /\ note.pane = pane
        /\ note' = [note EXCEPT !.at = "over", !.status = "delivered"]
    BY <1>5 DEF EnterNote, Noted
  <2>2. NoteTypeOK' /\ note'.at = "over"
    BY <1>0, <2>1 DEF NoteTypeOK
  <2>3. attempt + 1 \in 1..NoteTurn /\ ("prompt" \in composer => attempt + 1 \in 1..Attempts)
    BY <1>0, HybridFacts DEF HybridPlaces, ControllerTypeOK, NoteTurn
  <2>4. AgentTypeOK' /\ HybridPlaces'
    BY <1>0, <1>1, <2>1, <2>2, <2>3, SubmitTypes
    DEF HybridTypes, AgentTypeOK, HybridPlaces, place_vars, pane_vars
  <2> QED BY <1>2, <2>2, <2>4 DEF HybridTypes, HybridTypeOK
<1> QED BY <1>3, <1>4, <1>5 DEF Operator

LEMMA TypesSame == HybridTypes /\ UNCHANGED hybrid_vars => HybridTypes'
BY SameAgent, SameController, SameNote
DEF HybridTypes, HybridTypeOK, HybridPlaces, ControllerTypeOK, hybrid_vars, note_vars, place_vars,
    pane_vars, agent_vars

(* The type invariant of the hybrid turns. *)
THEOREM HybridTypesHold == HybridSpec => []HybridTypes
<1>1. HybridTypes /\ [HybridNext]_hybrid_vars => HybridTypes'
  BY TypesSend, TypesPoll, TypesAgent, TypesOperator, TypesSame DEF HybridNext, Controller
<1> QED BY TypesInit, <1>1, PTL DEF HybridSpec


(***************************************************************************)
(* Codex: what the controller has read of the pane's file.                 *)
(***************************************************************************)
InTurn == {"paste", "enter", "capture", "read", "settle"}

ReadInv ==
    \* The path is the file of the conversation in the pane, which has begun.
    /\ path \in {0, pane} /\ point # "assess"
    /\ path # 0 => /\ files[pane] # <<>>
                   /\ offset <= Len(files[pane]) /\ logged <= Len(files[pane])
    /\ point \in InTurn /\ path = 0 => offset = 0 /\ logged = 0
    \* A turn has no outcome while it is polled, and then that of its stop reason.
    /\ point \in InTurn \ {"settle"} => outcome = "none"
    /\ point \in {"paste", "enter"} => stop = "none"
    /\ stop \in {"none", "safety", "rate_limit"} /\ (stop = "safety" => outcome = "safety")
    /\ outcome = "rate_limit" => stop = "rate_limit"
    /\ outcome = "done" /\ point = "settle" => path # 0
    \* No safety error was read and passed over.
    /\ stop # "safety" /\ path # 0 =>
          \A i \in (offset + 1)..logged : files[path][i].kind # "safety"

(* The only file that can be discovered is the pane's. *)
LEMMA DiscoveredCodex ==
    ASSUME HybridTypes, Codex, path \in {0, pane}
    PROVE  /\ Discovered = IF Exists(pane) THEN {pane} ELSE {0}
           /\ \A f : Recent(f) = {f}
<1>1. pane \in {0} \cup Files
  BY DEF HybridTypes, HybridTypeOK, ControllerTypeOK
<1>2. Candidates = IF Exists(pane) THEN {pane} ELSE {}
  BY <1>1 DEF Candidates, Exists
<1> QED BY <1>2 DEF Discovered, Newest, Recent, Exists

(* The agent only ever appends to it. *)
LEMMA AgentFile ==
    ASSUME HybridTypes, AgentActs, pane # 0
    PROVE  /\ pane \in Files /\ files[pane] \in Seq(Event) /\ files'[pane] \in Seq(Event)
           /\ Len(files[pane]) <= Len(files'[pane])
           /\ \A i \in DOMAIN files[pane] : files'[pane][i] = files[pane][i]
           /\ files[pane] # <<>> => files'[pane] # <<>>
<1>1. pane \in Files /\ files[pane] \in Seq(Event) /\ ControllerTypeOK /\ AgentTypeOK
  BY DEF HybridTypes, HybridTypeOK, ControllerTypeOK, AgentTypeOK
<1>2. CASE Boot \/ Flush \/ Abort \/ Show
  BY <1>1, <1>2 DEF Boot, Flush, Abort, Show
<1>3. CASE Open
  <2>1. files[pane] = <<>>
    BY <1>3 DEF Open, Exists
  <2>2. files'[pane] \in Seq(Event)
    BY <1>1, TypesAgent DEF HybridTypes, HybridTypeOK, AgentTypeOK
  <2> QED BY <1>1, <2>1, <2>2
<1>4. CASE WriteLine
  <2>1. PICK kind \in Kinds, ok \in BOOLEAN : Put(kind, ok)
    BY <1>4, HybridFacts DEF WriteLine, FirstLine, LastLine, Kinds, Says, HybridTypes
  <2>2. files'[pane] = Append(files[pane], [kind |-> kind, turn |-> turn, ok |-> ok])
    BY <2>1, PutTypes
  <2>3. [kind |-> kind, turn |-> turn, ok |-> ok] \in Event
    BY <1>1, <2>1 DEF Event, AgentTypeOK
  <2> QED BY <1>1, <2>2, <2>3
<1> QED BY <1>2, <1>3, <1>4 DEF AgentActs

(* What one poll reads, and how it ends. *)
LEMMA ReadStep ==
    ASSUME HybridTypes, Codex, ReadInv, ReadNew
    PROVE  /\ point = "read" /\ path' = pane /\ pane # 0 /\ files[pane] # <<>>
           /\ offset' = offset /\ logged' = Readable(pane)
           /\ stop' = StopAfter(pane, logged, logged')
           /\ \/ /\ stop' # "none" /\ point' = "settle" /\ outcome' = stop'
              \/ /\ stop' = "none" /\ point' = "settle" /\ outcome' = "done"
                 /\ CodexReady(Events(pane, offset, logged'))
              \/ /\ stop' # "safety" /\ point' = "capture" /\ outcome' = outcome
                 /\ \/ Incomplete(pane)
                    \/ stop' = "none" /\ ~CodexReady(Events(pane, offset, logged'))
           /\ UNCHANGED <<place_vars, pane_vars, shot, agent_vars, note_vars>>
<1>1. /\ Discovered = IF Exists(pane) THEN {pane} ELSE {0}
      /\ \A f : Recent(f) = {f}
  BY DiscoveredCodex DEF ReadInv
<1>2. pane \in Discovered /\ Discovered = {pane} /\ pane # 0 /\ files[pane] # <<>>
  BY <1>1 DEF ReadNew, Exists
<1>3. \E found \in {pane} : \E f \in {pane} :
         LET from == IF f = found THEN logged ELSE 0
             why  == StopAfter(f, from, Readable(f))
         IN /\ path' = f /\ stop' = why /\ logged' = Readable(f)
            /\ offset' = IF f = found THEN offset ELSE 0
            /\ \/ /\ why = "safety" \/ (why # "none" /\ ~Incomplete(f))
                  /\ outcome' = why /\ Proceed("settle")
               \/ /\ why = "none" /\ ~Incomplete(f) /\ Codex
                  /\ CodexReady(Events(f, offset', logged'))
                  /\ outcome' = "done" /\ Proceed("settle")
               \/ /\ why = "none" /\ ~Incomplete(f) /\ ~Codex
                  /\ Proceed("assess") /\ UNCHANGED outcome
               \/ /\ why # "safety" /\ Codex
                  /\ Incomplete(f) \/ (why = "none" /\ ~CodexReady(Events(f, offset', logged')))
                  /\ Proceed("capture") /\ UNCHANGED outcome
  BY <1>1, <1>2 DEF ReadNew
<1> QED BY <1>2, <1>3 DEF ReadNew, Proceed

(* Every safety error among the lines that are read is a reason to stop. *)
LEMMA SafetyRead ==
    ASSUME HybridTypes, Codex, pane # 0, files[pane] # <<>>, stop # "safety",
           StopAfter(pane, logged, Readable(pane)) # "safety"
    PROVE  /\ Readable(pane) \in Nat /\ Readable(pane) <= Len(files[pane])
           /\ \A i \in (logged + 1)..Readable(pane) : files[pane][i].kind # "safety"
<1>1. /\ pane \in Files /\ files[pane] \in Seq(Event) /\ torn \in BOOLEAN /\ logged \in Nat
  BY DEF HybridTypes, HybridTypeOK, ControllerTypeOK, AgentTypeOK
<1>2. /\ Readable(pane) \in Nat /\ Readable(pane) <= Len(files[pane])
      /\ torn => Readable(pane) = Len(files[pane]) - 1
  <2>1. Len(files[pane]) \in Nat /\ Len(files[pane]) > 0
    BY <1>1
  <2>2. CASE torn
    BY <2>1, <2>2 DEF Readable, Incomplete
  <2>3. CASE ~torn
    BY <2>1, <2>3 DEF Readable, Incomplete
  <2> QED BY <2>2, <2>3
<1>3. ASSUME NEW i \in (logged + 1)..Readable(pane) PROVE files[pane][i].kind # "safety"
  <2>1. Signal(pane, i) # "safety"
    BY DEF StopAfter
  <2>2. ~(torn /\ i = Len(files[pane]))
    BY <1>1, <1>2
  <2> QED BY <2>1, <2>2 DEF Signal
<1> QED BY <1>2, <1>3

LEMMA StopKinds ==
    ASSUME ReadInv, NEW f, NEW from, NEW to
    PROVE  /\ StopAfter(f, from, to) \in {"none", "safety", "rate_limit"}
           /\ stop = "safety" => StopAfter(f, from, to) = "safety"
BY DEF StopAfter, ReadInv

LEMMA ReadInit == HybridInit => ReadInv
BY DEF HybridInit, ReadInv, InTurn

LEMMA ReadControl ==
    ASSUME HybridTypes, Codex, ReadInv, Controller PROVE ReadInv'
<1>0. HybridPlaces /\ ControllerTypeOK /\ AgentTypeOK
  BY DEF HybridTypes, HybridTypeOK
<1> USE DEF Proceed, place_vars, pane_vars, poll_vars, agent_vars
<1>1. CASE Split
  BY <1>0, <1>1 DEF Split, ReadInv, InTurn
<1>2. CASE WaitReady \/ SkipUpdate \/ NotReady \/ EnterFails
  BY <1>0, <1>2 DEF WaitReady, SkipUpdate, NotReady, EnterFails, ReadInv, InTurn
<1>3. CASE Offset
  <2>1. \E f \in (IF Exists(pane) THEN {pane} ELSE {0}) :
           /\ path' = f /\ offset' = IF f = 0 THEN 0 ELSE Len(files[f])
           /\ logged' = offset'
    BY <1>3, DiscoveredCodex DEF Offset, ReadInv
  <2>2. \/ path' = 0 /\ offset' = 0 /\ logged' = 0
        \/ /\ path' = pane /\ files[pane] # <<>>
           /\ offset' = Len(files[pane]) /\ logged' = Len(files[pane]) /\ pane # 0
    BY <2>1 DEF Exists
  <2>3. pane # 0 => Len(files[pane]) \in Nat
    BY <1>0 DEF ControllerTypeOK, AgentTypeOK
  <2> QED BY <1>0, <1>3, <2>2, <2>3 DEF Offset, ReadInv, InTurn
<1>4. CASE Paste \/ Enter
  BY <1>0, <1>4 DEF Paste, Enter, ReadInv, InTurn
<1>5. CASE Capture \/ Timeout
  BY <1>0, <1>5 DEF Capture, Timeout, ReadInv, InTurn
<1>6. CASE NoFile
  BY <1>0, <1>6, DiscoveredCodex DEF NoFile, Exists, ReadInv, InTurn
<1>7. CASE ReadNew
  <2>1. /\ stop # "safety" => path # 0 \/ logged = 0
        /\ stop' \in {"none", "safety", "rate_limit"} /\ outcome = "none" /\ stop # "safety"
    BY <1>7, ReadStep, StopKinds DEF ReadInv, InTurn
  <2>2. stop' # "safety" => \A i \in (offset' + 1)..logged' : files[pane][i].kind # "safety"
    BY <1>0, <1>7, <2>1, ReadStep, SafetyRead DEF ReadInv, InTurn, ControllerTypeOK
  <2>3. logged' \in Nat /\ logged' <= Len(files[pane])
    BY <1>0, <1>7, ReadStep DEF Readable, ControllerTypeOK, AgentTypeOK
  <2>4. offset <= Len(files[pane])
    BY <1>0, <1>7, ReadStep DEF ReadInv, InTurn, ControllerTypeOK, AgentTypeOK
  <2> QED BY <1>7, <2>1, <2>2, <2>3, <2>4, ReadStep DEF ReadInv, InTurn
<1>8. CASE Assess
  BY <1>8 DEF Assess, ReadInv
<1>9. CASE TakeResult
  BY <1>9 DEF TakeResult, ResetController, ReadInv, InTurn
<1> QED BY <1>1, <1>2, <1>3, <1>4, <1>5, <1>6, <1>7, <1>8, <1>9 DEF Controller

LEMMA ReadOthers ==
    ASSUME HybridTypes, Codex, ReadInv, AgentActs \/ Operator \/ UNCHANGED hybrid_vars
    PROVE  ReadInv'
<1>1. UNCHANGED <<point, pane, path, offset, logged, stop, outcome>>
  BY DEF AgentActs, Boot, Open, WriteLine, Flush, Abort, Show, Undisturbed, Operator, Resolve,
         PasteNote, EnterNote, NoteFails, note_rest, hybrid_vars, pane_vars, poll_vars
<1>2. CASE pane # 0 /\ AgentActs
  <2>1. /\ Len(files[pane]) <= Len(files'[pane]) /\ Len(files[pane]) \in Nat
        /\ Len(files'[pane]) \in Nat /\ offset \in Nat /\ logged \in Nat
        /\ \A i \in 1..Len(files[pane]) : files'[pane][i] = files[pane][i]
        /\ files[pane] # <<>> => files'[pane] # <<>>
    BY <1>2, AgentFile DEF HybridTypes, HybridTypeOK, ControllerTypeOK
  <2> QED BY <1>1, <2>1 DEF ReadInv
<1>3. CASE pane = 0
  BY <1>1, <1>3 DEF ReadInv
<1>4. CASE ~AgentActs
  <2>1. UNCHANGED files
    BY <1>4
    DEF Operator, Resolve, PasteNote, EnterNote, NoteFails, note_rest, hybrid_vars, agent_vars
  <2> QED BY <1>1, <2>1 DEF ReadInv
<1> QED BY <1>2, <1>3, <1>4

LEMMA SameHybrid == [HybridNext]_hybrid_vars => hybrid' = hybrid
BY DEF HybridNext, Controller, Split, WaitReady, SkipUpdate, NotReady, Offset, Paste, Enter,
       EnterFails, Capture, Timeout, NoFile, ReadNew, Assess, TakeResult, AgentActs, Boot, Open,
       WriteLine, Flush, Abort, Show, Undisturbed, Operator, Resolve, PasteNote, EnterNote,
       NoteFails, note_rest, hybrid_vars, place_vars

LEMMA ReadHolds == HybridSpec => [](Codex => ReadInv)
<1>1. HybridTypes /\ (Codex => ReadInv) /\ [HybridNext]_hybrid_vars => (Codex => ReadInv)'
  BY ReadControl, ReadOthers, SameHybrid DEF HybridNext, Codex
<1> QED BY ReadInit, HybridTypesHold, <1>1, PTL DEF HybridSpec

(* SafetyFirst, for any number of prompts and any interleaving of controller,
   agent, display and operator: no result but the safety stop is reported from a
   snapshot in which a safety error of the turn stands. *)
THEOREM SafetyFirstHolds == HybridSpec => []SafetyFirst
<1>1. (Codex => ReadInv) => SafetyFirst
  BY DEF ReadInv, SafetyFirst, Codex
<1> QED BY <1>1, ReadHolds, PTL


(***************************************************************************)
(* Codex: whose turns stand in the pane's file.                            *)
(***************************************************************************)

\* A note had a turn of its own in this conversation.
NoteLogged == \E i \in DOMAIN Log : Log[i].turn = NoteTurn

\* A turn is under way and has not said anything yet.
Early == agent = "busy" /\ step \in {"start", "user", "work"}

\* The lines that begin a turn, or tell that it failed.
Decides == {"started", "limit"}

TurnInv ==
    \* A turn that ended is finished for all whose message it had.
    /\ \A i \in DOMAIN Log : Log[i].kind = "end" /\ Log[i].ok /\ Log[i].turn # NoteTurn
                                => Log[i].turn \in finished
    \* Nothing is in the file of a turn before it writes it,
    /\ agent = "busy" /\ step = "start" /\ turn # NoteTurn =>
          \A i \in DOMAIN Log : Log[i].turn # turn
    /\ Early /\ turn # NoteTurn =>
          \A i \in DOMAIN Log : Log[i].turn = turn => Log[i].kind \notin {"limit", "end"}
    \* and its start and its limit, if any, come before its end.
    /\ \A i, j \in DOMAIN Log :
          i < j /\ Log[i].turn = Log[j].turn /\ Log[i].turn # NoteTurn /\ Log[j].kind \in Decides
             => Log[i].kind \notin {"limit", "end"}

\* Turns are no newer than the prompt that was entered last, by whomever.
NewestTurn ==
    IF point \in {"enter", "raised"} /\ "prompt" \notin composer THEN attempt + 1 ELSE attempt

AgeInv ==
    /\ \A i \in DOMAIN Log : Log[i].turn <= NewestTurn \/ Log[i].turn = NoteTurn
    /\ turn <= NewestTurn \/ turn = NoteTurn

\* Lines that were not there when the prompt was sent, or only in half, or are
\* still to be read.
Loose(i) == i > offset \/ i > logged \/ (torn /\ i = Len(Log))
Current  == IF point \in {"paste", "enter"} THEN attempt + 1 ELSE attempt

TurnOver ==
    \E i \in DOMAIN Log : /\ Log[i].turn = attempt /\ Log[i].kind \in {"limit", "end"}
                          /\ torn => i < Len(Log)

AfterInv ==
    \* In a turn, what begins after the offset is the turn of the prompt.
    /\ point \in InTurn /\ ~NoteLogged =>
          /\ \A i \in DOMAIN Log : Loose(i) /\ Log[i].kind \in Decides => Log[i].turn = Current
          /\ Early => turn \in {Current, NoteTurn}
          /\ stop = "rate_limit" => TurnOver
          /\ outcome = "done" =>
                /\ TurnOver
                /\ \E i \in DOMAIN Log : Log[i].turn = attempt /\ Log[i].kind = "end" /\ Log[i].ok
    \* Between turns, nothing of the earlier ones is still to come but their end.
    /\ point \in {"idle", "waiting", "offset"} /\ ~NoteLogged =>
          /\ Early => turn = NoteTurn
          /\ torn /\ Log # <<>> => Log[Len(Log)].kind \notin Decides


(* A line that is written, and by which part of the turn. *)
LEMMA WriteStep ==
    ASSUME HybridTypes, WriteLine
    PROVE  \E e \in Event :
              /\ e.turn = turn /\ Log \in Seq(Event) /\ Log' = Append(Log, e) /\ ~torn
              /\ \/ /\ agent = "busy" /\ step = "start" /\ e.kind = FirstLine
                    /\ agent' = agent /\ step' = (IF Codex THEN "user" ELSE "work")
                    /\ finished' = finished
                 \/ /\ agent = "busy" /\ step = "user" /\ e.kind = "user"
                    /\ agent' = agent /\ step' = "work" /\ finished' = finished
                 \/ /\ agent = "busy" /\ step = "work" /\ e.kind \in Says
                    /\ agent' = agent /\ step' = "more" /\ finished' = finished
                 \/ /\ agent = "busy" /\ step \in {"work", "more"} /\ e.kind = LastLine
                    /\ agent' = "idle"
                    /\ finished' = IF e.ok THEN finished \cup merged ELSE finished
                 \/ /\ agent = "idle" /\ e.kind = "safety"
                    /\ agent' = agent /\ finished' = finished
<1>1. /\ pane # 0 /\ pane \in Files /\ files[pane] \in Seq(Event) /\ pane' = pane /\ ~torn
      /\ turn \in 0..NoteTurn
  BY DEF WriteLine, Undisturbed, HybridTypes, HybridTypeOK, ControllerTypeOK, AgentTypeOK, pane_vars
<1>2. ASSUME NEW kind \in Kinds, NEW ok \in BOOLEAN, Put(kind, ok)
      PROVE  LET e == [kind |-> kind, turn |-> turn, ok |-> ok]
             IN /\ e \in Event /\ e.turn = turn /\ e.kind = kind /\ e.ok = ok /\ Log \in Seq(Event)
                /\ Log' = Append(Log, e)
  BY <1>1, <1>2, PutTypes DEF Log, Event
<1>3. {"started", "user", "end", "answer", "safety"} \subseteq Kinds /\ Says \subseteq Kinds
  BY DEF Kinds, Says
<1>4. FirstLine \in Kinds /\ LastLine \in Kinds
  BY <1>3 DEF FirstLine, LastLine
<1>5. CASE /\ agent = "busy" /\ step = "start" /\ Put(FirstLine, TRUE)
           /\ agent' = agent /\ step' = (IF Codex THEN "user" ELSE "work") /\ finished' = finished
  BY <1>1, <1>2, <1>4, <1>5
<1>6. CASE /\ agent = "busy" /\ step = "user" /\ Put("user", TRUE)
           /\ agent' = agent /\ step' = "work" /\ finished' = finished
  BY <1>1, <1>2, <1>3, <1>6
<1>7. CASE /\ agent = "busy" /\ step = "work" /\ step' = "more" /\ agent' = agent
           /\ finished' = finished /\ \E k \in hybrid.says : Put(k, TRUE)
  <2>1. PICK k \in Says : Put(k, TRUE)
    BY <1>7, HybridFacts DEF HybridTypes
  <2> QED BY <1>1, <1>2, <1>3, <1>7, <2>1
<1>8. CASE /\ agent = "busy" /\ step \in {"work", "more"} /\ agent' = "idle"
           /\ \E ok \in BOOLEAN :
                 Put(LastLine, ok) /\ finished' = IF ok THEN finished \cup merged ELSE finished
  <2>1. PICK ok \in BOOLEAN :
           Put(LastLine, ok) /\ finished' = IF ok THEN finished \cup merged ELSE finished
    BY <1>8
  <2> QED BY <1>1, <1>2, <1>4, <1>8, <2>1
<1>9. CASE agent = "idle" /\ Put("safety", TRUE) /\ agent' = agent /\ finished' = finished
  BY <1>1, <1>2, <1>3, <1>9
<1> QED BY <1>5, <1>6, <1>7, <1>8, <1>9 DEF WriteLine

(* All other steps of the agent: none begins a turn, none adds to one. *)
LEMMA QuietStep ==
    ASSUME HybridTypes, Boot \/ Open \/ Flush \/ Abort \/ Show
    PROVE  /\ turn' = turn /\ finished' = finished /\ composer' = composer
           /\ agent' = "busy" => agent = "busy" /\ step' = step
           /\ torn' => torn
           /\ \/ Log' = Log
              \/ /\ Log = <<>> /\ ~torn
                 /\ Log' = <<[kind |-> "meta", turn |-> 0, ok |-> TRUE]>>
<1>1. pane' = pane /\ (torn /\ pane # 0 => files[pane] # <<>>)
      /\ pane \in {0} \cup Files /\ files \in [Files -> Seq(Event)] /\ torn \in BOOLEAN
  BY DEF Boot, Open, Flush, Abort, Show, Undisturbed, HybridTypes, HybridPlaces, HybridTypeOK,
         ControllerTypeOK, AgentTypeOK, pane_vars
<1>2. CASE Boot \/ Flush \/ Abort \/ Show
  BY <1>1, <1>2 DEF Boot, Flush, Abort, Show, Log
<1>3. CASE Open
  BY <1>1, <1>3 DEF Open, Exists, Log
<1> QED BY <1>2, <1>3

(* A message entered begins a turn, or joins the one there is. *)
LEMMA SubmitStep ==
    ASSUME NEW k, Submit(composer, k)
    PROVE  /\ composer' = {}
           /\ \/ agent' = agent /\ step' = step /\ turn' = turn
              \/ /\ agent' = "busy" /\ step' = "start"
                 /\ turn' = IF "prompt" \in composer THEN k ELSE NoteTurn
BY DEF Submit

(* The steps that concern neither the file nor the turn. *)
LEMMA AsideSteps ==
    ASSUME HybridTypes,
           \/ WaitReady \/ SkipUpdate \/ NotReady \/ Offset \/ Paste \/ EnterFails \/ Capture
           \/ Timeout \/ NoFile \/ ReadNew \/ Assess \/ Resolve \/ PasteNote \/ NoteFails
           \/ UNCHANGED hybrid_vars
    PROVE  /\ UNCHANGED <<Log, step, turn, torn, finished>>
           /\ agent' = agent \/ (agent = "update" /\ agent' = "boot")
BY DEF WaitReady, SkipUpdate, NotReady, Offset, Paste, EnterFails, Capture, Timeout, NoFile,
       ReadNew, Assess, Resolve, PasteNote, NoteFails, note_rest, hybrid_vars, pane_vars,
       agent_vars, Log


LEMMA TurnsInit == HybridInit => TurnInv /\ AgeInv /\ AfterInv
BY DEF HybridInit, TurnInv, AgeInv, AfterInv, NewestTurn, Log, Early, InTurn

(* A new pane, and one that is given up: nothing in the file, no turn. *)
LEMMA EmptyStep ==
    ASSUME HybridTypes,
           \/ Split /\ point' = "waiting"
           \/ TakeResult /\ ResetController
    PROVE  Log' = <<>> /\ agent' # "busy" /\ point' \in {"waiting", "idle"}
<1>1. CASE Split /\ point' = "waiting"
  <2>1. /\ pane' = panes + 1 /\ panes < Attempts /\ files' = files /\ agent' \in hybrid.screens
    BY <1>1 DEF Split, Proceed
  <2>2. panes + 1 \in Files /\ panes + 1 > panes /\ panes + 1 # 0 /\ agent' \in TurnScreens
    BY <2>1, HybridFacts DEF HybridTypes, HybridTypeOK, ControllerTypeOK
  <2> QED BY <1>1, <2>1, <2>2 DEF HybridTypes, HybridPlaces, Log, TurnScreens
<1>2. CASE TakeResult /\ ResetController
  BY <1>2 DEF TakeResult, ResetController, Log, Proceed, pane_vars, HybridTypes, HybridPlaces
<1> QED BY <1>1, <1>2

LEMMA LogType == HybridTypes => Log \in Seq(Event)
BY DEF HybridTypes, HybridTypeOK, ControllerTypeOK, AgentTypeOK, Log

(* The steps that concern neither the file nor the turn preserve TurnInv. *)
LEMMA TurnSame ==
    ASSUME TurnInv, Log' = Log, finished' = finished, turn' = turn,
           agent' = "busy" => agent = "busy" /\ step' = step
    PROVE  TurnInv'
BY DEF TurnInv, Early, NoteTurn

LEMMA TurnEmpty == ASSUME Log' = <<>> PROVE TurnInv'
BY DEF TurnInv

LEMMA TurnSubmit ==
    ASSUME HybridTypes, TurnInv, AgeInv, Submit(composer, attempt + 1), Log' = Log,
           finished' = finished
    PROVE  TurnInv'
<1>1. CASE agent' = agent /\ step' = step /\ turn' = turn
  BY <1>1, TurnSame
<1>2. CASE "prompt" \in composer /\ turn' = attempt + 1 /\ step' = "start"
  <2>1. NewestTurn = attempt /\ attempt \in Nat /\ attempt + 1 < NoteTurn
    BY <1>2, HybridFacts
    DEF HybridTypes, HybridTypeOK, HybridPlaces, ControllerTypeOK, NewestTurn, NoteTurn
  <2>2. \A i \in DOMAIN Log : Log[i].turn # attempt + 1
    <3>1. ASSUME NEW i \in DOMAIN Log PROVE Log[i].turn # attempt + 1
      <4>1. Log[i] \in Event
        BY LogType
      <4>2. Log[i].turn \in Nat /\ (Log[i].turn <= attempt \/ Log[i].turn = NoteTurn)
        BY <2>1, <4>1, HybridFacts DEF AgeInv, Event, NoteTurn, HybridTypes
      <4> QED BY <2>1, <4>2
    <3> QED BY <3>1
  <2> QED BY <1>2, <2>2 DEF TurnInv, Early, NoteTurn
<1>3. CASE turn' = NoteTurn
  BY <1>3 DEF TurnInv, Early, NoteTurn
<1> QED BY <1>1, <1>2, <1>3, SubmitStep

LEMMA TurnWrite == ASSUME HybridTypes, Codex, TurnInv, WriteLine PROVE TurnInv'
<1> DEFINE n == Len(Log) + 1
<1>1. PICK e \in Event :
        /\ e.turn = turn /\ Log \in Seq(Event) /\ Log' = Append(Log, e) /\ ~torn
        /\ \/ /\ agent = "busy" /\ step = "start" /\ e.kind = "started"
              /\ agent' = agent /\ step' = "user" /\ finished' = finished
           \/ /\ agent = "busy" /\ step = "user" /\ e.kind = "user"
              /\ agent' = agent /\ step' = "work" /\ finished' = finished
           \/ /\ agent = "busy" /\ step = "work" /\ e.kind \in Says
              /\ agent' = agent /\ step' = "more" /\ finished' = finished
           \/ /\ agent = "busy" /\ step \in {"work", "more"} /\ e.kind = "end"
              /\ agent' = "idle"
              /\ finished' = IF e.ok THEN finished \cup merged ELSE finished
           \/ /\ agent = "idle" /\ e.kind = "safety"
              /\ agent' = agent /\ finished' = finished
  BY WriteStep DEF FirstLine, LastLine
<1>2. turn' = turn /\ (agent = "busy" /\ turn # NoteTurn => turn \in merged)
  BY DEF WriteLine, HybridTypes, HybridPlaces
<1>3. /\ DOMAIN Log = 1..(n - 1) /\ DOMAIN Log' = 1..n /\ n \in Nat /\ Log'[n] = e
      /\ \A i \in DOMAIN Log : Log'[i] = Log[i]
  BY <1>1
<1>4. \A i \in DOMAIN Log' : Log'[i].kind = "end" /\ Log'[i].ok /\ Log'[i].turn # NoteTurn
                                => Log'[i].turn \in finished'
  BY <1>1, <1>2, <1>3 DEF TurnInv, Says
<1>5. agent' = "busy" => step' # "start"
  BY <1>1
<1>6. Early' /\ turn # NoteTurn =>
         \A i \in DOMAIN Log' : Log'[i].turn = turn => Log'[i].kind \notin {"limit", "end"}
  BY <1>1, <1>3 DEF TurnInv, Early
<1>7. ASSUME NEW i \in DOMAIN Log', NEW j \in DOMAIN Log', i < j,
             Log'[i].turn = Log'[j].turn, Log'[i].turn # NoteTurn, Log'[j].kind \in Decides
      PROVE  Log'[i].kind \notin {"limit", "end"}
  <2>1. i \in DOMAIN Log /\ Log'[i] = Log[i]
    BY <1>3, <1>7
  <2>2. CASE j # n
    BY <1>3, <1>7, <2>1, <2>2 DEF TurnInv
  <2>3. CASE j = n
    BY <1>1, <1>3, <1>7, <2>1, <2>3 DEF TurnInv, Early, Decides, Says
  <2> QED BY <2>2, <2>3
<1> QED BY <1>2, <1>4, <1>5, <1>6, <1>7 DEF TurnInv, NoteTurn, Decides

LEMMA TurnQuiet ==
    ASSUME HybridTypes, TurnInv, Boot \/ Open \/ Flush \/ Abort \/ Show PROVE TurnInv'
<1>1. CASE Log' = Log
  BY <1>1, QuietStep, TurnSame
<1>2. CASE Log' = <<[kind |-> "meta", turn |-> 0, ok |-> TRUE]>>
  <2>1. DOMAIN Log' = {1} /\ Log'[1] = [kind |-> "meta", turn |-> 0, ok |-> TRUE]
    BY <1>2
  <2>2. agent' = "busy" /\ step' = "start" => turn' # 0 \/ turn' = NoteTurn'
    BY QuietStep DEF HybridTypes, HybridPlaces, NoteTurn
  <2>3. \A i, j \in DOMAIN Log' : ~(i < j)
    BY <2>1
  <2> QED BY <2>1, <2>2, <2>3 DEF TurnInv, Early
<1> QED BY <1>1, <1>2, QuietStep

LEMMA TurnStep ==
    ASSUME HybridTypes, Codex, TurnInv, AgeInv, [HybridNext]_hybrid_vars PROVE TurnInv'
<1>1. CASE Split
  <2>1. CASE point' = "waiting"
    BY <1>1, <2>1, EmptyStep, TurnEmpty
  <2>2. CASE point' # "waiting"
    BY <1>1, <2>2, TurnSame DEF Split, Proceed, Log, pane_vars, agent_vars
  <2> QED BY <2>1, <2>2
<1>2. CASE Enter
  BY <1>2, TurnSubmit DEF Enter, Log, pane_vars
<1>3. CASE TakeResult
  <2>1. CASE ResetController
    BY <1>3, <2>1, EmptyStep, TurnEmpty
  <2>2. CASE ~ResetController
    BY <1>3, <2>2, TurnSame DEF TakeResult, Log, pane_vars, agent_vars
  <2> QED BY <2>1, <2>2
<1>4. CASE EnterNote
  BY <1>4, TurnSubmit DEF EnterNote, note_rest, Log, pane_vars
<1>5. CASE \/ WaitReady \/ SkipUpdate \/ NotReady \/ Offset \/ Paste \/ EnterFails \/ Capture
           \/ Timeout \/ NoFile \/ ReadNew \/ Assess \/ Resolve \/ PasteNote \/ NoteFails
           \/ UNCHANGED hybrid_vars
  BY <1>5, AsideSteps, TurnSame
<1> QED BY <1>1, <1>2, <1>3, <1>4, <1>5, TurnWrite, TurnQuiet
        DEF HybridNext, Controller, AgentActs, Operator


(* How old the turns are: AgeInv. *)
LEMMA AgeStep ==
    ASSUME HybridTypes, AgeInv, [HybridNext]_hybrid_vars PROVE AgeInv'
<1>0. /\ attempt \in Nat /\ NewestTurn \in {attempt, attempt + 1} /\ Log \in Seq(Event)
      /\ ("prompt" \in composer => NewestTurn = attempt)
      /\ turn \in Nat /\ NoteTurn \in Nat /\ NoteTurn' = NoteTurn
  <2>1. attempt \in Nat /\ turn \in Nat /\ NoteTurn \in Nat
    BY HybridFacts DEF HybridTypes, HybridTypeOK, ControllerTypeOK, AgentTypeOK, NoteTurn
  <2>2. "prompt" \in composer => NewestTurn = attempt
    BY DEF NewestTurn
  <2> QED BY <2>1, <2>2, LogType DEF NewestTurn, NoteTurn
<1>1. \A i \in DOMAIN Log : Log[i].turn \in Nat
  <2>1. \A e \in Event : e.turn \in Nat
    BY <1>0 DEF Event
  <2> QED BY <1>0, <2>1
\* As long as nothing is written, it is enough that NewestTurn grows.
<1>2. ASSUME Log' = Log, NewestTurn' \in Nat, NewestTurn <= NewestTurn',
             turn' = turn \/ turn' = NoteTurn \/ turn' <= NewestTurn'
      PROVE  AgeInv'
  BY <1>0, <1>1, <1>2 DEF AgeInv
<1>3. CASE Split
  <2>1. CASE point' = "waiting"
    <3>1. Log' = <<>> /\ turn' = 0 /\ NewestTurn' = attempt
      BY <1>3, <2>1, EmptyStep DEF Split, Proceed, NewestTurn, place_vars
    <3> QED BY <1>0, <3>1 DEF AgeInv
  <2>2. CASE point' # "waiting"
    <3>1. /\ point' = "raised" /\ point = "idle"
          /\ UNCHANGED <<pane, files, composer, attempt, agent, turn>>
      BY <1>3, <2>2 DEF Split, Proceed, pane_vars, agent_vars, place_vars
    <3>2. NewestTurn' \in Nat /\ NewestTurn <= NewestTurn'
      BY <1>0, <3>1 DEF NewestTurn
    <3> QED BY <1>2, <3>1, <3>2 DEF Log
  <2> QED BY <2>1, <2>2
<1>4. CASE Enter
  <2>1. /\ point = "enter" /\ point' = "capture" /\ attempt' = attempt + 1 /\ Log' = Log
        /\ Submit(composer, attempt')
    BY <1>4 DEF Enter, Proceed, Log, pane_vars
  <2>2. NewestTurn' = attempt + 1
    BY <2>1 DEF NewestTurn
  <2> QED BY <1>0, <1>2, <2>1, <2>2, SubmitStep
<1>5. CASE EnterNote
  <2>1. Log' = Log /\ Submit(composer, attempt + 1) /\ point' = point /\ attempt' = attempt
    BY <1>5 DEF EnterNote, note_rest, Log, pane_vars, place_vars
  <2>2. /\ NewestTurn' \in {attempt, attempt + 1} /\ NewestTurn <= NewestTurn'
        /\ "prompt" \in composer => NewestTurn' = attempt + 1
    BY <1>0, <2>1, SubmitStep DEF NewestTurn, HybridTypes, HybridPlaces
  <2> QED BY <1>0, <1>2, <2>1, <2>2, SubmitStep
<1>6. CASE TakeResult
  <2>1. CASE ResetController
    <3>1. /\ Log' = <<>> /\ turn' = turn /\ NewestTurn' = attempt
          /\ point = "settle" /\ NewestTurn = attempt
      BY <1>6, <2>1, EmptyStep DEF TakeResult, ResetController, NewestTurn, place_vars
    <3> QED BY <1>0, <3>1 DEF AgeInv
  <2>2. CASE ~ResetController
    <3>1. /\ point = "settle" /\ UNCHANGED <<pane, files, composer, attempt, agent, turn>>
      BY <1>6, <2>2 DEF TakeResult, pane_vars, agent_vars, place_vars
    <3>2. NewestTurn' \in Nat /\ NewestTurn <= NewestTurn'
      BY <1>0, <3>1 DEF NewestTurn
    <3> QED BY <1>2, <3>1, <3>2 DEF Log
  <2> QED BY <2>1, <2>2
<1>7. CASE \/ WaitReady \/ SkipUpdate \/ NotReady \/ Offset \/ Paste \/ EnterFails \/ Capture
           \/ Timeout \/ NoFile \/ ReadNew \/ Assess \/ Resolve \/ PasteNote \/ NoteFails
           \/ UNCHANGED hybrid_vars
  <2>1. Log' = Log /\ turn' = turn
    BY <1>7, AsideSteps
  <2>2. /\ attempt' = attempt
        /\ point' \in {"enter", "raised"} \/ (point \notin {"enter", "raised"})
        /\ point \in {"enter", "raised"} => composer' \subseteq composer \cup {"note"}
    BY <1>7
    DEF WaitReady, SkipUpdate, NotReady, Offset, Paste, EnterFails, Capture, Timeout, NoFile,
        ReadNew, Assess, Resolve, PasteNote, NoteFails, note_rest, hybrid_vars, pane_vars,
        agent_vars, place_vars, Proceed, Typed
  <2>3. NewestTurn' \in Nat /\ NewestTurn <= NewestTurn'
    BY <1>0, <2>2 DEF NewestTurn
  <2> QED BY <1>2, <2>1, <2>3
<1>8. CASE WriteLine
  <2>1. NewestTurn' = NewestTurn /\ turn' = turn
    BY <1>8 DEF WriteLine, Undisturbed, NewestTurn, place_vars
  <2>2. PICK e \in Event : e.turn = turn /\ Log' = Append(Log, e)
    BY <1>8, WriteStep
  <2>3. \A i \in DOMAIN Log' : Log'[i] = e \/ (i \in DOMAIN Log /\ Log'[i] = Log[i])
    BY <1>0, <2>2
  <2> QED BY <1>0, <2>1, <2>2, <2>3 DEF AgeInv
<1>9. CASE Boot \/ Open \/ Flush \/ Abort \/ Show
  <2>1. NewestTurn' = NewestTurn
    BY <1>9 DEF Boot, Open, Flush, Abort, Show, Undisturbed, NewestTurn, place_vars
  <2>2. /\ turn' = turn
        /\ Log' = Log \/ Log' = <<[kind |-> "meta", turn |-> 0, ok |-> TRUE]>>
    BY <1>9, QuietStep
  <2>3. \A i \in DOMAIN Log' : Log'[i].turn = 0 \/ (i \in DOMAIN Log /\ Log'[i] = Log[i])
    BY <2>2
  <2> QED BY <1>0, <2>1, <2>2, <2>3 DEF AgeInv
<1> QED BY <1>3, <1>4, <1>5, <1>6, <1>7, <1>8, <1>9
        DEF HybridNext, Controller, AgentActs, Operator


(***************************************************************************)
(* What follows the offset: AfterInv.  Its two halves, for a state in which*)
(* no note has had a turn.                                                 *)
(***************************************************************************)
InsideInv ==
    /\ \A i \in DOMAIN Log : Loose(i) /\ Log[i].kind \in Decides => Log[i].turn = Current
    /\ Early => turn \in {Current, NoteTurn}
    /\ stop = "rate_limit" => TurnOver
    /\ outcome = "done" =>
          /\ TurnOver
          /\ \E i \in DOMAIN Log : Log[i].turn = attempt /\ Log[i].kind = "end" /\ Log[i].ok

BetweenInv ==
    /\ Early => turn = NoteTurn
    /\ torn /\ Log # <<>> => Log[Len(Log)].kind \notin Decides

LEMMA AfterParts ==
    AfterInv <=> /\ point \in InTurn /\ ~NoteLogged => InsideInv
                 /\ point \in {"idle", "waiting", "offset"} /\ ~NoteLogged => BetweenInv
BY DEF AfterInv, InsideInv, BetweenInv

LEMMA Disjoint == {"idle", "waiting", "offset"} \cap InTurn = {}
BY DEF InTurn

(* A prompt is sent: what comes from here on is its turn. *)
LEMMA AfterOffset ==
    ASSUME HybridTypes, Codex, ReadInv, AfterInv, Offset PROVE AfterInv'
<1>1. /\ point \in {"idle", "offset"} /\ point' = "paste" /\ stop' = "none" /\ outcome' = "none"
      /\ UNCHANGED <<pane, files, agent, step, turn, torn, attempt>> /\ pane # 0
  BY DEF Offset, Proceed, HybridTypes, HybridPlaces, pane_vars, agent_vars, place_vars
<1>2. \E f \in (IF Exists(pane) THEN {pane} ELSE {0}) :
         offset' = (IF f = 0 THEN 0 ELSE Len(files[f])) /\ logged' = offset'
  BY DiscoveredCodex DEF Offset, ReadInv
<1>3. Log' = Log /\ Log = files[pane] /\ Log \in Seq(Event)
  BY <1>1, LogType DEF Log
<1>4. offset' = Len(Log) /\ logged' = Len(Log)
  BY <1>1, <1>2, <1>3 DEF Exists
<1>5. ASSUME ~NoteLogged' PROVE InsideInv'
  <2>1. BetweenInv
    BY <1>1, <1>3, <1>5, AfterParts DEF NoteLogged, NoteTurn
  <2>2. ASSUME NEW i \in DOMAIN Log', Loose(i)' PROVE Log'[i].kind \notin Decides
    <3>1. torn /\ i = Len(Log)
      BY <1>1, <1>3, <1>4, <2>2 DEF Loose
    <3> QED BY <1>3, <2>1, <2>2, <3>1 DEF BetweenInv
  <2>3. Early' => turn' = NoteTurn'
    BY <1>1, <2>1 DEF BetweenInv, Early, NoteTurn
  <2> QED BY <1>1, <2>2, <2>3 DEF InsideInv, Decides
<1> QED BY <1>1, <1>5, AfterParts DEF AfterInv, InsideInv, InTurn

(* A poll finds nothing that is not the prompt's. *)
LEMMA EventsOf ==
    ASSUME NEW s \in Seq(Event), NEW m \in Nat, NEW n \in Nat, n <= Len(s)
    PROVE  /\ \A i \in DOMAIN SubSeq(s, m + 1, n) :
                 /\ i \in Nat /\ i > 0 /\ m + i <= n /\ m + i \in DOMAIN s
                 /\ SubSeq(s, m + 1, n)[i] = s[m + i]
           /\ DOMAIN SubSeq(s, m + 1, n) = 1..Len(SubSeq(s, m + 1, n))
OBVIOUS

LEMMA AfterRead ==
    ASSUME HybridTypes, Codex, ReadInv, AfterInv, ReadNew PROVE AfterInv'
<1>1. /\ point = "read" /\ point' \in {"settle", "capture"} /\ pane # 0 /\ files[pane] # <<>>
      /\ offset' = offset /\ logged' = Readable(pane) /\ stop' = StopAfter(pane, logged, logged')
      /\ UNCHANGED <<pane, files, agent, step, turn, torn, attempt>>
      /\ \/ outcome' = stop'
         \/ outcome' = "done" /\ CodexReady(Events(pane, offset, logged'))
         \/ outcome' = outcome
  BY ReadStep DEF place_vars, pane_vars, agent_vars
<1>2. /\ Log' = Log /\ Log = files[pane] /\ Log \in Seq(Event) /\ Len(Log) \in Nat
      /\ offset \in Nat /\ logged \in Nat /\ torn \in BOOLEAN /\ Current' = attempt
      /\ Current = attempt /\ outcome = "none"
  BY <1>1, LogType
  DEF Log, Current, ReadInv, InTurn, HybridTypes, HybridTypeOK, ControllerTypeOK, AgentTypeOK
<1>3. /\ logged' \in Nat /\ logged' <= Len(Log)
      /\ \A i \in 1..Len(Log) : i > logged' => torn /\ i = Len(Log)
      /\ torn => logged' = Len(Log) - 1
  <2>1. Len(Log) > 0
    BY <1>1, <1>2
  <2>2. CASE torn
    BY <1>1, <1>2, <2>1, <2>2 DEF Readable, Incomplete
  <2>3. CASE ~torn
    BY <1>1, <1>2, <2>1, <2>3 DEF Readable, Incomplete
  <2> QED BY <2>2, <2>3
<1>4. ASSUME ~NoteLogged' PROVE InsideInv'
  <2>1. InsideInv
    BY <1>1, <1>2, <1>4, AfterParts DEF NoteLogged, InTurn, NoteTurn
  <2>2. ASSUME NEW i \in DOMAIN Log, Loose(i) \/ Loose(i)', Log[i].kind \in Decides
        PROVE  Log[i].turn = attempt
    <3>1. Loose(i)
      BY <1>1, <1>2, <1>3, <2>2 DEF Loose
    <3> QED BY <1>2, <2>1, <2>2, <3>1 DEF InsideInv
  <2>3. stop' = "rate_limit" => TurnOver'
    <3>1. CASE stop = "rate_limit"
      BY <1>1, <1>2, <2>1, <3>1 DEF InsideInv, TurnOver
    <3>2. CASE stop # "rate_limit" /\ stop' = "rate_limit"
      <4>1. PICK i \in (logged + 1)..logged' : Signal(pane, i) = "rate_limit"
        BY <1>1, <3>2 DEF StopAfter
      <4>2. i \in DOMAIN Log /\ Loose(i) /\ Log[i].kind = "limit" /\ (torn => i < Len(Log))
        BY <1>2, <1>3, <4>1 DEF Signal, Loose
      <4>3. Log[i].turn = attempt
        BY <2>2, <4>2 DEF Decides
      <4> QED BY <1>1, <1>2, <4>2, <4>3 DEF TurnOver
    <3> QED BY <3>1, <3>2
  <2>4. ASSUME outcome' = "done"
        PROVE  \E j \in DOMAIN Log : /\ Log[j].turn = attempt /\ Log[j].kind = "end" /\ Log[j].ok
                                     /\ torn => j < Len(Log)
    <3> DEFINE evs == SubSeq(Log, offset + 1, logged')
    <3>1. /\ \A i \in DOMAIN evs : /\ i \in Nat /\ i > 0 /\ offset + i <= logged'
                                   /\ offset + i \in DOMAIN Log /\ evs[i] = Log[offset + i]
          /\ DOMAIN evs = 1..Len(evs)
      BY <1>2, <1>3, EventsOf
    <3> HIDE DEF evs
    <3>2. TurnCompleted(evs)
      BY <1>1, <1>2, <2>4, StopKinds DEF CodexReady, Events, evs
    <3>3. PICK i \in DOMAIN evs : \E k \in (i + 1)..Len(evs) :
             /\ evs[i].kind = "started" /\ evs[k].kind = "end"
             /\ evs[k].turn = evs[i].turn /\ evs[k].ok
      BY <3>2 DEF TurnCompleted
    <3>4. PICK k \in (i + 1)..Len(evs) :
             /\ evs[i].kind = "started" /\ evs[k].kind = "end"
             /\ evs[k].turn = evs[i].turn /\ evs[k].ok
      BY <3>3
    <3>5. /\ offset + i \in DOMAIN Log /\ evs[i] = Log[offset + i] /\ i \in Nat /\ i > 0
      BY <3>3, <3>1
    <3>6. k \in DOMAIN evs
      BY <3>4, <3>5, <3>1
    <3>7. /\ offset + k \in DOMAIN Log /\ evs[k] = Log[offset + k] /\ offset + k <= logged'
      BY <3>6, <3>1
    <3>8. Log[offset + i].turn = attempt
      <4>1. Loose(offset + i)
        BY <1>2, <3>5 DEF Loose
      <4> QED BY <2>2, <3>4, <3>5, <4>1 DEF Decides
    <3> QED BY <1>2, <1>3, <3>4, <3>5, <3>7, <3>8
  <2>5. Early' => turn' \in {Current', NoteTurn'}
    BY <1>1, <1>2, <2>1 DEF InsideInv, Early, NoteTurn
  <2>6. outcome' = "done" =>
          /\ TurnOver'
          /\ \E i \in DOMAIN Log' : Log'[i].turn = attempt' /\ Log'[i].kind = "end" /\ Log'[i].ok
    BY <1>1, <1>2, <2>4 DEF TurnOver
  <2> QED BY <1>1, <1>2, <2>2, <2>3, <2>5, <2>6 DEF InsideInv, Decides
<1> QED BY <1>1, <1>4, AfterParts DEF AfterInv, InsideInv, InTurn


(* The steps that leave what is read, and the turn, as they are. *)
LEMMA AfterSame ==
    ASSUME AfterInv, UNCHANGED <<Log, offset, logged, stop, attempt>>, torn' => torn,
           Current' = Current \/ point' = "raised", outcome' # "done" \/ outcome' = outcome,
           Early' => Early /\ turn' = turn,
           \/ point \in InTurn /\ point' \in InTurn
           \/ point \in {"idle", "waiting", "offset"} /\ point' \in {"idle", "waiting", "offset"}
           \/ point' \in {"over", "raised", "assess"}
    PROVE  AfterInv'
<1>1. /\ NoteLogged' = NoteLogged /\ NoteTurn' = NoteTurn
      /\ \A i : Loose(i)' => Loose(i)
      /\ TurnOver => TurnOver'
  BY DEF NoteLogged, NoteTurn, Loose, TurnOver
<1>2. InsideInv /\ Current' = Current => InsideInv'
  BY <1>1 DEF InsideInv
<1>3. BetweenInv => BetweenInv'
  BY <1>1 DEF BetweenInv
<1> QED BY <1>1, <1>2, <1>3, AfterParts, Disjoint DEF AfterInv, InsideInv, BetweenInv, InTurn

(* A message is entered. *)
LEMMA AfterSubmit ==
    ASSUME HybridTypes, Codex, ReadInv, AfterInv, Enter \/ EnterNote PROVE AfterInv'
<1>1. /\ UNCHANGED <<pane, files, torn, offset, logged, stop, outcome>>
      /\ Submit(composer, attempt + 1)
      /\ \/ point = "enter" /\ point' = "capture" /\ attempt' = attempt + 1
         \/ point' = point /\ attempt' = attempt
  BY DEF Enter, EnterNote, note_rest, Proceed, place_vars, pane_vars, poll_vars
<1>2. /\ Log' = Log /\ Current' = Current /\ NoteTurn' = NoteTurn /\ NoteLogged' = NoteLogged
      /\ point \in InTurn <=> point' \in InTurn
      /\ point \in {"idle", "waiting", "offset"} <=> point' \in {"idle", "waiting", "offset"}
  BY <1>1 DEF Log, Current, NoteTurn, NoteLogged, InTurn
<1>3. /\ point \in {"idle", "waiting", "offset"} => "prompt" \notin composer
      /\ "prompt" \in composer /\ point \in InTurn => Current = attempt + 1
      /\ point = "enter" => stop = "none" /\ outcome = "none"
  BY DEF HybridTypes, HybridPlaces, Current, InTurn, ReadInv
<1>4. Early' => \/ Early /\ turn' = turn
                \/ turn' = IF "prompt" \in composer THEN attempt + 1 ELSE NoteTurn
  BY <1>1, SubmitStep DEF Early
<1>5. ASSUME point \in InTurn, InsideInv PROVE InsideInv'
  <2>1. Early' => turn' \in {Current', NoteTurn'}
    BY <1>2, <1>3, <1>4, <1>5 DEF InsideInv
  <2>2. \A i : Loose(i)' = Loose(i)
    BY <1>1, <1>2 DEF Loose
  <2>3. (stop = "rate_limit" \/ outcome = "done") /\ TurnOver => TurnOver' /\ attempt' = attempt
    BY <1>1, <1>2, <1>3 DEF TurnOver
  <2> QED BY <1>1, <1>2, <1>5, <2>1, <2>2, <2>3 DEF InsideInv
<1>6. ASSUME point \in {"idle", "waiting", "offset"}, BetweenInv PROVE BetweenInv'
  BY <1>1, <1>2, <1>3, <1>4, <1>6 DEF BetweenInv
<1> QED BY <1>2, <1>5, <1>6, AfterParts DEF AfterInv, InsideInv, BetweenInv

(* run_loop goes on in the same pane: the turn of the prompt has spoken. *)
LEMMA AfterResult ==
    ASSUME HybridTypes, Codex, ReadInv, TurnInv, AfterInv, TakeResult PROVE AfterInv'
<1>1. CASE ResetController
  BY <1>1, EmptyStep DEF AfterInv, NoteLogged, Early, InTurn
<1>2. CASE ~ResetController
  <2>1. /\ point = "settle" /\ UNCHANGED <<pane, files, agent, step, turn, torn, attempt>>
        /\ \/ point' \in {"over", "raised"}
           \/ point' = "idle" /\ outcome \in {"done", "rate_limit"}
    BY <1>2 DEF TakeResult, Proceed, pane_vars, agent_vars, place_vars
  <2>2. Log' = Log /\ NoteLogged' = NoteLogged /\ Log \in Seq(Event) /\ NoteTurn' = NoteTurn
    BY <2>1, LogType DEF Log, NoteLogged, NoteTurn
  <2>3. CASE point' \in {"over", "raised"}
    BY <2>3 DEF AfterInv, InTurn
  <2>4. CASE point' = "idle" /\ outcome \in {"done", "rate_limit"}
    <3>1. ASSUME ~NoteLogged PROVE BetweenInv'
      <4>1. InsideInv /\ TurnOver /\ Current = attempt /\ attempt # NoteTurn
        BY <2>1, <2>4, <3>1, AfterParts, HybridFacts
        DEF InTurn, InsideInv, ReadInv, Current, NoteTurn, HybridTypes, HybridTypeOK,
            ControllerTypeOK
      <4>2. PICK k \in DOMAIN Log : /\ Log[k].turn = attempt /\ Log[k].kind \in {"limit", "end"}
                                    /\ torn => k < Len(Log)
        BY <4>1 DEF TurnOver
      <4>3. Early => turn = NoteTurn
        BY <4>1, <4>2 DEF InsideInv, TurnInv
      <4>4. ASSUME torn, Log # <<>> PROVE Log[Len(Log)].kind \notin Decides
        <5>1. Len(Log) \in DOMAIN Log /\ Loose(Len(Log)) /\ k < Len(Log)
          BY <2>2, <4>2, <4>4 DEF Loose
        <5>2. Log[Len(Log)].kind \in Decides => Log[Len(Log)].turn = attempt
          BY <4>1, <5>1 DEF InsideInv
        <5> QED BY <4>1, <4>2, <5>1, <5>2 DEF TurnInv
      <4> QED BY <2>1, <2>2, <4>3, <4>4 DEF BetweenInv, Early, Decides
    <3> QED BY <2>2, <2>4, <3>1, AfterParts DEF AfterInv, BetweenInv, InTurn
  <2> QED BY <2>1, <2>3, <2>4
<1> QED BY <1>1, <1>2

(* The turn goes on. *)
LEMMA AfterWrite ==
    ASSUME HybridTypes, Codex, AfterInv, WriteLine PROVE AfterInv'
<1>1. /\ UNCHANGED <<point, offset, logged, stop, outcome, attempt, turn>>
  BY DEF WriteLine, Undisturbed, place_vars, poll_vars
<1>2. PICK e \in Event :
         /\ e.turn = turn /\ Log \in Seq(Event) /\ Log' = Append(Log, e) /\ ~torn
         /\ e.kind \in Decides => Early
         /\ Early' => Early
  BY WriteStep DEF FirstLine, LastLine, Early, Decides, Says
<1> DEFINE n == Len(Log) + 1
<1>3. /\ DOMAIN Log = 1..(n - 1) /\ DOMAIN Log' = 1..n /\ n \in Nat /\ Len(Log') = n /\ Log'[n] = e
      /\ \A i \in DOMAIN Log : Log'[i] = Log[i]
  BY <1>2
<1>4. /\ Current' = Current /\ NoteTurn' = NoteTurn
      /\ ~NoteLogged' => ~NoteLogged /\ e.turn # NoteTurn
      /\ \A i \in DOMAIN Log : Loose(i)' => Loose(i)
      /\ TurnOver => TurnOver'
  <2>1. ~NoteLogged' => ~NoteLogged /\ e.turn # NoteTurn
    BY <1>3 DEF NoteLogged, NoteTurn
  <2>2. \A i \in DOMAIN Log : Loose(i)' => Loose(i)
    BY <1>1, <1>3 DEF Loose
  <2>3. TurnOver => TurnOver'
    BY <1>1, <1>3 DEF TurnOver
  <2> QED BY <1>1, <2>1, <2>2, <2>3 DEF Current, NoteTurn
<1> HIDE DEF n
<1>5. ASSUME ~NoteLogged', InsideInv PROVE InsideInv'
  <2>1. ASSUME NEW i \in DOMAIN Log', Loose(i)', Log'[i].kind \in Decides
        PROVE  Log'[i].turn = Current
    <3>1. CASE i \in DOMAIN Log
      BY <1>3, <1>4, <1>5, <2>1, <3>1 DEF InsideInv
    <3>2. CASE i = n
      BY <1>2, <1>3, <1>4, <1>5, <2>1, <3>2 DEF InsideInv
    <3> QED BY <1>3, <2>1, <3>1, <3>2
  <2>2. outcome = "done" =>
           \E i \in DOMAIN Log' : Log'[i].turn = attempt /\ Log'[i].kind = "end" /\ Log'[i].ok
    BY <1>3, <1>5 DEF InsideInv
  <2> QED BY <1>1, <1>2, <1>4, <1>5, <2>1, <2>2 DEF InsideInv, Decides
<1>6. ASSUME ~NoteLogged', BetweenInv PROVE BetweenInv'
  BY <1>1, <1>2, <1>3, <1>4, <1>6 DEF BetweenInv, Decides
<1> QED BY <1>1, <1>4, <1>5, <1>6, AfterParts DEF AfterInv, InsideInv, BetweenInv

LEMMA AfterQuiet ==
    ASSUME HybridTypes, AfterInv, Boot \/ Open \/ Flush \/ Abort \/ Show PROVE AfterInv'
<1>1. /\ UNCHANGED <<point, offset, logged, stop, outcome, attempt, turn>> /\ Current' = Current
  BY QuietStep
  DEF Boot, Open, Flush, Abort, Show, Undisturbed, place_vars, poll_vars, Current
<1>2. Early' => Early
  BY QuietStep DEF Early
<1>3. CASE Log' = Log
  <2>1. \/ point \in InTurn \cup {"idle", "waiting", "offset"}
        \/ point \in {"over", "raised", "assess"}
    BY DEF HybridTypes, HybridTypeOK, ControllerTypeOK, TurnPoints, InTurn
  <2> QED BY <1>1, <1>2, <1>3, <2>1, QuietStep, AfterSame
<1>4. CASE Log = <<>> /\ ~torn /\ Log' = <<[kind |-> "meta", turn |-> 0, ok |-> TRUE]>>
  <2>1. /\ DOMAIN Log' = {1} /\ Log'[1].kind = "meta" /\ ~torn' /\ DOMAIN Log = {}
    BY <1>4, QuietStep
  <2>2. /\ ~NoteLogged /\ ~TurnOver /\ "meta" \notin Decides
        /\ Decides' = Decides /\ NoteTurn' = NoteTurn
    BY <2>1 DEF NoteLogged, TurnOver, Decides, NoteTurn
  <2>3. InsideInv => InsideInv'
    BY <1>1, <1>2, <2>1, <2>2 DEF InsideInv
  <2>4. BetweenInv => BetweenInv'
    BY <1>1, <1>2, <2>1, <2>2 DEF BetweenInv
  <2> QED BY <1>1, <2>2, <2>3, <2>4, AfterParts DEF AfterInv, InsideInv, BetweenInv
<1> QED BY <1>3, <1>4, QuietStep

LEMMA AfterStep ==
    ASSUME HybridTypes, Codex, ReadInv, TurnInv, AfterInv, [HybridNext]_hybrid_vars
    PROVE  AfterInv'
<1>1. CASE Split
  <2>1. CASE point' = "waiting"
    BY <1>1, <2>1, EmptyStep DEF AfterInv, NoteLogged, Early, InTurn
  <2>2. CASE point' # "waiting"
    BY <1>1, <2>2 DEF Split, Proceed, AfterInv, InTurn
  <2> QED BY <2>1, <2>2
<1>2. CASE \/ WaitReady \/ SkipUpdate \/ NotReady \/ Paste \/ EnterFails \/ Capture \/ Timeout
           \/ NoFile \/ Assess \/ Resolve \/ PasteNote \/ NoteFails \/ UNCHANGED hybrid_vars
  <2>1. UNCHANGED <<Log, step, turn, torn>> /\ (Early' => Early)
    BY <1>2, AsideSteps DEF Early
  <2>2. /\ UNCHANGED <<offset, logged, stop, attempt>>
        /\ Current' = Current \/ point' = "raised"
        /\ outcome' # "done" \/ outcome' = outcome
        /\ \/ point \in InTurn /\ point' \in InTurn
           \/ point \in {"idle", "waiting", "offset"} /\ point' \in {"idle", "waiting", "offset"}
           \/ point' \in {"over", "raised", "assess"}
    <3>1. CASE WaitReady \/ SkipUpdate \/ NotReady
      BY <3>1 DEF WaitReady, SkipUpdate, NotReady, Proceed, Current, place_vars, poll_vars
    <3>2. CASE Paste \/ EnterFails
      BY <3>2 DEF Paste, EnterFails, Proceed, Current, InTurn, place_vars, poll_vars
    <3>3. CASE Capture \/ NoFile \/ Timeout
      BY <3>3 DEF Capture, NoFile, Timeout, Proceed, Current, InTurn, ReadInv, place_vars
    <3>4. CASE Assess
      BY <3>4 DEF Assess, ReadInv
    <3>5. CASE Resolve \/ PasteNote \/ NoteFails \/ UNCHANGED hybrid_vars
      BY <3>5
      DEF Resolve, PasteNote, NoteFails, note_rest, hybrid_vars, Current, InTurn, TurnPoints,
          HybridTypes, HybridTypeOK, ControllerTypeOK, place_vars, poll_vars
    <3> QED BY <1>2, <3>1, <3>2, <3>3, <3>4, <3>5
  <2> QED BY <2>1, <2>2, AfterSame
<1> QED BY <1>1, <1>2, AfterOffset, AfterRead, AfterSubmit, AfterResult, AfterWrite, AfterQuiet
        DEF HybridNext, Controller, AgentActs, Operator

LEMMA TurnsHold == HybridSpec => [](Codex => ReadInv /\ TurnInv /\ AgeInv /\ AfterInv)
<1>1. /\ HybridTypes /\ (Codex => ReadInv)
      /\ (Codex => TurnInv /\ AgeInv /\ AfterInv) /\ [HybridNext]_hybrid_vars
      => (Codex => TurnInv /\ AgeInv /\ AfterInv)'
  BY TurnStep, AgeStep, AfterStep, SameHybrid DEF Codex
<1> QED BY TurnsInit, HybridTypesHold, ReadHolds, <1>1, PTL DEF HybridSpec

(* DoneMeansFinished, for any number of prompts, panes and notes, whatever is seen
   half written or late: a Codex turn reported done has ended successfully in a
   turn that had its prompt, or a note had a turn of its own in the conversation. *)
THEOREM DoneMeansFinishedHolds == HybridSpec => []DoneMeansFinished
<1>1. ASSUME HybridTypes, Codex => ReadInv /\ TurnInv /\ AgeInv /\ AfterInv
      PROVE  DoneMeansFinished
  <2>1. SUFFICES ASSUME Codex, point = "settle", outcome = "done"
                 PROVE  \/ attempt \in finished
                        \/ \E i \in DOMAIN files[path] : files[path][i].turn = NoteTurn
    BY DEF DoneMeansFinished, Codex
  <2>2. path = pane /\ pane # 0 /\ Log = files[path]
    BY <1>1, <2>1 DEF ReadInv, Log
  <2>3. CASE ~NoteLogged
    <3>1. \E i \in DOMAIN Log : Log[i].turn = attempt /\ Log[i].kind = "end" /\ Log[i].ok
      BY <1>1, <2>1, <2>3, AfterParts DEF InsideInv, InTurn
    <3>2. attempt # NoteTurn
      BY <1>1, HybridFacts DEF HybridTypes, HybridTypeOK, ControllerTypeOK, NoteTurn
    <3> QED BY <1>1, <2>1, <3>1, <3>2 DEF TurnInv
  <2> QED BY <2>2, <2>3 DEF NoteLogged
<1> QED BY <1>1, HybridTypesHold, TurnsHold, PTL


(***************************************************************************)
(* Both agents: a finished turn is noticed.                                *)
(***************************************************************************)
Polling == InTurn \cup {"assess"}
Ends    == {"end", "answer"}

\* The turns in a file follow one another, and each has its order.
OrderInv ==
    /\ \A i \in DOMAIN Log : Log[i].turn <= turn \/ Log[i].turn = NoteTurn
    /\ turn # NoteTurn =>
          \A i, j \in DOMAIN Log : i < j /\ Log[i].turn = turn => Log[j].turn = turn
    /\ agent = "busy" /\ turn # NoteTurn =>
          \A i \in DOMAIN Log : Log[i].turn = turn => step # "start" /\ Log[i].kind \notin Ends
    /\ \A i, j \in DOMAIN Log :
          i < j /\ Log[i].turn = Log[j].turn /\ Log[i].turn # NoteTurn =>
             Log[j].kind # "started" /\ (Log[i].kind \in Ends => Log[j].kind = "safety")

\* The prompt's turn stands after the offset.
OffsetInv ==
    /\ path # 0 => files[path] # <<>>
    /\ point = "assess" => path # 0
    /\ point \in Polling /\ path = 0 => offset = 0
    /\ point \in Polling /\ path = pane =>
          /\ offset <= Len(Log)
          /\ \A i \in DOMAIN Log : i <= offset => Log[i].turn # Current

\* The attempt's own turn has a line of this kind.
Wrote(kind) == \E i \in DOMAIN Log : Log[i].turn = attempt /\ Log[i].kind = kind /\ Log[i].ok

DueInv ==
    point \in {"read", "assess"} /\ due /\ turn # NoteTurn =>
    /\ agent = "idle" /\ shot = "READY" /\ turn = attempt /\ pane # 0
    /\ Wrote("user") /\ Wrote(LastLine)
    /\ Codex => Wrote("started") /\ Wrote("assistant")
    /\ point = "assess" => path = pane


LEMMA NoticeInit == HybridInit => OrderInv /\ OffsetInv /\ DueInv
BY DEF HybridInit, OrderInv, OffsetInv, DueInv, Polling, InTurn, Log

(* Turns follow one another: OrderInv. *)
LEMMA OrderSame ==
    ASSUME OrderInv, Log' = Log, turn' = turn, agent' = "busy" => agent = "busy" /\ step' = step
    PROVE  OrderInv'
BY DEF OrderInv, Ends, NoteTurn

LEMMA OrderEmpty == ASSUME Log' = <<>> PROVE OrderInv'
BY DEF OrderInv

LEMMA OrderSubmit ==
    ASSUME HybridTypes, OrderInv, AgeInv, Submit(composer, attempt + 1), Log' = Log
    PROVE  OrderInv'
<1>1. CASE agent' = agent /\ step' = step /\ turn' = turn
  BY <1>1, OrderSame
<1>2. CASE "prompt" \in composer /\ turn' = attempt + 1 /\ step' = "start"
  <2>1. NewestTurn = attempt /\ attempt \in Nat /\ attempt + 1 < NoteTurn
    BY <1>2, HybridFacts
    DEF HybridTypes, HybridTypeOK, HybridPlaces, ControllerTypeOK, NewestTurn, NoteTurn
  <2>2. ASSUME NEW i \in DOMAIN Log
        PROVE  Log[i].turn # attempt + 1 /\ (Log[i].turn <= attempt + 1 \/ Log[i].turn = NoteTurn)
    <3>1. Log[i] \in Event
      BY LogType
    <3>2. Log[i].turn \in Nat /\ (Log[i].turn <= attempt \/ Log[i].turn = NoteTurn)
      BY <2>1, <3>1, HybridFacts DEF AgeInv, Event, NoteTurn, HybridTypes
    <3> QED BY <2>1, <3>2
  <2> QED BY <1>2, <2>2 DEF OrderInv, Ends, NoteTurn
<1>3. CASE turn' = NoteTurn
  <2>1. ASSUME NEW i \in DOMAIN Log PROVE Log[i].turn <= NoteTurn
    <3>1. Log[i] \in Event
      BY LogType
    <3> QED BY <3>1, HybridFacts DEF Event, NoteTurn, HybridTypes
  <2> QED BY <1>3, <2>1 DEF OrderInv, Ends, NoteTurn
<1> QED BY <1>1, <1>2, <1>3, SubmitStep

LEMMA OrderWrite == ASSUME HybridTypes, OrderInv, WriteLine PROVE OrderInv'
<1> DEFINE n == Len(Log) + 1
<1>1. PICK e \in Event :
         /\ e.turn = turn /\ Log \in Seq(Event) /\ Log' = Append(Log, e)
         /\ \/ /\ agent = "busy" /\ agent' = agent /\ step' # "start"
               /\ e.kind \notin Ends /\ (e.kind = "started" => step = "start")
            \/ /\ agent = "busy" /\ agent' = "idle" /\ e.kind # "started"
            \/ /\ agent = "idle" /\ agent' = agent /\ e.kind = "safety"
  BY WriteStep DEF Ends, Says, FirstLine, LastLine
<1>2. /\ DOMAIN Log = 1..(n - 1) /\ DOMAIN Log' = 1..n /\ n \in Nat /\ Log'[n] = e
      /\ \A i \in DOMAIN Log : Log'[i] = Log[i]
  BY <1>1
<1>3. turn' = turn /\ turn \in Nat /\ NoteTurn' = NoteTurn
  BY HybridFacts DEF WriteLine, HybridTypes, HybridTypeOK, AgentTypeOK, NoteTurn
<1> HIDE DEF n
<1>4. \A i \in DOMAIN Log' : Log'[i].turn <= turn \/ Log'[i].turn = NoteTurn
  BY <1>1, <1>2, <1>3 DEF OrderInv
<1>5. ASSUME turn # NoteTurn, NEW i \in DOMAIN Log', NEW j \in DOMAIN Log', i < j,
             Log'[i].turn = turn
      PROVE  Log'[j].turn = turn
  BY <1>1, <1>2, <1>5 DEF OrderInv
<1>6. ASSUME agent' = "busy", turn # NoteTurn, NEW i \in DOMAIN Log', Log'[i].turn = turn
      PROVE  step' # "start" /\ Log'[i].kind \notin Ends
  BY <1>1, <1>2, <1>6 DEF OrderInv
<1>7. ASSUME NEW i \in DOMAIN Log', NEW j \in DOMAIN Log', i < j,
             Log'[i].turn = Log'[j].turn, Log'[i].turn # NoteTurn
      PROVE  Log'[j].kind # "started" /\ (Log'[i].kind \in Ends => Log'[j].kind = "safety")
  <2>1. i \in DOMAIN Log /\ Log'[i] = Log[i]
    BY <1>2, <1>7
  <2>2. CASE j # n
    BY <1>2, <1>7, <2>1, <2>2 DEF OrderInv
  <2>3. CASE j = n
    BY <1>1, <1>2, <1>7, <2>1, <2>3 DEF OrderInv
  <2> QED BY <2>2, <2>3
<1> QED BY <1>3, <1>4, <1>5, <1>6, <1>7 DEF OrderInv, Ends

LEMMA OrderQuiet ==
    ASSUME HybridTypes, OrderInv, Boot \/ Open \/ Flush \/ Abort \/ Show PROVE OrderInv'
<1>1. CASE Log' = Log
  BY <1>1, QuietStep, OrderSame
<1>2. CASE Log' = <<[kind |-> "meta", turn |-> 0, ok |-> TRUE]>>
  <2>1. /\ DOMAIN Log' = {1} /\ Log'[1] = [kind |-> "meta", turn |-> 0, ok |-> TRUE]
        /\ turn' \in Nat
    BY <1>2, QuietStep, HybridFacts DEF HybridTypes, HybridTypeOK, AgentTypeOK, NoteTurn
  <2>2. agent' = "busy" => turn' # 0 \/ turn' = NoteTurn'
    BY QuietStep DEF HybridTypes, HybridPlaces, NoteTurn
  <2>3. \A i, j \in DOMAIN Log' : ~(i < j)
    BY <2>1
  <2> QED BY <2>1, <2>2, <2>3 DEF OrderInv
<1> QED BY <1>1, <1>2, QuietStep

LEMMA OrderStep ==
    ASSUME HybridTypes, OrderInv, AgeInv, [HybridNext]_hybrid_vars PROVE OrderInv'
<1>1. CASE Split
  <2>1. CASE point' = "waiting"
    BY <1>1, <2>1, EmptyStep, OrderEmpty
  <2>2. CASE point' # "waiting"
    BY <1>1, <2>2, OrderSame DEF Split, Proceed, Log, pane_vars, agent_vars
  <2> QED BY <2>1, <2>2
<1>2. CASE Enter
  BY <1>2, OrderSubmit DEF Enter, Log, pane_vars
<1>3. CASE TakeResult
  <2>1. CASE ResetController
    BY <1>3, <2>1, EmptyStep, OrderEmpty
  <2>2. CASE ~ResetController
    BY <1>3, <2>2, OrderSame DEF TakeResult, Log, pane_vars, agent_vars
  <2> QED BY <2>1, <2>2
<1>4. CASE EnterNote
  BY <1>4, OrderSubmit DEF EnterNote, note_rest, Log, pane_vars
<1>5. CASE \/ WaitReady \/ SkipUpdate \/ NotReady \/ Offset \/ Paste \/ EnterFails \/ Capture
           \/ Timeout \/ NoFile \/ ReadNew \/ Assess \/ Resolve \/ PasteNote \/ NoteFails
           \/ UNCHANGED hybrid_vars
  BY <1>5, AsideSteps, OrderSame
<1> QED BY <1>1, <1>2, <1>3, <1>4, <1>5, OrderWrite, OrderQuiet
        DEF HybridNext, Controller, AgentActs, Operator


(* What the offset is worth: OffsetInv. *)
LEMMA OffsetSame ==
    ASSUME OffsetInv, UNCHANGED <<path, pane, offset, Log, files>>,
           point' = "assess" => point = "assess",
           point' \in Polling => point \in Polling /\ Current' = Current
    PROVE  OffsetInv'
BY DEF OffsetInv, Polling, InTurn

LEMMA OffsetSend ==
    ASSUME HybridTypes, AgeInv, OffsetInv, Offset PROVE OffsetInv'
<1>1. PICK f \in Discovered :
         path' = f /\ offset' = IF f = 0 THEN 0 ELSE Len(files[f])
  BY DEF Offset
<1>2. /\ point \in {"idle", "offset"} /\ point' = "paste" /\ pane # 0
      /\ UNCHANGED <<pane, files, attempt>> /\ attempt \in Nat
      /\ attempt + 1 \in Nat /\ attempt + 1 < NoteTurn
  BY HybridFacts
  DEF Offset, Proceed, HybridTypes, HybridPlaces, HybridTypeOK, ControllerTypeOK, NoteTurn,
      pane_vars, agent_vars, place_vars
<1>3. f # 0 => files[f] # <<>>
  BY <1>1 DEF Discovered, Newest, Candidates, Exists, OffsetInv
<1>4. Log' = Log /\ Log = files[pane] /\ Log \in Seq(Event) /\ NewestTurn = attempt
      /\ Current' = attempt + 1
  BY <1>2, LogType DEF Log, NewestTurn, Current
<1>5. ASSUME NEW i \in DOMAIN Log PROVE Log[i].turn # attempt + 1
  <2>1. Log[i].turn \in Nat
    <3>1. Log[i] \in Event
      BY <1>4
    <3> QED BY <3>1, HybridFacts DEF Event, NoteTurn, HybridTypes
  <2> QED BY <1>2, <1>4, <2>1 DEF AgeInv
<1>6. path' = pane' => offset' <= Len(Log')
  BY <1>1, <1>2, <1>4
<1> QED BY <1>1, <1>2, <1>3, <1>4, <1>5, <1>6 DEF OffsetInv

LEMMA OffsetRead ==
    ASSUME HybridTypes, OffsetInv, ReadNew PROVE OffsetInv'
<1>1. PICK found \in Discovered : \E f \in Recent(found) \ {0} :
         path' = f /\ offset' = IF f = found THEN offset ELSE 0
  BY DEF ReadNew
<1>2. PICK f \in Recent(found) \ {0} : path' = f /\ offset' = IF f = found THEN offset ELSE 0
  BY <1>1
<1>3. /\ point = "read" /\ UNCHANGED <<pane, files, attempt>> /\ pane # 0
      /\ point' \in {"settle", "assess", "capture"}
  BY DEF ReadNew, Proceed, HybridTypes, HybridPlaces, pane_vars, agent_vars, place_vars
<1>4. files[f] # <<>> /\ f # 0 /\ (Exists(path) => found = path)
  BY <1>1, <1>2 DEF Discovered, Recent, Newest, Candidates, Exists
<1>5. Log' = Log /\ Log \in Seq(Event) /\ Current' = Current /\ offset \in Nat
  BY <1>3, LogType DEF Log, Current, HybridTypes, HybridTypeOK, ControllerTypeOK
\* The file is the one known before, or it is read from its beginning.
<1>6. f = path \/ offset' = 0
  BY <1>2, <1>3, <1>4 DEF Exists, OffsetInv, Polling, InTurn
<1>7. \A i \in DOMAIN Log : i > 0
  BY <1>5
<1>8. CASE offset' = 0
  BY <1>2, <1>3, <1>4, <1>5, <1>7, <1>8 DEF OffsetInv
<1>9. CASE f = path /\ offset' = offset
  BY <1>2, <1>3, <1>4, <1>5, <1>9 DEF OffsetInv, Polling, InTurn
<1> QED BY <1>2, <1>6, <1>8, <1>9

LEMMA OffsetAgent == ASSUME HybridTypes, OffsetInv, AgentActs PROVE OffsetInv'
<1>1. /\ UNCHANGED <<point, path, pane, offset>> /\ Current' = Current
      /\ pane \in {0} \cup Files /\ path \in {0} \cup Files /\ files \in [Files -> Seq(Event)]
      /\ offset \in Nat
  BY DEF AgentActs, Boot, Open, WriteLine, Flush, Abort, Show, Undisturbed, Current, pane_vars,
         poll_vars, place_vars, HybridTypes, HybridTypeOK, ControllerTypeOK, AgentTypeOK
<1>2. \A f \in Files : files[f] # <<>> => files'[f] # <<>>
  <2>1. CASE pane # 0 /\ WriteLine
    <3>1. PICK kind \in Kinds, ok \in BOOLEAN : Put(kind, ok)
      BY <2>1, HybridFacts DEF WriteLine, FirstLine, LastLine, Kinds, Says, HybridTypes
    <3> QED BY <2>1, <3>1, PutTypes
  <2>2. CASE Open
    BY <1>1, <2>2 DEF Open
  <2>3. CASE Boot \/ Flush \/ Abort \/ Show
    BY <2>3 DEF Boot, Flush, Abort, Show
  <2> QED BY <2>1, <2>2, <2>3 DEF AgentActs, WriteLine
<1>3. CASE pane = 0
  <2>1. Log' = Log
    BY <1>1, <1>3 DEF Log
  <2> QED BY <1>1, <1>2, <2>1 DEF OffsetInv
<1>4. CASE pane # 0
  <2>1. /\ Log = files[pane] /\ Log' = files'[pane] /\ Log \in Seq(Event) /\ Log' \in Seq(Event)
        /\ Len(Log) <= Len(Log') /\ \A i \in DOMAIN Log : Log'[i] = Log[i]
    BY <1>1, <1>4, AgentFile DEF Log
  <2>2. ASSUME offset <= Len(Log), \A i \in DOMAIN Log : i <= offset => Log[i].turn # Current
        PROVE  /\ offset <= Len(Log')
               /\ \A i \in DOMAIN Log' : i <= offset => Log'[i].turn # Current
    BY <1>1, <2>1, <2>2
  <2> QED BY <1>1, <1>2, <2>2 DEF OffsetInv
<1> QED BY <1>3, <1>4

LEMMA OffsetStep ==
    ASSUME HybridTypes, AgeInv, OffsetInv, [HybridNext]_hybrid_vars PROVE OffsetInv'
<1>1. CASE Split
  BY <1>1
  DEF Split, Proceed, HybridTypes, HybridPlaces, OffsetInv, Polling, InTurn, pane_vars, poll_vars,
      agent_vars
<1>2. CASE TakeResult
  <2>1. point' \in {"idle", "over", "raised"} /\ files' = files /\ path' \in {path, 0}
    BY <1>2 DEF TakeResult, ResetController, Proceed, poll_vars, agent_vars
  <2> QED BY <2>1 DEF OffsetInv, Polling, InTurn
<1>3. CASE Enter
  <2>1. /\ point = "enter" /\ point' = "capture" /\ UNCHANGED <<path, pane, offset, files, Log>>
        /\ Current' = Current
    BY <1>3 DEF Enter, Proceed, Log, Current, pane_vars, poll_vars
  <2> QED BY <2>1, OffsetSame DEF Polling, InTurn
<1>4. CASE NoFile
  BY <1>4 DEF NoFile, Proceed, OffsetInv, Exists, Discovered, Polling, InTurn, Log, Current,
              place_vars, pane_vars, agent_vars
<1>5. CASE WaitReady \/ SkipUpdate \/ NotReady
  <2>1. point' \in {"waiting", "offset", "raised"} /\ UNCHANGED <<path, files>>
    BY <1>5 DEF WaitReady, SkipUpdate, NotReady, Proceed, poll_vars, agent_vars
  <2> QED BY <2>1 DEF OffsetInv, Polling, InTurn
<1>6. CASE Paste \/ EnterFails
  <2>1. /\ point' = "raised" \/ (point = "paste" /\ point' = "enter")
        /\ UNCHANGED <<path, pane, offset, files, Log, attempt>>
    BY <1>6 DEF Paste, EnterFails, Proceed, Log, place_vars, pane_vars, poll_vars, agent_vars
  <2> QED BY <2>1, OffsetSame DEF Polling, InTurn, Current
<1>7. CASE Capture \/ Timeout \/ Assess
  <2>1. /\ point \in {"capture", "assess"} /\ point' \in {"read", "settle", "capture"}
        /\ UNCHANGED <<path, pane, offset, files, Log, attempt>>
    BY <1>7 DEF Capture, Timeout, Assess, Proceed, Log, place_vars, pane_vars, agent_vars
  <2> QED BY <2>1, OffsetSame DEF Polling, InTurn, Current
<1>8. CASE Operator \/ UNCHANGED hybrid_vars
  <2>1. UNCHANGED <<point, path, pane, offset, files, Log, attempt>>
    BY <1>8
    DEF Operator, Resolve, PasteNote, EnterNote, NoteFails, note_rest, hybrid_vars, Log,
        place_vars, pane_vars, poll_vars, agent_vars
  <2> QED BY <2>1, OffsetSame DEF Current
<1> QED BY <1>1, <1>2, <1>3, <1>4, <1>5, <1>6, <1>7, <1>8, OffsetSend, OffsetRead, OffsetAgent
        DEF HybridNext, Controller


(* What the controller has seen stays true until it acts on it: DueInv. *)
LEMMA DueCapture ==
    ASSUME HybridTypes, AgeInv, OrderInv, Capture PROVE DueInv'
<1>1. /\ point = "capture" /\ point' = "read" /\ UNCHANGED <<attempt, hybrid, pane, agent, turn>>
      /\ Log' = Log /\ Log = files[pane] /\ pane # 0
      /\ due' = (Settled /\ shot' = "READY") /\ NoteTurn' = NoteTurn
  BY DEF Capture, Proceed, HybridTypes, HybridPlaces, pane_vars, agent_vars, Log, NoteTurn
<1>2. ASSUME due' PROVE /\ agent = "idle" /\ shot' = "READY" /\ Wrote("user") /\ Wrote(LastLine)
                        /\ Codex => Wrote("started") /\ Wrote("assistant")
  BY <1>1, <1>2 DEF Settled, Wrote, LastLine, Codex
<1>3. ASSUME Wrote("user"), turn # NoteTurn PROVE turn = attempt
  <2>1. PICK i \in DOMAIN Log : Log[i].turn = attempt
    BY <1>3 DEF Wrote
  <2>2. attempt \in Nat /\ turn \in Nat /\ attempt # NoteTurn /\ NewestTurn = attempt
    BY <1>1, HybridFacts
    DEF HybridTypes, HybridTypeOK, ControllerTypeOK, AgentTypeOK, NoteTurn, NewestTurn
  <2> QED BY <1>3, <2>1, <2>2 DEF OrderInv, AgeInv
<1>4. \A kind : Wrote(kind) => Wrote(kind)'
  BY <1>1 DEF Wrote
<1> QED BY <1>1, <1>2, <1>3, <1>4 DEF DueInv, LastLine, Codex

LEMMA DueRead == ASSUME HybridTypes, OffsetInv, DueInv, ReadNew PROVE DueInv'
<1>1. /\ point = "read" /\ UNCHANGED <<hybrid, attempt, due, pane, files, agent, turn, shot>>
  BY DEF ReadNew, place_vars, pane_vars, agent_vars
<1>2. CASE due /\ turn # NoteTurn
  <2>1. /\ pane # 0 /\ pane \in Files /\ files[pane] # <<>>
    BY <1>1, <1>2 DEF DueInv, Wrote, Log, HybridTypes, HybridTypeOK, ControllerTypeOK
  <2>2. path' = pane \/ point' # "assess"
    <3>1. CASE Codex
      BY <3>1 DEF ReadNew, Proceed
    <3>2. CASE ~Codex
      <4>1. Newest = {pane}
        BY <2>1, <3>2 DEF Newest, Candidates, Exists
      <4>2. \A found : Recent(found) = {pane}
        BY <2>1, <3>2, <4>1 DEF Recent
      <4> QED BY <4>2 DEF ReadNew
    <3> QED BY <3>1, <3>2
  <2> QED BY <1>1, <1>2, <2>2 DEF DueInv, Wrote, Log, LastLine, Codex, NoteTurn
<1>3. CASE ~(due /\ turn # NoteTurn)
  BY <1>1, <1>3 DEF DueInv, NoteTurn
<1> QED BY <1>2, <1>3

LEMMA DueOthers ==
    ASSUME HybridTypes, DueInv, AgentActs \/ Operator \/ UNCHANGED hybrid_vars PROVE DueInv'
<1>1. /\ UNCHANGED <<point, hybrid, attempt, due, pane, path, shot>> /\ NoteTurn' = NoteTurn
      /\ LastLine' = LastLine /\ Codex' = Codex
  BY DEF AgentActs, Boot, Open, WriteLine, Flush, Abort, Show, Undisturbed, Operator, Resolve,
         PasteNote, EnterNote, NoteFails, note_rest, hybrid_vars, pane_vars, poll_vars, place_vars,
         NoteTurn, LastLine, Codex
<1>2. CASE AgentActs /\ pane # 0
  <2>1. \A kind : Wrote(kind) => Wrote(kind)'
    <3>1. /\ Log = files[pane] /\ Log' = files'[pane] /\ Log \in Seq(Event) /\ Log' \in Seq(Event)
          /\ Len(Log) <= Len(Log') /\ \A i \in DOMAIN Log : Log'[i] = Log[i]
      BY <1>1, <1>2, AgentFile DEF Log
    <3>2. DOMAIN Log \subseteq DOMAIN Log'
      BY <3>1
    <3> QED BY <1>1, <3>1, <3>2 DEF Wrote
  <2>2. turn' = turn /\ (agent = "idle" => agent' = "idle")
    BY <1>2 DEF AgentActs, Boot, Open, WriteLine, Flush, Abort, Show
  <2> QED BY <1>1, <2>1, <2>2 DEF DueInv
<1>3. CASE AgentActs /\ pane = 0
  BY <1>1, <1>3 DEF DueInv, HybridTypes, HybridPlaces
<1>4. CASE EnterNote
  <2>1. Log' = Log /\ Submit(composer, attempt + 1)
    BY <1>4 DEF EnterNote, note_rest, Log, pane_vars
  <2>2. point \in {"read", "assess"} => "prompt" \notin composer
    BY DEF HybridTypes, HybridPlaces
  <2>3. turn' = NoteTurn \/ (turn' = turn /\ agent' = agent) \/ point \notin {"read", "assess"}
    BY <2>1, <2>2, SubmitStep
  <2> QED BY <1>1, <2>1, <2>3 DEF DueInv, Wrote
<1>5. CASE Resolve \/ PasteNote \/ NoteFails \/ UNCHANGED hybrid_vars
  <2>1. UNCHANGED <<Log, agent, turn>>
    BY <1>5 DEF Resolve, PasteNote, NoteFails, note_rest, hybrid_vars, Log, pane_vars, agent_vars
  <2> QED BY <1>1, <2>1 DEF DueInv, Wrote
<1> QED BY <1>2, <1>3, <1>4, <1>5 DEF Operator

LEMMA DueStep ==
    ASSUME HybridTypes, AgeInv, OrderInv, OffsetInv, DueInv, [HybridNext]_hybrid_vars
    PROVE  DueInv'
<1>1. CASE \/ Split \/ WaitReady \/ SkipUpdate \/ NotReady \/ Offset \/ Paste \/ Enter \/ EnterFails
           \/ Timeout \/ NoFile \/ Assess \/ TakeResult
  <2>1. point' \notin {"read", "assess"}
    BY <1>1
    DEF Split, WaitReady, SkipUpdate, NotReady, Offset, Paste, Enter, EnterFails, Timeout, NoFile,
        Assess, TakeResult, Proceed
  <2> QED BY <2>1 DEF DueInv
<1> QED BY <1>1, DueCapture, DueRead, DueOthers DEF HybridNext, Controller

LEMMA NoticeHolds == HybridSpec => [](AgeInv /\ OrderInv /\ OffsetInv /\ DueInv)
<1>1. /\ HybridTypes /\ AgeInv /\ OrderInv /\ OffsetInv /\ DueInv /\ [HybridNext]_hybrid_vars
      => (AgeInv /\ OrderInv /\ OffsetInv /\ DueInv)'
  BY AgeStep, OrderStep, OffsetStep, DueStep
<1> QED BY TurnsInit, NoticeInit, HybridTypesHold, <1>1, PTL DEF HybridSpec

(* Where a line of the file stands among the events that are assessed. *)
LEMMA EventAt ==
    ASSUME NEW s \in Seq(Event), NEW m \in Nat, NEW j \in DOMAIN s, j > m
    PROVE  /\ j - m \in DOMAIN SubSeq(s, m + 1, Len(s))
           /\ SubSeq(s, m + 1, Len(s))[j - m] = s[j]
OBVIOUS

(* A turn of Codex that has settled is taken for completed. *)
LEMMA CodexNoticed ==
    ASSUME HybridTypes, OrderInv, OffsetInv, DueInv, Codex, point = "read", due, turn # NoteTurn,
           path \in {0, pane}, path = 0 => offset = 0
    PROVE  CodexReady(Events(pane, offset, Len(files[pane])))
<1> DEFINE evs == SubSeq(Log, offset + 1, Len(Log))
<1>1. /\ agent = "idle" /\ shot = "READY" /\ turn = attempt /\ pane # 0
      /\ Wrote("user") /\ Wrote("end") /\ Wrote("started") /\ Wrote("assistant")
  BY DEF DueInv, LastLine
<1>2. Log = files[pane] /\ Log \in Seq(Event) /\ offset \in Nat /\ Len(Log) \in Nat
  BY <1>1, LogType DEF Log, HybridTypes, HybridTypeOK, ControllerTypeOK
<1>3. \A i \in DOMAIN Log : Log[i].turn = attempt => i > offset
  <2>1. CASE path = 0
    BY <1>2, <2>1
  <2>2. CASE path = pane
    BY <1>2, <2>2 DEF OffsetInv, Polling, InTurn, Current
  <2> QED BY <2>1, <2>2
<1>4. /\ \A j \in DOMAIN Log : j > offset => j - offset \in DOMAIN evs /\ evs[j - offset] = Log[j]
      /\ \A i \in DOMAIN evs : /\ i \in Nat /\ offset + i \in DOMAIN Log
                               /\ evs[i] = Log[offset + i]
      /\ DOMAIN evs = 1..Len(evs) /\ Len(evs) \in Nat
  <2>1. \A j \in DOMAIN Log : j > offset => j - offset \in DOMAIN evs /\ evs[j - offset] = Log[j]
    BY <1>2, EventAt
  <2>2. /\ \A i \in DOMAIN evs : /\ i \in Nat /\ offset + i \in DOMAIN Log
                                 /\ evs[i] = Log[offset + i]
        /\ DOMAIN evs = 1..Len(evs)
    BY <1>2, EventsOf
  <2>3. evs \in Seq(Event)
    BY <1>2
  <2> QED BY <2>1, <2>2, <2>3
<1> HIDE DEF evs
<1>5. ASSUME NEW kind, Wrote(kind)
      PROVE  \E i \in DOMAIN evs : evs[i].kind = kind /\ evs[i].turn = attempt /\ evs[i].ok
  <2>1. PICK j \in DOMAIN Log : Log[j].turn = attempt /\ Log[j].kind = kind /\ Log[j].ok
    BY <1>5 DEF Wrote
  <2>2. j - offset \in DOMAIN evs /\ evs[j - offset] = Log[j]
    BY <1>3, <1>4, <2>1
  <2> QED BY <2>1, <2>2
<1>6. PICK s \in DOMAIN evs : evs[s].kind = "started" /\ evs[s].turn = attempt
  BY <1>1, <1>5
<1>7. PICK e \in DOMAIN evs : evs[e].kind = "end" /\ evs[e].turn = attempt /\ evs[e].ok
  BY <1>1, <1>5
\* After the turn's start there is no other, and after its end no other end.
<1>8. ASSUME NEW i \in DOMAIN evs, NEW k \in DOMAIN evs, i < k, evs[i].turn = attempt
      PROVE  /\ evs[k].turn = attempt /\ evs[k].kind # "started"
             /\ evs[i].kind = "end" => evs[k].kind # "end"
  <2>1. /\ offset + i \in DOMAIN Log /\ offset + k \in DOMAIN Log /\ offset + i < offset + k
        /\ evs[i] = Log[offset + i] /\ evs[k] = Log[offset + k]
    BY <1>2, <1>4, <1>8
  <2>2. evs[k].turn = attempt
    BY <1>1, <1>8, <2>1 DEF OrderInv
  <2> QED BY <1>1, <1>8, <2>1, <2>2 DEF OrderInv, Ends
<1>9. s < e
  <2>1. s \in Nat /\ e \in Nat /\ s # e
    BY <1>4, <1>6, <1>7
  <2>2. ~(e < s)
    BY <1>6, <1>7, <1>8
  <2> QED BY <2>1, <2>2
<1>10. TurnCompleted(evs)
  <2>1. e \in (s + 1)..Len(evs)
    BY <1>4, <1>9
  <2>2. \A k \in (s + 1)..Len(evs) : evs[k].kind # "started"
    BY <1>4, <1>6, <1>8
  <2>3. \A l \in (e + 1)..Len(evs) : ~(evs[l].kind = "end" /\ evs[l].turn = evs[s].turn)
    BY <1>4, <1>7, <1>8
  <2> QED BY <1>6, <1>7, <2>1, <2>2, <2>3 DEF TurnCompleted
<1>11. Has(evs, {"user"}) /\ Has(evs, {"assistant"})
  BY <1>1, <1>5 DEF Has
<1> QED BY <1>1, <1>2, <1>10, <1>11 DEF CodexReady, Events, evs

(* One of Claude, too. *)
LEMMA ClaudeNoticed ==
    ASSUME HybridTypes, OrderInv, OffsetInv, DueInv, ~Codex, point = "assess", due, turn # NoteTurn
    PROVE  ClaudeReady(Events(path, offset, Len(files[path])))
<1> DEFINE evs == SubSeq(Log, offset + 1, Len(Log))
<1>1. /\ shot = "READY" /\ turn = attempt /\ pane # 0 /\ path = pane
      /\ Wrote("user") /\ Wrote("answer")
  BY DEF DueInv, LastLine
<1>2. Log = files[pane] /\ Log \in Seq(Event) /\ offset \in Nat /\ Len(Log) \in Nat
  BY <1>1, LogType DEF Log, HybridTypes, HybridTypeOK, ControllerTypeOK
<1>3. \A i \in DOMAIN Log : Log[i].turn = attempt => i > offset
  BY <1>1, <1>2 DEF OffsetInv, Polling, InTurn, Current
<1>4. /\ \A j \in DOMAIN Log : j > offset => j - offset \in DOMAIN evs /\ evs[j - offset] = Log[j]
      /\ \A i \in DOMAIN evs : /\ i \in Nat /\ offset + i \in DOMAIN Log
                               /\ evs[i] = Log[offset + i]
      /\ DOMAIN evs = 1..Len(evs) /\ Len(evs) \in Nat
  <2>1. \A j \in DOMAIN Log : j > offset => j - offset \in DOMAIN evs /\ evs[j - offset] = Log[j]
    BY <1>2, EventAt
  <2>2. /\ \A i \in DOMAIN evs : /\ i \in Nat /\ offset + i \in DOMAIN Log
                                 /\ evs[i] = Log[offset + i]
        /\ DOMAIN evs = 1..Len(evs)
    BY <1>2, EventsOf
  <2>3. evs \in Seq(Event)
    BY <1>2
  <2> QED BY <2>1, <2>2, <2>3
<1> HIDE DEF evs
<1>5. ASSUME NEW kind, Wrote(kind)
      PROVE  \E i \in DOMAIN evs : evs[i].kind = kind /\ evs[i].turn = attempt
  <2>1. PICK j \in DOMAIN Log : Log[j].turn = attempt /\ Log[j].kind = kind
    BY <1>5 DEF Wrote
  <2>2. j - offset \in DOMAIN evs /\ evs[j - offset] = Log[j]
    BY <1>3, <1>4, <2>1
  <2> QED BY <2>1, <2>2
<1>6. PICK a \in DOMAIN evs : evs[a].kind = "answer" /\ evs[a].turn = attempt
  BY <1>1, <1>5
<1>7. ASSUME NEW k \in DOMAIN evs, a < k PROVE evs[k].kind = "safety"
  <2>1. /\ offset + a \in DOMAIN Log /\ offset + k \in DOMAIN Log /\ offset + a < offset + k
        /\ evs[a] = Log[offset + a] /\ evs[k] = Log[offset + k]
    BY <1>2, <1>4, <1>7
  <2>2. evs[k].turn = attempt
    BY <1>1, <1>6, <2>1 DEF OrderInv
  <2> QED BY <1>1, <1>6, <2>1, <2>2 DEF OrderInv, Ends
<1>8. ~LastSaid(evs, "tool_use")
  <2>1. SUFFICES ASSUME NEW i \in DOMAIN evs, evs[i].kind = "tool_use",
                        \A k \in (i + 1)..Len(evs) : evs[k].kind \notin Said
                 PROVE  FALSE
    BY DEF LastSaid
  <2>2. i # a /\ i \in Nat /\ a \in Nat
    BY <1>4, <1>6, <2>1
  <2>3. CASE i < a
    BY <1>4, <1>6, <2>1, <2>2, <2>3 DEF Said
  <2>4. CASE a < i
    BY <1>7, <2>1, <2>4
  <2> QED BY <2>2, <2>3, <2>4
<1>9. Has(evs, {"user"}) /\ Has(evs, Said)
  BY <1>1, <1>5 DEF Has, Said
<1> QED BY <1>1, <1>2, <1>8, <1>9 DEF ClaudeReady, Events, evs

(* CompletionNoticed, for Codex and Claude, any number of prompts and panes, with or
   without lsof: once a turn has settled and its pane shows it, the next poll ends
   run_turn, unless a line is just being written or a note has begun a turn. *)
THEOREM CompletionNoticedHolds == HybridSpec => CompletionNoticed
<1> DEFINE Noticed ==
      point \in {"read", "assess"} /\ point' # point /\ due =>
         \/ torn \/ turn = NoteTurn \/ point' = "assess"
         \/ point' = "settle" /\ outcome' # "none"
<1>1. ASSUME HybridTypes, Codex => ReadInv, OrderInv, OffsetInv, DueInv, [HybridNext]_hybrid_vars
      PROVE  Noticed
  <2>1. SUFFICES ASSUME point \in {"read", "assess"}, point' # point, due, ~torn, turn # NoteTurn
                 PROVE  \/ point' = "assess"
                        \/ point' = "settle" /\ outcome' # "none"
    OBVIOUS
  <2>2. /\ pane # 0 /\ pane \in Files /\ files[pane] # <<>> /\ Exists(pane)
    BY <1>1, <2>1 DEF DueInv, Wrote, Log, Exists, HybridTypes, HybridTypeOK, ControllerTypeOK
  <2>3. NoFile \/ ReadNew \/ Assess
    BY <1>1, <2>1
    DEF HybridNext, Controller, Split, WaitReady, SkipUpdate, NotReady, Offset, Paste, Enter,
        EnterFails, Capture, Timeout, TakeResult, AgentActs, Boot, Open, WriteLine, Flush, Abort,
        Show, Undisturbed, Operator, Resolve, PasteNote, EnterNote, NoteFails, note_rest,
        hybrid_vars
  <2>4. CASE NoFile
    <3>1. CASE Codex
      BY <1>1, <2>2, <2>4, <3>1, DiscoveredCodex DEF NoFile, ReadInv
    <3>2. CASE ~Codex
      <4>1. Newest = {pane}
        BY <2>2, <3>2 DEF Newest, Candidates
      <4> QED BY <2>2, <2>4, <3>2, <4>1 DEF NoFile, Recent
    <3> QED BY <3>1, <3>2
  <2>5. CASE ReadNew /\ Codex
    <3>1. /\ point = "read" /\ path \in {0, pane} /\ (path = 0 => offset = 0) /\ outcome = "none"
      BY <1>1, <2>5, ReadStep DEF ReadInv, InTurn
    <3>2. CodexReady(Events(pane, offset, Len(files[pane])))
      BY <1>1, <2>1, <2>5, <3>1, CodexNoticed
    <3>3. Readable(pane) = Len(files[pane]) /\ ~Incomplete(pane)
      <4>1. Len(files[pane]) \in Nat
        BY <1>1, <2>2 DEF HybridTypes, HybridTypeOK, AgentTypeOK
      <4> QED BY <2>1, <4>1 DEF Readable, Incomplete
    <3> QED BY <1>1, <2>5, <3>2, <3>3, ReadStep
  <2>6. CASE ReadNew /\ ~Codex
    BY <2>6 DEF ReadNew, Proceed
  <2>7. CASE Assess
    <3>1. point = "assess" /\ ~Codex
      BY <1>1, <2>7 DEF Assess, ReadInv
    <3>2. ClaudeReady(Events(path, offset, Len(files[path])))
      BY <1>1, <2>1, <3>1, ClaudeNoticed
    <3> QED BY <2>7, <3>2 DEF Assess, Proceed
  <2> QED BY <2>3, <2>4, <2>5, <2>6, <2>7
<1> QED BY <1>1, HybridTypesHold, ReadHolds, NoticeHolds, PTL DEF HybridSpec, CompletionNoticed
=================================================================================
