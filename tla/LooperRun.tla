------------------------------ MODULE LooperRun ------------------------------
(***************************************************************************)
(* The supervisor of codex-looper: run_loop of runner.py with the attempt  *)
(* it makes through run_command of process.py (JSON interface).            *)
(*                                                                         *)
(* `pc` is the point of run_loop between two accesses to what it shares    *)
(* with others: the control file, state.json and the agent's process.  A   *)
(* test of several outcomes is one action per outcome.  Errors that leave  *)
(* run_loop as exceptions end the process and write nothing.  Texts, sizes *)
(* and delays are left out: an output size is one of a few numbers chosen  *)
(* at the end of the loop, a delay may end at any time.                    *)
(***************************************************************************)
EXTENDS AgentOutput, Sequences

CONSTANTS
    Loopers,      \* the configurations considered, see TypeOK
    Sizes         \* sizes of a loop's output

PromptStops == {"stop_after_prompt", "interrupt_now"}
ValidActions == PromptStops \cup {"stop_after_loop"}
Breakers == {"completion", "no_progress", "output_decline", "output_match"}
Window == 2      \* loops the history remembers: no threshold is larger

ASSUME LooperAssumption ==
    /\ Sizes \subseteq Nat
    /\ \A c \in Loopers :
          /\ c.limit \in [Breakers -> 0..Window]       \* 0: not configured
          /\ c.maxTransient \in Nat /\ c.maxLoops \in Nat
          /\ c.prompts \in SUBSET (Nat \ {0}) /\ c.output \subseteq Line
          /\ c.reads \in LocalKinds          \* how the text of a local error is read

VARIABLES
    looper,       \* the configuration of this run
    pc,           \* the point of run_loop
    loop, prompt, prompts, retry, first,  \* its loop variables
    session, persistent,      \* known conversation of the loop, of the run (0: none)
    result,       \* of the attempt being made or just made
    count,        \* the four streak counters
    loopMark, prevSize,
    control,      \* control.jsonl: [action, since]; `since` is history, below
    read,         \* lines of it that were processed
    asked,        \* actions taken from it
    child, conv,  \* the agent's process (the leader of its group; 0: none, else
                  \* its token); where it works
    recorded,     \* child_pgid of state.json
    disk,         \* status and reason in state.json
    exit,         \* how the supervisor's process ended
    sigint,       \* a SIGINT the event loop has not handled yet
    home, failed, past, unsafe \* history, below

(* History: `since` counts attempts (loops, for stop_after_loop) begun since
   the command was appended; `home` is the conversation that worked on this
   loop's (run's) prompts last; `failed` the transient failures of the prompt;
   `past` which breakers' conditions the last loops met; `unsafe` that a safety
   code was read. *)
config  == <<looper>>
session_vars == <<session, persistent>>
breaker_vars == <<count, loopMark, prevSize, past>>
file_vars    == <<control, read, asked>>
attempt_vars == <<result, child, conv, recorded>>
end_vars     == <<exit, sigint>>
vars == <<looper, pc, loop, prompt, prompts, retry, first, session, persistent,
          result, count, loopMark, prevSize, control, read, asked, child, conv,
          recorded, disk, exit, sigint, home, failed, past, unsafe>>

Tokens == 1..4
Free(used) == CHOOSE t \in Tokens : t \notin used  \* a new process or conversation
Least(a, b) == IF a < b THEN a ELSE b

Active == {"running", "retrying"}
Statuses == Active \cup {"stopped", "error", "needs_review"}
Disk == [status : Statuses,
         reason : {"none", "control", "limit", "safety", "signal", "timeout", "exit",
                   "max_loops", "dry_run", "prompts", "external"} \cup Breakers]
Points == {"top", "begin", "start", "spawned", "running", "settle", "after",
           "sleep", "loop_end", "check", "pause", "stopped", "gone"}

TypeOK ==
    /\ looper \in Loopers /\ pc \in Points
    /\ loop \in Nat /\ prompt \in Nat /\ prompts \in Nat /\ retry \in Nat
    /\ first \in BOOLEAN /\ session \in {0} \cup Tokens /\ persistent \in {0} \cup Tokens
    /\ result \in Result /\ count \in [Breakers -> Nat]
    /\ loopMark \in BOOLEAN /\ prevSize \in Sizes \cup {-1}
    /\ control \in Seq([action : ValidActions, since : Nat])
    /\ read \in 0..Len(control) /\ asked \subseteq ValidActions
    /\ child \in {0} \cup Tokens /\ conv \in {0} \cup Tokens
    /\ recorded \in {0} \cup Tokens /\ disk \in Disk
    /\ exit \in {"none", "0", "1", "2", "124", "130", "killed"}
    /\ sigint \in BOOLEAN /\ home \in {0} \cup Tokens
    /\ failed \in Nat /\ past \in Seq(SUBSET Breakers) /\ unsafe \in BOOLEAN

Init ==
    /\ looper \in Loopers /\ pc = "top"
    /\ loop = 0 /\ prompt = 0 /\ prompts = 0 /\ retry = 0 /\ first = TRUE
    /\ session = 0 /\ persistent = 0 /\ result = NoResult
    /\ count = [b \in Breakers |-> 0] /\ loopMark = FALSE /\ prevSize = -1
    /\ control = <<>> /\ read = 0 /\ asked = {}
    /\ child = 0 /\ conv = 0 /\ recorded = 0
    /\ disk = [status |-> "running", reason |-> "none"]
    /\ exit = "none" /\ sigint = FALSE
    /\ home = 0 /\ failed = 0 /\ past = <<>> /\ unsafe = FALSE
-----------------------------------------------------------------------------
(* Pieces of run_loop. *)

\* LooperStateRecorder.record: state.json is replaced as a whole.
Record(status, reason) == disk' = [status |-> status, reason |-> reason]

\* read_control_commands: every line not processed yet, in one read.
Unread == {control[i].action : i \in (read + 1)..Len(control)}

\* Poll with a bug: a later command replaces the earlier ones.
Poll_Fault == /\ read' = Len(control)
              /\ asked' = IF read = Len(control) THEN asked
                          ELSE {control[Len(control)].action}

\* poll_control_commands
Poll == /\ read' = Len(control)
        /\ asked' = asked \cup Unread

PromptStop == asked' \cap PromptStops # {}
LoopStop   == asked' # {}

\* stop_run: the final record, after which only the exit is left.
StopRun(status, reason, code) ==
    /\ Record(status, reason) /\ pc' = "stopped" /\ exit' = code
    /\ UNCHANGED sigint

\* ConfigError, PromptError, CommandTemplateError: main() returns 2.
Raise == pc' = "gone" /\ exit' = "2" /\ UNCHANGED <<disk, sigint>>

GoTo(p) == pc' = p /\ UNCHANGED <<disk, end_vars>>

\* The head of the loop over the prompts.
EnterPrompt(k) ==
    /\ prompt' = k /\ retry' = 0 /\ failed' = 0
    /\ first' = (k = 1 /\ (looper.fresh \/ loop' = 1))

Begun(actions) == [i \in DOMAIN control |->
    IF control[i].action \in actions THEN [control[i] EXCEPT !.since = Least(2, @ + 1)]
                                     ELSE control[i]]
-----------------------------------------------------------------------------
(* Between two loops. *)

LoopTop ==
    /\ pc = "top" /\ Poll
    /\ IF LoopStop
       THEN StopRun("stopped", "control", "0") /\ UNCHANGED loop
       ELSE GoTo("begin") /\ loop' = Least(loop + 1, looper.maxLoops + 2)
    /\ UNCHANGED <<config, prompt, prompts, retry, first, session_vars, breaker_vars,
                   control, attempt_vars, home, failed, unsafe>>

\* The conversation a loop starts with: none, or the one that is kept.
BeginSession == session' = IF looper.fresh THEN 0 ELSE persistent

\* Prompts are read again, the loop is recorded, a fingerprint is taken and a
\* backup branch made; all but the first end the run with an exception.
BeginLoop ==
    /\ pc = "begin"
    /\ \/ /\ BeginSession /\ Record("running", "none") /\ UNCHANGED end_vars
          /\ pc' = "start" /\ loop' = loop /\ EnterPrompt(1)
          /\ \E n \in looper.prompts : prompts' = n
          /\ loopMark' = FALSE /\ home' = IF looper.fresh THEN 0 ELSE home
          /\ control' = Begun({"stop_after_loop"})
       \/ /\ looper.fails
          /\ StopRun("error", "prompts", "2") \/ Raise
          /\ UNCHANGED <<loop, prompt, prompts, retry, first, session, loopMark,
                         control, home, failed>>
    /\ UNCHANGED <<config, persistent, count, prevSize, past, read, asked,
                   attempt_vars, unsafe>>

\* loop_completed is recorded before the control file is read.
LoopEnd ==
    /\ pc = "loop_end" /\ Record("running", "none") /\ pc' = "check"
    /\ UNCHANGED <<config, loop, prompt, prompts, retry, first, session_vars,
                   breaker_vars, file_vars, attempt_vars, end_vars, home, failed, unsafe>>

\* Counted with a bug: loops are counted, not loops in a row.
Counted_Fault(b, met) == IF looper.limit[b] = 0 THEN 0
                         ELSE IF b \in met THEN count[b] + 1 ELSE count[b]

Counted(b, met) == IF looper.limit[b] = 0 THEN 0
                   ELSE IF b \in met THEN count[b] + 1 ELSE 0

Opens(b, met) == looper.limit[b] > 0 /\ Counted(b, met) >= looper.limit[b]

(* What the loop showed: the marker with every task of the plan checked, the
   same workspace as before, less output than the loop before, a match. *)
CanMeet(met, size) ==
    /\ "completion" \in met => loopMark
    /\ looper.limit["output_decline"] > 0 =>
          ("output_decline" \in met <=> prevSize >= 0 /\ size < prevSize)

\* In the order of the code; the first breaker to open names the reason.
CheckLoop ==
    /\ pc = "check" /\ Poll
    /\ \E met \in SUBSET {b \in Breakers : looper.limit[b] > 0}, size \in Sizes :
          /\ CanMeet(met, size)
          /\ IF LoopStop THEN StopRun("stopped", "control", "0")
             ELSE IF Opens("completion", met) THEN StopRun("stopped", "completion", "0")
             ELSE IF Opens("no_progress", met) THEN StopRun("stopped", "no_progress", "0")
             ELSE IF Opens("output_decline", met) THEN StopRun("stopped", "output_decline", "0")
             ELSE IF Opens("output_match", met) THEN StopRun("stopped", "output_match", "0")
             ELSE IF looper.dryRun THEN StopRun("stopped", "dry_run", "0")
             ELSE IF looper.maxLoops > 0 /\ loop >= looper.maxLoops
                  THEN StopRun("stopped", "max_loops", "0")
             ELSE GoTo("pause")
          /\ count' = [b \in Breakers |-> Counted(b, met)]
          /\ prevSize' = IF looper.limit["output_decline"] > 0 THEN size ELSE prevSize
          /\ past' = LET all == Append(past, met)
                     IN SubSeq(all, 1 + Len(all) - Least(Len(all), Window), Len(all))
    /\ UNCHANGED <<config, loop, prompt, prompts, retry, first, session_vars, loopMark,
                   control, attempt_vars, home, failed, unsafe>>

\* No plan file, or no git work tree any more.
CheckRaises ==
    /\ pc = "check" /\ looper.fails /\ Poll /\ ~LoopStop /\ Raise
    /\ UNCHANGED <<config, loop, prompt, prompts, retry, first, session_vars,
                   breaker_vars, control, attempt_vars, home, failed, unsafe>>
-----------------------------------------------------------------------------
(* One attempt at one prompt. *)

Resumes == ~first
NeedsSession == looper.kind # "generic" /\ Resumes /\ session = 0

\* create_subprocess_exec: a process in a session of its own.
Spawn == child' = Free({recorded})

\* prompt_started, build_command, and the process of the agent.
StartAttempt ==
    /\ pc = "start" /\ ~looper.dryRun /\ ~NeedsSession
    /\ Record("running", "none") /\ pc' = "spawned"
    /\ Spawn
    /\ conv' = IF Resumes /\ session # 0 THEN session ELSE Free({session, persistent, home})
    /\ result' = NoResult
    /\ control' = Begun(PromptStops)
    /\ UNCHANGED <<config, loop, prompt, prompts, retry, first, session_vars,
                   breaker_vars, read, asked, recorded, end_vars, home, failed, unsafe>>

\* No conversation to resume, or no executable.
StartRaises ==
    /\ pc = "start" /\ (NeedsSession \/ (looper.fails /\ ~looper.dryRun))
    /\ pc' = "gone" /\ exit' = "2" /\ Record("running", "none")
    /\ UNCHANGED <<config, loop, prompt, prompts, retry, first, session_vars,
                   breaker_vars, file_vars, attempt_vars, sigint, home, failed, unsafe>>

NextPrompt == IF prompt < prompts
              THEN EnterPrompt(prompt + 1) /\ pc' = "start" /\ loop' = loop
              ELSE pc' = "loop_end" /\ UNCHANGED <<loop, prompt, retry, first, failed>>

DryAttempt ==
    /\ pc = "start" /\ looper.dryRun /\ ~NeedsSession
    /\ Record("running", "none") /\ NextPrompt
    /\ UNCHANGED <<config, prompts, session_vars, breaker_vars, file_vars,
                   attempt_vars, end_vars, home, unsafe>>

\* on_process_started: the pids go to state.json.
RecordChild ==
    /\ pc = "spawned" /\ recorded' = child /\ pc' = "running"
    /\ UNCHANGED <<config, loop, prompt, prompts, retry, first, session_vars,
                   breaker_vars, file_vars, result, child, conv, disk, end_vars,
                   home, failed, unsafe>>

\* The pids cannot be written: the exception passes the finally clause of
\* run_command, which begins later, and ends the process.
RecordChildFails ==
    /\ pc = "spawned" /\ looper.fails /\ pc' = "gone" /\ exit' = "1"
    /\ UNCHANGED <<config, loop, prompt, prompts, retry, first, session_vars,
                   breaker_vars, file_vars, attempt_vars, disk, sigint, home,
                   failed, unsafe>>

\* What a step of the running attempt leaves alone.
Elsewhere == UNCHANGED <<config, loop, prompt, prompts, retry, first, session_vars,
                         breaker_vars, file_vars, conv, recorded, disk, end_vars,
                         home, failed>>

\* A line of the pipe; what was written may be read after the exit.
ReadLine(l) ==
    /\ pc = "running" /\ result.rc = "none"
    /\ result' = HandleLine(result, l, looper.kind, looper.scan)
    /\ unsafe' = (unsafe \/ ParseOutputLine(l, looper.kind, looper.scan).stop = "safety")
    /\ UNCHANGED <<pc, child>> /\ Elsewhere

\* read_stream's handler of exceptions terminates the group itself.
ReaderFails ==
    /\ pc = "running" /\ looper.fails /\ result.rc = "none"
    /\ result' = [result EXCEPT !.stop = LocalError(@, "reader", looper.reads)]
    /\ child' = 0
    /\ UNCHANGED <<pc, unsafe>> /\ Elsewhere

\* wait_for_stop: a safety code kills the agent whatever kill_on_stop_pattern says.
KillOnStop ==
    /\ pc = "running" /\ child # 0
    /\ result.stop = "safety" \/ (looper.kill /\ result.stop \in Words \ {"none"})
    /\ child' = 0
    /\ UNCHANGED <<pc, result, unsafe>> /\ Elsewhere

ChildExits ==
    /\ pc = "running" /\ child # 0 /\ child' = 0
    /\ UNCHANGED <<pc, result, unsafe>> /\ Elsewhere

\* wait_for(process.wait()) expires: terminate, then kill, the group.
AttemptTimeout ==
    /\ pc = "running" /\ child # 0 /\ ~result.timedOut
    /\ result' = [result EXCEPT !.timedOut = TRUE,
                                !.stop = LocalError(@, "timeout", looper.reads)]
    /\ child' = 0
    /\ UNCHANGED <<pc, unsafe>> /\ Elsewhere

\* Reap with a bug: a reason to stop is enough to go on, ended or not.
Reap_Fault ==
    /\ pc = "running" /\ (child = 0 \/ result.stop # "none")
    /\ \E rc \in {"ok", "fail"} : result' = [result EXCEPT !.rc = rc]
    /\ pc' = "settle"
    /\ UNCHANGED <<child, unsafe>> /\ Elsewhere

\* The streams are at their end, or are given up after two seconds.
Reap ==
    /\ pc = "running" /\ child = 0
    /\ \E rc \in {"ok", "fail"} : result' = [result EXCEPT !.rc = rc]
    /\ pc' = "settle"
    /\ UNCHANGED <<child, unsafe>> /\ Elsewhere
-----------------------------------------------------------------------------
(* After the attempt. *)

\* The result is taken over and recorded; a safety code ends the run before
\* anything else is looked at.
Settle ==
    /\ pc = "settle"
    /\ loopMark' = (loopMark \/ result.marker)
    /\ session' = IF result.session THEN conv ELSE session
    /\ persistent' = IF result.session /\ ~looper.fresh THEN conv ELSE persistent
    /\ home' = IF result.session THEN conv ELSE home
    /\ IF result.stop = "safety" THEN StopRun("needs_review", "safety", "1")
       ELSE pc' = "after" /\ Record("running", "none") /\ UNCHANGED end_vars
    /\ UNCHANGED <<config, loop, prompt, prompts, retry, first, count, prevSize, past,
                   file_vars, attempt_vars, failed, unsafe>>

\* What the steps after a result have in common.
After ==
    /\ pc = "after"
    /\ UNCHANGED <<config, prompts, session_vars, breaker_vars, control, attempt_vars,
                   unsafe>>

Stay == UNCHANGED <<loop, prompt, retry, first, home, failed>>

ControlStop == After /\ Poll /\ PromptStop /\ StopRun("stopped", "control", "0") /\ Stay

\* `retry` is compared with the limit only, so it stops counting one above it.
Retried == Least(retry + 1, looper.maxTransient + 1)

LimitReached == TransientRetryLimitReached(result.stop, Retried, looper.maxTransient)

LimitStop ==
    /\ After /\ Poll /\ ~PromptStop /\ IsRetryable(result.stop) /\ LimitReached
    /\ StopRun("stopped", "limit", "0") /\ Stay

\* StillFirst with a bug: every retry starts a conversation of its own.
StillFirst_Fault == first

StillFirst == first /\ ~result.session /\ looper.kind # "claude"

Retry ==
    /\ After /\ Poll /\ ~PromptStop /\ IsRetryable(result.stop) /\ ~LimitReached
    /\ retry' = Retried
    /\ failed' = IF result.stop = "transient" /\ looper.maxTransient > 0
                 THEN failed + 1 ELSE failed
    /\ first' = StillFirst
    /\ Record("retrying", "signal") /\ pc' = "sleep"
    /\ UNCHANGED <<loop, prompt, home, end_vars>>

SignalStop ==
    /\ After /\ Poll /\ ~PromptStop
    /\ result.stop # "none" /\ ~IsRetryable(result.stop)
    /\ IF result.timedOut THEN StopRun("error", "timeout", "124")
                          ELSE StopRun("stopped", "signal", "0")
    /\ Stay

ExitStop ==
    /\ After /\ Poll /\ ~PromptStop /\ result.stop = "none"
    /\ result.rc = "fail" /\ ~looper.ignoreNonzero
    /\ StopRun("error", "exit", "1") /\ Stay

PromptDone ==
    /\ After /\ Poll /\ ~PromptStop /\ result.stop = "none"
    /\ result.rc = "ok" \/ looper.ignoreNonzero
    /\ NextPrompt
    /\ home' = conv /\ UNCHANGED <<disk, end_vars>>

WakeRetry ==
    /\ pc = "sleep" /\ GoTo("start")
    /\ UNCHANGED <<config, loop, prompt, prompts, retry, first, session_vars,
                   breaker_vars, file_vars, attempt_vars, home, failed, unsafe>>

WakeLoop ==
    /\ pc = "pause" /\ GoTo("top")
    /\ UNCHANGED <<config, loop, prompt, prompts, retry, first, session_vars,
                   breaker_vars, file_vars, attempt_vars, home, failed, unsafe>>
-----------------------------------------------------------------------------
(* The end of the supervisor's process. *)

Rest == UNCHANGED <<config, loop, prompt, prompts, retry, first, session_vars,
                    breaker_vars, file_vars, result, conv, recorded, disk, home,
                    failed, unsafe>>

Exit == pc = "stopped" /\ pc' = "gone" /\ UNCHANGED <<child, end_vars>> /\ Rest

\* The event loop turns a SIGINT into a cancellation where run_loop waits.
\* run_command is cancelled, not awaited, and cancelled again in its finally
\* clause as the loop closes: nobody terminates the agent, nothing is recorded.
Interrupted ==
    /\ sigint /\ pc \in {"running", "sleep", "pause"}
    /\ sigint' = FALSE /\ exit' = "130" /\ pc' = "gone"
    /\ UNCHANGED child /\ Rest

\* SIGTERM, SIGKILL, the end of the pane: nothing runs any more, the agent's
\* process, a session leader of its own, stays.
Die == /\ pc # "gone" /\ pc' = "gone" /\ exit' = "killed"
       /\ UNCHANGED <<child, sigint>> /\ Rest

OrphanExits == pc = "gone" /\ child # 0 /\ child' = 0 /\ UNCHANGED <<pc, end_vars>> /\ Rest

Supervise ==
    \/ LoopTop \/ BeginLoop \/ LoopEnd \/ CheckLoop \/ CheckRaises
    \/ StartAttempt \/ StartRaises \/ DryAttempt \/ RecordChild \/ RecordChildFails
    \/ KillOnStop \/ AttemptTimeout \/ Reap
    \/ Settle \/ ControlStop \/ LimitStop \/ Retry \/ SignalStop \/ ExitStop \/ PromptDone
    \/ WakeRetry \/ WakeLoop \/ Exit \/ Interrupted

Agent == (\E l \in looper.output : ReadLine(l)) \/ ReaderFails \/ ChildExits \/ OrphanExits
=============================================================================
