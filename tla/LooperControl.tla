---------------------------- MODULE LooperControl ----------------------------
(***************************************************************************)
(* A run of the looper with the clients that steer it: `codex-looper       *)
(* control stop` and the control pane (cli.py, control_panel.py), which    *)
(* append to control.jsonl, signal the processes state.json names and      *)
(* repair a state whose supervisor is gone (control.py, status_state.py).  *)
(*                                                                         *)
(* One client acts at a time; everything else happens between its steps.   *)
(* `seen` is what it loaded from state.json.  A pid is not given to another*)
(* process while it is of use to a client.                                 *)
(***************************************************************************)
EXTENDS LooperRun

ASSUME AsksAssumption == \A c \in Loopers : c.asks \subseteq ValidActions

VARIABLES
    client,      \* the point of the client and how hard it stops
    seen,        \* its copy of state.json: status, child_pgid
    commands     \* stop commands that may still come, each once (bound)

client_vars == <<client, seen, commands>>
all == <<vars, client_vars>>

Stages == {"idle", "load", "check", "repair", "interrupt", "terminate", "kill"}

ControlTypeOK ==
    /\ TypeOK
    /\ client \in [at : Stages, mode : {"repair", "now", "force"}]
    /\ seen \in [status : Statuses, child : {0} \cup Tokens]
    /\ commands \subseteq ValidActions

Nobody == [at |-> "idle", mode |-> "repair"]

ControlInit ==
    /\ Init
    /\ client = Nobody /\ seen = [status |-> "running", child |-> 0]
    /\ commands = looper.asks

Alive == pc # "gone"

\* What a client's step leaves alone of the run.
Untouched == UNCHANGED <<config, loop, prompt, prompts, retry, first, session_vars,
                         breaker_vars, read, asked, result, conv, home, failed, unsafe>>

Appended(action) == control' = Append(control, [action |-> action, since |-> 0])

\* append_control_command; interrupt_now goes on to signal, the others are left
\* to the supervisor.  The run directory was given, so that any state will do.
QueueStop(action) ==
    /\ client.at = "idle" /\ action \in commands /\ commands' = commands \ {action}
    /\ Appended(action)
    /\ \E mode \in {"now", "force"} :
          client' = IF action = "interrupt_now" THEN [at |-> "load", mode |-> mode] ELSE client
    /\ UNCHANGED <<seen, pc, child, recorded, disk, end_vars>> /\ Untouched

\* The pane's `r`, or codex-status loopers --repair-stale-loopers.
AskRepair ==
    /\ client.at = "idle" /\ disk.status \in Active /\ (~Alive \/ commands # {})
    /\ client' = [at |-> "load", mode |-> "repair"]
    /\ UNCHANGED <<seen, commands, pc, child, recorded, disk, control, end_vars>> /\ Untouched

LoadState ==
    /\ client.at = "load" /\ client' = [client EXCEPT !.at = "check"]
    /\ seen' = [status |-> disk.status, child |-> recorded]
    /\ UNCHANGED <<commands, pc, child, recorded, disk, control, end_vars>> /\ Untouched

\* Stale with a bug: a run that waits for a retry is taken for a dead one.
Stale_Fault == seen.status \in Active /\ (~Alive \/ seen.status = "retrying")

\* active_state_stale_reason: the pid of an active state is gone, a zombie, or
\* belongs to a process with another start time.
Stale == seen.status \in Active /\ ~Alive

CheckState ==
    /\ client.at = "check"
    /\ client' = IF Stale THEN [client EXCEPT !.at = "repair"]
                 ELSE IF client.mode = "repair" THEN Nobody
                 ELSE [client EXCEPT !.at = "interrupt"]
    /\ UNCHANGED <<seen, commands, pc, child, recorded, disk, control, end_vars>> /\ Untouched

\* stopped_state_from_stale: the copy, marked as ended from outside.
RepairState ==
    /\ client.at = "repair" /\ client' = Nobody
    /\ Record("stopped", "external") /\ recorded' = seen.child
    /\ UNCHANGED <<seen, commands, pc, child, control, end_vars>> /\ Untouched

\* stop_targets_from_state: the recorded process group, then the supervisor.
Targeted == seen.child # 0 /\ seen.child = child

\* What a signal that can be ignored does to the agent.
Signalled == child' = 0 \/ child' = child

SendInterrupt ==
    /\ client.at = "interrupt"
    /\ IF Targeted THEN Signalled ELSE child' = child
    /\ sigint' = Alive
    /\ client' = IF client.mode = "force" THEN [client EXCEPT !.at = "terminate"] ELSE Nobody
    /\ UNCHANGED <<seen, commands, pc, recorded, disk, control, exit>> /\ Untouched

\* After the grace, what still runs of the targets gets SIGTERM, then SIGKILL;
\* either ends the supervisor on the spot.
SendTerminate ==
    /\ client.at = "terminate" /\ client' = [client EXCEPT !.at = "kill"]
    /\ IF Targeted THEN Signalled ELSE child' = child
    /\ pc' = "gone" /\ exit' = IF Alive THEN "killed" ELSE exit
    /\ UNCHANGED <<seen, commands, recorded, disk, control, sigint>> /\ Untouched

SendKill ==
    /\ client.at = "kill" /\ client' = Nobody
    /\ child' = IF Targeted THEN 0 ELSE child
    /\ pc' = "gone" /\ exit' = IF Alive THEN "killed" ELSE exit
    /\ UNCHANGED <<seen, commands, recorded, disk, control, sigint>> /\ Untouched

Steer == \/ \E a \in ValidActions : QueueStop(a)
         \/ AskRepair \/ LoadState \/ CheckState \/ RepairState
         \/ SendInterrupt \/ SendTerminate \/ SendKill

ControlNext == \/ (Supervise \/ Agent \/ (looper.dies /\ Die)) /\ UNCHANGED client_vars
               \/ Steer

ControlSpec == ControlInit /\ [][ControlNext]_all

(* run_loop goes on by itself: it sleeps for a time, polls, and waits for an
   agent no longer than its timeout.  Agents need not end, clients need not
   finish what they began. *)
FairControlSpec == ControlSpec /\ WF_all(Supervise /\ UNCHANGED client_vars)
-----------------------------------------------------------------------------
(* poll_control_commands: a stop is obeyed at the next boundary.  After a stop
   for the prompt was appended at most the attempt that is just being started
   still begins, whatever is retried; after a stop for the loop at most one loop. *)
StopWithinOne == \A i \in DOMAIN control : control[i].since <= 1

(* The same as progress: a run that is told to stop ends, also one that would
   be retrying for ever, and also if its agent never answers. *)
StopEndsRun ==
    (\E i \in DOMAIN control : control[i].action \in PromptStops) ~> pc = "gone"

(* safety_policy_stop: once an exact safety code was read, nothing is sent any
   more and the run ends as needing review -- even if another reason was found
   first, the time ran out or an operator asked for a stop. *)
SafetyEndsRun ==
    unsafe => \/ pc \in {"running", "settle"}
              \/ pc = "stopped" /\ disk.status = "needs_review" /\ exit = "1"
              \/ pc = "gone" /\ exit \in {"1", "130", "killed"}

Streak(b) == /\ Len(past) >= looper.limit[b]
             /\ \A i \in (Len(past) - looper.limit[b] + 1)..Len(past) : b \in past[i]

(* The circuit breakers and the completion streak open exactly when the last
   loops in a row, as many as configured, met their condition: not earlier, and
   no further loop begins. *)
BreakersExact ==
    \A b \in {x \in Breakers : looper.limit[x] > 0} :
        /\ pc = "stopped" /\ disk.reason = b => Streak(b)
        /\ pc = "begin" => ~Streak(b)

(* docs/looper.md: "Rate-limit retries are uncapped", and "non-rate-limit
   transient retries are capped by max_transient_retries": the limit ends a run
   only after that many of them.  The code's retry_count counts both kinds. *)
TransientLimit ==
    pc = "stopped" /\ disk.reason = "limit" => failed >= looper.maxTransient

(* Exact sessions: within a loop (within the run, if sessions are kept) every
   attempt works in the conversation that worked on the prompts so far, retries
   of the first prompt included once that conversation is known. *)
OneConversation ==
    pc = "running" /\ looper.kind # "generic" /\ home # 0 => conv = home

(* A state.json that says the run ended is never wrong about it: its supervisor
   starts no agent any more, whoever wrote it. *)
StoppedMeansStopped == disk.status \notin Active => pc \in {"stopped", "gone"}

(* However it ends, short of being killed, a supervisor leaves an agent behind
   in two cases only: interrupted while the agent ran, and then state.json names
   that agent, or unable to write its pids.  A repair may write a copy of
   state.json loaded before over the pids. *)
AgentAccounted ==
    pc = "gone" /\ child # 0 /\ exit # "killed" =>
        /\ exit \in {"130", "1"}
        /\ disk.reason # "external" => (exit = "130" <=> recorded = child)
=============================================================================
