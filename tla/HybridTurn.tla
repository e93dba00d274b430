------------------------------ MODULE HybridTurn ------------------------------
(***************************************************************************)
(* Hybrid turns: hybrid.py pastes a prompt into the pane of an interactive *)
(* Codex or Claude and polls what the pane shows and what the agent writes *)
(* to its session file until it takes the turn for finished; run_loop then *)
(* sends the next prompt, the same one again, or none.                     *)
(*                                                                         *)
(* The controller, the agent and its display move independently: the pane  *)
(* is captured first and the file read later, a line may be seen half      *)
(* written, the display follows the agent late.  Pane contents are what    *)
(* classify_*_output makes of them.  The conversation of a pane writes the *)
(* file of the same number; files of earlier panes stay.  A message entered*)
(* while a turn runs goes into that turn (external: the agents' TUIs).  An *)
(* operator's note goes into the same input line, by the commands of       *)
(* control.py, which nothing keeps apart from those of run_turn.           *)
(***************************************************************************)
EXTENDS AgentOutput, Sequences

CONSTANTS
    Hybrids,      \* the configurations considered
    Attempts      \* prompts that may be sent altogether (bound)

Files == 1..Attempts
Says  == {"assistant", "tool_use", "limit", "safety"}  \* what a turn may have to say
Kinds == Says \cup {"meta", "started", "user", "answer", "end"}
TurnScreens == {"boot", "trust", "update"}             \* what a new pane may show

ASSUME HybridAssumption ==
    /\ Attempts \in Nat \ {0}
    /\ \A h \in Hybrids :
          /\ h.kind \in {"codex", "claude"} /\ h.sends \in 0..Attempts
          /\ h.says \subseteq Says /\ h.screens \subseteq TurnScreens
          /\ h.fresh \in BOOLEAN /\ h.lsof \in BOOLEAN /\ h.torn \in BOOLEAN
          /\ h.fails \in BOOLEAN /\ h.notes \in BOOLEAN

VARIABLES
    hybrid,       \* this run's configuration
    point,           \* the point of run_turn, or of run_loop around it
    attempt,      \* prompts sent so far
    pane, panes,  \* the controller's pane (0: none), panes made so far
    skipped,      \* the update prompt was answered
    path,         \* session_path (0: None)
    offset, logged, \* prompt_offset, logged_offset
    shot,         \* what the last capture showed
    stop,         \* stop_reason
    outcome,      \* of the last turn
    agent,        \* of the pane's process: what it is doing
    composer,     \* what stands in its input line
    turn, step,   \* the turn it works on (the attempt it began with), its part
    merged,       \* attempts whose message went into this turn
    shown,        \* what its display shows
    files, torn,  \* session files; the last line of the pane's is half written
    listed,       \* hybrid_pane_id in state.json
    note,         \* deliver_operator_note: its next step, its target, its status
    finished,     \* history: attempts whose turn ended successfully
    due           \* history: this poll began when the attempt's turn had settled

place_vars == <<hybrid, attempt, due>>
pane_vars  == <<pane, panes, skipped>>
poll_vars  == <<path, offset, logged, shot, stop, outcome>>
agent_vars == <<agent, composer, turn, step, merged, shown, files, torn, finished>>
note_vars  == <<listed, note>>
hybrid_vars == <<point, place_vars, pane_vars, poll_vars, agent_vars, note_vars>>

NoteTurn == Attempts + 1  \* a turn that began with a note

Event == [kind : Kinds, turn : 0..NoteTurn, ok : BOOLEAN]  \* a line of a session file
Outcomes == {"none", "done", "timeout"} \cup Stops
TurnPoints == {"idle", "waiting", "offset", "paste", "enter", "capture", "read", "assess",
           "settle", "over", "raised"}
ControllerTypeOK ==
    /\ hybrid \in Hybrids /\ point \in TurnPoints
    /\ attempt \in 0..Attempts /\ due \in BOOLEAN
    /\ pane \in {0} \cup Files /\ panes \in {0} \cup Files /\ skipped \in BOOLEAN
    /\ path \in {0} \cup Files /\ offset \in Nat /\ logged \in Nat
    /\ shot \in {"READY", "RUN", "ERR"} /\ stop \in Stops /\ outcome \in Outcomes
    /\ listed \in {0} \cup Files
AgentTypeOK ==
    /\ agent \in {"none", "boot", "trust", "update", "idle", "busy"}
    /\ composer \subseteq {"prompt", "note"} /\ turn \in 0..NoteTurn
    /\ step \in {"start", "user", "work", "more", "late"}
    /\ merged \subseteq 1..Attempts /\ shown \in {"READY", "RUN"}
    /\ files \in [Files -> Seq(Event)]
    /\ torn \in BOOLEAN /\ finished \subseteq 1..Attempts
NoteTypeOK ==
    note \in [at : {"load", "paste", "enter", "over"}, pane : {0} \cup Files,
              status : {"none", "recorded", "delivered", "failed"}]
HybridTypeOK == ControllerTypeOK /\ AgentTypeOK /\ NoteTypeOK

HybridInit ==
    /\ hybrid \in Hybrids /\ point = "idle"
    /\ attempt = 0
    /\ pane = 0 /\ panes = 0 /\ skipped = FALSE
    /\ path = 0 /\ offset = 0 /\ logged = 0 /\ shot = "ERR" /\ stop = "none"
    /\ outcome = "none"
    /\ agent = "none" /\ composer = {} /\ turn = 0 /\ step = "start" /\ merged = {}
    /\ shown = "READY" /\ files = [f \in Files |-> <<>>] /\ torn = FALSE
    /\ finished = {} /\ due = FALSE
    /\ listed = 0
    /\ note = [at |-> IF hybrid.notes THEN "load" ELSE "over", pane |-> 0, status |-> "none"]

Codex == hybrid.kind = "codex"
Proceed(p) == point' = p
-----------------------------------------------------------------------------
(* The pane. *)

\* ensure_started: tmux split-window; a pane that exists is taken as it is.
Split ==
    /\ point = "idle" /\ pane = 0 /\ panes < Attempts
    /\ \/ /\ pane' = panes + 1 /\ panes' = panes + 1 /\ skipped' = FALSE
          /\ agent' \in hybrid.screens /\ shown' = "READY" /\ composer' = {}
          /\ turn' = 0 /\ step' = "start" /\ merged' = {} /\ torn' = FALSE
          /\ Proceed("waiting") /\ UNCHANGED <<files, finished>>
       \/ hybrid.fails /\ Proceed("raised") /\ UNCHANGED <<pane_vars, agent_vars>>
    /\ UNCHANGED <<place_vars, poll_vars, note_vars>>

\* wait_until_ready: whatever shows no sign of work is READY, also a TUI that
\* has only begun to draw.
WaitReady ==
    /\ point = "waiting" /\ agent \in {"boot", "idle"} /\ Proceed("offset")
    /\ UNCHANGED <<place_vars, pane_vars, poll_vars, agent_vars, note_vars>>

\* The question about updates is answered once; its screen is not mistaken for
\* readiness afterwards.
SkipUpdate ==
    /\ point = "waiting" /\ agent = "update" /\ Codex /\ ~skipped
    /\ skipped' = TRUE /\ agent' \in {"boot", "update"}
    /\ UNCHANGED <<point, place_vars, pane, panes, poll_vars, composer, turn, step, merged,
                   shown, files, torn, finished, note_vars>>

\* A question about trust, or the time to get ready is over.
NotReady ==
    /\ point = "waiting" /\ Proceed("raised")
    /\ agent = "trust" \/ hybrid.fails \/ (agent = "update" /\ skipped)
    /\ UNCHANGED <<place_vars, pane_vars, poll_vars, agent_vars, note_vars>>

\* reset_hybrid_controller kills the pane's process and forgets its file.
ResetController ==
    /\ pane' = 0 /\ path' = 0 /\ agent' = "none" /\ composer' = {}
    /\ UNCHANGED <<panes, skipped, offset, logged, shot, stop, outcome, turn, step, merged, shown,
                   files, torn, finished>>
-----------------------------------------------------------------------------
(* The session file. *)

Exists(f) == f # 0 /\ files[f] # <<>>

\* Candidates with a bug: a file is judged by its last write alone.
Candidates_Fault == {f \in Files : Exists(f) /\ f \in {pane, pane - 1}}

\* Files that were written since the pane was started; Codex's also began since
\* then.  The file of the pane before may still have been written then.
Candidates == {f \in Files : Exists(f) /\ (f = pane \/ (~Codex /\ f + 1 = pane))}

\* The newest of them, or none that is new enough.
Newest == IF Candidates = {} THEN {0}
          ELSE IF pane \in Candidates THEN {pane} ELSE Candidates \cup {0}

\* discover_session_path: the file found before, the one lsof finds open, or
\* the newest candidate.
Discovered == IF Exists(path) THEN {path}
              ELSE IF hybrid.lsof /\ Exists(pane) THEN {pane}
              ELSE Newest

\* Claude's recent_session_path replaces the file by one written since the prompt.
Recent(found) == IF Codex THEN {found}
                 ELSE {IF f = 0 THEN found ELSE f : f \in Newest}

\* prompt_offset is the size of the file before the prompt is sent.
Offset ==
    /\ point = "offset" \/ (point = "idle" /\ pane # 0)
    /\ attempt < hybrid.sends /\ Proceed("paste")
    /\ \E f \in Discovered :
          /\ path' = f
          /\ offset' = IF f = 0 THEN 0 ELSE Len(files[f])
          /\ logged' = offset'
    /\ stop' = "none" /\ outcome' = "none" /\ UNCHANGED shot
    /\ UNCHANGED <<place_vars, pane_vars, agent_vars, note_vars>>

\* A TUI that is being drawn may drop what is pasted.
Typed(text) == \/ composer' = composer \cup {text}
               \/ agent = "boot" /\ UNCHANGED composer

\* The line is a turn of its own, or a message to the turn that runs.
Submit(text, k) ==
    LET mine == IF "prompt" \in text THEN {k} ELSE {} IN
    /\ composer' = {}
    /\ IF text # {} /\ agent = "idle"
       THEN /\ agent' = "busy" /\ step' = "start" /\ merged' = mine
            /\ turn' = IF mine = {} THEN NoteTurn ELSE k
       ELSE /\ merged' = IF agent = "busy" THEN merged \cup mine ELSE merged
            /\ UNCHANGED <<agent, turn, step>>

\* load-buffer and paste-buffer.
Paste ==
    /\ point = "paste"
    /\ \/ Proceed("enter") /\ Typed("prompt")
       \/ hybrid.fails /\ Proceed("raised") /\ UNCHANGED composer
    /\ UNCHANGED <<place_vars, pane_vars, poll_vars, agent, turn, step, merged, shown,
                   files, torn, finished, note_vars>>

\* send-keys Enter
Enter ==
    /\ point = "enter" /\ attempt' = attempt + 1 /\ Proceed("capture")
    /\ Submit(composer, attempt')
    /\ UNCHANGED <<hybrid, due, pane_vars, poll_vars, shown, files, torn, finished, note_vars>>

EnterFails ==
    /\ point = "enter" /\ hybrid.fails /\ Proceed("raised")
    /\ UNCHANGED <<place_vars, pane_vars, poll_vars, agent_vars, note_vars>>
-----------------------------------------------------------------------------
(* One poll of run_turn. *)

\* The attempt's own turn stands in the pane's file with all its parts.
Settled ==
    LET of(kinds) == \E i \in DOMAIN files[pane] :
                        LET e == files[pane][i]
                        IN e.turn = attempt /\ e.kind \in kinds /\ e.ok
    IN /\ pane # 0 /\ ~torn /\ agent = "idle" /\ of({"user"})
       /\ IF hybrid.kind = "codex" THEN of({"started"}) /\ of({"assistant"}) /\ of({"end"})
                                   ELSE of({"answer"})

\* capture_output; an empty or failed capture is ERR.
Capture ==
    /\ point = "capture" /\ Proceed("read")
    /\ shot' = shown \/ (hybrid.fails /\ shot' = "ERR")
    /\ due' = (Settled /\ shot' = "READY")
    /\ UNCHANGED <<hybrid, attempt, pane_vars, path, offset, logged, stop, outcome,
                   agent_vars, note_vars>>

Timeout ==
    /\ point = "capture" /\ Proceed("settle")
    /\ outcome' = IF stop = "none" THEN "timeout" ELSE stop
    /\ UNCHANGED <<place_vars, pane_vars, path, offset, logged, shot, stop, agent_vars, note_vars>>

\* Incomplete with a bug: half a line counts as read.
Incomplete_Fault(f) == FALSE

\* Codex's reader stops before a line that is not complete, Claude's does not.
Incomplete(f) == Codex /\ torn /\ f = pane

Readable(f) == Len(files[f]) - IF Incomplete(f) THEN 1 ELSE 0

\* What parse_output_line makes of an event; half a line is no JSON.
Signal(f, i) ==
    IF torn /\ f = pane /\ i = Len(files[f]) THEN "none"
    ELSE CASE files[f][i].kind = "safety" -> "safety"
           [] files[f][i].kind = "limit" -> "rate_limit"
           [] OTHER -> "none"

\* The stop reason after the events that are new: the one there is, or theirs,
\* which only a safety code replaces.
StopAfter(f, from, to) ==
    LET new == {Signal(f, i) : i \in (from + 1)..to}
    IN IF "safety" \in new THEN "safety"
       ELSE IF stop = "none" /\ "rate_limit" \in new THEN "rate_limit" ELSE stop

Has(events, kinds) == \E i \in DOMAIN events : events[i].kind \in kinds

\* TurnCompleted with a bug: the end of any turn counts.
TurnCompleted_Fault(events) ==
    \E i \in DOMAIN events : events[i].kind = "end" /\ events[i].ok

\* The turn that began last among these events ended, and successfully so.
TurnCompleted(events) ==
    \E i \in DOMAIN events :
       LET later == (i + 1)..Len(events)
           Ends(k) == events[k].kind = "end" /\ events[k].turn = events[i].turn
       IN /\ events[i].kind = "started" /\ \A k \in later : events[k].kind # "started"
          /\ \E k \in later : /\ Ends(k) /\ events[k].ok
                             /\ \A l \in (k + 1)..Len(events) : ~Ends(l)

\* assess_codex_hybrid_signals
CodexReady(events) ==
    /\ shot = "READY" /\ TurnCompleted(events)
    /\ Has(events, {"user"}) /\ Has(events, {"assistant"})

Said == {"assistant", "tool_use", "answer"}
LastSaid(events, kind) ==
    \E i \in DOMAIN events : /\ events[i].kind = kind
                             /\ \A k \in (i + 1)..Len(events) : events[k].kind \notin Said

\* assess_claude_hybrid_signals: an answer that ends the turn overrides a display
\* that lags; a request for a tool waits.
ClaudeReady(events) ==
    /\ Has(events, {"user"}) /\ Has(events, Said)
    /\ CASE shot = "ERR" -> FALSE
         [] shot = "RUN" -> LastSaid(events, "answer")
         [] OTHER -> ~LastSaid(events, "tool_use")

Events(f, from, to) == SubSeq(files[f], from + 1, to)

\* discover; no file yet.
NoFile ==
    /\ point = "read" /\ 0 \in Discovered /\ 0 \in Recent(0) /\ path' = 0 /\ Proceed("capture")
    /\ UNCHANGED <<place_vars, pane_vars, offset, logged, shot, stop, outcome, agent_vars,
                   note_vars>>

\* discover, read what is new, look for stop reasons -- a safety code first, the
\* others when the last line is complete.  Codex's readiness is read off the same
\* snapshot, Claude's off the file as it is afterwards.
ReadNew ==
    /\ point = "read"
    /\ \E found \in Discovered : \E f \in Recent(found) \ {0} :
          LET from == IF f = found THEN logged ELSE 0  \* read from its start if it is another
              why  == StopAfter(f, from, Readable(f))
          IN /\ path' = f /\ stop' = why /\ logged' = Readable(f)
             /\ offset' = IF f = found THEN offset ELSE 0
             /\ \/ /\ why = "safety" \/ (why # "none" /\ ~Incomplete(f))
                   /\ outcome' = why /\ Proceed("settle")
                \/ /\ why = "none" /\ ~Incomplete(f) /\ Codex
                   /\ CodexReady(Events(f, offset', logged'))
                   /\ outcome' = "done" /\ Proceed("settle")
                \/ /\ why = "none" /\ ~Incomplete(f) /\ ~Codex
                   /\ Proceed("assess") /\ UNCHANGED outcome
                \/ /\ why # "safety" /\ Codex
                   /\ Incomplete(f) \/ (why = "none" /\ ~CodexReady(Events(f, offset', logged')))
                   /\ Proceed("capture") /\ UNCHANGED outcome
    /\ UNCHANGED <<place_vars, pane_vars, shot, agent_vars, note_vars>>

Assess ==
    /\ point = "assess"
    /\ IF ClaudeReady(Events(path, offset, Len(files[path])))
       THEN Proceed("settle") /\ outcome' = "done"
       ELSE Proceed("capture") /\ UNCHANGED outcome
    /\ UNCHANGED <<place_vars, pane_vars, path, offset, logged, shot, stop, agent_vars, note_vars>>
-----------------------------------------------------------------------------
(* What run_loop does with the result. *)

\* state.json names the pane once run_turn has returned.
TakeResult ==
    /\ point = "settle"
    /\ \/ /\ outcome = "done" /\ hybrid.fresh
          /\ \/ Proceed("idle") /\ ResetController /\ listed' = 0
             \/ hybrid.fails /\ Proceed("raised") /\ listed' = pane
                /\ UNCHANGED <<pane_vars, poll_vars, agent_vars>>
       \/ /\ outcome = "rate_limit" \/ (outcome = "done" /\ ~hybrid.fresh)
          /\ Proceed("idle") /\ listed' = pane
          /\ UNCHANGED <<pane_vars, poll_vars, agent_vars>>
       \/ /\ outcome # "rate_limit"  \* no more prompts, or a reason to stop
          /\ Proceed("over") /\ listed' = pane
          /\ UNCHANGED <<pane_vars, poll_vars, agent_vars>>
    /\ UNCHANGED <<place_vars, note>>

Controller == \/ Split \/ WaitReady \/ SkipUpdate \/ NotReady \/ Offset \/ Paste
              \/ Enter \/ EnterFails \/ Capture \/ Timeout \/ NoFile \/ ReadNew \/ Assess
              \/ TakeResult
-----------------------------------------------------------------------------
(* The agent in the pane. *)

Undisturbed == UNCHANGED <<point, place_vars, pane_vars, poll_vars, note_vars>>

\* Its TUI is there; the file is made then or with the first message.
Boot ==
    /\ agent \in {"boot", "trust"} /\ agent' = "idle" /\ Undisturbed
    /\ UNCHANGED <<composer, turn, step, merged, shown, files, torn, finished>>

Open ==
    /\ pane # 0 /\ ~Exists(pane) /\ agent \in {"idle", "busy"} /\ Undisturbed
    /\ files' = [files EXCEPT ![pane] = <<[kind |-> "meta", turn |-> 0, ok |-> TRUE]>>]
    /\ UNCHANGED <<agent, composer, turn, step, merged, shown, torn, finished>>

Put(kind, ok) ==
    /\ files' = [files EXCEPT ![pane] = Append(@, [kind |-> kind, turn |-> turn, ok |-> ok])]
    /\ torn' \in {FALSE, hybrid.torn}

FirstLine == IF Codex THEN "started" ELSE "user"
LastLine  == IF Codex THEN "end" ELSE "answer"

\* The parts of a turn, each a line of the file; an error may still follow its end.
WriteLine ==
    /\ pane # 0 /\ Exists(pane) /\ ~torn /\ turn > 0 /\ Undisturbed
    /\ \/ /\ agent = "busy" /\ step = "start"
          /\ Put(FirstLine, TRUE)
          /\ step' = IF Codex THEN "user" ELSE "work"
          /\ UNCHANGED <<agent, finished>>
       \/ /\ agent = "busy" /\ step = "user" /\ Put("user", TRUE)
          /\ step' = "work" /\ UNCHANGED <<agent, finished>>
       \/ /\ agent = "busy" /\ step = "work" /\ step' = "more"
          /\ \E k \in hybrid.says : Put(k, TRUE)
          /\ UNCHANGED <<agent, finished>>
       \/ /\ agent = "busy" /\ step \in {"work", "more"} /\ step' = "late" /\ agent' = "idle"
          /\ \E ok \in {TRUE, ~Codex} : 
                /\ Put(LastLine, ok)
                /\ finished' = IF ok THEN finished \cup merged ELSE finished
       \/ /\ agent = "idle" /\ step = "late" /\ "safety" \in hybrid.says
          /\ Put("safety", TRUE) /\ step' = "start" /\ UNCHANGED <<agent, finished>>
    /\ UNCHANGED <<composer, turn, merged, shown>>

\* The rest of a line is written.
Flush ==
    /\ torn /\ torn' = FALSE /\ Undisturbed
    /\ UNCHANGED <<agent, composer, turn, step, merged, shown, files, finished>>

\* Somebody interrupts the turn in the pane.
Abort ==
    /\ agent = "busy" /\ agent' = "idle" /\ step' = "start" /\ Undisturbed
    /\ UNCHANGED <<composer, turn, merged, shown, files, torn, finished>>

Show ==
    /\ agent \in {"idle", "busy"} /\ shown' = IF agent = "busy" THEN "RUN" ELSE "READY"
    /\ shown' # shown /\ Undisturbed
    /\ UNCHANGED <<agent, composer, turn, step, merged, files, torn, finished>>

-----------------------------------------------------------------------------
(* An operator's note: `codex-looper control note`.                        *)

Noted(at, status) == note' = [note EXCEPT !.at = at, !.status = status]
note_rest == <<point, place_vars, pane_vars, poll_vars, shown, files, torn, finished, listed>>

\* resolve_operator_note_target: a pane that is named or found by a scan, or else
\* the one in the state that was read; there may be none, or none be wanted.
Resolve ==
    /\ note.at = "load"
    /\ \/ \E target \in {listed, pane} \ {0} :
             note' = [note EXCEPT !.at = "paste", !.pane = target]
       \/ listed = 0 /\ Noted("over", "failed")
       \/ Noted("over", "recorded")
    /\ UNCHANGED <<note_rest, agent, composer, turn, step, merged>>

PasteNote ==
    /\ note.at = "paste" /\ note.pane = pane
    /\ Typed("note") /\ Noted("enter", "none")
    /\ UNCHANGED <<note_rest, agent, turn, step, merged>>

EnterNote ==
    /\ note.at = "enter" /\ note.pane = pane
    /\ Submit(composer, attempt + 1) /\ Noted("over", "delivered")
    /\ UNCHANGED note_rest

\* A tmux command fails, because the pane is gone or otherwise; what was
\* pasted before stays in the line.
NoteFails ==
    /\ note.at \in {"paste", "enter"}
    /\ note.pane # pane \/ hybrid.fails
    /\ Noted("over", "failed")
    /\ UNCHANGED <<note_rest, agent, composer, turn, step, merged>>

Operator == Resolve \/ PasteNote \/ EnterNote \/ NoteFails

AgentActs == Boot \/ Open \/ WriteLine \/ Flush \/ Abort \/ Show

HybridNext == Controller \/ AgentActs \/ Operator
HybridSpec == HybridInit /\ [][HybridNext]_hybrid_vars
-----------------------------------------------------------------------------
(* CodexHybridController, "READY prompts and partial assistant messages alone
   cannot advance the loop": a turn is reported done only if the agent ended a
   turn that had this very prompt, successfully, whatever turns of earlier
   attempts were still under way when it was sent and whatever line an operator's
   note ended up in.  The one exception: a note had a turn of its own in this
   conversation; if that ended between an offset and the Enter after it, this
   prompt and each later one of the pane is a turn ahead of the agent. *)
DoneMeansFinished == hybrid.kind = "codex" /\ point = "settle" /\ outcome = "done" =>
    attempt \in finished \/ \E i \in DOMAIN files[path] : files[path][i].turn = NoteTurn

(* "Safety stops take precedence": no result but the safety stop is reported from
   a snapshot in which a safety error of the turn stands, be it half written or
   behind another reason to stop. *)
SafetyFirst ==
    hybrid.kind = "codex" /\ outcome \notin {"none", "safety"} /\ path # 0 =>
        \A i \in (offset + 1)..logged : files[path][i].kind # "safety"

(* Nothing finished is waited for: once the turn of a prompt has ended, is all in
   the file and shows in the pane, the very next poll ends run_turn, unless a further
   line is just being written or a note has begun a turn of its own -- also right
   after a fresh session replaced a conversation whose file is still the newest. *)
CompletionNoticed ==
    [][(point \in {"read", "assess"} /\ point' # point /\ due) =>
          \/ torn \/ turn = NoteTurn \/ point' = "assess"
          \/ point' = "settle" /\ outcome' # "none"]_hybrid_vars
=============================================================================
