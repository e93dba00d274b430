----------------------------- MODULE AgentOutput -----------------------------
(***************************************************************************)
(* What the looper reads out of the lines an agent prints (retry.py, and   *)
(* handle_line of process.py), as pure operators.                          *)
(*                                                                         *)
(* A line is a record of what the classification looks at:                 *)
(*   json    it parses as a JSON object                                    *)
(*   type    that object's "type"                                          *)
(*   code    an exact safety code stands where provider errors carry it    *)
(*   quiet   a success, an informational subtype, an allowed rate limit    *)
(*   error   other signs of an error (subtype, "error", "exception"; of a  *)
(*           rate limit event: a status the looper does not know)          *)
(*   id      it names the conversation                                     *)
(*   marker  it matches the completion marker                              *)
(*   word    the kind of the first stop pattern its text matches           *)
(*   stream  "stdout" or "stderr"                                          *)
(***************************************************************************)

EXTENDS Integers

Words == {"none", "rate_limit", "transient", "fatal"}
Stops == Words \cup {"safety", "timeout", "reader"}

Line == [json : BOOLEAN, code : BOOLEAN, quiet : BOOLEAN, error : BOOLEAN,
         id : BOOLEAN, marker : BOOLEAN, word : Words,
         type : {"error", "turn.failed", "event_msg", "thread.started", "init",
                 "rate_limit_event", "result", "system", "message"},
         stream : {"stdout", "stderr"}]

\* What one attempt has reported so far (ProcessResult).
Result == [stop : Stops, session : BOOLEAN, marker : BOOLEAN,
           timedOut : BOOLEAN, rc : {"none", "ok", "fail"}]

NoResult == [stop |-> "none", session |-> FALSE, marker |-> FALSE,
             timedOut |-> FALSE, rc |-> "none"]

\* Exact codes count only inside the error envelopes of a provider.
StructuredSafety(l, agent) ==
    /\ l.json /\ l.code
    /\ l.type \in {"error", "turn.failed"} \/ (agent = "codex" /\ l.type = "event_msg")

NamesSession(l, agent) ==
    /\ l.json /\ l.id
    /\ CASE agent = "codex" -> l.type = "thread.started"
         [] agent = "gemini" -> l.type = "init"
         [] OTHER -> agent = "claude"

ErrorLike(l) == l.error \/ l.type \in {"error", "turn.failed", "rate_limit_event",
                                       "result", "system"}

StopSignal(l, agent, scan) ==
    CASE StructuredSafety(l, agent) -> "safety"
      [] l.json /\ l.quiet /\ l.type \in {"rate_limit_event", "result", "system"} -> "none"
      [] l.json /\ l.type = "rate_limit_event" /\ ~l.error -> "rate_limit"
      [] l.json -> IF ErrorLike(l) THEN l.word ELSE "none"
      [] OTHER -> IF l.stream = "stderr" \/ scan THEN l.word ELSE "none"

ParseOutputLine(l, agent, scan) ==
    [stop    |-> StopSignal(l, agent, scan),
     session |-> NamesSession(l, agent) /\ ~StructuredSafety(l, agent)]

\* handle_line with a bug: the first reason stays whatever comes after it.
Takes_Fault(r, stop) == stop # "none" /\ r.stop = "none"

\* The first reason stays, unless a safety code comes after another one.
Takes(r, stop) == stop # "none" /\ (r.stop = "none" \/ (stop = "safety" /\ r.stop # "safety"))

HandleLine(r, l, agent, scan) ==
    LET parsed == ParseOutputLine(l, agent, scan)
    IN [r EXCEPT !.marker = @ \/ l.marker,
                 !.session = @ \/ parsed.session,
                 !.stop = IF Takes(r, parsed.stop) THEN parsed.stop ELSE @]

\* The first reason stays here too.  The stop patterns are matched against the
\* text of a local error as well: "local timeout after 429 seconds" is a quota.
LocalKinds == {"none", "rate_limit", "transient"}
LocalError(stop, name, reads) == IF stop # "none" THEN stop
                                 ELSE IF reads = "none" THEN name ELSE reads

IsRetryable(stop) == stop \in {"rate_limit", "transient"}

\* Quota waits are not capped, other retries are (0: they are not either).
TransientRetryLimitReached(stop, retries, max) ==
    max > 0 /\ stop # "rate_limit" /\ retries > max
=============================================================================
