--------------------------- MODULE MCLooperControl ---------------------------
(* Configurations of a run, each with the lines its agent may print. *)
EXTENDS LooperControl

Plain == [json |-> TRUE, code |-> FALSE, quiet |-> FALSE, error |-> FALSE,
          id |-> FALSE, marker |-> FALSE, word |-> "none",
          type |-> "message", stream |-> "stdout"]

MCStarted   == [Plain EXCEPT !.type = "thread.started", !.id = TRUE]
MCMarker    == [Plain EXCEPT !.marker = TRUE]
MCRejected  == [Plain EXCEPT !.type = "rate_limit_event"]
MCBusy      == [Plain EXCEPT !.json = FALSE, !.stream = "stderr", !.word = "transient"]
MCAborted   == [Plain EXCEPT !.type = "error", !.word = "fatal"]
MCSafety    == [Plain EXCEPT !.type = "turn.failed", !.code = TRUE, !.word = "rate_limit"]

NoLimits == [b \in Breakers |-> 0]
Base == [kind |-> "codex", fresh |-> TRUE, prompts |-> {1}, maxTransient |-> 1,
         maxLoops |-> 2, limit |-> NoLimits, kill |-> TRUE, scan |-> FALSE,
         ignoreNonzero |-> FALSE, dryRun |-> FALSE, fails |-> FALSE, dies |-> FALSE,
         reads |-> "none", asks |-> {}, output |-> {MCStarted}]

MCLoopers == {
    \* every signal of the agent, against the retry limits
    [Base EXCEPT !.output = {MCStarted, MCRejected, MCBusy, MCAborted, MCSafety},
                 !.maxTransient = 2, !.kill = FALSE, !.fails = TRUE, !.maxLoops = 1],
    \* conversations kept over prompts and loops
    [Base EXCEPT !.output = {MCStarted, MCRejected}, !.prompts = {1, 2}, !.fresh = FALSE,
                 !.ignoreNonzero = TRUE, !.maxLoops = 0],
    [Base EXCEPT !.output = {MCStarted, MCRejected}, !.prompts = {2}, !.ignoreNonzero = TRUE,
                 !.kind = "codex"],
    [Base EXCEPT !.output = {[MCStarted EXCEPT !.type = "system"], MCRejected},
                 !.kind = "claude", !.prompts = {2}, !.reads = "transient"],
    \* a dry run
    [Base EXCEPT !.kind = "generic", !.dryRun = TRUE, !.prompts = {2}],
    \* stops while a quota is waited for
    [Base EXCEPT !.output = {MCRejected}, !.prompts = {2}, !.kind = "generic",
                 !.asks = {"stop_after_prompt", "stop_after_loop"},
                 !.maxLoops = 0, !.maxTransient = 0],
    [Base EXCEPT !.output = {MCRejected}, !.kind = "generic", !.maxLoops = 0,
                 !.asks = {"interrupt_now", "stop_after_prompt"}, !.maxTransient = 0,
                 !.reads = "rate_limit", !.fails = TRUE],
    [Base EXCEPT !.output = {MCRejected, MCSafety}, !.kind = "generic",
                 !.asks = {"interrupt_now"}, !.dies = TRUE, !.maxTransient = 0],
    \* the breakers
    [Base EXCEPT !.kind = "generic", !.output = {MCMarker, MCRejected}, !.maxLoops = 0,
                 !.limit = [completion |-> 2, no_progress |-> 2,
                            output_decline |-> 0, output_match |-> 0]],
    [Base EXCEPT !.kind = "generic", !.output = {}, !.maxLoops = 0, !.fails = TRUE,
                 !.limit = [completion |-> 0, no_progress |-> 0,
                            output_decline |-> 2, output_match |-> 2]]}

\* A quota and a busy provider, against one transient retry.
MCQuota == {[Base EXCEPT !.output = {MCRejected, MCBusy}, !.maxLoops = 1]}
MCSizes == 0..2
=============================================================================
