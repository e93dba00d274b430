-------------------------------- MODULE MCPanes --------------------------------
(***************************************************************************)
(* Small instances, in one run of TLC, of the two components that read     *)
(* panes which others move: saves of a farm (FarmManifest) and the turns   *)
(* of a hybrid run (HybridTurn).  They share nothing: each behaviour is    *)
(* one of the former or one of the latter, and leaves the other alone.     *)
(***************************************************************************)
EXTENDS FarmManifest, HybridTurn, TLC

CONSTANTS c1, c2, p1, p2

\* Names of conversations and of panes are interchangeable.
Symmetries == Permutations(Convs) \cup Permutations(Panes)

\* Configurations of hybrid runs.
Base == [kind |-> "codex", fresh |-> FALSE, lsof |-> TRUE, torn |-> FALSE, fails |-> FALSE,
         screens |-> {"boot"}, says |-> {"assistant"}, sends |-> 3, notes |-> FALSE]

MCHybrids == {
    \* retries and safety errors; with fewer prompts, lines seen half written
    [Base EXCEPT !.says = {"assistant", "limit", "safety"}],
    [Base EXCEPT !.torn = TRUE, !.sends = 2, !.says = {"assistant", "limit", "safety"}],
    \* a fresh pane for every prompt, no open files to be seen
    [Base EXCEPT !.fresh = TRUE, !.lsof = FALSE, !.screens = {"boot", "trust", "update"},
                 !.fails = TRUE],
    [Base EXCEPT !.kind = "claude", !.fresh = TRUE, !.lsof = FALSE,
                 !.says = {"assistant", "tool_use", "limit"}],
    [Base EXCEPT !.kind = "claude", !.says = {"tool_use", "limit"}],
    \* a note while prompts are sent, in one pane or each in a fresh one
    [Base EXCEPT !.notes = TRUE, !.sends = 2, !.says = {"assistant", "limit"}],
    [Base EXCEPT !.fresh = TRUE, !.notes = TRUE, !.fails = TRUE, !.sends = 2]}
MCAttempts == 3

VARIABLE part      \* of the two, the one that moves

PanesInit == \/ /\ part = "farm" /\ Init
                /\ HybridInit /\ hybrid = (CHOOSE h \in Hybrids : TRUE)
             \/ /\ part = "turn" /\ HybridInit
                /\ Init /\ manifest = Absent

PanesNext == \/ part = "farm" /\ Next /\ UNCHANGED <<part, hybrid_vars>>
             \/ part = "turn" /\ HybridNext /\ UNCHANGED <<part, vars>>

PanesSpec == PanesInit /\ [][PanesNext]_<<part, vars, hybrid_vars>>
=============================================================================
