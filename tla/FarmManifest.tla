------------------------------ MODULE FarmManifest ------------------------------
(***************************************************************************)
(* Saving a farm: bin/codex-save reads the conversations of all panes one  *)
(* by one, while panes open, close and switch conversations, and           *)
(* bin/codex-manifest.py publishes the result in several durable steps,    *)
(* any of which may be the last.  Saves, repairs and explicit prunes of    *)
(* one manifest exclude each other by a flock.                             *)
(*                                                                         *)
(* A manifest is the set of conversations its rows name, and whether it is *)
(* malformed by rows without a command.  Names, directories, generic       *)
(* windows and panes of a shared server are left out.                      *)
(***************************************************************************)
EXTENDS Integers, FiniteSets

CONSTANTS
    Convs,        \* exact provider conversations
    Panes,        \* tmux panes of the farm
    Unknown,      \* a live provider pane without a verified identity
    Keeps,        \* values of CODEXFARM_MANIFEST_HISTORY_KEEP, 0 when unset
    MaxSaves      \* bound: operations on the manifest

ASSUME ManifestBounds == /\ MaxSaves \in Nat /\ Keeps \subseteq Nat
ASSUME Distinct == Unknown \notin Convs

VARIABLES
    open, shows,        \* each pane: it exists, the conversation of its TUI
    manifest,           \* the file; without conversations it does not exist
    history,            \* the snapshots in <manifest>.history
    receipt,            \* <manifest>.capture.json
    op,                 \* the process that holds the lock, and its locals
    saves,              \* operations begun
    pruned              \* history: a snapshot was pruned

paneVars == <<open, shows>>
vars == <<paneVars, manifest, history, receipt, op, saves, pruned>>

Content == [convs : SUBSET Convs, bad : BOOLEAN]
Absent  == [convs |-> {}, bad |-> FALSE]
SaveKinds == {"manual", "autosave", "merge", "best", "repair"}
Points  == {"idle", "capture", "publish", "archive", "snapshot", "write", "receipt", "prune"}

Op == [pc : Points, kind : SaveKinds, keep : Keeps \cup {0},
       initial : SUBSET Panes, todo : SUBSET Panes,
       renewed : BOOLEAN, switched : SUBSET Panes,
       found : SUBSET Convs, unresolved : BOOLEAN,
       previous : Content, content : Content,
       owed : SUBSET (Convs \cup {Unknown})]

Idle == [pc |-> "idle", kind |-> "manual", keep |-> 0, initial |-> {}, todo |-> {},
         renewed |-> FALSE, switched |-> {}, found |-> {}, unresolved |-> FALSE,
         previous |-> Absent, content |-> Absent, owed |-> {}]

TypeOK == /\ open \in [Panes -> BOOLEAN]
          /\ shows \in [Panes -> Convs \cup {Unknown}]
          /\ manifest \in Content
          /\ history \subseteq Content
          /\ receipt \in [of : Content, complete : BOOLEAN,
                          owed : SUBSET (Convs \cup {Unknown})]
          /\ op \in Op
          /\ saves \in 0..MaxSaves
          /\ pruned \in BOOLEAN

Init == /\ open = [p \in Panes |-> FALSE]
        /\ shows = [p \in Panes |-> Unknown]
        /\ \E c \in Convs : manifest \in {Absent, [convs |-> {c}, bad |-> TRUE]}
        /\ history = {}
        /\ receipt = [of |-> Absent, complete |-> FALSE, owed |-> {}]
        /\ op = Idle /\ saves = 0 /\ pruned = FALSE

-----------------------------------------------------------------------------
(* The farm.  A pane that was opened or respawned has a new process; a TUI
   may also switch its conversation within one process, which only the session
   hook tells.  Codex admits one writer per conversation. *)

Opened == {p \in Panes : open[p]}
Shown  == {shows[p] : p \in Opened}

Capturing == op.pc = "capture"

OpenPane(p) ==
    /\ ~open[p]
    /\ open' = [open EXCEPT ![p] = TRUE]
    /\ \E c \in (Convs \ Shown) \cup {Unknown} : shows' = [shows EXCEPT ![p] = c]
    /\ op' = [op EXCEPT !.renewed = @ \/ Capturing]
    /\ UNCHANGED <<manifest, history, receipt, saves, pruned>>

ClosePane(p) ==
    /\ open[p]
    /\ open' = [open EXCEPT ![p] = FALSE]
    /\ shows' = [shows EXCEPT ![p] = Unknown]
    /\ UNCHANGED <<manifest, history, receipt, op, saves, pruned>>

SwitchConversation(p) ==
    /\ open[p]
    /\ \E c \in (Convs \ Shown) \cup ({Unknown} \ {shows[p]}) :
          shows' = [shows EXCEPT ![p] = c]
    /\ op' = [op EXCEPT !.switched = IF Capturing THEN @ \cup {p} ELSE @]
    /\ UNCHANGED <<open, manifest, history, receipt, saves, pruned>>

-----------------------------------------------------------------------------
(* codex-save: capture.                                                    *)

Leave == op' = Idle

BeginSave(kind) ==
    /\ op.pc = "idle" /\ saves < MaxSaves
    /\ Opened # {}
    /\ saves' = saves + 1
    /\ op' = [Idle EXCEPT !.pc = "capture", !.kind = kind,
                     !.initial = Opened, !.todo = Opened]
    /\ UNCHANGED <<paneVars, manifest, history, receipt, pruned>>

(* A pane that is gone by now ends the save. *)
CapturePane(p) ==
    /\ Capturing /\ p \in op.todo
    /\ IF ~open[p] THEN Leave
       ELSE /\ op' = [op EXCEPT !.todo = @ \ {p},
                                !.found = @ \cup ({shows[p]} \cap Convs),
                                !.unresolved = @ \/ shows[p] = Unknown]
    /\ UNCHANGED <<paneVars, manifest, history, receipt, saves, pruned>>

(* The list of panes and of their processes is the first one. *)
Steady_Count == Cardinality(Opened) = Cardinality(op.initial)
Steady == Opened = op.initial /\ ~op.renewed

(* The checks after the last pane.  "owed" is history: what the panes show at
   this moment, except where a TUI switched during the capture. *)
EndCapture ==
    /\ Capturing /\ op.todo = {}
    /\ IF /\ op.unresolved => op.kind = "best"
          /\ op.found # {}
          /\ Steady
       THEN /\ op' = [op EXCEPT !.pc = "publish", !.initial = {},
                        !.switched = {}, !.renewed = FALSE,
                        !.owed = {shows[p] : p \in Opened \ op.switched}]
       ELSE Leave
    /\ UNCHANGED <<paneVars, manifest, history, receipt, saves, pruned>>

-----------------------------------------------------------------------------
(* codex-manifest.py: publish, repair_empty_commands, prune_history.       *)

\* An equal snapshot keeps its first name.
Archive(c) == history' = history \cup ({c} \ {Absent})

(* A malformed predecessor has no rows to merge. *)
Merged == op.found \cup IF op.kind \in {"merge", "best"} /\ ~manifest.bad
                              THEN manifest.convs ELSE {}

ReadPrevious ==
    /\ op.pc = "publish"
    /\ LET content == [convs |-> Merged, bad |-> FALSE] IN
       op' = [op EXCEPT !.pc = IF manifest = content THEN "receipt" ELSE "archive",
                        !.previous = manifest, !.content = content, !.found = {}]
    /\ UNCHANGED <<paneVars, manifest, history, receipt, saves, pruned>>

ArchivePrevious_IfValid ==
    /\ op.pc = "archive"
    /\ IF op.previous.bad THEN UNCHANGED history ELSE Archive(op.previous)
    /\ op' = [op EXCEPT !.pc = "snapshot"]
    /\ UNCHANGED <<paneVars, manifest, receipt, saves, pruned>>

ArchivePrevious ==
    /\ op.pc = "archive"
    /\ Archive(op.previous)
    /\ op' = [op EXCEPT !.pc = "snapshot"]
    /\ UNCHANGED <<paneVars, manifest, receipt, saves, pruned>>

Omits_Fewer(previous, content) == Cardinality(content.convs) < Cardinality(previous.convs)
Omits(previous, content) == ~(previous.convs \subseteq content.convs)

(* Autosave cannot read a malformed predecessor and fails; it archives a
   capture that omits a saved conversation and keeps the restore point. *)
ArchiveContent ==
    /\ op.pc = "snapshot"
    /\ Archive(op.content)
    /\ LET o == op IN
       IF o.kind = "autosave" /\ o.previous.bad
       THEN Leave
       ELSE /\ op' = [op EXCEPT !.pc =
                        IF o.kind = "autosave" /\ Omits(o.previous, o.content)
                        THEN "receipt" ELSE "write"]
    /\ UNCHANGED <<paneVars, manifest, receipt, saves, pruned>>

WriteManifest ==
    /\ op.pc = "write"
    /\ manifest' = op.content
    /\ IF op.kind = "repair" THEN Leave
       ELSE op' = [op EXCEPT !.pc = "receipt"]
    /\ UNCHANGED <<paneVars, history, receipt, saves, pruned>>

(* record_capture describes the manifest as it finds it, and prunes if the
   environment asks for it. *)
RecordCapture ==
    /\ op.pc = "receipt"
    /\ IF manifest.bad
       THEN UNCHANGED receipt /\ Leave
       ELSE /\ receipt' = [of |-> manifest, complete |-> ~op.unresolved, owed |-> op.owed]
            /\ \E keep \in Keeps : op' = IF keep = 0 THEN Idle
                                       ELSE [Idle EXCEPT !.pc = "prune", !.keep = keep]
    /\ UNCHANGED <<paneVars, manifest, history, saves, pruned>>

(* The newest names survive, and whatever equals the manifest.  A name is the
   wall time of its archiving, so that with a clock set back any snapshot may
   have one of the newest. *)
NewestNames(keep) ==
    {names \in SUBSET history : names = history \/ Cardinality(names) = keep}
Survives(c, newest) == c \in newest \/ c = manifest

(* One file after the other: cut short, or where a file changed meanwhile, it
   leaves some of what it could remove. *)
Prune ==
    /\ op.pc = "prune"
    /\ \E newest \in NewestNames(op.keep) :
         \E gone \in SUBSET {c \in history : ~Survives(c, newest)} :
            /\ history' = history \ gone
            /\ pruned' = (pruned \/ gone # {})
    /\ Leave
    /\ UNCHANGED <<paneVars, manifest, receipt, saves>>

(* `codex-restore --repair-manifest` drops rows without a command; an empty
   result is refused.  `codex-manifest.py prune-history` only prunes. *)
BeginRepair ==
    /\ op.pc = "idle" /\ saves < MaxSaves
    /\ manifest.bad
    /\ saves' = saves + 1
    /\ op' = [Idle EXCEPT !.pc = "archive", !.kind = "repair", !.previous = manifest,
                           !.content = [manifest EXCEPT !.bad = FALSE]]
    /\ UNCHANGED <<paneVars, manifest, history, receipt, pruned>>

BeginPrune(keep) ==
    /\ op.pc = "idle" /\ saves < MaxSaves
    /\ keep > 0
    /\ saves' = saves + 1
    /\ op' = [Idle EXCEPT !.pc = "prune", !.keep = keep]
    /\ UNCHANGED <<paneVars, manifest, history, receipt, pruned>>

-----------------------------------------------------------------------------
(* The process ends early: killed, or a tmux or file operation failed. *)
Crash ==
    /\ op.pc # "idle"
    /\ Leave
    /\ UNCHANGED <<paneVars, manifest, history, receipt, saves, pruned>>

Work == \/ \E p \in Panes : CapturePane(p)
        \/ EndCapture \/ ReadPrevious \/ ArchivePrevious \/ ArchiveContent
        \/ WriteManifest \/ RecordCapture \/ Prune

(* All of them under manifest_lock, which the process keeps until it ends. *)
Begin == \/ \E kind \in {"manual", "autosave", "merge", "best"} : BeginSave(kind)
         \/ BeginRepair
         \/ \E keep \in Keeps : BeginPrune(keep)

Farm == \E p \in Panes : OpenPane(p) \/ ClosePane(p) \/ SwitchConversation(p)

Next == Work \/ Begin \/ Crash \/ Farm

Spec == Init /\ [][Next]_vars

-----------------------------------------------------------------------------
(* Properties.                                                             *)

(* README.md:404-406: a manual save "retains its predecessor", and every
   distinct snapshot is retained.  Whatever replaces the restore point, the
   one replaced is in the history by then -- also one that is malformed, that
   an interrupted save had put there, or that was pruned before. *)
PredecessorRetained ==
    [][manifest' # manifest /\ manifest # Absent => manifest \in history]_vars

(* README.md:406-410: only a manual save may give up a saved conversation.
   Autosave, merge, best-effort and repair replace a readable restore point
   by one that has all of it, whatever the panes did during the capture. *)
OnlyManualDrops ==
    [][manifest' # manifest /\ op.kind # "manual" =>
         \/ manifest.bad /\ op.kind # "repair"
         \/ manifest.convs \subseteq manifest'.convs]_vars

Recoverable == manifest.convs \cup UNION {c.convs : c \in history}

(* capture-check *)
Vouched == receipt.complete /\ receipt.of = manifest

(* docs/resource-reliability.md:16,106: a receipt that passes capture-check
   means complete pane coverage.  While the manifest is the one the receipt
   describes, every conversation the panes showed at the last check of that
   capture can be restored from the manifest or from its history -- across a
   crash between manifest and receipt, repairs and later saves that failed.
   A TUI that switched during the capture is excepted, and so are farms that
   prune. *)
CoverageHolds == Vouched /\ ~pruned
                    => receipt.owed \subseteq Recoverable
=============================================================================
