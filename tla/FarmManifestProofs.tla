--------------------------- MODULE FarmManifestProofs ---------------------------
(***************************************************************************)
(* For all sets of conversations and panes, any retention and any number   *)
(* of saves: only a manual save gives up a saved conversation, what a save *)
(* replaces is retained, a complete receipt covers the panes, and pruning  *)
(* keeps the selected snapshot.                                            *)
(***************************************************************************)
EXTENDS FarmManifest, TLAPS

Typed == /\ open \in [Panes -> BOOLEAN]
         /\ shows \in [Panes -> Convs \cup {Unknown}]
         /\ manifest \in Content
         /\ op \in Op

(* What publish compared is still the manifest when it writes, and what it is
   about to write has the conversations its kind of save may not give up. *)
NothingDropped ==
    /\ op.pc \in {"capture", "publish"} => op.kind # "repair"
    /\ op.pc \in {"archive", "snapshot", "write"} =>
         /\ op.previous = manifest
         /\ op.kind \in {"merge", "best"} /\ ~manifest.bad =>
               manifest.convs \subseteq op.content.convs
         /\ op.kind = "repair" => op.content.convs = manifest.convs
         /\ op.kind = "autosave" /\ op.pc = "write" =>
               ~manifest.bad /\ manifest.convs \subseteq op.content.convs

Rest == /\ history \subseteq Content
        /\ receipt \in [of : Content, complete : BOOLEAN, owed : SUBSET (Convs \cup {Unknown})]
        /\ saves \in 0..MaxSaves /\ pruned \in BOOLEAN

(* What a save is about to replace is in the history. *)
Retained == op.pc \in {"snapshot", "write"} /\ manifest # Absent => manifest \in history

(* What a capture, and the save that follows it, has of the panes: all they
   show, unless it knows better. *)
CaptureOK == op.pc = "capture" /\ ~op.renewed =>
    \A p \in op.initial \ (op.todo \cup op.switched) :
        open[p] => shows[p] \in op.found \/ (shows[p] = Unknown /\ op.unresolved)
SavedOK == op.kind # "repair" /\ ~op.unresolved =>
    /\ op.pc = "publish" => op.owed \subseteq op.found
    /\ op.pc \in {"archive", "snapshot", "write", "receipt"} =>
          op.owed \subseteq op.content.convs
ContentOK == op.pc = "receipt" =>
    /\ op.kind # "repair"
    /\ op.content \in {manifest, Absent} \cup history

(* A complete receipt is covered by what it describes or by the history, also
   while the manifest is another one. *)
Archived  == UNION {c.convs : c \in history}
ReceiptOK == receipt.complete /\ ~pruned => receipt.owed \subseteq receipt.of.convs \cup Archived

Locals   == CaptureOK /\ SavedOK /\ ContentOK
CoverInv == Locals /\ ReceiptOK

-----------------------------------------------------------------------------
(* The process between two operations is a typed one. *)
LEMMA IdleTyped == Idle \in Op /\ Idle.pc = "idle"
  BY DEF Idle, Op, Points, SaveKinds, Content, Absent

(* Panes, manifest and the locals of the operation keep their shape. *)
LEMMA TypedInvariant == Spec => []Typed
<1>1. Init => Typed
  <2> SUFFICES ASSUME Init PROVE Typed
    OBVIOUS
  <2>1. manifest \in Content
    <3>1. PICK c \in Convs : manifest \in {Absent, [convs |-> {c}, bad |-> TRUE]}
      BY DEF Init
    <3>2. Absent \in Content
      BY DEF Content, Absent
    <3>3. [convs |-> {c}, bad |-> TRUE] \in Content
      BY DEF Content
    <3>. QED  BY <3>1, <3>2, <3>3
  <2>2. open \in [Panes -> BOOLEAN] /\ shows \in [Panes -> Convs \cup {Unknown}]
    BY DEF Init
  <2>3. op = Idle
    BY DEF Init
  <2>. QED  BY <2>1, <2>2, <2>3, IdleTyped DEF Typed
<1>2. Typed /\ [Next]_vars => Typed'
  <2> SUFFICES ASSUME Typed, [Next]_vars PROVE Typed'
    OBVIOUS
  <2> USE IdleTyped DEF Typed
  <2>1. ASSUME NEW p \in Panes, OpenPane(p) PROVE Typed'
    <3>1. op' \in Op
      BY <2>1 DEF OpenPane, Op, Capturing
    <3>. QED  BY <2>1, <3>1 DEF OpenPane
  <2>2. ASSUME NEW p \in Panes, ClosePane(p) PROVE Typed'
    BY <2>2 DEF ClosePane
  <2>3. ASSUME NEW p \in Panes, SwitchConversation(p) PROVE Typed'
    <3>1. op' \in Op
      BY <2>3 DEF SwitchConversation, Op
    <3>. QED  BY <2>3, <3>1 DEF SwitchConversation
  <2>4. ASSUME NEW kind \in {"manual", "autosave", "merge", "best"}, BeginSave(kind) PROVE Typed'
    <3>1. Opened \subseteq Panes
      BY DEF Opened
    <3>2. op' \in Op
      BY <2>4, <3>1 DEF BeginSave, Op, Points, SaveKinds
    <3>. QED  BY <2>4, <3>2 DEF BeginSave, paneVars
  <2>5. ASSUME NEW p \in Panes, CapturePane(p) PROVE Typed'
    <3>1. op' \in Op
      <4>1. CASE op' = Idle
        BY <4>1
      <4>2. CASE op' # Idle
        <5>1. op' = [op EXCEPT !.todo = op.todo \ {p},
                               !.found = op.found \cup ({shows[p]} \cap Convs),
                               !.unresolved = op.unresolved \/ shows[p] = Unknown]
          BY <2>5, <4>2 DEF CapturePane, Leave
        <5>2. /\ op.todo \ {p} \in SUBSET Panes
              /\ op.found \cup ({shows[p]} \cap Convs) \in SUBSET Convs
              /\ (op.unresolved \/ shows[p] = Unknown) \in BOOLEAN
          BY DEF Op
        <5>. QED  BY <5>1, <5>2 DEF Op
      <4>. QED  BY <4>1, <4>2
    <3>. QED  BY <2>5, <3>1 DEF CapturePane, paneVars
  <2>6. CASE EndCapture
    <3>1. {shows[p] : p \in Opened \ op.switched} \subseteq Convs \cup {Unknown}
      BY DEF Opened
    <3>2. op' \in Op
      <4>1. CASE op' = Idle
        BY <4>1
      <4>2. CASE op' # Idle
        <5>1. op' = [op EXCEPT !.pc = "publish", !.initial = {}, !.switched = {},
                               !.renewed = FALSE, !.owed = {shows[p] : p \in Opened \ op.switched}]
          BY <2>6, <4>2 DEF EndCapture, Leave
        <5>. QED  BY <3>1, <5>1 DEF Op, Points
      <4>. QED  BY <4>1, <4>2
    <3>. QED  BY <2>6, <3>2 DEF EndCapture, paneVars
  <2>7. CASE ReadPrevious
    <3>1. [convs |-> Merged, bad |-> FALSE] \in Content
      BY DEF Merged, Content, Op
    <3>2. op' \in Op
      BY <2>7, <3>1 DEF ReadPrevious, Op, Points
    <3>. QED  BY <2>7, <3>2 DEF ReadPrevious, paneVars
  <2>8. CASE ArchivePrevious
    <3>1. op' \in Op
      BY <2>8 DEF ArchivePrevious, Op, Points
    <3>. QED  BY <2>8, <3>1 DEF ArchivePrevious, paneVars
  <2>9. CASE ArchiveContent
    <3>1. op' \in Op
      BY <2>9 DEF ArchiveContent, Leave, Op, Points
    <3>. QED  BY <2>9, <3>1 DEF ArchiveContent, paneVars
  <2>10. CASE WriteManifest
    <3>1. op' \in Op /\ op.content \in Content
      BY <2>10 DEF WriteManifest, Leave, Op, Points
    <3>. QED  BY <2>10, <3>1 DEF WriteManifest, paneVars
  <2>11. CASE RecordCapture
    <3>1. ASSUME NEW keep \in Keeps
          PROVE  [Idle EXCEPT !.pc = "prune", !.keep = keep] \in Op
      BY DEF Op, Points
    <3>2. op' = Idle \/ \E keep \in Keeps : op' = [Idle EXCEPT !.pc = "prune", !.keep = keep]
      BY <2>11 DEF RecordCapture, Leave
    <3>3. op' \in Op
      BY <3>1, <3>2
    <3>. QED  BY <2>11, <3>3 DEF RecordCapture, paneVars
  <2>12. CASE BeginRepair
    <3>1. op' \in Op
      <4>1. manifest \in Content /\ [manifest EXCEPT !.bad = FALSE] \in Content
        BY DEF Content
      <4>. QED  BY <2>12, <4>1 DEF BeginRepair, Op, Points, SaveKinds
    <3>. QED  BY <2>12, <3>1 DEF BeginRepair, paneVars
  <2>13. ASSUME NEW keep \in Keeps, BeginPrune(keep) PROVE Typed'
    <3>1. op' \in Op
      BY <2>13 DEF BeginPrune, Op, Points, SaveKinds
    <3>. QED  BY <2>13, <3>1 DEF BeginPrune, paneVars
  <2>14. CASE Prune \/ Crash
    BY <2>14 DEF Prune, Crash, Leave, paneVars
  <2>15. CASE UNCHANGED vars
    BY <2>15 DEF vars, paneVars
  <2>. QED  BY <2>1, <2>2, <2>3, <2>4, <2>5, <2>6, <2>7, <2>8, <2>9, <2>10, <2>11,
               <2>12, <2>13, <2>14, <2>15 DEF Next, Farm, Begin, Work
<1>. QED  BY <1>1, <1>2, PTL DEF Spec

(* Nothing is dropped between the comparison and the write, whatever the
   panes do meanwhile. *)
LEMMA DropStep == Typed /\ NothingDropped /\ [Next]_vars => NothingDropped'
<1> SUFFICES ASSUME Typed, NothingDropped, [Next]_vars PROVE NothingDropped'
  OBVIOUS
<1>1. ASSUME UNCHANGED manifest, UNCHANGED <<op>> PROVE NothingDropped'
  BY <1>1 DEF NothingDropped
<1>2. ASSUME op'.pc \in {"idle", "receipt", "prune"} PROVE NothingDropped'
  BY <1>2 DEF NothingDropped
<1>3. ASSUME NEW p \in Panes, OpenPane(p) \/ ClosePane(p) \/ SwitchConversation(p)
      PROVE  NothingDropped'
  <2>1. /\ UNCHANGED manifest /\ op'.pc = op.pc /\ op'.kind = op.kind
        /\ op'.previous = op.previous /\ op'.content = op.content
    BY <1>3 DEF OpenPane, ClosePane, SwitchConversation, Typed, Op
  <2>. QED  BY <2>1 DEF NothingDropped
<1>4. ASSUME NEW p \in Panes, CapturePane(p) PROVE NothingDropped'
  <2>1. \/ op'.pc = "idle"
        \/ op'.pc = "capture" /\ op.pc = "capture" /\ op'.kind = op.kind
    BY <1>4, IdleTyped DEF CapturePane, Capturing, Leave, Typed, Op
  <2>. QED  BY <2>1 DEF NothingDropped
<1>5. CASE EndCapture
  <2>1. \/ op'.pc = "idle"
        \/ op'.pc = "publish" /\ op.pc = "capture" /\ op'.kind = op.kind
    BY <1>5, IdleTyped DEF EndCapture, Capturing, Leave, Typed, Op
  <2>. QED  BY <2>1 DEF NothingDropped
<1>6. CASE ReadPrevious
  <2>1. /\ UNCHANGED manifest /\ op'.kind = op.kind
        /\ op.pc = "publish" /\ op'.pc \in {"receipt", "archive"}
        /\ op'.previous = manifest /\ op'.content = [convs |-> Merged, bad |-> FALSE]
    BY <1>6 DEF ReadPrevious, Typed, Op
  <2>2. op.kind \in {"merge", "best"} /\ ~manifest.bad => manifest.convs \subseteq Merged
    BY DEF Merged
  <2>. QED  BY <2>1, <2>2 DEF NothingDropped
<1>7. CASE ArchivePrevious
  <2>1. /\ UNCHANGED manifest /\ op.pc = "archive" /\ op'.pc = "snapshot" /\ op'.kind = op.kind
        /\ op'.previous = op.previous /\ op'.content = op.content
    BY <1>7 DEF ArchivePrevious, Typed, Op
  <2>. QED  BY <2>1 DEF NothingDropped
<1>8. CASE ArchiveContent
  <2>1. CASE op' = Idle
    BY <1>2, <2>1, IdleTyped
  <2>2. CASE op' # Idle
    <3>1. /\ UNCHANGED manifest /\ op.pc = "snapshot" /\ op'.kind = op.kind
          /\ op'.previous = op.previous /\ op'.content = op.content
          /\ op'.pc \in {"receipt", "write"}
      BY <1>8, <2>2 DEF ArchiveContent, Leave, Typed, Op
    <3>2. op'.pc = "write" /\ op.kind = "autosave" =>
             ~op.previous.bad /\ op.previous.convs \subseteq op.content.convs
      BY <1>8, <2>2 DEF ArchiveContent, Omits, Leave, Typed, Op
    <3>. QED  BY <3>1, <3>2 DEF NothingDropped
  <2>. QED  BY <2>1, <2>2
<1>9. CASE WriteManifest \/ RecordCapture \/ Prune \/ Crash
  <2>1. op'.pc \in {"receipt", "prune", "idle"}
    BY <1>9, IdleTyped DEF WriteManifest, RecordCapture, Prune, Crash, Leave, Idle, Typed, Op
  <2>. QED  BY <1>2, <2>1
<1>10. CASE BeginRepair
  <2>1. /\ UNCHANGED manifest /\ op'.previous = manifest
        /\ op'.kind = "repair" /\ op'.pc = "archive"
        /\ op'.content.convs = manifest.convs
    BY <1>10 DEF BeginRepair, Idle, Typed, Content
  <2>. QED  BY <2>1 DEF NothingDropped
<1>11. ASSUME NEW keep \in Keeps, BeginPrune(keep) PROVE NothingDropped'
  <2>1. op'.pc = "prune"
    BY <1>11 DEF BeginPrune, Idle
  <2>. QED  BY <1>2, <2>1
<1>12. CASE UNCHANGED vars
  BY <1>1, <1>12 DEF vars
<1>13. ASSUME NEW kind \in {"manual", "autosave", "merge", "best"}, BeginSave(kind)
      PROVE  NothingDropped'
  <2>1. op'.pc = "capture" /\ op'.kind = kind
    BY <1>13 DEF BeginSave, Idle
  <2>. QED  BY <1>13, <2>1 DEF NothingDropped
<1>. QED  BY <1>3, <1>4, <1>5, <1>6, <1>7, <1>8, <1>9, <1>10, <1>11, <1>12, <1>13
          DEF Next, Farm, Begin, Work

-----------------------------------------------------------------------------
(* Only WriteManifest changes the manifest, and what it writes has all of a
   readable restore point unless the operator saved by hand. *)
THEOREM OnlyManualDropsHolds == Spec => OnlyManualDrops
<1> DEFINE Drops == manifest' # manifest /\ op.kind # "manual" =>
                      \/ manifest.bad /\ op.kind # "repair"
                      \/ manifest.convs \subseteq manifest'.convs
<1>1. Init => NothingDropped
  BY IdleTyped DEF Init, NothingDropped
<1>2. Typed /\ NothingDropped /\ [Next]_vars => Drops
  <2> SUFFICES ASSUME Typed, NothingDropped, [Next]_vars PROVE Drops
    OBVIOUS
  <2>1. manifest' = manifest \/ WriteManifest
    BY DEF Next, Farm, Begin, Work, OpenPane, ClosePane, SwitchConversation, BeginSave,
           CapturePane, EndCapture, ReadPrevious, ArchivePrevious, ArchiveContent,
           RecordCapture, Prune, BeginRepair, BeginPrune, Crash, vars
  <2>2. CASE WriteManifest
    <3>1. op.pc = "write" /\ manifest' = op.content
      BY <2>2 DEF WriteManifest
    <3>2. op.kind \in {"manual", "autosave", "merge", "best", "repair"}
      BY DEF Typed, Op, SaveKinds
    <3>. QED  BY <3>1, <3>2 DEF NothingDropped
  <2>. QED  BY <2>1, <2>2
<1>3. Typed /\ NothingDropped /\ [Next]_vars => NothingDropped'
  BY DropStep
<1>. QED  BY <1>1, <1>2, <1>3, TypedInvariant, PTL DEF Spec, OnlyManualDrops

-----------------------------------------------------------------------------
(* The files keep their shape. *)
LEMMA RestStep == ASSUME Typed, Rest, [Next]_vars PROVE Rest'
<1> USE DEF Rest
<1>1. ASSUME UNCHANGED <<history, receipt, pruned>>,
             saves' = saves \/ (saves < MaxSaves /\ saves' = saves + 1)
      PROVE  Rest'
  BY <1>1, ManifestBounds
<1>2. CASE ArchivePrevious
  <2>1. op.previous \in Content
    BY DEF Typed, Op
  <2>. QED  BY <1>2, <2>1 DEF ArchivePrevious, Archive
<1>3. CASE ArchiveContent
  <2>1. op.content \in Content
    BY DEF Typed, Op
  <2>. QED  BY <1>3, <2>1 DEF ArchiveContent, Archive
<1>4. CASE RecordCapture
  <2>1. \/ receipt' = receipt
        \/ receipt' = [of |-> manifest, complete |-> ~op.unresolved, owed |-> op.owed]
    BY <1>4 DEF RecordCapture
  <2>2. manifest \in Content /\ op.owed \subseteq Convs \cup {Unknown}
    BY DEF Typed, Op
  <2>3. (~op.unresolved) \in BOOLEAN
    OBVIOUS
  <2>4. [of |-> manifest, complete |-> ~op.unresolved, owed |-> op.owed]
           \in [of : Content, complete : BOOLEAN, owed : SUBSET (Convs \cup {Unknown})]
    BY <2>2, <2>3
  <2>. QED  BY <1>4, <2>1, <2>4 DEF RecordCapture
<1>5. CASE Prune
  BY <1>5 DEF Prune
<1>6. CASE Farm \/ Begin \/ Crash \/ UNCHANGED vars
  BY <1>1, <1>6 DEF Farm, Begin, OpenPane, ClosePane, SwitchConversation, BeginSave, BeginRepair,
                    BeginPrune, Crash, vars
<1>7. CASE (\E p \in Panes : CapturePane(p)) \/ EndCapture \/ ReadPrevious \/ WriteManifest
  BY <1>1, <1>7 DEF CapturePane, EndCapture, ReadPrevious, WriteManifest
<1>. QED  BY <1>2, <1>3, <1>4, <1>5, <1>6, <1>7 DEF Next, Work

(* Every reachable state of the panes, the files and the operation at work has
   the declared shape. *)
THEOREM TypeCorrect == Spec => []TypeOK
<1>1. Init => Rest
  <2>1. Absent \in Content
    BY DEF Absent, Content
  <2>2. [of |-> Absent, complete |-> FALSE, owed |-> {}]
           \in [of : Content, complete : BOOLEAN, owed : SUBSET (Convs \cup {Unknown})]
    BY <2>1
  <2>3. 0 \in 0..MaxSaves
    BY ManifestBounds
  <2>. QED  BY <2>2, <2>3 DEF Init, Rest
<1>2. Typed /\ Rest /\ [Next]_vars => Rest'
  BY RestStep
<1>3. Typed /\ Rest => TypeOK
  BY DEF Typed, Rest, TypeOK
<1>. QED  BY <1>1, <1>2, <1>3, TypedInvariant, PTL DEF Spec

-----------------------------------------------------------------------------
(* What a save replaces is in the history by then. *)
LEMMA NewManifest == ASSUME [Next]_vars PROVE manifest' = manifest \/ WriteManifest
  BY DEF Next, Farm, Begin, Work, OpenPane, ClosePane, SwitchConversation, BeginSave,
         CapturePane, EndCapture, ReadPrevious, ArchivePrevious, ArchiveContent,
         RecordCapture, Prune, BeginRepair, BeginPrune, Crash, vars

(* The history only grows, except by pruning. *)
LEMMA HistoryGrows ==
    ASSUME [Next]_vars PROVE Prune \/ (history \subseteq history' /\ pruned' = pruned)
  BY DEF Next, Farm, Begin, Work, OpenPane, ClosePane, SwitchConversation, BeginSave,
         CapturePane, EndCapture, ReadPrevious, ArchivePrevious, ArchiveContent, Archive,
         RecordCapture, WriteManifest, BeginRepair, BeginPrune, Crash, vars

(* How an operation reaches the points where it writes. *)
LEMMA PointStep ==
  ASSUME Typed, [Next]_vars
  PROVE  /\ op'.pc = "snapshot" => op.pc = "snapshot" \/ ArchivePrevious
         /\ op'.pc = "write" => op.pc = "write" \/ ArchiveContent
         /\ op.pc \in {"snapshot", "write"} /\ op'.pc = op.pc =>
               \/ \E p \in Panes : OpenPane(p) \/ ClosePane(p) \/ SwitchConversation(p)
               \/ UNCHANGED vars
<1> USE IdleTyped DEF Typed, Leave
<1>1. CASE \E p \in Panes : OpenPane(p) \/ ClosePane(p) \/ SwitchConversation(p)
  <2>1. op'.pc = op.pc
    BY <1>1 DEF OpenPane, ClosePane, SwitchConversation, Op
  <2>. QED  BY <1>1, <2>1
<1>2. ASSUME op'.pc \notin {"snapshot", "write"}
      PROVE  op'.pc # op.pc \/ op.pc \notin {"snapshot", "write"}
  BY <1>2
<1>3. ASSUME NEW p \in Panes, CapturePane(p) PROVE op'.pc \notin {"snapshot", "write"}
  BY <1>3 DEF CapturePane, Capturing, Op
<1>4. ASSUME EndCapture \/ ReadPrevious \/ RecordCapture \/ WriteManifest \/ Prune \/ Crash
      PROVE  op'.pc \notin {"snapshot", "write"}
  <2>1. ASSUME RecordCapture PROVE op'.pc \in {"idle", "prune"}
    <3>1. op' = Idle \/ \E keep \in Keeps : op' = [Idle EXCEPT !.pc = "prune", !.keep = keep]
      BY <2>1 DEF RecordCapture
    <3>. QED  BY <3>1 DEF Idle
  <2>2. ASSUME EndCapture \/ ReadPrevious \/ WriteManifest
        PROVE  op'.pc \in {"idle", "publish", "archive", "receipt"}
    BY <2>2 DEF EndCapture, ReadPrevious, WriteManifest, Op
  <2>3. ASSUME Prune \/ Crash PROVE op'.pc = "idle"
    <3>1. op' = Idle
      BY <2>3 DEF Prune, Crash
    <3>. QED  BY <3>1
  <2>. QED  BY <1>4, <2>1, <2>2, <2>3
<1>5. ASSUME \/ \E kind \in {"manual", "autosave", "merge", "best"} : BeginSave(kind)
             \/ BeginRepair \/ \E keep \in Keeps : BeginPrune(keep)
      PROVE  op'.pc \notin {"snapshot", "write"}
  <2>1. ASSUME \E kind \in {"manual", "autosave", "merge", "best"} : BeginSave(kind)
        PROVE  op'.pc = "capture"
    BY <2>1 DEF BeginSave, Idle
  <2>2. ASSUME \E keep \in Keeps : BeginPrune(keep) PROVE op'.pc = "prune"
    BY <2>2 DEF BeginPrune, Idle
  <2>3. ASSUME BeginRepair PROVE op'.pc = "archive"
    BY <2>3 DEF BeginRepair, Idle
  <2>. QED  BY <1>5, <2>1, <2>2, <2>3
<1>6. CASE ArchivePrevious
  BY <1>6 DEF ArchivePrevious, Op
<1>7. CASE ArchiveContent
  BY <1>7 DEF ArchiveContent, Op
<1>8. CASE UNCHANGED vars
  BY <1>8 DEF vars
<1>. QED  BY <1>1, <1>2, <1>3, <1>4, <1>5, <1>6, <1>7, <1>8 DEF Next, Farm, Begin, Work

(* Whatever replaces the restore point, the one replaced is in the history by
   then: also one that is malformed, that an interrupted save had put there, or
   that was pruned before. *)
THEOREM PredecessorRetainedHolds == Spec => PredecessorRetained
<1> DEFINE Kept == manifest' # manifest /\ manifest # Absent => manifest \in history
<1>1. Init => NothingDropped /\ Retained
  BY IdleTyped DEF Init, NothingDropped, Retained
<1>2. Typed /\ NothingDropped /\ Retained /\ [Next]_vars => Retained'
  <2> SUFFICES ASSUME Typed, NothingDropped, Retained, [Next]_vars,
                      op'.pc \in {"snapshot", "write"}, manifest' # Absent
               PROVE  manifest' \in history'
    BY DEF Retained
  <2>1. CASE ArchivePrevious
    <3>1. op.previous = manifest /\ manifest' = manifest /\ Archive(op.previous)
      BY <2>1 DEF ArchivePrevious, NothingDropped
    <3>. QED  BY <3>1 DEF Archive
  <2>2. CASE ArchiveContent
    <3>1. op.pc = "snapshot" /\ manifest' = manifest /\ history \subseteq history'
      BY <2>2 DEF ArchiveContent, Archive
    <3>. QED  BY <3>1 DEF Retained
  <2>3. CASE op.pc \in {"snapshot", "write"} /\ op'.pc = op.pc
    <3>1. UNCHANGED <<manifest, history>>
      BY <2>3, PointStep DEF OpenPane, ClosePane, SwitchConversation, vars
    <3>. QED  BY <2>3, <3>1 DEF Retained
  <2>. QED  BY <2>1, <2>2, <2>3, PointStep
<1>3. Typed /\ NothingDropped /\ [Next]_vars => NothingDropped'
  BY DropStep
<1>4. Retained /\ [Next]_vars => Kept
  BY NewManifest DEF WriteManifest, Retained
<1>. QED  BY <1>1, <1>2, <1>3, <1>4, TypedInvariant, PTL DEF Spec, PredecessorRetained

-----------------------------------------------------------------------------
(* What a capture found reaches the manifest or the history. *)
LEMMA LocalsStep ==
  ASSUME Typed, NothingDropped, Locals, [Next]_vars
  PROVE  Locals'
<1> USE IdleTyped DEF Typed, Leave, Locals
<1>a. CaptureOK /\ SavedOK /\ ContentOK
  OBVIOUS
<1>1. ASSUME op'.pc \in {"idle", "prune"} PROVE Locals'
  BY <1>1 DEF CaptureOK, SavedOK, ContentOK
<1>2. ASSUME NEW p \in Panes, OpenPane(p) PROVE Locals'
  <2>1. /\ \A q \in Panes \ {p} : open'[q] = open[q] /\ shows'[q] = shows[q]
        /\ UNCHANGED <<manifest, history>>
        /\ op' = [op EXCEPT !.renewed = op.renewed \/ Capturing]
    BY <1>2 DEF OpenPane
  <2>2. /\ op'.pc = op.pc /\ op'.kind = op.kind /\ op'.unresolved = op.unresolved
        /\ op'.owed = op.owed /\ op'.found = op.found /\ op'.content = op.content
        /\ op'.renewed = (op.renewed \/ Capturing)
    BY <2>1 DEF Op
  <2>. QED  BY <1>a, <2>1, <2>2 DEF CaptureOK, SavedOK, ContentOK, Capturing
<1>3. ASSUME NEW p \in Panes, ClosePane(p) PROVE Locals'
  <2>1. /\ \A q \in Panes \ {p} : open'[q] = open[q] /\ shows'[q] = shows[q]
        /\ open'[p] = FALSE /\ UNCHANGED <<manifest, history, op>>
    BY <1>3 DEF ClosePane
  <2>2. op.initial \subseteq Panes
    BY DEF Op
  <2>. QED  BY <1>a, <2>1, <2>2 DEF CaptureOK, SavedOK, ContentOK
<1>4. ASSUME NEW p \in Panes, SwitchConversation(p) PROVE Locals'
  <2>1. /\ \A q \in Panes \ {p} : shows'[q] = shows[q]
        /\ UNCHANGED <<open, manifest, history>>
        /\ op' = [op EXCEPT !.switched = IF Capturing THEN op.switched \cup {p} ELSE op.switched]
    BY <1>4 DEF SwitchConversation
  <2>2. /\ op'.pc = op.pc /\ op'.kind = op.kind /\ op'.unresolved = op.unresolved
        /\ op'.owed = op.owed /\ op'.found = op.found /\ op'.content = op.content
        /\ op'.renewed = op.renewed /\ op'.initial = op.initial /\ op'.todo = op.todo
        /\ op'.switched = IF Capturing THEN op.switched \cup {p} ELSE op.switched
        /\ op.initial \subseteq Panes
    BY <2>1 DEF Op
  <2>3. CaptureOK'
    BY <1>a, <2>1, <2>2 DEF CaptureOK, Capturing
  <2>. QED  BY <1>a, <2>1, <2>2, <2>3 DEF SavedOK, ContentOK
<1>5. ASSUME NEW kind \in {"manual", "autosave", "merge", "best"}, BeginSave(kind) PROVE Locals'
  <2>1. op'.pc = "capture" /\ op'.initial = op'.todo
    BY <1>5 DEF BeginSave, Idle
  <2>. QED  BY <2>1 DEF CaptureOK, SavedOK, ContentOK
<1>6. ASSUME NEW p \in Panes, CapturePane(p) PROVE Locals'
  <2>1. CASE op' = Idle
    BY <1>1, <2>1
  <2>2. CASE op' # Idle
    <3>1. /\ op' = [op EXCEPT !.todo = op.todo \ {p},
                              !.found = op.found \cup ({shows[p]} \cap Convs),
                              !.unresolved = op.unresolved \/ shows[p] = Unknown]
          /\ op.pc = "capture" /\ UNCHANGED paneVars
      BY <1>6, <2>2 DEF CapturePane, Capturing
    <3>2. /\ op'.pc = "capture" /\ op'.todo = op.todo \ {p} /\ op'.initial = op.initial
          /\ op'.found = op.found \cup ({shows[p]} \cap Convs)
          /\ op'.unresolved = (op.unresolved \/ shows[p] = Unknown)
          /\ op'.renewed = op.renewed /\ op'.switched = op.switched
      BY <3>1 DEF Op
    <3>3. shows[p] \in op'.found \/ (shows[p] = Unknown /\ op'.unresolved)
      BY <3>2
    <3>. QED  BY <1>a, <3>1, <3>2, <3>3 DEF CaptureOK, SavedOK, ContentOK, paneVars
  <2>. QED  BY <2>1, <2>2
<1>7. CASE EndCapture
  <2>1. CASE op' = Idle
    BY <1>1, <2>1
  <2>2. CASE op' # Idle
    <3>1. /\ op.pc = "capture" /\ op.todo = {} /\ Opened = op.initial /\ ~op.renewed
          /\ op' = [op EXCEPT !.pc = "publish", !.initial = {}, !.switched = {},
                              !.renewed = FALSE, !.owed = {shows[p] : p \in Opened \ op.switched}]
      BY <1>7, <2>2 DEF EndCapture, Capturing, Steady
    <3>2. /\ op'.pc = "publish" /\ op'.found = op.found /\ op'.unresolved = op.unresolved
          /\ op'.owed = {shows[p] : p \in Opened \ op.switched}
      BY <3>1 DEF Op
    <3>3. ~op.unresolved => \A p \in Opened \ op.switched : shows[p] \in op.found
      BY <1>a, <3>1 DEF CaptureOK, Opened
    <3>. QED  BY <3>2, <3>3 DEF CaptureOK, SavedOK, ContentOK
  <2>. QED  BY <2>1, <2>2
<1>8. CASE ReadPrevious
  <2>1. /\ op.pc = "publish" /\ op'.kind = op.kind /\ op'.unresolved = op.unresolved
        /\ op'.owed = op.owed /\ op'.content = [convs |-> Merged, bad |-> FALSE]
        /\ op'.pc = IF manifest = op'.content THEN "receipt" ELSE "archive"
        /\ manifest' = manifest
    BY <1>8 DEF ReadPrevious, Op
  <2>2. op.found \subseteq op'.content.convs /\ op.kind # "repair"
    BY <2>1 DEF Merged, NothingDropped
  <2>. QED  BY <1>a, <2>1, <2>2 DEF CaptureOK, SavedOK, ContentOK
<1>9. CASE ArchivePrevious
  <2>1. /\ op.pc = "archive" /\ op'.pc = "snapshot" /\ op'.kind = op.kind
        /\ op'.unresolved = op.unresolved /\ op'.owed = op.owed /\ op'.content = op.content
    BY <1>9 DEF ArchivePrevious, Op
  <2>. QED  BY <1>a, <2>1 DEF CaptureOK, SavedOK, ContentOK
<1>10. CASE ArchiveContent
  <2>1. CASE op' = Idle
    BY <1>1, <2>1
  <2>2. CASE op' # Idle
    <3>1. /\ op.pc = "snapshot" /\ op'.kind = op.kind /\ op'.unresolved = op.unresolved
          /\ op'.owed = op.owed /\ op'.content = op.content
          /\ op'.pc = "write" \/ (op'.pc = "receipt" /\ op.kind = "autosave")
          /\ history' = history \cup ({op.content} \ {Absent}) /\ manifest' = manifest
      BY <1>10, <2>2 DEF ArchiveContent, Archive, Op
    <3>. QED  BY <1>a, <3>1 DEF CaptureOK, SavedOK, ContentOK
  <2>. QED  BY <2>1, <2>2
<1>11. CASE WriteManifest
  <2>1. CASE op' = Idle
    BY <1>1, <2>1
  <2>2. CASE op' # Idle
    <3>1. /\ op.pc = "write" /\ op'.kind = op.kind /\ op'.unresolved = op.unresolved
          /\ op'.owed = op.owed /\ op'.content = op.content /\ op'.pc = "receipt"
          /\ op.kind # "repair" /\ manifest' = op.content
      BY <1>11, <2>2 DEF WriteManifest, Op
    <3>. QED  BY <1>a, <3>1 DEF CaptureOK, SavedOK, ContentOK
  <2>. QED  BY <2>1, <2>2
<1>12. CASE RecordCapture \/ Prune \/ Crash \/ \E keep \in Keeps : BeginPrune(keep)
  <2>1. op' = Idle \/ \E keep \in Keeps : op' = [Idle EXCEPT !.pc = "prune", !.keep = keep]
    BY <1>12 DEF RecordCapture, Prune, Crash, BeginPrune
  <2>2. op'.pc \in {"idle", "prune"}
    BY <2>1 DEF Idle
  <2>. QED  BY <1>1, <2>2
<1>13. CASE BeginRepair
  <2>1. op'.kind = "repair" /\ op'.pc = "archive"
    BY <1>13 DEF BeginRepair, Idle
  <2>. QED  BY <2>1 DEF CaptureOK, SavedOK, ContentOK
<1>14. CASE UNCHANGED vars
  BY <1>a, <1>14 DEF vars, paneVars, CaptureOK, SavedOK, ContentOK
<1>. QED  BY <1>2, <1>3, <1>4, <1>5, <1>6, <1>7, <1>8, <1>9, <1>10, <1>11, <1>12, <1>13,
             <1>14 DEF Next, Farm, Begin, Work

(* Only a save that ends changes the receipt, and only pruning takes from the
   history what may cover it. *)
LEMMA ReceiptStep ==
  ASSUME Typed, Locals, ReceiptOK, [Next]_vars
  PROVE  ReceiptOK'
<1>1. receipt' = receipt \/ RecordCapture
  BY DEF Next, Farm, Begin, Work, OpenPane, ClosePane, SwitchConversation, BeginSave,
         CapturePane, EndCapture, ReadPrevious, ArchivePrevious, ArchiveContent, WriteManifest,
         Prune, BeginRepair, BeginPrune, Crash, vars
<1>2. CASE receipt' = receipt /\ history \subseteq history' /\ pruned' = pruned
  <2>1. Archived \subseteq Archived'
    BY <1>2 DEF Archived
  <2>. QED  BY <1>2, <2>1 DEF ReceiptOK
<1>3. CASE receipt' = receipt /\ Prune
  <2>1. ~pruned' => history' = history /\ ~pruned
    BY <1>3 DEF Prune
  <2>. QED  BY <1>3, <2>1 DEF ReceiptOK, Archived
<1>4. CASE RecordCapture /\ receipt' # receipt
  <2>1. /\ op.pc = "receipt" /\ history' = history
        /\ receipt' = [of |-> manifest, complete |-> ~op.unresolved, owed |-> op.owed]
    BY <1>4 DEF RecordCapture
  <2>2. receipt'.complete => op.owed \subseteq op.content.convs
    BY <2>1 DEF Locals, SavedOK, ContentOK
  <2>3. op.content.convs \subseteq manifest.convs \cup Archived
    BY <2>1 DEF Locals, ContentOK, Archived, Absent
  <2>. QED  BY <2>1, <2>2, <2>3 DEF ReceiptOK, Archived
<1>. QED  BY <1>1, <1>2, <1>3, <1>4, HistoryGrows DEF RecordCapture, Prune

(* A receipt that passes capture-check means complete coverage: for all panes
   and conversations, whatever opened, closed, switched or crashed during the
   captures and saves so far, what the panes showed when the receipt's capture
   was checked can be restored, unless an operator had snapshots pruned. *)
THEOREM CoverageHoldsAlways == Spec => []CoverageHolds
<1>1. Init => NothingDropped /\ Locals /\ ReceiptOK
  BY IdleTyped DEF Init, NothingDropped, Locals, CaptureOK, SavedOK, ContentOK, ReceiptOK
<1>2. Typed /\ NothingDropped /\ [Next]_vars => NothingDropped'
  BY DropStep
<1>3. Typed /\ NothingDropped /\ Locals /\ [Next]_vars => Locals'
  BY LocalsStep
<1>4. Typed /\ Locals /\ ReceiptOK /\ [Next]_vars => ReceiptOK'
  BY ReceiptStep
<1>5. ReceiptOK => CoverageHolds
  BY DEF ReceiptOK, CoverageHolds, Vouched, Recoverable, Archived
<1>. QED  BY <1>1, <1>2, <1>3, <1>4, <1>5, TypedInvariant, PTL DEF Spec

=============================================================================
