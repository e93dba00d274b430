--------------------------- MODULE ThermalGuardProofs ---------------------------
(***************************************************************************)
(* For every number of jobs, every budget and every host: the guard raises *)
(* a limit only where, for all it read, it had lowered it itself; a        *)
(* healthy pass leaves no job above its share; and, on hosts with one job  *)
(* or with a manager that works, every limit of the guard can be rolled    *)
(* back.                                                                   *)
(***************************************************************************)
EXTENDS ThermalGuard, FiniteSetTheorems, TLAPS

Shares == {Budget \div n : n \in 1..Cardinality(Jobs)}

\* Identities: what was listed or journalled is not newer than the scope.
GenerationsOK == \A j \in Jobs :
    /\ life[j] = "live" => gen[j] >= 1
    /\ life[j] # "new" => j \in host.jobs
    /\ listed[j] <= gen[j]
    /\ journal[j].gen <= gen[j]

\* A running controller's copy has lost entries of the journal at most.
SameEntry(e, d) == d # None /\ e.gen = d.gen /\ e.original = d.original /\ e.applied = d.applied
CopyOK == pc # "down" => \A j \in Jobs : entries[j] = None \/ SameEntry(entries[j], journal[j])

\* Every journalled limit is a share below the limit it replaced.
LowersOK == /\ share \in Shares
            /\ \A j \in Jobs : journal[j] # None =>
                  journal[j].applied \in Shares /\ journal[j].applied < journal[j].original

\* A limit that looks like the guard's is the guard's, or an operator's choice.
OwnOK == \A j \in Jobs :
    journal[j] # None /\ journal[j].gen = gen[j] /\ quota[j] = journal[j].applied
      => setBy[j] # "launch"

\* What a manager call is about to do, as long as scope and limit are those read.
CallOK ==
    LET e    == entries[target]
        same == SameJob(target, e.gen) /\ ~late
    IN
    /\ pc \notin {"restore", "apply"} => ~late
    /\ pc = "restore" => e # None /\ (same => quota[target] = e.applied)
    /\ pc = "apply" => /\ e # None /\ e.applied <= share
                       /\ same => e.applied < quota[target]

OwnInv == TypeOK /\ GenerationsOK /\ CopyOK /\ LowersOK /\ OwnOK /\ CallOK

\* The jobs a pass has been through are within their share, unless it says so.
Listed == {j \in Jobs : listed[j] # 0}
CappedOK ==
    pc \in {"inspect", "apply", "save"} /\ mode = "pass" =>
      /\ share * Cardinality(Listed) <= Budget
      /\ pc = "save" => todo = {}
      /\ heat = "critical" => protect
      /\ protect /\ ~issue =>
            \A j \in Jobs : SameJob(j, listed[j]) /\ j \notin todo =>
               quota[j] <= share \/ (pc = "apply" /\ target = j)

OneJob     == \E j \in Jobs : host.jobs \subseteq {j}
Dependable == ~host.fails /\ ~host.crashes

\* An entry that rolls the present limit of a scope back.
Covers(e, j) == /\ e # None /\ e.gen = gen[j]
                /\ quota[j] = e.applied \/ (Dependable /\ pc = "apply" /\ target = j)

CoveredOK == \A j \in Jobs : life[j] = "live" /\ setBy[j] = "guard" =>
    Covers(journal[j], j) /\ (pc # "down" => Covers(entries[j], j))
BudgetOnly == /\ share = Budget
              /\ \A j \in Jobs : journal[j] # None => journal[j].applied = Budget
RollbackOK == /\ OneJob => BudgetOnly
              /\ OneJob \/ Dependable => CoveredOK

-----------------------------------------------------------------------------
LEMMA DivideFacts ==
  ASSUME NEW b \in Nat, NEW n \in Nat \ {0}
  PROVE  b \div n \in 0..b /\ (b \div n) * n <= b
  OBVIOUS

LEMMA TimesMonotone ==
  ASSUME NEW a \in Nat, NEW b \in Nat, NEW c \in Nat, NEW d \in Nat, a <= b, c <= d
  PROVE  a * c <= b * d
<1>1. a * c <= b * c
  OBVIOUS
<1>2. b * c <= b * d
  OBVIOUS
<1>. QED  BY <1>1, <1>2

(* The share of List is a share of the budget, and the listed jobs fit. *)
LEMMA ShareFacts ==
  ASSUME NEW running \in SUBSET Jobs
  PROVE  /\ Share(running) \in Shares /\ Share(running) \in 0..Budget
         /\ Share(running) * Cardinality(running) <= Budget
<1>1. /\ IsFiniteSet(running) /\ Cardinality(running) \in Nat
      /\ Cardinality(running) <= Cardinality(Jobs) /\ Cardinality(Jobs) \in Nat
  BY JobsType, FS_Subset, FS_CardinalityType
<1>2. running # {} => Cardinality(running) # 0
  BY <1>1, FS_EmptySet
<1>3. Cardinality(Jobs) # 0
  BY JobsType, FS_EmptySet
<1>4. Budget \in Nat
  BY QuotaType
<1>5. CASE running = {}
  <2>1. Share(running) = Budget \div 1 /\ Cardinality(running) = 0
    BY <1>5, FS_EmptySet DEF Share
  <2>2. Share(running) \in 0..Budget
    BY <1>4, <2>1, DivideFacts
  <2>. QED  BY <1>1, <1>3, <1>4, <2>1, <2>2 DEF Shares
<1>6. CASE running # {}
  <2>1. Share(running) = Budget \div Cardinality(running)
    BY <1>6 DEF Share
  <2>. QED  BY <1>1, <1>2, <1>4, <1>6, <2>1, DivideFacts DEF Shares
<1>. QED  BY <1>5, <1>6

(* With one job there is one share. *)
LEMMA OneJobShare ==
  ASSUME NEW j \in Jobs, NEW running \in SUBSET {j}
  PROVE  Share(running) = Budget
<1>1. Cardinality(running) = 1 \/ running = {}
  BY FS_Singleton
<1>. QED  BY <1>1, QuotaType DEF Share

LEMMA SharesBelow == Shares \subseteq 0..Budget
<1>1. ASSUME NEW n \in 1..Cardinality(Jobs) PROVE Budget \div n \in 0..Budget
  BY JobsType, QuotaType, FS_CardinalityType, DivideFacts
<1>. QED  BY <1>1 DEF Shares

-----------------------------------------------------------------------------
(* The outcomes of Inspect for one job. *)
Lowered(j) == [gen |-> gen[j], applied |-> share, pending |-> TRUE,
               original |-> IF entries[j] # None THEN entries[j].original ELSE quota[j]]

Outcome(j) ==
    \/ issue' = TRUE /\ UNCHANGED <<entries, journal, pc, target>>
    \/ /\ ~protect \/ quota[j] <= share
       /\ UNCHANGED <<entries, journal, pc, target, issue>>
    \/ /\ life[j] = "live" /\ Foreign(j) /\ quota[j] <= share
       /\ entries' = [entries EXCEPT ![j] = None]
       /\ UNCHANGED <<journal, pc, target, issue>>
    \/ /\ life[j] = "live" /\ ~Foreign(j) /\ share < quota[j]
       /\ entries' = [entries EXCEPT ![j] = Lowered(j)] /\ journal' = entries'
       /\ pc' = "apply" /\ target' = j /\ UNCHANGED issue

LEMMA InspectOutcome ==
  ASSUME TypeOK, NEW j \in Jobs, NEW failing \in BOOLEAN, Inspect(j, failing)
  PROVE  /\ Outcome(j)
         /\ pc = "inspect" /\ j \in todo /\ todo' = todo \ {j}
         /\ UNCHANGED <<envVars, mode, protect, share, listed, late, report>>
<1> SUFFICES Outcome(j)
  BY DEF Inspect
<1>1. share \in Nat /\ quota[j] \in Nat
  BY QuotaType DEF TypeOK
<1>2. CASE failing \/ life[j] # "live"
  BY <1>2 DEF Inspect, Outcome
<1>3. CASE ~failing /\ life[j] = "live" /\ ~protect
  <2>1. UNCHANGED <<issue, entries, journal, pc, target>>
    BY <1>3 DEF Inspect
  <2>. QED  BY <1>3, <2>1 DEF Outcome
<1>4. CASE ~failing /\ life[j] = "live" /\ protect /\ Foreign(j)
  <2>1. /\ entries' = IF quota[j] <= share THEN [entries EXCEPT ![j] = None] ELSE entries
        /\ issue' = (issue \/ quota[j] > share)
        /\ UNCHANGED <<journal, pc, target>>
    BY <1>4 DEF Inspect
  <2>2. issue \in BOOLEAN
    BY DEF TypeOK
  <2>3. CASE quota[j] <= share
    <3>1. ~(quota[j] > share)
      BY <1>1, <2>3
    <3>2. issue' = issue
      BY <2>1, <2>2, <3>1
    <3>. QED  BY <1>4, <2>1, <2>3, <3>2 DEF Outcome
  <2>4. CASE ~(quota[j] <= share)
    <3>1. quota[j] > share
      BY <1>1, <2>4
    <3>2. issue' = TRUE
      BY <2>1, <3>1
    <3>. QED  BY <2>1, <2>4, <3>2 DEF Outcome
  <2>. QED  BY <2>3, <2>4
<1>5. CASE /\ ~failing /\ life[j] = "live" /\ protect /\ ~Foreign(j)
           /\ Goal(quota[j]) >= quota[j]
  <2>1. UNCHANGED <<issue, entries, journal, pc, target>>
    BY <1>5 DEF Inspect
  <2>2. quota[j] <= share
    BY <1>1, <1>5 DEF Goal
  <2>. QED  BY <2>1, <2>2 DEF Outcome
<1>6. CASE /\ ~failing /\ life[j] = "live" /\ protect /\ ~Foreign(j)
           /\ ~(Goal(quota[j]) >= quota[j])
  <2>1. share < quota[j] /\ Goal(quota[j]) = share
    BY <1>1, <1>6 DEF Goal
  <2>2. /\ entries' = [entries EXCEPT ![j] =
                        [gen |-> gen[j], applied |-> Goal(quota[j]), pending |-> TRUE,
                         original |-> IF entries[j] # None THEN entries[j].original
                                                           ELSE quota[j]]]
        /\ Persist /\ pc' = "apply" /\ target' = j /\ UNCHANGED issue
    BY <1>6 DEF Inspect
  <2>. QED  BY <1>6, <2>1, <2>2 DEF Outcome, Lowered, Persist
<1>. QED  BY <1>2, <1>3, <1>4, <1>5, <1>6

-----------------------------------------------------------------------------
(* Every reachable state of the guard, its journal and the scopes has the
   declared shape. *)
LEMMA TypesInit == Init => TypeOK
<1> SUFFICES ASSUME Init PROVE TypeOK
  OBVIOUS
<1>1. target \in Jobs
  BY JobsType DEF Init
<1>2. Unlimited \in Nat /\ Budget \in Nat /\ MaxGen \in Nat
  BY QuotaType
<1>3. None \in Entry
  BY DEF Entry
<1>4. 0 \in 0..MaxGen /\ Unlimited \in 0..Unlimited /\ Budget \in 0..Budget
  BY <1>2
<1>. QED  BY <1>1, <1>3, <1>4 DEF Init, TypeOK

LEMMA EntryFields ==
  ASSUME NEW e \in Entry
  PROVE  /\ e.gen \in 0..MaxGen /\ e.original \in 0..Unlimited /\ e.applied \in 0..Unlimited
         /\ e # None => e.gen >= 1
         /\ [e EXCEPT !.pending = FALSE] \in Entry
         /\ [e EXCEPT !.pending = FALSE].gen = e.gen
         /\ [e EXCEPT !.pending = FALSE].original = e.original
         /\ [e EXCEPT !.pending = FALSE].applied = e.applied
<1>1. MaxGen \in Nat /\ Unlimited \in Nat
  BY QuotaType
<1>2. e \in [gen : 0..MaxGen, original : 0..Unlimited, applied : 0..Unlimited,
             pending : BOOLEAN]
  <2>1. CASE e = None
    BY <1>1, <2>1 DEF None
  <2>2. CASE e # None
    <3>1. e \in [gen : 1..MaxGen, original : 0..Unlimited, applied : 0..Unlimited,
                 pending : BOOLEAN]
      BY <2>2 DEF Entry
    <3>2. 1..MaxGen \subseteq 0..MaxGen
      BY <1>1
    <3>. QED  BY <3>1, <3>2
  <2>. QED  BY <2>1, <2>2
<1>3. CASE e = None
  <2>1. e.pending = FALSE
    BY <1>3 DEF None
  <2>2. [e EXCEPT !.pending = FALSE] = e
    BY <1>2, <2>1
  <2>. QED  BY <1>2, <1>3, <2>2
<1>4. CASE e # None
  <2>1. e \in [gen : 1..MaxGen, original : 0..Unlimited, applied : 0..Unlimited,
               pending : BOOLEAN]
    BY <1>4 DEF Entry
  <2>2. [e EXCEPT !.pending = FALSE] \in [gen : 1..MaxGen, original : 0..Unlimited,
                                         applied : 0..Unlimited, pending : BOOLEAN]
    BY <2>1
  <2>. QED  BY <1>1, <2>1, <2>2 DEF Entry
<1>. QED  BY <1>3, <1>4

LEMMA TypesStep ==
  ASSUME TypeOK, GenerationsOK, [Next]_vars
  PROVE  TypeOK'
<1> USE DEF TypeOK
<1>a. Unlimited \in Nat /\ Budget \in Nat /\ MaxGen \in Nat /\ Budget < Unlimited
  BY QuotaType
<1>b. host.launches \in 0..MaxGen /\ host.quotas \subseteq 0..Unlimited
  BY HostType
<1>c. None \in Entry
  BY DEF Entry
<1>1. ASSUME NEW c \in BOOLEAN, Start(c) PROVE TypeOK'
  <2>1. heat' \in {"cool", "settled", "warm", "critical", "lost", "longlost"}
    BY <1>1 DEF Start
  <2>. QED  BY <1>1, <2>1 DEF Start, Held
<1>2. CASE Tick
  BY <1>2 DEF Tick, Held, envVars
<1>3. ASSUME NEW j \in Jobs, NEW failing \in Fails, ReleaseEntry(j, failing) PROVE TypeOK'
  BY <1>3, <1>c DEF ReleaseEntry, envVars
<1>4. CASE Restore
  <2>1. entries[target].original \in 0..Unlimited
    BY EntryFields
  <2>2. quota' \in [Jobs -> 0..Unlimited]
    BY <1>4, <2>1 DEF Restore
  <2>3. setBy' \in [Jobs -> {"launch", "guard", "operator"}]
    BY <1>4 DEF Restore
  <2>4. entries' \in [Jobs -> Entry]
    BY <1>4, <1>c DEF Restore
  <2>5. pc' = "release" /\ late' = FALSE
        /\ UNCHANGED <<host, life, gen, heat, enforce, journal, mode, todo, protect, share,
                       listed, target, issue, report>>
    BY <1>4, Zenon DEF Restore
  <2>. QED  BY <2>2, <2>3, <2>4, <2>5
<1>5. CASE OutOfTime \/ EndRelease \/ EndInspect
  <2>1. CASE OutOfTime
    <3>1. issue' \in BOOLEAN
      BY <2>1, Zenon DEF OutOfTime
    <3>. QED  BY <2>1, <3>1 DEF OutOfTime, envVars
  <2>2. CASE EndRelease
    <3>1. issue' \in BOOLEAN
      BY <2>2, Zenon DEF EndRelease
    <3>. QED  BY <2>2, <3>1 DEF EndRelease, envVars
  <2>3. CASE EndInspect
    BY <2>3 DEF EndInspect, envVars
  <2>. QED  BY <1>5, <2>1, <2>2, <2>3
<1>6. CASE List
  <2>1. \A r \in SUBSET Jobs : Share(r) \in 0..Budget
    BY ShareFacts
  <2>2. PICK failing \in Fails :
         LET running == IF failing THEN {} ELSE {j \in Jobs : life[j] = "live"} IN
         /\ todo' = running
         /\ listed' = [j \in Jobs |-> IF j \in running THEN gen[j] ELSE 0]
         /\ share' = Share(running)
         /\ issue' = (issue \/ failing)
    BY <1>6 DEF List
  <2>3. failing \in BOOLEAN
    BY DEF Fails
  <2>4. todo' \subseteq Jobs /\ listed' \in [Jobs -> 0..MaxGen] /\ share' \in 0..Budget
        /\ issue' \in BOOLEAN
    BY <1>a, <2>1, <2>2, <2>3
  <2>. QED  BY <1>6, <2>4 DEF List, envVars
<1>7. ASSUME NEW j \in Jobs, NEW failing \in Fails, Inspect(j, failing) PROVE TypeOK'
  <2>1. failing \in BOOLEAN
    BY DEF Fails
  <2>2. life[j] = "live" => Lowered(j) \in Entry
    <3>1. entries[j] \in Entry /\ share \in 0..Unlimited
      BY <1>a
    <3>2. entries[j].original \in 0..Unlimited
      BY <3>1, EntryFields
    <3>. QED  BY <3>1, <3>2 DEF Lowered, Entry, GenerationsOK
  <2>3. /\ Outcome(j) /\ pc = "inspect" /\ todo' = todo \ {j}
        /\ UNCHANGED <<envVars, mode, protect, share, listed, late, report>>
    BY <1>7, <2>1, InspectOutcome
  <2>4. entries' \in [Jobs -> Entry] /\ (journal' = journal \/ journal' = entries')
    <3>1. \A x \in Entry : [entries EXCEPT ![j] = x] \in [Jobs -> Entry]
      OBVIOUS
    <3>. QED  BY <1>c, <2>2, <2>3, <3>1 DEF Outcome
  <2>5. pc' \in {"inspect", "apply"} /\ target' \in Jobs /\ issue' \in BOOLEAN
    BY <2>3 DEF Outcome
  <2>. QED  BY <2>3, <2>4, <2>5 DEF envVars
<1>8. CASE Apply
  <2>1. entries[target].applied \in 0..Unlimited
        /\ [entries[target] EXCEPT !.pending = FALSE] \in Entry
    BY EntryFields
  <2>2. /\ quota' \in {quota, [quota EXCEPT ![target] = entries[target].applied]}
        /\ setBy' \in {setBy, [setBy EXCEPT ![target] = "guard"]}
        /\ entries' \in {entries, [entries EXCEPT ![target] =
                                       [entries[target] EXCEPT !.pending = FALSE]]}
        /\ issue' = TRUE \/ issue' = issue
        /\ pc' = "inspect"
        /\ UNCHANGED <<host, life, gen, heat, enforce, journal, mode, todo, protect, share,
                       listed, target, report>> /\ late' = FALSE
    BY <1>8 DEF Apply, SetQuota
  <2>3. quota' \in [Jobs -> 0..Unlimited]
    BY <2>1, <2>2
  <2>4. setBy' \in [Jobs -> {"launch", "operator", "guard"}]
    BY <2>2
  <2>5. entries' \in [Jobs -> Entry]
    <3>1. \A x \in Entry : [entries EXCEPT ![target] = x] \in [Jobs -> Entry]
      OBVIOUS
    <3>. QED  BY <2>1, <2>2, <3>1
  <2>. QED  BY <2>2, <2>3, <2>4, <2>5
<1>9. CASE Save
  BY <1>9 DEF Save, envVars
<1>10. ASSUME NEW j \in Jobs, Launch(j) PROVE TypeOK'
  BY <1>10, <1>a, <1>b DEF Launch, passVars
<1>11. ASSUME NEW j \in Jobs, Finish(j) PROVE TypeOK'
  BY <1>11 DEF Finish, passVars
<1>12. ASSUME NEW j \in Jobs, Operator(j) PROVE TypeOK'
  <2>1. late' \in BOOLEAN
    BY <1>12, Zenon DEF Operator
  <2>. QED  BY <1>12, <1>a, <1>b, <2>1 DEF Operator
<1>13. CASE Weather \/ Configure
  <2>1. heat' \in {"cool", "settled", "warm", "critical", "lost", "longlost"}
        /\ enforce' \in BOOLEAN
    BY <1>13 DEF Weather, Configure
  <2>. QED  BY <1>13, <2>1 DEF Weather, Configure, passVars
<1>14. CASE Crash
  BY <1>14, <1>c DEF Crash, envVars
<1>15. CASE UNCHANGED vars
  BY <1>15 DEF vars, envVars, passVars
<1>. QED  BY <1>1, <1>2, <1>3, <1>4, <1>5, <1>6, <1>7, <1>8, <1>9, <1>10, <1>11, <1>12,
             <1>13, <1>14, <1>15 DEF Next, Guard, World

-----------------------------------------------------------------------------
(* The guard's own limits can be told by their value. *)
Facts == GenerationsOK /\ CopyOK /\ LowersOK /\ OwnOK /\ CallOK

LEMMA OwnInit == Init => OwnInv
<1> SUFFICES ASSUME Init PROVE OwnInv
  OBVIOUS
<1>1. TypeOK
  BY TypesInit
<1>2. Budget \in Shares
  <2>1. Share({}) \in Shares
    BY ShareFacts
  <2>. QED  BY <2>1, QuotaType DEF Share
<1>. QED  BY <1>1, <1>2 DEF Init, OwnInv, GenerationsOK, CopyOK, LowersOK, OwnOK, CallOK, None

(* What LowersOK says of the running controller's entries. *)
LEMMA CopyLowers ==
  ASSUME OwnInv, pc # "down", NEW j \in Jobs, entries[j] # None
  PROVE  /\ journal[j] # None /\ entries[j].gen = journal[j].gen
         /\ entries[j].applied = journal[j].applied /\ entries[j].original = journal[j].original
         /\ entries[j].applied \in Shares /\ entries[j].applied < entries[j].original
         /\ entries[j].gen <= gen[j]
  BY DEF OwnInv, CopyOK, SameEntry, LowersOK, GenerationsOK

LEMMA OwnStep ==
  ASSUME OwnInv, [Next]_vars
  PROVE  OwnInv'
<1> USE DEF OwnInv
<1>t. TypeOK'
  BY TypesStep
<1> SUFFICES Facts'
  BY <1>t DEF Facts
<1> USE DEF Facts
<1>a. \A j \in Jobs : /\ gen[j] \in Nat /\ listed[j] \in Nat /\ quota[j] \in Nat
                      /\ journal[j].gen \in Nat /\ entries[j].gen \in Nat
                      /\ entries[j].original \in Nat
  <2> TAKE j \in Jobs
  <2>1. journal[j] \in Entry /\ entries[j] \in Entry
    BY DEF TypeOK
  <2>2. MaxGen \in Nat /\ Unlimited \in Nat
    BY QuotaType
  <2>3. gen[j] \in 0..MaxGen /\ listed[j] \in 0..MaxGen /\ quota[j] \in 0..Unlimited
    BY DEF TypeOK
  <2>4. /\ journal[j].gen \in 0..MaxGen /\ entries[j].gen \in 0..MaxGen
        /\ entries[j].original \in 0..Unlimited
    BY <2>1, EntryFields
  <2>. QED  BY <2>2, <2>3, <2>4
<1>b. Shares \subseteq Nat /\ \A s \in Shares : s < Unlimited
  BY SharesBelow, QuotaType
<1>1. ASSUME NEW c \in BOOLEAN, Start(c) PROVE Facts'
  BY <1>1 DEF Start, GenerationsOK, CopyOK, LowersOK, OwnOK, CallOK, SameEntry, SameJob, TypeOK
<1>2. CASE Tick \/ OutOfTime \/ EndRelease \/ EndInspect
  BY <1>2 DEF Tick, OutOfTime, EndRelease, EndInspect, envVars,
              GenerationsOK, CopyOK, LowersOK, OwnOK, CallOK, SameEntry, SameJob
<1>3. ASSUME NEW j \in Jobs, NEW failing \in Fails, ReleaseEntry(j, failing) PROVE Facts'
  <2>1. /\ pc = "release" /\ UNCHANGED <<envVars, journal, share, listed, late>>
        /\ \/ pc' = "restore" /\ target' = j /\ entries' = entries
              /\ SameJob(j, entries[j].gen) /\ quota[j] = entries[j].applied
           \/ pc' = "release" /\ (entries' = entries \/ entries' = [entries EXCEPT ![j] = None])
    BY <1>3 DEF ReleaseEntry, OwnLimit
  <2>2. GenerationsOK' /\ LowersOK' /\ OwnOK'
    BY <2>1 DEF envVars, GenerationsOK, LowersOK, OwnOK
  <2>3. CopyOK'
    BY <2>1 DEF CopyOK, SameEntry, TypeOK
  <2>4. CallOK'
    BY <2>1, <1>a DEF CallOK, envVars, SameJob, TypeOK, None, GenerationsOK
  <2>. QED  BY <2>2, <2>3, <2>4
<1>4. CASE Restore
  <2> DEFINE e == entries[target]
  <2>1. /\ pc = "restore" /\ pc' = "release" /\ late' = FALSE
        /\ UNCHANGED <<host, life, gen, journal, listed, share>>
        /\ entries' = entries \/ entries' = [entries EXCEPT ![target] = None]
    BY <1>4 DEF Restore
  <2>2. \/ UNCHANGED <<quota, setBy>>
        \/ /\ quota' = [quota EXCEPT ![target] = e.original]
           /\ setBy' = [setBy EXCEPT ![target] = "launch"]
    BY <1>4 DEF Restore
  <2>3. target \in Jobs /\ e # None
    BY <2>1 DEF CallOK, TypeOK
  <2>4. GenerationsOK' /\ LowersOK'
    BY <2>1 DEF GenerationsOK, LowersOK
  <2>5. CopyOK'
    BY <2>1 DEF CopyOK, SameEntry, TypeOK
  <2>6. CallOK'
    BY <2>1 DEF CallOK
  <2>7. OwnOK'
    <3>1. e.original = journal[target].original
          /\ journal[target].applied < journal[target].original
          /\ journal[target].applied \in Nat
      BY <2>1, <2>3, <1>b, CopyLowers
    <3>2. e.original # journal[target].applied
      BY <3>1
    <3>. QED  BY <2>1, <2>2, <2>3, <3>2 DEF OwnOK, TypeOK
  <2>. QED  BY <2>4, <2>5, <2>6, <2>7
<1>5. CASE List
  <2>1. \A r \in SUBSET Jobs : Share(r) \in Shares
    BY ShareFacts
  <2>2. /\ share' \in Shares
        /\ listed' \in [Jobs -> Int] /\ \A j \in Jobs : listed'[j] \in {0, gen[j]}
    BY <1>5, <2>1, <1>a DEF List
  <2>3. /\ pc = "list" /\ pc' = "inspect"
        /\ UNCHANGED <<host, life, gen, quota, setBy, journal, entries, late>>
    BY <1>5 DEF List, envVars
  <2>. QED  BY <1>a, <2>2, <2>3
            DEF GenerationsOK, CopyOK, LowersOK, OwnOK, CallOK, SameEntry
<1>6. ASSUME NEW j \in Jobs, NEW failing \in Fails, Inspect(j, failing) PROVE Facts'
  <2>1. failing \in BOOLEAN
    BY DEF Fails
  <2>2. /\ Outcome(j) /\ pc = "inspect"
        /\ UNCHANGED <<host, life, gen, quota, setBy, mode, protect, share, listed, late>>
    BY <1>6, <2>1, InspectOutcome DEF envVars
  <2>3. CASE UNCHANGED <<entries, journal, pc, target>>
    BY <2>2, <2>3 DEF GenerationsOK, CopyOK, LowersOK, OwnOK, CallOK, SameEntry, SameJob
  <2>4. CASE entries' = [entries EXCEPT ![j] = None] /\ UNCHANGED <<journal, pc, target>>
    BY <2>2, <2>4 DEF GenerationsOK, CopyOK, LowersOK, OwnOK, CallOK, SameEntry, TypeOK
  <2>5. CASE /\ life[j] = "live" /\ ~Foreign(j) /\ share < quota[j]
             /\ entries' = [entries EXCEPT ![j] = Lowered(j)] /\ journal' = entries'
             /\ pc' = "apply" /\ target' = j /\ UNCHANGED issue
    <3> DEFINE d == Lowered(j)
    <3>1. gen[j] >= 1
      BY <2>5 DEF GenerationsOK
    <3>2. d # None /\ d.gen = gen[j] /\ d.applied = share
          /\ d.original = IF entries[j] # None THEN entries[j].original ELSE quota[j]
      BY <3>1 DEF Lowered, None
    <3>3. share \in Shares /\ share \in Nat
      BY <1>b DEF LowersOK
    <3>4. share < d.original
      <4>1. CASE entries[j] # None
        <5>1. quota[j] \in {entries[j].applied, entries[j].original}
          BY <2>5, <4>1 DEF Foreign
        <5>2. entries[j].applied < entries[j].original /\ entries[j].applied \in Nat
          BY <2>2, <4>1, <1>b, CopyLowers
        <5>. QED  BY <1>a, <2>5, <3>2, <3>3, <4>1, <5>1, <5>2
      <4>. QED  BY <2>5, <3>2, <4>1
    <3>5. journal'[j] = d /\ entries'[j] = d /\ \A k \in Jobs \ {j} : journal'[k] = entries[k]
          /\ entries'[k] = entries[k]
      BY <2>5 DEF TypeOK
    <3> HIDE DEF d
    <3>6. GenerationsOK'
      <4>1. \A k \in Jobs : entries[k].gen <= gen[k]
        BY <2>2, <1>a, CopyLowers DEF None
      <4>. QED  BY <2>2, <1>a, <3>2, <3>5, <4>1 DEF GenerationsOK
    <3>7. CopyOK'
      BY <2>2, <2>5 DEF CopyOK, SameEntry
    <3>8. LowersOK'
      BY <2>2, <3>2, <3>3, <3>4, <3>5, CopyLowers DEF LowersOK
    <3>9. OwnOK'
      <4>1. quota[j] # share
        BY <1>a, <2>5, <3>3
      <4>2. ASSUME NEW k \in Jobs \ {j}, entries[k] # None, entries[k].gen = gen[k],
                   quota[k] = entries[k].applied
            PROVE  setBy[k] # "launch"
        BY <2>2, <4>2, CopyLowers DEF OwnOK
      <4>. QED  BY <2>2, <3>2, <3>5, <4>1, <4>2 DEF OwnOK
    <3>10. CallOK'
      BY <2>2, <2>5, <3>2, <3>3, <3>5 DEF CallOK
    <3>. QED  BY <3>6, <3>7, <3>8, <3>9, <3>10
  <2>. QED  BY <2>2, <2>3, <2>4, <2>5 DEF Outcome
<1>7. CASE Apply
  <2> DEFINE e == entries[target]
  <2>1. /\ pc = "apply" /\ pc' = "inspect" /\ late' = FALSE
        /\ UNCHANGED <<host, life, gen, journal, listed, share>>
        /\ entries' = entries \/ entries' = [entries EXCEPT ![target] =
                                                [e EXCEPT !.pending = FALSE]]
        /\ \/ UNCHANGED <<quota, setBy>>
           \/ /\ quota' = [quota EXCEPT ![target] = e.applied]
              /\ setBy' = [setBy EXCEPT ![target] = "guard"]
    BY <1>7 DEF Apply, SetQuota
  <2>2. target \in Jobs /\ e # None
    BY <2>1 DEF CallOK, TypeOK
  <2>3. GenerationsOK' /\ LowersOK' /\ CallOK'
    BY <2>1 DEF GenerationsOK, LowersOK, CallOK
  <2>4. CopyOK'
    <3>1. [e EXCEPT !.pending = FALSE].gen = e.gen
          /\ [e EXCEPT !.pending = FALSE].original = e.original
          /\ [e EXCEPT !.pending = FALSE].applied = e.applied
      <4>1. e \in Entry
        BY <2>2 DEF TypeOK
      <4>. QED  BY <4>1, EntryFields
    <3>2. \A k \in Jobs : \/ entries'[k] = entries[k]
                          \/ k = target /\ entries'[k] = [e EXCEPT !.pending = FALSE]
      BY <2>1, <2>2 DEF TypeOK
    <3> HIDE DEF e
    <3>3. journal[target] # None /\ e.gen = journal[target].gen
          /\ e.original = journal[target].original /\ e.applied = journal[target].applied
      BY <2>1, <2>2, CopyLowers DEF e
    <3>4. SameEntry([e EXCEPT !.pending = FALSE], journal[target])
      BY <3>1, <3>3 DEF SameEntry, e
    <3>5. \A k \in Jobs : entries[k] = None \/ SameEntry(entries[k], journal[k])
      BY <2>1 DEF CopyOK
    <3>6. journal' = journal
      BY <2>1
    <3>. QED  BY <3>2, <3>4, <3>5, <3>6 DEF CopyOK
  <2>5. OwnOK'
    BY <2>1, <2>2 DEF OwnOK, TypeOK
  <2>. QED  BY <2>3, <2>4, <2>5
<1>8. CASE Save
  <2>1. /\ pc = "save" /\ pc' \in {"down", "idle"} /\ journal' = entries
        /\ UNCHANGED <<host, life, gen, quota, setBy, entries, listed, share, late>>
    BY <1>8 DEF Save, envVars
  <2>2. \A k \in Jobs : entries[k].gen <= gen[k]
    BY <2>1, <1>a, CopyLowers DEF None
  <2>3. GenerationsOK'
    BY <2>1, <2>2 DEF GenerationsOK
  <2>4. LowersOK'
    BY <2>1, CopyLowers DEF LowersOK
  <2>5. OwnOK'
    BY <2>1, CopyLowers DEF OwnOK
  <2>. QED  BY <2>1, <2>3, <2>4, <2>5 DEF CopyOK, CallOK, SameEntry
<1>9. ASSUME NEW j \in Jobs, Launch(j) PROVE Facts'
  <2>1. /\ j \in host.jobs
        /\ UNCHANGED <<host, journal, entries, listed, share, pc, target, late>>
        /\ life' = [life EXCEPT ![j] = "live"] /\ gen' = [gen EXCEPT ![j] = gen[j] + 1]
        /\ quota' = [quota EXCEPT ![j] = Unlimited]
    BY <1>9 DEF Launch, passVars
  <2>2. \A k \in Jobs \ {j} : UNCHANGED <<life[k], gen[k], quota[k], setBy[k]>>
    BY <1>9 DEF Launch, TypeOK
  <2>3. gen'[j] = gen[j] + 1 /\ life'[j] = "live"
    BY <2>1 DEF TypeOK
  <2>4. GenerationsOK'
    BY <2>1, <2>2, <2>3, <1>a DEF GenerationsOK
  <2>5. CopyOK' /\ LowersOK'
    BY <2>1 DEF CopyOK, LowersOK, SameEntry
  <2>6. OwnOK'
    BY <2>1, <2>2, <2>3, <1>a DEF OwnOK, GenerationsOK
  <2>7. CallOK'
    <3>1. pc # "down" => entries[j].gen <= gen[j]
      BY <1>a, CopyLowers DEF None
    <3>2. pc # "down" => entries[j].gen # gen'[j]
      BY <1>a, <2>3, <3>1
    <3>. QED  BY <2>1, <2>2, <3>2 DEF CallOK, SameJob, TypeOK
  <2>. QED  BY <2>4, <2>5, <2>6, <2>7
<1>10. ASSUME NEW j \in Jobs, Finish(j) PROVE Facts'
  <2>1. /\ UNCHANGED <<host, gen, quota, setBy, journal, entries, listed, share, pc, target,
                       late>>
        /\ \A k \in Jobs : \/ life'[k] = life[k]
                           \/ life[k] # "new" /\ life'[k] # "live"
    BY <1>10 DEF Finish, passVars, TypeOK
  <2>2. GenerationsOK'
    BY <2>1 DEF GenerationsOK
  <2>3. CopyOK' /\ LowersOK' /\ OwnOK'
    BY <2>1 DEF CopyOK, LowersOK, OwnOK, SameEntry
  <2>4. CallOK'
    <3>1. target \in Jobs
      BY DEF TypeOK
    <3>. QED  BY <2>1, <3>1 DEF CallOK, SameJob
  <2>. QED  BY <2>2, <2>3, <2>4
<1>11. ASSUME NEW j \in Jobs, Operator(j) PROVE Facts'
  <2>1. /\ UNCHANGED <<host, life, gen, journal, entries, share, pc, target>>
        /\ life[j] = "live"
        /\ late' = (late \/ (pc \in {"restore", "apply"} /\ target = j))
        /\ listed' = [listed EXCEPT ![j] = 0] /\ setBy' = [setBy EXCEPT ![j] = "operator"]
    BY <1>11 DEF Operator
  <2>2. PICK q \in host.quotas : quota' = [quota EXCEPT ![j] = q]
    BY <1>11 DEF Operator
  <2>4. GenerationsOK' /\ CopyOK' /\ LowersOK'
    BY <2>1, <1>a DEF GenerationsOK, CopyOK, LowersOK, SameEntry, TypeOK
  <2>5. OwnOK'
    BY <2>1, <2>2 DEF OwnOK, TypeOK
  <2>6. CallOK'
    <3>1. target \in Jobs /\ late \in BOOLEAN
      BY DEF TypeOK
    <3>2. \A k \in Jobs \ {j} : quota'[k] = quota[k]
      BY <2>2 DEF TypeOK
    <3>3. CASE pc \in {"restore", "apply"} /\ target = j
      <4>1. late' = TRUE
        BY <2>1, <3>3
      <4>. QED  BY <2>1, <3>3, <4>1 DEF CallOK
    <3>4. CASE ~(pc \in {"restore", "apply"} /\ target = j)
      <4>1. late' = late
        BY <2>1, <3>1, <3>4
      <4>. QED  BY <2>1, <3>1, <3>2, <3>4, <4>1 DEF CallOK, SameJob
    <3>. QED  BY <3>3, <3>4
  <2>. QED  BY <2>4, <2>5, <2>6
<1>12. CASE Weather \/ Configure
  BY <1>12 DEF Weather, Configure, passVars, GenerationsOK, CopyOK, LowersOK, OwnOK, CallOK,
               SameEntry, SameJob
<1>13. CASE Crash
  BY <1>13 DEF Crash, envVars, GenerationsOK, CopyOK, LowersOK, OwnOK, CallOK
<1>14. CASE UNCHANGED vars
  BY <1>14 DEF vars, envVars, passVars, GenerationsOK, CopyOK, LowersOK, OwnOK, CallOK,
               SameEntry, SameJob
<1>. QED  BY <1>1, <1>2, <1>3, <1>4, <1>5, <1>6, <1>7, <1>8, <1>9, <1>10, <1>11, <1>12,
             <1>13, <1>14 DEF Next, Guard, World

LEMMA OwnInvariant == Spec => []OwnInv
<1>1. OwnInv /\ [Next]_vars => OwnInv'
  BY OwnStep
<1>. QED  BY OwnInit, <1>1, PTL DEF Spec

-----------------------------------------------------------------------------
(* Every reachable state of the guard, its journal and the scopes has the
   declared shape. *)
THEOREM TypeCorrect == Spec => []TypeOK
<1>1. OwnInv => TypeOK
  BY DEF OwnInv
<1>. QED  BY OwnInvariant, <1>1, PTL

(* release() and _set_quota raise no limit that the guard could know for another's:
   whatever the number of jobs and the shares of the budget, and under every crash
   and failed call, a quota found raised was lowered by the guard, equals its own
   limit, or was changed by an operator after the read. *)
THEOREM NeverOverKnownLimitHolds == Spec => NeverOverKnownLimit
<1> DEFINE Raised == \A j \in Jobs :
        gen'[j] = gen[j] /\ quota'[j] > quota[j] /\ setBy'[j] # "operator"
          => setBy[j] = "guard" \/ LooksOwn(j) \/ (late /\ target = j)
<1>1. OwnInv /\ [Next]_vars => Raised
  <2> SUFFICES ASSUME OwnInv, [Next]_vars, NEW j \in Jobs,
                      gen'[j] = gen[j], quota'[j] > quota[j], setBy'[j] # "operator",
                      ~(late /\ target = j)
               PROVE  setBy[j] = "guard" \/ LooksOwn(j)
    BY DEF Raised
  <2>1. quota[j] \in Nat /\ gen[j] \in Nat /\ TypeOK
    BY QuotaType DEF OwnInv, TypeOK
  <2>2. quota'[j] # quota[j]
    BY <2>1
  <2>3. CASE Restore
    <3>1. /\ pc = "restore" /\ j = target /\ SameJob(j, entries[j].gen)
      BY <2>2, <2>3 DEF Restore, OwnInv, TypeOK
    <3>2. entries[j] # None /\ quota[j] = entries[j].applied
      BY <3>1 DEF OwnInv, CallOK
    <3>3. journal[j] # None /\ journal[j].gen = gen[j] /\ quota[j] = journal[j].applied
      BY <3>1, <3>2, CopyLowers DEF SameJob
    <3>4. setBy[j] \in {"operator", "guard"}
      BY <2>1, <3>3 DEF OwnInv, OwnOK, TypeOK
    <3>. QED  BY <3>2, <3>4 DEF LooksOwn
  <2>4. CASE Apply
    <3>1. pc = "apply" /\ j = target /\ SameJob(j, entries[j].gen)
          /\ quota'[j] = entries[j].applied
      BY <2>2, <2>4 DEF Apply, SetQuota, OwnInv, TypeOK
    <3>2. entries[j].applied < quota[j]
      BY <3>1 DEF OwnInv, CallOK
    <3>3. entries[j] \in Entry
      BY <2>1 DEF TypeOK
    <3>4. entries[j].applied \in 0..Unlimited /\ Unlimited \in Nat
      BY <3>3, EntryFields, QuotaType
    <3>. QED  BY <2>1, <3>1, <3>2, <3>4
  <2>5. ASSUME NEW k \in Jobs, Launch(k) PROVE FALSE
    <3>1. gen' = [gen EXCEPT ![k] = gen[k] + 1] /\ quota' = [quota EXCEPT ![k] = Unlimited]
      BY <2>5 DEF Launch
    <3>2. j = k
      BY <2>2, <3>1, <2>1 DEF TypeOK
    <3>. QED  BY <2>1, <3>1, <3>2 DEF TypeOK
  <2>6. ASSUME NEW k \in Jobs, Operator(k) PROVE FALSE
    <3>1. setBy' = [setBy EXCEPT ![k] = "operator"]
          /\ \E q \in host.quotas : quota' = [quota EXCEPT ![k] = q]
      BY <2>6 DEF Operator
    <3>. QED  BY <2>1, <2>2, <3>1 DEF TypeOK
  <2>7. ASSUME NEW k \in Jobs, NEW failing \in Fails, Inspect(k, failing) PROVE FALSE
    BY <2>2, <2>7 DEF Inspect, envVars
  <2>8. ASSUME NEW k \in Jobs, NEW failing \in Fails, ReleaseEntry(k, failing) PROVE FALSE
    BY <2>2, <2>8 DEF ReleaseEntry, envVars
  <2>9. CASE \/ Start(FALSE) \/ Start(TRUE) \/ Tick \/ EndRelease \/ List \/ EndInspect
             \/ Save \/ Weather \/ Configure \/ Crash \/ OutOfTime
             \/ \E k \in Jobs : Finish(k)
    BY <2>2, <2>9 DEF Start, Tick, EndRelease, List, EndInspect, Save, Weather, Configure,
                      Crash, OutOfTime, Finish, envVars
  <2>10. CASE UNCHANGED vars
    BY <2>2, <2>10 DEF vars, envVars
  <2>. QED  BY <2>3, <2>4, <2>5, <2>6, <2>7, <2>8, <2>9, <2>10 DEF Next, Guard, World
<1>. QED  BY <1>1, OwnInvariant, PTL DEF Spec, NeverOverKnownLimit

-----------------------------------------------------------------------------
(* A smaller inventory needs no more of the budget. *)
LEMMA WithinBudget ==
  ASSUME OwnInv, share * Cardinality(Listed) <= Budget, NEW S \in SUBSET Listed,
         NEW q \in Nat, q <= share
  PROVE  q * Cardinality(S) <= Budget
<1>1. IsFiniteSet(Listed)
  BY JobsType, FS_Subset DEF Listed
<1>2. /\ Cardinality(S) \in Nat /\ Cardinality(Listed) \in Nat
      /\ Cardinality(S) <= Cardinality(Listed)
  BY <1>1, FS_Subset, FS_CardinalityType
<1>3. share \in Nat /\ Budget \in Nat
  BY QuotaType DEF OwnInv, TypeOK
<1>4. q * Cardinality(S) <= share * Cardinality(Listed)
  BY <1>2, <1>3, TimesMonotone
<1>5. share * Cardinality(Listed) \in Nat /\ q * Cardinality(S) \in Nat
  BY <1>2, <1>3
<1>. QED  BY <1>3, <1>4, <1>5

LEMMA CappedStep ==
  ASSUME OwnInv, CappedOK, [Next]_vars
  PROVE  CappedOK'
<1>a. TypeOK /\ GenerationsOK /\ CallOK
  BY DEF OwnInv
<1>b. \A j \in Jobs : gen[j] \in Nat /\ listed[j] \in Nat /\ quota[j] \in Nat
  BY <1>a, QuotaType DEF TypeOK
<1>c. share \in Nat
  BY <1>a, QuotaType DEF TypeOK
<1>1. CASE /\ pc' \notin {"inspect", "apply", "save"} \/ mode' # "pass"
  BY <1>1 DEF CappedOK
<1>2. CASE List
  <2>1. PICK failing \in Fails :
          LET running == IF failing THEN {} ELSE {j \in Jobs : life[j] = "live"} IN
          /\ todo' = running
          /\ listed' = [j \in Jobs |-> IF j \in running THEN gen[j] ELSE 0]
          /\ share' = Share(running)
          /\ issue' = (issue \/ failing)
    BY <1>2 DEF List
  <2>2. PICK running \in SUBSET Jobs :
          /\ running = IF failing THEN {} ELSE {j \in Jobs : life[j] = "live"}
          /\ todo' = running /\ share' = Share(running)
          /\ \A j \in Jobs : listed'[j] = IF j \in running THEN gen[j] ELSE 0
    BY <2>1
  <2>3. /\ pc' = "inspect" /\ heat' = heat /\ (heat = "critical" => protect')
        /\ life' = life /\ gen' = gen /\ quota' = quota
    BY <1>2 DEF List, envVars
  <2>4. Listed' = running
    BY <2>2, <1>a DEF Listed, GenerationsOK
  <2>5. share' * Cardinality(Listed') <= Budget
    BY <2>2, <2>4, ShareFacts
  <2>6. failing \in BOOLEAN
    BY DEF Fails
  <2>7. CASE failing
    <3>1. issue'
      BY <2>1, <2>7
    <3>. QED  BY <2>3, <2>5, <3>1 DEF CappedOK
  <2>8. CASE ~failing
    <3>1. \A j \in Jobs : life'[j] = "live" => j \in todo'
      BY <2>2, <2>3, <2>8
    <3>. QED  BY <2>3, <2>5, <3>1 DEF CappedOK, SameJob
  <2>. QED  BY <2>6, <2>7, <2>8
<1>3. CASE OutOfTime
  <2>1. CASE pc = "inspect"
    <3>1. issue' = TRUE /\ pc' = pc
      BY <1>3, <2>1 DEF OutOfTime
    <3>. QED  BY <1>3, <2>1, <3>1 DEF OutOfTime, CappedOK, envVars, Listed
  <2>2. CASE pc = "release"
    BY <1>3, <2>2 DEF OutOfTime, CappedOK
  <2>. QED  BY <1>3, <2>1, <2>2 DEF OutOfTime
<1>4. ASSUME NEW j \in Jobs, NEW failing \in Fails, Inspect(j, failing) PROVE CappedOK'
  <2>1. failing \in BOOLEAN
    BY DEF Fails
  <2>2. /\ Outcome(j) /\ pc = "inspect" /\ todo' = todo \ {j}
        /\ UNCHANGED <<life, gen, quota, heat, mode, protect, share, listed>>
    BY <1>4, <1>a, <2>1, InspectOutcome DEF envVars
  <2>3. pc' \in {"inspect", "apply"} /\ Listed' = Listed
    BY <2>2 DEF Outcome, Listed
  <2>4. issue' \/ (issue' = issue)
    BY <2>2 DEF Outcome
  <2>5. protect /\ ~issue' => quota[j] <= share \/ (pc' = "apply" /\ target' = j)
    BY <2>2 DEF Outcome
  <2>. QED  BY <2>2, <2>3, <2>4, <2>5 DEF CappedOK, SameJob
<1>5. CASE Apply
  <2> DEFINE e == entries[target]
  <2>1. /\ pc = "apply" /\ pc' = "inspect"
        /\ UNCHANGED <<life, gen, heat, mode, todo, protect, share, listed>>
    BY <1>5 DEF Apply
  <2>2. /\ \A j \in Jobs \ {target} : quota'[j] = quota[j]
        /\ target \in Jobs /\ Listed' = Listed
    BY <1>5, <1>a, <2>1 DEF Apply, SetQuota, TypeOK, Listed
  <2>3. \/ quota'[target] <= share /\ issue' = issue
        \/ issue' = TRUE
    <3>1. e.applied <= share
      BY <1>a, <2>1 DEF CallOK
    <3>. QED  BY <1>5, <1>a, <3>1 DEF Apply, SetQuota, TypeOK
  <2>. QED  BY <2>1, <2>2, <2>3 DEF CappedOK, SameJob
<1>6. CASE EndInspect
  BY <1>6 DEF EndInspect, CappedOK, envVars, SameJob, Listed
<1>7. ASSUME NEW k \in Jobs, Launch(k) PROVE CappedOK'
  <2>1. /\ UNCHANGED <<heat, pc, mode, todo, protect, share, listed, target, issue>>
        /\ gen'[k] = gen[k] + 1 /\ Listed' = Listed
        /\ \A j \in Jobs \ {k} : UNCHANGED <<life[j], gen[j], quota[j]>>
    BY <1>7, <1>a DEF Launch, passVars, TypeOK, Listed
  <2>2. ~SameJob(k, listed[k])'
    BY <2>1, <1>a, <1>b DEF SameJob, GenerationsOK
  <2>. QED  BY <2>1, <2>2 DEF CappedOK, SameJob
<1>8. ASSUME NEW k \in Jobs, Finish(k) PROVE CappedOK'
  <2>1. /\ UNCHANGED <<gen, quota, heat, pc, mode, todo, protect, share, listed, target, issue>>
        /\ \A j \in Jobs : life'[j] = "live" => life[j] = "live"
    BY <1>8, <1>a DEF Finish, passVars, TypeOK
  <2>2. Listed' = Listed
    BY <2>1 DEF Listed
  <2>. QED  BY <2>1, <2>2 DEF CappedOK, SameJob
<1>9. ASSUME NEW k \in Jobs, Operator(k) PROVE CappedOK'
  <2>1. /\ UNCHANGED <<life, gen, heat, pc, mode, todo, protect, share, target, issue>>
        /\ listed' = [listed EXCEPT ![k] = 0]
        /\ \A j \in Jobs \ {k} : quota'[j] = quota[j]
    BY <1>9, <1>a DEF Operator, TypeOK
  <2>2. Listed' \subseteq Listed
    BY <2>1, <1>a DEF Listed, TypeOK
  <2>3. share * Cardinality(Listed) <= Budget => share' * Cardinality(Listed') <= Budget
    BY <1>c, <2>1, <2>2, WithinBudget
  <2>4. ~SameJob(k, listed[k])' /\ \A j \in Jobs \ {k} : listed'[j] = listed[j]
    BY <2>1, <1>a, <1>b DEF SameJob, GenerationsOK, TypeOK
  <2>. QED  BY <2>1, <2>3, <2>4 DEF CappedOK, SameJob
<1>10. CASE UNCHANGED vars
  BY <1>10 DEF vars, envVars, passVars, CappedOK, SameJob, Listed
<1>11. ASSUME \/ Start(FALSE) \/ Start(TRUE) \/ Tick \/ Restore \/ EndRelease \/ Save
              \/ Weather \/ Configure \/ Crash
              \/ \E j \in Jobs, failing \in Fails : ReleaseEntry(j, failing)
       PROVE  pc' \notin {"inspect", "apply", "save"} \/ mode' # "pass"
  BY <1>11 DEF Start, Tick, Restore, EndRelease, Save, Weather, Configure, Crash, ReleaseEntry,
               passVars
<1>. QED  BY <1>1, <1>2, <1>3, <1>4, <1>5, <1>6, <1>7, <1>8, <1>9, <1>10, <1>11
          DEF Next, Guard, World

(* A combined budget: however many jobs share it and whatever operators, restarts
   and failures do during the pass, one that publishes a healthy status at a
   critical temperature has left the jobs of its inventory within equal shares,
   which together keep within the budget. *)
THEOREM HealthyMeansCappedHolds == Spec => HealthyMeansCapped
<1> DEFINE capped == {j \in Jobs : SameJob(j, listed[j])}
           Fits == pc = "save" /\ pc' = "idle" /\ mode = "pass" /\ report' = "healthy"
                     /\ heat = "critical" =>
                        \A j \in capped : quota[j] * Cardinality(capped) <= Budget
<1>1. Init => CappedOK
  BY DEF Init, CappedOK
<1>2. OwnInv /\ CappedOK /\ [Next]_vars => CappedOK'
  BY CappedStep
<1>3. OwnInv /\ CappedOK /\ [Next]_vars => Fits
  <2> SUFFICES ASSUME OwnInv, CappedOK, [Next]_vars, pc = "save", pc' = "idle", mode = "pass",
                      report' = "healthy", heat = "critical", NEW j \in capped
               PROVE  quota[j] * Cardinality(capped) <= Budget
    OBVIOUS
  <2>1. ~issue
    BY DEF Next, Guard, World, Start, Tick, ReleaseEntry, Restore, OutOfTime, EndRelease, List,
           Inspect, Apply, EndInspect, Save, Launch, Finish, Operator, Weather, Configure,
           Crash, vars, passVars
  <2>2. /\ share * Cardinality(Listed) <= Budget
        /\ \A k \in Jobs : SameJob(k, listed[k]) => quota[k] <= share
    BY <2>1 DEF CappedOK
  <2>3. capped \subseteq Listed
    BY DEF SameJob, Listed, OwnInv, GenerationsOK
  <2>4. quota[j] \in Nat /\ quota[j] <= share
    BY <2>2, QuotaType DEF OwnInv, TypeOK
  <2> HIDE DEF capped
  <2>. QED  BY <2>2, <2>3, <2>4, WithinBudget
<1>. QED  BY <1>1, <1>2, <1>3, OwnInvariant, PTL DEF Spec, HealthyMeansCapped

-----------------------------------------------------------------------------
(* With one job there is one share, so that what a journal entry says of the
   limit stays true whenever it is written again; a manager that works and a
   monitor that is not killed leave no call half done. *)
LEMMA RollbackInit == Init => RollbackOK
  BY DEF Init, RollbackOK, BudgetOnly, CoveredOK

LEMMA RollbackStep ==
  ASSUME OwnInv, RollbackOK, [Next]_vars
  PROVE  RollbackOK'
<1>a. TypeOK /\ GenerationsOK /\ CallOK
  BY DEF OwnInv
<1>b. host' = host
  BY DEF Next, Guard, World, Start, Tick, ReleaseEntry, Restore, OutOfTime, EndRelease, List,
         Inspect, Apply, EndInspect, Save, Launch, Finish, Operator, Weather, Configure,
         Crash, vars, envVars
<1>c. (OneJob <=> OneJob') /\ (Dependable <=> Dependable')
  BY <1>b DEF OneJob, Dependable
<1>1. ASSUME OneJob, BudgetOnly PROVE BudgetOnly'
  <2>1. share' = share \/ List
    BY DEF Next, Guard, World, Start, Tick, ReleaseEntry, Restore, OutOfTime, EndRelease,
           Inspect, Apply, EndInspect, Save, Launch, Finish, Operator, Weather, Configure,
           Crash, vars, passVars
  <2>2. ASSUME List PROVE share' = Budget
    <3>1. PICK failing \in Fails :
            share' = Share(IF failing THEN {} ELSE {j \in Jobs : life[j] = "live"})
      BY <2>2 DEF List
    <3>2. PICK j \in Jobs : host.jobs \subseteq {j}
      BY <1>1 DEF OneJob
    <3>3. (IF failing THEN {} ELSE {k \in Jobs : life[k] = "live"}) \subseteq {j}
      BY <1>a, <3>2 DEF GenerationsOK
    <3>. QED  BY <3>1, <3>3, OneJobShare
  <2>3. \/ journal' = journal \/ Save
        \/ \E j \in Jobs, failing \in Fails : Inspect(j, failing)
    BY DEF Next, Guard, World, Start, Tick, ReleaseEntry, Restore, OutOfTime, EndRelease, List,
           Apply, EndInspect, Launch, Finish, Operator, Weather, Configure, Crash, vars
  <2>4. CASE journal' = journal
    BY <1>1, <2>1, <2>2, <2>4 DEF BudgetOnly
  <2>5. CASE Save
    <3>1. share' = share /\ journal' = entries /\ pc # "down"
      BY <2>5 DEF Save
    <3>. QED  BY <1>1, <3>1, CopyLowers DEF BudgetOnly
  <2>6. ASSUME NEW j \in Jobs, NEW failing \in Fails, Inspect(j, failing) PROVE BudgetOnly'
    <3>1. failing \in BOOLEAN
      BY DEF Fails
    <3>2. Outcome(j) /\ pc = "inspect" /\ share' = share
      BY <1>a, <2>6, <3>1, InspectOutcome
    <3>3. \A k \in Jobs : \/ journal'[k] = journal[k] \/ journal'[k] = entries[k]
                          \/ journal'[k] = Lowered(j)
      BY <1>a, <3>2 DEF Outcome, TypeOK
    <3>4. Lowered(j).applied = share
      BY DEF Lowered
    <3>. QED  BY <1>1, <3>2, <3>3, <3>4, CopyLowers DEF BudgetOnly
  <2>. QED  BY <2>3, <2>4, <2>5, <2>6
<1>2. ASSUME OneJob \/ Dependable, OneJob => BudgetOnly, CoveredOK PROVE CoveredOK'
  <2> USE <1>c, <1>2 DEF CoveredOK, Covers
  <2>1. ASSUME NEW c \in BOOLEAN, Start(c) PROVE CoveredOK'
    BY <2>1 DEF Start
  <2>2. CASE Tick \/ OutOfTime \/ EndRelease \/ List \/ EndInspect \/ Weather \/ Configure
    BY <2>2 DEF Tick, OutOfTime, EndRelease, List, EndInspect, Weather, Configure, envVars,
                passVars
  <2>3. ASSUME NEW j \in Jobs, NEW failing \in Fails, ReleaseEntry(j, failing)
        PROVE  CoveredOK'
    <3>1. /\ pc = "release" /\ pc' # "apply" /\ UNCHANGED <<envVars, journal>>
          /\ \/ entries' = entries
             \/ /\ entries' = [entries EXCEPT ![j] = None]
                /\ \/ life[j] = "dead"
                   \/ gen[j] = entries[j].gen /\ quota[j] # entries[j].applied
      BY <2>3 DEF ReleaseEntry, OwnLimit, Ended, SameJob
    <3>. QED  BY <1>a, <3>1 DEF envVars, TypeOK
  <2>4. CASE Restore
    <3>1. /\ pc = "restore" /\ pc' = "release" /\ UNCHANGED <<life, gen, journal>>
          /\ \/ /\ setBy' = [setBy EXCEPT ![target] = "launch"]
                /\ \A k \in Jobs \ {target} : quota'[k] = quota[k] /\ entries'[k] = entries[k]
             \/ UNCHANGED <<quota, setBy, entries>>
      BY <1>a, <2>4 DEF Restore, TypeOK
    <3>. QED  BY <1>a, <3>1 DEF TypeOK
  <2>5. ASSUME NEW j \in Jobs, NEW failing \in Fails, Inspect(j, failing) PROVE CoveredOK'
    <3>1. failing \in BOOLEAN
      BY DEF Fails
    <3>2. Outcome(j) /\ pc = "inspect" /\ UNCHANGED envVars
      BY <1>a, <2>5, <3>1, InspectOutcome
    <3>3. CASE UNCHANGED <<entries, journal, pc, target>>
      BY <3>2, <3>3 DEF envVars
    <3>4. CASE /\ Foreign(j) /\ entries' = [entries EXCEPT ![j] = None]
               /\ UNCHANGED <<journal, pc, target>>
      <4>1. life[j] = "live" => setBy[j] # "guard"
        BY <3>2, <3>4 DEF Foreign
      <4>. QED  BY <1>a, <3>2, <3>4, <4>1 DEF envVars, TypeOK
    <3>5. CASE /\ life[j] = "live" /\ share < quota[j]
               /\ entries' = [entries EXCEPT ![j] = Lowered(j)] /\ journal' = entries'
               /\ pc' = "apply" /\ target' = j
      <4>1. setBy[j] = "guard" => Dependable
        <5> SUFFICES ASSUME setBy[j] = "guard", OneJob PROVE FALSE
          OBVIOUS
        <5>1. quota[j] = Budget /\ share = Budget
          BY <3>2, <3>5, CopyLowers DEF BudgetOnly
        <5>. QED  BY <3>5, <5>1, QuotaType
      <4>2. Lowered(j) # None /\ Lowered(j).gen = gen[j]
        BY <1>a, <3>5 DEF Lowered, None, GenerationsOK
      <4>3. /\ journal'[j] = Lowered(j) /\ entries'[j] = Lowered(j)
            /\ \A k \in Jobs \ {j} : journal'[k] = entries[k] /\ entries'[k] = entries[k]
        BY <1>a, <3>5 DEF TypeOK
      <4>. QED  BY <3>2, <3>5, <4>1, <4>2, <4>3 DEF envVars
    <3>. QED  BY <3>2, <3>3, <3>4, <3>5 DEF Outcome
  <2>6. CASE Apply
    <3> DEFINE e == entries[target]
    <3>1. /\ pc = "apply" /\ pc' = "inspect" /\ UNCHANGED <<host, life, gen, journal>>
          /\ target \in Jobs /\ e \in Entry
          /\ \A k \in Jobs \ {target} : UNCHANGED <<quota[k], setBy[k], entries[k]>>
          /\ entries'[target] \in {e, [e EXCEPT !.pending = FALSE]}
      BY <1>a, <2>6 DEF Apply, SetQuota, TypeOK
    <3>2. \/ quota'[target] = e.applied /\ SameJob(target, e.gen)
          \/ /\ UNCHANGED <<quota, setBy, entries>>
             /\ SameJob(target, e.gen) => ~Dependable
      BY <1>a, <2>6 DEF Apply, SetQuota, TypeOK, Fails, Dependable
    <3>3. e # None /\ journal[target] # None /\ journal[target].gen = e.gen
          /\ journal[target].applied = e.applied
      BY <1>a, <3>1, CopyLowers DEF CallOK
    <3>4. entries'[target].gen = e.gen /\ entries'[target].applied = e.applied
      BY <3>1, EntryFields
    <3>5. entries'[target] # None
      <4>1. e.gen \in 0..MaxGen /\ e.gen >= 1 /\ MaxGen \in Nat
        BY <3>1, <3>3, EntryFields, QuotaType
      <4>2. None.gen = 0
        BY DEF None
      <4> HIDE DEF e
      <4>3. entries'[target].gen # None.gen
        BY <3>4, <4>1, <4>2
      <4>. QED  BY <4>3
    <3> HIDE DEF e
    <3>6. CASE quota'[target] = e.applied /\ SameJob(target, e.gen)
      BY <3>1, <3>3, <3>4, <3>5, <3>6 DEF SameJob
    <3>7. CASE /\ UNCHANGED <<quota, setBy, entries>>
               /\ SameJob(target, e.gen) => ~Dependable
      BY <3>1, <3>3, <3>7 DEF SameJob, e
    <3>. QED  BY <3>2, <3>6, <3>7
  <2>7. CASE Save
    BY <2>7 DEF Save, envVars
  <2>8. ASSUME NEW j \in Jobs, Launch(j) PROVE CoveredOK'
    BY <1>a, <2>8 DEF Launch, passVars, TypeOK
  <2>9. ASSUME NEW j \in Jobs, Finish(j) PROVE CoveredOK'
    BY <1>a, <2>9 DEF Finish, passVars, TypeOK
  <2>10. ASSUME NEW j \in Jobs, Operator(j) PROVE CoveredOK'
    BY <1>a, <2>10 DEF Operator, TypeOK
  <2>11. CASE Crash
    BY <2>11 DEF Crash, envVars, Dependable
  <2>12. CASE UNCHANGED vars
    BY <2>12 DEF vars, envVars, passVars
  <2>. QED  BY <2>1, <2>2, <2>3, <2>4, <2>5, <2>6, <2>7, <2>8, <2>9, <2>10, <2>11, <2>12
            DEF Next, Guard, World
<1>. QED  BY <1>c, <1>1, <1>2 DEF RollbackOK

(* The guard writes rollback state before a quota change, and keeps it: whatever
   it limited on a live scope the journal on disk covers, for any number of jobs
   as long as the manager answers and nothing kills the monitor, and with one
   batch job under every failure.  (With two jobs and a manager that fails it is
   false: see the run that expects the violation.) *)
THEOREM LimitsJournalledHolds == Spec => [](OneJob \/ Dependable => LimitsJournalled)
<1>1. OwnInv /\ RollbackOK /\ [Next]_vars => RollbackOK'
  BY RollbackStep
<1>2. RollbackOK => (OneJob \/ Dependable => LimitsJournalled)
  BY DEF RollbackOK, CoveredOK, Covers, LimitsJournalled
<1>. QED  BY <1>1, <1>2, RollbackInit, OwnInvariant, PTL DEF Spec

=============================================================================
