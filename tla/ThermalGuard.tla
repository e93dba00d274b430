------------------------------ MODULE ThermalGuard ------------------------------
(***************************************************************************)
(* The CPU guard of codex_looper/thermal.py: Controller._tick, release and *)
(* _set_quota, with the rollback journal on disk.  A pass is cut into the  *)
(* steps between which its manager calls let jobs, operators and crashes   *)
(* in: read a scope's quota, persist the rollback entry, set the quota,    *)
(* publish the journal and the status.                                     *)
(*                                                                         *)
(* Temperatures are reduced to the levels _tick tells apart.  "settled" is *)
(* cool for recovery_seconds on the guard's own clock, "longlost" a sensor *)
(* lost for the grace period under the budget policy.                      *)
(***************************************************************************)
EXTENDS Integers, FiniteSets

CONSTANTS
    Jobs,             \* registered batch jobs with a scope
    MaxGen,           \* bound: consented restarts of a job
    Budget,           \* batch_budget_percent, shared by the running jobs
    Unlimited,        \* CPUQuota "infinity", above every limit
    Hosts             \* the hosts considered: records of
                      \*   jobs     those that are launched, each up to
                      \*   launches times
                      \*   quotas   limits an operator may set on a scope
                      \*   fails    manager calls and identity reads may fail
                      \*   crashes  the monitor may stop at any step
                      \*   prunes   cleanup() removes records of finished jobs

ASSUME QuotaType == {Budget, Unlimited, MaxGen} \subseteq Nat /\ Budget < Unlimited
ASSUME HostType ==
    Hosts \subseteq [jobs : SUBSET Jobs, launches : 0..MaxGen, quotas : SUBSET (0..Unlimited),
                    fails : BOOLEAN, crashes : BOOLEAN, prunes : BOOLEAN]
ASSUME JobsType == IsFiniteSet(Jobs) /\ Jobs # {}

VARIABLES
    host,      \* the host of this behaviour
    life,      \* "new", "live", "dead", or "pruned" from the job store
    gen,       \* generation of the job's scope and identity
    quota,     \* CPUQuota of the scope
    setBy,     \* history: who set it
    heat, enforce,       \* the sensor and the configuration
    journal,   \* thermal-remedies.json
    entries,   \* the controller's copy
    pc, mode,            \* the step of the pass, and why it releases
    todo,      \* jobs the step still has to visit
    protect, share,      \* locals of _tick
    listed,    \* history: generations in the inventory of the pass, 0 if not
               \* listed or limited by an operator since
    target,    \* the job under the current manager call
    late,      \* history: an operator changed its limit since the guard read it
    issue,     \* an issue was appended in this pass
    report     \* the published status: "healthy" or "degraded"

envVars  == <<host, life, gen, quota, setBy, heat, enforce>>
passVars == <<pc, mode, todo, protect, share, listed, target, late, issue>>
vars == <<envVars, journal, entries, passVars, report>>

None == [gen |-> 0, original |-> 0, applied |-> 0, pending |-> FALSE]
Entry == [gen : 1..MaxGen, original : 0..Unlimited, applied : 0..Unlimited,
          pending : BOOLEAN] \cup {None}

TypeOK == /\ host \in Hosts
          /\ life \in [Jobs -> {"new", "live", "dead", "pruned"}]
          /\ gen \in [Jobs -> 0..MaxGen]
          /\ quota \in [Jobs -> 0..Unlimited]
          /\ setBy \in [Jobs -> {"launch", "operator", "guard"}]
          /\ heat \in {"cool", "settled", "warm", "critical", "lost", "longlost"}
          /\ enforce \in BOOLEAN
          /\ journal \in [Jobs -> Entry] /\ entries \in [Jobs -> Entry]
          /\ pc \in {"down", "idle", "release", "restore", "list", "inspect",
                     "apply", "save"}
          /\ mode \in {"pass", "disabled", "command"}
          /\ todo \subseteq Jobs /\ target \in Jobs
          /\ listed \in [Jobs -> 0..MaxGen]
          /\ protect \in BOOLEAN /\ issue \in BOOLEAN /\ late \in BOOLEAN
          /\ share \in 0..Budget
          /\ report \in {"none", "healthy", "degraded"}

Held(es) == {j \in Jobs : es[j] # None}
Fails    == IF host.fails THEN BOOLEAN ELSE {FALSE}

(* JobStore.validate for the identity recorded with generation g. *)
SameJob(j, g) == life[j] = "live" /\ gen[j] = g

Init == /\ host \in Hosts
        /\ life = [j \in Jobs |-> "new"] /\ gen = [j \in Jobs |-> 0]
        /\ quota = [j \in Jobs |-> Unlimited] /\ setBy = [j \in Jobs |-> "launch"]
        /\ heat = "warm" /\ enforce = TRUE
        /\ journal = [j \in Jobs |-> None] /\ entries = [j \in Jobs |-> None]
        /\ pc = "down" /\ mode = "pass" /\ todo = {} /\ protect = FALSE
        /\ share = Budget /\ listed = [j \in Jobs |-> 0]
        /\ target = (CHOOSE j \in Jobs : TRUE) /\ late = FALSE
        /\ issue = FALSE /\ report = "none"

-----------------------------------------------------------------------------
(* The monitor starts with the journal on disk; `codex-thermal release` does
   one release and ends.  thermal.lock allows one of them at a time. *)
Start(command) ==
    /\ pc = "down"
    /\ entries' = journal
    /\ heat' = CASE heat = "settled" -> "cool" [] heat = "longlost" -> "lost"
                 [] OTHER -> heat
    /\ mode' = IF command THEN "command" ELSE "pass"
    /\ pc' = IF command THEN "release" ELSE "idle"
    /\ todo' = IF command THEN Held(journal) ELSE {}
    /\ UNCHANGED <<host, life, gen, quota, setBy, enforce, journal, protect, share, listed,
                   target, late, issue, report>>

Releasing == ~enforce \/ heat = "settled"

Tick ==
    /\ pc = "idle"
    /\ issue' = FALSE
    /\ mode' = IF enforce THEN "pass" ELSE "disabled"
    /\ IF Releasing
       THEN pc' = "release" /\ todo' = Held(entries)
       ELSE pc' = "list" /\ todo' = {}
    /\ UNCHANGED <<envVars, journal, entries, protect, share, listed, target, late, report>>

OwnLimit_Assumed(j, e) == TRUE
OwnLimit(j, e) == quota[j] = e.applied

Ended_Kept(j) == FALSE
Ended(j) == life[j] = "dead"

(* One entry of release(): a later operator value wins, an ended job needs no
   rollback, an unreadable or changed identity keeps its entry. *)
ReleaseEntry(j, failing) ==
    /\ pc = "release" /\ j \in todo
    /\ todo' = todo \ {j}
    /\ LET e == entries[j]
           same == SameJob(j, e.gen) /\ ~failing
       IN  IF same /\ OwnLimit(j, e)
           THEN pc' = "restore" /\ target' = j /\ UNCHANGED entries
           ELSE /\ entries' = IF same \/ (~failing /\ Ended(j))
                              THEN [entries EXCEPT ![j] = None] ELSE entries
                /\ UNCHANGED <<pc, target>>
    /\ UNCHANGED <<envVars, journal, mode, protect, share, listed, late, issue, report>>

SetQuota(j, value) == /\ quota' = [quota EXCEPT ![j] = value]
                      /\ setBy' = [setBy EXCEPT ![j] = "guard"]

(* _set_quota validates again; it can also fail after the property is set. *)
Restore ==
    LET e == entries[target] IN
    /\ pc = "restore"
    /\ \E failing \in Fails, reached \in BOOLEAN :
         IF SameJob(target, e.gen) /\ ~failing
         THEN /\ quota' = [quota EXCEPT ![target] = e.original]
              /\ setBy' = [setBy EXCEPT ![target] = "launch"]
              /\ entries' = [entries EXCEPT ![target] = None]
         ELSE /\ IF reached /\ failing /\ SameJob(target, e.gen)
                 THEN /\ quota' = [quota EXCEPT ![target] = e.original]
                      /\ setBy' = [setBy EXCEPT ![target] = "launch"]
                 ELSE UNCHANGED <<quota, setBy>>
              /\ UNCHANGED entries
    /\ pc' = "release" /\ late' = FALSE
    /\ UNCHANGED <<host, life, gen, heat, enforce, journal, mode, todo, protect, share, listed,
                   target, issue, report>>

(* The two-second budget of a pass cuts either loop short. *)
OutOfTime ==
    /\ pc \in {"release", "inspect"} /\ todo # {} /\ host.fails
    /\ mode # "command"
    /\ todo' = {} /\ issue' = (issue \/ pc = "inspect")
    /\ UNCHANGED <<envVars, journal, entries, pc, mode, protect, share, listed, target, late,
                   report>>

EndRelease ==
    /\ pc = "release" /\ todo = {}
    /\ IF mode = "pass"
       THEN pc' = "list" /\ issue' = (issue \/ Held(entries) # {})
       ELSE pc' = "save" /\ UNCHANGED issue
    /\ UNCHANGED <<envVars, journal, entries, mode, todo, protect, share, listed, target, late,
                   report>>

Sensor == heat \notin {"lost", "longlost"}

Share_Undivided(running) == Budget
Share(running) == Budget \div (IF running = {} THEN 1 ELSE Cardinality(running))

(* The inventory, and the share of the budget each listed job gets. *)
List ==
    /\ pc = "list"
    /\ \E failing \in Fails :
         LET running == IF failing THEN {} ELSE {j \in Jobs : life[j] = "live"} IN
         /\ todo' = running
         /\ listed' = [j \in Jobs |-> IF j \in running THEN gen[j] ELSE 0]
         /\ share' = Share(running)
         /\ issue' = (issue \/ failing)
    /\ protect' = (heat \in {"critical", "longlost"} \/ (Held(entries) # {} /\ Sensor))
    /\ pc' = "inspect"
    /\ UNCHANGED <<envVars, journal, entries, mode, target, late, report>>

(* The limit found is neither the guard's own nor, after an unfinished write,
   the one it was about to replace. *)
Foreign(j) == LET e == entries[j] IN
    e # None /\ \/ e.gen # gen[j]
                \/ quota[j] # e.applied /\ ~(e.pending /\ quota[j] = e.original)

Goal(q) == IF q < share THEN q ELSE share

Persist_Later == UNCHANGED journal
Persist == journal' = entries'

(* One job of the pass, up to the write that must precede its new quota. *)
Inspect(j, failing) ==
    LET e == entries[j]
        goal == Goal(quota[j])
    IN
    /\ pc = "inspect" /\ j \in todo
    /\ todo' = todo \ {j}
    /\ CASE failing \/ life[j] # "live" ->
              issue' = TRUE /\ UNCHANGED <<entries, journal, pc, target>>
         [] ~failing /\ life[j] = "live" /\ ~protect ->
              UNCHANGED <<issue, entries, journal, pc, target>>
         [] ~failing /\ life[j] = "live" /\ protect /\ Foreign(j) ->
              /\ entries' = IF quota[j] <= share THEN [entries EXCEPT ![j] = None]
                                                 ELSE entries
              /\ issue' = (issue \/ quota[j] > share)
              /\ UNCHANGED <<journal, pc, target>>
         [] ~failing /\ life[j] = "live" /\ protect /\ ~Foreign(j) /\ goal >= quota[j] ->
              UNCHANGED <<issue, entries, journal, pc, target>>
         [] OTHER ->
              /\ entries' = [entries EXCEPT ![j] =
                    [gen |-> gen[j], applied |-> goal, pending |-> TRUE,
                     original |-> IF e # None THEN e.original ELSE quota[j]]]
              /\ Persist
              /\ pc' = "apply" /\ target' = j /\ UNCHANGED issue
    /\ UNCHANGED <<envVars, mode, protect, share, listed, late, report>>

Apply ==
    LET e == entries[target] IN
    /\ pc = "apply"
    /\ \E failing \in Fails, reached \in BOOLEAN :
         IF SameJob(target, e.gen) /\ ~failing
         THEN /\ SetQuota(target, e.applied)
              /\ entries' = [entries EXCEPT ![target].pending = FALSE]
              /\ UNCHANGED issue
         ELSE /\ IF reached /\ failing /\ SameJob(target, e.gen)
                 THEN SetQuota(target, e.applied) ELSE UNCHANGED <<quota, setBy>>
              /\ issue' = TRUE /\ UNCHANGED entries
    /\ pc' = "inspect" /\ late' = FALSE
    /\ UNCHANGED <<host, life, gen, heat, enforce, journal, mode, todo, protect, share, listed,
                   target, report>>

EndInspect ==
    /\ pc = "inspect" /\ todo = {}
    /\ pc' = "save"
    /\ UNCHANGED <<envVars, journal, entries, mode, todo, protect, share, listed, target, late,
                   issue, report>>

Save ==
    /\ pc = "save"
    /\ journal' = entries
    /\ pc' = IF mode = "command" THEN "down" ELSE "idle"
    /\ report' = IF mode = "command" THEN report
                 ELSE IF issue THEN "degraded" ELSE "healthy"
    /\ UNCHANGED <<envVars, entries, mode, todo, protect, share, listed, target, late, issue>>

-----------------------------------------------------------------------------
(* Jobs, operators, weather, and the end of the monitor. *)

Launch(j) ==      \* a first launch, or a consented restart in a new scope
    /\ j \in host.jobs /\ life[j] \in {"new", "live"} /\ gen[j] < host.launches
    /\ life' = [life EXCEPT ![j] = "live"]
    /\ gen' = [gen EXCEPT ![j] = @ + 1]
    /\ quota' = [quota EXCEPT ![j] = Unlimited]
    /\ setBy' = [setBy EXCEPT ![j] = "launch"]
    /\ UNCHANGED <<host, heat, enforce, journal, entries, passVars, report>>

Finish(j) ==      \* the processes end; later cleanup() prunes the record
    /\ \/ life[j] = "live" /\ life' = [life EXCEPT ![j] = "dead"]
       \/ host.prunes /\ life[j] = "dead" /\ life' = [life EXCEPT ![j] = "pruned"]
    /\ UNCHANGED <<host, gen, quota, setBy, heat, enforce, journal, entries, passVars, report>>

(* At any time, between the guard's read of this scope and its write too. *)
Operator(j) ==
    /\ life[j] = "live"
    /\ \E q \in host.quotas \ {quota[j]} : quota' = [quota EXCEPT ![j] = q]
    /\ setBy' = [setBy EXCEPT ![j] = "operator"]
    /\ listed' = [listed EXCEPT ![j] = 0]
    /\ late' = (late \/ (pc \in {"restore", "apply"} /\ target = j))
    /\ UNCHANGED <<host, life, gen, heat, enforce, journal, entries, pc, mode, todo,
                   protect, share, target, issue, report>>

Weather ==
    /\ pc \in {"idle", "down"}
    /\ \/ heat' \in {"cool", "warm", "critical", "lost"} \ {heat}
       \/ heat = "cool" /\ heat' = "settled"
       \/ heat = "lost" /\ heat' = "longlost"
    /\ UNCHANGED <<host, life, gen, quota, setBy, enforce, journal, entries, passVars, report>>

Configure ==
    /\ pc \in {"idle", "down"} /\ enforce' = ~enforce
    /\ UNCHANGED <<host, life, gen, quota, setBy, heat, journal, entries, passVars, report>>

Crash ==
    /\ host.crashes /\ pc # "down"
    /\ pc' = "down" /\ todo' = {} /\ late' = FALSE
    /\ entries' = [j \in Jobs |-> None]
    /\ UNCHANGED <<envVars, journal, mode, protect, share, listed, target, issue, report>>

Guard == \/ Start(FALSE) \/ Tick \/ Restore \/ EndRelease \/ List \/ Apply
         \/ EndInspect \/ Save
         \/ \E j \in Jobs, failing \in Fails : ReleaseEntry(j, failing)
                                               \/ Inspect(j, failing)

World == \/ Weather \/ Configure \/ Crash \/ OutOfTime \/ Start(TRUE)
         \/ \E j \in Jobs : Launch(j) \/ Finish(j) \/ Operator(j)

Next == Guard \/ World

Spec == Init /\ [][Next]_vars

(* systemd keeps the monitor running and its loop ticking. *)
FairSpec == Spec /\ WF_vars(Guard)

-----------------------------------------------------------------------------
(* Properties.                                                             *)

(* docs/resource-reliability.md:89 "The guard writes rollback state before a
   quota change", README.md:695-697: whatever the guard limited can be
   released again.  A limit the guard put on a live scope is covered by the
   journal on disk, across crashes, restarts and failed manager calls. *)
LimitsJournalled == \A j \in Jobs :
    life[j] = "live" /\ setBy[j] = "guard" => journal[j] # None /\ journal[j].gen = gen[j]

\* An operator chose the very limit that the guard remembers as its own.
LooksOwn(j) == setBy[j] = "operator" /\ quota[j] = entries[j].applied

(* thermal.py:599 "Preserve a later operator change": but for an operator or a
   new launch, a quota is raised only where the guard had lowered it itself,
   across crashes, restarts, failed calls and journals that are older than the
   quota.  Two things escape the guard: a limit equal to its own, and a limit
   that came after the read this write rests on. *)
NeverOverKnownLimit == [][\A j \in Jobs :
    gen'[j] = gen[j] /\ quota'[j] > quota[j] /\ setBy'[j] # "operator"
      => setBy[j] = "guard" \/ LooksOwn(j) \/ (late /\ target = j)]_vars

(* docs/resource-reliability.md:89 "never restores over a later operator
   limit": the rollback of a live scope replaces a limit of the guard alone. *)
NeverRestoresOver == [][\A j \in Jobs :
    gen'[j] = gen[j] /\ quota'[j] > quota[j] /\ setBy'[j] = "launch"
      => setBy[j] = "guard"]_vars

(* README.md:692-694: a combined budget.  A pass that publishes a healthy
   status at a critical temperature has left every job of its inventory, those
   aside that ended, restarted or got an operator's limit meanwhile, with no
   more than an equal share, so that together they keep within the budget. *)
HealthyMeansCapped ==
    [][pc = "save" /\ pc' = "idle" /\ mode = "pass" /\ report' = "healthy"
         /\ heat = "critical" =>
            LET capped == {j \in Jobs : SameJob(j, listed[j])}
            IN  \A j \in capped : quota[j] * Cardinality(capped) <= Budget]_vars

\* The manager answers, nothing kills the monitor, and records of finished jobs
\* stay in the job store.
Reliable == ~host.fails /\ ~host.crashes /\ ~host.prunes

(* Nothing of the guard remains.  Once enforcement stays off, no limit of it
   stays on a live job; and, thermal.py:582 "Finished jobs need no rollback",
   passes that release again and again do not keep the entry of a finished job
   (and with it the protection of all others) for ever. *)
LimitsReleased == \A j \in Jobs :
    Reliable =>
      /\ <>[]~enforce => <>[](life[j] = "live" => setBy[j] # "guard")
      /\ []<>(pc = "save" /\ mode = "disabled") =>
            []<>(life[j] \in {"new", "live"} \/ journal[j] = None)
=============================================================================
