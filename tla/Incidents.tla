------------------------------- MODULE Incidents -------------------------------
(***************************************************************************)
(* The remedies of the incident worker in codex_looper/resource_incidents  *)
(* .py, from the validated answer of the model to the returned result.     *)
(* The worker holds the incident lock, changes overrides and restart       *)
(* requests in the job store, journals what it is about to do and did, and *)
(* may be interrupted anywhere: by its deadline (WorkerTimeout), by the    *)
(* end of the cleanup grace (CleanupTimeout), by the keyboard, or by its   *)
(* death.  Meanwhile operators withdraw consent, jobs end, and overrides   *)
(* expire.                                                                 *)
(*                                                                         *)
(* An action is a kind and a job; TTLs, worker counts, the reading of the  *)
(* telemetry and the provider are left out.  The result of an action has   *)
(* one status for its two ways of being rejected.                          *)
(***************************************************************************)
EXTENDS Integers, FiniteSets

CONSTANTS
    Jobs,          \* batch jobs reported to the model
    Nobody,        \* stands for no action
    Answers,       \* bound: the actions the model may answer with
    Interrupts     \* bound: keyboard interrupts

ASSUME IncidentBounds == Interrupts \in Nat

Reversible == {"defer", "reduce_workers"}
Actions    == [kind : Reversible \cup {"restart"}, job : Jobs]

ASSUME NobodyApart == Nobody \notin Actions
ASSUME AnswersAreActions == \A s \in Answers : s # {} /\ s \subseteq Actions

Statuses == {"none", "not_attempted", "rejected", "pending", "attempting",
             "applied", "uncertain", "skipped"}
Result   == [status : Statuses, id : BOOLEAN, incomplete : BOOLEAN,
             rollback : {"none", "removed", "unavailable"}]
Unstarted == [status |-> "none", id |-> FALSE, incomplete |-> FALSE, rollback |-> "none"]

Points == {"consent", "first", "pick", "check", "intent", "act", "returned",
           "named", "log", "roll", "final",                   \* apply_actions
           "mark1", "roll1", "write1",                        \* its handler
           "status", "save", "retain",                        \* _investigate
           "mark2", "roll2", "write2",                        \* its handler
           "mark3", "roll3", "write3", "save3",               \* the handler of the last write
           "done", "dead"}
Rolling == {"roll", "roll1", "roll2", "roll3"}

VARIABLES
    consent,       \* investigator = codex and automatic_actions, as stored
    valid,         \* jobs whose reported identity still holds
    files,         \* overrides in the store made by this worker, by action
    asked,         \* jobs whose one restart is requested or used
    answer,        \* the actions of the validated answer
    pc, cur, todo, \* the worker, its action, overrides left to roll back
    res,           \* its results, shared with the journal record and the report
    worse,         \* the readings after the actions were worse
    alarm,         \* the deadline: armed, in cleanup grace, over
    keys,          \* keyboard interrupts so far
    journal,       \* the durable journal
    report,        \* the durable report
    made,          \* history: actions that had their effect
    late           \* history: effects since consent was withdrawn

env    == <<consent, valid>>
store  == <<files, asked, made, late>>
disk   == <<journal, report>>
local  == <<cur, todo, res, worse>>
clock  == <<alarm, keys>>
vars   == <<env, store, disk, local, clock, answer, pc>>

TypeOK == /\ consent \in BOOLEAN /\ valid \subseteq Jobs
          /\ files \subseteq {a \in Actions : a.kind # "restart"}
          /\ asked \subseteq Jobs
          /\ answer \subseteq Actions
          /\ pc \in Points /\ cur \in answer \cup {Nobody}
          /\ todo \subseteq {a \in answer : a.kind # "restart"}
          /\ res \in [answer -> Result]
          /\ worse \in BOOLEAN
          /\ alarm \in {"armed", "grace", "over"} /\ keys \in 0..Interrupts
          /\ journal \in [exists : BOOLEAN, actions : [answer -> Result], complete : BOOLEAN]
          /\ report \in [actions : [answer -> Result],
                         status : {"none", "diagnosed", "incomplete"}]
          /\ made \subseteq answer /\ late \in Nat

Init == /\ consent \in BOOLEAN /\ valid = Jobs /\ asked = {}
        /\ answer \in Answers
        /\ res = [a \in answer |-> Unstarted]
        /\ journal = [exists |-> FALSE, actions |-> res, complete |-> FALSE]
        /\ report = [actions |-> res, status |-> "none"]
        /\ pc = "consent" /\ cur = Nobody /\ todo = {} /\ worse = FALSE
        /\ alarm = "armed" /\ keys = 0
        /\ files = {} /\ made = {} /\ late = 0

-----------------------------------------------------------------------------
(* apply_actions.                                                          *)

Started  == {a \in answer : res[a].status # "none"}
Owned    == {a \in answer : res[a].id}
Failed(job) == \E a \in answer : a.job = job /\ res[a].status = "rejected"

Go(p) == pc' = p
Mark(a, status) == res' = [res EXCEPT ![a].status = status]

Written(complete) == [exists |-> TRUE, actions |-> res, complete |-> complete]

(* A private file is replaced whole; the write may fail before, or after it
   is durable. *)
WriteJournal(complete, next, failed) ==
    \/ journal' = Written(complete) /\ pc' \in {next, failed}
    \/ UNCHANGED journal /\ Go(failed)

(* The settings are read again after the model has answered. *)
ReadConsent ==
    /\ pc = "consent"
    /\ \/ Go(IF consent THEN "first" ELSE "status")
       \/ Go("mark2")
    /\ UNCHANGED <<env, store, disk, local, clock, answer>>

WriteFirst ==
    /\ pc = "first"
    /\ WriteJournal(FALSE, "pick", "mark1")
    /\ UNCHANGED <<env, store, report, local, clock, answer>>

(* Restarts come after everything that can be undone. *)
Pick(a) ==
    /\ pc = "pick"
    /\ a \in answer \ Started
    /\ a.kind = "restart" => \A b \in answer \ Started : b.kind = "restart"
    /\ cur' = a
    /\ Mark(a, "not_attempted")
    /\ Go("check")
    /\ UNCHANGED <<env, store, disk, todo, worse, clock, answer>>

Check_WithoutFailed ==
    /\ pc = "check"
    /\ IF consent /\ cur.job \in valid
       THEN Mark(cur, "pending") /\ Go("intent")
       ELSE Mark(cur, "rejected") /\ Go("log")
    /\ UNCHANGED <<env, store, disk, cur, todo, worse, clock, answer>>
Check_NoConsent ==
    /\ pc = "check"
    /\ IF /\ cur.job \in valid
          /\ cur.kind = "restart" => ~Failed(cur.job)
       THEN Mark(cur, "pending") /\ Go("intent")
       ELSE Mark(cur, "rejected") /\ Go("log")
    /\ UNCHANGED <<env, store, disk, cur, todo, worse, clock, answer>>

Check ==
    /\ pc = "check"
    /\ IF /\ consent
          /\ cur.kind = "restart" => ~Failed(cur.job)
          /\ cur.job \in valid
       THEN Mark(cur, "pending") /\ Go("intent")
       ELSE Mark(cur, "rejected") /\ Go("log")
    /\ UNCHANGED <<env, store, disk, cur, todo, worse, clock, answer>>

WriteIntent ==
    /\ pc = "intent"
    /\ \/ /\ journal' = Written(FALSE)
          /\ Mark(cur, "attempting") /\ Go("act")
       \/ /\ journal' = Written(FALSE)
          /\ UNCHANGED res /\ Go("mark1")
       \/ UNCHANGED <<journal, res>> /\ Go("mark1")
    /\ UNCHANGED <<env, store, report, cur, todo, worse, clock, answer>>

Effect == /\ made' = made \cup {cur}
          /\ late' = IF consent THEN 0 ELSE late + 1
          /\ IF cur.kind = "restart"
             THEN asked' = asked \cup {cur.job} /\ UNCHANGED files
             ELSE files' = files \cup {cur} /\ UNCHANGED asked

(* defer_job, reduce_workers, request_restart: refused by a precondition (a
   ValueError), done, failed before, or failed after the commit (OSError). *)
Act ==
    /\ pc = "act"
    /\ \/ /\ \/ cur.job \notin valid
             \/ cur.kind = "restart" /\ cur.job \in asked
             \/ cur.kind \in Reversible          \* retention limit, counts
          /\ Mark(cur, "rejected") /\ Go("log")
          /\ UNCHANGED store
       \/ /\ cur.job \in valid
          /\ cur.kind = "restart" => cur.job \notin asked
          /\ Effect
          /\ pc' \in {"returned", "mark1"} /\ UNCHANGED res
       \/ Go("mark1") /\ UNCHANGED <<store, res>>
    /\ UNCHANGED <<env, disk, cur, todo, worse, clock, answer>>

(* The returned override id and the status are stored one after the other. *)
StoreId ==
    /\ pc = "returned"
    /\ res' = [res EXCEPT ![cur].id = (cur.kind # "restart")]
    /\ Go("named")
    /\ UNCHANGED <<env, store, disk, cur, todo, worse, clock, answer>>

StoreStatus ==
    /\ pc = "named"
    /\ Mark(cur, "applied") /\ Go("log")
    /\ UNCHANGED <<env, store, disk, cur, todo, worse, clock, answer>>

WriteResult ==
    /\ pc = "log"
    /\ WriteJournal(FALSE, "pick", "mark1")
    /\ UNCHANGED <<env, store, report, local, clock, answer>>

Owing == {a \in Owned : res[a].rollback # "removed"}

(* The second reading; it may have failed. *)
Compare ==
    /\ pc = "pick" /\ Started = answer
    /\ \/ Go("mark1") /\ UNCHANGED <<worse, todo>>
       \/ \E w \in BOOLEAN :
             /\ worse' = w
             /\ IF w THEN todo' = Owing /\ Go("roll")
                     ELSE Go("final") /\ UNCHANGED todo
    /\ cur' = Nobody
    /\ UNCHANGED <<env, store, disk, res, clock, answer>>

WriteFinal ==
    /\ pc = "final"
    /\ WriteJournal(\A a \in answer : ~res[a].incomplete, "status", "mark1")
    /\ UNCHANGED <<env, store, report, local, clock, answer>>

-----------------------------------------------------------------------------
(* What the handlers share.                                                *)

Settled_AttemptsSkipped(r) ==
    [r EXCEPT !.incomplete = TRUE,
              !.status = IF @ = "attempting" /\ r.id THEN "applied"
                         ELSE IF @ \in {"none", "not_attempted", "pending", "attempting"}
                         THEN "skipped" ELSE @]

(* _incomplete_actions: an attempt is applied if its id came back, uncertain
   otherwise; what was not begun is skipped. *)
Settled(r) == [r EXCEPT !.incomplete = TRUE,
                        !.status = CASE @ = "attempting" /\ r.id -> "applied"
                                     [] @ = "attempting" /\ ~r.id -> "uncertain"
                                     [] @ \in {"none", "not_attempted", "pending"} -> "skipped"
                                     [] OTHER -> @]
Incomplete == res' = [a \in answer |-> Settled(res[a])]

MarkIncomplete(p, next) ==
    /\ pc = p
    /\ Incomplete
    /\ todo' = {a \in answer : Settled(res[a]).id /\ res[a].rollback # "removed"}
    /\ cur' = Nobody
    /\ Go(next)
    /\ UNCHANGED <<env, store, disk, worse, clock, answer>>

Mark1_KeepsOverrides == MarkIncomplete("mark1", "write1")
Mark1 == MarkIncomplete("mark1", "roll1")
Mark2 == MarkIncomplete("mark2", "roll2")
Mark3 == MarkIncomplete("mark3", "roll3")

AfterRoll == [p \in Rolling |-> CASE p = "roll"  -> "final"
                                  [] p = "roll1" -> "write1"
                                  [] p = "roll2" -> "write2"
                                  [] p = "roll3" -> "write3"]

(* rollback_override: a file that is gone already is as good as removed. *)
RollBack(a) ==
    /\ pc \in Rolling /\ a \in todo
    /\ todo' = todo \ {a}
    /\ \/ /\ files' = files \ {a}
          /\ res' = [res EXCEPT ![a].rollback = "removed"]
       \/ /\ files' \in {files, files \ {a}}
          /\ res' = [res EXCEPT ![a].rollback = "unavailable"]
    /\ UNCHANGED <<env, asked, made, late, disk, cur, worse, clock, answer, pc>>

RolledBack ==
    /\ pc \in Rolling /\ todo = {}
    /\ Go(AfterRoll[pc])
    /\ UNCHANGED <<env, store, disk, local, clock, answer>>

(* The handlers' own writes: a failure is ignored.  _investigate's amend a
   journal and make none. *)
WriteHandled(p, next) ==
    /\ pc = p
    /\ \/ /\ journal.exists \/ p = "write1"
          /\ journal' = Written(FALSE)
       \/ UNCHANGED journal
    /\ Go(next)
    /\ UNCHANGED <<env, store, report, local, clock, answer>>

Write1 == WriteHandled("write1", "status")
Write2 == WriteHandled("write2", "save")
Write3 == WriteHandled("write3", "save3")

-----------------------------------------------------------------------------
(* The end of _investigate.                                                *)

Status == IF \E a \in answer : res[a].incomplete THEN "incomplete" ELSE "diagnosed"

SetStatus ==
    /\ pc = "status"
    /\ Go("save")
    /\ UNCHANGED <<env, store, disk, local, clock, answer>>

SaveReport ==
    /\ pc = "save"
    /\ \/ report' = [actions |-> res, status |-> Status] /\ pc' \in {"retain", "done"}
       \/ UNCHANGED report /\ Go("done")
    /\ UNCHANGED <<env, store, journal, local, clock, answer>>

RetainJournals ==
    /\ pc = "retain"
    /\ Go("done")
    /\ UNCHANGED <<env, store, disk, local, clock, answer>>

SaveAgain ==
    /\ pc = "save3"
    /\ \/ report' = [actions |-> res, status |-> "incomplete"]
       \/ UNCHANGED report
    /\ Go("done")
    /\ UNCHANGED <<env, store, journal, local, clock, answer>>

Work == \/ ReadConsent \/ WriteFirst \/ (\E a \in answer : Pick(a)) \/ Check
        \/ WriteIntent \/ Act \/ StoreId \/ StoreStatus \/ WriteResult
        \/ Compare \/ WriteFinal \/ Mark1 \/ Mark2 \/ Mark3
        \/ (\E a \in answer : RollBack(a)) \/ RolledBack
        \/ Write1 \/ Write2 \/ Write3
        \/ SetStatus \/ SaveReport \/ RetainJournals \/ SaveAgain

-----------------------------------------------------------------------------
(* Interruptions.  WorkerTimeout and KeyboardInterrupt go to the handler of
   the region they hit; a second one inside a handler may leave it. *)

Ended == pc \in {"done", "dead"}
Applying == {"first", "pick", "check", "intent", "act", "returned", "named", "log",
             "final"}

Abandon == res' = [a \in answer |-> IF a \in Owing
                     THEN [res[a] EXCEPT !.rollback = "unavailable", !.incomplete = TRUE]
                     ELSE res[a]]

(* An interrupted rollback goes on after the loop, with what is left marked;
   one file may be gone already. *)
InterruptRolling ==
    /\ pc \in Rolling
    /\ Abandon /\ todo' = {}
    /\ \E gone \in SUBSET todo : Cardinality(gone) <= 1 /\ files' = files \ gone
    /\ Go(AfterRoll[pc])
    /\ UNCHANGED <<cur, worse, asked, made, late>>

Interrupted ==
    \/ InterruptRolling
    \/ /\ \/ pc \in Applying /\ Go("mark1")
          \/ pc \in {"consent", "status"} /\ Go("mark2")
          \/ pc \in {"save", "retain"} /\ Go("mark3")
          \/ pc \in {"mark1", "write1"} /\ Go("mark2")
          \/ pc = "write1" /\ Go("status")
          \/ pc = "write2" /\ Go("save")
          \/ pc = "write3" /\ Go("save3")
          \/ pc = "save3" /\ Go("done")
          \/ pc \in {"mark2", "write2", "mark3", "write3", "save3"} /\ Go("dead")
       /\ UNCHANGED <<local, store>>

WorkerTimeout ==
    /\ ~Ended /\ alarm = "armed"
    /\ alarm' = "grace"
    /\ Interrupted
    /\ UNCHANGED <<env, disk, keys, answer>>

KeyboardInterrupt ==
    /\ ~Ended /\ keys < Interrupts
    /\ keys' = keys + 1
    /\ Interrupted
    /\ UNCHANGED <<env, disk, alarm, answer>>

CleanupTimeout_Swallowed ==
    /\ ~Ended /\ alarm = "grace"
    /\ alarm' = "over"
    /\ Interrupted
    /\ UNCHANGED <<env, disk, keys, answer>>

(* The end of the grace is terminal: the result is what is known by now.  An
   alarm delivered later than the grace lasts is that end at once. *)
CleanupTimeout ==
    /\ ~Ended /\ alarm # "over"
    /\ alarm' = "over"
    /\ res' = [a \in answer |-> Settled(
                  IF a \in todo THEN [res[a] EXCEPT !.rollback = "unavailable"] ELSE res[a])]
    /\ \E gone \in SUBSET todo : Cardinality(gone) <= 1 /\ files' = files \ gone
    /\ todo' = {} /\ Go("done")
    /\ UNCHANGED <<env, asked, made, late, disk, cur, worse, keys, answer>>

Die ==
    /\ ~Ended
    /\ Go("dead")
    /\ UNCHANGED <<env, store, disk, local, clock, answer>>

-----------------------------------------------------------------------------
(* The others.                                                             *)

SetConsent ==
    /\ consent' = ~consent
    /\ late' = 0
    /\ UNCHANGED <<valid, files, asked, made, disk, local, clock, answer, pc>>

EndJob(j) ==
    /\ j \in valid
    /\ valid' = valid \ {j}
    /\ UNCHANGED <<consent, store, disk, local, clock, answer, pc>>

(* Another client uses the one restart of a job. *)
OtherRestart(j) ==
    /\ j \in valid \ asked
    /\ asked' = asked \cup {j}
    /\ UNCHANGED <<env, files, made, late, disk, local, clock, answer, pc>>

(* An override expires, or an operator removes it. *)
Expire(a) ==
    /\ a \in files
    /\ files' = files \ {a}
    /\ UNCHANGED <<env, asked, made, late, disk, local, clock, answer, pc>>

(* Bound: they are followed until the worker has ended. *)
Others == /\ ~Ended
          /\ \/ SetConsent
             \/ \E a \in answer : EndJob(a.job) \/ OtherRestart(a.job)
             \/ \E a \in answer : Expire(a)

Next == \/ Work \/ WorkerTimeout \/ KeyboardInterrupt \/ CleanupTimeout \/ Die
        \/ Others

Spec == Init /\ [][Next]_vars

-----------------------------------------------------------------------------
(* Properties.                                                             *)

Denied == {"none", "rejected", "not_attempted", "skipped"}

Truthful(actions) == \A a \in answer :
    /\ actions[a].status = "applied" => a \in made
    /\ actions[a].status \in Denied \ {"none"} => a \notin made
    /\ actions[a].rollback = "removed" => a \notin files

(* README.md:839-843: failed or interrupted writes "retain honest pending/
   uncertain action results".  Journal, report and returned result never deny
   an effect that took place, claim one that did not, or call an override
   removed that is still there; an effect is preceded by its durable intent. *)
Honest == /\ Truthful(journal.actions) /\ Truthful(report.actions)
          /\ pc = "done" => Truthful(res)
          /\ \A a \in made : journal.actions[a].status # "none"

(* README.md:812-816: consent is separate and read before every action.  After
   it is withdrawn at most the one action already checked takes place. *)
AtMostOneLate == late <= 1

(* The one thing that cannot be undone comes last, and only if everything that
   was to be tried first for that job took place. *)
RestartLast == \A a \in made : a.kind = "restart" =>
    \A b \in answer : b.job = a.job /\ b.kind # "restart" => b \in made

(* If the worker returns within its grace and something went wrong or got
   worse, it tried to take back every override it knew to be its own. *)
OwnRolledBack ==
    pc = "done" /\ alarm # "over" /\ (worse \/ \E a \in answer : res[a].incomplete)
       => \A a \in Owned : res[a].rollback # "none"

(* README.md:837-840: the five seconds of grace cannot be renewed; nothing is
   written once they are over. *)
GraceIsFinal == [][alarm = "over" =>
    journal' = journal /\ report' = report /\ made' = made /\ res' = res]_vars
=============================================================================
