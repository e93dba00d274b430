---------------------------- MODULE IncidentsProofs ----------------------------
(***************************************************************************)
(* Type correctness of Incidents, and that its results are honest, consent *)
(* withdrawn stops it, its restarts come last, its overrides are taken     *)
(* back and its grace is final, for any answers over any jobs and any      *)
(* number of interrupts.                                                   *)
(***************************************************************************)
EXTENDS Incidents, TLAPS

Middle  == {"not_attempted", "pending", "attempting"}
Untaken == {"none", "not_attempted", "pending", "rejected", "skipped"}
Acting  == {"check", "intent", "act", "returned", "named"}
Begun   == Acting \cup {"consent", "first", "pick", "log"}

(* A result tells what its action did, except for the current action, which
   is in the middle of it until a handler settles it. *)
ResultOK(a) ==
    /\ res[a].id => a \in made /\ a.kind # "restart"
    /\ res[a].status = "applied" => a \in made
    /\ res[a].status \in Untaken => a \notin made
    /\ res[a].rollback # "none" => res[a].id
    /\ res[a].rollback = "removed" => a \notin files
    /\ res[a].status \in Middle =>
         a = cur /\ pc \in Acting \cup {"mark1", "mark2", "mark3", "dead"}
    /\ res[a].status \in {"uncertain", "skipped"} => pc \notin Begun
ResultsOK == \A a \in answer : ResultOK(a)

(* Where the worker stands with its current action. *)
CursorOK ==
    /\ pc \in Acting => cur \in answer
    /\ pc = "check" => res[cur].status = "not_attempted"
    /\ pc = "intent" => res[cur].status = "pending"
    /\ pc \in {"act", "returned", "named"} => res[cur].status = "attempting"
    /\ pc = "act" => cur \notin made
    /\ pc \in {"returned", "named"} => cur \in made
    /\ todo \subseteq Owned

(* What was written stays true: an action written off is written off for good. *)
Kept(actions) == \A a \in answer :
    /\ actions[a].status = "applied" => a \in made
    /\ actions[a].status \in {"not_attempted", "rejected", "skipped"}
         => res[a].status \in {"rejected", "skipped"}
    /\ actions[a].rollback = "removed" => a \in made /\ a \notin files
JournalOK ==
    /\ Kept(journal.actions)
    /\ \A a \in answer : journal.actions[a].status # "none" => res[a].status # "none"
    /\ \A a \in made : journal.actions[a].status # "none"
    /\ pc = "act" => journal.actions[cur].status # "none"
ReportOK == Kept(report.actions)

(* What a step may do to actions that are over. *)
Forward ==
    /\ answer' = answer /\ made \subseteq made'
    /\ \A a \in answer :
         /\ res[a].status \in {"rejected", "skipped"} => res'[a].status = res[a].status
         /\ res[a].status # "none" => res'[a].status # "none"
         /\ a \in made /\ a \notin files => a \notin files'

HonestInv == TypeOK /\ ResultsOK /\ CursorOK /\ JournalOK /\ ReportOK

-----------------------------------------------------------------------------
LEMMA SettledIs ==
  ASSUME NEW r \in Result
  PROVE  /\ Settled(r) \in Result
         /\ Settled(r).id = r.id
         /\ Settled(r).rollback = r.rollback
         /\ Settled(r).status \notin Middle
         /\ Settled(r).status # "none"
         /\ Settled(r).status = "applied"
              => r.status = "applied" \/ (r.status = "attempting" /\ r.id)
         /\ Settled(r).status \in Untaken => r.status \in Untaken
         /\ r.status \in {"rejected", "skipped"} => Settled(r).status = r.status
BY DEF Settled, Result, Statuses, Middle, Untaken

LEMMA Amended ==
  ASSUME NEW r \in Result
  PROVE  /\ \A s \in Statuses : [r EXCEPT !.status = s] \in Result
         /\ \A known \in BOOLEAN : [r EXCEPT !.id = known] \in Result
         /\ \A back \in {"removed", "unavailable"} : [r EXCEPT !.rollback = back] \in Result
         /\ [r EXCEPT !.rollback = "unavailable", !.incomplete = TRUE] \in Result
BY DEF Result

LEMMA Unavailable ==
  ASSUME NEW r \in Result, NEW x,
         x \in {[r EXCEPT !.rollback = "unavailable"],
               [r EXCEPT !.rollback = "unavailable", !.incomplete = TRUE]}
  PROVE  x.status = r.status /\ x.id = r.id /\ x.rollback = "unavailable"
BY DEF Result

-----------------------------------------------------------------------------
LEMMA TypeStep ==
  ASSUME TypeOK, CursorOK, ResultsOK, Next
  PROVE  TypeOK'
<1> USE DEF TypeOK
<1>s. ASSUME NEW status \in Statuses, Mark(cur, status)
      PROVE  res' \in [answer -> Result]
  <2>1. \A a \in answer : [res[a] EXCEPT !.status = status] \in Result
    BY Amended
  <2>. QED  BY <1>s, <2>1 DEF Mark
<1>w. ASSUME NEW complete \in BOOLEAN
      PROVE  Written(complete) \in [exists : BOOLEAN, actions : [answer -> Result],
                                    complete : BOOLEAN]
  BY DEF Written
<1>1. CASE ReadConsent \/ SetStatus \/ RetainJournals \/ RolledBack \/ Die
  BY <1>1 DEF ReadConsent, SetStatus, RetainJournals, RolledBack, Die, AfterRoll, Rolling,
              Go, Points, env, store, disk, local, clock
<1>2. CASE WriteFirst \/ WriteResult \/ WriteFinal
  BY <1>2, <1>w DEF WriteFirst, WriteResult, WriteFinal, WriteJournal,
              Go, Points, env, store, local, clock
<1>3. ASSUME NEW a \in answer, Pick(a) PROVE TypeOK'
  <2>1. [res[a] EXCEPT !.status = "not_attempted"] \in Result
    BY Amended DEF Statuses
  <2>2. res' \in [answer -> Result]
    BY <1>3, <2>1 DEF Pick, Mark
  <2>. QED  BY <1>3, <2>2 DEF Pick, Go, Points, env, store, disk, clock
<1>4. CASE Check
  <2>1. res' \in [answer -> Result]
    BY <1>4, <1>s DEF Check, Statuses
  <2>. QED  BY <1>4, <2>1 DEF Check, Go, Points, env, store, disk, clock
<1>5. CASE WriteIntent
  <2>1. res' \in [answer -> Result]
    BY <1>5, <1>s DEF WriteIntent, Statuses
  <2>. QED  BY <1>5, <1>w, <2>1 DEF WriteIntent, Go, Points, env, store, clock
<1>6. CASE Act
  <2>1. res' \in [answer -> Result]
    BY <1>6, <1>s DEF Act, Statuses
  <2>2. cur \in answer /\ cur \in Actions
    BY <1>6 DEF Act, CursorOK, Acting
  <2>3. cur.job \in Jobs
    BY <2>2 DEF Actions
  <2>4. CASE UNCHANGED store
    BY <1>6, <2>1, <2>4 DEF Act, Go, Points, env, store, disk, clock
  <2>5. CASE Effect
    BY <1>6, <2>1, <2>2, <2>3, <2>5 DEF Act, Effect, Go, Points, env, disk, clock
  <2>. QED  BY <1>6, <2>4, <2>5 DEF Act
<1>7. CASE StoreId
  <2>1. \A a \in answer, known \in BOOLEAN : [res[a] EXCEPT !.id = known] \in Result
    BY Amended
  <2>2. res' \in [answer -> Result]
    BY <1>7, <2>1 DEF StoreId
  <2>. QED  BY <1>7, <2>2 DEF StoreId, Go, Points, env, store, disk, clock
<1>8. CASE StoreStatus
  <2>1. res' \in [answer -> Result]
    BY <1>8, <1>s DEF StoreStatus, Statuses
  <2>. QED  BY <1>8, <2>1 DEF StoreStatus, Go, Points, env, store, disk, clock
<1>9. CASE Compare
  <2>1. Owing \subseteq {a \in answer : a.kind # "restart"}
    BY DEF Owing, Owned, ResultsOK, ResultOK
  <2>. QED  BY <1>9, <2>1 DEF Compare, Go, Points, env, store, disk, clock
<1>10. CASE Mark1 \/ Mark2 \/ Mark3
  <2>1. res' \in [answer -> Result]
    BY <1>10, SettledIs DEF Mark1, Mark2, Mark3, MarkIncomplete, Incomplete
  <2>2. todo' \subseteq {a \in answer : a.kind # "restart"}
    BY <1>10, SettledIs DEF Mark1, Mark2, Mark3, MarkIncomplete, ResultsOK, ResultOK
  <2>. QED  BY <1>10, <2>1, <2>2 DEF Mark1, Mark2, Mark3, MarkIncomplete, Go, Points,
                                 env, store, disk, clock
<1>11. ASSUME NEW a \in answer, RollBack(a) PROVE TypeOK'
  <2>1. \A r \in {"removed", "unavailable"} : [res[a] EXCEPT !.rollback = r] \in Result
    BY Amended
  <2>2. res' \in [answer -> Result]
    BY <1>11, <2>1 DEF RollBack
  <2>. QED  BY <1>11, <2>2 DEF RollBack, env, disk, clock
<1>12. CASE Write1 \/ Write2 \/ Write3
  BY <1>12, <1>w DEF Write1, Write2, Write3, WriteHandled, Go, Points, env, store, local, clock
<1>13. CASE SaveReport \/ SaveAgain
  <2>1. \A s \in {"diagnosed", "incomplete"} : [actions |-> res, status |-> s]
             \in [actions : [answer -> Result], status : {"none", "diagnosed", "incomplete"}]
    OBVIOUS
  <2>2. Status \in {"diagnosed", "incomplete"}
    BY DEF Status
  <2>. QED  BY <1>13, <2>1, <2>2 DEF SaveReport, SaveAgain, Go, Points, env, store, local, clock
<1>14. CASE WorkerTimeout \/ KeyboardInterrupt
  <2>1. Interrupted
    BY <1>14 DEF WorkerTimeout, KeyboardInterrupt
  <2>2. CASE InterruptRolling
    <3>1. \A a \in answer : [res[a] EXCEPT !.rollback = "unavailable",
                                           !.incomplete = TRUE] \in Result
      BY Amended
    <3>2. res' \in [answer -> Result]
      BY <2>2, <3>1 DEF InterruptRolling, Abandon
    <3>. QED  BY <1>14, <2>2, <3>2, IncidentBounds
              DEF InterruptRolling, WorkerTimeout, KeyboardInterrupt, AfterRoll, Rolling,
                  Go, Points, env, disk
  <2>3. CASE ~InterruptRolling
    <3>1. pc' \in Points /\ UNCHANGED <<local, store>>
      BY <2>1, <2>3 DEF Interrupted, Go, Points
    <3>2. /\ UNCHANGED <<env, disk, answer>>
          /\ alarm' \in {"armed", "grace", "over"} /\ keys' \in 0..Interrupts
      BY <1>14, IncidentBounds DEF WorkerTimeout, KeyboardInterrupt
    <3>. QED  BY <3>1, <3>2 DEF env, disk, local, store
  <2>. QED  BY <2>2, <2>3
<1>15. CASE CleanupTimeout
  <2>1. \A a \in answer : [res[a] EXCEPT !.rollback = "unavailable"] \in Result
    BY Amended
  <2>2. res' \in [answer -> Result]
    BY <1>15, <2>1, SettledIs DEF CleanupTimeout
  <2>. QED  BY <1>15, <2>2 DEF CleanupTimeout, Go, Points, env, disk
<1>16. CASE Others
  <2>1. CASE SetConsent
    BY <2>1 DEF SetConsent, disk, local, clock
  <2>2. ASSUME NEW j \in Jobs, EndJob(j) \/ OtherRestart(j) PROVE TypeOK'
    BY <2>2 DEF EndJob, OtherRestart, env, store, disk, local, clock
  <2>3. ASSUME NEW a \in answer, Expire(a) PROVE TypeOK'
    BY <2>3 DEF Expire, env, disk, local, clock
  <2>4. \A a \in answer : a.job \in Jobs
    BY DEF Actions
  <2>. QED  BY <1>16, <2>1, <2>2, <2>3, <2>4 DEF Others
<1>. QED  BY <1>1, <1>2, <1>3, <1>4, <1>5, <1>6, <1>7, <1>8, <1>9, <1>10, <1>11, <1>12,
             <1>13, <1>14, <1>15, <1>16 DEF Next, Work
-----------------------------------------------------------------------------
(* A step that leaves the results alone, only gets further away from the
   current action. *)
LEMMA Leaving ==
  ASSUME TypeOK, ResultsOK, CursorOK,
         UNCHANGED <<res, made, cur, todo, answer>>, files' \subseteq files,
         pc' \notin Acting,
         pc' \in Begun => pc \in Begun,
         pc \in Acting \cup {"mark1", "mark2", "mark3", "dead"}
           => pc' \in {"mark1", "mark2", "mark3", "dead"}
  PROVE  ResultsOK' /\ CursorOK' /\ Forward
<1>1. ASSUME NEW a \in answer PROVE ResultOK(a)'
  <2>1. ResultOK(a)
    BY DEF ResultsOK
  <2>. QED  BY <2>1 DEF ResultOK
<1>2. CursorOK'
  BY DEF CursorOK, Owned, Acting
<1>. QED  BY <1>1, <1>2 DEF ResultsOK, Forward

LEMMA ResultsStep ==
  ASSUME TypeOK, ResultsOK, CursorOK, Next
  PROVE  ResultsOK' /\ CursorOK' /\ Forward
<1>1. CASE ReadConsent \/ SetStatus \/ RetainJournals \/ RolledBack \/ Die
  BY <1>1, Leaving DEF ReadConsent, SetStatus, RetainJournals, RolledBack, Die, AfterRoll,
       Rolling, Go, Begun, Acting, env, store, disk, local, clock
<1>2. CASE WriteFirst \/ WriteResult \/ WriteFinal
  BY <1>2, Leaving DEF WriteFirst, WriteResult, WriteFinal, WriteJournal, Go, Begun, Acting,
       env, store, local, clock
<1>3. CASE Write1 \/ Write2 \/ Write3 \/ SaveReport \/ SaveAgain
  BY <1>3, Leaving DEF Write1, Write2, Write3, WriteHandled, SaveReport, SaveAgain, Go,
       Begun, Acting, env, store, local, clock
<1> USE DEF ResultsOK, ResultOK, CursorOK, Forward, Acting
<1>4. ASSUME NEW a \in answer, Pick(a) PROVE ResultsOK' /\ CursorOK' /\ Forward
  <2>1. res[a].status = "none"
    BY <1>4 DEF Pick, Started
  <2>2. /\ res'[a] = [res[a] EXCEPT !.status = "not_attempted"]
        /\ \A b \in answer \ {a} : res'[b] = res[b]
    BY <1>4 DEF Pick, Mark, TypeOK
  <2>3. /\ res'[a].status = "not_attempted"
        /\ res'[a].id = res[a].id /\ res'[a].rollback = res[a].rollback
    BY <2>2, TypeOK DEF TypeOK, Result
  <2>4. /\ a \in answer /\ cur' = a /\ pc = "pick" /\ pc' = "check"
        /\ UNCHANGED <<env, store, todo, answer>>
    BY <1>4 DEF Pick, Go
  <2>5. ResultsOK'
    <3>1. SUFFICES ASSUME NEW b \in answer PROVE ResultOK(b)'
      BY <2>4
    <3>2. CASE b = a
      BY <2>1, <2>3, <2>4, <3>2 DEF Begun, Untaken, store
    <3>3. CASE b # a
      BY <2>2, <2>4, <3>3 DEF Begun, Untaken, store
    <3>. QED  BY <3>2, <3>3
  <2>6. CursorOK'
    BY <2>1, <2>2, <2>3, <2>4 DEF Begun, Middle, Untaken, Owned, store
  <2>7. Forward
    BY <2>1, <2>2, <2>3, <2>4 DEF Begun, Middle, Untaken, store
  <2>. QED  BY <2>5, <2>6, <2>7
<1>s. ASSUME pc \in Acting, NEW status \in Statuses, Mark(cur, status)
      PROVE  /\ res'[cur].status = status
             /\ res'[cur].id = res[cur].id /\ res'[cur].rollback = res[cur].rollback
             /\ \A b \in answer \ {cur} : res'[b] = res[b]
  BY <1>s DEF Mark, TypeOK, Result
<1>5. CASE Check
  <2>1. PICK status \in {"pending", "rejected"} : /\ Mark(cur, status)
                     /\ pc' = IF status = "pending" THEN "intent" ELSE "log"
    BY <1>5 DEF Check, Go
  <2>2. pc = "check" /\ UNCHANGED <<made, files, answer, cur, todo>>
    BY <1>5 DEF Check, store
  <2>3. status \in Statuses
    BY DEF Statuses
  <2>. QED  BY <2>1, <2>2, <2>3, <1>s DEF Begun, Middle, Untaken, Owned
<1>6. CASE WriteIntent
  <2>1. CASE UNCHANGED res /\ pc' = "mark1"
    BY <1>6, <2>1, Leaving DEF WriteIntent, Begun, store
  <2>2. CASE Mark(cur, "attempting") /\ pc' = "act"
    <3>1. pc = "intent" /\ UNCHANGED <<made, files, answer, cur, todo>>
      BY <1>6 DEF WriteIntent, store
    <3>2. "attempting" \in Statuses
      BY DEF Statuses
    <3>. QED  BY <2>2, <3>1, <3>2, <1>s DEF Begun, Middle, Untaken, Owned
  <2>. QED  BY <1>6, <2>1, <2>2 DEF WriteIntent, Go
<1>7. CASE Act
  <2>0. pc = "act" /\ UNCHANGED <<answer, cur, todo>>
    BY <1>7 DEF Act
  <2>1. CASE UNCHANGED <<store, res>> /\ pc' = "mark1"
    BY <2>0, <2>1, Leaving DEF Begun, store
  <2>2. CASE Mark(cur, "rejected") /\ pc' = "log" /\ UNCHANGED store
    <3>1. "rejected" \in Statuses
      BY DEF Statuses
    <3>. QED  BY <2>0, <2>2, <3>1, <1>s DEF Begun, Middle, Untaken, Owned, store
  <2>3. CASE Effect /\ UNCHANGED res /\ pc' \in {"returned", "mark1"}
    <3>1. cur \in answer /\ res[cur].status = "attempting" /\ cur \notin made
      BY <2>0
    <3>2. ~res[cur].id /\ res[cur].rollback = "none"
      BY <3>1 DEF TypeOK, Result
    <3>3. made' = made \cup {cur} /\ files' \subseteq files \cup {cur}
      BY <2>3 DEF Effect
    <3>. QED  BY <2>0, <2>3, <3>1, <3>2, <3>3 DEF Begun, Middle, Untaken, Owned
  <2>. QED  BY <1>7, <2>1, <2>2, <2>3 DEF Act, Go
<1>8. CASE StoreId
  <2>1. pc = "returned" /\ pc' = "named" /\ UNCHANGED <<store, answer, cur, todo>>
    BY <1>8 DEF StoreId, Go
  <2>2. /\ res'[cur].status = res[cur].status /\ res'[cur].rollback = res[cur].rollback
        /\ res'[cur].id = (cur.kind # "restart")
        /\ \A b \in answer \ {cur} : res'[b] = res[b]
    BY <1>8, <2>1 DEF StoreId, TypeOK, Result
  <2>3. ~res[cur].id \/ cur.kind # "restart"
    BY <2>1
  <2>4. res[cur].id => res'[cur].id
    BY <2>2, <2>3
  <2>5. todo' \subseteq Owned'
    BY <2>1, <2>2, <2>4 DEF Owned
  <2>6. ResultsOK'
    <3>1. SUFFICES ASSUME NEW b \in answer PROVE ResultOK(b)'
      BY <2>1
    <3>2. CASE b = cur
      BY <2>1, <2>2, <3>2 DEF Begun, Untaken, store
    <3>3. CASE b # cur
      BY <2>1, <2>2, <3>3 DEF Begun, Untaken, store
    <3>. QED  BY <3>2, <3>3
  <2>7. CursorOK'
    BY <2>1, <2>2, <2>4, <2>5 DEF Begun, Middle, Untaken, store
  <2>8. Forward
    BY <2>1, <2>2, <2>4, <2>5 DEF Begun, Middle, Untaken, store
  <2>. QED  BY <2>6, <2>7, <2>8
<1>9. CASE StoreStatus
  <2>1. pc = "named" /\ pc' = "log" /\ UNCHANGED <<store, answer, cur, todo>>
    BY <1>9 DEF StoreStatus, Go
  <2>2. Mark(cur, "applied") /\ "applied" \in Statuses
    BY <1>9 DEF StoreStatus, Statuses
  <2>. QED  BY <2>1, <2>2, <1>s DEF Begun, Middle, Untaken, Owned, store
<1>10. CASE Compare
  BY <1>10 DEF Compare, Go, Begun, Middle, Owing, Owned, store
<1>11. CASE Mark1 \/ Mark2 \/ Mark3
  <2>1. /\ res' = [a \in answer |-> Settled(res[a])]
        /\ todo' = {a \in answer : Settled(res[a]).id /\ res[a].rollback # "removed"}
        /\ pc' \in {"roll1", "roll2", "roll3"} /\ UNCHANGED <<store, answer>>
    BY <1>11 DEF Mark1, Mark2, Mark3, MarkIncomplete, Incomplete, Go
  <2>2. todo' \subseteq Owned'
    BY <2>1 DEF Owned
  <2>3. ASSUME NEW a \in answer PROVE ResultOK(a)'
    <3>1. res'[a] = Settled(res[a]) /\ res[a] \in Result
      BY <2>1 DEF TypeOK
    <3>2. /\ res'[a].id = res[a].id /\ res'[a].rollback = res[a].rollback
          /\ res'[a].status \notin Middle
          /\ res'[a].status = "applied" => a \in made
          /\ res'[a].status \in Untaken => a \notin made
      BY <3>1, SettledIs
    <3>. QED  BY <2>1, <3>2 DEF Begun, store
  <2>4. Forward
    BY <2>1, SettledIs DEF TypeOK, store
  <2>. QED  BY <2>1, <2>2, <2>3, <2>4
<1>12. ASSUME NEW a \in answer, RollBack(a) PROVE ResultsOK' /\ CursorOK' /\ Forward
  <2>1. PICK back \in {"removed", "unavailable"} :
           /\ res' = [res EXCEPT ![a].rollback = back]
           /\ back = "removed" => a \notin files'
    BY <1>12 DEF RollBack
  <2>2. /\ pc \in Rolling /\ files' \subseteq files /\ todo' = todo \ {a} /\ a \in todo
        /\ UNCHANGED <<made, cur, answer, pc>>
    BY <1>12 DEF RollBack
  <2>3. res[a].id
    BY <2>2 DEF Owned
  <2>4. /\ res'[a].status = res[a].status /\ res'[a].id = res[a].id
        /\ res'[a].rollback = back
        /\ \A b \in answer \ {a} : res'[b] = res[b]
    BY <2>1 DEF TypeOK, Result
  <2>5. todo' \subseteq Owned'
    BY <2>2, <2>3, <2>4 DEF Owned
  <2>. QED  BY <2>1, <2>2, <2>3, <2>4, <2>5 DEF Rolling, Middle
<1>13. CASE WorkerTimeout \/ KeyboardInterrupt
  <2>1. Interrupted /\ UNCHANGED answer
    BY <1>13 DEF WorkerTimeout, KeyboardInterrupt
  <2>2. CASE InterruptRolling
    <3>1. /\ pc \in Rolling /\ pc' \notin Acting \cup Begun /\ todo' = {}
          /\ files' \subseteq files /\ UNCHANGED <<cur, made>>
      BY <2>2 DEF InterruptRolling, AfterRoll, Rolling, Go, Begun
    <3>2. ASSUME NEW a \in answer
          PROVE  /\ res'[a].status = res[a].status /\ res'[a].id = res[a].id
                 /\ res'[a].rollback = res[a].rollback
                      \/ (res'[a].rollback = "unavailable" /\ res[a].id)
      <4>1. CASE a \in Owing
        <5>1. res'[a] = [res[a] EXCEPT !.rollback = "unavailable", !.incomplete = TRUE]
          BY <2>2, <4>1 DEF InterruptRolling, Abandon
        <5>2. res[a].id /\ res[a] \in Result
          BY <4>1 DEF Owing, Owned, TypeOK
        <5>. QED  BY <5>1, <5>2, Unavailable
      <4>2. CASE a \notin Owing
        BY <2>2, <4>2 DEF InterruptRolling, Abandon
      <4>. QED  BY <4>1, <4>2
    <3>. QED  BY <2>1, <3>1, <3>2 DEF Rolling, Middle
  <2>3. CASE ~InterruptRolling
    <3>1. /\ UNCHANGED <<local, store>>
          /\ pc' \notin Acting /\ (pc' \in Begun => pc \in Begun)
          /\ pc \in Acting \cup {"mark1", "mark2", "mark3", "dead"}
               => pc' \in {"mark1", "mark2", "mark3", "dead"}
      BY <2>1, <2>3 DEF Interrupted, Go, Begun, Applying
    <3>. QED  BY <2>1, <3>1, Leaving DEF local, store
  <2>. QED  BY <2>2, <2>3
<1>14. CASE CleanupTimeout
  <2>1. /\ pc' = "done" /\ todo' = {} /\ files' \subseteq files
        /\ UNCHANGED <<made, cur, answer>>
    BY <1>14 DEF CleanupTimeout, Go
  <2>2. ASSUME NEW a \in answer
        PROVE  /\ res'[a].id = res[a].id
               /\ res'[a].status \notin Middle \cup {"none"}
               /\ res[a].status \in {"rejected", "skipped"} => res'[a].status = res[a].status
               /\ res'[a].status = "applied" => a \in made
               /\ res'[a].status \in Untaken => a \notin made
               /\ res'[a].rollback = res[a].rollback
                     \/ (res'[a].rollback = "unavailable" /\ res[a].id)
    <3>1. PICK r \in {res[a], [res[a] EXCEPT !.rollback = "unavailable"]} :
             /\ res'[a] = Settled(r)
             /\ r # res[a] => a \in todo
      BY <1>14 DEF CleanupTimeout
    <3>2. r \in Result /\ r.status = res[a].status /\ r.id = res[a].id
      <4>1. res[a] \in Result
        BY DEF TypeOK
      <4>. QED  BY <3>1, <4>1, Amended, Unavailable
    <3>3. r.rollback = res[a].rollback \/ (r.rollback = "unavailable" /\ res[a].id)
      <4>1. res[a] \in Result
        BY DEF TypeOK
      <4>. QED  BY <3>1, <4>1, Unavailable DEF Owned
    <3>. QED  BY <3>1, <3>2, <3>3, SettledIs
  <2>. QED  BY <2>1, <2>2 DEF Begun
<1>15. CASE Others
  <2>1. UNCHANGED <<res, made, cur, todo, answer, pc>> /\ files' \subseteq files
    BY <1>15 DEF Others, SetConsent, EndJob, OtherRestart, Expire, local, store
  <2>. QED  BY <2>1 DEF Owned
<1>. QED  BY <1>1, <1>2, <1>3, <1>4, <1>5, <1>6, <1>7, <1>8, <1>9, <1>10, <1>11, <1>12,
             <1>13, <1>14, <1>15 DEF Next, Work
-----------------------------------------------------------------------------
(* Outside of a check no action is told as one that was not attempted, so the
   results can be written as they are. *)
LEMMA Writable ==
  ASSUME TypeOK, ResultsOK, CursorOK, Forward,
         pc \notin {"check", "mark1", "mark2", "mark3", "dead"}
  PROVE  \A a \in answer :
           /\ res[a].status = "applied" => a \in made'
           /\ res[a].status \in {"not_attempted", "rejected", "skipped"}
                => res'[a].status \in {"rejected", "skipped"}
           /\ res[a].rollback = "removed" => a \in made' /\ a \notin files'
<1> SUFFICES ASSUME NEW a \in answer
             PROVE  /\ res[a].status = "applied" => a \in made'
                    /\ res[a].status \in {"not_attempted", "rejected", "skipped"}
                         => res'[a].status \in {"rejected", "skipped"}
                    /\ res[a].rollback = "removed" => a \in made' /\ a \notin files'
  OBVIOUS
<1>1. res[a].status # "not_attempted"
  BY DEF ResultsOK, ResultOK, CursorOK, Middle, Acting
<1>. QED  BY <1>1 DEF ResultsOK, ResultOK, Forward

LEMMA JournalStep ==
  ASSUME HonestInv, Forward, Next
  PROVE  JournalOK'
<1> USE DEF HonestInv
<1>a. ASSUME UNCHANGED journal,
             made' = made \/ (pc = "act" /\ made' = made \cup {cur}),
             pc' = "act" => pc = "act" /\ cur' = cur
      PROVE  JournalOK'
  <2>1. Kept(journal.actions)'
    BY <1>a DEF JournalOK, Kept, Forward
  <2>. QED  BY <1>a, <2>1 DEF JournalOK, Forward, CursorOK, Acting
<1>b. ASSUME NEW complete, journal' = Written(complete), made' = made,
             pc \notin {"check", "mark1", "mark2", "mark3", "dead"},
             pc' = "act" => cur' = cur /\ pc = "intent"
      PROVE  JournalOK'
  <2>1. journal'.actions = res
    BY <1>b DEF Written
  <2>2. Kept(journal.actions)'
    BY <1>b, <2>1, Writable DEF Kept, Forward
  <2>. QED  BY <1>b, <2>1, <2>2 DEF JournalOK, Forward, CursorOK, Acting, TypeOK
<1>1. CASE ReadConsent \/ SetStatus \/ RetainJournals \/ RolledBack \/ Die \/ Check
           \/ StoreId \/ StoreStatus \/ Compare
  BY <1>1, <1>a DEF ReadConsent, SetStatus, RetainJournals, RolledBack, Die, Check, StoreId,
       StoreStatus, Compare, AfterRoll, Rolling, Go, store, disk
<1>2. CASE SaveReport \/ SaveAgain \/ Mark1 \/ Mark2 \/ Mark3
           \/ \E a \in answer : Pick(a) \/ RollBack(a)
  BY <1>2, <1>a DEF SaveReport, SaveAgain, Mark1, Mark2, Mark3, MarkIncomplete, Pick, RollBack,
       Rolling, Go, store, disk
<1>3. CASE Act
  BY <1>3, <1>a DEF Act, Effect, Go, store, disk
<1>4. CASE WriteFirst \/ WriteResult \/ WriteFinal
  BY <1>4, <1>a, <1>b DEF WriteFirst, WriteResult, WriteFinal, WriteJournal, Go, store
<1>5. CASE WriteIntent
  BY <1>5, <1>a, <1>b DEF WriteIntent, Go, store
<1>6. CASE Write1 \/ Write2 \/ Write3
  BY <1>6, <1>a, <1>b DEF Write1, Write2, Write3, WriteHandled, Go, store
<1>7. CASE WorkerTimeout \/ KeyboardInterrupt
  <2>1. Interrupted /\ UNCHANGED disk
    BY <1>7 DEF WorkerTimeout, KeyboardInterrupt
  <2>2. made' = made /\ pc' # "act"
    BY <2>1 DEF Interrupted, InterruptRolling, AfterRoll, Rolling, Go, store
  <2>. QED  BY <1>a, <2>1, <2>2 DEF disk
<1>8. CASE CleanupTimeout
  BY <1>8, <1>a DEF CleanupTimeout, Go, disk
<1>9. CASE Others
  BY <1>9, <1>a DEF Others, SetConsent, EndJob, OtherRestart, Expire, disk, local, store
<1>. QED  BY <1>1, <1>2, <1>3, <1>4, <1>5, <1>6, <1>7, <1>8, <1>9 DEF Next, Work

LEMMA ReportStep ==
  ASSUME HonestInv, Forward, Next
  PROVE  ReportOK'
<1> USE DEF HonestInv
<1>1. CASE UNCHANGED report
  BY <1>1 DEF ReportOK, Kept, Forward
<1>2. CASE SaveReport \/ SaveAgain
  <2>1. UNCHANGED report \/ report'.actions = res
    BY <1>2 DEF SaveReport, SaveAgain
  <2>2. pc \in {"save", "save3"}
    BY <1>2 DEF SaveReport, SaveAgain
  <2>. QED  BY <1>1, <2>1, <2>2, Writable DEF ReportOK, Kept, Forward
<1>3. CASE ~(SaveReport \/ SaveAgain)
  <2>1. Work => UNCHANGED report
    BY <1>3 DEF Work, ReadConsent, WriteFirst, Pick, Check, WriteIntent, Act, StoreId,
         StoreStatus, WriteResult, Compare, WriteFinal, Mark1, Mark2, Mark3, MarkIncomplete,
         RollBack, RolledBack, Write1, Write2, Write3, WriteHandled, SetStatus,
         RetainJournals, disk
  <2>2. Others => UNCHANGED report
    BY DEF Others, SetConsent, EndJob, OtherRestart, Expire, disk
  <2>. QED  BY <1>1, <2>1, <2>2 DEF Next, WorkerTimeout, KeyboardInterrupt, CleanupTimeout,
                                    Die, disk
<1>. QED  BY <1>2, <1>3

-----------------------------------------------------------------------------
LEMMA HonestInvariant == Spec => []HonestInv
<1>1. Init => HonestInv
  <2> SUFFICES ASSUME Init PROVE HonestInv
    OBVIOUS
  <2>1. Unstarted \in Result
    BY DEF Unstarted, Result, Statuses
  <2>2. \A a \in answer : res[a] = Unstarted /\ journal.actions[a] = Unstarted
                                        /\ report.actions[a] = Unstarted
    BY DEF Init
  <2>3. TypeOK
    <3>1. answer \subseteq Actions
      BY AnswersAreActions DEF Init
    <3>2. res \in [answer -> Result]
      BY <2>1 DEF Init
    <3>3. /\ journal \in [exists : BOOLEAN, actions : [answer -> Result], complete : BOOLEAN]
          /\ report \in [actions : [answer -> Result],
                         status : {"none", "diagnosed", "incomplete"}]
      BY <3>2 DEF Init
    <3>4. /\ consent \in BOOLEAN /\ worse \in BOOLEAN /\ alarm = "armed" /\ keys = 0
          /\ valid = Jobs /\ files = {} /\ asked = {} /\ todo = {} /\ made = {} /\ late = 0
          /\ pc = "consent" /\ cur = Nobody
      BY DEF Init
    <3>. QED  BY <3>1, <3>2, <3>3, <3>4, IncidentBounds DEF TypeOK, Points
  <2>. QED  BY <2>2, <2>3 DEF Init, HonestInv, ResultsOK, ResultOK, CursorOK, JournalOK,
            ReportOK, Kept, Owned, Unstarted, Acting, Begun, Middle, Untaken
<1>2. HonestInv /\ [Next]_vars => HonestInv'
  <2>1. ASSUME HonestInv, Next PROVE HonestInv'
    <3>1. TypeOK'
      BY <2>1, TypeStep DEF HonestInv
    <3>2. ResultsOK' /\ CursorOK' /\ Forward
      BY <2>1, ResultsStep DEF HonestInv
    <3>3. JournalOK' /\ ReportOK'
      BY <2>1, <3>2, JournalStep, ReportStep
    <3>. QED  BY <3>1, <3>2, <3>3 DEF HonestInv
  <2>2. ASSUME HonestInv, UNCHANGED vars PROVE HonestInv'
    BY <2>2 DEF HonestInv, TypeOK, ResultsOK, ResultOK, CursorOK, JournalOK, ReportOK, Kept,
         Owned, vars, env, store, disk, local, clock
  <2>. QED  BY <2>1, <2>2
<1>. QED  BY <1>1, <1>2, PTL DEF Spec

(* Every reachable state of the worker, the job store and the two files has the
   declared shape; in particular no restart is ever taken for an override. *)
THEOREM IncidentTypes == Spec => []TypeOK
BY HonestInvariant, PTL DEF HonestInv

(* Whatever is interrupted, journal, report and returned result tell the truth
   about every action, and every effect has its durable intent. *)
THEOREM HonestHolds == Spec => []Honest
<1>1. HonestInv => Honest
  <2> SUFFICES ASSUME HonestInv PROVE Honest
    OBVIOUS
  <2> USE DEF HonestInv, ResultsOK, ResultOK, Truthful, Denied, Untaken
  <2>1. Truthful(journal.actions)
    BY DEF JournalOK, Kept
  <2>2. Truthful(report.actions)
    BY DEF ReportOK, Kept
  <2>3. Truthful(res)
    OBVIOUS
  <2>. QED  BY <2>1, <2>2, <2>3 DEF Honest, JournalOK
<1>. QED  BY <1>1, HonestInvariant, PTL
-----------------------------------------------------------------------------
(* Consent given forgets earlier withdrawals; between the check and the effect
   there was none. *)
ConsentOK == /\ consent => late = 0
             /\ pc \in {"intent", "act"} => late = 0
             /\ late \in 0..1

(* Consent withdrawn stops every action but the one already checked. *)
THEOREM AtMostOneLateHolds == Spec => []AtMostOneLate
<1>1. Init => ConsentOK
  BY DEF Init, ConsentOK
<1>2. ConsentOK /\ [Next]_vars => ConsentOK'
  <2> SUFFICES ASSUME ConsentOK, [Next]_vars PROVE ConsentOK'
    OBVIOUS
  <2> USE DEF ConsentOK
  <2>1. CASE ReadConsent \/ SetStatus \/ RetainJournals \/ RolledBack \/ Die
             \/ StoreId \/ StoreStatus \/ Compare \/ SaveReport \/ SaveAgain
             \/ Mark1 \/ Mark2 \/ Mark3
             \/ \E a \in answer : Pick(a) \/ RollBack(a)
    BY <2>1 DEF ReadConsent, SetStatus, RetainJournals, RolledBack, Die, StoreId, StoreStatus,
         Compare, SaveReport, SaveAgain, Mark1, Mark2, Mark3, MarkIncomplete, Pick, RollBack,
         AfterRoll, Rolling, Go, store, env
  <2>2. CASE WriteFirst \/ WriteResult \/ WriteFinal \/ Write1 \/ Write2 \/ Write3
    <3>1. consent' = consent /\ late' = late
      BY <2>2 DEF WriteFirst, WriteResult, WriteFinal, Write1, Write2, Write3, WriteHandled,
           store, env
    <3>2. pc' \notin {"intent", "act"}
      BY <2>2 DEF WriteFirst, WriteResult, WriteFinal, WriteJournal, Write1, Write2, Write3,
           WriteHandled, Go
    <3>. QED  BY <3>1, <3>2
  <2>9. CASE WriteIntent
    BY <2>9 DEF WriteIntent, Go, store, env
  <2>3. CASE Check
    BY <2>3 DEF Check, Go, store, env
  <2>4. CASE Act
    BY <2>4 DEF Act, Effect, Go, store, env
  <2>5. CASE WorkerTimeout \/ KeyboardInterrupt
    <3>1. Interrupted /\ UNCHANGED env
      BY <2>5 DEF WorkerTimeout, KeyboardInterrupt
    <3>2. late' = late /\ pc' \notin {"intent", "act"}
      BY <3>1 DEF Interrupted, InterruptRolling, AfterRoll, Rolling, Go, store
    <3>. QED  BY <3>1, <3>2 DEF env
  <2>6. CASE CleanupTimeout
    BY <2>6 DEF CleanupTimeout, Go, env
  <2>7. CASE Others
    BY <2>7 DEF Others, SetConsent, EndJob, OtherRestart, Expire, env, store
  <2>8. CASE UNCHANGED vars
    BY <2>8 DEF vars, env, store
  <2>. QED  BY <2>1, <2>2, <2>3, <2>4, <2>5, <2>6, <2>7, <2>8, <2>9 DEF Next, Work
<1>3. ConsentOK => AtMostOneLate
  BY DEF ConsentOK, AtMostOneLate
<1>. QED  BY <1>1, <1>2, <1>3, PTL DEF Spec

-----------------------------------------------------------------------------
(* The reversible actions of the same job took place. *)
Before(a) == \A b \in answer : b.job = a.job /\ b.kind # "restart" => b \in made

(* A restart that has passed its check came after them. *)
OrderOK ==
    /\ \A a \in answer : a.kind = "restart" /\ res[a].status \notin Untaken \ {"pending"}
                          => Before(a)
    /\ pc = "check" /\ cur.kind = "restart"
         => \A b \in answer : b.kind # "restart" => b \in Started

(* Settling takes no action further than it came. *)
LEMMA SettledOrder ==
  ASSUME NEW r \in Result, Settled(r).status \notin Untaken \ {"pending"}
  PROVE  r.status \notin Untaken \ {"pending"}
BY DEF Settled, Result, Statuses, Untaken

LEMMA OrderStep ==
  ASSUME HonestInv, OrderOK, Next, Forward
  PROVE  OrderOK'
<1> USE DEF OrderOK, HonestInv
(* Most steps check no action and only settle results. *)
<1>a. ASSUME pc' # "check" \/ (pc = "check" /\ UNCHANGED <<cur, res>>),
             \A a \in answer : res'[a].status \notin Untaken \ {"pending"}
                => res[a].status \notin Untaken \ {"pending"}
      PROVE  OrderOK'
  BY <1>a DEF Before, Forward, Started
<1>1. CASE ReadConsent \/ SetStatus \/ RetainJournals \/ RolledBack \/ Die
           \/ WriteFirst \/ WriteResult \/ WriteFinal \/ Write1 \/ Write2 \/ Write3
           \/ SaveReport \/ SaveAgain \/ Compare
  <2>1. res' = res /\ pc' # "check"
    BY <1>1 DEF ReadConsent, SetStatus, RetainJournals, RolledBack, Die, WriteFirst, WriteResult,
         WriteFinal, WriteJournal, Write1, Write2, Write3, WriteHandled, SaveReport, SaveAgain,
         Compare, AfterRoll, Rolling, Go, local
  <2>. QED  BY <1>a, <2>1
<1>s. ASSUME pc \in Acting, NEW status, Mark(cur, status), UNCHANGED <<cur, answer>>
      PROVE  \A b \in answer : res'[b].status = IF b = cur THEN status ELSE res[b].status
  BY <1>s DEF Mark, TypeOK, Result
<1>2. ASSUME NEW a \in answer, Pick(a) PROVE OrderOK'
  <2>1. /\ cur' = a /\ pc = "pick" /\ a \notin Started
        /\ a.kind = "restart" => \A b \in answer \ Started : b.kind = "restart"
    BY <1>2 DEF Pick
  <2>2. \A b \in answer : res'[b].status = IF b = a THEN "not_attempted" ELSE res[b].status
    BY <1>2 DEF Pick, Mark, TypeOK, Result
  <2>3. Started \subseteq Started'
    BY <2>2 DEF Started, Forward
  <2>. QED  BY <2>1, <2>2, <2>3 DEF Before, Forward, Untaken
<1>3. CASE Check
  <2>0. pc = "check" /\ cur \in answer /\ UNCHANGED <<cur, answer, made>>
    BY <1>3 DEF Check, CursorOK, Acting, store
  <2>1. CASE Mark(cur, "rejected") /\ pc' = "log"
    BY <2>0, <2>1, <1>s, <1>a DEF Acting, Untaken
  <2>2. CASE Mark(cur, "pending") /\ (cur.kind = "restart" => ~Failed(cur.job)) /\ pc' = "intent"
    <3>1. cur.kind = "restart" => Before(cur)
      <4> SUFFICES ASSUME cur.kind = "restart",
                          NEW b \in answer, b.job = cur.job, b.kind # "restart"
                   PROVE  b \in made
        BY DEF Before
      <4>1. res[b].status # "none"
        BY <2>0 DEF Started
      <4>2. res[b].status # "rejected"
        BY <2>2 DEF Failed
      <4>3. res[b].status \notin Middle \cup {"uncertain", "skipped"}
        BY <2>0 DEF ResultsOK, ResultOK, Acting, Begun
      <4>4. res[b].status = "applied"
        BY <4>1, <4>2, <4>3 DEF TypeOK, Result, Statuses, Middle
      <4>. QED  BY <4>4 DEF ResultsOK, ResultOK
    <3>2. \A b \in answer : res'[b].status = IF b = cur THEN "pending" ELSE res[b].status
      BY <2>0, <2>2, <1>s DEF Acting
    <3>. QED  BY <2>0, <2>2, <3>1, <3>2 DEF Before
  <2>. QED  BY <1>3, <2>1, <2>2 DEF Check, Go
<1>4. CASE WriteIntent \/ StoreStatus
  <2>1. /\ pc' # "check" /\ UNCHANGED <<cur, answer>>
        /\ res' = res \/ Mark(cur, "attempting") \/ Mark(cur, "applied")
        /\ pc \in {"intent", "named"}
    BY <1>4 DEF WriteIntent, StoreStatus, Go
  <2>2. res[cur].status \in {"pending", "attempting"}
    BY <2>1 DEF CursorOK
  <2>3. \A b \in answer : \/ (res'[b].status \in {"attempting", "applied"} /\ b = cur)
                          \/ res'[b].status = res[b].status
    BY <2>1, <1>s DEF Acting
  <2>. QED  BY <1>a, <2>1, <2>2, <2>3 DEF Untaken
<1>5. CASE Act
  <2>1. /\ pc' # "check" /\ pc = "act" /\ UNCHANGED <<cur, answer>>
        /\ res' = res \/ Mark(cur, "rejected")
    BY <1>5 DEF Act, Go
  <2>2. \A b \in answer : res'[b].status = "rejected" \/ res'[b].status = res[b].status
    BY <2>1, <1>s DEF Acting
  <2>. QED  BY <1>a, <2>1, <2>2 DEF Untaken
<1>6. CASE StoreId \/ \E a \in answer : RollBack(a)
  <2>1. pc' # "check" /\ \A b \in answer : res'[b].status = res[b].status
    BY <1>6 DEF StoreId, RollBack, Rolling, Go, TypeOK, Result
  <2>. QED  BY <1>a, <2>1
<1>7. CASE Mark1 \/ Mark2 \/ Mark3
  <2>1. pc' # "check" /\ \A b \in answer : res'[b] = Settled(res[b])
    BY <1>7 DEF Mark1, Mark2, Mark3, MarkIncomplete, Incomplete, Go
  <2>2. \A b \in answer : res[b] \in Result
    BY DEF TypeOK
  <2>. QED  BY <1>a, <2>1, <2>2, SettledOrder
<1>8. CASE WorkerTimeout \/ KeyboardInterrupt
  <2>1. Interrupted
    BY <1>8 DEF WorkerTimeout, KeyboardInterrupt
  <2>2. pc' # "check"
    BY <2>1 DEF Interrupted, InterruptRolling, AfterRoll, Rolling, Go
  <2>3. CASE InterruptRolling
    <3>1. \A b \in answer : res'[b].status = res[b].status
      <4>1. Abandon
        BY <2>3 DEF InterruptRolling
      <4>2. SUFFICES ASSUME NEW b \in answer PROVE res'[b].status = res[b].status
        OBVIOUS
      <4>3. res[b] \in Result
        BY DEF TypeOK
      <4>4. \/ res'[b] = res[b]
            \/ res'[b] = [res[b] EXCEPT !.rollback = "unavailable", !.incomplete = TRUE]
        BY <4>1 DEF Abandon
      <4>. QED  BY <4>3, <4>4 DEF Result
    <3>. QED  BY <1>a, <2>2, <3>1
  <2>4. CASE ~InterruptRolling
    <3>1. res' = res
      BY <2>1, <2>4 DEF Interrupted, local
    <3>. QED  BY <1>a, <2>2, <3>1
  <2>. QED  BY <2>3, <2>4
<1>9. CASE CleanupTimeout
  <2>1. pc' # "check"
    BY <1>9 DEF CleanupTimeout, Go
  <2>2. ASSUME NEW b \in answer
        PROVE  res'[b].status \notin Untaken \ {"pending"}
                  => res[b].status \notin Untaken \ {"pending"}
    <3>1. PICK r \in {res[b], [res[b] EXCEPT !.rollback = "unavailable"]} :
             res'[b] = Settled(r)
      BY <1>9 DEF CleanupTimeout
    <3>2. r \in Result /\ r.status = res[b].status
      <4>1. res[b] \in Result
        BY DEF TypeOK
      <4>. QED  BY <3>1, <4>1, Amended, Unavailable
    <3>. QED  BY <3>1, <3>2, SettledOrder
  <2>. QED  BY <1>a, <2>1, <2>2
<1>10. CASE Others
  <2>1. UNCHANGED <<pc, cur, res>>
    BY <1>10 DEF Others, SetConsent, EndJob, OtherRestart, Expire, local
  <2>. QED  BY <1>a, <2>1
<1>. QED  BY <1>1, <1>2, <1>3, <1>4, <1>5, <1>6, <1>7, <1>8, <1>9, <1>10 DEF Next, Work

(* A restart comes last, and only if everything that was to be tried first for
   that job took place. *)
THEOREM RestartLastHolds == Spec => []RestartLast
<1>1. Init => OrderOK
  <2> SUFFICES ASSUME Init PROVE OrderOK
    OBVIOUS
  <2>1. \A a \in answer : res[a].status = "none"
    BY DEF Init, Unstarted
  <2>2. pc = "consent"
    BY DEF Init
  <2>. QED  BY <2>1, <2>2 DEF OrderOK, Untaken
<1>2. HonestInv /\ OrderOK /\ [Next]_vars => OrderOK'
  <2>1. ASSUME HonestInv, OrderOK, Next PROVE OrderOK'
    <3>1. Forward
      BY <2>1, ResultsStep DEF HonestInv
    <3>. QED  BY <2>1, <3>1, OrderStep
  <2>2. ASSUME OrderOK, UNCHANGED vars PROVE OrderOK'
    BY <2>2 DEF OrderOK, Before, Started, vars, env, store, local
  <2>. QED  BY <2>1, <2>2
<1>3. HonestInv /\ OrderOK => RestartLast
  <2> SUFFICES ASSUME HonestInv, OrderOK,
                      NEW a \in made, a.kind = "restart"
               PROVE  Before(a)
    BY DEF RestartLast, Before
  <2>1. a \in answer /\ res[a].status \notin Untaken
    BY DEF HonestInv, TypeOK, ResultsOK, ResultOK
  <2>. QED  BY <2>1 DEF OrderOK
<1>. QED  BY <1>1, <1>2, <1>3, HonestInvariant, PTL DEF Spec
-----------------------------------------------------------------------------
(* Once the grace is over the worker has ended. *)
OverEnded == alarm = "over" => Ended

(* After the end of the grace nothing is written, done or reported. *)
THEOREM GraceIsFinalHolds == Spec => GraceIsFinal
<1> DEFINE Still == UNCHANGED <<journal, report, made, res>>
<1>1. Init => OverEnded
  BY DEF Init, OverEnded
<1>2. OverEnded /\ alarm = "over" /\ [Next]_vars => Still /\ OverEnded'
  <2> SUFFICES ASSUME Ended, [Next]_vars PROVE Still /\ OverEnded'
    BY DEF OverEnded
  <2>1. ~Work
    BY DEF Ended, Work, ReadConsent, WriteFirst, Pick, Check, WriteIntent, Act, StoreId,
       StoreStatus, WriteResult, Compare, WriteFinal, Mark1, Mark2, Mark3, MarkIncomplete,
       RollBack, RolledBack, Rolling, Write1, Write2, Write3, WriteHandled, SetStatus,
       SaveReport, RetainJournals, SaveAgain
  <2>2. UNCHANGED vars
    BY <2>1 DEF Next, WorkerTimeout, KeyboardInterrupt, CleanupTimeout, Die, Others
  <2>. QED  BY <2>2 DEF OverEnded, Ended, vars, store, local, disk
<1>3. OverEnded /\ alarm # "over" /\ [Next]_vars => OverEnded'
  <2> SUFFICES ASSUME alarm # "over", [Next]_vars PROVE OverEnded'
    OBVIOUS
  <2>1. CASE CleanupTimeout
    BY <2>1 DEF CleanupTimeout, OverEnded, Ended, Go
  <2>2. CASE WorkerTimeout
    BY <2>2 DEF WorkerTimeout, OverEnded
  <2>3. CASE Work
    <3>1. UNCHANGED clock
      BY <2>3 DEF Work, ReadConsent, WriteFirst, Pick, Check, WriteIntent, Act, StoreId,
         StoreStatus, WriteResult, Compare, WriteFinal, Mark1, Mark2, Mark3, MarkIncomplete,
         RollBack, RolledBack, Write1, Write2, Write3, WriteHandled, SetStatus, SaveReport,
         RetainJournals, SaveAgain
    <3>. QED  BY <3>1 DEF OverEnded, clock
  <2>4. CASE KeyboardInterrupt \/ Die \/ Others \/ UNCHANGED vars
    BY <2>4 DEF KeyboardInterrupt, Die, Others, SetConsent, EndJob, OtherRestart, Expire, vars,
       clock, OverEnded
  <2>. QED  BY <2>1, <2>2, <2>3, <2>4 DEF Next
<1>4. OverEnded /\ [Next]_vars => OverEnded'
  BY <1>2, <1>3
<1>5. OverEnded /\ [Next]_vars
        => (alarm = "over" => journal' = journal /\ report' = report /\ made' = made
                                /\ res' = res)
  BY <1>2
<1>6. Spec => []OverEnded
  BY <1>1, <1>4, PTL DEF Spec
<1>. QED  BY <1>5, <1>6, PTL DEF Spec, GraceIsFinal

-----------------------------------------------------------------------------
(* Where a handler or a rollback has taken over. *)
Later == {"final", "write1", "write2", "write3", "status", "save", "retain", "save3", "done"}
            \cup Rolling

Wrong == worse \/ \E a \in answer : res[a].incomplete

(* What went wrong is found out where every override is still to be visited, and
   each is visited before that point is left. *)
RolledOK ==
    /\ pc \notin Rolling \cup {"dead"} => todo = {}
    /\ pc \in Begun => ~Wrong
    /\ pc \in Later /\ alarm # "over" /\ Wrong
         => \A a \in Owned : res[a].rollback # "none" \/ a \in todo

LEMMA RolledStep ==
  ASSUME HonestInv, RolledOK, Next
  PROVE  RolledOK'
<1> USE DEF HonestInv
(* Steps that keep the results, and leave no later point for an earlier one. *)
<1>a. ASSUME UNCHANGED <<res, todo, worse, answer>>, alarm' # "over" => alarm # "over",
             pc' \notin Rolling \cup {"dead"} => pc \notin Rolling \cup {"dead"} \/ todo = {},
             pc' \in Begun => pc \in Begun,
             pc' \in Later => pc \in Begun \cup Later
      PROVE  RolledOK'
  BY <1>a DEF RolledOK, Wrong, Owned
<1>1. CASE ReadConsent \/ SetStatus \/ RetainJournals \/ RolledBack \/ Die
  BY <1>1, <1>a DEF ReadConsent, SetStatus, RetainJournals, RolledBack, Die, AfterRoll, Rolling,
       Go, Begun, Later, Acting, store, local, clock
<1>2. CASE WriteFirst \/ WriteResult \/ WriteFinal
  BY <1>2, <1>a DEF WriteFirst, WriteResult, WriteFinal, WriteJournal, Go, Rolling, Begun, Later,
       Acting, local, clock
<1>3. CASE Write1 \/ Write2 \/ Write3 \/ SaveReport \/ SaveAgain
  BY <1>3, <1>a DEF Write1, Write2, Write3, WriteHandled, SaveReport, SaveAgain, Go, Rolling,
       Begun, Later, Acting, local, clock
<1>b. ASSUME pc \in Begun, pc' \in Begun \cup {"mark1"}, UNCHANGED <<todo, worse, answer>>,
             \A a \in answer : res'[a].incomplete = res[a].incomplete
      PROVE  RolledOK'
  BY <1>b DEF RolledOK, Wrong, Begun, Later, Acting, Rolling
<1>m. ASSUME NEW c, NEW x,
             res' = [res EXCEPT ![c].status = x] \/ res' = [res EXCEPT ![c].id = x]
      PROVE  \A b \in answer : res'[b].incomplete = res[b].incomplete
  <2>1. ASSUME NEW b \in answer PROVE res'[b].incomplete = res[b].incomplete
    <3>1. res[b] \in Result
      BY DEF TypeOK
    <3>2. res'[b] \in {res[b], [res[b] EXCEPT !.status = x], [res[b] EXCEPT !.id = x]}
      BY <1>m DEF TypeOK
    <3>. QED  BY <3>1, <3>2 DEF Result
  <2>. QED  BY <2>1
<1>4. ASSUME NEW a \in answer, Pick(a) PROVE RolledOK'
  <2>1. \A b \in answer : res'[b].incomplete = res[b].incomplete
    BY <1>4 DEF Pick, Mark, TypeOK, Result
  <2>. QED  BY <1>4, <1>b, <2>1 DEF Pick, Go, Begun, Acting
<1>5. CASE Check \/ WriteIntent \/ Act \/ StoreId \/ StoreStatus
  <2>1. \A b \in answer : res'[b].incomplete = res[b].incomplete
    BY <1>5, <1>m DEF Check, WriteIntent, Act, StoreId, StoreStatus, Mark
  <2>2. /\ pc \in Begun /\ pc' \in Begun \cup {"mark1"}
        /\ UNCHANGED <<todo, worse, answer>>
    BY <1>5 DEF Check, WriteIntent, Act, StoreId, StoreStatus, Go, Begun, Acting
  <2>. QED  BY <1>b, <2>1, <2>2
<1>6. CASE Compare
  <2>1. ~Wrong /\ todo = {} /\ res' = res /\ answer' = answer
    BY <1>6 DEF Compare, RolledOK, Begun, Rolling
  <2>2. CASE pc' \in {"mark1", "final"} /\ todo' = todo /\ (pc' = "final" => ~worse')
    BY <2>1, <2>2 DEF RolledOK, Wrong, Begun, Acting, Later, Rolling
  <2>3. CASE pc' = "roll" /\ todo' = Owing
    BY <2>1, <2>3 DEF RolledOK, Owing, Owned, Begun, Acting, Rolling
  <2>. QED  BY <1>6, <2>2, <2>3 DEF Compare, Go
<1>7. CASE Mark1 \/ Mark2 \/ Mark3
  <2>1. /\ res' = [a \in answer |-> Settled(res[a])]
        /\ todo' = {a \in answer : Settled(res[a]).id /\ res[a].rollback # "removed"}
        /\ pc' \in {"roll1", "roll2", "roll3"} /\ UNCHANGED answer
    BY <1>7 DEF Mark1, Mark2, Mark3, MarkIncomplete, Incomplete, Go
  <2>2. \A a \in Owned' : res'[a].rollback # "none" \/ a \in todo'
    BY <2>1, SettledIs DEF Owned, TypeOK
  <2>. QED  BY <2>1, <2>2 DEF RolledOK, Begun, Acting, Rolling
<1>8. ASSUME NEW a \in answer, RollBack(a) PROVE RolledOK'
  <2>1. /\ pc \in Rolling /\ todo' = todo \ {a} /\ UNCHANGED <<pc, worse, alarm, answer>>
    BY <1>8 DEF RollBack, clock
  <2>2. PICK back \in {"removed", "unavailable"} : res' = [res EXCEPT ![a].rollback = back]
    BY <1>8 DEF RollBack
  <2>3. /\ res'[a].rollback # "none"
        /\ \A b \in answer : res'[b].incomplete = res[b].incomplete /\ res'[b].id = res[b].id
        /\ \A b \in answer \ {a} : res'[b] = res[b]
    BY <2>2 DEF TypeOK, Result
  <2>. QED  BY <2>1, <2>3 DEF RolledOK, Wrong, Owned, Rolling, Begun, Acting
<1>9. CASE WorkerTimeout \/ KeyboardInterrupt
  <2>1. Interrupted /\ UNCHANGED answer /\ (alarm' # "over" => alarm # "over")
    BY <1>9 DEF WorkerTimeout, KeyboardInterrupt
  <2>2. CASE InterruptRolling
    <3>1. /\ todo' = {}
          /\ pc' \in {"final", "write1", "write2", "write3"}
      BY <2>2 DEF InterruptRolling, AfterRoll, Rolling, Go
    <3>2. ASSUME NEW a \in Owned' PROVE res'[a].rollback # "none"
      <4>1. a \in answer /\ res[a] \in Result
        BY <2>1 DEF Owned, TypeOK
      <4>2. CASE a \in Owing
        <5>1. res'[a] = [res[a] EXCEPT !.rollback = "unavailable", !.incomplete = TRUE]
          BY <2>2, <4>1, <4>2 DEF InterruptRolling, Abandon
        <5>. QED  BY <4>1, <5>1, Unavailable
      <4>3. CASE a \notin Owing
        <5>1. res'[a] = res[a]
          BY <2>2, <4>1, <4>3 DEF InterruptRolling, Abandon
        <5>. QED  BY <4>1, <4>3, <5>1 DEF Owing, Owned
      <4>. QED  BY <4>2, <4>3
    <3>. QED  BY <3>1, <3>2 DEF RolledOK, Begun, Acting
  <2>3. CASE ~InterruptRolling
    BY <1>a, <2>1, <2>3 DEF Interrupted, Applying, Go, Begun, Acting, Later, Rolling, local
  <2>. QED  BY <2>2, <2>3
<1>10. CASE CleanupTimeout
  BY <1>10 DEF CleanupTimeout, Go, RolledOK, Begun, Acting
<1>11. CASE Others
  BY <1>11, <1>a DEF Others, SetConsent, EndJob, OtherRestart, Expire, local, clock
<1>. QED  BY <1>1, <1>2, <1>3, <1>4, <1>5, <1>6, <1>7, <1>8, <1>9, <1>10, <1>11
          DEF Next, Work

(* Whenever the worker returns in time and something went wrong, it has visited
   every override it knew to be its own. *)
THEOREM OwnRolledBackHolds == Spec => []OwnRolledBack
<1>1. Init => RolledOK
  <2> SUFFICES ASSUME Init PROVE RolledOK
    OBVIOUS
  <2>1. pc = "consent" /\ todo = {} /\ ~worse /\ \A a \in answer : ~res[a].incomplete
    BY DEF Init, Unstarted
  <2>. QED  BY <2>1 DEF RolledOK, Wrong, Later, Rolling
<1>2. HonestInv /\ RolledOK /\ [Next]_vars => RolledOK'
  <2>1. ASSUME RolledOK, UNCHANGED vars PROVE RolledOK'
    BY <2>1 DEF RolledOK, Wrong, Owned, vars, local, clock
  <2>. QED  BY <2>1, RolledStep
<1>3. RolledOK => OwnRolledBack
  BY DEF RolledOK, OwnRolledBack, Wrong, Later, Rolling
<1>. QED  BY <1>1, <1>2, <1>3, HonestInvariant, PTL DEF Spec
=============================================================================
