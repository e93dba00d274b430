----------------------------- MODULE MCJobAdmission -----------------------------
(***************************************************************************)
(* Small instances of JobAdmission for TLC.                                *)
(***************************************************************************)
EXTENDS JobAdmission

CONSTANTS j1, j2, j3

Trio == {j1, j2, j3}
Duo  == {j1, j2}

OneCohort == [j \in Jobs |-> "builds"]

(* j1 declares one slot, the others two: the stronger choice must win. *)
MixedLimits == [j \in Jobs |-> IF j = j1 THEN 1 ELSE 2]
OneSlot     == [j \in Jobs |-> 1]
NoLimits    == [j \in Jobs |-> 0]

NoRequests == [j \in Jobs |-> 0]
(* Two of the promises together exceed the reading less the floor. *)
Requests   == [j \in Jobs |-> IF j = j1 THEN 0 ELSE 4]

OneReading == {8}
Memories   == {InvalidReading, 4, 8}
=============================================================================
