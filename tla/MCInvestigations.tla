---------------------------- MODULE MCInvestigations ----------------------------
(***************************************************************************)
(* One operator and the monitor's worker, a cooldown of three units, two   *)
(* commands for the model.                                                 *)
(***************************************************************************)
EXTENDS Investigations

CONSTANTS m1, w1
=============================================================================
