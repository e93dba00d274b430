---------------------------- MODULE PayloadContract ----------------------------
(***************************************************************************)
(* What `codex-job run` promises about one payload, whatever the launcher, *)
(* the scope manager and the restart requests do: it never runs twice at   *)
(* once, and it is started once, or twice if restart consent was given and *)
(* spent.                                                                  *)
(***************************************************************************)
EXTENDS Naturals

VARIABLES
    consent,   \* --restartable was given
    spent,     \* restarts charged to that consent
    runs,      \* times the payload was executed
    alive      \* the executed payload has not ended

vars == <<consent, spent, runs, alive>>

Init == consent \in BOOLEAN /\ spent = 0 /\ runs = 0 /\ alive = FALSE

Begin == /\ ~alive /\ runs < 1 + spent
         /\ runs' = runs + 1 /\ alive' = TRUE
         /\ UNCHANGED <<consent, spent>>

End == alive /\ alive' = FALSE /\ UNCHANGED <<consent, spent, runs>>

Spend == consent /\ spent = 0 /\ spent' = 1 /\ UNCHANGED <<consent, runs, alive>>

Next == Begin \/ End \/ Spend

Spec == Init /\ [][Next]_vars
=============================================================================
