----------------------------- MODULE MCThermalGuard -----------------------------
(***************************************************************************)
(* Small instances of ThermalGuard for TLC: a budget of 4, shared as 4 or  *)
(* as 2 and 2; operators choose a stronger 1, a weaker 5, or the share 4.  *)
(***************************************************************************)
EXTENDS ThermalGuard

CONSTANTS j1, j2

\* One job that restarts once, under every failure.
Single == [jobs |-> {j1}, launches |-> 2, quotas |-> {1, 4, 5},
           fails |-> TRUE, crashes |-> TRUE, prunes |-> FALSE]

\* One job whose record is removed from the job store once it ended.
Pruned == [Single EXCEPT !.launches = 1, !.quotas = {}, !.prunes = TRUE]

\* Two jobs that share the budget of a guard that works.
Pair == [jobs |-> {j1, j2}, launches |-> 1, quotas |-> {3},
         fails |-> FALSE, crashes |-> FALSE, prunes |-> FALSE]

MCHosts == {Single, Pruned, Pair}

\* One job, a manager that works, and an operator with a stronger limit.
MCWindow == {[Pair EXCEPT !.jobs = {j1}, !.quotas = {1}]}

\* Two jobs and a manager that fails.
MCFailing == {[Pair EXCEPT !.quotas = {1, 5}, !.fails = TRUE]}
=============================================================================
