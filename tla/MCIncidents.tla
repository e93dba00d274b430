------------------------------ MODULE MCIncidents ------------------------------
(* One incident worker.  The answers: every remedy of one job at once, and    *)
(* remedies of two jobs, where the failure of one does not concern the other. *)
EXTENDS Incidents

CONSTANTS j1, j2

TwoJobs == {j1, j2}
Remedy(kind, job) == [kind |-> kind, job |-> job]
MCAnswers == { {Remedy(k, j1) : k \in {"defer", "reduce_workers", "restart"}},
               {Remedy("defer", j1), Remedy("restart", j2)} }
=============================================================================
