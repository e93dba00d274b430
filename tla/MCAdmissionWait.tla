---------------------------- MODULE MCAdmissionWait ----------------------------
(***************************************************************************)
(* Readings at the thresholds of HeadroomGate, in units of 512 MiB; and a  *)
(* thermal guard that comes and goes, on a host with enough memory.        *)
(***************************************************************************)
EXTENDS AdmissionWait

CONSTANT NoReading

Boundary == { NoReading,
              [available |-> 2, pressure |-> 0],     \* the reserve itself
              [available |-> 3, pressure |-> 25],    \* critical stalls
              [available |-> 3, pressure |-> 10],    \* stalls not yet recovered
              [available |-> 3, pressure |-> 9] }    \* exactly recovered

Memory == [policies |-> {"warn", "queue", "ignore"}, restart |-> TRUE, readings |-> Boundary,
           defers |-> TRUE, thermal |-> FALSE]

\* The policy that waits for nothing but the guard.
Hot == [policies |-> {"ignore"}, restart |-> FALSE,
        readings |-> {[available |-> 3, pressure |-> 9]}, defers |-> FALSE, thermal |-> TRUE]

MCHosts == {Memory, Hot}
=============================================================================
