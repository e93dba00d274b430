----------------------------- MODULE AdmissionWait -----------------------------
(***************************************************************************)
(* The wait of one batch job for admission: the polling loop of admit() in *)
(* codex_looper/resource_jobs.py around HeadroomGate.sample of             *)
(* codex_looper/resource_policy.py, with a recipe deferral that others set *)
(* and roll back meanwhile, and the thermal verdict of ThermalGate.        *)
(*                                                                         *)
(* A poll is one step; reservations (JobAdmission) are an input of it.     *)
(***************************************************************************)
EXTENDS ThermalGate, Sequences

CONSTANTS
    Hosts,            \* the waits considered: records of
                      \*   policies  --memory-policy
                      \*   restart   it may be the wait of a restart
                      \*   readings  memory samples, Unusable among them
                      \*   defers    others defer the recipe
                      \*   thermal   thermal protection is in use
    Unusable,         \* an invalid sample, or a host below the thresholds
    ReserveMib, RecoveryMib, RecoverySeconds,      \* HeadroomSettings
    Timeout,          \* --queue-timeout
    MaxStep,          \* bound: longest time between two polls
    MaxDefer          \* bound: longest deferral

ASSUME HeadroomSettings == /\ {ReserveMib, RecoveryMib, RecoverySeconds} \subseteq Nat
                           /\ 0 < ReserveMib /\ ReserveMib < RecoveryMib
ASSUME WaitBounds == {Timeout, MaxStep, MaxDefer} \subseteq Nat /\ MaxStep > 0
ASSUME HostBounds ==
    \A h \in Hosts : /\ {h.restart, h.defers, h.thermal} \subseteq BOOLEAN
                     /\ h.readings \ {Unusable} \subseteq [available : Nat, pressure : Nat]

VARIABLES
    host,        \* the host of this wait
    policy,      \* --memory-policy
    recovery,    \* this is the wait of a restart
    gate,        \* the HeadroomGate
    deferUntil,  \* the recipe's latest deferral
    outcome,     \* of the wait
    log          \* history: the samples the gate took, with their times

wait_vars == <<host, policy, recovery, clock, gate, deferUntil, outcome, log>>
vars == <<wait_vars, gate_vars>>

None == -1
Exhausted == [available |-> 0, pressure |-> 0]
Fresh == [waiting |-> FALSE, since |-> None]

TypeOK == /\ GateTypeOK
          /\ host \in Hosts /\ policy \in host.policies
          /\ recovery \in BOOLEAN
          /\ clock \in 0..(Timeout + MaxStep)
          /\ gate \in [waiting : BOOLEAN, since : {None} \cup 0..(Timeout + MaxStep)]
          /\ deferUntil \in 0..(Timeout + MaxStep + MaxDefer)
          /\ outcome \in {"polling", "admitted", "timeout", "failed"}
          /\ log \in Seq([at : Nat, memory : host.readings \cup {Exhausted}])

-----------------------------------------------------------------------------
(* HeadroomGate.sample: the next state of the gate g and its answer.  Within
   one wait the clock is monotonic. *)

Low(m)    == m.available <= ReserveMib \/ m.pressure >= 25
Tight(m)  == m.available < RecoveryMib \/ m.pressure >= 10

Interrupted_KeepsTime(g) == g
Interrupted(g) == [g EXCEPT !.since = None]

Sample(g, m, now) ==
    LET since == IF g.since = None THEN now ELSE g.since IN
    CASE m = Unusable              -> [gate |-> Fresh, allowed |-> TRUE]
      [] m # Unusable /\ Low(m)    -> [gate |-> [waiting |-> TRUE, since |-> None],
                                       allowed |-> FALSE]
      [] m # Unusable /\ ~Low(m) /\ ~g.waiting -> [gate |-> g, allowed |-> TRUE]
      [] m # Unusable /\ ~Low(m) /\ g.waiting /\ Tight(m) ->
            [gate |-> Interrupted(g), allowed |-> FALSE]
      [] OTHER ->
            IF now - since < RecoverySeconds
            THEN [gate |-> [g EXCEPT !.since = since], allowed |-> FALSE]
            ELSE [gate |-> Fresh, allowed |-> TRUE]

-----------------------------------------------------------------------------
(* A restart primes the gate with an exhausted sample. *)
Init == /\ host \in Hosts /\ policy \in host.policies
        /\ GateInit /\ (~host.thermal => settings = "off" /\ status = NoStatus)
        /\ recovery \in BOOLEAN /\ (recovery => host.restart)
        /\ clock = 0
        /\ gate = IF recovery THEN Sample(Fresh, Exhausted, 0).gate ELSE Fresh
        /\ deferUntil = 0
        /\ outcome = "polling"
        /\ log = IF recovery THEN <<[at |-> 0, memory |-> Exhausted]>> ELSE <<>>

Deferred == policy # "ignore" /\ deferUntil > clock

KeepWaiting_Renewed ==    \* --memory-policy ignore renews the deadline
    CASE clock < Timeout -> UNCHANGED outcome /\ \E d \in 1..MaxStep : clock' = clock + d
      [] clock >= Timeout /\ policy # "ignore" -> outcome' = "timeout" /\ UNCHANGED clock
      [] OTHER -> UNCHANGED outcome /\ clock' = 0
KeepWaiting ==
    IF clock >= Timeout
    THEN outcome' = "timeout" /\ UNCHANGED clock
    ELSE UNCHANGED outcome /\ \E d \in 1..MaxStep : clock' = clock + d

Poll(m, refused) ==
    LET hot      == AdmissionReason # "none"
        ignored  == policy = "ignore"
        answer   == Sample(gate, m, clock)
        allowed  == ignored \/ answer.allowed
        reserve  == ~Deferred /\ ~hot /\ (allowed \/ policy = "warn")
        blocked  == Deferred \/ hot \/ (reserve /\ refused)
    IN  /\ outcome = "polling" /\ settings # "unreadable"
        /\ gate' = IF ignored THEN gate ELSE answer.gate
        /\ log' = IF ignored THEN log ELSE Append(log, [at |-> clock, memory |-> m])
        /\ \/ /\ ~blocked /\ (allowed \/ (policy = "warn" /\ ~recovery))
              /\ outcome' = "admitted"
              /\ UNCHANGED clock
           \/ /\ blocked \/ ~(allowed \/ (policy = "warn" /\ ~recovery))
              /\ KeepWaiting
        /\ UNCHANGED <<host, policy, recovery, deferUntil, gate_vars>>

\* load_settings raises, and main() ends without a launch.
PollFails ==
    /\ outcome = "polling" /\ settings = "unreadable" /\ outcome' = "failed"
    /\ UNCHANGED <<host, policy, recovery, clock, gate, deferUntil, log, gate_vars>>

(* defer_job, its expiry aside, and its rollback by the incident worker. *)
Defer == /\ outcome = "polling" /\ host.defers
         /\ \/ \E d \in 1..MaxDefer : /\ clock + d > deferUntil
                                      /\ deferUntil' = clock + d
            \/ deferUntil > 0 /\ deferUntil' = 0
         /\ UNCHANGED <<host, policy, recovery, clock, gate, outcome, log, gate_vars>>

Thermal == host.thermal /\ outcome = "polling" /\ Writers /\ UNCHANGED wait_vars

Polls == PollFails \/ \E m \in host.readings, refused \in BOOLEAN : Poll(m, refused)

Next == Polls \/ Defer \/ Thermal

Spec == Init /\ [][Next]_vars

(* The loop keeps polling; deferrals, and the writers of what the thermal
   verdict is made of, need never stop. *)
FairSpec == Spec /\ WF_vars(Polls)

-----------------------------------------------------------------------------
(* Properties.                                                             *)

Healthy(m) == m # Unusable /\ m.available >= RecoveryMib /\ m.pressure < 10

(* The samples i..k are a sustained recovery. *)
Sustained(i, k) == /\ \A n \in i..k : Healthy(log[n].memory)
                   /\ log[k].at - log[i].at >= RecoverySeconds

(* README.md:961-963: after waiting, admission needs recovery headroom
   continuously for recovery_seconds; only an unusable sample opens the gate
   without it.  A warn launch that is not a restart is advisory, but every
   restart waits -- also when thermal, deferral or reservation blocks the
   polls at which the gate is open. *)
SustainedRecovery ==
    outcome = "admitted" /\ (policy = "queue" \/ (policy = "warn" /\ recovery)) =>
      \A c \in DOMAIN log : log[c].memory # Unusable /\ Low(log[c].memory) =>
        \/ \E n \in c+1..Len(log) : log[n].memory = Unusable
        \/ \E i, k \in c+1..Len(log) : i <= k /\ Sustained(i, k)

(* The wait ends, by admission, the queue timeout or an error, although
   deferrals may be renewed for ever and the guard may never be ready. *)
Decides == <>(outcome # "polling")

\* Time passed, a suspension included, since the pass behind the status.
PassAge == (clock + slept) - (status.mono + status.slept)
SetBackSince == status.mono + status.slept - back # status.wall

(* docs/resource-reliability.md:78 "Missing sensors, missing/incompatible guard
   heartbeats [...] hold or refuse enrolled batch work [...] `--memory-policy
   ignore` does not bypass thermal protection".  Whoever is admitted has a
   guard that runs, that made a complete pass under these very settings, and
   made it within guard_max_age -- however the guard died and came back, the
   settings changed, the clock was set back or the host slept meanwhile (but
   for a clock set back on a host that also slept: each hides the other). *)
AdmittedGuarded ==
    [][outcome = "polling" /\ outcome' = "admitted" /\ settings \in Enforcing =>
         /\ guard # 0 /\ status.by = guard
         /\ status.settings = settings /\ status.ready
         /\ status.slept = slept \/ ~SetBackSince => PassAge <= GuardAge]_vars
=============================================================================
