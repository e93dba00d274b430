------------------------- MODULE AdmissionWaitProofs -------------------------
(***************************************************************************)
(* For every host, threshold, timeout, reading and behaviour of the guard: *)
(* a wait is not over before memory has recovered for as long as required, *)
(* and nobody is admitted on the word of a guard that is gone or late.     *)
(***************************************************************************)
EXTENDS AdmissionWait, TLAPS

Readings == [available : Nat, pressure : Nat]

\* An exhausted sample at c was followed by what may end the wait.
Resolved(c) ==
    \/ \E n \in c+1..Len(log) : log[n].memory = Unusable
    \/ \E i, k \in c+1..Len(log) : i <= k /\ Sustained(i, k)

\* What the gate remembers of the log: since when all samples are healthy.
SinceOK ==
    gate.since # None =>
      /\ gate.waiting
      /\ \E i \in 1..Len(log) : /\ log[i].at = gate.since
                                /\ \A n \in i..Len(log) : Healthy(log[n].memory)

\* And that it still waits for a recovery.
PendingOK ==
    \A c \in 1..Len(log) :
      log[c].memory # Unusable /\ Low(log[c].memory) => Resolved(c) \/ gate.waiting

WaitInv == TypeOK /\ SinceOK /\ PendingOK /\ SustainedRecovery
-----------------------------------------------------------------------------
LEMMA ExhaustedReading == Exhausted \in Readings
  BY DEF Exhausted, Readings

LEMMA LowNotHealthy == \A m \in Readings : Low(m) => ~Healthy(m)
  BY HeadroomSettings DEF Readings, Low, Healthy

(* The answers of HeadroomGate.sample keep the type of the gate. *)
LEMMA SampleType ==
  ASSUME NEW g \in [waiting : BOOLEAN, since : {None} \cup 0..(Timeout + MaxStep)],
         NEW m, NEW now \in 0..(Timeout + MaxStep)
  PROVE  Sample(g, m, now).gate \in [waiting : BOOLEAN,
                                     since : {None} \cup 0..(Timeout + MaxStep)]
  BY DEF Sample, Fresh, Interrupted

LEMMA SeqElements ==
  ASSUME NEW S, NEW q \in Seq(S)
  PROVE  /\ DOMAIN q = 1..Len(q)
         /\ \A n \in 1..Len(q) : q[n] \in S
  OBVIOUS

LEMMA HostReadings ==
  ASSUME NEW h \in Hosts, NEW m \in h.readings
  PROVE  m = Unusable \/ m \in Readings
  BY HostBounds DEF Readings
-----------------------------------------------------------------------------
(* The first sample of a restart is exhausted, and the gate waits. *)
LEMMA WaitInit == Init => WaitInv
<1>. SUFFICES ASSUME Init PROVE WaitInv
  OBVIOUS
<1>1. TypeOK
  <2>1. GateTypeOK
    <3>1. 0 \in 0..Guards /\ Nap \in {0, Nap}
      BY GateAssumption
    <3>2. sensor \in [at : Int, cpu : {"ok", "hot", "none"}] /\ settings \in Settings
      BY DEF Init, GateInit, NoSample
    <3>3. status \in [by : 0..Guards, wall : Int, mono : Nat, settings : Settings,
                      ready : BOOLEAN, slept : {0, Nap}]
      <4>. DEFINE T == [by : 0..Guards, wall : Int, mono : Nat, settings : Settings,
                        ready : BOOLEAN, slept : {0, Nap}]
      <4>1. {"on", "off"} \subseteq Settings
        BY DEF Settings, Enforcing
      <4>2. NoStatus \in T
        BY <3>1, <4>1 DEF NoStatus
      <4>3. EarlierBoot \in T
        BY <4>1, <4>2 DEF EarlierBoot
      <4>. QED  BY <4>2, <4>3 DEF Init, GateInit
    <3>. QED  BY <3>1, <3>2, <3>3 DEF Init, GateInit, GateTypeOK
  <2>2. gate \in [waiting : BOOLEAN, since : {None} \cup 0..(Timeout + MaxStep)]
    <3>1. Fresh \in [waiting : BOOLEAN, since : {None} \cup 0..(Timeout + MaxStep)]
      BY DEF Fresh
    <3>2. 0 \in 0..(Timeout + MaxStep)
      BY WaitBounds
    <3>. QED  BY <3>1, <3>2, SampleType DEF Init
  <2>3. log \in Seq([at : Nat, memory : host.readings \cup {Exhausted}])
    <3>. DEFINE S == [at : Nat, memory : host.readings \cup {Exhausted}]
                e == [at |-> 0, memory |-> Exhausted]
    <3>1. e \in S
      OBVIOUS
    <3>2. <<e>> \in Seq(S) /\ <<>> \in Seq(S)
      BY <3>1
    <3>. QED  BY <3>2 DEF Init
  <2>4. recovery \in BOOLEAN /\ clock \in 0..(Timeout + MaxStep)
        /\ deferUntil \in 0..(Timeout + MaxStep + MaxDefer)
    BY WaitBounds DEF Init
  <2>. QED  BY <2>1, <2>2, <2>3, <2>4 DEF Init, TypeOK
<1>2. CASE ~recovery
  <2>1. gate = Fresh /\ log = <<>> /\ outcome = "polling"
    BY <1>2 DEF Init
  <2>. QED  BY <1>1, <2>1 DEF WaitInv, SinceOK, PendingOK, SustainedRecovery, Fresh
<1>3. CASE recovery
  <2>1. log = <<[at |-> 0, memory |-> Exhausted]>> /\ outcome = "polling"
        /\ gate = Sample(Fresh, Exhausted, 0).gate
    BY <1>3 DEF Init
  <2>2. Low(Exhausted)
    BY HeadroomSettings DEF Low, Exhausted
  <2>3. CASE Exhausted = Unusable
    <3>1. gate = Fresh
      BY <2>1, <2>3 DEF Sample
    <3>. QED  BY <1>1, <2>1, <2>3, <3>1
              DEF WaitInv, SinceOK, PendingOK, SustainedRecovery, Fresh
  <2>4. CASE Exhausted # Unusable
    <3>1. gate = [waiting |-> TRUE, since |-> None]
      BY <2>1, <2>2, <2>4 DEF Sample
    <3>. QED  BY <1>1, <2>1, <3>1 DEF WaitInv, SinceOK, PendingOK, SustainedRecovery
  <2>. QED  BY <2>3, <2>4
<1>. QED  BY <1>1, <1>2, <1>3 DEF TypeOK
-----------------------------------------------------------------------------
(* What is resolved stays so when the log grows. *)
LEMMA AppendedLog ==
  ASSUME TypeOK, NEW e, e \in [at : Nat, memory : host.readings \cup {Exhausted}],
         log' = Append(log, e)
  PROVE  /\ Len(log') = Len(log) + 1 /\ Len(log) \in Nat
         /\ \A n \in 1..Len(log) : log'[n] = log[n]
         /\ log'[Len(log) + 1] = e
         /\ \A c \in 1..Len(log) : Resolved(c) => Resolved(c)'
<1>1. /\ Len(log') = Len(log) + 1 /\ Len(log) \in Nat
      /\ \A n \in 1..Len(log) : log'[n] = log[n]
      /\ log'[Len(log) + 1] = e
  BY DEF TypeOK
<1>2. ASSUME NEW c \in 1..Len(log), Resolved(c) PROVE Resolved(c)'
  <2>1. CASE \E n \in c+1..Len(log) : log[n].memory = Unusable
    BY <1>1, <2>1 DEF Resolved
  <2>2. CASE \E i, k \in c+1..Len(log) : i <= k /\ Sustained(i, k)
    <3>1. PICK i \in c+1..Len(log), k \in c+1..Len(log) : i <= k /\ Sustained(i, k)
      BY <2>2
    <3>2. i \in c+1..Len(log') /\ k \in c+1..Len(log')
      BY <1>1
    <3>3. \A n \in i..k : log'[n] = log[n]
      BY <1>1
    <3>4. Sustained(i, k)'
      BY <1>1, <3>1, <3>3 DEF Sustained
    <3>. QED  BY <3>1, <3>2, <3>4 DEF Resolved
  <2>. QED  BY <1>2, <2>1, <2>2 DEF Resolved
<1>. QED  BY <1>1, <1>2
-----------------------------------------------------------------------------
(* A poll that takes a sample, unless the policy is to ignore memory. *)
Sampling(m) ==
    /\ log' = Append(log, [at |-> clock, memory |-> m])
    /\ gate' = Sample(gate, m, clock).gate
    /\ outcome = "polling"
    /\ outcome' = "admitted" /\ (policy = "queue" \/ (policy = "warn" /\ recovery)) =>
         Sample(gate, m, clock).allowed
    /\ UNCHANGED <<policy, recovery, host>>

LEMMA PollSamples ==
  ASSUME NEW m, NEW refused \in BOOLEAN, Poll(m, refused), policy # "ignore"
  PROVE  Sampling(m)
<1>1. /\ log' = Append(log, [at |-> clock, memory |-> m])
      /\ gate' = Sample(gate, m, clock).gate
      /\ outcome = "polling"
      /\ UNCHANGED <<policy, recovery, host>>
  BY DEF Poll
<1>2. outcome' = "admitted" => Sample(gate, m, clock).allowed \/ (policy = "warn" /\ ~recovery)
  BY DEF Poll, KeepWaiting
<1>. QED  BY <1>1, <1>2 DEF Sampling

(* After each sample, what is not resolved by it is still waited for; and only
   what is resolved lets the gate open. *)
LEMMA SamplingStep ==
  ASSUME WaitInv, NEW m \in host.readings, Sampling(m)
  PROVE  SinceOK' /\ PendingOK' /\ SustainedRecovery'
<1>. DEFINE e == [at |-> clock, memory |-> m]
            N == Len(log)
            M == N + 1
            Answer == Sample(gate, m, clock)
<1>1. /\ e \in [at : Nat, memory : host.readings \cup {Exhausted}]
      /\ clock \in Nat
      /\ m = Unusable \/ m \in Readings
      /\ gate.since = None \/ gate.since \in Nat
      /\ gate.waiting \in BOOLEAN /\ RecoverySeconds \in Nat
  BY HostReadings, HeadroomSettings, WaitBounds DEF WaitInv, TypeOK
<1>2. /\ Len(log') = M /\ N \in Nat
      /\ \A n \in 1..N : log'[n] = log[n]
      /\ log'[M] = e
      /\ \A c \in 1..N : Resolved(c) => Resolved(c)'
  BY <1>1, AppendedLog DEF WaitInv, Sampling
<1>. PICK L \in Nat : L = M
  BY <1>2
<1>. DEFINE S == [at : Nat, memory : host.readings \cup {Exhausted}]
<1>8. \A n \in 1..N : log[n] \in S
  <2>1. log \in Seq(S)
    BY DEF WaitInv, TypeOK
  <2>. QED  BY <2>1, SeqElements
<1>9. \A n \in 1..N : log[n].at \in Nat /\ log[n].memory \in host.readings \cup {Exhausted}
  BY <1>8
<1>10. DOMAIN log' = 1..M
  BY <1>1, <1>2, SeqElements DEF WaitInv, TypeOK, Sampling
<1>11. ASSUME \A c \in 1..M :
                log'[c].memory # Unusable /\ Low(log'[c].memory) => Resolved(c)'
       PROVE  PendingOK' /\ SustainedRecovery'
  <2>1. PendingOK'
    BY <1>2, <1>11 DEF PendingOK
  <2>2. \A c \in DOMAIN log' : log'[c].memory # Unusable /\ Low(log'[c].memory) =>
          (\/ \E n \in c+1..Len(log) : log[n].memory = Unusable
           \/ \E i, k \in c+1..Len(log) : i <= k /\ Sustained(i, k))'
    BY <1>10, <1>11 DEF Resolved
  <2>. QED  BY <2>1, <2>2 DEF SustainedRecovery
<1>3. CASE m = Unusable
  <2>1. gate' = Fresh
    BY <1>3 DEF Sampling, Sample
  <2>2. SinceOK'
    BY <2>1 DEF SinceOK, Fresh
  <2>3. \A c \in 1..N : Resolved(c)'
    BY <1>2, <1>3 DEF Resolved
  <2>4. \A c \in 1..M : log'[c].memory # Unusable => Resolved(c)'
    BY <1>2, <1>3, <2>3
  <2>. QED  BY <1>11, <2>2, <2>4
<1>4. CASE m # Unusable /\ Low(m)
  <2>1. gate' = [waiting |-> TRUE, since |-> None] /\ ~Answer.allowed
    BY <1>4 DEF Sampling, Sample
  <2>. QED  BY <2>1 DEF SinceOK, PendingOK, SustainedRecovery, Sampling
<1>5. CASE m # Unusable /\ ~Low(m) /\ ~gate.waiting
  <2>1. gate' = gate
    BY <1>5 DEF Sampling, Sample
  <2>2. gate.since = None
    BY <1>5 DEF WaitInv, SinceOK
  <2>3. \A c \in 1..M : log'[c].memory # Unusable /\ Low(log'[c].memory) => Resolved(c)'
    BY <1>2, <1>5 DEF WaitInv, PendingOK
  <2>. QED  BY <1>11, <2>1, <2>2, <2>3 DEF SinceOK
<1>6. CASE m # Unusable /\ ~Low(m) /\ gate.waiting /\ Tight(m)
  <2>1. gate' = [gate EXCEPT !.since = None] /\ ~Answer.allowed
    BY <1>6 DEF Sampling, Sample, Interrupted
  <2>2. gate'.since = None /\ gate'.waiting
    BY <1>6, <2>1 DEF WaitInv, TypeOK
  <2>. QED  BY <2>1, <2>2 DEF SinceOK, PendingOK, SustainedRecovery, Sampling
<1>7. CASE m # Unusable /\ ~Low(m) /\ gate.waiting /\ ~Tight(m)
  <2>. DEFINE since == IF gate.since = None THEN clock ELSE gate.since
  <2>1. Healthy(m)
    BY <1>1, <1>7, HeadroomSettings DEF Tight, Healthy, Readings
  <2>2. PICK i \in 1..M : /\ log'[i].at = since
                         /\ \A n \in i..M : Healthy(log'[n].memory)
    <3>1. CASE gate.since = None
      BY <1>2, <2>1, <3>1
    <3>2. CASE gate.since # None
      <4>1. PICK i \in 1..N : /\ log[i].at = gate.since
                             /\ \A n \in i..N : Healthy(log[n].memory)
        BY <3>2 DEF WaitInv, SinceOK
      <4>2. i \in 1..M /\ log'[i].at = since
        BY <1>2, <3>2, <4>1
      <4>3. \A n \in i..M : Healthy(log'[n].memory)
        BY <1>2, <2>1, <4>1
      <4>. QED  BY <4>2, <4>3
    <3>. QED  BY <3>1, <3>2
  <2>3. CASE clock - since < RecoverySeconds
    <3>1. gate' = [gate EXCEPT !.since = since] /\ ~Answer.allowed
      BY <1>7, <2>3 DEF Sampling, Sample
    <3>2. gate'.since = since /\ gate'.waiting
      BY <1>7, <3>1 DEF WaitInv, TypeOK
    <3>. QED  BY <1>2, <2>2, <3>1, <3>2
              DEF SinceOK, PendingOK, SustainedRecovery, Sampling
  <2>4. CASE ~(clock - since < RecoverySeconds)
    <3>1. gate' = Fresh
      BY <1>7, <2>4 DEF Sampling, Sample
    <3>2. Sustained(i, L)'
      BY <1>1, <1>2, <2>2, <2>4 DEF Sustained
    <3>3. ASSUME NEW c \in 1..M, log'[c].memory # Unusable, Low(log'[c].memory)
          PROVE  Resolved(c)'
      <4>1. log'[c].memory \in Readings
        <5>1. CASE c = M
          BY <1>1, <1>2, <3>3, <5>1
        <5>2. CASE c \in 1..N
          <6>1. log[c].memory \in host.readings \cup {Exhausted}
            BY <1>9, <5>2
          <6>. QED  BY <1>2, <3>3, <5>2, <6>1, HostReadings, ExhaustedReading
                    DEF WaitInv, TypeOK
        <5>. QED  BY <1>2, <5>1, <5>2
      <4>2. ~Healthy(log'[c].memory)
        BY <3>3, <4>1, LowNotHealthy
      <4>3. i \in c+1..L /\ L \in c+1..L /\ i <= L
        BY <1>2, <2>2, <4>2
      <4>. QED  BY <1>2, <3>2, <4>3 DEF Resolved
    <3>4. SinceOK'
      BY <3>1 DEF SinceOK, Fresh
    <3>. QED  BY <1>11, <3>3, <3>4
  <2>. QED  BY <2>3, <2>4
<1>. QED  BY <1>3, <1>4, <1>5, <1>6, <1>7
-----------------------------------------------------------------------------
(* Whatever the wait, the operators and the guard do next keeps the types. *)
LEMMA TypeNext == TypeOK /\ [Next]_vars => TypeOK'
<1>. SUFFICES ASSUME TypeOK, [Next]_vars PROVE TypeOK'
  OBVIOUS
<1>. DEFINE GateType == [waiting : BOOLEAN, since : {None} \cup 0..(Timeout + MaxStep)]
<1>. USE DEF TypeOK, wait_vars
<1>1. ASSUME NEW m \in host.readings, NEW refused \in BOOLEAN, Poll(m, refused)
      PROVE  TypeOK'
  <2>1. GateTypeOK'
    BY <1>1 DEF Poll, GateTypeOK, gate_vars, files_vars
  <2>2. clock' \in 0..(Timeout + MaxStep)
    BY <1>1, WaitBounds DEF Poll, KeepWaiting
  <2>3. gate' \in GateType
    BY <1>1, SampleType DEF Poll
  <2>4. outcome' \in {"polling", "admitted", "timeout", "failed"}
    BY <1>1 DEF Poll, KeepWaiting
  <2>5. log' \in Seq([at : Nat, memory : host.readings \cup {Exhausted}])
    <3>. DEFINE S == [at : Nat, memory : host.readings \cup {Exhausted}]
                e == [at |-> clock, memory |-> m]
    <3>1. e \in S /\ log \in Seq(S)
      BY WaitBounds
    <3>2. Append(log, e) \in Seq(S)
      BY <3>1
    <3>3. (log' = Append(log, e) \/ log' = log) /\ host' = host
      BY <1>1 DEF Poll
    <3>. QED  BY <3>1, <3>2, <3>3
  <2>. QED  BY <1>1, <2>1, <2>2, <2>3, <2>4, <2>5 DEF Poll
<1>2. CASE PollFails
  BY <1>2 DEF PollFails, GateTypeOK, gate_vars, files_vars
<1>3. CASE Defer
  <2>1. GateTypeOK'
    BY <1>3 DEF Defer, GateTypeOK, gate_vars, files_vars
  <2>2. deferUntil' \in 0..(Timeout + MaxStep + MaxDefer)
    BY <1>3, WaitBounds DEF Defer
  <2>. QED  BY <1>3, <2>1, <2>2 DEF Defer
<1>4. CASE Thermal
  <2>1. UNCHANGED wait_vars /\ Writers
    BY <1>4 DEF Thermal
  <2>2. GateTypeOK'
    <3>. USE <2>1 DEF GateTypeOK
    <3>1. Wall \in Int /\ clock \in Nat
      BY WaitBounds, GateAssumption DEF Wall
    <3>2. CASE SensorWrites
      BY <3>1, <3>2 DEF SensorWrites
    <3>3. CASE Configure
      BY <3>3 DEF Configure
    <3>4. CASE GuardStarts
      BY <3>4, GateAssumption DEF GuardStarts, files_vars
    <3>5. CASE GuardPass
      BY <3>1, <3>5 DEF GuardPass
    <3>6. CASE GuardEnds
      BY <3>6, GateAssumption DEF GuardEnds, files_vars
    <3>7. CASE ClockSetBack
      BY <3>7 DEF ClockSetBack, files_vars
    <3>8. CASE Suspend
      BY <3>8 DEF Suspend, files_vars
    <3>. QED  BY <3>2, <3>3, <3>4, <3>5, <3>6, <3>7, <3>8 DEF Writers
  <2>. QED  BY <2>1, <2>2
<1>5. CASE UNCHANGED vars
  BY <1>5 DEF vars, gate_vars, files_vars, GateTypeOK
<1>. QED  BY <1>1, <1>2, <1>3, <1>4, <1>5 DEF Next, Polls

(* A step that takes no sample changes nothing the gate waits for. *)
LEMMA NoSampleStep ==
  ASSUME WaitInv, UNCHANGED <<policy, recovery, gate, log>>,
         outcome' = "admitted" => outcome = "admitted" \/ policy = "ignore"
  PROVE  SinceOK' /\ PendingOK' /\ SustainedRecovery'
BY DEF WaitInv, SinceOK, PendingOK, SustainedRecovery, Resolved, Sustained

LEMMA WaitNext == WaitInv /\ [Next]_vars => WaitInv'
<1>. SUFFICES ASSUME WaitInv, [Next]_vars PROVE WaitInv'
  OBVIOUS
<1>1. TypeOK'
  BY TypeNext DEF WaitInv
<1>2. SinceOK' /\ PendingOK' /\ SustainedRecovery'
  <2>1. ASSUME NEW m \in host.readings, NEW refused \in BOOLEAN, Poll(m, refused)
        PROVE  SinceOK' /\ PendingOK' /\ SustainedRecovery'
    <3>1. CASE policy = "ignore"
      BY <2>1, <3>1, NoSampleStep DEF Poll
    <3>2. CASE policy # "ignore"
      BY <2>1, <3>2, PollSamples, SamplingStep
    <3>. QED  BY <3>1, <3>2
  <2>2. CASE PollFails
    BY <2>2, NoSampleStep DEF PollFails
  <2>3. CASE Defer
    BY <2>3, NoSampleStep DEF Defer
  <2>4. CASE Thermal
    BY <2>4, NoSampleStep DEF Thermal, wait_vars
  <2>5. CASE UNCHANGED vars
    BY <2>5, NoSampleStep DEF vars, wait_vars
  <2>. QED  BY <2>1, <2>2, <2>3, <2>4, <2>5 DEF Next, Polls
<1>. QED  BY <1>1, <1>2 DEF WaitInv

(* The verdict "none" of an enforcing guard, read in one poll. *)
LEMMA ReadyGuard ==
  ASSUME TypeOK, settings \in Enforcing, AdmissionReason = "none"
  PROVE  /\ guard # 0 /\ status.by = guard
         /\ status.settings = settings /\ status.ready
         /\ status.slept = slept \/ ~SetBackSince => PassAge <= GuardAge
<1>1. GuardReady
  BY DEF AdmissionReason, Enforcing
<1>2. /\ Wall - status.wall \in -Slack..GuardAge
      /\ clock - status.mono \in 0..GuardAge
  BY <1>1 DEF GuardReady, Heartbeat
<1>3. /\ status.wall \in Int /\ status.mono \in Nat /\ status.slept \in Nat
      /\ slept \in Nat /\ back \in Nat /\ clock \in Nat
      /\ GuardAge \in Nat /\ Slack \in Nat
  <2>1. /\ {Nap, SetBack, GuardAge, Slack} \subseteq Nat
        /\ clock \in Nat
    BY GateAssumption, WaitBounds DEF TypeOK
  <2>2. /\ status.wall \in Int /\ status.mono \in Nat /\ status.slept \in {0, Nap}
        /\ slept \in {0, Nap} /\ back \in {0, SetBack}
    BY DEF TypeOK, GateTypeOK
  <2>. QED  BY <2>1, <2>2
<1>4. status.slept = slept => PassAge <= GuardAge
  BY <1>2, <1>3 DEF PassAge
<1>5. ~SetBackSince => PassAge <= GuardAge
  BY <1>2, <1>3 DEF PassAge, SetBackSince, Wall
<1>. QED  BY <1>1, <1>4, <1>5 DEF GuardReady, GuardAlive
-----------------------------------------------------------------------------
(* The type invariant. *)
THEOREM TypeCorrect == Spec => []TypeOK
<1>1. Init => TypeOK
  BY WaitInit DEF WaitInv
<1>. QED  BY <1>1, TypeNext, PTL DEF Spec

(* After waiting nobody is admitted before memory was seen recovered for the
   whole recovery period, without a break: HeadroomGate.sample, with any
   settings, samples and times between polls. *)
THEOREM SustainedRecoveryHolds == Spec => []SustainedRecovery
<1>1. WaitInv => SustainedRecovery
  BY DEF WaitInv
<1>. QED  BY <1>1, WaitInit, WaitNext, PTL DEF Spec

(* Nobody is admitted on the word of a guard that is gone, reports on other
   settings or is late: protection_status, with any ages, naps and clocks. *)
THEOREM AdmittedGuardedHolds == Spec => AdmittedGuarded
<1>1. TypeOK /\ [Next]_vars =>
        [outcome = "polling" /\ outcome' = "admitted" /\ settings \in Enforcing =>
           /\ guard # 0 /\ status.by = guard
           /\ status.settings = settings /\ status.ready
           /\ status.slept = slept \/ ~SetBackSince => PassAge <= GuardAge]_vars
  <2>1. Next /\ outcome = "polling" /\ outcome' = "admitted" => AdmissionReason = "none"
    BY DEF Next, Polls, PollFails, Poll, KeepWaiting, Defer, Thermal, wait_vars
  <2>. QED  BY <2>1, ReadyGuard
<1>. QED  BY <1>1, TypeCorrect, PTL DEF Spec, AdmittedGuarded
=============================================================================
