------------------------------ MODULE ThermalGate ------------------------------
(***************************************************************************)
(* What thermal protection tells a job that asks to be admitted:           *)
(* admission_reason and protection_status of codex_looper/thermal.py, over *)
(* three files that others write -- the settings, the Windows sensor's     *)
(* sample and the status of the guard -- and over what happens to those:   *)
(* passes, ends, restarts and upgrades of the guard, new settings, a wall  *)
(* clock set back, a host suspended.  How a pass restrains jobs is the     *)
(* subject of ThermalGuard; here it publishes a status, ready or not.      *)
(*                                                                         *)
(* A unit is the five seconds the reader allows a stamp in the future.     *)
(* The cooling receipt, the sensor helper's version and its watchdog make  *)
(* warnings only and are left out.                                         *)
(***************************************************************************)
EXTENDS Integers

CONSTANTS
    SampleAge, GuardAge,    \* max_sample_age, guard_max_age
    Slack,                  \* a stamp may lie this much in the future
    Guards,                 \* bound: processes of the guard that publish
    Outdated,               \* of them those that run older code
    SetBack, Nap            \* bounds: the clock set back, the host suspended

ASSUME GateAssumption ==
    /\ {SampleAge, GuardAge, Slack, Guards, SetBack, Nap} \subseteq Nat
    /\ Outdated \subseteq 1..Guards

VARIABLES
    settings,      \* thermal-settings.json, as far as readers tell it apart
    sensor,        \* cpu-status.json: [at, cpu], its stamp by the wall clock
    status,        \* thermal-status.json
    guard,         \* the running guard, 0 if there is none
    clock,         \* monotonic time since the wait began
    slept, back    \* what the wall clock is ahead of and behind `clock`

files_vars == <<settings, sensor, status>>
gate_vars  == <<files_vars, guard, slept, back>>

\* Two different files that enforce: a guard may have applied only one of them.
Enforcing == {"on", "changed"}
Settings  == {"unreadable", "off"} \cup Enforcing

NoSample == [at |-> 0, cpu |-> "none"]
NoStatus == [by |-> 0, wall |-> 0, mono |-> 0, settings |-> "off", ready |-> FALSE, slept |-> 0]

\* An earlier boot's process has this boot's number 0: none is it.
EarlierBoot == [NoStatus EXCEPT !.settings = "on", !.ready = TRUE]

Wall == clock + slept - back

GateTypeOK ==
    /\ settings \in Settings
    /\ sensor \in [at : Int, cpu : {"ok", "hot", "none"}]
    /\ status \in [by : 0..Guards, wall : Int, mono : Nat, settings : Settings,
                   ready : BOOLEAN, slept : {0, Nap}]    \* slept: history
    /\ guard \in 0..Guards /\ slept \in {0, Nap} /\ back \in {0, SetBack}

GateInit ==
    /\ settings \in Settings /\ sensor = NoSample
    /\ status \in {NoStatus, EarlierBoot} /\ guard = 0
    /\ slept = 0 /\ back = 0
-----------------------------------------------------------------------------
(* The reader.                                                             *)

\* read_temperature
Sampled == sensor.cpu # "none" /\ Wall - sensor.at \in -Slack..SampleAge

\* Heartbeat with a bug: the stamp of the wall clock is thought to be enough.
Heartbeat_Fault == Wall - status.wall \in -Slack..GuardAge

Heartbeat == /\ Wall - status.wall \in -Slack..GuardAge
             /\ clock - status.mono \in 0..GuardAge

\* guard_alive: the pid of the status, its start and this boot.
GuardAlive == status.by # 0 /\ status.by = guard

GuardReady ==
    /\ status.by \notin Outdated
    /\ Heartbeat /\ GuardAlive
    /\ status.settings = settings
    /\ status.ready

\* admission_reason; `settings` could be read.
AdmissionReason ==
    IF settings = "off" THEN "none"
    ELSE IF ~Sampled THEN "sensor"
    ELSE IF ~GuardReady THEN "guard"
    ELSE IF sensor.cpu = "hot" THEN "hot" ELSE "none"
-----------------------------------------------------------------------------
(* The writers.                                                            *)

SensorWrites ==
    /\ \E cpu \in {"ok", "hot"} : sensor' = [at |-> Wall, cpu |-> cpu]
    /\ UNCHANGED <<settings, status, guard, slept, back>>

Configure ==
    /\ settings' \in Settings \ {settings}
    /\ UNCHANGED <<sensor, status, guard, slept, back>>

\* A guard that never published left no trace: its number is used again.
GuardStarts ==
    /\ guard = 0 /\ status.by < Guards /\ guard' = status.by + 1
    /\ UNCHANGED <<files_vars, slept, back>>

\* A pass under the settings of its beginning, complete or with issues.
GuardPass ==
    /\ guard # 0 /\ settings # "unreadable"
    /\ \E ready \in BOOLEAN :
          status' = [by |-> guard, wall |-> Wall, mono |-> clock, settings |-> settings,
                     ready |-> ready, slept |-> slept]
    /\ UNCHANGED <<settings, sensor, guard, slept, back>>

\* It is stopped or killed, or cannot read its settings.
GuardEnds ==
    /\ guard # 0 /\ guard' = 0
    /\ UNCHANGED <<files_vars, slept, back>>

ClockSetBack ==
    /\ back = 0 /\ back' = SetBack
    /\ UNCHANGED <<files_vars, guard, slept>>

Suspend ==
    /\ slept = 0 /\ slept' = Nap
    /\ UNCHANGED <<files_vars, guard, back>>

Writers == SensorWrites \/ Configure \/ GuardStarts \/ GuardPass \/ GuardEnds
           \/ ClockSetBack \/ Suspend
=============================================================================
