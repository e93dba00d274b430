# A verification project for agent-cli-farm

agent-cli-farm keeps a farm of coding-agent conversations (Codex, Claude,
Gemini) running in tmux: it saves and restores them, drives them in loops,
admits batch jobs against the machine's memory, supervises each job's payload,
caps the CPU of hot machines and repairs itself after crashes. Nearly all of it
is cooperating processes that share files under locks, so nearly everything
that can go wrong is an order of steps that no unit test writes down. This
directory holds TLA+ models of those processes, the TLC runs that check them
and proofs for instances of any size.

## 1. Inventory

Implementation: `codex_looper/` (13.1k lines of Python), `bin/` (9.7k lines of
Bash and Python), `integrations/`, `tools/thermal-windows/` and `setup.sh`.

| Component | State it keeps | Operations | Interacts with | What makes it correct |
|---|---|---|---|---|
| Job admission (`resource_jobs.py` JobStore, admit) | one JSON record per job, a private flock | create, cleanup, reserve, launch, settle, restart | other supervisors through the store, /proc identities, the thermal guard's capacity | declared limits and memory promises hold for every order of lock sections; live records stay; waiters get in |
| Supervision (`resource_jobs.py` main, inner_main, handle_restart) | the record, a marker, a restart request, the child's process group | launch in or out of a scope, handshake, wait, terminate and relaunch | systemd, operator, incident worker, other clients' cleanup | the payload runs once, or twice with consent, never twice at a time; an honest final status, also over a failing store |
| Admission wait (`admit`, `HeadroomGate`, `admission_reason`) | recovery timer, deadlines, deferrals | poll | /proc/meminfo, PSI, incident worker, the guard's status and the sensor's sample | recovery was continuous; the guard behind the verdict is alive and recent; the wait ends |
| Thermal guard (`thermal.py`) | rollback journal, in-memory entries, status | tick, release, command release | job store, systemd quotas, operator, sensor | every limit it set can be rolled back; it loosens no operator's limit it could know of |
| Incident scheduling (`resource_incidents.py`, `resource_investigator.py`, `health.py`) | pressure since when, cooldown stamp, a private lock | sample, check, launch a detached worker, ask a model | monitor, operators, provider CLI | one investigation at a time, one per cooldown, the lock comes free |
| Incident actions (`resource_incidents.py`) | reports, journals, overrides in the job store | diagnose, act with consent, roll back | job store, operators | results are honest through every interruption; no action without consent; restarts last; own overrides are taken back |
| Looper run (`runner.py`, `process.py`, `retry.py`) | state.json, the control file, sessions, streaks of four breakers | start an attempt, read its output, retry, stop, end | agent process, operators' commands and signals | stops are obeyed within one attempt, a safety code is final, breakers open exactly, one conversation, an agent that is left behind is accounted for |
| Looper control (`control.py`, `control_panel.py`, `status_state.py`) | control.jsonl, operator notes | queue a stop, signal, force, repair, paste a note | the supervisor and its agent through pids, the agent's pane | a state that says "stopped" is right; nothing is signalled by mistake |
| Hybrid assessment (`hybrid.py`, `tmux.py`) | the pane, the session file, offsets in it | start, discover, send, poll, reset | provider TUI, operator notes | a turn is called complete only when it is, and then at once; safety errors are seen |
| Host configuration (`bin/codex-resource-host`) | a root journal with a phase, edited files | apply, verify, remove, recover | kernel and systemd settings | from every crash, apply or remove ends with all or none of the edits |
| Farm manifest (`bin/codex-save`, `bin/codex-manifest.py`) | manifest, history, capture receipt, a flock per manifest | capture, publish, prune, repair | tmux panes that come and go | no saved conversation is lost; the receipt tells the truth |
| Farm restore (`bin/codex-restore`, `bin/codex-resume`, startup recovery) | restore receipt | validate, check other farms, launch | tmux, other farms, writer locks of Codex | no conversation is launched twice; a force restore destroys nothing it cannot recreate |
| Backup (`bin/codex-backup`, `recovery.py`) | archives, receipts, latest.json | snapshot, verify, publish, prune | the live store, managed jobs | latest.json names a verified archive |
| Conversation identity (session hook, shared sessions) | tmux pane options | record, resolve | panes, provider processes | a stale identity is never used |
| Health, reports, status line, doctor, setup | snapshots of the above | read and print | all | presentation: not modelled |

Hard behaviours: several supervisors, clients and monitors interleave through
files (each access is a read-modify-write under a lock, everything between two
accesses is open to the others); processes die at any point and are told apart
only through /proc; systemd and tmux calls fail or time out after having had
their effect; operators change quotas, panes and control files at will.
`PROJECT.json` lists every hazard at its line with the properties that cover it.

## 2. Modules

```
PayloadContract <--- implements --- JobSupervisor     one payload, all steps
                                      JobSupervisorProofs
JobAdmission  <- MCJobAdmission, JobAdmissionProofs   many jobs, one store
ThermalGate   <- AdmissionWait                        one wait, all samples,
                   MCAdmissionWait, AdmissionWaitProofs   a guard that comes and goes
JobSupervisor, MCAdmissionWait <- MCJobRun            both in one run
ThermalGuard  <- MCThermalGuard, ThermalGuardProofs   one guard, many scopes
FarmManifest  <- FarmManifestProofs                   one farm, all its saves
Investigations <- MCInvestigations,                   who investigates, and when
                    InvestigationsProofs
Incidents     <- MCIncidents, IncidentsProofs         one worker's remedies
AgentOutput   <- LooperRun <- LooperControl           a run and its clients
                   MCLooperControl, LooperProofs
AgentOutput   <- HybridTurn <- LooperProofs           prompts to an interactive agent
FarmManifest, HybridTurn <- MCPanes                   both in one run
```

The parts are joined by naming the same events: `JobAdmission!Admit` is the end
of an `AdmissionWait`, and what it does to one record is what
`JobSupervisor!Admit` does; `Incidents` is the "apply" point of an
`Investigations` worker, makes the deferrals `AdmissionWait` obeys and the
restart requests `JobSupervisor` serves; `JobSupervisor` opens up the
supervisor that `JobAdmission` folds into one action per lock section;
`ThermalGuard!Launch` and `Finish` are the launch and cleanup of the other two,
and its published status is what `ThermalGate` reads. Composing them in one
state space would multiply what never interferes. Where parts do interfere they
share a state space: a wait with the guard it asks, a looper with its clients,
an operator's note with the prompts of the controller, the monitor with its
worker. `MCJobRun` and `MCPanes` check two modules each in one run without
joining them: every behaviour is one of the one or one of the other.

**JobAdmission.** `rec[j]` is the stored record (status, which child the two
pid fields name, restart budget), `pc[j]` the point of the supervisor's main(),
`sup`/`child` the processes as /proc shows them (live, unreadable, zombie,
gone), `phase` how far inner_main got, `scoped` the local of main(). Each lock
section is one action: `Cleanup` (the first half of create), `Create`, `Admit`
(reserve_admission), `RecordLaunch`, `Register`, `Settle`, `Requeue`;
`Popen`, `Exec`, `Reap`, `ChildExit`, `Crash`, `Hide` are the process events
between them. Which thermal and memory verdict a poll sees is open. `kept` is a
history variable: the reservation has been counted since it was made.

**PayloadContract / JobSupervisor.** The contract says what the user of a job
may rely on: the payload runs once, a second time only with consent that is
then spent, never two at a time. `JobSupervisor` has every step of one
supervisor: choice of scope, launch, handshake (identity, scope check, marker,
exec), wait, restart request, termination of the group with its grace scans,
relaunch, fallback and settlement, with a crash, a descendant that leaves the
group, another client's cleanup and a failing store at any point. `_wait` polls
the child and then looks for a request in two steps, and the calls of its
`except` branch may fail as well: main() then returns 2 ("error") without
waiting for its child. The identity write that `_launch` forgives is the one
failure that changes nothing.

**ThermalGate / AdmissionWait.** `ThermalGate` is what a reader makes of three
files others write: the settings, the sensor's sample and the status of the
guard, which carries two clocks, a process identity, the settings of its pass
and a code version. Their writers are actions, and so are ends, restarts and
upgrades of the guard, a wall clock set back and a host suspended.
`AdmissionWait` is the polling loop over it, with the recovery timer of
HeadroomGate, deferrals and refusals. A poll is one step.

**ThermalGuard.** A pass of the controller is cut at its manager calls: read
the quota, persist the rollback entry, set the quota, publish. Temperatures are
the levels the code tells apart. Operators set quotas at every moment, between
the reading and the setting of one too. `setBy` and `late` are history
variables: who set a quota last, and whether an operator did since the guard
read it. `Hosts` are the environments considered, chosen in the first state.

**FarmManifest.** A pane shows a conversation or none that can be verified.
`op` is the process that holds the lock of the manifest, with its locals; its
`pc` walks through capture and the durable steps of publish, repair and prune,
so that a crash can fall between any two. A manifest is the set of its
conversations and a flag for rows without a command. The history is the set of
snapshots: an equal one keeps its first file, and since file names are wall
clock times, which of them count as newest is open. `owed` is a history
variable: what the panes showed at the last check of the capture. The
environment's retention choice is made when record_capture reads it.

**Investigations.** investigator.lock is a flock of an open file description:
`holders` are the processes with a copy of it, and it is free when there are
none. The monitor samples pressure, takes the lock, checks the cooldown,
records the start and hands its copy to a detached worker; an operator's
`codex-resource investigate` takes the same lock; either goes through report,
model calls with a deadline, apply and save, and may fail, time out, be
refused or be killed at every point. Wall time is real time less what the clock
was set back. `started` is a history variable.

**Incidents.** The worker from the validated answer to the returned result. `pc`
is its point in apply_actions, in _investigate or in one of their three
handlers of errors; `res` the list of results, which the journal record and the
report share; `todo` the overrides a rollback has still to visit. A write that
fails may be durable or not, and so may an override whose id did not come
back. WorkerTimeout and KeyboardInterrupt go from each point to the handler
that Python would run, also out of a handler; CleanupTimeout ends everything.
`made` and `late` are history variables: what really took place, and how often
since consent was withdrawn. The ways of being rejected are one status.

**AgentOutput.** One line of an agent's output as the records of its facts
(a structured safety code, a rate limit, a session id, an error word) and what
ProcessResult keeps of it: the first reason to stop, which a safety code
replaces, and the session.

**LooperRun / LooperControl.** `pc` is the point of run_loop between two
accesses to what it shares: the control file, state.json, the agent's process
group. A test with several outcomes is one action per outcome; exceptions that
leave run_loop write nothing. `child` is the leader of the agent's group, which
run_command waits for; a SIGINT cancels run_command without awaiting it and
leaves the agent to itself, and so does a failure to record its pids. `count`
are the streaks of the completion marker and the three other breakers; the
delays of retries may end at any time, an agent's lines are the facts of
`AgentOutput`. `LooperControl` adds one client at a time: append a command,
load state.json, check the pid, repair or signal, terminate, kill, with
everything else between its steps. History: `since` counts attempts (loops)
begun since a command was appended, `home` the conversation that worked on the
prompts so far, `past` which conditions the last loops met, `unsafe` that a
safety code was read. A configuration that `dies` may lose its supervisor to
SIGKILL at any point.

**HybridTurn.** Controller, agent, display and operator move independently. The
controller starts a pane, waits for it, discovers the session file (by lsof or
by age), remembers its offset, pastes and enters the prompt, then captures the
pane, reads the file and assesses both, in this order and in steps of its own.
The agent reads its input line, works on turns (a message entered meanwhile
joins the turn) and appends lines that may be seen half written; the display
follows it late; files of earlier panes stay. An operator's note goes through
the same input line by commands nothing keeps apart from the controller's.
`finished` and `due` are history variables.

Faults: an operator `X_Fault` (or `X_...` named for its mistake) stands directly
before `X` and describes a plausible mistake in the code `X` translates. No
specification uses it; each property is confirmed to fail when `X` is replaced
by it, so every property depends on the code it is about.

## 3. Runs

| Run | Instance | Shows |
|---|---|---|
| JobAdmission_safety | 3 jobs, limits 1/2/2, requests 0/4/4 of 8, one crash, one unreadable child, one scope | SlotLimit, FirstLaunchLimit, MemoryPromise |
| JobAdmission_relaunch | 2 jobs, one slot, one restart | a finding (section 6) |
| JobAdmission_live | 2 scoped jobs, a guard that can restrain one, crashes, a restart, an unwritable identity, a mandatory scope | GuardCapacity, LiveRecordsRemain, EventuallyAdmitted |
| JobRun | AdmissionWait with boundary memory readings and deferrals, or with a guard of two processes, one of older code, a clock set back, a nap; or JobSupervisor with every option | continuous recovery, nobody admitted on a stale verdict, the wait ends; the contract (refinement), final status, handover, termination |
| ThermalGuard | one job, one restart, failures, crashes, operators below, above and at the share; a pruned record; two jobs sharing a budget of 4 with an operator's limit 3 | limits can be rolled back, operators' limits the guard could know of survive, a healthy pass is within budget, everything is released again |
| ThermalGuard_tighten | two jobs, failing manager calls | a finding (section 6) |
| ThermalGuard_window | one job, a manager that works, an operator with a stronger limit | a finding (section 6) |
| Panes | FarmManifest with two panes, two conversations, three operations, retention off or 1; or HybridTurn with seven configurations of Codex and Claude: retries, half-written lines, fresh panes without lsof, notes | what replaces a restore point retains it, only a manual save drops, receipts cover the farm; done means finished, safety first, completion is noticed at once |
| Investigations | one operator and one worker, a cooldown of 3 units, two model calls, the clock set back by 4 | one investigation at a time, one per cooldown, the lock comes free |
| Incidents | every remedy of one job, or a deferral and a restart of two; one timeout, one keyboard interrupt, one end of grace, death | honest results, consent, restarts last, rollback, the grace is final |
| LooperControl | ten configurations: every signal of the agent, three ways of keeping sessions, dry run, each stop command, force and death, four breakers, local errors that read like a quota | stops within one attempt, safety is final, exact breakers, one conversation, a true "stopped", agents accounted for, a stop ends the run |
| LooperControl_quota | a quota and a busy provider, one transient retry | a finding (section 6) |

**Bounds.** Three jobs are enough for one stronger and two weaker limits in
every order, and for a promise that only the sum of two breaks; with two every
pairwise race of cleanup against reservation or launch occurs. A job restarts
at most once in the code, so `restarts \in {0, 1}` is no bound. In
JobAdmission_live two supervisors suffice, since one slot and one remedy are
what they compete for; JobSupervisor needs no bound. `MaxGen` bounds the
generations of a scope for the same reason. `MaxStep` and the thresholds of
AdmissionWait are scaled so that each comparison sees both sides and equality;
the guard is combined with the policy that waits for nothing else. In
ThermalGate a unit is the five seconds a stamp may lie in the future; `Guards`
bounds the processes that publish (one of older code, one of current code),
`SetBack` and `Nap` are larger than every age compared, once each. FarmManifest
starts from nothing or from a malformed manifest; three operations are one to
damage, one to save and one to meet the result, and two conversations are
enough for equal counts with different members. Conversations and panes are
interchangeable, hence the symmetry. Restart polling is not bounded. An answer
of three actions holds every pair of remedies of a job that can depend on one
another, and a second job tells whose refusal counts; the deadline and the end
of the grace come once in the code, and one keyboard interrupt on top of them
reaches every handler from within another. In Investigations a unit is 30 s:
pressure sustains in 2, a gap of more than 2 breaks it, the cooldown is 3 (15
minutes scaled down, still longer than any sustained pressure), `Horizon` 6
holds two cooldowns and `SetBack` 4 is more than one. In LooperRun `Window`
bounds the thresholds of breakers, `Tokens` the processes and conversations
told apart at a time, and counters stop growing where no comparison can tell
them apart any more; loops themselves are unbounded where the configuration
says so. A stop command is given once each. In HybridTurn `Attempts` bounds the
prompts, and a configuration's `sends` its own: two are one that is retried or
followed, three add one after that. Lines seen half written are combined with
two prompts, notes too: each concerns one prompt and the next.

**Type invariants.** Every module of a system part states its `TypeOK`. All of
them are proved (section 4), so the runs spend their invariants on the rest.

**Fairness.** A supervisor is a loop that polls (weak fairness on its own
steps), and children end: the code puts no bound on a payload's run time, so
`EventuallyAdmitted` and `Ends` are conditional on payloads that end. No
fairness is given to requests, crashes, operators or the weather. The wait
polls (weak fairness); deferrals and writers of the thermal files need not
stop. The guard ticks as long as systemd keeps it running (weak fairness on its
pass); `LimitsReleased` asks for hosts whose manager answers. In Investigations
the monitor and the processes take their steps, and bounded_run has a deadline,
so a model that never answers is no exception; nothing makes ticks, operators
or deaths happen. The looper's supervisor goes on by itself (its sleeps end,
its attempt has a timeout); agents need not end and clients need not finish.
FarmManifest and HybridTurn have no fairness: `CompletionNoticed` is about the
very next poll. JobRun takes the fairness of both its modules.

## 4. Proofs

For every value of the constants; what each theorem rests on, in the order of
the modules.

`JobAdmissionProofs`, for every set of jobs, limit, request, cohort and option
set: `TypeCorrect`; `SlotLimitHolds`, where SlotLimit is inductive together
with the type invariant and `KeptCounted` (what the history variable keeps, the
code still counts), and `ReservationSteps` is the core: a step either lets
reservations disappear or adds a single one, granted under the lock; the grant
(`SlotFree`) compares the peers with every limit declared among them;
`GuardCapacityHolds`, by the same lemma; `FirstLaunchLimitHolds`, about running
payloads instead of reservations. The invariant `LaunchOK` says that during a
first launch the recorded identities name the living child or nobody; so no
cleanup relabels the record (`CleanupSparesLaunch`), the reservation is kept
and SlotLimit counts it. It is exactly what a restart breaks: a re-queued
record names the dead launcher (section 6). `MemoryPromiseHolds`: the one job
that is admitted is admitted against the sum of all that count, and everybody
else's promise was within a reading before. The sum is over a set of any finite
size, so what MapThenSumSet adds up (`AddsUnique`, `AddsExists`,
`TotalUnfolds`) is proved by induction over the set of its subsets: a theorem
that takes an operator cannot be used. `LiveRecordsRemainHolds` rests on
`RegisteredNamed`, a registered child is named by its record, and
`OnlyCleanupDeletes`.

`JobSupervisorProofs`: `HonoursContractHolds`, that the supervisor implements
PayloadContract, and `NoOverlapHolds`, `FinalStatusHolds`, `TypeCorrect`. The
errors of _wait are steps like the others there: a rejected restart that cannot
be recorded ends main() with the payload running and the record active, and a
recorded rejection is the one way a payload that ended with 0 is "failed".
`CountInv` says at each point how many
executions are behind: as many as restarts charged while the next is still
ahead, one more otherwise. The marker decides which of the two holds once a
child is gone, and is cleared only when a restart was charged. `GroupInv` says
when no known member of an earlier attempt can be alive, `AttemptInv` that a
first launch, a restart and a fallback are all there is. `ContractNext` maps an
execution, the end of one and a charged restart to the steps of the contract
and all else to stuttering.

`AdmissionWaitProofs`: `SustainedRecoveryHolds`, from an invariant that relates
the gate to the samples it took: it waits while an exhausted sample is
unresolved, and since its timer started every sample was healthy.
`AdmittedGuardedHolds` is an argument about one poll: of two heartbeats by
different clocks at least one shows the true age unless the clock was set back
and the host slept in between.

`ThermalGuardProofs`, for any number of jobs, any budget and any host. `OwnInv`
relates the five places that name a limit: the scope, the journal, the
controller's copy of it, the call in hand and the operator. An entry's limit is
a share and lower than what it replaced (`LowersOK`), the copy has nothing the
journal lacks (`CopyOK`), a scope that shows an entry's limit got it from the
guard or from an operator who chose the same (`OwnOK`), and the call in hand was
decided by what was read, unless an operator has acted since (`CallOK`).
`NeverOverKnownLimitHolds` follows; what happens to those who act in between is
a finding (section 6). `HealthyMeansCappedHolds` adds `CappedOK`: jobs
the pass has been through are within a share, and shares add up to no more than
the budget. `LimitsJournalledHolds` adds `RollbackOK`: with one job there is one
limit only, so a second tightening cannot happen, and with a manager whose
calls do not fail what was journalled is set. Those are the two premises of
LimitsJournalled; without them it is false (section 6).

`FarmManifestProofs`, for all sets of conversations and panes, any history, any
retention and any number of operations. `OnlyManualDropsHolds` from
`NothingDropped`: between the comparison and the write the manifest is still the
one compared, and what is about to be written has what its kind of save may not
give up. `PredecessorRetainedHolds` from `Retained`: what is about to be replaced
is in the history already. `CoverageHoldsAlways` follows the conversations from
the last check of a capture into what was found or left unresolved
(`CaptureOK`, `SavedOK`), into the manifest or the snapshot beside it
(`ContentOK`), to the receipt (`ReceiptOK`); a crash may fall between any two.

`InvestigationsProofs`, for any number of operators and workers and any clock.
The lock belongs to whoever has a copy of its open file, so `HoldersHold` says
who has one at which point: a process at work and no other, and the monitor
shares its copy with nobody but the one worker it launched;
`OneInvestigatorHolds` is then immediate. `StartsApartHolds` needs what a wall
clock is worth that is set back at will (`ApartInv`): it never shows more time
since the stamp than has passed, so a check that passes proves a cooldown in
real time, and a stamp from the future only makes starts rarer.

`IncidentsProofs` proves all that the run of Incidents checks, for any set of
answers and any number of keyboard interrupts. `HonestHolds` needs the largest
invariant: a status names what is known of the effect (`ResultOK`), only the
current action can be in between (`CursorOK`), and what journal and report
wrote off stays written off (`Kept`); `Forward` says what no step may do to an
action that is over. `RestartLastHolds` follows with `OrderOK`,
`AtMostOneLateHolds` with `ConsentOK`, `OwnRolledBackHolds` with `RolledOK` (what
went wrong is found out before the rollback that visits it), and
`GraceIsFinalHolds` with `OverEnded`.

`LooperProofs` proves the six safety properties of the looper and its clients
for all configurations, sizes and numbers of loops, from one invariant each
that says, point by point of run_loop, what is known there: `StopInv` (a
command read is obeyed at the next boundary, one not read is at most one
attempt old), `SafetyInv` (a safety code seen is in the result that ends the
run), `EndInv` (where an agent may run, with a supervisor or left behind, and
which final states can still be overwritten: none but by a client whose copy was
stale and whose supervisor is gone; `AgentAccountedHolds` and
`StoppedMeansStoppedHolds` follow), `ConvInv` (the known session is the
conversation at work), `LimitInv` (the streak counters are the streaks of the
last loops; `BreakersExactHolds`).

Its second half is about hybrid turns, for any number of prompts, panes, lines
and notes. `HybridTypesHold` includes which files, lines and offsets a
controller can hold at which point. `SafetyFirstHolds` from `ReadInv`: the path is
the file of the pane, and the stop reason is that of the lines between the
offset and the last read. `DoneMeansFinishedHolds` needs what a turn in a file
means: one that ended is finished for all whose message it had (`TurnInv`), no
turn is newer than the last prompt entered (`AgeInv`), and what begins after the
offset is the turn of the prompt, unless a note had a turn of its own
(`AfterInv`). `CompletionNoticedHolds`, also for Claude: turns follow one another
in a file and keep their order (`OrderInv`), the prompt's turn stands after the
offset (`OffsetInv`), and once it is due all that the assessment looks for has
been written (`DueInv`).

Types: `TypeCorrect` of the modules above, `IncidentTypes`, `ControlTypesHold`
(LooperRun with LooperControl) and `HybridTypesHold`.

**Assumptions.** The named ones of the modules, which TLC evaluates in every
run: finitely many jobs, natural numbers, readings that are unusable or
numbers, a client's requests that are valid actions. They are types; none says
how anybody behaves.

**Only model-checked.** Liveness, since fairness and ENABLED are out of the
prover's reach: EventuallyAdmitted, Ends, Decides, LimitsReleased, LockComesFree
and StopEndsRun. Every safety invariant and action property of a passing run is
proved. Of the four findings of section 6 two have a theorem about when they do
not arise: SlotsHonoured for first launches (`FirstLaunchLimitHolds`),
LimitsJournalled with one job or a manager that works. NeverRestoresOver is
NeverOverKnownLimit without its exceptions, and TransientLimit has no theorem.

## 5. Plan

Next modules, one passing run each: `ResourceHost` (the phases of the root
journal over the edited files, a crash between any two), the checks of restore
against other farms, `Backup` (snapshot, receipt, latest.json, pruning). For the
existing ones: two captures at a time when the lock-run parent is killed alone
(FarmManifest), an operator's quota on a restarted job's new scope
(ThermalGuard). Theorems worth having: those of the new modules, all-or-nothing of
ResourceHost first; that `JobSupervisor` makes each step on its record that
`JobAdmission` folds into one action.

## 6. Findings

Runs that end in a counterexample, each against a sentence of the repository:

* **JobAdmission_relaunch / SlotsHonoured** (`resource_jobs.py:928`). A restart
  re-queues the record with the identity of the dead launcher still in it.
  Until the new one is stored, any other client's cleanup() relabels the
  re-admitted record "stale"; its slot is given away and two payloads run with
  `--max-parallel 1`.
* **ThermalGuard_tighten / LimitsJournalled** (`thermal.py:734`). A second
  tightening overwrites `applied_us` before the quota is set. If that call
  fails, release() finds its own earlier limit, takes it for an operator's,
  and forgets it.
* **ThermalGuard_window / NeverRestoresOver** (`thermal.py:603`). release()
  reads the quota at 596 and restores the original at 603; an operator's limit
  set in between is lost, although docs/resource-reliability.md:89 says the guard
  "never restores over a later operator limit". The same window stands between
  the reading at 700 and the setting at 743, where a stronger limit is raised to
  the share. NeverOverKnownLimit excepts both, and only these (`late`), and a
  limit that equals the guard's.
* **LooperControl_quota / TransientLimit** (`runner.py:789`). Waits for a quota
  count in retry_count, which transient_retry_limit_reached (`retry.py:212`)
  compares as soon as a failure is of another kind: after
  `max_transient_retries` waits the first transient error ends the run, although
  docs/looper.md:302 says rate-limit retries are uncapped and the others capped.

Observations met while modelling, without a run of their own.

Jobs and thermal protection:

* A payload that outlives its supervisor loses its reservation at the next
  create() by anyone (`resource_jobs.py:643` relabels it "stale", which
  reserve_admission does not count), although docs/resource-reliability.md:76
  says reservations remain for orphans.
* A fast child of a mandatory scope is refused as if its scope were missing
  because the supervisor has not stored the launcher yet (`:1020`, `:1179`).
* A restart request whose validation races the payload's own exit makes _wait
  report a failure for a payload that ended with 0 (`:1205`): FinalStatus excepts
  it. If the request cannot be removed or the failure not be stored (`:1207`,
  `:1209`), the exception leaves _wait and main() returns 2 with a batch payload
  that may be running, its record active and nobody to reap it.
* After a consented restart the guard leaves the new scope uncapped and reports
  "operator CPU change preserved" (`thermal.py:716`).
* An entry whose job record was pruned is kept for ever, since release() cannot
  read the record any more (`thermal.py:593`). LimitsReleased is about records
  that remain.
* The guard recognizes its limit by value (`thermal.py:599`): an operator who
  sets exactly the share the guard would set has it rolled back at release
  as the guard's own.
* The sensor's sample carries a wall stamp only: after the clock was set back an
  old one is accepted for as long as it was set back. The guard's heartbeat is
  checked by two clocks; a host that slept while its clock was set back hides
  the age from both. An unreadable thermal-settings.json ends the guard (systemd
  restarts it) and every waiting batch job. The verdict is read at the beginning
  of a poll, while the store's lock may be awaited after it: a poll is one step
  in the model, seconds in the code.

Saves and incidents:

* An autosave that preserves the old manifest records `complete: true` for it,
  although a live conversation is then only in the history
  (`codex-manifest.py:432`; docs/resource-reliability.md:16 calls it complete
  pane coverage). CoverageHolds therefore counts the history.
* With retention on, the snapshot announced as "Current farm archived at ..."
  or a predecessor with an old name may be pruned by the same save:
  CoverageHolds fails without `~pruned`.
* A TUI that switches its conversation within one process during the capture is
  not seen by the final list of panes and processes (`codex-save:867`).
* A timeout that hits the rollback after worse readings is swallowed there
  (`resource_incidents.py:176`): what is left is reported as unavailable and not
  tried again. OwnRolledBack therefore asks for an attempt or that word, not
  for the removal.
* A second interrupt inside the last handlers leaves _investigate
  (`resource_incidents.py:526`): the overrides stay until their TTL and the
  report keeps no action results; the journal has them.
* A WorkerTimeout between Popen and the `try` of bounded_run, or a SIGKILL of
  the worker, leaves the model's process (a session of its own) running while
  the lock is free. An OSError of the last report skips the retention of
  journals until the next investigation. The monitor's `now` is read at the
  start of the tick, seconds before the lock. last_notice of HealthMonitor.tick
  is not protected against a clock set back, and a notice that is due while no
  session is listed counts as given.

Looper:

* A supervisor that is interrupted leaves its agent running:
  await_with_focus_updates (`runner.py:190`) cancels run_command without awaiting
  it, and asyncio.run cancels it once more inside its `finally`
  (`process.py:228`), so that neither the group nor the transport is seen to. The
  agent is the recorded one, which is what AgentAccounted asks for.
* If the state cannot be written when the agent has started, on_process_started
  raises before the `try` (`process.py:134`): the agent runs on, named nowhere
  (the exception in AgentAccounted). Also a repaired copy that is written late
  may name an older process.
* The `finally` of run_command terminates the group only if the streams have not
  ended within a second (`process.py:231`): what the agent left in its group with
  other streams stays.
* The text of a timeout or of a reader's error is classified like an agent's
  words: a timeout of 429 seconds is retried as a quota.
* docs/looper.md:349 says `--force` then attempts to repair a stale state;
  control_main repairs only before it signals, and a supervisor that is
  terminated leaves state.json "running". With a stale state nothing is
  signalled, although the agent's process group may still run.
* repair_stale_state_file loads an active state, the supervisor records its
  final one and exits before the pid is checked, and the repaired copy
  overwrites it ("external termination"). StoppedMeansStopped holds, the reason
  is lost.
* A child started after a client loaded state.json is not among its targets, and
  a SIGTERM while the supervisor ends an attempt (up to 10 s, the grace is 5 s)
  orphans it.
* A dry run of two prompts for codex, claude or gemini raises
  CommandTemplateError (docs/looper.md:122), so does a Claude retry before a
  session id was reported (docs/looper.md:300); ConfigError,
  CommandTemplateError and KeyboardInterrupt leave state.json active.
* A stop queued while a retry is waited for is obeyed after one more attempt
  only (StopWithinOne is exact).

Hybrid turns and notes:

* Events written between a turn's last read and the stat() of the next prompt
  are skipped, a late safety error among them; so are those behind a half
  line at a timeout.
* A Codex prompt that joins an older turn has no task_started of its own and
  waits for the timeout, as documented; if the TUI queues instead, a queued
  duplicate's completion may be taken for the next prompt's.
* Claude's reader does not go back for half lines, reads the file twice, accepts
  READY with an assistant event that has no stop_reason, and without lsof picks
  the newest session file of any Claude on the host. Codex may pick, and keep,
  another conversation begun in the same directory at the same time. That is why
  DoneMeansFinished and SafetyFirst are stated for Codex.
* Hybrid turns run in a thread: after SIGINT the process lingers until run_turn
  returns. hybrid_pane_id is recorded only after a turn.
* Notes are pasted without anything that keeps them apart from prompts: a note
  with a turn of its own between a prompt's offset and its Enter is taken for
  the prompt's completion, and in a persistent pane every later prompt is then
  reported one turn ahead (the exception in DoneMeansFinished, found by TLC). A
  note that fails at its Enter stays in the line and goes out with the next
  prompt; one reported "delivered" may be dropped by a TUI that is starting.

## 7. Not modelled

Formatting, argument parsing, installers, reports and the panel; the parsing of
rollouts, transcripts and hook payloads; the patterns matched in texts and pane
contents (their verdicts are inputs); real time beyond the comparisons the code
makes; foreign conversations in a hybrid pane's directory; the choice among
several panes for a note; host configuration, restore and backups, which are in
the plan. The components table of `PROJECT.json` gives each reason.
