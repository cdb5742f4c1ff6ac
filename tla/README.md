# A TLA+ model of OpenFlight's core

OpenFlight (Flight Hub) reads flight controls, transforms their axes on a 250 Hz
real-time thread, drives force feedback, and connects to simulators and panels.
This project models the parts in which an ordering, a crash or a fault can do
harm that a unit test hardly reaches. Each module is written from the Rust
source; `PROJECT.json` maps every definition to the lines it stands for, lists
the runs, the deliberately broken variants ("Mutant" definitions) each property
must catch, the hazards, and the theorems.

## 1. Inventory

### Parts, state and operations

| Part (crate) | State | Operations that change it |
|---|---|---|
| SPSC ring (`flight-scheduler/src/ring.rs`) | slots, `head`, `tail`, three counters | `try_push`, `try_pop`, `reset_stats` |
| Scheduler (`executor.rs`, `pll.rs`, `timer.rs`) | phase error, jitter statistics | tick, PLL correction |
| Axis engine (`flight-axis/src/engine.rs`) | active and pending pipeline, capability context, conflict detector, each behind a lock; swap and ack counters | `process` (RT thread), `update_pipeline`, `set_capability_mode`, readers, `detect_conflicts_now`, `clear_curve_conflicts`, `reset_counters` |
| Axis pipeline (`compiler.rs`, `nodes.rs`, ...) | node state in f32 | per-frame evaluation |
| Interlock (`flight-ffb/src/interlock.rs`) | open challenge, satisfaction and its time, rolling counters | `generate_challenge`, `validate_response`, `reset` (and `set_required`, which nothing calls) |
| Force-feedback engine (`flight-ffb/src/lib.rs`, `fault.rs`, `soft_stop.rs`, `audio.rs`, `device_health.rs`) | safety state, bounded fault history, ramp, cue rate limit, stall and wedge detectors, health latch | enable/disable high torque, fault reports and detectors, soft stop, `update`, three recoveries |
| Update rollback (`flight-updater/src/rollback.rs`) | install dir, backups, journal on disk; in-memory state | `apply_update`, `recover_on_startup`, `cleanup_backup` |
| Capability service (`flight-service/src/capability_service.rs`) | global mode, per-axis overrides, registered engines | `set_capability_mode` for all or named axes, `register_axis`, `unregister_axis` |
| Service (`orchestrator.rs`, `safe_mode.rs`, `shutdown_coordinator.rs`, ...) | component states, phases | start, stop, degrade, restart |
| Auto-switch service (`flight-service/src/aircraft_auto_switch_service.rs`, `flight-process-detection`) | detected processes, one adapter slot and task per simulator, the service channel, the aircraft seen last | process and bus monitors, adapter tasks, the event loop, `stop` |
| Profile switcher (`flight-session/src/lib.rs`) | request channel, active aircraft and profile, profile cache, phase tracker | detection, forced switch, cache invalidation, telemetry |
| Watchdog (`flight-watchdog`), circuit breaker (`flight-core`) | failure windows, quarantine status | record, check, `attempt_recovery` |
| Bus (`flight-bus`) | subscribers with bounded channels, rate limiter | `publish`, `subscribe` |
| Session store (`flight-session/src/crash_recovery.rs`, `store.rs`) | lock file, journal, saved state | acquire, append, save, inspect |
| Profiles, rules, writers, IPC, HID, adapters, drivers, UI | parsed data, connections | parsing, conversion, I/O |

### How the parts interact

The scheduler calls `AxisEngine::process` on the RT thread. Clients (IPC
handlers, auto-switch, capability service) call the same engine from other
threads; the four locks are all they share. RT data leaves through SPSC rings.
The force-feedback engine owns its interlock, detectors, ramp and cue system and
is called from one thread; device health, USB results and user actions are its
inputs. The auto-switch service turns processes and snapshots into detected
aircraft, which it hands to the profile switcher; the capability service sets the
modes of many axis engines. The updater talks to the next run of the program through the disk only.

### Hard behaviours and what makes each part correct

* Ring: relaxed and acquire/release accesses with an `unsafe` slot; correct if
  the two unsafe accesses never meet and the ring is a FIFO that never makes the
  producer wait.
* Axis engine: a swap in two locks with a `try` in front; correct if the newest
  update always gets in, an acknowledgment means what clients take it for, no
  circle of locks stops `process`, and the clamp follows the mode.
* Interlock and force feedback: long sequences of legal calls, early returns in
  the fault path, timers; correct if high torque needs a fresh answer and a fault
  always takes the torque down for good.
* Auto-switch service: five kinds of tasks, two of which scan processes into one
  map, a lock held across joins, late reports; correct if adapters and tasks follow
  the processes, no task is doubled or abandoned, `stop` returns, and the
  aircraft an adapter task keeps reporting is announced.
* Profile switcher: files read one by one while they are saved, a cache with an
  expiry, counts and times that decide a phase; correct if edits take effect and
  the phase neither flickers nor sticks.
* Capability service: the same modes kept in two places and written under a read
  lock; correct if the two agree when nothing is under way.
* Updater: crash or I/O failure between any two file operations; correct if what
  was installed is never lost.

## 2. Plan

1. `SpscRing` and `BoundedFifo` (done, with proofs).
2. `Interlock`, and `FfbEngine`, which composes it with the engine (done, with
   proofs).
3. `RwLocks`, `PipelineSlot`, and `AxisEngine` (done, with proofs).
4. `UpdateRollback` (done, with proofs).
5. `AutoSwitchService` (done, with proofs), the process detector included, and
   `ProfileSwitch`, the consumer of its detections (done, with proofs).
6. `CapabilityService` (done, with proofs).
7. `Watchdog`: quarantine and recovery per component, with the circuit breaker;
   properties: a quarantined component is not re-admitted before its recovery
   period, a healthy one eventually is. Bounds: 2 components, windows of 3 ticks.
   Then the orchestrator's dependency-ordered start and stop.

Theorems: every invariant and every action property or refinement of the
passing runs is proved (section 5). What is left is liveness, which stays with
TLC, and whatever the modules of step 7 will promise.

## 3. Modules

### SpscRing, BoundedFifo

One action per atomic access: `PushCall`, `PushLoad`, `PushDrop`/`PushWrite`,
`PushPublish`, `PushCount`, and the same for `try_pop`; `reset_stats` is a third
actor with one step per counter. An acquire load may return any value the index
had since the same thread's last load: `pLag` and `cLag` count the stores of the
other side each thread may have missed. The counters are modelled sequentially
consistent, modulo `CounterMod`. `BoundedFifo` is the abstract queue of
`Capacity - 1` items, with `Contents` as the refinement mapping: the slots from
`tail` to `head`, less the one already taken. It refuses the new item when it is
full, which is what the code does and not what the architecture overview says;
`OldestIsDiscarded` states that sentence and has a violation run of its own.

### Interlock, FfbEngine

`Interlock` has the operations as action operators over its own variables.
Instants are ages in ticks that stop one past the time-out they are compared
with. `FfbEngine` instantiates them, as the engine owns its interlock, and adds
two history variables: `authorized`, and `spent`, one accepted answer of the last
`Period` challenges. Which one is remembered is a free choice, so that what holds
of it holds of every one; it is forgotten when both counters have come round and
its numbers are used again. Because `process_fault` is a chain of calls that may each return early
with an error, it is a function from engine record to `[eng, ok]`, and its callers
use `ok` where the code uses `?`. Cue errors are returned only in builds without
`cfg(test)`; the constant `CueErrorsAbort` says which build is meant. A fault in
the history is only its class, which is all that `clear_fault` asks for.

### RwLocks, PipelineSlot, AxisEngine

`RwLocks` is parking_lot's reader-writer lock as the engine uses it (external): a
waiting writer blocks new readers. The RT thread is at one of nine points of
`process`, each client at one point of one call. Pipelines are numbered in the
order stored and compute any output in {0.5, 0.8, 1.0} of full scale.
`PipelineSlot` is the abstract promise: an update is stored, and the newest one,
only, is installed.

### UpdateRollback

The disk is the install directory, one directory per backup second, and the last
journal line; the rest is the manager's call in progress. A directory is a
function from names to versions, with `Garbled` for a write cut short. Journal
appends succeed, fail, or leave a torn line after which the journal never parses
again (`Torn`). Crashes may come anywhere and spoil the file or line being
written. The clock never goes back, and data once written survives.

### AutoSwitchService

The processes, their aircraft and the bus are the environment. Each task is a
control point: the detector's loop between taking a process list and writing it,
the monitors, one record per adapter task, the event loop (idle, joining the task
of a lost simulator, ended) and `stop` (called, joining). An event whose handler
waits for the adapters lock stays at the head of the channel. Steps without an
`await` or a lock in between are one action: the bus monitor's drain and send, the
body of a poll's branch. A scan writes one simulator at a time: `scanLoop.left` are
those the detector's loop has still to write, and it may overwrite any of them
between the monitor's own scan and its reading of the map. `AircraftFollows` is
about simulators with an adapter task: if the process runs on with one aircraft,
its task never fails to start, and either its telemetry is streamed or nothing is
on the bus, then the profile switcher is told that aircraft in the end and for
good, or `stop` was called. A simulator whose adapter is only a marker depends on
the bus, of which nothing is promised. `open`, connections less disconnections, is what
`adapter_metrics` counts; `told` is what the profile switcher was told last.

### ProfileSwitch

Requests go through the channel in order; each of the three files of a profile is
read in a step of its own, while `BeginSave` and `EndSave` make a file unreadable
for a while. A profile is the version read of each layer and the simulator whose
file it is from. The phase tracker counts frames as `update_pof_with_hysteresis`
does; telemetry enters as the phase computed from it. `floor` and `streak` are
history variables: what an invalidation promises and what telemetry showed.

### CapabilityService

Each thread is at one point of `set_capability_mode`, `register_axis` or
`unregister_axis`, with the engines lock (`readers`, `writer`) and the overrides
lock (`holder`). Engines are set one by one. `solo` and `tangled` are history
variables: which call has been alone since its start, and whether a call for all
axes has overlapped another since one last ran alone. What a mode does to an
engine's output is `AxisEngine`.

## 4. Runs

| Run | Checks | Shows |
|---|---|---|
| `ring` | `TypeOK`, `ExclusiveSlot`, `NoLossNoHole`, `StatsAccount`, `RefinesFifo`, `ItemsAreDelivered` | the ring is a FIFO, its unsafe accesses are exclusive, and a polling consumer gets everything |
| `ring_doc_oldest` (violation) | `OldestIsDiscarded` | a full ring refuses the new item, where the architecture overview has the oldest unread one discarded |
| `ffb` | `TypeOK`, `NoReplay`, `FaultedIsExplained`, `FreshAuthorization`, `TorqueOnlyFalls`, `RampStartsAtTorque`, `SoftStopCompletes`, `HealthFaultReasserts` | an answer is good once; faults take authorization and torque away, from the torque of that moment, and keep them away |
| `ffb_doc_critical` (violation) | `CriticalBlocksHighTorque` | after over-temperature, `clear_emergency_stop` opens the way to high torque without the power cycle the requirements ask for |
| `ffb_doc_ramp` (violation) | `FaultStartsRamp` | a fault within 100 ms of a cue returns before the soft stop starts |
| `axis` | `TypeOK`, `AckConfirms`, `LimitHolds`, `RefinesSlot`, `LatestUpdateWins`, `ProcessReturns` | updates, acknowledgments, clamping and absence of deadlock |
| `updater` | `TypeOK`, `BackupSurvives`, `RollbackRestores`, `CompleteMeansInstalled`, `IncompleteIsResolved` | a completed backup stays available and is what comes back; journals are resolved |
| `updater_doc_rollback` (violation) | `RollbackRevertsUpdate` | a crash while the backup is copied makes the next startup replace an intact installation by the partial copy |
| `autoswitch` | `TypeOK`, `OwnedTasks`, `AdapterIsAccounted`, `OneTaskPerSim`, `AdapterFollowsProcess`, `StopCompletes`, `AircraftFollows` | adapters follow processes, tasks are neither doubled nor abandoned, `stop` returns, the aircraft an adapter task keeps reporting is announced |
| `session` | `TypeOK`, `InvalidationHolds`, `EditsTakeEffect`, `PhaseNeedsFrames`, `PhaseAdopted` | an invalidation reaches loads under way, edits take effect when the cache expires, the phase needs its frames and then changes |
| `session_doc_sim` (violation) | `ProfileMatchesSim` | the cache is keyed by the aircraft alone: the same aircraft in another simulator gets the first one's profile |
| `capability` | `TypeOK`, `QuiescentAgreement`, `CallsReturn` | service and engines agree when nothing is under way, unless a call for all axes overlapped another; no call is stuck |

The violation runs show disagreements between the code and a sentence of its
documentation; `findings` in `PROJECT.json` quotes each sentence.

### Bounds

* `ring`: 4 slots (a power of two, as the code requires; 2 would make full and
  "one item" the same), 2 items so that order is visible, counters modulo 3 so
  that they wrap.
* `ffb`: ramp and cue interval of 2 ticks (a fault can fall inside, at and after
  each), two stalls, a history of one entry so that the bound is always met, four
  reported faults, one for each way a fault is treated. The zero time-outs let
  an answer or a challenge expire at the next tick. Two identifiers and two tokens
  besides zero make both counters wrap all the time, with a common period of two.
  The invariants were also checked once with three tokens and a period of six, where
  neither counter alone tells the challenges apart (2,049,360 states).
* `axis`: 2 clients, 3 updates (one active, one staged, one pending), two modes.
  Three clients exceed the time available with liveness.
* `updater`: 2 files so that a copy can be half done, 2 updates, 2 seconds so that
  backups share a directory or not, 1 kept backup so that cleanup acts, 3 crashes
  or failures (a failure, one while rolling it back, one in the next startup).

* `autoswitch`: one simulator whose adapter is a task that forwards telemetry (the
  kind with the most to go wrong), two aircraft, one event in the channel before
  senders wait. Checked once beside it: all properties with one aircraft and two
  events, and without streamed telemetry in both sizes; the safety properties with
  two aircraft and two events (1,017,660 states); the accounting invariant of
  section 5 with two simulators. The theorems cover any finite number of
  simulators of every kind.
* `session`: one simulator and the forced one, one aircraft, one edit of the global
  file, two phases, an expiry of 2 ticks, 2 frames and 1 tick of minimum phase
  time, so that the frames can be complete before and after the time is. The
  violation run has two simulators.
* `capability`: two threads, two axes, two modes: two calls can overlap, one axis
  can differ from the other, and a registration can wait for both kinds of call.

### Fairness

* `ring`: no fairness in the specification. `ItemsAreDelivered` assumes only that the consumer keeps polling and
  that a store becomes visible in finite time (strong fairness of a fresh load).
* `ffb`: time passes, the main loop calls `update` and polls the health stream
  (weak fairness); nothing is assumed of readings, users or faults.
* `axis`: the RT loop is called for every frame (weak fairness); a client inside a
  call continues (strong fairness, since parking_lot's locks are eventually fair);
  nobody has to begin a call.
* `updater`: a running call goes on, a program that is down is started again and
  one that is ready is ended some day (weak fairness). Crashes and failures are
  bounded, so they cease.
* `autoswitch`: every task of the runtime goes on, with strong fairness where the
  model's bound on the channel or a lock can disable a step again and again (sends
  never wait in the code, tokio's lock is first come, first served, `select` picks
  at random among ready branches). Nobody has to start, exit, load an aircraft,
  publish on the bus or call `stop`.
* `session`: time passes, the loop goes on and a save that was begun ends (weak
  fairness); `PhaseAdopted` has the repetition of telemetry as its premise.
* `capability`: a thread inside a call goes on (strong fairness, since locks are
  passed on); nobody has to call.

## 5. Proofs

All theorems hold for every value of the constants within the named assumptions.

* `SpscRing_proofs`: `TypeCorrect`, `SlotExclusion`, `NothingLost`, `RingIsFifo`
  (`RefinesFifo`), `CountersAccount` (`StatsAccount`). Assumptions:
  the capacity is a power of two and at least 2, the counter modulus positive. Invariant: `Room`
  (what each side knows of the other's index, old as it may be, errs on the safe
  side), `Occupied` (a slot holds an item exactly when it lies between `tail` and
  `head`), `Pending`. Neither exclusion nor no-loss is inductive alone: the full
  and empty tests are made on old values, and only `Room` says how old they may be.
  The refinement adds `InHands` (what each side holds between its atomic accesses)
  and `QueueShape` (where the items of the abstract queue are): publishing appends,
  taking an item out of its slot removes the head of the queue, the refusals refuse,
  and every other step stutters. The counters need `Balanced`: they wrap, so their
  difference is the occupancy only up to a multiple of their modulus.
* `FfbEngine_proofs`: `TypeCorrect`, `AuthorizationIsFresh`, `FaultsAreExplained`,
  `FaultedTorqueFalls`, `RampsStartAtTorque` (`RampStartsAtTorque`),
  `AnswersAreSpent` (`NoReplay`). Assumption `FfbAssumption`. Invariant: a satisfied
  interlock stands for a fresh authorization except while the engine is faulted,
  and every way out of that state resets the interlock; the ramp never shows less
  torque than its line at its age, which makes each `update` go down; a faulted
  engine has a non-empty history. One lemma per step of the fault path
  (`RecordFaultLemma`, `SoftStopLemma`, `ProcessFaultLemma`), then one step per
  action. The type invariant bounds the history and the stall count, which a fault
  resets; the model counts a ramp's age to one past its limit, from where all ages
  behave alike. That a health report with two faults starts one ramp follows from
  the first of them: when it returns Ok its ramp has just begun, and the second
  finds it running. For the answers the invariant is `Counted` (the two wrapping
  counters tell how many challenges ago the remembered answer was) and `Newest` (an
  open challenge carries the counters' present numbers and is younger than that
  answer). `FfbAssumption` has `Period` no longer than the common period of the two
  counters, 2^64 identifiers and 2^32 - 1 tokens in the code; after that the pairs
  repeat and the statement is false.
* `AxisEngine_proofs`: `TypeCorrect`, `AckIsTrustworthy`, `LimitsHold`
  (`LimitHolds`), `UpdatesRefineSlot`. Assumption
  `AxisAssumption`. Invariant: the pending lock is the RT thread's from taking a
  pipeline to counting the swap (`PendingHeld`), and the newest update is in
  exactly one place, unacknowledged until it is active (`LastUpdate`). The clamp
  needs `LimitInv`: the capability context is written only under its lock, which
  nobody holds for writing while a calm frame is processed. The bound on versions
  needs `Counted`: the clients about to store are finitely many and within it.
* `AutoSwitchService_proofs`: `TypeCorrect`, `TasksAreOwned` (`OwnedTasks`),
  `TasksAreSingle` (`OneTaskPerSim`), `AdaptersAreAccounted`
  (`AdapterIsAccounted`). Assumption `ServiceAssumption`; that the simulators are
  finitely many is the code's `SimulatorType`, an enum. Invariant: `OwnedTasks` with
  `StopLocks`, which ties the lock to the phase in which `stop` joins. From it
  follows `AllInSlots`: whenever the event loop can take the lock, every live task
  is in its slot, so what it spawns or stops is never somebody else's. The
  accounting adds `ChannelAgrees`: for each simulator the process events still in
  the channel, read in order, lead from what the event loop believes to what the
  monitor saw last, so no event is repeated and none is missing;
  `WithinConnection` and `Departing` then say that an adapter exists only within a
  connection, and that a loss under way has taken the adapter out of its slot.
* `CapabilityService_proofs`: `TypeCorrect`, `ModesAgree` (`QuiescentAgreement`).
  Assumption `CapabilityAssumption`. Invariant: `Inside` (locks and control points
  agree), `Alone` (outside a tangle a call for all axes has been alone), `Progress`
  (how far a lone call has come: this is what makes it repair earlier tangles),
  `InHand` and `Agreement` (the engine between `SetAxis` and `InsertOverride` is the
  only one that may differ).
* `ProfileSwitch_proofs`: `TypeCorrect`, `PhasesNeedFrames` (`PhaseNeedsFrames`),
  `InvalidationsHold` (`InvalidationHolds`). Assumption `SwitchAssumption`.
  Invariants: `CandidateIsSeen` (the frames a candidate phase counts were seen in a
  row) for the first; `Promises` for the second: what an invalidation in the
  channel or already processed promises has been saved (`Requests`, `Floors`), and
  cached profiles and the files read so far keep it (`CacheIsFresh`,
  `LoadIsFresh`). A load under way keeps it because the loop processes no
  invalidation while it reads files. `TypeInv` adds to the types that a save that
  was begun has room for its version and that a load under way knows its simulator
  and aircraft.
* `UpdateRollback_proofs`: `TypeCorrect`, `BackupsSurvive` (`BackupSurvives`),
  `RollbacksRestore` (`RollbackRestores`), `CompleteIsInstalled`
  (`CompleteMeansInstalled`), for any files, any number of updates, crashes and
  failures. Assumptions `UpdateAssumption` (at least one backup is kept) and
  `NoDirAssumption` (an absent directory is not an empty one). Invariant: `Ordered`
  (no backup is newer than the clock, and one is the newest), `Backing`,
  `Installing` and `Restoring` (how far a copy has come and what is already equal
  to its source; the backup in use is the newest), `Kept` (once complete, the
  newest backup holds what the update found) and `Settled` (nothing is installed
  between a rollback or a completed update and the next call). `BackupSurvives` is
  not inductive alone: cleanup keeps the newest backups, so that the one in use is
  kept follows only from its being the newest.

Only model-checked: the liveness properties, beyond this prover
(`ItemsAreDelivered`, `SoftStopCompletes`, `HealthFaultReasserts`,
`LatestUpdateWins`, `ProcessReturns`, `IncompleteIsResolved`,
`AdapterFollowsProcess`, `StopCompletes`, `AircraftFollows`, `EditsTakeEffect`,
`PhaseAdopted`, `CallsReturn`). The violation runs are refutations: their
counterexamples are the result.

## 6. Not modelled

Floating-point transformations (axis nodes, effects, PLL), operating-system
calls, decoding of simulator and device protocols, IPC transport, user
interfaces and test kits: sequential or pure I/O. `PROJECT.json` lists each part
with its reason, and the planned ones as such. Inside the modelled parts:

* weak memory beyond old acquire loads; the statistics counters of the ring and
  of the axis engine are sequentially consistent;
* what the conflict detector and the blackbox hold;
* `backup_current_version` and `restore_backup` called on their own, nested
  directories, loss of written data on a power cut, a clock that is set back.

Observations made while modelling that no run is about: `process` waits for clients
that read the active pipeline, where the architecture overview
(`docs/reference/architecture-overview.md`, 53) says that the RT spine never
blocks (`engine.rs:354`); the bus monitor keeps only the newest snapshot, so of two
publishing simulators one may never have its aircraft announced
(`aircraft_auto_switch_service.rs:823`); the `BusPublisher` it subscribes to is
only held by the service (`service.rs:561`), while adapters publish on their own
ones; an unsupported or disabled simulator is
counted as connected; an adapter whose socket fails keeps its slot; a
`ProcessDetected` queued before the `Shutdown` starts an adapter after `stop_all`;
a failed profile load is not tried again for the same aircraft; after an
invalidation the active profile stays until another aircraft is detected;
`frames_required = 1` still needs two frames (`flight-session/src/lib.rs:1172`), and for larger N the code
and its unit test (`lib.rs:1716`) need N calls where `session_integration.rs` (344,
609) speaks of N + 1; `set_required`, which nothing calls, would leave the
interlock satisfied without an answer when turned off and on again
(`interlock.rs:290`); overlapping calls of `set_capability_mode` for all axes may
leave the mode on record and the enforced one different
(`capability_service.rs:428`); `clear_fault` asks only the newest fault whether it is
critical (`lib.rs:1044`); `emergency_stop` returns an error in a release build
whenever its own cue delays the ramp's (`lib.rs:623`), after having stopped; a
temperature warning hides an over-current (`device_health.rs:372`); NaN passes
the capability clamp (`engine.rs:373`); frames pass unclamped while a writer is
in the capability context (`engine.rs:368`); pipeline versions are not unique
(`engine.rs:415`); a failed rollback is journalled as terminal and a torn journal
line disables recovery for good (`rollback.rs:735`, `rollback.rs:563`), and so does
a torn line in the session's journal (`crash_recovery.rs:199`);
`process_device_health` returns at the first error, so that the second of two
simultaneous faults is not recorded (`flight-ffb/src/lib.rs:1333`); backups sort by
wall-clock time, so a clock that is set back makes an older one the latest
(`rollback.rs:764`).
