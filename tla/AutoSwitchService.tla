-------------------------- MODULE AutoSwitchService --------------------------
(***************************************************************************)
(* The aircraft auto-switch service                                        *)
(* (crates/flight-service/src/aircraft_auto_switch_service.rs) with the    *)
(* process detector it polls (crates/flight-process-detection/src/lib.rs). *)
(*                                                                         *)
(* Five kinds of tasks run concurrently: the detector's own scan loop, the *)
(* process monitor, the bus monitor, one adapter task per simulator, and   *)
(* the event loop, which alone starts and stops adapters and reads one     *)
(* unbounded channel that all the others write to.  stop() runs in the     *)
(* caller's task.                                                          *)
(*                                                                         *)
(* A process is running or not (a restart between two scans is visible to  *)
(* nobody), an aircraft is its ICAO code, None for an empty one.  Left     *)
(* out: the phase-of-flight half of a telemetry update, which goes to      *)
(* ProfileSwitch; what adapter_metrics records and no task reads           *)
(* (AdapterState, errors, times, confidences), and with it AdapterError;   *)
(* a failed process scan, which changes nothing.                           *)
(***************************************************************************)
EXTENDS Integers, Sequences, FiniteSets

LOCAL INSTANCE SequencesExt

CONSTANTS
    TaskSims,    \* simulators whose enabled adapter is a task (X-Plane, DCS,
                 \* Ace Combat 7)
    Streaming,   \* those of them that forward telemetry (Ace Combat 7)
    PlainSims,   \* simulators whose enabled adapter is a marker (MSFS, Wingman)
    OtherSims,   \* simulators that are disabled or have no adapter
    Aircraft,
    None,        \* no aircraft, no snapshot
    MaxQueue     \* bound on the channel, see Room

Sims == TaskSims \cup PlainSims \cup OtherSims

ASSUME ServiceAssumption ==
    /\ Streaming \subseteq TaskSims
    /\ TaskSims \cap PlainSims = {}
    /\ (TaskSims \cup PlainSims) \cap OtherSims = {}
    /\ None \notin Aircraft \cup Sims
    /\ MaxQueue \in Nat \ {0}
    /\ IsFiniteSet(Sims)

VARIABLES
    running,     \* simulators whose process runs
    plane,       \* [Sims -> aircraft loaded there]
    scanLoop,    \* [pc, list, left]: the detector's own loop, the process list
                 \* it has taken, and the simulators whose entry in
                 \* detected_processes it has still to write
    monitor,     \* start_process_monitoring: "running" or "ended"
    last,        \* its last_processes
    bus,         \* the newest snapshot in the subscriber's buffer, or None
    busMonitor,  \* start_bus_monitoring: "running" or "ended"
    queue,       \* the service channel
    loop,        \* [pc, sim]: the event loop
    tracked,     \* its last_aircraft_per_sim
    open,        \* [Sims -> connections - disconnections], of adapter_metrics
    told,        \* [Sims -> what AircraftAutoSwitch was told last since the
                 \* process was lost]
    slot,        \* simulators whose SimAdapters field is Some
    task,        \* [TaskSims -> [pc, last, seen, shutdown]]: adapter tasks
    locked,      \* stop() holds the adapters lock
    stop         \* [pc, joining, asked]: stop(), the tasks it waits for, and
                 \* whether the detector has been asked to stop

world == <<running, plane>>
monitorVars == <<monitor, last>>
busVars == <<bus, busMonitor>>
loopVars == <<loop, tracked, open, told>>
stopVars == <<locked, stop>>
vars == <<world, scanLoop, monitorVars, busVars, queue, loopVars, slot, task,
          stopVars>>

Planes == Aircraft \cup {None}
Snapshot(s, a) == [sim |-> s, ac |-> a]
Snapshots == [sim : Sims, ac : Planes]

\* ServiceEvent
Event(type, s, a) == [type |-> type, sim |-> s, ac |-> a]
EventTypes == {"ProcessDetected", "ProcessLost", "AircraftDetected",
               "TelemetryUpdate", "Shutdown"}
Shutdown == Event("Shutdown", None, None)

\* The task of an adapter that was never started or has ended.
NoTask == [pc |-> "none", last |-> None, seen |-> None, shutdown |-> FALSE]
Alive(s) == task[s].pc # "none"

\* The event loop has dropped its receiver: every send fails.
Closed == loop.pc = "ended"

\* The channel is unbounded; the bound is the model's (see Fairness).
Room == Len(queue) < MaxQueue

\* The detector's own loop between two scans, or at its end.
NotScanning(p) == [pc |-> p, list |-> {}, left |-> {}]

Init ==
    /\ running = {} /\ plane = [s \in Sims |-> None]
    /\ scanLoop = NotScanning("idle")
    /\ monitor = "running" /\ last = {}
    /\ bus = None /\ busMonitor = "running"
    /\ queue = <<>>
    /\ loop = [pc |-> "idle", sim |-> None]
    /\ tracked = [s \in Sims |-> None]
    /\ open = [s \in Sims |-> 0]
    /\ told = [s \in Sims |-> None]
    /\ slot = {}
    /\ task = [s \in TaskSims |-> NoTask]
    /\ locked = FALSE
    /\ stop = [pc |-> "idle", joining |-> {}, asked |-> FALSE]

-----------------------------------------------------------------------------
(* The simulators and the bus, outside this service *)

StartSim(s) ==
    /\ s \notin running
    /\ running' = running \cup {s}
    /\ UNCHANGED <<plane, scanLoop, monitorVars, busVars, queue, loopVars,
                   slot, task, stopVars>>

ExitSim(s) ==
    /\ s \in running
    /\ running' = running \ {s}
    /\ plane' = [plane EXCEPT ![s] = None]
    /\ UNCHANGED <<scanLoop, monitorVars, busVars, queue, loopVars, slot,
                   task, stopVars>>

LoadAircraft(s, a) ==
    /\ s \in running /\ plane[s] # a
    /\ plane' = [plane EXCEPT ![s] = a]
    /\ UNCHANGED <<running, scanLoop, monitorVars, busVars, queue, loopVars,
                   slot, task, stopVars>>

\* Somebody publishes on the bus that start() was given, and the snapshot
\* reaches the subscriber's buffer; nobody has to.  One that the bus refuses
\* (rate limit, full buffer) or that names no aircraft is as good as none.
Publish(s) ==
    /\ s \in running /\ plane[s] # None
    /\ bus' = Snapshot(s, plane[s])
    /\ UNCHANGED <<world, scanLoop, monitorVars, busMonitor, queue, loopVars,
                   slot, task, stopVars>>

-----------------------------------------------------------------------------
(* ProcessDetector and start_process_monitoring.  scan_processes lists the *)
(* processes first and writes detected_processes afterwards, simulator by  *)
(* simulator.  Two tasks scan: the detector's own loop and the monitor,    *)
(* which alone reads the map, and only after a scan of its own.  What it   *)
(* reads of a simulator is therefore in its own list or, if the loop's     *)
(* write of that entry comes in between, in the loop's older one.          *)

ScanLoopList ==
    /\ scanLoop.pc = "idle"
    /\ scanLoop' = [pc |-> "listed", list |-> running, left |-> Sims]
    /\ UNCHANGED <<world, monitorVars, busVars, queue, loopVars, slot, task,
                   stopVars>>

\* The rest of the writes, if the monitor overwrites them before it reads.
ScanLoopWrite ==
    /\ scanLoop.pc = "listed"
    /\ scanLoop' = NotScanning("idle")
    /\ UNCHANGED <<world, monitorVars, busVars, queue, loopVars, slot, task,
                   stopVars>>

\* The select of ProcessDetector::start receives the shutdown.
ScanLoopEnd ==
    /\ scanLoop.pc = "idle" /\ stop.asked
    /\ scanLoop' = NotScanning("ended")
    /\ UNCHANGED <<world, monitorVars, busVars, queue, loopVars, slot, task,
                   stopVars>>

\* The events of one type for simulators S, in the order of a map's keys.
Events(type, S) ==
    {[i \in DOMAIN q |-> Event(type, q[i], None)] : q \in SetToSeqs(S)}

\* Mutant: every process of the scan is reported, known or not.
MonitorReportsForgets(current) ==
    /\ \E new \in Events("ProcessDetected", current),
          lost \in Events("ProcessLost", last \ current) :
             queue' = queue \o new \o lost
    /\ last' = current

\* Mutant: every simulator that is not in the scan is reported lost.
MonitorReportsAbsent(current) ==
    /\ \E new \in Events("ProcessDetected", current \ last),
          lost \in Events("ProcessLost", Sims \ current) :
             queue' = queue \o new \o lost
    /\ last' = current

\* Mutant: processes that ended are not looked for.
MonitorReportsStarts(current) ==
    /\ \E new \in Events("ProcessDetected", current \ last) :
             queue' = queue \o new
    /\ last' = last \cup current

\* What changed since the last report, given what the map holds.
MonitorReports(current) ==
    /\ \E new \in Events("ProcessDetected", current \ last),
          lost \in Events("ProcessLost", last \ current) :
             queue' = queue \o new \o lost
    /\ last' = current

MonitorScan ==
    /\ monitor = "running" /\ ~Closed /\ Room
    /\ MonitorReports(running)
    /\ UNCHANGED <<world, scanLoop, monitor, busVars, loopVars, slot, task,
                   stopVars>>

\* The detector's own loop writes some entries after the monitor's scan and
\* before the monitor reads the map.
MonitorScanOverwritten(written) ==
    /\ monitor = "running" /\ ~Closed /\ Room
    /\ written # {}
    /\ MonitorReports((running \ written) \cup (scanLoop.list \cap written))
    /\ scanLoop' = IF written = scanLoop.left THEN NotScanning("idle")
                   ELSE [scanLoop EXCEPT !.left = @ \ written]
    /\ UNCHANGED <<world, monitor, busVars, loopVars, slot, task, stopVars>>

\* The channel is found closed, by is_closed() or by a failing send.
MonitorEnd ==
    /\ monitor = "running" /\ Closed
    /\ monitor' = "ended"
    /\ UNCHANGED <<world, scanLoop, last, busVars, queue, loopVars, slot,
                   task, stopVars>>

-----------------------------------------------------------------------------
(* start_bus_monitoring *)

\* The subscriber is drained and only its newest snapshot is sent; nothing is
\* awaited in between.
BusPoll ==
    /\ busMonitor = "running" /\ ~Closed /\ Room
    /\ bus # None
    /\ queue' = Append(queue, Event("TelemetryUpdate", bus.sim, bus.ac))
    /\ bus' = None
    /\ UNCHANGED <<world, scanLoop, monitorVars, busMonitor, loopVars, slot,
                   task, stopVars>>

BusEnd ==
    /\ busMonitor = "running" /\ Closed
    /\ busMonitor' = "ended"
    /\ UNCHANGED <<world, scanLoop, monitorVars, bus, queue, loopVars, slot,
                   task, stopVars>>

-----------------------------------------------------------------------------
(* The adapter tasks: spawn_xplane_adapter_task, spawn_dcs_adapter_task and *)
(* spawn_ac7_adapter_task                                                   *)

\* The task goes on at p, with what it reported last and what it has read.
GoesOn(s, p, reported, read) ==
    task' = [task EXCEPT ![s] = [pc |-> p, last |-> reported, seen |-> read,
                                 shutdown |-> task[s].shutdown]]

Ends(s) == task' = [task EXCEPT ![s] = NoTask]

taskUnchanged == <<world, scanLoop, monitorVars, busVars, loopVars, slot,
                   stopVars>>

TaskStarted(s) ==
    /\ task[s].pc = "starting"
    /\ GoesOn(s, "polling", None, None)
    /\ UNCHANGED <<queue, taskUnchanged>>

\* The socket cannot be opened: the task returns, and its adapter stays in
\* its slot.
TaskStartFails(s) ==
    /\ task[s].pc = "starting"
    /\ Ends(s)
    /\ UNCHANGED <<queue, taskUnchanged>>

\* A poll that names an aircraft; any other leaves everything as it is.  The
\* bound on the channel is applied here: a report must not wait for the event
\* loop, which may be waiting for this task.
TaskPoll(s) ==
    /\ task[s].pc = "polling" /\ Room
    /\ s \in running /\ plane[s] # None
    /\ GoesOn(s, "reporting", task[s].last, plane[s])
    /\ UNCHANGED <<queue, taskUnchanged>>

\* What a task sends about aircraft a: its telemetry if it forwards it, then
\* the aircraft if it is a new one.
Reports(s, a) ==
    (IF s \in Streaming THEN <<Event("TelemetryUpdate", s, a)>> ELSE <<>>)
    \o (IF task[s].last # a THEN <<Event("AircraftDetected", s, a)>> ELSE <<>>)

\* The body of the poll's branch is not interrupted by a shutdown: what it
\* read may be sent after the process was lost.
TaskReport(s) ==
    /\ task[s].pc = "reporting" /\ ~Closed
    /\ queue' = queue \o Reports(s, task[s].seen)
    /\ GoesOn(s, "polling", task[s].seen, None)
    /\ UNCHANGED taskUnchanged

\* A send that fails ends the task; one that has nothing to send goes on.
TaskSendFails(s) ==
    /\ task[s].pc = "reporting" /\ Closed
    /\ IF Reports(s, task[s].seen) # <<>> THEN Ends(s)
       ELSE GoesOn(s, "polling", task[s].last, None)
    /\ UNCHANGED <<queue, taskUnchanged>>

\* The other branch of the select.
TaskShutdown(s) ==
    /\ task[s].pc = "polling" /\ task[s].shutdown
    /\ Ends(s)
    /\ UNCHANGED <<queue, taskUnchanged>>

-----------------------------------------------------------------------------
(* The event loop of start().  An event whose handler waits for the        *)
(* adapters lock stays at the head of the channel until the lock is free.  *)

Receives(type) == loop.pc = "idle" /\ queue # <<>> /\ Head(queue).type = type

loopUnchanged == <<world, scanLoop, monitorVars, busVars, stopVars>>

NewTask == [NoTask EXCEPT !.pc = "starting"]

\* handle_process_detected creates the adapter unless there is one.
Spawn(s) ==
    /\ slot' = IF s \in OtherSims THEN slot ELSE slot \cup {s}
    /\ task' = [t \in TaskSims |->
                  IF t = s /\ s \notin slot THEN NewTask ELSE task[t]]

\* ProcessDetected: the connection is counted also without an adapter.
LoopDetected ==
    /\ Receives("ProcessDetected") /\ ~locked
    /\ Spawn(Head(queue).sim)
    /\ open' = [open EXCEPT ![Head(queue).sim] = @ + 1]
    /\ queue' = Tail(queue)
    /\ UNCHANGED <<loopUnchanged, loop, tracked, told>>

\* ProcessLost: handle_process_lost empties the slot under the lock, releases
\* it and tells the task, if there is one, to stop.
LoopLost ==
    /\ Receives("ProcessLost") /\ ~locked
    /\ LET s == Head(queue).sim
       IN  /\ slot' = slot \ {s}
           /\ task' = [t \in TaskSims |->
                         IF t = s /\ s \in slot /\ Alive(s)
                           THEN [task[s] EXCEPT !.shutdown = TRUE] ELSE task[t]]
           /\ loop' = [pc |-> IF s \in slot \cap TaskSims THEN "joining"
                              ELSE "lost", sim |-> s]
    /\ queue' = Tail(queue)
    /\ UNCHANGED <<loopUnchanged, tracked, open, told>>

\* Mutant: the task is told to stop and not waited for.
LoopStoppedAtOnce ==
    /\ loop.pc \in {"joining", "lost"}
    /\ open' = [open EXCEPT ![loop.sim] = @ - 1]
    /\ tracked' = [tracked EXCEPT ![loop.sim] = None]
    /\ told' = [told EXCEPT ![loop.sim] = None]
    /\ loop' = [pc |-> "idle", sim |-> None]
    /\ UNCHANGED <<loopUnchanged, queue, slot, task>>

\* XPlaneAdapter::stop and its like await the task's handle; then comes the
\* rest of ProcessLost.
LoopStopped ==
    /\ \/ loop.pc = "lost"
       \/ loop.pc = "joining" /\ ~Alive(loop.sim)
    /\ open' = [open EXCEPT ![loop.sim] = @ - 1]
    /\ tracked' = [tracked EXCEPT ![loop.sim] = None]
    /\ told' = [told EXCEPT ![loop.sim] = None]
    /\ loop' = [pc |-> "idle", sim |-> None]
    /\ UNCHANGED <<loopUnchanged, queue, slot, task>>

\* Mutant: an aircraft that is already on record is not passed on.
LoopAircraftKnown ==
    /\ Receives("AircraftDetected")
    /\ told' = IF tracked[Head(queue).sim] = Head(queue).ac THEN told
               ELSE [told EXCEPT ![Head(queue).sim] = Head(queue).ac]
    /\ queue' = Tail(queue)
    /\ UNCHANGED <<loopUnchanged, loop, tracked, open, slot, task>>

\* AircraftDetected goes to the profile switcher, whoever sent it and
\* whatever has become of the simulator.
LoopAircraft ==
    /\ Receives("AircraftDetected")
    /\ told' = [told EXCEPT ![Head(queue).sim] = Head(queue).ac]
    /\ queue' = Tail(queue)
    /\ UNCHANGED <<loopUnchanged, loop, tracked, open, slot, task>>

\* TelemetryUpdate: a new aircraft is announced at the end of the channel.
LoopTelemetry ==
    /\ Receives("TelemetryUpdate")
    /\ LET s == Head(queue).sim
           a == Head(queue).ac
           changed == a # None /\ tracked[s] # a
       IN  /\ tracked' = IF changed THEN [tracked EXCEPT ![s] = a] ELSE tracked
           /\ queue' = IF changed
                         THEN Append(Tail(queue), Event("AircraftDetected", s, a))
                         ELSE Tail(queue)
    /\ UNCHANGED <<loopUnchanged, loop, open, told, slot, task>>

\* The receiver is dropped, and with it what the channel still holds.
LoopShutdown ==
    /\ Receives("Shutdown")
    /\ loop' = [pc |-> "ended", sim |-> None]
    /\ queue' = <<>>
    /\ UNCHANGED <<loopUnchanged, tracked, open, told, slot, task>>

-----------------------------------------------------------------------------
(* stop() *)

stopUnchanged == <<world, scanLoop, monitorVars, busVars, loopVars>>

\* Once the detector's loop has ended, stop() fails here and does nothing.
StopCall ==
    /\ stop.pc = "idle" /\ scanLoop.pc # "ended"
    /\ stop' = [pc |-> "called", joining |-> {}, asked |-> TRUE]
    /\ UNCHANGED <<stopUnchanged, queue, slot, task, locked>>

\* Mutant: the adapters are dropped instead of stopped.
StopTakeAllDrops ==
    /\ stop.pc = "called"
    /\ locked' = TRUE
    /\ slot' = {}
    /\ stop' = [stop EXCEPT !.pc = "joining"]
    /\ UNCHANGED <<stopUnchanged, queue, task>>

\* Mutant: the tasks are waited for without being told to stop.
StopTakeAllSilently ==
    /\ stop.pc = "called"
    /\ locked' = TRUE
    /\ slot' = {}
    /\ stop' = [stop EXCEPT !.pc = "joining", !.joining = slot \cap TaskSims]
    /\ UNCHANGED <<stopUnchanged, queue, task>>

\* stop_all, with the adapters locked.
StopTakeAll ==
    /\ stop.pc = "called"
    /\ locked' = TRUE
    /\ slot' = {}
    /\ task' = [s \in TaskSims |-> IF s \in slot /\ Alive(s)
                                     THEN [task[s] EXCEPT !.shutdown = TRUE]
                                     ELSE task[s]]
    /\ stop' = [stop EXCEPT !.pc = "joining", !.joining = slot \cap TaskSims]
    /\ UNCHANGED <<stopUnchanged, queue>>

\* stop_all has joined the tasks and Shutdown is sent; the lock is held until
\* stop() returns.  A second Shutdown in the channel would never be received,
\* and is left out.
StopSend ==
    /\ stop.pc = "joining"
    /\ \A s \in stop.joining : ~Alive(s)
    /\ queue' = IF Closed \/ Contains(queue, Shutdown) THEN queue
                ELSE Append(queue, Shutdown)
    /\ locked' = FALSE
    /\ stop' = [stop EXCEPT !.pc = "idle", !.joining = {}]
    /\ UNCHANGED <<stopUnchanged, slot, task>>

-----------------------------------------------------------------------------
Environment ==
    \/ \E s \in Sims : \/ StartSim(s) \/ ExitSim(s) \/ Publish(s)
                       \/ \E a \in Aircraft : LoadAircraft(s, a)
    \/ StopCall

ScanLoop == ScanLoopList \/ ScanLoopWrite

Monitor == MonitorScan \/ MonitorEnd

MonitorOverwritten ==
    \E written \in SUBSET scanLoop.left : MonitorScanOverwritten(written)

BusMonitor == BusPoll \/ BusEnd

TaskRuns(s) == \/ TaskStarted(s) \/ TaskStartFails(s) \/ TaskPoll(s)
               \/ TaskReport(s) \/ TaskSendFails(s)

Loop == \/ LoopDetected \/ LoopLost \/ LoopStopped \/ LoopAircraft
        \/ LoopTelemetry \/ LoopShutdown

Stopping == StopTakeAll \/ StopSend

Next ==
    \/ Environment
    \/ ScanLoop \/ ScanLoopEnd
    \/ Monitor \/ MonitorOverwritten
    \/ BusMonitor
    \/ \E s \in TaskSims : TaskRuns(s) \/ TaskShutdown(s)
    \/ Loop
    \/ Stopping

Spec == Init /\ [][Next]_vars

(***************************************************************************)
(* Every task of the runtime goes on running, and a select whose branches  *)
(* are ready again and again takes each of them (tokio picks at random).   *)
(* A send never waits in the code: the senders' strong fairness undoes the *)
(* waiting that the model's Room brings in.  tokio's RwLock is first come, *)
(* first served, so a loop that waits for the adapters lock gets it        *)
(* between two calls of stop().  The monitor's reading is not overwritten  *)
(* for ever; nothing forces anyone to start, exit, load an aircraft,       *)
(* publish on the bus or call stop().                                      *)
(***************************************************************************)
Fairness ==
    /\ SF_vars(Monitor)
    /\ SF_vars(BusMonitor)
    /\ SF_vars(Loop)
    /\ WF_vars(Stopping)
    /\ \A s \in TaskSims : SF_vars(TaskRuns(s)) /\ SF_vars(TaskShutdown(s))

FairSpec == Spec /\ Fairness

-----------------------------------------------------------------------------
(* Properties *)

TypeOK ==
    /\ running \in SUBSET Sims
    /\ plane \in [Sims -> Planes]
    /\ scanLoop \in [pc : {"idle", "listed", "ended"},
                     list : SUBSET Sims, left : SUBSET Sims]
    /\ monitor \in {"running", "ended"}
    /\ last \in SUBSET Sims
    /\ bus \in Snapshots \cup {None}
    /\ busMonitor \in {"running", "ended"}
    /\ queue \in Seq([type : EventTypes, sim : Sims \cup {None}, ac : Planes])
    /\ loop \in [pc : {"idle", "joining", "lost", "ended"},
                 sim : Sims \cup {None}]
    /\ tracked \in [Sims -> Planes]
    /\ open \in [Sims -> Nat]
    /\ told \in [Sims -> Planes]
    /\ slot \in SUBSET (Sims \ OtherSims)
    /\ task \in [TaskSims ->
                   [pc : {"none", "starting", "polling", "reporting"},
                    last : Planes, seen : Planes, shutdown : BOOLEAN]]
    /\ locked \in BOOLEAN
    /\ stop \in [pc : {"idle", "called", "joining"},
                 joining : SUBSET TaskSims, asked : BOOLEAN]

\* Whoever takes an adapter out of its slot stays with its task until it has
\* ended (handle_process_lost, stop_all): a live task is in its slot, or
\* somebody told it to stop and is waiting for it.
OwnedTasks ==
    \A s \in TaskSims :
        Alive(s) =>
          \/ s \in slot /\ ~task[s].shutdown
          \/ task[s].shutdown /\ loop = [pc |-> "joining", sim |-> s]
          \/ task[s].shutdown /\ s \in stop.joining

\* A new task is spawned only when the one before it has ended, whatever
\* order processes come and go in and whenever stop() runs.
OneTaskPerSim ==
    [][\A s \in TaskSims :
         task'[s].pc = "starting" /\ task[s].pc # "starting" => ~Alive(s)]_vars

\* The process monitor reports starts and losses alternately although the
\* detector's own loop writes to the same map with older process lists:
\* connections and disconnections never drift apart, and an adapter exists
\* only within a connection.
AdapterIsAccounted ==
    \A s \in Sims : open[s] \in {0, 1} /\ (s \in slot => open[s] = 1)

\* A simulator that keeps running gets its adapter and keeps it, and one that
\* stays away loses it, until stop() is called.
AdapterFollowsProcess ==
    \A s \in Sims \ OtherSims :
        /\ <>[](s \in running) => <>[](s \in slot) \/ <>(stop.asked)
        /\ <>[](s \notin running) => <>[](s \notin slot) \/ <>(stop.asked)

\* stop() returns, the event loop ends, and so do the monitors, whatever the
\* loop, the adapter tasks and the monitors were doing when it was called.
StopCompletes ==
    (stop.pc = "called") ~>
        /\ stop.pc = "idle" /\ Closed
        /\ monitor = "ended" /\ busMonitor = "ended"

\* A simulator whose adapter task lives has the aircraft that stays loaded
\* announced to the profile switcher, after every restart and whatever stale
\* reports are on their way when it is loaded: those its task has sent before
\* the process was lost and, if the task forwards telemetry, old snapshots of
\* the bus.  Nothing is assumed to be published on the bus.
AircraftFollows ==
    \A s \in TaskSims, a \in Aircraft :
        /\ <>[](s \in running /\ plane[s] = a)
        /\ <>[](s \in slot => Alive(s))
        /\ s \in Streaming \/ [](bus = None)
        => <>[](told[s] = a) \/ <>(stop.asked)
=============================================================================
