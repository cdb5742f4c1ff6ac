---------------------- MODULE AutoSwitchService_proofs ----------------------
(***************************************************************************)
(* Proofs about the adapter tasks of AutoSwitchService, for every set of   *)
(* simulators.  The first argument is who may touch an adapter: the event  *)
(* loop only while it does not wait for a task and while stop() does not   *)
(* hold the lock, and stop() only from taking the lock to joining the last *)
(* task.                                                                   *)
(***************************************************************************)
EXTENDS AutoSwitchService, FiniteSetTheorems, TLAPS

LOCAL INSTANCE SequencesExt

\* The variables the argument is about.
owners == <<loop, slot, task, locked, stop>>

TaskRecords == [pc : {"none", "starting", "polling", "reporting"},
                last : Planes, seen : Planes, shutdown : BOOLEAN]

TaskTypes ==
    /\ task \in [TaskSims -> TaskRecords]
    /\ plane \in [Sims -> Planes]

\* stop() holds the lock while it joins, and joins nobody otherwise.
StopLocks ==
    /\ stop \in [pc : {"idle", "called", "joining"},
                 joining : SUBSET TaskSims, asked : BOOLEAN]
    /\ locked <=> stop.pc = "joining"
    /\ stop.pc # "joining" => stop.joining = {}

IInv == TaskTypes /\ StopLocks /\ OwnedTasks

-----------------------------------------------------------------------------
\* A task that goes on keeps its owner and what it was told.
LEMMA TaskChange ==
    ASSUME IInv, NEW s \in TaskSims, NEW t \in TaskRecords,
           task' = [task EXCEPT ![s] = t],
           t.pc # "none" => Alive(s) /\ t.shutdown = task[s].shutdown,
           UNCHANGED <<loop, slot, locked, stop, plane>>
    PROVE  IInv'
<1>1. TaskTypes' BY DEF IInv, TaskTypes
<1>2. StopLocks' BY DEF IInv, StopLocks
<1>3. OwnedTasks'
  <2> SUFFICES ASSUME NEW u \in TaskSims, Alive(u)'
               PROVE  \/ u \in slot' /\ ~task'[u].shutdown
                      \/ task'[u].shutdown /\ loop' = [pc |-> "joining", sim |-> u]
                      \/ task'[u].shutdown /\ u \in stop'.joining
      BY DEF OwnedTasks
  <2>1. Alive(u) /\ task'[u].shutdown = task[u].shutdown
      BY DEF IInv, TaskTypes, Alive
  <2>2. QED BY <2>1 DEF IInv, OwnedTasks
<1>4. QED BY <1>1, <1>2, <1>3 DEF IInv

\* A task changes neither who owns it nor whether it was told to stop, unless
\* it ends.
LEMMA TaskSteps ==
    ASSUME IInv, NEW s \in TaskSims, TaskRuns(s) \/ TaskShutdown(s)
    PROVE  IInv'
<1>1. /\ task[s] \in TaskRecords
      /\ NoTask \in TaskRecords /\ NoTask.pc = "none"
      /\ None \in Planes /\ plane[s] \in Planes
    BY DEF IInv, TaskTypes, TaskRecords, NoTask, Planes, Sims
<1>2. /\ task[s].last \in Planes /\ task[s].seen \in Planes
      /\ task[s].shutdown \in BOOLEAN
    BY <1>1 DEF TaskRecords
<1>3. ASSUME NEW p \in {"polling", "reporting"}, NEW l \in Planes,
             NEW n \in Planes, Alive(s), GoesOn(s, p, l, n),
             UNCHANGED <<loop, slot, locked, stop, plane>>
      PROVE  IInv'
  <2> DEFINE u == [pc |-> p, last |-> l, seen |-> n,
                   shutdown |-> task[s].shutdown]
  <2>1. u \in TaskRecords /\ u.shutdown = task[s].shutdown
      BY <1>2 DEF TaskRecords
  <2>2. task' = [task EXCEPT ![s] = u]
      BY <1>3 DEF GoesOn
  <2> HIDE DEF u
  <2>3. QED BY <1>3, <2>1, <2>2, TaskChange
<1>4. ASSUME Ends(s), UNCHANGED <<loop, slot, locked, stop, plane>>
      PROVE  IInv'
    BY <1>1, <1>4, TaskChange DEF Ends
<1> USE DEF taskUnchanged, world, loopVars, stopVars
<1>5. CASE TaskStarted(s)
    BY <1>1, <1>3, <1>5 DEF TaskStarted, Alive
<1>6. CASE TaskStartFails(s)
    BY <1>4, <1>6 DEF TaskStartFails
<1>7. CASE TaskPoll(s)
    BY <1>1, <1>2, <1>3, <1>7 DEF TaskPoll, Alive
<1>8. CASE TaskReport(s)
    BY <1>1, <1>2, <1>3, <1>8 DEF TaskReport, Alive
<1>9. CASE TaskSendFails(s)
    BY <1>1, <1>2, <1>3, <1>4, <1>9 DEF TaskSendFails, Alive
<1>10. CASE TaskShutdown(s)
    BY <1>4, <1>10 DEF TaskShutdown
<1>11. QED
    BY <1>5, <1>6, <1>7, <1>8, <1>9, <1>10 DEF TaskRuns

-----------------------------------------------------------------------------
\* A task that was told to stop, and the ones that were not.
LEMMA TellTasks ==
    ASSUME TaskTypes, NEW S,
           task' = [t \in TaskSims |-> IF t \in S /\ Alive(t)
                                         THEN [task[t] EXCEPT !.shutdown = TRUE]
                                         ELSE task[t]],
           UNCHANGED plane
    PROVE  /\ TaskTypes'
           /\ \A t \in TaskSims : /\ Alive(t)' = Alive(t)
                                  /\ t \in S /\ Alive(t) => task'[t].shutdown
                                  /\ t \notin S => task'[t] = task[t]
<1> SUFFICES ASSUME NEW t \in TaskSims
             PROVE  /\ task'[t] \in TaskRecords
                    /\ Alive(t)' = Alive(t)
                    /\ t \in S /\ Alive(t) => task'[t].shutdown
                    /\ t \notin S => task'[t] = task[t]
    BY DEF TaskTypes
<1>1. task[t] \in TaskRecords
    BY DEF TaskTypes
<1>2. [task[t] EXCEPT !.shutdown = TRUE] \in TaskRecords
    BY <1>1 DEF TaskRecords
<1>3. /\ [task[t] EXCEPT !.shutdown = TRUE].pc = task[t].pc
      /\ [task[t] EXCEPT !.shutdown = TRUE].shutdown = TRUE
    BY <1>1 DEF TaskRecords
<1>4. QED BY <1>1, <1>2, <1>3 DEF Alive

\* While the event loop is idle and the lock is free, every live task is in
\* its slot and has not been told to stop.
LEMMA AllInSlots ==
    ASSUME IInv, loop.pc = "idle", ~locked, NEW s \in TaskSims, Alive(s)
    PROVE  s \in slot /\ ~task[s].shutdown
<1>1. stop.joining = {} BY DEF IInv, StopLocks
<1>2. loop # [pc |-> "joining", sim |-> s] OBVIOUS
<1>3. QED BY <1>1, <1>2 DEF IInv, OwnedTasks

\* The event loop takes a task over from its slot and lets go of it only when
\* it has ended.
LEMMA LoopSteps ==
    ASSUME IInv, Loop
    PROVE  IInv'
<1> USE DEF loopUnchanged, world, stopVars
<1>1. CASE LoopDetected
  <2> DEFINE s == Head(queue).sim
  <2>1. /\ slot' = IF s \in OtherSims THEN slot ELSE slot \cup {s}
        /\ task' = [t \in TaskSims |->
                      IF t = s /\ s \notin slot THEN NewTask ELSE task[t]]
        /\ loop.pc = "idle" /\ ~locked
        /\ UNCHANGED <<plane, stop, locked, loop>>
      BY <1>1 DEF LoopDetected, Spawn, Receives
  <2> HIDE DEF s
  <2>2. NewTask \in TaskRecords /\ NewTask.shutdown = FALSE
      BY DEF NewTask, NoTask, TaskRecords, Planes
  <2>3. TaskTypes' BY <2>1, <2>2 DEF IInv, TaskTypes
  <2>4. StopLocks' BY <2>1 DEF IInv, StopLocks
  <2>5. OwnedTasks'
    <3> SUFFICES ASSUME NEW t \in TaskSims, Alive(t)'
                 PROVE  t \in slot' /\ ~task'[t].shutdown
        BY DEF OwnedTasks
    <3>1. CASE t = s /\ s \notin slot
        BY <2>1, <2>2, <3>1, ServiceAssumption
    <3>2. CASE ~(t = s /\ s \notin slot)
      <4>1. task'[t] = task[t] BY <2>1, <3>2
      <4>2. Alive(t) BY <4>1 DEF Alive
      <4>3. QED BY <2>1, <4>1, <4>2, AllInSlots
    <3>3. QED BY <3>1, <3>2
  <2>6. QED BY <2>3, <2>4, <2>5 DEF IInv
<1>2. CASE LoopLost
  <2> DEFINE s == Head(queue).sim
  <2>1. /\ slot' = slot \ {s}
        /\ task' = [t \in TaskSims |->
                      IF t = s /\ s \in slot /\ Alive(s)
                        THEN [task[s] EXCEPT !.shutdown = TRUE] ELSE task[t]]
        /\ loop' = [pc |-> IF s \in slot \cap TaskSims THEN "joining"
                           ELSE "lost", sim |-> s]
        /\ loop.pc = "idle" /\ ~locked
        /\ UNCHANGED <<plane, stop, locked>>
      BY <1>2 DEF LoopLost, Receives
  <2> HIDE DEF s
  <2> DEFINE S == {s} \cap slot
  <2>2. task' = [t \in TaskSims |-> IF t \in S /\ Alive(t)
                                      THEN [task[t] EXCEPT !.shutdown = TRUE]
                                      ELSE task[t]]
      BY <2>1
  <2>3. /\ TaskTypes'
        /\ \A t \in TaskSims : /\ Alive(t)' = Alive(t)
                               /\ t \in S /\ Alive(t) => task'[t].shutdown
                               /\ t \notin S => task'[t] = task[t]
    <3> HIDE DEF S
    <3>1. QED BY <2>1, <2>2, TellTasks DEF IInv
  <2>4. StopLocks' BY <2>1 DEF IInv, StopLocks
  <2>5. OwnedTasks'
    <3> SUFFICES ASSUME NEW t \in TaskSims, Alive(t)'
                 PROVE  \/ t \in slot' /\ ~task'[t].shutdown
                        \/ /\ task'[t].shutdown
                           /\ loop' = [pc |-> "joining", sim |-> t]
        BY DEF OwnedTasks
    <3>1. Alive(t) /\ t \in slot /\ ~task[t].shutdown
        BY <2>1, <2>3, AllInSlots
    <3>2. CASE t = s
        BY <2>1, <2>3, <3>1, <3>2
    <3>3. CASE t # s
        BY <2>1, <2>3, <3>1, <3>3
    <3>4. QED BY <3>2, <3>3
  <2>6. QED BY <2>3, <2>4, <2>5 DEF IInv
<1>3. ASSUME UNCHANGED <<slot, task, stop, locked, plane>>,
             \A t \in TaskSims : Alive(t) /\ loop = [pc |-> "joining", sim |-> t]
                                   => loop' = loop
      PROVE  IInv'
  <2>1. TaskTypes' /\ StopLocks'
      BY <1>3 DEF IInv, TaskTypes, StopLocks
  <2>2. OwnedTasks'
      BY <1>3 DEF IInv, OwnedTasks, Alive
  <2>3. QED BY <2>1, <2>2 DEF IInv
<1>4. CASE LoopStopped
    BY <1>3, <1>4 DEF LoopStopped
<1>5. CASE LoopAircraft
    BY <1>3, <1>5 DEF LoopAircraft
<1>6. CASE LoopTelemetry
    BY <1>3, <1>6 DEF LoopTelemetry
<1>7. CASE LoopShutdown
    BY <1>3, <1>7 DEF LoopShutdown, Receives
<1>8. QED
    BY <1>1, <1>2, <1>4, <1>5, <1>6, <1>7 DEF Loop

\* stop() takes every adapter with its task and keeps the lock until the last
\* of them has ended.
LEMMA StopSteps ==
    ASSUME IInv, StopCall \/ Stopping
    PROVE  IInv'
<1> USE DEF stopUnchanged, world, loopVars
<1>1. CASE StopCall
  <2>1. /\ UNCHANGED <<slot, task, loop, locked, plane>>
        /\ stop.pc = "idle"
        /\ stop' = [pc |-> "called", joining |-> {}, asked |-> TRUE]
      BY <1>1 DEF StopCall
  <2>2. TaskTypes' /\ StopLocks'
      BY <2>1 DEF IInv, TaskTypes, StopLocks
  <2>3. OwnedTasks'
      BY <2>1 DEF IInv, StopLocks, OwnedTasks, Alive
  <2>4. QED BY <2>2, <2>3 DEF IInv
<1>2. CASE StopTakeAll
  <2>1. /\ slot' = {} /\ locked' = TRUE
        /\ stop.pc = "called" /\ stop.joining = {}
        /\ stop'.pc = "joining" /\ stop'.joining = slot \cap TaskSims
        /\ UNCHANGED <<loop, plane>>
      BY <1>2 DEF StopTakeAll, IInv, StopLocks
  <2>2. /\ TaskTypes'
        /\ \A t \in TaskSims : /\ Alive(t)' = Alive(t)
                               /\ t \in slot /\ Alive(t) => task'[t].shutdown
                               /\ t \notin slot => task'[t] = task[t]
      BY <1>2, <2>1, TellTasks DEF StopTakeAll, IInv
  <2>3. StopLocks'
      BY <1>2 DEF StopTakeAll, IInv, StopLocks
  <2>4. OwnedTasks'
      BY <2>1, <2>2 DEF IInv, OwnedTasks
  <2>5. QED BY <2>2, <2>3, <2>4 DEF IInv
<1>3. CASE StopSend
  <2>1. /\ UNCHANGED <<slot, task, loop, plane>> /\ locked' = FALSE
        /\ \A s \in stop.joining : ~Alive(s)
        /\ stop' = [stop EXCEPT !.pc = "idle", !.joining = {}]
      BY <1>3 DEF StopSend
  <2>2. TaskTypes' /\ StopLocks'
      BY <2>1 DEF IInv, TaskTypes, StopLocks
  <2>3. OwnedTasks'
      BY <2>1 DEF IInv, OwnedTasks, Alive
  <2>4. QED BY <2>2, <2>3 DEF IInv
<1>4. QED
    BY <1>1, <1>2, <1>3 DEF Stopping

-----------------------------------------------------------------------------
\* Simulators, the bus and the monitors leave adapters and stop() alone.
LEMMA OtherSteps ==
    ASSUME IInv, UNCHANGED owners, plane' \in [Sims -> Planes]
    PROVE  IInv'
BY DEF IInv, TaskTypes, StopLocks, OwnedTasks, Alive, owners

\* Nothing has been started at first.
LEMMA InitHolds == Init => IInv
<1> SUFFICES ASSUME Init PROVE IInv OBVIOUS
<1>1. NoTask \in TaskRecords /\ NoTask.pc = "none"
    BY DEF NoTask, TaskRecords, Planes
<1>2. TaskTypes BY <1>1 DEF Init, TaskTypes, Planes
<1>3. StopLocks BY DEF Init, StopLocks
<1>4. OwnedTasks BY <1>1 DEF Init, OwnedTasks, Alive
<1>5. QED BY <1>2, <1>3, <1>4 DEF IInv

\* The invariant is inductive.
LEMMA StepHolds == IInv /\ [Next]_vars => IInv'
<1> SUFFICES ASSUME IInv, [Next]_vars PROVE IInv' OBVIOUS
<1>0. plane \in [Sims -> Planes] BY DEF IInv, TaskTypes
<1> USE DEF world, monitorVars, busVars, loopVars, stopVars
<1>1. ASSUME NEW s \in Sims,
             \/ StartSim(s) \/ ExitSim(s) \/ Publish(s)
             \/ \E a \in Aircraft : LoadAircraft(s, a)
      PROVE  IInv'
    BY <1>0, <1>1, OtherSteps
       DEF StartSim, ExitSim, Publish, LoadAircraft, owners, Planes
<1>2. CASE ScanLoop \/ ScanLoopEnd
    BY <1>0, <1>2, OtherSteps
       DEF ScanLoop, ScanLoopEnd, ScanLoopList, ScanLoopWrite, owners
<1>3. CASE Monitor \/ MonitorOverwritten
    BY <1>0, <1>3, OtherSteps
       DEF Monitor, MonitorOverwritten, MonitorScanOverwritten, MonitorScan,
           MonitorEnd, owners
<1>4. CASE BusMonitor
    BY <1>0, <1>4, OtherSteps DEF BusMonitor, BusPoll, BusEnd, owners
<1>5. CASE UNCHANGED vars
    BY <1>0, <1>5, OtherSteps DEF vars, owners
<1>6. QED
    BY <1>1, <1>2, <1>3, <1>4, <1>5, TaskSteps, LoopSteps, StopSteps
       DEF Next, Environment

\* The invariant holds in every behaviour of the service.
THEOREM Invariance == Spec => []IInv
<1>1. QED BY InitHolds, StepHolds, PTL DEF Spec

\* However many simulators there are: a live adapter task is in its slot, or
\* the event loop or stop() told it to stop and is waiting for it.
THEOREM TasksAreOwned == Spec => []OwnedTasks
<1>1. IInv => OwnedTasks BY DEF IInv
<1>2. QED BY <1>1, Invariance, PTL

\* However many simulators there are: handle_process_detected never starts a
\* second task beside a live one.
THEOREM TasksAreSingle == Spec => OneTaskPerSim
<1> DEFINE Single ==
      \A s \in TaskSims :
         task'[s].pc = "starting" /\ task[s].pc # "starting" => ~Alive(s)
<1>1. ASSUME IInv, [Next]_vars
      PROVE  [Single]_vars
  <2> SUFFICES ASSUME Next PROVE Single
      BY <1>1
  <2> USE DEF world, monitorVars, busVars, loopVars, stopVars
  <2>1. CASE LoopDetected
    <3> DEFINE s == Head(queue).sim
    <3>1. /\ task' = [t \in TaskSims |->
                        IF t = s /\ s \notin slot THEN NewTask ELSE task[t]]
          /\ loop.pc = "idle" /\ ~locked
        BY <2>1 DEF LoopDetected, Spawn, Receives
    <3> HIDE DEF s
    <3>2. ASSUME NEW t \in TaskSims,
                 task'[t].pc = "starting", task[t].pc # "starting"
          PROVE  ~Alive(t)
      <4>1. t = s /\ s \notin slot BY <3>1, <3>2
      <4>2. QED BY <1>1, <3>1, <4>1, AllInSlots
    <3>3. QED BY <3>2
  <2>2. ASSUME UNCHANGED task PROVE Single
      BY <2>2
  <2>3. ASSUME TaskTypes, NEW S,
               task' = [t \in TaskSims |->
                          IF t \in S /\ Alive(t)
                            THEN [task[t] EXCEPT !.shutdown = TRUE] ELSE task[t]]
        PROVE  Single
    <3>1. ASSUME NEW t \in TaskSims PROVE task'[t].pc = task[t].pc
      <4>1. [task[t] EXCEPT !.shutdown = TRUE].pc = task[t].pc
          BY <2>3 DEF TaskTypes, TaskRecords
      <4>2. QED BY <2>3, <4>1
    <3>2. QED BY <3>1
  <2>4. CASE LoopLost
    <3> DEFINE s == Head(queue).sim
               S == {s} \cap slot
    <3>1. task' = [t \in TaskSims |->
                     IF t = s /\ s \in slot /\ Alive(s)
                       THEN [task[s] EXCEPT !.shutdown = TRUE] ELSE task[t]]
        BY <2>4 DEF LoopLost
    <3> HIDE DEF s
    <3>2. task' = [t \in TaskSims |->
                     IF t \in S /\ Alive(t)
                       THEN [task[t] EXCEPT !.shutdown = TRUE] ELSE task[t]]
        BY <3>1
    <3> HIDE DEF S
    <3>3. QED BY <1>1, <2>3, <3>2 DEF IInv
  <2>5. CASE StopTakeAll
      BY <1>1, <2>3, <2>5 DEF StopTakeAll, IInv
  <2>6. ASSUME NEW s \in TaskSims, TaskRuns(s) \/ TaskShutdown(s)
        PROVE  Single
    <3>1. task \in [TaskSims -> TaskRecords]
        BY <1>1 DEF IInv, TaskTypes
    <3>2. ASSUME NEW p \in {"polling", "reporting"}, NEW l, NEW n,
                 GoesOn(s, p, l, n)
          PROVE  Single
        BY <3>1, <3>2 DEF GoesOn
    <3>3. ASSUME Ends(s) PROVE Single
        BY <3>1, <3>3 DEF Ends, NoTask
    <3> HIDE DEF Single
    <3>4. QED
        BY <2>6, <3>2, <3>3
           DEF TaskRuns, TaskStarted, TaskStartFails, TaskPoll, TaskReport,
               TaskSendFails, TaskShutdown
  <2>7. CASE \E s \in Sims :
               \/ StartSim(s) \/ ExitSim(s) \/ Publish(s)
               \/ \E a \in Aircraft : LoadAircraft(s, a)
      BY <2>2, <2>7 DEF StartSim, ExitSim, Publish, LoadAircraft
  <2>8. CASE ScanLoop \/ ScanLoopEnd \/ Monitor \/ MonitorOverwritten
             \/ BusMonitor
      BY <2>2, <2>8
         DEF ScanLoop, ScanLoopEnd, ScanLoopList, ScanLoopWrite, Monitor,
             MonitorOverwritten, MonitorScanOverwritten, MonitorScan,
             MonitorEnd, BusMonitor, BusPoll, BusEnd
  <2>9. CASE LoopStopped \/ LoopAircraft \/ LoopTelemetry \/ LoopShutdown
      BY <2>2, <2>9 DEF LoopStopped, LoopAircraft, LoopTelemetry, LoopShutdown
  <2>10. CASE StopCall \/ StopSend
      BY <2>2, <2>10 DEF StopCall, StopSend
  <2> HIDE DEF Single
  <2>11. QED
      BY <2>1, <2>4, <2>5, <2>6, <2>7, <2>8, <2>9, <2>10
         DEF Next, Environment, Loop, Stopping
<1>2. QED BY <1>1, Invariance, PTL DEF Spec, OneTaskPerSim
-----------------------------------------------------------------------------
(***************************************************************************)
(* The connections.  The process monitor's list and the event loop's count *)
(* are apart by what is in the channel, so the channel's contents are part *)
(* of the argument: read in order, they turn the one into the other.       *)
(***************************************************************************)
ProcessEvents == {"ProcessDetected", "ProcessLost"}

\* Event e turns the connected simulators S into T.
Follows(S, e, T) ==
    \/ /\ e.type = "ProcessDetected"
       /\ e.sim \in Sims \ S /\ T = S \cup {e.sim}
    \/ /\ e.type = "ProcessLost"
       /\ e.sim \in S /\ T = S \ {e.sim}
    \/ e.type \notin ProcessEvents /\ T = S

\* The events q turn them, one after the other, from S into T.
Leads(S, q, T) ==
    \E h \in [0 .. Len(q) -> SUBSET Sims] :
        /\ h[0] = S /\ h[Len(q)] = T
        /\ \A i \in 1 .. Len(q) : Follows(h[i - 1], q[i], h[i])

\* Events read one after the other.
LEMMA LeadsConcat ==
    ASSUME NEW M, NEW p \in Seq(M), NEW q \in Seq(M), NEW S, NEW T, NEW U,
           Leads(S, p, T), Leads(T, q, U)
    PROVE  Leads(S, p \o q, U)
<1> DEFINE n == Len(p)
           m == Len(q)
<1>1. n \in Nat /\ m \in Nat /\ Len(p \o q) = n + m
  OBVIOUS
<1>2. PICK f \in [0 .. n -> SUBSET Sims] :
        /\ f[0] = S /\ f[n] = T
        /\ \A i \in 1 .. n : Follows(f[i - 1], p[i], f[i])
  BY DEF Leads
<1>3. PICK g \in [0 .. m -> SUBSET Sims] :
        /\ g[0] = T /\ g[m] = U
        /\ \A i \in 1 .. m : Follows(g[i - 1], q[i], g[i])
  BY DEF Leads
<1>4. ASSUME NEW i \in 1 .. n + m
      PROVE  (p \o q)[i] = IF i <= n THEN p[i] ELSE q[i - n]
  OBVIOUS
<1> HIDE DEF n, m
<1> DEFINE h == [i \in 0 .. n + m |-> IF i <= n THEN f[i] ELSE g[i - n]]
<1>5. h \in [0 .. n + m -> SUBSET Sims] BY <1>1
<1>6. h[0] = S /\ h[n + m] = U
  <2>1. h[0] = f[0] BY <1>1
  <2>2. CASE m = 0 BY <1>1, <1>2, <1>3, <2>1, <2>2
  <2>3. CASE m # 0
    <3>1. n + m \in 0 .. n + m /\ ~ (n + m <= n) /\ (n + m) - n = m
      BY <1>1, <2>3
    <3>2. QED BY <1>2, <1>3, <2>1, <3>1
  <2>4. QED BY <2>2, <2>3
<1>7. ASSUME NEW i \in 1 .. n + m
      PROVE  Follows(h[i - 1], (p \o q)[i], h[i])
  <2>1. CASE i <= n
    <3>1. i \in 1 .. n /\ i - 1 <= n /\ i \in 0 .. n + m /\ i - 1 \in 0 .. n + m
      BY <1>1, <2>1
    <3>2. h[i] = f[i] /\ h[i - 1] = f[i - 1] BY <2>1, <3>1
    <3>3. (p \o q)[i] = p[i] BY <1>4, <2>1
    <3> HIDE DEF h
    <3>4. QED BY <1>2, <3>1, <3>2, <3>3
  <2>2. CASE ~ (i <= n)
    <3>1. /\ i - n \in 1 .. m /\ i \in 0 .. n + m /\ i - 1 \in 0 .. n + m
          /\ (i - n) - 1 = (i - 1) - n
      BY <1>1, <2>2
    <3>2. h[i] = g[i - n] BY <2>2, <3>1
    <3>3. h[i - 1] = g[(i - n) - 1]
      <4>1. CASE i - 1 <= n
        <5>1. i - 1 = n /\ (i - n) - 1 = 0 BY <1>1, <2>2, <4>1
        <5>2. QED BY <1>2, <1>3, <3>1, <5>1
      <4>2. CASE ~ (i - 1 <= n) BY <3>1, <4>2
      <4>3. QED BY <4>1, <4>2
    <3>4. (p \o q)[i] = q[i - n] BY <1>4, <2>2
    <3> HIDE DEF h
    <3>5. Follows(g[(i - n) - 1], q[i - n], g[i - n]) BY <1>3, <3>1
    <3>6. QED BY <3>2, <3>3, <3>4, <3>5
  <2>3. QED BY <2>1, <2>2
<1> HIDE DEF h
<1>8. QED BY <1>1, <1>5, <1>6, <1>7 DEF Leads

\* One event.
LEMMA LeadsOne ==
    ASSUME NEW S \in SUBSET Sims, NEW T \in SUBSET Sims, NEW e,
           Follows(S, e, T)
    PROVE  Leads(S, <<e>>, T)
<1> DEFINE h == [i \in 0 .. 1 |-> IF i = 0 THEN S ELSE T]
<1>1. Len(<<e>>) = 1 /\ <<e>>[1] = e OBVIOUS
<1>2. h \in [0 .. 1 -> SUBSET Sims] /\ h[0] = S /\ h[1] = T OBVIOUS
<1> HIDE DEF h
<1>3. ASSUME NEW i \in 1 .. 1 PROVE Follows(h[i - 1], <<e>>[i], h[i])
  <2>1. i = 1 /\ i - 1 = 0 OBVIOUS
  <2>2. QED BY <1>1, <1>2, <2>1
<1>4. QED BY <1>1, <1>2, <1>3 DEF Leads

\* No event.
LEMMA LeadsNowhere ==
    ASSUME NEW S \in SUBSET Sims
    PROVE  Leads(S, <<>>, S)
<1> DEFINE h == [i \in 0 .. 0 |-> S]
<1>1. Len(<<>>) = 0 OBVIOUS
<1>2. h \in [0 .. 0 -> SUBSET Sims] /\ h[0] = S OBVIOUS
<1> HIDE DEF h
<1>3. \A i \in 1 .. 0 : Follows(h[i - 1], <<>>[i], h[i]) OBVIOUS
<1>4. QED BY <1>1, <1>2, <1>3 DEF Leads

\* The first event and the others.
LEMMA LeadsTail ==
    ASSUME NEW M, NEW q \in Seq(M), q # <<>>, NEW S, NEW T, Leads(S, q, T)
    PROVE  \E R \in SUBSET Sims : Follows(S, Head(q), R) /\ Leads(R, Tail(q), T)
<1> DEFINE n == Len(q)
<1>1. /\ n \in Nat /\ n > 0 /\ Len(Tail(q)) = n - 1 /\ Head(q) = q[1]
      /\ \A i \in 1 .. n - 1 : Tail(q)[i] = q[i + 1]
  OBVIOUS
<1>2. PICK f \in [0 .. n -> SUBSET Sims] :
        /\ f[0] = S /\ f[n] = T
        /\ \A i \in 1 .. n : Follows(f[i - 1], q[i], f[i])
  BY DEF Leads
<1> HIDE DEF n
<1> DEFINE h == [i \in 0 .. n - 1 |-> f[i + 1]]
<1>3. h \in [0 .. n - 1 -> SUBSET Sims] /\ h[0] = f[1] /\ h[n - 1] = f[n]
  BY <1>1
<1>4. ASSUME NEW i \in 1 .. n - 1 PROVE Follows(h[i - 1], Tail(q)[i], h[i])
  <2>1. h[i - 1] = f[i] /\ h[i] = f[i + 1] BY <1>1
  <2>2. i + 1 \in 1 .. n /\ (i + 1) - 1 = i BY <1>1
  <2>3. Follows(f[i], q[i + 1], f[i + 1]) BY <1>2, <2>2
  <2>4. Tail(q)[i] = q[i + 1] BY <1>1
  <2> HIDE DEF h
  <2>5. QED BY <2>1, <2>3, <2>4
<1> HIDE DEF h
<1>5. Leads(f[1], Tail(q), T)
  BY <1>1, <1>2, <1>3, <1>4 DEF Leads
<1>6. Follows(S, Head(q), f[1]) /\ f[1] \in SUBSET Sims
  <2>1. 1 \in 1 .. n /\ 1 - 1 = 0 BY <1>1
  <2>2. Follows(f[1 - 1], q[1], f[1]) BY <1>2, <2>1
  <2>3. QED BY <1>1, <1>2, <2>1, <2>2
<1>7. QED BY <1>5, <1>6

\* What the service's channel carries.
Messages == [type : EventTypes \ {"Shutdown"}, sim : Sims, ac : Planes]
            \cup {Shutdown}

\* A report lists each of its simulators once.
LEMMA ReportLists ==
    ASSUME NEW type \in ProcessEvents, NEW D \in SUBSET Sims, IsFiniteSet(D),
           NEW p \in Events(type, D)
    PROVE  /\ p \in Seq(Messages)
           /\ \E q \in [1 .. Len(p) -> D] :
                /\ \A i \in 1 .. Len(p) : p[i].type = type /\ p[i].sim = q[i]
                /\ \A i, j \in 1 .. Len(p) : i # j => q[i] # q[j]
                /\ \A s \in D : \E i \in 1 .. Len(p) : q[i] = s
<1> DEFINE n == Cardinality(D)
<1>1. n \in Nat BY FS_CardinalityType
<1>2. PICK q \in [1 .. n -> D] :
        /\ p = [i \in DOMAIN q |-> Event(type, q[i], None)]
        /\ \A i, j \in 1 .. n : i # j => q[i] # q[j]
  BY DEF Events, SetToSeqs
<1>3. ASSUME NEW s \in D, \A i \in 1 .. n : q[i] # s
      PROVE  FALSE
  <2>1. IsFiniteSet(1 .. n) /\ Cardinality(1 .. n) = n
    <3>1. 1 \in Int /\ n \in Int BY <1>1
    <3>2. /\ IsFiniteSet(1 .. n)
          /\ Cardinality(1 .. n) = IF 1 > n THEN 0 ELSE n - 1 + 1
      BY <3>1, FS_Interval
    <3>3. QED BY <1>1, <3>2
  <2>2. IsFiniteSet(D \ {s}) /\ Cardinality(D \ {s}) = n - 1
    BY <1>3, FS_RemoveElement
  <2>3. q \in [1 .. n -> D \ {s}] BY <1>2, <1>3
  <2>4. Cardinality(D \ {s}) < Cardinality(1 .. n) BY <1>1, <2>1, <2>2
  <2>5. \E i, j \in 1 .. n : i # j /\ q[i] = q[j]
    BY <2>1, <2>2, <2>3, <2>4, FS_PigeonHole
  <2>6. QED BY <1>2, <2>5
<1>4. p = [i \in 1 .. n |-> Event(type, q[i], None)] BY <1>2
<1> HIDE DEF n
<1>5. Len(p) = n BY <1>1, <1>4
<1>6. \A s \in Sims : Event(type, s, None) \in Messages
  BY DEF Event, Messages, EventTypes, ProcessEvents, Planes
<1>7. p \in [1 .. n -> Messages] BY <1>2, <1>4, <1>6
<1>8. \A i \in 1 .. n : p[i].type = type /\ p[i].sim = q[i]
  BY <1>4 DEF Event
<1>9. QED BY <1>1, <1>2, <1>3, <1>5, <1>7, <1>8

\* A report of processes that started adds them.
LEMMA LeadsDetected ==
    ASSUME NEW S \in SUBSET Sims, NEW D \in SUBSET (Sims \ S), IsFiniteSet(D),
           NEW p \in Events("ProcessDetected", D)
    PROVE  p \in Seq(Messages) /\ Leads(S, p, S \cup D)
<1> DEFINE n == Len(p)
<1>1. p \in Seq(Messages) /\ n \in Nat
  BY ReportLists DEF ProcessEvents
<1>2. PICK q \in [1 .. n -> D] :
        /\ \A i \in 1 .. n : p[i].type = "ProcessDetected" /\ p[i].sim = q[i]
        /\ \A i, j \in 1 .. n : i # j => q[i] # q[j]
        /\ \A s \in D : \E i \in 1 .. n : q[i] = s
  BY ReportLists DEF ProcessEvents
<1> HIDE DEF n
<1> DEFINE h == [i \in 0 .. n |-> S \cup {q[j] : j \in 1 .. i}]
<1>3. h \in [0 .. n -> SUBSET Sims]
  <2> SUFFICES ASSUME NEW i \in 0 .. n, NEW j \in 1 .. i PROVE q[j] \in Sims
    OBVIOUS
  <2>1. j \in 1 .. n BY <1>1
  <2>2. QED BY <2>1
<1>4. h[0] = S BY <1>1
<1>5. h[n] = S \cup D BY <1>1, <1>2
<1>6. ASSUME NEW i \in 1 .. n PROVE Follows(h[i - 1], p[i], h[i])
  <2>1. /\ i - 1 \in 0 .. n /\ i \in 0 .. n
        /\ 1 .. i = (1 .. i - 1) \cup {i}
        /\ \A j \in 1 .. i - 1 : j # i /\ j \in 1 .. n
    BY <1>1
  <2>2. /\ h[i - 1] = S \cup {q[j] : j \in 1 .. i - 1}
        /\ h[i] = S \cup {q[j] : j \in 1 .. i}
    BY <2>1
  <2> HIDE DEF h
  <2>3. h[i] = h[i - 1] \cup {q[i]} BY <2>1, <2>2
  <2>4. q[i] \in Sims \ h[i - 1] BY <1>2, <2>1, <2>2
  <2>5. QED BY <1>2, <2>3, <2>4 DEF Follows
<1> HIDE DEF h
<1>7. QED BY <1>1, <1>3, <1>4, <1>5, <1>6 DEF Leads, n

\* A report of processes that ended takes them away.
LEMMA LeadsLost ==
    ASSUME NEW S \in SUBSET Sims, NEW D \in SUBSET S, IsFiniteSet(D),
           NEW p \in Events("ProcessLost", D)
    PROVE  p \in Seq(Messages) /\ Leads(S, p, S \ D)
<1> DEFINE n == Len(p)
<1>1. p \in Seq(Messages) /\ n \in Nat
  BY ReportLists DEF ProcessEvents
<1>2. PICK q \in [1 .. n -> D] :
        /\ \A i \in 1 .. n : p[i].type = "ProcessLost" /\ p[i].sim = q[i]
        /\ \A i, j \in 1 .. n : i # j => q[i] # q[j]
        /\ \A s \in D : \E i \in 1 .. n : q[i] = s
  BY ReportLists DEF ProcessEvents
<1> HIDE DEF n
<1> DEFINE h == [i \in 0 .. n |-> S \ {q[j] : j \in 1 .. i}]
<1>3. h \in [0 .. n -> SUBSET Sims] OBVIOUS
<1>4. h[0] = S BY <1>1
<1>5. h[n] = S \ D BY <1>1, <1>2
<1>6. ASSUME NEW i \in 1 .. n PROVE Follows(h[i - 1], p[i], h[i])
  <2>1. /\ i - 1 \in 0 .. n /\ i \in 0 .. n
        /\ 1 .. i = (1 .. i - 1) \cup {i}
        /\ \A j \in 1 .. i - 1 : j # i /\ j \in 1 .. n
    BY <1>1
  <2>2. /\ h[i - 1] = S \ {q[j] : j \in 1 .. i - 1}
        /\ h[i] = S \ {q[j] : j \in 1 .. i}
    BY <2>1
  <2> HIDE DEF h
  <2>3. h[i] = h[i - 1] \ {q[i]} BY <2>1, <2>2
  <2>4. q[i] \in h[i - 1] BY <1>2, <2>1, <2>2
  <2>5. QED BY <1>2, <2>3, <2>4 DEF Follows
<1> HIDE DEF h
<1>7. QED BY <1>1, <1>3, <1>4, <1>5, <1>6 DEF Leads, n

-----------------------------------------------------------------------------
\* The loop has taken a loss from the channel and not yet counted it.
Leaving == loop.pc \in {"joining", "lost"}

\* The simulators that are connected for the event loop.
Connected == {s \in Sims : open[s] = 1 /\ ~ (Leaving /\ loop.sim = s)}

\* The types of the variables that IInv leaves out.
OtherTypes ==
    /\ running \in SUBSET Sims
    /\ scanLoop \in [pc : {"idle", "listed", "ended"},
                     list : SUBSET Sims, left : SUBSET Sims]
    /\ monitor \in {"running", "ended"}
    /\ last \in SUBSET Sims
    /\ bus \in Snapshots \cup {None}
    /\ busMonitor \in {"running", "ended"}
    /\ queue \in Seq(Messages)
    /\ loop \in [pc : {"idle", "joining", "lost", "ended"},
                 sim : Sims \cup {None}]
    /\ tracked \in [Sims -> Planes]
    /\ open \in [Sims -> {0, 1}]
    /\ told \in [Sims -> Planes]
    /\ slot \in SUBSET (Sims \ OtherSims)
    /\ locked \in BOOLEAN

\* A loss that is being handled is one of a connection without an adapter.
Departing ==
    Leaving => loop.sim \in Sims /\ open[loop.sim] = 1 /\ loop.sim \notin slot

\* An adapter exists only within a connection.
WithinConnection == \A s \in slot : open[s] = 1

\* What the channel holds leads from what the event loop takes for connected
\* to what the monitor has seen last.
ChannelAgrees == ~ Closed => Leads(Connected, queue, last)

AccountInv == OtherTypes /\ Departing /\ WithinConnection /\ ChannelAgrees

\* The parts of AccountInv that relate the channel to the adapters.
Balance == Departing /\ WithinConnection /\ ChannelAgrees

\* Neither the channel nor the connections change.
LEMMA Quiet ==
    ASSUME AccountInv, UNCHANGED <<open, loop, last, queue>>,
           slot' \in SUBSET slot
    PROVE  Balance'
  BY DEF AccountInv, Balance, Departing, WithinConnection, ChannelAgrees,
         Leaving, Connected, Closed

\* Something is sent that leads from the monitor's old list to its new one.
LEMMA Sent ==
    ASSUME AccountInv, NEW x \in Seq(Messages), queue' = queue \o x,
           Leads(last, x, last'), UNCHANGED <<open, loop, slot>>
    PROVE  Balance' /\ queue' \in Seq(Messages)
<1>1. queue \in Seq(Messages) BY DEF AccountInv, OtherTypes
<1>2. queue' \in Seq(Messages) BY <1>1
<1>3. Closed' = Closed /\ Connected' = Connected
  BY DEF Closed, Connected, Leaving
<1>4. ChannelAgrees'
  <2> SUFFICES ASSUME ~ Closed PROVE Leads(Connected, queue \o x, last')
    BY <1>3 DEF ChannelAgrees
  <2>1. Leads(Connected, queue, last) BY DEF AccountInv, ChannelAgrees
  <2>2. QED BY <1>1, <2>1, LeadsConcat
<1>5. Departing' /\ WithinConnection'
  BY DEF AccountInv, Departing, WithinConnection, Leaving
<1>6. QED BY <1>2, <1>4, <1>5 DEF Balance

\* Something is sent that is not about processes.
LEMMA LeadsAside ==
    ASSUME NEW S \in SUBSET Sims, NEW e \in Messages,
           e.type \notin ProcessEvents
    PROVE  <<e>> \in Seq(Messages) /\ Leads(S, <<e>>, S)
<1>1. Follows(S, e, S) BY DEF Follows
<1>2. QED BY <1>1, LeadsOne

\* The events other than process events.
LEMMA AsideEvents ==
    /\ Shutdown \in Messages /\ Shutdown.type \notin ProcessEvents
    /\ \A s \in Sims, a \in Planes,
          t \in {"TelemetryUpdate", "AircraftDetected"} :
             /\ Event(t, s, a) \in Messages
             /\ Event(t, s, a).type \notin ProcessEvents
  BY DEF Messages, Shutdown, Event, EventTypes, ProcessEvents

\* The head of the channel.
LEMMA HeadIsMessage ==
    ASSUME OtherTypes, NEW type \in EventTypes, Receives(type)
    PROVE  /\ Head(queue) \in Messages /\ Head(queue).type = type
           /\ queue # <<>> /\ Tail(queue) \in Seq(Messages)
           /\ type # "Shutdown" =>
                Head(queue).sim \in Sims /\ Head(queue).ac \in Planes
<1>1. /\ queue \in Seq(Messages) /\ queue # <<>> /\ Head(queue).type = type
  BY DEF OtherTypes, Receives
<1>2. Head(queue) \in Messages /\ Tail(queue) \in Seq(Messages) BY <1>1
<1>3. Shutdown.type = "Shutdown" BY DEF Shutdown, Event
<1>4. QED BY <1>1, <1>2, <1>3 DEF Messages

\* The process monitor's report.
LEMMA ReportKeeps ==
    ASSUME AccountInv, NEW current \in SUBSET Sims, MonitorReports(current),
           UNCHANGED <<open, loop, slot>>
    PROVE  Balance' /\ queue' \in Seq(Messages) /\ last' = current
<1>1. PICK new \in Events("ProcessDetected", current \ last) :
        \E lost \in Events("ProcessLost", last \ current) :
           queue' = queue \o new \o lost
  BY DEF MonitorReports
<1>2. PICK lost \in Events("ProcessLost", last \ current) :
           queue' = queue \o new \o lost
  BY <1>1
<1>3. last' = current BY DEF MonitorReports
<1>4. /\ last \in SUBSET Sims /\ queue \in Seq(Messages)
      /\ IsFiniteSet(current \ last) /\ IsFiniteSet(last \ current)
  <2>1. last \in SUBSET Sims /\ queue \in Seq(Messages)
    BY DEF AccountInv, OtherTypes
  <2>2. current \ last \in SUBSET Sims /\ last \ current \in SUBSET Sims
    BY <2>1
  <2>3. QED BY <2>1, <2>2, ServiceAssumption, FS_Subset
<1>5. new \in Seq(Messages) /\ Leads(last, new, last \cup (current \ last))
  <2>1. current \ last \in SUBSET (Sims \ last) BY <1>4
  <2>2. QED BY <1>4, <2>1, LeadsDetected
<1>6. /\ lost \in Seq(Messages)
      /\ Leads(last \cup (current \ last), lost, current)
  <2> DEFINE all == last \cup (current \ last)
  <2>1. /\ all \in SUBSET Sims /\ last \ current \in SUBSET all
        /\ all \ (last \ current) = current
    BY <1>4
  <2> HIDE DEF all
  <2>2. lost \in Seq(Messages) /\ Leads(all, lost, all \ (last \ current))
    BY <1>4, <2>1, LeadsLost
  <2>3. QED BY <2>1, <2>2 DEF all
<1>7. new \o lost \in Seq(Messages) BY <1>5, <1>6
<1>8. Leads(last, new \o lost, last') BY <1>3, <1>5, <1>6, LeadsConcat
<1>9. queue' = queue \o (new \o lost) BY <1>2, <1>4, <1>5, <1>6
<1>10. QED BY <1>3, <1>7, <1>8, <1>9, Sent

\* The simulators, the detector's loop and the two monitors.
LEMMA SourceSteps ==
    ASSUME IInv, AccountInv,
           \/ Environment \/ ScanLoop \/ ScanLoopEnd \/ Monitor
           \/ MonitorOverwritten \/ BusMonitor
    PROVE  AccountInv'
<1> USE DEF world, monitorVars, busVars, loopVars, stopVars
<1>0. OtherTypes /\ plane \in [Sims -> Planes]
  BY DEF AccountInv, IInv, TaskTypes
<1>1. ASSUME OtherTypes', UNCHANGED <<open, loop, last, queue, slot>>
      PROVE  AccountInv'
  BY <1>1, Quiet DEF AccountInv, Balance
<1>2. CASE \E s \in Sims : \/ StartSim(s) \/ ExitSim(s)
                           \/ \E a \in Aircraft : LoadAircraft(s, a)
  <2>1. UNCHANGED <<open, loop, last, queue, slot>>
    BY <1>2 DEF StartSim, ExitSim, LoadAircraft
  <2>2. OtherTypes'
    BY <1>0, <1>2 DEF StartSim, ExitSim, LoadAircraft, OtherTypes
  <2>3. QED BY <1>1, <2>1, <2>2
<1>3. CASE \E s \in Sims : Publish(s)
  <2>1. PICK s \in Sims : Publish(s) BY <1>3
  <2>2. Snapshot(s, plane[s]) \in Snapshots
    BY <1>0 DEF Snapshot, Snapshots
  <2>3. UNCHANGED <<open, loop, last, queue, slot>> BY <2>1 DEF Publish
  <2>4. OtherTypes' BY <1>0, <2>1, <2>2 DEF Publish, OtherTypes
  <2>5. QED BY <1>1, <2>3, <2>4
<1>4. CASE StopCall
  <2>1. UNCHANGED <<open, loop, last, queue, slot>>
    BY <1>4 DEF StopCall, stopUnchanged
  <2>2. OtherTypes' BY <1>0, <1>4 DEF StopCall, stopUnchanged, OtherTypes
  <2>3. QED BY <1>1, <2>1, <2>2
<1>5. CASE ScanLoop \/ ScanLoopEnd
  <2>1. UNCHANGED <<open, loop, last, queue, slot>>
    BY <1>5 DEF ScanLoop, ScanLoopList, ScanLoopWrite, ScanLoopEnd
  <2>2. scanLoop' \in [pc : {"idle", "listed", "ended"},
                       list : SUBSET Sims, left : SUBSET Sims]
    BY <1>0, <1>5
       DEF ScanLoop, ScanLoopList, ScanLoopWrite, ScanLoopEnd, NotScanning,
           OtherTypes
  <2>3. OtherTypes'
    BY <1>0, <1>5, <2>2
       DEF ScanLoop, ScanLoopList, ScanLoopWrite, ScanLoopEnd, OtherTypes
  <2>4. QED BY <1>1, <2>1, <2>3
<1>6. CASE MonitorEnd \/ BusEnd
  <2>1. UNCHANGED <<open, loop, last, queue, slot>>
    BY <1>6 DEF MonitorEnd, BusEnd
  <2>2. OtherTypes' BY <1>0, <1>6 DEF MonitorEnd, BusEnd, OtherTypes
  <2>3. QED BY <1>1, <2>1, <2>2
<1>7. CASE MonitorScan
  <2>1. running \in SUBSET Sims BY <1>0 DEF OtherTypes
  <2>2. Balance' /\ queue' \in Seq(Messages) /\ last' = running
    BY <1>7, <2>1, ReportKeeps DEF MonitorScan
  <2>3. OtherTypes' BY <1>0, <1>7, <2>2 DEF MonitorScan, OtherTypes
  <2>4. QED BY <2>2, <2>3 DEF AccountInv, Balance
<1>8. CASE MonitorOverwritten
  <2>1. PICK written \in SUBSET scanLoop.left : MonitorScanOverwritten(written)
    BY <1>8 DEF MonitorOverwritten
  <2> DEFINE read == (running \ written) \cup (scanLoop.list \cap written)
  <2>2. /\ running \in SUBSET Sims
        /\ scanLoop \in [pc : {"idle", "listed", "ended"},
                         list : SUBSET Sims, left : SUBSET Sims]
    BY <1>0 DEF OtherTypes
  <2>3. read \in SUBSET Sims BY <2>2
  <2>4. MonitorReports(read) /\ ~ Closed /\ UNCHANGED <<open, loop, slot>>
    BY <2>1 DEF MonitorScanOverwritten
  <2>5. scanLoop' \in [pc : {"idle", "listed", "ended"},
                       list : SUBSET Sims, left : SUBSET Sims]
    BY <2>1, <2>2 DEF MonitorScanOverwritten, NotScanning
  <2> HIDE DEF read
  <2>6. Balance' /\ queue' \in Seq(Messages) /\ last' = read
    BY <2>3, <2>4, ReportKeeps
  <2>7. OtherTypes'
    BY <1>0, <2>1, <2>3, <2>5, <2>6 DEF MonitorScanOverwritten, OtherTypes
  <2>8. QED BY <2>6, <2>7 DEF AccountInv, Balance
<1>9. CASE BusPoll
  <2> DEFINE e == Event("TelemetryUpdate", bus.sim, bus.ac)
  <2>1. bus \in Snapshots BY <1>0, <1>9 DEF BusPoll, OtherTypes
  <2>2. e \in Messages /\ e.type \notin ProcessEvents
    BY <2>1, AsideEvents DEF Snapshots
  <2>3. queue' = Append(queue, e) BY <1>9 DEF BusPoll
  <2> HIDE DEF e
  <2>4. last \in SUBSET Sims /\ queue \in Seq(Messages)
    BY <1>0 DEF OtherTypes
  <2>5. <<e>> \in Seq(Messages) /\ Leads(last, <<e>>, last)
    BY <2>2, <2>4, LeadsAside
  <2>6. queue' = queue \o <<e>> BY <2>2, <2>3, <2>4
  <2>7. UNCHANGED <<open, loop, last, slot>> BY <1>9 DEF BusPoll
  <2>8. Balance' /\ queue' \in Seq(Messages) BY <2>5, <2>6, <2>7, Sent
  <2>9. OtherTypes' BY <1>0, <1>9, <2>8 DEF BusPoll, OtherTypes
  <2>10. QED BY <2>8, <2>9 DEF AccountInv, Balance
<1>10. QED
  BY <1>2, <1>3, <1>4, <1>5, <1>6, <1>7, <1>8, <1>9
     DEF Environment, Monitor, BusMonitor

\* The adapter tasks send their reports, which are not about processes.
LEMMA ReportSteps ==
    ASSUME IInv, AccountInv, NEW s \in TaskSims, TaskRuns(s) \/ TaskShutdown(s)
    PROVE  AccountInv'
<1> USE DEF taskUnchanged, world, monitorVars, busVars, loopVars, stopVars
<1>0. OtherTypes /\ s \in Sims /\ task[s] \in TaskRecords
  BY DEF AccountInv, IInv, TaskTypes, Sims
<1>1. UNCHANGED taskUnchanged
  BY DEF TaskRuns, TaskStarted, TaskStartFails, TaskPoll, TaskReport,
         TaskSendFails, TaskShutdown
<1>2. CASE TaskReport(s)
  <2> DEFINE a == task[s].seen
             one == IF s \in Streaming THEN <<Event("TelemetryUpdate", s, a)>>
                    ELSE <<>>
             two == IF task[s].last # a
                      THEN <<Event("AircraftDetected", s, a)>> ELSE <<>>
  <2>1. queue' = queue \o (one \o two) BY <1>2 DEF TaskReport, Reports
  <2>2. a \in Planes BY <1>0 DEF TaskRecords
  <2>3. last \in SUBSET Sims BY <1>0 DEF OtherTypes
  <2> HIDE DEF a
  <2>4. one \in Seq(Messages) /\ Leads(last, one, last)
    BY <1>0, <2>2, <2>3, AsideEvents, LeadsAside, LeadsNowhere
  <2>5. two \in Seq(Messages) /\ Leads(last, two, last)
    BY <1>0, <2>2, <2>3, AsideEvents, LeadsAside, LeadsNowhere
  <2> HIDE DEF one, two
  <2>6. one \o two \in Seq(Messages) /\ Leads(last, one \o two, last)
    BY <2>4, <2>5, LeadsConcat
  <2>7. Balance' /\ queue' \in Seq(Messages) BY <1>1, <2>1, <2>6, Sent
  <2>8. OtherTypes' BY <1>0, <1>1, <2>7 DEF OtherTypes
  <2>9. QED BY <2>7, <2>8 DEF AccountInv, Balance
<1>3. CASE ~ TaskReport(s)
  <2>1. UNCHANGED queue
    BY <1>3 DEF TaskRuns, TaskStarted, TaskStartFails, TaskPoll,
                TaskSendFails, TaskShutdown
  <2>2. OtherTypes' BY <1>0, <1>1, <2>1 DEF OtherTypes
  <2>3. QED BY <1>1, <2>1, <2>2, Quiet DEF AccountInv, Balance
<1>4. QED BY <1>2, <1>3

\* What the event loop has not to do with.
LEMMA LoopLeaves ==
    ASSUME Loop
    PROVE  UNCHANGED <<running, scanLoop, monitor, last, bus, busMonitor,
                       locked>>
  BY DEF Loop, LoopDetected, LoopLost, LoopStopped, LoopAircraft,
         LoopTelemetry, LoopShutdown, loopUnchanged, world, monitorVars,
         busVars, stopVars

\* A process event taken from the channel is one that can happen: a start of a
\* simulator that is not connected, a loss of one that is.
LEMMA Takes ==
    ASSUME AccountInv, NEW type \in EventTypes, Receives(type)
    PROVE  \E R \in SUBSET Sims :
             Follows(Connected, Head(queue), R) /\ Leads(R, Tail(queue), last)
<1>1. queue \in Seq(Messages) /\ queue # <<>> /\ ~ Closed
  BY DEF AccountInv, OtherTypes, Receives, Closed
<1>2. Leads(Connected, queue, last) BY <1>1 DEF AccountInv, ChannelAgrees
<1>3. QED BY <1>1, <1>2, LeadsTail

\* An event that is not about processes leaves the connections.
LEMMA TakesAside ==
    ASSUME AccountInv, NEW type \in EventTypes \ ProcessEvents, Receives(type)
    PROVE  Leads(Connected, Tail(queue), last)
<1>1. PICK R \in SUBSET Sims :
         Follows(Connected, Head(queue), R) /\ Leads(R, Tail(queue), last)
  BY Takes
<1>2. Head(queue).type = type BY DEF Receives
<1>3. R = Connected BY <1>1, <1>2 DEF Follows, ProcessEvents
<1>4. QED BY <1>1, <1>3

\* The event loop: a start and a loss are counted as they come.
LEMMA CountSteps ==
    ASSUME AccountInv, Loop
    PROVE  AccountInv'
<1>0. /\ OtherTypes /\ Departing /\ WithinConnection
      /\ UNCHANGED <<running, scanLoop, monitor, last, bus, busMonitor,
                     locked>>
  BY LoopLeaves DEF AccountInv
<1> DEFINE s == Head(queue).sim
           a == Head(queue).ac
<1>1. CASE LoopDetected
  <2>1. Receives("ProcessDetected") /\ loop.pc = "idle"
    BY <1>1 DEF LoopDetected, Receives
  <2>2. s \in Sims /\ Head(queue).type = "ProcessDetected"
        /\ Tail(queue) \in Seq(Messages)
    BY <1>0, <2>1, HeadIsMessage DEF EventTypes
  <2>3. PICK R \in SUBSET Sims :
          Follows(Connected, Head(queue), R) /\ Leads(R, Tail(queue), last)
    BY <2>1, Takes DEF EventTypes
  <2>4. s \notin Connected /\ R = Connected \cup {s}
    BY <2>2, <2>3 DEF Follows, ProcessEvents
  <2>5. /\ open' = [open EXCEPT ![s] = @ + 1]
        /\ slot' = IF s \in OtherSims THEN slot ELSE slot \cup {s}
        /\ queue' = Tail(queue) /\ UNCHANGED <<loop, tracked, told>>
    BY <1>1 DEF LoopDetected, Spawn
  <2> HIDE DEF s
  <2>6. open[s] = 0
    BY <1>0, <2>1, <2>2, <2>4 DEF Connected, Leaving, OtherTypes
  <2>7. open' = [open EXCEPT ![s] = 1] /\ open \in [Sims -> {0, 1}]
    BY <1>0, <2>5, <2>6 DEF OtherTypes
  <2>8. OtherTypes'
    <3>1. open' \in [Sims -> {0, 1}] BY <2>7
    <3>2. slot' \in SUBSET (Sims \ OtherSims)
      BY <1>0, <2>2, <2>5 DEF OtherTypes
    <3>3. QED BY <1>0, <2>2, <2>5, <3>1, <3>2 DEF OtherTypes
  <2>9. Connected' = R
    BY <2>1, <2>2, <2>4, <2>5, <2>7 DEF Connected, Leaving
  <2>10. Departing' BY <2>1, <2>5 DEF Departing, Leaving
  <2>11. WithinConnection'
    BY <1>0, <2>2, <2>5, <2>7 DEF WithinConnection, OtherTypes
  <2>12. ChannelAgrees'
    BY <1>0, <2>3, <2>5, <2>9 DEF ChannelAgrees
  <2>13. QED BY <2>8, <2>10, <2>11, <2>12 DEF AccountInv
<1>2. CASE LoopLost
  <2>1. Receives("ProcessLost") /\ loop.pc = "idle"
    BY <1>2 DEF LoopLost, Receives
  <2>2. s \in Sims /\ Head(queue).type = "ProcessLost"
        /\ Tail(queue) \in Seq(Messages)
    BY <1>0, <2>1, HeadIsMessage DEF EventTypes
  <2>3. PICK R \in SUBSET Sims :
          Follows(Connected, Head(queue), R) /\ Leads(R, Tail(queue), last)
    BY <2>1, Takes DEF EventTypes
  <2>4. s \in Connected /\ R = Connected \ {s}
    BY <2>2, <2>3 DEF Follows, ProcessEvents
  <2>5. /\ slot' = slot \ {s}
        /\ loop' = [pc |-> IF s \in slot \cap TaskSims THEN "joining"
                           ELSE "lost", sim |-> s]
        /\ queue' = Tail(queue) /\ UNCHANGED <<tracked, open, told>>
    BY <1>2 DEF LoopLost
  <2> HIDE DEF s
  <2>6. open[s] = 1 BY <2>4 DEF Connected
  <2>7. loop'.pc \in {"joining", "lost"} /\ loop'.sim = s BY <2>5
  <2>8. OtherTypes' BY <1>0, <2>2, <2>5 DEF OtherTypes
  <2>9. Connected' = R
    BY <2>1, <2>4, <2>5, <2>7 DEF Connected, Leaving
  <2>10. Departing' BY <2>2, <2>5, <2>6, <2>7 DEF Departing, Leaving
  <2>11. WithinConnection' BY <1>0, <2>5 DEF WithinConnection
  <2>12. ChannelAgrees'
    BY <1>0, <2>3, <2>5, <2>9 DEF ChannelAgrees
  <2>13. QED BY <2>8, <2>10, <2>11, <2>12 DEF AccountInv
<1>3. CASE LoopStopped
  <2> DEFINE u == loop.sim
  <2>1. Leaving BY <1>3 DEF LoopStopped, Leaving
  <2>2. u \in Sims /\ open[u] = 1 /\ u \notin slot
    BY <1>0, <2>1 DEF Departing
  <2>3. /\ open' = [open EXCEPT ![u] = @ - 1]
        /\ tracked' = [tracked EXCEPT ![u] = None]
        /\ told' = [told EXCEPT ![u] = None]
        /\ loop' = [pc |-> "idle", sim |-> None]
        /\ UNCHANGED <<queue, slot>>
    BY <1>3 DEF LoopStopped
  <2>4. Connected = {t \in Sims : open[t] = 1 /\ t # u}
    BY <2>1 DEF Connected
  <2> HIDE DEF u
  <2>5. open' = [open EXCEPT ![u] = 0] /\ open \in [Sims -> {0, 1}]
    BY <1>0, <2>2, <2>3 DEF OtherTypes
  <2>6. None \in Planes BY DEF Planes
  <2>7. OtherTypes'
    <3>1. open' \in [Sims -> {0, 1}] BY <2>5
    <3>2. tracked' \in [Sims -> Planes] /\ told' \in [Sims -> Planes]
      BY <1>0, <2>3, <2>6 DEF OtherTypes
    <3>3. QED BY <1>0, <2>3, <3>1, <3>2 DEF OtherTypes
  <2>8. Connected' = Connected
    BY <2>2, <2>3, <2>4, <2>5 DEF Connected, Leaving
  <2>9. Departing' BY <2>3 DEF Departing, Leaving
  <2>10. WithinConnection'
    BY <1>0, <2>2, <2>3, <2>5 DEF WithinConnection, OtherTypes
  <2>11. ChannelAgrees'
    BY <1>0, <2>1, <2>3, <2>8 DEF AccountInv, ChannelAgrees, Leaving, Closed
  <2>12. QED BY <2>7, <2>9, <2>10, <2>11 DEF AccountInv
<1>4. CASE LoopAircraft
  <2>1. Receives("AircraftDetected") BY <1>4 DEF LoopAircraft
  <2>2. s \in Sims /\ a \in Planes /\ Tail(queue) \in Seq(Messages)
    BY <1>0, <2>1, HeadIsMessage DEF EventTypes
  <2>3. Leads(Connected, Tail(queue), last)
    BY <2>1, TakesAside DEF EventTypes, ProcessEvents
  <2>4. /\ told' = [told EXCEPT ![s] = a] /\ queue' = Tail(queue)
        /\ UNCHANGED <<loop, tracked, open, slot>>
    BY <1>4 DEF LoopAircraft
  <2> HIDE DEF s, a
  <2>5. told' \in [Sims -> Planes] BY <1>0, <2>2, <2>4 DEF OtherTypes
  <2>6. OtherTypes' BY <1>0, <2>2, <2>4, <2>5 DEF OtherTypes
  <2>7. Connected' = Connected BY <2>4 DEF Connected, Leaving
  <2>8. ChannelAgrees' BY <1>0, <2>3, <2>4, <2>7 DEF ChannelAgrees
  <2>9. Departing' /\ WithinConnection'
    BY <1>0, <2>4 DEF Departing, WithinConnection, Leaving
  <2>10. QED BY <2>6, <2>8, <2>9 DEF AccountInv
<1>5. CASE LoopTelemetry
  <2> DEFINE e == Event("AircraftDetected", s, a)
  <2>1. Receives("TelemetryUpdate") BY <1>5 DEF LoopTelemetry
  <2>2. s \in Sims /\ a \in Planes /\ Tail(queue) \in Seq(Messages)
    BY <1>0, <2>1, HeadIsMessage DEF EventTypes
  <2>3. Leads(Connected, Tail(queue), last) /\ last \in SUBSET Sims
    BY <1>0, <2>1, TakesAside DEF EventTypes, ProcessEvents, OtherTypes
  <2>4. /\ tracked' \in {tracked, [tracked EXCEPT ![s] = a]}
        /\ queue' \in {Tail(queue), Append(Tail(queue), e)}
        /\ UNCHANGED <<loop, open, told, slot>>
    BY <1>5 DEF LoopTelemetry
  <2>5. e \in Messages /\ e.type \notin ProcessEvents
    BY <2>2, AsideEvents
  <2> HIDE DEF s, a, e
  <2>6. <<e>> \in Seq(Messages) /\ Leads(last, <<e>>, last)
    BY <2>3, <2>5, LeadsAside
  <2>7. ASSUME NEW q \in Seq(Messages), Leads(Connected, q, last)
        PROVE  /\ Append(q, e) \in Seq(Messages)
               /\ Leads(Connected, Append(q, e), last)
    <3>1. Append(q, e) = q \o <<e>> /\ q \o <<e>> \in Seq(Messages) BY <2>5
    <3>2. Leads(Connected, q \o <<e>>, last) BY <2>6, <2>7, LeadsConcat
    <3>3. QED BY <3>1, <3>2
  <2>8. /\ Append(Tail(queue), e) \in Seq(Messages)
        /\ Leads(Connected, Append(Tail(queue), e), last)
    BY <2>2, <2>3, <2>7
  <2>9. queue' \in Seq(Messages) /\ Leads(Connected, queue', last)
    BY <2>2, <2>3, <2>4, <2>8
  <2>10. tracked' \in [Sims -> Planes] BY <1>0, <2>2, <2>4 DEF OtherTypes
  <2>11. OtherTypes' BY <1>0, <2>4, <2>9, <2>10 DEF OtherTypes
  <2>12. Connected' = Connected BY <2>4 DEF Connected, Leaving
  <2>13. ChannelAgrees' BY <1>0, <2>9, <2>12 DEF ChannelAgrees
  <2>14. Departing' /\ WithinConnection'
    BY <1>0, <2>4 DEF Departing, WithinConnection, Leaving
  <2>15. QED BY <2>11, <2>13, <2>14 DEF AccountInv
<1>6. CASE LoopShutdown
  <2>1. /\ loop' = [pc |-> "ended", sim |-> None] /\ queue' = <<>>
        /\ UNCHANGED <<tracked, open, told, slot>>
    BY <1>6 DEF LoopShutdown
  <2>2. OtherTypes' BY <1>0, <2>1 DEF OtherTypes
  <2>3. Departing' /\ WithinConnection' /\ ChannelAgrees'
    BY <1>0, <2>1
       DEF Departing, WithinConnection, ChannelAgrees, Leaving, Closed
  <2>4. QED BY <2>2, <2>3 DEF AccountInv
<1>7. QED BY <1>1, <1>2, <1>3, <1>4, <1>5, <1>6 DEF Loop

\* stop() empties the slots and announces the shutdown.
LEMMA AnnounceSteps ==
    ASSUME AccountInv, Stopping
    PROVE  AccountInv'
<1> USE DEF stopUnchanged, world, monitorVars, busVars, loopVars
<1>0. OtherTypes BY DEF AccountInv
<1>1. ASSUME UNCHANGED <<open, loop, last, queue>>, slot' \in SUBSET slot,
             UNCHANGED stopUnchanged, locked' \in BOOLEAN
      PROVE  AccountInv'
  <2>1. OtherTypes' BY <1>0, <1>1 DEF OtherTypes
  <2>2. QED BY <1>1, <2>1, Quiet DEF AccountInv, Balance
<1>2. CASE StopTakeAll
  <2>1. /\ UNCHANGED <<open, loop, last, queue>> /\ slot' = {}
        /\ UNCHANGED stopUnchanged /\ locked' = TRUE
    BY <1>2 DEF StopTakeAll
  <2>2. QED BY <1>1, <2>1
<1>3. CASE StopSend
  <2>1. /\ queue' = queue \/ queue' = Append(queue, Shutdown)
        /\ UNCHANGED <<stopUnchanged, slot>> /\ locked' = FALSE
    BY <1>3 DEF StopSend
  <2>2. CASE queue' = queue BY <1>1, <2>1, <2>2
  <2>3. CASE queue' = Append(queue, Shutdown)
    <3>1. last \in SUBSET Sims /\ queue \in Seq(Messages)
      BY <1>0 DEF OtherTypes
    <3>2. <<Shutdown>> \in Seq(Messages) /\ Leads(last, <<Shutdown>>, last)
      BY <3>1, AsideEvents, LeadsAside
    <3>3. queue' = queue \o <<Shutdown>> BY <2>3, <3>1, AsideEvents
    <3>4. Balance' /\ queue' \in Seq(Messages) BY <2>1, <3>2, <3>3, Sent
    <3>5. OtherTypes' BY <1>0, <2>1, <3>4 DEF OtherTypes
    <3>6. QED BY <3>4, <3>5 DEF AccountInv, Balance
  <2>4. QED BY <2>1, <2>2, <2>3
<1>4. QED BY <1>2, <1>3 DEF Stopping

\* The channel and the adapters agree, in every behaviour.
THEOREM Accounting == Spec => []AccountInv
<1>1. Init => AccountInv
  <2> SUFFICES ASSUME Init PROVE AccountInv
    OBVIOUS
  <2>1. queue = <<>> /\ last = {} /\ Connected = {} /\ None \in Planes
    BY DEF Init, Connected, Planes
  <2>2. OtherTypes
    <3>1. scanLoop \in [pc : {"idle", "listed", "ended"},
                        list : SUBSET Sims, left : SUBSET Sims]
      BY DEF Init, NotScanning
    <3>2. loop \in [pc : {"idle", "joining", "lost", "ended"},
                    sim : Sims \cup {None}]
      BY DEF Init
    <3>3. /\ tracked \in [Sims -> Planes] /\ told \in [Sims -> Planes]
          /\ open \in [Sims -> {0, 1}]
      BY <2>1 DEF Init
    <3>4. queue \in Seq(Messages) BY <2>1
    <3>5. locked \in BOOLEAN BY DEF Init
    <3>6. QED BY <2>1, <3>1, <3>2, <3>3, <3>4, <3>5 DEF Init, OtherTypes
  <2>3. {} \in SUBSET Sims OBVIOUS
  <2>4. Leads({}, <<>>, {}) BY <2>3, LeadsNowhere
  <2>5. Departing /\ WithinConnection
    BY DEF Init, Departing, WithinConnection, Leaving
  <2>6. QED BY <2>1, <2>2, <2>4, <2>5 DEF AccountInv, ChannelAgrees
<1>2. IInv /\ AccountInv /\ [Next]_vars => AccountInv'
  <2> SUFFICES ASSUME IInv, AccountInv, [Next]_vars PROVE AccountInv'
    OBVIOUS
  <2>1. CASE UNCHANGED vars
    <3>1. /\ UNCHANGED <<open, loop, last, queue, slot>>
          /\ OtherTypes'
      BY <2>1 DEF AccountInv, OtherTypes, vars, world, monitorVars, busVars,
                  loopVars, stopVars
    <3>2. QED BY <3>1, Quiet DEF AccountInv, Balance
  <2>2. CASE Next
    BY <2>2, SourceSteps, ReportSteps, CountSteps, AnnounceSteps DEF Next
  <2>3. QED BY <2>1, <2>2
<1>3. QED BY <1>1, <1>2, Invariance, PTL DEF Spec

\* For every set of simulators and every length of the channel: connections and
\* disconnections never drift apart, and an adapter exists only within a
\* connection.
THEOREM AdaptersAreAccounted == Spec => []AdapterIsAccounted
<1>1. AccountInv => AdapterIsAccounted
  BY DEF AccountInv, OtherTypes, WithinConnection, AdapterIsAccounted
<1>2. QED BY <1>1, Accounting, PTL

\* Every variable keeps its type.
THEOREM TypeCorrect == Spec => []TypeOK
<1>1. IInv /\ AccountInv => TypeOK
  <2> SUFFICES ASSUME IInv, AccountInv PROVE TypeOK
    OBVIOUS
  <2>1. queue \in Seq([type : EventTypes, sim : Sims \cup {None}, ac : Planes])
    <3> DEFINE E == [type : EventTypes, sim : Sims \cup {None}, ac : Planes]
    <3>1. Messages \subseteq E
      BY DEF Messages, Shutdown, Event, EventTypes, Planes
    <3>2. queue \in Seq(Messages) BY DEF AccountInv, OtherTypes
    <3> HIDE DEF E
    <3>3. queue \in Seq(E) BY <3>1, <3>2
    <3>4. QED BY <3>3 DEF E
  <2>2. scanLoop \in [pc : {"idle", "listed", "ended"},
                      list : SUBSET Sims, left : SUBSET Sims]
    BY DEF AccountInv, OtherTypes
  <2>3. open \in [Sims -> Nat] BY DEF AccountInv, OtherTypes
  <2>4. QED
    BY <2>1, <2>2, <2>3
       DEF TypeOK, IInv, TaskTypes, TaskRecords, StopLocks, AccountInv,
           OtherTypes
<1>2. QED BY <1>1, Invariance, Accounting, PTL
=============================================================================
