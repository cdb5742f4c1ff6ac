------------------------ MODULE ProfileSwitch_proofs ------------------------
(***************************************************************************)
(* Proofs about ProfileSwitch, for every set of simulators, aircraft,      *)
(* files and phases and for every number of edits, frames and ticks.  The  *)
(* two halves of the state are independent, and so are their invariants.   *)
(***************************************************************************)
EXTENDS ProfileSwitch, TLAPS

-----------------------------------------------------------------------------
(* The phase of flight *)

Trackers == [pof : Phases \cup {None}, age : 0..MinPhase,
             candidate : Phases \cup {None}, count : Nat]

\* The frames of a candidate are frames that telemetry showed in a row, up to
\* where the history variable stops counting.
CandidateIsSeen ==
    /\ tracker \in Trackers
    /\ streak \in [phase : Phases \cup {None}, n : 0..Frames]
    /\ tracker.candidate # None =>
          /\ streak.phase = tracker.candidate
          /\ streak.n >= tracker.count \/ streak.n = Frames

PhaseChange ==
    tracker'.pof # tracker.pof =>
        /\ streak' = [phase |-> tracker'.pof, n |-> Frames]
        /\ tracker.pof # None => tracker.age = MinPhase

\* One frame of telemetry keeps the invariant, and changes the phase only
\* when its frames and its time are complete.
LEMMA TelemetryStep ==
    ASSUME CandidateIsSeen, NEW ph \in Phases, Telemetry(ph)
    PROVE  CandidateIsSeen' /\ PhaseChange
<1> DEFINE n == Older(tracker.count, Frames + 1)
           m == IF streak.phase = ph THEN Older(streak.n, Frames) ELSE 1
<1>1. /\ tracker.pof \in Phases \cup {None} /\ tracker.age \in 0..MinPhase
      /\ tracker.candidate \in Phases \cup {None} /\ tracker.count \in Nat
      /\ streak.phase \in Phases \cup {None} /\ streak.n \in 0..Frames
      /\ Frames \in Nat \ {0} /\ MinPhase \in Nat /\ None \notin Phases
    BY SwitchAssumption DEF CandidateIsSeen, Trackers
<1>2. n \in Nat /\ m \in 0..Frames
    BY <1>1 DEF Older
<1>3. /\ streak' = [phase |-> ph, n |-> m]
      /\ tracker' = UpdatePof(ph)
    BY DEF Telemetry
<1>4. streak'.phase = ph /\ streak'.n = m
    BY <1>3
<1>5. ASSUME NEW c \in {ph, None}, NEW k \in Nat, tracker' = Counting(c, k),
             c # None => m >= k \/ m = Frames
      PROVE  CandidateIsSeen' /\ PhaseChange
  <2>1. /\ tracker'.pof = tracker.pof /\ tracker'.candidate = c
        /\ tracker'.count = k
      BY <1>5 DEF Counting
  <2>2. tracker' \in Trackers
      BY <1>1, <1>5 DEF Counting, Trackers
  <2>3. streak' \in [phase : Phases \cup {None}, n : 0..Frames]
      BY <1>2, <1>3
  <2> HIDE DEF m, n
  <2>4. QED BY <1>4, <1>5, <2>1, <2>2, <2>3 DEF CandidateIsSeen, PhaseChange
<1>6. CASE tracker.pof = ph
  <2>1. tracker' = Counting(None, 0)
      BY <1>3, <1>6 DEF UpdatePof
  <2>2. QED BY <1>5, <2>1
<1>7. CASE tracker.pof # ph /\ tracker.candidate # ph
  <2>1. tracker' = Counting(ph, 1)
      BY <1>3, <1>7 DEF UpdatePof
  <2>2. m >= 1
      BY <1>1 DEF Older
  <2> HIDE DEF m, n
  <2>3. QED BY <1>5, <2>1, <2>2
<1>8. CASE tracker.pof # ph /\ tracker.candidate = ph
  <2>1. streak.phase = ph /\ (streak.n >= tracker.count \/ streak.n = Frames)
      BY <1>1, <1>8 DEF CandidateIsSeen
  <2>2. m >= n \/ m = Frames
      BY <1>1, <2>1 DEF Older
  <2>3. n >= Frames => m = Frames
      BY <1>1, <2>1 DEF Older
  <2>4. CASE n >= Frames /\ LongEnough
    <3>1. tracker' = Adopted(ph)
        BY <1>3, <1>8, <2>4 DEF UpdatePof
    <3>2. /\ tracker'.pof = ph /\ tracker'.candidate = None
          /\ tracker' \in Trackers
        BY <1>1, <3>1 DEF Adopted, Trackers
    <3>3. tracker.pof # None => tracker.age = MinPhase
        BY <1>1, <2>4 DEF LongEnough
    <3>4. m = Frames
        BY <2>3, <2>4
    <3>5. streak' \in [phase : Phases \cup {None}, n : 0..Frames]
        BY <1>2, <1>3
    <3> HIDE DEF m, n
    <3>6. QED BY <1>3, <3>2, <3>3, <3>4, <3>5 DEF CandidateIsSeen, PhaseChange
  <2>5. CASE ~(n >= Frames /\ LongEnough)
    <3>1. tracker' = Counting(ph, n)
        BY <1>3, <1>8, <2>5 DEF UpdatePof
    <3> HIDE DEF m, n
    <3>2. QED BY <1>2, <1>5, <2>2, <3>1
  <2>6. QED BY <2>4, <2>5
<1>9. QED BY <1>6, <1>7, <1>8

\* Time changes the age of the phase only.
LEMMA TickStep ==
    ASSUME CandidateIsSeen, Tick
    PROVE  CandidateIsSeen' /\ PhaseChange
<1>1. /\ tracker.pof \in Phases \cup {None} /\ tracker.age \in 0..MinPhase
      /\ tracker.candidate \in Phases \cup {None} /\ tracker.count \in Nat
      /\ MinPhase \in Nat
    BY SwitchAssumption DEF CandidateIsSeen, Trackers
<1>2. Older(tracker.age, MinPhase) \in 0..MinPhase
    BY <1>1 DEF Older
<1>3. /\ tracker' = [tracker EXCEPT !.age = Older(tracker.age, MinPhase)]
      /\ streak' = streak
    BY DEF Tick
<1>4. /\ tracker' \in Trackers /\ tracker'.pof = tracker.pof
      /\ tracker'.candidate = tracker.candidate
      /\ tracker'.count = tracker.count
    BY <1>2, <1>3 DEF CandidateIsSeen, Trackers
<1>5. QED BY <1>3, <1>4 DEF CandidateIsSeen, PhaseChange

\* Every step keeps the invariant and respects frames and time.
LEMMA PhaseStep ==
    ASSUME CandidateIsSeen, [Next]_vars
    PROVE  CandidateIsSeen' /\ PhaseChange
<1>1. ASSUME UNCHANGED <<tracker, streak>>
      PROVE  CandidateIsSeen' /\ PhaseChange
    BY <1>1 DEF CandidateIsSeen, PhaseChange
<1> USE DEF phaseVars
<1>2. CASE Callers
    BY <1>1, <1>2
       DEF Callers, OnAircraftDetected, ForceSwitch, InvalidateCache, Send
<1>3. CASE \E f \in Editable : BeginSave(f) \/ EndSave(f)
    BY <1>1, <1>3 DEF BeginSave, EndSave
<1>4. CASE Loop
    BY <1>1, <1>4
       DEF Loop, Load, DetectSame, DetectHit, DetectMiss, Read, ReadGlobal,
           ReadSim, ReadAircraft, LoadDone, LoadFails, InvalidateHandled
<1>5. CASE UNCHANGED vars
    BY <1>1, <1>5 DEF vars
<1>6. QED
    BY <1>2, <1>3, <1>4, <1>5, TelemetryStep, TickStep DEF Next

\* The candidate's frames have always been seen in a row.
THEOREM CandidatesAreSeen == Spec => []CandidateIsSeen
<1>1. Init => CandidateIsSeen
    BY SwitchAssumption DEF Init, CandidateIsSeen, Trackers
<1>2. CandidateIsSeen /\ [Next]_vars => CandidateIsSeen'
    BY PhaseStep
<1>3. QED BY <1>1, <1>2, PTL DEF Spec

\* For every number of frames and every minimum time: the phase changes only
\* after that many equal frames in a row, and not before the time of the
\* phase before it is over (update_pof_with_hysteresis).
THEOREM PhasesNeedFrames == Spec => PhaseNeedsFrames
<1>1. CandidateIsSeen /\ [Next]_vars => [PhaseChange]_vars
    BY PhaseStep
<1>2. QED
    BY <1>1, CandidatesAreSeen, PTL DEF Spec, PhaseNeedsFrames, PhaseChange
-----------------------------------------------------------------------------
(* Profiles and invalidations *)

Versions == [Files -> Nat]

\* These saves have been made.
Past(v) == \A f \in Files : v[f] <= disk[f].ver

Detections == [type : {"AircraftDetected"}, sim : AllSims, ac : Aircraft,
               saves : {None}]
Invalidations == [type : {"InvalidateCache"}, sim : {None},
                  ac : Aircraft \cup {None}, saves : Versions]

Requests ==
    /\ queue \in Seq(Detections \cup Invalidations)
    /\ \A i \in 1..Len(queue) :
          queue[i].type = "InvalidateCache" => Past(queue[i].saves)

\* What the last invalidation of aircraft a promises of profile p.
Fresh(p, a) ==
    /\ p.sim \in AllSims
    /\ \A l \in Layers :
          p.layers[l] # Missing => p.layers[l] >= floor[a][FileOf(p, a, l)]

Disk == disk \in [Files -> [ver : Nat, whole : BOOLEAN]]

Floors ==
    /\ floor \in [Aircraft -> Versions]
    /\ \A a \in Aircraft : Past(floor[a])

CacheIsFresh == \A a \in Aircraft : cache[a] # None => Fresh(cache[a].profile, a)

\* What has been read so far is fresh, because no invalidation is processed
\* while files are read.
LoadIsFresh ==
    loop.pc # "idle" =>
        /\ loop.sim \in AllSims /\ loop.ac \in Aircraft
        /\ loop.got \in [Layers -> Nat \cup {Missing}]
        /\ Fresh(Loaded, loop.ac)

Promises == Disk /\ Requests /\ Floors /\ CacheIsFresh /\ LoadIsFresh

RespectsFloor == Installs => NewerThan(floor[current'.ac])

\* A fresh profile may be installed.
LEMMA FreshInstall ==
    ASSUME NEW s, NEW a, NEW p, Fresh(p, a), Install(s, a, p)
    PROVE  RespectsFloor
<1>1. current'.ac = a /\ current'.profile = p
    BY DEF Install
<1>2. QED BY <1>1 DEF RespectsFloor, NewerThan, Fresh

\* The first request and the rest of the channel.
LEMMA Receive ==
    ASSUME Requests, queue # <<>>, queue' = Tail(queue), UNCHANGED disk
    PROVE  /\ Requests'
           /\ Head(queue) \in Detections \cup Invalidations
           /\ Head(queue).type = "InvalidateCache" => Past(Head(queue).saves)
<1> DEFINE S == Detections \cup Invalidations
<1>1. queue \in Seq(S) BY DEF Requests
<1> HIDE DEF S
<1>2. /\ Head(queue) \in S /\ Head(queue) = queue[1]
      /\ queue' \in Seq(S) /\ 1 \in 1..Len(queue)
      /\ \A i \in 1..Len(queue') : /\ i + 1 \in 1..Len(queue)
                                   /\ queue'[i] = queue[i + 1]
    BY <1>1
<1>3. \A i \in 1..Len(queue') :
         queue'[i].type = "InvalidateCache" => Past(queue'[i].saves)
    BY <1>2 DEF Requests
<1>4. Requests'
    BY <1>2, <1>3 DEF Requests, Past, S
<1>5. QED BY <1>2, <1>4 DEF Requests, S

\* Sending keeps what is in the channel.
LEMMA SendStep ==
    ASSUME Promises, NEW r \in Detections \cup Invalidations, Send(r),
           r.type = "InvalidateCache" => Past(r.saves)
    PROVE  Promises' /\ RespectsFloor
<1> DEFINE S == Detections \cup Invalidations
<1>1. /\ queue' = Append(queue, r)
      /\ UNCHANGED <<disk, loop, current, cache, floor>>
    BY DEF Send, phaseVars
<1>2. queue \in Seq(S) /\ r \in S BY DEF Promises, Requests
<1> HIDE DEF S
<1>3. /\ queue' \in Seq(S)
      /\ \A i \in 1..Len(queue') : \/ i \in 1..Len(queue) /\ queue'[i] = queue[i]
                                   \/ queue'[i] = r
    BY <1>1, <1>2
<1>4. \A i \in 1..Len(queue') :
         queue'[i].type = "InvalidateCache" => Past(queue'[i].saves)
    BY <1>3 DEF Promises, Requests
<1>5. Requests'
    BY <1>1, <1>3, <1>4 DEF Requests, Past, S
<1>6. QED
    BY <1>1, <1>5
       DEF Promises, Disk, Floors, CacheIsFresh, LoadIsFresh, Fresh, Loaded,
           Past, RespectsFloor, Installs

\* What callers ask for.
LEMMA CallersStep ==
    ASSUME Promises, Callers
    PROVE  Promises' /\ RespectsFloor
<1>1. ASSUME NEW s \in AllSims, NEW a \in Aircraft, Send(Detect(s, a))
      PROVE  Promises' /\ RespectsFloor
  <2>1. Detect(s, a) \in Detections /\ Detect(s, a).type # "InvalidateCache"
      BY DEF Detect, Detections
  <2>2. QED BY <1>1, <2>1, SendStep
<1>2. ASSUME NEW a \in Aircraft \cup {None}, Send(Invalidate(a))
      PROVE  Promises' /\ RespectsFloor
  <2>1. Saves \in Versions /\ Past(Saves)
      BY DEF Promises, Disk, Saves, Versions, Past
  <2>2. Invalidate(a) \in Invalidations /\ Invalidate(a).saves = Saves
      BY <2>1 DEF Invalidate, Invalidations
  <2>3. QED BY <1>2, <2>1, <2>2, SendStep
<1>3. QED
    BY <1>1, <1>2
       DEF Callers, OnAircraftDetected, ForceSwitch, InvalidateCache, AllSims

\* Saves only add to what has been saved.
LEMMA SaveStep ==
    ASSUME Promises, NEW f \in Editable, BeginSave(f) \/ EndSave(f)
    PROVE  Promises' /\ RespectsFloor
<1>1. UNCHANGED <<queue, loop, current, cache, floor>>
    BY DEF BeginSave, EndSave, profileVars
<1>2. f \in Files BY SwitchAssumption
<1>3. PICK r \in [ver : Nat, whole : BOOLEAN] :
        disk' = [disk EXCEPT ![f] = r] /\ disk[f].ver <= r.ver
  <2>1. disk[f].ver \in Nat BY <1>2 DEF Promises, Disk
  <2>2. CASE BeginSave(f)
    <3> DEFINE r == [ver |-> disk[f].ver, whole |-> FALSE]
    <3>1. r \in [ver : Nat, whole : BOOLEAN] /\ disk[f].ver <= r.ver BY <2>1
    <3>2. disk' = [disk EXCEPT ![f] = r] BY <2>2 DEF BeginSave
    <3>3. QED BY <3>1, <3>2
  <2>3. CASE EndSave(f)
    <3> DEFINE r == [ver |-> disk[f].ver + 1, whole |-> TRUE]
    <3>1. r \in [ver : Nat, whole : BOOLEAN] /\ disk[f].ver <= r.ver BY <2>1
    <3>2. disk' = [disk EXCEPT ![f] = r] BY <2>3 DEF EndSave
    <3>3. QED BY <3>1, <3>2
  <2>4. QED BY <2>2, <2>3
<1>4. Disk' /\ \A g \in Files : disk[g].ver \in Nat /\ disk'[g].ver \in Nat
                                /\ disk[g].ver <= disk'[g].ver
    BY <1>2, <1>3 DEF Promises, Disk
<1>5. ASSUME NEW v \in Versions, Past(v)
      PROVE  \A g \in Files : v[g] <= disk'[g].ver
    BY <1>4, <1>5 DEF Past, Versions
<1>6. Floors' BY <1>1, <1>5 DEF Promises, Floors, Past
<1>7. Requests'
  <2>1. ASSUME NEW i \in 1..Len(queue), queue[i].type = "InvalidateCache"
        PROVE  \A g \in Files : queue[i].saves[g] <= disk'[g].ver
    <3>1. queue[i] \in Detections \cup Invalidations
        BY DEF Promises, Requests
    <3>2. queue[i].saves \in Versions
        BY <2>1, <3>1 DEF Detections, Invalidations
    <3>3. Past(queue[i].saves) BY <2>1 DEF Promises, Requests
    <3>4. QED BY <1>5, <3>2, <3>3
  <2>2. QED BY <1>1, <2>1 DEF Promises, Requests, Past
<1>8. CacheIsFresh' /\ LoadIsFresh' /\ RespectsFloor
    BY <1>1 DEF Promises, CacheIsFresh, LoadIsFresh, Fresh, Loaded, RespectsFloor,
                Installs
<1>9. QED BY <1>4, <1>6, <1>7, <1>8 DEF Promises

\* Steps that leave files, channel and promises alone and load nothing.
LEMMA QuietStep ==
    ASSUME Promises, UNCHANGED <<disk, queue, loop, current, floor>>,
           \A a \in Aircraft : cache'[a] # None =>
               cache[a] # None /\ cache'[a].profile = cache[a].profile
    PROVE  Promises' /\ RespectsFloor
<1>1. Disk' /\ Requests' /\ Floors'
    BY DEF Promises, Disk, Requests, Floors, Past
<1>2. CacheIsFresh'
    BY DEF Promises, CacheIsFresh, Fresh
<1>3. LoadIsFresh' /\ RespectsFloor
    BY DEF Promises, LoadIsFresh, Fresh, Loaded, RespectsFloor, Installs
<1>4. QED BY <1>1, <1>2, <1>3 DEF Promises

\* A detection is answered from the cache, or a load begins with nothing read.
LEMMA DetectStep ==
    ASSUME Promises, DetectSame \/ DetectHit \/ DetectMiss
    PROVE  Promises' /\ RespectsFloor
<1> DEFINE r == Head(queue)
<1>1. /\ queue # <<>> /\ r.type = "AircraftDetected" /\ queue' = Tail(queue)
      /\ UNCHANGED <<disk, cache, floor>>
    BY DEF DetectSame, DetectHit, DetectMiss, Receives
<1>2. Requests' /\ r \in Detections \cup Invalidations
    BY <1>1, Receive DEF Promises
<1>3. r.sim \in AllSims /\ r.ac \in Aircraft
    BY <1>1, <1>2 DEF Detections, Invalidations
<1>4. Disk' /\ Floors' /\ CacheIsFresh'
    BY <1>1 DEF Promises, Disk, Floors, Past, CacheIsFresh, Fresh
<1>5. CASE DetectSame
  <2>1. UNCHANGED <<loop, current>> BY <1>5 DEF DetectSame
  <2>2. LoadIsFresh' /\ RespectsFloor
      BY <1>1, <2>1 DEF Promises, LoadIsFresh, Fresh, Loaded, RespectsFloor, Installs
  <2>3. QED BY <1>2, <1>4, <2>2 DEF Promises
<1>6. CASE DetectHit
  <2>1. /\ UNCHANGED loop /\ cache[r.ac] # None
        /\ Install(r.sim, r.ac, cache[r.ac].profile)
      BY <1>6 DEF DetectHit, Cached
  <2>2. Fresh(cache[r.ac].profile, r.ac)
      BY <1>3, <2>1 DEF Promises, CacheIsFresh
  <2>3. RespectsFloor BY <2>1, <2>2, FreshInstall
  <2>4. LoadIsFresh'
      BY <1>1, <2>1 DEF Promises, LoadIsFresh, Fresh, Loaded
  <2>5. QED BY <1>2, <1>4, <2>3, <2>4 DEF Promises
<1>7. CASE DetectMiss
  <2>1. /\ UNCHANGED current
        /\ loop' = [pc |-> "global", sim |-> r.sim, ac |-> r.ac,
                    got |-> [l \in Layers |-> Missing]]
      BY <1>7 DEF DetectMiss, Idle
  <2>2. LoadIsFresh' BY <1>3, <2>1 DEF LoadIsFresh, Fresh, Loaded
  <2>3. RespectsFloor BY <2>1 DEF RespectsFloor, Installs
  <2>4. QED BY <1>2, <1>4, <2>2, <2>3 DEF Promises
<1>8. QED BY <1>5, <1>6, <1>7

\* What is read now is no older than any promise.
LEMMA ReadStep ==
    ASSUME Promises, ReadGlobal \/ ReadSim \/ ReadAircraft
    PROVE  Promises' /\ RespectsFloor
<1>1. PICK layer \in Layers, next \in {"sim", "aircraft", "loaded"} :
         Read(layer, FileOf(Loaded, loop.ac, layer), next)
    BY DEF ReadGlobal, ReadSim, ReadAircraft, Layers, FileOf, Loaded
<1> DEFINE f == FileOf(Loaded, loop.ac, layer)
<1>2. /\ loop.pc = layer
      /\ loop' = [pc |-> next, sim |-> loop.sim, ac |-> loop.ac,
                  got |-> [loop.got EXCEPT ![layer] = Readable(f)]]
      /\ UNCHANGED <<disk, queue, current, cache, floor>>
    BY <1>1 DEF Read, phaseVars
<1>3. /\ loop.sim \in AllSims /\ loop.ac \in Aircraft
      /\ loop.got \in [Layers -> Nat \cup {Missing}]
      /\ Fresh(Loaded, loop.ac)
    BY <1>2 DEF Promises, LoadIsFresh, Layers
<1>4. f \in Files
    BY <1>3 DEF FileOf, Files, Layers, Loaded
<1> HIDE DEF f
<1>5. /\ Readable(f) \in Nat \cup {Missing}
      /\ Readable(f) # Missing => Readable(f) >= floor[loop.ac][f]
  <2>1. disk[f].ver \in Nat /\ floor[loop.ac] \in Versions /\ Past(floor[loop.ac])
      BY <1>3, <1>4 DEF Promises, Disk, Floors
  <2>2. floor[loop.ac][f] \in Nat /\ floor[loop.ac][f] <= disk[f].ver
      BY <1>4, <2>1 DEF Versions, Past
  <2>3. QED BY <2>1, <2>2 DEF Readable
<1>6. ASSUME NEW l \in Layers
      PROVE  /\ loop'.got[l] \in Nat \cup {Missing}
             /\ FileOf(Loaded', loop'.ac, l) = FileOf(Loaded, loop.ac, l)
             /\ loop'.got[l] # Missing =>
                   loop'.got[l] >= floor[loop.ac][FileOf(Loaded, loop.ac, l)]
  <2>1. FileOf(Loaded', loop'.ac, l) = FileOf(Loaded, loop.ac, l)
      BY <1>2 DEF FileOf, Loaded, Layers
  <2>2. loop'.got[l] = IF l = layer THEN Readable(f) ELSE loop.got[l]
      BY <1>2, <1>3
  <2>3. Loaded.layers[l] = loop.got[l] BY DEF Loaded
  <2>4. CASE l = layer
      BY <1>5, <2>1, <2>2, <2>4 DEF f
  <2>5. CASE l # layer
      BY <1>3, <2>1, <2>2, <2>3, <2>5 DEF Fresh
  <2>6. QED BY <2>4, <2>5
<1>7. LoadIsFresh'
  <2>1. /\ loop'.sim = loop.sim /\ loop'.ac = loop.ac /\ loop'.pc = next
        /\ loop'.got \in [Layers -> Nat \cup {Missing}]
      BY <1>2, <1>3, <1>5
  <2>2. Loaded'.layers = loop'.got /\ Loaded'.sim = loop'.sim
      BY DEF Loaded
  <2>3. Fresh(Loaded, loop.ac)'
      BY <1>2, <1>3, <1>6, <2>1, <2>2 DEF Fresh
  <2>4. QED BY <1>3, <2>1, <2>3 DEF LoadIsFresh
<1>8. Disk' /\ Requests' /\ Floors' /\ CacheIsFresh' /\ RespectsFloor
    BY <1>2 DEF Promises, Disk, Requests, Floors, Past, CacheIsFresh, Fresh,
                RespectsFloor, Installs
<1>9. QED BY <1>7, <1>8 DEF Promises

\* A load that succeeds goes to the cache and becomes active, one that fails
\* leaves everything.
LEMMA LoadedStep ==
    ASSUME Promises, LoadDone \/ LoadFails
    PROVE  Promises' /\ RespectsFloor
<1>1. /\ loop.pc = "loaded" /\ loop' = Idle
      /\ UNCHANGED <<disk, queue, floor>>
    BY DEF LoadDone, LoadFails
<1>2. loop.ac \in Aircraft /\ Fresh(Loaded, loop.ac)
    BY <1>1 DEF Promises, LoadIsFresh
<1>3. LoadIsFresh' BY <1>1 DEF LoadIsFresh, Idle
<1>4. Disk' /\ Requests' /\ Floors'
    BY <1>1 DEF Promises, Disk, Requests, Floors, Past
<1>5. CASE LoadDone
  <2>1. /\ cache' = [cache EXCEPT ![loop.ac] = [profile |-> Loaded, age |-> 0]]
        /\ Install(loop.sim, loop.ac, Loaded)
      BY <1>5 DEF LoadDone
  <2>2. RespectsFloor BY <1>2, <2>1, FreshInstall
  <2>3. ASSUME NEW a \in Aircraft, cache'[a] # None
        PROVE  Fresh(cache'[a].profile, a)
      BY <1>2, <2>1, <2>3 DEF Promises, CacheIsFresh
  <2>4. CacheIsFresh'
      BY <1>1, <2>3 DEF CacheIsFresh, Fresh
  <2>5. QED BY <1>3, <1>4, <2>2, <2>4 DEF Promises
<1>6. CASE LoadFails
  <2>1. UNCHANGED <<current, cache>> BY <1>6 DEF LoadFails
  <2>2. CacheIsFresh' /\ RespectsFloor
      BY <1>1, <2>1 DEF Promises, CacheIsFresh, Fresh, RespectsFloor, Installs
  <2>3. QED BY <1>3, <1>4, <2>2 DEF Promises
<1>7. QED BY <1>5, <1>6

\* An invalidation empties the cache of what its promise is about, and no load
\* is under way.
LEMMA InvalidateStep ==
    ASSUME Promises, InvalidateHandled
    PROVE  Promises' /\ RespectsFloor
<1> DEFINE r == Head(queue)
           hit == {x \in Aircraft : r.ac \in {x, None}}
<1>1. /\ loop.pc = "idle" /\ queue # <<>> /\ r.type = "InvalidateCache"
      /\ queue' = Tail(queue)
      /\ cache' = [x \in Aircraft |-> IF x \in hit THEN None ELSE cache[x]]
      /\ floor' = [x \in Aircraft |-> IF x \in hit THEN r.saves ELSE floor[x]]
      /\ UNCHANGED <<disk, loop, current>>
    BY DEF InvalidateHandled, Receives
<1>2. /\ Requests' /\ r \in Detections \cup Invalidations /\ Past(r.saves)
    BY <1>1, Receive DEF Promises
<1>3. r.saves \in Versions
    BY <1>1, <1>2 DEF Detections, Invalidations
<1> HIDE DEF r, hit
<1>4. Floors'
    BY <1>1, <1>2, <1>3 DEF Promises, Floors, Past
<1>5. CacheIsFresh'
  <2>1. ASSUME NEW a \in Aircraft, cache'[a] # None
        PROVE  cache'[a] = cache[a] /\ floor'[a] = floor[a]
      BY <1>1, <2>1
  <2>2. QED BY <2>1 DEF Promises, CacheIsFresh, Fresh
<1>6. Disk' /\ LoadIsFresh' /\ RespectsFloor
    BY <1>1 DEF Promises, Disk, LoadIsFresh, RespectsFloor, Installs
<1>7. QED BY <1>2, <1>4, <1>5, <1>6 DEF Promises

\* Every step keeps the promises, and what it installs respects them.
LEMMA ProfileStep ==
    ASSUME Promises, [Next]_vars
    PROVE  Promises' /\ RespectsFloor
<1>1. CASE Tick
  <2>1. UNCHANGED <<disk, queue, loop, current, floor>>
      BY <1>1 DEF Tick
  <2>2. ASSUME NEW a \in Aircraft, cache'[a] # None
        PROVE  cache[a] # None /\ cache'[a].profile = cache[a].profile
      BY <1>1, <2>2 DEF Tick
  <2>3. QED BY <2>1, <2>2, QuietStep
<1>2. CASE UNCHANGED <<disk, queue, loop, current, floor, cache>>
    BY <1>2, QuietStep
<1>3. CASE \E ph \in Phases : Telemetry(ph)
    BY <1>2, <1>3 DEF Telemetry, profileVars
<1>4. CASE UNCHANGED vars
    BY <1>2, <1>4 DEF vars, profileVars
<1>5. CASE Loop
    BY <1>5, DetectStep, ReadStep, LoadedStep, InvalidateStep DEF Loop, Load
<1>6. QED
    BY <1>1, <1>3, <1>4, <1>5, CallersStep, SaveStep DEF Next

\* The promises hold in every behaviour.
THEOREM PromisesHold == Spec => []Promises
<1>1. Init => Promises
    BY DEF Init, Promises, Disk, Requests, Floors, Versions, Past, CacheIsFresh,
           LoadIsFresh, Idle
<1>2. Promises /\ [Next]_vars => Promises'
    BY ProfileStep
<1>3. QED BY <1>1, <1>2, PTL DEF Spec

\* However many files, aircraft and edits there are: once invalidate_cache has
\* been processed, no profile is installed for its aircraft that is older than
\* the call.
THEOREM InvalidationsHold == Spec => InvalidationHolds
<1>1. Promises /\ [Next]_vars => [RespectsFloor]_vars
    BY ProfileStep
<1>2. QED
    BY <1>1, PromisesHold, PTL DEF Spec, InvalidationHolds, RespectsFloor
-----------------------------------------------------------------------------
(* Types *)

Numbered == [Files -> 0..MaxEdits]

Asked ==
    [type : {"AircraftDetected"}, sim : AllSims, ac : Aircraft, saves : {None}]
    \cup [type : {"InvalidateCache"}, sim : {None}, ac : Aircraft \cup {None},
          saves : Numbered]

\* A save that has begun is one that the bound leaves room for.
DiskTypes ==
    /\ disk \in [Files -> [ver : 0..MaxEdits, whole : BOOLEAN]]
    /\ \A f \in Files : disk[f].whole \/ disk[f].ver < MaxEdits

QueueTypes == queue \in Seq(Asked) /\ Len(queue) <= MaxQueue

\* A load that has begun knows its simulator and its aircraft.
LoopTypes ==
    /\ loop \in [pc : {"idle", "loaded"} \cup Layers, sim : AllSims \cup {None},
                 ac : Aircraft \cup {None}, got : [Layers -> Contents]]
    /\ loop.pc # "idle" => loop.sim \in AllSims /\ loop.ac \in Aircraft

ActiveTypes == [sim : AllSims, ac : Aircraft, profile : Profiles]
EntryTypes == [profile : Profiles, age : 0..TTL]

ProfileTypes ==
    /\ current \in ActiveTypes \cup {None}
    /\ cache \in [Aircraft -> EntryTypes \cup {None}]
    /\ floor \in [Aircraft -> Numbered]

PhaseTypes ==
    /\ tracker \in [pof : Phases \cup {None}, age : 0..MinPhase,
                    candidate : Phases \cup {None}, count : 0..(Frames + 1)]
    /\ streak \in [phase : Phases \cup {None}, n : 0..Frames]

TypeInv == DiskTypes /\ QueueTypes /\ LoopTypes /\ ProfileTypes /\ PhaseTypes

\* Only telemetry and the clock touch the phase, and they keep its type.
LEMMA PhaseTypesStep ==
    ASSUME PhaseTypes,
           Tick \/ UNCHANGED phaseVars \/ \E ph \in Phases : Telemetry(ph)
    PROVE  PhaseTypes'
<1>0. /\ Frames \in Nat \ {0} /\ MinPhase \in Nat
      /\ tracker.pof \in Phases \cup {None} /\ tracker.age \in 0..MinPhase
      /\ tracker.candidate \in Phases \cup {None}
      /\ tracker.count \in 0..(Frames + 1) /\ streak.n \in 0..Frames
  BY SwitchAssumption DEF PhaseTypes
<1>1. CASE Tick
  <2>1. Older(tracker.age, MinPhase) \in 0..MinPhase BY <1>0 DEF Older
  <2>2. QED BY <1>1, <2>1 DEF Tick, PhaseTypes
<1>2. CASE UNCHANGED phaseVars
  BY <1>2 DEF phaseVars, PhaseTypes
<1>3. CASE \E ph \in Phases : Telemetry(ph)
  <2>1. PICK ph \in Phases : Telemetry(ph) BY <1>3
  <2> DEFINE n == Older(tracker.count, Frames + 1)
             m == IF streak.phase = ph THEN Older(streak.n, Frames) ELSE 1
  <2>2. n \in 0..(Frames + 1) /\ m \in 0..Frames BY <1>0 DEF Older
  <2>3. streak' = [phase |-> ph, n |-> m] BY <2>1 DEF Telemetry
  <2>4. tracker' \in {Counting(None, 0), Counting(ph, 1), Counting(ph, n),
                      Adopted(ph)}
    BY <2>1 DEF Telemetry, UpdatePof
  <2> HIDE DEF n, m
  <2>5. ASSUME NEW c \in {ph, None}, NEW k \in 0..(Frames + 1)
        PROVE  Counting(c, k) \in
                 [pof : Phases \cup {None}, age : 0..MinPhase,
                  candidate : Phases \cup {None}, count : 0..(Frames + 1)]
    BY <1>0 DEF Counting
  <2>6. Adopted(ph) \in
          [pof : Phases \cup {None}, age : 0..MinPhase,
           candidate : Phases \cup {None}, count : 0..(Frames + 1)]
    BY <1>0 DEF Adopted
  <2>7. 0 \in 0..(Frames + 1) /\ 1 \in 0..(Frames + 1) BY <1>0
  <2>8. QED BY <2>2, <2>3, <2>4, <2>5, <2>6, <2>7 DEF PhaseTypes
<1>4. QED BY <1>1, <1>2, <1>3

\* Saving a file, the bound on saves included.
LEMMA SaveTypesStep ==
    ASSUME DiskTypes, NEW f \in Files, BeginSave(f) \/ EndSave(f)
    PROVE  DiskTypes'
<1> DEFINE v == disk[f].ver
           R == [ver : 0..MaxEdits, whole : BOOLEAN]
<1>1. MaxEdits \in Nat /\ disk[f] \in R /\ v \in 0..MaxEdits
  BY SwitchAssumption DEF DiskTypes
<1>2. CASE BeginSave(f)
  <2>1. /\ disk' = [disk EXCEPT ![f] = [ver |-> v, whole |-> FALSE]]
        /\ v < MaxEdits
    BY <1>2 DEF BeginSave
  <2> HIDE DEF v
  <2>2. [ver |-> v, whole |-> FALSE] \in R BY <1>1
  <2>3. QED BY <1>1, <2>1, <2>2 DEF DiskTypes
<1>3. CASE EndSave(f)
  <2>1. /\ disk' = [disk EXCEPT ![f] = [ver |-> v + 1, whole |-> TRUE]]
        /\ v < MaxEdits
    BY <1>3 DEF EndSave, DiskTypes
  <2> HIDE DEF v
  <2>2. [ver |-> v + 1, whole |-> TRUE] \in R BY <1>1, <2>1
  <2>3. QED BY <1>1, <2>1, <2>2 DEF DiskTypes
<1>4. QED BY <1>2, <1>3

\* What is sent is a request, and there is room for it.
LEMMA SendTypesStep ==
    ASSUME TypeInv, Callers
    PROVE  /\ QueueTypes'
           /\ UNCHANGED <<disk, loop, current, cache, floor, phaseVars>>
<1>1. ASSUME NEW r \in Asked, Send(r)
      PROVE  /\ QueueTypes'
             /\ UNCHANGED <<disk, loop, current, cache, floor, phaseVars>>
  <2>1. queue \in Seq(Asked) /\ MaxQueue \in Nat
    BY SwitchAssumption DEF TypeInv, QueueTypes
  <2>2. /\ Append(queue, r) \in Seq(Asked)
        /\ Len(Append(queue, r)) = Len(queue) + 1 /\ Len(queue) \in Nat
    BY <2>1
  <2>3. QED BY <1>1, <2>1, <2>2 DEF Send, QueueTypes
<1>2. \A s \in AllSims, a \in Aircraft : Detect(s, a) \in Asked
  BY DEF Detect, Asked
<1>3. \A a \in Aircraft \cup {None} : Invalidate(a) \in Asked
  <2>1. Saves \in Numbered BY DEF TypeInv, DiskTypes, Saves, Numbered
  <2>2. QED BY <2>1 DEF Invalidate, Asked
<1>4. \A s \in Sims : s \in AllSims BY DEF AllSims
<1>5. Unknown \in AllSims BY DEF AllSims
<1>6. QED
  BY <1>1, <1>2, <1>3, <1>4, <1>5
     DEF Callers, OnAircraftDetected, ForceSwitch, InvalidateCache

\* The request at the head of the channel, and the rest.
LEMMA ReceiveTypes ==
    ASSUME QueueTypes, queue # <<>>
    PROVE  /\ Head(queue) \in Asked
           /\ Tail(queue) \in Seq(Asked) /\ Len(Tail(queue)) <= MaxQueue
           /\ Head(queue).type = "AircraftDetected" =>
                Head(queue).sim \in AllSims /\ Head(queue).ac \in Aircraft
           /\ Head(queue).type = "InvalidateCache" =>
                Head(queue).saves \in Numbered
<1>1. /\ Head(queue) \in Asked /\ Tail(queue) \in Seq(Asked)
      /\ Len(Tail(queue)) = Len(queue) - 1 /\ Len(queue) \in Nat
  BY DEF QueueTypes
<1>2. Len(Tail(queue)) <= MaxQueue BY <1>1, SwitchAssumption DEF QueueTypes
<1>3. QED BY <1>1, <1>2 DEF Asked

\* The loop that serves the requests.
LEMMA LoopTypesStep ==
    ASSUME TypeInv, Loop
    PROVE  QueueTypes' /\ LoopTypes' /\ ProfileTypes'
<1> DEFINE s == Head(queue).sim
           a == Head(queue).ac
<1>0. QueueTypes /\ LoopTypes /\ ProfileTypes /\ DiskTypes /\ MaxEdits \in Nat
  BY SwitchAssumption DEF TypeInv
<1>1. ASSUME NEW t, Receives(t)
      PROVE  /\ Tail(queue) \in Seq(Asked) /\ Len(Tail(queue)) <= MaxQueue
             /\ t = "AircraftDetected" => s \in AllSims /\ a \in Aircraft
             /\ t = "InvalidateCache" => Head(queue).saves \in Numbered
  BY <1>0, <1>1, ReceiveTypes DEF Receives
<1>2. Idle \in [pc : {"idle", "loaded"} \cup Layers, sim : AllSims \cup {None},
                ac : Aircraft \cup {None}, got : [Layers -> Contents]]
      /\ Idle.pc = "idle" /\ Idle.got \in [Layers -> Contents]
  BY DEF Idle, Contents
<1>3. CASE DetectSame
  BY <1>0, <1>1, <1>3 DEF DetectSame, QueueTypes, LoopTypes, ProfileTypes
<1>4. CASE DetectHit
  <2>1. /\ Receives("AircraftDetected") /\ cache[a] # None
        /\ current' = [sim |-> s, ac |-> a, profile |-> cache[a].profile]
        /\ queue' = Tail(queue) /\ UNCHANGED <<loop, cache, floor>>
    BY <1>4 DEF DetectHit, Cached, Install
  <2>2. s \in AllSims /\ a \in Aircraft /\ QueueTypes'
    BY <1>1, <2>1 DEF QueueTypes
  <2> HIDE DEF s, a
  <2>3. cache[a] \in EntryTypes BY <1>0, <2>1, <2>2 DEF ProfileTypes
  <2>4. current' \in ActiveTypes
    BY <2>1, <2>2, <2>3 DEF EntryTypes, ActiveTypes
  <2>5. QED BY <1>0, <2>1, <2>2, <2>4 DEF LoopTypes, ProfileTypes
<1>5. CASE DetectMiss
  <2>1. /\ Receives("AircraftDetected")
        /\ loop' = [pc |-> "global", sim |-> s, ac |-> a, got |-> Idle.got]
        /\ queue' = Tail(queue) /\ UNCHANGED <<current, cache, floor>>
    BY <1>5 DEF DetectMiss
  <2>2. s \in AllSims /\ a \in Aircraft /\ QueueTypes'
    BY <1>1, <2>1 DEF QueueTypes
  <2> HIDE DEF s, a
  <2>3. LoopTypes' BY <1>2, <2>1, <2>2 DEF LoopTypes, Layers
  <2>4. QED BY <1>0, <2>1, <2>2, <2>3 DEF ProfileTypes
<1>6. ASSUME NEW l \in Layers, NEW f \in Files,
             NEW n \in {"loaded"} \cup Layers, Read(l, f, n)
      PROVE  QueueTypes' /\ LoopTypes' /\ ProfileTypes'
  <2>1. /\ loop.pc = l /\ UNCHANGED <<queue, current, cache, floor>>
        /\ loop' = [pc |-> n, sim |-> loop.sim, ac |-> loop.ac,
                    got |-> [loop.got EXCEPT ![l] = Readable(f)]]
    BY <1>6 DEF Read
  <2>2. Readable(f) \in Contents
    BY <1>0 DEF Readable, DiskTypes, Contents
  <2>3. /\ loop.sim \in AllSims /\ loop.ac \in Aircraft
        /\ loop.got \in [Layers -> Contents]
    BY <1>0, <2>1 DEF LoopTypes, Layers
  <2>4. [loop.got EXCEPT ![l] = Readable(f)] \in [Layers -> Contents]
    BY <2>2, <2>3
  <2>5. LoopTypes' BY <2>1, <2>3, <2>4 DEF LoopTypes
  <2>6. QED BY <1>0, <2>1, <2>5 DEF QueueTypes, ProfileTypes
<1>7. CASE ReadGlobal
  BY <1>6, <1>7 DEF ReadGlobal, Files, Layers
<1>8. CASE ReadSim
  <2>1. loop.sim \in Files BY <1>0, <1>8 DEF ReadSim, Read, LoopTypes, Files
  <2>2. QED BY <1>6, <1>8, <2>1 DEF ReadSim, Layers
<1>9. CASE ReadAircraft
  <2>1. loop.ac \in Files
    BY <1>0, <1>9 DEF ReadAircraft, Read, LoopTypes, Files
  <2>2. QED BY <1>6, <1>9, <2>1 DEF ReadAircraft, Layers
<1>10. CASE LoadDone
  <2>1. /\ loop.pc = "loaded" /\ loop' = Idle /\ UNCHANGED <<queue, floor>>
        /\ cache' = [cache EXCEPT ![loop.ac] = [profile |-> Loaded, age |-> 0]]
        /\ current' = [sim |-> loop.sim, ac |-> loop.ac, profile |-> Loaded]
    BY <1>10 DEF LoadDone, Install
  <2>2. /\ loop.sim \in AllSims /\ loop.ac \in Aircraft
        /\ loop.got \in [Layers -> Contents]
    BY <1>0, <2>1 DEF LoopTypes
  <2>3. Loaded \in Profiles BY <2>2 DEF Loaded, Profiles
  <2>4. [profile |-> Loaded, age |-> 0] \in EntryTypes
    BY <2>3, SwitchAssumption DEF EntryTypes
  <2>5. current' \in ActiveTypes BY <2>1, <2>2, <2>3 DEF ActiveTypes
  <2>6. ProfileTypes' BY <1>0, <2>1, <2>4, <2>5 DEF ProfileTypes
  <2>7. QED BY <1>0, <1>2, <2>1, <2>6 DEF QueueTypes, LoopTypes
<1>11. CASE LoadFails
  BY <1>0, <1>2, <1>11 DEF LoadFails, QueueTypes, LoopTypes, ProfileTypes
<1>12. CASE InvalidateHandled
  <2> DEFINE hit == {x \in Aircraft : Head(queue).ac \in {x, None}}
  <2>1. /\ Receives("InvalidateCache")
        /\ cache' = [x \in Aircraft |-> IF x \in hit THEN None ELSE cache[x]]
        /\ floor' = [x \in Aircraft |-> IF x \in hit THEN Head(queue).saves
                                        ELSE floor[x]]
        /\ queue' = Tail(queue) /\ UNCHANGED <<loop, current>>
    BY <1>12 DEF InvalidateHandled
  <2>2. Head(queue).saves \in Numbered /\ QueueTypes'
    BY <1>1, <2>1 DEF QueueTypes
  <2> HIDE DEF hit
  <2>3. ProfileTypes' BY <1>0, <2>1, <2>2 DEF ProfileTypes
  <2>4. QED BY <1>0, <2>1, <2>2, <2>3 DEF LoopTypes
<1>13. QED
  BY <1>3, <1>4, <1>5, <1>7, <1>8, <1>9, <1>10, <1>11, <1>12 DEF Loop, Load

\* Entries of the cache grow older.
LEMMA TickTypesStep ==
    ASSUME TypeInv, Tick
    PROVE  QueueTypes' /\ LoopTypes' /\ ProfileTypes'
<1>1. /\ UNCHANGED <<queue, loop, current, floor>>
      /\ cache' = [a \in Aircraft |->
                     IF cache[a] = None THEN None
                     ELSE [profile |-> cache[a].profile,
                           age |-> Older(cache[a].age, TTL)]]
  BY DEF Tick
<1>2. ASSUME NEW a \in Aircraft, cache[a] # None
      PROVE  [profile |-> cache[a].profile,
              age |-> Older(cache[a].age, TTL)] \in EntryTypes
  <2>1. cache[a].profile \in Profiles /\ cache[a].age \in 0..TTL /\ TTL \in Nat
    BY <1>2, SwitchAssumption DEF TypeInv, ProfileTypes, EntryTypes
  <2>2. QED BY <2>1 DEF EntryTypes, Older
<1>3. cache' \in [Aircraft -> EntryTypes \cup {None}] BY <1>1, <1>2
<1>4. QED BY <1>1, <1>3 DEF TypeInv, QueueTypes, LoopTypes, ProfileTypes

\* Every variable keeps its type: the bounds on saves, ages and frames hold,
\* and whatever is installed or cached is a profile of known files.
THEOREM TypeCorrect == Spec => []TypeOK
<1>1. Init => TypeInv
  <2> SUFFICES ASSUME Init PROVE TypeInv
    OBVIOUS
  <2>1. /\ 0 \in 0..MaxEdits /\ 0 \in 0..MinPhase /\ 0 \in 0..(Frames + 1)
        /\ 0 \in 0..Frames /\ MaxQueue \in Nat
    BY SwitchAssumption
  <2>2. DiskTypes BY <2>1 DEF Init, DiskTypes
  <2>3. QueueTypes BY <2>1 DEF Init, QueueTypes
  <2>4. LoopTypes BY DEF Init, LoopTypes, Idle, Contents
  <2>5. ProfileTypes BY <2>1 DEF Init, ProfileTypes, Numbered
  <2>6. PhaseTypes BY <2>1 DEF Init, PhaseTypes
  <2>7. QED BY <2>2, <2>3, <2>4, <2>5, <2>6 DEF TypeInv
<1>2. TypeInv /\ [Next]_vars => TypeInv'
  <2> SUFFICES ASSUME TypeInv, [Next]_vars PROVE TypeInv'
    OBVIOUS
  <2>0. DiskTypes /\ QueueTypes /\ LoopTypes /\ ProfileTypes /\ PhaseTypes
    BY DEF TypeInv
  <2>1. CASE Callers
    <3>1. /\ QueueTypes'
          /\ UNCHANGED <<disk, loop, current, cache, floor, phaseVars>>
      BY <2>1, SendTypesStep
    <3>2. DiskTypes' /\ LoopTypes' /\ ProfileTypes'
      BY <2>0, <3>1 DEF DiskTypes, LoopTypes, ProfileTypes
    <3>3. PhaseTypes' BY <2>0, <3>1, PhaseTypesStep
    <3>4. QED BY <3>1, <3>2, <3>3 DEF TypeInv
  <2>2. CASE \E f \in Editable : BeginSave(f) \/ EndSave(f)
    <3>1. PICK f \in Editable : BeginSave(f) \/ EndSave(f) BY <2>2
    <3>2. f \in Files BY SwitchAssumption
    <3>3. DiskTypes' BY <2>0, <3>1, <3>2, SaveTypesStep
    <3>4. UNCHANGED <<profileVars, phaseVars>>
      BY <3>1 DEF BeginSave, EndSave
    <3>5. QueueTypes' /\ LoopTypes' /\ ProfileTypes'
      BY <2>0, <3>4 DEF profileVars, QueueTypes, LoopTypes, ProfileTypes
    <3>6. PhaseTypes' BY <2>0, <3>4, PhaseTypesStep
    <3>7. QED BY <3>3, <3>5, <3>6 DEF TypeInv
  <2>3. CASE Tick
    <3>1. DiskTypes' BY <2>0, <2>3 DEF Tick, DiskTypes
    <3>2. QED BY <2>0, <2>3, <3>1, TickTypesStep, PhaseTypesStep DEF TypeInv
  <2>4. CASE Loop
    <3>1. UNCHANGED <<disk, phaseVars>>
      BY <2>4
         DEF Loop, Load, DetectSame, DetectHit, DetectMiss, ReadGlobal,
             ReadSim, ReadAircraft, Read, LoadDone, LoadFails,
             InvalidateHandled
    <3>2. DiskTypes' BY <2>0, <3>1 DEF DiskTypes
    <3>3. PhaseTypes' BY <2>0, <3>1, PhaseTypesStep
    <3>4. QED BY <2>4, <3>2, <3>3, LoopTypesStep DEF TypeInv
  <2>5. CASE \E ph \in Phases : Telemetry(ph)
    <3>1. UNCHANGED <<disk, profileVars>> BY <2>5 DEF Telemetry
    <3>2. DiskTypes' /\ QueueTypes' /\ LoopTypes' /\ ProfileTypes'
      BY <2>0, <3>1
         DEF profileVars, DiskTypes, QueueTypes, LoopTypes, ProfileTypes
    <3>3. PhaseTypes' BY <2>0, <2>5, PhaseTypesStep
    <3>4. QED BY <3>2, <3>3 DEF TypeInv
  <2>6. CASE UNCHANGED vars
    <3>1. UNCHANGED <<disk, profileVars, phaseVars>> BY <2>6 DEF vars
    <3>2. DiskTypes' /\ QueueTypes' /\ LoopTypes' /\ ProfileTypes'
      BY <2>0, <3>1
         DEF profileVars, DiskTypes, QueueTypes, LoopTypes, ProfileTypes
    <3>3. PhaseTypes' BY <2>0, <3>1, PhaseTypesStep
    <3>4. QED BY <3>2, <3>3 DEF TypeInv
  <2>7. QED BY <2>1, <2>2, <2>3, <2>4, <2>5, <2>6 DEF Next
<1>3. TypeInv => TypeOK
  <2> SUFFICES ASSUME TypeInv PROVE TypeOK
    OBVIOUS
  <2>1. ASSUME NEW i \in DOMAIN queue
        PROVE  /\ queue[i].type \in {"AircraftDetected", "InvalidateCache"}
               /\ queue[i].sim \in AllSims \cup {None}
               /\ queue[i].ac \in Aircraft \cup {None}
    <3>1. queue[i] \in Asked BY <2>1 DEF TypeInv, QueueTypes
    <3>2. QED BY <3>1 DEF Asked
  <2>2. QED
    BY <2>1
       DEF TypeInv, DiskTypes, QueueTypes, LoopTypes, ProfileTypes, PhaseTypes,
           ActiveTypes, EntryTypes, Numbered, TypeOK
<1>4. QED BY <1>1, <1>2, <1>3, PTL DEF Spec
=============================================================================
