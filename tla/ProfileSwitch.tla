---------------------------- MODULE ProfileSwitch ----------------------------
(***************************************************************************)
(* AircraftAutoSwitch (crates/flight-session/src/lib.rs): the loop that    *)
(* turns detected aircraft into profiles, and the phase of flight.         *)
(*                                                                         *)
(* Callers put requests into a channel and one task takes them out one     *)
(* after the other.  A profile is merged from three files that are read    *)
(* one by one while somebody may be saving them; a file that cannot be     *)
(* read or parsed is skipped.  Merged profiles are cached by aircraft for  *)
(* a fixed time.                                                           *)
(*                                                                         *)
(* The content of a file is the number of its last complete save, Missing  *)
(* for a file that is not readable; a profile is what was read of its      *)
(* files.  Times are ages in ticks, kept no further than they are compared.*)
(* A telemetry update is the phase that determine_phase_of_flight makes of *)
(* it.  Left out: hysteresis_state, which is written and never read; the   *)
(* phase overrides of a profile, which change nothing but the result that  *)
(* is counted; the metrics.                                                *)
(***************************************************************************)
EXTENDS Integers, Sequences, FiniteSets

CONSTANTS
    Sims,        \* simulators with aircraft detection
    Unknown,     \* the simulator of a forced switch
    Aircraft,
    Global,      \* the file global.json; other files go by their simulator
                 \* or aircraft
    Editable,    \* files that somebody edits
    Phases,
    None,
    Missing,
    TTL,         \* cache_ttl
    Frames,      \* consecutive_frames_required
    MinPhase,    \* min_phase_time
    MaxQueue,    \* bound on the channel
    MaxEdits     \* bound on the saves of a file

AllSims == Sims \cup {Unknown}
Files == {Global} \cup AllSims \cup Aircraft

ASSUME SwitchAssumption ==
    /\ Unknown \notin Sims
    /\ Global \notin AllSims \cup Aircraft /\ AllSims \cap Aircraft = {}
    /\ Editable \subseteq Files
    /\ None \notin AllSims \cup Aircraft \cup Phases
    /\ Missing \notin Int
    /\ {TTL, MinPhase, MaxQueue, MaxEdits} \subseteq Nat
    /\ Frames \in Nat \ {0}

VARIABLES
    disk,        \* [Files -> [ver, whole]]: the last save, and whether the
                 \* file is readable
    queue,       \* switch_tx, switch_rx
    loop,        \* [pc, sim, ac, got]: the request in process and what has
                 \* been read for it
    current,     \* None or [sim, ac, profile]: current_aircraft and its
                 \* current_profile
    cache,       \* [Aircraft -> None or [profile, age]]
    tracker,     \* PofTracker: [pof, age, candidate, count]
    floor,       \* history: [Aircraft -> the saves made before the last
                 \* invalidation that has been processed was asked for]
    streak       \* history: [phase, n]: equal phases seen in a row

profileVars == <<queue, loop, current, cache, floor>>
phaseVars == <<tracker, streak>>
vars == <<disk, profileVars, phaseVars>>

Contents == 0..MaxEdits \cup {Missing}
Saves == [f \in Files |-> disk[f].ver]
Readable(f) == IF disk[f].whole THEN disk[f].ver ELSE Missing

\* A profile and, in sim, the simulator whose file went into it.
Layers == {"global", "sim", "aircraft"}
Profiles == [sim : AllSims, layers : [Layers -> Contents]]
FileOf(p, ac, layer) ==
    CASE layer = "global" -> Global
      [] layer = "sim" -> p.sim
      [] layer = "aircraft" -> ac

\* SwitchRequest; an aircraft of None stands for all of them
Detect(s, a) == [type |-> "AircraftDetected", sim |-> s, ac |-> a,
                 saves |-> None]
Invalidate(a) == [type |-> "InvalidateCache", sim |-> None, ac |-> a,
                  saves |-> Saves]

Idle == [pc |-> "idle", sim |-> None, ac |-> None,
         got |-> [l \in Layers |-> Missing]]

Init ==
    /\ disk = [f \in Files |-> [ver |-> 0, whole |-> TRUE]]
    /\ queue = <<>>
    /\ loop = Idle
    /\ current = None
    /\ cache = [a \in Aircraft |-> None]
    /\ tracker = [pof |-> None, age |-> 0, candidate |-> None, count |-> 0]
    /\ floor = [a \in Aircraft |-> [f \in Files |-> 0]]
    /\ streak = [phase |-> None, n |-> 0]

-----------------------------------------------------------------------------
(* Callers, editors and the clock *)

Send(r) ==
    /\ Len(queue) < MaxQueue
    /\ queue' = Append(queue, r)
    /\ UNCHANGED <<disk, loop, current, cache, floor, phaseVars>>

OnAircraftDetected(s, a) == Send(Detect(s, a))

\* The forced switch becomes the detection of an unknown simulator.
ForceSwitch(a) == Send(Detect(Unknown, a))

\* Mutant: the cache is cleared by the caller, past the channel.
InvalidateCacheAtOnce(a) ==
    /\ cache' = [x \in Aircraft |-> IF a \in {x, None} THEN None ELSE cache[x]]
    /\ floor' = [x \in Aircraft |-> IF a \in {x, None} THEN Saves ELSE floor[x]]
    /\ UNCHANGED <<disk, queue, loop, current, phaseVars>>

InvalidateCache(a) == Send(Invalidate(a))

\* A save is not atomic: the file is truncated first.
BeginSave(f) ==
    /\ disk[f].whole /\ disk[f].ver < MaxEdits
    /\ disk' = [disk EXCEPT ![f] = [ver |-> disk[f].ver, whole |-> FALSE]]
    /\ UNCHANGED <<profileVars, phaseVars>>

EndSave(f) ==
    /\ ~disk[f].whole
    /\ disk' = [disk EXCEPT ![f] = [ver |-> disk[f].ver + 1, whole |-> TRUE]]
    /\ UNCHANGED <<profileVars, phaseVars>>

Older(age, limit) == IF age < limit THEN age + 1 ELSE age

Tick ==
    /\ cache' = [a \in Aircraft |->
                   IF cache[a] = None THEN None
                   ELSE [profile |-> cache[a].profile,
                         age |-> Older(cache[a].age, TTL)]]
    /\ tracker' = [tracker EXCEPT !.age = Older(tracker.age, MinPhase)]
    /\ UNCHANGED <<disk, queue, loop, current, floor, streak>>

-----------------------------------------------------------------------------
(* The loop of start(): profiles *)

Receives(type) == loop.pc = "idle" /\ queue # <<>> /\ Head(queue).type = type

Install(s, a, p) == current' = [sim |-> s, ac |-> a, profile |-> p]

Active(r) == current # None /\ current.sim = r.sim /\ current.ac = r.ac

\* handle_aircraft_detection: the aircraft is already active.
DetectSame ==
    /\ Receives("AircraftDetected") /\ Active(Head(queue))
    /\ queue' = Tail(queue)
    /\ UNCHANGED <<disk, loop, current, cache, floor, phaseVars>>

Cached(a) == cache[a] # None /\ cache[a].age < TTL

\* Mutant: a hit renews the entry.
DetectHitRenews ==
    /\ Receives("AircraftDetected") /\ ~Active(Head(queue))
    /\ Cached(Head(queue).ac)
    /\ Install(Head(queue).sim, Head(queue).ac, cache[Head(queue).ac].profile)
    /\ cache' = [cache EXCEPT ![Head(queue).ac].age = 0]
    /\ queue' = Tail(queue)
    /\ UNCHANGED <<disk, loop, floor, phaseVars>>

\* load_and_compile_profile finds the aircraft in the cache.
DetectHit ==
    /\ Receives("AircraftDetected") /\ ~Active(Head(queue))
    /\ Cached(Head(queue).ac)
    /\ Install(Head(queue).sim, Head(queue).ac, cache[Head(queue).ac].profile)
    /\ queue' = Tail(queue)
    /\ UNCHANGED <<disk, loop, cache, floor, phaseVars>>

DetectMiss ==
    /\ Receives("AircraftDetected") /\ ~Active(Head(queue))
    /\ ~Cached(Head(queue).ac)
    /\ loop' = [pc |-> "global", sim |-> Head(queue).sim,
                ac |-> Head(queue).ac, got |-> Idle.got]
    /\ queue' = Tail(queue)
    /\ UNCHANGED <<disk, current, cache, floor, phaseVars>>

\* load_profile_hierarchy: one file after the other, each awaited.
Read(layer, f, next) ==
    /\ loop.pc = layer
    /\ loop' = [pc |-> next, sim |-> loop.sim, ac |-> loop.ac,
                got |-> [loop.got EXCEPT ![layer] = Readable(f)]]
    /\ UNCHANGED <<disk, queue, current, cache, floor, phaseVars>>

ReadGlobal == Read("global", Global, "sim")
ReadSim == Read("sim", loop.sim, "aircraft")
ReadAircraft == Read("aircraft", loop.ac, "loaded")

Loaded == [sim |-> loop.sim, layers |-> loop.got]

\* Mutant: the request is cleared before it is used.
LoadDoneSwapped ==
    /\ loop.pc = "loaded"
    /\ \E l \in Layers : loop.got[l] # Missing
    /\ cache' = [cache EXCEPT ![loop.ac] = [profile |-> Loaded, age |-> 0]]
    /\ Install(Idle.sim, Idle.ac, Loaded)
    /\ loop' = Idle
    /\ UNCHANGED <<disk, queue, floor, phaseVars>>

\* Merged, validated and compiled: the profile is cached and installed.
LoadDone ==
    /\ loop.pc = "loaded"
    /\ \E l \in Layers : loop.got[l] # Missing
    /\ cache' = [cache EXCEPT ![loop.ac] = [profile |-> Loaded, age |-> 0]]
    /\ Install(loop.sim, loop.ac, Loaded)
    /\ loop' = Idle
    /\ UNCHANGED <<disk, queue, floor, phaseVars>>

\* No file could be read, or the merged profile is not valid: an error is
\* counted and everything stays as it was.
LoadFails ==
    /\ loop.pc = "loaded"
    /\ loop' = Idle
    /\ UNCHANGED <<disk, queue, current, cache, floor, phaseVars>>

\* handle_cache_invalidation
InvalidateHandled ==
    /\ Receives("InvalidateCache")
    /\ LET r == Head(queue)
           hit == {x \in Aircraft : r.ac \in {x, None}}
       IN  /\ cache' = [x \in Aircraft |-> IF x \in hit THEN None ELSE cache[x]]
           /\ floor' = [x \in Aircraft |-> IF x \in hit THEN r.saves ELSE floor[x]]
    /\ queue' = Tail(queue)
    /\ UNCHANGED <<disk, loop, current, phaseVars>>

-----------------------------------------------------------------------------
(* The loop of start(): phases.  The time is read when the update is       *)
(* processed, so waiting in the channel makes no difference to it.         *)

\* The phase stays, with n frames of candidate ph.
Counting(ph, n) == [pof |-> tracker.pof, age |-> tracker.age,
                    candidate |-> ph, count |-> n]

Adopted(ph) == [pof |-> ph, age |-> 0, candidate |-> None, count |-> 0]

LongEnough == tracker.pof = None \/ tracker.age >= MinPhase

\* Mutant: a frame of the current phase does not end the candidate's run.
UpdatePofKeepsCandidate(ph) ==
    LET n == Older(tracker.count, Frames + 1)
    IN  CASE tracker.pof = ph -> tracker
          [] tracker.pof # ph /\ tracker.candidate # ph -> Counting(ph, 1)
          [] tracker.pof # ph /\ tracker.candidate = ph ->
               IF n >= Frames /\ LongEnough
                 THEN Adopted(ph) ELSE Counting(ph, n)

\* Mutant: the count is tested for equality.
UpdatePofExactly(ph) ==
    LET n == Older(tracker.count, Frames + 1)
    IN  CASE tracker.pof = ph -> Counting(None, 0)
          [] tracker.pof # ph /\ tracker.candidate # ph -> Counting(ph, 1)
          [] tracker.pof # ph /\ tracker.candidate = ph ->
               IF n = Frames /\ LongEnough
                 THEN Adopted(ph) ELSE Counting(ph, n)

\* update_pof_with_hysteresis.  The count goes on while the phase is too
\* young to end; it is kept no further than Frames + 1.
UpdatePof(ph) ==
    LET n == Older(tracker.count, Frames + 1)
    IN  CASE tracker.pof = ph -> Counting(None, 0)
          [] tracker.pof # ph /\ tracker.candidate # ph -> Counting(ph, 1)
          [] tracker.pof # ph /\ tracker.candidate = ph ->
               IF n >= Frames /\ LongEnough
                 THEN Adopted(ph) ELSE Counting(ph, n)

Telemetry(ph) ==
    /\ loop.pc = "idle"
    /\ tracker' = UpdatePof(ph)
    /\ streak' = [phase |-> ph,
                  n |-> IF streak.phase = ph THEN Older(streak.n, Frames) ELSE 1]
    /\ UNCHANGED <<disk, profileVars>>

-----------------------------------------------------------------------------
Callers ==
    \/ \E s \in Sims, a \in Aircraft : OnAircraftDetected(s, a)
    \/ \E a \in Aircraft : ForceSwitch(a)
    \/ \E a \in Aircraft \cup {None} : InvalidateCache(a)

Load == DetectMiss \/ ReadGlobal \/ ReadSim \/ ReadAircraft \/ LoadDone \/ LoadFails

Loop == DetectSame \/ DetectHit \/ Load \/ InvalidateHandled

Next ==
    \/ Callers
    \/ \E f \in Editable : BeginSave(f) \/ EndSave(f)
    \/ Tick
    \/ Loop
    \/ \E ph \in Phases : Telemetry(ph)

Spec == Init /\ [][Next]_vars

\* Saves end, time passes and the loop's task goes on; nobody has to call.
FairSpec ==
    /\ Spec
    /\ WF_vars(Tick) /\ WF_vars(Loop)
    /\ \A f \in Editable : WF_vars(EndSave(f))

-----------------------------------------------------------------------------
(* Properties *)

TypeOK ==
    /\ disk \in [Files -> [ver : 0..MaxEdits, whole : BOOLEAN]]
    /\ \A i \in DOMAIN queue :
          /\ queue[i].type \in {"AircraftDetected", "InvalidateCache"}
          /\ queue[i].sim \in AllSims \cup {None}
          /\ queue[i].ac \in Aircraft \cup {None}
    /\ Len(queue) <= MaxQueue
    /\ loop \in [pc : {"idle", "loaded"} \cup Layers, sim : AllSims \cup {None},
                 ac : Aircraft \cup {None}, got : [Layers -> Contents]]
    /\ current # None =>
          current \in [sim : AllSims, ac : Aircraft, profile : Profiles]
    /\ \A a \in Aircraft :
          cache[a] # None => cache[a] \in [profile : Profiles, age : 0..TTL]
    /\ tracker \in [pof : Phases \cup {None}, age : 0..MinPhase,
                    candidate : Phases \cup {None}, count : 0..(Frames + 1)]
    /\ floor \in [Aircraft -> [Files -> 0..MaxEdits]]
    /\ streak \in [phase : Phases \cup {None}, n : 0..Frames]

Installs == current' # current

\* The content of every layer of the new profile is at least save v[f].
NewerThan(v) ==
    \A l \in Layers :
        LET got == current'.profile.layers[l]
            f == FileOf(current'.profile, current'.ac, l)
        IN  got # Missing => got >= v[f]

\* Once an invalidation has been processed, no profile is installed for that
\* aircraft that holds an edit older than the call of invalidate_cache, even
\* if a load was under way at the time or was waiting in the channel.
InvalidationHolds == [][Installs => NewerThan(floor[current'.ac])]_vars

\* Without any invalidation, an edit that is not followed by others ends up
\* in every profile installed, and a file that was skipped because it was
\* being saved is back: the cache does not keep what has expired.
EditsTakeEffect ==
    <>[][Installs =>
            /\ \A l \in Layers : current'.profile.layers[l] # Missing
            /\ NewerThan([f \in Files |-> disk[f].ver])]_vars

\* The phase changes only when the last Frames updates all named the new
\* phase, and not before min_phase_time is over: phases that alternate, with
\* each other or with the current one, change nothing.
PhaseNeedsFrames ==
    [][tracker'.pof # tracker.pof =>
          /\ streak' = [phase |-> tracker'.pof, n |-> Frames]
          /\ tracker.pof # None => tracker.age = MinPhase]_vars

\* A phase that telemetry settles on, and goes on naming, is adopted, also
\* when its frames were complete before min_phase_time of the phase before it
\* was over.
PhaseAdopted ==
    \A ph \in Phases :
        <>[](streak.phase = ph) /\ SF_vars(Telemetry(ph))
        => <>[](tracker.pof = ph)

\* "Load profile hierarchy: Global -> Sim -> Aircraft" (lib.rs:867): the
\* profile of an aircraft contains the file of the simulator it was detected
\* in.
ProfileMatchesSim == current # None => current.profile.sim = current.sim
=============================================================================
