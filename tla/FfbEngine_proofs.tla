-------------------------- MODULE FfbEngine_proofs --------------------------
(***************************************************************************)
(* The force-feedback engine for all time-outs, limits and fault types: no *)
(* high torque on an old authorization, no answer good for two challenges, *)
(* every fault state is explained, a fault's ramp starts at the torque of  *)
(* that moment, and the torque of a faulted engine never rises.            *)
(***************************************************************************)
EXTENDS FfbEngine, TLAPS

Safeties == {"SafeTorque", "HighTorque", "Faulted"}
Classes == {"critical", "transient"}
Ramps == [active : BOOLEAN, from : {0, 2, 8}, torque : 0 .. 8 * RampTime,
          age : 0 .. RampTime + 1]
Histories == {h \in Seq(Classes) : Len(h) <= MaxHistory}

Engines == [safety : Safeties, history : Histories, ramp : Ramps,
            cueAge : 0 .. CueInterval, critical : BOOLEAN]

\* A ramp never shows less torque than its line at its present age.
OnRamp(e) == e.ramp.torque >= e.ramp.from * (RampTime - e.ramp.age)

Explained(e) == e.safety = "Faulted" => e.history # <<>>

Sound(e) == e \in Engines /\ OnRamp(e) /\ Explained(e)

\* The authorization a satisfied interlock stands for may be gone only while
\* the engine is faulted, and leaving that state resets the interlock.
SatisfactionIsFresh ==
    /\ required = InterlockRequired
    /\ satisfied \in BOOLEAN
    /\ authorized \in BOOLEAN
    /\ satisfied => authorized \/ eng.safety = "Faulted"

IndInv == Sound(eng) /\ SatisfactionIsFresh

-----------------------------------------------------------------------------
\* Recording a fault leaves the newest entry in the bounded history.
LEMMA RecordFaultLemma ==
    ASSUME NEW e \in Engines, NEW f \in FaultTypes
    PROVE  /\ RecordFault(e, f) \in Engines
           /\ RecordFault(e, f).history # <<>>
           /\ RecordFault(e, f).safety = e.safety
           /\ RecordFault(e, f).ramp = e.ramp
           /\ RecordFault(e, f).cueAge = e.cueAge
<1> DEFINE h == Append(e.history, FaultClass(f))
           k == IF Len(h) > MaxHistory THEN Tail(h) ELSE h
<1>1. FaultClass(f) \in Classes
  BY DEF FaultClass, Classes
<1>2. h \in Seq(Classes) /\ Len(h) >= 1 /\ Len(h) <= MaxHistory + 1
  BY <1>1, FfbAssumption DEF Engines, Histories
<1>3. k \in Histories /\ Len(k) >= 1
  BY <1>2, FfbAssumption DEF Histories
<1>4. PICK c \in BOOLEAN : RecordFault(e, f) = [e EXCEPT !.history = k, !.critical = c]
  BY Zenon DEF RecordFault, Engines
<1>5. k # <<>>
  BY <1>3
<1> HIDE DEF k
<1> QED BY <1>3, <1>4, <1>5 DEF Engines

\* A cue changes nothing but its own age.
LEMMA TriggerCueLemma ==
    ASSUME NEW e \in Engines
    PROVE  /\ TriggerCue(e) \in Engines
           /\ TriggerCue(e).history = e.history
           /\ TriggerCue(e).safety = e.safety
           /\ TriggerCue(e).ramp = e.ramp
  BY FfbAssumption DEF TriggerCue, Engines

\* The torque a ramp starts from.
LEMMA TorqueLemma ==
    ASSUME NEW s \in Safeties
    PROVE  Torque(s) \in {0, 2, 8} /\ (s = "Faulted" => Torque(s) = 0)
  BY DEF Torque, Safeties

\* No ramp, and no fault on record, are legal values.
LEMMA NoRampLemma == NoRamp \in Ramps /\ <<>> \in Histories
<1>1. 0 \in 0 .. 8 * RampTime /\ 0 \in 0 .. RampTime + 1 BY FfbAssumption
<1>2. NoRamp \in Ramps BY <1>1 DEF Ramps, NoRamp
<1>3. <<>> \in Histories BY FfbAssumption DEF Histories
<1> QED BY <1>2, <1>3

\* A soft stop either keeps the ramp there is or starts one at the torque it
\* is given; the safety state and the history stay.
LEMMA SoftStopLemma ==
    ASSUME NEW e \in Engines, NEW t \in {0, 2, 8}
    PROVE  LET s == SoftStop(e, t).eng
           IN  /\ s \in Engines
               /\ s.history = e.history
               /\ s.safety = e.safety
               /\ s.ramp = e.ramp \/ s.ramp = StartedRamp(t)
               /\ SoftStop(e, t).ok => s.ramp = StartedRamp(t)
               /\ e.ramp.active /\ e.ramp.age <= RampTime => s.ramp = e.ramp
<1> DEFINE r == StartedRamp(t)
           started == [e EXCEPT !.ramp = r]
<1>1. t * RampTime \in 0 .. 8 * RampTime /\ 0 \in 0 .. RampTime + 1
  BY FfbAssumption
<1>2. r \in Ramps
  BY <1>1 DEF Ramps, StartedRamp
<1>3. /\ started \in Engines /\ started.ramp = r
      /\ started.history = e.history /\ started.safety = e.safety
  <2> HIDE DEF r
  <2> QED BY <1>2 DEF Engines
<1>4. /\ SoftStop(e, t).eng \in {e, started, TriggerCue(started)}
      /\ SoftStop(e, t).ok => SoftStop(e, t).eng = TriggerCue(started)
      /\ e.ramp.active /\ e.ramp.age <= RampTime => SoftStop(e, t).eng = e
  BY DEF SoftStop
<1> HIDE DEF started, r
<1>5. /\ TriggerCue(started) \in Engines /\ TriggerCue(started).ramp = r
      /\ TriggerCue(started).history = e.history
      /\ TriggerCue(started).safety = e.safety
  BY <1>3, TriggerCueLemma
<1> QED BY <1>3, <1>4, <1>5 DEF r

\* A ramp that has just started is on its line.
LEMMA FreshRamp ==
    ASSUME NEW e \in Engines, NEW t \in {0, 2, 8}, e.ramp = StartedRamp(t)
    PROVE  OnRamp(e) /\ e.ramp.torque = t * RampTime
  BY FfbAssumption DEF OnRamp, StartedRamp

\* What the fault path does to the engine record: a fault other than a
\* plugin's ends in Faulted, is in the history, and raises no torque that was
\* already faulted; a ramp it starts is at the torque before it, and it starts
\* none while one has just begun.
LEMMA ProcessFaultLemma ==
    ASSUME NEW e, Sound(e), NEW f \in FaultTypes
    PROVE  LET p == ProcessFault(e, f).eng
           IN  /\ Sound(p)
               /\ p.safety = IF f = "PluginOverrun" THEN e.safety ELSE "Faulted"
               /\ e.safety = "Faulted" => p.ramp.torque <= e.ramp.torque
               /\ p.ramp = e.ramp \/ p.ramp = StartedRamp(Torque(e.safety))
               /\ ProcessFault(e, f).ok /\ f # "PluginOverrun"
                    => p.ramp = StartedRamp(Torque(e.safety))
               /\ \A t \in {0, 2, 8} :
                     e.ramp = StartedRamp(t) => p.ramp = e.ramp
<1> DEFINE recorded == RecordFault(e, f)
           faulted  == [recorded EXCEPT !.safety = "Faulted"]
           cued     == TriggerCue(faulted)
           stopped  == SoftStop(cued, Torque(e.safety)).eng
           p        == ProcessFault(e, f).eng
<1>0. e \in Engines /\ OnRamp(e) /\ e.safety \in Safeties /\ e.ramp.torque \in Nat
  BY DEF Sound, Engines, Ramps
<1>1. /\ recorded \in Engines /\ recorded.history # <<>>
      /\ recorded.safety = e.safety /\ recorded.ramp = e.ramp
  BY <1>0, RecordFaultLemma
<1>2. Sound(recorded)
  BY <1>0, <1>1 DEF Sound, OnRamp, Explained
<1>3. /\ faulted \in Engines /\ faulted.history = recorded.history
      /\ faulted.safety = "Faulted" /\ faulted.ramp = e.ramp
  <2> HIDE DEF recorded
  <2> QED BY <1>1 DEF Engines, Safeties
<1>4. Sound(faulted)
  BY <1>0, <1>1, <1>3 DEF Sound, OnRamp, Explained
<1>5. /\ cued \in Engines /\ cued.history = recorded.history
      /\ cued.safety = "Faulted" /\ cued.ramp = e.ramp
  <2> HIDE DEF faulted
  <2> QED BY <1>3, TriggerCueLemma
<1>6. Torque(e.safety) \in {0, 2, 8} /\ (e.safety = "Faulted" => Torque(e.safety) = 0)
  BY <1>0, TorqueLemma
<1>7. /\ stopped \in Engines /\ stopped.history = recorded.history
      /\ stopped.safety = "Faulted"
      /\ stopped.ramp = e.ramp \/ stopped.ramp = StartedRamp(Torque(e.safety))
      /\ SoftStop(cued, Torque(e.safety)).ok
           => stopped.ramp = StartedRamp(Torque(e.safety))
      /\ e.ramp.active /\ e.ramp.age <= RampTime => stopped.ramp = e.ramp
  <2> HIDE DEF cued
  <2> QED BY <1>5, <1>6, SoftStopLemma
<1>8. OnRamp(stopped) /\ (e.safety = "Faulted" => stopped.ramp.torque <= e.ramp.torque)
  <2> HIDE DEF stopped
  <2>1. CASE stopped.ramp = e.ramp
    BY <2>1, <1>0 DEF OnRamp
  <2>2. CASE stopped.ramp = StartedRamp(Torque(e.safety))
    <3>1. OnRamp(stopped) /\ stopped.ramp.torque = Torque(e.safety) * RampTime
      BY <2>2, <1>6, <1>7, FreshRamp
    <3> QED BY <3>1, <1>0, <1>6, FfbAssumption
  <2> QED BY <1>7, <2>1, <2>2
<1>9. Sound(stopped)
  BY <1>1, <1>7, <1>8 DEF Sound, Explained
<1>10. /\ IF f = "PluginOverrun" THEN p = recorded ELSE p \in {faulted, stopped}
       /\ ProcessFault(e, f).ok /\ f # "PluginOverrun"
            => p = stopped /\ SoftStop(cued, Torque(e.safety)).ok
  BY DEF ProcessFault
<1>a. ASSUME NEW t \in {0, 2, 8}, e.ramp = StartedRamp(t)
      PROVE  e.ramp.active /\ e.ramp.age <= RampTime
  BY <1>a, FfbAssumption DEF StartedRamp
<1> HIDE DEF p, recorded, faulted, cued, stopped
<1>b. /\ p.ramp = e.ramp \/ p.ramp = StartedRamp(Torque(e.safety))
      /\ ProcessFault(e, f).ok /\ f # "PluginOverrun"
           => p.ramp = StartedRamp(Torque(e.safety))
      /\ \A t \in {0, 2, 8} : e.ramp = StartedRamp(t) => p.ramp = e.ramp
  BY <1>1, <1>3, <1>7, <1>10, <1>a
<1>11. /\ Sound(p)
       /\ p.safety = IF f = "PluginOverrun" THEN e.safety ELSE "Faulted"
       /\ e.safety = "Faulted" => p.ramp.torque <= e.ramp.torque
  BY <1>0, <1>1, <1>2, <1>3, <1>4, <1>7, <1>8, <1>9, <1>10
<1> QED BY <1>11, <1>b DEF p

-----------------------------------------------------------------------------
\* What every step does: it keeps the invariant, enters high torque only with
\* an authorization, raises no torque of a faulted engine, and starts a fault's
\* ramp at the torque of that moment.
EntersFresh ==
    eng.safety # "HighTorque" /\ eng'.safety = "HighTorque"
        => authorized \/ ~ InterlockRequired

Falls ==
    eng.safety = "Faulted" /\ eng'.safety = "Faulted"
        => eng'.ramp.torque <= eng.ramp.torque

Starts ==
    eng.safety # "Faulted" /\ eng'.safety = "Faulted" /\ eng'.ramp # eng.ramp
        => eng'.ramp = StartedRamp(Torque(eng.safety))

Good == IndInv' /\ EntersFresh /\ Falls /\ Starts

\* The invariant's parts as the steps below use them.
LEMMA Parts ==
    ASSUME IndInv
    PROVE  /\ eng \in Engines /\ Sound(eng) /\ SatisfactionIsFresh
           /\ eng.safety \in Safeties /\ eng.ramp \in Ramps
           /\ eng.ramp.torque \in Nat
  BY DEF IndInv, Sound, Engines, Ramps

\* A step that hands the engine, or the engine with one more fault recorded,
\* to process_fault.
LEMMA FaultStep ==
    ASSUME IndInv, NEW f \in FaultTypes, NEW e, Sound(e),
           e.safety = eng.safety, e.ramp = eng.ramp,
           eng' = ProcessFault(e, f).eng, authorized' = Authorized(f),
           UNCHANGED interlockVars
    PROVE  Good
<1>1. /\ Sound(eng')
      /\ eng'.safety = IF f = "PluginOverrun" THEN eng.safety ELSE "Faulted"
      /\ eng.safety = "Faulted" => eng'.ramp.torque <= eng.ramp.torque
      /\ eng'.ramp = eng.ramp \/ eng'.ramp = StartedRamp(Torque(eng.safety))
  BY ProcessFaultLemma
<1>2. SatisfactionIsFresh'
  BY <1>1, Parts DEF SatisfactionIsFresh, Authorized, interlockVars
<1> QED BY <1>1, <1>2 DEF Good, IndInv, EntersFresh, Falls, Starts

\* A step that leaves the engine alone and does not take authorization away
\* from a satisfied interlock.
LEMMA EngineUntouched ==
    ASSUME IndInv, UNCHANGED eng, SatisfactionIsFresh'
    PROVE  Good
<1>1. eng'.ramp.torque <= eng.ramp.torque
  BY Parts
<1> QED BY <1>1, Parts DEF Good, IndInv, EntersFresh, Falls, Starts

\* The same for a step that leaves the interlock and the authorization alone.
LEMMA Quiet ==
    ASSUME IndInv, UNCHANGED <<interlockVars, eng, authorized>>
    PROVE  Good
<1>1. SatisfactionIsFresh'
  BY Parts DEF SatisfactionIsFresh, interlockVars
<1> QED BY <1>1, EngineUntouched

\* A detector's fault, recorded twice.
LEMMA DetectedStep ==
    ASSUME IndInv, NEW f \in FaultTypes, Detected(f), UNCHANGED interlockVars
    PROVE  Good
<1>1. /\ RecordFault(eng, f) \in Engines /\ RecordFault(eng, f).history # <<>>
      /\ RecordFault(eng, f).safety = eng.safety
      /\ RecordFault(eng, f).ramp = eng.ramp
  BY Parts, RecordFaultLemma
<1>2. Sound(RecordFault(eng, f))
  BY <1>1, Parts DEF Sound, OnRamp, Explained
<1>3. eng' = ProcessFault(RecordFault(eng, f), f).eng /\ authorized' = Authorized(f)
  BY DEF Detected
<1> QED BY <1>1, <1>2, <1>3, FaultStep

\* The three ways out of Faulted reset the interlock.
LEMMA RecoveryStep ==
    ASSUME IndInv, BackToSafeTorque,
           eng' \in Engines, eng'.safety = "SafeTorque", eng'.ramp = NoRamp
    PROVE  Good
<1>1. OnRamp(eng')
  BY FfbAssumption DEF OnRamp, NoRamp
<1>2. SatisfactionIsFresh'
  BY Parts DEF SatisfactionIsFresh, BackToSafeTorque, Interlock!ResetInterlock
<1> QED BY <1>1, <1>2 DEF Good, IndInv, EntersFresh, Falls, Starts, Sound, Explained

\* A step on the ramp or the cue's age only.
LEMMA RampStep ==
    ASSUME IndInv, eng' \in Engines,
           eng'.safety = eng.safety, eng'.history = eng.history, OnRamp(eng'),
           eng.safety = "Faulted" => eng'.ramp.torque <= eng.ramp.torque,
           SatisfactionIsFresh'
    PROVE  Good
  BY Parts DEF Good, IndInv, EntersFresh, Falls, Starts, Sound, Explained

\* The interlock's part of such a step.
LEMMA KeepsFresh ==
    ASSUME IndInv, eng'.safety = eng.safety, UNCHANGED <<interlockVars, authorized>>
    PROVE  SatisfactionIsFresh'
  BY Parts DEF SatisfactionIsFresh, interlockVars

\* A new engine satisfies the invariant.
LEMMA InitIndInv == Init => IndInv
<1> SUFFICES ASSUME Init PROVE IndInv
  OBVIOUS
<1>1. eng = [safety |-> "SafeTorque", history |-> <<>>, ramp |-> NoRamp,
             cueAge |-> CueInterval, critical |-> FALSE]
  BY DEF Init
<1>2. NoRamp \in Ramps /\ <<>> \in Histories
  BY NoRampLemma
<1>3. eng \in Engines /\ eng.safety = "SafeTorque" /\ eng.ramp = NoRamp
  BY <1>1, <1>2, FfbAssumption DEF Engines, Safeties
<1>4. OnRamp(eng)
  BY <1>3, FfbAssumption DEF OnRamp, NoRamp
<1>5. SatisfactionIsFresh
  BY FfbAssumption DEF Init, Interlock!InterlockInit, SatisfactionIsFresh
<1> QED BY <1>3, <1>4, <1>5 DEF IndInv, Sound, Explained

\* Every action, one by one.
LEMMA StepIsGood ==
    ASSUME IndInv, [Next]_vars
    PROVE  Good
<1> USE DEF detectorVars
<1>1. CASE GenerateChallenge
  <2>1. SatisfactionIsFresh'
    BY <1>1, Parts DEF GenerateChallenge, Interlock!GenerateChallenge, SatisfactionIsFresh
  <2> QED BY <1>1, <2>1, EngineUntouched DEF GenerateChallenge
<1>2. CASE \E r \in Interlock!Responses : ValidateResponse(r)
  <2>1. PICK r : ValidateResponse(r)
    BY <1>2
  <2>2. /\ UNCHANGED <<eng, required>>
        /\ authorized' = (authorized \/ Interlock!Accepts(r))
        /\ IF Interlock!Accepts(r) THEN satisfied' = TRUE ELSE satisfied' = satisfied
    BY <2>1 DEF ValidateResponse, Interlock!ValidateResponse
  <2>3. SatisfactionIsFresh'
    BY <2>2, Parts DEF SatisfactionIsFresh
  <2> QED BY <2>2, <2>3, EngineUntouched
<1>3. CASE \E consent \in BOOLEAN : EnableHighTorque(consent)
  <2>1. /\ eng.safety = "SafeTorque"
        /\ InterlockRequired => Interlock!IsSatisfied
        /\ eng' = [eng EXCEPT !.safety = "HighTorque"]
        /\ UNCHANGED <<interlockVars, authorized>>
    BY <1>3 DEF EnableHighTorque
  <2>2. InterlockRequired => authorized
    BY <2>1, Parts DEF Interlock!IsSatisfied, SatisfactionIsFresh
  <2>3. /\ eng' \in Engines /\ eng'.safety = "HighTorque"
        /\ eng'.ramp = eng.ramp /\ eng'.history = eng.history
    BY <2>1, Parts DEF Engines, Safeties
  <2>4. SatisfactionIsFresh'
    BY <2>1, Parts DEF SatisfactionIsFresh, interlockVars
  <2>5. Sound(eng')
    BY <2>3, Parts DEF Sound, OnRamp, Explained
  <2> QED BY <2>2, <2>3, <2>4, <2>5 DEF Good, IndInv, EntersFresh, Falls, Starts
<1>4. CASE DisableHighTorque
  <2>1. /\ eng' = [eng EXCEPT !.safety = "SafeTorque"] /\ authorized' = FALSE
        /\ satisfied' = FALSE /\ UNCHANGED required
    BY <1>4 DEF DisableHighTorque, Interlock!ResetInterlock
  <2>2. /\ eng' \in Engines /\ eng'.safety = "SafeTorque"
        /\ eng'.ramp = eng.ramp /\ eng'.history = eng.history
    BY <2>1, Parts DEF Engines, Safeties
  <2>3. SatisfactionIsFresh'
    BY <2>1, Parts DEF SatisfactionIsFresh
  <2>4. Sound(eng')
    BY <2>2, Parts DEF Sound, OnRamp, Explained
  <2> QED BY <2>2, <2>3, <2>4 DEF Good, IndInv, EntersFresh, Falls, Starts
<1>5. CASE \E f \in RaisedFaults : Fault(f) \/ EmergencyStop(f)
  <2>1. PICK f \in RaisedFaults : Fault(f)
    BY <1>5 DEF EmergencyStop
  <2>2. f \in FaultTypes
    BY <2>1, FfbAssumption
  <2> QED BY <2>1, <2>2, Parts, FaultStep DEF Fault
<1>6. CASE \E success \in BOOLEAN : UsbWriteResult(success)
  <2>1. PICK success \in BOOLEAN : UsbWriteResult(success)
    BY <1>6
  <2>2. UNCHANGED interlockVars /\ (Detected("UsbStall") \/ UNCHANGED <<eng, authorized>>)
    BY <2>1 DEF UsbWriteResult
  <2>3. "UsbStall" \in FaultTypes
    BY DEF FaultTypes, Transient
  <2> QED BY <2>2, <2>3, DetectedStep, Quiet
<1>7. CASE \E f \in RaisedFaults : CheckValue(f)
  <2>1. PICK f \in RaisedFaults : CheckValue(f)
    BY <1>7
  <2>2. f \in FaultTypes
    BY <2>1, FfbAssumption
  <2> QED BY <2>1, <2>2, DetectedStep DEF CheckValue
<1>8. CASE \E recordsItself \in BOOLEAN : DeviceGone(recordsItself)
  <2>1. PICK recordsItself \in BOOLEAN : DeviceGone(recordsItself)
    BY <1>8
  <2>2. "DeviceDisconnect" \in FaultTypes
    BY DEF FaultTypes, Transient
  <2>3. CASE recordsItself
    BY <2>1, <2>2, <2>3, DetectedStep DEF DeviceGone
  <2>4. CASE ~ recordsItself
    BY <2>1, <2>2, <2>4, Parts, FaultStep DEF DeviceGone
  <2> QED BY <2>3, <2>4
<1>9. CASE \E responsive \in BOOLEAN : CheckEndpoint(responsive)
  <2>1. PICK responsive \in BOOLEAN : CheckEndpoint(responsive)
    BY <1>9
  <2>2. UNCHANGED interlockVars /\ (Detected("EndpointWedged") \/ UNCHANGED <<eng, authorized>>)
    BY <2>1 DEF CheckEndpoint
  <2>3. "EndpointWedged" \in FaultTypes
    BY DEF FaultTypes, Transient
  <2> QED BY <2>2, <2>3, DetectedStep, Quiet
<1>10. CASE \E overTemp, overCurrent \in BOOLEAN :
              DeviceHealthFlags(overTemp, overCurrent)
  <2>1. PICK overTemp \in BOOLEAN, overCurrent \in BOOLEAN :
              DeviceHealthFlags(overTemp, overCurrent)
    BY <1>10
  <2> DEFINE first == IF overTemp THEN ProcessFault(eng, "OverTemp")
                      ELSE [eng |-> eng, ok |-> TRUE]
  <2>2. /\ eng' = IF overCurrent /\ first.ok
                    THEN ProcessFault(first.eng, "OverCurrent").eng ELSE first.eng
        /\ authorized' = (authorized /\ ~ overTemp /\ ~ overCurrent)
        /\ UNCHANGED interlockVars
    BY <2>1 DEF DeviceHealthFlags
  <2>3. /\ "OverTemp" \in FaultTypes /\ "OverCurrent" \in FaultTypes
        /\ "OverTemp" # "PluginOverrun" /\ "OverCurrent" # "PluginOverrun"
    BY DEF FaultTypes, Critical
  <2>4. /\ Sound(first.eng)
        /\ first.eng.safety = IF overTemp THEN "Faulted" ELSE eng.safety
        /\ eng.safety = "Faulted" => first.eng.ramp.torque <= eng.ramp.torque
        /\ \/ first.eng.ramp = eng.ramp
           \/ first.eng.ramp = StartedRamp(Torque(eng.safety))
        /\ overTemp /\ first.ok
             => first.eng.ramp = StartedRamp(Torque(eng.safety))
    <3>1. CASE overTemp
      <4>1. first = ProcessFault(eng, "OverTemp")
        BY <3>1
      <4> HIDE DEF first
      <4> QED BY <3>1, <4>1, <2>3, Parts, ProcessFaultLemma
    <3>2. CASE ~ overTemp
      <4>1. first.eng = eng
        BY <3>2
      <4> HIDE DEF first
      <4> QED BY <3>2, <4>1, Parts
    <3> QED BY <3>1, <3>2
  <2>5. ~ overTemp => first = [eng |-> eng, ok |-> TRUE]
    OBVIOUS
  <2> HIDE DEF first
  <2>6. first.eng.ramp.torque \in Nat
    BY <2>4 DEF Sound, Engines, Ramps
  <2>7. CASE overCurrent /\ first.ok
    <3>1. /\ Sound(eng') /\ eng'.safety = "Faulted"
          /\ first.eng.safety = "Faulted" => eng'.ramp.torque <= first.eng.ramp.torque
          /\ \/ eng'.ramp = first.eng.ramp
             \/ eng'.ramp = StartedRamp(Torque(first.eng.safety))
          /\ \A t \in {0, 2, 8} :
                first.eng.ramp = StartedRamp(t) => eng'.ramp = first.eng.ramp
      BY <2>2, <2>3, <2>4, <2>7, ProcessFaultLemma
    <3>2. eng.safety = "Faulted" => eng'.ramp.torque <= eng.ramp.torque
      <4>1. eng'.ramp.torque \in Nat
        BY <3>1 DEF Sound, Engines, Ramps
      <4>2. eng.safety = "Faulted" => first.eng.safety = "Faulted"
        BY <2>4
      <4> QED BY <4>1, <4>2, <3>1, <2>4, <2>6, Parts
    <3>3. SatisfactionIsFresh'
      BY <2>2, <2>7, <3>1, Parts DEF SatisfactionIsFresh, interlockVars
    <3>4. eng'.ramp = eng.ramp \/ eng'.ramp = StartedRamp(Torque(eng.safety))
      <4>1. CASE overTemp
        <5>1. Torque(eng.safety) \in {0, 2, 8} BY Parts, TorqueLemma
        <5> QED BY <4>1, <5>1, <2>4, <2>7, <3>1
      <4>2. CASE ~ overTemp
        BY <4>2, <2>5, <3>1
      <4> QED BY <4>1, <4>2
    <3> QED BY <3>1, <3>2, <3>3, <3>4 DEF Good, IndInv, EntersFresh, Falls, Starts
  <2>8. CASE ~ (overCurrent /\ first.ok)
    <3>1. eng' = first.eng
      BY <2>2, <2>8
    <3>2. ~ overTemp => ~ overCurrent
      BY <2>5, <2>8
    <3>3. SatisfactionIsFresh'
      BY <2>2, <2>4, <3>1, <3>2, Parts DEF SatisfactionIsFresh, interlockVars
    <3> QED BY <2>4, <3>1, <3>3 DEF Good, IndInv, EntersFresh, Falls, Starts
  <2> QED BY <2>7, <2>8
<1>11. CASE \E temp, current \in Levels : UpdateDeviceHealth(temp, current)
  <2>1. PICK temp \in Levels, current \in Levels : UpdateDeviceHealth(temp, current)
    BY <1>11
  <2> DEFINE result == HealthResult(temp, current)
  <2>2. /\ UNCHANGED interlockVars
        /\ IF result \in Critical
             THEN eng' = ProcessFault(eng, result).eng /\ authorized' = FALSE
             ELSE UNCHANGED <<eng, authorized>>
    BY <2>1 DEF UpdateDeviceHealth
  <2> HIDE DEF result
  <2>3. CASE result \in Critical
    <3>1. result \in FaultTypes /\ result # "PluginOverrun"
      BY <2>3 DEF FaultTypes, Critical
    <3>2. authorized' = Authorized(result)
      BY <2>2, <2>3, <3>1 DEF Authorized
    <3> QED BY <2>2, <2>3, <3>1, <3>2, Parts, FaultStep
  <2>4. CASE result \notin Critical
    BY <2>2, <2>4, Quiet
  <2> QED BY <2>3, <2>4
<1>12. CASE ClearHealthLatch \/ \E b \in BOOLEAN : SetAudioEnabled(b)
  BY <1>12, Quiet DEF ClearHealthLatch, SetAudioEnabled
<1>13. CASE ClearEmergencyStop \/ ClearFault
  <2>1. BackToSafeTorque /\ eng' = [eng EXCEPT !.safety = "SafeTorque", !.ramp = NoRamp]
    BY <1>13 DEF ClearEmergencyStop, ClearFault
  <2>2. NoRamp \in Ramps
    BY NoRampLemma
  <2>3. eng' \in Engines /\ eng'.safety = "SafeTorque" /\ eng'.ramp = NoRamp
    BY <2>1, <2>2, Parts DEF Engines, Safeties
  <2> QED BY <2>1, <2>3, RecoveryStep
<1>14. CASE ResetAfterPowerCycle
  <2>0. <<>> \in Histories
    BY NoRampLemma
  <2>1. PICK h \in Histories :
           /\ BackToSafeTorque
           /\ eng' = [eng EXCEPT !.safety = "SafeTorque", !.ramp = NoRamp,
                                 !.history = h, !.critical = FALSE]
    BY <1>14, <2>0 DEF ResetAfterPowerCycle
  <2>2. NoRamp \in Ramps
    BY NoRampLemma
  <2>3. eng' \in Engines /\ eng'.safety = "SafeTorque" /\ eng'.ramp = NoRamp
    BY <2>1, <2>2, Parts DEF Engines, Safeties
  <2> QED BY <2>1, <2>3, RecoveryStep
<1>15. CASE TriggerSoftStop
  <2>1. eng' = SoftStop(eng, Torque(eng.safety)).eng /\ UNCHANGED <<interlockVars, authorized>>
    BY <1>15 DEF TriggerSoftStop
  <2>2. Torque(eng.safety) \in {0, 2, 8} /\ (eng.safety = "Faulted" => Torque(eng.safety) = 0)
    BY Parts, TorqueLemma
  <2>3. /\ eng' \in Engines /\ eng'.history = eng.history /\ eng'.safety = eng.safety
        /\ eng'.ramp = eng.ramp \/ eng'.ramp = StartedRamp(Torque(eng.safety))
    BY <2>1, <2>2, Parts, SoftStopLemma
  <2>4. OnRamp(eng') /\ (eng.safety = "Faulted" => eng'.ramp.torque <= eng.ramp.torque)
    <3>1. CASE eng'.ramp = eng.ramp
      BY <3>1, Parts DEF Sound, OnRamp
    <3>2. CASE eng'.ramp = StartedRamp(Torque(eng.safety))
      <4>1. OnRamp(eng') /\ eng'.ramp.torque = Torque(eng.safety) * RampTime
        BY <3>2, <2>2, <2>3, FreshRamp
      <4> QED BY <4>1, <2>2, Parts, FfbAssumption
    <3> QED BY <2>3, <3>1, <3>2
  <2>5. SatisfactionIsFresh'
    BY <2>1, <2>3, KeepsFresh
  <2> QED BY <2>3, <2>4, <2>5, RampStep
<1>16. CASE Update
  <2> DEFINE left   == RampTime - eng.ramp.age
             torque == IF left <= 0 THEN 0 ELSE eng.ramp.from * left
             ramp   == IF torque > 0 THEN [eng.ramp EXCEPT !.torque = torque] ELSE NoRamp
  <2>1. eng' = [eng EXCEPT !.ramp = ramp] /\ UNCHANGED <<interlockVars, authorized>>
    BY <1>16 DEF Update
  <2>2. /\ eng.ramp.from \in {0, 2, 8} /\ eng.ramp.age \in Nat /\ RampTime \in Nat
        /\ eng.ramp.torque >= eng.ramp.from * (RampTime - eng.ramp.age)
    BY Parts, FfbAssumption DEF Ramps, Sound, OnRamp
  <2>3. torque \in Nat /\ torque <= eng.ramp.torque /\ torque >= eng.ramp.from * left
    BY <2>2, Parts
  <2>a. torque \in 0 .. 8 * RampTime
    BY <2>2, <2>3, Parts DEF Ramps
  <2> HIDE DEF torque
  <2>4. /\ ramp \in Ramps /\ ramp.torque <= eng.ramp.torque
        /\ ramp.torque >= ramp.from * (RampTime - ramp.age)
    <3>1. CASE torque > 0
      <4>1. ramp = [eng.ramp EXCEPT !.torque = torque]
        BY <3>1
      <4> HIDE DEF ramp
      <4>2. /\ ramp \in Ramps /\ ramp.torque = torque
            /\ ramp.from = eng.ramp.from /\ ramp.age = eng.ramp.age
        BY <4>1, <2>a, Parts DEF Ramps
      <4> QED BY <4>2, <2>3
    <3>2. CASE ~ (torque > 0)
      <4>1. ramp = NoRamp
        BY <3>2
      <4> HIDE DEF ramp
      <4> QED BY <4>1, <2>2, Parts, NoRampLemma DEF NoRamp, Ramps
    <3> QED BY <3>1, <3>2
  <2> HIDE DEF ramp
  <2>5. /\ eng' \in Engines /\ eng'.safety = eng.safety
        /\ eng'.history = eng.history /\ eng'.ramp = ramp
    BY <2>1, <2>4, Parts DEF Engines
  <2>6. SatisfactionIsFresh'
    BY <2>1, <2>5, KeepsFresh
  <2> QED BY <2>4, <2>5, <2>6, RampStep DEF OnRamp
<1>17. CASE Tick
  <2> DEFINE age  == IF eng.ramp.active /\ eng.ramp.age <= RampTime
                       THEN eng.ramp.age + 1 ELSE eng.ramp.age
             cue  == IF eng.cueAge < CueInterval THEN eng.cueAge + 1 ELSE eng.cueAge
             ramp == [eng.ramp EXCEPT !.age = age]
  <2>1. eng' = [eng EXCEPT !.ramp = ramp, !.cueAge = cue]
    BY <1>17, Parts DEF Tick, Engines
  <2>2. /\ eng.ramp.from \in {0, 2, 8} /\ RampTime \in Nat
        /\ eng.ramp.age \in 0 .. RampTime + 1
        /\ eng.ramp.torque >= eng.ramp.from * (RampTime - eng.ramp.age)
        /\ eng.cueAge \in 0 .. CueInterval /\ CueInterval \in Nat
    BY Parts, FfbAssumption DEF Ramps, Sound, OnRamp, Engines
  <2>3. /\ age \in 0 .. RampTime + 1 /\ age >= eng.ramp.age
        /\ cue \in 0 .. CueInterval
    BY <2>2
  <2> HIDE DEF age, cue
  <2>4. /\ ramp \in Ramps /\ ramp.torque = eng.ramp.torque
        /\ ramp.from = eng.ramp.from /\ ramp.age = age
    BY <2>3, Parts DEF Ramps
  <2> HIDE DEF ramp
  <2>5. /\ eng' \in Engines /\ eng'.safety = eng.safety
        /\ eng'.history = eng.history /\ eng'.ramp = ramp
    BY <2>1, <2>3, <2>4, Parts DEF Engines
  <2>6. ramp.torque >= ramp.from * (RampTime - ramp.age)
    BY <2>2, <2>3, <2>4, Parts
  <2>7. SatisfactionIsFresh'
    BY <1>17, <2>5, Parts DEF Tick, Interlock!InterlockTick, SatisfactionIsFresh
  <2>8. ramp.torque <= eng.ramp.torque
    BY <2>4, Parts
  <2> QED BY <2>5, <2>6, <2>7, <2>8, RampStep DEF OnRamp
<1>18. CASE UNCHANGED vars
  BY <1>18, Quiet DEF vars
<1> QED
  BY <1>1, <1>2, <1>3, <1>4, <1>5, <1>6, <1>7, <1>8, <1>9, <1>10, <1>11, <1>12,
     <1>13, <1>14, <1>15, <1>16, <1>17, <1>18 DEF Next

-----------------------------------------------------------------------------
\* The invariant holds throughout.
THEOREM IndInvHolds == Spec => []IndInv
<1>1. IndInv /\ [Next]_vars => IndInv'
  BY StepIsGood DEF Good
<1> QED BY <1>1, InitIndInv, PTL DEF Spec

\* enable_high_torque succeeds only on a challenge answered since the last
\* fault, recovery or switch-off, for every time-out and every mix of faults
\* (lib.rs: enable_high_torque, interlock.rs: is_satisfied).
THEOREM AuthorizationIsFresh == Spec => FreshAuthorization
<1>1. IndInv /\ [Next]_vars
        => [eng.safety # "HighTorque" /\ eng'.safety = "HighTorque"
              => authorized \/ ~ InterlockRequired]_vars
  BY StepIsGood DEF Good, EntersFresh
<1> QED BY <1>1, IndInvHolds, PTL DEF Spec, FreshAuthorization

\* A faulted engine always has a fault on record, whatever the bound of the
\* history (fault.rs: record_fault).
THEOREM FaultsAreExplained == Spec => []FaultedIsExplained
<1>1. IndInv => FaultedIsExplained
  BY DEF IndInv, Sound, Explained, FaultedIsExplained
<1> QED BY <1>1, IndInvHolds, PTL

\* No later fault, soft stop or update raises the torque of a faulted engine,
\* for every ramp time (soft_stop.rs: start_ramp, update).
THEOREM FaultedTorqueFalls == Spec => TorqueOnlyFalls
<1>1. IndInv /\ [Next]_vars
        => [eng.safety = "Faulted" /\ eng'.safety = "Faulted"
              => eng'.ramp.torque <= eng.ramp.torque]_vars
  BY StepIsGood DEF Good, Falls
<1> QED BY <1>1, IndInvHolds, PTL DEF Spec, TorqueOnlyFalls

\* Whatever the ramp time, the cue interval and the faults, a ramp that a fault
\* starts begins at the torque the engine put out before it (lib.rs:
\* process_fault, process_device_health).
THEOREM RampsStartAtTorque == Spec => RampStartsAtTorque
<1>1. IndInv /\ [Next]_vars
        => [eng.safety # "Faulted" /\ eng'.safety = "Faulted"
              /\ eng'.ramp # eng.ramp
              => eng'.ramp = StartedRamp(Torque(eng.safety))]_vars
  BY StepIsGood DEF Good, Starts
<1> QED BY <1>1, IndInvHolds, PTL DEF Spec, RampStartsAtTorque

-----------------------------------------------------------------------------
\* The types of what the engine's record leaves out.
Readings ==
    /\ audioEnabled \in BOOLEAN
    /\ stalls \in 0 .. StallLimit - 1
    /\ wedgeAge \in NoTimer .. WedgeTime
    /\ latched \in {"None", "OverTemp", "OverCurrent"}

RestTypes == Interlock!InterlockTypeOK /\ Readings

\* The counters stay within their widths, and the token is never zero.
LEMMA CounterTypes ==
    ASSUME NEW c \in Nat
    PROVE  /\ Interlock!NextToken(c) \in Interlock!Tokens \ {0}
           /\ Interlock!NextId(c) \in Interlock!Ids
<1>1. ASSUME NEW m \in Nat, m >= 2 PROVE (c + 1) % m \in 0 .. m - 1
  BY <1>1
<1>2. (c + 1) % TokenMod \in 0 .. TokenMod - 1 /\ (c + 1) % IdMod \in 0 .. IdMod - 1
  BY <1>1, FfbAssumption
<1>3. 1 \in 0 .. TokenMod - 1 BY FfbAssumption
<1> QED
  BY <1>2, <1>3 DEF Interlock!NextToken, Interlock!NextId, Interlock!Tokens,
                    Interlock!Ids

\* Each operation of the interlock keeps its types.
LEMMA InterlockTypes ==
    ASSUME Interlock!InterlockTypeOK,
           \/ Interlock!GenerateChallenge
           \/ \E r \in Interlock!Responses : Interlock!ValidateResponse(r)
           \/ Interlock!ResetInterlock
           \/ Interlock!InterlockTick
           \/ UNCHANGED interlockVars
    PROVE  Interlock!InterlockTypeOK'
<1>0. /\ required \in BOOLEAN /\ satisfied \in BOOLEAN
      /\ challenge \in Interlock!Challenges \cup {Interlock!NoChallenge}
      /\ satisfiedAge \in -1 .. SatisfactionTimeout + 1
      /\ tokenCounter \in Interlock!Tokens \ {0}
      /\ challengeCounter \in Interlock!Ids
      /\ tokenCounter \in Nat /\ challengeCounter \in Nat
      /\ SatisfactionTimeout \in Nat /\ ChallengeTimeout \in Nat
  BY FfbAssumption
     DEF Interlock!InterlockTypeOK, Interlock!Never, Interlock!Tokens,
         Interlock!Ids
<1>1. CASE Interlock!GenerateChallenge
  <2>1. /\ tokenCounter' \in Interlock!Tokens \ {0}
        /\ challengeCounter' \in Interlock!Ids
    BY <1>0, <1>1, CounterTypes DEF Interlock!GenerateChallenge
  <2>2. challenge' \in Interlock!Challenges
    BY <1>0, <1>1, <2>1 DEF Interlock!GenerateChallenge, Interlock!Challenges
  <2> QED
    BY <1>0, <1>1, <2>1, <2>2
       DEF Interlock!GenerateChallenge, Interlock!InterlockTypeOK,
           Interlock!Never
<1>2. CASE \E r \in Interlock!Responses : Interlock!ValidateResponse(r)
  <2>1. /\ satisfied' \in {satisfied, TRUE} /\ satisfiedAge' \in {satisfiedAge, 0}
        /\ challenge' \in {challenge, Interlock!NoChallenge}
        /\ UNCHANGED <<required, tokenCounter, challengeCounter>>
    BY <1>2 DEF Interlock!ValidateResponse
  <2>2. satisfied' \in BOOLEAN BY <1>0, <2>1
  <2>3. satisfiedAge' \in -1 .. SatisfactionTimeout + 1 BY <1>0, <2>1
  <2> QED
    BY <1>0, <2>1, <2>2, <2>3 DEF Interlock!InterlockTypeOK, Interlock!Never
<1>3. CASE Interlock!ResetInterlock
  <2>1. -1 \in -1 .. SatisfactionTimeout + 1 BY <1>0
  <2>2. satisfied' \in BOOLEAN BY <1>3 DEF Interlock!ResetInterlock
  <2> QED
    BY <1>0, <1>3, <2>1, <2>2
       DEF Interlock!ResetInterlock, Interlock!InterlockTypeOK, Interlock!Never
<1>4. CASE Interlock!InterlockTick
  <2>1. satisfiedAge' \in -1 .. SatisfactionTimeout + 1
    BY <1>0, <1>4
       DEF Interlock!InterlockTick, Interlock!Older, Interlock!Never
  <2>2. challenge' \in Interlock!Challenges \cup {Interlock!NoChallenge}
    <3>1. CASE challenge = Interlock!NoChallenge
      BY <1>4, <3>1 DEF Interlock!InterlockTick
    <3>2. CASE challenge # Interlock!NoChallenge
      <4> DEFINE a == Interlock!Older(challenge.age, ChallengeTimeout)
      <4>1. challenge \in Interlock!Challenges BY <1>0, <3>2
      <4>2. challenge' = [challenge EXCEPT !.age = a]
        BY <1>4, <3>2 DEF Interlock!InterlockTick
      <4>3. a \in 0 .. ChallengeTimeout + 1
        BY <1>0, <4>1 DEF Interlock!Older, Interlock!Challenges
      <4> HIDE DEF a
      <4> QED BY <4>1, <4>2, <4>3 DEF Interlock!Challenges
    <3> QED BY <3>1, <3>2
  <2> QED
    BY <1>0, <1>4, <2>1, <2>2
       DEF Interlock!InterlockTick, Interlock!InterlockTypeOK, Interlock!Never
<1>5. CASE UNCHANGED interlockVars
  BY <1>5 DEF interlockVars, Interlock!InterlockTypeOK
<1> QED BY <1>1, <1>2, <1>3, <1>4, <1>5

\* What an action does to the interlock is one of its operations.
LEMMA InterlockSteps ==
    ASSUME [Next]_vars
    PROVE  \/ Interlock!GenerateChallenge
           \/ \E r \in Interlock!Responses : Interlock!ValidateResponse(r)
           \/ Interlock!ResetInterlock
           \/ Interlock!InterlockTick
           \/ UNCHANGED interlockVars
  BY DEF Next, vars, GenerateChallenge, ValidateResponse, EnableHighTorque,
         DisableHighTorque, Fault, EmergencyStop, UsbWriteResult, CheckValue,
         DeviceGone, CheckEndpoint, DeviceHealthFlags, UpdateDeviceHealth,
         ClearHealthLatch, ClearEmergencyStop, ClearFault,
         ResetAfterPowerCycle, BackToSafeTorque, TriggerSoftStop, Update,
         SetAudioEnabled, Tick

\* What the health monitor latches.
LEMMA HealthTypes ==
    ASSUME Readings, NEW temp, NEW current,
           HealthResult(temp, current) \in Critical
    PROVE  HealthResult(temp, current) \in {"OverTemp", "OverCurrent"}
<1>1. CASE latched # "None" BY <1>1 DEF HealthResult, Readings
<1>2. CASE latched = "None"
  <2>1. EvaluateStatus(temp, current)
          \in {"OverTemp", "Warning", "OverCurrent", "Healthy"}
    BY DEF EvaluateStatus
  <2> QED BY <1>2, <2>1 DEF HealthResult, Critical
<1> QED BY <1>1, <1>2

\* The detectors' counters and timers stay within their limits.
LEMMA ReadingSteps ==
    ASSUME Readings, [Next]_vars
    PROVE  Readings'
<1>0. /\ StallLimit \in Nat \ {0} /\ WedgeTime \in Nat /\ NoTimer = -1
      /\ audioEnabled \in BOOLEAN
      /\ stalls \in 0 .. StallLimit - 1 /\ wedgeAge \in -1 .. WedgeTime
      /\ latched \in {"None", "OverTemp", "OverCurrent"}
  BY FfbAssumption DEF Readings, NoTimer
<1>1. CASE UNCHANGED <<audioEnabled, detectorVars>>
  BY <1>1 DEF detectorVars, Readings
<1>2. CASE \E success \in BOOLEAN : UsbWriteResult(success)
  <2>1. PICK success \in BOOLEAN : UsbWriteResult(success) BY <1>2
  <2>2. stalls' \in 0 .. StallLimit - 1
    BY <1>0, <2>1 DEF UsbWriteResult
  <2> QED BY <1>0, <2>1, <2>2 DEF UsbWriteResult, Readings
<1>3. CASE \E responsive \in BOOLEAN : CheckEndpoint(responsive)
  <2>1. PICK responsive \in BOOLEAN : CheckEndpoint(responsive) BY <1>3
  <2>2. wedgeAge' \in -1 .. WedgeTime
    BY <1>0, <2>1 DEF CheckEndpoint
  <2> QED BY <1>0, <2>1, <2>2 DEF CheckEndpoint, Readings
<1>4. CASE \E temp, current \in Levels : UpdateDeviceHealth(temp, current)
  <2>1. PICK temp \in Levels, current \in Levels :
          UpdateDeviceHealth(temp, current)
    BY <1>4
  <2>2. latched' \in {"None", "OverTemp", "OverCurrent"}
    BY <1>0, <2>1, HealthTypes DEF UpdateDeviceHealth
  <2> QED BY <1>0, <2>1, <2>2 DEF UpdateDeviceHealth, Readings
<1>5. CASE ClearHealthLatch
  BY <1>0, <1>5 DEF ClearHealthLatch, Readings
<1>6. CASE ResetAfterPowerCycle
  BY <1>0, <1>6 DEF ResetAfterPowerCycle, Readings
<1>7. CASE \E b \in BOOLEAN : SetAudioEnabled(b)
  BY <1>0, <1>7 DEF SetAudioEnabled, detectorVars, Readings
<1>8. CASE Tick
  <2>1. wedgeAge' \in -1 .. WedgeTime BY <1>0, <1>8 DEF Tick
  <2> QED BY <1>0, <1>8, <2>1 DEF Tick, Readings
<1>9. \/ UNCHANGED <<audioEnabled, detectorVars>>
      \/ \E success \in BOOLEAN : UsbWriteResult(success)
      \/ \E responsive \in BOOLEAN : CheckEndpoint(responsive)
      \/ \E temp, current \in Levels : UpdateDeviceHealth(temp, current)
      \/ ClearHealthLatch \/ ResetAfterPowerCycle \/ Tick
      \/ \E b \in BOOLEAN : SetAudioEnabled(b)
  BY DEF Next, vars, GenerateChallenge, ValidateResponse, EnableHighTorque,
         DisableHighTorque, Fault, EmergencyStop, CheckValue, DeviceGone,
         DeviceHealthFlags, ClearEmergencyStop, ClearFault, TriggerSoftStop,
         Update
<1> QED BY <1>1, <1>2, <1>3, <1>4, <1>5, <1>6, <1>7, <1>8, <1>9

-----------------------------------------------------------------------------
\* The identifier and the token n challenges after one with i and k.
IdAfter(i, n) == (i + n) % IdMod
TokenAfter(k, n) == 1 + (((k - 1) + n) % (TokenMod - 1))

\* The counters tell how long ago the remembered answer was.
Counted ==
    spent # NoAnswer =>
        /\ spent \in Answers /\ spent.token # 0
        /\ challengeCounter = IdAfter(spent.id, spent.since)
        /\ tokenCounter = TokenAfter(spent.token, spent.since)

\* The open challenge is the newest, and younger than any accepted answer.
Newest ==
    challenge # Interlock!NoChallenge =>
        /\ challenge.id = challengeCounter /\ challenge.token = tokenCounter
        /\ spent # NoAnswer => spent.since >= 1

\* Numbers with the same remainder differ by a multiple.
LEMMA SameRemainder ==
    ASSUME NEW m \in Nat \ {0}, NEW a \in Int, NEW b \in Int, a % m = b % m
    PROVE  (b - a) % m = 0
<1> DEFINE q == a \div m
           p == b \div m
           r == b % m
<1>1. /\ q \in Int /\ p \in Int /\ r \in 0 .. m - 1
      /\ a = q * m + r /\ b = p * m + r
  OBVIOUS
<1> HIDE DEF q, p, r
<1>2. b - a = (p - q) * m + 0 BY <1>1
<1>3. ASSUME NEW k \in Int PROVE (k * m + 0) % m = 0 OBVIOUS
<1>4. QED BY <1>1, <1>2, <1>3

\* A remainder is one of the residues, and a residue its own remainder.
LEMMA Residue ==
    ASSUME NEW m \in Nat \ {0}, NEW a \in Nat
    PROVE  /\ a % m \in 0 .. (m - 1)
           /\ a < m => a % m = a
           /\ a = m => a % m = 0
  OBVIOUS

\* The remainder of the next number.
LEMMA NextRemainder ==
    ASSUME NEW m \in Nat \ {0}, NEW a \in Nat
    PROVE  /\ a % m = m - 1 => (a + 1) % m = 0
           /\ a % m # m - 1 => (a + 1) % m = (a % m) + 1
<1> DEFINE q == a \div m
           r == a % m
<1>1. q \in Int /\ r \in 0 .. m - 1 /\ a = q * m + r
  OBVIOUS
<1> HIDE DEF q, r
<1>2. ASSUME NEW k \in Int, NEW j \in 0 .. m - 1 PROVE (k * m + j) % m = j
  OBVIOUS
<1>3. CASE r = m - 1
  <2>1. a + 1 = (q + 1) * m + 0 BY <1>1, <1>3
  <2>2. (a + 1) % m = 0 BY <1>1, <1>2, <2>1
  <2>3. QED BY <1>3, <2>2 DEF r
<1>4. CASE r # m - 1
  <2>1. a + 1 = q * m + (r + 1) /\ r + 1 \in 0 .. m - 1 BY <1>1, <1>4
  <2>2. (a + 1) % m = r + 1 BY <1>1, <1>2, <2>1
  <2>3. QED BY <1>4, <2>2 DEF r
<1>5. QED BY <1>3, <1>4

\* The moduli of the two counters.
LEMMA Moduli ==
    /\ IdMod \in Nat \ {0} /\ IdMod >= 2
    /\ TokenMod - 1 \in Nat \ {0} /\ TokenMod \in Nat \ {0}
  BY FfbAssumption

\* generate_challenge numbers the next challenge: the identifier wraps at
\* IdMod, the token one earlier because it leaves out zero.
LEMMA NextNumber ==
    ASSUME NEW i \in Interlock!Ids, NEW k \in Interlock!Tokens \ {0},
           NEW n \in Nat
    PROVE  /\ Interlock!NextId(IdAfter(i, n)) = IdAfter(i, n + 1)
           /\ Interlock!NextToken(TokenAfter(k, n)) = TokenAfter(k, n + 1)
           /\ IdAfter(i, 0) = i /\ TokenAfter(k, 0) = k
<1>0. i \in Nat /\ i < IdMod /\ k - 1 \in Nat /\ k - 1 < TokenMod - 1 /\ k \in Nat
  BY Moduli DEF Interlock!Ids, Interlock!Tokens
<1>1. Interlock!NextId(IdAfter(i, n)) = IdAfter(i, n + 1)
  <2> DEFINE a == i + n
             r == a % IdMod
  <2>0. a \in Nat /\ i + (n + 1) = a + 1 BY <1>0
  <2> HIDE DEF a
  <2>1. r \in 0 .. (IdMod - 1) BY <2>0, Moduli, Residue
  <2>2. /\ r = IdMod - 1 => (a + 1) % IdMod = 0
        /\ r # IdMod - 1 => (a + 1) % IdMod = r + 1
    BY <2>0, Moduli, NextRemainder
  <2>3. (r + 1) % IdMod = (a + 1) % IdMod
    <3> HIDE DEF r
    <3>1. CASE r = IdMod - 1
      <4>1. r + 1 = IdMod /\ IdMod \in Nat BY <3>1, Moduli
      <4>2. (r + 1) % IdMod = 0 BY <4>1, Moduli, Residue
      <4> QED BY <4>2, <2>2, <3>1
    <3>2. CASE r # IdMod - 1
      <4>1. r + 1 \in Nat /\ r + 1 < IdMod BY <2>1, <3>2, Moduli
      <4>2. (r + 1) % IdMod = r + 1 BY <4>1, Moduli, Residue
      <4> QED BY <4>2, <2>2, <3>2
    <3> QED BY <3>1, <3>2
  <2> QED BY <2>0, <2>3 DEF Interlock!NextId, IdAfter, a, r
<1>2. Interlock!NextToken(TokenAfter(k, n)) = TokenAfter(k, n + 1)
  <2> DEFINE m == TokenMod - 1
             a == (k - 1) + n
             r == a % m
  <2>0. /\ m \in Nat \ {0} /\ TokenMod = m + 1
        /\ a \in Nat /\ (k - 1) + (n + 1) = a + 1
    BY <1>0, Moduli
  <2>1. TokenAfter(k, n) = 1 + r /\ TokenAfter(k, n + 1) = 1 + ((a + 1) % m)
    BY <2>0 DEF TokenAfter
  <2> HIDE DEF m, a
  <2>2. r \in 0 .. (m - 1) BY <2>0, Residue
  <2>3. /\ r = m - 1 => (a + 1) % m = 0
        /\ r # m - 1 => (a + 1) % m = r + 1
    BY <2>0, NextRemainder
  <2> HIDE DEF r
  <2>4. CASE r = m - 1
    <3>1. (1 + r) + 1 = TokenMod /\ TokenMod \in Nat BY <2>0, <2>2, <2>4
    <3>2. ((1 + r) + 1) % TokenMod = 0 BY <3>1, Moduli, Residue
    <3>3. Interlock!NextToken(1 + r) = 1 BY <3>2 DEF Interlock!NextToken
    <3> QED BY <2>1, <2>3, <2>4, <3>3
  <2>5. CASE r # m - 1
    <3>1. /\ (1 + r) + 1 \in Nat /\ (1 + r) + 1 < TokenMod
          /\ (1 + r) + 1 # 0 /\ (1 + r) + 1 = 1 + (r + 1)
      BY <2>0, <2>2, <2>5
    <3>2. ((1 + r) + 1) % TokenMod = (1 + r) + 1 BY <3>1, Moduli, Residue
    <3>3. Interlock!NextToken(1 + r) = 1 + (r + 1)
      BY <3>1, <3>2 DEF Interlock!NextToken
    <3> QED BY <2>1, <2>3, <2>5, <3>3
  <2> QED BY <2>4, <2>5
<1>3. IdAfter(i, 0) = i
  <2>1. i % IdMod = i BY <1>0, Moduli, Residue
  <2>2. i + 0 = i BY <1>0
  <2> QED BY <2>1, <2>2 DEF IdAfter
<1>4. TokenAfter(k, 0) = k
  <2> DEFINE a == k - 1
  <2>1. a \in Nat /\ a < TokenMod - 1 /\ a + 0 = a /\ 1 + a = k BY <1>0
  <2>2. a % (TokenMod - 1) = a
    <3> HIDE DEF a
    <3> QED BY <2>1, Moduli, Residue
  <2>3. 1 + ((a + 0) % (TokenMod - 1)) = k BY <2>1, <2>2
  <2> QED BY <2>3 DEF TokenAfter
<1> QED BY <1>1, <1>2, <1>3, <1>4

\* Within the period a later challenge differs in its identifier or its token.
LEMMA DistinctNumbers ==
    ASSUME NEW i \in Interlock!Ids, NEW k \in Interlock!Tokens \ {0},
           NEW n \in 1 .. Period - 1,
           IdAfter(i, n) = i, TokenAfter(k, n) = k
    PROVE  FALSE
<1>0. /\ i \in Nat /\ k - 1 \in Nat /\ n \in Nat /\ k \in Nat
      /\ i + n \in Int /\ i \in Int /\ k - 1 \in Int /\ (k - 1) + n \in Int
  BY Moduli, FfbAssumption DEF Interlock!Ids, Interlock!Tokens
<1>1. n % IdMod = 0
  <2>1. i % IdMod = (i + n) % IdMod
    BY <1>0, NextNumber DEF IdAfter
  <2>2. ((i + n) - i) % IdMod = 0
    BY <1>0, <2>1, Moduli, SameRemainder, Zenon
  <2>3. (i + n) - i = n BY <1>0
  <2> QED BY <2>2, <2>3
<1>2. n % (TokenMod - 1) = 0
  <2> DEFINE m == TokenMod - 1
             a == k - 1
             r == (a + n) % m
  <2>0. m \in Nat \ {0} /\ a \in Nat /\ a < m /\ a \in Int /\ a + n \in Int
    BY <1>0, Moduli DEF Interlock!Tokens
  <2>1. 1 + r = k BY DEF TokenAfter
  <2>2. r \in Int
    <3> HIDE DEF m, a
    <3>1. a + n \in Nat BY <1>0, <2>0
    <3> QED BY <2>0, <3>1, Residue
  <2>3. r = a
    <3> HIDE DEF r
    <3> QED BY <1>0, <2>1, <2>2
  <2> HIDE DEF m, a
  <2>4. a % m = (a + n) % m BY <2>0, <2>3, Residue
  <2> HIDE DEF r
  <2>5. ((a + n) - a) % m = 0 BY <2>0, <2>4, SameRemainder, Zenon
  <2>6. (a + n) - a = n BY <1>0, <2>0
  <2>7. n % m = 0 BY <2>5, <2>6
  <2> QED BY <2>7 DEF m
<1> QED BY <1>1, <1>2, FfbAssumption

\* What an action does to the interlock and to the remembered answer.
LEMMA AnswerSteps ==
    ASSUME [Next]_vars
    PROVE  \/ GenerateChallenge
           \/ \E r \in Interlock!Responses : ValidateResponse(r)
           \/ Interlock!ResetInterlock /\ UNCHANGED spent
           \/ Interlock!InterlockTick /\ UNCHANGED spent
           \/ UNCHANGED <<interlockVars, spent>>
  BY DEF Next, vars, EnableHighTorque,
         DisableHighTorque, Fault, EmergencyStop, UsbWriteResult, CheckValue,
         DeviceGone, CheckEndpoint, DeviceHealthFlags, UpdateDeviceHealth,
         ClearHealthLatch, ClearEmergencyStop, ClearFault,
         ResetAfterPowerCycle, BackToSafeTorque, TriggerSoftStop, Update,
         SetAudioEnabled, Tick

\* No operation takes the counters away from the remembered answer.
LEMMA CountedSteps ==
    ASSUME Interlock!InterlockTypeOK, Counted, Newest, [Next]_vars
    PROVE  Counted' /\ Newest'
<1>0. /\ challenge \in Interlock!Challenges \cup {Interlock!NoChallenge}
      /\ tokenCounter \in Interlock!Tokens \ {0}
      /\ challengeCounter \in Interlock!Ids
      /\ \A c \in Interlock!Challenges : c # Interlock!NoChallenge
      /\ \A a \in Answers : a # NoAnswer
  BY DEF Interlock!InterlockTypeOK, Interlock!Challenges,
         Interlock!NoChallenge, Interlock!Ids, Answers, NoAnswer
<1>1. CASE GenerateChallenge
  <2>1. /\ tokenCounter' = Interlock!NextToken(tokenCounter)
        /\ challengeCounter' = Interlock!NextId(challengeCounter)
        /\ challenge'.id = challengeCounter' /\ challenge'.token = tokenCounter'
    BY <1>1 DEF GenerateChallenge, Interlock!GenerateChallenge
  <2>2. CASE spent' = NoAnswer
    BY <2>1, <2>2 DEF Counted, Newest
  <2>3. CASE spent' # NoAnswer
    <3>1. /\ spent # NoAnswer /\ ~ (spent.since + 1 >= Period)
          /\ spent' = [spent EXCEPT !.since = spent.since + 1]
      BY <1>1, <2>3 DEF GenerateChallenge
    <3>2. /\ spent \in Answers /\ spent.token # 0
          /\ challengeCounter = IdAfter(spent.id, spent.since)
          /\ tokenCounter = TokenAfter(spent.token, spent.since)
      BY <3>1 DEF Counted
    <3>3. /\ spent.id \in Interlock!Ids /\ spent.token \in Interlock!Tokens \ {0}
          /\ spent.since \in Nat /\ spent.since + 1 \in 1 .. Period - 1
      BY <3>1, <3>2, FfbAssumption DEF Answers
    <3>4. /\ spent' \in Answers /\ spent'.since = spent.since + 1
          /\ spent'.id = spent.id /\ spent'.token = spent.token
      BY <3>1, <3>2, <3>3, FfbAssumption DEF Answers
    <3>5. /\ challengeCounter' = IdAfter(spent.id, spent.since + 1)
          /\ tokenCounter' = TokenAfter(spent.token, spent.since + 1)
      BY <2>1, <3>2, <3>3, NextNumber
    <3> QED BY <2>1, <3>2, <3>3, <3>4, <3>5 DEF Counted, Newest
  <2> QED BY <2>2, <2>3
<1>2. CASE \E r \in Interlock!Responses : ValidateResponse(r)
  <2>1. PICK r \in Interlock!Responses : ValidateResponse(r) BY <1>2
  <2>2. UNCHANGED <<tokenCounter, challengeCounter>>
    BY <2>1 DEF ValidateResponse, Interlock!ValidateResponse
  <2>3. CASE Interlock!Accepts(r)
    <3>1. /\ challenge' = Interlock!NoChallenge
          /\ r.id = challengeCounter /\ r.token = tokenCounter
      BY <2>1, <2>3
         DEF ValidateResponse, Interlock!ValidateResponse, Interlock!Accepts,
             Newest
    <3>2. CASE UNCHANGED spent
      BY <2>2, <3>1, <3>2 DEF Counted, Newest
    <3>3. CASE spent' = [id |-> r.id, token |-> r.token, since |-> 0]
      <4>1. /\ spent' \in Answers /\ spent'.token # 0 /\ spent'.since = 0
            /\ spent'.id = challengeCounter /\ spent'.token = tokenCounter
        BY <1>0, <3>1, <3>3, FfbAssumption DEF Answers
      <4>2. /\ challengeCounter' = IdAfter(spent'.id, spent'.since)
            /\ tokenCounter' = TokenAfter(spent'.token, spent'.since)
        BY <1>0, <2>2, <4>1, NextNumber
      <4> QED BY <3>1, <4>1, <4>2 DEF Counted, Newest
    <3> QED BY <2>1, <3>2, <3>3 DEF ValidateResponse
  <2>4. CASE ~ Interlock!Accepts(r)
    <3>1. UNCHANGED <<challenge, spent>>
      BY <2>1, <2>4 DEF ValidateResponse, Interlock!ValidateResponse
    <3> QED BY <2>2, <3>1 DEF Counted, Newest
  <2> QED BY <2>3, <2>4
<1>3. CASE Interlock!ResetInterlock /\ UNCHANGED spent
  BY <1>3 DEF Interlock!ResetInterlock, Counted, Newest
<1>4. CASE Interlock!InterlockTick /\ UNCHANGED spent
  <2>1. UNCHANGED <<tokenCounter, challengeCounter, spent>>
    BY <1>4 DEF Interlock!InterlockTick
  <2>2. CASE challenge = Interlock!NoChallenge
    BY <1>4, <2>1, <2>2 DEF Interlock!InterlockTick, Counted, Newest
  <2>3. CASE challenge # Interlock!NoChallenge
    <3>1. challenge \in Interlock!Challenges BY <1>0, <2>3
    <3>2. challenge' = [challenge EXCEPT
                          !.age = Interlock!Older(@, ChallengeTimeout)]
      BY <1>4, <2>3 DEF Interlock!InterlockTick
    <3>3. challenge'.id = challenge.id /\ challenge'.token = challenge.token
      BY <3>1, <3>2 DEF Interlock!Challenges
    <3> QED BY <2>1, <2>3, <3>3 DEF Counted, Newest
  <2> QED BY <2>2, <2>3
<1>5. CASE UNCHANGED <<interlockVars, spent>>
  BY <1>5 DEF interlockVars, Counted, Newest
<1> QED BY <1>1, <1>2, <1>3, <1>4, <1>5, AnswerSteps

RestInv == RestTypes /\ Counted /\ Newest

\* The interlock, the detectors and the remembered answer agree throughout.
THEOREM RestInvHolds == Spec => []RestInv
<1>1. Init => RestInv
  <2> SUFFICES ASSUME Init PROVE RestInv
    OBVIOUS
  <2>1. Interlock!InterlockTypeOK
    <3>1. satisfied \in BOOLEAN /\ required \in BOOLEAN
      BY DEF Init, Interlock!InterlockInit
    <3>2. /\ -1 \in -1 .. SatisfactionTimeout + 1
          /\ 1 \in 0 .. TokenMod - 1 /\ 1 \in 0 .. IdMod - 1
      BY FfbAssumption
    <3> QED
      BY <3>1, <3>2
         DEF Init, Interlock!InterlockInit, Interlock!InterlockTypeOK,
             Interlock!Never, Interlock!Tokens, Interlock!Ids
  <2>2. Readings BY FfbAssumption DEF Init, Readings, NoTimer
  <2>3. Counted /\ Newest
    BY DEF Init, Interlock!InterlockInit, Counted, Newest
  <2> QED BY <2>1, <2>2, <2>3 DEF RestInv, RestTypes
<1>2. RestInv /\ [Next]_vars => RestInv'
  BY InterlockSteps, InterlockTypes, ReadingSteps, CountedSteps
     DEF RestInv, RestTypes
<1> QED BY <1>1, <1>2, PTL DEF Spec

\* Every variable keeps its type, the bounds of the history, of the ramp's
\* torque and of the counters included.
THEOREM TypeCorrect == Spec => []TypeOK
<1>1. IndInv /\ RestInv => TypeOK
  <2> SUFFICES ASSUME IndInv, RestInv PROVE TypeOK
    OBVIOUS
  <2>1. /\ eng \in Engines /\ authorized \in BOOLEAN
    BY Parts DEF SatisfactionIsFresh
  <2>2. /\ eng.safety \in Safeties /\ eng.history \in Histories
        /\ eng.ramp \in Ramps /\ eng.cueAge \in 0 .. CueInterval
        /\ eng.critical \in BOOLEAN
    BY <2>1 DEF Engines
  <2>3. spent \in Answers \cup {NoAnswer}
    BY DEF RestInv, Counted
  <2> QED
    BY <2>1, <2>2, <2>3
       DEF RestInv, RestTypes, Readings, TypeOK, Safeties, Histories, Classes, Ramps
<1> QED BY <1>1, IndInvHolds, RestInvHolds, PTL

\* For every width of the two counters and every time-out, an accepted answer
\* is good for no challenge of the next period, however many expire, are
\* replaced or are reset in between (interlock.rs: generate_challenge,
\* validate_response).
THEOREM AnswersAreSpent == Spec => []NoReplay
<1>1. RestInv => NoReplay
  <2> SUFFICES ASSUME RestInv, challenge # Interlock!NoChallenge,
                      challenge.id = spent.id, challenge.token = spent.token
               PROVE  FALSE
    BY DEF NoReplay
  <2>1. challenge.id \in Interlock!Ids
    BY DEF RestInv, RestTypes, Interlock!InterlockTypeOK, Interlock!Challenges
  <2>2. spent # NoAnswer
    BY <2>1 DEF NoAnswer, Interlock!Ids
  <2>3. /\ spent \in Answers /\ spent.token # 0 /\ spent.since >= 1
        /\ spent.id = IdAfter(spent.id, spent.since)
        /\ spent.token = TokenAfter(spent.token, spent.since)
    BY <2>2 DEF RestInv, Counted, Newest
  <2>4. /\ spent.id \in Interlock!Ids /\ spent.token \in Interlock!Tokens \ {0}
        /\ spent.since \in 1 .. Period - 1
    BY <2>3, FfbAssumption DEF Answers
  <2> QED BY <2>3, <2>4, DistinctNumbers
<1> QED BY <1>1, RestInvHolds, PTL
=============================================================================
