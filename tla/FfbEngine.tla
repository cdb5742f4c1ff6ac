----------------------------- MODULE FfbEngine -----------------------------
(***************************************************************************)
(* The safety side of the force-feedback engine (crates/flight-ffb/src/    *)
(* lib.rs) with the parts it owns: the interlock, the fault detector       *)
(* (fault.rs), the soft-stop ramp (soft_stop.rs), the audio cues           *)
(* (audio.rs) and the device-health monitor (device_health.rs).            *)
(*                                                                         *)
(* The engine is called from one thread; its operations are atomic and the *)
(* clock may tick between any two of them.  Instants are ages in ticks.    *)
(* The blackbox recorder is left out: its calls cannot fail and nothing    *)
(* here reads it.                                                          *)
(***************************************************************************)
EXTENDS Integers, Sequences, FiniteSets

CONSTANTS
    InterlockRequired,     \* FfbConfig::interlock_required
    CueErrorsAbort,        \* cfg(not(test)): a failed audio cue is returned
    RampTime,              \* SoftStopConfig::max_ramp_time, 50 ms
    CueInterval,           \* AudioConfig::min_interval, 100 ms
    WedgeTime,             \* endpoint wedge detection, 100 ms
    StallLimit,            \* USB stalls that make a fault, 3
    MaxHistory,            \* FaultDetector::max_history_size, 1000
    RaisedFaults,          \* the fault types callers report in an instance
    ChallengeTimeout, SatisfactionTimeout, TokenMod, IdMod,
    Period                 \* challenges after which both counters repeat

Critical  == {"OverTemp", "OverCurrent", "EncoderInvalid"}
Transient == {"UsbStall", "EndpointError", "EndpointWedged", "NanValue",
              "DeviceTimeout", "DeviceDisconnect", "UserEmergencyStop",
              "HardwareEmergencyStop", "PluginOverrun"}
FaultTypes == Critical \cup Transient

ASSUME FfbAssumption ==
    /\ InterlockRequired \in BOOLEAN
    /\ CueErrorsAbort \in BOOLEAN
    /\ RampTime \in Nat \ {0}
    /\ CueInterval \in Nat
    /\ WedgeTime \in Nat
    /\ StallLimit \in Nat \ {0}
    /\ MaxHistory \in Nat \ {0}
    /\ RaisedFaults \subseteq FaultTypes
    /\ {ChallengeTimeout, SatisfactionTimeout} \subseteq Nat
    /\ TokenMod \in Nat /\ TokenMod >= 2
    /\ IdMod \in Nat /\ IdMod >= 2
    \* No two challenges less than a period apart are numbered alike: the
    \* identifier repeats every IdMod challenges, the token, which is never
    \* zero, every TokenMod - 1.
    /\ Period \in Nat \ {0}
    /\ \A n \in 1 .. Period - 1 : ~ (n % IdMod = 0 /\ n % (TokenMod - 1) = 0)

VARIABLES
    required, challenge, satisfied, satisfiedAge, tokenCounter,
    challengeCounter,   \* the interlock
    eng,                \* safety state, fault history, ramp and last cue
    audioEnabled,
    stalls,             \* usb_stall_counter
    wedgeAge,           \* ticks since endpoint_wedge_timer, or NoTimer
    latched,            \* the health monitor's latched fault, or "None"
    authorized,         \* history: a challenge was answered since the engine
                        \* last faulted, recovered or left high torque
    spent               \* history: some accepted answer of the last Period
                        \* challenges and how many ago it was, or NoAnswer

interlockVars == <<required, challenge, satisfied, satisfiedAge,
                   tokenCounter, challengeCounter>>
detectorVars  == <<stalls, wedgeAge, latched>>
vars == <<interlockVars, eng, audioEnabled, detectorVars, authorized, spent>>

Interlock == INSTANCE Interlock

\* What clear_fault and the UI ask of a recorded fault.
FaultClass(f) == IF f \in Critical THEN "critical" ELSE "transient"

NoTimer == -1

NoAnswer == [id |-> -1, token |-> -1, since |-> 0]

Answers == [id : Interlock!Ids, token : Interlock!Tokens, since : 0 .. Period - 1]

NoRamp == [active |-> FALSE, from |-> 0, torque |-> 0, age |-> 0]

\* Mutant: a faulted engine is still thought to produce the baseline torque.
TorqueNeverOff(safety) == IF safety = "HighTorque" THEN 8 ELSE 2

\* get_current_torque_output, in Nm.
Torque(safety) ==
    CASE safety = "SafeTorque" -> 2
      [] safety = "HighTorque" -> 8
      [] safety = "Faulted"    -> 0

Init ==
    /\ Interlock!InterlockInit
    /\ required = InterlockRequired
    /\ eng = [safety |-> "SafeTorque", history |-> <<>>, ramp |-> NoRamp,
              cueAge |-> CueInterval, critical |-> FALSE]
    /\ audioEnabled = TRUE
    /\ stalls = 0
    /\ wedgeAge = NoTimer
    /\ latched = "None"
    /\ authorized = FALSE
    /\ spent = NoAnswer

-----------------------------------------------------------------------------
(* The steps process_fault is made of, on the engine record.  A call       *)
(* returns [eng, ok]: the state it leaves and whether it returned Ok.      *)

\* Mutant: the history is not bounded.
RecordFaultUnbounded(e, f) ==
    [e EXCEPT !.history = Append(@, FaultClass(f)),
              !.critical = @ \/ f \in Critical]

\* Mutant: the bound is off by one.
RecordFaultEvicts(e, f) ==
    LET h == Append(e.history, FaultClass(f))
    IN  [e EXCEPT !.history = IF Len(h) >= MaxHistory THEN Tail(h) ELSE h,
                  !.critical = @ \/ f \in Critical]

\* record_fault: the bounded fault history.  critical remembers a
\* hardware-critical fault until the next power-cycle reset.
RecordFault(e, f) ==
    LET h == Append(e.history, FaultClass(f))
    IN  [e EXCEPT !.history = IF Len(h) > MaxHistory THEN Tail(h) ELSE h,
                  !.critical = @ \/ f \in Critical]

\* trigger_cue is refused within min_interval of the last cue.
CueRefused(e) == audioEnabled /\ e.cueAge < CueInterval

TriggerCue(e) ==
    IF audioEnabled /\ ~ CueRefused(e) THEN [e EXCEPT !.cueAge = 0] ELSE e

\* SoftStopController::start_ramp.
StartedRamp(torque) ==
    [active |-> TRUE, from |-> torque, torque |-> torque * RampTime, age |-> 0]

\* trigger_soft_stop_from_torque: the ramp's torque is kept in units of
\* 1/RampTime Nm.  A ramp still within its time refuses a restart; the cue
\* that follows the start may make the call fail, before the LED is marked.
SoftStop(e, torque) ==
    IF e.ramp.active /\ e.ramp.age <= RampTime
    THEN [eng |-> e, ok |-> FALSE]
    ELSE LET started == [e EXCEPT !.ramp = StartedRamp(torque)]
         IN  IF CueRefused(e) /\ CueErrorsAbort
             THEN [eng |-> started, ok |-> FALSE]
             ELSE [eng |-> TriggerCue(started), ok |-> TRUE]

\* Mutant: the torque is read after the state has become Faulted.
ProcessFaultLate(e, f) ==
    LET recorded == RecordFault(e, f)
        faulted  == [recorded EXCEPT !.safety = "Faulted"]
    IN  IF f = "PluginOverrun" THEN [eng |-> recorded, ok |-> TRUE]
        ELSE IF CueRefused(e) /\ CueErrorsAbort
        THEN [eng |-> faulted, ok |-> FALSE]
        ELSE SoftStop(TriggerCue(faulted), Torque(faulted.safety))

\* process_fault: all faults but a plugin overrun latch Faulted and ramp the
\* torque down from what it was before.
ProcessFault(e, f) ==
    LET recorded == RecordFault(e, f)
        faulted  == [recorded EXCEPT !.safety = "Faulted"]
    IN  IF f = "PluginOverrun" THEN [eng |-> recorded, ok |-> TRUE]
        ELSE IF CueRefused(e) /\ CueErrorsAbort
        THEN [eng |-> faulted, ok |-> FALSE]
        ELSE SoftStop(TriggerCue(faulted), Torque(e.safety))

\* A fault ends the authorization for high torque, unless it is a plugin's.
Authorized(f) == authorized /\ f = "PluginOverrun"

-----------------------------------------------------------------------------
(* Interlock and torque mode *)

GenerateChallenge ==
    /\ Interlock!GenerateChallenge
    /\ spent' = IF spent = NoAnswer \/ spent.since + 1 >= Period THEN NoAnswer
                ELSE [spent EXCEPT !.since = @ + 1]
    /\ UNCHANGED <<eng, audioEnabled, detectorVars, authorized>>

ValidateResponse(r) ==
    /\ Interlock!ValidateResponse(r)
    /\ authorized' = (authorized \/ Interlock!Accepts(r))
    /\ \/ UNCHANGED spent
       \/ /\ Interlock!Accepts(r)
          /\ spent' = [id |-> r.id, token |-> r.token, since |-> 0]
    /\ UNCHANGED <<eng, audioEnabled, detectorVars>>

EnableHighTorque(consent) ==
    /\ eng.safety = "SafeTorque"
    /\ consent
    /\ InterlockRequired => Interlock!IsSatisfied
    /\ eng' = [eng EXCEPT !.safety = "HighTorque"]
    /\ UNCHANGED <<interlockVars, audioEnabled, spent, detectorVars, authorized>>

DisableHighTorque ==
    /\ eng.safety = "HighTorque"
    /\ eng' = [eng EXCEPT !.safety = "SafeTorque"]
    /\ Interlock!ResetInterlock
    /\ authorized' = FALSE
    /\ UNCHANGED <<audioEnabled, spent, detectorVars>>

-----------------------------------------------------------------------------
(* Faults *)

Fault(f) ==
    /\ eng' = ProcessFault(eng, f).eng
    /\ authorized' = Authorized(f)
    /\ UNCHANGED <<interlockVars, audioEnabled, spent, detectorVars>>

EmergencyStop(f) ==
    /\ f \in {"UserEmergencyStop", "HardwareEmergencyStop"}
    /\ Fault(f)

\* A detector that finds a fault records it, and process_fault records it a
\* second time.
Detected(f) ==
    /\ eng' = ProcessFault(RecordFault(eng, f), f).eng
    /\ authorized' = Authorized(f)

UsbWriteResult(success) ==
    /\ UNCHANGED <<interlockVars, audioEnabled, spent, wedgeAge, latched>>
    /\ IF ~ success /\ stalls + 1 >= StallLimit
         THEN stalls' = 0 /\ Detected("UsbStall")
         ELSE /\ stalls' = IF success THEN 0 ELSE stalls + 1
              /\ UNCHANGED <<eng, authorized>>

\* check_pipeline_value and check_disconnect_from_error_code, when they find
\* something; otherwise they change nothing.
CheckValue(f) ==
    /\ f \in {"NanValue", "DeviceDisconnect"}
    /\ Detected(f)
    /\ UNCHANGED <<interlockVars, audioEnabled, spent, detectorVars>>

\* check_device_connection does not record the fault itself;
\* record_device_disconnect does.
DeviceGone(recordsItself) ==
    /\ eng.safety # "Faulted"
    /\ IF recordsItself THEN Detected("DeviceDisconnect")
       ELSE /\ eng' = ProcessFault(eng, "DeviceDisconnect").eng
            /\ authorized' = Authorized("DeviceDisconnect")
    /\ UNCHANGED <<interlockVars, audioEnabled, spent, detectorVars>>

CheckEndpoint(responsive) ==
    /\ UNCHANGED <<interlockVars, audioEnabled, spent, stalls, latched>>
    /\ IF ~ responsive /\ wedgeAge >= WedgeTime
         THEN wedgeAge' = NoTimer /\ Detected("EndpointWedged")
         ELSE /\ wedgeAge' = IF responsive THEN NoTimer
                             ELSE IF wedgeAge = NoTimer THEN 0 ELSE wedgeAge
              /\ UNCHANGED <<eng, authorized>>

\* process_device_health: an error of the first fault skips the second.
DeviceHealthFlags(overTemp, overCurrent) ==
    LET first == IF overTemp THEN ProcessFault(eng, "OverTemp")
                 ELSE [eng |-> eng, ok |-> TRUE]
    IN  /\ eng' = IF overCurrent /\ first.ok
                    THEN ProcessFault(first.eng, "OverCurrent").eng
                    ELSE first.eng
        /\ authorized' = (authorized /\ ~ overTemp /\ ~ overCurrent)
        /\ UNCHANGED <<interlockVars, audioEnabled, spent, detectorVars>>

Levels == {"normal", "warning", "over"}

\* evaluate_status: the first reading out of its normal range decides.
EvaluateStatus(temp, current) ==
    CASE temp = "over"       -> "OverTemp"
      [] temp = "warning"    -> "Warning"
      [] temp = "normal" /\ current = "over" -> "OverCurrent"
      [] OTHER -> IF current = "warning" THEN "Warning" ELSE "Healthy"

\* Mutant: a latched monitor reports nothing new.
HealthResultOnce(temp, current) ==
    IF latched # "None" THEN "Healthy" ELSE EvaluateStatus(temp, current)

\* DeviceHealthMonitor::update: a latched fault answers every later update.
HealthResult(temp, current) ==
    IF latched # "None" THEN latched ELSE EvaluateStatus(temp, current)

UpdateDeviceHealth(temp, current) ==
    LET result == HealthResult(temp, current)
    IN  /\ latched' = IF result \in Critical THEN result ELSE latched
        /\ IF result \in Critical
             THEN eng' = ProcessFault(eng, result).eng /\ authorized' = FALSE
             ELSE UNCHANGED <<eng, authorized>>
        /\ UNCHANGED <<interlockVars, audioEnabled, spent, stalls, wedgeAge>>

ClearHealthLatch ==
    /\ latched' = "None"
    /\ UNCHANGED <<interlockVars, eng, audioEnabled, spent, stalls, wedgeAge, authorized>>

-----------------------------------------------------------------------------
(* Recovery *)

\* Mutant: the interlock keeps its satisfaction across a fault.
BackToSafeTorqueUnlocked ==
    /\ eng.safety = "Faulted"
    /\ UNCHANGED interlockVars
    /\ authorized' = FALSE

\* What clear_emergency_stop, clear_fault and reset_after_power_cycle share.
BackToSafeTorque ==
    /\ eng.safety = "Faulted"
    /\ Interlock!ResetInterlock
    /\ authorized' = FALSE

ClearEmergencyStop ==
    /\ BackToSafeTorque
    /\ eng' = [eng EXCEPT !.safety = "SafeTorque", !.ramp = NoRamp]
    /\ UNCHANGED <<audioEnabled, spent, detectorVars>>

LastFault(e) == e.history[Len(e.history)]

\* Only the most recent fault is asked whether it is hardware-critical.
ClearFault ==
    /\ eng.history # <<>> => LastFault(eng) # "critical"
    /\ BackToSafeTorque
    /\ eng' = [eng EXCEPT !.safety = "SafeTorque", !.ramp = NoRamp]
    /\ UNCHANGED <<audioEnabled, spent, detectorVars>>

ResetAfterPowerCycle ==
    /\ BackToSafeTorque
    /\ eng' = [eng EXCEPT !.safety = "SafeTorque", !.ramp = NoRamp,
                          !.history = <<>>, !.critical = FALSE]
    /\ stalls' = 0
    /\ wedgeAge' = NoTimer
    /\ latched' = "None"
    /\ UNCHANGED <<audioEnabled, spent>>

-----------------------------------------------------------------------------
(* Soft stop, audio, time *)

TriggerSoftStop ==
    /\ eng' = SoftStop(eng, Torque(eng.safety)).eng
    /\ UNCHANGED <<interlockVars, audioEnabled, spent, detectorVars, authorized>>

\* Mutant: past its time the ramp keeps its last torque.
UpdateNoDeadline ==
    /\ eng.ramp.active
    /\ LET left   == RampTime - eng.ramp.age
           torque == IF left < 0 THEN eng.ramp.torque ELSE eng.ramp.from * left
       IN  eng' = [eng EXCEPT !.ramp = IF torque > 0
                                         THEN [@ EXCEPT !.torque = torque]
                                         ELSE NoRamp]
    /\ UNCHANGED <<interlockVars, audioEnabled, spent, detectorVars, authorized>>

\* SoftStopController::update with the linear profile: past its time, or at
\* zero torque, the ramp is over.
Update ==
    /\ eng.ramp.active
    /\ LET left   == RampTime - eng.ramp.age
           torque == IF left <= 0 THEN 0 ELSE eng.ramp.from * left
       IN  eng' = [eng EXCEPT !.ramp = IF torque > 0
                                         THEN [@ EXCEPT !.torque = torque]
                                         ELSE NoRamp]
    /\ UNCHANGED <<interlockVars, audioEnabled, spent, detectorVars, authorized>>

SetAudioEnabled(b) ==
    /\ audioEnabled' = b
    /\ UNCHANGED <<interlockVars, eng, detectorVars, authorized, spent>>

Tick ==
    /\ Interlock!InterlockTick
    /\ eng' = [eng EXCEPT
                 !.ramp.age = IF eng.ramp.active /\ @ <= RampTime THEN @ + 1 ELSE @,
                 !.cueAge = IF @ < CueInterval THEN @ + 1 ELSE @]
    /\ wedgeAge' = IF wedgeAge # NoTimer /\ wedgeAge < WedgeTime
                     THEN wedgeAge + 1 ELSE wedgeAge
    /\ UNCHANGED <<audioEnabled, spent, stalls, latched, authorized>>

-----------------------------------------------------------------------------
Next ==
    \/ GenerateChallenge
    \/ \E r \in Interlock!Responses : ValidateResponse(r)
    \/ \E consent \in BOOLEAN : EnableHighTorque(consent)
    \/ DisableHighTorque
    \/ \E f \in RaisedFaults : Fault(f)
    \/ \E f \in RaisedFaults : EmergencyStop(f)
    \/ \E success \in BOOLEAN : UsbWriteResult(success)
    \/ \E f \in RaisedFaults : CheckValue(f)
    \/ \E recordsItself \in BOOLEAN : DeviceGone(recordsItself)
    \/ \E responsive \in BOOLEAN : CheckEndpoint(responsive)
    \/ \E overTemp, overCurrent \in BOOLEAN :
           DeviceHealthFlags(overTemp, overCurrent)
    \/ \E temp, current \in Levels : UpdateDeviceHealth(temp, current)
    \/ ClearHealthLatch
    \/ ClearEmergencyStop
    \/ ClearFault
    \/ ResetAfterPowerCycle
    \/ TriggerSoftStop
    \/ Update
    \/ \E b \in BOOLEAN : SetAudioEnabled(b)
    \/ Tick

Spec == Init /\ [][Next]_vars

\* The main loop keeps calling update() and polling the health stream, and
\* time passes.  Nothing is assumed of the readings the stream brings.
FairSpec ==
    /\ Spec
    /\ WF_vars(Tick)
    /\ WF_vars(Update)
    /\ WF_vars(/\ latched # "None"
               /\ \E temp, current \in Levels : UpdateDeviceHealth(temp, current))

-----------------------------------------------------------------------------
(* Properties *)

TypeOK ==
    /\ Interlock!InterlockTypeOK
    /\ eng.safety \in {"SafeTorque", "HighTorque", "Faulted"}
    /\ eng.history \in Seq({"critical", "transient"})
    /\ Len(eng.history) <= MaxHistory
    /\ eng.ramp \in [active : BOOLEAN, from : {0, 2, 8},
                     torque : 0 .. 8 * RampTime, age : 0 .. RampTime + 1]
    /\ eng.cueAge \in 0 .. CueInterval
    /\ eng.critical \in BOOLEAN
    /\ audioEnabled \in BOOLEAN
    /\ stalls \in 0 .. StallLimit - 1
    /\ wedgeAge \in NoTimer .. WedgeTime
    /\ latched \in {"None", "OverTemp", "OverCurrent"}
    /\ authorized \in BOOLEAN
    /\ spent \in Answers \cup {NoAnswer}

\* Rolling tokens: an answer is good for one satisfaction.  No open challenge
\* has the identifier and the token of one answered before, after any number
\* of expired, replaced and reset challenges and with both counters wrapped,
\* until the pair of them repeats.
NoReplay ==
    challenge # Interlock!NoChallenge =>
        <<challenge.id, challenge.token>> # <<spent.id, spent.token>>

\* High torque is never entered on an old authorization: the user answered a
\* challenge after the last fault, recovery or switch-off, even if they had
\* answered one before it and its five minutes are not over.
FreshAuthorization ==
    [][eng.safety # "HighTorque" /\ eng'.safety = "HighTorque"
         => authorized \/ ~ InterlockRequired]_vars

\* An engine that has faulted can say why: the history is cleared only by a
\* step that leaves Faulted, and its bound never evicts the newest entry.
FaultedIsExplained == eng.safety = "Faulted" => eng.history # <<>>

\* While the engine is faulted the ramp only goes down: a later fault, a late
\* or a repeated soft stop never raises the commanded torque again.
TorqueOnlyFalls ==
    [][eng.safety = "Faulted" /\ eng'.safety = "Faulted"
         => eng'.ramp.torque <= eng.ramp.torque]_vars

\* A ramp that a fault starts begins at the torque the engine put out before
\* that fault: process_fault reads it before the state becomes Faulted, and the
\* second fault of one health report does not restart it from zero.
RampStartsAtTorque ==
    [][eng.safety # "Faulted" /\ eng'.safety = "Faulted" /\ eng'.ramp # eng.ramp
         => eng'.ramp = StartedRamp(Torque(eng.safety))]_vars

\* A ramp of a faulted engine ends, however many faults keep arriving.
SoftStopCompletes ==
    (eng.safety = "Faulted" /\ eng.ramp.active) ~> ~ eng.ramp.active

\* A latched over-temperature or over-current puts the engine back into
\* Faulted however it was cleared, as long as the health stream is polled.
HealthFaultReasserts ==
    (latched # "None") ~> (eng.safety = "Faulted" \/ latched = "None")

\* .kiro/specs/sim-integration-implementation/requirements.md:203:
\* "hardware-critical faults (e.g., device over-temp, over-current) SHALL
\* require a power cycle to re-enable high-torque mode".
CriticalBlocksHighTorque == eng.critical => eng.safety # "HighTorque"

\* docs/how-to/configure-emergency-stop.md:52: an emergency stop "Initiates
\* 50ms ramp-down" from the torque of that moment.
FaultStartsRamp ==
    [][eng.safety # "Faulted" /\ eng'.safety = "Faulted"
         => eng'.ramp.active]_vars
=============================================================================
