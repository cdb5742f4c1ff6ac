-------------------------- MODULE CapabilityService --------------------------
(***************************************************************************)
(* The capability service (crates/flight-service/src/                      *)
(* capability_service.rs): threads of the service register axis engines    *)
(* and set the capability mode of all or of some of them.  The modes are   *)
(* kept twice, in the service (global_mode and axis_overrides) and in the  *)
(* engines.                                                                *)
(*                                                                         *)
(* set_capability_mode holds the engines lock for reading, so such calls   *)
(* run side by side; for named axes it also holds the overrides lock.      *)
(* register_axis and unregister_axis hold the engines lock for writing,    *)
(* and a waiting writer keeps new readers out.  global_mode is locked for  *)
(* single reads and writes only.                                           *)
(*                                                                         *)
(* What a mode means for an engine is AxisEngine.  Left out: the audit     *)
(* flag, clamp counters and reports, which no mode depends on.             *)
(***************************************************************************)
EXTENDS Integers, FiniteSets

CONSTANTS
    Threads,
    Axes,
    Modes,
    Default,     \* default_mode of the configuration
    Free         \* no thread, no override, no axis in hand

ASSUME CapabilityAssumption ==
    /\ Default \in Modes
    /\ Free \notin Threads \cup Modes \cup Axes

VARIABLES
    registered,  \* the keys of engines
    mode,        \* [Axes -> mode of the axis's engine, Default without one]
    globalMode,  \* global_mode
    overrides,   \* axis_overrides: [Axes -> Modes \cup {Free}]
    readers,     \* threads that hold the engines lock for reading
    writer,      \* the thread that holds it for writing, or waits to
    holder,      \* the thread that holds the overrides lock for writing
    pc,          \* [Threads -> where its call is]
    want,        \* [Threads -> the mode its call sets]
    todo,        \* [Threads -> the axes it has still to see to]
    axis,        \* [Threads -> the axis in hand]
    \* history variables
    solo,        \* readers that have been alone from the start
    tangled      \* a call for all axes has run beside another call, and no
                 \* such call has run alone since

locks == <<readers, writer, holder>>
modes == <<registered, mode, globalMode, overrides>>
history == <<solo, tangled>>
vars == <<modes, locks, pc, want, todo, axis, history>>

GlobalPcs == {"global", "clear", "apply"}        \* inside, for all axes
AxesPcs == {"take", "each", "insert"}            \* inside, for named axes
Pcs == {"idle", "enter global", "enter axes", "registering", "unregistering"}
       \cup GlobalPcs \cup AxesPcs

At(t, p) == pc' = [pc EXCEPT ![t] = p]

\* The call is over and its arguments with it.
Return(t) ==
    /\ At(t, "idle")
    /\ want' = [want EXCEPT ![t] = Default]
    /\ todo' = [todo EXCEPT ![t] = {}]
    /\ axis' = [axis EXCEPT ![t] = Free]

\* get_effective_mode
EffectiveMode(a) == IF overrides[a] # Free THEN overrides[a] ELSE globalMode

Init ==
    /\ registered = {}
    /\ mode = [a \in Axes |-> Default]
    /\ globalMode = Default
    /\ overrides = [a \in Axes |-> Free]
    /\ readers = {} /\ writer = Free /\ holder = Free
    /\ pc = [t \in Threads |-> "idle"]
    /\ want = [t \in Threads |-> Default]
    /\ todo = [t \in Threads |-> {}]
    /\ axis = [t \in Threads |-> Free]
    /\ solo = {} /\ tangled = FALSE

-----------------------------------------------------------------------------
(* register_axis and unregister_axis *)

WriteEngines(t, p) ==
    /\ pc[t] = "idle" /\ writer = Free
    /\ writer' = t
    /\ At(t, p)
    /\ UNCHANGED <<modes, readers, holder, want, todo, history>>

RegisterCall(t, a) ==
    /\ WriteEngines(t, "registering")
    /\ axis' = [axis EXCEPT ![t] = a]

UnregisterCall(t, a) ==
    /\ WriteEngines(t, "unregistering")
    /\ axis' = [axis EXCEPT ![t] = a]

\* The engine gets the effective mode, read under the overrides lock, before
\* it is inserted.
Register(t) ==
    /\ pc[t] = "registering" /\ readers = {} /\ holder = Free
    /\ mode' = [mode EXCEPT ![axis[t]] = EffectiveMode(axis[t])]
    /\ registered' = registered \cup {axis[t]}
    /\ writer' = Free
    /\ Return(t)
    /\ UNCHANGED <<globalMode, overrides, readers, holder, history>>

\* Mutant: the engine's mode is cleared with it.
UnregisterClears(t) ==
    /\ pc[t] = "unregistering" /\ readers = {}
    /\ registered' = registered \ {axis[t]}
    /\ mode' = [mode EXCEPT ![axis[t]] = Free]
    /\ writer' = Free
    /\ Return(t)
    /\ UNCHANGED <<globalMode, overrides, readers, holder, history>>

\* The override of the axis stays, for the next engine of that name.
Unregister(t) ==
    /\ pc[t] = "unregistering" /\ readers = {}
    /\ registered' = registered \ {axis[t]}
    /\ mode' = [mode EXCEPT ![axis[t]] = Default]
    /\ writer' = Free
    /\ Return(t)
    /\ UNCHANGED <<globalMode, overrides, readers, holder, history>>

-----------------------------------------------------------------------------
(* set_capability_mode, set_kid_mode and set_demo_mode *)

SetModeCall(t, p) ==
    /\ pc[t] = "idle"
    /\ At(t, p)
    /\ UNCHANGED <<modes, locks, want, todo, axis, history>>

\* engines.read().  The arguments of the call are chosen here, where they
\* begin to matter.
Enter(t, m) ==
    /\ writer = Free
    /\ readers' = readers \cup {t}
    /\ want' = [want EXCEPT ![t] = m]
    /\ solo' = IF readers = {} THEN {t} ELSE {}
    /\ UNCHANGED <<modes, writer, holder, axis>>

EnterGlobal(t, m) ==
    /\ pc[t] = "enter global"
    /\ Enter(t, m)
    /\ tangled' = (tangled \/ readers # {})
    /\ At(t, "global")
    /\ UNCHANGED todo

\* Names that are not registered are passed over; nobody can register them
\* before the call has returned.
EnterAxes(t, m, names) ==
    /\ pc[t] = "enter axes"
    /\ Enter(t, m)
    /\ tangled' = (tangled \/ \E u \in readers : pc[u] \in GlobalPcs)
    /\ todo' = [todo EXCEPT ![t] = names \cap registered]
    /\ At(t, "take")

SetGlobal(t) ==
    /\ pc[t] = "global"
    /\ globalMode' = want[t]
    /\ At(t, "clear")
    /\ UNCHANGED <<registered, mode, overrides, locks, want, todo, axis, history>>

\* Mutant: the overrides are left in place.
ClearOverridesNot(t) ==
    /\ pc[t] = "clear" /\ holder = Free
    /\ todo' = [todo EXCEPT ![t] = registered]
    /\ At(t, "apply")
    /\ UNCHANGED <<registered, mode, globalMode, overrides, locks, want, axis,
                   history>>

ClearOverrides(t) ==
    /\ pc[t] = "clear" /\ holder = Free
    /\ overrides' = [a \in Axes |-> Free]
    /\ todo' = [todo EXCEPT ![t] = registered]
    /\ At(t, "apply")
    /\ UNCHANGED <<registered, mode, globalMode, locks, want, axis, history>>

ApplyGlobal(t, a) ==
    /\ pc[t] = "apply" /\ a \in todo[t]
    /\ mode' = [mode EXCEPT ![a] = want[t]]
    /\ todo' = [todo EXCEPT ![t] = @ \ {a}]
    /\ UNCHANGED <<registered, globalMode, overrides, locks, pc, want, axis,
                   history>>

GlobalReturn(t) ==
    /\ pc[t] = "apply" /\ todo[t] = {}
    /\ readers' = readers \ {t}
    /\ solo' = solo \ {t}
    /\ tangled' = (tangled /\ t \notin solo)
    /\ Return(t)
    /\ UNCHANGED <<modes, writer, holder>>

\* axis_overrides.write(), held for the whole loop.
TakeOverrides(t) ==
    /\ pc[t] = "take" /\ holder = Free
    /\ holder' = t
    /\ At(t, "each")
    /\ UNCHANGED <<modes, readers, writer, want, todo, axis, history>>

SetAxis(t, a) ==
    /\ pc[t] = "each" /\ a \in todo[t]
    /\ mode' = [mode EXCEPT ![a] = want[t]]
    /\ axis' = [axis EXCEPT ![t] = a]
    /\ At(t, "insert")
    /\ UNCHANGED <<registered, globalMode, overrides, locks, want, todo,
                   history>>

InsertOverride(t) ==
    /\ pc[t] = "insert"
    /\ overrides' = [overrides EXCEPT ![axis[t]] = want[t]]
    /\ todo' = [todo EXCEPT ![t] = @ \ {axis[t]}]
    /\ axis' = [axis EXCEPT ![t] = Free]
    /\ At(t, "each")
    /\ UNCHANGED <<registered, mode, globalMode, locks, want, history>>

\* Mutant: the overrides lock is never given back.
AxesReturnKeepsLock(t) ==
    /\ pc[t] = "each" /\ todo[t] = {}
    /\ readers' = readers \ {t}
    /\ solo' = solo \ {t}
    /\ Return(t)
    /\ UNCHANGED <<modes, writer, holder, tangled>>

AxesReturn(t) ==
    /\ pc[t] = "each" /\ todo[t] = {}
    /\ readers' = readers \ {t}
    /\ holder' = Free
    /\ solo' = solo \ {t}
    /\ Return(t)
    /\ UNCHANGED <<modes, writer, tangled>>

-----------------------------------------------------------------------------
Call(t) ==
    \/ \E a \in Axes : RegisterCall(t, a) \/ UnregisterCall(t, a)
    \/ SetModeCall(t, "enter global") \/ SetModeCall(t, "enter axes")

Step(t) ==
    \/ Register(t) \/ Unregister(t)
    \/ SetGlobal(t) \/ ClearOverrides(t) \/ GlobalReturn(t)
    \/ TakeOverrides(t) \/ InsertOverride(t) \/ AxesReturn(t)
    \/ \E a \in Axes : ApplyGlobal(t, a) \/ SetAxis(t, a)
    \/ \E m \in Modes : \/ EnterGlobal(t, m)
                        \/ \E names \in SUBSET Axes : EnterAxes(t, m, names)

Next == \E t \in Threads : Call(t) \/ Step(t)

Spec == Init /\ [][Next]_vars

\* A thread that could go on again and again, as the others pass the locks
\* on, does go on; nobody has to call.
FairSpec == Spec /\ \A t \in Threads : SF_vars(Step(t))

-----------------------------------------------------------------------------
(* Properties *)

TypeOK ==
    /\ registered \in SUBSET Axes
    /\ mode \in [Axes -> Modes]
    /\ globalMode \in Modes
    /\ overrides \in [Axes -> Modes \cup {Free}]
    /\ readers \in SUBSET Threads
    /\ writer \in Threads \cup {Free}
    /\ holder \in Threads \cup {Free}
    /\ pc \in [Threads -> Pcs]
    /\ want \in [Threads -> Modes]
    /\ todo \in [Threads -> SUBSET Axes]
    /\ axis \in [Threads -> Axes \cup {Free}]
    /\ solo \in SUBSET Threads
    /\ tangled \in BOOLEAN

\* What the service believes and what the engines enforce agree whenever no
\* call is under way, as long as no call for all axes ran beside another
\* one; calls for named axes and registrations may overlap freely, and a
\* call for all axes that runs alone repairs what earlier overlaps have left.
QuiescentAgreement ==
    readers = {} /\ ~tangled =>
        \A a \in registered : mode[a] = EffectiveMode(a)

\* Every call returns: the order in which the locks are taken rules out a
\* deadlock with waiting writers.
CallsReturn == \A t \in Threads : pc[t] # "idle" ~> pc[t] = "idle"
=============================================================================
