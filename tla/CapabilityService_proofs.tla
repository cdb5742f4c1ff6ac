---------------------- MODULE CapabilityService_proofs ----------------------
(***************************************************************************)
(* Proofs about CapabilityService, for every set of threads, axes and      *)
(* modes.  The invariant has three parts beside the types: what the locks  *)
(* say about the places threads are at; that outside a tangle a call for   *)
(* all axes is alone; and how far engines and service agree, while such a  *)
(* call is under way and otherwise.                                        *)
(***************************************************************************)
EXTENDS CapabilityService, TLAPS

\* The readers are the threads inside; the overrides lock belongs to the one
\* thread in the loop over named axes.
Inside ==
    \A t \in Threads :
        /\ t \in readers <=> pc[t] \in GlobalPcs \cup AxesPcs
        /\ holder = t <=> pc[t] \in {"each", "insert"}
        /\ pc[t] \in {"registering", "unregistering", "insert"} =>
               axis[t] \in Axes

\* solo means what it says, and outside a tangle a call for all axes has
\* been alone from its start.
Alone ==
    /\ \A t \in solo : readers = {t}
    /\ ~tangled => \A t \in Threads : pc[t] \in GlobalPcs => t \in solo

\* How far a lone call for all axes has come.
Done(t) ==
    /\ pc[t] \in {"clear", "apply"} => globalMode = want[t]
    /\ pc[t] = "apply" =>
          /\ \A a \in Axes : overrides[a] = Free
          /\ \A a \in registered \ todo[t] : mode[a] = want[t]

Progress == \A t \in solo : Done(t)

\* No call for all axes is inside, and no tangle is left from one.
Calm == ~tangled /\ \A t \in Threads : pc[t] \notin GlobalPcs

\* With no call for all axes about, the engine between SetAxis and
\* InsertOverride, which has the new mode already, is the only one that may
\* differ.
InHand == Calm => \A t \in Threads : pc[t] = "insert" => mode[axis[t]] = want[t]

Agreement ==
    Calm => \A a \in registered :
               (\A t \in Threads : pc[t] = "insert" => axis[t] # a) =>
                   mode[a] = EffectiveMode(a)

IInv == TypeOK /\ Inside /\ Alone /\ Progress /\ InHand
        /\ Agreement

\* Every step keeps the types, given that a thread that uses the axis in hand
\* has one.
LEMMA TypeStep ==
    ASSUME TypeOK, Inside, [Next]_vars
    PROVE  TypeOK'
<1> USE CapabilityAssumption
       DEF At, modes, locks, history, TypeOK, Inside, Pcs, GlobalPcs,
           AxesPcs, EffectiveMode
<1>1. ASSUME NEW t \in Threads, NEW a \in Axes, RegisterCall(t, a)
      PROVE  TypeOK'
    BY <1>1 DEF RegisterCall, WriteEngines
<1>2. ASSUME NEW t \in Threads, NEW a \in Axes, UnregisterCall(t, a)
      PROVE  TypeOK'
    BY <1>2 DEF UnregisterCall, WriteEngines
<1>3. ASSUME NEW t \in Threads, NEW p \in {"enter global", "enter axes"},
             SetModeCall(t, p)
      PROVE  TypeOK'
    BY <1>3 DEF SetModeCall
<1>4. ASSUME NEW t \in Threads, Register(t)
      PROVE  TypeOK'
    BY <1>4 DEF Register, Return
<1>5. ASSUME NEW t \in Threads, Unregister(t)
      PROVE  TypeOK'
    BY <1>5 DEF Unregister, Return
<1>6. ASSUME NEW t \in Threads, NEW m \in Modes, EnterGlobal(t, m)
      PROVE  TypeOK'
    BY <1>6 DEF EnterGlobal, Enter
<1>7. ASSUME NEW t \in Threads, SetGlobal(t)
      PROVE  TypeOK'
    BY <1>7 DEF SetGlobal
<1>8. ASSUME NEW t \in Threads, ClearOverrides(t)
      PROVE  TypeOK'
    BY <1>8 DEF ClearOverrides
<1>9. ASSUME NEW t \in Threads, NEW a \in Axes, ApplyGlobal(t, a)
      PROVE  TypeOK'
    BY <1>9 DEF ApplyGlobal
<1>10. ASSUME NEW t \in Threads, GlobalReturn(t)
      PROVE  TypeOK'
    BY <1>10 DEF GlobalReturn, Return
<1>11. ASSUME NEW t \in Threads, NEW m \in Modes, NEW names \in SUBSET Axes,
             EnterAxes(t, m, names)
      PROVE  TypeOK'
    BY <1>11 DEF EnterAxes, Enter
<1>12. ASSUME NEW t \in Threads, TakeOverrides(t)
      PROVE  TypeOK'
    BY <1>12 DEF TakeOverrides
<1>13. ASSUME NEW t \in Threads, NEW a \in Axes, SetAxis(t, a)
      PROVE  TypeOK'
    BY <1>13 DEF SetAxis
<1>14. ASSUME NEW t \in Threads, InsertOverride(t)
      PROVE  TypeOK'
    BY <1>14 DEF InsertOverride
<1>15. ASSUME NEW t \in Threads, AxesReturn(t)
      PROVE  TypeOK'
    BY <1>15 DEF AxesReturn, Return
<1>16. CASE UNCHANGED vars
    BY <1>16 DEF vars
<1>17. QED
    BY <1>1, <1>2, <1>3, <1>4, <1>5, <1>6, <1>7, <1>8, <1>9,
       <1>10, <1>11, <1>12, <1>13, <1>14, <1>15, <1>16 DEF Next, Call, Step

\* Every step keeps locks and places in agreement.
LEMMA InsideStep ==
    ASSUME TypeOK, Inside, [Next]_vars
    PROVE  Inside'
<1> USE CapabilityAssumption
       DEF At, modes, locks, history, TypeOK, Inside, Pcs, GlobalPcs,
           AxesPcs
<1>1. ASSUME NEW t \in Threads, NEW a \in Axes, RegisterCall(t, a)
      PROVE  Inside'
    BY <1>1 DEF RegisterCall, WriteEngines
<1>2. ASSUME NEW t \in Threads, NEW a \in Axes, UnregisterCall(t, a)
      PROVE  Inside'
    BY <1>2 DEF UnregisterCall, WriteEngines
<1>3. ASSUME NEW t \in Threads, NEW p \in {"enter global", "enter axes"},
             SetModeCall(t, p)
      PROVE  Inside'
    BY <1>3 DEF SetModeCall
<1>4. ASSUME NEW t \in Threads, Register(t)
      PROVE  Inside'
    BY <1>4 DEF Register, Return
<1>5. ASSUME NEW t \in Threads, Unregister(t)
      PROVE  Inside'
    BY <1>5 DEF Unregister, Return
<1>6. ASSUME NEW t \in Threads, NEW m \in Modes, EnterGlobal(t, m)
      PROVE  Inside'
    BY <1>6 DEF EnterGlobal, Enter
<1>7. ASSUME NEW t \in Threads, SetGlobal(t)
      PROVE  Inside'
    BY <1>7 DEF SetGlobal
<1>8. ASSUME NEW t \in Threads, ClearOverrides(t)
      PROVE  Inside'
    BY <1>8 DEF ClearOverrides
<1>9. ASSUME NEW t \in Threads, NEW a \in Axes, ApplyGlobal(t, a)
      PROVE  Inside'
    BY <1>9 DEF ApplyGlobal
<1>10. ASSUME NEW t \in Threads, GlobalReturn(t)
      PROVE  Inside'
    BY <1>10 DEF GlobalReturn, Return
<1>11. ASSUME NEW t \in Threads, NEW m \in Modes, NEW names \in SUBSET Axes,
             EnterAxes(t, m, names)
      PROVE  Inside'
    BY <1>11 DEF EnterAxes, Enter
<1>12. ASSUME NEW t \in Threads, TakeOverrides(t)
      PROVE  Inside'
    BY <1>12 DEF TakeOverrides
<1>13. ASSUME NEW t \in Threads, NEW a \in Axes, SetAxis(t, a)
      PROVE  Inside'
    BY <1>13 DEF SetAxis
<1>14. ASSUME NEW t \in Threads, InsertOverride(t)
      PROVE  Inside'
    BY <1>14 DEF InsertOverride
<1>15. ASSUME NEW t \in Threads, AxesReturn(t)
      PROVE  Inside'
    BY <1>15 DEF AxesReturn, Return
<1>16. CASE UNCHANGED vars
    BY <1>16 DEF vars
<1>17. QED
    BY <1>1, <1>2, <1>3, <1>4, <1>5, <1>6, <1>7, <1>8, <1>9,
       <1>10, <1>11, <1>12, <1>13, <1>14, <1>15, <1>16 DEF Next, Call, Step

\* Entering beside a call for all axes is a tangle.
LEMMA AloneStep ==
    ASSUME TypeOK, Inside, Alone, [Next]_vars
    PROVE  Alone'
<1> USE CapabilityAssumption
       DEF At, modes, locks, history, TypeOK, Inside, Alone, Pcs,
           GlobalPcs, AxesPcs
<1>1. ASSUME NEW t \in Threads, NEW a \in Axes, RegisterCall(t, a)
      PROVE  Alone'
    BY <1>1 DEF RegisterCall, WriteEngines
<1>2. ASSUME NEW t \in Threads, NEW a \in Axes, UnregisterCall(t, a)
      PROVE  Alone'
    BY <1>2 DEF UnregisterCall, WriteEngines
<1>3. ASSUME NEW t \in Threads, NEW p \in {"enter global", "enter axes"},
             SetModeCall(t, p)
      PROVE  Alone'
    BY <1>3 DEF SetModeCall
<1>4. ASSUME NEW t \in Threads, Register(t)
      PROVE  Alone'
    BY <1>4 DEF Register, Return
<1>5. ASSUME NEW t \in Threads, Unregister(t)
      PROVE  Alone'
    BY <1>5 DEF Unregister, Return
<1>6. ASSUME NEW t \in Threads, NEW m \in Modes, EnterGlobal(t, m)
      PROVE  Alone'
    BY <1>6 DEF EnterGlobal, Enter
<1>7. ASSUME NEW t \in Threads, SetGlobal(t)
      PROVE  Alone'
    BY <1>7 DEF SetGlobal
<1>8. ASSUME NEW t \in Threads, ClearOverrides(t)
      PROVE  Alone'
    BY <1>8 DEF ClearOverrides
<1>9. ASSUME NEW t \in Threads, NEW a \in Axes, ApplyGlobal(t, a)
      PROVE  Alone'
    BY <1>9 DEF ApplyGlobal
<1>10. ASSUME NEW t \in Threads, GlobalReturn(t)
      PROVE  Alone'
    BY <1>10 DEF GlobalReturn, Return
<1>11. ASSUME NEW t \in Threads, NEW m \in Modes, NEW names \in SUBSET Axes,
             EnterAxes(t, m, names)
      PROVE  Alone'
    BY <1>11 DEF EnterAxes, Enter
<1>12. ASSUME NEW t \in Threads, TakeOverrides(t)
      PROVE  Alone'
    BY <1>12 DEF TakeOverrides
<1>13. ASSUME NEW t \in Threads, NEW a \in Axes, SetAxis(t, a)
      PROVE  Alone'
    BY <1>13 DEF SetAxis
<1>14. ASSUME NEW t \in Threads, InsertOverride(t)
      PROVE  Alone'
    BY <1>14 DEF InsertOverride
<1>15. ASSUME NEW t \in Threads, AxesReturn(t)
      PROVE  Alone'
    BY <1>15 DEF AxesReturn, Return
<1>16. CASE UNCHANGED vars
    BY <1>16 DEF vars
<1>17. QED
    BY <1>1, <1>2, <1>3, <1>4, <1>5, <1>6, <1>7, <1>8, <1>9,
       <1>10, <1>11, <1>12, <1>13, <1>14, <1>15, <1>16 DEF Next, Call, Step

\* Nobody disturbs a lone call.
LEMMA ProgressStep ==
    ASSUME TypeOK, TypeOK', Inside, Alone, Progress, [Next]_vars
    PROVE  Progress'
<1> SUFFICES ASSUME NEW u \in solo' PROVE Done(u)'
    BY DEF Progress
<1>0. /\ u \in Threads /\ solo \in SUBSET Threads
      /\ pc \in [Threads -> Pcs] /\ want \in [Threads -> Modes]
      /\ todo \in [Threads -> SUBSET Axes] /\ mode \in [Axes -> Modes]
      /\ registered \in SUBSET Axes
    BY DEF TypeOK
<1> USE CapabilityAssumption DEF At, modes, locks, history, Done, Progress
<1>1. ASSUME NEW t \in Threads, NEW a \in Axes, RegisterCall(t, a)
      PROVE  Done(u)'
    BY <1>0, <1>1 DEF RegisterCall, WriteEngines
<1>2. ASSUME NEW t \in Threads, NEW a \in Axes, UnregisterCall(t, a)
      PROVE  Done(u)'
    BY <1>0, <1>2 DEF UnregisterCall, WriteEngines
<1>3. ASSUME NEW t \in Threads, NEW p \in {"enter global", "enter axes"},
             SetModeCall(t, p)
      PROVE  Done(u)'
    BY <1>0, <1>3 DEF SetModeCall
<1>4. ASSUME NEW t \in Threads, Register(t)
      PROVE  Done(u)'
    BY <1>0, <1>4 DEF Register, Return, Inside, Alone, GlobalPcs, AxesPcs
<1>5. ASSUME NEW t \in Threads, Unregister(t)
      PROVE  Done(u)'
    BY <1>0, <1>5 DEF Unregister, Return, Inside, Alone, GlobalPcs, AxesPcs
<1>6. ASSUME NEW t \in Threads, NEW m \in Modes, EnterGlobal(t, m)
      PROVE  Done(u)'
    BY <1>0, <1>6 DEF EnterGlobal, Enter, Inside, Alone, GlobalPcs, AxesPcs
<1>7. ASSUME NEW t \in Threads, SetGlobal(t)
      PROVE  Done(u)'
    BY <1>0, <1>7 DEF SetGlobal, Inside, Alone, GlobalPcs, AxesPcs
<1>8. ASSUME NEW t \in Threads, ClearOverrides(t)
      PROVE  Done(u)'
    BY <1>0, <1>8 DEF ClearOverrides, Inside, Alone, GlobalPcs, AxesPcs
<1>9. ASSUME NEW t \in Threads, NEW a \in Axes, ApplyGlobal(t, a)
      PROVE  Done(u)'
    BY <1>0, <1>9 DEF ApplyGlobal, Inside, Alone, GlobalPcs, AxesPcs
<1>10. ASSUME NEW t \in Threads, GlobalReturn(t)
      PROVE  Done(u)'
    BY <1>0, <1>10 DEF GlobalReturn, Return, Inside, Alone, GlobalPcs, AxesPcs
<1>11. ASSUME NEW t \in Threads, NEW m \in Modes, NEW names \in SUBSET Axes,
             EnterAxes(t, m, names)
      PROVE  Done(u)'
    BY <1>0, <1>11 DEF EnterAxes, Enter, Inside, Alone, GlobalPcs, AxesPcs
<1>12. ASSUME NEW t \in Threads, TakeOverrides(t)
      PROVE  Done(u)'
    BY <1>0, <1>12 DEF TakeOverrides, Inside, Alone, GlobalPcs, AxesPcs
<1>13. ASSUME NEW t \in Threads, NEW a \in Axes, SetAxis(t, a)
      PROVE  Done(u)'
    BY <1>0, <1>13 DEF SetAxis, Inside, Alone, GlobalPcs, AxesPcs
<1>14. ASSUME NEW t \in Threads, InsertOverride(t)
      PROVE  Done(u)'
    BY <1>0, <1>14 DEF InsertOverride, Inside, Alone, GlobalPcs, AxesPcs
<1>15. ASSUME NEW t \in Threads, AxesReturn(t)
      PROVE  Done(u)'
    BY <1>0, <1>15 DEF AxesReturn, Return, Inside, Alone, GlobalPcs, AxesPcs
<1>16. CASE UNCHANGED vars
    BY <1>0, <1>16 DEF vars
<1>17. QED
    BY <1>1, <1>2, <1>3, <1>4, <1>5, <1>6, <1>7, <1>8, <1>9,
       <1>10, <1>11, <1>12, <1>13, <1>14, <1>15, <1>16 DEF Next, Call, Step

\* Only the holder of the overrides lock is between the two, and nobody else
\* writes a mode while it is.
LEMMA InHandStep ==
    ASSUME TypeOK, Inside, Alone, Progress, InHand, [Next]_vars
    PROVE  InHand'
<1> SUFFICES ASSUME Calm', NEW u \in Threads, pc'[u] = "insert"
             PROVE  mode'[axis'[u]] = want'[u]
    BY DEF InHand
<1>0. /\ pc \in [Threads -> Pcs] /\ want \in [Threads -> Modes]
      /\ axis \in [Threads -> Axes \cup {Free}] /\ mode \in [Axes -> Modes]
      /\ registered \in SUBSET Axes
      /\ overrides \in [Axes -> Modes \cup {Free}]
    BY DEF TypeOK
<1> USE CapabilityAssumption
       DEF At, modes, locks, history, InHand, Calm, GlobalPcs
<1>1. ASSUME NEW t \in Threads, NEW a \in Axes, RegisterCall(t, a)
      PROVE  mode'[axis'[u]] = want'[u]
    BY <1>0, <1>1 DEF RegisterCall, WriteEngines
<1>2. ASSUME NEW t \in Threads, NEW a \in Axes, UnregisterCall(t, a)
      PROVE  mode'[axis'[u]] = want'[u]
    BY <1>0, <1>2 DEF UnregisterCall, WriteEngines
<1>3. ASSUME NEW t \in Threads, NEW p \in {"enter global", "enter axes"},
             SetModeCall(t, p)
      PROVE  mode'[axis'[u]] = want'[u]
    BY <1>0, <1>3 DEF SetModeCall
<1>4. ASSUME NEW t \in Threads, Register(t)
      PROVE  mode'[axis'[u]] = want'[u]
    BY <1>0, <1>4 DEF Register, Return, Inside, AxesPcs
<1>5. ASSUME NEW t \in Threads, Unregister(t)
      PROVE  mode'[axis'[u]] = want'[u]
    BY <1>0, <1>5 DEF Unregister, Return, Inside, AxesPcs
<1>6. ASSUME NEW t \in Threads, NEW m \in Modes, EnterGlobal(t, m)
      PROVE  mode'[axis'[u]] = want'[u]
    BY <1>0, <1>6 DEF EnterGlobal, Enter, Inside, AxesPcs
<1>7. ASSUME NEW t \in Threads, SetGlobal(t)
      PROVE  mode'[axis'[u]] = want'[u]
    BY <1>0, <1>7 DEF SetGlobal, Inside, AxesPcs
<1>8. ASSUME NEW t \in Threads, ClearOverrides(t)
      PROVE  mode'[axis'[u]] = want'[u]
    BY <1>0, <1>8 DEF ClearOverrides, Inside, AxesPcs
<1>9. ASSUME NEW t \in Threads, NEW a \in Axes, ApplyGlobal(t, a)
      PROVE  mode'[axis'[u]] = want'[u]
    BY <1>0, <1>9 DEF ApplyGlobal, Inside, AxesPcs
<1>10. ASSUME NEW t \in Threads, GlobalReturn(t)
      PROVE  mode'[axis'[u]] = want'[u]
    BY <1>0, <1>10
       DEF GlobalReturn, Return, Inside, Alone, AxesPcs, Progress, Done
<1>11. ASSUME NEW t \in Threads, NEW m \in Modes, NEW names \in SUBSET Axes,
             EnterAxes(t, m, names)
      PROVE  mode'[axis'[u]] = want'[u]
    BY <1>0, <1>11 DEF EnterAxes, Enter, Inside, AxesPcs
<1>12. ASSUME NEW t \in Threads, TakeOverrides(t)
      PROVE  mode'[axis'[u]] = want'[u]
    BY <1>0, <1>12 DEF TakeOverrides, Inside, AxesPcs
<1>13. ASSUME NEW t \in Threads, NEW a \in Axes, SetAxis(t, a)
      PROVE  mode'[axis'[u]] = want'[u]
    BY <1>0, <1>13 DEF SetAxis, Inside, AxesPcs
<1>14. ASSUME NEW t \in Threads, InsertOverride(t)
      PROVE  mode'[axis'[u]] = want'[u]
    BY <1>0, <1>14 DEF InsertOverride, Inside, AxesPcs
<1>15. ASSUME NEW t \in Threads, AxesReturn(t)
      PROVE  mode'[axis'[u]] = want'[u]
    BY <1>0, <1>15 DEF AxesReturn, Return, Inside, AxesPcs
<1>16. CASE UNCHANGED vars
    BY <1>0, <1>16 DEF vars
<1>17. QED
    BY <1>1, <1>2, <1>3, <1>4, <1>5, <1>6, <1>7, <1>8, <1>9,
       <1>10, <1>11, <1>12, <1>13, <1>14, <1>15, <1>16 DEF Next, Call, Step

\* Engines and service come apart only in a tangle, and a lone call for all
\* axes brings them together.
LEMMA AgreementStep ==
    ASSUME TypeOK, Inside, Alone, Progress, InHand, Agreement, [Next]_vars
    PROVE  Agreement'
<1> SUFFICES ASSUME Calm', NEW b \in registered',
                    \A t \in Threads : pc'[t] = "insert" => axis'[t] # b
             PROVE  mode'[b] = EffectiveMode(b)'
    BY DEF Agreement
<1>0. /\ pc \in [Threads -> Pcs] /\ want \in [Threads -> Modes]
      /\ axis \in [Threads -> Axes \cup {Free}] /\ mode \in [Axes -> Modes]
      /\ registered \in SUBSET Axes
      /\ overrides \in [Axes -> Modes \cup {Free}]
    BY DEF TypeOK
<1> USE CapabilityAssumption
       DEF At, modes, locks, history, Agreement, Calm, EffectiveMode,
           GlobalPcs
<1>1. ASSUME NEW t \in Threads, NEW a \in Axes, RegisterCall(t, a)
      PROVE  mode'[b] = EffectiveMode(b)'
    BY <1>0, <1>1 DEF RegisterCall, WriteEngines
<1>2. ASSUME NEW t \in Threads, NEW a \in Axes, UnregisterCall(t, a)
      PROVE  mode'[b] = EffectiveMode(b)'
    BY <1>0, <1>2 DEF UnregisterCall, WriteEngines
<1>3. ASSUME NEW t \in Threads, NEW p \in {"enter global", "enter axes"},
             SetModeCall(t, p)
      PROVE  mode'[b] = EffectiveMode(b)'
    BY <1>0, <1>3 DEF SetModeCall
<1>4. ASSUME NEW t \in Threads, Register(t)
      PROVE  mode'[b] = EffectiveMode(b)'
    BY <1>0, <1>4 DEF Register, Return, Inside, AxesPcs
<1>5. ASSUME NEW t \in Threads, Unregister(t)
      PROVE  mode'[b] = EffectiveMode(b)'
    BY <1>0, <1>5 DEF Unregister, Return, Inside, AxesPcs
<1>6. ASSUME NEW t \in Threads, NEW m \in Modes, EnterGlobal(t, m)
      PROVE  mode'[b] = EffectiveMode(b)'
    BY <1>0, <1>6 DEF EnterGlobal, Enter, Inside, AxesPcs
<1>7. ASSUME NEW t \in Threads, SetGlobal(t)
      PROVE  mode'[b] = EffectiveMode(b)'
    BY <1>0, <1>7 DEF SetGlobal, Inside, AxesPcs
<1>8. ASSUME NEW t \in Threads, ClearOverrides(t)
      PROVE  mode'[b] = EffectiveMode(b)'
    BY <1>0, <1>8 DEF ClearOverrides, Inside, AxesPcs
<1>9. ASSUME NEW t \in Threads, NEW a \in Axes, ApplyGlobal(t, a)
      PROVE  mode'[b] = EffectiveMode(b)'
    BY <1>0, <1>9 DEF ApplyGlobal, Inside, AxesPcs
<1>10. ASSUME NEW t \in Threads, GlobalReturn(t)
      PROVE  mode'[b] = EffectiveMode(b)'
    BY <1>0, <1>10
       DEF GlobalReturn, Return, Inside, Alone, AxesPcs, Progress, Done
<1>11. ASSUME NEW t \in Threads, NEW m \in Modes, NEW names \in SUBSET Axes,
             EnterAxes(t, m, names)
      PROVE  mode'[b] = EffectiveMode(b)'
    BY <1>0, <1>11 DEF EnterAxes, Enter, Inside, AxesPcs
<1>12. ASSUME NEW t \in Threads, TakeOverrides(t)
      PROVE  mode'[b] = EffectiveMode(b)'
    BY <1>0, <1>12 DEF TakeOverrides, Inside, AxesPcs
<1>13. ASSUME NEW t \in Threads, NEW a \in Axes, SetAxis(t, a)
      PROVE  mode'[b] = EffectiveMode(b)'
    BY <1>0, <1>13 DEF SetAxis, Inside, AxesPcs
<1>14. ASSUME NEW t \in Threads, InsertOverride(t)
      PROVE  mode'[b] = EffectiveMode(b)'
    BY <1>0, <1>14 DEF InsertOverride, Inside, AxesPcs, InHand
<1>15. ASSUME NEW t \in Threads, AxesReturn(t)
      PROVE  mode'[b] = EffectiveMode(b)'
    BY <1>0, <1>15 DEF AxesReturn, Return, Inside, AxesPcs
<1>16. CASE UNCHANGED vars
    BY <1>0, <1>16 DEF vars
<1>17. QED
    BY <1>1, <1>2, <1>3, <1>4, <1>5, <1>6, <1>7, <1>8, <1>9,
       <1>10, <1>11, <1>12, <1>13, <1>14, <1>15, <1>16 DEF Next, Call, Step

\* Nothing is under way at the start.
LEMMA InitHolds == Init => IInv
BY CapabilityAssumption
   DEF Init, IInv, TypeOK, Inside, Alone, Progress, Done, InHand,
       Agreement, Calm, EffectiveMode, Pcs, GlobalPcs, AxesPcs

\* The parts together are inductive.
LEMMA StepHolds == IInv /\ [Next]_vars => IInv'
BY TypeStep, InsideStep, AloneStep, ProgressStep, InHandStep, AgreementStep
   DEF IInv

\* The invariant holds in every behaviour of the service.
THEOREM Invariance == Spec => []IInv
<1>1. QED BY InitHolds, StepHolds, PTL DEF Spec

\* Every variable keeps its type, for every set of threads, axes and modes.
THEOREM TypeCorrect == Spec => []TypeOK
<1>1. IInv => TypeOK BY DEF IInv
<1>2. QED BY <1>1, Invariance, PTL

\* However many threads set modes and register engines: when no call is under
\* way and no call for all axes has overlapped another since one last ran
\* alone, every registered engine enforces the mode get_effective_mode
\* reports for it.
THEOREM ModesAgree == Spec => []QuiescentAgreement
<1>1. IInv => QuiescentAgreement
    BY DEF IInv, TypeOK, Inside, Agreement, Calm, QuiescentAgreement,
           GlobalPcs, AxesPcs
<1>2. QED BY <1>1, Invariance, PTL
=============================================================================
