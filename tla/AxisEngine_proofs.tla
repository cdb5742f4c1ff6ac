-------------------------- MODULE AxisEngine_proofs --------------------------
(***************************************************************************)
(* Pipeline updates of the axis engine for every set of clients and every  *)
(* number of updates: the RT thread installs only the update stored last,  *)
(* and the acknowledgment counter tells the truth about it.                *)
(***************************************************************************)
EXTENDS AxisEngine, FiniteSetTheorems, TLAPS

Locks == [writer : Threads \cup {Free}, readers : SUBSET Threads]

Calls == [pc : ClientPcs, version : Nat, mode : Modes]

\* The shape of the variables the argument is about.
Shape ==
    /\ lock \in [LockNames -> Locks]
    /\ pending \in [seq : Nat, version : Nat]
    /\ active \in [seq : Nat, version : Nat]
    /\ swaps \in Nat
    /\ ack \in Nat
    /\ mode \in Modes
    /\ rt \in [pc : RtPcs, staged : [seq : Nat, version : Nat], out : Nat]
    /\ cl \in [Clients -> Calls]
    /\ stored \in Nat
    /\ ackAtStore \in Nat

Swapping == rt.pc \in {"install", "ack", "count"}

\* The pending lock belongs to the RT thread from taking a pipeline out until
\* the swap is counted, and to a client while it stores.
PendingHeld ==
    /\ Swapping => lock["pending"].writer = RT
    /\ \A c \in Clients : cl[c].pc = "storing" => lock["pending"].writer = c

\* Where the update stored last is: in the pending slot or in the RT thread's
\* hands, and then not acknowledged, or else active.
LastUpdate ==
    /\ active.seq <= stored
    /\ Swapping => pending = NoPipeline
    /\ pending # NoPipeline =>
         pending.seq = stored /\ ack = ackAtStore /\ active.seq < stored
    /\ rt.pc = "install" =>
         rt.staged.seq = stored /\ ack = ackAtStore /\ active.seq < stored
    /\ pending = NoPipeline /\ rt.pc # "install" => active.seq = stored

IndInv == Shape /\ PendingHeld /\ LastUpdate

-----------------------------------------------------------------------------
\* Every operation on a lock leaves a lock, and says what it is written to do.
LEMMA LockOps ==
    ASSUME NEW l \in Locks, NEW t \in Threads
    PROVE  /\ AnnounceWrite(l, t) \in Locks /\ AnnounceWrite(l, t).writer = t
           /\ WriteUnlock(l) \in Locks /\ WriteUnlock(l).writer = Free
           /\ ReadLock(l, t) \in Locks
           /\ ReadUnlock(l, t) \in Locks
<1>1. l.readers \cup {t} \in SUBSET Threads /\ l.readers \ {t} \in SUBSET Threads
  BY DEF Locks
<1> QED
  BY <1>1 DEF Locks, AnnounceWrite, WriteUnlock, ReadLock, ReadUnlock

\* Replacing one lock leaves the others alone.
LEMMA LockStep ==
    ASSUME lock \in [LockNames -> Locks], NEW n \in LockNames, NEW l \in Locks,
           lock' = [lock EXCEPT ![n] = l]
    PROVE  /\ lock' \in [LockNames -> Locks]
           /\ lock'[n] = l
           /\ \A k \in LockNames \ {n} : lock'[k] = lock[k]
  OBVIOUS

\* The names of locks and call steps the actions use.
LEMMA NamesLemma ==
    /\ {"pending", "active", "capability", "conflict"} \subseteq LockNames
    /\ {"idle", "store", "storing", "set mode", "set audit", "capability mode",
        "active version", "detect", "detected", "get conflicts", "clear"}
         \subseteq ClientPcs
  BY DEF LockNames, ClientPcs

\* A step of one client moves that client's call and no other.
LEMMA ToStep ==
    ASSUME cl \in [Clients -> Calls], NEW c \in Clients, NEW pc \in ClientPcs,
           To(c, pc)
    PROVE  /\ cl' \in [Clients -> Calls]
           /\ cl'[c].pc = pc
           /\ \A d \in Clients \ {c} : cl'[d] = cl[d]
<1>1. [cl[c] EXCEPT !.pc = pc] \in Calls /\ [cl[c] EXCEPT !.pc = pc].pc = pc
  BY DEF Calls
<1>2. cl' = [cl EXCEPT ![c] = [cl[c] EXCEPT !.pc = pc]]
  BY DEF To
<1> QED BY <1>1, <1>2

\* The same for a step that replaces the whole call.
LEMMA ClientAtStep ==
    ASSUME cl \in [Clients -> Calls], NEW c \in Clients, NEW pc \in ClientPcs,
           NEW v \in Nat, NEW m \in Modes,
           cl' = [cl EXCEPT ![c] = ClientAt(pc, v, m)]
    PROVE  /\ cl' \in [Clients -> Calls]
           /\ cl'[c].pc = pc
           /\ \A d \in Clients \ {c} : cl'[d] = cl[d]
<1>1. ClientAt(pc, v, m) \in Calls /\ ClientAt(pc, v, m).pc = pc
  BY DEF Calls, ClientAt
<1> QED BY <1>1

\* A client step that leaves the pending slot and the swap alone, and does not
\* begin or end a store, keeps the invariant.
LEMMA QuietStep ==
    ASSUME IndInv,
           lock' \in [LockNames -> Locks], lock'["pending"] = lock["pending"],
           UNCHANGED <<pending, active, ack, rt, stored, ackAtStore>>,
           swaps' \in Nat, mode' \in Modes,
           cl' \in [Clients -> Calls],
           NEW c \in Clients, cl'[c].pc # "storing",
           \A d \in Clients \ {c} : cl'[d] = cl[d]
    PROVE  IndInv'
<1>1. Shape'
  BY DEF IndInv, Shape
<1> QED BY <1>1 DEF IndInv, PendingHeld, LastUpdate, Swapping

\* The invariant holds when the engine is created.
LEMMA InitIndInv == Init => IndInv
<1> SUFFICES ASSUME Init PROVE IndInv
  OBVIOUS
<1>1. Unlocked \in Locks
  BY DEF Unlocked, Locks
<1>2. ClientAt("idle", 0, "Full") \in Calls
  BY AxisAssumption, NamesLemma DEF ClientAt, Calls
<1>3. \A c \in Clients : cl[c].pc = "idle"
  BY DEF Init, ClientAt
<1>4. Shape
  BY <1>1, <1>2, AxisAssumption DEF Init, Shape, NoPipeline, RtAt, RtPcs
<1> QED
  BY <1>3, <1>4
  DEF Init, IndInv, PendingHeld, LastUpdate, Swapping, NoPipeline, RtAt

\* The limit a frame is clamped to is a number.
LEMMA LimitsNat == ASSUME NEW m \in Modes PROVE Limits[m] \in Nat
  BY AxisAssumption DEF Limits

\* The steps of process() keep the invariant.
LEMMA RtKeepsIndInv == IndInv /\ (Process \/ RtStep) => IndInv'
<1> SUFFICES ASSUME IndInv, Process \/ RtStep PROVE IndInv'
  OBVIOUS
<1> USE DEF NoPipeline, RtAt, RtPcs, historyVars
<1>0. /\ RT \in Threads
      /\ {"pending", "active", "capability", "conflict"} \subseteq LockNames
      /\ lock \in [LockNames -> Locks]
      /\ \A n \in LockNames : lock[n] \in Locks
  BY NamesLemma DEF Threads, IndInv, Shape
<1>1. CASE Process
  BY <1>1 DEF IndInv, Shape, PendingHeld, LastUpdate, Swapping, Process
<1>2. CASE TrySwap
  <2>1. CASE CanWrite(lock["pending"]) /\ pending # NoPipeline
    <3>1. /\ lock' \in [LockNames -> Locks]
          /\ lock'["pending"].writer = RT
      <4> DEFINE p == AnnounceWrite(lock["pending"], RT)
                 a == AnnounceWrite(lock["active"], RT)
      <4>1. p \in Locks /\ p.writer = RT /\ a \in Locks
        BY <1>0, LockOps
      <4>2. lock' = [lock EXCEPT !["pending"] = p, !["active"] = a]
        BY <1>2, <2>1 DEF TrySwap
      <4> HIDE DEF p, a
      <4> QED BY <1>0, <4>1, <4>2
    <3>2. \A c \in Clients : cl[c].pc # "storing"
      BY <2>1, AxisAssumption DEF IndInv, PendingHeld, CanWrite
    <3>3. Shape'
      BY <1>2, <2>1, <3>1 DEF IndInv, Shape, TrySwap
    <3>4. PendingHeld'
      BY <1>2, <3>1, <3>2 DEF PendingHeld, TrySwap
    <3>5. LastUpdate'
      BY <1>2, <2>1 DEF IndInv, Shape, LastUpdate, Swapping, TrySwap
    <3> QED BY <3>3, <3>4, <3>5 DEF IndInv
  <2>2. CASE ~ (CanWrite(lock["pending"]) /\ pending # NoPipeline)
    BY <1>2, <2>2 DEF IndInv, Shape, PendingHeld, LastUpdate, Swapping, TrySwap
  <2> QED BY <2>1, <2>2
<1>3. CASE Install
  <2>1. /\ lock' \in [LockNames -> Locks]
        /\ lock'["pending"] = lock["pending"]
    BY <1>0, <1>3, LockOps, LockStep DEF Install
  <2>2. Shape'
    BY <1>3, <2>1 DEF IndInv, Shape, Install
  <2>3. PendingHeld'
    BY <1>3, <2>1 DEF IndInv, PendingHeld, Swapping, Install
  <2>4. LastUpdate'
    BY <1>3 DEF IndInv, Shape, LastUpdate, Swapping, Install
  <2> QED BY <2>2, <2>3, <2>4 DEF IndInv
<1>4. CASE Acknowledge
  BY <1>4 DEF IndInv, Shape, PendingHeld, LastUpdate, Swapping, Acknowledge
<1>5. CASE CountSwap
  <2>1. /\ lock' \in [LockNames -> Locks]
        /\ \A c \in Clients : cl[c].pc # "storing"
    BY <1>0, <1>5, LockOps, LockStep, AxisAssumption
    DEF IndInv, PendingHeld, Swapping, CountSwap
  <2>2. Shape'
    BY <1>5, <2>1 DEF IndInv, Shape, CountSwap
  <2>3. PendingHeld'
    BY <1>5, <2>1, <2>2 DEF Shape, PendingHeld, Swapping, CountSwap
  <2>4. LastUpdate'
    BY <1>5 DEF IndInv, Shape, LastUpdate, Swapping, CountSwap
  <2> QED BY <2>2, <2>3, <2>4 DEF IndInv
<1>6. CASE \E out \in Outputs : Run(out)
  BY <1>6 DEF IndInv, Shape, PendingHeld, LastUpdate, Swapping, Run, Outputs
<1>7. CASE Clamp
  BY <1>7, LimitsNat
  DEF IndInv, Shape, PendingHeld, LastUpdate, Swapping, Clamp
<1>8. CASE Sample \/ SampleDone
  <2>1. /\ lock' \in [LockNames -> Locks]
        /\ lock'["pending"] = lock["pending"]
    BY <1>0, <1>8, LockOps, LockStep DEF Sample, SampleDone
  <2>2. Shape'
    BY <1>8, <2>1 DEF IndInv, Shape, Sample, SampleDone
  <2>3. PendingHeld'
    BY <1>8, <2>1 DEF IndInv, Shape, PendingHeld, Swapping, Sample, SampleDone
  <2>4. LastUpdate'
    BY <1>8 DEF IndInv, Shape, LastUpdate, Swapping, Sample, SampleDone
  <2> QED BY <2>2, <2>3, <2>4 DEF IndInv
<1> QED
  BY <1>1, <1>2, <1>3, <1>4, <1>5, <1>6, <1>7, <1>8 DEF RtStep

\* The client calls keep the invariant.
LEMMA ClientKeepsIndInv ==
    ASSUME IndInv, NEW c \in Clients, Call(c) \/ Continue(c)
    PROVE  IndInv'
<1> USE DEF historyVars
<1>0. /\ c \in Threads /\ "Full" \in Modes
      /\ lock \in [LockNames -> Locks] /\ cl \in [Clients -> Calls]
      /\ \A n \in LockNames : lock[n] \in Locks
      /\ cl[c].version \in Nat /\ cl[c].mode \in Modes
      /\ swaps \in Nat /\ mode \in Modes
  BY AxisAssumption DEF Threads, IndInv, Shape, Calls
<1>1. CASE Compile(c)
  <2>1. cl' = [cl EXCEPT ![c] = ClientAt("store", swaps + 1, "Full")]
    BY <1>1 DEF Compile
  <2>2. swaps + 1 \in Nat
    BY <1>0
  <2>3. /\ cl' \in [Clients -> Calls] /\ cl'[c].pc = "store"
        /\ \A d \in Clients \ {c} : cl'[d] = cl[d]
    BY <1>0, <2>1, <2>2, ClientAtStep, NamesLemma
  <2> QED BY <1>0, <1>1, <2>3, QuietStep DEF Compile
<1>2. CASE ResetCounters(c)
  BY <1>2 DEF IndInv, Shape, PendingHeld, LastUpdate, Swapping, ResetCounters
<1>3. CASE LockPending(c)
  <2>1. /\ lock' \in [LockNames -> Locks]
        /\ lock'["pending"].writer = c
    BY <1>0, <1>3, LockOps, LockStep, NamesLemma DEF LockPending
  <2>2. /\ cl' \in [Clients -> Calls]
        /\ \A d \in Clients \ {c} : cl'[d] = cl[d]
    BY <1>0, <1>3, ToStep, NamesLemma DEF LockPending
  <2>3. ~ Swapping /\ \A d \in Clients : cl[d].pc # "storing"
    BY <1>3, AxisAssumption DEF IndInv, PendingHeld, LockPending, CanWrite
  <2>4. Shape'
    BY <1>3, <2>1, <2>2 DEF IndInv, Shape, LockPending
  <2>5. PendingHeld'
    BY <1>3, <2>1, <2>2, <2>3 DEF PendingHeld, Swapping, LockPending
  <2>6. LastUpdate'
    BY <1>3 DEF IndInv, LastUpdate, Swapping, LockPending
  <2> QED BY <2>4, <2>5, <2>6 DEF IndInv
<1>4. CASE Store(c)
  <2>1. lock' \in [LockNames -> Locks]
    BY <1>0, <1>4, LockOps, LockStep, NamesLemma DEF Store
  <2>2. /\ cl' \in [Clients -> Calls] /\ cl'[c].pc = "idle"
        /\ \A d \in Clients \ {c} : cl'[d] = cl[d]
    BY <1>0, <1>4, ClientAtStep, NamesLemma DEF Store
  <2>3. ~ Swapping /\ \A d \in Clients \ {c} : cl[d].pc # "storing"
    BY <1>4, AxisAssumption DEF IndInv, PendingHeld, Store
  <2>4. Shape'
    BY <1>0, <1>4, <2>1, <2>2 DEF IndInv, Shape, Store
  <2>5. PendingHeld'
    BY <1>4, <2>2, <2>3 DEF PendingHeld, Swapping, Store
  <2>6. LastUpdate'
    BY <1>4, <2>3 DEF IndInv, Shape, LastUpdate, Swapping, Store, NoPipeline
  <2> QED BY <2>4, <2>5, <2>6 DEF IndInv
<1>5. ASSUME NEW pc \in {"set mode", "set audit"}, NEW m \in Modes,
             LockCapability(c, pc, m)
      PROVE  IndInv'
  <2>1. /\ lock' \in [LockNames -> Locks]
        /\ lock'["pending"] = lock["pending"]
    BY <1>0, <1>5, LockOps, LockStep, NamesLemma DEF LockCapability
  <2>2. /\ cl' \in [Clients -> Calls] /\ cl'[c].pc = pc
        /\ \A d \in Clients \ {c} : cl'[d] = cl[d]
    BY <1>0, <1>5, ClientAtStep, NamesLemma DEF LockCapability
  <2> QED BY <1>0, <1>5, <2>1, <2>2, QuietStep DEF LockCapability
<1>6. CASE SetMode(c)
  <2>1. /\ lock' \in [LockNames -> Locks]
        /\ lock'["pending"] = lock["pending"]
    BY <1>0, <1>6, LockOps, LockStep, NamesLemma DEF SetMode
  <2>2. /\ cl' \in [Clients -> Calls] /\ cl'[c].pc = "idle"
        /\ \A d \in Clients \ {c} : cl'[d] = cl[d]
    BY <1>0, <1>6, ClientAtStep, NamesLemma DEF SetMode
  <2> QED BY <1>0, <1>6, <2>1, <2>2, QuietStep DEF SetMode
<1>7. ASSUME NEW pc \in ClientPcs \ {"storing"}, To(c, pc),
             lock' \in [LockNames -> Locks],
             lock'["pending"] = lock["pending"],
             UNCHANGED <<pending, active, swaps, ack, mode, rt, stored,
                         ackAtStore>>
      PROVE  IndInv'
  <2>1. /\ cl' \in [Clients -> Calls] /\ cl'[c].pc = pc
        /\ \A d \in Clients \ {c} : cl'[d] = cl[d]
    BY <1>0, <1>7, ToStep
  <2> QED BY <1>0, <1>7, <2>1, QuietStep
<1>8. ASSUME NEW l \in {"active", "capability", "conflict"},
             NEW pc \in {"capability mode", "active version", "detect",
                         "get conflicts"},
             BeginRead(c, l, pc) \/ EndRead(c, l, pc)
      PROVE  IndInv'
  <2>1. lock' \in [LockNames -> Locks] /\ lock'["pending"] = lock["pending"]
    BY <1>0, <1>8, LockOps, LockStep, NamesLemma DEF BeginRead, EndRead
  <2>2. \E p \in ClientPcs \ {"storing"} : To(c, p)
    BY <1>8, NamesLemma DEF BeginRead, EndRead
  <2> QED BY <1>7, <1>8, <2>1, <2>2 DEF BeginRead, EndRead
<1>9. CASE SetAudit(c) \/ LockConflicts(c) \/ ClearConflicts(c)
  <2>1. lock' \in [LockNames -> Locks] /\ lock'["pending"] = lock["pending"]
    BY <1>0, <1>9, LockOps, LockStep, NamesLemma
    DEF SetAudit, LockConflicts, ClearConflicts
  <2>2. \E p \in ClientPcs \ {"storing"} : To(c, p)
    BY <1>9, NamesLemma DEF SetAudit, LockConflicts, ClearConflicts
  <2> QED
    BY <1>7, <1>9, <2>1, <2>2 DEF SetAudit, LockConflicts, ClearConflicts
<1>10. CASE Detect(c)
  <2>1. lock' \in [LockNames -> Locks] /\ lock'["pending"] = lock["pending"]
    BY <1>0, <1>10, LockOps, LockStep, NamesLemma DEF Detect
  <2>2. \E p \in ClientPcs \ {"storing"} : To(c, p)
    BY <1>10, NamesLemma DEF Detect
  <2> QED BY <1>7, <1>10, <2>1, <2>2 DEF Detect
<1>11. CASE Detected(c)
  <2> DEFINE f == ReadUnlock(lock["conflict"], c)
             a == ReadUnlock(lock["active"], c)
  <2>1. f \in Locks /\ a \in Locks
    BY <1>0, LockOps, NamesLemma
  <2>2. lock' = [lock EXCEPT !["conflict"] = f, !["active"] = a]
    BY <1>11 DEF Detected
  <2> HIDE DEF f, a
  <2>3. lock' \in [LockNames -> Locks] /\ lock'["pending"] = lock["pending"]
    BY <1>0, <2>1, <2>2, NamesLemma
  <2>4. To(c, "idle") /\ "idle" \in ClientPcs \ {"storing"}
    BY <1>11, NamesLemma DEF Detected
  <2> QED BY <1>7, <1>11, <2>3, <2>4 DEF Detected
<1> QED
  BY <1>0, <1>1, <1>2, <1>3, <1>4, <1>5, <1>6, <1>8, <1>9, <1>10, <1>11
  DEF Call, Continue

\* Stuttering keeps it.
LEMMA StutterKeepsIndInv == IndInv /\ UNCHANGED vars => IndInv'
  BY DEF IndInv, Shape, PendingHeld, LastUpdate, Swapping, vars, historyVars

\* The invariant holds in every state of the engine.
THEOREM IndInvHolds == Spec => []IndInv
<1>1. IndInv /\ [Next]_vars => IndInv'
  BY RtKeepsIndInv, ClientKeepsIndInv, StutterKeepsIndInv DEF Next
<1> QED BY InitIndInv, <1>1, PTL DEF Spec

\* swap_ack_count moving on after update_pipeline has returned means that the
\* update is active, whatever other clients and the RT thread were doing.
THEOREM AckIsTrustworthy == Spec => []AckConfirms
<1>1. IndInv => AckConfirms
  BY DEF IndInv, Shape, LastUpdate, AckConfirms
<1> QED BY <1>1, IndInvHolds, PTL

\* Pipeline updates implement the abstract slot: only the update stored last is
\* ever installed.
THEOREM UpdatesRefineSlot == Spec => RefinesSlot
<1>1. Init => Slot!Init
  BY DEF Init, Slot!Init, NoPipeline
<1>2. IndInv /\ [Next]_vars => [Slot!Next]_<<stored, active.seq>>
  <2> SUFFICES ASSUME IndInv, [Next]_vars
               PROVE  [Slot!Next]_<<stored, active.seq>>
    OBVIOUS
  <2>1. CASE Install
    BY <2>1 DEF IndInv, Shape, LastUpdate, Install, historyVars,
                Slot!Next, Slot!Install
  <2>2. ASSUME NEW c \in Clients, Store(c) PROVE Slot!Publish
    BY <2>2 DEF Store, Slot!Publish
  <2>3. ASSUME ~ Install, \A c \in Clients : ~ Store(c)
        PROVE  UNCHANGED <<stored, active.seq>>
    BY <2>3
    DEF Next, RtStep, Call, Continue, Process, TrySwap, Acknowledge, CountSwap,
        Run, Clamp, Sample, SampleDone, Compile, LockPending, ResetCounters,
        LockCapability, SetMode, SetAudit, BeginRead, EndRead, Detect,
        Detected, LockConflicts, ClearConflicts, vars, historyVars
  <2> QED BY <2>1, <2>2, <2>3 DEF Slot!Next
<1> QED BY <1>1, <1>2, IndInvHolds, PTL DEF Spec, RefinesSlot, Slot!Spec

-----------------------------------------------------------------------------
(* The capability clamp *)

\* The context has the mode last set, nobody is writing it during a calm frame,
\* and the frame is within its limit.
LimitInv ==
    /\ mode = requested
    /\ calm => lock["capability"].writer = Free
    /\ LimitHolds

\* A client that neither takes the capability context nor sets the mode.
LEMMA QuietLimit ==
    ASSUME LimitInv, UNCHANGED <<mode, rt, requested, calm>>,
           lock'["capability"].writer \in {lock["capability"].writer, Free}
    PROVE  LimitInv'
  BY DEF LimitInv, LimitHolds

\* A step of process() that leaves the context alone and no frame clamped.
LEMMA UnclampedLimit ==
    ASSUME LimitInv, UNCHANGED <<mode, requested, calm>>,
           lock'["capability"] = lock["capability"],
           rt'.pc \notin {"sample", "sampling"}
    PROVE  LimitInv'
  BY DEF LimitInv, LimitHolds

\* Readers come and go without disturbing the writer.
LEMMA ReadersKeepWriter ==
    ASSUME NEW l \in Locks, NEW t \in Threads
    PROVE  ReadLock(l, t).writer = l.writer /\ ReadUnlock(l, t).writer = l.writer
  BY DEF Locks, ReadLock, ReadUnlock

\* The steps of process() keep the limit.
LEMMA RtKeepsLimit ==
    ASSUME IndInv, LimitInv, Process \/ RtStep
    PROVE  LimitInv'
<1> USE DEF RtAt, historyVars
<1>0. /\ RT \in Threads
      /\ {"pending", "active", "capability", "conflict"} \subseteq LockNames
      /\ lock \in [LockNames -> Locks]
      /\ \A n \in LockNames : lock[n] \in Locks
      /\ rt \in [pc : RtPcs, staged : [seq : Nat, version : Nat], out : Nat]
  BY NamesLemma DEF Threads, IndInv, Shape
<1>1. CASE Process
  BY <1>0, <1>1 DEF LimitInv, LimitHolds, Process
<1>2. CASE TrySwap
  <2>1. lock'["capability"] = lock["capability"] BY <1>0, <1>2 DEF TrySwap
  <2>2. rt'.pc \notin {"sample", "sampling"} BY <1>0, <1>2 DEF TrySwap
  <2>3. QED BY <1>2, <2>1, <2>2, UnclampedLimit DEF TrySwap
<1>3. CASE Install \/ CountSwap
  <2>1. lock'["capability"] = lock["capability"]
    BY <1>0, <1>3 DEF Install, CountSwap
  <2>2. rt'.pc \notin {"sample", "sampling"}
    BY <1>0, <1>3 DEF Install, CountSwap
  <2>3. QED BY <1>3, <2>1, <2>2, UnclampedLimit DEF Install, CountSwap
<1>4. CASE Acknowledge \/ \E out \in Outputs : Run(out)
  <2>1. rt'.pc \notin {"sample", "sampling"} BY <1>0, <1>4 DEF Acknowledge, Run
  <2>2. QED BY <1>4, <2>1, UnclampedLimit DEF Acknowledge, Run
<1>5. CASE Clamp
  <2>1. mode \in Modes /\ rt.out \in Nat BY <1>0 DEF IndInv, Shape
  <2>2. Limits[mode] \in Nat BY <2>1, LimitsNat
  <2>3. calm => rt'.out <= Limits[mode]
    BY <1>5, <2>1, <2>2 DEF LimitInv, Clamp, CanRead
  <2>4. QED BY <1>5, <2>3 DEF LimitInv, LimitHolds, Clamp
<1>6. CASE Sample \/ SampleDone
  <2>1. lock'["capability"] = lock["capability"]
    BY <1>0, <1>6 DEF Sample, SampleDone
  <2>2. rt'.pc \in {"sample", "sampling"}
          => rt.pc \in {"sample", "sampling"} /\ rt'.out = rt.out
    BY <1>0, <1>6 DEF Sample, SampleDone
  <2>3. QED
    BY <1>6, <2>1, <2>2 DEF LimitInv, LimitHolds, Sample, SampleDone
<1>7. QED BY <1>1, <1>2, <1>3, <1>4, <1>5, <1>6 DEF RtStep

\* The client calls keep the limit: the mode only changes under a lock that
\* makes the frame under way not a calm one.
LEMMA ClientKeepsLimit ==
    ASSUME IndInv, LimitInv, NEW c \in Clients, Call(c) \/ Continue(c)
    PROVE  LimitInv'
<1> USE DEF historyVars
<1>0. /\ c \in Threads /\ c # Free
      /\ lock \in [LockNames -> Locks]
      /\ \A n \in LockNames : lock[n] \in Locks
      /\ {"pending", "active", "capability", "conflict"} \subseteq LockNames
  BY AxisAssumption, NamesLemma DEF Threads, IndInv, Shape
<1>1. ASSUME NEW pc, NEW m \in Modes, LockCapability(c, pc, m)
      PROVE  LimitInv'
  BY <1>1 DEF LimitInv, LimitHolds, LockCapability
<1>2. CASE SetMode(c)
  <2>1. ~ calm BY <1>0, <1>2 DEF LimitInv, SetMode, Exclusive
  <2>2. QED BY <1>2, <2>1 DEF LimitInv, LimitHolds, SetMode
<1>3. ASSUME NEW n \in LockNames, NEW l \in Locks,
             l.writer \in {lock[n].writer, Free} \/ n # "capability",
             lock' = [lock EXCEPT ![n] = l],
             UNCHANGED <<mode, rt, requested, calm>>
      PROVE  LimitInv'
  <2>1. lock'["capability"].writer \in {lock["capability"].writer, Free}
    BY <1>0, <1>3, LockStep
  <2>2. QED BY <1>3, <2>1, QuietLimit
<1>4. CASE Compile(c) \/ ResetCounters(c)
  BY <1>4, QuietLimit DEF Compile, ResetCounters
<1>5. CASE LockPending(c) \/ Store(c) \/ LockConflicts(c) \/ ClearConflicts(c)
  <2>1. PICK n \in {"pending", "conflict"} : \E l \in Locks :
          lock' = [lock EXCEPT ![n] = l]
    BY <1>0, <1>5, LockOps
       DEF LockPending, Store, LockConflicts, ClearConflicts
  <2>2. UNCHANGED <<mode, rt, requested, calm>>
    BY <1>5 DEF LockPending, Store, LockConflicts, ClearConflicts
  <2>3. QED BY <1>0, <1>3, <2>1, <2>2
<1>6. ASSUME NEW n \in {"active", "capability", "conflict"}, NEW pc,
             BeginRead(c, n, pc) \/ EndRead(c, n, pc)
      PROVE  LimitInv'
  <2>1. PICK l \in {ReadLock(lock[n], c), ReadUnlock(lock[n], c)} :
          lock' = [lock EXCEPT ![n] = l]
    BY <1>6 DEF BeginRead, EndRead
  <2>2. n \in LockNames /\ l \in Locks /\ l.writer = lock[n].writer
    <3>1. n \in LockNames /\ lock[n] \in Locks BY <1>0
    <3>2. CASE l = ReadLock(lock[n], c)
      BY <1>0, <3>1, <3>2, LockOps, ReadersKeepWriter
    <3>3. CASE l = ReadUnlock(lock[n], c)
      BY <1>0, <3>1, <3>3, LockOps, ReadersKeepWriter
    <3>4. QED BY <3>2, <3>3
  <2>3. UNCHANGED <<mode, rt, requested, calm>>
    BY <1>6 DEF BeginRead, EndRead
  <2>4. QED BY <1>3, <2>1, <2>2, <2>3
<1>7. CASE SetAudit(c)
  <2>1. lock' = [lock EXCEPT !["capability"] = WriteUnlock(lock["capability"])]
    BY <1>7 DEF SetAudit
  <2>2. /\ WriteUnlock(lock["capability"]) \in Locks
        /\ WriteUnlock(lock["capability"]).writer = Free
    BY <1>0, LockOps
  <2>3. UNCHANGED <<mode, rt, requested, calm>> BY <1>7 DEF SetAudit
  <2>4. QED BY <1>0, <1>3, <2>1, <2>2, <2>3
<1>8. CASE Detect(c) \/ Detected(c)
  <2>1. lock'["capability"] = lock["capability"]
    BY <1>0, <1>8 DEF Detect, Detected
  <2>2. QED BY <1>8, <2>1, QuietLimit DEF Detect, Detected
<1>9. QED
  BY <1>1, <1>2, <1>4, <1>5, <1>6, <1>7, <1>8, AxisAssumption
     DEF Call, Continue

\* For every set of clients and modes: a frame during which nobody was
\* changing the capability context leaves process() within the limit of the
\* mode last set.
THEOREM LimitsHold == Spec => []LimitHolds
<1>1. Init => LimitInv
  BY DEF Init, LimitInv, LimitHolds, RtAt
<1>2. IndInv /\ LimitInv /\ [Next]_vars => LimitInv'
  <2>1. IndInv /\ LimitInv /\ Next => LimitInv'
    BY RtKeepsLimit, ClientKeepsLimit DEF Next
  <2>2. LimitInv /\ UNCHANGED vars => LimitInv'
    BY DEF LimitInv, LimitHolds, vars, historyVars
  <2>3. QED BY <2>1, <2>2
<1>3. LimitInv => LimitHolds BY DEF LimitInv
<1>4. QED BY <1>1, <1>2, <1>3, IndInvHolds, PTL DEF Spec

-----------------------------------------------------------------------------
(* Types *)

\* The clients about to store a pipeline.
Storers == {d \in Clients : cl[d].pc \in {"store", "storing"}}

\* There are finitely many of them, their pipelines have versions from one on,
\* and with what is stored they stay within the bound.
Counted ==
    /\ IsFiniteSet(Storers)
    /\ stored + Cardinality(Storers) <= MaxUpdates
    /\ \A d \in Storers : cl[d].version # 0

Frames == [pc : RtPcs, staged : Pipelines, out : Outputs \cup {0}]

\* What TypeOK says beyond Shape.
TypeInv ==
    /\ pending \in Pipelines
    /\ active \in Pipelines
    /\ rt \in Frames
    /\ requested \in Modes
    /\ calm \in BOOLEAN
    /\ Counted

\* No pipeline, and the limits a frame is clamped to, are of their types.
LEMMA PipelineFacts ==
    /\ NoPipeline \in Pipelines
    /\ \A m \in Modes : Limits[m] \in Outputs
  BY AxisAssumption DEF Pipelines, Limits, Outputs

\* The steps of process() keep the types.
LEMMA RtKeepsTypes ==
    ASSUME IndInv, TypeInv, Process \/ RtStep
    PROVE  TypeInv'
<1> USE DEF historyVars
<1>1. UNCHANGED <<cl, stored, requested>>
  BY DEF Process, RtStep, TrySwap, Install, Acknowledge, CountSwap, Run, Clamp,
         Sample, SampleDone
<1>2. Counted' BY <1>1 DEF TypeInv, Counted, Storers
<1>3. calm' \in BOOLEAN
  BY DEF TypeInv, Process, RtStep, TrySwap, Install, Acknowledge, CountSwap,
         Run, Clamp, Sample, SampleDone
<1>4. pending' \in Pipelines /\ active' \in Pipelines
  BY PipelineFacts
     DEF TypeInv, Frames, Process, RtStep, TrySwap, Install, Acknowledge,
         CountSwap, Run, Clamp, Sample, SampleDone
<1>5. rt' \in Frames
  <2> USE DEF RtAt, RtPcs, Frames
  <2>1. CASE Process \/ Acknowledge \/ CountSwap
    BY <2>1 DEF TypeInv, Process, Acknowledge, CountSwap
  <2>2. CASE TrySwap BY <2>2 DEF TypeInv, TrySwap
  <2>3. CASE Install BY <2>3, PipelineFacts DEF TypeInv, Install
  <2>4. CASE \E out \in Outputs : Run(out) BY <2>4 DEF TypeInv, Run
  <2>5. CASE Clamp
    <3>1. Limits[mode] \in Outputs BY PipelineFacts DEF IndInv, Shape
    <3>2. QED BY <2>5, <3>1 DEF TypeInv, Clamp
  <2>6. CASE Sample \/ SampleDone BY <2>6 DEF TypeInv, Sample, SampleDone
  <2>7. QED BY <2>1, <2>2, <2>3, <2>4, <2>5, <2>6 DEF RtStep
<1>6. QED BY <1>1, <1>2, <1>3, <1>4, <1>5 DEF TypeInv

\* The same for a client that is not about to store, before and after.
LEMMA QuietCount ==
    ASSUME IndInv, TypeInv, NEW c \in Clients, UNCHANGED stored,
           cl[c].pc \notin {"store", "storing"},
           cl'[c].pc \notin {"store", "storing"},
           \A d \in Clients \ {c} : cl'[d] = cl[d]
    PROVE  Counted'
<1>1. Storers' = Storers BY DEF Storers
<1>2. QED BY <1>1 DEF TypeInv, Counted, Storers

\* The client calls keep the types and the count of pending updates.
LEMMA ClientKeepsTypes ==
    ASSUME IndInv, TypeInv, NEW c \in Clients, Call(c) \/ Continue(c)
    PROVE  TypeInv'
<1> USE DEF historyVars
<1>0. /\ cl \in [Clients -> Calls] /\ "Full" \in Modes
      /\ cl[c].version \in Nat /\ cl[c].mode \in Modes
      /\ stored \in Nat /\ swaps \in Nat
      /\ IsFiniteSet(Storers) /\ Cardinality(Storers) \in Nat
  BY AxisAssumption, FS_CardinalityType
     DEF IndInv, Shape, Calls, TypeInv, Counted
<1>1. CASE Compile(c)
  <2>1. c \notin Storers /\ stored + Cardinality(Storers) < MaxUpdates
    BY <1>1 DEF Compile, Storers
  <2>2. cl' = [cl EXCEPT ![c] = ClientAt("store", swaps + 1, "Full")]
    BY <1>1 DEF Compile
  <2>3. /\ cl'[c].pc = "store" /\ cl'[c].version = swaps + 1
        /\ \A d \in Clients \ {c} : cl'[d] = cl[d]
    BY <1>0, <2>2 DEF ClientAt
  <2>4. Storers' = Storers \cup {c} BY <2>3 DEF Storers
  <2>5. IsFiniteSet(Storers') /\ Cardinality(Storers') = Cardinality(Storers) + 1
    BY <1>0, <2>1, <2>4, FS_AddElement
  <2>6. stored' = stored BY <1>1 DEF Compile
  <2>7. stored' + Cardinality(Storers') <= MaxUpdates
    BY <1>0, <2>1, <2>5, <2>6, AxisAssumption
  <2>8. \A d \in Storers' : cl'[d].version # 0
    BY <1>0, <2>3, <2>4 DEF TypeInv, Counted, Storers
  <2>9. Counted' BY <2>5, <2>7, <2>8 DEF Counted
  <2>10. QED BY <1>1, <2>9 DEF TypeInv, Compile
<1>2. CASE ResetCounters(c)
  BY <1>2 DEF TypeInv, Counted, Storers, ResetCounters
<1>3. CASE LockPending(c)
  <2>1. /\ cl'[c].pc = "storing" /\ cl'[c].version = cl[c].version
        /\ \A d \in Clients \ {c} : cl'[d] = cl[d]
    BY <1>0, <1>3 DEF LockPending, To, Calls
  <2>2. Storers' = Storers BY <1>3, <2>1 DEF Storers, LockPending
  <2>3. Counted'
    <3>1. \A d \in Storers' : cl'[d].version # 0
      BY <2>1, <2>2 DEF TypeInv, Counted, Storers
    <3>2. stored' = stored BY <1>3 DEF LockPending
    <3>3. QED BY <2>2, <3>1, <3>2 DEF TypeInv, Counted
  <2>4. QED BY <1>3, <2>3 DEF TypeInv, LockPending
<1>4. CASE Store(c)
  <2>1. c \in Storers BY <1>4 DEF Store, Storers
  <2>2. /\ cl'[c].pc = "idle" /\ \A d \in Clients \ {c} : cl'[d] = cl[d]
    BY <1>0, <1>4 DEF Store, ClientAt
  <2>3. Storers' = Storers \ {c} BY <2>2 DEF Storers
  <2>4. IsFiniteSet(Storers') /\ Cardinality(Storers') = Cardinality(Storers) - 1
    BY <1>0, <2>1, <2>3, FS_RemoveElement
  <2>5. stored' = stored + 1 BY <1>4 DEF Store
  <2>6. Counted'
    <3>1. \A d \in Storers' : cl'[d].version # 0
      BY <2>2, <2>3 DEF TypeInv, Counted, Storers
    <3>2. stored + Cardinality(Storers) <= MaxUpdates BY DEF TypeInv, Counted
    <3>3. stored' + Cardinality(Storers') <= MaxUpdates
      BY <1>0, <2>4, <2>5, <3>2
    <3>4. QED BY <2>4, <3>1, <3>3 DEF Counted
  <2>7. Cardinality(Storers') \in Nat BY <2>4, FS_CardinalityType
  <2>8. stored + 1 \in 1..MaxUpdates
    BY <1>0, <2>5, <2>6, <2>7, AxisAssumption DEF Counted
  <2>9. cl[c].version \in Nat \ {0} BY <1>0, <2>1 DEF TypeInv, Counted
  <2>10. pending' \in Pipelines
    BY <1>4, <2>8, <2>9 DEF Store, Pipelines
  <2>11. QED BY <1>4, <2>6, <2>10 DEF TypeInv, Store
<1>5. ASSUME NEW pc \in {"set mode", "set audit"}, NEW m \in Modes,
             LockCapability(c, pc, m)
      PROVE  TypeInv'
  <2>1. cl'[c].pc = pc /\ \A d \in Clients \ {c} : cl'[d] = cl[d]
    BY <1>0, <1>5 DEF LockCapability, ClientAt
  <2>2. Counted' BY <1>5, <2>1, QuietCount DEF LockCapability
  <2>3. QED BY <1>5, <2>2 DEF TypeInv, LockCapability
<1>6. CASE SetMode(c)
  <2>1. cl'[c].pc = "idle" /\ \A d \in Clients \ {c} : cl'[d] = cl[d]
    BY <1>0, <1>6 DEF SetMode, ClientAt
  <2>2. Counted' BY <1>6, <2>1, QuietCount DEF SetMode
  <2>3. QED BY <1>0, <1>6, <2>2 DEF TypeInv, SetMode
<1>7. ASSUME NEW pc \in ClientPcs \ {"store", "storing"}, To(c, pc),
             cl[c].pc \notin {"store", "storing"},
             UNCHANGED <<pending, active, rt, stored, requested, calm>>
      PROVE  TypeInv'
  <2>1. cl'[c].pc = pc /\ \A d \in Clients \ {c} : cl'[d] = cl[d]
    BY <1>0, <1>7, ToStep
  <2>2. Counted' BY <1>7, <2>1, QuietCount
  <2>3. QED BY <1>7, <2>2 DEF TypeInv
<1>8. ASSUME NEW l, NEW pc \in {"capability mode", "active version", "detect",
                               "get conflicts"},
             BeginRead(c, l, pc) \/ EndRead(c, l, pc)
      PROVE  TypeInv'
  <2>1. PICK p \in {pc, "idle"} : To(c, p) BY <1>8 DEF BeginRead, EndRead
  <2>2. p \in ClientPcs \ {"store", "storing"} BY NamesLemma
  <2>3. QED BY <1>7, <1>8, <2>1, <2>2 DEF BeginRead, EndRead
<1>9. CASE \/ SetAudit(c) \/ LockConflicts(c) \/ ClearConflicts(c)
           \/ Detect(c) \/ Detected(c)
  <2>1. PICK p \in {"idle", "clear", "detected"} : To(c, p)
    BY <1>9 DEF SetAudit, LockConflicts, ClearConflicts, Detect, Detected
  <2>2. p \in ClientPcs \ {"store", "storing"} BY NamesLemma
  <2>3. QED
    BY <1>7, <1>9, <2>1, <2>2
       DEF SetAudit, LockConflicts, ClearConflicts, Detect, Detected
<1>10. QED
  BY <1>0, <1>1, <1>2, <1>3, <1>4, <1>5, <1>6, <1>8, <1>9 DEF Call, Continue

\* Locks, pipelines and calls keep their types, and no more updates are under
\* way than the bound allows, for any set of clients.
THEOREM TypeCorrect == Spec => []TypeOK
<1>1. Init => TypeInv
  <2> SUFFICES ASSUME Init PROVE TypeInv
    OBVIOUS
  <2>1. Storers = {} BY DEF Init, Storers, ClientAt
  <2>2. Counted BY <2>1, FS_EmptySet, AxisAssumption DEF Counted, Init
  <2>3. rt \in Frames
    BY PipelineFacts DEF Init, RtAt, Frames, RtPcs
  <2>4. QED BY <2>2, <2>3, PipelineFacts, AxisAssumption DEF Init, TypeInv
<1>2. IndInv /\ TypeInv /\ [Next]_vars => TypeInv'
  <2>1. IndInv /\ TypeInv /\ Next => TypeInv'
    BY RtKeepsTypes, ClientKeepsTypes DEF Next
  <2>2. TypeInv /\ UNCHANGED vars => TypeInv'
    BY DEF TypeInv, Counted, Storers, vars, historyVars
  <2>3. QED BY <2>1, <2>2
<1>3. IndInv /\ TypeInv => TypeOK
  <2> SUFFICES ASSUME IndInv, TypeInv PROVE TypeOK
    OBVIOUS
  <2>1. Cardinality(Storers) \in Nat
    BY FS_CardinalityType DEF TypeInv, Counted
  <2>2. stored \in 0..MaxUpdates
    BY <2>1, AxisAssumption DEF IndInv, Shape, TypeInv, Counted
  <2>3. QED
    BY <2>2 DEF IndInv, Shape, TypeInv, TypeOK, Frames, Locks, Calls
<1>4. QED BY <1>1, <1>2, <1>3, IndInvHolds, PTL DEF Spec
=============================================================================
