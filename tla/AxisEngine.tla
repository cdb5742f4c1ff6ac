----------------------------- MODULE AxisEngine -----------------------------
(***************************************************************************)
(* The axis engine (crates/flight-axis/src/engine.rs): one RT thread calls *)
(* process() for every frame while client threads update the pipeline, set *)
(* the capability mode and read the engine's state, through four           *)
(* reader-writer locks.                                                    *)
(*                                                                         *)
(* A client is at one step of one call; a call that has to wait at its     *)
(* first lock is one the client has not made yet.  Pipelines are numbered  *)
(* in the order in which they are stored; what they compute is any output. *)
(* Left out: last_frame, which only the RT thread uses; what the conflict  *)
(* detector and the annotator hold (nobody ever waits for the annotator);  *)
(* the audit flag and the counters no decision depends on.                 *)
(***************************************************************************)
EXTENDS Integers, FiniteSets

CONSTANTS
    Clients,      \* non-RT threads
    RT,           \* the RT thread
    Free,         \* an unlocked lock's writer
    Modes,        \* capability modes in use
    MaxUpdates    \* bound on update_pipeline calls

Limits == [Full |-> 10, Demo |-> 8, Kid |-> 5]   \* max_axis_output, tenths

ASSUME AxisAssumption ==
    /\ RT \notin Clients
    /\ Free \notin Clients \cup {RT}
    /\ Modes \subseteq DOMAIN Limits /\ "Full" \in Modes
    /\ MaxUpdates \in Nat

VARIABLES
    lock,        \* the four locks
    pending,     \* pending_pipeline, or NoPipeline
    active,      \* active_pipeline, or NoPipeline
    swaps,       \* counters.pipeline_swaps, which reset_counters clears
    ack,         \* swap_ack_counter
    mode,        \* capability_context: its mode, which determines the limits
    rt,          \* [pc, staged, out]: process(), the pipeline in its hands
                 \* and the frame's output magnitude in tenths
    cl,          \* [Clients -> [pc, version, mode]]: the client calls
    \* history variables
    stored,      \* pipelines stored so far
    ackAtStore,  \* ack when the last one was stored
    requested,   \* the mode last set
    calm         \* no capability writer has been in since this frame began

historyVars == <<stored, ackAtStore, requested, calm>>
vars == <<lock, pending, active, swaps, ack, mode, rt, cl, historyVars>>

INSTANCE RwLocks

Threads == Clients \cup {RT}
LockNames == {"pending", "active", "capability", "conflict"}
NoPipeline == [seq |-> 0, version |-> 0]
Outputs == {5, 8, 10}

\* Where process() is, the pipeline it holds, and the frame's output.
RtAt(pc, staged, out) == [pc |-> pc, staged |-> staged, out |-> out]

RtPcs == {"idle", "swap", "install", "ack", "count", "run", "clamp", "sample",
          "sampling"}

\* Where a client's call is, the version it compiled, and the mode it sets.
ClientAt(pc, version, m) == [pc |-> pc, version |-> version, mode |-> m]

ClientPcs == {"idle", "store", "storing", "set mode", "set audit",
              "capability mode", "active version", "detect", "detected",
              "get conflicts", "clear"}

Init ==
    /\ lock = [l \in LockNames |-> Unlocked]
    /\ pending = NoPipeline /\ active = NoPipeline
    /\ swaps = 0 /\ ack = 0
    /\ mode = "Full"
    /\ rt = RtAt("idle", NoPipeline, 0)
    /\ cl = [c \in Clients |-> ClientAt("idle", 0, "Full")]
    /\ stored = 0 /\ ackAtStore = 0 /\ requested = "Full" /\ calm = FALSE

-----------------------------------------------------------------------------
(* The RT thread: process() *)

Process ==
    /\ rt.pc = "idle"
    /\ rt' = [rt EXCEPT !.pc = "swap"]
    /\ calm' = (lock["capability"].writer = Free)
    /\ UNCHANGED <<lock, pending, active, swaps, ack, mode, cl, stored,
                   ackAtStore, requested>>

\* Mutant: the pending lock is dropped as soon as the pipeline is taken.
TrySwapEarlyRelease ==
    /\ rt.pc = "swap"
    /\ IF CanWrite(lock["pending"]) /\ pending # NoPipeline
         THEN /\ lock' = [lock EXCEPT !["active"] = AnnounceWrite(@, RT)]
              /\ rt' = RtAt("install", pending, rt.out)
              /\ pending' = NoPipeline
         ELSE /\ rt' = [rt EXCEPT !.pc = "run"]
              /\ UNCHANGED <<lock, pending>>
    /\ UNCHANGED <<active, swaps, ack, mode, cl, historyVars>>

\* Mutant: active is only tried, too, and the pipeline taken is forgotten.
TrySwapForgets ==
    /\ rt.pc = "swap"
    /\ IF CanWrite(lock["pending"]) /\ pending # NoPipeline
         THEN /\ pending' = NoPipeline
              /\ IF CanWrite(lock["active"])
                   THEN /\ lock' = [lock EXCEPT
                                       !["pending"] = AnnounceWrite(@, RT),
                                       !["active"] = AnnounceWrite(@, RT)]
                        /\ rt' = RtAt("install", pending, rt.out)
                   ELSE rt' = [rt EXCEPT !.pc = "run"] /\ UNCHANGED lock
         ELSE /\ rt' = [rt EXCEPT !.pc = "run"]
              /\ UNCHANGED <<lock, pending>>
    /\ UNCHANGED <<active, swaps, ack, mode, cl, historyVars>>

\* try_swap_pipeline: pending is only tried, and it stays locked while
\* active.write() waits for the readers of the active pipeline.
TrySwap ==
    /\ rt.pc = "swap"
    /\ IF CanWrite(lock["pending"]) /\ pending # NoPipeline
         THEN /\ lock' = [lock EXCEPT !["pending"] = AnnounceWrite(@, RT),
                                      !["active"] = AnnounceWrite(@, RT)]
              /\ rt' = RtAt("install", pending, rt.out)
              /\ pending' = NoPipeline
         ELSE /\ rt' = [rt EXCEPT !.pc = "run"]
              /\ UNCHANGED <<lock, pending>>
    /\ UNCHANGED <<active, swaps, ack, mode, cl, historyVars>>

Install ==
    /\ rt.pc = "install"
    /\ Exclusive(lock["active"], RT)
    /\ active' = rt.staged
    /\ lock' = [lock EXCEPT !["active"] = WriteUnlock(@)]
    /\ rt' = RtAt("ack", NoPipeline, rt.out)
    /\ UNCHANGED <<pending, swaps, ack, mode, cl, historyVars>>

Acknowledge ==
    /\ rt.pc = "ack"
    /\ ack' = ack + 1
    /\ rt' = [rt EXCEPT !.pc = "count"]
    /\ UNCHANGED <<lock, pending, active, swaps, mode, cl, historyVars>>

\* The end of try_swap_pipeline drops the pending lock.
CountSwap ==
    /\ rt.pc = "count"
    /\ swaps' = swaps + 1
    /\ lock' = [lock EXCEPT !["pending"] = WriteUnlock(@)]
    /\ rt' = [rt EXCEPT !.pc = "run"]
    /\ UNCHANGED <<pending, active, ack, mode, cl, historyVars>>

\* The active pipeline, or the frame passed through, yields any output.
Run(out) ==
    /\ rt.pc = "run"
    /\ rt' = RtAt("clamp", rt.staged, out)
    /\ UNCHANGED <<lock, pending, active, swaps, ack, mode, cl, historyVars>>

\* apply_capability_clamps: without the context the frame goes unclamped.
Clamp ==
    /\ rt.pc = "clamp"
    /\ rt' = RtAt("sample", rt.staged,
                  IF CanRead(lock["capability"]) /\ rt.out > Limits[mode]
                    THEN Limits[mode] ELSE rt.out)
    /\ UNCHANGED <<lock, pending, active, swaps, ack, mode, cl, historyVars>>

\* The conflict detector is fed if nobody holds it.
Sample ==
    /\ rt.pc = "sample"
    /\ IF CanWrite(lock["conflict"])
         THEN /\ lock' = [lock EXCEPT !["conflict"] = AnnounceWrite(@, RT)]
              /\ rt' = [rt EXCEPT !.pc = "sampling"]
         ELSE /\ rt' = RtAt("idle", rt.staged, 0)
              /\ UNCHANGED lock
    /\ UNCHANGED <<pending, active, swaps, ack, mode, cl, historyVars>>

SampleDone ==
    /\ rt.pc = "sampling"
    /\ lock' = [lock EXCEPT !["conflict"] = WriteUnlock(@)]
    /\ rt' = RtAt("idle", rt.staged, 0)
    /\ UNCHANGED <<pending, active, swaps, ack, mode, cl, historyVars>>

-----------------------------------------------------------------------------
(* Clients: update_pipeline and reset_counters *)

To(c, pc) == cl' = [cl EXCEPT ![c].pc = pc]

\* Mutant: the version does not start at one.
CompileSameVersion(c) ==
    /\ cl[c].pc = "idle"
    /\ stored + Cardinality({d \in Clients : cl[d].pc \in {"store", "storing"}})
         < MaxUpdates
    /\ cl' = [cl EXCEPT ![c] = ClientAt("store", swaps, "Full")]
    /\ UNCHANGED <<lock, pending, active, swaps, ack, mode, rt, historyVars>>

\* compile_and_validate of a valid pipeline; an invalid one is refused here
\* and changes nothing.
Compile(c) ==
    /\ cl[c].pc = "idle"
    /\ stored + Cardinality({d \in Clients : cl[d].pc \in {"store", "storing"}})
         < MaxUpdates
    /\ cl' = [cl EXCEPT ![c] = ClientAt("store", swaps + 1, "Full")]
    /\ UNCHANGED <<lock, pending, active, swaps, ack, mode, rt, historyVars>>

LockPending(c) ==
    /\ cl[c].pc = "store"
    /\ CanWrite(lock["pending"])
    /\ lock' = [lock EXCEPT !["pending"] = AnnounceWrite(@, c)]
    /\ To(c, "storing")
    /\ UNCHANGED <<pending, active, swaps, ack, mode, rt, historyVars>>

\* Mutant: a pipeline already waiting is kept.
StoreFirstWins(c) ==
    /\ cl[c].pc = "storing"
    /\ pending' = IF pending = NoPipeline
                    THEN [seq |-> stored + 1, version |-> cl[c].version]
                    ELSE pending
    /\ lock' = [lock EXCEPT !["pending"] = WriteUnlock(@)]
    /\ cl' = [cl EXCEPT ![c] = ClientAt("idle", 0, "Full")]
    /\ stored' = stored + 1
    /\ ackAtStore' = ack
    /\ UNCHANGED <<active, swaps, ack, mode, rt, requested, calm>>

\* A pipeline still waiting is overwritten.
Store(c) ==
    /\ cl[c].pc = "storing"
    /\ pending' = [seq |-> stored + 1, version |-> cl[c].version]
    /\ lock' = [lock EXCEPT !["pending"] = WriteUnlock(@)]
    /\ cl' = [cl EXCEPT ![c] = ClientAt("idle", 0, "Full")]
    /\ stored' = stored + 1
    /\ ackAtStore' = ack
    /\ UNCHANGED <<active, swaps, ack, mode, rt, requested, calm>>

ResetCounters(c) ==
    /\ cl[c].pc = "idle"
    /\ swaps' = 0
    /\ UNCHANGED <<lock, pending, active, ack, mode, rt, cl, historyVars>>

-----------------------------------------------------------------------------
(* Clients: capability mode *)

LockCapability(c, pc, m) ==
    /\ cl[c].pc = "idle"
    /\ CanRead(lock["capability"])
    /\ lock' = [lock EXCEPT !["capability"] = AnnounceWrite(@, c)]
    /\ cl' = [cl EXCEPT ![c] = ClientAt(pc, 0, m)]
    /\ calm' = FALSE
    /\ UNCHANGED <<pending, active, swaps, ack, mode, rt, stored, ackAtStore,
                   requested>>

SetMode(c) ==
    /\ cl[c].pc = "set mode"
    /\ Exclusive(lock["capability"], c)
    /\ mode' = cl[c].mode
    /\ requested' = cl[c].mode
    /\ lock' = [lock EXCEPT !["capability"] = WriteUnlock(@)]
    /\ cl' = [cl EXCEPT ![c] = ClientAt("idle", 0, "Full")]
    /\ UNCHANGED <<pending, active, swaps, ack, rt, stored, ackAtStore, calm>>

\* Mutant: the context is built anew to change its audit flag.
SetAuditRebuilds(c) ==
    /\ cl[c].pc = "set audit"
    /\ Exclusive(lock["capability"], c)
    /\ mode' = "Full"
    /\ lock' = [lock EXCEPT !["capability"] = WriteUnlock(@)]
    /\ To(c, "idle")
    /\ UNCHANGED <<pending, active, swaps, ack, rt, historyVars>>

\* set_capability_audit_enabled takes the same lock and leaves the limits.
SetAudit(c) ==
    /\ cl[c].pc = "set audit"
    /\ Exclusive(lock["capability"], c)
    /\ lock' = [lock EXCEPT !["capability"] = WriteUnlock(@)]
    /\ To(c, "idle")
    /\ UNCHANGED <<pending, active, swaps, ack, mode, rt, historyVars>>

-----------------------------------------------------------------------------
(* Clients: readers *)

\* A call that reads under the lock l, at pc while it holds it.
BeginRead(c, l, pc) ==
    /\ cl[c].pc = "idle"
    /\ CanRead(lock[l])
    /\ lock' = [lock EXCEPT ![l] = ReadLock(@, c)]
    /\ To(c, pc)
    /\ UNCHANGED <<pending, active, swaps, ack, mode, rt, historyVars>>

EndRead(c, l, pc) ==
    /\ cl[c].pc = pc
    /\ lock' = [lock EXCEPT ![l] = ReadUnlock(@, c)]
    /\ To(c, "idle")
    /\ UNCHANGED <<pending, active, swaps, ack, mode, rt, historyVars>>

\* Mutant: the active pipeline is read a second time inside the call.
DetectRereads(c) ==
    /\ cl[c].pc = "detect"
    /\ CanRead(lock["active"])
    /\ IF active = NoPipeline
         THEN /\ lock' = [lock EXCEPT !["active"] = ReadUnlock(@, c)]
              /\ To(c, "idle")
         ELSE /\ CanRead(lock["conflict"])
              /\ lock' = [lock EXCEPT !["conflict"] = ReadLock(@, c)]
              /\ To(c, "detected")
    /\ UNCHANGED <<pending, active, swaps, ack, mode, rt, historyVars>>

\* detect_conflicts_now asks for the conflicts while it holds the active
\* pipeline.
Detect(c) ==
    /\ cl[c].pc = "detect"
    /\ IF active = NoPipeline
         THEN /\ lock' = [lock EXCEPT !["active"] = ReadUnlock(@, c)]
              /\ To(c, "idle")
         ELSE /\ CanRead(lock["conflict"])
              /\ lock' = [lock EXCEPT !["conflict"] = ReadLock(@, c)]
              /\ To(c, "detected")
    /\ UNCHANGED <<pending, active, swaps, ack, mode, rt, historyVars>>

Detected(c) ==
    /\ cl[c].pc = "detected"
    /\ lock' = [lock EXCEPT !["conflict"] = ReadUnlock(@, c),
                            !["active"] = ReadUnlock(@, c)]
    /\ To(c, "idle")
    /\ UNCHANGED <<pending, active, swaps, ack, mode, rt, historyVars>>

LockConflicts(c) ==
    /\ cl[c].pc = "idle"
    /\ CanRead(lock["conflict"])
    /\ lock' = [lock EXCEPT !["conflict"] = AnnounceWrite(@, c)]
    /\ To(c, "clear")
    /\ UNCHANGED <<pending, active, swaps, ack, mode, rt, historyVars>>

ClearConflicts(c) ==
    /\ cl[c].pc = "clear"
    /\ Exclusive(lock["conflict"], c)
    /\ lock' = [lock EXCEPT !["conflict"] = WriteUnlock(@)]
    /\ To(c, "idle")
    /\ UNCHANGED <<pending, active, swaps, ack, mode, rt, historyVars>>

-----------------------------------------------------------------------------
RtStep ==
    \/ TrySwap
    \/ Install
    \/ Acknowledge
    \/ CountSwap
    \/ \E out \in Outputs : Run(out)
    \/ Clamp
    \/ Sample
    \/ SampleDone

\* The first step of a call, which a client may make or not.
Call(c) ==
    \/ Compile(c)
    \/ ResetCounters(c)
    \/ \E m \in Modes : LockCapability(c, "set mode", m)
    \/ LockCapability(c, "set audit", "Full")
    \/ BeginRead(c, "capability", "capability mode")
    \/ BeginRead(c, "active", "active version")
    \/ BeginRead(c, "active", "detect")
    \/ BeginRead(c, "conflict", "get conflicts")
    \/ LockConflicts(c)

\* The steps that carry a call to its end.
Continue(c) ==
    \/ LockPending(c)
    \/ Store(c)
    \/ SetMode(c)
    \/ SetAudit(c)
    \/ EndRead(c, "capability", "capability mode")
    \/ EndRead(c, "active", "active version")
    \/ Detect(c)
    \/ Detected(c)
    \/ EndRead(c, "conflict", "get conflicts")
    \/ ClearConflicts(c)

Next ==
    \/ Process
    \/ RtStep
    \/ \E c \in Clients : Call(c) \/ Continue(c)

\* The RT loop is scheduled and calls process() at every tick, and a client
\* inside a call is scheduled too; parking_lot hands a contended lock to the
\* thread that waits for it in the end.  Nothing makes a client start a call.
Fairness ==
    /\ WF_vars(Process)
    /\ WF_vars(RtStep)
    /\ \A c \in Clients : SF_vars(Continue(c))

Spec == Init /\ [][Next]_vars

FairSpec == Spec /\ Fairness

-----------------------------------------------------------------------------
(* Properties *)

Pipelines == [seq : 1 .. MaxUpdates, version : Nat \ {0}] \cup {NoPipeline}

TypeOK ==
    /\ lock \in [LockNames -> [writer : Threads \cup {Free},
                               readers : SUBSET Threads]]
    /\ pending \in Pipelines
    /\ active \in Pipelines
    /\ swaps \in Nat
    /\ ack \in Nat
    /\ mode \in Modes
    /\ rt \in [pc : RtPcs, staged : Pipelines, out : Outputs \cup {0}]
    /\ cl \in [Clients -> [pc : ClientPcs, version : Nat, mode : Modes]]
    /\ stored \in 0 .. MaxUpdates
    /\ ackAtStore \in Nat
    /\ requested \in Modes
    /\ calm \in BOOLEAN

Slot == INSTANCE PipelineSlot WITH latest <- stored, current <- active.seq

\* Pipeline updates implement PipelineSlot: the RT thread installs the update
\* stored last and no other, although it takes it out of the pending slot long
\* before it gets the active one.
RefinesSlot == Slot!Spec

\* The acknowledgment means what a client takes it for: once swap_ack_count has
\* moved on since the last update_pipeline returned, that update is active.
AckConfirms == ack > ackAtStore => active.seq = stored

\* A frame during which nobody was changing the capability context leaves the
\* clamp within the limit of the mode last set, whatever else was called.
LimitHolds ==
    rt.pc \in {"sample", "sampling"} /\ calm => rt.out <= Limits[requested]

\* Every update becomes active or is superseded by a later one, although the
\* RT thread gives up whenever the pending slot is taken.
LatestUpdateWins ==
    \A n \in 1 .. MaxUpdates :
        (stored = n) ~> (active.seq = n \/ stored > n)

\* Every frame is finished as long as the clients inside a call keep running:
\* nobody waits in a circle, although process() waits for the readers of the
\* active pipeline, one of these for the conflict detector, and update_pipeline
\* for process().
ProcessReturns == (rt.pc # "idle") ~> (rt.pc = "idle")

=============================================================================
