---------------------------- MODULE FrameReclaim ----------------------------
(***************************************************************************)
(* FrameReclaim of buffer.rs: the free list a queue's owner thread uses    *)
(* without synchronisation, and the bounded MPSC queue through which every *)
(* other thread returns the frames of the buffers it drops.                *)
(*                                                                         *)
(* A step is one access to shared memory: the fetch_add, the inner push,   *)
(* the gate's load, one inner pop, the fetch_sub.  The free list is        *)
(* private to the owner, so what happens to it between two such accesses   *)
(* is part of the same step.  ArrayQueue push and pop are linearizable.    *)
(***************************************************************************)
EXTENDS Integers, FiniteSets

CONSTANTS
    Frame,        \* the frames of the pool
    InitFree,     \* frames on the free list at construction: all for a TX
                  \* pool, none for an RX pool (they start in the FILL ring)
    Capacity,     \* remote queue capacity
    Dropper,      \* threads other than the owner that drop buffers
    None

\* FrameReclaim::new sizes the remote queue from frames.capacity().
ASSUME ReclaimAssumption ==
    /\ IsFiniteSet(Frame)
    /\ InitFree \subseteq Frame
    /\ Capacity \in Nat /\ Capacity >= Cardinality(Frame)
    /\ IsFiniteSet(Dropper)
    /\ None \notin Frame

VARIABLES
    free,        \* FrameReclaim.free
    inner,       \* MpscQueue.inner
    len,         \* MpscQueue.len
    pushing,     \* the frame each dropper has counted and not pushed yet
    out,         \* frames in buffers, in a ring or with the kernel
    opc,         \* where the owner is in its call
    op,          \* the owner's call
    drained,     \* MpscQueue::drain_into's local count
    panicked

vars == <<free, inner, len, pushing, out, opc, op, drained, panicked>>

\* pop is pop_many_with of one frame; pop_many_try_with and
\* prepare_endpoint_batch ("prepare") leave frames behind when they fail;
\* drain_into takes everything; is_empty takes nothing.
Ops ==
    [kind : {"pop_many", "prepare"}, max : 1 .. Cardinality(Frame)]
        \cup [kind : {"is_empty", "drain_into"}, max : {0}]

Idle == [kind |-> "is_empty", max |-> 0]

Init ==
    /\ free = InitFree
    /\ inner = {}
    /\ len = 0
    /\ pushing = [d \in Dropper |-> None]
    /\ out = Frame \ InitFree
    /\ opc = "idle"
    /\ op = Idle
    /\ drained = 0
    /\ panicked = FALSE

-----------------------------------------------------------------------------
(* Threads that drop a buffer they do not own the pool of.                 *)

\* Mutant of RemoteReserve: the counter is not touched before the push.
RemoteReserveUncounted(d) ==
    /\ pushing[d] = None
    /\ \E f \in out :
        /\ pushing' = [pushing EXCEPT ![d] = f]
        /\ out' = out \ {f}
    /\ UNCHANGED <<free, inner, len, opc, op, drained, panicked>>

\* MpscQueue::push, len.fetch_add
RemoteReserve(d) ==
    /\ pushing[d] = None
    /\ \E f \in out :
        /\ pushing' = [pushing EXCEPT ![d] = f]
        /\ out' = out \ {f}
    /\ len' = len + 1
    /\ UNCHANGED <<free, inner, opc, op, drained, panicked>>

\* Mutant of RemotePush: a full queue is found one entry early.
RemotePushOneEarly(d) ==
    /\ pushing[d] # None
    /\ IF Cardinality(inner) + 1 < Capacity
       THEN /\ inner' = inner \cup {pushing[d]}
            /\ UNCHANGED <<len, panicked>>
       ELSE /\ len' = len - 1
            /\ panicked' = TRUE
            /\ UNCHANGED inner
    /\ pushing' = [pushing EXCEPT ![d] = None]
    /\ UNCHANGED <<free, out, opc, op, drained>>

\* MpscQueue::push, inner.push: a full queue panics and loses the frame
RemotePush(d) ==
    /\ pushing[d] # None
    /\ IF Cardinality(inner) < Capacity
       THEN /\ inner' = inner \cup {pushing[d]}
            /\ UNCHANGED <<len, panicked>>
       ELSE /\ len' = len - 1
            /\ panicked' = TRUE
            /\ UNCHANGED inner
    /\ pushing' = [pushing EXCEPT ![d] = None]
    /\ UNCHANGED <<free, out, opc, op, drained>>

-----------------------------------------------------------------------------
(* The owner thread.                                                       *)

\* push on the owner thread
LocalPush ==
    /\ opc = "idle"
    /\ \E f \in out :
        /\ free' = free \cup {f}
        /\ out' = out \ {f}
    /\ UNCHANGED <<inner, len, pushing, opc, op, drained, panicked>>

\* Does the call drain the remote queue first?
WantsDrain(o) ==
    CASE o.kind \in {"pop_many", "prepare"} -> Cardinality(free) < o.max
      [] o.kind = "is_empty"   -> free = {}
      [] o.kind = "drain_into" -> TRUE

\* Each of the calls, up to the gate
Call ==
    /\ opc = "idle"
    /\ \E o \in Ops :
        /\ op' = o
        /\ opc' = IF WantsDrain(o) THEN "gate" ELSE "finish"
    /\ UNCHANGED <<free, inner, len, pushing, out, drained, panicked>>

\* drain_remote: len.load
Gate ==
    /\ opc = "gate"
    /\ opc' = IF len = 0 THEN "finish" ELSE "pop"
    /\ UNCHANGED <<free, inner, len, pushing, out, op, drained, panicked>>

\* Mutant of InnerPop: the popped frame is left in the queue.
InnerPopPeeks ==
    /\ opc = "pop"
    /\ \/ \E f \in inner :
           /\ free' = free \cup {f}
           /\ drained' = drained + 1
           /\ UNCHANGED <<inner, opc>>
       \/ /\ inner = {}
          /\ opc' = IF drained > 0 THEN "sub" ELSE "finish"
          /\ UNCHANGED <<free, inner, drained>>
    /\ UNCHANGED <<len, pushing, out, op, panicked>>

\* MpscQueue::drain_into, one inner.pop
InnerPop ==
    /\ opc = "pop"
    /\ \/ \E f \in inner :
           /\ inner' = inner \ {f}
           /\ free' = free \cup {f}
           /\ drained' = drained + 1
           /\ UNCHANGED opc
       \/ /\ inner = {}
          /\ opc' = IF drained > 0 THEN "sub" ELSE "finish"
          /\ UNCHANGED <<free, inner, drained>>
    /\ UNCHANGED <<len, pushing, out, op, panicked>>

\* Mutant of FetchSub: the counter is cleared instead.
FetchSubClears ==
    /\ opc = "sub"
    /\ len' = 0
    /\ drained' = 0
    /\ opc' = "finish"
    /\ UNCHANGED <<free, inner, pushing, out, op, panicked>>

\* Mutant of FetchSub: one more than was drained.
FetchSubOneMore ==
    /\ opc = "sub"
    /\ len' = len - (drained + 1)
    /\ drained' = 0
    /\ opc' = "finish"
    /\ UNCHANGED <<free, inner, pushing, out, op, panicked>>

\* MpscQueue::drain_into, len.fetch_sub
FetchSub ==
    /\ opc = "sub"
    /\ len' = len - drained
    /\ drained' = 0
    /\ opc' = "finish"
    /\ UNCHANGED <<free, inner, pushing, out, op, panicked>>

\* How many frames the call may take off the free list.
Takes(o) ==
    LET count == IF o.max < Cardinality(free) THEN o.max ELSE Cardinality(free)
    IN CASE o.kind = "pop_many"   -> {count}
         [] o.kind = "prepare"    -> 0 .. count
         [] o.kind = "is_empty"   -> {0}
         [] o.kind = "drain_into" -> {Cardinality(free)}

\* Mutant of Finish: the frames handed out stay on the free list.
FinishCopies ==
    /\ opc = "finish"
    /\ \E S \in SUBSET free :
        /\ Cardinality(S) \in Takes(op)
        /\ out' = out \cup S
    /\ opc' = "idle"
    /\ op' = Idle
    /\ UNCHANGED <<free, inner, len, pushing, drained, panicked>>

\* The rest of the call: free.pop() count times, or out.append(free)
Finish ==
    /\ opc = "finish"
    /\ \E S \in SUBSET free :
        /\ Cardinality(S) \in Takes(op)
        /\ free' = free \ S
        /\ out' = out \cup S
    /\ opc' = "idle"
    /\ op' = Idle
    /\ UNCHANGED <<inner, len, pushing, drained, panicked>>

Owner == LocalPush \/ Call \/ Gate \/ InnerPop \/ FetchSub \/ Finish

Next == Owner \/ \E d \in Dropper : RemoteReserve(d) \/ RemotePush(d)

Spec == Init /\ [][Next]_vars

\* Every thread that has started a step of a call finishes it, and the owner
\* comes back to drain_into: the RX path calls it from every recv.
DrainCall == Call /\ op'.kind = "drain_into"

FairSpec ==
    /\ Spec
    /\ WF_vars(Gate \/ InnerPop \/ FetchSub \/ Finish)
    /\ SF_vars(DrainCall)
    /\ \A d \in Dropper : WF_vars(RemotePush(d))

-----------------------------------------------------------------------------

\* The frames droppers have counted and not pushed.
Reserved == {d \in Dropper : pushing[d] # None}
InTransit == {pushing[d] : d \in Reserved}

\* Frames are in the lists, the remote counter is a count and does not wrap
\* below zero, and the owner is inside one of its calls.
TypeOK ==
    /\ free \in SUBSET Frame
    /\ inner \in SUBSET Frame
    /\ len \in Nat
    /\ pushing \in [Dropper -> Frame \cup {None}]
    /\ out \in SUBSET Frame
    /\ opc \in {"idle", "gate", "pop", "sub", "finish"}
    /\ op \in Ops \cup {Idle}
    /\ drained \in Nat
    /\ panicked \in BOOLEAN

\* A frame is in exactly one place: the owner's free list, the remote queue,
\* the hands of one dropping thread, or out.  A buffer dropped on any thread
\* is neither lost nor handed out twice.
FrameConservation ==
    /\ free \cup inner \cup InTransit \cup out = Frame
    /\ free \cap (inner \cup InTransit \cup out) = {}
    /\ inner \cap (InTransit \cup out) = {}
    /\ InTransit \cap out = {}
    /\ \A d, e \in Reserved : pushing[d] = pushing[e] => d = e

\* The counter is the number of entries in the queue, plus the pushes that
\* have reserved a slot and not reached the queue, plus the pops the drain in
\* progress has not subtracted yet.  So it never underflows, and the gate
\* reads zero only when the queue is empty: no returned frame is overlooked.
LenAccounts == len = Cardinality(inner) + Cardinality(Reserved) + drained

\* No drop meets a full remote queue ("capacity must cover all in-flight
\* buffers").
NoPanic == ~panicked

\* A frame dropped by another thread gets back to the owner.
RemoteReturns ==
    \A f \in Frame : (f \in inner \cup InTransit) ~> (f \in free)

Pool == INSTANCE FramePool WITH pool <- free \cup inner \cup InTransit

\* The free list and the remote queue together are one frame pool: calls
\* hand out only frames that have come back.
PoolSpec == Pool!Spec
=============================================================================
