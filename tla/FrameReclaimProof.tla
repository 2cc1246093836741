------------------------- MODULE FrameReclaimProof --------------------------
(***************************************************************************)
(* Proofs about FrameReclaim for any set of frames, any number of dropping *)
(* threads and any sufficient queue capacity.                              *)
(*                                                                         *)
(* The inductive invariant is the conjunction of the type invariant, the   *)
(* partition of the frames, the accounting of the counter and NoPanic: the *)
(* partition bounds the queue's population by the number of frames, which  *)
(* is what keeps a push from meeting a full queue.                         *)
(***************************************************************************)
EXTENDS FrameReclaim, FiniteSetTheorems, TLAPS

Inv == TypeOK /\ FrameConservation /\ LenAccounts /\ NoPanic

\* Subsets of the frames and of the dropping threads are finite.
LEMMA Finiteness ==
    ASSUME TypeOK
    PROVE  /\ IsFiniteSet(free) /\ IsFiniteSet(inner) /\ IsFiniteSet(Reserved)
           /\ Cardinality(free) \in Nat
           /\ Cardinality(inner) \in Nat
           /\ Cardinality(Reserved) \in Nat
<1>1. IsFiniteSet(free) /\ IsFiniteSet(inner)
    BY ReclaimAssumption, FS_Subset DEF TypeOK
<1>2. IsFiniteSet(Reserved)
    BY ReclaimAssumption, FS_Subset, Reserved \subseteq Dropper DEF Reserved
<1> QED BY <1>1, <1>2, FS_CardinalityType

\* A new or reset pool satisfies the invariant.
LEMMA InitInv == Init => Inv
<1> SUFFICES ASSUME Init PROVE Inv
    OBVIOUS
<1>1. Reserved = {} /\ InTransit = {}
    BY DEF Init, Reserved, InTransit
<1>2. TypeOK
    BY ReclaimAssumption DEF Init, TypeOK, Ops, Idle
<1>3. FrameConservation
    BY <1>1, ReclaimAssumption DEF Init, FrameConservation
<1>4. LenAccounts
    BY <1>1, FS_EmptySet DEF Init, LenAccounts
<1> QED BY <1>2, <1>3, <1>4 DEF Inv, NoPanic, Init

\* While a dropper holds a frame, the remote queue has room for it: the frame
\* is not among the queue's entries, and the capacity covers all frames.
LEMMA RoomForPush ==
    ASSUME TypeOK, FrameConservation, NEW d \in Dropper, pushing[d] # None
    PROVE  Cardinality(inner) < Capacity
<1>1. pushing[d] \in Frame /\ pushing[d] \notin inner
    BY DEF TypeOK, FrameConservation, Reserved, InTransit
<1>2. /\ IsFiniteSet(inner \cup {pushing[d]})
      /\ Cardinality(inner \cup {pushing[d]}) = Cardinality(inner) + 1
    BY <1>1, Finiteness, FS_AddElement
<1>3. inner \cup {pushing[d]} \subseteq Frame
    BY <1>1 DEF TypeOK
<1>4. Cardinality(inner \cup {pushing[d]}) <= Cardinality(Frame)
    BY <1>3, FS_Subset, ReclaimAssumption
<1>5. Cardinality(Frame) \in Nat /\ Cardinality(inner) \in Nat
    BY ReclaimAssumption, Finiteness, FS_CardinalityType
<1> QED BY <1>2, <1>4, <1>5, ReclaimAssumption

\* A thread that counts its frame keeps the invariant.
LEMMA RemoteReserveInv ==
    ASSUME Inv, NEW d \in Dropper, RemoteReserve(d)
    PROVE  Inv'
<1>1. PICK f \in out : pushing' = [pushing EXCEPT ![d] = f] /\ out' = out \ {f}
    BY DEF RemoteReserve
<1>2. f \in Frame /\ f # None /\ pushing[d] = None
    BY <1>1, ReclaimAssumption DEF Inv, TypeOK, RemoteReserve
<1>3. TypeOK'
    BY <1>1, <1>2 DEF Inv, TypeOK, RemoteReserve
<1>4. Reserved' = Reserved \cup {d} /\ d \notin Reserved
    BY <1>1, <1>2 DEF Inv, TypeOK, Reserved
<1>5. InTransit' = InTransit \cup {f}
    BY <1>1, <1>2, <1>4 DEF Inv, TypeOK, InTransit, Reserved
<1>6. FrameConservation'
  <2>1. /\ (free \cup inner \cup InTransit \cup out = Frame)'
        /\ (free \cap (inner \cup InTransit \cup out) = {})'
        /\ (inner \cap (InTransit \cup out) = {})'
        /\ (InTransit \cap out = {})'
    BY <1>1, <1>5 DEF Inv, FrameConservation, RemoteReserve
  <2>2. ASSUME NEW a \in Reserved', NEW b \in Reserved', pushing'[a] = pushing'[b]
        PROVE  a = b
    <3>1. \A e \in Reserved : pushing[e] # f /\ pushing'[e] = pushing[e]
        BY <1>1, <1>4 DEF Inv, TypeOK, FrameConservation, InTransit, Reserved
    <3>2. pushing'[d] = f
        BY <1>1 DEF Inv, TypeOK
    <3> QED BY <2>2, <3>1, <3>2, <1>4 DEF Inv, FrameConservation
  <2> QED BY <2>1, <2>2 DEF FrameConservation
<1>7. LenAccounts'
  <2>1. Cardinality(Reserved') = Cardinality(Reserved) + 1
    BY <1>4, Finiteness, FS_AddElement DEF Inv
  <2>2. len' = len + 1 /\ inner' = inner /\ drained' = drained
    BY DEF RemoteReserve
  <2> QED BY <2>1, <2>2, Finiteness DEF Inv, LenAccounts, TypeOK
<1> QED BY <1>3, <1>6, <1>7 DEF Inv, NoPanic, RemoteReserve

\* A counted frame reaches the queue and the invariant is kept.
LEMMA RemotePushInv ==
    ASSUME Inv, NEW d \in Dropper, RemotePush(d)
    PROVE  Inv'
<1> DEFINE f == pushing[d]
<1>1. f # None /\ f \in Frame /\ d \in Reserved /\ f \in InTransit
    BY DEF Inv, TypeOK, RemotePush, Reserved, InTransit
<1>2. /\ inner' = inner \cup {f} /\ len' = len /\ panicked' = panicked
      /\ pushing' = [pushing EXCEPT ![d] = None]
      /\ UNCHANGED <<free, out, opc, op, drained>>
    BY RoomForPush, <1>1 DEF RemotePush, Inv
<1>3. TypeOK'
    BY <1>1, <1>2 DEF Inv, TypeOK
<1>4. Reserved' = Reserved \ {d}
    BY <1>1, <1>2 DEF Inv, TypeOK, Reserved
<1>5. \A e \in Reserved \ {d} : pushing'[e] = pushing[e] /\ pushing[e] # f
    BY <1>1, <1>2 DEF Inv, TypeOK, FrameConservation, Reserved
<1>6. InTransit' = InTransit \ {f}
    BY <1>4, <1>5 DEF InTransit
<1>7. f \notin inner
    BY <1>1 DEF Inv, FrameConservation
<1>8. FrameConservation'
  <2>1. /\ (free \cup inner \cup InTransit \cup out = Frame)'
        /\ (free \cap (inner \cup InTransit \cup out) = {})'
        /\ (inner \cap (InTransit \cup out) = {})'
        /\ (InTransit \cap out = {})'
    BY <1>1, <1>2, <1>6 DEF Inv, FrameConservation
  <2>2. ASSUME NEW a \in Reserved', NEW b \in Reserved', pushing'[a] = pushing'[b]
        PROVE  a = b
    BY <2>2, <1>4, <1>5 DEF Inv, FrameConservation
  <2> QED BY <2>1, <2>2 DEF FrameConservation
<1>9. LenAccounts'
  <2>1. Cardinality(inner') = Cardinality(inner) + 1
    BY <1>2, <1>7, Finiteness, FS_AddElement DEF Inv
  <2>2. Cardinality(Reserved') = Cardinality(Reserved) - 1
    BY <1>1, <1>4, Finiteness, FS_RemoveElement DEF Inv
  <2> QED BY <2>1, <2>2, <1>2, Finiteness DEF Inv, LenAccounts, TypeOK
<1> QED BY <1>2, <1>3, <1>8, <1>9 DEF Inv, NoPanic

\* A drop on the owner thread keeps the invariant.
LEMMA LocalPushInv ==
    ASSUME Inv, LocalPush
    PROVE  Inv'
<1>1. PICK f \in out : free' = free \cup {f} /\ out' = out \ {f}
    BY DEF LocalPush
<1>2. Reserved' = Reserved /\ InTransit' = InTransit
    BY DEF LocalPush, Reserved, InTransit
<1>3. TypeOK'
    BY <1>1 DEF Inv, TypeOK, LocalPush
<1>4. FrameConservation'
    BY <1>1, <1>2 DEF Inv, FrameConservation, LocalPush
<1>5. LenAccounts'
    BY <1>2 DEF Inv, LenAccounts, LocalPush
<1> QED BY <1>3, <1>4, <1>5 DEF Inv, NoPanic, LocalPush

\* Entering a call and reading the gate change only the owner's position.
LEMMA CallGateInv ==
    ASSUME Inv, Call \/ Gate
    PROVE  Inv'
<1>1. UNCHANGED <<free, inner, len, pushing, out, drained, panicked>>
    BY DEF Call, Gate
<1>2. Reserved' = Reserved /\ InTransit' = InTransit
    BY <1>1 DEF Reserved, InTransit
<1>3. TypeOK'
    BY <1>1 DEF Inv, TypeOK, Call, Gate
<1>4. FrameConservation' /\ LenAccounts'
    BY <1>1, <1>2 DEF Inv, FrameConservation, LenAccounts
<1> QED BY <1>1, <1>3, <1>4 DEF Inv, NoPanic

\* One pop moves a frame from the queue to the free list.
LEMMA InnerPopInv ==
    ASSUME Inv, InnerPop
    PROVE  Inv'
<1>1. Reserved' = Reserved /\ InTransit' = InTransit
    BY DEF InnerPop, Reserved, InTransit
<1>2. CASE inner = {} /\ UNCHANGED <<free, inner, drained>>
                      /\ opc' = IF drained > 0 THEN "sub" ELSE "finish"
    BY <1>1, <1>2
    DEF Inv, TypeOK, FrameConservation, LenAccounts, NoPanic, InnerPop
<1>3. ASSUME NEW f \in inner,
             inner' = inner \ {f}, free' = free \cup {f},
             drained' = drained + 1, opc' = opc
      PROVE  Inv'
  <2>1. TypeOK'
    BY <1>3 DEF Inv, TypeOK, InnerPop
  <2>2. FrameConservation'
    BY <1>1, <1>3 DEF Inv, TypeOK, FrameConservation, InnerPop
  <2>3. Cardinality(inner') = Cardinality(inner) - 1
    BY <1>3, Finiteness, FS_RemoveElement DEF Inv
  <2>4. LenAccounts'
    BY <1>1, <1>3, <2>3, Finiteness DEF Inv, TypeOK, LenAccounts, InnerPop
  <2> QED BY <2>1, <2>2, <2>4 DEF Inv, NoPanic, InnerPop
<1> QED BY <1>2, <1>3 DEF InnerPop

\* Subtracting what was drained never takes the counter below zero.
LEMMA FetchSubInv ==
    ASSUME Inv, FetchSub
    PROVE  Inv'
<1>1. Reserved' = Reserved /\ InTransit' = InTransit
    BY DEF FetchSub, Reserved, InTransit
<1>2. len' = Cardinality(inner) + Cardinality(Reserved) /\ drained' = 0
    BY Finiteness DEF Inv, TypeOK, LenAccounts, FetchSub
<1>3. TypeOK'
    BY <1>2, Finiteness DEF Inv, TypeOK, FetchSub
<1>4. LenAccounts'
    BY <1>1, <1>2, Finiteness DEF Inv, LenAccounts, FetchSub
<1>5. FrameConservation'
    BY <1>1 DEF Inv, FrameConservation, FetchSub
<1> QED BY <1>3, <1>4, <1>5 DEF Inv, NoPanic, FetchSub

\* A call's end moves frames from the free list out.
LEMMA FinishInv ==
    ASSUME Inv, Finish
    PROVE  Inv'
<1>1. PICK S \in SUBSET free : free' = free \ S /\ out' = out \cup S
    BY DEF Finish
<1>2. Reserved' = Reserved /\ InTransit' = InTransit
    BY DEF Finish, Reserved, InTransit
<1>3. TypeOK'
    BY <1>1 DEF Inv, TypeOK, Finish
<1>4. FrameConservation'
    BY <1>1, <1>2 DEF Inv, FrameConservation, Finish
<1>5. LenAccounts'
    BY <1>2 DEF Inv, LenAccounts, Finish
<1> QED BY <1>3, <1>4, <1>5 DEF Inv, NoPanic, Finish

\* Every step keeps the invariant.
LEMMA StepInv == Inv /\ [Next]_vars => Inv'
<1> SUFFICES ASSUME Inv, [Next]_vars PROVE Inv'
    OBVIOUS
<1>1. CASE UNCHANGED vars
    BY <1>1 DEF vars, Inv, TypeOK, FrameConservation, LenAccounts, NoPanic,
                Reserved, InTransit
<1>2. CASE Owner
    BY <1>2, LocalPushInv, CallGateInv, InnerPopInv, FetchSubInv, FinishInv
    DEF Owner
<1>3. CASE \E d \in Dropper : RemoteReserve(d) \/ RemotePush(d)
    BY <1>3, RemoteReserveInv, RemotePushInv
<1> QED BY <1>1, <1>2, <1>3 DEF Next

\* The parts of the invariant hold in every reachable state.
LEMMA InvariantHolds == Spec => []Inv
<1>1. Init => Inv
    BY InitInv
<1>2. Inv /\ [Next]_vars => Inv'
    BY StepInv
<1> QED BY <1>1, <1>2, PTL DEF Spec

\* The counters and places stay in their types; len never underflows.
THEOREM TypeCorrect == Spec => []TypeOK
<1>1. Inv => TypeOK
    BY DEF Inv
<1> QED BY <1>1, InvariantHolds, PTL

\* However many threads drop buffers, in whatever order their fetch_add and
\* push fall among the owner's gate, pops and fetch_sub, no frame is lost and
\* none is in two places.
THEOREM FramesConserved == Spec => []FrameConservation
<1>1. Inv => FrameConservation
    BY DEF Inv
<1> QED BY <1>1, InvariantHolds, PTL

\* The counter always equals entries, reservations and unsubtracted pops.
THEOREM CounterAccounts == Spec => []LenAccounts
<1>1. Inv => LenAccounts
    BY DEF Inv
<1> QED BY <1>1, InvariantHolds, PTL

\* A remote queue with one entry per frame never fills: push never panics.
THEOREM NeverPanics == Spec => []NoPanic
<1>1. Inv => NoPanic
    BY DEF Inv
<1> QED BY <1>1, InvariantHolds, PTL
\* Free list and remote queue together implement one frame pool: a step of
\* any thread gives a frame back, takes frames that are in, or is invisible.
THEOREM ImplementsPool == Spec => PoolSpec
<1> DEFINE pool == free \cup inner \cup InTransit
<1>1. Init => Pool!Init
    BY DEF Init, Pool!Init, InTransit, Reserved
<1>2. ASSUME Inv, Inv', [Next]_vars
      PROVE  [Pool!Next]_(Pool!vars)
  <2>1. CASE UNCHANGED vars
    BY <2>1 DEF vars, Pool!vars, InTransit, Reserved
  <2>2. CASE LocalPush
    <3>1. PICK f \in out : free' = free \cup {f} /\ out' = out \ {f}
        BY <2>2 DEF LocalPush
    <3>2. InTransit' = InTransit /\ inner' = inner
        BY <2>2 DEF LocalPush, Reserved, InTransit
    <3>3. pool' = pool \cup {f}
        BY <3>1, <3>2
    <3> QED BY <3>1, <3>3 DEF Pool!Next, Pool!Give
  <2>3. CASE Call \/ Gate \/ FetchSub
    BY <2>3 DEF Call, Gate, FetchSub, Pool!vars, InTransit, Reserved
  <2>4. CASE InnerPop
    <3>1. InTransit' = InTransit /\ out' = out
        BY <2>4 DEF InnerPop, Reserved, InTransit
    <3>2. free' \cup inner' = free \cup inner
        BY <2>4 DEF InnerPop
    <3> QED BY <3>1, <3>2 DEF Pool!vars
  <2>5. CASE Finish
    <3>1. PICK S \in SUBSET free : free' = free \ S /\ out' = out \cup S
        BY <2>5 DEF Finish
    <3>2. InTransit' = InTransit /\ inner' = inner
        BY <2>5 DEF Finish, Reserved, InTransit
    <3>3. S \cap (inner \cup InTransit) = {}
        BY <3>1, <1>2 DEF Inv, FrameConservation
    <3>4. pool' = pool \ S /\ S \in SUBSET pool
        BY <3>1, <3>2, <3>3
    <3> QED BY <3>1, <3>4 DEF Pool!Next, Pool!Take
  <2>6. ASSUME NEW d \in Dropper, RemoteReserve(d)
        PROVE  Pool!Next
    <3>1. PICK f \in out : /\ pushing' = [pushing EXCEPT ![d] = f]
                           /\ out' = out \ {f}
        BY <2>6 DEF RemoteReserve
    <3>2. f # None /\ pushing[d] = None
        BY <3>1, <2>6, <1>2, ReclaimAssumption DEF Inv, TypeOK, RemoteReserve
    <3>3. InTransit' = InTransit \cup {f}
        BY <3>1, <3>2, <1>2 DEF Inv, TypeOK, InTransit, Reserved
    <3>4. pool' = pool \cup {f}
        BY <3>3, <2>6 DEF RemoteReserve
    <3> QED BY <3>1, <3>4 DEF Pool!Next, Pool!Give
  <2>7. ASSUME NEW d \in Dropper, RemotePush(d)
        PROVE  UNCHANGED Pool!vars
    <3>1. /\ free \cup inner \cup InTransit = Frame \ out
          /\ (free \cup inner \cup InTransit = Frame \ out)'
        BY <1>2 DEF Inv, FrameConservation
    <3>2. out' = out
        BY <2>7 DEF RemotePush
    <3> QED BY <3>1, <3>2 DEF Pool!vars
  <2> QED BY <1>2, <2>1, <2>2, <2>3, <2>4, <2>5, <2>6, <2>7 DEF Next, Owner
<1> QED BY <1>1, <1>2, InvariantHolds, PTL DEF Spec, PoolSpec, Pool!Spec
=============================================================================
