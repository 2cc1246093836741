-------------------------- MODULE RouteMonitorProof --------------------------
(***************************************************************************)
(* Proofs about RouteMonitor, for any number of publishers and queues, any *)
(* routing facts and any resolution: what matters is that a queue's        *)
(* generation moves with every snapshot it adopts.                         *)
(***************************************************************************)
EXTENDS RouteMonitor, SequenceTheorems, TLAPS

\* A sequence, whatever its elements are.
IsSequence(s) == s \in Seq({s[i] : i \in DOMAIN s})

\* The part of the state the endpoints depend on.
QueueType ==
    /\ generation \in [Queues -> Nat]
    /\ DOMAIN snapshot = Queues
    /\ DOMAIN endpoint = Queues
    /\ DOMAIN pending = Queues
    /\ \A q \in Queues : IsSequence(pending[q])
    /\ \A q \in Queues : \A cached \in endpoint[q] : \A c \in cached :
          c.route_generation \in Nat

FreshInv == QueueType /\ EndpointFresh

\* Appending gives a sequence that is not empty.
LEMMA AppendIsSequence ==
    ASSUME NEW s, NEW x, IsSequence(s)
    PROVE  IsSequence(Append(s, x)) /\ Len(Append(s, x)) \in Nat \ {0}
<1> DEFINE S == {s[i] : i \in DOMAIN s}
           T == S \cup {x}
<1>1. s \in Seq(S) BY DEF IsSequence
<1>2. s \in Seq(T) /\ x \in T BY <1>1, SeqDef
<1>3. Append(s, x) \in Seq(T) /\ Len(Append(s, x)) = Len(s) + 1 BY <1>2
<1> HIDE DEF T
<1>4. Append(s, x) \in Seq({Append(s, x)[i] : i \in DOMAIN Append(s, x)}) BY <1>3
<1> QED BY <1>2, <1>3, <1>4 DEF IsSequence

\* A sequence with an element has a positive length.
LEMMA LenPositive ==
    ASSUME NEW s, IsSequence(s), s # <<>>
    PROVE  Len(s) \in Nat \ {0}
BY DEF IsSequence

\* The header a queue would resolve now depends on its snapshot and its
\* generation alone.
LEMMA CacheFrame ==
    ASSUME NEW q \in Queues,
           snapshot'[q] = snapshot[q], generation'[q] = generation[q]
    PROVE  EndpointCache(q)' = EndpointCache(q)
BY DEF EndpointCache

\* Adopting updates moves the generation, and only the queue's own.
LEMMA AdoptedMoves ==
    ASSUME QueueType, NEW q \in Queues, NEW updates, Len(updates) \in Nat \ {0},
           Adopted(q, updates)
    PROVE  /\ generation' \in [Queues -> Nat]
           /\ generation'[q] > generation[q]
           /\ \A r \in Queues \ {q} :
                 snapshot'[r] = snapshot[r] /\ generation'[r] = generation[r]
           /\ DOMAIN snapshot' = Queues /\ DOMAIN pending' = Queues
           /\ \A r \in Queues : IsSequence(pending'[r])
BY DEF QueueType, Adopted, IsSequence

\* Adopting updates leaves every cached header older than its queue or right.
LEMMA AdoptedFresh ==
    ASSUME FreshInv, NEW q \in Queues, NEW updates, Len(updates) \in Nat \ {0},
           Adopted(q, updates), UNCHANGED endpoint
    PROVE  FreshInv'
<1> USE DEF FreshInv
<1>1. QueueType' BY AdoptedMoves DEF QueueType
<1>2. EndpointFresh'
  <2> SUFFICES ASSUME NEW r \in Queues, NEW cached \in endpoint[r], NEW c \in cached
               PROVE  /\ c.route_generation <= generation'[r]
                      /\ c.route_generation = generation'[r] => cached = EndpointCache(r)'
    BY DEF EndpointFresh
  <2>1. /\ c.route_generation <= generation[r]
        /\ c.route_generation = generation[r] => cached = EndpointCache(r)
    BY DEF EndpointFresh
  <2>2. c.route_generation \in Nat /\ generation[r] \in Nat /\ generation'[r] \in Nat
    BY <1>1 DEF QueueType
  <2>3. CASE r = q BY <2>1, <2>2, <2>3, AdoptedMoves
  <2>4. CASE r # q BY <2>1, <2>4, AdoptedMoves, CacheFrame
  <2> QED BY <2>3, <2>4
<1> QED BY <1>1, <1>2

\* What a send or a prepare leaves in the endpoint of its queue.
LEMMA RefreshedFresh ==
    ASSUME FreshInv, NEW q \in Queues, NEW cached,
           cached = EndpointCache(q) \/ cached \in endpoint[q],
           endpoint' = [endpoint EXCEPT ![q] = {cached}],
           UNCHANGED <<snapshot, pending, generation>>
    PROVE  FreshInv'
<1> USE DEF FreshInv
<1>0. \A c \in EndpointCache(q) : c.route_generation = generation[q]
  BY DEF EndpointCache
<1>1. QueueType'
  BY <1>0 DEF QueueType, EndpointFresh
<1>2. EndpointFresh'
  <2> SUFFICES ASSUME NEW r \in Queues, NEW hdr \in endpoint'[r], NEW c \in hdr
               PROVE  /\ c.route_generation <= generation[r]
                      /\ c.route_generation = generation[r] => hdr = EndpointCache(r)'
    BY DEF EndpointFresh
  <2>0. EndpointCache(r)' = EndpointCache(r) BY CacheFrame
  <2>1. CASE hdr \in endpoint[r] BY <2>0, <2>1 DEF EndpointFresh
  <2>2. CASE r = q /\ hdr = EndpointCache(q) BY <2>0, <2>2, <1>0 DEF QueueType
  <2> QED BY <2>1, <2>2 DEF QueueType
<1> QED BY <1>1, <1>2

\* Steps that touch no table, generation or endpoint keep the invariant.
LEMMA FrameFresh ==
    ASSUME FreshInv, UNCHANGED <<snapshot, generation, endpoint>>,
           DOMAIN pending' = Queues, \A q \in Queues : IsSequence(pending'[q])
    PROVE  FreshInv'
<1>1. \A q \in Queues : EndpointCache(q)' = EndpointCache(q) BY CacheFrame
<1> QED BY <1>1 DEF FreshInv, QueueType, EndpointFresh

\* The invariant holds in the beginning, when nothing is cached.
LEMMA FreshInit == Init => FreshInv
BY DEF Init, FreshInv, QueueType, EndpointFresh, IsSequence, None

\* Every step of a publisher or a queue keeps it.
LEMMA FreshStep == FreshInv /\ [Next]_vars => FreshInv'
<1> SUFFICES ASSUME FreshInv, [Next]_vars PROVE FreshInv'
  OBVIOUS
<1>1. ASSUME NEW p \in Publishers, Publisher(p) PROVE FreshInv'
  <2>1. UNCHANGED <<snapshot, pending, generation, endpoint>>
    BY <1>1 DEF Publisher, UpsertRoute, UpsertNeighbor, UpsertInterface, FromNetlink,
                Upserts, Drafts, Publish, Stamp, Store
  <2> QED BY <2>1, FrameFresh DEF FreshInv, QueueType
<1>2. ASSUME NEW q \in Queues, PushUpdate(q) PROVE FreshInv'
  <2>1. PICK s : pending' = [pending EXCEPT ![q] = Append(@, s)]
    BY <1>2 DEF PushUpdate
  <2>2. \A r \in Queues : IsSequence(pending'[r])
    BY <2>1, AppendIsSequence DEF FreshInv, QueueType
  <2> QED BY <1>2, <2>1, <2>2, FrameFresh DEF PushUpdate, FreshInv, QueueType
<1>3. ASSUME NEW q \in Queues, ApplyRouteUpdates(q) PROVE FreshInv'
  <2>1. Len(pending[q]) \in Nat \ {0}
    BY <1>3, LenPositive DEF ApplyRouteUpdates, FreshInv, QueueType
  <2> QED BY <1>3, <2>1, AdoptedFresh DEF ApplyRouteUpdates
<1>4. ASSUME NEW q \in Queues, ApplyUpdates(q) PROVE FreshInv'
  <2>1. CASE UNCHANGED vars
    BY <2>1, FrameFresh DEF vars, FreshInv, QueueType
  <2>2. CASE \E v \in Unseen(q) :
               Adopted(q, Append(pending[q], v.snapshot)) /\ UNCHANGED endpoint
    <3>1. PICK v \in Unseen(q) :
             Adopted(q, Append(pending[q], v.snapshot)) /\ UNCHANGED endpoint
      BY <2>2
    <3>2. Len(Append(pending[q], v.snapshot)) \in Nat \ {0}
      BY AppendIsSequence DEF FreshInv, QueueType
    <3> QED BY <3>1, <3>2, AdoptedFresh
  <2> QED BY <1>4, <2>1, <2>2 DEF ApplyUpdates
<1>5. ASSUME NEW q \in Queues, PrepareEndpoint(q) PROVE FreshInv'
  BY <1>5, RefreshedFresh DEF PrepareEndpoint
<1>6. ASSUME NEW q \in Queues, SendToEndpoint(q) PROVE FreshInv'
  <2>1. The(endpoint[q]) \in endpoint[q]
    BY <1>6 DEF SendToEndpoint, The, None
  <2>2. endpoint' = [endpoint EXCEPT ![q] = {Refreshed(q, The(endpoint[q]))}]
    BY <1>6 DEF SendToEndpoint
  <2>3. \/ Refreshed(q, The(endpoint[q])) = EndpointCache(q)
        \/ Refreshed(q, The(endpoint[q])) \in endpoint[q]
    BY <2>1 DEF Refreshed
  <2> QED BY <1>6, <2>2, <2>3, RefreshedFresh DEF SendToEndpoint
<1>7. CASE UNCHANGED vars
  BY <1>7, FrameFresh DEF vars, FreshInv, QueueType
<1> QED BY <1>1, <1>2, <1>3, <1>4, <1>5, <1>6, <1>7 DEF Next, Queue

\* A cached endpoint header that passes the generation check of a send is the
\* one the queue's current snapshot resolves to (refresh_udp_endpoint_cache,
\* XdpLocalRoutes::apply_updates), for any routes and any number of queues.
THEOREM EndpointsFresh == Spec => []EndpointFresh
<1>1. FreshInv => EndpointFresh BY DEF FreshInv
<1> QED BY FreshInit, FreshStep, <1>1, PTL DEF Spec

-----------------------------------------------------------------------------
(* Generations of the monitor.  A handle compares the shared generation    *)
(* with the last one it saw for equality, while two publishers may store   *)
(* in the other order than they took their numbers.  That is sound because *)
(* a number that was taken and not yet stored is nobody else's.            *)

\* Generations that were taken, stored and seen.
GenerationInv ==
    /\ next_generation \in Nat
    /\ DOMAIN stamped = Publishers
    /\ \A p \in Publishers : stamped[p] = None \/ \E g \in 1..next_generation : stamped[p] = {g}
    /\ DOMAIN last_seen_generation = Queues
    /\ \A q \in Queues : last_seen_generation[q] \in 0..next_generation
    /\ \A v \in shared : v.generation \in 1..next_generation
    /\ \A p \in Publishers : \A g \in stamped[p] :
          /\ \A r \in Publishers : g \in stamped[r] => r = p
          /\ \A q \in Queues : last_seen_generation[q] # g
          /\ \A v \in shared : v.generation # g

\* A snapshot that becomes visible has a generation no queue has seen, so the
\* next apply_updates of every handle takes it.
PublishNoticed ==
    \A q \in Queues : \A v \in shared' \ shared : v.generation # last_seen_generation'[q]

\* Before the first publish no generation has been taken.
LEMMA GenerationInit == Init => GenerationInv
BY DEF Init, GenerationInv, None

\* The second half of publish shares a number nobody has seen.
LEMMA StoreNoticed ==
    ASSUME GenerationInv, NEW p \in Publishers, Store(p)
    PROVE  GenerationInv' /\ PublishNoticed
<1>1. PICK g \in 1..next_generation : stamped[p] = {g}
  BY DEF GenerationInv, Store
<1>2. The(stamped[p]) = g BY <1>1 DEF The
<1>3. shared' = {[generation |-> g, snapshot |-> draft[p]]}
  BY <1>2 DEF Store
<1>4. /\ stamped' = [stamped EXCEPT ![p] = None]
      /\ UNCHANGED <<next_generation, last_seen_generation>>
  BY DEF Store
<1>5. PublishNoticed BY <1>1, <1>3, <1>4 DEF PublishNoticed, GenerationInv
<1>6. \A r \in Publishers : \A h \in stamped'[r] : h \in stamped[r] /\ r # p
  BY <1>4 DEF GenerationInv, None
<1>7. GenerationInv'
  BY <1>1, <1>3, <1>4, <1>6 DEF GenerationInv, None
<1> QED BY <1>5, <1>7

\* Every step keeps the generations apart and shares none that was seen.
LEMMA GenerationStep == GenerationInv /\ [Next]_vars => GenerationInv' /\ (PublishNoticed \/ UNCHANGED vars)
<1> SUFFICES ASSUME GenerationInv, [Next]_vars
             PROVE  GenerationInv' /\ (PublishNoticed \/ UNCHANGED vars)
  OBVIOUS
<1>1. ASSUME UNCHANGED <<stamped, next_generation, shared, last_seen_generation>>
      PROVE  GenerationInv' /\ PublishNoticed
  BY <1>1 DEF GenerationInv, PublishNoticed
<1>2. ASSUME NEW p \in Publishers, Publisher(p)
      PROVE  GenerationInv' /\ PublishNoticed
  <2>1. CASE Stamp(p)
    <3>1. PublishNoticed BY <2>1 DEF Stamp, PublishNoticed
    <3>2. \A r \in Publishers : stamped'[r] = IF r = p THEN {next_generation + 1} ELSE stamped[r]
      BY <2>1 DEF Stamp, GenerationInv
    <3>3. GenerationInv' BY <2>1, <3>2 DEF Stamp, GenerationInv, None
    <3> QED BY <3>1, <3>3
  <2>2. CASE Store(p) BY <2>2, StoreNoticed
  <2>3. CASE UpsertRoute(p) \/ UpsertNeighbor(p) \/ UpsertInterface(p) \/ FromNetlink(p)
    BY <2>3, <1>1 DEF UpsertRoute, UpsertNeighbor, UpsertInterface, FromNetlink, Upserts, Drafts
  <2> QED BY <1>2, <2>1, <2>2, <2>3 DEF Publisher, Publish
<1>3. ASSUME NEW q \in Queues, ApplyUpdates(q)
      PROVE  GenerationInv' /\ (PublishNoticed \/ UNCHANGED vars)
  <2>1. CASE UNCHANGED vars BY <2>1, <1>1 DEF vars
  <2>2. CASE \E v \in Unseen(q) :
               /\ last_seen_generation' = [last_seen_generation EXCEPT ![q] = v.generation]
               /\ UNCHANGED <<stamped, next_generation, shared>>
    <3>1. PublishNoticed BY <2>2 DEF PublishNoticed
    <3>2. GenerationInv' BY <2>2 DEF GenerationInv, Unseen
    <3> QED BY <3>1, <3>2
  <2> QED BY <1>3, <2>1, <2>2 DEF ApplyUpdates
<1>4. ASSUME NEW q \in Queues,
             PushUpdate(q) \/ ApplyRouteUpdates(q) \/ PrepareEndpoint(q) \/ SendToEndpoint(q)
      PROVE  GenerationInv' /\ PublishNoticed
  BY <1>4, <1>1 DEF PushUpdate, ApplyRouteUpdates, PrepareEndpoint, SendToEndpoint
<1>5. CASE UNCHANGED vars BY <1>5, <1>1 DEF vars
<1> QED BY <1>2, <1>3, <1>4, <1>5 DEF Next, Queue

\* Whatever the order in which publishers store the snapshots they numbered,
\* no queue takes a newly shared snapshot for one it has already adopted
\* (XdpRouteMonitor::publish, XdpRouteMonitorHandle::apply_updates): the
\* safety half of QueuesConverge.
THEOREM PublishesNoticed == Spec => [][PublishNoticed]_vars
<1>1. GenerationInv /\ [Next]_vars => GenerationInv' /\ [PublishNoticed]_vars
  BY GenerationStep
<1> QED BY GenerationInit, <1>1, PTL DEF Spec
=============================================================================
