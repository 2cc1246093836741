----------------------------- MODULE RingProof -----------------------------
(***************************************************************************)
(* The cursors of a ring stay in order for every ring size and every index *)
(* width.                                                                  *)
(***************************************************************************)
EXTENDS Ring, TLAPS

\* wrapping_add and wrapping_sub stay in the index range, and moving an index
\* forward by n moves it n further from any base that it is not lapping.
LEMMA WrapArithmetic ==
    ASSUME NEW a \in Index, NEW b \in Index, NEW n \in 0 .. SIZE,
           WSub(a, b) + n <= SIZE
    PROVE  /\ WAdd(a, n) \in Index
           /\ WSub(WAdd(a, n), b) = WSub(a, b) + n
BY RingAssumption DEF Index, WSub, WAdd

\* A distance between indexes is below the wrap point.
LEMMA WSubRange ==
    ASSUME NEW a \in Index, NEW b \in Index
    PROVE  WSub(a, b) \in 0 .. WRAP - 1
BY RingAssumption DEF Index, WSub

\* Distances compose: a is as far from b as their distances from an older
\* base differ.
LEMMA WSubRebase ==
    ASSUME NEW a \in Index, NEW b \in Index, NEW base \in Index,
           WSub(b, base) <= WSub(a, base)
    PROVE  WSub(a, b) = WSub(a, base) - WSub(b, base)
BY RingAssumption DEF Index, WSub

-----------------------------------------------------------------------------
(* The order of the cursors as a fact about six numbers.                   *)

\* CursorOrder with the six indexes as parameters, oldest first.
Ordered(base, c, cc, cp, p, pp) ==
    /\ WSub(c, base) <= WSub(cc, base)
    /\ WSub(cc, base) <= WSub(cp, base)
    /\ WSub(cp, base) <= WSub(p, base)
    /\ WSub(p, base) <= WSub(pp, base)
    /\ WSub(pp, base) <= SIZE

\* Reloading the consumer index (RingProducer::sync) shortens every distance
\* by the same amount.
LEMMA OrderedRebase ==
    ASSUME NEW base \in Index, NEW c \in Index, NEW cc \in Index,
           NEW cp \in Index, NEW p \in Index, NEW pp \in Index,
           Ordered(base, c, cc, cp, p, pp)
    PROVE  Ordered(c, c, cc, cp, p, pp)
<1>1. \A i \in Index : WSub(i, base) \in 0 .. WRAP - 1
  BY WSubRange
<1>2. \A i \in Index : WSub(c, base) <= WSub(i, base) =>
          WSub(i, c) = WSub(i, base) - WSub(c, base)
  BY WSubRebase
<1>3. /\ WSub(c, base) <= WSub(cc, base)
      /\ WSub(c, base) <= WSub(cp, base)
      /\ WSub(c, base) <= WSub(p, base)
      /\ WSub(c, base) <= WSub(pp, base)
  BY <1>1, RingAssumption DEF Ordered
<1>4. /\ WSub(c, c) = WSub(c, base) - WSub(c, base)
      /\ WSub(cc, c) = WSub(cc, base) - WSub(c, base)
      /\ WSub(cp, c) = WSub(cp, base) - WSub(c, base)
      /\ WSub(p, c) = WSub(p, base) - WSub(c, base)
      /\ WSub(pp, c) = WSub(pp, base) - WSub(c, base)
  BY <1>1, <1>2, <1>3, RingAssumption
<1>. QED
  BY <1>1, <1>4, RingAssumption DEF Ordered

\* A reservation of n entries (produce_many) within the room left.
LEMMA OrderedReserve ==
    ASSUME NEW base \in Index, NEW c \in Index, NEW cc \in Index,
           NEW cp \in Index, NEW p \in Index, NEW pp \in Index,
           Ordered(base, c, cc, cp, p, pp),
           NEW n \in Nat, n <= SIZE - WSub(pp, base)
    PROVE  /\ WAdd(pp, n) \in Index
           /\ Ordered(base, c, cc, cp, p, WAdd(pp, n))
<1>1. \A i \in Index : WSub(i, base) \in 0 .. WRAP - 1
  BY WSubRange
<1>2. n \in 0 .. SIZE /\ WSub(pp, base) + n <= SIZE
  BY <1>1, RingAssumption
<1>3. WAdd(pp, n) \in Index /\ WSub(WAdd(pp, n), base) = WSub(pp, base) + n
  BY <1>2, WrapArithmetic
<1>. QED
  BY <1>1, <1>2, <1>3, RingAssumption DEF Ordered

\* A read of n entries (consume_many) among those seen.
LEMMA OrderedConsume ==
    ASSUME NEW base \in Index, NEW c \in Index, NEW cc \in Index,
           NEW cp \in Index, NEW p \in Index, NEW pp \in Index,
           Ordered(base, c, cc, cp, p, pp),
           NEW n \in Nat, n <= WSub(cp, cc)
    PROVE  /\ WAdd(cc, n) \in Index
           /\ Ordered(base, c, WAdd(cc, n), cp, p, pp)
<1>1. \A i \in Index : WSub(i, base) \in 0 .. WRAP - 1
  BY WSubRange
<1>2. WSub(cp, cc) = WSub(cp, base) - WSub(cc, base)
  BY WSubRebase DEF Ordered
<1>3. n \in 0 .. SIZE /\ WSub(cc, base) + n <= SIZE
  BY <1>1, <1>2, RingAssumption DEF Ordered
<1>4. WAdd(cc, n) \in Index /\ WSub(WAdd(cc, n), base) = WSub(cc, base) + n
  BY <1>3, WrapArithmetic
<1>. QED
  BY <1>1, <1>2, <1>3, <1>4, RingAssumption DEF Ordered

\* How many entries may be reserved or read is a number between 0 and SIZE.
LEMMA OrderedRoom ==
    ASSUME NEW base \in Index, NEW c \in Index, NEW cc \in Index,
           NEW cp \in Index, NEW p \in Index, NEW pp \in Index,
           Ordered(base, c, cc, cp, p, pp)
    PROVE  /\ SIZE - WSub(pp, base) \in 0 .. SIZE
           /\ WSub(cp, cc) \in 0 .. SIZE
           /\ Ordered(base, c, cc, p, p, pp)
<1>1. \A i \in Index : WSub(i, base) \in 0 .. WRAP - 1
  BY WSubRange
<1>2. WSub(cp, cc) = WSub(cp, base) - WSub(cc, base)
  BY WSubRebase DEF Ordered
<1>. QED
  BY <1>1, <1>2, RingAssumption DEF Ordered

-----------------------------------------------------------------------------
(* The steps.                                                              *)

Inv == TypeOK /\ CursorOrder

\* CursorOrder is Ordered of the module's six cursors.
LEMMA CursorIsOrdered ==
    CursorOrder <=> Ordered(p_cached_consumer, consumer, c_cached_consumer,
                            c_cached_producer, producer, p_cached_producer)
BY DEF CursorOrder, Ordered, Ahead

\* A fresh mapping has all cursors at zero.
LEMMA InitInv == Init => Inv
BY RingAssumption
   DEF Init, Inv, TypeOK, CursorOrder, Ahead, WSub, Index

\* The producer's reload moves its view of the consumer index forward.
LEMMA ProducerSyncInv == Inv /\ ProducerSync => Inv'
<1>. SUFFICES ASSUME Inv, ProducerSync PROVE Inv'
  OBVIOUS
<1>1. TypeOK'
  BY DEF Inv, TypeOK, ProducerSync, consVars
<1>2. Ordered(consumer, consumer, c_cached_consumer, c_cached_producer,
              producer, p_cached_producer)
  BY OrderedRebase, CursorIsOrdered DEF Inv, TypeOK
<1>3. CursorOrder'
  BY <1>2 DEF Ordered, CursorOrder, Ahead, WSub, ProducerSync, consVars
<1>. QED
  BY <1>1, <1>3 DEF Inv

\* A prefix of a batch, and the ring with that prefix copied in.
LEMMA CopyInType ==
    ASSUME NEW wanted \in Batches, NEW count \in 0 .. Len(wanted),
           NEW start, slots \in [0 .. SIZE - 1 -> Values]
    PROVE  LET vals == SubSeq(wanted, 1, count)
           IN  /\ vals \in Seq(Values)
               /\ CopySliceToRing(start, vals) \in [0 .. SIZE - 1 -> Values]
<1>. DEFINE vals == SubSeq(wanted, 1, count)
<1>1. wanted \in Seq(Values)
  <2>1. PICK n \in 1 .. SIZE + 1 : wanted \in [1 .. n -> Values]
    BY DEF Batches
  <2>. QED
    BY <2>1, RingAssumption
<1>2. vals \in Seq(Values)
  BY <1>1
<1>3. ASSUME NEW s \in 0 .. SIZE - 1
      PROVE  (IF \E k \in 1 .. Len(vals) : Slot(WAdd(start, k - 1)) = s
              THEN vals[CHOOSE k \in 1 .. Len(vals) :
                            Slot(WAdd(start, k - 1)) = s]
              ELSE slots[s]) \in Values
  <2>1. CASE \E k \in 1 .. Len(vals) : Slot(WAdd(start, k - 1)) = s
    <3>. DEFINE kk == CHOOSE k \in 1 .. Len(vals) :
                          Slot(WAdd(start, k - 1)) = s
    <3>1. kk \in 1 .. Len(vals)
      BY <2>1
    <3>. QED
      BY <1>2, <2>1, <3>1
  <2>2. CASE ~ \E k \in 1 .. Len(vals) : Slot(WAdd(start, k - 1)) = s
    BY <2>2
  <2>. QED
    BY <2>1, <2>2
<1>4. CopySliceToRing(start, vals) \in [0 .. SIZE - 1 -> Values]
  BY <1>3 DEF CopySliceToRing
<1>. QED
  BY <1>2, <1>4

\* A reservation stays within the room its view of the consumer leaves.
LEMMA ProduceManyInv ==
    ASSUME Inv, NEW wanted \in Batches, ProduceMany(wanted)
    PROVE  Inv'
<1>. DEFINE cc == IF Available(p_cached_consumer) < Len(wanted)
                  THEN consumer ELSE p_cached_consumer
            count == Smaller(Len(wanted), Available(cc))
            vals == SubSeq(wanted, 1, count)
<1>1. /\ p_cached_consumer' = cc
      /\ p_cached_producer' = WAdd(p_cached_producer, count)
      /\ slots' = CopySliceToRing(p_cached_producer, vals)
      /\ staged' = staged \o vals
      /\ UNCHANGED <<producer, consumer, consVars>>
  BY DEF ProduceMany
<1>2. TypeOK
  BY DEF Inv
<1>3. cc \in Index
  BY <1>2 DEF TypeOK
<1>4. Ordered(cc, consumer, c_cached_consumer, c_cached_producer, producer,
              p_cached_producer)
  <2>1. Ordered(p_cached_consumer, consumer, c_cached_consumer,
                c_cached_producer, producer, p_cached_producer)
    BY CursorIsOrdered DEF Inv
  <2>2. Ordered(consumer, consumer, c_cached_consumer, c_cached_producer,
                producer, p_cached_producer)
    BY <1>2, <2>1, OrderedRebase DEF TypeOK
  <2>. QED
    BY <2>1, <2>2
<1>5. Available(cc) \in 0 .. SIZE
  BY <1>2, <1>3, <1>4, OrderedRoom DEF TypeOK, Available
<1>6. Len(wanted) \in Nat
  BY RingAssumption DEF Batches
<1>7. count \in Nat /\ count <= Available(cc) /\ count \in 0 .. Len(wanted)
  <2>. HIDE DEF cc
  <2>. QED
    BY <1>5, <1>6, RingAssumption DEF Smaller
<1>8. /\ WAdd(p_cached_producer, count) \in Index
      /\ Ordered(cc, consumer, c_cached_consumer, c_cached_producer, producer,
                 WAdd(p_cached_producer, count))
  <2>. HIDE DEF cc, count
  <2>1. count <= SIZE - WSub(p_cached_producer, cc)
    BY <1>7 DEF Available
  <2>. QED
    BY <1>2, <1>3, <1>4, <1>7, <2>1, OrderedReserve DEF TypeOK
<1>9. TypeOK'
  <2>. HIDE DEF cc, count
  <2>1. /\ vals \in Seq(Values)
        /\ CopySliceToRing(p_cached_producer, vals)
             \in [0 .. SIZE - 1 -> Values]
    BY <1>2, <1>7, CopyInType DEF TypeOK
  <2>2. slots' \in [0 .. SIZE - 1 -> Values] /\ staged' \in Seq(Values)
    BY <1>1, <1>2, <2>1 DEF TypeOK
  <2>. QED
    BY <1>1, <1>2, <1>3, <1>8, <2>2 DEF TypeOK, consVars
<1>10. CursorOrder'
  <2>. HIDE DEF cc, count
  <2>. QED
    BY <1>1, <1>8 DEF Ordered, CursorOrder, Ahead, WSub, consVars
<1>. QED
  BY <1>9, <1>10 DEF Inv

\* A commit moves the shared producer index up to the reservation.
LEMMA CommitInv == Inv /\ Commit => Inv'
<1>. SUFFICES ASSUME Inv, Commit PROVE Inv'
  OBVIOUS
<1>1. TypeOK'
  BY DEF Inv, TypeOK, Commit, consVars
<1>2. \A i \in Index : Ahead(i) \in 0 .. WRAP - 1
  BY WSubRange DEF Inv, TypeOK, Ahead
<1>4. /\ Ahead(consumer)' = Ahead(consumer)
      /\ Ahead(c_cached_consumer)' = Ahead(c_cached_consumer)
      /\ Ahead(c_cached_producer)' = Ahead(c_cached_producer)
      /\ Ahead(producer)' = Ahead(p_cached_producer)
      /\ Ahead(p_cached_producer)' = Ahead(p_cached_producer)
  BY DEF Commit, consVars, Ahead
<1>5. /\ Ahead(c_cached_producer) \in Nat /\ Ahead(producer) \in Nat
      /\ Ahead(p_cached_producer) \in Nat
  BY <1>2 DEF Inv, TypeOK
<1>3. CursorOrder'
  BY <1>4, <1>5 DEF Inv, CursorOrder
<1>. QED
  BY <1>1, <1>3 DEF Inv

\* The consumer's reload moves its view of the producer index forward.
LEMMA ConsumerSyncInv == Inv /\ ConsumerSync => Inv'
<1>. SUFFICES ASSUME Inv, ConsumerSync PROVE Inv'
  OBVIOUS
<1>1. TypeOK'
  BY DEF Inv, TypeOK, ConsumerSync, prodVars
<1>2. Ordered(p_cached_consumer, consumer, c_cached_consumer, producer,
              producer, p_cached_producer)
  BY OrderedRoom, CursorIsOrdered DEF Inv, TypeOK
<1>3. CursorOrder'
  BY <1>2 DEF Ordered, CursorOrder, Ahead, WSub, ConsumerSync, prodVars
<1>. QED
  BY <1>1, <1>3 DEF Inv

\* A read stays behind the view of the producer index.
LEMMA ConsumeManyInv ==
    ASSUME Inv, NEW wanted \in 1 .. SIZE + 1, ConsumeMany(wanted)
    PROVE  Inv'
<1>. DEFINE cp == IF Readable(c_cached_producer) < wanted
                  THEN producer ELSE c_cached_producer
            count == Smaller(wanted, Readable(cp))
            read == CopyRingToVec(c_cached_consumer, count)
<1>1. /\ c_cached_producer' = cp
      /\ c_cached_consumer' = WAdd(c_cached_consumer, count)
      /\ taken' = taken \o read
      /\ UNCHANGED <<producer, consumer, slots, delivered, prodVars>>
  BY DEF ConsumeMany
<1>2. TypeOK
  BY DEF Inv
<1>3. cp \in Index
  BY <1>2 DEF TypeOK
<1>4. Ordered(p_cached_consumer, consumer, c_cached_consumer, cp, producer,
              p_cached_producer)
  <2>1. Ordered(p_cached_consumer, consumer, c_cached_consumer,
                c_cached_producer, producer, p_cached_producer)
    BY CursorIsOrdered DEF Inv
  <2>2. Ordered(p_cached_consumer, consumer, c_cached_consumer, producer,
                producer, p_cached_producer)
    BY <1>2, <2>1, OrderedRoom DEF TypeOK
  <2>. QED
    BY <2>1, <2>2
<1>5. Readable(cp) \in 0 .. SIZE
  BY <1>2, <1>3, <1>4, OrderedRoom DEF TypeOK, Readable
<1>6. count \in Nat /\ count <= Readable(cp)
  <2>. HIDE DEF cp
  <2>. QED
    BY <1>5, RingAssumption DEF Smaller
<1>7. /\ WAdd(c_cached_consumer, count) \in Index
      /\ Ordered(p_cached_consumer, consumer, WAdd(c_cached_consumer, count),
                 cp, producer, p_cached_producer)
  <2>. HIDE DEF cp, count
  <2>. QED
    BY <1>2, <1>3, <1>4, <1>6, OrderedConsume DEF TypeOK, Readable
<1>8. read \in Seq(Values)
  <2>. HIDE DEF cp, count
  <2>1. ASSUME NEW k \in 1 .. count
        PROVE  slots[Slot(WAdd(c_cached_consumer, k - 1))] \in Values
    <3>1. WAdd(c_cached_consumer, k - 1) \in Nat
      <4>1. c_cached_consumer \in Nat /\ k - 1 \in Nat
        BY <1>2, <1>6, RingAssumption DEF TypeOK, Index
      <4>. QED
        BY <4>1, RingAssumption DEF WAdd
    <3>2. Slot(WAdd(c_cached_consumer, k - 1)) \in 0 .. SIZE - 1
      BY <3>1, RingAssumption DEF Slot
    <3>. QED
      BY <1>2, <3>2 DEF TypeOK
  <2>2. read \in [1 .. count -> Values]
    BY <2>1 DEF CopyRingToVec
  <2>. QED
    BY <1>6, <2>2
<1>9. TypeOK'
  <2>. HIDE DEF cp, count, read
  <2>1. taken' \in Seq(Values)
    BY <1>1, <1>2, <1>8 DEF TypeOK
  <2>. QED
    BY <1>1, <1>2, <1>3, <1>7, <2>1 DEF TypeOK, prodVars
<1>10. CursorOrder'
  <2>. HIDE DEF cp, count
  <2>. QED
    BY <1>1, <1>7 DEF Ordered, CursorOrder, Ahead, WSub, prodVars
<1>. QED
  BY <1>9, <1>10 DEF Inv

\* A release moves the shared consumer index up to what was read.
LEMMA ReleaseInv == Inv /\ Release => Inv'
<1>. SUFFICES ASSUME Inv, Release PROVE Inv'
  OBVIOUS
<1>1. TypeOK'
  BY DEF Inv, TypeOK, Release, prodVars
<1>2. \A i \in Index : Ahead(i) \in 0 .. WRAP - 1
  BY WSubRange DEF Inv, TypeOK, Ahead
<1>3. CursorOrder'
  BY <1>2, RingAssumption
     DEF Inv, TypeOK, CursorOrder, Ahead, WSub, Release, prodVars
<1>. QED
  BY <1>1, <1>3 DEF Inv

\* Nothing changes.
LEMMA StutterInv == Inv /\ UNCHANGED vars => Inv'
BY DEF Inv, TypeOK, CursorOrder, Ahead, WSub, vars, prodVars, consVars

-----------------------------------------------------------------------------
\* The inductive invariant holds of every behaviour.
LEMMA InvariantHolds == Spec => []Inv
<1>1. Inv /\ [Next]_vars => Inv'
  BY ProducerSyncInv, ProduceManyInv, CommitInv, ConsumerSyncInv,
     ConsumeManyInv, ReleaseInv, StutterInv DEF Next
<1>. QED
  BY InitInv, <1>1, PTL DEF Spec

\* Indexes stay in their u32 range and slots hold descriptors: type
\* correctness of the cursors of ring.rs and the copies of raw_socket.rs.
THEOREM TypeCorrect == Spec => []TypeOK
BY InvariantHolds, PTL DEF Inv

\* For every ring size and index width, the six indexes stay in ring order:
\* no entry is read before its commit or overwritten before its release, and
\* the debug_assert of RingProducer::available holds.
THEOREM CursorSafety == Spec => []CursorOrder
BY InvariantHolds, PTL DEF Inv
=============================================================================
