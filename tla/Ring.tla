-------------------------------- MODULE Ring --------------------------------
(***************************************************************************)
(* One AF_XDP ring: the RingProducer and RingConsumer cursors of ring.rs   *)
(* over a shared pair of u32 indexes, and the batch copies of raw_socket.rs*)
(* that fill and empty its slots.                                          *)
(*                                                                         *)
(* Userspace is the producer of the FILL and TX rings and the consumer of  *)
(* the RX and COMPLETION rings; the kernel is the other end of each and    *)
(* keeps the same single-producer single-consumer discipline, so one       *)
(* module with both ends stands for the four rings.  A load or a store of  *)
(* a shared index is one step; what an end does between two of them is     *)
(* private to it and is part of the same step.                             *)
(***************************************************************************)
EXTENDS Naturals, Sequences

CONSTANTS
    SIZE,      \* ring size, a power of two (validate_ring_size)
    WRAP,      \* indexes are taken modulo WRAP: 2^32 in the code
    Values     \* what a slot holds: a frame address or a descriptor

\* Indexes are masked with SIZE - 1, so the wrap point is a slot boundary.
ASSUME RingAssumption ==
    /\ SIZE \in Nat \ {0}
    /\ WRAP \in Nat
    /\ SIZE < WRAP
    /\ WRAP % SIZE = 0

VARIABLES
    producer,             \* shared index, stored by the producer only
    consumer,             \* shared index, stored by the consumer only
    slots,                \* the descriptor area of the mapping
    p_cached_producer,    \* RingProducer.cached_producer
    p_cached_consumer,    \* RingProducer.cached_consumer
    c_cached_producer,    \* RingConsumer.cached_producer
    c_cached_consumer,    \* RingConsumer.cached_consumer
    staged,               \* entries written since the last commit
    taken,                \* entries read since the last release
    delivered             \* the batch handed over by the last release

prodVars == <<p_cached_producer, p_cached_consumer, staged>>
consVars == <<c_cached_producer, c_cached_consumer, taken, delivered>>
vars == <<producer, consumer, slots, prodVars, consVars>>

Index == 0 .. WRAP - 1

\* u32::wrapping_sub
WSub(a, b) == IF a >= b THEN a - b ELSE a + WRAP - b

\* Mutant of WAdd: the addition does not wrap.
WAddNoWrap(a, n) == a + n

\* u32::wrapping_add
WAdd(a, n) == IF a + n < WRAP THEN a + n ELSE a + n - WRAP

\* index & mask
Slot(i) == i % SIZE

Smaller(a, b) == IF a < b THEN a ELSE b

Init ==
    /\ producer = 0
    /\ consumer = 0
    /\ slots \in [0 .. SIZE - 1 -> Values]
    /\ p_cached_producer = 0
    /\ p_cached_consumer = 0
    /\ c_cached_producer = 0
    /\ c_cached_consumer = 0
    /\ staged = <<>>
    /\ taken = <<>>
    /\ delivered = <<>>

-----------------------------------------------------------------------------
(* The producer end.                                                       *)

\* Mutant of Available: one slot too many.
AvailableOneMore(cc) == SIZE + 1 - WSub(p_cached_producer, cc)

\* RingProducer::available, for a given view of the consumer index
Available(cc) == SIZE - WSub(p_cached_producer, cc)

\* RingProducer::sync(false), as called by tx_available and replenish_fill
ProducerSync ==
    /\ p_cached_consumer' = consumer
    /\ UNCHANGED <<producer, consumer, slots, p_cached_producer, staged,
                   consVars>>

\* copy_slice_to_ring: entries start .. start + Len(vals) - 1 of the ring
CopySliceToRing(start, vals) ==
    [s \in 0 .. SIZE - 1 |->
        IF \E k \in 1 .. Len(vals) : Slot(WAdd(start, k - 1)) = s
        THEN vals[CHOOSE k \in 1 .. Len(vals) : Slot(WAdd(start, k - 1)) = s]
        ELSE slots[s]]

\* produce / produce_many: reserve a prefix of what is wanted, reloading the
\* consumer index only when the cached one leaves too little room, and copy
\* the reserved entries in
ProduceMany(wanted) ==
    LET cc    == IF Available(p_cached_consumer) < Len(wanted)
                 THEN consumer ELSE p_cached_consumer
        count == Smaller(Len(wanted), Available(cc))
        vals  == SubSeq(wanted, 1, count)
    IN  /\ p_cached_consumer' = cc
        /\ p_cached_producer' = WAdd(p_cached_producer, count)
        /\ slots' = CopySliceToRing(p_cached_producer, vals)
        /\ staged' = staged \o vals
        /\ UNCHANGED <<producer, consumer, consVars>>

\* RingProducer::commit
Commit ==
    /\ producer' = p_cached_producer
    /\ staged' = <<>>
    /\ UNCHANGED <<consumer, slots, p_cached_producer, p_cached_consumer,
                   consVars>>

-----------------------------------------------------------------------------
(* The consumer end.                                                       *)

\* RingConsumer::available, for a given view of the producer index
Readable(cp) == WSub(cp, c_cached_consumer)

\* RingConsumer::sync
ConsumerSync ==
    /\ c_cached_producer' = producer
    /\ UNCHANGED <<producer, consumer, slots, c_cached_consumer, taken,
                   delivered, prodVars>>

\* copy_ring_to_vec: count entries from start on
CopyRingToVec(start, count) ==
    [k \in 1 .. count |-> slots[Slot(WAdd(start, k - 1))]]

\* consume / consume_many and the copy out of the reserved range
ConsumeMany(wanted) ==
    LET cp    == IF Readable(c_cached_producer) < wanted
                 THEN producer ELSE c_cached_producer
        count == Smaller(wanted, Readable(cp))
    IN  /\ c_cached_producer' = cp
        /\ c_cached_consumer' = WAdd(c_cached_consumer, count)
        /\ taken' = taken \o CopyRingToVec(c_cached_consumer, count)
        /\ UNCHANGED <<producer, consumer, slots, delivered, prodVars>>

\* Mutant of Release: everything seen is released, not what was read.
ReleaseAllSeen ==
    /\ consumer' = c_cached_producer
    /\ delivered' = taken
    /\ taken' = <<>>
    /\ UNCHANGED <<producer, slots, c_cached_producer, c_cached_consumer,
                   prodVars>>

\* RingConsumer::release
Release ==
    /\ consumer' = c_cached_consumer
    /\ delivered' = taken
    /\ taken' = <<>>
    /\ UNCHANGED <<producer, slots, c_cached_producer, c_cached_consumer,
                   prodVars>>

-----------------------------------------------------------------------------
\* A batch may be larger than the ring: the callers pass what they have.
Batches == UNION {[1 .. n -> Values] : n \in 1 .. SIZE + 1}

Next ==
    \/ ProducerSync
    \/ \E wanted \in Batches : ProduceMany(wanted)
    \/ Commit
    \/ ConsumerSync
    \/ \E wanted \in 1 .. SIZE + 1 : ConsumeMany(wanted)
    \/ Release

Spec == Init /\ [][Next]_vars

-----------------------------------------------------------------------------
(* Properties.                                                             *)

\* Every index is a u32, every slot and every staged, read or delivered
\* entry is a descriptor.
TypeOK ==
    /\ producer \in Index /\ consumer \in Index
    /\ p_cached_producer \in Index /\ p_cached_consumer \in Index
    /\ c_cached_producer \in Index /\ c_cached_consumer \in Index
    /\ slots \in [0 .. SIZE - 1 -> Values]
    /\ staged \in Seq(Values) /\ taken \in Seq(Values)
    /\ delivered \in Seq(Values)

\* Distance of an index from the oldest one in use, the producer's cached
\* view of the consumer.
Ahead(i) == WSub(i, p_cached_consumer)

\* The six indexes stay in ring order within one ring's length of each
\* other, across wrap-around and however stale each cached copy is: the
\* consumer never reads an entry that is not committed, the producer never
\* reserves a slot that is not released, and the debug_assert of
\* RingProducer::available (in_flight <= size) holds.
CursorOrder ==
    /\ Ahead(consumer) <= Ahead(c_cached_consumer)
    /\ Ahead(c_cached_consumer) <= Ahead(c_cached_producer)
    /\ Ahead(c_cached_producer) <= Ahead(producer)
    /\ Ahead(producer) <= Ahead(p_cached_producer)
    /\ Ahead(p_cached_producer) <= SIZE

\* The committed entries that are not released yet, oldest first.
Queue == CopyRingToVec(consumer, WSub(producer, consumer))

Channel == INSTANCE RingChannel WITH queue <- Queue

\* The cursors implement a bounded FIFO channel: every committed entry is
\* handed over exactly once, in order, with the value that was staged.
ChannelSpec == Channel!Spec
=============================================================================
