----------------------------- MODULE XdpSocket ------------------------------
(***************************************************************************)
(* Frame ownership in an AF_XDP socket (LiveXdpState and the owner-thread  *)
(* operations of socket.rs), for one socket with its own UMEM (Members = 1)*)
(* or the members of a shared-UMEM aggregate.                              *)
(*                                                                         *)
(* A place is a list or ring of one member, or the hands of the kernel or  *)
(* the application; `frames' says which frames are in it.  Ring order and  *)
(* cursors are the subject of Ring, the threads behind rx_remote and       *)
(* tx_remote of FrameReclaim, and the doorbell of TxDoorbell.  The         *)
(* kernel's own steps are external.                                        *)
(***************************************************************************)
EXTENDS Integers, FiniteSets

CONSTANTS
    Members,      \* sockets sharing the UMEM
    FrameCount,   \* config.frame_count, frames per member
    FillSize, RxSize, TxSize, CompSize,     \* config.rings
    MaxBatch      \* bound on the batches the application passes

\* open and open_shared_members reject other frame counts, and a prefill that
\* exceeds the FILL ring.
ASSUME XdpAssumption ==
    /\ Members \in Nat \ {0}
    /\ FrameCount \in Nat /\ FrameCount >= 2 /\ FrameCount % 2 = 0
    /\ FillSize \in Nat /\ FrameCount \div 2 <= FillSize
    /\ RxSize \in Nat \ {0} /\ TxSize \in Nat \ {0} /\ CompSize \in Nat \ {0}
    /\ MaxBatch \in Nat \ {0}

Member == 0 .. Members - 1
Frame == 0 .. Members * FrameCount - 1
PerRx == FrameCount \div 2

Kind == { "rx_free", "rx_remote",     \* rx_reclaim: free list, remote queue
          "tx_free", "tx_remote",     \* the TX pool's reclaim
          "fill", "rx", "tx", "comp", \* the four rings
          "krx",                      \* taken from FILL by the driver
          "ktx",                      \* taken from TX, not completed
          "app_rx", "app_tx" }        \* buffers of rx_pool and of tx_pool

Place == Kind \X Member

VARIABLES
    frames,            \* [Place -> SUBSET Frame]
    rx_cap, tx_cap,    \* capacity of the free lists' vectors
    tx_in_flight,
    tx_since_completion_drain,
    tx_wake_pending,
    panicked           \* a debug_assert of the completion reclaim has failed

vars == <<frames, rx_cap, tx_cap, tx_in_flight, tx_since_completion_drain,
          tx_wake_pending, panicked>>

\* frame_addr & member_byte_mask < rx_member_byte_len; for one member this is
\* LocalSplit's frame_addr < first_tx_frame_addr
IsRx(f) == f % FrameCount < PerRx

Slice(m) == m * FrameCount .. m * FrameCount + FrameCount - 1

\* open_shared_members: each member's RX half is in its FILL ring, its TX half
\* on its free list; open is the case of one member
InitialFrames ==
    [p \in Place |->
        CASE p[1] = "fill"    -> {f \in Slice(p[2]) : IsRx(f)}
          [] p[1] = "tx_free" -> {f \in Slice(p[2]) : ~IsRx(f)}
          [] OTHER            -> {}]

Init ==
    /\ frames = InitialFrames
    /\ rx_cap = [m \in Member |-> PerRx]
    /\ tx_cap = [m \in Member |-> FrameCount - PerRx]
    /\ tx_in_flight = [m \in Member |-> 0]
    /\ tx_since_completion_drain = [m \in Member |-> 0]
    /\ tx_wake_pending = [m \in Member |-> FALSE]
    /\ panicked = FALSE

-----------------------------------------------------------------------------

Move(fr, S, p, q) == [fr EXCEPT ![p] = @ \ S, ![q] = @ \cup S]

Size(fr, p) == Cardinality(fr[p])

Smaller(a, b) == IF a < b THEN a ELSE b
Larger(a, b) == IF a > b THEN a ELSE b

\* Vec::push on a full vector at least doubles it, to no less than four.
Grow(cap, n) == IF n <= cap THEN cap ELSE Larger(n, Larger(2 * cap, 4))

\* tx_drain_hysteresis
DrainThreshold ==
    Smaller(Larger(CompSize \div 2, 1), Larger(PerRx \div 2, 1))
DrainInterval == Larger(DrainThreshold \div 2, 1)

ShouldDrain(m) ==
    /\ tx_in_flight[m] >= DrainThreshold
    /\ tx_since_completion_drain[m] >= DrainInterval

\* Mutant of CompletedRx: retransmitted RX frames are not told apart.
CompletedRxNone(fr, m) == {}

CompletedRx(fr, m) == {f \in fr[<<"comp", m>>] : IsRx(f)}
CompletedTx(fr, m) == fr[<<"comp", m>>] \ CompletedRx(fr, m)

\* Mutant of Reclaimed: every completion goes back to the TX pool.
ReclaimedToTx(fr, m) == Move(fr, fr[<<"comp", m>>], <<"comp", m>>, <<"tx_free", m>>)

\* Mutant of Reclaimed: frames the kernel has not completed are taken too.
ReclaimedEarly(fr, m) ==
    Move(Move(fr, {f \in fr[<<"ktx", m>>] : ~IsRx(f)}, <<"ktx", m>>, <<"tx_free", m>>),
         CompletedTx(fr, m), <<"comp", m>>, <<"tx_free", m>>)

\* reclaim_local_split_completions, reclaim_shared_member_slice_completions:
\* the whole COMPLETION ring, each frame to the list of its class
Reclaimed(fr, m) ==
    Move(Move(fr, CompletedRx(fr, m), <<"comp", m>>, <<"rx_free", m>>),
         CompletedTx(fr, m), <<"comp", m>>, <<"tx_free", m>>)

\* debug_assert!(len < capacity) fails for some reclaimed frame
ReclaimOverflows(fr, m, rcap, tcap) ==
    \/ /\ CompletedRx(fr, m) # {}
       /\ Size(fr, <<"rx_free", m>>) + Cardinality(CompletedRx(fr, m)) > rcap
    \/ /\ CompletedTx(fr, m) # {}
       /\ Size(fr, <<"tx_free", m>>) + Cardinality(CompletedTx(fr, m)) > tcap

Panic ==
    /\ panicked' = TRUE
    /\ UNCHANGED <<frames, rx_cap, tx_cap, tx_in_flight,
                   tx_since_completion_drain, tx_wake_pending>>

-----------------------------------------------------------------------------
(* The owner thread's operations.                                          *)

\* Mutant of Drained: the counter is taken down by one per drain.
DrainedOne(m) ==
    /\ tx_in_flight' = [tx_in_flight EXCEPT ![m] = @ - 1]
    /\ tx_since_completion_drain' = [tx_since_completion_drain EXCEPT ![m] = 0]

\* drain_tx_completions_inner's counters; the subtraction saturates
Drained(m) ==
    /\ tx_in_flight' = [tx_in_flight EXCEPT
            ![m] = Larger(@ - Size(frames, <<"comp", m>>), 0)]
    /\ tx_since_completion_drain' = [tx_since_completion_drain EXCEPT ![m] = 0]

\* drain_tx_completions
DrainTxCompletions(m) ==
    /\ ~panicked
    /\ IF ReclaimOverflows(frames, m, rx_cap[m], tx_cap[m])
       THEN Panic
       ELSE /\ frames' = Reclaimed(frames, m)
            /\ Drained(m)
            /\ UNCHANGED <<rx_cap, tx_cap, tx_wake_pending, panicked>>

\* TX pool allocate_many: drain the remote queue when the free list is short,
\* then pop.
Pooled(fr, m, max) ==
    IF Size(fr, <<"tx_free", m>>) < max
    THEN Move(fr, fr[<<"tx_remote", m>>], <<"tx_remote", m>>, <<"tx_free", m>>)
    ELSE fr

PoppedSets(fr, m, max) ==
    {S \in SUBSET fr[<<"tx_free", m>>] :
        Cardinality(S) = Smaller(max, Size(fr, <<"tx_free", m>>))}

\* Mutant of AllocateTxBatch: a dry pool does not drain the completions.
AllocateNoDryDrain(m) ==
    /\ ~panicked
    /\ LET fr0 == IF ShouldDrain(m) THEN Reclaimed(frames, m) ELSE frames
           fr1 == Pooled(fr0, m, 1)
       IN \E S \in PoppedSets(fr1, m, 1) :
            frames' = Move(fr1, S, <<"tx_free", m>>, <<"app_tx", m>>)
    /\ IF ShouldDrain(m)
       THEN Drained(m)
       ELSE UNCHANGED <<tx_in_flight, tx_since_completion_drain>>
    /\ UNCHANGED <<rx_cap, tx_cap, tx_wake_pending, panicked>>

\* allocate_tx_batch: drain under pressure; pop; when the pool runs dry drain
\* the completions, and pop again.
AllocateTxBatch(m) ==
    /\ ~panicked
    /\ \E max \in 1 .. MaxBatch :
        LET fr0 == IF ShouldDrain(m) THEN Reclaimed(frames, m) ELSE frames
            fr1 == Pooled(fr0, m, max)
            cap1 == Grow(tx_cap[m], Size(fr1, <<"tx_free", m>>))
            dry == Size(fr1, <<"tx_free", m>>) < max
        IN \E S \in PoppedSets(fr1, m, max) :
            LET fr2 == Move(fr1, S, <<"tx_free", m>>, <<"app_tx", m>>)
                fr3 == IF dry THEN Reclaimed(fr2, m) ELSE fr2
                rest == IF dry THEN max - Cardinality(S) ELSE 0
            IN IF \/ ShouldDrain(m) /\ ReclaimOverflows(frames, m, rx_cap[m], tx_cap[m])
                  \/ dry /\ ReclaimOverflows(fr2, m, rx_cap[m], cap1)
               THEN Panic
               ELSE /\ \E T \in PoppedSets(fr3, m, rest) :
                        frames' = Move(fr3, T, <<"tx_free", m>>, <<"app_tx", m>>)
                    /\ tx_cap' = [tx_cap EXCEPT ![m] = cap1]
                    /\ IF dry \/ ShouldDrain(m)
                       THEN Drained(m)
                       ELSE UNCHANGED <<tx_in_flight, tx_since_completion_drain>>
                    /\ UNCHANGED <<rx_cap, tx_wake_pending, panicked>>

\* The buffers the application may pass to any member's send: its own and
\* those of the other members.
AppPlace == {"app_rx", "app_tx"} \X Member
AppHeld(fr) == UNION {fr[p] : p \in AppPlace}

\* into_submitted: the buffer gives its frame up without reclaiming it
Submitted(fr, S, m) ==
    [p \in Place |-> IF p \in AppPlace     THEN fr[p] \ S
                     ELSE IF p = <<"tx", m>> THEN fr[p] \cup S
                     ELSE fr[p]]

\* Mutant of Send: the counters are bumped by one per call.
SendCountsCalls(m) ==
    /\ ~panicked
    /\ \E S \in SUBSET AppHeld(frames) :
        /\ S # {}
        /\ Cardinality(S) <= Smaller(MaxBatch, TxSize - Size(frames, <<"tx", m>>))
        /\ frames' = Submitted(frames, S, m)
    /\ tx_in_flight' = [tx_in_flight EXCEPT ![m] = @ + 1]
    /\ tx_since_completion_drain' = [tx_since_completion_drain EXCEPT ![m] = @ + 1]
    /\ UNCHANGED <<rx_cap, tx_cap, tx_wake_pending, panicked>>

\* A send drains under pressure, and when the TX ring is full.
DrainsFirst(m) == ShouldDrain(m) \/ Size(frames, <<"tx", m>>) = TxSize

AfterDrain(m) == IF DrainsFirst(m) THEN Reclaimed(frames, m) ELSE frames

\* A send's counters and doorbell, with n descriptors committed.  Nothing
\* prepared returns before the doorbell.  The doorbell rings when the kernel
\* asks or one is owed, and its failure leaves one owed, so after a commit
\* either value is possible.
Committed(m, n) ==
    LET in_flight == IF DrainsFirst(m)
                     THEN Larger(tx_in_flight[m] - Size(frames, <<"comp", m>>), 0)
                     ELSE tx_in_flight[m]
        since == IF DrainsFirst(m) THEN 0 ELSE tx_since_completion_drain[m]
    IN /\ tx_in_flight' = [tx_in_flight EXCEPT ![m] = in_flight + n]
       /\ tx_since_completion_drain' =
             [tx_since_completion_drain EXCEPT ![m] = since + n]
       /\ \E owed \in IF n = 0 THEN {tx_wake_pending[m]} ELSE BOOLEAN :
             tx_wake_pending' = [tx_wake_pending EXCEPT ![m] = owed]

SendPanics(m) ==
    DrainsFirst(m) /\ ReclaimOverflows(frames, m, rx_cap[m], tx_cap[m])

\* send_inner (send_udp_inner and send_udp_endpoint_inner have the same frame
\* flow): enqueue the prepared prefix S of the application's buffers, the
\* slots that fit the ring and are valid.
Send(m) ==
    /\ ~panicked
    /\ IF SendPanics(m)
       THEN Panic
       ELSE \E S \in SUBSET AppHeld(AfterDrain(m)) :
            /\ Cardinality(S) <=
                  Smaller(MaxBatch, TxSize - Size(AfterDrain(m), <<"tx", m>>))
            /\ frames' = Submitted(AfterDrain(m), S, m)
            /\ Committed(m, Cardinality(S))
            /\ UNCHANGED <<rx_cap, tx_cap, panicked>>

\* send_udp_endpoint_direct_batch: the frames are popped from the TX pool and
\* never become buffers.  A payload of a wrong length fails the whole batch,
\* which leaves the frames popped so far on the free list.
SendEndpointBatch(m) ==
    /\ ~panicked
    /\ IF SendPanics(m)
       THEN Panic
       ELSE \E max \in 1 .. MaxBatch :
            LET limit == Smaller(max, TxSize - Size(AfterDrain(m), <<"tx", m>>))
                fr == Pooled(AfterDrain(m), m, limit)
            IN \E S \in PoppedSets(fr, m, limit) \cup {{}} :
                /\ frames' = Move(fr, S, <<"tx_free", m>>, <<"tx", m>>)
                /\ tx_cap' = [tx_cap EXCEPT
                        ![m] = Grow(@, Size(fr, <<"tx_free", m>>))]
                /\ Committed(m, Cardinality(S))
                /\ UNCHANGED <<rx_cap, panicked>>

\* notify_tx: the doorbell, whatever the kernel asks for
NotifyTx(m) ==
    /\ ~panicked
    /\ \E owed \in BOOLEAN : tx_wake_pending' = [tx_wake_pending EXCEPT ![m] = owed]
    /\ UNCHANGED <<frames, rx_cap, tx_cap, tx_in_flight,
                   tx_since_completion_drain, panicked>>

\* The frames the RX pool can put back: is_empty and drain_into have taken
\* the remote queue's.
Refillable(fr, m) == fr[<<"rx_free", m>>] \cup fr[<<"rx_remote", m>>]

\* Mutant of Replenished: the frames written stay on the free list.
ReplenishedKeeps(fr, m, W) ==
    [Move(fr, fr[<<"rx_remote", m>>], <<"rx_remote", m>>, <<"rx_free", m>>)
        EXCEPT ![<<"fill", m>>] = @ \cup W]

\* LiveXdpState::replenish_fill with W written; what does not fit goes back
\* to the free list.
Replenished(fr, m, W) ==
    Move(Move(fr, fr[<<"rx_remote", m>>], <<"rx_remote", m>>, <<"rx_free", m>>),
         W, <<"rx_free", m>>, <<"fill", m>>)

WrittenSets(fr, m) ==
    {W \in SUBSET Refillable(fr, m) :
        Cardinality(W) = Smaller(Cardinality(Refillable(fr, m)),
                                 FillSize - Size(fr, <<"fill", m>>))}

\* Mutant of Recv: the FILL ring is replenished only after a delivery.
RecvRefillsLate(m) ==
    /\ ~panicked
    /\ \E D \in SUBSET frames[<<"rx", m>>] :
        LET fr2 == Move(frames, D, <<"rx", m>>, <<"app_rx", m>>)
        IN /\ D # {} /\ Cardinality(D) <= MaxBatch
           /\ \E W \in WrittenSets(fr2, m) : frames' = Replenished(fr2, m, W)
    /\ UNCHANGED <<rx_cap, tx_cap, tx_in_flight, tx_since_completion_drain,
                   tx_wake_pending, panicked>>

\* The descriptors D taken from the RX ring: the packets L pass the parser and
\* the address and port filters and are delivered, the others are dropped.
Received(fr, m, D, L) ==
    Move(Move(fr, L, <<"rx", m>>, <<"app_rx", m>>), D \ L, <<"rx", m>>, <<"rx_free", m>>)

\* recv_inner, recv_udp_inner: replenish; take up to a batch from the RX ring;
\* deliver or drop; replenish again.  D is empty when wake_rx fails or the
\* ring is empty, and the call ends there.
Recv(m) ==
    /\ ~panicked
    /\ \E W1 \in WrittenSets(frames, m) :
        LET fr1 == Replenished(frames, m, W1)
            cap1 == Grow(rx_cap[m], Cardinality(Refillable(frames, m)))
        IN \E D \in SUBSET fr1[<<"rx", m>>] : \E L \in SUBSET D :
            LET fr2 == Received(fr1, m, D, L)
                cap2 == Grow(cap1, Size(fr2, <<"rx_free", m>>))
            IN /\ Cardinality(D) <= MaxBatch
               /\ \E W2 \in IF D = {} THEN {{}} ELSE WrittenSets(fr2, m) :
                    frames' = Replenished(fr2, m, W2)
               /\ rx_cap' = [rx_cap EXCEPT ![m] = cap2]
    /\ UNCHANGED <<tx_cap, tx_in_flight, tx_since_completion_drain,
                   tx_wake_pending, panicked>>

\* XdpPacketBufInner::drop on the owner thread: to the free list of the pool
\* the buffer came from, which may be another member's than the frame's
DropLocal(m) ==
    /\ ~panicked
    /\ \/ \E f \in frames[<<"app_rx", m>>] :
           /\ frames' = Move(frames, {f}, <<"app_rx", m>>, <<"rx_free", m>>)
           /\ rx_cap' = [rx_cap EXCEPT
                ![m] = Grow(@, Size(frames, <<"rx_free", m>>) + 1)]
           /\ UNCHANGED tx_cap
       \/ \E f \in frames[<<"app_tx", m>>] :
           /\ frames' = Move(frames, {f}, <<"app_tx", m>>, <<"tx_free", m>>)
           /\ tx_cap' = [tx_cap EXCEPT
                ![m] = Grow(@, Size(frames, <<"tx_free", m>>) + 1)]
           /\ UNCHANGED rx_cap
    /\ UNCHANGED <<tx_in_flight, tx_since_completion_drain, tx_wake_pending, panicked>>

\* XdpPacketBufInner::drop on any other thread
DropRemote(m) ==
    /\ ~panicked
    /\ \/ \E f \in frames[<<"app_rx", m>>] :
           frames' = Move(frames, {f}, <<"app_rx", m>>, <<"rx_remote", m>>)
       \/ \E f \in frames[<<"app_tx", m>>] :
           frames' = Move(frames, {f}, <<"app_tx", m>>, <<"tx_remote", m>>)
    /\ UNCHANGED <<rx_cap, tx_cap, tx_in_flight, tx_since_completion_drain,
                   tx_wake_pending, panicked>>

-----------------------------------------------------------------------------
(* The kernel's side of the rings.                                         *)

\* One frame moves between two places in the kernel's hands.
KernelMoves(m, from, to) ==
    /\ ~panicked
    /\ \E f \in frames[<<from, m>>] :
        frames' = Move(frames, {f}, <<from, m>>, <<to, m>>)
    /\ UNCHANGED <<rx_cap, tx_cap, tx_in_flight, tx_since_completion_drain,
                   tx_wake_pending, panicked>>

\* The driver takes a FILL entry, and later receives a packet into it.
KernelFill(m) == KernelMoves(m, "fill", "krx")

KernelReceive(m) ==
    /\ Size(frames, <<"rx", m>>) < RxSize
    /\ KernelMoves(m, "krx", "rx")

\* A TX descriptor is taken only with a COMPLETION slot reserved for it.
KernelTransmit(m) ==
    /\ Size(frames, <<"ktx", m>>) + Size(frames, <<"comp", m>>) < CompSize
    /\ KernelMoves(m, "tx", "ktx")

KernelComplete(m) == KernelMoves(m, "ktx", "comp")

Kernel(m) ==
    KernelFill(m) \/ KernelReceive(m) \/ KernelTransmit(m) \/ KernelComplete(m)

Socket(m) ==
    \/ AllocateTxBatch(m) \/ Send(m) \/ SendEndpointBatch(m) \/ NotifyTx(m)
    \/ DrainTxCompletions(m) \/ Recv(m) \/ DropLocal(m) \/ DropRemote(m)

Next == \E m \in Member : Socket(m) \/ Kernel(m)

Spec == Init /\ [][Next]_vars

\* The TX ring is a FIFO, so a descriptor on it is consumed when descriptors
\* keep being consumed; the kernel completes what it transmits; and the
\* application keeps asking for packets and for transmit buffers.
Leaves(f, p) == f \in frames[p] /\ f \notin frames'[p]

FairSpec ==
    /\ Spec
    /\ \A m \in Member :
        /\ WF_vars(Recv(m)) /\ WF_vars(AllocateTxBatch(m))
        /\ \A f \in Frame :
            /\ SF_vars(KernelTransmit(m) /\ Leaves(f, <<"tx", m>>))
            /\ WF_vars(KernelComplete(m) /\ Leaves(f, <<"ktx", m>>))

-----------------------------------------------------------------------------

\* Every place holds frames, and the counters of LiveXdpState are counts.
TypeOK ==
    /\ frames \in [Place -> SUBSET Frame]
    /\ rx_cap \in [Member -> Nat]
    /\ tx_cap \in [Member -> Nat]
    /\ tx_in_flight \in [Member -> Nat]
    /\ tx_since_completion_drain \in [Member -> Nat]
    /\ tx_wake_pending \in [Member -> BOOLEAN]
    /\ panicked \in BOOLEAN

\* Every frame of the UMEM is in exactly one place: none leaks out of the
\* rotation and none is posted to two rings, or to a ring and a buffer.
FrameConservation ==
    /\ \A f \in Frame : \E p \in Place : f \in frames[p]
    /\ \A p, q \in Place : p # q => frames[p] \cap frames[q] = {}

RxOnly == {"rx_free", "rx_remote", "fill", "krx", "rx", "app_rx"}
TxOnly == {"tx_free", "tx_remote", "app_tx"}

\* The RX half of the frames never enters the TX pool and the TX half never
\* enters the RX rotation, though received packets are retransmitted and
\* completions are sorted by address alone: neither half shrinks.
ClassSeparation ==
    \A m \in Member :
        /\ \A k \in RxOnly : \A f \in frames[<<k, m>>] : IsRx(f)
        /\ \A k \in TxOnly : \A f \in frames[<<k, m>>] : ~IsRx(f)

OnTxPath(m) ==
    Size(frames, <<"tx", m>>) + Size(frames, <<"ktx", m>>) + Size(frames, <<"comp", m>>)

\* tx_in_flight counts the frames submitted and not yet drained, so its
\* saturating subtraction never saturates; the drain interval's counter never
\* runs ahead of it.
InFlightExact ==
    \A m \in Member :
        /\ tx_in_flight[m] = OnTxPath(m)
        /\ tx_since_completion_drain[m] <= tx_in_flight[m]

\* Completion reclaim always finds room in the free list's vector
\* ("completion reclaim only returns frames previously removed from this
\* owner-local free list, so capacity is already available").
ReclaimHasCapacity == ~panicked

KernelOwned ==
    UNION {frames[p] : p \in {"fill", "krx", "tx", "ktx"} \X Member}
Returned == UNION {frames[p] : p \in {"rx", "comp"} \X Member}

\* No step but the kernel's takes a frame from the kernel: a frame on FILL or
\* TX, or in the driver's hands, comes back only through RX or COMPLETION.
NoEarlyReuse == [][KernelOwned \subseteq (KernelOwned \cup Returned)']_vars

\* A frame the RX pool got back is posted to FILL again, by the refill in
\* every recv (replenish_fill).
RxRotates ==
    \A m \in Member : \A f \in Frame :
        (f \in Refillable(frames, m)) ~> (f \in frames[<<"fill", m>>])

\* A step put pool frames straight on the TX ring (SendEndpointBatch).
BatchSent(m) ==
    ~(frames'[<<"tx", m>>] \subseteq frames[<<"tx", m>>] \cup AppHeld(frames))

\* An application out of transmit buffers that keeps allocating gets one,
\* with no drain of its own: allocation drains the completions it waits for.
\* Endpoint batches take frames past the allocator, so they must end.
AllocationRecovers ==
    \A m \in Member :
        <>[][~BatchSent(m)]_vars =>
            (frames[<<"app_tx", m>>] = {}) ~> (frames[<<"app_tx", m>>] # {})
=============================================================================
