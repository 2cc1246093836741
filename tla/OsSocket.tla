------------------------------- MODULE OsSocket -------------------------------
(***************************************************************************)
(* The OS backend's buffers and its receive path.  A buffer <<p, n>> is    *)
(* the n-th one pool p ("rx" or "tx") made.  It is on the pool's free      *)
(* list, in its remote queue, prepared in a slot of recv_buffers, in the   *)
(* application's RecvBatch, or in the application's hands, where its       *)
(* window can be edited.  A send drops the buffers of the prefix it        *)
(* accepted, which is the contract the module BatchSend checks; the steps  *)
(* inside a drop on another thread are those of FrameReclaim.              *)
(***************************************************************************)
EXTENDS PacketWindow, Sequences, SequencesExt, FiniteSets

CONSTANTS SLAB_SIZE,      \* buffers made at a time
          max_buffers,    \* [rx, tx]: the pools' limits
          layout,         \* [rx, tx]: their buffer layouts
          RecvSlots,      \* max_batch, the length of recv_buffers
          OutCapacity,    \* capacity of the application's RecvBatch
          Datagrams,      \* the kinds of datagram that arrive
          MaxDatagrams,   \* bound on arrivals
          MaxEdits        \* bound on window edits

Pools == {"rx", "tx"}

ASSUME OsAssumption ==
  /\ {SLAB_SIZE, RecvSlots, OutCapacity} \subseteq Nat \ {0}
  /\ \A p \in Pools : max_buffers[p] \in Nat \ {0}

VARIABLES free,           \* [Pools -> list of buffers]
          remote,         \* [Pools -> set of buffers]
          allocated,      \* [Pools -> number made]
          window,         \* the window of each buffer outside the free lists
          recv_buffers,   \* the prepared slots: sequence of buffers or NoBuffer
          out,            \* RecvBatch: list of [buffer, datagram number]
          held,           \* buffers in the application's hands
          arrived,        \* kinds of all datagrams that arrived
          dequeued,       \* how many of them the socket has read
          delivered,      \* the numbers handed to the application, in order
          edits, closed

os_vars == <<free, remote, allocated, window, recv_buffers, out, held,
             arrived, dequeued, delivered, edits, closed>>

NoBuffer == <<"none", 0>>

OsInit ==
  /\ free = [p \in Pools |-> <<>>] /\ remote = [p \in Pools |-> {}]
  /\ allocated = [p \in Pools |-> 0]
  /\ window = [b \in {} |-> 0]
  /\ recv_buffers = [i \in 1..RecvSlots |-> NoBuffer]
  /\ out = <<>> /\ held = {}
  /\ arrived = <<>> /\ dequeued = 0 /\ delivered = <<>>
  /\ edits = 0 /\ closed = FALSE

----------------------------------------------------------------------------
(* The pool.  A state of it is [free, remote, allocated].                  *)

Pool(p) == [free |-> free[p], remote |-> remote[p], allocated |-> allocated[p]]

SetPools(rx, tx) ==
  /\ free' = [rx |-> rx.free, tx |-> tx.free]
  /\ remote' = [rx |-> rx.remote, tx |-> tx.remote]
  /\ allocated' = [rx |-> rx.allocated, tx |-> tx.allocated]

\* pop drains the remote queue only when the free list is empty.
Drained(pool) ==
  IF pool.free # <<>> THEN pool
  ELSE [pool EXCEPT !.free = SetToSeq(pool.remote), !.remote = {}]

\* Mutant of grow: a whole slab is made whenever there is room for one buffer.
grow_whole_slab(pool, p) ==
  LET chunk == IF pool.allocated < max_buffers[p] THEN SLAB_SIZE ELSE 0
  IN  [pool EXCEPT !.allocated = @ + chunk,
                   !.free = [i \in 1..chunk |-> <<p, pool.allocated + i>>]]

grow(pool, p) ==
  LET remaining == max_buffers[p] - pool.allocated
      chunk == IF SLAB_SIZE < remaining THEN SLAB_SIZE ELSE remaining
  IN  [pool EXCEPT !.allocated = @ + chunk,
                   !.free = [i \in 1..chunk |-> <<p, pool.allocated + i>>]]

\* The pool an allocation takes its last free buffer from; none if it is empty.
Stocked(pool, p) ==
  IF Drained(pool).free # <<>> THEN Drained(pool) ELSE grow(Drained(pool), p)

\* Allocating up to n buffers one by one: the pool and the buffers.
RECURSIVE allocate(_, _, _)
allocate(pool, p, n) ==
  LET stock == Stocked(pool, p)
  IN  IF n = 0 \/ stock.free = <<>> THEN [pool |-> IF n = 0 THEN pool ELSE stock,
                                          buffers |-> <<>>]
      ELSE LET rest == allocate([stock EXCEPT !.free = Front(@)], p, n - 1)
           IN  [rest EXCEPT !.buffers = <<Last(stock.free)>> \o @]

\* Buffers dropped by the owner, in order.
push(pool, buffers) == [pool EXCEPT !.free = @ \o buffers]

Of(p, buffers) == SelectSeq(buffers, LAMBDA b : b[1] = p)

PushAll(buffers) ==
  SetPools(push(Pool("rx"), Of("rx", buffers)), push(Pool("tx"), Of("tx", buffers)))

\* A buffer's window exists while the buffer is off the free lists.
Showing(buffers, w) ==
  [b \in DOMAIN window \cup buffers |-> IF b \in buffers THEN w[b] ELSE window[b]]

Hiding(buffers) == [b \in DOMAIN window \ buffers |-> window[b]]

----------------------------------------------------------------------------
(* Transmit.                                                               *)

\* allocate_tx_batch: drain_tx_completions has nothing to drain, so the loop
\* ends with the first allocation that fails.
AllocateTxBatch(n) ==
  LET got == allocate(Pool("tx"), "tx", n)
  IN  /\ ~ closed
      /\ SetPools(Pool("rx"), got.pool)
      /\ held' = held \cup ToSet(got.buffers)
      /\ window' = Showing(ToSet(got.buffers), [b \in ToSet(got.buffers) |-> Fresh(layout.tx)])
      /\ UNCHANGED <<recv_buffers, out, arrived, dequeued, delivered, edits, closed>>

\* send of the buffers of a batch, of which the first n are accepted.
SendAccepted(buffers, n) ==
  /\ ~ closed /\ ToSet(buffers) \subseteq held
  /\ PushAll(SubSeq(buffers, 1, n))
  /\ held' = held \ ToSet(SubSeq(buffers, 1, n))
  /\ window' = Hiding(ToSet(SubSeq(buffers, 1, n)))
  /\ UNCHANGED <<recv_buffers, out, arrived, dequeued, delivered, edits, closed>>

\* send_generic_udp_endpoint_batch: buffers are allocated and filled until a
\* payload is refused; the ones that are not filled are dropped, then the ones
\* that were sent, then the rest of the batch.
EndpointBatch(max, filled) ==
  LET got == allocate(Pool("tx"), "tx", max)
      n == IF filled < Len(got.buffers) THEN filled ELSE Len(got.buffers)
      unfilled == SubSeq(got.buffers, n + 1, Len(got.buffers))
  IN  /\ ~ closed
      /\ SetPools(Pool("rx"), push(got.pool, unfilled \o SubSeq(got.buffers, 1, n)))
      /\ UNCHANGED <<window, recv_buffers, out, held, arrived, dequeued,
                     delivered, edits, closed>>

----------------------------------------------------------------------------
(* Receive.                                                                *)

Arrive(kind) ==
  /\ Len(arrived) < MaxDatagrams
  /\ arrived' = Append(arrived, kind)
  /\ UNCHANGED <<free, remote, allocated, window, recv_buffers, out, held,
                 dequeued, delivered, edits, closed>>

\* The slots 1..count are prepared: an empty one is given a buffer; when the
\* pool has none left the slots from there on are not used.
RECURSIVE PrepareSlots(_, _, _, _)
PrepareSlots(pool, slots, index, count) ==
  IF index > count THEN [pool |-> pool, slots |-> slots, count |-> count]
  ELSE IF slots[index] # NoBuffer THEN PrepareSlots(pool, slots, index + 1, count)
  ELSE LET got == allocate(pool, "rx", 1)
       IN  IF got.buffers = <<>>
             THEN [pool |-> got.pool, slots |-> slots, count |-> index - 1]
             ELSE PrepareSlots(got.pool, [slots EXCEPT ![index] = got.buffers[1]],
                               index + 1, count)

Good(kind) == kind.named /\ kind.len <= layout.rx.payload_capacity

Shown(slots) == {b \in ToSet(slots) : b # NoBuffer}

\* Mutant of Deliver: a truncated datagram ends the scan.
DeliverUntilTruncated(received) ==
  LET Kind(i) == arrived[dequeued + i]
      cut == {i \in 1..received : \E j \in 1..i : ~ Good(Kind(j))}
  IN  SelectSeq([i \in 1..received |-> i], LAMBDA i : i \notin cut)

\* The slots whose datagrams are handed up; a truncated one, or one without a
\* usable source address, leaves its buffer in the slot.
Deliver(received) ==
  SelectSeq([i \in 1..received |-> i], LAMBDA i : Good(arrived[dequeued + i]))

\* recv_impl on Linux: `received' is what recvmmsg returned; 0 stands for "try
\* later" and for an error, which both leave the prepared buffers in place.
RecvImpl(received) ==
  LET room == OutCapacity - Len(out)
      wanted == IF room < RecvSlots THEN room ELSE RecvSlots
      ready == PrepareSlots(Pool("rx"), recv_buffers, 1, wanted)
      up == Deliver(received)
      Item(i) == [buffer |-> ready.slots[i], number |-> dequeued + i]
      taken == {ready.slots[up[k]] : k \in DOMAIN up}
      fresh == Shown(ready.slots) \ Shown(recv_buffers)
      slot_of == [b \in taken |-> CHOOSE i \in 1..received : ready.slots[i] = b]
  IN  /\ ~ closed /\ wanted > 0
      /\ received \in 0..ready.count /\ received <= Len(arrived) - dequeued
      /\ SetPools(ready.pool, Pool("tx"))
      /\ recv_buffers' = [i \in 1..RecvSlots |->
                            IF ready.slots[i] \in taken THEN NoBuffer ELSE ready.slots[i]]
      /\ window' = Showing(fresh \cup taken,
                     [b \in fresh \cup taken |->
                        IF b \in taken
                          THEN set_received_len(layout.rx, arrived[dequeued + slot_of[b]].len)
                          ELSE Fresh(layout.rx)])
      /\ out' = out \o [k \in DOMAIN up |-> Item(up[k])]
      /\ delivered' = delivered \o [k \in DOMAIN up |-> dequeued + up[k]]
      /\ dequeued' = dequeued + received
      /\ UNCHANGED <<held, arrived, edits, closed>>

\* The application empties its RecvBatch.
TakeReceived ==
  /\ out # <<>>
  /\ held' = held \cup {out[k].buffer : k \in DOMAIN out}
  /\ out' = <<>>
  /\ UNCHANGED <<free, remote, allocated, window, recv_buffers, arrived,
                 dequeued, delivered, edits, closed>>

----------------------------------------------------------------------------
(* The application's buffers.                                              *)

Edit(b, n) ==
  LET l == layout[b[1]]
  IN  /\ edits < MaxEdits /\ edits' = edits + 1
      /\ \E w \in {prepend(window[b], l, n), extend_from_slice(window[b], l, n),
                   trim_prefix(window[b], n), trim_suffix(window[b], n)} :
           window' = [window EXCEPT ![b] = w]
      /\ UNCHANGED <<free, remote, allocated, recv_buffers, out, held, arrived,
                     dequeued, delivered, closed>>

\* Dropped on the socket's thread or on another one.
Drop(b, owner) ==
  /\ IF owner
       THEN PushAll(<<b>>)
       ELSE /\ remote' = [remote EXCEPT ![b[1]] = @ \cup {b}]
            /\ UNCHANGED <<free, allocated>>
  /\ held' = held \ {b}
  /\ window' = Hiding({b})
  /\ UNCHANGED <<recv_buffers, out, arrived, dequeued, delivered, edits, closed>>

\* The socket is dropped.  By the lifetime contract its buffers are back; the
\* prepared ones are released before the pools go.
Close ==
  /\ ~ closed /\ held = {} /\ out = <<>>
  /\ closed' = TRUE
  /\ PushAll(SelectSeq(recv_buffers, LAMBDA b : b # NoBuffer))
  /\ recv_buffers' = [i \in 1..RecvSlots |-> NoBuffer]
  /\ window' = Hiding(Shown(recv_buffers))
  /\ UNCHANGED <<out, held, arrived, dequeued, delivered, edits>>

OsNext ==
  \/ \E n \in 1..max_buffers.tx : AllocateTxBatch(n)
  \/ \E s \in {<<b>> : b \in held} \cup {<<b, c>> : b, c \in held} :
       /\ IsInjective(s)
       /\ \E n \in 1..Len(s) : SendAccepted(s, n)
  \/ \E max \in 1..max_buffers.tx : \E filled \in 0..max : EndpointBatch(max, filled)
  \/ \E kind \in Datagrams : Arrive(kind)
  \/ \E received \in 0..RecvSlots : RecvImpl(received)
  \/ TakeReceived
  \/ \E b \in held : Edit(b, 1)
  \/ \E b \in held, owner \in BOOLEAN : Drop(b, owner)
  \/ Close

----------------------------------------------------------------------------
\* Every buffer a pool made is in exactly one place and no pool makes more
\* than its limit, so neither a truncated datagram nor a refused batch loses
\* one; the remote queue, whose capacity is the limit, cannot overflow; each
\* window stays inside its chunk behind the link-layer headroom, which the
\* unchecked slices and the `expect' of headroom() rely on; and a closed
\* socket leaves no prepared buffer behind.
BuffersAccounted ==
  \A p \in Pools :
    LET made == {<<p, n>> : n \in 1..allocated[p]}
        places == <<ToSet(free[p]), remote[p],
                    {b \in Shown(recv_buffers) : b[1] = p},
                    {b \in held : b[1] = p},
                    {b \in {out[k].buffer : k \in DOMAIN out} : b[1] = p}>>
    IN  /\ allocated[p] <= max_buffers[p]
        /\ UNION ToSet(places) = made
        /\ \A i, j \in DOMAIN places : i # j => places[i] \cap places[j] = {}
        /\ IsInjective(free[p])
        /\ \A i, j \in 1..RecvSlots :
             i # j /\ recv_buffers[i] = recv_buffers[j] => recv_buffers[i] = NoBuffer
        /\ \A b \in made \ (ToSet(free[p]) \cup remote[p]) :
             b \in DOMAIN window /\ Inside(window[b], layout[p])
        /\ closed => ToSet(free[p]) \cup remote[p] = made

\* The application gets every datagram the socket read that fits a buffer and
\* has a source, in order, once, with exactly its bytes in the window, however
\* the others around it are dropped and their buffers used again.
DeliveredInOrder ==
  /\ delivered = SelectSeq([i \in 1..dequeued |-> i], LAMBDA i : Good(arrived[i]))
  /\ \A k \in DOMAIN out :
       window[out[k].buffer] = set_received_len(layout.rx, arrived[out[k].number].len)
=============================================================================
