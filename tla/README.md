# TLA+ verification of fast-socket-rs

fast-socket-rs moves UDP datagrams and IP packets in batches, through ordinary
sockets or through AF_XDP. This directory models the parts of it whose
correctness depends on the order in which threads, the application and the kernel take their
steps, checks them with TLC on small instances, and proves the main safety
properties with TLAPS for every value of the constants.

## 1. Inventory

| Part | State | Operations | What makes it hard |
|---|---|---|---|
| Descriptor rings (`ring.rs`, `raw_socket.rs`) | two shared u32 indexes, two cached copies on each side, slots | sync, produce, commit, consume, release | stale caches, wrapping, publication order |
| Frame reclaim (xdp and os `buffer.rs`) | owner's free list, bounded queue, approximate counter | push on any thread, pop, drain | count and queue change in separate atomic accesses; a full queue panics in a destructor |
| XDP socket (`socket.rs`) | frames in pools, rings, buffers and kernel; `tx_in_flight`; free list capacities | allocate, send, endpoint batch, recv, drain, notify, drop | received buffers may be sent; unchecked writes into free lists; frames shared by members |
| TX doorbell (`socket.rs`, `raw_socket.rs`) | NEED_WAKEUP, `tx_wake_pending` | send, notify_tx | the kernel parks between the check and the publish; sendto fails or is swallowed |
| Async actor (`unix.rs`) | two bounded channels, pending queue, lease counter | allocate, send, receive, shutdown, drop | cancelled futures, dropped endpoints, errors, a lost notification |
| Routes (`route.rs`, `egress.rs`, poptrie) | snapshot, two derived indexes, trie tables | upsert, rebuild, lookup | derived indexes must agree with the routes; unchecked table accesses |
| Route monitor, endpoint cache | published snapshot, generations, cached headers | publish, apply, refresh, patch | concurrent publishers, stale caches, checksum arithmetic |
| Program registry, factory, eBPF filter | registry by interface, mutexes, XSKMAP, bound-port maps, plans | build, load, register, bind, unbind, open, drop, redirect | multi-step updates that can fail halfway; two levels of locks; a reference count read before the drop |
| Aggregates | members, round-robin cursors | recv, send, drain | an error in one member |
| OS backend, core traits | batches of slots, buffer pools, packet windows | send, recv, send_all, grow, edit | prefix acceptance, partial failure, headers written into the caller's packet |
| Netlink, interface discovery, UMEM, config, affinity | none of their own | I/O, parsing, builders | - |

The parts meet in the frame: an address into the UMEM that passes from a free
list (frame reclaim) to the application, through a ring to the kernel, through
another ring back to the socket, and home again. The doorbell decides whether
the kernel looks at the TX ring at all. The actor owns a socket of either
backend and lends its buffers to other tasks. The control plane decides which
frames reach a socket; the routes decide where its packets go.

The correctness properties wanted of the system: rings are FIFO channels; no frame is
lost, doubled or reused while the kernel has it; the two halves of the UMEM stay
apart; counters used for decisions are exact; unchecked writes and panicking
pushes always have room; returned frames come back into use; published packets
are sent; the actor keeps order, answers every call, outlives its buffers and
terminates; a packet goes where the current routes say; an open socket gets its
traffic and no other traffic is taken; a send reports exactly the prefix it
took; every queue is served. `PROJECT.json` lists the hazards with their source lines.

## 2. Modules

**`Ring`** has both ends of one ring. Its variables are the shared `producer`
and `consumer`, the cached copies on either side, the slots, and three history
sequences (`staged`, `taken`, `delivered`). An action is one method of `RingProducer` or
`RingConsumer`: each makes at most one access to a shared index. Indexes count
modulo `WRAP` (2^32 in the code). `RingChannel` is the promise, a bounded FIFO
of batches; `Ring` implements it with `queue` mapped to the slots between
`consumer` and `producer`.

**`FrameReclaim`** has the owner's `free` list, the remote queue `inner` and its
counter `len`. A remote drop is two actions (`fetch_add`, then the push) and the
owner's drain is a load, a pop per frame and a `fetch_sub`, so that every
interleaving of the atomic accesses happens. The model is sequentially
consistent. The code's `Relaxed` accesses do not weaken this: the queue's own
release/acquire stamps order a `fetch_add` before the pop of the frame it
announces, hence before the `fetch_sub` that takes it off again, and a gate that
reads an old zero only postpones the drain. `FramePool` is the promise: an atomic
put and take.

**`XdpSocket`** says in which place each frame is: `frames[<<kind, member>>]`.
The places are the two free lists with their remote queues, the four rings, the
kernel's hands and the application's. The actions are the public operations as whole
handlers (a send includes its drains, a receive includes its refill) and the
kernel's four moves. `rx_cap` and `tx_cap` are the capacities of the free
lists' vectors; `panicked` records a failed `debug_assert` of completion reclaim (in
a release build the write is out of bounds). With `Members > 1` the module is a
shared-UMEM group, in which any member may send a buffer of any other. It
abstracts from ring order (that is `Ring`) and from the steps inside a remote
drop (that is `FrameReclaim`).

**`TxDoorbell`** counts frames instead of naming them and splits `send` at its
reads of the NEED_WAKEUP flag. The kernel consumes, finds the ring empty, and parks
in two steps, as drivers do: it sets the flag after it looked. `sendto` rings,
fails, or returns one of the errnos the code takes for success. `Flushes` says whether the
application calls `notify_tx`.

**`AsyncActor`** is the actor task, one action between two points where another
task can interfere (channel operation, counter access, await), with its two
channels, pending queue and lease counter, and an application that allocates, sends,
receives, cancels, drops and shuts down. Tokio's channels, oneshot replies and
`Notify` are modelled from their use; `notify_waiters` wakes only the waiters
already registered.

**`Poptrie`** is the trie crate as pure operators: `insert` into a binary trie,
`build` into direct array, stride nodes and leaf runs, `lookup` with population
counts, and `validate_invariants`, which the code runs after a build. Bitmaps
are sets of slots. **`RouteTable`** has `RouteSnapshot`: routes, neighbors and
interfaces, the trie from destination to route, the per-interface egress slots,
and the upserts that rebuild them. `Resolves` compares the indexed lookup with a
scan of the routes. **`RouteMonitor`** adds the processes: publishers that
stamp a snapshot and store it in a second step, and queues that load it, hold
updates back, adopt them and send through an endpoint that caches its header by
route generation.

**`EndpointHeader`** is the cached header itself, in 16-bit words: the full
checksum written when the template is made and the incremental update for each
payload length, in place in `send_to_udp_endpoint` and in a copy in the
endpoint batch.

**`FrameFilter`** has the verdict of the two eBPF programs on a frame and what
the socket's parser accepts of it; a frame is its chain of ethertypes and the
header fields that are looked at. **`XdpControl`** composes it with the
program registry: `pc[t]` is where a thread is in `open`, `drop`, `release` or
`build`, and a step ends where another thread or the eBPF program can look, at a
mutex, a map update or a system call. `failures` counts the steps that failed.
`handles` are the `Arc`s of a program; their sum with the registry's own is the
strong count `release` reads. A factory is given by its filter, the slots it
claims and the plans it may make. **`QueuePlan`** computes those, with queue discovery
through bonds and the division of the queues into worker plans, and **`XdpFactory`**
joins the two.

**`PacketWindow`** is the window of bytes a buffer shows, with the edits of both
backends. **`BatchSend`** has the senders (OS on Linux and BSD, XDP UDP,
IP and endpoint, the generic endpoint) as operators from a row of slots to the set of
outcomes the kernel's answers allow, and the calls `send` and `send_all` as
actions over them. An XDP endpoint is resolved again before the slots are looked at,
which may fail. **`OsSocket`** has the OS backend's pools and receive path.
**`Aggregate`** has the receive sweep. `MCDataPath`
runs the three; they share no state, so each behaviour is about one of them.

`MC*` modules instantiate these for TLC, `*Proof` modules hold the theorems. In
each module the operators named after a definition with a suffix (`WAddNoWrap`,
`SendCountsCalls`, ...) are faulty variants that no specification uses; replacing
the definition by its variant makes the property named in `PROJECT.json` fail.

## 3. Runs

| Run | Instance | Shows |
|---|---|---|
| `ring` | `SIZE = 2`, `WRAP = 8`, three values | index order, and that a ring is a FIFO |
| `reclaim` | three frames, two remote threads | conservation, exact counter, room for every push, return of remote frames, refinement of the pool |
| `xdp_socket` | one socket, four frames, batches of two, rings of two, RX and completion rings of one | conservation, separate halves, exact in-flight count, capacity, no early reuse; refill and recovery of allocation |
| `shared_capacity` | two members, two frames each | **violated**: capacity of completion reclaim |
| `doorbell` | three frames, TX ring of two, flushing application, every outcome of sendto | what explains a stall; a flush ends it |
| `doorbell_sender` | the same, no flush, sendto always rings | **violated**: recovery of a sender that only sends |
| `actor` | two buffers, command queue of two, other queues of one | leases, order; shutdown and answers, but for the wait of an actor that cannot send |
| `actor_shutdown` | the same | **violated**: the task ends after a shutdown |
| `routes` | five-bit addresses (one direct bit, stride two), two publishers, one queue on an enslaved interface, three upserts, two publications | valid tables, resolution equal to a scan, fresh endpoints, adoption of the table that belongs to each generation, convergence of the queue |
| `endpoint_checksum` | three endpoints, payloads up to the MTU's edge | **violated**: patched headers verify |
| `control` | a bond of two interfaces on two NUMA nodes, ten factories, two workers, one more socket on the same program, one failure | reception by open sockets, nothing else taken but ports a factory filled in, no frame dropped while opening or dropping, exact registry, partition of the queues, every call returns |
| `data_path` | batches of up to three slots of nine kinds, pools of three and two buffers, three members | contract of partial sends, `send_all` returns, buffers accounted for, datagrams in order, every queue served while sweeps succeed |

Bounds. The ring indexes wrap after four times around the ring, so every
relative position of the six cursors occurs on both sides of the wrap; a
batch of `SIZE + 1` meets a full and an empty ring. In `reclaim` two droppers and the owner
give every pair of racing pushes, and a push racing a drain of another's frame;
three frames leave one to be popped meanwhile. In `xdp_socket` each half has two
frames, so a batch can be partly accepted and a ring can be full with a frame left
over; the completion ring of one makes the kernel wait for a drain. In `doorbell` there are more frames than ring
slots, so a stalled ring can be full while the application still holds a frame.
In `actor` every queue can be full with a
sender waiting; `Droppers` bounds the threads that are inside a buffer's destructor. The actor may
stop (the task ends), so its runs do not check deadlock. In `routes` the five-bit key
has a direct part and two strides, so the trie has leaf runs inside a
node, nodes below nodes and routes shorter than the direct part; the routes overlap, two share a
prefix with different priorities, and one goes over the bond whose slave the queue
is. Two publications are enough for the stores to happen in the other order. In
`control` the factories differ in their port filter, claimed queues and number of
workers, some of them must be refused, and the third socket binds
another port on the same program, so every map is shared by two users. One
failure reaches every error path; what two failures of map updates leave behind is
not covered. In `data_path` a
batch of three with chunks of two has a second chunk, batches of three have a good slot
among them, and the slots are good,
oversize for the MTU or for the header's length field, badly addressed, without a route, without room for the link-layer header,
without room for any header, or already taken. A dropped OS socket does nothing more, so deadlock is not
checked there.

Fairness. In `reclaim` a started call is finished and the owner comes back to
drain, which recv does on each call. In `xdp_socket` the application keeps
calling recv and allocate, the kernel consumes the FIFO TX ring and completes
what it consumed; an endpoint batch takes frames without the allocator, so
`AllocationRecovers` is stated for executions in which those end. In `doorbell`
the sender keeps allocating and sending, a call that was begun goes on, a sendto repeated for
ever succeeds at some time, and the kernel runs. In `actor` the task is
scheduled, a socket asked again and again takes a
packet, and the application reads its batches and drops its buffers. The
application is never assumed to make a new request there, nor the descriptor to become
readable: an actor that has seen a shutdown with packets it could not send waits for the
descriptor alone, and the liveness properties except the executions in which it stays there
(`Parked`). In `routes` a publish that was
begun is finished and queue owners keep calling `apply_updates`. In `control` a
thread inside a call is scheduled; nobody is obliged to make one. In `data_path` a
kernel asked for ever takes a datagram or fails (strong fairness of the rounds that
make progress, OS paths only), and the application of an aggregate keeps receiving; that
a sweep succeeds now and then is not assumed but is the exception `QueuesServed` states.

## 4. Disagreements found

* Completion reclaim writes into a free list without checking its capacity, because "completion
  reclaim only returns frames previously removed from this owner-local free
  list". In a shared-UMEM group a transmit buffer allocated from one member and sent on
  another completes on the sender and is put on the sender's TX list
  (`shared_capacity`); the branch for received packets makes the same claim. For one
  socket it is a theorem.
* `send_inner` says a sustained sender recovers from the doorbell race "within
  one iteration". If the stalled descriptors fill the ring, later sends return
  before they reach the gate (`doorbell_sender`); `send_all` is such a sender. The
  comment on `tx_wake_pending` adds that a completion drain reissues an owed doorbell,
  which no drain does.
* `AsyncUdpActor::shutdown` "waits for the actor task to finish", but
  `wait_for_buffers` registers for the notification after it read the counter; a
  buffer released in between leaves the task waiting (`actor_shutdown`).
* The incremental IPv4 checksum folds once. When the sum of the three words is
  0x1FFFF the fold gives 0x10000, which the cast makes 0, and the header no longer
  verifies, which the tests assert of every patched header (`endpoint_checksum`). An endpoint from
  10.0.0.1 to 10.0.102.168 with a payload of 42 bytes is such a case, and since
  the template itself is patched the packets after it are wrong as well.

Met while modelling, without a run of their own: a member of an aggregate whose
`recv` fails on every call keeps the cursor before it, so the members after it
are not served; a frame with two VLAN tags, or one outer service tag, is redirected by the eBPF
program and then discarded by the socket's parser; ports bound by the factory are never
unbound and stay as long as the program lives (`unbind_port`: "when the last user drops
it"); a doorbell error of XDP is reported with the whole prefix accepted, so that there may be
no "next slot" that it rejected, as `SendError` says; an actor that has seen a shutdown
while its socket takes no packet waits only for its descriptor to become readable, so on a
quiet interface `shutdown` does not return.

## 5. Proofs

Assumptions are the named `ASSUME`s of the modules: sizes are positive,
the ring size divides the index range, frame sets are finite, the remote queue holds
at least all frames, the RX half fits the FILL ring. They restate the checks of the
constructors.

* `RingProof`: `TypeOK /\ CursorOrder` is inductive. The order is stated as
  distances from the oldest cursor; lemmas say how distances change when one
  cursor advances (`OrderedReserve`, `OrderedConsume`) or the base moves
  (`OrderedRebase`), with wrapping arithmetic only in `WSubRebase`.
* `FrameReclaimProof`: the inductive invariant is the conjunction of the type invariant, conservation,
  the exact counter and the absence of a panic. The last needs the others: a
  push has room because the frame being pushed is not in the queue and the capacity
  covers all frames. `ImplementsPool` maps every step to a put, a take or a stutter.
* `XdpSocketProof`: the inductive invariant is `TypeOK`, conservation and separation of
  the assignment of frames (`Good`), and `InFlightExact`. Handlers are chains of moves, so
  the lemmas are about one move (`MoveGood`) and about chains (`Chain`, `DrainChain`), and
  the count is a cardinality argument on the three places of the TX path. `NoEarlyReuse`
  follows from the same lemmas. `SingleSocketCapacity` adds `CapInv`, that a list's
  capacity is at least its half of the frames.
* `AsyncActorProof`: the lease counter counts a union of places (the application's
  hands, the queued commands, the receive queue, the actor's current batch), so the
  inductive invariant adds that the places are apart: buffers queued in different
  commands or batches differ, and the current batch is empty outside `deliver`. A
  step that moves buffers then changes the count by exactly what it moves.
  `SocketOutlivesBuffers` is a conjunct too: it needs the exact counter, which the
  task reads before it ends.
* `TransmitProof`: `StallExplained` is not inductive. It is strengthened by what a
  parked kernel implies for the flag (`Asks`) and by an account of descriptors the
  kernel has not seen at every point of a send (`Accounted`).
  For the header template, folding keeps a sum modulo 65535 and never gives 0
  (`FoldLemma`), so two sums that agree modulo 65535 fold to the same word. One
  fold of three words is complete unless their sum is 0x1FFFF (`ReplaceWordExact`). `ChecksumExact`
  carries this over a sequence of sends, with the invariant that the template and the
  last packet hold the checksum of their other words. It assumes `SingleCarry`, that the
  excluded sum does not occur: the disagreement of section 4 has no other cause. `WellFormed` says that
  the fields are words and that a fixed length was validated. Edits keep every window
  inside its chunk, for all layouts; `data_path` checks the same of the buffers of a
  running socket.
* `RouteMonitorProof`: `EndpointFresh` is inductive with the types of what the endpoints depend
  on: adopting updates moves a queue's generation, and nothing else changes a snapshot
  (`AdoptedFresh`). `PublishesNoticed` is the safety half of convergence: a generation that was
  taken and not yet stored is nobody else's (`GenerationInv`), so the comparison for
  inequality in `apply_updates` never takes a new snapshot for an old one, in whatever order
  publishers store. Neither argument looks into the tables.
* `XdpControlProof`: the two parsers of a frame, one in eBPF and one in the socket,
  agree on the port, and the payload is inside the frame, for all lengths. Its other half is
  about handles: `ControlInv` says that a thread has those its next steps release (`Supplied`:
  two for every member still to be dropped) and that the workers wait for the factory. What each
  step of a drop leaves is a lemma on the numbers alone (`Enough`).
* `RegistryProof`: `RegistryIsExact` adds `RegistryInv` to these. `RegistryInv` says who may be
  inside the registry's mutex, that an interface has an entry exactly while a handle is in use,
  a handle that `release` is about to drop not counted, and a program exactly while there is a
  handle. The strong count is the cardinality of the set of references, and equals two, or one,
  exactly for the last of them (`OneReference`). The factory enters only through
  `BuilderAssumption`, that plans are blocks of claimed queues, which TLC evaluates for the
  factories of `control`.

Only model-checked: all liveness properties, the refinement of `RingChannel` and
the transmit order of the actor (they need induction over sequences), the filter's maps
in the control plane, batches and OS pools. What the tries and the queue discovery
compute needs induction over data; the pool's allocation loop and the
aggregate's sweep are recursive operators, which the prover cannot use.

## 6. Not modelled

* Packet contents beyond the header fields named above, IP options, control
  messages, address conversion, logging and statistics.
* Descriptors the kernel never writes (out of range, not owned) and the error paths
  for them; the heap-backed pools used in tests.
* Netlink and sysfs input and its parsing, the monitor's thread and its poll
  interval: the models start from what a dump reports.
* UMEM allocation, NUMA memory policy, CPU affinity, configuration builders: system calls
  and constants without a state that later steps depend on.
* The transmit rotation of an aggregate, a counter no result depends on.
* Waiting on descriptors (`wait`, epoll), which only decides when the operations are called.
* Weak memory: the models are sequentially consistent, see `FrameReclaim` above.
* Examples and benchmarks.

## 7. Possible extensions

Proofs of `OpenSocketsReceive` and `NoFrameDropped`; an endpoint used with the socket of another
router; a single-task application of the actor; two failing map updates in `control`.
