----------------------------- MODULE AsyncActor -----------------------------
(***************************************************************************)
(* The Tokio UDP actor (fast-socket-async-rs).  One task owns the socket;  *)
(* the application reaches it through a bounded command channel and a      *)
(* bounded channel of received batches, and borrows socket buffers under   *)
(* leases that the actor counts and waits for before it drops the socket.  *)
(*                                                                         *)
(* A step of the actor ends where another thread can interfere: at a       *)
(* channel operation, at an access to the lease counter, at an await.  The *)
(* socket itself is private to the actor and external to this module.      *)
(***************************************************************************)
EXTENDS Integers, FiniteSets, SequencesExt

CONSTANTS
    Buffer,        \* socket buffers
    CommandCap,    \* config.command_queue_capacity
    RxCap,         \* config.rx_queue_capacity
    PendingCap,    \* config.pending_tx_capacity
    Droppers       \* bound: threads dropping buffers at the same time

\* ActorConfig::normalize
ASSUME ActorAssumption ==
    /\ IsFiniteSet(Buffer)
    /\ CommandCap \in Nat \ {0} /\ RxCap \in Nat \ {0} /\ PendingCap \in Nat \ {0}
    /\ Droppers \in Nat \ {0}

VARIABLES
    commands,            \* the command channel
    senders,             \* an AsyncUdpHandle is alive
    closed,              \* the command receiver is closed
    rx_queue,            \* the channel of received batches
    rx_receiver,         \* the AsyncUdpRx is alive
    pending_tx, rx_open, commands_open, shutdown_requested, progressed,
    batch,               \* received packets in rx_tx.send().await
    outstanding_buffers,
    pc, result,          \* of the actor task
    held,                \* buffers in the application's wrappers
    awaiting,            \* an alloc_tx_batch call waits for its reply
    releasing,           \* wrappers whose buffer is dropped, the lease not yet
    notifying            \* threads between fetch_sub and notify_waiters

chan == <<commands, senders, closed, rx_queue, rx_receiver>>
loop == <<pending_tx, rx_open, commands_open, shutdown_requested, progressed, batch>>
app == <<held, awaiting, releasing, notifying>>
vars == <<chan, loop, outstanding_buffers, pc, result, app>>

Allocate == [op |-> "allocate", bufs |-> <<>>]
Shutdown == [op |-> "shutdown", bufs |-> <<>>]
SendCommand(s) == [op |-> "send", bufs |-> s]

Init ==
    /\ commands = <<>> /\ senders = TRUE /\ closed = FALSE
    /\ rx_queue = <<>> /\ rx_receiver = TRUE
    /\ pending_tx = <<>> /\ batch = {}
    /\ rx_open = TRUE /\ commands_open = TRUE
    /\ shutdown_requested = FALSE /\ progressed = FALSE
    /\ outstanding_buffers = 0
    /\ pc = "commands" /\ result = "none"
    /\ held = {} /\ awaiting = FALSE /\ releasing = 0 /\ notifying = 0

\* The buffers out on a lease, and those of the socket.
Queued == UNION {ToSet(commands[i].bufs) : i \in DOMAIN commands}
Leased == held \cup batch \cup Queued \cup UNION ToSet(rx_queue)
Pool == Buffer \ (Leased \cup ToSet(pending_tx))

-----------------------------------------------------------------------------
(* The actor task.                                                         *)

\* Mutant of HandleSend: a batch overtakes the ones before it.
HandleSendFirst(c) ==
    /\ pending_tx' = c.bufs \o pending_tx
    /\ outstanding_buffers' = outstanding_buffers - Len(c.bufs)
    /\ UNCHANGED <<held, awaiting, shutdown_requested, commands_open, closed>>

\* into_transmit releases the lease of each packet.
HandleSend(c) ==
    /\ pending_tx' = pending_tx \o c.bufs
    /\ outstanding_buffers' = outstanding_buffers - Len(c.bufs)
    /\ UNCHANGED <<held, awaiting, shutdown_requested, commands_open, closed>>

\* The first command carries the oneshot of the call that waits: a call sends
\* one allocation, so an allocation further back is the waiting call's, and
\* the ones before it were cancelled.
FirstAwaited ==
    /\ awaiting /\ Head(commands).op = "allocate"
    /\ \A i \in 2 .. Len(commands) : commands[i].op # "allocate"

\* A reply nobody awaits is dropped, and its leases with it.
HandleAllocate ==
    /\ \E S \in SUBSET Pool :
        IF FirstAwaited
        THEN /\ held' = held \cup S
             /\ outstanding_buffers' = outstanding_buffers + Cardinality(S)
        ELSE UNCHANGED <<held, outstanding_buffers>>
    /\ awaiting' = (awaiting /\ ~FirstAwaited)
    /\ UNCHANGED <<pending_tx, shutdown_requested, commands_open, closed>>

HandleShutdown ==
    /\ shutdown_requested' = TRUE /\ commands_open' = FALSE /\ closed' = TRUE
    /\ UNCHANGED <<pending_tx, outstanding_buffers, held, awaiting>>

\* handle_command on the first command of the channel, and its caller's
\* reaction to a shutdown
HandleCommand ==
    /\ commands # <<>> /\ commands' = Tail(commands)
    /\ LET c == Head(commands)
       IN \/ c.op = "allocate" /\ HandleAllocate
          \/ c.op = "send" /\ HandleSend(c)
          \/ c.op = "shutdown" /\ HandleShutdown
    /\ UNCHANGED <<senders, rx_queue, rx_receiver, rx_open, batch, result,
                   releasing, notifying>>

\* The channel is empty and every sender is gone.
Disconnected ==
    /\ commands = <<>> /\ ~senders /\ commands_open' = FALSE
    /\ UNCHANGED <<chan, pending_tx, rx_open, shutdown_requested, batch,
                   outstanding_buffers, result, app>>

Accepting ==
    commands_open /\ ~shutdown_requested /\ Len(pending_tx) < PendingCap

\* The try_recv loop at the top of run_actor_inner.
TryRecv ==
    /\ pc = "commands"
    /\ \/ /\ Accepting /\ HandleCommand
          /\ progressed' = TRUE
          /\ pc' = IF shutdown_requested' THEN "socket" ELSE "commands"
       \/ /\ Accepting /\ Disconnected
          /\ pc' = "socket" /\ UNCHANGED progressed
       \/ /\ Accepting => commands = <<>> /\ senders
          /\ pc' = "socket"
          /\ UNCHANGED <<chan, loop, outstanding_buffers, result, app>>

Fail ==
    /\ result' = "err" /\ pc' = "exit"
    /\ UNCHANGED <<rx_open, commands_open, shutdown_requested, progressed, batch,
                   outstanding_buffers>>

\* flush_pending_tx, drain_tx_completions, flush_pending_tx, then recv: the
\* socket accepts a prefix of the pending packets and may yield a batch, whose
\* packets get their leases; any of the calls may fail.
Socket ==
    /\ pc = "socket"
    /\ \E n \in 0 .. Len(pending_tx), drained \in BOOLEAN, S \in SUBSET Pool :
        /\ pending_tx' = SubSeq(pending_tx, n + 1, Len(pending_tx))
        /\ \/ Fail
           \/ /\ S # {} => rx_open /\ ~shutdown_requested
              /\ progressed' = (progressed \/ n > 0 \/ drained \/ S # {})
              /\ batch' = S
              /\ outstanding_buffers' = outstanding_buffers + Cardinality(S)
              /\ pc' = IF S = {} THEN "check" ELSE "deliver"
              /\ UNCHANGED <<rx_open, commands_open, shutdown_requested, result>>
    /\ UNCHANGED <<chan, app>>

\* Mutant of Deliver: the batch is dropped without its leases.
DeliverLeaks ==
    /\ pc = "deliver" /\ pc' = "check" /\ batch' = {}
    /\ \/ /\ rx_receiver /\ Len(rx_queue) < RxCap
          /\ rx_queue' = Append(rx_queue, batch)
          /\ UNCHANGED <<rx_open, outstanding_buffers>>
       \/ /\ ~rx_receiver /\ rx_open' = FALSE
          /\ UNCHANGED <<rx_queue, outstanding_buffers>>
    /\ UNCHANGED <<commands, senders, closed, rx_receiver, pending_tx, commands_open,
                   shutdown_requested, progressed, result, app>>

\* rx_tx.send(batch).await; with the receiver gone the batch is dropped
Deliver ==
    /\ pc = "deliver" /\ pc' = "check" /\ batch' = {}
    /\ \/ /\ rx_receiver /\ Len(rx_queue) < RxCap
          /\ rx_queue' = Append(rx_queue, batch)
          /\ UNCHANGED <<rx_open, outstanding_buffers>>
       \/ /\ ~rx_receiver /\ rx_open' = FALSE
          /\ outstanding_buffers' = outstanding_buffers - Cardinality(batch)
          /\ UNCHANGED rx_queue
    /\ UNCHANGED <<commands, senders, closed, rx_receiver, pending_tx, commands_open,
                   shutdown_requested, progressed, result, app>>

\* Mutant of Finished: a shutdown also waits for the receiver to go away.
FinishedBoth == ~commands_open /\ ~rx_open /\ pending_tx = <<>>

Finished ==
    (shutdown_requested \/ (~commands_open /\ ~rx_open)) /\ pending_tx = <<>>

\* The end of a pass: return, go round again, or wait.
Check ==
    /\ pc = "check"
    /\ \/ Finished /\ pc' = "exit" /\ result' = "ok" /\ UNCHANGED progressed
       \/ /\ ~Finished
          /\ pc' = IF progressed THEN "commands" ELSE "select"
          /\ progressed' = FALSE /\ UNCHANGED result
    /\ UNCHANGED <<chan, pending_tx, rx_open, commands_open, shutdown_requested,
                   batch, outstanding_buffers, app>>

\* The branches of select!: a command or the closing of the channel, while
\* commands are open ...
SelectCommand ==
    /\ pc = "select" /\ pc' = "commands"
    /\ commands_open /\ ~shutdown_requested
    /\ HandleCommand \/ Disconnected
    /\ UNCHANGED progressed

\* ... or the wait fd, the only one left after a shutdown, which becomes
\* readable (wait_fd.readable, clear_ready) ...
Readable ==
    /\ pc = "select" /\ pc' = "commands"
    /\ UNCHANGED <<chan, loop, outstanding_buffers, result, app>>

\* ... or fails.
WaitFails == pc = "select" /\ Fail /\ UNCHANGED <<chan, pending_tx, app>>

Select == SelectCommand \/ Readable \/ WaitFails

\* Mutant of Exit: the commands left in the channel are not discarded.
ExitKeepsCommands ==
    /\ pc = "exit" /\ pc' = "load"
    /\ pending_tx' = <<>> /\ closed' = TRUE
    /\ UNCHANGED <<commands, senders, rx_queue, rx_receiver, rx_open, commands_open,
                   shutdown_requested, progressed, batch, outstanding_buffers,
                   result, app>>

\* run_actor_inner has returned: its pending packets are dropped and the
\* channel is closed
Exit ==
    /\ pc = "exit" /\ pc' = "discard"
    /\ pending_tx' = <<>> /\ closed' = TRUE
    /\ UNCHANGED <<commands, senders, rx_queue, rx_receiver, rx_open, commands_open,
                   shutdown_requested, progressed, batch, outstanding_buffers,
                   result, app>>

\* while commands.recv().await.is_some() {}: each command is dropped, an
\* allocation's caller learns that the actor is closed
Discard ==
    /\ pc = "discard"
    /\ \/ /\ commands # <<>> /\ commands' = Tail(commands)
          /\ outstanding_buffers' = outstanding_buffers - Len(Head(commands).bufs)
          /\ awaiting' = (awaiting /\ ~FirstAwaited)
          /\ UNCHANGED pc
       \/ /\ commands = <<>> /\ pc' = "load"
          /\ UNCHANGED <<commands, outstanding_buffers, awaiting>>
    /\ UNCHANGED <<senders, closed, rx_queue, rx_receiver, loop, result, held,
                   releasing, notifying>>

\* Mutant of LoadOutstanding: the counter is not looked at.
LoadNothing ==
    /\ pc = "load" /\ pc' = "done"
    /\ UNCHANGED <<chan, loop, outstanding_buffers, result, app>>

\* wait_for_buffers: load the counter; create the Notified future; await it
LoadOutstanding ==
    /\ pc = "load"
    /\ pc' = IF outstanding_buffers = 0 THEN "done" ELSE "register"
    /\ UNCHANGED <<chan, loop, outstanding_buffers, result, app>>

Register ==
    /\ pc = "register" /\ pc' = "wait"
    /\ UNCHANGED <<chan, loop, outstanding_buffers, result, app>>

Actor ==
    \/ TryRecv \/ Socket \/ Deliver \/ Check \/ Select \/ Exit \/ Discard
    \/ LoadOutstanding \/ Register

-----------------------------------------------------------------------------
(* The application.  A call on a closed channel returns an error and leaves *)
(* everything as it was.                                                   *)

SendOn(c) ==
    /\ senders /\ ~closed /\ Len(commands) < CommandCap
    /\ commands' = Append(commands, c)
    /\ UNCHANGED <<senders, closed, rx_queue, rx_receiver, loop,
                   outstanding_buffers, pc, result, releasing, notifying>>

AllocTxBatch == ~awaiting /\ SendOn(Allocate) /\ awaiting' = TRUE /\ UNCHANGED held

\* send_tx_buffers, send_tx_packets
SendTx ==
    \E S \in SUBSET held \ {{}} : \E s \in SetToSeqs(S) :
        SendOn(SendCommand(s)) /\ held' = held \ S /\ UNCHANGED awaiting

RequestShutdown == SendOn(Shutdown) /\ UNCHANGED <<held, awaiting>>

\* The future of alloc_tx_batch is dropped.
CancelAlloc ==
    /\ awaiting /\ awaiting' = FALSE
    /\ UNCHANGED <<chan, loop, outstanding_buffers, pc, result, held, releasing,
                   notifying>>

RecvBatch ==
    /\ rx_receiver /\ rx_queue # <<>>
    /\ rx_queue' = Tail(rx_queue) /\ held' = held \cup Head(rx_queue)
    /\ UNCHANGED <<commands, senders, closed, rx_receiver, loop,
                   outstanding_buffers, pc, result, awaiting, releasing, notifying>>

DropHandles ==
    /\ senders /\ ~awaiting /\ senders' = FALSE
    /\ UNCHANGED <<commands, closed, rx_queue, rx_receiver, loop,
                   outstanding_buffers, pc, result, app>>

\* Dropping the receiver drops the batches in the channel.
DropRx ==
    /\ rx_receiver /\ rx_receiver' = FALSE /\ rx_queue' = <<>>
    /\ releasing' = releasing + Cardinality(UNION ToSet(rx_queue))
    /\ UNCHANGED <<commands, senders, closed, loop, outstanding_buffers, pc,
                   result, held, awaiting, notifying>>

\* A wrapper is dropped: the buffer goes back to its pool, then the lease
\* follows (Release), and the thread that took the counter to zero notifies.
DropBuffer(b) ==
    /\ releasing + notifying < Droppers
    /\ b \in held /\ held' = held \ {b} /\ releasing' = releasing + 1
    /\ UNCHANGED <<chan, loop, outstanding_buffers, pc, result, awaiting, notifying>>

Release ==
    /\ releasing > 0 /\ releasing' = releasing - 1
    /\ outstanding_buffers' = outstanding_buffers - 1
    /\ notifying' = IF outstanding_buffers = 1 THEN notifying + 1 ELSE notifying
    /\ UNCHANGED <<chan, loop, pc, result, held, awaiting>>

\* notify_waiters wakes the futures that exist, and leaves nothing behind for
\* one created later.
NotifyWaiters ==
    /\ notifying > 0 /\ notifying' = notifying - 1
    /\ pc' = IF pc = "wait" THEN "load" ELSE pc
    /\ UNCHANGED <<chan, loop, outstanding_buffers, result, held, awaiting, releasing>>

Application ==
    \/ AllocTxBatch \/ SendTx \/ RequestShutdown \/ CancelAlloc \/ RecvBatch
    \/ DropHandles \/ DropRx \/ (\E b \in Buffer : DropBuffer(b))
    \/ Release \/ NotifyWaiters

Next == Actor \/ Application

Spec == Init /\ [][Next]_vars

\* The steps the runtime owes the actor: all but those that wait for the
\* descriptor, which nothing obliges to become readable or to fail.
Runs ==
    \/ TryRecv \/ Socket \/ Deliver \/ Check \/ SelectCommand \/ Exit \/ Discard
    \/ LoadOutstanding \/ Register

\* The actor runs; a socket that is asked again and again accepts a packet;
\* the application reads its batches and drops its buffers.
FairSpec ==
    /\ Spec
    /\ WF_vars(Runs)
    /\ SF_vars(Socket /\ Len(pending_tx') < Len(pending_tx))
    /\ WF_vars(RecvBatch) /\ \A b \in Buffer : WF_vars(DropBuffer(b))
    /\ WF_vars(Release) /\ WF_vars(NotifyWaiters)

-----------------------------------------------------------------------------

\* The lease counter is exact: it counts the buffers in the application's
\* hands, in either channel and in a reply, and the wrappers being dropped,
\* through cancelled allocations, dropped receivers and discarded commands.
LeaseExact == outstanding_buffers = Cardinality(Leased) + releasing

\* The actor task ends, and with it the socket, only when every buffer lent
\* out has gone back to the socket: wait_for_buffers and the discarding of the
\* channel leave none behind on any path.
SocketOutlivesBuffers == pc = "done" => Leased = {}

\* The packets on their way out, oldest first.
TxQueue == pending_tx \o FlattenSeq([i \in DOMAIN commands |-> commands[i].bufs])

\* Packets leave in the order in which they were sent to the actor: of the
\* pending packets followed by the queued sends, a step takes a prefix off
\* (flush_pending_tx) or adds at the end.
TxInOrder ==
    [][IsPrefix(TxQueue, TxQueue') \/ IsSuffix(TxQueue', TxQueue)]_vars

Stopped == pc \in {"load", "register", "wait", "done"}

\* The actor has seen a shutdown, has packets it could not send, and waits
\* for its descriptor to become readable: neither a command nor a completion
\* wakes it.
Parked == shutdown_requested /\ pc = "select" /\ pending_tx # <<>>

\* A shutdown the actor has seen stops it: it sends what is pending, discards
\* what is queued behind, and goes on to wait for the lent buffers, unless it
\* stays parked with packets the socket would not take on a descriptor that
\* never becomes readable again.
ShutdownDrains == (shutdown_requested ~> Stopped) \/ <>[]Parked

\* Every allocation call is answered, with buffers or with ActorClosed, also
\* when a shutdown or a socket error overtakes it, unless the actor stays
\* parked with the call queued behind the shutdown.
AllocationAnswered == (awaiting ~> ~awaiting) \/ <>[]Parked

\* "Requests shutdown and waits for the actor task to finish": once the actor
\* has seen a shutdown, does not stay parked, and the application drops the
\* buffers it holds, the actor task finishes.
ShutdownCompletes == (shutdown_requested ~> (pc = "done")) \/ <>[]Parked
=============================================================================
