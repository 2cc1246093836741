------------------------------ MODULE Aggregate ------------------------------
(***************************************************************************)
(* One logical socket fed by several queues.  recv sweeps the members from *)
(* a cursor until the caller's batch is full or every member was visited,  *)
(* and keeps the cursor; an error of a member ends the sweep where it is.  *)
(***************************************************************************)
EXTENDS Integers, Sequences

CONSTANTS Members,       \* number of members
          BatchCapacity, \* room in the caller's receive batch
          QueueSize      \* packets a member's RX ring holds

ASSUME AggregateAssumption ==
  /\ {Members, BatchCapacity, QueueSize} \subseteq Nat \ {0}

VARIABLES rx_rr,
          queue,        \* packets waiting in each member
          served,       \* members the last sweep took packets from
          failed        \* a member's error ended the last sweep

agg_vars == <<rx_rr, queue, served, failed>>

AggInit ==
  /\ rx_rr = 0
  /\ queue = [m \in 0..(Members - 1) |-> 0]
  /\ served = {} /\ failed = FALSE

PacketArrives(m) ==
  /\ queue[m] < QueueSize
  /\ queue' = [queue EXCEPT ![m] = @ + 1]
  /\ UNCHANGED <<rx_rr, served, failed>>

\* What a sweep leaves: it stops at the first failing member or when full.  A
\* member fails before it hands out its packets, or late, when it refills its
\* ring after them.
RECURSIVE Sweep(_, _, _, _, _)
Sweep(cursor, visits, room, failing, late) ==
  LET m == cursor % Members
      n == IF queue[m] < room THEN queue[m] ELSE room
      End(took, error) == [cursor |-> cursor, took |-> took, failed |-> error]
  IN  IF visits = 0 \/ room = 0 THEN End({}, FALSE)
      ELSE IF m \in failing THEN End(IF late THEN {<<m, n>>} ELSE {}, TRUE)
      ELSE LET rest == Sweep(cursor + 1, visits - 1, room - n, failing, late)
           IN  [rest EXCEPT !.took = @ \cup {<<m, n>>}]

\* Mutant of Cursor: the cursor is kept only by a sweep that visited everyone.
CursorAfterFull(sweep) ==
  IF sweep.failed \/ sweep.cursor # rx_rr + Members THEN rx_rr
  ELSE sweep.cursor % Members

\* rx_rr is written at the end, so a failing member leaves it as it was.
Cursor(sweep) == IF sweep.failed THEN rx_rr ELSE sweep.cursor % Members

Recv(failing, late) ==
  LET sweep == Sweep(rx_rr, Members, BatchCapacity, failing, late)
      Taken(m) == {t \in sweep.took : t[1] = m /\ t[2] > 0}
  IN  /\ rx_rr' = Cursor(sweep)
      /\ queue' = [m \in DOMAIN queue |->
                     IF Taken(m) = {} THEN queue[m]
                     ELSE queue[m] - (CHOOSE t \in Taken(m) : TRUE)[2]]
      /\ served' = {m \in DOMAIN queue : Taken(m) # {}}
      /\ failed' = sweep.failed

AggRecv ==
  \E failing \in SUBSET (0..(Members - 1)), late \in BOOLEAN : Recv(failing, late)

AggNext == (\E m \in 0..(Members - 1) : PacketArrives(m)) \/ AggRecv

\* The application keeps receiving.
AggFairness == WF_agg_vars(AggRecv)

----------------------------------------------------------------------------
\* No queue starves the others: a member with a waiting packet is served,
\* whatever arrives at the other members and however small the caller's batch,
\* unless from some time on every sweep ends in an error of a member, which
\* leaves the cursor where it is.
QueuesServed ==
  \A m \in 0..(Members - 1) : (queue[m] > 0 ~> m \in served) \/ <>[]failed
=============================================================================
