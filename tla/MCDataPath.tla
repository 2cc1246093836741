----------------------------- MODULE MCDataPath -----------------------------
(***************************************************************************)
(* The batch senders, the OS backend's buffers and the aggregates for TLC. *)
(* They share no state, so each behaviour runs one of them, chosen in the  *)
(* initial state.                                                          *)
(***************************************************************************)
EXTENDS BatchSend, OsSocket, Aggregate

VARIABLE part

\* Payloads of 1, 2 and 5 bytes: the second fits the MTU and not the length
\* field, the third neither.  Windows that leave room for all headers, for
\* the IP and UDP headers only, and for none.
MCTxLayout == Contiguous(0, 4, 4, 0)

PacketKinds ==
  {[fault |-> f, window |-> [start |-> 4, end |-> 5]] :
     f \in {"none", "options", "destination", "route"}}
  \cup {[fault |-> "none", window |-> w] :
          w \in {[start |-> 4, end |-> 6], [start |-> 3, end |-> 8],
                 [start |-> 2, end |-> 3], [start |-> 0, end |-> 1]}}

Slot(i, kind) ==
  IF kind.fault = "taken" THEN Taken
  ELSE Ready([id |-> i, fault |-> kind.fault, window |-> kind.window])

SlotKinds == PacketKinds \cup {[fault |-> "taken"]}

\* A packet every path sends; the rows of three slots have one.
Plain == [fault |-> "none", window |-> [start |-> 4, end |-> 5]]

Rows(n) ==
  {kinds \in [1..n -> SlotKinds] : n = 3 => \E i \in 1..n : kinds[i] = Plain}

MCBatches ==
  UNION {{[i \in 1..n |-> Slot(i, kinds[i])] : kinds \in Rows(n)} : n \in 0..3}

\* A one-byte datagram, one that fills the buffer, one too large, and one
\* whose source address cannot be read.
MCDatagrams == {[named |-> TRUE, len |-> 1], [named |-> TRUE, len |-> 2],
                [named |-> TRUE, len |-> 3], [named |-> FALSE, len |-> 1]}

MCMaxBuffers == [rx |-> 3, tx |-> 2]
MCLayout == [rx |-> Contiguous(0, 0, 2, 0), tx |-> Contiguous(1, 1, 1, 0)]

MCInit ==
  /\ SendInit /\ OsInit /\ AggInit
  /\ part \in {"send", "os", "aggregate"}
  /\ part # "send" => path = "linux" /\ payload_len = 0 /\ ~ looping

MCNext ==
  /\ UNCHANGED part
  /\ \/ part = "send" /\ SendNext /\ UNCHANGED <<os_vars, agg_vars>>
     \/ part = "os" /\ OsNext /\ UNCHANGED <<send_vars, agg_vars>>
     \/ part = "aggregate" /\ AggNext /\ UNCHANGED <<send_vars, os_vars>>

mc_vars == <<part, send_vars, os_vars, agg_vars>>

MCSpec ==
  /\ MCInit /\ [][MCNext]_mc_vars
  /\ SendFairness
  /\ part = "aggregate" => AggFairness
=============================================================================
