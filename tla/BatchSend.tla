------------------------------ MODULE BatchSend ------------------------------
(***************************************************************************)
(* Sending a batch.  A batch is a row of slots, each Ready with a packet   *)
(* or already Taken; a send accepts a prefix and takes those slots.  The   *)
(* module has the five senders (the OS backend on Linux and on BSD, the    *)
(* XDP UDP, IP and endpoint paths), the core crate's generic endpoint over *)
(* the OS backend and the send_all loops over any of them.                 *)
(*                                                                         *)
(* A socket belongs to one thread, so a send is one step; what the kernel  *)
(* answers to its system calls is chosen in that step.  A call interrupted *)
(* by a signal (EINTR) did nothing and is made again, so it is not a       *)
(* separate answer.                                                        *)
(***************************************************************************)
EXTENDS PacketWindow, Sequences, FiniteSetsExt

CONSTANTS max_batch,       \* messages per sendmmsg
          mtu,             \* largest payload (OS) or IP packet (XDP)
          TxSize,          \* slots of the XDP TX ring
          U16_MAX,         \* largest total length an IPv4 header holds
          HEADERS_LEN,     \* IPv4 and UDP header
          L2_LEN,          \* link-layer header
          TxLayout,        \* layout of the transmit buffers
          PayloadLens,     \* fixed payload lengths of endpoints, 0 for none
          Batches          \* the batches an application submits

ASSUME BatchAssumption ==
  /\ {max_batch, mtu, U16_MAX, TxSize, HEADERS_LEN, L2_LEN} \subseteq Nat \ {0}
  /\ PayloadLens \subseteq Nat

VARIABLES path,        \* the sender of the current call
          payload_len, \* the endpoint's fixed payload length, 0 if it has none
          looping,     \* the call is a send_all
          stage,       \* "idle", "called" or "returned"
          submitted,   \* the batch as the caller gave it
          batch,       \* its slots now
          total,       \* send_all's count
          result,      \* what the call returned
          answers,     \* the outcomes the next send of the call can have
          wire         \* what the device or the kernel took, in order

send_vars == <<path, payload_len, looping, stage, submitted, batch, total,
               result, answers, wire>>

Taken == [ready |-> FALSE]
Ready(p) == [ready |-> TRUE, packet |-> p]

Outcome(slots, accepted, kind, sent) ==
  [slots |-> slots, accepted |-> accepted, kind |-> kind, sent |-> sent]

Frame(p, header_len) == [id |-> p.id, bytes |-> TxFrame(p.window, header_len)]

Rest(slots, n) == SubSeq(slots, n + 1, Len(slots))

Take(slots, n) == [i \in 1..n |-> Taken] \o Rest(slots, n)

\* The largest k up to limit such that the first k slots are all Good.
PrefixLen(slots, limit, Good(_)) ==
  CHOOSE k \in 0..limit :
    /\ \A i \in 1..k : Good(slots[i])
    /\ k < limit => ~ Good(slots[k + 1])

\* The kind of the first of a list of checks <<failed, kind>> that failed.
FirstError(checks) ==
  LET failed == {i \in DOMAIN checks : checks[i][1]}
  IN  IF failed = {} THEN "ok" ELSE checks[Min(failed)][2]

----------------------------------------------------------------------------
(* The OS backend.                                                         *)

SlotError(slot) ==
  IF ~ slot.ready THEN "InvalidBatch"
  ELSE FirstError(<< <<Length(slot.packet.window) > mtu, "OversizeForMtu">>,
                     <<slot.packet.fault = "options", "InvalidPacket">> >>)

Valid(slot) == SlotError(slot) = "ok"

Bytes(slots, from, n) == [i \in 1..n |-> Frame(slots[from + i].packet, 0)]

\* A send under way has the kind "more".
Begin(slots) == Outcome(slots, 0, "more", <<>>)

\* The kernel took the next n slots; the call ends with kind or goes on.
Took(o, n, kind) ==
  Outcome(Take(o.slots, o.accepted + n), o.accepted + n, kind,
          o.sent \o Bytes(o.slots, o.accepted, n))

\* One chunk on Linux: the longest valid prefix of at most max_batch slots goes
\* to one sendmmsg, which takes at least one message or fails; a short count
\* is followed by a sendmsg of the next slot, to learn the error.
SendChunk(o) ==
  LET limit == Min({Len(o.slots) - o.accepted, max_batch})
      chunk == PrefixLen(Rest(o.slots, o.accepted), limit, Valid)
  IN  IF o.kind # "more" THEN {o}
      ELSE IF limit = 0 THEN {[o EXCEPT !.kind = "ok"]}
      ELSE IF chunk = 0 THEN {[o EXCEPT !.kind = SlotError(o.slots[o.accepted + 1])]}
      ELSE {Took(o, n, kind) : n \in 0..(chunk - 1), kind \in {"ok", "Device"}}
           \cup {Took(o, n, "more") : n \in 2..chunk \cup {chunk}}

\* One slot on FreeBSD and macOS, by send_to.
SendSlot(o) ==
  IF o.kind # "more" THEN {o}
  ELSE IF o.accepted = Len(o.slots) THEN {[o EXCEPT !.kind = "ok"]}
  ELSE LET kind == SlotError(o.slots[o.accepted + 1])
       IN  IF kind # "ok" THEN {[o EXCEPT !.kind = kind]}
           ELSE {[o EXCEPT !.kind = "ok"], [o EXCEPT !.kind = "Device"],
                 Took(o, 1, "more")}

\* The loop over a batch: every round but the last accepts a slot.
send_impl(slots, os) ==
  LET Step(o) == IF os = "linux" THEN SendChunk(o) ELSE SendSlot(o)
  IN  FoldSet(LAMBDA round, outcomes : UNION {Step(o) : o \in outcomes},
              {Begin(slots)}, 0..Len(slots))

----------------------------------------------------------------------------
(* The generic endpoint over the OS backend.  The packets of an endpoint   *)
(* batch carry the endpoint's options: all have the fault "options" or     *)
(* none has (see SameOptions).                                             *)

\* The length checks of validate_udp_endpoint_packet, for an endpoint without
\* GSO (neither backend offers it).
PayloadError(n, limit) ==
  FirstError(<< <<payload_len # 0 /\ n # payload_len, "InvalidPacket">>,
                <<n > limit, "OversizeForMtu">> >>)

EndpointError(slot, limit) ==
  IF slot.ready THEN PayloadError(Length(slot.packet.window), limit)
  ELSE "InvalidBatch"

\* The packets were moved out of the first slots into `converted'; the ones
\* that were not accepted go back.
restore_unaccepted_endpoint_slots(slots, converted, accepted) ==
  Take(converted, accepted) \o Rest(slots, Len(converted))

send_generic_udp_endpoint(slots, os) ==
  LET Good(slot) == EndpointError(slot, mtu) = "ok"
      prefix_len == PrefixLen(slots, Len(slots), Good)
      deferred == IF prefix_len < Len(slots)
                    THEN EndpointError(slots[prefix_len + 1], mtu) ELSE "ok"
      Back(o) == restore_unaccepted_endpoint_slots(slots, o.slots, o.accepted)
      Kind(o) == IF o.kind = "ok" /\ o.accepted = prefix_len THEN deferred ELSE o.kind
  IN  IF prefix_len = 0 THEN {Outcome(slots, 0, deferred, <<>>)}
      ELSE {Outcome(Back(o), o.accepted, Kind(o), o.sent) :
            o \in send_impl(SubSeq(slots, 1, prefix_len), os)}

----------------------------------------------------------------------------
(* The XDP backend.  The live socket is the only producer of its TX ring,  *)
(* so every descriptor it prepared for the available slots is accepted; a  *)
(* doorbell that fails is reported with that prefix accepted.              *)

\* What preparing a slot did: the slot afterwards, the error, and the length
\* of the header written in front of the packet's window.
Prepared(slot, kind, header_len) ==
  [slot |-> slot, kind |-> kind, header_len |-> header_len]

\* The payload for which the route's MTU and the header's length field leave
\* room.
MaxPayload == Min({mtu, U16_MAX}) - HEADERS_LEN

\* The checks before the headers are written, and their prepend.
UdpError(p) ==
  FirstError(<< <<p.fault = "destination", "InvalidPacket">>,
                <<p.fault = "route", "NoEgressRoute">>,
                <<mtu < HEADERS_LEN, "InvalidPacket">>,
                <<Length(p.window) > MaxPayload, "OversizeForMtu">>,
                <<HEADERS_LEN > headroom(p.window, TxLayout), "InvalidPacket">> >>)

\* Mutant of PrepareUdp: a packet that cannot be framed keeps its headers.
PrepareUdpKeepsHeaders(slot) ==
  IF ~ slot.ready THEN Prepared(slot, "InvalidBatch", 0)
  ELSE IF UdpError(slot.packet) # "ok" THEN Prepared(slot, UdpError(slot.packet), 0)
  ELSE LET w == prepend(slot.packet.window, TxLayout, HEADERS_LEN)
           Shows(window) == Ready([slot.packet EXCEPT !.window = window])
       IN  IF TxFrameFits(w, TxLayout, L2_LEN)
             THEN Prepared(Shows(w), "ok", L2_LEN)
             ELSE Prepared(Shows(w), "Device", 0)

\* IPv4 and UDP headers are prepended in place, then the link-layer header is
\* written in front; if that does not fit the headers are trimmed off again.
PrepareUdp(slot) ==
  IF ~ slot.ready THEN Prepared(slot, "InvalidBatch", 0)
  ELSE IF UdpError(slot.packet) # "ok" THEN Prepared(slot, UdpError(slot.packet), 0)
  ELSE LET w == prepend(slot.packet.window, TxLayout, HEADERS_LEN)
           Shows(window) == Ready([slot.packet EXCEPT !.window = window])
       IN  IF TxFrameFits(w, TxLayout, L2_LEN)
             THEN Prepared(Shows(w), "ok", L2_LEN)
             ELSE Prepared(Shows(trim_prefix(w, HEADERS_LEN)), "Device", 0)

\* A complete IP packet: checked against the socket's queue, the MTU, the
\* format and the headroom.
PrepareIp(slot) ==
  IF ~ slot.ready THEN Prepared(slot, "InvalidBatch", 0)
  ELSE LET p == slot.packet
       IN  Prepared(slot,
             FirstError(<< <<p.fault = "route", "NoEgressRoute">>,
                           <<Length(p.window) > mtu, "OversizeForMtu">>,
                           <<p.fault = "destination", "InvalidPacket">>,
                           <<headroom(p.window, TxLayout) < L2_LEN, "Device">>,
                           <<~ TxFrameFits(p.window, TxLayout, L2_LEN), "Device">> >>),
             L2_LEN)

\* A payload for a prepared endpoint: the cached header goes in front.
PrepareEndpoint(slot) ==
  LET header_len == L2_LEN + HEADERS_LEN
  IN  Prepared(slot,
        IF EndpointError(slot, MaxPayload) # "ok" THEN EndpointError(slot, MaxPayload)
        ELSE IF TxFrameFits(slot.packet.window, TxLayout, header_len)
          THEN "ok" ELSE "Device",
        header_len)

Prepare(slot) ==
  CASE path = "xdp_udp"      -> PrepareUdp(slot)
    [] path = "xdp_ip"       -> PrepareIp(slot)
    [] path = "xdp_endpoint" -> PrepareEndpoint(slot)

\* An endpoint resolved under an older generation is resolved again before any
\* slot is looked at: the route may be gone, its MTU below the headers or below
\* the endpoint's fixed payload.
RefreshEndpoint(slots) ==
  {Outcome(slots, 0, kind, <<>>) :
     kind \in {"NoEgressRoute", "InvalidPacket", "OversizeForMtu"}}

\* The shape shared by send_inner, send_udp_inner and send_udp_endpoint_inner.
\* A drain of the completion ring may fail, the ring may stay full.
XdpSend(slots) ==
  (IF path = "xdp_endpoint" THEN RefreshEndpoint(slots) ELSE {})
  \cup {Outcome(slots, 0, kind, <<>>) : kind \in {"ok", "Device"}}
  \cup {LET limit == Min({Len(slots), available})
            Good(slot) == Prepare(slot).kind = "ok"
            n == PrefixLen(slots, limit, Good)
            deferred == IF n < limit THEN Prepare(slots[n + 1]).kind ELSE "ok"
            \* What is left of the slot whose preparation failed.
            failed == IF n < limit THEN <<Prepare(slots[n + 1]).slot>> ELSE <<>>
            frames == [i \in 1..n |-> LET made == Prepare(slots[i])
                                      IN  Frame(made.slot.packet, made.header_len)]
        IN  Outcome(Take(SubSeq(slots, 1, n), n) \o failed
                      \o Rest(slots, n + Len(failed)), n,
                    IF rung \/ n = 0 THEN deferred ELSE "Device", frames) :
        available \in 1..TxSize, rung \in BOOLEAN}

----------------------------------------------------------------------------
(* Calls.                                                                  *)

OsPaths == {"linux", "bsd", "linux_endpoint", "bsd_endpoint"}
XdpPaths == {"xdp_udp", "xdp_ip", "xdp_endpoint"}
EndpointPaths == {"linux_endpoint", "bsd_endpoint", "xdp_endpoint"}

Send(slots) ==
  CASE path = "linux"          -> send_impl(slots, "linux")
    [] path = "bsd"            -> send_impl(slots, "bsd")
    [] path = "linux_endpoint" -> send_generic_udp_endpoint(slots, "linux")
    [] path = "bsd_endpoint"   -> send_generic_udp_endpoint(slots, "bsd")
    [] OTHER                   -> XdpSend(slots)

NoResult == [accepted |-> 0, kind |-> "ok"]

SendInit ==
  /\ path \in OsPaths \cup XdpPaths
  /\ payload_len \in PayloadLens
  /\ looping \in BOOLEAN
  /\ stage = "idle"
  /\ submitted = <<>> /\ batch = <<>> /\ wire = <<>>
  /\ total = 0 /\ result = NoResult /\ answers = {}

SameOptions(slots) ==
  \A i, j \in DOMAIN slots : slots[i].ready /\ slots[j].ready =>
    (slots[i].packet.fault = "options" <=> slots[j].packet.fault = "options")

Call(slots) ==
  /\ stage = "idle"
  /\ path \in EndpointPaths => SameOptions(slots)
  /\ stage' = "called"
  /\ submitted' = slots /\ batch' = slots /\ answers' = Send(slots)
  /\ UNCHANGED <<path, payload_len, looping, total, result, wire>>

Return(accepted, kind) ==
  /\ stage' = "returned"
  /\ result' = [accepted |-> accepted, kind |-> kind]
  /\ answers' = {}

SendOnce ==
  /\ stage = "called" /\ ~ looping
  /\ \E o \in answers :
       /\ batch' = o.slots /\ wire' = o.sent
       /\ Return(o.accepted, o.kind)
  /\ UNCHANGED <<path, payload_len, looping, submitted, total>>

\* Mutant of AllSent: the loop goes round once more for a batch that is done.
AllSentLate == total > Len(batch)

AllSent == total >= Len(batch)

\* One round of send_all or send_all_to_udp_endpoint.  When nothing was
\* accepted the completions are drained, which can fail for XDP.
SendAllRound ==
  /\ stage = "called" /\ looping /\ ~ AllSent
  /\ \E o \in answers :
       /\ batch' = SubSeq(batch, 1, total) \o o.slots
       /\ wire' = wire \o o.sent
       /\ \/ /\ o.kind = "ok" /\ o.accepted > 0
             /\ total' = total + o.accepted
             /\ answers' = Send(Rest(o.slots, o.accepted))
             /\ UNCHANGED <<stage, result>>
          \/ /\ o.kind = "ok" /\ o.accepted = 0
             /\ UNCHANGED <<stage, result, total, answers>>
          \/ /\ o.kind = "ok" /\ o.accepted = 0 /\ path \in XdpPaths
             /\ Return(total, "Device")
             /\ UNCHANGED total
          \/ /\ o.kind # "ok"
             /\ Return(total + o.accepted, o.kind)
             /\ UNCHANGED total
  /\ UNCHANGED <<path, payload_len, looping, submitted>>

SendAllDone ==
  /\ stage = "called" /\ looping /\ AllSent
  /\ Return(total, "ok")
  /\ UNCHANGED <<path, payload_len, looping, submitted, batch, total, wire>>

\* The caller has looked at the result and disposes of the batch.
Forget ==
  /\ stage = "returned"
  /\ stage' = "idle" /\ total' = 0 /\ result' = NoResult
  /\ submitted' = <<>> /\ batch' = <<>> /\ wire' = <<>>
  /\ UNCHANGED <<path, payload_len, looping, answers>>

SendNext ==
  \/ stage = "idle" /\ \E slots \in Batches : Call(slots)
  \/ SendOnce
  \/ SendAllRound
  \/ SendAllDone
  \/ Forget

\* A round that takes a slot or fails, and whether there can be one.
Progress == stage = "called" /\ looping /\ (total' # total \/ stage' = "returned")

CanProgress ==
  /\ stage = "called" /\ looping /\ ~ AllSent /\ path \in OsPaths
  /\ \E o \in answers : o.accepted > 0 \/ o.kind # "ok"

\* A call goes on, and the kernel's send buffer empties: strong fairness of the
\* rounds of the OS backend that make progress, their enabling condition
\* written out.  Nothing of the kind is assumed of XDP.
SendFairness ==
  /\ WF_send_vars(SendOnce) /\ WF_send_vars(SendAllDone)
  /\ <>[](~ CanProgress) \/ []<><<Progress>>_send_vars

----------------------------------------------------------------------------
HeaderLen == CASE path \in OsPaths  -> 0
               [] path = "xdp_ip"   -> L2_LEN
               [] OTHER             -> L2_LEN + HEADERS_LEN

\* The contract of TxSlot and SendError, for every path and both kinds of
\* call: when a call returns, the accepted slots are a prefix and are Taken,
\* their packets and no others went out, once each, in order, with all their
\* bytes; every later slot holds what the caller put in, its window included.
\* An error that blames a packet is about the next slot, or, on the XDP
\* endpoint path, about the endpoint, whose route no longer serves the slots
\* that are left.  A device error of the OS backend is about the next slot; one
\* of XDP is about the socket, and may come with every slot accepted.
SendContract ==
  stage = "returned" =>
    LET n == result.accepted
        NextReady == n < Len(submitted) /\ submitted[n + 1].ready
    IN  /\ n <= Len(submitted)
        /\ \A i \in 1..n : submitted[i].ready /\ ~ batch[i].ready
        /\ \A i \in (n + 1)..Len(submitted) : batch[i] = submitted[i]
        /\ wire = [i \in 1..n |-> Frame(submitted[i].packet, HeaderLen)]
        /\ result.kind = "ok" /\ looping => n = Len(submitted)
        /\ result.kind = "InvalidBatch" =>
             n < Len(submitted) /\ ~ submitted[n + 1].ready
        /\ result.kind \in {"OversizeForMtu", "InvalidPacket", "NoEgressRoute"} =>
             \/ NextReady
             \/ path = "xdp_endpoint" /\ IF looping THEN n < Len(submitted) ELSE n = 0
        /\ result.kind = "Device" /\ path \in OsPaths => NextReady

\* send_all over the OS backend returns: it does not spin for ever once the
\* kernel takes datagrams again.
SendAllReturns ==
  (stage = "called" /\ looping /\ path \in OsPaths) ~> stage = "returned"
=============================================================================
