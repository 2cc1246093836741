--------------------------- MODULE TransmitProof ----------------------------
(***************************************************************************)
(* Proofs about what a socket sends: the window a buffer shows of its      *)
(* chunk, the header template of a prepared endpoint, and the doorbell     *)
(* that makes the kernel send.                                             *)
(***************************************************************************)
EXTENDS PacketWindow, EndpointHeader, TxDoorbell, TLAPS

-----------------------------------------------------------------------------
(* Window arithmetic for every layout and every length: no sequence of     *)
(* edits moves a window out of its chunk or into the link-layer headroom.  *)

Layout == [l2_headroom : Nat, headroom : Nat, payload_capacity : Nat,
           tailroom : Nat, chunk_size : Nat]

Window == [start : Int, end : Int]

\* The windows an edit of n bytes leads to.
Edited(w, l, n) ==
  {prepend(w, l, n), extend_from_slice(w, l, n), trim_prefix(w, n), trim_suffix(w, n)}

\* Each edit keeps a window inside, the lengths it is given being whatever the
\* caller asks for: a length that does not fit is refused, not clipped.
THEOREM EditsStayInside ==
  ASSUME NEW l \in Layout, NEW w \in Window, Inside(w, l), NEW n \in Nat
  PROVE  \A v \in Edited(w, l, n) : v \in Window /\ Inside(v, l)
<1>1. prepend(w, l, n) \in Window /\ Inside(prepend(w, l, n), l)
  BY DEF prepend, headroom, Inside, Window, Layout
<1>2. extend_from_slice(w, l, n) \in Window /\ Inside(extend_from_slice(w, l, n), l)
  BY DEF extend_from_slice, tailroom, Inside, Window, Layout
<1>3. trim_prefix(w, n) \in Window /\ Inside(trim_prefix(w, n), l)
  BY DEF trim_prefix, Length, Inside, Window, Layout
<1>4. trim_suffix(w, n) \in Window /\ Inside(trim_suffix(w, n), l)
  BY DEF trim_suffix, Length, Inside, Window, Layout
<1> QED BY <1>1, <1>2, <1>3, <1>4 DEF Edited

\* In a chunk that is large enough for its layout, a fresh window and one of
\* a received datagram that was not truncated are inside, and a link-layer
\* header of up to l2_headroom bytes fits in front of any window that is.
THEOREM FramesFit ==
  ASSUME NEW l \in Layout, minimum_chunk_size(l) <= l.chunk_size
  PROVE  /\ Inside(Fresh(l), l)
         /\ \A n \in Nat : n <= l.payload_capacity => Inside(set_received_len(l, n), l)
         /\ \A w \in Window, h \in Nat :
              Inside(w, l) /\ h <= l.l2_headroom =>
                TxFrameFits(w, l, h) /\ TxFrame(w, h).start >= 0
<1>1. Inside(Fresh(l), l)
  BY DEF Fresh, Inside, data_offset, minimum_chunk_size, Layout
<1>2. \A n \in Nat : n <= l.payload_capacity => Inside(set_received_len(l, n), l)
  BY DEF set_received_len, Inside, data_offset, minimum_chunk_size, Layout
<1>3. \A w \in Window, h \in Nat :
        Inside(w, l) /\ h <= l.l2_headroom =>
          TxFrameFits(w, l, h) /\ TxFrame(w, h).start >= 0
  BY DEF TxFrameFits, TxFrame, Inside, Window, Layout
<1> QED BY <1>1, <1>2, <1>3

-----------------------------------------------------------------------------
(* How far the incremental checksum of a prepared endpoint can be trusted: *)
(* it is the full checksum for every pair of addresses, every TTL and any  *)
(* sequence of lengths, except after a patch whose sum is 0x1FFFF, the one *)
(* value that still carries after the single fold.  Only SMT works with    *)
(* numbers of this size, and with bounds in place of intervals.            *)

Word == {n \in Nat : n < W16}

\* What the types of the fields and validate_xdp_udp_endpoint_payload ensure.
WellFormed ==
    /\ TTL \in Nat /\ TTL <= 255
    /\ PayloadLens \subseteq Nat
    /\ \A e \in Endpoints :
         /\ {e.source[1], e.source[2], e.destination[1], e.destination[2]} \subseteq Word
         /\ \A n \in e.payload_len :
              n \in Nat /\ n <= W16 - 1 - IPV4_MIN_HEADER_LEN - UDP_HEADER_LEN

\* The sums of up to ten words that are not all 0.
Sums == {s \in Nat : 1 <= s /\ s <= 655350}

Fold(sum) == FoldOnce(FoldOnce(sum))

\* The words of a header other than its length and its checksum.
Fixed(e) ==
    17664 + TTL * 256 + UDP_PROTOCOL
      + e.source[1] + e.source[2] + e.destination[1] + e.destination[2]

\* A header of endpoint e with the checksum its other words call for.
Sound(h, e) ==
    /\ h.total_len \in Word /\ h.checksum = Not16(Fold(Fixed(e) + h.total_len))
    /\ h = [source |-> e.source, destination |-> e.destination, total_len |-> h.total_len,
            udp_len |-> h.udp_len, checksum |-> h.checksum]

EndpointInv == /\ WellFormed /\ endpoint \in Endpoints
       /\ Sound(header, endpoint) /\ Sound(packet, endpoint)

\* A packet is sent without its patch having the sum that one fold leaves
\* with a carry.
SingleCarry ==
    packet' # packet =>
        Not16(header.checksum) + Not16(header.total_len) + packet'.total_len # 2 * W16 - 1

\* Folding keeps a sum of up to ten words modulo 65535, and ends with a word
\* that is not 0.
LEMMA FoldLemma ==
    ASSUME NEW s \in Sums
    PROVE  /\ Fold(s) \in Nat /\ 1 <= Fold(s) /\ Fold(s) <= 65535
           /\ \E k \in Nat : s = Fold(s) + 65535 * k
<1> DEFINE q == s \div 65536
           r == s % 65536
           t == r + q
           u == t \div 65536
           v == t % 65536
<1>1. q \in Nat /\ q <= 9 /\ r \in Nat /\ r <= 65535 /\ s = 65536 * q + r
  BY SMT DEF Sums
<1>2. FoldOnce(s) = t
  BY SMT DEF FoldOnce, W16
<1>3. t \in Nat /\ 1 <= t /\ t <= 65544
  BY SMT, <1>1 DEF Sums
<1>4. u \in Nat /\ u <= 1 /\ v \in Nat /\ v <= 65535 /\ t = 65536 * u + v
  <2> HIDE DEF t
  <2> QED BY SMT, <1>3
<1>5. Fold(s) = v + u
  BY SMT, <1>2 DEF Fold, FoldOnce, W16
<1>6. 1 <= v + u /\ v + u <= 65535 /\ s = (v + u) + 65535 * (q + u)
  <2>1. t = r + q
    BY SMT
  <2> HIDE DEF q, r, t, u, v
  <2> QED BY SMT, <2>1, <1>1, <1>3, <1>4
<1> QED
  <2> HIDE DEF q, r, t, u, v
  <2>1. q + u \in Nat /\ v + u \in Nat
    BY SMT, <1>1, <1>4
  <2> QED BY SMT, <1>5, <1>6, <2>1

\* A sum that is f modulo 65535 folds to f.
LEMMA FoldSame ==
    ASSUME NEW s \in Sums, NEW k \in Int,
           NEW f \in Nat, 1 <= f, f <= 65535, s = f + 65535 * k
    PROVE  Fold(s) = f
<1> DEFINE g == Fold(s)
<1>1. PICK j \in Nat : s = g + 65535 * j
  BY SMT, FoldLemma
<1>2. g \in Nat /\ 1 <= g /\ g <= 65535
  BY SMT, FoldLemma
<1> HIDE DEF g
<1>3. k = j
  BY SMT, <1>1, <1>2
<1>4. g = f
  BY SMT, <1>1, <1>2, <1>3
<1> QED BY SMT, <1>4 DEF g

\* A header of nine words and the checksum of these verifies.
LEMMA Verifies ==
    ASSUME NEW s \in Nat, 1 <= s, s <= 589815
    PROVE  /\ Not16(Fold(s)) \in Nat /\ Not16(Fold(s)) <= 65534
           /\ Not16(Fold(s + Not16(Fold(s)))) = 0
<1> DEFINE f == Fold(s)
           t == s + Not16(f)
<1>0. s \in Sums
  BY SMT DEF Sums
<1>1. PICK k \in Nat : s = f + 65535 * k
  <2>1. \E k \in Nat : s = Fold(s) + 65535 * k
    BY SMT, <1>0, FoldLemma
  <2> QED BY SMT, <2>1 DEF f
<1>2. f \in Nat /\ 1 <= f /\ f <= 65535
  BY SMT, <1>0, FoldLemma
<1> HIDE DEF f
<1>3. Not16(f) = 65535 - f
  BY SMT, <1>2 DEF Not16, W16
<1>4. t \in Sums /\ t = 65535 + 65535 * k
  BY SMT, <1>1, <1>2, <1>3 DEF Sums
<1> HIDE DEF t
<1>5. Fold(t) = 65535
  BY SMT, <1>4, FoldSame
<1>6. Not16(Fold(t)) = 0
  BY SMT, <1>5 DEF Not16, W16
<1>7. Not16(f) \in Nat /\ Not16(f) <= 65534
  BY SMT, <1>2, <1>3
<1> QED BY SMT, <1>6, <1>7 DEF t, f

\* ipv4_checksum_replace_word gives the checksum of the header with the new
\* word, unless its sum is 0x1FFFF: s is the sum of the other words.
THEOREM ReplaceWordExact ==
    ASSUME NEW s \in Nat, 1 <= s, s <= 524280, NEW old \in Word, NEW new \in Word,
           Not16(Not16(Fold(s + old))) + Not16(old) + new # 2 * W16 - 1
    PROVE  ipv4_checksum_replace_word(Not16(Fold(s + old)), old, new) = Not16(Fold(s + new))
<1> DEFINE f == Fold(s + old)
           y == Not16(Not16(f)) + Not16(old) + new
           q == y \div 65536
           r == y % 65536
<1>1. old \in Nat /\ old <= 65535 /\ new \in Nat /\ new <= 65535
  BY SMT DEF Word, W16
<1>2. s + old \in Sums /\ s + new \in Sums
  BY SMT, <1>1 DEF Sums
<1>3. PICK k \in Nat : s + old = f + 65535 * k
  BY SMT, <1>2, FoldLemma
<1>4. f \in Nat /\ 1 <= f /\ f <= 65535
  BY SMT, <1>2, FoldLemma
<1>5. y # 131071
  BY SMT DEF W16
<1> HIDE DEF f
<1>6. y = f + (65535 - old) + new
  BY SMT, <1>1, <1>4 DEF Not16, W16
<1>7. y \in Nat /\ 1 <= y /\ y <= 196605
  <2> HIDE DEF y
  <2> QED BY SMT, <1>1, <1>4, <1>6
<1>8. q \in Nat /\ q <= 2 /\ r \in Nat /\ r <= 65535 /\ y = 65536 * q + r
  <2> HIDE DEF y
  <2> QED BY SMT, <1>7
<1>9. FoldOnce(y) = r + q
  BY SMT DEF FoldOnce, W16
<1> HIDE DEF y, q, r
<1>10. r + q \in Nat /\ 1 <= r + q /\ r + q <= 65535
  BY SMT, <1>5, <1>7, <1>8
<1>11. s + new = (r + q) + 65535 * (k + q - 1) /\ k + q - 1 \in Int
  BY SMT, <1>1, <1>3, <1>4, <1>6, <1>8
<1>12. Fold(s + new) = r + q
  <2> DEFINE a == s + new
             b == r + q
             c == k + q - 1
  <2>1. a = b + 65535 * c /\ c \in Int /\ b \in Nat /\ 1 <= b /\ b <= 65535
    BY SMT, <1>10, <1>11
  <2>2. a \in Sums
    BY SMT, <1>2
  <2> HIDE DEF a, b, c
  <2>3. Fold(a) = b
    BY SMT, <2>1, <2>2, FoldSame
  <2> QED BY SMT, <2>3 DEF a, b
<1>13. (r + q) % W16 = r + q
  BY SMT, <1>10 DEF W16
<1> QED BY SMT, <1>9, <1>12, <1>13 DEF ipv4_checksum_replace_word, y, f

\* The words of an endpoint's header are words, so their sum is in range.
LEMMA FixedRange ==
    ASSUME WellFormed, NEW e \in Endpoints
    PROVE  Fixed(e) \in Nat /\ 1 <= Fixed(e) /\ Fixed(e) <= 524280
<1> DEFINE a == e.source[1]
           b == e.source[2]
           c == e.destination[1]
           d == e.destination[2]
<1>1. {a, b, c, d} \subseteq Nat /\ a <= 65535 /\ b <= 65535 /\ c <= 65535 /\ d <= 65535
  BY SMT DEF WellFormed, Word, W16
<1>2. TTL \in Nat /\ TTL <= 255
  BY SMT DEF WellFormed
<1>3. Fixed(e) = 17664 + TTL * 256 + 17 + a + b + c + d
  BY SMT DEF Fixed, UDP_PROTOCOL
<1> HIDE DEF a, b, c, d
<1> QED BY SMT, <1>1, <1>2, <1>3

\* A header with the checksum of its other words verifies.
LEMMA SoundVerifies ==
    ASSUME WellFormed, NEW e \in Endpoints, NEW h, Sound(h, e)
    PROVE  ipv4_header_checksum(h) = 0
<1> DEFINE s == Fixed(e) + h.total_len
<1>1. Fixed(e) \in Nat /\ 1 <= Fixed(e) /\ Fixed(e) <= 524280
  BY SMT, FixedRange
<1>2. h.total_len \in Nat /\ h.total_len <= 65535
  BY SMT DEF Sound, Word, W16
<1>3. s \in Nat /\ 1 <= s /\ s <= 589815
  BY SMT, <1>1, <1>2
<1>4. Not16(Fold(s + Not16(Fold(s)))) = 0 /\ Not16(Fold(s)) \in Nat
  <2> HIDE DEF s
  <2> QED BY SMT, <1>3, Verifies
<1>5. h.checksum = Not16(Fold(s))
  BY SMT DEF Sound
<1>6. WordSum(h) = s + h.checksum
  <2>1. h.source = e.source /\ h.destination = e.destination
    BY SMT DEF Sound
  <2>2. {e.source[1], e.source[2], e.destination[1], e.destination[2]} \subseteq Nat
    BY SMT DEF WellFormed, Word
  <2>3. TTL \in Nat
    BY SMT DEF WellFormed
  <2>4. h.checksum \in Nat
    BY SMT, <1>4, <1>5
  <2> QED BY SMT, <2>1, <2>2, <2>3, <2>4, <1>2 DEF WordSum, Fixed, UDP_PROTOCOL
<1> QED BY SMT, <1>4, <1>5, <1>6 DEF ipv4_header_checksum, Fold

\* write_ipv4_udp_headers writes the full checksum.
LEMMA TemplateSound ==
    ASSUME WellFormed, NEW e \in Endpoints
    PROVE  Sound(Template(e), e)
<1> DEFINE n == IF e.payload_len = {} THEN 0 ELSE CHOOSE m \in e.payload_len : TRUE
           total_len == n + UDP_HEADER_LEN + IPV4_MIN_HEADER_LEN
           h == [source |-> e.source, destination |-> e.destination,
                 total_len |-> total_len, udp_len |-> n + UDP_HEADER_LEN, checksum |-> 0]
<1>1. n \in Nat /\ n <= 65507
  BY SMT DEF WellFormed, W16, IPV4_MIN_HEADER_LEN, UDP_HEADER_LEN
<1>2. Template(e) = [h EXCEPT !.checksum = ipv4_header_checksum(h)]
  BY SMT DEF Template, write_ipv4_udp_headers
<1> HIDE DEF n
<1>3. total_len \in Nat /\ total_len <= 65535
  BY SMT, <1>1 DEF IPV4_MIN_HEADER_LEN, UDP_HEADER_LEN
<1>4. WordSum(h) = Fixed(e) + total_len
  <2>1. {e.source[1], e.source[2], e.destination[1], e.destination[2]} \subseteq Nat
    BY SMT DEF WellFormed, Word
  <2>2. TTL \in Nat
    BY SMT DEF WellFormed
  <2> HIDE DEF total_len
  <2> QED BY SMT, <2>1, <2>2, <1>3 DEF WordSum, Fixed, UDP_PROTOCOL
<1>5. ipv4_header_checksum(h) = Not16(Fold(Fixed(e) + total_len))
  BY SMT, <1>4 DEF ipv4_header_checksum, Fold
<1>6. total_len \in Word
  <2> HIDE DEF total_len
  <2> QED BY SMT, <1>3 DEF Word, W16
<1> HIDE DEF total_len
<1> QED BY SMT, <1>2, <1>5, <1>6 DEF Sound

\* A patch keeps the checksum that of the other words.
LEMMA PatchSound ==
    ASSUME WellFormed, NEW e \in Endpoints, NEW h, Sound(h, e),
           NEW n \in Nat, n <= W16 - 1 - IPV4_MIN_HEADER_LEN - UDP_HEADER_LEN,
           Not16(h.checksum) + Not16(h.total_len) + Patched(h, n).total_len # 2 * W16 - 1
    PROVE  Sound(Patched(h, n), e)
<1> DEFINE total_len == n + UDP_HEADER_LEN + IPV4_MIN_HEADER_LEN
           checksum == ipv4_checksum_replace_word(h.checksum, h.total_len, total_len)
<1>1. h = [source |-> e.source, destination |-> e.destination, total_len |-> h.total_len,
           udp_len |-> h.udp_len, checksum |-> h.checksum]
  BY SMT DEF Sound
<1>2. Patched(h, n) = [h EXCEPT !.total_len = total_len, !.udp_len = n + UDP_HEADER_LEN,
                                !.checksum = checksum]
  BY SMT DEF Patched
<1>3. total_len \in Word /\ h.total_len \in Word
  BY SMT DEF Word, W16, IPV4_MIN_HEADER_LEN, UDP_HEADER_LEN, Sound
<1> HIDE DEF total_len
<1>4. Patched(h, n) = [source |-> e.source, destination |-> e.destination,
                       total_len |-> total_len, udp_len |-> n + UDP_HEADER_LEN,
                       checksum |-> checksum]
  <2> HIDE DEF checksum
  <2>1. PICK a, b, c : h = [source |-> e.source, destination |-> e.destination,
                            total_len |-> a, udp_len |-> b, checksum |-> c]
    BY Zenon, <1>1
  <2> DEFINE d == n + UDP_HEADER_LEN
             g == [source |-> e.source, destination |-> e.destination,
                   total_len |-> a, udp_len |-> b, checksum |-> c]
  <2> HIDE DEF d
  <2>2. [g EXCEPT !.total_len = total_len, !.udp_len = d, !.checksum = checksum]
          = [source |-> e.source, destination |-> e.destination,
             total_len |-> total_len, udp_len |-> d, checksum |-> checksum]
    <3> DEFINE i == [source |-> e.source, destination |-> e.destination,
                     total_len |-> total_len, udp_len |-> b, checksum |-> c]
               j == [source |-> e.source, destination |-> e.destination,
                     total_len |-> total_len, udp_len |-> d, checksum |-> c]
    <3>1. [g EXCEPT !.total_len = total_len] = i
      BY SMT
    <3>2. [i EXCEPT !.udp_len = d] = j
      BY SMT
    <3>3. [j EXCEPT !.checksum = checksum]
            = [source |-> e.source, destination |-> e.destination,
               total_len |-> total_len, udp_len |-> d, checksum |-> checksum]
      BY SMT
    <3> HIDE DEF g, i, j
    <3>4. [g EXCEPT !.total_len = total_len, !.udp_len = d, !.checksum = checksum]
            = [[[g EXCEPT !.total_len = total_len] EXCEPT !.udp_len = d]
                 EXCEPT !.checksum = checksum]
      BY Zenon
    <3> QED BY Zenon, <3>1, <3>2, <3>3, <3>4
  <2> HIDE DEF g
  <2>3. h = g
    BY Zenon, <2>1 DEF g
  <2> QED BY Zenon, <2>2, <2>3, <1>2 DEF d
<1>5. h.checksum = Not16(Fold(Fixed(e) + h.total_len))
  BY SMT DEF Sound
<1>6. Not16(Not16(Fold(Fixed(e) + h.total_len))) + Not16(h.total_len) + total_len
        # 2 * W16 - 1
  <2> HIDE DEF checksum
  <2> QED BY SMT, <1>4, <1>5
<1>7. Fixed(e) \in Nat /\ 1 <= Fixed(e) /\ Fixed(e) <= 524280
  BY SMT, FixedRange
<1>8. checksum = Not16(Fold(Fixed(e) + total_len))
  BY SMT, <1>3, <1>5, <1>6, <1>7, ReplaceWordExact
<1> HIDE DEF checksum
<1> QED BY SMT, <1>3, <1>4, <1>8 DEF Sound

\* Every packet sent through an endpoint verifies, whatever the addresses,
\* the TTL and the lengths sent before, as long as no patch has the sum
\* 0x1FFFF: that sum is the only case in which the length patch of the
\* template (patch_xdp_udp_endpoint_header_lengths) is wrong.
THEOREM ChecksumExact == WellFormed /\ EndpointSpec /\ [][SingleCarry]_endpoint_vars => []HeaderVerifies
<1>1. WellFormed /\ EndpointInit => EndpointInv
  BY SMT, TemplateSound DEF EndpointInit, EndpointInv
<1>2. EndpointInv /\ [EndpointNext]_endpoint_vars /\ [SingleCarry]_endpoint_vars => EndpointInv'
  <2> SUFFICES ASSUME EndpointInv, [EndpointNext]_endpoint_vars, [SingleCarry]_endpoint_vars PROVE EndpointInv'
    OBVIOUS
  <2>1. WellFormed /\ endpoint \in Endpoints
        /\ Sound(header, endpoint) /\ Sound(packet, endpoint)
    BY Zenon DEF EndpointInv
  <2>2. ASSUME NEW n \in PayloadLens, ValidPayload(endpoint, n), SingleCarry,
               packet' = Patched(header, n)
        PROVE  Sound(packet', endpoint)
    <3>1. CASE packet' = packet
      BY Zenon, <2>1, <3>1
    <3>2. CASE packet' # packet
      <4>1. n \in Nat
        BY SMT, <2>1 DEF WellFormed
      <4>2. n <= W16 - 1 - IPV4_MIN_HEADER_LEN - UDP_HEADER_LEN
        BY SMT, <2>2 DEF ValidPayload
      <4>3. Not16(header.checksum) + Not16(header.total_len) + Patched(header, n).total_len
              # 2 * W16 - 1
        BY SMT, <2>2, <3>2 DEF SingleCarry
      <4> QED BY SMT, <2>1, <2>2, <4>1, <4>2, <4>3, PatchSound
    <3> QED BY <3>1, <3>2
  <2>3. CASE SendToUdpEndpoint /\ SingleCarry
    <3>1. PICK n \in PayloadLens :
            /\ ValidPayload(endpoint, n)
            /\ header' = IF endpoint.payload_len # {} THEN header ELSE Patched(header, n)
            /\ packet' = header'
            /\ UNCHANGED endpoint
      BY SMT, <2>3 DEF SendToUdpEndpoint
    <3>2. Sound(header', endpoint)
      BY SMT, <2>1, <2>2, <2>3, <3>1
    <3> QED BY SMT, <2>1, <3>1, <3>2 DEF EndpointInv, WellFormed
  <2>4. CASE SendUdpEndpointBatch /\ SingleCarry
    <3>1. PICK n \in PayloadLens :
            /\ ValidPayload(endpoint, n)
            /\ packet' = Patched(header, n)
            /\ UNCHANGED <<endpoint, header>>
      BY SMT, <2>4 DEF SendUdpEndpointBatch
    <3>2. Sound(packet', endpoint)
      BY SMT, <2>2, <2>4, <3>1
    <3> QED BY SMT, <2>1, <3>1, <3>2 DEF EndpointInv, WellFormed
  <2>5. CASE Rebuild
    <3>1. Sound(header', endpoint) /\ endpoint' = endpoint /\ packet' = packet
      BY SMT, <2>1, <2>5, TemplateSound DEF Rebuild
    <3> QED BY SMT, <2>1, <3>1 DEF EndpointInv, WellFormed
  <2>6. CASE UNCHANGED endpoint_vars
    BY SMT, <2>1, <2>6 DEF endpoint_vars, EndpointInv, WellFormed
  <2> QED BY SMT, <2>3, <2>4, <2>5, <2>6 DEF EndpointNext, endpoint_vars
<1>3. EndpointInv => HeaderVerifies
  BY SMT, SoundVerifies DEF EndpointInv, HeaderVerifies
<1> QED BY <1>1, <1>2, <1>3, PTL DEF EndpointSpec

-----------------------------------------------------------------------------
(* The doorbell's safety, for any number of frames and any ring size.      *)

\* A sleeping kernel has asked for a doorbell, and descriptors that a kernel
\* not polling has not seen are accounted for as soon as no send is between
\* its commit and its doorbell.
Asks == kernel = "parked" => need_wakeup

Unseen == kernel # "polling" /\ ring > 0 /\ pc \in {"idle", "full"}

Accounted == Unseen => bell \in {"window", "swallowed"} \/ tx_wake_pending

DoorbellInv == TypeOK /\ Asks /\ Accounted

\* The initial state satisfies the inductive invariant: the ring is empty.
LEMMA InitInv == Init => DoorbellInv
<1> SUFFICES ASSUME Init PROVE DoorbellInv
  OBVIOUS
<1>1. TypeOK
  <2>1. /\ held \in 0 .. Frames /\ ring \in 0 .. TxSize /\ comp \in 0 .. Frames
        /\ Pool \in 0 .. Frames
    BY DoorbellAssumption DEF Init, Pool
  <2> QED BY <2>1 DEF Init, TypeOK
<1>2. Asks /\ Accounted
  BY DEF Init, Asks, Accounted, Unseen
<1> QED BY <1>1, <1>2 DEF DoorbellInv

\* A published batch leaves the counts in range.
LEMMA PublishTyped ==
    ASSUME TypeOK, Publish
    PROVE  /\ held' \in 0 .. Frames /\ ring' \in 0 .. TxSize
           /\ held' + ring' = held + ring
           /\ pc' \in {"idle", "gate"}
           /\ pc' = "idle" => ring' = ring
  BY DoorbellAssumption DEF TypeOK, Pool, Publish, Smaller

\* A doorbell wakes the kernel, is swallowed, or is remembered as owed.
LEMMA DoorbellOutcome ==
    ASSUME \E o \in Outcomes : Doorbell(o)
    PROVE  /\ tx_wake_pending' \in BOOLEAN
           /\ bell' \in {"rang", "swallowed", "failed"}
           /\ \/ kernel' = "polling"
              \/ kernel' = kernel /\ (bell' = "swallowed" \/ tx_wake_pending')
           /\ pc' = "idle"
           /\ UNCHANGED <<held, ring, comp, need_wakeup>>
<1>1. PICK o \in Outcomes : Doorbell(o)
  OBVIOUS
<1>2. o \in {"rang", "swallowed", "failed"}
  BY DoorbellAssumption
<1>3. tx_wake_pending' = (o = "failed")
  BY <1>1 DEF Doorbell
<1>4. tx_wake_pending' \in BOOLEAN /\ (o = "failed" => tx_wake_pending')
  BY <1>3, Zenon
<1>5. /\ kernel' = IF o = "rang" THEN "polling" ELSE kernel
      /\ bell' = o /\ pc' = "idle" /\ UNCHANGED <<held, ring, comp, need_wakeup>>
  BY <1>1 DEF Doorbell
<1> QED BY <1>2, <1>4, <1>5

\* Every step of the sender and of the kernel keeps the counts in range.
LEMMA StepTyped == ASSUME TypeOK, [Next]_vars PROVE TypeOK'
<1> USE DoorbellAssumption
<1>1. CASE Allocate
  BY <1>1 DEF Allocate, TypeOK, Pool, Smaller
<1>2. CASE DrainTxCompletions
  BY <1>2 DEF DrainTxCompletions, TypeOK, Pool
<1>3. CASE Send
  <2>1. CASE ring < TxSize /\ Publish /\ comp' \in {0, comp}
    BY <1>3, <2>1, PublishTyped DEF Send, TypeOK, Pool
  <2>2. CASE ring = TxSize /\ comp' = 0 /\ pc' = "full" /\ UNCHANGED <<ring, held>>
    BY <1>3, <2>2 DEF Send, TypeOK, Pool
  <2> QED BY <1>3, <2>1, <2>2 DEF Send
<1>4. CASE SendRetry
  BY <1>4, PublishTyped DEF SendRetry, TypeOK, Pool
<1>5. CASE Gate
  BY <1>5 DEF Gate, TypeOK, Pool
<1>6. CASE SendWake
  BY <1>6, DoorbellOutcome DEF SendWake, TypeOK, Pool
<1>7. CASE NotifyTx
  BY <1>7, DoorbellOutcome DEF NotifyTx, TypeOK, Pool
<1>8. CASE KernelTake
  <2>1. /\ held' \in 0 .. Frames /\ ring' \in 0 .. TxSize
        /\ comp' \in 0 .. Frames /\ Pool' \in 0 .. Frames
    BY <1>8 DEF KernelTake, TypeOK, Pool
  <2> QED BY <1>8, <2>1 DEF KernelTake, TypeOK
<1>9. CASE KernelFindsEmpty
  BY <1>9 DEF KernelFindsEmpty, TypeOK, Pool
<1>10. CASE KernelParks
  BY <1>10 DEF KernelParks, TypeOK, Pool
<1>11. CASE UNCHANGED vars
  BY <1>11 DEF vars, TypeOK, Pool
<1> QED
  BY <1>1, <1>2, <1>3, <1>4, <1>5, <1>6, <1>7, <1>8, <1>9, <1>10, <1>11
  DEF Next, Kernel

\* Every step keeps the accounting.  The step that matters is Gate: a kernel
\* that sleeps has its flag up, so only one that has just found the ring empty
\* can be passed over.
LEMMA StepAccounted == ASSUME DoorbellInv, [Next]_vars PROVE Asks' /\ Accounted'
<1> USE DoorbellAssumption DEF DoorbellInv, Asks, Accounted, Unseen
<1>1. CASE Allocate
  BY <1>1 DEF Allocate
<1>2. CASE DrainTxCompletions
  BY <1>2 DEF DrainTxCompletions
<1>3. CASE Send
  BY <1>3, PublishTyped DEF Send, TypeOK
<1>4. CASE SendRetry
  BY <1>4, PublishTyped DEF SendRetry, TypeOK
<1>5. CASE Gate
  BY <1>5 DEF Gate, TypeOK
<1>6. CASE SendWake
  BY <1>6, DoorbellOutcome DEF SendWake
<1>7. CASE NotifyTx
  BY <1>7, DoorbellOutcome DEF NotifyTx
<1>8. CASE KernelTake
  BY <1>8 DEF KernelTake
<1>9. CASE KernelFindsEmpty
  BY <1>9 DEF KernelFindsEmpty, TypeOK
<1>10. CASE KernelParks
  BY <1>10 DEF KernelParks
<1>11. CASE UNCHANGED vars
  BY <1>11 DEF vars
<1> QED
  BY <1>1, <1>2, <1>3, <1>4, <1>5, <1>6, <1>7, <1>8, <1>9, <1>10, <1>11
  DEF Next, Kernel

\* The inductive invariant holds in every reachable state.
LEMMA InvariantHolds == Spec => []DoorbellInv
<1>1. DoorbellInv /\ [Next]_vars => DoorbellInv'
  BY StepTyped, StepAccounted DEF DoorbellInv
<1> QED BY InitInv, <1>1, PTL DEF Spec

\* The frame counts of the sender stay in range whatever the doorbell does.
THEOREM TypeCorrect == Spec => []TypeOK
<1>1. DoorbellInv => TypeOK
  BY DEF DoorbellInv
<1> QED BY InvariantHolds, <1>1, PTL

\* Published descriptors are stranded only through the flag's window, a
\* swallowed transient errno, or a failed doorbell that is remembered.
THEOREM StallsExplained == Spec => []StallExplained
<1>1. DoorbellInv => StallExplained
  BY DEF DoorbellInv, Accounted, Unseen, StallExplained, Stalled
<1> QED BY InvariantHolds, <1>1, PTL
=============================================================================
