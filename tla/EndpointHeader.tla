--------------------------- MODULE EndpointHeader ---------------------------
(***************************************************************************)
(* The header template of a prepared UDP endpoint (socket.rs, buffer.rs):  *)
(* written once with a full IPv4 checksum, and patched for each payload    *)
(* length, in place by send_to_udp_endpoint and in a copy by the direct    *)
(* batch.  Header fields are 16-bit words and keep their width.            *)
(***************************************************************************)
EXTENDS Integers

CONSTANTS
    Endpoints,     \* [source, destination: <<high, low>> address words,
                   \*  payload_len: {} or the fixed length, mtu]
    PayloadLens,   \* lengths the application sends
    TTL

W16 == 65536
UDP_PROTOCOL == 17
IPV4_MIN_HEADER_LEN == 20
UDP_HEADER_LEN == 8

VARIABLES
    endpoint,
    header,     \* cached.header, without its L2 part
    packet      \* the header of the packet sent last

endpoint_vars == <<endpoint, header, packet>>

\* !x of a u16
Not16(x) == W16 - 1 - x

FoldOnce(sum) == (sum % W16) + (sum \div W16)

\* The words of the IPv4 header, added up; the first is version, IHL and no
\* ECN, 0x4500, and the identification and fragment words are 0.
WordSum(h) ==
    17664 + h.total_len + TTL * 256 + UDP_PROTOCOL + h.checksum
      + h.source[1] + h.source[2] + h.destination[1] + h.destination[2]

\* A sum of ten words needs at most two folds.
ipv4_header_checksum(h) == Not16(FoldOnce(FoldOnce(WordSum(h))))

write_ipv4_udp_headers(e, payload_len) ==
    LET h == [source |-> e.source, destination |-> e.destination,
              total_len |-> payload_len + UDP_HEADER_LEN + IPV4_MIN_HEADER_LEN,
              udp_len |-> payload_len + UDP_HEADER_LEN, checksum |-> 0]
    IN [h EXCEPT !.checksum = ipv4_header_checksum(h)]

\* build_xdp_udp_endpoint_cache: a template of the fixed length, or of zero
Template(e) ==
    write_ipv4_udp_headers(e, IF e.payload_len = {} THEN 0
                              ELSE CHOOSE n \in e.payload_len : TRUE)

ipv4_checksum_replace_word(checksum, old, new) ==
    Not16(FoldOnce(Not16(checksum) + Not16(old) + new) % W16)

\* patch_xdp_udp_endpoint_header_lengths, XdpEndpointHeaderPatch::patch
Patched(h, payload_len) ==
    LET total_len == payload_len + UDP_HEADER_LEN + IPV4_MIN_HEADER_LEN
    IN [h EXCEPT !.total_len = total_len, !.udp_len = payload_len + UDP_HEADER_LEN,
            !.checksum = ipv4_checksum_replace_word(h.checksum, h.total_len, total_len)]

\* validate_xdp_udp_endpoint_payload
ValidPayload(e, n) ==
    /\ e.payload_len # {} => n \in e.payload_len
    /\ n <= e.mtu
    /\ n <= W16 - 1 - IPV4_MIN_HEADER_LEN - UDP_HEADER_LEN

EndpointInit ==
    /\ endpoint \in Endpoints
    /\ header = Template(endpoint)
    /\ packet = Template(endpoint)

\* update_xdp_udp_endpoint_header: the cached template itself is patched, and
\* left alone when the length is fixed.  An invalid length ends the send.
SendToUdpEndpoint ==
    \E n \in PayloadLens :
        /\ ValidPayload(endpoint, n)
        /\ header' = IF endpoint.payload_len # {} THEN header ELSE Patched(header, n)
        /\ packet' = header'
        /\ UNCHANGED endpoint

\* prepare_endpoint_batch: the template is copied and the copy patched
SendUdpEndpointBatch ==
    \E n \in PayloadLens :
        /\ ValidPayload(endpoint, n)
        /\ packet' = Patched(header, n)
        /\ UNCHANGED <<endpoint, header>>

\* refresh_udp_endpoint_cache after a route update
Rebuild ==
    /\ header' = Template(endpoint)
    /\ UNCHANGED <<endpoint, packet>>

EndpointNext == SendToUdpEndpoint \/ SendUdpEndpointBatch \/ Rebuild

EndpointSpec == EndpointInit /\ [][EndpointNext]_endpoint_vars

\* The IPv4 header of every packet sent through an endpoint verifies, whatever
\* the lengths sent before ("assert_eq!(ipv4_header_checksum(
\* &header[..IPV4_MIN_HEADER_LEN]), 0)" after each length patch).
HeaderVerifies == ipv4_header_checksum(packet) = 0
=============================================================================
