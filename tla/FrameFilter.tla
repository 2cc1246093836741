---------------------------- MODULE FrameFilter -----------------------------
(***************************************************************************)
(* What the eBPF programs and the socket's parser make of a received frame *)
(* (fast-socket-xdp-ebpf main.rs, socket.rs).  A frame is a record: `l2`   *)
(* is its chain of ethertypes, the other fields are header fields and      *)
(* `len` is the number of bytes that are really there.                     *)
(***************************************************************************)
EXTENDS Integers, Sequences

ETHERNET_HEADER_LEN == 14
VLAN_HEADER_LEN == 18
IPV4_HEADER_LEN == 20
UDP_LEN == 8

PASS == [action |-> "XDP_PASS"]
DROP == [action |-> "XDP_DROP"]
REDIRECT(socket) == [action |-> "XDP_REDIRECT", socket |-> socket]

-----------------------------------------------------------------------------
(* The eBPF side.  A bounds check that fails and a frame that is not       *)
(* IPv4/UDP both end in XDP_PASS; either is the empty set here.            *)

\* The ethertype behind the tags and the length of the L2 header
packet_ethertype(f) ==
    CASE f.l2[1] = "vlan" -> [ethertype |-> f.l2[2], l2_len |-> 18]
      [] f.l2[1] = "qinq" /\ f.l2[2] = "vlan" -> [ethertype |-> f.l2[3], l2_len |-> 22]
      [] f.l2[1] = "qinq" /\ f.l2[2] # "vlan" -> [ethertype |-> f.l2[2], l2_len |-> 18]
      [] OTHER -> [ethertype |-> f.l2[1], l2_len |-> 14]

ipv4_udp_destination_port(f, l2_len) ==
    IF /\ l2_len + IPV4_HEADER_LEN <= f.len
       /\ f.version = 4 /\ f.ihl >= IPV4_HEADER_LEN
       /\ ~f.fragment /\ f.protocol = "udp"
       /\ l2_len + f.ihl + UDP_LEN <= f.len
    THEN {f.port} ELSE {}

packet_udp_destination_port(f) ==
    LET p == packet_ethertype(f)
    IN IF p.l2_len <= f.len /\ p.ethertype = "ipv4"
       THEN ipv4_udp_destination_port(f, p.l2_len) ELSE {}

\* has_bound_ports, is_bound_port, bound_port_range
FilterAccepts(program, port) ==
    IF program.config.kind = "BoundPorts"
    THEN program.count # 0 /\ port \in program.ports
    ELSE /\ ~(program.config.start = 0 /\ program.config.end = 0)
         /\ port \in program.config.start .. program.config.end

redirect_to_xskmap(program, queue) ==
    IF program.xskmap[queue] = {} THEN DROP
    ELSE REDIRECT(CHOOSE s \in program.xskmap[queue] : TRUE)

\* fast_socket_xdp and fast_socket_xdp_port_range
Verdict(program, queue, f) ==
    IF \E port \in packet_udp_destination_port(f) : FilterAccepts(program, port)
    THEN redirect_to_xskmap(program, queue) ELSE PASS

-----------------------------------------------------------------------------
(* The receiving socket.                                                   *)

\* parse_ipv4_udp_datagram: the payload's offset and length, if it is UDP
parse_ipv4_udp_datagram(f, available) ==
    IF /\ available >= IPV4_HEADER_LEN /\ f.version = 4
       /\ f.ihl >= IPV4_HEADER_LEN /\ f.ihl <= available
       /\ f.ihl <= f.total_len /\ f.total_len <= available
       /\ ~f.fragment /\ f.protocol = "udp"
       /\ f.ihl + UDP_LEN <= f.total_len
       /\ UDP_LEN <= f.udp_len /\ f.ihl + f.udp_len <= f.total_len
    THEN {[offset |-> f.ihl + UDP_LEN, len |-> f.udp_len - UDP_LEN, port |-> f.port]}
    ELSE {}

\* parse_ethernet_ipv4_udp: at most one 802.1Q tag
parse_ethernet_ipv4_udp(f) ==
    LET vlan == f.l2[1] = "vlan"
        l2_len == IF vlan THEN VLAN_HEADER_LEN ELSE ETHERNET_HEADER_LEN
        ethertype == IF vlan THEN f.l2[2] ELSE f.l2[1]
    IN IF l2_len <= f.len /\ ethertype = "ipv4"
       THEN {[p EXCEPT !.offset = l2_len + p.offset] :
                 p \in parse_ipv4_udp_datagram(f, f.len - l2_len)}
       ELSE {}

\* XdpUdpAcceptedPorts::accepts
accepts(accepted, port) == port \in accepted

\* The filter of recv_udp_inner: the datagrams a socket hands to its caller
Received(local_ip, accepted, f) ==
    {p \in parse_ethernet_ipv4_udp(f) :
        /\ local_ip \in {0, f.destination}
        /\ accepts(accepted, p.port)}

-----------------------------------------------------------------------------
\* A complete, unfragmented UDP datagram behind at most one 802.1Q tag.
Datagram(f) ==
    \E l2_len \in {ETHERNET_HEADER_LEN, VLAN_HEADER_LEN} :
        /\ f.l2 = IF l2_len = VLAN_HEADER_LEN THEN <<"vlan", "ipv4">> ELSE <<"ipv4">>
        /\ f.version = 4 /\ f.protocol = "udp" /\ ~f.fragment
        /\ f.ihl >= IPV4_HEADER_LEN /\ f.udp_len >= UDP_LEN
        /\ f.ihl + f.udp_len <= f.total_len
        /\ l2_len + f.total_len <= f.len
=============================================================================
