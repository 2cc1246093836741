----------------------------- MODULE RouteTable -----------------------------
(***************************************************************************)
(* RouteSnapshot (route.rs) and the egress it resolves (egress.rs): three  *)
(* source tables (routes, neighbors, interfaces) and two indexes derived   *)
(* from them, a poptrie from destination to route and, per interface, one  *)
(* egress slot per route.  Every mutation rebuilds the indexes it affects. *)
(*                                                                         *)
(* An address is a key of the poptrie, a MAC any value, the Option of a    *)
(* value a set of at most one element.  Route indexes count from zero.     *)
(***************************************************************************)
EXTENDS Poptrie

Least(a, b) == IF a < b THEN a ELSE b

\* An Option<Ipv4Addr> or Option<IfIndex> is a set: {} is None.
None == {}
OrElse(a, b) == IF a # None THEN a ELSE b
The(option) == CHOOSE x \in option : TRUE

\* RouteSnapshot::new
EmptySnapshot ==
    [routes |-> <<>>,                       \* Seq of Ipv4Route
     neighbors |-> [k \in {} |-> None],     \* <<ifindex, ip>> to MAC
     interfaces |-> [i \in {} |-> None],    \* ifindex to InterfaceInfo
     route_index |-> None,                  \* Option<Ipv4Poptrie>
     egress_index |-> [i \in {} |-> None]]  \* ifindex to InterfaceEgress

Get(map, key) == IF key \in DOMAIN map THEN {map[key]} ELSE None

Put(map, key, value) ==
    [k \in DOMAIN map \cup {key} |-> IF k = key THEN value ELSE map[k]]

\* neighbors_v4.get(&(ifindex, ip)).or_else(|| ...get(&(route.ifindex, ip)))
Neighbor(s, ifindex, route, ip) ==
    OrElse(Get(s.neighbors, <<ifindex, ip>>), Get(s.neighbors, <<route.ifindex, ip>>))

\* XdpEgress::ipv4 with the L2 header build_ethernet_header writes from it:
\* both MACs, no VLAN and the IPv4 ethertype
Egress(ifindex, queue, dst_mac, src_mac, mtu) ==
    [ifindex |-> ifindex, queue |-> queue,
     l2_header |-> <<dst_mac, src_mac>>, mtu |-> mtu]

-----------------------------------------------------------------------------
(* The derived indexes.                                                    *)

\* Inserted from the last route to the first, so that of equal prefixes the
\* one that sorts first wins.
rebuild_route_index_v4(s) ==
    LET n == Len(s.routes)
        ins(b, k) == insert(b, s.routes[n + 1 - k].destination,
                            s.routes[n + 1 - k].prefix_len, n - k)
    IN [s EXCEPT !.route_index =
            IF n = 0 THEN None ELSE {build(FoldLeftDomain(ins, NewBuilder, s.routes))}]

\* slots sentinels
EGRESS_NONE == -1
EGRESS_ON_LINK == -2

\* The route leaves through `interface', or through the bond master of it.
EgressesThrough(interface, route) ==
    route.ifindex = interface.ifindex \/ interface.master = {route.ifindex}

\* The prebuilt egress of a gateway route, None while its MAC is unknown.
GatewayEgress(s, interface, route) ==
    {Egress(interface.ifindex, interface.queue, mac, interface.mac,
            Least(route.mtu, interface.mtu)) :
        mac \in Neighbor(s, interface.ifindex, route, The(route.gateway))}

\* One interface's slots, and its distinct prebuilt egresses.
InterfaceEgress(s, interface) ==
    FoldLeft(
        LAMBDA acc, route :
            IF ~EgressesThrough(interface, route)
            THEN [acc EXCEPT !.slots = Append(@, EGRESS_NONE)]
            ELSE IF route.gateway = None
            THEN [acc EXCEPT !.slots = Append(@, EGRESS_ON_LINK)]
            ELSE LET egress == GatewayEgress(s, interface, route)
                     all == IF egress = None THEN acc.egresses
                            ELSE intern(acc.egresses, The(egress))
                 IN [slots |-> Append(acc.slots, IF egress = None THEN EGRESS_NONE
                                                 ELSE Position(all, The(egress)) - 1),
                     egresses |-> all],
        [slots |-> <<>>, egresses |-> <<>>], s.routes)

\* Interfaces no route leaves through are omitted.
rebuild_egress_index_v4(s) ==
    LET all == [i \in DOMAIN s.interfaces |-> InterfaceEgress(s, s.interfaces[i])]
        used == {i \in DOMAIN all : Range(all[i].slots) \ {EGRESS_NONE} # {}}
    IN [s EXCEPT !.egress_index = [i \in used |-> all[i]]]

-----------------------------------------------------------------------------
(* Mutations.                                                              *)

upsert_route_v4_no_sort(routes, route) ==
    LET same(k) == /\ routes[k].destination = route.destination
                   /\ routes[k].prefix_len = route.prefix_len
                   /\ routes[k].ifindex = route.ifindex
                   /\ routes[k].gateway = route.gateway
    IN IF \E k \in DOMAIN routes : same(k)
       THEN [routes EXCEPT ![Min({k \in DOMAIN routes : same(k)})] = route]
       ELSE Append(routes, route)

\* A stable sort: longest prefix first, then lowest priority.
sort_routes_v4(routes) ==
    LET before(i, j) ==
            \/ routes[i].prefix_len > routes[j].prefix_len
            \/ /\ routes[i].prefix_len = routes[j].prefix_len
               /\ \/ routes[i].priority < routes[j].priority
                  \/ routes[i].priority = routes[j].priority /\ i < j
        order == SetToSortSeq(DOMAIN routes, before)
    IN [k \in DOMAIN routes |-> routes[order[k]]]

\* upsert_routes_v4; upsert_route_v4 is the case of one route.
upsert_routes_v4(s, new) ==
    LET routes == FoldLeft(upsert_route_v4_no_sort, s.routes, new)
    IN IF new = <<>> THEN s
       ELSE rebuild_egress_index_v4(
                rebuild_route_index_v4([s EXCEPT !.routes = sort_routes_v4(routes)]))

\* Mutant of upsert_neighbor_v4: the prebuilt headers are not rebuilt.
upsert_neighbor_stale(s, ifindex, ip, mac) ==
    [s EXCEPT !.neighbors = Put(@, <<ifindex, ip>>, mac)]

upsert_neighbor_v4(s, ifindex, ip, mac) ==
    rebuild_egress_index_v4([s EXCEPT !.neighbors = Put(@, <<ifindex, ip>>, mac)])

upsert_interface(s, info) ==
    rebuild_egress_index_v4([s EXCEPT !.interfaces = Put(@, info.ifindex, info)])

\* build_netlink_snapshot: links without a MAC, routes without an output
\* interface or with an IPv6 address, and neighbors without a MAC or with an
\* IPv6 address are skipped; a route without a destination is the default
\* route.  The dump's Options are sets; an IPv6 address is no key of the trie.
V4(option) == option \subseteq Key

from_netlink(dump, DEFAULT_MTU, U32_MAX) ==
    LET links == SelectSeq(dump.links, LAMBDA l : l.mac # None)
        with_links == FoldLeft(
            LAMBDA s, l : upsert_interface(s,
                [ifindex |-> l.ifindex, master |-> l.master, mac |-> The(l.mac),
                 mtu |-> The(OrElse(l.mtu, {DEFAULT_MTU})), queue |-> 0]),
            EmptySnapshot, links)
        usable == SelectSeq(dump.routes, LAMBDA r :
            r.oif # None /\ V4(r.destination) /\ V4(r.gateway))
        route(r) == [destination |-> The(OrElse(r.destination, {0})),
                     prefix_len |-> Least(r.dst_len, BITS), ifindex |-> The(r.oif),
                     gateway |-> r.gateway, priority |-> The(OrElse(r.priority, {U32_MAX})),
                     mtu |-> U32_MAX]
        with_routes == upsert_routes_v4(with_links, [k \in DOMAIN usable |-> route(usable[k])])
        known == SelectSeq(dump.neighbors, LAMBDA n :
            n.destination # None /\ V4(n.destination) /\ n.lladdr # None)
    IN FoldLeft(
        LAMBDA s, n : upsert_neighbor_v4(s, n.ifindex, The(n.destination), The(n.lladdr)),
        with_routes, known)

-----------------------------------------------------------------------------
(* Resolution.  Each result is an Option.                                  *)

lookup_route_index_v4(s, dst) ==
    IF s.route_index = None THEN None ELSE lookup(The(s.route_index), dst)

lookup_route_v4(s, dst) == {s.routes[i + 1] : i \in lookup_route_index_v4(s, dst)}

\* RouteSnapshot::egress_v4
egress_v4(s, dst) ==
    UNION {
        {Egress(route.ifindex, i.queue, mac, i.mac, Least(route.mtu, i.mtu)) :
            mac \in Get(s.neighbors, <<route.ifindex, The(OrElse(route.gateway, {dst}))>>),
            i \in Get(s.interfaces, route.ifindex)} :
        route \in lookup_route_v4(s, dst)}

\* resolve_l2_on_link_v4 and the EGRESS_ON_LINK arm of resolved_v4_for_interface
resolve_l2_on_link_v4(s, route_index, dst, ifindex) ==
    LET route == s.routes[route_index + 1]
    IN {Egress(ifindex, i.queue, mac, i.mac, Least(route.mtu, i.mtu)) :
            mac \in Neighbor(s, ifindex, route, dst), i \in Get(s.interfaces, ifindex)}

\* resolved_v4_for_interface without its queue stamp: from the indexes alone,
\* except for the neighbor of an on-link destination
resolved_v4_for_interface(s, dst, ifindex) ==
    LET found(index, folded) ==
            LET slot == folded.slots[index + 1]
            IN IF slot = EGRESS_NONE THEN None
               ELSE IF slot = EGRESS_ON_LINK
               THEN resolve_l2_on_link_v4(s, index, dst, ifindex)
               ELSE {folded.egresses[slot + 1]}
    IN UNION {found(index, folded) : index \in lookup_route_index_v4(s, dst),
                                     folded \in Get(s.egress_index, ifindex)}

\* resolve_l2_for_interface takes the same steps; the MTU is the socket's or
\* the egress's
resolve_l2_for_interface(s, dst, ifindex, mtu) ==
    {[l2_header |-> e.l2_header, ip_mtu |-> Least(mtu, e.mtu)] :
        e \in resolved_v4_for_interface(s, dst, ifindex)}

-----------------------------------------------------------------------------
(* What resolution means, from the source tables alone.                    *)

Covers(route, dst) ==
    dst \div 2 ^ (BITS - route.prefix_len) = route.destination \div 2 ^ (BITS - route.prefix_len)

\* The routes longest-prefix match may choose: no other route that covers dst
\* is longer, or as long with a lower priority.
BestRoutes(s, dst) ==
    LET covering == {r \in Range(s.routes) : Covers(r, dst)}
    IN {r \in covering : \A q \in covering :
            \/ q.prefix_len < r.prefix_len
            \/ q.prefix_len = r.prefix_len /\ r.priority <= q.priority}

\* The header and MTU of a datagram that follows `route' out of `ifindex'.
L2Of(s, route, dst, ifindex, mtu) ==
    {[l2_header |-> <<mac, i.mac>>, ip_mtu |-> Least(mtu, Least(route.mtu, i.mtu))] :
        i \in {x \in Get(s.interfaces, ifindex) : EgressesThrough(x, route)},
        mac \in Neighbor(s, ifindex, route, The(OrElse(route.gateway, {dst})))}

\* The indexes answer as the source tables do.
Resolves(s, dst, ifindex, mtu) ==
    LET best == BestRoutes(s, dst)
        l2 == resolve_l2_for_interface(s, dst, ifindex, mtu)
        route == lookup_route_v4(s, dst)
    IN /\ best = {} => route = None /\ l2 = None
       /\ best # {} => route # None /\ The(route) \in best
                       /\ l2 = L2Of(s, The(route), dst, ifindex, mtu)
       /\ \A e \in egress_v4(s, dst) : e \in resolved_v4_for_interface(s, dst, e.ifindex)
=============================================================================
