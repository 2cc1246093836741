---------------------------- MODULE RouteMonitor ----------------------------
(***************************************************************************)
(* Route fanout to the queues, and the UDP endpoints that cache what they  *)
(* resolve: XdpRouteMonitor and its handles (route_monitor.rs), the        *)
(* queue-local tables (XdpLocalRoutes) and the endpoint cache of           *)
(* XdpUdpSocket (socket.rs).                                               *)
(*                                                                         *)
(* A publisher builds a snapshot of its own and publishes it in two steps, *)
(* the fetch_add that stamps it and the store that makes it visible; a     *)
(* queue loads it, adopts a copy, and sends through its endpoint.          *)
(***************************************************************************)
EXTENDS RouteTable

CONSTANTS
    Publishers, Queues,
    IfIndexOf,             \* [Queues -> interface of the queue]
    SocketMtu,             \* config.mtu
    HeaderLen,             \* IPV4_MIN_HEADER_LEN + UDP_HEADER_LEN
    Destination,           \* the endpoints' destination
    Routes, Neighbors, Interfaces,  \* the facts publishers may add
    Dumps,                 \* what netlink may report
    DefaultMtu, U32Max,
    MaxUpserts,            \* bounds of the instance: upserts into the drafts,
    MaxShared,             \* upserts of behaviours in which a draft is shared,
    MaxPublish, MaxPending \* generations and updates a queue holds back

VARIABLES
    draft,            \* [Publishers -> snapshot being built]
    stamped,          \* [Publishers -> Option of the generation taken]
    next_generation,
    shared,           \* Option of [generation, snapshot]
    last_seen_generation,   \* of each queue's monitor handle
    snapshot, pending, generation,   \* XdpLocalRoutes of each queue
    endpoint,         \* [Queues -> Option of the endpoint's `cached']
    upserts           \* their number so far, to bound the instance

vars == <<draft, stamped, next_generation, shared, last_seen_generation,
          snapshot, pending, generation, endpoint, upserts>>

Init ==
    /\ draft = [p \in Publishers |-> EmptySnapshot]
    /\ stamped = [p \in Publishers |-> None]
    /\ next_generation = 0
    /\ shared = None
    /\ last_seen_generation = [q \in Queues |-> 0]
    /\ snapshot = [q \in Queues |-> EmptySnapshot]
    /\ pending = [q \in Queues |-> <<>>]
    /\ generation = [q \in Queues |-> 0]
    /\ endpoint = [q \in Queues |-> None]
    /\ upserts = 0

-----------------------------------------------------------------------------
(* Publishers: the netlink thread, or an application's own.                *)

\* Nothing has left a publisher yet.
Private ==
    /\ next_generation = 0
    /\ \A q \in Queues : pending[q] = <<>> /\ generation[q] = 0

Drafts(p, s) ==
    /\ stamped[p] = None
    /\ draft' = [draft EXCEPT ![p] = s]
    /\ UNCHANGED <<stamped, next_generation, shared, last_seen_generation,
                   snapshot, pending, generation, endpoint>>

Upserts(p, s) ==
    /\ upserts < IF Private THEN MaxUpserts ELSE MaxShared
    /\ upserts' = upserts + 1
    /\ Drafts(p, s)

UpsertRoute(p) ==
    \E r \in Routes : Upserts(p, upsert_routes_v4(draft[p], <<r>>))

UpsertNeighbor(p) ==
    \E n \in Neighbors : Upserts(p, upsert_neighbor_v4(draft[p], n.ifindex, n.ip, n.mac))

UpsertInterface(p) ==
    \E i \in Interfaces : Upserts(p, upsert_interface(draft[p], i))

\* RouteSnapshot::from_netlink; when it fails the thread keeps what is shared
FromNetlink(p) ==
    /\ draft[p] = EmptySnapshot
    /\ \E d \in Dumps : Drafts(p, from_netlink(d, DefaultMtu, U32Max))
    /\ UNCHANGED upserts

\* publish: the fetch_add
Stamp(p) ==
    /\ stamped[p] = None
    /\ next_generation < MaxPublish /\ upserts <= MaxShared
    /\ next_generation' = next_generation + 1
    /\ stamped' = [stamped EXCEPT ![p] = {next_generation + 1}]
    /\ UNCHANGED <<draft, shared, last_seen_generation, snapshot, pending,
                   generation, endpoint, upserts>>

\* publish: the store, which gives the snapshot away
Store(p) ==
    /\ stamped[p] # None
    /\ shared' = {[generation |-> The(stamped[p]), snapshot |-> draft[p]]}
    /\ stamped' = [stamped EXCEPT ![p] = None]
    /\ draft' = [draft EXCEPT ![p] = EmptySnapshot]
    /\ UNCHANGED <<next_generation, last_seen_generation, snapshot, pending,
                   generation, endpoint, upserts>>

Publish(p) == Stamp(p) \/ Store(p)

-----------------------------------------------------------------------------
(* Queue owners.                                                           *)

\* Mutant of Adopted: updates that did not come from the monitor leave the
\* generation alone.
AdoptedKeepsGeneration(q, updates) ==
    /\ snapshot' = [snapshot EXCEPT ![q] = Last(updates)]
    /\ pending' = [pending EXCEPT ![q] = <<>>]
    /\ generation' = [generation EXCEPT ![q] = IF updates = pending[q] THEN @ ELSE @ + 1]

\* XdpLocalRoutes::apply_updates with a queue that is not empty
Adopted(q, updates) ==
    /\ snapshot' = [snapshot EXCEPT ![q] = Last(updates)]
    /\ pending' = [pending EXCEPT ![q] = <<>>]
    /\ generation' = [generation EXCEPT ![q] = @ + Len(updates)]

\* XdpUdpSocket::routes_mut().push_update with a snapshot of the application
PushUpdate(q) ==
    /\ Len(pending[q]) < MaxPending /\ generation[q] < MaxPublish
    /\ upserts <= MaxShared
    /\ \E p \in Publishers : pending' = [pending EXCEPT ![q] = Append(@, draft[p])]
    /\ UNCHANGED <<draft, stamped, next_generation, shared, last_seen_generation,
                   snapshot, generation, endpoint, upserts>>

\* XdpQueueLocalRouter::apply_route_updates
ApplyRouteUpdates(q) ==
    /\ pending[q] # <<>>
    /\ Adopted(q, pending[q])
    /\ UNCHANGED <<draft, stamped, next_generation, shared, last_seen_generation,
                   endpoint, upserts>>

\* Mutant of Unseen: only a larger generation is an update.
UnseenNewer(q) == {v \in shared : v.generation > last_seen_generation[q]}

Unseen(q) == {v \in shared : v.generation # last_seen_generation[q]}

\* XdpRouteMonitorHandle::apply_updates; it returns early when nothing is new
ApplyUpdates(q) ==
    \/ /\ Unseen(q) = None
       /\ UNCHANGED vars
    \/ \E v \in Unseen(q) :
        /\ last_seen_generation' = [last_seen_generation EXCEPT ![q] = v.generation]
        /\ Adopted(q, Append(pending[q], v.snapshot))
        /\ UNCHANGED <<draft, stamped, next_generation, shared, endpoint, upserts>>

\* build_xdp_udp_endpoint_cache: fails without a route, and when the MTU
\* leaves no room for the headers
EndpointCache(q) ==
    {[route_generation |-> generation[q], l2_header |-> r.l2_header,
      max_payload_len |-> r.ip_mtu - HeaderLen] :
        r \in {x \in resolve_l2_for_interface(snapshot[q], Destination, IfIndexOf[q],
                                              SocketMtu) : x.ip_mtu >= HeaderLen}}

\* prepare_xdp_udp_endpoint; an endpoint belongs to the socket that made it
PrepareEndpoint(q) ==
    /\ endpoint[q] = None /\ EndpointCache(q) # None
    /\ endpoint' = [endpoint EXCEPT ![q] = {EndpointCache(q)}]
    /\ UNCHANGED <<draft, stamped, next_generation, shared, last_seen_generation,
                   snapshot, pending, generation, upserts>>

\* refresh_udp_endpoint_cache: a header of another generation is dropped and
\* rebuilt; when that fails the send fails and the cache stays empty
Refreshed(q, cached) ==
    IF \E c \in cached : c.route_generation = generation[q]
    THEN cached ELSE EndpointCache(q)

\* send_to_udp_endpoint up to the header it copies into every packet
SendToEndpoint(q) ==
    /\ endpoint[q] # None
    /\ endpoint' = [endpoint EXCEPT ![q] = {Refreshed(q, The(@))}]
    /\ UNCHANGED <<draft, stamped, next_generation, shared, last_seen_generation,
                   snapshot, pending, generation, upserts>>

-----------------------------------------------------------------------------

Publisher(p) ==
    UpsertRoute(p) \/ UpsertNeighbor(p) \/ UpsertInterface(p) \/ FromNetlink(p) \/ Publish(p)

Queue(q) ==
    PushUpdate(q) \/ ApplyRouteUpdates(q) \/ ApplyUpdates(q)
    \/ PrepareEndpoint(q) \/ SendToEndpoint(q)

Next == (\E p \in Publishers : Publisher(p)) \/ (\E q \in Queues : Queue(q))

Spec == Init /\ [][Next]_vars

\* A publish that was begun is finished, and queue owners keep calling
\* apply_updates outside their packet path.
FairSpec ==
    /\ Spec
    /\ \A p \in Publishers : WF_vars(Store(p))
    /\ \A q \in Queues : WF_vars(ApplyUpdates(q))

-----------------------------------------------------------------------------

Snapshots ==
    {draft[p] : p \in Publishers} \cup {snapshot[q] : q \in Queues}
        \cup {v.snapshot : v \in shared}

\* Every table a poptrie of a snapshot holds satisfies what the unchecked
\* array accesses of lookup rely on, after any sequence of route updates.
TablesValid ==
    \A s \in Snapshots : \A t \in s.route_index : validate_invariants(t)

\* Whatever the order in which routes, neighbors and interfaces arrived, the
\* two indexes of a snapshot resolve every destination on every interface to
\* the header that longest-prefix match, route priority and the neighbor
\* table give.
ResolutionExact ==
    \A s \in Snapshots : \A dst \in Key : \A i \in Range(IfIndexOf) :
        Resolves(s, dst, i, SocketMtu)

\* A cached endpoint header that passes the generation check of a send is the
\* one the queue's current snapshot resolves to: comparing generations alone
\* never lets a header outlive a route update.
EndpointFresh ==
    \A q \in Queues : \A cached \in endpoint[q] : \A c \in cached :
        /\ c.route_generation <= generation[q]
        /\ c.route_generation = generation[q] => cached = EndpointCache(q)

\* Two publishers may store in the other order than they took their
\* generations, and the shared snapshot then goes back to an older generation;
\* still every queue ends having seen the snapshot that is shared, since handles
\* compare generations for equality, and what a queue routes by once it has
\* seen a snapshot is that snapshot, also when updates of the application were
\* waiting in the queue's own table.
QueuesConverge ==
    /\ \A q \in Queues :
        <>[](\A v \in shared : last_seen_generation[q] = v.generation)
    /\ [][\A q \in Queues : \A v \in shared :
            last_seen_generation'[q] # last_seen_generation[q] =>
                last_seen_generation'[q] = v.generation /\ snapshot'[q] = v.snapshot]_vars
=============================================================================
