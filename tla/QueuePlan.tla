----------------------------- MODULE QueuePlan ------------------------------
(***************************************************************************)
(* Which worker drives which queue: queue discovery through bonds          *)
(* (interface.rs) and the partition of the claimed queues into worker      *)
(* plans (XdpFactoryBuilder::build, factory.rs).  Pure operators; a result *)
(* that may fail is a set with no element or one.                          *)
(***************************************************************************)
EXTENDS Integers, Sequences, SequencesExt, FiniteSets, FiniteSetsExt

Ok(value) == {value}
Err == {}

\* The sequence itself, built as a tuple: TLC evaluates its elements only once.
Tuple(seq) == seq \o <<>>

-----------------------------------------------------------------------------
(* Discovery.  `net` maps an interface to its sysfs attributes.            *)

xdp_bindable_bond_slaves(net, iface) ==
    LET bond == net[iface]
        selected == IF ~bond.active_backup THEN bond.slaves
                    ELSE SelectSeq(bond.slaves, LAMBDA s : s = bond.active)
    IN SelectSeq(selected, LAMBDA s : net[s].up)

\* fill_queue_slots: a bond without a usable slave, and an interface without
\* queues, is an error of the whole discovery
fill_queue_slots(net, root) ==
    LET fill[iface \in DOMAIN net] ==
            IF net[iface].slaves = <<>>
            THEN IF net[iface].queues = 0 THEN Err
                 ELSE Ok([n \in 1..net[iface].queues |-> [ifindex |-> iface, queue |-> n]])
            ELSE LET slaves == xdp_bindable_bond_slaves(net, iface)
                     each == Tuple([n \in DOMAIN slaves |-> fill[slaves[n]]])
                 IN IF slaves = <<>> \/ \E n \in DOMAIN slaves : each[n] = Err THEN Err
                    ELSE Ok(FlattenSeq([n \in DOMAIN slaves |-> CHOOSE q \in each[n] : TRUE]))
    IN fill[root]

\* xdp_queue_slots_for_interface numbers the slots
xdp_queue_slots_for_interface(net, iface) ==
    {Tuple([n \in DOMAIN slots |-> [flat_index |-> n - 1] @@ slots[n]]) :
        slots \in fill_queue_slots(net, iface)}

-----------------------------------------------------------------------------
(* The factory.  `b` is an XdpFactoryBuilder with its slots.               *)

\* PortFilter::validate
ValidFilter(filter) ==
    CASE filter.kind = "AllIp" -> TRUE
      [] filter.kind = "UdpPorts" -> filter.ports # <<>>
      [] filter.kind = "UdpPortRange" ->
             filter.start <= filter.end /\ ~(filter.start = 0 /\ filter.end = 0)

claimed_slots_checked(b) ==
    CASE b.claim.kind = "All" -> Ok(b.slots)
      [] b.claim.kind = "First" ->
             Ok(SubSeq(b.slots, 1, Min({b.claim.n, Len(b.slots)})))
      [] b.claim.kind = "Queues" ->
             LET Slot(flat) == {s \in Range(b.slots) : s.flat_index = flat}
             IN IF \E n \in DOMAIN b.claim.queues : Slot(b.claim.queues[n]) = {} THEN Err
                ELSE Ok(Tuple([n \in DOMAIN b.claim.queues |->
                                  CHOOSE s \in Slot(b.claim.queues[n]) : TRUE]))

\* queue_numa_node: the node of the queue's IRQ CPU, else the device's node
queue_numa_node(host, slot) ==
    LET q == <<slot.ifindex, slot.queue>>
        irq_node == {n \in DOMAIN host.cores :
                        q \in DOMAIN host.irq /\ host.irq[q] \in Range(host.cores[n])}
    IN IF irq_node # {} THEN irq_node ELSE host.device_node[slot.ifindex]

\* slots.sort_by_key(ifindex), which is stable
SortByInterface(slots) ==
    LET indexes == SetToSortSeq({s.ifindex : s \in Range(slots)}, <)
    IN FlattenSeq([k \in DOMAIN indexes |->
                      SelectSeq(slots, LAMBDA s : s.ifindex = indexes[k])])

\* Mutant of chunks: a last block that takes one queue too few.
chunks_short(slots, size) ==
    [k \in 1..(Len(slots) \div size) |->
        SubSeq(slots, (k - 1) * size + 1, IF k * size = Len(slots) /\ size > 1
                                          THEN k * size - 1 ELSE k * size)]

chunks(slots, size) ==
    [k \in 1..(Len(slots) \div size) |-> SubSeq(slots, (k - 1) * size + 1, k * size)]

\* The CPU of the worker `index` (from 0) of a node
AssignedCpu(b, host, node, index) ==
    IF b.core_assignment = {}
    THEN Ok(host.cores[node][(index % Len(host.cores[node])) + 1])
    ELSE {f[index] : f \in b.core_assignment} \cap Range(host.cores[node])

NodePlans(b, host, node, slots, threads) ==
    LET blocks == Tuple(chunks(SortByInterface(slots), Len(slots) \div threads))
        cpu == Tuple([k \in DOMAIN blocks |-> AssignedCpu(b, host, node, k - 1)])
    IN IF \/ Len(slots) % threads # 0
          \/ \E k \in DOMAIN blocks : cpu[k] = Err
                \/ \E s \in Range(blocks[k]) : s.ifindex # blocks[k][1].ifindex
       THEN Err
       ELSE Ok(Tuple([k \in DOMAIN blocks |->
                   [cpu |-> CHOOSE c \in cpu[k] : TRUE, numa |-> node,
                    ifindex |-> blocks[k][1].ifindex,
                    queues |-> Tuple([n \in DOMAIN blocks[k] |-> blocks[k][n].queue])]]))

\* The part of build after the programs are attached and the filter is filled
Plans(b, host, claimed) ==
    LET threads == IF b.threads = {} THEN Len(claimed) ELSE CHOOSE n \in b.threads : TRUE
        node == Tuple([n \in DOMAIN claimed |-> queue_numa_node(host, claimed[n])])
        nodes == SetToSortSeq(UNION Range(node), <)
        Slots(k) == LET at == SetToSortSeq({n \in DOMAIN claimed : node[n] = {k}}, <)
                    IN Tuple([m \in DOMAIN at |-> claimed[at[m]]])
        parts == Tuple([m \in DOMAIN nodes |->
                     NodePlans(b, host, nodes[m], Slots(nodes[m]), threads \div Len(nodes))])
    IN IF \/ \E n \in DOMAIN node : node[n] = {}
          \/ threads % Len(nodes) # 0
          \/ \E m \in DOMAIN nodes : parts[m] = Err
       THEN Err
       ELSE Ok(FlattenSeq([m \in DOMAIN nodes |-> CHOOSE p \in parts[m] : TRUE]))

\* The checks of build before it attaches anything
Buildable(b) ==
    /\ ValidFilter(b.filter)
    /\ claimed_slots_checked(b) # Err
    /\ claimed_slots_checked(b) # Ok(<<>>)
    /\ b.threads # {0}

\* The plans drive exactly the claimed queues, each worker on one interface,
\* one NUMA node and a CPU of that node.
Partitions(plans, host, claimed) ==
    LET driven == FlattenSeq([k \in DOMAIN plans |->
                      [n \in DOMAIN plans[k].queues |->
                          <<plans[k].ifindex, plans[k].queues[n]>>]])
        slots == [n \in DOMAIN claimed |-> <<claimed[n].ifindex, claimed[n].queue>>]
    IN /\ Len(driven) = Len(slots)
       /\ \A q \in Range(driven) \cup Range(slots) :
             Cardinality({n \in DOMAIN driven : driven[n] = q})
                 = Cardinality({n \in DOMAIN slots : slots[n] = q})
       /\ \A k \in DOMAIN plans :
             /\ plans[k].cpu \in Range(host.cores[plans[k].numa])
             /\ \A q \in Range(plans[k].queues) :
                   queue_numa_node(host, [ifindex |-> plans[k].ifindex, queue |-> q])
                       = {plans[k].numa}
=============================================================================
