----------------------------- MODULE XdpFactory -----------------------------
(***************************************************************************)
(* The factory on a host: what XdpFactoryBuilder::build claims and plans   *)
(* (module QueuePlan) is what its threads then open (module XdpControl).   *)
(***************************************************************************)
EXTENDS XdpControl, QueuePlan

CONSTANT
    Host    \* NUMA layout: cores, irq, device_node

\* The outcome of build's pure steps for the builder `b`: the checks before it
\* attaches a program, the claim, and the partition into plans
Built(b) ==
    LET claimed == IF Buildable(b) THEN claimed_slots_checked(b) ELSE Err
    IN [loner |-> b.loner, manual |-> b.manual, filter |-> b.filter,
        claimed |-> claimed,
        plans |-> UNION {Plans(b, Host, slots) : slots \in claimed}]

\* The plans of a built factory drive exactly the claimed queues, each worker
\* on one interface, one NUMA node and a CPU of that node (build: chunks of
\* the queues sorted by interface within each node).
PlansPartition == plans # <<>> => Partitions(plans, Host, Claimed)
=============================================================================
