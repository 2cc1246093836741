---------------------------- MODULE MCXdpControl ----------------------------
(***************************************************************************)
(* A bond of two interfaces: 1 with two queues on node 0 and 2 with one    *)
(* queue on node 1.  The loner opens queue 2 of interface 1 on port 81.    *)
(***************************************************************************)
EXTENDS XdpFactory, TLC

Net == [n \in 1..4 |->
    CASE n = 1 -> [slaves |-> <<>>, up |-> TRUE, queues |-> 2]
      [] n = 2 -> [slaves |-> <<>>, up |-> TRUE, queues |-> 1]
      [] n = 3 -> [slaves |-> <<>>, up |-> FALSE, queues |-> 1]
      [] n = 4 -> [slaves |-> <<1, 3, 2>>, up |-> TRUE, queues |-> 0,
                   active_backup |-> FALSE, active |-> 1]]

Bond == CHOOSE s \in xdp_queue_slots_for_interface(Net, 4) : TRUE
Nic == CHOOSE s \in xdp_queue_slots_for_interface(Net, 1) : TRUE
Backup == CHOOSE s \in xdp_queue_slots_for_interface(
                        [Net EXCEPT ![4].active_backup = TRUE], 4) : TRUE

MCHost == [cores |-> (0 :> <<10, 11>> @@ 1 :> <<20>>),
           irq |-> (<<1, 1>> :> 11),
           device_node |-> (1 :> {0} @@ 2 :> {1})]

Builder(slots, claim, threads, filter, cores, loner) ==
    [loner |-> loner, manual |-> FALSE, slots |-> slots, claim |-> claim,
     threads |-> threads, filter |-> filter, core_assignment |-> cores]

All == [kind |-> "All"]
First(n) == [kind |-> "First", n |-> n]
Explicit(queues) == [kind |-> "Queues", queues |-> queues]
AllIp == [kind |-> "AllIp"]
UdpPorts(ports) == [kind |-> "UdpPorts", ports |-> ports]
UdpPortRange(a, b) == [kind |-> "UdpPortRange", start |-> a, end |-> b]

MCBuilders ==
    {Built(b) : b \in { Builder(Nic, All, {}, AllIp, {}, FALSE),
      Builder(Backup, All, {1}, AllIp, {}, TRUE),
      Builder(Nic, First(1), {1}, UdpPorts(<<81, 80>>), {}, TRUE),
      Builder(Bond, Explicit(<<2, 0>>), {2}, AllIp, {[n \in 0..1 |-> 20]}, TRUE),
      Builder(Bond, Explicit(<<2, 0>>), {1}, UdpPorts(<<80>>), {}, TRUE),
      Builder(Bond, All, {2}, AllIp, {}, FALSE),
      Builder(Nic, Explicit(<<0, 0>>), {1}, AllIp, {}, TRUE),
      Builder(Nic, First(1), {}, UdpPortRange(80, 81), {}, TRUE),
      [Builder(Nic, First(1), {}, UdpPortRange(80, 81), {}, FALSE) EXCEPT !.manual = TRUE],
      Builder(Nic, First(1), {}, UdpPortRange(0, 0), {}, TRUE) }}

MCLone == [ifindex |-> 1, queue |-> 2, bind_udp_port |-> 81]

Datagram80 ==
    [l2 |-> <<"ipv4">>, version |-> 4, ihl |-> 20, total_len |-> 30, fragment |-> FALSE,
     protocol |-> "udp", udp_len |-> 10, port |-> 80, destination |-> 1, len |-> 44]

MCFrames ==
    { Datagram80,
      [Datagram80 EXCEPT !.port = 81, !.l2 = <<"vlan", "ipv4">>, !.ihl = 24,
                         !.total_len = 32, !.udp_len = 8, !.len = 50],
      [Datagram80 EXCEPT !.fragment = TRUE],
      [Datagram80 EXCEPT !.l2 = <<"qinq", "vlan", "ipv4">>, !.len = 52],
      [Datagram80 EXCEPT !.protocol = "tcp"],
      [Datagram80 EXCEPT !.l2 = <<"arp">>],
      [Datagram80 EXCEPT !.len = 41],
      [Datagram80 EXCEPT !.port = 82] }
=============================================================================
