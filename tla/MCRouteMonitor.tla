--------------------------- MODULE MCRouteMonitor ---------------------------
(***************************************************************************)
(* A small instance of RouteMonitor: five-bit addresses with a direct root *)
(* of one bit and two strides of two, two publishers, and a queue on an    *)
(* interface that is enslaved to a bond.                                   *)
(***************************************************************************)
EXTENDS RouteMonitor

CONSTANTS p1, p2, q1

Bond == 1
Slave == 2
V6 == 2 ^ BITS      \* some IPv6 address

MCPublishers == {p1, p2}
MCQueues == {q1}
MCIfIndexOf == [q \in MCQueues |-> Slave]
MCDestination == 21

Route(destination, prefix_len, ifindex, gateway, priority) ==
    [destination |-> destination, prefix_len |-> prefix_len, ifindex |-> ifindex,
     gateway |-> gateway, priority |-> priority, mtu |-> 9]

\* Nested prefixes that cross the direct root and both strides, an equal
\* prefix with another priority, and two routes of one gateway.
MCRoutes ==
    { Route(0, 0, Bond, {3}, 1), Route(20, 3, Bond, {3}, 1), Route(20, 3, Slave, None, 0),
      Route(21, 5, Slave, None, 1), Route(20, 3, Bond, {3}, 0), Route(22, 4, Slave, {2}, 1) }

MCNeighbors ==
    { [ifindex |-> Bond, ip |-> 3, mac |-> 10], [ifindex |-> Slave, ip |-> 3, mac |-> 11],
      [ifindex |-> Slave, ip |-> 21, mac |-> 12] }

MCInterfaces ==
    { [ifindex |-> Slave, master |-> {Bond}, mac |-> 20, mtu |-> 8, queue |-> 0],
      [ifindex |-> Bond, master |-> None, mac |-> 20, mtu |-> 8, queue |-> 0] }

\* Two dumps that resolve the destination to different headers, with entries
\* the loader skips.
Dump(mac) ==
    [links |-> << [ifindex |-> Slave, master |-> {Bond}, mac |-> {20}, mtu |-> None],
                  [ifindex |-> 3, master |-> None, mac |-> None, mtu |-> {5}] >>,
     routes |-> << [oif |-> {Bond}, destination |-> None, dst_len |-> 0,
                    gateway |-> {3}, priority |-> None],
                   [oif |-> None, destination |-> {20}, dst_len |-> 3,
                    gateway |-> None, priority |-> {0}],
                   [oif |-> {Slave}, destination |-> {V6}, dst_len |-> 9,
                    gateway |-> None, priority |-> {0}] >>,
     neighbors |-> << [ifindex |-> Bond, destination |-> {3}, lladdr |-> {mac}],
                      [ifindex |-> Slave, destination |-> {21}, lladdr |-> None] >>]

MCDumps == {Dump(10), Dump(13)}
=============================================================================
