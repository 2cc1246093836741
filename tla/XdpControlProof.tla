-------------------------- MODULE XdpControlProof ---------------------------
(***************************************************************************)
(* Proofs about the control plane.  The filter: the eBPF program and the   *)
(* socket parse the same frame with code of their own, and for frames of   *)
(* every length and every value of the header fields the socket takes no   *)
(* datagram that the program would not have redirected and reads no byte   *)
(* behind the end of the frame.  The registry: for any number of workers,  *)
(* interfaces and queues and any factory, its entries, the attached        *)
(* programs and the handles agree.                                         *)
(***************************************************************************)
EXTENDS XdpControl, TLAPS

\* The lengths a frame's header fields can hold.
Lengths(f) == {f.len, f.ihl, f.total_len, f.udp_len} \subseteq Nat

\* What the socket parses is a datagram the program sees with the same port:
\* the port filter is asked about every datagram a socket can receive.
THEOREM ParsedIsFiltered ==
    ASSUME NEW f, Lengths(f), NEW p \in parse_ethernet_ipv4_udp(f)
    PROVE  packet_udp_destination_port(f) = {p.port}
<1> DEFINE vlan == f.l2[1] = "vlan"
           l2_len == IF vlan THEN 18 ELSE 14
<1>1. /\ l2_len <= f.len
      /\ (IF vlan THEN f.l2[2] ELSE f.l2[1]) = "ipv4"
      /\ \E q \in parse_ipv4_udp_datagram(f, f.len - l2_len) :
            p = [q EXCEPT !.offset = l2_len + q.offset]
  BY DEF parse_ethernet_ipv4_udp, VLAN_HEADER_LEN, ETHERNET_HEADER_LEN
<1>2. packet_ethertype(f) = [ethertype |-> "ipv4", l2_len |-> l2_len]
  BY <1>1 DEF packet_ethertype
<1>3. l2_len \in Nat /\ {f.len, f.ihl, f.total_len, f.udp_len} \subseteq Nat
  BY DEF Lengths
<1> HIDE DEF l2_len
<1>4. PICK q \in parse_ipv4_udp_datagram(f, f.len - l2_len) :
        p = [q EXCEPT !.offset = l2_len + q.offset]
  BY <1>1
<1>5. /\ f.len - l2_len >= 20 /\ f.version = 4 /\ f.ihl >= 20
      /\ f.total_len <= f.len - l2_len /\ ~f.fragment /\ f.protocol = "udp"
      /\ f.ihl + 8 <= f.total_len
      /\ q = [offset |-> f.ihl + 8, len |-> f.udp_len - 8, port |-> f.port]
  BY <1>4 DEF parse_ipv4_udp_datagram, IPV4_HEADER_LEN, UDP_LEN
<1>6. p.port = f.port
  BY <1>4, <1>5
<1>7. l2_len + 20 <= f.len /\ l2_len + f.ihl + 8 <= f.len
  BY <1>3, <1>5
<1>8. ipv4_udp_destination_port(f, l2_len) = {f.port}
  BY <1>5, <1>7 DEF ipv4_udp_destination_port, IPV4_HEADER_LEN, UDP_LEN
<1> QED BY <1>1, <1>2, <1>6, <1>8 DEF packet_udp_destination_port

\* The payload a socket hands up lies behind the headers and inside the bytes
\* that were received, whatever the length fields claim.
THEOREM PayloadInside ==
    ASSUME NEW f, Lengths(f), NEW p \in parse_ethernet_ipv4_udp(f)
    PROVE  /\ p.offset \in Nat /\ p.len \in Nat
           /\ ETHERNET_HEADER_LEN + IPV4_HEADER_LEN + UDP_LEN <= p.offset
           /\ p.offset + p.len <= f.len
<1> DEFINE l2_len == IF f.l2[1] = "vlan" THEN 18 ELSE 14
<1>1. \E q \in parse_ipv4_udp_datagram(f, f.len - l2_len) :
        p = [q EXCEPT !.offset = l2_len + q.offset]
  BY DEF parse_ethernet_ipv4_udp, VLAN_HEADER_LEN, ETHERNET_HEADER_LEN
<1>2. l2_len \in Nat /\ l2_len >= 14 /\ {f.len, f.ihl, f.total_len, f.udp_len} \subseteq Nat
  BY DEF Lengths
<1> HIDE DEF l2_len
<1>3. PICK q \in parse_ipv4_udp_datagram(f, f.len - l2_len) :
        p = [q EXCEPT !.offset = l2_len + q.offset]
  BY <1>1
<1>4. /\ f.ihl >= 20 /\ f.total_len <= f.len - l2_len
      /\ 8 <= f.udp_len /\ f.ihl + f.udp_len <= f.total_len
      /\ q = [offset |-> f.ihl + 8, len |-> f.udp_len - 8, port |-> f.port]
  BY <1>3 DEF parse_ipv4_udp_datagram, IPV4_HEADER_LEN, UDP_LEN
<1>5. p.offset = l2_len + (f.ihl + 8) /\ p.len = f.udp_len - 8
  BY <1>3, <1>4
<1> QED BY <1>2, <1>4, <1>5 DEF ETHERNET_HEADER_LEN, IPV4_HEADER_LEN, UDP_LEN

-----------------------------------------------------------------------------
(* The invariant.                                                          *)

RegistryPcs == {"get_or_load", "release_drop"}
ReleasePcs == {"release", "release_drop"}
DropPcs == {"drop_lock", "unbind", "unbind_count", "unregister"}

\* Where a thread has a handle on the program it works on ...
WorkPcs == {"planned", "clone", "loaded", "lock", "register", "bind", "bind_count", "opened",
            "members", "rollback", "bind_failed"}
\* ... where it needs none, and where it updates the program's maps
FreePcs == {"idle", "load", "get_or_load", "fill", "plan", "finish", "closed"}
GuardPcs == {"register", "bind", "bind_count", "rollback", "unbind", "unbind_count", "unregister"}

\* Where the factory fills the programs, where it is before it has made its
\* plans, and where it is at all
FillPcs == {"fill", "plan", "lock", "bind", "bind_count", "opened", "bind_failed"}
BuildPcs == {"load", "get_or_load", "loaded"} \cup FillPcs
FactoryPcs == {"idle", "finish", "closed"} \cup BuildPcs \cup ReleasePcs

\* The types the argument needs.
TypeInv ==
    /\ builder \in Builders
    /\ plans # <<>> => builder.claimed # {} /\ plans \in builder.plans
    /\ DOMAIN program = Interfaces /\ DOMAIN pc = Threads /\ DOMAIN goto = Threads
    /\ DOMAIN at = Threads /\ DOMAIN handles = Threads /\ DOMAIN member = Threads
    /\ \A t \in Threads :
          at[t] \in Interfaces /\ member[t] \in Nat /\ handles[t] \in [Interfaces -> Nat]

\* Members of the socket t opens
Size(t) == Len(SocketQueues(t))

Held(t) == handles[t][at[t]]

\* Handles of the members after member m of a socket
Behind(m, size, t) == IF t = Loner THEN 0 ELSE 2 * (size - m)

\* A thread at p, bound for g, goes to `where` after a release.
Releasing(p, g, where) == p \in ReleasePcs /\ g = where

\* A thread at p is about to drop a member of its socket.
Dropping(p, g) ==
    \/ p \in {"live", "close"} \cup DropPcs
    \/ Releasing(p, g, "drop_lock") \/ Releasing(p, g, "close")

\* The handles a thread has are enough for what it does next: each member of a
\* group has one of its own and one in its config.
Enough(p, g, held, m, size, t) ==
    /\ p \in ReleasePcs => g \in {"drop_lock", "close", "finish"}
    /\ p \in WorkPcs \cup {"live"} \/ Releasing(p, g, "finish") => held >= 1
    /\ Dropping(p, g) => 1 <= m /\ m <= size /\ size \in Nat
    /\ (p = "live" /\ t # Loner) \/ Releasing(p, g, "drop_lock") => held >= Behind(m, size, t) + 2
    /\ p \in DropPcs \/ Releasing(p, g, "close") => held >= Behind(m, size, t) + 1
    /\ p = "close" => held >= Behind(m, size, t)

Supplied(t) == Enough(pc[t], goto[t], Held(t), member[t], Size(t), t)

Loaded == \A n \in DOMAIN Claimed : handles[Factory][Claimed[n].ifindex] > 0

FactoryControl ==
    /\ pc[Factory] \in FactoryPcs
    /\ pc[Factory] \in ReleasePcs => goto[Factory] = "finish"
    /\ pc[Factory] \in BuildPcs => builder.claimed # {}
    /\ pc[Factory] \in BuildPcs \cup {"idle"} => \A t \in Workers : pc[t] = "idle"
    /\ pc[Factory] \in FillPcs => Loaded

\* Where the threads can be, and with which handles.
ControlInv ==
    /\ FactoryControl
    /\ \A t \in Workers : pc[t] # "idle" => t \in DOMAIN plans
    /\ \A t \in Threads : Supplied(t)

Single(set) == set = {} \/ \E x \in set : set = {x}

\* t is in release's drop of a handle on i, and has this handle still.
Leaving(t, i) == at[t] = i /\ pc[t] = "release_drop"
Uses(t, i) == handles[t][i] > IF Leaving(t, i) THEN 1 ELSE 0

\* An interface is in the registry while a handle is in use, and its program is
\* attached while there is a handle at all.  The registry mutex is held by the
\* thread in its scope.
RegistryInv ==
    /\ \A t \in Threads : pc[t] \in RegistryPcs => registry_lock = {t}
    /\ \A i \in Interfaces :
        /\ Single(program[i])
        /\ i \in registry <=> \E t \in Threads : Uses(t, i)
        /\ program[i] # {} <=> \E t \in Threads : handles[t][i] > 0

-----------------------------------------------------------------------------
\* Threads are told apart by what they are.
LEMMA ThreadKinds ==
    /\ Factory \in Threads /\ Factory \notin Workers /\ Factory # Loner
    /\ Loner \in Threads /\ Loner \notin Workers
    /\ \A t \in Threads : t = Factory \/ t = Loner \/ t \in Workers
    /\ \A t \in Workers : t \in Threads
BY ControlAssumption DEF Threads

\* What is claimed is a sequence of slots, and programs are loaded on their
\* interfaces.
LEMMA ClaimedSlots ==
    ASSUME TypeInv, builder.claimed # {}
    PROVE  /\ Claimed \in builder.claimed
           /\ \A n \in DOMAIN Claimed : Claimed[n].ifindex \in Interfaces
           /\ Vacant = {} => Loaded
<1>1. Claimed \in builder.claimed
  BY DEF Claimed, The
<1>2. \A n \in DOMAIN Claimed : Claimed[n] \in SlotType
  <2> Claimed \in Seq(SlotType)
    BY <1>1, BuilderAssumption DEF TypeInv
  <2> QED OBVIOUS
<1>3. \A n \in DOMAIN Claimed : Claimed[n].ifindex \in Interfaces
  BY <1>2 DEF SlotType
<1>4. \A n \in DOMAIN Claimed : handles[Factory][Claimed[n].ifindex] \in Nat
  BY <1>3, ThreadKinds DEF TypeInv
<1> QED BY <1>1, <1>3, <1>4 DEF Vacant, Loaded

\* An opener has a socket of at least one member to open.
LEMMA SocketSize ==
    ASSUME TypeInv, ControlInv, NEW t \in Threads, t # Factory, pc[t] # "idle"
    PROVE  Size(t) \in Nat /\ Size(t) >= 1 /\ (t = Loner => Size(t) = 1)
<1> CASE t = Loner
  BY DEF SocketQueues, Size
<1> CASE t # Loner
  <2> t \in DOMAIN plans
    BY ThreadKinds DEF ControlInv
  <2> plans \in builder.plans /\ builder \in Builders /\ builder.claimed # {}
    BY DEF TypeInv
  <2> plans[t].queues \in Seq(Queues) \ {<<>>}
    BY BuilderAssumption
  <2> QED BY DEF SocketQueues, Size
<1> QED OBVIOUS

HandlePcs == {"live"} \cup WorkPcs \cup DropPcs \cup ReleasePcs

\* A thread that works on a program, drops a member or releases a handle has a
\* handle on the interface.
LEMMA HandleHeld ==
    ASSUME TypeInv, ControlInv, NEW t \in Threads, pc[t] \in HandlePcs
    PROVE  Held(t) \in Nat /\ Held(t) >= 1
<1>1. Held(t) \in Nat /\ member[t] \in Nat /\ Supplied(t)
  BY DEF TypeInv, Held, ControlInv
<1>2. ASSUME NEW p \in HandlePcs, NEW g, NEW held \in Nat, NEW m \in Nat, NEW size,
             Enough(p, g, held, m, size, t)
      PROVE  held >= 1
  <2>1. Dropping(p, g) => Behind(m, size, t) \in Nat
    BY <1>2 DEF Enough, Behind
  <2> QED BY <1>2, <2>1 DEF Enough, Dropping, Releasing, HandlePcs, DropPcs, ReleasePcs
<1>3. Enough(pc[t], goto[t], Held(t), member[t], Size(t), t)
  BY <1>1, Zenon DEF Supplied
<1> QED BY <1>1, <1>2, <1>3

-----------------------------------------------------------------------------
(* What a step of one thread leaves alone.                                 *)

\* What a step of a thread leaves to the others
Same(t) ==
    /\ pc'[t] = pc[t] /\ goto'[t] = goto[t] /\ at'[t] = at[t] /\ member'[t] = member[t]
    /\ handles'[t] = handles[t]

\* A step of u alone.
Frame(u) ==
    /\ UNCHANGED build_vars
    /\ DOMAIN pc' = Threads /\ DOMAIN goto' = Threads /\ DOMAIN at' = Threads
    /\ DOMAIN handles' = Threads /\ DOMAIN member' = Threads
    /\ \A t \in Threads \ {u} : Same(t)
    /\ u \in Workers => pc[u] # "idle"

\* A step that neither attaches nor detaches a program
Keeps ==
    /\ DOMAIN program' = Interfaces
    /\ \A i \in Interfaces :
          /\ Single(program[i]) => Single(program'[i])
          /\ program'[i] = {} <=> program[i] = {}

\* The updates of a program's maps, and the kernel's when a socket closes, do
\* neither.
LEMMA KeepsPrograms ==
    ASSUME TypeInv
    PROVE  /\ program' = program => Keeps
           /\ \A i \in Interfaces : \A p : program[i] # {} /\ SetProgram(i, p) => Keeps
           /\ \A t, closed : Closed(t, closed) => Keeps
<1>0. DOMAIN program = Interfaces
  BY DEF TypeInv
<1>1. program' = program => Keeps
  BY <1>0 DEF Keeps
<1>2. ASSUME NEW i \in Interfaces, NEW p, program[i] # {}, SetProgram(i, p) PROVE Keeps
  BY <1>0, <1>2 DEF SetProgram, Keeps, Single
<1>3. ASSUME NEW t, NEW closed, Closed(t, closed) PROVE Keeps
  <2> DEFINE F(j, p) == [p EXCEPT !.xskmap = [q \in Queues |->
                 IF <<j, q>> \in closed THEN p.xskmap[q] \ {t} ELSE p.xskmap[q]]]
  <2>1. program' = [j \in Interfaces |-> {F(j, p) : p \in program[j]}]
    BY <1>3 DEF Closed
  <2> HIDE DEF F
  <2>2. ASSUME NEW j \in Interfaces
        PROVE  /\ Single(program[j]) => Single(program'[j])
               /\ program'[j] = {} <=> program[j] = {}
    <3>1. program'[j] = {F(j, p) : p \in program[j]}
      BY <2>1
    <3>2. ASSUME NEW x, program[j] = {x} PROVE program'[j] = {F(j, x)}
      BY <3>1, <3>2
    <3> QED BY <3>1, <3>2 DEF Single
  <2> QED BY <2>1, <2>2 DEF Keeps
<1> QED BY <1>1, <1>2, <1>3

\* A step that leaves the registry alone
Quiet(u) ==
    /\ Keeps /\ registry' = registry /\ registry_lock' = registry_lock
    /\ \A i \in Interfaces : handles'[u][i] > 0 <=> handles[u][i] > 0
    /\ pc[u] \notin RegistryPcs /\ pc'[u] \notin RegistryPcs

ThreadStep(u) == Step(u) \/ BeginOpen(u) \/ BeginDrop(u) \/ DropPlan(u)

\* A step of u alone
Acts(u) == ThreadStep(u) \/ (u = Factory /\ (NextLoad \/ Fill \/ FillFailed \/ Build))

OnRegistry(u) == LockRegistry(u) \/ get_or_load(u) \/ ReleaseCheck(u) \/ ReleaseDrop(u)

\* A thread's step leaves the other threads alone, and only four steps concern
\* the registry.
LEMMA ActsAlone ==
    ASSUME TypeInv, ControlInv, RegistryInv, NEW u \in Threads, Acts(u)
    PROVE  Frame(u) /\ (Quiet(u) \/ OnRegistry(u))
<1> /\ DOMAIN pc = Threads /\ DOMAIN goto = Threads /\ DOMAIN at = Threads
    /\ DOMAIN handles = Threads /\ DOMAIN member = Threads
    /\ at[u] \in Interfaces /\ handles[u] \in [Interfaces -> Nat]
    /\ Factory \notin Workers /\ Loner \notin Workers
  BY ThreadKinds DEF TypeInv
<1>b. pc[u] \in GuardPcs => program[at[u]] # {}
  <2> SUFFICES ASSUME pc[u] \in GuardPcs PROVE program[at[u]] # {}
    OBVIOUS
  <2> Held(u) >= 1 /\ Held(u) \in Nat
    BY HandleHeld DEF GuardPcs, HandlePcs, WorkPcs, DropPcs
  <2> QED BY DEF RegistryInv, Held
<1>c. pc[u] \in {"clone", "members"} =>
        handles[u][at[u]] >= 1 /\ (u # Loner => Len(SocketQueues(u)) \in Nat /\ Len(SocketQueues(u)) >= 1)
  <2> u = Factory => pc[u] \notin {"clone", "members"}
    BY DEF ControlInv, FactoryControl, FactoryPcs, BuildPcs, FillPcs, ReleasePcs
  <2> QED BY HandleHeld, SocketSize DEF HandlePcs, WorkPcs, Held, Size
<1>k. /\ program' = program => Keeps
      /\ \A p : pc[u] \in GuardPcs /\ SetProgram(at[u], p) => Keeps
      /\ \A closed : Closed(u, closed) => Keeps
  BY <1>b, KeepsPrograms
<1> DEFINE Goal == Frame(u) /\ Quiet(u)
<1> USE SMTT(30) DEF Go, locks, Frame, Same, Quiet, RegistryPcs
<1>1. LockProgram(u) => Goal BY <1>k DEF LockProgram
<1>2. Register(u) => Goal BY <1>k DEF Register, GuardPcs
<1>3. Bind(u) => Goal BY <1>k DEF Bind, BindDone, BindFailed, GuardPcs
<1>4. BindCount(u) => Goal BY <1>k DEF BindCount, BindDone, BindFailed, GuardPcs
<1>5. Rollback(u) => Goal BY <1>k DEF Rollback, GuardPcs
<1>6. Unbind(u) => Goal BY <1>k DEF Unbind, GuardPcs
<1>7. UnbindCount(u) => Goal BY <1>k DEF UnbindCount, GuardPcs
<1>8. Unregister(u) => Goal BY <1>k DEF Unregister, GuardPcs
<1>9. Clone(u) => Goal BY <1>c, <1>k DEF Clone
<1>10. OpenRaw(u) \/ BeginOpen(u) \/ DropPlan(u) => Goal
  BY <1>k DEF OpenRaw, BeginOpen, DropPlan
<1>11. Opened(u) => Goal BY <1>k DEF Opened
<1>12. Members(u) => Goal BY <1>c, <1>k DEF Members
<1>13. Close(u) => Goal BY <1>k DEF Close, DropSocket
<1>14. Finish(u) => Goal
  <2> Finish(u) => at' = at \/ \E i : at' = [at EXCEPT ![u] = i]
    BY Zenon DEF Finish
  <2> QED BY <1>k DEF Finish
<1>15. BeginDrop(u) => Goal BY <1>k DEF BeginDrop, DropSocket
<1>16. u = Factory /\ (NextLoad \/ Build) => Goal BY <1>k DEF NextLoad, Build, LoadVacant
<1>17. u = Factory /\ (Fill \/ FillFailed) => Goal BY <1>k DEF Fill, FillFailed
<1>18. LockRegistry(u) \/ ReleaseCheck(u) => Frame(u) BY DEF LockRegistry, ReleaseCheck
<1>19. get_or_load(u) => Frame(u) BY DEF get_or_load
<1>20. ReleaseDrop(u) => Frame(u) BY DEF ReleaseDrop
<1> HIDE DEF Goal, Frame, Quiet
<1>q. Goal \/ (Frame(u) /\ OnRegistry(u))
  BY <1>1, <1>2, <1>3, <1>4, <1>5, <1>6, <1>7, <1>8, <1>9, <1>10, <1>11, <1>12, <1>13,
     <1>14, <1>15, <1>16, <1>17, <1>18, <1>19, <1>20,
     Zenon DEF Acts, ThreadStep, Step, OnRegistry
<1> QED BY <1>q, Zenon DEF Goal

-----------------------------------------------------------------------------
(* The handles of a thread that opens.                                     *)

\* What a thread's own variables keep
Typed(t) == at[t] \in Interfaces /\ member[t] \in Nat /\ handles[t] \in [Interfaces -> Nat]

\* u goes where it needs no handle, or where the one it has is enough.
Proceeds(u) ==
    /\ at'[u] \in Interfaces /\ member'[u] \in Nat
    /\ \/ pc'[u] \in FreePcs /\ handles'[u] = handles[u]
       \/ pc'[u] \in WorkPcs /\ handles'[u] = handles[u] /\ handles[u][at'[u]] >= 1
       \/ pc'[u] = "loaded" /\ at'[u] = at[u] /\ handles'[u] = [handles[u] EXCEPT ![at[u]] = @ + 1]

\* A thread that goes on with its handles and its place in the socket keeps
\* enough of them.
LEMMA ProceedsSupplied ==
    ASSUME NEW u, Typed(u), Proceeds(u)
    PROVE  Typed(u)' /\ Supplied(u)'
<1>1. handles'[u] \in [Interfaces -> Nat] /\ (pc'[u] \in WorkPcs \ FreePcs => handles'[u][at'[u]] >= 1)
  BY DEF Typed, Proceeds, WorkPcs, FreePcs
<1>2. pc'[u] \in FreePcs \cup WorkPcs
  BY DEF Proceeds, WorkPcs
<1> QED BY <1>1, <1>2 DEF Proceeds, Typed, Supplied, Enough, Releasing, Dropping, Held, FreePcs,
               WorkPcs, DropPcs, ReleasePcs

OpenStep(u) ==
    \/ LockRegistry(u) \/ get_or_load(u) \/ (pc[u] = "lock" /\ LockProgram(u))
    \/ Register(u) \/ Bind(u) \/ BindCount(u) \/ Rollback(u) \/ Clone(u)
    \/ OpenRaw(u) \/ Opened(u) \/ BeginOpen(u) \/ DropPlan(u)
    \/ (u = Factory /\ (NextLoad \/ Fill \/ FillFailed \/ Build))

\* The steps of an open go on that way.
LEMMA OpenProceeds ==
    ASSUME TypeInv, ControlInv, NEW u \in Threads, OpenStep(u)
    PROVE  Proceeds(u)
<1> /\ DOMAIN pc = Threads /\ DOMAIN at = Threads
    /\ DOMAIN handles = Threads /\ DOMAIN member = Threads
    /\ at[u] \in Interfaces /\ member[u] \in Nat
  BY DEF TypeInv
<1>0. at[u] + 1 \in Nat
  <2> at[u] \in Nat
    BY ControlAssumption, Zenon
  <2> QED OBVIOUS
<1>a. pc[u] \in WorkPcs => handles[u][at[u]] >= 1
  BY HandleHeld DEF HandlePcs, Held
<1>b. pc[Factory] = "loaded" \/ builder.claimed # {} =>
        \A n \in DOMAIN Claimed : Claimed[n].ifindex \in Interfaces
  BY ClaimedSlots DEF ControlInv, FactoryControl, BuildPcs
<1>c. \A i \in Unfilled : i \in Interfaces /\ handles[Factory][i] >= 1
  BY ThreadKinds DEF Unfilled, TypeInv
<1> USE SMTT(30) DEF Go, locks, Proceeds, FreePcs, WorkPcs
<1>1. LockRegistry(u) => Proceeds(u) BY DEF LockRegistry
<1>2. get_or_load(u) => Proceeds(u) BY DEF get_or_load
<1>3. pc[u] = "lock" /\ LockProgram(u) => Proceeds(u) BY <1>a DEF LockProgram
<1>4. Register(u) => Proceeds(u) BY <1>a DEF Register
<1>5. Bind(u) \/ BindCount(u) => Proceeds(u) BY <1>a DEF Bind, BindCount, BindDone, BindFailed
<1>6. Rollback(u) => Proceeds(u) BY <1>a DEF Rollback
<1>7. Clone(u) => Proceeds(u) BY DEF Clone
<1>8. OpenRaw(u) \/ BeginOpen(u) \/ DropPlan(u) => Proceeds(u)
  BY <1>a DEF OpenRaw, BeginOpen, DropPlan
<1>9. Opened(u) => Proceeds(u) BY <1>0, <1>a DEF Opened
<1>10. u = Factory /\ (NextLoad \/ Build) => Proceeds(u)
  BY <1>b DEF NextLoad, Build, LoadVacant, Foremost, Vacant
<1>11. u = Factory /\ (Fill \/ FillFailed) => Proceeds(u) BY <1>c DEF Fill, FillFailed, Foremost
<1> HIDE DEF Proceeds
<1> QED BY <1>1, <1>2, <1>3, <1>4, <1>5, <1>6, <1>7, <1>8, <1>9, <1>10, <1>11, Zenon DEF OpenStep

-----------------------------------------------------------------------------
(* The handles of a thread that drops, and of the factory.                 *)

DropStep(u) ==
    \/ (pc[u] = "drop_lock" /\ LockProgram(u)) \/ Unbind(u) \/ UnbindCount(u) \/ Unregister(u)
    \/ ReleaseCheck(u) \/ ReleaseDrop(u) \/ Members(u) \/ BeginDrop(u) \/ Close(u) \/ Finish(u)

\* The steps of a drop, on the numbers alone: going on within the drop of a
\* member, ...
LEMMA EnoughWithin ==
    ASSUME NEW p \in DropPcs, NEW q \in DropPcs, NEW g, NEW h, NEW held, NEW m, NEW size,
           NEW t, Enough(p, g, held, m, size, t)
    PROVE  Enough(q, h, held, m, size, t)
BY DEF Enough, Dropping, Releasing, WorkPcs, DropPcs, ReleasePcs

\* ... releasing the handle of a config or the one of a socket, ...
LEMMA EnoughReleases ==
    ASSUME NEW g, NEW held, NEW m, NEW size, NEW t
    PROVE  /\ Enough("live", g, held, m, size, t) /\ t # Loner =>
                 Enough("release", "drop_lock", held, m, size, t)
           /\ Enough("unregister", g, held, m, size, t) =>
                 Enough("release", "close", held, m, size, t)
BY DEF Enough, Dropping, Releasing, WorkPcs, DropPcs, ReleasePcs

\* ... which takes two steps, ...
LEMMA EnoughReleased ==
    ASSUME NEW g, NEW held \in Nat, NEW m \in Nat, NEW size, NEW t
    PROVE  /\ Enough("release", g, held, m, size, t) =>
                 Enough("release_drop", g, held, m, size, t)
           /\ Enough("release_drop", g, held, m, size, t) => Enough(g, g, held - 1, m, size, t)
BY DEF Enough, Dropping, Releasing, Behind, WorkPcs, DropPcs, ReleasePcs

\* ... and going on to the member of a single socket, or to the next of a group.
LEMMA EnoughBegins ==
    ASSUME NEW g, NEW held \in Nat, NEW m \in Nat, NEW size, NEW h, NEW t
    PROVE  /\ Enough("live", g, held, m, size, t) /\ t = Loner =>
                 Enough("drop_lock", h, held, m, size, t)
           /\ Enough("close", g, held, m, size, t) /\ t # Loner /\ m < size =>
                 Enough("release", "drop_lock", held, m + 1, size, t)
BY DEF Enough, Dropping, Releasing, Behind, WorkPcs, DropPcs, ReleasePcs

\* Where no member is dropped at most one handle is needed ...
LEMMA EnoughElsewhere ==
    ASSUME NEW g, NEW held \in Nat, NEW m, NEW size, NEW t
    PROVE  /\ \A p \in {"idle", "finish", "closed"} : Enough(p, g, held, m, size, t)
           /\ held >= 1 => /\ Enough("release", "finish", held, m, size, t)
                           /\ Enough("planned", g, held, m, size, t)
BY DEF Enough, Dropping, Releasing, WorkPcs, DropPcs, ReleasePcs

\* ... and a socket starts with two for each of its members.
LEMMA EnoughLive ==
    ASSUME NEW g, NEW held \in Nat, NEW size \in Nat, NEW t,
           size >= 1, t = Loner => held >= 1, t # Loner => held = 2 * size
    PROVE  Enough("live", g, held, 1, size, t)
BY DEF Enough, Dropping, Releasing, Behind, WorkPcs, DropPcs, ReleasePcs

\* A step of a drop leaves its thread with enough handles.
LEMMA DropSupplied ==
    ASSUME TypeInv, ControlInv, NEW u \in Threads, DropStep(u), plans' = plans
    PROVE  Typed(u)' /\ Supplied(u)'
<1>d. /\ DOMAIN pc = Threads /\ DOMAIN at = Threads /\ DOMAIN goto = Threads
      /\ DOMAIN handles = Threads /\ DOMAIN member = Threads
      /\ at[u] \in Interfaces /\ member[u] \in Nat /\ handles[u] \in [Interfaces -> Nat]
  BY DEF TypeInv
<1>0. Size(u)' = Size(u) /\ Supplied(u)
  BY DEF Size, SocketQueues, ControlInv
<1>1. u = Factory =>
        /\ pc[u] \notin {"live", "close", "members"} \cup DropPcs
        /\ pc[u] \in ReleasePcs => goto[u] = "finish"
  BY DEF ControlInv, FactoryControl, FactoryPcs, BuildPcs, FillPcs, ReleasePcs, DropPcs
<1>2. u # Factory /\ pc[u] # "idle" => Size(u) \in Nat /\ Size(u) >= 1 /\ (u = Loner => Size(u) = 1)
  BY SocketSize
<1>3. Held(u) \in Nat /\ member[u] \in Nat
  BY <1>d DEF Held
<1>4. Enough(pc[u], goto[u], Held(u), member[u], Size(u), u)
  BY <1>0, Zenon DEF Supplied
<1> DEFINE Kept == at'[u] = at[u] /\ handles'[u] = handles[u]
           Stays == Kept /\ member'[u] = member[u]
           Fits(m) == Enough(pc'[u], goto'[u], Held(u), m, Size(u), u)
<1>5. ASSUME Kept, member'[u] \in Nat, Fits(member'[u]) PROVE Typed(u)' /\ Supplied(u)'
  <2>1. Held(u)' = Held(u)
    BY <1>5 DEF Held
  <2>2. Typed(u)'
    BY <1>5, <1>d DEF Typed
  <2> HIDE DEF Kept
  <2> QED BY <1>0, <1>5, <2>1, <2>2 DEF Supplied
<1>6. ASSUME Stays, Fits(member[u]) PROVE Typed(u)' /\ Supplied(u)'
  BY <1>3, <1>5, <1>6, Zenon
<1> DEFINE Goal == Typed(u)' /\ Supplied(u)'
\* Within the drop of a member
<1>a. ASSUME (pc[u] = "drop_lock" /\ LockProgram(u)) \/ Unbind(u) \/ UnbindCount(u) PROVE Goal
  <2> DEFINE Within == Stays /\ pc[u] \in DropPcs /\ pc'[u] \in DropPcs
  <2>1. pc[u] = "drop_lock" /\ LockProgram(u) => Within
    BY <1>d, <1>1 DEF LockProgram, DropPcs, Go
  <2>2. Unbind(u) => Within
    BY <1>d DEF Unbind, DropPcs, Go
  <2>3. UnbindCount(u) => Within
    BY <1>d DEF UnbindCount, DropPcs, Go
  <2> HIDE DEF Stays
  <2>4. Within
    BY <1>a, <2>1, <2>2, <2>3, Zenon
  <2>5. Fits(member[u])
    BY <1>4, <2>4, EnoughWithin
  <2> QED BY <1>6, <2>4, <2>5, Zenon
<1>b. ASSUME ReleaseCheck(u) PROVE Goal
  <2>1. Stays /\ goto'[u] = goto[u] /\ pc[u] = "release" /\ pc'[u] = "release_drop"
    BY <1>b, <1>d DEF ReleaseCheck, Go
  <2> HIDE DEF Stays
  <2>2. Fits(member[u])
    BY <1>3, <1>4, <2>1, EnoughReleased
  <2> QED BY <1>6, <2>1, <2>2, Zenon
<1>c. ASSUME ReleaseDrop(u) PROVE Goal
  <2>1. /\ at'[u] = at[u] /\ member'[u] = member[u] /\ goto'[u] = goto[u]
        /\ pc[u] = "release_drop" /\ pc'[u] = goto[u]
        /\ handles'[u] = [handles[u] EXCEPT ![at[u]] = @ - 1]
    BY <1>c, <1>d DEF ReleaseDrop, Go
  <2>2. Held(u) >= 1
    BY <2>1, HandleHeld DEF HandlePcs, ReleasePcs
  <2>3. Held(u)' = Held(u) - 1 /\ Typed(u)'
    BY <1>3, <1>d, <2>1, <2>2 DEF Typed, Held
  <2>4. Enough(goto[u], goto[u], Held(u) - 1, member[u], Size(u), u)
    BY <1>3, <1>4, <2>1, EnoughReleased
  <2> QED BY <1>0, <2>1, <2>3, <2>4 DEF Supplied
<1>m. ASSUME Members(u) PROVE Goal
  <2>1. /\ at'[u] = at[u] /\ member'[u] = 1 /\ pc[u] = "members" /\ pc'[u] = "live"
        /\ handles'[u] = [handles[u] EXCEPT ![at[u]] = IF u = Loner THEN @ ELSE 2 * Size(u)]
    BY <1>m, <1>d DEF Members, Size, Go
  <2>2. Held(u) >= 1 /\ u # Factory
    BY <1>1, <2>1, HandleHeld DEF HandlePcs, WorkPcs
  <2>3. Size(u) \in Nat /\ Size(u) >= 1
    BY <1>2, <2>1, <2>2
  <2>4. Held(u)' = (IF u = Loner THEN Held(u) ELSE 2 * Size(u)) /\ Typed(u)'
    BY <1>d, <2>1, <2>3 DEF Held, Typed
  <2>5. Held(u)' \in Nat
    BY <1>3, <2>3, <2>4
  <2>6. Enough("live", goto'[u], Held(u)', 1, Size(u), u)
    BY <2>2, <2>3, <2>4, <2>5, EnoughLive
  <2> QED BY <1>0, <2>1, <2>4, <2>6 DEF Supplied
<1>e. ASSUME Unregister(u) PROVE Goal
  <2>1. Stays /\ pc[u] = "unregister" /\ pc'[u] = "release" /\ goto'[u] = "close"
    BY <1>e, <1>d DEF Unregister, Go
  <2> HIDE DEF Stays
  <2>2. Fits(member[u])
    BY <1>3, <1>4, <2>1, EnoughReleases
  <2> QED BY <1>6, <2>1, <2>2, Zenon
\* On to the first member, or to the next
<1>f. ASSUME BeginDrop(u) PROVE Goal
  <2>1. Stays /\ pc[u] = "live"
        /\ IF u = Loner THEN pc'[u] = "drop_lock"
           ELSE pc'[u] = "release" /\ goto'[u] = "drop_lock"
    BY <1>f, <1>d DEF BeginDrop, DropSocket, Go, locks
  <2> HIDE DEF Stays
  <2>2. CASE u = Loner
    <3>1. Fits(member[u])
      BY <1>3, <1>4, <2>1, <2>2, EnoughBegins
    <3> QED BY <1>6, <2>1, <3>1, Zenon
  <2>3. CASE u # Loner
    <3>1. Fits(member[u])
      BY <1>3, <1>4, <2>1, <2>3, EnoughReleases
    <3> QED BY <1>6, <2>1, <3>1, Zenon
  <2> QED BY <2>2, <2>3, Zenon
<1>g. ASSUME Close(u) PROVE Goal
  <2>1. Kept /\ member'[u] = member[u] + 1 /\ pc[u] = "close"
        /\ IF member[u] < Size(u)
           THEN IF u = Loner THEN pc'[u] = "drop_lock"
                ELSE pc'[u] = "release" /\ goto'[u] = "drop_lock"
           ELSE pc'[u] = "finish"
    BY <1>g, <1>d DEF Close, DropSocket, Size, Go
  <2> HIDE DEF Kept
  <2>2. member'[u] \in Nat /\ u # Factory /\ (u = Loner => Size(u) = 1)
    BY <1>1, <1>2, <1>3, <2>1
  <2>3. 1 <= member[u]
    BY <1>4, <2>1 DEF Enough, Dropping
  <2>4. CASE member[u] < Size(u)
    <3>1. u # Loner
      BY <1>3, <2>2, <2>3, <2>4
    <3>2. Fits(member[u] + 1)
      BY <1>3, <1>4, <2>1, <2>4, <3>1, EnoughBegins
    <3> QED BY <1>5, <2>1, <2>2, <3>2, Zenon
  <2>5. CASE ~(member[u] < Size(u))
    <3>1. Fits(member[u] + 1)
      BY <1>3, <2>1, <2>5, EnoughElsewhere
    <3> QED BY <1>5, <2>1, <2>2, <3>1, Zenon
  <2> QED BY <2>4, <2>5, Zenon
<1>h. ASSUME Finish(u) PROVE Goal
  <2>1. handles'[u] = handles[u] /\ member'[u] = member[u] /\ pc[u] = "finish"
    BY <1>h DEF Finish
  <2>2. \/ pc'[u] = "closed" /\ at'[u] = at[u]
        \/ /\ pc'[u] = "release" /\ goto'[u] = "finish"
           /\ \E i \in Interfaces : handles[u][i] > 0 /\ at'[u] = i
    BY <1>h, <1>d DEF Finish, Foremost, Go
  <2>3. CASE pc'[u] = "closed" /\ at'[u] = at[u]
    <3>1. Fits(member[u])
      BY <1>3, <2>3, EnoughElsewhere
    <3> QED BY <1>6, <2>1, <2>3, <3>1, Zenon
  <2>4. CASE /\ pc'[u] = "release" /\ goto'[u] = "finish"
             /\ \E i \in Interfaces : handles[u][i] > 0 /\ at'[u] = i
    <3>1. Held(u)' \in Nat /\ Held(u)' >= 1 /\ Typed(u)'
      BY <1>d, <2>1, <2>4 DEF Held, Typed
    <3>2. Enough("release", "finish", Held(u)', member'[u], Size(u)', u)
      BY <3>1, EnoughElsewhere
    <3> QED BY <2>4, <3>1, <3>2 DEF Supplied
  <2> QED BY <2>2, <2>3, <2>4, Zenon
<1> QED BY <1>a, <1>b, <1>c, <1>m, <1>e, <1>f, <1>g, <1>h, Zenon DEF DropStep

\* How the factory goes from step to step
LEMMA FactoryGoes ==
    ASSUME TypeInv, ControlInv, Acts(Factory)
    PROVE  /\ pc'[Factory] \in FactoryPcs \ {"idle"}
           /\ pc'[Factory] \in ReleasePcs => goto'[Factory] = "finish"
           /\ pc'[Factory] \in BuildPcs =>
                 builder.claimed # {} /\ pc[Factory] \in BuildPcs \cup {"idle"}
           /\ pc'[Factory] \in FillPcs =>
                 handles'[Factory] = handles[Factory] /\ (pc[Factory] \in FillPcs \/ Vacant = {})
<1> /\ DOMAIN pc = Threads /\ DOMAIN goto = Threads /\ DOMAIN handles = Threads
    /\ Factory \in Threads /\ Factory \notin Workers /\ Factory # Loner
  BY ThreadKinds DEF TypeInv
<1>a. /\ pc[Factory] \notin {"drop_lock", "register", "rollback", "unbind", "unbind_count",
                             "unregister", "clone", "members", "close", "live", "planned"}
      /\ pc[Factory] \in ReleasePcs => goto[Factory] = "finish"
      /\ pc[Factory] \in BuildPcs => builder.claimed # {}
  BY DEF ControlInv, FactoryControl, FactoryPcs, BuildPcs, FillPcs, ReleasePcs
<1> DEFINE Goal == /\ pc'[Factory] \in FactoryPcs \ {"idle"}
                   /\ pc'[Factory] \in ReleasePcs => goto'[Factory] = "finish"
                   /\ pc'[Factory] \in BuildPcs =>
                         builder.claimed # {} /\ pc[Factory] \in BuildPcs \cup {"idle"}
                   /\ pc'[Factory] \in FillPcs => /\ handles'[Factory] = handles[Factory]
                                                  /\ pc[Factory] \in FillPcs \/ Vacant = {}
<1> USE SMTT(30) DEF Go, locks, FactoryPcs, BuildPcs, FillPcs, ReleasePcs
<1>1. LockRegistry(Factory) \/ ReleaseCheck(Factory) => Goal BY <1>a DEF LockRegistry, ReleaseCheck
<1>2. get_or_load(Factory) => Goal BY <1>a DEF get_or_load
<1>3. ReleaseDrop(Factory) => Goal BY <1>a DEF ReleaseDrop
<1>4. LockProgram(Factory) => Goal BY <1>a DEF LockProgram
<1>5. Bind(Factory) \/ BindCount(Factory) => Goal
  BY <1>a DEF Bind, BindCount, BindDone, BindFailed
<1>6. Opened(Factory) \/ FillFailed => Goal BY <1>a DEF Opened, FillFailed
<1>7. Finish(Factory) => Goal BY DEF Finish
<1>8. NextLoad \/ Build => Goal BY <1>a DEF NextLoad, Build, LoadVacant
<1>9. Fill => Goal BY <1>a DEF Fill
<1>10. ~ (\/ Register(Factory) \/ Rollback(Factory) \/ Unbind(Factory) \/ UnbindCount(Factory)
          \/ Unregister(Factory) \/ Clone(Factory) \/ OpenRaw(Factory) \/ Members(Factory)
          \/ Close(Factory) \/ BeginOpen(Factory) \/ BeginDrop(Factory) \/ DropPlan(Factory))
  BY <1>a, Zenon DEF Register, Rollback, Unbind, UnbindCount, Unregister, Clone, OpenRaw, Members,
         Close, BeginOpen, BeginDrop, DropPlan
<1> HIDE DEF Goal
<1>q. Goal
  BY <1>1, <1>2, <1>3, <1>4, <1>5, <1>6, <1>7, <1>8, <1>9, <1>10, Zenon DEF Acts, ThreadStep, Step
<1> QED BY <1>q, Zenon DEF Goal

-----------------------------------------------------------------------------
(* The handles, for every step.                                            *)

\* The steps of the system are those of a thread, the partition into plans and
\* the arrival of a frame.
LEMMA NextCases ==
    ASSUME [Next]_vars
    PROVE  (\E u \in Threads : Acts(u)) \/ Plan \/ FrameArrives \/ UNCHANGED vars
<1> Factory \in Threads
  BY ThreadKinds
<1> QED BY Zenon DEF Next, FactoryStep, Acts, ThreadStep

\* The invariant holds before anything is opened or built.
LEMMA ControlInit == Init => TypeInv /\ ControlInv /\ RegistryInv
<1> SUFFICES ASSUME Init PROVE TypeInv /\ ControlInv /\ RegistryInv
  OBVIOUS
<1>1. TypeInv
  BY ControlAssumption DEF Init, TypeInv
<1>2. \A t \in Threads : pc[t] \in {"idle", "closed"} /\ (t # Loner => pc[t] = "idle")
  BY DEF Init
<1>3. FactoryControl
  BY <1>2, ThreadKinds DEF FactoryControl, FactoryPcs, BuildPcs, FillPcs, ReleasePcs
<1>4. \A t \in Threads : Supplied(t)
  <2> SUFFICES ASSUME NEW t \in Threads PROVE Supplied(t)
    OBVIOUS
  <2> Held(t) \in Nat
    BY <1>1 DEF TypeInv, Held
  <2> QED BY <1>2, EnoughElsewhere DEF Supplied
<1>5. RegistryInv
  BY <1>2 DEF Init, RegistryInv, RegistryPcs, Single, Uses
<1> QED BY <1>1, <1>2, <1>3, <1>4, <1>5, ThreadKinds DEF ControlInv

\* A step of u keeps what is known of the control of every thread.
LEMMA ActsControl ==
    ASSUME TypeInv, ControlInv, NEW u \in Threads, Acts(u), Frame(u), DOMAIN program' = Interfaces
    PROVE  TypeInv' /\ ControlInv'
<1>1. /\ builder' = builder /\ plans' = plans
      /\ \A t \in Threads : t # u => Same(t)
      /\ u \in Workers => pc[u] # "idle"
  BY DEF Frame, build_vars
<1>2. Typed(u)' /\ Supplied(u)'
  <2>1. Typed(u)
    BY DEF TypeInv, Typed
  <2>2. OpenStep(u) \/ DropStep(u)
    <3> LockProgram(u) => pc[u] = "lock" \/ pc[u] = "drop_lock"
      BY DEF LockProgram
    <3> QED BY Zenon DEF Acts, ThreadStep, Step, OpenStep, DropStep
  <2> QED BY <1>1, <2>1, <2>2, OpenProceeds, ProceedsSupplied, DropSupplied
<1>3. ASSUME NEW t \in Threads, t # u PROVE Typed(t)' /\ Supplied(t)'
  <2> Same(t) /\ Supplied(t)
    BY <1>1, <1>3 DEF ControlInv
  <2> Typed(t)'
    BY DEF Same, Typed, TypeInv
  <2> Size(t)' = Size(t) /\ Held(t)' = Held(t)
    BY <1>1 DEF Same, Size, SocketQueues, Held
  <2> QED BY DEF Same, Supplied
<1>4. FactoryControl'
  <2>1. /\ Loaded' <=> \A n \in DOMAIN Claimed : handles'[Factory][Claimed[n].ifindex] > 0
        /\ builder.claimed # {} /\ Vacant = {} => Loaded
    BY <1>1, ClaimedSlots DEF Loaded, Claimed
  <2>2. CASE u = Factory
    <3> \A t \in Workers : pc'[t] = pc[t]
      BY <1>1, <2>2, ThreadKinds DEF Same
    <3> QED BY <1>1, <2>1, <2>2, FactoryGoes
            DEF ControlInv, FactoryControl, Loaded, BuildPcs
  <2>3. CASE u # Factory
    <3>1. Same(Factory)
      BY <1>1, <2>3, ThreadKinds
    <3>2. pc[Factory] \in BuildPcs \cup {"idle"} => \A t \in Workers : pc'[t] = pc[t]
      <4> SUFFICES ASSUME pc[Factory] \in BuildPcs \cup {"idle"}, NEW t \in Workers
                   PROVE  pc'[t] = pc[t]
        OBVIOUS
      <4> t \in Threads /\ t # u
        BY <1>1, ThreadKinds, Zenon DEF ControlInv, FactoryControl
      <4> QED BY <1>1, Zenon DEF Same
    <3>3. Loaded' <=> Loaded
      BY <2>1, <3>1 DEF Loaded, Same
    <3>4. /\ pc'[Factory] = pc[Factory] /\ goto'[Factory] = goto[Factory]
          /\ builder' = builder /\ FactoryControl
      BY <1>1, <3>1, Zenon DEF Same, ControlInv
    <3> QED BY <3>2, <3>3, <3>4 DEF FactoryControl
  <2> QED BY <2>2, <2>3
<1>5. TypeInv'
  BY <1>1, <1>2, <1>3 DEF TypeInv, Frame, Typed
<1>6. \A t \in Workers : pc'[t] # "idle" => t \in DOMAIN plans'
  BY <1>1, ThreadKinds DEF ControlInv, Same
<1> QED BY <1>2, <1>3, <1>4, <1>5, <1>6 DEF ControlInv

\* How Plan leaves a thread: a worker with a plan has a handle on an interface
\* of the factory.
LEMMA PlanLocal ==
    ASSUME TypeInv, ControlInv, Plan
    PROVE  /\ pc[Factory] = "plan" /\ pc'[Factory] = "finish"
           /\ registry' = registry /\ program' = program /\ registry_lock' = registry_lock
           /\ builder' = builder /\ goto' = goto /\ member' = member
           /\ plans' = plans \/ (plans' \in builder.plans /\ builder.claimed # {})
           /\ DOMAIN pc' = Threads /\ DOMAIN at' = Threads /\ DOMAIN handles' = Threads
           /\ \A t \in Threads :
                 \/ handles'[t] = handles[t] /\ at'[t] = at[t] /\ (t = Factory \/ pc'[t] = pc[t])
                 \/ /\ t \in Workers /\ t \in DOMAIN plans' /\ pc'[t] = "planned"
                    /\ at'[t] \in Interfaces /\ handles[Factory][at'[t]] > 0
                    /\ handles'[t] = [handles[t] EXCEPT ![at'[t]] = 1]
<1>1. /\ pc[Factory] = "plan"
      /\ registry' = registry /\ program' = program /\ registry_lock' = registry_lock
      /\ builder' = builder /\ goto' = goto /\ member' = member
  BY DEF Plan
<1>2. /\ Factory \in Threads /\ Factory \notin Workers
      /\ DOMAIN pc = Threads /\ DOMAIN at = Threads /\ DOMAIN handles = Threads
      /\ builder.claimed # {} /\ Loaded /\ builder \in Builders
  BY <1>1, ThreadKinds DEF ControlInv, FactoryControl, BuildPcs, FillPcs, TypeInv
<1>3. CASE builder.plans = {}
  BY <1>1, <1>2, <1>3 DEF Plan, Go
<1>4. CASE builder.plans # {}
  <2>1. /\ plans' \in builder.plans
        /\ pc' = [t \in Threads |-> CASE t = Factory -> "finish"
                                      [] t \in DOMAIN plans' -> "planned"
                                      [] OTHER -> pc[t]]
        /\ at' = [t \in Threads |->
                     IF t \in DOMAIN plans' THEN plans'[t].ifindex ELSE at[t]]
        /\ handles' = [t \in Threads |->
                     IF t \in DOMAIN plans'
                     THEN [handles[t] EXCEPT ![plans'[t].ifindex] = 1] ELSE handles[t]]
    BY <1>4, Zenon DEF Plan
  <2>2. \A k \in DOMAIN plans' :
          /\ k \in Workers
          /\ \E n \in DOMAIN Claimed : plans'[k].ifindex = Claimed[n].ifindex
    BY <1>2, <2>1, BuilderAssumption, ClaimedSlots
  <2>3. \A t \in DOMAIN plans' :
          t \in Workers /\ plans'[t].ifindex \in Interfaces
          /\ handles[Factory][plans'[t].ifindex] > 0
    BY <1>2, <2>2, ClaimedSlots DEF Loaded
  <2>4. DOMAIN pc' = Threads /\ DOMAIN at' = Threads /\ DOMAIN handles' = Threads
        /\ pc'[Factory] = "finish"
    BY <1>2, <2>1, <2>3
  <2>5. ASSUME NEW t \in Threads
        PROVE  \/ handles'[t] = handles[t] /\ at'[t] = at[t] /\ (t = Factory \/ pc'[t] = pc[t])
               \/ /\ t \in Workers /\ t \in DOMAIN plans' /\ pc'[t] = "planned"
                  /\ at'[t] \in Interfaces /\ handles[Factory][at'[t]] > 0
                  /\ handles'[t] = [handles[t] EXCEPT ![at'[t]] = 1]
    BY <1>2, <2>1, <2>3, Zenon
  <2> QED BY <1>1, <1>2, <2>1, <2>4, <2>5, Zenon
<1> QED BY <1>3, <1>4

\* The plans leave every thread with the handles it needs.
LEMMA PlanControl ==
    ASSUME TypeInv, ControlInv, Plan
    PROVE  TypeInv' /\ ControlInv'
<1>1. /\ \A t \in Workers : pc[t] = "idle"
      /\ pc'[Factory] = "finish" /\ builder' = builder /\ goto' = goto /\ member' = member
  BY PlanLocal DEF ControlInv, FactoryControl, BuildPcs, FillPcs
<1>a. ASSUME NEW t \in Threads
      PROVE  /\ at[t] \in Interfaces /\ handles[t] \in [Interfaces -> Nat] /\ member[t] \in Nat
             /\ Supplied(t)
             /\ \/ handles'[t] = handles[t] /\ at'[t] = at[t] /\ (t = Factory \/ pc'[t] = pc[t])
                \/ /\ t \in Workers /\ t \in DOMAIN plans' /\ pc'[t] = "planned"
                   /\ at'[t] \in Interfaces /\ handles'[t] = [handles[t] EXCEPT ![at'[t]] = 1]
  <2>1. Supplied(t) /\ at[t] \in Interfaces /\ handles[t] \in [Interfaces -> Nat] /\ member[t] \in Nat
    BY DEF TypeInv, ControlInv
  <2> QED BY <2>1, PlanLocal, Zenon
<1>2. ASSUME NEW t \in Threads PROVE Typed(t)' /\ (t \in Workers /\ pc'[t] # "idle" => t \in DOMAIN plans')
  <2>1. Typed(t)'
    <3>1. member'[t] \in Nat
      BY <1>1, <1>a, Zenon
    <3>2. CASE handles'[t] = handles[t] /\ at'[t] = at[t]
      BY <1>a, <3>1, <3>2, Zenon DEF Typed
    <3>3. CASE at'[t] \in Interfaces /\ handles'[t] = [handles[t] EXCEPT ![at'[t]] = 1]
      <4> handles'[t] \in [Interfaces -> Nat]
        BY <1>a, <3>3
      <4> QED BY <3>1, <3>3, Zenon DEF Typed
    <3> QED BY <1>a, <3>2, <3>3, Zenon
  <2>2. t \in Workers => t # Factory /\ pc[t] = "idle"
    BY <1>1, ThreadKinds
  <2> QED BY <1>a, <2>1, <2>2, Zenon
<1>3. TypeInv'
  BY <1>1, <1>2, PlanLocal DEF TypeInv, Typed
<1>4. FactoryControl'
  BY <1>1 DEF FactoryControl, FactoryPcs, BuildPcs, FillPcs, ReleasePcs
<1>5. ASSUME NEW t \in Threads PROVE Supplied(t)'
  <2>0. Held(t)' \in Nat
    BY <1>2 DEF Typed, Held
  <2>1. CASE pc'[t] \in {"idle", "finish"}
    BY <2>0, <2>1, EnoughElsewhere DEF Supplied
  <2>2. CASE t \in Workers /\ pc'[t] = "planned"
    <3>1. t # Factory /\ pc[t] = "idle"
      BY <1>1, <2>2, ThreadKinds
    <3>2. at'[t] \in Interfaces /\ handles'[t] = [handles[t] EXCEPT ![at'[t]] = 1]
      BY <1>a, <2>2, <3>1
    <3>3. Held(t)' >= 1
      BY <1>a, <3>2 DEF Held
    <3> QED BY <2>0, <2>2, <3>3, EnoughElsewhere DEF Supplied
  <2>3. CASE t = Loner
    <3>1. t \notin Workers /\ t # Factory
      BY <2>3, ThreadKinds
    <3>2. /\ pc'[t] = pc[t] /\ handles'[t] = handles[t] /\ at'[t] = at[t] /\ goto'[t] = goto[t]
          /\ member'[t] = member[t] /\ Supplied(t)
      BY <1>1, <1>a, <3>1, Zenon
    <3>3. Size(t)' = Size(t) /\ Held(t)' = Held(t)
      BY <2>3, <3>2 DEF Size, SocketQueues, Held
    <3> QED BY <3>2, <3>3 DEF Supplied
  <2>4. t \in Workers => pc'[t] \in {"idle", "planned"}
    BY <1>1, <1>a, ThreadKinds, Zenon
  <2> QED BY <1>1, <2>1, <2>2, <2>3, <2>4, ThreadKinds
<1> QED BY <1>2, <1>3, <1>4, <1>5, ThreadKinds DEF ControlInv
=============================================================================
