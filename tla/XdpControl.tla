----------------------------- MODULE XdpControl -----------------------------
(***************************************************************************)
(* The control plane of the XDP backend: the process-wide program registry *)
(* and the maps of an attached program (program.rs), the sockets that open *)
(* and drop on their threads (socket.rs), and the factory that attaches    *)
(* programs and hands out worker plans (factory.rs).  A step ends where    *)
(* another thread, or the eBPF program, can observe the state: at a mutex, *)
(* a map update or a system call.                                          *)
(***************************************************************************)
EXTENDS FrameFilter, FiniteSets, Functions

CONSTANTS
    Interfaces, Queues,
    Builders,     \* the factories considered, with or without the thread
                  \* Loner beside them; Init picks one.  A builder comes with
                  \* the slots it claims, if build attaches anything, and its
                  \* plans, if it then makes any (module XdpFactory).
    Workers,      \* 1..n; worker k opens plan k
    Loner,        \* a thread that opens a socket with no attached program
    Lone,         \* its config: ifindex, queue, bind_udp_port
    LocalPort,    \* port of the address the workers open their sockets on
    Frames,       \* frames the NIC may receive
    MaxFailures   \* failed map updates and system calls in one execution

Factory == 0
Threads == Workers \cup {Factory, Loner}
None == {}
DROP_COUNTER_WRAP == 2    \* 2^64 in the map

\* Threads are distinct, an interface index is not zero, and queue discovery
\* gives well-formed slots.  There is a worker for every plan, and a plan is a
\* block of claimed queues on one interface.
SlotType == [ifindex : Interfaces, queue : Queues, flat_index : Nat]

ASSUME ControlAssumption ==
    /\ IsFiniteSet(Workers)
    /\ Factory \notin Workers /\ Loner \notin Workers \cup {Factory}
    /\ Interfaces \subseteq Nat \ {0}
    /\ Lone.ifindex \in Interfaces /\ Lone.queue \in Queues

ASSUME BuilderAssumption ==
    \A b \in Builders :
        /\ b.filter.kind = "UdpPorts" /\ b.claimed # {} => b.filter.ports \in Seq(Nat) \ {<<>>}
        /\ \A claimed \in b.claimed :
              /\ claimed \in Seq(SlotType) \ {<<>>}
              /\ \A made \in b.plans :
                    /\ DOMAIN made \subseteq Workers
                    /\ \A k \in DOMAIN made :
                          /\ made[k].queues \in Seq(Queues) \ {<<>>}
                          /\ \E n \in DOMAIN claimed : made[k].ifindex = claimed[n].ifindex

VARIABLES
    builder, plans,   \* the factory, and its worker plans once it is built
    registry,         \* interfaces with an entry in PROGRAMS
    registry_lock,    \* holder of the registry mutex, or None
    program,          \* XdpProgram on each interface: one element or none
    lock,             \* holder of each program's mutex, or None
    pc, goto,         \* where a thread is; where release returns to
    at,               \* interface a thread is working on
    todo,             \* queues or ports it has still to handle
    handles,          \* XdpProgramHandles of a thread on an interface
    member,           \* member being dropped; least interface the factory may fill
    fds,              \* <<interface, queue>> of a thread's bound AF_XDP sockets
    drops, failures

vars == <<builder, plans, registry, registry_lock, program, lock, pc, goto,
          at, todo, handles, member, fds, drops, failures>>

locks == <<registry, registry_lock, program, lock, handles>>
build_vars == <<builder, plans>>

The(set) == CHOOSE x \in set : TRUE

\* What a loop over a set of indexes, in their order, comes to first
Foremost(set) == {x \in set : \A y \in set : x <= y}

Prog(i) == The(program[i])

\* XdpProgram::load_and_attach
NewProgram(config) ==
    [config |-> config, ports |-> {}, count |-> 0,
     bound_ports |-> [p \in {} |-> 0], xskmap |-> [q \in Queues |-> {}]]

\* The handles on a program, one by one
References(i) == UNION {{t} \X (1..handles[t][i]) : t \in Threads}

\* Arc::strong_count
StrongCount(i) == Cardinality(registry \cap {i}) + Cardinality(References(i))

Go(t, where) == pc' = [pc EXCEPT ![t] = where]
SetProgram(i, p) == program' = [program EXCEPT ![i] = {p}]
Unlock(i) == lock' = [lock EXCEPT ![i] = None]

\* A call that may fail: the failing branch is bounded by MaxFailures.
MayFail == failures < MaxFailures /\ failures' = failures + 1
Succeeds == UNCHANGED failures

-----------------------------------------------------------------------------
(* What a thread opens.                                                    *)

SocketQueues(t) == IF t = Loner THEN <<Lone.queue>> ELSE plans[t].queues

program_config(filter) ==
    IF filter.kind = "UdpPortRange"
    THEN [kind |-> "PortRange", start |-> filter.start, end |-> filter.end]
    ELSE [kind |-> "BoundPorts"]

config_for(t) ==
    IF t = Loner THEN [kind |-> "BoundPorts"] ELSE program_config(builder.filter)

\* XdpWorkerPlan::new makes a plan of its own around a factory's program,
\* without a filter.
PlanAllIp == builder.manual \/ builder.filter.kind = "AllIp"

\* config.bind_udp_port of the openers: the factory has filled other filters
bind_udp_port(t) ==
    CASE t = Loner -> {Lone.bind_udp_port}
      [] t # Loner /\ PlanAllIp -> {LocalPort}
      [] OTHER -> {}

\* Ports of the factory's filter
FilterPorts ==
    CASE builder.filter.kind = "UdpPorts" -> Range(builder.filter.ports)
      [] builder.filter.kind = "UdpPortRange" -> builder.filter.start .. builder.filter.end
      [] OTHER -> {}

\* XdpUdpAcceptedPorts of an opened socket
AcceptedPorts(t) ==
    IF t # Loner /\ ~PlanAllIp THEN FilterPorts ELSE bind_udp_port(t)

Claimed == The(builder.claimed)

\* Slots whose interface is a vacant entry of the factory's `programs`: the
\* programs are loaded in claim order, and filled in the order of the BTreeMap.
Vacant == {n \in DOMAIN Claimed : handles[Factory][Claimed[n].ifindex] = 0}
Unfilled == {i \in Interfaces : handles[Factory][i] > 0 /\ i >= member[Factory]}

Init ==
    /\ builder \in Builders
    /\ plans = <<>>
    /\ registry = {}
    /\ registry_lock = None
    /\ program = [i \in Interfaces |-> {}]
    /\ lock = [i \in Interfaces |-> None]
    /\ pc = [t \in Threads |-> IF t = Loner /\ ~builder.loner THEN "closed" ELSE "idle"]
    /\ goto = [t \in Threads |-> "idle"]
    /\ at = [t \in Threads |-> Lone.ifindex]
    /\ todo = [t \in Threads |-> <<>>]
    /\ handles = [t \in Threads |-> [i \in Interfaces |-> 0]]
    /\ member = [t \in Threads |-> 1]
    /\ fds = [t \in Threads |-> {}]
    /\ drops = 0
    /\ failures = 0

-----------------------------------------------------------------------------
(* The registry.                                                           *)

\* get_or_load_with_config takes the registry mutex ...
LockRegistry(t) ==
    /\ pc[t] = "load"
    /\ registry_lock = None
    /\ registry_lock' = {t}
    /\ Go(t, "get_or_load")
    /\ UNCHANGED <<build_vars, registry, program, lock, goto, at, todo, handles, member,
                   fds, drops, failures>>

\* ... and with it finds the program, whose mutex it needs, or attaches one.
\* The kernel refuses a second program on an interface.
get_or_load(t) ==
    LET i == at[t]
        Found == /\ handles' = [handles EXCEPT ![t][i] = @ + 1]
                 /\ Go(t, "loaded")
    IN /\ pc[t] = "get_or_load"
       /\ registry_lock' = None
       /\ \/ /\ i \in registry /\ lock[i] = None
             /\ IF Prog(i).config = config_for(t) THEN Found
                ELSE Go(t, "finish") /\ UNCHANGED handles
             /\ Succeeds /\ UNCHANGED <<registry, program>>
          \/ /\ i \notin registry /\ program[i] = {}
             /\ SetProgram(i, NewProgram(config_for(t)))
             /\ registry' = registry \cup {i}
             /\ Found /\ Succeeds
          \/ /\ i \notin registry /\ MayFail
             /\ Go(t, "finish") /\ UNCHANGED <<handles, registry, program>>
       /\ UNCHANGED <<build_vars, lock, goto, at, todo, member, fds, drops>>

\* Mutant of ReleaseCheck: the count is read without the registry mutex.
ReleaseCheckUnlocked(t) ==
    /\ pc[t] = "release"
    /\ registry' = IF StrongCount(at[t]) = 2 THEN registry \ {at[t]} ELSE registry
    /\ Go(t, "release_drop")
    /\ UNCHANGED <<build_vars, registry_lock, program, lock, goto, at, todo, handles,
                   member, fds, drops, failures>>

\* release, up to drop(program)
ReleaseCheck(t) ==
    /\ pc[t] = "release"
    /\ registry_lock = None
    /\ registry_lock' = {t}
    /\ registry' = IF StrongCount(at[t]) = 2 THEN registry \ {at[t]} ELSE registry
    /\ Go(t, "release_drop")
    /\ UNCHANGED <<build_vars, program, lock, goto, at, todo, handles, member, fds, drops,
                   failures>>

\* The last reference detaches the program.
ReleaseDrop(t) ==
    LET i == at[t]
    IN /\ pc[t] = "release_drop"
       /\ handles' = [handles EXCEPT ![t][i] = @ - 1]
       /\ program' = IF StrongCount(i) = 1 THEN [program EXCEPT ![i] = {}] ELSE program
       /\ registry_lock' = None
       /\ Go(t, goto[t])
       /\ UNCHANGED <<build_vars, registry, lock, goto, at, todo, member, fds, drops,
                      failures>>

-----------------------------------------------------------------------------
(* XdpProgram, under its mutex.                                            *)

LockProgram(t) ==
    /\ pc[t] \in {"lock", "drop_lock"}
    /\ lock[at[t]] = None
    /\ lock' = [lock EXCEPT ![at[t]] = {t}]
    /\ Go(t, CASE pc[t] = "drop_lock" -> "unbind"
               [] t = Factory -> "bind"
               [] OTHER -> "register")
    /\ UNCHANGED <<build_vars, registry, registry_lock, program, goto, at, todo, handles,
                   member, fds, drops, failures>>

\* register_socket, for the member sockets in turn; an error rolls back
Register(t) ==
    LET i == at[t]
        p == Prog(i)
        q == Head(todo[t])
    IN /\ pc[t] = "register"
       /\ \/ /\ SetProgram(i, [p EXCEPT !.xskmap[q] = {t}])
             /\ todo' = [todo EXCEPT ![t] = Tail(@)]
             /\ Go(t, IF Len(todo[t]) > 1 THEN "register"
                      ELSE IF bind_udp_port(t) = {} THEN "opened" ELSE "bind")
             /\ Succeeds
          \/ /\ MayFail
             /\ Go(t, "rollback")
             /\ todo' = [todo EXCEPT ![t] =
                            SubSeq(SocketQueues(t), 1, Len(SocketQueues(t)) - Len(@))]
             /\ UNCHANGED program
       /\ UNCHANGED <<build_vars, registry, registry_lock, lock, goto, at, handles, member,
                      fds, drops>>

\* The port bind_port is called with
BindArgument(t) == IF t = Factory THEN Head(todo[t]) ELSE The(bind_udp_port(t))

Refcount(p, port) == IF port \in DOMAIN p.bound_ports THEN p.bound_ports[port] ELSE 0

WithRefcount(p, port, n) ==
    [p EXCEPT !.bound_ports = [x \in DOMAIN @ \cup {port} |-> IF x = port THEN n ELSE @[x]]]

\* After bind_port returned Ok: the factory's next port, or the end of open
BindDone(t) ==
    /\ IF t = Factory /\ Len(todo[t]) > 1
       THEN todo' = [todo EXCEPT ![t] = Tail(@)] /\ Go(t, "bind")
       ELSE todo' = [todo EXCEPT ![t] = <<>>] /\ Go(t, "opened")

\* After it returned Err: `?` in the factory, the rollback in open
BindFailed(t) ==
    IF t = Factory
    THEN Go(t, "bind_failed") /\ UNCHANGED todo
    ELSE Go(t, "rollback") /\ todo' = [todo EXCEPT ![t] = SocketQueues(t)]

\* bind_port up to and including ports.set
Bind(t) ==
    LET i == at[t]
        p == Prog(i)
        port == BindArgument(t)
    IN /\ pc[t] = "bind"
       /\ \/ /\ p.config.kind # "BoundPorts"
             /\ BindFailed(t) /\ Succeeds /\ UNCHANGED program
          \/ /\ p.config.kind = "BoundPorts" /\ Refcount(p, port) > 0
             /\ SetProgram(i, WithRefcount(p, port, Refcount(p, port) + 1))
             /\ BindDone(t) /\ Succeeds
          \/ /\ p.config.kind = "BoundPorts" /\ Refcount(p, port) = 0
             /\ \/ /\ SetProgram(i, [p EXCEPT !.ports = @ \cup {port}])
                   /\ Go(t, "bind_count") /\ Succeeds /\ UNCHANGED todo
                \/ MayFail /\ BindFailed(t) /\ UNCHANGED program
       /\ UNCHANGED <<build_vars, registry, registry_lock, lock, goto, at, handles, member,
                      fds, drops>>

\* bind_port's set_bound_port_count, with its rollback of the port
BindCount(t) ==
    LET i == at[t]
        p == Prog(i)
        port == BindArgument(t)
    IN /\ pc[t] = "bind_count"
       /\ \/ /\ SetProgram(i, WithRefcount([p EXCEPT
                     !.count = Cardinality(DOMAIN p.bound_ports) + 1], port, 1))
             /\ BindDone(t) /\ Succeeds
          \/ /\ MayFail
             /\ \E ports \in {p.ports \ {port}, p.ports} : SetProgram(i, [p EXCEPT !.ports = ports])
             /\ BindFailed(t)
       /\ UNCHANGED <<build_vars, registry, registry_lock, lock, goto, at, handles, member,
                      fds, drops>>

\* unregister_socket deletes whatever XSKMAP has for the queue
Unregistered(p, q) == [p EXCEPT !.xskmap[q] = {}]

\* The rollback of a failed open
Rollback(t) ==
    LET i == at[t]
    IN /\ pc[t] = "rollback"
       /\ IF todo[t] = <<>>
          THEN Unlock(i) /\ Go(t, "finish") /\ Succeeds /\ UNCHANGED <<program, todo>>
          ELSE /\ \/ SetProgram(i, Unregistered(Prog(i), Head(todo[t]))) /\ Succeeds
                  \/ UNCHANGED program /\ MayFail
               /\ todo' = [todo EXCEPT ![t] = Tail(@)]
               /\ UNCHANGED <<lock, pc>>
       /\ UNCHANGED <<build_vars, registry, registry_lock, goto, at, handles, member, fds,
                      drops>>

\* Only member 0 of a group records the bound port.
\* Mutant of bound_port: the last member records it.
bound_port_last(t, m) == IF m = Len(SocketQueues(t)) THEN bind_udp_port(t) ELSE {}

bound_port(t, m) == IF m = 1 THEN bind_udp_port(t) ELSE {}

Without(f, x) == [y \in DOMAIN f \ {x} |-> f[y]]

\* Mutant of Unbound: the reference count is ignored.
UnboundForAll(p, port) ==
    [p EXCEPT !.ports = @ \ {port}, !.bound_ports = Without(@, port)]

\* Mutant of Unbound: the entry of BOUND_PORTS is not cleared.
UnboundKeepsEntry(p, port) ==
    IF Refcount(p, port) > 1 THEN WithRefcount(p, port, Refcount(p, port) - 1)
    ELSE [p EXCEPT !.bound_ports = Without(@, port)]

\* unbind_port's effect when its map update succeeds
Unbound(p, port) ==
    IF Refcount(p, port) > 1 THEN WithRefcount(p, port, Refcount(p, port) - 1)
    ELSE [p EXCEPT !.ports = @ \ {port}, !.bound_ports = Without(@, port)]

\* LiveXdpState::drop: unbind_port, whose errors are only printed
Unbind(t) ==
    LET i == at[t]
        p == Prog(i)
        port == bound_port(t, member[t])
        Bound == port # {} /\ p.config.kind = "BoundPorts" /\ Refcount(p, The(port)) > 0
    IN /\ pc[t] = "unbind"
       /\ \/ /\ ~Bound
             /\ Go(t, "unregister") /\ Succeeds /\ UNCHANGED program
          \/ /\ Bound
             /\ SetProgram(i, Unbound(p, The(port)))
             /\ Go(t, IF Refcount(p, The(port)) > 1 THEN "unregister" ELSE "unbind_count")
             /\ Succeeds
          \/ /\ Bound /\ Refcount(p, The(port)) = 1
             /\ MayFail /\ Go(t, "unregister") /\ UNCHANGED program
       /\ UNCHANGED <<build_vars, registry, registry_lock, lock, goto, at, todo, handles,
                      member, fds, drops>>

UnbindCount(t) ==
    LET i == at[t]
        p == Prog(i)
    IN /\ pc[t] = "unbind_count"
       /\ \/ /\ SetProgram(i, [p EXCEPT !.count = Cardinality(DOMAIN p.bound_ports)])
             /\ Succeeds
          \/ MayFail /\ UNCHANGED program
       /\ Go(t, "unregister")
       /\ UNCHANGED <<build_vars, registry, registry_lock, lock, goto, at, todo, handles,
                      member, fds, drops>>

\* unregister_socket; the guard is dropped before the handle is released
Unregister(t) ==
    LET i == at[t]
    IN /\ pc[t] = "unregister"
       /\ \/ /\ SetProgram(i, Unregistered(Prog(i), SocketQueues(t)[member[t]]))
             /\ Succeeds
          \/ MayFail /\ UNCHANGED program
       /\ Unlock(i)
       /\ Go(t, "release")
       /\ goto' = [goto EXCEPT ![t] = "close"]
       /\ UNCHANGED <<build_vars, registry, registry_lock, at, todo, handles, member, fds,
                      drops>>

-----------------------------------------------------------------------------
(* Sockets.                                                                *)

HasDuplicates(queues) == Cardinality(Range(queues)) # Len(queues)

\* LiveXdpState::open and open_shared_members: a factory plan carries a
\* handle, which is cloned; the other thread asks the registry for one.
BeginOpen(t) ==
    /\ \/ /\ t = Loner /\ pc[t] = "idle"
          /\ Go(t, "load")
       \/ /\ t \in Workers /\ pc[t] = "planned"
          /\ Go(t, IF HasDuplicates(SocketQueues(t)) THEN "finish" ELSE "clone")
    /\ UNCHANGED <<build_vars, locks, goto, at, todo, member, fds, drops, failures>>

\* XdpProgramHandle::clone
Clone(t) ==
    /\ pc[t] = "clone"
    /\ registry_lock = None
    /\ handles' = [handles EXCEPT ![t][at[t]] = @ + 1]
    /\ Go(t, "loaded")
    /\ UNCHANGED <<build_vars, registry, registry_lock, program, lock, goto, at, todo,
                   member, fds, drops, failures>>

Sockets(t) == {<<at[t], q>> : q \in Range(SocketQueues(t))}

\* The UMEM and the raw sockets; the kernel binds one socket to a queue
OpenRaw(t) ==
    LET busy == \E u \in Threads : fds[u] \cap Sockets(t) # {}
    IN /\ pc[t] = "loaded" /\ t # Factory
       /\ \/ /\ ~busy
             /\ fds' = [fds EXCEPT ![t] = Sockets(t)]
             /\ todo' = [todo EXCEPT ![t] = SocketQueues(t)]
             /\ Go(t, "lock") /\ Succeeds
          \/ /\ IF busy THEN Succeeds ELSE MayFail
             /\ Go(t, "finish") /\ UNCHANGED <<fds, todo>>
       /\ UNCHANGED <<build_vars, locks, goto, at, member, drops>>

\* Mutant of Opened: the member handles are cloned inside the guard's scope.
OpenedClonesInGuard(t) ==
    /\ pc[t] = "opened"
    /\ t \in Workers => registry_lock = None
    /\ Unlock(at[t])
    /\ IF t = Factory
       THEN member' = [member EXCEPT ![t] = at[t] + 1] /\ Go(t, "fill")
       ELSE Go(t, "members") /\ UNCHANGED member
    /\ UNCHANGED <<build_vars, registry, registry_lock, program, goto, at, todo, handles,
                   fds, drops, failures>>

\* The end of the guard's scope
Opened(t) ==
    /\ pc[t] = "opened"
    /\ Unlock(at[t])
    /\ IF t = Factory
       THEN member' = [member EXCEPT ![t] = at[t] + 1] /\ Go(t, "fill")
       ELSE Go(t, "members") /\ UNCHANGED member
    /\ UNCHANGED <<build_vars, registry, registry_lock, program, goto, at, todo, handles,
                   fds, drops, failures>>

\* Each member of a group has a handle of its own and one in its config; a
\* socket opened alone keeps the handle it loaded.
Members(t) ==
    /\ pc[t] = "members"
    /\ t \in Workers => registry_lock = None
    /\ handles' = [handles EXCEPT ![t][at[t]] =
                      IF t = Loner THEN @ ELSE 2 * Len(SocketQueues(t))]
    /\ member' = [member EXCEPT ![t] = 1]
    /\ Go(t, "live")
    /\ UNCHANGED <<build_vars, registry, registry_lock, program, lock, goto, at, todo, fds,
                   drops, failures>>

\* Dropping a socket drops its config, with a plan's handle, before `live`.
DropSocket(t) ==
    /\ IF t = Loner THEN Go(t, "drop_lock") /\ UNCHANGED goto
       ELSE Go(t, "release") /\ goto' = [goto EXCEPT ![t] = "drop_lock"]

BeginDrop(t) ==
    /\ pc[t] = "live"
    /\ DropSocket(t)
    /\ UNCHANGED <<build_vars, locks, at, todo, member, fds, drops, failures>>

\* The kernel takes a closed socket out of the XSKMAP.
Closed(t, closed) ==
    /\ fds' = [fds EXCEPT ![t] = @ \ closed]
    /\ program' = [i \in Interfaces |->
          {[p EXCEPT !.xskmap = [q \in Queues |->
               IF <<i, q>> \in closed THEN p.xskmap[q] \ {t} ELSE p.xskmap[q]]] :
             p \in program[i]}]

\* The field `raw` is dropped last, then the next member of the group.
Close(t) ==
    /\ pc[t] = "close"
    /\ Closed(t, {<<at[t], SocketQueues(t)[member[t]]>>})
    /\ member' = [member EXCEPT ![t] = @ + 1]
    /\ IF member[t] < Len(SocketQueues(t)) THEN DropSocket(t)
       ELSE Go(t, "finish") /\ UNCHANGED goto
    /\ UNCHANGED <<build_vars, registry, registry_lock, lock, at, todo, handles, drops,
                   failures>>

\* The end of a failed open, of a dropped socket or plan and of the factory:
\* raw sockets close, then the handles that are left are released.
Finish(t) ==
    LET held == {i \in Interfaces : handles[t][i] > 0}
    IN /\ pc[t] = "finish"
       /\ Closed(t, fds[t])
       /\ IF held = {} THEN Go(t, "closed") /\ UNCHANGED <<at, goto>>
          ELSE /\ \E i \in Foremost(held) : at' = [at EXCEPT ![t] = i]
               /\ goto' = [goto EXCEPT ![t] = "finish"]
               /\ Go(t, "release")
       /\ UNCHANGED <<build_vars, registry, registry_lock, lock, todo, handles, member,
                      drops, failures>>

DropPlan(t) ==
    /\ t \in Workers /\ pc[t] = "planned"
    /\ Go(t, "finish")
    /\ UNCHANGED <<build_vars, locks, goto, at, todo, member, fds, drops, failures>>

-----------------------------------------------------------------------------
(* XdpFactoryBuilder::build.                                               *)

LoadVacant ==
    /\ \E n \in Foremost(Vacant) : at' = [at EXCEPT ![Factory] = Claimed[n].ifindex]
    /\ Go(Factory, "load")

Build ==
    /\ pc[Factory] = "idle"
    /\ IF builder.claimed # {} THEN LoadVacant
       ELSE Go(Factory, "finish") /\ UNCHANGED at
    /\ UNCHANGED <<build_vars, locks, goto, todo, member, fds, drops, failures>>

\* One program for each distinct interface
NextLoad ==
    /\ pc[Factory] = "loaded"
    /\ IF Vacant # {} THEN LoadVacant
       ELSE Go(Factory, "fill") /\ UNCHANGED at
    /\ UNCHANGED <<build_vars, locks, goto, todo, member, fds, drops, failures>>

\* The port filter of each program in turn
Fill ==
    /\ pc[Factory] = "fill"
    /\ IF builder.filter.kind = "UdpPorts" /\ Unfilled # {}
       THEN /\ \E i \in Foremost(Unfilled) : at' = [at EXCEPT ![Factory] = i]
            /\ todo' = [todo EXCEPT ![Factory] = builder.filter.ports]
            /\ Go(Factory, "lock")
       ELSE Go(Factory, "plan") /\ UNCHANGED <<at, todo>>
    /\ UNCHANGED <<build_vars, locks, goto, member, fds, drops, failures>>

\* `?` after a failed bind_port: the guard goes, the ports bound so far stay
FillFailed ==
    /\ pc[Factory] = "bind_failed"
    /\ Unlock(at[Factory])
    /\ Go(Factory, "finish")
    /\ UNCHANGED <<build_vars, registry, registry_lock, program, goto, at, todo, handles,
                   member, fds, drops, failures>>

\* The partition; every plan's config gets a clone of its program's handle.
\* The factory itself is dropped by into_worker_plans, or by an error.
Plan ==
    /\ pc[Factory] = "plan"
    /\ registry_lock = None
    /\ IF builder.plans = {}
       THEN Go(Factory, "finish") /\ UNCHANGED <<plans, handles, at>>
       ELSE \E made \in builder.plans :
            /\ plans' = made
            /\ pc' = [t \in Threads |-> CASE t = Factory -> "finish"
                                          [] t \in DOMAIN made -> "planned"
                                          [] OTHER -> pc[t]]
            /\ at' = [t \in Threads |->
                         IF t \in DOMAIN made THEN made[t].ifindex ELSE at[t]]
            /\ handles' = [t \in Threads |->
                         IF t \in DOMAIN made
                         THEN [handles[t] EXCEPT ![made[t].ifindex] = 1] ELSE handles[t]]
    /\ UNCHANGED <<builder, registry, registry_lock, program, lock, goto, todo,
                   member, fds, drops, failures>>

-----------------------------------------------------------------------------
\* The attached program, or the stack when there is none
VerdictOn(i, q, f) == IF program[i] = {} THEN PASS ELSE Verdict(Prog(i), q, f)

\* A frame arrives on a queue; a miss in the XSKMAP is counted.
FrameArrives ==
    \E miss \in {VerdictOn(i, q, f) = DROP : i \in Interfaces, q \in Queues, f \in Frames} :
        /\ drops' = IF miss THEN (drops + 1) % DROP_COUNTER_WRAP ELSE drops
        /\ UNCHANGED <<build_vars, locks, pc, goto, at, todo, member, fds, failures>>

\* The steps of a call that has been made
Step(t) ==
    \/ LockRegistry(t) \/ get_or_load(t) \/ ReleaseCheck(t) \/ ReleaseDrop(t)
    \/ LockProgram(t) \/ Register(t) \/ Bind(t) \/ BindCount(t) \/ Rollback(t)
    \/ Unbind(t) \/ UnbindCount(t) \/ Unregister(t)
    \/ Clone(t) \/ OpenRaw(t) \/ Opened(t) \/ Members(t) \/ Close(t) \/ Finish(t)

FactoryStep == NextLoad \/ Fill \/ FillFailed \/ Plan

Next ==
    \/ \E t \in Threads : Step(t) \/ BeginOpen(t) \/ BeginDrop(t) \/ DropPlan(t)
    \/ FactoryStep \/ Build
    \/ FrameArrives

Spec == Init /\ [][Next]_vars

\* A thread inside a call is scheduled; nobody is obliged to make a call.
FairSpec ==
    /\ Spec
    /\ \A t \in Threads : WF_vars(Step(t))
    /\ WF_vars(FactoryStep)

-----------------------------------------------------------------------------
\* While a socket is open, every datagram for a port it accepts that arrives
\* on one of its queues is redirected to it by the eBPF program and returned
\* by its receive path, whatever the other sockets and the factory do and
\* whichever map update or rollback fails (bind_port, unbind_port,
\* register_socket, try_redirect_bound_ports, parse_ethernet_ipv4_udp).
OpenSocketsReceive ==
    \A t \in Workers \cup {Loner} : pc[t] = "live" =>
        \A socket \in fds[t], f \in Frames :
            Datagram(f) /\ f.port \in AcceptedPorts(t) =>
                /\ VerdictOn(socket[1], socket[2], f) = REDIRECT(t)
                /\ Received(0, AcceptedPorts(t), f) # {}

\* Ports a socket has asked for and not yet given up
PortsInUse(i) ==
    UNION {bind_udp_port(t) : t \in {u \in Workers \cup {Loner} :
        /\ at[u] = i /\ member[u] = 1
        /\ \/ pc[u] \in {"bind", "bind_count", "opened", "members", "live", "drop_lock",
                         "unbind"}
           \/ pc[u] \in {"release", "release_drop"} /\ goto[u] = "drop_lock"}}

\* Ports of the factory's filter, once the factory has come to the interface;
\* a range is the program's own config.  Nobody unbinds them: they stay for as
\* long as the program, after a build that fails and after the last worker.
FilledPorts(i) ==
    IF \/ builder.filter.kind = "UdpPortRange"
       \/ /\ builder.claimed # {} /\ \E n \in DOMAIN Claimed : Claimed[n].ifindex = i
          /\ \/ member[Factory] > i
             \/ at[Factory] = i /\ pc[Factory] \in {"bind", "bind_count", "opened"}
    THEN FilterPorts ELSE {}

\* Unless a map update failed, only unfragmented UDP is kept from the kernel's
\* stack, for a port of a socket that has not given it up or for a port a
\* factory has filled in: unbind_port, release and the rollback of open take
\* the redirection of a socket's port back ("Disables UDP destination-port
\* redirection when the last user drops it").  Of a factory's ports it says
\* only that they go with the program.
OtherTrafficPasses ==
    failures = 0 =>
        \A i \in Interfaces, q \in Queues, f \in Frames :
            VerdictOn(i, q, f) # PASS =>
                /\ f.port \in PortsInUse(i) \cup FilledPorts(i)
                /\ f.protocol = "udp" /\ ~f.fragment

\* Unless a map update failed, a frame for the port of a socket that is the
\* port's only user is never dropped on that socket's queues, neither while
\* it opens nor while it is dropped: open registers before it binds, drop
\* unbinds before it unregisters, and member 0 of a group is dropped first.
NoFrameDropped ==
    failures = 0 =>
        \A t \in Workers \cup {Loner} :
            LET others == {u \in Workers \cup {Loner} : u # t /\ pc[u] \notin {"idle", "closed"}}
                own == bind_udp_port(t) \ (FilterPorts \cup UNION {bind_udp_port(u) : u \in others})
            IN \A socket \in fds[t], f \in Frames :
                   f.port \in own => VerdictOn(socket[1], socket[2], f) # DROP

\* The registry has an entry exactly for the interfaces on which a program is
\* attached, and a program is attached exactly while somebody has a handle:
\* no entry is orphaned and none is removed under a live handle (release,
\* get_or_load_with_config and clone under the registry mutex).
RegistryExact ==
    \A i \in Interfaces :
        LET leaving == {t \in Threads : at[t] = i /\ pc[t] = "release_drop"}
            users == {t \in Threads : handles[t][i] > IF t \in leaving THEN 1 ELSE 0}
        IN /\ users # {} => i \in registry /\ program[i] # {}
           /\ leaving = {} /\ users = {} => i \notin registry /\ program[i] = {}

\* Every call returns: an open ends with a socket or an error, a drop and a
\* build end.  The registry mutex is never awaited with a program's mutex
\* held, so that get_or_load, which holds the former while it waits for the
\* latter, cannot deadlock with open, clone and drop.
CallsReturn ==
    \A t \in Threads :
        pc[t] \notin {"idle", "planned", "live", "closed"} ~>
            pc[t] \in {"idle", "planned", "live", "closed"}
=============================================================================
