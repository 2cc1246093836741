-------------------------- MODULE AsyncActorProof --------------------------
(***************************************************************************)
(* Proofs about AsyncActor for any set of buffers and any queue sizes: the *)
(* lease counter is exact, and the socket outlives its buffers.  Leased    *)
(* buffers are in the application's hands, in the batch being delivered,   *)
(* or in one of the channels; the argument keeps these places apart, so    *)
(* that the size of their union changes by what a step moves.              *)
(***************************************************************************)
EXTENDS AsyncActor, FiniteSetTheorems, SequenceTheorems, TLAPS

Distinct(s) == \A i, j \in DOMAIN s : s[i] = s[j] => i = j

Command ==
    {c \in [op : {"allocate", "send", "shutdown"}, bufs : Seq(Buffer)] :
        Distinct(c.bufs) /\ (c.op # "send" => c.bufs = <<>>)}

\* The members of a sequence of sets are pairwise disjoint.
Apart(q) == \A i, j \in DOMAIN q : i # j => q[i] \cap q[j] = {}

\* The buffers of each command of a channel.
Loads(cs) == [i \in DOMAIN cs |-> ToSet(cs[i].bufs)]

InCommands == UNION ToSet(Loads(commands))
InRxQueue == UNION ToSet(rx_queue)

Places ==
    /\ commands \in Seq(Command) /\ Apart(Loads(commands))
    /\ rx_queue \in Seq(SUBSET Buffer) /\ Apart(rx_queue)
    /\ held \subseteq Buffer /\ batch \subseteq Buffer
    /\ held \cap batch = {} /\ held \cap InCommands = {} /\ held \cap InRxQueue = {}
    /\ batch \cap InCommands = {} /\ batch \cap InRxQueue = {}
    /\ InCommands \cap InRxQueue = {}

Inv ==
    /\ Places
    /\ releasing \in Nat
    /\ LeaseExact
    /\ pc # "deliver" => batch = {}
    /\ SocketOutlivesBuffers

-----------------------------------------------------------------------------
(* Sets and sequences.                                                     *)

\* Sets of buffers are finite.
LEMMA SubsetFinite ==
    ASSUME NEW S \in SUBSET Buffer
    PROVE  IsFiniteSet(S) /\ Cardinality(S) \in Nat
BY ActorAssumption, FS_Subset, FS_CardinalityType

\* The size of a union of two sets of buffers without common members.
LEMMA Grows ==
    ASSUME NEW S \in SUBSET Buffer, NEW T \in SUBSET Buffer, S \cap T = {}
    PROVE  Cardinality(S \cup T) = Cardinality(S) + Cardinality(T)
<1>1. Cardinality(S \cup T) = Cardinality(S) + Cardinality(T) - Cardinality(S \cap T)
    BY SubsetFinite, FS_Union
<1> QED BY <1>1, SubsetFinite, FS_EmptySet

\* The size of a set of buffers after some of its members left.
LEMMA Shrinks ==
    ASSUME NEW S \in SUBSET Buffer, NEW T \in SUBSET S
    PROVE  Cardinality(S \ T) = Cardinality(S) - Cardinality(T)
<1>1. S \cap T = T /\ IsFiniteSet(S)
    BY SubsetFinite
<1>2. Cardinality(S \ T) = Cardinality(S) - Cardinality(S \cap T)
    BY <1>1, FS_Difference
<1> QED BY <1>1, <1>2

\* A list without repetitions has as many members as it is long.
LEMMA DistinctCount ==
    ASSUME NEW s \in Seq(Buffer), Distinct(s)
    PROVE  ToSet(s) \in SUBSET Buffer /\ Cardinality(ToSet(s)) = Len(s)
<1>1. Len(s) \in Nat /\ DOMAIN s = 1..Len(s) /\ \A i \in 1..Len(s) : s[i] \in Buffer
    BY ElementOfSeq, LenProperties
<1>2. s \in Bijection(1..Len(s), ToSet(s))
  <2>1. s \in [1..Len(s) -> ToSet(s)]
      BY <1>1 DEF ToSet
  <2>2. \A t \in ToSet(s) : \E i \in 1..Len(s) : s[i] = t
      BY <1>1 DEF ToSet
  <2> QED BY <1>1, <2>1, <2>2 DEF Bijection, Injection, Surjection, IsInjective, Distinct
<1>3. Cardinality(ToSet(s)) = Len(s)
    BY <1>1, <1>2, FS_CountingElements DEF ExistsBijection
<1> QED BY <1>1, <1>3 DEF ToSet

\* Taking the first set off a queue of disjoint sets takes its members out of
\* the queue, and no others.
LEMMA TailApart ==
    ASSUME NEW q \in Seq(SUBSET Buffer), Apart(q), q # <<>>
    PROVE  /\ Tail(q) \in Seq(SUBSET Buffer) /\ Apart(Tail(q))
           /\ Head(q) \in SUBSET Buffer
           /\ UNION ToSet(q) = Head(q) \cup UNION ToSet(Tail(q))
           /\ Head(q) \cap UNION ToSet(Tail(q)) = {}
<1>1. /\ Tail(q) \in Seq(SUBSET Buffer) /\ Len(Tail(q)) = Len(q) - 1
      /\ \A i \in 1..Len(Tail(q)) : Tail(q)[i] = q[i + 1]
      /\ Head(q) = q[1] /\ Head(q) \in SUBSET Buffer
    BY HeadTailProperties
<1>2. /\ Len(q) \in Nat \ {0} /\ DOMAIN q = 1..Len(q) /\ DOMAIN Tail(q) = 1..Len(Tail(q))
    BY <1>1, LenProperties, EmptySeq
<1>3. Apart(Tail(q))
    BY <1>1, <1>2 DEF Apart
<1>4. UNION ToSet(q) = Head(q) \cup UNION ToSet(Tail(q))
  <2>1. ASSUME NEW b \in UNION ToSet(q) PROVE b \in Head(q) \cup UNION ToSet(Tail(q))
    <3>1. PICK i \in 1..Len(q) : b \in q[i]
        BY <1>2 DEF ToSet
    <3>2. CASE i = 1
        BY <3>1, <3>2, <1>1
    <3>3. CASE i # 1
      <4>1. i - 1 \in DOMAIN Tail(q) /\ Tail(q)[i - 1] = q[i]
          BY <3>1, <3>3, <1>1, <1>2
      <4> QED BY <3>1, <4>1 DEF ToSet
    <3> QED BY <3>2, <3>3
  <2>2. ASSUME NEW b \in UNION ToSet(Tail(q)) PROVE b \in UNION ToSet(q)
    <3>1. PICK i \in DOMAIN Tail(q) : b \in Tail(q)[i]
        BY DEF ToSet
    <3>2. i + 1 \in DOMAIN q /\ q[i + 1] = Tail(q)[i]
        BY <3>1, <1>1, <1>2
    <3> QED BY <3>1, <3>2 DEF ToSet
  <2>3. ASSUME NEW b \in Head(q) PROVE b \in UNION ToSet(q)
      BY <1>1, <1>2, <2>3 DEF ToSet
  <2> QED BY <2>1, <2>2, <2>3
<1>5. ASSUME NEW b \in Head(q), b \in UNION ToSet(Tail(q)) PROVE FALSE
  <2>1. PICK i \in DOMAIN Tail(q) : b \in Tail(q)[i]
      BY <1>5 DEF ToSet
  <2>2. i + 1 \in DOMAIN q /\ q[i + 1] = Tail(q)[i] /\ i + 1 # 1 /\ 1 \in DOMAIN q
      BY <2>1, <1>1, <1>2
  <2>3. b \in q[1] /\ b \in q[i + 1]
      BY <2>1, <2>2, <1>1, <1>5
  <2> QED BY <2>2, <2>3 DEF Apart
<1> QED BY <1>1, <1>3, <1>4, <1>5

\* A set that is disjoint from a queue of disjoint sets can join it.
LEMMA AppendApart ==
    ASSUME NEW q \in Seq(SUBSET Buffer), Apart(q),
           NEW S \in SUBSET Buffer, S \cap UNION ToSet(q) = {}
    PROVE  /\ Append(q, S) \in Seq(SUBSET Buffer) /\ Apart(Append(q, S))
           /\ UNION ToSet(Append(q, S)) = S \cup UNION ToSet(q)
<1> DEFINE r == Append(q, S)
<1>1. /\ r \in Seq(SUBSET Buffer) /\ Len(r) = Len(q) + 1
      /\ \A i \in 1..Len(q) : r[i] = q[i]
      /\ r[Len(q) + 1] = S
    BY AppendProperties
<1>2. Len(q) \in Nat /\ DOMAIN q = 1..Len(q) /\ DOMAIN r = 1..(Len(q) + 1)
    BY <1>1, LenProperties
<1>3. \A i \in DOMAIN q : q[i] \subseteq UNION ToSet(q)
    BY DEF ToSet
<1> HIDE DEF r
<1>4. Apart(r)
  <2> SUFFICES ASSUME NEW i \in DOMAIN r, NEW j \in DOMAIN r, i # j
               PROVE  r[i] \cap r[j] = {}
      BY DEF Apart
  <2>1. CASE i \in DOMAIN q /\ j \in DOMAIN q
      BY <2>1, <1>1, <1>2 DEF Apart
  <2>2. CASE i = Len(q) + 1
    <3>1. j \in DOMAIN q
        BY <2>2, <1>2
    <3> QED BY <3>1, <2>2, <1>1, <1>2, <1>3
  <2>3. CASE j = Len(q) + 1
    <3>1. i \in DOMAIN q
        BY <2>3, <1>2
    <3> QED BY <3>1, <2>3, <1>1, <1>2, <1>3
  <2> QED BY <2>1, <2>2, <2>3, <1>2
<1>5. UNION ToSet(r) = S \cup UNION ToSet(q)
  <2>1. ASSUME NEW b \in UNION ToSet(r) PROVE b \in S \cup UNION ToSet(q)
    <3>1. PICK i \in DOMAIN r : b \in r[i]
        BY DEF ToSet
    <3>2. CASE i = Len(q) + 1
        BY <3>1, <3>2, <1>1
    <3>3. CASE i \in DOMAIN q
        BY <3>1, <3>3, <1>1, <1>2, <1>3
    <3> QED BY <3>2, <3>3, <1>2
  <2>2. ASSUME NEW b \in S \cup UNION ToSet(q) PROVE b \in UNION ToSet(r)
    <3>1. CASE b \in S
      <4>1. Len(q) + 1 \in DOMAIN r /\ b \in r[Len(q) + 1]
          BY <3>1, <1>1, <1>2
      <4> QED BY <4>1 DEF ToSet
    <3>2. CASE b \in UNION ToSet(q)
      <4>1. PICK i \in DOMAIN q : b \in q[i]
          BY <3>2 DEF ToSet
      <4>2. i \in DOMAIN r /\ b \in r[i]
          BY <4>1, <1>1, <1>2
      <4> QED BY <4>2 DEF ToSet
    <3> QED BY <3>1, <3>2, <2>2
  <2> QED BY <2>1, <2>2
<1> QED BY <1>1, <1>4, <1>5 DEF r

\* The buffers of a channel's commands follow its operations.
LEMMA LoadsSeq ==
    ASSUME NEW cs \in Seq(Command)
    PROVE  /\ Loads(cs) \in Seq(SUBSET Buffer) /\ Len(Loads(cs)) = Len(cs)
           /\ Loads(cs) # <<>> <=> cs # <<>>
           /\ \A i \in 1..Len(cs) : Loads(cs)[i] = ToSet(cs[i].bufs)
<1>1. Len(cs) \in Nat /\ DOMAIN cs = 1..Len(cs) /\ \A i \in 1..Len(cs) : cs[i] \in Command
    BY ElementOfSeq, LenProperties
<1>2. \A i \in 1..Len(cs) : ToSet(cs[i].bufs) \in SUBSET Buffer
    BY <1>1, DistinctCount DEF Command
<1>3. Loads(cs) = [i \in 1..Len(cs) |-> ToSet(cs[i].bufs)]
    BY <1>1 DEF Loads
<1>4. Loads(cs) \in Seq(SUBSET Buffer) /\ Len(Loads(cs)) = Len(cs)
    BY <1>1, <1>2, <1>3, IsASeq, LenProperties
<1> QED BY <1>1, <1>3, <1>4, EmptySeq

\* The buffers of the commands after the first one.
LEMMA LoadsTail ==
    ASSUME NEW cs \in Seq(Command), cs # <<>>
    PROVE  /\ Head(cs) \in Command /\ Tail(cs) \in Seq(Command)
           /\ Head(Loads(cs)) = ToSet(Head(cs).bufs)
           /\ Loads(Tail(cs)) = Tail(Loads(cs))
<1>1. /\ Head(cs) \in Command /\ Tail(cs) \in Seq(Command) /\ Len(Tail(cs)) = Len(cs) - 1
      /\ \A i \in 1..Len(Tail(cs)) : Tail(cs)[i] = cs[i + 1]
      /\ Head(cs) = cs[1] /\ Len(cs) \in Nat \ {0}
    BY HeadTailProperties, EmptySeq, LenProperties
<1>2. /\ Loads(cs) \in Seq(SUBSET Buffer) /\ Len(Loads(cs)) = Len(cs) /\ Loads(cs) # <<>>
      /\ \A i \in 1..Len(cs) : Loads(cs)[i] = ToSet(cs[i].bufs)
    BY LoadsSeq
<1>3. /\ Tail(Loads(cs)) \in Seq(SUBSET Buffer) /\ Len(Tail(Loads(cs))) = Len(cs) - 1
      /\ \A i \in 1..(Len(cs) - 1) : Tail(Loads(cs))[i] = Loads(cs)[i + 1]
      /\ Head(Loads(cs)) = Loads(cs)[1]
    BY <1>2, HeadTailProperties
<1>4. /\ Loads(Tail(cs)) \in Seq(SUBSET Buffer) /\ Len(Loads(Tail(cs))) = Len(cs) - 1
      /\ \A i \in 1..(Len(cs) - 1) : Loads(Tail(cs))[i] = ToSet(Tail(cs)[i].bufs)
    BY <1>1, LoadsSeq
<1>5. \A i \in 1..(Len(cs) - 1) : Loads(Tail(cs))[i] = Tail(Loads(cs))[i]
    BY <1>1, <1>2, <1>3, <1>4
<1>6. Loads(Tail(cs)) = Tail(Loads(cs))
    BY <1>3, <1>4, <1>5, SeqEqual
<1> QED BY <1>1, <1>2, <1>3, <1>6

\* The buffers of the commands with one more.
LEMMA LoadsAppend ==
    ASSUME NEW cs \in Seq(Command), NEW c \in Command
    PROVE  /\ Append(cs, c) \in Seq(Command)
           /\ Loads(Append(cs, c)) = Append(Loads(cs), ToSet(c.bufs))
<1>1. /\ Append(cs, c) \in Seq(Command) /\ Len(Append(cs, c)) = Len(cs) + 1
      /\ \A i \in 1..Len(cs) : Append(cs, c)[i] = cs[i]
      /\ Append(cs, c)[Len(cs) + 1] = c /\ Len(cs) \in Nat
    BY AppendProperties, LenProperties
<1>2. /\ Loads(cs) \in Seq(SUBSET Buffer) /\ Len(Loads(cs)) = Len(cs)
      /\ \A i \in 1..Len(cs) : Loads(cs)[i] = ToSet(cs[i].bufs)
    BY LoadsSeq
<1>3. ToSet(c.bufs) \in SUBSET Buffer
    BY DistinctCount DEF Command
<1>4. /\ Append(Loads(cs), ToSet(c.bufs)) \in Seq(SUBSET Buffer)
      /\ Len(Append(Loads(cs), ToSet(c.bufs))) = Len(cs) + 1
      /\ \A i \in 1..Len(cs) : Append(Loads(cs), ToSet(c.bufs))[i] = Loads(cs)[i]
      /\ Append(Loads(cs), ToSet(c.bufs))[Len(cs) + 1] = ToSet(c.bufs)
    BY <1>2, <1>3, AppendProperties
<1>5. /\ Loads(Append(cs, c)) \in Seq(SUBSET Buffer) /\ Len(Loads(Append(cs, c))) = Len(cs) + 1
      /\ \A i \in 1..(Len(cs) + 1) : Loads(Append(cs, c))[i] = ToSet(Append(cs, c)[i].bufs)
    BY <1>1, LoadsSeq
<1>6. \A i \in 1..(Len(cs) + 1) : Loads(Append(cs, c))[i] = Append(Loads(cs), ToSet(c.bufs))[i]
    BY <1>1, <1>2, <1>4, <1>5
<1>7. Loads(Append(cs, c)) = Append(Loads(cs), ToSet(c.bufs))
    BY <1>4, <1>5, <1>6, SeqEqual
<1> QED BY <1>1, <1>7

-----------------------------------------------------------------------------
(* Steps.                                                                  *)

\* The buffers Queued finds in a channel are those of its commands.
LEMMA QueuedLoads ==
    ASSUME NEW cs \in Seq(Command)
    PROVE  UNION {ToSet(cs[i].bufs) : i \in DOMAIN cs} = UNION ToSet(Loads(cs))
<1>1. ToSet(Loads(cs)) = {ToSet(cs[i].bufs) : i \in DOMAIN cs}
    BY DEF ToSet, Loads
<1> QED BY <1>1

\* A step of a thread that moves no buffer and leaves the counter alone.
LEMMA SameInv ==
    ASSUME Inv,
           UNCHANGED <<commands, rx_queue, held, batch, releasing, outstanding_buffers>>,
           pc' = "done" => pc = "done" \/ outstanding_buffers = 0,
           pc' = "deliver" \/ batch = {}
    PROVE  Inv'
<1>1. Places' /\ Leased' = Leased /\ LeaseExact'
    BY DEF Inv, Places, InCommands, InRxQueue, Leased, Queued, LeaseExact
<1>2. Leased \in SUBSET Buffer
    BY QueuedLoads, LoadsSeq, ElementOfSeq DEF Inv, Places, Leased, Queued, ToSet
<1>3. ASSUME outstanding_buffers = 0 PROVE Leased = {}
    BY <1>2, <1>3, SubsetFinite, FS_EmptySet DEF Inv, LeaseExact
<1> QED BY <1>1, <1>3 DEF Inv, SocketOutlivesBuffers

\* What is leased is in one of the four places.
LEMMA LeasedPlaces ==
    ASSUME Places
    PROVE  /\ Leased = held \cup batch \cup InCommands \cup InRxQueue
           /\ InCommands \in SUBSET Buffer /\ InRxQueue \in SUBSET Buffer
           /\ Leased \in SUBSET Buffer
<1>1. Queued = InCommands
    BY QueuedLoads DEF Places, Queued, InCommands
<1>2. InCommands \in SUBSET Buffer /\ InRxQueue \in SUBSET Buffer
    BY LoadsSeq, ElementOfSeq DEF Places, InCommands, InRxQueue, ToSet
<1> QED BY <1>1, <1>2 DEF Leased, InRxQueue, Places

\* The same of the next state.
LEMMA LeasedPlacesNext ==
    ASSUME Places'
    PROVE  Leased' = (held \cup batch \cup InCommands \cup InRxQueue)'
<1>1. Queued' = InCommands'
    BY QueuedLoads DEF Places, Queued, InCommands
<1> QED BY <1>1 DEF Leased, InRxQueue

\* The first command leaves the channel with its buffers.
LEMMA TakeCommand ==
    ASSUME Places, commands # <<>>, commands' = Tail(commands)
    PROVE  LET D == ToSet(Head(commands).bufs)
           IN  /\ commands' \in Seq(Command) /\ Apart(Loads(commands'))
               /\ Head(commands) \in Command
               /\ InCommands = D \cup InCommands' /\ D \cap InCommands' = {}
               /\ D \in SUBSET Buffer /\ Cardinality(D) = Len(Head(commands).bufs)
<1>1. commands \in Seq(Command) /\ Apart(Loads(commands))
    BY DEF Places
<1>2. /\ Head(commands) \in Command /\ Tail(commands) \in Seq(Command)
      /\ Head(Loads(commands)) = ToSet(Head(commands).bufs)
      /\ Loads(Tail(commands)) = Tail(Loads(commands))
    BY <1>1, LoadsTail
<1>3. Loads(commands) \in Seq(SUBSET Buffer) /\ Loads(commands) # <<>>
    BY <1>1, LoadsSeq
<1>4. /\ Apart(Tail(Loads(commands)))
      /\ UNION ToSet(Loads(commands))
           = Head(Loads(commands)) \cup UNION ToSet(Tail(Loads(commands)))
      /\ Head(Loads(commands)) \cap UNION ToSet(Tail(Loads(commands))) = {}
    BY <1>1, <1>3, TailApart
<1>5. InCommands' = UNION ToSet(Tail(Loads(commands)))
    BY <1>2 DEF InCommands
<1>6. /\ ToSet(Head(commands).bufs) \in SUBSET Buffer
      /\ Cardinality(ToSet(Head(commands).bufs)) = Len(Head(commands).bufs)
    BY <1>2, DistinctCount DEF Command
<1> QED BY <1>2, <1>4, <1>5, <1>6 DEF InCommands

\* Commands that are not sends carry no buffers.
LEMMA NoBufs ==
    ASSUME NEW c \in Command, c.op # "send"
    PROVE  ToSet(c.bufs) = {}
BY DEF Command, ToSet

\* Handling one command.
LEMMA CommandInv ==
    ASSUME Inv, HandleCommand, pc \notin {"deliver", "done"}, pc' # "done"
    PROVE  Inv'
<1> DEFINE c == Head(commands)
           D == ToSet(c.bufs)
<1>1. Places /\ batch = {} /\ releasing \in Nat /\ LeaseExact
    BY DEF Inv
<1>2. /\ commands # <<>> /\ commands' = Tail(commands)
      /\ UNCHANGED <<rx_queue, batch, releasing>>
    BY DEF HandleCommand
<1>3. /\ commands' \in Seq(Command) /\ Apart(Loads(commands')) /\ c \in Command
      /\ InCommands = D \cup InCommands' /\ D \cap InCommands' = {}
      /\ D \in SUBSET Buffer /\ Cardinality(D) = Len(c.bufs)
    BY <1>1, <1>2, TakeCommand
<1>4. InRxQueue' = InRxQueue /\ batch' = {}
    BY <1>1, <1>2 DEF InRxQueue
<1>5. /\ Leased = held \cup batch \cup InCommands \cup InRxQueue /\ Leased \in SUBSET Buffer
      /\ Cardinality(Leased) \in Nat
    BY <1>1, LeasedPlaces, SubsetFinite
<1> HIDE DEF c, D
<1>6. ASSUME c.op = "send", HandleSend(c) PROVE Inv'
  <2>1. UNCHANGED held /\ outstanding_buffers' = outstanding_buffers - Len(c.bufs)
      BY <1>6 DEF HandleSend
  <2>2. Places'
      BY <2>1, <1>1, <1>2, <1>3, <1>4 DEF Places
  <2>3. Leased' = Leased \ D /\ D \in SUBSET Leased
      BY <2>1, <2>2, <1>1, <1>3, <1>4, <1>5, LeasedPlacesNext DEF Places
  <2>4. Cardinality(Leased') = Cardinality(Leased) - Len(c.bufs)
      BY <2>3, <1>3, <1>5, Shrinks
  <2>5. LeaseExact'
      BY <2>1, <2>4, <1>1, <1>2, <1>3, <1>5, SubsetFinite DEF LeaseExact
  <2> QED BY <2>2, <2>5, <1>1, <1>2, <1>4 DEF Inv, SocketOutlivesBuffers
<1>7. ASSUME c.op = "allocate", HandleAllocate PROVE Inv'
  <2>1. D = {}
      BY <1>3, <1>7, NoBufs DEF D
  <2>2. PICK S \in SUBSET Pool :
             IF FirstAwaited
             THEN /\ held' = held \cup S
                  /\ outstanding_buffers' = outstanding_buffers + Cardinality(S)
             ELSE UNCHANGED <<held, outstanding_buffers>>
      BY <1>7 DEF HandleAllocate
  <2>3. S \in SUBSET Buffer /\ S \cap Leased = {} /\ Cardinality(S) \in Nat
      BY SubsetFinite DEF Pool
  <2>4. CASE FirstAwaited
    <3>1. held' = held \cup S /\ outstanding_buffers' = outstanding_buffers + Cardinality(S)
        BY <2>2, <2>4
    <3>2. Places'
        BY <3>1, <2>1, <2>3, <1>1, <1>2, <1>3, <1>4, <1>5 DEF Places
    <3>3. Leased' = Leased \cup S
        BY <3>1, <3>2, <2>1, <1>1, <1>3, <1>4, <1>5, LeasedPlacesNext
    <3>4. LeaseExact'
        BY <3>1, <3>3, <2>3, <1>1, <1>2, <1>5, Grows DEF LeaseExact
    <3> QED BY <3>2, <3>4, <1>1, <1>2, <1>4 DEF Inv, SocketOutlivesBuffers
  <2>5. CASE ~FirstAwaited
    <3>1. UNCHANGED <<held, outstanding_buffers>>
        BY <2>2, <2>5
    <3>2. Places'
        BY <3>1, <2>1, <1>1, <1>2, <1>3, <1>4 DEF Places
    <3>3. Leased' = Leased
        BY <3>1, <3>2, <2>1, <1>1, <1>3, <1>4, <1>5, LeasedPlacesNext
    <3> QED BY <3>1, <3>2, <3>3, <1>1, <1>2, <1>4 DEF Inv, LeaseExact, SocketOutlivesBuffers
  <2> QED BY <2>4, <2>5
<1>8. ASSUME c.op = "shutdown", HandleShutdown PROVE Inv'
  <2>1. D = {} /\ UNCHANGED <<held, outstanding_buffers>>
      BY <1>3, <1>8, NoBufs DEF D, HandleShutdown
  <2>2. Places'
      BY <2>1, <1>1, <1>2, <1>3, <1>4 DEF Places
  <2>3. Leased' = Leased
      BY <2>1, <2>2, <1>1, <1>3, <1>4, <1>5, LeasedPlacesNext
  <2> QED BY <2>1, <2>2, <2>3, <1>1, <1>2, <1>4 DEF Inv, LeaseExact, SocketOutlivesBuffers
<1> QED BY <1>6, <1>7, <1>8 DEF HandleCommand, c

\* The actor's poll of its command channel.
LEMMA TryRecvInv == ASSUME Inv, TryRecv PROVE Inv'
<1>1. pc = "commands" /\ batch = {}
    BY DEF TryRecv, Inv
<1>2. CASE HandleCommand /\ pc' = IF shutdown_requested' THEN "socket" ELSE "commands"
    BY <1>1, <1>2, CommandInv
<1>3. CASE Disconnected /\ pc' = "socket"
    BY <1>1, <1>3, SameInv DEF Disconnected, chan, app
<1>4. CASE UNCHANGED <<chan, loop, outstanding_buffers, app>> /\ pc' = "socket"
    BY <1>1, <1>4, SameInv DEF chan, loop, app
<1> QED BY <1>2, <1>3, <1>4 DEF TryRecv

\* The actor's wait for a command or for its socket.
LEMMA SelectInv == ASSUME Inv, Select PROVE Inv'
<1>1. pc = "select" /\ batch = {}
    BY DEF Select, SelectCommand, Readable, WaitFails, Inv
<1>2. CASE HandleCommand /\ pc' = "commands"
    BY <1>1, <1>2, CommandInv
<1>3. CASE Disconnected /\ pc' = "commands"
    BY <1>1, <1>3, SameInv DEF Disconnected, chan, app
<1>4. CASE UNCHANGED <<chan, loop, outstanding_buffers, app>> /\ pc' = "commands"
    BY <1>1, <1>4, SameInv DEF chan, loop, app
<1>5. CASE Fail /\ UNCHANGED <<chan, pending_tx, app>>
    BY <1>1, <1>5, SameInv DEF Fail, chan, app
<1> QED BY <1>2, <1>3, <1>4, <1>5 DEF Select, SelectCommand, Readable, WaitFails

\* A received batch gets its leases.
LEMMA SocketInv == ASSUME Inv, Socket PROVE Inv'
<1>1. Places /\ batch = {} /\ releasing \in Nat /\ LeaseExact /\ pc = "socket"
    BY DEF Inv, Socket
<1>2. UNCHANGED <<commands, rx_queue, held, releasing>>
    BY DEF Socket, chan, app
<1>3. PICK S \in SUBSET Pool :
          \/ Fail
          \/ /\ batch' = S
             /\ outstanding_buffers' = outstanding_buffers + Cardinality(S)
             /\ pc' = IF S = {} THEN "check" ELSE "deliver"
    BY DEF Socket
<1>4. CASE Fail
    BY <1>1, <1>2, <1>4, SameInv DEF Fail
<1>5. CASE /\ batch' = S
           /\ outstanding_buffers' = outstanding_buffers + Cardinality(S)
           /\ pc' = IF S = {} THEN "check" ELSE "deliver"
  <2>1. S \in SUBSET Buffer /\ S \cap Leased = {} /\ Cardinality(S) \in Nat
      BY SubsetFinite DEF Pool
  <2>2. /\ Leased = held \cup batch \cup InCommands \cup InRxQueue /\ Leased \in SUBSET Buffer
        /\ Cardinality(Leased) \in Nat
      BY <1>1, LeasedPlaces, SubsetFinite
  <2>3. InCommands' = InCommands /\ InRxQueue' = InRxQueue
      BY <1>2 DEF InCommands, InRxQueue
  <2>4. Places'
      BY <1>1, <1>2, <1>5, <2>1, <2>2, <2>3 DEF Places
  <2>5. Leased' = Leased \cup S
      BY <1>1, <1>2, <1>5, <2>2, <2>3, <2>4, LeasedPlacesNext
  <2>6. LeaseExact'
      BY <1>1, <1>2, <1>5, <2>1, <2>2, <2>5, Grows DEF LeaseExact
  <2> QED BY <1>1, <1>2, <1>5, <2>4, <2>6 DEF Inv, SocketOutlivesBuffers
<1> QED BY <1>3, <1>4, <1>5

\* The batch goes into the channel, or its leases are given back.
LEMMA DeliverInv == ASSUME Inv, Deliver PROVE Inv'
<1>1. Places /\ releasing \in Nat /\ LeaseExact
    BY DEF Inv
<1>2. pc' = "check" /\ batch' = {} /\ UNCHANGED <<commands, held, releasing>>
    BY DEF Deliver, app
<1>3. /\ Leased = held \cup batch \cup InCommands \cup InRxQueue /\ Leased \in SUBSET Buffer
      /\ batch \in SUBSET Buffer /\ Cardinality(Leased) \in Nat /\ Cardinality(batch) \in Nat
    BY <1>1, LeasedPlaces, SubsetFinite DEF Places
<1>4. InCommands' = InCommands
    BY <1>2 DEF InCommands
<1>5. CASE rx_queue' = Append(rx_queue, batch) /\ UNCHANGED outstanding_buffers
  <2>1. /\ rx_queue' \in Seq(SUBSET Buffer) /\ Apart(rx_queue')
        /\ InRxQueue' = batch \cup InRxQueue
      BY <1>1, <1>3, <1>5, AppendApart DEF Places, InRxQueue
  <2>2. Places'
      BY <1>1, <1>2, <1>4, <2>1 DEF Places
  <2>3. Leased' = Leased
      BY <1>2, <1>3, <1>4, <2>1, <2>2, LeasedPlacesNext
  <2> QED BY <1>1, <1>2, <1>5, <2>2, <2>3 DEF Inv, LeaseExact, SocketOutlivesBuffers
<1>6. CASE /\ outstanding_buffers' = outstanding_buffers - Cardinality(batch)
           /\ UNCHANGED rx_queue
  <2>1. InRxQueue' = InRxQueue
      BY <1>6 DEF InRxQueue
  <2>2. Places'
      BY <1>1, <1>2, <1>4, <1>6, <2>1 DEF Places
  <2>3. Leased' = Leased \ batch /\ batch \in SUBSET Leased
      BY <1>1, <1>2, <1>3, <1>4, <2>1, <2>2, LeasedPlacesNext DEF Places
  <2>4. Cardinality(Leased') = Cardinality(Leased) - Cardinality(batch)
      BY <1>3, <2>3, Shrinks
  <2>5. /\ outstanding_buffers = Cardinality(Leased) + releasing /\ releasing' = releasing
        /\ {Cardinality(Leased), Cardinality(batch), releasing} \subseteq Nat
      BY <1>1, <1>2, <1>3 DEF LeaseExact
  <2>6. LeaseExact'
      BY <1>6, <2>4, <2>5 DEF LeaseExact
  <2> QED BY <1>1, <1>2, <2>2, <2>6 DEF Inv, SocketOutlivesBuffers
<1> QED BY <1>5, <1>6 DEF Deliver

\* A command left in the channel when the task ends is discarded.
LEMMA DiscardInv == ASSUME Inv, Discard PROVE Inv'
<1> DEFINE D == ToSet(Head(commands).bufs)
<1>1. Places /\ batch = {} /\ releasing \in Nat /\ LeaseExact /\ pc = "discard"
    BY DEF Inv, Discard
<1>2. UNCHANGED <<rx_queue, batch, held, releasing>>
    BY DEF Discard, loop
<1>3. CASE commands = <<>> /\ pc' = "load" /\ UNCHANGED <<commands, outstanding_buffers>>
    BY <1>1, <1>2, <1>3, SameInv
<1>4. CASE /\ commands # <<>> /\ commands' = Tail(commands)
           /\ outstanding_buffers' = outstanding_buffers - Len(Head(commands).bufs)
           /\ UNCHANGED pc
  <2>1. /\ commands' \in Seq(Command) /\ Apart(Loads(commands'))
        /\ InCommands = D \cup InCommands' /\ D \cap InCommands' = {}
        /\ D \in SUBSET Buffer /\ Cardinality(D) = Len(Head(commands).bufs)
      BY <1>1, <1>4, TakeCommand
  <2>2. /\ Leased = held \cup batch \cup InCommands \cup InRxQueue /\ Leased \in SUBSET Buffer
        /\ Cardinality(Leased) \in Nat
      BY <1>1, LeasedPlaces, SubsetFinite
  <2>3. InRxQueue' = InRxQueue
      BY <1>2 DEF InRxQueue
  <2> HIDE DEF D
  <2>4. Places'
      BY <1>1, <1>2, <2>1, <2>3 DEF Places
  <2>5. Leased' = Leased \ D /\ D \in SUBSET Leased
      BY <1>1, <1>2, <2>1, <2>2, <2>3, <2>4, LeasedPlacesNext DEF Places
  <2>6. Cardinality(Leased') = Cardinality(Leased) - Cardinality(D)
      BY <2>1, <2>2, <2>5, Shrinks
  <2>7. LeaseExact'
      BY <1>1, <1>2, <1>4, <2>1, <2>2, <2>6, SubsetFinite DEF LeaseExact
  <2> QED BY <1>1, <1>2, <1>4, <2>4, <2>7 DEF Inv, SocketOutlivesBuffers
<1> QED BY <1>3, <1>4 DEF Discard

\* Every step of the actor.
LEMMA ActorInv == ASSUME Inv, Actor PROVE Inv'
<1>1. CASE Check
    BY <1>1, SameInv DEF Check, chan, app, Inv
<1>2. CASE Exit
    BY <1>2, SameInv DEF Exit, app, Inv
<1>3. CASE LoadOutstanding
    BY <1>3, SameInv DEF LoadOutstanding, chan, loop, app, Inv
<1>4. CASE Register
    BY <1>4, SameInv DEF Register, chan, loop, app, Inv
<1> QED BY <1>1, <1>2, <1>3, <1>4, TryRecvInv, SelectInv, SocketInv, DeliverInv, DiscardInv
        DEF Actor

-----------------------------------------------------------------------------

\* A command joins the channel; its buffers come from the application.
LEMMA SendOnInv ==
    ASSUME Inv, NEW c \in Command, SendOn(c),
           ToSet(c.bufs) \subseteq held, held' = held \ ToSet(c.bufs)
    PROVE  Inv'
<1> DEFINE D == ToSet(c.bufs)
<1>1. Places /\ releasing \in Nat /\ LeaseExact
    BY DEF Inv
<1>2. /\ commands' = Append(commands, c)
      /\ UNCHANGED <<rx_queue, batch, releasing, outstanding_buffers, pc>>
    BY DEF SendOn, loop
<1>3. /\ Leased = held \cup batch \cup InCommands \cup InRxQueue
      /\ commands \in Seq(Command) /\ Apart(Loads(commands)) /\ held \subseteq Buffer
      /\ held \cap InCommands = {}
    BY <1>1, LeasedPlaces DEF Places
<1>4. Loads(commands) \in Seq(SUBSET Buffer)
    BY <1>3, LoadsSeq
<1>5. /\ commands' \in Seq(Command) /\ Loads(commands') = Append(Loads(commands), D)
    BY <1>2, <1>3, LoadsAppend
<1>6. D \in SUBSET Buffer /\ D \cap UNION ToSet(Loads(commands)) = {}
    BY <1>3 DEF InCommands
<1>7. InRxQueue' = InRxQueue /\ D \subseteq held /\ held' = held \ D
    BY <1>2 DEF InRxQueue
<1> HIDE DEF D
<1>8. Apart(Loads(commands')) /\ InCommands' = D \cup InCommands
  <2>1. /\ Apart(Append(Loads(commands), D))
        /\ UNION ToSet(Append(Loads(commands), D)) = D \cup UNION ToSet(Loads(commands))
      BY <1>3, <1>4, <1>6, AppendApart
  <2> QED BY <1>5, <2>1 DEF InCommands
<1>9. Places'
    BY <1>1, <1>2, <1>5, <1>8, <1>7 DEF Places
<1>10. Leased' = Leased
    BY <1>2, <1>3, <1>8, <1>7, <1>9, LeasedPlacesNext
<1> QED BY <1>1, <1>2, <1>9, <1>10 DEF Inv, LeaseExact, SocketOutlivesBuffers

\* The application sends held buffers.
LEMMA SendTxInv == ASSUME Inv, SendTx PROVE Inv'
<1>1. PICK S \in SUBSET held : \E s \in SetToSeqs(S) :
          SendOn(SendCommand(s)) /\ held' = held \ S
    BY DEF SendTx
<1>2. PICK s \in SetToSeqs(S) : SendOn(SendCommand(s)) /\ held' = held \ S
    BY <1>1
<1>3. S \in SUBSET Buffer /\ IsFiniteSet(S) /\ Cardinality(S) \in Nat
    BY SubsetFinite DEF Inv, Places
<1>4. /\ s \in [1..Cardinality(S) -> S]
      /\ \A i, j \in 1..Cardinality(S) : i # j => s[i] # s[j]
    BY DEF SetToSeqs
<1>5. s \in Seq(Buffer) /\ Len(s) = Cardinality(S) /\ Distinct(s)
    BY <1>3, <1>4 DEF Distinct
<1>6. ToSet(s) \in SUBSET S /\ Cardinality(ToSet(s)) = Cardinality(S)
    BY <1>4, <1>5, DistinctCount DEF ToSet
<1>7. ToSet(s) = S
    BY <1>3, <1>6, FS_Subset
<1>8. SendCommand(s) \in Command /\ SendCommand(s).bufs = s
    BY <1>5 DEF SendCommand, Command
<1> QED BY <1>1, <1>2, <1>7, <1>8, SendOnInv

\* Allocations and shutdowns carry no buffers.
LEMMA EmptyCommandInv ==
    ASSUME Inv, SendOn(Allocate) \/ SendOn(Shutdown), UNCHANGED held
    PROVE  Inv'
<1>1. /\ Allocate \in Command /\ ToSet(Allocate.bufs) = {}
      /\ Shutdown \in Command /\ ToSet(Shutdown.bufs) = {}
    BY EmptySeq DEF Allocate, Shutdown, Command, Distinct, ToSet
<1> QED BY <1>1, SendOnInv

\* The application takes a received batch.
LEMMA RecvBatchInv == ASSUME Inv, RecvBatch PROVE Inv'
<1>1. Places /\ releasing \in Nat /\ LeaseExact
    BY DEF Inv
<1>2. /\ rx_queue # <<>> /\ rx_queue' = Tail(rx_queue) /\ held' = held \cup Head(rx_queue)
      /\ UNCHANGED <<commands, batch, releasing, outstanding_buffers, pc>>
    BY DEF RecvBatch, loop
<1>3. /\ rx_queue' \in Seq(SUBSET Buffer) /\ Apart(rx_queue')
      /\ Head(rx_queue) \in SUBSET Buffer
      /\ InRxQueue = Head(rx_queue) \cup InRxQueue'
      /\ Head(rx_queue) \cap InRxQueue' = {}
    BY <1>1, <1>2, TailApart DEF Places, InRxQueue
<1>4. Leased = held \cup batch \cup InCommands \cup InRxQueue /\ InCommands' = InCommands
    BY <1>1, <1>2, LeasedPlaces DEF InCommands
<1>5. Places'
    BY <1>1, <1>2, <1>3, <1>4 DEF Places
<1>6. Leased' = Leased
    BY <1>2, <1>3, <1>4, <1>5, LeasedPlacesNext
<1> QED BY <1>1, <1>2, <1>5, <1>6 DEF Inv, LeaseExact, SocketOutlivesBuffers

\* Buffers dropped with the receiver, or one by one, are no longer leased but
\* still counted, until their threads have released them.
LEMMA DropRxInv == ASSUME Inv, DropRx PROVE Inv'
<1>1. Places /\ releasing \in Nat /\ LeaseExact
    BY DEF Inv
<1>2. /\ rx_queue' = <<>> /\ releasing' = releasing + Cardinality(InRxQueue)
      /\ UNCHANGED <<commands, batch, held, outstanding_buffers, pc>>
    BY DEF DropRx, loop, InRxQueue
<1>3. /\ Leased = held \cup batch \cup InCommands \cup InRxQueue /\ InCommands' = InCommands
      /\ InRxQueue \in SUBSET Buffer /\ Leased \in SUBSET Buffer
    BY <1>1, <1>2, LeasedPlaces DEF InCommands
<1>4. {Cardinality(InRxQueue), Cardinality(Leased), releasing} \subseteq Nat
    BY <1>1, <1>3, SubsetFinite
<1>5. rx_queue' \in Seq(SUBSET Buffer) /\ Apart(rx_queue') /\ InRxQueue' = {}
    BY <1>2, EmptySeq DEF Apart, InRxQueue, ToSet
<1>6. Places'
    BY <1>1, <1>2, <1>3, <1>5 DEF Places
<1>7. Leased' = Leased \ InRxQueue /\ InRxQueue \in SUBSET Leased
    BY <1>1, <1>2, <1>3, <1>5, <1>6, LeasedPlacesNext DEF Places
<1>8. Cardinality(Leased') = Cardinality(Leased) - Cardinality(InRxQueue)
    BY <1>3, <1>7, Shrinks
<1>9. outstanding_buffers' = Cardinality(Leased) + releasing
    BY <1>1, <1>2 DEF LeaseExact
<1>10. LeaseExact' /\ releasing' \in Nat
    BY <1>2, <1>4, <1>8, <1>9 DEF LeaseExact
<1> QED BY <1>2, <1>6, <1>7, <1>10 DEF Inv, SocketOutlivesBuffers

\* The application drops a buffer, which is released in a later step.
LEMMA DropBufferInv == ASSUME Inv, NEW b \in Buffer, DropBuffer(b) PROVE Inv'
<1>1. Places /\ releasing \in Nat /\ LeaseExact
    BY DEF Inv
<1>2. /\ b \in held /\ held' = held \ {b} /\ releasing' = releasing + 1
      /\ UNCHANGED <<commands, rx_queue, batch, outstanding_buffers, pc>>
    BY DEF DropBuffer, chan, loop
<1>3. /\ Leased = held \cup batch \cup InCommands \cup InRxQueue /\ Leased \in SUBSET Buffer
      /\ InCommands' = InCommands /\ InRxQueue' = InRxQueue
    BY <1>1, <1>2, LeasedPlaces DEF InCommands, InRxQueue
<1>4. Places'
    BY <1>1, <1>2, <1>3 DEF Places
<1>5. Leased' = Leased \ {b} /\ b \in Leased
    BY <1>1, <1>2, <1>3, <1>4, LeasedPlacesNext DEF Places
<1>6. Cardinality(Leased') = Cardinality(Leased) - 1 /\ Cardinality(Leased) \in Nat
    BY <1>3, <1>5, SubsetFinite, FS_RemoveElement
<1>7. outstanding_buffers' = Cardinality(Leased) + releasing
    BY <1>1, <1>2 DEF LeaseExact
<1>8. LeaseExact' /\ releasing' \in Nat
    BY <1>1, <1>2, <1>6, <1>7 DEF LeaseExact
<1> QED BY <1>2, <1>4, <1>5, <1>8 DEF Inv, SocketOutlivesBuffers

\* The destructor of a buffer decrements the counter.
LEMMA ReleaseInv == ASSUME Inv, Release PROVE Inv'
<1>1. /\ releasing \in Nat /\ releasing > 0 /\ releasing' = releasing - 1
      /\ outstanding_buffers = Cardinality(Leased) + releasing
      /\ outstanding_buffers' = outstanding_buffers - 1
      /\ UNCHANGED <<commands, rx_queue, held, batch, pc>>
    BY DEF Inv, LeaseExact, Release, chan, loop
<1>2. Places' /\ Leased' = Leased
    BY <1>1 DEF Inv, Places, InCommands, InRxQueue, Leased, Queued
<1>3. Cardinality(Leased) \in Nat
    BY LeasedPlaces, SubsetFinite DEF Inv
<1>4. LeaseExact' /\ releasing' \in Nat
    BY <1>1, <1>2, <1>3 DEF LeaseExact
<1> QED BY <1>1, <1>2, <1>4 DEF Inv, SocketOutlivesBuffers

\* Every step of the application.
LEMMA ApplicationInv == ASSUME Inv, Application PROVE Inv'
<1>1. CASE AllocTxBatch \/ RequestShutdown
    BY <1>1, EmptyCommandInv DEF AllocTxBatch, RequestShutdown
<1>2. CASE CancelAlloc
    BY <1>2, SameInv DEF CancelAlloc, chan, loop, Inv
<1>3. CASE DropHandles
    BY <1>3, SameInv DEF DropHandles, loop, app, Inv
<1>4. CASE NotifyWaiters
    BY <1>4, SameInv DEF NotifyWaiters, chan, loop, Inv
<1> QED BY <1>1, <1>2, <1>3, <1>4, SendTxInv, RecvBatchInv, DropRxInv, DropBufferInv, ReleaseInv
        DEF Application

-----------------------------------------------------------------------------

\* At the start nothing is leased.
LEMMA InitInv == Init => Inv
<1> SUFFICES ASSUME Init PROVE Inv
    OBVIOUS
<1>1. commands \in Seq(Command) /\ rx_queue \in Seq(SUBSET Buffer)
    BY EmptySeq DEF Init
<1>2. Apart(Loads(commands)) /\ Apart(rx_queue) /\ InCommands = {} /\ InRxQueue = {}
    BY EmptySeq DEF Init, Apart, Loads, InCommands, InRxQueue, ToSet
<1>3. Places
    BY <1>1, <1>2 DEF Init, Places
<1>4. Leased = {}
    BY <1>2, <1>3, LeasedPlaces DEF Init
<1> QED BY <1>3, <1>4, FS_EmptySet DEF Init, Inv, LeaseExact, SocketOutlivesBuffers

\* The invariant is inductive.
LEMMA InvariantHolds == Spec => []Inv
<1>1. Inv /\ [Next]_vars => Inv'
  <2> SUFFICES ASSUME Inv, [Next]_vars PROVE Inv'
      OBVIOUS
  <2>1. CASE UNCHANGED vars
      BY <2>1, SameInv DEF vars, chan, loop, app, Inv
  <2> QED BY <2>1, ActorInv, ApplicationInv DEF Next
<1> QED BY <1>1, InitInv, PTL DEF Spec

\* The lease counter of the actor counts exactly the buffers that are lent out
\* and the wrappers whose destructor is still running, for any number of
\* buffers and any queue capacities.
THEOREM LeasesCounted == Spec => []LeaseExact
<1>1. Inv => LeaseExact
    BY DEF Inv
<1> QED BY <1>1, InvariantHolds, PTL

\* The actor task, which owns the socket and the memory of its buffers, ends
\* only when no buffer is in the application's hands or in a channel.
THEOREM SocketOutlives == Spec => []SocketOutlivesBuffers
<1>1. Inv => SocketOutlivesBuffers
    BY DEF Inv
<1> QED BY <1>1, InvariantHolds, PTL
=============================================================================
