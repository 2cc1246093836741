--------------------------- MODULE RegistryProof ----------------------------
(***************************************************************************)
(* The registry is exact: for any number of workers, interfaces and queues *)
(* and any factory, its entries, the attached programs and the handles     *)
(* agree.  The handles a thread has at each step are in XdpControlProof.   *)
(***************************************************************************)
EXTENDS XdpControlProof, FiniteSetTheorems

-----------------------------------------------------------------------------
(* Arc::strong_count.                                                      *)

\* The threads are finitely many, so handles can be counted.
LEMMA ThreadsFinite == IsFiniteSet(Threads)
<1>1. IsFiniteSet({Factory, Loner})
  <2>1. IsFiniteSet({Factory} \cup {Loner})
    BY FS_Singleton, FS_AddElement, Zenon
  <2> QED BY <2>1, {Factory, Loner} = {Factory} \cup {Loner}
<1> QED BY <1>1, FS_Union, ControlAssumption, Zenon DEF Threads

\* The handles on a program are finitely many.
LEMMA ReferencesFinite ==
    ASSUME TypeInv, NEW i \in Interfaces
    PROVE  IsFiniteSet(References(i)) /\ Cardinality(References(i)) \in Nat
<1> DEFINE Of(t) == {t} \X (1..handles[t][i])
           family == {Of(t) : t \in Threads}
<1>1. ASSUME NEW t \in Threads PROVE IsFiniteSet(Of(t))
  <2>1. handles[t][i] \in Nat
    BY DEF TypeInv
  <2>2. IsFiniteSet(1..handles[t][i])
    <3>1. \A n \in Nat : 1 \in Int /\ n \in Int
      OBVIOUS
    <3>2. \A n \in Nat : IsFiniteSet(1..n)
      BY <3>1, FS_Interval, Zenon
    <3> QED BY <2>1, <3>2
  <2>3. IsFiniteSet({t})
    BY FS_Singleton, Zenon
  <2> QED BY <2>2, <2>3, FS_Product, Zenon
<1>2. IsFiniteSet(family)
  <2> DEFINE f == [t \in Threads |-> Of(t)]
  <2>1. f \in Surjection(Threads, family)
    BY Zenon DEF Surjection
  <2> HIDE DEF f, family
  <2> QED BY <2>1, ThreadsFinite, FS_Surjection
<1>3. \A T \in family : IsFiniteSet(T)
  BY <1>1
<1>4. IsFiniteSet(UNION family)
  <2> HIDE DEF family
  <2> QED BY <1>2, <1>3, FS_UNION
<1> QED BY <1>4, FS_CardinalityType DEF References

\* There is one reference when u has one handle and nobody else has any.
LEMMA OneReference ==
    ASSUME TypeInv, NEW i \in Interfaces, NEW u \in Threads, handles[u][i] >= 1
    PROVE  /\ Cardinality(References(i)) >= 1
           /\ Cardinality(References(i)) = 1 <=>
                 handles[u][i] = 1 /\ \A t \in Threads : t # u => handles[t][i] = 0
<1> DEFINE R == References(i)
<1>0. \A t \in Threads : handles[t][i] \in Nat
  BY DEF TypeInv
<1>1. \A t \in Threads : \A k : <<t, k>> \in R <=> k \in 1..handles[t][i]
  BY DEF References
<1>2. \A x \in R : \E t \in Threads : \E k \in 1..handles[t][i] : x = <<t, k>>
  BY DEF References
<1>3. IsFiniteSet(R) /\ Cardinality(R) \in Nat
  BY ReferencesFinite
<1>4. <<u, 1>> \in R
  BY <1>0, <1>1
<1> HIDE DEF R
<1>5. Cardinality(R) # 0
  BY <1>3, <1>4, FS_EmptySet
<1>6. ASSUME Cardinality(R) = 1
      PROVE  handles[u][i] = 1 /\ \A t \in Threads : t # u => handles[t][i] = 0
  <2>1. R = {<<u, 1>>}
    BY <1>3, <1>4, <1>6, FS_Singleton
  <2>2. handles[u][i] = 1
    <3>1. 2 \notin 1..handles[u][i]
      BY <1>1, <2>1
    <3> QED BY <1>0, <3>1
  <2>3. ASSUME NEW t \in Threads, t # u PROVE handles[t][i] = 0
    <3>1. 1 \notin 1..handles[t][i]
      BY <1>1, <2>1, <2>3
    <3> QED BY <1>0, <3>1
  <2> QED BY <2>2, <2>3
<1>7. ASSUME handles[u][i] = 1, \A t \in Threads : t # u => handles[t][i] = 0
      PROVE  Cardinality(R) = 1
  <2>1. R = {<<u, 1>>}
    <3>1. ASSUME NEW x \in R PROVE x = <<u, 1>>
      <4>1. PICK t \in Threads : \E k \in 1..handles[t][i] : x = <<t, k>>
        BY <1>2
      <4>2. PICK k \in 1..handles[t][i] : x = <<t, k>>
        BY <4>1
      <4>3. t = u
        BY <1>7, <4>2
      <4> QED BY <1>7, <4>2, <4>3
    <3> QED BY <1>4, <3>1
  <2> QED BY <2>1, FS_Singleton, Zenon
<1> QED BY <1>3, <1>5, <1>6, <1>7 DEF R

\* The strong count is the registry's own reference and the handles.
LEMMA StrongCounts ==
    ASSUME NEW i
    PROVE  StrongCount(i) = (IF i \in registry THEN 1 ELSE 0) + Cardinality(References(i))
<1>1. CASE i \in registry
  <2>1. registry \cap {i} = {i}
    BY <1>1
  <2> QED BY <1>1, <2>1, FS_Singleton DEF StrongCount
<1>2. CASE i \notin registry
  <2>1. registry \cap {i} = {}
    BY <1>2
  <2> QED BY <1>2, <2>1, FS_EmptySet DEF StrongCount
<1> QED BY <1>1, <1>2

-----------------------------------------------------------------------------
(* The registry.                                                           *)

\* A step that keeps who uses an interface and whether it has a program
LEMMA KeepsRegistry ==
    ASSUME RegistryInv, Keeps, registry' = registry,
           \A t \in Threads : pc'[t] \in RegistryPcs => registry_lock' = {t},
           \A t \in Threads : \A i \in Interfaces :
              (handles'[t][i] > 0 <=> handles[t][i] > 0) /\ (Uses(t, i)' <=> Uses(t, i))
    PROVE  RegistryInv'
BY DEF RegistryInv, Keeps

\* A step outside the registry's scope keeps the registry exact.
LEMMA QuietRegistry ==
    ASSUME RegistryInv, NEW u \in Threads, Frame(u), Quiet(u)
    PROVE  RegistryInv'
<1>1. \A t \in Threads : \A i \in Interfaces : handles'[t][i] > 0 <=> handles[t][i] > 0
  BY DEF Quiet, Frame, Same
<1>2. \A t \in Threads : \A i \in Interfaces : Uses(t, i)' <=> Uses(t, i)
  BY <1>1 DEF Uses, Leaving, Quiet, Frame, Same, RegistryPcs
<1>3. \A t \in Threads : pc'[t] \in RegistryPcs => registry_lock' = {t}
  BY DEF RegistryInv, Quiet, Frame, Same
<1> QED BY <1>1, <1>2, <1>3, KeepsRegistry DEF Quiet

\* A thread that holds the registry mutex, or finds it free, is alone in it.
LEMMA Alone ==
    ASSUME RegistryInv, NEW u \in Threads, Frame(u), registry_lock = {} \/ pc[u] \in RegistryPcs
    PROVE  /\ \A t \in Threads : t # u =>
                 pc[t] \notin RegistryPcs /\ pc'[t] \notin RegistryPcs /\ handles'[t] = handles[t]
                 /\ \A i \in Interfaces : /\ Uses(t, i) <=> handles[t][i] > 0
                                          /\ Uses(t, i)' <=> handles[t][i] > 0
           /\ at'[u] = at[u] =>
                 \A i \in Interfaces :
                    /\ Uses(u, i) <=>
                         handles[u][i] > IF i = at[u] /\ pc[u] = "release_drop" THEN 1 ELSE 0
                    /\ Uses(u, i)' <=>
                         handles'[u][i] > IF i = at[u] /\ pc'[u] = "release_drop" THEN 1 ELSE 0
<1>1. \A t \in Threads : t # u => pc[t] \notin RegistryPcs /\ Same(t)
  BY DEF RegistryInv, Frame
<1>2. \A t \in Threads : t # u => pc'[t] \notin RegistryPcs /\ handles'[t] = handles[t]
  BY <1>1 DEF Same
<1> QED BY <1>1, <1>2 DEF Uses, Leaving, RegistryPcs

\* Taking the registry mutex keeps it exact.
LEMMA LockedRegistry ==
    ASSUME TypeInv, RegistryInv, NEW u \in Threads, Frame(u), LockRegistry(u)
    PROVE  RegistryInv'
<1>1. /\ pc[u] = "load" /\ registry_lock = {} /\ registry_lock' = {u} /\ pc'[u] = "get_or_load"
      /\ registry' = registry /\ program' = program /\ handles' = handles /\ at' = at
  BY DEF LockRegistry, Go, None, TypeInv
<1>2. Keeps
  BY <1>1, KeepsPrograms
<1> QED BY <1>1, <1>2, Alone, KeepsRegistry DEF RegistryPcs

\* get_or_load inserts an entry with the program it attached, or clones the
\* handle that is there, or fails and changes neither.
LEMMA LoadRegistry ==
    ASSUME TypeInv, RegistryInv, NEW u \in Threads, Frame(u), get_or_load(u)
    PROVE  RegistryInv'
<1>0. /\ at[u] \in Interfaces /\ DOMAIN pc = Threads /\ DOMAIN program = Interfaces
      /\ DOMAIN handles = Threads
      /\ \A t \in Threads : \A i \in Interfaces : handles[t][i] \in Nat
      /\ handles[u] \in [Interfaces -> Nat]
  BY DEF TypeInv
<1> DEFINE Loading == /\ handles' = [handles EXCEPT ![u][at[u]] = @ + 1]
                      /\ \/ at[u] \in registry /\ registry' = registry /\ program' = program
                         \/ /\ program[at[u]] = {} /\ registry' = registry \cup {at[u]}
                            /\ \E p : SetProgram(at[u], p)
           Failing == handles' = handles /\ registry' = registry /\ program' = program
<1>1. pc[u] = "get_or_load" /\ at' = at /\ pc'[u] \notin RegistryPcs
  BY <1>0, Zenon DEF get_or_load, Go, RegistryPcs
<1>2. Loading \/ Failing
  BY Zenon DEF get_or_load
<1>3. \A t \in Threads : pc'[t] \notin RegistryPcs
  BY <1>1, Alone DEF RegistryPcs
<1>4. \A t \in Threads : \A i \in Interfaces :
         (Uses(t, i) <=> handles[t][i] > 0) /\ (Uses(t, i)' <=> handles'[t][i] > 0)
  BY <1>1, Alone DEF RegistryPcs
<1>5. CASE Failing
  <2> Keeps
    BY <1>5, KeepsPrograms
  <2> QED BY <1>3, <1>4, <1>5, KeepsRegistry
<1>6. CASE Loading
  <2>1. \A t \in Threads : \A i \in Interfaces :
           handles'[t][i] > 0 <=> handles[t][i] > 0 \/ (t = u /\ i = at[u])
    BY <1>0, <1>6
  <2>2. \A i \in Interfaces : Single(program'[i])
    BY <1>0, <1>6 DEF SetProgram, RegistryInv, Single
  <2>3. at[u] \in registry => program[at[u]] # {}
    BY <1>0, <1>4 DEF RegistryInv
  <2>4. \A i \in Interfaces : /\ i \in registry' <=> i \in registry \/ i = at[u]
                              /\ program'[i] # {} <=> program[i] # {} \/ i = at[u]
    BY <1>0, <1>6, <2>3, Zenon DEF SetProgram
  <2> QED BY <1>3, <1>4, <2>1, <2>2, <2>4 DEF RegistryInv
<1> QED BY <1>2, <1>5, <1>6

\* u has the only handle on its interface.
Sole(u) == handles[u][at[u]] = 1 /\ \A t \in Threads : t # u => handles[t][at[u]] = 0

\* release removes the entry exactly for the last handle in use.
LEMMA CheckRegistry ==
    ASSUME TypeInv, ControlInv, RegistryInv, NEW u \in Threads, Frame(u), ReleaseCheck(u)
    PROVE  RegistryInv'
<1>0. /\ at[u] \in Interfaces
      /\ \A t \in Threads : \A i \in Interfaces : handles[t][i] \in Nat
  BY DEF TypeInv
<1>1. /\ pc[u] = "release" /\ registry_lock = {} /\ registry_lock' = {u} /\ pc'[u] = "release_drop"
      /\ registry' = (IF StrongCount(at[u]) = 2 THEN registry \ {at[u]} ELSE registry)
      /\ handles' = handles /\ program' = program /\ at' = at
  BY DEF ReleaseCheck, Go, None, TypeInv
<1>2. handles[u][at[u]] >= 1
  BY <1>1, HandleHeld DEF HandlePcs, ReleasePcs, Held
<1>3. /\ \A t \in Threads : t # u => pc'[t] \notin RegistryPcs
      /\ \A t \in Threads : \A i \in Interfaces :
            /\ Uses(t, i) <=> handles[t][i] > 0
            /\ Uses(t, i)' <=> handles[t][i] > IF t = u /\ i = at[u] THEN 1 ELSE 0
  BY <1>1, Alone
<1>4. at[u] \in registry
  <2>1. Uses(u, at[u])
    BY <1>0, <1>2, <1>3
  <2> QED BY <1>0, <2>1, Zenon DEF RegistryInv
<1>5. StrongCount(at[u]) = 2 <=> Sole(u)
  BY <1>0, <1>2, <1>4, ReferencesFinite, StrongCounts, OneReference DEF Sole
<1>6. \A i \in Interfaces : i \in registry' <=> \E t \in Threads : Uses(t, i)'
  <2>1. \A i \in Interfaces : i # at[u] => (i \in registry' <=> \E t \in Threads : Uses(t, i)')
    BY <1>1, <1>3 DEF RegistryInv
  <2>2. at[u] \in registry' <=> \E t \in Threads : Uses(t, at[u])'
    BY <1>0, <1>1, <1>2, <1>3, <1>4, <1>5 DEF Sole
  <2> QED BY <1>1, <2>1, <2>2
<1> QED BY <1>1, <1>3, <1>6 DEF RegistryInv

\* Dropping the handle detaches the program exactly with the last handle.
LEMMA DropRegistry ==
    ASSUME TypeInv, ControlInv, RegistryInv, NEW u \in Threads, Frame(u), ReleaseDrop(u)
    PROVE  RegistryInv'
<1>0. /\ at[u] \in Interfaces /\ DOMAIN pc = Threads /\ DOMAIN program = Interfaces
      /\ DOMAIN handles = Threads /\ handles[u] \in [Interfaces -> Nat]
      /\ \A t \in Threads : \A i \in Interfaces : handles[t][i] \in Nat
  BY DEF TypeInv
<1>1. /\ pc[u] = "release_drop"
      /\ handles' = [handles EXCEPT ![u][at[u]] = @ - 1]
      /\ program' = IF StrongCount(at[u]) = 1 THEN [program EXCEPT ![at[u]] = {}] ELSE program
      /\ registry' = registry /\ at' = at /\ pc'[u] = goto[u]
  BY <1>0 DEF ReleaseDrop, Go
<1>2. handles[u][at[u]] >= 1 /\ pc'[u] \notin RegistryPcs
  <2> goto[u] \in {"drop_lock", "close", "finish"}
    BY <1>1, Zenon DEF ControlInv, Supplied, Enough, ReleasePcs
  <2> QED BY <1>1, HandleHeld DEF HandlePcs, ReleasePcs, Held, RegistryPcs
<1>3. \A t \in Threads : \A i \in Interfaces :
        handles'[t][i] = IF t = u /\ i = at[u] THEN handles[t][i] - 1 ELSE handles[t][i]
  BY <1>0, <1>1
<1>4. /\ \A t \in Threads : pc'[t] \notin RegistryPcs
      /\ \A t \in Threads : \A i \in Interfaces :
            /\ Uses(t, i) <=> handles[t][i] > IF t = u /\ i = at[u] THEN 1 ELSE 0
            /\ Uses(t, i)' <=> handles'[t][i] > 0
  BY <1>1, <1>2, Alone DEF RegistryPcs
<1>5. \A t \in Threads : \A i \in Interfaces : Uses(t, i)' <=> Uses(t, i)
  BY <1>0, <1>3, <1>4
<1>6. StrongCount(at[u]) = 1 <=> Sole(u)
  <2> Sole(u) => at[u] \notin registry
    BY <1>0, <1>4 DEF RegistryInv, Sole
  <2> QED BY <1>0, <1>2, ReferencesFinite, StrongCounts, OneReference DEF Sole
<1>7. \A i \in Interfaces : Single(program'[i])
  BY <1>0, <1>1 DEF RegistryInv, Single
<1>8. \A i \in Interfaces : program'[i] # {} <=> \E t \in Threads : handles'[t][i] > 0
  <2>1. \A i \in Interfaces : i # at[u] =>
          (program'[i] # {} <=> \E t \in Threads : handles'[t][i] > 0)
    BY <1>0, <1>1, <1>3 DEF RegistryInv
  <2>2. Sole(u) <=> \A t \in Threads : ~(handles'[t][at[u]] > 0)
    BY <1>0, <1>2, <1>3 DEF Sole
  <2>3. program[at[u]] # {}
    BY <1>0, <1>2 DEF RegistryInv
  <2>4. program'[at[u]] # {} <=> \E t \in Threads : handles'[t][at[u]] > 0
    BY <1>0, <1>1, <1>6, <2>2, <2>3
  <2> QED BY <2>1, <2>4
<1> QED BY <1>1, <1>4, <1>5, <1>7, <1>8 DEF RegistryInv

\* The plans' handles are clones of handles the factory has.
LEMMA PlanRegistry ==
    ASSUME TypeInv, ControlInv, RegistryInv, Plan
    PROVE  RegistryInv'
<1>1. /\ Factory \in Threads /\ \A t \in Workers : pc[t] = "idle" /\ t # Factory
      /\ \A t \in Threads : handles[t] \in [Interfaces -> Nat]
  BY PlanLocal, ThreadKinds DEF ControlInv, FactoryControl, BuildPcs, FillPcs, TypeInv
<1>2. \A t \in Threads : \/ pc'[t] = pc[t] /\ at'[t] = at[t]
                         \/ pc'[t] \notin RegistryPcs /\ pc[t] \notin RegistryPcs
  BY <1>1, PlanLocal DEF RegistryPcs
<1>3. \A t \in Threads : \A i \in Interfaces :
        \/ handles'[t][i] = handles[t][i]
        \/ pc[t] = "idle" /\ t \in Workers /\ pc'[t] = "planned" /\ handles'[t][i] = 1
           /\ handles[Factory][i] > 0
  BY <1>1, PlanLocal
<1>4. ASSUME NEW i \in Interfaces
      PROVE  /\ (\E t \in Threads : Uses(t, i)') <=> (\E t \in Threads : Uses(t, i))
             /\ (\E t \in Threads : handles'[t][i] > 0) <=> (\E t \in Threads : handles[t][i] > 0)
  <2>1. handles[Factory][i] > 0 => handles'[Factory][i] > 0 /\ Uses(Factory, i) /\ Uses(Factory, i)'
    BY <1>1, <1>3, PlanLocal DEF Uses, Leaving
  <2>2. \A t \in Threads : handles'[t][i] = handles[t][i] => (Uses(t, i)' <=> Uses(t, i))
    BY <1>2 DEF Uses, Leaving, RegistryPcs
  <2> QED BY <1>1, <1>3, <2>1, <2>2
<1>5. \A t \in Threads : pc'[t] \in RegistryPcs => registry_lock' = {t}
  BY <1>2, PlanLocal DEF RegistryInv
<1> QED BY <1>4, <1>5, PlanLocal DEF RegistryInv

RegistryIInv == TypeInv /\ ControlInv /\ RegistryInv

\* Every step keeps the conjunction, which is the inductive invariant.
LEMMA RegistryStep ==
    ASSUME RegistryIInv, [Next]_vars
    PROVE  RegistryIInv'
<1> TypeInv /\ ControlInv /\ RegistryInv
  BY DEF RegistryIInv
<1>1. ASSUME NEW u \in Threads, Acts(u) PROVE RegistryIInv'
  <2>1. Frame(u) /\ (Quiet(u) \/ OnRegistry(u))
    BY <1>1, ActsAlone
  <2>2. RegistryInv'
    BY <2>1, QuietRegistry, LockedRegistry, LoadRegistry, CheckRegistry, DropRegistry DEF OnRegistry
  <2>3. DOMAIN program' = Interfaces
    <3> OnRegistry(u) => DOMAIN program' = DOMAIN program
      BY DEF OnRegistry, LockRegistry, get_or_load, ReleaseCheck, ReleaseDrop, SetProgram
    <3> QED BY <2>1 DEF Quiet, Keeps, TypeInv
  <2> QED BY <1>1, <2>1, <2>2, <2>3, ActsControl DEF RegistryIInv
<1>2. CASE Plan
  BY <1>2, PlanControl, PlanRegistry DEF RegistryIInv
<1>3. CASE FrameArrives \/ UNCHANGED vars
  <2>1. UNCHANGED <<build_vars, registry, registry_lock, program, pc, goto, at, handles, member>>
    BY <1>3 DEF FrameArrives, vars, locks, build_vars
  <2>2. builder' = builder /\ plans' = plans
    BY <2>1 DEF build_vars
  <2>3. \A t : Size(t)' = Size(t) /\ Held(t)' = Held(t)
    BY <2>1, <2>2 DEF Size, SocketQueues, Held
  <2>4. TypeInv'
    BY <2>1, <2>2 DEF TypeInv
  <2>5. RegistryInv'
    BY <2>1 DEF RegistryInv, Uses, Leaving
  <2>6. FactoryControl'
    <3> Loaded' <=> Loaded
      BY <2>1, <2>2 DEF Loaded, Claimed
    <3> FactoryControl
      BY DEF ControlInv
    <3> QED BY <2>1, <2>2 DEF FactoryControl
  <2>7. \A t \in Threads : Supplied(t)'
    BY <2>1, <2>3 DEF ControlInv, Supplied
  <2> QED BY <2>1, <2>2, <2>4, <2>5, <2>6, <2>7 DEF RegistryIInv, ControlInv
<1> QED BY <1>1, <1>2, <1>3, NextCases, Zenon

\* The registry is exact: RegistryExact holds in every reachable state.
THEOREM RegistryIsExact == Spec => []RegistryExact
<1>1. Init => RegistryIInv
  BY ControlInit DEF RegistryIInv
<1>2. RegistryIInv /\ [Next]_vars => RegistryIInv'
  BY RegistryStep
<1>3. RegistryIInv => RegistryExact
  <2> SUFFICES ASSUME TypeInv, RegistryInv PROVE RegistryExact
    BY DEF RegistryIInv
  <2>1. \A t \in Threads, i \in Interfaces : handles[t][i] \in Nat
    BY DEF TypeInv
  <2> SUFFICES ASSUME NEW i \in Interfaces
               PROVE  LET leaving == {t \in Threads : at[t] = i /\ pc[t] = "release_drop"}
                          users == {t \in Threads : handles[t][i] > IF t \in leaving THEN 1 ELSE 0}
                      IN /\ users # {} => i \in registry /\ program[i] # {}
                         /\ leaving = {} /\ users = {} => i \notin registry /\ program[i] = {}
    BY DEF RegistryExact
  <2>2. /\ i \in registry <=> \E t \in Threads : Uses(t, i)
        /\ program[i] # {} <=> \E t \in Threads : handles[t][i] > 0
    BY Zenon DEF RegistryInv
  <2>3. \A t \in Threads : Uses(t, i) => handles[t][i] > 0
    BY <2>1 DEF Uses
  <2> QED BY <2>2, <2>3 DEF Uses, Leaving
<1> QED BY <1>1, <1>2, <1>3, PTL DEF Spec
=============================================================================
