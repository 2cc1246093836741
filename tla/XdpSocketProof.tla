--------------------------- MODULE XdpSocketProof ---------------------------
(***************************************************************************)
(* Proofs about XdpSocket for any number of members, frames and ring       *)
(* sizes.  Every operation is a composition of moves of frames from one    *)
(* place to another, so the proofs are about moves: Good(fr) says that fr  *)
(* partitions the frames and keeps the two halves apart, and a move of     *)
(* frames that are where it takes them from, to a place their half may be, *)
(* preserves it.                                                           *)
(***************************************************************************)
EXTENDS XdpSocket, FiniteSetTheorems, TLAPS

Allowed(k, f) == (k \in RxOnly => IsRx(f)) /\ (k \in TxOnly => ~IsRx(f))

Good(fr) ==
    /\ fr \in [Place -> SUBSET Frame]
    /\ \A f \in Frame : \E p \in Place : f \in fr[p]
    /\ \A p, q \in Place : p # q => fr[p] \cap fr[q] = {}
    /\ \A p \in Place : \A f \in fr[p] : Allowed(p[1], f)

\* Good is the invariants' statement about the assignment of frames.
LEMMA GoodFrames ==
    Good(frames) <=> /\ frames \in [Place -> SUBSET Frame]
                     /\ FrameConservation /\ ClassSeparation
<1>1. ASSUME \A p \in Place : \A f \in frames[p] : Allowed(p[1], f)
      PROVE  ClassSeparation
  <2> SUFFICES ASSUME NEW m \in Member
               PROVE  /\ \A k \in RxOnly : \A f \in frames[<<k, m>>] : IsRx(f)
                      /\ \A k \in TxOnly : \A f \in frames[<<k, m>>] : ~IsRx(f)
    BY DEF ClassSeparation
  <2>1. ASSUME NEW k \in RxOnly \cup TxOnly, NEW f \in frames[<<k, m>>]
        PROVE  Allowed(k, f)
    <3>1. <<k, m>> \in Place
        BY DEF Place, Kind, RxOnly, TxOnly
    <3>2. Allowed(<<k, m>>[1], f)
        BY <3>1, <2>1, <1>1
    <3> QED BY <3>2
  <2> QED BY <2>1 DEF Allowed
<1>2. ASSUME ClassSeparation, NEW p \in Place, NEW f \in frames[p]
      PROVE  Allowed(p[1], f)
  <2>1. p = <<p[1], p[2]>> /\ p[2] \in Member
    BY DEF Place
  <2> QED BY <1>2, <2>1 DEF Allowed, ClassSeparation
<1> QED BY <1>1, <1>2 DEF Good, FrameConservation

\* What a move does to each place.
LEMMA MoveAt ==
    ASSUME NEW fr, fr \in [Place -> SUBSET Frame], NEW S,
           NEW p \in Place, NEW q \in Place, p # q
    PROVE  /\ Move(fr, S, p, q)[p] = fr[p] \ S
           /\ Move(fr, S, p, q)[q] = fr[q] \cup S
           /\ \A r \in Place : r # p /\ r # q => Move(fr, S, p, q)[r] = fr[r]
           /\ DOMAIN Move(fr, S, p, q) = Place
BY DEF Move

\* A move keeps the frames partitioned and the halves apart.
LEMMA MoveGood ==
    ASSUME NEW fr, Good(fr), NEW p \in Place, NEW q \in Place, p # q,
           NEW S, S \subseteq fr[p], \A f \in S : Allowed(q[1], f)
    PROVE  Good(Move(fr, S, p, q))
<1> DEFINE gr == Move(fr, S, p, q)
<1>1. fr \in [Place -> SUBSET Frame] /\ S \subseteq Frame
    BY DEF Good
<1>2. /\ gr[p] = fr[p] \ S
      /\ gr[q] = fr[q] \cup S
      /\ \A r \in Place : r # p /\ r # q => gr[r] = fr[r]
    BY <1>1, MoveAt
<1>3. gr \in [Place -> SUBSET Frame]
    BY <1>1 DEF Move
<1> HIDE DEF gr
<1>4. ASSUME NEW f \in Frame PROVE \E r \in Place : f \in gr[r]
    BY <1>2 DEF Good
<1>5. ASSUME NEW r \in Place, NEW t \in Place, r # t
      PROVE  gr[r] \cap gr[t] = {}
  <2>1. fr[r] \cap fr[t] = {} /\ fr[p] \cap fr[q] = {}
    BY <1>5 DEF Good
  <2>2. \A u \in Place : u # p => fr[u] \cap S = {}
    BY DEF Good
  <2> QED BY <1>2, <1>5, <2>1, <2>2
<1>6. ASSUME NEW r \in Place, NEW f \in gr[r] PROVE Allowed(r[1], f)
    BY <1>2, <1>6 DEF Good
<1>7. Good(gr)
    BY <1>3, <1>4, <1>5, <1>6 DEF Good
<1> QED BY <1>7 DEF gr

\* Draining the completions sorts the frames into the lists of their halves.
LEMMA ReclaimedGood ==
    ASSUME NEW fr, Good(fr), NEW m \in Member
    PROVE  /\ Good(Reclaimed(fr, m))
           /\ Reclaimed(fr, m)[<<"comp", m>>] = {}
           /\ \A p \in Place : p[1] \notin {"comp", "rx_free", "tx_free"} \/ p[2] # m
                                 => Reclaimed(fr, m)[p] = fr[p]
<1> DEFINE c == <<"comp", m>>
           r == <<"rx_free", m>>
           t == <<"tx_free", m>>
           R == CompletedRx(fr, m)
           T == CompletedTx(fr, m)
           g1 == Move(fr, R, c, r)
           g2 == Move(g1, T, c, t)
<1>1. c \in Place /\ r \in Place /\ t \in Place /\ c # r /\ c # t /\ r # t
    BY DEF Place, Kind
<1>2. R \subseteq fr[c] /\ T = fr[c] \ R
      /\ (\A f \in R : IsRx(f)) /\ (\A f \in T : ~IsRx(f))
    BY DEF CompletedRx, CompletedTx
<1>3. (\A f \in R : Allowed(r[1], f)) /\ (\A f \in T : Allowed(t[1], f))
    BY <1>2 DEF Allowed, RxOnly, TxOnly
<1>4. fr \in [Place -> SUBSET Frame]
    BY DEF Good
<1> HIDE DEF c, r, t, R, T
<1>5. Good(g1)
    BY <1>1, <1>2, <1>3, MoveGood
<1>6. g1[c] = fr[c] \ R /\ g1[t] = fr[t]
      /\ \A p \in Place : p # c /\ p # r => g1[p] = fr[p]
    BY <1>1, <1>4 DEF Move
<1>7. T \subseteq g1[c]
    BY <1>2, <1>6
<1>8. g1 \in [Place -> SUBSET Frame]
    BY <1>5 DEF Good
<1> HIDE DEF g1
<1>9. Good(g2)
    BY <1>1, <1>3, <1>5, <1>7, MoveGood
<1>10. g2[c] = g1[c] \ T
       /\ \A p \in Place : p # c /\ p # t => g2[p] = g1[p]
    BY <1>1, <1>8 DEF Move
<1>11. g2[c] = {}
    BY <1>2, <1>6, <1>10
<1>12. ASSUME NEW p \in Place,
              p[1] \notin {"comp", "rx_free", "tx_free"} \/ p[2] # m
       PROVE  g2[p] = fr[p]
  <2>1. p # c /\ p # r /\ p # t
    BY <1>12 DEF c, r, t
  <2> QED BY <2>1, <1>6, <1>10
<1> QED BY <1>9, <1>11, <1>12 DEF Reclaimed, g1, c, r, t, R, T
\* How a step relates two assignments: it takes nothing from the kernel, and
\* it leaves the rings of the transmit path alone.
Keeps(fr, gr) ==
    \A p \in Place : p[1] \in {"fill", "krx", "tx", "ktx"} => fr[p] \subseteq gr[p]
SameTxPath(fr, gr) ==
    \A p \in Place : p[1] \in {"tx", "ktx", "comp"} => gr[p] = fr[p]

\* Moves between places off the transmit path, none taken from the kernel.
LEMMA UserMove ==
    ASSUME NEW fr, Good(fr), NEW m \in Member, NEW S,
           NEW a \in {"rx_free", "rx_remote", "tx_free", "tx_remote", "rx",
                      "app_rx", "app_tx"},
           NEW b \in RxOnly \cup TxOnly, a # b,
           S \subseteq fr[<<a, m>>],
           \/ a \in RxOnly /\ b \in RxOnly
           \/ a \in TxOnly /\ b \in TxOnly
    PROVE  LET gr == Move(fr, S, <<a, m>>, <<b, m>>)
           IN Good(gr) /\ Keeps(fr, gr) /\ SameTxPath(fr, gr)
<1> DEFINE p == <<a, m>>
           q == <<b, m>>
           gr == Move(fr, S, p, q)
<1>1. p \in Place /\ q \in Place /\ p # q /\ p[1] = a /\ q[1] = b
    BY DEF Place, Kind, RxOnly, TxOnly
<1>2. \A f \in S : Allowed(a, f)
    BY <1>1 DEF Good
<1>3. \A f \in S : Allowed(q[1], f)
    BY <1>1, <1>2 DEF Allowed, RxOnly, TxOnly
<1>4. fr \in [Place -> SUBSET Frame]
    BY DEF Good
<1>5. b \notin {"tx", "ktx", "comp"}
    BY DEF RxOnly, TxOnly
<1> HIDE DEF p, q
<1>6. Good(gr)
    BY <1>1, <1>3, MoveGood DEF p
<1>7. /\ gr[q] = fr[q] \cup S
      /\ \A r \in Place : r # p /\ r # q => gr[r] = fr[r]
    BY <1>1, <1>4 DEF Move
<1> HIDE DEF gr
<1>8. Keeps(fr, gr)
  <2> SUFFICES ASSUME NEW r \in Place, r[1] \in {"fill", "krx", "tx", "ktx"}
               PROVE  fr[r] \subseteq gr[r]
    BY DEF Keeps
  <2>1. r # p
    BY <1>1
  <2> QED BY <2>1, <1>7
<1>9. SameTxPath(fr, gr)
  <2> SUFFICES ASSUME NEW r \in Place, r[1] \in {"tx", "ktx", "comp"}
               PROVE  gr[r] = fr[r]
    BY DEF SameTxPath
  <2>1. r # p /\ r # q
    BY <1>1, <1>5
  <2> QED BY <2>1, <1>7
<1> QED BY <1>6, <1>8, <1>9 DEF gr, p, q

\* Two steps in a row.
LEMMA Chain ==
    ASSUME NEW fr, NEW gr, NEW hr
    PROVE  /\ Keeps(fr, fr) /\ SameTxPath(fr, fr)
           /\ Keeps(fr, gr) /\ Keeps(gr, hr) => Keeps(fr, hr)
           /\ SameTxPath(fr, gr) /\ SameTxPath(gr, hr) => SameTxPath(fr, hr)
<1>1. Keeps(fr, fr) /\ SameTxPath(fr, fr)
    BY DEF Keeps, SameTxPath
<1>2. ASSUME Keeps(fr, gr), Keeps(gr, hr) PROVE Keeps(fr, hr)
    BY <1>2 DEF Keeps
<1>3. ASSUME SameTxPath(fr, gr), SameTxPath(gr, hr) PROVE SameTxPath(fr, hr)
    BY <1>3 DEF SameTxPath
<1> QED BY <1>1, <1>2, <1>3

\* The remote queue's frames join the TX free list.
LEMMA PooledGood ==
    ASSUME NEW fr, Good(fr), NEW m \in Member, NEW max
    PROVE  LET gr == Pooled(fr, m, max)
           IN Good(gr) /\ Keeps(fr, gr) /\ SameTxPath(fr, gr)
<1>1. LET gr == Move(fr, fr[<<"tx_remote", m>>], <<"tx_remote", m>>, <<"tx_free", m>>)
      IN Good(gr) /\ Keeps(fr, gr) /\ SameTxPath(fr, gr)
  <2>1. "tx_remote" \in TxOnly /\ "tx_free" \in TxOnly
    BY DEF TxOnly
  <2> QED BY <2>1, UserMove
<1>2. Keeps(fr, fr) /\ SameTxPath(fr, fr)
    BY Chain
<1> QED BY <1>1, <1>2 DEF Pooled

\* Frames popped from the TX free list become the application's.
LEMMA PopGood ==
    ASSUME NEW fr, Good(fr), NEW m \in Member, NEW max,
           NEW S \in PoppedSets(fr, m, max)
    PROVE  LET gr == Move(fr, S, <<"tx_free", m>>, <<"app_tx", m>>)
           IN Good(gr) /\ Keeps(fr, gr) /\ SameTxPath(fr, gr)
<1>1. S \subseteq fr[<<"tx_free", m>>]
    BY DEF PoppedSets
<1>2. "tx_free" \in TxOnly /\ "app_tx" \in TxOnly
    BY DEF TxOnly
<1> QED BY <1>1, <1>2, UserMove

\* Reclaimed frames go back to the FILL ring as far as they fit.
LEMMA ReplenishedGood ==
    ASSUME NEW fr, Good(fr), NEW m \in Member, NEW W,
           W \subseteq Refillable(fr, m)
    PROVE  LET gr == Replenished(fr, m, W)
           IN Good(gr) /\ Keeps(fr, gr) /\ SameTxPath(fr, gr)
<1> DEFINE g1 == Move(fr, fr[<<"rx_remote", m>>], <<"rx_remote", m>>, <<"rx_free", m>>)
           g2 == Move(g1, W, <<"rx_free", m>>, <<"fill", m>>)
<1>1. "rx_remote" \in RxOnly /\ "rx_free" \in RxOnly /\ "fill" \in RxOnly
    BY DEF RxOnly
<1>2. Good(g1) /\ Keeps(fr, g1) /\ SameTxPath(fr, g1)
    BY <1>1, UserMove
<1>3. W \subseteq g1[<<"rx_free", m>>]
  <2>1. <<"rx_remote", m>> \in Place /\ <<"rx_free", m>> \in Place
        /\ <<"rx_remote", m>> # <<"rx_free", m>>
    BY DEF Place, Kind
  <2>2. fr \in [Place -> SUBSET Frame]
    BY DEF Good
  <2> QED BY <2>1, <2>2 DEF Move, Refillable
<1> HIDE DEF g1
<1>4. Good(g2) /\ Keeps(g1, g2) /\ SameTxPath(g1, g2)
    BY <1>1, <1>2, <1>3, UserMove
<1> HIDE DEF g2
<1>5. Keeps(fr, g2) /\ SameTxPath(fr, g2)
    BY <1>2, <1>4, Chain
<1> QED BY <1>4, <1>5 DEF Replenished, g1, g2
\* A drain empties the member's COMPLETION ring and leaves the rest of the
\* transmit path alone.
Drains(fr, gr, m) ==
    \A p \in Place : p[1] \in {"tx", "ktx", "comp"} =>
        gr[p] = IF p = <<"comp", m>> THEN {} ELSE fr[p]

\* Draining takes nothing from the kernel.
LEMMA ReclaimedDrains ==
    ASSUME NEW fr, Good(fr), NEW m \in Member
    PROVE  LET gr == Reclaimed(fr, m)
           IN Good(gr) /\ Keeps(fr, gr) /\ Drains(fr, gr, m)
<1> DEFINE gr == Reclaimed(fr, m)
<1>1. /\ Good(gr)
      /\ gr[<<"comp", m>>] = {}
      /\ \A p \in Place : p[1] \notin {"comp", "rx_free", "tx_free"} \/ p[2] # m
                            => gr[p] = fr[p]
    BY ReclaimedGood
<1> HIDE DEF gr
<1>2. Keeps(fr, gr)
    BY <1>1 DEF Keeps
<1>3. ASSUME NEW p \in Place, p[1] \in {"tx", "ktx", "comp"}
      PROVE  gr[p] = IF p = <<"comp", m>> THEN {} ELSE fr[p]
  <2>1. p = <<p[1], p[2]>>
    BY DEF Place
  <2> QED BY <1>1, <1>3, <2>1, ZenonT(60)
<1> QED BY <1>1, <1>2, <1>3 DEF Drains, gr

\* A drain before or after steps off the transmit path, or a second drain.
LEMMA DrainChain ==
    ASSUME NEW fr, NEW gr, NEW hr, NEW m
    PROVE  /\ Drains(fr, gr, m) /\ SameTxPath(gr, hr) => Drains(fr, hr, m)
           /\ SameTxPath(fr, gr) /\ Drains(gr, hr, m) => Drains(fr, hr, m)
           /\ Drains(fr, gr, m) /\ Drains(gr, hr, m) => Drains(fr, hr, m)
<1>1. ASSUME Drains(fr, gr, m), SameTxPath(gr, hr) PROVE Drains(fr, hr, m)
    BY <1>1 DEF Drains, SameTxPath
<1>2. ASSUME SameTxPath(fr, gr), Drains(gr, hr, m) PROVE Drains(fr, hr, m)
    BY <1>2 DEF Drains, SameTxPath
<1>3. ASSUME Drains(fr, gr, m), Drains(gr, hr, m) PROVE Drains(fr, hr, m)
    BY <1>3 DEF Drains
<1> QED BY <1>1, <1>2, <1>3

\* Submitted buffers leave the application's hands for the TX ring.
LEMMA SubmittedGood ==
    ASSUME NEW fr, Good(fr), NEW m \in Member, NEW S, S \subseteq AppHeld(fr)
    PROVE  LET gr == Submitted(fr, S, m)
           IN /\ Good(gr) /\ Keeps(fr, gr)
              /\ fr[<<"tx", m>>] \cap S = {}
              /\ \A p \in Place : p[1] \in {"tx", "ktx", "comp"} =>
                    gr[p] = IF p = <<"tx", m>> THEN fr[p] \cup S ELSE fr[p]
<1> DEFINE t == <<"tx", m>>
           gr == Submitted(fr, S, m)
<1>1. t \in Place /\ t \notin AppPlace /\ AppPlace \subseteq Place
    BY DEF Place, Kind, AppPlace
<1>2. fr \in [Place -> SUBSET Frame] /\ S \subseteq Frame
    BY <1>1 DEF Good, AppHeld
<1>3. /\ \A p \in AppPlace : gr[p] = fr[p] \ S
      /\ gr[t] = fr[t] \cup S
      /\ \A p \in Place : p \notin AppPlace /\ p # t => gr[p] = fr[p]
    BY <1>1 DEF Submitted
<1>4. gr \in [Place -> SUBSET Frame]
    BY <1>2 DEF Submitted
<1>5. \A p \in Place : p \notin AppPlace => fr[p] \cap S = {}
    BY <1>1 DEF Good, AppHeld
<1>6. \A p \in Place : p[1] \in {"fill", "krx", "tx", "ktx", "comp"} => p \notin AppPlace
    BY DEF AppPlace
<1> HIDE DEF t, gr
<1>7. ASSUME NEW f \in Frame PROVE \E p \in Place : f \in gr[p]
    BY <1>1, <1>3 DEF Good
<1>8. ASSUME NEW p \in Place, NEW q \in Place, p # q
      PROVE  gr[p] \cap gr[q] = {}
  <2>1. fr[p] \cap fr[q] = {}
    BY <1>8 DEF Good
  <2> QED BY <1>1, <1>3, <1>5, <1>8, <2>1
<1>9. ASSUME NEW p \in Place, NEW f \in gr[p] PROVE Allowed(p[1], f)
  <2>1. CASE p = t
    BY <2>1 DEF t, Allowed, RxOnly, TxOnly
  <2>2. CASE p # t
    BY <2>2, <1>1, <1>3, <1>9 DEF Good
  <2> QED BY <2>1, <2>2
<1>10. Good(gr)
    BY <1>4, <1>7, <1>8, <1>9 DEF Good
<1>11. \A p \in Place : p[1] \in {"fill", "krx", "tx", "ktx", "comp"} =>
            gr[p] = IF p = t THEN fr[p] \cup S ELSE fr[p]
    BY <1>3, <1>6, ZenonT(60)
<1>12. Keeps(fr, gr)
    BY <1>11, ZenonT(60) DEF Keeps
<1> QED BY <1>1, <1>5, <1>10, <1>11, <1>12 DEF gr, t

-----------------------------------------------------------------------------

\* The places of the transmit path.
LEMMA PathPlaces ==
    ASSUME NEW m \in Member
    PROVE  /\ <<"tx", m>> \in Place /\ <<"ktx", m>> \in Place
           /\ <<"comp", m>> \in Place
           /\ <<"tx", m>>[1] = "tx" /\ <<"ktx", m>>[1] = "ktx"
           /\ <<"comp", m>>[1] = "comp"
BY DEF Place, Kind

\* Every place holds finitely many frames.
LEMMA FiniteFrames ==
    ASSUME NEW fr, fr \in [Place -> SUBSET Frame], NEW p \in Place
    PROVE  /\ IsFiniteSet(fr[p]) /\ Size(fr, p) \in Nat
           /\ \A S \in SUBSET fr[p] : IsFiniteSet(S) /\ Cardinality(S) \in Nat
<1>1. Members * FrameCount - 1 \in Int
    BY XdpAssumption
<1>2. IsFiniteSet(Frame)
    BY <1>1, FS_Interval DEF Frame
<1>3. \A S \in SUBSET Frame : IsFiniteSet(S)
    BY <1>2, FS_Subset
<1> QED BY <1>3, FS_CardinalityType DEF Size
Inv == TypeOK /\ Good(frames) /\ InFlightExact

\* Vector growth.
LEMMA GrowNat ==
    ASSUME NEW cap \in Nat, NEW n \in Nat
    PROVE  Grow(cap, n) \in Nat /\ Grow(cap, n) >= cap
BY DEF Grow, Larger

\* The parts of the invariant that an operation's effect on the capacities,
\* the counters and the assignment of frames establish.
LEMMA InvParts ==
    ASSUME Good(frames'), InFlightExact',
           rx_cap' \in [Member -> Nat], tx_cap' \in [Member -> Nat],
           tx_in_flight' \in [Member -> Nat],
           tx_since_completion_drain' \in [Member -> Nat],
           tx_wake_pending' \in [Member -> BOOLEAN], panicked' \in BOOLEAN
    PROVE  Inv'
BY DEF Inv, TypeOK, Good

\* Counters that do not change stay exact off the transmit path.
LEMMA SameExact ==
    ASSUME Inv, SameTxPath(frames, frames'),
           UNCHANGED <<tx_in_flight, tx_since_completion_drain>>
    PROVE  InFlightExact'
<1> SUFFICES ASSUME NEW m \in Member
             PROVE  /\ tx_in_flight'[m] = OnTxPath(m)'
                    /\ tx_since_completion_drain'[m] <= tx_in_flight'[m]
    BY DEF InFlightExact
<1>1. /\ frames'[<<"tx", m>>] = frames[<<"tx", m>>]
      /\ frames'[<<"ktx", m>>] = frames[<<"ktx", m>>]
      /\ frames'[<<"comp", m>>] = frames[<<"comp", m>>]
    BY PathPlaces DEF SameTxPath
<1> QED BY <1>1 DEF Inv, InFlightExact, OnTxPath, Size

\* A drain's subtraction keeps the counters exact and never saturates.
LEMMA DrainedExact ==
    ASSUME Inv, NEW m \in Member, Drains(frames, frames', m), Drained(m)
    PROVE  /\ InFlightExact'
           /\ tx_in_flight' \in [Member -> Nat]
           /\ tx_since_completion_drain' \in [Member -> Nat]
<1>1. ASSUME NEW n \in Member
      PROVE  /\ frames'[<<"tx", n>>] = frames[<<"tx", n>>]
             /\ frames'[<<"ktx", n>>] = frames[<<"ktx", n>>]
             /\ n # m => frames'[<<"comp", n>>] = frames[<<"comp", n>>]
             /\ n = m => frames'[<<"comp", n>>] = {}
             /\ Size(frames, <<"tx", n>>) \in Nat
             /\ Size(frames, <<"ktx", n>>) \in Nat
             /\ Size(frames, <<"comp", n>>) \in Nat
    BY PathPlaces, FiniteFrames DEF Drains, Inv, TypeOK
<1>2. Cardinality({}) = 0
    BY FS_EmptySet
<1>3. /\ tx_in_flight \in [Member -> Nat]
      /\ tx_since_completion_drain \in [Member -> Nat]
    BY DEF Inv, TypeOK
<1>4. ASSUME NEW n \in Member
      PROVE  /\ tx_in_flight'[n] = OnTxPath(n)'
             /\ tx_since_completion_drain'[n] <= tx_in_flight'[n]
  <2>1. /\ tx_in_flight[n] = Size(frames, <<"tx", n>>) + Size(frames, <<"ktx", n>>)
                                + Size(frames, <<"comp", n>>)
        /\ tx_since_completion_drain[n] <= tx_in_flight[n]
    BY DEF Inv, InFlightExact, OnTxPath
  <2>2. CASE n # m
    <3>1. tx_in_flight'[n] = tx_in_flight[n]
          /\ tx_since_completion_drain'[n] = tx_since_completion_drain[n]
        BY <2>2, <1>3 DEF Drained
    <3> QED BY <3>1, <1>1, <2>1, <2>2 DEF OnTxPath, Size
  <2>3. CASE n = m
    <3>1. /\ tx_in_flight'[n] =
                Larger(tx_in_flight[n] - Size(frames, <<"comp", n>>), 0)
          /\ tx_since_completion_drain'[n] = 0
        BY <2>3, <1>3 DEF Drained
    <3>2. tx_in_flight'[n] = Size(frames, <<"tx", n>>) + Size(frames, <<"ktx", n>>)
        BY <3>1, <2>1, <1>1 DEF Larger
    <3>3. OnTxPath(n)' = Size(frames, <<"tx", n>>) + Size(frames, <<"ktx", n>>)
      <4>1. /\ frames'[<<"tx", n>>] = frames[<<"tx", n>>]
            /\ frames'[<<"ktx", n>>] = frames[<<"ktx", n>>]
            /\ Cardinality(frames'[<<"comp", n>>]) = 0
          BY <2>3, <1>1, <1>2
      <4>2. Size(frames, <<"tx", n>>) \in Nat /\ Size(frames, <<"ktx", n>>) \in Nat
          BY <1>1, ZenonT(60)
      <4> QED BY <4>1, <4>2 DEF OnTxPath, Size
    <3> QED BY <3>1, <3>2, <3>3, <1>1
  <2> QED BY <2>2, <2>3
<1>5. ASSUME NEW n \in Member
      PROVE  Larger(tx_in_flight[n] - Size(frames, <<"comp", n>>), 0) \in Nat
  <2>1. tx_in_flight[n] \in Nat /\ Size(frames, <<"comp", n>>) \in Nat
    BY <1>1, <1>3, ZenonT(60)
  <2> QED BY <2>1 DEF Larger
<1>6. /\ tx_in_flight' \in [Member -> Nat]
      /\ tx_since_completion_drain' \in [Member -> Nat]
    BY <1>3, <1>5 DEF Drained
<1> QED BY <1>4, <1>6 DEF InFlightExact

\* What every operation of the socket preserves.
Preserved == Inv' /\ Keeps(frames, frames')

\* A failed assertion changes nothing else.
LEMMA PanicInv ==
    ASSUME Inv, Panic
    PROVE  Preserved
<1>1. InFlightExact'
    BY DEF Panic, Inv, InFlightExact, OnTxPath, Size
<1>2. Good(frames')
    BY DEF Panic, Inv
<1>3. Inv'
    BY <1>1, <1>2, InvParts DEF Panic, Inv, TypeOK
<1> QED BY <1>3, Chain DEF Panic, Preserved

\* drain_tx_completions
LEMMA DrainInv ==
    ASSUME Inv, NEW m \in Member, DrainTxCompletions(m)
    PROVE  Preserved
<1>1. CASE Panic
    BY <1>1, PanicInv
<1>2. CASE /\ frames' = Reclaimed(frames, m)
           /\ Drained(m)
           /\ UNCHANGED <<rx_cap, tx_cap, tx_wake_pending, panicked>>
  <2>1. Good(frames') /\ Keeps(frames, frames') /\ Drains(frames, frames', m)
    BY <1>2, ReclaimedDrains DEF Inv
  <2>2. /\ InFlightExact'
        /\ tx_in_flight' \in [Member -> Nat]
        /\ tx_since_completion_drain' \in [Member -> Nat]
    BY <1>2, <2>1, DrainedExact
  <2>3. Inv'
    BY <1>2, <2>1, <2>2, InvParts DEF Inv, TypeOK
  <2> QED BY <2>1, <2>3 DEF Preserved
<1> QED BY <1>1, <1>2 DEF DrainTxCompletions
\* allocate_tx_batch
LEMMA AllocateInv ==
    ASSUME Inv, NEW m \in Member, AllocateTxBatch(m)
    PROVE  Preserved
<1> SUFFICES ASSUME ~Panic PROVE Preserved
    BY PanicInv
<1>14. PICK max \in 1 .. MaxBatch :
        LET fr0 == IF ShouldDrain(m) THEN Reclaimed(frames, m) ELSE frames
            fr1 == Pooled(fr0, m, max)
            cap1 == Grow(tx_cap[m], Size(fr1, <<"tx_free", m>>))
            dry == Size(fr1, <<"tx_free", m>>) < max
        IN \E S \in PoppedSets(fr1, m, max) :
            LET fr2 == Move(fr1, S, <<"tx_free", m>>, <<"app_tx", m>>)
                fr3 == IF dry THEN Reclaimed(fr2, m) ELSE fr2
                rest == IF dry THEN max - Cardinality(S) ELSE 0
            IN /\ \E T \in PoppedSets(fr3, m, rest) :
                    frames' = Move(fr3, T, <<"tx_free", m>>, <<"app_tx", m>>)
               /\ tx_cap' = [tx_cap EXCEPT ![m] = cap1]
               /\ IF dry \/ ShouldDrain(m)
                  THEN Drained(m)
                  ELSE UNCHANGED <<tx_in_flight, tx_since_completion_drain>>
               /\ UNCHANGED <<rx_cap, tx_wake_pending, panicked>>
    BY DEF AllocateTxBatch
<1> DEFINE fr0 == IF ShouldDrain(m) THEN Reclaimed(frames, m) ELSE frames
           fr1 == Pooled(fr0, m, max)
           cap1 == Grow(tx_cap[m], Size(fr1, <<"tx_free", m>>))
           dry == Size(fr1, <<"tx_free", m>>) < max
<1>15. PICK S \in PoppedSets(fr1, m, max) :
            LET fr2 == Move(fr1, S, <<"tx_free", m>>, <<"app_tx", m>>)
                fr3 == IF dry THEN Reclaimed(fr2, m) ELSE fr2
                rest == IF dry THEN max - Cardinality(S) ELSE 0
            IN /\ \E T \in PoppedSets(fr3, m, rest) :
                    frames' = Move(fr3, T, <<"tx_free", m>>, <<"app_tx", m>>)
               /\ tx_cap' = [tx_cap EXCEPT ![m] = cap1]
               /\ IF dry \/ ShouldDrain(m)
                  THEN Drained(m)
                  ELSE UNCHANGED <<tx_in_flight, tx_since_completion_drain>>
               /\ UNCHANGED <<rx_cap, tx_wake_pending, panicked>>
    BY <1>14
<1> DEFINE fr2 == Move(fr1, S, <<"tx_free", m>>, <<"app_tx", m>>)
           fr3 == IF dry THEN Reclaimed(fr2, m) ELSE fr2
           rest == IF dry THEN max - Cardinality(S) ELSE 0
<1>1. /\ tx_cap' = [tx_cap EXCEPT ![m] = cap1]
      /\ IF dry \/ ShouldDrain(m)
         THEN Drained(m)
         ELSE UNCHANGED <<tx_in_flight, tx_since_completion_drain>>
      /\ UNCHANGED <<rx_cap, tx_wake_pending, panicked>>
    BY <1>15
<1>2. PICK T \in PoppedSets(fr3, m, rest) :
            frames' = Move(fr3, T, <<"tx_free", m>>, <<"app_tx", m>>)
    BY <1>15
<1>3. /\ Good(fr0) /\ Keeps(frames, fr0)
      /\ ShouldDrain(m) => Drains(frames, fr0, m)
      /\ ~ShouldDrain(m) => SameTxPath(frames, fr0)
    BY ReclaimedDrains, Chain DEF Inv
<1> HIDE DEF fr0
<1>4. Good(fr1) /\ Keeps(fr0, fr1) /\ SameTxPath(fr0, fr1)
    BY <1>3, PooledGood
<1> HIDE DEF fr1
<1>5. Good(fr2) /\ Keeps(fr1, fr2) /\ SameTxPath(fr1, fr2)
    BY <1>4, PopGood
<1> HIDE DEF fr2
<1>6. /\ Good(fr3) /\ Keeps(fr2, fr3)
      /\ dry => Drains(fr2, fr3, m)
      /\ ~dry => SameTxPath(fr2, fr3)
    BY <1>5, ReclaimedDrains, Chain
<1> HIDE DEF fr3, rest
<1>7. Good(frames') /\ Keeps(fr3, frames') /\ SameTxPath(fr3, frames')
    BY <1>2, <1>6, PopGood
<1>8. Keeps(frames, frames')
  <2>1. Keeps(frames, fr1)
    BY <1>3, <1>4, Chain
  <2>2. Keeps(frames, fr2)
    BY <2>1, <1>5, Chain
  <2>3. Keeps(frames, fr3)
    BY <2>2, <1>6, Chain
  <2> QED BY <2>3, <1>7, Chain
<1>9. SameTxPath(fr0, fr2)
    BY <1>4, <1>5, Chain
<1>10. cap1 \in Nat
  <2>1. <<"tx_free", m>> \in Place
    BY DEF Place, Kind
  <2>2. Size(fr1, <<"tx_free", m>>) \in Nat
    BY <2>1, <1>4, FiniteFrames DEF Good
  <2> QED BY <2>2, GrowNat DEF Inv, TypeOK
<1>11. tx_cap' \in [Member -> Nat]
    BY <1>1, <1>10 DEF Inv, TypeOK
<1> HIDE DEF dry, cap1
<1>12. CASE dry \/ ShouldDrain(m)
  <2>1. dry => Drains(fr0, fr3, m)
    BY <1>6, <1>9, DrainChain
  <2>2. ~dry => SameTxPath(fr0, fr3)
    BY <1>6, <1>9, Chain
  <2>3. Drains(frames, fr3, m)
    BY <1>12, <2>1, <2>2, <1>3, DrainChain
  <2>4. Drains(frames, frames', m)
    BY <2>3, <1>7, DrainChain
  <2>5. /\ InFlightExact'
        /\ tx_in_flight' \in [Member -> Nat]
        /\ tx_since_completion_drain' \in [Member -> Nat]
    BY <1>1, <1>12, <2>4, DrainedExact
  <2>6. Inv'
    BY <1>1, <1>7, <1>11, <2>5, InvParts DEF Inv, TypeOK
  <2> QED BY <2>6, <1>8 DEF Preserved
<1>13. CASE ~(dry \/ ShouldDrain(m))
  <2>1. SameTxPath(frames, fr2)
    BY <1>13, <1>3, <1>9, Chain
  <2>2. SameTxPath(frames, fr3)
    BY <1>13, <2>1, <1>6, Chain
  <2>3. SameTxPath(frames, frames')
    BY <2>2, <1>7, Chain
  <2>4. InFlightExact'
    BY <1>1, <1>13, <2>3, SameExact
  <2>5. Inv'
    BY <1>1, <1>7, <1>11, <1>13, <2>4, InvParts DEF Inv, TypeOK
  <2> QED BY <2>5, <1>8 DEF Preserved
<1> QED BY <1>12, <1>13
\* What a send does before it commits: the drain.
LEMMA AfterDrainGood ==
    ASSUME Inv, NEW m \in Member
    PROVE  /\ Good(AfterDrain(m)) /\ Keeps(frames, AfterDrain(m))
           /\ DrainsFirst(m) => Drains(frames, AfterDrain(m), m)
           /\ ~DrainsFirst(m) => SameTxPath(frames, AfterDrain(m))
<1>1. CASE DrainsFirst(m)
    BY <1>1, ReclaimedDrains DEF AfterDrain, Inv
<1>2. CASE ~DrainsFirst(m)
    BY <1>2, Chain DEF AfterDrain, Inv
<1> QED BY <1>1, <1>2

\* The counters grow by what joined the TX ring, after the drain.
LEMMA CommittedExact ==
    ASSUME Inv, NEW m \in Member, NEW S, Good(frames'),
           AfterDrain(m)[<<"tx", m>>] \cap S = {},
           \A p \in Place : p[1] \in {"tx", "ktx", "comp"} =>
             frames'[p] = IF p = <<"tx", m>> THEN AfterDrain(m)[p] \cup S
                                             ELSE AfterDrain(m)[p],
           Committed(m, Cardinality(S))
    PROVE  /\ InFlightExact'
           /\ tx_in_flight' \in [Member -> Nat]
           /\ tx_since_completion_drain' \in [Member -> Nat]
           /\ tx_wake_pending' \in [Member -> BOOLEAN]
<1> DEFINE drain == DrainsFirst(m)
           fr == AfterDrain(m)
           in_flight == IF drain
                        THEN Larger(tx_in_flight[m] - Size(frames, <<"comp", m>>), 0)
                        ELSE tx_in_flight[m]
           since == IF drain THEN 0 ELSE tx_since_completion_drain[m]
<1>1. /\ tx_in_flight' = [tx_in_flight EXCEPT ![m] = in_flight + Cardinality(S)]
      /\ tx_since_completion_drain' =
            [tx_since_completion_drain EXCEPT ![m] = since + Cardinality(S)]
    BY DEF Committed
<1>2. /\ Good(fr)
      /\ drain => Drains(frames, fr, m)
      /\ ~drain => SameTxPath(frames, fr)
    BY AfterDrainGood
<1>3. /\ fr[<<"tx", m>>] \cap S = {}
      /\ \A p \in Place : p[1] \in {"tx", "ktx", "comp"} =>
            frames'[p] = IF p = <<"tx", m>> THEN fr[p] \cup S ELSE fr[p]
    OBVIOUS
<1>5. tx_wake_pending' \in [Member -> BOOLEAN]
    BY DEF Committed, Inv, TypeOK
<1> HIDE DEF drain, fr
<1>6. ASSUME NEW n \in Member
      PROVE  /\ fr[<<"tx", n>>] = frames[<<"tx", n>>]
             /\ fr[<<"ktx", n>>] = frames[<<"ktx", n>>]
             /\ fr[<<"comp", n>>] = IF drain /\ n = m THEN {} ELSE frames[<<"comp", n>>]
             /\ frames'[<<"tx", n>>] = IF n = m THEN fr[<<"tx", n>>] \cup S
                                                ELSE fr[<<"tx", n>>]
             /\ frames'[<<"ktx", n>>] = fr[<<"ktx", n>>]
             /\ frames'[<<"comp", n>>] = fr[<<"comp", n>>]
    BY <1>2, <1>3, PathPlaces, ZenonT(60) DEF Drains, SameTxPath
<1>7. ASSUME NEW n \in Member
      PROVE  /\ Cardinality(frames[<<"tx", n>>]) \in Nat
             /\ Cardinality(frames[<<"ktx", n>>]) \in Nat
             /\ Cardinality(frames[<<"comp", n>>]) \in Nat
    BY PathPlaces, FiniteFrames DEF Inv, TypeOK, Size
<1>8. /\ IsFiniteSet(S) /\ Cardinality(S) \in Nat
      /\ Cardinality(frames'[<<"tx", m>>]) =
            Cardinality(frames[<<"tx", m>>]) + Cardinality(S)
  <2>1. frames'[<<"tx", m>>] = frames[<<"tx", m>>] \cup S
        /\ frames[<<"tx", m>>] \cap S = {}
    BY <1>3, <1>6, ZenonT(60)
  <2>2. frames' \in [Place -> SUBSET Frame]
    BY DEF Good
  <2>3. IsFiniteSet(S) /\ Cardinality(S) \in Nat
    BY <2>1, <2>2, FiniteFrames, PathPlaces, ZenonT(60)
  <2>4. IsFiniteSet(frames[<<"tx", m>>])
    BY FiniteFrames, PathPlaces, ZenonT(60) DEF Inv, TypeOK
  <2>5. Cardinality(frames[<<"tx", m>>] \cup S) =
            Cardinality(frames[<<"tx", m>>]) + Cardinality(S)
            - Cardinality(frames[<<"tx", m>>] \cap S)
    BY <2>3, <2>4, FS_Union
  <2>6. Cardinality(frames[<<"tx", m>>] \cap S) = 0
    BY <2>1, FS_EmptySet
  <2> QED BY <2>1, <2>3, <2>5, <2>6, <1>7
<1>9. /\ tx_in_flight \in [Member -> Nat]
      /\ tx_since_completion_drain \in [Member -> Nat]
    BY DEF Inv, TypeOK
<1>10. /\ in_flight \in Nat /\ since \in Nat /\ since <= in_flight
       /\ in_flight = Cardinality(frames[<<"tx", m>>])
                        + Cardinality(frames[<<"ktx", m>>])
                        + Cardinality(fr[<<"comp", m>>])
  <2>1. /\ tx_in_flight[m] = Cardinality(frames[<<"tx", m>>])
                                + Cardinality(frames[<<"ktx", m>>])
                                + Cardinality(frames[<<"comp", m>>])
        /\ tx_since_completion_drain[m] <= tx_in_flight[m]
    BY DEF Inv, InFlightExact, OnTxPath, Size
  <2>2. /\ Cardinality(frames[<<"tx", m>>]) \in Nat
        /\ Cardinality(frames[<<"ktx", m>>]) \in Nat
        /\ Cardinality(frames[<<"comp", m>>]) \in Nat
    BY <1>7
  <2>3. CASE drain
    <3>1. Cardinality(fr[<<"comp", m>>]) = 0
        BY <2>3, <1>6, FS_EmptySet, ZenonT(60)
    <3> QED BY <2>1, <2>2, <2>3, <3>1 DEF Larger, Size
  <2>4. CASE ~drain
    <3>1. fr[<<"comp", m>>] = frames[<<"comp", m>>]
        BY <2>4, <1>6, ZenonT(60)
    <3>2. tx_since_completion_drain[m] \in Nat
        BY <1>9
    <3> QED BY <2>1, <2>2, <2>4, <3>1, <3>2
  <2> QED BY <2>3, <2>4
<1> HIDE DEF in_flight, since
<1>11. InFlightExact'
  <2> SUFFICES ASSUME NEW n \in Member
               PROVE  /\ tx_in_flight'[n] = OnTxPath(n)'
                      /\ tx_since_completion_drain'[n] <= tx_in_flight'[n]
    BY DEF InFlightExact
  <2>1. CASE n # m
    <3>1. /\ tx_in_flight'[n] = tx_in_flight[n]
          /\ tx_since_completion_drain'[n] = tx_since_completion_drain[n]
        BY <2>1, <1>1, <1>9
    <3>2. /\ frames'[<<"tx", n>>] = frames[<<"tx", n>>]
          /\ frames'[<<"ktx", n>>] = frames[<<"ktx", n>>]
          /\ frames'[<<"comp", n>>] = frames[<<"comp", n>>]
        BY <2>1, <1>6, ZenonT(60)
    <3> QED BY <3>1, <3>2 DEF Inv, InFlightExact, OnTxPath, Size
  <2>2. CASE n = m
    <3>1. /\ tx_in_flight'[n] = in_flight + Cardinality(S)
          /\ tx_since_completion_drain'[n] = since + Cardinality(S)
        BY <2>2, <1>1, <1>9
    <3>2. /\ frames'[<<"ktx", n>>] = frames[<<"ktx", n>>]
          /\ frames'[<<"comp", n>>] = fr[<<"comp", n>>]
        BY <2>2, <1>6, ZenonT(60)
    <3>3. Cardinality(frames[<<"ktx", n>>]) \in Nat
          /\ Cardinality(frames[<<"tx", n>>]) \in Nat
        BY <1>7, ZenonT(60)
    <3>4. Cardinality(fr[<<"comp", n>>]) \in Nat
        BY <2>2, PathPlaces, FiniteFrames, <1>2, ZenonT(60) DEF Good, Size
    <3> QED BY <2>2, <3>1, <3>2, <3>3, <3>4, <1>8, <1>10 DEF OnTxPath, Size
  <2> QED BY <2>1, <2>2
<1>12. /\ tx_in_flight' \in [Member -> Nat]
       /\ tx_since_completion_drain' \in [Member -> Nat]
    BY <1>1, <1>8, <1>9, <1>10
<1> QED BY <1>5, <1>11, <1>12

\* send
LEMMA SendInv ==
    ASSUME Inv, NEW m \in Member, Send(m)
    PROVE  Preserved
<1> SUFFICES ASSUME ~Panic PROVE Preserved
    BY PanicInv
<1>1. PICK S \in SUBSET AppHeld(AfterDrain(m)) :
        /\ frames' = Submitted(AfterDrain(m), S, m)
        /\ Committed(m, Cardinality(S))
        /\ UNCHANGED <<rx_cap, tx_cap, panicked>>
    BY DEF Send
<1>2. Good(AfterDrain(m)) /\ Keeps(frames, AfterDrain(m))
    BY AfterDrainGood
<1>3. /\ Good(frames') /\ Keeps(AfterDrain(m), frames')
      /\ AfterDrain(m)[<<"tx", m>>] \cap S = {}
      /\ \A p \in Place : p[1] \in {"tx", "ktx", "comp"} =>
            frames'[p] = IF p = <<"tx", m>> THEN AfterDrain(m)[p] \cup S
                                            ELSE AfterDrain(m)[p]
    BY <1>1, <1>2, SubmittedGood
<1>4. Keeps(frames, frames')
    BY <1>2, <1>3, Chain
<1>5. /\ InFlightExact'
      /\ tx_in_flight' \in [Member -> Nat]
      /\ tx_since_completion_drain' \in [Member -> Nat]
      /\ tx_wake_pending' \in [Member -> BOOLEAN]
    BY <1>1, <1>3, CommittedExact
<1>6. Inv'
    BY <1>1, <1>3, <1>5, InvParts DEF Inv, TypeOK
<1> QED BY <1>4, <1>6 DEF Preserved

\* Frames popped from the TX free list and posted to the TX ring.
LEMMA PostGood ==
    ASSUME NEW fr, Good(fr), NEW m \in Member, NEW S,
           S \subseteq fr[<<"tx_free", m>>],
           NEW gr, gr = Move(fr, S, <<"tx_free", m>>, <<"tx", m>>)
    PROVE  /\ Good(gr) /\ Keeps(fr, gr)
           /\ fr[<<"tx", m>>] \cap S = {}
           /\ \A p \in Place : p[1] \in {"tx", "ktx", "comp"} =>
                 gr[p] = IF p = <<"tx", m>> THEN fr[p] \cup S ELSE fr[p]
<1> DEFINE a == <<"tx_free", m>>
           b == <<"tx", m>>
<1>1. a \in Place /\ b \in Place /\ a # b /\ a[1] = "tx_free" /\ b[1] = "tx"
    BY DEF Place, Kind
<1>2. \A f \in S : Allowed(b[1], f)
    BY DEF Allowed, RxOnly, TxOnly
<1>3. fr \in [Place -> SUBSET Frame] /\ fr[b] \cap S = {}
    BY <1>1 DEF Good
<1>9. gr = Move(fr, S, a, b)
    OBVIOUS
<1> HIDE DEF a, b
<1>4. Good(gr)
    BY <1>1, <1>2, <1>9, MoveGood DEF a
<1>5. /\ gr[b] = fr[b] \cup S
      /\ \A p \in Place : p # a /\ p # b => gr[p] = fr[p]
    BY <1>1, <1>3, <1>9 DEF Move
<1>6. \A p \in Place : p[1] \in {"fill", "krx", "tx", "ktx", "comp"} => p # a
    BY <1>1
<1>7. Keeps(fr, gr)
    BY <1>5, <1>6 DEF Keeps
<1>8. \A p \in Place : p[1] \in {"tx", "ktx", "comp"} =>
            gr[p] = IF p = b THEN fr[p] \cup S ELSE fr[p]
    BY <1>5, <1>6, ZenonT(60)
<1> QED BY <1>3, <1>4, <1>7, <1>8 DEF a, b

\* send_udp_endpoint_direct_batch
LEMMA SendBatchInv ==
    ASSUME Inv, NEW m \in Member, SendEndpointBatch(m)
    PROVE  \/ Panic /\ SendPanics(m)
           \/ /\ Preserved /\ UNCHANGED <<rx_cap, panicked>>
              /\ \E tc \in Nat : tc >= tx_cap[m] /\ tx_cap' = [tx_cap EXCEPT ![m] = tc]
<1> SUFFICES ASSUME ~(Panic /\ SendPanics(m))
             PROVE  /\ Preserved /\ UNCHANGED <<rx_cap, panicked>>
                    /\ \E tc \in Nat : /\ tc >= tx_cap[m]
                                       /\ tx_cap' = [tx_cap EXCEPT ![m] = tc]
    OBVIOUS
<1>1. PICK limit, S :
        LET fr == Pooled(AfterDrain(m), m, limit)
        IN /\ S \subseteq fr[<<"tx_free", m>>]
           /\ frames' = Move(fr, S, <<"tx_free", m>>, <<"tx", m>>)
           /\ tx_cap' = [tx_cap EXCEPT ![m] = Grow(tx_cap[m], Size(fr, <<"tx_free", m>>))]
           /\ Committed(m, Cardinality(S))
           /\ UNCHANGED <<rx_cap, panicked>>
  <2>1. PICK max \in 1 .. MaxBatch :
            LET limit == Smaller(max, TxSize - Size(AfterDrain(m), <<"tx", m>>))
                fr == Pooled(AfterDrain(m), m, limit)
            IN \E S \in PoppedSets(fr, m, limit) \cup {{}} :
                /\ frames' = Move(fr, S, <<"tx_free", m>>, <<"tx", m>>)
                /\ tx_cap' = [tx_cap EXCEPT
                        ![m] = Grow(tx_cap[m], Size(fr, <<"tx_free", m>>))]
                /\ Committed(m, Cardinality(S))
                /\ UNCHANGED <<rx_cap, panicked>>
    BY DEF SendEndpointBatch
  <2> DEFINE limit == Smaller(max, TxSize - Size(AfterDrain(m), <<"tx", m>>))
             fr == Pooled(AfterDrain(m), m, limit)
  <2>2. PICK S \in PoppedSets(fr, m, limit) \cup {{}} :
            /\ frames' = Move(fr, S, <<"tx_free", m>>, <<"tx", m>>)
            /\ tx_cap' = [tx_cap EXCEPT
                    ![m] = Grow(tx_cap[m], Size(fr, <<"tx_free", m>>))]
            /\ Committed(m, Cardinality(S))
            /\ UNCHANGED <<rx_cap, panicked>>
    BY <2>1
  <2>3. S \subseteq fr[<<"tx_free", m>>]
    BY <2>2 DEF PoppedSets
  <2> HIDE DEF limit
  <2> QED BY <2>2, <2>3, ZenonT(60)
<1> DEFINE fr == Pooled(AfterDrain(m), m, limit)
           tc == Grow(tx_cap[m], Size(fr, <<"tx_free", m>>))
<1>2. Good(AfterDrain(m)) /\ Keeps(frames, AfterDrain(m))
    BY AfterDrainGood
<1>3. Good(fr) /\ Keeps(AfterDrain(m), fr) /\ SameTxPath(AfterDrain(m), fr)
    BY <1>2, PooledGood
<1> HIDE DEF fr
<1>4. /\ Good(frames') /\ Keeps(fr, frames')
      /\ fr[<<"tx", m>>] \cap S = {}
      /\ \A p \in Place : p[1] \in {"tx", "ktx", "comp"} =>
            frames'[p] = IF p = <<"tx", m>> THEN fr[p] \cup S ELSE fr[p]
  <2>1. /\ S \subseteq fr[<<"tx_free", m>>]
        /\ frames' = Move(fr, S, <<"tx_free", m>>, <<"tx", m>>)
    BY <1>1 DEF fr
  <2>2. Good(fr)
    BY <1>3
  <2> QED BY <2>1, <2>2, PostGood, SMTT(30)
<1>5. Keeps(frames, frames')
    BY <1>2, <1>3, <1>4, Chain
<1>6. /\ AfterDrain(m)[<<"tx", m>>] \cap S = {}
      /\ \A p \in Place : p[1] \in {"tx", "ktx", "comp"} =>
            frames'[p] = IF p = <<"tx", m>> THEN AfterDrain(m)[p] \cup S
                                            ELSE AfterDrain(m)[p]
    BY <1>3, <1>4, PathPlaces DEF SameTxPath
<1>7. /\ InFlightExact'
      /\ tx_in_flight' \in [Member -> Nat]
      /\ tx_since_completion_drain' \in [Member -> Nat]
      /\ tx_wake_pending' \in [Member -> BOOLEAN]
    BY <1>1, <1>4, <1>6, CommittedExact
<1>8. tc \in Nat /\ tc >= tx_cap[m]
  <2>1. <<"tx_free", m>> \in Place
    BY DEF Place, Kind
  <2>2. Size(fr, <<"tx_free", m>>) \in Nat
    BY <2>1, <1>3, FiniteFrames DEF Good
  <2> QED BY <2>2, GrowNat DEF Inv, TypeOK
<1>9. tx_cap' = [tx_cap EXCEPT ![m] = tc] /\ UNCHANGED <<rx_cap, panicked>>
    BY <1>1 DEF fr
<1> HIDE DEF tc
<1>10. tx_cap' \in [Member -> Nat]
    BY <1>8, <1>9 DEF Inv, TypeOK
<1>11. Inv'
    BY <1>4, <1>7, <1>9, <1>10, InvParts DEF Inv, TypeOK
<1> QED BY <1>5, <1>8, <1>9, <1>11, ZenonT(60) DEF Preserved

\* notify_tx
LEMMA NotifyInv ==
    ASSUME Inv, NEW m \in Member, NotifyTx(m)
    PROVE  Preserved
<1>1. frames' = frames /\ InFlightExact'
    BY DEF NotifyTx, Inv, InFlightExact, OnTxPath, Size
<1>2. tx_wake_pending' \in [Member -> BOOLEAN]
    BY DEF NotifyTx, Inv, TypeOK
<1>3. Inv'
    BY <1>1, <1>2, InvParts DEF NotifyTx, Inv, TypeOK
<1> QED BY <1>1, <1>3, Chain DEF Preserved

\* An operation off the transmit path that leaves the counters alone.
LEMMA OffPathInv ==
    ASSUME Inv, Good(frames'), Keeps(frames, frames'), SameTxPath(frames, frames'),
           rx_cap' \in [Member -> Nat], tx_cap' \in [Member -> Nat],
           UNCHANGED <<tx_in_flight, tx_since_completion_drain, tx_wake_pending, panicked>>
    PROVE  Preserved
<1>1. InFlightExact'
    BY SameExact
<1>2. Inv'
    BY <1>1, InvParts DEF Inv, TypeOK
<1> QED BY <1>2 DEF Preserved

\* recv
LEMMA RecvInv ==
    ASSUME Inv, NEW m \in Member, Recv(m)
    PROVE  /\ Preserved
           /\ \E rc \in Nat : rc >= rx_cap[m] /\ rx_cap' = [rx_cap EXCEPT ![m] = rc]
<1>1. PICK W1 \in WrittenSets(frames, m) :
        LET fr1 == Replenished(frames, m, W1)
            cap1 == Grow(rx_cap[m], Cardinality(Refillable(frames, m)))
        IN \E D \in SUBSET fr1[<<"rx", m>>] : \E L \in SUBSET D :
            LET fr2 == Received(fr1, m, D, L)
                cap2 == Grow(cap1, Size(fr2, <<"rx_free", m>>))
            IN /\ \E W2 \in IF D = {} THEN {{}} ELSE WrittenSets(fr2, m) :
                    frames' = Replenished(fr2, m, W2)
               /\ rx_cap' = [rx_cap EXCEPT ![m] = cap2]
    BY ZenonT(60) DEF Recv
<1> DEFINE fr1 == Replenished(frames, m, W1)
           cap1 == Grow(rx_cap[m], Cardinality(Refillable(frames, m)))
<1>2. PICK D \in SUBSET fr1[<<"rx", m>>] : \E L \in SUBSET D :
            LET fr2 == Received(fr1, m, D, L)
                cap2 == Grow(cap1, Size(fr2, <<"rx_free", m>>))
            IN /\ \E W2 \in IF D = {} THEN {{}} ELSE WrittenSets(fr2, m) :
                    frames' = Replenished(fr2, m, W2)
               /\ rx_cap' = [rx_cap EXCEPT ![m] = cap2]
    BY <1>1
<1>3. PICK L \in SUBSET D :
            LET fr2 == Received(fr1, m, D, L)
                cap2 == Grow(cap1, Size(fr2, <<"rx_free", m>>))
            IN /\ \E W2 \in IF D = {} THEN {{}} ELSE WrittenSets(fr2, m) :
                    frames' = Replenished(fr2, m, W2)
               /\ rx_cap' = [rx_cap EXCEPT ![m] = cap2]
    BY <1>2, ZenonT(60)
<1> DEFINE g == Move(fr1, L, <<"rx", m>>, <<"app_rx", m>>)
           fr2 == Received(fr1, m, D, L)
           cap2 == Grow(cap1, Size(fr2, <<"rx_free", m>>))
<1>4. PICK W2 \in IF D = {} THEN {{}} ELSE WrittenSets(fr2, m) :
            frames' = Replenished(fr2, m, W2)
    BY <1>3
<1>5. rx_cap' = [rx_cap EXCEPT ![m] = cap2]
    BY <1>3
<1>6. /\ "rx" \in RxOnly /\ "app_rx" \in RxOnly /\ "rx_free" \in RxOnly
      /\ <<"rx", m>> \in Place /\ <<"app_rx", m>> \in Place
      /\ <<"rx_free", m>> \in Place /\ <<"rx_remote", m>> \in Place
    BY DEF RxOnly, Place, Kind
<1>7. W1 \subseteq Refillable(frames, m) /\ W2 \subseteq Refillable(fr2, m)
    BY DEF WrittenSets
<1>8. Good(fr1) /\ Keeps(frames, fr1) /\ SameTxPath(frames, fr1)
    BY <1>7, ReplenishedGood DEF Inv
<1>20. fr2 = Move(g, D \ L, <<"rx", m>>, <<"rx_free", m>>)
    BY DEF Received
<1>9. L \subseteq fr1[<<"rx", m>>]
    BY <1>2, <1>3
<1> HIDE DEF fr1, fr2
<1>10. Good(g) /\ Keeps(fr1, g) /\ SameTxPath(fr1, g)
    BY <1>6, <1>8, <1>9, UserMove
<1>11. D \ L \subseteq g[<<"rx", m>>]
  <2>1. fr1 \in [Place -> SUBSET Frame] /\ <<"rx", m>> # <<"app_rx", m>>
    BY <1>8 DEF Good
  <2> QED BY <2>1, <1>2, <1>6 DEF Move
<1> HIDE DEF g
<1>12. Good(fr2) /\ Keeps(g, fr2) /\ SameTxPath(g, fr2)
    BY <1>6, <1>10, <1>11, <1>20, UserMove
<1>13. Good(frames') /\ Keeps(fr2, frames') /\ SameTxPath(fr2, frames')
    BY <1>4, <1>7, <1>12, ReplenishedGood
<1>14. Keeps(frames, frames') /\ SameTxPath(frames, frames')
  <2>1. Keeps(frames, g) /\ SameTxPath(frames, g)
    BY <1>8, <1>10, Chain
  <2>2. Keeps(frames, fr2) /\ SameTxPath(frames, fr2)
    BY <2>1, <1>12, Chain
  <2> QED BY <2>2, <1>13, Chain
<1>15. cap1 \in Nat /\ cap1 >= rx_cap[m] /\ rx_cap[m] \in Nat
  <2>1. IsFiniteSet(frames[<<"rx_free", m>>]) /\ IsFiniteSet(frames[<<"rx_remote", m>>])
    BY <1>6, FiniteFrames DEF Inv, TypeOK
  <2>2. Cardinality(Refillable(frames, m)) \in Nat
    BY <2>1, FS_Union, FS_CardinalityType, ZenonT(60) DEF Refillable
  <2>3. rx_cap[m] \in Nat
    BY DEF Inv, TypeOK
  <2> QED BY <2>2, <2>3, GrowNat, ZenonT(60)
<1> HIDE DEF cap1
<1>16. cap2 \in Nat /\ cap2 >= rx_cap[m]
  <2>1. Size(fr2, <<"rx_free", m>>) \in Nat
    BY <1>6, <1>12, FiniteFrames DEF Good
  <2>2. cap2 \in Nat /\ cap2 >= cap1
    BY <2>1, <1>15, GrowNat
  <2> QED BY <2>2, <1>15
<1> HIDE DEF cap2
<1>17. rx_cap' \in [Member -> Nat] /\ tx_cap' \in [Member -> Nat]
    BY <1>5, <1>16 DEF Recv, Inv, TypeOK
<1>18. Preserved
    BY <1>13, <1>14, <1>17, OffPathInv DEF Recv
<1> QED BY <1>5, <1>16, <1>18

\* A buffer dropped by the application.
LEMMA DropInv ==
    ASSUME Inv, NEW m \in Member, DropLocal(m) \/ DropRemote(m)
    PROVE  Preserved
<1>1. /\ "app_rx" \in RxOnly /\ "rx_free" \in RxOnly /\ "rx_remote" \in RxOnly
      /\ "app_tx" \in TxOnly /\ "tx_free" \in TxOnly /\ "tx_remote" \in TxOnly
      /\ <<"rx_free", m>> \in Place /\ <<"tx_free", m>> \in Place
    BY DEF RxOnly, TxOnly, Place, Kind
<1>2. \/ \E f \in frames[<<"app_rx", m>>] :
            \/ frames' = Move(frames, {f}, <<"app_rx", m>>, <<"rx_free", m>>)
            \/ frames' = Move(frames, {f}, <<"app_rx", m>>, <<"rx_remote", m>>)
      \/ \E f \in frames[<<"app_tx", m>>] :
            \/ frames' = Move(frames, {f}, <<"app_tx", m>>, <<"tx_free", m>>)
            \/ frames' = Move(frames, {f}, <<"app_tx", m>>, <<"tx_remote", m>>)
    BY ZenonT(60) DEF DropLocal, DropRemote
<1>3. Good(frames') /\ Keeps(frames, frames') /\ SameTxPath(frames, frames')
  <2>1. CASE \E f \in frames[<<"app_rx", m>>] :
            \/ frames' = Move(frames, {f}, <<"app_rx", m>>, <<"rx_free", m>>)
            \/ frames' = Move(frames, {f}, <<"app_rx", m>>, <<"rx_remote", m>>)
    BY <2>1, <1>1, UserMove DEF Inv
  <2>2. CASE \E f \in frames[<<"app_tx", m>>] :
            \/ frames' = Move(frames, {f}, <<"app_tx", m>>, <<"tx_free", m>>)
            \/ frames' = Move(frames, {f}, <<"app_tx", m>>, <<"tx_remote", m>>)
    BY <2>2, <1>1, UserMove DEF Inv
  <2> QED BY <1>2, <2>1, <2>2
<1>4. rx_cap' \in [Member -> Nat] /\ tx_cap' \in [Member -> Nat]
  <2>1. /\ Size(frames, <<"rx_free", m>>) + 1 \in Nat
        /\ Size(frames, <<"tx_free", m>>) + 1 \in Nat
    BY <1>1, FiniteFrames DEF Inv, TypeOK
  <2>2. /\ Grow(rx_cap[m], Size(frames, <<"rx_free", m>>) + 1) \in Nat
        /\ Grow(tx_cap[m], Size(frames, <<"tx_free", m>>) + 1) \in Nat
    BY <2>1, GrowNat DEF Inv, TypeOK
  <2> QED BY <2>2, ZenonT(60) DEF DropLocal, DropRemote, Inv, TypeOK
<1> QED BY <1>3, <1>4, OffPathInv DEF DropLocal, DropRemote
\* A frame that moves on within the kernel, or leaves it through RX or
\* COMPLETION; the transmit path keeps its population.
LEMMA KernelMoveGood ==
    ASSUME Inv, NEW m \in Member, NEW a, NEW b,
           <<a, b>> \in {<<"fill", "krx">>, <<"krx", "rx">>,
                          <<"tx", "ktx">>, <<"ktx", "comp">>},
           KernelMoves(m, a, b)
    PROVE  Inv' /\ KernelOwned \subseteq (KernelOwned \cup Returned)'
<1>1. PICK f \in frames[<<a, m>>] : frames' = Move(frames, {f}, <<a, m>>, <<b, m>>)
    BY DEF KernelMoves
<1> DEFINE p == <<a, m>>
           q == <<b, m>>
<1>2. p \in Place /\ q \in Place /\ p # q /\ p[1] = a /\ q[1] = b
    BY DEF Place, Kind
<1>3. frames \in [Place -> SUBSET Frame] /\ Good(frames)
    BY DEF Inv, Good
<1>4. Allowed(b, f)
  <2>1. Allowed(a, f)
    BY <1>2, <1>3 DEF Good
  <2>2. CASE a \in RxOnly /\ b \in RxOnly
    BY <2>1, <2>2 DEF Allowed, RxOnly, TxOnly
  <2>3. CASE b \in {"ktx", "comp"}
    BY <2>3 DEF Allowed, RxOnly, TxOnly
  <2> QED BY <2>2, <2>3 DEF RxOnly
<1> HIDE DEF p, q
<1>5. Good(frames')
  <2>1. {f} \subseteq frames[p] /\ \A g \in {f} : Allowed(q[1], g)
    BY <1>2, <1>4 DEF p
  <2> QED BY <1>1, <1>2, <1>3, <2>1, MoveGood DEF p, q
<1>6. /\ frames'[p] = frames[p] \ {f}
      /\ frames'[q] = frames[q] \cup {f}
      /\ \A r \in Place : r # p /\ r # q => frames'[r] = frames[r]
  <2>1. frames' = Move(frames, {f}, p, q)
    BY <1>1 DEF p, q
  <2> QED BY <2>1, <1>2, <1>3 DEF Move
<1>7. KernelOwned \subseteq (KernelOwned \cup Returned)'
  <2> DEFINE KP == {"fill", "krx", "tx", "ktx"} \X Member
             RP == {"rx", "comp"} \X Member
  <2>1. KP \subseteq Place /\ RP \subseteq Place /\ q \in KP \cup RP
    BY DEF Place, Kind, q
  <2> SUFFICES ASSUME NEW r \in KP, NEW g \in frames[r]
               PROVE  \E t \in KP \cup RP : g \in frames'[t]
    BY DEF KernelOwned, Returned
  <2>2. CASE r = p
    BY <2>1, <2>2, <1>6
  <2>3. CASE r # p
    BY <2>1, <2>3, <1>6
  <2> QED BY <2>2, <2>3
<1>8. InFlightExact'
  <2>1. CASE a \in {"fill", "krx"}
    <3>1. SameTxPath(frames, frames')
        BY <2>1, <1>2, <1>6 DEF SameTxPath
    <3> QED BY <3>1, SameExact DEF KernelMoves
  <2>2. CASE a \in {"tx", "ktx"}
    <3> SUFFICES ASSUME NEW n \in Member
                 PROVE  OnTxPath(n)' = OnTxPath(n)
        BY DEF KernelMoves, Inv, InFlightExact
    <3>1. CASE n # m
      <4>1. /\ frames'[<<"tx", n>>] = frames[<<"tx", n>>]
            /\ frames'[<<"ktx", n>>] = frames[<<"ktx", n>>]
            /\ frames'[<<"comp", n>>] = frames[<<"comp", n>>]
          BY <3>1, <1>6, PathPlaces DEF p, q
      <4> QED BY <4>1 DEF OnTxPath, Size
    <3>2. CASE n = m
      <4>1. /\ IsFiniteSet(frames[p]) /\ IsFiniteSet(frames[q])
            /\ f \in frames[p] /\ f \notin frames[q]
          BY <1>1, <1>2, <1>3, FiniteFrames DEF Good, p
      <4>2. /\ Cardinality(frames'[p]) = Cardinality(frames[p]) - 1
            /\ Cardinality(frames'[q]) = Cardinality(frames[q]) + 1
        <5>1. Cardinality(frames[p] \ {f}) = Cardinality(frames[p]) - 1
            BY <4>1, FS_RemoveElement, ZenonT(60)
        <5>2. Cardinality(frames[q] \cup {f}) = Cardinality(frames[q]) + 1
            BY <4>1, FS_AddElement, ZenonT(60)
        <5> QED BY <5>1, <5>2, <1>6
      <4>3. /\ Cardinality(frames[<<"tx", n>>]) \in Nat
            /\ Cardinality(frames[<<"ktx", n>>]) \in Nat
            /\ Cardinality(frames[<<"comp", n>>]) \in Nat
          BY <1>3, PathPlaces, FiniteFrames DEF Size
      <4>4. CASE a = "tx"
        <5>1. p = <<"tx", n>> /\ q = <<"ktx", n>>
            BY <4>4, <3>2 DEF p, q
        <5>2. frames'[<<"comp", n>>] = frames[<<"comp", n>>]
            BY <5>1, <1>6, PathPlaces
        <5> QED BY <5>1, <5>2, <4>2, <4>3 DEF OnTxPath, Size
      <4>5. CASE a = "ktx"
        <5>1. p = <<"ktx", n>> /\ q = <<"comp", n>>
            BY <4>5, <3>2 DEF p, q
        <5>2. frames'[<<"tx", n>>] = frames[<<"tx", n>>]
            BY <5>1, <1>6, PathPlaces
        <5> QED BY <5>1, <5>2, <4>2, <4>3 DEF OnTxPath, Size
      <4> QED BY <2>2, <4>4, <4>5
    <3> QED BY <3>1, <3>2
  <2> QED BY <2>1, <2>2
<1>9. Inv'
    BY <1>5, <1>8, InvParts, ZenonT(60) DEF KernelMoves, Inv, TypeOK
<1> QED BY <1>7, <1>9

\* A socket operation takes no frame from the kernel.
LEMMA KeepsOwned ==
    ASSUME Keeps(frames, frames')
    PROVE  KernelOwned \subseteq KernelOwned'
<1> DEFINE KP == {"fill", "krx", "tx", "ktx"} \X Member
<1>1. KP \subseteq Place /\ \A p \in KP : p[1] \in {"fill", "krx", "tx", "ktx"}
    BY DEF Place, Kind
<1>2. \A p \in KP : frames[p] \subseteq frames'[p]
    BY <1>1 DEF Keeps
<1> QED BY <1>2 DEF KernelOwned

\* Every step keeps the invariant and takes no frame from the kernel early.
LEMMA StepInv ==
    ASSUME Inv, [Next]_vars
    PROVE  Inv' /\ KernelOwned \subseteq (KernelOwned \cup Returned)'
<1>1. CASE UNCHANGED vars
  <2>1. frames' = frames
    BY <1>1 DEF vars
  <2>2. KernelOwned' = KernelOwned
    BY <2>1 DEF KernelOwned
  <2>3. Inv'
    BY <1>1 DEF vars, Inv, TypeOK, Good, InFlightExact, OnTxPath, Size
  <2> QED BY <2>2, <2>3
<1>2. ASSUME NEW m \in Member, Socket(m)
      PROVE  Inv' /\ KernelOwned \subseteq (KernelOwned \cup Returned)'
  <2>1. Preserved
    BY <1>2, AllocateInv, SendInv, SendBatchInv, PanicInv, NotifyInv, DrainInv, RecvInv,
       DropInv DEF Socket
  <2> QED BY <2>1, KeepsOwned DEF Preserved
<1>3. ASSUME NEW m \in Member, Kernel(m)
      PROVE  Inv' /\ KernelOwned \subseteq (KernelOwned \cup Returned)'
  <2>1. \/ KernelMoves(m, "fill", "krx") \/ KernelMoves(m, "krx", "rx")
        \/ KernelMoves(m, "tx", "ktx") \/ KernelMoves(m, "ktx", "comp")
    BY <1>3 DEF Kernel, KernelFill, KernelReceive, KernelTransmit, KernelComplete
  <2> QED BY <2>1, KernelMoveGood
<1> QED BY <1>1, <1>2, <1>3 DEF Next
-----------------------------------------------------------------------------

\* The members' slices partition the frames.
LEMMA Slices ==
    /\ \A m \in Member : Slice(m) \subseteq Frame
    /\ \A f \in Frame : \E m \in Member : f \in Slice(m)
    /\ \A m, n \in Member : m # n => Slice(m) \cap Slice(n) = {}
<1> USE XdpAssumption
<1>1. ASSUME NEW m \in Member, NEW f \in Slice(m) PROVE f \in Frame
  <2>1. m \in Nat /\ m + 1 <= Members
    BY DEF Member
  <2>2. (m + 1) * FrameCount <= Members * FrameCount
    BY <2>1
  <2>3. m * FrameCount \in Nat /\ Members * FrameCount \in Nat
        /\ (m + 1) * FrameCount = m * FrameCount + FrameCount
    BY <2>1
  <2> QED BY <2>2, <2>3, <1>1 DEF Slice, Frame
<1>2. ASSUME NEW f \in Frame PROVE \E m \in Member : f \in Slice(m)
  <2> DEFINE q == f \div FrameCount
  <2>1. f \in Nat /\ f < Members * FrameCount
    BY DEF Frame
  <2>2. q \in Nat /\ q * FrameCount <= f /\ f < q * FrameCount + FrameCount
    BY <2>1
  <2> HIDE DEF q
  <2>3. q < Members
    BY <2>1, <2>2
  <2> QED BY <2>1, <2>2, <2>3 DEF Member, Slice
<1>3. ASSUME NEW m \in Member, NEW n \in Member, m # n
      PROVE  Slice(m) \cap Slice(n) = {}
  <2>1. ASSUME NEW i \in Nat, NEW j \in Nat, i < j,
               NEW f \in Slice(i), f \in Slice(j)
        PROVE  FALSE
    <3>1. (i + 1) * FrameCount <= j * FrameCount
        BY <2>1
    <3>2. (i + 1) * FrameCount = i * FrameCount + FrameCount
        BY <2>1
    <3> QED BY <3>1, <3>2, <2>1 DEF Slice
  <2> QED BY <2>1, <1>3 DEF Member
<1> QED BY <1>1, <1>2, <1>3

\* The rings and lists as open and open_shared_members fill them.
LEMMA InitInv == Init => Inv
<1> SUFFICES ASSUME Init PROVE Inv
    OBVIOUS
<1>1. ASSUME NEW p \in Place
      PROVE  /\ p[1] = "fill" => frames[p] = {f \in Slice(p[2]) : IsRx(f)}
             /\ p[1] = "tx_free" => frames[p] = {f \in Slice(p[2]) : ~IsRx(f)}
             /\ p[1] \notin {"fill", "tx_free"} => frames[p] = {}
    BY DEF Init, InitialFrames
<1>2. \A p \in Place : p[2] \in Member /\ p = <<p[1], p[2]>>
    BY DEF Place
<1>3. frames \in [Place -> SUBSET Frame]
  <2>1. \A p \in Place : frames[p] \subseteq Frame
    BY <1>1, <1>2, Slices
  <2>2. frames = [p \in Place |-> frames[p]]
    BY DEF Init, InitialFrames
  <2> QED BY <2>1, <2>2
<1>4. ASSUME NEW f \in Frame PROVE \E p \in Place : f \in frames[p]
  <2>1. PICK m \in Member : f \in Slice(m)
    BY Slices
  <2>2. <<"fill", m>> \in Place /\ <<"tx_free", m>> \in Place
    BY DEF Place, Kind
  <2> QED BY <1>1, <2>1, <2>2
<1>5. ASSUME NEW p \in Place, NEW q \in Place, p # q
      PROVE  frames[p] \cap frames[q] = {}
    BY <1>1, <1>2, <1>5, Slices
<1>6. ASSUME NEW p \in Place, NEW f \in frames[p] PROVE Allowed(p[1], f)
    BY <1>1, <1>6 DEF Allowed, RxOnly, TxOnly
<1>7. Good(frames)
    BY <1>3, <1>4, <1>5, <1>6 DEF Good
<1>8. TypeOK
  <2>1. PerRx \in Nat /\ FrameCount - PerRx \in Nat
    BY XdpAssumption DEF PerRx
  <2> QED BY <2>1, <1>3, ZenonT(60) DEF Init, TypeOK
<1>9. InFlightExact
  <2>1. ASSUME NEW m \in Member
        PROVE  /\ frames[<<"tx", m>>] = {} /\ frames[<<"ktx", m>>] = {}
               /\ frames[<<"comp", m>>] = {}
    BY <1>1, PathPlaces
  <2>2. Cardinality({}) = 0
    BY FS_EmptySet
  <2>3. \A m \in Member : OnTxPath(m) = 0
    BY <2>1, <2>2 DEF OnTxPath, Size
  <2>4. \A m \in Member : tx_in_flight[m] = 0 /\ tx_since_completion_drain[m] = 0
    BY DEF Init
  <2> QED BY <2>3, <2>4 DEF InFlightExact
<1> QED BY <1>7, <1>8, <1>9 DEF Inv

\* The invariant holds in every reachable state.
LEMMA InvariantHolds == Spec => []Inv
<1>1. Init => Inv
    BY InitInv
<1>2. Inv /\ [Next]_vars => Inv'
    BY StepInv
<1> QED BY <1>1, <1>2, PTL DEF Spec

\* Type correctness.
THEOREM TypeCorrect == Spec => []TypeOK
<1>1. Inv => TypeOK
    BY DEF Inv
<1> QED BY <1>1, InvariantHolds, PTL

\* For any number of members sharing the UMEM, whatever buffers are sent
\* through whichever member and dropped on whichever thread, no frame leaks
\* and none is in two places.
THEOREM FramesConserved == Spec => []FrameConservation
<1>1. Inv => FrameConservation
    BY GoodFrames DEF Inv
<1> QED BY <1>1, InvariantHolds, PTL

\* RX frames and TX frames never mix, across retransmission and migration.
THEOREM HalvesSeparate == Spec => []ClassSeparation
<1>1. Inv => ClassSeparation
    BY GoodFrames DEF Inv
<1> QED BY <1>1, InvariantHolds, PTL

\* tx_in_flight is exact: the defensive saturating_sub never saturates.
THEOREM InFlightCounts == Spec => []InFlightExact
<1>1. Inv => InFlightExact
    BY DEF Inv
<1> QED BY <1>1, InvariantHolds, PTL

\* No operation hands out a frame the kernel still owns.
THEOREM KernelFramesSafe == Spec => NoEarlyReuse
<1>1. Inv /\ [Next]_vars => [KernelOwned \subseteq (KernelOwned \cup Returned)']_vars
    BY StepInv
<1> QED BY <1>1, InvariantHolds, PTL DEF Spec, NoEarlyReuse
-----------------------------------------------------------------------------
(* One socket: the free lists' vectors are as large as the halves.         *)

CapInv ==
    /\ ~panicked
    /\ \A m \in Member : rx_cap[m] >= PerRx /\ tx_cap[m] >= FrameCount - PerRx

\* With one member the halves have the sizes the vectors were created with.
LEMMA HalfSizes ==
    ASSUME Members = 1
    PROVE  /\ PerRx \in Nat /\ FrameCount - PerRx \in Nat
           /\ IsFiniteSet({f \in Frame : IsRx(f)})
           /\ IsFiniteSet({f \in Frame : ~IsRx(f)})
           /\ Cardinality({f \in Frame : IsRx(f)}) = PerRx
           /\ Cardinality({f \in Frame : ~IsRx(f)}) = FrameCount - PerRx
<1> USE XdpAssumption
<1>1. PerRx \in Nat /\ PerRx <= FrameCount
    BY DEF PerRx
<1>2. ASSUME NEW f \in Frame PROVE f \in Nat /\ f < FrameCount /\ f % FrameCount = f
    BY DEF Frame
<1>3. {f \in Frame : IsRx(f)} = 0 .. PerRx - 1
    BY <1>1, <1>2 DEF IsRx, Frame
<1>4. {f \in Frame : ~IsRx(f)} = PerRx .. FrameCount - 1
    BY <1>1, <1>2 DEF IsRx, Frame
<1>5. /\ IsFiniteSet(0 .. PerRx - 1) /\ Cardinality(0 .. PerRx - 1) = PerRx
    BY <1>1, FS_Interval
<1>6. /\ IsFiniteSet(PerRx .. FrameCount - 1)
      /\ Cardinality(PerRx .. FrameCount - 1) = FrameCount - PerRx
    BY <1>1, FS_Interval
<1>7. PerRx \in Nat /\ FrameCount - PerRx \in Nat
    BY <1>1
<1>8. /\ IsFiniteSet({f \in Frame : IsRx(f)})
      /\ Cardinality({f \in Frame : IsRx(f)}) = PerRx
    BY <1>3, <1>5, Zenon
<1>9. /\ IsFiniteSet({f \in Frame : ~IsRx(f)})
      /\ Cardinality({f \in Frame : ~IsRx(f)}) = FrameCount - PerRx
    BY <1>4, <1>6, Zenon
<1> QED BY <1>7, <1>8, <1>9, Zenon

\* So a free list and the completions of its half fit together.
LEMMA NoOverflow ==
    ASSUME Members = 1, NEW fr, Good(fr), NEW m \in Member,
           NEW rcap \in Nat, NEW tcap \in Nat,
           rcap >= PerRx, tcap >= FrameCount - PerRx
    PROVE  ~ReclaimOverflows(fr, m, rcap, tcap)
<1> DEFINE c == <<"comp", m>>
           r == <<"rx_free", m>>
           t == <<"tx_free", m>>
           R == CompletedRx(fr, m)
           T == CompletedTx(fr, m)
<1>1. c \in Place /\ r \in Place /\ t \in Place /\ c # r /\ c # t
    BY DEF Place, Kind
<1>2. fr \in [Place -> SUBSET Frame]
    BY DEF Good
<1>3. R \subseteq fr[c] /\ T \subseteq fr[c]
      /\ (\A f \in R : IsRx(f)) /\ (\A f \in T : ~IsRx(f))
    BY DEF CompletedRx, CompletedTx
<1>4. (\A f \in fr[r] : IsRx(f)) /\ (\A f \in fr[t] : ~IsRx(f))
  <2>1. r[1] \in RxOnly /\ t[1] \in TxOnly
    BY DEF RxOnly, TxOnly
  <2> QED BY <1>1, <2>1 DEF Good, Allowed
<1>5. fr[r] \cap R = {} /\ fr[t] \cap T = {}
    BY <1>1, <1>3 DEF Good
<1>6. /\ IsFiniteSet(fr[r]) /\ IsFiniteSet(fr[t])
      /\ IsFiniteSet(R) /\ IsFiniteSet(T)
    BY <1>1, <1>2, <1>3, FiniteFrames
<1> HIDE DEF c, r, t, R, T
<1>7. Cardinality(fr[r]) + Cardinality(R) <= PerRx
  <2>1. fr[r] \cup R \subseteq {f \in Frame : IsRx(f)}
    BY <1>1, <1>2, <1>3, <1>4
  <2>2. Cardinality(fr[r] \cup R) <= PerRx
    BY <2>1, HalfSizes, FS_Subset
  <2>3. Cardinality(fr[r] \cup R) =
            Cardinality(fr[r]) + Cardinality(R) - Cardinality(fr[r] \cap R)
    BY <1>6, FS_Union
  <2>4. Cardinality(fr[r] \cap R) = 0 /\ Cardinality(fr[r]) \in Nat /\ Cardinality(R) \in Nat
    BY <1>5, <1>6, FS_EmptySet, FS_CardinalityType, ZenonT(60)
  <2> QED BY <2>2, <2>3, <2>4
<1>8. Cardinality(fr[t]) + Cardinality(T) <= FrameCount - PerRx
  <2>1. fr[t] \cup T \subseteq {f \in Frame : ~IsRx(f)}
    BY <1>1, <1>2, <1>3, <1>4
  <2>2. Cardinality(fr[t] \cup T) <= FrameCount - PerRx
    BY <2>1, HalfSizes, FS_Subset
  <2>3. Cardinality(fr[t] \cup T) =
            Cardinality(fr[t]) + Cardinality(T) - Cardinality(fr[t] \cap T)
    BY <1>6, FS_Union
  <2>4. Cardinality(fr[t] \cap T) = 0 /\ Cardinality(fr[t]) \in Nat /\ Cardinality(T) \in Nat
    BY <1>5, <1>6, FS_EmptySet, FS_CardinalityType, ZenonT(60)
  <2> QED BY <2>2, <2>3, <2>4
<1>9. /\ Cardinality(fr[r]) + Cardinality(R) \in Nat
      /\ Cardinality(fr[t]) + Cardinality(T) \in Nat
    BY <1>6, FS_CardinalityType
<1>10. /\ Size(fr, r) + Cardinality(R) <= rcap
       /\ Size(fr, t) + Cardinality(T) <= tcap
    BY <1>7, <1>8, <1>9, HalfSizes DEF Size
<1>11. PerRx \in Nat /\ FrameCount - PerRx \in Nat
    BY HalfSizes
<1>12. ~(Size(fr, r) + Cardinality(R) > rcap) /\ ~(Size(fr, t) + Cardinality(T) > tcap)
    BY <1>9, <1>10 DEF Size
<1> QED BY <1>12 DEF ReclaimOverflows, R, T, r, t
\* No operation fails its assertion or shrinks a vector.
LEMMA CapStep ==
    ASSUME Members = 1, Inv, CapInv, [Next]_vars
    PROVE  CapInv'
<1>1. ASSUME NEW m \in Member
      PROVE  /\ rx_cap[m] \in Nat /\ tx_cap[m] \in Nat
             /\ rx_cap[m] >= PerRx /\ tx_cap[m] >= FrameCount - PerRx
    BY DEF Inv, TypeOK, CapInv
<1>2. PerRx \in Nat /\ FrameCount - PerRx \in Nat
    BY HalfSizes
<1>3. /\ rx_cap \in [Member -> Nat] /\ tx_cap \in [Member -> Nat]
      /\ Good(frames) /\ frames \in [Place -> SUBSET Frame]
    BY DEF Inv, TypeOK
<1>4. ASSUME NEW m \in Member
      PROVE  ~ReclaimOverflows(frames, m, rx_cap[m], tx_cap[m])
    BY <1>1, <1>3, NoOverflow
<1>5. ASSUME UNCHANGED <<rx_cap, tx_cap, panicked>> PROVE CapInv'
    BY <1>5 DEF CapInv
\* It is enough that the capacities of the acting member do not shrink.
<1>6. ASSUME NEW m \in Member, NEW rc \in Nat, NEW tc \in Nat,
             rc >= rx_cap[m], tc >= tx_cap[m], panicked' = panicked,
             rx_cap' = [rx_cap EXCEPT ![m] = rc],
             tx_cap' = [tx_cap EXCEPT ![m] = tc]
      PROVE  CapInv'
  <2> SUFFICES ASSUME NEW n \in Member
               PROVE  rx_cap'[n] >= PerRx /\ tx_cap'[n] >= FrameCount - PerRx
    BY <1>6 DEF CapInv
  <2>1. CASE n = m
    <3>1. rx_cap'[n] = rc /\ tx_cap'[n] = tc
        BY <1>3, <1>6, <2>1
    <3> QED BY <3>1, <2>1, <1>1, <1>2, <1>6
  <2>2. CASE n # m
    <3>1. rx_cap'[n] = rx_cap[n] /\ tx_cap'[n] = tx_cap[n]
        BY <1>3, <1>6, <2>2
    <3> QED BY <3>1, <1>1
  <2> QED BY <2>1, <2>2
<1>7. ASSUME NEW m \in Member
      PROVE  /\ rx_cap = [rx_cap EXCEPT ![m] = rx_cap[m]]
             /\ tx_cap = [tx_cap EXCEPT ![m] = tx_cap[m]]
             /\ rx_cap[m] >= rx_cap[m] /\ tx_cap[m] >= tx_cap[m]
    BY <1>1, <1>3
<1>8. ASSUME NEW m \in Member, AllocateTxBatch(m) PROVE CapInv'
  <2>11. PICK max \in 1 .. MaxBatch :
        LET fr0 == IF ShouldDrain(m) THEN Reclaimed(frames, m) ELSE frames
            fr1 == Pooled(fr0, m, max)
            cap1 == Grow(tx_cap[m], Size(fr1, <<"tx_free", m>>))
            dry == Size(fr1, <<"tx_free", m>>) < max
        IN \E S \in PoppedSets(fr1, m, max) :
            LET fr2 == Move(fr1, S, <<"tx_free", m>>, <<"app_tx", m>>)
            IN \/ dry /\ ReclaimOverflows(fr2, m, rx_cap[m], cap1)
               \/ /\ tx_cap' = [tx_cap EXCEPT ![m] = cap1]
                  /\ UNCHANGED <<rx_cap, tx_wake_pending, panicked>>
    BY <1>8, <1>4 DEF AllocateTxBatch
  <2> DEFINE fr0 == IF ShouldDrain(m) THEN Reclaimed(frames, m) ELSE frames
             fr1 == Pooled(fr0, m, max)
             cap1 == Grow(tx_cap[m], Size(fr1, <<"tx_free", m>>))
             dry == Size(fr1, <<"tx_free", m>>) < max
  <2>12. PICK S \in PoppedSets(fr1, m, max) :
            LET fr2 == Move(fr1, S, <<"tx_free", m>>, <<"app_tx", m>>)
            IN \/ dry /\ ReclaimOverflows(fr2, m, rx_cap[m], cap1)
               \/ /\ tx_cap' = [tx_cap EXCEPT ![m] = cap1]
                  /\ UNCHANGED <<rx_cap, tx_wake_pending, panicked>>
    BY <2>11
  <2> DEFINE fr2 == Move(fr1, S, <<"tx_free", m>>, <<"app_tx", m>>)
  <2>1. \/ ReclaimOverflows(fr2, m, rx_cap[m], cap1)
        \/ /\ tx_cap' = [tx_cap EXCEPT ![m] = cap1]
           /\ UNCHANGED <<rx_cap, tx_wake_pending, panicked>>
    BY <2>12
  <2>2. Good(fr0)
    BY <1>3, ReclaimedDrains
  <2> HIDE DEF fr0
  <2>3. Good(fr1)
    BY <2>2, PooledGood
  <2> HIDE DEF fr1
  <2>4. Good(fr2)
    BY <2>3, PopGood
  <2> HIDE DEF fr2
  <2>5. <<"tx_free", m>> \in Place
    BY DEF Place, Kind
  <2>6. Size(fr1, <<"tx_free", m>>) \in Nat
    BY <2>3, <2>5, FiniteFrames DEF Good
  <2>7. cap1 \in Nat /\ cap1 >= tx_cap[m]
    BY <1>1, <2>6, GrowNat, ZenonT(60)
  <2> HIDE DEF cap1, dry
  <2>8. cap1 >= FrameCount - PerRx
    BY <2>7, <1>1, <1>2
  <2>9. ~ReclaimOverflows(fr2, m, rx_cap[m], cap1)
    BY <2>4, <2>7, <2>8, <1>1, NoOverflow
  <2>10. rx_cap' = [rx_cap EXCEPT ![m] = rx_cap[m]]
    BY <2>1, <2>9, <1>7
  <2> QED BY <2>1, <2>7, <2>9, <2>10, <1>1, <1>6, <1>7
<1>9. ASSUME NEW m \in Member, Recv(m) PROVE CapInv'
  <2>1. PICK rc \in Nat : rc >= rx_cap[m] /\ rx_cap' = [rx_cap EXCEPT ![m] = rc]
    BY <1>9, RecvInv
  <2>2. tx_cap' = [tx_cap EXCEPT ![m] = tx_cap[m]] /\ panicked' = panicked
    BY <1>7, <1>9 DEF Recv
  <2> QED BY <2>1, <2>2, <1>1, <1>6, <1>7, ZenonT(60)
<1>10. ASSUME NEW m \in Member, DropLocal(m) PROVE CapInv'
  <2> DEFINE rc == Grow(rx_cap[m], Size(frames, <<"rx_free", m>>) + 1)
             tc == Grow(tx_cap[m], Size(frames, <<"tx_free", m>>) + 1)
  <2>1. <<"rx_free", m>> \in Place /\ <<"tx_free", m>> \in Place
    BY DEF Place, Kind
  <2>2. /\ Size(frames, <<"rx_free", m>>) + 1 \in Nat
        /\ Size(frames, <<"tx_free", m>>) + 1 \in Nat
    BY <2>1, <1>3, FiniteFrames
  <2>3. rc \in Nat /\ rc >= rx_cap[m] /\ tc \in Nat /\ tc >= tx_cap[m]
    BY <2>2, <1>1, GrowNat, ZenonT(60)
  <2>4. /\ panicked' = panicked
        /\ \/ rx_cap' = [rx_cap EXCEPT ![m] = rc] /\ tx_cap' = tx_cap
           \/ tx_cap' = [tx_cap EXCEPT ![m] = tc] /\ rx_cap' = rx_cap
    BY <1>10, ZenonT(60) DEF DropLocal
  <2> HIDE DEF rc, tc
  <2>5. CASE rx_cap' = [rx_cap EXCEPT ![m] = rc] /\ tx_cap' = tx_cap
    <3>1. tx_cap' = [tx_cap EXCEPT ![m] = tx_cap[m]]
        BY <2>5, <1>7
    <3> QED BY <2>3, <2>4, <2>5, <3>1, <1>1, <1>6, <1>7, ZenonT(60)
  <2>6. CASE tx_cap' = [tx_cap EXCEPT ![m] = tc] /\ rx_cap' = rx_cap
    <3>1. rx_cap' = [rx_cap EXCEPT ![m] = rx_cap[m]]
        BY <2>6, <1>7
    <3> QED BY <2>3, <2>4, <2>6, <3>1, <1>1, <1>6, <1>7, ZenonT(60)
  <2> QED BY <2>4, <2>5, <2>6
<1>11. ASSUME NEW m \in Member,
              Send(m) \/ NotifyTx(m) \/ DrainTxCompletions(m) \/ DropRemote(m)
       PROVE  CapInv'
  <2>1. UNCHANGED <<rx_cap, tx_cap, panicked>>
    BY <1>11, <1>4 DEF Send, SendPanics, NotifyTx, DrainTxCompletions, DropRemote
  <2> QED BY <2>1, <1>5
<1>14. ASSUME NEW m \in Member, SendEndpointBatch(m) PROVE CapInv'
  <2>1. ~SendPanics(m)
    BY <1>4 DEF SendPanics
  <2>2. PICK tc \in Nat : /\ tc >= tx_cap[m] /\ tx_cap' = [tx_cap EXCEPT ![m] = tc]
                          /\ UNCHANGED <<rx_cap, panicked>>
    BY <1>14, <2>1, SendBatchInv
  <2>3. rx_cap' = [rx_cap EXCEPT ![m] = rx_cap[m]]
    BY <2>2, <1>7
  <2> QED BY <2>2, <2>3, <1>1, <1>6, <1>7, ZenonT(60)
<1>12. ASSUME NEW m \in Member, Kernel(m) PROVE CapInv'
  <2>1. UNCHANGED <<rx_cap, tx_cap, panicked>>
    BY <1>12 DEF Kernel, KernelFill, KernelReceive, KernelTransmit,
                 KernelComplete, KernelMoves
  <2> QED BY <2>1, <1>5
<1>13. CASE UNCHANGED vars
    BY <1>13, <1>5 DEF vars
<1> QED BY <1>8, <1>9, <1>10, <1>11, <1>12, <1>13, <1>14 DEF Next, Socket

\* For a socket with its own UMEM the unchecked writes of the completion
\* reclaim stay within the vectors' capacities, for every frame count, ring
\* size and interleaving.
THEOREM SingleSocketCapacity ==
    ASSUME Members = 1
    PROVE  Spec => []ReclaimHasCapacity
<1>1. Init => CapInv
  <2> SUFFICES ASSUME Init PROVE CapInv
    OBVIOUS
  <2>1. PerRx \in Nat /\ FrameCount - PerRx \in Nat
    BY HalfSizes
  <2> QED BY <2>1 DEF Init, CapInv
<1>2. Inv /\ CapInv /\ [Next]_vars => CapInv'
    BY CapStep
<1>3. CapInv => ReclaimHasCapacity
    BY DEF CapInv, ReclaimHasCapacity
<1> QED BY <1>1, <1>2, <1>3, InvariantHolds, PTL DEF Spec
=============================================================================
