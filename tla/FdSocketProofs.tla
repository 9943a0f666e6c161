--------------------------- MODULE FdSocketProofs ---------------------------
(***************************************************************************)
(* Proofs about FdSocket for any number of connections and requests, and   *)
(* for tables and messages of any size.  The first part shows that the     *)
(* slots and numbers a message is given exist and differ from each other,  *)
(* by counting; the second part follows who owns an open descriptor.       *)
(***************************************************************************)
EXTENDS FdSocket, FiniteSetTheorems, FunctionTheorems, TLAPS

\* What is assumed of the constants.
LEMMA Constants ==
    /\ \A f \in File : f \in Nat /\ f # None
    /\ \A n \in Fd : n \in Nat /\ n # None
    /\ MaxAncillary \in Nat
  BY FdSocketAssumption

-----------------------------------------------------------------------------
(* Ranks: the number of elements of a finite set with a smaller key. *)

KeyRank(x, S, d) == Cardinality({z \in S : d[z] < d[x]})

\* Elements with different keys have different ranks, and every number below
\* the size of the set is a rank.
LEMMA RankBijective ==
    ASSUME NEW S, IsFiniteSet(S), NEW d \in [S -> Int],
           \A x, y \in S : d[x] = d[y] => x = y
    PROVE  /\ \A x \in S : KeyRank(x, S, d) \in 0..(Cardinality(S) - 1)
           /\ \A x, y \in S : KeyRank(x, S, d) = KeyRank(y, S, d) => x = y
           /\ \A m \in 0..(Cardinality(S) - 1) : \E x \in S : KeyRank(x, S, d) = m
  <1> DEFINE Below(x) == {z \in S : d[z] < d[x]}
             T == 0..(Cardinality(S) - 1)
             rank == [x \in S |-> Cardinality(Below(x))]
  <1>1. Cardinality(S) \in Nat
    BY FS_CardinalityType
  <1>2. ASSUME NEW x \in S
        PROVE  IsFiniteSet(Below(x)) /\ Cardinality(Below(x)) \in T
    <2>1. Below(x) \in SUBSET S /\ Below(x) # S
      OBVIOUS
    <2> HIDE DEF Below
    <2>2. /\ IsFiniteSet(Below(x))
          /\ Cardinality(Below(x)) <= Cardinality(S)
          /\ Cardinality(S) # Cardinality(Below(x))
      BY <2>1, FS_Subset
    <2>3. Cardinality(Below(x)) \in Nat
      BY <2>2, FS_CardinalityType
    <2> QED
      BY <1>1, <2>2, <2>3
  <1>3. ASSUME NEW x \in S, NEW y \in S, d[x] < d[y]
        PROVE  Cardinality(Below(x)) # Cardinality(Below(y))
    <2>1. Below(x) \in SUBSET Below(y) /\ Below(x) # Below(y)
      <3>1. x \in Below(y) /\ x \notin Below(x)
        BY <1>3
      <3>2. ASSUME NEW z \in Below(x)
            PROVE  z \in Below(y)
        BY <1>3
      <3> QED
        BY <3>1, <3>2
    <2> HIDE DEF Below
    <2> QED
      BY <1>2, <2>1, FS_Subset
  <1>4. ASSUME NEW x \in S, NEW y \in S, Cardinality(Below(x)) = Cardinality(Below(y))
        PROVE  x = y
    <2>1. ~(d[x] < d[y]) /\ ~(d[y] < d[x])
      <3> HIDE DEF Below
      <3> QED
        BY <1>3, <1>4
    <2>2. d[x] = d[y]
      BY <2>1
    <2> QED
      BY <2>2
  <1>5. rank \in Injection(S, T)
    <2> HIDE DEF Below
    <2>1. rank \in [S -> T]
      BY <1>2
    <2>2. \A x, y \in S : rank[x] = rank[y] => x = y
      BY <1>4
    <2> HIDE DEF rank
    <2> QED
      BY <2>1, <2>2, Fun_IsInj
  <1>6. IsFiniteSet(T) /\ Cardinality(T) = Cardinality(S)
    <2>1. 0 \in Int /\ Cardinality(S) - 1 \in Int
      BY <1>1
    <2>2. /\ IsFiniteSet(0..(Cardinality(S) - 1))
          /\ Cardinality(0..(Cardinality(S) - 1)) =
                IF 0 > Cardinality(S) - 1 THEN 0 ELSE (Cardinality(S) - 1) - 0 + 1
      BY <2>1, FS_Interval, SMTT(30)
    <2> QED
      BY <1>1, <2>2
  <1>7. rank \in Surjection(S, T)
    <2> HIDE DEF rank, T
    <2> QED
      BY <1>5, <1>6, FS_Injection
  <1>8. \A m \in T : \E x \in S : Cardinality(Below(x)) = m
    <2> HIDE DEF Below, T
    <2>1. \A m \in T : \E x \in S : rank[x] = m
      <3> HIDE DEF rank
      <3> QED
        BY <1>7, Fun_SurjectionProperties
    <2> QED
      BY <2>1
  <1>9. \A x : KeyRank(x, S, d) = Cardinality(Below(x))
    BY DEF KeyRank
  <1> HIDE DEF Below
  <1> QED
    BY <1>2, <1>4, <1>8, <1>9

\* The same for Rank, which orders numbers by themselves.
LEMMA RankOfNumbers ==
    ASSUME NEW S \in SUBSET Int, IsFiniteSet(S)
    PROVE  /\ \A x \in S : Rank(x, S) \in 0..(Cardinality(S) - 1)
           /\ \A x, y \in S : Rank(x, S) = Rank(y, S) => x = y
           /\ \A m \in 0..(Cardinality(S) - 1) : \E x \in S : Rank(x, S) = m
  <1> DEFINE d == [x \in S |-> x]
  <1>1. d \in [S -> Int] /\ \A x, y \in S : d[x] = d[y] => x = y
    OBVIOUS
  <1>2. ASSUME NEW x \in S
        PROVE  {z \in S : d[z] < d[x]} = {z \in S : z < x}
    OBVIOUS
  <1> HIDE DEF d
  <1>3. ASSUME NEW x \in S
        PROVE  KeyRank(x, S, d) = Rank(x, S)
    BY <1>2 DEF KeyRank, Rank
  <1>4. /\ \A x \in S : KeyRank(x, S, d) \in 0..(Cardinality(S) - 1)
        /\ \A x, y \in S : KeyRank(x, S, d) = KeyRank(y, S, d) => x = y
        /\ \A m \in 0..(Cardinality(S) - 1) : \E x \in S : KeyRank(x, S, d) = m
    BY <1>1, RankBijective, ZenonT(60)
  <1> QED
    BY <1>3, <1>4

\* The distance of a slot from the slot l, without the modulus.
LEMMA DistanceFrom ==
    ASSUME NEW l \in Slot, NEW s \in Slot
    PROVE  (s + W - l - 1) % W = IF s > l THEN s - l - 1 ELSE s + W - l - 1
  <1>1. W \in Nat \ {0} /\ l \in 0..(W - 1) /\ s \in 0..(W - 1)
    BY FdSocketAssumption DEF Slot
  <1>2. ASSUME NEW a \in 0..(W - 1)
        PROVE  a % W = a /\ (a + W) % W = a
    BY <1>1
  <1>3. CASE s > l
    <2>1. s - l - 1 \in 0..(W - 1) /\ s + W - l - 1 = (s - l - 1) + W
      BY <1>1, <1>3
    <2> QED
      BY <1>2, <1>3, <2>1
  <1>4. CASE ~(s > l)
    <2>1. s + W - l - 1 \in 0..(W - 1)
      BY <1>1, <1>4
    <2> QED
      BY <1>2, <1>4, <2>1
  <1> QED
    BY <1>3, <1>4

\* Different slots are at different distances from the last one.
LEMMA DistanceInjective ==
    ASSUME last \in Slot
    PROVE  /\ \A s \in Slot : Distance(s) \in Slot
           /\ \A s, t \in Slot : Distance(s) = Distance(t) => s = t
  <1>1. W \in Nat \ {0} /\ last \in 0..(W - 1)
    BY FdSocketAssumption DEF Slot
  <1>2. \A s \in Slot : s \in 0..(W - 1)
    BY DEF Slot
  <1>3. \A s \in Slot : Distance(s) = IF s > last THEN s - last - 1 ELSE s + W - last - 1
    BY DistanceFrom DEF Distance
  <1>4. ASSUME NEW s \in Slot
        PROVE  Distance(s) \in Slot
    BY <1>1, <1>2, <1>3 DEF Slot
  <1>5. ASSUME NEW s \in Slot, NEW t \in Slot, Distance(s) = Distance(t)
        PROVE  s = t
    BY <1>1, <1>2, <1>3, <1>5
  <1> QED
    BY <1>4, <1>5

\* State::add finds a slot for every descriptor of a message if there are enough
\* of them: a free one, and a different one for every descriptor.
LEMMA SlotForFree ==
    ASSUME last \in Slot, NEW F \in SUBSET File, IsFiniteSet(F),
           Cardinality(F) <= Cardinality(FreeSlots)
    PROVE  /\ \A f \in F : /\ SlotFor(f, F) \in FreeSlots
                           /\ Cardinality({t \in FreeSlots : Distance(t) < Distance(SlotFor(f, F))})
                                = Rank(f, F)
           /\ \A f, g \in F : SlotFor(f, F) = SlotFor(g, F) => f = g
  <1> DEFINE d == [s \in FreeSlots |-> Distance(s)]
  <1>1. FreeSlots \in SUBSET Slot /\ IsFiniteSet(FreeSlots)
    <2>1. FreeSlots \in SUBSET (0..(W - 1))
      BY DEF FreeSlots, Slot
    <2>2. 0 \in Int /\ W - 1 \in Int
      BY FdSocketAssumption
    <2> QED
      BY <2>1, <2>2, FS_Interval, FS_Subset DEF Slot
  <1>2. /\ d \in [FreeSlots -> Int]
        /\ \A x, y \in FreeSlots : d[x] = d[y] => x = y
    <2>1. \A s \in FreeSlots : Distance(s) \in Int
      BY <1>1, DistanceInjective, FdSocketAssumption DEF Slot
    <2>2. \A x, y \in FreeSlots : Distance(x) = Distance(y) => x = y
      BY <1>1, DistanceInjective
    <2> QED
      BY <2>1, <2>2
  <1>3. ASSUME NEW s \in FreeSlots
        PROVE  {t \in FreeSlots : d[t] < d[s]} = {t \in FreeSlots : Distance(t) < Distance(s)}
    OBVIOUS
  <1>4. \A m \in 0..(Cardinality(FreeSlots) - 1) :
           \E s \in FreeSlots : Cardinality({t \in FreeSlots : Distance(t) < Distance(s)}) = m
    <2> HIDE DEF d
    <2> TAKE m \in 0..(Cardinality(FreeSlots) - 1)
    <2>1. PICK s \in FreeSlots : KeyRank(s, FreeSlots, d) = m
      BY <1>1, <1>2, RankBijective
    <2> WITNESS s \in FreeSlots
    <2> QED
      BY <1>3, <2>1 DEF KeyRank
  <1>5. F \in SUBSET Int /\ Cardinality(F) \in Nat /\ Cardinality(FreeSlots) \in Nat
    BY <1>1, FdSocketAssumption, FS_CardinalityType
  <1>6. ASSUME NEW f \in F
        PROVE  \E s \in FreeSlots :
                  Cardinality({t \in FreeSlots : Distance(t) < Distance(s)}) = Rank(f, F)
    <2>1. Rank(f, F) \in 0..(Cardinality(F) - 1)
      BY <1>5, RankOfNumbers
    <2>2. Rank(f, F) \in 0..(Cardinality(FreeSlots) - 1)
      BY <1>5, <2>1
    <2> QED
      BY <1>4, <2>2
  <1>7. ASSUME NEW f \in F
        PROVE  /\ SlotFor(f, F) \in FreeSlots
               /\ Cardinality({t \in FreeSlots : Distance(t) < Distance(SlotFor(f, F))})
                    = Rank(f, F)
    BY <1>6 DEF SlotFor
  <1>8. ASSUME NEW f \in F, NEW g \in F, SlotFor(f, F) = SlotFor(g, F)
        PROVE  f = g
    <2>1. Rank(f, F) = Rank(g, F)
      BY <1>7, <1>8
    <2> QED
      BY <1>5, <2>1, RankOfNumbers
  <1> QED
    BY <1>7, <1>8

\* The kernel finds a free number for every descriptor of a message if there are
\* enough of them, and a different one for every descriptor.
LEMMA FdForFree ==
    ASSUME NEW F \in SUBSET File, IsFiniteSet(F), Cardinality(F) <= Cardinality(FreeFds)
    PROVE  /\ \A f \in F : FdFor(f, F) \in FreeFds
           /\ \A f, g \in F : FdFor(f, F) = FdFor(g, F) => f = g
  <1>1. FreeFds \in SUBSET Int /\ IsFiniteSet(FreeFds)
    <2>1. FreeFds \in SUBSET Fd
      BY DEF FreeFds
    <2>2. IsFiniteSet(FreeFds)
      BY <2>1, FdSocketAssumption, FS_Subset
    <2> QED
      BY <2>1, <2>2, FdSocketAssumption
  <1>2. F \in SUBSET Int /\ Cardinality(F) \in Nat /\ Cardinality(FreeFds) \in Nat
    BY <1>1, FdSocketAssumption, FS_CardinalityType
  <1>3. ASSUME NEW f \in F
        PROVE  FdFor(f, F) \in FreeFds /\ Rank(FdFor(f, F), FreeFds) = Rank(f, F)
    <2>1. Rank(f, F) \in 0..(Cardinality(F) - 1)
      BY <1>2, RankOfNumbers
    <2>2. Rank(f, F) \in 0..(Cardinality(FreeFds) - 1)
      BY <1>2, <2>1
    <2>3. \E n \in FreeFds : Rank(n, FreeFds) = Rank(f, F)
      BY <1>1, <2>2, RankOfNumbers
    <2> QED
      BY <2>3 DEF FdFor
  <1>4. ASSUME NEW f \in F, NEW g \in F, FdFor(f, F) = FdFor(g, F)
        PROVE  f = g
    <2>1. Rank(f, F) = Rank(g, F)
      BY <1>3, <1>4
    <2> QED
      BY <1>2, <2>1, RankOfNumbers
  <1> QED
    BY <1>3, <1>4

-----------------------------------------------------------------------------
(* What a message that fits does. *)

\* A finite set of numbers that is not empty has a greatest element, whose rank
\* is the greatest.
LEMMA MaxExists ==
    ASSUME NEW S \in SUBSET Int, IsFiniteSet(S), S # {}
    PROVE  \E x \in S : Rank(x, S) = Cardinality(S) - 1 /\ \A y \in S : y <= x
  <1>1. Cardinality(S) \in Nat /\ Cardinality(S) # 0
    BY FS_CardinalityType, FS_EmptySet
  <1>2. PICK x \in S : Rank(x, S) = Cardinality(S) - 1
    <2>1. Cardinality(S) - 1 \in 0..(Cardinality(S) - 1)
      BY <1>1
    <2> QED
      BY <2>1, RankOfNumbers
  <1>3. IsFiniteSet(S \ {x}) /\ Cardinality(S \ {x}) = Cardinality(S) - 1
    BY FS_RemoveElement
  <1>4. {y \in S : y < x} = S \ {x}
    <2> DEFINE T == {y \in S : y < x}
    <2>1. T \in SUBSET (S \ {x})
      OBVIOUS
    <2>2. Cardinality(T) = Cardinality(S) - 1
      BY <1>2 DEF Rank
    <2> HIDE DEF T
    <2>3. T = S \ {x}
      BY <1>3, <2>1, <2>2, FS_Subset
    <2> QED
      BY <2>3 DEF T
  <1>5. \A y \in S : y <= x
    BY <1>4
  <1> QED
    BY <1>2, <1>5

\* A message is a finite set of files.
WireInv == \A k \in Conn : IsFiniteSet(wire[k])

\* A message that fits gets a free slot and a free number for every descriptor
\* it carries, and the client is told about them.
Received(k, F) ==
    /\ \A f \in F : SlotFor(f, F) \in FreeSlots /\ FdFor(f, F) \in FreeFds
    /\ \A f, g \in F : SlotFor(f, F) = SlotFor(g, F) => f = g
    /\ \A f, g \in F : FdFor(f, F) = FdFor(g, F) => f = g
    /\ \A f \in F : fds'[SlotFor(f, F)] = FdFor(f, F)
    /\ \A s \in Slot : (\A f \in F : SlotFor(f, F) # s) => fds'[s] = fds[s]
    /\ \A f \in F : table'[FdFor(f, F)] = f
    /\ \A n \in Fd : (\A f \in F : FdFor(f, F) # n) => table'[n] = table[n]
    /\ \E f \in F : last' = SlotFor(f, F) /\ Rank(f, F) = Cardinality(F) - 1
    /\ guard' = [guard EXCEPT ![k] = @ \cup {SlotFor(f, F) : f \in F}]
    /\ \A f \in F : reply'[k].slots[SlotFor(f, F)] = f
    /\ \A s \in Slot : (\A f \in F : SlotFor(f, F) # s) => reply'[k].slots[s] = None
    /\ \A j \in Conn \ {k} : reply'[j] = reply[j]

\* Serve does that to a message the ancillary buffer takes.
LEMMA ServeReceives ==
    ASSUME TypeOK, WireInv, NEW k \in Conn, Serve(k), Cardinality(wire[k]) <= MaxAncillary
    PROVE  Received(k, wire[k])
  <1> SUFFICES ASSUME NEW F, F = wire[k]
               PROVE  Received(k, F)
    OBVIOUS
  <1> DEFINE slots == {SlotFor(f, F) : f \in F}
             answer == [s \in Slot |-> IF s \in slots THEN CHOOSE f \in F : SlotFor(f, F) = s
                                       ELSE None]
  <1>1. F \in SUBSET File /\ F \in SUBSET Int /\ IsFiniteSet(F) /\ F # {}
    <2>1. F # {}
      BY DEF Serve
    <2>2. F \in SUBSET File /\ IsFiniteSet(F)
      BY DEF TypeOK, WireInv
    <2> QED
      BY <2>1, <2>2, Constants
  <1>2. ~(Cardinality(F) > MaxAncillary)
    BY <1>1, FS_CardinalityType, FdSocketAssumption
  <1>3. /\ Cardinality(F) <= Cardinality(FreeFds)
        /\ Cardinality(F) <= Cardinality(FreeSlots)
        /\ table' = [n \in Fd |-> IF \E f \in F : FdFor(f, F) = n
                                  THEN CHOOSE f \in F : FdFor(f, F) = n ELSE table[n]]
        /\ fds' = [s \in Slot |-> IF s \in slots
                                  THEN FdFor(CHOOSE f \in F : SlotFor(f, F) = s, F)
                                  ELSE fds[s]]
        /\ last' = SlotFor(CHOOSE f \in F : \A g \in F : g <= f, F)
        /\ guard' = [guard EXCEPT ![k] = @ \cup slots]
        /\ reply' = [reply EXCEPT ![k] = [num |-> Cardinality(F), slots |-> answer]]
    BY <1>2 DEF Serve
  <1>4. /\ \A f \in F : SlotFor(f, F) \in FreeSlots
        /\ \A f, g \in F : SlotFor(f, F) = SlotFor(g, F) => f = g
    BY <1>1, <1>3, SlotForFree DEF TypeOK
  <1>5. /\ \A f \in F : FdFor(f, F) \in FreeFds
        /\ \A f, g \in F : FdFor(f, F) = FdFor(g, F) => f = g
    BY <1>1, <1>3, FdForFree
  <1>6. FreeSlots \subseteq Slot /\ FreeFds \subseteq Fd
    BY DEF FreeSlots, FreeFds
  <1>7. ASSUME NEW f \in F
        PROVE  (CHOOSE g \in F : SlotFor(g, F) = SlotFor(f, F)) = f
    BY <1>4
  <1>8. ASSUME NEW f \in F
        PROVE  (CHOOSE g \in F : FdFor(g, F) = FdFor(f, F)) = f
    BY <1>5
  <1>9. ASSUME NEW f \in F
        PROVE  /\ fds'[SlotFor(f, F)] = FdFor(f, F)
               /\ table'[FdFor(f, F)] = f
               /\ answer[SlotFor(f, F)] = f
    <2>1. SlotFor(f, F) \in Slot /\ SlotFor(f, F) \in slots /\ FdFor(f, F) \in Fd
      BY <1>4, <1>5, <1>6
    <2>2. fds'[SlotFor(f, F)] = FdFor(f, F)
      BY <1>3, <1>7, <2>1
    <2>3. table'[FdFor(f, F)] = f
      BY <1>3, <1>8, <2>1
    <2>4. answer[SlotFor(f, F)] = f
      BY <1>7, <2>1
    <2> QED
      BY <2>2, <2>3, <2>4
  <1>10. ASSUME NEW s \in Slot, \A f \in F : SlotFor(f, F) # s
         PROVE  fds'[s] = fds[s] /\ answer[s] = None
    BY <1>3, <1>10
  <1>11. ASSUME NEW n \in Fd, \A f \in F : FdFor(f, F) # n
         PROVE  table'[n] = table[n]
    BY <1>3, <1>11
  <1>12. \E f \in F : last' = SlotFor(f, F) /\ Rank(f, F) = Cardinality(F) - 1
    <2>1. PICK x \in F : Rank(x, F) = Cardinality(F) - 1 /\ \A y \in F : y <= x
      BY <1>1, MaxExists
    <2>2. (CHOOSE f \in F : \A g \in F : g <= f) = x
      <3>1. ASSUME NEW y \in F, \A g \in F : g <= y
            PROVE  y = x
        BY <1>1, <2>1, <3>1
      <3> QED
        BY <2>1, <3>1
    <2> QED
      BY <1>3, <2>1, <2>2
  <1>13. reply'[k].slots = answer /\ \A j \in Conn \ {k} : reply'[j] = reply[j]
    <2> HIDE DEF answer
    <2> QED
      BY <1>3 DEF TypeOK
  <1> HIDE DEF answer
  <1> QED
    <2>1. \A f \in F : SlotFor(f, F) \in FreeSlots /\ FdFor(f, F) \in FreeFds
      BY <1>4, <1>5
    <2>2. /\ \A f \in F : fds'[SlotFor(f, F)] = FdFor(f, F)
          /\ \A f \in F : table'[FdFor(f, F)] = f
          /\ \A f \in F : reply'[k].slots[SlotFor(f, F)] = f
      BY <1>9, <1>13
    <2>3. \A s \in Slot : (\A f \in F : SlotFor(f, F) # s) =>
             fds'[s] = fds[s] /\ reply'[k].slots[s] = None
      BY <1>10, <1>13
    <2>4. \A n \in Fd : (\A f \in F : FdFor(f, F) # n) => table'[n] = table[n]
      BY <1>11
    <2>5. guard' = [guard EXCEPT ![k] = @ \cup {SlotFor(f, F) : f \in F}]
      BY <1>3
    <2> QED
      BY <1>4, <1>5, <1>12, <1>13, <2>1, <2>2, <2>3, <2>4, <2>5, Zenon DEF Received

\* A longer message changes nothing but the client's answer.
LEMMA ServeRefuses ==
    ASSUME TypeOK, WireInv, NEW k \in Conn, Serve(k), ~(Cardinality(wire[k]) <= MaxAncillary)
    PROVE  /\ UNCHANGED <<table, fds, last, guard>>
           /\ reply' = [reply EXCEPT ![k] = [num |-> ERROR_NUM, slots |-> NoHandles]]
  <1>1. IsFiniteSet(wire[k])
    BY DEF WireInv
  <1>2. Cardinality(wire[k]) > MaxAncillary
    BY <1>1, FS_CardinalityType, FdSocketAssumption
  <1> QED
    BY <1>2 DEF Serve, serverVars

-----------------------------------------------------------------------------
(* Types. *)

\* The initial states have the types, and no message.
LEMMA InitType == Init => TypeOK /\ WireInv
  <1> SUFFICES ASSUME Init PROVE TypeOK /\ WireInv
    OBVIOUS
  <1>1. 0 \in Slot
    BY FdSocketAssumption DEF Slot
  <1>2. WireInv
    BY FS_EmptySet DEF Init, WireInv
  <1>3. TypeOK
    BY <1>1 DEF Init, TypeOK, NoHandles
  <1> QED
    BY <1>2, <1>3

\* Closing and emptying keep the types of the table and of the slots.
LEMMA CloseTypes ==
    ASSUME TypeOK
    PROVE  /\ \A N : CloseFds(N) \in [Fd -> File \cup {None}]
           /\ \A S : Empty(S) \in [Slot -> Fd \cup {None}]
           /\ \A S : Used(S) \in [Conn -> [Slot -> File \cup {None}]]
  BY DEF TypeOK, CloseFds, Empty, Used

\* Every step keeps the types, and messages are finite.
LEMMA TypeStep == TypeOK /\ WireInv /\ [Next]_vars => TypeOK' /\ WireInv'
  <1> SUFFICES ASSUME TypeOK, WireInv, [Next]_vars PROVE TypeOK' /\ WireInv'
    OBVIOUS
  <1> USE DEF clientVars, serverVars, reqVars
  <1>1. ASSUME NEW k \in Conn, NewRemoteFDs(k)
        PROVE  TypeOK' /\ WireInv'
    BY <1>1 DEF NewRemoteFDs, TypeOK, WireInv
  <1>2. ASSUME NEW k \in Conn, NEW F \in SUBSET (File \ sent), Send(k, F)
        PROVE  TypeOK' /\ WireInv'
    <2>1. Cardinality(F) \in Nat /\ IsFiniteSet(F)
      BY <1>2, FS_CardinalityType DEF Send
    <2>2. WireInv'
      BY <1>2, <2>1 DEF Send, TypeOK, WireInv
    <2> QED
      BY <1>2, <2>1, <2>2 DEF Send, TypeOK
  <1>3. ASSUME NEW k \in Conn, Receive(k)
        PROVE  TypeOK' /\ WireInv'
    <2> DEFINE h == [s \in Slot |-> IF /\ Outcome(reply[k].num, asked[k]) = "ok"
                                       /\ reply[k].slots[s] # None
                                    THEN reply[k].slots[s] ELSE handles[k][s]]
    <2>1. reply[k].slots \in [Slot -> File \cup {None}]
      BY <1>3 DEF Receive, TypeOK
    <2>2. h \in [Slot -> File \cup {None}]
      BY <2>1 DEF TypeOK
    <2>3. handles' = [handles EXCEPT ![k] = h]
      BY <1>3 DEF Receive
    <2> HIDE DEF h
    <2> QED
      BY <1>3, <2>2, <2>3 DEF Receive, TypeOK, WireInv
  <1>4. ASSUME NEW k \in Conn, CloseConn(k)
        PROVE  TypeOK' /\ WireInv'
    BY <1>4 DEF CloseConn, NoHandles, TypeOK, WireInv
  <1>5. ASSUME NEW k \in Conn, Serve(k)
        PROVE  TypeOK' /\ WireInv'
    <2>1. WireInv' /\ wire' \in [Conn -> SUBSET File]
      BY <1>5, FS_EmptySet DEF Serve, TypeOK, WireInv
    <2>2. CASE Cardinality(wire[k]) <= MaxAncillary
      <3>1. PICK F \in SUBSET File : F = wire[k] /\ IsFiniteSet(F)
        BY DEF TypeOK, WireInv
      <3>2. Received(k, F)
        BY <1>5, <2>2, <3>1, ServeReceives
      <3>3. \A f \in F : SlotFor(f, F) \in Slot /\ FdFor(f, F) \in Fd
        BY <3>2 DEF Received, FreeSlots, FreeFds
      <3>4. last' \in Slot /\ guard' \in [Conn -> SUBSET Slot]
        BY <3>2, <3>3 DEF Received, TypeOK
      <3>5. ~(Cardinality(wire[k]) > MaxAncillary)
        <4>1. Cardinality(F) \in Nat
          BY <3>1, FS_CardinalityType
        <4> QED
          BY <2>2, <3>1, <4>1, Constants
      <3>6. fds' \in [Slot -> Fd \cup {None}]
        <4>1. fds' = [s \in Slot |-> fds'[s]]
          BY <1>5, <3>5 DEF Serve
        <4>2. \A s \in Slot : fds'[s] \in Fd \cup {None}
          BY <3>2, <3>3 DEF Received, TypeOK
        <4> QED
          BY <4>1, <4>2
      <3>7. table' \in [Fd -> File \cup {None}]
        <4>1. table' = [n \in Fd |-> table'[n]]
          BY <1>5, <3>5 DEF Serve
        <4>2. ASSUME NEW n \in Fd
              PROVE  table'[n] \in File \cup {None}
          <5>1. CASE \E f \in F : FdFor(f, F) = n
            BY <3>2, <5>1 DEF Received
          <5>2. CASE \A f \in F : FdFor(f, F) # n
            BY <3>2, <5>2 DEF Received, TypeOK
          <5> QED
            BY <5>1, <5>2
        <4> QED
          BY <4>1, <4>2
      <3>8. reply' \in [Conn -> [num : Nat, slots : [Slot -> File \cup {None}]] \cup {None}]
        <4>1. PICK a : /\ reply' = [reply EXCEPT ![k] = [num |-> Cardinality(F), slots |-> a]]
                       /\ a = [s \in Slot |-> a[s]]
          BY <1>5, <3>1, <3>5 DEF Serve
        <4>2. reply'[k].slots = a
          BY <4>1 DEF TypeOK
        <4>3. \A s \in Slot : a[s] \in File \cup {None}
          BY <3>1, <3>2, <4>2 DEF Received
        <4>4. a \in [Slot -> File \cup {None}]
          BY <4>1, <4>3
        <4>5. Cardinality(F) \in Nat
          BY <3>1, FS_CardinalityType
        <4> QED
          BY <4>1, <4>4, <4>5 DEF TypeOK
      <3> QED
        BY <1>5, <2>1, <3>4, <3>6, <3>7, <3>8 DEF Serve, TypeOK
    <2>3. CASE ~(Cardinality(wire[k]) <= MaxAncillary)
      <3>1. /\ UNCHANGED <<table, fds, last, guard>>
            /\ reply' = [reply EXCEPT ![k] = [num |-> ERROR_NUM, slots |-> NoHandles]]
        BY <1>5, <2>3, ServeRefuses
      <3>2. reply' \in [Conn -> [num : Nat, slots : [Slot -> File \cup {None}]] \cup {None}]
        BY <3>1 DEF TypeOK, ERROR_NUM, NoHandles
      <3> QED
        BY <1>5, <2>1, <3>1, <3>2 DEF Serve, TypeOK
    <2> QED
      BY <2>2, <2>3
  <1>6. ASSUME NEW k \in Conn, ServeClose(k) \/ ServeEof(k)
        PROVE  TypeOK' /\ WireInv'
    <2>1. /\ table' \in [Fd -> File \cup {None}]
          /\ fds' \in [Slot -> Fd \cup {None}]
          /\ guard' \in [Conn -> SUBSET Slot]
      BY <1>6 DEF ServeClose, ServeEof, GuardClose, TypeOK
    <2> QED
      <3>1. CASE ServeClose(k)
        BY <2>1, <3>1 DEF ServeClose, NoHandles, TypeOK, WireInv
      <3>2. CASE ServeEof(k)
        BY <2>1, <3>2 DEF ServeEof, TypeOK, WireInv
      <3> QED
        BY <1>6, <3>1, <3>2
  <1>7. ASSUME NEW r \in Req, NEW S \in SUBSET Known, TakeAdditional(r, S) \/ TakeLeak(r, S)
        PROVE  TypeOK' /\ WireInv'
    <2>1. {fds[s] : s \in S} \in SUBSET Fd
      BY <1>7 DEF TakeAdditional, TakeLeak, Known, TypeOK
    <2>2. /\ fds' \in [Slot -> Fd \cup {None}]
          /\ handles' \in [Conn -> [Slot -> File \cup {None}]]
      BY <1>7, CloseTypes DEF TakeAdditional, TakeLeak
    <2> QED
      <3>1. CASE TakeAdditional(r, S)
        BY <2>1, <2>2, <3>1 DEF TakeAdditional, TypeOK, WireInv
      <3>2. CASE TakeLeak(r, S)
        BY <2>1, <2>2, <3>2 DEF TakeLeak, TypeOK, WireInv
      <3> QED
        BY <1>7, <3>1, <3>2
  <1>8. ASSUME NEW r \in Req, NEW S \in SUBSET Known, TakeFails(r, S)
        PROVE  TypeOK' /\ WireInv'
    <2>1. /\ fds' \in [Slot -> Fd \cup {None}]
          /\ table' \in [Fd -> File \cup {None}]
          /\ handles' \in [Conn -> [Slot -> File \cup {None}]]
      BY <1>8, CloseTypes DEF TakeFails
    <2> QED
      BY <1>8, <2>1 DEF TakeFails, TypeOK, WireInv
  <1>9. ASSUME NEW r \in Req, CreateStep(r)
        PROVE  TypeOK' /\ WireInv'
    <2>1. table' \in [Fd -> File \cup {None}]
      BY <1>9, CloseTypes DEF CreateStep, InitFails, Spawn, CreateChildOk, CreateChildFails,
         Refuse, Exited
    <2> QED
      <3>1. CASE Spawn(r)
        BY <2>1, <3>1 DEF Spawn, TypeOK, WireInv
      <3>2. CASE CreateChildOk(r)
        BY <2>1, <3>2 DEF CreateChildOk, TypeOK, WireInv
      <3>3. CASE CreateChildFails(r)
        BY <2>1, <3>3 DEF CreateChildFails, TypeOK, WireInv
      <3>4. CASE Exited(r)
        BY <2>1, <3>4 DEF Exited, TypeOK, WireInv
      <3>5. CASE InitFails(r)
        BY <2>1, <3>5 DEF InitFails, TypeOK, WireInv
      <3>6. CASE Refuse(r)
        BY <2>1, <3>6 DEF Refuse, TypeOK, WireInv
      <3> QED
        BY <1>9, <3>1, <3>2, <3>3, <3>4, <3>5, <3>6 DEF CreateStep
  <1>10. CASE UNCHANGED vars
    BY <1>10 DEF vars, TypeOK, WireInv
  <1> QED
    BY <1>1, <1>2, <1>3, <1>4, <1>5, <1>6, <1>7, <1>8, <1>9, <1>10
    DEF Next, ClientStep, ServeStep, RequestStep

-----------------------------------------------------------------------------
(* Who closes an open descriptor. *)

\* A request owns nothing before it has taken it.
ReqInv ==
    \A r \in Req : /\ req[r] = "idle" => additional[r] = {}
                   /\ req[r] \in {"idle", "taken"} => leak[r] = {}

\* The requests' steps keep that, and no other step touches it.
LEMMA ReqStep == TypeOK /\ ReqInv /\ [Next]_vars => ReqInv'
  <1> SUFFICES ASSUME TypeOK, ReqInv, [Next]_vars PROVE ReqInv'
    OBVIOUS
  <1> USE DEF clientVars, serverVars, reqVars
  <1>1. ASSUME NEW k \in Conn, ClientStep(k) \/ ServeStep(k)
        PROVE  ReqInv'
    BY <1>1 DEF ClientStep, ServeStep, NewRemoteFDs, Send, Receive, CloseConn, Serve, ServeClose,
                ServeEof, ReqInv
  <1>2. ASSUME NEW r \in Req, NEW S \in SUBSET Known,
               TakeAdditional(r, S) \/ TakeLeak(r, S) \/ TakeFails(r, S)
        PROVE  ReqInv'
    BY <1>2 DEF TakeAdditional, TakeLeak, TakeFails, TypeOK, ReqInv
  <1>3. ASSUME NEW r \in Req, CreateStep(r)
        PROVE  ReqInv'
    <2>1. CASE InitFails(r)
      BY <2>1 DEF InitFails, TypeOK, ReqInv
    <2>2. CASE Spawn(r)
      BY <2>2 DEF Spawn, TypeOK, ReqInv
    <2>3. CASE CreateChildOk(r)
      BY <2>3 DEF CreateChildOk, TypeOK, ReqInv
    <2>4. CASE CreateChildFails(r)
      BY <2>4 DEF CreateChildFails, TypeOK, ReqInv
    <2>5. CASE Refuse(r) \/ Exited(r)
      BY <2>5 DEF Refuse, Exited, TypeOK, ReqInv
    <2> QED
      BY <1>3, <2>1, <2>2, <2>3, <2>4, <2>5 DEF CreateStep
  <1>4. CASE UNCHANGED vars
    BY <1>4 DEF vars, ReqInv
  <1> QED
    BY <1>1, <1>2, <1>3, <1>4 DEF Next, RequestStep

\* The owner of a number, which is what NoFdLeak asks for.
Owned(n) ==
    \/ \E k \in Conn : conn[k] # "gone" /\ \E s \in guard[k] : fds[s] = n
    \/ \E r \in Req : n \in additional[r] \cup leak[r]

\* A number that is open after a step was open and owned before it, or was just
\* received; in both cases somebody owns it now.
LEMMA LeakStep == TypeOK /\ WireInv /\ ReqInv /\ NoFdLeak /\ [Next]_vars => NoFdLeak'
  <1> SUFFICES ASSUME TypeOK, WireInv, ReqInv, NoFdLeak, [Next]_vars,
                      NEW n \in Fd, table'[n] # None
               PROVE  Owned(n)'
    BY DEF NoFdLeak, Owned
  <1> USE DEF clientVars, serverVars, reqVars
  <1>0. table[n] # None => Owned(n)
    BY DEF NoFdLeak, Owned
  <1>1. ASSUME UNCHANGED <<table, guard, fds, additional, leak>>,
               \A k \in Conn : conn[k] # "gone" => conn'[k] # "gone"
        PROVE  Owned(n)'
    BY <1>0, <1>1 DEF Owned
  <1>2. ASSUME NEW k \in Conn, ClientStep(k)
        PROVE  Owned(n)'
    BY <1>1, <1>2 DEF ClientStep, NewRemoteFDs, Send, Receive, CloseConn, TypeOK
  <1>3. ASSUME NEW k \in Conn, Serve(k)
        PROVE  Owned(n)'
    <2>1. UNCHANGED <<conn, additional, leak>> /\ conn[k] # "gone"
      BY <1>3 DEF Serve
    <2>2. CASE Cardinality(wire[k]) <= MaxAncillary
      <3>1. PICK F : F = wire[k]
        OBVIOUS
      <3>2. Received(k, F)
        BY <1>3, <2>2, <3>1, ServeReceives
      <3>3. CASE \E f \in F : FdFor(f, F) = n
        <4>1. PICK f \in F : FdFor(f, F) = n
          BY <3>3
        <4>2. fds'[SlotFor(f, F)] = n /\ SlotFor(f, F) \in guard'[k]
          BY <3>2, <4>1 DEF Received, TypeOK
        <4> QED
          BY <2>1, <4>2 DEF Owned
      <3>4. CASE \A f \in F : FdFor(f, F) # n
        <4>1. table[n] # None
          BY <3>2, <3>4 DEF Received
        <4>2. CASE \E r \in Req : n \in additional[r] \cup leak[r]
          BY <2>1, <4>2 DEF Owned
        <4>3. CASE \E j \in Conn : conn[j] # "gone" /\ \E s \in guard[j] : fds[s] = n
          <5>1. PICK j \in Conn : conn[j] # "gone" /\ \E s \in guard[j] : fds[s] = n
            BY <4>3
          <5>2. PICK s \in guard[j] : fds[s] = n
            BY <5>1
          <5>3. s \in Slot /\ n # None
            BY Constants DEF TypeOK
          <5>4. \A f \in F : SlotFor(f, F) # s
            BY <3>2, <5>2, <5>3 DEF Received, FreeSlots
          <5>5. fds'[s] = n
            BY <3>2, <5>2, <5>3, <5>4 DEF Received
          <5>6. s \in guard'[j]
            BY <3>2, <5>2 DEF Received, TypeOK
          <5> QED
            BY <2>1, <5>1, <5>5, <5>6 DEF Owned
        <4> QED
          BY <1>0, <4>1, <4>2, <4>3 DEF Owned
      <3> QED
        BY <3>3, <3>4
    <2>3. CASE ~(Cardinality(wire[k]) <= MaxAncillary)
      <3>1. UNCHANGED <<table, fds, last, guard>>
        BY <1>3, <2>3, ServeRefuses
      <3> QED
        BY <1>1, <2>1, <3>1
    <2> QED
      BY <2>2, <2>3
  <1>4. ASSUME NEW k \in Conn, ServeClose(k) \/ ServeEof(k)
        PROVE  Owned(n)'
    <2>1. /\ UNCHANGED <<additional, leak>>
          /\ \A j \in Conn \ {k} : conn'[j] = conn[j]
          /\ GuardClose(k)
      BY <1>4 DEF ServeClose, ServeEof, TypeOK
    <2>2. table[n] # None /\ \A s \in guard[k] : fds[s] # n
      <3>1. n # None
        BY Constants
      <3> QED
        BY <2>1, <3>1 DEF GuardClose
    <2>3. CASE \E r \in Req : n \in additional[r] \cup leak[r]
      BY <2>1, <2>3 DEF Owned
    <2>4. CASE \E j \in Conn : conn[j] # "gone" /\ \E s \in guard[j] : fds[s] = n
      <3>1. PICK j \in Conn : conn[j] # "gone" /\ \E s \in guard[j] : fds[s] = n
        BY <2>4
      <3>2. PICK s \in guard[j] : fds[s] = n
        BY <3>1
      <3>3. j # k /\ s \notin guard[k] /\ s \in Slot
        BY <2>2, <3>2 DEF TypeOK
      <3>4. fds'[s] = n /\ s \in guard'[j] /\ conn'[j] # "gone"
        BY <2>1, <3>1, <3>2, <3>3 DEF GuardClose, TypeOK
      <3> QED
        BY <3>4 DEF Owned
    <2> QED
      BY <1>0, <2>2, <2>3, <2>4 DEF Owned
  <1>5. ASSUME NEW r \in Req, NEW S \in SUBSET Known,
               TakeAdditional(r, S) \/ TakeLeak(r, S) \/ TakeFails(r, S)
        PROVE  Owned(n)'
    <2>1. UNCHANGED <<conn, guard>> /\ fds' = Empty(S)
      BY <1>5 DEF TakeAdditional, TakeLeak, TakeFails
    <2>2. table[n] # None
      BY <1>5 DEF TakeAdditional, TakeLeak, TakeFails, CloseFds
    <2>3. CASE \E j \in Req : n \in additional[j] \cup leak[j]
      <3>1. PICK j \in Req : n \in additional[j] \cup leak[j]
        BY <2>3
      <3>2. CASE TakeAdditional(r, S)
        BY <3>1, <3>2 DEF TakeAdditional, TypeOK, ReqInv, Owned
      <3>3. CASE TakeLeak(r, S)
        BY <3>1, <3>3 DEF TakeLeak, TypeOK, ReqInv, Owned
      <3>4. CASE TakeFails(r, S)
        BY <3>1, <3>4 DEF TakeFails, CloseFds, TypeOK, ReqInv, Owned
      <3> QED
        BY <1>5, <3>2, <3>3, <3>4
    <2>4. CASE \E j \in Conn : conn[j] # "gone" /\ \E s \in guard[j] : fds[s] = n
      <3>1. PICK j \in Conn : conn[j] # "gone" /\ \E s \in guard[j] : fds[s] = n
        BY <2>4
      <3>2. PICK s \in guard[j] : fds[s] = n
        BY <3>1
      <3>3. s \in Slot
        BY DEF TypeOK
      <3>4. CASE s \notin S
        BY <2>1, <3>1, <3>2, <3>3, <3>4 DEF Empty, Owned
      <3>5. CASE s \in S /\ TakeAdditional(r, S)
        BY <3>2, <3>5 DEF TakeAdditional, TypeOK, Owned
      <3>6. CASE s \in S /\ TakeLeak(r, S)
        BY <3>2, <3>6 DEF TakeLeak, TypeOK, Owned
      <3>7. CASE s \in S /\ TakeFails(r, S)
        BY <3>2, <3>7 DEF TakeFails, CloseFds
      <3> QED
        BY <1>5, <3>4, <3>5, <3>6, <3>7
    <2> QED
      BY <1>0, <2>2, <2>3, <2>4 DEF Owned
  <1>6. ASSUME NEW r \in Req, CreateStep(r)
        PROVE  Owned(n)'
    <2>1. UNCHANGED <<conn, guard, fds>> /\ table[n] # None
      BY <1>6 DEF CreateStep, InitFails, Spawn, CreateChildOk, CreateChildFails, Refuse, Exited,
                  CloseFds
    <2>2. ASSUME NEW j \in Req, n \in additional[j] \cup leak[j]
          PROVE  n \in additional'[j] \cup leak'[j]
      BY <1>6, <2>2 DEF CreateStep, InitFails, Spawn, CreateChildOk, CreateChildFails, Refuse,
                        Exited, CloseFds, TypeOK
    <2> QED
      BY <1>0, <2>1, <2>2 DEF Owned
  <1>7. CASE UNCHANGED vars
    BY <1>1, <1>7 DEF vars
  <1> QED
    BY <1>2, <1>3, <1>4, <1>5, <1>6, <1>7 DEF Next, ServeStep, RequestStep

\* Every variable of the fd socket keeps its type, for every number of slots: the
\* counter wraps around within them.
THEOREM TypeCorrect == Spec => []TypeOK
  <1>1. TypeOK /\ WireInv /\ [Next]_vars => (TypeOK /\ WireInv)'
    BY TypeStep
  <1> QED BY <1>1, InitType, PTL DEF Spec

\* Every open descriptor of the server has an owner that will close it, for any
\* number of connections and requests, messages of any size and any number of
\* slots: connections that end, requests that fail half way and messages that
\* are refused leave nothing open.
THEOREM NoFdLeakCorrect == Spec => []NoFdLeak
  <1> DEFINE I == TypeOK /\ WireInv /\ ReqInv /\ NoFdLeak
  <1>1. Init => I
    <2>1. Init => ReqInv /\ NoFdLeak
      BY DEF Init, ReqInv, NoFdLeak
    <2> QED
      BY <2>1, InitType
  <1>2. I /\ [Next]_vars => I'
    BY TypeStep, ReqStep, LeakStep
  <1> QED
    BY <1>1, <1>2, PTL DEF Spec

-----------------------------------------------------------------------------
(* Whose descriptor a slot holds.  The code counts slots with 64 bits and never *)
(* gives one out for a second time; here that is a hypothesis about File.       *)

SlotsSuffice == IsFiniteSet(File) /\ Cardinality(File) <= W

\* The files that have yet to be given a slot.
Waiting == {f \in File : f \notin sent \/ \E k \in Conn : f \in wire[k]}

\* A file is on its way over one connection at most.
SentInv ==
    \A k \in Conn : wire[k] \subseteq sent /\ \A j \in Conn \ {k} : wire[k] \cap wire[j] = {}

\* The slots that come next are fresh, and there are enough of them.
FreshInv ==
    \E left \in 0..W :
        /\ Cardinality(Waiting) <= left
        /\ \A s \in Slot : Distance(s) < left => fds[s] = None /\ \A k \in Conn : s \notin guard[k]

\* A slot is listed in one guard at most.
GuardInv == \A k, j \in Conn : guard[k] \cap guard[j] # {} => k = j

\* An open descriptor has one owner: a slot, the additional_fds of a request, or
\* its leak_fds.  A Command owns none as long as there are no additional_fds.
ClaimInv ==
    /\ \A s, t \in Slot : fds[s] # None /\ fds[s] = fds[t] => s = t
    /\ \A s \in Slot : fds[s] # None => table[fds[s]] # None
    /\ \A s \in Slot, r \in Req : fds[s] # None => fds[s] \notin additional[r] \cup leak[r]
    /\ \A r \in Req : \A n \in additional[r] \cup leak[r] : table[n] # None
    /\ \A r, q \in Req : additional[r] \cap leak[q] = {}
    /\ \A r, q \in Req : r # q => additional[r] \cap additional[q] = {} /\ leak[r] \cap leak[q] = {}
    /\ \A r \in Req : command[r] = {}

\* What a client was told, or is being told, is what its slot holds.
HandleInv ==
    \A k \in Conn, s \in Slot :
        /\ handles[k][s] # None =>
              /\ conn[k] = "open" /\ s \in guard[k]
              /\ fds[s] # None /\ table[fds[s]] = handles[k][s]
        /\ reply[k] # None /\ reply[k].slots[s] # None =>
              /\ s \in guard[k] /\ handles[k][s] = None
              /\ fds[s] # None /\ table[fds[s]] = reply[k].slots[s]

\* What a request took is what the client meant, from the time it takes it.
LeakFilesInv ==
    \A r \in Req : req[r] \in {"ready", "spawned", "running"} =>
        {table[n] : n \in leak[r]} = leakFiles[r]

OwnerInv == mapped = {} => ClaimInv /\ HandleInv /\ LeakFilesInv

SlotInv == SentInv /\ FreshInv /\ GuardInv

\* As many slots are nearer than e as e says.
LEMMA NearSlots ==
    ASSUME last \in Slot, NEW e \in 0..W
    PROVE  /\ IsFiniteSet({t \in Slot : Distance(t) < e})
           /\ Cardinality({t \in Slot : Distance(t) < e}) = e
  <1> DEFINE N == {t \in Slot : Distance(t) < e}
             d == [t \in Slot |-> Distance(t)]
             b == [t \in N |-> Distance(t)]
  <1>1. W \in Nat \ {0} /\ IsFiniteSet(Slot)
    BY FdSocketAssumption, FS_Interval DEF Slot
  <1>2. d \in Injection(Slot, Slot)
    <2>1. d \in [Slot -> Slot] /\ \A s, t \in Slot : d[s] = d[t] => s = t
      BY DistanceInjective
    <2> HIDE DEF d
    <2> QED
      BY <2>1, Fun_IsInj
  <1>3. d \in Surjection(Slot, Slot)
    <2> HIDE DEF d
    <2> QED
      BY <1>1, <1>2, FS_Injection
  <1>4. \A m \in Slot : \E t \in Slot : Distance(t) = m
    <2>1. \A m \in Slot : \E t \in Slot : d[t] = m
      <3> HIDE DEF d
      <3> QED
        BY <1>3, Fun_SurjectionProperties
    <2> QED
      BY <2>1
  <1>5. b \in [N -> 0..(e - 1)] /\ \A s, t \in N : b[s] = b[t] => s = t
    <2>1. \A t \in N : Distance(t) \in 0..(e - 1)
      BY <1>1, DistanceInjective DEF Slot
    <2>2. \A s, t \in N : Distance(s) = Distance(t) => s = t
      BY DistanceInjective
    <2> QED
      BY <2>1, <2>2
  <1>6. ASSUME NEW m \in 0..(e - 1)
        PROVE  \E t \in N : b[t] = m
    <2>1. m \in Slot /\ m < e
      BY <1>1 DEF Slot
    <2>2. PICK t \in Slot : Distance(t) = m
      BY <1>4, <2>1
    <2>3. t \in N
      BY <2>1, <2>2
    <2> QED
      BY <2>2, <2>3
  <1>7. b \in Bijection(N, 0..(e - 1))
    <2> HIDE DEF b, N
    <2> QED
      BY <1>5, <1>6, Fun_IsBij
  <1>8. ExistsBijection(0..(e - 1), N)
    <2> HIDE DEF b, N
    <2> QED
      BY <1>7, Fun_ExistsBijSymmetric DEF ExistsBijection
  <1>9. IsFiniteSet(0..(e - 1)) /\ Cardinality(0..(e - 1)) = e
    BY <1>1, FS_Interval
  <1> HIDE DEF N
  <1>10. IsFiniteSet(N) /\ Cardinality(N) = e
    BY <1>8, <1>9, FS_Bijection
  <1> QED
    BY <1>10 DEF N

\* If the nearest slots are free, a message gets the nearest slots, in order.
LEMMA SlotForNearest ==
    ASSUME last \in Slot, NEW F \in SUBSET File, IsFiniteSet(F),
           Cardinality(F) <= Cardinality(FreeSlots),
           NEW left \in 0..W, Cardinality(F) <= left,
           \A s \in Slot : Distance(s) < left => fds[s] = None
    PROVE  \A f \in F : Distance(SlotFor(f, F)) = Rank(f, F)
  <1> SUFFICES ASSUME NEW f \in F
               PROVE  Distance(SlotFor(f, F)) = Rank(f, F)
    OBVIOUS
  <1>1. PICK s \in FreeSlots :
           /\ s = SlotFor(f, F)
           /\ Cardinality({t \in FreeSlots : Distance(t) < Distance(s)}) = Rank(f, F)
    BY SlotForFree
  <1>2. /\ W \in Nat \ {0} /\ s \in Slot /\ Distance(s) \in 0..(W - 1)
        /\ \A t \in Slot : Distance(t) \in 0..(W - 1)
    BY FdSocketAssumption, DistanceInjective DEF FreeSlots, Slot
  <1>3. Rank(f, F) \in 0..(Cardinality(F) - 1) /\ Cardinality(F) \in Nat
    <2>1. F \in SUBSET Int
      BY Constants
    <2> QED
      BY <2>1, RankOfNumbers, FS_CardinalityType
  <1>4. CASE Distance(s) <= left
    <2>1. {t \in FreeSlots : Distance(t) < Distance(s)} = {t \in Slot : Distance(t) < Distance(s)}
      <3>1. ASSUME NEW t \in Slot, Distance(t) < Distance(s)
            PROVE  t \in FreeSlots
        <4>1. Distance(t) < left
          BY <1>2, <1>4, <3>1
        <4> QED
          BY <4>1 DEF FreeSlots
      <3> QED
        BY <3>1 DEF FreeSlots
    <2>2. Distance(s) \in 0..W
      BY <1>2
    <2>3. Cardinality({t \in Slot : Distance(t) < Distance(s)}) = Distance(s)
      BY <2>2, NearSlots
    <2> QED
      BY <1>1, <2>1, <2>3
  <1>5. CASE Distance(s) > left
    <2> DEFINE N == {t \in Slot : Distance(t) < left}
               M == {t \in FreeSlots : Distance(t) < Distance(s)}
    <2>1. N \in SUBSET M
      <3>1. ASSUME NEW t \in Slot, Distance(t) < left
            PROVE  t \in FreeSlots /\ Distance(t) < Distance(s)
        BY <1>2, <1>5, <3>1 DEF FreeSlots
      <3> QED
        BY <3>1
    <2>2. M \in SUBSET Slot /\ IsFiniteSet(Slot)
      BY <1>2, FS_Interval DEF FreeSlots, Slot
    <2>3. Cardinality(N) = left
      BY NearSlots
    <2>4. Cardinality(M) = Rank(f, F)
      BY <1>1
    <2> HIDE DEF N, M
    <2>5. Cardinality(N) <= Cardinality(M)
      BY <2>1, <2>2, FS_Subset
    <2> QED
      BY <1>3, <2>3, <2>4, <2>5
  <1> QED
    BY <1>1, <1>2, <1>4, <1>5

\* A message moves the distances by its length.
LEMMA DistanceMoves ==
    ASSUME last \in Slot, NEW l \in Slot, last' = l, NEW s \in Slot
    PROVE  Distance(s)' = IF Distance(s) > Distance(l) THEN Distance(s) - Distance(l) - 1
                          ELSE Distance(s) + W - Distance(l) - 1
  <1>1. W \in Nat \ {0} /\ last \in 0..(W - 1) /\ l \in 0..(W - 1) /\ s \in 0..(W - 1)
    BY FdSocketAssumption DEF Slot
  <1>2. Distance(s) = IF s > last THEN s - last - 1 ELSE s + W - last - 1
    BY DistanceFrom DEF Distance
  <1>3. Distance(l) = IF l > last THEN l - last - 1 ELSE l + W - last - 1
    BY DistanceFrom DEF Distance
  <1>4. Distance(s)' = IF s > l THEN s - l - 1 ELSE s + W - l - 1
    BY DistanceFrom DEF Distance
  <1> QED
    BY <1>1, <1>2, <1>3, <1>4

\* No slot is given out twice, and no guard lists a slot of another connection.
LEMMA SlotStep ==
    ASSUME SlotsSuffice
    PROVE  TypeOK /\ WireInv /\ SlotInv /\ [Next]_vars => SlotInv'
  <1> SUFFICES ASSUME TypeOK, WireInv, SentInv, FreshInv, GuardInv, [Next]_vars
               PROVE  SlotInv'
    BY DEF SlotInv
  <1> USE DEF clientVars, serverVars, reqVars
  <1>1. PICK left \in 0..W :
           /\ Cardinality(Waiting) <= left
           /\ \A s \in Slot : Distance(s) < left =>
                 fds[s] = None /\ \A k \in Conn : s \notin guard[k]
    BY DEF FreshInv
  <1>2. IsFiniteSet(Waiting) /\ Cardinality(Waiting) \in Nat
    <2>1. Waiting \in SUBSET File
      BY DEF Waiting
    <2> QED
      BY <2>1, FS_Subset, FS_CardinalityType DEF SlotsSuffice
  <1>3. ASSUME last' = last, \A k \in Conn : guard'[k] \subseteq guard[k],
               \A s \in Slot : fds[s] = None => fds'[s] = None,
               Cardinality(Waiting') <= Cardinality(Waiting), Cardinality(Waiting') \in Nat
        PROVE  FreshInv' /\ GuardInv'
    <2>1. Cardinality(Waiting') <= left
      BY <1>1, <1>2, <1>3
    <2>2. \A s \in Slot : Distance(s)' = Distance(s)
      BY <1>3 DEF Distance
    <2>3. \A s \in Slot : Distance(s)' < left =>
             fds'[s] = None /\ \A k \in Conn : s \notin guard'[k]
      BY <1>1, <1>3, <2>2
    <2>4. FreshInv'
      BY <2>1, <2>3 DEF FreshInv
    <2>5. GuardInv'
      BY <1>3 DEF GuardInv
    <2> QED
      BY <2>4, <2>5
  <1>4. ASSUME UNCHANGED <<wire, sent, last>>, \A k \in Conn : guard'[k] \subseteq guard[k],
               \A s \in Slot : fds[s] = None => fds'[s] = None
        PROVE  SlotInv'
    <2>1. Waiting' = Waiting
      BY <1>4 DEF Waiting
    <2>2. FreshInv' /\ GuardInv'
      BY <1>2, <1>3, <1>4, <2>1
    <2>3. SentInv'
      BY <1>4 DEF SentInv
    <2> QED
      BY <2>2, <2>3 DEF SlotInv
  <1>5. ASSUME NEW k \in Conn, NewRemoteFDs(k) \/ Receive(k) \/ CloseConn(k)
        PROVE  SlotInv'
    BY <1>4, <1>5 DEF NewRemoteFDs, Receive, CloseConn
  <1>6. ASSUME NEW k \in Conn, ServeClose(k) \/ ServeEof(k)
        PROVE  SlotInv'
    <2>1. UNCHANGED <<wire, sent, last>> /\ GuardClose(k)
      BY <1>6 DEF ServeClose, ServeEof
    <2>2. /\ \A j \in Conn : guard'[j] \subseteq guard[j]
          /\ \A s \in Slot : fds[s] = None => fds'[s] = None
      BY <2>1 DEF GuardClose, TypeOK
    <2> QED
      BY <1>4, <2>1, <2>2
  <1>7. ASSUME NEW r \in Req, RequestStep(r)
        PROVE  SlotInv'
    <2>1. UNCHANGED <<wire, sent, last, guard>> /\ (fds' = fds \/ \E S : fds' = Empty(S))
      BY <1>7 DEF RequestStep, TakeAdditional, TakeLeak, TakeFails, CreateStep, InitFails,
                  Spawn, CreateChildOk, CreateChildFails, Refuse, Exited
    <2>2. \A s \in Slot : fds[s] = None => fds'[s] = None
      BY <2>1 DEF Empty
    <2> QED
      BY <1>4, <2>1, <2>2
  <1>8. ASSUME NEW k \in Conn, NEW F \in SUBSET (File \ sent), Send(k, F)
        PROVE  SlotInv'
    <2>1. /\ wire[k] = {} /\ wire' = [wire EXCEPT ![k] = F] /\ sent' = sent \cup F
          /\ UNCHANGED <<last, guard, fds>>
      BY <1>8 DEF Send
    <2>2. Waiting' = Waiting
      BY <2>1 DEF Waiting, TypeOK
    <2>3. FreshInv' /\ GuardInv'
      BY <1>2, <1>3, <2>1, <2>2
    <2>4. SentInv'
      BY <2>1 DEF SentInv, TypeOK
    <2> QED
      BY <2>3, <2>4 DEF SlotInv
  <1>9. ASSUME NEW k \in Conn, Serve(k)
        PROVE  SlotInv'
    <2>1. PICK F \in SUBSET File : F = wire[k] /\ IsFiniteSet(F) /\ F # {}
      BY <1>9 DEF Serve, TypeOK, WireInv
    <2>2. wire' = [wire EXCEPT ![k] = {}] /\ sent' = sent
      BY <1>9 DEF Serve
    <2>3. SentInv'
      BY <2>2 DEF SentInv, TypeOK
    <2>4. Waiting' = Waiting \ F /\ F \subseteq Waiting
      BY <2>1, <2>2 DEF Waiting, SentInv, TypeOK
    <2>5. /\ IsFiniteSet(Waiting') /\ Cardinality(Waiting') \in Nat /\ Cardinality(F) \in Nat
          /\ Cardinality(Waiting') = Cardinality(Waiting) - Cardinality(F)
      <3>1. Waiting \cap F = F
        BY <2>4
      <3>2. /\ IsFiniteSet(Waiting \ F)
            /\ Cardinality(Waiting \ F) = Cardinality(Waiting) - Cardinality(F)
        BY <1>2, <3>1, FS_Difference
      <3>3. Cardinality(Waiting \ F) \in Nat
        BY <3>2, FS_CardinalityType
      <3>4. Cardinality(F) \in Nat
        BY <2>1, FS_CardinalityType
      <3> QED
        BY <2>4, <3>2, <3>3, <3>4
    <2>6. CASE ~(Cardinality(wire[k]) <= MaxAncillary)
      <3>1. UNCHANGED <<table, fds, last, guard>>
        BY <1>9, <2>6, ServeRefuses
      <3>2. Cardinality(Waiting') <= Cardinality(Waiting)
        BY <1>2, <2>5
      <3>3. FreshInv' /\ GuardInv'
        BY <1>3, <2>5, <3>1, <3>2
      <3> QED
        BY <2>3, <3>3 DEF SlotInv
    <2>7. CASE Cardinality(wire[k]) <= MaxAncillary
      <3>1. Received(k, F)
        BY <1>9, <2>1, <2>7, ServeReceives
      <3>2. Cardinality(F) <= left /\ Cardinality(F) <= Cardinality(FreeSlots)
        <4>1. Cardinality(F) <= left
          BY <1>1, <1>2, <2>5
        <4>2. ~(Cardinality(wire[k]) > MaxAncillary)
          BY <2>1, <2>5, <2>7, Constants
        <4> QED
          BY <1>9, <2>1, <4>1, <4>2 DEF Serve
      <3>3. \A f \in F : Distance(SlotFor(f, F)) = Rank(f, F)
        BY <1>1, <2>1, <3>2, SlotForNearest DEF TypeOK
      <3>4. /\ \A f \in F : Rank(f, F) \in 0..(Cardinality(F) - 1)
            /\ \A f \in F : SlotFor(f, F) \in Slot /\ Distance(SlotFor(f, F)) < left
        <4>1. F \in SUBSET Int
          BY Constants
        <4>2. \A f \in F : Rank(f, F) \in 0..(Cardinality(F) - 1)
          BY <2>1, <4>1, RankOfNumbers
        <4>3. \A f \in F : SlotFor(f, F) \in Slot
          BY <3>1 DEF Received, FreeSlots
        <4> QED
          BY <2>5, <3>2, <3>3, <4>2, <4>3
      <3>5. last \in Slot /\ last' \in Slot /\ Distance(last') = Cardinality(F) - 1
        BY <3>1, <3>3, <3>4 DEF Received, TypeOK
      <3>6. GuardInv'
        <4>1. \A f \in F : \A j \in Conn : SlotFor(f, F) \notin guard[j]
          BY <1>1, <3>4
        <4>2. /\ guard'[k] = guard[k] \cup {SlotFor(f, F) : f \in F}
              /\ \A j \in Conn \ {k} : guard'[j] = guard[j]
          BY <3>1 DEF Received, TypeOK
        <4> QED
          BY <4>1, <4>2 DEF GuardInv
      <3>7. FreshInv'
        <4>1. PICK rest \in 0..W : rest = left - Cardinality(F)
          BY <2>5, <3>2, FdSocketAssumption
        <4>2. Cardinality(Waiting') <= rest
          BY <1>1, <1>2, <2>5, <4>1
        <4>3. ASSUME NEW s \in Slot, Distance(s)' < rest
              PROVE  fds'[s] = None /\ \A j \in Conn : s \notin guard'[j]
          <5>1. Distance(s) \in 0..(W - 1) /\ W \in Nat \ {0}
            BY <3>5, DistanceInjective, FdSocketAssumption DEF Slot
          <5>2. Distance(s)' = IF Distance(s) > Cardinality(F) - 1
                               THEN Distance(s) - Cardinality(F)
                               ELSE Distance(s) + W - Cardinality(F)
            <6>1. PICK l \in Slot : last' = l /\ Distance(l) = Cardinality(F) - 1
              BY <3>5
            <6> QED
              BY <2>5, <3>5, <5>1, <6>1, DistanceMoves
          <5>3. Distance(s) > Cardinality(F) - 1 /\ Distance(s) < left
            BY <2>5, <4>1, <4>3, <5>1, <5>2
          <5>4. \A f \in F : SlotFor(f, F) # s
            BY <2>5, <3>3, <3>4, <5>1, <5>3
          <5>5. fds'[s] = fds[s]
            BY <3>1, <5>4 DEF Received
          <5>6. \A j \in Conn : s \in guard'[j] => s \in guard[j]
            BY <3>1, <5>4 DEF Received, TypeOK
          <5> QED
            BY <1>1, <5>3, <5>5, <5>6
        <4> QED
          BY <4>2, <4>3 DEF FreshInv
      <3> QED
        BY <2>3, <3>6, <3>7 DEF SlotInv
    <2> QED
      BY <2>6, <2>7
  <1>10. CASE UNCHANGED vars
    BY <1>4, <1>10 DEF vars
  <1> QED
    BY <1>5, <1>6, <1>7, <1>8, <1>9, <1>10 DEF Next, ClientStep, ServeStep

\* Owners may let go of a descriptor; what is still owned stays open.
LEMMA ClaimsKept ==
    ASSUME ClaimInv,
           \A s \in Slot : fds'[s] = fds[s] \/ fds'[s] = None,
           \A r \in Req : /\ additional'[r] \subseteq additional[r]
                          /\ leak'[r] \subseteq leak[r] /\ command'[r] = {}
                          /\ \A n \in additional'[r] \cup leak'[r] : table'[n] = table[n],
           \A s \in Slot : fds'[s] # None => table'[fds[s]] = table[fds[s]]
    PROVE  ClaimInv'
  <1>1. \A s, t \in Slot : fds'[s] # None /\ fds'[s] = fds'[t] => s = t
    BY DEF ClaimInv
  <1>2. \A s \in Slot : fds'[s] # None => table'[fds'[s]] # None
    BY DEF ClaimInv
  <1>3. \A s \in Slot, r \in Req : fds'[s] # None => fds'[s] \notin additional'[r] \cup leak'[r]
    BY DEF ClaimInv
  <1>4. \A r \in Req : \A n \in additional'[r] \cup leak'[r] : table'[n] # None
    BY DEF ClaimInv
  <1>5. \A r, q \in Req : additional'[r] \cap leak'[q] = {}
    BY DEF ClaimInv
  <1>6. \A r, q \in Req : r # q => /\ additional'[r] \cap additional'[q] = {}
                                   /\ leak'[r] \cap leak'[q] = {}
    BY DEF ClaimInv
  <1> QED
    BY <1>1, <1>2, <1>3, <1>4, <1>5, <1>6 DEF ClaimInv

\* A client may forget a slot; the slots it knows keep what they hold.
LEMMA HandlesKept ==
    ASSUME HandleInv,
           \A k \in Conn : reply'[k] = reply[k] \/ reply'[k] = None,
           \A k \in Conn, s \in Slot : handles'[k][s] = handles[k][s] \/ handles'[k][s] = None,
           \A k \in Conn, s \in Slot : handles'[k][s] # None => conn'[k] = conn[k],
           \A k \in Conn, s \in Slot :
              \/ handles'[k][s] # None
              \/ reply'[k] # None /\ reply'[k].slots[s] # None
              => s \in guard'[k] /\ fds'[s] = fds[s] /\ table'[fds[s]] = table[fds[s]]
    PROVE  HandleInv'
  BY DEF HandleInv

\* What a request is to leak stays what it is.
LEMMA LeakFilesKept ==
    ASSUME LeakFilesInv, leakFiles' = leakFiles,
           \A r \in Req : req'[r] \in {"ready", "spawned", "running"} =>
              /\ req[r] \in {"ready", "spawned", "running"} /\ leak'[r] = leak[r]
              /\ \A n \in leak[r] : table'[n] = table[n]
    PROVE  LeakFilesInv'
  BY DEF LeakFilesInv

\* As long as no request has additional_fds, every step keeps what slots hold and
\* what is to be leaked.
LEMMA OwnerStep == TypeOK /\ WireInv /\ ReqInv /\ SlotInv /\ OwnerInv /\ [Next]_vars => OwnerInv'
  <1> SUFFICES ASSUME TypeOK, WireInv, ReqInv, SlotInv, OwnerInv, [Next]_vars, mapped' = {}
               PROVE  ClaimInv' /\ HandleInv' /\ LeakFilesInv'
    BY DEF OwnerInv
  <1> USE DEF clientVars, serverVars, reqVars
  <1>1. mapped = {}
    <2>1. CASE \E k \in Conn : ClientStep(k)
      BY <2>1 DEF ClientStep, NewRemoteFDs, Send, Receive, CloseConn
    <2>2. CASE \E k \in Conn : ServeStep(k)
      BY <2>2 DEF ServeStep, Serve, ServeClose, ServeEof
    <2>3. CASE \E r \in Req : RequestStep(r)
      <3>1. PICK r \in Req : RequestStep(r)
        BY <2>3
      <3>2. CASE CreateStep(r)
        BY <3>2 DEF CreateStep, InitFails, Spawn, CreateChildOk, CreateChildFails, Refuse,
                    Exited
      <3>3. CASE ~CreateStep(r)
        BY <3>1, <3>3 DEF RequestStep, TakeAdditional, TakeLeak, TakeFails
      <3> QED
        BY <3>2, <3>3
    <2> QED
      BY <2>1, <2>2, <2>3 DEF Next, vars
  <1>2. ClaimInv /\ HandleInv /\ LeakFilesInv /\ GuardInv
    BY <1>1 DEF OwnerInv, SlotInv
  <1>3. ASSUME UNCHANGED <<table, fds, reqVars>>
        PROVE  ClaimInv' /\ LeakFilesInv'
    BY <1>2, <1>3 DEF ClaimInv, LeakFilesInv
  <1>4. ASSUME NEW k \in Conn, NewRemoteFDs(k)
        PROVE  ClaimInv' /\ HandleInv' /\ LeakFilesInv'
    <2>1. HandleInv'
      BY <1>2, <1>4 DEF NewRemoteFDs, TypeOK, HandleInv
    <2> QED
      BY <1>3, <1>4, <2>1 DEF NewRemoteFDs
  <1>5. ASSUME NEW k \in Conn, NEW F \in SUBSET (File \ sent), Send(k, F)
        PROVE  ClaimInv' /\ HandleInv' /\ LeakFilesInv'
    <2>1. HandleInv'
      BY <1>2, <1>5 DEF Send, HandleInv
    <2> QED
      BY <1>3, <1>5, <2>1 DEF Send
  <1>6. ASSUME NEW k \in Conn, Receive(k)
        PROVE  ClaimInv' /\ HandleInv' /\ LeakFilesInv'
    <2>1. /\ UNCHANGED <<table, fds, guard, conn>> /\ conn[k] = "open" /\ reply[k] # None
          /\ reply'[k] = None /\ \A j \in Conn \ {k} : reply'[j] = reply[j]
          /\ \A j \in Conn \ {k} : handles'[j] = handles[j]
      BY <1>6 DEF Receive, TypeOK
    <2>2. ASSUME NEW s \in Slot
          PROVE  \/ handles'[k][s] = handles[k][s]
                 \/ reply[k].slots[s] # None /\ handles'[k][s] = reply[k].slots[s]
      BY <1>6 DEF Receive, TypeOK
    <2>3. ASSUME NEW j \in Conn, NEW s \in Slot, handles'[j][s] # None
          PROVE  /\ conn'[j] = "open" /\ s \in guard'[j]
                 /\ fds'[s] # None /\ table'[fds'[s]] = handles'[j][s]
      BY <1>2, <2>1, <2>2, <2>3 DEF HandleInv
    <2>4. ASSUME NEW j \in Conn, NEW s \in Slot, reply'[j] # None, reply'[j].slots[s] # None
          PROVE  /\ s \in guard'[j] /\ handles'[j][s] = None
                 /\ fds'[s] # None /\ table'[fds'[s]] = reply'[j].slots[s]
      BY <1>2, <2>1, <2>4 DEF HandleInv
    <2>5. HandleInv'
      BY <2>3, <2>4 DEF HandleInv
    <2> QED
      BY <1>3, <1>6, <2>5 DEF Receive
  <1>7. ASSUME NEW k \in Conn, CloseConn(k)
        PROVE  ClaimInv' /\ HandleInv' /\ LeakFilesInv'
    <2>1. /\ UNCHANGED <<table, fds, guard, reply>>
          /\ \A j \in Conn \ {k} : handles'[j] = handles[j] /\ conn'[j] = conn[j]
          /\ \A s \in Slot : handles'[k][s] = None
      BY <1>7 DEF CloseConn, NoHandles, TypeOK
    <2>2. HandleInv'
      BY <1>2, <2>1 DEF HandleInv
    <2> QED
      BY <1>3, <1>7, <2>2 DEF CloseConn
  <1>8. ASSUME NEW k \in Conn, Serve(k)
        PROVE  ClaimInv' /\ HandleInv' /\ LeakFilesInv'
    <2>1. UNCHANGED <<conn, handles, reqVars>>
      BY <1>8 DEF Serve
    <2>2. CASE ~(Cardinality(wire[k]) <= MaxAncillary)
      <3>1. /\ UNCHANGED <<table, fds, last, guard>>
            /\ reply' = [reply EXCEPT ![k] = [num |-> ERROR_NUM, slots |-> NoHandles]]
        BY <1>8, <2>2, ServeRefuses
      <3>2. \A s \in Slot : reply'[k].slots[s] = None
        BY <3>1 DEF NoHandles, TypeOK
      <3>3. \A j \in Conn \ {k} : reply'[j] = reply[j]
        BY <3>1 DEF TypeOK
      <3>4. HandleInv'
        BY <1>2, <2>1, <3>1, <3>2, <3>3 DEF HandleInv
      <3> QED
        BY <1>3, <2>1, <3>1, <3>4
    <2>3. CASE Cardinality(wire[k]) <= MaxAncillary
      <3>1. PICK F \in SUBSET File : F = wire[k]
        BY DEF TypeOK
      <3>2. Received(k, F)
        BY <1>8, <2>3, <3>1, ServeReceives
      <3>3. \A f \in F : /\ SlotFor(f, F) \in Slot /\ fds[SlotFor(f, F)] = None
                         /\ FdFor(f, F) \in Fd /\ table[FdFor(f, F)] = None
                         /\ FdFor(f, F) # None /\ f # None
        BY <3>2, Constants DEF Received, FreeSlots, FreeFds
      <3>4. \A s \in Slot : \/ fds'[s] = fds[s]
                            \/ \E f \in F : s = SlotFor(f, F) /\ fds'[s] = FdFor(f, F)
        BY <3>2 DEF Received
      <3>5. \A n \in Fd : table[n] # None => table'[n] = table[n]
        BY <3>2, <3>3 DEF Received
      <3>6. \A s \in Slot : fds[s] # None => fds'[s] = fds[s] /\ fds[s] \in Fd
        BY <3>3, <3>4 DEF TypeOK
      <3>7. ClaimInv'
        <4>1. \A s, t \in Slot : fds'[s] # None /\ fds'[s] = fds'[t] => s = t
          <5> SUFFICES ASSUME NEW s \in Slot, NEW t \in Slot, fds'[s] # None, fds'[s] = fds'[t]
                       PROVE  s = t
            OBVIOUS
          <5>1. CASE fds'[s] = fds[s] /\ fds'[t] = fds[t]
            BY <1>2, <5>1 DEF ClaimInv
          <5>2. CASE \E f \in F : s = SlotFor(f, F) /\ fds'[s] = FdFor(f, F)
            BY <1>2, <3>2, <3>3, <3>4, <5>2 DEF ClaimInv, Received
          <5>3. CASE \E f \in F : t = SlotFor(f, F) /\ fds'[t] = FdFor(f, F)
            BY <1>2, <3>2, <3>3, <3>4, <5>3 DEF ClaimInv, Received
          <5> QED
            BY <3>4, <5>1, <5>2, <5>3
        <4>2. \A s \in Slot : fds'[s] # None => table'[fds'[s]] # None
          BY <1>2, <3>2, <3>3, <3>4, <3>5, <3>6 DEF ClaimInv, Received
        <4>3. \A s \in Slot, r \in Req : fds'[s] # None =>
                 fds'[s] \notin additional'[r] \cup leak'[r]
          BY <1>2, <2>1, <3>3, <3>4 DEF ClaimInv
        <4>4. \A r \in Req : \A n \in additional'[r] \cup leak'[r] : table'[n] # None
          BY <1>2, <2>1, <3>5 DEF ClaimInv, TypeOK
        <4> QED
          BY <1>2, <2>1, <4>1, <4>2, <4>3, <4>4 DEF ClaimInv
      <3>8. HandleInv'
        <4>1. ASSUME NEW j \in Conn
              PROVE  guard[j] \subseteq guard'[j]
          BY <3>2 DEF Received, TypeOK
        <4>2. ASSUME NEW j \in Conn, NEW s \in Slot, handles'[j][s] # None
              PROVE  /\ conn'[j] = "open" /\ s \in guard'[j]
                     /\ fds'[s] # None /\ table'[fds'[s]] = handles'[j][s]
          <5>1. /\ conn[j] = "open" /\ s \in guard[j]
                /\ fds[s] # None /\ table[fds[s]] = handles[j][s] /\ handles[j][s] # None
            BY <1>2, <2>1, <4>2 DEF HandleInv
          <5> QED
            BY <2>1, <3>5, <3>6, <4>1, <5>1
        <4>3. ASSUME NEW j \in Conn \ {k}, NEW s \in Slot, reply'[j] # None, reply'[j].slots[s] # None
              PROVE  /\ s \in guard'[j] /\ handles'[j][s] = None
                     /\ fds'[s] # None /\ table'[fds'[s]] = reply'[j].slots[s]
          <5>1. reply'[j] = reply[j]
            BY <3>2 DEF Received
          <5>2. /\ s \in guard[j] /\ handles[j][s] = None
                /\ fds[s] # None /\ table[fds[s]] = reply[j].slots[s] /\ reply[j].slots[s] # None
            BY <1>2, <4>3, <5>1 DEF HandleInv
          <5> QED
            BY <2>1, <3>5, <3>6, <4>1, <5>1, <5>2
        <4>4. ASSUME NEW s \in Slot, reply'[k].slots[s] # None
              PROVE  /\ s \in guard'[k] /\ handles'[k][s] = None
                     /\ fds'[s] # None /\ table'[fds'[s]] = reply'[k].slots[s]
          <5>1. PICK f \in F : s = SlotFor(f, F)
            BY <3>2, <4>4 DEF Received
          <5>2. /\ reply'[k].slots[s] = f /\ fds'[s] = FdFor(f, F)
                /\ table'[FdFor(f, F)] = f
            BY <3>2, <5>1 DEF Received
          <5>3. s \in guard'[k]
            BY <3>2, <5>1 DEF Received, TypeOK
          <5>4. handles[k][s] = None
            BY <1>2, <3>3, <5>1 DEF HandleInv
          <5> QED
            BY <2>1, <3>3, <5>2, <5>3, <5>4
        <4> QED
          BY <4>2, <4>3, <4>4 DEF HandleInv
      <3>9. LeakFilesInv'
        <4>1. \A r \in Req : \A n \in leak[r] : table'[n] = table[n]
          BY <1>2, <3>5 DEF ClaimInv, TypeOK
        <4> QED
          BY <1>2, <2>1, <4>1, LeakFilesKept
      <3> QED
        BY <3>7, <3>8, <3>9
    <2> QED
      BY <2>2, <2>3
  <1>9. ASSUME NEW k \in Conn, ServeClose(k) \/ ServeEof(k)
        PROVE  ClaimInv' /\ HandleInv' /\ LeakFilesInv'
    <2>1. GuardClose(k) /\ UNCHANGED reqVars
      BY <1>9 DEF ServeClose, ServeEof
    <2>2. \A s \in Slot : fds'[s] = IF s \in guard[k] THEN None ELSE fds[s]
      BY <2>1 DEF GuardClose
    <2>3. \A n \in Fd : (\A s \in guard[k] : fds[s] # n) => table'[n] = table[n]
      BY <2>1 DEF GuardClose
    <2>4. \A s \in Slot \ guard[k] : fds[s] # None => table'[fds[s]] = table[fds[s]]
      <3> SUFFICES ASSUME NEW s \in Slot, s \notin guard[k], fds[s] # None
                   PROVE  table'[fds[s]] = table[fds[s]]
        OBVIOUS
      <3>1. fds[s] \in Fd
        BY DEF TypeOK
      <3>2. ASSUME NEW t \in guard[k]
            PROVE  fds[t] # fds[s]
        <4>1. t \in Slot
          BY DEF TypeOK
        <4> QED
          BY <1>2, <4>1 DEF ClaimInv
      <3> QED
        BY <2>3, <3>1, <3>2
    <2>5. \A r \in Req : \A n \in additional[r] \cup leak[r] : table'[n] = table[n]
      <3> SUFFICES ASSUME NEW r \in Req, NEW n \in additional[r] \cup leak[r]
                   PROVE  table'[n] = table[n]
        OBVIOUS
      <3>1. n \in Fd /\ n # None
        BY Constants DEF TypeOK
      <3>2. ASSUME NEW t \in guard[k]
            PROVE  fds[t] # n
        <4>1. t \in Slot
          BY DEF TypeOK
        <4> QED
          BY <1>2, <3>1, <4>1 DEF ClaimInv
      <3> QED
        BY <2>3, <3>1, <3>2
    <2>6. ClaimInv'
      <3>1. \A r \in Req : command[r] = {}
        BY <1>2 DEF ClaimInv
      <3>2. \A s \in Slot : fds'[s] # None => table'[fds[s]] = table[fds[s]]
        BY <2>2, <2>4
      <3> QED
        BY <1>2, <2>1, <2>2, <2>5, <3>1, <3>2, ClaimsKept
    <2>7. LeakFilesInv'
      BY <1>2, <2>1, <2>5, LeakFilesKept
    <2>8. /\ \A j \in Conn \ {k} : /\ handles'[j] = handles[j] /\ conn'[j] = conn[j]
                                   /\ reply'[j] = reply[j] /\ guard'[j] = guard[j]
          /\ \A s \in Slot : handles'[k][s] = None
          /\ reply'[k] = None
      <3>1. CASE ServeClose(k)
        BY <3>1 DEF ServeClose, GuardClose, NoHandles, TypeOK
      <3>2. CASE ServeEof(k)
        <4>1. \A s \in Slot : handles[k][s] = None
          BY <1>2, <3>2 DEF ServeEof, HandleInv
        <4> QED
          BY <3>2, <4>1 DEF ServeEof, GuardClose, TypeOK
      <3> QED
        BY <1>9, <3>1, <3>2
    <2>9. HandleInv'
      <3>1. ASSUME NEW j \in Conn, NEW s \in Slot,
                   \/ handles'[j][s] # None
                   \/ reply'[j] # None /\ reply'[j].slots[s] # None
            PROVE  s \in guard'[j] /\ fds'[s] = fds[s] /\ table'[fds[s]] = table[fds[s]]
        <4>1. j # k
          BY <2>8, <3>1
        <4>2. s \in guard[j] /\ fds[s] # None
          BY <1>2, <2>8, <3>1, <4>1 DEF HandleInv
        <4>3. s \notin guard[k]
          BY <1>2, <4>1, <4>2 DEF GuardInv
        <4> QED
          BY <2>2, <2>4, <2>8, <4>1, <4>2, <4>3
      <3> QED
        BY <1>2, <2>8, <3>1, HandlesKept
    <2> QED
      BY <2>6, <2>7, <2>9
  <1>10. ASSUME NEW r \in Req, NEW S \in SUBSET Known,
                TakeAdditional(r, S) \/ TakeLeak(r, S) \/ TakeFails(r, S)
         PROVE  ClaimInv' /\ HandleInv' /\ LeakFilesInv'
    <2>1. /\ fds' = Empty(S) /\ handles' = Used(S) /\ UNCHANGED <<conn, reply, guard, command>>
          /\ \A s \in S : s \in Slot /\ fds[s] \in Fd /\ fds[s] # None
          /\ S \subseteq Known
      BY <1>10 DEF TakeAdditional, TakeLeak, TakeFails, Known, TypeOK
    <2>2. \A s \in Slot : fds'[s] = IF s \in S THEN None ELSE fds[s]
      BY <2>1 DEF Empty
    <2>3. \A j \in Conn, s \in Slot : handles'[j][s] = IF s \in S THEN None ELSE handles[j][s]
      BY <2>1 DEF Used
    <2>4. \A j \in Conn, s \in Slot : reply[j] # None /\ reply[j].slots[s] # None => s \notin S
      <3> SUFFICES ASSUME NEW j \in Conn, NEW s \in S, reply[j] # None, reply[j].slots[s] # None
                   PROVE  FALSE
        OBVIOUS
      <3>1. s \in Slot
        BY <2>1
      <3>2. PICK i \in Conn : handles[i][s] # None
        BY <2>1 DEF Known
      <3>3. s \in guard[i] /\ s \in guard[j] /\ handles[j][s] = None
        BY <1>2, <3>1, <3>2 DEF HandleInv
      <3>4. i = j
        BY <1>2, <3>3 DEF GuardInv
      <3> QED
        BY <3>2, <3>3, <3>4
    <2>5. \A q \in Req : command'[q] = {}
      BY <1>2, <2>1 DEF ClaimInv
    <2>6. ASSUME \A s \in Slot \ S : fds[s] # None => table'[fds[s]] = table[fds[s]]
          PROVE  HandleInv'
      <3>1. ASSUME NEW j \in Conn, NEW s \in Slot,
                   \/ handles'[j][s] # None
                   \/ reply'[j] # None /\ reply'[j].slots[s] # None
            PROVE  s \in guard'[j] /\ fds'[s] = fds[s] /\ table'[fds[s]] = table[fds[s]]
        <4>1. s \notin S
          BY <2>1, <2>3, <2>4, <3>1
        <4>2. s \in guard[j] /\ fds[s] # None
          BY <1>2, <2>1, <2>3, <3>1, <4>1 DEF HandleInv
        <4> QED
          BY <2>1, <2>2, <2>6, <4>1, <4>2
      <3> QED
        BY <1>2, <2>1, <2>3, <3>1, HandlesKept
    <2>7. CASE TakeAdditional(r, S)
      <3>1. /\ additional[r] = {} /\ additional'[r] = {fds[s] : s \in S}
            /\ \A q \in Req \ {r} : additional'[q] = additional[q]
            /\ UNCHANGED <<table, leak, leakFiles>>
        BY <2>7 DEF TakeAdditional, TypeOK, ReqInv
      <3>2. ClaimInv'
        <4>1. \A s, t \in Slot : fds'[s] # None /\ fds'[s] = fds'[t] => s = t
          BY <1>2, <2>2 DEF ClaimInv
        <4>2. \A s \in Slot : fds'[s] # None => table'[fds'[s]] # None
          BY <1>2, <2>2, <3>1 DEF ClaimInv
        <4>3. \A s \in Slot, q \in Req : fds'[s] # None => fds'[s] \notin additional'[q] \cup leak'[q]
          BY <1>2, <2>1, <2>2, <3>1 DEF ClaimInv
        <4>4. \A q \in Req : \A n \in additional'[q] \cup leak'[q] : table'[n] # None
          BY <1>2, <2>1, <3>1 DEF ClaimInv
        <4>5. \A p, q \in Req : additional'[p] \cap leak'[q] = {}
          BY <1>2, <2>1, <3>1 DEF ClaimInv
        <4>6. \A p, q \in Req : p # q => /\ additional'[p] \cap additional'[q] = {}
                                         /\ leak'[p] \cap leak'[q] = {}
          BY <1>2, <2>1, <3>1 DEF ClaimInv
        <4> QED
          BY <2>5, <4>1, <4>2, <4>3, <4>4, <4>5, <4>6 DEF ClaimInv
      <3>3. LeakFilesInv'
        <4>1. \A q \in Req : req'[q] \in {"ready", "spawned", "running"} => req'[q] = req[q]
          BY <2>7 DEF TakeAdditional, TypeOK
        <4> QED
          BY <1>2, <3>1, <4>1, LeakFilesKept
      <3> QED
        BY <2>6, <3>1, <3>2, <3>3
    <2>8. CASE TakeLeak(r, S)
      <3>1. /\ leak[r] = {} /\ leak'[r] = {fds[s] : s \in S}
            /\ \A q \in Req \ {r} : leak'[q] = leak[q]
            /\ UNCHANGED <<table, additional>>
        BY <2>8 DEF TakeLeak, TypeOK, ReqInv
      <3>2. ClaimInv'
        <4>1. \A s, t \in Slot : fds'[s] # None /\ fds'[s] = fds'[t] => s = t
          BY <1>2, <2>2 DEF ClaimInv
        <4>2. \A s \in Slot : fds'[s] # None => table'[fds'[s]] # None
          BY <1>2, <2>2, <3>1 DEF ClaimInv
        <4>3. \A s \in Slot, q \in Req : fds'[s] # None => fds'[s] \notin additional'[q] \cup leak'[q]
          BY <1>2, <2>1, <2>2, <3>1 DEF ClaimInv
        <4>4. \A q \in Req : \A n \in additional'[q] \cup leak'[q] : table'[n] # None
          BY <1>2, <2>1, <3>1 DEF ClaimInv
        <4>5. \A p, q \in Req : additional'[p] \cap leak'[q] = {}
          BY <1>2, <2>1, <3>1 DEF ClaimInv
        <4>6. \A p, q \in Req : p # q => /\ additional'[p] \cap additional'[q] = {}
                                         /\ leak'[p] \cap leak'[q] = {}
          BY <1>2, <2>1, <3>1 DEF ClaimInv
        <4> QED
          BY <2>5, <4>1, <4>2, <4>3, <4>4, <4>5, <4>6 DEF ClaimInv
      <3>3. {table'[n] : n \in leak'[r]} = leakFiles'[r]
        <4>1. leakFiles'[r] = {f \in File : \E s \in S, j \in Conn : handles[j][s] = f}
          BY <2>8 DEF TakeLeak, TypeOK
        <4>2. ASSUME NEW s \in S
              PROVE  /\ \A j \in Conn : handles[j][s] # None => handles[j][s] = table[fds[s]]
                     /\ \E j \in Conn : handles[j][s] = table[fds[s]]
                     /\ table[fds[s]] \in File
          <5>1. s \in Slot
            BY <2>1
          <5>2. \A j \in Conn : handles[j][s] # None => handles[j][s] = table[fds[s]]
            BY <1>2, <5>1 DEF HandleInv
          <5>3. PICK j \in Conn : handles[j][s] # None
            BY <2>1 DEF Known
          <5>4. handles[j][s] \in File
            BY <5>1, <5>3 DEF TypeOK
          <5> QED
            BY <5>2, <5>3, <5>4
        <4>3. \A f \in File : f # None
          BY Constants
        <4>4. ASSUME NEW n \in leak'[r]
              PROVE  table[n] \in leakFiles'[r]
          BY <3>1, <4>1, <4>2
        <4>5. ASSUME NEW f \in leakFiles'[r]
              PROVE  \E n \in leak'[r] : table[n] = f
          <5>1. PICK s \in S, j \in Conn : handles[j][s] = f /\ f # None
            BY <4>1, <4>3
          <5>2. table[fds[s]] = f
            BY <4>2, <5>1
          <5> QED
            BY <3>1, <5>2
        <4> QED
          BY <3>1, <4>4, <4>5
      <3>4. ASSUME NEW q \in Req \ {r}
            PROVE  req'[q] = req[q] /\ leakFiles'[q] = leakFiles[q]
        BY <2>8 DEF TakeLeak, TypeOK
      <3>5. LeakFilesInv'
        BY <1>2, <3>1, <3>3, <3>4 DEF LeakFilesInv
      <3> QED
        BY <2>6, <3>1, <3>2, <3>5
    <2>9. CASE TakeFails(r, S)
      <3>1. /\ additional'[r] = {} /\ \A q \in Req \ {r} : additional'[q] = additional[q]
            /\ UNCHANGED <<leak, leakFiles>>
            /\ table' = CloseFds({fds[s] : s \in S} \cup additional[r])
        BY <2>9 DEF TakeFails, TypeOK
      <3>2. \A n \in Fd : (\A s \in S : fds[s] # n) /\ n \notin additional[r] => table'[n] = table[n]
        BY <3>1 DEF CloseFds
      <3>3. \A s \in Slot \ S : fds[s] # None => table'[fds[s]] = table[fds[s]]
        <4> SUFFICES ASSUME NEW s \in Slot, s \notin S, fds[s] # None
                     PROVE  table'[fds[s]] = table[fds[s]]
          OBVIOUS
        <4>1. fds[s] \in Fd /\ fds[s] \notin additional[r]
          BY <1>2 DEF TypeOK, ClaimInv
        <4>2. \A t \in S : fds[t] # fds[s]
          BY <1>2, <2>1 DEF ClaimInv
        <4> QED
          BY <3>2, <4>1, <4>2
      <3>4. \A q \in Req : \A n \in additional'[q] \cup leak'[q] : table'[n] = table[n]
        <4> SUFFICES ASSUME NEW q \in Req, NEW n \in additional'[q] \cup leak'[q]
                     PROVE  table'[n] = table[n]
          OBVIOUS
        <4>1. n \in Fd /\ n \notin additional[r]
          BY <1>2, <3>1 DEF TypeOK, ClaimInv
        <4>2. \A t \in S : fds[t] # n
          BY <1>2, <2>1, <3>1 DEF ClaimInv
        <4> QED
          BY <3>2, <4>1, <4>2
      <3>5. ClaimInv'
        <4>1. \A s \in Slot : fds'[s] # None => table'[fds[s]] = table[fds[s]]
          BY <2>2, <3>3
        <4> QED
          BY <1>2, <2>2, <2>5, <3>1, <3>4, <4>1, ClaimsKept
      <3>6. LeakFilesInv'
        <4>1. \A q \in Req : req'[q] \in {"ready", "spawned", "running"} => req'[q] = req[q]
          BY <2>9 DEF TakeFails, TypeOK
        <4> QED
          BY <1>2, <3>1, <3>4, <4>1, LeakFilesKept
      <3> QED
        BY <2>6, <3>3, <3>5, <3>6
    <2> QED
      BY <1>10, <2>7, <2>8, <2>9
  <1>11. ASSUME NEW r \in Req, CreateStep(r)
         PROVE  ClaimInv' /\ HandleInv' /\ LeakFilesInv'
    <2>1. UNCHANGED <<clientVars, fds, guard, leakFiles>>
      BY <1>11 DEF CreateStep, InitFails, Spawn, CreateChildOk, CreateChildFails, Refuse, Exited
    <2>2. \A q \in Req : /\ additional'[q] \subseteq additional[q] /\ command'[q] = {}
                         /\ req'[q] \in {"ready", "spawned", "running"} =>
                               req[q] \in {"ready", "spawned", "running"}
      <3>1. \A q \in Req : command[q] = {}
        BY <1>2 DEF ClaimInv
      <3>2. CASE Spawn(r)
        <4>1. additional[r] = {}
          BY <3>2 DEF Spawn
        <4> QED
          BY <3>1, <3>2, <4>1 DEF Spawn, TypeOK
      <3>3. CASE \/ InitFails(r) \/ CreateChildOk(r) \/ CreateChildFails(r) \/ Refuse(r)
                 \/ Exited(r)
        BY <3>1, <3>3 DEF InitFails, CreateChildOk, CreateChildFails, Refuse, Exited, TypeOK
      <3> QED
        BY <1>11, <3>2, <3>3 DEF CreateStep
    <2>3. PICK N \in SUBSET (additional[r] \cup leak[r]) :
             /\ table' = CloseFds(N) /\ N \cap (additional'[r] \cup leak'[r]) = {}
             /\ \/ leak' = leak
                \/ leak' = [leak EXCEPT ![r] = {}] /\ req'[r] \in {"failed", "done"}
      <3>1. CASE Spawn(r)
        <4>1. additional[r] = {}
          BY <3>1 DEF Spawn
        <4> QED
          BY <3>1, <4>1 DEF Spawn
      <3>2. CASE CreateChildOk(r) \/ CreateChildFails(r)
        <4>1. command[r] = {}
          BY <1>2 DEF ClaimInv
        <4> QED
          BY <3>2, <4>1 DEF CreateChildOk, CreateChildFails
      <3>3. CASE InitFails(r)
        <4>1. additional'[r] = {} /\ leak'[r] = {} /\ req'[r] = "failed"
          BY <3>3 DEF InitFails, TypeOK
        <4> WITNESS additional[r] \cup leak[r] \in SUBSET (additional[r] \cup leak[r])
        <4> QED
          BY <3>3, <4>1 DEF InitFails
      <3>4. CASE Refuse(r) \/ Exited(r)
        <4>1. leak'[r] = {} /\ additional' = additional /\ req'[r] \in {"failed", "done"}
          BY <3>4 DEF Refuse, Exited, TypeOK
        <4>2. additional[r] \cap leak[r] = {}
          BY <1>2 DEF ClaimInv
        <4> WITNESS leak[r] \in SUBSET (additional[r] \cup leak[r])
        <4> QED
          BY <3>4, <4>1, <4>2 DEF Refuse, Exited
      <3> QED
        BY <1>11, <3>1, <3>2, <3>3, <3>4 DEF CreateStep
    <2>4. /\ \A q \in Req : leak'[q] \subseteq leak[q]
          /\ \A q \in Req : req'[q] \in {"ready", "spawned", "running"} => leak'[q] = leak[q]
      BY <2>3 DEF TypeOK
    <2>5. \A q \in Req : \A n \in additional'[q] \cup leak'[q] : table'[n] = table[n]
      <3> SUFFICES ASSUME NEW q \in Req, NEW n \in additional'[q] \cup leak'[q]
                   PROVE  table'[n] = table[n]
        OBVIOUS
      <3>1. n \in Fd /\ n \in additional[q] \cup leak[q]
        BY <2>2, <2>4 DEF TypeOK
      <3>2. n \notin N
        <4>1. CASE q = r
          BY <2>3, <4>1
        <4>2. CASE q # r
          <5>1. n \notin additional[r] \cup leak[r]
            BY <1>2, <3>1, <4>2 DEF ClaimInv
          <5> QED
            BY <2>3, <5>1
        <4> QED
          BY <4>1, <4>2
      <3> QED
        BY <2>3, <3>1, <3>2 DEF CloseFds
    <2>6. \A s \in Slot : fds[s] # None => table'[fds[s]] = table[fds[s]]
      <3> SUFFICES ASSUME NEW s \in Slot, fds[s] # None
                   PROVE  table'[fds[s]] = table[fds[s]]
        OBVIOUS
      <3>1. fds[s] \in Fd /\ fds[s] \notin additional[r] \cup leak[r]
        BY <1>2 DEF ClaimInv, TypeOK
      <3> QED
        BY <2>3, <3>1 DEF CloseFds
    <2>7. ClaimInv'
      BY <1>2, <2>1, <2>2, <2>4, <2>5, <2>6, ClaimsKept
    <2>8. HandleInv'
      BY <1>2, <2>1, <2>6 DEF HandleInv
    <2>9. LeakFilesInv'
      <3>1. \A q \in Req : req'[q] \in {"ready", "spawned", "running"} =>
               \A n \in leak[q] : table'[n] = table[n]
        BY <2>4, <2>5
      <3> QED
        BY <1>2, <2>1, <2>2, <2>4, <3>1, LeakFilesKept
    <2> QED
      BY <2>7, <2>8, <2>9
  <1>12. CASE UNCHANGED vars
    <2>1. HandleInv'
      BY <1>2, <1>12 DEF vars, HandleInv
    <2> QED
      BY <1>3, <1>12, <2>1 DEF vars
  <1> QED
    BY <1>4, <1>5, <1>6, <1>7, <1>8, <1>9, <1>10, <1>11, <1>12
    DEF Next, ClientStep, ServeStep, RequestStep

\* All of it holds in every reachable state.
LEMMA OwnerInvariance ==
    ASSUME SlotsSuffice
    PROVE  Spec => [](OwnerInv)
  <1> DEFINE I == TypeOK /\ WireInv /\ ReqInv /\ SlotInv /\ OwnerInv
  <1>1. Init => I
    <2> SUFFICES ASSUME Init PROVE I
      OBVIOUS
    <2>1. TypeOK /\ WireInv
      BY InitType
    <2>2. ReqInv
      BY DEF Init, ReqInv
    <2>3. SentInv /\ GuardInv
      BY DEF Init, SentInv, GuardInv
    <2>4. FreshInv
      <3>1. Waiting = File
        BY DEF Init, Waiting
      <3>2. Cardinality(Waiting) <= W /\ W \in 0..W
        BY <3>1, FdSocketAssumption DEF SlotsSuffice
      <3>3. \A s \in Slot : fds[s] = None /\ \A k \in Conn : s \notin guard[k]
        BY DEF Init
      <3> QED
        BY <3>2, <3>3 DEF FreshInv
    <2>5. ClaimInv /\ LeakFilesInv
      BY DEF Init, ClaimInv, LeakFilesInv
    <2>6. HandleInv
      BY DEF Init, NoHandles, HandleInv
    <2> QED
      BY <2>1, <2>2, <2>3, <2>4, <2>5, <2>6 DEF SlotInv, OwnerInv
  <1>2. I /\ [Next]_vars => I'
    BY TypeStep, ReqStep, SlotStep, OwnerStep
  <1> QED
    BY <1>1, <1>2, PTL DEF Spec

\* A slot number a client was given refers to the descriptor it passed until the
\* client hands it on or closes its connection, for any number of connections
\* and requests, if the counter of slots does not come round within the life of
\* the server and no Command closes additional_fds for a second time.
THEOREM HandlesHoldCorrect ==
    ASSUME SlotsSuffice
    PROVE  Spec => []HandlesHold
  <1>1. OwnerInv => HandlesHold
    BY DEF OwnerInv, HandleInv, HandlesHold
  <1> QED
    BY <1>1, OwnerInvariance, PTL

\* Under the same hypotheses the descriptors leaked into a container stay open,
\* and stay the right ones, until its end.
THEOREM LeakFdsOpenCorrect ==
    ASSUME SlotsSuffice
    PROVE  Spec => []LeakFdsOpenUnmapped
  <1>1. OwnerInv => LeakFdsOpenUnmapped
    BY DEF OwnerInv, LeakFilesInv, LeakFdsOpenUnmapped, LeakFdsOpen
  <1> QED
    BY <1>1, OwnerInvariance, PTL

=============================================================================
