------------------------- MODULE ClientCallsProofs -------------------------
(***************************************************************************)
(* Theorems about ClientCalls, for all configurations and answers.  The    *)
(* first part proves that the generated accessors have the layout the      *)
(* schema prescribes; the second that what is written into slots that do   *)
(* not overlap can be read back; the rest follows a request from its       *)
(* setters over the wire to the handler, and the answer back.              *)
(***************************************************************************)
EXTENDS ClientCalls, FiniteSetTheorems, WellFoundedInduction, TLAPS

-----------------------------------------------------------------------------
(* Layouts. *)

\* The slot of field i is where the encoding rules put it.
IsPlace(fields, i, slot) ==
    IF fields[i][2] = 0
    THEN slot[i] = Ptr(Cardinality(PointersBefore(fields, i)))
    ELSE \E a \in FreePositions(fields, i, slot) :
            /\ slot[i] = Data(fields[i][2], a)
            /\ \A b \in FreePositions(fields, i, slot) : a <= b

\* The fields of a schema: named differently, with widths that are numbers.
IsSchema(fields) ==
    /\ DOMAIN fields = 1..Len(fields) /\ Len(fields) \in Nat
    /\ \A i \in DOMAIN fields : fields[i][2] \in Nat
    /\ \A i, j \in DOMAIN fields : fields[i][1] = fields[j][1] => i = j

\* The accessors agree with the schema.
IsLayout(fields, slots) ==
    /\ IsSchema(fields)
    /\ slots = [f \in {fields[i][1] : i \in DOMAIN fields} |-> slots[f]]
    /\ \A i \in DOMAIN fields :
          IsPlace(fields, i, [k \in DOMAIN fields |-> slots[fields[k][1]]])

\* A free position is a position.
LEMMA FreeIsNat ==
  ASSUME NEW fields, NEW i, NEW slot, fields[i][2] \in Nat \ {0}
  PROVE  FreePositions(fields, i, slot) \subseteq Nat
  <1>1. \A k \in Nat : k * fields[i][2] \in Nat
    OBVIOUS
  <1> QED BY <1>1 DEF FreePositions, DataBits

\* What IsPlace describes is what Place chooses.
LEMMA PlaceIs ==
  ASSUME NEW fields, NEW i, NEW slot, fields[i][2] \in Nat, IsPlace(fields, i, slot)
  PROVE  slot[i] = Place(fields, i, slot)
  <1>1. CASE fields[i][2] = 0
    BY <1>1 DEF IsPlace, Place
  <1>2. CASE fields[i][2] # 0
    <2> DEFINE F == FreePositions(fields, i, slot)
    <2>1. PICK a \in F : slot[i] = Data(fields[i][2], a) /\ \A b \in F : a <= b
      BY <1>2 DEF IsPlace
    <2>2. F \subseteq Nat
      BY <1>2, FreeIsNat
    <2>3. Min(F) = a
      BY <2>1, <2>2 DEF Min
    <2> QED BY <1>2, <2>1, <2>3 DEF Place
  <1> QED BY <1>1, <1>2

\* Place looks at the slots of earlier fields only.
LEMMA PlaceCongruent ==
  ASSUME NEW fields, NEW i, NEW s, NEW t, \A j \in 1..(i - 1) : s[j] = t[j]
  PROVE  Place(fields, i, s) = Place(fields, i, t)
  <1>1. FreePositions(fields, i, s) = FreePositions(fields, i, t)
    BY DEF FreePositions
  <1> QED BY <1>1 DEF Place

\* A set of numbers that has an element has a least one.
LEMMA Least ==
  ASSUME NEW S, S \subseteq Nat, S # {}
  PROVE  \E n \in S : \A m \in S : n <= m
  <1>1. PICK n \in S : \A m \in S : ~(<<m, n>> \in OpToRel(<, Nat))
    BY WFMin, NatLessThanWellFounded
  <1>2. \A m \in S : ~(m < n)
    BY <1>1 DEF OpToRel
  <1> QED BY <1>2

\* There is one way to place the fields of a schema.
LEMMA PlacesUnique ==
  ASSUME NEW fields, IsSchema(fields), NEW s, NEW t,
         \A i \in DOMAIN fields : s[i] = Place(fields, i, s),
         \A i \in DOMAIN fields : t[i] = Place(fields, i, t)
  PROVE  \A i \in DOMAIN fields : s[i] = t[i]
  <1> DEFINE D == {i \in DOMAIN fields : s[i] # t[i]}
  <1> SUFFICES ASSUME D # {} PROVE FALSE
    OBVIOUS
  <1>1. D \subseteq Nat
    BY DEF IsSchema
  <1>2. PICK i \in D : \A j \in D : i <= j
    BY <1>1, Least
  <1>3. i \in 1..Len(fields) /\ Len(fields) \in Nat
    BY <1>2 DEF IsSchema
  <1>4. \A j \in 1..(i - 1) : s[j] = t[j]
    BY <1>2, <1>3 DEF IsSchema
  <1>5. Place(fields, i, s) = Place(fields, i, t)
    BY <1>4, PlaceCongruent
  <1> QED BY <1>2, <1>5

\* Accessors that agree with the schema are the layout computed from it.
LEMMA LayoutAllocated ==
  ASSUME NEW fields, NEW slots, IsLayout(fields, slots)
  PROVE  Allocate(fields) = slots
  <1> DEFINE g == [i \in DOMAIN fields |-> slots[fields[i][1]]]
             e(s) == [i \in DOMAIN fields |-> Place(fields, i, s)]
             slot == CHOOSE s : s = e(s)
             Ordinal(f) == CHOOSE i \in DOMAIN fields : fields[i][1] = f
  <1>1. IsSchema(fields) /\ slots = [f \in {fields[i][1] : i \in DOMAIN fields} |-> slots[f]]
    BY DEF IsLayout
  <1>2. \A i \in DOMAIN fields : g[i] = Place(fields, i, g)
    <2>1. \A i \in DOMAIN fields : IsPlace(fields, i, g) /\ fields[i][2] \in Nat
      BY DEF IsLayout, IsSchema
    <2> HIDE DEF g
    <2> QED BY <2>1, PlaceIs
  <1>3. g = e(g)
    BY <1>2
  <1>4. slot = e(slot)
    BY <1>3
  <1> HIDE DEF slot, g
  <1>5. \A i \in DOMAIN fields : slot[i] = Place(fields, i, slot)
    BY <1>4
  <1>6. \A i \in DOMAIN fields : slot[i] = g[i]
    BY <1>1, <1>2, <1>5, PlacesUnique
  <1>7. \A i \in DOMAIN fields : Ordinal(fields[i][1]) = i
    BY <1>1 DEF IsSchema
  <1>8. [f \in {fields[i][1] : i \in DOMAIN fields} |-> slot[Ordinal(f)]] = slots
    <2>1. ASSUME NEW f \in {fields[i][1] : i \in DOMAIN fields}
          PROVE  slot[Ordinal(f)] = slots[f]
      <3>1. PICK i \in DOMAIN fields : f = fields[i][1]
        OBVIOUS
      <3>2. Ordinal(f) = i
        BY <3>1, <1>7
      <3> QED BY <3>1, <3>2, <1>6 DEF g
    <2> QED BY <2>1, <1>1
  <1> QED BY <1>8 DEF Allocate, slot

\* A slot has its extent.
IsSlot(s) == s.sect \in {"ptr", "data"} /\ s.at \in Nat /\ s.len \in Nat \ {0}

\* The slots of a struct have their extents and nothing in common.
Separate(slots) ==
    /\ \A f \in DOMAIN slots : IsSlot(slots[f])
    /\ \A f, g \in DOMAIN slots : f # g => ~Overlap(slots[f], slots[g])

\* One more pointer is counted after a pointer.
LEMMA PointerCount ==
  ASSUME NEW fields, NEW i \in Nat \ {0}
  PROVE  /\ Cardinality(PointersBefore(fields, 1)) = 0
         /\ Cardinality(PointersBefore(fields, i)) \in Nat
         /\ Cardinality(PointersBefore(fields, i + 1)) =
              Cardinality(PointersBefore(fields, i)) + IF fields[i][2] = 0 THEN 1 ELSE 0
  <1> DEFINE P(k) == PointersBefore(fields, k)
  <1>1. P(1) = {}
    BY DEF PointersBefore
  <1>2. IsFiniteSet(P(i))
    <2>1. P(i) \subseteq 1..(i - 1)
      BY DEF PointersBefore
    <2> QED BY <2>1, FS_Interval, FS_Subset
  <1>3. i \notin P(i)
    BY DEF PointersBefore
  <1>4. P(i + 1) = IF fields[i][2] = 0 THEN P(i) \cup {i} ELSE P(i)
    BY DEF PointersBefore
  <1> HIDE DEF P
  <1>5. Cardinality(P(i)) \in Nat
    BY <1>2, FS_CardinalityType
  <1>6. fields[i][2] = 0 => Cardinality(P(i + 1)) = Cardinality(P(i)) + 1
    BY <1>2, <1>3, <1>4, FS_AddElement
  <1>7. fields[i][2] # 0 => Cardinality(P(i + 1)) = Cardinality(P(i))
    BY <1>4
  <1>8. Cardinality(P(1)) = 0
    BY <1>1, FS_EmptySet
  <1> QED BY <1>5, <1>6, <1>7, <1>8 DEF P

\* There are more pointers before a field than before an earlier pointer.
LEMMA PointersGrow ==
  ASSUME NEW fields, NEW i \in Nat \ {0}, NEW j \in Nat, i < j, fields[i][2] = 0
  PROVE  Cardinality(PointersBefore(fields, i)) < Cardinality(PointersBefore(fields, j))
  <1> DEFINE P(k) == PointersBefore(fields, k)
  <1>1. IsFiniteSet(P(j))
    <2>1. P(j) \subseteq 1..(j - 1)
      BY DEF PointersBefore
    <2> QED BY <2>1, FS_Interval, FS_Subset
  <1>2. P(i) \subseteq P(j) /\ i \in P(j) /\ i \notin P(i)
    BY DEF PointersBefore
  <1> HIDE DEF P
  <1>3. Cardinality(P(i)) <= Cardinality(P(j)) /\ Cardinality(P(i)) # Cardinality(P(j))
    BY <1>1, <1>2, FS_Subset
  <1>4. Cardinality(P(i)) \in Nat /\ Cardinality(P(j)) \in Nat
    BY <1>1, <1>2, FS_Subset, FS_CardinalityType
  <1>5. Cardinality(P(i)) < Cardinality(P(j))
    BY <1>3, <1>4
  <1> QED BY <1>5 DEF P

\* Fields that the encoding rules have placed do not overlap.
LEMMA PlacesApart ==
  ASSUME NEW fields, IsSchema(fields), NEW slot,
         \A i \in DOMAIN fields : IsPlace(fields, i, slot)
  PROVE  /\ \A i \in DOMAIN fields : IsSlot(slot[i])
         /\ \A i, j \in DOMAIN fields : i # j => ~Overlap(slot[i], slot[j])
  <1>1. \A i \in DOMAIN fields : fields[i][2] \in Nat /\ i \in Nat \ {0}
    BY DEF IsSchema
  <1>2. ASSUME NEW i \in DOMAIN fields
        PROVE  IsSlot(slot[i]) /\ (slot[i].sect = "ptr" <=> fields[i][2] = 0)
    <2>1. CASE fields[i][2] = 0
      <3>1. Cardinality(PointersBefore(fields, i)) \in Nat
        BY <1>1, PointerCount
      <3>2. slot[i] = Ptr(Cardinality(PointersBefore(fields, i)))
        BY <2>1 DEF IsPlace
      <3> QED BY <2>1, <3>1, <3>2 DEF Ptr, IsSlot
    <2>2. CASE fields[i][2] # 0
      <3>1. PICK a \in FreePositions(fields, i, slot) : slot[i] = Data(fields[i][2], a)
        BY <2>2 DEF IsPlace
      <3>2. a \in Nat /\ fields[i][2] \in Nat \ {0}
        BY <1>1, <2>2, <3>1, FreeIsNat
      <3> QED BY <3>1, <3>2 DEF Data, IsSlot
    <2> QED BY <2>1, <2>2
  <1>3. ASSUME NEW i \in DOMAIN fields, NEW j \in DOMAIN fields, i < j
        PROVE  ~Overlap(slot[i], slot[j])
    <2>1. CASE fields[i][2] = 0 /\ fields[j][2] = 0
      <3> DEFINE a == Cardinality(PointersBefore(fields, i))
                 b == Cardinality(PointersBefore(fields, j))
      <3>1. a \in Nat /\ b \in Nat /\ a < b
        BY <1>1, <1>3, <2>1, PointerCount, PointersGrow
      <3>2. slot[i] = Ptr(a) /\ slot[j] = Ptr(b)
        BY <2>1 DEF IsPlace
      <3> HIDE DEF a, b
      <3> QED BY <3>1, <3>2 DEF Ptr, Overlap
    <2>2. CASE fields[i][2] # 0 /\ fields[j][2] # 0
      <3>1. PICK a \in FreePositions(fields, j, slot) : slot[j] = Data(fields[j][2], a)
        BY <2>2 DEF IsPlace
      <3>2. i \in 1..(j - 1)
        BY <1>1, <1>3
      <3> QED BY <2>2, <3>1, <3>2 DEF FreePositions
    <2>3. CASE ~(fields[i][2] = 0 <=> fields[j][2] = 0)
      BY <1>2, <2>3 DEF Overlap
    <2> QED BY <2>1, <2>2, <2>3
  <1>4. \A i, j \in DOMAIN fields : Overlap(slot[i], slot[j]) => Overlap(slot[j], slot[i])
    BY DEF Overlap
  <1> QED BY <1>1, <1>2, <1>3, <1>4

\* So do the accessors that agree with a schema.
LEMMA LayoutSeparate ==
  ASSUME NEW fields, NEW slots, IsLayout(fields, slots)
  PROVE  Separate(slots)
  <1> DEFINE g == [i \in DOMAIN fields |-> slots[fields[i][1]]]
  <1>1. IsSchema(fields) /\ DOMAIN slots = {fields[i][1] : i \in DOMAIN fields}
    BY DEF IsLayout
  <1>2. \A i \in DOMAIN fields : IsPlace(fields, i, g)
    BY DEF IsLayout
  <1>3. \A i \in DOMAIN fields : g[i] = slots[fields[i][1]]
    OBVIOUS
  <1> HIDE DEF g
  <1>4. /\ \A i \in DOMAIN fields : IsSlot(g[i])
        /\ \A i, j \in DOMAIN fields : i # j => ~Overlap(g[i], g[j])
    BY <1>1, <1>2, PlacesApart
  <1> QED BY <1>1, <1>3, <1>4 DEF Separate

\* A generated struct has the layout of its schema, and is large enough for it.
Agrees(struct, fields) ==
    /\ IsLayout(fields, struct.slots)
    /\ \A f \in DOMAIN struct.slots : Fits(struct.slots[f], struct.bytes, struct.ptrs)

\* The accessors of Conmon_VersionRequest.
LEMMA VersionRequestAgrees ==
  Agrees(VersionRequest, SchemaRequest["version"])
  <1> DEFINE F == << << "verbose", 1 >>, << "metadataOld", 0 >>, << "metadata", 0 >> >>
             G == << Data(1, 0), Ptr(0), Ptr(1) >>
             C(i) == Cardinality(PointersBefore(F, i))
  <1>1. SchemaRequest["version"] = F /\ IsSchema(F)
    BY DEF SchemaRequest, IsSchema, Text, Bool, Num
  <1>2. /\ VersionRequest.slots =
              [f \in {F[i][1] : i \in DOMAIN F} |-> VersionRequest.slots[f]]
        /\ G = [i \in DOMAIN F |-> VersionRequest.slots[F[i][1]]]
    BY DEF VersionRequest, Struct,
           Data, Bit, Uint16, Uint32, Uint64
  <1>3. \A f \in DOMAIN VersionRequest.slots :
          Fits(VersionRequest.slots[f], VersionRequest.bytes,
               VersionRequest.ptrs)
    BY DEF VersionRequest, Struct,
           Fits, Ptr, Bit, Uint16, Uint32, Uint64
  <1>4. C(1) = 0 /\ C(2) = 0 /\ C(3) = 1
    <2>1. C(1) = 0 /\ \A i \in 1..3 : C(i + 1) = C(i) + IF F[i][2] = 0 THEN 1 ELSE 0
      BY PointerCount
    <2> HIDE DEF C
    <2> QED BY <2>1
  <1>5. \A i \in 1..3 : F[i][2] = 0 => G[i] = Ptr(C(i))
    <2> HIDE DEF C
    <2> QED BY <1>4
  <1>6. 0 \in FreePositions(F, 1, G) /\ \A b \in FreePositions(F, 1, G) : 0 <= b
    BY DEF FreePositions, DataBits, Overlap, Data
  <1>7. \A i \in DOMAIN F : IsPlace(F, i, G)
    BY <1>5, <1>6 DEF IsPlace
  <1> HIDE DEF F, G
  <1> SUFFICES Agrees(VersionRequest, F)
    BY <1>1
  <1> QED BY <1>1, <1>2, <1>3, <1>7 DEF Agrees, IsLayout

\* The accessors of Conmon_CreateContainerRequest.
LEMMA CreateContainerRequestAgrees ==
  Agrees(CreateContainerRequest, SchemaRequest["createContainer"])
  <1> DEFINE F == << << "id", 0 >>, << "bundlePath", 0 >>, << "terminal", 1 >>,
                     << "stdin", 1 >>, << "exitPaths", 0 >>, << "oomExitPaths", 0 >>,
                     << "logDrivers", 0 >>, << "cleanupCmd", 0 >>,
                     << "globalArgs", 0 >>, << "commandArgs", 0 >>,
                     << "metadataOld", 0 >>, << "metadata", 0 >>, << "envVars", 0 >>,
                     << "cgroupManager", 16 >>, << "additionalFds", 0 >>,
                     << "leakFds", 0 >> >>
             G == << Ptr(0), Ptr(1), Data(1, 0), Data(1, 1), Ptr(2), Ptr(3), Ptr(4),
                     Ptr(5), Ptr(6), Ptr(7), Ptr(8), Ptr(9), Ptr(10), Data(16, 16),
                     Ptr(11), Ptr(12) >>
             C(i) == Cardinality(PointersBefore(F, i))
  <1>1. SchemaRequest["createContainer"] = F /\ IsSchema(F)
    BY SMTT(30) DEF SchemaRequest, IsSchema, Text, Bool, Num
  <1>2. /\ CreateContainerRequest.slots =
              [f \in {F[i][1] : i \in DOMAIN F} |-> CreateContainerRequest.slots[f]]
        /\ G = [i \in DOMAIN F |-> CreateContainerRequest.slots[F[i][1]]]
    <2> DEFINE S == CreateContainerRequest.slots
               names == {"id", "bundlePath", "terminal", "stdin", "exitPaths", "oomExitPaths",
                         "logDrivers", "cleanupCmd", "globalArgs", "commandArgs",
                         "metadataOld", "metadata", "envVars", "cgroupManager",
                         "additionalFds", "leakFds"}
    <2>1. S = Join(Join(CreateContainerIO, CreateContainerRuntime), CreateContainerFds)
      BY DEF CreateContainerRequest, Struct
    <2>2. /\ DOMAIN CreateContainerIO \cup DOMAIN CreateContainerRuntime
                 \cup DOMAIN CreateContainerFds = names
          /\ S = [f \in DOMAIN S |-> S[f]]
      BY <2>1 DEF Join, CreateContainerIO, CreateContainerRuntime, CreateContainerFds
    <2>3. DOMAIN S = names
      BY <2>1, <2>2 DEF Join
    <2>4. {F[i][1] : i \in DOMAIN F} = names
      OBVIOUS
    <2>5. /\ S["id"] = Ptr(0) /\ S["bundlePath"] = Ptr(1)
          /\ S["terminal"] = Data(1, 0) /\ S["stdin"] = Data(1, 1)
          /\ S["exitPaths"] = Ptr(2) /\ S["oomExitPaths"] = Ptr(3)
          /\ S["logDrivers"] = Ptr(4)
      BY <2>1 DEF Join, CreateContainerIO, CreateContainerRuntime, CreateContainerFds, Bit, Data
    <2>6. /\ S["cleanupCmd"] = Ptr(5) /\ S["globalArgs"] = Ptr(6)
          /\ S["commandArgs"] = Ptr(7) /\ S["metadataOld"] = Ptr(8)
          /\ S["metadata"] = Ptr(9) /\ S["envVars"] = Ptr(10)
          /\ S["cgroupManager"] = Data(16, 16)
      BY <2>1 DEF Join, CreateContainerIO, CreateContainerRuntime, CreateContainerFds, Uint16, Data
    <2>7. S["additionalFds"] = Ptr(11) /\ S["leakFds"] = Ptr(12)
      BY <2>1 DEF Join, CreateContainerIO, CreateContainerRuntime, CreateContainerFds
    <2> HIDE DEF S
    <2>8. G = [i \in DOMAIN F |-> S[F[i][1]]]
      BY <2>5, <2>6, <2>7
    <2>9. S = [f \in {F[i][1] : i \in DOMAIN F} |-> S[f]]
      BY <2>2, <2>3, <2>4
    <2> QED BY <2>8, <2>9 DEF S
  <1>3. \A f \in DOMAIN CreateContainerRequest.slots :
          Fits(CreateContainerRequest.slots[f], CreateContainerRequest.bytes,
               CreateContainerRequest.ptrs)
    BY DEF CreateContainerRequest, Struct, Join, CreateContainerIO,
           CreateContainerRuntime, CreateContainerFds,
           Fits, Ptr, Bit, Uint16, Uint32, Uint64
  <1>4. /\ C(1) = 0 /\ C(2) = 1 /\ C(3) = 2 /\ C(4) = 2 /\ C(5) = 2 /\ C(6) = 3
        /\ C(7) = 4 /\ C(8) = 5 /\ C(9) = 6 /\ C(10) = 7 /\ C(11) = 8 /\ C(12) = 9
        /\ C(13) = 10 /\ C(14) = 11 /\ C(15) = 11 /\ C(16) = 12
    <2>1. C(1) = 0 /\ \A i \in 1..16 : C(i + 1) = C(i) + IF F[i][2] = 0 THEN 1 ELSE 0
      BY PointerCount
    <2> HIDE DEF C
    <2> QED BY <2>1
  <1>5. \A i \in 1..16 : F[i][2] = 0 => G[i] = Ptr(C(i))
    <2> HIDE DEF C
    <2> QED BY <1>4
  <1>6. 0 \in FreePositions(F, 3, G) /\ \A b \in FreePositions(F, 3, G) : 0 <= b
    BY DEF FreePositions, DataBits, Overlap, Data
  <1>7. 1 \in FreePositions(F, 4, G) /\ \A b \in FreePositions(F, 4, G) : 1 <= b
    BY DEF FreePositions, DataBits, Overlap, Data
  <1>8. 16 \in FreePositions(F, 14, G) /\ \A b \in FreePositions(F, 14, G) : 16 <= b
    BY DEF FreePositions, DataBits, Overlap, Data
  <1>9. \A i \in DOMAIN F : IsPlace(F, i, G)
    BY <1>5, <1>6, <1>7, <1>8 DEF IsPlace
  <1> HIDE DEF F, G
  <1> SUFFICES Agrees(CreateContainerRequest, F)
    BY <1>1
  <1> QED BY <1>1, <1>2, <1>3, <1>9 DEF Agrees, IsLayout

\* The accessors of Conmon_ExecSyncContainerRequest.
LEMMA ExecSyncContainerRequestAgrees ==
  Agrees(ExecSyncContainerRequest, SchemaRequest["execSyncContainer"])
  <1> DEFINE F == << << "id", 0 >>, << "timeoutSec", 64 >>, << "command", 0 >>,
                     << "terminal", 1 >>, << "metadataOld", 0 >>, << "metadata", 0 >>,
                     << "envVars", 0 >>, << "cgroupManager", 16 >> >>
             G == << Ptr(0), Data(64, 0), Ptr(1), Data(1, 64), Ptr(2), Ptr(3), Ptr(4),
                     Data(16, 80) >>
             C(i) == Cardinality(PointersBefore(F, i))
  <1>1. SchemaRequest["execSyncContainer"] = F /\ IsSchema(F)
    BY DEF SchemaRequest, IsSchema, Text, Bool, Num
  <1>2. /\ ExecSyncContainerRequest.slots =
              [f \in {F[i][1] : i \in DOMAIN F} |-> ExecSyncContainerRequest.slots[f]]
        /\ G = [i \in DOMAIN F |-> ExecSyncContainerRequest.slots[F[i][1]]]
    BY DEF ExecSyncContainerRequest, Struct,
           Data, Bit, Uint16, Uint32, Uint64
  <1>3. \A f \in DOMAIN ExecSyncContainerRequest.slots :
          Fits(ExecSyncContainerRequest.slots[f], ExecSyncContainerRequest.bytes,
               ExecSyncContainerRequest.ptrs)
    BY DEF ExecSyncContainerRequest, Struct,
           Fits, Ptr, Bit, Uint16, Uint32, Uint64
  <1>4. /\ C(1) = 0 /\ C(2) = 1 /\ C(3) = 1 /\ C(4) = 2 /\ C(5) = 2 /\ C(6) = 3
        /\ C(7) = 4 /\ C(8) = 5
    <2>1. C(1) = 0 /\ \A i \in 1..8 : C(i + 1) = C(i) + IF F[i][2] = 0 THEN 1 ELSE 0
      BY PointerCount
    <2> HIDE DEF C
    <2> QED BY <2>1
  <1>5. \A i \in 1..8 : F[i][2] = 0 => G[i] = Ptr(C(i))
    <2> HIDE DEF C
    <2> QED BY <1>4
  <1>6. 0 \in FreePositions(F, 2, G) /\ \A b \in FreePositions(F, 2, G) : 0 <= b
    BY DEF FreePositions, DataBits, Overlap, Data
  <1>7. 64 \in FreePositions(F, 4, G) /\ \A b \in FreePositions(F, 4, G) : 64 <= b
    BY DEF FreePositions, DataBits, Overlap, Data
  <1>8. 80 \in FreePositions(F, 8, G) /\ \A b \in FreePositions(F, 8, G) : 80 <= b
    BY DEF FreePositions, DataBits, Overlap, Data
  <1>9. \A i \in DOMAIN F : IsPlace(F, i, G)
    BY <1>5, <1>6, <1>7, <1>8 DEF IsPlace
  <1> HIDE DEF F, G
  <1> SUFFICES Agrees(ExecSyncContainerRequest, F)
    BY <1>1
  <1> QED BY <1>1, <1>2, <1>3, <1>9 DEF Agrees, IsLayout

\* The accessors of Conmon_AttachRequest.
LEMMA AttachRequestAgrees ==
  Agrees(AttachRequest, SchemaRequest["attachContainer"])
  <1> DEFINE F == << << "id", 0 >>, << "socketPath", 0 >>, << "execSessionId", 0 >>,
                     << "stopAfterStdinEof", 1 >>, << "metadataOld", 0 >>,
                     << "metadata", 0 >> >>
             G == << Ptr(0), Ptr(1), Ptr(2), Data(1, 0), Ptr(3), Ptr(4) >>
             C(i) == Cardinality(PointersBefore(F, i))
  <1>1. SchemaRequest["attachContainer"] = F /\ IsSchema(F)
    BY DEF SchemaRequest, IsSchema, Text, Bool, Num
  <1>2. /\ AttachRequest.slots =
              [f \in {F[i][1] : i \in DOMAIN F} |-> AttachRequest.slots[f]]
        /\ G = [i \in DOMAIN F |-> AttachRequest.slots[F[i][1]]]
    BY DEF AttachRequest, Struct,
           Data, Bit, Uint16, Uint32, Uint64
  <1>3. \A f \in DOMAIN AttachRequest.slots :
          Fits(AttachRequest.slots[f], AttachRequest.bytes,
               AttachRequest.ptrs)
    BY DEF AttachRequest, Struct,
           Fits, Ptr, Bit, Uint16, Uint32, Uint64
  <1>4. C(1) = 0 /\ C(2) = 1 /\ C(3) = 2 /\ C(4) = 3 /\ C(5) = 3 /\ C(6) = 4
    <2>1. C(1) = 0 /\ \A i \in 1..6 : C(i + 1) = C(i) + IF F[i][2] = 0 THEN 1 ELSE 0
      BY PointerCount
    <2> HIDE DEF C
    <2> QED BY <2>1
  <1>5. \A i \in 1..6 : F[i][2] = 0 => G[i] = Ptr(C(i))
    <2> HIDE DEF C
    <2> QED BY <1>4
  <1>6. 0 \in FreePositions(F, 4, G) /\ \A b \in FreePositions(F, 4, G) : 0 <= b
    BY DEF FreePositions, DataBits, Overlap, Data
  <1>7. \A i \in DOMAIN F : IsPlace(F, i, G)
    BY <1>5, <1>6 DEF IsPlace
  <1> HIDE DEF F, G
  <1> SUFFICES Agrees(AttachRequest, F)
    BY <1>1
  <1> QED BY <1>1, <1>2, <1>3, <1>7 DEF Agrees, IsLayout

\* The accessors of Conmon_ReopenLogRequest.
LEMMA ReopenLogRequestAgrees ==
  Agrees(ReopenLogRequest, SchemaRequest["reopenLogContainer"])
  <1> DEFINE F == << << "id", 0 >>, << "metadataOld", 0 >>, << "metadata", 0 >> >>
             G == << Ptr(0), Ptr(1), Ptr(2) >>
             C(i) == Cardinality(PointersBefore(F, i))
  <1>1. SchemaRequest["reopenLogContainer"] = F /\ IsSchema(F)
    BY DEF SchemaRequest, IsSchema, Text, Bool, Num
  <1>2. /\ ReopenLogRequest.slots =
              [f \in {F[i][1] : i \in DOMAIN F} |-> ReopenLogRequest.slots[f]]
        /\ G = [i \in DOMAIN F |-> ReopenLogRequest.slots[F[i][1]]]
    BY DEF ReopenLogRequest, Struct,
           Data, Bit, Uint16, Uint32, Uint64
  <1>3. \A f \in DOMAIN ReopenLogRequest.slots :
          Fits(ReopenLogRequest.slots[f], ReopenLogRequest.bytes,
               ReopenLogRequest.ptrs)
    BY DEF ReopenLogRequest, Struct,
           Fits, Ptr, Bit, Uint16, Uint32, Uint64
  <1>4. C(1) = 0 /\ C(2) = 1 /\ C(3) = 2
    <2>1. C(1) = 0 /\ \A i \in 1..3 : C(i + 1) = C(i) + IF F[i][2] = 0 THEN 1 ELSE 0
      BY PointerCount
    <2> HIDE DEF C
    <2> QED BY <2>1
  <1>5. \A i \in 1..3 : F[i][2] = 0 => G[i] = Ptr(C(i))
    <2> HIDE DEF C
    <2> QED BY <1>4
  <1>6. \A i \in DOMAIN F : IsPlace(F, i, G)
    BY <1>5 DEF IsPlace
  <1> HIDE DEF F, G
  <1> SUFFICES Agrees(ReopenLogRequest, F)
    BY <1>1
  <1> QED BY <1>1, <1>2, <1>3, <1>6 DEF Agrees, IsLayout

\* The accessors of Conmon_SetWindowSizeRequest.
LEMMA SetWindowSizeRequestAgrees ==
  Agrees(SetWindowSizeRequest, SchemaRequest["setWindowSizeContainer"])
  <1> DEFINE F == << << "id", 0 >>, << "width", 16 >>, << "height", 16 >>,
                     << "metadataOld", 0 >>, << "metadata", 0 >> >>
             G == << Ptr(0), Data(16, 0), Data(16, 16), Ptr(1), Ptr(2) >>
             C(i) == Cardinality(PointersBefore(F, i))
  <1>1. SchemaRequest["setWindowSizeContainer"] = F /\ IsSchema(F)
    BY DEF SchemaRequest, IsSchema, Text, Bool, Num
  <1>2. /\ SetWindowSizeRequest.slots =
              [f \in {F[i][1] : i \in DOMAIN F} |-> SetWindowSizeRequest.slots[f]]
        /\ G = [i \in DOMAIN F |-> SetWindowSizeRequest.slots[F[i][1]]]
    BY DEF SetWindowSizeRequest, Struct,
           Data, Bit, Uint16, Uint32, Uint64
  <1>3. \A f \in DOMAIN SetWindowSizeRequest.slots :
          Fits(SetWindowSizeRequest.slots[f], SetWindowSizeRequest.bytes,
               SetWindowSizeRequest.ptrs)
    BY DEF SetWindowSizeRequest, Struct,
           Fits, Ptr, Bit, Uint16, Uint32, Uint64
  <1>4. C(1) = 0 /\ C(2) = 1 /\ C(3) = 1 /\ C(4) = 1 /\ C(5) = 2
    <2>1. C(1) = 0 /\ \A i \in 1..5 : C(i + 1) = C(i) + IF F[i][2] = 0 THEN 1 ELSE 0
      BY PointerCount
    <2> HIDE DEF C
    <2> QED BY <2>1
  <1>5. \A i \in 1..5 : F[i][2] = 0 => G[i] = Ptr(C(i))
    <2> HIDE DEF C
    <2> QED BY <1>4
  <1>6. 0 \in FreePositions(F, 2, G) /\ \A b \in FreePositions(F, 2, G) : 0 <= b
    BY DEF FreePositions, DataBits, Overlap, Data
  <1>7. 16 \in FreePositions(F, 3, G) /\ \A b \in FreePositions(F, 3, G) : 16 <= b
    BY DEF FreePositions, DataBits, Overlap, Data
  <1>8. \A i \in DOMAIN F : IsPlace(F, i, G)
    BY <1>5, <1>6, <1>7 DEF IsPlace
  <1> HIDE DEF F, G
  <1> SUFFICES Agrees(SetWindowSizeRequest, F)
    BY <1>1
  <1> QED BY <1>1, <1>2, <1>3, <1>8 DEF Agrees, IsLayout

\* The accessors of Conmon_CreateNamespacesRequest.
LEMMA CreateNamespacesRequestAgrees ==
  Agrees(CreateNamespacesRequest, SchemaRequest["createNamespaces"])
  <1> DEFINE F == << << "metadataOld", 0 >>, << "namespaces", 0 >>,
                     << "uidMappings", 0 >>, << "gidMappings", 0 >>,
                     << "basePath", 0 >>, << "podId", 0 >>, << "metadata", 0 >> >>
             G == << Ptr(0), Ptr(1), Ptr(2), Ptr(3), Ptr(4), Ptr(5), Ptr(6) >>
             C(i) == Cardinality(PointersBefore(F, i))
  <1>1. SchemaRequest["createNamespaces"] = F /\ IsSchema(F)
    BY DEF SchemaRequest, IsSchema, Text, Bool, Num
  <1>2. /\ CreateNamespacesRequest.slots =
              [f \in {F[i][1] : i \in DOMAIN F} |-> CreateNamespacesRequest.slots[f]]
        /\ G = [i \in DOMAIN F |-> CreateNamespacesRequest.slots[F[i][1]]]
    BY DEF CreateNamespacesRequest, Struct,
           Data, Bit, Uint16, Uint32, Uint64
  <1>3. \A f \in DOMAIN CreateNamespacesRequest.slots :
          Fits(CreateNamespacesRequest.slots[f], CreateNamespacesRequest.bytes,
               CreateNamespacesRequest.ptrs)
    BY DEF CreateNamespacesRequest, Struct,
           Fits, Ptr, Bit, Uint16, Uint32, Uint64
  <1>4. /\ C(1) = 0 /\ C(2) = 1 /\ C(3) = 2 /\ C(4) = 3 /\ C(5) = 4 /\ C(6) = 5
        /\ C(7) = 6
    <2>1. C(1) = 0 /\ \A i \in 1..7 : C(i + 1) = C(i) + IF F[i][2] = 0 THEN 1 ELSE 0
      BY PointerCount
    <2> HIDE DEF C
    <2> QED BY <2>1
  <1>5. \A i \in 1..7 : F[i][2] = 0 => G[i] = Ptr(C(i))
    <2> HIDE DEF C
    <2> QED BY <1>4
  <1>6. \A i \in DOMAIN F : IsPlace(F, i, G)
    BY <1>5 DEF IsPlace
  <1> HIDE DEF F, G
  <1> SUFFICES Agrees(CreateNamespacesRequest, F)
    BY <1>1
  <1> QED BY <1>1, <1>2, <1>3, <1>6 DEF Agrees, IsLayout

\* The accessors of Conmon_StartFdSocketRequest.
LEMMA StartFdSocketRequestAgrees ==
  Agrees(StartFdSocketRequest, SchemaRequest["startFdSocket"])
  <1> DEFINE F == << << "metadata", 0 >> >>
             G == << Ptr(0) >>
             C(i) == Cardinality(PointersBefore(F, i))
  <1>1. SchemaRequest["startFdSocket"] = F /\ IsSchema(F)
    BY DEF SchemaRequest, IsSchema, Text, Bool, Num
  <1>2. /\ StartFdSocketRequest.slots =
              [f \in {F[i][1] : i \in DOMAIN F} |-> StartFdSocketRequest.slots[f]]
        /\ G = [i \in DOMAIN F |-> StartFdSocketRequest.slots[F[i][1]]]
    BY DEF StartFdSocketRequest, Struct,
           Data, Bit, Uint16, Uint32, Uint64
  <1>3. \A f \in DOMAIN StartFdSocketRequest.slots :
          Fits(StartFdSocketRequest.slots[f], StartFdSocketRequest.bytes,
               StartFdSocketRequest.ptrs)
    BY DEF StartFdSocketRequest, Struct,
           Fits, Ptr, Bit, Uint16, Uint32, Uint64
  <1>4. C(1) = 0
    <2>1. C(1) = 0 /\ \A i \in 1..1 : C(i + 1) = C(i) + IF F[i][2] = 0 THEN 1 ELSE 0
      BY PointerCount
    <2> HIDE DEF C
    <2> QED BY <2>1
  <1>5. \A i \in 1..1 : F[i][2] = 0 => G[i] = Ptr(C(i))
    <2> HIDE DEF C
    <2> QED BY <1>4
  <1>6. \A i \in DOMAIN F : IsPlace(F, i, G)
    BY <1>5 DEF IsPlace
  <1> HIDE DEF F, G
  <1> SUFFICES Agrees(StartFdSocketRequest, F)
    BY <1>1
  <1> QED BY <1>1, <1>2, <1>3, <1>6 DEF Agrees, IsLayout

\* The accessors of Conmon_VersionResponse.
LEMMA VersionResponseAgrees ==
  Agrees(VersionResponse, SchemaResponse["version"])
  <1> DEFINE F == << << "processId", 32 >>, << "version", 0 >>, << "tag", 0 >>,
                     << "commit", 0 >>, << "buildDate", 0 >>, << "target", 0 >>,
                     << "rustVersion", 0 >>, << "cargoVersion", 0 >>,
                     << "cargoTree", 0 >>, << "metadata", 0 >> >>
             G == << Data(32, 0), Ptr(0), Ptr(1), Ptr(2), Ptr(3), Ptr(4), Ptr(5),
                     Ptr(6), Ptr(7), Ptr(8) >>
             C(i) == Cardinality(PointersBefore(F, i))
  <1>1. SchemaResponse["version"] = F /\ IsSchema(F)
    BY DEF SchemaResponse, IsSchema, Text, Bool, Num
  <1>2. /\ VersionResponse.slots =
              [f \in {F[i][1] : i \in DOMAIN F} |-> VersionResponse.slots[f]]
        /\ G = [i \in DOMAIN F |-> VersionResponse.slots[F[i][1]]]
    BY DEF VersionResponse, Struct,
           Data, Bit, Uint16, Uint32, Uint64
  <1>3. \A f \in DOMAIN VersionResponse.slots :
          Fits(VersionResponse.slots[f], VersionResponse.bytes,
               VersionResponse.ptrs)
    BY DEF VersionResponse, Struct,
           Fits, Ptr, Bit, Uint16, Uint32, Uint64
  <1>4. /\ C(1) = 0 /\ C(2) = 0 /\ C(3) = 1 /\ C(4) = 2 /\ C(5) = 3 /\ C(6) = 4
        /\ C(7) = 5 /\ C(8) = 6 /\ C(9) = 7 /\ C(10) = 8
    <2>1. C(1) = 0 /\ \A i \in 1..10 : C(i + 1) = C(i) + IF F[i][2] = 0 THEN 1 ELSE 0
      BY PointerCount
    <2> HIDE DEF C
    <2> QED BY <2>1
  <1>5. \A i \in 1..10 : F[i][2] = 0 => G[i] = Ptr(C(i))
    <2> HIDE DEF C
    <2> QED BY <1>4
  <1>6. 0 \in FreePositions(F, 1, G) /\ \A b \in FreePositions(F, 1, G) : 0 <= b
    BY DEF FreePositions, DataBits, Overlap, Data
  <1>7. \A i \in DOMAIN F : IsPlace(F, i, G)
    BY <1>5, <1>6 DEF IsPlace
  <1> HIDE DEF F, G
  <1> SUFFICES Agrees(VersionResponse, F)
    BY <1>1
  <1> QED BY <1>1, <1>2, <1>3, <1>7 DEF Agrees, IsLayout

\* The accessors of Conmon_CreateContainerResponse.
LEMMA CreateContainerResponseAgrees ==
  Agrees(CreateContainerResponse, SchemaResponse["createContainer"])
  <1> DEFINE F == << << "containerPid", 32 >> >>
             G == << Data(32, 0) >>
             C(i) == Cardinality(PointersBefore(F, i))
  <1>1. SchemaResponse["createContainer"] = F /\ IsSchema(F)
    BY DEF SchemaResponse, IsSchema, Text, Bool, Num
  <1>2. /\ CreateContainerResponse.slots =
              [f \in {F[i][1] : i \in DOMAIN F} |-> CreateContainerResponse.slots[f]]
        /\ G = [i \in DOMAIN F |-> CreateContainerResponse.slots[F[i][1]]]
    BY DEF CreateContainerResponse, Struct,
           Data, Bit, Uint16, Uint32, Uint64
  <1>3. \A f \in DOMAIN CreateContainerResponse.slots :
          Fits(CreateContainerResponse.slots[f], CreateContainerResponse.bytes,
               CreateContainerResponse.ptrs)
    BY DEF CreateContainerResponse, Struct,
           Fits, Ptr, Bit, Uint16, Uint32, Uint64
  <1>5. \A i \in 1..1 : F[i][2] # 0
    OBVIOUS
  <1>6. 0 \in FreePositions(F, 1, G) /\ \A b \in FreePositions(F, 1, G) : 0 <= b
    BY DEF FreePositions, DataBits, Overlap, Data
  <1>7. \A i \in DOMAIN F : IsPlace(F, i, G)
    BY <1>5, <1>6 DEF IsPlace
  <1> HIDE DEF F, G
  <1> SUFFICES Agrees(CreateContainerResponse, F)
    BY <1>1
  <1> QED BY <1>1, <1>2, <1>3, <1>7 DEF Agrees, IsLayout

\* The accessors of Conmon_ExecSyncContainerResponse.
LEMMA ExecSyncContainerResponseAgrees ==
  Agrees(ExecSyncContainerResponse, SchemaResponse["execSyncContainer"])
  <1> DEFINE F == << << "exitCode", 32 >>, << "stdout", 0 >>, << "stderr", 0 >>,
                     << "timedOut", 1 >> >>
             G == << Data(32, 0), Ptr(0), Ptr(1), Data(1, 32) >>
             C(i) == Cardinality(PointersBefore(F, i))
  <1>1. SchemaResponse["execSyncContainer"] = F /\ IsSchema(F)
    BY DEF SchemaResponse, IsSchema, Text, Bool, Num
  <1>2. /\ ExecSyncContainerResponse.slots =
              [f \in {F[i][1] : i \in DOMAIN F} |-> ExecSyncContainerResponse.slots[f]]
        /\ G = [i \in DOMAIN F |-> ExecSyncContainerResponse.slots[F[i][1]]]
    BY DEF ExecSyncContainerResponse, Struct,
           Data, Bit, Uint16, Uint32, Uint64
  <1>3. \A f \in DOMAIN ExecSyncContainerResponse.slots :
          Fits(ExecSyncContainerResponse.slots[f], ExecSyncContainerResponse.bytes,
               ExecSyncContainerResponse.ptrs)
    BY DEF ExecSyncContainerResponse, Struct,
           Fits, Ptr, Bit, Uint16, Uint32, Uint64
  <1>4. C(1) = 0 /\ C(2) = 0 /\ C(3) = 1 /\ C(4) = 2
    <2>1. C(1) = 0 /\ \A i \in 1..4 : C(i + 1) = C(i) + IF F[i][2] = 0 THEN 1 ELSE 0
      BY PointerCount
    <2> HIDE DEF C
    <2> QED BY <2>1
  <1>5. \A i \in 1..4 : F[i][2] = 0 => G[i] = Ptr(C(i))
    <2> HIDE DEF C
    <2> QED BY <1>4
  <1>6. 0 \in FreePositions(F, 1, G) /\ \A b \in FreePositions(F, 1, G) : 0 <= b
    BY DEF FreePositions, DataBits, Overlap, Data
  <1>7. 32 \in FreePositions(F, 4, G) /\ \A b \in FreePositions(F, 4, G) : 32 <= b
    BY DEF FreePositions, DataBits, Overlap, Data
  <1>8. \A i \in DOMAIN F : IsPlace(F, i, G)
    BY <1>5, <1>6, <1>7 DEF IsPlace
  <1> HIDE DEF F, G
  <1> SUFFICES Agrees(ExecSyncContainerResponse, F)
    BY <1>1
  <1> QED BY <1>1, <1>2, <1>3, <1>8 DEF Agrees, IsLayout

\* The accessors of Conmon_CreateNamespacesResponse.
LEMMA CreateNamespacesResponseAgrees ==
  Agrees(CreateNamespacesResponse, SchemaResponse["createNamespaces"])
  <1> DEFINE F == << << "namespaces", 0 >> >>
             G == << Ptr(0) >>
             C(i) == Cardinality(PointersBefore(F, i))
  <1>1. SchemaResponse["createNamespaces"] = F /\ IsSchema(F)
    BY DEF SchemaResponse, IsSchema, Text, Bool, Num
  <1>2. /\ CreateNamespacesResponse.slots =
              [f \in {F[i][1] : i \in DOMAIN F} |-> CreateNamespacesResponse.slots[f]]
        /\ G = [i \in DOMAIN F |-> CreateNamespacesResponse.slots[F[i][1]]]
    BY DEF CreateNamespacesResponse, Struct,
           Data, Bit, Uint16, Uint32, Uint64
  <1>3. \A f \in DOMAIN CreateNamespacesResponse.slots :
          Fits(CreateNamespacesResponse.slots[f], CreateNamespacesResponse.bytes,
               CreateNamespacesResponse.ptrs)
    BY DEF CreateNamespacesResponse, Struct,
           Fits, Ptr, Bit, Uint16, Uint32, Uint64
  <1>4. C(1) = 0
    <2>1. C(1) = 0 /\ \A i \in 1..1 : C(i + 1) = C(i) + IF F[i][2] = 0 THEN 1 ELSE 0
      BY PointerCount
    <2> HIDE DEF C
    <2> QED BY <2>1
  <1>5. \A i \in 1..1 : F[i][2] = 0 => G[i] = Ptr(C(i))
    <2> HIDE DEF C
    <2> QED BY <1>4
  <1>6. \A i \in DOMAIN F : IsPlace(F, i, G)
    BY <1>5 DEF IsPlace
  <1> HIDE DEF F, G
  <1> SUFFICES Agrees(CreateNamespacesResponse, F)
    BY <1>1
  <1> QED BY <1>1, <1>2, <1>3, <1>6 DEF Agrees, IsLayout

\* The accessors of Conmon_StartFdSocketResponse.
LEMMA StartFdSocketResponseAgrees ==
  Agrees(StartFdSocketResponse, SchemaResponse["startFdSocket"])
  <1> DEFINE F == << << "path", 0 >> >>
             G == << Ptr(0) >>
             C(i) == Cardinality(PointersBefore(F, i))
  <1>1. SchemaResponse["startFdSocket"] = F /\ IsSchema(F)
    BY DEF SchemaResponse, IsSchema, Text, Bool, Num
  <1>2. /\ StartFdSocketResponse.slots =
              [f \in {F[i][1] : i \in DOMAIN F} |-> StartFdSocketResponse.slots[f]]
        /\ G = [i \in DOMAIN F |-> StartFdSocketResponse.slots[F[i][1]]]
    BY DEF StartFdSocketResponse, Struct,
           Data, Bit, Uint16, Uint32, Uint64
  <1>3. \A f \in DOMAIN StartFdSocketResponse.slots :
          Fits(StartFdSocketResponse.slots[f], StartFdSocketResponse.bytes,
               StartFdSocketResponse.ptrs)
    BY DEF StartFdSocketResponse, Struct,
           Fits, Ptr, Bit, Uint16, Uint32, Uint64
  <1>4. C(1) = 0
    <2>1. C(1) = 0 /\ \A i \in 1..1 : C(i + 1) = C(i) + IF F[i][2] = 0 THEN 1 ELSE 0
      BY PointerCount
    <2> HIDE DEF C
    <2> QED BY <2>1
  <1>5. \A i \in 1..1 : F[i][2] = 0 => G[i] = Ptr(C(i))
    <2> HIDE DEF C
    <2> QED BY <1>4
  <1>6. \A i \in DOMAIN F : IsPlace(F, i, G)
    BY <1>5 DEF IsPlace
  <1> HIDE DEF F, G
  <1> SUFFICES Agrees(StartFdSocketResponse, F)
    BY <1>1
  <1> QED BY <1>1, <1>2, <1>3, <1>6 DEF Agrees, IsLayout

\* The accessors of Conmon_TextTextMapEntry.
LEMMA TextTextMapEntryAgrees ==
  Agrees(TextTextMapEntry, SchemaMapEntry)
  <1> DEFINE F == << << "key", 0 >>, << "value", 0 >> >>
             G == << Ptr(0), Ptr(1) >>
             C(i) == Cardinality(PointersBefore(F, i))
  <1>1. SchemaMapEntry = F /\ IsSchema(F)
    BY DEF SchemaMapEntry, IsSchema, Text, Bool, Num
  <1>2. /\ TextTextMapEntry.slots =
              [f \in {F[i][1] : i \in DOMAIN F} |-> TextTextMapEntry.slots[f]]
        /\ G = [i \in DOMAIN F |-> TextTextMapEntry.slots[F[i][1]]]
    BY DEF TextTextMapEntry, Struct,
           Data, Bit, Uint16, Uint32, Uint64
  <1>3. \A f \in DOMAIN TextTextMapEntry.slots :
          Fits(TextTextMapEntry.slots[f], TextTextMapEntry.bytes,
               TextTextMapEntry.ptrs)
    BY DEF TextTextMapEntry, Struct,
           Fits, Ptr, Bit, Uint16, Uint32, Uint64
  <1>4. C(1) = 0 /\ C(2) = 1
    <2>1. C(1) = 0 /\ \A i \in 1..2 : C(i + 1) = C(i) + IF F[i][2] = 0 THEN 1 ELSE 0
      BY PointerCount
    <2> HIDE DEF C
    <2> QED BY <2>1
  <1>5. \A i \in 1..2 : F[i][2] = 0 => G[i] = Ptr(C(i))
    <2> HIDE DEF C
    <2> QED BY <1>4
  <1>6. \A i \in DOMAIN F : IsPlace(F, i, G)
    BY <1>5 DEF IsPlace
  <1> HIDE DEF F, G
  <1> SUFFICES Agrees(TextTextMapEntry, F)
    BY <1>1
  <1> QED BY <1>1, <1>2, <1>3, <1>6 DEF Agrees, IsLayout

\* The accessors of Conmon_LogDriver.
LEMMA LogDriverAgrees ==
  Agrees(LogDriver, SchemaLogDriver)
  <1> DEFINE F == << << "type", 16 >>, << "path", 0 >>, << "maxSize", 64 >> >>
             G == << Data(16, 0), Ptr(0), Data(64, 64) >>
             C(i) == Cardinality(PointersBefore(F, i))
  <1>1. SchemaLogDriver = F /\ IsSchema(F)
    BY DEF SchemaLogDriver, IsSchema, Text, Bool, Num
  <1>2. /\ LogDriver.slots =
              [f \in {F[i][1] : i \in DOMAIN F} |-> LogDriver.slots[f]]
        /\ G = [i \in DOMAIN F |-> LogDriver.slots[F[i][1]]]
    BY DEF LogDriver, Struct,
           Data, Bit, Uint16, Uint32, Uint64
  <1>3. \A f \in DOMAIN LogDriver.slots :
          Fits(LogDriver.slots[f], LogDriver.bytes,
               LogDriver.ptrs)
    BY DEF LogDriver, Struct,
           Fits, Ptr, Bit, Uint16, Uint32, Uint64
  <1>4. C(1) = 0 /\ C(2) = 0 /\ C(3) = 1
    <2>1. C(1) = 0 /\ \A i \in 1..3 : C(i + 1) = C(i) + IF F[i][2] = 0 THEN 1 ELSE 0
      BY PointerCount
    <2> HIDE DEF C
    <2> QED BY <2>1
  <1>5. \A i \in 1..3 : F[i][2] = 0 => G[i] = Ptr(C(i))
    <2> HIDE DEF C
    <2> QED BY <1>4
  <1>6. 0 \in FreePositions(F, 1, G) /\ \A b \in FreePositions(F, 1, G) : 0 <= b
    BY DEF FreePositions, DataBits, Overlap, Data
  <1>7. 64 \in FreePositions(F, 3, G) /\ \A b \in FreePositions(F, 3, G) : 64 <= b
    BY DEF FreePositions, DataBits, Overlap, Data
  <1>8. \A i \in DOMAIN F : IsPlace(F, i, G)
    BY <1>5, <1>6, <1>7 DEF IsPlace
  <1> HIDE DEF F, G
  <1> SUFFICES Agrees(LogDriver, F)
    BY <1>1
  <1> QED BY <1>1, <1>2, <1>3, <1>8 DEF Agrees, IsLayout

\* The accessors of Conmon_NamespaceResponse.
LEMMA NamespaceResponseAgrees ==
  Agrees(NamespaceResponse, SchemaNamespaceResponse)
  <1> DEFINE F == << << "type", 16 >>, << "path", 0 >> >>
             G == << Data(16, 0), Ptr(0) >>
             C(i) == Cardinality(PointersBefore(F, i))
  <1>1. SchemaNamespaceResponse = F /\ IsSchema(F)
    BY DEF SchemaNamespaceResponse, IsSchema, Text, Bool, Num
  <1>2. /\ NamespaceResponse.slots =
              [f \in {F[i][1] : i \in DOMAIN F} |-> NamespaceResponse.slots[f]]
        /\ G = [i \in DOMAIN F |-> NamespaceResponse.slots[F[i][1]]]
    BY DEF NamespaceResponse, Struct,
           Data, Bit, Uint16, Uint32, Uint64
  <1>3. \A f \in DOMAIN NamespaceResponse.slots :
          Fits(NamespaceResponse.slots[f], NamespaceResponse.bytes,
               NamespaceResponse.ptrs)
    BY DEF NamespaceResponse, Struct,
           Fits, Ptr, Bit, Uint16, Uint32, Uint64
  <1>4. C(1) = 0 /\ C(2) = 0
    <2>1. C(1) = 0 /\ \A i \in 1..2 : C(i + 1) = C(i) + IF F[i][2] = 0 THEN 1 ELSE 0
      BY PointerCount
    <2> HIDE DEF C
    <2> QED BY <2>1
  <1>5. \A i \in 1..2 : F[i][2] = 0 => G[i] = Ptr(C(i))
    <2> HIDE DEF C
    <2> QED BY <1>4
  <1>6. 0 \in FreePositions(F, 1, G) /\ \A b \in FreePositions(F, 1, G) : 0 <= b
    BY DEF FreePositions, DataBits, Overlap, Data
  <1>7. \A i \in DOMAIN F : IsPlace(F, i, G)
    BY <1>5, <1>6 DEF IsPlace
  <1> HIDE DEF F, G
  <1> SUFFICES Agrees(NamespaceResponse, F)
    BY <1>1
  <1> QED BY <1>1, <1>2, <1>3, <1>7 DEF Agrees, IsLayout

\* The structs of all requests.
LEMMA RequestsAgree == \A m \in Method : Agrees(Request[m], SchemaRequest[m])
  BY VersionRequestAgrees, CreateContainerRequestAgrees, ExecSyncContainerRequestAgrees,
     AttachRequestAgrees, ReopenLogRequestAgrees, SetWindowSizeRequestAgrees,
     CreateNamespacesRequestAgrees, StartFdSocketRequestAgrees
  DEF Method, MethodID, Request

\* The methods whose response has fields.
Answering == {"version", "createContainer", "execSyncContainer", "createNamespaces",
              "startFdSocket"}

\* The responses agree with the schema, and those without fields are all the same.
LEMMA ResponsesAgree ==
  /\ \A m \in Answering : m \in Method /\ Agrees(Response[m], SchemaResponse[m])
  /\ \A m \in Method : Response[m] = EmptyResponse <=> m \notin Answering
  <1>1. \A m \in Answering : m \in Method /\ Agrees(Response[m], SchemaResponse[m])
    BY VersionResponseAgrees, CreateContainerResponseAgrees, ExecSyncContainerResponseAgrees,
       CreateNamespacesResponseAgrees, StartFdSocketResponseAgrees
    DEF Answering, Method, MethodID, Response
  <1>2. \A m \in Method \ Answering : Response[m] = EmptyResponse
    BY DEF Answering, Method, MethodID, Response
  <1>3. \A m \in Answering : Response[m].ptrs # 0 \/ Response[m].bytes # 0
    BY DEF Answering, Response, VersionResponse, CreateContainerResponse,
       ExecSyncContainerResponse, CreateNamespacesResponse, StartFdSocketResponse, Struct
  <1>4. EmptyResponse.ptrs = 0 /\ EmptyResponse.bytes = 0
    BY DEF EmptyResponse, Struct
  <1> QED BY <1>1, <1>2, <1>3, <1>4

-----------------------------------------------------------------------------
(* Writing and reading slots. *)

\* No accessor of the struct disturbs another one, and all have room.
Sound(struct) ==
    /\ Separate(struct.slots)
    /\ \A f \in DOMAIN struct.slots : Fits(struct.slots[f], struct.bytes, struct.ptrs)

\* The contents are in slots of the struct.
Within(struct, mem) ==
    DOMAIN mem \subseteq {struct.slots[f] : f \in DOMAIN struct.slots}

\* Accessors that agree with a schema are sound, and those of a larger struct, too.
LEMMA AgreeingSound ==
  ASSUME NEW struct, NEW fields, Agrees(struct, fields)
  PROVE  Sound(struct) /\ Allocate(fields) = struct.slots
  BY LayoutSeparate, LayoutAllocated DEF Agrees, Sound

\* Two slots of a struct are equal or do not overlap.
LEMMA SlotsDiffer ==
  ASSUME NEW struct, Sound(struct)
  PROVE  \A f, g \in DOMAIN struct.slots :
            /\ struct.slots[f] = struct.slots[g] => f = g
            /\ Overlap(struct.slots[f], struct.slots[g]) => f = g
  <1>1. \A f \in DOMAIN struct.slots : Overlap(struct.slots[f], struct.slots[f])
    BY DEF Sound, Separate, IsSlot, Overlap
  <1> QED BY <1>1 DEF Sound, Separate

\* A setter changes what its own getter reads, and nothing else.
LEMMA SetRead ==
  ASSUME NEW struct, Sound(struct), NEW mem, Within(struct, mem),
         NEW f \in DOMAIN struct.slots, NEW v
  PROVE  /\ Within(struct, SetField(struct, mem, f, v))
         /\ Read(SetField(struct, mem, f, v), struct.slots[f]) = v
         /\ \A g \in DOMAIN struct.slots \ {f} :
               Read(SetField(struct, mem, f, v), struct.slots[g]) = Read(mem, struct.slots[g])
  <1> DEFINE slots == struct.slots
             new == [s \in DOMAIN mem \cup {slots[f]} |->
                        IF s = slots[f] THEN v
                        ELSE IF Overlap(s, slots[f]) THEN Garbled ELSE mem[s]]
  <1>1. SetField(struct, mem, f, v) = new
    BY DEF SetField, Write, Sound
  <1>2. DOMAIN new = DOMAIN mem \cup {slots[f]} /\ new[slots[f]] = v
    OBVIOUS
  <1>3. \A s \in DOMAIN mem : s # slots[f] => new[s] = mem[s]
    BY SlotsDiffer DEF Within
  <1> HIDE DEF new
  <1>4. Within(struct, new)
    BY <1>2 DEF Within
  <1>5. Read(new, slots[f]) = v
    BY <1>2 DEF Read
  <1>6. ASSUME NEW g \in DOMAIN slots \ {f}
        PROVE  Read(new, slots[g]) = Read(mem, slots[g])
    <2>1. slots[g] # slots[f] /\ ~Overlap(slots[f], slots[g])
      BY SlotsDiffer
    <2> QED BY <1>2, <1>3, <2>1 DEF Read
  <1> QED BY <1>1, <1>4, <1>5, <1>6

\* A struct made from a record has its values, and the default in the other fields.
LEMMA WriteAllRead ==
  ASSUME NEW struct, Sound(struct), NEW record, DOMAIN record \subseteq DOMAIN struct.slots
  PROVE  \A f \in DOMAIN struct.slots :
            Read(WriteAll(struct, record), struct.slots[f]) =
                IF f \in DOMAIN record THEN record[f] ELSE Zero
  <1> DEFINE slots == struct.slots
             D == DOMAIN record
             fitting == {f \in D : Fits(slots[f], struct.bytes, struct.ptrs)}
             Alone(f) == \A g \in fitting \ {f} : ~Overlap(slots[g], slots[f])
             Of(s) == CHOOSE f \in fitting : slots[f] = s
             mem == [s \in {slots[f] : f \in fitting} |->
                        IF Alone(Of(s)) THEN record[Of(s)] ELSE Garbled]
  <1>1. WriteAll(struct, record) = mem
    BY DEF WriteAll
  <1>2. fitting = D
    BY DEF Sound
  <1>3. \A f \in D : Of(slots[f]) = f
    BY <1>2, SlotsDiffer
  <1>4. \A f \in D : Alone(f)
    BY <1>2, SlotsDiffer
  <1>5. DOMAIN mem = {slots[f] : f \in D} /\ \A f \in D : mem[slots[f]] = record[f]
    BY <1>2, <1>3, <1>4
  <1> HIDE DEF mem
  <1>6. ASSUME NEW f \in DOMAIN slots
        PROVE  Read(mem, slots[f]) = IF f \in D THEN record[f] ELSE Zero
    <2>1. CASE f \in D
      BY <1>5, <2>1 DEF Read
    <2>2. CASE f \notin D
      <3>1. \A s \in DOMAIN mem : s # slots[f] /\ ~Overlap(s, slots[f])
        BY <1>5, <2>2, SlotsDiffer
      <3> QED BY <2>2, <3>1 DEF Read
    <2> QED BY <2>1, <2>2
  <1> QED BY <1>1, <1>6

\* A struct made from a record of all its fields is read back as that record.
LEMMA ReadAllWritten ==
  ASSUME NEW struct, Sound(struct), NEW record, record = [f \in DOMAIN struct.slots |-> record[f]]
  PROVE  ReadAll(WriteAll(struct, record), struct.slots) = record
  <1>1. DOMAIN record = DOMAIN struct.slots
    OBVIOUS
  <1>2. \A f \in DOMAIN struct.slots : Read(WriteAll(struct, record), struct.slots[f]) = record[f]
    BY <1>1, WriteAllRead
  <1> QED BY <1>2 DEF ReadAll

-----------------------------------------------------------------------------
(* What the server reads from the values the client sets. *)

\* A call as its caller or its setters leave it.
IsCall(c) ==
    /\ c = [method |-> c.method, given |-> c.given, items |-> c.items, base |-> c.base]
    /\ c.method \in Method
    /\ c.base \in {"given", "empty", "/var/run"}
    /\ c.method = "createContainer" => c.items \in Seq({"containerRuntimeInterface", "json"})
    /\ c.method = "createNamespaces" => c.items \in Seq({"IPC", "PID", "Net", "User", "UTS"})

IsClient == client.tracing \in Tracing /\ client.cgroup \in {0, 1, PerCommand}

\* What the record of a log driver is made from.
LogDriverRecord(c, i) ==
    [type |-> Number(LogDriver_Type[c.items[i]]), path |-> << "path", i >>,
     maxSize |-> << "maxSize", i >>]

\* What is in a field of the request once its setter has run.
Encoded(cl, c, f) ==
    CASE f = "metadata" -> IF cl.tracing = "on" THEN << MapEntry(f) >> ELSE Zero
      [] f = "metadataOld" ->
            IF cl.tracing = "off" THEN Zero
            ELSE jsonMarshal(IF cl.tracing = "on" THEN {"metadata"} ELSE {})
      [] f = "envVars" -> IF f \in c.given THEN << MapEntry(f) >> ELSE Zero
      [] f = "logDrivers" ->
            [i \in DOMAIN c.items |-> WriteAll(LogDriver, LogDriverRecord(c, i))]
      [] f = "cgroupManager" ->
            Number(IF \/ cl.cgroup = 1
                      \/ cl.cgroup = PerCommand /\ f \in c.given THEN 1 ELSE 0)
      [] f = "namespaces" -> [i \in DOMAIN c.items |-> Number(NamespaceToProto(c.items[i]))]
      [] f \in {"uidMappings", "gidMappings"} ->
            IF "User" \in Range(c.items) THEN << f >> ELSE Zero
      [] f = "basePath" -> IF c.base = "given" THEN << "given" >> ELSE << "/var/run" >>
      [] f = "execSessionId" -> Zero
      [] OTHER -> IF f \in c.given THEN << f >> ELSE Zero

\* The structs inside of lists, on both sides.
LEMMA InnerStructs ==
  /\ Sound(TextTextMapEntry) /\ MapEntrySlots = TextTextMapEntry.slots
  /\ Sound(LogDriver) /\ LogDriverSlots = LogDriver.slots
  /\ Sound(NamespaceResponse) /\ NamespaceResponseSlots = NamespaceResponse.slots
  BY TextTextMapEntryAgrees, LogDriverAgrees, NamespaceResponseAgrees, AgreeingSound
  DEF MapEntrySlots, LogDriverSlots, NamespaceResponseSlots

\* Their fields.
LEMMA InnerFields ==
  /\ DOMAIN TextTextMapEntry.slots = {"key", "value"}
  /\ DOMAIN LogDriver.slots = {"type", "path", "maxSize"}
  /\ DOMAIN NamespaceResponse.slots = {"type", "path"}
  BY DEF TextTextMapEntry, LogDriver, NamespaceResponse, Struct

\* An entry of a map arrives.
LEMMA EntryRead ==
  ASSUME NEW f
  PROVE  ReadAll(MapEntry(f), MapEntrySlots) = [key |-> << f, "key" >>, value |-> << f, "value" >>]
  <1> DEFINE r == [key |-> << f, "key" >>, value |-> << f, "value" >>]
  <1>1. r = [g \in DOMAIN TextTextMapEntry.slots |-> r[g]]
    BY InnerFields
  <1> HIDE DEF r
  <1>2. ReadAll(WriteAll(TextTextMapEntry, r), TextTextMapEntry.slots) = r
    BY <1>1, InnerStructs, ReadAllWritten
  <1> QED BY <1>2, InnerStructs DEF MapEntry, r

\* Numbers of the wire are different.
LEMMA NumbersDiffer ==
  \A i, j \in Nat : Number(i) = Number(j) => i = j
  BY DEF Number, Zero

\* The generated enumerations number the names as the schema does.
LEMMA EnumeratorRead ==
  /\ \A t \in {"containerRuntimeInterface", "json"} :
        Enumerator(SchemaLogDriverType, Number(LogDriver_Type[t])) = t
  /\ Enumerator(SchemaCgroupManager, Number(0)) = "systemd"
  /\ Enumerator(SchemaCgroupManager, Number(1)) = "cgroupfs"
  /\ \A n \in {"IPC", "PID", "Net", "User", "UTS"} :
        Enumerator(SchemaNamespace, Number(NamespaceToProto(n))) = ProtoName[n]
  <1>1. ASSUME NEW names, NEW n \in Nat, DOMAIN names = 1..n, NEW k \in 1..n
        PROVE  Enumerator(names, Number(k - 1)) = names[k]
    <2>1. \A i \in 1..n : Number(k - 1) = Number(i - 1) => i = k
      BY NumbersDiffer
    <2> QED BY <1>1, <2>1 DEF Enumerator
  <1>2. DOMAIN SchemaLogDriverType = 1..2 /\ DOMAIN SchemaCgroupManager = 1..2
        /\ DOMAIN SchemaNamespace = 1..5
    BY DEF SchemaLogDriverType, SchemaCgroupManager, SchemaNamespace
  <1>3. /\ \A k \in 1..2 : Enumerator(SchemaLogDriverType, Number(k - 1)) = SchemaLogDriverType[k]
        /\ \A k \in 1..2 : Enumerator(SchemaCgroupManager, Number(k - 1)) = SchemaCgroupManager[k]
        /\ \A k \in 1..5 : Enumerator(SchemaNamespace, Number(k - 1)) = SchemaNamespace[k]
    BY <1>1, <1>2
  <1>4. \A n \in {0, 1} : \E k \in 1..2 : k - 1 = n /\ k = n + 1
    OBVIOUS
  <1>5. \A n \in {"IPC", "PID", "Net", "User", "UTS"} :
           \E k \in 1..5 : NamespaceToProto(n) = k - 1 /\ SchemaNamespace[k] = ProtoName[n]
    BY DEF NamespaceToProto, Namespace, SchemaNamespace, ProtoName
  <1> QED BY <1>3, <1>4, <1>5 DEF LogDriver_Type, SchemaLogDriverType, SchemaCgroupManager

\* Which requests have the fields that are converted.
LEMMA SpecialFields ==
  \A m \in Method :
    /\ "logDrivers" \in DOMAIN Request[m].slots => m = "createContainer"
    /\ "namespaces" \in DOMAIN Request[m].slots => m = "createNamespaces"
  <1> TAKE m \in Method
  <1> USE DEF Request, Struct
  <1>1. CASE m = "version"
    BY <1>1 DEF VersionRequest
  <1>2. CASE m = "createContainer"
    BY <1>2 DEF CreateContainerRequest, Join, CreateContainerIO, CreateContainerRuntime,
       CreateContainerFds
  <1>3. CASE m = "execSyncContainer"
    BY <1>3 DEF ExecSyncContainerRequest
  <1>4. CASE m = "attachContainer"
    BY <1>4 DEF AttachRequest
  <1>5. CASE m = "reopenLogContainer"
    BY <1>5 DEF ReopenLogRequest
  <1>6. CASE m = "setWindowSizeContainer"
    BY <1>6 DEF SetWindowSizeRequest
  <1>7. CASE m = "createNamespaces"
    BY <1>7 DEF CreateNamespacesRequest
  <1>8. CASE m = "startFdSocket"
    BY <1>8 DEF StartFdSocketRequest
  <1> QED BY <1>1, <1>2, <1>3, <1>4, <1>5, <1>6, <1>7, <1>8 DEF Method, MethodID

\* A handler that reads what the setters have written gets what the caller meant.
LEMMA HandlerUnderstands ==
  ASSUME IsClient, NEW c, IsCall(c), NEW f \in DOMAIN Request[c.method].slots,
         f \notin Forgotten
  PROVE  HandlerReads(f, Encoded(client, c, f)) = Meaning(c, f)
  <1>1. CASE f = "metadata"
    <2>1. HandlerReads(f, Encoded(client, c, f)) = Structs(Encoded(client, c, f), MapEntrySlots)
      BY <1>1 DEF HandlerReads
    <2>2. CASE client.tracing = "on"
      <3>1. Encoded(client, c, f) = << MapEntry(f) >>
        BY <1>1, <2>2 DEF Encoded
      <3>2. Structs(<< MapEntry(f) >>, MapEntrySlots) = << ReadAll(MapEntry(f), MapEntrySlots) >>
        BY DEF Structs
      <3>3. Meaning(c, f) = << [key |-> << f, "key" >>, value |-> << f, "value" >>] >>
        BY <1>1, <2>2 DEF Meaning
      <3> QED BY <2>1, <3>1, <3>2, <3>3, EntryRead
    <2>3. CASE client.tracing # "on"
      BY <1>1, <2>1, <2>3 DEF Encoded, Meaning, Structs, Zero
    <2> QED BY <2>2, <2>3
  <1>2. CASE f = "envVars"
    <2>1. HandlerReads(f, Encoded(client, c, f)) = Structs(Encoded(client, c, f), MapEntrySlots)
      BY <1>2 DEF HandlerReads
    <2>2. CASE f \in c.given
      <3>1. Encoded(client, c, f) = << MapEntry(f) >>
        BY <1>2, <2>2 DEF Encoded
      <3>2. Structs(<< MapEntry(f) >>, MapEntrySlots) = << ReadAll(MapEntry(f), MapEntrySlots) >>
        BY DEF Structs
      <3>3. Meaning(c, f) = << [key |-> << f, "key" >>, value |-> << f, "value" >>] >>
        BY <1>2, <2>2 DEF Meaning
      <3> QED BY <2>1, <3>1, <3>2, <3>3, EntryRead
    <2>3. CASE f \notin c.given
      BY <1>2, <2>1, <2>3 DEF Encoded, Meaning, Structs, Zero
    <2> QED BY <2>2, <2>3
  <1>3. CASE f = "logDrivers"
    <2> DEFINE v == [i \in DOMAIN c.items |-> WriteAll(LogDriver, LogDriverRecord(c, i))]
               Back(i) == [ReadAll(v[i], LogDriverSlots) EXCEPT
                              !.type = Enumerator(SchemaLogDriverType, @)]
    <2>1. c.items \in Seq({"containerRuntimeInterface", "json"})
      BY <1>3, SpecialFields DEF IsCall
    <2>2. ASSUME NEW i \in DOMAIN c.items
          PROVE  Back(i) = [type |-> c.items[i], path |-> << "path", i >>,
                            maxSize |-> << "maxSize", i >>]
      <3> DEFINE r == LogDriverRecord(c, i)
      <3>1. r = [g \in DOMAIN LogDriver.slots |-> r[g]]
        BY InnerFields DEF LogDriverRecord
      <3> HIDE DEF r
      <3>2. ReadAll(WriteAll(LogDriver, r), LogDriver.slots) = r
        BY <3>1, InnerStructs, ReadAllWritten
      <3>3. ReadAll(v[i], LogDriverSlots) = r
        BY <3>2, InnerStructs DEF r
      <3>4. c.items[i] \in {"containerRuntimeInterface", "json"}
        BY <2>1
      <3>5. Enumerator(SchemaLogDriverType, Number(LogDriver_Type[c.items[i]])) = c.items[i]
        BY <3>4, EnumeratorRead
      <3> QED BY <3>3, <3>5 DEF r, LogDriverRecord
    <2>3. Encoded(client, c, f) = v
      BY <1>3 DEF Encoded
    <2>4. HandlerReads(f, v) = [i \in DOMAIN c.items |-> Back(i)]
      BY <1>3 DEF HandlerReads
    <2>5. Meaning(c, f) = [i \in DOMAIN c.items |->
                              [type |-> c.items[i], path |-> << "path", i >>,
                               maxSize |-> << "maxSize", i >>]]
      BY <1>3 DEF Meaning
    <2> HIDE DEF v, Back
    <2> QED BY <2>2, <2>3, <2>4, <2>5
  <1>4. CASE f = "cgroupManager"
    <2>1. HandlerReads(f, Encoded(client, c, f)) =
            Enumerator(SchemaCgroupManager, Encoded(client, c, f))
      BY <1>4 DEF HandlerReads
    <2>2. Encoded(client, c, f) =
            Number(IF \/ client.cgroup = 1
                      \/ client.cgroup = PerCommand /\ f \in c.given THEN 1 ELSE 0)
      BY <1>4 DEF Encoded
    <2>3. Meaning(c, f) = IF client.cgroup = 1 \/ (client.cgroup = PerCommand /\ f \in c.given)
                          THEN "cgroupfs" ELSE "systemd"
      BY <1>4 DEF Meaning, CgroupManager
    <2> QED BY <2>1, <2>2, <2>3, EnumeratorRead
  <1>5. CASE f = "namespaces"
    <2> DEFINE N == {"IPC", "PID", "Net", "User", "UTS"}
    <2>1. c.items \in Seq(N)
      BY <1>5, SpecialFields DEF IsCall
    <2>2. HandlerReads(f, Encoded(client, c, f)) =
            [i \in DOMAIN c.items |-> Enumerator(SchemaNamespace, Number(NamespaceToProto(c.items[i])))]
      BY <1>5 DEF HandlerReads, Encoded
    <2>3. Meaning(c, f) = [i \in DOMAIN c.items |-> ProtoName[c.items[i]]]
      BY <1>5 DEF Meaning
    <2>4. \A i \in DOMAIN c.items : c.items[i] \in N
      BY <2>1
    <2>5. \A i \in DOMAIN c.items :
            Enumerator(SchemaNamespace, Number(NamespaceToProto(c.items[i]))) = ProtoName[c.items[i]]
      BY <2>4, EnumeratorRead
    <2> QED BY <2>2, <2>3, <2>5
  <1>6. CASE f \notin {"metadata", "envVars", "logDrivers", "cgroupManager", "namespaces"}
    <2>1. HandlerReads(f, Encoded(client, c, f)) = Encoded(client, c, f)
      BY <1>6 DEF HandlerReads
    <2>2. Encoded(client, c, f) = Meaning(c, f)
      BY <1>6 DEF Encoded, Meaning, Zero, spanMap, Forgotten
    <2> QED BY <2>1, <2>2
  <1> QED BY <1>1, <1>2, <1>3, <1>4, <1>5, <1>6

-----------------------------------------------------------------------------
(* What the setters write. *)

\* A sequence, element by element.
IsList(s, t, n) ==
    Len(s) = n /\ DOMAIN s = 1..n /\ \A i \in 1..n : s[i] = t[i]

\* The setters of a method, one after the other.
LEMMA FillOrders ==
  /\ IsList(FillOrder["version"],
            << "metadata", "metadataOld", "verbose" >>, 3)
  /\ IsList(FillOrder["createContainer"],
            << "metadata", "metadataOld", "id", "bundlePath", "terminal", "stdin",
               "exitPaths", "oomExitPaths", "logDrivers", "cleanupCmd", "globalArgs",
               "commandArgs", "envVars", "cgroupManager", "additionalFds", "leakFds" >>, 16)
  /\ IsList(FillOrder["execSyncContainer"],
            << "metadata", "metadataOld", "id", "timeoutSec", "command", "terminal",
               "envVars", "cgroupManager" >>, 8)
  /\ IsList(FillOrder["attachContainer"],
            << "metadata", "metadataOld", "id", "socketPath", "stopAfterStdinEof" >>, 5)
  /\ IsList(FillOrder["reopenLogContainer"],
            << "metadata", "metadataOld", "id" >>, 3)
  /\ IsList(FillOrder["setWindowSizeContainer"],
            << "metadata", "metadataOld", "id", "width", "height" >>, 5)
  /\ IsList(FillOrder["createNamespaces"],
            << "metadata", "metadataOld", "namespaces", "basePath", "podId" >>, 5)
  /\ IsList(FillOrder["startFdSocket"], << "metadata" >>, 1)
  <1> USE DEF IsList, FillOrder, Metadata
  <1>1. IsList(FillOrder["version"],
              << "metadata", "metadataOld", "verbose" >>, 3)
    BY DEF VersionFill
  <1>2. IsList(FillOrder["createContainer"],
              << "metadata", "metadataOld", "id", "bundlePath", "terminal", "stdin",
                 "exitPaths", "oomExitPaths", "logDrivers", "cleanupCmd", "globalArgs",
                 "commandArgs", "envVars", "cgroupManager", "additionalFds", "leakFds" >>, 16)
    BY DEF CreateContainerFill
  <1>3. IsList(FillOrder["execSyncContainer"],
              << "metadata", "metadataOld", "id", "timeoutSec", "command", "terminal",
                 "envVars", "cgroupManager" >>, 8)
    BY DEF ExecSyncContainerFill
  <1>4. IsList(FillOrder["attachContainer"],
              << "metadata", "metadataOld", "id", "socketPath", "stopAfterStdinEof" >>, 5)
    BY DEF AttachContainerFill
  <1>5. IsList(FillOrder["reopenLogContainer"],
              << "metadata", "metadataOld", "id" >>, 3)
    BY DEF ReopenLogContainerFill
  <1>6. IsList(FillOrder["setWindowSizeContainer"],
              << "metadata", "metadataOld", "id", "width", "height" >>, 5)
    BY DEF SetWindowSizeContainerFill
  <1>7. IsList(FillOrder["createNamespaces"],
              << "metadata", "metadataOld", "namespaces", "basePath", "podId" >>, 5)
    BY DEF CreateNamespacesFill
  <1>8. IsList(FillOrder["startFdSocket"], << "metadata" >>, 1)
    BY DEF RemoteFDsFill
  <1> QED BY <1>1, <1>2, <1>3, <1>4, <1>5, <1>6, <1>7, <1>8

\* Every setter is for a field of the request, and every field has one, but for the
\* exec session, which the client does not send, and the mappings, which go with
\* the namespaces.
LEMMA FillCovers ==
  ASSUME NEW m \in Method
  PROVE  /\ Len(FillOrder[m]) \in Nat /\ DOMAIN FillOrder[m] = 1..Len(FillOrder[m])
         /\ \A i \in DOMAIN FillOrder[m] :
               /\ FillOrder[m][i] \in DOMAIN Request[m].slots
               /\ FillOrder[m][i] \notin {"uidMappings", "gidMappings", "execSessionId"}
         /\ \A g \in DOMAIN Request[m].slots :
               \/ \E i \in DOMAIN FillOrder[m] : FillOrder[m][i] = g
               \/ g = "execSessionId"
               \/ g \in {"uidMappings", "gidMappings"} /\ m = "createNamespaces"
         /\ m = "createNamespaces" =>
               /\ \E i \in DOMAIN FillOrder[m] : FillOrder[m][i] = "namespaces"
               /\ {"uidMappings", "gidMappings"} \subseteq DOMAIN Request[m].slots
  <1> USE DEF IsList, Request, Struct
  <1>1. CASE m = "version"
    BY <1>1, FillOrders DEF VersionRequest
  <1>2. CASE m = "createContainer"
    BY <1>2, FillOrders, SMTT(30) DEF CreateContainerRequest, Join, CreateContainerIO,
       CreateContainerRuntime, CreateContainerFds
  <1>3. CASE m = "execSyncContainer"
    BY <1>3, FillOrders DEF ExecSyncContainerRequest
  <1>4. CASE m = "attachContainer"
    BY <1>4, FillOrders DEF AttachRequest
  <1>5. CASE m = "reopenLogContainer"
    BY <1>5, FillOrders DEF ReopenLogRequest
  <1>6. CASE m = "setWindowSizeContainer"
    BY <1>6, FillOrders DEF SetWindowSizeRequest
  <1>7. CASE m = "createNamespaces"
    BY <1>7, FillOrders DEF CreateNamespacesRequest
  <1>8. CASE m = "startFdSocket"
    BY <1>8, FillOrders DEF StartFdSocketRequest
  <1> QED BY <1>1, <1>2, <1>3, <1>4, <1>5, <1>6, <1>7, <1>8 DEF Method, MethodID

\* A setter writes the encoded value, or leaves an empty one out.
LEMMA SetterSets ==
  ASSUME IsClient, IsCall(call), NEW f \in DOMAIN Request[call.method].slots,
         f \notin {"namespaces", "uidMappings", "gidMappings", "execSessionId"}
  PROVE  LET struct == Request[call.method]
         IN  \/ Setter(struct, f) = SetField(struct, req, f, Encoded(client, call, f))
             \/ Setter(struct, f) = req /\ Encoded(client, call, f) = Zero
  <1> DEFINE struct == Request[call.method]
  <1>0. Range(Metadata) = {"metadata", "metadataOld"}
    BY DEF Range, Metadata
  <1>1. CASE f = "metadata"
    <2>1. Setter(struct, f) = setMetadata(struct, f)
      BY <1>0, <1>1 DEF Setter, TextLists, FDLists
    <2>2. Encoded(client, call, f) = IF client.tracing = "on" THEN << MapEntry(f) >> ELSE Zero
      BY <1>1 DEF Encoded
    <2>3. CASE client.tracing = "off"
      <3>1. setMetadata(struct, f) = req
        BY <1>1, <2>3 DEF setMetadata
      <3> QED BY <2>1, <2>2, <2>3, <3>1
    <2>4. CASE client.tracing # "off"
      <3>1. setMetadata(struct, f) = stringStringMapToMapEntryList(struct, f, spanMap)
        BY <1>1, <2>4 DEF setMetadata
      <3> QED BY <2>1, <2>2, <2>4, <3>1 DEF stringStringMapToMapEntryList, spanMap
    <2> QED BY <2>3, <2>4
  <1>2. CASE f = "metadataOld"
    <2>1. Setter(struct, f) = setMetadata(struct, f)
      BY <1>0, <1>2 DEF Setter, TextLists, FDLists
    <2>2. Encoded(client, call, f) = IF client.tracing = "off" THEN Zero ELSE jsonMarshal(spanMap)
      BY <1>2 DEF Encoded, spanMap
    <2>3. setMetadata(struct, f) =
            IF client.tracing = "off" THEN req ELSE SetField(struct, req, f, jsonMarshal(spanMap))
      BY <1>2 DEF setMetadata
    <2> QED BY <2>1, <2>2, <2>3
  <1>3. CASE f \in TextLists \cup FDLists
    <2>1. Setter(struct, f) = IF f \in call.given THEN SetField(struct, req, f, << f >>) ELSE req
      BY <1>0, <1>3 DEF Setter, stringSliceToTextList, remoteFDSliceToUInt64List, TextLists,
         FDLists
    <2>2. Encoded(client, call, f) = IF f \in call.given THEN << f >> ELSE Zero
      BY <1>3 DEF Encoded, TextLists, FDLists
    <2> QED BY <2>1, <2>2
  <1>4. CASE f = "envVars"
    <2>1. Setter(struct, f) = stringStringMapToMapEntryList(struct, f, call.given \cap {f})
      BY <1>0, <1>4 DEF Setter, TextLists, FDLists
    <2> QED BY <1>4, <2>1 DEF stringStringMapToMapEntryList, Encoded
  <1>5. CASE f = "cgroupManager"
    <2>1. Setter(struct, f) = setCgroupManager(struct)
      BY <1>0, <1>5 DEF Setter, TextLists, FDLists
    <2>2. (IF client.cgroup = PerCommand
           THEN CgroupManager[IF "cgroupManager" \in call.given THEN "cgroupfs" ELSE "systemd"]
           ELSE client.cgroup)
          = IF \/ client.cgroup = 1
               \/ client.cgroup = PerCommand /\ f \in call.given THEN 1 ELSE 0
      BY <1>5 DEF IsClient, PerCommand, CgroupManager
    <2> QED BY <1>5, <2>1, <2>2 DEF setCgroupManager, Encoded
  <1>6. CASE f = "logDrivers"
    <2>1. Setter(struct, f) = initLogDrivers
      BY <1>0, <1>6 DEF Setter, TextLists, FDLists
    <2>2. struct = CreateContainerRequest
      BY <1>6, SpecialFields DEF IsCall, Request
    <2>3. Encoded(client, call, f) =
            [i \in DOMAIN call.items |-> WriteAll(LogDriver, LogDriverRecord(call, i))]
      BY <1>6 DEF Encoded
    <2> QED BY <1>6, <2>1, <2>2, <2>3 DEF initLogDrivers, LogDriverRecord
  <1>7. CASE f = "basePath"
    <2>1. Setter(struct, f) = SetField(struct, req, f, << defaultBasePath >>)
      BY <1>0, <1>7 DEF Setter, TextLists, FDLists
    <2>2. Encoded(client, call, f) = << defaultBasePath >>
      BY <1>7 DEF Encoded, defaultBasePath, IsCall
    <2> QED BY <2>1, <2>2
  <1>8. CASE f \notin {"metadata", "metadataOld", "envVars", "cgroupManager", "logDrivers",
                       "basePath"} \cup TextLists \cup FDLists
    <2>1. Setter(struct, f) = SetField(struct, req, f, Given(f))
      BY <1>0, <1>8 DEF Setter
    <2>2. Encoded(client, call, f) = Given(f)
      BY <1>8 DEF Encoded, Given
    <2> QED BY <2>1, <2>2
  <1> QED BY <1>1, <1>2, <1>3, <1>4, <1>5, <1>6, <1>7, <1>8

\* The fields that have been set when the setters before number k have run.
Filled(c, k) ==
    LET before == {FillOrder[c.method][i] : i \in 1..(k - 1)}
    IN  before \cup IF "namespaces" \in before THEN {"uidMappings", "gidMappings"} ELSE {}

\* Those fields have their values, the others are empty.
Holds(cl, c, mem, k) ==
    /\ Within(Request[c.method], mem)
    /\ \A g \in DOMAIN Request[c.method].slots :
          Read(mem, Request[c.method].slots[g]) =
              IF g \in Filled(c, k) THEN Encoded(cl, c, g) ELSE Zero

\* A new request is empty.
LEMMA HoldsNew ==
  ASSUME NEW cl, NEW c
  PROVE  Holds(cl, c, << >>, 1)
  <1>1. DOMAIN << >> = {}
    OBVIOUS
  <1>2. \A slot : Read(<< >>, slot) = Zero
    BY <1>1 DEF Read
  <1>3. Filled(c, 1) = {}
    BY DEF Filled
  <1> QED BY <1>1, <1>2, <1>3 DEF Holds, Within

\* The requests are sound.
LEMMA RequestSound ==
  \A m \in Method : Sound(Request[m]) /\ RequestSlots[m] = Request[m].slots
  <1> TAKE m \in Method
  <1>1. Agrees(Request[m], SchemaRequest[m])
    BY RequestsAgree
  <1>2. Sound(Request[m]) /\ Allocate(SchemaRequest[m]) = Request[m].slots
    BY <1>1, AgreeingSound
  <1> QED BY <1>2 DEF RequestSlots

\* One more setter, one more field; the mappings come with the namespaces.
LEMMA FilledNext ==
  ASSUME NEW c, NEW k \in Nat \ {0}
  PROVE  LET f == FillOrder[c.method][k]
         IN  Filled(c, k + 1) =
               Filled(c, k) \cup {f}
                 \cup IF f = "namespaces" THEN {"uidMappings", "gidMappings"} ELSE {}
  <1> DEFINE F(i) == FillOrder[c.method][i]
             f == F(k)
             before == {F(i) : i \in 1..(k - 1)}
             after == {F(i) : i \in 1..k}
  <1>1. 1..k = 1..(k - 1) \cup {k} /\ (k + 1) - 1 = k
    OBVIOUS
  <1>2. after = before \cup {f}
    BY <1>1
  <1>3. /\ Filled(c, k) =
             before \cup IF "namespaces" \in before THEN {"uidMappings", "gidMappings"} ELSE {}
        /\ Filled(c, k + 1) =
             after \cup IF "namespaces" \in after THEN {"uidMappings", "gidMappings"} ELSE {}
    BY <1>1 DEF Filled
  <1> HIDE DEF before, after, F
  <1> QED BY <1>2, <1>3 DEF F

\* A setter that writes a field's value, or leaves an empty field alone, is one step
\* further in the request.
LEMMA SetOne ==
  ASSUME NEW cl, NEW c, c.method \in Method, NEW mem, NEW next, NEW k \in Nat \ {0},
         Holds(cl, c, mem, k), FillOrder[c.method][k] # "namespaces",
         FillOrder[c.method][k] \in DOMAIN Request[c.method].slots,
         LET f == FillOrder[c.method][k]
         IN  \/ next = SetField(Request[c.method], mem, f, Encoded(cl, c, f))
             \/ next = mem /\ Encoded(cl, c, f) = Zero
  PROVE  Holds(cl, c, next, k + 1)
  <1> DEFINE f == FillOrder[c.method][k]
             struct == Request[c.method]
  <1>1. Filled(c, k + 1) = Filled(c, k) \cup {f}
    BY FilledNext
  <1>2. Sound(struct)
    BY RequestSound
  <1>3. Within(struct, mem)
    BY DEF Holds
  <1>4. Within(struct, next)
    BY <1>2, <1>3, SetRead
  <1>5. CASE next = SetField(struct, mem, f, Encoded(cl, c, f))
    <2>1. /\ Read(next, struct.slots[f]) = Encoded(cl, c, f)
          /\ \A g \in DOMAIN struct.slots \ {f} :
                Read(next, struct.slots[g]) = Read(mem, struct.slots[g])
      BY <1>2, <1>3, <1>5, SetRead
    <2> QED BY <1>1, <1>4, <2>1 DEF Holds
  <1>6. CASE next = mem /\ Encoded(cl, c, f) = Zero
    BY <1>1, <1>4, <1>6 DEF Holds
  <1> QED BY <1>5, <1>6

\* The setter of the namespaces fills in the mappings, too.
LEMMA SetNamespaces ==
  ASSUME IsClient, IsCall(call), NEW k \in Nat \ {0}, Holds(client, call, req, k),
         call.method = "createNamespaces", FillOrder[call.method][k] = "namespaces"
  PROVE  Holds(client, call, Setter(Request[call.method], "namespaces"), k + 1)
  <1> DEFINE struct == CreateNamespacesRequest
             list == [i \in DOMAIN call.items |-> Number(NamespaceToProto(call.items[i]))]
             m1 == SetField(struct, req, "namespaces", list)
             m2 == SetField(struct, m1, "uidMappings", << "uidMappings" >>)
             m3 == SetField(struct, m2, "gidMappings", << "gidMappings" >>)
             N == {"namespaces", "uidMappings", "gidMappings"}
  <1>1. Setter(Request[call.method], "namespaces") = setNamespaces
    <2>1. Range(Metadata) = {"metadata", "metadataOld"}
      BY DEF Range, Metadata
    <2> QED BY <2>1 DEF Setter, TextLists, FDLists
  <1>2. setNamespaces = IF WantsUser THEN m3 ELSE m1
    BY DEF setNamespaces
  <1>3. Request[call.method] = struct /\ Sound(struct) /\ N \subseteq DOMAIN struct.slots
    BY RequestSound DEF Request, Method, MethodID, CreateNamespacesRequest, Struct
  <1>4. Within(struct, req)
    BY <1>3 DEF Holds
  <1>5. /\ Within(struct, m1)
        /\ Read(m1, struct.slots["namespaces"]) = list
        /\ \A g \in DOMAIN struct.slots \ {"namespaces"} :
              Read(m1, struct.slots[g]) = Read(req, struct.slots[g])
    <2> HIDE DEF list
    <2> QED BY <1>3, <1>4, SetRead
  <1> HIDE DEF m1
  <1>6. /\ Within(struct, m2)
        /\ Read(m2, struct.slots["uidMappings"]) = << "uidMappings" >>
        /\ \A g \in DOMAIN struct.slots \ {"uidMappings"} :
              Read(m2, struct.slots[g]) = Read(m1, struct.slots[g])
    BY <1>3, <1>5, SetRead
  <1> HIDE DEF m2
  <1>7. /\ Within(struct, m3)
        /\ Read(m3, struct.slots["gidMappings"]) = << "gidMappings" >>
        /\ \A g \in DOMAIN struct.slots \ {"gidMappings"} :
              Read(m3, struct.slots[g]) = Read(m2, struct.slots[g])
    BY <1>3, <1>6, SetRead
  <1> HIDE DEF m3
  <1>8. /\ Encoded(client, call, "namespaces") = list
        /\ Encoded(client, call, "uidMappings") = IF WantsUser THEN << "uidMappings" >> ELSE Zero
        /\ Encoded(client, call, "gidMappings") = IF WantsUser THEN << "gidMappings" >> ELSE Zero
    BY DEF Encoded, WantsUser
  <1> HIDE DEF list, struct
  <1>9. Filled(call, k + 1) = Filled(call, k) \cup N
    BY FilledNext
  <1>10. \A g \in DOMAIN struct.slots :
           Read(req, struct.slots[g]) = IF g \in Filled(call, k) THEN Encoded(client, call, g) ELSE Zero
    BY <1>3 DEF Holds
  <1>11. CASE WantsUser
    <2>1. \A g \in DOMAIN struct.slots :
            Read(m3, struct.slots[g]) =
               IF g \in Filled(call, k + 1) THEN Encoded(client, call, g) ELSE Zero
      BY <1>3, <1>5, <1>6, <1>7, <1>8, <1>9, <1>10, <1>11
    <2> QED BY <1>1, <1>2, <1>3, <1>7, <1>11, <2>1 DEF Holds
  <1>12. CASE ~WantsUser
    <2>1. \A g \in DOMAIN struct.slots :
            Read(m1, struct.slots[g]) =
               IF g \in Filled(call, k + 1) THEN Encoded(client, call, g) ELSE Zero
      BY <1>3, <1>5, <1>8, <1>9, <1>10, <1>12
    <2> QED BY <1>1, <1>2, <1>3, <1>5, <1>12, <2>1 DEF Holds
  <1> QED BY <1>11, <1>12

\* Every setter is one step further.
LEMMA FillStep ==
  ASSUME IsClient, IsCall(call), NEW k \in DOMAIN FillOrder[call.method],
         Holds(client, call, req, k)
  PROVE  Holds(client, call, Setter(Request[call.method], FillOrder[call.method][k]), k + 1)
  <1> DEFINE f == FillOrder[call.method][k]
  <1>1. /\ k \in Nat \ {0} /\ call.method \in Method
        /\ f \in DOMAIN Request[call.method].slots
        /\ f \notin {"uidMappings", "gidMappings", "execSessionId"}
    BY FillCovers DEF IsCall
  <1>2. CASE f = "namespaces"
    BY <1>1, <1>2, SetNamespaces, SpecialFields
  <1>3. CASE f # "namespaces"
    <2>1. \/ Setter(Request[call.method], f) =
               SetField(Request[call.method], req, f, Encoded(client, call, f))
          \/ Setter(Request[call.method], f) = req /\ Encoded(client, call, f) = Zero
      BY <1>1, <1>3, SetterSets
    <2> QED BY <1>1, <1>3, <2>1, SetOne
  <1> QED BY <1>2, <1>3

\* The whole request has been filled in.
Complete(cl, c, mem) ==
    \A g \in DOMAIN Request[c.method].slots :
        Read(mem, Request[c.method].slots[g]) = Encoded(cl, c, g)

\* It has after the last setter.
LEMMA FillEnds ==
  ASSUME NEW cl, NEW c, IsCall(c), NEW mem, Holds(cl, c, mem, Len(FillOrder[c.method]) + 1)
  PROVE  Complete(cl, c, mem)
  <1> DEFINE n == Len(FillOrder[c.method])
  <1>1. c.method \in Method
    BY DEF IsCall
  <1>2. n \in Nat /\ (n + 1) - 1 = n
    BY <1>1, FillCovers
  <1>3. \A i \in DOMAIN FillOrder[c.method] : FillOrder[c.method][i] \in Filled(c, n + 1)
    BY <1>1, <1>2, FillCovers DEF Filled
  <1>4. c.method = "createNamespaces" => {"uidMappings", "gidMappings"} \subseteq Filled(c, n + 1)
    <2> HAVE c.method = "createNamespaces"
    <2>1. PICK i \in 1..n : FillOrder[c.method][i] = "namespaces"
      BY <1>1, FillCovers
    <2> QED BY <1>2, <2>1 DEF Filled
  <1>5. Encoded(cl, c, "execSessionId") = Zero
    BY DEF Encoded
  <1>6. ASSUME NEW g \in DOMAIN Request[c.method].slots
        PROVE  g \in Filled(c, n + 1) \/ g = "execSessionId"
    BY <1>1, <1>3, <1>4, FillCovers
  <1> QED BY <1>5, <1>6 DEF Complete, Holds

\* The default of the base path means the same.
LEMMA BaseDefaults ==
  ASSUME IsCall(call), NEW cl
  PROVE  LET c == [call EXCEPT !.base = defaultBasePath]
         IN  /\ IsCall(c) /\ c.method = call.method
             /\ \A g : Encoded(cl, c, g) = Encoded(cl, call, g)
             /\ \A mem, k : Holds(cl, call, mem, k) => Holds(cl, c, mem, k)
  <1> DEFINE c == [call EXCEPT !.base = defaultBasePath]
  <1>1. c = [method |-> call.method, given |-> call.given, items |-> call.items,
             base |-> defaultBasePath]
    BY DEF IsCall
  <1>2. /\ c.method = call.method /\ c.given = call.given /\ c.items = call.items
        /\ c.base = defaultBasePath
    BY <1>1
  <1>3. defaultBasePath \in {"given", "/var/run"}
        /\ (defaultBasePath = "given" <=> call.base = "given")
    BY DEF defaultBasePath, IsCall
  <1> HIDE DEF c
  <1>4. IsCall(c)
    BY <1>1, <1>2, <1>3 DEF IsCall
  <1>5. ASSUME NEW g PROVE Encoded(cl, c, g) = Encoded(cl, call, g)
    <2>1. \A i : LogDriverRecord(c, i) = LogDriverRecord(call, i)
      BY <1>2 DEF LogDriverRecord
    <2> QED BY <1>2, <1>3, <2>1 DEF Encoded
  <1>6. ASSUME NEW mem, NEW k, Holds(cl, call, mem, k) PROVE Holds(cl, c, mem, k)
    BY <1>2, <1>5, <1>6 DEF Holds, Filled
  <1> QED BY <1>2, <1>4, <1>5, <1>6 DEF c

\* What is sent depends on the settings of the client, not on the version it knows.
LEMMA SameSettings ==
  ASSUME NEW cl, NEW d, cl.tracing = d.tracing, cl.cgroup = d.cgroup
  PROVE  /\ \A c, g : Encoded(cl, c, g) = Encoded(d, c, g)
         /\ \A c, mem : Complete(cl, c, mem) => Complete(d, c, mem)
  <1>1. \A c, g : Encoded(cl, c, g) = Encoded(d, c, g)
    BY DEF Encoded
  <1> QED BY <1>1 DEF Complete

-----------------------------------------------------------------------------
(* Messages. *)

\* A message of the client holds the whole request of its call.
IsMessage(cl, w) ==
    /\ IsCall(w.of)
    /\ w.method = MethodID[w.of.method]
    /\ Complete(cl, w.of, Read(w.params, Ptr(0))[1])

\* What a handler gets from a complete request.
IsSeen(cl, s) ==
    /\ IsCall(s.of)
    /\ s.method = s.of.method
    /\ \A f \in DOMAIN s.fields :
          /\ f \in DOMAIN Request[s.method].slots
          /\ s.fields[f] = HandlerReads(f, Encoded(cl, s.of, f))

\* The parameters and the results have one pointer each.
LEMMA OuterStructs ==
  /\ \A mem : Read(WriteAll(Params, [request |-> << mem >>]), Ptr(0)) = << mem >>
  /\ \A mem : Read(WriteAll(Results, [response |-> << mem >>]), Results.slots["response"])
                = << mem >>
  <1>1. /\ DOMAIN Params.slots = {"request"} /\ Params.slots["request"] = Ptr(0)
        /\ DOMAIN Results.slots = {"response"} /\ Results.slots["response"] = Ptr(0)
    BY DEF Params, Results, Struct
  <1>2. IsSlot(Ptr(0)) /\ Fits(Ptr(0), 0, 1)
    BY DEF IsSlot, Ptr, Fits
  <1>3. Sound(Params) /\ Sound(Results)
    BY <1>1, <1>2 DEF Sound, Separate, Params, Results, Struct
  <1>4. ASSUME NEW mem
        PROVE  Read(WriteAll(Params, [request |-> << mem >>]), Ptr(0)) = << mem >>
    <2> DEFINE r == [request |-> << mem >>]
    <2>1. DOMAIN r = {"request"} /\ r["request"] = << mem >>
      OBVIOUS
    <2> HIDE DEF r
    <2> QED BY <1>1, <1>3, <2>1, WriteAllRead
  <1>5. ASSUME NEW mem
        PROVE  Read(WriteAll(Results, [response |-> << mem >>]), Results.slots["response"])
                 = << mem >>
    <2> DEFINE r == [response |-> << mem >>]
    <2>1. DOMAIN r = {"response"} /\ r["response"] = << mem >>
      OBVIOUS
    <2> HIDE DEF r
    <2> QED BY <1>1, <1>3, <2>1, WriteAllRead
  <1> QED BY <1>4, <1>5

\* The stubs number the methods as the schema does.
LEMMA MethodsNumbered == \A m \in Method : SchemaMethods[MethodID[m] + 1] = m
  BY DEF Method, MethodID, SchemaMethods

\* Every field a server knows is a field of the request.
LEMMA KnownFields ==
  \A m \in Method : Known(m) \subseteq DOMAIN Request[m].slots
  <1> TAKE m \in Method
  <1>1. IsLayout(SchemaRequest[m], Request[m].slots)
    BY RequestsAgree DEF Agrees
  <1>2. DOMAIN Request[m].slots = {SchemaRequest[m][i][1] : i \in DOMAIN SchemaRequest[m]}
    BY <1>1 DEF IsLayout
  <1> QED BY <1>2 DEF Known

\* A handler gets the call that was made.
LEMMA HandlerGets ==
  ASSUME NEW cl, NEW w, IsMessage(cl, w)
  PROVE  LET m == SchemaMethods[w.method + 1]
             mem == Read(w.params, Ptr(0))[1]
         IN  /\ m = w.of.method
             /\ IsSeen(cl, [of |-> w.of, method |-> m, fields |-> HandlerFields(m, mem)])
  <1> DEFINE m == w.of.method
             mem == Read(w.params, Ptr(0))[1]
  <1>1. Complete(cl, w.of, mem)
    BY DEF IsMessage
  <1>2. m \in Method /\ IsCall(w.of) /\ SchemaMethods[w.method + 1] = m
    BY MethodsNumbered DEF IsMessage, IsCall
  <1> HIDE DEF mem
  <1>4. RequestSlots[m] = Request[m].slots /\ Known(m) \subseteq DOMAIN Request[m].slots
    BY <1>2, RequestSound, KnownFields
  <1> DEFINE s == [of |-> w.of, method |-> m, fields |-> HandlerFields(m, mem)]
  <1>5. DOMAIN HandlerFields(m, mem) = Known(m)
        /\ \A f \in Known(m) : HandlerFields(m, mem)[f] = HandlerReads(f, Encoded(cl, w.of, f))
    BY <1>1, <1>4 DEF HandlerFields, Complete
  <1>6. IsSeen(cl, s)
    BY <1>2, <1>4, <1>5 DEF IsSeen
  <1> QED BY <1>2, <1>6 DEF mem

\* What a server of the version puts into a field.
Answer(sv, f) ==
    CASE f = "version" -> << "version", sv >>
      [] f = "namespaces" ->
            [i \in DOMAIN SchemaNamespace |->
                WriteAll(ServerStruct(NamespaceResponseSlots),
                         [type |-> Number(i - 1), path |-> << SchemaNamespace[i] >>])]
      [] OTHER -> << f >>

\* What the client reads from it.
AnswerRead(sv, m, given) ==
    [f \in DOMAIN Response[m].slots |-> IF f \in given THEN Answer(sv, f) ELSE Zero]

\* A results message that reads as the fields it was made from.
IsReply(sv, m, r) ==
    LET response == Read(r.mem, Results.slots["response"])
        struct == IF response = Zero THEN << >> ELSE response[1]
    IN  /\ r.answer \in Answers(m)
        /\ ReadAll(struct, Response[m].slots) = AnswerRead(sv, m, r.answer)

\* A server that has room for 16 pointers and 128 bits has room for what a generated
\* struct has room for.
LEMMA ServerSound ==
  ASSUME NEW struct, Sound(struct), struct.bytes \in 0..16, struct.ptrs \in 0..16
  PROVE  Sound(ServerStruct(struct.slots)) /\ ServerStruct(struct.slots).slots = struct.slots
  <1>1. /\ ServerStruct(struct.slots).slots = struct.slots
        /\ ServerStruct(struct.slots).bytes = 16 /\ ServerStruct(struct.slots).ptrs = 16
    BY DEF ServerStruct, Struct, DataBits, Pointers
  <1>2. \A f \in DOMAIN struct.slots : Fits(struct.slots[f], 16, 16)
    BY DEF Sound, Separate, IsSlot, Fits
  <1> QED BY <1>1, <1>2 DEF Sound

\* The structs of the responses, on both sides.
LEMMA ResponseSound ==
  \A m \in Answering :
    /\ Sound(Response[m]) /\ ResponseSlots[m] = Response[m].slots
    /\ Sound(ServerStruct(Response[m].slots))
    /\ ServerStruct(Response[m].slots).slots = Response[m].slots
  <1> TAKE m \in Answering
  <1>1. m \in Method /\ Agrees(Response[m], SchemaResponse[m])
    BY ResponsesAgree
  <1>2. Sound(Response[m]) /\ ResponseSlots[m] = Response[m].slots
    BY <1>1, AgreeingSound DEF ResponseSlots
  <1>3. Response[m].bytes \in 0..16 /\ Response[m].ptrs \in 0..16
    BY DEF Answering, Response, VersionResponse, CreateContainerResponse,
       ExecSyncContainerResponse, CreateNamespacesResponse, StartFdSocketResponse, Struct
  <1> QED BY <1>2, <1>3, ServerSound

\* A reply is read as what the handler filled in.
LEMMA ReplyRead ==
  ASSUME NEW m \in Method, NEW given \in Answers(m)
  PROVE  IsReply(server, m, [mem |-> ServerReply(m, given), answer |-> given])
  <1> DEFINE slots == Response[m].slots
  <1>1. given \subseteq DOMAIN slots
    BY AnswersAssumption
  <1>2. CASE m \notin Answering
    <2>1. Response[m] = EmptyResponse /\ DOMAIN slots = {}
      BY <1>2, ResponsesAgree DEF EmptyResponse, Struct
    <2>2. ASSUME NEW struct PROVE ReadAll(struct, slots) = AnswerRead(server, m, given)
      BY <2>1 DEF ReadAll, AnswerRead
    <2> QED BY <2>2 DEF IsReply
  <1>3. CASE m \in Answering
    <2> DEFINE record == [f \in given |-> AnswerValue(m, f)]
               struct == ServerStruct(slots)
               mem == WriteAll(struct, record)
    <2>1. Response[m] # EmptyResponse /\ ResponseSlots[m] = slots
      BY <1>3, ResponsesAgree, ResponseSound
    <2>2. ServerReply(m, given) = WriteAll(Results, [response |-> << mem >>])
      BY <2>1 DEF ServerReply
    <2>3. Read(ServerReply(m, given), Results.slots["response"]) = << mem >>
      <3> HIDE DEF mem
      <3> QED BY <2>2, OuterStructs
    <2>4. \A f \in DOMAIN slots :
            Read(mem, slots[f]) = IF f \in given THEN AnswerValue(m, f) ELSE Zero
      <3>1. Sound(struct) /\ struct.slots = slots
        BY <1>3, ResponseSound
      <3>2. DOMAIN record = given /\ \A f \in given : record[f] = AnswerValue(m, f)
        OBVIOUS
      <3> HIDE DEF record, struct
      <3> QED BY <1>1, <3>1, <3>2, WriteAllRead
    <2>5. \A f : AnswerValue(m, f) = Answer(server, f)
      BY DEF AnswerValue, Answer, VersionText
    <2> HIDE DEF mem
    <2>6. ReadAll(mem, slots) = AnswerRead(server, m, given)
      BY <2>4, <2>5 DEF ReadAll, AnswerRead
    <2>7. << mem >> # Zero /\ << mem >>[1] = mem
      BY DEF Zero
    <2> QED BY <2>3, <2>6, <2>7 DEF IsReply
  <1> QED BY <1>2, <1>3

\* The parser undoes the server's version text.
LEMMA VersionParsed == \A n \in 0..9 : semverParse(<< "version", n >>) = n
  BY DEF semverParse, VersionText

\* The namespaces of an answer keep their types and paths.
LEMMA NamespacesRead ==
  ASSUME NEW sv
  PROVE  LET list == NamespacesResponse(Answer(sv, "namespaces"))
         IN  /\ Len(list) = Len(SchemaNamespace)
             /\ \A i \in DOMAIN SchemaNamespace :
                   /\ list[i].path = << SchemaNamespace[i] >>
                   /\ ProtoName[list[i].type] = SchemaNamespace[i]
  <1> DEFINE struct == ServerStruct(NamespaceResponseSlots)
             record(i) == [type |-> Number(i - 1), path |-> << SchemaNamespace[i] >>]
             sent == Answer(sv, "namespaces")
             list == NamespacesResponse(sent)
  <1>1. Len(SchemaNamespace) = 5 /\ DOMAIN SchemaNamespace = 1..5
    BY DEF SchemaNamespace
  <1>2. sent = [i \in 1..5 |-> WriteAll(struct, record(i))]
    BY <1>1 DEF Answer
  <1>3. Sound(struct) /\ struct.slots = NamespaceResponse.slots
    <2>1. NamespaceResponse.bytes \in 0..16 /\ NamespaceResponse.ptrs \in 0..16
      BY DEF NamespaceResponse, Struct
    <2> QED BY <2>1, InnerStructs, ServerSound
  <1>4. ASSUME NEW i \in 1..5
        PROVE  ReadAll(WriteAll(struct, record(i)), NamespaceResponse.slots) = record(i)
    <2> DEFINE r == record(i)
    <2>1. r = [f \in DOMAIN struct.slots |-> r[f]]
      BY <1>3, InnerFields
    <2> HIDE DEF r, struct
    <2> QED BY <1>3, <2>1, ReadAllWritten DEF r
  <1> HIDE DEF struct
  <1>5. list = [i \in 1..5 |-> [type |-> NamespaceFromProto(Number(i - 1)),
                                path |-> << SchemaNamespace[i] >>]]
    <2>1. DOMAIN sent = 1..5
      BY <1>2
    <2>2. \A i \in 1..5 : ReadAll(sent[i], NamespaceResponse.slots) = record(i)
      BY <1>2, <1>4
    <2> HIDE DEF sent
    <2> QED BY <2>1, <2>2 DEF NamespacesResponse
  <1> HIDE DEF list
  <1>6. \A i \in 1..5 : ProtoName[NamespaceFromProto(Number(i - 1))] = SchemaNamespace[i]
    <2>1. \A i, j \in Nat : Number(i) = Number(j) => i = j
      BY NumbersDiffer
    <2>2. /\ NamespaceFromProto(Number(0)) = "IPC" /\ NamespaceFromProto(Number(1)) = "Net"
          /\ NamespaceFromProto(Number(2)) = "PID" /\ NamespaceFromProto(Number(3)) = "User"
          /\ NamespaceFromProto(Number(4)) = "UTS"
      BY <2>1 DEF NamespaceFromProto, Namespace
    <2> QED BY <2>2 DEF ProtoName, SchemaNamespace
  <1>7. Len(list) = 5
    BY <1>5
  <1> QED BY <1>1, <1>5, <1>6, <1>7 DEF list

\* The accessors capnpc generated for the client have, for every struct on the wire,
\* exactly the slots the encoding rules give the fields of the schema, and no two
\* of one struct share a bit.
THEOREM GeneratedLayout ==
  /\ \A m \in Method : RequestSlots[m] = Request[m].slots /\ Separate(Request[m].slots)
  /\ \A m \in Method : Response[m] # EmptyResponse =>
        ResponseSlots[m] = Response[m].slots /\ Separate(Response[m].slots)
  /\ MapEntrySlots = TextTextMapEntry.slots /\ Separate(TextTextMapEntry.slots)
  /\ LogDriverSlots = LogDriver.slots /\ Separate(LogDriver.slots)
  /\ NamespaceResponseSlots = NamespaceResponse.slots /\ Separate(NamespaceResponse.slots)
  BY RequestSound, ResponseSound, ResponsesAgree, InnerStructs DEF Sound

-----------------------------------------------------------------------------
(* The inductive invariant. *)

\* The client knows the version of its server or none.
ClientInv ==
    /\ client \in [tracing : Tracing, serverVersion : {-1, server}, cgroup : {0, 1, PerCommand}]
    /\ server \in {4, 5, 6}

\* The call under way: only the first ones are made without knowing the version, and
\* the request holds what the setters so far have set.
CallInv ==
    /\ pc \in {"idle", "dial", "fill", "await", "decode"}
    /\ calls \in Nat /\ (pc # "idle" => calls > 0)
    /\ pc # "idle" \/ result # None =>
          IsCall(call) /\ (call.method = "version" \/ client.serverVersion = server)
    /\ pc # "idle" /\ call.method = "createNamespaces" => server >= 5
    /\ pc = "dial" => at = 1 /\ req = << >>
    /\ pc = "fill" => /\ at \in 1..(Len(FillOrder[call.method]) + 1)
                      /\ Holds(client, call, req, at)

\* Every message is the whole request of its call; there is one at most for each call,
\* and for the last call only after it was sent and before it is answered.
WireInv ==
    /\ \A w \in wires :
          /\ IsMessage(client, w)
          /\ w.serial \in 1..calls
          /\ w.of.method = "createNamespaces" => server >= 5
          /\ w.serial = calls => w.of = call /\ pc \in {"idle", "await"} /\ reply = None
    /\ \A v, w \in wires : v.serial = w.serial => v = w

\* The answer is the one to the last call.
ReplyInv ==
    /\ pc \in {"dial", "fill"} => reply = None
    /\ pc = "decode" => reply # None
    /\ reply # None => IsReply(server, call.method, reply)

SeenInv == seen # None => IsSeen(client, seen)

\* The last result is of the last call.
ResultInv ==
    /\ result # None => pc = "idle"
    /\ result # None /\ result.status = "ErrUnsupported" => server < 5
    /\ ResponseFaithful

Inv == ClientInv /\ CallInv /\ WireInv /\ ReplyInv /\ SeenInv /\ ResultInv

\* The initial states.
LEMMA InvInit == Init => Inv
  <1> SUFFICES ASSUME Init PROVE Inv
    OBVIOUS
  <1> USE DEF Init
  <1>1. ClientInv
    BY DEF ClientInv, CgroupManager
  <1>2. CallInv /\ WireInv
    BY DEF CallInv, WireInv
  <1>3. ReplyInv /\ SeenInv
    BY DEF ReplyInv, SeenInv
  <1>4. ResultInv
    BY DEF ResultInv, ResponseFaithful
  <1> QED BY <1>1, <1>2, <1>3, <1>4 DEF Inv

\* What follows about the client from its invariant.
LEMMA ClientFacts ==
  ASSUME ClientInv
  PROVE  /\ IsClient
         /\ client.serverVersion \in {-1, server} /\ server \in {4, 5, 6}
         /\ client = [tracing |-> client.tracing, serverVersion |-> client.serverVersion,
                      cgroup |-> client.cgroup]
  BY DEF ClientInv, IsClient

\* A call begins, or is refused at once.
LEMMA BeginInv ==
  ASSUME Inv, NEW c, IsCall(c), c.method = "version" \/ client.serverVersion = server, Begin(c)
  PROVE  Inv'
  <1> USE DEF Begin
  <1>1. ClientInv'
    BY DEF Inv, ClientInv
  <1>2. server \in {4, 5, 6} /\ calls \in Nat
    BY DEF Inv, ClientInv, CallInv
  <1>3. /\ Refusal(c) \in {"none", "ErrUnsupported", "errTerminalSizeNil"}
        /\ Refusal(c) = "ErrUnsupported" => server < 5
        /\ Refusal(c) = "none" /\ c.method = "createNamespaces" => server >= 5
    <2>1. Unsupported(c) => server < 5
      BY <1>2 DEF Unsupported
    <2>2. ~Unsupported(c) /\ c.method = "createNamespaces" => server >= 5
      BY <1>2 DEF Unsupported
    <2>3. ~(Unsupported(c) /\ SizeNil(c))
      BY DEF Unsupported, SizeNil
    <2> QED BY <2>1, <2>2, <2>3 DEF Refusal
  <1>4. ASSUME Refusal(c) = "none" PROVE CallInv' /\ ResultInv'
    <2>1. CallInv'
      BY <1>2, <1>3, <1>4 DEF CallInv
    <2>2. ResultInv'
      BY <1>4 DEF ResultInv, ResponseFaithful
    <2> QED BY <2>1, <2>2
  <1>5. ASSUME Refusal(c) # "none" PROVE CallInv' /\ ResultInv'
    <2>1. pc' = "idle" /\ result'.status = Refusal(c)
      BY <1>5 DEF Return
    <2>2. CallInv'
      BY <1>2, <2>1 DEF CallInv
    <2>3. ResultInv'
      BY <1>3, <2>1 DEF ResultInv, ResponseFaithful
    <2> QED BY <2>2, <2>3
  <1>6. WireInv'
    BY <1>2 DEF Inv, WireInv
  <1>7. ReplyInv' /\ SeenInv'
    <2>1. pc' # "decode"
      BY <1>4, <1>5 DEF Return
    <2> QED BY <2>1 DEF ReplyInv, SeenInv
  <1> QED BY <1>1, <1>4, <1>5, <1>6, <1>7 DEF Inv

\* A new call has a configuration of its method.
LEMMA CallStep ==
  ASSUME Inv, NEW m \in Method, Call(m)
  PROVE  Inv'
  <1>1. PICK cfg \in Configs(m) :
          Begin([method |-> m, given |-> cfg.given, items |-> cfg.items, base |-> cfg.base])
    BY DEF Call
  <1> DEFINE c == [method |-> m, given |-> cfg.given, items |-> cfg.items, base |-> cfg.base]
  <1>2. IsCall(c)
    BY ConfigsAssumption DEF IsCall
  <1>3. c.method = "version" \/ client.serverVersion = server
    BY ClientFacts DEF Call, Inv
  <1> QED BY <1>1, <1>2, <1>3, BeginInv

\* The repetition of a failed call is a call like the first.
LEMMA RetryStep ==
  ASSUME Inv, Retry
  PROVE  Inv'
  <1>1. IsCall(call) /\ (call.method = "version" \/ client.serverVersion = server)
    BY DEF Inv, CallInv, Retry
  <1> QED BY <1>1, BeginInv DEF Retry

\* A call that ends with an error of the client or the connection.
LEMMA FailStep ==
  ASSUME Inv, pc # "idle",
         pc' = "idle", result'.status \in {"error", "ErrMissingIDMappings"},
         IsCall(call'), call'.method = call.method,
         call' = call \/ pc = "fill",
         UNCHANGED << client, server, calls, seen, reply >>,
         wires' \subseteq wires
  PROVE  Inv'
  <1>1. ClientInv' /\ SeenInv'
    BY DEF Inv, ClientInv, SeenInv
  <1>2. CallInv'
    BY DEF Inv, CallInv
  <1>3. WireInv'
    BY DEF Inv, WireInv
  <1>4. ReplyInv'
    BY DEF Inv, ReplyInv
  <1>5. ResultInv'
    BY DEF ResultInv, ResponseFaithful
  <1> QED BY <1>1, <1>2, <1>3, <1>4, <1>5 DEF Inv

\* The connection is made: no field is set yet.
LEMMA ConnStep ==
  ASSUME Inv, newRPCConn
  PROVE  Inv'
  <1> USE DEF newRPCConn
  <1>1. ClientInv' /\ SeenInv'
    BY DEF Inv, ClientInv, SeenInv
  <1>2. CallInv'
    <2>1. IsCall(call) /\ at = 1 /\ req = << >>
      BY DEF Inv, CallInv
    <2>2. Len(FillOrder[call.method]) \in Nat
      BY <2>1, FillCovers DEF IsCall
    <2>3. Holds(client, call, req, at)
      BY <2>1, HoldsNew
    <2> QED BY <2>1, <2>2, <2>3 DEF Inv, CallInv
  <1>3. WireInv' /\ ReplyInv'
    BY DEF Inv, WireInv, ReplyInv
  <1>4. ResultInv'
    BY DEF Inv, ResultInv, ResponseFaithful
  <1> QED BY <1>1, <1>2, <1>3, <1>4 DEF Inv

\* A setter succeeds.
LEMMA FillStepInv ==
  ASSUME Inv, Fill
  PROVE  Inv'
  <1> DEFINE f == FillOrder[call.method][at]
             next == Setter(Request[call.method], f)
  <1>1. /\ pc = "fill" /\ at \in DOMAIN FillOrder[call.method]
        /\ req' = next /\ at' = at + 1
        /\ call' = call \/ call' = [call EXCEPT !.base = defaultBasePath]
        /\ UNCHANGED << client, server, pc, calls, wires, seen, reply, result >>
    BY DEF Fill, Filling
  <1> HIDE DEF next
  <1>2. IsCall(call) /\ IsClient /\ Holds(client, call, req, at)
    BY <1>1, ClientFacts DEF Inv, CallInv
  <1>3. Holds(client, call, next, at + 1)
    BY <1>1, <1>2, FillStep DEF next
  <1>4. IsCall(call') /\ call'.method = call.method /\ Holds(client, call', next, at + 1)
    <2>1. CASE call' = call
      BY <1>2, <1>3, <2>1
    <2>2. CASE call' = [call EXCEPT !.base = defaultBasePath]
      BY <1>2, <1>3, <2>2, BaseDefaults
    <2> QED BY <1>1, <2>1, <2>2
  <1>5. ClientInv' /\ SeenInv'
    BY <1>1 DEF Inv, ClientInv, SeenInv
  <1>6. CallInv'
    <2>1. at' \in 1..(Len(FillOrder[call'.method]) + 1)
      BY <1>1, <1>2, <1>4, FillCovers DEF IsCall
    <2> QED BY <1>1, <1>4, <2>1 DEF Inv, CallInv
  <1>7. WireInv' /\ ReplyInv'
    BY <1>1 DEF Inv, WireInv, ReplyInv
  <1>8. ResultInv'
    BY <1>1 DEF Inv, ResultInv, ResponseFaithful
  <1> QED BY <1>5, <1>6, <1>7, <1>8 DEF Inv

\* The ways to fail before the request is sent, and the connection that breaks after it.
LEMMA FailSteps ==
  ASSUME Inv, newRPCConnFails \/ FillFails \/ FillRefused \/ Broken
  PROVE  Inv'
  <1>1. pc \in {"dial", "fill", "await"} => IsCall(call)
    BY DEF Inv, CallInv
  <1>2. CASE newRPCConnFails
    BY <1>1, <1>2, FailStep DEF newRPCConnFails, Return
  <1>3. CASE FillRefused
    BY <1>1, <1>3, FailStep DEF FillRefused, Filling, Return
  <1>4. CASE Broken
    BY <1>1, <1>4, FailStep DEF Broken, Return
  <1>5. CASE FillFails
    <2>1. /\ pc = "fill"
          /\ call' = call \/ call' = [call EXCEPT !.base = defaultBasePath]
          /\ pc' = "idle" /\ result'.status = "error"
          /\ UNCHANGED << client, server, calls, wires, seen, reply >>
      BY <1>5 DEF FillFails, Filling, Return
    <2>2. IsCall(call') /\ call'.method = call.method
      BY <1>1, <2>1, BaseDefaults
    <2> QED BY <2>1, <2>2, FailStep
  <1> QED BY <1>2, <1>3, <1>4, <1>5

\* The request is sent when it is complete.
LEMMA SendStep ==
  ASSUME Inv, SendCall
  PROVE  Inv'
  <1> DEFINE new == [serial |-> calls, of |-> call, method |-> MethodID[call.method],
                     params |-> WriteAll(Params, [request |-> << req >>])]
  <1>1. /\ pc = "fill" /\ at = Len(FillOrder[call.method]) + 1 /\ pc' = "await"
        /\ wires' = wires \cup {new}
        /\ UNCHANGED << client, server, call, at, req, calls, seen, reply, result >>
    BY DEF SendCall
  <1>2. IsCall(call) /\ Holds(client, call, req, at)
    BY <1>1 DEF Inv, CallInv
  <1>3. IsMessage(client, new)
    <2>1. Complete(client, call, req)
      BY <1>1, <1>2, FillEnds
    <2>2. Read(new.params, Ptr(0))[1] = req
      BY OuterStructs
    <2> QED BY <1>2, <2>1, <2>2 DEF IsMessage
  <1>4. new.serial = calls /\ new.of = call
    OBVIOUS
  <1> HIDE DEF new
  <1>5. ClientInv' /\ SeenInv'
    BY <1>1 DEF Inv, ClientInv, SeenInv
  <1>6. CallInv'
    BY <1>1 DEF Inv, CallInv
  <1>7. WireInv'
    <2>1. \A w \in wires : w.serial # calls
      BY <1>1 DEF Inv, WireInv
    <2>2. calls \in 1..calls
      BY <1>1 DEF Inv, CallInv
    <2>3. reply = None /\ (call.method = "createNamespaces" => server >= 5)
      BY <1>1 DEF Inv, ReplyInv, CallInv
    <2>4. \A w \in wires' :
            /\ IsMessage(client, w)
            /\ w.serial \in 1..calls
            /\ w.of.method = "createNamespaces" => server >= 5
            /\ w.serial = calls => w.of = call
      BY <1>1, <1>3, <1>4, <2>1, <2>2, <2>3 DEF Inv, WireInv
    <2>5. \A v, w \in wires' : v.serial = w.serial => v = w
      BY <1>1, <1>4, <2>1 DEF Inv, WireInv
    <2> QED BY <1>1, <2>3, <2>4, <2>5 DEF WireInv
  <1>8. ReplyInv' /\ ResultInv'
    BY <1>1 DEF Inv, ReplyInv, ResultInv, ResponseFaithful
  <1> QED BY <1>5, <1>6, <1>7, <1>8 DEF Inv

\* The answer has arrived.
LEMMA FutureStep ==
  ASSUME Inv, futureStruct
  PROVE  Inv'
  <1> USE DEF futureStruct
  <1>1. ClientInv' /\ SeenInv' /\ CallInv'
    BY DEF Inv, ClientInv, SeenInv, CallInv
  <1>2. WireInv' /\ ReplyInv'
    BY DEF Inv, WireInv, ReplyInv
  <1>3. ResultInv'
    BY DEF Inv, ResultInv, ResponseFaithful
  <1> QED BY <1>1, <1>2, <1>3 DEF Inv

\* What the client reads from the answer.
LEMMA DecodeFacts ==
  ASSUME Inv, pc = "decode"
  PROVE  /\ reply # None /\ IsCall(call) /\ reply.answer \in Answers(call.method)
         /\ ReplyFields = AnswerRead(server, call.method, reply.answer)
         /\ IF call.method = "version" THEN serverVersionAfter = server
            ELSE serverVersionAfter = client.serverVersion /\ client.serverVersion = server
  <1>1. reply # None /\ IsReply(server, call.method, reply)
    BY DEF Inv, ReplyInv
  <1>2. IsCall(call) /\ (call.method = "version" \/ client.serverVersion = server)
    BY DEF Inv, CallInv
  <1>3. ReplyFields = AnswerRead(server, call.method, reply.answer)
    BY <1>1 DEF IsReply, ReplyFields
  <1>4. reply.answer \in Answers(call.method)
    BY <1>1 DEF IsReply
  <1>5. CASE call.method = "version"
    <2>1. "version" \in DOMAIN Response["version"].slots
      BY DEF Response, VersionResponse, Struct
    <2>2. "version" \in reply.answer
      BY <1>2, <1>4, <1>5, <2>1, AnswersAssumption DEF IsCall
    <2>3. ReplyFields.version = << "version", server >>
      BY <1>3, <1>5, <2>1, <2>2 DEF AnswerRead, Answer
    <2>4. server \in 0..9
      BY DEF Inv, ClientInv
    <2>5. serverVersionAfter = server
      BY <1>5, <2>3, <2>4, VersionParsed DEF serverVersionAfter
    <2> QED BY <1>1, <1>2, <1>3, <1>4, <1>5, <2>5
  <1>6. CASE call.method # "version"
    BY <1>1, <1>2, <1>3, <1>4, <1>6 DEF serverVersionAfter
  <1> QED BY <1>5, <1>6

\* Which response has the fields that are converted.
LEMMA SpecialAnswers ==
  \A m \in Method :
    /\ "version" \in DOMAIN Response[m].slots <=> m = "version"
    /\ "namespaces" \in DOMAIN Response[m].slots <=> m = "createNamespaces"
  <1> TAKE m \in Method
  <1>1. CASE m \in Answering
    BY <1>1 DEF Answering, Response, VersionResponse, CreateContainerResponse,
       ExecSyncContainerResponse, CreateNamespacesResponse, StartFdSocketResponse, Struct
  <1>2. CASE m \notin Answering
    <2>1. DOMAIN Response[m].slots = {}
      BY <1>2, ResponsesAgree DEF EmptyResponse, Struct
    <2> QED BY <1>2, <2>1 DEF Answering
  <1> QED BY <1>1, <1>2

\* A call that was answered returns the answer.
LEMMA DecodeFaithful ==
  ASSUME Inv, Decode
  PROVE  ResponseFaithful'
  <1> DEFINE m == call.method
             fields == AnswerRead(server, m, reply.answer)
  <1>1. /\ pc = "decode" /\ UNCHANGED << server, call, reply >>
        /\ result' = [status |-> "ok", values |-> Returned(m, ReplyFields)]
        /\ client' = [client EXCEPT !.serverVersion = serverVersionAfter]
    BY DEF Decode, Return
  <1>2. /\ reply # None /\ m \in Method /\ reply.answer \in Answers(m)
        /\ ReplyFields = fields
        /\ m = "version" => serverVersionAfter = server
    BY <1>1, DecodeFacts DEF IsCall
  <1>3. result'.values = Returned(m, fields)
    BY <1>1, <1>2
  <1>4. /\ DOMAIN fields = DOMAIN Response[m].slots
        /\ \A f \in DOMAIN fields :
              fields[f] = IF f \in reply.answer THEN Answer(server, f) ELSE Zero
    BY DEF AnswerRead
  <1> HIDE DEF fields
  <1>5. CASE m = "createNamespaces"
    <2>1. "namespaces" \in DOMAIN fields /\ "namespaces" \in reply.answer
      BY <1>2, <1>4, <1>5, SpecialAnswers, AnswersAssumption
    <2>2. fields.namespaces = Answer(server, "namespaces")
      BY <1>4, <2>1
    <2>3. result'.values = [namespaces |-> NamespacesResponse(Answer(server, "namespaces"))]
      BY <1>3, <1>5, <2>2 DEF Returned
    <2>4. result'.values.namespaces = NamespacesResponse(Answer(server, "namespaces"))
      BY <2>3
    <2> QED BY <1>1, <1>2, <1>5, <2>4, NamespacesRead DEF ResponseFaithful
  <1>6. CASE m = "version"
    <2>1. result'.values = [f \in DOMAIN fields \ {"metadata"} |-> fields[f]]
      BY <1>3, <1>6 DEF Returned
    <2>2. "namespaces" \notin DOMAIN fields
      BY <1>2, <1>4, <1>6, SpecialAnswers
    <2>3. \A f \in DOMAIN result'.values \ {"version"} :
            result'.values[f] = IF f \in reply.answer THEN << f >> ELSE Zero
      BY <1>4, <2>1, <2>2 DEF Answer
    <2>4. client'.serverVersion = server
      BY <1>1, <1>2, <1>6, ClientFacts DEF Inv
    <2> QED BY <1>1, <1>2, <1>6, <2>3, <2>4 DEF ResponseFaithful
  <1>7. CASE m \notin {"version", "createNamespaces"}
    <2>1. result'.values = fields
      BY <1>3, <1>7 DEF Returned
    <2>2. "namespaces" \notin DOMAIN fields /\ "version" \notin DOMAIN fields
      BY <1>2, <1>4, <1>7, SpecialAnswers
    <2>3. \A f \in DOMAIN result'.values :
            result'.values[f] = IF f \in reply.answer THEN << f >> ELSE Zero
      BY <1>4, <2>1, <2>2 DEF Answer
    <2> QED BY <1>1, <1>2, <1>7, <2>3 DEF ResponseFaithful
  <1> QED BY <1>5, <1>6, <1>7

\* Decoding, with success or not, changes at most the version the client knows.
LEMMA DecodeStep ==
  ASSUME Inv, Decode \/ DecodeFails
  PROVE  Inv'
  <1>1. /\ pc = "decode" /\ pc' = "idle"
        /\ client' \in {client, [client EXCEPT !.serverVersion = serverVersionAfter]}
        /\ UNCHANGED << server, call, at, req, calls, wires, seen, reply >>
        /\ result'.status \in {"ok", "error"}
    BY DEF Decode, DecodeFails, Return
  <1>2. /\ reply # None /\ IsCall(call)
        /\ IF call.method = "version" THEN serverVersionAfter = server
           ELSE serverVersionAfter = client.serverVersion /\ client.serverVersion = server
    BY <1>1, DecodeFacts
  <1>3. /\ client'.tracing = client.tracing /\ client'.cgroup = client.cgroup
        /\ call.method # "version" => client'.serverVersion = server
        /\ ClientInv'
    <2>1. ClientInv
      BY DEF Inv
    <2>2. serverVersionAfter \in {-1, server}
      BY <1>2, <2>1, ClientFacts
    <2>3. CASE client' = client
      BY <1>1, <1>2, <2>1, <2>3 DEF ClientInv
    <2>4. CASE client' = [client EXCEPT !.serverVersion = serverVersionAfter]
      <3> HIDE DEF serverVersionAfter
      <3> QED BY <1>1, <1>2, <2>1, <2>2, <2>4 DEF ClientInv
    <2> QED BY <1>1, <2>3, <2>4
  <1>4. CallInv'
    BY <1>1, <1>2, <1>3 DEF Inv, CallInv
  <1>5. \A c, g : Encoded(client', c, g) = Encoded(client, c, g)
    BY <1>3, SameSettings
  <1>6. WireInv'
    <2>1. \A w \in wires : IsMessage(client', w)
      BY <1>5 DEF Inv, WireInv, IsMessage, Complete
    <2> QED BY <1>1, <1>2, <2>1 DEF Inv, WireInv
  <1>7. ReplyInv'
    BY <1>1 DEF Inv, ReplyInv
  <1>8. SeenInv'
    BY <1>1, <1>5 DEF Inv, SeenInv, IsSeen
  <1>9. ResponseFaithful'
    <2>1. CASE Decode
      BY <2>1, DecodeFaithful
    <2>2. CASE DecodeFails
      BY <2>2 DEF DecodeFails, Return, ResponseFaithful
    <2> QED BY <2>1, <2>2
  <1>10. ResultInv'
    BY <1>1, <1>9 DEF ResultInv
  <1> QED BY <1>3, <1>4, <1>6, <1>7, <1>8, <1>10 DEF Inv

\* The server serves a message: the answer to the last call, or an answer nobody waits for.
LEMMA ServeStep ==
  ASSUME Inv, Serve
  PROVE  Inv'
  <1>1. PICK w \in wires :
          LET m == SchemaMethods[w.method + 1]
              mem == Read(w.params, Ptr(0))[1]
          IN  /\ wires' = wires \ {w}
              /\ \E given \in Answers(m) :
                    /\ seen' = [of |-> w.of, method |-> m, fields |-> HandlerFields(m, mem)]
                    /\ reply' = IF w.serial = calls
                                THEN [mem |-> ServerReply(m, given), answer |-> given]
                                ELSE reply
              /\ UNCHANGED << client, server, pc, call, at, req, calls, result >>
    BY DEF Serve
  <1> DEFINE m == w.of.method
             mem == Read(w.params, Ptr(0))[1]
  <1>2. /\ IsMessage(client, w)
        /\ w.serial = calls => w.of = call /\ pc \in {"idle", "await"} /\ reply = None
    BY DEF Inv, WireInv
  <1>3. /\ m \in Method /\ SchemaMethods[w.method + 1] = m
        /\ IsSeen(client, [of |-> w.of, method |-> m, fields |-> HandlerFields(m, mem)])
    BY <1>2, HandlerGets DEF IsMessage, IsCall
  <1>4. PICK given \in Answers(m) :
          /\ seen' = [of |-> w.of, method |-> m, fields |-> HandlerFields(m, mem)]
          /\ reply' = IF w.serial = calls
                      THEN [mem |-> ServerReply(m, given), answer |-> given] ELSE reply
    BY <1>1, <1>3
  <1> HIDE DEF mem
  <1>5. /\ wires' = wires \ {w}
        /\ UNCHANGED << client, server, pc, call, at, req, calls, result >>
    BY <1>1
  <1>6. ClientInv' /\ CallInv'
    BY <1>5 DEF Inv, ClientInv, CallInv
  <1>7. SeenInv'
    BY <1>3, <1>4, <1>5 DEF SeenInv
  <1>8. WireInv'
    <2>1. \A v \in wires' : v.serial = calls => w.serial # calls
      BY <1>5 DEF Inv, WireInv
    <2>2. \A v \in wires' : v.serial = calls => reply' = reply
      BY <1>4, <2>1
    <2> QED BY <1>5, <2>2 DEF Inv, WireInv
  <1>9. CASE w.serial = calls
    <2> DEFINE r == [mem |-> ServerReply(m, given), answer |-> given]
    <2>1. reply' = r /\ call.method = m
      BY <1>2, <1>4, <1>9
    <2>2. IsReply(server, m, r)
      BY <1>3, ReplyRead
    <2>3. r # None
      <3>1. "none" \notin DOMAIN r /\ "none" \in DOMAIN None
        BY DEF None
      <3> QED BY <3>1
    <2>4. ReplyInv'
      BY <1>2, <1>5, <1>9, <2>1, <2>2, <2>3 DEF ReplyInv
    <2>5. ~(result # None /\ result.status = "ok")
      BY <1>2, <1>9 DEF Inv, ResultInv, ResponseFaithful
    <2>6. ResultInv'
      BY <1>5, <2>5 DEF Inv, ResultInv, ResponseFaithful
    <2> QED BY <1>6, <1>7, <1>8, <2>4, <2>6 DEF Inv
  <1>10. CASE w.serial # calls
    <2>1. reply' = reply
      BY <1>4, <1>10
    <2>2. ReplyInv'
      BY <1>5, <2>1 DEF Inv, ReplyInv
    <2>3. ResultInv'
      BY <1>5, <2>1 DEF Inv, ResultInv, ResponseFaithful
    <2> QED BY <1>6, <1>7, <1>8, <2>2, <2>3 DEF Inv
  <1> QED BY <1>9, <1>10

\* The server answers a message with an error.
LEMMA ServeErrorStep ==
  ASSUME Inv, ServeError
  PROVE  Inv'
  <1>1. PICK w \in wires :
          /\ wires' = wires \ {w}
          /\ IF w.serial = calls /\ pc = "await"
             THEN Return("error", << >>)
             ELSE UNCHANGED << pc, result >>
          /\ UNCHANGED << client, server, call, at, req, calls, seen, reply >>
    BY DEF ServeError
  <1>2. CASE w.serial = calls /\ pc = "await"
    <2>1. IsCall(call)
      BY <1>2 DEF Inv, CallInv
    <2>2. pc' = "idle" /\ result'.status = "error"
      BY <1>1, <1>2 DEF Return
    <2> QED BY <1>1, <1>2, <2>1, <2>2, FailStep
  <1>3. CASE ~(w.serial = calls /\ pc = "await")
    <2>1. UNCHANGED << pc, result >>
      BY <1>1, <1>3
    <2>2. ClientInv' /\ CallInv' /\ SeenInv'
      BY <1>1, <2>1 DEF Inv, ClientInv, CallInv, SeenInv
    <2>3. WireInv' /\ ReplyInv'
      BY <1>1, <2>1 DEF Inv, WireInv, ReplyInv
    <2>4. ResultInv'
      BY <1>1, <2>1 DEF Inv, ResultInv, ResponseFaithful
    <2> QED BY <2>2, <2>3, <2>4 DEF Inv
  <1> QED BY <1>2, <1>3

-----------------------------------------------------------------------------
\* Every step keeps the invariant.
LEMMA InvStep == Inv /\ [Next]_vars => Inv'
  <1> SUFFICES ASSUME Inv, [Next]_vars PROVE Inv'
    OBVIOUS
  <1>1. CASE \E m \in Method : Call(m)
    BY <1>1, CallStep
  <1>2. CASE Retry
    BY <1>2, RetryStep
  <1>3. CASE newRPCConn
    BY <1>3, ConnStep
  <1>4. CASE newRPCConnFails \/ FillFails \/ FillRefused \/ Broken
    BY <1>4, FailSteps
  <1>5. CASE Fill
    BY <1>5, FillStepInv
  <1>6. CASE SendCall
    BY <1>6, SendStep
  <1>7. CASE futureStruct
    BY <1>7, FutureStep
  <1>8. CASE Decode \/ DecodeFails
    BY <1>8, DecodeStep
  <1>9. CASE Serve
    BY <1>9, ServeStep
  <1>10. CASE ServeError
    BY <1>10, ServeErrorStep
  <1>11. CASE UNCHANGED vars
    <2>1. ClientInv' /\ CallInv' /\ WireInv'
      BY <1>11 DEF Inv, ClientInv, CallInv, WireInv, vars
    <2>2. ReplyInv' /\ SeenInv' /\ ResultInv'
      BY <1>11 DEF Inv, ReplyInv, SeenInv, ResultInv, ResponseFaithful, vars
    <2> QED BY <2>1, <2>2 DEF Inv
  <1> QED BY <1>1, <1>2, <1>3, <1>4, <1>5, <1>6, <1>7, <1>8, <1>9, <1>10, <1>11 DEF Next

\* What the invariant says of the client's and the server's view of a call.
LEMMA InvImplies == Inv => RequestFaithful /\ ResponseFaithful /\ GateMatchesServer
  <1> SUFFICES ASSUME Inv PROVE RequestFaithful /\ ResponseFaithful /\ GateMatchesServer
    OBVIOUS
  <1>1. RequestFaithful
    <2> SUFFICES ASSUME seen # None
                 PROVE  /\ seen.method = seen.of.method
                        /\ \A f \in DOMAIN seen.fields :
                              seen.fields[f] = IF f \in Forgotten THEN Zero
                                               ELSE Meaning(seen.of, f)
      BY DEF RequestFaithful
    <2>1. IsSeen(client, seen) /\ IsClient
      BY ClientFacts DEF Inv, SeenInv
    <2>2. IsCall(seen.of) /\ seen.method = seen.of.method
      BY <2>1 DEF IsSeen
    <2>3. ASSUME NEW f \in DOMAIN seen.fields
          PROVE  seen.fields[f] = IF f \in Forgotten THEN Zero ELSE Meaning(seen.of, f)
      <3>1. /\ f \in DOMAIN Request[seen.of.method].slots
            /\ seen.fields[f] = HandlerReads(f, Encoded(client, seen.of, f))
        BY <2>1, <2>2 DEF IsSeen
      <3>2. CASE f \in Forgotten
        BY <3>1, <3>2 DEF Forgotten, HandlerReads, Encoded
      <3>3. CASE f \notin Forgotten
        BY <2>1, <2>2, <3>1, <3>3, HandlerUnderstands
      <3> QED BY <3>2, <3>3
    <2> QED BY <2>2, <2>3
  <1>2. ResponseFaithful
    BY DEF Inv, ResultInv
  <1>3. GateMatchesServer
    BY DEF Inv, WireInv, ResultInv, GateMatchesServer
  <1> QED BY <1>1, <1>2, <1>3

\* The invariant holds.
LEMMA InvCorrect == Spec => []Inv
  BY InvInit, InvStep, PTL DEF Spec

\* For all configurations: a handler of the server, of this version or an older one, gets
\* the method that was called and in every field it knows what the configuration means,
\* the exec session of an attach excepted, which no setter is for, whatever setters, connections and earlier calls have failed.
THEOREM RequestFaithfulCorrect == Spec => []RequestFaithful
  <1>1. Inv => RequestFaithful
    BY InvImplies
  <1> QED BY <1>1, InvCorrect, PTL

\* For all answers: a call that succeeds returns, field by field, what the server put into
\* its response, and after Version the client knows the version of its server.
THEOREM ResponseFaithfulCorrect == Spec => []ResponseFaithful
  <1>1. Inv => ResponseFaithful
    BY InvImplies
  <1> QED BY <1>1, InvCorrect, PTL

\* CreateNamespaces is refused exactly for the servers that do not have it.
THEOREM GateMatchesServerCorrect == Spec => []GateMatchesServer
  <1>1. Inv => GateMatchesServer
    BY InvImplies
  <1> QED BY <1>1, InvCorrect, PTL

-----------------------------------------------------------------------------
(* Types.  What the invariant does not say: the bounds and the statuses. *)
ShapeInv ==
    /\ call = None \/ call.method \in Method
    /\ at \in 1..17
    /\ calls \in 0..(MaxCalls + MaxRetries)
    /\ result # None => result.status \in {"ok", "error", "ErrUnsupported",
                                           "errTerminalSizeNil", "ErrMissingIDMappings"}

\* No method has more than 16 setters.
LEMMA FillBounded == \A m \in Method : DOMAIN FillOrder[m] \subseteq 1..16
  BY FillOrders DEF Method, MethodID, IsList

\* A call that begins is within the bounds.
LEMMA ShapeBegin ==
  ASSUME ShapeInv, NEW c, c.method \in Method, calls + 1 <= MaxCalls + MaxRetries, Begin(c)
  PROVE  ShapeInv'
  <1>1. result' # None => result'.status \in {"ErrUnsupported", "errTerminalSizeNil"}
    <2>1. Refusal(c) \in {"none", "ErrUnsupported", "errTerminalSizeNil"}
      BY DEF Refusal, Unsupported, SizeNil
    <2> QED BY <2>1 DEF Begin, Return
  <1>2. call' = c /\ at' = 1 /\ calls' = calls + 1
    BY DEF Begin
  <1> QED BY <1>1, <1>2, BoundsAssumption DEF ShapeInv

\* Every step keeps the shape.
LEMMA ShapeStep == Inv /\ ShapeInv /\ [Next]_vars => ShapeInv'
  <1> SUFFICES ASSUME Inv, ShapeInv, [Next]_vars PROVE ShapeInv'
    OBVIOUS
  <1>1. CASE \E m \in Method : Call(m)
    <2>1. PICK m \in Method : Call(m)
      BY <1>1
    <2>2. PICK cfg \in Configs(m) :
            Begin([method |-> m, given |-> cfg.given, items |-> cfg.items, base |-> cfg.base])
      BY <2>1 DEF Call
    <2>3. calls + 1 <= MaxCalls + MaxRetries
      BY <2>1, BoundsAssumption DEF Call, ShapeInv
    <2> QED BY <2>2, <2>3, ShapeBegin
  <1>2. CASE Retry
    <2>1. call.method \in Method
      BY <1>2 DEF Retry, Inv, CallInv, IsCall
    <2>2. calls + 1 <= MaxCalls + MaxRetries
      BY <1>2, BoundsAssumption DEF Retry, ShapeInv
    <2> QED BY <1>2, <2>1, <2>2, ShapeBegin DEF Retry
  <1>3. CASE newRPCConn \/ newRPCConnFails \/ FillRefused \/ SendCall \/ Broken \/ futureStruct
    BY <1>3 DEF ShapeInv, newRPCConn, newRPCConnFails, FillRefused, SendCall, Broken,
       futureStruct, Return
  <1>4. CASE Fill \/ FillFails
    <2>1. /\ pc = "fill" /\ at \in DOMAIN FillOrder[call.method]
          /\ call' = call \/ call' = [call EXCEPT !.base = defaultBasePath]
          /\ at' \in {at, at + 1} /\ UNCHANGED calls
          /\ result' = result \/ result'.status = "error"
      BY <1>4 DEF Fill, FillFails, Filling, Return
    <2>2. IsCall(call) /\ call.method \in Method
      BY <2>1 DEF Inv, CallInv, IsCall
    <2>3. call'.method = call.method
      BY <2>1, <2>2, BaseDefaults
    <2>4. at' \in 1..17
      BY <2>1, <2>2, FillBounded
    <2> QED BY <2>1, <2>2, <2>3, <2>4 DEF ShapeInv
  <1>5. CASE Decode \/ DecodeFails
    BY <1>5 DEF ShapeInv, Decode, DecodeFails, Return
  <1>6. CASE Serve
    <2>1. UNCHANGED << call, at, calls, result >>
      BY <1>6 DEF Serve
    <2> QED BY <2>1 DEF ShapeInv
  <1>7. CASE ServeError
    <2>1. UNCHANGED << call, at, calls >> /\ (result' = result \/ result'.status = "error")
      BY <1>7 DEF ServeError, Return
    <2> QED BY <2>1 DEF ShapeInv
  <1>8. CASE UNCHANGED vars
    BY <1>8 DEF ShapeInv, vars
  <1> QED BY <1>1, <1>2, <1>3, <1>4, <1>5, <1>6, <1>7, <1>8 DEF Next

\* The state has the shape the declarations give it; a call that was answered is no
\* longer under way, and the server is sent numbers of methods only.
THEOREM TypeCorrect == Spec => []TypeOK
  <1>1. Init => ShapeInv
    BY BoundsAssumption DEF Init, ShapeInv
  <1>2. Inv /\ ShapeInv => TypeOK
    <2> SUFFICES ASSUME Inv, ShapeInv PROVE TypeOK
      OBVIOUS
    <2>1. client.serverVersion \in -1..9
      BY ClientFacts DEF Inv
    <2>2. pc \in {"idle", "dial", "fill", "await", "decode"} /\ (result # None => pc = "idle")
      BY DEF Inv, CallInv, ResultInv
    <2>3. \A m \in Method : MethodID[m] \in 0..7
      BY DEF Method, MethodID
    <2>4. \A w \in wires : w.serial \in 1..calls /\ w.method \in 0..7
      BY <2>3 DEF Inv, WireInv, IsMessage, IsCall
    <2> QED BY <2>1, <2>2, <2>4 DEF TypeOK, ShapeInv
  <1>3. Spec => []ShapeInv
    BY <1>1, InvCorrect, ShapeStep, PTL DEF Spec
  <1> QED BY <1>2, <1>3, InvCorrect, PTL

=============================================================================
