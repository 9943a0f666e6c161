---------------------------- MODULE LoggerProofs ----------------------------
(***************************************************************************)
(* Proofs about Logger for every driver, maximum size, header, set of line *)
(* lengths and size of chunk.  Lines are numbered, so what a driver holds  *)
(* and what it still has to write can be followed through truncations,     *)
(* buffering and reopening.                                                *)
(***************************************************************************)
EXTENDS Logger, SequenceTheorems, WellFoundedInduction, TLAPS

\* What is left of the chunk are the last lines of the output.
PendingInv ==
    \A i \in 1..Len(pending) : pending[i].number = lines - Len(pending) + i

\* The buffer is flushed when a chunk is written.
FlushInv == state = "ok" /\ pending = <<>> => buffer = <<>>

\* Before the file is opened there is nothing to hold.
UninitInv == state = "uninit" => pending = <<>> /\ lines = 0

Inv == TypeOK /\ PendingInv /\ FlushInv /\ UninitInv /\ RecentLinesKept

-----------------------------------------------------------------------------

\* The constants are numbers.
LEMMA Numbers ==
  MaxSize \in Nat /\ Header \in Nat /\ MaxLines \in Nat /\ MaxChunk \in Nat
  BY LoggerAssumption

\* The initial state satisfies Inv.
LEMMA InitInv == Init => Inv
  <1> SUFFICES ASSUME Init PROVE Inv
    OBVIOUS
  <1>1. <<>> \in Seq(Line) /\ Len(<<>>) = 0
    BY EmptySeq
  <1>2. TypeOK
    <2>1. kind \in Driver /\ 0 \in 0..MaxLines /\ 0 \in Nat
      BY Numbers DEF Init
    <2> QED BY <1>1, <2>1 DEF Init, TypeOK
  <1> QED BY <1>1, <1>2 DEF Init, Inv, PendingInv, FlushInv, UninitInv, RecentLinesKept

\* The line at the head of a chunk.
LEMMA HeadFacts ==
  ASSUME Inv, pending # <<>>
  PROVE  /\ Head(pending) \in Line /\ Tail(pending) \in Seq(Line)
         /\ Len(pending) \in Nat \ {0} /\ Len(Tail(pending)) = Len(pending) - 1
         /\ Head(pending).number = lines - Len(pending) + 1
         /\ \A i \in 1..Len(Tail(pending)) : Tail(pending)[i] = pending[i + 1]
         /\ Counted(Head(pending)) \in Nat
  <1>1. pending \in Seq(Line) /\ Len(pending) \in Nat \ {0}
    BY EmptySeq DEF Inv, TypeOK
  <1>2. /\ Head(pending) \in Line /\ Tail(pending) \in Seq(Line)
        /\ Len(Tail(pending)) = Len(pending) - 1 /\ Head(pending) = pending[1]
        /\ \A i \in 1..Len(Tail(pending)) : Tail(pending)[i] = pending[i + 1]
    BY <1>1, HeadTailProperties
  <1>3. Counted(Head(pending)) \in Nat
    <2>1. Head(pending).len \in Nat
      BY <1>2, LoggerAssumption DEF Line
    <2> QED BY <2>1, Numbers DEF Counted
  <1> QED BY <1>1, <1>2, <1>3 DEF Inv, PendingInv

\* What a handle holds after Put is what it held before, and the line.
LEMMA PutFacts ==
  ASSUME NEW cur \in Seq(Line), NEW buf \in Seq(Line), NEW l \in Line,
         pending # <<>>, Head(pending) = l, Put(cur, buf)
  PROVE  /\ current' \in Seq(Line) /\ buffer' \in Seq(Line)
         /\ Held' = Append(cur \o buf, l)
         /\ Tail(pending) = <<>> => buffer' = <<>>
  <1>1. /\ Append(buf, l) \in Seq(Line) /\ cur \o Append(buf, l) \in Seq(Line)
        /\ cur \o buf \in Seq(Line) /\ <<>> \in Seq(Line) /\ <<l>> \in Seq(Line)
    BY AppendProperties, ConcatProperties, EmptySeq
  <1>2. cur \o Append(buf, l) = Append(cur \o buf, l)
    BY <1>1, AppendIsConcat, ConcatAssociative
  <1>3. (cur \o Append(buf, l)) \o <<>> = cur \o Append(buf, l)
    BY <1>1, ConcatEmptySeq
  <1> QED BY <1>1, <1>2, <1>3 DEF Put, Held

\* A line that follows what is held, or that starts a file, leaves no gap.
LEMMA PutRecent ==
  ASSUME Inv, NEW cur \in Seq(Line), NEW buf \in Seq(Line), pending # <<>>,
         Put(cur, buf), pending' = Tail(pending), UNCHANGED <<state, lines>>,
         state = "ok" => \A i \in 1..Len(cur \o buf) :
             (cur \o buf)[i].number = lines - Len(pending) - Len(cur \o buf) + i
  PROVE  /\ current' \in Seq(Line) /\ buffer' \in Seq(Line) /\ pending' \in Seq(Line)
         /\ PendingInv' /\ FlushInv' /\ RecentLinesKept'
  <1> DEFINE l == Head(pending)
             h == cur \o buf
  <1>1. /\ l \in Line /\ Tail(pending) \in Seq(Line) /\ lines \in Nat
        /\ Len(pending) \in Nat \ {0} /\ Len(Tail(pending)) = Len(pending) - 1
        /\ l.number = lines - Len(pending) + 1
        /\ \A i \in 1..Len(Tail(pending)) : Tail(pending)[i] = pending[i + 1]
    BY HeadFacts, Numbers DEF Inv, TypeOK
  <1>2. /\ current' \in Seq(Line) /\ buffer' \in Seq(Line)
        /\ Held' = Append(h, l)
        /\ Tail(pending) = <<>> => buffer' = <<>>
    BY <1>1, PutFacts
  <1>3. h \in Seq(Line) /\ Len(h) \in Nat
    BY ConcatProperties, LenProperties
  <1>4. /\ Len(Append(h, l)) = Len(h) + 1
        /\ \A i \in 1..Len(h) : Append(h, l)[i] = h[i]
        /\ Append(h, l)[Len(h) + 1] = l
    BY <1>1, <1>3, AppendProperties
  <1> HIDE DEF h, l
  <1>5. PendingInv'
    BY <1>1 DEF Inv, PendingInv
  <1>6. FlushInv'
    BY <1>2 DEF FlushInv
  <1>7. RecentLinesKept'
    <2> SUFFICES ASSUME state = "ok", NEW i \in 1..(Len(h) + 1)
                 PROVE  Append(h, l)[i].number =
                          lines - (Len(pending) - 1) - (Len(h) + 1) + i
      BY <1>1, <1>2, <1>4 DEF RecentLinesKept
    <2>1. CASE i = Len(h) + 1
      BY <1>1, <1>3, <1>4, <2>1
    <2>2. CASE i # Len(h) + 1
      <3>1. i \in 1..Len(h)
        BY <1>3, <2>2
      <3>2. h[i].number = lines - Len(pending) - Len(h) + i
        BY <3>1 DEF h
      <3> QED BY <1>1, <1>3, <1>4, <3>1, <3>2
    <2> QED BY <2>1, <2>2
  <1> QED BY <1>1, <1>2, <1>5, <1>6, <1>7

\* One more line in the file preserves Inv.
LEMMA WriteLineInv ==
  ASSUME Inv, WriteLine
  PROVE  Inv'
  <1>1. current \in Seq(Line) /\ buffer \in Seq(Line)
    BY DEF Inv, TypeOK
  <1>2. /\ current' \in Seq(Line) /\ buffer' \in Seq(Line) /\ pending' \in Seq(Line)
        /\ PendingInv' /\ FlushInv' /\ RecentLinesKept'
    BY <1>1, PutRecent DEF WriteLine, Inv, RecentLinesKept, Held
  <1>3. bytes_written' \in Nat
    BY HeadFacts DEF WriteLine, NewBytes, Inv, TypeOK
  <1>4. TypeOK'
    BY <1>2, <1>3 DEF WriteLine, Inv, TypeOK
  <1> QED BY <1>2, <1>4 DEF WriteLine, Ready, Inv, UninitInv

\* A rotation preserves Inv: the line that causes it is the first of the new file.
LEMMA RotateLineInv ==
  ASSUME Inv, RotateLine
  PROVE  Inv'
  <1>1. PICK e \in Seq(Line) : e = <<>>
    BY EmptySeq
  <1>2. /\ current' \in Seq(Line) /\ buffer' \in Seq(Line) /\ pending' \in Seq(Line)
        /\ PendingInv' /\ FlushInv' /\ RecentLinesKept'
    <2>1. Len(e \o e) = 0
      BY <1>1, EmptySeq, ConcatProperties
    <2>2. \A i \in 1..Len(e \o e) :
            (e \o e)[i].number = lines - Len(pending) - Len(e \o e) + i
      BY <2>1
    <2>3. Put(e, e) /\ pending # <<>> /\ pending' = Tail(pending) /\ UNCHANGED <<state, lines>>
      BY <1>1 DEF RotateLine
    <2> QED BY <2>2, <2>3, PutRecent
  <1>3. saved' \in Seq(Line)
    <2>1. saved \in Seq(Line) /\ saved \o current \in Seq(Line)
      BY ConcatProperties DEF Inv, TypeOK
    <2> QED BY <2>1 DEF RotateLine
  <1>4. TypeOK'
    <2>1. UNCHANGED <<kind, state, lines>> /\ renamed' = FALSE /\ bytes_written' = 0
      BY DEF RotateLine, RotatedBytes
    <2> QED BY <1>2, <1>3, <2>1 DEF Inv, TypeOK
  <1> QED BY <1>2, <1>4 DEF RotateLine, Ready, Inv, UninitInv

\* A chunk takes the next numbers, which preserves Inv.
LEMMA StartWriteInv ==
  ASSUME Inv, StartWrite
  PROVE  Inv'
  <1>1. PICK n \in 1..MaxChunk :
          /\ lines + n <= MaxLines
          /\ \E len \in [1..n -> Length], partial \in BOOLEAN :
                pending' = [i \in 1..n |-> [number |-> lines + i, len |-> len[i],
                                            partial |-> partial /\ i = n]]
          /\ lines' = lines + n
    BY DEF StartWrite
  <1>2. PICK len \in [1..n -> Length], partial \in BOOLEAN :
          pending' = [i \in 1..n |-> [number |-> lines + i, len |-> len[i],
                                      partial |-> partial /\ i = n]]
    BY <1>1
  <1>3. n \in Nat /\ n > 0 /\ lines \in Nat /\ MaxLines \in Nat
    BY <1>1, Numbers DEF Inv, TypeOK
  <1>4. \A i \in 1..n : [number |-> lines + i, len |-> len[i],
                         partial |-> partial /\ i = n] \in Line
    BY <1>1, <1>3 DEF Line
  <1>5. /\ pending' \in Seq(Line) /\ Len(pending') = n
        /\ \A i \in 1..n : pending'[i].number = lines + i
    BY <1>2, <1>3, <1>4
  <1>6. /\ pending = <<>> /\ Len(pending) = 0 /\ state # "uninit"
        /\ UNCHANGED <<kind, state, bytes_written, current, buffer, renamed, saved>>
    BY EmptySeq DEF StartWrite, Ready
  <1>7. TypeOK'
    BY <1>1, <1>3, <1>5, <1>6 DEF Inv, TypeOK
  <1>8. PendingInv' /\ UninitInv'
    BY <1>1, <1>3, <1>5, <1>6 DEF PendingInv, UninitInv
  <1>9. FlushInv'
    BY <1>3, <1>5, <1>6, EmptySeq DEF FlushInv
  <1>10. RecentLinesKept'
    <2>1. Held' = Held /\ Len(Held) \in Nat
      BY <1>6, ConcatProperties, LenProperties DEF Held, Inv, TypeOK
    <2> QED BY <1>1, <1>3, <1>5, <1>6, <2>1 DEF Inv, RecentLinesKept
  <1> QED BY <1>7, <1>8, <1>9, <1>10 DEF Inv

\* Opening the file between two chunks preserves Inv.
LEMMA OpenInv ==
  ASSUME Inv, InitLog \/ ReopenLog
  PROVE  Inv'
  <1>1. /\ <<>> \in Seq(Line) /\ Len(<<>>) = 0 /\ <<>> \o <<>> = <<>>
    BY EmptySeq, ConcatEmptySeq
  <1>2. pending = <<>> /\ pending' = pending /\ state' # "uninit" /\ Open
    BY DEF InitLog, ReopenLog, Ready, Inv, UninitInv
  <1>3. saved' \in Seq(Line)
    BY <1>2, ConcatProperties DEF Open, Inv, TypeOK
  <1>4. TypeOK'
    BY <1>1, <1>2, <1>3 DEF InitLog, ReopenLog, Open, Inv, TypeOK
  <1>5. PendingInv' /\ FlushInv' /\ UninitInv'
    BY <1>1, <1>2 DEF Open, PendingInv, FlushInv, UninitInv
  <1>6. RecentLinesKept'
    BY <1>1, <1>2 DEF Open, RecentLinesKept, Held
  <1> QED BY <1>4, <1>5, <1>6 DEF Inv

\* A failed rotation and a rename preserve Inv.
LEMMA RotateFailsInv ==
  ASSUME Inv, RotateFails \/ Rename
  PROVE  Inv'
  <1>1. CASE RotateFails
    <2>1. bytes_written' \in Nat
      BY <1>1, HeadFacts DEF RotateFails, NewBytes, Inv, TypeOK
    <2>2. <<>> \in Seq(Line) /\ Len(<<>>) = 0
      BY EmptySeq
    <2>3. TypeOK'
      BY <1>1, <2>1, <2>2 DEF RotateFails, Inv, TypeOK
    <2> QED BY <1>1, <2>2, <2>3
            DEF RotateFails, Inv, PendingInv, FlushInv, UninitInv, RecentLinesKept
  <1>2. CASE Rename
    BY <1>2 DEF Rename, Inv, TypeOK, PendingInv, FlushInv, UninitInv, RecentLinesKept, Held
  <1> QED BY <1>1, <1>2

\* Every step preserves Inv.
LEMMA NextInv ==
  ASSUME Inv, [Next]_vars
  PROVE  Inv'
  <1>1. CASE UNCHANGED vars
    BY <1>1 DEF vars, Inv, TypeOK, PendingInv, FlushInv, UninitInv, RecentLinesKept, Held
  <1> QED BY <1>1, WriteLineInv, RotateLineInv, StartWriteInv, OpenInv, RotateFailsInv DEF Next

\* Inv holds in every reachable state.
LEMMA Invariance == Spec => []Inv
  BY InitInv, NextInv, PTL DEF Spec

-----------------------------------------------------------------------------
(* The size of a file.  Size is a recursive function; what is known of it is   *)
(* that a running total, where there is one, has its value at the end.         *)

\* A running total of the lines of s.
Running(s, t) ==
    t = [i \in 0..Len(s) |-> IF i = 0 THEN 0 ELSE t[i - 1] + Counted(s[i])]

\* A set of natural numbers has a least one.
LEMMA Least ==
  ASSUME NEW T, T \subseteq Nat, T # {}
  PROVE  \E x \in T : \A y \in T : ~(y < x)
  <1>1. PICK x \in T : \A y \in T : ~(<<y, x>> \in OpToRel(<, Nat))
    BY NatLessThanWellFounded, WFMin
  <1>2. ASSUME NEW y \in T, y < x PROVE <<y, x>> \in OpToRel(<, Nat)
    BY <1>2 DEF OpToRel
  <1> QED BY <1>1, <1>2

\* Two running totals of the same lines agree.
LEMMA RunningUnique ==
  ASSUME NEW s, Len(s) \in Nat, NEW t, NEW u, Running(s, t), Running(s, u)
  PROVE  t[Len(s)] = u[Len(s)]
  <1> DEFINE T == {i \in 0..Len(s) : t[i] # u[i]}
  <1>1. T = {}
    <2> SUFFICES ASSUME T # {} PROVE FALSE
      OBVIOUS
    <2>1. PICK x \in T : \A y \in T : ~(y < x)
      <3>1. T \subseteq Nat /\ T # {}
        OBVIOUS
      <3> HIDE DEF T
      <3> QED BY <3>1, Least
    <2>2. x \in 0..Len(s) /\ t[x] # u[x]
      OBVIOUS
    <2>3. x # 0
      BY <2>2 DEF Running
    <2>4. x - 1 \in 0..Len(s) /\ x - 1 < x
      BY <2>2, <2>3
    <2>5. t[x - 1] = u[x - 1]
      BY <2>1, <2>4
    <2> QED BY <2>2, <2>3, <2>5 DEF Running
  <1> QED BY <1>1

\* The size of lines that have a running total.
LEMMA SizeIsTotal ==
  ASSUME NEW s, Len(s) \in Nat, NEW t, Running(s, t)
  PROVE  Size(s) = t[Len(s)]
  <1> DEFINE v == CHOOSE u : u = [i \in 0..Len(s) |-> IF i = 0 THEN 0
                                                      ELSE u[i - 1] + Counted(s[i])]
  <1>1. Running(s, v)
    BY DEF Running
  <1>2. Size(s) = v[Len(s)]
    BY DEF Size
  <1> HIDE DEF v
  <1> QED BY <1>1, <1>2, RunningUnique

\* One more line adds what is counted for it.
LEMMA RunningAppend ==
  ASSUME NEW s \in Seq(Line), NEW l \in Line, NEW t, Running(s, t)
  PROVE  \E u : Running(Append(s, l), u) /\ u[Len(s) + 1] = t[Len(s)] + Counted(l)
  <1> DEFINE n == Len(s)
             r == Append(s, l)
             u == [i \in 0..(n + 1) |-> IF i = n + 1 THEN t[n] + Counted(l) ELSE t[i]]
  <1>1. /\ n \in Nat /\ Len(r) = n + 1 /\ r[n + 1] = l
        /\ \A i \in 1..n : r[i] = s[i]
    BY AppendProperties, LenProperties
  <1> HIDE DEF n, r
  <1>2. ASSUME NEW i \in 0..(n + 1)
        PROVE  u[i] = IF i = 0 THEN 0 ELSE u[i - 1] + Counted(r[i])
    <2>1. CASE i = n + 1
      BY <1>1, <2>1
    <2>2. CASE i \in 0..n
      <3>1. t[i] = IF i = 0 THEN 0 ELSE t[i - 1] + Counted(s[i])
        BY <2>2 DEF Running, n
      <3>2. i # 0 => i \in 1..n /\ i - 1 \in 0..(n + 1) /\ i - 1 # n + 1
        BY <1>1, <2>2
      <3>3. i # n + 1
        BY <1>1, <2>2
      <3> QED BY <1>1, <3>1, <3>2, <3>3
    <2> QED BY <1>1, <2>1, <2>2
  <1>3. Running(r, u)
    BY <1>1, <1>2 DEF Running
  <1>4. u[n + 1] = t[n] + Counted(l)
    BY <1>1
  <1> HIDE DEF u
  <1> QED BY <1>3, <1>4 DEF n, r

\* No lines have a total of nothing.
LEMMA RunningEmpty == \E t : Running(<<>>, t) /\ t[0] = 0
  <1> DEFINE t == [i \in 0..0 |-> 0]
  <1>1. Running(<<>>, t) /\ t[0] = 0
    BY EmptySeq DEF Running
  <1> QED BY <1>1

\* What a file holds beyond what was counted for it is its first line.
First(s) == IF s = <<>> THEN 0 ELSE Counted(s[1])
SizeBound ==
    /\ Size(Held) \in Nat
    /\ Size(Held) <= bytes_written + First(Held)
    /\ Size(Held) <= MaxSize + First(Held)
SizeInv == SizeBound /\ \E t : Running(Held, t)

\* Counting does not change while the driver stays the same.
LEMMA SameCount ==
  ASSUME kind' = kind
  PROVE  /\ \A s, t : Running(s, t)' <=> Running(s, t)
         /\ \A s : First(s)' = First(s)
         /\ \A s : Size(s)' = Size(s)
  <1>1. \A l : Counted(l)' = Counted(l)
    BY DEF Counted
  <1>2. \A s, t : Running(s, t)' <=> Running(s, t)
    BY DEF Running, Counted
  <1>3. \A s : First(s)' = First(s)
    BY DEF First, Counted
  <1>4. \A s : Size(s)' = Size(s)
    BY DEF Size, Counted
  <1> QED BY <1>2, <1>3, <1>4

\* What is counted for a line is a number.
LEMMA CountedType ==
  ASSUME NEW l \in Line
  PROVE  Counted(l) \in Nat
  <1>1. l.len \in Nat
    BY LoggerAssumption DEF Line
  <1> QED BY <1>1, Numbers DEF Counted

\* A handle without lines.
LEMMA SizeEmpty ==
  ASSUME TypeOK, Held = <<>>
  PROVE  SizeInv
  <1>1. PICK t : Running(<<>>, t) /\ t[0] = 0
    BY RunningEmpty
  <1>2. Len(<<>>) = 0 /\ Len(<<>>) \in Nat
    BY EmptySeq
  <1>3. Size(<<>>) = 0
    BY <1>1, <1>2, SizeIsTotal
  <1>4. First(<<>>) = 0
    BY DEF First
  <1>5. bytes_written \in Nat /\ MaxSize \in Nat
    BY Numbers DEF TypeOK
  <1> QED BY <1>1, <1>3, <1>4, <1>5 DEF SizeInv, SizeBound

\* A handle that got one more line.
LEMMA SizeAppend ==
  ASSUME NEW s \in Seq(Line), NEW l \in Line, NEW t, Running(s, t)
  PROVE  /\ Size(Append(s, l)) = Size(s) + Counted(l)
         /\ \E u : Running(Append(s, l), u)
         /\ First(Append(s, l)) = IF s = <<>> THEN Counted(l) ELSE First(s)
  <1>1. /\ Len(s) \in Nat /\ Len(Append(s, l)) = Len(s) + 1
        /\ Append(s, l) # <<>> /\ Append(s, l)[Len(s) + 1] = l
        /\ \A i \in 1..Len(s) : Append(s, l)[i] = s[i]
    BY AppendProperties, LenProperties
  <1>2. PICK u : Running(Append(s, l), u) /\ u[Len(s) + 1] = t[Len(s)] + Counted(l)
    BY RunningAppend
  <1>3. Size(s) = t[Len(s)]
    BY <1>1, SizeIsTotal
  <1>4. Size(Append(s, l)) = u[Len(s) + 1]
    <2>1. PICK r : r = Append(s, l)
      OBVIOUS
    <2>2. Len(r) \in Nat /\ Running(r, u)
      BY <1>1, <1>2, <2>1
    <2>3. Size(r) = u[Len(r)]
      BY <2>2, SizeIsTotal
    <2> QED BY <1>1, <2>1, <2>3
  <1>5. First(Append(s, l)) = IF s = <<>> THEN Counted(l) ELSE First(s)
    <2>1. s = <<>> => Len(s) = 0
      BY EmptySeq
    <2>2. s # <<>> => 1 \in 1..Len(s)
      BY <1>1, EmptySeq
    <2> QED BY <1>1, <2>1, <2>2 DEF First
  <1> QED BY <1>2, <1>3, <1>4, <1>5

\* WriteLine adds a line the counter includes, RotateLine starts a file with one that
\* it does not; every other step leaves the file or empties it.
LEMMA SizeStep ==
  ASSUME Inv, SizeInv, [Next]_vars
  PROVE  SizeInv'
  <1>1. kind' = kind
    BY DEF Next, vars, InitLog, StartWrite, WriteLine, RotateLine, RotateFails, Rename, ReopenLog
  <1>2. TypeOK /\ TypeOK' /\ Held \in Seq(Line) /\ MaxSize \in Nat /\ bytes_written \in Nat
    BY NextInv, Numbers, ConcatProperties DEF Inv, TypeOK, Held
  <1> PICK h \in Seq(Line) : h = Held
    BY <1>2
  <1>3. PICK t : Running(h, t)
    BY DEF SizeInv
  <1>4. /\ Size(h) \in Nat
        /\ Size(h) <= bytes_written + First(h)
        /\ Size(h) <= MaxSize + First(h)
    BY DEF SizeInv, SizeBound
  <1>5. First(h) \in Nat
    <2>1. h # <<>> => h[1] \in Line
      BY EmptySeq
    <2> QED BY <2>1, CountedType DEF First
  <1>6. CASE WriteLine
    <2>1. Head(pending) \in Line /\ pending # <<>>
      BY <1>6, HeadFacts DEF WriteLine
    <2> PICK l \in Line : l = Head(pending)
      BY <2>1
    <2>2. Held' = Append(h, l)
      BY <1>2, <1>6, <2>1, PutFacts DEF WriteLine, TypeOK, Held
    <2>3. Counted(l) \in Nat /\ bytes_written' = bytes_written + Counted(l)
          /\ bytes_written' <= MaxSize
      BY <1>6, CountedType DEF WriteLine, NewBytes
    <2> PICK r : r = Append(h, l)
      OBVIOUS
    <2>4. /\ Size(r) = Size(h) + Counted(l) /\ \E u : Running(r, u)
          /\ First(r) = IF h = <<>> THEN Counted(l) ELSE First(h)
      BY <1>3, SizeAppend
    <2>5. h = <<>> => Size(h) = 0
      <3>1. PICK z : Running(<<>>, z) /\ z[0] = 0
        BY RunningEmpty
      <3>2. Len(<<>>) = 0 /\ Len(<<>>) \in Nat
        BY EmptySeq
      <3> QED BY <3>1, <3>2, SizeIsTotal
    <2>6. /\ Size(r) \in Nat /\ Size(r) <= bytes_written' + First(r)
          /\ Size(r) <= MaxSize + First(r)
      BY <1>2, <1>4, <1>5, <2>3, <2>4, <2>5, SMTT(30)
    <2>7. /\ Size(r)' = Size(r) /\ First(r)' = First(r)
          /\ \A u : Running(r, u)' <=> Running(r, u)
      BY <1>1, SameCount
    <2>8. SizeBound'
      BY <2>2, <2>6, <2>7 DEF SizeBound
    <2> QED BY <2>2, <2>4, <2>7, <2>8 DEF SizeInv
  <1>7. CASE RotateLine
    <2>1. Head(pending) \in Line /\ pending # <<>>
      BY <1>7, HeadFacts DEF RotateLine
    <2> PICK l \in Line : l = Head(pending)
      BY <2>1
    <2> PICK e \in Seq(Line) : e = <<>>
      BY EmptySeq
    <2>2. Held' = Append(e, l)
      <3>1. Held' = Append(e \o e, l)
        BY <1>7, <2>1, PutFacts DEF RotateLine
      <3> QED BY <3>1, EmptySeq, ConcatEmptySeq
    <2>3. Counted(l) \in Nat /\ bytes_written' = 0
      BY <1>7, CountedType DEF RotateLine, RotatedBytes
    <2>4. PICK z : Running(e, z) /\ Size(e) = 0
      <3>1. PICK z : Running(<<>>, z) /\ z[0] = 0
        BY RunningEmpty
      <3>2. Len(<<>>) = 0 /\ Len(<<>>) \in Nat
        BY EmptySeq
      <3> QED BY <3>1, <3>2, SizeIsTotal
    <2> PICK r : r = Append(e, l)
      OBVIOUS
    <2>5. /\ Size(r) = 0 + Counted(l) /\ \E u : Running(r, u)
          /\ First(r) = Counted(l)
      BY <2>4, SizeAppend
    <2>6. /\ Size(r) \in Nat /\ Size(r) <= bytes_written' + First(r)
          /\ Size(r) <= MaxSize + First(r)
      BY <1>2, <2>3, <2>5
    <2>7. /\ Size(r)' = Size(r) /\ First(r)' = First(r)
          /\ \A u : Running(r, u)' <=> Running(r, u)
      BY <1>1, SameCount
    <2>8. SizeBound'
      BY <2>2, <2>6, <2>7 DEF SizeBound
    <2> QED BY <2>2, <2>5, <2>7, <2>8 DEF SizeInv
  <1>8. CASE InitLog \/ ReopenLog
    <2>1. Held' = <<>>
      BY <1>8, EmptySeq, ConcatEmptySeq DEF InitLog, ReopenLog, Open, Held
    <2>2. (TypeOK /\ Held = <<>> => SizeInv)'
      BY SizeEmpty, PTL
    <2> QED BY <1>2, <2>1, <2>2
  <1>9. CASE StartWrite \/ RotateFails \/ Rename \/ UNCHANGED vars
    <2>1. Held' = h
      BY <1>9 DEF StartWrite, RotateFails, Rename, vars, Held
    <2>2. bytes_written' \in Nat /\ bytes_written <= bytes_written'
      <3>1. CASE RotateFails
        BY <1>2, <3>1, HeadFacts DEF RotateFails, NewBytes
      <3> QED BY <1>2, <1>9, <3>1 DEF StartWrite, Rename, vars
    <2>3. Size(h) <= bytes_written' + First(h)
      BY <1>2, <1>4, <1>5, <2>2
    <2>4. /\ Size(h)' = Size(h) /\ First(h)' = First(h) /\ Running(h, t)'
      BY <1>1, <1>3, SameCount
    <2>5. SizeBound'
      BY <1>4, <2>1, <2>3, <2>4 DEF SizeBound
    <2> QED BY <2>1, <2>4, <2>5 DEF SizeInv
  <1> QED BY <1>6, <1>7, <1>8, <1>9 DEF Next

-----------------------------------------------------------------------------

\* Every variable of the log driver keeps its type.
THEOREM TypeCorrect == Spec => []TypeOK
  BY Invariance, PTL DEF Inv

\* The driver's file holds the most recent output without a gap, whatever
\* rotations, chunks and calls of ReopenLog there were (write and reopen of
\* cri_logger.rs and json_logger.rs).
THEOREM RecentLinesCorrect == Spec => []RecentLinesKept
  BY Invariance, PTL DEF Inv

\* ReopenLog after a rename loses no line: there is none in the buffer when the
\* write lock is free (write, reopen).
THEOREM ReopenCorrect == Spec => ReopenLosesNothing
  <1>1. Inv /\ [Next]_vars =>
          [ReopenLog /\ renamed /\ state = "ok" => saved' \o Held' = saved \o Held]_vars
    <2> SUFFICES ASSUME Inv, ReopenLog, renamed, state = "ok"
                 PROVE  saved' \o Held' = saved \o Held
      OBVIOUS
    <2>1. buffer = <<>>
      BY DEF Inv, FlushInv, ReopenLog
    <2>2. saved' = saved \o current /\ Held' = <<>> \o <<>>
      BY DEF ReopenLog, Open, Held
    <2>3. /\ <<>> \o <<>> = <<>> /\ current \o <<>> = current
          /\ (saved \o current) \o <<>> = saved \o current
      BY EmptySeq, ConcatEmptySeq, ConcatProperties DEF Inv, TypeOK
    <2> QED BY <2>1, <2>2, <2>3 DEF Held
  <1> QED BY <1>1, Invariance, PTL DEF Spec, ReopenLosesNothing

\* The file exceeds the maximum by no more than its first line, for every
\* header, maximum and length of lines (the test of new_bytes_written in write
\* of cri_logger.rs and json_logger.rs).
THEOREM OvershootCorrect == Spec => []OvershootBounded
  <1>1. Init => SizeInv
    <2>1. Init => Held = <<>>
      BY EmptySeq, ConcatEmptySeq DEF Init, Held
    <2> QED BY <2>1, InitInv, SizeEmpty DEF Inv
  <1>2. Inv /\ SizeInv /\ [Next]_vars => SizeInv'
    BY SizeStep
  <1>3. SizeInv => OvershootBounded
    BY DEF SizeInv, SizeBound, First, OvershootBounded
  <1> QED BY <1>1, <1>2, <1>3, Invariance, PTL DEF Spec

=============================================================================
