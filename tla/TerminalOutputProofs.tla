------------------------ MODULE TerminalOutputProofs ------------------------
(***************************************************************************)
(* For all streams, chunks, reads and limits: the output path keeps its    *)
(* types, raw reads are exact, terminal queries are answered, and the      *)
(* incremental parser, fed from a ring buffer through cursors, implements  *)
(* CommandStream.                                                          *)
(*                                                                         *)
(* The parser's invariant has two parts.  Honest holds whatever was lost:  *)
(* it says what the symbols put aside tell about how far the stream was    *)
(* read.  Exact holds while nothing was lost: it says for every position   *)
(* of the stream in which phase the parser is and what it has stored and   *)
(* still holds.  Both are kept by every symbol (Take) and by the flush of  *)
(* a long line, hence, by induction over the symbols of a read, by feed.   *)
(***************************************************************************)
EXTENDS TerminalOutput, WellFoundedInduction, SequenceTheorems, FiniteSetTheorems, TLAPS

-----------------------------------------------------------------------------
(* Sequences, induction and escape sequences.                              *)

\* The newest part of a sequence is its end, of the length allowed.
LEMMA NewestProperties ==
  ASSUME NEW S, NEW s \in Seq(S), NEW m \in Nat
  PROVE  /\ Newest(s, m) \in Seq(S)
         /\ Len(Newest(s, m)) = (IF Len(s) > m THEN m ELSE Len(s))
         /\ \A i \in 1..Len(Newest(s, m)) :
              Newest(s, m)[i] = s[Len(s) - Len(Newest(s, m)) + i]
<1>1. CASE Len(s) > m
  <2>1. Newest(s, m) = SubSeq(s, Len(s) - m + 1, Len(s))
    BY <1>1 DEF Newest
  <2>2. Len(s) \in Nat /\ Len(s) - m + 1 \in 1..Len(s) + 1 /\ Len(s) - m + 1 \in Int
    BY <1>1, LenProperties
  <2>3. \A i \in Len(s) - m + 1 .. Len(s) : s[i] \in S
    BY <2>2
  <2>4. /\ SubSeq(s, Len(s) - m + 1, Len(s)) \in Seq(S)
        /\ Len(SubSeq(s, Len(s) - m + 1, Len(s))) = m
        /\ \A i \in 1..m : SubSeq(s, Len(s) - m + 1, Len(s))[i] = s[Len(s) - m + i]
    BY <2>2, <2>3
  <2> QED BY <2>1, <2>4, <1>1
<1>2. CASE ~ (Len(s) > m)
  BY <1>2, LenProperties DEF Newest
<1> QED BY <1>1, <1>2

\* Indices counted from the end of two sequences.
LEMMA Shift ==
  ASSUME NEW t \in Nat, NEW s \in Nat, NEW d \in Nat, NEW l \in Nat, NEW i \in 1..l,
         l <= t + d, l <= s + d
  PROVE  /\ t + d - l + i \in 1..t + d
         /\ s + d - l + i \in 1..s + d
         /\ (s + d - l + i) - s = (t + d - l + i) - t
         /\ t + d - l + i <= t => t + d - l + i \in 1..t /\ (t <= s => s + d - l + i <= s)
         /\ ~ (t + d - l + i <= t) => ~ (s + d - l + i <= s)
         /\ s - t + (t + d - l + i) = s + d - l + i
  OBVIOUS

\* Cutting twice cuts as cutting once; this is what makes incremental storing exact.
LEMMA NewestConcat ==
  ASSUME NEW S, NEW s \in Seq(S), NEW d \in Seq(S), NEW m \in Nat
  PROVE  /\ Newest(Newest(s, m) \o d, m) = Newest(s \o d, m)
         /\ (Len(s) > m \/ Len(Newest(s, m) \o d) > m) <=> Len(s \o d) > m
<1> DEFINE t == Newest(s, m)
           left == Newest(t \o d, m)
           right == Newest(s \o d, m)
<1>1. /\ t \in Seq(S)
      /\ Len(t) = (IF Len(s) > m THEN m ELSE Len(s))
      /\ \A i \in 1..Len(t) : t[i] = s[Len(s) - Len(t) + i]
  BY NewestProperties
<1> HIDE DEF t
<1>2. /\ t \o d \in Seq(S) /\ Len(t \o d) = Len(t) + Len(d)
      /\ \A i \in 1..Len(t) + Len(d) : (t \o d)[i] = IF i <= Len(t) THEN t[i] ELSE d[i - Len(t)]
  BY <1>1, ConcatProperties
<1>3. /\ s \o d \in Seq(S) /\ Len(s \o d) = Len(s) + Len(d)
      /\ \A i \in 1..Len(s) + Len(d) : (s \o d)[i] = IF i <= Len(s) THEN s[i] ELSE d[i - Len(s)]
  BY ConcatProperties
<1>4. Len(s) \in Nat /\ Len(d) \in Nat /\ Len(t) \in Nat
  BY <1>1, LenProperties
<1>5. /\ left \in Seq(S)
      /\ Len(left) = (IF Len(t \o d) > m THEN m ELSE Len(t \o d))
      /\ \A i \in 1..Len(left) : left[i] = (t \o d)[Len(t \o d) - Len(left) + i]
  BY <1>2, NewestProperties
<1>6. /\ right \in Seq(S)
      /\ Len(right) = (IF Len(s \o d) > m THEN m ELSE Len(s \o d))
      /\ \A i \in 1..Len(right) : right[i] = (s \o d)[Len(s \o d) - Len(right) + i]
  BY <1>3, NewestProperties
<1> HIDE DEF left, right
<1>7. Len(left) = Len(right)
  BY <1>1, <1>2, <1>3, <1>4, <1>5, <1>6
<1>8. \A i \in 1..Len(left) : left[i] = right[i]
  <2> SUFFICES ASSUME NEW i \in 1..Len(left) PROVE left[i] = right[i]
    OBVIOUS
  <2> DEFINE j == Len(t) + Len(d) - Len(left) + i
             k == Len(s) + Len(d) - Len(left) + i
  <2>1. Len(left) \in Nat /\ Len(left) <= Len(t) + Len(d) /\ Len(left) <= Len(s) + Len(d)
    BY <1>1, <1>2, <1>3, <1>4, <1>5
  <2>2. j \in 1..Len(t) + Len(d) /\ k \in 1..Len(s) + Len(d) /\ k - Len(s) = j - Len(t)
    BY <1>4, <2>1, Shift
  <2>3. left[i] = (t \o d)[j] /\ right[i] = (s \o d)[k]
    <3>1. left[i] = (t \o d)[Len(t \o d) - Len(left) + i]
      BY <1>5
    <3>2. right[i] = (s \o d)[Len(s \o d) - Len(right) + i]
      BY <1>6, <1>7
    <3>3. Len(t \o d) - Len(left) + i = j /\ Len(s \o d) - Len(right) + i = k
      BY <1>2, <1>3, <1>7
    <3> QED BY <3>1, <3>2, <3>3
  <2>4. (t \o d)[j] = (s \o d)[k]
    <3>1. CASE j <= Len(t)
      <4>1. j \in 1..Len(t) /\ k <= Len(s)
        BY <2>1, <3>1, <1>4, <1>1, Shift
      <4>2. t[j] = s[Len(s) - Len(t) + j] /\ Len(s) - Len(t) + j = k
        <5>1. Len(s) - Len(t) + j = k
          BY <1>4, <2>1
        <5> HIDE DEF j, k
        <5> QED BY <1>1, <4>1, <5>1
      <4> QED BY <1>2, <1>3, <2>2, <3>1, <4>1, <4>2
    <3>2. CASE ~ (j <= Len(t))
      <4>1. ~ (k <= Len(s))
        BY <2>2, <3>2, <1>4
      <4> QED BY <1>2, <1>3, <2>2, <3>2, <4>1
    <3> QED BY <3>1, <3>2
  <2> QED BY <2>3, <2>4
<1>9. left = right
  BY <1>5, <1>6, <1>7, <1>8, SeqEqual
<1>10. (Len(s) > m \/ Len(t \o d) > m) <=> Len(s \o d) > m
  BY <1>1, <1>2, <1>3, <1>4
<1> QED BY <1>9, <1>10 DEF t, left, right

-----------------------------------------------------------------------------
\* Induction over the natural numbers, for a set, from the least number principle.
LEMMA SetInduction ==
  ASSUME NEW S, 0 \in S, \A n \in Nat : n \in S => n + 1 \in S
  PROVE  Nat \subseteq S
<1>1. SUFFICES ASSUME NEW m \in Nat, m \notin S PROVE FALSE
  OBVIOUS
<1> DEFINE T == {n \in Nat : n \notin S}
           R == OpToRel(<, Nat)
<1>2. IsWellFoundedOn(R, Nat)
  BY NatLessThanWellFounded
<1>3. T \subseteq Nat /\ T # {}
  BY <1>1
<1>4. \E x \in T : \A y \in T : ~ (<<y, x>> \in R)
  <2> HIDE DEF T, R
  <2> QED BY <1>2, <1>3, WFMin
<1>5. PICK x \in T : \A y \in T : ~ (<<y, x>> \in R)
  BY <1>4
<1>6. x \in Nat /\ x \notin S /\ x # 0
  BY <1>5
<1>7. x - 1 \in Nat /\ x - 1 \notin S
  <2>1. x - 1 \in Nat /\ (x - 1) + 1 = x
    BY <1>6
  <2> QED BY <2>1, <1>6
<1>8. <<x - 1, x>> \in R
  BY <1>6, <1>7 DEF OpToRel
<1> QED BY <1>5, <1>7, <1>8

\* The table of the recursion that Plain is.
IsPlainTable(f, s, n) ==
  f = [i \in 0..n |-> IF i = 0 THEN <<>> ELSE Stripped(f[i - 1], s[i])]

\* The table of a recursion over the symbols of s exists.
LEMMA PlainTableExists ==
  ASSUME NEW s
  PROVE  \A n \in Nat : \E f : IsPlainTable(f, s, n)
<1> DEFINE S == {n \in Nat : \E f : IsPlainTable(f, s, n)}
<1>1. 0 \in S
  <2> DEFINE f == [i \in 0..0 |-> <<>>]
  <2>1. IsPlainTable(f, s, 0)
    BY DEF IsPlainTable
  <2> QED BY <2>1
<1>2. ASSUME NEW n \in Nat, n \in S PROVE n + 1 \in S
  <2>1. PICK f : IsPlainTable(f, s, n)
    BY <1>2
  <2> DEFINE g == [i \in 0..n + 1 |-> IF i = n + 1 THEN Stripped(f[n], s[n + 1]) ELSE f[i]]
  <2>2. \A i \in 0..n : g[i] = f[i]
    OBVIOUS
  <2>3. \A i \in 0..n : f[i] = IF i = 0 THEN <<>> ELSE Stripped(f[i - 1], s[i])
    BY <2>1 DEF IsPlainTable
  <2>4. ASSUME NEW i \in 0..n + 1
        PROVE  g[i] = IF i = 0 THEN <<>> ELSE Stripped(g[i - 1], s[i])
    <3>1. CASE i = n + 1
      <4>1. i # 0 /\ i - 1 = n /\ i - 1 \in 0..n
        BY <3>1
      <4> QED BY <3>1, <4>1, <2>2
    <3>2. CASE i # n + 1
      <4>1. i \in 0..n /\ (i # 0 => i - 1 \in 0..n)
        BY <3>2
      <4> QED BY <4>1, <2>2, <2>3
    <3> QED BY <3>1, <3>2
  <2>5. IsPlainTable(g, s, n + 1)
    <3>1. g = [i \in 0..n + 1 |-> g[i]]
      OBVIOUS
    <3> HIDE DEF g
    <3> QED BY <3>1, <2>4 DEF IsPlainTable
  <2> QED BY <2>5
<1>3. Nat \subseteq S
  <2> HIDE DEF S
  <2> QED BY <1>1, <1>2, SetInduction
<1> QED BY <1>3

\* Plain is the last entry of its table.
LEMMA PlainByTable ==
  ASSUME NEW s, Len(s) \in Nat
  PROVE  \E f : IsPlainTable(f, s, Len(s)) /\ Plain(s) = f[Len(s)]
<1> DEFINE f == CHOOSE f : IsPlainTable(f, s, Len(s))
<1>1. IsPlainTable(f, s, Len(s))
  BY PlainTableExists
<1>2. Plain(s) = f[Len(s)]
  BY DEF Plain, IsPlainTable
<1> QED BY <1>1, <1>2

\* An entry follows from the one before it.
LEMMA PlainTableSteps ==
  ASSUME NEW s, NEW f, NEW n \in Nat, IsPlainTable(f, s, n)
  PROVE  /\ f[0] = <<>>
         /\ \A i \in 0..n - 1 : f[i + 1] = Stripped(f[i], s[i + 1])
<1>1. \A i \in 0..n : f[i] = IF i = 0 THEN <<>> ELSE Stripped(f[i - 1], s[i])
  BY DEF IsPlainTable
<1>2. f[0] = <<>>
  <2>1. 0 \in 0..n
    OBVIOUS
  <2> QED BY <2>1, <1>1
<1>3. ASSUME NEW i \in 0..n - 1 PROVE f[i + 1] = Stripped(f[i], s[i + 1])
  <2>1. i + 1 \in 0..n /\ i + 1 # 0 /\ (i + 1) - 1 = i
    OBVIOUS
  <2> QED BY <2>1, <1>1
<1> QED BY <1>2, <1>3

\* The symbols of t are symbols of s up to n, in the same order.
Drawn(t, s, n) ==
  /\ \A i \in 1..Len(t) : \E k \in 1..n : s[k] = t[i]
  /\ \A i, j \in 1..Len(t) : i < j =>
       \E k, l \in 1..n : k < l /\ s[k] = t[i] /\ s[l] = t[j]

\* One symbol more.
LEMMA StrippedDrawn ==
  ASSUME NEW S, NEW s, NEW n \in Nat, NEW t \in Seq(S), s[n + 1] \in S, Drawn(t, s, n)
  PROVE  Stripped(t, s[n + 1]) \in Seq(S) /\ Drawn(Stripped(t, s[n + 1]), s, n + 1)
<1> DEFINE u == Stripped(t, s[n + 1])
<1>0. Len(t) \in Nat /\ \A i \in 1..n : i \in 1..n + 1
  OBVIOUS
<1>1. CASE s[n + 1] = Escape[2] /\ t # <<>> /\ Last(t) = Escape[1]
  <2>1. u = SubSeq(t, 1, Len(t) - 1)
    BY <1>1 DEF Stripped, Front
  <2>2. Len(t) - 1 \in Nat /\ Len(t) - 1 <= Len(t)
    BY <1>1, EmptySeq
  <2>3. /\ u \in Seq(S) /\ Len(u) = Len(t) - 1
        /\ \A i \in 1..Len(u) : i \in 1..Len(t) /\ u[i] = t[i]
    <3>1. \A i \in 1..Len(t) - 1 : i \in 1..Len(t) /\ t[i] \in S
      BY <2>2
    <3>2. /\ u \in Seq(S) /\ Len(u) = Len(t) - 1
          /\ \A i \in 1..Len(t) - 1 : u[i] = t[i]
      <4>1. /\ SubSeq(t, 1, Len(t) - 1) \in Seq(S)
            /\ Len(SubSeq(t, 1, Len(t) - 1))
                 = IF 1 <= Len(t) - 1 THEN (Len(t) - 1) - 1 + 1 ELSE 0
            /\ \A i \in 1..(Len(t) - 1) - 1 + 1 :
                 SubSeq(t, 1, Len(t) - 1)[i] = t[1 + i - 1]
        BY <3>1, <2>2, SubSeqProperties
      <4>2. (Len(t) - 1) - 1 + 1 = Len(t) - 1
        BY <2>2
      <4> HIDE DEF u
      <4> QED BY <4>1, <4>2, <2>1, <2>2
    <3> QED BY <3>1, <3>2
  <2> HIDE DEF u
  <2>4. ASSUME NEW i \in 1..Len(u) PROVE \E k \in 1..n + 1 : s[k] = u[i]
    BY <2>3, <1>0 DEF Drawn
  <2>5. ASSUME NEW i \in 1..Len(u), NEW j \in 1..Len(u), i < j
        PROVE  \E k, l \in 1..n + 1 : k < l /\ s[k] = u[i] /\ s[l] = u[j]
    <3>1. PICK k \in 1..n, l \in 1..n : k < l /\ s[k] = t[i] /\ s[l] = t[j]
      BY <2>3, <2>5 DEF Drawn
    <3> QED BY <3>1, <2>3, <1>0
  <2>6. Drawn(u, s, n + 1)
    BY <2>4, <2>5 DEF Drawn
  <2> QED BY <2>3, <2>6 DEF u
<1>2. CASE ~ (s[n + 1] = Escape[2] /\ t # <<>> /\ Last(t) = Escape[1])
  <2>1. u = Append(t, s[n + 1])
    BY <1>2 DEF Stripped
  <2>3. /\ u \in Seq(S) /\ Len(u) = Len(t) + 1
        /\ u[Len(t) + 1] = s[n + 1]
        /\ \A i \in 1..Len(t) : u[i] = t[i]
    BY <2>1, <1>0
  <2> HIDE DEF u
  <2>4. ASSUME NEW i \in 1..Len(u) PROVE \E k \in 1..n + 1 : s[k] = u[i]
    <3>1. CASE i = Len(t) + 1
      BY <3>1, <2>3
    <3>2. CASE i # Len(t) + 1
      <4>1. i \in 1..Len(t)
        BY <3>2, <2>3, <1>0
      <4> QED BY SMTT(30), <4>1, <2>3, <1>0 DEF Drawn
    <3> QED BY <3>1, <3>2
  <2>5. ASSUME NEW i \in 1..Len(u), NEW j \in 1..Len(u), i < j
        PROVE  \E k, l \in 1..n + 1 : k < l /\ s[k] = u[i] /\ s[l] = u[j]
    <3>0. i \in 1..Len(t)
      BY <2>5, <2>3, <1>0
    <3>1. CASE j = Len(t) + 1
      <4>1. PICK k \in 1..n : s[k] = t[i]
        BY <3>0 DEF Drawn
      <4>2. k \in 1..n + 1 /\ n + 1 \in 1..n + 1 /\ k < n + 1
        BY <4>1
      <4> QED BY <4>1, <4>2, <2>3, <3>0, <3>1
    <3>2. CASE j # Len(t) + 1
      <4>1. j \in 1..Len(t)
        BY <3>2, <2>3, <1>0
      <4>2. PICK k \in 1..n, l \in 1..n : k < l /\ s[k] = t[i] /\ s[l] = t[j]
        BY <3>0, <4>1, <2>5 DEF Drawn
      <4> QED BY <4>2, <2>3, <3>0, <4>1, <1>0
    <3> QED BY <3>1, <3>2
  <2>6. Drawn(u, s, n + 1)
    BY <2>4, <2>5 DEF Drawn
  <2> QED BY <2>3, <2>6 DEF u
<1> QED BY <1>1, <1>2

\* All entries of the table.
LEMMA PlainTableDrawn ==
  ASSUME NEW S, NEW s \in Seq(S), NEW f, IsPlainTable(f, s, Len(s))
  PROVE  \A n \in 0..Len(s) : f[n] \in Seq(S) /\ Drawn(f[n], s, n)
<1>2. /\ f[0] = <<>>
      /\ \A i \in 0..Len(s) - 1 : f[i + 1] = Stripped(f[i], s[i + 1])
  BY PlainTableSteps
<1> DEFINE I == {n \in Nat : n <= Len(s) => f[n] \in Seq(S) /\ Drawn(f[n], s, n)}
<1>3. 0 \in I
  <2>1. <<>> \in Seq(S) /\ Len(<<>>) = 0 /\ 1..0 = {}
    OBVIOUS
  <2>2. Drawn(<<>>, s, 0)
    BY <2>1 DEF Drawn
  <2> QED BY <1>2, <2>1, <2>2
<1>4. ASSUME NEW n \in Nat, n \in I PROVE n + 1 \in I
  <2>1. SUFFICES ASSUME n + 1 <= Len(s) PROVE f[n + 1] \in Seq(S) /\ Drawn(f[n + 1], s, n + 1)
    OBVIOUS
  <2>2. n \in 0..Len(s) - 1 /\ n + 1 \in 1..Len(s) /\ n <= Len(s)
    BY <2>1
  <2>3. s[n + 1] \in S
    BY <2>2
  <2>4. f[n] \in Seq(S) /\ Drawn(f[n], s, n)
    BY <1>4, <2>2
  <2> QED BY <2>2, <2>3, <2>4, <1>2, StrippedDrawn
<1>5. Nat \subseteq I
  <2> HIDE DEF I
  <2> QED BY <1>3, <1>4, SetInduction
<1> QED BY <1>5

\* Removing escape sequences only leaves symbols out.
LEMMA PlainDrawn ==
  ASSUME NEW S, NEW s \in Seq(S)
  PROVE  Plain(s) \in Seq(S) /\ Drawn(Plain(s), s, Len(s))
  BY PlainByTable, PlainTableDrawn

\* A text without the end of an escape sequence stays as it is.
LEMMA PlainOfPlain ==
  ASSUME NEW S, NEW s \in Seq(S), \A i \in 1..Len(s) : s[i] # Escape[2]
  PROVE  Plain(s) = s
<1>1. PICK f : IsPlainTable(f, s, Len(s)) /\ Plain(s) = f[Len(s)]
  BY PlainByTable
<1>2. /\ f[0] = <<>>
      /\ \A i \in 0..Len(s) - 1 : f[i + 1] = Stripped(f[i], s[i + 1])
  BY <1>1, PlainTableSteps
<1> DEFINE I == {n \in Nat : n <= Len(s) => f[n] = SubSeq(s, 1, n)}
<1>3. 0 \in I
  <2>1. SubSeq(s, 1, 0) = <<>>
    BY SubSeqEmpty
  <2> QED BY <1>2, <2>1
<1>4. ASSUME NEW n \in Nat, n \in I PROVE n + 1 \in I
  <2>1. SUFFICES ASSUME n + 1 <= Len(s) PROVE f[n + 1] = SubSeq(s, 1, n + 1)
    OBVIOUS
  <2>2. n \in 0..Len(s) - 1 /\ n + 1 \in 1..Len(s) /\ n <= Len(s)
    BY <2>1
  <2>3. f[n + 1] = Append(SubSeq(s, 1, n), s[n + 1])
    BY <2>2, <1>2, <1>4 DEF Stripped
  <2>4. Append(SubSeq(s, 1, n), s[n + 1]) = SubSeq(s, 1, n + 1)
    BY <2>2
  <2> QED BY <2>3, <2>4
<1>5. Nat \subseteq I
  <2> HIDE DEF I
  <2> QED BY <1>3, <1>4, SetInduction
<1>6. f[Len(s)] = SubSeq(s, 1, Len(s))
  BY <1>5
<1> QED BY <1>1, <1>6, SubSeqFull

\* A text that ends with another symbol is not removed as a whole.
LEMMA PlainNonEmpty ==
  ASSUME NEW S, NEW s \in Seq(S), s # <<>>, Last(s) # Escape[2]
  PROVE  Plain(s) # <<>>
<1>1. PICK f : IsPlainTable(f, s, Len(s)) /\ Plain(s) = f[Len(s)]
  BY PlainByTable
<1>2. \A i \in 0..Len(s) - 1 : f[i + 1] = Stripped(f[i], s[i + 1])
  BY <1>1, PlainTableSteps
<1>3. Len(s) \in Nat /\ Len(s) - 1 \in 0..Len(s) - 1 /\ (Len(s) - 1) + 1 = Len(s)
  BY EmptySeq
<1>4. f[Len(s)] = Append(f[Len(s) - 1], s[Len(s)])
  BY <1>2, <1>3 DEF Stripped, Last
<1>5. f[Len(s) - 1] \in Seq(S)
  BY <1>1, <1>3, PlainTableDrawn
<1> QED BY <1>1, <1>4, <1>5

-----------------------------------------------------------------------------
(* The operations of the parser.                                           *)

\* The parsers there are.
ParserType ==
  [scan : Seq(Alphabet), started : BOOLEAN, debug : {"unseen", "inside", "seen"},
   exit : {None, "0", "1"}, cwd : BOOLEAN, line : Seq(Alphabet) \union {None},
   output : Seq(Alphabet), truncated : BOOLEAN, verdict : {"open", "invalid", "complete"}]

\* q is the parser p with one field set.
WithScan(p, q, v) ==
  /\ q \in ParserType /\ q.scan = v
  /\ q.started = p.started /\ q.debug = p.debug /\ q.exit = p.exit /\ q.cwd = p.cwd
  /\ q.line = p.line /\ q.output = p.output /\ q.truncated = p.truncated /\ q.verdict = p.verdict
WithStarted(p, q, v) ==
  /\ q \in ParserType /\ q.started = v
  /\ q.scan = p.scan /\ q.debug = p.debug /\ q.exit = p.exit /\ q.cwd = p.cwd
  /\ q.line = p.line /\ q.output = p.output /\ q.truncated = p.truncated /\ q.verdict = p.verdict
WithDebug(p, q, v) ==
  /\ q \in ParserType /\ q.debug = v
  /\ q.scan = p.scan /\ q.started = p.started /\ q.exit = p.exit /\ q.cwd = p.cwd
  /\ q.line = p.line /\ q.output = p.output /\ q.truncated = p.truncated /\ q.verdict = p.verdict
WithExit(p, q, v) ==
  /\ q \in ParserType /\ q.exit = v
  /\ q.scan = p.scan /\ q.started = p.started /\ q.debug = p.debug /\ q.cwd = p.cwd
  /\ q.line = p.line /\ q.output = p.output /\ q.truncated = p.truncated /\ q.verdict = p.verdict
WithCwd(p, q, v) ==
  /\ q \in ParserType /\ q.cwd = v
  /\ q.scan = p.scan /\ q.started = p.started /\ q.debug = p.debug /\ q.exit = p.exit
  /\ q.line = p.line /\ q.output = p.output /\ q.truncated = p.truncated /\ q.verdict = p.verdict
WithLine(p, q, v) ==
  /\ q \in ParserType /\ q.line = v
  /\ q.scan = p.scan /\ q.started = p.started /\ q.debug = p.debug /\ q.exit = p.exit
  /\ q.cwd = p.cwd /\ q.output = p.output /\ q.truncated = p.truncated /\ q.verdict = p.verdict
WithVerdict(p, q, v) ==
  /\ q \in ParserType /\ q.verdict = v
  /\ q.scan = p.scan /\ q.started = p.started /\ q.debug = p.debug /\ q.exit = p.exit
  /\ q.cwd = p.cwd /\ q.line = p.line /\ q.output = p.output /\ q.truncated = p.truncated

\* Setting one field of a parser leaves the others alone.
LEMMA SetScan == \A p \in ParserType : \A v \in Seq(Alphabet) : WithScan(p, [p EXCEPT !.scan = v], v)
  BY DEF ParserType, WithScan
LEMMA SetStarted == \A p \in ParserType : \A v \in BOOLEAN : WithStarted(p, [p EXCEPT !.started = v], v)
  BY DEF ParserType, WithStarted
LEMMA SetDebug == \A p \in ParserType : \A v \in {"unseen", "inside", "seen"} : WithDebug(p, [p EXCEPT !.debug = v], v)
  BY DEF ParserType, WithDebug
LEMMA SetExit == \A p \in ParserType : \A v \in {None, "0", "1"} : WithExit(p, [p EXCEPT !.exit = v], v)
  BY DEF ParserType, WithExit
LEMMA SetCwd == \A p \in ParserType : \A v \in BOOLEAN : WithCwd(p, [p EXCEPT !.cwd = v], v)
  BY ZenonT(40) DEF ParserType, WithCwd
LEMMA SetLine == \A p \in ParserType : \A v \in Seq(Alphabet) \union {None} : WithLine(p, [p EXCEPT !.line = v], v)
  BY DEF ParserType, WithLine
LEMMA SetVerdict == \A p \in ParserType : \A v \in {"open", "invalid", "complete"} : WithVerdict(p, [p EXCEPT !.verdict = v], v)
  BY DEF ParserType, WithVerdict

\* _store_output changes the output and its truncated flag only.
LEMMA StoreOutput ==
  ASSUME NEW p \in ParserType, NEW d \in Seq(Alphabet)
  PROVE  /\ _store_output(p, d) \in ParserType
         /\ _store_output(p, d).output = Newest(p.output \o d, MaxBytes)
         /\ _store_output(p, d).truncated = (p.truncated \/ Len(p.output \o d) > MaxBytes)
         /\ _store_output(p, d).scan = p.scan
         /\ _store_output(p, d).started = p.started
         /\ _store_output(p, d).debug = p.debug
         /\ _store_output(p, d).exit = p.exit
         /\ _store_output(p, d).cwd = p.cwd
         /\ _store_output(p, d).line = p.line
         /\ _store_output(p, d).verdict = p.verdict
<1>1. p.output \o d \in Seq(Alphabet) /\ Newest(p.output \o d, MaxBytes) \in Seq(Alphabet)
  <2>1. p.output \in Seq(Alphabet) /\ MaxBytes \in Nat
    BY MaxBytesAssumption DEF ParserType
  <2>2. p.output \o d \in Seq(Alphabet)
    BY <2>1, ConcatProperties
  <2> QED BY <2>1, <2>2, NewestProperties
<1>2. (p.truncated \/ Len(p.output \o d) > MaxBytes) \in BOOLEAN
  OBVIOUS
<1>3. ASSUME NEW o \in Seq(Alphabet), NEW t \in BOOLEAN
      PROVE  /\ [p EXCEPT !.output = o, !.truncated = t] \in ParserType
             /\ [p EXCEPT !.output = o, !.truncated = t].output = o
             /\ [p EXCEPT !.output = o, !.truncated = t].truncated = t
             /\ [p EXCEPT !.output = o, !.truncated = t].scan = p.scan
             /\ [p EXCEPT !.output = o, !.truncated = t].started = p.started
             /\ [p EXCEPT !.output = o, !.truncated = t].debug = p.debug
             /\ [p EXCEPT !.output = o, !.truncated = t].exit = p.exit
             /\ [p EXCEPT !.output = o, !.truncated = t].cwd = p.cwd
             /\ [p EXCEPT !.output = o, !.truncated = t].line = p.line
             /\ [p EXCEPT !.output = o, !.truncated = t].verdict = p.verdict
  BY DEF ParserType
<1> QED BY ZenonT(40), <1>1, <1>2, <1>3 DEF _store_output

\* What becomes of the parser when the text s is stored.
Stores(p, q, s) ==
  /\ q.output = Newest(p.output \o s, MaxBytes)
  /\ q.truncated = (p.truncated \/ Len(p.output \o s) > MaxBytes)
Unstored(p, q) == q.output = p.output /\ q.truncated = p.truncated
\* The fields that storing leaves alone.
Behind(p, q) ==
  /\ q.scan = p.scan /\ q.started = p.started /\ q.debug = p.debug
  /\ q.exit = p.exit /\ q.cwd = p.cwd /\ q.verdict = p.verdict

\* _flush_final_output_line stores the line kept back, without its newline.
LEMMA FlushFinal ==
  ASSUME NEW p \in ParserType
  PROVE  /\ _flush_final_output_line(p) \in ParserType
         /\ _flush_final_output_line(p).line = None
         /\ Behind(p, _flush_final_output_line(p))
         /\ p.line = None => Unstored(p, _flush_final_output_line(p))
         /\ p.line # None => Stores(p, _flush_final_output_line(p), p.line)
<1>1. CASE p.line = None
  BY <1>1 DEF _flush_final_output_line, Behind, Unstored
<1>2. CASE p.line # None
  <2> DEFINE r == _store_output(p, p.line)
             q == [r EXCEPT !.line = None]
  <2>1. p.line \in Seq(Alphabet)
    BY <1>2 DEF ParserType
  <2>2. r \in ParserType /\ Behind(p, r) /\ Stores(p, r, p.line)
    BY <2>1, StoreOutput DEF Behind, Stores
  <2> HIDE DEF r
  <2>3. q \in ParserType /\ q.line = None /\ Behind(r, q) /\ Unstored(r, q)
    BY ZenonT(40), <2>2, SetLine DEF Behind, Unstored, WithLine
  <2>4. q = _flush_final_output_line(p)
    BY <1>2 DEF _flush_final_output_line, r
  <2> HIDE DEF q
  <2>5. Behind(p, q) /\ Stores(p, q, p.line)
    BY <2>2, <2>3 DEF Behind, Stores, Unstored
  <2> QED BY <2>3, <2>4, <2>5, <1>2
<1> QED BY <1>1, <1>2

\* A line kept back that is output after all is stored with its newline.
LEMMA StoresPending ==
  ASSUME NEW p \in ParserType
  PROVE  /\ StorePending(p) \in ParserType
         /\ StorePending(p).line = None
         /\ Behind(p, StorePending(p))
         /\ p.line = None => Unstored(p, StorePending(p))
         /\ p.line # None => Stores(p, StorePending(p), Append(p.line, NewLine))
<1>1. CASE p.line = None
  BY <1>1 DEF StorePending, Behind, Unstored
<1>2. CASE p.line # None
  <2> DEFINE r == _store_output(p, Line(p.line))
             q == [r EXCEPT !.line = None]
  <2>1. Append(p.line, NewLine) \in Seq(Alphabet)
    BY <1>2 DEF ParserType, Alphabet
  <2>2. r \in ParserType /\ Behind(p, r) /\ Stores(p, r, Append(p.line, NewLine))
    BY <2>1, StoreOutput DEF Behind, Stores, Line
  <2> HIDE DEF r
  <2>3. q \in ParserType /\ q.line = None /\ Behind(r, q) /\ Unstored(r, q)
    BY ZenonT(40), <2>2, SetLine DEF Behind, Unstored, WithLine
  <2>4. q = StorePending(p)
    BY <1>2 DEF StorePending, r
  <2> HIDE DEF q
  <2>5. Behind(p, q) /\ Stores(p, q, Append(p.line, NewLine))
    BY <2>2, <2>3 DEF Behind, Stores, Unstored
  <2> QED BY <2>3, <2>4, <2>5, <1>2
<1> QED BY <1>1, <1>2

\* A symbol that ends no line is put aside.
LEMMA TakeSymbol ==
  ASSUME NEW p \in ParserType, NEW c \in Alphabet, p.verdict = "open", c # NewLine
  PROVE  LET q == Take(p, c) IN
         /\ q \in ParserType
         /\ q.scan = Append(p.scan, c) /\ q.line = p.line /\ Unstored(p, q)
         /\ q.started = p.started /\ q.debug = p.debug /\ q.exit = p.exit
         /\ q.cwd = p.cwd /\ q.verdict = p.verdict
<1>1. Append(p.scan, c) \in Seq(Alphabet)
  BY DEF ParserType
<1>2. Take(p, c) = [p EXCEPT !.scan = Append(p.scan, c)]
  BY DEF Take, ParserType
<1>3. WithScan(p, Take(p, c), Append(p.scan, c))
  BY <1>1, <1>2, SetScan
<1> QED BY <1>3 DEF Unstored, WithScan

\* A line before the frame's first.
LEMMA ConsumeBefore ==
  ASSUME NEW p \in ParserType, ~p.started
  PROVE  LET q == _consume_line(p)
             line == Plain(p.scan) IN
         /\ q \in ParserType /\ q.scan = <<>> /\ q.line = p.line /\ Unstored(p, q)
         /\ q.exit = p.exit /\ q.cwd = p.cwd /\ q.debug = p.debug
         /\ (q.started <=> line = Begin)
         /\ (IF line # Begin /\ IsPrefix(Begin, line) THEN q.verdict = "invalid" ELSE q.verdict = p.verdict)
<1> DEFINE r == [p EXCEPT !.scan = <<>>]
<1>1. /\ r \in ParserType /\ r.scan = <<>> /\ Unstored(p, r) /\ r.line = p.line
      /\ r.exit = p.exit /\ r.cwd = p.cwd /\ r.debug = p.debug
      /\ r.started = p.started /\ r.verdict = p.verdict
  <2>1. <<>> \in Seq(Alphabet)
    OBVIOUS
  <2>2. WithScan(p, r, <<>>)
    BY <2>1, SetScan
  <2> HIDE DEF r
  <2> QED BY <2>2 DEF Unstored, WithScan
<1>2. _consume_line(p) = IF Plain(p.scan) = Begin THEN [r EXCEPT !.started = TRUE]
                         ELSE IF IsPrefix(Begin, Plain(p.scan)) THEN Invalid(r) ELSE r
  BY DEF _consume_line
<1> HIDE DEF r
<1>3. CASE Plain(p.scan) = Begin
  <2> DEFINE q == [r EXCEPT !.started = TRUE]
  <2>1. /\ q \in ParserType /\ q.scan = <<>> /\ Unstored(p, q) /\ q.line = p.line
        /\ q.exit = p.exit /\ q.cwd = p.cwd /\ q.debug = p.debug
        /\ q.started = TRUE /\ q.verdict = p.verdict
    BY <1>1, SetStarted DEF Unstored, WithStarted
  <2>2. _consume_line(p) = q
    BY <1>2, <1>3
  <2> HIDE DEF q
  <2> QED BY <1>3, <2>1, <2>2
<1>4. CASE Plain(p.scan) # Begin /\ IsPrefix(Begin, Plain(p.scan))
  <2> DEFINE q == Invalid(r)
  <2>1. /\ q \in ParserType /\ q.scan = <<>> /\ Unstored(p, q) /\ q.line = p.line
        /\ q.exit = p.exit /\ q.cwd = p.cwd /\ q.debug = p.debug
        /\ q.started = p.started /\ q.verdict = "invalid"
    BY <1>1, SetVerdict DEF Unstored, Invalid, WithVerdict
  <2>2. _consume_line(p) = q
    BY <1>2, <1>4
  <2> HIDE DEF q
  <2> QED BY <1>4, <2>1, <2>2
<1>5. CASE Plain(p.scan) # Begin /\ ~ IsPrefix(Begin, Plain(p.scan))
  <2>2. _consume_line(p) = r
    BY <1>2, <1>5
  <2> QED BY <1>5, <1>1, <2>2
<1> QED BY <1>3, <1>4, <1>5

\* A line within the DEBUG block: its end, an empty line, or an invalid frame.
LEMMA ConsumeInside ==
  ASSUME NEW p \in ParserType, p.started, p.exit = None, p.debug = "inside"
  PROVE  LET q == _consume_line(p)
             line == Plain(p.scan) IN
         /\ q \in ParserType /\ q.scan = <<>> /\ q.line = p.line /\ Unstored(p, q)
         /\ q.exit = p.exit /\ q.cwd = p.cwd /\ q.started = p.started
         /\ q.debug = (IF line = DebugEnd THEN "seen" ELSE "inside")
         /\ (IF line # DebugEnd /\ line # <<>> THEN q.verdict = "invalid" ELSE q.verdict = p.verdict)
<1> DEFINE r == [p EXCEPT !.scan = <<>>]
<1>1. /\ r \in ParserType /\ r.scan = <<>> /\ Unstored(p, r) /\ r.line = p.line
      /\ r.exit = p.exit /\ r.cwd = p.cwd /\ r.debug = p.debug
      /\ r.started = p.started /\ r.verdict = p.verdict
  <2>1. <<>> \in Seq(Alphabet)
    OBVIOUS
  <2>2. WithScan(p, r, <<>>)
    BY <2>1, SetScan
  <2> HIDE DEF r
  <2> QED BY <2>2 DEF Unstored, WithScan
<1>2. _consume_line(p) = ConsumeOutput(r, p.scan, Plain(p.scan))
  BY DEF _consume_line
<1> HIDE DEF r
<1>3. ConsumeOutput(r, p.scan, Plain(p.scan))
       = IF Plain(p.scan) = DebugEnd THEN [r EXCEPT !.debug = "seen"]
         ELSE IF Plain(p.scan) # <<>> THEN Invalid(r) ELSE r
  BY <1>1 DEF ConsumeOutput
<1>4. CASE Plain(p.scan) = DebugEnd
  <2> DEFINE q == [r EXCEPT !.debug = "seen"]
  <2>1. /\ q \in ParserType /\ q.scan = <<>> /\ Unstored(p, q) /\ q.line = p.line
        /\ q.exit = p.exit /\ q.cwd = p.cwd /\ q.debug = "seen"
        /\ q.started = p.started /\ q.verdict = p.verdict
    BY <1>1, SetDebug DEF Unstored, WithDebug
  <2>2. _consume_line(p) = q
    BY <1>2, <1>3, <1>4
  <2> HIDE DEF q
  <2> QED BY <1>4, <2>1, <2>2
<1>5. CASE Plain(p.scan) # DebugEnd /\ Plain(p.scan) # <<>>
  <2> DEFINE q == Invalid(r)
  <2>1. /\ q \in ParserType /\ q.scan = <<>> /\ Unstored(p, q) /\ q.line = p.line
        /\ q.exit = p.exit /\ q.cwd = p.cwd /\ q.debug = p.debug
        /\ q.started = p.started /\ q.verdict = "invalid"
    BY <1>1, SetVerdict DEF Unstored, Invalid, WithVerdict
  <2>2. _consume_line(p) = q
    BY <1>2, <1>3, <1>5
  <2> HIDE DEF q
  <2> QED BY <1>5, <2>1, <2>2
<1>6. CASE Plain(p.scan) # DebugEnd /\ Plain(p.scan) = <<>>
  <2>2. _consume_line(p) = r
    BY <1>2, <1>3, <1>6
  <2> QED BY <1>6, <1>1, <2>2
<1> QED BY <1>4, <1>5, <1>6

\* What a line of output before the exit status makes of the parser.
LEMMA ConsumeOutside ==
  ASSUME NEW p \in ParserType, p.started, p.exit = None, p.debug # "inside"
  PROVE  LET q == _consume_line(p)
             line == Plain(p.scan) IN
         /\ q \in ParserType /\ q.scan = <<>> /\ q.cwd = p.cwd /\ q.started = p.started
         /\ \/ /\ line = DebugBegin
               /\ q.debug = "inside" /\ q.line = None /\ q.exit = None /\ q.verdict = p.verdict
               /\ p.line = None => Unstored(p, q)
               /\ p.line # None => Stores(p, q, p.line)
            \/ /\ line # DebugBegin
               /\ IsPrefix(DebugBegin, line) \/ IsPrefix(EndMark, line)
               /\ q.verdict = "invalid" /\ q.exit = None /\ Unstored(p, q)
            \/ /\ IsPrefix(EndMark, line) /\ ~ IsPrefix(DebugBegin, line)
               /\ p.debug = "seen" /\ Len(line) = 3 /\ line[3] \in {"0", "1"}
               /\ q.exit = line[3] /\ q.debug = p.debug /\ q.line = None /\ q.verdict = p.verdict
               /\ p.line = None => Unstored(p, q)
               /\ p.line # None => Stores(p, q, p.line)
            \/ /\ line # DebugBegin /\ ~ IsPrefix(DebugBegin, line) /\ ~ IsPrefix(EndMark, line)
               /\ q.line = p.scan /\ q.exit = None /\ q.debug = p.debug /\ q.verdict = p.verdict
               /\ p.line = None => Unstored(p, q)
               /\ p.line # None => Stores(p, q, Append(p.line, NewLine))
<1> DEFINE r == [p EXCEPT !.scan = <<>>]
           line == Plain(p.scan)
           q == _consume_line(p)
<1>1. /\ r \in ParserType /\ r.scan = <<>> /\ r.output = p.output /\ r.truncated = p.truncated
      /\ r.line = p.line /\ r.exit = p.exit /\ r.cwd = p.cwd /\ r.debug = p.debug
      /\ r.started = p.started /\ r.verdict = p.verdict
  <2>1. <<>> \in Seq(Alphabet)
    OBVIOUS
  <2>2. WithScan(p, r, <<>>)
    BY <2>1, SetScan
  <2> HIDE DEF r
  <2> QED BY <2>2 DEF WithScan
<1>2. _consume_line(p) = ConsumeOutput(r, p.scan, line)
  BY DEF _consume_line
<1>0. p.scan \in Seq(Alphabet)
  BY DEF ParserType
<1> HIDE DEF r, line, q
<1>3. CASE line = DebugBegin
  <2> DEFINE w == _flush_final_output_line(r)
  <2>1. ConsumeOutput(r, p.scan, line) = [w EXCEPT !.debug = "inside"]
    BY <1>1, <1>3 DEF ConsumeOutput
  <2>2. /\ w \in ParserType /\ w.line = None /\ Behind(r, w)
        /\ r.line = None => Unstored(r, w)
        /\ r.line # None => Stores(r, w, r.line)
    BY <1>1, FlushFinal
  <2> HIDE DEF w
  <2>3. /\ q \in ParserType /\ q.debug = "inside" /\ q.line = w.line /\ q.exit = w.exit
        /\ q.verdict = w.verdict /\ q.output = w.output /\ q.truncated = w.truncated
        /\ q.scan = w.scan /\ q.cwd = w.cwd /\ q.started = w.started
    <3>1. WithDebug(w, q, "inside")
      BY <1>2, <2>1, <2>2, SetDebug DEF q
    <3> QED BY <3>1 DEF WithDebug
  <2>4. /\ p.line = None => Unstored(p, q)
        /\ p.line # None => Stores(p, q, p.line)
    BY <1>1, <2>2, <2>3 DEF Unstored, Stores
  <2>5. /\ q.debug = "inside" /\ q.line = None /\ q.exit = None /\ q.verdict = p.verdict
        /\ q.scan = <<>> /\ q.cwd = p.cwd /\ q.started = p.started
    BY <1>1, <2>2, <2>3 DEF Behind
  <2> QED BY <1>3, <2>3, <2>4, <2>5 DEF q, line
<1>4. CASE /\ line # DebugBegin
           /\ \/ IsPrefix(DebugBegin, line)
              \/ IsPrefix(EndMark, line) /\ ~ (p.debug = "seen" /\ Len(line) = 3 /\ line[3] \in {"0", "1"})
  <2>1. ConsumeOutput(r, p.scan, line) = Invalid(r)
    BY <1>1, <1>4 DEF ConsumeOutput
  <2>2. /\ q \in ParserType /\ q.line = r.line /\ q.exit = r.exit
        /\ q.verdict = "invalid" /\ q.output = r.output /\ q.truncated = r.truncated
        /\ q.scan = r.scan /\ q.cwd = r.cwd /\ q.started = r.started
    <3>1. WithVerdict(r, q, "invalid")
      BY <1>1, <1>2, <2>1, SetVerdict DEF q, Invalid
    <3> QED BY <3>1 DEF WithVerdict
  <2>3. /\ q.scan = <<>> /\ q.cwd = p.cwd /\ q.started = p.started
        /\ q.verdict = "invalid" /\ q.exit = None /\ Unstored(p, q)
    BY <1>1, <2>2 DEF Unstored
  <2> QED BY <1>4, <2>2, <2>3 DEF q, line
<1>5. CASE /\ line # DebugBegin /\ ~ IsPrefix(DebugBegin, line)
           /\ IsPrefix(EndMark, line) /\ p.debug = "seen" /\ Len(line) = 3 /\ line[3] \in {"0", "1"}
  <2> DEFINE w == _flush_final_output_line(r)
  <2>1. ConsumeOutput(r, p.scan, line) = [w EXCEPT !.exit = line[3]]
    BY <1>1, <1>5 DEF ConsumeOutput
  <2>2. /\ w \in ParserType /\ w.line = None /\ Behind(r, w)
        /\ r.line = None => Unstored(r, w)
        /\ r.line # None => Stores(r, w, r.line)
    BY <1>1, FlushFinal
  <2> HIDE DEF w
  <2>3. /\ q \in ParserType /\ q.debug = w.debug /\ q.line = w.line /\ q.exit = line[3]
        /\ q.verdict = w.verdict /\ q.output = w.output /\ q.truncated = w.truncated
        /\ q.scan = w.scan /\ q.cwd = w.cwd /\ q.started = w.started
    <3>1. WithExit(w, q, line[3])
      BY <1>2, <1>5, <2>1, <2>2, SetExit DEF q
    <3> QED BY <3>1 DEF WithExit
  <2>4. /\ p.line = None => Unstored(p, q)
        /\ p.line # None => Stores(p, q, p.line)
    BY <1>1, <2>2, <2>3 DEF Unstored, Stores
  <2>5. /\ q.debug = p.debug /\ q.line = None /\ q.exit = line[3] /\ q.verdict = p.verdict
        /\ q.scan = <<>> /\ q.cwd = p.cwd /\ q.started = p.started
    BY <1>1, <2>2, <2>3 DEF Behind
  <2> QED BY <1>5, <2>3, <2>4, <2>5 DEF q, line
<1>6. CASE line # DebugBegin /\ ~ IsPrefix(DebugBegin, line) /\ ~ IsPrefix(EndMark, line)
  <2> DEFINE w == StorePending(r)
  <2>1. ConsumeOutput(r, p.scan, line) = [w EXCEPT !.line = p.scan]
    BY <1>1, <1>6 DEF ConsumeOutput
  <2>2. /\ w \in ParserType /\ w.line = None /\ Behind(r, w)
        /\ r.line = None => Unstored(r, w)
        /\ r.line # None => Stores(r, w, Append(r.line, NewLine))
    BY <1>1, StoresPending
  <2> HIDE DEF w
  <2>3. /\ q \in ParserType /\ q.debug = w.debug /\ q.line = p.scan /\ q.exit = w.exit
        /\ q.verdict = w.verdict /\ q.output = w.output /\ q.truncated = w.truncated
        /\ q.scan = w.scan /\ q.cwd = w.cwd /\ q.started = w.started
    BY <1>0, <1>2, <2>1, <2>2, SetLine DEF q, WithLine
  <2>4. /\ p.line = None => Unstored(p, q)
        /\ p.line # None => Stores(p, q, Append(p.line, NewLine))
    BY <1>1, <2>2, <2>3 DEF Unstored, Stores
  <2>5. /\ q.debug = p.debug /\ q.line = p.scan /\ q.exit = None /\ q.verdict = p.verdict
        /\ q.scan = <<>> /\ q.cwd = p.cwd /\ q.started = p.started
    BY <1>1, <2>2, <2>3 DEF Behind
  <2> QED BY <1>6, <2>3, <2>4, <2>5 DEF q, line
<1> QED BY <1>3, <1>4, <1>5, <1>6

\* A line after the exit status: the directory, then the identity of the shell.
LEMMA ConsumeAfter ==
  ASSUME NEW p \in ParserType, p.started, p.exit # None
  PROVE  LET q == _consume_line(p)
             line == Plain(p.scan) IN
         /\ q \in ParserType /\ q.scan = <<>> /\ q.line = p.line /\ Unstored(p, q)
         /\ q.exit = p.exit /\ q.started = p.started /\ q.debug = p.debug
         /\ q.verdict \in {p.verdict, "invalid"} \/ (q.verdict = "complete" /\ line = Health)
<1> DEFINE r == [p EXCEPT !.scan = <<>>]
           line == Plain(p.scan)
           q == _consume_line(p)
<1>1. /\ r \in ParserType /\ r.scan = <<>> /\ Unstored(p, r) /\ r.line = p.line
      /\ r.exit = p.exit /\ r.cwd = p.cwd /\ r.debug = p.debug
      /\ r.started = p.started /\ r.verdict = p.verdict
  <2>1. <<>> \in Seq(Alphabet)
    OBVIOUS
  <2>2. WithScan(p, r, <<>>)
    BY <2>1, SetScan
  <2> HIDE DEF r
  <2> QED BY <2>2 DEF Unstored, WithScan
<1>2. q = [r EXCEPT !.cwd = TRUE] \/ q = Invalid(r) \/ (line = Health /\ q = [r EXCEPT !.verdict = "complete"])
  BY DEF _consume_line
<1> HIDE DEF r, line, q
<1>3. CASE q = [r EXCEPT !.cwd = TRUE]
  <2>1. /\ q \in ParserType /\ q.scan = <<>> /\ q.line = p.line /\ Unstored(p, q)
        /\ q.exit = p.exit /\ q.started = p.started /\ q.debug = p.debug /\ q.verdict = p.verdict
    BY <1>1, <1>3, SetCwd DEF Unstored, WithCwd
  <2> QED BY <2>1 DEF q
<1>4. CASE q = Invalid(r)
  <2>1. /\ q \in ParserType /\ q.scan = <<>> /\ q.line = p.line /\ Unstored(p, q)
        /\ q.exit = p.exit /\ q.started = p.started /\ q.debug = p.debug /\ q.verdict = "invalid"
    BY <1>1, <1>4, SetVerdict DEF Unstored, Invalid, WithVerdict
  <2> QED BY <2>1 DEF q
<1>5. CASE line = Health /\ q = [r EXCEPT !.verdict = "complete"]
  <2>1. /\ q \in ParserType /\ q.scan = <<>> /\ q.line = p.line /\ Unstored(p, q)
        /\ q.exit = p.exit /\ q.started = p.started /\ q.debug = p.debug /\ q.verdict = "complete"
    BY <1>1, <1>5, SetVerdict DEF Unstored, WithVerdict
  <2> QED BY <2>1, <1>5 DEF q, line
<1> QED BY <1>2, <1>3, <1>4, <1>5

-----------------------------------------------------------------------------
(* The parts of a stream.                                                  *)

\* Tuples are sequences.
LEMMA AppendPair == ASSUME NEW x, NEW y, NEW z PROVE Append(<<x, y>>, z) = <<x, y, z>>
<1> DEFINE S == {x, y, z}
           l == Append(<<x, y>>, z)
           r == <<x, y, z>>
<1>1. l \in Seq(S) /\ r \in Seq(S)
  OBVIOUS
<1>2. Len(l) = 3 /\ Len(r) = 3 /\ l[1] = r[1] /\ l[2] = r[2] /\ l[3] = r[3]
  OBVIOUS
<1> HIDE DEF l, r, S
<1>3. Len(l) = Len(r) /\ \A i \in 1..Len(l) : l[i] = r[i]
  BY <1>2
<1>4. l = r
  BY <1>1, <1>3, SeqEqual
<1> QED BY <1>4 DEF l, r

LEMMA AppendTriple ==
  ASSUME NEW x, NEW y, NEW z, NEW w PROVE Append(<<x, y, z>>, w) = <<x, y, z, w>>
<1> DEFINE S == {x, y, z, w}
           l == Append(<<x, y, z>>, w)
           r == <<x, y, z, w>>
<1>1. l \in Seq(S) /\ r \in Seq(S)
  OBVIOUS
<1>2. Len(l) = 4 /\ Len(r) = 4 /\ l[1] = r[1] /\ l[2] = r[2] /\ l[3] = r[3] /\ l[4] = r[4]
  OBVIOUS
<1> HIDE DEF l, r, S
<1>3. Len(l) = Len(r) /\ \A i \in 1..Len(l) : l[i] = r[i]
  BY <1>2
<1>4. l = r
  BY <1>1, <1>3, SeqEqual
<1> QED BY <1>4 DEF l, r

\* r is s followed by u, of lengths n and m.
Joined(r, s, n, u, m, S) ==
  /\ r \in Seq(S) /\ Len(r) = n + m
  /\ \A k \in 1..n : r[k] = s[k]
  /\ \A k \in 1..m : r[n + k] = u[k]

\* The parts of a concatenation, at their places.
LEMMA ConcatParts ==
  ASSUME NEW S, NEW s \in Seq(S), NEW u \in Seq(S), NEW n \in Nat, NEW m \in Nat,
         Len(s) = n, Len(u) = m
  PROVE  Joined(s \o u, s, n, u, m, S)
<1>1. /\ s \o u \in Seq(S)
      /\ Len(s \o u) = n + m
      /\ \A i \in 1..n + m : (s \o u)[i] = IF i <= n THEN s[i] ELSE u[i - n]
  BY ConcatProperties
<1>2. \A k \in 1..n : k \in 1..n + m /\ k <= n
  OBVIOUS
<1>3. \A k \in 1..m : n + k \in 1..n + m /\ ~ (n + k <= n) /\ (n + k) - n = k
  OBVIOUS
<1> QED BY <1>1, <1>2, <1>3 DEF Joined

\* Where the parts of a frame's stream T are, a, o and t being the lengths of what was there
\* before, of the output and of the trap.
Laid(f, T, a, o, t) ==
  /\ FrameOf(f) /\ Len(f.before) = a /\ Len(f.out) = o /\ Len(f.trap) = t
  /\ a \in Nat /\ o \in Nat /\ t \in Nat
  /\ T \in Seq(Alphabet)
  /\ Len(T) = a + o + t + (IF f.health THEN 23 ELSE 11)
  /\ \A k \in 1..a : T[k] = f.before[k]
  /\ T[a + 1] = "n" /\ T[a + 2] = "B" /\ T[a + 3] = "b" /\ T[a + 4] = "n"
  /\ \A k \in 1..o : T[a + 4 + k] = f.out[k]
  /\ T[a + o + 5] = "n" /\ T[a + o + 6] = "D" /\ T[a + o + 7] = "d" /\ T[a + o + 8] = "n"
  /\ \A k \in 1..t : T[a + o + 8 + k] = f.trap[k]
  /\ T[a + o + t + 9] = "F" /\ T[a + o + t + 10] = "f" /\ T[a + o + t + 11] = "n"
  /\ f.health =>
       /\ T[a + o + t + 12] = "n" /\ T[a + o + t + 13] = "E" /\ T[a + o + t + 14] = "e"
       /\ T[a + o + t + 15] = f.exit /\ T[a + o + t + 16] = "n"
       /\ T[a + o + t + 17] = "C" /\ T[a + o + t + 18] = "c" /\ T[a + o + t + 19] = "w"
       /\ T[a + o + t + 20] = "n"
       /\ T[a + o + t + 21] = "H" /\ T[a + o + t + 22] = "h" /\ T[a + o + t + 23] = "n"

\* The stream of a frame is laid out as the wrapper prints it.
LEMMA StreamParts ==
  ASSUME NEW f, FrameOf(f)
  PROVE  Laid(f, Stream(f), Len(f.before), Len(f.out), Len(f.trap))
<1> DEFINE a == Len(f.before)
           o == Len(f.out)
           t == Len(f.trap)
           u1 == <<"n">>
           u2 == <<"B", "b", "n">>
           u3 == <<"D", "d", "n">>
           u4 == <<"F", "f", "n">>
           u5 == <<"n">> \o <<"E", "e", f.exit, "n">> \o <<"C", "c", "w", "n">> \o <<"H", "h", "n">>
           u6 == IF f.health THEN u5 ELSE <<>>
           s1 == f.before \o u1
           s2 == s1 \o u2
           s3 == s2 \o f.out
           s4 == s3 \o u1
           s5 == s4 \o u3
           s6 == s5 \o f.trap
           s7 == s6 \o u4
           s8 == s7 \o u6
<1>1. /\ f.before \in Seq(Alphabet) /\ f.out \in Seq(Alphabet) /\ f.trap \in Seq(Alphabet)
      /\ f.exit \in Alphabet
  <2>1. Symbols \subseteq Alphabet
    BY DEF Alphabet
  <2>2. f.before \in Seq(Symbols) /\ f.out \in Seq(Symbols) /\ f.trap \in Seq(Symbols)
    BY DEF FrameOf
  <2>3. f.exit \in Alphabet
    BY DEF FrameOf, Alphabet
  <2> QED BY <2>1, <2>2, <2>3, SeqMonotonic
<1>2. /\ u1 \in Seq(Alphabet) /\ Len(u1) = 1 /\ u1[1] = "n"
      /\ u2 \in Seq(Alphabet) /\ Len(u2) = 3 /\ u2[1] = "B" /\ u2[2] = "b" /\ u2[3] = "n"
      /\ u3 \in Seq(Alphabet) /\ Len(u3) = 3 /\ u3[1] = "D" /\ u3[2] = "d" /\ u3[3] = "n"
      /\ u4 \in Seq(Alphabet) /\ Len(u4) = 3 /\ u4[1] = "F" /\ u4[2] = "f" /\ u4[3] = "n"
  BY DEF Alphabet, MarkerSymbols, NewLine, Begin, DebugBegin, DebugEnd, EndMark, CwdMark, Health
<1>3. /\ u5 \in Seq(Alphabet) /\ Len(u5) = 12
      /\ u5[1] = "n" /\ u5[2] = "E" /\ u5[3] = "e" /\ u5[4] = f.exit /\ u5[5] = "n"
      /\ u5[6] = "C" /\ u5[7] = "c" /\ u5[8] = "w" /\ u5[9] = "n"
      /\ u5[10] = "H" /\ u5[11] = "h" /\ u5[12] = "n"
  <2> DEFINE v2 == <<"E", "e", f.exit, "n">>
             v3 == <<"C", "c", "w", "n">>
             v4 == <<"H", "h", "n">>
             w2 == u1 \o v2
             w3 == w2 \o v3
             w4 == w3 \o v4
  <2>1. f.exit \in Alphabet /\ {"n", "E", "e", "C", "c", "w", "H", "h"} \subseteq Alphabet
    BY <1>1 DEF Alphabet, MarkerSymbols, NewLine, EndMark, CwdMark, Health
  <2>2. /\ v2 \in Seq(Alphabet) /\ Len(v2) = 4 /\ v2[1] = "E" /\ v2[2] = "e" /\ v2[3] = f.exit /\ v2[4] = "n"
        /\ v3 \in Seq(Alphabet) /\ Len(v3) = 4 /\ v3[1] = "C" /\ v3[2] = "c" /\ v3[3] = "w" /\ v3[4] = "n"
        /\ v4 \in Seq(Alphabet) /\ Len(v4) = 3 /\ v4[1] = "H" /\ v4[2] = "h" /\ v4[3] = "n"
    BY <2>1
  <2> HIDE DEF u1, v2, v3, v4
  <2>3. /\ w2 \in Seq(Alphabet) /\ Len(w2) = 1 + 4 /\ \A k \in 1..1 : w2[k] = u1[k]
        /\ \A k \in 1..4 : w2[1 + k] = v2[k]
    <3>1. Joined(w2, u1, 1, v2, 4, Alphabet)
      BY <1>2, <2>2, ConcatParts
    <3> HIDE DEF w2
    <3> QED BY <3>1 DEF Joined
  <2>4. /\ w2[1] = "n" /\ w2[2] = "E" /\ w2[3] = "e" /\ w2[4] = f.exit /\ w2[5] = "n"
        /\ Len(w2) = 5
    <3> HIDE DEF w2
    <3> QED BY <1>2, <2>2, <2>3
  <2> HIDE DEF w2
  <2>5. /\ w3 \in Seq(Alphabet) /\ Len(w3) = 5 + 4 /\ \A k \in 1..5 : w3[k] = w2[k]
        /\ \A k \in 1..4 : w3[5 + k] = v3[k]
    <3>1. Joined(w3, w2, 5, v3, 4, Alphabet)
      BY <2>2, <2>3, <2>4, ConcatParts
    <3> HIDE DEF w3
    <3> QED BY <3>1 DEF Joined
  <2> HIDE DEF w3
  <2>6. /\ w3[1] = "n" /\ w3[2] = "E" /\ w3[3] = "e" /\ w3[4] = f.exit /\ w3[5] = "n"
        /\ w3[6] = "C" /\ w3[7] = "c" /\ w3[8] = "w" /\ w3[9] = "n" /\ Len(w3) = 9
    BY <2>2, <2>4, <2>5
  <2>7. /\ w4 \in Seq(Alphabet) /\ Len(w4) = 9 + 3 /\ \A k \in 1..9 : w4[k] = w3[k]
        /\ \A k \in 1..3 : w4[9 + k] = v4[k]
    <3>1. Joined(w4, w3, 9, v4, 3, Alphabet)
      BY <2>2, <2>5, <2>6, ConcatParts
    <3> HIDE DEF w4
    <3> QED BY <3>1 DEF Joined
  <2> HIDE DEF w4
  <2>8. /\ w4[1] = "n" /\ w4[2] = "E" /\ w4[3] = "e" /\ w4[4] = f.exit /\ w4[5] = "n"
        /\ w4[6] = "C" /\ w4[7] = "c" /\ w4[8] = "w" /\ w4[9] = "n" /\ Len(w4) = 12
        /\ w4[10] = "H" /\ w4[11] = "h" /\ w4[12] = "n"
    BY <2>2, <2>6, <2>7
  <2>9. w4 = u5
    BY DEF w2, w3, w4, v2, v3, v4, u1
  <2> HIDE DEF u5
  <2> QED BY <2>7, <2>8, <2>9
<1>4. Line(Begin) = u2 /\ Line(DebugBegin) = u3 /\ Line(DebugEnd) = u4
  BY AppendPair DEF Line, Begin, DebugBegin, DebugEnd, NewLine
<1>5. /\ Line(Append(EndMark, f.exit)) = <<"E", "e", f.exit, "n">>
      /\ Line(Append(CwdMark, "w")) = <<"C", "c", "w", "n">>
      /\ Line(Health) = <<"H", "h", "n">>
  <2>1. Append(EndMark, f.exit) = <<"E", "e", f.exit>> /\ Append(CwdMark, "w") = <<"C", "c", "w">>
    BY AppendPair DEF EndMark, CwdMark
  <2>2. Line(Health) = <<"H", "h", "n">>
    BY AppendPair DEF Health, Line, NewLine
  <2>3. \A x : Line(<<"E", "e", x>>) = <<"E", "e", x, "n">>
    BY AppendTriple DEF Line, NewLine
  <2>4. Line(<<"C", "c", "w">>) = <<"C", "c", "w", "n">>
    BY AppendTriple DEF Line, NewLine
  <2> QED BY <2>1, <2>2, <2>3, <2>4
<1>6. Stream(f) = s8
  <2>1. <<NewLine>> = u1
    BY DEF NewLine
  <2> HIDE DEF u2, u3, u4
  <2> QED BY <1>4, <1>5, <2>1, Zenon DEF Stream
<1>7. /\ u6 \in Seq(Alphabet) /\ Len(u6) = (IF f.health THEN 12 ELSE 0)
      /\ f.health => /\ u6[1] = "n" /\ u6[2] = "E" /\ u6[3] = "e" /\ u6[4] = f.exit /\ u6[5] = "n"
                     /\ u6[6] = "C" /\ u6[7] = "c" /\ u6[8] = "w" /\ u6[9] = "n"
                     /\ u6[10] = "H" /\ u6[11] = "h" /\ u6[12] = "n"
  <2>2. CASE f.health
    <3>1. u6 = u5
      BY <2>2
    <3> HIDE DEF u5, u6
    <3> QED BY <1>3, <3>1, <2>2
  <2>3. CASE ~ f.health
    BY <2>3
  <2> QED BY <2>2, <2>3
<1>8. a \in Nat /\ o \in Nat /\ t \in Nat
  BY <1>1
<1>d. Len(f.before) = a /\ Len(f.out) = o /\ Len(f.trap) = t
  OBVIOUS
<1> HIDE DEF a, o, t
<1> HIDE DEF u1, u2, u3, u4, u5, u6
<1>9. /\ s1 \in Seq(Alphabet) /\ Len(s1) = a + 1
      /\ \A k \in 1..a : s1[k] = f.before[k]
      /\ \A k \in 1..1 : s1[a + k] = u1[k]
  <2>1. Joined(s1, f.before, a, u1, 1, Alphabet)
    BY <1>1, <1>2, <1>8, <1>d, ConcatParts
  <2> HIDE DEF s1
  <2> QED BY <2>1 DEF Joined
<1> HIDE DEF s1
<1>10. /\ s2 \in Seq(Alphabet) /\ Len(s2) = (a + 1) + 3
       /\ \A k \in 1..a + 1 : s2[k] = s1[k]
       /\ \A k \in 1..3 : s2[(a + 1) + k] = u2[k]
  <2>1. a + 1 \in Nat
    BY <1>8
  <2>2. Joined(s2, s1, a + 1, u2, 3, Alphabet)
    BY <2>1, <1>9, <1>2, ConcatParts
  <2> HIDE DEF s2
  <2> QED BY <2>2 DEF Joined
<1> HIDE DEF s2
<1>11. /\ s3 \in Seq(Alphabet) /\ Len(s3) = (a + 4) + o
       /\ \A k \in 1..a + 4 : s3[k] = s2[k]
       /\ \A k \in 1..o : s3[(a + 4) + k] = f.out[k]
  <2>1. a + 4 \in Nat /\ Len(s2) = a + 4
    BY <1>8, <1>10
  <2>2. Joined(s3, s2, a + 4, f.out, o, Alphabet)
    BY <2>1, <1>1, <1>d, <1>8, <1>10, ConcatParts
  <2> HIDE DEF s3
  <2> QED BY <2>2 DEF Joined
<1> HIDE DEF s3
<1>12. /\ s4 \in Seq(Alphabet) /\ Len(s4) = (a + o + 4) + 1
       /\ \A k \in 1..a + o + 4 : s4[k] = s3[k]
       /\ \A k \in 1..1 : s4[(a + o + 4) + k] = u1[k]
  <2>1. a + o + 4 \in Nat /\ Len(s3) = a + o + 4
    BY <1>8, <1>11
  <2>2. Joined(s4, s3, a + o + 4, u1, 1, Alphabet)
    BY <2>1, <1>2, <1>11, ConcatParts
  <2> HIDE DEF s4
  <2> QED BY <2>2 DEF Joined
<1> HIDE DEF s4
<1>13. /\ s5 \in Seq(Alphabet) /\ Len(s5) = (a + o + 5) + 3
       /\ \A k \in 1..a + o + 5 : s5[k] = s4[k]
       /\ \A k \in 1..3 : s5[(a + o + 5) + k] = u3[k]
  <2>1. a + o + 5 \in Nat /\ Len(s4) = a + o + 5
    BY <1>8, <1>12
  <2>2. Joined(s5, s4, a + o + 5, u3, 3, Alphabet)
    BY <2>1, <1>2, <1>12, ConcatParts
  <2> HIDE DEF s5
  <2> QED BY <2>2 DEF Joined
<1> HIDE DEF s5
<1>14. /\ s6 \in Seq(Alphabet) /\ Len(s6) = (a + o + 8) + t
       /\ \A k \in 1..a + o + 8 : s6[k] = s5[k]
       /\ \A k \in 1..t : s6[(a + o + 8) + k] = f.trap[k]
  <2>1. a + o + 8 \in Nat /\ Len(s5) = a + o + 8
    BY <1>8, <1>13
  <2>2. Joined(s6, s5, a + o + 8, f.trap, t, Alphabet)
    BY <2>1, <1>1, <1>d, <1>8, <1>13, ConcatParts
  <2> HIDE DEF s6
  <2> QED BY <2>2 DEF Joined
<1> HIDE DEF s6
<1>15. /\ s7 \in Seq(Alphabet) /\ Len(s7) = (a + o + t + 8) + 3
       /\ \A k \in 1..a + o + t + 8 : s7[k] = s6[k]
       /\ \A k \in 1..3 : s7[(a + o + t + 8) + k] = u4[k]
  <2>1. a + o + t + 8 \in Nat /\ Len(s6) = a + o + t + 8
    BY <1>8, <1>14
  <2>2. Joined(s7, s6, a + o + t + 8, u4, 3, Alphabet)
    BY <2>1, <1>2, <1>14, ConcatParts
  <2> HIDE DEF s7
  <2> QED BY <2>2 DEF Joined
<1> HIDE DEF s7
<1>16. /\ s8 \in Seq(Alphabet) /\ Len(s8) = (a + o + t + 11) + Len(u6)
       /\ \A k \in 1..a + o + t + 11 : s8[k] = s7[k]
       /\ \A k \in 1..Len(u6) : s8[(a + o + t + 11) + k] = u6[k]
  <2>1. a + o + t + 11 \in Nat /\ Len(s7) = a + o + t + 11 /\ Len(u6) \in Nat
    <3>1. Len(u6) \in Nat
      BY <1>7, LenProperties
    <3> QED BY <1>8, <1>15, <3>1
  <2>2. Joined(s8, s7, a + o + t + 11, u6, Len(u6), Alphabet)
    BY <2>1, <1>7, <1>15, ConcatParts
  <2> HIDE DEF s8
  <2> QED BY <2>2 DEF Joined
<1> HIDE DEF s8
<1>17. \A k \in 1..a + o + t + 8 : s8[k] = s6[k]
  <2>1. \A k \in 1..a + o + t + 8 : k \in 1..a + o + t + 11
    BY <1>8
  <2> QED BY <2>1, <1>15, <1>16
<1>18. \A k \in 1..a + o + 8 : s8[k] = s5[k]
  <2>1. \A k \in 1..a + o + 8 : k \in 1..a + o + t + 8
    BY <1>8
  <2> QED BY <2>1, <1>14, <1>17
<1>19. \A k \in 1..a + o + 4 : s8[k] = s3[k]
  <2>1. \A k \in 1..a + o + 4 : k \in 1..a + o + 5 /\ k \in 1..a + o + 8
    BY <1>8
  <2> QED BY <2>1, <1>12, <1>13, <1>18
<1>20. \A k \in 1..a + 4 : s8[k] = s2[k]
  <2>1. \A k \in 1..a + 4 : k \in 1..a + o + 4
    BY <1>8
  <2> QED BY <2>1, <1>11, <1>19
<1>21. \A k \in 1..a + 1 : s8[k] = s1[k]
  <2>1. \A k \in 1..a + 1 : k \in 1..a + 4
    BY <1>8
  <2> QED BY <2>1, <1>10, <1>20
<1>22. \A k \in 1..a : s8[k] = f.before[k]
  <2>1. \A k \in 1..a : k \in 1..a + 1
    BY <1>8
  <2> QED BY <2>1, <1>9, <1>21
<1>23. s8[a + 1] = "n" /\ s8[a + 2] = "B" /\ s8[a + 3] = "b" /\ s8[a + 4] = "n"
  <2>1. s1[a + 1] = "n" /\ a + 1 \in 1..a + 1
    BY <1>2, <1>8, <1>9
  <2>2. s2[(a + 1) + 1] = "B" /\ s2[(a + 1) + 2] = "b" /\ s2[(a + 1) + 3] = "n"
    BY <1>2, <1>10
  <2>3. /\ (a + 1) + 1 = a + 2 /\ (a + 1) + 2 = a + 3 /\ (a + 1) + 3 = a + 4
        /\ a + 2 \in 1..a + 4 /\ a + 3 \in 1..a + 4 /\ a + 4 \in 1..a + 4
    BY <1>8
  <2> QED BY <2>1, <2>2, <2>3, <1>20, <1>21
<1>24. \A k \in 1..o : s8[a + 4 + k] = f.out[k]
  <2>1. \A k \in 1..o : (a + 4) + k \in 1..a + o + 4
    BY <1>8
  <2> QED BY <2>1, <1>11, <1>19
<1>25. s8[a + o + 5] = "n" /\ s8[a + o + 6] = "D" /\ s8[a + o + 7] = "d" /\ s8[a + o + 8] = "n"
  <2>1. s4[(a + o + 4) + 1] = "n"
    BY <1>2, <1>12
  <2>2. s5[(a + o + 5) + 1] = "D" /\ s5[(a + o + 5) + 2] = "d" /\ s5[(a + o + 5) + 3] = "n"
    BY <1>2, <1>13
  <2>3. /\ (a + o + 4) + 1 = a + o + 5 /\ (a + o + 5) + 1 = a + o + 6
        /\ (a + o + 5) + 2 = a + o + 7 /\ (a + o + 5) + 3 = a + o + 8
        /\ a + o + 5 \in 1..a + o + 5 /\ a + o + 5 \in 1..a + o + 8
        /\ a + o + 6 \in 1..a + o + 8 /\ a + o + 7 \in 1..a + o + 8 /\ a + o + 8 \in 1..a + o + 8
    BY <1>8
  <2> QED BY <2>1, <2>2, <2>3, <1>13, <1>18
<1>26. \A k \in 1..t : s8[a + o + 8 + k] = f.trap[k]
  <2>1. \A k \in 1..t : (a + o + 8) + k \in 1..a + o + t + 8
    BY <1>8
  <2> QED BY <2>1, <1>14, <1>17
<1>27. s8[a + o + t + 9] = "F" /\ s8[a + o + t + 10] = "f" /\ s8[a + o + t + 11] = "n"
  <2>2. s7[(a + o + t + 8) + 1] = "F" /\ s7[(a + o + t + 8) + 2] = "f" /\ s7[(a + o + t + 8) + 3] = "n"
    BY <1>2, <1>15
  <2>3. /\ (a + o + t + 8) + 1 = a + o + t + 9 /\ (a + o + t + 8) + 2 = a + o + t + 10
        /\ (a + o + t + 8) + 3 = a + o + t + 11
        /\ a + o + t + 9 \in 1..a + o + t + 11 /\ a + o + t + 10 \in 1..a + o + t + 11
        /\ a + o + t + 11 \in 1..a + o + t + 11
    BY <1>8
  <2> QED BY <2>2, <2>3, <1>16
<1>28. ASSUME f.health
       PROVE  /\ s8[a + o + t + 12] = "n" /\ s8[a + o + t + 13] = "E" /\ s8[a + o + t + 14] = "e"
              /\ s8[a + o + t + 15] = f.exit /\ s8[a + o + t + 16] = "n"
              /\ s8[a + o + t + 17] = "C" /\ s8[a + o + t + 18] = "c" /\ s8[a + o + t + 19] = "w"
              /\ s8[a + o + t + 20] = "n"
              /\ s8[a + o + t + 21] = "H" /\ s8[a + o + t + 22] = "h" /\ s8[a + o + t + 23] = "n"
  <2>1. Len(u6) = 12
    BY <1>7, <1>28
  <2>2. \A k \in 1..12 : s8[(a + o + t + 11) + k] = u6[k]
    BY <1>16, <2>1
  <2>3. \A k \in 1..12 : (a + o + t + 11) + k = a + o + t + (11 + k)
    BY <1>8
  <2>4. \A k \in 1..12 : s8[a + o + t + (11 + k)] = u6[k]
    BY <2>2, <2>3
  <2> QED BY SMTT(30), <2>4, <1>7, <1>28
<1>29. Len(s8) = a + o + t + (IF f.health THEN 23 ELSE 11)
  BY <1>16, <1>7, <1>8
<1>30. Laid(f, s8, a, o, t)
  BY <1>8, <1>d, <1>16, <1>22, <1>23, <1>24, <1>25, <1>26, <1>27, <1>28, <1>29, Zenon DEF Laid
<1> QED BY <1>6, <1>30 DEF a, o, t

\* The symbols that only marker lines hold.
LEMMA NoMarker ==
  ASSUME NEW s \in Seq(Symbols), NEW k \in 1..Len(s)
  PROVE  s[k] \in Symbols /\ s[k] \notin {"B", "D", "F", "E", "C", "H"}
<1>1. s[k] \in Symbols
  BY ElementOfSeq
<1>2. MarkerSymbols = {"B", "D", "F", "E", "C", "H"}
  BY DEF MarkerSymbols, Begin, DebugBegin, DebugEnd, EndMark, CwdMark, Health
<1> QED BY <1>1, <1>2, FramesAssumption

\* Every position of a stream is in one of its parts.
LEMMA StreamRegions ==
  ASSUME NEW f, NEW T, NEW a, NEW o, NEW t, Laid(f, T, a, o, t), NEW k \in 1..Len(T)
  PROVE  \/ k \in 1..a
         \/ k \in {a + 1, a + 2, a + 3, a + 4}
         \/ \E j \in 1..o : k = a + 4 + j
         \/ k \in {a + o + 5, a + o + 6, a + o + 7, a + o + 8}
         \/ \E j \in 1..t : k = a + o + 8 + j
         \/ k \in {a + o + t + 9, a + o + t + 10, a + o + t + 11}
         \/ f.health /\ \E j \in 12..23 : k = a + o + t + j
<1>1. a \in Nat /\ o \in Nat /\ t \in Nat /\ Len(T) = a + o + t + (IF f.health THEN 23 ELSE 11)
  BY Zenon DEF Laid
<1>2. k \in Nat /\ 1 <= k /\ (f.health => k <= a + o + t + 23) /\ (~ f.health => k <= a + o + t + 11)
  <2>1. CASE f.health
    <3>1. Len(T) = a + o + t + 23
      BY <1>1, <2>1
    <3> QED BY <2>1, <3>1, <1>1
  <2>2. CASE ~ f.health
    <3>1. Len(T) = a + o + t + 11
      BY <1>1, <2>2
    <3> QED BY <2>2, <3>1, <1>1
  <2> QED BY <2>1, <2>2
<1>3. CASE k <= a + 4
  BY <1>1, <1>2, <1>3
<1>4. CASE k > a + 4 /\ k <= a + o + 8
  <2>1. CASE k <= a + o + 4
    <3>1. k - (a + 4) \in 1..o /\ k = a + 4 + (k - (a + 4))
      BY <1>1, <1>2, <1>4, <2>1
    <3> QED BY <3>1
  <2>2. CASE k > a + o + 4
    BY <1>1, <1>2, <1>4, <2>2
  <2> QED BY <1>1, <1>2, <2>1, <2>2
<1>5. CASE k > a + o + 8 /\ k <= a + o + t + 11
  <2>1. CASE k <= a + o + t + 8
    <3>1. k - (a + o + 8) \in 1..t /\ k = a + o + 8 + (k - (a + o + 8))
      BY <1>1, <1>2, <1>5, <2>1
    <3> QED BY <3>1
  <2>2. CASE k > a + o + t + 8
    BY <1>1, <1>2, <1>5, <2>2
  <2> QED BY <1>1, <1>2, <2>1, <2>2
<1>6. CASE k > a + o + t + 11
  <2>1. f.health
    BY <1>1, <1>2, <1>6
  <2>2. k - (a + o + t) \in 12..23 /\ k = a + o + t + (k - (a + o + t))
    BY <1>1, <1>2, <1>6, <2>1
  <2> QED BY <2>1, <2>2
<1> QED BY <1>1, <1>2, <1>3, <1>4, <1>5, <1>6

\* The marks of the end are where the wrapper writes them, and nowhere else.
LEMMA EndMarks ==
  ASSUME NEW f, NEW T, NEW a, NEW o, NEW t, Laid(f, T, a, o, t), NEW k \in 1..Len(T)
  PROVE  /\ T[k] = "E" => f.health /\ k = a + o + t + 13
         /\ T[k] = "H" => f.health /\ k = a + o + t + 21
         /\ f.health /\ k > a + o + t + 13 => T[k] \in {"e", f.exit, "n", "C", "c", "w", "H", "h"}
         /\ f.health /\ k > a + o + t + 21 /\ T[k] = "n" => k = Len(T)
         /\ f.health => Len(T) = a + o + t + 23
<1>1. a \in Nat /\ o \in Nat /\ t \in Nat
  BY Zenon DEF Laid
<1>0. a = Len(f.before) /\ o = Len(f.out) /\ t = Len(f.trap)
  BY Zenon DEF Laid
<1>2. f.health => Len(T) = a + o + t + 23
  BY ZenonT(40) DEF Laid
<1>3. f.exit \in {"0", "1"} /\ f.before \in Seq(Symbols) /\ f.out \in Seq(Symbols) /\ f.trap \in Seq(Symbols)
  BY Zenon DEF Laid, FrameOf
<1>4. CASE k \in 1..a
  <2>1. T[k] = f.before[k]
    BY <1>4, ZenonT(40) DEF Laid
  <2>2. T[k] # "E" /\ T[k] # "H"
    BY <1>0, <2>1, <1>3, <1>4, NoMarker
  <2>3. ~ (k > a + o + t + 13) /\ ~ (k > a + o + t + 21)
    BY <1>1, <1>4
  <2> QED BY <1>2, <2>2, <2>3
<1>5. CASE k \in {a + 1, a + 2, a + 3, a + 4}
  <2>1. T[a + 1] = "n" /\ T[a + 2] = "B" /\ T[a + 3] = "b" /\ T[a + 4] = "n"
    BY Zenon DEF Laid
  <2>2. T[k] # "E" /\ T[k] # "H"
    BY <1>5, <2>1
  <2>3. ~ (k > a + o + t + 13) /\ ~ (k > a + o + t + 21)
    BY <1>1, <1>5
  <2> QED BY <1>2, <2>2, <2>3
<1>6. CASE \E j \in 1..o : k = a + 4 + j
  <2>0. PICK j \in 1..o : k = a + 4 + j
    BY <1>6
  <2>1. T[k] = f.out[j]
    BY <2>0, ZenonT(40) DEF Laid
  <2>2. T[k] # "E" /\ T[k] # "H"
    BY <1>0, <2>1, <1>3, <2>0, NoMarker
  <2>3. ~ (k > a + o + t + 13) /\ ~ (k > a + o + t + 21)
    BY <1>1, <2>0
  <2> QED BY <1>2, <2>2, <2>3
<1>7. CASE k \in {a + o + 5, a + o + 6, a + o + 7, a + o + 8}
  <2>1. T[a + o + 5] = "n" /\ T[a + o + 6] = "D" /\ T[a + o + 7] = "d" /\ T[a + o + 8] = "n"
    BY Zenon DEF Laid
  <2>2. T[k] # "E" /\ T[k] # "H"
    BY <1>7, <2>1
  <2>3. ~ (k > a + o + t + 13) /\ ~ (k > a + o + t + 21)
    BY <1>1, <1>7
  <2> QED BY <1>2, <2>2, <2>3
<1>8. CASE \E j \in 1..t : k = a + o + 8 + j
  <2>0. PICK j \in 1..t : k = a + o + 8 + j
    BY <1>8
  <2>1. T[k] = f.trap[j]
    BY <2>0, ZenonT(40) DEF Laid
  <2>2. T[k] # "E" /\ T[k] # "H"
    BY <1>0, <2>1, <1>3, <2>0, NoMarker
  <2>3. ~ (k > a + o + t + 13) /\ ~ (k > a + o + t + 21)
    BY <1>1, <2>0
  <2> QED BY <1>2, <2>2, <2>3
<1>9. CASE k \in {a + o + t + 9, a + o + t + 10, a + o + t + 11}
  <2>1. T[a + o + t + 9] = "F" /\ T[a + o + t + 10] = "f" /\ T[a + o + t + 11] = "n"
    BY Zenon DEF Laid
  <2>2. T[k] # "E" /\ T[k] # "H"
    BY <1>9, <2>1
  <2>3. ~ (k > a + o + t + 13) /\ ~ (k > a + o + t + 21)
    BY <1>1, <1>9
  <2> QED BY <1>2, <2>2, <2>3
<1>10. CASE f.health /\ \E j \in 12..23 : k = a + o + t + j
  <2>0. PICK j \in 12..23 : k = a + o + t + j
    BY <1>10
  <2>1. /\ T[a + o + t + 12] = "n" /\ T[a + o + t + 13] = "E" /\ T[a + o + t + 14] = "e"
        /\ T[a + o + t + 15] = f.exit /\ T[a + o + t + 16] = "n"
        /\ T[a + o + t + 17] = "C" /\ T[a + o + t + 18] = "c" /\ T[a + o + t + 19] = "w"
        /\ T[a + o + t + 20] = "n"
        /\ T[a + o + t + 21] = "H" /\ T[a + o + t + 22] = "h" /\ T[a + o + t + 23] = "n"
    BY <1>10, Zenon DEF Laid
  <2>2. j \in {12, 13, 14, 15, 16, 17, 18, 19, 20, 21, 22, 23}
    BY <2>0
  <2>3. /\ T[k] = "E" => j = 13
        /\ T[k] = "H" => j = 21
        /\ j > 13 => T[k] \in {"e", f.exit, "n", "C", "c", "w", "H", "h"}
        /\ j > 21 /\ T[k] = "n" => j = 23
    <3>1. /\ j = 12 => T[k] = "n"
          /\ j = 13 => T[k] = "E"
          /\ j = 14 => T[k] = "e"
          /\ j = 15 => T[k] = f.exit
          /\ j = 16 => T[k] = "n"
          /\ j = 17 => T[k] = "C"
          /\ j = 18 => T[k] = "c"
          /\ j = 19 => T[k] = "w"
          /\ j = 20 => T[k] = "n"
          /\ j = 21 => T[k] = "H"
          /\ j = 22 => T[k] = "h"
          /\ j = 23 => T[k] = "n"
      BY <2>0, <2>1
    <3> QED BY <1>3, <2>2, <3>1
  <2>4. /\ k > a + o + t + 13 => j > 13
        /\ k > a + o + t + 21 => j > 21
    BY <1>1, <2>0
  <2> QED BY <1>2, <1>10, <2>0, <2>3, <2>4
<1>11. \/ k \in 1..a
       \/ k \in {a + 1, a + 2, a + 3, a + 4}
       \/ \E j \in 1..o : k = a + 4 + j
       \/ k \in {a + o + 5, a + o + 6, a + o + 7, a + o + 8}
       \/ \E j \in 1..t : k = a + o + 8 + j
       \/ k \in {a + o + t + 9, a + o + t + 10, a + o + t + 11}
       \/ f.health /\ \E j \in 12..23 : k = a + o + t + j
  BY SMTT(30), StreamRegions
<1> QED BY <1>4, <1>5, <1>6, <1>7, <1>8, <1>9, <1>10, <1>11, Zenon

-----------------------------------------------------------------------------
(* What the symbols put aside tell about the stream.                       *)

\* A text that begins with a marker line begins with its first symbol.
LEMMA PrefixHead ==
  ASSUME NEW S, NEW s \in Seq(S), NEW x, NEW y, IsPrefix(<<x, y>>, s)
  PROVE  Len(s) \in Nat /\ Len(s) >= 2 /\ s[1] = x
<1>1. Len(<<x, y>>) = 2 /\ Len(s) \in Nat
  OBVIOUS
<1>2. 2 <= Len(s) /\ SubSeq(<<x, y>>, 1, 2) = SubSeq(s, 1, 2)
  BY <1>1 DEF IsPrefix
<1>3. SubSeq(<<x, y>>, 1, 2)[1] = x
  OBVIOUS
<1>4. SubSeq(s, 1, 2)[1] = s[1]
  BY <1>1, <1>2
<1> QED BY <1>1, <1>2, <1>3, <1>4

\* One index more.
LEMMA RangeStep == \A m \in Nat : \A i \in 1..m + 1 : i \in 1..m \/ i = m + 1
  OBVIOUS

\* What the marks among the symbols put aside say about how far the stream was read.
Scanned(f, s, c, n) ==
  /\ \A i \in 1..Len(s) : s[i] = "E" => f.health /\ c >= n + 13
  /\ \A i, j \in 1..Len(s) : i < j /\ s[i] = "E" =>
       s[j] \in {"e", f.exit, "n", "C", "c", "w", "H", "h"}
  /\ \A i \in 1..Len(s) : s[i] = "H" => f.health /\ c >= n + 21

\* Nothing put aside.
LEMMA ScannedEmpty == \A f, c, n : Scanned(f, <<>>, c, n)
<1>1. Len(<<>>) = 0 /\ 1..0 = {}
  OBVIOUS
<1> QED BY <1>1 DEF Scanned

\* The knowledge stays true when more is read.
LEMMA ScannedLater ==
  ASSUME NEW f, NEW s, NEW n \in Nat, NEW c \in Nat, NEW d \in Nat, c <= d, Scanned(f, s, c, n)
  PROVE  Scanned(f, s, d, n)
<1>1. (c >= n + 13 => d >= n + 13) /\ (c >= n + 21 => d >= n + 21)
  OBVIOUS
<1> QED BY <1>1 DEF Scanned

\* The knowledge stays true of the end of a long line.
LEMMA ScannedSuffix ==
  ASSUME NEW f, NEW s \in Seq(Alphabet), NEW n, NEW c, NEW m \in 0..Len(s), Scanned(f, s, c, n)
  PROVE  Scanned(f, SubSeq(s, m + 1, Len(s)), c, n)
<1> DEFINE u == SubSeq(s, m + 1, Len(s))
<1>1. /\ Len(u) = Len(s) - m /\ Len(s) \in Nat /\ Len(s) - m \in Nat
      /\ \A i \in 1..Len(s) - m : m + i \in 1..Len(s) /\ u[i] = s[m + i]
  OBVIOUS
<1> HIDE DEF u
<1>2. ASSUME NEW i \in 1..Len(u), u[i] = "E" PROVE f.health /\ c >= n + 13
  <2>1. m + i \in 1..Len(s) /\ s[m + i] = "E"
    BY <1>1, <1>2
  <2> QED BY <2>1 DEF Scanned
<1>3. ASSUME NEW i \in 1..Len(u), NEW j \in 1..Len(u), i < j, u[i] = "E"
      PROVE  u[j] \in {"e", f.exit, "n", "C", "c", "w", "H", "h"}
  <2>1. m + i \in 1..Len(s) /\ s[m + i] = "E" /\ m + j \in 1..Len(s) /\ s[m + j] = u[j]
    BY <1>1, <1>3
  <2>2. m + i < m + j
    BY <1>1, <1>3
  <2> QED BY <2>1, <2>2 DEF Scanned
<1>4. ASSUME NEW i \in 1..Len(u), u[i] = "H" PROVE f.health /\ c >= n + 21
  <2>1. m + i \in 1..Len(s) /\ s[m + i] = "H"
    BY <1>1, <1>4
  <2> QED BY <2>1 DEF Scanned
<1>5. Scanned(f, u, c, n)
  BY <1>2, <1>3, <1>4 DEF Scanned
<1> QED BY <1>5 DEF u

\* One symbol more of the stream is put aside.
LEMMA ScannedAppend ==
  ASSUME NEW f, NEW T, NEW a, NEW o, NEW t, Laid(f, T, a, o, t), NEW s \in Seq(Alphabet),
         NEW c \in Nat, c + 1 \in 1..Len(T), Scanned(f, s, c, a + o + t)
  PROVE  Scanned(f, Append(s, T[c + 1]), c + 1, a + o + t)
<1>1. a + o + t \in Nat
  <2>1. a \in Nat /\ o \in Nat /\ t \in Nat
    BY Zenon DEF Laid
  <2> QED BY <2>1
<1>2. PICK n \in Nat : n = a + o + t
  BY <1>1
<1>3. PICK x : x = T[c + 1]
  OBVIOUS
<1>4. /\ x = "E" => f.health /\ c + 1 = n + 13
      /\ x = "H" => f.health /\ c + 1 = n + 21
      /\ f.health /\ c + 1 > n + 13 => x \in {"e", f.exit, "n", "C", "c", "w", "H", "h"}
  <2>1. PICK k \in 1..Len(T) : k = c + 1
    OBVIOUS
  <2>2. /\ T[k] = "E" => f.health /\ k = a + o + t + 13
        /\ T[k] = "H" => f.health /\ k = a + o + t + 21
        /\ f.health /\ k > a + o + t + 13 => T[k] \in {"e", f.exit, "n", "C", "c", "w", "H", "h"}
    BY EndMarks
  <2> QED BY <2>1, <2>2, <1>2, <1>3, Zenon
<1> DEFINE u == Append(s, x)
<1>5. /\ Len(u) = Len(s) + 1 /\ Len(s) \in Nat /\ u[Len(s) + 1] = x
      /\ \A i \in 1..Len(s) : u[i] = s[i]
  OBVIOUS
<1> HIDE DEF u
<1>6. \A i \in 1..Len(u) : i \in 1..Len(s) \/ i = Len(s) + 1
  BY <1>5, RangeStep
<1>7. ASSUME NEW i \in 1..Len(u), u[i] = "E" PROVE f.health /\ c + 1 >= n + 13
  <2>1. CASE i \in 1..Len(s)
    <3>1. f.health /\ c >= n + 13
      BY <2>1, <1>2, <1>5, <1>7 DEF Scanned
    <3> QED BY <3>1
  <2>2. CASE i = Len(s) + 1
    <3>1. f.health /\ c + 1 = n + 13
      BY <2>2, <1>4, <1>5, <1>7
    <3> QED BY <3>1
  <2> QED BY <2>1, <2>2, <1>6
<1>8. ASSUME NEW i \in 1..Len(u), NEW j \in 1..Len(u), i < j, u[i] = "E"
      PROVE  u[j] \in {"e", f.exit, "n", "C", "c", "w", "H", "h"}
  <2>0. i \in 1..Len(s) /\ s[i] = "E"
    <3>1. i # Len(s) + 1
      BY <1>8, <1>5
    <3> QED BY <3>1, <1>5, <1>6, <1>8
  <2>1. CASE j \in 1..Len(s)
    BY <2>0, <2>1, <1>5, <1>8 DEF Scanned
  <2>2. CASE j = Len(s) + 1
    <3>1. f.health /\ c >= n + 13
      BY <2>0, <1>2 DEF Scanned
    <3>2. c + 1 > n + 13
      BY <3>1
    <3> QED BY <3>1, <3>2, <1>4, <1>5, <2>2
  <2> QED BY <2>1, <2>2, <1>6
<1>9. ASSUME NEW i \in 1..Len(u), u[i] = "H" PROVE f.health /\ c + 1 >= n + 21
  <2>1. CASE i \in 1..Len(s)
    <3>1. f.health /\ c >= n + 21
      BY <2>1, <1>2, <1>5, <1>9 DEF Scanned
    <3> QED BY <3>1
  <2>2. CASE i = Len(s) + 1
    <3>1. f.health /\ c + 1 = n + 21
      BY <2>2, <1>4, <1>5, <1>9
    <3> QED BY <3>1
  <2> QED BY <2>1, <2>2, <1>6
<1>10. Scanned(f, u, c + 1, n)
  BY <1>7, <1>8, <1>9 DEF Scanned
<1> QED BY <1>10, <1>2, <1>3 DEF u

\* A line that ends with an exit status ends with the command's.
LEMMA EndLine ==
  ASSUME NEW f, FrameOf(f), NEW s \in Seq(Alphabet), NEW c, NEW n, Scanned(f, s, c, n),
         IsPrefix(EndMark, Plain(s)), Len(Plain(s)) = 3, Plain(s)[3] \in {"0", "1"}
  PROVE  f.health /\ Plain(s)[3] = f.exit
<1>1. Plain(s) \in Seq(Alphabet) /\ Drawn(Plain(s), s, Len(s))
  BY PlainDrawn
<1>2. PICK l \in Seq(Alphabet) : l = Plain(s)
  BY <1>1
<1>3. l[1] = "E"
  <2>1. IsPrefix(<<"E", "e">>, l)
    BY <1>2 DEF EndMark
  <2> QED BY <2>1, PrefixHead
<1>4. 1 \in 1..Len(l) /\ 3 \in 1..Len(l) /\ 1 < 3
  <2>1. Len(l) = 3
    BY <1>2
  <2> QED BY <2>1
<1>5. PICK i \in 1..Len(s), j \in 1..Len(s) : i < j /\ s[i] = l[1] /\ s[j] = l[3]
  BY SMTT(30), <1>1, <1>2, <1>4 DEF Drawn
<1>6. f.health /\ s[j] \in {"e", f.exit, "n", "C", "c", "w", "H", "h"}
  BY <1>3, <1>5 DEF Scanned
<1>7. f.exit \in {"0", "1"}
  BY Zenon DEF FrameOf
<1>8. l[3] = f.exit
  BY <1>2, <1>5, <1>6, <1>7
<1> QED BY <1>2, <1>6, <1>8

\* A line taken for the proof of identity is at the end of the stream.
LEMMA HealthLine ==
  ASSUME NEW f, NEW s \in Seq(Alphabet), NEW c, NEW n, Scanned(f, s, c, n), Plain(s) = Health
  PROVE  f.health /\ c >= n + 21
<1>1. Plain(s) \in Seq(Alphabet) /\ Drawn(Plain(s), s, Len(s))
  BY PlainDrawn
<1>2. Len(Plain(s)) = 2 /\ Plain(s)[1] = "H"
  BY DEF Health
<1>3. 1 \in 1..Len(Plain(s))
  BY <1>2
<1>4. PICK i \in 1..Len(s) : s[i] = "H"
  BY <1>1, <1>2, <1>3 DEF Drawn
<1> QED BY <1>4 DEF Scanned

\* What is stored is never longer than max_output_bytes.
LEMMA StoresBounded ==
  ASSUME NEW p \in ParserType, NEW q, NEW s \in Seq(Alphabet), Stores(p, q, s)
  PROVE  Len(q.output) <= MaxBytes
<1>1. p.output \in Seq(Alphabet) /\ MaxBytes \in Nat
  BY MaxBytesAssumption DEF ParserType
<1>2. PICK u \in Seq(Alphabet) : u = p.output \o s
  BY <1>1, ConcatProperties
<1>3. q.output = Newest(u, MaxBytes)
  BY <1>2 DEF Stores
<1>4. Len(Newest(u, MaxBytes)) = (IF Len(u) > MaxBytes THEN MaxBytes ELSE Len(u))
  BY <1>1, <1>2, NewestProperties
<1>5. Len(u) \in Nat
  BY <1>2
<1> QED BY <1>1, <1>3, <1>4, <1>5

\* A long line is cut but for its end.
LEMMA BoundLine ==
  ASSUME NEW p \in ParserType
  PROVE  LET q == _bound_partial_line(p) IN
         /\ q \in ParserType
         /\ \/ q = p /\ (p.verdict # "open" \/ Len(p.scan) <= LineLimit)
            \/ /\ p.verdict = "open" /\ Len(p.scan) > LineLimit /\ (~ p.started \/ p.exit # None)
               /\ q.verdict = "invalid" /\ q.scan = p.scan /\ q.exit = p.exit /\ Unstored(p, q)
            \/ /\ p.verdict = "open" /\ Len(p.scan) > LineLimit /\ p.started /\ p.exit = None
               /\ q.verdict = "open" /\ q.exit = None /\ q.started /\ q.debug = p.debug
               /\ q.line = None
               /\ q.scan = SubSeq(p.scan, (Len(p.scan) - LineLimit) + 1, Len(p.scan))
               /\ \E w \in ParserType :
                    /\ p.line = None => Unstored(p, w)
                    /\ p.line # None => Stores(p, w, Append(p.line, NewLine))
                    /\ Stores(w, q, SubSeq(p.scan, 1, Len(p.scan) - LineLimit))
<1> DEFINE q == _bound_partial_line(p)
           n == Len(p.scan) - LineLimit
           w == StorePending(p)
           r == _store_output(w, SubSeq(p.scan, 1, n))
<1>1. CASE p.verdict # "open" \/ Len(p.scan) <= LineLimit
  <2>1. q = p
    BY <1>1 DEF _bound_partial_line
  <2> HIDE DEF q
  <2> QED BY <1>1, <2>1 DEF q
<1>0. p.scan \in Seq(Alphabet) /\ Len(p.scan) \in Nat /\ LineLimit \in Nat
  BY TerminalBounds DEF ParserType
<1>2. CASE p.verdict = "open" /\ Len(p.scan) > LineLimit /\ (~ p.started \/ p.exit # None)
  <2>1. q = [p EXCEPT !.verdict = "invalid"]
    <3>1. ~ (p.verdict # "open" \/ Len(p.scan) <= LineLimit)
      BY <1>0, <1>2
    <3> QED BY <1>2, <3>1, Zenon DEF _bound_partial_line, Invalid
  <2>2. WithVerdict(p, q, "invalid")
    BY <2>1, SetVerdict
  <2> HIDE DEF q
  <2>3. q \in ParserType /\ q.verdict = "invalid" /\ q.scan = p.scan /\ q.exit = p.exit /\ Unstored(p, q)
    BY <2>2 DEF WithVerdict, Unstored
  <2> QED BY <1>2, <2>3 DEF q
<1>3. CASE p.verdict = "open" /\ Len(p.scan) > LineLimit /\ p.started /\ p.exit = None
  <2>1. q = [r EXCEPT !.scan = SubSeq(p.scan, n + 1, Len(p.scan))]
    <3>1. ~ (p.verdict # "open" \/ Len(p.scan) <= LineLimit) /\ ~ (~ p.started \/ p.exit # None)
      BY <1>0, <1>3
    <3> QED BY <3>1, Zenon DEF _bound_partial_line
  <2>2. n \in Nat /\ n <= Len(p.scan)
    BY <1>0, <1>3
  <2>3. SubSeq(p.scan, 1, n) \in Seq(Alphabet) /\ SubSeq(p.scan, n + 1, Len(p.scan)) \in Seq(Alphabet)
    BY <1>0, <2>2
  <2>4. /\ w \in ParserType /\ w.line = None /\ Behind(p, w)
        /\ p.line = None => Unstored(p, w)
        /\ p.line # None => Stores(p, w, Append(p.line, NewLine))
    BY StoresPending
  <2> HIDE DEF n, w
  <2>5. /\ r \in ParserType /\ Stores(w, r, SubSeq(p.scan, 1, n)) /\ r.line = None /\ Behind(w, r)
    BY <2>3, <2>4, StoreOutput DEF Stores, Behind
  <2> HIDE DEF r
  <2>6. WithScan(r, q, SubSeq(p.scan, n + 1, Len(p.scan)))
    BY <2>1, <2>3, <2>5, SetScan
  <2> HIDE DEF q
  <2>7. /\ q \in ParserType /\ q.scan = SubSeq(p.scan, n + 1, Len(p.scan)) /\ q.line = None
        /\ Stores(w, q, SubSeq(p.scan, 1, n)) /\ q.debug = p.debug /\ q.verdict = p.verdict
        /\ q.exit = p.exit /\ q.started = p.started
    BY <2>4, <2>5, <2>6 DEF WithScan, Stores, Behind
  <2> QED BY <1>3, <2>4, <2>7 DEF q, n
<1>4. \/ p.verdict # "open" \/ Len(p.scan) <= LineLimit
      \/ p.verdict = "open" /\ Len(p.scan) > LineLimit /\ (~ p.started \/ p.exit # None)
      \/ p.verdict = "open" /\ Len(p.scan) > LineLimit /\ p.started /\ p.exit = None
  <2>1. Len(p.scan) <= LineLimit \/ Len(p.scan) > LineLimit
    BY <1>0
  <2> QED BY <2>1
<1> QED BY <1>1, <1>2, <1>3, <1>4, Zenon

-----------------------------------------------------------------------------
(* What holds of the parser whatever was lost.                             *)

\* The general invariant: it holds whatever was lost.  A line can only be taken for a closing
\* marker if the stream has one and was read that far.
Honest(f, p, c, n) ==
  /\ p \in ParserType
  /\ Len(p.output) <= MaxBytes
  /\ Scanned(f, p.scan, c, n)
  /\ p.exit # None => f.health /\ p.exit = f.exit
  /\ p.verdict = "complete" => p.exit # None /\ c = n + 23

\* Symbols that are skipped do no harm to the general invariant.
LEMMA HonestLater ==
  ASSUME NEW f, NEW T, NEW a, NEW o, NEW t, Laid(f, T, a, o, t), NEW p,
         NEW c \in Nat, NEW d \in Nat, c <= d, d <= Len(T), Honest(f, p, c, a + o + t)
  PROVE  Honest(f, p, d, a + o + t)
<1>1. PICK n \in Nat : n = a + o + t
  <2>1. a \in Nat /\ o \in Nat /\ t \in Nat
    BY Zenon DEF Laid
  <2> QED BY <2>1
<1>2. Honest(f, p, c, n)
  BY <1>1
<1>3. Scanned(f, p.scan, d, n)
  BY <1>2, ScannedLater DEF Honest
<1>4. p.verdict = "complete" => p.exit # None /\ d = n + 23
  <2> SUFFICES ASSUME p.verdict = "complete" PROVE p.exit # None /\ d = n + 23
    OBVIOUS
  <2>1. p.exit # None /\ c = n + 23 /\ f.health
    BY <1>2 DEF Honest
  <2>2. Len(T) = n + 23
    BY <1>1, <2>1, ZenonT(40) DEF Laid
  <2> QED BY <2>1, <2>2
<1>5. Honest(f, p, d, n)
  BY <1>2, <1>3, <1>4 DEF Honest
<1> QED BY <1>1, <1>5

\* Flushing a long line keeps the general invariant.
LEMMA HonestBound ==
  ASSUME NEW f, NEW p, NEW c, NEW n, Honest(f, p, c, n)
  PROVE  Honest(f, _bound_partial_line(p), c, n)
<1>0. p \in ParserType /\ Len(p.output) <= MaxBytes /\ Scanned(f, p.scan, c, n)
  BY DEF Honest
<1>01. p.scan \in Seq(Alphabet) /\ Len(p.scan) \in Nat /\ LineLimit \in Nat
  BY <1>0, TerminalBounds DEF ParserType
<1>1. PICK q : q = _bound_partial_line(p)
  OBVIOUS
<1>2. /\ q \in ParserType
      /\ \/ q = p
         \/ /\ q.verdict = "invalid" /\ q.scan = p.scan /\ q.exit = p.exit /\ Unstored(p, q)
         \/ /\ q.verdict = "open" /\ q.exit = None /\ Len(p.scan) > LineLimit
            /\ q.scan = SubSeq(p.scan, (Len(p.scan) - LineLimit) + 1, Len(p.scan))
            /\ \E w \in ParserType : Stores(w, q, SubSeq(p.scan, 1, Len(p.scan) - LineLimit))
  BY <1>0, <1>1, BoundLine
<1>3. CASE q = p
  BY <1>1, <1>3
<1>4. CASE q.verdict = "invalid" /\ q.scan = p.scan /\ q.exit = p.exit /\ Unstored(p, q)
  <2>1. Honest(f, q, c, n)
    BY <1>2, <1>4 DEF Honest, Unstored
  <2> QED BY <2>1, <1>1
<1>5. CASE /\ q.verdict = "open" /\ q.exit = None /\ Len(p.scan) > LineLimit
           /\ q.scan = SubSeq(p.scan, (Len(p.scan) - LineLimit) + 1, Len(p.scan))
           /\ \E w \in ParserType : Stores(w, q, SubSeq(p.scan, 1, Len(p.scan) - LineLimit))
  <2>1. PICK m \in 0..Len(p.scan) : m = Len(p.scan) - LineLimit
    BY <1>01, <1>5
  <2>2. SubSeq(p.scan, 1, m) \in Seq(Alphabet)
    BY <1>01
  <2>3. Len(q.output) <= MaxBytes
    BY <1>5, <2>1, <2>2, StoresBounded
  <2>4. Scanned(f, q.scan, c, n)
    BY <1>0, <1>01, <1>5, <2>1, ScannedSuffix
  <2>5. Honest(f, q, c, n)
    BY <1>2, <1>5, <2>3, <2>4 DEF Honest
  <2> QED BY <2>5, <1>1
<1> QED BY <1>2, <1>3, <1>4, <1>5

\* The end of a line keeps the general invariant.
LEMMA HonestConsume ==
  ASSUME NEW f, NEW T, NEW a, NEW o, NEW t, Laid(f, T, a, o, t), NEW p, NEW c \in Nat,
         c + 1 \in 1..Len(T), T[c + 1] = "n", p.verdict = "open", Honest(f, p, c, a + o + t)
  PROVE  Honest(f, _consume_line(p), c + 1, a + o + t)
<1>1. PICK n \in Nat : n = a + o + t
  <2>1. a \in Nat /\ o \in Nat /\ t \in Nat
    BY Zenon DEF Laid
  <2> QED BY <2>1
<1>2. /\ p \in ParserType /\ Len(p.output) <= MaxBytes /\ Scanned(f, p.scan, c, n)
      /\ p.exit # None => f.health /\ p.exit = f.exit
  BY <1>1 DEF Honest
<1>3. PICK q : q = _consume_line(p)
  OBVIOUS
<1>4. p.scan \in Seq(Alphabet) /\ p.line \in Seq(Alphabet) \union {None}
  BY <1>2 DEF ParserType
<1>0. FrameOf(f)
  BY Zenon DEF Laid
<1>5. SUFFICES Honest(f, q, c + 1, n)
  BY <1>1, <1>3
<1>6. CASE ~ p.started
  <2>1. /\ q \in ParserType /\ q.scan = <<>> /\ Unstored(p, q) /\ q.exit = p.exit
        /\ q.verdict \in {p.verdict, "invalid"}
    BY <1>2, <1>3, <1>6, ConsumeBefore
  <2>2. q.verdict # "complete" /\ Len(q.output) <= MaxBytes
    BY <1>2, <2>1 DEF Unstored
  <2>3. Scanned(f, q.scan, c + 1, n)
    BY <2>1, ScannedEmpty
  <2> QED BY <1>2, <2>1, <2>2, <2>3 DEF Honest
<1>7. CASE p.started /\ p.exit = None /\ p.debug = "inside"
  <2>1. /\ q \in ParserType /\ q.scan = <<>> /\ Unstored(p, q) /\ q.exit = p.exit
        /\ q.verdict \in {p.verdict, "invalid"}
    BY <1>2, <1>3, <1>7, ConsumeInside
  <2>2. q.verdict # "complete" /\ Len(q.output) <= MaxBytes
    BY <1>2, <2>1 DEF Unstored
  <2>3. Scanned(f, q.scan, c + 1, n)
    BY <2>1, ScannedEmpty
  <2> QED BY <1>2, <2>1, <2>2, <2>3 DEF Honest
<1>8. CASE p.started /\ p.exit = None /\ p.debug # "inside"
  <2>1. /\ q \in ParserType /\ q.scan = <<>> /\ q.verdict \in {p.verdict, "invalid"}
        /\ \/ q.exit = None
           \/ /\ IsPrefix(EndMark, Plain(p.scan)) /\ Len(Plain(p.scan)) = 3
              /\ Plain(p.scan)[3] \in {"0", "1"} /\ q.exit = Plain(p.scan)[3]
        /\ \/ Unstored(p, q)
           \/ p.line # None /\ Stores(p, q, p.line)
           \/ p.line # None /\ Stores(p, q, Append(p.line, NewLine))
    BY <1>2, <1>3, <1>8, ConsumeOutside
  <2>2. Len(q.output) <= MaxBytes
    <3>1. CASE Unstored(p, q)
      BY <1>2, <3>1 DEF Unstored
    <3>2. CASE p.line # None /\ Stores(p, q, p.line)
      BY <1>2, <1>4, <3>2, StoresBounded
    <3>3. CASE p.line # None /\ Stores(p, q, Append(p.line, NewLine))
      <4>1. Append(p.line, NewLine) \in Seq(Alphabet)
        BY <1>4, <3>3 DEF Alphabet
      <4> QED BY <1>2, <4>1, <3>3, StoresBounded
    <3> QED BY <2>1, <3>1, <3>2, <3>3
  <2>3. Scanned(f, q.scan, c + 1, n)
    BY <2>1, ScannedEmpty
  <2>4. q.exit # None => f.health /\ q.exit = f.exit
    BY <1>0, <1>2, <1>4, <2>1, EndLine
  <2>5. q.verdict # "complete"
    BY <2>1
  <2> QED BY <2>1, <2>2, <2>3, <2>4, <2>5 DEF Honest
<1>9. CASE p.started /\ p.exit # None
  <2>1. /\ q \in ParserType /\ q.scan = <<>> /\ Unstored(p, q) /\ q.exit = p.exit
        /\ q.verdict \in {p.verdict, "invalid"} \/ (q.verdict = "complete" /\ Plain(p.scan) = Health)
    BY <1>2, <1>3, <1>9, ConsumeAfter
  <2>2. Len(q.output) <= MaxBytes
    BY <1>2, <2>1 DEF Unstored
  <2>3. Scanned(f, q.scan, c + 1, n)
    BY <2>1, ScannedEmpty
  <2>4. ASSUME q.verdict = "complete" PROVE q.exit # None /\ c + 1 = n + 23
    <3>1. Plain(p.scan) = Health
      BY <2>1, <2>4
    <3>2. f.health /\ c >= n + 21
      BY <3>1, <1>2, <1>4, HealthLine
    <3>3. PICK k \in 1..Len(T) : k = c + 1
      OBVIOUS
    <3>4. k > n + 21 /\ T[k] = "n"
      BY <3>2, <3>3
    <3>5. k = Len(T) /\ Len(T) = n + 23
      BY <1>1, <3>2, <3>4, EndMarks
    <3> QED BY <1>9, <2>1, <3>3, <3>5
  <2> QED BY <1>2, <2>1, <2>2, <2>3, <2>4 DEF Honest
<1> QED BY <1>6, <1>7, <1>8, <1>9

\* One symbol of the stream keeps the general invariant.
LEMMA HonestTake ==
  ASSUME NEW f, NEW T, NEW a, NEW o, NEW t, Laid(f, T, a, o, t), NEW p, NEW c \in Nat,
         c + 1 \in 1..Len(T), Honest(f, p, c, a + o + t)
  PROVE  Honest(f, Take(p, T[c + 1]), c + 1, a + o + t)
<1>1. CASE p.verdict # "open"
  <2>1. Take(p, T[c + 1]) = p
    BY <1>1 DEF Take
  <2>2. c <= c + 1 /\ c + 1 <= Len(T) /\ c + 1 \in Nat
    <3>1. Len(T) \in Nat
      BY LenProperties, ZenonT(40) DEF Laid
    <3> QED BY <3>1
  <2> QED BY <2>1, <2>2, HonestLater
<1>2. CASE p.verdict = "open" /\ T[c + 1] = "n"
  <2>1. Take(p, T[c + 1]) = _consume_line(p)
    BY <1>2 DEF Take, NewLine
  <2> QED BY <1>2, <2>1, HonestConsume
<1>3. CASE p.verdict = "open" /\ T[c + 1] # "n"
  <2>0. PICK x : x = T[c + 1]
    OBVIOUS
  <2>1. p \in ParserType /\ x \in Alphabet /\ x # NewLine
    <3>1. T \in Seq(Alphabet)
      BY Zenon DEF Laid
    <3>2. p \in ParserType
      BY DEF Honest
    <3> QED BY <1>3, <2>0, <3>1, <3>2, ElementOfSeq DEF NewLine
  <2>2. PICK q : q = Take(p, x)
    OBVIOUS
  <2>3. /\ q \in ParserType /\ q.scan = Append(p.scan, x) /\ Unstored(p, q)
        /\ q.exit = p.exit /\ q.verdict = "open"
    BY <1>3, <2>1, <2>2, TakeSymbol
  <2>4. p.scan \in Seq(Alphabet)
    BY <2>1 DEF ParserType
  <2>5. Scanned(f, q.scan, c + 1, a + o + t)
    BY <2>0, <2>3, <2>4, ScannedAppend DEF Honest
  <2>6. Honest(f, q, c + 1, a + o + t)
    BY <2>3, <2>5 DEF Honest, Unstored
  <2> QED BY <2>0, <2>2, <2>6
<1> QED BY <1>1, <1>2, <1>3

-----------------------------------------------------------------------------
(* feed, symbol by symbol.                                                 *)

\* The table of the recursion that feed is.
IsFeedTable(g, p, data, n) ==
  g = [i \in 0..n |-> IF i = 0 THEN p ELSE Take(g[i - 1], data[i])]

\* The table of a recursion over the symbols of a read exists.
LEMMA FeedTableExists ==
  ASSUME NEW p, NEW data
  PROVE  \A n \in Nat : \E g : IsFeedTable(g, p, data, n)
<1> DEFINE S == {n \in Nat : \E g : IsFeedTable(g, p, data, n)}
<1>1. 0 \in S
  <2> DEFINE g == [i \in 0..0 |-> p]
  <2>1. IsFeedTable(g, p, data, 0)
    BY DEF IsFeedTable
  <2> QED BY <2>1
<1>2. ASSUME NEW n \in Nat, n \in S PROVE n + 1 \in S
  <2>1. PICK g : IsFeedTable(g, p, data, n)
    BY <1>2
  <2> DEFINE h == [i \in 0..n + 1 |-> IF i = n + 1 THEN Take(g[n], data[n + 1]) ELSE g[i]]
  <2>2. \A i \in 0..n : h[i] = g[i]
    OBVIOUS
  <2>3. \A i \in 0..n : g[i] = IF i = 0 THEN p ELSE Take(g[i - 1], data[i])
    BY <2>1 DEF IsFeedTable
  <2>4. ASSUME NEW i \in 0..n + 1
        PROVE  h[i] = IF i = 0 THEN p ELSE Take(h[i - 1], data[i])
    <3>1. CASE i = n + 1
      <4>1. i # 0 /\ i - 1 = n /\ i - 1 \in 0..n
        BY <3>1
      <4> QED BY <3>1, <4>1, <2>2
    <3>2. CASE i # n + 1
      <4>1. i \in 0..n /\ (i # 0 => i - 1 \in 0..n)
        BY <3>2
      <4> QED BY <4>1, <2>2, <2>3
    <3> QED BY <3>1, <3>2
  <2>5. IsFeedTable(h, p, data, n + 1)
    <3>1. h = [i \in 0..n + 1 |-> h[i]]
      OBVIOUS
    <3> HIDE DEF h
    <3> QED BY <3>1, <2>4 DEF IsFeedTable
  <2> QED BY <2>5
<1>3. Nat \subseteq S
  <2> HIDE DEF S
  <2> QED BY <1>1, <1>2, SetInduction
<1> QED BY <1>3

\* feed takes the symbols one by one, and bounds the partial line at the end.
LEMMA FeedByTable ==
  ASSUME NEW p, NEW data, Len(data) \in Nat
  PROVE  \E g : /\ g[0] = p
                /\ \A i \in 0..Len(data) - 1 : g[i + 1] = Take(g[i], data[i + 1])
                /\ feed(p, data) = _bound_partial_line(g[Len(data)])
<1> DEFINE g == CHOOSE g : IsFeedTable(g, p, data, Len(data))
<1>1. IsFeedTable(g, p, data, Len(data))
  BY FeedTableExists
<1>2. feed(p, data) = _bound_partial_line(g[Len(data)])
  BY DEF feed, IsFeedTable
<1> HIDE DEF g
<1>3. \A i \in 0..Len(data) : g[i] = IF i = 0 THEN p ELSE Take(g[i - 1], data[i])
  BY <1>1 DEF IsFeedTable
<1>4. g[0] = p
  <2>1. 0 \in 0..Len(data)
    OBVIOUS
  <2> QED BY <2>1, <1>3
<1>5. ASSUME NEW i \in 0..Len(data) - 1 PROVE g[i + 1] = Take(g[i], data[i + 1])
  <2>1. i + 1 \in 0..Len(data) /\ i + 1 # 0 /\ (i + 1) - 1 = i
    OBVIOUS
  <2> QED BY <2>1, <1>3
<1> QED BY <1>2, <1>4, <1>5

\* Tuples are sequences.
LEMMA AppendNone == ASSUME NEW x PROVE Append(<<>>, x) = <<x>>
<1> DEFINE S == {x}
           l == Append(<<>>, x)
           r == <<x>>
<1>1. l \in Seq(S) /\ r \in Seq(S)
  OBVIOUS
<1>2. Len(l) = 1 /\ Len(r) = 1 /\ l[1] = r[1]
  OBVIOUS
<1> HIDE DEF l, r, S
<1>3. Len(l) = Len(r) /\ \A i \in 1..Len(l) : l[i] = r[i]
  BY <1>2
<1>4. l = r
  BY <1>1, <1>3, SeqEqual
<1> QED BY <1>4 DEF l, r

\* Tuples are sequences.
LEMMA AppendOne == ASSUME NEW x, NEW y PROVE Append(<<x>>, y) = <<x, y>>
<1> DEFINE S == {x, y}
           l == Append(<<x>>, y)
           r == <<x, y>>
<1>1. l \in Seq(S) /\ r \in Seq(S)
  OBVIOUS
<1>2. Len(l) = 2 /\ Len(r) = 2 /\ l[1] = r[1] /\ l[2] = r[2]
  OBVIOUS
<1> HIDE DEF l, r, S
<1>3. Len(l) = Len(r) /\ \A i \in 1..Len(l) : l[i] = r[i]
  BY <1>2
<1>4. l = r
  BY <1>1, <1>3, SeqEqual
<1> QED BY <1>4 DEF l, r

\* Marker lines hold no escape sequence.
LEMMA PlainMarks ==
  /\ Plain(<<>>) = <<>>
  /\ Plain(<<"B", "b">>) = Begin
  /\ Plain(<<"D", "d">>) = DebugBegin
  /\ Plain(<<"F", "f">>) = DebugEnd
  /\ \A x \in {"0", "1"} : Plain(<<"E", "e", x>>) = <<"E", "e", x>>
<1>1. Escape[2] = "e2"
  BY DEF Escape
<1>2. Plain(<<>>) = <<>>
  <2>1. <<>> \in Seq({}) /\ Len(<<>>) = 0
    OBVIOUS
  <2>2. \A i \in 1..Len(<<>>) : <<>>[i] # Escape[2]
    BY <2>1
  <2> QED BY <2>1, <2>2, PlainOfPlain
<1>3. ASSUME NEW x, NEW y, x # "e2", y # "e2" PROVE Plain(<<x, y>>) = <<x, y>>
  <2> DEFINE s == <<x, y>>
  <2>1. s \in Seq({x, y}) /\ Len(s) = 2 /\ s[1] = x /\ s[2] = y
    OBVIOUS
  <2> HIDE DEF s
  <2>2. \A i \in 1..Len(s) : s[i] # Escape[2]
    BY <1>1, <1>3, <2>1
  <2>3. Plain(s) = s
    BY <2>1, <2>2, PlainOfPlain
  <2> QED BY <2>3 DEF s
<1>4. ASSUME NEW x \in {"0", "1"} PROVE Plain(<<"E", "e", x>>) = <<"E", "e", x>>
  <2> DEFINE s == <<"E", "e", x>>
  <2>1. s \in Seq({"E", "e", x}) /\ Len(s) = 3 /\ s[1] = "E" /\ s[2] = "e" /\ s[3] = x
    OBVIOUS
  <2> HIDE DEF s
  <2>2. \A i \in 1..Len(s) : s[i] # Escape[2]
    BY <1>1, <2>1
  <2>3. Plain(s) = s
    BY <2>1, <2>2, PlainOfPlain
  <2> QED BY <2>3 DEF s
<1>5. Plain(<<"B", "b">>) = Begin /\ Plain(<<"D", "d">>) = DebugBegin /\ Plain(<<"F", "f">>) = DebugEnd
  BY <1>3 DEF Begin, DebugBegin, DebugEnd
<1> QED BY <1>2, <1>4, <1>5

\* No line that a program writes looks like a marker line.
LEMMA NoMarkerLine ==
  ASSUME NEW s \in Seq(Symbols)
  PROVE  /\ Plain(s) # Begin /\ ~ IsPrefix(Begin, Plain(s))
         /\ Plain(s) # DebugBegin /\ ~ IsPrefix(DebugBegin, Plain(s))
         /\ Plain(s) # DebugEnd /\ ~ IsPrefix(EndMark, Plain(s))
<1>1. PICK l \in Seq(Symbols) : l = Plain(s)
  BY PlainDrawn
<1>2. \A k \in 1..Len(l) : l[k] \notin {"B", "D", "F", "E", "C", "H"}
  BY NoMarker
<1>3. ASSUME NEW x \in {"B", "D", "F", "E"}, NEW y PROVE ~ IsPrefix(<<x, y>>, l) /\ l # <<x, y>>
  <2>1. ASSUME IsPrefix(<<x, y>>, l) PROVE FALSE
    <3>1. Len(l) \in Nat /\ Len(l) >= 2 /\ l[1] = x
      BY <2>1, PrefixHead
    <3>2. 1 \in 1..Len(l)
      BY <3>1
    <3> QED BY <1>2, <3>1, <3>2
  <2>2. ASSUME l = <<x, y>> PROVE FALSE
    <3>1. Len(l) = 2 /\ l[1] = x
      BY <2>2
    <3>2. 1 \in 1..Len(l)
      BY <3>1
    <3> QED BY <1>2, <3>1, <3>2
  <2> QED BY <2>1, <2>2
<1> QED BY <1>1, <1>3 DEF Begin, DebugBegin, DebugEnd, EndMark

-----------------------------------------------------------------------------
(* How far the parser is in a stream of which nothing was lost.            *)

\* The text s was stored.
Out(p, s) == p.output = Newest(s, MaxBytes) /\ (p.truncated <=> Len(s) > MaxBytes)
\* With the text s stored, what the parser has taken of the output.
Held(p, s) == s \o (IF p.line = None THEN p.scan ELSE Append(p.line, "n") \o p.scan)

Outside(p) == p.exit = None /\ p.debug = "unseen"
Before(p, c, a) ==
  c <= a /\ ~ p.started /\ Outside(p) /\ p.line = None /\ Out(p, <<>>) /\ p.scan \in Seq(Symbols)
AtBegin(p, c, a) ==
  /\ ~ p.started /\ Outside(p) /\ p.line = None /\ Out(p, <<>>)
  /\ \/ c = a + 1 /\ p.scan = <<>>
     \/ c = a + 2 /\ p.scan = <<"B">>
     \/ c = a + 3 /\ p.scan = <<"B", "b">>
InOutput(f, p, c, a, o) ==
  /\ p.started /\ Outside(p) /\ a + 4 <= c /\ c <= a + o + 4
  /\ p.scan \in Seq(Symbols)
  /\ \E s \in Seq(Alphabet) : Out(p, s) /\ Held(p, s) = SubSeq(f.out, 1, c - (a + 4))
AtDebugBegin(f, p, c, a, o) ==
  /\ p.started /\ Outside(p) /\ p.line # None
  /\ \E s \in Seq(Alphabet) : Out(p, s) /\ s \o p.line = f.out
  /\ \/ c = a + o + 5 /\ p.scan = <<>>
     \/ c = a + o + 6 /\ p.scan = <<"D">>
     \/ c = a + o + 7 /\ p.scan = <<"D", "d">>
InTrap(f, T, p, c, a, o, t) ==
  /\ t > 0 /\ a + o + 8 <= c /\ c <= a + o + t + 7
  /\ p.started /\ p.exit = None /\ p.debug = "inside" /\ p.scan \in Seq(Symbols)
  /\ c > a + o + 8 /\ T[c] # "n" => p.scan # <<>> /\ Last(p.scan) = T[c]
AtDebugEnd(f, p, c, a, o, t) ==
  /\ t = 0 /\ p.started /\ p.exit = None /\ p.debug = "inside" /\ p.line = None /\ Out(p, f.out)
  /\ \/ c = a + o + 8 /\ p.scan = <<>>
     \/ c = a + o + 9 /\ p.scan = <<"F">>
     \/ c = a + o + 10 /\ p.scan = <<"F", "f">>
AtEnd(f, p, c, a, o, t) ==
  /\ t = 0 /\ p.started /\ p.exit = None /\ p.debug = "seen" /\ Out(p, f.out)
  /\ \/ c = a + o + 11 /\ p.line = None /\ p.scan = <<>>
     \/ c = a + o + 12 /\ p.line = <<>> /\ p.scan = <<>>
     \/ c = a + o + 13 /\ p.line = <<>> /\ p.scan = <<"E">>
     \/ c = a + o + 14 /\ p.line = <<>> /\ p.scan = <<"E", "e">>
     \/ c = a + o + 15 /\ p.line = <<>> /\ p.scan = <<"E", "e", f.exit>>
AfterEnd(f, p, t) == t = 0 /\ p.started /\ p.exit # None /\ Out(p, f.out)

Exact(f, T, p, c, a, o, t) ==
  p.verdict # "invalid" =>
    \/ p.verdict = "open" /\ Before(p, c, a)
    \/ p.verdict = "open" /\ AtBegin(p, c, a)
    \/ p.verdict = "open" /\ InOutput(f, p, c, a, o)
    \/ p.verdict = "open" /\ AtDebugBegin(f, p, c, a, o)
    \/ p.verdict = "open" /\ InTrap(f, T, p, c, a, o, t)
    \/ p.verdict = "open" /\ AtDebugEnd(f, p, c, a, o, t)
    \/ p.verdict = "open" /\ AtEnd(f, p, c, a, o, t)
    \/ AfterEnd(f, p, t)

\* Storing more text after the text s.
LEMMA OutStores ==
  ASSUME NEW p \in ParserType, NEW q \in ParserType, NEW s \in Seq(Alphabet), NEW d \in Seq(Alphabet),
         Out(p, s), Stores(p, q, d)
  PROVE  Out(q, s \o d)
<1>1. MaxBytes \in Nat /\ p.truncated \in BOOLEAN /\ q.truncated \in BOOLEAN
  BY MaxBytesAssumption DEF ParserType
<1>2. /\ Newest(Newest(s, MaxBytes) \o d, MaxBytes) = Newest(s \o d, MaxBytes)
      /\ (Len(s) > MaxBytes \/ Len(Newest(s, MaxBytes) \o d) > MaxBytes) <=> Len(s \o d) > MaxBytes
  BY <1>1, NewestConcat
<1>3. p.output = Newest(s, MaxBytes) /\ (p.truncated <=> Len(s) > MaxBytes)
  BY DEF Out
<1>4. q.output = Newest(s \o d, MaxBytes)
  BY <1>2, <1>3 DEF Stores
<1>5. q.truncated <=> (p.truncated \/ Len(p.output \o d) > MaxBytes)
  BY <1>1, Zenon DEF Stores
<1>6. q.truncated <=> Len(s \o d) > MaxBytes
  BY <1>2, <1>3, <1>5, Zenon
<1> QED BY <1>4, <1>6 DEF Out

\* Steps that store nothing.
LEMMA OutUnstored ==
  ASSUME NEW p \in ParserType, NEW q \in ParserType, NEW s, Out(p, s), Unstored(p, q)
  PROVE  Out(q, s)
  BY Zenon DEF Out, Unstored

\* The parts of a stream and their lengths.
LEMMA LaidTypes ==
  ASSUME NEW f, NEW T, NEW a, NEW o, NEW t, Laid(f, T, a, o, t)
  PROVE  /\ a \in Nat /\ o \in Nat /\ t \in Nat
         /\ T \in Seq(Alphabet) /\ Len(T) \in Nat
         /\ f.before \in Seq(Symbols) /\ f.out \in Seq(Symbols) /\ f.trap \in Seq(Symbols)
         /\ Len(f.before) = a /\ Len(f.out) = o /\ Len(f.trap) = t
         /\ f.exit \in {"0", "1"}
  BY LenProperties, Zenon DEF Laid, FrameOf

\* What programs write is part of what arrives.
LEMMA SymbolsInAlphabet ==
  /\ Symbols \subseteq Alphabet /\ "n" \in Alphabet
  /\ \A s \in Seq(Symbols) : s \in Seq(Alphabet)
  BY SeqMonotonic DEF Alphabet, NewLine

\* A newline ends the line.
LEMMA TakeLine ==
  ASSUME NEW p, p.verdict = "open" PROVE Take(p, "n") = _consume_line(p)
  BY DEF Take, NewLine

\* Before the frame: no line is taken for its first.
LEMMA TakeBefore ==
  ASSUME NEW f, NEW T, NEW a, NEW o, NEW t, Laid(f, T, a, o, t), NEW p \in ParserType,
         p.verdict = "open", NEW c \in Nat, Before(p, c, a)
  PROVE  Exact(f, T, Take(p, T[c + 1]), c + 1, a, o, t)
<1>0. a \in Nat /\ f.before \in Seq(Symbols) /\ Len(f.before) = a
  BY LaidTypes
<1>1. /\ ~ p.started /\ p.exit = None /\ p.debug = "unseen" /\ p.line = None
      /\ Out(p, <<>>) /\ p.scan \in Seq(Symbols) /\ c <= a
  BY DEF Before, Outside
<1>2. PICK x : x = T[c + 1]
  OBVIOUS
<1>3. PICK q : q = Take(p, x)
  OBVIOUS
<1>4. SUFFICES Exact(f, T, q, c + 1, a, o, t)
  BY <1>2, <1>3
<1>5. CASE x = "n"
  <2>1. q = _consume_line(p)
    BY <1>3, <1>5, TakeLine
  <2>2. /\ q \in ParserType /\ q.scan = <<>> /\ q.line = p.line /\ Unstored(p, q)
        /\ q.exit = p.exit /\ q.debug = p.debug
        /\ ~ q.started /\ q.verdict = p.verdict
    <3>1. Plain(p.scan) # Begin /\ ~ IsPrefix(Begin, Plain(p.scan))
      BY <1>1, NoMarkerLine
    <3> QED BY <1>1, <2>1, <3>1, ConsumeBefore
  <2>3. Out(q, <<>>)
    BY <1>1, <2>2, OutUnstored
  <2>4. <<>> \in Seq(Symbols)
    OBVIOUS
  <2>5. CASE c < a
    <3>1. c + 1 <= a
      BY <1>0, <2>5
    <3>2. Before(q, c + 1, a)
      BY <1>1, <2>2, <2>3, <2>4, <3>1 DEF Before, Outside
    <3> QED BY <2>2, <3>2 DEF Exact
  <2>6. CASE c = a
    <3>2. AtBegin(q, c + 1, a)
      BY <1>1, <2>2, <2>3, <2>6 DEF AtBegin, Outside
    <3> QED BY <2>2, <3>2 DEF Exact
  <2> QED BY <1>0, <1>1, <2>5, <2>6
<1>6. CASE x # "n"
  <2>1. c < a
    <3>1. c # a
      BY <1>2, <1>6, ZenonT(40) DEF Laid
    <3> QED BY <3>1, <1>0, <1>1
  <2>2. c + 1 \in 1..a
    BY <1>0, <2>1
  <2>3. x = f.before[c + 1]
    BY <1>2, <2>2, ZenonT(40) DEF Laid
  <2>4. x \in Symbols
    BY <1>0, <2>2, <2>3, ElementOfSeq
  <2>5. /\ q \in ParserType /\ q.scan = Append(p.scan, x) /\ q.line = p.line /\ Unstored(p, q)
        /\ q.started = p.started /\ q.debug = p.debug /\ q.exit = p.exit /\ q.verdict = p.verdict
    BY <1>3, <1>6, <2>4, SymbolsInAlphabet, TakeSymbol DEF NewLine
  <2>6. Out(q, <<>>) /\ q.scan \in Seq(Symbols)
    BY <1>1, <2>4, <2>5, OutUnstored
  <2>7. Before(q, c + 1, a)
    BY <1>1, <2>2, <2>5, <2>6 DEF Before, Outside
  <2> QED BY <2>5, <2>7 DEF Exact
<1> QED BY <1>5, <1>6

\* The marker line that begins the output.
LEMMA TakeAtBegin ==
  ASSUME NEW f, NEW T, NEW a, NEW o, NEW t, Laid(f, T, a, o, t), NEW p \in ParserType,
         p.verdict = "open", NEW c \in Nat, AtBegin(p, c, a)
  PROVE  Exact(f, T, Take(p, T[c + 1]), c + 1, a, o, t)
<1>0. a \in Nat /\ o \in Nat /\ f.out \in Seq(Symbols)
  BY LaidTypes
<1>1. /\ ~ p.started /\ p.exit = None /\ p.debug = "unseen" /\ p.line = None /\ Out(p, <<>>)
      /\ \/ c = a + 1 /\ p.scan = <<>>
         \/ c = a + 2 /\ p.scan = <<"B">>
         \/ c = a + 3 /\ p.scan = <<"B", "b">>
  BY DEF AtBegin, Outside
<1>2. T[a + 2] = "B" /\ T[a + 3] = "b" /\ T[a + 4] = "n"
  BY Zenon DEF Laid
<1>3. (a + 1) + 1 = a + 2 /\ (a + 2) + 1 = a + 3 /\ (a + 3) + 1 = a + 4
  BY <1>0
<1>4. PICK x : x = T[c + 1]
  OBVIOUS
<1>5. PICK q : q = Take(p, x)
  OBVIOUS
<1>6. SUFFICES Exact(f, T, q, c + 1, a, o, t)
  BY <1>4, <1>5
<1>7. ASSUME x \in {"B", "b"}
      PROVE  /\ q \in ParserType /\ q.scan = Append(p.scan, x) /\ q.line = p.line
             /\ Out(q, <<>>)
             /\ q.started = p.started /\ q.debug = p.debug /\ q.exit = p.exit /\ q.verdict = p.verdict
  <2>1. x \in Alphabet /\ x # NewLine
    BY <1>7 DEF Alphabet, MarkerSymbols, Begin, NewLine
  <2>2. /\ q \in ParserType /\ q.scan = Append(p.scan, x) /\ q.line = p.line /\ Unstored(p, q)
        /\ q.started = p.started /\ q.debug = p.debug /\ q.exit = p.exit /\ q.verdict = p.verdict
    BY <1>5, <2>1, TakeSymbol
  <2> QED BY <1>1, <2>2, OutUnstored
<1>8. CASE c = a + 1 /\ p.scan = <<>>
  <2>1. x = "B" /\ c + 1 = a + 2
    BY <1>2, <1>3, <1>4, <1>8
  <2>2. q.scan = <<"B">>
    BY <1>7, <1>8, <2>1, AppendNone
  <2>3. AtBegin(q, c + 1, a)
    BY <1>1, <1>7, <2>1, <2>2 DEF AtBegin, Outside
  <2> QED BY <1>7, <2>1, <2>3 DEF Exact
<1>9. CASE c = a + 2 /\ p.scan = <<"B">>
  <2>1. x = "b" /\ c + 1 = a + 3
    BY <1>2, <1>3, <1>4, <1>9
  <2>2. q.scan = <<"B", "b">>
    BY <1>7, <1>9, <2>1, AppendOne
  <2>3. AtBegin(q, c + 1, a)
    BY <1>1, <1>7, <2>1, <2>2 DEF AtBegin, Outside
  <2> QED BY <1>7, <2>1, <2>3 DEF Exact
<1>10. CASE c = a + 3 /\ p.scan = <<"B", "b">>
  <2>1. x = "n" /\ c + 1 = a + 4
    BY <1>2, <1>3, <1>4, <1>10
  <2>2. q = _consume_line(p)
    BY <1>5, <2>1, TakeLine
  <2>3. Plain(p.scan) = Begin
    BY <1>10, PlainMarks
  <2>4. /\ q \in ParserType /\ q.scan = <<>> /\ q.line = p.line /\ Unstored(p, q)
        /\ q.exit = p.exit /\ q.debug = p.debug
        /\ q.started /\ q.verdict = p.verdict
    BY <1>1, <2>2, <2>3, ConsumeBefore
  <2>5. Out(q, <<>>)
    BY <1>1, <2>4, OutUnstored
  <2>6. <<>> \in Seq(Alphabet) /\ <<>> \in Seq(Symbols) /\ <<>> \o <<>> = <<>>
    BY ConcatEmptySeq, EmptySeq
  <2>7. Held(q, <<>>) = <<>>
    BY <1>1, <2>4, <2>6 DEF Held
  <2>8. (c + 1) - (a + 4) = 0 /\ SubSeq(f.out, 1, 0) = <<>>
    BY <1>0, <2>1, SubSeqEmpty
  <2>9. a + 4 <= c + 1 /\ c + 1 <= a + o + 4
    BY <1>0, <2>1
  <2>10. InOutput(f, q, c + 1, a, o)
    BY <1>1, <2>4, <2>5, <2>6, <2>7, <2>8, <2>9 DEF InOutput, Outside
  <2> QED BY <2>4, <2>10 DEF Exact
<1> QED BY <1>1, <1>8, <1>9, <1>10

\* Appending to the last part.
LEMMA ConcatAppend ==
  ASSUME NEW S, NEW u \in Seq(S), NEW v \in Seq(S), NEW x \in S
  PROVE  u \o Append(v, x) = Append(u \o v, x)
<1>1. u \o v \in Seq(S) /\ <<x>> \in Seq(S)
  BY ConcatProperties
<1>2. Append(v, x) = v \o <<x>> /\ Append(u \o v, x) = (u \o v) \o <<x>>
  BY <1>1, AppendIsConcat
<1>3. (u \o v) \o <<x>> = u \o (v \o <<x>>)
  BY <1>1, ConcatAssociative
<1> QED BY <1>2, <1>3

\* A prefix and the next symbol.
LEMMA PrefixAppend ==
  ASSUME NEW S, NEW s \in Seq(S), NEW j \in Nat, j + 1 <= Len(s)
  PROVE  Append(SubSeq(s, 1, j), s[j + 1]) = SubSeq(s, 1, j + 1)
<1>1. /\ Len(s) \in Nat /\ j + 1 \in 1..Len(s) /\ 1 \in 1..Len(s) /\ (j + 1) - 1 = j
      /\ \A i \in 1..j : i \in 1..Len(s)
  BY LenProperties
<1>2. SubSeq(s, 1, j) \in Seq(S) /\ s[j + 1] \in S
  <2>1. \A i \in 1..j : s[i] \in S
    BY <1>1, ElementOfSeq
  <2> QED BY <1>1, <2>1, SubSeqProperties, ElementOfSeq
<1>3. SubSeq(s, 1, j + 1) = SubSeq(s, 1, (j + 1) - 1) \o <<s[j + 1]>>
  <2>1. j + 1 \in 1..Len(s)
    BY <1>1
  <2> QED BY <1>1, <2>1, SubSeqRecursiveSecond
<1> QED BY <1>1, <1>2, <1>3, AppendIsConcat

\* The text a parser holds, as far as its line is concerned.
LEMMA HeldTypes ==
  ASSUME NEW p \in ParserType, NEW s \in Seq(Alphabet)
  PROVE  /\ p.scan \in Seq(Alphabet)
         /\ p.line # None => p.line \in Seq(Alphabet) /\ Append(p.line, "n") \in Seq(Alphabet)
         /\ p.line = None => Held(p, s) = s \o p.scan
         /\ p.line # None => Held(p, s) = s \o (Append(p.line, "n") \o p.scan)
         /\ Held(p, s) \in Seq(Alphabet)
<1>1. p.scan \in Seq(Alphabet) /\ (p.line # None => p.line \in Seq(Alphabet))
  BY DEF ParserType
<1>2. "n" \in Alphabet
  BY SymbolsInAlphabet
<1>3. p.line # None => Append(p.line, "n") \in Seq(Alphabet) /\ Append(p.line, "n") \o p.scan \in Seq(Alphabet)
  BY <1>1, <1>2, AppendProperties, ConcatProperties
<1>4. /\ p.line = None => Held(p, s) = s \o p.scan
      /\ p.line # None => Held(p, s) = s \o (Append(p.line, "n") \o p.scan)
  BY DEF Held
<1>5. Held(p, s) \in Seq(Alphabet)
  BY ZenonT(40), <1>1, <1>3, <1>4, ConcatProperties
<1> QED BY <1>1, <1>3, <1>4, <1>5

\* One symbol more of the line.
LEMMA HeldSymbol ==
  ASSUME NEW p \in ParserType, NEW q \in ParserType, NEW s \in Seq(Alphabet), NEW x \in Alphabet,
         q.scan = Append(p.scan, x), q.line = p.line
  PROVE  Held(q, s) = Append(Held(p, s), x)
<1>1. p.scan \in Seq(Alphabet)
  BY DEF ParserType
<1>2. CASE p.line = None
  <2>1. Held(p, s) = s \o p.scan /\ Held(q, s) = s \o Append(p.scan, x)
    BY <1>2 DEF Held
  <2> QED BY <1>1, <2>1, ConcatAppend
<1>3. CASE p.line # None
  <2>0. Append(p.line, "n") \in Seq(Alphabet)
    BY <1>3, HeldTypes
  <2>1. PICK l \in Seq(Alphabet) : l = Append(p.line, "n")
    BY <2>0
  <2>2. Held(p, s) = s \o (l \o p.scan) /\ Held(q, s) = s \o (l \o Append(p.scan, x))
    BY <1>3, <2>1 DEF Held
  <2>3. l \o Append(p.scan, x) = Append(l \o p.scan, x) /\ l \o p.scan \in Seq(Alphabet)
    BY SMTT(30), <1>1, ConcatAppend, ConcatProperties
  <2>4. PICK m \in Seq(Alphabet) : m = l \o p.scan
    BY <2>3
  <2>5. s \o Append(m, x) = Append(s \o m, x)
    BY ConcatAppend
  <2> QED BY <2>2, <2>3, <2>4, <2>5
<1> QED BY <1>2, <1>3

\* A line of output replaces the one kept back, which is stored.
LEMMA ConsumePending ==
  ASSUME NEW p \in ParserType, p.started, p.exit = None, p.debug = "unseen",
         p.scan \in Seq(Symbols), NEW s \in Seq(Alphabet), Out(p, s)
  PROVE  LET q == _consume_line(p) IN
         /\ q \in ParserType /\ q.scan = <<>> /\ q.line = p.scan /\ q.started
         /\ q.exit = None /\ q.debug = "unseen" /\ q.verdict = p.verdict
         /\ \E u \in Seq(Alphabet) : Out(q, u) /\ u \o p.scan = Held(p, s)
<1>1. PICK q : q = _consume_line(p)
  OBVIOUS
<1>2. /\ Plain(p.scan) # DebugBegin
      /\ ~ IsPrefix(DebugBegin, Plain(p.scan)) /\ ~ IsPrefix(EndMark, Plain(p.scan))
  BY NoMarkerLine
<1>3. /\ q \in ParserType /\ q.scan = <<>> /\ q.started = p.started
      /\ q.line = p.scan /\ q.exit = None /\ q.debug = p.debug /\ q.verdict = p.verdict
      /\ p.line = None => Unstored(p, q)
      /\ p.line # None => Stores(p, q, Append(p.line, "n"))
  BY <1>1, <1>2, ConsumeOutside DEF NewLine
<1>4. CASE p.line = None
  <2>1. Out(q, s) /\ Held(p, s) = s \o p.scan
    BY <1>3, <1>4, OutUnstored DEF Held
  <2> QED BY <1>1, <1>3, <2>1
<1>5. CASE p.line # None
  <2>0. Append(p.line, "n") \in Seq(Alphabet)
    BY <1>5, HeldTypes
  <2>1. PICK l \in Seq(Alphabet) : l = Append(p.line, "n")
    BY <2>0
  <2>2. Held(p, s) = s \o (l \o p.scan) /\ p.scan \in Seq(Alphabet)
    BY <1>5, <2>1, HeldTypes
  <2>3. Out(q, s \o l)
    BY <1>3, <1>5, <2>1, OutStores
  <2>4. s \o l \in Seq(Alphabet) /\ (s \o l) \o p.scan = s \o (l \o p.scan)
    <3>1. s \o l \in Seq(Alphabet)
      BY ConcatProperties
    <3>2. PICK v \in Seq(Alphabet) : v = p.scan
      BY <2>2
    <3>3. (s \o l) \o v = s \o (l \o v)
      BY SMTT(30), ConcatAssociative
    <3> QED BY <3>1, <3>2, <3>3
  <2> QED BY <1>1, <1>3, <2>2, <2>3, <2>4
<1> QED BY <1>4, <1>5

\* Within the output: every symbol is held, in order, and none is taken for a marker.
LEMMA TakeInOutput ==
  ASSUME NEW f, NEW T, NEW a, NEW o, NEW t, Laid(f, T, a, o, t), NEW p \in ParserType,
         p.verdict = "open", NEW c \in Nat, InOutput(f, p, c, a, o)
  PROVE  Exact(f, T, Take(p, T[c + 1]), c + 1, a, o, t)
<1>0. a \in Nat /\ o \in Nat /\ f.out \in Seq(Symbols) /\ Len(f.out) = o
  BY LaidTypes
<1>1. /\ p.started /\ p.exit = None /\ p.debug = "unseen" /\ a + 4 <= c /\ c <= a + o + 4
      /\ p.scan \in Seq(Symbols)
  BY DEF InOutput, Outside
<1>2. PICK s \in Seq(Alphabet) : Out(p, s) /\ Held(p, s) = SubSeq(f.out, 1, c - (a + 4))
  BY DEF InOutput
<1>3. PICK x : x = T[c + 1]
  OBVIOUS
<1>4. PICK q : q = Take(p, x)
  OBVIOUS
<1>5. SUFFICES Exact(f, T, q, c + 1, a, o, t)
  BY <1>3, <1>4
<1>6. PICK j \in Nat : j = c - (a + 4) /\ c = a + 4 + j
  BY <1>0, <1>1
<1>7. CASE c = a + o + 4
  <2>1. x = "n" /\ j = o /\ c + 1 = a + o + 5
    <3>1. T[a + o + 5] = "n"
      BY Zenon DEF Laid
    <3>2. c + 1 = a + o + 5 /\ j = o
      BY <1>0, <1>6, <1>7
    <3> QED BY <1>3, <3>1, <3>2
  <2>2. q = _consume_line(p)
    BY <1>4, <2>1, TakeLine
  <2>3. /\ q \in ParserType /\ q.scan = <<>> /\ q.line = p.scan /\ q.started
        /\ q.exit = None /\ q.debug = "unseen" /\ q.verdict = p.verdict
        /\ \E u \in Seq(Alphabet) : Out(q, u) /\ u \o p.scan = Held(p, s)
    BY <1>1, <1>2, <2>2, ConsumePending
  <2>4. Held(p, s) = f.out
    BY <1>0, <1>2, <1>6, <2>1, SubSeqFull
  <2>5. q.line # None
    BY <1>1, <2>3, SymbolsInAlphabet, NoneAssumption
  <2>6. AtDebugBegin(f, q, c + 1, a, o)
    BY <2>1, <2>3, <2>4, <2>5 DEF AtDebugBegin, Outside
  <2> QED BY <2>3, <2>6 DEF Exact
<1>8. CASE c # a + o + 4
  <2>1. /\ j + 1 \in 1..o /\ j + 1 <= o /\ c + 1 = a + 4 + (j + 1) /\ (c + 1) - (a + 4) = j + 1
        /\ a + 4 <= c + 1 /\ c + 1 <= a + o + 4
    BY <1>0, <1>1, <1>6, <1>8
  <2>2. x = f.out[j + 1]
    <3>1. T[a + 4 + (j + 1)] = f.out[j + 1]
      BY <2>1, ZenonT(40) DEF Laid
    <3> QED BY <1>3, <2>1, <3>1
  <2>3. x \in Symbols /\ x \in Alphabet
    BY <1>0, <2>1, <2>2, ElementOfSeq, SymbolsInAlphabet
  <2>4. Append(Held(p, s), x) = SubSeq(f.out, 1, (c + 1) - (a + 4))
    BY <1>0, <1>2, <1>6, <2>1, <2>2, PrefixAppend
  <2>5. CASE x = "n"
    <3>1. q = _consume_line(p)
      BY <1>4, <2>5, TakeLine
    <3>2. /\ q \in ParserType /\ q.scan = <<>> /\ q.line = p.scan /\ q.started
          /\ q.exit = None /\ q.debug = "unseen" /\ q.verdict = p.verdict
          /\ \E u \in Seq(Alphabet) : Out(q, u) /\ u \o p.scan = Held(p, s)
      BY <1>1, <1>2, <3>1, ConsumePending
    <3>3. PICK u \in Seq(Alphabet) : Out(q, u) /\ u \o p.scan = Held(p, s)
      BY <3>2
    <3>4. p.scan \in Seq(Alphabet) /\ p.scan # None /\ "n" \in Alphabet
      BY <1>1, SymbolsInAlphabet, NoneAssumption
    <3>5. Append(p.scan, "n") \in Seq(Alphabet)
      BY <3>4, AppendProperties
    <3>6. Append(p.scan, "n") \o <<>> = Append(p.scan, "n")
      BY <3>5, ConcatEmptySeq
    <3>7. Held(q, u) = u \o Append(p.scan, "n")
      BY <3>2, <3>4, <3>6 DEF Held
    <3>8. Held(q, u) = Append(Held(p, s), x)
      <4>1. PICK v \in Seq(Alphabet) : v = p.scan
        BY <3>4
      <4>2. PICK y \in Alphabet : y = "n"
        BY <3>4
      <4>3. u \o Append(v, y) = Append(u \o v, y)
        BY ConcatAppend
      <4> QED BY <2>5, <3>3, <3>7, <4>1, <4>2, <4>3, Zenon
    <3>9. <<>> \in Seq(Symbols)
      OBVIOUS
    <3>10. InOutput(f, q, c + 1, a, o)
      BY <2>1, <2>4, <3>2, <3>3, <3>8, <3>9 DEF InOutput, Outside
    <3> QED BY <3>2, <3>10 DEF Exact
  <2>6. CASE x # "n"
    <3>1. /\ q \in ParserType /\ q.scan = Append(p.scan, x) /\ q.line = p.line /\ Unstored(p, q)
          /\ q.started = p.started /\ q.debug = p.debug /\ q.exit = p.exit /\ q.verdict = p.verdict
      BY <1>4, <2>3, <2>6, TakeSymbol DEF NewLine
    <3>2. Out(q, s) /\ q.scan \in Seq(Symbols)
      BY <1>1, <1>2, <2>3, <3>1, OutUnstored, AppendProperties
    <3>3. Held(q, s) = Append(Held(p, s), x)
      BY <2>3, <3>1, HeldSymbol
    <3>4. InOutput(f, q, c + 1, a, o)
      BY <1>1, <2>1, <2>4, <3>1, <3>2, <3>3 DEF InOutput, Outside
    <3> QED BY <3>1, <3>4 DEF Exact
  <2> QED BY <2>5, <2>6
<1> QED BY <1>7, <1>8

\* A symbol of a marker line is put aside.
LEMMA TakeMark ==
  ASSUME NEW p \in ParserType, p.verdict = "open", NEW x \in {"D", "d", "F", "f", "E", "e", "0", "1"},
         NEW s, Out(p, s)
  PROVE  LET q == Take(p, x) IN
         /\ q \in ParserType /\ q.scan = Append(p.scan, x) /\ q.line = p.line /\ Out(q, s)
         /\ q.started = p.started /\ q.debug = p.debug /\ q.exit = p.exit /\ q.verdict = p.verdict
<1>1. x \in Alphabet /\ x # NewLine
  BY DEF Alphabet, MarkerSymbols, DebugBegin, DebugEnd, EndMark, NewLine
<1>2. PICK q : q = Take(p, x)
  OBVIOUS
<1>3. /\ q \in ParserType /\ q.scan = Append(p.scan, x) /\ q.line = p.line /\ Unstored(p, q)
      /\ q.started = p.started /\ q.debug = p.debug /\ q.exit = p.exit /\ q.verdict = p.verdict
  BY <1>1, <1>2, TakeSymbol
<1>4. Out(q, s)
  BY <1>3, OutUnstored
<1> QED BY <1>2, <1>3, <1>4

\* The marker line after the output: the newline before it is not output.
LEMMA TakeAtDebugBegin ==
  ASSUME NEW f, NEW T, NEW a, NEW o, NEW t, Laid(f, T, a, o, t), NEW p \in ParserType,
         p.verdict = "open", NEW c \in Nat, AtDebugBegin(f, p, c, a, o)
  PROVE  Exact(f, T, Take(p, T[c + 1]), c + 1, a, o, t)
<1>0. a \in Nat /\ o \in Nat /\ t \in Nat
  BY LaidTypes
<1>1. /\ p.started /\ p.exit = None /\ p.debug = "unseen" /\ p.line # None
      /\ \/ c = a + o + 5 /\ p.scan = <<>>
         \/ c = a + o + 6 /\ p.scan = <<"D">>
         \/ c = a + o + 7 /\ p.scan = <<"D", "d">>
  BY DEF AtDebugBegin, Outside
<1>2. PICK s \in Seq(Alphabet) : Out(p, s) /\ s \o p.line = f.out
  BY DEF AtDebugBegin
<1>3. T[a + o + 6] = "D" /\ T[a + o + 7] = "d" /\ T[a + o + 8] = "n"
  BY Zenon DEF Laid
<1>4. (a + o + 5) + 1 = a + o + 6 /\ (a + o + 6) + 1 = a + o + 7 /\ (a + o + 7) + 1 = a + o + 8
  BY <1>0
<1>5. PICK x : x = T[c + 1]
  OBVIOUS
<1>6. PICK q : q = Take(p, x)
  OBVIOUS
<1>7. SUFFICES Exact(f, T, q, c + 1, a, o, t)
  BY <1>5, <1>6
<1>8. CASE c = a + o + 5 /\ p.scan = <<>>
  <2>1. x = "D" /\ c + 1 = a + o + 6
    BY <1>3, <1>4, <1>5, <1>8
  <2>2. /\ q.scan = Append(p.scan, x) /\ q.line = p.line /\ Out(q, s)
        /\ q.started = p.started /\ q.debug = p.debug /\ q.exit = p.exit /\ q.verdict = p.verdict
    BY <1>2, <1>6, <2>1, TakeMark
  <2>3. q.scan = <<"D">>
    BY <1>8, <2>1, <2>2, AppendNone
  <2>4. AtDebugBegin(f, q, c + 1, a, o)
    BY <1>1, <1>2, <2>1, <2>2, <2>3 DEF AtDebugBegin, Outside
  <2> QED BY <2>2, <2>4 DEF Exact
<1>9. CASE c = a + o + 6 /\ p.scan = <<"D">>
  <2>1. x = "d" /\ c + 1 = a + o + 7
    BY <1>3, <1>4, <1>5, <1>9
  <2>2. /\ q.scan = Append(p.scan, x) /\ q.line = p.line /\ Out(q, s)
        /\ q.started = p.started /\ q.debug = p.debug /\ q.exit = p.exit /\ q.verdict = p.verdict
    BY <1>2, <1>6, <2>1, TakeMark
  <2>3. q.scan = <<"D", "d">>
    BY <1>9, <2>1, <2>2, AppendOne
  <2>4. AtDebugBegin(f, q, c + 1, a, o)
    BY <1>1, <1>2, <2>1, <2>2, <2>3 DEF AtDebugBegin, Outside
  <2> QED BY <2>2, <2>4 DEF Exact
<1>10. CASE c = a + o + 7 /\ p.scan = <<"D", "d">>
  <2>1. x = "n" /\ c + 1 = a + o + 8
    BY <1>3, <1>4, <1>5, <1>10
  <2>2. q = _consume_line(p)
    BY <1>6, <2>1, TakeLine
  <2>3. Plain(p.scan) = DebugBegin
    BY <1>10, PlainMarks
  <2>4. IsPrefix(DebugBegin, DebugBegin)
    BY DEF IsPrefix, DebugBegin
  <2>5. /\ q \in ParserType /\ q.scan = <<>> /\ q.started = p.started
        /\ q.debug = "inside" /\ q.line = None /\ q.exit = None /\ q.verdict = p.verdict
        /\ Stores(p, q, p.line)
    BY <1>1, <2>2, <2>3, <2>4, ConsumeOutside
  <2>6. Out(q, f.out)
    <3>1. PICK l \in Seq(Alphabet) : l = p.line
      BY <1>1 DEF ParserType
    <3>2. Out(q, s \o l)
      BY <1>2, <2>5, <3>1, OutStores
    <3> QED BY <1>2, <3>1, <3>2
  <2>7. CASE t = 0
    <3>1. AtDebugEnd(f, q, c + 1, a, o, t)
      BY <1>1, <2>1, <2>5, <2>6, <2>7 DEF AtDebugEnd
    <3> QED BY <2>5, <3>1 DEF Exact
  <2>8. CASE t # 0
    <3>1. t > 0 /\ a + o + 8 <= c + 1 /\ c + 1 <= a + o + t + 7 /\ ~ (c + 1 > a + o + 8)
      BY <1>0, <2>1, <2>8
    <3>2. <<>> \in Seq(Symbols)
      OBVIOUS
    <3>3. InTrap(f, T, q, c + 1, a, o, t)
      BY <1>1, <2>5, <3>1, <3>2 DEF InTrap
    <3> QED BY <2>5, <3>3 DEF Exact
  <2> QED BY <2>7, <2>8
<1> QED BY <1>1, <1>8, <1>9, <1>10

\* A DEBUG trap was set: its text makes the frame invalid, at its last line at the latest.
LEMMA TakeInTrap ==
  ASSUME NEW f, NEW T, NEW a, NEW o, NEW t, Laid(f, T, a, o, t), NEW p \in ParserType,
         p.verdict = "open", NEW c \in Nat, InTrap(f, T, p, c, a, o, t)
  PROVE  Exact(f, T, Take(p, T[c + 1]), c + 1, a, o, t)
<1>0. a \in Nat /\ o \in Nat /\ t \in Nat /\ f.trap \in Seq(Symbols) /\ Len(f.trap) = t
  BY LaidTypes
<1>1. /\ t > 0 /\ a + o + 8 <= c /\ c <= a + o + t + 7
      /\ p.started /\ p.exit = None /\ p.debug = "inside" /\ p.scan \in Seq(Symbols)
      /\ c > a + o + 8 /\ T[c] # "n" => p.scan # <<>> /\ Last(p.scan) = T[c]
  BY DEF InTrap
<1>2. /\ f.trap[t] = "n" /\ t > 1
      /\ f.trap[t - 1] # "n" /\ f.trap[t - 1] # Escape[2]
  <2>1. f.trap # <<>>
    BY <1>0, <1>1
  <2>2. Last(f.trap) = NewLine /\ Len(f.trap) > 1
        /\ f.trap[Len(f.trap) - 1] \notin {NewLine, Escape[1], Escape[2]}
    BY <2>1, Zenon DEF Laid, FrameOf
  <2> QED BY <1>0, <2>2 DEF Last, NewLine
<1>3. PICK k \in Nat : c = a + o + 8 + k
  <2>1. c - (a + o + 8) \in Nat /\ c = a + o + 8 + (c - (a + o + 8))
    BY <1>0, <1>1
  <2> QED BY <2>1
<1>4. k + 1 \in 1..t /\ c + 1 = a + o + 8 + (k + 1) /\ a + o + 8 <= c + 1
  BY <1>0, <1>1, <1>3
<1>5. \A i \in 1..t : T[a + o + 8 + i] = f.trap[i]
  BY Zenon DEF Laid
<1>6. PICK x : x = T[c + 1]
  OBVIOUS
<1>7. x = f.trap[k + 1] /\ x \in Symbols /\ x \in Alphabet
  BY SMTT(30), <1>0, <1>4, <1>5, <1>6, ElementOfSeq, SymbolsInAlphabet
<1>8. PICK q : q = Take(p, x)
  OBVIOUS
<1>9. SUFFICES Exact(f, T, q, c + 1, a, o, t)
  BY <1>6, <1>8
<1>10. CASE x = "n"
  <2>1. q = _consume_line(p)
    BY <1>8, <1>10, TakeLine
  <2>2. Plain(p.scan) # DebugEnd
    BY <1>1, NoMarkerLine
  <2>3. /\ q \in ParserType /\ q.scan = <<>> /\ q.exit = p.exit /\ q.started = p.started
        /\ q.debug = "inside"
        /\ Plain(p.scan) # <<>> => q.verdict = "invalid"
        /\ Plain(p.scan) = <<>> => q.verdict = p.verdict
    BY <1>1, <2>1, <2>2, ConsumeInside
  <2>4. CASE Plain(p.scan) # <<>>
    BY <2>3, <2>4 DEF Exact
  <2>5. CASE Plain(p.scan) = <<>>
    <3>1. k + 1 # t
      <4> SUFFICES ASSUME k + 1 = t PROVE FALSE
        OBVIOUS
      <4>1. k \in 1..t /\ t - 1 = k /\ c > a + o + 8
        <5>1. t > 1
          BY <1>2
        <5> QED BY <1>0, <1>3, <5>1
      <4>2. T[c] = f.trap[t - 1]
        BY <1>3, <1>5, <4>1
      <4>3. p.scan # <<>> /\ Last(p.scan) # Escape[2]
        BY <1>1, <1>2, <4>1, <4>2
      <4>4. Plain(p.scan) # <<>>
        BY <1>1, <4>3, PlainNonEmpty
      <4> QED BY <2>5, <4>4
    <3>2. c + 1 <= a + o + t + 7
      BY <1>0, <1>4, <3>1
    <3>3. <<>> \in Seq(Symbols) /\ T[c + 1] = "n"
      BY <1>6, <1>10
    <3>4. InTrap(f, T, q, c + 1, a, o, t)
      BY <1>1, <1>4, <2>3, <3>2, <3>3 DEF InTrap
    <3> QED BY <2>3, <2>5, <3>4 DEF Exact
  <2> QED BY <2>4, <2>5
<1>11. CASE x # "n"
  <2>1. k + 1 # t
    BY <1>2, <1>7, <1>11
  <2>2. c + 1 <= a + o + t + 7
    BY <1>0, <1>4, <2>1
  <2>3. /\ q \in ParserType /\ q.scan = Append(p.scan, x)
        /\ q.started = p.started /\ q.debug = p.debug /\ q.exit = p.exit /\ q.verdict = p.verdict
    BY <1>7, <1>8, <1>11, TakeSymbol DEF NewLine
  <2>4. q.scan \in Seq(Symbols) /\ q.scan # <<>> /\ Last(q.scan) = T[c + 1]
    <3>1. PICK s \in Seq(Symbols) : s = p.scan
      BY <1>1
    <3>2. Append(s, x) \in Seq(Symbols) /\ Append(s, x) # <<>> /\ Last(Append(s, x)) = x
      BY <1>7, AppendProperties DEF Last
    <3> QED BY <1>6, <2>3, <3>1, <3>2
  <2>5. InTrap(f, T, q, c + 1, a, o, t)
    BY <1>1, <1>4, <2>2, <2>3, <2>4 DEF InTrap
  <2> QED BY <2>3, <2>5 DEF Exact
<1> QED BY <1>10, <1>11

\* The marker line after an empty DEBUG block.
LEMMA TakeAtDebugEnd ==
  ASSUME NEW f, NEW T, NEW a, NEW o, NEW t, Laid(f, T, a, o, t), NEW p \in ParserType,
         p.verdict = "open", NEW c \in Nat, AtDebugEnd(f, p, c, a, o, t)
  PROVE  Exact(f, T, Take(p, T[c + 1]), c + 1, a, o, t)
<1>0. a \in Nat /\ o \in Nat /\ t = 0
  BY LaidTypes DEF AtDebugEnd
<1>1. /\ p.started /\ p.exit = None /\ p.debug = "inside" /\ p.line = None /\ Out(p, f.out)
      /\ \/ c = a + o + 8 /\ p.scan = <<>>
         \/ c = a + o + 9 /\ p.scan = <<"F">>
         \/ c = a + o + 10 /\ p.scan = <<"F", "f">>
  BY DEF AtDebugEnd
<1>3. T[a + o + 9] = "F" /\ T[a + o + 10] = "f" /\ T[a + o + 11] = "n"
  <2>1. T[a + o + t + 9] = "F" /\ T[a + o + t + 10] = "f" /\ T[a + o + t + 11] = "n"
    BY Zenon DEF Laid
  <2>2. a + o + t + 9 = a + o + 9 /\ a + o + t + 10 = a + o + 10 /\ a + o + t + 11 = a + o + 11
    BY <1>0
  <2> QED BY <2>1, <2>2
<1>4. (a + o + 8) + 1 = a + o + 9 /\ (a + o + 9) + 1 = a + o + 10 /\ (a + o + 10) + 1 = a + o + 11
  BY <1>0
<1>5. PICK x : x = T[c + 1]
  OBVIOUS
<1>6. PICK q : q = Take(p, x)
  OBVIOUS
<1>7. SUFFICES Exact(f, T, q, c + 1, a, o, t)
  BY <1>5, <1>6
<1>8. CASE c = a + o + 8 /\ p.scan = <<>>
  <2>1. x = "F" /\ c + 1 = a + o + 9
    BY <1>3, <1>4, <1>5, <1>8
  <2>2. /\ q.scan = Append(p.scan, x) /\ q.line = p.line /\ Out(q, f.out)
        /\ q.started = p.started /\ q.debug = p.debug /\ q.exit = p.exit /\ q.verdict = p.verdict
    BY <1>1, <1>6, <2>1, TakeMark
  <2>3. q.scan = <<"F">>
    BY <1>8, <2>1, <2>2, AppendNone
  <2>4. AtDebugEnd(f, q, c + 1, a, o, t)
    BY <1>0, <1>1, <2>1, <2>2, <2>3 DEF AtDebugEnd
  <2> QED BY <2>2, <2>4 DEF Exact
<1>9. CASE c = a + o + 9 /\ p.scan = <<"F">>
  <2>1. x = "f" /\ c + 1 = a + o + 10
    BY <1>3, <1>4, <1>5, <1>9
  <2>2. /\ q.scan = Append(p.scan, x) /\ q.line = p.line /\ Out(q, f.out)
        /\ q.started = p.started /\ q.debug = p.debug /\ q.exit = p.exit /\ q.verdict = p.verdict
    BY <1>1, <1>6, <2>1, TakeMark
  <2>3. q.scan = <<"F", "f">>
    BY <1>9, <2>1, <2>2, AppendOne
  <2>4. AtDebugEnd(f, q, c + 1, a, o, t)
    BY <1>0, <1>1, <2>1, <2>2, <2>3 DEF AtDebugEnd
  <2> QED BY <2>2, <2>4 DEF Exact
<1>10. CASE c = a + o + 10 /\ p.scan = <<"F", "f">>
  <2>1. x = "n" /\ c + 1 = a + o + 11
    BY <1>3, <1>4, <1>5, <1>10
  <2>2. q = _consume_line(p)
    BY <1>6, <2>1, TakeLine
  <2>3. Plain(p.scan) = DebugEnd
    BY <1>10, PlainMarks
  <2>5. /\ q \in ParserType /\ q.scan = <<>> /\ q.started = p.started /\ q.line = p.line
        /\ q.debug = "seen" /\ q.exit = p.exit /\ q.verdict = p.verdict /\ Unstored(p, q)
    BY <1>1, <2>2, <2>3, ConsumeInside
  <2>6. Out(q, f.out)
    BY <1>1, <2>5, OutUnstored
  <2>7. AtEnd(f, q, c + 1, a, o, t)
    BY <1>0, <1>1, <2>1, <2>5, <2>6 DEF AtEnd
  <2> QED BY <2>5, <2>7 DEF Exact
<1> QED BY <1>1, <1>8, <1>9, <1>10

\* The closing marker line is recognized.
LEMMA EndLinePrefix ==
  ASSUME NEW x PROVE IsPrefix(EndMark, <<"E", "e", x>>) /\ Len(<<"E", "e", x>>) = 3
                     /\ <<"E", "e", x>>[3] = x /\ <<"E", "e", x>> # DebugBegin
<1> DEFINE l == SubSeq(<<"E", "e">>, 1, 2)
           r == SubSeq(<<"E", "e", x>>, 1, 2)
           S == {"E", "e", x}
<1>1. Len(<<"E", "e">>) = 2 /\ Len(<<"E", "e", x>>) = 3
  OBVIOUS
<1>2. l \in Seq(S) /\ r \in Seq(S) /\ Len(l) = 2 /\ Len(r) = 2
  OBVIOUS
<1>3. l[1] = "E" /\ l[2] = "e" /\ r[1] = "E" /\ r[2] = "e"
  OBVIOUS
<1>4. l = r
  <2> HIDE DEF l, r, S
  <2>1. Len(l) = Len(r) /\ \A i \in 1..Len(l) : l[i] = r[i]
    BY <1>2, <1>3
  <2> QED BY <1>2, <2>1, SeqEqual
<1>5. IsPrefix(EndMark, <<"E", "e", x>>)
  BY <1>1, <1>4 DEF IsPrefix, EndMark
<1>6. <<"E", "e", x>> # DebugBegin
  BY <1>1 DEF DebugBegin
<1>7. <<"E", "e", x>>[3] = x
  OBVIOUS
<1> QED BY <1>1, <1>5, <1>6, <1>7

\* The closing marker line; a stream that goes on here comes from a healthy shell.
LEMMA TakeAtEnd ==
  ASSUME NEW f, NEW T, NEW a, NEW o, NEW t, Laid(f, T, a, o, t), NEW p \in ParserType,
         p.verdict = "open", NEW c \in Nat, c + 1 \in 1..Len(T), AtEnd(f, p, c, a, o, t)
  PROVE  Exact(f, T, Take(p, T[c + 1]), c + 1, a, o, t)
<1>0. a \in Nat /\ o \in Nat /\ t = 0 /\ f.exit \in {"0", "1"} /\ f.out \in Seq(Alphabet)
  BY LaidTypes, SymbolsInAlphabet DEF AtEnd
<1>1. /\ p.started /\ p.exit = None /\ p.debug = "seen" /\ Out(p, f.out)
      /\ \/ c = a + o + 11 /\ p.line = None /\ p.scan = <<>>
         \/ c = a + o + 12 /\ p.line = <<>> /\ p.scan = <<>>
         \/ c = a + o + 13 /\ p.line = <<>> /\ p.scan = <<"E">>
         \/ c = a + o + 14 /\ p.line = <<>> /\ p.scan = <<"E", "e">>
         \/ c = a + o + 15 /\ p.line = <<>> /\ p.scan = <<"E", "e", f.exit>>
  BY DEF AtEnd
<1>2. f.health
  <2>1. ~ f.health => Len(T) = a + o + t + 11
    BY Zenon DEF Laid
  <2>2. Len(T) # a + o + t + 11
    <3>1. c >= a + o + 11 /\ c + 1 <= Len(T) /\ Len(T) \in Nat
      BY <1>0, <1>1, LaidTypes
    <3> QED BY <1>0, <3>1
  <2> QED BY <2>1, <2>2
<1>3. /\ T[a + o + 12] = "n" /\ T[a + o + 13] = "E" /\ T[a + o + 14] = "e"
      /\ T[a + o + 15] = f.exit /\ T[a + o + 16] = "n"
  <2>1. /\ T[a + o + t + 12] = "n" /\ T[a + o + t + 13] = "E" /\ T[a + o + t + 14] = "e"
        /\ T[a + o + t + 15] = f.exit /\ T[a + o + t + 16] = "n"
    BY <1>2, Zenon DEF Laid
  <2>2. /\ a + o + t + 12 = a + o + 12 /\ a + o + t + 13 = a + o + 13 /\ a + o + t + 14 = a + o + 14
        /\ a + o + t + 15 = a + o + 15 /\ a + o + t + 16 = a + o + 16
    BY <1>0
  <2> QED BY <2>1, <2>2
<1>4. /\ (a + o + 11) + 1 = a + o + 12 /\ (a + o + 12) + 1 = a + o + 13
      /\ (a + o + 13) + 1 = a + o + 14 /\ (a + o + 14) + 1 = a + o + 15
      /\ (a + o + 15) + 1 = a + o + 16
  BY <1>0
<1>5. PICK x : x = T[c + 1]
  OBVIOUS
<1>6. PICK q : q = Take(p, x)
  OBVIOUS
<1>7. SUFFICES Exact(f, T, q, c + 1, a, o, t)
  BY <1>5, <1>6
<1>8. CASE c = a + o + 11 /\ p.line = None /\ p.scan = <<>>
  <2>1. x = "n" /\ c + 1 = a + o + 12
    BY <1>3, <1>4, <1>5, <1>8
  <2>2. q = _consume_line(p)
    BY <1>6, <2>1, TakeLine
  <2>3. /\ Plain(p.scan) # DebugBegin
        /\ ~ IsPrefix(DebugBegin, Plain(p.scan)) /\ ~ IsPrefix(EndMark, Plain(p.scan))
    <3>1. <<>> \in Seq(Symbols)
      OBVIOUS
    <3> QED BY <1>8, <3>1, NoMarkerLine
  <2>4. /\ q \in ParserType /\ q.scan = <<>> /\ q.started = p.started
        /\ q.line = p.scan /\ q.exit = None /\ q.debug = p.debug /\ q.verdict = p.verdict
        /\ Unstored(p, q)
    BY <1>1, <1>8, <2>2, <2>3, ConsumeOutside
  <2>5. Out(q, f.out)
    BY <1>1, <2>4, OutUnstored
  <2>6. AtEnd(f, q, c + 1, a, o, t)
    BY <1>0, <1>1, <1>8, <2>1, <2>4, <2>5 DEF AtEnd
  <2> QED BY <2>4, <2>6 DEF Exact
<1>9. CASE c = a + o + 12 /\ p.line = <<>> /\ p.scan = <<>>
  <2>1. x = "E" /\ c + 1 = a + o + 13
    BY <1>3, <1>4, <1>5, <1>9
  <2>2. /\ q.scan = Append(p.scan, x) /\ q.line = p.line /\ Out(q, f.out)
        /\ q.started = p.started /\ q.debug = p.debug /\ q.exit = p.exit /\ q.verdict = p.verdict
    BY <1>1, <1>6, <2>1, TakeMark
  <2>3. q.scan = <<"E">>
    BY <1>9, <2>1, <2>2, AppendNone
  <2>4. AtEnd(f, q, c + 1, a, o, t)
    BY <1>0, <1>1, <1>9, <2>1, <2>2, <2>3 DEF AtEnd
  <2> QED BY <2>2, <2>4 DEF Exact
<1>10. CASE c = a + o + 13 /\ p.line = <<>> /\ p.scan = <<"E">>
  <2>1. x = "e" /\ c + 1 = a + o + 14
    BY <1>3, <1>4, <1>5, <1>10
  <2>2. /\ q.scan = Append(p.scan, x) /\ q.line = p.line /\ Out(q, f.out)
        /\ q.started = p.started /\ q.debug = p.debug /\ q.exit = p.exit /\ q.verdict = p.verdict
    BY <1>1, <1>6, <2>1, TakeMark
  <2>3. q.scan = <<"E", "e">>
    BY <1>10, <2>1, <2>2, AppendOne
  <2>4. AtEnd(f, q, c + 1, a, o, t)
    BY <1>0, <1>1, <1>10, <2>1, <2>2, <2>3 DEF AtEnd
  <2> QED BY <2>2, <2>4 DEF Exact
<1>11. CASE c = a + o + 14 /\ p.line = <<>> /\ p.scan = <<"E", "e">>
  <2>1. x = f.exit /\ c + 1 = a + o + 15
    BY <1>3, <1>4, <1>5, <1>11
  <2>2. /\ q.scan = Append(p.scan, x) /\ q.line = p.line /\ Out(q, f.out)
        /\ q.started = p.started /\ q.debug = p.debug /\ q.exit = p.exit /\ q.verdict = p.verdict
    <3>1. x \in {"0", "1"}
      BY <1>0, <2>1
    <3>2. x \in {"D", "d", "F", "f", "E", "e", "0", "1"}
      BY <3>1
    <3> QED BY ZenonT(40), <1>1, <1>6, <3>2, TakeMark
  <2>3. q.scan = <<"E", "e", f.exit>>
    BY <1>11, <2>1, <2>2, AppendPair
  <2>4. AtEnd(f, q, c + 1, a, o, t)
    BY <1>0, <1>1, <1>11, <2>1, <2>2, <2>3 DEF AtEnd
  <2> QED BY <2>2, <2>4 DEF Exact
<1>12. CASE c = a + o + 15 /\ p.line = <<>> /\ p.scan = <<"E", "e", f.exit>>
  <2>1. x = "n" /\ c + 1 = a + o + 16
    BY <1>3, <1>4, <1>5, <1>12
  <2>2. q = _consume_line(p)
    BY <1>6, <2>1, TakeLine
  <2>3. Plain(p.scan) = <<"E", "e", f.exit>>
    BY <1>0, <1>12, PlainMarks
  <2>4. PICK l : l = Plain(p.scan)
    OBVIOUS
  <2>5. IsPrefix(EndMark, l) /\ l # DebugBegin /\ l[3] = f.exit
    BY <2>3, <2>4, EndLinePrefix
  <2>6. p.line # None
    <3>1. <<>> \in Seq(Alphabet)
      OBVIOUS
    <3> QED BY <1>12, <3>1, NoneAssumption
  <2>7. \/ q.verdict = "invalid"
        \/ q \in ParserType /\ q.exit = l[3] /\ q.started = p.started /\ q.verdict = p.verdict
           /\ Stores(p, q, p.line)
    BY <1>1, <2>2, <2>4, <2>5, <2>6, ConsumeOutside
  <2>8. CASE q.verdict = "invalid"
    BY <2>8 DEF Exact
  <2>9. CASE q \in ParserType /\ q.exit = l[3] /\ q.started = p.started /\ q.verdict = p.verdict
             /\ Stores(p, q, p.line)
    <3>1. Out(q, f.out)
      <4>1. <<>> \in Seq(Alphabet) /\ Stores(p, q, <<>>) /\ f.out \o <<>> = f.out
        BY <1>0, <1>12, <2>9, EmptySeq, ConcatEmptySeq
      <4>2. Out(q, f.out \o <<>>)
        BY <1>0, <1>1, <2>9, <4>1, OutStores
      <4> QED BY <4>1, <4>2
    <3>2. q.exit # None
      BY <1>0, <2>5, <2>9, NoneAssumption
    <3>3. AfterEnd(f, q, t)
      BY <1>0, <1>1, <2>9, <3>1, <3>2 DEF AfterEnd
    <3> QED BY <3>3 DEF Exact
  <2> QED BY <2>7, <2>8, <2>9
<1> QED BY <1>1, <1>8, <1>9, <1>10, <1>11, <1>12

\* After the exit status nothing is stored.
LEMMA TakeAfterEnd ==
  ASSUME NEW f, NEW T, NEW a, NEW o, NEW t, Laid(f, T, a, o, t), NEW p \in ParserType,
         p.verdict = "open", NEW c \in Nat, c + 1 \in 1..Len(T), AfterEnd(f, p, t)
  PROVE  Exact(f, T, Take(p, T[c + 1]), c + 1, a, o, t)
<1>1. t = 0 /\ p.started /\ p.exit # None /\ Out(p, f.out)
  BY DEF AfterEnd
<1>2. PICK x : x = T[c + 1]
  OBVIOUS
<1>3. x \in Alphabet
  BY <1>2, LaidTypes, ElementOfSeq
<1>4. PICK q : q = Take(p, x)
  OBVIOUS
<1>5. q \in ParserType /\ Unstored(p, q) /\ q.exit = p.exit /\ q.started = p.started
  <2>1. CASE x = "n"
    <3>1. q = _consume_line(p)
      BY <1>4, <2>1, TakeLine
    <3> QED BY <1>1, <3>1, ConsumeAfter
  <2>2. CASE x # "n"
    BY <1>3, <1>4, <2>2, TakeSymbol DEF NewLine
  <2> QED BY <2>1, <2>2
<1>6. Out(q, f.out)
  BY <1>1, <1>5, OutUnstored
<1>7. AfterEnd(f, q, t)
  BY <1>1, <1>5, <1>6 DEF AfterEnd
<1> QED BY <1>2, <1>4, <1>7 DEF Exact

\* One symbol more of a stream of which nothing was lost.
LEMMA ExactTake ==
  ASSUME NEW f, NEW T, NEW a, NEW o, NEW t, Laid(f, T, a, o, t), NEW p \in ParserType,
         NEW c \in Nat, c + 1 \in 1..Len(T), Exact(f, T, p, c, a, o, t)
  PROVE  Exact(f, T, Take(p, T[c + 1]), c + 1, a, o, t)
<1>1. CASE p.verdict # "open"
  <2>1. Take(p, T[c + 1]) = p
    BY <1>1 DEF Take
  <2>2. p.verdict # "invalid" => AfterEnd(f, p, t)
    BY <1>1 DEF Exact
  <2>3. Exact(f, T, p, c + 1, a, o, t)
    BY <2>2 DEF Exact
  <2> QED BY <2>1, <2>3
<1>2. CASE p.verdict = "open"
  <2>1. \/ Before(p, c, a) \/ AtBegin(p, c, a) \/ InOutput(f, p, c, a, o)
        \/ AtDebugBegin(f, p, c, a, o) \/ InTrap(f, T, p, c, a, o, t)
        \/ AtDebugEnd(f, p, c, a, o, t) \/ AtEnd(f, p, c, a, o, t) \/ AfterEnd(f, p, t)
    BY <1>2 DEF Exact
  <2>2. CASE Before(p, c, a)
    BY <1>2, <2>2, TakeBefore
  <2>3. CASE AtBegin(p, c, a)
    BY <1>2, <2>3, TakeAtBegin
  <2>4. CASE InOutput(f, p, c, a, o)
    BY <1>2, <2>4, TakeInOutput
  <2>5. CASE AtDebugBegin(f, p, c, a, o)
    BY <1>2, <2>5, TakeAtDebugBegin
  <2>6. CASE InTrap(f, T, p, c, a, o, t)
    BY <1>2, <2>6, TakeInTrap
  <2>7. CASE AtDebugEnd(f, p, c, a, o, t)
    BY <1>2, <2>7, TakeAtDebugEnd
  <2>8. CASE AtEnd(f, p, c, a, o, t)
    BY <1>2, <2>8, TakeAtEnd
  <2>9. CASE AfterEnd(f, p, t)
    BY <1>2, <2>9, TakeAfterEnd
  <2> QED BY <2>1, <2>2, <2>3, <2>4, <2>5, <2>6, <2>7, <2>8, <2>9
<1> QED BY <1>1, <1>2

\* The flush of a long line.
LEMMA ExactBound ==
  ASSUME NEW f, NEW T, NEW a, NEW o, NEW t, Laid(f, T, a, o, t), NEW p \in ParserType,
         NEW c \in Nat, Exact(f, T, p, c, a, o, t)
  PROVE  Exact(f, T, _bound_partial_line(p), c, a, o, t)
<1>0. LineLimit \in Nat /\ LineLimit >= 3 /\ p.scan \in Seq(Alphabet) /\ Len(p.scan) \in Nat
  <2>1. Len(Append(EndMark, "0")) = 3
    BY DEF EndMark
  <2>2. p.scan \in Seq(Alphabet)
    BY DEF ParserType
  <2> QED BY <2>1, <2>2, TerminalBounds, LenProperties
<1>1. PICK q : q = _bound_partial_line(p)
  OBVIOUS
<1>2. CASE q = p
  BY <1>1, <1>2
<1>3. CASE q.verdict = "invalid"
  BY <1>1, <1>3 DEF Exact
<1>4. CASE q # p /\ q.verdict # "invalid"
  <2>1. /\ q \in ParserType
        /\ p.verdict = "open" /\ Len(p.scan) > LineLimit /\ p.started /\ p.exit = None
        /\ q.verdict = "open" /\ q.exit = None /\ q.started /\ q.debug = p.debug
        /\ q.line = None
        /\ q.scan = SubSeq(p.scan, (Len(p.scan) - LineLimit) + 1, Len(p.scan))
        /\ \E w \in ParserType :
             /\ p.line = None => Unstored(p, w)
             /\ p.line # None => Stores(p, w, Append(p.line, NewLine))
             /\ Stores(w, q, SubSeq(p.scan, 1, Len(p.scan) - LineLimit))
    BY <1>1, <1>4, BoundLine
  <2>2. PICK w \in ParserType :
             /\ p.line = None => Unstored(p, w)
             /\ p.line # None => Stores(p, w, Append(p.line, "n"))
             /\ Stores(w, q, SubSeq(p.scan, 1, Len(p.scan) - LineLimit))
    BY <2>1 DEF NewLine
  <2>3. PICK m \in Nat : m = Len(p.scan) - LineLimit /\ 1 <= m /\ m < Len(p.scan)
    BY <1>0, <2>1
  <2>4. Len(p.scan) > 3
    BY <1>0, <2>1
  <2>5. InOutput(f, p, c, a, o) \/ InTrap(f, T, p, c, a, o, t)
    <3>1. Len(<<>>) = 0 /\ Len(<<"B">>) = 1 /\ Len(<<"D">>) = 1 /\ Len(<<"F">>) = 1 /\ Len(<<"E">>) = 1
      OBVIOUS
    <3>2. /\ Len(<<"D", "d">>) = 2 /\ Len(<<"F", "f">>) = 2 /\ Len(<<"E", "e">>) = 2
          /\ Len(<<"E", "e", f.exit>>) = 3
      OBVIOUS
    <3>6. /\ p.scan # <<>> /\ p.scan # <<"D">> /\ p.scan # <<"D", "d">> /\ p.scan # <<"F">>
          /\ p.scan # <<"F", "f">> /\ p.scan # <<"E">> /\ p.scan # <<"E", "e">>
          /\ p.scan # <<"E", "e", f.exit>>
      <4>1. Len(p.scan) # 0 /\ Len(p.scan) # 1 /\ Len(p.scan) # 2 /\ Len(p.scan) # 3
        <5>1. PICK n \in Nat : n = Len(p.scan)
          BY <1>0
        <5>2. n > 3
          BY <2>4, <5>1
        <5>3. n # 0 /\ n # 1 /\ n # 2 /\ n # 3
          BY <5>2
        <5> QED BY <5>1, <5>3
      <4> QED BY <3>1, <3>2, <4>1, Zenon
    <3>3. ~ Before(p, c, a) /\ ~ AtBegin(p, c, a) /\ ~ AfterEnd(f, p, t)
      BY <2>1 DEF Before, AtBegin, AfterEnd
    <3>4. ~ AtDebugBegin(f, p, c, a, o) /\ ~ AtDebugEnd(f, p, c, a, o, t)
      BY <3>6 DEF AtDebugBegin, AtDebugEnd
    <3>5. ~ AtEnd(f, p, c, a, o, t)
      BY <3>6 DEF AtEnd
    <3> QED BY <2>1, <3>3, <3>4, <3>5 DEF Exact
  <2>6. CASE InOutput(f, p, c, a, o)
    <3>1. /\ a + 4 <= c /\ c <= a + o + 4 /\ p.scan \in Seq(Symbols) /\ p.debug = "unseen"
      BY <2>6 DEF InOutput, Outside
    <3>2. PICK s \in Seq(Alphabet) : Out(p, s) /\ Held(p, s) = SubSeq(f.out, 1, c - (a + 4))
      BY <2>6 DEF InOutput
    <3>30. SubSeq(p.scan, 1, m) \in Seq(Alphabet)
      BY <1>0, <2>3
    <3>3. PICK h \in Seq(Alphabet) : h = SubSeq(p.scan, 1, m)
      BY <3>30
    <3>4. q.scan \in Seq(Symbols) /\ q.scan \in Seq(Alphabet)
      <4>1. q.scan = SubSeq(p.scan, m + 1, Len(p.scan))
        BY <2>1, <2>3
      <4>2. PICK rest \in Seq(Symbols) : rest = p.scan
        BY <3>1
      <4>3. m \in Nat /\ m <= Len(rest)
        BY <2>3, <4>2
      <4>4. SubSeq(rest, m + 1, Len(rest)) \in Seq(Symbols)
        <5>1. \A k \in m + 1 .. Len(rest) : rest[k] \in Symbols
          BY <4>3
        <5> QED BY <4>3, <5>1, SubSeqProperties
      <4>5. q.scan \in Seq(Symbols)
        BY <4>1, <4>2, <4>4
      <4> QED BY <4>5, SymbolsInAlphabet
    <3>5. h \o q.scan = p.scan
      <4>1. PICK l \in Seq(Alphabet) : l = p.scan
        BY <1>0
      <4>2. 1 \in 1..Len(l) + 1 /\ m \in 1 - 1..Len(l) /\ Len(l) \in m..Len(l)
        BY <1>0, <2>3, <4>1
      <4>3. SubSeq(l, 1, m) \o SubSeq(l, m + 1, Len(l)) = SubSeq(l, 1, Len(l))
        BY <4>2, ConcatAdjacentSubSeq
      <4>4. SubSeq(l, 1, Len(l)) = l
        BY SubSeqFull
      <4> QED BY <2>1, <2>3, <3>3, <4>1, <4>3, <4>4
    <3>6. \E u \in Seq(Alphabet) : Out(w, u) /\ u \o p.scan = Held(p, s)
      <4>1. CASE p.line = None
        <5>1. Out(w, s) /\ Held(p, s) = s \o p.scan
          BY <2>2, <3>2, <4>1, OutUnstored DEF Held
        <5> QED BY <5>1
      <4>2. CASE p.line # None
        <5>1. Append(p.line, "n") \in Seq(Alphabet)
          BY <4>2, HeldTypes, EmptySeq
        <5>2. PICK l \in Seq(Alphabet) : l = Append(p.line, "n")
          BY <5>1
        <5>3. Held(p, s) = s \o (l \o p.scan)
          BY <4>2, <5>2 DEF Held
        <5>4. Out(w, s \o l)
          BY <2>2, <3>2, <4>2, <5>2, OutStores
        <5>5. PICK v \in Seq(Alphabet) : v = p.scan
          BY <1>0
        <5>6. s \o l \in Seq(Alphabet) /\ (s \o l) \o v = s \o (l \o v)
          BY SMTT(30), ConcatProperties, ConcatAssociative
        <5> QED BY <5>3, <5>4, <5>5, <5>6
      <4> QED BY <4>1, <4>2
    <3>7. PICK u \in Seq(Alphabet) : Out(w, u) /\ u \o p.scan = Held(p, s)
      BY <3>6
    <3>8. Out(q, u \o h)
      BY <2>1, <2>2, <2>3, <3>3, <3>7, OutStores
    <3>9. u \o h \in Seq(Alphabet) /\ (u \o h) \o q.scan = u \o (h \o q.scan)
      <4>1. PICK v \in Seq(Alphabet) : v = q.scan
        BY <3>4
      <4>2. u \o h \in Seq(Alphabet) /\ (u \o h) \o v = u \o (h \o v)
        BY SMTT(30), ConcatProperties, ConcatAssociative
      <4> QED BY <4>1, <4>2
    <3>10. Held(q, u \o h) = Held(p, s)
      BY <2>1, <3>5, <3>7, <3>9 DEF Held
    <3>11. InOutput(f, q, c, a, o)
      BY <2>1, <3>1, <3>2, <3>4, <3>8, <3>9, <3>10 DEF InOutput, Outside
    <3> QED BY <1>1, <2>1, <3>11 DEF Exact
  <2>7. CASE InTrap(f, T, p, c, a, o, t)
    <3>1. /\ t > 0 /\ a + o + 8 <= c /\ c <= a + o + t + 7
          /\ p.started /\ p.exit = None /\ p.debug = "inside" /\ p.scan \in Seq(Symbols)
          /\ c > a + o + 8 /\ T[c] # "n" => p.scan # <<>> /\ Last(p.scan) = T[c]
      BY <2>7 DEF InTrap
    <3>2. q.scan \in Seq(Symbols) /\ q.scan # <<>> /\ Last(q.scan) = Last(p.scan)
      <4>1. PICK l \in Seq(Symbols) : l = p.scan
        BY <3>1
      <4>2. PICK r : r = SubSeq(l, m + 1, Len(l))
        OBVIOUS
      <4>3. /\ m + 1 \in 1..Len(l) /\ Len(l) \in Nat /\ Len(l) - m \in Nat /\ Len(l) - m >= 1
            /\ (m + 1) + (Len(l) - m) - 1 = Len(l)
        BY SMTT(30), <2>3, <4>1
      <4>4. r \in Seq(Symbols) /\ Len(r) = Len(l) - m
        BY <4>2, <4>3
      <4>5. r[Len(r)] = l[Len(l)]
        BY <4>2, <4>3, <4>4
      <4>6. r # <<>>
        BY <4>3, <4>4
      <4> QED BY <2>1, <2>3, <4>1, <4>2, <4>4, <4>5, <4>6 DEF Last
    <3>3. InTrap(f, T, q, c, a, o, t)
      BY <2>1, <3>1, <3>2 DEF InTrap
    <3> QED BY <1>1, <2>1, <3>3 DEF Exact
  <2> QED BY <2>5, <2>6, <2>7
<1> QED BY <1>2, <1>3, <1>4

\* A read of the part of the stream between two cursors.
LEMMA FeedExact ==
  ASSUME NEW f, NEW T, NEW a, NEW o, NEW t, Laid(f, T, a, o, t), NEW p,
         NEW c \in Nat, NEW d \in Nat, c <= d, d <= Len(T), Honest(f, p, c, a + o + t)
  PROVE  /\ Honest(f, feed(p, SubSeq(T, c + 1, d)), d, a + o + t)
         /\ Exact(f, T, p, c, a, o, t) => Exact(f, T, feed(p, SubSeq(T, c + 1, d)), d, a, o, t)
<1>1. T \in Seq(Alphabet) /\ Len(T) \in Nat
  BY LaidTypes
<1>2. PICK m \in Nat : d = c + m
  <2>1. d - c \in Nat /\ d = c + (d - c)
    OBVIOUS
  <2> QED BY <2>1
<1>3. PICK data : data = SubSeq(T, c + 1, d)
  OBVIOUS
<1>4. Len(data) = m /\ \A i \in 1..m : data[i] = T[c + i]
  BY <1>1, <1>2, <1>3
<1>5. PICK g : /\ g[0] = p
               /\ \A i \in 0..m - 1 : g[i + 1] = Take(g[i], data[i + 1])
               /\ feed(p, data) = _bound_partial_line(g[m])
  <2>1. Len(data) \in Nat /\ Len(data) = m
    BY <1>4
  <2>2. \E g : /\ g[0] = p
               /\ \A i \in 0..Len(data) - 1 : g[i + 1] = Take(g[i], data[i + 1])
               /\ feed(p, data) = _bound_partial_line(g[Len(data)])
    BY <2>1, FeedByTable, ZenonT(40)
  <2>3. PICK g : /\ g[0] = p
                 /\ \A i \in 0..Len(data) - 1 : g[i + 1] = Take(g[i], data[i + 1])
                 /\ feed(p, data) = _bound_partial_line(g[Len(data)])
    BY <2>2, Zenon
  <2>4. /\ g[0] = p
        /\ \A i \in 0..m - 1 : g[i + 1] = Take(g[i], data[i + 1])
        /\ feed(p, data) = _bound_partial_line(g[m])
    BY <2>1, <2>3
  <2> QED BY <2>4
<1>6. PICK n : n = a + o + t
  OBVIOUS
<1>7. PICK good \in BOOLEAN : good = Exact(f, T, p, c, a, o, t)
  BY DEF Exact
<1> DEFINE I == {i \in Nat : i <= m => /\ Honest(f, g[i], c + i, n)
                                       /\ good => Exact(f, T, g[i], c + i, a, o, t)}
<1>8. 0 \in I
  <2>1. c + 0 = c
    OBVIOUS
  <2>2. Honest(f, g[0], c + 0, n) /\ (good => Exact(f, T, g[0], c + 0, a, o, t))
    BY <1>5, <1>6, <1>7, <2>1
  <2> QED BY <2>2
<1>9. ASSUME NEW i \in Nat, i \in I PROVE i + 1 \in I
  <2>1. SUFFICES ASSUME i + 1 <= m
                 PROVE  /\ Honest(f, g[i + 1], c + (i + 1), n)
                        /\ good => Exact(f, T, g[i + 1], c + (i + 1), a, o, t)
    OBVIOUS
  <2>2. /\ i <= m /\ i \in 0..m - 1 /\ i + 1 \in 1..m
        /\ c + (i + 1) = (c + i) + 1 /\ c + i \in Nat
    BY <2>1
  <2>3. (c + i) + 1 \in 1..Len(T)
    BY <1>1, <1>2, <2>2
  <2>4. PICK e \in Nat : e = c + i
    BY <2>2
  <2>5. Honest(f, g[i], e, n) /\ (good => Exact(f, T, g[i], e, a, o, t))
    BY <1>9, <2>2, <2>4
  <2>6. g[i + 1] = Take(g[i], T[e + 1])
    BY <1>4, <1>5, <2>2, <2>4
  <2>7. PICK r : r = g[i]
    OBVIOUS
  <2>8. Honest(f, Take(r, T[e + 1]), e + 1, n)
    BY <1>6, <2>3, <2>4, <2>5, <2>7, HonestTake
  <2>9. good => Exact(f, T, Take(r, T[e + 1]), e + 1, a, o, t)
    <3>1. r \in ParserType
      BY <2>5, <2>7 DEF Honest
    <3> QED BY <2>3, <2>4, <2>5, <2>7, <3>1, ExactTake
  <2> QED BY <2>2, <2>4, <2>6, <2>7, <2>8, <2>9
<1>10. m \in I
  <2>1. \A i \in Nat : i \in I => i + 1 \in I
    BY <1>9
  <2> HIDE DEF I
  <2>2. Nat \subseteq I
    BY <1>8, <2>1, SetInduction
  <2> QED BY <2>2
<1>11. Honest(f, g[m], d, n) /\ (good => Exact(f, T, g[m], d, a, o, t))
  BY <1>2, <1>10
<1>12. PICK r : r = g[m]
  OBVIOUS
<1>13. Honest(f, _bound_partial_line(r), d, n)
  BY <1>11, <1>12, HonestBound
<1>14. good => Exact(f, T, _bound_partial_line(r), d, a, o, t)
  <2>1. r \in ParserType
    BY <1>11, <1>12 DEF Honest
  <2> QED BY <1>11, <1>12, <2>1, ExactBound
<1> QED BY <1>3, <1>5, <1>6, <1>7, <1>12, <1>13, <1>14

-----------------------------------------------------------------------------
(* The ring buffer holds a part of the stream.                             *)

\* The end of a part of the stream.
LEMMA SuffixOfPart ==
  ASSUME NEW S, NEW T \in Seq(S), NEW k \in Nat, NEW m \in Nat, NEW n \in Nat,
         k <= m, m <= n, n <= Len(T)
  PROVE  /\ Len(SubSeq(T, k + 1, n)) = n - k
         /\ SubSeq(SubSeq(T, k + 1, n), (m - k) + 1, n - k) = SubSeq(T, m + 1, n)
<1>1. PICK u : u = SubSeq(T, k + 1, n)
  OBVIOUS
<1>2. u \in Seq(S) /\ Len(u) = n - k /\ \A i \in 1..n - k : u[i] = T[k + i]
  BY SMTT(30), <1>1
<1>3. PICK l : l = SubSeq(u, (m - k) + 1, n - k)
  OBVIOUS
<1>4. PICK r : r = SubSeq(T, m + 1, n)
  OBVIOUS
<1>5. r \in Seq(S) /\ Len(r) = n - m /\ \A i \in 1..n - m : r[i] = T[m + i]
  BY <1>4
<1>6. l \in Seq(S) /\ Len(l) = n - m /\ \A i \in 1..n - m : l[i] = u[(m - k) + i]
  BY <1>2, <1>3
<1>7. \A i \in 1..n - m : (m - k) + i \in 1..n - k /\ k + ((m - k) + i) = m + i
  OBVIOUS
<1>8. \A i \in 1..n - m : l[i] = r[i]
  BY ZenonT(40), <1>2, <1>5, <1>6, <1>7
<1>9. l = r
  BY <1>5, <1>6, <1>8, SeqEqual
<1> QED BY <1>1, <1>2, <1>3, <1>4, <1>9

\* The newest part of a part of the stream.
LEMMA NewestPart ==
  ASSUME NEW S, NEW T \in Seq(S), NEW k \in Nat, NEW n \in Nat, k <= n, n <= Len(T), NEW m \in Nat
  PROVE  Newest(SubSeq(T, k + 1, n), m) = SubSeq(T, (IF n - k > m THEN n - m ELSE k) + 1, n)
<1>1. Len(SubSeq(T, k + 1, n)) = n - k
  BY SuffixOfPart
<1>2. CASE n - k > m
  <2>1. PICK e \in Nat : e = n - m
    BY <1>2
  <2>2. k <= e /\ e <= n /\ e - k = (n - k) - m
    BY <1>2, <2>1
  <2>3. SubSeq(SubSeq(T, k + 1, n), (e - k) + 1, n - k) = SubSeq(T, e + 1, n)
    BY <2>2, SuffixOfPart
  <2>4. Newest(SubSeq(T, k + 1, n), m) = SubSeq(SubSeq(T, k + 1, n), ((n - k) - m) + 1, n - k)
    BY <1>1, <1>2 DEF Newest
  <2> QED BY <1>2, <2>1, <2>2, <2>3, <2>4
<1>3. CASE ~ (n - k > m)
  BY <1>1, <1>3 DEF Newest
<1> QED BY <1>2, <1>3

\* Adjacent parts of the stream.
LEMMA PartConcat ==
  ASSUME NEW S, NEW T \in Seq(S), NEW k \in Nat, NEW m \in Nat, NEW n \in Nat,
         k <= m, m <= n, n <= Len(T)
  PROVE  SubSeq(T, k + 1, m) \o SubSeq(T, m + 1, n) = SubSeq(T, k + 1, n)
<1>1. Len(T) \in Nat
  BY LenProperties
<1>2. k + 1 \in 1..Len(T) + 1 /\ m \in (k + 1) - 1..Len(T) /\ n \in m..Len(T)
  BY <1>1
<1> QED BY <1>2, ConcatAdjacentSubSeq

\* The buffer r holds the stream T from b to e.
Buffered(T, r, b, e) ==
  /\ b \in Nat /\ e \in Nat /\ b <= e /\ e <= Len(T) /\ e <= b + MaxBytes
  /\ r = SubSeq(T, b + 1, e)

\* start and the data together give the end cursor, within the limit.
LEMMA BufferLength ==
  ASSUME NEW T \in Seq(Alphabet), NEW r, NEW b, NEW e, Buffered(T, r, b, e)
  PROVE  Len(r) = e - b /\ Len(r) \in Nat /\ b + Len(r) = e /\ Len(r) <= MaxBytes
<1>1. /\ b \in Nat /\ e \in Nat /\ b <= e /\ e <= Len(T) /\ e <= b + MaxBytes
      /\ r = SubSeq(T, b + 1, e) /\ MaxBytes \in Nat
  BY MaxBytesAssumption DEF Buffered
<1>2. Len(r) = e - b
  BY <1>1, SuffixOfPart
<1> QED BY <1>1, <1>2

\* append: a chunk more, the oldest symbols go.
LEMMA BufferAppend ==
  ASSUME NEW T \in Seq(Alphabet), NEW r, NEW b, NEW e, Buffered(T, r, b, e), NEW k \in Nat,
         e + k <= Len(T)
  PROVE  LET u == r \o SubSeq(T, e + 1, e + k)
             d == IF Len(u) - MaxBytes > 0 THEN b + (Len(u) - MaxBytes) ELSE b
         IN  Buffered(T, Newest(u, MaxBytes), d, e + k) /\ b <= d
<1>1. /\ b \in Nat /\ e \in Nat /\ b <= e /\ e <= Len(T) /\ e <= b + MaxBytes
      /\ r = SubSeq(T, b + 1, e) /\ MaxBytes \in Nat
  BY MaxBytesAssumption DEF Buffered
<1>2. PICK n \in Nat : n = e + k
  BY <1>1
<1>3. PICK u : u = r \o SubSeq(T, e + 1, e + k)
  OBVIOUS
<1>4. u = SubSeq(T, b + 1, n) /\ Len(u) = n - b /\ b <= n /\ n <= Len(T)
  <2>1. b <= e /\ e <= n /\ n <= Len(T) /\ b <= n
    BY <1>1, <1>2
  <2>2. SubSeq(T, b + 1, e) \o SubSeq(T, e + 1, n) = SubSeq(T, b + 1, n)
    BY <1>1, <2>1, PartConcat
  <2>3. u = SubSeq(T, b + 1, n)
    BY <1>1, <1>2, <1>3, <2>2
  <2> QED BY <1>1, <2>1, <2>3, SuffixOfPart
<1>5. Newest(u, MaxBytes) = SubSeq(T, (IF n - b > MaxBytes THEN n - MaxBytes ELSE b) + 1, n)
  BY ZenonT(40), <1>1, <1>4, NewestPart
<1>6. PICK d : d = IF Len(u) - MaxBytes > 0 THEN b + (Len(u) - MaxBytes) ELSE b
  OBVIOUS
<1>7. d = (IF n - b > MaxBytes THEN n - MaxBytes ELSE b)
  BY <1>1, <1>4, <1>6
<1>8. d \in Nat /\ d <= n /\ n <= d + MaxBytes /\ b <= d
  BY <1>1, <1>4, <1>7
<1>9. Buffered(T, Newest(u, MaxBytes), d, n)
  BY <1>4, <1>5, <1>7, <1>8 DEF Buffered
<1> QED BY <1>2, <1>3, <1>6, <1>8, <1>9

\* A read at the cursor c returns the stream from e on, where e is c unless c was dropped.
LEMMA BufferRead ==
  ASSUME Text \in Seq(Alphabet), Buffered(Text, ring, start, sent), NEW c \in Nat, c <= sent
  PROVE  \E e \in Nat :
           /\ c <= e /\ e <= sent /\ (~ (c < start) => e = c)
           /\ ReadFrom(c).data = SubSeq(Text, e + 1, sent)
           /\ ReadFrom(c).next = sent /\ (ReadFrom(c).dropped <=> c < start)
<1>1. /\ start \in Nat /\ sent \in Nat /\ start <= sent /\ sent <= Len(Text)
      /\ ring = SubSeq(Text, start + 1, sent)
  BY DEF Buffered
<1>2. Len(ring) = sent - start /\ start + Len(ring) = sent
  BY BufferLength
<1>3. PICK e \in Nat : e = IF c > start THEN c ELSE start
  BY <1>1
<1>4. c <= e /\ e <= sent /\ start <= e /\ (~ (c < start) => e = c)
  BY <1>1, <1>3
<1>5. (IF e - start < Len(ring) THEN e - start ELSE Len(ring)) = e - start
  BY <1>1, <1>2, <1>4
<1>6. ReadFrom(c).data = SubSeq(ring, (e - start) + 1, sent - start)
  BY <1>2, <1>3, <1>5 DEF ReadFrom
<1>7. ReadFrom(c).next = sent /\ (ReadFrom(c).dropped <=> c < start)
  BY <1>2 DEF ReadFrom, EndCursor
<1>8. SubSeq(ring, (e - start) + 1, sent - start) = SubSeq(Text, e + 1, sent)
  BY <1>1, <1>4, SuffixOfPart
<1> QED BY <1>4, <1>6, <1>7, <1>8

-----------------------------------------------------------------------------
(* The parser has taken the stream T of the frame f up to c; nothing else  *)
(* is known after a loss, and exactly how far it is without.               *)

Follows(f, T, p, c) ==
  \E a, o, t : Laid(f, T, a, o, t) /\ Honest(f, p, c, a + o + t)
Exactly(f, T, p, c) ==
  \E a, o, t : Laid(f, T, a, o, t) /\ Honest(f, p, c, a + o + t) /\ Exact(f, T, p, c, a, o, t)

\* Symbols that were dropped before they were read.
LEMMA FollowsLater ==
  ASSUME NEW f, NEW T, NEW p, NEW c \in Nat, NEW d \in Nat, c <= d, d <= Len(T), Follows(f, T, p, c)
  PROVE  Follows(f, T, p, d)
<1>1. PICK a, o, t : Laid(f, T, a, o, t) /\ Honest(f, p, c, a + o + t)
  BY DEF Follows
<1>2. Honest(f, p, d, a + o + t)
  BY <1>1, HonestLater
<1> QED BY <1>1, <1>2 DEF Follows

\* A read, at the cursor or after a loss.
LEMMA FollowsRead ==
  ASSUME NEW f, NEW T, NEW p, NEW c \in Nat, NEW e \in Nat, NEW d \in Nat, c <= e, e <= d,
         d <= Len(T), Len(T) \in Nat, Follows(f, T, p, c)
  PROVE  Follows(f, T, feed(p, SubSeq(T, e + 1, d)), d)
<1>0. e <= Len(T)
  OBVIOUS
<1>1. PICK a, o, t : Laid(f, T, a, o, t) /\ Honest(f, p, e, a + o + t)
  BY <1>0, FollowsLater DEF Follows
<1>2. Honest(f, feed(p, SubSeq(T, e + 1, d)), d, a + o + t)
  BY <1>1, FeedExact
<1> QED BY <1>1, <1>2 DEF Follows

\* A read of which nothing was lost.
LEMMA ExactlyRead ==
  ASSUME NEW f, NEW T, NEW p, NEW c \in Nat, NEW d \in Nat, c <= d, d <= Len(T), Exactly(f, T, p, c)
  PROVE  Exactly(f, T, feed(p, SubSeq(T, c + 1, d)), d)
<1>1. PICK a, o, t : Laid(f, T, a, o, t) /\ Honest(f, p, c, a + o + t) /\ Exact(f, T, p, c, a, o, t)
  BY DEF Exactly
<1>2. /\ Honest(f, feed(p, SubSeq(T, c + 1, d)), d, a + o + t)
      /\ Exact(f, T, feed(p, SubSeq(T, c + 1, d)), d, a, o, t)
  BY <1>1, FeedExact
<1> QED BY <1>1, <1>2 DEF Exactly

\* Nothing was read yet.
LEMMA FollowsStart ==
  ASSUME NEW f, FrameOf(f)
  PROVE  Follows(f, Stream(f), NewParser, 0) /\ Exactly(f, Stream(f), NewParser, 0)
<1>1. PICK a, o, t : Laid(f, Stream(f), a, o, t)
  BY StreamParts
<1>2. MaxBytes \in Nat /\ <<>> \in Seq(Alphabet) /\ Len(<<>>) = 0 /\ <<>> \in Seq(Symbols) /\ a \in Nat
  BY <1>1, MaxBytesAssumption, EmptySeq, LaidTypes
<1>3. PICK p : p = NewParser
  OBVIOUS
<1>4. /\ p \in ParserType /\ p.scan = <<>> /\ p.exit = None /\ p.verdict = "open" /\ p.output = <<>>
      /\ p.line = None /\ ~ p.started /\ p.debug = "unseen" /\ ~ p.truncated
  BY <1>2, <1>3 DEF NewParser, ParserType
<1>5. Honest(f, p, 0, a + o + t)
  BY <1>2, <1>4, ScannedEmpty DEF Honest
<1>6. Out(p, <<>>)
  <2>1. Newest(<<>>, MaxBytes) = <<>> /\ ~ (Len(<<>>) > MaxBytes)
    BY <1>2 DEF Newest
  <2> QED BY <1>4, <2>1 DEF Out
<1>7. Before(p, 0, a)
  BY <1>2, <1>4, <1>6 DEF Before, Outside
<1>8. Exact(f, Stream(f), p, 0, a, o, t)
  BY <1>4, <1>7 DEF Exact
<1> QED BY <1>1, <1>3, <1>5, <1>8 DEF Follows, Exactly

\* The types of a parser that follows a stream.
LEMMA FollowsType ==
  ASSUME NEW f, NEW T, NEW p, NEW c, Follows(f, T, p, c)
  PROVE  /\ p \in ParserType /\ Len(p.output) <= MaxBytes
         /\ Plain(p.output) \in Seq(Alphabet)
<1>1. p \in ParserType /\ Len(p.output) <= MaxBytes
  BY DEF Follows, Honest
<1>2. p.output \in Seq(Alphabet)
  BY <1>1 DEF ParserType
<1> QED BY <1>1, <1>2, PlainDrawn

\* A complete frame was read to its end; its exit status is the command's.
LEMMA FollowsComplete ==
  ASSUME NEW f, NEW T, NEW p, NEW c, Follows(f, T, p, c), p.verdict = "complete"
  PROVE  f.health /\ p.exit = f.exit /\ p.exit \in {"0", "1"} /\ c = Len(T)
<1>1. PICK a, o, t : Laid(f, T, a, o, t) /\ Honest(f, p, c, a + o + t)
  BY DEF Follows
<1>2. f.health /\ p.exit = f.exit /\ c = a + o + t + 23
  BY <1>1 DEF Honest
<1>3. Len(T) = a + o + t + 23
  <2>1. Len(T) = a + o + t + (IF f.health THEN 23 ELSE 11)
    BY <1>1, ZenonT(40) DEF Laid
  <2> QED BY <1>2, <2>1, Zenon
<1> QED BY <1>1, <1>2, <1>3, LaidTypes

\* Without a loss its output is the command's output, or the newest part of it.
LEMMA ExactlyComplete ==
  ASSUME NEW f, NEW T, NEW p, NEW c, Exactly(f, T, p, c), p.verdict = "complete"
  PROVE  /\ f.trap = <<>> /\ p.output = Newest(f.out, MaxBytes)
         /\ (p.truncated <=> Len(f.out) > MaxBytes)
<1>1. PICK a, o, t : Laid(f, T, a, o, t) /\ Exact(f, T, p, c, a, o, t)
  BY DEF Exactly
<1>2. AfterEnd(f, p, t)
  BY <1>1 DEF Exact
<1>3. t = 0 /\ Out(p, f.out)
  BY <1>2 DEF AfterEnd
<1>4. f.trap = <<>>
  BY <1>1, <1>3, LaidTypes, EmptySeq
<1> QED BY <1>3, <1>4, Zenon DEF Out

-----------------------------------------------------------------------------
(* The state of the output path.                                           *)

\* What the prompt detector and the gate keep.
Watching(d) ==
  /\ d \in [history : {d.history}, base : {d.base}, seen : {d.seen}]
  /\ d.history \in Seq(Alphabet) /\ Len(d.history) <= HistoryLimit
Gate == [typed : 0..1, interrupts : 0..1]

\* The detector stays a record of its three fields.
LEMMA DetectorFields ==
  ASSUME NEW A, NEW B, NEW C, NEW d \in [history : A, base : B, seen : C], NEW n, NEW v
  PROVE  /\ [d EXCEPT !.history = n, !.base = v] \in [history : {n}, base : {v}, seen : C]
         /\ [d EXCEPT !.seen = n] \in [history : A, base : B, seen : {n}]
  OBVIOUS

\* The history never exceeds its limit.
LEMMA DetectWatches ==
  ASSUME NEW d, Watching(d), NEW data \in Seq(Alphabet)
  PROVE  Watching(Detect(d, data).detector)
<1>1. /\ d \in [history : {d.history}, base : {d.base}, seen : {d.seen}]
      /\ d.history \in Seq(Alphabet)
  BY DEF Watching
<1>2. PICK u \in Seq(Alphabet) : u = d.history \o Plain(data)
  BY <1>1, PlainDrawn, ConcatProperties
<1>3. HistoryLimit \in Nat
  BY TerminalBounds
<1>4. PICK n : n = Newest(u, HistoryLimit)
  OBVIOUS
<1>5. n \in Seq(Alphabet) /\ Len(n) <= HistoryLimit
  <2>1. n \in Seq(Alphabet) /\ Len(n) = (IF Len(u) > HistoryLimit THEN HistoryLimit ELSE Len(u))
    BY <1>3, <1>4, NewestProperties
  <2> QED BY <1>3, <2>1
<1>6. \E v, w : Detect(d, data).detector \in [history : {n}, base : {v}, seen : {w}]
  <2> DEFINE drop == IF Len(u) > HistoryLimit THEN Len(u) - HistoryLimit ELSE 0
             e == [d EXCEPT !.history = n, !.base = d.base + drop]
             new == {i \in Heads(e.history) : Fresh(e, i)}
             ends == {e.base + Ending(e.history, i) : i \in new}
             w == IF ends = {} THEN e.seen ELSE Max(ends)
  <2>1. Detect(d, data).detector = [e EXCEPT !.seen = w]
    BY <1>2, <1>4 DEF Detect
  <2>2. PICK v : v = d.base + drop
    OBVIOUS
  <2>3. e \in [history : {n}, base : {v}, seen : {d.seen}]
    <3>1. [d EXCEPT !.history = n, !.base = v] \in [history : {n}, base : {v}, seen : {d.seen}]
      BY <1>1, DetectorFields
    <3> QED BY <2>2, <3>1
  <2> HIDE DEF e, w
  <2>4. [e EXCEPT !.seen = w] \in [history : {n}, base : {v}, seen : {w}]
    BY <2>3, DetectorFields
  <2> QED BY <2>1, <2>4
<1>7. PICK v, w : Detect(d, data).detector \in [history : {n}, base : {v}, seen : {w}]
  BY <1>6
<1>8. PICK q \in [history : {n}, base : {v}, seen : {w}] : q = Detect(d, data).detector
  BY <1>7
<1>9. q.history = n /\ q.base = v /\ q.seen = w
  OBVIOUS
<1>10. Watching(q)
  BY <1>5, <1>8, <1>9 DEF Watching
<1> QED BY <1>8, <1>10

\* One password and one interrupt at most.
LEMMA PassType ==
  ASSUME NEW g \in Gate, NEW n PROVE Pass(g, n) \in Gate
<1>1. CASE n = 0
  BY <1>1 DEF Pass
<1>2. CASE n # 0
  <2>1. PICK i : i = IF g.typed + n > 1 THEN 1 ELSE g.interrupts
    OBVIOUS
  <2>2. i \in 0..1
    BY <2>1 DEF Gate
  <2>3. Pass(g, n) = [typed |-> 1, interrupts |-> i]
    BY <1>2, <2>1 DEF Pass
  <2> QED BY <2>2, <2>3 DEF Gate
<1> QED BY <1>1, <1>2

\* The client of raw mode, its cursor and what it has read.
Client(T) ==
  /\ client \in [cursor : Nat, got : Seq(Alphabet), told : BOOLEAN]
  /\ client.cursor <= sent
  /\ mode = "raw" => IF client.told THEN start > 0 ELSE client.got = SubSeq(T, 1, client.cursor)

\* The flags.
Modes == mode \in {"command", "raw"} /\ {running, closed, lossy, cut} \subseteq BOOLEAN

\* The inductive invariant: the ring buffer is a part of the stream, the parser follows the
\* stream up to the session's cursor, exactly unless symbols were lost.
Inv ==
  /\ Modes /\ FrameOf(frame)
  /\ Buffered(Text, ring, start, sent)
  /\ cursor \in Nat /\ cursor <= sent
  /\ Follows(frame, Text, parser, cursor)
  /\ mode = "command" /\ ~lossy => Exactly(frame, Text, parser, cursor)
  /\ Watching(detector) /\ gate \in Gate
  /\ Client(Text)

\* The stream is a sequence of symbols.
LEMMA TextType ==
  ASSUME FrameOf(frame) PROVE Text \in Seq(Alphabet) /\ Len(Text) \in Nat
  BY StreamParts, LaidTypes DEF Text

\* The invariant at the start of a command or of raw mode.
LEMMA InvInit == Init => Inv
<1> SUFFICES ASSUME Init PROVE Inv
  OBVIOUS
<1>1. frame \in Frames \union RawFrames /\ mode \in {"command", "raw"}
  BY DEF Init
<1>2. FrameOf(frame)
  BY <1>1, FramesAssumption
<1>3. Modes
  BY <1>1 DEF Init, Modes
<1>4. Text \in Seq(Alphabet) /\ Len(Text) \in Nat
  BY <1>2, TextType
<1>5. Buffered(Text, ring, start, sent)
  <2>1. sent = 0 /\ start = 0 /\ ring = <<>> /\ MaxBytes \in Nat
    BY MaxBytesAssumption DEF Init
  <2>2. SubSeq(Text, 0 + 1, 0) = <<>>
    BY SubSeqEmpty
  <2> QED BY <1>4, <2>1, <2>2 DEF Buffered
<1>6. cursor \in Nat /\ cursor <= sent
  BY DEF Init
<1>7. Follows(frame, Text, parser, cursor) /\ Exactly(frame, Text, parser, cursor)
  BY <1>2, FollowsStart DEF Init, Text
<1>8. Watching(detector)
  <2>1. HistoryLimit \in Nat /\ <<>> \in Seq(Alphabet) /\ Len(<<>>) = 0
    BY TerminalBounds, EmptySeq
  <2>2. detector = [history |-> <<>>, base |-> 0, seen |-> 0]
    BY DEF Init, NewDetector
  <2> QED BY <2>1, <2>2 DEF Watching
<1>9. gate \in Gate
  BY DEF Init, Gate
<1>10. Client(Text)
  <2>1. <<>> \in Seq(Alphabet) /\ SubSeq(Text, 1, 0) = <<>>
    BY SubSeqEmpty, EmptySeq
  <2>2. client = [cursor |-> 0, got |-> <<>>, told |-> FALSE] /\ sent = 0
    BY DEF Init
  <2> QED BY <2>1, <2>2 DEF Client
<1> QED BY <1>2, <1>3, <1>5, <1>6, <1>7, <1>8, <1>9, <1>10 DEF Inv

\* What a step of the session or the reader thread leaves alone.
LEMMA InvReadOutput ==
  ASSUME Inv, NEW k \in 1..MaxChunk, ReadOutput(k) PROVE Inv'
<1>0. /\ Modes /\ FrameOf(frame)
      /\ Buffered(Text, ring, start, sent)
      /\ cursor \in Nat /\ cursor <= sent
      /\ Follows(frame, Text, parser, cursor)
      /\ mode = "command" /\ ~lossy => Exactly(frame, Text, parser, cursor)
      /\ Watching(detector) /\ gate \in Gate
      /\ Client(Text)
  BY DEF Inv
<1>1. /\ sent + k <= Len(Text) /\ sent' = sent + k /\ closed' = ~running
      /\ frame' = frame /\ mode' = mode /\ running' = running /\ cursor' = cursor /\ parser' = parser
      /\ detector' = detector /\ gate' = gate /\ lossy' = lossy /\ cut' = cut /\ client' = client
  BY DEF ReadOutput, sessionVars
<1>2. Text' = Text /\ Text \in Seq(Alphabet)
  BY <1>0, <1>1, TextType DEF Text
<1>3. k \in Nat /\ start \in Nat /\ sent \in Nat /\ MaxChunk \in Nat
  BY <1>0, TerminalBounds DEF Buffered
<1>4. Buffered(Text, ring', start', sent') /\ start <= start'
  <2> DEFINE u == ring \o SubSeq(Text, sent + 1, sent + k)
  <2>1. ring' = Newest(u, MaxBytes) /\ start' = IF Len(u) - MaxBytes > 0 THEN start + (Len(u) - MaxBytes) ELSE start
    BY DEF ReadOutput, append
  <2> QED BY <1>0, <1>1, <1>2, <1>3, <2>1, BufferAppend
<1>5. sent <= sent' /\ sent' \in Nat /\ start' \in Nat
  BY <1>1, <1>3, <1>4 DEF Buffered
<1>6. Modes'
  BY <1>0, <1>1 DEF Modes
<1>7. Client(Text)'
  <2>1. /\ client \in [cursor : Nat, got : Seq(Alphabet), told : BOOLEAN]
        /\ client.cursor <= sent
        /\ mode = "raw" => IF client.told THEN start > 0 ELSE client.got = SubSeq(Text, 1, client.cursor)
    BY <1>0 DEF Client
  <2>2. client.cursor <= sent'
    BY <1>3, <1>5, <2>1
  <2>3. start > 0 => start' > 0
    BY <1>3, <1>4, <1>5
  <2> QED BY <1>1, <1>2, <2>1, <2>2, <2>3 DEF Client
<1>8. cursor \in Nat /\ cursor <= sent'
  BY <1>0, <1>3, <1>5
<1> QED BY <1>0, <1>1, <1>2, <1>4, <1>6, <1>7, <1>8 DEF Inv

\* Steps that leave the buffer, the session and the client alone.
LEMMA InvIdle ==
  ASSUME Inv, closed' \in BOOLEAN, running' \in BOOLEAN,
         UNCHANGED <<mode, frame, sent, ring, start, cursor, parser, detector, gate, lossy, cut, client>>
  PROVE  Inv'
<1>1. Text' = Text
  BY DEF Text
<1>2. Modes' /\ Client(Text)'
  BY <1>1 DEF Inv, Modes, Client
<1> QED BY <1>1, <1>2 DEF Inv

\* The session reads at its cursor and feeds the parser.
LEMMA InvSessionRead ==
  ASSUME Inv, SessionRead PROVE Inv'
<1>0. /\ Modes /\ FrameOf(frame)
      /\ Buffered(Text, ring, start, sent)
      /\ cursor \in Nat /\ cursor <= sent
      /\ Follows(frame, Text, parser, cursor)
      /\ mode = "command" /\ ~lossy => Exactly(frame, Text, parser, cursor)
      /\ Watching(detector) /\ gate \in Gate
      /\ Client(Text)
  BY DEF Inv
<1>1. PICK read : read = ReadFrom(cursor)
  OBVIOUS
<1>2. /\ mode = "command" /\ cursor' = read.next /\ parser' = feed(parser, read.data)
      /\ lossy' = (lossy \/ read.dropped)
      /\ cut' = (cut \/ (read.data # <<>> /\ Last(read.data) = Escape[1]))
      /\ detector' = Detect(detector, read.data).detector
      /\ gate' = Pass(gate, Detect(detector, read.data).prompts)
      /\ UNCHANGED <<mode, frame, running, sent, ring, start, closed, client>>
  BY <1>1 DEF SessionRead, readerVars
<1>3. Text' = Text /\ Text \in Seq(Alphabet) /\ Len(Text) \in Nat
  BY <1>0, <1>2, TextType DEF Text
<1>4. PICK e \in Nat :
           /\ cursor <= e /\ e <= sent /\ (~ (cursor < start) => e = cursor)
           /\ read.data = SubSeq(Text, e + 1, sent)
           /\ read.next = sent /\ (read.dropped <=> cursor < start)
  BY <1>0, <1>1, <1>3, BufferRead
<1>5. sent \in Nat /\ sent <= Len(Text) /\ e <= Len(Text)
  BY <1>0, <1>3, <1>4 DEF Buffered
<1>6. Follows(frame, Text, parser', sent)
  BY <1>0, <1>2, <1>3, <1>4, <1>5, FollowsRead
<1>7. ~lossy' => Exactly(frame, Text, parser', sent)
  <2> SUFFICES ASSUME ~lossy' PROVE Exactly(frame, Text, parser', sent)
    OBVIOUS
  <2>1. ~lossy /\ ~read.dropped
    BY <1>2
  <2>2. e = cursor /\ Exactly(frame, Text, parser, cursor)
    BY <1>0, <1>2, <1>4, <2>1
  <2> QED BY <1>0, <1>2, <1>4, <1>5, <2>2, ExactlyRead
<1>8. read.data \in Seq(Alphabet)
  BY <1>3, <1>4, <1>5
<1>9. Watching(detector') /\ gate' \in Gate
  BY <1>0, <1>2, <1>8, DetectWatches, PassType
<1>10. lossy' \in BOOLEAN /\ cut' \in BOOLEAN
  BY <1>2
<1>11. Modes' /\ Client(Text)'
  BY <1>0, <1>2, <1>3, <1>10 DEF Modes, Client
<1>12. cursor' = sent /\ sent <= sent
  BY <1>2, <1>4, <1>5
<1> QED BY <1>0, <1>2, <1>3, <1>5, <1>6, <1>7, <1>9, <1>11, <1>12 DEF Inv

\* The client reads at its own cursor.
LEMMA InvRawRead ==
  ASSUME Inv, RawRead PROVE Inv'
<1>0. /\ Modes /\ FrameOf(frame)
      /\ Buffered(Text, ring, start, sent)
      /\ cursor \in Nat /\ cursor <= sent
      /\ Follows(frame, Text, parser, cursor)
      /\ Watching(detector) /\ gate \in Gate
      /\ Client(Text)
  BY DEF Inv
<1>1. PICK read : read = ReadFrom(client.cursor)
  OBVIOUS
<1>2. /\ mode = "raw" /\ ~client.told /\ cursor' = start + Len(ring)
      /\ \/ client' = [cursor |-> read.next, got |-> client.got \o read.data,
                       told |-> client.told \/ read.dropped]
         \/ client' = client
      /\ UNCHANGED <<mode, frame, running, sent, ring, start, closed, parser, detector, gate, lossy, cut>>
  BY <1>1 DEF RawRead, readerVars, EndCursor
<1>3. Text' = Text /\ Text \in Seq(Alphabet) /\ Len(Text) \in Nat
  BY <1>0, <1>2, TextType DEF Text
<1>4. cursor' = sent /\ sent \in Nat /\ sent <= Len(Text) /\ start \in Nat
  BY <1>0, <1>2, <1>3, BufferLength DEF Buffered
<1>5. Follows(frame, Text, parser, sent)
  BY <1>0, <1>4, FollowsLater
<1>6. /\ client \in [cursor : Nat, got : Seq(Alphabet), told : BOOLEAN]
      /\ client.cursor \in Nat /\ client.cursor <= sent
      /\ client.got = SubSeq(Text, 1, client.cursor)
  BY <1>0, <1>2 DEF Client
<1>7. PICK e \in Nat :
           /\ client.cursor <= e /\ e <= sent /\ (~ (client.cursor < start) => e = client.cursor)
           /\ read.data = SubSeq(Text, e + 1, sent)
           /\ read.next = sent /\ (read.dropped <=> client.cursor < start)
  <2>1. PICK c \in Nat : c = client.cursor
    BY <1>6
  <2> QED BY <1>0, <1>1, <1>3, <1>6, <2>1, BufferRead
<1>8. Client(Text)'
  <2>1. CASE client' = client
    BY <1>2, <1>3, <1>6, <2>1 DEF Client
  <2>2. CASE client' = [cursor |-> read.next, got |-> client.got \o read.data,
                        told |-> client.told \/ read.dropped]
    <3>1. PICK g \in Seq(Alphabet) : g = client.got \o read.data
      <4>1. read.data \in Seq(Alphabet) /\ client.got \in Seq(Alphabet)
        BY <1>3, <1>4, <1>6, <1>7
      <4> QED BY <4>1, ConcatProperties
    <3>2. PICK b \in BOOLEAN : b <=> client.told \/ read.dropped
      OBVIOUS
    <3>3. client'.cursor = sent /\ client'.got = g /\ (client'.told <=> b)
          /\ client' \in [cursor : Nat, got : Seq(Alphabet), told : BOOLEAN]
      BY <1>4, <1>7, <2>2, <3>1, <3>2
    <3>4. b => start > 0
      BY <1>2, <1>4, <1>6, <1>7, <3>2
    <3>5. ~b => g = SubSeq(Text, 1, sent)
      <4> SUFFICES ASSUME ~b PROVE g = SubSeq(Text, 1, sent)
        OBVIOUS
      <4>1. e = client.cursor
        BY <1>2, <1>7, <3>2
      <4>2. SubSeq(Text, 0 + 1, e) \o SubSeq(Text, e + 1, sent) = SubSeq(Text, 0 + 1, sent)
        BY <1>3, <1>4, <1>7, PartConcat
      <4>3. SubSeq(Text, 1, e) \o SubSeq(Text, e + 1, sent) = SubSeq(Text, 1, sent)
        <5>1. 0 + 1 = 1
          OBVIOUS
        <5> QED BY <4>2, <5>1, Zenon
      <4>4. client.got = SubSeq(Text, 1, e) /\ read.data = SubSeq(Text, e + 1, sent)
        BY <1>6, <1>7, <4>1
      <4> QED BY <3>1, <4>3, <4>4, Zenon
    <3> QED BY <1>2, <1>3, <1>4, <3>3, <3>4, <3>5 DEF Client
  <2> QED BY <1>2, <2>1, <2>2
<1>9. Modes'
  BY <1>0, <1>2 DEF Modes
<1> QED BY <1>0, <1>2, <1>3, <1>4, <1>5, <1>8, <1>9 DEF Inv

\* Every step keeps the invariant.
LEMMA InvNext == Inv /\ [Next]_outVars => Inv'
<1> SUFFICES ASSUME Inv, [Next]_outVars PROVE Inv'
  OBVIOUS
<1>0. closed \in BOOLEAN /\ running \in BOOLEAN
  BY DEF Inv, Modes
<1>1. CASE \E k \in 1..MaxChunk : ReadOutput(k)
  BY <1>1, InvReadOutput
<1>2. CASE ReaderEnds
  BY <1>0, <1>2, InvIdle DEF ReaderEnds, sessionVars
<1>3. CASE ChildExits
  BY <1>0, <1>3, InvIdle DEF ChildExits, sessionVars, readerVars
<1>4. CASE SessionRead
  BY <1>4, InvSessionRead
<1>5. CASE TimesOut
  BY <1>0, <1>5, InvIdle DEF TimesOut, readerVars
<1>6. CASE RawRead
  BY <1>6, InvRawRead
<1>7. CASE UNCHANGED outVars
  BY <1>0, <1>7, InvIdle DEF outVars, sessionVars, readerVars
<1> QED BY <1>1, <1>2, <1>3, <1>4, <1>5, <1>6, <1>7 DEF Next

\* What it was strengthened from.
LEMMA InvMeans == Inv => TypeOK /\ RawReadsAreExact
<1> SUFFICES ASSUME Inv PROVE TypeOK /\ RawReadsAreExact
  OBVIOUS
<1>0. /\ Modes /\ FrameOf(frame)
      /\ Buffered(Text, ring, start, sent)
      /\ cursor \in Nat /\ cursor <= sent
      /\ Follows(frame, Text, parser, cursor)
      /\ Watching(detector) /\ gate \in Gate
      /\ Client(Text)
  BY DEF Inv
<1>1. Text \in Seq(Alphabet) /\ Len(Text) \in Nat
  BY <1>0, TextType
<1>2. start + Len(ring) = sent /\ Len(ring) <= MaxBytes /\ sent \in 0..Len(Text)
  <2>1. start + Len(ring) = sent /\ Len(ring) <= MaxBytes
    BY <1>0, <1>1, BufferLength
  <2>2. sent \in Nat /\ sent <= Len(Text)
    BY <1>0 DEF Buffered
  <2> QED BY <1>1, <2>1, <2>2
<1>3. Len(parser.output) <= MaxBytes /\ parser.verdict \in {"open", "invalid", "complete"}
  BY <1>0, FollowsType DEF ParserType
<1>4. Len(detector.history) <= HistoryLimit
  BY <1>0 DEF Watching
<1>5. gate.typed \in 0..1 /\ gate.interrupts \in 0..1
  BY <1>0 DEF Gate
<1>6. cursor \in 0..sent /\ client.cursor \in 0..sent
  BY <1>0, <1>2 DEF Client
<1>7. TypeOK
  BY <1>0, <1>2, <1>3, <1>4, <1>5, <1>6 DEF TypeOK, Modes
<1>8. RawReadsAreExact
  BY <1>0 DEF Client, RawReadsAreExact
<1> QED BY <1>7, <1>8

\* So it always holds.
LEMMA InvAlways == Spec => []Inv
  BY InvInit, InvNext, PTL DEF Spec

\* The cursors stay within the stream, the ring buffer holds exactly what lies between start
\* and its end cursor, and the buffer, the output, the history of the prompt detector and the
\* authentication gate stay within their limits (TerminalRingBuffer, CommandFrameParser,
\* PromptDetector), for all streams, chunks, reads and limits.
THEOREM TypeCorrect == Spec => []TypeOK
  BY InvAlways, InvMeans, PTL

\* In raw mode the client that reads at its own cursor gets the stream without a gap, unless
\* loss was reported to it, which never happens while the buffer still holds everything
\* (InteractiveTerminalController.read, TerminalRingBuffer._read_locked).
THEOREM RawReads == Spec => []RawReadsAreExact
  BY InvAlways, InvMeans, PTL

-----------------------------------------------------------------------------
(* The promise to a command.                                               *)

\* The promise speaks of the same stream, ...
LEMMA PromisedStream ==
  \A f : Promised!Stream(f) = Stream(f)
  BY DEF Promised!Stream, Stream, Promised!Line, Line, Promised!NewLine, NewLine, Promised!Begin, Begin,
         Promised!DebugBegin, DebugBegin, Promised!DebugEnd, DebugEnd, Promised!EndMark, EndMark,
         Promised!CwdMark, CwdMark, Promised!Health, Health

\* ... of the same text and of the same results.
LEMMA PromisedText ==
  /\ \A s : Promised!Plain(s) = Plain(s)
  /\ \A s, m : Promised!Newest(s, m) = Newest(s, m)
  /\ \A x, s, b : Promised!Completed(x, s, b) = Completed(x, s, b)
  /\ Promised!Unverified = Unverified
<1>2. \A s : Promised!Plain(s) = Plain(s)
  BY Zenon DEF Promised!Plain, Plain, Promised!Stripped, Stripped, Promised!Escape, Escape,
               Promised!Last, Last, Promised!Front, Front
<1>3. \A s, m : Promised!Newest(s, m) = Newest(s, m)
  BY DEF Promised!Newest, Newest
<1>4. \A x, s, b : Promised!Completed(x, s, b) = Completed(x, s, b)
  BY DEF Promised!Completed, Completed
<1>5. Promised!Unverified = Unverified
  BY DEF Promised!Unverified, Unverified
<1> QED BY <1>2, <1>3, <1>4, <1>5

\* A step of CommandStream.
PromisedStep ==
  /\ UNCHANGED frame /\ lossy' \in {lossy, TRUE}
  /\ Promised!Arrive \/ Promised!Complete \/ Promised!GiveUp

\* A chunk that arrives.
LEMMA ArriveStep ==
  ASSUME Inv, UNCHANGED <<frame, lossy, outcome>>, sent' \in Nat, sent <= sent', sent' <= Len(Text)
  PROVE  PromisedStep
<1>1. sent \in Nat /\ Len(Text) \in Nat
  BY TextType DEF Inv, Buffered
<1>2. sent' \in sent..Len(Text)
  BY <1>1
<1>3. Promised!Arrive
  BY <1>2, PromisedStream DEF Promised!Arrive, Text
<1> QED BY <1>3 DEF PromisedStep

\* Any end without a verified frame.
LEMMA GiveUpStep ==
  ASSUME UNCHANGED <<frame, sent>>, lossy' \in {lossy, TRUE}, outcome = None, outcome' = Unverified
  PROVE  PromisedStep
  BY PromisedText DEF PromisedStep, Promised!GiveUp

\* A result is a result.
LEMMA CompletedFields ==
  ASSUME NEW x \in {"0", "1"}, NEW s \in Seq(Alphabet), NEW b \in BOOLEAN
  PROVE  /\ Completed(x, s, b) # None
         /\ Completed(x, s, b).status = "completed" /\ Completed(x, s, b).exit = x
<1>1. Completed(x, s, b) \in [status : {"completed"}, exit : {"0", "1"}, output : Seq(Alphabet),
                              truncated : BOOLEAN]
  BY DEF Completed
<1>2. Completed(x, s, b) # None
  BY <1>1, NoneAssumption
<1>3. Completed(x, s, b).status = "completed" /\ Completed(x, s, b).exit = x
  BY DEF Completed
<1> QED BY <1>2, <1>3

\* A verified frame: the result is the promised one.
LEMMA CompleteStep ==
  ASSUME Inv, Inv', SessionRead, parser'.verdict = "complete", running
  PROVE  PromisedStep
<1>1. /\ mode = "command" /\ outcome = None /\ UNCHANGED <<mode, frame, sent>>
      /\ outcome' = Completed(parser'.exit, Plain(parser'.output), parser'.truncated)
  BY DEF SessionRead, readerVars
<1>2. Follows(frame', Text', parser', cursor')
  BY DEF Inv
<1>3. /\ frame'.health /\ parser'.exit = frame'.exit /\ parser'.exit \in {"0", "1"}
      /\ cursor' = Len(Text')
  BY <1>2, FollowsComplete
<1>4. parser' \in ParserType /\ Plain(parser'.output) \in Seq(Alphabet)
  BY <1>2, FollowsType
<1>5. parser'.truncated \in BOOLEAN
  BY <1>4 DEF ParserType
<1>6. outcome' # None /\ outcome'.status = "completed" /\ outcome'.exit = frame.exit
  BY <1>1, <1>3, <1>4, <1>5, CompletedFields
<1>7. sent = Len(Text)
  <2>1. Text' = Text /\ Len(Text) \in Nat
    BY <1>1, TextType DEF Text, Inv
  <2>2. cursor' <= sent' /\ sent' <= Len(Text') /\ sent' \in Nat
    BY DEF Inv, Buffered
  <2> QED BY <1>1, <1>3, <2>1, <2>2
<1>8. lossy' \in {lossy, TRUE}
  <2>1. lossy \in BOOLEAN /\ lossy' \in BOOLEAN
    BY DEF Inv, Modes
  <2>2. lossy => lossy'
    BY DEF SessionRead
  <2> QED BY <2>1, <2>2
<1>9. ASSUME ~lossy'
      PROVE  frame.trap = <<>> /\ outcome' =
               Completed(frame.exit, Plain(Newest(frame.out, MaxBytes)), Len(frame.out) > MaxBytes)
  <2>1. Exactly(frame', Text', parser', cursor')
    BY <1>1, <1>9 DEF Inv
  <2>2. /\ frame'.trap = <<>> /\ parser'.output = Newest(frame'.out, MaxBytes)
        /\ (parser'.truncated <=> Len(frame'.out) > MaxBytes)
    BY <2>1, ExactlyComplete
  <2>3. parser'.truncated = (Len(frame.out) > MaxBytes)
    BY <1>1, <1>5, <2>2
  <2> QED BY <1>1, <1>3, <2>2, <2>3, Zenon
<1>10. Promised!Complete
  <2>1. frame.health /\ sent = Len(Promised!Stream(frame))
    BY <1>1, <1>3, <1>7, PromisedStream DEF Text
  <2>2. IF lossy' THEN outcome'.status = "completed" /\ outcome'.exit = frame.exit
        ELSE frame.trap = <<>> /\ outcome' =
               Promised!Completed(frame.exit, Promised!Plain(Promised!Newest(frame.out, MaxBytes)),
                                  Len(frame.out) > MaxBytes)
    BY <1>6, <1>9, PromisedText, Zenon
  <2> QED BY <1>1, <1>6, <2>1, <2>2, Zenon DEF Promised!Complete
<1> QED BY <1>1, <1>8, <1>10 DEF PromisedStep

\* Every step is a step of the promise, or none.
LEMMA PromisedNext ==
  Inv /\ Inv' /\ [Next]_outVars => PromisedStep \/ UNCHANGED <<frame, sent, lossy, outcome>>
<1> SUFFICES ASSUME Inv, Inv', [Next]_outVars
             PROVE  PromisedStep \/ UNCHANGED <<frame, sent, lossy, outcome>>
  OBVIOUS
<1>1. CASE \E k \in 1..MaxChunk : ReadOutput(k)
  <2>1. PICK k \in 1..MaxChunk : ReadOutput(k)
    BY <1>1
  <2>2. /\ UNCHANGED <<frame, lossy, outcome>> /\ sent' = sent + k /\ sent + k <= Len(Text)
    BY <2>1 DEF ReadOutput, sessionVars
  <2>3. sent \in Nat /\ MaxChunk \in Nat
    BY TerminalBounds DEF Inv, Buffered
  <2>4. sent' \in Nat /\ sent <= sent' /\ sent' <= Len(Text)
    BY <2>2, <2>3
  <2> QED BY <2>2, <2>4, ArriveStep
<1>2. CASE ReaderEnds
  BY <1>2 DEF ReaderEnds, sessionVars
<1>3. CASE ChildExits
  BY <1>3 DEF ChildExits, readerVars, sessionVars
<1>4. CASE SessionRead
  <2>1. /\ outcome = None /\ UNCHANGED <<frame, sent>>
        /\ \/ outcome' = None
           \/ outcome' = Unverified
           \/ parser'.verdict = "complete" /\ running
    BY <1>4 DEF SessionRead, readerVars
  <2>2. lossy' \in {lossy, TRUE}
    <3>1. lossy \in BOOLEAN /\ lossy' \in BOOLEAN
      BY DEF Inv, Modes
    <3>2. lossy => lossy'
      BY <1>4 DEF SessionRead
    <3> QED BY <3>1, <3>2
  <2>3. CASE outcome' = None
    <3>1. sent' \in sent..Len(Promised!Stream(frame))
      <4>1. sent \in Nat /\ Len(Text) \in Nat /\ sent <= Len(Text)
        BY TextType DEF Inv, Buffered
      <4>2. sent' \in sent..Len(Text)
        BY <2>1, <4>1
      <4> QED BY <4>2, PromisedStream DEF Text
    <3>2. Promised!Arrive
      BY <2>1, <2>3, <3>1 DEF Promised!Arrive
    <3> QED BY <2>1, <2>2, <3>2 DEF PromisedStep
  <2>4. CASE outcome' = Unverified
    BY <2>1, <2>2, <2>4, GiveUpStep
  <2>5. CASE parser'.verdict = "complete" /\ running
    BY <1>4, <2>5, CompleteStep
  <2> QED BY <2>1, <2>3, <2>4, <2>5
<1>5. CASE TimesOut
  <2>1. /\ UNCHANGED <<frame, sent, lossy>> /\ outcome = None /\ outcome' = Unverified
    BY <1>5 DEF TimesOut, readerVars
  <2> QED BY <2>1, GiveUpStep
<1>6. CASE RawRead
  <2>1. UNCHANGED <<frame, sent, lossy>> /\ outcome = None
    BY <1>6 DEF RawRead, readerVars
  <2>2. outcome' = outcome \/ outcome' = Unverified
    BY <1>6 DEF RawRead
  <2>3. CASE outcome' = outcome
    BY <2>1, <2>3
  <2>4. CASE outcome' = Unverified
    BY <2>1, <2>4, GiveUpStep
  <2> QED BY <2>2, <2>3, <2>4
<1>7. CASE UNCHANGED outVars
  BY <1>7 DEF outVars, sessionVars, readerVars
<1> QED BY <1>1, <1>2, <1>3, <1>4, <1>5, <1>6, <1>7 DEF Next

\* However the stream is cut into chunks and reads, wherever a marker line or a long line is
\* cut, and whatever of it is overwritten in the ring buffer, execute returns a result only for
\* a frame that a healthy shell sent to its end; its exit status is the command's, and if
\* nothing was lost its output is the newest part of the command's output, all of it unless it
\* says truncated (CommandFrameParser.feed, _consume_line, _bound_partial_line).
THEOREM OutputRefines == Spec => OutputIsWhole
<1>1. Init => Promised!Begun /\ lossy = FALSE
  BY DEF Init, Promised!Begun
<1>2. Inv /\ Inv' /\ [Next]_outVars =>
        [/\ UNCHANGED frame /\ lossy' \in {lossy, TRUE}
         /\ Promised!Arrive \/ Promised!Complete \/ Promised!GiveUp]_<<frame, sent, lossy, outcome>>
  BY PromisedNext DEF PromisedStep
<1> QED BY <1>1, <1>2, InvAlways, PTL DEF Spec, OutputIsWhole, Promised!Spec

-----------------------------------------------------------------------------
(* Terminal queries.                                                       *)

\* The queries in the stream from b to e.
Asks(T, i) == T[i] = Query[1] /\ T[i + 1] = Query[2]
QueryAt(T, b, e) == {i \in 1..(e - b) - 1 : Asks(T, b + i)}

\* Queries in a part of the stream, counted at their places in the stream.
LEMMA QueriesOfPart ==
  ASSUME NEW S, NEW T \in Seq(S), NEW b \in Nat, NEW e \in Nat, b <= e, e <= Len(T)
  PROVE  /\ Queries(SubSeq(T, b + 1, e)) = Cardinality(QueryAt(T, b, e))
         /\ IsFiniteSet(QueryAt(T, b, e)) /\ Queries(SubSeq(T, b + 1, e)) \in Nat
         /\ Queries(SubSeq(T, b + 1, e)) > 0 <=> \E i \in 1..(e - b) - 1 : Asks(T, b + i)
<1>1. PICK u : u = SubSeq(T, b + 1, e)
  OBVIOUS
<1>2. u \in Seq(S) /\ Len(u) = e - b /\ \A i \in 1..e - b : u[i] = T[b + i]
  BY <1>1
<1>3. ASSUME NEW i \in 1..(e - b) - 1 PROVE u[i] = T[b + i] /\ u[i + 1] = T[b + i + 1]
  <2>1. i \in 1..e - b /\ i + 1 \in 1..e - b /\ b + (i + 1) = b + i + 1
    OBVIOUS
  <2> QED BY <1>2, <2>1
<1>4. {i \in 1..(Len(u) - 1) : u[i] = Query[1] /\ u[i + 1] = Query[2]} = QueryAt(T, b, e)
  BY <1>2, <1>3 DEF QueryAt, Asks
<1>5. Queries(u) = Cardinality(QueryAt(T, b, e))
  BY <1>4 DEF Queries
<1>6. IsFiniteSet(QueryAt(T, b, e))
  <2>1. IsFiniteSet(1..(e - b) - 1)
    BY FS_Interval
  <2>2. QueryAt(T, b, e) \in SUBSET (1..(e - b) - 1)
    BY DEF QueryAt
  <2> QED BY <2>1, <2>2, FS_Subset
<1>7. Cardinality(QueryAt(T, b, e)) \in Nat
  BY <1>6, FS_CardinalityType
<1>8. Cardinality(QueryAt(T, b, e)) = 0 <=> QueryAt(T, b, e) = {}
  BY <1>6, FS_EmptySet
<1>9. QueryAt(T, b, e) # {} <=> \E i \in 1..(e - b) - 1 : Asks(T, b + i)
  BY DEF QueryAt
<1>10. Queries(u) > 0 <=> QueryAt(T, b, e) # {}
  BY <1>5, <1>7, <1>8
<1>11. Queries(u) > 0 <=> \E i \in 1..(e - b) - 1 : Asks(T, b + i)
  BY <1>9, <1>10
<1> QED BY <1>1, <1>5, <1>6, <1>7, <1>11

\* A longer part holds no fewer queries.
LEMMA QueriesMonotonic ==
  ASSUME NEW S, NEW T \in Seq(S), NEW b \in Nat, NEW d \in Nat, NEW e \in Nat,
         b <= e, d <= e, e <= Len(T)
  PROVE  /\ Queries(SubSeq(T, b + 1, e)) <= Queries(SubSeq(T, 0 + 1, e))
         /\ Queries(SubSeq(T, 0 + 1, d)) <= Queries(SubSeq(T, 0 + 1, e))
<1>1. PICK A : A = QueryAt(T, b, e)
  OBVIOUS
<1>2. PICK B : B = QueryAt(T, 0, e)
  OBVIOUS
<1>3. PICK C : C = QueryAt(T, 0, d)
  OBVIOUS
<1>4. IsFiniteSet(B)
  BY <1>2, QueriesOfPart
<1>5. Cardinality(A) <= Cardinality(B)
  <2> DEFINE f == [i \in A |-> b + i]
  <2>1. A \subseteq Nat
    BY <1>1 DEF QueryAt
  <2>2. ASSUME NEW i \in A PROVE b + i \in B
    <3>1. i \in 1..(e - b) - 1 /\ Asks(T, b + i)
      BY <1>1 DEF QueryAt
    <3>2. b + i \in 1..(e - 0) - 1 /\ 0 + (b + i) = b + i
      BY <3>1
    <3> QED BY <1>2, <3>1, <3>2 DEF QueryAt
  <2>3. f \in [A -> B]
    BY <2>2
  <2>4. \A i, j \in A : f[i] = f[j] => i = j
    BY <2>1
  <2>5. f \in Injection(A, B)
    BY <2>3, <2>4 DEF Injection, IsInjective
  <2> HIDE DEF f
  <2> QED BY <1>4, <2>5, FS_Injection
<1>6. Cardinality(C) <= Cardinality(B)
  <2>1. \A i \in 1..(d - 0) - 1 : i \in 1..(e - 0) - 1
    OBVIOUS
  <2>2. C \in SUBSET B
    BY <1>2, <1>3, <2>1 DEF QueryAt
  <2> QED BY <1>4, <2>2, FS_Subset
<1>7. d <= Len(T)
  BY LenProperties
<1> QED BY <1>1, <1>2, <1>3, <1>5, <1>6, <1>7, QueriesOfPart

\* The tail kept for queries is the newest part of what was read.
Tailed(T) ==
  /\ tail = Newest(SubSeq(T, 1, sent), TailLength) /\ replies \in Nat
  /\ QueriesAnswered

\* Nothing was asked yet.
LEMMA TailedInit == Init => Tailed(Text)
<1> SUFFICES ASSUME Init PROVE Tailed(Text)
  OBVIOUS
<1>1. FrameOf(frame)
  BY FramesAssumption DEF Init
<1>2. sent = 0 /\ tail = <<>> /\ replies = 0
  BY DEF Init
<1>3. SubSeq(Text, 1, sent) = <<>>
  BY <1>2, SubSeqEmpty
<1>4. Newest(<<>>, TailLength) = <<>>
  <2>1. TailLength \in Nat /\ Len(<<>>) = 0
    BY TerminalBounds, EmptySeq
  <2> QED BY <2>1 DEF Newest
<1>5. Queries(<<>>) = 0
  <2>1. 1..(Len(<<>>) - 1) = {}
    BY EmptySeq
  <2>2. {i \in 1..(Len(<<>>) - 1) : <<>>[i] = Query[1] /\ <<>>[i + 1] = Query[2]} = {}
    BY <2>1
  <2> QED BY <2>2, FS_EmptySet DEF Queries
<1>6. QueriesAnswered
  <2>1. Queries(SubSeq(Text, 1, sent)) = 0
    BY <1>3, <1>5, Zenon
  <2> QED BY <1>2, <2>1 DEF QueriesAnswered
<1> QED BY <1>2, <1>3, <1>4, <1>6 DEF Tailed

\* A chunk whose queries are counted together with the tail.
LEMMA TailedReadOutput ==
  ASSUME Inv, Tailed(Text), NEW k \in 1..MaxChunk, ReadOutput(k)
  PROVE  Tailed(Text)'
<1>1. Text \in Seq(Alphabet) /\ Len(Text) \in Nat /\ sent \in Nat /\ k \in Nat /\ TailLength \in Nat
  BY TextType, TerminalBounds DEF Inv, Buffered
<1>2. sent + k <= Len(Text) /\ sent' = sent + k /\ frame' = frame
  BY DEF ReadOutput
<1>3. PICK n \in Nat : n = sent + k
  BY <1>1
<1>4. sent <= n /\ n <= Len(Text) /\ sent <= Len(Text)
  BY <1>1, <1>2, <1>3
<1>5. PICK chunk : chunk = SubSeq(Text, sent + 1, n)
  OBVIOUS
<1>6. /\ tail' = Newest(tail \o chunk, TailLength)
      /\ replies' = IF Queries(tail \o chunk) > replies THEN Queries(tail \o chunk) ELSE replies
  BY <1>3, <1>5 DEF ReadOutput, Answered
<1>7. Text' = Text
  BY <1>2 DEF Text
<1>8. PICK e \in Nat : e <= sent /\ tail = SubSeq(Text, e + 1, sent) /\ (e = 0 \/ e < sent)
  <2>1. PICK d : d = IF sent - 0 > TailLength THEN sent - TailLength ELSE 0
    OBVIOUS
  <2>2. d \in Nat /\ d <= sent /\ (d = 0 \/ d < sent)
    BY <1>1, <2>1, TerminalBounds
  <2>3. Newest(SubSeq(Text, 0 + 1, sent), TailLength)
          = SubSeq(Text, (IF sent - 0 > TailLength THEN sent - TailLength ELSE 0) + 1, sent)
    BY <1>1, <1>4, NewestPart
  <2>4. tail = SubSeq(Text, d + 1, sent)
    BY <2>1, <2>3 DEF Tailed
  <2> QED BY <2>2, <2>4
<1>9. tail \o chunk = SubSeq(Text, e + 1, n)
  BY SMTT(30), <1>1, <1>4, <1>5, <1>8, PartConcat
<1>10. tail' = Newest(SubSeq(Text, 1, n), TailLength)
  <2>1. SubSeq(Text, 0 + 1, sent) \o chunk = SubSeq(Text, 0 + 1, n)
    BY <1>1, <1>4, <1>5, PartConcat
  <2>0. SubSeq(Text, 1, sent) \in Seq(Alphabet)
    BY <1>1, <1>4
  <2>2. PICK s \in Seq(Alphabet) : s = SubSeq(Text, 1, sent)
    BY <2>0
  <2>3. chunk \in Seq(Alphabet)
    BY <1>1, <1>4, <1>5
  <2>4. Newest(Newest(s, TailLength) \o chunk, TailLength) = Newest(s \o chunk, TailLength)
    BY <1>1, <2>3, NewestConcat
  <2>5. 0 + 1 = 1
    OBVIOUS
  <2>6. s \o chunk = SubSeq(Text, 1, n)
    BY <2>1, <2>2, <2>5, Zenon
  <2>7. tail = Newest(s, TailLength)
    BY <2>2 DEF Tailed
  <2> QED BY <1>6, <2>4, <2>6, <2>7, Zenon
<1>11. PICK asked : asked = Queries(SubSeq(Text, 1, sent))
  OBVIOUS
<1>12. PICK all : all = Queries(SubSeq(Text, 1, n))
  OBVIOUS
<1>13. PICK new : new = Queries(SubSeq(Text, e + 1, n))
  OBVIOUS
<1>14. replies \in Nat /\ replies <= asked /\ (asked > 0 => replies > 0)
  BY <1>11 DEF Tailed, QueriesAnswered
<1>15. 0 + 1 = 1 /\ e <= n /\ 0 <= n /\ 0 <= sent
  BY <1>4, <1>8, <1>1
<1>16. new <= all /\ asked <= all
  <2>1. /\ Queries(SubSeq(Text, e + 1, n)) <= Queries(SubSeq(Text, 0 + 1, n))
        /\ Queries(SubSeq(Text, 0 + 1, sent)) <= Queries(SubSeq(Text, 0 + 1, n))
    BY <1>1, <1>4, <1>15, QueriesMonotonic
  <2> QED BY <1>11, <1>12, <1>13, <1>15, <2>1
<1>17. all \in Nat /\ asked \in Nat /\ new \in Nat
  <2>1. /\ Queries(SubSeq(Text, 0 + 1, n)) \in Nat /\ Queries(SubSeq(Text, e + 1, n)) \in Nat
        /\ Queries(SubSeq(Text, 0 + 1, sent)) \in Nat
    BY <1>1, <1>4, <1>15, QueriesOfPart
  <2> QED BY <1>11, <1>12, <1>13, <1>15, <2>1
<1>18. all > 0 => asked > 0 \/ new > 0
  <2> SUFFICES ASSUME all > 0 PROVE asked > 0 \/ new > 0
    OBVIOUS
  <2>1. PICK i \in 1..(n - 0) - 1 : Asks(Text, 0 + i)
    <3>1. Queries(SubSeq(Text, 0 + 1, n)) > 0
      BY <1>12, <1>15
    <3> QED BY <1>1, <1>4, <1>15, <3>1, QueriesOfPart
  <2>2. CASE i < sent
    <3>1. i \in 1..(sent - 0) - 1
      BY <1>1, <2>2
    <3>2. Queries(SubSeq(Text, 0 + 1, sent)) > 0
      BY <1>1, <1>4, <1>15, <2>1, <3>1, QueriesOfPart
    <3> QED BY <1>11, <1>15, <3>2
  <2>3. CASE ~ (i < sent)
    <3>1. i - e \in 1..(n - e) - 1 /\ e + (i - e) = 0 + i
      BY <1>1, <1>8, <2>3
    <3>2. Queries(SubSeq(Text, e + 1, n)) > 0
      BY <1>1, <1>4, <1>15, <2>1, <3>1, QueriesOfPart
    <3> QED BY <1>13, <3>2
  <2> QED BY <2>2, <2>3
<1>19. replies' = IF new > replies THEN new ELSE replies
  BY <1>6, <1>9, <1>13
<1>20. replies' \in Nat /\ replies' <= all /\ (all > 0 => replies' > 0)
  BY <1>14, <1>16, <1>17, <1>18, <1>19
<1>21. QueriesAnswered'
  BY <1>2, <1>3, <1>7, <1>12, <1>20 DEF QueriesAnswered
<1> QED BY <1>2, <1>3, <1>7, <1>10, <1>20, <1>21 DEF Tailed

\* Other steps do not touch the tail.
LEMMA TailedNext == Inv /\ Tailed(Text) /\ [Next]_outVars => Tailed(Text)'
<1> SUFFICES ASSUME Inv, Tailed(Text), [Next]_outVars PROVE Tailed(Text)'
  OBVIOUS
<1>1. CASE \E k \in 1..MaxChunk : ReadOutput(k)
  BY <1>1, TailedReadOutput
<1>2. CASE UNCHANGED <<frame, sent, tail, replies>>
  BY <1>2 DEF Tailed, QueriesAnswered, Text
<1>3. CASE ReaderEnds \/ ChildExits \/ SessionRead \/ TimesOut \/ RawRead \/ UNCHANGED outVars
  <2>1. UNCHANGED <<frame, sent, tail, replies>>
    BY <1>3 DEF ReaderEnds, ChildExits, SessionRead, TimesOut, RawRead, outVars, readerVars
  <2> QED BY <1>2, <2>1
<1> QED BY <1>1, <1>3 DEF Next

\* The reader thread replies no more often than it was asked, and to the first query, which it
\* recognizes also when that is cut across two chunks (_read_output, _protocol_tail).
THEOREM QueriesAreAnswered == Spec => []QueriesAnswered
<1>1. Spec => []Tailed(Text)
  BY InvAlways, TailedInit, TailedNext, PTL DEF Spec
<1>2. Tailed(Text) => QueriesAnswered
  BY DEF Tailed
<1> QED BY <1>1, <1>2, PTL
=============================================================================
