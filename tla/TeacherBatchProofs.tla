------------------------- MODULE TeacherBatchProofs -------------------------
(***************************************************************************)
(* Theorems about TeacherBatch, for every input, batch and chunk size,     *)
(* token estimate, number of transport repairs, any runs, kills and cut    *)
(* lines.                                                                  *)
(*                                                                         *)
(* What Kept and Chunks compute is shown first, by induction over the      *)
(* prefixes of their argument.  The subsets still to be asked for are then *)
(* followed as segments of the slice, from the left to the right.          *)
(***************************************************************************)
EXTENDS TeacherBatch, FiniteSetTheorems, SequenceTheorems, WellFoundedInduction, TLAPS

\* A sequence without repetitions.
Distinct(q) == \A i, j \in 1 .. Len(q) : q[i] = q[j] => i = j

\* The sequence c is the part of q behind from, up to to.
Segment(c, q, from, to) ==
    /\ c \in Seq(Samples)
    /\ from \in Nat /\ to \in Nat
    /\ from <= to /\ to <= Len(q)
    /\ Len(c) = to - from
    /\ \A j \in 1 .. Len(c) : c[j] = q[from + j]

\* The sequences in c are consecutive parts of q, none of them empty, that begin behind
\* the places b and reach up to to.
Cuts(c, q, b, to) ==
    /\ b \in [1 .. Len(c) + 1 -> 0 .. Len(q)]
    /\ b[Len(c) + 1] = to
    /\ \A j, k \in 1 .. Len(c) + 1 : j < k => b[j] < b[k]
    /\ \A k \in 1 .. Len(c) + 1 : Len(c) + 1 - k <= to - b[k]
    /\ \A k \in 1 .. Len(c) : Segment(c[k], q, b[k], b[k + 1])
    /\ \A i \in b[1] + 1 .. to : \E k \in 1 .. Len(c) : b[k] < i /\ i <= b[k + 1]

\* The function f begins with first and takes every place from the one before it by next.
Iterates(f, n, A, first, next) ==
    /\ f \in [0 .. n -> A]
    /\ f[0] = first
    /\ \A k \in 1 .. n : f[k] = next[k][f[k - 1]]

-----------------------------------------------------------------------------
\* Induction over the natural numbers, for a set of them.
LEMMA SetInduction ==
    ASSUME NEW S, 0 \in S, \A n \in Nat : n \in S => n + 1 \in S
    PROVE  Nat \subseteq S
<1> DEFINE T == Nat \ S
<1> SUFFICES ASSUME T # {} PROVE FALSE
  OBVIOUS
<1>1. PICK n \in T : \A m \in T : ~(<<m, n>> \in OpToRel(<, Nat))
  <2> HIDE DEF T
  <2>1. T \subseteq Nat
    BY DEF T
  <2>2. QED
    BY <2>1, NatLessThanWellFounded, WFMin
<1>2. n \in Nat /\ n # 0
  BY <1>1
<1>3. n - 1 \in Nat /\ n - 1 < n
  BY <1>2
<1>4. <<n - 1, n>> \in OpToRel(<, Nat)
  BY <1>2, <1>3 DEF OpToRel
<1>5. n - 1 \in S
  BY <1>1, <1>3, <1>4
<1>6. n - 1 + 1 = n
  BY <1>2
<1>7. QED
  BY <1>1, <1>3, <1>5, <1>6

\* A function may be defined by its first value and the step from each value to the next.
LEMMA PrefixRecursion ==
    ASSUME NEW n \in Nat, NEW A, NEW first \in A, NEW next \in [1 .. n -> [A -> A]]
    PROVE  \E f : Iterates(f, n, A, first, next)
<1> DEFINE Upto(f, m) == Iterates(f, m, A, first, next)
           Good == {m \in Nat : m <= n => \E f : Upto(f, m)}
<1>1. 0 \in Good
  <2>1. Upto([k \in 0 .. 0 |-> first], 0)
    BY DEF Iterates
  <2>2. QED
    BY <2>1
<1>2. \A m \in Nat : m \in Good => m + 1 \in Good
  <2> SUFFICES ASSUME NEW m \in Nat, m \in Good PROVE m + 1 \in Good
    OBVIOUS
  <2> SUFFICES ASSUME m + 1 <= n PROVE \E f : Upto(f, m + 1)
    <3>1. m + 1 \in Nat
      OBVIOUS
    <3> HIDE DEF Upto
    <3>2. QED
      BY <3>1
  <2>1. PICK f : Upto(f, m)
    <3>1. m <= n
      OBVIOUS
    <3> HIDE DEF Upto
    <3>2. QED
      BY <3>1
  <2> USE DEF Iterates
  <2> DEFINE g == [k \in 0 .. m + 1 |-> IF k <= m THEN f[k] ELSE next[m + 1][f[m]]]
  <2>2. f[m] \in A /\ m + 1 \in 1 .. n
    BY <2>1
  <2>3. next[m + 1][f[m]] \in A
    BY <2>2
  <2>4. g \in [0 .. m + 1 -> A]
    BY <2>1, <2>3
  <2>5. g[0] = first
    BY <2>1
  <2>6. \A k \in 1 .. m + 1 : g[k] = next[k][g[k - 1]]
    <3> TAKE k \in 1 .. m + 1
    <3>1. CASE k <= m
      <4>1. k \in 1 .. m /\ k - 1 \in 0 .. m
        BY <3>1
      <4>2. g[k] = f[k] /\ g[k - 1] = f[k - 1]
        BY <3>1, <4>1
      <4>3. QED
        BY <2>1, <4>1, <4>2
    <3>2. CASE k = m + 1
      BY <3>2
    <3>3. QED
      BY <3>1, <3>2
  <2>7. QED
    BY <2>4, <2>5, <2>6
<1>3. n \in Good
  <2> HIDE DEF Good
  <2>1. QED
    BY <1>1, <1>2, SetInduction
<1>4. QED
  BY <1>3

-----------------------------------------------------------------------------
\* The elements of a sequence.
LEMMA Elements ==
    ASSUME NEW S, NEW q \in Seq(S)
    PROVE  /\ Len(q) \in Nat
           /\ ToSet(q) \subseteq S
           /\ \A x : x \in ToSet(q) <=> \E i \in 1 .. Len(q) : q[i] = x
<1>1. Len(q) \in Nat /\ DOMAIN q = 1 .. Len(q) /\ q \in [1 .. Len(q) -> S]
  BY LenProperties
<1>2. QED
  BY <1>1 DEF ToSet

LEMMA AppendElements ==
    ASSUME NEW S, NEW q \in Seq(S), NEW e \in S
    PROVE  /\ Append(q, e) \in Seq(S)
           /\ \A x : x \in ToSet(Append(q, e)) <=> x \in ToSet(q) \/ x = e
           /\ Distinct(q) /\ e \notin ToSet(q) => Distinct(Append(q, e))
<1> DEFINE r == Append(q, e)
<1>1. /\ r \in Seq(S) /\ Len(r) = Len(q) + 1 /\ r[Len(q) + 1] = e /\ Len(q) \in Nat
      /\ \A i \in 1 .. Len(q) : r[i] = q[i]
  BY AppendProperties, LenProperties
<1> HIDE DEF r
<1>2. /\ \A x : x \in ToSet(q) <=> \E i \in 1 .. Len(q) : q[i] = x
      /\ \A x : x \in ToSet(r) <=> \E i \in 1 .. Len(r) : r[i] = x
  BY <1>1, Elements
<1>3. \A x : x \in ToSet(r) <=> x \in ToSet(q) \/ x = e
  <2>1. 1 .. Len(r) = 1 .. Len(q) \cup {Len(q) + 1}
    BY <1>1
  <2>2. QED
    BY <1>1, <1>2, <2>1
<1>4. ASSUME Distinct(q), e \notin ToSet(q) PROVE Distinct(r)
  <2> SUFFICES ASSUME NEW i \in 1 .. Len(r), NEW j \in 1 .. Len(r), r[i] = r[j]
               PROVE  i = j
    BY DEF Distinct
  <2>1. CASE i <= Len(q) /\ j <= Len(q)
    BY <1>1, <1>4, <2>1 DEF Distinct
  <2>2. CASE i = Len(q) + 1 /\ j <= Len(q)
    BY <1>1, <1>2, <1>4, <2>2
  <2>3. CASE j = Len(q) + 1 /\ i <= Len(q)
    BY <1>1, <1>2, <1>4, <2>3
  <2>4. QED
    BY <1>1, <2>1, <2>2, <2>3
<1>5. QED
  BY <1>1, <1>3, <1>4 DEF r

\* Kept keeps the elements of q that are in W, and adds no repetition.
LEMMA KeptFacts ==
    ASSUME NEW S, NEW q \in Seq(S), NEW W
    PROVE  /\ Kept(q, W) \in Seq(S)
           /\ ToSet(Kept(q, W)) = ToSet(q) \cap W
           /\ Distinct(q) => Distinct(Kept(q, W))
<1> DEFINE next == [k \in 1 .. Len(q) |->
                       [a \in Seq(S) |-> IF q[k] \in W THEN Append(a, q[k]) ELSE a]]
           Body(g) == [k \in 0 .. Len(q) |->
                          IF k = 0 THEN <<>>
                          ELSE IF q[k] \in W THEN Append(g[k - 1], q[k]) ELSE g[k - 1]]
           after == CHOOSE g : g = Body(g)
<1>1. Len(q) \in Nat /\ \A k \in 1 .. Len(q) : q[k] \in S
  BY LenProperties
<1>2. <<>> \in Seq(S)
  BY EmptySeq
<1>3. next \in [1 .. Len(q) -> [Seq(S) -> Seq(S)]]
  BY <1>1, AppendProperties
<1>4. PICK f : /\ f \in [0 .. Len(q) -> Seq(S)]
               /\ f[0] = <<>>
               /\ \A k \in 1 .. Len(q) : f[k] = next[k][f[k - 1]]
  <2> DEFINE A == Seq(S)
  <2>1. <<>> \in A /\ next \in [1 .. Len(q) -> [A -> A]]
    BY <1>2, <1>3
  <2> DEFINE n == Len(q)
             first == <<>>
  <2>2. n \in Nat /\ first \in A /\ next \in [1 .. n -> [A -> A]]
    BY <1>1, <2>1
  <2> HIDE DEF next, A, n, first
  <2>3. \E g : Iterates(g, n, A, first, next)
    BY <2>2, PrefixRecursion
  <2>4. QED
    BY <2>3 DEF A, n, first, Iterates
<1>5. f = Body(f)
  <2>1. \A k \in 1 .. Len(q) : f[k - 1] \in Seq(S)
    BY <1>1, <1>4
  <2>2. \A k \in 1 .. Len(q) :
            f[k] = IF q[k] \in W THEN Append(f[k - 1], q[k]) ELSE f[k - 1]
    BY <1>4, <2>1
  <2>3. \A k \in 0 .. Len(q) : k = 0 \/ k \in 1 .. Len(q)
    BY <1>1
  <2>4. \A k \in 0 .. Len(q) : f[k] = Body(f)[k]
    BY <1>4, <2>2, <2>3
  <2>5. QED
    BY <1>4, <2>4
<1>6. after = Body(after)
  <2> HIDE DEF Body
  <2>1. QED
    BY <1>5
<1>7. Kept(q, W) = after[Len(q)]
  BY DEF Kept
<1> HIDE DEF after
<1>8. /\ after[0] = <<>>
      /\ \A k \in 1 .. Len(q) :
            after[k] = IF q[k] \in W THEN Append(after[k - 1], q[k]) ELSE after[k - 1]
  <2>1. \A k \in 0 .. Len(q) :
            after[k] = IF k = 0 THEN <<>>
                       ELSE IF q[k] \in W THEN Append(after[k - 1], q[k]) ELSE after[k - 1]
    BY <1>6, Zenon
  <2>2. 0 \in 0 .. Len(q) /\ \A k \in 1 .. Len(q) : k \in 0 .. Len(q) /\ k # 0
    BY <1>1
  <2>3. QED
    BY <2>1, <2>2, Zenon
<1> DEFINE Right(k) ==
               /\ after[k] \in Seq(S)
               /\ \A x : x \in ToSet(after[k]) <=> \E i \in 1 .. k : q[i] = x /\ x \in W
               /\ Distinct(q) => Distinct(after[k])
           Good == {k \in Nat : k <= Len(q) => Right(k)}
<1>9. 0 \in Good
  <2>1. after[0] \in Seq(S) /\ Len(after[0]) = 0
    BY <1>2, <1>8, EmptySeq
  <2>2. \A x : x \notin ToSet(after[0])
    BY <2>1, Elements
  <2>3. Distinct(after[0])
    BY <2>1 DEF Distinct
  <2>4. Right(0)
    BY <2>1, <2>2, <2>3
  <2> HIDE DEF Right
  <2>5. QED
    BY <2>4
<1>10. \A k \in Nat : k \in Good => k + 1 \in Good
  <2> SUFFICES ASSUME NEW k \in Nat, k \in Good PROVE k + 1 \in Good
    OBVIOUS
  <2> SUFFICES ASSUME k + 1 <= Len(q) PROVE Right(k + 1)
    <3> HIDE DEF Right
    <3>1. k + 1 \in Nat
      OBVIOUS
    <3>2. QED
      BY <3>1
  <2>1. Right(k)
    <3>1. k <= Len(q)
      BY <1>1
    <3> HIDE DEF Right
    <3>2. QED
      BY <3>1
  <2>2. k + 1 \in 1 .. Len(q)
    BY <1>1
  <2>3. 1 .. k + 1 = 1 .. k \cup {k + 1}
    OBVIOUS
  <2>4. q[k + 1] \in S
    BY <1>1, <2>2
  <2>5. CASE q[k + 1] \in W
    <3>1. after[k + 1] = Append(after[k], q[k + 1])
      <4>1. PICK j : j = k + 1
        OBVIOUS
      <4>2. after[j] = Append(after[j - 1], q[j])
        BY <1>8, <2>2, <2>5, <4>1, Zenon
      <4>3. j - 1 = k
        BY <4>1
      <4>4. QED
        BY <4>1, <4>2, <4>3, Zenon
    <3>2. \A x : x \in ToSet(after[k + 1]) <=> \E i \in 1 .. k + 1 : q[i] = x /\ x \in W
      BY <2>1, <2>3, <2>4, <2>5, <3>1, AppendElements
    <3>3. ASSUME Distinct(q) PROVE q[k + 1] \notin ToSet(after[k])
      <4>1. \A i \in 1 .. k : q[i] # q[k + 1]
        BY <1>1, <2>2, <3>3 DEF Distinct
      <4>2. QED
        BY <2>1, <4>1
    <3>4. Distinct(q) => Distinct(after[k + 1])
      BY <2>1, <2>4, <3>1, <3>3, AppendElements
    <3>5. after[k + 1] \in Seq(S)
      BY <2>1, <2>4, <3>1, AppendElements
    <3>6. QED
      BY <3>2, <3>4, <3>5
  <2>6. CASE q[k + 1] \notin W
    <3>1. after[k + 1] = after[k]
      BY <1>8, <2>2, <2>6
    <3>2. QED
      BY <2>1, <2>3, <2>6, <3>1
  <2>7. QED
    BY <2>5, <2>6
<1>11. Right(Len(q))
  <2> HIDE DEF Right
  <2>1. Len(q) \in Good
    <3> HIDE DEF Good
    <3>1. QED
      BY <1>1, <1>9, <1>10, SetInduction
  <2>2. QED
    BY <1>1, <2>1
<1>12. \A x : x \in ToSet(q) <=> \E i \in 1 .. Len(q) : q[i] = x
  BY Elements
<1>13. QED
  BY <1>7, <1>11, <1>12

-----------------------------------------------------------------------------
\* What follows about the cut places.
LEMMA CutsFacts ==
    ASSUME NEW S, NEW q \in Seq(S), NEW T, NEW c \in Seq(T), NEW b, NEW to, Cuts(c, q, b, to)
    PROVE  /\ Len(c) \in Nat /\ Len(q) \in Nat
           /\ to \in 0 .. Len(q)
           /\ b[1] \in 0 .. Len(q)
           /\ b[1] + Len(c) <= to
           /\ c = <<>> => b[1] = to
<1>1. Len(c) \in Nat /\ Len(q) \in Nat
  BY LenProperties
<1>2. 1 \in 1 .. Len(c) + 1 /\ Len(c) + 1 \in 1 .. Len(c) + 1
  BY <1>1
<1>3. b[1] \in 0 .. Len(q) /\ b[Len(c) + 1] \in 0 .. Len(q) /\ b[Len(c) + 1] = to
  BY <1>2 DEF Cuts
<1>4. Len(c) + 1 - 1 <= to - b[1]
  BY <1>2 DEF Cuts
<1>5. c = <<>> => Len(c) = 0
  BY EmptySeq
<1>6. QED
  BY <1>1, <1>3, <1>4, <1>5

\* No part at all.
LEMMA CutsEmpty ==
    ASSUME NEW S, NEW q \in Seq(S), NEW c, c = <<>>, NEW to \in 0 .. Len(q)
    PROVE  \E b : Cuts(c, q, b, to) /\ b[1] = to
<1> DEFINE b == [k \in 1 .. 1 |-> to]
<1>1. Len(c) = 0 /\ Len(q) \in Nat
  BY LenProperties, EmptySeq
<1>2. Cuts(c, q, b, to) /\ b[1] = to
  BY <1>1 DEF Cuts
<1>3. QED
  BY <1>2

\* One more part at the end.
LEMMA CutsAppend ==
    ASSUME NEW S, NEW q \in Seq(S), NEW c \in Seq(Seq(Samples)), NEW b, NEW to,
           Cuts(c, q, b, to), NEW d, NEW up, Segment(d, q, to, up), to < up
    PROVE  \E e : Cuts(Append(c, d), q, e, up) /\ e[1] = b[1]
<1> DEFINE L == Len(c)
           r == Append(c, d)
           e == [k \in 1 .. L + 2 |-> IF k <= L + 1 THEN b[k] ELSE up]
<1>1. L \in Nat /\ Len(q) \in Nat
  BY LenProperties
<1>2. d \in Seq(Samples)
  BY DEF Segment
<1>3. Len(r) = L + 1 /\ r[L + 1] = d /\ \A k \in 1 .. L : r[k] = c[k]
  BY <1>2, AppendProperties
<1> HIDE DEF L, r
<1>4. to \in Nat /\ up \in Nat /\ up <= Len(q)
  BY DEF Segment
<1>5. /\ b \in [1 .. L + 1 -> 0 .. Len(q)]
      /\ b[L + 1] = to
      /\ \A j, k \in 1 .. L + 1 : j < k => b[j] < b[k]
      /\ \A k \in 1 .. L + 1 : L + 1 - k <= to - b[k]
      /\ \A k \in 1 .. L : Segment(c[k], q, b[k], b[k + 1])
      /\ \A i \in b[1] + 1 .. to : \E k \in 1 .. L : b[k] < i /\ i <= b[k + 1]
  BY DEF Cuts, L
<1>6. \A k \in 1 .. L + 1 : b[k] \in 0 .. Len(q) /\ b[k] <= to
  BY <1>1, <1>4, <1>5
<1>7. /\ e \in [1 .. L + 2 -> 0 .. Len(q)]
      /\ \A k \in 1 .. L + 1 : e[k] = b[k]
      /\ e[L + 2] = up
  BY <1>1, <1>4, <1>6
<1> HIDE DEF e
<1>8. 1 .. L + 2 = 1 .. L + 1 \cup {L + 2} /\ 1 .. L + 1 = 1 .. L \cup {L + 1}
  BY <1>1
<1>9. \A j, k \in 1 .. L + 2 : j < k => e[j] < e[k]
  <2> SUFFICES ASSUME NEW j \in 1 .. L + 2, NEW k \in 1 .. L + 2, j < k PROVE e[j] < e[k]
    OBVIOUS
  <2>1. j \in 1 .. L + 1
    BY <1>1
  <2>2. CASE k \in 1 .. L + 1
    BY <1>5, <1>7, <2>1, <2>2
  <2>3. CASE k = L + 2
    <3>1. e[j] = b[j] /\ e[k] = up
      BY <1>7, <2>1, <2>3
    <3>2. b[j] \in 0 .. Len(q) /\ b[j] <= to
      BY <1>6, <2>1
    <3>3. QED
      BY <1>1, <1>4, <3>1, <3>2
  <2>4. QED
    BY <1>8, <2>2, <2>3
<1>10. \A k \in 1 .. L + 2 : L + 2 - k <= up - e[k]
  <2> SUFFICES ASSUME NEW k \in 1 .. L + 2 PROVE L + 2 - k <= up - e[k]
    OBVIOUS
  <2>1. CASE k \in 1 .. L + 1
    <3>1. L + 1 - k <= to - e[k] /\ e[k] \in Nat
      BY <1>1, <1>5, <1>6, <1>7, <2>1
    <3>2. QED
      BY <1>1, <1>4, <3>1
  <2>2. CASE k = L + 2
    BY <1>1, <1>4, <1>7, <2>2
  <2>3. QED
    BY <1>8, <2>1, <2>2
<1>11. \A k \in 1 .. L + 1 : Segment(r[k], q, e[k], e[k + 1])
  <2> SUFFICES ASSUME NEW k \in 1 .. L + 1 PROVE Segment(r[k], q, e[k], e[k + 1])
    OBVIOUS
  <2>1. CASE k = L + 1
    <3>1. e[k] = to /\ e[k + 1] = up /\ r[k] = d
      BY <1>1, <1>3, <1>5, <1>7, <2>1
    <3>2. QED
      BY <3>1
  <2>2. CASE k \in 1 .. L
    <3>1. k + 1 \in 1 .. L + 1
      BY <1>1, <2>2
    <3>2. e[k] = b[k] /\ e[k + 1] = b[k + 1] /\ r[k] = c[k]
      BY <1>3, <1>7, <2>2, <3>1
    <3>3. QED
      BY <1>5, <2>2, <3>2
  <2>3. QED
    BY <1>8, <2>1, <2>2
<1>12. \A i \in e[1] + 1 .. up : \E k \in 1 .. L + 1 : e[k] < i /\ i <= e[k + 1]
  <2> SUFFICES ASSUME NEW i \in e[1] + 1 .. up
               PROVE  \E k \in 1 .. L + 1 : e[k] < i /\ i <= e[k + 1]
    OBVIOUS
  <2>1. e[1] = b[1] /\ b[1] \in Nat
    BY <1>1, <1>6, <1>7
  <2>2. CASE i <= to
    <3>1. i \in b[1] + 1 .. to
      BY <1>4, <2>1, <2>2
    <3>2. PICK k \in 1 .. L : b[k] < i /\ i <= b[k + 1]
      BY <1>5, <3>1
    <3>3. k \in 1 .. L + 1 /\ k + 1 \in 1 .. L + 1
      BY <1>1
    <3>4. QED
      BY <1>7, <3>2, <3>3
  <2>3. CASE i > to
    <3>1. L + 1 \in 1 .. L + 1 /\ L + 1 + 1 = L + 2
      BY <1>1
    <3>2. e[L + 1] < i /\ i <= e[L + 1 + 1]
      BY <1>4, <1>5, <1>7, <2>1, <2>3, <3>1
    <3>3. QED
      BY <3>1, <3>2
  <2>4. QED
    BY <1>4, <2>1, <2>2, <2>3
<1>13. Cuts(r, q, e, up)
  <2>1. PICK m : m = L + 2
    OBVIOUS
  <2>2. Len(r) = L + 1 /\ Len(r) + 1 = m
    BY <1>1, <1>3, <2>1
  <2>3. /\ e \in [1 .. m -> 0 .. Len(q)]
        /\ e[m] = up
        /\ \A j, k \in 1 .. m : j < k => e[j] < e[k]
        /\ \A k \in 1 .. m : m - k <= up - e[k]
    <3>1. e \in [1 .. m -> 0 .. Len(q)] /\ e[m] = up
      BY <1>7, <2>1
    <3>2. \A j, k \in 1 .. m : j < k => e[j] < e[k]
      BY <1>9, <2>1
    <3>3. \A k \in 1 .. m : m - k <= up - e[k]
      BY <1>1, <1>10, <2>1
    <3>4. QED
      BY <3>1, <3>2, <3>3
  <2>4. QED
    BY <1>10, <1>11, <1>12, <2>2, <2>3 DEF Cuts
<1>14. e[1] = b[1]
  BY <1>1, <1>7
<1>15. QED
  BY <1>13, <1>14 DEF r

\* One more part in front.
LEMMA CutsCons ==
    ASSUME NEW S, NEW q \in Seq(S), NEW c \in Seq(Seq(Samples)), NEW b, NEW to,
           Cuts(c, q, b, to), NEW d, NEW from, Segment(d, q, from, b[1]), from < b[1]
    PROVE  \E e : Cuts(<<d>> \o c, q, e, to) /\ e[1] = from
<1> DEFINE L == Len(c)
           r == <<d>> \o c
           e == [k \in 1 .. L + 2 |-> IF k = 1 THEN from ELSE b[k - 1]]
<1>1. L \in Nat /\ Len(q) \in Nat
  BY LenProperties
<1>2. d \in Seq(Samples)
  BY DEF Segment
<1>3. Len(r) = L + 1 /\ r[1] = d /\ \A k \in 2 .. L + 1 : r[k] = c[k - 1]
  <2>1. <<d>> \in Seq(Seq(Samples)) /\ Len(<<d>>) = 1 /\ <<d>>[1] = d
    BY <1>2
  <2>2. QED
    BY <1>1, <2>1, ConcatProperties
<1> HIDE DEF L, r
<1>4. from \in Nat
  BY DEF Segment
<1>5. /\ b \in [1 .. L + 1 -> 0 .. Len(q)]
      /\ b[L + 1] = to
      /\ \A j, k \in 1 .. L + 1 : j < k => b[j] < b[k]
      /\ \A k \in 1 .. L + 1 : L + 1 - k <= to - b[k]
      /\ \A k \in 1 .. L : Segment(c[k], q, b[k], b[k + 1])
      /\ \A i \in b[1] + 1 .. to : \E k \in 1 .. L : b[k] < i /\ i <= b[k + 1]
  BY DEF Cuts, L
<1>6. \A k \in 1 .. L + 1 : b[k] \in 0 .. Len(q) /\ b[1] <= b[k]
  <2>1. 1 \in 1 .. L + 1
    BY <1>1
  <2>2. \A k \in 1 .. L + 1 : b[k] \in 0 .. Len(q)
    BY <1>5
  <2>3. \A k \in 1 .. L + 1 : k = 1 \/ b[1] < b[k]
    BY <1>1, <1>5, <2>1
  <2>4. \A k \in 1 .. L + 1 : b[1] <= b[k]
    <3> TAKE k \in 1 .. L + 1
    <3>1. b[1] \in 0 .. Len(q) /\ b[k] \in 0 .. Len(q)
      BY <2>1, <2>2
    <3>2. k = 1 \/ b[1] < b[k]
      BY <2>3
    <3>3. QED
      BY <1>1, <3>1, <3>2
  <2>5. QED
    BY <2>2, <2>4
<1>7. /\ e \in [1 .. L + 2 -> 0 .. Len(q)]
      /\ \A k \in 1 .. L + 1 : e[k + 1] = b[k]
      /\ e[1] = from
  <2>1. \A k \in 1 .. L + 2 : k = 1 \/ k - 1 \in 1 .. L + 1
    BY <1>1
  <2>2. 1 \in 1 .. L + 1
    BY <1>1
  <2>3. from \in 0 .. Len(q)
    BY <1>1, <1>4, <1>6, <2>2
  <2>4. e \in [1 .. L + 2 -> 0 .. Len(q)]
    BY <1>6, <2>1, <2>3
  <2>5. ASSUME NEW k \in 1 .. L + 1 PROVE e[k + 1] = b[k]
    BY <1>1
  <2>6. QED
    BY <1>1, <2>4, <2>5
<1> HIDE DEF e
<1>8. \A k \in 1 .. L + 2 : k = 1 \/ \E j \in 1 .. L + 1 : k = j + 1
  <2> TAKE k \in 1 .. L + 2
  <2>1. k = 1 \/ (k - 1 \in 1 .. L + 1 /\ k = k - 1 + 1)
    BY <1>1
  <2>2. QED
    BY <2>1
<1>9. \A k \in 1 .. L + 1 : from < e[k + 1] /\ e[k + 1] \in 0 .. Len(q)
  <2> TAKE k \in 1 .. L + 1
  <2>1. 1 \in 1 .. L + 1
    BY <1>1
  <2>2. /\ e[k + 1] = b[k] /\ b[1] <= b[k]
        /\ b[k] \in 0 .. Len(q) /\ b[1] \in 0 .. Len(q)
    BY <1>6, <1>7, <2>1
  <2>3. QED
    BY <1>1, <1>4, <2>2
<1>10. \A j, k \in 1 .. L + 2 : j < k => e[j] < e[k]
  <2> SUFFICES ASSUME NEW j \in 1 .. L + 2, NEW k \in 1 .. L + 2, j < k PROVE e[j] < e[k]
    OBVIOUS
  <2>1. PICK k1 \in 1 .. L + 1 : k = k1 + 1
    BY <1>1, <1>8
  <2>2. CASE j = 1
    BY <1>7, <1>9, <2>1, <2>2
  <2>3. CASE j # 1
    <3>1. PICK j1 \in 1 .. L + 1 : j = j1 + 1
      BY <1>8, <2>3
    <3>2. e[j] = b[j1] /\ e[k] = b[k1]
      BY <1>7, <2>1, <3>1
    <3>3. j1 < k1
      BY <1>1, <2>1, <3>1
    <3>4. QED
      BY <1>5, <3>2, <3>3
  <2>4. QED
    BY <2>2, <2>3
<1>11. \A k \in 1 .. L + 2 : L + 2 - k <= to - e[k]
  <2>1. to \in Nat
    BY <1>1, <1>5, <1>6
  <2>2. ASSUME NEW k \in 1 .. L + 1 PROVE L + 2 - (k + 1) <= to - e[k + 1]
    <3>1. L + 1 - k <= to - b[k] /\ e[k + 1] = b[k] /\ b[k] \in 0 .. Len(q)
      BY <1>5, <1>6, <1>7
    <3>2. QED
      BY <1>1, <2>1, <3>1
  <2>3. L + 2 - 1 <= to - e[1]
    <3>1. L + 1 - 1 <= to - b[1] /\ b[1] \in 0 .. Len(q)
      BY <1>1, <1>5, <1>6
    <3>2. QED
      BY <1>1, <1>4, <1>7, <2>1, <3>1
  <2>4. QED
    BY <1>8, <2>2, <2>3
<1>12. \A k \in 1 .. L + 1 : Segment(r[k], q, e[k], e[k + 1])
  <2> SUFFICES ASSUME NEW k \in 1 .. L + 1 PROVE Segment(r[k], q, e[k], e[k + 1])
    OBVIOUS
  <2>1. CASE k = 1
    <3>1. e[k] = from /\ e[k + 1] = b[1] /\ r[k] = d
      BY <1>1, <1>3, <1>7, <2>1
    <3>2. QED
      BY <3>1
  <2>2. CASE k # 1
    <3>1. PICK j \in 1 .. L : k = j + 1
      <4>1. k - 1 \in 1 .. L /\ k = k - 1 + 1
        BY <1>1, <2>2
      <4>2. QED
        BY <4>1
    <3>2. e[k] = b[j] /\ e[k + 1] = b[j + 1] /\ r[k] = c[j]
      <4>1. j \in 1 .. L + 1 /\ j + 1 \in 1 .. L + 1 /\ k \in 2 .. L + 1 /\ k - 1 = j
        BY <1>1, <3>1
      <4>2. QED
        BY <1>3, <1>7, <3>1, <4>1
    <3>3. QED
      BY <1>5, <3>2
  <2>3. QED
    BY <2>1, <2>2
<1>13. \A i \in e[1] + 1 .. to : \E k \in 1 .. L + 1 : e[k] < i /\ i <= e[k + 1]
  <2> SUFFICES ASSUME NEW i \in e[1] + 1 .. to
               PROVE  \E k \in 1 .. L + 1 : e[k] < i /\ i <= e[k + 1]
    OBVIOUS
  <2>1. e[1] = from /\ b[1] \in Nat /\ to \in Nat /\ e[2] = b[1] /\ 1 \in 1 .. L + 1
    BY <1>1, <1>5, <1>6, <1>7
  <2>2. CASE i <= b[1]
    <3>1. e[1] < i /\ i <= e[1 + 1]
      BY <1>4, <2>1, <2>2
    <3>2. QED
      BY <2>1, <3>1
  <2>3. CASE i > b[1]
    <3>1. i \in b[1] + 1 .. to
      BY <1>4, <2>1, <2>3
    <3>2. PICK k \in 1 .. L : b[k] < i /\ i <= b[k + 1]
      BY <1>5, <3>1
    <3>3. k \in 1 .. L + 1 /\ k + 1 \in 1 .. L + 1
      BY <1>1
    <3>4. QED
      BY <1>7, <3>2, <3>3
  <2>4. QED
    BY <1>4, <2>1, <2>2, <2>3
<1>14. e[L + 2] = to
  <2>1. L + 1 \in 1 .. L + 1 /\ L + 1 + 1 = L + 2
    BY <1>1
  <2>2. QED
    BY <1>5, <1>7, <2>1
<1>15. Cuts(r, q, e, to)
  <2>1. PICK m : m = L + 2
    OBVIOUS
  <2>2. Len(r) = L + 1 /\ Len(r) + 1 = m
    BY <1>1, <1>3, <2>1
  <2>3. /\ e \in [1 .. m -> 0 .. Len(q)]
        /\ e[m] = to
        /\ \A j, k \in 1 .. m : j < k => e[j] < e[k]
        /\ \A k \in 1 .. m : m - k <= to - e[k]
    <3>1. e \in [1 .. m -> 0 .. Len(q)] /\ e[m] = to
      BY <1>14, <1>7, <2>1
    <3>2. \A j, k \in 1 .. m : j < k => e[j] < e[k]
      BY <1>10, <2>1
    <3>3. \A k \in 1 .. m : m - k <= to - e[k]
      BY <1>1, <1>11, <2>1
    <3>4. QED
      BY <3>1, <3>2, <3>3
  <2>4. QED
    BY <1>12, <1>13, <2>2, <2>3 DEF Cuts
<1>16. QED
  BY <1>7, <1>15 DEF r

\* The first part taken away.
LEMMA CutsTail ==
    ASSUME NEW S, NEW q \in Seq(S), NEW c \in Seq(Seq(Samples)), NEW b, NEW to,
           Cuts(c, q, b, to), c # <<>>
    PROVE  \E e : /\ Cuts(Tail(c), q, e, to)
                  /\ Segment(Head(c), q, b[1], e[1])
                  /\ b[1] < e[1]
<1> DEFINE L == Len(c) - 1
           r == Tail(c)
           e == [k \in 1 .. L + 1 |-> b[k + 1]]
<1>1. L \in Nat /\ Len(q) \in Nat /\ Len(c) = L + 1
  BY LenProperties, EmptySeq
<1>2. Len(r) = L /\ Head(c) = c[1] /\ \A k \in 1 .. L : r[k] = c[k + 1]
  BY HeadTailProperties
<1> HIDE DEF L, r
<1>3. /\ b \in [1 .. L + 2 -> 0 .. Len(q)]
      /\ b[L + 2] = to
      /\ \A j, k \in 1 .. L + 2 : j < k => b[j] < b[k]
      /\ \A k \in 1 .. L + 2 : L + 2 - k <= to - b[k]
      /\ \A k \in 1 .. L + 1 : Segment(c[k], q, b[k], b[k + 1])
      /\ \A i \in b[1] + 1 .. to : \E k \in 1 .. L + 1 : b[k] < i /\ i <= b[k + 1]
  <2>1. Len(c) + 1 = L + 2
    BY <1>1
  <2>2. QED
    BY <1>1, <2>1 DEF Cuts
<1>4. \A k \in 1 .. L + 1 : k + 1 \in 1 .. L + 2
  BY <1>1
<1>5. e \in [1 .. L + 1 -> 0 .. Len(q)] /\ \A k \in 1 .. L + 1 : e[k] = b[k + 1]
  BY <1>3, <1>4
<1> HIDE DEF e
<1>6. \A j, k \in 1 .. L + 1 : j < k => e[j] < e[k]
  BY <1>1, <1>3, <1>4, <1>5
<1>7. \A k \in 1 .. L + 1 : L + 1 - k <= to - e[k]
  <2> TAKE k \in 1 .. L + 1
  <2>1. L + 2 - (k + 1) <= to - b[k + 1] /\ e[k] = b[k + 1]
    BY <1>3, <1>4, <1>5
  <2>2. QED
    BY <1>1, <2>1
<1>8. \A k \in 1 .. L : Segment(r[k], q, e[k], e[k + 1])
  <2> TAKE k \in 1 .. L
  <2>1. k \in 1 .. L + 1 /\ k + 1 \in 1 .. L + 1
    BY <1>1
  <2>2. QED
    BY <1>2, <1>3, <1>5, <2>1
<1>9. b[1] \in Nat /\ e[1] = b[2] /\ b[1] < b[2] /\ b[2] \in Nat /\ to \in Nat
  <2>1. 1 \in 1 .. L + 1 /\ 1 \in 1 .. L + 2 /\ 2 \in 1 .. L + 2 /\ L + 2 \in 1 .. L + 2
    BY <1>1
  <2>2. QED
    BY <1>1, <1>3, <1>5, <2>1
<1>10. \A i \in e[1] + 1 .. to : \E k \in 1 .. L : e[k] < i /\ i <= e[k + 1]
  <2> SUFFICES ASSUME NEW i \in e[1] + 1 .. to
               PROVE  \E k \in 1 .. L : e[k] < i /\ i <= e[k + 1]
    OBVIOUS
  <2>1. i \in b[1] + 1 .. to
    BY <1>9
  <2>2. PICK k \in 1 .. L + 1 : b[k] < i /\ i <= b[k + 1]
    BY <1>3, <2>1
  <2>3. k # 1
    BY <1>9, <2>2
  <2>4. k - 1 \in 1 .. L /\ k - 1 \in 1 .. L + 1 /\ k \in 1 .. L + 1 /\ k - 1 + 1 = k
    BY <1>1, <2>3
  <2>5. e[k - 1] = b[k] /\ e[k] = b[k + 1]
    BY <1>5, <2>4
  <2>6. QED
    BY <2>2, <2>4, <2>5
<1>11. e[L + 1] = to
  <2>1. L + 1 \in 1 .. L + 1 /\ L + 1 + 1 = L + 2
    BY <1>1
  <2>2. QED
    BY <1>3, <1>5, <2>1
<1>12. Cuts(r, q, e, to)
  BY <1>2, <1>5, <1>6, <1>7, <1>8, <1>10, <1>11 DEF Cuts
<1>13. Segment(Head(c), q, b[1], e[1]) /\ b[1] < e[1]
  <2>1. 1 \in 1 .. L + 1 /\ 1 + 1 = 2
    BY <1>1
  <2>2. Segment(c[1], q, b[1], b[2])
    BY <1>3, <2>1
  <2>3. QED
    BY <1>2, <1>9, <2>2
<1>14. QED
  BY <1>12, <1>13 DEF r

-----------------------------------------------------------------------------
\* A segment of nothing, and a segment and the sample behind it.
LEMMA SegmentEmpty ==
    ASSUME NEW S, NEW q \in Seq(S), NEW k \in 0 .. Len(q), NEW c, c = <<>>
    PROVE  Segment(c, q, k, k)
<1>1. Len(q) \in Nat
  BY LenProperties
<1>2. c \in Seq(Samples) /\ Len(c) = 0
  BY EmptySeq
<1>3. QED
  BY <1>1, <1>2 DEF Segment

LEMMA SegmentAppend ==
    ASSUME NEW q \in Seq(Samples), NEW c, NEW from, NEW k, Segment(c, q, from, k),
           k + 1 <= Len(q)
    PROVE  Segment(Append(c, q[k + 1]), q, from, k + 1)
<1> DEFINE s == q[k + 1]
           r == Append(c, s)
<1>1. /\ c \in Seq(Samples)
      /\ from \in Nat /\ k \in Nat /\ from <= k
      /\ Len(c) = k - from
      /\ \A j \in 1 .. Len(c) : c[j] = q[from + j]
  BY DEF Segment
<1>2. Len(q) \in Nat /\ s \in Samples
  <2>1. k + 1 \in 1 .. Len(q) /\ Len(q) \in Nat
    BY <1>1, LenProperties
  <2>2. QED
    BY <2>1, ElementOfSeq
<1> HIDE DEF s
<1>3. /\ r \in Seq(Samples) /\ Len(r) = Len(c) + 1 /\ r[Len(c) + 1] = s
      /\ \A j \in 1 .. Len(c) : r[j] = c[j]
  BY <1>1, <1>2, AppendProperties
<1> HIDE DEF r
<1>4. Len(r) = k + 1 - from /\ Len(c) + 1 = k + 1 - from
  BY <1>1, <1>3
<1>5. \A j \in 1 .. Len(r) : r[j] = q[from + j]
  <2> SUFFICES ASSUME NEW j \in 1 .. Len(r) PROVE r[j] = q[from + j]
    OBVIOUS
  <2>1. CASE j \in 1 .. Len(c)
    BY <1>1, <1>3, <2>1
  <2>2. CASE j = Len(c) + 1
    <3>1. from + j = k + 1
      BY <1>1, <2>2
    <3>2. QED
      BY <1>3, <2>2, <3>1 DEF s
  <2>3. j \in 1 .. Len(c) \/ j = Len(c) + 1
    BY <1>1, <1>3
  <2>4. QED
    BY <2>1, <2>2, <2>3
<1>6. Segment(r, q, from, k + 1)
  BY <1>1, <1>2, <1>3, <1>4, <1>5 DEF Segment
<1>7. QED
  BY <1>6 DEF r, s

-----------------------------------------------------------------------------
\* The chunks done cut q up to from, and the current chunk is the rest of q up to k.
Halfway(done, current, q, from, k) ==
    /\ done \in Seq(Seq(Samples))
    /\ Segment(current, q, from, k)
    /\ \E b : Cuts(done, q, b, from) /\ b[1] = 0

\* The current chunk is closed.
LEMMA CloseChunk ==
    ASSUME NEW q \in Seq(Samples), NEW done, NEW current, NEW from, NEW k,
           Halfway(done, current, q, from, k), from < k, NEW none, none = <<>>
    PROVE  Halfway(Append(done, current), none, q, k, k)
<1>1. PICK b : Cuts(done, q, b, from) /\ b[1] = 0
  BY DEF Halfway
<1>2. done \in Seq(Seq(Samples)) /\ Segment(current, q, from, k)
  BY DEF Halfway
<1>3. \E e : Cuts(Append(done, current), q, e, k) /\ e[1] = 0
  BY <1>1, <1>2, CutsAppend
<1>4. current \in Seq(Samples) /\ k \in 0 .. Len(q)
  <2>1. k \in Nat /\ k <= Len(q) /\ current \in Seq(Samples) /\ Len(q) \in Nat
    BY <1>2, LenProperties DEF Segment
  <2>2. QED
    BY <2>1
<1>5. Append(done, current) \in Seq(Seq(Samples))
  BY <1>2, <1>4, AppendProperties
<1>6. Segment(none, q, k, k)
  BY <1>4, SegmentEmpty
<1>7. QED
  BY <1>3, <1>5, <1>6 DEF Halfway

\* chunk_teacher_samples takes one more sample.
LEMMA ChunkedHalfway ==
    ASSUME NEW q \in Seq(Samples), NEW acc, NEW from, NEW k,
           Halfway(acc.done, acc.current, q, from, k), k + 1 <= Len(q)
    PROVE  \E up : Halfway(Chunked(acc, q[k + 1]).done, Chunked(acc, q[k + 1]).current,
                           q, up, k + 1)
<1> DEFINE s == q[k + 1]
           candidate == Append(acc.current, s)
           fits == \/ acc.current = <<>>
                   \/ Len(candidate) <= ChunkLimit /\ Tokens(candidate) <= MaxTokens
           done == IF fits THEN acc.done ELSE Append(acc.done, acc.current)
           current == IF fits THEN candidate ELSE <<s>>
           full == Len(current) >= ChunkLimit
<1>1. Chunked(acc, s) = IF full THEN [done |-> Append(done, current), current |-> <<>>]
                                ELSE [done |-> done, current |-> current]
  BY DEF Chunked
<1>2. Segment(acc.current, q, from, k)
  BY DEF Halfway
<1>3. from \in Nat /\ k \in Nat /\ from <= k /\ k \in 0 .. Len(q) /\ k < k + 1
  BY <1>2 DEF Segment
<1>4. PICK none : none = <<>>
  OBVIOUS
<1>5. s \in Samples
  <2>1. k + 1 \in 1 .. Len(q)
    BY <1>3, LenProperties
  <2>2. QED
    BY <2>1, ElementOfSeq
<1>6. \E up : Halfway(done, current, q, up, k + 1) /\ up < k + 1
  <2>1. CASE fits
    <3>1. Segment(candidate, q, from, k + 1)
      BY <1>2, SegmentAppend
    <3> HIDE DEF candidate
    <3>2. Halfway(acc.done, candidate, q, from, k + 1)
      BY <3>1 DEF Halfway
    <3>3. from < k + 1
      BY <1>3
    <3>4. done = acc.done /\ current = candidate
      BY <2>1
    <3> HIDE DEF done, current
    <3>5. QED
      BY <3>2, <3>3, <3>4
  <2>2. CASE ~fits
    <3>1. from < k
      <4>1. Len(acc.current) # 0
        <5>1. acc.current \in Seq(Samples) /\ acc.current # <<>>
          BY <1>2, <2>2 DEF Segment
        <5>2. QED
          BY <5>1, EmptySeq
      <4>2. Len(acc.current) = k - from
        BY <1>2 DEF Segment
      <4>3. QED
        BY <1>3, <4>1, <4>2
    <3>2. Halfway(Append(acc.done, acc.current), none, q, k, k)
      BY <1>4, <3>1, CloseChunk
    <3>3. Segment(Append(none, s), q, k, k + 1)
      <4>1. Segment(none, q, k, k)
        BY <3>2 DEF Halfway
      <4>2. QED
        BY <4>1, SegmentAppend
    <3>4. Append(none, s) = <<s>>
      BY <1>4, <1>5
    <3>5. Halfway(Append(acc.done, acc.current), <<s>>, q, k, k + 1)
      BY <3>2, <3>3, <3>4 DEF Halfway
    <3>6. done = Append(acc.done, acc.current) /\ current = <<s>>
      BY <2>2
    <3> HIDE DEF done, current
    <3>7. QED
      BY <1>3, <3>5, <3>6
  <2>3. QED
    BY <2>1, <2>2
<1>7. PICK up : Halfway(done, current, q, up, k + 1) /\ up < k + 1
  BY <1>6
<1> HIDE DEF s, done, current
<1>8. CASE full
  <2>1. Halfway(Append(done, current), none, q, k + 1, k + 1)
    BY <1>4, <1>7, CloseChunk
  <2>2. Chunked(acc, s).done = Append(done, current) /\ Chunked(acc, s).current = none
    BY <1>1, <1>4, <1>8
  <2>3. Halfway(Chunked(acc, s).done, Chunked(acc, s).current, q, k + 1, k + 1)
    BY <2>1, <2>2
  <2>4. QED
    BY <2>3 DEF s
<1>9. CASE ~full
  <2>1. Chunked(acc, s).done = done /\ Chunked(acc, s).current = current
    BY <1>1, <1>9
  <2>2. Halfway(Chunked(acc, s).done, Chunked(acc, s).current, q, up, k + 1)
    BY <1>7, <2>1
  <2>3. QED
    BY <2>2 DEF s
<1>10. QED
  BY <1>8, <1>9

\* What chunk_teacher_samples carries along.
Chunking == [done : Seq(Seq(Samples)), current : Seq(Samples)]

LEMMA ChunkedType ==
    ASSUME NEW acc \in Chunking, NEW s \in Samples
    PROVE  Chunked(acc, s) \in Chunking
<1>1. acc.done \in Seq(Seq(Samples)) /\ acc.current \in Seq(Samples)
  BY DEF Chunking
<1>2. Append(acc.current, s) \in Seq(Samples) /\ <<s>> \in Seq(Samples)
  BY <1>1, AppendProperties
<1>3. <<>> \in Seq(Samples)
  BY EmptySeq
<1>4. \A d \in Seq(Seq(Samples)), c \in Seq(Samples) :
          Append(d, c) \in Seq(Seq(Samples)) /\ [done |-> d, current |-> c] \in Chunking
  BY AppendProperties DEF Chunking
<1>5. QED
  BY <1>1, <1>2, <1>3, <1>4 DEF Chunked

\* chunk_teacher_samples takes the samples one after the other, and closes the last chunk.
LEMMA ChunksRun ==
    ASSUME NEW q \in Seq(Samples)
    PROVE  \E after :
               /\ after[0] = [done |-> <<>>, current |-> <<>>]
               /\ \A k \in 1 .. Len(q) : after[k] = Chunked(after[k - 1], q[k])
               /\ Chunks(q) = IF after[Len(q)].current = <<>> THEN after[Len(q)].done
                              ELSE Append(after[Len(q)].done, after[Len(q)].current)
<1> DEFINE n == Len(q)
           first == [done |-> <<>>, current |-> <<>>]
           next == [k \in 1 .. n |-> [a \in Chunking |-> Chunked(a, q[k])]]
           Body(g) == [k \in 0 .. n |-> IF k = 0 THEN first ELSE Chunked(g[k - 1], q[k])]
           after == CHOOSE g : g = Body(g)
<1>1. n \in Nat /\ \A k \in 1 .. n : q[k] \in Samples
  BY LenProperties
<1>2. first \in Chunking
  <2>1. <<>> \in Seq(Samples) /\ <<>> \in Seq(Seq(Samples))
    BY EmptySeq
  <2>2. QED
    BY <2>1 DEF Chunking
<1>3. next \in [1 .. n -> [Chunking -> Chunking]]
  BY <1>1, ChunkedType
<1>4. PICK f : Iterates(f, n, Chunking, first, next)
  <2> HIDE DEF n, first, next
  <2>1. QED
    BY <1>1, <1>2, <1>3, PrefixRecursion
<1>5. f = Body(f)
  <2>1. f \in [0 .. n -> Chunking] /\ f[0] = first
    BY <1>4 DEF Iterates
  <2>2. \A k \in 1 .. n : f[k - 1] \in Chunking
    BY <1>1, <2>1
  <2>3. \A k \in 1 .. n : f[k] = next[k][f[k - 1]]
    BY <1>4 DEF Iterates
  <2>4. \A k \in 1 .. n : f[k] = Chunked(f[k - 1], q[k])
    BY <2>2, <2>3
  <2>5. \A k \in 0 .. n : k = 0 \/ k \in 1 .. n
    BY <1>1
  <2>6. \A k \in 0 .. n : f[k] = Body(f)[k]
    <3> HIDE DEF first
    <3>1. QED
      BY <2>1, <2>4, <2>5
  <2>7. QED
    BY <2>1, <2>6
<1>6. after = Body(after)
  <2> HIDE DEF Body
  <2>1. QED
    BY <1>5
<1>7. Chunks(q) = IF after[n].current = <<>> THEN after[n].done
                                             ELSE Append(after[n].done, after[n].current)
  BY DEF Chunks
<1> HIDE DEF after
<1>8. after[0] = first /\ \A k \in 1 .. n : after[k] = Chunked(after[k - 1], q[k])
  <2> HIDE DEF first
  <2>1. \A k \in 0 .. n : after[k] = IF k = 0 THEN first ELSE Chunked(after[k - 1], q[k])
    BY <1>6, Zenon
  <2>2. 0 \in 0 .. n /\ \A k \in 1 .. n : k \in 0 .. n /\ k # 0
    BY <1>1
  <2>3. QED
    BY <2>1, <2>2, Zenon
<1>9. QED
  BY <1>7, <1>8

\* The chunks of a slice cut it: every sample is in one of them, in the order of the slice,
\* and no chunk is empty.
THEOREM ChunksCut ==
    ASSUME NEW q \in Seq(Samples)
    PROVE  /\ Chunks(q) \in Seq(Seq(Samples))
           /\ \E b : Cuts(Chunks(q), q, b, Len(q)) /\ b[1] = 0
<1> DEFINE n == Len(q)
<1>1. n \in Nat
  BY LenProperties
<1>2. PICK after :
        /\ after[0] = [done |-> <<>>, current |-> <<>>]
        /\ \A k \in 1 .. n : after[k] = Chunked(after[k - 1], q[k])
        /\ Chunks(q) = IF after[n].current = <<>> THEN after[n].done
                       ELSE Append(after[n].done, after[n].current)
  BY ChunksRun
<1>7. Chunks(q) = IF after[n].current = <<>> THEN after[n].done
                                             ELSE Append(after[n].done, after[n].current)
  BY <1>2
<1>8. /\ after[0] = [done |-> <<>>, current |-> <<>>]
      /\ \A k \in 1 .. n : after[k] = Chunked(after[k - 1], q[k])
  BY <1>2
<1> DEFINE Right(k) == \E from : Halfway(after[k].done, after[k].current, q, from, k)
           Good == {k \in Nat : k <= n => Right(k)}
<1>9. 0 \in Good
  <2>1. after[0].done = <<>> /\ after[0].current = <<>>
    BY <1>8
  <2>2. after[0].done \in Seq(Seq(Samples))
    BY <2>1, EmptySeq
  <2>3. Segment(after[0].current, q, 0, 0)
    BY <1>1, <2>1, SegmentEmpty
  <2>4. \E b : Cuts(after[0].done, q, b, 0) /\ b[1] = 0
    BY <1>1, <2>1, CutsEmpty
  <2>5. Halfway(after[0].done, after[0].current, q, 0, 0)
    BY <2>2, <2>3, <2>4 DEF Halfway
  <2>6. Right(0)
    BY <2>5
  <2> HIDE DEF Right
  <2>7. QED
    BY <2>6
<1>10. \A k \in Nat : k \in Good => k + 1 \in Good
  <2> SUFFICES ASSUME NEW k \in Nat, k \in Good PROVE k + 1 \in Good
    OBVIOUS
  <2> SUFFICES ASSUME k + 1 <= n PROVE Right(k + 1)
    <3> HIDE DEF Right
    <3>1. k + 1 \in Nat
      OBVIOUS
    <3>2. QED
      BY <3>1
  <2>1. Right(k)
    <3>1. k <= n
      BY <1>1
    <3> HIDE DEF Right
    <3>2. QED
      BY <3>1
  <2>2. PICK from : Halfway(after[k].done, after[k].current, q, from, k)
    BY <2>1
  <2>3. after[k + 1] = Chunked(after[k], q[k + 1])
    <3>1. PICK j : j = k + 1
      OBVIOUS
    <3>2. j \in 1 .. n /\ j - 1 = k
      BY <1>1, <3>1
    <3>3. after[j] = Chunked(after[j - 1], q[j])
      BY <1>8, <3>2, Zenon
    <3>4. QED
      BY <3>1, <3>2, <3>3, Zenon
  <2>4. \E up : Halfway(Chunked(after[k], q[k + 1]).done,
                        Chunked(after[k], q[k + 1]).current, q, up, k + 1)
    BY <2>2, ChunkedHalfway
  <2>5. QED
    BY <2>3, <2>4
<1>11. Right(n)
  <2> HIDE DEF Right
  <2>1. n \in Good
    <3> HIDE DEF Good
    <3>1. QED
      BY <1>1, <1>9, <1>10, SetInduction
  <2>2. QED
    BY <1>1, <2>1
<1>12. PICK from : Halfway(after[n].done, after[n].current, q, from, n)
  BY <1>11
<1>13. after[n].done \in Seq(Seq(Samples)) /\ Segment(after[n].current, q, from, n)
  BY <1>12 DEF Halfway
<1>14. /\ after[n].current \in Seq(Samples)
       /\ from \in Nat /\ from <= n /\ Len(after[n].current) = n - from
  BY <1>13 DEF Segment
<1>15. CASE after[n].current = <<>>
  <2>1. from = n
    <3>1. Len(after[n].current) = 0
      BY <1>15, EmptySeq
    <3>2. QED
      BY <1>1, <1>14, <3>1
  <2>2. \E b : Cuts(after[n].done, q, b, n) /\ b[1] = 0
    BY <1>12, <2>1 DEF Halfway
  <2>3. QED
    BY <1>7, <1>13, <1>15, <2>2
<1>16. CASE after[n].current # <<>>
  <2>1. from < n
    <3>1. Len(after[n].current) # 0
      BY <1>14, <1>16, EmptySeq
    <3>2. QED
      BY <1>1, <1>14, <3>1
  <2>2. PICK none : none = <<>>
    OBVIOUS
  <2>3. Halfway(Append(after[n].done, after[n].current), none, q, n, n)
    BY <1>12, <2>1, <2>2, CloseChunk
  <2>4. QED
    BY <1>7, <1>16, <2>3 DEF Halfway
<1>17. QED
  BY <1>15, <1>16

\* A chunk one request may be made of.
Fits(c) ==
    /\ Len(c) \in 1 .. ChunkLimit
    /\ Len(c) = 1 \/ Tokens(c) <= MaxTokens

\* All chunks done fit, and the current one fits and may take one more sample, if it is
\* not empty.
Fitting(acc) ==
    /\ acc \in Chunking
    /\ \A k \in 1 .. Len(acc.done) : Fits(acc.done[k])
    /\ acc.current # <<>> => Fits(acc.current) /\ Len(acc.current) < ChunkLimit

\* One sample alone always fits, whatever it weighs.
LEMMA SingleFits ==
    ASSUME NEW s \in Samples
    PROVE  <<s>> \in Seq(Samples) /\ <<s>> # <<>> /\ Fits(<<s>>)
<1>1. <<s>> \in Seq(Samples)
  OBVIOUS
<1>2. Len(<<s>>) = 1
  OBVIOUS
<1>3. ChunkLimit \in Nat /\ ChunkLimit >= 1
  BY ConstantsAssumption DEF ChunkLimit
<1>4. 1 \in 1 .. ChunkLimit
  BY <1>3
<1>5. Fits(<<s>>)
  BY <1>2, <1>4, Zenon DEF Fits
<1>6. <<s>> # <<>>
  OBVIOUS
<1>7. QED
  BY <1>1, <1>5, <1>6, Zenon

LEMMA ChunkedFits ==
    ASSUME NEW acc, Fitting(acc), NEW s \in Samples
    PROVE  Fitting(Chunked(acc, s))
<1> DEFINE candidate == Append(acc.current, s)
           fits == \/ acc.current = <<>>
                   \/ Len(candidate) <= ChunkLimit /\ Tokens(candidate) <= MaxTokens
           done == IF fits THEN acc.done ELSE Append(acc.done, acc.current)
           current == IF fits THEN candidate ELSE <<s>>
           full == Len(current) >= ChunkLimit
<1>1. Chunked(acc, s) = IF full THEN [done |-> Append(done, current), current |-> <<>>]
                                ELSE [done |-> done, current |-> current]
  BY DEF Chunked
<1>2. /\ acc.done \in Seq(Seq(Samples)) /\ acc.current \in Seq(Samples)
      /\ \A k \in 1 .. Len(acc.done) : Fits(acc.done[k])
      /\ acc.current # <<>> => Fits(acc.current)
  BY DEF Fitting, Chunking
<1>3. Chunked(acc, s) \in Chunking
  BY ChunkedType DEF Fitting
<1>4. ChunkLimit \in Nat /\ ChunkLimit >= 1
  BY ConstantsAssumption DEF ChunkLimit
<1>5. ASSUME NEW d \in Seq(Seq(Samples)), \A k \in 1 .. Len(d) : Fits(d[k]),
             NEW c \in Seq(Samples), Fits(c)
      PROVE  \A k \in 1 .. Len(Append(d, c)) : Fits(Append(d, c)[k])
  <2>1. /\ Len(Append(d, c)) = Len(d) + 1 /\ Append(d, c)[Len(d) + 1] = c
        /\ \A k \in 1 .. Len(d) : Append(d, c)[k] = d[k]
        /\ Len(d) \in Nat
    BY AppendProperties, LenProperties
  <2>2. \A k \in 1 .. Len(d) + 1 : k \in 1 .. Len(d) \/ k = Len(d) + 1
    BY <2>1
  <2>3. QED
    BY <1>5, <2>1, <2>2
<1>6. done \in Seq(Seq(Samples)) /\ \A k \in 1 .. Len(done) : Fits(done[k])
  <2>1. CASE fits
    BY <1>2, <2>1
  <2>2. CASE ~fits
    <3>1. Fits(acc.current)
      BY <1>2, <2>2
    <3>2. Append(acc.done, acc.current) \in Seq(Seq(Samples))
      BY <1>2, AppendProperties
    <3>3. \A k \in 1 .. Len(Append(acc.done, acc.current)) :
              Fits(Append(acc.done, acc.current)[k])
      BY <1>2, <1>5, <3>1
    <3>4. QED
      BY <2>2, <3>2, <3>3
  <2>3. QED
    BY <2>1, <2>2
<1>7. current \in Seq(Samples) /\ current # <<>> /\ Fits(current)
  <2>1. CASE acc.current = <<>>
    <3>1. candidate = <<s>>
      BY <2>1
    <3>2. current = <<s>>
      BY <2>1, <3>1
    <3> HIDE DEF current
    <3>3. QED
      BY <3>2, SingleFits, Zenon
  <2>2. CASE acc.current # <<>> /\ fits
    <3>1. candidate \in Seq(Samples) /\ Len(candidate) = Len(acc.current) + 1
      BY <1>2, AppendProperties
    <3>2. Len(acc.current) \in Nat
      BY <1>2, LenProperties
    <3>3. current = candidate
      BY <2>2
    <3>4. Len(candidate) <= ChunkLimit /\ Tokens(candidate) <= MaxTokens
      BY <2>2
    <3> HIDE DEF candidate
    <3>5. Fits(candidate)
      BY <1>4, <3>1, <3>2, <3>4 DEF Fits
    <3>6. candidate # <<>>
      BY <3>1, <3>2, EmptySeq
    <3> HIDE DEF current
    <3>7. QED
      BY <3>1, <3>3, <3>5, <3>6
  <2>3. CASE ~fits
    <3>1. current = <<s>>
      BY <2>3
    <3> HIDE DEF current
    <3>2. QED
      BY <3>1, SingleFits, Zenon
  <2>4. QED
    BY <2>1, <2>2, <2>3
<1> HIDE DEF done, current
<1>8. CASE full
  <2>1. Chunked(acc, s).done = Append(done, current) /\ Chunked(acc, s).current = <<>>
    BY <1>1, <1>8
  <2>2. \A k \in 1 .. Len(Append(done, current)) : Fits(Append(done, current)[k])
    BY <1>5, <1>6, <1>7
  <2>3. QED
    BY <1>3, <2>1, <2>2 DEF Fitting
<1>9. CASE ~full
  <2>1. Chunked(acc, s).done = done /\ Chunked(acc, s).current = current
    BY <1>1, <1>9
  <2>2. Len(current) < ChunkLimit
    BY <1>4, <1>7, <1>9, LenProperties
  <2>3. QED
    BY <1>3, <1>6, <1>7, <2>1, <2>2 DEF Fitting
<1>10. QED
  BY <1>8, <1>9

\* No chunk is larger than the limits allow: a chunk of more than one sample stays below
\* the token limit, and none has more samples than a request may.
THEOREM ChunksFit ==
    ASSUME NEW q \in Seq(Samples)
    PROVE  \A k \in 1 .. Len(Chunks(q)) : Fits(Chunks(q)[k])
<1> DEFINE n == Len(q)
<1>1. n \in Nat /\ \A k \in 1 .. n : q[k] \in Samples
  BY LenProperties
<1>2. PICK after :
        /\ after[0] = [done |-> <<>>, current |-> <<>>]
        /\ \A k \in 1 .. n : after[k] = Chunked(after[k - 1], q[k])
        /\ Chunks(q) = IF after[n].current = <<>> THEN after[n].done
                       ELSE Append(after[n].done, after[n].current)
  BY ChunksRun
<1> DEFINE Good == {k \in Nat : k <= n => Fitting(after[k])}
<1>3. 0 \in Good
  <2>1. after[0].done = <<>> /\ after[0].current = <<>>
    BY <1>2
  <2>2. after[0] \in Chunking
    <3>1. <<>> \in Seq(Samples) /\ <<>> \in Seq(Seq(Samples))
      BY EmptySeq
    <3>2. QED
      BY <1>2, <3>1 DEF Chunking
  <2>3. Len(after[0].done) = 0
    BY <2>1, EmptySeq
  <2>4. QED
    BY <2>1, <2>2, <2>3 DEF Fitting
<1>4. \A k \in Nat : k \in Good => k + 1 \in Good
  <2> SUFFICES ASSUME NEW k \in Nat, k \in Good, k + 1 <= n PROVE Fitting(after[k + 1])
    OBVIOUS
  <2>1. Fitting(after[k])
    BY <1>1
  <2>2. PICK j : j = k + 1
    OBVIOUS
  <2>3. j \in 1 .. n /\ j - 1 = k
    BY <1>1, <2>2
  <2>4. after[j] = Chunked(after[j - 1], q[j]) /\ q[j] \in Samples
    BY <1>1, <1>2, <2>3
  <2>5. Fitting(Chunked(after[k], q[j]))
    BY <2>1, <2>4, ChunkedFits
  <2>6. QED
    BY <2>2, <2>3, <2>4, <2>5
<1>5. Fitting(after[n])
  <2>1. n \in Good
    <3> HIDE DEF Good
    <3>1. QED
      BY <1>1, <1>3, <1>4, SetInduction
  <2>2. QED
    BY <1>1, <2>1
<1>6. /\ after[n].done \in Seq(Seq(Samples)) /\ after[n].current \in Seq(Samples)
      /\ \A k \in 1 .. Len(after[n].done) : Fits(after[n].done[k])
      /\ after[n].current # <<>> => Fits(after[n].current)
  BY <1>5 DEF Fitting, Chunking
<1>7. CASE after[n].current = <<>>
  BY <1>2, <1>6, <1>7
<1>8. CASE after[n].current # <<>>
  <2>1. PICK d \in Seq(Seq(Samples)), c \in Seq(Samples) :
            d = after[n].done /\ c = after[n].current
    BY <1>6
  <2>2. /\ Len(Append(d, c)) = Len(d) + 1 /\ Append(d, c)[Len(d) + 1] = c
        /\ \A k \in 1 .. Len(d) : Append(d, c)[k] = d[k]
        /\ Len(d) \in Nat
    BY AppendProperties, LenProperties
  <2>3. \A k \in 1 .. Len(d) + 1 : k \in 1 .. Len(d) \/ k = Len(d) + 1
    BY <2>2
  <2>4. Chunks(q) = Append(d, c)
    BY <1>2, <1>8, <2>1
  <2>5. QED
    BY <1>6, <1>8, <2>1, <2>2, <2>3, <2>4
<1>9. QED
  BY <1>7, <1>8

\* What validation makes of a sample is one of the verdicts, or nothing.
LEMMA ReadingType ==
    ASSUME NEW subset \in Seq(Samples), NEW graph \in Readings(subset)
    PROVE  /\ DOMAIN graph = ToSet(subset)
           /\ \A s \in ToSet(subset) : graph[s] \in Verdicts \cup {"missing"}
<1>1. PICK reply \in Replies(subset) : graph = [s \in ToSet(subset) |-> GraphOf(reply, s)]
  BY DEF Readings
<1>2. PICK n \in 0 .. MaxReply : reply \in [1 .. n -> Items(subset)]
  BY DEF Replies
<1>3. ASSUME NEW s \in ToSet(subset) PROVE GraphOf(reply, s) \in Verdicts \cup {"missing"}
  <2>1. CASE ~HasItem(reply, s)
    BY <2>1 DEF GraphOf
  <2>2. CASE HasItem(reply, s)
    <3>1. ItemsOf(reply, s) # {}
      <4>1. Cardinality(ItemsOf(reply, s)) = 1
        BY <2>2 DEF HasItem
      <4>2. Cardinality({}) = 0
        BY FS_EmptySet
      <4>3. ItemsOf(reply, s) = {} => Cardinality(ItemsOf(reply, s)) = 0
        BY <4>2, Zenon
      <4>4. QED
        BY <4>1, <4>3
    <3>2. PICK k : k = CHOOSE j \in ItemsOf(reply, s) : TRUE
      OBVIOUS
    <3>3. k \in ItemsOf(reply, s) /\ k \in DOMAIN reply
      BY <3>1, <3>2 DEF ItemsOf
    <3>4. reply[k].graph # "malformed"
      BY <2>2, <3>3 DEF HasItem
    <3>5. reply[k] \in Items(subset)
      BY <1>2, <3>3
    <3>6. reply[k].graph \in Verdicts
      BY <3>4, <3>5 DEF Items
    <3>7. GraphOf(reply, s) = reply[k].graph
      BY <2>2, <3>2 DEF GraphOf
    <3>8. QED
      BY <3>6, <3>7
  <2>3. QED
    BY <2>1, <2>2
<1>4. QED
  BY <1>1, <1>3

-----------------------------------------------------------------------------
\* The first element of a sequence and the others.
LEMMA HeadAndTail ==
    ASSUME NEW S, NEW q \in Seq(S), q # <<>>
    PROVE  /\ Head(q) \in S /\ Tail(q) \in Seq(S)
           /\ \A x : x \in ToSet(q) <=> x = Head(q) \/ x \in ToSet(Tail(q))
           /\ Distinct(q) => Head(q) \notin ToSet(Tail(q)) /\ Distinct(Tail(q))
<1> DEFINE t == Tail(q)
           n == Len(q) - 1
<1>1. n \in Nat /\ Len(q) = n + 1
  BY EmptySeq
<1>2. /\ t \in Seq(S) /\ Len(t) = n /\ Head(q) = q[1] /\ Head(q) \in S
      /\ \A i \in 1 .. n : t[i] = q[i + 1]
  BY HeadTailProperties
<1> HIDE DEF t, n
<1>3. /\ \A x : x \in ToSet(q) <=> \E i \in 1 .. n + 1 : q[i] = x
      /\ \A x : x \in ToSet(t) <=> \E i \in 1 .. n : t[i] = x
  <2>1. \A x : x \in ToSet(q) <=> \E i \in 1 .. n + 1 : q[i] = x
    BY <1>1, Elements
  <2>2. \A x : x \in ToSet(t) <=> \E i \in 1 .. n : t[i] = x
    BY <1>2, Elements
  <2>3. QED
    BY <2>1, <2>2
<1>4. \A i \in 1 .. n + 1 : i = 1 \/ (i - 1 \in 1 .. n /\ i - 1 + 1 = i)
  BY <1>1
<1>5. 1 \in 1 .. n + 1 /\ \A i \in 1 .. n : i + 1 \in 1 .. n + 1
  BY <1>1
<1>6. \A x : x \in ToSet(q) <=> x = q[1] \/ x \in ToSet(t)
  <2> TAKE x
  <2>1. ASSUME x \in ToSet(q) PROVE x = q[1] \/ x \in ToSet(t)
    <3>1. PICK i \in 1 .. n + 1 : q[i] = x
      BY <1>3, <2>1
    <3>2. i = 1 \/ (i - 1 \in 1 .. n /\ t[i - 1] = x)
      BY <1>2, <1>4, <3>1
    <3>3. QED
      BY <1>3, <3>1, <3>2
  <2>2. ASSUME x \in ToSet(t) PROVE x \in ToSet(q)
    <3>1. PICK i \in 1 .. n : t[i] = x
      BY <1>3, <2>2
    <3>2. q[i + 1] = x /\ i + 1 \in 1 .. n + 1
      BY <1>2, <1>5, <3>1
    <3>3. QED
      BY <1>3, <3>2
  <2>3. q[1] \in ToSet(q)
    BY <1>3, <1>5
  <2>4. QED
    BY <2>1, <2>2, <2>3
<1>7. ASSUME Distinct(q) PROVE q[1] \notin ToSet(t) /\ Distinct(t)
  <2>1. \A i, j \in 1 .. n + 1 : q[i] = q[j] => i = j
    BY <1>1, <1>7 DEF Distinct
  <2>2. \A i \in 1 .. n : t[i] # q[1]
    BY <1>1, <1>2, <1>5, <2>1
  <2>3. \A i, j \in 1 .. n : t[i] = t[j] => i = j
    BY <1>1, <1>2, <1>5, <2>1
  <2>4. QED
    BY <1>2, <1>3, <2>2, <2>3 DEF Distinct
<1>8. QED
  BY <1>2, <1>6, <1>7 DEF t

\* A part of a sequence.
LEMMA PartOf ==
    ASSUME NEW S, NEW q \in Seq(S), NEW m \in Nat, NEW n \in Nat, m <= n, n <= Len(q)
    PROVE  /\ SubSeq(q, m + 1, n) \in Seq(S)
           /\ Len(SubSeq(q, m + 1, n)) = n - m
           /\ \A i \in 1 .. n - m : SubSeq(q, m + 1, n)[i] = q[m + i]
<1>1. m + 1 \in Int /\ n \in Int /\ \A i \in m + 1 .. n : q[i] \in S
  BY LenProperties
<1>2. /\ SubSeq(q, m + 1, n) \in Seq(S)
      /\ Len(SubSeq(q, m + 1, n)) = IF m + 1 <= n THEN n - (m + 1) + 1 ELSE 0
      /\ \A i \in 1 .. n - (m + 1) + 1 : SubSeq(q, m + 1, n)[i] = q[m + 1 + i - 1]
  BY <1>1, SubSeqProperties
<1>3. n - (m + 1) + 1 = n - m /\ \A i \in 1 .. n - m : m + 1 + i - 1 = m + i
  OBVIOUS
<1>4. Len(SubSeq(q, m + 1, n)) = n - m
  BY <1>2
<1>5. \A i \in 1 .. n - m : SubSeq(q, m + 1, n)[i] = q[m + i]
  BY <1>2, <1>3
<1>6. QED
  BY <1>2, <1>4, <1>5

\* The first m elements of a sequence and the others.
LEMMA FirstAndRest ==
    ASSUME NEW S, NEW q \in Seq(S), Distinct(q), NEW m \in 0 .. Len(q)
    PROVE  /\ SubSeq(q, 1, m) \in Seq(S) /\ SubSeq(q, m + 1, Len(q)) \in Seq(S)
           /\ Len(SubSeq(q, 1, m)) = m
           /\ Distinct(SubSeq(q, 1, m)) /\ Distinct(SubSeq(q, m + 1, Len(q)))
           /\ \A x : x \in ToSet(q) <=> \/ x \in ToSet(SubSeq(q, 1, m))
                                        \/ x \in ToSet(SubSeq(q, m + 1, Len(q)))
           /\ ToSet(SubSeq(q, 1, m)) \cap ToSet(SubSeq(q, m + 1, Len(q))) = {}
<1> DEFINE n == Len(q)
           u == SubSeq(q, 1, m)
           v == SubSeq(q, m + 1, n)
<1>1. n \in Nat /\ m \in Nat /\ m <= n /\ \A i \in 1 .. n : q[i] \in S
  BY LenProperties
<1>2. u \in Seq(S) /\ Len(u) = m /\ \A i \in 1 .. m : u[i] = q[i]
  <2>1. 0 + 1 = 1 /\ m - 0 = m /\ \A i \in 1 .. m : 0 + i = i
    BY <1>1
  <2>2. /\ SubSeq(q, 0 + 1, m) \in Seq(S)
        /\ Len(SubSeq(q, 0 + 1, m)) = m - 0
        /\ \A i \in 1 .. m - 0 : SubSeq(q, 0 + 1, m)[i] = q[0 + i]
    BY <1>1, PartOf
  <2>3. QED
    BY <2>1, <2>2
<1>3. v \in Seq(S) /\ Len(v) = n - m /\ \A i \in 1 .. n - m : v[i] = q[m + i]
  BY <1>1, PartOf
<1> HIDE DEF u, v
<1>4. /\ \A x : x \in ToSet(q) <=> \E i \in 1 .. n : q[i] = x
      /\ \A x : x \in ToSet(u) <=> \E i \in 1 .. m : u[i] = x
      /\ \A x : x \in ToSet(v) <=> \E i \in 1 .. n - m : v[i] = x
  <2>1. \A x : x \in ToSet(u) <=> \E i \in 1 .. m : u[i] = x
    BY <1>2, Elements
  <2>2. \A x : x \in ToSet(v) <=> \E i \in 1 .. n - m : v[i] = x
    BY <1>3, Elements
  <2>3. QED
    BY <2>1, <2>2, Elements
<1>5. \A i, j \in 1 .. n : q[i] = q[j] => i = j
  BY DEF Distinct
<1> HIDE DEF n
<1>6. Distinct(u) /\ Distinct(v)
  <2>1. \A i, j \in 1 .. m : u[i] = u[j] => i = j
    BY <1>1, <1>2, <1>5
  <2>2. \A i, j \in 1 .. n - m : v[i] = v[j] => i = j
    BY <1>1, <1>3, <1>5
  <2>3. QED
    BY <1>2, <1>3, <2>1, <2>2 DEF Distinct
<1>7. \A x : x \in ToSet(q) <=> x \in ToSet(u) \/ x \in ToSet(v)
  <2> TAKE x
  <2>1. ASSUME x \in ToSet(q) PROVE x \in ToSet(u) \/ x \in ToSet(v)
    <3>1. PICK i \in 1 .. n : q[i] = x
      BY <1>4, <2>1
    <3>2. CASE i \in 1 .. m
      BY <1>2, <1>4, <3>1, <3>2
    <3>3. CASE i \in m + 1 .. n
      <4>1. i - m \in 1 .. n - m /\ m + (i - m) = i
        BY <1>1, <3>3
      <4>2. v[i - m] = x
        BY <1>3, <3>1, <4>1
      <4>3. QED
        BY <1>4, <4>1, <4>2
    <3>4. QED
      BY <1>1, <3>2, <3>3
  <2>2. ASSUME x \in ToSet(u) PROVE x \in ToSet(q)
    <3>1. PICK i \in 1 .. m : u[i] = x
      BY <1>4, <2>2
    <3>2. i \in 1 .. n /\ q[i] = x
      BY <1>1, <1>2, <3>1
    <3>3. QED
      BY <1>4, <3>2
  <2>3. ASSUME x \in ToSet(v) PROVE x \in ToSet(q)
    <3>1. PICK i \in 1 .. n - m : v[i] = x
      BY <1>4, <2>3
    <3>2. m + i \in 1 .. n /\ q[m + i] = x
      BY <1>1, <1>3, <3>1
    <3>3. QED
      BY <1>4, <3>2
  <2>4. QED
    BY <2>1, <2>2, <2>3
<1>8. ASSUME NEW x \in ToSet(u), x \in ToSet(v) PROVE FALSE
  <2>1. PICK i \in 1 .. m : u[i] = x
    BY <1>4, <1>8
  <2>2. PICK j \in 1 .. n - m : v[j] = x
    BY <1>4, <1>8
  <2>3. q[i] = q[m + j] /\ i \in 1 .. n /\ m + j \in 1 .. n /\ i # m + j
    BY <1>1, <1>2, <1>3, <2>1, <2>2
  <2>4. QED
    BY <1>5, <2>3
<1>9. QED
  BY <1>2, <1>3, <1>6, <1>7, <1>8 DEF u, v, n

\* The samples of a segment.
LEMMA SegmentElements ==
    ASSUME NEW q \in Seq(Samples), NEW c, NEW from, NEW to, Segment(c, q, from, to)
    PROVE  \A x : x \in ToSet(c) <=> \E i \in from + 1 .. to : q[i] = x
<1>1. /\ c \in Seq(Samples) /\ from \in Nat /\ to \in Nat /\ from <= to
      /\ Len(c) = to - from
      /\ \A j \in 1 .. to - from : c[j] = q[from + j]
  BY DEF Segment
<1>2. \A x : x \in ToSet(c) <=> \E j \in 1 .. to - from : c[j] = x
  BY <1>1, Elements
<1> SUFFICES ASSUME NEW x PROVE x \in ToSet(c) <=> \E i \in from + 1 .. to : q[i] = x
  OBVIOUS
<1>3. ASSUME x \in ToSet(c) PROVE \E i \in from + 1 .. to : q[i] = x
  <2>1. PICK j \in 1 .. to - from : c[j] = x
    BY <1>2, <1>3
  <2>2. from + j \in from + 1 .. to /\ q[from + j] = x
    BY <1>1, <2>1
  <2>3. QED
    BY <2>2
<1>4. ASSUME NEW i \in from + 1 .. to, q[i] = x PROVE x \in ToSet(c)
  <2>1. i - from \in 1 .. to - from /\ from + (i - from) = i
    BY <1>1
  <2>2. c[i - from] = x
    BY <1>1, <1>4, <2>1
  <2>3. QED
    BY <1>2, <2>1, <2>2
<1>5. QED
  BY <1>3, <1>4

\* Both halves of a segment are segments.
LEMMA SegmentHalves ==
    ASSUME NEW q \in Seq(Samples), NEW c, NEW from, NEW to, Segment(c, q, from, to),
           NEW m \in 1 .. Len(c) - 1
    PROVE  /\ Segment(SubSeq(c, 1, m), q, from, from + m)
           /\ Segment(SubSeq(c, m + 1, Len(c)), q, from + m, to)
           /\ from < from + m /\ from + m < to
<1> DEFINE n == Len(c)
           u == SubSeq(c, 1, m)
           v == SubSeq(c, m + 1, n)
<1>1. /\ c \in Seq(Samples) /\ from \in Nat /\ to \in Nat /\ from <= to /\ to <= Len(q)
      /\ n = to - from
      /\ \A j \in 1 .. n : c[j] = q[from + j]
  BY DEF Segment
<1>2. n \in Nat /\ m \in Nat /\ 1 <= m /\ m < n /\ \A i \in 1 .. n : c[i] \in Samples
  BY <1>1, LenProperties
<1>3. u \in Seq(Samples) /\ Len(u) = m /\ \A i \in 1 .. m : u[i] = c[i]
  <2>1. 0 + 1 = 1 /\ m - 0 = m /\ \A i \in 1 .. m : 0 + i = i
    BY <1>2
  <2>2. /\ SubSeq(c, 0 + 1, m) \in Seq(Samples)
        /\ Len(SubSeq(c, 0 + 1, m)) = m - 0
        /\ \A i \in 1 .. m - 0 : SubSeq(c, 0 + 1, m)[i] = c[0 + i]
    BY <1>1, <1>2, PartOf
  <2>3. QED
    BY <2>1, <2>2
<1>4. v \in Seq(Samples) /\ Len(v) = n - m /\ \A i \in 1 .. n - m : v[i] = c[m + i]
  BY <1>1, <1>2, PartOf
<1> HIDE DEF u, v, n
<1>5. \A j \in 1 .. m : u[j] = q[from + j]
  <2> TAKE j \in 1 .. m
  <2>1. j \in 1 .. n
    BY <1>2
  <2>2. QED
    BY <1>1, <1>3, <2>1
<1>6. \A j \in 1 .. n - m : v[j] = q[from + m + j]
  <2> TAKE j \in 1 .. n - m
  <2>1. m + j \in 1 .. n /\ from + (m + j) = from + m + j
    BY <1>1, <1>2
  <2>2. QED
    BY <1>1, <1>4, <2>1
<1>7. /\ from + m - from = m /\ to - (from + m) = n - m /\ from + m \in Nat
      /\ from < from + m /\ from + m < to
  BY <1>1, <1>2
<1>8. Segment(u, q, from, from + m)
  BY <1>1, <1>2, <1>3, <1>5, <1>7 DEF Segment
<1>9. Segment(v, q, from + m, to)
  BY <1>1, <1>2, <1>4, <1>6, <1>7 DEF Segment
<1>10. QED
  BY <1>7, <1>8, <1>9 DEF u, v, n

-----------------------------------------------------------------------------
\* The provider calls that u requests may take, each with all its transport repairs.
Budget(u) == (Transport + 1) * u

\* What is to be taken up is in order and apart from what the slice holds, and has no
\* outcome yet.
QueueOK ==
    pc \notin Ended =>
        /\ Distinct(samples) /\ Distinct(slice)
        /\ ToSet(samples) \cap ToSet(slice) = {}
        /\ \A s \in ToSet(samples) : outcome[s] = "none"

\* The samples of the slice whose raw row is still to be appended.
Waiting ==
    IF pc \in {"initial", "call"} THEN ToSet(slice)
    ELSE IF pc = "raw" THEN ToSet(unsaved)
    ELSE IF pc = "label" THEN ToSet(Tail(unsaved))
    ELSE {}

\* While a command runs or has reported, the samples without a raw row are those it still
\* has before it.
LeftOK ==
    /\ pc \notin {"stopped", "refused", "failed"} =>
          \A s \in Samples : rows["raw"][s] = 0 <=> s \in ToSet(samples) \cup Waiting
    /\ pc = "reported" => samples = <<>>

\* The rows of a slice are appended in its order, each from the outcome of its sample.
SavedOK ==
    /\ pc \in {"raw", "label"} =>
          /\ Distinct(unsaved)
          /\ ToSet(unsaved) \subseteq ToSet(slice)
          /\ \A s \in ToSet(slice) : outcome[s] # "none"
    /\ pc = "label" =>
          /\ unsaved # <<>>
          /\ outcome[Head(unsaved)] \in LabelFiles
          /\ rows["raw"][Head(unsaved)] = 1
          /\ \A f \in LabelFiles : rows[f][Head(unsaved)] = 0
          /\ status[Head(unsaved)] = "generated"

\* A sample has one raw row at most, and one label row at most, behind a raw row that says
\* it was generated.
RowsOK ==
    \A s \in Samples :
        /\ rows["raw"][s] \in {0, 1}
        /\ \A f \in LabelFiles : rows[f][s] \in {0, 1}
        /\ \A f, g \in LabelFiles : rows[f][s] = 1 /\ rows[g][s] = 1 => f = g
        /\ rows["raw"][s] = 0 => \A f \in LabelFiles : rows[f][s] = 0
        /\ rows["raw"][s] = 1 => status[s] \in {"generated", "api_failed"}
        /\ \A f \in LabelFiles : rows[f][s] = 1 => status[s] = "generated"

\* The request under way is about samples of the slice up to place to that have no outcome:
\* all behind some place of it in a teacher request, some of them in a repair.
Asking(to) ==
    /\ \A i \in 1 .. to : slice[i] \in Requested <=> outcome[slice[i]] = "none"
    /\ \A s \in Requested : \E i \in 1 .. to : slice[i] = s
    /\ request.kind = "teacher" =>
          \E a \in 0 .. to - 1 :
              /\ Segment(request.subset, slice, a, to)
              /\ \A i \in 1 .. a : outcome[slice[i]] # "none"
              /\ calls <= Budget(3 * a + Len(stack)) + request.tries
    /\ request.kind = "partial_repair" =>
          calls <= Budget(3 * to + Len(stack) - 2) + request.tries

\* No request is under way and all samples of the slice up to place to have an outcome.
Settled(to) ==
    /\ \A i \in 1 .. to : outcome[slice[i]] # "none"
    /\ calls <= Budget(3 * to + Len(stack) - 1)

\* The stack cuts the slice, from the place up to which it was asked for to its end.
Cutting(b) ==
    /\ Cuts(stack, slice, b, Len(slice))
    /\ \A i \in b[1] + 1 .. Len(slice) : outcome[slice[i]] = "none"
    /\ pc = "initial" => Settled(b[1])
    /\ pc = "call" => Asking(b[1])

StackOK ==
    pc \in {"initial", "call"} =>
        slice # <<>> /\ \E b \in [1 .. Len(stack) + 1 -> 0 .. Len(slice)] : Cutting(b)

\* A line that a kill cut stays a line that cannot be parsed, and no run goes on with one
\* in the raw file.
LinesOK ==
    /\ torn \subseteq damaged
    /\ "raw" \in damaged => pc \in Ended

BatchInv ==
    /\ TypeOK /\ QueueOK /\ LeftOK /\ SavedOK /\ RowsOK /\ StackOK
    /\ pc \notin {"initial", "call"} => CallsBounded

-----------------------------------------------------------------------------
\* Budgets of different numbers of requests.
LEMMA BudgetFacts ==
    /\ Transport \in Nat
    /\ \A u \in Int : Budget(u) \in Int /\ Budget(u + 1) = Budget(u) + Transport + 1
    /\ \A u, v \in Int : u <= v => Budget(u) <= Budget(v)
    /\ \A u \in Nat : Budget(u) \in Nat
<1> DEFINE t == Transport + 1
<1>1. Transport \in Nat /\ t \in Nat
  BY ConstantsAssumption
<1>2. \A u \in Int : Budget(u) = t * u
  BY DEF Budget
<1> HIDE DEF t
<1>3. \A u \in Int : t * u \in Int /\ t * (u + 1) = t * u + t
  BY <1>1
<1>4. ASSUME NEW u \in Int, NEW v \in Int, u <= v PROVE t * u <= t * v
  <2>1. PICK d \in Nat : v = u + d
    <3>1. v - u \in Nat /\ v = u + (v - u)
      BY <1>4
    <3>2. QED
      BY <3>1
  <2>2. t * d \in Nat
    BY <1>1
  <2>3. t * (u + d) = t * u + t * d
    BY <1>1
  <2>4. QED
    BY <1>3, <2>1, <2>2, <2>3
<1>5. \A u \in Nat : t * u \in Nat
  BY <1>1
<1>6. \A u \in Int : Budget(u) \in Int /\ Budget(u + 1) = Budget(u) + Transport + 1
  <2> TAKE u \in Int
  <2>1. u + 1 \in Int
    OBVIOUS
  <2>2. Budget(u) = t * u /\ Budget(u + 1) = t * (u + 1)
    BY <1>2, <2>1
  <2>3. t * u \in Int /\ t * (u + 1) = t * u + t
    BY <1>3
  <2>4. QED
    BY <1>1, <2>2, <2>3 DEF t
<1>7. \A u, v \in Int : u <= v => Budget(u) <= Budget(v)
  BY <1>2, <1>4
<1>8. \A u \in Nat : Budget(u) \in Nat
  BY <1>2, <1>5
<1>9. QED
  BY <1>1, <1>6, <1>7, <1>8

\* The invariant holds before any command runs.
LEMMA InitInv == Init => BatchInv
<1> SUFFICES ASSUME Init PROVE BatchInv
  OBVIOUS
<1>1. pc = "stopped" /\ slice = <<>>
  BY DEF Init
<1>2. TypeOK
  <2>1. <<>> \in Seq(Samples) /\ <<>> \in Seq(Seq(Samples))
    BY EmptySeq
  <2>2. 0 \in 0 .. Transport
    BY BudgetFacts
  <2>3. request \in [kind : {"teacher", "partial_repair"}, subset : Seq(Samples),
                     tries : 0 .. Transport]
    BY <2>1, <2>2 DEF Init, NoRequest
  <2>4. QED
    BY <2>1, <2>3 DEF Init, TypeOK, Ended
<1>3. RowsOK
  BY DEF Init, RowsOK, Files, LabelFiles
<1>4. QED
  BY <1>1, <1>2, <1>3
     DEF BatchInv, QueueOK, LeftOK, SavedOK, StackOK, CallsBounded, Ended

\* The calls made, from the requests that were needed for what is settled.
LEMMA CallsFromStack == BatchInv => CallsBounded
<1> SUFFICES ASSUME BatchInv, pc \in {"initial", "call"} PROVE CallsBounded
  BY DEF BatchInv
<1>1. /\ slice \in Seq(Samples) /\ stack \in Seq(Seq(Samples)) /\ calls \in Nat
      /\ request.kind \in {"teacher", "partial_repair"} /\ request.tries \in 0 .. Transport
  BY DEF BatchInv, TypeOK, Ended
<1>2. PICK b : Cutting(b)
  BY DEF BatchInv, StackOK
<1> DEFINE n == Len(slice)
           L == Len(stack)
<1>3. L \in Nat /\ n \in Nat /\ b[1] \in 0 .. n /\ b[1] + L <= n
  BY <1>1, <1>2, CutsFacts DEF Cutting
<1>4. PICK to \in Nat : to = b[1]
  BY <1>3
<1> HIDE DEF n, L
<1>5. calls <= Budget(3 * n - 1)
  <2>1. CASE pc = "initial"
    <3>1. calls <= Budget(3 * to + L - 1)
      BY <1>2, <1>4, <2>1 DEF Cutting, Settled, L
    <3>2. PICK u \in Int : u = 3 * to + L - 1
      BY <1>3, <1>4
    <3>3. 3 * n - 1 \in Int /\ u <= 3 * n - 1
      BY <1>3, <1>4, <3>2
    <3>4. Budget(u) <= Budget(3 * n - 1) /\ Budget(3 * n - 1) \in Int /\ Budget(u) \in Int
      BY <3>3, BudgetFacts
    <3>5. QED
      BY <1>1, <3>1, <3>2, <3>4
  <2>2. CASE pc = "call" /\ request.kind = "teacher"
    <3>1. PICK a \in 0 .. to - 1 : calls <= Budget(3 * a + L) + request.tries
      BY <1>2, <1>4, <2>2 DEF Cutting, Asking, L
    <3>2. PICK u \in Int : u = 3 * a + L
      BY <1>3, <1>4
    <3>3. u + 1 \in Int /\ 3 * n - 1 \in Int /\ u + 1 <= 3 * n - 1
      BY <1>3, <1>4, <3>2
    <3>4. Budget(u + 1) = Budget(u) + Transport + 1 /\ Budget(u) \in Int
      BY BudgetFacts
    <3>5. Budget(u + 1) <= Budget(3 * n - 1) /\ Budget(3 * n - 1) \in Int
      BY <3>3, BudgetFacts
    <3>6. Transport \in Nat
      BY BudgetFacts
    <3>7. QED
      BY <1>1, <3>1, <3>2, <3>4, <3>5, <3>6
  <2>3. CASE pc = "call" /\ request.kind = "partial_repair"
    <3>1. calls <= Budget(3 * to + L - 2) + request.tries
      BY <1>2, <1>4, <2>3 DEF Cutting, Asking, L
    <3>2. PICK u \in Int : u = 3 * to + L - 2
      BY <1>3, <1>4
    <3>3. u + 1 \in Int /\ 3 * n - 1 \in Int /\ u + 1 <= 3 * n - 1
      BY <1>3, <1>4, <3>2
    <3>4. Budget(u + 1) = Budget(u) + Transport + 1 /\ Budget(u) \in Int
      BY BudgetFacts
    <3>5. Budget(u + 1) <= Budget(3 * n - 1) /\ Budget(3 * n - 1) \in Int
      BY <3>3, BudgetFacts
    <3>6. Transport \in Nat
      BY BudgetFacts
    <3>7. QED
      BY <1>1, <3>1, <3>2, <3>4, <3>5, <3>6
  <2>4. QED
    BY <1>1, <2>1, <2>2, <2>3
<1>6. QED
  BY <1>5 DEF CallsBounded, Budget, n

\* Only a kill damages a line, and then no run takes up a raw file with such a line.
LEMMA LinesStep == LinesOK /\ [Next]_vars => LinesOK'
<1> SUFFICES ASSUME LinesOK, [Next]_vars PROVE LinesOK'
  OBVIOUS
<1>1. CASE Start
  BY <1>1 DEF Start, files, LinesOK, Ended
<1>2. CASE Kill
  BY <1>2 DEF Kill, LinesOK, Ended
<1>3. CASE Step
  <2>1. torn' \subseteq torn /\ damaged' = damaged
    BY <1>3
       DEF Step, files, AppendRow, AppendRaw, AppendLabel, TakeSlice, Report, ProcessInitial,
           ReturnOutcomes, CallFails, Catastrophic, Parsed, RepairParsed, ProcessingRaises,
           SlicePersisted
  <2>2. pc \notin Ended
    BY <1>3
       DEF Step, Ended, AppendRaw, AppendLabel, TakeSlice, Report, ProcessInitial,
           ReturnOutcomes, CallFails, Catastrophic, Parsed, RepairParsed, ProcessingRaises,
           SlicePersisted
  <2>3. QED
    BY <2>1, <2>2 DEF LinesOK
<1>4. CASE UNCHANGED vars
  BY <1>4 DEF vars, LinesOK
<1>5. QED
  BY <1>1, <1>2, <1>3, <1>4 DEF Next

\* A step that changes nothing keeps the invariant.
LEMMA StutterInv == BatchInv /\ UNCHANGED vars => BatchInv'
<1> SUFFICES ASSUME BatchInv, UNCHANGED vars PROVE BatchInv'
  OBVIOUS
<1> USE DEF vars
<1>1. TypeOK'
  BY DEF BatchInv, TypeOK, Ended
<1>2. QueueOK' /\ SavedOK' /\ RowsOK'
  BY DEF BatchInv, QueueOK, SavedOK, RowsOK
<1>3. LeftOK'
  BY DEF BatchInv, LeftOK, Waiting
<1>4. StackOK'
  BY DEF BatchInv, StackOK, Cutting, Settled, Asking, Requested
<1>5. CallsBounded'
  BY CallsFromStack DEF CallsBounded
<1>6. QED
  BY <1>1, <1>2, <1>3, <1>4, <1>5 DEF BatchInv

\* A kill keeps the files.
LEMMA KillInv == BatchInv /\ Kill => BatchInv'
<1> SUFFICES ASSUME BatchInv, Kill PROVE BatchInv'
  OBVIOUS
<1> USE DEF Kill, work, files
<1>1. TypeOK'
  <2>1. faults \in [starts : Nat, kills : Nat]
    BY DEF BatchInv, TypeOK, Ended
  <2>2. faults' \in [starts : Nat, kills : Nat]
    BY <2>1
  <2>3. torn' \subseteq Files /\ damaged' \subseteq Files
    <3>1. PICK cut \in SUBSET Writing : torn' = torn \cup cut /\ damaged' = damaged \cup cut
      OBVIOUS
    <3>2. Writing \subseteq Files
      BY DEF BatchInv, SavedOK, Writing, Files
    <3>3. QED
      BY <3>1, <3>2 DEF BatchInv, TypeOK
  <2>4. QED
    BY <2>2, <2>3 DEF BatchInv, TypeOK, Ended
<1>2. RowsOK'
  BY DEF BatchInv, RowsOK
<1>3. QueueOK' /\ LeftOK' /\ SavedOK' /\ StackOK'
  BY DEF QueueOK, LeftOK, SavedOK, StackOK, Ended
<1>4. CallsBounded'
  BY CallsFromStack DEF CallsBounded
<1>5. QED
  BY <1>1, <1>2, <1>3, <1>4 DEF BatchInv

-----------------------------------------------------------------------------
\* The types, one by one.
LEMMA Types ==
    ASSUME BatchInv
    PROVE  /\ samples \in Seq(Samples) /\ slice \in Seq(Samples) /\ unsaved \in Seq(Samples)
           /\ stack \in Seq(Seq(Samples))
           /\ request.subset \in Seq(Samples)
           /\ request.kind \in {"teacher", "partial_repair"}
           /\ request.tries \in 0 .. Transport
           /\ outcome \in [Samples -> LabelFiles \cup {"none", "api_failed"}]
           /\ calls \in Nat
           /\ rows \in [Files -> [Samples -> Nat]]
           /\ status \in [Samples -> {"none", "generated", "api_failed"}]
           /\ torn \subseteq Files /\ damaged \subseteq Files
           /\ faults \in [starts : Nat, kills : Nat]
BY DEF BatchInv, TypeOK, Ended

LEMMA NoRequestType ==
    NoRequest \in [kind : {"teacher", "partial_repair"}, subset : Seq(Samples),
                   tries : 0 .. Transport]
<1>1. <<>> \in Seq(Samples)
  BY EmptySeq
<1>2. 0 \in 0 .. Transport
  BY BudgetFacts
<1>3. QED
  BY <1>1, <1>2 DEF NoRequest

\* The input in its order.
LEMMA InputFacts ==
    /\ [k \in Samples |-> k] \in Seq(Samples)
    /\ Distinct([k \in Samples |-> k])
    /\ ToSet([k \in Samples |-> k]) = Samples
<1> DEFINE q == [k \in Samples |-> k]
<1>1. N \in Nat /\ Samples = 1 .. N
  BY ConstantsAssumption DEF Samples
<1>2. q \in Seq(Samples) /\ Len(q) = N
  BY <1>1
<1>3. \A k \in 1 .. N : q[k] = k
  BY <1>1
<1> HIDE DEF q
<1>4. Distinct(q)
  BY <1>2, <1>3 DEF Distinct
<1>5. ToSet(q) = Samples
  <2>1. \A x : x \in ToSet(q) <=> \E i \in 1 .. N : q[i] = x
    BY <1>2, Elements
  <2>2. \A x : x \in ToSet(q) <=> x \in 1 .. N
    BY <1>3, <2>1
  <2>3. QED
    BY <1>1, <2>2
<1>6. QED
  BY <1>2, <1>4, <1>5 DEF q

\* A run takes up the samples without a raw row, in the order of the input.
LEMMA RefusedInv == BatchInv /\ Start /\ "raw" \in damaged => BatchInv'
<1> SUFFICES ASSUME BatchInv, Start, "raw" \in damaged PROVE BatchInv'
  OBVIOUS
<1> USE DEF Start, work, files
<1>1. TypeOK'
  <2>1. faults \in [starts : Nat, kills : Nat]
    BY DEF BatchInv, TypeOK
  <2>2. faults' \in [starts : Nat, kills : Nat]
    BY <2>1
  <2>3. QED
    BY <2>2 DEF BatchInv, TypeOK, Ended
<1>2. RowsOK'
  BY DEF BatchInv, RowsOK
<1>3. QueueOK' /\ LeftOK' /\ SavedOK' /\ StackOK'
  BY DEF QueueOK, LeftOK, SavedOK, StackOK, Ended
<1>4. CallsBounded'
  BY CallsFromStack DEF CallsBounded
<1>5. QED
  BY <1>1, <1>2, <1>3, <1>4 DEF BatchInv

LEMMA StartInv == BatchInv /\ Start => BatchInv'
<1> SUFFICES ASSUME BatchInv, Start, "raw" \notin damaged PROVE BatchInv'
  BY RefusedInv
<1> DEFINE new == {s \in Samples : rows["raw"][s] = 0}
<1>1. /\ pc' = "slice" /\ slice' = <<>> /\ stack' = <<>> /\ request' = NoRequest
      /\ samples' = Kept([k \in Samples |-> k], new)
      /\ outcome' = [s \in Samples |-> "none"]
      /\ calls' = 0 /\ unsaved' = <<>> /\ UNCHANGED <<rows, status, torn, damaged>>
      /\ faults' = [faults EXCEPT !.starts = @ + 1]
  BY DEF Start, Remaining, files
<1> HIDE DEF new
<1>2. samples' \in Seq(Samples) /\ Distinct(samples') /\ ToSet(samples') = Samples \cap new
  BY <1>1, InputFacts, KeptFacts
<1>3. /\ slice' \in Seq(Samples) /\ unsaved' \in Seq(Samples) /\ stack' \in Seq(Seq(Samples))
      /\ Len(slice') = 0
  BY <1>1, EmptySeq
<1>4. TypeOK'
  <2>1. faults \in [starts : Nat, kills : Nat]
    BY Types
  <2>2. faults' \in [starts : Nat, kills : Nat]
    BY <1>1, <2>1
  <2>3. request' \in [kind : {"teacher", "partial_repair"}, subset : Seq(Samples),
                      tries : 0 .. Transport]
    BY <1>1, NoRequestType
  <2>4. rows' \in [Files -> [Samples -> Nat]]
        /\ status' \in [Samples -> {"none", "generated", "api_failed"}]
        /\ torn' \subseteq Files /\ damaged' \subseteq Files
    BY <1>1, Types
  <2>5. outcome' \in [Samples -> LabelFiles \cup {"none", "api_failed"}]
    BY <1>1
  <2>6. QED
    BY <1>1, <1>2, <1>3, <2>2, <2>3, <2>4, <2>5 DEF TypeOK
<1>5. QueueOK'
  <2>1. \A x : x \notin ToSet(slice')
    <3>1. PICK q \in Seq(Samples) : q = slice' /\ Len(q) = 0
      BY <1>3
    <3>2. \A x : x \in ToSet(q) <=> \E i \in 1 .. Len(q) : q[i] = x
      BY Elements
    <3>3. QED
      BY <3>1, <3>2
  <2>2. Distinct(slice')
    BY <1>3 DEF Distinct
  <2>3. QED
    BY <1>1, <1>2, <2>1, <2>2 DEF QueueOK
<1>6. LeftOK'
  <2>1. Waiting' = {}
    BY <1>1 DEF Waiting
  <2>2. \A s \in Samples : rows'["raw"][s] = 0 <=> s \in ToSet(samples')
    BY <1>1, <1>2 DEF new
  <2>3. QED
    BY <1>1, <2>1, <2>2 DEF LeftOK
<1>7. RowsOK'
  BY <1>1 DEF BatchInv, RowsOK
<1>8. SavedOK' /\ StackOK' /\ CallsBounded'
  BY <1>1 DEF SavedOK, StackOK, CallsBounded
<1>9. QED
  BY <1>4, <1>5, <1>6, <1>7, <1>8 DEF BatchInv

\* The report is written when the queue is empty.
LEMMA ReportInv == BatchInv /\ Report => BatchInv'
<1> SUFFICES ASSUME BatchInv, Report PROVE BatchInv'
  OBVIOUS
<1> USE DEF Report, work, files
<1>1. TypeOK'
  BY DEF BatchInv, TypeOK, Ended
<1>2. QueueOK' /\ SavedOK' /\ StackOK'
  BY DEF QueueOK, SavedOK, StackOK, Ended
<1>3. LeftOK'
  BY DEF BatchInv, LeftOK, Waiting
<1>4. RowsOK'
  BY DEF BatchInv, RowsOK
<1>5. CallsBounded'
  BY CallsFromStack DEF CallsBounded
<1>6. QED
  BY <1>1, <1>2, <1>3, <1>4, <1>5 DEF BatchInv

\* The next slice is taken from the front of the queue and cut into chunks.
LEMMA TakeSliceInv == BatchInv /\ TakeSlice => BatchInv'
<1> SUFFICES ASSUME BatchInv, TakeSlice PROVE BatchInv'
  OBVIOUS
<1>1. PICK size : size = IF Len(samples) < BatchSize THEN Len(samples) ELSE BatchSize
  OBVIOUS
<1>2. /\ pc = "slice" /\ samples # <<>>
      /\ slice' = SubSeq(samples, 1, size)
      /\ samples' = SubSeq(samples, size + 1, Len(samples))
      /\ stack' = Chunks(slice')
      /\ calls' = 0 /\ pc' = "initial"
      /\ UNCHANGED <<request, outcome, unsaved, rows, status, torn, damaged, faults>>
  BY <1>1 DEF TakeSlice, files
<1>3. size \in 1 .. Len(samples)
  <2>1. samples \in Seq(Samples)
    BY Types
  <2>2. Len(samples) \in Nat \ {0}
    BY <1>2, <2>1, EmptySeq
  <2>3. BatchSize \in Nat \ {0}
    BY ConstantsAssumption
  <2>4. QED
    BY <1>1, <2>2, <2>3
<1>4. Distinct(samples) /\ \A s \in ToSet(samples) : outcome[s] = "none"
  BY <1>2 DEF BatchInv, QueueOK, Ended
<1>5. /\ slice' \in Seq(Samples) /\ samples' \in Seq(Samples) /\ Len(slice') = size
      /\ Distinct(slice') /\ Distinct(samples')
      /\ \A x : x \in ToSet(samples) <=> x \in ToSet(slice') \/ x \in ToSet(samples')
      /\ ToSet(slice') \cap ToSet(samples') = {}
  <2>1. samples \in Seq(Samples) /\ size \in 0 .. Len(samples)
    BY <1>3, Types
  <2>2. QED
    BY <1>2, <1>4, <2>1, FirstAndRest
<1>6. PICK q \in Seq(Samples) : q = slice'
  BY <1>5
<1>7. /\ Chunks(q) \in Seq(Seq(Samples))
      /\ \E b : Cuts(Chunks(q), q, b, Len(q)) /\ b[1] = 0
  BY ChunksCut
<1>8. TypeOK'
  BY <1>2, <1>5, <1>6, <1>7 DEF BatchInv, TypeOK, Ended
<1>9. QueueOK'
  BY <1>2, <1>4, <1>5 DEF QueueOK
<1>10. LeftOK'
  <2>1. Waiting = {} /\ Waiting' = ToSet(slice')
    BY <1>2 DEF Waiting
  <2>2. QED
    BY <1>2, <1>5, <2>1 DEF BatchInv, LeftOK
<1>11. SavedOK' /\ RowsOK'
  BY <1>2 DEF BatchInv, SavedOK, RowsOK
<1>12. StackOK'
  <2>1. PICK b : Cuts(Chunks(q), q, b, Len(q)) /\ b[1] = 0
    BY <1>7
  <2>2. Len(q) \in Nat /\ Len(q) = size /\ q # <<>>
    BY <1>3, <1>5, <1>6, EmptySeq, LenProperties
  <2>3. Len(Chunks(q)) \in Nat /\ Len(Chunks(q)) >= 1
    <3>1. Len(Chunks(q)) \in Nat /\ (Chunks(q) = <<>> => b[1] = Len(q))
      BY <1>7, <2>1, CutsFacts
    <3>2. Chunks(q) # <<>>
      BY <1>3, <2>1, <2>2, <3>1
    <3>3. QED
      BY <1>7, <3>2, EmptySeq
  <2>4. Settled(b[1])'
    <3>1. calls' = 0 /\ stack' = Chunks(q) /\ 1 .. b[1] = {}
      BY <1>2, <1>6, <2>1
    <3>2. PICK u \in Nat : u = 3 * b[1] + Len(Chunks(q)) - 1
      BY <2>1, <2>3
    <3>3. Budget(u) \in Nat
      BY BudgetFacts
    <3>4. Budget(3 * b[1] + Len(stack') - 1) = Budget(u)
      BY <3>1, <3>2
    <3>5. QED
      BY <3>1, <3>3, <3>4 DEF Settled, Budget
  <2>5. \A i \in b[1] + 1 .. Len(slice') : outcome'[slice'[i]] = "none"
    <3>1. \A x : x \in ToSet(q) <=> \E i \in 1 .. Len(q) : q[i] = x
      BY Elements
    <3>2. \A i \in b[1] + 1 .. Len(q) : q[i] \in ToSet(q)
      BY <2>1, <2>2, <3>1
    <3>3. QED
      BY <1>2, <1>4, <1>5, <1>6, <3>2
  <2>6. Cutting(b)'
    BY <1>2, <1>6, <2>1, <2>4, <2>5 DEF Cutting
  <2>7. b \in [1 .. Len(stack') + 1 -> 0 .. Len(slice')]
    BY <1>2, <1>6, <2>1 DEF Cuts
  <2>8. slice' # <<>>
    BY <1>6, <2>2
  <2>9. QED
    BY <2>6, <2>7, <2>8 DEF StackOK
<1>13. QED
  BY <1>2, <1>8, <1>9, <1>10, <1>11, <1>12 DEF BatchInv

\* A slice without repetitions has its samples at one place each.
LEMMA SlicePlaces ==
    ASSUME BatchInv, pc \notin Ended
    PROVE  /\ Len(slice) \in Nat /\ Distinct(slice)
           /\ \A i \in 1 .. Len(slice) : slice[i] \in Samples /\ slice[i] \in ToSet(slice)
           /\ \A i, j \in 1 .. Len(slice) : slice[i] = slice[j] => i = j
           /\ \A s \in ToSet(slice) : \E i \in 1 .. Len(slice) : slice[i] = s
<1>1. slice \in Seq(Samples) /\ Distinct(slice)
  BY Types DEF BatchInv, QueueOK
<1>2. /\ Len(slice) \in Nat
      /\ \A x : x \in ToSet(slice) <=> \E i \in 1 .. Len(slice) : slice[i] = x
  BY <1>1, Elements
<1>3. \A i \in 1 .. Len(slice) : slice[i] \in Samples
  BY <1>1, ElementOfSeq
<1>4. QED
  BY <1>1, <1>2, <1>3 DEF Distinct

\* The next subset becomes a teacher request.
LEMMA ProcessInitialInv == BatchInv /\ ProcessInitial => BatchInv'
<1> SUFFICES ASSUME BatchInv, ProcessInitial PROVE BatchInv'
  OBVIOUS
<1>1. /\ pc = "initial" /\ pc' = "call" /\ stack # <<>>
      /\ request' = [kind |-> "teacher", subset |-> Head(stack), tries |-> 0]
      /\ stack' = Tail(stack)
      /\ UNCHANGED <<samples, slice, outcome, calls, unsaved, rows, status, torn, damaged,
                     faults>>
  BY DEF ProcessInitial, work, files
<1>2. stack \in Seq(Seq(Samples)) /\ slice \in Seq(Samples) /\ calls \in Nat
  BY Types
<1>3. Head(stack) \in Seq(Samples) /\ Tail(stack) \in Seq(Seq(Samples))
  BY <1>1, <1>2, HeadTailProperties
<1>4. TypeOK'
  <2>1. 0 \in 0 .. Transport
    BY BudgetFacts
  <2>2. request' \in [kind : {"teacher", "partial_repair"}, subset : Seq(Samples),
                      tries : 0 .. Transport]
    BY <1>1, <1>3, <2>1
  <2>3. QED
    BY <1>1, <1>3, <2>2 DEF BatchInv, TypeOK, Ended
<1>5. QueueOK' /\ LeftOK' /\ SavedOK' /\ RowsOK'
  BY <1>1 DEF BatchInv, QueueOK, LeftOK, SavedOK, RowsOK, Waiting, Ended
<1>6. StackOK'
  <2>1. PICK b : Cutting(b)
    BY <1>1 DEF BatchInv, StackOK
  <2>2. /\ Cuts(stack, slice, b, Len(slice))
        /\ \A i \in b[1] + 1 .. Len(slice) : outcome[slice[i]] = "none"
        /\ \A i \in 1 .. b[1] : outcome[slice[i]] # "none"
        /\ calls <= Budget(3 * b[1] + Len(stack) - 1)
    BY <1>1, <2>1 DEF Cutting, Settled
  <2>3. PICK e : /\ Cuts(stack', slice, e, Len(slice))
                 /\ Segment(Head(stack), slice, b[1], e[1])
                 /\ b[1] < e[1]
    BY <1>1, <1>2, <2>2, CutsTail
  <2>4. PICK from \in Nat, to \in Nat : from = b[1] /\ to = e[1]
    BY <2>3 DEF Segment
  <2>5. from < to /\ to <= Len(slice) /\ Len(slice) \in Nat
    BY <1>2, <2>3, <2>4, LenProperties DEF Segment
  <2>6. \A x : x \in Requested' <=> \E i \in from + 1 .. to : slice[i] = x
    <3>1. Requested' = ToSet(Head(stack))
      BY <1>1 DEF Requested
    <3>2. QED
      BY <1>2, <2>3, <2>4, <3>1, SegmentElements
  <2>7. \A i \in 1 .. to : slice[i] \in Requested' <=> outcome'[slice'[i]] = "none"
    <3> TAKE i \in 1 .. to
    <3>1. i \in 1 .. Len(slice) /\ from + 1 .. to \subseteq 1 .. Len(slice)
      BY <2>5
    <3>2. \A j \in 1 .. Len(slice) : slice[i] = slice[j] => i = j
      BY <1>1, <3>1, SlicePlaces DEF Ended
    <3>3. CASE i <= from
      <4>1. outcome[slice[i]] # "none"
        BY <2>2, <2>4, <3>3
      <4>2. slice[i] \notin Requested'
        BY <2>6, <3>1, <3>2, <3>3
      <4>3. QED
        BY <1>1, <4>1, <4>2
    <3>4. CASE i > from
      <4>1. i \in from + 1 .. to /\ i \in b[1] + 1 .. Len(slice)
        BY <2>4, <2>5, <3>4
      <4>2. outcome[slice[i]] = "none" /\ slice[i] \in Requested'
        BY <2>2, <2>6, <4>1
      <4>3. QED
        BY <1>1, <4>2
    <3>5. QED
      BY <2>4, <3>3, <3>4
  <2>8. \A s \in Requested' : \E i \in 1 .. to : slice'[i] = s
    <3>1. \A i \in from + 1 .. to : i \in 1 .. to
      BY <2>4
    <3>2. QED
      BY <1>1, <2>6, <3>1
  <2>9. calls' <= Budget(3 * from + Len(stack')) + request'.tries
    <3>1. Len(stack) \in Nat /\ Len(stack') = Len(stack) - 1
      BY <1>1, <1>2, HeadTailProperties, LenProperties
    <3>2. PICK u \in Int : u = 3 * from + Len(stack) - 1
      BY <2>4, <3>1
    <3>3. 3 * from + Len(stack') = u
      BY <2>4, <3>1, <3>2
    <3>4. Budget(u) \in Int /\ request'.tries = 0 /\ calls' <= Budget(u)
      BY <1>1, <2>2, <2>4, <3>2, BudgetFacts
    <3>5. Budget(3 * from + Len(stack')) = Budget(u)
      BY <3>3
    <3>6. QED
      BY <1>1, <1>2, <3>4, <3>5 DEF Budget
  <2>10. Asking(to)'
    <3>1. request'.kind = "teacher" /\ request'.subset = Head(stack)
      BY <1>1
    <3>2. from \in 0 .. to - 1
      BY <2>4, <2>5
    <3>3. Segment(request'.subset, slice', from, to)
      BY <1>1, <2>3, <2>4, <3>1
    <3>4. \A i \in 1 .. from : outcome'[slice'[i]] # "none"
      BY <1>1, <2>2, <2>4
    <3>5. calls' <= (Transport + 1) * (3 * from + Len(stack')) + request'.tries
      BY <2>9 DEF Budget
    <3>6. \A i \in 1 .. to : slice'[i] \in Requested' <=> outcome'[slice'[i]] = "none"
      BY <1>1, <2>7
    <3>7. QED
      BY <2>8, <3>1, <3>2, <3>3, <3>4, <3>5, <3>6 DEF Asking, Budget
  <2>11. Cutting(e)'
    <3>1. \A i \in to + 1 .. Len(slice) : i \in from + 1 .. Len(slice)
      BY <2>4, <2>5
    <3>2. \A i \in e[1] + 1 .. Len(slice') : outcome'[slice'[i]] = "none"
      BY <1>1, <2>2, <2>4, <3>1
    <3>3. QED
      BY <1>1, <2>3, <2>4, <2>10, <3>2 DEF Cutting
  <2>12. e \in [1 .. Len(stack') + 1 -> 0 .. Len(slice')]
    BY <1>1, <2>3 DEF Cuts
  <2>13. slice' # <<>>
    BY <1>1 DEF BatchInv, StackOK
  <2>14. QED
    BY <2>11, <2>12, <2>13 DEF StackOK
<1>7. QED
  BY <1>1, <1>4, <1>5, <1>6 DEF BatchInv

\* All subsets are settled: so are all samples of the slice.
LEMMA ReturnOutcomesInv == BatchInv /\ ReturnOutcomes => BatchInv'
<1> SUFFICES ASSUME BatchInv, ReturnOutcomes PROVE BatchInv'
  OBVIOUS
<1>1. /\ pc = "initial" /\ pc' = "raw" /\ stack = <<>> /\ unsaved' = slice
      /\ UNCHANGED <<samples, slice, stack, request, outcome, calls, rows, status, torn, damaged,
                     faults>>
  BY DEF ReturnOutcomes, work, files
<1>2. TypeOK'
  BY <1>1 DEF BatchInv, TypeOK, Ended
<1>3. QueueOK' /\ LeftOK' /\ RowsOK' /\ StackOK'
  BY <1>1 DEF BatchInv, QueueOK, LeftOK, RowsOK, StackOK, Waiting, Ended
<1>4. SavedOK'
  <2>1. PICK b : Cutting(b)
    BY <1>1 DEF BatchInv, StackOK
  <2>2. b[1] = Len(slice)
    <3>1. stack \in Seq(Seq(Samples)) /\ slice \in Seq(Samples)
      BY Types
    <3>2. Cuts(stack, slice, b, Len(slice))
      BY <2>1 DEF Cutting
    <3>3. stack = <<>> => b[1] = Len(slice)
      BY <3>1, <3>2, CutsFacts
    <3>4. QED
      BY <1>1, <3>3
  <2>3. \A i \in 1 .. Len(slice) : outcome[slice[i]] # "none"
    BY <1>1, <2>1, <2>2 DEF Cutting, Settled
  <2>4. \A s \in ToSet(slice) : outcome[s] # "none"
    BY <1>1, <2>3, SlicePlaces DEF Ended
  <2>5. Distinct(slice)
    BY <1>1, SlicePlaces DEF Ended
  <2>6. QED
    BY <1>1, <2>4, <2>5 DEF SavedOK
<1>5. CallsBounded'
  BY <1>1, CallsFromStack DEF CallsBounded
<1>6. QED
  BY <1>2, <1>3, <1>4, <1>5 DEF BatchInv

\* The rows of the slice are all appended.
LEMMA SlicePersistedInv == BatchInv /\ SlicePersisted => BatchInv'
<1> SUFFICES ASSUME BatchInv, SlicePersisted PROVE BatchInv'
  OBVIOUS
<1> USE DEF SlicePersisted, work, files
<1>1. TypeOK'
  BY DEF BatchInv, TypeOK, Ended
<1>2. QueueOK' /\ SavedOK' /\ RowsOK' /\ StackOK'
  BY DEF BatchInv, QueueOK, SavedOK, RowsOK, StackOK, Ended
<1>3. LeftOK'
  <2>1. \A x : x \notin ToSet(unsaved)
    <3>1. PICK q \in Seq(Samples) : q = unsaved /\ Len(q) = 0
      BY Types, EmptySeq
    <3>2. \A x : x \in ToSet(q) <=> \E i \in 1 .. Len(q) : q[i] = x
      BY Elements
    <3>3. QED
      BY <3>1, <3>2
  <2>2. QED
    BY <2>1 DEF BatchInv, LeftOK, Waiting
<1>4. CallsBounded'
  BY CallsFromStack DEF CallsBounded
<1>5. QED
  BY <1>1, <1>2, <1>3, <1>4 DEF BatchInv

\* The next raw row of the slice: its sample had none, and is left to label if it is to be.
LEMMA AppendRawFacts ==
    ASSUME BatchInv, LinesOK, AppendRaw
    PROVE  \E s \in Samples :
               /\ s = Head(unsaved) /\ pc = "raw"
               /\ rows["raw"][s] = 0 /\ \A f \in LabelFiles : rows[f][s] = 0
               /\ rows' \in [Files -> [Samples -> Nat]]
               /\ rows'["raw"][s] = 1
               /\ \A r \in Samples \ {s} : rows'["raw"][r] = rows["raw"][r]
               /\ \A f \in LabelFiles : rows'[f] = rows[f]
               /\ status' \in [Samples -> {"none", "generated", "api_failed"}]
               /\ \A r \in Samples \ {s} : status'[r] = status[r]
               /\ torn' = torn
               /\ \/ /\ outcome[s] \in LabelFiles
                     /\ pc' = "label" /\ unsaved' = unsaved /\ status'[s] = "generated"
                  \/ /\ outcome[s] \notin LabelFiles
                     /\ pc' = "raw" /\ unsaved' = Tail(unsaved) /\ status'[s] = "api_failed"
<1>1. PICK s : s = Head(unsaved)
  OBVIOUS
<1>2. /\ pc = "raw" /\ unsaved # <<>>
      /\ rows' = [rows EXCEPT !["raw"][s] = @ + 1] /\ torn' = torn
      /\ status' = [status EXCEPT ![s] = IF outcome[s] \in LabelFiles THEN "generated"
                                                                      ELSE "api_failed"]
      /\ IF outcome[s] \in LabelFiles THEN pc' = "label" /\ unsaved' = unsaved
                                      ELSE pc' = "raw" /\ unsaved' = Tail(unsaved)
  <2>1. pc = "raw" /\ AppendRow("raw", s)
    BY <1>1 DEF AppendRaw
  <2>2. "raw" \notin torn
    BY <2>1 DEF LinesOK, Ended
  <2>3. QED
    BY <1>1, <2>1, <2>2 DEF AppendRaw, AppendRow
<1>3. s \in Samples /\ s \in ToSet(unsaved)
  BY <1>1, <1>2, Types, HeadAndTail
<1>4. /\ rows \in [Files -> [Samples -> Nat]]
      /\ status \in [Samples -> {"none", "generated", "api_failed"}]
  BY Types
<1>5. "raw" \in Files /\ LabelFiles \subseteq Files /\ "raw" \notin LabelFiles
  BY DEF Files, LabelFiles
<1>6. rows["raw"][s] = 0
  <2>1. Waiting = ToSet(unsaved)
    BY <1>2 DEF Waiting
  <2>2. QED
    BY <1>2, <1>3, <2>1 DEF BatchInv, LeftOK
<1>7. \A f \in LabelFiles : rows[f][s] = 0
  BY <1>3, <1>6 DEF BatchInv, RowsOK
<1>8. rows' \in [Files -> [Samples -> Nat]] /\ rows'["raw"][s] = 1
  BY <1>2, <1>3, <1>4, <1>5, <1>6
<1>9. /\ \A r \in Samples \ {s} : rows'["raw"][r] = rows["raw"][r]
      /\ \A f \in LabelFiles : rows'[f] = rows[f]
  BY <1>2, <1>3, <1>4, <1>5
<1>10. /\ status' \in [Samples -> {"none", "generated", "api_failed"}]
       /\ \A r \in Samples \ {s} : status'[r] = status[r]
       /\ status'[s] = IF outcome[s] \in LabelFiles THEN "generated" ELSE "api_failed"
  BY <1>2, <1>3, <1>4
<1>11. QED
  BY <1>1, <1>2, <1>3, <1>6, <1>7, <1>8, <1>9, <1>10

LEMMA AppendRawInv == BatchInv /\ LinesOK /\ AppendRaw => BatchInv'
<1> SUFFICES ASSUME BatchInv, LinesOK, AppendRaw PROVE BatchInv'
  OBVIOUS
<1>1. PICK s \in Samples :
        /\ s = Head(unsaved) /\ pc = "raw"
        /\ rows["raw"][s] = 0 /\ \A f \in LabelFiles : rows[f][s] = 0
        /\ rows' \in [Files -> [Samples -> Nat]]
        /\ rows'["raw"][s] = 1
        /\ \A r \in Samples \ {s} : rows'["raw"][r] = rows["raw"][r]
        /\ \A f \in LabelFiles : rows'[f] = rows[f]
        /\ status' \in [Samples -> {"none", "generated", "api_failed"}]
        /\ \A r \in Samples \ {s} : status'[r] = status[r]
        /\ torn' = torn
        /\ \/ /\ outcome[s] \in LabelFiles
              /\ pc' = "label" /\ unsaved' = unsaved /\ status'[s] = "generated"
           \/ /\ outcome[s] \notin LabelFiles
              /\ pc' = "raw" /\ unsaved' = Tail(unsaved) /\ status'[s] = "api_failed"
  BY AppendRawFacts
<1>2. unsaved # <<>> /\ UNCHANGED <<samples, slice, stack, request, outcome, calls, damaged,
                                    faults>>
  BY DEF AppendRaw, work
<1>3. /\ unsaved \in Seq(Samples) /\ Distinct(unsaved) /\ ToSet(unsaved) \subseteq ToSet(slice)
      /\ \A r \in ToSet(slice) : outcome[r] # "none"
  BY <1>1, Types DEF BatchInv, SavedOK
<1>4. /\ Tail(unsaved) \in Seq(Samples) /\ Distinct(Tail(unsaved))
      /\ \A x : x \in ToSet(unsaved) <=> x = s \/ x \in ToSet(Tail(unsaved))
      /\ s \notin ToSet(Tail(unsaved))
  BY <1>1, <1>2, <1>3, HeadAndTail
<1>5. TypeOK'
  <2>1. unsaved' \in Seq(Samples) /\ pc' \in {"raw", "label"}
    BY <1>1, <1>3, <1>4
  <2>2. QED
    BY <1>1, <1>2, <2>1 DEF BatchInv, TypeOK, Ended
<1>6. QueueOK' /\ StackOK'
  BY <1>1, <1>2 DEF BatchInv, QueueOK, StackOK, Ended
<1>7. LeftOK'
  <2>1. Waiting = ToSet(unsaved) /\ Waiting' = ToSet(Tail(unsaved))
    BY <1>1 DEF Waiting
  <2>2. s \notin ToSet(samples)
    BY <1>1, <1>3, <1>4 DEF BatchInv, QueueOK, Ended
  <2>3. \A r \in Samples : rows["raw"][r] = 0 <=> r \in ToSet(samples) \cup ToSet(unsaved)
    BY <1>1, <2>1 DEF BatchInv, LeftOK
  <2>4. \A r \in Samples :
            rows'["raw"][r] = 0 <=> r \in ToSet(samples') \cup ToSet(Tail(unsaved))
    <3> TAKE r \in Samples
    <3>1. CASE r = s
      BY <1>1, <1>2, <1>4, <2>2, <3>1
    <3>2. CASE r # s
      <4>1. rows'["raw"][r] = rows["raw"][r] /\ samples' = samples
        BY <1>1, <1>2, <3>2
      <4>2. r \in ToSet(unsaved) <=> r \in ToSet(Tail(unsaved))
        BY <1>4, <3>2
      <4>3. QED
        BY <2>3, <4>1, <4>2
    <3>3. QED
      BY <3>1, <3>2
  <2>5. QED
    BY <1>1, <2>1, <2>4 DEF LeftOK
<1>8. SavedOK'
  <2>1. Distinct(unsaved') /\ ToSet(unsaved') \subseteq ToSet(slice')
    BY <1>1, <1>2, <1>3, <1>4
  <2>2. \A f \in LabelFiles : rows'[f][s] = 0
    BY <1>1
  <2>3. CASE pc' = "label"
    <3>1. unsaved' = unsaved /\ outcome[s] \in LabelFiles /\ status'[s] = "generated"
      BY <1>1, <2>3
    <3>2. Head(unsaved') = s /\ unsaved' # <<>>
      BY <1>1, <1>2, <3>1
    <3>3. QED
      BY <1>1, <1>2, <1>3, <2>1, <2>2, <3>1, <3>2 DEF SavedOK
  <2>4. CASE pc' = "raw"
    BY <1>2, <1>3, <2>1, <2>4 DEF SavedOK
  <2>5. QED
    BY <1>1, <2>3, <2>4
<1>9. RowsOK'
  <2> SUFFICES ASSUME NEW r \in Samples
               PROVE  /\ rows'["raw"][r] \in {0, 1}
                      /\ \A f \in LabelFiles : rows'[f][r] \in {0, 1}
                      /\ \A f, g \in LabelFiles :
                             rows'[f][r] = 1 /\ rows'[g][r] = 1 => f = g
                      /\ rows'["raw"][r] = 0 => \A f \in LabelFiles : rows'[f][r] = 0
                      /\ rows'["raw"][r] = 1 => status'[r] \in {"generated", "api_failed"}
                      /\ \A f \in LabelFiles : rows'[f][r] = 1 => status'[r] = "generated"
    BY DEF RowsOK
  <2>1. CASE r = s
    <3>1. \A f \in LabelFiles : rows'[f][s] = 0
      BY <1>1
    <3>2. rows'["raw"][s] = 1 /\ status'[s] \in {"generated", "api_failed"}
      BY <1>1
    <3>3. QED
      BY <2>1, <3>1, <3>2
  <2>2. CASE r # s
    <3>1. /\ rows'["raw"][r] = rows["raw"][r] /\ status'[r] = status[r]
          /\ \A f \in LabelFiles : rows'[f][r] = rows[f][r]
      BY <1>1, <2>2
    <3>2. QED
      BY <3>1 DEF BatchInv, RowsOK
  <2>3. QED
    BY <2>1, <2>2
<1>10. CallsBounded'
  BY <1>2, CallsFromStack DEF CallsBounded
<1>11. QED
  BY <1>5, <1>6, <1>7, <1>8, <1>9, <1>10 DEF BatchInv

\* The label row of a sample whose raw row is written.
LEMMA AppendLabelFacts ==
    ASSUME BatchInv, AppendLabel
    PROVE  \E s \in Samples : \E f \in LabelFiles :
               /\ s = Head(unsaved) /\ pc = "label" /\ pc' = "raw"
               /\ rows["raw"][s] = 1 /\ \A g \in LabelFiles : rows[g][s] = 0
               /\ status[s] = "generated"
               /\ rows' \in [Files -> [Samples -> Nat]]
               /\ \/ rows'[f][s] = 1 /\ torn' = torn
                  \/ rows' = rows /\ f \in torn /\ torn' = torn \ {f}
               /\ \A g \in Files \ {f} : rows'[g] = rows[g]
               /\ \A r \in Samples \ {s} : rows'[f][r] = rows[f][r]
<1>1. PICK s : s = Head(unsaved)
  OBVIOUS
<1>2. PICK f : f = outcome[s]
  OBVIOUS
<1>3. /\ pc = "label" /\ pc' = "raw"
      /\ \/ rows' = [rows EXCEPT ![f][s] = @ + 1] /\ torn' = torn
         \/ rows' = rows /\ f \in torn /\ torn' = torn \ {f}
  BY <1>1, <1>2 DEF AppendLabel, AppendRow
<1>4. /\ unsaved # <<>> /\ f \in LabelFiles /\ rows["raw"][s] = 1
      /\ \A g \in LabelFiles : rows[g][s] = 0
      /\ status[s] = "generated"
  BY <1>1, <1>2, <1>3 DEF BatchInv, SavedOK
<1>5. s \in Samples
  BY <1>1, <1>4, Types, HeadAndTail
<1>6. rows \in [Files -> [Samples -> Nat]] /\ f \in Files
  BY <1>4, Types DEF Files
<1>7. rows[f][s] = 0
  BY <1>4
<1>8. /\ rows' \in [Files -> [Samples -> Nat]]
      /\ \/ rows'[f][s] = 1 /\ torn' = torn
         \/ rows' = rows /\ f \in torn /\ torn' = torn \ {f}
      /\ \A g \in Files \ {f} : rows'[g] = rows[g]
      /\ \A r \in Samples \ {s} : rows'[f][r] = rows[f][r]
  BY <1>3, <1>5, <1>6, <1>7
<1>9. QED
  BY <1>1, <1>3, <1>4, <1>5, <1>8

LEMMA AppendLabelInv == BatchInv /\ AppendLabel => BatchInv'
<1> SUFFICES ASSUME BatchInv, AppendLabel PROVE BatchInv'
  OBVIOUS
<1>1. PICK s \in Samples : \E f \in LabelFiles :
        /\ s = Head(unsaved) /\ pc = "label" /\ pc' = "raw"
        /\ rows["raw"][s] = 1 /\ \A g \in LabelFiles : rows[g][s] = 0
        /\ status[s] = "generated"
        /\ rows' \in [Files -> [Samples -> Nat]]
        /\ \/ rows'[f][s] = 1 /\ torn' = torn
           \/ rows' = rows /\ f \in torn /\ torn' = torn \ {f}
        /\ \A g \in Files \ {f} : rows'[g] = rows[g]
        /\ \A r \in Samples \ {s} : rows'[f][r] = rows[f][r]
  BY AppendLabelFacts
<1>2. PICK f \in LabelFiles :
        /\ s = Head(unsaved) /\ pc = "label" /\ pc' = "raw"
        /\ rows["raw"][s] = 1 /\ \A g \in LabelFiles : rows[g][s] = 0
        /\ status[s] = "generated"
        /\ rows' \in [Files -> [Samples -> Nat]]
        /\ \/ rows'[f][s] = 1 /\ torn' = torn
           \/ rows' = rows /\ f \in torn /\ torn' = torn \ {f}
        /\ \A g \in Files \ {f} : rows'[g] = rows[g]
        /\ \A r \in Samples \ {s} : rows'[f][r] = rows[f][r]
  BY <1>1
<1>3. /\ unsaved' = Tail(unsaved)
      /\ UNCHANGED <<samples, slice, stack, request, outcome, calls, status, damaged,
                     faults>>
  BY DEF AppendLabel, work
<1>4. /\ unsaved \in Seq(Samples) /\ unsaved # <<>> /\ Distinct(unsaved)
      /\ ToSet(unsaved) \subseteq ToSet(slice)
      /\ \A r \in ToSet(slice) : outcome[r] # "none"
  BY <1>2, Types DEF BatchInv, SavedOK
<1>5. /\ Tail(unsaved) \in Seq(Samples) /\ Distinct(Tail(unsaved))
      /\ \A x : x \in ToSet(unsaved) <=> x = s \/ x \in ToSet(Tail(unsaved))
      /\ s \notin ToSet(Tail(unsaved))
  BY <1>2, <1>4, HeadAndTail
<1>6. "raw" \in Files \ {f} /\ LabelFiles \subseteq Files
  BY DEF Files, LabelFiles
<1>7. TypeOK'
  BY <1>2, <1>3, <1>5 DEF BatchInv, TypeOK, Ended
<1>8. QueueOK' /\ StackOK'
  BY <1>2, <1>3 DEF BatchInv, QueueOK, StackOK, Ended
<1>9. LeftOK'
  <2>1. Waiting = ToSet(Tail(unsaved)) /\ Waiting' = ToSet(Tail(unsaved))
    BY <1>2, <1>3 DEF Waiting
  <2>2. rows'["raw"] = rows["raw"]
    BY <1>2, <1>6
  <2>3. QED
    BY <1>2, <1>3, <2>1, <2>2 DEF BatchInv, LeftOK
<1>10. SavedOK'
  BY <1>2, <1>3, <1>4, <1>5 DEF SavedOK
<1>11. RowsOK'
  <2> SUFFICES ASSUME NEW r \in Samples
               PROVE  /\ rows'["raw"][r] \in {0, 1}
                      /\ \A g \in LabelFiles : rows'[g][r] \in {0, 1}
                      /\ \A g, h \in LabelFiles :
                             rows'[g][r] = 1 /\ rows'[h][r] = 1 => g = h
                      /\ rows'["raw"][r] = 0 => \A g \in LabelFiles : rows'[g][r] = 0
                      /\ rows'["raw"][r] = 1 => status'[r] \in {"generated", "api_failed"}
                      /\ \A g \in LabelFiles : rows'[g][r] = 1 => status'[r] = "generated"
    BY DEF RowsOK
  <2>1. CASE r = s
    <3>1. rows'[f][s] \in {0, 1} /\ \A g \in LabelFiles \ {f} : rows'[g][s] = 0
      BY <1>2, <1>6
    <3>2. rows'["raw"][s] = 1 /\ status'[s] = "generated"
      BY <1>2, <1>3, <1>6
    <3>3. QED
      BY <2>1, <3>1, <3>2
  <2>2. CASE r # s
    <3>1. /\ rows'["raw"][r] = rows["raw"][r] /\ status'[r] = status[r]
          /\ \A g \in LabelFiles : rows'[g][r] = rows[g][r]
      BY <1>2, <1>3, <1>6, <2>2
    <3>2. QED
      BY <3>1 DEF BatchInv, RowsOK
  <2>3. QED
    BY <2>1, <2>2
<1>12. CallsBounded'
  BY <1>3, CallsFromStack DEF CallsBounded
<1>13. QED
  BY <1>7, <1>8, <1>9, <1>10, <1>11, <1>12 DEF BatchInv

-----------------------------------------------------------------------------
\* Where a request under way stands.
LEMMA AskedFacts ==
    ASSUME BatchInv, pc = "call", NEW b, Cutting(b)
    PROVE  /\ Cuts(stack, slice, b, Len(slice)) /\ Asking(b[1])
           /\ b[1] \in Nat /\ Len(slice) \in Nat /\ b[1] <= Len(slice) /\ Len(stack) \in Nat
           /\ \A s \in Requested :
                  s \in Samples /\ s \in ToSet(slice) /\ outcome[s] = "none"
           /\ \A i \in b[1] + 1 .. Len(slice) :
                  /\ slice[i] \in Samples /\ slice[i] \notin Requested
                  /\ outcome[slice[i]] = "none"
<1>1. Cuts(stack, slice, b, Len(slice)) /\ Asking(b[1])
  BY DEF Cutting
<1>2. /\ b[1] \in Nat /\ Len(slice) \in Nat /\ b[1] <= Len(slice) /\ Len(stack) \in Nat
      /\ b[1] \in 0 .. Len(slice)
  <2>1. slice \in Seq(Samples) /\ stack \in Seq(Seq(Samples))
    BY Types
  <2>2. b[1] \in 0 .. Len(slice) /\ Len(slice) \in Nat /\ Len(stack) \in Nat
    BY <1>1, <2>1, CutsFacts
  <2>3. QED
    BY <2>2
<1>3. /\ \A i \in 1 .. Len(slice) : slice[i] \in Samples /\ slice[i] \in ToSet(slice)
      /\ \A i, j \in 1 .. Len(slice) : slice[i] = slice[j] => i = j
  BY SlicePlaces DEF Ended
<1>4. PICK to \in Nat : to = b[1]
  BY <1>2
<1>5. \A i \in 1 .. to : i \in 1 .. Len(slice)
  BY <1>2, <1>4
<1>6. /\ \A i \in 1 .. to : slice[i] \in Requested <=> outcome[slice[i]] = "none"
      /\ \A s \in Requested : \E i \in 1 .. to : slice[i] = s
  BY <1>1, <1>4 DEF Asking
<1>7. \A s \in Requested : s \in Samples /\ s \in ToSet(slice) /\ outcome[s] = "none"
  BY <1>3, <1>5, <1>6
<1>8. ASSUME NEW i \in to + 1 .. Len(slice)
      PROVE  slice[i] \in Samples /\ slice[i] \notin Requested /\ outcome[slice[i]] = "none"
  <2>1. i \in 1 .. Len(slice) /\ \A j \in 1 .. to : i # j
    BY <1>2, <1>4
  <2>2. \A j \in 1 .. to : slice[j] # slice[i]
    BY <1>3, <1>5, <2>1
  <2>3. outcome[slice[i]] = "none"
    BY <1>4 DEF Cutting
  <2>4. QED
    BY <1>3, <1>6, <2>1, <2>2, <2>3
<1>9. QED
  BY <1>1, <1>2, <1>4, <1>7, <1>8

\* One more call is within the budget of what will be settled then.
LEMMA OneMoreCall ==
    ASSUME BatchInv, pc = "call", NEW b, Cutting(b)
    PROVE  /\ calls + 1 <= Budget(3 * b[1] + Len(stack) - 1)
           /\ request.kind = "teacher" => calls + 1 <= Budget(3 * b[1] + Len(stack) - 2)
<1>1. /\ Asking(b[1]) /\ Len(stack) \in Nat
      /\ calls \in Nat /\ request.tries \in 0 .. Transport
      /\ request.kind \in {"teacher", "partial_repair"}
  BY AskedFacts, Types
<1>2. PICK to \in Nat : to = b[1]
  BY AskedFacts
<1>3. PICK L \in Nat : L = Len(stack)
  BY <1>1
<1>4. Transport \in Nat
  BY BudgetFacts
<1>5. PICK u \in Int : u = 3 * to + L - 2
  OBVIOUS
<1>6. 3 * to + L - 1 = u + 1
  BY <1>5
<1>7. Budget(u) \in Int /\ Budget(u + 1) \in Int /\ Budget(u + 1) = Budget(u) + Transport + 1
  <2>1. u + 1 \in Int
    OBVIOUS
  <2>2. QED
    BY <2>1, BudgetFacts
<1>8. CASE request.kind = "teacher"
  <2>1. PICK a \in 0 .. to - 1 : calls <= Budget(3 * a + L) + request.tries
    BY <1>1, <1>2, <1>3, <1>8 DEF Asking
  <2>2. PICK v \in Int : v = 3 * a + L
    OBVIOUS
  <2>3. v + 1 \in Int /\ v + 1 <= u
    BY <1>5, <2>2
  <2>4. /\ Budget(v) \in Int /\ Budget(v + 1) \in Int
        /\ Budget(v + 1) = Budget(v) + Transport + 1
        /\ Budget(v + 1) <= Budget(u)
    BY <2>3, BudgetFacts
  <2>5. calls <= Budget(v) + request.tries
    BY <2>1, <2>2
  <2>6. calls + 1 <= Budget(u) /\ Budget(u) <= Budget(u + 1)
    <3>1. PICK x \in Int, y \in Int, z \in Int :
              x = Budget(v) /\ y = Budget(v + 1) /\ z = Budget(u)
      BY <1>7, <2>4
    <3>2. calls + 1 <= z
      <4>1. calls \in Nat /\ request.tries \in 0 .. Transport
        BY <1>1
      <4>2. calls <= x + request.tries /\ y = x + Transport + 1 /\ y <= z
        BY <2>4, <2>5, <3>1
      <4>3. QED
        BY <1>4, <4>1, <4>2
    <3>3. z <= Budget(u + 1)
      BY <1>4, <1>7, <3>1
    <3>4. QED
      BY <3>1, <3>2, <3>3
  <2>7. calls + 1 <= Budget(u + 1)
    BY <1>1, <1>7, <2>6
  <2>8. QED
    BY <1>2, <1>3, <1>5, <1>6, <2>6, <2>7
<1>9. CASE request.kind = "partial_repair"
  <2>1. calls <= Budget(u) + request.tries
    BY <1>1, <1>2, <1>3, <1>5, <1>9 DEF Asking
  <2>2. calls + 1 <= Budget(u + 1)
    BY <1>1, <1>4, <1>7, <2>1
  <2>3. QED
    BY <1>2, <1>3, <1>6, <1>9, <2>2
<1>10. QED
  BY <1>1, <1>8, <1>9

\* What a call leaves alone.
LEMMA CallKeeps ==
    ASSUME BatchInv, pc = "call", pc' \in {"initial", "call"},
           UNCHANGED <<samples, slice, unsaved, rows, status, torn, damaged, faults>>,
           outcome' \in [Samples -> LabelFiles \cup {"none", "api_failed"}],
           \A s \in Samples : s \notin Requested => outcome'[s] = outcome[s],
           stack' \in Seq(Seq(Samples)),
           request' \in [kind : {"teacher", "partial_repair"}, subset : Seq(Samples),
                         tries : 0 .. Transport],
           calls' = calls + 1, StackOK'
    PROVE  BatchInv'
<1>1. TypeOK'
  <2>1. calls' \in Nat
    BY Types
  <2>2. QED
    BY <2>1 DEF BatchInv, TypeOK, Ended
<1>2. PICK b : Cutting(b)
  BY DEF BatchInv, StackOK
<1>3. QueueOK'
  <2>1. Requested \subseteq ToSet(slice)
    BY <1>2, AskedFacts
  <2>2. /\ Distinct(samples) /\ Distinct(slice)
        /\ ToSet(samples) \cap ToSet(slice) = {}
        /\ \A s \in ToSet(samples) : outcome[s] = "none"
    BY DEF BatchInv, QueueOK, Ended
  <2>3. ToSet(samples) \subseteq Samples
    BY Types, Elements
  <2>4. \A s \in ToSet(samples) : outcome'[s] = "none"
    BY <2>1, <2>2, <2>3
  <2>5. QED
    BY <2>2, <2>4 DEF QueueOK
<1>4. LeftOK'
  <2>1. Waiting = ToSet(slice) /\ Waiting' = ToSet(slice)
    BY DEF Waiting
  <2>2. QED
    BY <2>1 DEF BatchInv, LeftOK
<1>5. SavedOK' /\ RowsOK'
  BY DEF BatchInv, SavedOK, RowsOK
<1>6. QED
  BY <1>1, <1>3, <1>4, <1>5 DEF BatchInv

\* All samples of the request get an outcome.
LEMMA Resolved ==
    ASSUME BatchInv, pc = "call", pc' = "initial",
           UNCHANGED <<samples, slice, stack, unsaved, rows, status, torn, damaged,
                       faults>>,
           outcome' \in [Samples -> LabelFiles \cup {"none", "api_failed"}],
           \A s \in Samples : s \notin Requested => outcome'[s] = outcome[s],
           \A s \in Requested : outcome'[s] # "none",
           request' = NoRequest, calls' = calls + 1
    PROVE  BatchInv'
<1>1. PICK b \in [1 .. Len(stack) + 1 -> 0 .. Len(slice)] : Cutting(b)
  BY DEF BatchInv, StackOK
<1>2. /\ Cuts(stack, slice, b, Len(slice)) /\ Asking(b[1])
      /\ b[1] \in Nat /\ b[1] <= Len(slice) /\ Len(slice) \in Nat
      /\ \A i \in b[1] + 1 .. Len(slice) :
             /\ slice[i] \in Samples /\ slice[i] \notin Requested
             /\ outcome[slice[i]] = "none"
  BY <1>1, AskedFacts
<1>3. \A i \in b[1] + 1 .. Len(slice') : outcome'[slice'[i]] = "none"
  BY <1>2
<1>4. \A i \in 1 .. b[1] : outcome'[slice[i]] # "none"
  <2> TAKE i \in 1 .. b[1]
  <2>1. slice[i] \in Samples
    <3>1. i \in 1 .. Len(slice)
      BY <1>2
    <3>2. QED
      BY <3>1, SlicePlaces DEF Ended
  <2>2. slice[i] \in Requested <=> outcome[slice[i]] = "none"
    BY <1>2 DEF Asking
  <2>3. QED
    BY <2>1, <2>2
<1>5. Settled(b[1])'
  <2>1. calls' <= Budget(3 * b[1] + Len(stack) - 1)
    BY <1>1, OneMoreCall
  <2>2. QED
    BY <1>4, <2>1 DEF Settled, Budget
<1>6. Cutting(b)'
  BY <1>2, <1>3, <1>5 DEF Cutting
<1>7. StackOK'
  BY <1>1, <1>6 DEF BatchInv, StackOK
<1>8. QED
  BY <1>7, CallKeeps, NoRequestType, Types

\* The same request is made once more.
LEMMA Retried ==
    ASSUME BatchInv, pc = "call", request.tries < Transport,
           request' = [request EXCEPT !.tries = @ + 1], calls' = calls + 1,
           UNCHANGED <<pc, samples, slice, stack, outcome, unsaved, rows, status, torn, damaged,
                       faults>>
    PROVE  BatchInv'
<1>1. PICK b \in [1 .. Len(stack) + 1 -> 0 .. Len(slice)] : Cutting(b)
  BY DEF BatchInv, StackOK
<1>2. Asking(b[1]) /\ Cuts(stack, slice, b, Len(slice)) /\ b[1] \in Nat
      /\ Len(stack) \in Nat
  BY <1>1, AskedFacts
<1>3. request \in [kind : {"teacher", "partial_repair"}, subset : Seq(Samples),
                   tries : 0 .. Transport]
  BY DEF BatchInv, TypeOK, Ended
<1>4. /\ request'.kind = request.kind /\ request'.subset = request.subset
      /\ request'.tries = request.tries + 1
      /\ request' \in [kind : {"teacher", "partial_repair"}, subset : Seq(Samples),
                       tries : 0 .. Transport]
  <2>1. request.tries + 1 \in 0 .. Transport
    <3>1. request.tries \in 0 .. Transport /\ Transport \in Nat
      BY <1>3, BudgetFacts
    <3>2. QED
      BY <3>1
  <2>2. QED
    BY <1>3, <2>1
<1>5. Requested' = Requested
  BY <1>4 DEF Requested
<1>6. calls \in Nat /\ request.tries \in Nat
  BY Types
<1>7. Asking(b[1])'
  <2>1. PICK to \in Nat, L \in Nat : to = b[1] /\ L = Len(stack)
    BY <1>2
  <2>2. ASSUME NEW u \in Int, calls <= Budget(u) + request.tries
        PROVE  calls' <= Budget(u) + request'.tries
    <3>1. Budget(u) \in Int
      BY BudgetFacts
    <3>2. QED
      BY <1>4, <1>6, <2>2, <3>1
  <2>3. /\ \A i \in 1 .. to : slice'[i] \in Requested' <=> outcome'[slice'[i]] = "none"
        /\ \A s \in Requested' : \E i \in 1 .. to : slice'[i] = s
    BY <1>2, <1>5, <2>1 DEF Asking
  <2>4. ASSUME request'.kind = "teacher"
        PROVE  \E a \in 0 .. to - 1 :
                   /\ Segment(request'.subset, slice', a, to)
                   /\ \A i \in 1 .. a : outcome'[slice'[i]] # "none"
                   /\ calls' <= Budget(3 * a + L) + request'.tries
    <3>1. PICK a \in 0 .. to - 1 :
              /\ Segment(request.subset, slice, a, to)
              /\ \A i \in 1 .. a : outcome[slice[i]] # "none"
              /\ calls <= Budget(3 * a + L) + request.tries
      BY <1>2, <1>4, <2>1, <2>4 DEF Asking
    <3>2. 3 * a + L \in Int
      OBVIOUS
    <3>3. calls' <= Budget(3 * a + L) + request'.tries
      BY <2>2, <3>1, <3>2
    <3>4. QED
      BY <1>4, <3>1, <3>3
  <2>5. ASSUME request'.kind = "partial_repair"
        PROVE  calls' <= Budget(3 * to + L - 2) + request'.tries
    <3>1. calls <= Budget(3 * to + L - 2) + request.tries /\ 3 * to + L - 2 \in Int
      BY <1>2, <1>4, <2>1, <2>5 DEF Asking
    <3>2. QED
      BY <2>2, <3>1
  <2>6. QED
    BY <2>1, <2>3, <2>4, <2>5 DEF Asking, Budget
<1>8. Cutting(b)'
  BY <1>1, <1>7 DEF Cutting
<1>9. StackOK'
  BY <1>1, <1>8 DEF BatchInv, StackOK
<1>10. QED
  BY <1>4, <1>9, CallKeeps, Types

\* Two elements in front of a sequence are one in front of the other.
LEMMA PairInFront ==
    ASSUME NEW Q, NEW u \in Q, NEW v \in Q, NEW c \in Seq(Q)
    PROVE  /\ <<v>> \o c \in Seq(Q) /\ <<u, v>> \o c \in Seq(Q)
           /\ <<u, v>> \o c = <<u>> \o (<<v>> \o c)
           /\ Len(<<u, v>> \o c) = Len(c) + 2
<1>1. <<u>> \in Seq(Q) /\ <<v>> \in Seq(Q) /\ <<u, v>> \in Seq(Q)
  OBVIOUS
<1>2. /\ Len(<<u>>) = 1 /\ <<u>>[1] = u /\ Len(<<v>>) = 1 /\ <<v>>[1] = v
      /\ Len(<<u, v>>) = 2 /\ <<u, v>>[1] = u /\ <<u, v>>[2] = v
  OBVIOUS
<1> DEFINE x == <<u>>
           y == <<v>>
           z == <<u, v>>
<1>3. /\ x \in Seq(Q) /\ Len(x) = 1 /\ x[1] = u
      /\ y \in Seq(Q) /\ Len(y) = 1 /\ y[1] = v
      /\ z \in Seq(Q) /\ Len(z) = 2 /\ z[1] = u /\ z[2] = v
  BY <1>1, <1>2
<1> HIDE DEF x, y, z
<1>4. x \o y = z
  <2>1. /\ x \o y \in Seq(Q)
        /\ Len(x \o y) = Len(x) + Len(y)
        /\ \A i \in 1 .. Len(x) + Len(y) :
               (x \o y)[i] = IF i <= Len(x) THEN x[i] ELSE y[i - Len(x)]
    BY <1>3, ConcatProperties
  <2>2. Len(x \o y) = 2
    BY <1>3, <2>1
  <2>3. 1 \in 1 .. Len(x) + Len(y) /\ 2 \in 1 .. Len(x) + Len(y)
    BY <1>3
  <2>4. (x \o y)[1] = x[1] /\ (x \o y)[2] = y[1]
    BY <1>3, <2>1, <2>3
  <2>5. \A i \in 1 .. Len(x \o y) : (x \o y)[i] = z[i]
    BY <1>3, <2>2, <2>4
  <2>6. QED
    BY <1>3, <2>1, <2>2, <2>5, SeqEqual
<1>5. (x \o y) \o c = x \o (y \o c)
  <2>1. x \in Seq(Q) /\ y \in Seq(Q) /\ c \in Seq(Q)
    BY <1>3
  <2>2. \A s, t, w \in Seq(Q) : (s \o t) \o w = s \o (t \o w)
    <3> TAKE s, t, w \in Seq(Q)
    <3> QED
      BY ONLY ConcatAssociative, s \in Seq(Q), t \in Seq(Q), w \in Seq(Q)
  <2>3. QED
    BY <2>1, <2>2, Zenon
<1>6. y \o c \in Seq(Q) /\ z \o c \in Seq(Q) /\ Len(z \o c) = Len(z) + Len(c)
  BY <1>3, ConcatProperties
<1>7. Len(z \o c) = Len(c) + 2
  BY <1>3, <1>6, LenProperties
<1>8. z \o c = x \o (y \o c)
  BY <1>4, <1>5
<1>9. y \o c \in Seq(Q) /\ z \o c \in Seq(Q)
  BY <1>6
<1>10. QED
  BY <1>7, <1>8, <1>9, Zenon DEF x, y, z

\* Two consecutive parts u and v in front of those of c.
Pair(q, c, b, to, u, v, from, mid) ==
    /\ q \in Seq(Samples) /\ c \in Seq(Seq(Samples)) /\ Cuts(c, q, b, to)
    /\ Segment(u, q, from, mid) /\ Segment(v, q, mid, b[1])
    /\ from < mid /\ mid < b[1]

Paired(q, c, to, u, v, from) ==
    /\ <<u, v>> \o c \in Seq(Seq(Samples))
    /\ Len(<<u, v>> \o c) = Len(c) + 2
    /\ \E e : Cuts(<<u, v>> \o c, q, e, to) /\ e[1] = from

LEMMA CutsHalves ==
    ASSUME NEW q, NEW c, NEW b, NEW to, NEW u, NEW v, NEW from, NEW mid,
           Pair(q, c, b, to, u, v, from, mid)
    PROVE  Paired(q, c, to, u, v, from)
<1>0. /\ q \in Seq(Samples) /\ c \in Seq(Seq(Samples)) /\ Cuts(c, q, b, to)
      /\ Segment(u, q, from, mid) /\ Segment(v, q, mid, b[1])
      /\ from < mid /\ mid < b[1]
  BY DEF Pair
<1> DEFINE Q == Seq(Samples)
<1>1. u \in Q /\ v \in Q /\ c \in Seq(Q)
  BY <1>0 DEF Segment
<1> HIDE DEF Q
<1>2. /\ <<v>> \o c \in Seq(Q) /\ <<u, v>> \o c \in Seq(Q)
      /\ <<u, v>> \o c = <<u>> \o (<<v>> \o c)
      /\ Len(<<u, v>> \o c) = Len(c) + 2
  BY <1>1, PairInFront
<1>3. PICK d : Cuts(<<v>> \o c, q, d, to) /\ d[1] = mid
  BY <1>0, CutsCons
<1>4. PICK r \in Seq(Seq(Samples)) : r = <<v>> \o c
  BY <1>2 DEF Q
<1>5. Cuts(r, q, d, to) /\ Segment(u, q, from, d[1]) /\ from < d[1]
  BY <1>0, <1>3, <1>4
<1>6. \E e : Cuts(<<u>> \o r, q, e, to) /\ e[1] = from
  BY <1>0, <1>5, CutsCons
<1>7. \E e : Cuts(<<u, v>> \o c, q, e, to) /\ e[1] = from
  BY <1>2, <1>4, <1>6
<1>8. QED
  BY <1>2, <1>7, Zenon DEF Paired, Q

\* What is left to be asked for when the request is cut at middle.
Halved(middle) ==
    <<SubSeq(request.subset, 1, middle),
      SubSeq(request.subset, middle + 1, Len(request.subset))>> \o stack

\* Both halves of the request are still to be asked for.
LEMMA Bisected ==
    ASSUME BatchInv, pc = "call", pc' = "initial", request.kind = "teacher",
           UNCHANGED <<samples, slice, outcome, unsaved, rows, status, torn, damaged,
                       faults>>,
           NEW middle \in 1 .. Len(request.subset) - 1, stack' = Halved(middle),
           request' = NoRequest, calls' = calls + 1
    PROVE  BatchInv'
<1>1. PICK b \in [1 .. Len(stack) + 1 -> 0 .. Len(slice)] : Cutting(b)
  BY DEF BatchInv, StackOK
<1>2. /\ Cuts(stack, slice, b, Len(slice)) /\ Asking(b[1])
      /\ b[1] \in Nat /\ b[1] <= Len(slice) /\ Len(slice) \in Nat /\ Len(stack) \in Nat
      /\ \A i \in b[1] + 1 .. Len(slice) : outcome[slice[i]] = "none"
  BY <1>1, AskedFacts
<1>3. PICK to \in Nat, L \in Nat : to = b[1] /\ L = Len(stack)
  BY <1>2
<1>4. PICK a \in 0 .. to - 1 :
        /\ Segment(request.subset, slice, a, to)
        /\ \A i \in 1 .. a : outcome[slice[i]] # "none"
        /\ calls <= Budget(3 * a + L) + request.tries
  BY <1>2, <1>3 DEF Asking
<1>5. /\ slice \in Seq(Samples) /\ stack \in Seq(Seq(Samples)) /\ calls \in Nat
      /\ request.tries \in 0 .. Transport /\ Transport \in Nat
  BY Types, BudgetFacts
<1>6. PICK u, v : /\ u = SubSeq(request.subset, 1, middle)
                  /\ v = SubSeq(request.subset, middle + 1, Len(request.subset))
  OBVIOUS
<1>7. /\ Segment(u, slice, a, a + middle) /\ Segment(v, slice, a + middle, b[1])
      /\ a < a + middle /\ a + middle < b[1]
  BY <1>3, <1>4, <1>5, <1>6, SegmentHalves
<1>8. stack' = <<u, v>> \o stack
  BY <1>6 DEF Halved
<1>9. /\ <<u, v>> \o stack \in Seq(Seq(Samples))
      /\ Len(<<u, v>> \o stack) = Len(stack) + 2
      /\ \E e : Cuts(<<u, v>> \o stack, slice, e, Len(slice)) /\ e[1] = a
  <2>1. Pair(slice, stack, b, Len(slice), u, v, a, a + middle)
    BY <1>2, <1>5, <1>7, Zenon DEF Pair
  <2>2. Paired(slice, stack, Len(slice), u, v, a)
    BY <2>1, CutsHalves, Zenon
  <2>3. QED
    BY <2>2, Zenon DEF Paired
<1>10. stack' \in Seq(Seq(Samples)) /\ Len(stack') = L + 2
  BY <1>3, <1>8, <1>9
<1>11. PICK e : Cuts(stack', slice, e, Len(slice)) /\ e[1] = a
  BY <1>8, <1>9
<1>12. \A i \in e[1] + 1 .. Len(slice') : outcome'[slice'[i]] = "none"
  <2> SUFFICES ASSUME NEW i \in a + 1 .. Len(slice) PROVE outcome[slice[i]] = "none"
    BY <1>11
  <2>1. CASE i > to
    BY <1>2, <1>3, <2>1
  <2>2. CASE i <= to
    <3>1. i \in 1 .. to /\ i \in a + 1 .. to
      BY <1>3, <2>2
    <3>2. slice[i] \in Requested
      BY <1>4, <1>5, <3>1, SegmentElements DEF Requested
    <3>3. QED
      BY <1>2, <1>3, <3>1, <3>2 DEF Asking
  <2>3. QED
    BY <1>3, <2>1, <2>2
<1>13. Settled(e[1])'
  <2>1. PICK w \in Int : w = 3 * a + L
    OBVIOUS
  <2>2. 3 * a + Len(stack') - 1 = w + 1
    <3>1. Len(stack') = L + 2
      BY <1>10
    <3>2. QED
      BY <2>1, <3>1
  <2>3. Budget(w) \in Int /\ Budget(w + 1) = Budget(w) + Transport + 1
    BY BudgetFacts
  <2>4. calls <= Budget(w) + request.tries
    BY <1>4, <2>1
  <2>5. calls' <= Budget(w + 1)
    BY <1>5, <2>3, <2>4
  <2>6. calls' <= Budget(3 * a + Len(stack') - 1)
    BY <2>2, <2>5
  <2>7. QED
    BY <1>4, <1>11, <2>6 DEF Settled, Budget
<1>14. Cutting(e)'
  BY <1>11, <1>12, <1>13 DEF Cutting
<1>15. e \in [1 .. Len(stack') + 1 -> 0 .. Len(slice')]
  BY <1>11 DEF Cuts
<1>16. StackOK'
  BY <1>14, <1>15 DEF BatchInv, StackOK
<1>17. QED
  BY <1>10, <1>16, CallKeeps, NoRequestType, Types

\* The request has failed for good.
LEMMA GiveUpInv ==
    ASSUME BatchInv, pc = "call", GiveUp, calls' = calls + 1,
           UNCHANGED <<samples, slice, unsaved, rows, status, torn, damaged, faults>>
    PROVE  BatchInv'
<1>1. pc' = "initial" /\ request' = NoRequest
  BY DEF GiveUp
<1>2. PICK b : Cutting(b)
  BY DEF BatchInv, StackOK
<1>3. /\ request.kind \in {"teacher", "partial_repair"} /\ request.subset \in Seq(Samples)
      /\ outcome \in [Samples -> LabelFiles \cup {"none", "api_failed"}]
  BY Types
<1>4. ASSUME Settle(Requested, "rejected"), UNCHANGED stack PROVE BatchInv'
  <2>1. \A s \in Requested : s \in Samples
    BY <1>2, AskedFacts
  <2>2. /\ outcome' \in [Samples -> LabelFiles \cup {"none", "api_failed"}]
        /\ \A s \in Samples : s \notin Requested => outcome'[s] = outcome[s]
        /\ \A s \in Requested : outcome'[s] # "none"
    BY <1>3, <1>4, <2>1 DEF Settle, LabelFiles
  <2>3. QED
    BY <1>1, <1>4, <2>2, Resolved
<1>5. CASE request.kind = "partial_repair"
  BY <1>4, <1>5 DEF GiveUp
<1>6. CASE request.kind = "teacher" /\ ~(Len(request.subset) > 1)
  BY <1>4, <1>6 DEF GiveUp, Bisect
<1>7. CASE request.kind = "teacher" /\ Len(request.subset) > 1
  <2>1. PICK middle : middle = Len(request.subset) \div 2
    OBVIOUS
  <2>2. middle \in 1 .. Len(request.subset) - 1
    <3>1. PICK n \in Nat : n = Len(request.subset)
      BY <1>3, LenProperties
    <3>2. n > 1 /\ middle = n \div 2
      BY <1>7, <2>1, <3>1
    <3>3. n \div 2 \in 1 .. n - 1
      BY <3>2
    <3>4. QED
      BY <3>1, <3>2, <3>3
  <2>3. /\ stack' = <<SubSeq(request.subset, 1, middle),
                      SubSeq(request.subset, middle + 1, Len(request.subset))>> \o stack
        /\ UNCHANGED outcome
    BY <1>7, <2>1 DEF GiveUp, Bisect
  <2>4. stack' = Halved(middle)
    BY <2>3 DEF Halved
  <2>5. QED
    BY <1>1, <1>7, <2>2, <2>3, <2>4, Bisected
<1>8. QED
  BY <1>3, <1>5, <1>6, <1>7

LEMMA CallFailsInv == BatchInv /\ CallFails => BatchInv'
<1> SUFFICES ASSUME BatchInv, CallFails PROVE BatchInv'
  OBVIOUS
<1>1. /\ pc = "call" /\ calls' = calls + 1
      /\ UNCHANGED <<samples, slice, unsaved, rows, status, torn, damaged, faults>>
  BY DEF CallFails, work, files
<1>2. request.tries \in 0 .. Transport /\ Transport \in Nat
  BY Types, BudgetFacts
<1>3. CASE request.tries = 0 /\ request.kind = "teacher"
  <2>1. /\ Settle(Requested, "api_failed") /\ request' = NoRequest /\ pc' = "initial"
        /\ UNCHANGED stack
    BY <1>3 DEF CallFails
  <2>2. PICK b : Cutting(b)
    BY <1>1 DEF BatchInv, StackOK
  <2>3. \A s \in Requested : s \in Samples
    BY <1>1, <2>2, AskedFacts
  <2>4. /\ outcome' \in [Samples -> LabelFiles \cup {"none", "api_failed"}]
        /\ \A s \in Samples : s \notin Requested => outcome'[s] = outcome[s]
        /\ \A s \in Requested : outcome'[s] # "none"
    BY <2>1, <2>3, Types DEF Settle, LabelFiles
  <2>5. QED
    BY <1>1, <2>1, <2>4, Resolved
<1>4. CASE /\ ~(request.tries = 0 /\ request.kind = "teacher")
           /\ request.tries \in 1 .. Transport - 1
  <2>1. /\ request' = [request EXCEPT !.tries = @ + 1]
        /\ UNCHANGED <<outcome, stack, pc>>
    BY <1>4 DEF CallFails
  <2>2. request.tries < Transport
    BY <1>2, <1>4
  <2>3. QED
    BY <1>1, <2>1, <2>2, Retried
<1>5. CASE /\ ~(request.tries = 0 /\ request.kind = "teacher")
           /\ request.tries \notin 1 .. Transport - 1
  <2>1. GiveUp
    BY <1>5 DEF CallFails
  <2>2. QED
    BY <1>1, <2>1, GiveUpInv
<1>6. QED
  BY <1>3, <1>4, <1>5

LEMMA CatastrophicInv == BatchInv /\ Catastrophic => BatchInv'
<1> SUFFICES ASSUME BatchInv, Catastrophic PROVE BatchInv'
  OBVIOUS
<1>1. /\ pc = "call" /\ calls' = calls + 1
      /\ UNCHANGED <<samples, slice, unsaved, rows, status, torn, damaged, faults>>
  BY DEF Catastrophic, work, files
<1>2. CASE request.tries < Transport
  <2>1. /\ request' = [request EXCEPT !.tries = @ + 1]
        /\ UNCHANGED <<outcome, stack, pc>>
    BY <1>2 DEF Catastrophic
  <2>2. QED
    BY <1>1, <1>2, <2>1, Retried
<1>3. CASE ~(request.tries < Transport)
  <2>1. GiveUp
    BY <1>3 DEF Catastrophic
  <2>2. QED
    BY <1>1, <2>1, GiveUpInv
<1>4. QED
  BY <1>2, <1>3

\* What a reply settles and what is asked for again of it are the samples of the request.
LEMMA ParsedInv == BatchInv /\ Parsed => BatchInv'
<1> SUFFICES ASSUME BatchInv, Parsed PROVE BatchInv'
  OBVIOUS
<1>1. /\ pc = "call" /\ request.kind = "teacher" /\ calls' = calls + 1
      /\ UNCHANGED <<samples, slice, stack, unsaved, rows, status, torn, damaged, faults>>
  BY DEF Parsed, work, files
<1> DEFINE Failed(graph) ==
               Kept(request.subset,
                    {s \in Requested : graph[s] \in {"missing", "repairable"}})
           Read(graph, failed) ==
               /\ outcome' = [s \in Samples |->
                      IF s \notin Requested THEN outcome[s]
                      ELSE IF graph[s] = "valid" THEN "valid"
                      ELSE IF graph[s] = "semantic" THEN "rejected"
                      ELSE outcome[s]]
               /\ request' = IF failed = <<>> THEN NoRequest
                             ELSE [kind |-> "partial_repair", subset |-> failed, tries |-> 0]
               /\ pc' = IF failed = <<>> THEN "initial" ELSE "call"
<1>a. PICK graph \in Readings(request.subset) : Read(graph, Failed(graph))
  BY DEF Parsed
<1>b. PICK failed : failed = Failed(graph)
  OBVIOUS
<1>2. /\ failed = Kept(request.subset,
                       {s \in Requested : graph[s] \in {"missing", "repairable"}})
      /\ outcome' = [s \in Samples |->
             IF s \notin Requested THEN outcome[s]
             ELSE IF graph[s] = "valid" THEN "valid"
             ELSE IF graph[s] = "semantic" THEN "rejected"
             ELSE outcome[s]]
      /\ request' = IF failed = <<>> THEN NoRequest
                    ELSE [kind |-> "partial_repair", subset |-> failed, tries |-> 0]
      /\ pc' = IF failed = <<>> THEN "initial" ELSE "call"
  BY <1>a, <1>b
<1>3. /\ request.subset \in Seq(Samples) /\ stack \in Seq(Seq(Samples)) /\ calls \in Nat
      /\ outcome \in [Samples -> LabelFiles \cup {"none", "api_failed"}]
  BY Types
<1>4. PICK b \in [1 .. Len(stack) + 1 -> 0 .. Len(slice)] : Cutting(b)
  BY <1>1 DEF BatchInv, StackOK
<1>5. /\ Cuts(stack, slice, b, Len(slice)) /\ Asking(b[1])
      /\ b[1] \in Nat /\ b[1] <= Len(slice) /\ Len(slice) \in Nat /\ Len(stack) \in Nat
      /\ \A s \in Requested : s \in Samples /\ outcome[s] = "none"
      /\ \A i \in b[1] + 1 .. Len(slice) :
             /\ slice[i] \in Samples /\ slice[i] \notin Requested
             /\ outcome[slice[i]] = "none"
  BY <1>1, <1>4, AskedFacts
<1>6. /\ failed \in Seq(Samples)
      /\ \A x : x \in ToSet(failed) <=>
                    x \in Requested /\ graph[x] \in {"missing", "repairable"}
  <2>1. failed \in Seq(Samples)
    BY <1>2, <1>3, KeptFacts
  <2>2. ToSet(failed) = ToSet(request.subset)
                            \cap {s \in Requested : graph[s] \in {"missing", "repairable"}}
    BY <1>2, <1>3, KeptFacts
  <2>3. QED
    BY <2>1, <2>2 DEF Requested
<1>7. \A s \in Requested : graph[s] \in {"valid", "semantic", "missing", "repairable"}
  BY <1>2, <1>3, ReadingType DEF Requested, Verdicts
<1>8. /\ outcome' \in [Samples -> LabelFiles \cup {"none", "api_failed"}]
      /\ \A s \in Samples : s \notin Requested => outcome'[s] = outcome[s]
      /\ \A s \in Requested : outcome'[s] = "none" <=> s \in ToSet(failed)
  <2>1. outcome' \in [Samples -> LabelFiles \cup {"none", "api_failed"}]
    BY <1>2, <1>3 DEF LabelFiles
  <2>2. \A s \in Samples : s \notin Requested => outcome'[s] = outcome[s]
    BY <1>2
  <2>3. ASSUME NEW s \in Requested PROVE outcome'[s] = "none" <=> s \in ToSet(failed)
    <3>1. s \in Samples /\ outcome[s] = "none"
      BY <1>5
    <3>2. outcome'[s] = IF graph[s] = "valid" THEN "valid"
                        ELSE IF graph[s] = "semantic" THEN "rejected" ELSE "none"
      BY <1>2, <3>1
    <3>3. QED
      BY <1>6, <1>7, <3>2
  <2>4. QED
    BY <2>1, <2>2, <2>3
<1>9. CASE failed = <<>>
  <2>1. \A x : x \notin ToSet(failed)
    <3>1. Len(failed) = 0
      BY <1>9, EmptySeq
    <3>2. \A x : x \in ToSet(failed) <=> \E i \in 1 .. Len(failed) : failed[i] = x
      BY <1>6, Elements
    <3>3. QED
      BY <3>1, <3>2
  <2>2. \A s \in Requested : outcome'[s] # "none"
    BY <1>8, <2>1
  <2>3. pc' = "initial" /\ request' = NoRequest
    BY <1>2, <1>9
  <2>4. QED
    BY <1>1, <1>8, <2>2, <2>3, Resolved
<1>10. CASE failed # <<>>
  <2>1. /\ pc' = "call"
        /\ request' = [kind |-> "partial_repair", subset |-> failed, tries |-> 0]
    BY <1>2, <1>10
  <2>2. Requested' = ToSet(failed)
    BY <2>1 DEF Requested
  <2>3. /\ \A i \in 1 .. b[1] : slice[i] \in Requested <=> outcome[slice[i]] = "none"
        /\ \A s \in Requested : \E i \in 1 .. b[1] : slice[i] = s
    BY <1>5 DEF Asking
  <2>4. \A i \in 1 .. b[1] : slice'[i] \in Requested' <=> outcome'[slice'[i]] = "none"
    <3> SUFFICES ASSUME NEW i \in 1 .. b[1]
                 PROVE  slice[i] \in ToSet(failed) <=> outcome'[slice[i]] = "none"
      BY <1>1, <2>2
    <3>1. slice[i] \in Samples
      <4>1. i \in 1 .. Len(slice)
        BY <1>5
      <4>2. QED
        BY <1>1, <4>1, SlicePlaces DEF Ended
    <3>2. CASE slice[i] \in Requested
      BY <1>8, <3>2
    <3>3. CASE slice[i] \notin Requested
      BY <1>6, <1>8, <2>3, <3>1, <3>3
    <3>4. QED
      BY <3>2, <3>3
  <2>5. \A s \in Requested' : \E i \in 1 .. b[1] : slice'[i] = s
    BY <1>1, <1>6, <2>2, <2>3
  <2>6. calls' <= Budget(3 * b[1] + Len(stack) - 2) + request'.tries
    <3>1. calls + 1 <= Budget(3 * b[1] + Len(stack) - 2)
      BY <1>1, <1>4, OneMoreCall
    <3>2. 3 * b[1] + Len(stack) - 2 \in Int
      BY <1>5
    <3>3. Budget(3 * b[1] + Len(stack) - 2) \in Int
      BY <3>2, BudgetFacts
    <3>4. QED
      BY <1>1, <1>3, <2>1, <3>1, <3>3
  <2>7. Asking(b[1])'
    <3>1. request'.kind = "partial_repair"
      BY <2>1
    <3>2. QED
      BY <1>1, <2>4, <2>5, <2>6, <3>1 DEF Asking, Budget
  <2>8. \A i \in b[1] + 1 .. Len(slice') : outcome'[slice'[i]] = "none"
    BY <1>1, <1>5, <1>8
  <2>9. Cutting(b)'
    BY <1>1, <1>5, <2>1, <2>7, <2>8 DEF Cutting
  <2>10. StackOK'
    BY <1>1, <1>4, <2>9 DEF BatchInv, StackOK
  <2>11. request' \in [kind : {"teacher", "partial_repair"}, subset : Seq(Samples),
                       tries : 0 .. Transport]
    <3>1. 0 \in 0 .. Transport
      BY BudgetFacts
    <3>2. QED
      BY <1>6, <2>1, <3>1
  <2>12. QED
    BY <1>1, <1>3, <1>8, <2>1, <2>10, <2>11, CallKeeps
<1>11. QED
  BY <1>9, <1>10

\* A repair settles all its samples.
LEMMA RepairParsedInv == BatchInv /\ RepairParsed => BatchInv'
<1> SUFFICES ASSUME BatchInv, RepairParsed PROVE BatchInv'
  OBVIOUS
<1>1. /\ pc = "call" /\ pc' = "initial" /\ calls' = calls + 1 /\ request' = NoRequest
      /\ UNCHANGED <<samples, slice, stack, unsaved, rows, status, torn, damaged, faults>>
  BY DEF RepairParsed, work, files
<1>2. PICK graph \in Readings(request.subset) :
        outcome' = [s \in Samples |->
            IF s \notin Requested THEN outcome[s]
            ELSE IF graph[s] = "valid" THEN "repaired" ELSE "rejected"]
  BY DEF RepairParsed
<1>3. PICK b : Cutting(b)
  BY <1>1 DEF BatchInv, StackOK
<1>4. \A s \in Requested : s \in Samples
  BY <1>1, <1>3, AskedFacts
<1>5. /\ outcome' \in [Samples -> LabelFiles \cup {"none", "api_failed"}]
      /\ \A s \in Samples : s \notin Requested => outcome'[s] = outcome[s]
      /\ \A s \in Requested : outcome'[s] # "none"
  BY <1>2, <1>4, Types DEF LabelFiles
<1>6. QED
  BY <1>1, <1>5, Resolved

\* The exception leaves the files alone, and its call was one of those the slice may make.
LEMMA ProcessingRaisesInv == BatchInv /\ ProcessingRaises => BatchInv'
<1> SUFFICES ASSUME BatchInv, ProcessingRaises PROVE BatchInv'
  OBVIOUS
<1>1. /\ pc = "call" /\ pc' = "failed" /\ calls' = calls + 1
      /\ UNCHANGED <<samples, slice, stack, request, outcome, unsaved, rows, status, torn,
                     damaged, faults>>
  BY DEF ProcessingRaises, work, files
<1>2. TypeOK'
  <2>1. calls' \in Nat
    BY <1>1, Types
  <2>2. QED
    BY <1>1, <2>1 DEF BatchInv, TypeOK, Ended
<1>3. RowsOK'
  BY <1>1 DEF BatchInv, RowsOK
<1>4. QueueOK' /\ LeftOK' /\ SavedOK' /\ StackOK'
  BY <1>1 DEF QueueOK, LeftOK, SavedOK, StackOK, Ended
<1>5. CallsBounded'
  <2>1. PICK b : Cutting(b)
    BY <1>1 DEF BatchInv, StackOK
  <2>2. PICK n \in Nat, to \in Nat, L \in Nat : n = Len(slice) /\ to = b[1] /\ L = Len(stack)
    BY <1>1, <2>1, AskedFacts
  <2>3. to + L <= n
    <3>1. stack \in Seq(Seq(Samples)) /\ slice \in Seq(Samples)
      BY Types
    <3>2. Cuts(stack, slice, b, Len(slice))
      BY <2>1 DEF Cutting
    <3>3. QED
      BY <2>2, <3>1, <3>2, CutsFacts
  <2>4. PICK u \in Int, v \in Int : u = 3 * to + L - 1 /\ v = 3 * n - 1
    OBVIOUS
  <2>5. u <= v
    BY <2>2, <2>3, <2>4
  <2>6. Budget(u) <= Budget(v) /\ Budget(u) \in Int /\ Budget(v) \in Int
    BY <2>5, BudgetFacts
  <2>7. calls + 1 <= Budget(u)
    BY <1>1, <2>1, <2>2, <2>4, OneMoreCall
  <2>8. calls + 1 <= Budget(v)
    <3>1. calls \in Nat
      BY Types
    <3>2. QED
      BY <2>6, <2>7, <3>1
  <2>9. calls' <= (Transport + 1) * (3 * Len(slice') - 1)
    BY <1>1, <2>2, <2>4, <2>8 DEF Budget
  <2>10. QED
    BY <2>9 DEF CallsBounded
<1>6. QED
  BY <1>2, <1>3, <1>4, <1>5 DEF BatchInv

-----------------------------------------------------------------------------
\* Every step keeps the invariant.
LEMMA StepInv == BatchInv /\ LinesOK /\ [Next]_vars => BatchInv'
<1> SUFFICES ASSUME BatchInv, LinesOK, [Next]_vars PROVE BatchInv'
  OBVIOUS
<1>1. CASE Start
  BY <1>1, StartInv
<1>2. CASE Kill
  BY <1>2, KillInv
<1>3. CASE TakeSlice
  BY <1>3, TakeSliceInv
<1>4. CASE Report
  BY <1>4, ReportInv
<1>5. CASE ProcessInitial
  BY <1>5, ProcessInitialInv
<1>6. CASE ReturnOutcomes
  BY <1>6, ReturnOutcomesInv
<1>7. CASE CallFails
  BY <1>7, CallFailsInv
<1>8. CASE Catastrophic
  BY <1>8, CatastrophicInv
<1>9. CASE Parsed
  BY <1>9, ParsedInv
<1>10. CASE RepairParsed
  BY <1>10, RepairParsedInv
<1>11. CASE AppendRaw
  BY <1>11, AppendRawInv
<1>12. CASE AppendLabel
  BY <1>12, AppendLabelInv
<1>13. CASE SlicePersisted
  BY <1>13, SlicePersistedInv
<1>14. CASE UNCHANGED vars
  BY <1>14, StutterInv
<1>15. CASE ProcessingRaises
  BY <1>15, ProcessingRaisesInv
<1>16. QED
  BY <1>1, <1>2, <1>3, <1>4, <1>5, <1>6, <1>7, <1>8, <1>9, <1>10, <1>11, <1>12, <1>13,
     <1>14, <1>15 DEF Next, Step

LEMMA LinesHold == Spec => []LinesOK
<1>1. Init => LinesOK
  BY DEF Init, LinesOK
<1>2. QED
  BY <1>1, LinesStep, PTL DEF Spec

THEOREM BatchHolds == Spec => []BatchInv
<1>1. QED
  BY InitInv, StepInv, LinesHold, PTL DEF Spec

\* Every variable of the batch generation keeps its type.
THEOREM TypeCorrect == Spec => []TypeOK
<1>1. BatchInv => TypeOK
  BY DEF BatchInv
<1>2. QED
  BY <1>1, BatchHolds, PTL

\* A slice never costs more calls than its size allows, whatever the replies are.
THEOREM CallsStayBounded == Spec => []CallsBounded
<1>1. QED
  BY CallsFromStack, BatchHolds, PTL

\* Where a sample is asked for: it is at one place of the slice, and each place behind the
\* ones asked for is in one part of the stack.
LEMMA AskedOnce ==
    ASSUME BatchInv, pc \in {"initial", "call"}, NEW s \in ToSet(slice)
    PROVE  \/ outcome[s] # "none" /\ AskedIn(s) = {}
           \/ outcome[s] = "none" /\ \E k : AskedIn(s) = {k}
<1>1. PICK b : Cutting(b)
  BY DEF BatchInv, StackOK
<1>2. stack \in Seq(Seq(Samples)) /\ slice \in Seq(Samples)
  BY Types
<1>3. PICK L \in Nat, n \in Nat : L = Len(stack) /\ n = Len(slice)
  BY <1>2, LenProperties
<1>4. /\ b \in [1 .. L + 1 -> 0 .. n]
      /\ b[L + 1] = n
      /\ \A j, k \in 1 .. L + 1 : j < k => b[j] < b[k]
      /\ \A k \in 1 .. L : Segment(stack[k], slice, b[k], b[k + 1])
      /\ \A i \in b[1] + 1 .. n : \E k \in 1 .. L : b[k] < i /\ i <= b[k + 1]
  BY <1>1, <1>3 DEF Cutting, Cuts
<1>5. PICK place \in 1 .. n : slice[place] = s
  BY <1>3, SlicePlaces DEF Ended
<1>6. \A i \in 1 .. n : slice[i] = s <=> i = place
  BY <1>3, <1>5, SlicePlaces DEF Ended
<1>7. \A k \in 1 .. L + 1 : b[k] \in 0 .. n
  BY <1>4
<1>8. \A k \in 1 .. L : k \in 1 .. L + 1 /\ k + 1 \in 1 .. L + 1
  BY <1>3
<1>9. DOMAIN stack = 1 .. L
  BY <1>2, <1>3, LenProperties
<1>10. \A k \in 1 .. L : s \in ToSet(stack[k]) <=> b[k] < place /\ place <= b[k + 1]
  <2> TAKE k \in 1 .. L
  <2>1. b[k] \in 0 .. n /\ b[k + 1] \in 0 .. n
    BY <1>7, <1>8
  <2>2. s \in ToSet(stack[k]) <=> \E i \in b[k] + 1 .. b[k + 1] : slice[i] = s
    <3>1. Segment(stack[k], slice, b[k], b[k + 1])
      BY <1>4
    <3>2. QED
      BY <1>2, <3>1, SegmentElements
  <2>3. \A i \in b[k] + 1 .. b[k + 1] : i \in 1 .. n
    BY <2>1
  <2>4. s \in ToSet(stack[k]) <=> place \in b[k] + 1 .. b[k + 1]
    BY <1>5, <1>6, <2>2, <2>3
  <2>5. QED
    BY <2>1, <2>4
<1>11. b[1] \in 0 .. n
  BY <1>3, <1>7
<1> DEFINE now == IF pc = "call" /\ s \in Requested THEN {0} ELSE {}
<1>12. AskedIn(s) = {k \in 1 .. L : s \in ToSet(stack[k])} \cup now
  BY <1>9 DEF AskedIn
<1>13. CASE place <= b[1]
  <2>1. \A k \in 1 .. L : b[1] <= b[k]
    <3> TAKE k \in 1 .. L
    <3>1. b[k] \in 0 .. n /\ 1 \in 1 .. L + 1 /\ k \in 1 .. L + 1
      BY <1>3, <1>7, <1>8
    <3>2. k = 1 \/ b[1] < b[k]
      BY <1>4, <3>1
    <3>3. QED
      BY <1>11, <3>1, <3>2
  <2>2. \A k \in 1 .. L : s \notin ToSet(stack[k])
    <3> TAKE k \in 1 .. L
    <3>1. b[k] \in 0 .. n /\ b[1] <= b[k]
      BY <1>7, <1>8, <2>1
    <3>2. ~(b[k] < place)
      BY <1>11, <1>13, <3>1
    <3>3. QED
      BY <1>10, <3>2
  <2>3. AskedIn(s) = now
    BY <1>12, <2>2
  <2>4. place \in 1 .. b[1]
    BY <1>11, <1>13
  <2>5. CASE pc = "initial"
    <3>1. outcome[s] # "none"
      BY <1>1, <1>5, <2>4, <2>5 DEF Cutting, Settled
    <3>2. QED
      BY <2>3, <2>5, <3>1
  <2>6. CASE pc = "call"
    <3>1. s \in Requested <=> outcome[s] = "none"
      BY <1>1, <1>5, <2>4, <2>6 DEF Cutting, Asking
    <3>2. QED
      BY <2>3, <2>6, <3>1
  <2>7. QED
    BY <2>5, <2>6
<1>14. CASE place > b[1]
  <2>1. place \in b[1] + 1 .. n
    BY <1>11, <1>14
  <2>2. outcome[s] = "none"
    BY <1>1, <1>3, <1>5, <2>1 DEF Cutting
  <2>3. now = {}
    <3>1. pc = "call" => s \notin Requested
      BY <1>1, <1>3, <1>5, <2>1, AskedFacts
    <3>2. QED
      BY <3>1
  <2>4. PICK k \in 1 .. L : b[k] < place /\ place <= b[k + 1]
    BY <1>4, <2>1
  <2>5. ASSUME NEW j \in 1 .. L, b[j] < place, place <= b[j + 1] PROVE j = k
    <3>1. /\ b[j] \in 0 .. n /\ b[k] \in 0 .. n
          /\ b[j + 1] \in 0 .. n /\ b[k + 1] \in 0 .. n
      BY <1>7, <1>8
    <3>2. ~(j < k)
      <4>1. ASSUME j < k PROVE FALSE
        <5>1. j + 1 = k \/ b[j + 1] < b[k]
          BY <1>4, <1>8, <4>1
        <5>2. QED
          BY <2>4, <2>5, <3>1, <5>1
      <4>2. QED
        BY <4>1
    <3>3. ~(k < j)
      <4>1. ASSUME k < j PROVE FALSE
        <5>1. k + 1 = j \/ b[k + 1] < b[j]
          BY <1>4, <1>8, <4>1
        <5>2. QED
          BY <2>4, <2>5, <3>1, <5>1
      <4>2. QED
        BY <4>1
    <3>4. QED
      BY <1>3, <3>2, <3>3
  <2>6. {j \in 1 .. L : s \in ToSet(stack[j])} = {k}
    BY <1>10, <2>4, <2>5
  <2>7. AskedIn(s) = {k}
    BY <1>12, <2>3, <2>6
  <2>8. QED
    BY <2>2, <2>7
<1>15. place <= b[1] \/ place > b[1]
  BY <1>3, <1>11
<1>16. QED
  BY <1>13, <1>14, <1>15

\* A sample without outcome is in exactly one request, one with an outcome in none.
THEOREM SliceKept == Spec => []SliceAccounted
<1>1. BatchInv => SliceAccounted
  <2> SUFFICES ASSUME BatchInv PROVE SliceAccounted
    OBVIOUS
  <2>1. pc \in {"raw", "label"} => \A s \in ToSet(slice) : outcome[s] # "none"
    BY DEF BatchInv, SavedOK
  <2>2. ASSUME pc \in {"initial", "call"}, NEW s \in ToSet(slice)
        PROVE  Cardinality(AskedIn(s)) = IF outcome[s] = "none" THEN 1 ELSE 0
    <3>1. PICK A : A = AskedIn(s)
      OBVIOUS
    <3>2. CASE outcome[s] # "none" /\ A = {}
      <4>1. Cardinality(A) = 0
        BY <3>2, FS_EmptySet, Zenon
      <4>2. QED
        BY <3>1, <3>2, <4>1
    <3>3. CASE outcome[s] = "none" /\ \E k : A = {k}
      <4>1. Cardinality(A) = 1
        BY <3>3, FS_Singleton
      <4>2. QED
        BY <3>1, <3>3, <4>1
    <3>4. QED
      BY <2>2, <3>1, <3>2, <3>3, AskedOnce
  <2>3. QED
    BY <2>1, <2>2 DEF SliceAccounted
<1>2. QED
  BY <1>1, BatchHolds, PTL

-----------------------------------------------------------------------------
\* What the rows of a sample say of it in the ledger.
EntryOK ==
    \A s \in Samples :
        /\ rows["raw"][s] = 0 => Entry(s) = "open"
        /\ rows["raw"][s] = 1 /\ (\A f \in LabelFiles : rows[f][s] = 0) =>
               Entry(s) = status[s]
        /\ \A f \in LabelFiles : rows[f][s] = 1 => Entry(s) = f

LEMMA EntryFacts == BatchInv => EntryOK
<1> SUFFICES ASSUME BatchInv, NEW s \in Samples
             PROVE  /\ rows["raw"][s] = 0 => Entry(s) = "open"
                    /\ rows["raw"][s] = 1 /\ (\A f \in LabelFiles : rows[f][s] = 0) =>
                           Entry(s) = status[s]
                    /\ \A f \in LabelFiles : rows[f][s] = 1 => Entry(s) = f
  BY DEF EntryOK
<1>1. /\ rows["raw"][s] \in {0, 1}
      /\ \A f \in LabelFiles : rows[f][s] \in {0, 1}
      /\ \A f, g \in LabelFiles : rows[f][s] = 1 /\ rows[g][s] = 1 => f = g
      /\ rows["raw"][s] = 0 => \A f \in LabelFiles : rows[f][s] = 0
  BY DEF BatchInv, RowsOK
<1>2. ~\E f \in Files : rows[f][s] > 1
  BY <1>1 DEF Files
<1>3. \A f \in LabelFiles : rows[f][s] > 0 <=> rows[f][s] = 1
  BY <1>1
<1>4. ASSUME rows["raw"][s] = 0 PROVE Entry(s) = "open"
  BY <1>1, <1>2, <1>3, <1>4 DEF Entry
<1>5. ASSUME rows["raw"][s] = 1, \A f \in LabelFiles : rows[f][s] = 0
      PROVE  Entry(s) = status[s]
  BY <1>1, <1>2, <1>3, <1>5 DEF Entry
<1>6. ASSUME NEW f \in LabelFiles, rows[f][s] = 1 PROVE Entry(s) = f
  <2>1. rows["raw"][s] # 0
    BY <1>1, <1>6
  <2>2. Entry(s) = CHOOSE g \in LabelFiles : rows[g][s] > 0
    BY <1>2, <1>6, <2>1 DEF Entry
  <2> DEFINE chosen == CHOOSE g \in LabelFiles : rows[g][s] > 0
  <2>3. chosen \in LabelFiles /\ rows[chosen][s] > 0
    BY <1>6
  <2> HIDE DEF chosen
  <2>4. chosen = f
    BY <1>1, <1>3, <1>6, <2>3
  <2>5. QED
    BY <2>2, <2>4 DEF chosen
<1>7. QED
  BY <1>4, <1>5, <1>6

LEMMA EntryNext == BatchInv' => EntryOK'
BY EntryFacts, PTL

\* A sample whose rows are the same has the same entry.
LEMMA SameEntry ==
    ASSUME BatchInv, NEW s \in Samples, \A f \in Files : rows'[f][s] = rows[f][s],
           status'[s] = status[s]
    PROVE  Entry(s)' = Entry(s)
<1>1. "raw" \in Files /\ LabelFiles \subseteq Files
  BY DEF Files
<1>2. /\ (\E f \in Files : rows'[f][s] > 1) <=> (\E f \in Files : rows[f][s] > 1)
      /\ (\E f \in LabelFiles : rows'[f][s] > 0) <=> (\E f \in LabelFiles : rows[f][s] > 0)
      /\ rows'["raw"][s] = rows["raw"][s]
  BY <1>1
<1>3. (CHOOSE f \in LabelFiles : rows'[f][s] > 0) = CHOOSE f \in LabelFiles : rows[f][s] > 0
  <2>1. \A f \in LabelFiles : rows'[f][s] > 0 <=> rows[f][s] > 0
    BY <1>1
  <2>2. QED
    BY <2>1
<1>4. QED
  BY <1>2, <1>3 DEF Entry

\* The other samples keep their entries when one gets a row.
LEMMA OneEntry ==
    ASSUME NEW i \in Samples, \A s \in Samples \ {i} : Entry(s)' = Entry(s)
    PROVE  Entries' = [Entries EXCEPT ![i] = Entry(i)']
BY DEF Entries

\* A raw row records its sample.
LEMMA RawRecords ==
    ASSUME BatchInv, BatchInv', LinesOK, AppendRaw PROVE [Ledger!Next]_(<<Entries, Finished>>)
<1>1. PICK s \in Samples :
        /\ s = Head(unsaved) /\ pc = "raw"
        /\ rows["raw"][s] = 0 /\ \A f \in LabelFiles : rows[f][s] = 0
        /\ rows' \in [Files -> [Samples -> Nat]]
        /\ rows'["raw"][s] = 1
        /\ \A r \in Samples \ {s} : rows'["raw"][r] = rows["raw"][r]
        /\ \A f \in LabelFiles : rows'[f] = rows[f]
        /\ status' \in [Samples -> {"none", "generated", "api_failed"}]
        /\ \A r \in Samples \ {s} : status'[r] = status[r]
        /\ torn' = torn
        /\ \/ /\ outcome[s] \in LabelFiles
              /\ pc' = "label" /\ unsaved' = unsaved /\ status'[s] = "generated"
           \/ /\ outcome[s] \notin LabelFiles
              /\ pc' = "raw" /\ unsaved' = Tail(unsaved) /\ status'[s] = "api_failed"
  BY AppendRawFacts
<1>2. \A r \in Samples \ {s} : Entry(r)' = Entry(r)
  <2> TAKE r \in Samples \ {s}
  <2>1. status'[r] = status[r] /\ \A f \in Files : rows'[f][r] = rows[f][r]
    BY <1>1 DEF Files
  <2>2. QED
    BY <2>1, SameEntry
<1>3. Entry(s) = "open"
  BY <1>1, EntryFacts DEF EntryOK
<1>4. Entry(s)' = status'[s]
  <2>1. rows'["raw"][s] = 1 /\ \A f \in LabelFiles : rows'[f][s] = 0
    BY <1>1
  <2>2. QED
    BY <2>1, EntryNext DEF EntryOK
<1>5. status'[s] \in Ledger!Failures \cup {"generated"}
  BY <1>1 DEF Ledger!Failures
<1>6. Entries' = [Entries EXCEPT ![s] = status'[s]] /\ Entries[s] = "open"
  BY <1>2, <1>3, <1>4, OneEntry DEF Entries
<1>7. Finished = FALSE /\ Finished' = Finished
  BY <1>1 DEF Finished
<1>8. Ledger!Record(s)
  <2>1. ~Finished
    BY <1>7
  <2>2. QED
    BY <1>5, <1>6, <1>7, <2>1 DEF Ledger!Record
<1>9. QED
  BY <1>8 DEF Ledger!Next

\* A label row labels a generated sample, or is lost with the cut line before it.
LEMMA LabelLabels ==
    ASSUME BatchInv, BatchInv', AppendLabel PROVE [Ledger!Next]_(<<Entries, Finished>>)
<1>1. PICK s \in Samples : \E f \in LabelFiles :
        /\ s = Head(unsaved) /\ pc = "label" /\ pc' = "raw"
        /\ rows["raw"][s] = 1 /\ \A g \in LabelFiles : rows[g][s] = 0
        /\ status[s] = "generated"
        /\ rows' \in [Files -> [Samples -> Nat]]
        /\ \/ rows'[f][s] = 1 /\ torn' = torn
           \/ rows' = rows /\ f \in torn /\ torn' = torn \ {f}
        /\ \A g \in Files \ {f} : rows'[g] = rows[g]
        /\ \A r \in Samples \ {s} : rows'[f][r] = rows[f][r]
  BY AppendLabelFacts
<1>2. PICK f \in LabelFiles :
        /\ s = Head(unsaved) /\ pc = "label" /\ pc' = "raw"
        /\ rows["raw"][s] = 1 /\ \A g \in LabelFiles : rows[g][s] = 0
        /\ status[s] = "generated"
        /\ rows' \in [Files -> [Samples -> Nat]]
        /\ \/ rows'[f][s] = 1 /\ torn' = torn
           \/ rows' = rows /\ f \in torn /\ torn' = torn \ {f}
        /\ \A g \in Files \ {f} : rows'[g] = rows[g]
        /\ \A r \in Samples \ {s} : rows'[f][r] = rows[f][r]
  BY <1>1
<1>3. UNCHANGED status
  BY DEF AppendLabel
<1>4. \A r \in Samples \ {s} : Entry(r)' = Entry(r)
  <2> TAKE r \in Samples \ {s}
  <2>1. status'[r] = status[r] /\ \A g \in Files : rows'[g][r] = rows[g][r]
    BY <1>2, <1>3
  <2>2. QED
    BY <2>1, SameEntry
<1>5. Entry(s) = "generated"
  BY <1>2, EntryFacts DEF EntryOK
<1>6. Finished = FALSE /\ Finished' = Finished
  BY <1>2 DEF Finished
<1>7. CASE rows'[f][s] = 1
  <2>1. Entry(s)' = f
    BY <1>2, <1>7, EntryNext DEF EntryOK
  <2>2. Entries' = [Entries EXCEPT ![s] = f] /\ Entries[s] = "generated"
    BY <1>4, <1>5, <2>1, OneEntry DEF Entries
  <2>3. ~Finished /\ f \in Ledger!Labels
    BY <1>6 DEF LabelFiles, Ledger!Labels
  <2>4. Ledger!Label(s)
    BY <1>6, <2>2, <2>3 DEF Ledger!Label
  <2>5. QED
    BY <2>4 DEF Ledger!Next
<1>8. CASE rows' = rows
  <2>1. \A r \in Samples : Entry(r)' = Entry(r)
    <3> TAKE r \in Samples
    <3>1. status'[r] = status[r] /\ \A g \in Files : rows'[g][r] = rows[g][r]
      BY <1>3, <1>8
    <3>2. QED
      BY <3>1, SameEntry
  <2>2. Entries' = Entries
    BY <2>1 DEF Entries
  <2>3. QED
    BY <1>6, <2>2
<1>9. QED
  BY <1>2, <1>7, <1>8

\* The other steps change no entry; a report that is written finishes the ledger, the start
\* after it reopens it.
LEMMA OthersKeep ==
    ASSUME BatchInv, [Next]_vars, ~AppendRaw, ~AppendLabel
    PROVE  [Ledger!Next]_(<<Entries, Finished>>)
<1>1. UNCHANGED <<rows, status>>
  BY DEF Next, Step, vars, files, Start, Kill, TakeSlice, Report, ProcessInitial,
         ReturnOutcomes, CallFails, Catastrophic, Parsed, RepairParsed, ProcessingRaises,
         SlicePersisted
<1>2. Entries' = Entries
  <2>1. \A s \in Samples : Entry(s)' = Entry(s)
    BY <1>1, SameEntry
  <2>2. QED
    BY <2>1 DEF Entries
<1>3. CASE Report /\ pc' = "reported"
  <2>1. pc = "slice" /\ samples = <<>> /\ pc' = "reported"
    BY <1>3 DEF Report
  <2>2. \A s \in Samples : rows["raw"][s] = 1
    <3>1. \A x : x \notin ToSet(samples)
      <4>1. PICK q \in Seq(Samples) : q = samples /\ Len(q) = 0
        BY <2>1, Types, EmptySeq
      <4>2. \A x : x \in ToSet(q) <=> \E i \in 1 .. Len(q) : q[i] = x
        BY Elements
      <4>3. QED
        BY <4>1, <4>2
    <3>2. Waiting = {}
      BY <2>1 DEF Waiting
    <3>3. \A s \in Samples : rows["raw"][s] # 0
      BY <2>1, <3>1, <3>2 DEF BatchInv, LeftOK
    <3>4. QED
      BY <3>3 DEF BatchInv, RowsOK
  <2>3. \A s \in Samples : Entry(s) # "open"
    <3> TAKE s \in Samples
    <3>1. CASE \A f \in LabelFiles : rows[f][s] = 0
      <4>1. Entry(s) = status[s] /\ status[s] \in {"generated", "api_failed"}
        BY <2>2, <3>1, EntryFacts DEF EntryOK, BatchInv, RowsOK
      <4>2. QED
        BY <4>1
    <3>2. CASE \E f \in LabelFiles : rows[f][s] # 0
      <4>1. PICK f \in LabelFiles : rows[f][s] = 1
        BY <3>2 DEF BatchInv, RowsOK
      <4>2. Entry(s) = f
        BY <4>1, EntryFacts DEF EntryOK
      <4>3. QED
        BY <4>2 DEF LabelFiles
    <3>3. QED
      BY <3>1, <3>2
  <2>4. Finished = FALSE /\ Finished' = TRUE
    BY <2>1 DEF Finished
  <2>5. \A s \in Samples : Entries[s] # "open"
    BY <2>3 DEF Entries
  <2>6. Ledger!Finish
    BY <1>2, <2>4, <2>5 DEF Ledger!Finish
  <2>7. QED
    BY <2>6 DEF Ledger!Next
<1>4. CASE Start
  <2>1. Finished' = FALSE
    BY <1>4 DEF Start, Finished
  <2>2. CASE Finished = TRUE
    BY <1>2, <2>1, <2>2 DEF Ledger!Reopen, Ledger!Next
  <2>3. CASE Finished = FALSE
    BY <1>2, <2>1, <2>3
  <2>4. QED
    BY <2>2, <2>3 DEF Finished
<1>5. CASE ~(Report /\ pc' = "reported") /\ ~Start
  <2>1. \/ UNCHANGED pc
        \/ pc # "reported" /\ pc' # "reported"
    BY <1>5
       DEF Next, Step, vars, Kill, TakeSlice, Report, ProcessInitial, ReturnOutcomes,
           CallFails, Catastrophic, Parsed, RepairParsed, ProcessingRaises, SlicePersisted,
           GiveUp, Ended
  <2>2. Finished' = Finished
    BY <2>1 DEF Finished
  <2>3. QED
    BY <1>2, <2>2
<1>6. QED
  BY <1>3, <1>4, <1>5

\* The files stage 1 keeps are a ledger, over every kill, cut line, exception and restart.
THEOREM LedgerKept == Spec => KeepsLedger
<1>1. Init => Ledger!Init
  <2> SUFFICES ASSUME Init PROVE Ledger!Init
    OBVIOUS
  <2>1. \A s \in Samples : rows["raw"][s] = 0
    BY DEF Init, Files
  <2>2. \A s \in Samples : Entry(s) = "open"
    BY <2>1, InitInv, EntryFacts DEF EntryOK
  <2>3. Entries = [s \in Samples |-> "open"] /\ Finished = FALSE
    BY <2>2 DEF Init, Entries, Finished
  <2>4. QED
    BY <2>3 DEF Ledger!Init
<1>2. BatchInv /\ BatchInv' /\ LinesOK /\ [Next]_vars => [Ledger!Next]_(<<Entries, Finished>>)
  BY RawRecords, LabelLabels, OthersKeep
<1>3. QED
  BY <1>1, <1>2, BatchHolds, LinesHold, PTL DEF Spec, KeepsLedger, Ledger!Spec, Ledger!ledger
-----------------------------------------------------------------------------
\* What a kill costs: the labels that are lost, and the cut lines that may cost one more.
LossOK == Cardinality(Lost) + Cardinality(torn) <= 2 * faults.kills

\* The sizes of sets that gain or lose an element.
LEMMA Sizes ==
    ASSUME NEW U, IsFiniteSet(U)
    PROVE  /\ \A S \in SUBSET U : Cardinality(S) \in Nat
           /\ \A S \in SUBSET U : \A x \in S : Cardinality(S \ {x}) = Cardinality(S) - 1
           /\ \A S, T \in SUBSET U : \A x \in U :
                 T \subseteq S \cup {x} => Cardinality(T) <= Cardinality(S) + 1
<1>1. \A S \in SUBSET U : IsFiniteSet(S) /\ Cardinality(S) \in Nat
  BY FS_Subset, FS_CardinalityType
<1>2. ASSUME NEW S \in SUBSET U, NEW x \in S PROVE Cardinality(S \ {x}) = Cardinality(S) - 1
  BY <1>1, FS_RemoveElement
<1>3. ASSUME NEW S \in SUBSET U, NEW T \in SUBSET U, NEW x \in U, T \subseteq S \cup {x}
      PROVE  Cardinality(T) <= Cardinality(S) + 1
  <2>1. IsFiniteSet(S \cup {x}) /\ Cardinality(S \cup {x}) <= Cardinality(S) + 1
    <3>1. /\ IsFiniteSet(S \cup {x})
          /\ Cardinality(S \cup {x}) = IF x \in S THEN Cardinality(S) ELSE Cardinality(S) + 1
      BY <1>1, FS_AddElement
    <3>2. Cardinality(S) \in Nat
      BY <1>1
    <3>3. QED
      BY <3>1, <3>2
  <2>2. Cardinality(T) <= Cardinality(S \cup {x})
    BY <1>3, <2>1, FS_Subset
  <2>3. Cardinality(T) \in Nat /\ Cardinality(S) \in Nat /\ Cardinality(S \cup {x}) \in Nat
    BY <1>1, <2>1, FS_CardinalityType
  <2>4. QED
    BY <2>1, <2>2, <2>3
<1>4. QED
  BY <1>1, <1>2, <1>3

LEMMA FiniteUniverses == IsFiniteSet(Samples) /\ IsFiniteSet(Files)
<1>1. IsFiniteSet(Samples)
  <2>1. N \in Nat
    BY ConstantsAssumption
  <2>2. QED
    BY <2>1, FS_Interval DEF Samples
<1>2. IsFiniteSet({"valid"})
  BY FS_Singleton
<1>3. IsFiniteSet({"valid"} \cup {"repaired"})
  BY <1>2, FS_AddElement
<1>4. IsFiniteSet(({"valid"} \cup {"repaired"}) \cup {"rejected"})
  BY <1>3, FS_AddElement
<1>5. IsFiniteSet((({"valid"} \cup {"repaired"}) \cup {"rejected"}) \cup {"raw"})
  BY <1>4, FS_AddElement
<1>6. Files = (({"valid"} \cup {"repaired"}) \cup {"rejected"}) \cup {"raw"}
  BY DEF Files, LabelFiles
<1>7. QED
  BY <1>1, <1>5, <1>6

\* A step after which no more is lost and no more lines are cut.
LEMMA LossKept ==
    ASSUME LossOK, Lost' = Lost, torn' = torn, faults'.kills = faults.kills
    PROVE  LossOK'
BY DEF LossOK

\* The label being written is lost with the process, and so is the line it was cut in.
LEMMA KillLoses == BatchInv /\ LossOK /\ Kill => LossOK'
<1> SUFFICES ASSUME BatchInv, LossOK, Kill PROVE LossOK'
  OBVIOUS
<1>1. /\ pc \notin Ended /\ pc' = "stopped" /\ UNCHANGED <<rows, status, unsaved, outcome>>
      /\ faults' = [faults EXCEPT !.kills = @ + 1]
  BY DEF Kill
<1>2. PICK cut \in SUBSET Writing : torn' = torn \cup cut
  BY DEF Kill
<1>3. /\ torn \in SUBSET Files /\ Lost \in SUBSET Samples /\ Lost' \in SUBSET Samples
      /\ faults \in [starts : Nat, kills : Nat]
  BY Types DEF Lost
<1>4. faults.kills \in Nat /\ faults'.kills = faults.kills + 1
  BY <1>1, <1>3
<1>5. \E f \in Files : Writing \subseteq {f}
  BY DEF BatchInv, SavedOK, Writing, Files
<1>6. PICK f \in Files : torn' \subseteq torn \cup {f} /\ torn' \in SUBSET Files
  BY <1>2, <1>3, <1>5
<1>7. Cardinality(torn') <= Cardinality(torn) + 1
  BY <1>3, <1>6, Sizes, FiniteUniverses
<1>8. Cardinality(Lost') <= Cardinality(Lost) + 1
  <2>1. PICK s : s = IF pc = "label" THEN Head(unsaved) ELSE 1
    OBVIOUS
  <2>2. s \in Samples
    <3>1. pc = "label" => Head(unsaved) \in Samples
      BY Types, HeadAndTail DEF BatchInv, SavedOK
    <3>2. 1 \in Samples
      BY ConstantsAssumption DEF Samples
    <3>3. QED
      BY <2>1, <3>1, <3>2
  <2>3. Lost' \subseteq Lost \cup {s}
    BY <1>1, <2>1 DEF Lost
  <2>4. QED
    BY <1>3, <2>2, <2>3, Sizes, FiniteUniverses
<1>9. /\ Cardinality(torn) \in Nat /\ Cardinality(torn') \in Nat
      /\ Cardinality(Lost) \in Nat /\ Cardinality(Lost') \in Nat
  BY <1>3, <1>6, Sizes, FiniteUniverses
<1>10. Cardinality(Lost') + Cardinality(torn') <= 2 * (faults.kills + 1)
  BY <1>4, <1>7, <1>8, <1>9 DEF LossOK
<1>11. QED
  BY <1>4, <1>10 DEF LossOK

\* A raw row is followed by its label, so it loses none.
LEMMA RawLoses == BatchInv /\ LinesOK /\ LossOK /\ AppendRaw => LossOK'
<1> SUFFICES ASSUME BatchInv, LinesOK, LossOK, AppendRaw PROVE LossOK'
  OBVIOUS
<1>1. PICK s \in Samples :
        /\ s = Head(unsaved) /\ pc = "raw"
        /\ rows["raw"][s] = 0 /\ \A f \in LabelFiles : rows[f][s] = 0
        /\ rows' \in [Files -> [Samples -> Nat]]
        /\ rows'["raw"][s] = 1
        /\ \A r \in Samples \ {s} : rows'["raw"][r] = rows["raw"][r]
        /\ \A f \in LabelFiles : rows'[f] = rows[f]
        /\ status' \in [Samples -> {"none", "generated", "api_failed"}]
        /\ \A r \in Samples \ {s} : status'[r] = status[r]
        /\ torn' = torn
        /\ \/ /\ outcome[s] \in LabelFiles
              /\ pc' = "label" /\ unsaved' = unsaved /\ status'[s] = "generated"
           \/ /\ outcome[s] \notin LabelFiles
              /\ pc' = "raw" /\ unsaved' = Tail(unsaved) /\ status'[s] = "api_failed"
  BY AppendRawFacts
<1>2. \A r \in Samples : r \in Lost' <=> r \in Lost
  <2> TAKE r \in Samples
  <2>1. CASE r = s
    <3>1. r \notin Lost
      BY <1>1, <2>1 DEF Lost
    <3>2. r \notin Lost'
      BY <1>1, <2>1 DEF Lost
    <3>3. QED
      BY <3>1, <3>2
  <2>2. CASE r # s
    <3>1. /\ rows'["raw"][r] = rows["raw"][r] /\ status'[r] = status[r]
          /\ \A f \in LabelFiles : rows'[f][r] = rows[f][r]
      BY <1>1, <2>2
    <3>2. ~(pc' = "label" /\ r = Head(unsaved')) /\ pc # "label"
      BY <1>1, <2>2
    <3>3. QED
      BY <3>1, <3>2 DEF Lost
  <2>3. QED
    BY <2>1, <2>2
<1>3. Lost' = Lost
  BY <1>2 DEF Lost
<1>4. faults' = faults
  BY DEF AppendRaw
<1>5. QED
  BY <1>1, <1>3, <1>4, LossKept

\* A label row is written, or lost in the line it follows, which costs no other then.
LEMMA LabelLoses == BatchInv /\ LossOK /\ AppendLabel => LossOK'
<1> SUFFICES ASSUME BatchInv, LossOK, AppendLabel PROVE LossOK'
  OBVIOUS
<1>1. PICK s \in Samples : \E f \in LabelFiles :
        /\ s = Head(unsaved) /\ pc = "label" /\ pc' = "raw"
        /\ rows["raw"][s] = 1 /\ \A g \in LabelFiles : rows[g][s] = 0
        /\ status[s] = "generated"
        /\ rows' \in [Files -> [Samples -> Nat]]
        /\ \/ rows'[f][s] = 1 /\ torn' = torn
           \/ rows' = rows /\ f \in torn /\ torn' = torn \ {f}
        /\ \A g \in Files \ {f} : rows'[g] = rows[g]
        /\ \A r \in Samples \ {s} : rows'[f][r] = rows[f][r]
  BY AppendLabelFacts
<1>2. PICK f \in LabelFiles :
        /\ s = Head(unsaved) /\ pc = "label" /\ pc' = "raw"
        /\ rows' \in [Files -> [Samples -> Nat]]
        /\ \/ rows'[f][s] = 1 /\ torn' = torn
           \/ rows' = rows /\ f \in torn /\ torn' = torn \ {f}
        /\ \A g \in Files \ {f} : rows'[g] = rows[g]
        /\ \A r \in Samples \ {s} : rows'[f][r] = rows[f][r]
  BY <1>1
<1>3. UNCHANGED <<status, faults>> /\ LabelFiles \subseteq Files /\ "raw" \in Files \ {f}
  BY DEF AppendLabel, Files, LabelFiles
<1>4. \A r \in Samples \ {s} : r \in Lost' <=> r \in Lost
  <2> TAKE r \in Samples \ {s}
  <2>1. /\ rows'["raw"][r] = rows["raw"][r] /\ status'[r] = status[r]
        /\ \A g \in LabelFiles : rows'[g][r] = rows[g][r]
    BY <1>2, <1>3
  <2>2. pc' # "label" /\ r # Head(unsaved)
    BY <1>2
  <2>3. QED
    BY <2>1, <2>2 DEF Lost
<1>5. s \notin Lost
  BY <1>2 DEF Lost
<1>6. CASE rows'[f][s] = 1 /\ torn' = torn
  <2>1. s \notin Lost'
    BY <1>6 DEF Lost
  <2>2. Lost' = Lost
    BY <1>4, <1>5, <2>1 DEF Lost
  <2>3. QED
    BY <1>3, <1>6, <2>2, LossKept
<1>7. CASE f \in torn /\ torn' = torn \ {f}
  <2>1. torn \in SUBSET Files /\ torn' \in SUBSET Files
        /\ Lost \in SUBSET Samples /\ Lost' \in SUBSET Samples
    BY <1>7, Types DEF Lost
  <2>2. Lost' \subseteq Lost \cup {s}
    BY <1>4, <2>1
  <2>3. Cardinality(Lost') <= Cardinality(Lost) + 1
    BY <2>1, <2>2, Sizes, FiniteUniverses
  <2>4. Cardinality(torn') = Cardinality(torn) - 1
    BY <1>7, <2>1, Sizes, FiniteUniverses
  <2>5. /\ Cardinality(torn) \in Nat /\ Cardinality(torn') \in Nat
        /\ Cardinality(Lost) \in Nat /\ Cardinality(Lost') \in Nat
    BY <2>1, Sizes, FiniteUniverses
  <2>6. faults.kills \in Nat /\ faults'.kills = faults.kills
    BY <1>3, Types
  <2>7. Cardinality(Lost) + Cardinality(torn) <= 2 * faults.kills
    BY DEF LossOK
  <2>8. Cardinality(Lost') + Cardinality(torn') <= 2 * faults.kills
    BY <2>3, <2>4, <2>5, <2>6, <2>7
  <2>9. QED
    BY <2>6, <2>8 DEF LossOK
<1>8. QED
  BY <1>2, <1>6, <1>7

\* The other steps write nothing.
LEMMA OthersLose ==
    ASSUME BatchInv, LossOK, [Next]_vars, ~Kill, ~AppendRaw, ~AppendLabel PROVE LossOK'
<1>1. UNCHANGED <<rows, status, torn>>
  BY DEF Next, Step, vars, files, Start, TakeSlice, Report, ProcessInitial, ReturnOutcomes,
         CallFails, Catastrophic, Parsed, RepairParsed, ProcessingRaises, SlicePersisted
<1>2. \/ pc' = pc /\ unsaved' = unsaved
      \/ pc # "label" /\ pc' # "label"
  <2>1. CASE CallFails \/ Catastrophic
    <3>1. pc = "call" /\ pc' \in {"initial", "call"}
      BY <2>1 DEF CallFails, Catastrophic, GiveUp
    <3>2. QED
      BY <3>1
  <2>2. CASE Start
    BY <2>2 DEF Start, Ended
  <2>3. CASE \/ TakeSlice \/ Report \/ ProcessInitial \/ ReturnOutcomes \/ Parsed
             \/ RepairParsed \/ ProcessingRaises \/ SlicePersisted
    BY <2>3 DEF TakeSlice, Report, ProcessInitial, ReturnOutcomes, Parsed, RepairParsed,
                ProcessingRaises, SlicePersisted
  <2>4. CASE UNCHANGED vars
    BY <2>4 DEF vars
  <2>5. QED
    BY <2>1, <2>2, <2>3, <2>4 DEF Next, Step
<1>3. Lost' = Lost
  BY <1>1, <1>2 DEF Lost
<1>4. faults'.kills = faults.kills
  <2>1. faults' = faults \/ faults' = [faults EXCEPT !.starts = @ + 1]
    BY DEF Next, Step, vars, Start, TakeSlice, Report, ProcessInitial, ReturnOutcomes,
           CallFails, Catastrophic, Parsed, RepairParsed, ProcessingRaises, SlicePersisted
  <2>2. faults \in [starts : Nat, kills : Nat]
    BY Types
  <2>3. QED
    BY <2>1, <2>2
<1>5. QED
  BY <1>1, <1>3, <1>4, LossKept

\* Over all runs a kill costs at most two labels: the one that was being written and the one
\* that a later run appends to the line it cut.  Exceptions and failed reports cost none.
THEOREM LossStaysBounded == Spec => []LossBounded
<1>1. Init => LossOK
  <2> SUFFICES ASSUME Init PROVE LossOK
    OBVIOUS
  <2>1. Lost = {} /\ torn = {} /\ faults.kills = 0
    BY DEF Init, Lost, Files
  <2>2. Cardinality(Lost) = 0 /\ Cardinality(torn) = 0
    BY <2>1, FS_EmptySet, Zenon
  <2>3. QED
    BY <2>1, <2>2 DEF LossOK
<1>2. BatchInv /\ LinesOK /\ LossOK /\ [Next]_vars => LossOK'
  BY KillLoses, RawLoses, LabelLoses, OthersLose
<1>3. BatchInv /\ LossOK => LossBounded
  <2> SUFFICES ASSUME BatchInv, LossOK PROVE LossBounded
    OBVIOUS
  <2>1. torn \in SUBSET Files /\ Lost \in SUBSET Samples /\ faults.kills \in Nat
    BY Types DEF Lost
  <2>2. Cardinality(torn) \in Nat /\ Cardinality(Lost) \in Nat
    BY <2>1, Sizes, FiniteUniverses
  <2>3. QED
    BY <2>1, <2>2 DEF LossOK, LossBounded
<1>4. QED
  BY <1>1, <1>2, <1>3, BatchHolds, LinesHold, PTL DEF Spec

-----------------------------------------------------------------------------
\* Why the command ends: what it has left to do.  The samples behind the slice come first,
\* then the part of the slice's work the command is at, then the calls or the rows this
\* part may still make, then whether the next request is still to be made.
Phase ==
    IF pc \in {"initial", "call"} THEN 3
    ELSE IF pc \in {"raw", "label"} THEN 2
    ELSE IF pc = "slice" THEN 1 ELSE 0

Within ==
    IF pc \in {"initial", "call"} THEN Budget(3 * Len(slice) - 1) - calls
    ELSE IF pc = "raw" THEN 2 * Len(unsaved) + 1
    ELSE IF pc = "label" THEN 2 * Len(unsaved) ELSE 0

Left == <<Len(samples), Phase, Within, IF pc = "initial" THEN 1 ELSE 0>>

Lefts == [1 .. 4 -> Nat]

\* The lexicographic order of what may be left.
Less == LexProductOrdering(OpToRel(<, Nat), Nat, 4)

\* Every step of the command leaves less to be done.
StepsShrink == [][Step => <<Left', Left>> \in Less]_vars

\* Nothing can shrink for ever.
LEMMA LessWellFounded == IsWellFoundedOn(Less, Lefts)
BY NatLessThanWellFounded, WFLexProductOrdering DEF Less, Lefts

LEMMA LessFacts ==
    ASSUME NEW a \in Nat, NEW b \in Nat, NEW c \in Nat, NEW d \in Nat,
           NEW e \in Nat, NEW f \in Nat, NEW g \in Nat, NEW h \in Nat,
           \/ a < e
           \/ a = e /\ b < f
           \/ a = e /\ b = f /\ c < g
           \/ a = e /\ b = f /\ c = g /\ d < h
    PROVE  <<<<a, b, c, d>>, <<e, f, g, h>>>> \in Less
<1> DEFINE m == <<a, b, c, d>>
           n == <<e, f, g, h>>
<1>1. /\ m \in Lefts /\ n \in Lefts
      /\ m[1] = a /\ m[2] = b /\ m[3] = c /\ m[4] = d
      /\ n[1] = e /\ n[2] = f /\ n[3] = g /\ n[4] = h
  BY DEF Lefts
<1> SUFFICES <<m, n>> \in Less
  OBVIOUS
<1> HIDE DEF m, n
<1>2. ASSUME NEW j \in 1 .. 4, m[j] < n[j], \A i \in 1 .. j - 1 : m[i] = n[i]
      PROVE  <<m, n>> \in Less
  <2>1. m[j] \in Nat /\ n[j] \in Nat
    BY <1>1 DEF Lefts
  <2>2. <<m[j], n[j]>> \in OpToRel(<, Nat)
    BY <1>2, <2>1 DEF OpToRel
  <2>3. QED
    BY <1>1, <1>2, <2>2 DEF Less, LexProductOrdering, Lefts
<1>3. CASE a < e
  BY <1>1, <1>2, <1>3
<1>4. CASE a = e /\ b < f
  BY <1>1, <1>2, <1>4
<1>5. CASE a = e /\ b = f /\ c < g
  BY <1>1, <1>2, <1>5
<1>6. CASE a = e /\ b = f /\ c = g /\ d < h
  BY <1>1, <1>2, <1>6
<1>7. QED
  BY <1>3, <1>4, <1>5, <1>6

Measured ==
    /\ Len(samples) \in Nat /\ Len(unsaved) \in Nat /\ calls \in Nat
    /\ Phase \in Nat /\ Within \in Nat
    /\ pc \in {"initial", "call"} => Budget(3 * Len(slice) - 1) \in Int

\* The calls of a slice are bounded, so those it may still make are a natural number.
LEMMA MeasuredNow == BatchInv => Measured
<1> SUFFICES ASSUME BatchInv PROVE Measured
  OBVIOUS
<1>1. /\ samples \in Seq(Samples) /\ slice \in Seq(Samples) /\ unsaved \in Seq(Samples)
      /\ calls \in Nat
  BY Types
<1>2. Len(samples) \in Nat /\ Len(slice) \in Nat /\ Len(unsaved) \in Nat
  BY <1>1, LenProperties
<1>3. ASSUME pc \in {"initial", "call"}
      PROVE  /\ Budget(3 * Len(slice) - 1) \in Int
             /\ calls <= Budget(3 * Len(slice) - 1)
  <2>1. slice # <<>>
    BY <1>3 DEF BatchInv, StackOK
  <2>2. calls <= Budget(3 * Len(slice) - 1)
    BY <2>1, CallsFromStack DEF CallsBounded, Budget
  <2>3. QED
    BY <1>2, <2>2, BudgetFacts
<1>4. Within \in Nat
  BY <1>1, <1>2, <1>3 DEF Within
<1>5. Phase \in Nat
  BY DEF Phase
<1>6. QED
  BY <1>1, <1>2, <1>3, <1>4, <1>5 DEF Measured

LEMMA MeasuredNext == BatchInv' => Measured'
BY MeasuredNow, PTL

\* What it takes for a step to leave less to be done.
Shrinks ==
    \/ Len(samples') < Len(samples)
    \/ /\ samples' = samples
       /\ \/ Phase' < Phase
          \/ Phase' = Phase /\ Within' < Within
          \/ /\ Phase' = Phase /\ Within' = Within
             /\ pc = "initial" /\ pc' # "initial"

LEMMA ShrinksLess == BatchInv /\ BatchInv' /\ Shrinks => <<Left', Left>> \in Less
<1> SUFFICES ASSUME BatchInv, BatchInv', Shrinks PROVE <<Left', Left>> \in Less
  OBVIOUS
<1>1. PICK a \in Nat, b \in Nat, c \in Nat, d \in Nat :
        a = Len(samples') /\ b = Phase' /\ c = Within' /\ d = IF pc' = "initial" THEN 1 ELSE 0
  BY MeasuredNext DEF Measured
<1>2. PICK e \in Nat, f \in Nat, g \in Nat, h \in Nat :
        e = Len(samples) /\ f = Phase /\ g = Within /\ h = IF pc = "initial" THEN 1 ELSE 0
  BY MeasuredNow DEF Measured
<1>3. \/ a < e
      \/ a = e /\ b < f
      \/ a = e /\ b = f /\ c < g
      \/ a = e /\ b = f /\ c = g /\ d < h
  BY <1>1, <1>2 DEF Shrinks
<1>4. <<<<a, b, c, d>>, <<e, f, g, h>>>> \in Less
  BY <1>3, LessFacts
<1>5. QED
  BY <1>1, <1>2, <1>4, Zenon DEF Left

\* A call is one of those the slice may still make.
LEMMA CallShrinks ==
    ASSUME BatchInv, pc = "call", pc' \in {"initial", "call"}, calls' = calls + 1,
           UNCHANGED work
    PROVE  Shrinks
<1>1. samples' = samples /\ slice' = slice
  BY DEF work
<1>2. Phase' = Phase
  BY DEF Phase
<1>3. Within' < Within
  BY <1>1, MeasuredNow DEF Measured, Within
<1>4. QED
  BY <1>1, <1>2, <1>3 DEF Shrinks

LEMMA StepShrinks == BatchInv /\ BatchInv' /\ Step => Shrinks
<1> SUFFICES ASSUME BatchInv, BatchInv', Step PROVE Shrinks
  OBVIOUS
<1>1. CASE TakeSlice
  <2>1. PICK q \in Seq(Samples), r \in Seq(Samples) :
          samples = q /\ samples' = r /\ Len(q) \in Nat /\ Len(q) > 0
    <3>1. samples \in Seq(Samples) /\ samples' \in Seq(Samples)
      BY Types DEF BatchInv, TypeOK, Ended
    <3>2. samples # <<>>
      BY <1>1 DEF TakeSlice
    <3>3. QED
      BY <3>1, <3>2, LenProperties, EmptySeq
  <2>2. PICK size \in 1 .. Len(q) : r = SubSeq(q, size + 1, Len(q))
    <3>1. BatchSize \in Nat /\ BatchSize >= 1
      BY ConstantsAssumption
    <3>2. PICK size : /\ size = IF Len(q) < BatchSize THEN Len(q) ELSE BatchSize
                      /\ r = SubSeq(q, size + 1, Len(q))
      BY <1>1, <2>1 DEF TakeSlice
    <3>3. size \in 1 .. Len(q)
      BY <2>1, <3>1, <3>2
    <3>4. QED
      BY <3>2, <3>3
  <2>3. Len(r) = Len(q) - size
    BY <2>1, <2>2
  <2>4. QED
    BY <2>1, <2>2, <2>3 DEF Shrinks
<1>2. CASE Report
  BY <1>2 DEF Report, work, Shrinks, Phase
<1>3. CASE ProcessInitial
  BY <1>3 DEF ProcessInitial, work, Shrinks, Phase, Within
<1>4. CASE ReturnOutcomes
  BY <1>4 DEF ReturnOutcomes, work, Shrinks, Phase
<1>5. CASE CallFails
  BY <1>5, CallShrinks DEF CallFails, GiveUp
<1>6. CASE Catastrophic
  BY <1>6, CallShrinks DEF Catastrophic, GiveUp
<1>7. CASE Parsed
  BY <1>7, CallShrinks DEF Parsed
<1>8. CASE RepairParsed
  BY <1>8, CallShrinks DEF RepairParsed
<1>9. CASE AppendRaw
  <2>1. /\ pc = "raw" /\ samples' = samples
        /\ \/ pc' = "label" /\ unsaved' = unsaved
           \/ pc' = "raw" /\ unsaved' = Tail(unsaved)
    BY <1>9 DEF AppendRaw, work
  <2>2. Len(Tail(unsaved)) = Len(unsaved) - 1
    BY <1>9, Types, HeadTailProperties DEF AppendRaw
  <2>3. Phase' = Phase
    BY <2>1 DEF Phase
  <2>4. Within' < Within
    <3>1. PICK n \in Nat : n = Len(unsaved)
      BY MeasuredNow DEF Measured
    <3>2. Within = 2 * n + 1
      BY <2>1, <3>1 DEF Within
    <3>3. pc' = "label" => Within' = 2 * n
      BY <2>1, <3>1 DEF Within
    <3>4. pc' = "raw" => Within' = 2 * (n - 1) + 1
      <4>1. ASSUME pc' = "raw" PROVE Len(unsaved') = n - 1
        BY <2>1, <2>2, <3>1, <4>1
      <4>2. QED
        BY <4>1 DEF Within
    <3>5. QED
      BY <2>1, <3>2, <3>3, <3>4
  <2>5. QED
    BY <2>1, <2>3, <2>4 DEF Shrinks
<1>10. CASE AppendLabel
  <2>1. pc = "label" /\ pc' = "raw" /\ samples' = samples /\ unsaved' = Tail(unsaved)
    BY <1>10 DEF AppendLabel, work
  <2>2. Len(Tail(unsaved)) = Len(unsaved) - 1
    BY <2>1, Types, HeadTailProperties DEF BatchInv, SavedOK
  <2>3. Phase' = Phase
    BY <2>1 DEF Phase
  <2>4. Within' < Within
    <3>1. PICK n \in Nat : n = Len(unsaved)
      BY MeasuredNow DEF Measured
    <3>2. Within = 2 * n
      BY <2>1, <3>1 DEF Within
    <3>3. Len(unsaved') = n - 1
      BY <2>1, <2>2, <3>1
    <3>4. Within' = 2 * (n - 1) + 1
      BY <2>1, <3>3 DEF Within
    <3>5. QED
      BY <3>2, <3>4
  <2>5. QED
    BY <2>1, <2>3, <2>4 DEF Shrinks
<1>11. CASE SlicePersisted
  BY <1>11 DEF SlicePersisted, work, Shrinks, Phase
<1>12. CASE ProcessingRaises
  BY <1>12 DEF ProcessingRaises, work, Shrinks, Phase
<1>13. QED
  BY <1>1, <1>2, <1>3, <1>4, <1>5, <1>6, <1>7, <1>8, <1>9, <1>10, <1>11, <1>12 DEF Step

\* process_initial: no run of the command makes infinitely many steps,
\* whatever the teacher replies.  This is what CommandEnds rests on.
THEOREM CommandShrinks == Spec => StepsShrink
<1>1. BatchInv /\ BatchInv' => [Step => <<Left', Left>> \in Less]_vars
  BY StepShrinks, ShrinksLess
<1>2. QED
  BY <1>1, BatchHolds, PTL DEF Spec, StepsShrink
=============================================================================
