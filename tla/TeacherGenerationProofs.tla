------------------------ MODULE TeacherGenerationProofs ------------------------
(***************************************************************************)
(* Proofs about TeacherGeneration for every number of samples, every       *)
(* settings, every limit and every bound on starts, interrupts and kills.  *)
(*                                                                         *)
(* LimiterInv: the limiter's list is the calls of the last window, older   *)
(* ones at its head.  GenInv: the futures and the batch fit the place of   *)
(* the main thread (PlaceOK), the futures are the samples that are         *)
(* submitted and not recorded (FuturesOK), the rows of a sample fit its    *)
(* raw row and the place (RowsOK), and the lost labels and cut label files *)
(* together are paid for by interrupts and kills (LossOK).                 *)
(***************************************************************************)
EXTENDS TeacherGeneration, FiniteSetTheorems, SequenceTheorems, WellFoundedInduction, TLAPS

LEMMA Numbers ==
    /\ N \in Nat \ {0} /\ MaxRetries \in Nat \ {0} /\ Limit \in Nat \ {0}
    /\ Window \in Nat \ {0}
    /\ \A k \in Settings : /\ k.concurrency \in Nat \ {0} /\ k.bad \in 0 .. N
                           /\ k.repair \in BOOLEAN /\ k.review \in BOOLEAN
    /\ 1 \in Samples /\ \A s \in Samples : s \in Nat /\ s <= N /\ s >= 1
BY ConstantsAssumption DEF Samples

-------------------------------------------------------------------------------
\* The limiter.
LEMMA Elements ==
    ASSUME NEW S, NEW q \in Seq(S)
    PROVE  Len(q) \in Nat /\ DOMAIN q = 1 .. Len(q) /\ \A i \in 1 .. Len(q) : q[i] \in S
OBVIOUS

LEMMA Ages ==
    ASSUME NEW q \in Seq(0 .. Window)
    PROVE  /\ Len(q) \in Nat /\ DOMAIN q = 1 .. Len(q)
           /\ \A i \in 1 .. Len(q) : q[i] \in 0 .. Window /\ q[i] \in Nat /\ q[i] <= Window
<1>1. /\ Len(q) \in Nat /\ DOMAIN q = 1 .. Len(q)
      /\ \A i \in 1 .. Len(q) : q[i] \in 0 .. Window
  BY Elements
<1>2. \A a \in 0 .. Window : a \in Nat /\ a <= Window
  BY Numbers
<1>3. QED
  BY <1>1, <1>2

\* What the loop of acquire leaves: the calls from the first recent one on.
LEMMA RecentFacts ==
    ASSUME NEW c \in Seq(Nat)
    PROVE  \E k \in 0 .. Len(c) :
             /\ \A j \in 1 .. k : c[j] >= Window
             /\ k < Len(c) => c[k + 1] < Window
             /\ Recent(c) = SubSeq(c, k + 1, Len(c))
<1> DEFINE Old(k) == /\ \A j \in 1 .. k : c[j] >= Window
                     /\ k < Len(c) => c[k + 1] < Window
           Stops == {k \in 0 .. Len(c) : k < Len(c) => c[k + 1] < Window}
<1>1. Len(c) \in Nat /\ \A j \in 1 .. Len(c) : c[j] \in Nat
  OBVIOUS
<1>2. Len(c) \in Stops /\ Stops \subseteq Nat
  BY <1>1
<1>3. PICK k \in Stops : \A m \in Stops : ~(<<m, k>> \in OpToRel(<, Nat))
  <2> HIDE DEF Stops
  <2>1. QED
    BY <1>2, NatLessThanWellFounded, WFMin
<1>4. \A m \in Stops : ~(m < k)
  <2>1. \A m \in Stops : m < k => <<m, k>> \in OpToRel(<, Nat)
    BY <1>2 DEF OpToRel
  <2>2. QED
    BY <1>3, <2>1
<1>5. k \in 0 .. Len(c) /\ Old(k)
  <2>1. ASSUME NEW j \in 1 .. k PROVE c[j] >= Window
    <3>1. j - 1 \in 0 .. Len(c) /\ j - 1 < k /\ j - 1 < Len(c) /\ (j - 1) + 1 = j
      BY <1>1
    <3>2. j - 1 \notin Stops
      BY <1>4, <3>1
    <3>3. ~(c[j] < Window) /\ c[j] \in Nat
      BY <1>1, <3>1, <3>2
    <3>4. QED
      BY <3>3, Numbers
  <2>2. QED
    BY <2>1
<1> DEFINE old == CHOOSE i \in 0 .. Len(c) : Old(i)
<1>6. old \in 0 .. Len(c) /\ Old(old)
  <2>1. \E i \in 0 .. Len(c) : Old(i)
    BY <1>5
  <2> HIDE DEF Old
  <2>2. QED
    BY <2>1
<1>7. Recent(c) = SubSeq(c, old + 1, Len(c))
  BY DEF Recent
<1> HIDE DEF old
<1>8. QED
  BY <1>6, <1>7

\* The head of the limiter's list has left the window, the rest are the calls in it.
LimiterInv ==
    /\ calls \in Seq(0 .. Window) /\ granted \in Seq(0 .. Window)
    /\ Len(granted) <= Limit /\ Len(granted) <= Len(calls)
    /\ \A k \in 1 .. Len(calls) - Len(granted) : calls[k] = Window
    /\ \A k \in 1 .. Len(granted) :
          /\ granted[k] = calls[Len(calls) - Len(granted) + k]
          /\ granted[k] < Window
    /\ \A j, k \in 1 .. Len(granted) : j <= k => granted[k] <= granted[j]

LEMMA InitLimiter == Init => LimiterInv
BY Numbers DEF Init, LimiterInv

\* The thread that goes on has seen the calls of the window.
LEMMA SeesWindow ==
    ASSUME LimiterInv
    PROVE  /\ Recent(calls) \in Seq(0 .. Window)
           /\ Len(Recent(calls)) = Len(granted)
           /\ \A k \in 1 .. Len(granted) : Recent(calls)[k] = granted[k]
<1> DEFINE m == Len(calls) - Len(granted)
<1>1. /\ calls \in Seq(0 .. Window) /\ Len(calls) \in Nat /\ Len(granted) \in Nat
      /\ Len(granted) <= Len(calls)
  BY DEF LimiterInv
<1>2. \A s \in Seq(0 .. Window) : s \in Seq(Nat)
  BY Numbers
<1>3. PICK k \in 0 .. Len(calls) :
        /\ \A j \in 1 .. k : calls[j] >= Window
        /\ k < Len(calls) => calls[k + 1] < Window
        /\ Recent(calls) = SubSeq(calls, k + 1, Len(calls))
  BY <1>1, <1>2, RecentFacts
<1>4. k = m
  <2>1. ~(k < m)
    <3>1. ASSUME k < m PROVE calls[k + 1] = Window
      <4>1. k + 1 \in 1 .. Len(calls) - Len(granted)
        BY <1>1, <3>1
      <4>2. QED
        BY <4>1 DEF LimiterInv
    <3>2. k < m => k < Len(calls)
      BY <1>1
    <3>3. QED
      BY <1>3, <3>1, <3>2, Numbers
  <2>2. ~(m < k)
    <3>1. ASSUME m < k PROVE calls[m + 1] < Window
      <4>1. 1 \in 1 .. Len(granted)
        BY <1>1, <3>1
      <4>2. QED
        BY <4>1 DEF LimiterInv
    <3>2. m < k => m + 1 \in 1 .. k
      BY <1>1
    <3>3. \A j \in 1 .. k : calls[j] \in Nat /\ calls[j] <= Window
      <4>1. \A j \in 1 .. k : j \in 1 .. Len(calls)
        BY <1>1, <1>3
      <4>2. QED
        BY <1>1, <4>1, Ages
    <3>4. QED
      BY <1>3, <3>1, <3>2, <3>3, Numbers
  <2>3. QED
    BY <1>1, <2>1, <2>2
<1>5. /\ Recent(calls) \in Seq(0 .. Window)
      /\ Len(Recent(calls)) = Len(granted)
      /\ \A i \in 1 .. Len(granted) : Recent(calls)[i] = calls[m + i]
  <2>1. /\ m + 1 \in 1 .. Len(calls) + 1 /\ Len(calls) \in 0 .. Len(calls)
        /\ Len(calls) - (m + 1) + 1 = Len(granted)
    BY <1>1
  <2>2. Recent(calls) = SubSeq(calls, m + 1, Len(calls))
    BY <1>3, <1>4
  <2>3. /\ SubSeq(calls, m + 1, Len(calls)) \in Seq(0 .. Window)
        /\ Len(SubSeq(calls, m + 1, Len(calls))) = Len(granted)
        /\ \A i \in 1 .. Len(granted) :
              SubSeq(calls, m + 1, Len(calls))[i] = calls[m + 1 + i - 1]
    <3>1. \A i \in m + 1 .. Len(calls) : calls[i] \in 0 .. Window
      <4>1. \A i \in m + 1 .. Len(calls) : i \in 1 .. Len(calls)
        BY <1>1
      <4>2. QED
        BY <1>1, <4>1, Ages
    <3>2. m + 1 \in Int /\ Len(calls) \in Int
      BY <1>1
    <3>3. /\ SubSeq(calls, m + 1, Len(calls)) \in Seq(0 .. Window)
          /\ Len(SubSeq(calls, m + 1, Len(calls)))
                = IF m + 1 <= Len(calls) THEN Len(calls) - (m + 1) + 1 ELSE 0
          /\ \A i \in 1 .. Len(calls) - (m + 1) + 1 :
                SubSeq(calls, m + 1, Len(calls))[i] = calls[m + 1 + i - 1]
      BY <3>1, <3>2, SubSeqProperties
    <3>4. (IF m + 1 <= Len(calls) THEN Len(calls) - (m + 1) + 1 ELSE 0) = Len(granted)
      BY <1>1, <2>1
    <3>5. QED
      BY <2>1, <3>3, <3>4
  <2>4. \A i \in 1 .. Len(granted) : m + 1 + i - 1 = m + i
    BY <1>1
  <2>5. QED
    BY <2>2, <2>3, <2>4
<1>6. QED
  BY <1>5 DEF LimiterInv

\* One more call of this instant.
LEMMA AcquireKeeps ==
    ASSUME LimiterInv, NEW s \in Samples, Acquire(s) PROVE LimiterInv'
<1>1. /\ calls' = Append(Recent(calls), 0) /\ granted' = Append(granted, 0)
      /\ Len(Recent(calls)) < Limit
  BY DEF Acquire
<1>2. /\ Recent(calls) \in Seq(0 .. Window) /\ granted \in Seq(0 .. Window)
      /\ Len(Recent(calls)) = Len(granted) /\ Len(granted) \in Nat
      /\ \A k \in 1 .. Len(granted) : Recent(calls)[k] = granted[k]
  BY SeesWindow DEF LimiterInv
<1> DEFINE n == Len(granted)
<1>3. 0 \in 0 .. Window
  BY Numbers
<1>4. /\ calls' \in Seq(0 .. Window) /\ Len(calls') = n + 1
      /\ \A k \in 1 .. n : calls'[k] = granted[k]
      /\ calls'[n + 1] = 0
  BY <1>1, <1>2, <1>3, AppendProperties
<1>5. /\ granted' \in Seq(0 .. Window) /\ Len(granted') = n + 1
      /\ \A k \in 1 .. n : granted'[k] = granted[k]
      /\ granted'[n + 1] = 0
  BY <1>1, <1>2, <1>3, AppendProperties
<1>6. n + 1 <= Limit
  BY <1>1, <1>2, Numbers
<1>7. \A k \in 1 .. n + 1 : k \in 1 .. n \/ k = n + 1
  BY <1>2
<1>8. /\ \A k \in 1 .. n : granted[k] < Window /\ granted[k] \in Nat
      /\ \A j, k \in 1 .. n : j <= k => granted[k] <= granted[j]
  <2>1. \A k \in 1 .. n : granted[k] \in Nat
    BY <1>2, Ages
  <2>2. QED
    BY <2>1 DEF LimiterInv
<1>9. \A k \in 1 .. n + 1 : /\ granted'[k] = calls'[(n + 1) - (n + 1) + k]
                            /\ granted'[k] < Window
  <2>1. \A k \in 1 .. n + 1 : (n + 1) - (n + 1) + k = k
    BY <1>2
  <2>2. \A k \in 1 .. n + 1 : granted'[k] = calls'[k] /\ granted'[k] < Window
    BY <1>4, <1>5, <1>7, <1>8, Numbers
  <2>3. QED
    BY <2>1, <2>2
<1>10. \A j, k \in 1 .. n + 1 : j <= k => granted'[k] <= granted'[j]
  <2>1. \A j, k \in 1 .. n + 1 : j <= k /\ k \in 1 .. n => j \in 1 .. n
    BY <1>2
  <2>2. \A j \in 1 .. n + 1 : granted'[j] \in Nat
    BY <1>5, <1>7, <1>8
  <2>3. QED
    BY <1>5, <1>7, <1>8, <2>1, <2>2
<1>11. \A k \in 1 .. (n + 1) - (n + 1) : calls'[k] = Window
  BY <1>2
<1>12. QED
  BY <1>2, <1>4, <1>5, <1>6, <1>9, <1>10, <1>11 DEF LimiterInv

\* Time passes: the calls that leave the window are the oldest of those in it.
LEMMA TickKeeps == ASSUME LimiterInv, Tick PROVE LimiterInv'
<1> DEFINE n == Len(granted)
           m == Len(calls)
           older == [k \in DOMAIN granted |-> granted[k] + 1]
<1>1. /\ calls' = [k \in DOMAIN calls |-> Aged(calls[k])]
      /\ granted' = Recent(older)
  BY DEF Tick
<1>2. /\ calls \in Seq(0 .. Window) /\ granted \in Seq(0 .. Window)
      /\ n \in Nat /\ m \in Nat /\ n <= m /\ n <= Limit
      /\ DOMAIN granted = 1 .. n /\ DOMAIN calls = 1 .. m
  BY DEF LimiterInv
<1>3. /\ \A k \in 1 .. m : calls[k] \in 0 .. Window
      /\ \A k \in 1 .. n : granted[k] \in Nat /\ granted[k] < Window
      /\ \A k \in 1 .. m - n : calls[k] = Window
      /\ \A k \in 1 .. n : granted[k] = calls[m - n + k]
      /\ \A j, k \in 1 .. n : j <= k => granted[k] <= granted[j]
  <2>1. /\ \A k \in 1 .. m : calls[k] \in 0 .. Window
        /\ \A k \in 1 .. n : granted[k] \in Nat
    BY <1>2, Ages
  <2>2. QED
    BY <2>1 DEF LimiterInv
<1>4. /\ older \in Seq(Nat) /\ older \in Seq(0 .. Window) /\ Len(older) = n
      /\ \A k \in 1 .. n : older[k] = granted[k] + 1
  <2>1. \A k \in 1 .. n : granted[k] + 1 \in 0 .. Window
    BY <1>3, Numbers
  <2>2. older = [k \in 1 .. n |-> granted[k] + 1]
    BY <1>2
  <2>3. older \in Seq(0 .. Window)
    BY <1>2, <2>1, <2>2
  <2>4. \A q \in Seq(0 .. Window) : q \in Seq(Nat)
    BY Numbers
  <2>5. QED
    BY <1>2, <2>2, <2>3, <2>4
<1>5. /\ calls' \in Seq(0 .. Window) /\ Len(calls') = m
      /\ \A k \in 1 .. m : calls'[k] = IF calls[k] < Window THEN calls[k] + 1 ELSE Window
  <2>1. calls' = [k \in 1 .. m |-> IF calls[k] < Window THEN calls[k] + 1 ELSE Window]
    BY <1>1, <1>2 DEF Aged
  <2>2. \A k \in 1 .. m : (IF calls[k] < Window THEN calls[k] + 1 ELSE Window)
                            \in 0 .. Window
    BY <1>3, Numbers
  <2>3. QED
    BY <1>2, <2>1, <2>2
<1> HIDE DEF older
<1>6. PICK d \in 0 .. Len(older) :
        /\ \A j \in 1 .. d : older[j] >= Window
        /\ d < Len(older) => older[d + 1] < Window
        /\ Recent(older) = SubSeq(older, d + 1, Len(older))
  BY <1>4, RecentFacts
<1>7. d \in 0 .. n /\ n - d \in Nat
  BY <1>2, <1>4, <1>6
<1>8. /\ granted' \in Seq(0 .. Window) /\ Len(granted') = n - d
      /\ \A i \in 1 .. n - d : granted'[i] = granted[d + i] + 1
  <2>1. /\ d + 1 \in Int /\ n \in Int
        /\ \A i \in d + 1 .. n : older[i] \in 0 .. Window
    <3>1. \A i \in d + 1 .. n : i \in 1 .. n
      BY <1>2, <1>7
    <3>2. \A i \in 1 .. n : older[i] \in 0 .. Window
      BY <1>4, Ages
    <3>3. QED
      BY <1>2, <1>7, <3>1, <3>2
  <2>2. /\ SubSeq(older, d + 1, n) \in Seq(0 .. Window)
        /\ Len(SubSeq(older, d + 1, n)) = IF d + 1 <= n THEN n - (d + 1) + 1 ELSE 0
        /\ \A i \in 1 .. n - (d + 1) + 1 : SubSeq(older, d + 1, n)[i] = older[d + 1 + i - 1]
    BY <2>1, SubSeqProperties
  <2>3. (IF d + 1 <= n THEN n - (d + 1) + 1 ELSE 0) = n - d /\ n - (d + 1) + 1 = n - d
    <3>1. \A a \in Nat : \A b \in 0 .. a :
             /\ (IF b + 1 <= a THEN a - (b + 1) + 1 ELSE 0) = a - b
             /\ a - (b + 1) + 1 = a - b
      OBVIOUS
    <3>2. QED
      BY <1>2, <1>7, <3>1
  <2>4. \A i \in 1 .. n - d : d + 1 + i - 1 = d + i /\ d + i \in 1 .. n
    <3>1. n \in Nat /\ d \in Nat /\ d <= n
      BY <1>2, <1>7
    <3>2. QED
      BY <3>1
  <2>5. granted' = SubSeq(older, d + 1, n)
    BY <1>1, <1>4, <1>6
  <2>6. QED
    BY <1>4, <2>2, <2>3, <2>4, <2>5
<1>9. n - d <= Limit /\ n - d <= m
  BY <1>2, <1>7, Numbers
<1>10. \A k \in 1 .. m - (n - d) : calls'[k] = Window
  <2> SUFFICES ASSUME NEW k \in 1 .. m - (n - d) PROVE calls'[k] = Window
    OBVIOUS
  <2>1. k \in 1 .. m
    BY <1>2, <1>7
  <2>2. CASE k \in 1 .. m - n
    BY <1>3, <1>5, <2>1, <2>2, Numbers
  <2>3. CASE k \notin 1 .. m - n
    <3>1. k - (m - n) \in 1 .. d /\ k - (m - n) \in 1 .. n /\ m - n + (k - (m - n)) = k
      BY <1>2, <1>7, <2>3
    <3>2. /\ older[k - (m - n)] >= Window
          /\ older[k - (m - n)] = granted[k - (m - n)] + 1
          /\ granted[k - (m - n)] = calls[k] /\ granted[k - (m - n)] < Window
          /\ granted[k - (m - n)] \in Nat
      BY <1>3, <1>4, <1>6, <3>1
    <3>3. calls[k] + 1 = Window
      BY <3>2, Numbers
    <3>4. QED
      BY <1>5, <2>1, <3>2, <3>3
  <2>4. QED
    BY <2>2, <2>3
<1>11. \A j, k \in 1 .. n - d : j <= k => granted'[k] <= granted'[j]
  <2>1. \A k \in 1 .. n - d : d + k \in 1 .. n
    BY <1>2, <1>7
  <2>2. \A j, k \in 1 .. n - d : j <= k => d + j <= d + k
    BY <1>7
  <2>3. \A j, k \in 1 .. n - d : j <= k => granted[d + k] <= granted[d + j]
    BY <1>3, <2>1, <2>2
  <2>4. \A k \in 1 .. n - d : granted'[k] = granted[d + k] + 1 /\ granted[d + k] \in Nat
    BY <1>3, <1>8, <2>1
  <2> SUFFICES ASSUME NEW j \in 1 .. n - d, NEW k \in 1 .. n - d, j <= k
               PROVE  granted'[k] <= granted'[j]
    OBVIOUS
  <2>5. \A a, b \in Nat : a <= b => a + 1 <= b + 1
    OBVIOUS
  <2>6. granted[d + k] <= granted[d + j]
    BY <2>3
  <2>7. QED
    BY <2>4, <2>5, <2>6
<1>12. \A k \in 1 .. n - d : granted'[k] = calls'[m - (n - d) + k]
  <2> SUFFICES ASSUME NEW k \in 1 .. n - d
               PROVE  granted'[k] = calls'[m - (n - d) + k]
    OBVIOUS
  <2>1. d + k \in 1 .. n /\ m - n + (d + k) = m - (n - d) + k
        /\ m - (n - d) + k \in 1 .. m
    BY <1>2, <1>7
  <2>2. granted[d + k] = calls[m - (n - d) + k] /\ granted[d + k] < Window
    BY <1>3, <2>1
  <2>3. calls'[m - (n - d) + k] = calls[m - (n - d) + k] + 1
    BY <1>5, <2>1, <2>2
  <2>4. QED
    BY <1>8, <2>2, <2>3
<1>13. \A k \in 1 .. n - d : granted'[k] < Window
  <2> SUFFICES ASSUME NEW k \in 1 .. n - d PROVE granted'[k] < Window
    OBVIOUS
  <2>1. d + 1 \in 1 .. n /\ d < n /\ d + 1 <= d + k /\ d + k \in 1 .. n
    BY <1>2, <1>7
  <2>2. /\ granted[d + k] <= granted[d + 1] /\ granted[d + 1] + 1 < Window
        /\ granted[d + k] \in Nat /\ granted[d + 1] \in Nat
    BY <1>3, <1>4, <1>6, <2>1
  <2>3. QED
    BY <1>8, <2>2, Numbers
<1>14. QED
  BY <1>5, <1>8, <1>9, <1>10, <1>11, <1>12, <1>13 DEF LimiterInv

LEMMA NextLimiter == LimiterInv /\ [Next]_vars => LimiterInv'
<1> SUFFICES ASSUME LimiterInv, [Next]_vars PROVE LimiterInv'
  OBVIOUS
<1>1. CASE \E s \in Samples : Acquire(s)
  BY <1>1, AcquireKeeps
<1>2. CASE Tick
  BY <1>2, TickKeeps
<1>3. CASE calls' = <<>> /\ granted' = <<>>
  BY <1>3, Numbers DEF LimiterInv
<1>4. CASE UNCHANGED limiter
  BY <1>4 DEF LimiterInv, limiter
<1>5. QED
  BY <1>1, <1>2, <1>3, <1>4
     DEF Next, vars, limiter, Start, Submit, BadInput, EndOfInput, Collect, AppendRaw,
         AppendLabel, AppendReview, Interrupt, Exit, Kill, Begin, CallRaises, Generated,
         Repaired, Reviewed

LEMMA LimiterHolds == Spec => []LimiterInv
BY InitLimiter, NextLimiter, PTL DEF Spec

\* In no window of the limiter are there more calls than its limit.
THEOREM RateBounded == Spec => []RateLimited
<1>1. LimiterInv => RateLimited
  BY DEF LimiterInv, RateLimited
<1>2. QED
  BY <1>1, LimiterHolds, PTL

-------------------------------------------------------------------------------
\* The invariant of the rest.  The type of everything but the limiter's lists.
BaseOK ==
    /\ settings \in Settings
    /\ main \in MainStates
    /\ job \in [Samples -> Jobs]
    /\ rows \in [Files -> [Samples -> Nat]]
    /\ status \in [Samples -> Statuses \cup {"none"}]
    /\ torn \subseteq Files
    /\ faults \in [starts : Nat, interrupts : Nat, kills : Nat]
    /\ ended \in Endings

\* The samples with a future.
Active == {s \in Samples : job[s].at # "none"}

\* A review is about an accepted label, and a future that is done has a label exactly when
\* the sample was generated.
FutureOK(f) ==
    /\ f.phase = "review" => f.label \in LabelFiles
    /\ f.at = "done" => (f.status = "generated" <=> f.label \in LabelFiles)

\* What is written of the current item.
Writes(s) == main.pc \in {"label", "review"} /\ s = main.item

PlaceOK ==
    /\ \A s \in Samples : FutureOK(job[s])
    /\ main.pc # "stopped" => ended = "none"
    /\ main.pc \in InTry => /\ "raw" \notin torn
                            /\ \A s \in main.batch : job[s].at = "done"
    /\ main.pc \in {"feed", "wait"} => main.batch = {}
    /\ main.pc = "take" => main.batch # {}
    /\ main.pc \in {"label", "review"} =>
          /\ job[main.item].at = "done"
          /\ job[main.item].label \in LabelFiles
          /\ main.item \notin main.batch

\* While the command runs, the futures are the samples submitted and not recorded.
FuturesOK ==
    main.pc \in InTry =>
        /\ \A s \in Active : s < main.next /\ (Writes(s) \/ rows["raw"][s] = 0)
        /\ \A s \in Samples : s < main.next /\ rows["raw"][s] = 0 => s \in Active
        /\ \A s \in Samples : main.next <= s => (rows["raw"][s] > 0 <=> s \in main.completed)
        /\ Cardinality(Active) <= 2 * settings.concurrency
        /\ main.pc = "feed" => Cardinality(Active) < 2 * settings.concurrency

RowsOK ==
    /\ \A s \in Samples :
          /\ rows["raw"][s] <= 1 /\ rows["reviews"][s] <= 1 /\ LabelRows(s) <= 1
          /\ rows["raw"][s] = 0 => LabelRows(s) = 0 /\ rows["reviews"][s] = 0
          /\ rows["raw"][s] = 1 => status[s] \in Statuses
          /\ LabelRows(s) = 1 => status[s] = "generated"
    /\ main.pc \in {"label", "review"} =>
          rows["raw"][main.item] = 1 /\ rows["reviews"][main.item] = 0
    /\ main.pc = "label" => LabelRows(main.item) = 0 /\ status[main.item] = "generated"

\* A cut label file will swallow the next label.
CutLabels == torn \cap LabelFiles

LossOK == Cardinality(Lost) + Cardinality(CutLabels) <= faults.interrupts + 2 * faults.kills

GenInv == BaseOK /\ PlaceOK /\ FuturesOK /\ RowsOK /\ UnsavedBounded /\ LossOK

-------------------------------------------------------------------------------
\* Facts about the pieces.
LEMMA Finite ==
    /\ IsFiniteSet(Samples)
    /\ \A S \in SUBSET Samples : IsFiniteSet(S) /\ Cardinality(S) \in Nat
    /\ \A S, T \in SUBSET Samples : S \subseteq T => Cardinality(S) <= Cardinality(T)
    /\ \A S \in SUBSET Samples : \A s \in S : Cardinality(S \ {s}) = Cardinality(S) - 1
    /\ \A S \in SUBSET Samples : \A s \in Samples :
          Cardinality(S \cup {s}) <= Cardinality(S) + 1
<1>1. IsFiniteSet(Samples)
  BY Numbers, FS_Interval DEF Samples
<1>2. \A S \in SUBSET Samples : IsFiniteSet(S) /\ Cardinality(S) \in Nat
  BY <1>1, FS_Subset, FS_CardinalityType
<1>3. ASSUME NEW S \in SUBSET Samples, NEW T \in SUBSET Samples, S \subseteq T
      PROVE  Cardinality(S) <= Cardinality(T)
  BY <1>2, <1>3, FS_Subset
<1>4. ASSUME NEW S \in SUBSET Samples, NEW s \in S
      PROVE  Cardinality(S \ {s}) = Cardinality(S) - 1
  BY <1>2, FS_RemoveElement
<1>5. ASSUME NEW S \in SUBSET Samples, NEW s \in Samples
      PROVE  Cardinality(S \cup {s}) <= Cardinality(S) + 1
  <2>1. /\ IsFiniteSet(S) /\ Cardinality(S) \in Nat
        /\ Cardinality(S \cup {s}) = IF s \in S THEN Cardinality(S) ELSE Cardinality(S) + 1
    BY <1>2, FS_AddElement
  <2>2. QED
    BY <2>1
<1>6. QED
  BY <1>1, <1>2, <1>3, <1>4, <1>5

LEMMA FiniteLabels == IsFiniteSet(LabelFiles)
<1>1. IsFiniteSet({"valid"})
  BY FS_Singleton
<1>2. IsFiniteSet({"valid"} \cup {"repaired"})
  BY <1>1, FS_AddElement
<1>3. IsFiniteSet(({"valid"} \cup {"repaired"}) \cup {"rejected"})
  BY <1>2, FS_AddElement
<1>4. LabelFiles = ({"valid"} \cup {"repaired"}) \cup {"rejected"}
  BY DEF LabelFiles
<1>5. QED
  BY <1>3, <1>4

LEMMA FiniteFiles ==
    \A S \in SUBSET LabelFiles :
        /\ Cardinality(S) \in Nat
        /\ \A f \in S : Cardinality(S \ {f}) = Cardinality(S) - 1
        /\ \A f \in LabelFiles : Cardinality(S \cup {f}) <= Cardinality(S) + 1
<1>1. IsFiniteSet(LabelFiles)
  BY FiniteLabels
<1>2. TAKE S \in SUBSET LabelFiles
<1>3. IsFiniteSet(S) /\ Cardinality(S) \in Nat
  BY <1>1, FS_Subset, FS_CardinalityType
<1>4. ASSUME NEW f \in S PROVE Cardinality(S \ {f}) = Cardinality(S) - 1
  BY <1>3, FS_RemoveElement
<1>5. ASSUME NEW f \in LabelFiles PROVE Cardinality(S \cup {f}) <= Cardinality(S) + 1
  <2>1. Cardinality(S \cup {f}) = IF f \in S THEN Cardinality(S) ELSE Cardinality(S) + 1
    BY <1>3, FS_AddElement
  <2>2. QED
    BY <1>3, <2>1
<1>6. QED
  BY <1>3, <1>4, <1>5

\* A future that is not there is fine.
LEMMA NoJobFacts ==
    /\ NoJob \in Jobs /\ NoJob.at = "none" /\ FutureOK(NoJob)
    /\ [NoJob EXCEPT !.at = "queued"] \in Jobs /\ FutureOK([NoJob EXCEPT !.at = "queued"])
    /\ [NoJob EXCEPT !.at = "queued"].at = "queued" /\ NoJob.phase = "generate"
<1>1. 1 \in 1 .. MaxRetries
  BY Numbers
<1>2. QED
  BY <1>1 DEF NoJob, Jobs, FutureOK, Statuses

\* A thread of the pool changes its own future only, from unfinished to running or done.
ThreadMoves(s) ==
    /\ UNCHANGED <<settings, main, rows, status, torn, faults, ended>>
    /\ job[s].at \in {"queued", "acquire", "call"}
    /\ job'[s].at \in {"acquire", "call", "done"}
    /\ FutureOK(job'[s])
    /\ job' \in [Samples -> Jobs]
    /\ \A r \in Samples \ {s} : job'[r] = job[r]

\* The outcomes of a call.
LEMMA DoneFacts ==
    ASSUME BaseOK, NEW s \in Samples, NEW o \in Statuses, NEW l \in LabelFiles \cup {"none"},
           NEW r \in BOOLEAN, Done(s, o, l, r), o = "generated" <=> l \in LabelFiles
    PROVE  /\ job'[s].at = "done" /\ FutureOK(job'[s]) /\ job' \in [Samples -> Jobs]
           /\ \A q \in Samples \ {s} : job'[q] = job[q]
<1> DEFINE f == [NoJob EXCEPT !.at = "done", !.status = o, !.label = l, !.review = r]
<1>1. job' = [job EXCEPT ![s] = f]
  BY DEF Done
<1>2. f \in Jobs
  BY NoJobFacts DEF Jobs
<1>3. f.at = "done" /\ f.phase = "generate" /\ f.status = o /\ f.label = l
  BY NoJobFacts DEF Jobs
<1> HIDE DEF f
<1>4. FutureOK(f)
  BY <1>3 DEF FutureOK
<1>5. QED
  BY <1>1, <1>2, <1>3, <1>4 DEF BaseOK

LEMMA RequestFacts ==
    ASSUME BaseOK, NEW s \in Samples, NEW p \in {"repair", "review"},
           NEW l \in LabelFiles \cup {"none"},
           Request(s, p, l), p = "review" => l \in LabelFiles
    PROVE  /\ job'[s].at = "acquire" /\ FutureOK(job'[s]) /\ job' \in [Samples -> Jobs]
           /\ \A q \in Samples \ {s} : job'[q] = job[q]
<1> DEFINE f == [NoJob EXCEPT !.at = "acquire", !.phase = p, !.label = l]
<1>1. job' = [job EXCEPT ![s] = f]
  BY DEF Request
<1>2. f \in Jobs
  BY NoJobFacts DEF Jobs
<1>3. f.at = "acquire" /\ f.phase = p /\ f.label = l
  BY NoJobFacts DEF Jobs
<1> HIDE DEF f
<1>4. FutureOK(f)
  BY <1>3 DEF FutureOK
<1>5. QED
  BY <1>1, <1>2, <1>3, <1>4 DEF BaseOK

LEMMA ThreadStep ==
    ASSUME BaseOK, NEW s \in Samples, Thread(s), FutureOK(job[s]) PROVE ThreadMoves(s)
<1>1. /\ UNCHANGED <<settings, main, rows, status, torn, faults, ended>>
      /\ job[s].at \in {"queued", "acquire", "call"}
  BY DEF Thread, Begin, Acquire, CallRaises, Generated, Repaired, Reviewed, files
<1>2. job \in [Samples -> Jobs] /\ job[s] \in Jobs
  BY DEF BaseOK
<1>3. /\ "generated" \in Statuses /\ "api_failed" \in Statuses
      /\ "processing_failed" \in Statuses
      /\ "valid" \in LabelFiles /\ "repaired" \in LabelFiles /\ "rejected" \in LabelFiles
      /\ "none" \notin LabelFiles
  BY DEF Statuses, LabelFiles
<1> DEFINE Moved == /\ job'[s].at \in {"acquire", "call", "done"}
                    /\ FutureOK(job'[s]) /\ job' \in [Samples -> Jobs]
                    /\ \A q \in Samples \ {s} : job'[q] = job[q]
<1> SUFFICES Moved
  BY <1>1 DEF ThreadMoves
<1>4. ASSUME NEW at \in {"acquire", "call"}, job' = [job EXCEPT ![s].at = at] PROVE Moved
  BY <1>2, <1>4 DEF Jobs, FutureOK
<1>5. ASSUME NEW l \in {"valid", "repaired"}, Accept(s, l) PROVE Moved
  <2>1. CASE Request(s, "review", l)
    BY <1>3, <2>1, RequestFacts DEF LabelFiles
  <2>2. CASE Done(s, "generated", l, FALSE)
    BY <1>3, <2>2, DoneFacts DEF LabelFiles
  <2>3. QED
    BY <1>5, <2>1, <2>2 DEF Accept
<1>6. CASE Begin(s) \/ Acquire(s)
  BY <1>4, <1>6 DEF Begin, Acquire
<1>7. CASE CallRaises(s)
  <2>1. CASE job' = [job EXCEPT ![s].at = "acquire", ![s].attempt = @ + 1]
             /\ job[s].attempt < MaxRetries
    <3>1. job[s].attempt + 1 \in 1 .. MaxRetries
      BY <1>2, <2>1, Numbers DEF Jobs
    <3>2. job' = [job EXCEPT ![s] =
                    [job[s] EXCEPT !.at = "acquire", !.attempt = job[s].attempt + 1]]
      BY <1>2, <2>1
    <3>3. [job[s] EXCEPT !.at = "acquire", !.attempt = job[s].attempt + 1] \in Jobs
      BY <1>2, <3>1 DEF Jobs
    <3>4. FutureOK([job[s] EXCEPT !.at = "acquire", !.attempt = job[s].attempt + 1])
      BY <1>2 DEF FutureOK, Jobs
    <3>5. [job[s] EXCEPT !.at = "acquire", !.attempt = job[s].attempt + 1].at = "acquire"
      BY <1>2 DEF Jobs
    <3>6. QED
      BY <1>2, <3>2, <3>3, <3>4, <3>5
  <2>2. CASE Done(s, "api_failed", "none", FALSE)
    BY <1>3, <2>2, DoneFacts
  <2>3. CASE Done(s, "generated", "rejected", FALSE)
    BY <1>3, <2>3, DoneFacts
  <2>4. CASE job[s].phase = "review" /\ Done(s, "generated", job[s].label, TRUE)
    <3>1. job[s].label \in LabelFiles
      BY <2>4 DEF FutureOK
    <3>2. QED
      BY <1>3, <2>4, <3>1, DoneFacts
  <2>5. QED
    BY <1>7, <2>1, <2>2, <2>3, <2>4 DEF CallRaises
<1>8. CASE Generated(s)
  <2>1. CASE Accept(s, "valid")
    BY <1>5, <2>1
  <2>2. CASE Request(s, "repair", "none")
    BY <2>2, RequestFacts
  <2>3. CASE Done(s, "generated", "rejected", FALSE)
    BY <1>3, <2>3, DoneFacts
  <2>4. CASE Done(s, "processing_failed", "none", FALSE)
    BY <1>3, <2>4, DoneFacts
  <2>5. QED
    BY <1>8, <2>1, <2>2, <2>3, <2>4 DEF Generated
<1>9. CASE Repaired(s)
  <2>1. CASE Accept(s, "repaired")
    BY <1>5, <2>1
  <2>2. CASE Done(s, "generated", "rejected", FALSE)
    BY <1>3, <2>2, DoneFacts
  <2>3. CASE Done(s, "processing_failed", "none", FALSE)
    BY <1>3, <2>3, DoneFacts
  <2>4. QED
    BY <1>9, <2>1, <2>2, <2>3 DEF Repaired
<1>10. CASE Reviewed(s)
  <2>1. job[s].label \in LabelFiles
    BY <1>10 DEF FutureOK, Reviewed
  <2>2. QED
    BY <1>3, <1>10, <2>1, DoneFacts DEF Reviewed
<1>11. QED
  BY <1>6, <1>7, <1>8, <1>9, <1>10 DEF Thread

-------------------------------------------------------------------------------
\* The steps.
LEMMA InitGen == Init => GenInv
<1> SUFFICES ASSUME Init PROVE GenInv
  OBVIOUS
<1>1. BaseOK
  BY Numbers, NoJobFacts DEF Init, BaseOK, MainStates, Statuses, Endings
<1>2. PlaceOK /\ FuturesOK /\ RowsOK
  BY NoJobFacts
     DEF Init, PlaceOK, FuturesOK, RowsOK, InTry, LabelRows, LabelFiles, Files
<1>3. UnsavedBounded
  <2>1. {s \in Samples : s < main.next /\ rows["raw"][s] = 0} = {}
    BY Numbers DEF Init
  <2>2. Cardinality({}) = 0
    BY FS_EmptySet
  <2>3. settings \in Settings /\ settings.concurrency \in Nat
    BY Numbers DEF Init
  <2>4. QED
    BY <2>1, <2>2, <2>3 DEF UnsavedBounded
<1>4. LossOK
  <2>1. Lost = {} /\ CutLabels = {}
    BY DEF Init, Lost, CutLabels, Files
  <2>2. Cardinality({}) = 0
    BY FS_EmptySet
  <2>3. QED
    BY <2>1, <2>2 DEF Init, LossOK
<1>5. QED
  BY <1>1, <1>2, <1>3, <1>4 DEF GenInv

\* The samples without a row are those with a future.
LEMMA Unsaved ==
    ASSUME BaseOK', FuturesOK', main'.pc \in InTry PROVE UnsavedBounded'
<1> DEFINE unsaved == {s \in Samples : s < main'.next /\ rows'["raw"][s] = 0}
<1>1. unsaved \subseteq Active' /\ Active' \in SUBSET Samples /\ unsaved \in SUBSET Samples
  BY DEF FuturesOK, Active
<1>2. /\ Cardinality(unsaved) <= Cardinality(Active')
      /\ Cardinality(unsaved) \in Nat /\ Cardinality(Active') \in Nat
  BY <1>1, Finite
<1>3. Cardinality(Active') <= 2 * settings'.concurrency /\ settings'.concurrency \in Nat
  BY Numbers DEF BaseOK, FuturesOK
<1>4. Cardinality(unsaved) <= 2 * settings'.concurrency
  BY <1>2, <1>3
<1>5. QED
  BY <1>4 DEF UnsavedBounded

\* Nothing more is lost.
LEMMA LossKept ==
    ASSUME BaseOK, LossOK, BaseOK', Lost' \subseteq Lost, CutLabels' \subseteq CutLabels,
           faults'.interrupts >= faults.interrupts, faults'.kills >= faults.kills
    PROVE  LossOK'
<1>1. /\ Lost \in SUBSET Samples /\ Lost' \in SUBSET Samples
      /\ CutLabels \in SUBSET LabelFiles
  BY DEF Lost, CutLabels
<1>2. /\ Cardinality(Lost') <= Cardinality(Lost)
      /\ Cardinality(Lost') \in Nat /\ Cardinality(Lost) \in Nat
  BY <1>1, Finite
<1>3. /\ Cardinality(CutLabels') <= Cardinality(CutLabels)
      /\ Cardinality(CutLabels') \in Nat /\ Cardinality(CutLabels) \in Nat
  <2>1. IsFiniteSet(LabelFiles) /\ IsFiniteSet(CutLabels)
    <3>1. IsFiniteSet(LabelFiles)
      BY FiniteLabels
    <3>2. QED
      BY <1>1, <3>1, FS_Subset
  <2>2. QED
    BY <2>1, FS_Subset, FS_CardinalityType
<1>4. /\ faults.interrupts \in Nat /\ faults.kills \in Nat
      /\ faults'.interrupts \in Nat /\ faults'.kills \in Nat
  BY DEF BaseOK
<1>5. QED
  BY <1>2, <1>3, <1>4 DEF LossOK

\* The same files, and the same place as far as a label is concerned.
LEMMA SameLoss ==
    ASSUME GenInv, BaseOK', UNCHANGED <<rows, status, torn, faults>>,
           main.pc # "label" PROVE LossOK'
<1>1. Lost' \subseteq Lost
  BY DEF Lost, LabelRows
<1>2. CutLabels' \subseteq CutLabels
  BY DEF CutLabels
<1>3. faults.interrupts >= faults.interrupts /\ faults.kills >= faults.kills
  BY DEF GenInv, BaseOK
<1>4. QED
  BY <1>1, <1>2, <1>3, LossKept DEF GenInv

\* A step of a thread: only whether its future is done has changed.
LEMMA ThreadInv ==
    ASSUME GenInv, NEW s \in Samples, Thread(s) PROVE GenInv'
<1>1. ThreadMoves(s)
  BY ThreadStep DEF GenInv, PlaceOK
<1>2. /\ UNCHANGED <<settings, main, rows, status, torn, faults, ended>>
      /\ job[s].at \in {"queued", "acquire", "call"}
      /\ job'[s].at \in {"acquire", "call", "done"}
      /\ FutureOK(job'[s]) /\ job' \in [Samples -> Jobs]
      /\ \A r \in Samples \ {s} : job'[r] = job[r]
  BY <1>1 DEF ThreadMoves
<1>3. BaseOK'
  BY <1>2 DEF GenInv, BaseOK
<1>4. PlaceOK'
  <2>1. main.pc \in InTry => s \notin main.batch
    BY <1>2 DEF GenInv, PlaceOK
  <2>2. main.pc \in {"label", "review"} => main.item # s /\ main.item \in Samples
    BY <1>2 DEF GenInv, PlaceOK, BaseOK, MainStates
  <2>3. main.batch \subseteq Samples
    BY DEF GenInv, BaseOK, MainStates
  <2>4. \A r \in Samples : FutureOK(job'[r])
    BY <1>2 DEF GenInv, PlaceOK
  <2>5. QED
    BY <1>2, <2>1, <2>2, <2>3, <2>4 DEF GenInv, PlaceOK
<1>5. FuturesOK'
  <2>1. Active' = Active
    BY <1>2 DEF Active
  <2>2. QED
    BY <1>2, <2>1 DEF GenInv, FuturesOK, Writes
<1>6. RowsOK' /\ UnsavedBounded'
  BY <1>2 DEF GenInv, RowsOK, UnsavedBounded, LabelRows
<1>7. LossOK'
  BY <1>2 DEF GenInv, LossOK, Lost, CutLabels, LabelRows
<1>8. QED
  BY <1>3, <1>4, <1>5, <1>6, <1>7 DEF GenInv

LEMMA Idle ==
    ASSUME GenInv, UNCHANGED <<settings, main, job, rows, status, torn, faults, ended>>
    PROVE  GenInv'
<1>1. BaseOK' /\ PlaceOK'
  BY DEF GenInv, BaseOK, PlaceOK
<1>2. FuturesOK' /\ RowsOK' /\ UnsavedBounded'
  BY DEF GenInv, FuturesOK, Active, Writes, RowsOK, UnsavedBounded, LabelRows
<1>3. LossOK'
  BY DEF GenInv, LossOK, Lost, CutLabels, LabelRows
<1>4. QED
  BY <1>1, <1>2, <1>3 DEF GenInv

\* The main thread looks at the input or at the futures.
LEMMA LookStep ==
    ASSUME GenInv, BadInput \/ EndOfInput \/ Collect \/ Exit PROVE GenInv'
<1>1. /\ UNCHANGED <<settings, job, rows, status, torn, faults>>
      /\ main.pc \in {"feed", "wait", "interrupted", "failing"}
      /\ \/ /\ main.pc = "feed" /\ ended' = ended
            /\ \/ main' = [main EXCEPT !.pc = "failing"]
               \/ main' = [main EXCEPT !.pc = "wait"]
         \/ /\ main.pc = "wait" /\ ended' = ended
            /\ Pending \cap At({"done"}) # {}
            /\ main' = [main EXCEPT !.pc = "take", !.batch = Pending \cap At({"done"})]
         \/ /\ main' = [main EXCEPT !.pc = "stopped"]
            /\ ended' \in {"finished", "failed", "interrupted"}
  BY DEF BadInput, EndOfInput, Collect, Exit, files
<1>2. main \in MainStates
  BY DEF GenInv, BaseOK
<1>3. BaseOK'
  <2>1. Pending \cap At({"done"}) \subseteq Samples
    BY DEF Pending, At
  <2> DEFINE batch == Pending \cap At({"done"})
  <2> HIDE DEF batch
  <2>2. main' \in MainStates
    <3>1. \/ \E pc \in {"failing", "wait", "stopped"} : main' = [main EXCEPT !.pc = pc]
          \/ main' = [main EXCEPT !.pc = "take", !.batch = batch]
      BY <1>1 DEF batch
    <3>2. batch \subseteq Samples
      BY <2>1 DEF batch
    <3>3. QED
      BY <1>2, <3>1, <3>2 DEF MainStates, InTry
  <2>3. ended' \in Endings
    BY <1>1 DEF GenInv, BaseOK, Endings
  <2>4. QED
    BY <1>1, <2>2, <2>3 DEF GenInv, BaseOK
<1>4. /\ main'.next = main.next /\ main'.item = main.item /\ main'.completed = main.completed
      /\ \/ /\ main.pc = "feed" /\ main'.pc \in {"failing", "wait"} /\ ended' = ended
            /\ main'.batch = main.batch
         \/ /\ main.pc = "wait" /\ main'.pc = "take" /\ ended' = ended
            /\ main'.batch # {} /\ main'.batch \subseteq At({"done"})
         \/ main'.pc = "stopped"
  BY <1>1, <1>2 DEF MainStates
<1>5. PlaceOK'
  BY <1>1, <1>4 DEF GenInv, PlaceOK, InTry, At
<1>6. FuturesOK'
  <2>1. main'.pc \in InTry => main.pc \in {"feed", "wait"} /\ main'.pc \in {"wait", "take"}
    BY <1>4 DEF InTry
  <2>2. Active' = Active
    BY <1>1 DEF Active
  <2>3. QED
    BY <1>1, <1>4, <2>1, <2>2 DEF GenInv, FuturesOK, Writes, InTry
<1>7. RowsOK' /\ UnsavedBounded'
  BY <1>1, <1>4 DEF GenInv, RowsOK, UnsavedBounded, LabelRows
<1>8. LossOK'
  BY <1>1, <1>3, SameLoss
<1>9. QED
  BY <1>3, <1>5, <1>6, <1>7, <1>8 DEF GenInv

\* A run begins with no future, after the samples with a raw row have been counted.
LEMMA StartStep == ASSUME GenInv, Start PROVE GenInv'
<1>1. /\ main.pc = "stopped" /\ UNCHANGED <<settings, rows, status, torn>>
      /\ faults' = [faults EXCEPT !.starts = @ + 1]
      /\ \/ /\ ended' = "refused" /\ UNCHANGED <<main, job>>
         \/ /\ "raw" \notin torn /\ ended' = "none"
            /\ main' = [main EXCEPT !.pc = "feed", !.next = 1, !.completed = CompletedIds,
                                    !.batch = {}]
            /\ job' = [s \in Samples |-> NoJob]
  BY DEF Start, files
<1>2. /\ main \in MainStates /\ faults \in [starts : Nat, interrupts : Nat, kills : Nat]
      /\ torn \subseteq Files
  BY DEF GenInv, BaseOK
<1> DEFINE starts == faults.starts + 1
           done == CompletedIds
<1>3. starts \in Nat /\ done \subseteq Samples
  BY <1>2 DEF CompletedIds
<1>4. /\ faults' = [faults EXCEPT !.starts = starts]
      /\ done = {s \in Samples : rows["raw"][s] > 0}
  BY <1>1 DEF CompletedIds
<1> HIDE DEF starts, done
<1>5. /\ faults' \in [starts : Nat, interrupts : Nat, kills : Nat]
      /\ faults'.interrupts = faults.interrupts /\ faults'.kills = faults.kills
  BY <1>2, <1>3, <1>4
<1>6. CASE UNCHANGED <<main, job>> /\ ended' = "refused"
  <2>1. BaseOK'
    BY <1>1, <1>5, <1>6 DEF GenInv, BaseOK, Endings
  <2>2. PlaceOK' /\ FuturesOK' /\ RowsOK' /\ UnsavedBounded'
    BY <1>1, <1>6
       DEF GenInv, PlaceOK, FuturesOK, RowsOK, UnsavedBounded, InTry, LabelRows
  <2>3. LossOK'
    BY <1>1, <1>5, <1>6 DEF GenInv, LossOK, Lost, CutLabels, LabelRows
  <2>4. QED
    BY <2>1, <2>2, <2>3 DEF GenInv
<1>7. CASE /\ "raw" \notin torn /\ ended' = "none"
           /\ main' = [main EXCEPT !.pc = "feed", !.next = 1, !.completed = done,
                                   !.batch = {}]
           /\ job' = [s \in Samples |-> NoJob]
  <2>1. /\ main'.pc = "feed" /\ main'.next = 1 /\ main'.completed = done
        /\ main'.batch = {} /\ main' \in MainStates
    <3>1. 1 \in 1 .. N + 1
      BY Numbers
    <3>2. QED
      BY <1>2, <1>3, <1>7, <3>1 DEF MainStates, InTry
  <2>2. /\ job' \in [Samples -> Jobs] /\ \A s \in Samples : job'[s] = NoJob
    BY <1>7, NoJobFacts
  <2>3. BaseOK'
    BY <1>1, <1>5, <1>7, <2>1, <2>2 DEF GenInv, BaseOK, Endings
  <2>4. PlaceOK'
    BY <1>1, <1>7, <2>1, <2>2, NoJobFacts DEF PlaceOK, InTry
  <2>5. FuturesOK'
    <3>1. Active' = {}
      BY <2>2, NoJobFacts DEF Active
    <3>2. Cardinality(Active') = 0
      BY <3>1, FS_EmptySet
    <3>3. /\ settings'.concurrency \in Nat \ {0}
      BY <2>3, Numbers DEF BaseOK
    <3>4. /\ 0 <= 2 * settings'.concurrency /\ 0 < 2 * settings'.concurrency
      BY <3>3
    <3>5. \A s \in Samples : ~(s < 1)
      BY Numbers
    <3>6. \A s \in Samples : rows'["raw"][s] > 0 <=> s \in done
      BY <1>1, <1>4
    <3>7. QED
      BY <2>1, <3>1, <3>2, <3>4, <3>5, <3>6 DEF FuturesOK
  <2>6. RowsOK'
    BY <1>1, <2>1 DEF GenInv, RowsOK, LabelRows
  <2>7. LossOK'
    <3>1. Lost' = Lost /\ CutLabels' = CutLabels
      BY <1>1, <2>1 DEF Lost, CutLabels, LabelRows
    <3>2. QED
      BY <1>5, <3>1 DEF GenInv, LossOK
  <2>8. QED
    BY <2>1, <2>3, <2>4, <2>5, <2>6, <2>7, Unsaved DEF GenInv, InTry
<1>8. QED
  BY <1>1, <1>6, <1>7 DEF done

\* The next sample is skipped, or gets a future.
LEMMA SubmitStep == ASSUME GenInv, Submit PROVE GenInv'
<1> DEFINE s == main.next
           c == settings.concurrency
<1>1. /\ main.pc = "feed" /\ s <= N
      /\ UNCHANGED <<settings, rows, status, torn, faults, ended>>
      /\ \/ /\ s \in main.completed /\ main' = [main EXCEPT !.next = @ + 1]
            /\ UNCHANGED job
         \/ /\ s \notin main.completed
            /\ job' = [job EXCEPT ![s] = [NoJob EXCEPT !.at = "queued"]]
            /\ main' = [main EXCEPT !.next = @ + 1,
                          !.pc = IF Cardinality(Pending) + 1 >= 2 * c THEN "wait" ELSE "feed"]
  BY DEF Submit, files
<1>2. /\ main \in MainStates /\ s \in Samples /\ s + 1 \in 1 .. N + 1
      /\ job \in [Samples -> Jobs] /\ c \in Nat /\ main.batch = {}
      /\ "raw" \notin torn /\ ended = "none"
  BY <1>1, Numbers DEF GenInv, BaseOK, PlaceOK, MainStates, Samples, InTry
<1>3. Pending = Active /\ Active \in SUBSET Samples /\ Cardinality(Active) \in Nat
  <2>1. Pending = Active
    BY <1>2 DEF Pending, Active, At, Jobs
  <2>2. Active \in SUBSET Samples
    BY DEF Active
  <2>3. QED
    BY <2>1, <2>2, Finite
<1>4. /\ \A r \in Active : r < s /\ rows["raw"][r] = 0
      /\ \A r \in Samples : r < s /\ rows["raw"][r] = 0 => r \in Active
      /\ \A r \in Samples : s <= r => (rows["raw"][r] > 0 <=> r \in main.completed)
      /\ Cardinality(Active) < 2 * c
  BY <1>1 DEF GenInv, FuturesOK, Writes, InTry
<1>5. /\ rows["raw"][s] \in Nat /\ s \notin Active
      /\ rows["raw"][s] > 0 <=> s \in main.completed
  <2>1. rows["raw"][s] \in Nat
    BY <1>2 DEF GenInv, BaseOK, Files
  <2>2. s <= s /\ ~(s < s)
    BY <1>2, Numbers
  <2>3. QED
    BY <1>2, <1>4, <2>1, <2>2
<1> DEFINE after == s + 1
           full == Cardinality(Pending) + 1 >= 2 * c
           place == IF full THEN "wait" ELSE "feed"
<1>6. \/ /\ s \in main.completed /\ main' = [main EXCEPT !.next = after] /\ UNCHANGED job
      \/ /\ s \notin main.completed
         /\ job' = [job EXCEPT ![s] = [NoJob EXCEPT !.at = "queued"]]
         /\ main' = [main EXCEPT !.next = after, !.pc = place]
  BY <1>1
<1>7. /\ after \in 1 .. N + 1 /\ place \in {"wait", "feed"} /\ after = s + 1
      /\ place = "feed" => Cardinality(Active) + 1 < 2 * c
  BY <1>2, <1>3
<1> HIDE DEF after, place
<1>8. /\ main'.next = after /\ main'.batch = {} /\ main'.item = main.item
      /\ main'.completed = main.completed
      /\ main'.pc \in {"wait", "feed"} /\ main' \in MainStates
      /\ s \notin main.completed => main'.pc = place
      /\ s \in main.completed => main'.pc = "feed"
  BY <1>1, <1>2, <1>6, <1>7 DEF MainStates, InTry
<1>9. /\ job' \in [Samples -> Jobs]
      /\ \A r \in Samples : FutureOK(job'[r])
  BY <1>2, <1>6, NoJobFacts DEF GenInv, PlaceOK
<1>10. BaseOK'
  BY <1>1, <1>8, <1>9 DEF GenInv, BaseOK
<1>11. PlaceOK'
  BY <1>1, <1>2, <1>8, <1>9 DEF PlaceOK, InTry
<1>12. /\ s \in main.completed => Active' = Active
       /\ s \notin main.completed => Active' = Active \cup {s}
  BY <1>2, <1>6, NoJobFacts DEF Active
<1>13. FuturesOK'
  <2>0. \A a, b \in Nat : (a < b + 1 <=> a < b \/ a = b) /\ (b + 1 <= a => b <= a)
    OBVIOUS
  <2>a. s \in Nat /\ \A r \in Samples : r \in Nat
    BY <1>2, Numbers
  <2>b. \A r \in Samples : (r < s + 1 <=> r < s \/ r = s) /\ (s + 1 <= r => s <= r)
    BY <2>0, <2>a
  <2>c. after = s + 1
    BY <1>7
  <2>1. \A r \in Samples : r < after <=> r < s \/ r = s
    BY <2>b, <2>c
  <2>2. \A r \in Samples : after <= r => s <= r
    BY <2>b, <2>c
  <2>3. \A r \in Active' : r < after /\ rows'["raw"][r] = 0
    <3>1. s \notin main.completed => rows["raw"][s] = 0
      BY <1>5
    <3>2. \A r \in Active' : r \in Active \/ (r = s /\ s \notin main.completed)
      BY <1>12
    <3>3. Active' \subseteq Samples
      BY DEF Active
    <3>4. QED
      BY <1>1, <1>4, <2>1, <3>1, <3>2, <3>3
  <2>4. \A r \in Samples : r < after /\ rows'["raw"][r] = 0 => r \in Active'
    <3>1. s \in main.completed => rows["raw"][s] # 0
      BY <1>5
    <3>2. QED
      BY <1>1, <1>4, <1>12, <2>1, <3>1
  <2>5. \A r \in Samples : after <= r => (rows'["raw"][r] > 0 <=> r \in main'.completed)
    BY <1>1, <1>4, <1>8, <2>2
  <2>6. /\ Cardinality(Active') <= 2 * c
        /\ main'.pc = "feed" => Cardinality(Active') < 2 * c
    <3>1. CASE s \in main.completed
      BY <1>2, <1>3, <1>4, <1>12, <3>1
    <3>2. CASE s \notin main.completed
      <4>1. Cardinality(Active') <= Cardinality(Active) + 1 /\ Cardinality(Active') \in Nat
        <5>1. Active' \in SUBSET Samples
          BY DEF Active
        <5>2. QED
          BY <1>2, <1>3, <1>12, <3>2, <5>1, Finite
      <4>2. main'.pc = place
        BY <1>8, <3>2
      <4>3. \A a, b, k \in Nat : a <= b + 1 /\ b < 2 * k =>
               a <= 2 * k /\ (b + 1 < 2 * k => a < 2 * k)
        OBVIOUS
      <4>4. /\ Cardinality(Active') <= 2 * c
            /\ Cardinality(Active) + 1 < 2 * c => Cardinality(Active') < 2 * c
        BY <1>2, <1>3, <1>4, <4>1, <4>3
      <4>5. place = "feed" => Cardinality(Active) + 1 < 2 * c
        BY <1>7
      <4>6. QED
        BY <4>2, <4>4, <4>5
    <3>3. QED
      BY <3>1, <3>2
  <2>7. QED
    BY <1>1, <1>8, <2>3, <2>4, <2>5, <2>6 DEF FuturesOK
<1>14. RowsOK'
  BY <1>1, <1>8 DEF GenInv, RowsOK, LabelRows
<1>15. LossOK'
  BY <1>1, <1>10, SameLoss
<1>16. UnsavedBounded'
  BY <1>8, <1>10, <1>13, Unsaved DEF InTry
<1>17. QED
  BY <1>10, <1>11, <1>13, <1>14, <1>15, <1>16 DEF GenInv

\* The label that was about to be written is lost with the run.
LEMMA ItemLost ==
    ASSUME GenInv, UNCHANGED <<rows, status>>
    PROVE  Lost' \subseteq IF main.pc = "label" THEN Lost \cup {main.item} ELSE Lost
BY DEF Lost, LabelRows

LEMMA InterruptStep == ASSUME GenInv, Interrupt PROVE GenInv'
<1> DEFINE more == faults.interrupts + 1
<1>1. /\ main.pc \in InTry
      /\ faults' = [faults EXCEPT !.interrupts = more]
      /\ main' = [main EXCEPT !.pc = "interrupted"]
      /\ job' = [s \in Samples |-> IF job[s].at = "queued" THEN NoJob ELSE job[s]]
      /\ UNCHANGED <<settings, rows, status, torn, ended>>
  BY DEF Interrupt, files
<1>2. /\ main \in MainStates /\ faults \in [starts : Nat, interrupts : Nat, kills : Nat]
      /\ more \in Nat
  BY DEF GenInv, BaseOK
<1> HIDE DEF more
<1>3. /\ faults' \in [starts : Nat, interrupts : Nat, kills : Nat]
      /\ faults'.interrupts = more /\ faults'.kills = faults.kills
  BY <1>1, <1>2
<1>4. /\ main'.pc = "interrupted" /\ main'.next = main.next /\ main' \in MainStates
  BY <1>1, <1>2 DEF MainStates
<1>5. /\ job' \in [Samples -> Jobs] /\ \A s \in Samples : FutureOK(job'[s])
  BY <1>1, NoJobFacts DEF GenInv, BaseOK, PlaceOK
<1>6. BaseOK'
  BY <1>1, <1>3, <1>4, <1>5 DEF GenInv, BaseOK
<1>7. PlaceOK' /\ FuturesOK'
  BY <1>1, <1>4, <1>5 DEF GenInv, PlaceOK, FuturesOK, InTry
<1>8. RowsOK' /\ UnsavedBounded'
  BY <1>1, <1>4 DEF GenInv, RowsOK, UnsavedBounded, LabelRows
<1>9. LossOK'
  <2>1. Cardinality(Lost') <= Cardinality(Lost) + 1
    <3>1. Lost' \subseteq Lost \cup {main.item} /\ main.item \in Samples
      BY <1>1, <1>2, ItemLost DEF MainStates
    <3>2. Lost \in SUBSET Samples /\ Lost' \in SUBSET Samples
      BY DEF Lost
    <3>3. Lost \cup {main.item} \in SUBSET Samples
      BY <3>1, <3>2
    <3>4. /\ Cardinality(Lost') <= Cardinality(Lost \cup {main.item})
          /\ Cardinality(Lost \cup {main.item}) <= Cardinality(Lost) + 1
          /\ Cardinality(Lost') \in Nat /\ Cardinality(Lost) \in Nat
          /\ Cardinality(Lost \cup {main.item}) \in Nat
      BY <3>1, <3>2, <3>3, Finite
    <3>5. QED
      BY <3>4
  <2>2. CutLabels' = CutLabels
    BY <1>1 DEF CutLabels
  <2>3. /\ Cardinality(Lost) \in Nat /\ Cardinality(CutLabels) \in Nat
        /\ Cardinality(Lost') \in Nat
    BY Finite, FiniteFiles DEF Lost, CutLabels
  <2>4. faults.interrupts \in Nat /\ faults.kills \in Nat /\ more = faults.interrupts + 1
    BY <1>2 DEF more
  <2>5. Cardinality(Lost) + Cardinality(CutLabels) <= faults.interrupts + 2 * faults.kills
    BY DEF GenInv, LossOK
  <2>6. Cardinality(Lost') + Cardinality(CutLabels) <= more + 2 * faults.kills
    BY <2>1, <2>3, <2>4, <2>5
  <2>7. QED
    BY <1>3, <2>2, <2>6 DEF LossOK
<1>10. QED
  BY <1>6, <1>7, <1>8, <1>9 DEF GenInv

\* A kill loses the label that was about to be written, and may cut its line.
LEMMA KillStep == ASSUME GenInv, Kill PROVE GenInv'
<1> DEFINE more == faults.kills + 1
<1>1. /\ main.pc # "stopped"
      /\ faults' = [faults EXCEPT !.kills = more]
      /\ main' = [main EXCEPT !.pc = "stopped", !.batch = {}]
      /\ job' = [s \in Samples |-> NoJob]
      /\ \E cut \in SUBSET Writing : torn' = torn \cup cut
      /\ ended' = "killed"
      /\ UNCHANGED <<settings, rows, status>>
  BY DEF Kill
<1>2. /\ main \in MainStates /\ faults \in [starts : Nat, interrupts : Nat, kills : Nat]
      /\ more \in Nat /\ torn \subseteq Files
  BY DEF GenInv, BaseOK
<1> HIDE DEF more
<1>3. /\ faults' \in [starts : Nat, interrupts : Nat, kills : Nat]
      /\ faults'.kills = more /\ faults'.interrupts = faults.interrupts
  BY <1>1, <1>2
<1>4. /\ main'.pc = "stopped" /\ main'.next = main.next /\ main' \in MainStates
  BY <1>1, <1>2 DEF MainStates
<1>5. /\ job' \in [Samples -> Jobs] /\ \A s \in Samples : FutureOK(job'[s])
  BY <1>1, NoJobFacts
<1>6. /\ Writing \subseteq Files
      /\ main.pc = "label" => Writing = {job[main.item].label}
                              /\ job[main.item].label \in LabelFiles
      /\ main.pc # "label" => Writing \cap LabelFiles = {}
  BY DEF Writing, GenInv, PlaceOK, Files, LabelFiles
<1>7. BaseOK'
  BY <1>1, <1>2, <1>3, <1>4, <1>5, <1>6 DEF GenInv, BaseOK, Endings
<1>8. PlaceOK' /\ FuturesOK'
  BY <1>1, <1>4, <1>5 DEF PlaceOK, FuturesOK, InTry
<1>9. RowsOK' /\ UnsavedBounded'
  BY <1>1, <1>4 DEF GenInv, RowsOK, UnsavedBounded, LabelRows
<1>10. LossOK'
  <2>1. /\ Lost \in SUBSET Samples /\ Lost' \in SUBSET Samples /\ main.item \in Samples
        /\ CutLabels \in SUBSET LabelFiles /\ CutLabels' \in SUBSET LabelFiles
    BY <1>2 DEF Lost, CutLabels, MainStates
  <2>2. /\ Cardinality(Lost) \in Nat /\ Cardinality(CutLabels) \in Nat
        /\ Cardinality(Lost') \in Nat /\ Cardinality(CutLabels') \in Nat
        /\ faults.interrupts \in Nat /\ faults.kills \in Nat /\ more = faults.kills + 1
    BY <1>2, <2>1, Finite, FiniteFiles DEF more
  <2>3. Cardinality(Lost) + Cardinality(CutLabels) <= faults.interrupts + 2 * faults.kills
    BY DEF GenInv, LossOK
  <2>4. Cardinality(Lost') <= Cardinality(Lost) + 1
    <3>1. Lost' \subseteq Lost \cup {main.item} /\ Lost \cup {main.item} \in SUBSET Samples
      BY <1>1, <2>1, ItemLost
    <3>2. /\ Cardinality(Lost') <= Cardinality(Lost \cup {main.item})
          /\ Cardinality(Lost \cup {main.item}) <= Cardinality(Lost) + 1
          /\ Cardinality(Lost \cup {main.item}) \in Nat
      BY <2>1, <3>1, Finite
    <3>3. QED
      BY <2>2, <3>2
  <2>5. Cardinality(CutLabels') <= Cardinality(CutLabels) + 1
    <3>1. CASE CutLabels' \subseteq CutLabels
      BY <2>1, <2>2, <3>1, FiniteLabels, FS_Subset
    <3>2. CASE ~(CutLabels' \subseteq CutLabels)
      <4>1. /\ main.pc = "label" /\ job[main.item].label \in LabelFiles
            /\ CutLabels' = CutLabels \cup {job[main.item].label}
        BY <1>1, <1>6, <3>2 DEF CutLabels
      <4>2. QED
        BY <2>1, <4>1, FiniteFiles
    <3>3. QED
      BY <3>1, <3>2
  <2>6. Cardinality(Lost') + Cardinality(CutLabels') <= faults.interrupts + 2 * more
    BY <2>2, <2>3, <2>4, <2>5
  <2>7. QED
    BY <1>3, <2>6 DEF LossOK
<1>11. QED
  BY <1>7, <1>8, <1>9, <1>10 DEF GenInv

-------------------------------------------------------------------------------
\* The rows.  One is appended, or lost in the line it follows.
LEMMA AppendRowFacts ==
    ASSUME BaseOK, NEW f \in Files, NEW s \in Samples, AppendRow(f, s)
    PROVE  /\ rows' \in [Files -> [Samples -> Nat]] /\ torn' \subseteq torn
           /\ \A g \in Files : \A r \in Samples :
                 g # f \/ r # s => rows'[g][r] = rows[g][r]
           /\ f \in torn => rows' = rows /\ torn' = torn \ {f}
           /\ f \notin torn => rows'[f][s] = rows[f][s] + 1 /\ torn' = torn
<1> DEFINE more == rows[f][s] + 1
<1>1. rows \in [Files -> [Samples -> Nat]] /\ more \in Nat
  BY DEF BaseOK
<1>2. \/ f \in torn /\ torn' = torn \ {f} /\ rows' = rows
      \/ f \notin torn /\ torn' = torn /\ rows' = [rows EXCEPT ![f] = [rows[f] EXCEPT ![s] = more]]
  BY <1>1 DEF AppendRow
<1> HIDE DEF more
<1>3. CASE f \in torn
  BY <1>1, <1>2, <1>3
<1>4. CASE f \notin torn
  <2>1. rows' = [rows EXCEPT ![f] = [rows[f] EXCEPT ![s] = more]] /\ torn' = torn
    BY <1>2, <1>4
  <2>2. [rows[f] EXCEPT ![s] = more] \in [Samples -> Nat]
    BY <1>1
  <2>3. /\ rows' \in [Files -> [Samples -> Nat]]
        /\ rows'[f] = [rows[f] EXCEPT ![s] = more]
        /\ \A g \in Files : g # f => rows'[g] = rows[g]
    BY <1>1, <2>1, <2>2
  <2>4. rows'[f][s] = more /\ \A r \in Samples : r # s => rows'[f][r] = rows[f][r]
    BY <1>1, <2>3
  <2>5. QED
    BY <1>4, <2>1, <2>3, <2>4 DEF more
<1>5. QED
  BY <1>3, <1>4

\* What a row of one file leaves alone.
LEMMA RowTypes ==
    ASSUME BaseOK, NEW s \in Samples
    PROVE  /\ rows["raw"][s] \in Nat /\ rows["reviews"][s] \in Nat
           /\ rows["valid"][s] \in Nat /\ rows["repaired"][s] \in Nat
           /\ rows["rejected"][s] \in Nat
           /\ LabelRows(s) = rows["valid"][s] + rows["repaired"][s] + rows["rejected"][s]
           /\ LabelRows(s) \in Nat
<1>1. \A f \in Files : rows[f][s] \in Nat
  BY DEF BaseOK
<1>2. /\ rows["raw"][s] \in Nat /\ rows["reviews"][s] \in Nat
      /\ rows["valid"][s] \in Nat /\ rows["repaired"][s] \in Nat
      /\ rows["rejected"][s] \in Nat
  BY <1>1 DEF Files
<1>3. QED
  BY <1>2 DEF LabelRows

\* When the outcome of an item is written, its future is gone.
LEMMA FutureGone ==
    ASSUME BaseOK, NEW s \in Active, main.pc \in InTry, FuturesOK,
           job' = [job EXCEPT ![s] = NoJob]
    PROVE  /\ Active' = Active \ {s} /\ Cardinality(Active') \in Nat
           /\ Cardinality(Active') < 2 * settings.concurrency
           /\ job' \in [Samples -> Jobs]
           /\ \A r \in Samples : job'[r] = IF r = s THEN NoJob ELSE job[r]
<1>1. s \in Samples /\ Active \in SUBSET Samples
  BY DEF Active
<1>2. /\ job' \in [Samples -> Jobs]
      /\ \A r \in Samples : job'[r] = IF r = s THEN NoJob ELSE job[r]
  BY <1>1, NoJobFacts DEF BaseOK
<1>3. Active' = Active \ {s}
  BY <1>2, NoJobFacts DEF Active
<1>4. /\ Cardinality(Active') = Cardinality(Active) - 1
      /\ Cardinality(Active) \in Nat /\ Cardinality(Active') \in Nat
  <2>1. Active \ {s} \in SUBSET Samples
    BY <1>1
  <2>2. QED
    BY <1>1, <1>3, <2>1, Finite
<1>5. settings.concurrency \in Nat /\ Cardinality(Active) <= 2 * settings.concurrency
  BY Numbers DEF BaseOK, FuturesOK
<1>6. QED
  BY <1>2, <1>3, <1>4, <1>5

\* The raw row of a future that is done.
LEMMA RawStep == ASSUME GenInv, AppendRaw PROVE GenInv'
<1>1. PICK s \in main.batch :
        /\ AppendRow("raw", s)
        /\ status' = [status EXCEPT ![s] = job[s].status]
        /\ main' = [main EXCEPT !.item = s, !.batch = @ \ {s},
                                !.pc = IF job[s].label # "none" THEN "label"
                                       ELSE AfterItem(main.batch \ {s})]
        /\ job' = IF job[s].label # "none" THEN job ELSE [job EXCEPT ![s] = NoJob]
  BY DEF AppendRaw
<1>2. main.pc = "take" /\ UNCHANGED <<settings, faults, ended>>
  BY DEF AppendRaw
<1>3. /\ BaseOK /\ main \in MainStates /\ s \in Samples /\ main.batch \subseteq Samples
      /\ job[s] \in Jobs /\ job[s].at = "done" /\ s \in Active
      /\ "raw" \notin torn /\ ended = "none"
  BY <1>2 DEF GenInv, BaseOK, PlaceOK, MainStates, InTry, Active
<1>4. /\ s < main.next /\ rows["raw"][s] = 0
      /\ \A r \in Active : r < main.next /\ rows["raw"][r] = 0
      /\ \A r \in Samples : r < main.next /\ rows["raw"][r] = 0 => r \in Active
      /\ \A r \in Samples : main.next <= r => (rows["raw"][r] > 0 <=> r \in main.completed)
      /\ Cardinality(Active) <= 2 * settings.concurrency
  BY <1>2, <1>3 DEF GenInv, FuturesOK, Writes, InTry
<1>5. /\ job[s].status \in Statuses
      /\ job[s].label # "none" <=> job[s].label \in LabelFiles
      /\ job[s].label \in LabelFiles <=> job[s].status = "generated"
  BY <1>3 DEF GenInv, PlaceOK, FutureOK, Jobs, LabelFiles
<1>6. /\ rows' \in [Files -> [Samples -> Nat]] /\ torn' = torn /\ rows'["raw"][s] = 1
      /\ \A g \in Files : \A r \in Samples :
            g # "raw" \/ r # s => rows'[g][r] = rows[g][r]
  BY <1>1, <1>3, <1>4, AppendRowFacts DEF Files
<1>7. /\ status' \in [Samples -> Statuses \cup {"none"}] /\ status'[s] = job[s].status
      /\ \A r \in Samples \ {s} : status'[r] = status[r]
  BY <1>1, <1>3, <1>5 DEF BaseOK
<1> DEFINE rest == main.batch \ {s}
           place == IF job[s].label # "none" THEN "label" ELSE AfterItem(rest)
<1>8. /\ main' = [main EXCEPT !.item = s, !.batch = rest, !.pc = place]
      /\ place \in {"label", "feed", "take"}
      /\ place = "label" <=> job[s].label # "none"
      /\ place = "feed" => rest = {}
      /\ place = "take" => rest # {}
      /\ rest \subseteq Samples /\ rest \subseteq main.batch /\ s \notin rest
  BY <1>1, <1>3 DEF AfterItem
<1> HIDE DEF rest, place
<1>9. /\ main'.item = s /\ main'.batch = rest /\ main'.pc = place
      /\ main'.next = main.next /\ main'.completed = main.completed
      /\ main' \in MainStates
  BY <1>3, <1>8 DEF MainStates, InTry
<1>10. /\ job' \in [Samples -> Jobs]
       /\ \A r \in Samples \ {s} : job'[r] = job[r]
       /\ place = "label" => job' = job /\ Active' = Active
       /\ place # "label" => /\ job'[s] = NoJob /\ Active' = Active \ {s}
                             /\ Cardinality(Active') < 2 * settings.concurrency
                             /\ Cardinality(Active') \in Nat
  <2>1. CASE place = "label"
    <3>1. job' = job
      BY <1>1, <1>8, <2>1
    <3>2. QED
      BY <2>1, <3>1 DEF GenInv, BaseOK, Active
  <2>2. CASE place # "label"
    <3>1. job' = [job EXCEPT ![s] = NoJob]
      BY <1>1, <1>8, <2>2
    <3>2. main.pc \in InTry /\ FuturesOK
      BY <1>2 DEF GenInv, InTry
    <3>3. /\ Active' = Active \ {s} /\ Cardinality(Active') \in Nat
          /\ Cardinality(Active') < 2 * settings.concurrency
          /\ job' \in [Samples -> Jobs]
          /\ \A r \in Samples : job'[r] = IF r = s THEN NoJob ELSE job[r]
      BY <1>3, <3>1, <3>2, FutureGone
    <3>4. QED
      BY <1>3, <2>2, <3>3
  <2>3. QED
    BY <2>1, <2>2
<1>11. BaseOK'
  BY <1>2, <1>3, <1>6, <1>7, <1>9, <1>10 DEF BaseOK
<1>12. PlaceOK'
  <2>1. \A r \in Samples : FutureOK(job'[r])
    BY <1>10, NoJobFacts DEF GenInv, PlaceOK
  <2>2. \A r \in rest : job'[r].at = "done"
    BY <1>2, <1>3, <1>8, <1>10 DEF GenInv, PlaceOK, InTry
  <2>3. place = "label" => job'[s].at = "done" /\ job'[s].label \in LabelFiles
    BY <1>3, <1>5, <1>8, <1>10
  <2>4. QED
    BY <1>2, <1>3, <1>6, <1>8, <1>9, <2>1, <2>2, <2>3 DEF PlaceOK, InTry
<1>13. FuturesOK'
  <2>1. \A r \in Samples \ {s} : rows'["raw"][r] = rows["raw"][r]
    BY <1>6 DEF Files
  <2>2. \A r \in Active' : r \in Active /\ r \in Samples /\ (r = s => place = "label")
    BY <1>10 DEF Active
  <2>3. \A r \in Active' : r < main.next /\ ((place = "label" /\ r = s) \/ rows'["raw"][r] = 0)
    BY <1>4, <2>1, <2>2
  <2>4. \A r \in Samples : r < main.next /\ rows'["raw"][r] = 0 => r \in Active'
    BY <1>4, <1>6, <1>10, <2>1
  <2>5. \A r \in Samples :
            main.next <= r => (rows'["raw"][r] > 0 <=> r \in main.completed)
    <3>1. \A r \in Samples : main.next <= r => r # s
      BY <1>3, <1>4, Numbers DEF MainStates
    <3>2. QED
      BY <1>4, <2>1, <3>1
  <2>6. /\ Cardinality(Active') <= 2 * settings'.concurrency
        /\ place = "feed" => Cardinality(Active') < 2 * settings'.concurrency
    <3>1. settings.concurrency \in Nat
      BY <1>3, Numbers DEF BaseOK
    <3>2. QED
      BY <1>2, <1>4, <1>8, <1>10, <3>1
  <2>7. QED
    BY <1>9, <2>3, <2>4, <2>5, <2>6 DEF FuturesOK, Writes
<1>14. RowsOK'
  <2>1. \A r \in Samples : LabelRows(r)' = LabelRows(r) /\ rows'["reviews"][r] = rows["reviews"][r]
    BY <1>6 DEF LabelRows, Files
  <2>2. /\ LabelRows(s) = 0 /\ rows["reviews"][s] = 0
    BY <1>3, <1>4 DEF GenInv, RowsOK
  <2>3. \A r \in Samples \ {s} : rows'["raw"][r] = rows["raw"][r]
    BY <1>6 DEF Files
  <2>4. place = "label" => status'[s] = "generated"
    BY <1>5, <1>7, <1>8
  <2>5. \A r \in Samples :
          /\ rows'["raw"][r] <= 1 /\ rows'["reviews"][r] <= 1 /\ LabelRows(r)' <= 1
          /\ rows'["raw"][r] = 0 => LabelRows(r)' = 0 /\ rows'["reviews"][r] = 0
          /\ rows'["raw"][r] = 1 => status'[r] \in Statuses
          /\ LabelRows(r)' = 1 => status'[r] = "generated"
    <3> TAKE r \in Samples
    <3>1. CASE r = s
      BY <1>5, <1>6, <1>7, <2>1, <2>2, <3>1
    <3>2. CASE r # s
      BY <1>7, <2>1, <2>3, <3>2 DEF GenInv, RowsOK
    <3>3. QED
      BY <3>1, <3>2
  <2>6. /\ place \in {"label", "review"} => rows'["raw"][s] = 1 /\ rows'["reviews"][s] = 0
        /\ place = "label" => LabelRows(s)' = 0
    BY <1>3, <1>6, <2>1, <2>2
  <2> DEFINE i == main'.item
  <2>7. i = s
    BY <1>9
  <2>8. /\ main'.pc \in {"label", "review"} => rows'["raw"][i] = 1 /\ rows'["reviews"][i] = 0
        /\ main'.pc = "label" => LabelRows(s)' = 0 /\ status'[i] = "generated"
    BY <1>9, <2>4, <2>6, <2>7
  <2>9. LabelRows(main.item)' = LabelRows(s)'
    BY <2>7 DEF LabelRows
  <2>10. QED
    BY <2>5, <2>8, <2>9 DEF RowsOK
<1>15. LossOK'
  <2>1. Lost' \subseteq Lost
    <3>1. ASSUME NEW r \in Lost' PROVE r \in Lost
      <4>1. r \in Samples /\ rows'["raw"][r] = 1 /\ status'[r] = "generated"
            /\ LabelRows(r)' = 0 /\ ~(main'.pc = "label" /\ main'.item = r)
        BY DEF Lost
      <4>2. r # s
        BY <1>5, <1>7, <1>8, <1>9, <4>1
      <4>3. rows["raw"][r] = 1 /\ status[r] = "generated" /\ LabelRows(r) = 0
        BY <1>6, <1>7, <4>1, <4>2 DEF LabelRows, Files
      <4>4. QED
        BY <1>2, <4>1, <4>3 DEF Lost
    <3>2. QED
      BY <3>1
  <2>2. CutLabels' \subseteq CutLabels
    BY <1>6 DEF CutLabels
  <2>3. /\ faults'.interrupts >= faults.interrupts /\ faults'.kills >= faults.kills
    BY <1>2, <1>3 DEF BaseOK
  <2>4. QED
    BY <1>11, <2>1, <2>2, <2>3, LossKept DEF GenInv
<1>16. UnsavedBounded'
  BY <1>8, <1>9, <1>11, <1>13, Unsaved DEF InTry
<1>17. QED
  BY <1>11, <1>12, <1>13, <1>14, <1>15, <1>16 DEF GenInv

\* Where the main thread goes after the last row of an item.
LEMMA Consumed ==
    ASSUME GenInv, main.pc \in {"label", "review"}, NEW i \in Samples, i = main.item,
           UNCHANGED <<settings, faults, ended>>, torn' \subseteq torn,
           main' = [main EXCEPT !.pc = AfterItem(main.batch)],
           job' = [job EXCEPT ![i] = NoJob],
           rows' \in [Files -> [Samples -> Nat]],
           rows'["raw"] = rows["raw"], UNCHANGED status
    PROVE  BaseOK' /\ PlaceOK' /\ FuturesOK' /\ main'.pc \in {"feed", "take"}
<1> DEFINE place == AfterItem(main.batch)
<1>1. /\ BaseOK /\ FuturesOK /\ main \in MainStates /\ main.pc \in InTry
      /\ job[i].at = "done" /\ i \in Active /\ i \notin main.batch
      /\ "raw" \notin torn /\ ended = "none"
      /\ \A r \in main.batch : job[r].at = "done"
      /\ main.batch \subseteq Samples
  BY DEF GenInv, BaseOK, PlaceOK, MainStates, InTry, Active
<1>2. /\ place \in {"feed", "take"} /\ main' = [main EXCEPT !.pc = place]
      /\ place = "feed" => main.batch = {}
      /\ place = "take" => main.batch # {}
  BY DEF AfterItem
<1> HIDE DEF place
<1>3. /\ main'.pc = place /\ main'.next = main.next /\ main'.batch = main.batch
      /\ main'.completed = main.completed /\ main' \in MainStates
  BY <1>1, <1>2 DEF MainStates, InTry
<1>4. /\ Active' = Active \ {i} /\ Cardinality(Active') \in Nat
      /\ Cardinality(Active') < 2 * settings.concurrency
      /\ job' \in [Samples -> Jobs]
      /\ \A r \in Samples : job'[r] = IF r = i THEN NoJob ELSE job[r]
  BY <1>1, FutureGone
<1>5. BaseOK'
  BY <1>1, <1>3, <1>4 DEF BaseOK
<1>6. PlaceOK'
  <2>1. \A r \in Samples : FutureOK(job'[r])
    BY <1>4, NoJobFacts DEF GenInv, PlaceOK
  <2>2. \A r \in main.batch : job'[r].at = "done"
    BY <1>1, <1>4
  <2>3. QED
    BY <1>1, <1>2, <1>3, <2>1, <2>2 DEF PlaceOK
<1>7. FuturesOK'
  <2>1. /\ \A r \in Active : r < main.next /\ (r = i \/ rows["raw"][r] = 0)
        /\ \A r \in Samples : r < main.next /\ rows["raw"][r] = 0 => r \in Active
        /\ \A r \in Samples : main.next <= r => (rows["raw"][r] > 0 <=> r \in main.completed)
    BY <1>1 DEF FuturesOK, Writes
  <2>2. rows["raw"][i] = 1
    BY DEF GenInv, RowsOK
  <2>3. Cardinality(Active') <= 2 * settings.concurrency
    <3>1. settings.concurrency \in Nat
      BY <1>1, Numbers DEF BaseOK
    <3>2. QED
      BY <1>4, <3>1
  <2>4. \A r \in Active' : r < main.next /\ rows'["raw"][r] = 0
    BY <1>4, <2>1
  <2>5. \A r \in Samples : r < main.next /\ rows'["raw"][r] = 0 => r \in Active'
    BY <1>4, <2>1, <2>2
  <2>6. QED
    BY <1>3, <1>4, <2>1, <2>3, <2>4, <2>5 DEF FuturesOK
<1>8. QED
  BY <1>2, <1>3, <1>5, <1>6, <1>7

\* The label of an item that is recorded as generated.
LEMMA LabelStep == ASSUME GenInv, AppendLabel PROVE GenInv'
<1>0. PICK i \in Samples : i = main.item
  BY DEF GenInv, BaseOK, MainStates
<1> DEFINE f == job[i].label
<1>1. /\ main.pc = "label" /\ AppendRow(f, i) /\ UNCHANGED <<settings, status, faults, ended>>
      /\ \/ main' = [main EXCEPT !.pc = "review"] /\ UNCHANGED job
         \/ /\ main' = [main EXCEPT !.pc = AfterItem(main.batch)]
            /\ job' = [job EXCEPT ![i] = NoJob]
  BY <1>0 DEF AppendLabel
<1>2. /\ BaseOK /\ main \in MainStates /\ i \in Samples /\ f \in LabelFiles /\ f \in Files
      /\ f # "raw" /\ f # "reviews"
      /\ rows["raw"][i] = 1 /\ rows["reviews"][i] = 0
      /\ LabelRows(i) = 0 /\ status[i] = "generated"
  BY <1>0, <1>1 DEF GenInv, BaseOK, PlaceOK, RowsOK, MainStates, LabelFiles, Files
<1> HIDE DEF f
<1>3. /\ rows' \in [Files -> [Samples -> Nat]] /\ torn' \subseteq torn
      /\ \A g \in Files : \A r \in Samples : g # f \/ r # i => rows'[g][r] = rows[g][r]
      /\ f \in torn => rows' = rows /\ torn' = torn \ {f}
      /\ f \notin torn => rows'[f][i] = rows[f][i] + 1 /\ torn' = torn
  BY <1>1, <1>2, AppendRowFacts
<1>4. /\ rows'["raw"] = rows["raw"]
      /\ \A r \in Samples : rows'["reviews"][r] = rows["reviews"][r]
      /\ \A r \in Samples \ {i} : LabelRows(r)' = LabelRows(r)
  <2>1. \A r \in Samples : rows'["raw"][r] = rows["raw"][r]
    BY <1>2, <1>3 DEF Files
  <2>2. rows'["raw"] = rows["raw"]
    BY <1>2, <1>3, <2>1 DEF BaseOK, Files
  <2>3. QED
    BY <1>2, <1>3, <2>2 DEF Files, LabelRows
<1>5. LabelRows(i)' = IF f \in torn THEN 0 ELSE 1
  <2>1. CASE f \in torn
    BY <1>2, <1>3, <2>1 DEF LabelRows
  <2>2. CASE f \notin torn
    <3>1. /\ rows["valid"][i] = 0 /\ rows["repaired"][i] = 0 /\ rows["rejected"][i] = 0
      BY <1>2, RowTypes
    <3>2. \A g \in LabelFiles : rows'[g][i] = IF g = f THEN 1 ELSE 0
      BY <1>2, <1>3, <2>2, <3>1 DEF Files, LabelFiles
    <3>3. QED
      BY <1>2, <2>2, <3>2 DEF LabelRows, LabelFiles
  <2>3. QED
    BY <2>1, <2>2
<1>6. BaseOK' /\ PlaceOK' /\ FuturesOK' /\ main'.pc \in {"feed", "take", "review"}
      /\ (main'.pc = "review" => main'.item = i)
  <2>1. CASE main' = [main EXCEPT !.pc = "review"] /\ UNCHANGED job
    <3>1. /\ main'.pc = "review" /\ main'.item = i /\ main'.next = main.next
          /\ main'.batch = main.batch /\ main'.completed = main.completed
          /\ main' \in MainStates
      BY <1>0, <1>2, <2>1 DEF MainStates, InTry
    <3>2. BaseOK'
      BY <1>1, <1>2, <1>3, <2>1, <3>1 DEF BaseOK
    <3>3. PlaceOK'
      BY <1>0, <1>1, <1>3, <2>1, <3>1 DEF GenInv, PlaceOK, InTry
    <3>4. FuturesOK'
      <4>1. Active' = Active
        BY <2>1 DEF Active
      <4>2. QED
        BY <1>0, <1>1, <1>4, <3>1, <4>1 DEF GenInv, FuturesOK, Writes, InTry
    <3>5. QED
      BY <3>1, <3>2, <3>3, <3>4
  <2>2. CASE /\ main' = [main EXCEPT !.pc = AfterItem(main.batch)]
             /\ job' = [job EXCEPT ![i] = NoJob]
    <3>1. main.pc \in {"label", "review"} /\ i = main.item
      BY <1>0, <1>1
    <3>2. BaseOK' /\ PlaceOK' /\ FuturesOK' /\ main'.pc \in {"feed", "take"}
      BY <1>1, <1>2, <1>3, <1>4, <2>2, <3>1, Consumed
    <3>3. QED
      BY <3>2
  <2>3. QED
    BY <1>1, <2>1, <2>2
<1>7. RowsOK'
  <2>1. \A r \in Samples :
          /\ rows'["raw"][r] <= 1 /\ rows'["reviews"][r] <= 1 /\ LabelRows(r)' <= 1
          /\ rows'["raw"][r] = 0 => LabelRows(r)' = 0 /\ rows'["reviews"][r] = 0
          /\ rows'["raw"][r] = 1 => status'[r] \in Statuses
          /\ LabelRows(r)' = 1 => status'[r] = "generated"
    <3> TAKE r \in Samples
    <3>1. CASE r = i
      BY <1>1, <1>2, <1>4, <1>5, <3>1 DEF Statuses
    <3>2. CASE r # i
      BY <1>1, <1>4, <3>2 DEF GenInv, RowsOK
    <3>3. QED
      BY <3>1, <3>2
  <2>2. main'.pc = "review" => rows'["raw"][main'.item] = 1 /\ rows'["reviews"][main'.item] = 0
    BY <1>2, <1>4, <1>6
  <2>3. QED
    BY <1>6, <2>1, <2>2 DEF RowsOK
<1>8. LossOK'
  <2>1. /\ Lost \in SUBSET Samples /\ Lost' \in SUBSET Samples
        /\ CutLabels \in SUBSET LabelFiles
    BY DEF Lost, CutLabels
  <2>2. \A r \in Lost' : r # i => r \in Lost
    <3> TAKE r \in Lost'
    <3>1. /\ r \in Samples /\ rows'["raw"][r] = 1 /\ status'[r] = "generated"
          /\ LabelRows(r)' = 0
      BY DEF Lost
    <3>2. QED
      BY <1>0, <1>1, <1>4, <3>1 DEF Lost
  <2>3. CASE f \notin torn
    <3>1. Lost' \subseteq Lost
      BY <1>5, <2>2, <2>3 DEF Lost
    <3>2. CutLabels' \subseteq CutLabels
      BY <1>3 DEF CutLabels
    <3>3. /\ faults'.interrupts >= faults.interrupts /\ faults'.kills >= faults.kills
      BY <1>1, <1>2 DEF BaseOK
    <3>4. QED
      BY <1>2, <1>6, <3>1, <3>2, <3>3, LossKept DEF GenInv
  <2>4. CASE f \in torn
    <3>1. /\ Lost' \subseteq Lost \cup {i} /\ Lost \cup {i} \in SUBSET Samples
      BY <1>2, <2>1, <2>2
    <3>2. /\ Cardinality(Lost') <= Cardinality(Lost \cup {i})
          /\ Cardinality(Lost \cup {i}) <= Cardinality(Lost) + 1
          /\ Cardinality(Lost \cup {i}) \in Nat /\ Cardinality(Lost') \in Nat
          /\ Cardinality(Lost) \in Nat
      BY <1>2, <2>1, <3>1, Finite
    <3>3. f \in CutLabels /\ CutLabels' = CutLabels \ {f}
      BY <1>2, <1>3, <2>4 DEF CutLabels
    <3>4. /\ Cardinality(CutLabels') = Cardinality(CutLabels) - 1
          /\ Cardinality(CutLabels) \in Nat
      BY <2>1, <3>3, FiniteFiles
    <3>5. /\ faults.interrupts \in Nat /\ faults.kills \in Nat /\ faults' = faults
          /\ Cardinality(Lost) + Cardinality(CutLabels)
                <= faults.interrupts + 2 * faults.kills
      BY <1>1, <1>2 DEF GenInv, LossOK, BaseOK
    <3>6. Cardinality(Lost') + Cardinality(CutLabels')
             <= faults.interrupts + 2 * faults.kills
      BY <3>2, <3>4, <3>5
    <3>7. QED
      BY <3>5, <3>6 DEF LossOK
  <2>5. QED
    BY <2>3, <2>4
<1>9. UnsavedBounded'
  BY <1>6, Unsaved DEF InTry
<1>10. QED
  BY <1>6, <1>7, <1>8, <1>9 DEF GenInv

\* The review of an item, once.
LEMMA ReviewStep == ASSUME GenInv, AppendReview PROVE GenInv'
<1>0. PICK i \in Samples : i = main.item
  BY DEF GenInv, BaseOK, MainStates
<1>1. /\ main.pc = "review" /\ AppendRow("reviews", i)
      /\ UNCHANGED <<settings, status, faults, ended>>
      /\ main' = [main EXCEPT !.pc = AfterItem(main.batch)]
      /\ job' = [job EXCEPT ![i] = NoJob]
  BY <1>0 DEF AppendReview
<1>2. /\ BaseOK /\ i \in Samples /\ rows["raw"][i] = 1 /\ rows["reviews"][i] = 0
  BY <1>0, <1>1 DEF GenInv, BaseOK, RowsOK, MainStates
<1>3. /\ rows' \in [Files -> [Samples -> Nat]] /\ torn' \subseteq torn
      /\ \A g \in Files : \A r \in Samples :
            g # "reviews" \/ r # i => rows'[g][r] = rows[g][r]
      /\ "reviews" \in torn => rows' = rows
      /\ "reviews" \notin torn => rows'["reviews"][i] = rows["reviews"][i] + 1
  BY <1>1, <1>2, AppendRowFacts DEF Files
<1>4. /\ rows'["raw"] = rows["raw"]
      /\ \A r \in Samples : LabelRows(r)' = LabelRows(r)
      /\ \A r \in Samples \ {i} : rows'["reviews"][r] = rows["reviews"][r]
      /\ rows'["reviews"][i] <= 1
  <2>1. \A r \in Samples : rows'["raw"][r] = rows["raw"][r]
    BY <1>3 DEF Files
  <2>2. rows'["raw"] = rows["raw"]
    BY <1>2, <1>3, <2>1 DEF BaseOK, Files
  <2>3. \A r \in Samples : LabelRows(r)' = LabelRows(r)
    BY <1>3 DEF Files, LabelRows
  <2>4. rows'["reviews"][i] <= 1
    BY <1>2, <1>3
  <2>5. QED
    BY <1>3, <2>2, <2>3, <2>4 DEF Files
<1>5. BaseOK' /\ PlaceOK' /\ FuturesOK' /\ main'.pc \in {"feed", "take"}
  <2>1. main.pc \in {"label", "review"} /\ i = main.item
    BY <1>0, <1>1
  <2>2. QED
    BY <1>1, <1>2, <1>3, <1>4, <2>1, Consumed
<1>6. RowsOK'
  <2>1. \A r \in Samples :
          /\ rows'["raw"][r] <= 1 /\ rows'["reviews"][r] <= 1 /\ LabelRows(r)' <= 1
          /\ rows'["raw"][r] = 0 => LabelRows(r)' = 0 /\ rows'["reviews"][r] = 0
          /\ rows'["raw"][r] = 1 => status'[r] \in Statuses
          /\ LabelRows(r)' = 1 => status'[r] = "generated"
    <3> TAKE r \in Samples
    <3>1. CASE r = i
      BY <1>1, <1>2, <1>4, <3>1 DEF GenInv, RowsOK
    <3>2. CASE r # i
      BY <1>1, <1>4, <3>2 DEF GenInv, RowsOK
    <3>3. QED
      BY <3>1, <3>2
  <2>2. QED
    BY <1>5, <2>1 DEF RowsOK
<1>7. LossOK'
  <2>1. Lost' \subseteq Lost
    BY <1>1, <1>4 DEF Lost
  <2>2. CutLabels' \subseteq CutLabels
    BY <1>3 DEF CutLabels
  <2>3. /\ faults'.interrupts >= faults.interrupts /\ faults'.kills >= faults.kills
    BY <1>1, <1>2 DEF BaseOK
  <2>4. QED
    BY <1>2, <1>5, <2>1, <2>2, <2>3, LossKept DEF GenInv
<1>8. UnsavedBounded'
  BY <1>5, Unsaved DEF InTry
<1>9. QED
  BY <1>5, <1>6, <1>7, <1>8 DEF GenInv

LEMMA NextGen == GenInv /\ [Next]_vars => GenInv'
<1> SUFFICES ASSUME GenInv, [Next]_vars PROVE GenInv'
  OBVIOUS
<1>1. CASE Start
  BY <1>1, StartStep
<1>2. CASE Submit
  BY <1>2, SubmitStep
<1>3. CASE BadInput \/ EndOfInput \/ Collect \/ Exit
  BY <1>3, LookStep
<1>4. CASE AppendRaw
  BY <1>4, RawStep
<1>5. CASE AppendLabel
  BY <1>5, LabelStep
<1>6. CASE AppendReview
  BY <1>6, ReviewStep
<1>7. CASE Tick \/ UNCHANGED vars
  BY <1>7, Idle DEF Tick, vars, files
<1>8. CASE Interrupt
  BY <1>8, InterruptStep
<1>9. CASE Kill
  BY <1>9, KillStep
<1>10. CASE \E s \in Samples : Thread(s)
  BY <1>10, ThreadInv
<1>11. QED
  BY <1>1, <1>2, <1>3, <1>4, <1>5, <1>6, <1>7, <1>8, <1>9, <1>10 DEF Next, Thread

LEMMA GenHolds == Spec => []GenInv
BY InitGen, NextGen, PTL DEF Spec

\* Every value of the state is of its type.
THEOREM TypeCorrect == Spec => []TypeOK
<1>1. GenInv /\ LimiterInv => TypeOK
  BY DEF GenInv, BaseOK, LimiterInv, TypeOK
<1>2. QED
  BY <1>1, GenHolds, LimiterHolds, PTL

\* However a run stops, at most 2 * concurrency samples are paid for again.
THEOREM FewPaidAgain == Spec => []UnsavedBounded
<1>1. GenInv => UnsavedBounded
  BY DEF GenInv
<1>2. QED
  BY <1>1, GenHolds, PTL

\* Interrupts and kills are the only losses, one and two labels each.
THEOREM FewLost == Spec => []LossBounded
<1>1. GenInv => LossBounded
  <2> SUFFICES ASSUME GenInv PROVE LossBounded
    OBVIOUS
  <2>1. Lost \in SUBSET Samples /\ CutLabels \in SUBSET LabelFiles
    BY DEF Lost, CutLabels
  <2>2. Cardinality(Lost) \in Nat /\ Cardinality(CutLabels) \in Nat
    BY <2>1, Finite, FiniteFiles
  <2>3. faults.interrupts \in Nat /\ faults.kills \in Nat
    BY DEF GenInv, BaseOK
  <2>4. QED
    BY <2>2, <2>3 DEF GenInv, LossOK, LossBounded
<1>2. QED
  BY <1>1, GenHolds, PTL

-------------------------------------------------------------------------------
\* The output files are a ledger.  What a sample's rows say.
EntryOK ==
    \A s \in Samples :
        /\ rows["raw"][s] = 0 => Entry(s) = "open"
        /\ rows["raw"][s] = 1 /\ LabelRows(s) = 0 => Entry(s) = status[s]
        /\ \A f \in LabelFiles : rows[f][s] > 0 => Entry(s) = f

LEMMA EntryFacts == GenInv => EntryOK
<1> SUFFICES ASSUME GenInv, NEW s \in Samples
             PROVE  /\ rows["raw"][s] = 0 => Entry(s) = "open"
                    /\ rows["raw"][s] = 1 /\ LabelRows(s) = 0 => Entry(s) = status[s]
                    /\ \A f \in LabelFiles : rows[f][s] > 0 => Entry(s) = f
  BY DEF EntryOK
<1>1. /\ rows["raw"][s] \in Nat /\ rows["reviews"][s] \in Nat
      /\ rows["valid"][s] \in Nat /\ rows["repaired"][s] \in Nat
      /\ rows["rejected"][s] \in Nat
      /\ LabelRows(s) = rows["valid"][s] + rows["repaired"][s] + rows["rejected"][s]
      /\ LabelRows(s) \in Nat
  BY RowTypes DEF GenInv
<1>2. /\ rows["raw"][s] <= 1 /\ rows["reviews"][s] <= 1 /\ LabelRows(s) <= 1
      /\ rows["raw"][s] = 0 => LabelRows(s) = 0 /\ rows["reviews"][s] = 0
  BY DEF GenInv, RowsOK
<1>3. ~\E f \in Files : rows[f][s] > 1
  BY <1>1, <1>2 DEF Files
<1>4. LabelRows(s) = 0 => \A f \in LabelFiles : ~(rows[f][s] > 0)
  BY <1>1 DEF LabelFiles
<1>5. ASSUME NEW f \in LabelFiles, NEW g \in LabelFiles, rows[f][s] > 0, rows[g][s] > 0
      PROVE  f = g
  BY <1>1, <1>2, <1>5 DEF LabelFiles
<1>6. ASSUME rows["raw"][s] = 0 PROVE Entry(s) = "open"
  <2>1. LabelRows(s) + rows["reviews"][s] = 0
    BY <1>2, <1>6
  <2>2. QED
    BY <1>3, <1>6, <2>1 DEF Entry
<1>7. ASSUME rows["raw"][s] = 1, LabelRows(s) = 0 PROVE Entry(s) = status[s]
  BY <1>3, <1>4, <1>7 DEF Entry
<1>8. ASSUME NEW f \in LabelFiles, rows[f][s] > 0 PROVE Entry(s) = f
  <2>1. rows["raw"][s] # 0
    BY <1>2, <1>4, <1>8
  <2>2. Entry(s) = CHOOSE g \in LabelFiles : rows[g][s] > 0
    BY <1>3, <1>8, <2>1 DEF Entry
  <2> DEFINE chosen == CHOOSE g \in LabelFiles : rows[g][s] > 0
  <2>3. chosen \in LabelFiles /\ rows[chosen][s] > 0
    BY <1>8
  <2> HIDE DEF chosen
  <2>4. chosen = f
    BY <1>5, <1>8, <2>3
  <2>5. QED
    BY <2>2, <2>4 DEF chosen
<1>9. QED
  BY <1>6, <1>7, <1>8

LEMMA EntryNext == GenInv' => EntryOK'
BY EntryFacts, PTL

\* A sample whose rows, reviews aside, are the same has the same entry.
LEMMA SameEntry ==
    ASSUME GenInv, GenInv', NEW s \in Samples,
           rows'["raw"][s] = rows["raw"][s], status'[s] = status[s],
           \A f \in LabelFiles : rows'[f][s] = rows[f][s]
    PROVE  Entry(s)' = Entry(s)
<1>1. EntryOK /\ EntryOK'
  BY EntryFacts, EntryNext
<1>2. LabelRows(s)' = LabelRows(s)
  BY DEF LabelRows, LabelFiles
<1>3. CASE rows["raw"][s] = 0
  BY <1>1, <1>3 DEF EntryOK
<1>4. CASE rows["raw"][s] = 1 /\ LabelRows(s) = 0
  <2>1. Entry(s) = status[s]
    BY <1>1, <1>4 DEF EntryOK
  <2>2. Entry(s)' = status'[s]
    BY <1>1, <1>2, <1>4 DEF EntryOK
  <2>3. QED
    BY <2>1, <2>2
<1>5. CASE \E f \in LabelFiles : rows[f][s] > 0
  <2>1. PICK f \in LabelFiles : rows[f][s] > 0
    BY <1>5
  <2>2. Entry(s) = f
    BY <1>1, <2>1 DEF EntryOK
  <2>3. Entry(s)' = f
    BY <1>1, <2>1 DEF EntryOK
  <2>4. QED
    BY <2>2, <2>3
<1>6. \/ rows["raw"][s] = 0
      \/ rows["raw"][s] = 1 /\ LabelRows(s) = 0
      \/ \E f \in LabelFiles : rows[f][s] > 0
  <2>1. /\ rows["raw"][s] \in Nat /\ LabelRows(s) \in Nat
        /\ rows["valid"][s] \in Nat /\ rows["repaired"][s] \in Nat
        /\ rows["rejected"][s] \in Nat
        /\ LabelRows(s) = rows["valid"][s] + rows["repaired"][s] + rows["rejected"][s]
    BY RowTypes DEF GenInv
  <2>2. rows["raw"][s] <= 1
    BY DEF GenInv, RowsOK
  <2>3. LabelRows(s) = 0 \/ \E f \in LabelFiles : rows[f][s] > 0
    BY <2>1 DEF LabelFiles
  <2>4. QED
    BY <2>1, <2>2, <2>3
<1>7. QED
  BY <1>3, <1>4, <1>5, <1>6

\* One entry changes.
LEMMA OneEntry ==
    ASSUME NEW i \in Samples, \A s \in Samples \ {i} : Entry(s)' = Entry(s)
    PROVE  Entries' = [Entries EXCEPT ![i] = Entry(i)']
BY DEF Entries

LEMMA RawRecords ==
    ASSUME GenInv, GenInv', AppendRaw PROVE [Ledger!Next]_(<<Entries, Finished>>)
<1>1. PICK s \in main.batch :
        /\ AppendRow("raw", s)
        /\ status' = [status EXCEPT ![s] = job[s].status]
  BY DEF AppendRaw
<1>2. main.pc = "take" /\ ended' = ended
  BY DEF AppendRaw
<1>3. /\ BaseOK /\ s \in Samples /\ job[s] \in Jobs /\ job[s].status \in Statuses
      /\ job[s].at = "done" /\ "raw" \notin torn /\ ended = "none"
  BY <1>2 DEF GenInv, BaseOK, PlaceOK, MainStates, InTry, Jobs
<1>4. rows["raw"][s] = 0 /\ LabelRows(s) = 0
  <2>1. s \in Active
    BY <1>3 DEF Active
  <2>2. rows["raw"][s] = 0
    BY <1>2, <2>1 DEF GenInv, FuturesOK, Writes, InTry
  <2>3. QED
    BY <1>3, <2>2 DEF GenInv, RowsOK
<1>5. /\ rows'["raw"][s] = 1
      /\ \A g \in Files : \A r \in Samples :
            g # "raw" \/ r # s => rows'[g][r] = rows[g][r]
  BY <1>1, <1>3, <1>4, AppendRowFacts DEF Files
<1>6. /\ status'[s] = job[s].status
      /\ \A r \in Samples \ {s} : status'[r] = status[r]
  BY <1>1, <1>3 DEF BaseOK
<1>7. \A r \in Samples \ {s} : Entry(r)' = Entry(r)
  <2> TAKE r \in Samples \ {s}
  <2>1. rows'["raw"][r] = rows["raw"][r] /\ status'[r] = status[r]
        /\ \A f \in LabelFiles : rows'[f][r] = rows[f][r]
    BY <1>5, <1>6 DEF Files, LabelFiles
  <2>2. QED
    BY <2>1, SameEntry
<1>8. Entry(s) = "open"
  BY <1>3, <1>4, EntryFacts DEF EntryOK
<1>9. Entry(s)' = job[s].status
  <2>1. LabelRows(s)' = 0
    BY <1>3, <1>4, <1>5 DEF LabelRows, Files
  <2>2. Entry(s)' = status'[s]
    BY <1>3, <1>5, <2>1, EntryNext DEF EntryOK
  <2>3. QED
    BY <1>6, <2>2
<1>10. Entries' = [Entries EXCEPT ![s] = job[s].status] /\ Entries[s] = "open"
  BY <1>3, <1>7, <1>8, <1>9, OneEntry DEF Entries
<1>11. Finished = FALSE /\ Finished' = Finished
  BY <1>2, <1>3 DEF Finished
<1>12. job[s].status \in Ledger!Failures \cup {"generated"}
  BY <1>3 DEF Statuses, Ledger!Failures
<1>13. Ledger!Record(s)
  BY <1>10, <1>11, <1>12 DEF Ledger!Record
<1>14. QED
  BY <1>3, <1>13 DEF Ledger!Next

LEMMA LabelLabels ==
    ASSUME GenInv, GenInv', AppendLabel PROVE [Ledger!Next]_(<<Entries, Finished>>)
<1>0. PICK i \in Samples : i = main.item
  BY DEF GenInv, BaseOK, MainStates
<1> DEFINE f == job[i].label
<1>1. /\ main.pc = "label" /\ AppendRow(f, i) /\ UNCHANGED <<status, ended>>
  BY <1>0 DEF AppendLabel
<1>2. /\ BaseOK /\ f \in LabelFiles /\ f \in Files /\ f # "raw" /\ ended = "none"
      /\ rows["raw"][i] = 1 /\ LabelRows(i) = 0 /\ status[i] = "generated"
  BY <1>0, <1>1 DEF GenInv, PlaceOK, RowsOK, LabelFiles, Files
<1> HIDE DEF f
<1>3. /\ f \in torn => rows' = rows
      /\ f \notin torn => rows'[f][i] = rows[f][i] + 1
      /\ \A g \in Files : \A r \in Samples : g # f \/ r # i => rows'[g][r] = rows[g][r]
  BY <1>1, <1>2, AppendRowFacts
<1>4. Finished = FALSE /\ Finished' = Finished
  BY <1>1, <1>2 DEF Finished
<1>5. \A r \in Samples \ {i} : Entry(r)' = Entry(r)
  <2> TAKE r \in Samples \ {i}
  <2>1. rows'["raw"][r] = rows["raw"][r] /\ status'[r] = status[r]
        /\ \A g \in LabelFiles : rows'[g][r] = rows[g][r]
    BY <1>1, <1>3 DEF Files, LabelFiles
  <2>2. QED
    BY <2>1, SameEntry
<1>6. CASE f \in torn
  <2>1. Entry(i)' = Entry(i)
    <3>1. rows'["raw"][i] = rows["raw"][i] /\ status'[i] = status[i]
          /\ \A g \in LabelFiles : rows'[g][i] = rows[g][i]
      BY <1>1, <1>3, <1>6
    <3>2. QED
      BY <3>1, SameEntry
  <2>2. Entries' = Entries
    BY <1>5, <2>1 DEF Entries
  <2>3. QED
    BY <1>4, <2>2
<1>7. CASE f \notin torn
  <2>1. rows'[f][i] > 0
    <3>1. rows[f][i] \in Nat
      BY <1>2 DEF BaseOK
    <3>2. QED
      BY <1>3, <1>7, <3>1
  <2>2. Entry(i)' = f
    BY <1>2, <2>1, EntryNext DEF EntryOK
  <2>3. Entry(i) = "generated"
    BY <1>2, EntryFacts DEF EntryOK
  <2>4. Entries' = [Entries EXCEPT ![i] = f] /\ Entries[i] = "generated"
    BY <1>5, <2>2, <2>3, OneEntry DEF Entries
  <2>5. f \in Ledger!Labels
    BY <1>2 DEF LabelFiles, Ledger!Labels
  <2>6. Ledger!Label(i)
    BY <1>4, <2>4, <2>5 DEF Ledger!Label
  <2>7. QED
    BY <2>6 DEF Ledger!Next
<1>8. QED
  BY <1>6, <1>7

\* The other steps change no entry.
LEMMA EntriesKept ==
    ASSUME GenInv, GenInv', UNCHANGED status, rows'["raw"] = rows["raw"],
           \A f \in LabelFiles : rows'[f] = rows[f]
    PROVE  Entries' = Entries
<1>1. \A s \in Samples : Entry(s)' = Entry(s)
  BY SameEntry
<1>2. QED
  BY <1>1 DEF Entries

LEMMA OthersKeep ==
    ASSUME GenInv, GenInv', [Next]_vars, ~AppendRaw, ~AppendLabel
    PROVE  [Ledger!Next]_(<<Entries, Finished>>)
<1>1. UNCHANGED <<rows, status>> \/ AppendReview
  BY DEF Next, vars, files, Start, Submit, BadInput, EndOfInput, Collect, Tick, Interrupt,
         Exit, Kill, Begin, Acquire, CallRaises, Generated, Repaired, Reviewed
<1>2. Entries' = Entries
  <2>1. CASE UNCHANGED <<rows, status>>
    BY <2>1, EntriesKept
  <2>2. CASE AppendReview
    <3>1. /\ BaseOK /\ AppendRow("reviews", main.item) /\ main.item \in Samples
          /\ UNCHANGED status
      BY <2>2 DEF AppendReview, GenInv, BaseOK, MainStates
    <3>2. \A g \in Files : \A r \in Samples : g # "reviews" => rows'[g][r] = rows[g][r]
      BY <3>1, AppendRowFacts DEF Files
    <3>3. \A s \in Samples : Entry(s)' = Entry(s)
      <4> TAKE s \in Samples
      <4>1. rows'["raw"][s] = rows["raw"][s] /\ status'[s] = status[s]
            /\ \A f \in LabelFiles : rows'[f][s] = rows[f][s]
        BY <3>1, <3>2 DEF Files, LabelFiles
      <4>2. QED
        BY <4>1, SameEntry
    <3>4. QED
      BY <3>3 DEF Entries
  <2>3. QED
    BY <1>1, <2>1, <2>2
<1>3. CASE EndOfInput /\ Pending = {}
  <2>1. /\ main.pc = "feed" /\ main.next > N /\ ended' = "finished" /\ ended = "none"
        /\ main.batch = {} /\ main.next \in 1 .. N + 1
    BY <1>3 DEF EndOfInput, GenInv, BaseOK, PlaceOK, MainStates
  <2>2. \A s \in Samples : rows["raw"][s] = 1
    <3> TAKE s \in Samples
    <3>1. s < main.next
      BY <2>1, Numbers
    <3>2. s \notin Active
      BY <1>3, <2>1 DEF Pending, At, Active, Jobs, GenInv, BaseOK
    <3>3. rows["raw"][s] # 0
      BY <2>1, <3>1, <3>2 DEF GenInv, FuturesOK, InTry
    <3>4. rows["raw"][s] \in Nat /\ rows["raw"][s] <= 1
      BY RowTypes DEF GenInv, RowsOK
    <3>5. QED
      BY <3>3, <3>4
  <2>3. \A s \in Samples : Entry(s) # "open"
    <3> TAKE s \in Samples
    <3>1. CASE LabelRows(s) = 0
      <4>1. Entry(s) = status[s] /\ status[s] \in Statuses
        BY <2>2, <3>1, EntryFacts DEF EntryOK, GenInv, RowsOK
      <4>2. QED
        BY <4>1 DEF Statuses
    <3>2. CASE LabelRows(s) # 0
      <4>1. \E f \in LabelFiles : rows[f][s] > 0
        <5>1. /\ rows["valid"][s] \in Nat /\ rows["repaired"][s] \in Nat
              /\ rows["rejected"][s] \in Nat
              /\ LabelRows(s) = rows["valid"][s] + rows["repaired"][s] + rows["rejected"][s]
          BY RowTypes DEF GenInv
        <5>2. QED
          BY <3>2, <5>1 DEF LabelFiles
      <4>2. PICK f \in LabelFiles : rows[f][s] > 0
        BY <4>1
      <4>3. Entry(s) = f
        BY <4>2, EntryFacts DEF EntryOK
      <4>4. QED
        BY <4>3 DEF LabelFiles
    <3>3. QED
      BY <3>1, <3>2
  <2>4. Finished = FALSE /\ Finished' = TRUE
    BY <2>1 DEF Finished
  <2>5. \A s \in Samples : Entries[s] # "open"
    BY <2>3 DEF Entries
  <2>6. Ledger!Finish
    BY <1>2, <2>4, <2>5 DEF Ledger!Finish
  <2>7. QED
    BY <2>6 DEF Ledger!Next
<1>4. CASE Start
  <2>1. Finished' = FALSE
    BY <1>4 DEF Start, Finished
  <2>2. CASE Finished = TRUE
    BY <1>2, <2>1, <2>2 DEF Ledger!Reopen, Ledger!Next
  <2>3. CASE Finished = FALSE
    BY <1>2, <2>1, <2>3
  <2>4. QED
    BY <2>2, <2>3 DEF Finished
<1>5. CASE ~Start /\ ~(EndOfInput /\ Pending = {})
  <2>1. \/ ended' = ended
        \/ main.pc # "stopped" /\ ended' # "finished"
    BY <1>5
       DEF Next, vars, Submit, BadInput, EndOfInput, Collect, AppendReview, AppendRaw,
           AppendLabel, Tick, Interrupt, Exit, Kill, Begin, Acquire, CallRaises, Generated,
           Repaired, Reviewed
  <2>2. main.pc # "stopped" => ended # "finished"
    BY DEF GenInv, PlaceOK
  <2>3. Finished' = Finished
    BY <2>1, <2>2 DEF Finished
  <2>4. QED
    BY <1>2, <2>3
<1>6. QED
  BY <1>3, <1>4, <1>5

\* The output files are a ledger, over every interrupt, kill and resume.
THEOREM LedgerKept == Spec => KeepsLedger
<1>1. Init => Ledger!Init
  <2> SUFFICES ASSUME Init PROVE Ledger!Init
    OBVIOUS
  <2>1. \A s \in Samples : rows["raw"][s] = 0
    BY DEF Init, Files
  <2>2. \A s \in Samples : Entry(s) = "open"
    BY <2>1, InitGen, EntryFacts DEF EntryOK
  <2>3. Entries = [s \in Samples |-> "open"] /\ Finished = FALSE
    BY <2>2 DEF Init, Entries, Finished
  <2>4. QED
    BY <2>3 DEF Ledger!Init
<1>2. GenInv /\ GenInv' /\ [Next]_vars => [Ledger!Next]_(<<Entries, Finished>>)
  BY RawRecords, LabelLabels, OthersKeep
<1>3. QED
  BY <1>1, <1>2, GenHolds, PTL DEF Spec, KeepsLedger, Ledger!Spec, Ledger!ledger
-------------------------------------------------------------------------------
\* Why a run ends: the steps left to the threads about each sample and to the main thread.
\* A request is worth two steps for each attempt; a sample may need three requests.
PhaseSteps(phase) ==
    IF phase = "generate" THEN 4 * MaxRetries
    ELSE IF phase = "repair" THEN 2 * MaxRetries ELSE 0

JobSteps(j) ==
    IF j.at = "queued" THEN 6 * MaxRetries + 1
    ELSE IF j.at = "acquire" THEN PhaseSteps(j.phase) + 2 * (MaxRetries - j.attempt) + 2
    ELSE IF j.at = "call" THEN PhaseSteps(j.phase) + 2 * (MaxRetries - j.attempt) + 1
    ELSE 0

\* The sample was not reached yet.
Due(s) == main.pc \in InTry /\ s >= main.next

Left(s) == IF Due(s) THEN 6 * MaxRetries + 2 ELSE JobSteps(job[s])

\* The samples the main thread has not finished with.
Open == {s \in Samples : Due(s) \/ job[s].at # "none"}

PcSteps(pc) ==
    IF pc = "feed" THEN 5
    ELSE IF pc = "wait" THEN 4
    ELSE IF pc = "take" THEN 3
    ELSE IF pc = "label" THEN 2
    ELSE IF pc = "stopped" THEN 0 ELSE 1

MainLeft == 5 * Cardinality(Open) + (N + 1 - main.next) + PcSteps(main.pc)

\* The main thread's steps and those of the threads leave them fewer, and only a new run
\* of the command gives anybody more of them.
StepsShrink ==
    [][/\ MainLeft \in Nat /\ MainLeft' \in Nat
       /\ \A s \in Samples : Left(s) \in Nat /\ Left(s)' \in Nat
       /\ Main => MainLeft' < MainLeft
       /\ \A s \in Samples : Thread(s) => Left(s)' < Left(s)
       /\ ~ Start => MainLeft' <= MainLeft /\ \A s \in Samples : Left(s)' <= Left(s)]_vars

\* The main thread never waits for a future when there is none, and never takes one from
\* an empty batch.
NobodyStuck ==
    /\ main.pc = "wait" => Pending # {}
    /\ main.pc = "take" => main.batch # {}

LEMMA JobStepsType ==
    /\ \A j \in Jobs : JobSteps(j) \in Nat /\ JobSteps(j) <= 6 * MaxRetries + 1
    /\ JobSteps(NoJob) = 0
<1>1. ASSUME NEW j \in Jobs PROVE JobSteps(j) \in Nat /\ JobSteps(j) <= 6 * MaxRetries + 1
  <2>1. j.attempt \in 1 .. MaxRetries /\ MaxRetries \in Nat
    BY Numbers DEF Jobs
  <2>2. PhaseSteps(j.phase) \in Nat /\ PhaseSteps(j.phase) <= 4 * MaxRetries
    BY <2>1 DEF PhaseSteps
  <2>3. MaxRetries - j.attempt \in Nat /\ MaxRetries - j.attempt <= MaxRetries - 1
    BY <2>1
  <2>4. QED
    BY <2>1, <2>2, <2>3 DEF JobSteps
<1>2. QED
  BY <1>1, NoJobFacts DEF JobSteps

Counted == MainLeft \in Nat /\ \A s \in Samples : Left(s) \in Nat

LEMMA LeftCounted == GenInv => Counted
<1> SUFFICES ASSUME GenInv PROVE Counted
  OBVIOUS
<1>1. main.next \in 1 .. N + 1 /\ job \in [Samples -> Jobs]
  BY DEF GenInv, BaseOK, MainStates
<1>2. Cardinality(Open) \in Nat
  <2>1. Open \in SUBSET Samples
    BY DEF Open
  <2>2. QED
    BY <2>1, Finite
<1>3. PcSteps(main.pc) \in Nat
  BY DEF PcSteps
<1>4. MainLeft \in Nat
  BY <1>1, <1>2, <1>3, Numbers DEF MainLeft
<1>5. ASSUME NEW s \in Samples PROVE Left(s) \in Nat
  BY <1>1, JobStepsType, Numbers DEF Left
<1>6. QED
  BY <1>4, <1>5 DEF Counted

LEMMA LeftCountedNext == GenInv' => Counted'
BY LeftCounted, PTL

\* The outcome of a request, or the next one.
LEMMA OutcomeShrinks ==
    ASSUME BaseOK, NEW s \in Samples, job[s].at = "call"
    PROVE  /\ \A o, l, r : Done(s, o, l, r) => JobSteps(job'[s]) < JobSteps(job[s])
           /\ \A l : /\ job[s].phase = "generate" /\ Request(s, "repair", l)
                     => JobSteps(job'[s]) < JobSteps(job[s])
           /\ \A l : /\ job[s].phase \in {"generate", "repair"} /\ Request(s, "review", l)
                     => JobSteps(job'[s]) < JobSteps(job[s])
<1>1. job \in [Samples -> Jobs] /\ job[s] \in Jobs
  BY DEF BaseOK
<1>2. job[s].attempt \in 1 .. MaxRetries /\ MaxRetries \in Nat
  BY <1>1, Numbers DEF Jobs
<1>3. JobSteps(job[s]) = PhaseSteps(job[s].phase) + 2 * (MaxRetries - job[s].attempt) + 1
  BY DEF JobSteps
<1>4. /\ PhaseSteps(job[s].phase) \in Nat /\ JobSteps(job[s]) \in Nat
      /\ JobSteps(job[s]) >= 1 + PhaseSteps(job[s].phase)
  <2>1. PhaseSteps(job[s].phase) \in Nat
    BY <1>2 DEF PhaseSteps
  <2>2. QED
    BY <1>1, <1>2, <1>3, <2>1, JobStepsType
<1>5. ASSUME NEW o, NEW l, NEW r, Done(s, o, l, r)
      PROVE  JobSteps(job'[s]) < JobSteps(job[s])
  <2>1. job'[s].at = "done"
    BY <1>1, <1>5 DEF Done, NoJob
  <2>2. JobSteps(job'[s]) = 0
    BY <2>1 DEF JobSteps
  <2>3. QED
    BY <1>4, <2>2
<1>6. ASSUME NEW p \in {"repair", "review"}, NEW l, Request(s, p, l)
      PROVE  JobSteps(job'[s]) = PhaseSteps(p) + 2 * MaxRetries
  <2>1. job'[s].at = "acquire" /\ job'[s].phase = p /\ job'[s].attempt = 1
    BY <1>1, <1>6 DEF Request, NoJob
  <2>2. PhaseSteps(p) \in Nat
    BY <1>2 DEF PhaseSteps
  <2>3. QED
    BY <1>2, <2>1, <2>2 DEF JobSteps
<1>7. ASSUME NEW l, job[s].phase = "generate", Request(s, "repair", l)
      PROVE  JobSteps(job'[s]) < JobSteps(job[s])
  <2>1. JobSteps(job'[s]) = PhaseSteps("repair") + 2 * MaxRetries
    BY <1>6, <1>7
  <2>2. QED
    BY <1>2, <1>4, <1>7, <2>1 DEF PhaseSteps
<1>8. ASSUME NEW l, job[s].phase \in {"generate", "repair"}, Request(s, "review", l)
      PROVE  JobSteps(job'[s]) < JobSteps(job[s])
  <2>1. JobSteps(job'[s]) = PhaseSteps("review") + 2 * MaxRetries
    BY <1>6, <1>8
  <2>2. QED
    BY <1>2, <1>4, <1>8, <2>1 DEF PhaseSteps
<1>9. QED
  BY <1>5, <1>7, <1>8

LEMMA ThreadShrinks ==
    ASSUME BaseOK, NEW s \in Samples, Thread(s)
    PROVE  JobSteps(job'[s]) < JobSteps(job[s])
<1> DEFINE Shrunk == JobSteps(job'[s]) < JobSteps(job[s])
<1>1. job \in [Samples -> Jobs] /\ job[s] \in Jobs
  BY DEF BaseOK
<1>2. job[s].attempt \in 1 .. MaxRetries /\ MaxRetries \in Nat
      /\ PhaseSteps(job[s].phase) \in Nat /\ PhaseSteps(job[s].phase) <= 4 * MaxRetries
  BY <1>1, Numbers DEF Jobs, PhaseSteps
<1>3. CASE Begin(s)
  <2>1. job'[s].at = "acquire" /\ job'[s].attempt = job[s].attempt /\ job'[s].phase = job[s].phase
    BY <1>1, <1>3 DEF Begin, Jobs
  <2>2. QED
    BY <1>2, <1>3, <2>1 DEF Begin, JobSteps
<1>4. CASE Acquire(s)
  <2>1. job'[s].at = "call" /\ job'[s].attempt = job[s].attempt /\ job'[s].phase = job[s].phase
    BY <1>1, <1>4 DEF Acquire, Jobs
  <2>2. QED
    BY <1>2, <1>4, <2>1 DEF Acquire, JobSteps
<1>5. ASSUME NEW l, job[s].at = "call", job[s].phase \in {"generate", "repair"}, Accept(s, l)
      PROVE  Shrunk
  BY <1>5, OutcomeShrinks DEF Accept
<1>6. CASE CallRaises(s)
  <2>1. CASE job' = [job EXCEPT ![s].at = "acquire", ![s].attempt = @ + 1]
    <3>1. job'[s] = [job[s] EXCEPT !.at = "acquire", !.attempt = job[s].attempt + 1]
      BY <1>1, <2>1
    <3>2. /\ job'[s].at = "acquire" /\ job'[s].attempt = job[s].attempt + 1
          /\ job'[s].phase = job[s].phase
      BY <1>1, <3>1 DEF Jobs
    <3>3. QED
      BY <1>2, <1>6, <3>2 DEF CallRaises, JobSteps
  <2>2. CASE \E o, l, r : Done(s, o, l, r)
    BY <1>6, <2>2, OutcomeShrinks DEF CallRaises
  <2>3. QED
    BY <1>6, <2>1, <2>2, Zenon DEF CallRaises
<1>7. CASE Generated(s)
  BY <1>5, <1>7, OutcomeShrinks DEF Generated
<1>8. CASE Repaired(s)
  BY <1>5, <1>8, OutcomeShrinks DEF Repaired
<1>9. CASE Reviewed(s)
  BY <1>9, OutcomeShrinks DEF Reviewed
<1>10. QED
  BY <1>3, <1>4, <1>6, <1>7, <1>8, <1>9 DEF Thread

\* Nothing is left to do about a sample that was not left to do, and futures only go.
Quiet == \A r \in Samples : (Due(r)' => Due(r)) /\ job'[r] \in {job[r], NoJob}

LEMMA QuietShrinks ==
    ASSUME GenInv, Quiet
    PROVE  Open' \subseteq Open /\ \A s \in Samples : Left(s)' <= Left(s)
<1>1. job \in [Samples -> Jobs] /\ MaxRetries \in Nat
  BY Numbers DEF GenInv, BaseOK
<1>2. Open' \subseteq Open
  BY NoJobFacts DEF Open, Quiet, Samples
<1>3. ASSUME NEW s \in Samples PROVE Left(s)' <= Left(s)
  <2>1. job[s] \in Jobs /\ (Due(s)' => Due(s)) /\ job'[s] \in {job[s], NoJob}
    BY <1>1 DEF Quiet
  <2>2. /\ JobSteps(job[s]) \in Nat /\ JobSteps(job[s]) <= 6 * MaxRetries + 1
        /\ JobSteps(job'[s]) \in Nat /\ JobSteps(job'[s]) <= JobSteps(job[s])
    BY <2>1, JobStepsType
  <2>3. QED
    BY <1>1, <2>1, <2>2 DEF Left
<1>4. QED
  BY <1>2, <1>3

\* An item is done with: the main thread's share of it is gone.
LEMMA ItemShrinks ==
    ASSUME GenInv, NEW s \in Samples, s \in Active, main.pc \in InTry, Quiet,
           job'[s] = NoJob, main'.next = main.next
    PROVE  Cardinality(Open') <= Cardinality(Open) - 1
<1>1. s < main.next /\ s \in Open /\ main.next \in Nat /\ s \in Nat
  <2>1. s < main.next
    BY DEF GenInv, FuturesOK
  <2>2. QED
    BY <2>1, Numbers DEF Open, Active, GenInv, BaseOK, MainStates
<1>2. s \notin Open'
  BY <1>1, NoJobFacts DEF Open, Due
<1>3. Open' \subseteq Open \ {s} /\ Open \in SUBSET Samples /\ Open' \in SUBSET Samples
  <2>1. Open' \subseteq Open
    BY QuietShrinks
  <2>2. QED
    BY <1>2, <2>1 DEF Open
<1>4. /\ Cardinality(Open \ {s}) = Cardinality(Open) - 1
      /\ Cardinality(Open') <= Cardinality(Open \ {s})
  <2>1. Open \ {s} \in SUBSET Samples
    BY <1>3
  <2>2. QED
    BY <1>1, <1>3, <2>1, Finite
<1>5. QED
  BY <1>4

\* What a step of the main thread leaves.
LEMMA MainSum ==
    ASSUME GenInv, GenInv',
           \/ /\ Open' \subseteq Open /\ main'.next = main.next
              /\ PcSteps(main'.pc) < PcSteps(main.pc)
           \/ /\ Open' \subseteq Open /\ main'.next = main.next + 1
              /\ PcSteps(main'.pc) <= PcSteps(main.pc)
           \/ /\ Cardinality(Open') <= Cardinality(Open) - 1 /\ main'.next = main.next
              /\ PcSteps(main'.pc) < PcSteps(main.pc) + 5
    PROVE  MainLeft' < MainLeft
<1>1. /\ Cardinality(Open) \in Nat /\ Cardinality(Open') \in Nat
      /\ Open' \subseteq Open => Cardinality(Open') <= Cardinality(Open)
  <2>1. Open \in SUBSET Samples /\ Open' \in SUBSET Samples
    BY DEF Open, Samples
  <2>2. QED
    BY <2>1, Finite
<1>2. main.next \in 1 .. N + 1 /\ main'.next \in 1 .. N + 1 /\ N \in Nat
  BY Numbers DEF GenInv, BaseOK, MainStates
<1>3. \A pc : PcSteps(pc) \in Nat
  BY DEF PcSteps
<1>4. PcSteps(main.pc) \in Nat /\ PcSteps(main'.pc) \in Nat
  BY <1>3
<1>5. QED
  BY <1>1, <1>2, <1>4 DEF MainLeft

\* Where the main thread goes with the same sample to submit next.
LEMMA SameNext ==
    ASSUME GenInv, main'.next = main.next, main.pc \in InTry,
           \A r \in Samples : job'[r] \in {job[r], NoJob}
    PROVE  Quiet
BY DEF Quiet, Due, Samples

LEMMA SubmitShrinks ==
    ASSUME GenInv, GenInv', Submit
    PROVE  MainLeft' < MainLeft /\ \A s \in Samples : Left(s)' <= Left(s)
<1> DEFINE n == main.next
<1>1. /\ n \in Samples /\ main \in MainStates /\ job \in [Samples -> Jobs]
      /\ main.pc = "feed" /\ n \in Nat /\ MaxRetries \in Nat
  BY Numbers DEF Submit, GenInv, BaseOK, MainStates, Samples
<1>2. /\ main'.next = n + 1 /\ main'.pc \in {"feed", "wait"}
      /\ \A r \in Samples : r # n => job'[r] = job[r]
      /\ job'[n] = job[n] \/ job'[n] = [NoJob EXCEPT !.at = "queued"]
  BY <1>1 DEF Submit, MainStates
<1>3. \A r \in Samples : Due(r)' => Due(r) /\ r # n
  BY <1>1, <1>2, Numbers DEF Due, InTry
<1>4. \A r \in Samples : r # n => (Due(r)' <=> Due(r))
  BY <1>1, <1>2, Numbers DEF Due, InTry
<1>5. Due(n)
  BY <1>1 DEF Due, InTry
<1>6. Open' \subseteq Open
  BY <1>2, <1>3, <1>5 DEF Open, Samples
<1>7. PcSteps(main'.pc) <= PcSteps(main.pc)
  BY <1>1, <1>2 DEF PcSteps
<1>8. MainLeft' < MainLeft
  BY <1>2, <1>6, <1>7, MainSum
<1>9. ASSUME NEW s \in Samples PROVE Left(s)' <= Left(s)
  <2>1. CASE s = n
    <3>1. job'[n] \in Jobs
      BY <1>1, <1>2, NoJobFacts
    <3>2. JobSteps(job'[n]) \in Nat /\ JobSteps(job'[n]) <= 6 * MaxRetries + 1
      BY <3>1, JobStepsType
    <3>3. Left(s)' = JobSteps(job'[n]) /\ Left(s) = 6 * MaxRetries + 2
      BY <1>3, <1>5, <2>1 DEF Left
    <3>4. QED
      BY <1>1, <3>2, <3>3
  <2>2. CASE s # n
    <3>1. Left(s)' = Left(s)
      BY <1>2, <1>4, <2>2 DEF Left
    <3>2. Left(s) \in Nat
      BY LeftCounted DEF Counted
    <3>3. QED
      BY <3>1, <3>2
  <2>3. QED
    BY <2>1, <2>2
<1>10. QED
  BY <1>8, <1>9

\* The steps that only move the main thread.
LEMMA LookShrinks ==
    ASSUME GenInv, GenInv', BadInput \/ EndOfInput \/ Collect \/ Exit
    PROVE  MainLeft' < MainLeft /\ \A s \in Samples : Left(s)' <= Left(s)
<1>1. main \in MainStates
  BY DEF GenInv, BaseOK
<1>2. /\ main'.next = main.next /\ job' = job
      /\ main'.pc \in InTry => main.pc \in InTry
      /\ PcSteps(main'.pc) < PcSteps(main.pc)
  <2>1. /\ PcSteps("failing") = 1 /\ PcSteps("interrupted") = 1 /\ PcSteps("stopped") = 0
        /\ PcSteps("feed") = 5 /\ PcSteps("wait") = 4 /\ PcSteps("take") = 3
    BY DEF PcSteps
  <2>2. CASE BadInput
    <3>1. main'.next = main.next /\ main'.pc = "failing"
      BY <1>1, <2>2 DEF BadInput, MainStates
    <3>2. QED
      BY <2>1, <2>2, <3>1 DEF BadInput, InTry
  <2>3. CASE EndOfInput
    <3>1. main'.next = main.next /\ main'.pc \in {"stopped", "wait"}
      BY <1>1, <2>3 DEF EndOfInput, MainStates
    <3>2. QED
      BY <2>1, <2>3, <3>1 DEF EndOfInput, InTry
  <2>4. CASE Collect
    <3>1. main'.next = main.next /\ main'.pc = "take"
      BY <1>1, <2>4 DEF Collect, MainStates
    <3>2. QED
      BY <2>1, <2>4, <3>1 DEF Collect, InTry
  <2>5. CASE Exit
    <3>1. main'.next = main.next /\ main'.pc = "stopped"
      BY <1>1, <2>5 DEF Exit, MainStates
    <3>2. QED
      BY <2>1, <2>5, <3>1 DEF Exit, InTry
  <2>6. QED
    BY <2>2, <2>3, <2>4, <2>5
<1>3. Quiet
  BY <1>2 DEF Quiet, Due
<1>4. Open' \subseteq Open /\ \A s \in Samples : Left(s)' <= Left(s)
  BY <1>3, QuietShrinks
<1>5. QED
  BY <1>2, <1>4, MainSum

\* The steps that write a row.
LEMMA WriteShrinks ==
    ASSUME GenInv, GenInv', AppendRaw \/ AppendLabel \/ AppendReview
    PROVE  MainLeft' < MainLeft /\ \A s \in Samples : Left(s)' <= Left(s)
<1>1. /\ main \in MainStates /\ job \in [Samples -> Jobs]
      /\ main.pc \in {"take", "label", "review"} /\ main.pc \in InTry
  BY DEF GenInv, BaseOK, AppendRaw, AppendLabel, AppendReview, InTry
<1>2. \A batch : AfterItem(batch) \in {"feed", "take"}
  BY DEF AfterItem
<1>3. /\ main'.next = main.next
      /\ main'.pc \in {"feed", "take", "label", "review"}
  BY <1>1, <1>2 DEF AppendRaw, AppendLabel, AppendReview, MainStates
<1>4. ASSUME NEW s \in Samples, s \in Active, job' = [job EXCEPT ![s] = NoJob]
      PROVE  MainLeft' < MainLeft /\ \A r \in Samples : Left(r)' <= Left(r)
  <2>1. \A r \in Samples : job'[r] \in {job[r], NoJob}
    BY <1>1, <1>4
  <2>2. Quiet /\ job'[s] = NoJob
    BY <1>1, <1>3, <1>4, <2>1, SameNext
  <2>3. Cardinality(Open') <= Cardinality(Open) - 1
    BY <1>1, <1>3, <1>4, <2>2, ItemShrinks
  <2>4. PcSteps(main'.pc) < PcSteps(main.pc) + 5
    BY <1>1, <1>3 DEF PcSteps
  <2>5. QED
    BY <1>3, <2>2, <2>3, <2>4, MainSum, QuietShrinks
<1>5. ASSUME job' = job, PcSteps(main'.pc) < PcSteps(main.pc)
      PROVE  MainLeft' < MainLeft /\ \A r \in Samples : Left(r)' <= Left(r)
  <2>1. Quiet
    BY <1>1, <1>3, <1>5, SameNext
  <2>2. QED
    BY <1>3, <1>5, <2>1, MainSum, QuietShrinks
<1>6. CASE AppendRaw
  <2>1. PICK s \in main.batch :
          /\ main' = [main EXCEPT !.item = s, !.batch = @ \ {s},
                                  !.pc = IF job[s].label # "none" THEN "label"
                                         ELSE AfterItem(main.batch \ {s})]
          /\ job' = IF job[s].label # "none" THEN job ELSE [job EXCEPT ![s] = NoJob]
    BY <1>6 DEF AppendRaw
  <2>2. s \in Samples /\ s \in Active
    BY <1>1 DEF MainStates, GenInv, PlaceOK, Active
  <2>3. CASE job[s].label # "none"
    <3>1. main'.pc = "label" /\ job' = job /\ main.pc = "take"
      BY <1>1, <1>6, <2>1, <2>3 DEF AppendRaw, MainStates
    <3>2. QED
      BY <1>5, <3>1 DEF PcSteps
  <2>4. CASE job[s].label = "none"
    BY <1>4, <2>1, <2>2, <2>4
  <2>5. QED
    BY <2>3, <2>4
<1>7. main.pc \in {"label", "review"} => main.item \in Samples /\ main.item \in Active
  BY <1>1 DEF MainStates, GenInv, PlaceOK, Active
<1>8. CASE AppendLabel
  <2>1. CASE job' = job
    <3>1. main'.pc = "review" /\ main.pc = "label"
      <4>1. job[main.item].at = "done" /\ NoJob.at = "none" /\ main.item \in Samples
        BY <1>1, <1>8, NoJobFacts DEF AppendLabel, GenInv, PlaceOK, MainStates
      <4>2. job # [job EXCEPT ![main.item] = NoJob]
        BY <1>1, <4>1
      <4>3. QED
        BY <1>1, <1>8, <2>1, <4>2 DEF AppendLabel, MainStates
    <3>2. QED
      BY <1>5, <2>1, <3>1 DEF PcSteps
  <2>2. CASE job' = [job EXCEPT ![main.item] = NoJob]
    BY <1>4, <1>7, <1>8, <2>2 DEF AppendLabel
  <2>3. QED
    BY <1>8, <2>1, <2>2 DEF AppendLabel
<1>9. CASE AppendReview
  BY <1>4, <1>7, <1>9 DEF AppendReview
<1>10. QED
  BY <1>6, <1>8, <1>9

\* The steps that end a run from outside, and those of the clock.
LEMMA OutsideShrinks ==
    ASSUME GenInv, GenInv', Interrupt \/ Kill \/ Tick \/ UNCHANGED vars
    PROVE  MainLeft' <= MainLeft /\ \A s \in Samples : Left(s)' <= Left(s)
<1>1. main \in MainStates /\ job \in [Samples -> Jobs]
  BY DEF GenInv, BaseOK
<1>2. /\ main'.next = main.next /\ \A r \in Samples : job'[r] \in {job[r], NoJob}
      /\ main'.pc \in InTry => main.pc \in InTry
      /\ main' = main \/ PcSteps(main'.pc) <= PcSteps(main.pc)
  <2>1. CASE Interrupt
    BY <1>1, <2>1 DEF Interrupt, MainStates, InTry, PcSteps
  <2>2. CASE Kill
    BY <1>1, <2>2 DEF Kill, MainStates, InTry, PcSteps
  <2>3. CASE Tick \/ UNCHANGED vars
    BY <1>1, <2>3 DEF Tick, vars
  <2>4. QED
    BY <2>1, <2>2, <2>3
<1>3. Quiet
  BY <1>2 DEF Quiet, Due
<1>4. Open' \subseteq Open /\ \A s \in Samples : Left(s)' <= Left(s)
  BY <1>3, QuietShrinks
<1>5. /\ Cardinality(Open) \in Nat /\ Cardinality(Open') \in Nat
      /\ Cardinality(Open') <= Cardinality(Open)
  <2>1. Open \in SUBSET Samples /\ Open' \in SUBSET Samples
    BY DEF Open, Samples
  <2>2. QED
    BY <1>4, <2>1, Finite
<1>6. PcSteps(main.pc) \in Nat /\ PcSteps(main'.pc) \in Nat
      /\ PcSteps(main'.pc) <= PcSteps(main.pc)
  <2>1. \A pc : PcSteps(pc) \in Nat
    BY DEF PcSteps
  <2>2. QED
    BY <1>2, <2>1
<1>7. main.next \in Nat /\ N \in Nat
  BY <1>1, Numbers DEF MainStates
<1>8. QED
  BY <1>2, <1>4, <1>5, <1>6, <1>7 DEF MainLeft

\* A thread leaves the main thread and the other samples as they are.
LEMMA OneThreadShrinks ==
    ASSUME GenInv, NEW s \in Samples, Thread(s)
    PROVE  /\ MainLeft' <= MainLeft
           /\ Left(s)' < Left(s)
           /\ \A r \in Samples : Left(r)' <= Left(r)
<1>1. ThreadMoves(s)
  BY ThreadStep DEF GenInv, PlaceOK
<1>2. main' = main /\ Open' = Open
  BY <1>1 DEF ThreadMoves, Open, Due, Samples
<1>3. MainLeft' = MainLeft /\ MainLeft \in Nat
  BY <1>2, LeftCounted DEF MainLeft, Counted
<1>4. ~ Due(s) /\ ~ Due(s)'
  <2>1. s \in Active /\ s \in Nat
    BY <1>1, Numbers DEF ThreadMoves, Active
  <2>2. main.pc \in InTry => s < main.next
    BY <2>1 DEF GenInv, FuturesOK
  <2>3. main.next \in Nat
    BY Numbers DEF GenInv, BaseOK, MainStates
  <2>4. QED
    BY <1>2, <2>1, <2>2, <2>3 DEF Due
<1>5. Left(s)' < Left(s)
  BY <1>4, ThreadShrinks DEF Left, GenInv
<1>6. ASSUME NEW r \in Samples PROVE Left(r)' <= Left(r)
  <2>1. Left(r) \in Nat
    BY LeftCounted DEF Counted
  <2>2. CASE r = s
    <3>1. Left(s)' \in Nat
      <4>1. job'[s] \in Jobs
        BY <1>1 DEF ThreadMoves
      <4>2. QED
        BY <1>4, <4>1, JobStepsType DEF Left
    <3>2. QED
      BY <1>5, <2>1, <2>2, <3>1
  <2>3. CASE r # s
    <3>1. Left(r)' = Left(r)
      BY <1>1, <1>2, <2>3 DEF ThreadMoves, Left, Due
    <3>2. QED
      BY <2>1, <3>1
  <2>4. QED
    BY <2>2, <2>3
<1>7. QED
  BY <1>3, <1>5, <1>6

\* run_generation, process_sample: no run makes infinitely many steps.  A sample costs its
\* threads at most three requests of MaxRetries attempts, the main thread works through a
\* finite number of samples, and only Start gives anybody more to do.  Time passing is no
\* step of a run.  This, and NobodyStuck, is what RunsEnd rests on.
THEOREM RunShrinks == Spec => StepsShrink
<1>1. ASSUME GenInv, GenInv', [Next]_vars
      PROVE  /\ MainLeft \in Nat /\ MainLeft' \in Nat
             /\ \A s \in Samples : Left(s) \in Nat /\ Left(s)' \in Nat
             /\ Main => MainLeft' < MainLeft
             /\ \A s \in Samples : Thread(s) => Left(s)' < Left(s)
             /\ ~ Start => MainLeft' <= MainLeft /\ \A s \in Samples : Left(s)' <= Left(s)
  <2>1. /\ MainLeft \in Nat /\ MainLeft' \in Nat
        /\ \A s \in Samples : Left(s) \in Nat /\ Left(s)' \in Nat
    <3>1. Samples' = Samples
      BY DEF Samples
    <3>2. QED
      BY <1>1, <3>1, LeftCounted, LeftCountedNext DEF Counted
  <2>2. Main => MainLeft' < MainLeft /\ \A s \in Samples : Left(s)' <= Left(s)
    BY <1>1, SubmitShrinks, LookShrinks, WriteShrinks DEF Main
  <2>3. \A s \in Samples : Thread(s) =>
            /\ MainLeft' <= MainLeft
            /\ Left(s)' < Left(s)
            /\ \A r \in Samples : Left(r)' <= Left(r)
    BY <1>1, OneThreadShrinks
  <2>4. Start \/ Main \/ (\E s \in Samples : Thread(s))
        \/ Interrupt \/ Kill \/ Tick \/ UNCHANGED vars
    BY <1>1 DEF Next, Main, Thread
  <2>5. Interrupt \/ Kill \/ Tick \/ UNCHANGED vars =>
            MainLeft' <= MainLeft /\ \A s \in Samples : Left(s)' <= Left(s)
    BY <1>1, OutsideShrinks
  <2>6. ~ Start => MainLeft' <= MainLeft /\ \A s \in Samples : Left(s)' <= Left(s)
    <3>1. CASE Main
      BY <2>1, <2>2, <3>1
    <3>2. CASE \E s \in Samples : Thread(s)
      BY <2>3, <3>2
    <3>3. QED
      BY <2>4, <2>5, <3>1, <3>2
  <2>7. QED
    BY <2>1, <2>2, <2>3, <2>6
<1>2. GenInv /\ GenInv' =>
        [/\ MainLeft \in Nat /\ MainLeft' \in Nat
         /\ \A s \in Samples : Left(s) \in Nat /\ Left(s)' \in Nat
         /\ Main => MainLeft' < MainLeft
         /\ \A s \in Samples : Thread(s) => Left(s)' < Left(s)
         /\ ~ Start => MainLeft' <= MainLeft /\ \A s \in Samples : Left(s)' <= Left(s)]_vars
        \/ ~ [Next]_vars
  BY <1>1
<1>3. QED
  BY <1>2, InitGen, NextGen, PTL DEF Spec, StepsShrink

\* run_generation: no wait for a future that nobody will finish: there is one to wait for.
THEOREM NoLostWait == Spec => []NobodyStuck
<1> DEFINE Waits == main.pc = "wait" => Active # {}
<1>1. Init => Waits
  BY DEF Init
<1>2. GenInv /\ Waits /\ [Next]_vars => Waits'
  <2> SUFFICES ASSUME GenInv, Waits, [Next]_vars, main'.pc = "wait" PROVE Active' # {}
    OBVIOUS
  <2>1. main \in MainStates /\ job \in [Samples -> Jobs]
    BY DEF GenInv, BaseOK
  <2>2. CASE Submit
    <3>1. main.next \in Samples /\ main'.pc # main.pc
      BY <2>1, <2>2 DEF Submit, MainStates, Samples
    <3>2. job' = [job EXCEPT ![main.next] = [NoJob EXCEPT !.at = "queued"]]
      BY <2>1, <2>2, <3>1 DEF Submit, MainStates
    <3>3. job'[main.next].at = "queued"
      BY <2>1, <3>1, <3>2, NoJobFacts
    <3>4. QED
      BY <3>1, <3>3 DEF Active, Samples
  <2>3. CASE EndOfInput
    <3>1. Pending # {} /\ job' = job
      BY <2>1, <2>3 DEF EndOfInput, MainStates
    <3>2. QED
      BY <3>1 DEF Pending, At, Active
  <2>4. CASE \E s \in Samples : Thread(s)
    <3>1. PICK s \in Samples : ThreadMoves(s)
      BY <2>4, ThreadStep DEF GenInv, PlaceOK
    <3>2. s \in Active'
      BY <3>1 DEF ThreadMoves, Active, Samples
    <3>3. QED
      BY <3>2
  <2>5. CASE Tick \/ UNCHANGED vars
    BY <2>5 DEF Tick, vars, Active
  <2>6. CASE Start \/ BadInput \/ Collect \/ AppendRaw \/ AppendLabel \/ AppendReview
             \/ Interrupt \/ Exit \/ Kill
    BY <2>1, <2>6 DEF Start, BadInput, Collect, AppendRaw, AppendLabel, AppendReview, AfterItem,
                      Interrupt, Exit, Kill, MainStates
  <2>7. QED
    BY <2>2, <2>3, <2>4, <2>5, <2>6 DEF Next, Thread
<1>3. GenInv /\ Waits => NobodyStuck
  <2> SUFFICES ASSUME GenInv, Waits PROVE NobodyStuck
    OBVIOUS
  <2>1. ASSUME main.pc = "wait" PROVE Pending # {}
    <3>1. main.batch = {} /\ job \in [Samples -> Jobs]
      BY <2>1 DEF GenInv, PlaceOK, BaseOK
    <3>2. Pending = Active
      BY <3>1 DEF Pending, Active, At, Jobs
    <3>3. QED
      BY <2>1, <3>2
  <2>2. QED
    BY <2>1 DEF NobodyStuck, GenInv, PlaceOK
<1> HIDE DEF Waits
<1>4. QED
  BY <1>1, <1>2, <1>3, InitGen, NextGen, PTL DEF Spec
===============================================================================
