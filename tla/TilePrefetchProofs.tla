-------------------------- MODULE TilePrefetchProofs --------------------------
(***************************************************************************)
(* Proofs about TilePrefetch for every number of tiles and of workers.     *)
(*                                                                         *)
(* LaneInv says where the files of a lane are: one for its active tile and *)
(* one for a finished lookahead, and none else.  The bound of two and the  *)
(* release of everything follow from it.                                   *)
(***************************************************************************)
EXTENDS TilePrefetch, FiniteSetTheorems, TLAPS

\* The shape of the state, results left out.
Shape ==
    /\ prefetch \in BOOLEAN
    /\ source \in 1..(TileCount + 1)
    /\ lane \in [Lanes -> {"new", "wait", "active", "closing", "joining",
                           "ended", "cancelled"}]
    /\ ahead \in [Lanes -> {"none", "queued", "running", "tile", "end",
                            "error", "cancelled"}]
    /\ cpu \in [Lanes -> Tiles \cup {NoTile}]
    /\ active \in [Lanes -> Tiles \cup {NoTile}]
    /\ failed \in [Lanes -> BOOLEAN]
    /\ files \subseteq Lanes \X Tiles
    /\ main \in {"collect", "draining", "returned", "raised"}
    /\ awaited \in 1..(LaneCount + 1)

\* Where the tiles of lane l are.
LaneInv(l) ==
    /\ lane[l] = "active" <=> active[l] # NoTile
    /\ ahead[l] \in {"running", "tile"} <=> cpu[l] # NoTile
    /\ lane[l] \in {"new", "joining", "ended", "cancelled"} => ahead[l] # "queued"
    /\ lane[l] \in {"new", "ended", "cancelled"} => ahead[l] \notin {"running", "tile"}
    /\ lane[l] # "new" \/ ahead[l] = "none"
    /\ ~ prefetch => ahead[l] = "none"
    /\ \A t \in Tiles : <<l, t>> \in files =>
          t = active[l] \/ (ahead[l] = "tile" /\ t = cpu[l])

FilesInv == Shape /\ \A l \in Lanes : LaneInv(l)

LEMMA TileFacts ==
    /\ TileCount \in Nat \ {0}
    /\ LaneCount \in Nat \ {0}
    /\ PrefetchSettings \subseteq BOOLEAN
    /\ Tiles \subseteq Nat
    /\ NoTile \notin Tiles
    /\ Lanes \subseteq Nat
BY TileAssumption DEF LaneCount, Lanes, Tiles, NoTile

LEMMA InitFiles == Init => FilesInv
<1> SUFFICES ASSUME Init PROVE FilesInv
  OBVIOUS
<1> USE TileFacts DEF Init
<1>1. Shape
  BY DEF Shape
<1>2. ASSUME NEW l \in Lanes PROVE LaneInv(l)
  BY <1>2 DEF LaneInv
<1>3. QED
  BY <1>1, <1>2 DEF FilesInv

\* A step of lane l keeps the shape of the state.
LEMMA LaneShape ==
    ASSUME FilesInv, NEW l \in Lanes, LaneStep(l)
    PROVE  Shape'
<1> USE TileFacts DEF FilesInv, Shape
<1>0. LaneInv(l)
  OBVIOUS
<1>1. CASE StartLane(l)
  BY <1>1 DEF StartLane
<1>2. CASE Draw(l)
  <2>1. source <= TileCount => source \in Tiles /\ source + 1 \in 1..(TileCount + 1)
    BY DEF Tiles
  <2>2. QED
    BY <1>2, <2>1 DEF Draw
<1>3. CASE Prepare(l)
  <2>1. cpu[l] \in Tiles
    BY <1>0, <1>3 DEF Prepare, LaneInv
  <2>2. QED
    BY <1>3, <2>1 DEF Prepare
<1>4. CASE Receive(l)
  BY <1>4 DEF Receive
<1>5. CASE PrepareInline(l)
  <2>1. source <= TileCount => source \in Tiles /\ source + 1 \in 1..(TileCount + 1)
    BY DEF Tiles
  <2>2. CASE source > TileCount
    BY <1>5, <2>2 DEF PrepareInline
  <2>3. CASE source <= TileCount
    <3>1. files' \subseteq Lanes \X Tiles
      BY <1>5, <2>1, <2>3 DEF PrepareInline
    <3>2. source' \in 1..(TileCount + 1) /\ active' \in [Lanes -> Tiles \cup {NoTile}]
      BY <1>5, <2>1, <2>3 DEF PrepareInline
    <3>3. QED
      BY <1>5, <2>3, <3>1, <3>2 DEF PrepareInline
  <2>4. QED
    BY <2>2, <2>3
<1>6. CASE Infer(l)
  BY <1>6 DEF Infer, Released
<1>7. CASE CancelAhead(l)
  BY <1>7 DEF CancelAhead
<1>8. CASE Join(l)
  BY <1>8 DEF Join
<1>9. QED
  BY <1>1, <1>2, <1>3, <1>4, <1>5, <1>6, <1>7, <1>8 DEF LaneStep

\* A step of lane l touches no other lane's state and files.
LEMMA OtherLane ==
    ASSUME FilesInv, NEW l \in Lanes, LaneStep(l), NEW m \in Lanes, m # l
    PROVE  LaneInv(m)'
<1> USE DEF FilesInv, Shape, LaneInv
<1>1. /\ lane'[m] = lane[m] /\ ahead'[m] = ahead[m] /\ cpu'[m] = cpu[m]
      /\ active'[m] = active[m] /\ prefetch' = prefetch
  BY DEF LaneStep, StartLane, Draw, Prepare, Receive, PrepareInline, Infer,
         CancelAhead, Join
<1>2. \A t \in Tiles : <<m, t>> \in files' => <<m, t>> \in files
  BY DEF LaneStep, StartLane, Draw, Prepare, Receive, PrepareInline, Infer,
         Released, CancelAhead, Join
<1>3. QED
  BY <1>1, <1>2

LEMMA OwnLane ==
    ASSUME FilesInv, NEW l \in Lanes, LaneStep(l)
    PROVE  LaneInv(l)'
<1> USE TileFacts DEF FilesInv, Shape
<1>0. LaneInv(l)
  OBVIOUS
<1>1. CASE StartLane(l)
  BY <1>0, <1>1 DEF StartLane, LaneInv
<1>2. CASE Draw(l)
  <2>1. source <= TileCount => source \in Tiles
    BY DEF Tiles
  <2>2. QED
    BY <1>0, <1>2, <2>1 DEF Draw, LaneInv
<1>3. CASE Prepare(l)
  BY <1>0, <1>3 DEF Prepare, LaneInv
<1>4. CASE Receive(l)
  BY <1>0, <1>4 DEF Receive, LaneInv
<1>5. CASE PrepareInline(l)
  <2>1. ~ (source > TileCount) => source \in Tiles
    BY DEF Tiles
  <2>2. QED
    BY <1>0, <1>5, <2>1 DEF PrepareInline, LaneInv
<1>6. CASE Infer(l)
  BY <1>0, <1>6 DEF Infer, Released, LaneInv
<1>7. CASE CancelAhead(l)
  BY <1>0, <1>7 DEF CancelAhead, LaneInv
<1>8. CASE Join(l)
  BY <1>0, <1>8 DEF Join, LaneInv
<1>9. QED
  BY <1>1, <1>2, <1>3, <1>4, <1>5, <1>6, <1>7, <1>8 DEF LaneStep

LEMMA NextFiles == FilesInv /\ [Next]_vars => FilesInv'
<1> SUFFICES ASSUME FilesInv, [Next]_vars PROVE FilesInv'
  OBVIOUS
<1>1. ASSUME NEW l \in Lanes, LaneStep(l) PROVE FilesInv'
  <2>1. \A m \in Lanes : LaneInv(m)'
    BY <1>1, OtherLane, OwnLane
  <2>2. Lanes' = Lanes
    BY DEF Lanes, LaneCount
  <2>3. QED
    BY <1>1, <2>1, LaneShape DEF FilesInv
<1>2. CASE Collect
  <2>1. Shape'
    <3>1. awaited \in Lanes => awaited + 1 \in 1..(LaneCount + 1)
      BY TileFacts DEF Lanes
    <3>2. QED
      BY <1>2, <3>1 DEF Collect, FilesInv, Shape
  <2>2. ASSUME NEW l \in Lanes PROVE LaneInv(l)'
    BY <1>2 DEF Collect, FilesInv, Shape, LaneInv
  <2>3. QED
    BY <2>1, <2>2 DEF FilesInv
<1>3. CASE Leave
  <2>1. Shape'
    BY <1>3 DEF Leave, FilesInv, Shape
  <2>2. ASSUME NEW l \in Lanes PROVE LaneInv(l)'
    BY <1>3 DEF Leave, FilesInv, Shape, LaneInv
  <2>3. QED
    BY <2>1, <2>2 DEF FilesInv
<1>4. CASE UNCHANGED vars
  BY <1>4 DEF FilesInv, Shape, LaneInv, vars
<1>5. QED
  BY <1>1, <1>2, <1>3, <1>4 DEF Next

\* A lane that is over has released every file it prepared.
LEMMA EndedReleases ==
    FilesInv => \A l \in Lanes : lane[l] = "ended" => {f \in files : f[1] = l} = {}
<1>1. FilesInv => \A l \in Lanes : lane[l] = "ended" => {f \in files : f[1] = l} = {}
  <2> SUFFICES ASSUME FilesInv, NEW l \in Lanes, lane[l] = "ended", NEW f \in files,
                      f[1] = l
               PROVE  FALSE
    OBVIOUS
  <2>1. f = <<l, f[2]>> /\ f[2] \in Tiles
    BY DEF FilesInv, Shape
  <2>2. LaneInv(l)
    BY DEF FilesInv
  <2>3. f[2] # active[l] /\ ahead[l] # "tile"
    BY <2>1, <2>2, TileFacts DEF FilesInv, Shape, LaneInv
  <2>4. QED
    BY <2>1, <2>2, <2>3 DEF LaneInv
<1>2. QED
  BY <1>1

\* A lane never has more than two prepared files.
LEMMA TwoPrepared ==
    FilesInv => \A l \in Lanes : Cardinality({f \in files : f[1] = l}) <= 2
<1>1. FilesInv => \A l \in Lanes : Cardinality({f \in files : f[1] = l}) <= 2
  <2> SUFFICES ASSUME FilesInv, NEW l \in Lanes
               PROVE  Cardinality({f \in files : f[1] = l}) <= 2
    OBVIOUS
  <2> DEFINE Held == {<<l, active[l]>>, <<l, cpu[l]>>}
  <2>1. {f \in files : f[1] = l} \subseteq Held
    <3> SUFFICES ASSUME NEW f \in files, f[1] = l PROVE f \in Held
      OBVIOUS
    <3>1. f = <<l, f[2]>> /\ f[2] \in Tiles
      BY DEF FilesInv, Shape
    <3>2. LaneInv(l)
      BY DEF FilesInv
    <3>3. f[2] = active[l] \/ f[2] = cpu[l]
      BY <3>1, <3>2 DEF LaneInv
    <3>4. QED
      BY <3>1, <3>3
  <2>2. IsFiniteSet(Held) /\ Cardinality(Held) <= 2
    <3>1. IsFiniteSet({<<l, active[l]>>}) /\ Cardinality({<<l, active[l]>>}) = 1
      BY FS_Singleton
    <3>2. Held = {<<l, active[l]>>} \cup {<<l, cpu[l]>>}
      OBVIOUS
    <3>3. /\ IsFiniteSet({<<l, active[l]>>} \cup {<<l, cpu[l]>>})
          /\ \/ Cardinality({<<l, active[l]>>} \cup {<<l, cpu[l]>>}) = 1
             \/ Cardinality({<<l, active[l]>>} \cup {<<l, cpu[l]>>}) = 1 + 1
      BY <3>1, FS_AddElement
    <3> HIDE DEF Held
    <3>4. QED
      BY <3>2, <3>3
  <2>3. /\ IsFiniteSet({f \in files : f[1] = l})
        /\ Cardinality({f \in files : f[1] = l}) <= Cardinality(Held)
    BY <2>1, <2>2, FS_Subset
  <2>4. Cardinality({f \in files : f[1] = l}) \in Nat /\ Cardinality(Held) \in Nat
    BY <2>2, <2>3, FS_CardinalityType
  <2>5. QED
    BY <2>2, <2>3, <2>4
<1>2. QED
  BY <1>1

\* At most two prepared files per lane and none once it is over, for every
\* number of tiles and lanes (cpu_prepared_items).
THEOREM FilesStayBounded == Spec => []FilesBounded
<1>1. FilesInv => FilesBounded
  <2> SUFFICES ASSUME FilesInv, NEW l \in Lanes
               PROVE  Cardinality({f \in files : f[1] = l})
                          <= IF lane[l] = "ended" THEN 0 ELSE 2
    BY DEF FilesBounded
  <2> DEFINE Own == {f \in files : f[1] = l}
  <2>1. Cardinality(Own) <= 2 /\ (lane[l] = "ended" => Own = {})
    BY EndedReleases, TwoPrepared
  <2> HIDE DEF Own
  <2>2. Own = {} => Cardinality(Own) = 0
    BY FS_EmptySet
  <2>3. QED
    BY <2>1, <2>2 DEF Own
<1>2. QED
  BY <1>1, InitFiles, NextFiles, PTL DEF Spec
-------------------------------------------------------------------------------
\* The tiles the iterator has dealt: each is with one lane, and one that is
\* with none was lost by a preparation or an inference that failed.

Answered(l, t) == \E i \in DOMAIN results[l] : results[l][i] = t
Taken(l, t) == t = active[l] \/ t = cpu[l] \/ Answered(l, t)
Lost == \E l \in Lanes : failed[l] \/ ahead[l] = "error"
ResultsOK == results \in [Lanes -> Seq(Tiles)]

Dealt == \A l \in Lanes : \A t \in Tiles : Taken(l, t) => t < source
OneOwner == \A l, m \in Lanes : \A t \in Tiles : Taken(l, t) /\ Taken(m, t) => l = m
OnePlace == \A l \in Lanes : \A t \in Tiles :
    /\ t = active[l] => ~ Answered(l, t) /\ t # cpu[l]
    /\ t = cpu[l] => ~ Answered(l, t)
NoneMissing == \A t \in Tiles : t < source => Lost \/ \E l \in Lanes : Taken(l, t)
EndSeen == \A l \in Lanes :
    /\ ahead[l] = "end" => source = TileCount + 1
    /\ (lane[l] \in {"closing", "joining", "ended"} /\ ~ failed[l]) =>
          ahead[l] = "none" /\ source = TileCount + 1
Collected ==
    /\ main = "collect" => \A l \in Lanes : l < awaited => lane[l] = "ended" /\ ~ failed[l]
    /\ main \in {"returned", "raised"} => \A l \in Lanes : lane[l] \in {"ended", "cancelled"}

DealInv == FilesInv /\ ResultsOK /\ Dealt /\ OneOwner /\ OnePlace /\ NoneMissing
           /\ EndSeen /\ Collected

LEMMA AppendFacts ==
    ASSUME NEW s \in Seq(Tiles), NEW t \in Tiles
    PROVE  /\ Append(s, t) \in Seq(Tiles)
           /\ DOMAIN Append(s, t) = DOMAIN s \cup {Len(s) + 1}
           /\ Append(s, t)[Len(s) + 1] = t
           /\ \A i \in DOMAIN s : Append(s, t)[i] = s[i]
           /\ Len(s) + 1 \notin DOMAIN s
<1>1. Len(s) \in Nat /\ DOMAIN s = 1..Len(s)
  OBVIOUS
<1>2. 1..(Len(s) + 1) = 1..Len(s) \cup {Len(s) + 1}
  BY <1>1
<1>3. QED
  BY <1>1, <1>2

LEMMA InitDeal == Init => DealInv
<1> SUFFICES ASSUME Init PROVE DealInv
  OBVIOUS
<1>1. FilesInv
  BY InitFiles
<1>2. ResultsOK
  BY DEF Init, ResultsOK
<1>3. \A l \in Lanes : \A t \in Tiles : ~ Taken(l, t)
  BY TileFacts DEF Init, Taken, Answered
<1>4. OnePlace
  BY TileFacts DEF Init, OnePlace
<1>5. NoneMissing
  BY TileFacts DEF Init, NoneMissing, Tiles
<1>6. EndSeen /\ Collected
  BY TileFacts DEF Init, EndSeen, Collected
<1>7. QED
  BY <1>1, <1>2, <1>3, <1>4, <1>5, <1>6 DEF DealInv, Dealt, OneOwner

\* Inference answers the active tile of its lane; no other step answers one.
LEMMA AnsweredInfer ==
    ASSUME DealInv, NEW l \in Lanes, Infer(l), lane'[l] = "wait"
    PROVE  /\ active[l] \in Tiles
           /\ ResultsOK'
           /\ \A m \in Lanes : \A t \in Tiles :
                 Answered(m, t)' <=> Answered(m, t) \/ (m = l /\ t = active[l])
<1> DEFINE s == results[l]
           r == Append(s, active[l])
<1>1. active[l] \in Tiles
  BY DEF Infer, DealInv, FilesInv, Shape, LaneInv
<1>2. s \in Seq(Tiles)
  BY DEF DealInv, ResultsOK
<1>3. results' = [results EXCEPT ![l] = r] /\ results'[l] = r
  BY DEF Infer, DealInv, FilesInv, Shape, ResultsOK
<1>4. /\ r \in Seq(Tiles)
      /\ DOMAIN r = DOMAIN s \cup {Len(s) + 1}
      /\ r[Len(s) + 1] = active[l]
      /\ \A i \in DOMAIN s : r[i] = s[i]
  BY <1>1, <1>2, AppendFacts
<1> HIDE DEF s, r
<1>5. ResultsOK'
  BY <1>3, <1>4 DEF DealInv, ResultsOK, Lanes, LaneCount, Tiles
<1>6. ASSUME NEW m \in Lanes, m # l, NEW t \in Tiles
      PROVE  Answered(m, t)' <=> Answered(m, t)
  <2>1. results'[m] = results[m]
    BY <1>3, <1>6 DEF DealInv, ResultsOK
  <2>2. QED
    BY <2>1 DEF Answered
<1>7. ASSUME NEW t \in Tiles
      PROVE  Answered(l, t)' <=> Answered(l, t) \/ t = active[l]
  <2>1. Answered(l, t)' <=> \E i \in DOMAIN r : r[i] = t
    BY <1>3 DEF Answered
  <2>2. Answered(l, t) <=> \E i \in DOMAIN s : s[i] = t
    BY DEF Answered, s
  <2>3. QED
    BY <2>1, <2>2, <1>4
<1>8. QED
  BY <1>1, <1>5, <1>6, <1>7

\* What a step of lane l does to the tiles the lanes have.
LEMMA TakenStep ==
    ASSUME DealInv, NEW l \in Lanes, LaneStep(l)
    PROVE  /\ source' = source \/ (source \in Tiles /\ source' = source + 1)
           /\ \A m \in Lanes : \A t \in Tiles :
                 Taken(m, t)' => Taken(m, t) \/ (m = l /\ t = source /\ source' = source + 1)
           /\ \A m \in Lanes : \A t \in Tiles :
                 Taken(m, t) => Taken(m, t)' \/ Lost'
           /\ \A t \in Tiles : t = source /\ source' = source + 1 => Taken(l, t)' \/ Lost'
           /\ Lost => Lost'
           /\ OnePlace'
<1> DEFINE Goal ==
      /\ source' = source \/ (source \in Tiles /\ source' = source + 1)
      /\ \A m \in Lanes : \A t \in Tiles :
            Taken(m, t)' => Taken(m, t) \/ (m = l /\ t = source /\ source' = source + 1)
      /\ \A m \in Lanes : \A t \in Tiles :
            Taken(m, t) => Taken(m, t)' \/ Lost'
      /\ \A t \in Tiles : t = source /\ source' = source + 1 => Taken(l, t)' \/ Lost'
      /\ Lost => Lost'
      /\ OnePlace'
<1> USE TileFacts DEF DealInv, FilesInv, Shape
<1>0. LaneInv(l)
  OBVIOUS
<1>q. ASSUME results' = results
      PROVE  \A m \in Lanes : \A t \in Tiles : Answered(m, t)' <=> Answered(m, t)
  BY <1>q DEF Answered
<1>d. source \in Tiles => \A m \in Lanes : ~ Taken(m, source)
  BY DEF Dealt
<1>n. source \in Nat /\ source # source + 1
  OBVIOUS
<1>1. CASE StartLane(l)
  <2>1. source' = source /\ \A m \in Lanes : \A t \in Tiles : Taken(m, t)' <=> Taken(m, t)
    BY <1>1, <1>q DEF StartLane, Taken
  <2>2. Lost => Lost'
    <3>1. ahead[l] # "error" /\ failed' = failed
      BY <1>0, <1>1 DEF StartLane, LaneInv
    <3>2. \A m \in Lanes : m # l => ahead'[m] = ahead[m]
      BY <1>1 DEF StartLane
    <3>3. QED
      BY <3>1, <3>2 DEF Lost
  <2>3. OnePlace'
    BY <1>1, <1>q DEF StartLane, OnePlace
  <2>4. QED
    BY <1>n, <2>1, <2>2, <2>3
<1>2. CASE Draw(l)
  <2>1. cpu[l] = NoTile
    BY <1>0, <1>2 DEF Draw, LaneInv
  <2>2. CASE source <= TileCount
    <3>1. source \in Tiles
      BY <2>2 DEF Tiles
    <3>2. source' = source + 1
      BY <1>2, <2>2 DEF Draw
    <3>3. /\ \A m \in Lanes : \A t \in Tiles :
                Taken(m, t)' => Taken(m, t) \/ (m = l /\ t = source)
          /\ \A m \in Lanes : \A t \in Tiles : Taken(m, t) => Taken(m, t)'
      BY <1>2, <1>q, <2>1, <2>2, <3>1 DEF Draw, Taken
    <3>4. ASSUME NEW t \in Tiles, t = source PROVE Taken(l, t)' \/ Lost'
      <4>1. cpu'[l] = source
        BY <1>2, <2>2 DEF Draw
      <4>2. QED
        BY <3>4, <4>1 DEF Taken
    <3>5. Lost => Lost'
      BY <1>2, <2>2 DEF Draw, Lost
    <3>6. OnePlace'
      <4>1. ~ Answered(l, source) /\ source # active[l] /\ source # cpu[l]
        BY <1>d, <3>1 DEF Taken
      <4>2. QED
        BY <1>2, <1>q, <2>2, <3>1, <4>1 DEF Draw, OnePlace
    <3>7. QED
      BY <3>1, <3>2, <3>3, <3>4, <3>5, <3>6
  <2>3. CASE ~ (source <= TileCount)
    BY <1>2, <1>q, <1>n, <2>1, <2>3 DEF Draw, Taken, Lost, OnePlace
  <2>4. QED
    BY <2>2, <2>3
<1>3. CASE Prepare(l)
  BY <1>3, <1>q, <1>n DEF Prepare, Taken, Lost, OnePlace
<1>4. CASE Receive(l)
  <2>1. active[l] = NoTile
    BY <1>0, <1>4 DEF Receive, LaneInv
  <2>2. QED
    BY <1>4, <1>q, <1>n, <2>1 DEF Receive, Taken, Lost, OnePlace
<1>5. CASE PrepareInline(l)
  <2>1. active[l] = NoTile
    BY <1>0, <1>5 DEF PrepareInline, LaneInv
  <2>2. CASE source > TileCount
    BY <1>5, <1>q, <1>n, <2>1, <2>2 DEF PrepareInline, Taken, Lost, OnePlace
  <2>3. CASE source <= TileCount
    <3>1. source \in Tiles
      BY <2>3 DEF Tiles
    <3>2. source' = source + 1
      BY <1>5, <2>3 DEF PrepareInline
    <3>3. /\ \A m \in Lanes : \A t \in Tiles :
                Taken(m, t)' => Taken(m, t) \/ (m = l /\ t = source)
          /\ \A m \in Lanes : \A t \in Tiles : Taken(m, t) => Taken(m, t)'
      BY <1>5, <1>q, <2>1, <2>3, <3>1 DEF PrepareInline, Taken
    <3>4. ASSUME NEW t \in Tiles, t = source PROVE Taken(l, t)' \/ Lost'
      <4>1. active'[l] = source \/ failed'[l]
        BY <1>5, <2>3 DEF PrepareInline
      <4>2. QED
        BY <3>4, <4>1 DEF Taken, Lost
    <3>5. Lost => Lost'
      BY <1>5, <2>3 DEF PrepareInline, Lost
    <3>6. OnePlace'
      <4>1. ~ Answered(l, source) /\ source # active[l] /\ source # cpu[l]
        BY <1>d, <3>1 DEF Taken
      <4>2. QED
        BY <1>5, <1>q, <2>3, <3>1, <4>1 DEF PrepareInline, OnePlace
    <3>7. QED
      BY <3>1, <3>2, <3>3, <3>4, <3>5, <3>6
  <2>4. QED
    BY <2>2, <2>3
<1>6. CASE Infer(l)
  <2>1. CASE lane'[l] = "wait"
    <3>1. /\ active[l] \in Tiles
          /\ \A m \in Lanes : \A t \in Tiles :
                Answered(m, t)' <=> Answered(m, t) \/ (m = l /\ t = active[l])
      BY <1>6, <2>1, AnsweredInfer
    <3>2. /\ source' = source /\ cpu' = cpu /\ failed' = failed /\ ahead' = ahead
          /\ active'[l] = NoTile /\ \A m \in Lanes : m # l => active'[m] = active[m]
      BY <1>6, <2>1 DEF Infer
    <3>3. \A m \in Lanes : \A t \in Tiles : Taken(m, t)' <=> Taken(m, t)
      BY <3>1, <3>2 DEF Taken
    <3>4. Lost => Lost'
      BY <3>2 DEF Lost
    <3>5. OnePlace'
      BY <3>1, <3>2 DEF OnePlace
    <3>6. QED
      BY <1>n, <3>2, <3>3, <3>4, <3>5
  <2>2. CASE lane'[l] # "wait"
    BY <1>6, <1>q, <1>n, <2>2 DEF Infer, Taken, Lost, OnePlace
  <2>3. QED
    BY <2>1, <2>2
<1>7. CASE CancelAhead(l)
  BY <1>7, <1>q, <1>n DEF CancelAhead, Taken, Lost, OnePlace
<1>8. CASE Join(l)
  <2>1. ahead[l] = "tile" => failed[l]
    BY <1>8 DEF Join, EndSeen
  <2>2. QED
    BY <1>8, <1>q, <1>n, <2>1 DEF Join, Taken, Lost, OnePlace
<1>9. QED
  <2>1. Goal
    BY <1>1, <1>2, <1>3, <1>4, <1>5, <1>6, <1>7, <1>8 DEF LaneStep
  <2>2. QED
    BY <2>1

\* A step of a lane keeps what the end of the iterator and the lanes' ends mean.
LEMMA EndStep ==
    ASSUME DealInv, NEW l \in Lanes, LaneStep(l)
    PROVE  EndSeen' /\ Collected' /\ ResultsOK'
<1> USE TileFacts DEF DealInv, FilesInv, Shape
<1>0. LaneInv(l)
  OBVIOUS
<1>1. \A m \in Lanes : m # l => /\ lane'[m] = lane[m] /\ ahead'[m] = ahead[m]
                                /\ failed'[m] = failed[m]
  BY DEF LaneStep, StartLane, Draw, Prepare, Receive, PrepareInline, Infer,
         CancelAhead, Join
<1>2. source = TileCount + 1 => source' = source
  BY TakenStep DEF Tiles
<1>3. /\ ahead'[l] = "end" => source' = TileCount + 1
      /\ (lane'[l] \in {"closing", "joining", "ended"} /\ ~ failed'[l]) =>
            ahead'[l] = "none" /\ source' = TileCount + 1
  <2>0. /\ ahead[l] = "end" => source = TileCount + 1
        /\ (lane[l] \in {"closing", "joining", "ended"} /\ ~ failed[l]) =>
              ahead[l] = "none" /\ source = TileCount + 1
    BY DEF EndSeen
  <2>1. CASE StartLane(l)
    BY <2>0, <2>1 DEF StartLane
  <2>2. CASE Draw(l)
    BY <2>0, <2>2 DEF Draw
  <2>3. CASE Prepare(l)
    BY <2>0, <2>3 DEF Prepare
  <2>4. CASE Receive(l)
    BY <2>0, <2>4 DEF Receive
  <2>5. CASE PrepareInline(l)
    BY <1>0, <2>0, <2>5 DEF PrepareInline, LaneInv
  <2>6. CASE Infer(l)
    BY <2>0, <2>6 DEF Infer
  <2>7. CASE CancelAhead(l)
    BY <2>0, <2>7 DEF CancelAhead
  <2>8. CASE Join(l)
    BY <2>0, <2>8 DEF Join
  <2>9. QED
    BY <2>1, <2>2, <2>3, <2>4, <2>5, <2>6, <2>7, <2>8 DEF LaneStep
<1>4. EndSeen'
  BY <1>1, <1>2, <1>3 DEF EndSeen, Lanes, LaneCount
<1>5. Collected'
  <2>1. lane[l] \notin {"ended", "cancelled"} /\ main' = main /\ awaited' = awaited
    BY DEF LaneStep, StartLane, Draw, Prepare, Receive, PrepareInline, Infer,
           CancelAhead, Join, LaneInv
  <2>2. QED
    BY <1>1, <2>1 DEF Collected
<1>6. ResultsOK'
  <2>1. CASE Infer(l) /\ lane'[l] = "wait"
    BY <2>1, AnsweredInfer
  <2>2. CASE ~ (Infer(l) /\ lane'[l] = "wait")
    <3>1. results' = results
      BY <2>2 DEF LaneStep, StartLane, Draw, Prepare, Receive, PrepareInline, Infer,
                  CancelAhead, Join
    <3>2. QED
      BY <3>1 DEF ResultsOK, Tiles, Lanes, LaneCount
  <2>3. QED
    BY <2>1, <2>2
<1>7. QED
  BY <1>4, <1>5, <1>6

LEMMA NextDeal == DealInv /\ [Next]_vars => DealInv'
<1> SUFFICES ASSUME DealInv, [Next]_vars PROVE DealInv'
  OBVIOUS
<1>f. FilesInv'
  BY NextFiles DEF DealInv
<1>1. ASSUME NEW l \in Lanes, LaneStep(l) PROVE DealInv'
  <2>0. source \in Nat /\ Tiles \subseteq Nat
    BY TileFacts DEF DealInv, FilesInv, Shape
  <2>1. source' = source \/ (source \in Tiles /\ source' = source + 1)
    BY <1>1, TakenStep
  <2>2. \A m \in Lanes : \A t \in Tiles :
           Taken(m, t)' => Taken(m, t) \/ (m = l /\ t = source /\ source' = source + 1)
    BY <1>1, TakenStep
  <2>3. /\ \A m \in Lanes : \A t \in Tiles : Taken(m, t) => Taken(m, t)' \/ Lost'
        /\ \A t \in Tiles : t = source /\ source' = source + 1 => Taken(l, t)' \/ Lost'
        /\ Lost => Lost'
    BY <1>1, TakenStep
  <2>4. /\ \A m \in Lanes : \A t \in Tiles : Taken(m, t) => t < source
        /\ \A m, k \in Lanes : \A t \in Tiles : Taken(m, t) /\ Taken(k, t) => m = k
        /\ \A t \in Tiles : t < source => Lost \/ \E m \in Lanes : Taken(m, t)
    BY DEF DealInv, Dealt, OneOwner, NoneMissing
  <2>5. Dealt'
    <3>1. \A m \in Lanes : \A t \in Tiles : Taken(m, t)' => t < source'
      BY <2>0, <2>1, <2>2, <2>4
    <3>2. QED
      BY <3>1 DEF Dealt, Tiles, Lanes, LaneCount
  <2>6. OneOwner'
    <3>1. \A m, k \in Lanes : \A t \in Tiles : Taken(m, t)' /\ Taken(k, t)' => m = k
      BY <2>0, <2>2, <2>4
    <3>2. QED
      BY <3>1 DEF OneOwner, Tiles, Lanes, LaneCount
  <2>7. NoneMissing'
    <3>1. ASSUME NEW t \in Tiles, t < source' PROVE Lost' \/ \E m \in Lanes : Taken(m, t)'
      <4>1. t < source \/ (t = source /\ source' = source + 1)
        BY <2>0, <2>1, <3>1
      <4>2. QED
        BY <1>1, <2>3, <2>4, <4>1
    <3>2. QED
      BY <3>1 DEF NoneMissing, Tiles, Lanes, LaneCount
  <2>8. QED
    BY <1>1, <1>f, <2>5, <2>6, <2>7, TakenStep, EndStep DEF DealInv
<1>2. CASE Collect
  <2>1. /\ source' = source /\ active' = active /\ cpu' = cpu /\ results' = results
        /\ failed' = failed /\ ahead' = ahead
    BY <1>2 DEF Collect
  <2>2. ResultsOK' /\ Dealt' /\ OneOwner' /\ OnePlace' /\ NoneMissing'
    BY <2>1 DEF DealInv, ResultsOK, Dealt, OneOwner, OnePlace, NoneMissing, Taken,
                Answered, Lost, Tiles, Lanes, LaneCount
  <2>3. EndSeen'
    BY <1>2 DEF Collect, DealInv, FilesInv, Shape, EndSeen
  <2>4. Collected'
    <3>1. CASE failed[awaited]
      BY <1>2, <3>1 DEF Collect, DealInv, Collected
    <3>2. CASE ~ failed[awaited]
      <4>1. \A l \in Lanes : l < awaited + 1 => l < awaited \/ l = awaited
        BY <1>2, TileFacts DEF Collect, DealInv, FilesInv, Shape
      <4>2. QED
        BY <1>2, <3>2, <4>1 DEF Collect, DealInv, Collected
    <3>3. QED
      BY <3>1, <3>2
  <2>5. QED
    BY <1>f, <2>2, <2>3, <2>4 DEF DealInv
<1>3. CASE Leave
  <2>1. /\ source' = source /\ active' = active /\ cpu' = cpu /\ results' = results
        /\ failed' = failed /\ ahead' = ahead /\ lane' = lane /\ awaited' = awaited
    BY <1>3 DEF Leave
  <2>2. ResultsOK' /\ Dealt' /\ OneOwner' /\ OnePlace' /\ NoneMissing' /\ EndSeen'
    BY <2>1 DEF DealInv, ResultsOK, Dealt, OneOwner, OnePlace, NoneMissing, Taken,
                Answered, Lost, EndSeen, Tiles, Lanes, LaneCount
  <2>3. Collected'
    BY <1>3, <2>1 DEF Leave, Collected, Lanes, LaneCount
  <2>4. QED
    BY <1>f, <2>2, <2>3 DEF DealInv
<1>4. CASE UNCHANGED vars
  BY <1>f, <1>4 DEF vars, DealInv, ResultsOK, Dealt, OneOwner, OnePlace, NoneMissing,
     Taken, Answered, Lost, EndSeen, Collected, Tiles, Lanes, LaneCount
<1>5. QED
  BY <1>1, <1>2, <1>3, <1>4 DEF Next

\* The answers of TileBatch are what the lanes have answered.
Given == UNION {{<<<<l, i>>, results[l][i]>> : i \in DOMAIN results[l]} : l \in Lanes}

\* An answered tile is one of Given, and Given holds nothing else.
LEMMA GivenFacts ==
    /\ \A l \in Lanes : \A t \in Tiles : Answered(l, t) => \E a \in Given : a[2] = t
    /\ \A t \in Tiles : (\A l \in Lanes : ~ Answered(l, t)) => \A a \in Given : a[2] # t
<1>1. ASSUME NEW l \in Lanes, NEW t \in Tiles, Answered(l, t)
      PROVE  \E a \in Given : a[2] = t
  <2>1. PICK i \in DOMAIN results[l] : results[l][i] = t
    BY <1>1 DEF Answered
  <2>2. <<<<l, i>>, results[l][i]>> \in Given
    BY <2>1 DEF Given
  <2>3. QED
    BY <2>1, <2>2
<1>2. ASSUME NEW t \in Tiles, \A l \in Lanes : ~ Answered(l, t), NEW a \in Given
      PROVE  a[2] # t
  <2>1. PICK l \in Lanes : \E i \in DOMAIN results[l] : a = <<<<l, i>>, results[l][i]>>
    BY DEF Given
  <2>2. QED
    BY <1>2, <2>1 DEF Answered
<1>3. QED
  BY <1>1, <1>2

\* Inference adds its tile to Given.
LEMMA GivenInfer ==
    ASSUME DealInv, NEW l \in Lanes, Infer(l), lane'[l] = "wait"
    PROVE  Given' = Given \cup {<<<<l, Len(results[l]) + 1>>, active[l]>>}
<1> DEFINE s == results[l]
           r == Append(s, active[l])
<1>1. active[l] \in Tiles
  BY AnsweredInfer
<1>2. s \in Seq(Tiles)
  BY DEF DealInv, ResultsOK
<1>3. results' = [results EXCEPT ![l] = r] /\ results'[l] = r
  BY DEF Infer, DealInv, FilesInv, Shape, ResultsOK
<1>4. /\ DOMAIN r = DOMAIN s \cup {Len(s) + 1}
      /\ r[Len(s) + 1] = active[l]
      /\ \A i \in DOMAIN s : r[i] = s[i]
  BY <1>1, <1>2, AppendFacts
<1>5. \A m \in Lanes : m # l => results'[m] = results[m]
  BY <1>3 DEF DealInv, ResultsOK
<1> DEFINE Of(m) == {<<<<m, i>>, results[m][i]>> : i \in DOMAIN results[m]}
           OfNext(m) == {<<<<m, i>>, results'[m][i]>> : i \in DOMAIN results'[m]}
<1>6. Given = UNION {Of(m) : m \in Lanes} /\ Given' = UNION {OfNext(m) : m \in Lanes}
  BY DEF Given, Lanes, LaneCount
<1>7. \A m \in Lanes : m # l => OfNext(m) = Of(m)
  BY <1>5
<1>8. OfNext(l) = Of(l) \cup {<<<<l, Len(s) + 1>>, active[l]>>}
  <2> HIDE DEF r
  <2>1. OfNext(l) = {<<<<l, i>>, r[i]>> : i \in DOMAIN s \cup {Len(s) + 1}}
    BY <1>3, <1>4
  <2> HIDE DEF s
  <2>2. Of(l) = {<<<<l, i>>, s[i]>> : i \in DOMAIN s}
    BY DEF s
  <2> HIDE DEF Of, OfNext
  <2>3. QED
    BY <1>4, <2>1, <2>2
<1> HIDE DEF Of, OfNext, r
<1>9. QED
  BY <1>6, <1>7, <1>8

\* When the caller has every lane's results, each tile has been predicted.
LEMMA AllAnswered ==
    ASSUME DealInv, Leave, main = "collect"
    PROVE  \A t \in Tiles : \E l \in Lanes : Answered(l, t)
<1> USE TileFacts DEF DealInv, FilesInv, Shape
<1>1. \A l \in Lanes : lane[l] = "ended" /\ ~ failed[l]
  <2>1. \A l \in Lanes : l < awaited
    BY DEF Leave, Lanes
  <2>2. QED
    BY <2>1 DEF Collected
<1>2. \A l \in Lanes : ahead[l] = "none" /\ source = TileCount + 1
  BY <1>1 DEF EndSeen
<1>3. \A l \in Lanes : active[l] = NoTile /\ cpu[l] = NoTile
  BY <1>1, <1>2 DEF LaneInv
<1>4. ~ Lost
  BY <1>1, <1>2 DEF Lost
<1>5. 1 \in Lanes
  BY DEF Lanes
<1>6. \A t \in Tiles : t < source
  BY <1>2, <1>5 DEF Tiles
<1>7. QED
  BY <1>3, <1>4, <1>6 DEF NoneMissing, Taken

\* Type correctness, for every number of tiles and workers.
THEOREM TypeCorrect == Spec => []TypeOK
<1>1. DealInv => TypeOK
  BY DEF DealInv, FilesInv, Shape, ResultsOK, TypeOK
<1>2. QED
  BY <1>1, InitDeal, NextDeal, PTL DEF Spec

\* Every step of the lanes and their caller is a step of TileBatch, or one
\* TileBatch does not see: no tile is predicted twice, and the call returns
\* only with all of them (TiledProposalProvider.predict).
THEOREM BatchRefined == Spec => BatchSpec
<1> DEFINE out == IF main \in {"returned", "raised"} THEN main ELSE "running"
<1>1. Init => Batch!Init
  BY TileFacts DEF Init, Batch!Init
<1>2. DealInv /\ [Next]_vars => [Batch!Next]_(<<Given, out>>)
  <2> SUFFICES ASSUME DealInv, [Next]_vars PROVE [Batch!Next]_(<<Given, out>>)
    OBVIOUS
  <2>1. ASSUME NEW l \in Lanes, LaneStep(l) PROVE [Batch!Next]_(<<Given, out>>)
    <3>1. main' = main
      BY <2>1 DEF LaneStep, StartLane, Draw, Prepare, Receive, PrepareInline, Infer,
                  CancelAhead, Join
    <3>2. CASE Infer(l) /\ lane'[l] = "wait"
      <4> DEFINE new == <<<<l, Len(results[l]) + 1>>, active[l]>>
      <4>1. active[l] \in Tiles
        BY <3>2, AnsweredInfer
      <4>2. Given' = Given \cup {new}
        BY <3>2, GivenInfer
      <4>3. \A old \in Given : old[2] # active[l]
        <5>1. \A m \in Lanes : ~ Answered(m, active[l])
          BY <4>1 DEF DealInv, OneOwner, OnePlace, Taken
        <5>2. QED
          BY <4>1, <5>1, GivenFacts
      <4>4. out = "running" /\ out' = out
        <5>1. lane[l] = "active"
          BY <3>2 DEF Infer
        <5>2. main \notin {"returned", "raised"}
          BY <5>1 DEF DealInv, Collected
        <5>3. QED
          BY <3>1, <5>2
      <4> HIDE DEF out
      <4>5. QED
        BY <4>1, <4>2, <4>3, <4>4 DEF Batch!Next, Batch!PredictTile, Given, out
    <3>3. CASE ~ (Infer(l) /\ lane'[l] = "wait")
      <4>1. results' = results
        BY <2>1, <3>3 DEF LaneStep, StartLane, Draw, Prepare, Receive, PrepareInline,
                          Infer, CancelAhead, Join, DealInv, FilesInv, Shape
      <4>2. QED
        BY <3>1, <4>1 DEF Given
    <3>4. QED
      BY <3>2, <3>3
  <2>2. CASE Collect
    BY <2>2 DEF Collect, Given
  <2>3. CASE Leave
    <3>1. Given' = Given
      BY <2>3 DEF Leave, Given
    <3>2. CASE main = "draining"
      <4>1. out = "running" /\ out' = "raised"
        BY <2>3, <3>2 DEF Leave
      <4>2. QED
        BY <3>1, <4>1 DEF Batch!Next, Batch!Raise, Given
    <3>3. CASE main = "collect"
      <4>1. out = "running" /\ out' = "returned"
        BY <2>3, <3>3 DEF Leave
      <4>2. \A t \in Tiles : \E a \in Given : a[2] = t
        BY <2>3, <3>3, AllAnswered, GivenFacts
      <4>3. QED
        BY <3>1, <4>1, <4>2 DEF Batch!Next, Batch!Return, Given
    <3>4. QED
      BY <2>3, <3>2, <3>3 DEF Leave
  <2>4. CASE UNCHANGED vars
    BY <2>4 DEF vars, Given
  <2>5. QED
    BY <2>1, <2>2, <2>3, <2>4 DEF Next
<1>3. QED
  BY <1>1, <1>2, InitDeal, NextDeal, PTL DEF Spec, BatchSpec, Batch!Spec, Given
-------------------------------------------------------------------------------
\* Why a call ends: the steps its lanes and its caller have left.  A tile that was not
\* drawn yet is worth four steps, a lookahead the steps up to its release.
LaneSteps(place) ==
    IF place = "new" THEN 7
    ELSE IF place = "active" THEN 4
    ELSE IF place = "wait" THEN 3
    ELSE IF place = "closing" THEN 2
    ELSE IF place = "joining" THEN 1 ELSE 0

AheadSteps(future) ==
    IF future = "running" THEN 6
    ELSE IF future = "tile" THEN 5
    ELSE IF future = "error" THEN 4
    ELSE IF future = "queued" THEN 3
    ELSE IF future = "end" THEN 2 ELSE 0

Left(l) == 4 * (TileCount + 1 - source) + LaneSteps(lane[l]) + AheadSteps(ahead[l])

CallerLeft ==
    (LaneCount + 1 - awaited)
        + IF main = "collect" THEN 2 ELSE IF main = "draining" THEN 1 ELSE 0

\* A step of a lane, or of the caller, leaves it fewer steps, and nobody's step leaves
\* anybody more of them.
StepsShrink ==
    [][/\ \A l \in Lanes : /\ Left(l) \in Nat
                           /\ Left(l)' \in Nat /\ Left(l)' <= Left(l)
                           /\ LaneStep(l) => Left(l)' < Left(l)
       /\ CallerLeft \in Nat
       /\ CallerLeft' \in Nat /\ CallerLeft' <= CallerLeft
       /\ Collect \/ Leave => CallerLeft' < CallerLeft]_vars

\* Nobody waits for what will not come: a lane that waits, or that will after its tile, has
\* a lookahead under way, and the caller waits for no lane that was cancelled.
NobodyStuck ==
    /\ \A l \in Lanes : prefetch /\ lane[l] \in {"wait", "active"} =>
          ahead[l] \in {"queued", "running", "tile", "end", "error"}
    /\ main = "collect" => \A l \in Lanes : lane[l] # "cancelled"

\* The steps that are left are a natural number.
Counted == CallerLeft \in Nat /\ \A l \in Lanes : Left(l) \in Nat

LEMMA LeftCounted == FilesInv => Counted
<1> SUFFICES ASSUME FilesInv PROVE Counted
  OBVIOUS
<1>1. source \in 1 .. TileCount + 1 /\ awaited \in 1 .. LaneCount + 1
  BY DEF FilesInv, Shape
<1>2. TileCount + 1 - source \in Nat /\ LaneCount + 1 - awaited \in Nat
  BY <1>1, TileFacts
<1>3. \A x : LaneSteps(x) \in Nat /\ AheadSteps(x) \in Nat
  BY DEF LaneSteps, AheadSteps
<1>4. CallerLeft \in Nat
  BY <1>2 DEF CallerLeft
<1>5. ASSUME NEW l \in Lanes PROVE Left(l) \in Nat
  <2>1. LaneSteps(lane[l]) \in Nat /\ AheadSteps(ahead[l]) \in Nat
    BY <1>3
  <2>2. QED
    BY <1>2, <2>1 DEF Left
<1>6. QED
  BY <1>4, <1>5 DEF Counted

LEMMA LeftCountedNext == FilesInv' => Counted'
BY LeftCounted, PTL

\* A lane's own step.
LEMMA OwnShrinks ==
    ASSUME FilesInv, NEW l \in Lanes, LaneStep(l)
    PROVE  Left(l)' < Left(l)
<1>1. /\ source \in 1 .. TileCount + 1 /\ TileCount \in Nat
      /\ lane \in [Lanes -> {"new", "wait", "active", "closing", "joining", "ended", "cancelled"}]
      /\ ahead \in [Lanes -> {"none", "queued", "running", "tile", "end", "error", "cancelled"}]
      /\ LaneInv(l)
  BY TileFacts DEF FilesInv, Shape
<1> USE DEF Left, LaneSteps, AheadSteps
<1>2. CASE StartLane(l)
  BY <1>1, <1>2 DEF StartLane, LaneInv
<1>3. CASE Draw(l)
  BY <1>1, <1>3 DEF Draw
<1>4. CASE Prepare(l)
  BY <1>1, <1>4 DEF Prepare
<1>5. CASE Receive(l)
  BY <1>1, <1>5 DEF Receive
<1>6. CASE PrepareInline(l)
  BY <1>1, <1>6 DEF PrepareInline
<1>7. CASE Infer(l)
  BY <1>1, <1>7 DEF Infer
<1>8. CASE CancelAhead(l)
  BY <1>1, <1>8 DEF CancelAhead
<1>9. CASE Join(l)
  BY <1>1, <1>9 DEF Join
<1>10. QED
  BY <1>2, <1>3, <1>4, <1>5, <1>6, <1>7, <1>8, <1>9 DEF LaneStep

\* Another lane may only have drawn a tile; the caller may only have cancelled the lane.
LEMMA OthersShrink ==
    ASSUME FilesInv, [Next]_vars, NEW l \in Lanes, ~ LaneStep(l)
    PROVE  Left(l)' <= Left(l)
<1>1. /\ source \in 1 .. TileCount + 1 /\ TileCount \in Nat
      /\ lane \in [Lanes -> {"new", "wait", "active", "closing", "joining", "ended", "cancelled"}]
      /\ ahead \in [Lanes -> {"none", "queued", "running", "tile", "end", "error", "cancelled"}]
  BY TileFacts DEF FilesInv, Shape
<1>2. /\ source' = source \/ source' = source + 1
      /\ ahead'[l] = ahead[l]
      /\ lane'[l] = lane[l] \/ (lane[l] = "new" /\ lane'[l] = "cancelled")
      => Left(l)' <= Left(l)
  <2> SUFFICES ASSUME source' = source \/ source' = source + 1, ahead'[l] = ahead[l],
                      lane'[l] = lane[l] \/ (lane[l] = "new" /\ lane'[l] = "cancelled")
               PROVE  Left(l)' <= Left(l)
    OBVIOUS
  <2>1. LaneSteps(lane'[l]) <= LaneSteps(lane[l]) /\ LaneSteps(lane[l]) \in Nat
        /\ LaneSteps(lane'[l]) \in Nat /\ AheadSteps(ahead[l]) \in Nat
    BY DEF LaneSteps, AheadSteps
  <2>2. QED
    BY <1>1, <2>1 DEF Left
<1>3. ASSUME NEW m \in Lanes, LaneStep(m) PROVE Left(l)' <= Left(l)
  <2>1. (source' = source \/ source' = source + 1) /\ ahead'[l] = ahead[l] /\ lane'[l] = lane[l]
    BY <1>1, <1>3 DEF LaneStep, StartLane, Draw, Prepare, Receive, PrepareInline, Infer,
                      CancelAhead, Join
  <2>2. QED
    BY <1>2, <2>1
<1>4. CASE Collect
  BY <1>1, <1>2, <1>4 DEF Collect
<1>5. CASE Leave
  BY <1>1, <1>2, <1>5 DEF Leave
<1>6. CASE UNCHANGED vars
  BY <1>2, <1>6 DEF vars
<1>7. QED
  BY <1>3, <1>4, <1>5, <1>6 DEF Next

LEMMA CallerShrinks ==
    ASSUME FilesInv, [Next]_vars
    PROVE  /\ CallerLeft' <= CallerLeft
           /\ Collect \/ Leave => CallerLeft' < CallerLeft
<1>1. awaited \in 1 .. LaneCount + 1 /\ LaneCount \in Nat /\ LaneCount' = LaneCount
  BY TileFacts DEF FilesInv, Shape, LaneCount
<1>2. CASE Collect
  BY <1>1, <1>2 DEF Collect, CallerLeft
<1>3. CASE Leave
  BY <1>1, <1>3 DEF Leave, CallerLeft
<1>4. ASSUME UNCHANGED <<main, awaited>> PROVE CallerLeft' = CallerLeft /\ CallerLeft \in Nat
  BY <1>1, <1>4, LeftCounted DEF CallerLeft, Counted
<1>5. ASSUME NEW l \in Lanes, LaneStep(l) PROVE UNCHANGED <<main, awaited>>
  BY <1>5 DEF LaneStep, StartLane, Draw, Prepare, Receive, PrepareInline, Infer,
              CancelAhead, Join
<1>6. CASE ~ (Collect \/ Leave)
  <2>1. UNCHANGED <<main, awaited>>
    BY <1>5, <1>6 DEF Next, vars
  <2>2. QED
    BY <1>4, <1>6, <2>1
<1>7. QED
  BY <1>2, <1>3, <1>6

\* predict, cpu_prepared_items: a lane makes at most 4 * TileCount + 7 steps and the caller
\* at most LaneCount + 2, whatever fails: this, and NobodyStuck, is what PredictEnds rests
\* on.
THEOREM CallShrinks == Spec => StepsShrink
<1>1. ASSUME FilesInv, FilesInv', [Next]_vars, NEW l \in Lanes
      PROVE  /\ Left(l) \in Nat
             /\ Left(l)' \in Nat /\ Left(l)' <= Left(l)
             /\ LaneStep(l) => Left(l)' < Left(l)
  <2>1. Left(l) \in Nat /\ Left(l)' \in Nat
    <3>1. l \in Lanes'
      BY DEF Lanes, LaneCount
    <3>2. QED
      BY <1>1, <3>1, LeftCounted, LeftCountedNext DEF Counted
  <2>2. LaneStep(l) => Left(l)' < Left(l)
    BY <1>1, OwnShrinks
  <2>3. Left(l)' <= Left(l)
    BY <1>1, <2>1, <2>2, OthersShrink
  <2>4. QED
    BY <2>1, <2>2, <2>3
<1>2. ASSUME FilesInv, FilesInv', [Next]_vars
      PROVE  /\ CallerLeft \in Nat
             /\ CallerLeft' \in Nat /\ CallerLeft' <= CallerLeft
             /\ Collect \/ Leave => CallerLeft' < CallerLeft
  BY <1>2, LeftCounted, LeftCountedNext, CallerShrinks DEF Counted
<1>3. FilesInv /\ FilesInv' /\ [Next]_vars =>
        [/\ \A l \in Lanes : /\ Left(l) \in Nat
                             /\ Left(l)' \in Nat /\ Left(l)' <= Left(l)
                             /\ LaneStep(l) => Left(l)' < Left(l)
         /\ CallerLeft \in Nat
         /\ CallerLeft' \in Nat /\ CallerLeft' <= CallerLeft
         /\ Collect \/ Leave => CallerLeft' < CallerLeft]_vars
  BY <1>1, <1>2
<1>4. QED
  BY <1>3, InitFiles, NextFiles, PTL DEF Spec, StepsShrink

\* cpu_prepared_items, predict: no lane waits for a lookahead that was never submitted or
\* was taken back, and the caller for no lane that will not run, however the lanes
\* interleave and fail.
THEOREM NoLostWait == Spec => []NobodyStuck
<1>1. Init => NobodyStuck
  BY DEF Init, NobodyStuck
<1>2. ASSUME FilesInv, NobodyStuck, [Next]_vars PROVE NobodyStuck'
  <2>0. /\ lane \in [Lanes -> {"new", "wait", "active", "closing", "joining", "ended", "cancelled"}]
        /\ ahead \in [Lanes -> {"none", "queued", "running", "tile", "end", "error", "cancelled"}]
        /\ prefetch \in BOOLEAN /\ Lanes' = Lanes
    BY <1>2 DEF FilesInv, Shape, Lanes, LaneCount
  <2>1. ASSUME NEW l \in Lanes, LaneStep(l) PROVE NobodyStuck'
    BY <1>2, <2>0, <2>1 DEF NobodyStuck, LaneStep, StartLane, Draw, Prepare, Receive,
                           PrepareInline, Infer, CancelAhead, Join
  <2>2. CASE Collect
    BY <1>2, <2>0, <2>2 DEF NobodyStuck, Collect
  <2>3. CASE Leave
    BY <1>2, <2>0, <2>3 DEF NobodyStuck, Leave
  <2>4. CASE UNCHANGED vars
    BY <1>2, <2>0, <2>4 DEF NobodyStuck, vars
  <2>5. QED
    BY <1>2, <2>1, <2>2, <2>3, <2>4 DEF Next
<1>3. QED
  BY <1>1, <1>2, InitFiles, NextFiles, PTL DEF Spec
===============================================================================
