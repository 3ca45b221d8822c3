--------------------------- MODULE MergerSweepProofs ---------------------------
(***************************************************************************)
(* Proofs about MergerSweep for every number of experiments and every      *)
(* bound on starts, kills and failures.                                    *)
(*                                                                         *)
(* SweepInv says, for each place of the process, what the status file of   *)
(* the current experiment says (PlaceOK), that what the status files say   *)
(* is on the disk (DiskOK), that the experiments behind the process are    *)
(* settled and recorded (ProgressOK), and that phase B has not begun       *)
(* before phase A is settled (OrderOK).                                    *)
(***************************************************************************)
EXTENDS MergerSweep, FiniteSetTheorems, WellFoundedInduction, TLAPS

-------------------------------------------------------------------------------
\* The selection: the best of some phase A experiments exists and is unique.
Beats(score, a, b) == score[b] < score[a] \/ (score[b] = score[a] /\ a <= b)
BestOf(score, T, a) == a \in T /\ \A b \in T : Beats(score, a, b)

LEMMA Places ==
    /\ NA \in Nat \ {0} /\ NB \in Nat \ {0}
    /\ PhaseA \subseteq Experiments /\ PhaseB \subseteq Experiments
    /\ Experiments = PhaseA \cup PhaseB
    /\ \A a \in PhaseA : a \in Nat /\ a # 0 /\ a \notin PhaseB
    /\ \A a \in PhaseA, b \in PhaseB : a < b
    /\ Experiments \subseteq Jobs /\ 0 \in Jobs /\ Existing \in Jobs
    /\ 0 \notin Experiments /\ Existing \notin Experiments
    /\ \A j \in Jobs : j \in Nat /\ j <= Existing
    /\ \A j \in Jobs : j \in Experiments \/ j = 0 \/ j = Existing
    /\ \A e \in Experiments : e \in Nat /\ e < Existing
BY ConstantsAssumption DEF PhaseA, PhaseB, Experiments, Existing, Jobs

\* A finite set of experiments that is not empty has a best one: a smallest set without
\* one would still have none without one of its members.
LEMMA BestExists ==
    ASSUME NEW score \in [PhaseA -> Nat], NEW T \in SUBSET PhaseA, T # {}
    PROVE  \E a \in T : BestOf(score, T, a)
<1> DEFINE Bad(S) == S # {} /\ ~\E a \in S : BestOf(score, S, a)
           Sizes == {n \in Nat : \E S \in SUBSET T : Bad(S) /\ Cardinality(S) = n}
<1> SUFFICES ASSUME Bad(T) PROVE FALSE
  OBVIOUS
<1>1. IsFiniteSet(T)
  <2>1. IsFiniteSet(PhaseA)
    BY Places, FS_Interval DEF PhaseA
  <2>2. QED
    BY <2>1, FS_Subset
<1>2. \A S \in SUBSET T : IsFiniteSet(S) /\ Cardinality(S) \in Nat
  BY <1>1, FS_Subset, FS_CardinalityType
<1>3. Sizes \subseteq Nat /\ Sizes # {}
  <2>1. Cardinality(T) \in Sizes
    BY <1>2
  <2>2. QED
    BY <2>1
<1>4. PICK n \in Sizes : \A m \in Sizes : ~(<<m, n>> \in OpToRel(<, Nat))
  <2> HIDE DEF Sizes
  <2>1. QED
    BY <1>3, NatLessThanWellFounded, WFMin
<1>5. PICK S \in SUBSET T : Bad(S) /\ Cardinality(S) = n
  OBVIOUS
<1>6. PICK x \in S : TRUE
  BY <1>5
<1> DEFINE R == S \ {x}
<1>7. Cardinality(R) = n - 1 /\ n \in Nat /\ Cardinality(R) \in Nat
  BY <1>2, <1>5, <1>6, FS_RemoveElement
<1>8. ~Bad(R)
  <2>1. Cardinality(R) \in Nat /\ Cardinality(R) < n
    BY <1>7
  <2>2. <<Cardinality(R), n>> \in OpToRel(<, Nat)
    BY <1>7, <2>1 DEF OpToRel
  <2>3. Cardinality(R) \notin Sizes
    BY <1>4, <2>2
  <2>4. R \in SUBSET T
    OBVIOUS
  <2>5. QED
    BY <2>1, <2>3, <2>4
<1>9. \A a, b \in PhaseA : a \in Nat /\ b \in Nat /\ score[a] \in Nat /\ score[b] \in Nat
  BY Places
<1>10. \A a, b, c \in PhaseA :
         /\ Beats(score, a, a)
         /\ Beats(score, a, b) \/ Beats(score, b, a)
         /\ Beats(score, a, b) /\ Beats(score, b, c) => Beats(score, a, c)
  BY <1>9 DEF Beats
<1>11. CASE R = {}
  <2>1. S = {x}
    BY <1>6, <1>11
  <2>2. BestOf(score, S, x)
    BY <2>1, <1>10 DEF BestOf
  <2>3. QED
    BY <1>5, <1>6, <2>2
<1>12. CASE R # {}
  <2>1. PICK a \in R : BestOf(score, R, a)
    BY <1>8, <1>12
  <2>2. S \subseteq PhaseA /\ S = R \cup {x}
    BY <1>6
  <2>3. CASE Beats(score, a, x)
    <3>1. BestOf(score, S, a)
      BY <2>1, <2>2, <2>3 DEF BestOf
    <3>2. QED
      BY <1>5, <2>1, <3>1
  <2>4. CASE ~Beats(score, a, x)
    <3>1. Beats(score, x, a)
      BY <1>10, <2>1, <2>2, <2>4
    <3>2. \A b \in S : Beats(score, x, b)
      BY <1>10, <2>1, <2>2, <3>1 DEF BestOf
    <3>3. BestOf(score, S, x)
      BY <1>6, <3>2 DEF BestOf
    <3>4. QED
      BY <1>5, <1>6, <3>3
  <2>5. QED
    BY <2>3, <2>4
<1>13. QED
  BY <1>11, <1>12

\* Two lists of records that agree on phase A.
Agree(r, q) ==
    \A a \in PhaseA : /\ r[a].status = "ANALYZED" <=> q[a].status = "ANALYZED"
                      /\ r[a].status = "ANALYZED" => r[a].score = q[a].score

\* The selection is one of the learning rates of phase A.
LEMMA SelectedFacts ==
    ASSUME NEW r, \A a \in PhaseA : r[a].score \in Nat
    PROVE  /\ SelectedLr(r) \in Learned
           /\ Eligible(r) # {} => BestOf([a \in PhaseA |-> r[a].score], Eligible(r), Best(r))
<1> DEFINE score == [a \in PhaseA |-> r[a].score]
<1>1. Eligible(r) \in SUBSET PhaseA /\ score \in [PhaseA -> Nat]
  BY DEF Eligible
<1>2. ASSUME Eligible(r) # {} PROVE BestOf(score, Eligible(r), Best(r))
  <2>1. PICK a \in Eligible(r) : BestOf(score, Eligible(r), a)
    BY <1>1, <1>2, BestExists
  <2>2. \A b, c \in PhaseA : Beats(score, b, c) <=>
            r[c].score < r[b].score \/ (r[c].score = r[b].score /\ b <= c)
    BY DEF Beats
  <2> HIDE DEF score
  <2>3. \A b \in Eligible(r) :
            r[b].score < r[a].score \/ (r[b].score = r[a].score /\ a <= b)
    BY <1>1, <2>1, <2>2 DEF BestOf
  <2>4. /\ Best(r) \in Eligible(r)
        /\ \A b \in Eligible(r) :
              r[b].score < r[Best(r)].score
              \/ (r[b].score = r[Best(r)].score /\ Best(r) <= b)
    BY <2>1, <2>3 DEF Best
  <2>5. QED
    BY <1>1, <2>2, <2>4 DEF BestOf
<1>3. Learned = PhaseA /\ FallbackLr \in Learned
  BY ConstantsAssumption DEF Learned, PhaseA
<1>4. SelectedLr(r) \in Learned
  BY <1>1, <1>2, <1>3 DEF SelectedLr, BestOf
<1>5. QED
  BY <1>2, <1>4

\* The selection looks at nothing else.
LEMMA SameSelection ==
    ASSUME NEW r, NEW q, Agree(r, q),
           \A a \in PhaseA : r[a].score \in Nat /\ q[a].score \in Nat
    PROVE  SelectedLr(r) = SelectedLr(q)
<1>1. Eligible(r) = Eligible(q) /\ Eligible(r) \subseteq PhaseA
  BY DEF Agree, Eligible
<1>2. CASE Eligible(r) = {}
  BY <1>1, <1>2 DEF SelectedLr
<1>3. CASE Eligible(r) # {}
  <2> DEFINE a == Best(r)
             b == Best(q)
  <2>1. /\ BestOf([x \in PhaseA |-> r[x].score], Eligible(r), a)
        /\ BestOf([x \in PhaseA |-> q[x].score], Eligible(r), b)
    BY <1>1, <1>3, SelectedFacts
  <2>2. a \in PhaseA /\ b \in PhaseA /\ a \in Nat /\ b \in Nat
    BY <1>1, <2>1, Places DEF BestOf
  <2>3. r[a].score = q[a].score /\ r[b].score = q[b].score
    BY <2>1 DEF BestOf, Eligible, Agree
  <2>4. /\ r[b].score < r[a].score \/ (r[b].score = r[a].score /\ a <= b)
        /\ q[a].score < q[b].score \/ (q[a].score = q[b].score /\ b <= a)
    BY <2>1, <2>2 DEF BestOf, Beats
  <2>5. a = b
    <3> HIDE DEF a, b
    <3>1. QED
      BY <2>2, <2>3, <2>4
  <2>6. QED
    BY <1>1, <1>3, <2>5 DEF SelectedLr
<1>4. QED
  BY <1>2, <1>3

-------------------------------------------------------------------------------
\* The invariant.
Busy == {"train", "trained", "evaluate", "fallback", "evaluated", "analyze"}
Evaluating == {"evaluate", "fallback", "evaluated"}
HasCheckpoint == {"trained", "analyze"} \cup Evaluating
SettledStatus == {"ANALYZED", "FAILED"}

\* Where the process is and what the files of its experiment are.
PlaceOK ==
    /\ proc.pc \in {"train", "trained", "analyze"} => proc.job \in Experiments
    /\ proc.pc \in Evaluating => proc.job \in Jobs
    /\ proc.job \in Experiments =>
          /\ proc.pc \in {"train", "trained"} => status[proc.job] = "RUNNING"
          /\ proc.pc \in Evaluating => status[proc.job] = "TRAINED"
          /\ proc.pc = "analyze" => status[proc.job] = "EVALUATED"
          /\ proc.pc \in HasCheckpoint =>
                ckpt[proc.job].gen > 0 /\ ckpt[proc.job].lr = LrOf(proc.job)
    /\ proc.pc \in {"evaluated", "analyze"} => eval[proc.job].batch # 0

\* What a run has been started as.
RunOK ==
    /\ proc.pc # "stopped" => ended = "none"
    /\ faults.starts = 0 => /\ proc.pc = "stopped"
                            /\ \A e \in Experiments : status[e] = "absent"
    /\ proc.pc # "stopped" /\ ~proc.resume =>
          \A e \in Experiments :
              proc.job < e \/ (proc.job = e /\ proc.pc = "next") => status[e] = "absent"
    /\ proc.retry => faults.retried

DiskOK ==
    \A e \in Experiments :
        /\ status[e] \in {"TRAINED", "EVALUATED", "ANALYZED"} => ckpt[e].gen > 0
        /\ status[e] \in {"EVALUATED", "ANALYZED"} => eval[e].batch # 0
        /\ status[e] = "ANALYZED" =>
              /\ saved[e].status = "ANALYZED"
              /\ saved[e].lr = ckpt[e].lr
              /\ saved[e].score = eval[e].score
              /\ saved[e].batch = eval[e].batch
              /\ saved[e].gen = eval[e].gen

\* The experiment is settled, and its record in this run says so.
Recorded(e) ==
    /\ status[e] \in SettledStatus
    /\ records[e].status = status[e]
    /\ status[e] = "ANALYZED" => records[e] = saved[e]

ProgressOK ==
    /\ proc.pc # "stopped" => \A e \in Experiments : e < proc.job => Recorded(e)
    /\ ended \in {"completed", "completed_with_failures"} =>
          \A e \in Experiments :
              Recorded(e) /\ (ended = "completed" => status[e] = "ANALYZED")

\* Phase B begins when phase A is settled, and only --retry-failed changes that again.
OrderOK ==
    ~faults.retried /\ (\E b \in PhaseB : status[b] # "absent") =>
        \A a \in PhaseA : status[a] \in SettledStatus

OnDisk == [a \in Experiments |-> IF status[a] = "ANALYZED" THEN saved[a] ELSE NoRecord]

SweepInv == TypeOK /\ PlaceOK /\ RunOK /\ DiskOK /\ ProgressOK /\ OrderOK /\ PhaseBUniform

-------------------------------------------------------------------------------
\* An experiment the process works at is not analysed, and not settled either unless
\* --retry-failed was given.
Works == \/ proc.pc = "next" /\ proc.job \in Experiments /\ ~Settled(proc.job)
         \/ proc.pc \in Busy /\ proc.job \in Experiments

LEMMA WorksUnsettled ==
    ASSUME SweepInv, Works
    PROVE  /\ proc.job \in Experiments /\ proc.pc # "stopped"
           /\ status[proc.job] # "ANALYZED"
           /\ ~faults.retried => status[proc.job] \notin SettledStatus
<1>1. CASE proc.pc = "next" /\ proc.job \in Experiments /\ ~Settled(proc.job)
  <2>1. ~proc.resume => status[proc.job] = "absent"
    BY <1>1 DEF SweepInv, RunOK
  <2>2. proc.resume => /\ status[proc.job] # "ANALYZED"
                       /\ status[proc.job] = "FAILED" => proc.retry
    BY <1>1 DEF Settled
  <2>3. proc.retry => faults.retried
    BY DEF SweepInv, RunOK
  <2>4. QED
    BY <1>1, <2>1, <2>2, <2>3 DEF SettledStatus
<1>2. CASE proc.pc \in Busy /\ proc.job \in Experiments
  <2>1. status[proc.job] \in {"RUNNING", "TRAINED", "EVALUATED"}
    BY <1>2 DEF SweepInv, PlaceOK, Busy, Evaluating
  <2>2. QED
    BY <1>2, <2>1 DEF Busy, SettledStatus
<1>3. QED
  BY <1>1, <1>2 DEF Works

\* The scores of the records are numbers.
LEMMA ScoreTypes ==
    ASSUME TypeOK
    PROVE  \A a \in PhaseA : records[a].score \in Nat /\ OnDisk[a].score \in Nat
BY Places DEF TypeOK, Records, OnDisk, NoRecord

\* While phase B runs, the records of phase A are those on the disk.
LEMMA SelectionOnDisk ==
    ASSUME SweepInv, proc.pc # "stopped", proc.job \in PhaseB
    PROVE  SelectedLr(records) = SelectedLr(OnDisk)
<1>1. \A a \in PhaseA : Recorded(a)
  BY Places DEF SweepInv, ProgressOK
<1>2. \A a \in PhaseA : status[a] = "ANALYZED" => saved[a].status = "ANALYZED"
  BY Places DEF SweepInv, DiskOK
<1>3. Agree(records, OnDisk)
  BY <1>1, <1>2, Places DEF Agree, Recorded, OnDisk, NoRecord, SettledStatus
<1>4. QED
  BY <1>3, SameSelection, ScoreTypes DEF SweepInv

\* A step that changes the files of the experiment the process works at only.
LEMMA ChangeOne ==
    ASSUME SweepInv, Works, TypeOK', faults'.retried = faults.retried,
           \A e \in Experiments \ {proc.job} : status'[e] = status[e] /\ saved'[e] = saved[e],
           status'[proc.job] = "ANALYZED" => saved'[proc.job].lr = LrOf(proc.job)
    PROVE  OrderOK' /\ PhaseBUniform'
<1> DEFINE j == proc.job
<1>1. /\ j \in Experiments /\ proc.pc # "stopped"
      /\ ~faults.retried => status[j] \notin SettledStatus
  BY WorksUnsettled
<1>2. CASE faults.retried
  BY <1>2 DEF OrderOK, PhaseBUniform
<1>3. CASE ~faults.retried /\ j \in PhaseA
  <2>1. \A b \in PhaseB : status[b] = "absent"
    BY <1>1, <1>3 DEF SweepInv, OrderOK
  <2>2. \A b \in PhaseB : status'[b] = "absent"
    BY <1>3, <2>1, Places
  <2>3. QED
    BY <2>2 DEF OrderOK, PhaseBUniform
<1>4. CASE ~faults.retried /\ j \in PhaseB
  <2>1. \A a \in PhaseA : a # j /\ a \in Experiments /\ a < j
    BY <1>4, Places
  <2>2. \A a \in PhaseA : status[a] \in SettledStatus
    BY <1>1, <2>1 DEF SweepInv, ProgressOK, Recorded
  <2>3. OrderOK'
    BY <2>1, <2>2 DEF OrderOK
  <2>4. Agree(OnDisk', OnDisk)
    BY <2>1 DEF Agree, OnDisk
  <2>5. \A a \in PhaseA : OnDisk'[a].score \in Nat /\ OnDisk[a].score \in Nat
    BY <2>1 DEF OnDisk, NoRecord, SweepInv, TypeOK, Records
  <2>6. SelectedLr(OnDisk') = SelectedLr(OnDisk)
    BY <2>4, <2>5, SameSelection
  <2>7. status'[j] = "ANALYZED" => saved'[j].lr = SelectedLr(OnDisk)
    <3>1. j \notin PhaseA
      BY <1>4, Places
    <3>2. LrOf(j) = SelectedLr(OnDisk)
      BY <1>1, <1>4, <3>1, SelectionOnDisk DEF LrOf
    <3>3. QED
      BY <3>2
  <2>8. \A b \in PhaseB : status[b] = "ANALYZED" => saved[b].lr = SelectedLr(OnDisk)
    BY <1>4 DEF SweepInv, PhaseBUniform, OnDisk
  <2>9. \A b \in PhaseB : status'[b] = "ANALYZED" => saved'[b].lr = SelectedLr(OnDisk)
    BY <2>7, <2>8, Places
  <2>10. QED
    BY <2>3, <2>6, <2>9 DEF PhaseBUniform, OnDisk
<1>5. QED
  BY <1>1, <1>2, <1>3, <1>4, Places

\* A step that changes neither the status files nor the records in them.
LEMMA ChangeNone ==
    ASSUME SweepInv, UNCHANGED <<status, saved>>, faults.retried => faults'.retried
    PROVE  OrderOK' /\ PhaseBUniform'
<1>1. OrderOK'
  BY DEF SweepInv, OrderOK
<1>2. PhaseBUniform'
  BY DEF SweepInv, PhaseBUniform
<1>3. QED
  BY <1>1, <1>2

-------------------------------------------------------------------------------
\* The steps that leave the files alone.
LEMMA InitSweep == Init => SweepInv
<1> SUFFICES ASSUME Init PROVE SweepInv
  OBVIOUS
<1>1. TypeOK
  <2>1. NoRecord \in Records /\ 1 \in Learned /\ 0 \in 0 .. Existing + 1
    BY ConstantsAssumption DEF NoRecord, Records, Learned, Existing
  <2>2. QED
    BY <2>1 DEF Init, TypeOK, Statuses, Evals, NoEval
<1>2. PlaceOK /\ RunOK /\ DiskOK /\ ProgressOK
  BY DEF Init, PlaceOK, RunOK, DiskOK, ProgressOK, Evaluating, HasCheckpoint
<1>3. OrderOK /\ PhaseBUniform
  BY Places DEF Init, OrderOK, PhaseBUniform
<1>4. QED
  BY <1>1, <1>2, <1>3 DEF SweepInv

\* LrOf looks at the records only.
LEMMA SameLr ==
    ASSUME UNCHANGED records
    PROVE  \A e : LrOf(e)' = LrOf(e)
BY DEF LrOf, SelectedLr, Eligible, Best

LEMMA StartStep == ASSUME SweepInv, Start PROVE SweepInv'
<1>0. PICK retry \in BOOLEAN :
        /\ proc' = [pc |-> "next", job |-> 0, batch |-> 4, attempt |-> 1,
                     resume |-> faults.starts > 0, retry |-> retry]
        /\ faults' = [faults EXCEPT !.starts = @ + 1, !.retried = @ \/ retry]
  BY DEF Start
<1>f. /\ faults.starts \in Nat /\ faults.retried \in BOOLEAN
      /\ faults'.starts = faults.starts + 1
      /\ faults.retried => faults'.retried
      /\ retry => faults'.retried
      /\ faults' \in [starts : Nat, kills : Nat, failures : Nat, ooms : Nat,
                      retried : BOOLEAN]
  <2>1. faults \in [starts : Nat, kills : Nat, failures : Nat, ooms : Nat,
                    retried : BOOLEAN]
    BY DEF SweepInv, TypeOK
  <2>2. (faults.retried \/ retry) \in BOOLEAN /\ faults.starts + 1 \in Nat
    BY <2>1
  <2> DEFINE again == faults.retried \/ retry
             more == faults.starts + 1
  <2>3. faults' = [faults EXCEPT !.starts = more, !.retried = again]
    BY <1>0
  <2>4. (faults.retried => again) /\ (retry => again)
    OBVIOUS
  <2>5. again \in BOOLEAN /\ more \in Nat
    BY <2>2
  <2> HIDE DEF again, more
  <2>6. faults'.starts = more /\ faults'.retried = again
    BY <2>1, <2>3
  <2>7. faults' \in [starts : Nat, kills : Nat, failures : Nat, ooms : Nat,
                     retried : BOOLEAN]
    BY <2>1, <2>3, <2>5
  <2>8. QED
    BY <2>1, <2>4, <2>6, <2>7 DEF more
<1>p. /\ proc'.pc = "next" /\ proc'.job = 0 /\ proc'.retry = retry
      /\ faults.starts > 0 => proc'.resume
  BY <1>0
<1>g. /\ UNCHANGED <<status, saved, ckpt, eval, oomLog>>
      /\ ended' = "none" /\ records' = [e \in Experiments |-> NoRecord]
  BY DEF Start, disk
<1>1. TypeOK'
  <2>1. NoRecord \in Records /\ 0 \in 0 .. Existing + 1
    BY ConstantsAssumption DEF NoRecord, Records, Learned, Existing
  <2>2. QED
    <3>1. proc' \in [pc : {"next"}, job : {0}, batch : {4}, attempt : {1},
                     resume : BOOLEAN, retry : BOOLEAN]
      BY <1>0, <1>f
    <3>2. QED
      BY <1>f, <1>g, <2>1, <3>1 DEF SweepInv, TypeOK
<1>2. PlaceOK'
  BY <1>p, Places DEF PlaceOK, Evaluating, HasCheckpoint
<1>3. RunOK'
  <2>1. faults'.starts # 0
    BY <1>f
  <2>2. ~proc'.resume => faults.starts = 0
    BY <1>p, <1>f
  <2>3. QED
    BY <1>f, <1>g, <1>p, <2>1, <2>2 DEF SweepInv, RunOK
<1>4. DiskOK'
  BY <1>g DEF SweepInv, DiskOK
<1>5. ProgressOK'
  BY <1>g, <1>p, Places DEF ProgressOK
<1>7. OrderOK' /\ PhaseBUniform'
  BY <1>f, <1>g, ChangeNone
<1>8. QED
  BY <1>1, <1>2, <1>3, <1>4, <1>5, <1>7 DEF SweepInv

\* A step after which the process is at a place of the same experiment that needs no more
\* of the files, or gives up.
LEMMA QuietStep ==
    ASSUME SweepInv,
           BeginEvaluation \/ Unreadable \/ ReuseEvaluation \/ BatchDiffers
    PROVE  SweepInv'
<1>1. /\ proc.pc # "stopped" /\ UNCHANGED <<status, saved, ckpt, eval, oomLog, records, faults>>
      /\ \/ /\ proc' = [proc EXCEPT !.pc = "evaluate"] /\ proc.pc = "next"
            /\ proc.job \in {0, Existing} /\ ended' = ended
         \/ /\ proc' = [proc EXCEPT !.pc = "evaluated"] /\ proc.pc = "evaluate"
            /\ eval[proc.job].batch # 0 /\ ended' = ended
         \/ proc' = [proc EXCEPT !.pc = "stopped"] /\ ended' \in {"aborted", "mismatch"}
  BY DEF BeginEvaluation, Unreadable, ReuseEvaluation, Reusable, BatchDiffers, disk
<1>2. TypeOK'
  BY <1>1 DEF SweepInv, TypeOK
<1>3. PlaceOK'
  BY <1>1, SameLr, Places DEF SweepInv, TypeOK, PlaceOK, Evaluating, HasCheckpoint
<1>4. RunOK'
  BY <1>1 DEF SweepInv, TypeOK, RunOK
<1>5. DiskOK'
  BY <1>1 DEF SweepInv, DiskOK
<1>6. ProgressOK'
  BY <1>1 DEF SweepInv, TypeOK, ProgressOK, Recorded, RunOK
<1>7. OrderOK' /\ PhaseBUniform'
  BY <1>1, ChangeNone
<1>8. QED
  BY <1>2, <1>3, <1>4, <1>5, <1>6, <1>7 DEF SweepInv

LEMMA AcceptStep == ASSUME SweepInv, AcceptEvaluation PROVE SweepInv'
<1>1. /\ proc.pc = "evaluated" /\ proc.job \in {0, Existing}
      /\ UNCHANGED <<status, saved, ckpt, eval, oomLog, records, ended, faults>>
      /\ proc' = IF proc.job = 0 THEN [NextJob EXCEPT !.batch = eval[0].batch] ELSE NextJob
  BY DEF AcceptEvaluation, disk
<1>2. eval[proc.job].batch \in {2, 4}
  BY <1>1, Places DEF SweepInv, TypeOK, PlaceOK, Evals
<1>3. /\ proc'.pc = "next" /\ proc'.job = proc.job + 1 /\ proc'.attempt = 1
      /\ proc'.batch \in {2, 4} /\ proc'.resume = proc.resume /\ proc'.retry = proc.retry
      /\ proc' = [pc |-> "next", job |-> proc.job + 1, batch |-> proc'.batch, attempt |-> 1,
                  resume |-> proc.resume, retry |-> proc.retry]
  BY <1>1, <1>2 DEF NextJob, SweepInv, TypeOK
<1>4. proc.job + 1 \in 0 .. Existing + 1
  BY <1>1, ConstantsAssumption DEF Existing
<1>5. TypeOK'
  BY <1>1, <1>3, <1>4 DEF SweepInv, TypeOK
<1>6. PlaceOK'
  BY <1>3 DEF PlaceOK, Evaluating, HasCheckpoint
<1>7. RunOK'
  BY <1>1, <1>3, Places DEF SweepInv, RunOK
<1>8. DiskOK'
  BY <1>1 DEF SweepInv, DiskOK
<1>9. ProgressOK'
  <2>1. \A e \in Experiments : e < proc.job + 1 => e < proc.job
    BY <1>1, Places
  <2>2. QED
    BY <1>1, <1>3, <2>1 DEF SweepInv, ProgressOK, Recorded, RunOK
<1>10. OrderOK' /\ PhaseBUniform'
  BY <1>1, ChangeNone
<1>11. QED
  BY <1>5, <1>6, <1>7, <1>8, <1>9, <1>10 DEF SweepInv

LEMMA TakeOverStep ==
    ASSUME SweepInv, TakeOver, NEW j \in Experiments, j = proc.job PROVE SweepInv'
<1>1. /\ proc.pc = "next" /\ status[j] \in SettledStatus
      /\ proc.resume
      /\ UNCHANGED <<status, saved, ckpt, eval, oomLog, ended, faults>>
      /\ records' = [records EXCEPT ![j] = IF status[j] = "ANALYZED" THEN saved[j]
                                           ELSE [NoRecord EXCEPT !.status = "FAILED"]]
      /\ proc' = NextJob
  BY DEF TakeOver, Settled, SettledStatus, disk
<1>2. /\ proc'.pc = "next" /\ proc'.job = j + 1 /\ proc'.resume = proc.resume
      /\ proc'.retry = proc.retry
      /\ proc' = [pc |-> "next", job |-> j + 1, batch |-> proc.batch, attempt |-> 1,
                  resume |-> proc.resume, retry |-> proc.retry]
  BY <1>1 DEF NextJob, SweepInv, TypeOK
<1>3. TypeOK'
  <2>1. [NoRecord EXCEPT !.status = "FAILED"] \in Records
    BY ConstantsAssumption DEF NoRecord, Records, Learned
  <2>2. j + 1 \in 0 .. Existing + 1
    BY <1>1, Places, ConstantsAssumption DEF Existing
  <2>3. QED
    BY <1>1, <1>2, <2>1, <2>2 DEF SweepInv, TypeOK
<1>4. PlaceOK'
  BY <1>2 DEF PlaceOK, Evaluating, HasCheckpoint
<1>5. RunOK'
  BY <1>1, <1>2 DEF SweepInv, RunOK
<1>6. DiskOK'
  BY <1>1 DEF SweepInv, DiskOK
<1>7. ProgressOK'
  <2>1. Recorded(j)'
    <3>1. records'[j] = IF status[j] = "ANALYZED" THEN saved[j]
                        ELSE [NoRecord EXCEPT !.status = "FAILED"]
      BY <1>1 DEF SweepInv, TypeOK
    <3>2. status[j] = "ANALYZED" => saved[j].status = "ANALYZED"
      BY DEF SweepInv, DiskOK
    <3>3. [NoRecord EXCEPT !.status = "FAILED"].status = "FAILED"
      BY DEF NoRecord
    <3>4. QED
      BY <1>1, <3>1, <3>2, <3>3 DEF Recorded, SettledStatus
  <2>2. \A e \in Experiments : e < j => Recorded(e)'
    BY <1>1, Places DEF SweepInv, ProgressOK, Recorded, TypeOK
  <2>3. \A e \in Experiments : e < j + 1 => e < j \/ e = j
    BY <1>1, Places
  <2>4. ended' = "none"
    BY <1>1 DEF SweepInv, RunOK
  <2>5. QED
    BY <1>2, <2>1, <2>2, <2>3, <2>4 DEF ProgressOK
<1>8. OrderOK' /\ PhaseBUniform'
  BY <1>1, ChangeNone
<1>9. QED
  BY <1>3, <1>4, <1>5, <1>6, <1>7, <1>8 DEF SweepInv

LEMMA FinishStep == ASSUME SweepInv, Finish PROVE SweepInv'
<1>1. /\ proc.pc = "next" /\ proc.job > Existing
      /\ proc' = [proc EXCEPT !.pc = "stopped"]
      /\ ended' = IF \E e \in Experiments : records[e].status = "FAILED"
                  THEN "completed_with_failures" ELSE "completed"
      /\ UNCHANGED <<status, saved, ckpt, eval, oomLog, records, faults>>
  BY DEF Finish, disk
<1>2. \A e \in Experiments : Recorded(e)
  BY <1>1, Places DEF SweepInv, TypeOK, ProgressOK
<1>3. TypeOK'
  BY <1>1 DEF SweepInv, TypeOK
<1>4. PlaceOK' /\ RunOK' /\ DiskOK'
  BY <1>1 DEF SweepInv, TypeOK, PlaceOK, RunOK, DiskOK, Evaluating, HasCheckpoint
<1>5. ProgressOK'
  BY <1>1, <1>2 DEF SweepInv, TypeOK, ProgressOK, Recorded, SettledStatus
<1>6. OrderOK' /\ PhaseBUniform'
  BY <1>1, ChangeNone
<1>7. QED
  BY <1>3, <1>4, <1>5, <1>6 DEF SweepInv

-------------------------------------------------------------------------------
\* The steps that work at an experiment.  The ones behind it are not touched.
LEMMA BehindKept ==
    ASSUME SweepInv, NEW j \in Experiments, j = proc.job, proc.pc # "stopped",
           \A e \in Experiments \ {j} : /\ status'[e] = status[e] /\ saved'[e] = saved[e]
                                        /\ records'[e] = records[e]
    PROVE  \A e \in Experiments : e < j => Recorded(e)'
<1> SUFFICES ASSUME NEW e \in Experiments, e < j PROVE Recorded(e)'
  OBVIOUS
<1>1. e # j
  BY Places
<1>2. Recorded(e)
  BY DEF SweepInv, ProgressOK
<1>3. QED
  BY <1>1, <1>2 DEF Recorded

\* BeginExperiment, WriteTrained and WriteEvaluated write a status.
LEMMA StatusStep ==
    ASSUME SweepInv, NEW j \in Experiments, j = proc.job,
           BeginExperiment \/ WriteTrained \/ WriteEvaluated
    PROVE  SweepInv'
<1>1. /\ UNCHANGED <<saved, ckpt, eval, oomLog, records, ended, faults>>
      /\ \/ /\ proc.pc = "next" /\ proc' = [proc EXCEPT !.pc = "train"]
            /\ status' = [status EXCEPT ![j] = "RUNNING"] /\ ~Settled(j)
         \/ /\ proc.pc = "trained" /\ proc' = [proc EXCEPT !.pc = "evaluate"]
            /\ status' = [status EXCEPT ![j] = "TRAINED"]
         \/ /\ proc.pc = "evaluated" /\ proc' = [proc EXCEPT !.pc = "analyze"]
            /\ status' = [status EXCEPT ![j] = "EVALUATED"]
  BY DEF BeginExperiment, WriteTrained, WriteEvaluated
<1>2. Works
  BY <1>1 DEF Works, Busy
<1>3. /\ status'[j] \in {"RUNNING", "TRAINED", "EVALUATED"}
      /\ status' \in [Experiments -> Statuses]
      /\ \A e \in Experiments \ {j} : status'[e] = status[e]
      /\ proc'.job = j /\ proc'.pc # "stopped"
      /\ proc'.resume = proc.resume /\ proc'.retry = proc.retry
      /\ \/ proc.pc = "next" /\ proc'.pc = "train" /\ status'[j] = "RUNNING"
         \/ proc.pc = "trained" /\ proc'.pc = "evaluate" /\ status'[j] = "TRAINED"
         \/ proc.pc = "evaluated" /\ proc'.pc = "analyze" /\ status'[j] = "EVALUATED"
  <2>1. status \in [Experiments -> Statuses]
    BY DEF SweepInv, TypeOK
  <2>2. \E s \in {"RUNNING", "TRAINED", "EVALUATED"} : status' = [status EXCEPT ![j] = s]
    BY <1>1
  <2>3. /\ status'[j] \in {"RUNNING", "TRAINED", "EVALUATED"}
        /\ status' \in [Experiments -> Statuses]
        /\ \A e \in Experiments \ {j} : status'[e] = status[e]
    BY <2>1, <2>2 DEF Statuses
  <2>4. /\ proc'.job = j /\ proc'.pc # "stopped"
        /\ proc'.resume = proc.resume /\ proc'.retry = proc.retry
    BY <1>1 DEF SweepInv, TypeOK
  <2>5. \/ proc.pc = "next" /\ proc'.pc = "train" /\ status'[j] = "RUNNING"
        \/ proc.pc = "trained" /\ proc'.pc = "evaluate" /\ status'[j] = "TRAINED"
        \/ proc.pc = "evaluated" /\ proc'.pc = "analyze" /\ status'[j] = "EVALUATED"
    BY <1>1, <2>1 DEF SweepInv, TypeOK
  <2>6. QED
    BY <2>3, <2>4, <2>5
<1>4. TypeOK'
  BY <1>1, <1>3 DEF SweepInv, TypeOK
<1>5. PlaceOK'
  BY <1>1, <1>3, SameLr, Places DEF SweepInv, PlaceOK, Evaluating, HasCheckpoint
<1>6. RunOK'
  <2>1. ended' = "none" /\ faults'.starts # 0
    BY <1>1 DEF SweepInv, RunOK
  <2>2. ~proc'.resume => \A e \in Experiments : j < e => status'[e] = "absent"
    BY <1>1, <1>3, Places DEF SweepInv, RunOK
  <2>3. QED
    BY <1>1, <1>3, <2>1, <2>2 DEF SweepInv, RunOK
<1>7. DiskOK'
  BY <1>1, <1>3 DEF SweepInv, DiskOK, PlaceOK, HasCheckpoint, Evaluating
<1>8. ProgressOK'
  <2>1. \A e \in Experiments : e < j => Recorded(e)'
    BY <1>1, <1>3, BehindKept
  <2>2. ended' = "none"
    BY <1>1 DEF SweepInv, RunOK
  <2>3. QED
    BY <1>3, <2>1, <2>2 DEF ProgressOK
<1>9. OrderOK' /\ PhaseBUniform'
  BY <1>1, <1>2, <1>3, <1>4, ChangeOne
<1>10. QED
  BY <1>4, <1>5, <1>6, <1>7, <1>8, <1>9 DEF SweepInv

\* The experiment has failed.
LEMMA FailStep ==
    ASSUME SweepInv, NEW j \in Experiments, j = proc.job, proc.pc \in Busy, Fail,
           UNCHANGED <<saved, ckpt, eval, ended>>,
           oomLog' \in [train : SUBSET Experiments, eval : SUBSET Jobs],
           faults' \in [starts : Nat, kills : Nat, failures : Nat, ooms : Nat,
                        retried : BOOLEAN],
           faults'.starts = faults.starts, faults'.retried = faults.retried
    PROVE  SweepInv'
<1>1. /\ status' = [status EXCEPT ![j] = "FAILED"]
      /\ records' = [records EXCEPT ![j] = [NoRecord EXCEPT !.status = "FAILED"]]
      /\ proc' = NextJob
  BY DEF Fail
<1>2. /\ proc'.pc = "next" /\ proc'.job = j + 1 /\ proc'.resume = proc.resume
      /\ proc'.retry = proc.retry
      /\ proc' = [pc |-> "next", job |-> j + 1, batch |-> proc.batch, attempt |-> 1,
                  resume |-> proc.resume, retry |-> proc.retry]
  BY <1>1 DEF NextJob, SweepInv, TypeOK
<1>3. /\ status'[j] = "FAILED" /\ status' \in [Experiments -> Statuses]
      /\ records'[j].status = "FAILED" /\ records' \in [Experiments -> Records]
      /\ \A e \in Experiments \ {j} : status'[e] = status[e] /\ records'[e] = records[e]
  <2>1. [NoRecord EXCEPT !.status = "FAILED"] \in Records
    BY ConstantsAssumption DEF NoRecord, Records, Learned
  <2>2. [NoRecord EXCEPT !.status = "FAILED"].status = "FAILED"
    BY DEF NoRecord
  <2>3. QED
    BY <1>1, <2>1, <2>2 DEF SweepInv, TypeOK, Statuses
<1>4. TypeOK'
  <2>1. j + 1 \in 0 .. Existing + 1
    BY Places, ConstantsAssumption DEF Existing
  <2>2. QED
    BY <1>2, <1>3, <2>1 DEF SweepInv, TypeOK
<1>5. PlaceOK'
  BY <1>2 DEF PlaceOK, Evaluating, HasCheckpoint
<1>6. RunOK'
  <2>1. ended' = "none" /\ faults'.starts # 0 /\ proc'.pc # "stopped"
    BY <1>2 DEF SweepInv, RunOK, Busy
  <2>2. ~proc'.resume => \A e \in Experiments : j < e => status'[e] = "absent"
    BY <1>2, <1>3, Places DEF SweepInv, RunOK, Busy
  <2>3. \A e \in Experiments : j + 1 < e \/ j + 1 = e => j < e
    BY Places
  <2>4. QED
    BY <1>2, <2>1, <2>2, <2>3 DEF SweepInv, RunOK
<1>7. DiskOK'
  BY <1>3 DEF SweepInv, DiskOK
<1>8. ProgressOK'
  <2>1. \A e \in Experiments : e < j => Recorded(e)'
    BY <1>3, BehindKept DEF Busy
  <2>2. Recorded(j)'
    BY <1>3 DEF Recorded, SettledStatus
  <2>3. ended' = "none"
    BY DEF SweepInv, RunOK, Busy
  <2>4. \A e \in Experiments : e < j + 1 => e < j \/ e = j
    BY Places
  <2>5. QED
    BY <1>2, <2>1, <2>2, <2>3, <2>4 DEF ProgressOK
<1>9. OrderOK' /\ PhaseBUniform'
  <2>1. Works
    BY DEF Works
  <2>2. QED
    BY <1>3, <1>4, <2>1, ChangeOne
<1>10. QED
  BY <1>4, <1>5, <1>6, <1>7, <1>8, <1>9 DEF SweepInv

\* The training or the evaluation is tried again, or the sweep is given up.
LEMMA AgainStep ==
    ASSUME SweepInv, UNCHANGED <<status, saved, ckpt, eval, records>>,
           \/ proc.pc = "train" /\ proc' = [proc EXCEPT !.attempt = 2] /\ ended' = ended
           \/ /\ proc.pc \in {"evaluate", "fallback"}
              /\ \/ proc' = [proc EXCEPT !.pc = "fallback", !.batch = 2] /\ ended' = ended
                 \/ proc' = [proc EXCEPT !.pc = "stopped"] /\ ended' = "aborted",
           oomLog' \in [train : SUBSET Experiments, eval : SUBSET Jobs],
           faults' \in [starts : Nat, kills : Nat, failures : Nat, ooms : Nat,
                        retried : BOOLEAN],
           faults'.starts = faults.starts, faults'.retried = faults.retried
    PROVE  SweepInv'
<1>1. /\ proc'.job = proc.job /\ proc'.resume = proc.resume /\ proc'.retry = proc.retry
      /\ \/ proc'.pc = proc.pc /\ ended' = ended
         \/ /\ proc.pc \in {"evaluate", "fallback"}
            /\ \/ proc'.pc = "fallback" /\ ended' = ended
               \/ proc'.pc = "stopped" /\ ended' = "aborted"
  BY DEF SweepInv, TypeOK
<1>2. proc.pc \in {"train", "evaluate", "fallback"}
  OBVIOUS
<1>3. TypeOK'
  BY DEF SweepInv, TypeOK
<1>4. PlaceOK'
  BY <1>1, <1>2, SameLr, Places DEF SweepInv, PlaceOK, Evaluating, HasCheckpoint
<1>5. RunOK'
  BY <1>1, <1>2 DEF SweepInv, RunOK
<1>6. DiskOK'
  BY DEF SweepInv, DiskOK
<1>7. ProgressOK'
  BY <1>1, <1>2 DEF SweepInv, RunOK, ProgressOK, Recorded
<1>8. OrderOK' /\ PhaseBUniform'
  BY ChangeNone
<1>9. QED
  BY <1>3, <1>4, <1>5, <1>6, <1>7, <1>8 DEF SweepInv

\* What an error of a subprocess counts.
LEMMA ErrorCounts ==
    ASSUME TypeOK,
           \/ Errors
           \/ faults' = [faults EXCEPT !.failures = @ + 1]
           \/ faults' = [faults EXCEPT !.kills = @ + 1]
    PROVE  /\ faults' \in [starts : Nat, kills : Nat, failures : Nat, ooms : Nat,
                           retried : BOOLEAN]
           /\ faults'.starts = faults.starts /\ faults'.retried = faults.retried
<1> DEFINE kills == faults.kills + 1
           failures == faults.failures + 1
           ooms == faults.ooms + 1
<1>1. faults \in [starts : Nat, kills : Nat, failures : Nat, ooms : Nat, retried : BOOLEAN]
  BY DEF TypeOK
<1>2. kills \in Nat /\ failures \in Nat /\ ooms \in Nat
  BY <1>1
<1>3. \/ faults' = [faults EXCEPT !.kills = kills]
      \/ faults' = [faults EXCEPT !.failures = failures]
      \/ faults' = [faults EXCEPT !.ooms = ooms]
  BY DEF Errors
<1> HIDE DEF kills, failures, ooms
<1>4. QED
  BY <1>1, <1>2, <1>3

\* The checkpoint is trained with the learning rate of the experiment.
LEMMA TrainStep ==
    ASSUME SweepInv, NEW j \in Experiments, j = proc.job, TrainDone PROVE SweepInv'
<1>1. /\ proc.pc = "train" /\ proc' = [proc EXCEPT !.pc = "trained"]
      /\ ckpt' = [ckpt EXCEPT ![j] = [gen |-> ckpt[j].gen + 1, lr |-> LrOf(j)]]
      /\ UNCHANGED <<status, saved, eval, oomLog, records, ended, faults>>
  BY DEF TrainDone
<1>2. /\ proc'.job = j /\ proc'.pc = "trained"
      /\ proc'.resume = proc.resume /\ proc'.retry = proc.retry
  BY <1>1 DEF SweepInv, TypeOK
<1>3. LrOf(j) \in Learned
  BY SelectedFacts, ScoreTypes DEF SweepInv, LrOf, Learned, PhaseA
<1>4. ckpt[j].gen + 1 \in Nat /\ ckpt[j].gen + 1 > 0
  BY DEF SweepInv, TypeOK
<1>5. /\ ckpt' \in [Experiments -> [gen : Nat, lr : Learned]]
      /\ ckpt'[j].gen > 0 /\ ckpt'[j].lr = LrOf(j)
      /\ \A e \in Experiments \ {j} : ckpt'[e] = ckpt[e]
  BY <1>1, <1>3, <1>4 DEF SweepInv, TypeOK
<1>6. TypeOK'
  BY <1>1, <1>5 DEF SweepInv, TypeOK
<1>7. status[j] = "RUNNING"
  BY <1>1 DEF SweepInv, PlaceOK
<1>8. PlaceOK'
  BY <1>1, <1>2, <1>5, <1>7, SameLr, Places DEF PlaceOK, Evaluating, HasCheckpoint
<1>9. RunOK'
  BY <1>1, <1>2 DEF SweepInv, RunOK
<1>10. DiskOK'
  BY <1>1, <1>5, <1>7 DEF SweepInv, DiskOK
<1>11. ProgressOK'
  BY <1>1, <1>2 DEF SweepInv, RunOK, ProgressOK, Recorded
<1>12. OrderOK' /\ PhaseBUniform'
  BY <1>1, ChangeNone
<1>13. QED
  BY <1>6, <1>8, <1>9, <1>10, <1>11, <1>12 DEF SweepInv

\* An evaluation is written before the experiment counts as evaluated.
LEMMA EvaluateStep ==
    ASSUME SweepInv, NEW j \in Jobs, j = proc.job, EvaluateDone PROVE SweepInv'
<1>1. /\ proc.pc \in {"evaluate", "fallback"} /\ proc' = [proc EXCEPT !.pc = "evaluated"]
      /\ \E score \in Scores :
           eval' = [eval EXCEPT ![j] =
                      [gen |-> GenOf(j), batch |-> proc.batch, score |-> score]]
      /\ UNCHANGED <<status, saved, ckpt, oomLog, records, ended, faults>>
  BY DEF EvaluateDone
<1>2. /\ proc'.job = j /\ proc'.pc = "evaluated"
      /\ proc'.resume = proc.resume /\ proc'.retry = proc.retry
  BY <1>1 DEF SweepInv, TypeOK
<1>3. GenOf(j) \in Nat /\ Scores \subseteq Nat /\ proc.batch \in {2, 4}
  BY ConstantsAssumption DEF SweepInv, TypeOK, GenOf
<1>4. /\ eval' \in [Jobs -> Evals] /\ eval'[j].batch \in {2, 4}
      /\ \A e \in Jobs \ {j} : eval'[e] = eval[e]
  BY <1>1, <1>3 DEF SweepInv, TypeOK, Evals
<1>5. TypeOK'
  BY <1>1, <1>4 DEF SweepInv, TypeOK
<1>6. PlaceOK'
  BY <1>1, <1>2, <1>4, SameLr, Places DEF SweepInv, PlaceOK, Evaluating, HasCheckpoint
<1>7. RunOK'
  BY <1>1, <1>2 DEF SweepInv, RunOK
<1>8. DiskOK'
  <2>1. j \in Experiments => status[j] = "TRAINED"
    BY <1>1 DEF SweepInv, PlaceOK, Evaluating
  <2>2. QED
    BY <1>1, <1>4, <2>1, Places DEF SweepInv, DiskOK
<1>9. ProgressOK'
  BY <1>1, <1>2 DEF SweepInv, RunOK, ProgressOK, Recorded
<1>10. OrderOK' /\ PhaseBUniform'
  BY <1>1, ChangeNone
<1>11. QED
  BY <1>5, <1>6, <1>7, <1>8, <1>9, <1>10 DEF SweepInv

\* The record is written with the status, and is about the files of the experiment.
LEMMA AnalyzeStep ==
    ASSUME SweepInv, NEW j \in Experiments, j = proc.job, Analyze PROVE SweepInv'
<1> DEFINE record == [status |-> "ANALYZED", lr |-> LrOf(j), batch |-> eval[j].batch,
                      score |-> eval[j].score, gen |-> eval[j].gen]
<1>1. /\ proc.pc = "analyze" /\ proc' = NextJob
      /\ saved' = [saved EXCEPT ![j] = record] /\ records' = [records EXCEPT ![j] = record]
      /\ status' = [status EXCEPT ![j] = "ANALYZED"]
      /\ UNCHANGED <<ckpt, eval, oomLog, ended, faults>>
  BY DEF Analyze
<1>2. /\ proc'.pc = "next" /\ proc'.job = j + 1 /\ proc'.resume = proc.resume
      /\ proc'.retry = proc.retry
      /\ proc' = [pc |-> "next", job |-> j + 1, batch |-> proc.batch, attempt |-> 1,
                  resume |-> proc.resume, retry |-> proc.retry]
  BY <1>1 DEF NextJob, SweepInv, TypeOK
<1>3. /\ ckpt[j].gen > 0 /\ ckpt[j].lr = LrOf(j) /\ LrOf(j) \in Learned
      /\ eval[j] \in Evals /\ eval[j].batch # 0
  BY <1>1, Places DEF SweepInv, TypeOK, PlaceOK, HasCheckpoint
<1>4. record \in Records
  BY <1>3 DEF Records, Evals
<1> HIDE DEF record
<1>5. /\ saved' \in [Experiments -> Records] /\ saved'[j] = record
      /\ records' \in [Experiments -> Records] /\ records'[j] = record
      /\ status' \in [Experiments -> Statuses] /\ status'[j] = "ANALYZED"
      /\ \A e \in Experiments \ {j} : /\ status'[e] = status[e] /\ saved'[e] = saved[e]
                                      /\ records'[e] = records[e]
  BY <1>1, <1>4 DEF SweepInv, TypeOK, Statuses
<1>6. TypeOK'
  <2>1. j + 1 \in 0 .. Existing + 1
    BY Places, ConstantsAssumption DEF Existing
  <2>2. QED
    BY <1>1, <1>2, <1>5, <2>1 DEF SweepInv, TypeOK
<1>7. PlaceOK'
  BY <1>2 DEF PlaceOK, Evaluating, HasCheckpoint
<1>8. RunOK'
  <2>1. ended' = "none" /\ faults'.starts # 0 /\ proc'.pc # "stopped"
    BY <1>1, <1>2 DEF SweepInv, RunOK
  <2>2. ~proc'.resume => \A e \in Experiments : j < e => status'[e] = "absent"
    BY <1>1, <1>2, <1>5, Places DEF SweepInv, RunOK
  <2>3. \A e \in Experiments : j + 1 < e \/ j + 1 = e => j < e
    BY Places
  <2>4. QED
    BY <1>1, <1>2, <2>1, <2>2, <2>3 DEF SweepInv, RunOK
<1>9. DiskOK'
  <2>1. /\ record.status = "ANALYZED" /\ record.lr = ckpt[j].lr
        /\ record.score = eval[j].score /\ record.batch = eval[j].batch
        /\ record.gen = eval[j].gen
    BY <1>3 DEF record
  <2>2. QED
    BY <1>1, <1>3, <1>5, <2>1 DEF SweepInv, DiskOK
<1>10. ProgressOK'
  <2>1. \A e \in Experiments : e < j => Recorded(e)'
    BY <1>1, <1>5, BehindKept
  <2>2. Recorded(j)'
    BY <1>5 DEF record, Recorded, SettledStatus
  <2>3. ended' = "none"
    BY <1>1 DEF SweepInv, RunOK
  <2>4. \A e \in Experiments : e < j + 1 => e < j \/ e = j
    BY Places
  <2>5. QED
    BY <1>2, <2>1, <2>2, <2>3, <2>4 DEF ProgressOK
<1>11. OrderOK' /\ PhaseBUniform'
  <2>1. Works
    BY <1>1 DEF Works, Busy
  <2>2. record.lr = LrOf(j)
    BY DEF record
  <2>3. QED
    BY <1>1, <1>5, <1>6, <2>1, <2>2, ChangeOne
<1>12. QED
  BY <1>6, <1>7, <1>8, <1>9, <1>10, <1>11 DEF SweepInv

\* A kill leaves the files, or tears the status file of an experiment that is not settled.
LEMMA KillStep == ASSUME SweepInv, Kill PROVE SweepInv'
<1>1. /\ proc.pc # "stopped" /\ proc' = [proc EXCEPT !.pc = "stopped"] /\ ended' = "killed"
      /\ faults' = [faults EXCEPT !.kills = @ + 1]
      /\ \/ UNCHANGED status
         \/ WritesStatus /\ status' = [status EXCEPT ![proc.job] = "torn"]
      /\ UNCHANGED <<saved, ckpt, eval, oomLog, records>>
  BY DEF Kill
<1>2. /\ faults' \in [starts : Nat, kills : Nat, failures : Nat, ooms : Nat,
                      retried : BOOLEAN]
      /\ faults'.starts = faults.starts /\ faults'.retried = faults.retried
  BY <1>1, ErrorCounts DEF SweepInv
<1>3. /\ proc'.pc = "stopped" /\ proc'.job = proc.job /\ proc'.retry = proc.retry
      /\ proc'.resume = proc.resume
  BY <1>1 DEF SweepInv, TypeOK
<1>4. /\ status' \in [Experiments -> Statuses]
      /\ \A e \in Experiments : status'[e] = status[e] \/ status'[e] = "torn"
  BY <1>1 DEF SweepInv, TypeOK, Statuses
<1>5. TypeOK'
  BY <1>1, <1>2, <1>4 DEF SweepInv, TypeOK
<1>6. PlaceOK' /\ ProgressOK'
  BY <1>1, <1>3 DEF PlaceOK, ProgressOK, Evaluating, HasCheckpoint
<1>7. RunOK'
  BY <1>1, <1>2, <1>3 DEF SweepInv, RunOK
<1>8. DiskOK'
  BY <1>1, <1>4 DEF SweepInv, DiskOK
<1>9. OrderOK' /\ PhaseBUniform'
  <2>1. CASE UNCHANGED status
    BY <1>1, <1>2, <2>1, ChangeNone
  <2>2. CASE WritesStatus /\ status' = [status EXCEPT ![proc.job] = "torn"]
    <3>1. Works /\ proc.job \in Experiments
      BY <2>2 DEF WritesStatus, Works, Busy
    <3>2. /\ \A e \in Experiments \ {proc.job} : status'[e] = status[e]
          /\ status'[proc.job] = "torn"
      BY <2>2, <3>1 DEF SweepInv, TypeOK
    <3>3. QED
      BY <1>1, <1>2, <1>5, <3>1, <3>2, ChangeOne
  <2>3. QED
    BY <1>1, <2>1, <2>2
<1>10. QED
  BY <1>5, <1>6, <1>7, <1>8, <1>9 DEF SweepInv

-------------------------------------------------------------------------------
\* A subprocess that fails: the experiment is tried again, has failed, or ends the sweep.
LEMMA ErrorStep ==
    ASSUME SweepInv, TrainError \/ TrainIncomplete \/ EvaluateError PROVE SweepInv'
<1>1. /\ faults' \in [starts : Nat, kills : Nat, failures : Nat, ooms : Nat,
                      retried : BOOLEAN]
      /\ faults'.starts = faults.starts /\ faults'.retried = faults.retried
  BY ErrorCounts DEF SweepInv, TrainError, TrainIncomplete, EvaluateError
<1>2. /\ proc.pc \in {"train", "evaluate", "fallback"} /\ proc.job \in Jobs
      /\ proc.pc = "train" => proc.job \in Experiments
  BY Places
     DEF SweepInv, PlaceOK, Evaluating, TrainError, TrainIncomplete, EvaluateError
<1>3. oomLog' \in [train : SUBSET Experiments, eval : SUBSET Jobs]
  <2>1. oomLog \in [train : SUBSET Experiments, eval : SUBSET Jobs]
    BY DEF SweepInv, TypeOK
  <2>2. CASE TrainError
    <3>1. /\ proc.job \in Experiments
          /\ \/ oomLog' = [oomLog EXCEPT !.train = oomLog.train \cup {proc.job}]
             \/ oomLog' = [oomLog EXCEPT !.train = oomLog.train]
      BY <1>2, <2>2 DEF TrainError
    <3>2. QED
      BY <2>1, <3>1
  <2>3. CASE TrainIncomplete
    BY <2>1, <2>3 DEF TrainIncomplete
  <2>4. CASE EvaluateError
    <3>1. \/ oomLog' = [oomLog EXCEPT !.eval = oomLog.eval \cup {proc.job}]
          \/ oomLog' = [oomLog EXCEPT !.eval = oomLog.eval]
      BY <2>4 DEF EvaluateError
    <3>2. QED
      BY <1>2, <2>1, <3>1
  <2>5. QED
    BY <2>2, <2>3, <2>4
<1>4. CASE Fail /\ proc.job \in Experiments /\ UNCHANGED <<saved, ckpt, eval, ended>>
  BY <1>1, <1>2, <1>3, <1>4, FailStep DEF Busy
<1>5. \/ Fail /\ proc.job \in Experiments /\ UNCHANGED <<saved, ckpt, eval, ended>>
      \/ /\ UNCHANGED <<status, saved, ckpt, eval, records>>
         /\ \/ proc.pc = "train" /\ proc' = [proc EXCEPT !.attempt = 2] /\ ended' = ended
            \/ /\ proc.pc \in {"evaluate", "fallback"}
               /\ \/ proc' = [proc EXCEPT !.pc = "fallback", !.batch = 2] /\ ended' = ended
                  \/ proc' = [proc EXCEPT !.pc = "stopped"] /\ ended' = "aborted"
  BY <1>2 DEF TrainError, TrainIncomplete, EvaluateError
<1>6. QED
  BY <1>1, <1>3, <1>4, <1>5, AgainStep

LEMMA NextSweep == SweepInv /\ [Next]_vars => SweepInv'
<1> SUFFICES ASSUME SweepInv, [Next]_vars PROVE SweepInv'
  OBVIOUS
<1>1. CASE Start
  BY <1>1, StartStep
<1>2. CASE Kill
  BY <1>2, KillStep
<1>3. CASE BeginEvaluation \/ Unreadable \/ ReuseEvaluation \/ BatchDiffers
  BY <1>3, QuietStep
<1>4. CASE TakeOver
  BY <1>4, TakeOverStep DEF TakeOver
<1>5. CASE BeginExperiment \/ WriteTrained \/ WriteEvaluated
  <2>1. WriteTrained => proc.job \in Experiments
    BY DEF SweepInv, PlaceOK, WriteTrained
  <2>2. proc.job \in Experiments
    BY <1>5, <2>1 DEF BeginExperiment, WriteEvaluated
  <2>3. QED
    BY <1>5, <2>2, StatusStep
<1>6. CASE TrainDone
  <2>1. proc.job \in Experiments
    BY <1>6 DEF SweepInv, PlaceOK, TrainDone
  <2>2. QED
    BY <1>6, <2>1, TrainStep
<1>7. CASE TrainError \/ TrainIncomplete \/ EvaluateError
  BY <1>7, ErrorStep
<1>8. CASE EvaluateDone
  <2>1. proc.job \in Jobs
    BY <1>8 DEF SweepInv, PlaceOK, Evaluating, EvaluateDone
  <2>2. QED
    BY <1>8, <2>1, EvaluateStep
<1>9. CASE AcceptEvaluation
  BY <1>9, AcceptStep
<1>10. CASE Analyze
  <2>1. proc.job \in Experiments
    BY <1>10 DEF SweepInv, PlaceOK, Analyze
  <2>2. QED
    BY <1>10, <2>1, AnalyzeStep
<1>11. CASE Finish
  BY <1>11, FinishStep
<1>12. CASE UNCHANGED vars
  BY <1>12
     DEF vars, SweepInv, TypeOK, PlaceOK, RunOK, DiskOK, ProgressOK, Recorded, OrderOK,
         PhaseBUniform, LrOf
<1>13. QED
  BY <1>1, <1>2, <1>3, <1>4, <1>5, <1>6, <1>7, <1>8, <1>9, <1>10, <1>11, <1>12
     DEF Next, Step

LEMMA SweepHolds == Spec => []SweepInv
BY InitSweep, NextSweep, PTL DEF Spec

\* Every value of the state is of its type.
THEOREM TypeCorrect == Spec => []TypeOK
<1>1. SweepInv => TypeOK
  BY DEF SweepInv
<1>2. QED
  BY <1>1, SweepHolds, PTL

\* What the status files and the final report say is on the disk, whatever the sequence of
\* kills, resumes and failures.
THEOREM StatusTruthful == Spec => []StatusBacked
<1>1. SweepInv => StatusBacked
  BY DEF SweepInv, DiskOK, ProgressOK, Recorded, StatusBacked
<1>2. QED
  BY <1>1, SweepHolds, PTL

\* Without --retry-failed, phase B has one learning rate: the one phase A selects.
THEOREM PhaseBLr == Spec => []PhaseBUniform
<1>1. SweepInv => PhaseBUniform
  BY DEF SweepInv
<1>2. QED
  BY <1>1, SweepHolds, PTL

\* Only the files of the job the process works at are changed, and that is not an analysed
\* experiment.
LEMMA KeepsAnalyzed ==
    ASSUME SweepInv, [Next]_vars, NEW e \in Experiments, status[e] = "ANALYZED"
    PROVE  status'[e] = "ANALYZED" /\ UNCHANGED <<saved[e], ckpt[e], eval[e]>>
<1>1. /\ status \in [Experiments -> Statuses] /\ saved \in [Experiments -> Records]
      /\ ckpt \in [Experiments -> [gen : Nat, lr : Learned]] /\ eval \in [Jobs -> Evals]
      /\ e \in Jobs
  BY Places DEF SweepInv, TypeOK
<1>2. Works => proc.job # e
  BY WorksUnsettled
<1>3. CASE UNCHANGED <<status, saved, ckpt, eval>>
  BY <1>3
<1>4. CASE BeginExperiment \/ WriteTrained \/ WriteEvaluated \/ Analyze
  <2>1. WriteTrained \/ Analyze => proc.job \in Experiments
    BY DEF SweepInv, PlaceOK, WriteTrained, Analyze
  <2>2. proc.job # e
    BY <1>2, <1>4, <2>1
       DEF Works, Busy, BeginExperiment, WriteTrained, WriteEvaluated, Analyze
  <2>3. QED
    BY <1>1, <1>4, <2>2 DEF BeginExperiment, WriteTrained, WriteEvaluated, Analyze
<1>5. CASE TrainDone \/ TrainError \/ TrainIncomplete \/ EvaluateError \/ EvaluateDone
  <2>1. proc.pc \in Busy
    BY <1>5 DEF Busy, TrainDone, TrainError, TrainIncomplete, EvaluateError, EvaluateDone
  <2>2. proc.job # e
    BY <1>2, <2>1 DEF Works
  <2>3. QED
    BY <1>1, <1>5, <2>2
       DEF TrainDone, TrainError, TrainIncomplete, EvaluateError, EvaluateDone, Fail
<1>6. CASE Kill
  <2>1. WritesStatus => proc.job # e
    BY <1>2 DEF WritesStatus, Works, Busy
  <2>2. QED
    BY <1>1, <1>6, <2>1 DEF Kill
<1>7. QED
  BY <1>3, <1>4, <1>5, <1>6
     DEF Next, Step, vars, disk, Start, BeginEvaluation, TakeOver, Unreadable,
         ReuseEvaluation, AcceptEvaluation, BatchDiffers, Finish

\* An analysed experiment is finished for good: nothing trains or evaluates it again.
THEOREM AnalyzedFinal == Spec => AnalyzedIsFinal
<1>1. SweepInv /\ [Next]_vars =>
        [\A e \in Experiments : status[e] = "ANALYZED" =>
            /\ status'[e] = "ANALYZED"
            /\ UNCHANGED <<saved[e], ckpt[e], eval[e]>>]_vars
  BY KeepsAnalyzed
<1>2. QED
  BY <1>1, SweepHolds, PTL DEF Spec, AnalyzedIsFinal
-------------------------------------------------------------------------------
\* Why a run of the sweep ends: the jobs, then the second training, then the smaller
\* batch, then the steps of the current job.
Ahead ==
    IF proc.pc = "next" THEN 6
    ELSE IF proc.pc = "train" THEN 5
    ELSE IF proc.pc = "trained" THEN 4
    ELSE IF proc.pc \in {"evaluate", "fallback"} THEN 3
    ELSE IF proc.pc = "evaluated" THEN 2
    ELSE IF proc.pc = "analyze" THEN 1 ELSE 0

Left == <<Existing + 1 - proc.job, 2 - proc.attempt, proc.batch, Ahead>>

Lefts == [1 .. 4 -> Nat]

\* The lexicographic order of what may be left.
Less == LexProductOrdering(OpToRel(<, Nat), Nat, 4)

\* Every step of a run leaves less to be done.
StepsShrink == [][Step => <<Left', Left>> \in Less]_vars

\* Nothing can shrink for ever.
LEMMA LessWellFounded == IsWellFoundedOn(Less, Lefts)
BY NatLessThanWellFounded, WFLexProductOrdering DEF Less, Lefts

LEMMA LessFacts ==
    ASSUME NEW a \in Nat, NEW b \in Nat, NEW c \in Nat, NEW d \in Nat,
           NEW e \in Nat, NEW f \in Nat, NEW g \in Nat, NEW h \in Nat,
           \/ a < e
           \/ a = e /\ b < f
           \/ a = e /\ b = f /\ c < g
           \/ a = e /\ b = f /\ c = g /\ d < h
    PROVE  <<<<a, b, c, d>>, <<e, f, g, h>>>> \in Less
<1> DEFINE m == <<a, b, c, d>>
           n == <<e, f, g, h>>
<1>1. /\ m \in Lefts /\ n \in Lefts
      /\ m[1] = a /\ m[2] = b /\ m[3] = c /\ m[4] = d
      /\ n[1] = e /\ n[2] = f /\ n[3] = g /\ n[4] = h
  BY DEF Lefts
<1> SUFFICES <<m, n>> \in Less
  OBVIOUS
<1> HIDE DEF m, n
<1>2. ASSUME NEW j \in 1 .. 4, m[j] < n[j], \A i \in 1 .. j - 1 : m[i] = n[i]
      PROVE  <<m, n>> \in Less
  <2>1. m[j] \in Nat /\ n[j] \in Nat
    BY <1>1 DEF Lefts
  <2>2. <<m[j], n[j]>> \in OpToRel(<, Nat)
    BY <1>2, <2>1 DEF OpToRel
  <2>3. QED
    BY <1>1, <1>2, <2>2 DEF Less, LexProductOrdering, Lefts
<1>3. CASE a < e
  BY <1>1, <1>2, <1>3
<1>4. CASE a = e /\ b < f
  BY <1>1, <1>2, <1>4
<1>5. CASE a = e /\ b = f /\ c < g
  BY <1>1, <1>2, <1>5
<1>6. CASE a = e /\ b = f /\ c = g /\ d < h
  BY <1>1, <1>2, <1>6
<1>7. QED
  BY <1>3, <1>4, <1>5, <1>6

\* What it takes for a step to leave less to be done.
SameJob == proc'.job = proc.job /\ proc'.attempt = proc.attempt
Shrinks ==
    \/ proc'.job = proc.job + 1
    \/ proc'.job = proc.job /\ proc.attempt = 1 /\ proc'.attempt = 2
    \/ SameJob /\ proc.batch = 4 /\ proc'.batch = 2
    \/ SameJob /\ proc'.batch = proc.batch /\ Ahead' < Ahead

LEMMA ShrinksLess == TypeOK /\ TypeOK' /\ Shrinks => <<Left', Left>> \in Less
<1> SUFFICES ASSUME TypeOK, TypeOK', Shrinks PROVE <<Left', Left>> \in Less
  OBVIOUS
<1>1. /\ proc.job \in 0 .. Existing + 1 /\ proc'.job \in 0 .. Existing + 1
      /\ proc.attempt \in {1, 2} /\ proc'.attempt \in {1, 2}
      /\ proc.batch \in {2, 4} /\ proc'.batch \in {2, 4}
  BY DEF TypeOK
<1>2. Existing \in Nat /\ Ahead \in Nat /\ Ahead' \in Nat
  BY Places DEF Existing, Ahead
<1>3. /\ Existing + 1 - proc.job \in Nat /\ Existing + 1 - proc'.job \in Nat
      /\ 2 - proc.attempt \in Nat /\ 2 - proc'.attempt \in Nat
      /\ proc.batch \in Nat /\ proc'.batch \in Nat
  BY <1>1, <1>2
<1>4. PICK a \in Nat, b \in Nat, c \in Nat, d \in Nat :
        a = Existing + 1 - proc'.job /\ b = 2 - proc'.attempt /\ c = proc'.batch /\ d = Ahead'
  BY <1>2, <1>3
<1>5. PICK e \in Nat, f \in Nat, g \in Nat, h \in Nat :
        e = Existing + 1 - proc.job /\ f = 2 - proc.attempt /\ g = proc.batch /\ h = Ahead
  BY <1>2, <1>3
<1>6. \/ a < e \/ (a = e /\ b < f) \/ (a = e /\ b = f /\ c < g)
      \/ (a = e /\ b = f /\ c = g /\ d < h)
  BY <1>1, <1>2, <1>4, <1>5 DEF Shrinks, SameJob
<1>7. <<<<a, b, c, d>>, <<e, f, g, h>>>> \in Less
  BY <1>6, LessFacts
<1>8. Existing' = Existing
  BY DEF Existing
<1>9. Left' = <<a, b, c, d>> /\ Left = <<e, f, g, h>>
  BY <1>4, <1>5, <1>8 DEF Left
<1>10. QED
  BY <1>7, <1>9, Zenon

\* The process goes over to the next job, or to a later step of its job.
LEMMA Onward ==
    ASSUME TypeOK
    PROVE  /\ Fail => Shrinks
           /\ proc' = NextJob => Shrinks
           /\ \A place \in {"stopped", "train", "trained", "evaluate", "evaluated", "analyze"} :
                proc' = [proc EXCEPT !.pc = place] =>
                    SameJob /\ proc'.batch = proc.batch /\ proc'.pc = place
<1>1. NextJob.job = proc.job + 1
  BY DEF TypeOK, NextJob
<1>3. \A place \in {"stopped", "train", "trained", "evaluate", "evaluated", "analyze"} :
        proc' = [proc EXCEPT !.pc = place] =>
            SameJob /\ proc'.batch = proc.batch /\ proc'.pc = place
  BY DEF TypeOK, SameJob
<1>4. proc' = NextJob => Shrinks
  BY <1>1 DEF Shrinks
<1>6. QED
  BY <1>3, <1>4, Zenon DEF Fail

LEMMA StepShrinks == TypeOK /\ TypeOK' /\ Step => Shrinks
<1> SUFFICES ASSUME TypeOK, TypeOK', Step PROVE Shrinks
  OBVIOUS
<1>1. CASE BeginEvaluation
  BY <1>1, Onward DEF BeginEvaluation, Shrinks, Ahead
<1>2. CASE TakeOver
  BY <1>2, Onward, Zenon DEF TakeOver
<1>3. CASE BeginExperiment
  BY <1>3, Onward DEF BeginExperiment, Shrinks, Ahead
<1>4. CASE Unreadable
  BY <1>4, Onward DEF Unreadable, Shrinks, Ahead
<1>5. CASE TrainDone
  BY <1>5, Onward DEF TrainDone, Shrinks, Ahead
<1>6. CASE TrainError
  <2>1. CASE Fail
    BY <2>1, Onward, Zenon
  <2>2. CASE proc.attempt = 1 /\ proc' = [proc EXCEPT !.attempt = 2]
    BY <2>2 DEF TypeOK, Shrinks
  <2>3. QED
    BY <1>6, <2>1, <2>2, Zenon DEF TrainError
<1>7. CASE TrainIncomplete
  BY <1>7, Onward, Zenon DEF TrainIncomplete
<1>8. CASE WriteTrained
  BY <1>8, Onward DEF WriteTrained, Shrinks, Ahead
<1>9. CASE ReuseEvaluation
  BY <1>9, Onward DEF ReuseEvaluation, Reusable, Shrinks, Ahead
<1>10. CASE EvaluateDone
  BY <1>10, Onward DEF EvaluateDone, Shrinks, Ahead
<1>11. CASE EvaluateError
  <2>1. CASE Fail
    BY <2>1, Onward, Zenon
  <2>2. CASE proc.batch = 4 /\ proc' = [proc EXCEPT !.pc = "fallback", !.batch = 2]
    BY <2>2 DEF TypeOK, Shrinks, SameJob
  <2>3. CASE proc' = [proc EXCEPT !.pc = "stopped"]
    BY <1>11, <2>3, Onward DEF EvaluateError, Shrinks, Ahead
  <2>4. QED
    BY <1>11, <2>1, <2>2, <2>3, Zenon DEF EvaluateError, FallsBack
<1>12. CASE AcceptEvaluation
  <2>1. CASE proc' = NextJob
    BY <2>1, Onward, Zenon
  <2>2. CASE proc' = [NextJob EXCEPT !.batch = eval[0].batch]
    <3>1. proc'.job = proc.job + 1
      BY <2>2 DEF TypeOK, NextJob
    <3>2. QED
      BY <3>1 DEF Shrinks
  <2>3. QED
    BY <1>12, <2>1, <2>2, Zenon DEF AcceptEvaluation
<1>13. CASE BatchDiffers
  BY <1>13, Onward DEF BatchDiffers, Shrinks, Ahead
<1>14. CASE WriteEvaluated
  BY <1>14, Onward DEF WriteEvaluated, Shrinks, Ahead
<1>15. CASE Analyze
  BY <1>15, Onward, Zenon DEF Analyze
<1>16. CASE Finish
  BY <1>16, Onward DEF Finish, Shrinks, Ahead
<1>17. QED
  BY <1>1, <1>2, <1>3, <1>4, <1>5, <1>6, <1>7, <1>8, <1>9, <1>10, <1>11, <1>12, <1>13, <1>14,
     <1>15, <1>16 DEF Step

\* run_one, _evaluate: no run of the sweep makes infinitely many steps, whatever fails and
\* however often it is out of memory: this is what SweepEnds rests on.
THEOREM SweepShrinks == Spec => StepsShrink
<1>1. TypeOK /\ TypeOK' => [Step => <<Left', Left>> \in Less]_vars
  BY StepShrinks, ShrinksLess
<1>2. QED
  BY <1>1, TypeCorrect, PTL DEF StepsShrink
===============================================================================
