--------------------------- MODULE AdapterGuardProofs ---------------------------
(***************************************************************************)
(* Proofs about AdapterGuard for every number of files, every interval and *)
(* every number of faults.                                                 *)
(*                                                                         *)
(* Three facts are proved one after the other, each by an invariant of its *)
(* own.  WorseInv: what is to be repaired does not match.  AgeInv: a file  *)
(* that a verification has passed matched during this scrub.  ReasonInv:   *)
(* without a disturbance, what was found is what is there.                 *)
(***************************************************************************)
EXTENDS AdapterGuard, FiniteSetTheorems, WellFoundedInduction, TLAPS

InFlight == pc \in {"backup", "copy", "check", "replace"}
Fixing == InFlight \/ pc = "repair"
TypeInv ==
    /\ TypeOK
    /\ InFlight => current \in Paths
    /\ pc \in {"check", "replace"} => temp # "none"

LEMMA ConstantFacts ==
    /\ FileCount \in Nat /\ Interval \in Nat /\ Interval >= 1 /\ MaxFaults \in Nat
    /\ Paths \subseteq Nat /\ NoPath \notin Paths
BY GuardAssumption DEF Paths, NoPath

LEMMA InitType == Init => TypeInv
<1> SUFFICES ASSUME Init PROVE TypeInv
  OBVIOUS
<1>1. TypeOK
  <2>1. files \in [Replicas -> [Paths -> {"good", "bad", "missing"}]]
    BY DEF Init
  <2>2. issues \in [Replicas -> SUBSET Paths] /\ age \in [Paths -> Nat]
    BY DEF Init
  <2>3. next \in 1..(FileCount + 1) /\ completed \in 0..(Interval - 1) /\ faults \in 0..MaxFaults
    BY ConstantFacts DEF Init
  <2>4. QED
    BY <2>1, <2>2, <2>3 DEF Init, TypeOK, Replicas
<1>2. QED
  BY <1>1 DEF Init, TypeInv, InFlight

LEMMA BeginType ==
    ASSUME BeginScrub
    PROVE  /\ next' \in 1..(FileCount + 1) /\ issues' \in [Replicas -> SUBSET Paths]
           /\ checking' \in Replicas /\ disturbed' \in BOOLEAN
<1>1. issues' \in [Replicas -> SUBSET Paths]
  BY DEF BeginScrub
<1>2. next' \in 1..(FileCount + 1)
  BY ConstantFacts DEF BeginScrub
<1>3. QED
  BY <1>1, <1>2 DEF BeginScrub, Replicas

LEMMA ExamineType ==
    ASSUME TypeOK, NEW r \in Replicas, Examine(r)
    PROVE  next' \in 1..(FileCount + 1) /\ issues' \in [Replicas -> SUBSET Paths]
<1>1. next \in Paths /\ next' \in 1..(FileCount + 1)
  BY ConstantFacts DEF TypeOK, Examine, Paths
<1>2. issues' \in [Replicas -> SUBSET Paths]
  BY <1>1 DEF TypeOK, Examine
<1>3. QED
  BY <1>1, <1>2

LEMMA NextType == TypeInv /\ [Next]_vars => TypeInv'
<1> SUFFICES ASSUME TypeInv, [Next]_vars PROVE TypeInv'
  OBVIOUS
<1> USE ConstantFacts
<1>1. CASE Start
  <2>1. BeginScrub /\ pc' = "verify" /\ 0 \in 0..(Interval - 1)
    BY <1>1 DEF Start, BeginScrub
  <2>2. QED
    BY <1>1, <2>1, BeginType DEF Start, TypeInv, TypeOK, InFlight
<1>2. CASE Batch
  <2>1. age' \in [Paths -> Nat]
    BY <1>2 DEF Batch, Served, TypeInv, TypeOK
  <2>2. completed' \in 0..(Interval - 1)
    BY <1>2 DEF Batch, TypeInv, TypeOK
  <2>3. QED
    <3>1. CASE completed + 1 = Interval
      <4>1. BeginScrub /\ pc' = "verify"
        BY <1>2, <3>1 DEF Batch, BeginScrub
      <4>2. QED
        BY <1>2, <2>1, <2>2, <4>1, BeginType DEF Batch, TypeInv, TypeOK, InFlight
    <3>2. CASE completed + 1 # Interval
      BY <1>2, <2>1, <2>2, <3>2 DEF Batch, TypeInv, TypeOK, InFlight
    <3>3. QED
      BY <3>1, <3>2
<1>3. CASE VerifyFile
  BY <1>3, ExamineType DEF VerifyFile, TypeInv, TypeOK, InFlight
<1>4. CASE VerifyNext
  BY <1>4 DEF VerifyNext, TypeInv, TypeOK, InFlight, Replicas
<1>5. CASE Decide
  BY <1>5 DEF Decide, TypeInv, TypeOK, InFlight, Replicas
<1>6. CASE Pick
  BY <1>6 DEF Pick, TypeInv, TypeOK
<1>7. CASE OpenBackup \/ CheckTemp
  BY <1>7 DEF OpenBackup, CheckTemp, GiveUp, scrub, TypeInv, TypeOK, InFlight
<1>8. CASE Copy
  <2>1. files[source][current] \in {"good", "bad", "missing"}
    BY <1>8 DEF Copy, TypeInv, TypeOK, InFlight
  <2>2. QED
    BY <1>8, <2>1 DEF Copy, GiveUp, scrub, TypeInv, TypeOK, InFlight
<1>9. CASE Replace
  <2>1. current \in Paths /\ "working" \in Replicas /\ temp \in {"good", "bad"}
    BY <1>9 DEF Replace, TypeInv, TypeOK, InFlight, Replicas
  <2>2. files' \in [Replicas -> [Paths -> {"good", "bad", "missing"}]]
    BY <1>9, <2>1 DEF Replace, TypeInv, TypeOK
  <2>3. age' \in [Paths -> Nat]
    BY <1>9, <2>1 DEF Replace, TypeInv, TypeOK
  <2>4. QED
    BY <1>9, <2>2, <2>3 DEF Replace, GiveUp, scrub, TypeInv, TypeOK, InFlight
<1>10. CASE BeginAfter
  <2>1. issues' \in [Replicas -> SUBSET Paths]
    BY <1>10 DEF BeginAfter, TypeInv, TypeOK
  <2>2. next' \in 1..(FileCount + 1)
    BY <1>10 DEF BeginAfter
  <2>3. QED
    BY <1>10, <2>1, <2>2 DEF BeginAfter, TypeInv, TypeOK, InFlight
<1>11. CASE VerifyAfter
  BY <1>11, ExamineType DEF VerifyAfter, TypeInv, TypeOK, InFlight, Replicas
<1>12. CASE Conclude \/ Raise \/ Stop
  BY <1>12 DEF Conclude, Raise, Stop, scrub, TypeInv, TypeOK, InFlight
<1>13. CASE Damage
  <2>1. files' \in [Replicas -> [Paths -> {"good", "bad", "missing"}]]
    BY <1>13 DEF Damage, TypeInv, TypeOK
  <2>2. faults' \in 0..MaxFaults /\ temp' \in {"none", "good", "bad"}
    BY <1>13 DEF Damage, TypeInv, TypeOK
  <2>3. QED
    BY <1>13, <2>1, <2>2 DEF Damage, scrub, TypeInv, TypeOK, InFlight
<1>14. CASE UNCHANGED vars
  BY <1>14 DEF vars, TypeInv, TypeOK, InFlight
<1>15. QED
  BY <1>1, <1>2, <1>3, <1>4, <1>5, <1>6, <1>7, <1>8, <1>9, <1>10, <1>11, <1>12, <1>13, <1>14
     DEF Next, ScrubStep

\* Type correctness, for every number of files and every interval.
THEOREM TypeCorrect == Spec => []TypeOK
<1>1. TypeInv => TypeOK
  BY DEF TypeInv
<1>2. QED
  BY <1>1, InitType, NextType, PTL DEF Spec
-------------------------------------------------------------------------------
\* What does not match in replica r.
Damaged(r) == {p \in Paths : files[r][p] # "good"}

\* What is found not to match, what is left to repair and what is being
\* repaired does not match; nothing is repaired twice.
WorseInv ==
    /\ TypeInv
    /\ pc \in {"verify", "decide"} => issues["working"] \subseteq Damaged("working")
    /\ Fixing => queue \subseteq Damaged("working")
    /\ InFlight => current \in Damaged("working") /\ current \notin queue

LEMMA InitWorse == Init => WorseInv
<1>1. Init => (pc \in {"verify", "decide"} \/ Fixing) = FALSE
  BY DEF Init, Fixing, InFlight
<1>2. QED
  BY <1>1, InitType DEF WorseInv, Fixing

\* A file that does not match matches only after it was replaced.
LEMMA DamageStays ==
    ASSUME TypeOK, [Next]_vars, ~ Replace
    PROVE  \A r \in Replicas : Damaged(r) \subseteq Damaged(r)'
<1>1. CASE UNCHANGED files
  BY <1>1 DEF Damaged
<1>2. CASE Damage /\ ~ UNCHANGED files
  <2>1. PICK r \in Replicas, p \in Paths, to \in {"bad", "missing"} :
            files' = [files EXCEPT ![r][p] = to] \/ UNCHANGED files
    BY <1>2 DEF Damage
  <2>2. ASSUME NEW s \in Replicas, NEW q \in Paths, files[s][q] # "good"
        PROVE  files'[s][q] # "good"
    BY <2>1, <2>2 DEF TypeOK
  <2>3. QED
    BY <2>2 DEF Damaged
<1>3. QED
  BY <1>1, <1>2 DEF Next, ScrubStep, Start, Batch, VerifyFile, VerifyNext, Decide, Pick,
     OpenBackup, Copy, CheckTemp, BeginAfter, VerifyAfter, Conclude, Raise, Stop, vars

LEMMA NextWorse == WorseInv /\ [Next]_vars => WorseInv'
<1> SUFFICES ASSUME WorseInv, [Next]_vars PROVE WorseInv'
  OBVIOUS
<1>t. TypeInv /\ TypeInv' /\ TypeOK
  BY NextType DEF WorseInv, TypeInv
<1>w. "working" \in Replicas
  BY DEF Replicas
<1>1. CASE Replace
  <2>1. Damaged("working") \ {current} \subseteq Damaged("working")'
    BY <1>1, <1>t, <1>w DEF Replace, Damaged, TypeOK
  <2>2. queue' = queue /\ pc' = "repair"
    BY <1>1 DEF Replace, GiveUp, scrub
  <2>3. QED
    BY <1>1, <1>t, <2>1, <2>2 DEF Replace, WorseInv, Fixing, InFlight
<1>2. CASE ~ Replace
  <2>1. Damaged("working") \subseteq Damaged("working")'
    BY <1>2, <1>t, <1>w, DamageStays
  <2>2. CASE Start \/ Batch
    <3>1. \/ pc' = "verify" /\ issues' = [r \in Replicas |-> {}]
          \/ pc' = "serving"
      BY <2>2 DEF Start, Batch, BeginScrub
    <3>2. QED
      BY <1>t, <1>w, <3>1 DEF WorseInv, Fixing, InFlight
  <2>3. CASE VerifyFile
    <3>1. issues'["working"] \subseteq issues["working"] \cup Damaged("working")
      BY <2>3, <1>t, ConstantFacts DEF VerifyFile, Examine, Damaged, TypeOK, Paths
    <3>2. QED
      BY <1>t, <2>1, <2>3, <3>1 DEF VerifyFile, WorseInv, Fixing, InFlight
  <2>4. CASE Decide
    BY <1>t, <2>1, <2>4 DEF Decide, WorseInv, Fixing, InFlight
  <2>5. CASE Pick
    BY <1>t, <2>1, <2>5 DEF Pick, WorseInv, Fixing, InFlight
  <2>6. CASE VerifyNext \/ OpenBackup \/ Copy \/ CheckTemp \/ Damage \/ UNCHANGED vars
    BY <1>t, <2>1, <2>6 DEF VerifyNext, OpenBackup, Copy, CheckTemp, Damage, GiveUp, scrub, vars,
       WorseInv, Fixing, InFlight
  <2>7. CASE BeginAfter \/ VerifyAfter \/ Conclude \/ Raise \/ Stop
    BY <1>t, <2>7 DEF BeginAfter, VerifyAfter, Conclude, Raise, Stop, WorseInv, Fixing, InFlight
  <2>8. QED
    BY <1>2, <2>2, <2>3, <2>4, <2>5, <2>6, <2>7 DEF Next, ScrubStep
<1>3. QED
  BY <1>1, <1>2

\* No step of the guard makes a working file worse: what it replaces did not
\* match when it was found, and files are only damaged meanwhile.
THEOREM NeverWorse == Spec => NeverMadeWorse
<1> DEFINE Kept == faults' = faults =>
      \A p \in Paths : files["working"][p] = "good" => files'["working"][p] = "good"
<1>1. ASSUME WorseInv, [Next]_vars PROVE [Kept]_vars
  <2>1. CASE Replace
    <3>1. current \in Damaged("working")
      BY <1>1, <2>1 DEF Replace, WorseInv, InFlight
    <3>2. \A p \in Paths : p # current => files'["working"][p] = files["working"][p]
      BY <1>1, <2>1 DEF Replace, WorseInv, TypeInv, TypeOK, Replicas
    <3>3. QED
      BY <3>1, <3>2 DEF Damaged
  <2>2. CASE UNCHANGED files \/ UNCHANGED vars
    BY <2>2 DEF vars
  <2>3. CASE Damage
    BY <1>1, <2>3 DEF Damage, WorseInv, TypeInv, TypeOK
  <2>4. QED
    BY <1>1, <2>1, <2>2, <2>3 DEF Next, ScrubStep, Start, Batch, VerifyFile, VerifyNext, Decide,
       Pick, OpenBackup, Copy, CheckTemp, BeginAfter, VerifyAfter, Conclude, Raise, Stop
<1>2. QED
  BY <1>1, InitWorse, NextWorse, PTL DEF Spec, NeverMadeWorse
-------------------------------------------------------------------------------
\* A file a verification of the working directory has passed matched during
\* this scrub; while batches run, completed counts them.
Passed(p) == age[p] = 0 \/ p \in issues["working"]

AgeInv ==
    /\ TypeInv
    /\ pc \in {"verify", "decide", "after"} \/ Fixing => completed = 0
    /\ \A p \in Paths :
          /\ pc = "serving" => age[p] <= completed
          /\ (pc = "verify" /\ (checking # "working" \/ p < next)) => Passed(p)
          /\ pc = "decide" => Passed(p)
          /\ (pc = "after" /\ p < next) => Passed(p)
          /\ files["working"][p] = "good" => age[p] = 0

LEMMA InitAge == Init => AgeInv
BY InitType DEF Init, AgeInv, Fixing, InFlight

\* An examined file that is not reported has not been damaged for a batch.
LEMMA ExaminedPassed ==
    ASSUME AgeInv, Examine("working"), age' = age, NEW p \in Paths, p < next',
           p < next => Passed(p)
    PROVE  Passed(p)'
<1>1. next \in Paths /\ next' = next + 1 /\ "working" \in Replicas
  BY ConstantFacts DEF AgeInv, TypeInv, TypeOK, Examine, Paths, Replicas
<1>2. p < next \/ p = next
  BY <1>1, ConstantFacts
<1>3. issues["working"] \subseteq issues'["working"]
  BY <1>1 DEF AgeInv, TypeInv, TypeOK, Examine
<1>4. CASE p = next
  <2>1. CASE files["working"][next] = "good"
    BY <1>4, <2>1 DEF AgeInv, Passed
  <2>2. CASE files["working"][next] # "good"
    BY <1>1, <1>4, <2>2 DEF AgeInv, TypeInv, TypeOK, Examine, Passed
  <2>3. QED
    BY <2>1, <2>2
<1>5. QED
  BY <1>2, <1>3, <1>4 DEF Passed

LEMMA NextAge == AgeInv /\ [Next]_vars => AgeInv'
<1> SUFFICES ASSUME AgeInv, [Next]_vars PROVE AgeInv'
  OBVIOUS
<1>t. TypeInv /\ TypeInv' /\ TypeOK /\ TypeOK'
  BY NextType DEF AgeInv, TypeInv
<1>n. "working" \in Replicas /\ completed \in Nat /\ (\A p \in Paths : age[p] \in Nat)
      /\ (\A p \in Paths : p \in Nat) /\ next \in Nat
  BY <1>t, ConstantFacts DEF TypeOK, Replicas
<1>1. CASE Start
  BY <1>1, <1>t, <1>n, ConstantFacts DEF Start, BeginScrub, AgeInv, Fixing, InFlight, Passed, Paths
<1>2. CASE Batch
  <2>1. \A p \in Paths : age'[p] = IF files["working"][p] = "good" THEN 0 ELSE age[p] + 1
    BY <1>2 DEF Batch, Served
  <2>2. files' = files
    BY <1>2 DEF Batch
  <2>3. CASE completed + 1 = Interval
    <3>1. pc' = "verify" /\ checking' = "working" /\ next' = 1 /\ completed' = 0
      BY <1>2, <2>3 DEF Batch, BeginScrub
    <3>2. \A p \in Paths : ~ (p < 1)
      BY ConstantFacts DEF Paths
    <3>3. QED
      BY <1>t, <2>1, <2>2, <3>1, <3>2 DEF AgeInv, Fixing, InFlight
  <2>4. CASE completed + 1 # Interval
    <3>1. pc' = "serving" /\ completed' = completed + 1
      BY <1>2, <2>4 DEF Batch
    <3>2. \A p \in Paths : age[p] <= completed
      BY <1>2 DEF Batch, AgeInv
    <3>3. \A p \in Paths : age'[p] <= completed'
      BY <1>n, <2>1, <3>1, <3>2
    <3>4. QED
      BY <1>t, <2>1, <2>2, <3>1, <3>3 DEF AgeInv, Fixing, InFlight
  <2>5. QED
    BY <2>3, <2>4
<1>3. CASE VerifyFile
  <2>1. pc = "verify" /\ pc' = "verify" /\ UNCHANGED <<files, age, checking, completed>>
    BY <1>3 DEF VerifyFile
  <2>2. ASSUME NEW p \in Paths, checking' # "working" \/ p < next' PROVE Passed(p)'
    <3>1. CASE checking = "working"
      BY <1>3, <2>1, <2>2, <3>1, ExaminedPassed DEF VerifyFile, AgeInv
    <3>2. CASE checking # "working"
      <4>1. issues'["working"] = issues["working"]
        BY <1>3, <1>t, <1>n, <3>2 DEF VerifyFile, Examine, TypeOK
      <4>2. QED
        BY <2>1, <3>2, <4>1 DEF AgeInv, Passed
    <3>3. QED
      BY <3>1, <3>2
  <2>3. QED
    BY <1>t, <2>1, <2>2 DEF AgeInv, Fixing, InFlight
<1>4. CASE VerifyNext
  <2>1. pc = "verify" /\ UNCHANGED <<files, age, issues, completed>> /\ pc' \in {"verify", "decide"}
    BY <1>4 DEF VerifyNext
  <2>2. \A p \in Paths : p < next
    BY <1>4, ConstantFacts, <1>n DEF VerifyNext, Paths
  <2>3. \A p \in Paths : Passed(p)'
    BY <2>1, <2>2 DEF AgeInv, Passed
  <2>4. QED
    BY <1>t, <2>1, <2>3 DEF AgeInv, Fixing, InFlight
<1>5. CASE Decide
  <2>1. \A p \in Paths : Passed(p)
    BY <1>5 DEF Decide, AgeInv
  <2>2. completed = 0 /\ UNCHANGED <<files, age, issues, completed>>
    BY <1>5 DEF Decide, AgeInv
  <2>3. pc' = "serving" => \A p \in Paths : age'[p] = 0
    BY <1>5, <2>1, <2>2 DEF Decide, Passed
  <2>4. pc' \in {"serving", "blocked", "repair"}
    BY <1>5 DEF Decide
  <2>5. QED
    BY <1>t, <2>2, <2>3, <2>4 DEF AgeInv, Fixing, InFlight
<1>6. CASE Pick \/ OpenBackup \/ Copy \/ CheckTemp
  BY <1>6, <1>t DEF Pick, OpenBackup, Copy, CheckTemp, GiveUp, scrub, AgeInv, Fixing, InFlight
<1>7. CASE Replace
  <2>1. pc' = "repair" /\ completed' = completed /\ completed = 0 /\ current \in Paths
    BY <1>7, <1>t DEF Replace, GiveUp, scrub, AgeInv, Fixing, InFlight, TypeInv
  <2>2. \A p \in Paths : files'["working"][p] = "good" => age'[p] = 0
    BY <1>7, <1>t, <2>1 DEF Replace, AgeInv, TypeOK, Replicas
  <2>3. QED
    BY <1>t, <2>1, <2>2 DEF AgeInv, Fixing, InFlight
<1>8. CASE BeginAfter
  <2>1. pc' = "after" /\ next' = 1 /\ UNCHANGED <<files, age, completed>> /\ completed = 0
    BY <1>8 DEF BeginAfter, AgeInv, Fixing
  <2>2. \A p \in Paths : ~ (p < 1)
    BY ConstantFacts DEF Paths
  <2>3. QED
    BY <1>t, <2>1, <2>2 DEF AgeInv, Fixing, InFlight
<1>9. CASE VerifyAfter
  <2>1. pc = "after" /\ pc' = "after" /\ UNCHANGED <<files, age, completed>>
    BY <1>9 DEF VerifyAfter
  <2>2. ASSUME NEW p \in Paths, p < next' PROVE Passed(p)'
    BY <1>9, <2>1, <2>2, ExaminedPassed DEF VerifyAfter, AgeInv
  <2>3. QED
    BY <1>t, <2>1, <2>2 DEF AgeInv, Fixing, InFlight
<1>10. CASE Conclude
  <2>1. completed = 0 /\ UNCHANGED <<files, age, completed>> /\ pc' \in {"serving", "blocked"}
    BY <1>10 DEF Conclude, scrub, AgeInv
  <2>2. \A p \in Paths : p < next
    BY <1>10, ConstantFacts, <1>n DEF Conclude, Paths
  <2>3. pc' = "serving" => \A p \in Paths : age'[p] = 0
    BY <1>10, <2>1, <2>2 DEF Conclude, AgeInv, Passed
  <2>4. QED
    BY <1>t, <2>1, <2>3 DEF AgeInv, Fixing, InFlight
<1>11. CASE Damage
  <2>1. UNCHANGED <<pc, checking, next, issues, completed, age>>
    BY <1>11 DEF Damage, scrub
  <2>2. \A p \in Paths : files'["working"][p] = "good" => files["working"][p] = "good"
    <3>1. ~ Replace
      BY <1>11 DEF Damage, Replace, GiveUp
    <3>2. Damaged("working") \subseteq Damaged("working")'
      BY <1>t, <1>n, <3>1, DamageStays
    <3>3. QED
      BY <3>2 DEF Damaged
  <2>3. \A p \in Paths : Passed(p)' <=> Passed(p)
    BY <2>1 DEF Passed
  <2>4. QED
    BY <1>t, <2>1, <2>2, <2>3 DEF AgeInv, Fixing, InFlight
<1>12. CASE Raise \/ Stop \/ UNCHANGED vars
  BY <1>12, <1>t DEF Raise, Stop, vars, scrub, AgeInv, Fixing, InFlight, Passed
<1>13. QED
  BY <1>1, <1>2, <1>3, <1>4, <1>5, <1>6, <1>7, <1>8, <1>9, <1>10, <1>11, <1>12 DEF Next, ScrubStep

\* A damaged file is served for less than an interval of batches, for every
\* interval and whatever is damaged, fails or is killed.
THEOREM Exposure == Spec => []ExposureBounded
<1>1. ASSUME AgeInv PROVE ExposureBounded
  <2>1. completed \in 0..(Interval - 1) /\ age \in [Paths -> Nat]
    BY <1>1 DEF AgeInv, TypeInv, TypeOK
  <2>2. completed < Interval /\ completed \in Nat
    BY <2>1, ConstantFacts
  <2>3. QED
    BY <1>1, <2>1, <2>2, ConstantFacts DEF AgeInv, ExposureBounded
<1>2. QED
  BY <1>1, InitAge, NextAge, PTL DEF Spec
-------------------------------------------------------------------------------
\* The entries of replica r that have been examined.
Seen(r) ==
    IF pc = "verify" /\ r = checking THEN {p \in Paths : p < next}
    ELSE IF pc = "verify" /\ (checking = "working" \/ (checking = "warm" /\ r = "golden")) THEN {}
    ELSE Paths

\* While nothing disturbs a scrub, what it has found is what there is.
ReasonInv ==
    /\ WorseInv
    /\ ~ disturbed =>
          /\ pc \in {"verify", "decide"} =>
                \A r \in Replicas : issues[r] = Damaged(r) \cap Seen(r)
          /\ Fixing => /\ source \in {"warm", "golden"}
                       /\ Damaged(source) = {}
                       /\ Damaged("working") \subseteq queue \cup (IF InFlight THEN {current} ELSE {})
          /\ pc \in {"check", "replace"} => temp = "good"
          /\ pc = "after" => Damaged("working") = {} /\ issues["working"] = {}
          /\ pc = "blocked" => \A r \in Replicas : Damaged(r) # {}

LEMMA InitReason == Init => ReasonInv
BY InitWorse DEF Init, ReasonInv, Fixing, InFlight

LEMMA NextReason == ReasonInv /\ [Next]_vars => ReasonInv'
<1> SUFFICES ASSUME ReasonInv, [Next]_vars, ~ disturbed' PROVE ReasonInv'
  BY NextWorse DEF ReasonInv
<1>w. WorseInv /\ WorseInv' /\ TypeInv /\ TypeOK /\ TypeOK'
  BY NextWorse, NextType DEF ReasonInv, WorseInv, TypeInv
<1>n. next \in Nat /\ (\A p \in Paths : p \in Nat) /\ "working" \in Replicas
  BY <1>w, ConstantFacts DEF TypeOK, Replicas
<1>1. CASE Start \/ Batch
  <2>1. CASE BeginScrub
    <3>1. pc' = "verify" /\ checking' = "working" /\ next' = 1
          /\ \A r \in Replicas : issues'[r] = {}
      BY <2>1 DEF BeginScrub
    <3>2. \A r \in Replicas : Seen(r)' = {}
      BY <3>1, ConstantFacts DEF Seen, Paths
    <3>3. QED
      BY <1>w, <3>1, <3>2 DEF ReasonInv, Fixing, InFlight
  <2>2. CASE pc' = "serving"
    BY <1>w, <2>2 DEF ReasonInv, Fixing, InFlight
  <2>3. QED
    BY <1>1, <2>1, <2>2 DEF Start, Batch
<1>2. CASE VerifyFile
  <2>1. /\ pc = "verify" /\ pc' = "verify" /\ ~ disturbed
        /\ UNCHANGED <<files, checking>> /\ next' = next + 1 /\ next \in Paths
    BY <1>2, <1>w, ConstantFacts DEF VerifyFile, Examine, TypeOK, Paths
  <2>2. ASSUME NEW r \in Replicas PROVE issues'[r] = Damaged(r)' \cap Seen(r)'
    <3>1. Damaged(r)' = Damaged(r) /\ issues[r] = Damaged(r) \cap Seen(r)
      BY <2>1 DEF Damaged, ReasonInv
    <3>2. CASE r # checking
      <4>1. issues'[r] = issues[r] /\ Seen(r)' = Seen(r)
        BY <1>2, <1>w, <2>1, <3>2 DEF VerifyFile, Examine, Seen, TypeOK
      <4>2. QED
        BY <3>1, <4>1
    <3>3. CASE r = checking
      <4>1. Seen(r) = {p \in Paths : p < next} /\ Seen(r)' = {p \in Paths : p < next + 1}
        BY <2>1, <3>3 DEF Seen
      <4>2. {p \in Paths : p < next + 1} = {p \in Paths : p < next} \cup {next}
        <5>1. \A p \in Paths : p < next + 1 <=> p < next \/ p = next
          BY <1>n
        <5>2. QED
          BY <2>1, <5>1
      <4>3. issues'[r] = IF files[r][next] = "good" THEN issues[r] ELSE issues[r] \cup {next}
        BY <1>2, <1>w, <3>3 DEF VerifyFile, Examine, TypeOK
      <4>4. next \in Damaged(r) <=> files[r][next] # "good"
        BY <2>1 DEF Damaged
      <4>5. QED
        BY <3>1, <4>1, <4>2, <4>3, <4>4
    <3>4. QED
      BY <3>2, <3>3
  <2>3. QED
    BY <1>w, <2>1, <2>2 DEF ReasonInv, Fixing, InFlight
<1>3. CASE VerifyNext
  <2>1. /\ pc = "verify" /\ ~ disturbed /\ UNCHANGED <<files, issues>>
        /\ pc' \in {"verify", "decide"}
    BY <1>3 DEF VerifyNext
  <2>2. \A r \in Replicas : issues[r] = Damaged(r) \cap Seen(r) /\ Damaged(r)' = Damaged(r)
    BY <2>1 DEF ReasonInv, Damaged
  <2>3. {p \in Paths : p < next} = Paths /\ {p \in Paths : p < 1} = {}
    BY <1>3, <1>n, ConstantFacts DEF VerifyNext, Paths
  <2>4. \A r \in Replicas : Seen(r)' = Seen(r)
    <3>1. CASE checking = "golden"
      BY <1>3, <2>1, <2>3, <3>1 DEF VerifyNext, Seen, Replicas
    <3>2. CASE checking = "warm"
      BY <1>3, <2>1, <2>3, <3>2 DEF VerifyNext, Seen, Replicas
    <3>3. CASE checking = "working"
      BY <1>3, <2>1, <2>3, <3>3 DEF VerifyNext, Seen, Replicas
    <3>4. QED
      BY <1>w, <3>1, <3>2, <3>3 DEF TypeOK, Replicas
  <2>5. QED
    BY <1>w, <2>1, <2>2, <2>4 DEF ReasonInv, Fixing, InFlight
<1>4. CASE Decide
  <2>1. ~ disturbed /\ UNCHANGED <<files, issues>>
    BY <1>4 DEF Decide
  <2>2. \A r \in Replicas : issues[r] = Damaged(r) /\ Damaged(r)' = Damaged(r)
    BY <1>4, <2>1 DEF Decide, ReasonInv, Damaged, Seen
  <2>3. CASE pc' = "serving"
    BY <1>w, <2>3 DEF ReasonInv, Fixing, InFlight
  <2>4. CASE pc' = "blocked"
    BY <1>4, <1>w, <2>2, <2>4 DEF Decide, ReasonInv, Fixing, InFlight
  <2>5. CASE pc' = "repair"
    <3>1. source' \in {"warm", "golden"} /\ issues[source'] = {} /\ queue' = issues["working"]
      BY <1>4, <2>5 DEF Decide
    <3>2. Damaged(source') = {} /\ Damaged(source)' = Damaged(source')
      BY <2>1, <2>2, <3>1 DEF Replicas, Damaged
    <3>3. QED
      BY <1>w, <1>n, <2>2, <2>5, <3>1, <3>2 DEF ReasonInv, Fixing, InFlight
  <2>6. QED
    BY <1>4, <2>3, <2>4, <2>5 DEF Decide
<1>5. CASE Pick \/ OpenBackup \/ Copy \/ CheckTemp
  <2>1. /\ ~ disturbed /\ UNCHANGED <<files, source>> /\ Fixing /\ Fixing'
        /\ pc' \notin {"verify", "decide", "after", "blocked"}
    BY <1>5 DEF Pick, OpenBackup, Copy, CheckTemp, GiveUp, scrub, Fixing, InFlight
  <2>2. source \in {"warm", "golden"} /\ Damaged(source) = {} /\ Damaged(source)' = Damaged(source)
        /\ Damaged("working")' = Damaged("working")
    BY <2>1 DEF ReasonInv, Damaged
  <2>3. pc \in {"backup", "copy"} => files[source][current] = "good"
    BY <1>w, <2>2 DEF TypeInv, InFlight, Damaged
  <2>4. /\ pc' \in {"check", "replace"} => temp' = "good"
        /\ Damaged("working") \subseteq queue' \cup (IF InFlight' THEN {current'} ELSE {})
    <3>1. CASE Pick
      BY <2>1, <3>1 DEF Pick, ReasonInv, InFlight
    <3>2. CASE OpenBackup
      BY <2>1, <2>3, <3>2 DEF OpenBackup, scrub, ReasonInv, InFlight
    <3>3. CASE Copy
      BY <2>1, <2>3, <3>3 DEF Copy, scrub, ReasonInv, InFlight
    <3>4. CASE CheckTemp
      BY <2>1, <3>4 DEF CheckTemp, scrub, ReasonInv, InFlight
    <3>5. QED
      BY <1>5, <3>1, <3>2, <3>3, <3>4
  <2>5. QED
    BY <1>w, <2>1, <2>2, <2>4 DEF ReasonInv
<1>6. CASE Replace
  <2>1. ~ disturbed /\ pc' = "repair" /\ UNCHANGED <<source, queue, current>> /\ temp = "good"
    BY <1>6 DEF Replace, GiveUp, scrub, ReasonInv
  <2>2. files' = [files EXCEPT !["working"][current] = "good"]
    BY <1>6, <2>1 DEF Replace
  <2>3. source \in {"warm", "golden"} /\ Damaged(source)' = {}
    BY <1>6, <1>w, <2>1, <2>2 DEF Replace, ReasonInv, Fixing, InFlight, Damaged, TypeOK, Replicas
  <2>4. Damaged("working")' \subseteq Damaged("working") \ {current}
    BY <1>w, <1>n, <2>2 DEF Damaged, TypeOK
  <2>5. Damaged("working")' \subseteq queue'
    BY <1>6, <2>1, <2>4 DEF Replace, ReasonInv, Fixing, InFlight
  <2>6. QED
    BY <1>w, <2>1, <2>3, <2>5 DEF ReasonInv, Fixing, InFlight
<1>7. CASE BeginAfter
  <2>1. Damaged("working") = {} /\ Damaged("working")' = Damaged("working")
    BY <1>7 DEF BeginAfter, ReasonInv, Fixing, InFlight, Damaged
  <2>2. pc' = "after" /\ issues'["working"] = {}
    BY <1>7, <1>w, <1>n DEF BeginAfter, TypeOK
  <2>3. QED
    BY <1>w, <2>1, <2>2 DEF ReasonInv, Fixing, InFlight
<1>8. CASE VerifyAfter
  <2>1. /\ pc = "after" /\ pc' = "after" /\ UNCHANGED files
        /\ Damaged("working") = {} /\ issues["working"] = {} /\ next \in Paths
    BY <1>8, <1>w, ConstantFacts DEF VerifyAfter, Examine, ReasonInv, TypeOK, Paths
  <2>2. issues' = issues /\ Damaged("working")' = {}
    BY <1>8, <2>1 DEF VerifyAfter, Examine, Damaged
  <2>3. QED
    BY <1>w, <2>1, <2>2 DEF ReasonInv, Fixing, InFlight
<1>9. CASE Conclude
  BY <1>9, <1>w DEF Conclude, scrub, ReasonInv, Fixing, InFlight
<1>10. CASE Raise \/ Damage \/ Stop
  BY <1>10, <1>w DEF Raise, Damage, Stop, ReasonInv, Fixing, InFlight
<1>11. CASE UNCHANGED vars
  <2>1. \A r : Damaged(r)' = Damaged(r) /\ Seen(r)' = Seen(r)
    BY <1>11 DEF vars, Damaged, Seen
  <2>2. QED
    BY <1>11, <1>w, <2>1 DEF vars, ReasonInv, Fixing, InFlight
<1>12. QED
  BY <1>1, <1>2, <1>3, <1>4, <1>5, <1>6, <1>7, <1>8, <1>9, <1>10, <1>11 DEF Next, ScrubStep

\* An undisturbed scrub blocks inference only when neither warm nor golden is
\* wholly intact, for every number of files.
THEOREM BlockedReason == Spec => []BlockedForAReason
<1>1. ReasonInv => BlockedForAReason
  BY DEF ReasonInv, BlockedForAReason, Damaged
<1>2. QED
  BY <1>1, InitReason, NextReason, PTL DEF Spec
-------------------------------------------------------------------------------
\* Why a scrub ends: its parts, then the replicas to verify or the files to repair, then
\* the entries of the manifest to verify, then the steps of a recovery.
Part ==
    IF pc = "verify" THEN 4
    ELSE IF pc = "decide" THEN 3
    ELSE IF Fixing THEN 2
    ELSE IF pc = "after" THEN 1 ELSE 0

Others ==
    IF pc = "verify"
    THEN IF checking = "working" THEN 2 ELSE IF checking = "warm" THEN 1 ELSE 0
    ELSE IF Fixing THEN Cardinality(queue) ELSE 0

Unread == IF pc \in {"verify", "after"} THEN FileCount + 1 - next ELSE 0

Steps ==
    IF pc = "backup" THEN 4
    ELSE IF pc = "copy" THEN 3
    ELSE IF pc = "check" THEN 2
    ELSE IF pc = "replace" THEN 1 ELSE 0

Left == <<Part, Others, Unread, Steps>>

Lefts == [1 .. 4 -> Nat]

\* The lexicographic order of what may be left.
Less == LexProductOrdering(OpToRel(<, Nat), Nat, 4)

\* Every step of a scrub leaves less to be done, and damage leaves no more to be done.
StepsShrink == [][/\ ScrubStep => <<Left', Left>> \in Less
                  /\ Damage => Left' = Left]_vars

\* Nothing can shrink for ever.
LEMMA LessWellFounded == IsWellFoundedOn(Less, Lefts)
BY NatLessThanWellFounded, WFLexProductOrdering DEF Less, Lefts

LEMMA LessFacts ==
    ASSUME NEW a \in Nat, NEW b \in Nat, NEW c \in Nat, NEW d \in Nat,
           NEW e \in Nat, NEW f \in Nat, NEW g \in Nat, NEW h \in Nat,
           \/ a < e
           \/ a = e /\ b < f
           \/ a = e /\ b = f /\ c < g
           \/ a = e /\ b = f /\ c = g /\ d < h
    PROVE  <<<<a, b, c, d>>, <<e, f, g, h>>>> \in Less
<1> DEFINE m == <<a, b, c, d>>
           n == <<e, f, g, h>>
<1>1. /\ m \in Lefts /\ n \in Lefts
      /\ m[1] = a /\ m[2] = b /\ m[3] = c /\ m[4] = d
      /\ n[1] = e /\ n[2] = f /\ n[3] = g /\ n[4] = h
  BY DEF Lefts
<1> SUFFICES <<m, n>> \in Less
  OBVIOUS
<1> HIDE DEF m, n
<1>2. ASSUME NEW j \in 1 .. 4, m[j] < n[j], \A i \in 1 .. j - 1 : m[i] = n[i]
      PROVE  <<m, n>> \in Less
  <2>1. m[j] \in Nat /\ n[j] \in Nat
    BY <1>1 DEF Lefts
  <2>2. <<m[j], n[j]>> \in OpToRel(<, Nat)
    BY <1>2, <2>1 DEF OpToRel
  <2>3. QED
    BY <1>1, <1>2, <2>2 DEF Less, LexProductOrdering, Lefts
<1>3. CASE a < e
  BY <1>1, <1>2, <1>3
<1>4. CASE a = e /\ b < f
  BY <1>1, <1>2, <1>4
<1>5. CASE a = e /\ b = f /\ c < g
  BY <1>1, <1>2, <1>5
<1>6. CASE a = e /\ b = f /\ c = g /\ d < h
  BY <1>1, <1>2, <1>6
<1>7. QED
  BY <1>3, <1>4, <1>5, <1>6

\* What it takes for a step to leave less to be done.
Shrinks ==
    \/ Part' < Part
    \/ Part' = Part /\ Others' < Others
    \/ Part' = Part /\ Others' = Others /\ Unread' < Unread
    \/ Part' = Part /\ Others' = Others /\ Unread' = Unread /\ Steps' < Steps

LEMMA QueueFinite ==
    ASSUME NEW Q, Q \subseteq Paths
    PROVE  /\ Cardinality(Q) \in Nat
           /\ \A p \in Q : Cardinality(Q \ {p}) < Cardinality(Q)
<1>1. IsFiniteSet(Paths)
  BY ConstantFacts, FS_Interval DEF Paths
<1>2. IsFiniteSet(Q)
  BY <1>1, FS_Subset
<1>3. Cardinality(Q) \in Nat
  BY <1>2, FS_CardinalityType
<1>4. ASSUME NEW p \in Q PROVE Cardinality(Q \ {p}) = Cardinality(Q) - 1
  BY <1>2, FS_RemoveElement
<1>5. QED
  BY <1>3, <1>4

Counts == Part \in Nat /\ Others \in Nat /\ Unread \in Nat /\ Steps \in Nat

LEMMA LeftType == TypeOK => Counts
<1> SUFFICES ASSUME TypeOK PROVE Counts
  OBVIOUS
<1>1. Cardinality(queue) \in Nat
  BY QueueFinite DEF TypeOK
<1>2. FileCount + 1 - next \in Nat
  BY ConstantFacts DEF TypeOK
<1>3. QED
  BY <1>1, <1>2 DEF Counts, Part, Others, Unread, Steps

LEMMA LeftTypeNext == TypeOK' => Counts'
BY LeftType, PTL

LEMMA ShrinksLess == TypeOK /\ TypeOK' /\ Shrinks => <<Left', Left>> \in Less
<1> SUFFICES ASSUME TypeOK, TypeOK', Shrinks PROVE <<Left', Left>> \in Less
  OBVIOUS
<1>1. Part \in Nat /\ Others \in Nat /\ Unread \in Nat /\ Steps \in Nat
  BY LeftType DEF Counts
<1>2. Part' \in Nat /\ Others' \in Nat /\ Unread' \in Nat /\ Steps' \in Nat
  BY LeftTypeNext DEF Counts
<1>3. PICK a \in Nat, b \in Nat, c \in Nat, d \in Nat :
        a = Part' /\ b = Others' /\ c = Unread' /\ d = Steps'
  BY <1>2
<1>4. PICK e \in Nat, f \in Nat, g \in Nat, h \in Nat :
        e = Part /\ f = Others /\ g = Unread /\ h = Steps
  BY <1>1
<1>5. \/ a < e \/ (a = e /\ b < f) \/ (a = e /\ b = f /\ c < g)
      \/ (a = e /\ b = f /\ c = g /\ d < h)
  BY <1>3, <1>4 DEF Shrinks
<1>6. <<<<a, b, c, d>>, <<e, f, g, h>>>> \in Less
  BY <1>5, LessFacts
<1>7. Left' = <<a, b, c, d>> /\ Left = <<e, f, g, h>>
  BY <1>3, <1>4 DEF Left
<1>8. QED
  BY <1>6, <1>7, Zenon

\* Within a recovery the queue stays as it is.
LEMMA RecoveryShrinks ==
    ASSUME Fixing, Fixing', queue' = queue, Steps' < Steps
    PROVE  Shrinks
<1>1. Part' = Part /\ Others' = Others /\ Unread' = Unread
  BY DEF Part, Others, Unread, Fixing, InFlight
<1>2. QED
  BY <1>1 DEF Shrinks

LEMMA StepShrinks == TypeOK /\ ScrubStep => Shrinks
<1> SUFFICES ASSUME TypeOK, ScrubStep PROVE Shrinks
  OBVIOUS
<1>0. next \in Nat /\ FileCount \in Nat /\ checking \in {"working", "warm", "golden"}
  BY ConstantFacts DEF TypeOK, Replicas
<1> USE DEF Fixing, InFlight
<1>1. CASE VerifyFile
  BY <1>0, <1>1 DEF VerifyFile, Examine, Shrinks, Part, Others, Unread
<1>2. CASE VerifyNext
  BY <1>0, <1>2 DEF VerifyNext, Shrinks, Part, Others
<1>3. CASE Decide
  BY <1>3 DEF Decide, Shrinks, Part
<1>4. CASE Pick
  <2>1. PICK p \in queue : queue' = queue \ {p}
    BY <1>4 DEF Pick
  <2>2. Cardinality(queue') < Cardinality(queue)
    BY <2>1, QueueFinite DEF TypeOK
  <2>3. Fixing /\ Fixing' /\ pc # "verify" /\ pc' # "verify" /\ Part' = Part
    BY <1>4 DEF Pick, Part
  <2>4. Others' < Others
    BY <2>2, <2>3 DEF Others
  <2>5. QED
    BY <2>3, <2>4 DEF Shrinks
<1>5. CASE OpenBackup
  BY <1>5, RecoveryShrinks DEF OpenBackup, GiveUp, scrub, Steps
<1>6. CASE Copy
  BY <1>6, RecoveryShrinks DEF Copy, GiveUp, scrub, Steps
<1>7. CASE CheckTemp
  BY <1>7, RecoveryShrinks DEF CheckTemp, GiveUp, scrub, Steps
<1>8. CASE Replace
  BY <1>8, RecoveryShrinks DEF Replace, GiveUp, scrub, Steps
<1>9. CASE BeginAfter
  BY <1>9 DEF BeginAfter, Shrinks, Part
<1>10. CASE VerifyAfter
  BY <1>0, <1>10 DEF VerifyAfter, Examine, Shrinks, Part, Others, Unread
<1>11. CASE Conclude
  BY <1>11 DEF Conclude, Shrinks, Part
<1>12. CASE Raise
  BY <1>12 DEF Raise, Shrinks, Part
<1>13. QED
  BY <1>1, <1>2, <1>3, <1>4, <1>5, <1>6, <1>7, <1>8, <1>9, <1>10, <1>11, <1>12 DEF ScrubStep

LEMMA DamageLeaves == Damage => Left' = Left
BY DEF Damage, scrub, Left, Part, Others, Unread, Steps, Fixing, InFlight

\* scrub_adapter_replicas: no scrub makes infinitely many steps, and damage does not make
\* it start again: this is what ScrubEnds rests on.
THEOREM ScrubShrinks == Spec => StepsShrink
<1>1. TypeInv /\ TypeInv' => [/\ ScrubStep => <<Left', Left>> \in Less
                              /\ Damage => Left' = Left]_vars
  BY StepShrinks, ShrinksLess, DamageLeaves DEF TypeInv
<1>2. QED
  BY <1>1, InitType, NextType, PTL DEF Spec, StepsShrink
===============================================================================
