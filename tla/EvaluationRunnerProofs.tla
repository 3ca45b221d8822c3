------------------------ MODULE EvaluationRunnerProofs ------------------------
(***************************************************************************)
(* Theorems about EvaluationRunner, for every dataset, registry, policy    *)
(* and number of restarts.                                                 *)
(***************************************************************************)
EXTENDS EvaluationRunner, SequenceTheorems, WellFoundedInduction, TLAPS

\* A sample is being evaluated.
Busy == pc \in {"build", "exec", "write", "record", "recording", "check"}

\* Its attempt is over and has a row.
HasRow == pc \in {"write", "record", "recording", "check"}

\* The type invariant with what makes it inductive: the current sample exists
\* while one is evaluated, and its row is about it.
TypeInv ==
    /\ TypeOK
    /\ Busy => pos \in 1..Len(Dataset)
    /\ HasRow => row \in Row /\ row.id = Current
    /\ pc = "exec" => mode \in Modes

-------------------------------------------------------------------------------
LEMMA ConstantFacts ==
    /\ StopFlags \subseteq BOOLEAN
    /\ ConfiguredTight \in BOOLEAN
    /\ Ids \subseteq Nat
    /\ \A q \in Ids : Route[q] \in Modes
BY RunnerAssumption

LEMMA DatasetFacts ==
    /\ Len(Dataset) \in Nat
    /\ DOMAIN Dataset = 1..Len(Dataset)
    /\ \A i \in 1..Len(Dataset) : Dataset[i] \in Ids
<1>1. Dataset \in Seq(Ids)
  BY RunnerAssumption
<1>2. QED
  BY <1>1, LenProperties, ElementOfSeq

LEMMA OutputKept ==
    ASSUME TypeOK, UNCHANGED output
    PROVE  OutputOK'
BY DEF TypeOK, OutputOK

LEMMA OutputAppended ==
    ASSUME OutputOK, NEW r \in Row
    PROVE  Append(output, r) \in Seq(Row)
BY DEF OutputOK

LEMMA OutputFront == OutputOK => Front(output) \in Seq(Row)
BY DEF OutputOK, Front

LEMMA SuccessIdsType ==
    ASSUME OutputOK
    PROVE  SuccessIds(output) \subseteq Ids
<1>1. \A i \in DOMAIN output : output[i] \in Row
  BY LenProperties, ElementOfSeq DEF OutputOK
<1>2. QED
  BY <1>1 DEF SuccessIds, Row

LEMMA CurrentId ==
    ASSUME TypeInv, Busy
    PROVE  Current \in Ids
BY DatasetFacts DEF TypeInv, Current

LEMMA InitTypeInv == Init => TypeInv
<1> SUFFICES ASSUME Init PROVE TypeInv
  OBVIOUS
<1>1. OutputOK
  BY EmptySeq DEF Init, OutputOK
<1>2. registry \in [Ids -> Entry] /\ memRows \in [Ids -> Entry]
  BY DEF Init, NoRows, NoEntry, Entry, Variants
<1>3. 1 \in 1..(Len(Dataset) + 1)
  BY DatasetFacts
<1>4. QED
  BY <1>1, <1>2, <1>3, ConstantFacts DEF Init, TypeInv, TypeOK, Busy, HasRow

\* A process that ends leaves volatile state of the right type.
LEMMA ResetType ==
    ASSUME NEW how \in {"done", "stopped", "killed", "output_unreadable"},
           Reset(how)
    PROVE  /\ pc' = "down"
           /\ completed' \subseteq Ids
           /\ pos' \in 1..(Len(Dataset) + 1)
           /\ memRows' \in [Ids -> Entry]
           /\ tight' \in BOOLEAN
           /\ applied' \in BOOLEAN
           /\ mode' \in Modes \cup {"blank"}
           /\ row' = NoRow
           /\ exit' = how
<1>1. 1 \in 1..(Len(Dataset) + 1)
  BY DatasetFacts
<1>2. NoRows \in [Ids -> Entry]
  BY DEF NoRows, NoEntry, Entry, Variants
<1>3. QED
  BY <1>1, <1>2, ConstantFacts DEF Reset

\* Whatever is left of the registry has the type of a registry.
LEMMA RegistryCutType ==
    ASSUME TypeOK, RegistryCut
    PROVE  registry' \in [Ids -> Entry] /\ regBad' \in BOOLEAN
<1>1. NoEntry \in Entry /\ memRows \in [Ids -> Entry]
  BY DEF NoEntry, Entry, Variants, TypeOK
<1>2. registry' \in [Ids -> Entry]
  BY <1>1 DEF RegistryCut
<1>3. regBad' \in BOOLEAN
  BY DEF RegistryCut
<1>4. QED
  BY <1>2, <1>3

LEMMA RememberType ==
    ASSUME TypeInv, HasRow, Remember
    PROVE  memRows' \in [Ids -> Entry]
<1>1. row.mode \in Modes \cup {"blank"}
  BY DEF TypeInv, Row
<1>2. [mode |-> row.mode, variant |-> IF applied THEN "tight" ELSE "none"] \in Entry
  BY <1>1 DEF Entry, Variants
<1>3. QED
  BY <1>2 DEF Remember, TypeInv, TypeOK

LEMMA AttemptedType ==
    ASSUME TypeInv, NEW status \in {"success", "failure"}, Attempted(status),
           Busy, pos' = pos,
           status = "success" => mode \in Modes
    PROVE  /\ pc' = "write"
           /\ row' \in Row
           /\ row'.id = Current'
<1>1. Current \in Ids /\ Current' = Current
  BY CurrentId DEF Current
<1>2. tight \in BOOLEAN
  BY DEF TypeInv, TypeOK
<1>3. QED
  BY <1>1, <1>2 DEF Attempted, Row

LEMMA NextTypeInv == TypeInv /\ [Next]_vars => TypeInv'
<1> SUFFICES ASSUME TypeInv, [Next]_vars PROVE TypeInv'
  OBVIOUS
<1> USE DEF TypeInv, TypeOK, Busy, HasRow
<1>1. CASE Boot
  BY <1>1, OutputKept DEF Boot, durable, process
<1>2. ASSUME NEW resume \in ResumeFlags, NEW stopping \in StopFlags,
             Open(resume, stopping) PROVE TypeInv'
  <2>1. SuccessIds(output) \subseteq Ids
    BY SuccessIdsType
  <2>2. OutputOK'
    <3>1. << >> \in Seq(Row)
      BY EmptySeq
    <3>2. output' = output \/ output' = << >>
      BY <1>2 DEF Open
    <3>3. QED
      BY <3>1, <3>2, OutputKept DEF OutputOK
  <2>3. stop' \in BOOLEAN
    BY <1>2, ConstantFacts DEF Open
  <2>4. CASE resume /\ tail = "bad"
    BY <1>2, <2>2, <2>3, <2>4, ResetType DEF Open
  <2>5. CASE ~ (resume /\ tail = "bad")
    BY <1>2, <2>1, <2>2, <2>3, <2>5 DEF Open
  <2>6. QED
    BY <2>4, <2>5
<1>3. CASE Skip
  BY <1>3, OutputKept, DatasetFacts DEF Skip, Following, durable
<1>4. CASE Take
  <2>1. pos \in 1..Len(Dataset)
    BY <1>4, DatasetFacts DEF Take
  <2>2. QED
    BY <1>4, <2>1, OutputKept, DatasetFacts DEF Take, durable
<1>5. CASE Finish
  BY <1>5, ResetType, OutputKept DEF Finish, durable
<1>6. CASE RejectSample
  BY <1>6, AttemptedType, OutputKept DEF RejectSample, durable
<1>7. CASE SelectMode
  <2>1. Current \in Ids
    BY <1>7, CurrentId DEF SelectMode
  <2>2. mode' \in Modes /\ tight' \in BOOLEAN /\ applied' \in BOOLEAN
    BY <1>7, <2>1, ConstantFacts DEF SelectMode, Composed, Known
  <2>3. QED
    BY <1>7, <2>2, OutputKept DEF SelectMode, durable
<1>8. ASSUME NEW status \in {"success", "failure"}, Execute(status) PROVE TypeInv'
  BY <1>8, AttemptedType, OutputKept DEF Execute, durable
<1>9. CASE WriteRow
  <2>1. row \in Row
    BY <1>9 DEF WriteRow
  <2>2. Append(output, row) \in Seq(Row) /\ Front(output) \in Seq(Row)
    BY <2>1, OutputAppended, OutputFront
  <2>3. OutputOK'
    BY <1>9, <2>2 DEF WriteRow, OutputOK
  <2>4. QED
    BY <1>9, <2>3 DEF WriteRow, Current
<1>10. CASE RecordOpen
  <2>1. memRows' \in [Ids -> Entry]
    BY <1>10, RememberType DEF RecordOpen
  <2>2. NoRows \in [Ids -> Entry]
    BY DEF NoRows, NoEntry, Entry, Variants
  <2>3. QED
    BY <1>10, <2>1, <2>2, OutputKept DEF RecordOpen, Current
<1>11. CASE RecordClose
  BY <1>11, OutputKept DEF RecordClose, Current
<1>12. CASE RecordFail
  <2>1. memRows' \in [Ids -> Entry]
    BY <1>12, RememberType DEF RecordFail
  <2>2. registry' \in [Ids -> Entry] /\ regBad' \in BOOLEAN
    BY <1>12, RegistryCutType DEF RecordFail
  <2>3. QED
    BY <1>12, <2>1, <2>2, OutputKept DEF RecordFail, Current
<1>13. CASE NextOrStop
  BY <1>13, DatasetFacts, ResetType, OutputKept DEF NextOrStop, Following, durable
<1>14. CASE Crash
  <2>1. OutputOK'
    <3>1. pc = "write" => Append(output, row) \in Seq(Row)
      BY OutputAppended
    <3>2. Front(output) \in Seq(Row)
      BY OutputFront
    <3>3. QED
      BY <1>14, <3>1, <3>2 DEF Crash, OutputOK, durable
  <2>2. registry' \in [Ids -> Entry] /\ regBad' \in BOOLEAN
    BY <1>14, RegistryCutType DEF Crash, durable
  <2>3. QED
    BY <1>14, <2>1, <2>2, ResetType DEF Crash, durable
<1>15. CASE UNCHANGED vars
  BY <1>15, OutputKept DEF vars, Current
<1>16. QED
  BY <1>1, <1>2, <1>3, <1>4, <1>5, <1>6, <1>7, <1>8, <1>9, <1>10, <1>11,
     <1>12, <1>13, <1>14, <1>15 DEF Next, Work

\* Every state of every run has its type.
THEOREM TypeCorrect == Spec => []TypeOK
<1>1. TypeInv => TypeOK
  BY DEF TypeInv
<1>2. QED
  BY <1>1, InitTypeInv, NextTypeInv, PTL DEF Spec
-------------------------------------------------------------------------------
\* When tight crops are not configured, the composer and the flag of the
\* runtime agree, so that the comparison _apply_memory_variant makes sets the
\* composer whatever the earlier samples did.
VariantInv ==
    /\ ~ ConfiguredTight => tight = applied
    /\ KnownQuestionConsistent

LEMMA NextVariantInv == TypeInv /\ VariantInv /\ [Next]_vars => VariantInv'
<1> SUFFICES ASSUME TypeInv, VariantInv, [Next]_vars PROVE VariantInv'
  OBVIOUS
<1> USE DEF VariantInv, KnownQuestionConsistent
<1>1. ASSUME UNCHANGED <<tight, applied>>, pc' # "exec" PROVE VariantInv'
  BY <1>1
<1>2. ASSUME NEW how \in {"done", "stopped", "killed", "output_unreadable"}, Reset(how)
      PROVE  VariantInv'
  BY <1>2, ConstantFacts DEF Reset
<1>3. CASE SelectMode
  <2>1. tight \in BOOLEAN /\ applied \in BOOLEAN /\ Current' = Current
    BY <1>3 DEF TypeInv, TypeOK, SelectMode, Current
  <2>2. CASE Known(memRows, Current)
    BY <1>3, <2>1, <2>2 DEF SelectMode, Composed, Known
  <2>3. CASE ~ Known(memRows, Current)
    BY <1>3, <2>1, <2>3 DEF SelectMode, Composed, Known
  <2>4. QED
    BY <2>2, <2>3
<1>4. CASE Boot
  BY <1>1, <1>4 DEF Boot, process
<1>5. ASSUME NEW resume \in ResumeFlags, NEW stopping \in StopFlags,
             Open(resume, stopping) PROVE VariantInv'
  BY <1>1, <1>2, <1>5 DEF Open
<1>6. CASE Skip \/ Take \/ RejectSample \/ WriteRow \/ RecordOpen \/ RecordClose \/ RecordFail
  BY <1>1, <1>6 DEF Skip, Following, Take, RejectSample, Attempted, WriteRow, RecordOpen, RecordClose, RecordFail
<1>7. CASE Finish
  BY <1>2, <1>7 DEF Finish
<1>8. ASSUME NEW status \in {"success", "failure"}, Execute(status) PROVE VariantInv'
  BY <1>1, <1>8 DEF Execute, Attempted
<1>9. CASE NextOrStop
  BY <1>1, <1>2, <1>9 DEF NextOrStop, Following
<1>10. CASE Crash
  BY <1>2, <1>10 DEF Crash
<1>11. CASE UNCHANGED vars
  BY <1>11 DEF vars, Known, Current
<1>12. QED
  BY <1>3, <1>4, <1>5, <1>6, <1>7, <1>8, <1>9, <1>10, <1>11 DEF Next, Work

\* A question the registry knows runs in the registry's mode and variant, after
\* any sequence of samples, failures, crashes and restarts.
THEOREM KnownConsistent == Spec => []KnownQuestionConsistent
<1>1. Init => VariantInv
  BY ConstantFacts DEF Init, VariantInv, KnownQuestionConsistent
<1>2. VariantInv => KnownQuestionConsistent
  BY DEF VariantInv
<1>3. QED
  BY <1>1, <1>2, InitTypeInv, NextTypeInv, NextVariantInv, PTL DEF Spec
-------------------------------------------------------------------------------
\* Facts about the rows of the output.
Succeeded(i) == output[i].status = "success"

LEMMA OutputRows ==
    ASSUME OutputOK
    PROVE  /\ Len(output) \in Nat
           /\ DOMAIN output = 1..Len(output)
           /\ \A i \in DOMAIN output : output[i] \in Row
BY LenProperties, ElementOfSeq DEF OutputOK

LEMMA RowAppended ==
    ASSUME OutputOK, NEW r \in Row, output' = Append(output, r)
    PROVE  /\ DOMAIN output' = 1..(Len(output) + 1)
           /\ \A i \in 1..Len(output) : output'[i] = output[i]
           /\ output'[Len(output) + 1] = r
<1>1. output \in Seq(Row)
  BY DEF OutputOK
<1>2. QED
  BY <1>1

\* A row is written in one piece, so the file never has a cut line.
LEMMA NextClean ==
    ASSUME ~ TornWrites
    PROVE  tail = "clean" /\ [Next]_vars => tail' = "clean"
<1> SUFFICES ASSUME tail = "clean", [Next]_vars PROVE tail' = "clean"
  OBVIOUS
<1>1. CASE Crash
  BY <1>1 DEF Crash, durable
<1>2. CASE Boot \/ UNCHANGED vars
  BY <1>2 DEF Boot, durable, vars
<1>3. CASE Work
  BY <1>3 DEF Work, Open, Skip, Take, Finish, RejectSample, SelectMode, Execute,
     WriteRow, RecordOpen, RecordClose, RecordFail, NextOrStop, durable
<1>4. QED
  BY <1>1, <1>2, <1>3 DEF Next

\* The rows of earlier runs and of the samples before the current one are all
\* the successes there are.
Distinct == \A i, j \in 1..Len(Dataset) : Dataset[i] = Dataset[j] => i = j

Covered(q) ==
    \/ q \in completed
    \/ \E k \in 1..Len(Dataset) : k < pos /\ q = Dataset[k]
    \/ pc \in {"record", "recording", "check"} /\ q = Current

LedgerInv ==
    /\ pc \notin {"down", "boot"} =>
          \A i \in DOMAIN output : Succeeded(i) => Covered(output[i].id)
    /\ Busy => Current \notin completed

LEMMA NextLedgerInv ==
    ASSUME Distinct, ResumeFlags \subseteq {TRUE}, tail = "clean"
    PROVE  TypeInv /\ LedgerInv /\ [Next]_vars => LedgerInv'
<1> SUFFICES ASSUME TypeInv, LedgerInv, [Next]_vars PROVE LedgerInv'
  OBVIOUS
<1>a. OutputOK
  BY DEF TypeInv, TypeOK
<1>1. CASE Boot \/ Finish \/ Crash
  BY <1>1 DEF Boot, process, Finish, Crash, Reset, LedgerInv, Busy
<1>2. ASSUME NEW resume \in ResumeFlags, NEW stopping \in StopFlags,
             Open(resume, stopping) PROVE LedgerInv'
  BY <1>2 DEF Open, LedgerInv, Busy, Covered, Succeeded, SuccessIds
<1>3. CASE Skip
  <2>1. pos \in 1..Len(Dataset) /\ pos' = pos + 1 /\ UNCHANGED <<output, pc, completed>>
    BY <1>3, DatasetFacts DEF Skip, Following, TypeInv, TypeOK, durable
  <2>2. ASSUME NEW q, Covered(q), pc = "loop" PROVE Covered(q)'
    BY <2>1, <2>2 DEF Covered
  <2>3. QED
    BY <1>3, <2>1, <2>2 DEF Skip, Following, LedgerInv, Busy, Succeeded
<1>4. CASE Take \/ RejectSample \/ SelectMode
  BY <1>4 DEF Take, RejectSample, SelectMode, Attempted, LedgerInv, Busy, Covered,
     Succeeded, Current, durable
<1>5. ASSUME NEW status \in {"success", "failure"}, Execute(status) PROVE LedgerInv'
  BY <1>5 DEF Execute, Attempted, LedgerInv, Busy, Covered, Succeeded, Current, durable
<1>6. CASE WriteRow
  <2>1. /\ row \in Row /\ row.id = Current
        /\ output' = Append(output, row)
        /\ UNCHANGED <<completed, pos, row>> /\ pc = "write" /\ pc' = "record"
        /\ Current' = Current
    BY <1>6 DEF WriteRow, TypeInv, HasRow, Current
  <2>2. \A q : Covered(q) => Covered(q)'
    BY <2>1 DEF Covered
  <2>3. Covered(Current)'
    BY <2>1 DEF Covered
  <2>4. ASSUME NEW i \in DOMAIN output', Succeeded(i)' PROVE Covered(output[i].id)'
    <3>1. CASE i \in 1..Len(output)
      BY <1>a, <2>1, <2>2, <2>4, <3>1, RowAppended, OutputRows DEF LedgerInv, Succeeded
    <3>2. CASE i = Len(output) + 1
      BY <1>a, <2>1, <2>3, <3>2, RowAppended
    <3>3. QED
      BY <1>a, <2>1, <3>1, <3>2, RowAppended, OutputRows
  <2>5. QED
    BY <2>1, <2>4 DEF LedgerInv, Busy
<1>7. CASE RecordOpen \/ RecordClose \/ RecordFail
  BY <1>7 DEF RecordOpen, RecordClose, RecordFail, LedgerInv, Busy, Covered,
     Succeeded, Current
<1>8. CASE NextOrStop
  <2>1. CASE pc' = "down"
    BY <2>1 DEF LedgerInv, Busy
  <2>2. CASE pc' = "loop"
    <3>1. /\ pos \in 1..Len(Dataset) /\ pos' = pos + 1
          /\ UNCHANGED <<output, completed>> /\ pc = "check"
      BY <1>8, <2>2, DatasetFacts DEF NextOrStop, Following, Reset, TypeInv, TypeOK, Busy, durable
    <3>2. ASSUME NEW q, Covered(q) PROVE Covered(q)'
      BY <3>1, <3>2, DatasetFacts DEF Covered, Current
    <3>3. QED
      BY <2>2, <3>1, <3>2 DEF LedgerInv, Busy, Succeeded
  <2>3. QED
    BY <1>8, <2>1, <2>2 DEF NextOrStop, Following, Reset
<1>9. CASE UNCHANGED vars
  BY <1>9 DEF vars, LedgerInv, Busy, Covered, Succeeded, Current
<1>10. QED
  BY <1>1, <1>2, <1>3, <1>4, <1>5, <1>6, <1>7, <1>8, <1>9 DEF Next, Work

\* The abstract ledger of the success rows.
Successes == {<<i, output[i].id>> : i \in {j \in DOMAIN output : output[j].status = "success"}}

LEMMA NextLedger ==
    ASSUME Distinct, ResumeFlags \subseteq {TRUE}, ~ TornWrites, tail = "clean"
    PROVE  TypeInv /\ LedgerInv /\ [Next]_vars => Ledger!Complete \/ UNCHANGED Successes
<1> SUFFICES ASSUME TypeInv, LedgerInv, [Next]_vars
             PROVE  Ledger!Complete \/ UNCHANGED Successes
  OBVIOUS
<1>a. OutputOK
  BY DEF TypeInv, TypeOK
<1>1. CASE UNCHANGED output
  BY <1>1 DEF Successes
<1>2. CASE WriteRow
  <2>1. /\ row \in Row /\ row.id = Current /\ row.id \in Ids
        /\ output' = Append(output, row)
        /\ pc = "write"
    BY <1>2, CurrentId DEF WriteRow, TypeInv, HasRow, Busy
  <2>2. ASSUME NEW i \in DOMAIN output, Succeeded(i) PROVE output[i].id # Current
    <3>1. Covered(output[i].id) /\ Current \notin completed /\ pos \in 1..Len(Dataset)
      BY <2>1, <2>2 DEF LedgerInv, Busy, TypeInv
    <3>2. QED
      BY <2>1, <3>1, DatasetFacts DEF Covered, Distinct, Current
  <2>3. CASE row.status = "success"
    <3>1. Successes' = Successes \cup {<<Len(output) + 1, row.id>>}
      BY <1>a, <2>1, <2>3, RowAppended, OutputRows DEF Successes
    <3>2. \A old \in Successes : old[1] < Len(output) + 1 /\ old[2] # row.id
      BY <1>a, <2>1, <2>2, OutputRows DEF Successes, Succeeded
    <3>3. QED
      BY <2>1, <3>1, <3>2 DEF Ledger!Complete, Successes
  <2>4. CASE row.status # "success"
    BY <1>a, <2>1, <2>4, RowAppended, OutputRows DEF Successes
  <2>5. QED
    BY <2>3, <2>4
<1>3. CASE Crash
  BY <1>1, <1>3 DEF Crash, durable
<1>4. CASE Boot \/ UNCHANGED vars
  BY <1>1, <1>4 DEF Boot, durable, vars
<1>5. CASE Work
  BY <1>1, <1>2, <1>5 DEF Work, Open, Skip, Take, Finish, RejectSample, SelectMode,
     Execute, RecordOpen, RecordClose, RecordFail, NextOrStop, durable
<1>6. QED
  BY <1>3, <1>4, <1>5 DEF Next

ResumeInv == tail = "clean" /\ LedgerInv

\* In a dataset without repeated ids, evaluated with resume and with rows that
\* are written whole, any number of kills and restarts at any step neither
\* loses a success nor produces it twice.
THEOREM ResumeSafe ==
    ASSUME Distinct, ResumeFlags \subseteq {TRUE}, ~ TornWrites
    PROVE  Spec => LedgerSpec
<1>1. Init => ResumeInv
  BY DEF Init, ResumeInv, LedgerInv, Busy
<1>2. Init => Ledger!Init
  BY DEF Init, Ledger!Init
<1>3. TypeInv /\ ResumeInv /\ [Next]_vars => ResumeInv'
  BY NextClean, NextLedgerInv DEF ResumeInv
<1>4. TypeInv /\ ResumeInv /\ [Next]_vars =>
         [Ledger!Complete]_({<<i, output[i].id>> :
             i \in {j \in DOMAIN output : output[j].status = "success"}})
  BY NextLedger DEF Successes, ResumeInv
<1>5. QED
  BY <1>1, <1>2, <1>3, <1>4, InitTypeInv, NextTypeInv, PTL
     DEF Spec, LedgerSpec, Ledger!Spec
-------------------------------------------------------------------------------
\* Every sample before the current one has the row its run owes it.
Accounted(q) ==
    \E j \in DOMAIN output :
        output[j].id = q /\ (stop => output[j].status = "success")

AllAccounted == \A i \in 1..Len(Dataset) : Accounted(Dataset[i])

AccountInv ==
    /\ pc # "down" => exit = "none"
    /\ pc \in {"down", "boot"} => pos = 1
    /\ exit = "done" => AllAccounted
    /\ pc \notin {"down", "boot"} =>
          /\ completed \subseteq SuccessIds(output)
          /\ \A i \in 1..Len(Dataset) : i < pos => Accounted(Dataset[i])
    /\ pc \in {"record", "recording", "check"} =>
          \E j \in DOMAIN output : output[j] = row

LEMMA NextAccountInv ==
    ASSUME tail = "clean"
    PROVE  TypeInv /\ AccountInv /\ [Next]_vars => AccountInv'
<1> SUFFICES ASSUME TypeInv, AccountInv, [Next]_vars PROVE AccountInv'
  OBVIOUS
<1>a. OutputOK
  BY DEF TypeInv, TypeOK
<1>b. /\ Len(Dataset) \in Nat
      /\ pos \in 1..(Len(Dataset) + 1)
  BY DatasetFacts DEF TypeInv, TypeOK
<1>c. ASSUME UNCHANGED <<output, stop>>
      PROVE  (AllAccounted => AllAccounted') /\ \A q : Accounted(q) => Accounted(q)'
  BY <1>c DEF AllAccounted, Accounted
<1>d. ASSUME NEW how \in {"stopped", "killed", "output_unreadable"}, Reset(how)
      PROVE  AccountInv'
  BY <1>d DEF Reset, AccountInv
<1>1. CASE Boot
  BY <1>1, <1>c DEF Boot, durable, process, AccountInv
<1>2. ASSUME NEW resume \in ResumeFlags, NEW stopping \in StopFlags,
             Open(resume, stopping) PROVE AccountInv'
  <2>1. \A i \in 1..Len(Dataset) : ~ (i < 1)
    BY <1>b
  <2>2. CASE resume /\ tail = "bad"
    BY <1>2, <1>d, <2>2 DEF Open
  <2>3. CASE ~ (resume /\ tail = "bad")
    <3>1. /\ pc = "boot" /\ pc' = "loop" /\ pos = 1 /\ pos' = 1
          /\ exit = "none" /\ exit' = "none"
      BY <1>2, <2>3 DEF Open, AccountInv
    <3>2. completed' \subseteq SuccessIds(output')
      BY <1>2, <2>3 DEF Open, SuccessIds
    <3>3. QED
      BY <2>1, <3>1, <3>2 DEF AccountInv
  <2>4. QED
    BY <2>2, <2>3
<1>3. CASE Skip
  <2>1. /\ pc' = "loop" /\ pc = "loop" /\ pos' = pos + 1 /\ Current \in completed
        /\ UNCHANGED <<output, completed, stop, exit>>
    BY <1>3 DEF Skip, Following, durable
  <2>2. Accounted(Dataset[pos])
    BY <2>1 DEF AccountInv, SuccessIds, Accounted, Current
  <2>3. \A i \in 1..Len(Dataset) : i < pos + 1 => i < pos \/ i = pos
    BY <1>b
  <2>4. \A i \in 1..Len(Dataset) : i < pos' => Accounted(Dataset[i])'
    BY <1>c, <2>1, <2>2, <2>3 DEF AccountInv
  <2>5. QED
    BY <2>1, <2>4 DEF AccountInv, SuccessIds
<1>4. CASE Take \/ RejectSample \/ SelectMode
  BY <1>4, <1>c DEF Take, RejectSample, SelectMode, Attempted, AccountInv, SuccessIds, durable
<1>5. ASSUME NEW status \in {"success", "failure"}, Execute(status) PROVE AccountInv'
  BY <1>5, <1>c DEF Execute, Attempted, AccountInv, SuccessIds, durable
<1>6. CASE Finish
  <2>1. \A i \in 1..Len(Dataset) : i < pos
    BY <1>6, <1>b DEF Finish
  <2>2. AllAccounted
    BY <1>6, <2>1 DEF Finish, AccountInv, AllAccounted
  <2>3. QED
    BY <1>6, <1>c, <2>2 DEF Finish, Reset, AccountInv, durable
<1>7. CASE WriteRow
  <2>1. /\ row \in Row /\ output' = Append(output, row)
        /\ pc = "write" /\ pc' = "record" /\ UNCHANGED <<completed, pos, row, stop, exit>>
    BY <1>7 DEF WriteRow, TypeInv, HasRow
  <2>2. /\ DOMAIN output = 1..Len(output) /\ Len(output) \in Nat
        /\ DOMAIN output' = 1..(Len(output) + 1)
        /\ \A i \in 1..Len(output) : output'[i] = output[i]
        /\ output'[Len(output) + 1] = row
    BY <1>a, <2>1, OutputRows, RowAppended
  <2>3. \A j \in DOMAIN output : j \in DOMAIN output' /\ output'[j] = output[j]
    BY <2>2
  <2>4. \A q : Accounted(q) => Accounted(q)'
    BY <2>1, <2>3 DEF Accounted
  <2>5. SuccessIds(output) \subseteq SuccessIds(output')
    BY <2>3 DEF SuccessIds
  <2>6. Len(output) + 1 \in DOMAIN output'
    BY <2>2
  <2>7. QED
    BY <2>1, <2>2, <2>4, <2>5, <2>6 DEF AccountInv, SuccessIds
<1>8. CASE RecordOpen \/ RecordClose \/ RecordFail
  BY <1>8, <1>c DEF RecordOpen, RecordClose, RecordFail, AccountInv, SuccessIds
<1>9. CASE NextOrStop
  <2>1. CASE row.status = "failure" /\ stop
    BY <1>9, <2>1, <1>d DEF NextOrStop, Following
  <2>2. CASE ~ (row.status = "failure" /\ stop)
    <3>1. /\ pc = "check" /\ pc' = "loop" /\ pos' = pos + 1
          /\ UNCHANGED <<output, completed, stop, exit>>
      BY <1>9, <2>2 DEF NextOrStop, Following, durable
    <3>2. row \in Row /\ row.id = Dataset[pos]
      BY <3>1 DEF TypeInv, HasRow, Current
    <3>3. Accounted(Dataset[pos])
      BY <2>2, <3>1, <3>2 DEF AccountInv, Accounted, Row
    <3>4. \A i \in 1..Len(Dataset) : i < pos + 1 => i < pos \/ i = pos
      BY <1>b
    <3>5. \A i \in 1..Len(Dataset) : i < pos' => Accounted(Dataset[i])'
      BY <1>c, <3>1, <3>3, <3>4 DEF AccountInv
    <3>6. QED
      BY <3>1, <3>5 DEF AccountInv, SuccessIds
  <2>3. QED
    BY <2>1, <2>2
<1>10. CASE Crash
  BY <1>10, <1>d DEF Crash
<1>11. CASE UNCHANGED vars
  BY <1>11, <1>c DEF vars, AccountInv, SuccessIds
<1>12. QED
  BY <1>1, <1>2, <1>3, <1>4, <1>5, <1>6, <1>7, <1>8, <1>9, <1>10, <1>11 DEF Next, Work

\* With rows that are written whole, a run that reaches the end of the dataset
\* leaves a row for every sample, a success where failures stop the run.
THEOREM FinishedAccounts ==
    ASSUME ~ TornWrites
    PROVE  Spec => []FinishedRunAccountsForAll
<1> DEFINE Clean == tail = "clean"
<1>1. Init => Clean /\ AccountInv
  BY DEF Init, AccountInv
<1>2. TypeInv /\ Clean /\ AccountInv /\ [Next]_vars => Clean' /\ AccountInv'
  BY NextClean, NextAccountInv
<1>3. AccountInv => FinishedRunAccountsForAll
  BY DatasetFacts DEF AccountInv, AllAccounted, Accounted, FinishedRunAccountsForAll
<1> HIDE DEF Clean
<1>4. QED
  BY <1>1, <1>2, <1>3, InitTypeInv, NextTypeInv, PTL DEF Spec
-------------------------------------------------------------------------------
\* Why a run ends: what it has left to do.  Opening the file comes first, then the samples
\* from the current one on, then the steps of the current one.
Opening ==
    IF pc = "boot" THEN 2 ELSE IF pc = "down" THEN 0 ELSE 1

Steps ==
    IF pc = "loop" THEN 6
    ELSE IF pc = "build" THEN 5
    ELSE IF pc = "exec" THEN 4
    ELSE IF pc = "write" THEN 3
    ELSE IF pc = "record" THEN 2
    ELSE IF pc = "recording" THEN 1 ELSE 0

Left == <<Opening, Len(Dataset) + 1 - pos, Steps>>

Lefts == [1 .. 3 -> Nat]

\* The lexicographic order of what may be left.
Less == LexProductOrdering(OpToRel(<, Nat), Nat, 3)

\* Every step of a live process leaves less to be done.
WorkShrinks == [][Work => <<Left', Left>> \in Less]_vars

\* Nothing can shrink for ever.
LEMMA LessWellFounded == IsWellFoundedOn(Less, Lefts)
BY NatLessThanWellFounded, WFLexProductOrdering DEF Less, Lefts

LEMMA LessFacts ==
    ASSUME NEW a \in Nat, NEW b \in Nat, NEW c \in Nat,
           NEW e \in Nat, NEW f \in Nat, NEW g \in Nat,
           \/ a < e
           \/ a = e /\ b < f
           \/ a = e /\ b = f /\ c < g
    PROVE  <<<<a, b, c>>, <<e, f, g>>>> \in Less
<1> DEFINE m == <<a, b, c>>
           n == <<e, f, g>>
<1>1. /\ m \in Lefts /\ n \in Lefts
      /\ m[1] = a /\ m[2] = b /\ m[3] = c
      /\ n[1] = e /\ n[2] = f /\ n[3] = g
  BY DEF Lefts
<1> SUFFICES <<m, n>> \in Less
  OBVIOUS
<1> HIDE DEF m, n
<1>2. ASSUME NEW j \in 1 .. 3, m[j] < n[j], \A i \in 1 .. j - 1 : m[i] = n[i]
      PROVE  <<m, n>> \in Less
  <2>1. m[j] \in Nat /\ n[j] \in Nat
    BY <1>1 DEF Lefts
  <2>2. <<m[j], n[j]>> \in OpToRel(<, Nat)
    BY <1>2, <2>1 DEF OpToRel
  <2>3. QED
    BY <1>1, <1>2, <2>2 DEF Less, LexProductOrdering, Lefts
<1>3. CASE a < e
  BY <1>1, <1>2, <1>3
<1>4. CASE a = e /\ b < f
  BY <1>1, <1>2, <1>4
<1>5. CASE a = e /\ b = f /\ c < g
  BY <1>1, <1>2, <1>5
<1>6. QED
  BY <1>3, <1>4, <1>5

\* What it takes for a step to leave less to be done.
Shrinks ==
    \/ Opening' < Opening
    \/ Opening' = Opening /\ pos' = pos + 1
    \/ Opening' = Opening /\ pos' = pos /\ Steps' < Steps

LEMMA ShrinksLess == TypeOK /\ TypeOK' /\ Shrinks => <<Left', Left>> \in Less
<1> SUFFICES ASSUME TypeOK, TypeOK', Shrinks PROVE <<Left', Left>> \in Less
  OBVIOUS
<1>1. /\ pos \in 1 .. Len(Dataset) + 1 /\ pos' \in 1 .. Len(Dataset) + 1
      /\ Len(Dataset) \in Nat
  BY DatasetFacts DEF TypeOK
<1>0. /\ Opening \in Nat /\ Opening' \in Nat /\ Steps \in Nat /\ Steps' \in Nat
      /\ Len(Dataset) + 1 - pos \in Nat /\ Len(Dataset) + 1 - pos' \in Nat
  BY <1>1 DEF Opening, Steps
<1>2. PICK a \in Nat, b \in Nat, c \in Nat :
        a = Opening' /\ b = Len(Dataset) + 1 - pos' /\ c = Steps'
  BY <1>0
<1>3. PICK e \in Nat, f \in Nat, g \in Nat :
        e = Opening /\ f = Len(Dataset) + 1 - pos /\ g = Steps
  BY <1>0
<1>4. a < e \/ (a = e /\ b < f) \/ (a = e /\ b = f /\ c < g)
  BY <1>1, <1>2, <1>3 DEF Shrinks
<1>5. <<<<a, b, c>>, <<e, f, g>>>> \in Less
  BY <1>4, LessFacts
<1>6. Left' = <<a, b, c>> /\ Left = <<e, f, g>>
  BY <1>2, <1>3 DEF Left
<1>7. QED
  BY <1>5, <1>6, Zenon

LEMMA WorkLeaves == TypeOK /\ Work => Shrinks
<1> SUFFICES ASSUME TypeOK, Work PROVE Shrinks
  OBVIOUS
<1>1. ASSUME NEW resume, NEW stopping, Open(resume, stopping) PROVE Shrinks
  BY <1>1 DEF Open, Reset, Shrinks, Opening
<1>2. CASE Skip
  BY <1>2 DEF Skip, Following, Shrinks, Opening
<1>3. CASE Take
  BY <1>3 DEF Take, Shrinks, Opening, Steps
<1>4. CASE Finish
  BY <1>4 DEF Finish, Reset, Shrinks, Opening
<1>5. CASE RejectSample
  BY <1>5 DEF RejectSample, Attempted, Shrinks, Opening, Steps
<1>6. CASE SelectMode
  BY <1>6 DEF SelectMode, Shrinks, Opening, Steps
<1>7. ASSUME NEW st, Execute(st) PROVE Shrinks
  BY <1>7 DEF Execute, Attempted, Shrinks, Opening, Steps
<1>8. CASE WriteRow
  BY <1>8 DEF WriteRow, Shrinks, Opening, Steps
<1>9. CASE RecordOpen
  BY <1>9 DEF RecordOpen, Shrinks, Opening, Steps
<1>10. CASE RecordClose
  BY <1>10 DEF RecordClose, Shrinks, Opening, Steps
<1>11. CASE RecordFail
  BY <1>11 DEF RecordFail, Shrinks, Opening, Steps
<1>12. CASE NextOrStop
  BY <1>12 DEF NextOrStop, Reset, Following, Shrinks, Opening
<1>13. QED
  BY <1>1, <1>2, <1>3, <1>4, <1>5, <1>6, <1>7, <1>8, <1>9, <1>10, <1>11, <1>12 DEF Work

\* run_taskgraph_evaluation: no run makes infinitely many steps, however its samples fail.
\* This is what EvaluationEnds rests on.
THEOREM RunShrinks == Spec => WorkShrinks
<1>1. TypeInv /\ TypeInv' => [Work => <<Left', Left>> \in Less]_vars
  BY WorkLeaves, ShrinksLess DEF TypeInv
<1>2. QED
  BY <1>1, InitTypeInv, NextTypeInv, PTL DEF Spec, WorkShrinks
===============================================================================
