--------------------------- MODULE EvaluationRunner ---------------------------
(***************************************************************************)
(* The TaskGraph evaluation command: scripts/taskgraph/evaluate_runtime.py *)
(* starts a process that builds a TaskGraphRuntime (which loads the        *)
(* RuntimeMemory registry), reads the ids already finished from the output *)
(* JSONL, and then runs the samples one after another.  Every attempt      *)
(* appends a row to the output and rewrites the registry.  The process can *)
(* be killed between any two steps and be started again by its operator.   *)
(*                                                                         *)
(* Abstractions: a row keeps its id, its status and its execution mode; a  *)
(* registry entry keeps its mode and its variant; the answer, the traces   *)
(* and the timings are left out.  A sample id stands for its rank in the   *)
(* order the registry is sorted by.  Operators marked "Mutant" are the     *)
(* bugs the properties are tested against; no specification uses them.     *)
(***************************************************************************)
EXTENDS Naturals, Sequences, SequencesExt

CONSTANTS
    Ids,             \* the sample ids, as ranks in the registry's sort order
    Dataset,         \* the samples in the order they are evaluated
    Malformed,       \* the samples no valid request can be built from
    Route,           \* the mode the dataset policy gives each sample
    ConfiguredTight, \* input_composer.entity_tight_crops of the config
    ResumeFlags,     \* the values of "resume" the operator starts runs with
    StopFlags,       \* the values of "fail_fast or not continue_on_sample_error"
                     \* the operator starts runs with
    TornWrites,      \* a crash may cut the row being written to the output
    MaxStarts        \* bound on the number of process starts

Modes == {"DIRECT_VLM", "DIRECT_DETECTION", "TASKGRAPH_UHR"}

ASSUME RunnerAssumption ==
    /\ Ids \subseteq Nat
    /\ Dataset \in Seq(Ids)
    /\ Malformed \subseteq Ids
    /\ Route \in [Ids -> Modes]
    /\ ConfiguredTight \in BOOLEAN
    /\ ResumeFlags \subseteq BOOLEAN
    /\ StopFlags \subseteq BOOLEAN
    /\ TornWrites \in BOOLEAN
    /\ MaxStarts \in Nat

\* A registry row: "blank" is the mode recorded for a failed attempt, "absent"
\* stands for an id that has no row.
Variants == {"tight", "none"}
Entry == [mode : Modes \cup {"blank", "absent"}, variant : Variants]
NoEntry == [mode |-> "absent", variant |-> "none"]
NoRows == [q \in Ids |-> NoEntry]

\* An output row.  "tight" is not in the file: it remembers how the visuals
\* of the attempt were composed.
Row == [id : Ids, status : {"success", "failure"},
        mode : Modes \cup {"blank"}, tight : BOOLEAN]

VARIABLES
    (* durable state *)
    output,    \* the readable rows of the output JSONL, in file order
    tail,      \* "clean"; "open": the newline of the last row is missing;
               \* "bad": the file has a line that is not JSON
    registry,  \* the rows of the registry file
    regBad,    \* the registry file has a line that is not JSON
    (* the process *)
    pc,        \* what the process is about to do, "down" when there is none
    completed, \* the ids read from the output when the run was opened
    pos,       \* the index of the current sample
    memRows,   \* RuntimeMemory._rows
    tight,     \* composer.entity_tight_crops
    applied,   \* TaskGraphRuntime._memory_variant_applied
    mode,      \* the mode run() selected for the current sample
    row,       \* the row of the current attempt
    (* the operator *)
    stop,      \* the last run opened ends at a failed sample
    starts,    \* the number of process starts
    exit       \* how the last process ended

durable == <<output, tail, registry, regBad>>
process == <<pc, completed, pos, memRows, tight, applied, mode, row>>
vars == <<output, tail, registry, regBad, pc, completed, pos, memRows,
          tight, applied, mode, row, stop, starts, exit>>

NoRow == [id |-> 0, status |-> "failure", mode |-> "blank", tight |-> FALSE]

OutputOK == output \in Seq(Row)

TypeOK ==
    /\ OutputOK
    /\ tail \in {"clean", "open", "bad"}
    /\ registry \in [Ids -> Entry]
    /\ regBad \in BOOLEAN
    /\ pc \in {"down", "boot", "loop", "build", "exec", "write", "record",
               "recording", "check"}
    /\ completed \subseteq Ids
    /\ pos \in 1..(Len(Dataset) + 1)
    /\ memRows \in [Ids -> Entry]
    /\ tight \in BOOLEAN
    /\ applied \in BOOLEAN
    /\ mode \in Modes \cup {"blank"}
    /\ row \in Row \cup {NoRow}
    /\ stop \in BOOLEAN
    /\ starts \in Nat
    /\ exit \in {"none", "done", "stopped", "killed", "output_unreadable",
                 "registry_unreadable"}
-------------------------------------------------------------------------------
\* RuntimeMemory.lookup finds an entry only when its mode is an ExecutionMode.
Known(rows, q) == rows[q].mode \in Modes

Current == Dataset[pos]

\* Mutant of SuccessIds: resume ignores the rows of earlier runs.
NothingFinished(rows) == {}

\* _completed_success_ids: the ids with a success row.
SuccessIds(rows) == {rows[i].id : i \in {j \in DOMAIN rows : rows[j].status = "success"}}

\* Mutant of Following: a failed sample takes the next one with it.
FollowingTwice == IF row.status = "failure" THEN pos + 2 ELSE pos + 1

\* Mutant of Following: a failed sample is tried again.
FollowingRetry == IF row.status = "failure" THEN pos ELSE pos + 1

\* The next turn of the loop over the samples.
Following == pos + 1

\* Mutant of Composed: a variant is switched on and never off.
ComposedSticky(entry) == tight \/ entry.variant = "tight"

\* composer.entity_tight_crops after _apply_memory_variant(entry): the switch
\* is only touched when the variant differs from the applied one.
Composed(entry) ==
    IF (entry.variant = "tight") # applied THEN entry.variant = "tight" ELSE tight

\* The process is gone: nothing of it remains.
Reset(how) ==
    /\ pc' = "down"
    /\ completed' = {}
    /\ pos' = 1
    /\ memRows' = NoRows
    /\ tight' = ConfiguredTight
    /\ applied' = FALSE
    /\ mode' = "blank"
    /\ row' = NoRow
    /\ exit' = how

Init ==
    /\ output = << >>
    /\ tail = "clean"
    /\ registry \in [Ids -> {e \in Entry : e.mode = "absent" => e.variant = "none"}]
    /\ regBad = FALSE
    /\ pc = "down"
    /\ completed = {}
    /\ pos = 1
    /\ memRows = NoRows
    /\ tight = ConfiguredTight
    /\ applied = FALSE
    /\ mode = "blank"
    /\ row = NoRow
    /\ stop = FALSE
    /\ starts = 0
    /\ exit = "none"
-------------------------------------------------------------------------------
\* runtime_from_config: RuntimeMemory loads the registry, and an unreadable
\* line ends the process before the evaluation begins.
Boot ==
    /\ pc = "down"
    /\ starts < MaxStarts
    /\ starts' = starts + 1
    /\ IF regBad
       THEN /\ exit' = "registry_unreadable"
            /\ UNCHANGED process
       ELSE /\ pc' = "boot"
            /\ memRows' = registry
            /\ exit' = "none"
            /\ UNCHANGED <<completed, pos, tight, applied, mode, row>>
    /\ UNCHANGED <<durable, stop>>

\* run_taskgraph_evaluation up to the loop: with resume the finished ids are
\* read and the file is opened for appending, without it the file is emptied.
Open(resume, stopping) ==
    /\ pc = "boot"
    /\ stop' = stopping
    /\ IF resume /\ tail = "bad"
       THEN /\ Reset("output_unreadable")
            /\ UNCHANGED <<output, tail>>
       ELSE /\ pc' = "loop"
            /\ completed' = IF resume THEN SuccessIds(output) ELSE {}
            /\ output' = IF resume THEN output ELSE << >>
            /\ tail' = IF resume THEN tail ELSE "clean"
            /\ UNCHANGED <<pos, memRows, tight, applied, mode, row, exit>>
    /\ UNCHANGED <<registry, regBad, starts>>

\* A sample whose id was already finished when the run was opened is skipped.
Skip ==
    /\ pc = "loop"
    /\ pos <= Len(Dataset)
    /\ Current \in completed
    /\ pos' = Following
    /\ UNCHANGED <<durable, pc, completed, memRows, tight, applied, mode, row,
                   stop, starts, exit>>

Take ==
    /\ pc = "loop"
    /\ pos <= Len(Dataset)
    /\ Current \notin completed
    /\ pc' = "build"
    /\ UNCHANGED <<durable, completed, pos, memRows, tight, applied, mode, row,
                   stop, starts, exit>>

Finish ==
    /\ pc = "loop"
    /\ pos > Len(Dataset)
    /\ Reset("done")
    /\ UNCHANGED <<durable, stop, starts>>

\* The row of an attempt: _error_row has no execution_mode.
Attempted(status) ==
    /\ pc' = "write"
    /\ row' = [id |-> Current, status |-> status, tight |-> tight,
               mode |-> IF status = "success" THEN mode ELSE "blank"]

\* No request can be built, or run() finds no image, before the registry is
\* consulted.
RejectSample ==
    /\ pc = "build"
    /\ Current \in Malformed
    /\ Attempted("failure")
    /\ UNCHANGED <<durable, completed, pos, memRows, tight, applied, mode,
                   stop, starts, exit>>

\* TaskGraphRuntime.run selects the mode; _apply_memory_variant is called only
\* when the registry knows the question.
SelectMode ==
    /\ pc = "build"
    /\ Current \notin Malformed
    /\ pc' = "exec"
    /\ IF Known(memRows, Current)
       THEN LET entry == memRows[Current]
            IN  /\ mode' = entry.mode
                /\ tight' = Composed(entry)
                /\ applied' = (entry.variant = "tight")
       ELSE /\ mode' = Route[Current]
            /\ UNCHANGED <<tight, applied>>
    /\ UNCHANGED <<durable, completed, pos, memRows, row, stop, starts, exit>>

\* The mode's handler answers or raises; a raised exception becomes a row.
Execute(status) ==
    /\ pc = "exec"
    /\ Attempted(status)
    /\ mode' = "blank"
    /\ UNCHANGED <<durable, completed, pos, memRows, tight, applied, stop, starts,
                   exit>>

\* Mutant of WriteRow: only the rows of successes are written.
WriteSuccess ==
    /\ pc = "write"
    /\ pc' = "record"
    /\ output' = IF row.status = "success" THEN Append(output, row) ELSE output
    /\ UNCHANGED <<tail, registry, regBad, completed, pos, memRows, tight,
                   applied, mode, row, stop, starts, exit>>

\* output.write and output.flush.  A row that follows an unterminated line
\* makes one unreadable line of the two.
WriteRow ==
    /\ pc = "write"
    /\ pc' = "record"
    /\ IF tail = "open"
       THEN /\ output' = Front(output)
            /\ tail' = "bad"
       ELSE /\ output' = Append(output, row)
            /\ UNCHANGED tail
    /\ UNCHANGED <<registry, regBad, completed, pos, memRows, tight, applied,
                   mode, row, stop, starts, exit>>

\* The row of the attempt replaces the row its id had in memory.
Remember == memRows' = [memRows EXCEPT ![row.id] =
    [mode |-> row.mode, variant |-> IF applied THEN "tight" ELSE "none"]]

\* RuntimeMemory.record, first half: the registry file is truncated.
RecordOpen ==
    /\ pc = "record"
    /\ pc' = "recording"
    /\ Remember
    /\ registry' = NoRows
    /\ regBad' = FALSE
    /\ UNCHANGED <<output, tail, completed, pos, tight, applied, mode, row,
                   stop, starts, exit>>

\* Second half: all rows are written, in the order of their ids.
RecordClose ==
    /\ pc = "recording"
    /\ pc' = "check"
    /\ registry' = memRows
    /\ UNCHANGED <<output, tail, regBad, completed, pos, memRows, tight,
                   applied, mode, row, stop, starts, exit>>

\* What is left of the registry when its rewriting is cut before rank c.
RegistryCut ==
    \E c \in Ids : \E cut \in BOOLEAN :
        /\ registry' = [q \in Ids |-> IF q < c THEN memRows[q] ELSE NoEntry]
        /\ cut => \E q \in Ids : q >= c /\ memRows[q] # NoEntry
        /\ regBad' = cut

\* Opening or rewriting the file raises: the exception is swallowed.
RecordFail ==
    /\ pc' = "check"
    /\ \/ /\ pc = "record"
          /\ Remember
          /\ UNCHANGED <<registry, regBad>>
       \/ /\ pc = "recording"
          /\ RegistryCut
          /\ UNCHANGED memRows
    /\ UNCHANGED <<output, tail, completed, pos, tight, applied, mode, row,
                   stop, starts, exit>>

\* A failed sample ends the run when failures are not tolerated.
NextOrStop ==
    /\ pc = "check"
    /\ IF row.status = "failure" /\ stop
       THEN Reset("stopped")
       ELSE /\ pc' = "loop"
            /\ pos' = Following
            /\ row' = NoRow
            /\ UNCHANGED <<completed, memRows, tight, applied, mode, exit>>
    /\ UNCHANGED <<durable, stop, starts>>

\* The process is killed.  A row being written may reach the file whole, not
\* at all, or cut; a registry being rewritten is left as far as it got.
Crash ==
    /\ pc # "down"
    /\ Reset("killed")
    /\ \/ /\ pc # "recording"
          /\ UNCHANGED durable
       \/ /\ pc = "write"
          /\ TornWrites
          /\ \/ /\ tail = "clean"
                /\ output' = Append(output, row)
                /\ tail' = "open"
             \/ /\ output' = IF tail = "open" THEN Front(output) ELSE output
                /\ tail' = "bad"
          /\ UNCHANGED <<registry, regBad>>
       \/ /\ pc = "recording"
          /\ RegistryCut
          /\ UNCHANGED <<output, tail>>
    /\ UNCHANGED <<stop, starts>>

Work ==
    \/ \E resume \in ResumeFlags, stopping \in StopFlags : Open(resume, stopping)
    \/ Skip
    \/ Take
    \/ Finish
    \/ RejectSample
    \/ SelectMode
    \/ \E status \in {"success", "failure"} : Execute(status)
    \/ WriteRow
    \/ RecordOpen
    \/ RecordClose
    \/ RecordFail
    \/ NextOrStop

Next == Boot \/ Work \/ Crash

Spec == Init /\ [][Next]_vars

\* A live process keeps running; nothing makes its operator start another.
FairSpec == Spec /\ WF_vars(Work)
-------------------------------------------------------------------------------
\* The evaluation's promise, with the success rows as <<line, id>> pairs.
Ledger == INSTANCE EvaluationLedger WITH
    ledger <- {<<i, output[i].id>> : i \in {j \in DOMAIN output : output[j].status = "success"}}

\* Killed and restarted runs of one evaluation (resume on) keep every success
\* row where it is and never finish a sample twice: what _completed_success_ids
\* and the append mode of run_taskgraph_evaluation are for.
LedgerSpec == Ledger!Spec

\* A run that reaches the end of the dataset has a row for every sample in the
\* file, its own or an earlier run's, and when failures are not tolerated
\* every one of them is a success.
FinishedRunAccountsForAll ==
    exit = "done" =>
        \A i \in DOMAIN Dataset : \E j \in DOMAIN output :
            /\ output[j].id = Dataset[i]
            /\ stop => output[j].status = "success"

\* When tight crops are not configured, a question the registry knows is
\* executed in the mode and with the variant the registry has for it, whatever
\* the samples before it switched on (run, _apply_memory_variant).
KnownQuestionConsistent ==
    (pc = "exec" /\ Known(memRows, Current)) =>
        /\ mode = memRows[Current].mode
        /\ ~ ConfiguredTight => tight = (memRows[Current].variant = "tight")

\* A run that was started ends, however its samples fail, without the help of
\* its operator (the loop of run_taskgraph_evaluation).
EvaluationEnds == (pc # "down") ~> (pc = "down")
===============================================================================
