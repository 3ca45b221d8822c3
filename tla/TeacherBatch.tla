---------------------------- MODULE TeacherBatch ----------------------------
(***************************************************************************)
(* taskgraph_lab/generation/batch_generation.py, batch_parser.py and       *)
(* batch_prompt.py under tools/generate_teacher_batches.py: labels asked   *)
(* for in batches, over kills and restarts of the command.                 *)
(*                                                                         *)
(* Stage 1 takes the samples without a raw row in slices.  A slice is cut  *)
(* into chunks, each chunk is one request.  A reply whose envelope cannot  *)
(* be read gets its transport repaired and is then bisected; of a reply    *)
(* that can be read, every item stands for itself: accepted, rejected, or  *)
(* asked for once more with the other failures of the chunk.  The rows of  *)
(* a slice are appended when all its samples have an outcome.              *)
(*                                                                         *)
(* Abstracted: a sample is its position in the input, a task graph is what *)
(* validation makes of it, an envelope is readable or not, a provider call *)
(* with its retries answers or fails, and a torn line is one cut inside    *)
(* its JSON text.  The calls.jsonl trace, which nobody reads back, and     *)
(* run_manifest.json are left out.                                         *)
(***************************************************************************)
EXTENDS Naturals, Sequences, FiniteSets, SequencesExt

CONSTANTS
    N,             \* samples of the input file
    BatchSize,     \* batch.teacher_batch_size
    MaxSamples,    \* batch.teacher_batch_max_samples
    Cost,          \* the tokens estimated for each sample
    MaxTokens,     \* batch.teacher_batch_max_input_tokens
    Transport,     \* batch.max_transport_retries
    MaxReply,      \* bound: items of a reply
    MaxStarts,     \* bound: runs of the command
    MaxKills       \* bound: kills of the process

Samples == 1 .. N

ASSUME ConstantsAssumption ==
    /\ {N, BatchSize, MaxSamples, MaxTokens} \subseteq Nat \ {0}
    /\ Cost \in [Samples -> Nat]
    /\ {Transport, MaxReply, MaxStarts, MaxKills} \subseteq Nat

VARIABLES
    pc,        \* what the command does next
    samples,   \* run_stage1: the samples of this run, from the next slice on
    slice,     \* the samples of the current generate_teacher_batch
    stack,     \* subsets process_initial is still to be called with, next first
    request,   \* the request under way: [kind, subset, tries]
    outcome,   \* outcomes_by_id
    calls,     \* provider calls made for the slice
    unsaved,   \* samples of the slice whose rows are still to be appended
    rows,      \* rows of each sample in the raw and the label files
    status,    \* the status in the raw row
    torn,      \* files whose last line was cut by a kill
    damaged,   \* files with a line that cannot be parsed, the last one or not
    faults     \* [starts, kills]

vars == <<pc, samples, slice, stack, request, outcome, calls, unsaved, rows, status, torn,
          damaged, faults>>
files == <<rows, status, torn, damaged>>
work == <<samples, slice>>

LabelFiles == {"valid", "repaired", "rejected"}
Files == LabelFiles \cup {"raw"}
\* No command runs: it was killed or never started, it could not read its files at the
\* start or an exception ended it later, or it wrote its report.
Ended == {"stopped", "refused", "failed", "reported"}

NoRequest == [kind |-> "teacher", subset |-> <<>>, tries |-> 0]

Init ==
    /\ pc = "stopped"
    /\ samples = <<>>
    /\ slice = <<>>
    /\ stack = <<>>
    /\ request = NoRequest
    /\ outcome = [s \in Samples |-> "none"]
    /\ calls = 0
    /\ unsaved = <<>>
    /\ rows = [f \in Files |-> [s \in Samples |-> 0]]
    /\ status = [s \in Samples |-> "none"]
    /\ torn = {}
    /\ damaged = {}
    /\ faults = [starts |-> 0, kills |-> 0]

(*------------------------------- the parser -------------------------------*)
\* A sample id of none of the samples asked for.
Stranger == 0
Verdicts == {"valid", "repairable", "semantic"}

\* One result of a reply: a graph that validation will judge so, or a malformed one.
Items(subset) == [id : ToSet(subset) \cup {Stranger}, graph : Verdicts \cup {"malformed"}]

Replies(subset) == UNION {[1 .. n -> Items(subset)] : n \in 0 .. MaxReply}

\* valid_results: the item of s, when it is the only one with that id and well formed.
ItemsOf(reply, s) == {k \in DOMAIN reply : reply[k].id = s}

HasItem(reply, s) ==
    /\ Cardinality(ItemsOf(reply, s)) = 1
    /\ \A k \in ItemsOf(reply, s) : reply[k].graph # "malformed"

GraphOf(reply, s) ==
    IF HasItem(reply, s) THEN reply[CHOOSE k \in ItemsOf(reply, s) : TRUE].graph
                         ELSE "missing"

\* What the replies to a request about subset come to, for each of its samples.
Readings(subset) == {[s \in ToSet(subset) |-> GraphOf(reply, s)] : reply \in Replies(subset)}

(*------------------------------- the chunks -------------------------------*)
Tokens(chunk) == FoldLeft(LAMBDA sum, s : sum + Cost[s], 0, chunk)

ChunkLimit == IF BatchSize < MaxSamples THEN BatchSize ELSE MaxSamples

\* chunk_teacher_samples: a sample joins the current chunk unless that makes the chunk too
\* large; a full chunk is closed at once.
Chunked(acc, s) ==
    LET candidate == Append(acc.current, s)
        fits == \/ acc.current = <<>>
                \/ Len(candidate) <= ChunkLimit /\ Tokens(candidate) <= MaxTokens
        done == IF fits THEN acc.done ELSE Append(acc.done, acc.current)
        current == IF fits THEN candidate ELSE <<s>>
    IN IF Len(current) >= ChunkLimit
       THEN [done |-> Append(done, current), current |-> <<>>]
       ELSE [done |-> done, current |-> current]

Chunks(subset) ==
    LET after[k \in 0 .. Len(subset)] ==
            IF k = 0 THEN [done |-> <<>>, current |-> <<>>]
                     ELSE Chunked(after[k - 1], subset[k])
        end == after[Len(subset)]
    IN IF end.current = <<>> THEN end.done ELSE Append(end.done, end.current)

(*------------------------------- stage 1 -------------------------------*)
\* The elements of seq that are in which, in their order.
Kept(seq, which) ==
    LET after[k \in 0 .. Len(seq)] ==
            IF k = 0 THEN <<>>
            ELSE IF seq[k] \in which THEN Append(after[k - 1], seq[k]) ELSE after[k - 1]
    IN after[Len(seq)]

\* Mutant of Remaining: the samples without a label row.
RemainingUnlabelled ==
    Kept([k \in Samples |-> k],
         {s \in Samples : rows["valid"][s] + rows["repaired"][s] + rows["rejected"][s] = 0})

\* load_completed_ids: the samples with a raw row are not taken up again.
Remaining == Kept([k \in Samples |-> k], {s \in Samples : rows["raw"][s] = 0})

\* The command is run: a raw line it cannot parse refuses the run, otherwise it takes up
\* the remaining samples.
Start ==
    /\ pc \in Ended
    /\ faults.starts < MaxStarts
    /\ faults' = [faults EXCEPT !.starts = @ + 1]
    /\ IF "raw" \in damaged
       THEN /\ pc' = "refused"
            /\ UNCHANGED <<work, stack, request, outcome, calls, unsaved>>
       ELSE /\ pc' = "slice"
            /\ samples' = Remaining
            /\ slice' = <<>>
            /\ stack' = <<>>
            /\ request' = NoRequest
            /\ outcome' = [s \in Samples |-> "none"]
            /\ calls' = 0
            /\ unsaved' = <<>>
    /\ UNCHANGED files

\* Mutant of TakeSlice: a slice is taken when none is left.
TakeEmptySlice ==
    /\ pc = "slice"
    /\ LET size == IF Len(samples) < BatchSize THEN Len(samples) ELSE BatchSize
       IN /\ slice' = SubSeq(samples, 1, size)
          /\ samples' = SubSeq(samples, size + 1, Len(samples))
    /\ stack' = Chunks(slice')
    /\ calls' = 0
    /\ pc' = "initial"
    /\ UNCHANGED <<request, outcome, unsaved, files, faults>>

\* The next slice goes to generate_teacher_batch, which cuts it into chunks.
TakeSlice ==
    /\ pc = "slice"
    /\ samples # <<>>
    /\ LET size == IF Len(samples) < BatchSize THEN Len(samples) ELSE BatchSize
       IN /\ slice' = SubSeq(samples, 1, size)
          /\ samples' = SubSeq(samples, size + 1, Len(samples))
    /\ stack' = Chunks(slice')
    /\ calls' = 0
    /\ pc' = "initial"
    /\ UNCHANGED <<request, outcome, unsaved, files, faults>>

\* No sample is left: the report is written, unless a line of the files it summarises
\* cannot be parsed.
Report ==
    /\ pc = "slice"
    /\ samples = <<>>
    /\ pc' = IF damaged = {} THEN "reported" ELSE "failed"
    /\ UNCHANGED <<work, stack, request, outcome, calls, unsaved, files, faults>>

(*----------------------- generate_teacher_batch -----------------------*)
\* process_initial of the next subset: a teacher request for it.
ProcessInitial ==
    /\ pc = "initial"
    /\ stack # <<>>
    /\ request' = [kind |-> "teacher", subset |-> Head(stack), tries |-> 0]
    /\ stack' = Tail(stack)
    /\ pc' = "call"
    /\ UNCHANGED <<work, outcome, calls, unsaved, files, faults>>

\* Every sample of the slice has an outcome: the rows are written in the order of the slice.
ReturnOutcomes ==
    /\ pc = "initial"
    /\ stack = <<>>
    /\ unsaved' = slice
    /\ pc' = "raw"
    /\ UNCHANGED <<work, stack, request, outcome, calls, files, faults>>

\* The outcome of all the samples of the request that satisfy which.
Settle(which, kind) ==
    outcome' = [s \in Samples |-> IF s \in which THEN kind ELSE outcome[s]]

Requested == ToSet(request.subset)

\* Mutant of Bisect: the sample in the middle is in neither half.
BisectAround ==
    LET subset == request.subset
        middle == Len(subset) \div 2
    IN IF Len(subset) > 1
       THEN /\ stack' = <<SubSeq(subset, 1, middle),
                          SubSeq(subset, middle + 2, Len(subset))>> \o stack
            /\ UNCHANGED outcome
       ELSE /\ Settle(Requested, "rejected")
            /\ UNCHANGED stack

\* process_initial of a subset whose envelope could not be read: both halves of it, or
\* the rejection of its only sample.
Bisect ==
    LET subset == request.subset
        middle == Len(subset) \div 2
    IN IF Len(subset) > 1
       THEN /\ stack' = <<SubSeq(subset, 1, middle),
                          SubSeq(subset, middle + 1, Len(subset))>> \o stack
            /\ UNCHANGED outcome
       ELSE /\ Settle(Requested, "rejected")
            /\ UNCHANGED stack

\* The request has failed for good.
GiveUp ==
    /\ IF request.kind = "partial_repair"
       THEN Settle(Requested, "rejected") /\ UNCHANGED stack
       ELSE Bisect
    /\ request' = NoRequest
    /\ pc' = "initial"

\* A call fails: the first one of a teacher request fails its samples, that of a repair
\* rejects them, and one that was to repair the transport counts as a try.
CallFails ==
    /\ pc = "call"
    /\ calls' = calls + 1
    /\ IF request.tries = 0 /\ request.kind = "teacher"
       THEN /\ Settle(Requested, "api_failed")
            /\ request' = NoRequest
            /\ pc' = "initial"
            /\ UNCHANGED stack
       ELSE IF request.tries \in 1 .. Transport - 1
       THEN /\ request' = [request EXCEPT !.tries = @ + 1]
            /\ UNCHANGED <<outcome, stack, pc>>
       ELSE GiveUp
    /\ UNCHANGED <<work, unsaved, files, faults>>

\* Mutant of Catastrophic: one transport repair more than configured.
CatastrophicOnceMore ==
    /\ pc = "call"
    /\ calls' = calls + 1
    /\ IF request.tries <= Transport
       THEN /\ request' = [request EXCEPT !.tries = @ + 1]
            /\ UNCHANGED <<outcome, stack, pc>>
       ELSE GiveUp
    /\ UNCHANGED <<work, unsaved, files, faults>>

\* A reply whose envelope cannot be read: the transport is repaired while tries are left.
Catastrophic ==
    /\ pc = "call"
    /\ calls' = calls + 1
    /\ IF request.tries < Transport
       THEN /\ request' = [request EXCEPT !.tries = @ + 1]
            /\ UNCHANGED <<outcome, stack, pc>>
       ELSE GiveUp
    /\ UNCHANGED <<work, unsaved, files, faults>>

\* process_parsed of a teacher request: its samples are accepted, rejected or asked for
\* in one partial repair.
Parsed ==
    /\ pc = "call"
    /\ request.kind = "teacher"
    /\ calls' = calls + 1
    /\ \E graph \in Readings(request.subset) :
         LET failed == Kept(request.subset,
                            {s \in Requested : graph[s] \in {"missing", "repairable"}})
         IN /\ outcome' = [s \in Samples |->
                 IF s \notin Requested THEN outcome[s]
                 ELSE IF graph[s] = "valid" THEN "valid"
                 ELSE IF graph[s] = "semantic" THEN "rejected"
                 ELSE outcome[s]]
            /\ request' = IF failed = <<>> THEN NoRequest
                          ELSE [kind |-> "partial_repair", subset |-> failed, tries |-> 0]
            /\ pc' = IF failed = <<>> THEN "initial" ELSE "call"
    /\ UNCHANGED <<work, stack, unsaved, files, faults>>

\* Mutant of RepairParsed: what is not repaired is asked for again.
RepairParsedAgain ==
    /\ pc = "call"
    /\ request.kind = "partial_repair"
    /\ calls' = calls + 1
    /\ \E graph \in Readings(request.subset) :
         LET failed == Kept(request.subset, {s \in Requested : graph[s] # "valid"})
         IN /\ outcome' = [s \in Samples |->
                 IF s \in Requested \ ToSet(failed) THEN "repaired" ELSE outcome[s]]
            /\ request' = IF failed = <<>> THEN NoRequest
                          ELSE [request EXCEPT !.subset = failed, !.tries = 0]
            /\ pc' = IF failed = <<>> THEN "initial" ELSE "call"
    /\ UNCHANGED <<work, stack, unsaved, files, faults>>

\* The reply to a partial repair: accepted or rejected.
RepairParsed ==
    /\ pc = "call"
    /\ request.kind = "partial_repair"
    /\ calls' = calls + 1
    /\ \E graph \in Readings(request.subset) :
         outcome' = [s \in Samples |->
             IF s \notin Requested THEN outcome[s]
             ELSE IF graph[s] = "valid" THEN "repaired" ELSE "rejected"]
    /\ request' = NoRequest
    /\ pc' = "initial"
    /\ UNCHANGED <<work, stack, unsaved, files, faults>>

\* An exception while an item of a reply is processed is not caught on the way up: it ends
\* the run, with nothing of the slice written.
ProcessingRaises ==
    /\ pc = "call"
    /\ \E graph \in Readings(request.subset) : \E s \in Requested : graph[s] # "missing"
    /\ calls' = calls + 1
    /\ pc' = "failed"
    /\ UNCHANGED <<work, stack, request, outcome, unsaved, files, faults>>

(*------------------------------- the rows -------------------------------*)
\* append_jsonl: a row that follows a torn line becomes part of that line and is lost.
AppendRow(f, s) ==
    IF f \in torn
    THEN torn' = torn \ {f} /\ UNCHANGED rows
    ELSE rows' = [rows EXCEPT ![f][s] = @ + 1] /\ UNCHANGED torn

AppendRaw ==
    /\ pc = "raw"
    /\ unsaved # <<>>
    /\ LET s == Head(unsaved)
           labelled == outcome[s] \in LabelFiles
       IN /\ AppendRow("raw", s)
          /\ status' = [status EXCEPT ![s] = IF labelled THEN "generated" ELSE "api_failed"]
          /\ IF labelled THEN pc' = "label" /\ UNCHANGED unsaved
                         ELSE pc' = "raw" /\ unsaved' = Tail(unsaved)
    /\ UNCHANGED <<work, stack, request, outcome, calls, damaged, faults>>

\* Mutant of AppendLabel: a rejected candidate gets no row of its own.
AppendAcceptedLabel ==
    /\ pc = "label"
    /\ LET s == Head(unsaved)
       IN IF outcome[s] = "rejected" THEN UNCHANGED <<rows, torn>>
                                     ELSE AppendRow(outcome[s], s)
    /\ unsaved' = Tail(unsaved)
    /\ pc' = "raw"
    /\ UNCHANGED <<work, stack, request, outcome, calls, status, damaged, faults>>

AppendLabel ==
    /\ pc = "label"
    /\ AppendRow(outcome[Head(unsaved)], Head(unsaved))
    /\ unsaved' = Tail(unsaved)
    /\ pc' = "raw"
    /\ UNCHANGED <<work, stack, request, outcome, calls, status, damaged, faults>>

\* The slice is persisted.
SlicePersisted ==
    /\ pc = "raw"
    /\ unsaved = <<>>
    /\ pc' = "slice"
    /\ UNCHANGED <<work, stack, request, outcome, calls, unsaved, files, faults>>

\* The file a kill may cut a line of.
Writing ==
    IF pc = "raw" /\ unsaved # <<>> THEN {"raw"}
    ELSE IF pc = "label" THEN {outcome[Head(unsaved)]} ELSE {}

\* The process is killed or interrupted: only the files remain, and the line it was
\* writing may be cut.
Kill ==
    /\ pc \notin Ended
    /\ faults.kills < MaxKills
    /\ faults' = [faults EXCEPT !.kills = @ + 1]
    /\ \E cut \in SUBSET Writing :
         /\ torn' = torn \cup cut
         /\ damaged' = damaged \cup cut
    /\ pc' = "stopped"
    /\ UNCHANGED <<work, stack, request, outcome, calls, unsaved, rows, status>>

Step ==
    \/ TakeSlice \/ Report \/ ProcessInitial \/ ReturnOutcomes
    \/ CallFails \/ Catastrophic \/ Parsed \/ RepairParsed \/ ProcessingRaises
    \/ AppendRaw \/ AppendLabel \/ SlicePersisted

Next == Start \/ Kill \/ Step

Spec == Init /\ [][Next]_vars

\* A call answers or fails and the command goes on; nothing makes anyone run or kill it.
FairSpec == Spec /\ WF_vars(Step)

(*------------------------------ properties ------------------------------*)
TypeOK ==
    /\ pc \in Ended \cup {"slice", "initial", "call", "raw", "label"}
    /\ {samples, slice, unsaved} \subseteq Seq(Samples)
    /\ stack \in Seq(Seq(Samples))
    /\ request \in [kind : {"teacher", "partial_repair"}, subset : Seq(Samples),
                    tries : 0 .. Transport]
    /\ outcome \in [Samples -> LabelFiles \cup {"none", "api_failed"}]
    /\ calls \in Nat
    /\ rows \in [Files -> [Samples -> Nat]]
    /\ status \in [Samples -> {"none", "generated", "api_failed"}]
    /\ torn \subseteq Files
    /\ damaged \subseteq Files
    /\ faults \in [starts : Nat, kills : Nat]

\* The requests, under way (0) or to come, that ask for sample s.
AskedIn(s) ==
    {k \in DOMAIN stack : s \in ToSet(stack[k])}
        \cup (IF pc = "call" /\ s \in Requested THEN {0} ELSE {})

\* Through bisections and repairs, a sample of the slice has an outcome or is in exactly
\* one request: none gets lost on the way, which would end the slice without its outcome,
\* and none that has its outcome is asked for again.
SliceAccounted ==
    /\ pc \in {"initial", "call"} =>
          \A s \in ToSet(slice) :
              Cardinality(AskedIn(s)) = IF outcome[s] = "none" THEN 1 ELSE 0
    /\ pc \in {"raw", "label"} => \A s \in ToSet(slice) : outcome[s] # "none"

\* A slice costs at most 3n - 1 requests, each with its transport repairs, whatever the
\* replies are: 2n - 1 subsets of a bisection down to single samples, and n repairs.
CallsBounded ==
    slice # <<>> => calls <= (Transport + 1) * (3 * Len(slice) - 1)

\* Every run of the command comes to an end, whatever the teacher replies.
CommandEnds == pc \notin Ended ~> pc \in Ended

\* Samples whose raw row says generated, that no label file shows, and that nobody is
\* about to write: no run looks at them again.
Lost == {s \in Samples : /\ rows["raw"][s] = 1
                         /\ status[s] = "generated"
                         /\ \A f \in LabelFiles : rows[f][s] = 0
                         /\ ~(pc = "label" /\ s = Head(unsaved))}

\* A kill costs at most two labels: the one being written and, when it cut the line, the
\* one that a later run appends to it.  Nothing else that ends a run costs any.
LossBounded == Cardinality(Lost) <= 2 * faults.kills

(*------------------------------ refinement ------------------------------*)
Entry(s) ==
    IF \E f \in Files : rows[f][s] > 1 THEN "repeated"
    ELSE IF rows["raw"][s] = 0
    THEN IF \E f \in LabelFiles : rows[f][s] > 0 THEN "unrecorded" ELSE "open"
    ELSE IF \E f \in LabelFiles : rows[f][s] > 0
    THEN CHOOSE f \in LabelFiles : rows[f][s] > 0
    ELSE status[s]

Entries == [s \in Samples |-> Entry(s)]
Finished == pc = "reported"

Ledger == INSTANCE LabelLedger WITH entry <- Entries, finished <- Finished

\* The files stage 1 keeps are the same ledger as those of generate.py: over kills, cut
\* lines, exceptions and restarts every sample is recorded at most once and labelled at
\* most once after that, and the report is written when no sample is left.
KeepsLedger == Ledger!Spec
=============================================================================
