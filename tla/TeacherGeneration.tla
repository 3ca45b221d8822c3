-------------------------- MODULE TeacherGeneration --------------------------
(***************************************************************************)
(* taskgraph_lab/generation/generate.py: run_generation, its thread pool,  *)
(* its rate limiter and its output files, over restarts of the command.    *)
(*                                                                         *)
(* The main thread reads samples, submits each to the pool, and whenever   *)
(* 2 * concurrency futures are pending waits for some to finish and        *)
(* appends their rows: the raw row, then the label row, then the review    *)
(* row.  A run skips the samples with a raw row.  Pool threads call the    *)
(* teacher through a shared sliding-window limiter, with retries, at most  *)
(* one repair and an optional review.                                      *)
(*                                                                         *)
(* Abstracted: a sample is its position in the input (ids are distinct),   *)
(* a reply is its verdict, a sleep is no step (a thread that may not       *)
(* acquire stays where it is), time is the age of the limiter's entries,   *)
(* and a torn line is one cut inside its JSON text.                        *)
(***************************************************************************)
EXTENDS Naturals, Sequences, FiniteSets

CONSTANTS
    N,               \* samples of the input file
    Settings,        \* RuntimeSettings a run may have: [concurrency, repair, review, bad]
    MaxRetries,      \* runtime.max_retries
    Limit,           \* runtime.requests_per_minute
    Window,          \* the limiter's 60 seconds, in clock ticks
    MaxStarts,       \* bound: runs of the command
    MaxInterrupts,   \* bound: keyboard interrupts
    MaxKills         \* bound: kills of the process

Samples == 1 .. N

ASSUME ConstantsAssumption ==
    /\ {N, MaxRetries, Limit, Window} \subseteq Nat \ {0}
    /\ {MaxStarts, MaxInterrupts, MaxKills} \subseteq Nat
    /\ Settings \subseteq [concurrency : Nat \ {0}, repair : BOOLEAN, review : BOOLEAN,
                           bad : 0 .. N]

VARIABLES
    settings,   \* the settings of the command and the input's invalid line (0: none)
    main,       \* the main thread: [pc, next, completed, batch, item]
    job,        \* the future of each sample
    rows,       \* rows[f][s]: readable rows of sample s in file f
    status,     \* the status written in the raw row of each sample
    torn,       \* files whose last line was cut by a kill
    calls,      \* RateLimiter._calls, as ages, oldest first
    granted,    \* history: ages of the calls of this process in the last window
    faults,     \* starts, interrupts and kills so far
    ended       \* how the last run ended

vars == <<settings, main, job, rows, status, torn, calls, granted, faults, ended>>
limiter == <<calls, granted>>
files == <<rows, status, torn>>

Files == {"raw", "valid", "repaired", "rejected", "reviews"}
LabelFiles == {"valid", "repaired", "rejected"}
Statuses == {"generated", "api_failed", "processing_failed"}
Endings == {"none", "finished", "interrupted", "failed", "killed", "refused"}

(*------------------------------ the futures ------------------------------*)
NoJob == [at |-> "none", phase |-> "generate", attempt |-> 1,
          status |-> "generated", label |-> "none", review |-> FALSE]

Jobs == [at : {"none", "queued", "acquire", "call", "done"},
         phase : {"generate", "repair", "review"},
         attempt : 1 .. MaxRetries,
         status : Statuses,
         label : LabelFiles \cup {"none"},
         review : BOOLEAN]

At(where) == {s \in Samples : job[s].at \in where}
Running == At({"acquire", "call"})
Unfinished == At({"queued", "acquire", "call"})
Pending == At({"queued", "acquire", "call", "done"}) \ main.batch

(*---------------------------- the main thread ----------------------------*)
\* Where the body of the try statement is when a KeyboardInterrupt may come.
InTry == {"feed", "wait", "take", "label", "review"}

MainStates == [pc : InTry \cup {"stopped", "failing", "interrupted"},
               next : 1 .. N + 1,
               completed : SUBSET Samples,
               batch : SUBSET Samples,
               item : Samples]

Init ==
    /\ settings \in Settings
    /\ main = [pc |-> "stopped", next |-> 1, completed |-> {}, batch |-> {}, item |-> 1]
    /\ job = [s \in Samples |-> NoJob]
    /\ rows = [f \in Files |-> [s \in Samples |-> 0]]
    /\ status = [s \in Samples |-> "none"]
    /\ torn = {}
    /\ calls = <<>>
    /\ granted = <<>>
    /\ faults = [starts |-> 0, interrupts |-> 0, kills |-> 0]
    /\ ended = "none"

\* Mutant of CompletedIds: the samples with a row of a label file.
CompletedLabelled ==
    {s \in Samples : rows["valid"][s] + rows["repaired"][s] + rows["rejected"][s] > 0}

\* load_completed_ids: every id with a row in the raw output, whatever its status.
CompletedIds == {s \in Samples : rows["raw"][s] > 0}

\* The command is run: a line it cannot parse refuses the run, otherwise a fresh pool,
\* a fresh limiter and the completed ids are set up.
Start ==
    /\ main.pc = "stopped"
    /\ faults.starts < MaxStarts
    /\ faults' = [faults EXCEPT !.starts = @ + 1]
    /\ IF "raw" \in torn
       THEN /\ ended' = "refused"
            /\ UNCHANGED <<main, job, limiter>>
       ELSE /\ main' = [main EXCEPT !.pc = "feed", !.next = 1, !.completed = CompletedIds,
                                    !.batch = {}]
            /\ job' = [s \in Samples |-> NoJob]
            /\ calls' = <<>>
            /\ granted' = <<>>
            /\ ended' = "none"
    /\ UNCHANGED <<settings, files>>

\* Mutant of Submit: nothing is waited for before the input is exhausted.
SubmitAll ==
    /\ main.pc = "feed"
    /\ main.next <= N
    /\ main.next # settings.bad
    /\ main' = [main EXCEPT !.next = @ + 1]
    /\ job' = IF main.next \in main.completed THEN job
              ELSE [job EXCEPT ![main.next] = [NoJob EXCEPT !.at = "queued"]]
    /\ UNCHANGED <<settings, files, limiter, faults, ended>>

\* The next sample of the input: skipped when completed, submitted otherwise; the thread
\* goes on to wait when 2 * concurrency futures are pending.
Submit ==
    /\ main.pc = "feed"
    /\ main.next <= N
    /\ main.next # settings.bad
    /\ IF main.next \in main.completed
       THEN /\ main' = [main EXCEPT !.next = @ + 1]
            /\ UNCHANGED job
       ELSE /\ job' = [job EXCEPT ![main.next] = [NoJob EXCEPT !.at = "queued"]]
            /\ main' = [main EXCEPT
                          !.next = @ + 1,
                          !.pc = IF Cardinality(Pending) + 1 >= 2 * settings.concurrency
                                 THEN "wait" ELSE "feed"]
    /\ UNCHANGED <<settings, files, limiter, faults, ended>>

\* iter_samples raises at an invalid line; the pool is shut down with every pending
\* future still run to its end, and none of their outcomes is looked at.
BadInput ==
    /\ main.pc = "feed"
    /\ main.next = settings.bad
    /\ main' = [main EXCEPT !.pc = "failing"]
    /\ UNCHANGED <<settings, job, files, limiter, faults, ended>>

\* The input is exhausted: wait while futures are pending, return when none is.
EndOfInput ==
    /\ main.pc = "feed"
    /\ main.next > N
    /\ IF Pending = {}
       THEN /\ main' = [main EXCEPT !.pc = "stopped"]
            /\ ended' = "finished"
       ELSE /\ main' = [main EXCEPT !.pc = "wait"]
            /\ UNCHANGED ended
    /\ UNCHANGED <<settings, job, files, limiter, faults>>

\* wait(pending, FIRST_COMPLETED): every future that is done by then leaves pending.
Collect ==
    /\ main.pc = "wait"
    /\ Pending \cap At({"done"}) # {}
    /\ main' = [main EXCEPT !.pc = "take", !.batch = Pending \cap At({"done"})]
    /\ UNCHANGED <<settings, job, files, limiter, faults, ended>>

\* append_jsonl: a row that follows a torn line becomes part of that line and is lost.
AppendRow(f, s) ==
    IF f \in torn
    THEN /\ torn' = torn \ {f}
         /\ UNCHANGED rows
    ELSE /\ rows' = [rows EXCEPT ![f][s] = @ + 1]
         /\ UNCHANGED torn

\* Where consume goes once the outcome of the current item is written.
AfterItem(batch) == IF batch = {} THEN "feed" ELSE "take"

\* Mutant of AppendRaw: a rejected candidate gets no row of its own.
AppendRawOnly ==
    /\ main.pc = "take"
    /\ \E s \in main.batch :
         LET labelled == job[s].label \in {"valid", "repaired"}
         IN /\ AppendRow("raw", s)
            /\ status' = [status EXCEPT ![s] = job[s].status]
            /\ main' = [main EXCEPT !.item = s, !.batch = @ \ {s},
                                    !.pc = IF labelled THEN "label"
                                           ELSE AfterItem(main.batch \ {s})]
            /\ job' = IF labelled THEN job ELSE [job EXCEPT ![s] = NoJob]
    /\ UNCHANGED <<settings, limiter, faults, ended>>

AppendRaw ==
    /\ main.pc = "take"
    /\ \E s \in main.batch :
         /\ AppendRow("raw", s)
         /\ status' = [status EXCEPT ![s] = job[s].status]
         /\ main' = [main EXCEPT !.item = s, !.batch = @ \ {s},
                                 !.pc = IF job[s].label # "none" THEN "label"
                                        ELSE AfterItem(main.batch \ {s})]
         /\ job' = IF job[s].label # "none" THEN job ELSE [job EXCEPT ![s] = NoJob]
    /\ UNCHANGED <<settings, limiter, faults, ended>>

AppendLabel ==
    /\ main.pc = "label"
    /\ AppendRow(job[main.item].label, main.item)
    /\ IF job[main.item].review
       THEN /\ main' = [main EXCEPT !.pc = "review"]
            /\ UNCHANGED job
       ELSE /\ main' = [main EXCEPT !.pc = AfterItem(main.batch)]
            /\ job' = [job EXCEPT ![main.item] = NoJob]
    /\ UNCHANGED <<settings, status, limiter, faults, ended>>

AppendReview ==
    /\ main.pc = "review"
    /\ AppendRow("reviews", main.item)
    /\ main' = [main EXCEPT !.pc = AfterItem(main.batch)]
    /\ job' = [job EXCEPT ![main.item] = NoJob]
    /\ UNCHANGED <<settings, status, limiter, faults, ended>>

(*---------------------------- the pool threads ----------------------------*)
\* A thread of the pool takes the oldest queued sample.
Begin(s) ==
    /\ job[s].at = "queued"
    /\ \A r \in At({"queued"}) : s <= r
    /\ Cardinality(Running) < settings.concurrency
    /\ job' = [job EXCEPT ![s].at = "acquire"]
    /\ UNCHANGED <<settings, main, files, limiter, faults, ended>>

\* RateLimiter.acquire: calls older than the window are dropped from the head, as long as
\* there is one at the head, and the thread goes on when fewer than the limit are left.
Recent(ages) ==
    LET old == CHOOSE k \in 0 .. Len(ages) :
                   /\ \A j \in 1 .. k : ages[j] >= Window
                   /\ k < Len(ages) => ages[k + 1] < Window
    IN SubSeq(ages, old + 1, Len(ages))

\* Mutant of Acquire: the limit is compared one too late.
AcquireOneMore(s) ==
    /\ job[s].at = "acquire"
    /\ Len(Recent(calls)) <= Limit
    /\ calls' = Append(Recent(calls), 0)
    /\ granted' = Append(granted, 0)
    /\ job' = [job EXCEPT ![s].at = "call"]
    /\ UNCHANGED <<settings, main, files, faults, ended>>

\* Mutant of Acquire: nothing is ever dropped from the window.
AcquireStale(s) ==
    /\ job[s].at = "acquire"
    /\ Len(calls) < Limit
    /\ calls' = Append(calls, 0)
    /\ granted' = Append(granted, 0)
    /\ job' = [job EXCEPT ![s].at = "call"]
    /\ UNCHANGED <<settings, main, files, faults, ended>>

Acquire(s) ==
    /\ job[s].at = "acquire"
    /\ Len(Recent(calls)) < Limit
    /\ calls' = Append(Recent(calls), 0)
    /\ granted' = Append(granted, 0)
    /\ job' = [job EXCEPT ![s].at = "call"]
    /\ UNCHANGED <<settings, main, files, faults, ended>>

\* The job of s with its outcome: what process_sample_safely returns.
Done(s, outcome, label, reviewed) ==
    job' = [job EXCEPT ![s] = [NoJob EXCEPT !.at = "done", !.status = outcome,
                                            !.label = label, !.review = reviewed]]

\* The next request about s, which starts by acquiring.
Request(s, phase, label) ==
    job' = [job EXCEPT ![s] = [NoJob EXCEPT !.at = "acquire", !.phase = phase,
                                            !.label = label]]

\* An accepted label is reviewed when the settings say so.
Accept(s, label) ==
    IF settings.review THEN Request(s, "review", label)
                       ELSE Done(s, "generated", label, FALSE)

\* The call raises: another attempt after a pause, or the phase ends without a reply:
\* no row but the raw one, a rejection, or a review that failed.
CallRaises(s) ==
    /\ job[s].at = "call"
    /\ IF job[s].attempt < MaxRetries
       THEN job' = [job EXCEPT ![s].at = "acquire", ![s].attempt = @ + 1]
       ELSE \/ job[s].phase = "generate" /\ Done(s, "api_failed", "none", FALSE)
            \/ job[s].phase = "repair" /\ Done(s, "generated", "rejected", FALSE)
            \/ job[s].phase = "review" /\ Done(s, "generated", job[s].label, TRUE)
    /\ UNCHANGED <<settings, main, files, limiter, faults, ended>>

\* The first reply: accepted, repaired when the defect and the settings allow, rejected
\* otherwise, or an exception in its processing.
Generated(s) ==
    /\ job[s].at = "call"
    /\ job[s].phase = "generate"
    /\ \/ Accept(s, "valid")
       \/ settings.repair /\ Request(s, "repair", "none")
       \/ Done(s, "generated", "rejected", FALSE)
       \/ Done(s, "processing_failed", "none", FALSE)
    /\ UNCHANGED <<settings, main, files, limiter, faults, ended>>

\* The reply to the repair prompt: an exception in validating it is caught there.
Repaired(s) ==
    /\ job[s].at = "call"
    /\ job[s].phase = "repair"
    /\ \/ Accept(s, "repaired")
       \/ Done(s, "generated", "rejected", FALSE)
       \/ Done(s, "processing_failed", "none", FALSE)
    /\ UNCHANGED <<settings, main, files, limiter, faults, ended>>

\* The reply to the review prompt: a verdict or a review that failed, a row either way.
Reviewed(s) ==
    /\ job[s].at = "call"
    /\ job[s].phase = "review"
    /\ Done(s, "generated", job[s].label, TRUE)
    /\ UNCHANGED <<settings, main, files, limiter, faults, ended>>

(*------------------------------ the clock ------------------------------*)
\* Mutant of Aged: an age without a bound.
AgedForever(age) == age + 1

Aged(age) == IF age < Window THEN age + 1 ELSE Window

Tick ==
    /\ \E s \in Samples : job[s].at = "acquire"
    /\ calls' = [k \in DOMAIN calls |-> Aged(calls[k])]
    /\ granted' = Recent([k \in DOMAIN granted |-> granted[k] + 1])
    /\ UNCHANGED <<settings, main, job, files, faults, ended>>

(*---------------------- the ways a run comes to an end ----------------------*)
\* KeyboardInterrupt in the main thread: queued futures are cancelled, running ones go on,
\* and the futures that are done stay unread.
Interrupt ==
    /\ main.pc \in InTry
    /\ faults.interrupts < MaxInterrupts
    /\ faults' = [faults EXCEPT !.interrupts = @ + 1]
    /\ main' = [main EXCEPT !.pc = "interrupted"]
    /\ job' = [s \in Samples |-> IF job[s].at = "queued" THEN NoJob ELSE job[s]]
    /\ UNCHANGED <<settings, files, limiter, ended>>

\* The process ends once the threads of the pool have: after an interrupt the running
\* samples, after an invalid line every pending one.
Exit ==
    /\ main.pc \in {"interrupted", "failing"}
    /\ Unfinished = {}
    /\ main' = [main EXCEPT !.pc = "stopped"]
    /\ ended' = IF main.pc = "failing" THEN "failed" ELSE "interrupted"
    /\ UNCHANGED <<settings, job, files, limiter, faults>>

\* The file a kill may cut a line of.
Writing ==
    IF main.pc = "take" THEN {"raw"}
    ELSE IF main.pc = "label" THEN {job[main.item].label}
    ELSE IF main.pc = "review" THEN {"reviews"} ELSE {}

\* The process is killed: its memory is gone, the line it was writing may be cut.
Kill ==
    /\ main.pc # "stopped"
    /\ faults.kills < MaxKills
    /\ faults' = [faults EXCEPT !.kills = @ + 1]
    /\ \E cut \in SUBSET Writing : torn' = torn \cup cut
    /\ main' = [main EXCEPT !.pc = "stopped", !.batch = {}]
    /\ job' = [s \in Samples |-> NoJob]
    /\ ended' = "killed"
    /\ UNCHANGED <<settings, rows, status, limiter>>

Main == Submit \/ BadInput \/ EndOfInput \/ Collect \/ AppendRaw \/ AppendLabel
            \/ AppendReview \/ Exit
Thread(s) == Begin(s) \/ Acquire(s) \/ CallRaises(s) \/ Generated(s) \/ Repaired(s)
                \/ Reviewed(s)

Next ==
    \/ Start \/ Submit \/ BadInput \/ EndOfInput \/ Collect
    \/ AppendRaw \/ AppendLabel \/ AppendReview \/ Tick \/ Interrupt \/ Exit \/ Kill
    \/ \E s \in Samples : \/ Begin(s) \/ Acquire(s) \/ CallRaises(s)
                          \/ Generated(s) \/ Repaired(s) \/ Reviewed(s)

Spec == Init /\ [][Next]_vars

\* The main thread and the pool threads are scheduled, a call returns or raises (it has a
\* timeout), and time passes.  Nothing makes a user run, interrupt or kill the command.
Fairness ==
    /\ WF_vars(Main) /\ WF_vars(Tick)
    /\ \A s \in Samples : WF_vars(Thread(s))

FairSpec == Spec /\ Fairness

(*------------------------------ properties ------------------------------*)
TypeOK ==
    /\ settings \in Settings
    /\ main \in MainStates
    /\ job \in [Samples -> Jobs]
    /\ rows \in [Files -> [Samples -> Nat]]
    /\ status \in [Samples -> Statuses \cup {"none"}]
    /\ torn \subseteq Files
    /\ calls \in Seq(0 .. Window)
    /\ granted \in Seq(0 .. Window)
    /\ faults \in [starts : Nat, interrupts : Nat, kills : Nat]
    /\ ended \in Endings

LabelRows(s) == rows["valid"][s] + rows["repaired"][s] + rows["rejected"][s]

\* Samples whose raw row says generated, that no label file shows, and that nobody is
\* about to write: no run looks at them again.
Lost == {s \in Samples : /\ rows["raw"][s] = 1
                         /\ status[s] = "generated"
                         /\ LabelRows(s) = 0
                         /\ ~(main.pc = "label" /\ main.item = s)}

\* An interrupt costs at most the label being written; a kill at most that one and the
\* one whose row is later appended to the line it cut.
LossBounded ==
    Cardinality(Lost) <= faults.interrupts + 2 * faults.kills

\* However a run stops, the samples it has submitted and not recorded, each of them paid
\* for and submitted again by the next run, are at most 2 * concurrency.
UnsavedBounded ==
    Cardinality({s \in Samples : s < main.next /\ rows["raw"][s] = 0})
        <= 2 * settings.concurrency

\* In no window do the threads of a process make more calls than requests_per_minute.
RateLimited == Len(granted) <= Limit

\* Every run comes to an end, with an interrupt or without: no wait for a future that
\* nobody runs, no thread that never gets its turn at the limiter.
RunsEnd == main.pc # "stopped" ~> main.pc = "stopped"

\* README.md: the same command resumes safely after interruption.  A finished run leaves
\* a label for every sample that was generated.
ResumesSafely == ended = "finished" => Lost = {}

(*------------------------------ refinement ------------------------------*)
Entry(s) ==
    IF \E f \in Files : rows[f][s] > 1 THEN "repeated"
    ELSE IF rows["raw"][s] = 0
    THEN IF LabelRows(s) + rows["reviews"][s] = 0 THEN "open" ELSE "unrecorded"
    ELSE IF \E f \in LabelFiles : rows[f][s] > 0
    THEN CHOOSE f \in LabelFiles : rows[f][s] > 0
    ELSE status[s]

Entries == [s \in Samples |-> Entry(s)]
Finished == ended = "finished"

Ledger == INSTANCE LabelLedger WITH entry <- Entries, finished <- Finished

\* However often the command is interrupted, killed and run again, its files are a ledger:
\* no sample is recorded, labelled or reviewed twice, none is labelled or reviewed that is
\* not recorded as generated, and a run that finishes leaves no sample unrecorded.
KeepsLedger == Ledger!Spec
=============================================================================
