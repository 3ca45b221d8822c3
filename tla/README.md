# A TLA+ model of sat-rs-vlm

sat-rs-vlm answers questions about remote sensing images. A *task graph* of
operators (locate, select, count, relate, reason) is planned for a question and
executed over an append-only store; detectors run in tiles and in worker
processes; an evaluation command runs a whole dataset and can be killed and
resumed; and the weights of the adapter are kept in three replicas that are
checked between batches. Beside the running system, two commands ask a paid teacher
model for training labels, and a sweep trains and evaluates a family of adapters:
both run for days and are meant to be resumed. This directory models the parts of it that hold state,
checks them with TLC and proves the main safety properties with TLAPS.

All paths below are relative to the repository. `sat_rs_vlm` stands for
`src/sat_rs_vlm`.

## Inventory

| Component | State | Operations | Hard behaviour | Must hold |
|---|---|---|---|---|
| Evaluation runner and runtime memory (`taskgraph/evaluation_runner.py`, `runtime_memory.py`, part of `runtime.py`, `scripts/taskgraph/evaluate_runtime.py`) | output JSONL, registry JSONL, finished ids, position, tight crop switch | start, resume, skip, run a sample, write row, record, stop, summary | kill between any two steps, cut rows, a registry that cannot be written, a switch that outlives its sample | no success lost or doubled, every sample accounted for, a known question runs as recorded |
| Tiled detector prefetch (`integrations/detectors/tiled.py`, `tile_transport.py`) | shared tile iterator, one lookahead per lane, temporary files, results | draw, prepare, infer, release, join, collect | lanes and CPU threads interleave, preparation or inference fails with a lookahead under way | each tile once, all files released, at most two per lane, the call ends |
| LAE-DINO sidecar pool (`integrations/detectors/lae_dino_sidecar.py`, `scripts/integrations/lae_dino_worker.py`) | queue of clients, worker processes, their pipes | predict, start, exchange, put back, preload, close | workers fail to load, exit, die while answering; requests wait for clients | no client lost or shared, no answer read by another request, everyone served |
| Adapter reliability guard (`models/reliability/adapter_redundancy.py`, `recovery.py`, `checksum.py`, `deployment_guard.py`) | working, warm and golden replicas, batch counter | verify, choose a source, recover a file, verify again, block | a file changes after it was verified, a recovery fails half way, a kill | a damaged file is served for less than one interval, nothing is made worse |
| Task graph executor (`taskgraph/schema.py`, `contracts.py`, `execution_plan.py`, `executor.py`, `store.py`, `runtime_types.py`) | nodes, store, trace | validate, plan the fusion, materialize and check inputs, execute, fall back, check the output, store, trace | selections that are empty, tied, undecided or in error; outputs a contract refuses; a fused node whose value changes its type | nodes in order, no undecided selection flows on, a replaced output is read by nobody |
| End of the graph handler (`taskgraph/runtime.py`, `choice.py`) | final sources, evidence used, trace | unwrap the sources, use a computed score, ask the model, fall back to the images | an error during the handling of an error | a choice survives unusable evidence, a failure keeps its trace |
| Teacher label generation (`src/taskgraph_lab/generation/generate.py`) | pool of futures, sliding window of calls, raw, label and review files | submit, acquire, call, retry, repair, review, append rows, interrupt, kill, resume | threads share a limiter, futures end in any order, an interrupt or a kill between two rows, a line cut by a kill | no sample recorded or labelled twice, few calls paid for twice, the provider's limit kept, the run ends |
| Batch teacher generation (`batch_generation.py`, `batch_parser.py`, `batch_prompt.py`, `tools/generate_teacher_batches.py`) | slices, chunks, stack of subsets, outcomes, files | request, repair the transport, bisect, repair the items, append rows, kill, resume | replies that drop, repeat or invent ids, calls that fail in the middle of a bisection, restarts | no sample of a slice lost or asked for twice, bounded calls, the command ends |
| Learning rate and merger sweep (`scripts/training/run_autodl_qwen3vl_4b_lr_merger_sweep.py`, `training/lr_merger_sweep.py`) | status file, checkpoint, evaluation and log of every experiment, effective batch size | train, evaluate, analyse, select, fall back on out of memory, kill, resume, retry | a resume trusts what a kill left behind; a batch size that changes on the way; a selection computed anew | finished experiments stay, the status files are true, phase B has one learning rate |
| Proposal and retrieval caches (`integrations/detectors/cache.py`, `integrations/retrievers/cache.py`, the LRU in `tiled.py`) | files and a bounded map | load, store by rename, evict | concurrent writers of one key, an image replaced under its key | a reader never sees a cut file |
| Hugging Face engine (`models/hf_vlm_engine.py`) | pool of key-value sessions | prefill, reuse, extend, evict, release | a session extended in place and used again | a session's cache is that of its prompt |
| Planner (`taskgraph/providers.py`) | metadata of the last attempt | plan, retry with the error | a retry after a refused graph | at most the configured attempts |
| Plugins (`plugins/`) | life cycle of one training plugin | discover, load, run, save | a crash between artifacts and reports | a report for every artifact |
| Operators, locators, detectors, counting, adapters, training, data, quantization, metrics, configuration, the rest of `taskgraph_lab` | none that outlives a call, or files of an offline step | numeric and text transformation | none that a model checker reaches | correct values |

How they interact: the runner builds a `TaskGraphRuntime` and calls `run` for
each sample. `run` chooses a mode from the registry or the dataset policy; the
graph mode plans or parses a graph, executes it and takes the final answer from
the store. The LOCATE and COUNT operators call detectors, which may be the
tiled provider around a pool of sidecar clients. The guard runs between batches
of the deployed model and only shares files with the rest. The two teacher
commands share `load_completed_ids`, the limiter and the layout of their output
files; the sweep calls training and evaluation as subprocesses and knows of them only
their exit code, their log and the files they leave.

`PROJECT.json` lists every component with its status, and every hazard at the
line where it bites.

## Modules

| Module | What it is |
|---|---|
| `EvaluationRunner` | the evaluation process, its files and its operator |
| `EvaluationLedger` | abstract: a growing set of successes, one per sample |
| `TilePrefetch` | one tiled prediction: caller, lanes, lookahead threads |
| `TileBatch` | abstract: tiles predicted one at a time, returned together or not at all |
| `SidecarPool` | callers, clients, pipes and worker processes |
| `AdapterGuard` | replicas, scrub, file recovery, batches |
| `RuntimeTypes`, `GraphContracts`, `OperatorOutcomes` | values, contracts and selection policies, and what each operator may return |
| `GraphExecutor` | loading, planning and running one graph, and its final answer |
| `DagRun` | abstract: the evaluation of an acyclic graph |
| `TeacherGeneration` | the label generation: main thread, pool, limiter, files, operator |
| `TeacherBatch` | labels asked for in batches: slices, chunks, bisection, repairs, files |
| `LabelLedger` | abstract: what both promise about their files |
| `MergerSweep` | the sweep, its subprocesses and the files of its experiments |
| `MC*` | the instances TLC runs; `*Proofs` the theorems |

`RuntimeTypes` <- `GraphContracts` <- `OperatorOutcomes` <- `GraphExecutor` is
one chain of EXTENDS; `GraphExecutor`, `EvaluationRunner`, `TilePrefetch`,
`TeacherGeneration` and `TeacherBatch` instantiate their abstract specification with a refinement mapping. Operators
marked `Mutant` are the bugs the properties were tested against: each replaces
one definition of the code and must make its property fail. No specification
uses them.

### State and actions against the code

*EvaluationRunner.* `output`, `tail`, `registry`, `regBad` are the two files; the
rest is the process and dies with it (`Reset`). `pc` walks the body of
`run_taskgraph_evaluation`: `Open` is what precedes the loop (reading the
finished ids), `Skip` the `continue` of a finished id, `Take` and
`RejectSample` the construction of the request, `SelectMode` the registry lookup
with `_apply_memory_variant`, `Execute` the handlers, `WriteRow` the write and
flush, `RecordOpen`/`RecordClose` the rewriting of the registry with the
truncation in between, `RecordFail` its swallowed exception, `NextOrStop` the
`fail_fast` test. `Crash` may happen in front of each of these, leave a row
whole, missing or cut, and leave the registry as far as it was written. A sample's
answer is abstracted to success or failure. `FinishedRunAccountsForAll` is about
rows in the file; summary and report are not modelled.

*TilePrefetch.* `source` is the shared iterator, `ahead[l]` the future of a lane's
one-thread executor, `files` the temporary files, `active[l]` the tile at
inference. `Prepare` runs on the CPU thread; `StartLane`, `Draw` (submit the next
tile), `Receive` (take a prepared one), `PrepareInline` (a lane without prefetch),
`Infer`, `CancelAhead` and `Join` on the lane; `Collect` is `executor.map` (the first failed lane in
order), `Leave` the exits of the two context managers.

*SidecarPool.* One client is a queue entry, a worker and two pipes. `Ask`/`Get` take
a client, `Start`, `Send`, `Read` are `start` and `_exchange`, `Put` is the
`finally` of `predict`; `Load`, `Serve`, `Exit` are the worker's `main`; `Die`
kills it at any point, also inside an answer (the line ends in its middle).
`Judged` keeps the order of the code: the status before the id.

*AdapterGuard.* A file of a replica is good, bad or missing. One action per entry of
the manifest (`VerifyFile`), the decision (`Decide`), and five per recovered file
(`Pick`, `OpenBackup`, `Copy`, `CheckTemp`, `Replace`; `GiveUp` is how each of them
fails), so that `Damage` falls
between any two of them, within the bound `MaxFaults`. `age` counts the batches
a file was served while bad.

*GraphExecutor.* `AddNode`/`Close` build every graph that `TaskGraph.validate_graph`
accepts; then each node is refused by its input contract (`RefuseNode`), executed
(`Execute`), tried with the second provider (`TryFallback`) or fails
(`FailNode`). `Rejected` is `_materialize_select_inputs` and
`validate_runtime_inputs`; `Outputs` gives the values an operator may return for
what it receives and `OutputContract` what is let through. `Fused` is the plan's
decision to let a node answer the question itself. The answer part mirrors the
`try`/`except` at the end of `_taskgraph`; `SourceErrors` is what the
resolver may raise there. A value keeps its class, its size (none, one, many) and
its status. Nodes are named by their position. The inputs of a graph are the images
of its request: a graph that declares another one fails with a bare `KeyError`
when it is read, which the model leaves out. The runtime binds no fallback
provider; the router supports one, and `Fallbacks` models it.

*TeacherGeneration.* `main.pc` walks the body of `run_generation`: `Submit` and
`EndOfInput` are the `for` and what follows it, `Collect` is `wait` with any
non-empty set of the futures that are done, `AppendRaw`, `AppendLabel` and
`AppendReview` are the three writes of `consume` in their order. `job[s]` is the
future of a sample: `Begin` gives it a thread, `Acquire` is the limiter's critical
section, `CallRaises`, `Generated`, `Repaired` and `Reviewed` are how its calls
end. `calls` is the limiter's deque and `granted` a history variable, the calls that
really fell into the last window; `Tick` ages both. `Interrupt` takes the
`KeyboardInterrupt` anywhere in the `try`, `Exit` lets the `with` wait for the running
futures and drops their results, as the code does. `Kill` may cut the line being written,
and `AppendRow` appends the next row of that file to the cut line, where no reader finds it.

*TeacherBatch.* `stack` is the recursion of `process_initial`, `request` the call under
way with its transport repairs. A reply is a sequence of items, each with the
id of a sample of the request or of none and a verdict; `HasItem` is the parser's
rule that an id occurs once. `Bisect` splits a subset, `Parsed` settles what
is accepted or rejected and asks for the rest in one partial repair,
`RepairParsed` and `GiveUp` end that, and `ProcessingRaises` is an exception while an item
is processed (the validator is called outside the `try`), which ends the run. Outcomes live in memory until the slice
is complete; `AppendRaw` and `AppendLabel` then write it. `Kept` is the filter of the
comprehensions that say which samples a run takes up and which a repair asks for again.
`Kill` may cut the line being written, always inside its JSON text: `torn` are the files
whose last line is cut, to which `AppendRow` loses the next row, and `damaged` the files
that have a line no reader can parse. `Start` is refused when that is the raw file, as
`load_completed_ids` raises, and `Report` fails when it is any of the four, as
`read_jsonl` does.

*MergerSweep.* A job is the baseline, an experiment or the existing checkpoint.
`status`, `saved`, `ckpt`, `eval` and `oomLog` are files and survive a kill;
`proc` and `records` die with the process. `TakeOver` and `BeginExperiment` are the two
outcomes of `run_one`'s look at the status file, `TrainDone`, `TrainError` and
`TrainIncomplete` those of the training subprocess, `WriteTrained`,
`WriteEvaluated` and `Analyze` the three status writes behind it. `ReuseEvaluation` is
the early return of `_evaluate`, `FallsBack` the test of the log for out of memory,
`BatchDiffers` the comparison with the batch size in force. `Kill` may leave a
status file cut; `Unreadable` is the exception the next run then raises. `gen` numbers the
trainings of an experiment, so that a score can be told to be of an older
checkpoint.

## Runs

| Run | Checks | Bounds |
|---|---|---|
| `EvaluationResume` | `TypeOK`, `FinishedRunAccountsForAll`, `LedgerSpec` | 2 samples, 3 process starts, resumed with and without fail_fast, from every registry |
| `EvaluationRerun` | `KnownQuestionConsistent`, `EvaluationEnds` | 3 samples (one malformed), 2 starts with and without resume, cut rows, from every registry |
| `TileLanes` | `TypeOK`, `FilesBounded`, `BatchSpec`, `PredictEnds` | 5 tiles, 2 lanes, with and without prefetch |
| `SidecarShared` | `TypeOK`, `ClientsConserved`, `PipesHoldOneRequest`, `PredictEnds` | 3 callers, 2 clients, a preload, one request each |
| `GuardScrub` | `TypeOK`, `ExposureBounded`, `BlockedForAReason`, `NeverMadeWorse`, `ScrubEnds` | 2 files, 3 replicas, 3 faults, interval 2 |
| `GraphRun` | `TypeOK`, `UnsafeNeverFlows`, `OverrideUnobserved`, `ChoiceSurvivesEvidence`, `DagSpec` | every graph of up to 3 nodes of LOCATE, SELECT, RELATION, VLM_REASON, LOCATE with a fallback; `forbid_non_feature_options` on, with and without such an option |
| `TeacherGeneration` | `TypeOK`, `LossBounded`, `UnsavedBounded`, `RateLimited`, `KeepsLedger`, `RunsEnd` | 3 samples, one thread with repair and review, two threads without, and an input with a bad line; 2 attempts, 1 call per window of 2 ticks, 2 starts, 1 interrupt, 1 kill |
| `TeacherBatch` | `TypeOK`, `SliceAccounted`, `CallsBounded`, `LossBounded`, `KeepsLedger`, `CommandEnds` | 4 samples in slices of 3, chunks bounded by tokens, replies of up to 3 items, 1 transport repair, 2 starts, 1 kill that may cut a line |
| `MergerSweep` | `TypeOK`, `StatusBacked`, `PhaseBUniform`, `AnalyzedIsFinal`, `SweepEnds` | 2 experiments in phase A, 1 in phase B, 3 starts, one kill, one failure, one out of memory error |
| `GraphEmptySelection`, `GenerationResume`, `SweepStale` | one documented statement each that the code does not satisfy | the smallest instance that shows it |

Why the bounds are enough to see the interesting cases:

- Evaluation: two samples give a sample before and one after the one at which
  a run is killed; the third start resumes a run that was itself a resume. All of them
  can succeed, so that a run with fail_fast can come to its end. In `EvaluationRerun` a sample that
  cannot be built stands between two that can. The
  dataset is ordered against the registry's order, so a cut registry loses either.
- Tiles: with two lanes five tiles leave each lane an active tile, a lookahead and one
  to quarrel about; an odd number lets one lane see the end first.
- Sidecar: three callers for two clients make one wait; a client is used twice, so
  a stale answer has somebody to reach.
- Guard: three faults can spoil the working file, the warm replica and the
  temporary copy; two files let one be repaired while the other is damaged.
- Graph: three nodes hold a producer, a selection and a consumer, or a node with two
  consumers; with an option that is removed after a node scored it, the resolver refuses
  a score that is there; the four operators cover the three kinds of policy (empty allowed, tied
  allowed, neither), a fused operator, evidence lists and a status of every kind.
  All seventeen operators are covered by the proofs.

- Label generation: with three samples a thread is queued, one calls and one is done at the
  same time, and the pool of 2 * concurrency is full with one thread; a limit of
  one call makes every second call wait, and a retry wait for the other
  thread's window. A kill and an interrupt in two runs give a cut line with a row
  behind it.
- Batches: a slice of three is bisected unevenly, and one reply can answer one sample,
  repeat another and leave the third out. The fourth sample starts a second slice, so that
  a kill falls in the middle of the rows of one slice with another still to come. A kill that
  cuts a label line in the first run costs two labels when the second run appends to it; one that cuts
  the raw file makes the second run be refused.
- Sweep: two candidates make the selection depend on both; with three starts, the
  second run can leave something behind that the third has to take over.

`MaxStarts`, `MaxRequests`, `MaxFaults`, `MaxNodes`, `MaxRoles`, `MaxRefs`, `MaxInterrupts`,
`MaxKills`, `MaxReply`, `MaxFailures` and `MaxOoms` are bounds
of the model and not of the code. Deadlock is checked for the guard, which never stops;
the other programs end.

### Fairness

- `EvaluationEnds`: weak fairness of `Work`, the steps of a live process.
  `Boot` and `Crash` get none: nobody has to restart a run.
- `PredictEnds` (tiles): weak fairness of each lane with its thread, of `Collect`
  and of `Leave`. Threads are scheduled, and the provider under a lane answers or raises.
- `PredictEnds` (sidecar): weak fairness of each caller and of each worker that is alive.
  `readline` has no timeout, so a worker that hangs would block its caller for ever:
  the property assumes that it does not. A caller at the queue is served because
  every client that is taken comes back and a caller asks a bounded number of times.
- `ScrubEnds`: weak fairness of the steps of a scrub. Damage is bounded by `MaxFaults`,
  but the property does not lean on it: each damaged file is picked once.
- `RunsEnd`: weak fairness of the main thread, of each pool thread, and of the clock.
  A call has a timeout, so it returns or raises; a thread that waits for the limiter polls
  it, and no other thread can keep the window full for ever because each sample makes a
  bounded number of calls.
- `CommandEnds`, `SweepEnds`: weak fairness of the program's own steps. The provider's calls
  time out, the subprocesses of the sweep end. Nobody has to restart, interrupt or
  kill a command.

## What is proved

Every theorem holds for all values of the constants that the named assumption of its
module allows (`RunnerAssumption`, `TileAssumption`, `PoolAssumption`,
`GuardAssumption`, `ConstantsAssumption`). Where a theorem assumes more, the table says so.

| Module | Theorem | Property |
|---|---|---|
| `EvaluationRunnerProofs` | `TypeCorrect`, `KnownConsistent` | `TypeOK`, `KnownQuestionConsistent` |
| | `ResumeSafe` (distinct ids, always resumed, rows written whole) | `LedgerSpec` |
| | `FinishedAccounts` (rows written whole) | `FinishedRunAccountsForAll` |
| | `RunShrinks` | `WorkShrinks`: a live process makes finitely many steps |
| `TilePrefetchProofs` | `TypeCorrect`, `FilesStayBounded`, `BatchRefined` | `TypeOK`, `FilesBounded`, `BatchSpec` |
| | `CallShrinks` | `StepsShrink`: a lane makes at most 4 * `TileCount` + 7 steps |
| | `NoLostWait` | `NobodyStuck`: a waiting lane has a lookahead under way, and the caller waits for no cancelled lane |
| `SidecarPoolProofs` | `TypeCorrect`, `PoolConserved`, `PipesExclusive` | `TypeOK`, `ClientsConserved`, `PipesHoldOneRequest` |
| | `NoMismatch` | `NoIdMismatch`: the error for an answer with another id has no cause |
| | `NoLostWait` | `NobodyStuck`: the empty queue has a client under way, a reader has its request or its answer in the pipes |
| `AdapterGuardProofs` | `TypeCorrect`, `NeverWorse`, `Exposure`, `BlockedReason` | `TypeOK`, `NeverMadeWorse`, `ExposureBounded`, `BlockedForAReason` |
| | `ScrubShrinks` | `StepsShrink`: a scrub makes finitely many steps, whatever is damaged during it |
| `GraphExecutorProofs` | `GraphTypes`, `GraphUnsafeNeverFlows`, `GraphOverrideUnobserved`, `GraphChoiceSurvives`, `GraphRunsDag` | `TypeOK`, `UnsafeNeverFlows`, `OverrideUnobserved`, `ChoiceSurvivesEvidence`, `DagSpec` |
| | `GraphRefsAvailable` | `RefsAvailable`: a node of an accepted graph never misses a value |
| `TeacherGenerationProofs` | `TypeCorrect`, `RateBounded`, `FewPaidAgain`, `FewLost`, `LedgerKept` | `TypeOK`, `RateLimited`, `UnsavedBounded`, `LossBounded`, `KeepsLedger` |
| | `RunShrinks` | `StepsShrink`: a run makes finitely many steps, a sample at most three requests of `MaxRetries` attempts |
| | `NoLostWait` | `NobodyStuck`: the main thread never waits when there is no future |
| `TeacherBatchProofs` | `TypeCorrect`, `SliceKept`, `CallsStayBounded`, `LossStaysBounded`, `LedgerKept` | `TypeOK`, `SliceAccounted`, `CallsBounded`, `LossBounded`, `KeepsLedger` |
| | `ChunksCut`, `ChunksFit` | the chunks of a slice are consecutive, not empty, together the slice, and each fits a request |
| | `CommandShrinks` | `StepsShrink`: the command makes finitely many steps |
| `MergerSweepProofs` | `TypeCorrect`, `StatusTruthful`, `PhaseBLr`, `AnalyzedFinal` | `TypeOK`, `StatusBacked`, `PhaseBUniform`, `AnalyzedIsFinal` |
| | `SweepShrinks` | `StepsShrink`: a run of the sweep makes finitely many steps |

The arguments:

- Evaluation: `LedgerInv` says that a success in the file belongs to an id that was
  read when the run was opened, or to a sample behind the position. Without it, nothing
  says that a sample about to run has no success. It needs distinct ids, because the
  finished ids are read once: two samples of one id are both run. `AccountInv` says that
  samples behind the position have rows. `VariantInv` says that, where the
  configuration does not ask for tight crops itself, the composer's switch agrees with
  the variant that was last applied.
- Tiles: `FilesInv` says which files a lane may hold at each point of its loop;
  `DealInv` that the tiles below the iterator are each with one lane, in one place, unless
  something failed, so an orderly end has them all.
- Sidecar: `PoolInv` adds that users of clients are disjoint and that preload runs
  alone; `PipeInv` that while a worker is alive its request pipe is empty or
  holds just the request of the caller that reads from it, and that its answer pipe
  holds at most that request's answer, or the last word of a worker that is exiting or
  dead.
- Guard: `WorseInv` says that what was found bad, is queued or is being repaired does
  not match, and that no file is repaired twice; nothing but the guard writes a good
  file, so it is still bad when it is replaced. `AgeInv` bounds the age by the batches
  since the last scrub: a file that a verification has passed did match. `ReasonInv` relates what a scrub has verified to the replicas.
- Graph: `GraphInv` says that nodes read images and earlier nodes, that a run that has
  not failed has a value for exactly the nodes behind it, that every stored value is one
  the operators produce (`Sound`: only a selection has a status other than OK), and
  that a score comes from the route path or from a fused node. `UnsafeNeverFlows` then
  rests on `SelectRolesGuarded`: every role of every operator whose contract accepts a
  SELECT result has a policy, and every policy refuses undecided ones.

  `EvidenceInv` adds what each phase of the answer has used as its evidence.
- Label generation: `LimiterInv` ties the limiter's deque to the calls that were really
  made: the deque ends with exactly those of the last window, in order, so that its
  length is an upper bound. `GenInv` says, while a run is inside its `try`, that the
  futures are exactly the samples submitted and not yet recorded (`FuturesOK`), of
  which there are at most 2 * concurrency; that rows never repeat and a label
  follows a raw row that says generated (`RowsOK`); and that the lost labels
  *and* the label files with a cut line together are paid for by interrupts and kills
  (`LossOK`): a cut line has cost one label and will cost the one that is appended to it,
  which is why a kill counts twice. The refinement to `LabelLedger` follows from
  `FuturesOK` and `RowsOK`.
- Sweep: `SweepInv` says what the process may be doing for each status of its
  experiment (`PlaceOK`), that the files behind a status exist and agree with the record
  (`DiskOK`), that everything behind the position of the process is settled and
  recorded (`ProgressOK`), and that phase B has begun only when phase A is settled
  (`OrderOK`). Phase A's records then cannot change any more, so a selection that is
  computed anew finds the same maximum; that the maximum exists is `BestExists`.

- Batches: `BatchInv` says that the stack is a list of consecutive pieces of the slice,
  not empty, from the place up to which it was asked for to its end (`StackOK`, `Cutting`);
  that before this place all samples have an outcome but those of the request under way,
  and behind it none has; and that the calls so far are within the budget of
  3a + L requests, where a is the number of samples that are finished and L the length of
  the stack. Bisecting a piece takes one request and adds one piece to the stack; a sample
  pays for its request, its repair and the bisection that may have made it a
  piece of its own. `SliceAccounted` and `CallsBounded` say nothing of order, and
  neither is inductive without it. `LeftOK`, `SavedOK` and `RowsOK` carry the outcomes
  to the files, which gives the refinement to `LabelLedger`: it
  needs `LinesOK`, that no command runs with a cut line in the raw file. `LossOK` says that the lost
  labels and the torn files together are paid for by kills, two for each. Below these are lemmas about what
  `Kept` and `Chunks` compute, which are recursive functions over the prefixes of a sequence:
  `SetInduction` states induction for the *set* of the numbers with a property, because the
  library's form takes the property as an operator, and `PrefixRecursion` gives such
  functions their values.
- Termination: each `...Shrinks` has a measure that every step of the program's own makes
  smaller: a lexicographic tuple in an order that `LessWellFounded` shows to be
  well-founded (evaluation, guard, batches, sweep), or a natural number for each thread
  (tiles, label generation) that the steps of the others never raise. Failures,
  retries, damage, time and other threads are all in there; only what an operator does
  from outside, a start of the command, raises the measure. TLC checked every
  measure on the instances before it was proved. What separates this from the
  liveness property of the same program is fairness and that a step is enabled.
- Waits: each `NobodyStuck` says that what a thread waits for is under way. For the sidecar
  this is `WaitInv`: while a worker is loading or ready, one of the two pipes of a reading caller is not
  empty, and `PipeInv` knows what is in it.

Only model-checked: the liveness properties `EvaluationEnds`, both `PredictEnds`,
`ScrubEnds`, `RunsEnd`, `CommandEnds` and `SweepEnds`, because the prover has no rule for
fairness and ENABLED with data. Every invariant, action property and refinement that a
passing run checks is a theorem, for `ResumeSafe` and `FinishedAccounts` under the
hypotheses of the table.

## What the runs found

Three statements of the documentation do not hold of the code. Each has its run:

1. `GraphEmptySelection`: semantic consumers "tolerate an empty selection", but
   CLASSIFY and MULTILABEL_CLASSIFY refuse the empty set by their input contract, and
   RELATION and MULTILABEL_CLASSIFY answer with a class their output contract refuses.
2. `GenerationResume`: "the same command resumes safely after interruption", but an
   interrupt between a sample's raw row and its label row loses the label for good: the
   next run skips the sample. `LossBounded` says how much is lost at most.
3. `SweepStale`: an experiment that only has its checkpoint is to go on from the evaluation,
   but the resume trains it again and then takes the evaluation of the old checkpoint
   for that of the new one.

Behaviours of the models that no run asserts, each a divergence from what a reader of
the code or its docs would expect:

- Evaluation: the tight crops of a known question stay on for the unknown
  ones after it (`taskgraph/runtime.py:997`); an output row cut by a kill makes every later
  resume raise (`taskgraph/evaluation_runner.py:786`).
- Sidecar: the worker refuses every initialize request because it has no image
  (`scripts/integrations/lae_dino_worker.py:347`), so `preload` never succeeds.
- Graph: when the second attempt, on the images, fails too, the trace of the nodes is not
  kept (`taskgraph/runtime.py:591`); with `forbid_non_feature_options` a computed score is
  refused and the question asked again (`taskgraph/choice.py:375`), and the options that
  are kept get new letters (`choice.py:68`) while the evaluation judges the letter of the
  answer against the original options (`taskgraph/evaluation_runner.py:183`), although
  `docs/architecture/vlm_semantic_execution.md:121` says that the original option ids are
  validated and the score is returned without another model call. The model has no letters.
- Sweep: experiments evaluated before an out of memory fallback keep batch size 4 and the
  later ones have 2; if the sweep is killed then, its resume starts at 4 again and stops at
  the first evaluation made with 2; a status file cut by a kill stops every resume; an
  experiment retried with `--retry-failed` may change the selection phase B was
  trained with; an old line about memory in a log that is appended to makes a later
  failure look like one of memory.
- Batches: an exception of the validator ends the run (`ProcessingRaises`), and every
  resume that gets the same reply; a raw line cut by a kill refuses every later start, and a
  cut label line lets the runs finish their samples but never write their report again;
  `repair_enabled` is not looked at; the outcomes of a slice are only in memory, so a
  kill pays for the slice again.

Seen in the same code and not given a run: a failed attempt overwrites the registry entry
of a question that had completed, a kill while the registry is rewritten loses other
questions' rows (both are behaviours of `EvaluationRunner`), and RELATION, the reference
of SELECT and the ends of a route accept a tied selection although
`docs/taskgraph_runtime.md` says that AMBIGUOUS is rejected.

## What is not modelled, and why

- What operators, detectors, locators, retrievers and models compute: numeric and textual
  data, of which the model keeps the class, the size and whether a call fails.
- Training, data preparation, quantization, metrics, configuration and the rest of
  `taskgraph_lab`: sequential transformation of files without shared state. They are
  more than half of the repository's lines, and the neural network code most of the rest.
- The proposal caches, key-value sessions, planner retries, the direct handlers of
  the runtime and the plugin life cycle: see the plan.
- Of the batch generation, the trace of calls and `run_manifest.json`: the settings and
  the input are assumed to be the same and readable in every run. A manifest cut by a kill of the
  first run refuses every later one, as a cut raw line does. A line that is whole but
  for its newline is not told apart from one cut inside its text.
- Of the sweep, `--only`, the dry runs and inputs that change between two runs; and three
  tests after a subprocess that exited normally. A training is taken for complete when
  the directory has the files of an older checkpoint
  (`run_autodl_qwen3vl_4b_lr_merger_sweep.py:646`), but `train_qwen3vl_lora.py` exits normally
  only after it has saved; `TrainIncomplete` keeps the test for a first checkpoint. An evaluation
  without its summary (`lr_merger_sweep.py:193`) or with another batch size
  (`run_autodl_qwen3vl_4b_lr_merger_sweep.py:185`) does not follow a normal exit either, because the evaluator writes the manifest last and
  with the batch size it was given. A manifest cut in the middle by a kill of the machine is
  left out: a resume would note the experiment as failed.
- Two runs of the evaluation on one output file at a time, two guards on one working
  directory, and `close` of a sidecar pool in use: the code does not defend against them
  and its callers do not do it.

## Plan

Done: the evaluation, the tiles, the sidecar, the guard, the graph, the two teacher
commands and the sweep. What is left, in order of importance:

1. `FileCache`: the proposal and retrieval caches with concurrent writers of one key
   and a crash between write and rename; its abstract specification is a register.
   Then the LRU of the tiled provider in front of it, with an image replaced under its key.
2. `KvSessions`: reuse, extension in place, fork, eviction and release of key-value
   sessions; the invariant relates a session's cache to the prompt it is returned for.
3. The rest of the runtime: the direct handlers, answerability and the planner's retry,
   composed with `GraphExecutor`, so that `EvaluationRunner.Execute` is refined by it.
4. The single-file recovery of `redundancy.py`, and two guards on one directory.
5. Proofs: a bound on the steps of a sidecar caller, as the other threads have; the
   invariants of the caches and the sessions, once they are modelled.
6. The plugin life cycle, if the other parts are done.
