----------------------------- MODULE MergerSweep -----------------------------
(***************************************************************************)
(* scripts/training/run_autodl_qwen3vl_4b_lr_merger_sweep.py with          *)
(* src/sat_rs_vlm/training/lr_merger_sweep.py: the LR + visual merger      *)
(* sweep, over kills and resumes.                                          *)
(*                                                                         *)
(* The sweep evaluates the baseline, runs the phase A experiments (train,  *)
(* evaluate, analyse), selects the LoRA learning rate of phase B from      *)
(* their records, runs the phase B experiments with it, and evaluates an   *)
(* existing checkpoint.  What a resumed run does with an experiment is     *)
(* decided by the experiment's status file and evaluation manifest.        *)
(*                                                                         *)
(* A job is its place in that order: 0 is the baseline, then phase A,      *)
(* phase B, and Existing.  The learning rate of a phase A experiment is    *)
(* its number.  A checkpoint is the number of times its experiment was     *)
(* trained.  A score of 0 stands for metrics the guards reject.            *)
(*                                                                         *)
(* Not modelled: --only, --dry-run, --forward-only, --prepare-only, inputs *)
(* that change between runs (evaluation tier, initial adapter).            *)
(***************************************************************************)
EXTENDS Naturals, FiniteSets

CONSTANTS
    NA, NB,        \* experiments of phase A and of phase B
    Scores,        \* weak scores an evaluation may yield, 0 rejected by a guard
    FallbackLr,    \* the learning rate taken when no candidate is eligible
    MaxStarts,     \* bound: runs of the command
    MaxKills,      \* bound: kills of the process
    MaxFailures,   \* bound: trainings and evaluations that exit with an error
    MaxOoms        \* bound: those of them that report CUDA out of memory

ASSUME ConstantsAssumption ==
    /\ {NA, NB} \subseteq Nat \ {0}
    /\ Scores \subseteq Nat /\ Scores # {}
    /\ FallbackLr \in 1 .. NA
    /\ {MaxStarts, MaxKills, MaxFailures, MaxOoms} \subseteq Nat

PhaseA == 1 .. NA
PhaseB == NA + 1 .. NA + NB
Experiments == 1 .. NA + NB
Existing == NA + NB + 1
Jobs == 0 .. Existing

VARIABLES
    status,    \* experiment_status.json
    saved,     \* the record of an ANALYZED experiment, in that file
    ckpt,      \* checkpoint directory: [gen, lr], gen 0 when there is none
    eval,      \* evaluation directory: [gen, batch, score], batch 0 when there is none
    oomLog,    \* [train, eval]: the jobs whose log mentions out of memory
    proc,      \* the process: [pc, job, batch, attempt, resume, retry]
    records,   \* the list of records of the process
    ended,     \* how the last run ended
    faults     \* [starts, kills, failures, ooms, retried]

vars == <<status, saved, ckpt, eval, oomLog, proc, records, ended, faults>>
disk == <<status, saved, ckpt, eval, oomLog>>

Learned == 1 .. NA
NoRecord == [status |-> "none", lr |-> 1, batch |-> 4, score |-> 0, gen |-> 0]
Records == [status : {"none", "FAILED", "ANALYZED"}, lr : Learned, batch : {2, 4},
            score : Nat, gen : Nat]
NoEval == [gen |-> 0, batch |-> 0, score |-> 0]

Init ==
    /\ status = [e \in Experiments |-> "absent"]
    /\ saved = [e \in Experiments |-> NoRecord]
    /\ ckpt = [e \in Experiments |-> [gen |-> 0, lr |-> 1]]
    /\ eval = [j \in Jobs |-> NoEval]
    /\ oomLog = [train |-> {}, eval |-> {}]
    /\ proc = [pc |-> "stopped", job |-> 0, batch |-> 4, attempt |-> 1,
               resume |-> FALSE, retry |-> FALSE]
    /\ records = [e \in Experiments |-> NoRecord]
    /\ ended = "none"
    /\ faults = [starts |-> 0, kills |-> 0, failures |-> 0, ooms |-> 0, retried |-> FALSE]

(*----------------------------- the selection -----------------------------*)
\* Phase A records select_phase_a_lr may choose from: complete, with no guard against them.
Eligible(recs) == {a \in PhaseA : recs[a].status = "ANALYZED" /\ recs[a].score > 0}

\* max keeps the first of the candidates with the highest score.
Best(recs) ==
    CHOOSE a \in Eligible(recs) :
        \A b \in Eligible(recs) :
            recs[b].score < recs[a].score \/ (recs[b].score = recs[a].score /\ a <= b)

SelectedLr(recs) == IF Eligible(recs) = {} THEN FallbackLr ELSE Best(recs)

\* The learning rate experiment e is trained with in this run.
LrOf(e) == IF e \in PhaseA THEN e ELSE SelectedLr(records)

(*------------------------------ the process ------------------------------*)
\* The command is run; a run after the first needs --resume, and may have --retry-failed.
Start ==
    /\ proc.pc = "stopped"
    /\ faults.starts < MaxStarts
    /\ \E retry \in BOOLEAN :
         /\ retry => faults.starts > 0
         /\ proc' = [pc |-> "next", job |-> 0, batch |-> 4, attempt |-> 1,
                     resume |-> faults.starts > 0, retry |-> retry]
         /\ faults' = [faults EXCEPT !.starts = @ + 1, !.retried = @ \/ retry]
    /\ records' = [e \in Experiments |-> NoRecord]
    /\ ended' = "none"
    /\ UNCHANGED disk

\* The baseline and the existing checkpoint are only evaluated.
BeginEvaluation ==
    /\ proc.pc = "next"
    /\ proc.job \in {0, Existing}
    /\ proc' = [proc EXCEPT !.pc = "evaluate"]
    /\ UNCHANGED <<disk, records, ended, faults>>

\* Mutant of Settled: --retry-failed runs the analysed experiments again as well.
SettledUnlessRetry(e) ==
    proc.resume /\ ~proc.retry /\ status[e] \in {"ANALYZED", "FAILED"}

\* An experiment whose earlier result is taken over.
Settled(e) ==
    /\ proc.resume
    /\ \/ status[e] = "ANALYZED"
       \/ status[e] = "FAILED" /\ ~proc.retry

NextJob == [proc EXCEPT !.pc = "next", !.job = @ + 1, !.attempt = 1]

\* Mutant of TakeOver: an experiment that is taken over has no record in this run.
TakeOverSilently ==
    /\ proc.pc = "next"
    /\ proc.job \in Experiments
    /\ Settled(proc.job)
    /\ proc' = NextJob
    /\ UNCHANGED <<disk, records, ended, faults>>

TakeOver ==
    /\ proc.pc = "next"
    /\ proc.job \in Experiments
    /\ Settled(proc.job)
    /\ records' = [records EXCEPT ![proc.job] =
                     IF status[proc.job] = "ANALYZED" THEN saved[proc.job]
                     ELSE [NoRecord EXCEPT !.status = "FAILED"]]
    /\ proc' = NextJob
    /\ UNCHANGED <<disk, ended, faults>>

\* Mutant of BeginExperiment: an interrupted experiment goes on with its evaluation.
BeginInterrupted ==
    /\ proc.pc = "next"
    /\ proc.job \in Experiments
    /\ ~Settled(proc.job)
    /\ status[proc.job] # "torn"
    /\ status' = [status EXCEPT ![proc.job] = "RUNNING"]
    /\ proc' = [proc EXCEPT !.pc = IF status[proc.job] \in {"RUNNING", "TRAINED"}
                                   THEN "evaluate" ELSE "train"]
    /\ UNCHANGED <<saved, ckpt, eval, oomLog, records, ended, faults>>

\* Whatever else the status says, the experiment is trained from the beginning.
BeginExperiment ==
    /\ proc.pc = "next"
    /\ proc.job \in Experiments
    /\ ~Settled(proc.job)
    /\ status[proc.job] # "torn"
    /\ status' = [status EXCEPT ![proc.job] = "RUNNING"]
    /\ proc' = [proc EXCEPT !.pc = "train"]
    /\ UNCHANGED <<saved, ckpt, eval, oomLog, records, ended, faults>>

\* A status file cut by a kill cannot be parsed: the sweep is given up.
Unreadable ==
    /\ proc.pc = "next"
    /\ proc.job \in Experiments
    /\ status[proc.job] = "torn"
    /\ proc' = [proc EXCEPT !.pc = "stopped"]
    /\ ended' = "aborted"
    /\ UNCHANGED <<disk, records, faults>>

\* A subprocess exits with an error, out of memory or another one.
Errors ==
    \/ /\ faults.failures < MaxFailures
       /\ faults' = [faults EXCEPT !.failures = @ + 1]
    \/ /\ faults.ooms < MaxOoms
       /\ faults' = [faults EXCEPT !.ooms = @ + 1]

Oom == faults'.ooms > faults.ooms

Fail ==
    /\ status' = [status EXCEPT ![proc.job] = "FAILED"]
    /\ records' = [records EXCEPT ![proc.job] = [NoRecord EXCEPT !.status = "FAILED"]]
    /\ proc' = NextJob

\* The training succeeds and replaces the checkpoint.
TrainDone ==
    /\ proc.pc = "train"
    /\ ckpt' = [ckpt EXCEPT ![proc.job] = [gen |-> @.gen + 1, lr |-> LrOf(proc.job)]]
    /\ proc' = [proc EXCEPT !.pc = "trained"]
    /\ UNCHANGED <<status, saved, eval, oomLog, records, ended, faults>>

\* The training fails: when its log, to which every run appends, mentions out of memory,
\* it is tried once more with the small batch.
TrainError ==
    /\ proc.pc = "train"
    /\ Errors
    /\ oomLog' = [oomLog EXCEPT !.train = IF Oom THEN @ \cup {proc.job} ELSE @]
    /\ IF proc.attempt = 1 /\ proc.job \in oomLog'.train
       THEN /\ proc' = [proc EXCEPT !.attempt = 2]
            /\ UNCHANGED <<status, records>>
       ELSE Fail
    /\ UNCHANGED <<saved, ckpt, eval, ended>>

\* The training exits normally without the files of a checkpoint.  Over an older checkpoint
\* the test of the files could not notice; the script exits normally only after saving.
TrainIncomplete ==
    /\ proc.pc = "train"
    /\ ckpt[proc.job].gen = 0
    /\ faults.failures < MaxFailures
    /\ faults' = [faults EXCEPT !.failures = @ + 1]
    /\ Fail
    /\ UNCHANGED <<saved, ckpt, eval, oomLog, ended>>

WriteTrained ==
    /\ proc.pc = "trained"
    /\ status' = [status EXCEPT ![proc.job] = "TRAINED"]
    /\ proc' = [proc EXCEPT !.pc = "evaluate"]
    /\ UNCHANGED <<saved, ckpt, eval, oomLog, records, ended, faults>>

\* Mutant of Reusable: the manifest is not looked for.
ReusableBlindly == proc.pc = "evaluate" /\ proc.resume

\* _evaluate with resume: a manifest in the directory is taken for the evaluation.
Reusable == proc.pc = "evaluate" /\ proc.resume /\ eval[proc.job].batch # 0

ReuseEvaluation ==
    /\ Reusable
    /\ proc' = [proc EXCEPT !.pc = "evaluated"]
    /\ UNCHANGED <<disk, records, ended, faults>>

\* The checkpoint a job evaluates: the first of a fixed one for the baseline and Existing.
GenOf(j) == IF j \in Experiments THEN ckpt[j].gen ELSE 1

EvaluateDone ==
    /\ proc.pc \in {"evaluate", "fallback"}
    /\ ~Reusable
    /\ \E score \in Scores :
         eval' = [eval EXCEPT ![proc.job] =
                    [gen |-> GenOf(proc.job), batch |-> proc.batch, score |-> score]]
    /\ proc' = [proc EXCEPT !.pc = "evaluated"]
    /\ UNCHANGED <<status, saved, ckpt, oomLog, records, ended, faults>>

\* _evaluate raises EvaluationOOMError: at batch 4, when the evaluation log mentions it.
FallsBack(log) == proc.batch = 4 /\ proc.job \in log.eval

\* The evaluation fails: at batch 4 with a log that mentions out of memory, the sweep goes
\* over to batch 2 and evaluates again; otherwise the experiment has failed, or the sweep
\* when it is not an experiment.  The evaluator writes its manifest last and with the batch
\* size it was given, so the tests of these two after a normal exit are left out.
EvaluateError ==
    /\ proc.pc \in {"evaluate", "fallback"}
    /\ ~Reusable
    /\ Errors
    /\ oomLog' = [oomLog EXCEPT !.eval = IF Oom THEN @ \cup {proc.job} ELSE @]
    /\ IF FallsBack(oomLog')
       THEN /\ proc' = [proc EXCEPT !.pc = "fallback", !.batch = 2]
            /\ UNCHANGED <<status, records, ended>>
       ELSE IF proc.job \in Experiments
       THEN Fail /\ UNCHANGED ended
       ELSE /\ proc' = [proc EXCEPT !.pc = "stopped"]
            /\ ended' = "aborted"
            /\ UNCHANGED <<status, records>>
    /\ UNCHANGED <<saved, ckpt, eval>>

\* The baseline's manifest sets the batch size of the sweep; the one of the existing
\* checkpoint is not looked at.
AcceptEvaluation ==
    /\ proc.pc = "evaluated"
    /\ proc.job \in {0, Existing}
    /\ proc' = IF proc.job = 0 THEN [NextJob EXCEPT !.batch = eval[0].batch] ELSE NextJob
    /\ UNCHANGED <<disk, records, ended, faults>>

\* Mutant of BatchDiffers: the evaluation is asked for again.
BatchDiffersAgain ==
    /\ proc.pc = "evaluated"
    /\ proc.job \in Experiments
    /\ eval[proc.job].batch # proc.batch
    /\ proc' = [proc EXCEPT !.pc = "evaluate"]
    /\ UNCHANGED <<disk, records, ended, faults>>

\* An experiment evaluated at another batch size ends the sweep.
BatchDiffers ==
    /\ proc.pc = "evaluated"
    /\ proc.job \in Experiments
    /\ eval[proc.job].batch # proc.batch
    /\ proc' = [proc EXCEPT !.pc = "stopped"]
    /\ ended' = "mismatch"
    /\ UNCHANGED <<disk, records, faults>>

WriteEvaluated ==
    /\ proc.pc = "evaluated"
    /\ proc.job \in Experiments
    /\ eval[proc.job].batch = proc.batch
    /\ status' = [status EXCEPT ![proc.job] = "EVALUATED"]
    /\ proc' = [proc EXCEPT !.pc = "analyze"]
    /\ UNCHANGED <<saved, ckpt, eval, oomLog, records, ended, faults>>

\* The adapters are analysed (an error there is only noted) and the record is written.
Analyze ==
    /\ proc.pc = "analyze"
    /\ LET record == [status |-> "ANALYZED", lr |-> LrOf(proc.job),
                      batch |-> eval[proc.job].batch, score |-> eval[proc.job].score,
                      gen |-> eval[proc.job].gen]
       IN /\ saved' = [saved EXCEPT ![proc.job] = record]
          /\ records' = [records EXCEPT ![proc.job] = record]
    /\ status' = [status EXCEPT ![proc.job] = "ANALYZED"]
    /\ proc' = NextJob
    /\ UNCHANGED <<ckpt, eval, oomLog, ended, faults>>

\* The report and sweep_status.json.
Finish ==
    /\ proc.pc = "next"
    /\ proc.job > Existing
    /\ proc' = [proc EXCEPT !.pc = "stopped"]
    /\ ended' = IF \E e \in Experiments : records[e].status = "FAILED"
                THEN "completed_with_failures" ELSE "completed"
    /\ UNCHANGED <<disk, records, faults>>

\* The process writes the status file of its experiment in its next step.
WritesStatus ==
    /\ proc.job \in Experiments
    /\ \/ proc.pc = "next" /\ ~Settled(proc.job)
       \/ proc.pc \in {"train", "trained", "fallback", "analyze"}
       \/ proc.pc = "evaluate" /\ ~Reusable
       \/ proc.pc = "evaluated" /\ eval[proc.job].batch = proc.batch

\* The process is killed, maybe while it writes a status file.
Kill ==
    /\ proc.pc # "stopped"
    /\ faults.kills < MaxKills
    /\ faults' = [faults EXCEPT !.kills = @ + 1]
    /\ proc' = [proc EXCEPT !.pc = "stopped"]
    /\ ended' = "killed"
    /\ \/ UNCHANGED status
       \/ WritesStatus /\ status' = [status EXCEPT ![proc.job] = "torn"]
    /\ UNCHANGED <<saved, ckpt, eval, oomLog, records>>

Step ==
    \/ BeginEvaluation \/ TakeOver \/ BeginExperiment \/ Unreadable
    \/ TrainDone \/ TrainError \/ TrainIncomplete \/ WriteTrained
    \/ ReuseEvaluation \/ EvaluateDone \/ EvaluateError
    \/ AcceptEvaluation \/ BatchDiffers \/ WriteEvaluated \/ Analyze \/ Finish

Next == Start \/ Kill \/ Step

Spec == Init /\ [][Next]_vars

\* A subprocess ends and the sweep goes on with its next step; nothing makes an operator
\* run the command or kill it.
FairSpec == Spec /\ WF_vars(Step)

(*------------------------------ properties ------------------------------*)
Statuses == {"absent", "RUNNING", "TRAINED", "EVALUATED", "ANALYZED", "FAILED", "torn"}
Evals == [gen : Nat, batch : {0, 2, 4}, score : Nat]

TypeOK ==
    /\ status \in [Experiments -> Statuses]
    /\ saved \in [Experiments -> Records]
    /\ ckpt \in [Experiments -> [gen : Nat, lr : Learned]]
    /\ eval \in [Jobs -> Evals]
    /\ oomLog \in [train : SUBSET Experiments, eval : SUBSET Jobs]
    /\ proc \in [pc : {"stopped", "next", "train", "trained", "evaluate", "fallback",
                       "evaluated", "analyze"},
                 job : 0 .. Existing + 1, batch : {2, 4}, attempt : {1, 2},
                 resume : BOOLEAN, retry : BOOLEAN]
    /\ records \in [Experiments -> Records]
    /\ ended \in {"none", "killed", "aborted", "mismatch", "completed",
                  "completed_with_failures"}
    /\ faults \in [starts : Nat, kills : Nat, failures : Nat, ooms : Nat,
                   retried : BOOLEAN]

\* An analysed experiment is finished for good: no resume, retry or kill trains or
\* evaluates it again, or changes its status or its record.
AnalyzedIsFinal ==
    [][\A e \in Experiments : status[e] = "ANALYZED" =>
          /\ status'[e] = "ANALYZED"
          /\ UNCHANGED <<saved[e], ckpt[e], eval[e]>>]_vars

\* What the status files and the final report say is on the disk: the record of an
\* analysed experiment has the learning rate of its checkpoint and the numbers of its
\* evaluation, an evaluated one has an evaluation and a trained one a checkpoint; a sweep
\* that reports completion reports for every experiment what its status file says.
StatusBacked ==
    /\ \A e \in Experiments :
          /\ status[e] \in {"TRAINED", "EVALUATED", "ANALYZED"} => ckpt[e].gen > 0
          /\ status[e] \in {"EVALUATED", "ANALYZED"} => eval[e].batch # 0
          /\ status[e] = "ANALYZED" =>
                /\ saved[e].lr = ckpt[e].lr
                /\ saved[e].score = eval[e].score
                /\ saved[e].batch = eval[e].batch
                /\ saved[e].gen = eval[e].gen
    /\ ended \in {"completed", "completed_with_failures"} =>
          \A e \in Experiments :
              /\ status[e] = records[e].status
              /\ status[e] = "ANALYZED" => records[e] = saved[e]
              /\ ended = "completed" => status[e] = "ANALYZED"

\* Over kills and resumes without --retry-failed, every record of phase B is of the
\* learning rate that the records of phase A select, however often it was selected anew.
PhaseBUniform ==
    ~faults.retried =>
        \A e \in PhaseB : status[e] = "ANALYZED" =>
            saved[e].lr = SelectedLr([a \in Experiments |->
                              IF status[a] = "ANALYZED" THEN saved[a] ELSE NoRecord])

\* A run of the sweep comes to an end.
SweepEnds == proc.pc # "stopped" ~> proc.pc = "stopped"

\* QWEN3VL_4B_LR_MERGER_SWEEP.md: an experiment that only has its checkpoint continues
\* from the evaluation.  So the record of an experiment is about its checkpoint.
ScoreIsOfCheckpoint ==
    \A e \in Experiments : status[e] = "ANALYZED" => saved[e].gen = ckpt[e].gen
=============================================================================
