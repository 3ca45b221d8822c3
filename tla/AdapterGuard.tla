------------------------------ MODULE AdapterGuard ------------------------------
(***************************************************************************)
(* The guard of a deployed LoRA adapter.  A process scrubs the adapter     *)
(* before its first inference batch (guard_adapter_before_inference) and   *)
(* after every interval_batches of them (PeriodicAdapterGuard).  A scrub   *)
(* verifies the working, the warm and the golden directory against the     *)
(* trusted manifest, file by file; repairs the working files that do not   *)
(* match, from one wholly trusted replica, through a temporary file; and   *)
(* verifies the working directory again.  Files are damaged at any moment, *)
(* the temporary one too; reading and writing can fail, and the process    *)
(* can be killed between any two steps.                                    *)
(*                                                                         *)
(* Abstractions: a file matches the manifest, does not, or is missing; a   *)
(* hash reads a file at one moment; the three directories and the manifest *)
(* are not lost; completed_batches, used modulo the interval, is kept      *)
(* modulo the interval; the lists of the report are left out.              *)
(***************************************************************************)
EXTENDS Naturals

CONSTANTS
    FileCount,   \* the number of files in the manifest
    Interval,    \* interval_batches
    MaxFaults    \* bound on the number of times a file is damaged

ASSUME GuardAssumption ==
    /\ FileCount \in Nat
    /\ Interval \in Nat \ {0}
    /\ MaxFaults \in Nat

Paths == 1..FileCount                       \* in the order of the manifest
Replicas == {"working", "warm", "golden"}
NoPath == 0

VARIABLES
    files,      \* the content of every file of every replica
    temp,       \* the temporary file of the recovery that is going on
    pc,         \* what the process is doing, "down" when there is none
    checking,   \* the replica that is being verified
    next,       \* the next entry of the manifest to verify
    issues,     \* the files found not to match, for each replica
    source,     \* the replica to repair from
    queue,      \* the files still to repair
    current,    \* the file being repaired
    completed,  \* completed_batches
    age,        \* history: the batches completed since the file last matched
    disturbed,  \* history: damage or an I/O error since the scrub began
    faults      \* the number of times a file was damaged

scrub == <<checking, next, issues, source, queue, current>>
vars == <<files, temp, pc, checking, next, issues, source, queue, current,
          completed, age, disturbed, faults>>

TypeOK ==
    /\ files \in [Replicas -> [Paths -> {"good", "bad", "missing"}]]
    /\ temp \in {"none", "good", "bad"}
    /\ pc \in {"down", "serving", "verify", "decide", "repair", "backup",
               "copy", "check", "replace", "after", "blocked"}
    /\ checking \in Replicas
    /\ next \in 1..(FileCount + 1)
    /\ issues \in [Replicas -> SUBSET Paths]
    /\ source \in Replicas
    /\ queue \subseteq Paths
    /\ current \in Paths \cup {NoPath}
    /\ completed \in 0..(Interval - 1)
    /\ age \in [Paths -> Nat]
    /\ disturbed \in BOOLEAN
    /\ faults \in 0..MaxFaults

\* initialize_adapter_replicas: the replicas match the manifest made from the
\* working directory.
Init ==
    /\ files = [r \in Replicas |-> [p \in Paths |-> "good"]]
    /\ temp = "none"
    /\ pc = "down"
    /\ checking = "working"
    /\ next = 1
    /\ issues = [r \in Replicas |-> {}]
    /\ source = "warm"
    /\ queue = {}
    /\ current = NoPath
    /\ completed = 0
    /\ age = [p \in Paths |-> 0]
    /\ disturbed = FALSE
    /\ faults = 0
-------------------------------------------------------------------------------
\* scrub_adapter_replicas begins.
BeginScrub ==
    /\ pc' = "verify"
    /\ checking' = "working"
    /\ next' = 1
    /\ issues' = [r \in Replicas |-> {}]
    /\ disturbed' = FALSE

\* A new process, with a new guard, scrubs before its first batch.
Start ==
    /\ pc \in {"down", "blocked"}
    /\ BeginScrub
    /\ completed' = 0
    /\ UNCHANGED <<files, temp, source, queue, current, age, faults>>

\* A file that does not match is one batch older.
Served == age' = [p \in Paths |-> IF files["working"][p] = "good" THEN 0 ELSE age[p] + 1]

\* Mutant of Batch: the counter is compared before the batch is counted.
BatchLate ==
    /\ pc = "serving"
    /\ Served
    /\ IF completed = Interval
       THEN BeginScrub /\ completed' = 0
       ELSE completed' = completed + 1 /\ UNCHANGED <<pc, checking, next, issues, disturbed>>
    /\ UNCHANGED <<files, temp, source, queue, current, faults>>

\* A batch is completed; after_batch scrubs at the end of the interval.
Batch ==
    /\ pc = "serving"
    /\ Served
    /\ IF completed + 1 = Interval
       THEN BeginScrub /\ completed' = 0
       ELSE completed' = completed + 1 /\ UNCHANGED <<pc, checking, next, issues, disturbed>>
    /\ UNCHANGED <<files, temp, source, queue, current, faults>>

\* verify_checksum_manifest looks at the next entry.
Examine(r) ==
    /\ next <= FileCount
    /\ next' = next + 1
    /\ issues' = IF files[r][next] = "good" THEN issues
                 ELSE [issues EXCEPT ![r] = @ \cup {next}]

VerifyFile ==
    /\ pc = "verify"
    /\ Examine(checking)
    /\ UNCHANGED <<files, temp, pc, checking, source, queue, current, completed,
                   age, disturbed, faults>>

\* Working, warm and golden are verified in this order, whatever is found.
VerifyNext ==
    /\ pc = "verify"
    /\ next > FileCount
    /\ IF checking = "golden"
       THEN pc' = "decide" /\ UNCHANGED <<checking, next>>
       ELSE /\ checking' = IF checking = "working" THEN "warm" ELSE "golden"
            /\ next' = 1
            /\ UNCHANGED pc
    /\ UNCHANGED <<files, temp, issues, source, queue, current, completed, age,
                   disturbed, faults>>

\* Mutant of Decide: warm or nothing.
DecideWarm ==
    /\ pc = "decide"
    /\ \/ issues["working"] = {} /\ pc' = "serving" /\ UNCHANGED <<source, queue>>
       \/ /\ issues["working"] # {} /\ issues["warm"] # {}
          /\ pc' = "blocked" /\ UNCHANGED <<source, queue>>
       \/ /\ issues["working"] # {} /\ issues["warm"] = {}
          /\ source' = "warm" /\ queue' = issues["working"] /\ pc' = "repair"
    /\ UNCHANGED <<files, temp, checking, next, issues, current, completed, age,
                   disturbed, faults>>

\* Mutant of Decide: every file is restored.
DecideAll ==
    /\ pc = "decide"
    /\ \/ issues["working"] = {} /\ pc' = "serving" /\ UNCHANGED <<source, queue>>
       \/ /\ \A r \in Replicas : issues[r] # {}
          /\ pc' = "blocked" /\ UNCHANGED <<source, queue>>
       \/ /\ issues["working"] # {}
          /\ source' \in {r \in {"warm", "golden"} : issues[r] = {}}
          /\ queue' = Paths /\ pc' = "repair"
    /\ UNCHANGED <<files, temp, checking, next, issues, current, completed, age,
                   disturbed, faults>>

\* Nothing to repair, no replica to repair from, or the files to repair; warm
\* has priority over golden.
Decide ==
    /\ pc = "decide"
    /\ \/ /\ issues["working"] = {}
          /\ pc' = "serving"
          /\ UNCHANGED <<source, queue>>
       \/ /\ \A r \in Replicas : issues[r] # {}
          /\ pc' = "blocked"
          /\ UNCHANGED <<source, queue>>
       \/ /\ issues["working"] # {}
          /\ \E r \in {"warm", "golden"} : issues[r] = {}
          /\ source' = IF issues["warm"] = {} THEN "warm" ELSE "golden"
          /\ queue' = issues["working"]
          /\ pc' = "repair"
    /\ UNCHANGED <<files, temp, checking, next, issues, current, completed, age,
                   disturbed, faults>>

\* Mutant of Pick: the file stays in the list.
PickAgain ==
    /\ pc = "repair"
    /\ \E p \in queue : (\A q \in queue : p <= q) /\ current' = p
    /\ pc' = "backup"
    /\ UNCHANGED <<files, temp, checking, next, issues, source, queue, completed,
                   age, disturbed, faults>>

\* recover_file_from_backup is called for the next file.
Pick ==
    /\ pc = "repair"
    /\ \E p \in queue :
          /\ \A q \in queue : p <= q
          /\ current' = p
          /\ queue' = queue \ {p}
    /\ pc' = "backup"
    /\ UNCHANGED <<files, temp, checking, next, issues, source, completed, age,
                   disturbed, faults>>

\* A recovery ends without replacing its file: the temporary one is removed.
GiveUp == pc' = "repair" /\ temp' = "none"

\* The backup is verified before the temporary file is made.
OpenBackup ==
    /\ pc = "backup"
    /\ IF files[source][current] = "good" THEN pc' = "copy" /\ UNCHANGED temp ELSE GiveUp
    /\ UNCHANGED <<files, scrub, completed, age, disturbed, faults>>

\* copy2 copies what the backup is now, or fails.
Copy ==
    /\ pc = "copy"
    /\ \/ /\ files[source][current] # "missing"
          /\ temp' = files[source][current]
          /\ pc' = "check"
          /\ UNCHANGED disturbed
       \/ GiveUp /\ disturbed' = TRUE
    /\ UNCHANGED <<files, scrub, completed, age, faults>>

\* The temporary file is hashed before it is used, or reading it fails.
CheckTemp ==
    /\ pc = "check"
    /\ \/ /\ IF temp = "good" THEN pc' = "replace" /\ UNCHANGED temp ELSE GiveUp
          /\ UNCHANGED disturbed
       \/ GiveUp /\ disturbed' = TRUE
    /\ UNCHANGED <<files, scrub, completed, age, faults>>

\* os.replace puts the temporary file in the place of the working one, whole,
\* or fails.
Replace ==
    /\ pc = "replace"
    /\ GiveUp
    /\ \/ /\ files' = [files EXCEPT !["working"][current] = temp]
          /\ age' = IF temp = "good" THEN [age EXCEPT ![current] = 0] ELSE age
          /\ UNCHANGED disturbed
       \/ disturbed' = TRUE /\ UNCHANGED <<files, age>>
    /\ UNCHANGED <<scrub, completed, faults>>

\* Mutant of BeginAfter: a repair is trusted without another look.
ServeRepaired ==
    /\ pc = "repair"
    /\ queue = {}
    /\ pc' = "serving"
    /\ UNCHANGED <<files, temp, scrub, completed, age, disturbed, faults>>

\* All files were tried: the working directory is verified again.
BeginAfter ==
    /\ pc = "repair"
    /\ queue = {}
    /\ pc' = "after"
    /\ next' = 1
    /\ issues' = [issues EXCEPT !["working"] = {}]
    /\ UNCHANGED <<files, temp, checking, source, queue, current, completed, age,
                   disturbed, faults>>

VerifyAfter ==
    /\ pc = "after"
    /\ Examine("working")
    /\ UNCHANGED <<files, temp, pc, checking, source, queue, current, completed,
                   age, disturbed, faults>>

\* guard_adapter_before_inference raises unless every file matches.
Conclude ==
    /\ pc = "after"
    /\ next > FileCount
    /\ pc' = IF issues["working"] = {} THEN "serving" ELSE "blocked"
    /\ UNCHANGED <<files, temp, scrub, completed, age, disturbed, faults>>

\* Hashing a file, or making the temporary one, raises: nothing in the scrub
\* catches it and the batches do not go on.
Raise ==
    /\ pc \in {"verify", "backup", "after"}
    /\ pc' = "blocked"
    /\ disturbed' = TRUE
    /\ UNCHANGED <<files, temp, scrub, completed, age, faults>>

\* A file of a replica, or the temporary one, changes or disappears.
Damage ==
    /\ faults < MaxFaults
    /\ faults' = faults + 1
    /\ disturbed' = TRUE
    /\ \/ /\ \E r \in Replicas, p \in Paths : \E to \in {"bad", "missing"} :
               /\ files[r][p] # to
               /\ files' = [files EXCEPT ![r][p] = to]
          /\ UNCHANGED temp
       \/ temp = "good" /\ temp' = "bad" /\ UNCHANGED files
    /\ UNCHANGED <<pc, scrub, completed, age>>

\* The process is killed or ends; its temporary file is no file of the manifest.
Stop ==
    /\ pc # "down"
    /\ pc' = "down"
    /\ temp' = "none"
    /\ UNCHANGED <<files, scrub, completed, age, disturbed, faults>>

ScrubStep ==
    \/ VerifyFile \/ VerifyNext \/ Decide
    \/ Pick \/ OpenBackup \/ Copy \/ CheckTemp \/ Replace
    \/ BeginAfter \/ VerifyAfter \/ Conclude \/ Raise

Next == Start \/ Batch \/ ScrubStep \/ Damage \/ Stop

Spec == Init /\ [][Next]_vars

\* A scrub that was begun runs on; nothing makes a process start.
FairSpec == Spec /\ WF_vars(ScrubStep)
-------------------------------------------------------------------------------
Scrubbing == pc \notin {"down", "serving", "blocked"}

\* deployment_guard.py, after_batch and guard_adapter_before_inference: a file
\* that does not match the manifest is never served for a whole interval of
\* batches, whatever is damaged, fails or is killed meanwhile.
ExposureBounded == pc = "serving" => \A p \in Paths : age[p] < Interval

\* adapter_redundancy.py, scrub_adapter_replicas: a scrub during which nothing
\* was damaged and no file operation failed blocks inference only when neither
\* replica is wholly trusted.
BlockedForAReason ==
    (pc = "blocked" /\ ~ disturbed) =>
        \A r \in Replicas : \E p \in Paths : files[r][p] # "good"

\* recovery.py, recover_file_from_backup: no step of the guard replaces a
\* working file that matches the manifest by one that does not, even when the
\* backup or the temporary file is damaged after it was verified.
NeverMadeWorse ==
    [][faults' = faults =>
         \A p \in Paths : files["working"][p] = "good" => files'["working"][p] = "good"]_vars

\* Every scrub ends, whatever is damaged while it runs.
ScrubEnds == Scrubbing ~> ~ Scrubbing
===============================================================================
