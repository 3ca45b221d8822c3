----------------------------- MODULE TilePrefetch -----------------------------
(***************************************************************************)
(* One call of TiledProposalProvider.predict on an image that is not in    *)
(* the proposal cache.  The tiles are dealt to inference lanes, threads of *)
(* one executor that share the tile iterator.  A lane runs                 *)
(* cpu_prepared_items: a thread of its own writes the file of the next     *)
(* tile while the lane's current tile is being predicted.  Preparing a     *)
(* tile and predicting it can both fail.                                   *)
(*                                                                         *)
(* Abstractions: a tile is its index, a tile's file exists or not, the     *)
(* proposals are left out, and so is the merging of them.  A file that a   *)
(* failed preparation leaves half written is not a prepared file: only the *)
(* removal of the temporary directory deletes it.                          *)
(***************************************************************************)
EXTENDS Naturals, Sequences, FiniteSets

CONSTANTS
    TileCount,         \* the number of tiles of the image
    Workers,           \* the resolved parallel_workers
    PrefetchSettings   \* the values of tile_prefetch

ASSUME TileAssumption ==
    /\ TileCount \in Nat \ {0}
    /\ Workers \in Nat \ {0}
    /\ PrefetchSettings \subseteq BOOLEAN

Tiles == 1..TileCount
LaneCount == IF Workers < TileCount THEN Workers ELSE TileCount
Lanes == 1..LaneCount
NoTile == 0

VARIABLES
    prefetch,   \* the value of tile_prefetch
    source,     \* the next tile of the shared iterator
    lane,       \* what each lane is doing
    ahead,      \* the state of the lane's lookahead future
    cpu,        \* the tile of the lookahead
    active,     \* the tile the lane has received and not released
    failed,     \* the lane is leaving on an exception
    results,    \* the tiles the lane has predicted, in its order
    files,      \* the prepared tile files, as <<lane, tile>>
    main,       \* what the calling thread is doing
    awaited     \* the lane whose results the caller is waiting for

vars == <<prefetch, source, lane, ahead, cpu, active, failed, results, files,
          main, awaited>>

TypeOK ==
    /\ prefetch \in BOOLEAN
    /\ source \in 1..(TileCount + 1)
    /\ lane \in [Lanes -> {"new", "wait", "active", "closing", "joining",
                           "ended", "cancelled"}]
    /\ ahead \in [Lanes -> {"none", "queued", "running", "tile", "end",
                            "error", "cancelled"}]
    /\ cpu \in [Lanes -> Tiles \cup {NoTile}]
    /\ active \in [Lanes -> Tiles \cup {NoTile}]
    /\ failed \in [Lanes -> BOOLEAN]
    /\ results \in [Lanes -> Seq(Tiles)]
    /\ files \subseteq Lanes \X Tiles
    /\ main \in {"collect", "draining", "returned", "raised"}
    /\ awaited \in 1..(LaneCount + 1)

Init ==
    /\ prefetch \in PrefetchSettings
    /\ source = 1
    /\ lane = [l \in Lanes |-> "new"]
    /\ ahead = [l \in Lanes |-> "none"]
    /\ cpu = [l \in Lanes |-> NoTile]
    /\ active = [l \in Lanes |-> NoTile]
    /\ failed = [l \in Lanes |-> FALSE]
    /\ results = [l \in Lanes |-> << >>]
    /\ files = {}
    /\ main = "collect"
    /\ awaited = 1
-------------------------------------------------------------------------------
\* predict_lane begins: with prefetch the first tile is submitted to the
\* lane's CPU thread.
StartLane(l) ==
    /\ lane[l] = "new"
    /\ lane' = [lane EXCEPT ![l] = "wait"]
    /\ ahead' = [ahead EXCEPT ![l] = IF prefetch THEN "queued" ELSE "none"]
    /\ UNCHANGED <<prefetch, source, cpu, active, failed, results, files,
                   main, awaited>>

\* Mutant of Draw: the lanes read the iterator without the lock, so the
\* index one of them advanced may be read again.
DrawUnlocked(l) ==
    /\ ahead[l] = "queued"
    /\ source' \in {source, IF source <= TileCount THEN source + 1 ELSE source}
    /\ ahead' = [ahead EXCEPT ![l] = IF source <= TileCount THEN "running" ELSE "end"]
    /\ cpu' = [cpu EXCEPT ![l] = IF source <= TileCount THEN source ELSE NoTile]
    /\ UNCHANGED <<prefetch, lane, active, failed, results, files, main, awaited>>

\* Mutant of Draw: the end of the iterator is noticed one tile late.
DrawPastEnd(l) ==
    /\ ahead[l] = "queued"
    /\ source <= TileCount + 1
    /\ source' = source + 1
    /\ ahead' = [ahead EXCEPT ![l] = "running"]
    /\ cpu' = [cpu EXCEPT ![l] = source]
    /\ UNCHANGED <<prefetch, lane, active, failed, results, files, main, awaited>>

\* Mutant of Draw: an exhausted iterator is waited on.
DrawOrWait(l) ==
    /\ ahead[l] = "queued"
    /\ source <= TileCount
    /\ source' = source + 1
    /\ ahead' = [ahead EXCEPT ![l] = "running"]
    /\ cpu' = [cpu EXCEPT ![l] = source]
    /\ UNCHANGED <<prefetch, lane, active, failed, results, files, main, awaited>>

\* prepare_next on the CPU thread: next(source), under inputs_lock.
Draw(l) ==
    /\ ahead[l] = "queued"
    /\ IF source <= TileCount
       THEN /\ source' = source + 1
            /\ ahead' = [ahead EXCEPT ![l] = "running"]
            /\ cpu' = [cpu EXCEPT ![l] = source]
       ELSE /\ ahead' = [ahead EXCEPT ![l] = "end"]
            /\ UNCHANGED <<source, cpu>>
    /\ UNCHANGED <<prefetch, lane, active, failed, results, files, main, awaited>>

\* prepare_tile on the CPU thread: the file is saved, or cropping or saving
\* raises.
Prepare(l) ==
    /\ ahead[l] = "running"
    /\ \/ /\ ahead' = [ahead EXCEPT ![l] = "tile"]
          /\ files' = files \cup {<<l, cpu[l]>>}
          /\ UNCHANGED cpu
       \/ /\ ahead' = [ahead EXCEPT ![l] = "error"]
          /\ cpu' = [cpu EXCEPT ![l] = NoTile]
          /\ UNCHANGED files
    /\ UNCHANGED <<prefetch, source, lane, active, failed, results, main, awaited>>

\* The lane has the result of the lookahead.  A tile is taken over and the
\* next lookahead is submitted before the tile is handed to inference; the
\* end and a preparation failure leave the loop.
Receive(l) ==
    /\ lane[l] = "wait"
    /\ \/ /\ ahead[l] = "tile"
          /\ lane' = [lane EXCEPT ![l] = "active"]
          /\ ahead' = [ahead EXCEPT ![l] = "queued"]
          /\ active' = [active EXCEPT ![l] = cpu[l]]
          /\ cpu' = [cpu EXCEPT ![l] = NoTile]
          /\ UNCHANGED failed
       \/ /\ ahead[l] = "end"
          /\ lane' = [lane EXCEPT ![l] = "closing"]
          /\ ahead' = [ahead EXCEPT ![l] = "none"]
          /\ UNCHANGED <<cpu, active, failed>>
       \/ /\ ahead[l] = "error"
          /\ lane' = [lane EXCEPT ![l] = "closing"]
          /\ failed' = [failed EXCEPT ![l] = TRUE]
          /\ UNCHANGED <<ahead, cpu, active>>
    /\ UNCHANGED <<prefetch, source, results, files, main, awaited>>

\* Without prefetch the lane draws and prepares its next tile itself.
PrepareInline(l) ==
    /\ lane[l] = "wait"
    /\ ~ prefetch
    /\ IF source > TileCount
       THEN /\ lane' = [lane EXCEPT ![l] = "closing"]
            /\ UNCHANGED <<source, active, failed, files>>
       ELSE /\ source' = source + 1
            /\ \/ /\ lane' = [lane EXCEPT ![l] = "active"]
                  /\ active' = [active EXCEPT ![l] = source]
                  /\ files' = files \cup {<<l, source>>}
                  /\ UNCHANGED failed
               \/ /\ lane' = [lane EXCEPT ![l] = "closing"]
                  /\ failed' = [failed EXCEPT ![l] = TRUE]
                  /\ UNCHANGED <<active, files>>
    /\ UNCHANGED <<prefetch, ahead, cpu, results, main, awaited>>

\* release in the finally clause around the yield.
Released(l) == files \ {<<l, active[l]>>}

\* predict_tile: the base provider answers, or it raises and the iterator is
\* closed.  Either way the tile's file is released.
Infer(l) ==
    /\ lane[l] = "active"
    /\ \/ /\ lane' = [lane EXCEPT ![l] = "wait"]
          /\ results' = [results EXCEPT ![l] = Append(@, active[l])]
          /\ UNCHANGED failed
       \/ /\ lane' = [lane EXCEPT ![l] = "closing"]
          /\ failed' = [failed EXCEPT ![l] = TRUE]
          /\ UNCHANGED results
    /\ files' = Released(l)
    /\ active' = [active EXCEPT ![l] = NoTile]
    /\ UNCHANGED <<prefetch, source, ahead, cpu, main, awaited>>

\* pending.cancel() takes back a lookahead the CPU thread has not started.
CancelAhead(l) ==
    /\ lane[l] = "closing"
    /\ lane' = [lane EXCEPT ![l] = "joining"]
    /\ ahead' = [ahead EXCEPT ![l] = IF @ = "queued" THEN "cancelled" ELSE @]
    /\ UNCHANGED <<prefetch, source, cpu, active, failed, results, files,
                   main, awaited>>

\* Mutant of Join: the lookahead is not looked at again.
JoinOnly(l) ==
    /\ lane[l] = "joining"
    /\ ahead[l] # "running"
    /\ lane' = [lane EXCEPT ![l] = "ended"]
    /\ UNCHANGED <<prefetch, source, ahead, cpu, active, failed, results,
                   files, main, awaited>>

\* pool.shutdown(wait=True) joins the CPU thread; what it prepared last is
\* released.
Join(l) ==
    /\ lane[l] = "joining"
    /\ ahead[l] # "running"
    /\ lane' = [lane EXCEPT ![l] = "ended"]
    /\ IF ahead[l] = "tile"
       THEN /\ files' = files \ {<<l, cpu[l]>>}
            /\ cpu' = [cpu EXCEPT ![l] = NoTile]
            /\ ahead' = [ahead EXCEPT ![l] = "none"]
       ELSE UNCHANGED <<files, cpu, ahead>>
    /\ UNCHANGED <<prefetch, source, active, failed, results, main, awaited>>

\* executor.map gives the lanes' results in lane order; the exception of the
\* first failed one is raised, and lanes no thread has begun are cancelled.
Collect ==
    /\ main = "collect"
    /\ awaited \in Lanes
    /\ lane[awaited] = "ended"
    /\ IF failed[awaited]
       THEN /\ main' = "draining"
            /\ lane' = [l \in Lanes |-> IF lane[l] = "new" THEN "cancelled" ELSE lane[l]]
            /\ UNCHANGED awaited
       ELSE /\ awaited' = awaited + 1
            /\ UNCHANGED <<main, lane>>
    /\ UNCHANGED <<prefetch, source, ahead, cpu, active, failed, results, files>>

\* The executor's and the temporary directory's exits: every lane is over,
\* the files are gone, and the call returns or raises.
Leave ==
    /\ \A l \in Lanes : lane[l] \in {"ended", "cancelled"}
    /\ \/ main = "draining" /\ main' = "raised"
       \/ main = "collect" /\ awaited \notin Lanes /\ main' = "returned"
    /\ files' = {}
    /\ UNCHANGED <<prefetch, source, lane, ahead, cpu, active, failed, results,
                   awaited>>

LaneStep(l) ==
    \/ StartLane(l)
    \/ Draw(l)
    \/ Prepare(l)
    \/ Receive(l)
    \/ PrepareInline(l)
    \/ Infer(l)
    \/ CancelAhead(l)
    \/ Join(l)

Next == (\E l \in Lanes : LaneStep(l)) \/ Collect \/ Leave

Spec == Init /\ [][Next]_vars

\* The threads run, preparation ends, and the base provider answers or raises.
FairSpec ==
    /\ Spec
    /\ \A l \in Lanes : WF_vars(LaneStep(l))
    /\ WF_vars(Collect)
    /\ WF_vars(Leave)
-------------------------------------------------------------------------------
\* tile_transport.py, cpu_prepared_items: whatever fails, a lane never has
\* more prepared files than the active one and one lookahead, and once it is
\* over, by exhaustion or by a failure of preparation or inference, it has
\* released all of them, although its last lookahead may have ended after the
\* failure.
FilesBounded ==
    \A l \in Lanes :
        Cardinality({f \in files : f[1] = l}) <= IF lane[l] = "ended" THEN 0 ELSE 2

\* The prediction as its caller sees it, an answer's place being the lane and
\* the position in the lane's list.
Batch == INSTANCE TileBatch WITH
    answers <- UNION {{<<<<l, i>>, results[l][i]>> : i \in DOMAIN results[l]} : l \in Lanes},
    outcome <- IF main \in {"returned", "raised"} THEN main ELSE "running"

\* tiled.py, predict: however the lanes interleave and fail, no tile is
\* predicted by two of them, and the call returns only when they have together
\* predicted every tile.
BatchSpec == Batch!Spec

\* The call ends, returning or raising, whatever fails in whichever lane.
PredictEnds == <>(main \in {"returned", "raised"})
===============================================================================
