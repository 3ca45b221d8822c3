------------------------------ MODULE SidecarPool ------------------------------
(***************************************************************************)
(* LAEDinoSidecarProvider: the callers of predict, the lanes of a tiled    *)
(* prediction, share a queue of clients.  A client owns one worker         *)
(* process and talks to it over two pipes, one line for a request and one  *)
(* line for its answer.  A worker can fail to load its model, can be       *)
(* killed, and is started again by the next request of its client.         *)
(*                                                                         *)
(* Abstractions: a request is its id, an answer is an id and a status; the *)
(* image, the phrase and the proposals are left out.  The number of        *)
(* clients, resolved once from the free memory, is a constant.             *)
(***************************************************************************)
EXTENDS Naturals, Sequences, FiniteSets

CONSTANTS
    Callers,      \* the threads that call predict
    Clients,      \* the clients of the pool
    First,        \* the client the provider creates first, self._client
    MaxRequests,  \* bound: the number of requests a caller makes
    Preloads      \* whether preload is called before the first request

ASSUME PoolAssumption ==
    /\ IsFiniteSet(Clients)
    /\ First \in Clients
    /\ MaxRequests \in Nat
    /\ Preloads \in BOOLEAN

Ids == Callers \X (1..MaxRequests)   \* a request's id: who asks and which time
NoId == << >>                        \* the id of an answer without one
Statuses == {"ok", "failed", "cut"}  \* "cut": the line ends in its middle
NoClient == "nobody"

VARIABLES
    available,  \* the clients in the queue, in its order
    made,       \* the pool exists
    pc,         \* what each caller is about to do
    mine,       \* the client a caller has taken
    asked,      \* the number of requests a caller has begun
    outcome,    \* how a caller's last request ended
    preloading, \* "no", "running", "failed" or "loaded"
    worker,     \* the state of each client's process
    stdin,      \* the requests the worker has not read
    stdout      \* the answers the client has not read

callers == <<pc, mine, asked, outcome, preloading>>
processes == <<worker, stdin, stdout>>
vars == <<available, made, pc, mine, asked, outcome, preloading, worker,
          stdin, stdout>>

TypeOK ==
    /\ available \in Seq(Clients)
    /\ made \in BOOLEAN
    /\ pc \in [Callers -> {"idle", "get", "start", "send", "read", "put"}]
    /\ mine \in [Callers -> Clients \cup {NoClient}]
    /\ asked \in [Callers -> 0..MaxRequests]
    /\ outcome \in [Callers -> {"none", "ok", "failed", "mismatch"}]
    /\ preloading \in {"no", "running", "failed", "loaded"}
    /\ worker \in [Clients -> {"none", "loading", "ready", "exiting", "dead"}]
    /\ stdin \in [Clients -> Seq(Ids)]
    /\ stdout \in [Clients -> Seq([id : Ids \cup {NoId}, status : Statuses])]

Id(c) == <<c, asked[c]>>
Alive(k) == worker[k] \in {"loading", "ready", "exiting"}
Idle == \A c \in Callers : pc[c] = "idle"

Init ==
    /\ available = << >>
    /\ made = FALSE
    /\ pc = [c \in Callers |-> "idle"]
    /\ mine = [c \in Callers |-> NoClient]
    /\ asked = [c \in Callers |-> 0]
    /\ outcome = [c \in Callers |-> "none"]
    /\ preloading = "no"
    /\ worker = [k \in Clients |-> "none"]
    /\ stdin = [k \in Clients |-> << >>]
    /\ stdout = [k \in Clients |-> << >>]
-------------------------------------------------------------------------------
\* The order in which _ensure_client_pool lists the clients.
Listed == {order \in [1..Cardinality(Clients) -> Clients] :
             /\ order[1] = First
             /\ \A i, j \in DOMAIN order : order[i] = order[j] => i = j
             /\ \A k \in Clients : \E i \in DOMAIN order : order[i] = k}

\* predict begins: the first caller makes the pool, under _pool_lock.
Ask(c) ==
    /\ pc[c] = "idle"
    /\ asked[c] < MaxRequests
    /\ preloading # "running"
    /\ pc' = [pc EXCEPT ![c] = "get"]
    /\ asked' = [asked EXCEPT ![c] = @ + 1]
    /\ outcome' = [outcome EXCEPT ![c] = "none"]
    /\ made' = TRUE
    /\ IF made THEN UNCHANGED available ELSE available' \in Listed
    /\ UNCHANGED <<mine, preloading, processes>>

\* clients.get() waits for a client to be available.
Get(c) ==
    /\ pc[c] = "get"
    /\ available # << >>
    /\ pc' = [pc EXCEPT ![c] = "start"]
    /\ mine' = [mine EXCEPT ![c] = Head(available)]
    /\ available' = Tail(available)
    /\ UNCHANGED <<made, asked, outcome, preloading, processes>>

\* preload calls initialize on self._client, past the queue; it is only called
\* while no prediction runs.
Preload(c) ==
    /\ Preloads
    /\ preloading = "no"
    /\ Idle
    /\ asked[c] < MaxRequests
    /\ preloading' = "running"
    /\ asked' = [asked EXCEPT ![c] = @ + 1]
    /\ pc' = [pc EXCEPT ![c] = "start"]
    /\ mine' = [mine EXCEPT ![c] = First]
    /\ outcome' = [outcome EXCEPT ![c] = "none"]
    /\ UNCHANGED <<available, made, processes>>

\* A caller's request is over; its client is still with it.
Ended(c, how) ==
    /\ pc' = [pc EXCEPT ![c] = "put"]
    /\ outcome' = [outcome EXCEPT ![c] = how]

\* start: a missing or dead process is replaced, with new pipes, unless the
\* system refuses to create one.
Start(c) ==
    /\ pc[c] = "start"
    /\ LET k == mine[c] IN
         IF Alive(k)
         THEN /\ pc' = [pc EXCEPT ![c] = "send"]
              /\ UNCHANGED <<outcome, processes>>
         ELSE \/ /\ pc' = [pc EXCEPT ![c] = "send"]
                 /\ worker' = [worker EXCEPT ![k] = "loading"]
                 /\ stdin' = [stdin EXCEPT ![k] = << >>]
                 /\ stdout' = [stdout EXCEPT ![k] = << >>]
                 /\ UNCHANGED outcome
              \/ /\ Ended(c, "failed")
                 /\ UNCHANGED processes
    /\ UNCHANGED <<available, made, mine, asked, preloading>>

\* _exchange up to the flush: a dead process is noticed, and so may be one
\* that is exiting (BrokenPipeError).
Send(c) ==
    /\ pc[c] = "send"
    /\ LET k == mine[c] IN
         \/ /\ Alive(k)
            /\ stdin' = [stdin EXCEPT ![k] = Append(@, Id(c))]
            /\ pc' = [pc EXCEPT ![c] = "read"]
            /\ UNCHANGED outcome
         \/ /\ worker[k] \in {"exiting", "dead"}
            /\ Ended(c, "failed")
            /\ UNCHANGED stdin
    /\ UNCHANGED <<available, made, mine, asked, preloading, worker, stdout>>

\* Mutant of Judged: the status is passed on.
JudgedRaw(c, answer) == answer.status

\* _exchange judges the status before the id.
Judged(c, answer) ==
    IF answer.status # "ok" THEN "failed"
    ELSE IF answer.id # Id(c) THEN "mismatch" ELSE "ok"

\* Mutant of Read: a caller stops waiting and returns its client.
ReadOrGiveUp(c) ==
    /\ pc[c] = "read"
    /\ LET k == mine[c] IN
         \/ /\ stdout[k] # << >>
            /\ Ended(c, Judged(c, Head(stdout[k])))
            /\ stdout' = [stdout EXCEPT ![k] = Tail(@)]
         \/ /\ Ended(c, "failed")
            /\ UNCHANGED stdout
    /\ UNCHANGED <<available, made, mine, asked, preloading, worker, stdin>>

\* Mutant of Read: only a line ends the wait.
ReadLine(c) ==
    /\ pc[c] = "read"
    /\ LET k == mine[c] IN
         /\ stdout[k] # << >>
         /\ Ended(c, Judged(c, Head(stdout[k])))
         /\ stdout' = [stdout EXCEPT ![k] = Tail(@)]
    /\ UNCHANGED <<available, made, mine, asked, preloading, worker, stdin>>

\* readline returns the next line, or the end of the file of a dead worker.
Read(c) ==
    /\ pc[c] = "read"
    /\ LET k == mine[c] IN
         \/ /\ stdout[k] # << >>
            /\ Ended(c, Judged(c, Head(stdout[k])))
            /\ stdout' = [stdout EXCEPT ![k] = Tail(@)]
         \/ /\ stdout[k] = << >>
            /\ ~ Alive(k)
            /\ Ended(c, "failed")
            /\ UNCHANGED stdout
    /\ UNCHANGED <<available, made, mine, asked, preloading, worker, stdin>>

\* Mutant of Put: the client of a failed request is not put back.
PutOnSuccess(c) ==
    /\ pc[c] = "put"
    /\ pc' = [pc EXCEPT ![c] = "idle"]
    /\ mine' = [mine EXCEPT ![c] = NoClient]
    /\ IF preloading = "running"
       THEN /\ preloading' = IF outcome[c] = "ok" THEN "loaded" ELSE "failed"
            /\ UNCHANGED available
       ELSE /\ available' = IF outcome[c] = "ok" THEN Append(available, mine[c]) ELSE available
            /\ UNCHANGED preloading
    /\ UNCHANGED <<made, asked, outcome, processes>>

\* clients.put(client) in the finally clause of predict; preload has nothing
\* to put back.
Put(c) ==
    /\ pc[c] = "put"
    /\ pc' = [pc EXCEPT ![c] = "idle"]
    /\ mine' = [mine EXCEPT ![c] = NoClient]
    /\ IF preloading = "running"
       THEN /\ preloading' = IF outcome[c] = "ok" THEN "loaded" ELSE "failed"
            /\ UNCHANGED available
       ELSE /\ available' = Append(available, mine[c])
            /\ UNCHANGED preloading
    /\ UNCHANGED <<made, asked, outcome, processes>>

\* close, after the last prediction: the workers are terminated or killed, and
\* the next prediction would begin with a new pool.
Close ==
    /\ Idle
    /\ made \/ \E k \in Clients : worker[k] # "none"
    /\ made' = FALSE
    /\ available' = << >>
    /\ worker' = [k \in Clients |-> "none"]
    /\ stdin' = [k \in Clients |-> << >>]
    /\ stdout' = [k \in Clients |-> << >>]
    /\ UNCHANGED callers
-------------------------------------------------------------------------------
\* The worker process of client k (scripts/integrations/lae_dino_worker.py).

Says(k, answer) == stdout' = [stdout EXCEPT ![k] = Append(@, answer)]

\* The model is loaded, or a line without an id says why it is not and the
\* process returns 2.
Load(k) ==
    /\ worker[k] = "loading"
    /\ \/ /\ worker' = [worker EXCEPT ![k] = "ready"]
          /\ UNCHANGED stdout
       \/ /\ worker' = [worker EXCEPT ![k] = "exiting"]
          /\ Says(k, [id |-> NoId, status |-> "failed"])
    /\ UNCHANGED <<available, made, callers, stdin>>

Exit(k) ==
    /\ worker[k] = "exiting"
    /\ worker' = [worker EXCEPT ![k] = "dead"]
    /\ UNCHANGED <<available, made, callers, stdin, stdout>>

\* One request is answered: an initialize request, which has no image, is
\* refused; a prediction succeeds or fails.
Serve(k) ==
    /\ worker[k] = "ready"
    /\ stdin[k] # << >>
    /\ \E status \in IF preloading = "running" THEN {"failed"} ELSE {"ok", "failed"} :
          Says(k, [id |-> Head(stdin[k]), status |-> status])
    /\ stdin' = [stdin EXCEPT ![k] = Tail(@)]
    /\ UNCHANGED <<available, made, callers, worker>>

\* The worker is killed, perhaps in the middle of writing an answer.
Die(k) ==
    /\ Alive(k)
    /\ worker' = [worker EXCEPT ![k] = "dead"]
    /\ \/ UNCHANGED stdout
       \/ /\ worker[k] = "ready"
          /\ stdin[k] # << >>
          /\ Says(k, [id |-> NoId, status |-> "cut"])
    /\ UNCHANGED <<available, made, callers, stdin>>

CallerStep(c) ==
    \/ Get(c)
    \/ Start(c)
    \/ Send(c)
    \/ Read(c)
    \/ Put(c)

WorkerStep(k) ==
    \/ Load(k)
    \/ Exit(k)
    \/ Serve(k)

Next ==
    \/ \E c \in Callers : Ask(c) \/ Preload(c) \/ CallerStep(c)
    \/ \E k \in Clients : WorkerStep(k) \/ Die(k)
    \/ Close

Spec == Init /\ [][Next]_vars

\* The callers run, and a worker that is alive answers: the code has no
\* timeout that would end a request to a worker that hangs.
FairSpec ==
    /\ Spec
    /\ \A c \in Callers : WF_vars(CallerStep(c))
    /\ \A k \in Clients : WF_vars(WorkerStep(k))
-------------------------------------------------------------------------------
\* The clients a caller has taken from the queue.
Taken == {c \in Callers : pc[c] \notin {"idle", "get"} /\ preloading # "running"}

\* _ensure_client_pool, predict: once the pool exists every client is in the
\* queue, once, or with one caller, also after a request that raised; the queue
\* never loses a client, and no client has two users.
ClientsConserved ==
    made =>
        /\ \A i, j \in DOMAIN available : available[i] = available[j] => i = j
        /\ \A c \in Taken :
              /\ \A i \in DOMAIN available : available[i] # mine[c]
              /\ \A d \in Taken : mine[c] = mine[d] => c = d
        /\ \A k \in Clients : \/ \E i \in DOMAIN available : available[i] = k
                              \/ \E c \in Taken : mine[c] = k

Reading(c, k) == pc[c] = "read" /\ mine[c] = k

\* _exchange, predict: what is in the pipes of a client belongs to the request
\* of the caller that reads from it, or to no request, so an answer is never
\* left for another request to read, whatever died or failed before.
PipesHoldOneRequest ==
    \A k \in Clients :
        /\ (worker[k] \in {"loading", "ready"} /\ stdin[k] # << >>) =>
              \E c \in Callers : Reading(c, k) /\ stdin[k] = <<Id(c)>>
        /\ \A i \in DOMAIN stdout[k] : stdout[k][i].id # NoId =>
              \E c \in Callers : Reading(c, k) /\ stdout[k][i].id = Id(c)

\* _exchange: the "response id mismatch" error has no cause in this protocol.
NoIdMismatch == \A c \in Callers : outcome[c] # "mismatch"

\* predict ends for every caller, whichever workers fail or die, as long as a
\* worker that is alive answers.
PredictEnds == \A c \in Callers : (pc[c] # "idle") ~> (pc[c] = "idle")
===============================================================================
