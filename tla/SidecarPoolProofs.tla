--------------------------- MODULE SidecarPoolProofs ---------------------------
(***************************************************************************)
(* Proofs about SidecarPool for every set of callers and clients.          *)
(*                                                                         *)
(* PoolInv: a client is in the queue once or with one caller.  PipeInv,    *)
(* which needs it: the pipes of a client hold nothing, or the request or   *)
(* the answer of the one caller that has it, or a line without an id.      *)
(***************************************************************************)
EXTENDS SidecarPool, FiniteSetTheorems, TLAPS

Users == {c \in Callers : pc[c] \notin {"idle", "get"}}

\* The shape of the caller side.
Shape ==
    /\ available \in Seq(Clients)
    /\ made \in BOOLEAN
    /\ pc \in [Callers -> {"idle", "get", "start", "send", "read", "put"}]
    /\ mine \in [Callers -> Clients \cup {NoClient}]
    /\ \A c \in Users : mine[c] \in Clients
    /\ preloading \in {"no", "running", "failed", "loaded"}

Exclusive == \A c, d \in Users : mine[c] = mine[d] => c = d

\* While a preload runs its caller is the only one that does anything.
PreloadAlone ==
    preloading = "running" => /\ \A c \in Callers : pc[c] # "get"
                              /\ \A c, d \in Users : c = d
                              /\ Users # {}

Unmade == ~ made => /\ \A c \in Callers : pc[c] # "get"
                    /\ preloading # "running" => Users = {}

PoolInv == Shape /\ Exclusive /\ PreloadAlone /\ Unmade /\ ClientsConserved

\* The queue after a client was taken from its head or put at its end.
LEMMA QueueFacts ==
    ASSUME NEW S, NEW q \in Seq(S), NEW e \in S
    PROVE  /\ Append(q, e) \in Seq(S)
           /\ DOMAIN q = 1..Len(q)
           /\ Len(q) \in Nat
           /\ DOMAIN Append(q, e) = 1..(Len(q) + 1)
           /\ Append(q, e)[Len(q) + 1] = e
           /\ \A i \in 1..Len(q) : Append(q, e)[i] = q[i]
           /\ q # << >> => /\ Tail(q) \in Seq(S)
                           /\ Head(q) = q[1]
                           /\ Head(q) \in S
                           /\ Len(q) >= 1
                           /\ DOMAIN Tail(q) = 1..(Len(q) - 1)
                           /\ \A i \in 1..(Len(q) - 1) : Tail(q)[i] = q[i + 1]
OBVIOUS

LEMMA ListedFacts ==
    ASSUME NEW order \in Listed
    PROVE  /\ order \in Seq(Clients)
           /\ \A i, j \in DOMAIN order : order[i] = order[j] => i = j
           /\ \A k \in Clients : \E i \in DOMAIN order : order[i] = k
<1>1. Cardinality(Clients) \in Nat
  BY PoolAssumption, FS_CardinalityType
<1>2. QED
  BY <1>1 DEF Listed

LEMMA InitPool == Init => PoolInv
<1> SUFFICES ASSUME Init PROVE PoolInv
  OBVIOUS
<1>1. Users = {}
  BY DEF Init, Users
<1>2. << >> \in Seq(Clients)
  OBVIOUS
<1>3. Shape
  BY <1>1, <1>2 DEF Init, Shape
<1>4. Exclusive /\ PreloadAlone /\ Unmade /\ ClientsConserved
  BY <1>1 DEF Init, Exclusive, PreloadAlone, Unmade, ClientsConserved
<1>5. QED
  BY <1>3, <1>4 DEF PoolInv

LEMMA NextPool == PoolInv /\ [Next]_vars => PoolInv'
<1> SUFFICES ASSUME PoolInv, [Next]_vars PROVE PoolInv'
  OBVIOUS
<1>1. ASSUME NEW c \in Callers, Ask(c) PROVE PoolInv'
  <2>1. Users' = Users
    BY <1>1 DEF Ask, Users, PoolInv, Shape
  <2>2. available' \in Seq(Clients) /\ mine' = mine /\ preloading' = preloading
    BY <1>1, ListedFacts DEF Ask, PoolInv, Shape
  <2>3. Shape'
    BY <1>1, <2>1, <2>2 DEF Ask, PoolInv, Shape
  <2>4. Exclusive' /\ PreloadAlone' /\ Unmade'
    BY <1>1, <2>1, <2>2 DEF Ask, PoolInv, Shape, Exclusive, PreloadAlone, Unmade
  <2>5. Taken' = Taken
    BY <1>1 DEF Ask, Taken, PoolInv, Shape
  <2>6. ClientsConserved'
    <3>1. CASE made
      BY <1>1, <2>2, <2>5, <3>1 DEF Ask, PoolInv, ClientsConserved
    <3>2. CASE ~ made
      <4>1. Taken = {}
        BY <3>2 DEF PoolInv, Unmade, Users, Taken
      <4>2. available' \in Listed
        BY <1>1, <3>2 DEF Ask
      <4>3. QED
        BY <2>5, <4>1, <4>2, ListedFacts DEF ClientsConserved
    <3>3. QED
      BY <3>1, <3>2
  <2>7. QED
    BY <2>3, <2>4, <2>6 DEF PoolInv
<1>2. ASSUME NEW c \in Callers, Get(c) PROVE PoolInv'
  <2>1. made /\ preloading # "running" /\ preloading' = preloading /\ made' = made
    BY <1>2 DEF Get, PoolInv, Unmade, PreloadAlone
  <2>2. Users' = Users \cup {c} /\ c \notin Users
    BY <1>2 DEF Get, Users, PoolInv, Shape
  <2>3. Taken' = Users' /\ Taken = Users
    BY <2>1 DEF Taken, Users
  <2>4. /\ Head(available) \in Clients /\ Head(available) = available[1]
        /\ Tail(available) \in Seq(Clients)
        /\ DOMAIN available = 1..Len(available) /\ Len(available) \in Nat /\ Len(available) >= 1
        /\ DOMAIN Tail(available) = 1..(Len(available) - 1)
        /\ \A i \in 1..(Len(available) - 1) : Tail(available)[i] = available[i + 1]
    BY <1>2, QueueFacts DEF Get, PoolInv, Shape
  <2>5. /\ mine' = [mine EXCEPT ![c] = Head(available)]
        /\ mine'[c] = Head(available)
        /\ \A d \in Users : mine'[d] = mine[d]
    BY <1>2, <2>2 DEF Get, PoolInv, Shape, Users
  <2>6. Shape'
    BY <1>2, <2>1, <2>2, <2>4, <2>5 DEF Get, PoolInv, Shape
  <2>7. \A d \in Users : mine[d] # Head(available)
    BY <2>1, <2>3, <2>4 DEF PoolInv, ClientsConserved
  <2>8. Exclusive'
    BY <2>2, <2>5, <2>7 DEF PoolInv, Exclusive
  <2>9. PreloadAlone' /\ Unmade'
    BY <2>1 DEF PreloadAlone, Unmade
  <2>10. ClientsConserved'
    <3>1. available' = Tail(available)
      BY <1>2 DEF Get
    <3>2. \A i \in DOMAIN available' : i + 1 \in DOMAIN available /\ available'[i] = available[i + 1]
      BY <2>4, <3>1
    <3>3. \A i, j \in DOMAIN available' : available'[i] = available'[j] => i = j
      <4>1. \A i \in DOMAIN available' : i \in Nat
        BY <2>4, <3>1
      <4>2. QED
        BY <2>1, <3>2, <4>1 DEF PoolInv, ClientsConserved
    <3>4. ASSUME NEW d \in Taken', NEW i \in DOMAIN available' PROVE available'[i] # mine'[d]
      <4>1. i \in Nat /\ i + 1 # 1 /\ 1 \in DOMAIN available
        BY <2>4, <3>1
      <4>2. CASE d = c
        BY <2>1, <2>4, <2>5, <3>2, <4>1, <4>2 DEF PoolInv, ClientsConserved
      <4>3. CASE d # c
        BY <2>1, <2>2, <2>3, <2>5, <3>2, <4>3 DEF PoolInv, ClientsConserved
      <4>4. QED
        BY <4>2, <4>3
    <3>5. \A d, e \in Taken' : mine'[d] = mine'[e] => d = e
      BY <2>3, <2>8 DEF Exclusive
    <3>6. ASSUME NEW k \in Clients
          PROVE  (\E i \in DOMAIN available' : available'[i] = k) \/ \E d \in Taken' : mine'[d] = k
      <4>1. CASE \E d \in Taken : mine[d] = k
        BY <2>2, <2>3, <2>5, <4>1
      <4>2. CASE \E i \in DOMAIN available : available[i] = k
        <5>1. PICK i \in DOMAIN available : available[i] = k
          BY <4>2
        <5>2. CASE i = 1
          BY <2>2, <2>3, <2>4, <2>5, <5>1, <5>2
        <5>3. CASE i # 1
          <6>1. i - 1 \in 1..(Len(available) - 1) /\ (i - 1) + 1 = i
            BY <2>4, <5>3
          <6>2. QED
            BY <2>4, <3>1, <5>1, <6>1
        <5>4. QED
          BY <5>2, <5>3
      <4>3. QED
        BY <2>1, <4>1, <4>2 DEF PoolInv, ClientsConserved
    <3>7. QED
      BY <3>3, <3>4, <3>5, <3>6 DEF ClientsConserved
  <2>11. QED
    BY <2>6, <2>8, <2>9, <2>10 DEF PoolInv
<1>3. ASSUME NEW c \in Callers, Preload(c) PROVE PoolInv'
  <2>1. Users = {} /\ Users' = {c}
    BY <1>3 DEF Preload, Users, Idle, PoolInv, Shape
  <2>2. Taken = {} /\ Taken' = {}
    BY <1>3 DEF Preload, Taken, Idle
  <2>3. Shape'
    BY <1>3, <2>1, PoolAssumption DEF Preload, PoolInv, Shape
  <2>4. Exclusive' /\ PreloadAlone' /\ Unmade'
    BY <1>3, <2>1 DEF Preload, Idle, PoolInv, Shape, Exclusive, PreloadAlone, Unmade
  <2>5. ClientsConserved'
    BY <1>3, <2>2 DEF Preload, PoolInv, ClientsConserved
  <2>6. QED
    BY <2>3, <2>4, <2>5 DEF PoolInv
<1>4. ASSUME NEW c \in Callers, Start(c) \/ Send(c) \/ Read(c) PROVE PoolInv'
  <2>1. /\ c \in Users /\ pc'[c] \in {"send", "read", "put"}
        /\ pc' = [pc EXCEPT ![c] = pc'[c]]
        /\ UNCHANGED <<available, made, mine, preloading>>
    BY <1>4 DEF Start, Send, Read, Ended, Users, PoolInv, Shape
  <2>2. Users' = Users
    BY <2>1 DEF Users, PoolInv, Shape
  <2>3. Taken' = Taken
    BY <2>1 DEF Taken, Users, PoolInv, Shape
  <2>4. Shape'
    BY <2>1, <2>2 DEF PoolInv, Shape
  <2>5. Exclusive' /\ PreloadAlone' /\ Unmade' /\ ClientsConserved'
    BY <2>1, <2>2, <2>3 DEF PoolInv, Shape, Exclusive, PreloadAlone, Unmade, ClientsConserved
  <2>6. QED
    BY <2>4, <2>5 DEF PoolInv
<1>5. ASSUME NEW c \in Callers, Put(c) PROVE PoolInv'
  <2>1. c \in Users /\ Users' = Users \ {c} /\ mine[c] \in Clients /\ made' = made
    BY <1>5 DEF Put, Users, PoolInv, Shape
  <2>2. \A d \in Users' : mine'[d] = mine[d]
    BY <1>5, <2>1 DEF Put, PoolInv, Shape, Users
  <2>3. CASE preloading = "running"
    <3>1. Users' = {} /\ available' = available /\ preloading' # "running"
      BY <1>5, <2>1, <2>3 DEF Put, PoolInv, PreloadAlone
    <3>2. Shape'
      BY <1>5, <2>3, <3>1 DEF Put, PoolInv, Shape
    <3>3. Exclusive' /\ PreloadAlone' /\ Unmade'
      <4>1. \A d \in Callers : pc'[d] # "get"
        BY <1>5, <2>3 DEF Put, PoolInv, Shape, PreloadAlone
      <4>2. QED
        BY <3>1, <4>1 DEF Exclusive, PreloadAlone, Unmade
    <3>4. Taken = {} /\ Taken' = {}
      BY <2>3, <3>1 DEF Taken, Users
    <3>5. ClientsConserved'
      BY <2>1, <3>1, <3>4 DEF PoolInv, ClientsConserved
    <3>6. QED
      BY <3>2, <3>3, <3>5 DEF PoolInv
  <2>4. CASE preloading # "running"
    <3>1. made /\ available' = Append(available, mine[c]) /\ preloading' = preloading
      BY <1>5, <2>1, <2>4 DEF Put, PoolInv, Unmade
    <3>2. /\ Append(available, mine[c]) \in Seq(Clients)
          /\ DOMAIN available = 1..Len(available) /\ Len(available) \in Nat
          /\ DOMAIN available' = 1..(Len(available) + 1)
          /\ available'[Len(available) + 1] = mine[c]
          /\ \A i \in 1..Len(available) : available'[i] = available[i]
      BY <2>1, <3>1, QueueFacts DEF PoolInv, Shape
    <3>3. Taken = Users /\ Taken' = Users'
      BY <2>4, <3>1 DEF Taken, Users
    <3>4. Shape'
      BY <1>5, <2>1, <2>2, <3>1, <3>2 DEF Put, PoolInv, Shape
    <3>5. Exclusive' /\ PreloadAlone' /\ Unmade'
      BY <2>1, <2>2, <2>4, <3>1 DEF PoolInv, Exclusive, PreloadAlone, Unmade
    <3>6. \A i \in 1..Len(available) : available[i] # mine[c]
      BY <2>1, <3>1, <3>2, <3>3 DEF PoolInv, ClientsConserved
    <3>7. \A i \in 1..(Len(available) + 1) : i \in 1..Len(available) \/ i = Len(available) + 1
      BY <3>2
    <3>8. ClientsConserved'
      <4>1. \A i, j \in DOMAIN available' : available'[i] = available'[j] => i = j
        BY <3>1, <3>2, <3>6, <3>7 DEF PoolInv, ClientsConserved
      <4>2. \A d \in Taken' : \A i \in DOMAIN available' : available'[i] # mine'[d]
        BY <2>1, <2>2, <3>1, <3>2, <3>3, <3>7 DEF PoolInv, ClientsConserved, Exclusive
      <4>3. \A d, e \in Taken' : mine'[d] = mine'[e] => d = e
        BY <3>3, <3>5 DEF Exclusive
      <4>4. ASSUME NEW k \in Clients
            PROVE  (\E i \in DOMAIN available' : available'[i] = k) \/ \E d \in Taken' : mine'[d] = k
        <5>1. CASE \E i \in DOMAIN available : available[i] = k
          <6>1. 1..Len(available) \subseteq 1..(Len(available) + 1)
            BY <3>2
          <6>2. QED
            BY <3>2, <5>1, <6>1
        <5>2. CASE \E d \in Taken : mine[d] = k
          <6>1. PICK d \in Taken : mine[d] = k
            BY <5>2
          <6>2. CASE d = c
            <7>1. Len(available) + 1 \in 1..(Len(available) + 1)
              BY <3>2
            <7>2. QED
              BY <3>2, <6>1, <6>2, <7>1
          <6>3. CASE d # c
            BY <2>1, <2>2, <3>3, <6>1, <6>3
          <6>4. QED
            BY <6>2, <6>3
        <5>3. QED
          BY <3>1, <5>1, <5>2 DEF PoolInv, ClientsConserved
      <4>5. QED
        BY <4>1, <4>2, <4>3, <4>4 DEF ClientsConserved
    <3>9. QED
      BY <3>1, <3>4, <3>5, <3>8 DEF PoolInv
  <2>5. QED
    BY <2>3, <2>4
<1>6. CASE Close
  <2>1. Users = {} /\ Users' = {} /\ \A c \in Callers : pc'[c] # "get"
    BY <1>6 DEF Close, callers, Idle, Users
  <2>2. available' \in Seq(Clients)
    BY <1>6 DEF Close
  <2>3. Shape'
    BY <1>6, <2>1, <2>2 DEF Close, callers, PoolInv, Shape
  <2>4. preloading' # "running"
    BY <1>6, <2>1 DEF Close, callers, PoolInv, PreloadAlone
  <2>5. Exclusive' /\ PreloadAlone' /\ Unmade' /\ ClientsConserved'
    BY <1>6, <2>1, <2>4 DEF Close, Exclusive, PreloadAlone, Unmade, ClientsConserved
  <2>6. QED
    BY <2>3, <2>5 DEF PoolInv
<1>7. CASE \/ \E k \in Clients : WorkerStep(k) \/ Die(k)
           \/ UNCHANGED vars
  <2>1. UNCHANGED <<available, made, callers>>
    BY <1>7 DEF WorkerStep, Load, Exit, Serve, Die, vars, callers
  <2>2. QED
    BY <2>1 DEF callers, PoolInv, Shape, Users, Exclusive, PreloadAlone, Unmade,
                ClientsConserved, Taken
<1>8. QED
  BY <1>1, <1>2, <1>3, <1>4, <1>5, <1>6, <1>7 DEF Next, CallerStep

\* The pool never loses a client and never gives one to two callers, for any
\* number of callers, clients and requests (_ensure_client_pool, predict).
THEOREM PoolConserved == Spec => []ClientsConserved
<1>1. PoolInv => ClientsConserved
  BY DEF PoolInv
<1>2. QED
  BY <1>1, InitPool, NextPool, PTL DEF Spec
-------------------------------------------------------------------------------
\* The pipes.  Ids and answers are not looked into: an answer is compared with
\* the id of a request, and one without an id is no success.

OneRequest(k) ==
    worker[k] \in {"loading", "ready"} =>
        \/ stdin[k] = << >>
        \/ stdout[k] = << >> /\ \E c \in Callers : Reading(c, k) /\ stdin[k] = <<Id(c)>>

OneAnswer(k) ==
    \/ stdout[k] = << >>
    \/ \E a : /\ stdout[k] = <<a>>
              /\ a.id = NoId /\ a.status # "ok" /\ worker[k] \in {"exiting", "dead"}
    \/ \E a : /\ stdout[k] = <<a>>
              /\ worker[k] # "loading"
              /\ \E c \in Callers : Reading(c, k) /\ a.id = Id(c)

PipeInv ==
    /\ PoolInv
    /\ asked \in [Callers -> Nat]
    /\ worker \in [Clients -> {"none", "loading", "ready", "exiting", "dead"}]
    /\ DOMAIN stdin = Clients /\ DOMAIN stdout = Clients
    /\ \A k \in Clients : OneRequest(k) /\ OneAnswer(k)
    /\ outcome \in [Callers -> {"none", "ok", "failed"}]

LEMMA InitPipe == Init => PipeInv
<1> SUFFICES ASSUME Init PROVE PipeInv
  OBVIOUS
<1>1. \A k \in Clients : OneRequest(k) /\ OneAnswer(k)
  BY DEF Init, OneRequest, OneAnswer
<1>2. QED
  BY <1>1, InitPool DEF Init, PipeInv

LEMMA NextPipe == PipeInv /\ [Next]_vars => PipeInv'
<1> SUFFICES ASSUME PipeInv, [Next]_vars PROVE PipeInv'
  OBVIOUS
<1>p. PoolInv'
  BY NextPool DEF PipeInv
<1>t. /\ pc \in [Callers -> {"idle", "get", "start", "send", "read", "put"}]
      /\ \A c, d \in Users : mine[c] = mine[d] => c = d
      /\ \A c \in Users : mine[c] \in Clients
  BY DEF PipeInv, PoolInv, Shape, Exclusive
<1>1. ASSUME NEW c \in Callers, Ask(c) \/ Get(c) \/ Preload(c) \/ Put(c) PROVE PipeInv'
  <2>1. /\ pc[c] # "read" /\ pc'[c] # "read"
        /\ \A d \in Callers : d # c => pc'[d] = pc[d] /\ mine'[d] = mine[d] /\ asked'[d] = asked[d]
        /\ UNCHANGED processes
        /\ asked' \in [Callers -> Nat]
        /\ outcome' \in [Callers -> {"none", "ok", "failed"}]
    <3>0. /\ mine \in [Callers -> Clients \cup {NoClient}]
          /\ asked \in [Callers -> Nat]
          /\ outcome \in [Callers -> {"none", "ok", "failed"}]
      BY DEF PipeInv, PoolInv, Shape
    <3>1. CASE Ask(c)
      BY <1>t, <3>0, <3>1 DEF Ask
    <3>2. CASE Get(c)
      BY <1>t, <3>0, <3>2 DEF Get
    <3>3. CASE Preload(c)
      BY <1>t, <3>0, <3>3 DEF Preload, Idle
    <3>4. CASE Put(c)
      BY <1>t, <3>0, <3>4 DEF Put
    <3>5. QED
      BY <1>1, <3>1, <3>2, <3>3, <3>4
  <2>2. \A d \in Callers, k \in Clients : Reading(d, k)' <=> Reading(d, k)
    BY <2>1 DEF Reading
  <2>3. \A d \in Callers, k \in Clients : Reading(d, k) => Id(d)' = Id(d)
    BY <2>1 DEF Reading, Id
  <2>4. ASSUME NEW k \in Clients PROVE OneRequest(k)' /\ OneAnswer(k)'
    BY <2>1, <2>2, <2>3 DEF processes, PipeInv, OneRequest, OneAnswer
  <2>5. QED
    BY <1>p, <2>1, <2>4 DEF processes, PipeInv
<1>2. ASSUME NEW c \in Callers, NEW m \in Clients, m = mine[c],
             Start(c) \/ Send(c) \/ Read(c)
      PROVE  PipeInv'
  <2>0. c \in Users /\ \A d \in Callers, k \in Clients : Reading(d, k) /\ k = m => d = c
    BY <1>2, <1>t DEF Start, Send, Read, Users, Reading
  <2>1. /\ \A d \in Callers : d # c => pc'[d] = pc[d]
        /\ mine' = mine /\ asked' = asked
        /\ \A k \in Clients : k # m => /\ worker'[k] = worker[k] /\ stdin'[k] = stdin[k]
                                       /\ stdout'[k] = stdout[k]
        /\ worker' \in [Clients -> {"none", "loading", "ready", "exiting", "dead"}]
        /\ DOMAIN stdin' = Clients /\ DOMAIN stdout' = Clients
    BY <1>2, <1>t DEF Start, Send, Read, Ended, processes, PipeInv
  <2>2. ASSUME NEW k \in Clients, k # m PROVE OneRequest(k)' /\ OneAnswer(k)'
    <3>1. \A d \in Callers : Reading(d, k) => d # c
      BY <1>2, <2>2 DEF Reading
    <3>2. \A d \in Callers : Reading(d, k)' <=> Reading(d, k)
      <4>1. ~ Reading(c, k)'
        BY <1>2, <2>1, <2>2 DEF Reading
      <4>2. QED
        BY <2>1, <3>1, <4>1 DEF Reading
    <3>3. \A d \in Callers : Id(d)' = Id(d)
      BY <2>1 DEF Id
    <3>4. worker'[k] = worker[k] /\ stdin'[k] = stdin[k] /\ stdout'[k] = stdout[k]
      BY <2>1, <2>2
    <3>5. OneRequest(k) /\ OneAnswer(k)
      BY DEF PipeInv
    <3>6. QED
      BY <3>2, <3>3, <3>4, <3>5 DEF OneRequest, OneAnswer
  <2>3. OneRequest(m) /\ OneAnswer(m) /\ m \in Clients
    BY DEF PipeInv
  <2>4. outcome \in [Callers -> {"none", "ok", "failed"}]
    BY DEF PipeInv
  <2>5. OneRequest(m)' /\ OneAnswer(m)' /\ outcome' \in [Callers -> {"none", "ok", "failed"}]
    <3>1. CASE Start(c)
      <4>1. ~ Reading(c, m)
        BY <3>1 DEF Start, Reading
      <4>2. stdin[m] = << >> \/ worker[m] \notin {"loading", "ready"}
        BY <2>0, <2>3, <4>1 DEF OneRequest
      <4>3. \/ stdout[m] = << >>
            \/ \E a : /\ stdout[m] = <<a>> /\ a.id = NoId /\ a.status # "ok"
                      /\ worker[m] \in {"exiting", "dead"}
        BY <2>0, <2>3, <4>1 DEF OneAnswer
      <4>4. CASE UNCHANGED processes
        BY <1>2, <2>4, <3>1, <4>2, <4>3, <4>4 DEF Start, Ended, processes, OneRequest, OneAnswer
      <4>5. CASE ~ UNCHANGED processes
        BY <1>2, <2>4, <3>1, <4>5 DEF Start, processes, OneRequest, OneAnswer, PipeInv
      <4>6. QED
        BY <4>4, <4>5
    <3>2. CASE Send(c)
      <4>1. ~ Reading(c, m)
        BY <3>2 DEF Send, Reading
      <4>2. stdin[m] = << >> \/ worker[m] \notin {"loading", "ready"}
        BY <2>0, <2>3, <4>1 DEF OneRequest
      <4>3. \/ stdout[m] = << >>
            \/ \E a : /\ stdout[m] = <<a>> /\ a.id = NoId /\ a.status # "ok"
                      /\ worker[m] \in {"exiting", "dead"}
        BY <2>0, <2>3, <4>1 DEF OneAnswer
      <4>4. worker' = worker /\ stdout' = stdout
        BY <3>2 DEF Send
      <4>5. OneAnswer(m)'
        BY <4>3, <4>4 DEF OneAnswer
      <4>6. outcome' \in [Callers -> {"none", "ok", "failed"}]
        BY <2>4, <3>2 DEF Send, Ended
      <4>7. OneRequest(m)'
        <5>1. CASE worker[m] \in {"exiting", "dead"}
          BY <4>4, <5>1 DEF OneRequest
        <5>2. CASE worker[m] \notin {"exiting", "dead"}
          <6>1. stdin' = [stdin EXCEPT ![m] = Append(stdin[m], Id(c))] /\ pc'[c] = "read"
            BY <1>2, <1>t, <3>2, <5>2 DEF Send
          <6>2. CASE worker[m] \in {"loading", "ready"}
            <7>1. stdin'[m] = <<Id(c)>>
              <8>1. \A a : Append(<< >>, a) = <<a>>
                OBVIOUS
              <8>2. stdin[m] = << >> /\ m \in DOMAIN stdin
                BY <4>2, <6>2 DEF PipeInv
              <8>3. stdin'[m] = Append(stdin[m], Id(c))
                BY <6>1, <8>2
              <8>4. Append(stdin[m], Id(c)) = <<Id(c)>>
                BY <8>1, <8>2, Zenon
              <8>5. QED
                BY <8>3, <8>4, Zenon
            <7>2. stdout'[m] = << >>
              BY <4>3, <4>4, <6>2
            <7>3. Reading(c, m)' /\ Id(c)' = Id(c)
              BY <1>2, <2>1, <6>1 DEF Reading, Id
            <7>4. QED
              BY <7>1, <7>2, <7>3 DEF OneRequest
          <6>3. CASE worker[m] \notin {"loading", "ready"}
            BY <4>4, <6>3 DEF OneRequest
          <6>4. QED
            BY <6>2, <6>3
        <5>3. QED
          BY <5>1, <5>2
      <4>8. QED
        BY <4>5, <4>6, <4>7
    <3>3. CASE Read(c)
      <4>1. worker' = worker /\ stdin' = stdin /\ Reading(c, m)
        BY <1>2, <3>3 DEF Read, Reading
      <4>2. stdout'[m] = << >>
        <5>1. \A a : Tail(<<a>>) = << >>
          OBVIOUS
        <5>2. stdout[m] = << >> \/ \E a : stdout[m] = <<a>>
          BY <2>3 DEF OneAnswer
        <5>3. CASE stdout[m] = << >>
          BY <1>2, <3>3, <5>3 DEF Read
        <5>4. CASE stdout[m] # << >>
          <6>1. PICK a : stdout[m] = <<a>>
            BY <5>2, <5>4
          <6>2. m \in DOMAIN stdout /\ stdout' = [stdout EXCEPT ![m] = Tail(stdout[m])]
            BY <1>2, <3>3, <5>4 DEF Read, PipeInv
          <6>3. stdout'[m] = Tail(stdout[m])
            BY <6>2
          <6>4. QED
            BY <5>1, <6>1, <6>3, Zenon
        <5>5. QED
          BY <5>3, <5>4
      <4>3. OneAnswer(m)'
        BY <4>2 DEF OneAnswer
      <4>4. OneRequest(m)'
        <5>1. CASE stdout[m] = << >>
          BY <1>2, <3>3, <4>1, <5>1 DEF Read, Alive, OneRequest
        <5>2. CASE stdout[m] # << >>
          BY <2>3, <4>1, <5>2 DEF OneRequest
        <5>3. QED
          BY <5>1, <5>2
      <4>5. outcome' \in [Callers -> {"none", "ok", "failed"}]
        <5>1. CASE stdout[m] = << >>
          BY <1>2, <2>4, <3>3, <5>1 DEF Read, Ended
        <5>2. CASE stdout[m] # << >>
          <6>1. PICK a : /\ stdout[m] = <<a>>
                         /\ a.status # "ok" \/ a.id = Id(c)
            BY <2>0, <2>3, <5>2 DEF OneAnswer
          <6>2. Head(stdout[m]) = a
            BY <6>1
          <6>3. Judged(c, a) \in {"ok", "failed"}
            BY <6>1 DEF Judged
          <6>4. outcome' = [outcome EXCEPT ![c] = Judged(c, a)]
            BY <1>2, <3>3, <5>2, <6>2 DEF Read, Ended
          <6>5. QED
            BY <2>4, <6>3, <6>4
        <5>3. QED
          BY <5>1, <5>2
      <4>6. QED
        BY <4>3, <4>4, <4>5
    <3>4. QED
      BY <1>2, <3>1, <3>2, <3>3
  <2>6. \A k \in Clients : OneRequest(k)' /\ OneAnswer(k)'
    BY <1>2, <2>2, <2>5
  <2>7. QED
    BY <1>p, <2>1, <2>5, <2>6 DEF PipeInv
<1>3. ASSUME NEW c \in Callers, Start(c) \/ Send(c) \/ Read(c) PROVE mine[c] \in Clients
  BY <1>3, <1>t DEF Start, Send, Read, Users
<1>5. CASE Close
  <2>1. \A k \in Clients : OneRequest(k)' /\ OneAnswer(k)'
    BY <1>5 DEF Close, OneRequest, OneAnswer
  <2>2. QED
    BY <1>5, <1>p, <2>1 DEF Close, callers, PipeInv
<1>6. ASSUME NEW k \in Clients, WorkerStep(k) \/ Die(k) PROVE PipeInv'
  <2>1. /\ UNCHANGED callers
        /\ \A n \in Clients : n # k => /\ worker'[n] = worker[n] /\ stdin'[n] = stdin[n]
                                       /\ stdout'[n] = stdout[n]
        /\ worker' \in [Clients -> {"none", "loading", "ready", "exiting", "dead"}]
        /\ DOMAIN stdin' = Clients /\ DOMAIN stdout' = Clients
    BY <1>6 DEF WorkerStep, Load, Exit, Serve, Die, Says, PipeInv
  <2>2. \A d \in Callers, n \in Clients : (Reading(d, n)' <=> Reading(d, n)) /\ Id(d)' = Id(d)
    BY <2>1 DEF callers, Reading, Id
  <2>3. \A n \in Clients : n # k => OneRequest(n)' /\ OneAnswer(n)'
    BY <2>1, <2>2 DEF PipeInv, OneRequest, OneAnswer
  <2>4. OneRequest(k) /\ OneAnswer(k)
    BY DEF PipeInv
  <2>5. OneRequest(k)' /\ OneAnswer(k)'
    <3>1. CASE Load(k)
      <4>1. stdout[k] = << >>
        BY <2>4, <3>1 DEF Load, OneAnswer
      <4>2. CASE worker'[k] = "ready"
        BY <2>2, <2>4, <3>1, <4>1, <4>2 DEF Load, PipeInv, OneRequest, OneAnswer
      <4>3. CASE worker'[k] # "ready"
        <5>1. stdout'[k] = <<[id |-> NoId, status |-> "failed"]>> /\ worker'[k] = "exiting"
          BY <3>1, <4>1, <4>3 DEF Load, Says, PipeInv
        <5>2. QED
          BY <5>1 DEF OneRequest, OneAnswer
      <4>4. QED
        BY <4>2, <4>3
    <3>2. CASE Exit(k)
      BY <2>2, <2>4, <3>2 DEF Exit, PipeInv, OneRequest, OneAnswer
    <3>3. CASE Serve(k)
      <4>1. PICK c \in Callers : Reading(c, k) /\ stdin[k] = <<Id(c)>> /\ stdout[k] = << >>
        BY <2>4, <3>3 DEF Serve, OneRequest
      <4>2. Head(stdin[k]) = Id(c) /\ Tail(stdin[k]) = << >>
        BY <4>1
      <4>3. PICK status \in {"ok", "failed"} : stdout'[k] = <<[id |-> Id(c), status |-> status]>>
        BY <3>3, <4>1, <4>2 DEF Serve, Says, PipeInv
      <4>4. stdin'[k] = << >> /\ worker'[k] = "ready"
        BY <3>3, <4>2 DEF Serve, PipeInv
      <4>5. QED
        BY <2>2, <4>1, <4>3, <4>4 DEF OneRequest, OneAnswer
    <3>4. CASE Die(k)
      <4>1. worker'[k] = "dead" /\ worker[k] # "dead"
        BY <3>4 DEF Die, Alive, PipeInv
      <4>2. CASE stdout' = stdout
        BY <2>2, <2>4, <4>1, <4>2 DEF OneRequest, OneAnswer
      <4>3. CASE stdout' # stdout
        <5>1. stdout[k] = << >>
          BY <2>4, <3>4, <4>3 DEF Die, OneRequest
        <5>2. stdout'[k] = <<[id |-> NoId, status |-> "cut"]>>
          BY <3>4, <4>3, <5>1 DEF Die, Says, PipeInv
        <5>3. QED
          BY <4>1, <5>2 DEF OneRequest, OneAnswer
      <4>4. QED
        BY <4>2, <4>3
    <3>5. QED
      BY <1>6, <3>1, <3>2, <3>3, <3>4 DEF WorkerStep
  <2>6. QED
    BY <1>p, <2>1, <2>3, <2>5 DEF callers, PipeInv
<1>7. CASE UNCHANGED vars
  <2>1. \A k \in Clients : OneRequest(k)' /\ OneAnswer(k)'
    BY <1>7 DEF vars, PipeInv, OneRequest, OneAnswer, Reading, Id
  <2>2. QED
    BY <1>p, <1>7, <2>1 DEF vars, PipeInv
<1>8. QED
  BY <1>1, <1>2, <1>3, <1>5, <1>6, <1>7 DEF Next, CallerStep

\* An answer is never left for another request to read (_exchange).
THEOREM PipesExclusive == Spec => []PipesHoldOneRequest
<1>1. PipeInv => PipesHoldOneRequest
  <2> SUFFICES ASSUME PipeInv, NEW k \in Clients
               PROVE  /\ (worker[k] \in {"loading", "ready"} /\ stdin[k] # << >>) =>
                            \E c \in Callers : Reading(c, k) /\ stdin[k] = <<Id(c)>>
                      /\ \A i \in DOMAIN stdout[k] : stdout[k][i].id # NoId =>
                            \E c \in Callers : Reading(c, k) /\ stdout[k][i].id = Id(c)
    BY DEF PipesHoldOneRequest
  <2>1. OneRequest(k) /\ OneAnswer(k)
    BY DEF PipeInv
  <2>2. \A i \in DOMAIN stdout[k] : stdout[k] # << >> => i = 1
    BY <2>1 DEF OneAnswer
  <2>3. QED
    BY <2>1, <2>2 DEF OneRequest, OneAnswer
<1>2. QED
  BY <1>1, InitPipe, NextPipe, PTL DEF Spec

\* The id of an accepted answer is the id of the request: the mismatch error
\* has no cause (_exchange).
THEOREM NoMismatch == Spec => []NoIdMismatch
<1>1. PipeInv => NoIdMismatch
  BY DEF PipeInv, NoIdMismatch
<1>2. QED
  BY <1>1, InitPipe, NextPipe, PTL DEF Spec
-------------------------------------------------------------------------------
\* The types of what the other invariants do not look into: the numbers of the
\* requests and the lines in the pipes.
Answers == [id : Ids \cup {NoId}, status : Statuses]

LineInv ==
    /\ asked \in [Callers -> 0..MaxRequests]
    /\ \A c \in Callers : pc[c] # "idle" => asked[c] \in 1..MaxRequests
    /\ stdin \in [Clients -> Seq(Ids)]
    /\ stdout \in [Clients -> Seq(Answers)]

LEMMA InitLines == Init => LineInv
<1> SUFFICES ASSUME Init PROVE LineInv
  OBVIOUS
<1>1. << >> \in Seq(Ids) /\ << >> \in Seq(Answers)
  OBVIOUS
<1>2. QED
  BY <1>1, PoolAssumption DEF Init, LineInv

\* A pipe of lines from S after one line is added or taken.
LEMMA LineFacts ==
    ASSUME NEW S, NEW pipe \in [Clients -> Seq(S)], NEW k \in Clients
    PROVE  /\ \A e \in S : [pipe EXCEPT ![k] = Append(@, e)] \in [Clients -> Seq(S)]
           /\ pipe[k] # << >> => /\ [pipe EXCEPT ![k] = Tail(@)] \in [Clients -> Seq(S)]
                                /\ Head(pipe[k]) \in S
           /\ [pipe EXCEPT ![k] = << >>] \in [Clients -> Seq(S)]
<1>1. pipe[k] \in Seq(S)
  OBVIOUS
<1>2. \A e \in S : Append(pipe[k], e) \in Seq(S)
  BY <1>1
<1>3. pipe[k] # << >> => Tail(pipe[k]) \in Seq(S) /\ Head(pipe[k]) \in S
  BY <1>1
<1>4. << >> \in Seq(S)
  OBVIOUS
<1>5. QED
  BY <1>2, <1>3, <1>4

LEMMA NextLines == PipeInv /\ LineInv /\ [Next]_vars => LineInv'
<1> SUFFICES ASSUME PipeInv, LineInv, [Next]_vars PROVE LineInv'
  OBVIOUS
<1>t. /\ pc \in [Callers -> {"idle", "get", "start", "send", "read", "put"}]
      /\ asked \in [Callers -> 0..MaxRequests]
      /\ \A c \in Callers : pc[c] # "idle" => asked[c] \in 1..MaxRequests
      /\ stdin \in [Clients -> Seq(Ids)]
      /\ stdout \in [Clients -> Seq(Answers)]
      /\ \A c \in Users : mine[c] \in Clients
  BY DEF LineInv, PipeInv, PoolInv, Shape
<1>m. MaxRequests \in Nat
  BY PoolAssumption
<1>n. \A i \in 0..MaxRequests : i < MaxRequests => i + 1 \in 1..MaxRequests
  BY <1>m
<1>o. 1..MaxRequests \subseteq 0..MaxRequests
  BY <1>m
\* What a step does to a pipe of client k.
<1>i. \A k \in Clients :
        /\ \A e \in Ids : [stdin EXCEPT ![k] = Append(@, e)] \in [Clients -> Seq(Ids)]
        /\ stdin[k] # << >> => /\ [stdin EXCEPT ![k] = Tail(@)] \in [Clients -> Seq(Ids)]
                              /\ Head(stdin[k]) \in Ids
        /\ [stdin EXCEPT ![k] = << >>] \in [Clients -> Seq(Ids)]
  BY <1>t, LineFacts
<1>u. \A k \in Clients :
        /\ \A e \in Answers : [stdout EXCEPT ![k] = Append(@, e)] \in [Clients -> Seq(Answers)]
        /\ stdout[k] # << >> => [stdout EXCEPT ![k] = Tail(@)] \in [Clients -> Seq(Answers)]
        /\ [stdout EXCEPT ![k] = << >>] \in [Clients -> Seq(Answers)]
  BY <1>t, LineFacts
<1>1. ASSUME NEW c \in Callers, Ask(c) \/ Preload(c) PROVE LineInv'
  <2>1. asked' = [asked EXCEPT ![c] = @ + 1] /\ asked[c] < MaxRequests
    BY <1>1 DEF Ask, Preload
  <2>2. asked'[c] \in 1..MaxRequests /\ asked' \in [Callers -> 0..MaxRequests]
    BY <1>t, <1>n, <1>o, <2>1
  <2>3. \A d \in Callers : d # c => pc'[d] = pc[d] /\ asked'[d] = asked[d]
    BY <1>1, <1>t, <2>1 DEF Ask, Preload
  <2>4. UNCHANGED processes
    BY <1>1 DEF Ask, Preload
  <2>5. QED
    BY <1>t, <2>2, <2>3, <2>4 DEF LineInv, processes
<1>2. ASSUME NEW c \in Callers, CallerStep(c) PROVE LineInv'
  <2>1. asked' = asked /\ \A d \in Callers : pc[d] = "idle" => pc'[d] = "idle"
    BY <1>2, <1>t DEF CallerStep, Get, Start, Send, Read, Put, Ended
  <2>2. stdin' \in [Clients -> Seq(Ids)] /\ stdout' \in [Clients -> Seq(Answers)]
    <3>1. CASE Get(c) \/ Put(c)
      BY <1>t, <3>1 DEF Get, Put, processes
    <3>2. CASE Start(c)
      <4>1. mine[c] \in Clients
        BY <1>t, <3>2 DEF Start, Users
      <4>2. QED
        <5>1. \/ UNCHANGED processes
              \/ /\ stdin' = [stdin EXCEPT ![mine[c]] = << >>]
                 /\ stdout' = [stdout EXCEPT ![mine[c]] = << >>]
          BY <3>2 DEF Start
        <5>2. /\ [stdin EXCEPT ![mine[c]] = << >>] \in [Clients -> Seq(Ids)]
              /\ [stdout EXCEPT ![mine[c]] = << >>] \in [Clients -> Seq(Answers)]
          BY <1>i, <1>u, <4>1
        <5>3. QED
          BY <1>t, <5>1, <5>2 DEF processes
    <3>3. CASE Send(c)
      <4>1. mine[c] \in Clients /\ Id(c) \in Ids
        BY <1>t, <3>3 DEF Send, Users, Id, Ids
      <4>2. QED
        <5>1. /\ UNCHANGED stdout
              /\ \/ UNCHANGED stdin
                 \/ stdin' = [stdin EXCEPT ![mine[c]] = Append(@, Id(c))]
          BY <3>3 DEF Send
        <5>2. [stdin EXCEPT ![mine[c]] = Append(@, Id(c))] \in [Clients -> Seq(Ids)]
          BY <1>i, <4>1
        <5>3. QED
          BY <1>t, <5>1, <5>2
    <3>4. CASE Read(c)
      <4>1. mine[c] \in Clients
        BY <1>t, <3>4 DEF Read, Users
      <4>2. QED
        BY <1>t, <1>u, <3>4, <4>1 DEF Read, Ended
    <3>5. QED
      BY <1>2, <3>1, <3>2, <3>3, <3>4 DEF CallerStep
  <2>3. QED
    BY <1>t, <2>1, <2>2 DEF LineInv
<1>3. ASSUME NEW k \in Clients, WorkerStep(k) \/ Die(k) PROVE LineInv'
  <2>1. UNCHANGED callers
    BY <1>3 DEF WorkerStep, Load, Exit, Serve, Die
  <2>2. \A status \in Statuses : [id |-> NoId, status |-> status] \in Answers
    BY DEF Answers
  <2>3. stdin' \in [Clients -> Seq(Ids)] /\ stdout' \in [Clients -> Seq(Answers)]
    <3>1. CASE Load(k) \/ Exit(k) \/ Die(k)
      <4>1. /\ [id |-> NoId, status |-> "failed"] \in Answers
            /\ [id |-> NoId, status |-> "cut"] \in Answers
        BY <2>2 DEF Statuses
      <4>2. UNCHANGED stdin
        BY <3>1 DEF Load, Exit, Die
      <4>3. QED
        <5>1. \/ UNCHANGED stdout
              \/ Says(k, [id |-> NoId, status |-> "failed"])
              \/ Says(k, [id |-> NoId, status |-> "cut"])
          BY <3>1 DEF Load, Exit, Die
        <5>2. /\ [stdout EXCEPT ![k] = Append(@, [id |-> NoId, status |-> "failed"])]
                    \in [Clients -> Seq(Answers)]
              /\ [stdout EXCEPT ![k] = Append(@, [id |-> NoId, status |-> "cut"])]
                    \in [Clients -> Seq(Answers)]
          BY <1>u, <4>1
        <5>3. QED
          BY <1>t, <4>2, <5>1, <5>2 DEF Says
    <3>2. CASE Serve(k)
      <4>1. Head(stdin[k]) \in Ids
        BY <1>i, <3>2 DEF Serve
      <4>2. \A status \in Statuses : [id |-> Head(stdin[k]), status |-> status] \in Answers
        BY <4>1 DEF Answers
      <4>3. QED
        BY <1>i, <1>u, <3>2, <4>2 DEF Serve, Says, Statuses
    <3>3. QED
      BY <1>3, <3>1, <3>2 DEF WorkerStep
  <2>4. QED
    BY <1>t, <2>1, <2>3 DEF callers, LineInv
<1>4. CASE Close
  <2>1. << >> \in Seq(Ids) /\ << >> \in Seq(Answers)
    OBVIOUS
  <2>2. QED
    BY <1>t, <1>4, <2>1 DEF Close, callers, LineInv
<1>5. CASE UNCHANGED vars
  BY <1>t, <1>5 DEF vars, LineInv
<1>6. QED
  BY <1>1, <1>2, <1>3, <1>4, <1>5 DEF Next

\* Type correctness, for every set of callers and clients.
THEOREM TypeCorrect == Spec => []TypeOK
<1>1. PipeInv /\ LineInv => TypeOK
  BY DEF PipeInv, PoolInv, Shape, LineInv, Answers, TypeOK
<1>2. QED
  BY <1>1, InitPipe, NextPipe, InitLines, NextLines, PTL DEF Spec
-------------------------------------------------------------------------------
\* No wait is for nothing: a caller waits for the queue only while another one has a client
\* that it will put back, and a caller that reads from a worker that is loading or ready has
\* its own request before the worker or the answer to it before itself.  What PredictEnds
\* adds is that the others move.
NobodyStuck ==
    /\ \A c \in Callers : pc[c] = "get" /\ available = << >> =>
          \E d \in Callers : d # c /\ pc[d] \notin {"idle", "get"}
    /\ \A c \in Callers, k \in Clients :
          Reading(c, k) /\ worker[k] \in {"loading", "ready"} =>
              \/ stdin[k] = <<Id(c)>>
              \/ worker[k] = "ready" /\ \E a : stdout[k] = <<a>> /\ a.id = Id(c)

WaitInv ==
    \A c \in Callers, k \in Clients :
        Reading(c, k) /\ worker[k] \in {"loading", "ready"} =>
            stdin[k] # << >> \/ stdout[k] # << >>

LEMMA NextWait == PipeInv /\ WaitInv /\ [Next]_vars => WaitInv'
<1> SUFFICES ASSUME PipeInv, WaitInv, [Next]_vars, NEW d \in Callers, NEW n \in Clients,
                    Reading(d, n)', worker'[n] \in {"loading", "ready"}
             PROVE  stdin'[n] # << >> \/ stdout'[n] # << >>
  BY DEF WaitInv
<1>t. /\ pc \in [Callers -> {"idle", "get", "start", "send", "read", "put"}]
      /\ \A c, e \in Users : mine[c] = mine[e] => c = e
      /\ DOMAIN stdin = Clients /\ DOMAIN stdout = Clients
      /\ worker \in [Clients -> {"none", "loading", "ready", "exiting", "dead"}]
  BY DEF PipeInv, PoolInv, Shape, Exclusive
<1>w. Reading(d, n) /\ worker[n] \in {"loading", "ready"} =>
          stdin[n] # << >> \/ stdout[n] # << >>
  BY DEF WaitInv
<1>a. \A q, x : Append(q, x) # << >>
  OBVIOUS
<1>1. ASSUME NEW c \in Callers, Ask(c) \/ Get(c) \/ Preload(c) \/ Put(c)
      PROVE  stdin'[n] # << >> \/ stdout'[n] # << >>
  <2>1. /\ pc'[c] # "read" /\ UNCHANGED processes
        /\ \A e \in Callers : e # c => pc'[e] = pc[e] /\ mine'[e] = mine[e]
    <3>0. mine \in [Callers -> Clients \cup {NoClient}]
      BY DEF PipeInv, PoolInv, Shape
    <3>1. CASE Ask(c)
      BY <1>t, <3>1 DEF Ask
    <3>2. CASE Get(c)
      BY <1>t, <3>0, <3>2 DEF Get
    <3>3. CASE Preload(c)
      BY <1>t, <3>0, <3>3 DEF Preload
    <3>4. CASE Put(c)
      BY <1>t, <3>0, <3>4 DEF Put
    <3>5. QED
      BY <1>1, <3>1, <3>2, <3>3, <3>4
  <2>2. Reading(d, n)
    BY <2>1 DEF Reading
  <2>3. QED
    BY <1>w, <2>1, <2>2 DEF processes
<1>2. ASSUME NEW c \in Callers, Start(c) \/ Send(c) \/ Read(c)
      PROVE  stdin'[n] # << >> \/ stdout'[n] # << >>
  <2>1. /\ mine' = mine /\ c \in Users
        /\ \A e \in Callers : e # c => pc'[e] = pc[e]
        /\ \A k \in Clients : k # mine[c] => /\ worker'[k] = worker[k] /\ stdin'[k] = stdin[k]
                                             /\ stdout'[k] = stdout[k]
    BY <1>2, <1>t DEF Start, Send, Read, Ended, processes, Users
  <2>2. CASE d # c
    <3>1. Reading(d, n) /\ d \in Users
      BY <2>1, <2>2 DEF Reading, Users
    <3>2. n # mine[c]
      BY <1>t, <2>1, <2>2, <3>1 DEF Reading
    <3>3. QED
      BY <1>w, <2>1, <3>1, <3>2
  <2>3. CASE d = c
    <3>1. pc'[c] = "read" /\ n = mine[c]
      BY <2>1, <2>3 DEF Reading
    <3>2. Send(c)
      BY <1>2, <1>t, <3>1 DEF Start, Read, Ended
    <3>3. stdin'[n] = Append(stdin[n], Id(c))
      BY <1>t, <3>1, <3>2 DEF Send, Ended
    <3>4. QED
      BY <1>a, <3>3
  <2>4. QED
    BY <2>2, <2>3
<1>3. CASE Close
  BY <1>3, <1>t DEF Close, Idle, callers, Reading
<1>4. ASSUME NEW k \in Clients, WorkerStep(k) \/ Die(k)
      PROVE  stdin'[n] # << >> \/ stdout'[n] # << >>
  <2>1. Reading(d, n)
    BY <1>4 DEF WorkerStep, Load, Exit, Serve, Die, callers, Reading
  <2>2. CASE n # k
    <3>1. worker'[n] = worker[n] /\ stdin'[n] = stdin[n] /\ stdout'[n] = stdout[n]
      BY <1>4, <1>t, <2>2 DEF WorkerStep, Load, Exit, Serve, Die, Says
    <3>2. QED
      BY <1>w, <2>1, <3>1
  <2>3. CASE n = k
    <3>1. CASE Load(k)
      <4>1. worker[n] = "loading" /\ stdin' = stdin /\ stdout' = stdout
        BY <1>t, <2>3, <3>1 DEF Load
      <4>2. QED
        BY <1>w, <2>1, <4>1
    <3>2. CASE Exit(k) \/ Die(k)
      BY <1>t, <2>3, <3>2 DEF Exit, Die
    <3>3. CASE Serve(k)
      <4>1. PICK x : stdout'[n] = Append(stdout[n], x)
        BY <1>t, <2>3, <3>3 DEF Serve, Says
      <4>2. QED
        BY <1>a, <4>1
    <3>4. QED
      BY <1>4, <3>1, <3>2, <3>3 DEF WorkerStep
  <2>4. QED
    BY <2>2, <2>3
<1>5. CASE UNCHANGED vars
  BY <1>5, <1>w DEF vars, Reading
<1>6. QED
  BY <1>1, <1>2, <1>3, <1>4, <1>5 DEF Next, CallerStep

\* Nobody waits for what cannot come (predict, _exchange).
THEOREM NoLostWait == Spec => []NobodyStuck
<1>1. Init => WaitInv
  BY DEF Init, WaitInv, Reading
<1>2. PipeInv /\ WaitInv => NobodyStuck
  <2> SUFFICES ASSUME PipeInv, WaitInv PROVE NobodyStuck
    OBVIOUS
  <2>1. ASSUME NEW c \in Callers, pc[c] = "get", available = << >>
        PROVE  \E d \in Callers : d # c /\ pc[d] \notin {"idle", "get"}
    <3>1. made
      BY <2>1 DEF PipeInv, PoolInv, Shape, Unmade
    <3>2. First \in Clients /\ ~ \E i \in DOMAIN available : available[i] = First
      BY <2>1, PoolAssumption
    <3>3. PICK d \in Taken : mine[d] = First
      BY <3>1, <3>2 DEF PipeInv, PoolInv, ClientsConserved
    <3>4. QED
      BY <2>1, <3>3 DEF Taken
  <2>2. ASSUME NEW c \in Callers, NEW k \in Clients,
               Reading(c, k), worker[k] \in {"loading", "ready"}
        PROVE  \/ stdin[k] = <<Id(c)>>
               \/ worker[k] = "ready" /\ \E a : stdout[k] = <<a>> /\ a.id = Id(c)
    <3>1. stdin[k] # << >> \/ stdout[k] # << >>
      BY <2>2 DEF WaitInv
    <3>2. OneRequest(k) /\ OneAnswer(k)
      BY DEF PipeInv
    <3>3. \A e \in Callers : Reading(e, k) => e = c
      BY <2>2 DEF PipeInv, PoolInv, Exclusive, Users, Reading
    <3>4. QED
      BY <2>2, <3>1, <3>2, <3>3 DEF OneRequest, OneAnswer
  <2>3. QED
    BY <2>1, <2>2 DEF NobodyStuck
<1>3. QED
  BY <1>1, <1>2, InitPipe, NextPipe, NextWait, PTL DEF Spec
===============================================================================
