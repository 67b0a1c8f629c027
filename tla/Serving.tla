------------------------------- MODULE Serving -------------------------------
(* What surrounds the handlers.  A worker process starts and stops with its    *)
(* store (app/main.py); its connection pool never waits, and a command gives   *)
(* up after the socket timeout (app/store/factory.py); a RedisError ends an    *)
(* exchange with 503 (app/core/errors.py), also the readiness probe            *)
(* (app/api/health.py), by which the platform (.do/app.yaml) takes an instance *)
(* out of rotation and back.  What the commands do is modelled elsewhere.      *)
EXTENDS Integers, FiniteSets

CONSTANTS Client,            \* bound: requests under way at a time
          Instance,          \* instance_count of .do/app.yaml
          Worker,            \* uvicorn processes, each with a pool of its own
          Host,              \* the instance of a worker
          NoWorker,
          PoolSize,          \* settings.redis_max_connections
          FailureThreshold,  \* failure_threshold of the health check
          MaxCommands,       \* bound: Redis commands of one request
          MaxCrashes         \* bound: workers that stop

ASSUME ServingAssumption ==
    /\ Host \in [Worker -> Instance]
    /\ NoWorker \notin Worker
    /\ Client \cap Instance = {}
    /\ IsFiniteSet(Client \cup Instance)
    /\ {PoolSize, FailureThreshold, MaxCommands} \subseteq Nat \ {0}
    /\ MaxCrashes \in Nat

VARIABLES
    up,         \* Redis answers within the socket timeout
    serving,    \* the workers whose lifespan has begun
    crashes,    \* how many workers have stopped
    rotation,   \* the instances the platform sends requests to
    misses,     \* failed probes of an instance in a row
    at,         \* the worker that handles an exchange
    wait,       \* the connection it holds: "none", "live", or "dead" for good
    left        \* the commands it has yet to finish

vars == <<up, serving, crashes, rotation, misses, at, wait, left>>

(* A client's request, or the one probe of an instance that is under way.      *)
Exchange == Client \cup Instance

Handled(w) == {e \in Exchange : at[e] = w}

Held(w) == {e \in Handled(w) : wait[e] # "none"}

(* A pool never holds more connections than max_connections.                   *)
TypeOK ==
    /\ up \in BOOLEAN
    /\ serving \subseteq Worker
    /\ crashes \in 0 .. MaxCrashes
    /\ rotation \subseteq Instance
    /\ misses \in [Instance -> 0 .. FailureThreshold]
    /\ at \in [Exchange -> serving \cup {NoWorker}]
    /\ wait \in [Exchange -> {"none", "live", "dead"}]
    /\ left \in [Exchange -> 0 .. MaxCommands]
    /\ \A w \in Worker : Cardinality(Held(w)) <= PoolSize

Init ==
    /\ up \in BOOLEAN
    /\ serving = {}
    /\ crashes = 0
    /\ rotation = {}
    /\ misses = [i \in Instance |-> 0]
    /\ at = [e \in Exchange |-> NoWorker]
    /\ wait = [e \in Exchange |-> "none"]
    /\ left = [e \in Exchange |-> 0]

------------------------------------------------------------------------------
(* Exchanges                                                                   *)

Begin(e, w, commands) ==
    /\ at[e] = NoWorker
    /\ w \in serving
    /\ at' = [at EXCEPT ![e] = w]
    /\ left' = [left EXCEPT ![e] = commands]
    /\ UNCHANGED <<up, serving, crashes, rotation, misses, wait>>

(* A request that reaches the store; one refused before that needs no pool.    *)
Route(c) ==
    \E w \in Worker, n \in 1 .. MaxCommands : Host[w] \in rotation /\ Begin(c, w, n)

(* success_threshold is 1.                                                     *)
Judge(i, ready) ==
    /\ misses' = [misses EXCEPT
          ![i] = IF ready THEN 0 ELSE IF @ < FailureThreshold THEN @ + 1 ELSE @]
    /\ rotation' = IF ready THEN rotation \cup {i}
                   ELSE IF misses'[i] = FailureThreshold THEN rotation \ {i} ELSE rotation

(* GET /readyz; with no worker to take it the probe fails by itself.           *)
Probe(i) ==
    \/ \E w \in Worker : Host[w] = i /\ Begin(i, w, 1)
    \/ /\ \A w \in serving : Host[w] # i
       /\ Judge(i, FALSE)
       /\ UNCHANGED <<up, serving, crashes, at, wait, left>>

Release(E) ==
    /\ at' = [e \in Exchange |-> IF e \in E THEN NoWorker ELSE at[e]]
    /\ wait' = [e \in Exchange |-> IF e \in E THEN "none" ELSE wait[e]]
    /\ left' = [e \in Exchange |-> IF e \in E THEN 0 ELSE left[e]]

(* Mutated form of Finish: an error of PING is not told from its answer.       *)
FinishReady(e, answered) ==
    /\ Release({e})
    /\ IF e \in Instance THEN Judge(e, TRUE) ELSE UNCHANGED <<rotation, misses>>

(* The answer: 200 or 204, or 503 for a RedisError, of the probe as well.      *)
Finish(e, answered) ==
    /\ Release({e})
    /\ IF e \in Instance THEN Judge(e, answered) ELSE UNCHANGED <<rotation, misses>>

(* Mutated form of PoolFull: one connection too many.                          *)
PoolOverfull(w) == Cardinality(Held(w)) > PoolSize

PoolFull(w) == Cardinality(Held(w)) >= PoolSize

(* A command takes a connection and is sent.  It fails at once when the pool   *)
(* is full or Redis refuses the connection, and hangs when Redis is silent.    *)
Send(e) ==
    /\ at[e] # NoWorker
    /\ wait[e] = "none"
    /\ \/ /\ PoolFull(at[e]) \/ ~up
          /\ Finish(e, FALSE)
       \/ /\ ~PoolFull(at[e])
          /\ wait' = [wait EXCEPT ![e] = IF up THEN "live" ELSE "dead"]
          /\ UNCHANGED <<rotation, misses, at, left>>
    /\ UNCHANGED <<up, serving, crashes>>

Reply(e) ==
    /\ wait[e] = "live"
    /\ up
    /\ IF left[e] = 1
         THEN Finish(e, TRUE)
         ELSE /\ left' = [left EXCEPT ![e] = @ - 1]
              /\ wait' = [wait EXCEPT ![e] = "none"]
              /\ UNCHANGED <<rotation, misses, at>>
    /\ UNCHANGED <<up, serving, crashes>>

(* Mutated form of Timeout: a pool without socket_timeout.                     *)
NoTimeout(e) == FALSE /\ UNCHANGED vars

(* socket_timeout and socket_connect_timeout: the connection is given back.    *)
Timeout(e) ==
    /\ wait[e] = "dead" \/ (wait[e] = "live" /\ ~up)
    /\ Finish(e, FALSE)
    /\ UNCHANGED <<up, serving, crashes>>

------------------------------------------------------------------------------
(* Workers and Redis                                                           *)

(* lifespan: build_store makes a pool and opens no connection.                 *)
Start(w) ==
    /\ w \notin serving
    /\ serving' = serving \cup {w}
    /\ UNCHANGED <<up, crashes, rotation, misses, at, wait, left>>

(* A worker stops: killed in the middle of its exchanges, or told to, when it  *)
(* has none left and closes its pool.                                          *)
Crash(w) ==
    /\ w \in serving
    /\ crashes < MaxCrashes
    /\ crashes' = crashes + 1
    /\ serving' = serving \ {w}
    /\ Release(Handled(w))
    /\ IF Host[w] \in Handled(w) THEN Judge(Host[w], FALSE) ELSE UNCHANGED <<rotation, misses>>
    /\ UNCHANGED up

(* Redis stops answering; some of the answers awaited never come.              *)
GoDown ==
    /\ up
    /\ up' = FALSE
    /\ \E lost \in SUBSET {e \in Exchange : wait[e] = "live"} :
          wait' = [e \in Exchange |-> IF e \in lost THEN "dead" ELSE wait[e]]
    /\ UNCHANGED <<serving, crashes, rotation, misses, at, left>>

ComeUp ==
    /\ ~up
    /\ up' = TRUE
    /\ UNCHANGED <<serving, crashes, rotation, misses, at, wait, left>>

Serve(e) == Send(e) \/ Reply(e) \/ Timeout(e)

Next ==
    \/ \E c \in Client : Route(c)
    \/ \E i \in Instance : Probe(i)
    \/ \E e \in Exchange : Serve(e)
    \/ \E w \in Worker : Start(w) \/ Crash(w)
    \/ GoDown
    \/ ComeUp

(* Handlers run, Redis answers while it is up, a silent connection times out,  *)
(* the platform keeps probing and starting workers.  Clients need not come,    *)
(* and Redis need not come back.                                               *)
Fairness ==
    /\ \A e \in Exchange : WF_vars(Serve(e))
    /\ \A i \in Instance : WF_vars(Probe(i))
    /\ \A w \in Worker : WF_vars(Start(w))

Spec == Init /\ [][Next]_vars /\ Fairness

------------------------------------------------------------------------------
(* Properties                                                                  *)

(* No exchange waits for ever, through outages, a pool that is full and the    *)
(* end of its worker: each command is answered, refused or given up in time,   *)
(* and what it held goes back to the pool.                                     *)
EveryExchangeEnds == \A e \in Exchange : []<>(at[e] = NoWorker)

(* An instance cut off by an outage, or by probes that met a full pool, is     *)
(* taken back once Redis stays up, whatever load comes: neither connections    *)
(* lost in the outage nor the requests that caused the misses hold the pool    *)
(* for ever.  It need not stay in rotation, since load can fill the pool again. *)
ComesBack == \A i \in Instance : <>[]up => []<>(i \in rotation)

(* While Redis stays away no instance remains in rotation: a probe never       *)
(* passes for want of an answer, and never hangs without a verdict.            *)
DownMeansOut == <>[]~up => <>[](rotation = {})
==============================================================================
