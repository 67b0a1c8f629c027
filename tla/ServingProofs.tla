----------------------------- MODULE ServingProofs ----------------------------
(* A pool stays within its limit, for any number of clients, instances and     *)
(* workers, through outages, timeouts, crashes and restarts.                   *)
EXTENDS Serving, FiniteSetTheorems, TLAPS

(* An exchange is at no worker that does not serve, holds a connection only    *)
(* while it is handled, and is handled only while it has commands left.        *)
Exchanges ==
    /\ at \in [Exchange -> serving \cup {NoWorker}]
    /\ wait \in [Exchange -> {"none", "live", "dead"}]
    /\ left \in [Exchange -> 0 .. MaxCommands]
    /\ \A e \in Exchange : wait[e] # "none" => at[e] # NoWorker
    /\ \A e \in Exchange : at[e] # NoWorker => left[e] # 0

Platform ==
    /\ up \in BOOLEAN
    /\ serving \subseteq Worker
    /\ crashes \in 0 .. MaxCrashes
    /\ rotation \subseteq Instance
    /\ misses \in [Instance -> 0 .. FailureThreshold]

PoolBound == \A w \in Worker : Cardinality(Held(w)) <= PoolSize

(* The inductive invariant.                                                    *)
ServingInv == Platform /\ Exchanges /\ PoolBound

LEMMA ExchangesAreFinite == \A w : IsFiniteSet(Held(w)) /\ Cardinality(Held(w)) \in Nat
<1>1. \A w : Held(w) \in SUBSET Exchange
  BY DEF Held, Handled
<1>2. \A w : IsFiniteSet(Held(w))
  BY <1>1, FS_Subset, ServingAssumption DEF Exchange
<1> QED
  BY <1>2, FS_CardinalityType

(* A pool nobody takes a connection of keeps its bound.                        *)
LEMMA BoundKept ==
    ASSUME PoolBound, \A w \in Worker : Held(w)' \subseteq Held(w)
    PROVE  PoolBound'
<1> SUFFICES ASSUME NEW w \in Worker PROVE Cardinality(Held(w)') <= PoolSize
  BY DEF PoolBound
<1>1. Held(w)' \in SUBSET Held(w) /\ IsFiniteSet(Held(w)) /\ Cardinality(Held(w)) \in Nat
  BY ExchangesAreFinite
<1>2. Cardinality(Held(w)') <= Cardinality(Held(w)) /\ IsFiniteSet(Held(w)')
  BY <1>1, FS_Subset
<1>3. Cardinality(Held(w)') \in Nat
  BY <1>2, FS_CardinalityType
<1> QED
  BY <1>1, <1>2, <1>3, ServingAssumption DEF PoolBound

LEMMA JudgeTyping ==
    ASSUME Platform, NEW i \in Instance, NEW ready \in BOOLEAN, Judge(i, ready)
    PROVE  rotation' \subseteq Instance /\ misses' \in [Instance -> 0 .. FailureThreshold]
<1>1. FailureThreshold \in Nat \ {0}
  BY ServingAssumption
<1> QED
  BY <1>1 DEF Judge, Platform

LEMMA BeginKeepsInv ==
    ASSUME ServingInv, NEW e \in Exchange, NEW w \in Worker, NEW n \in 1 .. MaxCommands,
           Begin(e, w, n)
    PROVE  ServingInv'
<1>1. /\ at[e] = NoWorker /\ w \in serving /\ w # NoWorker
      /\ at' = [at EXCEPT ![e] = w]
      /\ left' = [left EXCEPT ![e] = n]
      /\ UNCHANGED <<up, serving, crashes, rotation, misses, wait>>
      /\ MaxCommands \in Nat
  BY ServingAssumption DEF Begin
<1>2. wait[e] = "none"
  BY <1>1 DEF ServingInv, Exchanges
<1>3. Exchanges'
  BY <1>1, <1>2 DEF ServingInv, Exchanges
<1>4. Platform'
  BY <1>1 DEF ServingInv, Platform
<1>5. \A v \in Worker : Held(v)' \subseteq Held(v)
  BY <1>1, <1>2 DEF Held, Handled, ServingInv, Exchanges
<1> QED
  BY <1>3, <1>4, <1>5, BoundKept DEF ServingInv

(* Ending exchanges gives connections back.                                    *)
LEMMA ReleaseKeepsInv ==
    ASSUME ServingInv, NEW E, Release(E), NEW gone, gone \cap {at[e] : e \in Exchange \ E} = {},
           serving' = serving \ gone, NoWorker \notin gone
    PROVE  Exchanges' /\ PoolBound'
<1>1. /\ at' = [e \in Exchange |-> IF e \in E THEN NoWorker ELSE at[e]]
      /\ wait' = [e \in Exchange |-> IF e \in E THEN "none" ELSE wait[e]]
      /\ left' = [e \in Exchange |-> IF e \in E THEN 0 ELSE left[e]]
      /\ MaxCommands \in Nat
      /\ NoWorker \notin Worker
  BY ServingAssumption DEF Release
<1>2. Exchanges'
  BY <1>1 DEF ServingInv, Exchanges
<1>3. \A v \in Worker : Held(v)' \subseteq Held(v)
  BY <1>1 DEF Held, Handled
<1> QED
  BY <1>2, <1>3, BoundKept DEF ServingInv

LEMMA FinishKeepsInv ==
    ASSUME ServingInv, NEW e \in Exchange, NEW answered \in BOOLEAN, Finish(e, answered),
           UNCHANGED <<up, serving, crashes>>
    PROVE  ServingInv'
<1>1. Exchanges' /\ PoolBound'
  <2>1. Release({e})
    BY DEF Finish
  <2>2. {} \cap {at[d] : d \in Exchange \ {e}} = {} /\ NoWorker \notin {} /\ serving' = serving \ {}
    OBVIOUS
  <2> QED
    BY <2>1, <2>2, ReleaseKeepsInv
<1>2. rotation' \subseteq Instance /\ misses' \in [Instance -> 0 .. FailureThreshold]
  <2>1. CASE e \in Instance
    BY <2>1, JudgeTyping DEF Finish, ServingInv
  <2>2. CASE e \notin Instance
    BY <2>2 DEF Finish, ServingInv, Platform
  <2> QED
    BY <2>1, <2>2
<1>3. Platform'
  BY <1>2 DEF ServingInv, Platform
<1> QED
  BY <1>1, <1>3 DEF ServingInv

LEMMA SendKeepsInv ==
    ASSUME ServingInv, NEW e \in Exchange, Send(e)
    PROVE  ServingInv'
<1>1. at[e] # NoWorker /\ wait[e] = "none" /\ UNCHANGED <<up, serving, crashes>>
  BY DEF Send
<1>2. CASE Finish(e, FALSE)
  BY <1>1, <1>2, FinishKeepsInv
<1>3. ASSUME ~ PoolFull(at[e]), wait' = [wait EXCEPT ![e] = IF up THEN "live" ELSE "dead"],
             UNCHANGED <<rotation, misses, at, left>>
      PROVE  ServingInv'
  <2>1. Exchanges'
    BY <1>1, <1>3 DEF ServingInv, Exchanges
  <2>2. Platform'
    BY <1>1, <1>3 DEF ServingInv, Platform
  <2>3. ASSUME NEW w \in Worker PROVE Cardinality(Held(w)') <= PoolSize
    <3>1. CASE w # at[e]
      <4>1. Held(w)' = Held(w)
        BY <1>1, <1>3, <3>1 DEF Held, Handled, ServingInv, Exchanges
      <4> QED
        BY <4>1 DEF ServingInv, PoolBound
    <3>2. CASE w = at[e]
      <4>1. Held(w)' = Held(w) \cup {e} /\ e \notin Held(w)
        BY <1>1, <1>3, <3>2 DEF Held, Handled, ServingInv, Exchanges
      <4>2. Cardinality(Held(w) \cup {e}) = Cardinality(Held(w)) + 1
        BY <4>1, ExchangesAreFinite, FS_AddElement
      <4>3. ~ (Cardinality(Held(w)) >= PoolSize)
        BY <1>3, <3>2 DEF PoolFull
      <4>4. Cardinality(Held(w)) \in Nat /\ PoolSize \in Nat
        BY ExchangesAreFinite, ServingAssumption
      <4>5. Cardinality(Held(w)) + 1 <= PoolSize
        BY <4>3, <4>4
      <4> QED
        BY <4>1, <4>2, <4>5
    <3> QED
      BY <3>1, <3>2
  <2> QED
    BY <2>1, <2>2, <2>3 DEF ServingInv, PoolBound
<1> QED
  BY <1>2, <1>3 DEF Send

LEMMA ReplyKeepsInv ==
    ASSUME ServingInv, NEW e \in Exchange, Reply(e)
    PROVE  ServingInv'
<1>1. wait[e] = "live" /\ UNCHANGED <<up, serving, crashes>>
  BY DEF Reply
<1>2. CASE Finish(e, TRUE)
  BY <1>1, <1>2, FinishKeepsInv
<1>3. ASSUME left[e] # 1, left' = [left EXCEPT ![e] = @ - 1], wait' = [wait EXCEPT ![e] = "none"],
             UNCHANGED <<rotation, misses, at>>
      PROVE  ServingInv'
  <2>1. MaxCommands \in Nat /\ left[e] \in 0 .. MaxCommands /\ left[e] # 0
    BY <1>1, ServingAssumption DEF ServingInv, Exchanges
  <2>2. Exchanges'
    BY <1>1, <1>3, <2>1 DEF ServingInv, Exchanges
  <2>3. Platform'
    BY <1>1, <1>3 DEF ServingInv, Platform
  <2>4. \A w \in Worker : Held(w)' \subseteq Held(w)
    BY <1>1, <1>3 DEF Held, Handled, ServingInv, Exchanges
  <2> QED
    BY <2>2, <2>3, <2>4, BoundKept DEF ServingInv
<1> QED
  BY <1>2, <1>3 DEF Reply

LEMMA CrashKeepsInv ==
    ASSUME ServingInv, NEW w \in Worker, Crash(w)
    PROVE  ServingInv'
<1>1. /\ crashes < MaxCrashes
      /\ crashes' = crashes + 1
      /\ serving' = serving \ {w}
      /\ Release(Handled(w))
      /\ UNCHANGED up
      /\ w # NoWorker
      /\ MaxCrashes \in Nat
  BY ServingAssumption DEF Crash
<1>2. {w} \cap {at[e] : e \in Exchange \ Handled(w)} = {}
  BY DEF Handled
<1>3. Exchanges' /\ PoolBound'
  BY <1>1, <1>2, ReleaseKeepsInv
<1>4. rotation' \subseteq Instance /\ misses' \in [Instance -> 0 .. FailureThreshold]
  <2>1. CASE Host[w] \in Handled(w)
    <3>1. Host[w] \in Instance
      BY ServingAssumption
    <3> QED
      BY <2>1, <3>1, JudgeTyping DEF Crash, ServingInv
  <2>2. CASE Host[w] \notin Handled(w)
    BY <2>2 DEF Crash, ServingInv, Platform
  <2> QED
    BY <2>1, <2>2
<1>5. Platform'
  BY <1>1, <1>4 DEF ServingInv, Platform
<1> QED
  BY <1>3, <1>5 DEF ServingInv

LEMMA ServingInvInit == Init => ServingInv
<1> SUFFICES ASSUME Init PROVE ServingInv
  OBVIOUS
<1>1. Platform /\ Exchanges
  BY ServingAssumption DEF Init, Platform, Exchanges
<1>2. \A w : Held(w) = {}
  BY DEF Init, Held, Handled
<1>3. PoolBound
  BY <1>2, FS_EmptySet, ServingAssumption DEF PoolBound
<1> QED
  BY <1>1, <1>3 DEF ServingInv

LEMMA ServingInvInductive == ServingInv /\ [Next]_vars => ServingInv'
<1> SUFFICES ASSUME ServingInv, [Next]_vars PROVE ServingInv'
  OBVIOUS
<1>1. ASSUME NEW c \in Client, Route(c) PROVE ServingInv'
  BY <1>1, BeginKeepsInv DEF Route, Exchange
<1>2. ASSUME NEW i \in Instance, Probe(i) PROVE ServingInv'
  <2>1. ASSUME NEW w \in Worker, Begin(i, w, 1) PROVE ServingInv'
    <3>1. 1 \in 1 .. MaxCommands /\ i \in Exchange
      BY ServingAssumption DEF Exchange
    <3> QED
      BY <2>1, <3>1, BeginKeepsInv
  <2>2. ASSUME Judge(i, FALSE), UNCHANGED <<up, serving, crashes, at, wait, left>>
        PROVE  ServingInv'
    <3>1. rotation' \subseteq Instance /\ misses' \in [Instance -> 0 .. FailureThreshold]
      BY <2>2, JudgeTyping DEF ServingInv
    <3>2. Platform' /\ Exchanges'
      BY <2>2, <3>1 DEF ServingInv, Platform, Exchanges
    <3>3. \A w \in Worker : Held(w)' \subseteq Held(w)
      BY <2>2 DEF Held, Handled
    <3> QED
      BY <3>2, <3>3, BoundKept DEF ServingInv
  <2> QED
    BY <1>2, <2>1, <2>2 DEF Probe
<1>3. ASSUME NEW e \in Exchange, Serve(e) PROVE ServingInv'
  <2>1. CASE Send(e)
    BY <2>1, SendKeepsInv
  <2>2. CASE Reply(e)
    BY <2>2, ReplyKeepsInv
  <2>3. CASE Timeout(e)
    BY <2>3, FinishKeepsInv DEF Timeout
  <2> QED
    BY <1>3, <2>1, <2>2, <2>3 DEF Serve
<1>4. ASSUME NEW w \in Worker, Start(w) PROVE ServingInv'
  <2>1. Platform' /\ Exchanges'
    BY <1>4 DEF Start, ServingInv, Platform, Exchanges
  <2>2. \A v \in Worker : Held(v)' \subseteq Held(v)
    BY <1>4 DEF Start, Held, Handled
  <2> QED
    BY <2>1, <2>2, BoundKept DEF ServingInv
<1>5. ASSUME NEW w \in Worker, Crash(w) PROVE ServingInv'
  BY <1>5, CrashKeepsInv
<1>6. CASE GoDown
  <2>1. PICK lost \in SUBSET {e \in Exchange : wait[e] = "live"} :
           wait' = [e \in Exchange |-> IF e \in lost THEN "dead" ELSE wait[e]]
    BY <1>6 DEF GoDown
  <2>2. up' = FALSE /\ UNCHANGED <<serving, crashes, rotation, misses, at, left>>
    BY <1>6 DEF GoDown
  <2>3. Platform'
    BY <2>2 DEF ServingInv, Platform
  <2>4. Exchanges'
    BY <2>1, <2>2 DEF ServingInv, Exchanges
  <2>5. \A v \in Worker : Held(v)' \subseteq Held(v)
    BY <2>1, <2>2 DEF Held, Handled
  <2> QED
    BY <2>3, <2>4, <2>5, BoundKept DEF ServingInv
<1>7. CASE ComeUp
  <2>1. Platform' /\ Exchanges'
    BY <1>7 DEF ComeUp, ServingInv, Platform, Exchanges
  <2>2. \A v \in Worker : Held(v)' \subseteq Held(v)
    BY <1>7 DEF ComeUp, Held, Handled
  <2> QED
    BY <2>1, <2>2, BoundKept DEF ServingInv
<1>8. CASE UNCHANGED vars
  <2>1. Platform' /\ Exchanges'
    BY <1>8 DEF vars, ServingInv, Platform, Exchanges
  <2>2. \A v \in Worker : Held(v)' \subseteq Held(v)
    BY <1>8 DEF vars, Held, Handled
  <2> QED
    BY <2>1, <2>2, BoundKept DEF ServingInv
<1> QED
  BY <1>1, <1>2, <1>3, <1>4, <1>5, <1>6, <1>7, <1>8 DEF Next

(* No worker of app/store/factory.py's pool ever holds more than               *)
(* max_connections, and no exchange outlives its worker, whatever the load,    *)
(* the outages and the crashes.                                                *)
THEOREM PoolStaysWithinItsLimit == Spec => []TypeOK
<1>1. ServingInv => TypeOK
  BY DEF ServingInv, Platform, Exchanges, PoolBound, TypeOK
<1> QED
  BY <1>1, ServingInvInit, ServingInvInductive, PTL DEF Spec
==============================================================================
