-------------------------------- MODULE K8sCache -------------------------------
(***************************************************************************)
(* GetGPU2K8s of k8shelper.go, which the pipelines of the k8s processor    *)
(* call for each batch of telemetry: one cache for all of them, behind a   *)
(* mutex that is held while the API server is asked for the pods of the    *)
(* node and for their owners.                                              *)
(***************************************************************************)
EXTENDS Integers, Sequences, SequencesExt

CONSTANTS Pipelines,
          CacheDuration,   \* of the configuration of each pipeline
          Pods,            \* the pods that may run on the node
          Requests,        \* what gpuRequestCount says of each
          MaxFetch,        \* from the list of the pods to their last owner
          MaxTime          \* bound: the clock

(* A duration of 0 or less in a configuration stands for 60 seconds; one of *)
(* the pipelines has the longest.                                           *)
ASSUME CacheAssumption ==
  /\ CacheDuration \in [Pipelines -> Nat \ {0}]
  /\ \E p \in Pipelines : \A q \in Pipelines : CacheDuration[q] <= CacheDuration[p]
  /\ MaxFetch \in Nat

VARIABLES now,
          pods, since,     \* the running pods as the API lists them, and since when
          pc,              \* of each pipeline
          mu,              \* who holds the mutex, {} if nobody does
          data, expiresAt, \* globalCache
          building, asked, \* the map that is being built, and when the pods were listed
          fetched          \* who filled globalCache, and when

vars == <<now, pods, since, pc, mu, data, expiresAt, building, asked, fetched>>
world == <<now, pods, since>>
fetch == <<building, asked>>
cache == <<data, expiresAt, fetched>>

Nil == [gpus |-> <<>>, is |-> "nil"]
PodLists == UNION { { s \in [1 .. n -> Pods] : IsInjective(s) } : n \in 0 .. 2 }

Init ==
  /\ now = 0 /\ pods \in PodLists /\ since = 0
  /\ pc = [p \in Pipelines |-> "idle"]
  /\ mu = {} /\ data = Nil /\ expiresAt = 0
  /\ building = Nil /\ asked = 0
  /\ fetched = [at |-> -1, for |-> 0]

(* GPU ordinals are handed out in the order of the list, to each container *)
(* as many as it requests.                                                 *)
BuildGPU2K8s(list) ==
  [gpus |-> FlattenSeq([i \in DOMAIN list |-> [n \in 1 .. Requests[list[i]] |-> list[i]]]),
   is |-> "map"]

PodsChange ==
  /\ pods' \in PodLists \ {pods}
  /\ since' = now
  /\ UNCHANGED <<now, pc, mu, fetch, cache>>

Tick ==
  /\ now < MaxTime
  /\ building # Nil => now - asked < MaxFetch
  /\ now' = now + 1
  /\ UNCHANGED <<pods, since, pc, mu, fetch, cache>>

(* The call returns, and processMetrics, processLogs or processTraces sets *)
(* the attributes of its batch: of the map, or of none if it is an error.  *)
Return(p) == pc' = [pc EXCEPT ![p] = "idle"]

(* A pipeline has a batch. *)
Call(p) ==
  /\ pc[p] = "idle"
  /\ pc' = [pc EXCEPT ![p] = "waiting"]
  /\ UNCHANGED <<world, mu, fetch, cache>>

(* The mutex is there; what is cached and has not expired is the answer.   *)
CachedForever == data # Nil   \* mutant
Cached == now < expiresAt /\ data # Nil
Hit(p) ==
  /\ pc[p] = "waiting" /\ mu = {} /\ Cached
  /\ Return(p)
  /\ UNCHANGED <<world, mu, fetch, cache>>

Miss(p) ==
  /\ pc[p] = "waiting" /\ mu = {} /\ ~Cached
  /\ mu' = {p}
  /\ pc' = [pc EXCEPT ![p] = "listing"]
  /\ UNCHANGED <<world, fetch, cache>>

(* No name of the node, no client, or no list of the pods: the error is    *)
(* the answer, and the cache stays as it is.                               *)
FailLocked(p) ==   \* mutant: the mutex is not given back
  /\ pc[p] = "listing"
  /\ Return(p)
  /\ UNCHANGED <<world, mu, fetch, cache>>
Fail(p) ==
  /\ pc[p] = "listing"
  /\ Return(p)
  /\ mu' = {}
  /\ UNCHANGED <<world, fetch, cache>>

ListPods(p) ==
  /\ pc[p] = "listing"
  /\ building' = BuildGPU2K8s(pods) /\ asked' = now
  /\ pc' = [pc EXCEPT ![p] = "resolving"]
  /\ UNCHANGED <<world, mu, cache>>

(* The node and the owners of the pods are asked for one by one; what of   *)
(* them fails is left out. Then the answer is for CacheDuration seconds.   *)
StoreUnexpiring(p) ==   \* mutant: the time of expiry is not set
  /\ pc[p] = "resolving"
  /\ data' = building /\ UNCHANGED expiresAt
  /\ fetched' = [at |-> now, for |-> CacheDuration[p]]
  /\ Return(p)
  /\ building' = Nil /\ mu' = {}
  /\ UNCHANGED <<world, asked>>
Store(p) ==
  /\ pc[p] = "resolving"
  /\ data' = building /\ expiresAt' = now + CacheDuration[p]
  /\ fetched' = [at |-> now, for |-> CacheDuration[p]]
  /\ Return(p)
  /\ building' = Nil /\ mu' = {}
  /\ UNCHANGED <<world, asked>>

Locked(p) == Hit(p) \/ Miss(p)
Next == \/ PodsChange \/ Tick
        \/ \E p \in Pipelines :
             Call(p) \/ Locked(p) \/ Fail(p) \/ ListPods(p) \/ Store(p)

(* Go hands a mutex to whoever waits for it longest, and the API server is *)
(* taken to answer in the end: nothing here has a timeout.                 *)
Fairness == \A p \in Pipelines : /\ SF_vars(Locked(p))
                                 /\ WF_vars(ListPods(p) \/ Fail(p))
                                 /\ WF_vars(Store(p))
Spec == Init /\ [][Next]_vars /\ Fairness

-----------------------------------------------------------------------------
(* A map that is returned is that of the pods that run, once these are the *)
(* same for the time that a fetch and the longest cache duration take.     *)
Longest == CHOOSE d \in { CacheDuration[p] : p \in Pipelines } :
             \A p \in Pipelines : CacheDuration[p] <= d
Returned(p) == IF pc[p] = "waiting" THEN data ELSE building
AnswerIsRecent ==
  [][\A p \in Pipelines :
       /\ pc[p] \in {"waiting", "resolving"} /\ pc'[p] = "idle"
       /\ now - since >= Longest + MaxFetch
       => Returned(p) = BuildGPU2K8s(pods)]_vars

(* However many pipelines call, the API server is not asked again before   *)
(* the last answer has expired.                                            *)
FetchesAreSpaced ==
  [][\A p \in Pipelines :
       pc[p] # "listing" /\ pc'[p] = "listing" /\ data # Nil
         => now >= fetched.at + fetched.for]_vars

(* Every call returns, whether the answers of the API are good or bad.     *)
EveryCallReturns == \A p \in Pipelines : pc[p] = "waiting" ~> pc[p] = "idle"
=============================================================================
