--------------------------- MODULE NodeMonitorsProofs --------------------------
(***************************************************************************)
(* Proofs about the programs of a node and the helpers of the processors,  *)
(* one part after the other: they share no state, but the prover's lemmas  *)
(* about numbers and sequences. Each part has its inductive invariant, as  *)
(* a conjunction of named facts, a lemma for each action that disturbs     *)
(* more than one of them, and the theorem of the property.                 *)
(***************************************************************************)
EXTENDS K8sCache, LocalAttribution, DeviceMonitor, FleetHealth, NcclTail, SacctWindow,
        WellFoundedInduction, FiniteSetTheorems, SequenceTheorems, TLAPS

-----------------------------------------------------------------------------
(***************************************************************************)
(* K8sCache: the map of GPUs to pods.                                      *)
(***************************************************************************)
CacheTypeOK ==
  /\ now \in Nat /\ since \in Nat /\ since <= now
  /\ asked \in Nat /\ expiresAt \in Nat
  /\ fetched \in [at : Int, for : Nat]
  /\ pc \in [Pipelines -> {"idle", "waiting", "listing", "resolving"}]

(* Whoever asks the API server holds the mutex, and only then is there a map *)
(* that is being built.                                                      *)
AskerHoldsMutex ==
  /\ mu = {} => building = Nil
  /\ \A p \in Pipelines : /\ pc[p] \in {"listing", "resolving"} => mu = {p}
                          /\ pc[p] = "listing" => building = Nil
                          /\ pc[p] = "resolving" => building # Nil

(* What is cached expires when the duration it was fetched for is over.      *)
ExpiryIsOfTheFetch == data # Nil => expiresAt = fetched.at + fetched.for

(* A map that is being built is of the pods that run, unless these have      *)
(* changed since they were listed, which is no longer than a fetch ago.      *)
BuildingIsFresh ==
  building # Nil => /\ asked <= now /\ now <= asked + MaxFetch
                    /\ building = BuildGPU2K8s(pods) \/ since >= asked

(* A map that is cached is of the pods that run, unless these have changed   *)
(* in the time that the map was fetched or kept.                             *)
CachedIsFresh ==
  data # Nil => /\ expiresAt <= now + Longest
                /\ \/ data = BuildGPU2K8s(pods)
                   \/ since >= expiresAt - (Longest + MaxFetch)

CacheInv == /\ CacheTypeOK /\ AskerHoldsMutex /\ ExpiryIsOfTheFetch
            /\ BuildingIsFresh /\ CachedIsFresh

-----------------------------------------------------------------------------
(* The longest of the durations is one of them. *)
LEMMA LongestIsOne ==
  /\ Longest \in Nat \ {0}
    /\ \A p \in Pipelines : CacheDuration[p] \in Nat /\ CacheDuration[p] <= Longest
<1> DEFINE Durations == { CacheDuration[p] : p \in Pipelines }
<1>1. \E d \in Durations : \A p \in Pipelines : CacheDuration[p] <= d
  BY CacheAssumption
<1>2. Longest \in Durations /\ \A p \in Pipelines : CacheDuration[p] <= Longest
  BY <1>1 DEF Longest
<1>3. QED
  BY <1>2, CacheAssumption

(* A map that was built, even of no pods, is a map. *)
LEMMA BuiltIsAMap == \A list : BuildGPU2K8s(list) # Nil
<1> SUFFICES ASSUME NEW list PROVE BuildGPU2K8s(list) # Nil
  OBVIOUS
<1>1. BuildGPU2K8s(list).is = "map" /\ Nil.is = "nil"
  BY DEF BuildGPU2K8s, Nil
<1>2. QED
  BY <1>1

LEMMA CacheInvInit ==
  Init => CacheInv
  BY DEF Init, CacheInv, CacheTypeOK, AskerHoldsMutex, ExpiryIsOfTheFetch, BuildingIsFresh,
         CachedIsFresh

(* A step of one pipeline that changes nothing but its own place, from one   *)
(* where it does not hold the mutex to another.                              *)
LEMMA CallKeepsInv ==
  ASSUME CacheInv, NEW p \in Pipelines, pc[p] \in {"idle", "waiting"},
         NEW place \in {"idle", "waiting"}, pc' = [pc EXCEPT ![p] = place],
         UNCHANGED <<world, mu, fetch, cache>>
  PROVE  CacheInv'
<1>1. CacheTypeOK'
  BY DEF CacheInv, CacheTypeOK, world, fetch, cache
<1>2. AskerHoldsMutex'
  BY DEF CacheInv, CacheTypeOK, AskerHoldsMutex, fetch
<1>3. ExpiryIsOfTheFetch' /\ BuildingIsFresh' /\ CachedIsFresh'
  BY DEF CacheInv, ExpiryIsOfTheFetch, BuildingIsFresh, CachedIsFresh, world, fetch, cache
<1>4. QED
  BY <1>1, <1>2, <1>3 DEF CacheInv

LEMMA CacheInvNext ==
  CacheInv /\ [Next]_vars => CacheInv'
<1> SUFFICES ASSUME CacheInv, [Next]_vars PROVE CacheInv'
  OBVIOUS
<1>0. /\ Longest \in Nat \ {0} /\ MaxFetch \in Nat
      /\ \A p \in Pipelines : CacheDuration[p] \in Nat /\ CacheDuration[p] <= Longest
  BY LongestIsOne, CacheAssumption
<1>1. CASE PodsChange
  <2>1. /\ since' = now /\ UNCHANGED <<now, pc, mu, building, asked, data, expiresAt, fetched>>
    BY <1>1 DEF PodsChange, fetch, cache
  <2>2. CacheTypeOK' /\ AskerHoldsMutex' /\ ExpiryIsOfTheFetch'
    BY <2>1 DEF CacheInv, CacheTypeOK, AskerHoldsMutex, ExpiryIsOfTheFetch
  <2>3. BuildingIsFresh'
    BY <2>1 DEF CacheInv, CacheTypeOK, BuildingIsFresh
  <2>4. CachedIsFresh'
    <3>1. SUFFICES ASSUME data # Nil PROVE since' >= expiresAt - (Longest + MaxFetch)
      BY <2>1 DEF CacheInv, CachedIsFresh
    <3>2. expiresAt <= now + Longest
      BY <3>1 DEF CacheInv, CachedIsFresh
    <3>3. QED
      BY <1>0, <2>1, <3>2 DEF CacheInv, CacheTypeOK
  <2>5. QED
    BY <2>2, <2>3, <2>4 DEF CacheInv
<1>2. CASE Tick
  <2>1. /\ now' = now + 1
        /\ building # Nil => now - asked < MaxFetch
        /\ UNCHANGED <<pods, since, pc, mu, building, asked, data, expiresAt, fetched>>
    BY <1>2 DEF Tick, fetch, cache
  <2>2. CacheTypeOK' /\ AskerHoldsMutex' /\ ExpiryIsOfTheFetch'
    BY <2>1 DEF CacheInv, CacheTypeOK, AskerHoldsMutex, ExpiryIsOfTheFetch
  <2>3. BuildingIsFresh'
    BY <1>0, <2>1 DEF CacheInv, CacheTypeOK, BuildingIsFresh
  <2>4. CachedIsFresh'
    BY <1>0, <2>1 DEF CacheInv, CacheTypeOK, CachedIsFresh
  <2>5. QED
    BY <2>2, <2>3, <2>4 DEF CacheInv
<1>3. ASSUME NEW p \in Pipelines, Call(p) \/ Hit(p) PROVE CacheInv'
  BY <1>3, CallKeepsInv DEF Call, Hit, Return
<1>4. ASSUME NEW p \in Pipelines, Miss(p) PROVE CacheInv'
  <2>1. /\ mu = {} /\ mu' = {p} /\ pc' = [pc EXCEPT ![p] = "listing"]
        /\ UNCHANGED <<now, pods, since, building, asked, data, expiresAt, fetched>>
    BY <1>4 DEF Miss, world, fetch, cache
  <2>2. CacheTypeOK' /\ AskerHoldsMutex'
    BY <2>1 DEF CacheInv, CacheTypeOK, AskerHoldsMutex
  <2>3. ExpiryIsOfTheFetch' /\ BuildingIsFresh' /\ CachedIsFresh'
    BY <2>1 DEF CacheInv, ExpiryIsOfTheFetch, BuildingIsFresh, CachedIsFresh
  <2>4. QED
    BY <2>2, <2>3 DEF CacheInv
<1>5. ASSUME NEW p \in Pipelines, Fail(p) PROVE CacheInv'
  <2>1. /\ pc[p] = "listing" /\ mu' = {} /\ pc' = [pc EXCEPT ![p] = "idle"]
        /\ UNCHANGED <<now, pods, since, building, asked, data, expiresAt, fetched>>
    BY <1>5 DEF Fail, Return, world, fetch, cache
  <2>2. mu = {p} /\ building = Nil
    BY <2>1 DEF CacheInv, AskerHoldsMutex
  <2>3. CacheTypeOK' /\ AskerHoldsMutex'
    BY <2>1, <2>2 DEF CacheInv, CacheTypeOK, AskerHoldsMutex
  <2>4. ExpiryIsOfTheFetch' /\ BuildingIsFresh' /\ CachedIsFresh'
    BY <2>1 DEF CacheInv, ExpiryIsOfTheFetch, BuildingIsFresh, CachedIsFresh
  <2>5. QED
    BY <2>3, <2>4 DEF CacheInv
<1>6. ASSUME NEW p \in Pipelines, ListPods(p) PROVE CacheInv'
  <2>1. /\ pc[p] = "listing" /\ pc' = [pc EXCEPT ![p] = "resolving"]
        /\ building' = BuildGPU2K8s(pods) /\ asked' = now
        /\ UNCHANGED <<now, pods, since, mu, data, expiresAt, fetched>>
    BY <1>6 DEF ListPods, world, cache
  <2>2. mu = {p} /\ building' # Nil
    BY <2>1, BuiltIsAMap DEF CacheInv, AskerHoldsMutex
  <2>3. CacheTypeOK' /\ AskerHoldsMutex'
    BY <2>1, <2>2 DEF CacheInv, CacheTypeOK, AskerHoldsMutex
  <2>4. BuildingIsFresh'
    BY <1>0, <2>1 DEF CacheInv, CacheTypeOK, BuildingIsFresh
  <2>5. ExpiryIsOfTheFetch' /\ CachedIsFresh'
    BY <2>1 DEF CacheInv, ExpiryIsOfTheFetch, CachedIsFresh
  <2>6. QED
    BY <2>3, <2>4, <2>5 DEF CacheInv
<1>7. ASSUME NEW p \in Pipelines, Store(p) PROVE CacheInv'
  <2>1. /\ pc[p] = "resolving" /\ pc' = [pc EXCEPT ![p] = "idle"]
        /\ data' = building /\ expiresAt' = now + CacheDuration[p]
        /\ fetched' = [at |-> now, for |-> CacheDuration[p]]
        /\ building' = Nil /\ mu' = {} /\ UNCHANGED <<now, pods, since, asked>>
    BY <1>7 DEF Store, Return, world
  <2>2. mu = {p} /\ building # Nil
    BY <2>1 DEF CacheInv, AskerHoldsMutex
  <2>3. CacheTypeOK' /\ AskerHoldsMutex'
    BY <1>0, <2>1, <2>2 DEF CacheInv, CacheTypeOK, AskerHoldsMutex
  <2>4. ExpiryIsOfTheFetch' /\ BuildingIsFresh'
    BY <2>1 DEF ExpiryIsOfTheFetch, BuildingIsFresh
  <2>5. CachedIsFresh'
    <3>1. asked <= now /\ now <= asked + MaxFetch
          /\ (building = BuildGPU2K8s(pods) \/ since >= asked)
      BY <2>2 DEF CacheInv, BuildingIsFresh
    <3>2. expiresAt' <= now + Longest /\ asked >= expiresAt' - (Longest + MaxFetch)
      BY <1>0, <2>1, <3>1 DEF CacheInv, CacheTypeOK
    <3>3. since >= asked => since >= expiresAt' - (Longest + MaxFetch)
      BY <1>0, <2>1, <3>2 DEF CacheInv, CacheTypeOK
    <3>4. QED
      BY <2>1, <3>1, <3>2, <3>3 DEF CachedIsFresh, Longest
  <2>6. QED
    BY <2>3, <2>4, <2>5 DEF CacheInv
<1>8. CASE UNCHANGED vars
  BY <1>8
  DEF vars, CacheInv, CacheTypeOK, AskerHoldsMutex, ExpiryIsOfTheFetch, BuildingIsFresh,
      CachedIsFresh
<1>9. QED
  BY <1>1, <1>2, <1>3, <1>4, <1>5, <1>6, <1>7, <1>8 DEF Next, Locked

(* The inductive invariant of the cache. *)
THEOREM CacheInvariance ==
  Spec => []CacheInv
<1>1. Init => CacheInv
  BY CacheInvInit
<1>2. CacheInv /\ [Next]_vars => CacheInv'
  BY CacheInvNext
<1>3. QED
  BY <1>1, <1>2, PTL DEF Spec

-----------------------------------------------------------------------------
(* Where the place of a pipeline can change to another's. *)
LEMMA OnlyMissLists ==
  ASSUME CacheInv, Next, NEW p \in Pipelines, pc[p] # "listing", pc'[p] = "listing"
  PROVE  Miss(p)
<1>1. PICK q \in Pipelines : Call(q) \/ Hit(q) \/ Miss(q) \/ Fail(q) \/ ListPods(q) \/ Store(q)
  BY DEF Next, Locked, PodsChange, Tick
<1>2. p = q
  BY <1>1
  DEF CacheInv, CacheTypeOK, Call, Hit, Miss, Fail, ListPods, Store, Return
<1>3. QED
  BY <1>1, <1>2
  DEF CacheInv, CacheTypeOK, Call, Hit, Miss, Fail, ListPods, Store, Return

LEMMA OnlyHitOrStoreAnswers ==
  ASSUME CacheInv, Next, NEW p \in Pipelines, pc[p] \in {"waiting", "resolving"},
         pc'[p] = "idle"
  PROVE  Hit(p) \/ Store(p)
<1>1. PICK q \in Pipelines : Call(q) \/ Hit(q) \/ Miss(q) \/ Fail(q) \/ ListPods(q) \/ Store(q)
  BY DEF Next, Locked, PodsChange, Tick
<1>2. p = q
  BY <1>1
  DEF CacheInv, CacheTypeOK, Call, Hit, Miss, Fail, ListPods, Store, Return
<1>3. QED
  BY <1>1, <1>2
  DEF CacheInv, CacheTypeOK, Call, Hit, Miss, Fail, ListPods, Store, Return

(* However many pipelines call GetGPU2K8s, the API server is not asked again *)
(* before the duration is over that the last answer was fetched for.         *)
THEOREM CacheSpacesFetches ==
  Spec => FetchesAreSpaced
<1>1. ASSUME CacheInv, [Next]_vars
      PROVE  [\A p \in Pipelines :
                pc[p] # "listing" /\ pc'[p] = "listing" /\ data # Nil
                  => now >= fetched.at + fetched.for]_vars
  <2>1. SUFFICES ASSUME Next, NEW p \in Pipelines,
                        pc[p] # "listing", pc'[p] = "listing", data # Nil
                 PROVE  now >= fetched.at + fetched.for
    BY <1>1
  <2>2. ~ (now < expiresAt)
    BY <1>1, <2>1, OnlyMissLists DEF Miss, Cached
  <2>3. expiresAt = fetched.at + fetched.for
    BY <1>1, <2>1 DEF CacheInv, ExpiryIsOfTheFetch
  <2>4. QED
    BY <1>1, <2>2, <2>3 DEF CacheInv, CacheTypeOK
<1>2. QED
  BY <1>1, CacheInvariance, PTL DEF Spec, FetchesAreSpaced

(* A map that GetGPU2K8s returns is that of the pods that run, once these    *)
(* are the same for the time that a fetch and the longest cache duration     *)
(* take, whichever pipeline has filled the cache, with whichever duration.   *)
THEOREM CacheAnswersAreRecent ==
  Spec => AnswerIsRecent
<1>1. ASSUME CacheInv, [Next]_vars
      PROVE  [\A p \in Pipelines :
                /\ pc[p] \in {"waiting", "resolving"} /\ pc'[p] = "idle"
                /\ now - since >= Longest + MaxFetch
                => Returned(p) = BuildGPU2K8s(pods)]_vars
  <2>1. SUFFICES ASSUME Next, NEW p \in Pipelines,
                        pc[p] \in {"waiting", "resolving"}, pc'[p] = "idle",
                        now - since >= Longest + MaxFetch
                 PROVE  Returned(p) = BuildGPU2K8s(pods)
    BY <1>1
  <2>2. Longest \in Nat \ {0} /\ MaxFetch \in Nat
    BY LongestIsOne, CacheAssumption
  <2>3. CASE Hit(p)
    <3>1. pc[p] = "waiting" /\ now < expiresAt /\ data # Nil
      BY <2>3 DEF Hit, Cached
    <3>2. ~ (since >= expiresAt - (Longest + MaxFetch))
      BY <1>1, <2>1, <2>2, <3>1 DEF CacheInv, CacheTypeOK
    <3>3. QED
      BY <1>1, <3>1, <3>2 DEF CacheInv, CachedIsFresh, Returned
  <2>4. CASE Store(p)
    <3>1. pc[p] = "resolving" /\ building # Nil
      BY <1>1, <2>4 DEF Store, CacheInv, AskerHoldsMutex
    <3>2. ~ (since >= asked)
      BY <1>1, <2>1, <2>2, <3>1 DEF CacheInv, CacheTypeOK, BuildingIsFresh
    <3>3. QED
      BY <1>1, <3>1, <3>2 DEF CacheInv, BuildingIsFresh, Returned
  <2>5. QED
    BY <1>1, <2>1, <2>3, <2>4, OnlyHitOrStoreAnswers
<1>2. QED
  BY <1>1, CacheInvariance, PTL DEF Spec, AnswerIsRecent

-----------------------------------------------------------------------------
(***************************************************************************)
(* LocalAttribution: the map of GPUs to jobs, without slurmctld.           *)
(***************************************************************************)
(* What is to be read of a GPU of a process. *)
Entry(p, g) == IF source = "nvml" THEN [gpu |-> g, pid |-> p]
               ELSE [job |-> proc[p], pid |-> p]

LocalTypeOK ==
  /\ jobGpus \in [Jobs -> SUBSET Gpus]
  /\ source \in {"slurmd", "nvml"}
  /\ proc \in [Pids -> Jobs \cup {Nobody}]
  /\ listed \subseteq Pids
  /\ GPU2Slurm \in [Gpus -> SUBSET (Jobs \cup {Nobody, Blank})]
  /\ toRead \subseteq IF source = "nvml" THEN [gpu : Nat, pid : Pids] ELSE [job : Jobs, pid : Pids]

(* A GPU is one job's, and one process's: that of its steady process, whose *)
(* job is the same since the call began.                                    *)
OneProcessOfAGpu ==
  \A p, q \in Running : \A g \in Gpus :
    g \in jobGpus[proc[p]] /\ g \in jobGpus[proc[q]] => p = q
SteadyIsThere == steady \subseteq Running \cap listed

(* Between two calls nothing is known, and a call that is over reads nothing. *)
IdleIsEmpty ==
  /\ localPc = "idle" => listed = {} /\ steady = {} /\ GPU2Slurm = [g \in Gpus |-> {}]
  /\ localPc # "reading" => toRead = {}

(* What is still to be read says of steady processes what was and is true.   *)
EntriesAreOfListed ==
  \A e \in toRead :
    /\ e.pid \in listed
    /\ source # "nvml" /\ e.pid \in steady => e.job = proc[e.pid]
    /\ source = "nvml" /\ ~shared => \A p \in steady : e.gpu \in jobGpus[proc[p]] => e.pid = p

(* A GPU of a steady process is still to be attributed, or is, or cannot be. *)
ToReadOrRead ==
  localPc = "reading" /\ ~shared =>
    \A p \in steady : \A g \in jobGpus[proc[p]] :
      Entry(p, g) \in toRead \/ (Readable(p) => GPU2Slurm[g] = {proc[p]})
NoneIsWrong ==
  ~shared => \A p \in steady : \A g \in jobGpus[proc[p]] : GPU2Slurm[g] \subseteq {proc[p], Blank}

LocalInv ==
  /\ LocalTypeOK /\ OneProcessOfAGpu /\ SteadyIsThere /\ IdleIsEmpty
  /\ EntriesAreOfListed /\ ToReadOrRead /\ NoneIsWrong /\ SteadyJobsAreRight

-----------------------------------------------------------------------------
LEMMA LocalInvInit == LocalInit => LocalInv
<1> SUFFICES ASSUME LocalInit PROVE LocalInv
  OBVIOUS
<1>1. Running = {}
  BY DEF LocalInit, Running
<1>2. LocalTypeOK
  BY DEF LocalInit, LocalTypeOK
<1>3. QED
  BY <1>1, <1>2 DEF LocalInit, LocalInv, OneProcessOfAGpu, SteadyIsThere, IdleIsEmpty,
     EntriesAreOfListed, ToReadOrRead, NoneIsWrong, SteadyJobsAreRight

LEMMA SpawnKeepsInv ==
  ASSUME LocalInv, NEW p \in Pids, NEW j \in Jobs, Spawn(p, j)
  PROVE  LocalInv'
<1> USE DEF LocalInv, Spawn, localWorld
<1>1. proc' \in [Pids -> Jobs \cup {Nobody}] /\ p \notin Running /\ j # Nobody
      /\ Running' = Running \cup {p} /\ proc'[p] = j
  BY LocalAssumption DEF LocalTypeOK, Running, Nobody
<1>2. \A q \in Running : proc'[q] = proc[q] /\ q # p
  BY <1>1 DEF LocalTypeOK, Running
<1>3. LocalTypeOK'
  BY <1>1 DEF LocalTypeOK
<1>4. \A q \in Running, g \in Gpus : g \in jobGpus[proc[q]] => g \notin jobGpus[j]
  BY DEF UsedGpus
<1>5. OneProcessOfAGpu'
  BY <1>1, <1>2, <1>4 DEF OneProcessOfAGpu
<1>6. SteadyIsThere'
  BY <1>1 DEF SteadyIsThere
<1>7. \A q \in steady : proc'[q] = proc[q]
  BY <1>2 DEF SteadyIsThere
<1>8. IdleIsEmpty' /\ EntriesAreOfListed' /\ NoneIsWrong'
  BY <1>7 DEF IdleIsEmpty, EntriesAreOfListed, NoneIsWrong
<1>9. ToReadOrRead'
  <2>1. \A q \in steady : Readable(q)' = Readable(q) /\ \A g \in Gpus : Entry(q, g)' = Entry(q, g)
    BY <1>7 DEF Entry, Readable
  <2>2. \A q \in steady : jobGpus[proc[q]] \subseteq Gpus
    BY DEF SteadyIsThere, LocalTypeOK, Running
  <2>3. QED
    BY <1>7, <2>1, <2>2 DEF ToReadOrRead
<1>10. SteadyJobsAreRight'
  BY <1>7 DEF SteadyJobsAreRight, Complete, Readable
<1>11. QED
  BY <1>3, <1>5, <1>6, <1>8, <1>9, <1>10

(* What has ended is not steady, and the call not complete if it has seen it. *)
LEMMA ExitKeepsInv ==
  ASSUME LocalInv, NEW p \in Pids, Exit(p)
  PROVE  LocalInv'
<1> USE DEF LocalInv, Exit, localWorld
<1>1. proc' \in [Pids -> Jobs \cup {Nobody}] /\ Running' = Running \ {p}
  BY DEF LocalTypeOK, Running
<1>2. \A q \in Running' : proc'[q] = proc[q]
  BY <1>1 DEF LocalTypeOK, Running
<1>3. LocalTypeOK'
  BY <1>1 DEF LocalTypeOK
<1>4. OneProcessOfAGpu' /\ SteadyIsThere'
  BY <1>1, <1>2 DEF OneProcessOfAGpu, SteadyIsThere
<1>5. \A q \in steady' : proc'[q] = proc[q] /\ q \in steady
  BY <1>2, <1>4 DEF SteadyIsThere
<1>6. IdleIsEmpty' /\ EntriesAreOfListed' /\ NoneIsWrong'
  BY <1>5 DEF IdleIsEmpty, EntriesAreOfListed, NoneIsWrong
<1>7. ToReadOrRead'
  <2>1. \A q \in steady' : Readable(q)' = Readable(q) /\ \A g \in Gpus : Entry(q, g)' = Entry(q, g)
    BY <1>5 DEF Entry, Readable
  <2>2. \A q \in steady : jobGpus[proc[q]] \subseteq Gpus
    BY DEF SteadyIsThere, LocalTypeOK, Running
  <2>3. QED
    BY <1>5, <2>1, <2>2 DEF ToReadOrRead
<1>8. Complete' => Complete
  BY <1>5 DEF Complete, Readable, SteadyIsThere
<1>9. SteadyJobsAreRight'
  BY <1>5, <1>8 DEF SteadyJobsAreRight
<1>10. QED
  BY <1>3, <1>4, <1>6, <1>7, <1>9

LEMMA BeginKeepsInv ==
  ASSUME LocalInv, Begin
  PROVE  LocalInv'
<1> USE DEF LocalInv, Begin, localWorld
<1>1. /\ \A p \in Running : proc[p] \in Jobs /\ jobGpus[proc[p]] \subseteq Gpus
      /\ Running \subseteq Pids /\ Gpus \subseteq Nat
  BY DEF LocalTypeOK, Running, Gpus
<1>2. \A g \in Gpus : ~ shared => LinesOf(g) = {g}
  BY <1>1 DEF LinesOf, FirstLine, Gpus
<1>3. CASE source = "nvml"
  <2>1. toRead' = ParseNvidiaSmi
    BY <1>3
  <2>2. \A e \in ParseNvidiaSmi : e \in [gpu : Nat, pid : Pids] /\ e.pid \in Running
    BY LocalAssumption DEF ParseNvidiaSmi, OnGpu
  <2>3. \A e \in ParseNvidiaSmi : ~ shared => e.gpu \in Gpus /\ e.gpu \in jobGpus[proc[e.pid]]
    BY <1>2 DEF ParseNvidiaSmi, OnGpu
  <2>4. ASSUME NEW p \in Running, NEW g \in jobGpus[proc[p]], ~ shared
        PROVE  [gpu |-> g, pid |-> p] \in ParseNvidiaSmi
    <3>1. g \in Gpus /\ g \in 0 .. 2 * NumGpus /\ p \in Pids
      BY <1>1, <2>4, LocalAssumption DEF Gpus
    <3>2. p \in OnGpu(g) /\ g \in LinesOf(g)
      BY <3>1, <1>2, <2>4 DEF OnGpu
    <3>3. QED
      BY <3>1, <3>2 DEF ParseNvidiaSmi
  <2>5. LocalTypeOK'
    BY <1>3, <1>1, <2>1, <2>2 DEF LocalTypeOK
  <2>6. OneProcessOfAGpu' /\ SteadyIsThere' /\ IdleIsEmpty'
    BY DEF OneProcessOfAGpu, SteadyIsThere, IdleIsEmpty, Running
  <2>7. EntriesAreOfListed'
    BY <1>3, <2>1, <2>2, <2>3 DEF EntriesAreOfListed, OneProcessOfAGpu, Running
  <2>8. ToReadOrRead'
    BY <1>3, <2>1, <2>4 DEF ToReadOrRead, Entry, Running
  <2>9. NoneIsWrong' /\ SteadyJobsAreRight'
    BY <1>1 DEF IdleIsEmpty, NoneIsWrong, SteadyJobsAreRight, Running
  <2>10. QED
    BY <2>5, <2>6, <2>7, <2>8, <2>9
<1>4. CASE source # "nvml"
  <2>1. toRead' = Job2Pid
    BY <1>4
  <2>2. LocalTypeOK'
    BY <1>4, <1>1, <2>1 DEF LocalTypeOK, Job2Pid
  <2>3. OneProcessOfAGpu' /\ SteadyIsThere' /\ IdleIsEmpty'
    BY DEF OneProcessOfAGpu, SteadyIsThere, IdleIsEmpty, Running
  <2>4. EntriesAreOfListed'
    BY <1>4, <2>1 DEF EntriesAreOfListed, Job2Pid, Running
  <2>5. ToReadOrRead'
    BY <1>4, <2>1 DEF ToReadOrRead, Entry, Job2Pid, Running
  <2>6. NoneIsWrong' /\ SteadyJobsAreRight'
    BY <1>1 DEF IdleIsEmpty, NoneIsWrong, SteadyJobsAreRight, Running
  <2>7. QED
    BY <2>2, <2>3, <2>4, <2>5, <2>6
<1>5. QED
  BY <1>3, <1>4

(* A process that is read: its entry is gone, and what it says written.      *)
LEMMA FromPidKeepsInv ==
  ASSUME LocalInv, localPc = "reading", source # "nvml", NEW e \in toRead, FromPid(e),
         UNCHANGED <<localWorld, proc, listed, steady>>
  PROVE  LocalInv'
<1> USE DEF LocalInv, localWorld
<1>1. e.pid \in Pids /\ e.job \in Jobs /\ e.pid \in listed
  BY DEF LocalTypeOK, EntriesAreOfListed
<1>2. OneProcessOfAGpu' /\ SteadyIsThere'
  BY DEF OneProcessOfAGpu, SteadyIsThere, Running
<1>3. CASE Readable(e.pid) /\ jobGpus[proc[e.pid]] # {}
  <2>1. /\ \A g \in Gpus : GPU2Slurm'[g] = IF g \in jobGpus[proc[e.pid]] THEN {e.job}
                                           ELSE GPU2Slurm[g]
        /\ GPU2Slurm' \in [Gpus -> SUBSET (Jobs \cup {Nobody, Blank})]
        /\ toRead' = toRead \ {e} /\ localPc' = "reading"
    BY <1>1, <1>3 DEF FromPid, LocalTypeOK
  <2>2. LocalTypeOK'
    BY <2>1 DEF LocalTypeOK
  <2>3. IdleIsEmpty' /\ EntriesAreOfListed'
    BY <2>1 DEF IdleIsEmpty, EntriesAreOfListed
  <2>4. e.pid \in Running
    BY <1>1, <1>3 DEF Readable, Running
  <2>5. ASSUME NEW p \in steady, NEW g \in jobGpus[proc[p]]
        PROVE  /\ g \in Gpus
               /\ \/ e.pid = p /\ GPU2Slurm'[g] = {proc[p]}
                  \/ e.pid # p /\ GPU2Slurm'[g] = GPU2Slurm[g]
    <3>1. p \in Running /\ g \in Gpus
      BY DEF SteadyIsThere, LocalTypeOK, Running
    <3>2. CASE e.pid = p
      BY <3>1, <3>2, <2>1, <2>5 DEF EntriesAreOfListed
    <3>3. CASE e.pid # p
      <4>1. g \notin jobGpus[proc[e.pid]]
        BY <3>1, <3>3, <2>4, <2>5 DEF OneProcessOfAGpu
      <4>2. QED
        BY <4>1, <3>1, <3>3, <2>1
    <3>4. QED
      BY <3>2, <3>3
  <2>6. ASSUME NEW p \in steady, NEW g \in jobGpus[proc[p]], ~ shared
        PROVE  \/ Entry(p, g)' \in toRead' \/ (Readable(p)' => GPU2Slurm'[g] = {proc[p]})
    <3>1. CASE e.pid = p
      BY <3>1, <2>5
    <3>2. CASE e.pid # p
      <4>1. GPU2Slurm'[g] = GPU2Slurm[g] /\ Entry(p, g) # e
        BY <3>2, <2>5 DEF Entry
      <4>2. QED
        BY <4>1, <2>1, <2>6 DEF ToReadOrRead, Entry, Readable
    <3>3. QED
      BY <3>1, <3>2
  <2>7. ToReadOrRead'
    BY <2>6 DEF ToReadOrRead
  <2>8. NoneIsWrong' /\ SteadyJobsAreRight'
    BY <2>1, <2>5 DEF NoneIsWrong, SteadyJobsAreRight
  <2>9. QED
    BY <1>2, <2>2, <2>3, <2>7, <2>8
<1>4. CASE ~ (Readable(e.pid) /\ jobGpus[proc[e.pid]] # {})
  <2>1. localPc' = "returned" /\ toRead' = {} /\ UNCHANGED GPU2Slurm
    BY <1>4 DEF FromPid
  <2>2. ~ Complete'
    BY <1>1, <1>4 DEF Complete, Readable
  <2>3. QED
    BY <1>2, <2>1, <2>2 DEF LocalTypeOK, IdleIsEmpty, EntriesAreOfListed, ToReadOrRead,
       NoneIsWrong, SteadyJobsAreRight
<1>5. QED
  BY <1>3, <1>4

LEMMA FromNvmlKeepsInv ==
  ASSUME LocalInv, localPc = "reading", source = "nvml", NEW e \in toRead, FromNvml(e),
         UNCHANGED <<localWorld, proc, listed, steady>>
  PROVE  LocalInv'
<1> USE DEF LocalInv, localWorld
<1>1. e.pid \in Pids /\ e.gpu \in Nat
  BY DEF LocalTypeOK
<1>2. OneProcessOfAGpu' /\ SteadyIsThere'
  BY DEF OneProcessOfAGpu, SteadyIsThere, Running
<1>3. /\ \A g \in Gpus : GPU2Slurm'[g] = IF g # e.gpu THEN GPU2Slurm[g]
                                         ELSE {IF Readable(e.pid) THEN proc[e.pid] ELSE Blank}
      /\ GPU2Slurm' \in [Gpus -> SUBSET (Jobs \cup {Nobody, Blank})]
      /\ toRead' = toRead \ {e} /\ localPc' = "reading"
  BY <1>1 DEF FromNvml, LocalTypeOK
<1>4. LocalTypeOK' /\ IdleIsEmpty' /\ EntriesAreOfListed'
  BY <1>3 DEF LocalTypeOK, IdleIsEmpty, EntriesAreOfListed
<1>5. ASSUME NEW p \in steady, NEW g \in jobGpus[proc[p]], ~ shared
      PROVE  /\ GPU2Slurm'[g] \subseteq {proc[p], Blank}
             /\ \/ [gpu |-> g, pid |-> p] \in toRead'
                \/ Readable(p) => GPU2Slurm'[g] = {proc[p]}
  <2>1. g \in Gpus
    BY DEF SteadyIsThere, LocalTypeOK, Running
  <2>2. CASE g = e.gpu
    <3>1. e.pid = p
      BY <1>5, <2>2 DEF EntriesAreOfListed
    <3>2. QED
      BY <3>1, <2>1, <2>2, <1>3
  <2>3. CASE g # e.gpu
    <3>1. GPU2Slurm'[g] = GPU2Slurm[g] /\ [gpu |-> g, pid |-> p] # e
      BY <2>1, <2>3, <1>3
    <3>2. QED
      BY <3>1, <1>3, <1>5 DEF NoneIsWrong, ToReadOrRead, Entry
  <2>4. QED
    BY <2>2, <2>3
<1>6. ToReadOrRead'
  BY <1>5 DEF ToReadOrRead, Entry, Readable
<1>7. NoneIsWrong' /\ SteadyJobsAreRight'
  BY <1>3, <1>5 DEF NoneIsWrong, SteadyJobsAreRight
<1>8. QED
  BY <1>2, <1>4, <1>6, <1>7

LEMMA LocalInvNext == LocalInv /\ [LocalNext]_localVars => LocalInv'
<1> SUFFICES ASSUME LocalInv, [LocalNext]_localVars PROVE LocalInv'
  OBVIOUS
<1> USE DEF LocalInv
<1>1. ASSUME NEW p \in Pids, Exit(p) PROVE LocalInv'
  BY <1>1, ExitKeepsInv
<1>2. ASSUME NEW p \in Pids, NEW j \in Jobs, Spawn(p, j) PROVE LocalInv'
  BY <1>2, SpawnKeepsInv
<1>3. CASE Begin
  BY <1>3, BeginKeepsInv
<1>4. CASE CannotList
  <2>1. Complete' => Complete
    BY <1>4 DEF CannotList, localWorld, Complete, Readable
  <2>2. QED
    BY <1>4, <2>1 DEF CannotList, localWorld, LocalTypeOK, OneProcessOfAGpu, SteadyIsThere, Running,
       IdleIsEmpty, EntriesAreOfListed, ToReadOrRead, NoneIsWrong, SteadyJobsAreRight
<1>5. CASE Read
  <2>1. PICK e \in toRead : IF source = "nvml" THEN FromNvml(e) ELSE FromPid(e)
    BY <1>5 DEF Read
  <2>2. QED
    BY <1>5, <2>1, FromNvmlKeepsInv, FromPidKeepsInv DEF Read
<1>6. CASE ReturnMap
  <2>1. Complete' => \A p \in steady : Readable(p)
    BY <1>6 DEF ReturnMap, localWorld, Complete, Readable
  <2>2. QED
    BY <1>6, <2>1 DEF ReturnMap, localWorld, LocalTypeOK, OneProcessOfAGpu, SteadyIsThere, Running,
       IdleIsEmpty, EntriesAreOfListed, ToReadOrRead, NoneIsWrong, SteadyJobsAreRight
<1>7. CASE Enrich
  BY <1>7 DEF Enrich, localWorld, LocalTypeOK, OneProcessOfAGpu, SteadyIsThere, Running,
     IdleIsEmpty, EntriesAreOfListed, ToReadOrRead, NoneIsWrong, SteadyJobsAreRight
<1>8. CASE UNCHANGED localVars
  BY <1>8 DEF localVars, LocalTypeOK, OneProcessOfAGpu, SteadyIsThere, Running, IdleIsEmpty,
     EntriesAreOfListed, ToReadOrRead, Entry, Readable, NoneIsWrong, SteadyJobsAreRight, Complete
<1>9. QED
  BY <1>1, <1>2, <1>3, <1>4, <1>5, <1>6, <1>7, <1>8 DEF LocalNext

(* The inductive invariant of GetGPU2Slurm and of the processes it looks at. *)
THEOREM LocalInvariance == LocalSpec => []LocalInv
  BY LocalInvInit, LocalInvNext, PTL DEF LocalSpec

(* GetGPU2Slurm, in the modes slurmd and nvml, attributes a GPU of a job     *)
(* that has run since the call began to no other job, and to that one if all *)
(* of the processes are still there and can be read.                         *)
THEOREM LocalAttributionsAreRight == LocalSpec => []SteadyJobsAreRight
<1>1. LocalInv => SteadyJobsAreRight
  BY DEF LocalInv
<1>2. QED
  BY <1>1, LocalInvariance, PTL

-----------------------------------------------------------------------------
(***************************************************************************)
(* DeviceMonitor: the peaks of a window.                                   *)
(***************************************************************************)
(* Fields a maximum of which says something.                                 *)
Levels == Fields \ {"throttle_reason"}

Metrics == [Fields -> Int]

(* What an accumulator holds is the peak of what it was told.                *)
AccumulatorIsPeak ==
  \A g \in Devices :
    /\ told[g] \subseteq Readings
    /\ accumulators[g] = Untold => told[g] = {}
    /\ accumulators[g] # Untold =>
         /\ accumulators[g] \in Metrics
         /\ \A f \in Levels :
              /\ \A s \in told[g] : s[f] <= accumulators[g][f]
              /\ accumulators[g][f] = None \/ \E s \in told[g] : accumulators[g][f] = s[f]

(* The jobs remembered have run in this window.                              *)
JobsHaveRun ==
  /\ job \in [Devices -> JobIds \cup {None}]
  /\ jobPerDevice \in [Devices -> JobIds \cup {None}]
  /\ \A g \in Devices : job[g] \in ran[g] /\ jobPerDevice[g] \in ran[g] \cup {None}

(* The GPUs are published in order, when they are sampled no more.           *)
PublishedInOrder ==
  /\ mainPc = "sampling" => device \in Devices /\ logged = {} /\ message = NoMessage
  /\ mainPc = "publishing" => device \in 0 .. NumDevices /\ message = NoMessage
                              /\ \A g \in Devices : g < device => accumulators[g] # Untold
  /\ mainPc = "sleeping" => \A g \in Devices : accumulators[g] # Untold
  /\ mainPc = "dead" => message = NoMessage

LogsAreOfNow ==
  \A l \in logged : /\ l.gpu \in Devices /\ l.metrics = accumulators[l.gpu]
                    /\ l.metrics # Untold
                    /\ l.job \in ran[l.gpu] \cup {None}
MessageIsOfNow ==
  message # NoMessage =>
    message = [gpus |-> { <<g, accumulators[g]>> : g \in Devices }, host |-> HostUtil]

NvmlInv ==
  /\ mainPc \in {"sampling", "publishing", "sleeping", "dead"}
  /\ DOMAIN told = Devices /\ DOMAIN accumulators = Devices /\ DOMAIN ran = Devices
  /\ AccumulatorIsPeak /\ JobsHaveRun /\ PublishedInOrder /\ LogsAreOfNow /\ MessageIsOfNow

-----------------------------------------------------------------------------
(* Maxima. *)

LEMMA MaxIs ==
  ASSUME NEW S \in SUBSET Int, NEW m \in S, \A x \in S : x <= m
  PROVE  Max(S) = m
<1>1. \E x \in S : \A y \in S : x >= y
  OBVIOUS
<1>2. Max(S) \in S /\ \A y \in S : Max(S) >= y
  BY <1>1, Zenon DEF Max
<1> HIDE DEF Max
<1>3. Max(S) >= m /\ m >= Max(S) /\ Max(S) \in Int /\ m \in Int
  BY <1>2
<1>4. QED
  BY <1>3

LEMMA ReadingsAreMetrics ==
  ASSUME NEW r \in Readings
  PROVE  r \in Metrics /\ r # Untold /\ \A f \in Levels : r[f] >= None
<1>1. PICK u \in {None} \cup 0 .. MaxUtil, m \in Masks : r = GetDeviceMetricsBasic(u, m)
  BY DEF Readings
<1>2. u \in Int /\ u >= None /\ m \in Nat /\ m # None
  BY DevicesAssumption DEF None
<1>3. Flag(m, 1) \in 0 .. 1 /\ Flag(m, 2) \in 0 .. 1
  BY <1>2 DEF Flag
<1>4. r = [util |-> u, throttle_reason |-> m, thermal |-> Flag(m, 1), power |-> Flag(m, 2)]
  BY <1>1 DEF GetDeviceMetricsBasic
<1> HIDE DEF Flag
<1>5. r \in Metrics
  BY <1>2, <1>3, <1>4 DEF Metrics, Fields
<1>6. \A f \in Levels : r[f] >= None
  BY <1>2, <1>3, <1>4 DEF Levels, Fields, None
<1>7. r # Untold
  <2>1. "field" \notin DOMAIN r
    BY <1>4
  <2>2. QED
    BY <2>1 DEF Untold
<1>8. QED
  BY <1>5, <1>6, <1>7

LEMMA MaxFieldsIs ==
  ASSUME NEW a \in Metrics, NEW b \in Metrics, \A f \in Levels : b[f] >= None,
         \A f \in Levels : a[f] >= None
  PROVE  /\ MaxFields(a, b) \in Metrics
         /\ \A f \in Levels : /\ MaxFields(a, b)[f] = a[f] \/ MaxFields(a, b)[f] = b[f]
                              /\ MaxFields(a, b)[f] >= a[f] /\ MaxFields(a, b)[f] >= b[f]
<1>1. ASSUME NEW f \in Fields
      PROVE  /\ Max({a[f], b[f]}) \in {a[f], b[f]}
             /\ Max({a[f], b[f]}) >= a[f] /\ Max({a[f], b[f]}) >= b[f]
  <2>1. a[f] \in Int /\ b[f] \in Int
    BY DEF Metrics
  <2>2. CASE a[f] >= b[f]
    BY <2>1, <2>2, MaxIs
  <2>3. CASE a[f] < b[f]
    BY <2>1, <2>3, MaxIs
  <2>4. QED
    BY <2>1, <2>2, <2>3
<1>2. MaxFields(a, b) \in Metrics
  BY <1>1 DEF MaxFields, Metrics
<1>3. ASSUME NEW f \in Levels
      PROVE  /\ MaxFields(a, b)[f] = a[f] \/ MaxFields(a, b)[f] = b[f]
             /\ MaxFields(a, b)[f] >= a[f] /\ MaxFields(a, b)[f] >= b[f]
  <2>1. f \in Fields /\ a[f] \in Int /\ b[f] \in Int /\ None \in Int
    BY DEF Metrics, Levels, None
  <2>2. MaxFields(a, b)[f] = IF a[f] = None THEN b[f]
                             ELSE IF b[f] = None THEN a[f] ELSE Max({a[f], b[f]})
    BY <2>1 DEF MaxFields
  <2>3. QED
    BY <2>1, <2>2, <1>1, <1>3
<1>4. QED
  BY <1>2, <1>3

(* An accumulator that is told a reading more. *)
LEMMA TellKeepsPeak ==
  ASSUME AccumulatorIsPeak, NEW g \in Devices, NEW r \in Readings
  PROVE  LET acc == Tell(accumulators[g], r)
         IN /\ acc # Untold /\ acc \in Metrics
            /\ \A f \in Levels :
                 /\ \A s \in told[g] \cup {r} : s[f] <= acc[f]
                 /\ acc[f] = None \/ \E s \in told[g] \cup {r} : acc[f] = s[f]
<1> DEFINE a == accumulators[g]
<1>1. r \in Metrics /\ r # Untold /\ \A f \in Levels : r[f] >= None
  BY ReadingsAreMetrics
<1>2. \A f \in Levels : f \in Fields
  BY DEF Levels
<1>3. CASE a = Untold
  <2>1. told[g] = {} /\ Tell(a, r) = r
    BY <1>3 DEF AccumulatorIsPeak, Tell
  <2>2. \A f \in Levels : r[f] \in Int
    BY <1>1, <1>2 DEF Metrics
  <2>3. QED
    BY <2>1, <2>2, <1>1
<1>4. CASE a # Untold
  <2>1. /\ a \in Metrics
        /\ \A f \in Levels :
             /\ \A s \in told[g] : s[f] <= a[f]
             /\ a[f] = None \/ \E s \in told[g] : a[f] = s[f]
    BY <1>4 DEF AccumulatorIsPeak
  <2>2. \A f \in Levels : a[f] >= None
    BY <2>1, ReadingsAreMetrics DEF AccumulatorIsPeak, None
  <2>3. Tell(a, r) = MaxFields(a, r)
    BY <1>4 DEF Tell
  <2>4. /\ MaxFields(a, r) \in Metrics
        /\ \A f \in Levels : /\ MaxFields(a, r)[f] = a[f] \/ MaxFields(a, r)[f] = r[f]
                             /\ MaxFields(a, r)[f] >= a[f] /\ MaxFields(a, r)[f] >= r[f]
    BY <1>1, <2>1, <2>2, MaxFieldsIs
  <2>5. MaxFields(a, r) # Untold
    <3>1. DOMAIN MaxFields(a, r) = Fields
      BY <2>4 DEF Metrics
    <3>2. DOMAIN Untold = {"field"} /\ "util" \in Fields /\ "util" \notin {"field"}
      BY DEF Untold, Fields
    <3>3. QED
      BY <3>1, <3>2
  <2>6. ASSUME NEW f \in Levels
        PROVE  /\ \A s \in told[g] \cup {r} : s[f] <= MaxFields(a, r)[f]
               /\ \/ MaxFields(a, r)[f] = None
                  \/ \E s \in told[g] \cup {r} : MaxFields(a, r)[f] = s[f]
    <3>1. /\ a[f] \in Int /\ r[f] \in Int /\ MaxFields(a, r)[f] \in Int
          /\ \A s \in told[g] : s[f] \in Int
      BY <1>1, <1>2, <2>1, <2>4, ReadingsAreMetrics DEF Metrics, AccumulatorIsPeak
    <3>2. \A s \in told[g] : s[f] <= a[f]
      BY <2>1
    <3>3. \A s \in told[g] \cup {r} : s[f] <= MaxFields(a, r)[f]
      BY <3>1, <3>2, <2>4
    <3>4. QED
      BY <2>1, <2>4, <3>3
  <2>7. QED
    BY <2>3, <2>4, <2>5, <2>6
<1>5. QED
  BY <1>3, <1>4

LEMMA NvmlInvInit == NvmlInit => NvmlInv
<1> SUFFICES ASSUME NvmlInit PROVE NvmlInv
  OBVIOUS
<1>1. 0 \in Devices
  BY DevicesAssumption DEF Devices
<1>2. AccumulatorIsPeak /\ PublishedInOrder /\ LogsAreOfNow /\ MessageIsOfNow
  BY <1>1 DEF NvmlInit, AccumulatorIsPeak, PublishedInOrder, LogsAreOfNow, MessageIsOfNow
<1>3. JobsHaveRun
  BY DEF NvmlInit, JobsHaveRun
<1>4. QED
  BY <1>2, <1>3 DEF NvmlInit, NvmlInv

LEMMA JobChangesKeepsInv ==
  ASSUME NvmlInv, NEW g \in Devices, JobChanges(g)
  PROVE  NvmlInv'
<1> USE DEF NvmlInv, JobChanges
<1>1. PICK j \in JobIds \cup {None} : job' = [job EXCEPT ![g] = j]
  OBVIOUS
<1>2. /\ job' \in [Devices -> JobIds \cup {None}] /\ job'[g] = j
      /\ \A h \in Devices : h # g => job'[h] = job[h] /\ ran'[h] = ran[h]
      /\ ran'[g] = ran[g] \cup {j} /\ DOMAIN ran' = Devices
  BY <1>1 DEF JobsHaveRun
<1>3. JobsHaveRun'
  BY <1>2 DEF JobsHaveRun
<1>4. LogsAreOfNow'
  BY <1>2 DEF LogsAreOfNow
<1>5. AccumulatorIsPeak' /\ PublishedInOrder' /\ MessageIsOfNow'
  BY DEF AccumulatorIsPeak, PublishedInOrder, MessageIsOfNow, HostUtil
<1>6. QED
  BY <1>3, <1>4, <1>5

LEMMA NextDeviceIsOne ==
  ASSUME device \in Devices, NextDevice
  PROVE  device' \in Devices
<1>1. NumDevices \in Nat /\ NumDevices > 0 /\ device \in Nat
  BY DevicesAssumption DEF Devices
<1>2. (device + 1) % NumDevices \in 0 .. NumDevices - 1
  BY <1>1
<1>3. QED
  BY <1>2 DEF NextDevice, Devices

LEMMA SampleKeepsInv ==
  ASSUME NvmlInv, SampleDevice
  PROVE  NvmlInv'
<1> USE DEF NvmlInv, SampleDevice
<1>1. device \in Devices /\ device' \in Devices
  BY NextDeviceIsOne DEF PublishedInOrder
<1>2. PICK reading \in Readings :
        /\ accumulators' = [accumulators EXCEPT ![device] = Tell(@, reading)]
        /\ told' = [told EXCEPT ![device] = @ \cup {reading}]
  OBVIOUS
<1>3. /\ accumulators'[device] = Tell(accumulators[device], reading)
      /\ told'[device] = told[device] \cup {reading}
      /\ \A g \in Devices : g # device => accumulators'[g] = accumulators[g] /\ told'[g] = told[g]
      /\ DOMAIN accumulators' = Devices /\ DOMAIN told' = Devices
  BY <1>1, <1>2
<1>4. AccumulatorIsPeak'
  <2> DEFINE acc == Tell(accumulators[device], reading)
  <2>1. /\ acc # Untold /\ acc \in Metrics
        /\ \A f \in Levels :
             /\ \A s \in told[device] \cup {reading} : s[f] <= acc[f]
             /\ acc[f] = None \/ \E s \in told[device] \cup {reading} : acc[f] = s[f]
    BY <1>1, TellKeepsPeak
  <2>2. told'[device] \subseteq Readings
    BY <1>1, <1>3 DEF AccumulatorIsPeak
  <2>3. accumulators'[device] = acc
    BY <1>3
  <2> HIDE DEF acc
  <2>4. ASSUME NEW g \in Devices, g # device
        PROVE  /\ told'[g] \subseteq Readings
               /\ accumulators'[g] = Untold => told'[g] = {}
               /\ accumulators'[g] # Untold =>
                    /\ accumulators'[g] \in Metrics
                    /\ \A f \in Levels :
                         /\ \A s \in told'[g] : s[f] <= accumulators'[g][f]
                         /\ accumulators'[g][f] = None \/ \E s \in told'[g] : accumulators'[g][f] = s[f]
    BY <2>4, <1>3 DEF AccumulatorIsPeak
  <2>5. QED
    BY <2>1, <2>2, <2>3, <2>4, <1>3 DEF AccumulatorIsPeak
<1>5. JobsHaveRun'
  <2>1. jobPerDevice' \in [Devices -> JobIds \cup {None}]
    BY <1>1 DEF JobsHaveRun
  <2>2. \A g \in Devices : jobPerDevice'[g] \in {jobPerDevice[g], job[g]}
    BY <1>1 DEF JobsHaveRun
  <2>3. QED
    BY <2>1, <2>2 DEF JobsHaveRun
<1>6. PublishedInOrder' /\ LogsAreOfNow' /\ MessageIsOfNow'
  BY <1>1 DEF PublishedInOrder, LogsAreOfNow, MessageIsOfNow
<1>7. QED
  BY <1>3, <1>4, <1>5, <1>6

LEMMA WriteLogKeepsInv ==
  ASSUME NvmlInv, WriteLog
  PROVE  NvmlInv'
<1> USE DEF NvmlInv, WriteLog, window
<1>1. device \in Devices /\ device + 1 \in 0 .. NumDevices /\ NumDevices \in Nat
  BY DevicesAssumption DEF PublishedInOrder, Devices
<1>2. AccumulatorIsPeak' /\ JobsHaveRun' /\ MessageIsOfNow'
  BY DEF AccumulatorIsPeak, JobsHaveRun, MessageIsOfNow, HostUtil
<1>3. PublishedInOrder'
  <2>1. \A g \in Devices : g < device + 1 => g < device \/ g = device
    BY <1>1 DEF Devices
  <2>2. QED
    BY <1>1, <2>1 DEF PublishedInOrder
<1>4. LogsAreOfNow'
  <2>1. jobPerDevice[device] \in ran[device] \cup {None}
    BY <1>1 DEF JobsHaveRun
  <2>2. QED
    BY <1>1, <2>1 DEF LogsAreOfNow
<1>5. QED
  BY <1>2, <1>3, <1>4

LEMMA NewWindowKeepsInv ==
  ASSUME NvmlInv, NewWindow
  PROVE  NvmlInv'
<1> USE DEF NvmlInv, NewWindow
<1>1. 0 \in Devices
  BY DevicesAssumption DEF Devices
<1>2. AccumulatorIsPeak' /\ PublishedInOrder' /\ LogsAreOfNow' /\ MessageIsOfNow'
  BY <1>1 DEF AccumulatorIsPeak, PublishedInOrder, LogsAreOfNow, MessageIsOfNow
<1>3. JobsHaveRun'
  BY DEF JobsHaveRun
<1>4. QED
  BY <1>2, <1>3

LEMMA NvmlInvNext == NvmlInv /\ [NvmlNext]_nvmlVars => NvmlInv'
<1> SUFFICES ASSUME NvmlInv, [NvmlNext]_nvmlVars PROVE NvmlInv'
  OBVIOUS
<1>1. ASSUME NEW g \in Devices, JobChanges(g) PROVE NvmlInv'
  BY <1>1, JobChangesKeepsInv
<1>2. CASE SampleDevice
  BY <1>2, SampleKeepsInv
<1>3. CASE NoHandle
  <2>1. device' \in Devices
    BY <1>3, NextDeviceIsOne DEF NoHandle, NvmlInv, PublishedInOrder
  <2>2. QED
    BY <1>3, <2>1 DEF NoHandle, window, NvmlInv, AccumulatorIsPeak, JobsHaveRun,
       PublishedInOrder, LogsAreOfNow, MessageIsOfNow
<1>4. CASE EndSampling
  <2>1. 0 \in 0 .. NumDevices /\ \A g \in Devices : ~ (g < 0)
    BY DevicesAssumption DEF Devices
  <2>2. QED
    BY <1>4, <2>1 DEF EndSampling, window, NvmlInv, AccumulatorIsPeak, JobsHaveRun,
       PublishedInOrder, LogsAreOfNow, MessageIsOfNow
<1>5. CASE WriteLog
  BY <1>5, WriteLogKeepsInv
<1>6. CASE AskRaises \/ MonitorDies
  BY <1>6 DEF AskRaises, MonitorDies, window, NvmlInv, AccumulatorIsPeak, JobsHaveRun,
     PublishedInOrder, LogsAreOfNow, MessageIsOfNow
<1>7. CASE WriteMessage
  <2>1. \A g \in Devices : g < NumDevices
    BY DevicesAssumption DEF Devices
  <2>2. QED
    BY <1>7, <2>1 DEF WriteMessage, window, NvmlInv, AccumulatorIsPeak, JobsHaveRun,
       PublishedInOrder, LogsAreOfNow, MessageIsOfNow, HostUtil
<1>8. CASE StartWindow \/ RestartMonitor
  BY <1>8, NewWindowKeepsInv DEF StartWindow, RestartMonitor
<1>9. CASE UNCHANGED nvmlVars
  BY <1>9 DEF nvmlVars, NvmlInv, AccumulatorIsPeak, JobsHaveRun,
     PublishedInOrder, LogsAreOfNow, MessageIsOfNow, HostUtil
<1>10. QED
  BY <1>1, <1>2, <1>3, <1>4, <1>5, <1>6, <1>7, <1>8, <1>9 DEF NvmlNext

(* The accumulators of all GPUs that have one hold peaks, ... *)
LEMMA AccumulatorIs ==
  ASSUME AccumulatorIsPeak, NEW g \in Devices, accumulators[g] # Untold
  PROVE  IsPeak(accumulators[g], g)
<1> DEFINE acc == accumulators[g]
<1> SUFFICES ASSUME NEW f \in Levels PROVE acc[f] = Max({None} \cup { s[f] : s \in told[g] })
  BY DEF IsPeak, Levels
<1> DEFINE S == {None} \cup { s[f] : s \in told[g] }
<1>1. f \in Fields /\ acc \in Metrics /\ None \in Int
  BY DEF AccumulatorIsPeak, Levels, None
<1>2. \A s \in told[g] : s[f] \in Int /\ s[f] >= None /\ s[f] <= acc[f]
  BY <1>1, ReadingsAreMetrics DEF AccumulatorIsPeak, Metrics
<1>3. acc[f] \in S /\ acc[f] \in Int
  BY <1>1 DEF AccumulatorIsPeak, Metrics
<1>4. acc[f] >= None
  BY <1>1, <1>2, <1>3
<1>5. S \in SUBSET Int /\ \A x \in S : x <= acc[f]
  BY <1>1, <1>2, <1>3, <1>4
<1> HIDE DEF S
<1>6. QED
  BY <1>3, <1>5, MaxIs DEF S

(* A set of numbers has a least one, and so a bounded one has a maximum.     *)
LEMMA LeastNumber ==
  ASSUME NEW T, T \subseteq Nat, T # {}
  PROVE  \E x \in T : \A y \in T : x <= y
<1>1. PICK x \in T : \A y \in T : ~ (<<y, x>> \in OpToRel(<, Nat))
  BY WFMin, NatLessThanWellFounded
<1>2. \A y \in T : x <= y
  <2>1. SUFFICES ASSUME NEW y \in T, ~ (x <= y) PROVE FALSE
    OBVIOUS
  <2>2. y < x /\ y \in Nat /\ x \in Nat
    BY <2>1
  <2>3. <<y, x>> \in OpToRel(<, Nat)
    BY <2>2 DEF OpToRel
  <2>4. QED
    BY <1>1, <2>3
<1>3. QED
  BY <1>2

LEMMA MaxOfBounded ==
  ASSUME NEW S \in SUBSET Int, 0 \in S, NEW b \in Nat, \A x \in S : x <= b
  PROVE  \E m \in S : \A x \in S : x <= m
<1> DEFINE T == { t \in Nat : \A x \in S : x <= t }
<1>1. PICK t \in T : \A y \in T : t <= y
  <2>1. b \in T
    OBVIOUS
  <2>2. QED
    BY <2>1, LeastNumber
<1>2. t \in S
  <2>1. SUFFICES ASSUME t \notin S PROVE FALSE
    OBVIOUS
  <2>2. \A x \in S : x \in Int /\ x <= t - 1
    BY <1>1, <2>1
  <2>3. t - 1 \in T
    BY <1>1, <2>2
  <2>4. QED
    BY <1>1, <2>3
<1>3. QED
  BY <1>1, <1>2

LEMMA HostIs ==
  ASSUME AccumulatorIsPeak, \A g \in Devices : accumulators[g] # Untold
  PROVE  HostUtil = Max({0} \cup UNION { { s.util : s \in told[g] } : g \in Devices })
<1> DEFINE A == {0} \cup { accumulators[g].util : g \in Devices }
           B == {0} \cup UNION { { s.util : s \in told[g] } : g \in Devices }
<1>1. "util" \in Levels /\ "util" \in Fields
  BY DEF Levels, Fields
<1>2. \A g \in Devices : \A s \in told[g] : s.util \in Int /\ s.util <= MaxUtil
  <2>1. ASSUME NEW r \in Readings PROVE r.util \in Int /\ r.util <= MaxUtil
    <3>1. PICK u \in {None} \cup 0 .. MaxUtil, m \in Masks : r = GetDeviceMetricsBasic(u, m)
      BY DEF Readings
    <3>2. r.util = u
      BY <3>1 DEF GetDeviceMetricsBasic
    <3>3. QED
      BY <3>2, DevicesAssumption DEF None
  <2>2. QED
    BY <2>1 DEF AccumulatorIsPeak
<1>3. \A g \in Devices :
        /\ accumulators[g].util \in Int
        /\ \A s \in told[g] : s.util <= accumulators[g].util
        /\ accumulators[g].util = None \/ \E s \in told[g] : accumulators[g].util = s.util
  BY <1>1 DEF AccumulatorIsPeak, Metrics
<1>4. B \in SUBSET Int /\ 0 \in B /\ MaxUtil \in Nat /\ \A x \in B : x <= MaxUtil
  BY <1>2, DevicesAssumption
<1>5. PICK m \in B : \A x \in B : x <= m
  BY <1>4, MaxOfBounded
<1>6. \A x \in A : x \in Int /\ x <= m
  BY <1>3, <1>4, <1>5 DEF None
<1>7. m \in A
  <2>1. CASE m = 0
    BY <2>1
  <2>2. CASE m # 0
    <3>1. PICK g \in Devices : \E s \in told[g] : m = s.util
      BY <2>2, <1>5
    <3>2. accumulators[g].util \in A /\ m <= accumulators[g].util
      BY <3>1, <1>3
    <3>3. accumulators[g].util <= m /\ m \in Int /\ accumulators[g].util \in Int
      BY <3>2, <1>4, <1>6
    <3>4. QED
      BY <3>2, <3>3
  <2>3. QED
    BY <2>1, <2>2
<1> HIDE DEF A, B
<1>8. Max(A) = m /\ Max(B) = m
  BY <1>4, <1>5, <1>6, <1>7, MaxIs
<1>9. QED
  BY <1>8 DEF HostUtil, A, B

(* The inductive invariant of the loop of nvml_monitor.py. *)
THEOREM NvmlInvariance == NvmlSpec => []NvmlInv
  BY NvmlInvInit, NvmlInvNext, PTL DEF NvmlSpec

(* What main writes of a GPU, in its log and in the message, is the peak of  *)
(* its samples of the window, with a job that ran there in it.               *)
THEOREM PeaksArePublished == NvmlSpec => []PublishedPeak
<1>1. NvmlInv => PublishedPeak
  <2> SUFFICES ASSUME NvmlInv PROVE PublishedPeak
    OBVIOUS
  <2>1. \A l \in logged : IsPeak(l.metrics, l.gpu) /\ l.job \in ran[l.gpu] \cup {None}
    BY AccumulatorIs DEF NvmlInv, LogsAreOfNow
  <2>2. ASSUME message # NoMessage
        PROVE  /\ \A g \in Devices : \E m \in message.gpus : m[1] = g /\ IsPeak(m[2], g)
               /\ message.host = Max({0} \cup UNION { { s.util : s \in told[g] } : g \in Devices })
    <3>1. \A g \in Devices : accumulators[g] # Untold
      BY <2>2 DEF NvmlInv, PublishedInOrder
    <3>2. /\ message.gpus = { <<g, accumulators[g]>> : g \in Devices }
          /\ message.host = HostUtil
      BY <2>2 DEF NvmlInv, MessageIsOfNow
    <3>3. \A g \in Devices : <<g, accumulators[g]>> \in message.gpus /\ IsPeak(accumulators[g], g)
      BY <3>1, <3>2, AccumulatorIs DEF NvmlInv
    <3>4. message.host = Max({0} \cup UNION { { s.util : s \in told[g] } : g \in Devices })
      BY <3>1, <3>2, HostIs DEF NvmlInv
    <3>5. \A g \in Devices : \E m \in message.gpus : m[1] = g /\ IsPeak(m[2], g)
      <4> SUFFICES ASSUME NEW g \in Devices
                   PROVE  \E m \in message.gpus : m[1] = g /\ IsPeak(m[2], g)
        OBVIOUS
      <4> DEFINE m == <<g, accumulators[g]>>
      <4>1. m[1] = g /\ m[2] = accumulators[g]
        OBVIOUS
      <4>2. QED
        BY <4>1, <3>3
    <3>6. QED
      BY <3>4, <3>5
  <2>3. QED
    BY <2>1, <2>2 DEF PublishedPeak
<1>2. QED
  BY <1>1, NvmlInvariance, PTL

-----------------------------------------------------------------------------
(***************************************************************************)
(* FleetHealth: the rates of a window.                                     *)
(***************************************************************************)
Events == [at : Int, before : Int, after : Nat]
Counts == [at : Int, value : Nat, total : Nat]

FleetTypeOK ==
  /\ wallClock \in Nat /\ slept \in BOOLEAN /\ stepped \in BOOLEAN
  /\ xids \in Nat /\ counter \in Nat /\ corrected \in Nat
  /\ seenXids \in Nat \cup {-1}
  /\ xidEvents \in Seq(Events) /\ sbeCounts \in Seq(Counts)

(* A code other than the last one that counted is of an error since then.    *)
NewCodeIsNewXid ==
  seenXids # -1 => seenXids <= xids /\ (seenXids = xids => code \in {0, lastXid})

XidsInTurn(buf, seen) ==
  /\ \A i \in 1 .. Len(buf) : /\ buf[i].after <= seen
                              /\ buf[i].before = -1 \/ buf[i].before < buf[i].after
  /\ \A i, j \in 1 .. Len(buf) : i < j => buf[i].after <= buf[j].before

(* The counter never grows by more than the total does.                      *)
CountsBelowTotals(buf) ==
  \A i, j \in 1 .. Len(buf) : i < j => /\ buf[i].total <= buf[j].total
                                       /\ buf[j].value - buf[i].value <= buf[j].total - buf[i].total
CounterBelowTotal ==
  \A i \in 1 .. Len(sbeCounts) :
    /\ sbeCounts[i].total <= corrected
    /\ counter - sbeCounts[i].value <= corrected - sbeCounts[i].total

(* While the clock is not set back, the windows are in order.                *)
InOrder(buf) ==
  /\ \A i \in 1 .. Len(buf) : buf[i].at <= wallClock
  /\ \A i, j \in 1 .. Len(buf) : i < j => buf[i].at <= buf[j].at
Recent(buf) == \A i \in 1 .. Len(buf) : wallClock - buf[i].at <= Window
SbeWindow == \A i, j \in 1 .. Len(sbeCounts) : sbeCounts[j].at - sbeCounts[i].at <= Window

FleetInv ==
  /\ FleetTypeOK /\ NewCodeIsNewXid
  /\ XidsInTurn(xidEvents, seenXids)
  /\ CountsBelowTotals(sbeCounts) /\ CounterBelowTotal
  /\ ~ stepped => InOrder(xidEvents) /\ InOrder(sbeCounts) /\ SbeWindow
  /\ ~ stepped /\ ~ slept => Recent(xidEvents)

-----------------------------------------------------------------------------
(* What _trim leaves of a window: what is right of the first that is recent. *)
LEMMA TrimIs ==
  ASSUME NEW S, NEW buf \in Seq(S), wallClock \in Int,
         \A i \in 1 .. Len(buf) : buf[i].at \in Int
  PROVE  \E m \in 0 .. Len(buf) :
           /\ Trim(buf) \in Seq(S) /\ Len(Trim(buf)) = Len(buf) - m
           /\ \A i \in 1 .. Len(Trim(buf)) : Trim(buf)[i] = buf[i + m]
           /\ m < Len(buf) => wallClock - buf[m + 1].at <= Window
<1> DEFINE old == { i \in DOMAIN buf : \A k \in 1 .. i : wallClock - buf[k].at > Window }
           T == { i \in 1 .. Len(buf) + 1 : i \notin old }
<1>1. Len(buf) \in Nat /\ DOMAIN buf = 1 .. Len(buf)
  OBVIOUS
<1>2. PICK x \in T : \A y \in T : x <= y
  <2>1. Len(buf) + 1 \in T /\ T \subseteq Nat
    BY <1>1
  <2>2. QED
    BY <2>1, LeastNumber
<1>3. x \in 1 .. Len(buf) + 1 /\ x - 1 \in 0 .. Len(buf)
  BY <1>1, <1>2
<1>4. \A i \in 1 .. x - 1 : i \in old
  BY <1>1, <1>2, <1>3
<1>5. \A i \in old : i < x
  <2>1. SUFFICES ASSUME NEW i \in old, i >= x PROVE FALSE
    BY <1>1, <1>3
  <2>2. \A k \in 1 .. x : wallClock - buf[k].at > Window
    BY <2>1, <1>1, <1>3
  <2>3. x \in DOMAIN buf
    BY <2>1, <1>1, <1>3
  <2>4. QED
    BY <2>2, <2>3, <1>2
<1>6. old = 1 .. x - 1
  BY <1>1, <1>3, <1>4, <1>5
<1>7. Cardinality(old) = x - 1
  <2>1. Cardinality(1 .. x - 1) = x - 1
    BY <1>1, <1>3, FS_Interval
  <2>2. QED
    BY <2>1, <1>6
<1>8. x <= Len(buf) => wallClock - buf[x].at <= Window
  <2>1. SUFFICES ASSUME x <= Len(buf), wallClock - buf[x].at > Window PROVE FALSE
    BY <1>1, <1>3, WindowAssumption
  <2>2. \A k \in 1 .. x : wallClock - buf[k].at > Window
    <3>1. \A k \in 1 .. x : k = x \/ k \in 1 .. x - 1
      BY <1>3
    <3>2. QED
      BY <2>1, <3>1, <1>4
  <2>3. QED
    BY <2>1, <2>2, <1>1, <1>2, <1>3
<1>9. Trim(buf) = SubSeq(buf, (x - 1) + 1, Len(buf))
  BY <1>7 DEF Trim
<1> HIDE DEF old, T
<1>10. /\ Trim(buf) \in Seq(S) /\ Len(Trim(buf)) = Len(buf) - (x - 1)
       /\ \A i \in 1 .. Len(Trim(buf)) : Trim(buf)[i] = buf[i + (x - 1)]
  <2> DEFINE a == x - 1 + 1
             n == Len(buf)
  <2>1. a = x /\ a \in Int /\ n \in Int /\ (\A i \in a .. n : buf[i] \in S)
        /\ x <= n + 1 /\ x >= 1
    BY <1>1, <1>3
  <2> HIDE DEF a, n
  <2>2. /\ SubSeq(buf, a, n) \in Seq(S)
        /\ Len(SubSeq(buf, a, n)) = IF a <= n THEN n - a + 1 ELSE 0
        /\ \A i \in 1 .. n - a + 1 : SubSeq(buf, a, n)[i] = buf[a + i - 1]
    BY <2>1, SubSeqProperties
  <2>3. Len(SubSeq(buf, a, n)) = n - a + 1
    BY <2>1, <2>2
  <2>4. \A i \in 1 .. n - a + 1 : a + i - 1 = i + (x - 1)
    BY <2>1
  <2>5. n - a + 1 = n - (x - 1)
    BY <2>1
  <2>6. Trim(buf) = SubSeq(buf, a, n)
    BY <1>9 DEF a, n
  <2>7. QED
    BY <2>2, <2>3, <2>4, <2>5, <2>6 DEF n
<1> DEFINE m == x - 1
<1>11. m \in 0 .. Len(buf) /\ m + 1 = x /\ (m < Len(buf) => x <= Len(buf))
  BY <1>1, <1>3
<1>12. m < Len(buf) => wallClock - buf[m + 1].at <= Window
  BY <1>8, <1>11
<1>13. /\ Trim(buf) \in Seq(S) /\ Len(Trim(buf)) = Len(buf) - m
       /\ \A i \in 1 .. Len(Trim(buf)) : Trim(buf)[i] = buf[i + m]
  BY <1>10
<1> HIDE DEF m
<1>14. QED
  BY <1>11, <1>12, <1>13

(* Of empty windows there is nothing to say. *)
LEMMA NothingIsInOrder ==
  /\ 1 .. Len(<<>>) = {} /\ <<>> \in Seq(Events) /\ <<>> \in Seq(Counts)
  BY DEF Events, Counts

LEMMA FleetInvInit == FleetInit => FleetInv
<1> SUFFICES ASSUME FleetInit PROVE FleetInv
  OBVIOUS
<1>1. FleetTypeOK
  BY NothingIsInOrder DEF FleetInit, FleetTypeOK
<1>2. 1 .. Len(xidEvents) = {} /\ 1 .. Len(sbeCounts) = {} /\ seenXids = -1
  BY NothingIsInOrder DEF FleetInit
<1>3. QED
  BY <1>1, <1>2 DEF FleetInv, NewCodeIsNewXid, XidsInTurn, CountsBelowTotals, CounterBelowTotal,
     InOrder, SbeWindow, Recent

LEMMA ObserveXidKeeps ==
  ASSUME FleetInv, NEW got \in BOOLEAN, ObserveXid(got), UNCHANGED <<wallClock, stepped, gpu>>
  PROVE  /\ xidEvents' \in Seq(Events) /\ seenXids' \in Nat \cup {-1}
         /\ NewCodeIsNewXid' /\ XidsInTurn(xidEvents, seenXids)'
         /\ ~ stepped => InOrder(xidEvents)' /\ Recent(xidEvents)'
<1> DEFINE event == [at |-> wallClock, before |-> seenXids, after |-> xids]
           isNew == got /\ code # 0 /\ code # lastXid
           buf == IF isNew THEN Append(xidEvents, event) ELSE xidEvents
           t == Trim(buf)
<1>1. /\ xidEvents' = t /\ lastXid' = (IF isNew THEN code ELSE lastXid)
      /\ seenXids' = IF got THEN xids ELSE seenXids
  BY DEF ObserveXid
<1>2. /\ event \in Events /\ wallClock \in Int /\ xidEvents \in Seq(Events)
      /\ xids \in Nat /\ seenXids \in Nat \cup {-1} /\ xids' = xids /\ code' = code
      /\ wallClock' = wallClock
  BY DEF FleetInv, FleetTypeOK, Events, gpu
<1>3. seenXids' \in Nat \cup {-1} /\ NewCodeIsNewXid'
  BY <1>1, <1>2 DEF NewCodeIsNewXid, FleetInv
<1>4. /\ buf \in Seq(Events)
      /\ Len(buf) = IF isNew THEN Len(xidEvents) + 1 ELSE Len(xidEvents)
      /\ \A i \in 1 .. Len(xidEvents) : buf[i] = xidEvents[i]
      /\ isNew => buf[Len(xidEvents) + 1] = event
      /\ Len(xidEvents) \in Nat
  BY <1>2
<1>5. \A i \in 1 .. Len(xidEvents) : xidEvents[i] \in Events
  BY <1>2
<1>6. \A i \in 1 .. Len(buf) : buf[i] \in Events /\ buf[i].at \in Int
  <2> HIDE DEF event, isNew, buf, t
  <2>1. \A i \in 1 .. Len(buf) : buf[i] \in Events
    BY <1>4
  <2>2. QED
    BY <2>1 DEF Events
<1>7. \A i \in 1 .. Len(buf) : i \in 1 .. Len(xidEvents) \/ (isNew /\ i = Len(xidEvents) + 1)
  BY <1>4
<1>8. XidsInTurn(buf, seenXids')
  <2>1. isNew => seenXids = -1 \/ seenXids < xids
    BY <1>2 DEF FleetInv, NewCodeIsNewXid
  <2>2. \A i \in 1 .. Len(xidEvents) : /\ xidEvents[i].after <= seenXids
                                       /\ xidEvents[i].after \in Nat /\ seenXids <= xids
    BY <1>2, <1>5 DEF FleetInv, XidsInTurn, NewCodeIsNewXid, Events
  <2>3. ASSUME NEW i \in 1 .. Len(buf)
        PROVE  buf[i].after <= seenXids' /\ (buf[i].before = -1 \/ buf[i].before < buf[i].after)
    <3>1. CASE i \in 1 .. Len(xidEvents)
      BY <3>1, <2>2, <1>1, <1>2, <1>4 DEF FleetInv, XidsInTurn
    <3>2. CASE isNew /\ i = Len(xidEvents) + 1
      BY <3>2, <2>1, <1>1, <1>2, <1>4
    <3>3. QED
      BY <3>1, <3>2, <1>7
  <2>4. ASSUME NEW i \in 1 .. Len(buf), NEW j \in 1 .. Len(buf), i < j
        PROVE  buf[i].after <= buf[j].before
    <3>1. i \in 1 .. Len(xidEvents)
      BY <2>4, <1>4
    <3>2. CASE j \in 1 .. Len(xidEvents)
      BY <3>1, <3>2, <2>4, <1>4 DEF FleetInv, XidsInTurn
    <3>3. CASE isNew /\ j = Len(xidEvents) + 1
      BY <3>1, <3>3, <2>2, <1>4
    <3>4. QED
      BY <3>2, <3>3, <1>7
  <2>5. QED
    BY <2>3, <2>4 DEF XidsInTurn
<1>9. ~ stepped => InOrder(buf)
  <2> SUFFICES ASSUME ~ stepped PROVE InOrder(buf)
    OBVIOUS
  <2>1. InOrder(xidEvents)
    BY DEF FleetInv
  <2>2. \A i \in 1 .. Len(buf) : buf[i].at <= wallClock
    BY <2>1, <1>2, <1>4, <1>7 DEF InOrder
  <2>3. ASSUME NEW i \in 1 .. Len(buf), NEW j \in 1 .. Len(buf), i < j
        PROVE  buf[i].at <= buf[j].at
    <3>1. i \in 1 .. Len(xidEvents)
      BY <2>3, <1>4
    <3>2. CASE j \in 1 .. Len(xidEvents)
      BY <3>1, <3>2, <2>1, <2>3, <1>4 DEF InOrder
    <3>3. CASE isNew /\ j = Len(xidEvents) + 1
      BY <3>1, <3>3, <2>2, <1>4
    <3>4. QED
      BY <3>2, <3>3, <1>7
  <2>4. QED
    BY <2>2, <2>3 DEF InOrder
<1> HIDE DEF event, isNew, buf
<1>10. PICK m \in 0 .. Len(buf) :
         /\ t \in Seq(Events) /\ Len(t) = Len(buf) - m
         /\ \A i \in 1 .. Len(t) : t[i] = buf[i + m]
         /\ m < Len(buf) => wallClock - buf[m + 1].at <= Window
  BY <1>2, <1>4, <1>6, TrimIs
<1> HIDE DEF t
<1>11. /\ m \in Nat /\ Len(buf) \in Nat /\ Len(t) \in Nat
       /\ \A i \in 1 .. Len(t) : i + m \in 1 .. Len(buf)
  BY <1>4, <1>10
<1>15. \A i, j \in 1 .. Len(t) : i < j => i + m < j + m
  BY <1>11
<1>12. XidsInTurn(t, seenXids')
  BY <1>8, <1>10, <1>11, <1>15 DEF XidsInTurn
<1>13. ASSUME ~ stepped PROVE InOrder(t) /\ Recent(t)
  <2>1. InOrder(t)
    BY <1>9, <1>10, <1>11, <1>13, <1>15 DEF InOrder
  <2>2. ASSUME NEW i \in 1 .. Len(t) PROVE wallClock - t[i].at <= Window
    <3>1. m < Len(buf) /\ m + 1 \in 1 .. Len(buf)
      BY <1>10, <1>11
    <3>2. buf[m + 1].at <= buf[i + m].at
      BY <3>1, <1>6, <1>9, <1>11, <1>13 DEF InOrder
    <3>3. /\ wallClock - buf[m + 1].at <= Window /\ t[i] = buf[i + m]
          /\ buf[m + 1].at \in Int /\ buf[i + m].at \in Int /\ wallClock \in Int
      BY <3>1, <1>2, <1>6, <1>10, <1>11
    <3>4. QED
      BY <3>2, <3>3, WindowAssumption
  <2>3. QED
    BY <2>1, <2>2 DEF Recent
<1>14. QED
  BY <1>1, <1>2, <1>3, <1>10, <1>12, <1>13 DEF XidsInTurn, InOrder, Recent

LEMMA ObserveSbeKeeps ==
  ASSUME FleetInv, NEW got \in BOOLEAN, ObserveSbe(got), UNCHANGED <<wallClock, stepped, gpu>>
  PROVE  /\ sbeCounts' \in Seq(Counts)
         /\ CountsBelowTotals(sbeCounts)' /\ CounterBelowTotal'
         /\ ~ stepped => InOrder(sbeCounts)' /\ SbeWindow'
<1> DEFINE last == [at |-> wallClock, value |-> counter, total |-> corrected]
           n == Len(sbeCounts)
           buf == Append(sbeCounts, last)
           t == Trim(buf)
<1>1. /\ last \in Counts /\ wallClock \in Int /\ sbeCounts \in Seq(Counts)
      /\ counter \in Nat /\ corrected \in Nat
      /\ counter' = counter /\ corrected' = corrected /\ wallClock' = wallClock
      /\ n \in Nat
  BY DEF FleetInv, FleetTypeOK, Counts, gpu
<1>2. CASE ~ got
  <2>1. sbeCounts' = sbeCounts
    BY <1>2 DEF ObserveSbe
  <2>2. QED
    BY <2>1, <1>1 DEF FleetInv, CountsBelowTotals, CounterBelowTotal, InOrder, SbeWindow
<1>3. CASE got
  <2>1. sbeCounts' = t
    BY <1>3 DEF ObserveSbe
  <2>2. /\ buf \in Seq(Counts) /\ Len(buf) = n + 1
        /\ \A i \in 1 .. n : buf[i] = sbeCounts[i] /\ sbeCounts[i] \in Counts
        /\ buf[n + 1] = last
    BY <1>1
  <2>3. \A i \in 1 .. n + 1 : /\ i \in 1 .. n \/ i = n + 1
                              /\ buf[i] \in Counts
                              /\ buf[i].at \in Int /\ buf[i].value \in Nat /\ buf[i].total \in Nat
    <3>1. \A i \in 1 .. n + 1 : i \in 1 .. n \/ i = n + 1
      BY <1>1
    <3>2. \A i \in 1 .. n + 1 : buf[i] \in Counts
      BY <1>1, <2>2, <3>1
    <3> HIDE DEF buf, last
    <3>3. QED
      BY <3>1, <3>2 DEF Counts
  <2>4. CountsBelowTotals(buf)
    <3>1. SUFFICES ASSUME NEW i \in 1 .. n + 1, NEW j \in 1 .. n + 1, i < j
                   PROVE  /\ buf[i].total <= buf[j].total
                          /\ buf[j].value - buf[i].value <= buf[j].total - buf[i].total
      BY <2>2 DEF CountsBelowTotals
    <3>2. i \in 1 .. n
      BY <3>1, <1>1
    <3>3. CASE j \in 1 .. n
      BY <3>1, <3>2, <3>3, <2>2 DEF FleetInv, CountsBelowTotals
    <3>4. CASE j = n + 1
      BY <3>2, <3>4, <2>2, <2>3 DEF FleetInv, CounterBelowTotal
    <3>5. QED
      BY <3>3, <3>4, <2>3
  <2>5. \A i \in 1 .. n + 1 : /\ buf[i].total <= corrected
                              /\ counter - buf[i].value <= corrected - buf[i].total
    BY <1>1, <2>2, <2>3 DEF FleetInv, CounterBelowTotal
  <2>6. ~ stepped => InOrder(buf)
    <3> SUFFICES ASSUME ~ stepped PROVE InOrder(buf)
      OBVIOUS
    <3>1. \A i \in 1 .. n + 1 : buf[i].at <= wallClock
      BY <1>1, <2>2, <2>3 DEF FleetInv, InOrder
    <3>2. ASSUME NEW i \in 1 .. n + 1, NEW j \in 1 .. n + 1, i < j
          PROVE  buf[i].at <= buf[j].at
      <4>1. i \in 1 .. n
        BY <3>2, <1>1
      <4>2. CASE j \in 1 .. n
        BY <4>1, <4>2, <3>2, <2>2 DEF FleetInv, InOrder
      <4>3. CASE j = n + 1
        BY <4>1, <4>3, <3>1, <2>2
      <4>4. QED
        BY <4>2, <4>3, <2>3
    <3>3. QED
      BY <2>2, <3>1, <3>2 DEF InOrder
  <2> HIDE DEF last, n, buf
  <2>7. PICK m \in 0 .. Len(buf) :
          /\ t \in Seq(Counts) /\ Len(t) = Len(buf) - m
          /\ \A i \in 1 .. Len(t) : t[i] = buf[i + m]
          /\ m < Len(buf) => wallClock - buf[m + 1].at <= Window
    BY <1>1, <2>2, <2>3, TrimIs
  <2> HIDE DEF t
  <2>8. /\ m \in Nat /\ Len(buf) \in Nat /\ Len(t) \in Nat
        /\ \A i \in 1 .. Len(t) : i + m \in 1 .. Len(buf)
    BY <1>1, <2>2, <2>7
  <2>13. \A i, j \in 1 .. Len(t) : i < j => i + m < j + m
    BY <2>8
  <2>9. CountsBelowTotals(t)
    BY <2>4, <2>7, <2>8, <2>13 DEF CountsBelowTotals
  <2>10. \A i \in 1 .. Len(t) : /\ t[i].total <= corrected
                                /\ counter - t[i].value <= corrected - t[i].total
    BY <2>2, <2>5, <2>7, <2>8
  <2>11. ASSUME ~ stepped
         PROVE  InOrder(t) /\ \A i, j \in 1 .. Len(t) : t[j].at - t[i].at <= Window
    <3>1. InOrder(t)
      BY <2>6, <2>7, <2>8, <2>11, <2>13 DEF InOrder
    <3>2. ASSUME NEW i \in 1 .. Len(t) PROVE wallClock - t[i].at <= Window
      <4>1. m < Len(buf) /\ m + 1 \in 1 .. Len(buf)
        BY <2>7, <2>8
      <4>2. buf[m + 1].at <= buf[i + m].at
        BY <4>1, <2>2, <2>3, <2>6, <2>8, <2>11 DEF InOrder
      <4>3. /\ wallClock - buf[m + 1].at <= Window /\ t[i] = buf[i + m]
            /\ buf[m + 1].at \in Int /\ buf[i + m].at \in Int /\ wallClock \in Int
        BY <4>1, <1>1, <2>2, <2>3, <2>7, <2>8
      <4>4. QED
        BY <4>2, <4>3, WindowAssumption
    <3>3. \A i \in 1 .. Len(t) : t[i].at \in Int /\ t[i].at <= wallClock
      BY <3>1, <2>2, <2>3, <2>7, <2>8 DEF InOrder
    <3>4. ASSUME NEW i \in 1 .. Len(t), NEW j \in 1 .. Len(t) PROVE t[j].at - t[i].at <= Window
      <4>1. /\ wallClock - t[i].at <= Window /\ t[j].at <= wallClock
            /\ t[i].at \in Int /\ t[j].at \in Int /\ wallClock \in Int
        BY <3>2, <3>3, <1>1
      <4>2. QED
        BY <4>1, WindowAssumption
    <3>5. QED
      BY <3>1, <3>4
  <2>12. QED
    BY <1>1, <2>1, <2>7, <2>9, <2>10, <2>11
    DEF CountsBelowTotals, CounterBelowTotal, InOrder, SbeWindow
<1>4. QED
  BY <1>2, <1>3

LEMMA FleetInvNext == FleetInv /\ [FleetNext]_fleetVars => FleetInv'
<1> SUFFICES ASSUME FleetInv, [FleetNext]_fleetVars PROVE FleetInv'
  OBVIOUS
<1>0. /\ \A i \in 1 .. Len(xidEvents) : xidEvents[i] \in Events /\ xidEvents[i].at \in Int
      /\ \A i \in 1 .. Len(sbeCounts) : /\ sbeCounts[i].at \in Int
                                        /\ sbeCounts[i].value \in Nat /\ sbeCounts[i].total \in Nat
  <2>1. xidEvents \in Seq(Events) /\ sbeCounts \in Seq(Counts)
    BY DEF FleetInv, FleetTypeOK
  <2>2. /\ \A i \in 1 .. Len(xidEvents) : xidEvents[i] \in Events
        /\ \A i \in 1 .. Len(sbeCounts) : sbeCounts[i] \in Counts
    BY <2>1
  <2>3. QED
    BY <2>2 DEF Events, Counts
<1>1. CASE ClockTicks
  <2>1. /\ wallClock' = wallClock + 1 /\ slept' = TRUE /\ wallClock \in Nat
        /\ UNCHANGED <<stepped, code, xids, counter, corrected, lastXid, xidEvents, sbeCounts, seenXids>>
    BY <1>1 DEF ClockTicks, gpu, tracker, FleetInv, FleetTypeOK
  <2>2. FleetTypeOK'
    BY <2>1 DEF FleetInv, FleetTypeOK
  <2>3. /\ NewCodeIsNewXid' /\ XidsInTurn(xidEvents, seenXids)'
        /\ CountsBelowTotals(sbeCounts)' /\ CounterBelowTotal'
    BY <2>1 DEF FleetInv, NewCodeIsNewXid, XidsInTurn, CountsBelowTotals, CounterBelowTotal
  <2>4. ~ stepped => InOrder(xidEvents)' /\ InOrder(sbeCounts)'
    BY <1>0, <2>1 DEF FleetInv, InOrder
  <2>5. ~ stepped => SbeWindow'
    BY <2>1 DEF FleetInv, SbeWindow
  <2>6. QED
    BY <2>1, <2>2, <2>3, <2>4, <2>5 DEF FleetInv
<1>2. CASE StepBack
  BY <1>2 DEF StepBack, gpu, tracker, FleetInv, FleetTypeOK, NewCodeIsNewXid, XidsInTurn,
     CountsBelowTotals, CounterBelowTotal
<1>3. ASSUME NEW c \in Codes, Xid(c) PROVE FleetInv'
  BY <1>3 DEF Xid, tracker, FleetInv, FleetTypeOK, NewCodeIsNewXid, XidsInTurn,
     CountsBelowTotals, CounterBelowTotal, InOrder, SbeWindow, Recent
<1>4. CASE Correct
  BY <1>0, <1>4 DEF Correct, tracker, FleetInv, FleetTypeOK, NewCodeIsNewXid, XidsInTurn,
     CountsBelowTotals, CounterBelowTotal, InOrder, SbeWindow, Recent
<1>5. CASE ReloadDriver
  BY <1>0, <1>5 DEF ReloadDriver, tracker, FleetInv, FleetTypeOK, NewCodeIsNewXid, XidsInTurn,
     CountsBelowTotals, CounterBelowTotal, InOrder, SbeWindow, Recent
<1>6. CASE SampleHealth
  <2>1. PICK gotCode \in BOOLEAN, gotCounter \in BOOLEAN : ObserveXid(gotCode) /\ ObserveSbe(gotCounter)
    BY <1>6 DEF SampleHealth
  <2>2. UNCHANGED <<wallClock, stepped, gpu>> /\ slept' = FALSE
    BY <1>6 DEF SampleHealth
  <2>3. /\ xidEvents' \in Seq(Events) /\ seenXids' \in Nat \cup {-1}
        /\ NewCodeIsNewXid' /\ XidsInTurn(xidEvents, seenXids)'
        /\ ~ stepped => InOrder(xidEvents)' /\ Recent(xidEvents)'
    BY <2>1, <2>2, ObserveXidKeeps
  <2>4. /\ sbeCounts' \in Seq(Counts)
        /\ CountsBelowTotals(sbeCounts)' /\ CounterBelowTotal'
        /\ ~ stepped => InOrder(sbeCounts)' /\ SbeWindow'
    BY <2>1, <2>2, ObserveSbeKeeps
  <2>5. FleetTypeOK'
    BY <2>2, <2>3, <2>4 DEF FleetInv, FleetTypeOK, gpu
  <2>6. QED
    BY <2>2, <2>3, <2>4, <2>5 DEF FleetInv
<1>7. CASE RestartTracker
  <2>1. /\ FleetTypeOK' /\ seenXids' = -1
        /\ 1 .. Len(xidEvents') = {} /\ 1 .. Len(sbeCounts') = {}
    BY <1>7, NothingIsInOrder DEF RestartTracker, gpu, FleetInv, FleetTypeOK
  <2>2. QED
    BY <2>1 DEF FleetInv, NewCodeIsNewXid, XidsInTurn, CountsBelowTotals, CounterBelowTotal,
       InOrder, SbeWindow, Recent
<1>8. CASE UNCHANGED fleetVars
  BY <1>8 DEF fleetVars, FleetInv, FleetTypeOK, NewCodeIsNewXid, XidsInTurn,
     CountsBelowTotals, CounterBelowTotal, InOrder, SbeWindow, Recent
<1>9. QED
  BY <1>1, <1>2, <1>3, <1>4, <1>5, <1>6, <1>7, <1>8 DEF FleetNext

(* The inductive invariant of FleetHealthTracker. *)
THEOREM FleetInvariance == FleetSpec => []FleetInv
  BY FleetInvInit, FleetInvNext, PTL DEF FleetSpec

LEMMA RateIsBelowTotal ==
  ASSUME FleetInv, sbeCounts # <<>>
  PROVE  /\ SbeRate.errors <= Last(sbeCounts).total - Head(sbeCounts).total
         /\ ~ stepped => SbeRate.seconds <= Window
<1> DEFINE n == Len(sbeCounts)
<1>1. /\ sbeCounts \in Seq(Counts) /\ n \in Nat /\ n >= 1
      /\ Head(sbeCounts) = sbeCounts[1] /\ Last(sbeCounts) = sbeCounts[n]
  <2>1. sbeCounts \in Seq(Counts)
    BY DEF FleetInv, FleetTypeOK
  <2>2. QED
    BY <2>1 DEF Last
<1>2. /\ sbeCounts[1] \in Counts /\ sbeCounts[n] \in Counts
  BY <1>1
<1>3. /\ sbeCounts[1].total \in Nat /\ sbeCounts[1].value \in Nat /\ sbeCounts[1].at \in Int
      /\ sbeCounts[n].total \in Nat /\ sbeCounts[n].value \in Nat /\ sbeCounts[n].at \in Int
  BY <1>2 DEF Counts
<1>4. CASE n >= 2 /\ sbeCounts[n].at > sbeCounts[1].at
  <2> DEFINE d == sbeCounts[n].value - sbeCounts[1].value
  <2>1. SbeRate = [errors |-> Max({0, d}), seconds |-> sbeCounts[n].at - sbeCounts[1].at]
    BY <1>1, <1>4 DEF SbeRate
  <2>2. 1 \in 1 .. n /\ n \in 1 .. n /\ 1 < n
    BY <1>1, <1>4
  <2>3. /\ sbeCounts[1].total <= sbeCounts[n].total
        /\ d <= sbeCounts[n].total - sbeCounts[1].total
    BY <2>2 DEF FleetInv, CountsBelowTotals
  <2>4. Max({0, d}) \in {0, d}
    <3>1. \E x \in {0, d} : \A y \in {0, d} : x >= y
      BY <1>3
    <3> HIDE DEF d
    <3>2. QED
      BY <3>1, Zenon DEF Max
  <2>5. SbeRate.errors <= sbeCounts[n].total - sbeCounts[1].total
    BY <2>1, <2>3, <2>4, <1>3
  <2>6. ~ stepped => SbeRate.seconds <= Window
    BY <2>1, <2>2 DEF FleetInv, SbeWindow
  <2>7. QED
    BY <2>5, <2>6, <1>1
<1>5. CASE ~ (n >= 2 /\ sbeCounts[n].at > sbeCounts[1].at)
  <2>1. SbeRate = [errors |-> 0, seconds |-> 0]
    BY <1>1, <1>5 DEF SbeRate
  <2>2. sbeCounts[1].total <= sbeCounts[n].total
    <3>1. CASE n = 1
      BY <3>1, <1>3
    <3>2. CASE n >= 2
      <4>1. 1 \in 1 .. n /\ n \in 1 .. n /\ 1 < n
        BY <3>2, <1>1
      <4>2. QED
        BY <4>1 DEF FleetInv, CountsBelowTotals
    <3> HIDE DEF n
    <3>3. n = 1 \/ n >= 2
      BY <1>1
    <3>4. QED
      BY <3>1, <3>2, <3>3
  <2>3. QED
    BY <2>1, <2>2, <1>1, <1>3, WindowAssumption
<1>6. QED
  BY <1>4, <1>5

(* The rates of FleetHealthTracker: no XID counts twice, corrected errors    *)
(* are never overstated, and both are of the window unless the clock is set  *)
(* back.                                                                     *)
THEOREM RatesAreOfWindows == FleetSpec => []RatesAreOfTheWindow
<1>1. FleetInv => RatesAreOfTheWindow
  <2> SUFFICES ASSUME FleetInv, ~ slept PROVE RatesAreOfTheWindow
    BY DEF RatesAreOfTheWindow
  <2>1. DOMAIN xidEvents = 1 .. Len(xidEvents)
    BY DEF FleetInv, FleetTypeOK
  <2>2. sbeCounts = <<>> => SbeRate = [errors |-> 0, seconds |-> 0]
    BY DEF SbeRate
  <2>3. ~ stepped => SbeRate.seconds <= Window
    BY <2>2, RateIsBelowTotal, WindowAssumption
  <2>4. sbeCounts # <<>> => SbeRate.errors <= Last(sbeCounts).total - Head(sbeCounts).total
    BY RateIsBelowTotal
  <2>5. /\ \A i \in DOMAIN xidEvents :
             /\ xidEvents[i].before = -1 \/ xidEvents[i].before < xidEvents[i].after
             /\ ~ stepped => wallClock - xidEvents[i].at <= Window
        /\ \A i, j \in DOMAIN xidEvents : i < j => xidEvents[i].after <= xidEvents[j].before
    BY <2>1 DEF FleetInv, XidsInTurn, Recent
  <2>6. QED
    BY <2>3, <2>4, <2>5 DEF RatesAreOfTheWindow
<1>2. QED
  BY <1>1, FleetInvariance, PTL

-----------------------------------------------------------------------------
(***************************************************************************)
(* NcclTail: the records of a log.                                         *)
(***************************************************************************)
NcclTypeOK ==
  /\ written \in Nat /\ start \in Nat /\ start <= written /\ start % 2 = 0
  /\ tailPc \in {"sleeping", "read", "dead"}
  /\ position \in Nat
  /\ emitted \in Seq(Nat) /\ records \in Seq(Nat)
  /\ ~ behind => Until(position) <= written

(* What is emitted, and then what is about to be, is in the order of the log *)
(* and lies before the position.                                             *)
InLogOrder(seq) ==
  /\ \A n \in 1 .. Len(seq) : 2 * seq[n] <= Until(position)
  /\ \A m, n \in 1 .. Len(seq) : m < n => seq[m] < seq[n]
TailInOrder ==
  /\ InLogOrder(emitted)
  /\ tailPc = "read" =>
       /\ InLogOrder(records)
       /\ \A m \in 1 .. Len(emitted), n \in 1 .. Len(records) : emitted[m] < records[n]

(* A record whose first half only lies before the position is torn, ...      *)
HalvesAreTorn ==
  /\ \A r \in torn : r \in Nat /\ 2 * r - 1 <= Until(position)
  /\ ~ behind /\ Until(position) % 2 = 1 => Until(position) \div 2 + 1 \in torn

(* ... and the whole ones are emitted or about to be.                        *)
IsTaken(r) == r \in Range(emitted) \/ (tailPc = "read" /\ r \in Range(records))
NoneIsMissing ==
  tailPc # "dead" /\ ~ behind =>
    \A r \in 1 .. written :
      start < 2 * r /\ 2 * r <= Until(position) => (IsTaken(r) <=> r \notin torn)

NcclInv == NcclTypeOK /\ TailInOrder /\ HalvesAreTorn /\ NoneIsMissing

-----------------------------------------------------------------------------
(* The halves of h as records. *)
LEMMA Halves ==
  ASSUME NEW h \in Nat
  PROVE  /\ h \div 2 \in Nat /\ (h + 1) \div 2 \in Nat
         /\ 2 * (h \div 2) <= h /\ h <= 2 * (h \div 2) + 1
         /\ h <= 2 * ((h + 1) \div 2) /\ 2 * ((h + 1) \div 2) <= h + 1
         /\ h % 2 = h - 2 * (h \div 2)
  OBVIOUS

LEMMA NcclInvInit == NcclInit => NcclInv
<1> SUFFICES ASSUME NcclInit PROVE NcclInv
  OBVIOUS
<1>1. NcclTypeOK
  BY DEF NcclInit, NcclTypeOK, Until
<1>2. Len(emitted) = 0 /\ 1 .. 0 = {} /\ 1 .. written = {}
  BY DEF NcclInit
<1>3. TailInOrder /\ NoneIsMissing
  BY <1>2 DEF NcclInit, TailInOrder, InLogOrder, NoneIsMissing
<1>4. HalvesAreTorn
  BY DEF NcclInit, HalvesAreTorn, Until
<1>5. QED
  BY <1>1, <1>3, <1>4 DEF NcclInv

(* What a read finds. *)
LEMMA WholeRecordsAre ==
  ASSUME NcclTypeOK
  PROVE  LET found == WholeRecords(position)
             read == (Until(position) + 1) \div 2
         IN /\ found \in Seq(Nat)
            /\ \A n \in 1 .. Len(found) : found[n] = read + n /\ 2 * found[n] <= written
                                          /\ Until(position) + 2 <= 2 * found[n]
            /\ \A r \in Nat : Until(position) + 2 <= 2 * r /\ 2 * r <= written
                              => r \in Range(found)
<1> DEFINE read == (Until(position) + 1) \div 2
           k == written \div 2 - read
           found == WholeRecords(position)
<1>1. Until(position) \in Nat /\ written \in Nat
  BY DEF NcclTypeOK, Until
<1>2. /\ read \in Nat /\ k \in Int /\ written \div 2 \in Nat
      /\ Until(position) <= 2 * read /\ 2 * read <= Until(position) + 1
      /\ 2 * (written \div 2) <= written /\ written <= 2 * (written \div 2) + 1
  BY <1>1, Halves
<1>3. found = [n \in 1 .. k |-> read + n]
  BY DEF WholeRecords
<1> DEFINE len == IF k > 0 THEN k ELSE 0
<1>4. 1 .. k = 1 .. len /\ len \in Nat
  BY <1>2
<1>6. k = written \div 2 - read
  OBVIOUS
<1> HIDE DEF read, k, found, len
<1>5. found \in Seq(Nat) /\ Len(found) = len
  <2>1. found = [n \in 1 .. len |-> read + n]
    BY <1>3, <1>4
  <2>2. QED
    BY <2>1, <1>2, <1>4
<1>7. \A n \in 1 .. len : n \in 1 .. k /\ found[n] = read + n
  BY <1>3, <1>4
<1>8. ASSUME NEW n \in 1 .. len
      PROVE  /\ found[n] = read + n /\ 2 * found[n] <= written
             /\ Until(position) + 2 <= 2 * found[n]
  BY <1>1, <1>2, <1>4, <1>6, <1>7
<1>9. ASSUME NEW r \in Nat, Until(position) + 2 <= 2 * r, 2 * r <= written
      PROVE  r \in Range(found)
  <2>1. r - read \in 1 .. k
    BY <1>1, <1>2, <1>6, <1>9
  <2>2. found[r - read] = r /\ r - read \in DOMAIN found
    BY <2>1, <1>2, <1>3
  <2>3. QED
    BY <2>2 DEF Range
<1>10. QED
  BY <1>5, <1>8, <1>9 DEF read, found

LEMMA TailAndParseKeepsInv ==
  ASSUME NcclInv, TailAndParse
  PROVE  NcclInv'
<1> USE DEF NcclInv, TailAndParse
<1> DEFINE U == Until(position)
           V == IF U > written THEN U ELSE written
<1>1. /\ written \in Nat /\ start \in Nat /\ position \in Nat /\ U \in Nat /\ V \in Nat
      /\ start <= written /\ start % 2 = 0 /\ U = start + position
  BY DEF NcclTypeOK, Until
<1>2. Until(position)' = V /\ position' \in Nat /\ U <= V /\ written <= V
  BY <1>1 DEF NewPosition, Size, Until
<1>3. /\ records' \in Seq(Nat)
      /\ \A n \in 1 .. Len(records') : records'[n] \in Nat /\ 2 * records'[n] <= written
                                       /\ U + 2 <= 2 * records'[n]
      /\ \A m, n \in 1 .. Len(records') : m < n => records'[m] < records'[n]
      /\ \A r \in Nat : U + 2 <= 2 * r /\ 2 * r <= written => r \in Range(records')
  <2> DEFINE read == (U + 1) \div 2
  <2>1. /\ records' \in Seq(Nat)
        /\ \A n \in 1 .. Len(records') : /\ records'[n] = read + n /\ 2 * records'[n] <= written
                                         /\ U + 2 <= 2 * records'[n]
        /\ \A r \in Nat : U + 2 <= 2 * r /\ 2 * r <= written => r \in Range(records')
    BY WholeRecordsAre
  <2>2. read \in Nat
    BY <1>1
  <2> HIDE DEF read, U
  <2>3. \A m, n \in 1 .. Len(records') : m < n => records'[m] < records'[n]
    BY <2>1, <2>2
  <2>4. QED
    BY <2>1, <2>3
<1>4. UNCHANGED <<written, start, emitted, behind>> /\ tailPc' = "read" /\ tailPc = "sleeping"
  OBVIOUS
<1>5. ~ behind => U <= written /\ V = written
  BY <1>1 DEF NcclTypeOK
<1>6. NcclTypeOK'
  BY <1>1, <1>2, <1>3, <1>4, <1>5 DEF NcclTypeOK
<1>7. emitted \in Seq(Nat) /\ \A m \in 1 .. Len(emitted) : emitted[m] \in Nat /\ 2 * emitted[m] <= U
  BY DEF NcclTypeOK, TailInOrder, InLogOrder
<1> HIDE DEF U, V
<1>8. TailInOrder'
  <2>1. InLogOrder(emitted)'
    BY <1>1, <1>2, <1>4, <1>7 DEF TailInOrder, InLogOrder
  <2>2. InLogOrder(records)'
    BY <1>1, <1>2, <1>3 DEF InLogOrder
  <2>3. ASSUME NEW m \in 1 .. Len(emitted), NEW n \in 1 .. Len(records')
        PROVE  emitted[m] < records'[n]
    <3>1. emitted[m] \in Nat /\ 2 * emitted[m] <= U
      BY <1>7
    <3>2. records'[n] \in Nat /\ U + 2 <= 2 * records'[n]
      BY <1>3
    <3>3. QED
      BY <1>1, <3>1, <3>2
  <2>4. QED
    BY <2>1, <2>2, <2>3, <1>4 DEF TailInOrder
<1>9. torn' = IF written > U /\ written % 2 = 1 THEN torn \cup {written \div 2 + 1} ELSE torn
  <2>1. Size > position <=> written > U
    BY <1>1 DEF Size, Until
  <2>2. QED
    BY <2>1
<1>10. /\ written \div 2 + 1 \in Nat
       /\ written % 2 = 1 => 2 * (written \div 2 + 1) = written + 1
  BY <1>1
<1>11. HalvesAreTorn'
  <2>1. \A r \in torn : r \in Nat /\ 2 * r - 1 <= U
    BY DEF HalvesAreTorn, U
  <2>2. \A r \in torn' : r \in Nat /\ 2 * r - 1 <= V
    BY <1>1, <1>2, <1>9, <1>10, <2>1
  <2>3. ASSUME ~ behind, V % 2 = 1 PROVE V \div 2 + 1 \in torn'
    <3>1. V = written /\ U <= written
      BY <1>5, <2>3
    <3>2. CASE written > U
      BY <3>1, <3>2, <2>3, <1>9
    <3>3. CASE written = U
      BY <3>1, <3>3, <2>3, <1>9 DEF HalvesAreTorn, U
    <3>4. QED
      BY <3>1, <3>2, <3>3, <1>1
  <2>4. QED
    BY <2>2, <2>3, <1>2, <1>4 DEF HalvesAreTorn
<1>12. ASSUME ~ behind, NEW r \in 1 .. written, start < 2 * r, 2 * r <= V
       PROVE  (r \in Range(emitted) \/ r \in Range(records')) <=> r \notin torn'
  <2>1. V = written /\ U <= written /\ r \in Nat
    BY <1>1, <1>5, <1>12
  <2>2. ~ (written % 2 = 1 /\ r = written \div 2 + 1)
    BY <1>1, <1>10, <1>12, <2>1
  <2>3. r \in torn' <=> r \in torn
    BY <1>9, <2>2
  <2>4. r \in Range(records') => U + 2 <= 2 * r
    <3>1. /\ DOMAIN records' = 1 .. Len(records')
          /\ \A n \in 1 .. Len(records') : U + 2 <= 2 * records'[n]
      BY <1>3
    <3>2. QED
      BY <3>1, Zenon DEF Range
  <2>5. r \in Range(emitted) => 2 * r <= U
    <3>1. DOMAIN emitted = 1 .. Len(emitted)
      BY <1>7
    <3>2. QED
      BY <1>7, <3>1 DEF Range
  <2>6. CASE 2 * r <= U
    <3>1. r \in Range(emitted) <=> r \notin torn
      BY <1>4, <1>12, <2>6 DEF NoneIsMissing, IsTaken, U
    <3>2. QED
      BY <3>1, <2>1, <2>3, <2>4, <2>6, <1>1
  <2>7. CASE 2 * r = U + 1
    <3>1. U % 2 = 1 /\ U \div 2 + 1 = r
      BY <1>1, <2>1, <2>7
    <3>2. r \in torn
      BY <3>1, <1>12 DEF HalvesAreTorn, U
    <3>3. QED
      BY <3>2, <2>1, <2>3, <2>4, <2>5, <2>7, <1>1
  <2>8. CASE U + 2 <= 2 * r
    <3>1. r \in Range(records')
      BY <1>3, <1>12, <2>1, <2>8
    <3>2. r \notin torn
      BY <2>1, <2>8, <1>1 DEF HalvesAreTorn, U
    <3>3. QED
      BY <3>1, <3>2, <2>3
  <2>9. QED
    BY <2>1, <2>6, <2>7, <2>8, <1>1
<1>13. NoneIsMissing'
  BY <1>2, <1>4, <1>12 DEF NoneIsMissing, IsTaken
<1>14. QED
  BY <1>6, <1>8, <1>11, <1>13

LEMMA SinkWriteKeepsInv ==
  ASSUME NcclInv, SinkWrite
  PROVE  NcclInv'
<1> USE DEF NcclInv, SinkWrite
<1> DEFINE m == Len(emitted)  n == Len(records)
<1>1. /\ emitted \in Seq(Nat) /\ records \in Seq(Nat) /\ m \in Nat /\ n \in Nat
      /\ emitted' = emitted \o records /\ emitted' \in Seq(Nat) /\ Len(emitted') = m + n
      /\ \A i \in 1 .. m : emitted'[i] = emitted[i]
      /\ \A i \in 1 .. n : emitted'[m + i] = records[i]
  BY DEF NcclTypeOK
<1>2. \A i \in 1 .. m + n : i \in 1 .. m \/ (i - m \in 1 .. n /\ i = m + (i - m))
  BY <1>1
<1>3. /\ \A i \in 1 .. m : emitted'[i] = emitted[i] /\ emitted[i] \in Nat
      /\ \A i \in 1 .. m + n : i \notin 1 .. m => emitted'[i] = records[i - m]
      /\ \A i \in 1 .. n : records[i] \in Nat
  BY <1>1, <1>2
<1>4. NcclTypeOK'
  BY <1>1 DEF NcclTypeOK, Until
<1>5. InLogOrder(emitted) /\ InLogOrder(records)
      /\ \A i \in 1 .. m, k \in 1 .. n : emitted[i] < records[k]
  BY DEF TailInOrder
<1>6. \A i \in 1 .. Len(emitted') : 2 * emitted'[i] <= Until(position)
  BY <1>1, <1>2, <1>3, <1>5 DEF InLogOrder
<1>7. ASSUME NEW i \in 1 .. m + n, NEW k \in 1 .. m + n, i < k
      PROVE  emitted'[i] < emitted'[k]
  <2>1. CASE k \in 1 .. m
    <3>1. i \in 1 .. m
      BY <2>1, <1>1, <1>7
    <3>2. QED
      BY <2>1, <3>1, <1>1, <1>5, <1>7 DEF InLogOrder
  <2>2. CASE k \notin 1 .. m
    <3>1. emitted'[k] = records[k - m] /\ k - m \in 1 .. n
      BY <2>2, <1>2, <1>3
    <3>2. CASE i \in 1 .. m
      BY <3>1, <3>2, <1>1, <1>5
    <3>3. CASE i \notin 1 .. m
      <4>1. emitted'[i] = records[i - m] /\ i - m \in 1 .. n /\ i - m < k - m
        BY <3>3, <1>1, <1>2, <1>3, <1>7
      <4>2. QED
        BY <3>1, <4>1, <1>5 DEF InLogOrder
    <3>4. QED
      BY <3>2, <3>3
  <2>3. QED
    BY <2>1, <2>2
<1>8. TailInOrder' /\ HalvesAreTorn'
  BY <1>1, <1>6, <1>7 DEF TailInOrder, InLogOrder, HalvesAreTorn, Until
<1>9. Range(emitted') = Range(emitted) \cup Range(records)
  <2>1. DOMAIN emitted = 1 .. m /\ DOMAIN records = 1 .. n /\ DOMAIN emitted' = 1 .. m + n
    BY <1>1
  <2>2. \A i \in 1 .. n : m + i \in 1 .. m + n
    BY <1>1
  <2>3. \A i \in 1 .. m : i \in 1 .. m + n
    BY <1>1
  <2> HIDE DEF m, n
  <2>4. ASSUME NEW x \in Range(emitted') PROVE x \in Range(emitted) \cup Range(records)
    <3>1. PICK i \in 1 .. m + n : x = emitted'[i]
      BY <2>1 DEF Range
    <3>2. CASE i \in 1 .. m
      BY <3>1, <3>2, <2>1, <1>1 DEF Range
    <3>3. CASE i \notin 1 .. m
      BY <3>1, <3>3, <2>1, <1>2, <1>3 DEF Range
    <3>4. QED
      BY <3>2, <3>3
  <2>5. ASSUME NEW x \in Range(emitted) \cup Range(records) PROVE x \in Range(emitted')
    <3>1. CASE x \in Range(emitted)
      <4>1. PICK i \in 1 .. m : x = emitted[i]
        BY <3>1, <2>1 DEF Range
      <4>2. QED
        BY <4>1, <2>1, <2>3, <1>1 DEF Range
    <3>2. CASE x \in Range(records)
      <4>1. PICK i \in 1 .. n : x = records[i]
        BY <3>2, <2>1 DEF Range
      <4>2. QED
        BY <4>1, <2>1, <2>2, <1>1 DEF Range
    <3>3. QED
      BY <3>1, <3>2
  <2>6. QED
    BY <2>4, <2>5
<1>10. NoneIsMissing'
  BY <1>9 DEF NoneIsMissing, IsTaken, Until
<1>11. QED
  BY <1>4, <1>8, <1>10

LEMMA NcclInvNext == NcclInv /\ [NcclNext]_ncclVars => NcclInv'
<1> SUFFICES ASSUME NcclInv, [NcclNext]_ncclVars PROVE NcclInv'
  OBVIOUS
<1> USE DEF NcclInv
<1>0. /\ written \in Nat /\ start \in Nat /\ position \in Nat /\ start <= written
      /\ emitted \in Seq(Nat) /\ records \in Seq(Nat)
      /\ \A n \in 1 .. Len(emitted) : emitted[n] \in Nat
  BY DEF NcclTypeOK
<1>1. CASE Write
  <2>1. NcclTypeOK' /\ TailInOrder' /\ HalvesAreTorn'
    BY <1>1 DEF Write, NcclTypeOK, TailInOrder, InLogOrder, HalvesAreTorn, Until
  <2>2. ~ behind => Until(position) <= written /\ Until(position) \in Nat
    BY <1>0 DEF NcclTypeOK, Until
  <2>3. \A r \in 1 .. written + 1 : 2 * r <= Until(position) /\ ~ behind => r \in 1 .. written
    BY <1>0, <2>2
  <2>4. NoneIsMissing'
    BY <1>1, <2>3 DEF Write, NoneIsMissing, IsTaken, Until
  <2>5. QED
    BY <2>1, <2>4
<1>2. CASE Truncate
  <2>1. Until(position) <= Until(position)' /\ Until(position) \in Nat /\ Until(position)' \in Nat
    BY <1>0, <1>2 DEF Truncate, Until
  <2>2. NcclTypeOK' /\ NoneIsMissing'
    BY <1>0, <1>2 DEF Truncate, NcclTypeOK, NoneIsMissing
  <2>3. \A n \in 1 .. Len(records) : records[n] \in Nat
    BY <1>0
  <2>4. TailInOrder'
    <3>1. UNCHANGED <<tailPc, records, emitted>>
      BY <1>2 DEF Truncate
    <3>2. InLogOrder(emitted)'
      BY <1>0, <2>1, <3>1 DEF TailInOrder, InLogOrder
    <3>3. tailPc = "read" => InLogOrder(records)'
      BY <2>1, <2>3, <3>1 DEF TailInOrder, InLogOrder
    <3>4. QED
      BY <3>1, <3>2, <3>3 DEF TailInOrder
  <2>5. HalvesAreTorn'
    BY <1>2, <2>1 DEF Truncate, HalvesAreTorn
  <2>6. QED
    BY <2>2, <2>4, <2>5
<1>3. CASE TailAndParse
  BY <1>3, TailAndParseKeepsInv
<1>4. CASE CannotRead
  <2>1. Len(<<>>) = 0 /\ 1 .. 0 = {} /\ <<>> \in Seq(Nat) /\ Range(<<>>) = {}
    BY DEF Range
  <2>2. QED
    BY <1>4, <2>1 DEF CannotRead, NcclTypeOK, TailInOrder, InLogOrder, HalvesAreTorn,
       NoneIsMissing, IsTaken, Until
<1>5. CASE SinkWrite
  BY <1>5, SinkWriteKeepsInv
<1>6. CASE Die
  BY <1>6 DEF Die, NcclTypeOK, TailInOrder, InLogOrder, HalvesAreTorn, NoneIsMissing, Until
<1>7. CASE Restart
  <2>1. Len(<<>>) = 0 /\ 1 .. 0 = {} /\ <<>> \in Seq(Nat)
    OBVIOUS
  <2>2. Until(position)' = start /\ start % 2 = 0
    BY <1>0, <1>7 DEF Restart, Until, NcclTypeOK
  <2>3. NcclTypeOK' /\ TailInOrder'
    BY <1>7, <2>1, <2>2, <1>0 DEF Restart, NcclTypeOK, TailInOrder, InLogOrder
  <2>4. HalvesAreTorn' /\ NoneIsMissing'
    BY <1>0, <1>7, <2>2 DEF Restart, HalvesAreTorn, NoneIsMissing
  <2>5. QED
    BY <2>3, <2>4
<1>8. CASE UNCHANGED ncclVars
  BY <1>8 DEF ncclVars, NcclTypeOK, TailInOrder, InLogOrder, HalvesAreTorn, NoneIsMissing,
     IsTaken, Until
<1>9. QED
  BY <1>1, <1>2, <1>3, <1>4, <1>5, <1>6, <1>7, <1>8 DEF NcclNext, Idle

(* The inductive invariant of the NCCL monitor and its log. *)
THEOREM NcclInvariance == NcclSpec => []NcclInv
  BY NcclInvInit, NcclInvNext, PTL DEF NcclSpec

LEMMA OrderedIsInjective ==
  ASSUME NEW s \in Seq(Nat), \A m, n \in 1 .. Len(s) : m < n => s[m] < s[n]
  PROVE  IsInjective(s)
<1> SUFFICES ASSUME NEW a \in DOMAIN s, NEW b \in DOMAIN s, s[a] = s[b] PROVE a = b
  BY DEF IsInjective
<1>1. a \in 1 .. Len(s) /\ b \in 1 .. Len(s) /\ s[a] \in Nat /\ s[b] \in Nat
  OBVIOUS
<1>2. QED
  BY <1>1

LEMMA NcclInvIsOnce == NcclInv => EachRecordOnce
<1> SUFFICES ASSUME NcclInv PROVE EachRecordOnce
  OBVIOUS
<1>1. CASE tailPc # "read"
  <2>1. emitted \o <<>> = emitted /\ emitted \in Seq(Nat)
    BY DEF NcclInv, NcclTypeOK
  <2>2. IsInjective(emitted)
    BY <2>1, OrderedIsInjective DEF NcclInv, TailInOrder, InLogOrder
  <2>3. QED
    BY <1>1, <2>1, <2>2 DEF EachRecordOnce, NcclInv, NoneIsMissing, IsTaken
<1>2. CASE tailPc = "read"
  <2> DEFINE all == emitted \o records  m == Len(emitted)  n == Len(records)
  <2>1. /\ emitted \in Seq(Nat) /\ records \in Seq(Nat) /\ m \in Nat /\ n \in Nat
        /\ all \in Seq(Nat) /\ Len(all) = m + n
        /\ \A i \in 1 .. m : all[i] = emitted[i]
        /\ \A i \in 1 .. m + n : i \notin 1 .. m => all[i] = records[i - m] /\ i - m \in 1 .. n
    BY DEF NcclInv, NcclTypeOK
  <2>2. /\ InLogOrder(emitted) /\ InLogOrder(records)
        /\ \A i \in 1 .. m, k \in 1 .. n : emitted[i] < records[k]
    BY <1>2 DEF NcclInv, TailInOrder
  <2> HIDE DEF all
  <2>3. ASSUME NEW i \in 1 .. m + n, NEW k \in 1 .. m + n, i < k PROVE all[i] < all[k]
    <3>1. CASE k \in 1 .. m
      <4>1. i \in 1 .. m
        BY <3>1, <2>1, <2>3
      <4>2. QED
        BY <3>1, <4>1, <2>1, <2>2, <2>3 DEF InLogOrder
    <3>2. CASE i \in 1 .. m /\ k \notin 1 .. m
      BY <3>2, <2>1, <2>2
    <3>3. CASE i \notin 1 .. m
      <4>1. k \notin 1 .. m /\ i - m < k - m
        BY <3>3, <2>1, <2>3
      <4>2. QED
        BY <3>3, <4>1, <2>1, <2>2 DEF InLogOrder
    <3>4. QED
      BY <3>1, <3>2, <3>3
  <2>4. IsInjective(all)
    BY <2>1, <2>3, OrderedIsInjective
  <2>5. QED
    BY <1>2, <2>4 DEF EachRecordOnce, all
<1>3. QED
  BY <1>1, <1>2

(* tail_and_parse emits no record twice, and none is missing that lies       *)
(* before the position, unless the log was started anew or a read fell       *)
(* between the halves of the record.                                         *)
THEOREM RecordsAreEmittedOnce == NcclSpec => []EachRecordOnce
  BY NcclInvIsOnce, NcclInvariance, PTL

-----------------------------------------------------------------------------
(***************************************************************************)
(* SacctWindow: the jobs of a chunk.                                       *)
(***************************************************************************)
(* The jobs end when they end, and their lines are whole at their last piece *)
(* only.                                                                     *)
SacctTypeOK ==
  /\ end \in [SacctJobs -> Nat] /\ late \in [SacctJobs -> Int]
  /\ \A j \in SacctJobs :
       /\ Len(pieces[j]) \in Nat \ {0} /\ pieces[j] \in [1 .. Len(pieces[j]) -> Nat \ {0}]
       /\ Last(pieces[j]) >= Delimiters
       /\ \A i \in 1 .. Len(pieces[j]) - 1 : /\ pieces[j][i] <= pieces[j][i + 1]
                                             /\ pieces[j][i] < Last(pieces[j])

(* The pipe is at the i-th piece of j's line, those before are joined.       *)
Piece(j, i) == [job |-> j, piece |-> i]
PieceSeq == Seq([job : SacctJobs, piece : Nat])
InPipe(j, i) ==
  /\ lines \in PieceSeq /\ Len(lines) = Len(pieces[j]) - i + 1
  /\ \A n \in 1 .. Len(lines) : lines[n] = Piece(j, i + n - 1)
AreJoined(j, n) ==
  /\ joined \in PieceSeq /\ Len(joined) = n
  /\ \A m \in 1 .. n : joined[m] = Piece(j, m)
AtPiece(j, i) == /\ InPipe(j, i) /\ AreJoined(j, i - 1)
                 /\ count = IF i = 1 THEN 0 ELSE pieces[j][i - 1]
BetweenLines == lines = <<>> /\ joined = <<>> /\ count = 0
InProgress(j) == lines # <<>> /\ lines[1].job = j

InLine ==
  \/ BetweenLines
  \/ \E j \in Selected(chunk) \ toList : /\ chunk \in Chunks
                                         /\ \E i \in 1 .. Len(pieces[j]) : AtPiece(j, i)
ListedOnce == /\ chunk \in Nat
              /\ toList \subseteq Selected(chunk)
              /\ toList # {} => chunk \in Chunks

(* What was printed of a job, it was in its chunk, and in its turn.          *)
IsPrinted(j) == Whole(j) \in Range(printed)
PrintedAreWhole ==
  /\ printed \in Seq({ Whole(j) : j \in SacctJobs }) /\ IsInjective(printed)
  /\ \A line \in Range(printed) : \E j \in SacctJobs : line = Whole(j) /\ end[j] <= LastSecond
PrintedInTurn ==
  \A j \in SacctJobs : IsPrinted(j) =>
    \E c \in Chunks : /\ InInterval(end[j], c) /\ c <= chunk
                      /\ c = chunk => j \notin toList /\ ~ InProgress(j)

(* A chunk that is over has the jobs sacct listed for it, but if it failed;  *)
(* the one under way has them still to come.                                 *)
NoneIsDropped ==
  \A j \in SacctJobs, c \in Chunks : WithinSlack(j) /\ InInterval(end[j], c) =>
    /\ c < chunk /\ (\A f \in failed : f.chunk # c) => IsPrinted(j)
    /\ c = chunk => j \in toList \/ InProgress(j) \/ IsPrinted(j)
OnlySacctFails == \A f \in failed : f.by = "sacct"

TameInv == /\ InLine /\ ListedOnce /\ PrintedAreWhole /\ PrintedInTurn
           /\ NoneIsDropped /\ OnlySacctFails
SacctInv == SacctTypeOK /\ (Tame => TameInv)

-----------------------------------------------------------------------------
(* Chunks. *)

LEMMA TimesStep ==
  ASSUME NEW c \in Nat, NEW d \in Nat, c < d
  PROVE  /\ c * Step \in Nat /\ d * Step \in Nat
         /\ c * Step + Step <= d * Step
<1> DEFINE e == d - c - 1
<1>1. e \in Nat /\ d = c + 1 + e /\ Step \in Nat
  BY SacctAssumption
<1> HIDE DEF e
<1>2. c * Step \in Nat /\ e * Step \in Nat /\ d * Step \in Nat
  BY <1>1
<1>3. (c + 1 + e) * Step = c * Step + Step + e * Step
  BY <1>1
<1>4. QED
  BY <1>1, <1>2, <1>3

LEMMA ChunksAreDisjoint ==
  ASSUME NEW t \in Nat, NEW c \in Chunks, NEW d \in Chunks, InInterval(t, c), InInterval(t, d)
  PROVE  c = d /\ t <= LastSecond
<1>1. ASSUME NEW a \in Chunks, NEW b \in Chunks, a < b, InInterval(t, a), InInterval(t, b) PROVE FALSE
  <2>1. a \in Nat /\ b \in Nat /\ b * Step < LastSecond
    BY <1>1, SacctAssumption DEF Chunks
  <2>2. a * Step \in Nat /\ b * Step \in Nat /\ a * Step + Step <= b * Step
    BY <1>1, <2>1, TimesStep
  <2>3. b * Step <= t /\ t <= Upper(a)
    BY <1>1 DEF InInterval, Lower
  <2>4. Upper(a) = a * Step + Step - 1
    BY <2>1, <2>2, SacctAssumption DEF Upper
  <2>5. QED
    BY <2>2, <2>3, <2>4, SacctAssumption
<1>2. c \in Nat /\ d \in Nat
  BY SacctAssumption DEF Chunks
<1>3. c = d
  BY <1>1, <1>2
<1>4. c * Step \in Nat /\ Step \in Nat /\ LastSecond \in Nat
  BY <1>2, SacctAssumption
<1>5. Upper(c) <= LastSecond /\ Upper(c) \in Int
  BY <1>4 DEF Upper
<1>6. QED
  BY <1>3, <1>4, <1>5 DEF InInterval

(* No chunk comes after a number that is none. *)
LEMMA AfterTheLast ==
  ASSUME NEW c \in Chunks, NEW d \in Nat, d \notin Chunks
  PROVE  c < d
<1> SUFFICES ASSUME d <= c PROVE FALSE
  BY SacctAssumption DEF Chunks
<1>1. c \in Nat /\ c <= LastSecond /\ LastSecond \in Nat /\ d # c
  BY SacctAssumption DEF Chunks
<1>2. d < c /\ c * Step < LastSecond
  BY <1>1 DEF Chunks
<1>3. d * Step < LastSecond /\ d \in 0 .. LastSecond
  BY <1>1, <1>2, TimesStep, SacctAssumption
<1>4. QED
  BY <1>3 DEF Chunks

(* Who ended in a chunk is listed for it, if sacct's idea of the end is at   *)
(* most the slack early.                                                     *)
LEMMA EndedIsSelected ==
  ASSUME SacctTypeOK, NEW j \in SacctJobs, NEW c \in Nat, WithinSlack(j), InInterval(end[j], c)
  PROVE  j \in Selected(c)
<1>1. c * Step \in Nat /\ Step \in Nat /\ LastSecond \in Nat /\ Slack \in Nat
  BY SacctAssumption
<1>2. end[j] \in Nat /\ late[j] \in Int /\ 0 <= late[j] /\ late[j] <= Slack
  BY DEF SacctTypeOK, WithinSlack
<1>3. Lower(c) \in Nat /\ Upper(c) \in Int
  BY <1>1 DEF Lower, Upper
<1>4. Lower(c) <= end[j] /\ end[j] <= Upper(c)
  BY DEF InInterval
<1>5. end[j] - late[j] >= Lower(c) - Slack /\ end[j] - late[j] <= Upper(c)
  BY <1>1, <1>2, <1>3, <1>4
<1>6. QED
  BY <1>5 DEF Selected, GetPatchedSacctCmd

-----------------------------------------------------------------------------
(* Lines. *)

(* A line more, which is not there yet. *)
LEMMA OneMore ==
  ASSUME NEW S, NEW s \in Seq(S), NEW line \in S, IsInjective(s), line \notin Range(s)
  PROVE  /\ Append(s, line) \in Seq(S) /\ IsInjective(Append(s, line))
         /\ Range(Append(s, line)) = Range(s) \cup {line}
<1> DEFINE t == Append(s, line)
           n == Len(s)
<1>1. /\ n \in Nat /\ DOMAIN s = 1 .. n /\ t \in Seq(S) /\ DOMAIN t = 1 .. n + 1
      /\ \A i \in 1 .. n : t[i] = s[i]
      /\ t[n + 1] = line
  OBVIOUS
<1> HIDE DEF t, n
<1>2. \A i \in 1 .. n + 1 : i \in 1 .. n \/ i = n + 1
  BY <1>1
<1>3. \A i \in 1 .. n : i \in 1 .. n + 1 /\ i # n + 1 /\ t[i] # line
  BY <1>1 DEF Range
<1>4. n + 1 \in 1 .. n + 1
  BY <1>1
<1>5. IsInjective(t)
  BY <1>1, <1>2, <1>3 DEF IsInjective
<1>6. Range(t) = Range(s) \cup {line}
  BY <1>1, <1>2, <1>3, <1>4, Zenon DEF Range
<1>7. QED
  BY <1>1, <1>5, <1>6 DEF t

LEMMA WholeIsOfOne ==
  ASSUME SacctTypeOK, NEW j \in SacctJobs, NEW k \in SacctJobs, Whole(j) = Whole(k)
  PROVE  j = k
<1>1. 1 \in DOMAIN pieces[j] /\ 1 \in DOMAIN pieces[k]
  BY DEF SacctTypeOK
<1>2. Whole(j)[1].job = j /\ Whole(k)[1].job = k
  BY <1>1 DEF Whole
<1>3. QED
  BY <1>2

-----------------------------------------------------------------------------
LEMMA SacctTypeInit == SacctInit => SacctTypeOK
<1> SUFFICES ASSUME SacctInit PROVE SacctTypeOK
  OBVIOUS
<1>1. end \in [SacctJobs -> Nat] /\ late \in [SacctJobs -> Int]
  BY SacctAssumption DEF SacctInit
<1>2. ASSUME NEW j \in SacctJobs
      PROVE  /\ Len(pieces[j]) \in Nat \ {0} /\ pieces[j] \in [1 .. Len(pieces[j]) -> Nat \ {0}]
             /\ Last(pieces[j]) >= Delimiters
             /\ \A i \in 1 .. Len(pieces[j]) - 1 : /\ pieces[j][i] <= pieces[j][i + 1]
                                                   /\ pieces[j][i] < Last(pieces[j])
  <2>1. pieces[j] \in Lines(j)
    BY DEF SacctInit
  <2>2. PICK k \in Nat \ {0}, n \in {Delimiters, Delimiters + 1} : pieces[j] \in Torn(k, n)
    <3>1. \A k \in 1 .. MaxPieces : k \in Nat \ {0}
      BY SacctAssumption
    <3>2. CASE \E k \in 1 .. MaxPieces : pieces[j] \in Torn(k, Delimiters)
      BY <3>1, <3>2
    <3>3. CASE pieces[j] \in Torn(1, Delimiters + 1) \/ pieces[j] \in Torn(2, Delimiters + 1)
      BY <3>3
    <3>4. \/ pieces[j] \in UNION { Torn(k, Delimiters) : k \in 1 .. MaxPieces }
          \/ pieces[j] \in Torn(1, Delimiters + 1) \cup Torn(2, Delimiters + 1)
      <4>1. CASE j \in Unruly
        BY <2>1, <4>1 DEF Lines
      <4>2. CASE j \notin Unruly
        BY <2>1, <4>2 DEF Lines
      <4>3. QED
        BY <4>1, <4>2
    <3>5. QED
      BY <3>2, <3>3, <3>4
  <2>3. /\ pieces[j] \in [1 .. k -> 1 .. n] /\ pieces[j][k] = n
        /\ \A i \in 1 .. k - 1 : pieces[j][i] <= pieces[j][i + 1] /\ pieces[j][i] < n
    BY <2>2 DEF Torn
  <2>4. Len(pieces[j]) = k
    BY <2>3
  <2>5. Last(pieces[j]) = n /\ n \in Nat /\ n >= Delimiters
    BY <2>3, <2>4, SacctAssumption DEF Last
  <2>6. \A m \in 1 .. n : m \in Nat \ {0}
    BY <2>5
  <2>7. pieces[j] \in [1 .. Len(pieces[j]) -> Nat \ {0}]
    BY <2>3, <2>4, <2>6
  <2>8. \A i \in 1 .. Len(pieces[j]) - 1 : /\ pieces[j][i] <= pieces[j][i + 1]
                                            /\ pieces[j][i] < Last(pieces[j])
    BY <2>3, <2>4, <2>5, Zenon
  <2>9. QED
    BY <2>4, <2>5, <2>7, <2>8
<1>3. QED
  BY <1>1, <1>2 DEF SacctTypeOK

LEMMA SacctInvInit == SacctInit => SacctInv
<1> SUFFICES ASSUME SacctInit PROVE SacctInv
  OBVIOUS
<1>1. SacctTypeOK
  BY SacctTypeInit
<1>2. 0 \in Chunks
  BY SacctAssumption DEF Chunks
<1>3. InLine /\ ListedOnce
  BY <1>2 DEF SacctInit, InLine, BetweenLines, ListedOnce
<1>4. Range(printed) = {} /\ printed \in Seq({ Whole(j) : j \in SacctJobs }) /\ IsInjective(printed)
  BY DEF SacctInit, Range, IsInjective
<1>5. PrintedAreWhole /\ PrintedInTurn
  BY <1>4 DEF PrintedAreWhole, PrintedInTurn, IsPrinted
<1>6. NoneIsDropped
  <2> SUFFICES ASSUME NEW j \in SacctJobs, NEW c \in Chunks, WithinSlack(j), InInterval(end[j], c)
               PROVE  ~ (c < chunk) /\ (c = chunk => j \in toList)
    BY DEF NoneIsDropped
  <2>1. c \in Nat /\ chunk = 0
    BY DEF Chunks, SacctInit
  <2>2. QED
    BY <2>1, <1>1, EndedIsSelected DEF SacctInit
<1>7. QED
  BY <1>1, <1>3, <1>5, <1>6 DEF SacctInv, TameInv, OnlySacctFails, SacctInit

-----------------------------------------------------------------------------
(* Steps. *)

LEMMA AtALine ==
  ASSUME SacctTypeOK, NEW j \in SacctJobs, NEW i \in 1 .. Len(pieces[j]), AtPiece(j, i)
  PROVE  /\ lines # <<>> /\ Head(lines) = Piece(j, i) /\ lines[1] = Piece(j, i)
         /\ Len(lines) = Len(pieces[j]) - i + 1
         /\ \A n \in 1 .. Len(lines) : lines[n] = Piece(j, i + n - 1)
         /\ lines \in PieceSeq
         /\ Len(joined) = i - 1 /\ \A n \in 1 .. i - 1 : joined[n] = Piece(j, n)
         /\ joined \in PieceSeq
         /\ count \in Nat /\ count + DelimitersIn(lines[1]) = pieces[j][i]
         /\ DelimitersIn(lines[1]) <= pieces[j][i]
         /\ i > 1 => DelimitersIn(lines[1]) < pieces[j][i]
         /\ DelimitersIn(lines[1]) \in Int
<1> DEFINE k == Len(pieces[j])
<1>1. k \in Nat \ {0} /\ i \in Nat \ {0} /\ i <= k
  BY DEF SacctTypeOK
<1>2. /\ pieces[j][i] \in Nat \ {0}
      /\ i > 1 => pieces[j][i - 1] \in Nat \ {0}
      /\ i > 1 => pieces[j][i - 1] <= pieces[j][i]
  <2>1. pieces[j] \in [1 .. k -> Nat \ {0}]
    BY DEF SacctTypeOK
  <2>2. ASSUME i > 1 PROVE i - 1 \in 1 .. k - 1 /\ i - 1 \in 1 .. k /\ i - 1 + 1 = i
    BY <1>1, <2>2
  <2>3. \A n \in 1 .. k - 1 : pieces[j][n] <= pieces[j][n + 1]
    BY DEF SacctTypeOK
  <2>4. i \in 1 .. k
    BY <1>1
  <2> HIDE DEF k
  <2>5. i > 1 => pieces[j][i - 1] <= pieces[j][i]
    BY <2>2, <2>3
  <2>6. pieces[j][i] \in Nat \ {0} /\ (i > 1 => pieces[j][i - 1] \in Nat \ {0})
    BY <2>1, <2>2, <2>4
  <2>7. QED
    BY <2>5, <2>6
<1> HIDE DEF k
<1>3. /\ lines \in PieceSeq /\ Len(lines) = k - i + 1
      /\ \A n \in 1 .. Len(lines) : lines[n] = Piece(j, i + n - 1)
      /\ joined \in PieceSeq /\ Len(joined) = i - 1
      /\ \A n \in 1 .. i - 1 : joined[n] = Piece(j, n)
  BY DEF AtPiece, InPipe, AreJoined, k
<1>4. 1 \in 1 .. Len(lines) /\ i + 1 - 1 = i
  BY <1>1, <1>3
<1>5. lines # <<>> /\ lines[1] = Piece(j, i) /\ Head(lines) = Piece(j, i)
  BY <1>3, <1>4 DEF PieceSeq
<1>6. DelimitersIn(lines[1]) = IF i = 1 THEN pieces[j][1] ELSE pieces[j][i] - pieces[j][i - 1]
  BY <1>5 DEF DelimitersIn, Piece
<1>7. count = IF i = 1 THEN 0 ELSE pieces[j][i - 1]
  BY DEF AtPiece
<1>8. /\ count \in Nat /\ count + DelimitersIn(lines[1]) = pieces[j][i]
      /\ DelimitersIn(lines[1]) <= pieces[j][i]
      /\ i > 1 => DelimitersIn(lines[1]) < pieces[j][i]
      /\ DelimitersIn(lines[1]) \in Int
  <2>1. CASE i = 1
    BY <2>1, <1>2, <1>6, <1>7
  <2>2. CASE i > 1
    BY <2>2, <1>2, <1>6, <1>7
  <2>3. QED
    BY <2>1, <2>2, <1>1
<1>9. QED
  BY <1>3, <1>5, <1>8 DEF k

(* Nothing writes to the jobs. *)
LEMMA JobsAreGiven == [SacctNext]_sacctVars => UNCHANGED <<end, late, pieces>>
  BY DEF SacctNext, sacctVars, List, GetSacctLines, Finish, SacctFails, Fails, NextCall, Done

LEMMA SacctTypeNext == SacctTypeOK /\ [SacctNext]_sacctVars => SacctTypeOK'
  BY JobsAreGiven DEF SacctTypeOK

(* What the jobs alone say is the same after a step. *)
LEMMA GivenStays ==
  ASSUME UNCHANGED <<end, late, pieces>>
  PROVE  /\ \A c : Selected(c)' = Selected(c)
         /\ \A j : Whole(j)' = Whole(j)
         /\ Tame' = Tame
  BY DEF Selected, GetPatchedSacctCmd, Whole, Tame

LEMMA ListStep ==
  ASSUME SacctTypeOK, TameInv, NEW j \in SacctJobs, List(j)
  PROVE  TameInv'
<1>1. /\ UNCHANGED <<end, late, pieces, chunk, joined, count, printed, failed>>
      /\ j \in toList /\ toList' = toList \ {j} /\ lines = <<>>
      /\ lines' = [i \in DOMAIN pieces[j] |-> [job |-> j, piece |-> i]]
  BY DEF List, Whole
<1>2. /\ UNCHANGED <<end, late, pieces>>
      /\ Selected(chunk)' = Selected(chunk) /\ \A k : Whole(k)' = Whole(k)
  BY <1>1, GivenStays
<1>3. BetweenLines
  BY <1>1, AtALine DEF TameInv, InLine, Selected
<1>4. chunk \in Chunks /\ j \in Selected(chunk)
  BY <1>1 DEF TameInv, ListedOnce
<1>5. /\ Len(pieces[j]) \in Nat \ {0} /\ DOMAIN pieces[j] = 1 .. Len(pieces[j])
  BY DEF SacctTypeOK
<1>6. AtPiece(j, 1)'
  <2> DEFINE k == Len(pieces[j])
  <2>1. \A n \in 1 .. k : [job |-> j, piece |-> n] \in [job : SacctJobs, piece : Nat]
    BY <1>5
  <2>2. /\ lines' \in PieceSeq /\ Len(lines') = k /\ \A n \in 1 .. k : lines'[n] = Piece(j, n)
    <3> HIDE DEF k
    <3>1. k \in Nat /\ lines' = [n \in 1 .. k |-> [job |-> j, piece |-> n]]
      BY <1>1, <1>5 DEF k
    <3>2. lines' \in [1 .. k -> [job : SacctJobs, piece : Nat]]
      BY <2>1, <3>1
    <3>3. lines' \in PieceSeq /\ Len(lines') = k
      BY <3>1, <3>2 DEF PieceSeq
    <3>4. QED
      BY <3>1, <3>3 DEF Piece
  <2>3. /\ k \in Nat \ {0} /\ k - 1 + 1 = k /\ \A n \in 1 .. k : 1 + n - 1 = n
        /\ 1 .. 1 - 1 = {} /\ k' = k
    BY <1>1, <1>5
  <2>4. joined' \in PieceSeq /\ Len(joined') = 1 - 1 /\ count' = 0
    BY <1>1, <1>3 DEF BetweenLines, PieceSeq
  <2> HIDE DEF k
  <2>5. Len(lines') = k' - 1 + 1 /\ \A n \in 1 .. Len(lines') : lines'[n] = Piece(j, 1 + n - 1)
    BY <2>2, <2>3
  <2>6. QED
    <3>1. InPipe(j, 1)'
      BY <2>2, <2>5 DEF InPipe, k
    <3>2. AreJoined(j, 1 - 1)'
      BY <2>3, <2>4 DEF AreJoined
    <3>3. QED
      BY <2>4, <3>1, <3>2 DEF AtPiece
<1>7. lines' # <<>> /\ lines'[1].job = j
  BY <1>1, <1>5
<1>8. InLine'
  BY <1>1, <1>2, <1>4, <1>5, <1>6 DEF InLine
<1>9. ListedOnce'
  BY <1>1, <1>2 DEF TameInv, ListedOnce, Chunks
<1>10. PrintedAreWhole'
  BY <1>1, <1>2 DEF TameInv, PrintedAreWhole
<1>11. \A k : IsPrinted(k)' = IsPrinted(k)
  BY <1>1, <1>2 DEF IsPrinted
<1>12. PrintedInTurn'
  BY <1>1, <1>7, <1>11 DEF TameInv, PrintedInTurn, InInterval, InProgress
<1>13. NoneIsDropped'
  BY <1>1, <1>7, <1>11 DEF TameInv, NoneIsDropped, InInterval, InProgress, WithinSlack
<1>14. QED
  BY <1>1, <1>8, <1>9, <1>10, <1>12, <1>13 DEF TameInv, OnlySacctFails

LEMMA JoinStep ==
  ASSUME SacctTypeOK, TameInv, NEW j \in Selected(chunk) \ toList, chunk \in Chunks,
         NEW i \in 1 .. Len(pieces[j]), AtPiece(j, i), i < Len(pieces[j]),
         Join(lines[1], DelimitersIn(lines[1])), UNCHANGED <<end, late, pieces>>
  PROVE  TameInv'
<1> DEFINE k == Len(pieces[j])
           S == [job : SacctJobs, piece : Nat]
<1>1. j \in SacctJobs
  BY DEF Selected
<1>2. /\ k \in Nat \ {0} /\ i \in Nat \ {0} /\ i < k
  BY <1>1 DEF SacctTypeOK
<1> HIDE DEF k
<1>3. /\ lines # <<>> /\ lines[1] = Piece(j, i) /\ Len(lines) = k - i + 1
      /\ \A n \in 1 .. Len(lines) : lines[n] = Piece(j, i + n - 1)
      /\ lines \in PieceSeq /\ joined \in PieceSeq
      /\ Len(joined) = i - 1 /\ \A n \in 1 .. i - 1 : joined[n] = Piece(j, n)
      /\ count + DelimitersIn(lines[1]) = pieces[j][i]
  BY <1>1, AtALine DEF k
<1>4. /\ UNCHANGED <<end, late, pieces, chunk, toList, printed, failed>>
      /\ joined' = Append(joined, lines[1]) /\ count' = pieces[j][i] /\ lines' = Tail(lines)
  BY <1>3 DEF Join
<1>5. /\ lines' \in PieceSeq /\ Len(lines') = k - (i + 1) + 1
      /\ \A n \in 1 .. Len(lines') : lines'[n] = Piece(j, i + 1 + n - 1)
  <2>1. /\ Len(lines') = k - (i + 1) + 1 /\ lines' \in PieceSeq
        /\ \A n \in 1 .. Len(lines') : lines'[n] = lines[n + 1] /\ n + 1 \in 1 .. Len(lines)
    <3>1. /\ lines' \in PieceSeq /\ Len(lines') = Len(lines) - 1
          /\ \A n \in 1 .. Len(lines) - 1 : lines'[n] = lines[n + 1]
      BY <1>3, <1>4, HeadTailProperties DEF PieceSeq
    <3>2. Len(lines) - 1 = k - (i + 1) + 1 /\ Len(lines) \in Nat
      BY <1>2, <1>3
    <3>3. \A n \in 1 .. Len(lines) - 1 : n + 1 \in 1 .. Len(lines)
      BY <3>2
    <3>4. QED
      BY <3>1, <3>2, <3>3
  <2>2. \A n \in Nat : i + (n + 1) - 1 = i + 1 + n - 1
    BY <1>2
  <2>3. \A n \in 1 .. Len(lines') : n \in Nat
    OBVIOUS
  <2>4. QED
    BY <1>3, <2>1, <2>2, <2>3
<1>6. /\ joined' \in PieceSeq /\ Len(joined') = i
      /\ \A n \in 1 .. i : joined'[n] = Piece(j, n)
  <2>1. lines[1] \in S
    BY <1>1, <1>2, <1>3 DEF Piece
  <2>2. /\ joined' \in PieceSeq /\ Len(joined') = i /\ joined'[i] = Piece(j, i)
        /\ \A n \in 1 .. i - 1 : joined'[n] = joined[n]
    <3>1. i - 1 + 1 = i
      BY <1>2
    <3>2. QED
      BY <1>3, <1>4, <2>1, <3>1, AppendProperties DEF PieceSeq
  <2>3. \A n \in 1 .. i : n \in 1 .. i - 1 \/ n = i
    BY <1>2
  <2>4. QED
    BY <1>3, <2>2, <2>3
<1>7. AtPiece(j, i + 1)' /\ i + 1 \in 1 .. k /\ k' = k
  <2>1. i + 1 \in 1 .. k /\ k' = k /\ i + 1 # 1 /\ i + 1 - 1 = i
    BY <1>2, <1>4 DEF k
  <2>2. count' = IF i + 1 = 1 THEN 0 ELSE pieces'[j][i + 1 - 1]
    BY <1>4, <2>1
  <2>3. InPipe(j, i + 1)'
    BY <1>4, <1>5 DEF InPipe, k
  <2>4. AreJoined(j, i)'
    BY <1>6 DEF AreJoined
  <2>5. AtPiece(j, i + 1)'
    BY <2>1, <2>2, <2>3, <2>4 DEF AtPiece
  <2>6. QED
    BY <2>1, <2>5
<1>8. /\ \A c : Selected(c)' = Selected(c)
      /\ \A m : Whole(m)' = Whole(m)
  BY GivenStays
<1>9. InLine'
  BY <1>4, <1>7, <1>8 DEF InLine, k
<1>10. lines' # <<>> /\ lines'[1].job = j /\ lines[1].job = j
  <2>1. 1 \in 1 .. Len(lines') /\ lines' # <<>>
    BY <1>2, <1>5 DEF PieceSeq
  <2>2. lines'[1] = Piece(j, i + 1 + 1 - 1) /\ lines[1] = Piece(j, i)
    BY <1>3, <1>5, <2>1
  <2>3. \A m : Piece(j, m).job = j
    BY DEF Piece
  <2>4. QED
    BY <2>1, <2>2, <2>3
<1>11. \A m : /\ InProgress(m)' = InProgress(m)
              /\ IsPrinted(m)' = IsPrinted(m)
  BY <1>3, <1>4, <1>8, <1>10 DEF InProgress, IsPrinted
<1>12. ListedOnce' /\ PrintedAreWhole' /\ OnlySacctFails'
  BY <1>4, <1>8 DEF TameInv, ListedOnce, PrintedAreWhole, OnlySacctFails, Chunks
<1>13. PrintedInTurn' /\ NoneIsDropped'
  BY <1>4, <1>11 DEF TameInv, PrintedInTurn, NoneIsDropped, InInterval, WithinSlack
<1>14. QED
  BY <1>9, <1>12, <1>13 DEF TameInv


LEMMA PrintStep ==
  ASSUME SacctTypeOK, TameInv, NEW j \in Selected(chunk) \ toList, chunk \in Chunks,
         InProgress(j), UNCHANGED <<end, late, pieces, chunk, toList, failed>>,
         lines' = <<>>, joined' = <<>>, count' = 0,
         printed' = IF InInterval(end[j], chunk) THEN Append(printed, Whole(j)) ELSE printed
  PROVE  TameInv'
<1> DEFINE W == { Whole(m) : m \in SacctJobs }
<1>1. j \in SacctJobs /\ chunk \in Nat /\ \A m \in SacctJobs : end[m] \in Nat
  BY DEF Selected, Chunks, SacctTypeOK
<1>2. /\ \A c : Selected(c)' = Selected(c)
      /\ \A m : Whole(m)' = Whole(m)
  BY GivenStays
<1>3. printed \in Seq(W) /\ IsInjective(printed)
  BY DEF TameInv, PrintedAreWhole
<1>4. InLine' /\ ListedOnce' /\ OnlySacctFails'
  BY <1>2 DEF TameInv, InLine, BetweenLines, ListedOnce, OnlySacctFails, Chunks
<1>5. InInterval(end[j], chunk) => ~ IsPrinted(j)
  <2> SUFFICES ASSUME InInterval(end[j], chunk), IsPrinted(j) PROVE FALSE
    OBVIOUS
  <2>1. PICK c \in Chunks : InInterval(end[j], c) /\ (c = chunk => ~ InProgress(j))
    BY <1>1 DEF TameInv, PrintedInTurn
  <2>2. c = chunk
    BY <1>1, <2>1, ChunksAreDisjoint
  <2>3. QED
    BY <2>1, <2>2
<1>6. /\ printed' \in Seq(W) /\ IsInjective(printed')
      /\ Range(printed') = Range(printed) \cup IF InInterval(end[j], chunk) THEN {Whole(j)} ELSE {}
  <2>1. CASE InInterval(end[j], chunk)
    <3>1. Whole(j) \in W /\ Whole(j) \notin Range(printed) /\ printed' = Append(printed, Whole(j))
      BY <1>1, <1>5, <2>1 DEF IsPrinted
    <3> HIDE DEF W
    <3>2. QED
      BY <1>3, <2>1, <3>1, OneMore
  <2>2. CASE ~ InInterval(end[j], chunk)
    BY <1>3, <2>2
  <2>3. QED
    BY <2>1, <2>2
<1>7. InInterval(end[j], chunk) => end[j] <= LastSecond
  BY <1>1, ChunksAreDisjoint
<1>8. PrintedAreWhole'
  <2>1. \A line \in Range(printed') : \E m \in SacctJobs : line = Whole(m) /\ end[m] <= LastSecond
    BY <1>1, <1>6, <1>7 DEF TameInv, PrintedAreWhole
  <2>2. { Whole(m)' : m \in SacctJobs } = W
    BY <1>2
  <2>3. printed' \in Seq({ Whole(m)' : m \in SacctJobs })
    BY <1>6, <2>2
  <2> HIDE DEF W
  <2>4. QED
    BY <1>2, <1>6, <2>1, <2>3 DEF PrintedAreWhole
<1>9. \A m \in SacctJobs : IsPrinted(m)' = (IsPrinted(m) \/ (m = j /\ InInterval(end[j], chunk)))
  BY <1>1, <1>2, <1>6, WholeIsOfOne DEF IsPrinted
<1>10. \A m : ~ InProgress(m)' /\ (InProgress(m) => m = j)
  BY DEF InProgress
<1>11. PrintedInTurn'
  <2> SUFFICES ASSUME NEW m \in SacctJobs, IsPrinted(m)'
               PROVE  \E c \in Chunks : /\ InInterval(end[m], c) /\ c <= chunk
                                        /\ c = chunk => m \notin toList
    BY <1>10 DEF PrintedInTurn, InInterval
  <2>1. CASE IsPrinted(m)
    BY <2>1 DEF TameInv, PrintedInTurn
  <2>2. CASE m = j /\ InInterval(end[j], chunk)
    BY <2>2, <1>1
  <2>3. QED
    BY <1>9, <2>1, <2>2
<1>12. NoneIsDropped'
  <2> SUFFICES ASSUME NEW m \in SacctJobs, NEW c \in Chunks, WithinSlack(m), InInterval(end[m], c)
               PROVE  /\ c < chunk /\ (\A f \in failed : f.chunk # c) => IsPrinted(m)'
                      /\ c = chunk => m \in toList \/ IsPrinted(m)'
    BY DEF NoneIsDropped, InInterval, WithinSlack
  <2>1. /\ c < chunk /\ (\A f \in failed : f.chunk # c) => IsPrinted(m)
        /\ c = chunk => m \in toList \/ InProgress(m) \/ IsPrinted(m)
    BY DEF TameInv, NoneIsDropped
  <2>2. QED
    BY <2>1, <1>9, <1>10
<1>13. QED
  BY <1>4, <1>8, <1>11, <1>12 DEF TameInv

(* A line that is whole goes through the filter: there is nothing to raise. *)
LEMMA FilterStep ==
  ASSUME SacctTypeOK, Tame, TameInv, NEW j \in Selected(chunk) \ toList, chunk \in Chunks,
         AtPiece(j, Len(pieces[j])), UNCHANGED <<end, late, pieces>>,
         Filter(Append(joined, lines[1]), <<>>, 0)
  PROVE  TameInv'
<1> DEFINE k == Len(pieces[j])
           S == [job : SacctJobs, piece : Nat]
           line == Append(joined, lines[1])
<1>1. j \in SacctJobs
  BY DEF Selected
<1>2. k \in Nat \ {0} /\ k \in 1 .. k /\ DOMAIN pieces[j] = 1 .. k
  BY <1>1 DEF SacctTypeOK
<1>3. /\ lines # <<>> /\ lines[1] = Piece(j, k) /\ Len(lines) = 1
      /\ lines \in PieceSeq /\ joined \in PieceSeq
      /\ Len(joined) = k - 1 /\ \A n \in 1 .. k - 1 : joined[n] = Piece(j, n)
  <2>1. k - k + 1 = 1
    BY <1>2
  <2>2. Len(lines) = k - k + 1 /\ lines # <<>> /\ lines[1] = Piece(j, k) /\ lines \in PieceSeq
    BY <1>1, <1>2, AtALine
  <2>3. joined \in PieceSeq /\ Len(joined) = k - 1 /\ \A n \in 1 .. k - 1 : joined[n] = Piece(j, n)
    BY <1>1, <1>2, AtALine
  <2>4. QED
    BY <2>1, <2>2, <2>3
<1>4. Piece(j, k) \in S
  BY <1>1, <1>2 DEF Piece
<1> HIDE DEF k, S
<1>5. line \in PieceSeq /\ Len(line) = k /\ line[k] = Piece(j, k) /\ \A n \in 1 .. k - 1 : line[n] = joined[n]
  BY <1>2, <1>3, <1>4 DEF PieceSeq, S
<1>6. line = Whole(j)
  <2>1. DOMAIN line = 1 .. k /\ line = [n \in DOMAIN line |-> line[n]]
    BY <1>5 DEF PieceSeq
  <2>2. \A n \in 1 .. k : n \in 1 .. k - 1 \/ n = k
    BY <1>2
  <2>3. \A n \in 1 .. k : line[n] = [job |-> j, piece |-> n]
    BY <1>3, <1>5, <2>2 DEF Piece
  <2> HIDE DEF line
  <2>4. QED
    BY <1>2, <2>1, <2>3 DEF Whole
<1>7. Last(line) = [job |-> j, piece |-> k]
  BY <1>5 DEF Last, Piece, PieceSeq
<1> HIDE DEF line
<1>8. Filter(line, <<>>, 0)
  BY DEF line
<1>9. /\ Last(line).job = j /\ Last(line).piece = Len(pieces[j])
      /\ ~ (line # Whole(j) \/ Last(pieces[j]) > Delimiters)
  BY <1>1, <1>2, <1>6, <1>7, SacctAssumption DEF k, Tame
<1>10. /\ printed' = IF InInterval(end[j], chunk) THEN Append(printed, line) ELSE printed
       /\ joined' = <<>> /\ count' = 0 /\ lines' = Tail(lines)
       /\ UNCHANGED <<chunk, toList, failed>>
  BY <1>8, <1>9 DEF Filter
<1>11. lines' = <<>>
  <2>1. lines \in Seq(S) /\ lines # <<>> /\ Len(lines) = 1
    BY <1>3 DEF PieceSeq, S
  <2>2. Tail(lines) \in Seq(S) /\ Len(Tail(lines)) = 0
    BY <2>1
  <2>3. Tail(lines) = <<>>
    <3>1. \A s \in Seq(S) : s # <<>> => Len(s) \in Nat \ {0}
      BY EmptySeq
    <3>2. QED
      BY <2>2, <3>1
  <2>4. QED
    BY <1>10, <2>3
<1>12. InProgress(j)
  BY <1>3 DEF InProgress, Piece
<1>13. QED
  BY <1>6, <1>10, <1>11, <1>12, PrintStep

LEMMA GetSacctLinesStep ==
  ASSUME SacctTypeOK, Tame, TameInv, GetSacctLines
  PROVE  TameInv'
<1>1. lines # <<>> /\ UNCHANGED <<end, late, pieces>>
  BY DEF GetSacctLines
<1>2. PICK j \in Selected(chunk) \ toList : chunk \in Chunks /\ \E i \in 1 .. Len(pieces[j]) : AtPiece(j, i)
  BY <1>1 DEF TameInv, InLine, BetweenLines
<1>3. PICK i \in 1 .. Len(pieces[j]) : AtPiece(j, i)
  BY <1>2
<1> DEFINE k == Len(pieces[j])
           line == lines[1]
           delimiters == DelimitersIn(line)
<1>4. /\ j \in SacctJobs /\ k \in Nat \ {0} /\ i \in Nat \ {0} /\ i <= k
      /\ pieces[j] \in [1 .. k -> Nat \ {0}] /\ Last(pieces[j]) >= Delimiters
      /\ i < k => pieces[j][i] < Last(pieces[j])
      /\ Last(pieces[j]) = pieces[j][k] /\ pieces[j][i] \in Nat /\ Delimiters \in Nat
      /\ pieces[j][k] = Delimiters
  <2>1. j \in SacctJobs
    BY DEF Selected
  <2>2. /\ k \in Nat \ {0} /\ pieces[j] \in [1 .. k -> Nat \ {0}] /\ Last(pieces[j]) >= Delimiters
        /\ \A n \in 1 .. k - 1 : pieces[j][n] < Last(pieces[j])
    BY <2>1 DEF SacctTypeOK
  <2>3. i \in Nat \ {0} /\ i <= k /\ (i < k => i \in 1 .. k - 1)
    BY <2>2
  <2>4. Last(pieces[j]) = pieces[j][k]
    BY DEF Last
  <2>5. pieces[j][k] = Delimiters
    BY <2>1, <2>4 DEF Tame
  <2> HIDE DEF k
  <2>6. i \in 1 .. k /\ pieces[j][i] \in Nat
    BY <2>2, <2>3
  <2>7. QED
    BY <2>1, <2>2, <2>3, <2>4, <2>5, <2>6, SacctAssumption
<1>5. /\ Head(lines) = line
      /\ count \in Nat /\ count + delimiters = pieces[j][i]
      /\ delimiters <= pieces[j][i] /\ delimiters \in Int
      /\ i > 1 => delimiters < pieces[j][i]
  BY <1>3, <1>4, AtALine
<1>6. \/ delimiters >= Delimiters /\ Filter(<<line>>, joined, count)
      \/ /\ delimiters < Delimiters
         /\ \/ count + delimiters = Delimiters /\ Filter(Append(joined, line), <<>>, 0)
            \/ count + delimiters < Delimiters /\ Join(line, delimiters)
            \/ count + delimiters > Delimiters /\ Raise
  BY <1>5 DEF GetSacctLines
<1>7. /\ joined \in PieceSeq /\ Len(joined) = i - 1
      /\ count = IF i = 1 THEN 0 ELSE pieces[j][i - 1]
  BY <1>3 DEF AtPiece, AreJoined
<1> HIDE DEF line, delimiters
<1>8. CASE i < k
  <2>1. pieces[j][i] < Delimiters
    BY <1>4, <1>8
  <2>2. ~ (delimiters >= Delimiters) /\ count + delimiters < Delimiters
    BY <1>4, <1>5, <2>1
  <2>3. Join(line, delimiters)
    BY <1>4, <1>5, <1>6, <2>2
  <2>4. QED
    BY <1>1, <1>2, <1>3, <1>8, <2>3, JoinStep DEF k, line, delimiters
<1>9. CASE i = k
  <2>1. Filter(Append(joined, line), <<>>, 0)
    <3>1. CASE i = 1
      <4>1. joined = <<>> /\ count = 0
        BY <1>7, <3>1 DEF PieceSeq
      <4>2. delimiters = pieces[j][i] /\ delimiters >= Delimiters
        BY <1>4, <1>5, <1>9, <4>1
      <4>3. Append(joined, line) = <<line>>
        BY <4>1
      <4>4. QED
        BY <1>4, <1>5, <1>6, <4>1, <4>2, <4>3
    <3>2. CASE i > 1
      <4>1. pieces[j][i] = Delimiters
        BY <1>4, <1>9, <3>2
      <4>2. delimiters < Delimiters /\ count + delimiters = Delimiters
        BY <1>5, <3>2, <4>1
      <4>3. QED
        BY <1>4, <1>5, <1>6, <4>2
    <3>3. QED
      BY <1>4, <3>1, <3>2
  <2>2. QED
    BY <1>1, <1>2, <1>3, <1>9, <2>1, FilterStep DEF k, line
<1>10. QED
  BY <1>4, <1>8, <1>9


(* The next call: of the one before, no line is under way, or it failed. *)
LEMMA NextCallStep ==
  ASSUME SacctTypeOK, TameInv, chunk \in Chunks, NextCall,
         failed \subseteq failed', \A f \in failed' : f.by = "sacct",
         (toList = {} /\ lines = <<>>) \/ \E f \in failed' : f.chunk = chunk
  PROVE  TameInv'
<1>1. /\ joined' = <<>> /\ count' = 0 /\ lines' = <<>> /\ chunk' = chunk + 1
      /\ toList' = IF chunk + 1 \in Chunks THEN Selected(chunk + 1) ELSE {}
      /\ UNCHANGED <<end, late, pieces, printed>>
  BY DEF NextCall
<1>2. /\ \A c : Selected(c)' = Selected(c)
      /\ \A m : Whole(m)' = Whole(m)
  BY <1>1, GivenStays
<1>3. chunk \in Nat /\ chunk + 1 \in Nat
  BY SacctAssumption DEF Chunks
<1>4. \A c \in Chunks : c \in Nat
  BY DEF Chunks
<1>5. Selected(chunk)' = Selected(chunk + 1)
  BY <1>1 DEF Selected, GetPatchedSacctCmd, Lower, Upper
<1>6. InLine' /\ ListedOnce'
  BY <1>1, <1>3, <1>5 DEF InLine, BetweenLines, ListedOnce, Chunks
<1>7. PrintedAreWhole' /\ OnlySacctFails'
  BY <1>1, <1>2 DEF TameInv, PrintedAreWhole, OnlySacctFails
<1>8. \A m : IsPrinted(m)' = IsPrinted(m) /\ ~ InProgress(m)'
  BY <1>1, <1>2 DEF IsPrinted, InProgress
<1>9. PrintedInTurn'
  <2> SUFFICES ASSUME NEW m \in SacctJobs, IsPrinted(m)
               PROVE  \E c \in Chunks : InInterval(end[m], c) /\ c <= chunk + 1 /\ c # chunk + 1
    BY <1>1, <1>8 DEF PrintedInTurn, InInterval
  <2>1. PICK c \in Chunks : InInterval(end[m], c) /\ c <= chunk
    BY DEF TameInv, PrintedInTurn
  <2>2. QED
    BY <1>3, <1>4, <2>1
<1>10. NoneIsDropped'
  <2> SUFFICES ASSUME NEW m \in SacctJobs, NEW c \in Chunks, WithinSlack(m), InInterval(end[m], c)
               PROVE  /\ c < chunk + 1 /\ (\A f \in failed' : f.chunk # c) => IsPrinted(m)
                      /\ c = chunk + 1 => m \in toList'
    BY <1>1, <1>8 DEF NoneIsDropped, InInterval, WithinSlack
  <2>1. /\ c < chunk /\ (\A f \in failed : f.chunk # c) => IsPrinted(m)
        /\ c = chunk => m \in toList \/ InProgress(m) \/ IsPrinted(m)
    BY DEF TameInv, NoneIsDropped
  <2>2. ASSUME c < chunk + 1, \A f \in failed' : f.chunk # c PROVE IsPrinted(m)
    <3>1. c < chunk \/ c = chunk
      BY <1>3, <1>4, <2>2
    <3>2. QED
      BY <2>1, <2>2, <3>1 DEF InProgress
  <2>3. c = chunk + 1 => m \in toList'
    BY <1>1, <1>3, EndedIsSelected
  <2>4. QED
    BY <2>2, <2>3
<1>11. QED
  BY <1>6, <1>7, <1>9, <1>10 DEF TameInv

LEMMA SacctInvNext == SacctInv /\ [SacctNext]_sacctVars => SacctInv'
<1> SUFFICES ASSUME SacctInv, [SacctNext]_sacctVars PROVE SacctInv'
  OBVIOUS
<1>1. SacctTypeOK /\ SacctTypeOK'
  BY SacctTypeNext DEF SacctInv
<1>2. UNCHANGED <<end, late, pieces>> /\ Tame' = Tame
  BY JobsAreGiven, GivenStays
<1> SUFFICES ASSUME Tame PROVE TameInv'
  BY <1>1, <1>2 DEF SacctInv
<1>3. TameInv
  BY DEF SacctInv
<1>4. ASSUME NEW j \in SacctJobs, List(j) PROVE TameInv'
  BY <1>1, <1>3, <1>4, ListStep
<1>5. CASE GetSacctLines
  BY <1>1, <1>3, <1>5, GetSacctLinesStep
<1>6. CASE Finish
  <2>1. chunk \in Chunks /\ toList = {} /\ lines = <<>> /\ NextCall /\ failed' = failed
    BY <1>6 DEF Finish
  <2>2. \A f \in failed' : f.by = "sacct"
    BY <1>3, <2>1 DEF TameInv, OnlySacctFails
  <2>3. QED
    BY <1>1, <1>3, <2>1, <2>2, NextCallStep
<1>7. CASE SacctFails
  <2>1. /\ chunk \in Chunks /\ NextCall
        /\ failed' = failed \cup {[chunk |-> chunk, by |-> "sacct"]}
    BY <1>7 DEF SacctFails, Fails
  <2>2. /\ failed \subseteq failed' /\ \A f \in failed' : f.by = "sacct"
        /\ \E f \in failed' : f.chunk = chunk
    <3> DEFINE g == [chunk |-> chunk, by |-> "sacct"]
    <3>1. g.chunk = chunk /\ g.by = "sacct"
      OBVIOUS
    <3> HIDE DEF g
    <3>2. failed' = failed \cup {g}
      BY <2>1 DEF g
    <3>3. QED
      BY <1>3, <3>1, <3>2 DEF TameInv, OnlySacctFails
  <2>3. QED
    BY <1>1, <1>3, <2>1, <2>2, NextCallStep
<1>8. CASE UNCHANGED sacctVars
  <2>1. UNCHANGED <<end, late, pieces, chunk, toList, lines, joined, count, printed, failed>>
    BY <1>8 DEF sacctVars
  <2>2. /\ \A c : Selected(c)' = Selected(c)
        /\ \A m : Whole(m)' = Whole(m)
    BY <1>2, GivenStays
  <2>3. \A m : IsPrinted(m)' = IsPrinted(m) /\ InProgress(m)' = InProgress(m)
    BY <2>1, <2>2 DEF IsPrinted, InProgress
  <2>4. InLine'
    BY <1>3, <2>1, <2>2 DEF TameInv, InLine, BetweenLines, AtPiece, InPipe, AreJoined
  <2>5. ListedOnce' /\ PrintedAreWhole' /\ OnlySacctFails'
    BY <1>3, <2>1, <2>2 DEF TameInv, ListedOnce, PrintedAreWhole, OnlySacctFails, Chunks
  <2>6. PrintedInTurn' /\ NoneIsDropped'
    BY <1>3, <2>1, <2>3 DEF TameInv, PrintedInTurn, NoneIsDropped, InInterval, WithinSlack
  <2>7. QED
    BY <2>4, <2>5, <2>6 DEF TameInv
<1>9. QED
  BY <1>4, <1>5, <1>6, <1>7, <1>8 DEF SacctNext, Done

(* The inductive invariant of fsacct, called for each chunk. *)
THEOREM SacctInvariance == SacctSpec => []SacctInv
<1>1. QED
  BY SacctInvInit, SacctInvNext, PTL DEF SacctSpec

(* Each job of a backfill is printed once, whole, in the chunk it ended in,  *)
(* if that chunk did not fail and sacct puts its end no further back than    *)
(* the slack, and a call only fails when sacct does; all this while no name  *)
(* has the delimiter in it.                                                  *)
THEOREM JobsArePrintedOnce == SacctSpec => []EveryJobInOneChunk
<1>1. SacctInv => EveryJobInOneChunk
  <2> SUFFICES ASSUME SacctTypeOK, Tame, TameInv PROVE EveryJobInOneChunk
    BY DEF SacctInv, EveryJobInOneChunk
  <2>1. PrintedAreWhole /\ OnlySacctFails /\ NoneIsDropped
    BY DEF TameInv
  <2>2. ASSUME chunk \notin Chunks,
               NEW j \in SacctJobs, NEW c \in Chunks \ { f.chunk : f \in failed },
               WithinSlack(j), InInterval(end[j], c)
        PROVE  Whole(j) \in Range(printed)
    <3>1. c < chunk
      <4>1. chunk \in Nat
        BY DEF TameInv, ListedOnce
      <4>2. QED
        BY <2>2, <4>1, AfterTheLast
    <3>2. \A f \in failed : f.chunk # c
      BY <2>2
    <3>3. IsPrinted(j)
      BY <2>1, <2>2, <3>1, <3>2 DEF NoneIsDropped
    <3>4. QED
      BY <3>3 DEF IsPrinted
  <2>3. QED
    BY <2>1, <2>2 DEF EveryJobInOneChunk, PrintedAreWhole, OnlySacctFails
<1>2. QED
  BY <1>1, SacctInvariance, PTL
=============================================================================
