--------------------------- MODULE SlurmCacheProofs ---------------------------
(***************************************************************************)
(* Proofs about SlurmCache, for any pipelines, GPUs, jobs, cache duration  *)
(* and length of a call: how old an attribution can get in a file that is  *)
(* rewritten without a lock, what an answer of scontrol is worth that was  *)
(* collected job by job, and how long a torn file is read.                 *)
(***************************************************************************)
EXTENDS SlurmCache, FiniteSetTheorems, TLAPS

(* The job of a GPU runs on the node, and what scontrol would name of a job  *)
(* that runs there is up to date.                                            *)
NamedNow ==
  /\ \A g \in Gpu : alloc[g] # NoJob => alloc[g] \in running
  /\ \A j \in Job : \A g \in Named(j) : namedAge[g][j] = 0

(* A GPU is attributed rightly, but for its namesakes on other nodes.        *)
Right(map, g) == map[g] \in {KnownJob(g)} \cup Namesakes(g)

(* What a call has learnt of scontrol is no older than the call, ...         *)
SampleIsRecent ==
  \A c \in Calls : pc[c] \in {"query", "truncate", "write"} =>
    \A g \in Gpu : gpuMap[c][g] # NoJob => namedAge[g][gpuMap[c][g]] <= elapsed[c]

(* ... so that what the file says was true a call before it was written,     *)
(* whoever has written it over whom, ...                                     *)
FileIsRecent ==
  /\ file.exists \/ file.data = EmptyMap
  /\ \A g \in Gpu : file.data[g] # NoJob =>
       namedAge[g][file.data[g]] <= file.age + CallTime

(* ... and a file found valid has got no older than the call since, which    *)
(* has not asked scontrol yet.                                               *)
ReadIsValid ==
  \A c \in Calls :
    /\ pc[c] \in {"idle", "stat", "read"} => ~ asked[c]
    /\ pc[c] = "read" => file.age <= CacheDuration + elapsed[c]

(* A call begins with an empty map.                                          *)
NothingYet == \A c \in Calls : pc[c] \in {"stat", "read"} => gpuMap[c] = EmptyMap

(* The job of a GPU whose allocation is steady is still to be asked for, or  *)
(* the GPU is attributed already, and never to a job that has not held it.   *)
SteadyIsAskedFor ==
  \A c \in Calls : pc[c] \in {"stat", "read", "query"} =>
    \A g \in steady[c] :
      /\ gpuMap[c][g] = NoJob \/ Right(gpuMap[c], g)
      /\ alloc[g] \in jobIDs[c] \/ Right(gpuMap[c], g)

(* In the end all of them are.                                               *)
SteadyIsAttributed ==
  \A c \in Calls : pc[c] \in {"truncate", "write"} =>
    \A g \in steady[c] : Right(gpuMap[c], g)

(* An error is there with an answer only, while no time passes.              *)
ErrorIsAnAnswer == \A c \in Calls : err[c] # "none" => pc[c] = "answer"

AgeInv == NamedNow /\ SampleIsRecent /\ FileIsRecent /\ ReadIsValid /\ AttributionIsRecent
SteadyInv == NothingYet /\ SteadyIsAskedFor /\ SteadyIsAttributed /\ SteadyGpusAreRight
CacheInv == TypeOK /\ AgeInv /\ SteadyInv /\ ErrorIsAnAnswer /\ TornFileExpires

-----------------------------------------------------------------------------
(* Types. *)

LEMMA OldAgeIsNat == OldAge \in Nat /\ CacheDuration \in Nat /\ CallTime \in Nat
                     /\ OldAge = CacheDuration + 2 * CallTime + 1
  BY CacheDurationAssumption, CallTimeAssumption DEF OldAge

(* What the JSON of a map can grow to. *)
LEMMA SizeType ==
  ASSUME NEW map
  PROVE  Size(map) \in 1 .. 1 + Cardinality(Gpu) /\ Cardinality(Gpu) \in Nat
<1> DEFINE S == { g \in Gpu : map[g] # NoJob }
<1>1. S \in SUBSET Gpu
  OBVIOUS
<1>2. Cardinality(Gpu) \in Nat
  BY GpuAssumption, FS_CardinalityType
<1>3. Cardinality(S) \in Nat /\ Cardinality(S) <= Cardinality(Gpu)
  BY <1>1, GpuAssumption, FS_Subset, FS_CardinalityType
<1>4. Size(map) = 1 + Cardinality(S)
  BY DEF Size
<1> HIDE DEF S
<1>5. QED
  BY <1>2, <1>3, <1>4

LEMMA MaxOfTwo ==
  ASSUME NEW a \in Nat, NEW b \in Nat
  PROVE  Max({a, b}) = IF a >= b THEN a ELSE b
  BY DEF Max

LEMMA EmptyMapType == EmptyMap \in Maps
  BY DEF EmptyMap, Maps

LEMMA TypeInit == Init => TypeOK
<1> SUFFICES ASSUME Init PROVE TypeOK
  OBVIOUS
<1>1. file \in Files
  <2>1. file = [exists |-> FALSE, age |-> 0, size |-> 0, data |-> EmptyMap, torn |-> FALSE]
    BY DEF Init
  <2>2. 0 \in 0 .. OldAge /\ 0 \in 0 .. 1 + Cardinality(Gpu)
    BY OldAgeIsNat, SizeType
  <2>3. QED
    BY <2>1, <2>2, EmptyMapType DEF Files
<1>2. QED
  BY <1>1, EmptyMapType, OldAgeIsNat DEF Init, TypeOK, Errors

(* The node's jobs make GPUs named; they leave the calls what they know, but *)
(* for what has changed of it.                                               *)
LEMMA WorldStep ==
  ASSUME TypeOK, NamedNow, NEW j \in Job, JobStarts(j) \/ JobEnds(j)
  PROVE  /\ UNCHANGED <<elsewhere, refused, file, pc, jobIDs, gpuMap, err, elapsed, asked>>
         /\ alloc' \in Maps /\ namedAge' \in [Gpu -> [Job -> 0 .. OldAge]]
         /\ running' \subseteq Job
         /\ steady' \in [Calls -> SUBSET Gpu]
         /\ NamedNow'
         /\ \A g \in Gpu, k \in Job : namedAge'[g][k] <= namedAge[g][k]
         /\ \A c \in Calls : steady'[c] \subseteq steady[c]
         /\ \A c \in Calls : \A g \in steady'[c] : alloc'[g] = alloc[g]
<1>0. OldAge \in Nat /\ NoJob \notin Job
  BY OldAgeIsNat, NoJobAssumption
<1>1. CASE JobStarts(j)
  <2>1. PICK gs \in SUBSET { g \in Gpu : alloc[g] = NoJob } :
          /\ alloc' = [g \in Gpu |-> IF g \in gs THEN j ELSE alloc[g]]
          /\ namedAge' = [g \in Gpu |-> IF g \in gs \cup elsewhere[j]
                                        THEN [namedAge[g] EXCEPT ![j] = 0]
                                        ELSE namedAge[g]]
          /\ steady' = [c \in Calls |-> steady[c] \ gs]
    BY <1>1 DEF JobStarts, Unsettled
  <2>2. /\ UNCHANGED <<elsewhere, refused, file, pc, jobIDs, gpuMap, err, elapsed, asked>>
        /\ running' = running \cup {j} /\ j \notin running
    BY <1>1 DEF JobStarts, callVars
  <2>3. alloc' \in Maps /\ running' \subseteq Job
    BY <2>1, <2>2 DEF TypeOK, Maps
  <2>4. namedAge' \in [Gpu -> [Job -> 0 .. OldAge]]
    BY <1>0, <2>1 DEF TypeOK
  <2>5. NamedNow'
    <3>1. \A g \in Gpu : alloc'[g] # NoJob => alloc'[g] \in running'
      BY <2>1, <2>2 DEF NamedNow
    <3>2. ASSUME NEW k \in Job, NEW g \in Gpu, k \in running', alloc'[g] = k \/ g \in elsewhere[k]
          PROVE  namedAge'[g][k] = 0
      <4>1. CASE k = j
        <5>1. g \in gs \cup elsewhere[j]
          BY <1>0, <2>1, <2>2, <3>2, <4>1 DEF NamedNow
        <5>2. QED
          BY <2>1, <4>1, <5>1 DEF TypeOK
      <4>2. CASE k # j
        <5>1. k \in running /\ (alloc[g] = k \/ g \in elsewhere[k])
          BY <2>1, <2>2, <3>2, <4>2
        <5>2. namedAge[g][k] = 0
          BY <5>1 DEF NamedNow, Named
        <5>3. QED
          BY <2>1, <4>2, <5>2 DEF TypeOK
      <4>3. QED
        BY <4>1, <4>2
    <3>3. QED
      BY <2>2, <3>1, <3>2 DEF NamedNow, Named, TypeOK
  <2>6. \A g \in Gpu, k \in Job : namedAge'[g][k] <= namedAge[g][k]
    BY <1>0, <2>1 DEF TypeOK
  <2>7. /\ steady' \in [Calls -> SUBSET Gpu]
        /\ \A c \in Calls : steady'[c] \subseteq steady[c]
        /\ \A c \in Calls : \A g \in steady'[c] : alloc'[g] = alloc[g]
    BY <2>1 DEF TypeOK
  <2>8. QED
    BY <2>2, <2>3, <2>4, <2>5, <2>6, <2>7
<1>2. CASE JobEnds(j)
  <2>1. /\ alloc' = [g \in Gpu |-> IF alloc[g] = j THEN NoJob ELSE alloc[g]]
        /\ steady' = [c \in Calls |-> steady[c] \ { g \in Gpu : alloc[g] = j }]
        /\ namedAge' = namedAge /\ running' = running \ {j}
    BY <1>2 DEF JobEnds, Unsettled
  <2>2. UNCHANGED <<elsewhere, refused, file, pc, jobIDs, gpuMap, err, elapsed, asked>>
    BY <1>2 DEF JobEnds, callVars
  <2>3. alloc' \in Maps /\ running' \subseteq Job
    BY <2>1 DEF TypeOK, Maps
  <2>4. namedAge' \in [Gpu -> [Job -> 0 .. OldAge]]
    BY <2>1 DEF TypeOK
  <2>5. NamedNow'
    <3>1. \A g \in Gpu : alloc'[g] # NoJob => alloc'[g] \in running'
      BY <2>1 DEF NamedNow
    <3>2. ASSUME NEW k \in Job, NEW g \in Gpu, k \in running', alloc'[g] = k \/ g \in elsewhere[k]
          PROVE  namedAge'[g][k] = 0
      <4>1. k \in running /\ (alloc[g] = k \/ g \in elsewhere[k])
        BY <1>0, <2>1, <3>2
      <4>2. QED
        BY <2>1, <4>1 DEF NamedNow, Named
    <3>3. QED
      BY <2>2, <3>1, <3>2 DEF NamedNow, Named, TypeOK
  <2>6. \A g \in Gpu, k \in Job : namedAge'[g][k] <= namedAge[g][k]
    BY <1>0, <2>1 DEF TypeOK
  <2>7. /\ steady' \in [Calls -> SUBSET Gpu]
        /\ \A c \in Calls : steady'[c] \subseteq steady[c]
        /\ \A c \in Calls : \A g \in steady'[c] : alloc'[g] = alloc[g]
    BY <2>1 DEF TypeOK
  <2>8. QED
    BY <2>2, <2>3, <2>4, <2>5, <2>6, <2>7
<1>3. QED
  BY <1>1, <1>2

LEMMA WorldKeepsInv ==
  ASSUME CacheInv, NEW j \in Job, JobStarts(j) \/ JobEnds(j)
  PROVE  CacheInv'
<1>1. /\ UNCHANGED <<elsewhere, refused, file, pc, jobIDs, gpuMap, err, elapsed, asked>>
      /\ alloc' \in Maps /\ namedAge' \in [Gpu -> [Job -> 0 .. OldAge]]
      /\ running' \subseteq Job
      /\ steady' \in [Calls -> SUBSET Gpu]
      /\ NamedNow'
      /\ \A g \in Gpu, k \in Job : namedAge'[g][k] <= namedAge[g][k]
      /\ \A c \in Calls : steady'[c] \subseteq steady[c]
      /\ \A c \in Calls : \A g \in steady'[c] : alloc'[g] = alloc[g]
  BY WorldStep DEF CacheInv, AgeInv
<1>2. TypeOK'
  BY <1>1 DEF CacheInv, TypeOK
<1>3. ASSUME NEW map \in Maps, NEW g \in Gpu, map[g] # NoJob
      PROVE  namedAge'[g][map[g]] <= namedAge[g][map[g]]
  BY <1>1, <1>3 DEF Maps
<1>4. ASSUME NEW map \in Maps, NEW n \in Nat, NEW g \in Gpu, map[g] # NoJob,
             namedAge[g][map[g]] <= n
      PROVE  namedAge'[g][map[g]] <= n
  <2>1. namedAge'[g][map[g]] \in Nat /\ namedAge[g][map[g]] \in Nat
    BY <1>1, <1>4, OldAgeIsNat DEF CacheInv, TypeOK, Maps
  <2>2. QED
    BY <1>3, <1>4, <2>1
<1>5. SampleIsRecent'
  <2>1. \A c \in Calls : gpuMap[c] \in Maps /\ elapsed[c] \in Nat
    BY OldAgeIsNat DEF CacheInv, TypeOK
  <2>2. QED
    BY <1>1, <1>4, <2>1 DEF CacheInv, AgeInv, SampleIsRecent
<1>6. FileIsRecent'
  <2>1. file.data \in Maps /\ file.age + CallTime \in Nat
    BY OldAgeIsNat DEF CacheInv, TypeOK, Files
  <2>2. QED
    BY <1>1, <1>4, <2>1 DEF CacheInv, AgeInv, FileIsRecent
<1>7. AttributionIsRecent'
  <2>1. \A c \in Calls : gpuMap[c] \in Maps /\ CacheDuration + 2 * CallTime \in Nat
    BY OldAgeIsNat DEF CacheInv, TypeOK
  <2>2. QED
    BY <1>1, <1>4, <2>1 DEF CacheInv, AgeInv, AttributionIsRecent
<1>8. ReadIsValid'
  BY <1>1 DEF CacheInv, AgeInv, ReadIsValid
<1>9. SteadyInv'
  <2>1. \A c \in Calls : \A g \in steady'[c] : g \in steady[c] /\ g \in Gpu
    BY <1>1 DEF CacheInv, TypeOK
  <2>2. \A c \in Calls : \A g \in steady'[c] :
          /\ KnownJob(g)' = KnownJob(g) /\ Namesakes(g)' = Namesakes(g)
          /\ alloc'[g] = alloc[g]
    BY <1>1 DEF KnownJob, Namesakes
  <2>3. QED
    BY <1>1, <2>1, <2>2
    DEF CacheInv, SteadyInv, NothingYet, SteadyIsAskedFor, SteadyIsAttributed,
        SteadyGpusAreRight, Right
<1>10. ErrorIsAnAnswer' /\ TornFileExpires'
  BY <1>1 DEF CacheInv, ErrorIsAnAnswer, TornFileExpires
<1>11. QED
  BY <1>1, <1>2, <1>5, <1>6, <1>7, <1>8, <1>9, <1>10 DEF CacheInv, AgeInv

(* Everything gets older at the same pace, and no answer waits for its use.  *)
LEMMA TickKeepsInv ==
  ASSUME CacheInv, Tick
  PROVE  CacheInv'
<1>0. OldAge \in Nat /\ CacheDuration \in Nat /\ CallTime \in Nat
      /\ OldAge = CacheDuration + 2 * CallTime + 1
  BY OldAgeIsNat
<1>1. UNCHANGED <<alloc, running, elsewhere, refused, pc, jobIDs, gpuMap, err, asked, steady>>
  BY DEF Tick
<1>2. \A c \in Calls : pc[c] # "answer"
  BY DEF Tick
<1>3. /\ elapsed' \in [Calls -> 0 .. CallTime]
      /\ \A c \in Calls : pc[c] # "idle" => elapsed'[c] = elapsed[c] + 1
  BY <1>0 DEF Tick, CacheInv, TypeOK
<1>4. /\ namedAge' \in [Gpu -> [Job -> 0 .. OldAge]]
      /\ \A g \in Gpu, j \in Job : namedAge'[g][j] <= namedAge[g][j] + 1
  BY <1>0 DEF Tick, CacheInv, TypeOK, Older
<1>5. NamedNow'
  <2>1. \A j \in Job : Named(j)' = Named(j) /\ Named(j) \subseteq Gpu
    BY <1>1 DEF Named, CacheInv, TypeOK
  <2>2. \A j \in Job : \A g \in Named(j) : namedAge'[g][j] = 0
    BY <2>1 DEF Tick
  <2>3. QED
    BY <1>1, <2>1, <2>2 DEF NamedNow, CacheInv, AgeInv, Named
<1>6. /\ file' \in Files /\ file'.exists = file.exists /\ file'.data = file.data
      /\ file'.age <= file.age + 1
      /\ file.exists => file'.age = OldAge \/ file'.age = file.age + 1
  <2>1. file' = IF file.exists THEN [file EXCEPT !.age = Older(@)] ELSE file
    BY DEF Tick
  <2>2. file \in Files
    BY DEF CacheInv, TypeOK
  <2>3. QED
    BY <1>0, <2>1, <2>2 DEF Files, Older
<1>7. TypeOK'
  BY <1>1, <1>3, <1>4, <1>6 DEF CacheInv, TypeOK
<1>8. ASSUME NEW map \in Maps, NEW g \in Gpu, map[g] # NoJob
      PROVE  /\ namedAge'[g][map[g]] <= namedAge[g][map[g]] + 1
             /\ namedAge'[g][map[g]] \in 0 .. OldAge /\ namedAge[g][map[g]] \in Nat
  BY <1>0, <1>4, <1>8 DEF CacheInv, TypeOK, Maps
<1>9. SampleIsRecent'
  <2>1. SUFFICES ASSUME NEW c \in Calls, pc[c] \in {"query", "truncate", "write"},
                        NEW g \in Gpu, gpuMap[c][g] # NoJob
                 PROVE  namedAge'[g][gpuMap[c][g]] <= elapsed'[c]
    BY <1>1 DEF SampleIsRecent
  <2>2. namedAge[g][gpuMap[c][g]] <= elapsed[c] /\ elapsed[c] \in Nat /\ gpuMap[c] \in Maps
    BY <1>0, <2>1 DEF CacheInv, TypeOK, AgeInv, SampleIsRecent
  <2>3. elapsed'[c] = elapsed[c] + 1
    BY <1>3, <2>1
  <2>4. QED
    BY <1>8, <2>1, <2>2, <2>3
<1>10. FileIsRecent'
  <2>1. file'.exists \/ file'.data = EmptyMap
    BY <1>6 DEF CacheInv, AgeInv, FileIsRecent
  <2>2. SUFFICES ASSUME NEW g \in Gpu, file.data[g] # NoJob
                 PROVE  namedAge'[g][file.data[g]] <= file'.age + CallTime
    BY <1>6, <2>1 DEF FileIsRecent
  <2>3. /\ namedAge[g][file.data[g]] <= file.age + CallTime
        /\ file.data \in Maps /\ file.age \in Nat /\ file'.age \in Nat
    BY <1>0, <1>6, <2>2 DEF CacheInv, TypeOK, Files, AgeInv, FileIsRecent
  <2>4. file.exists
    BY <2>2 DEF CacheInv, AgeInv, FileIsRecent, EmptyMap
  <2>5. QED
    BY <1>0, <1>6, <1>8, <2>2, <2>3, <2>4
<1>11. ReadIsValid'
  <2>1. \A c \in Calls : elapsed[c] \in Nat /\ file.age \in Nat /\ file'.age \in Nat
    BY <1>0, <1>6 DEF CacheInv, TypeOK, Files
  <2>2. QED
    BY <1>0, <1>1, <1>3, <1>6, <2>1 DEF CacheInv, AgeInv, ReadIsValid
<1>12. AttributionIsRecent' /\ TornFileExpires'
  BY <1>1, <1>2 DEF AttributionIsRecent, TornFileExpires, CacheInv, ErrorIsAnAnswer
<1>13. SteadyInv' /\ ErrorIsAnAnswer'
  BY <1>1
  DEF CacheInv, SteadyInv, NothingYet, SteadyIsAskedFor, SteadyIsAttributed,
      SteadyGpusAreRight, ErrorIsAnAnswer,
      Right, KnownJob, Namesakes
<1>14. QED
  BY <1>5, <1>7, <1>9, <1>10, <1>11, <1>12, <1>13 DEF CacheInv, AgeInv

-----------------------------------------------------------------------------
(* The steps of a call that leave the file alone. *)

(* A call goes from one place to another and knows what it knew. *)
LEMMA MoveKeepsInv ==
  ASSUME CacheInv, NEW c \in Calls, NEW to, Goto(c, to), NEW a \in BOOLEAN,
         asked' = [asked EXCEPT ![c] = a],
         UNCHANGED <<alloc, running, elsewhere, refused, namedAge, file, jobIDs, gpuMap, err, elapsed, steady>>,
         err[c] = "none",
         \/ pc[c] \in {"stat", "read"} /\ to = "query"
         \/ pc[c] = "stat" /\ to = "read" /\ ~ a /\ file.age <= CacheDuration
         \/ pc[c] = "query" /\ jobIDs[c] = {} /\ to = "truncate"
  PROVE  CacheInv'
<1>1. /\ to \in {"read", "query", "truncate"}
      /\ pc' = [pc EXCEPT ![c] = to]
  BY DEF Goto
<1>2. TypeOK'
  BY <1>1 DEF CacheInv, TypeOK
<1>3. NamedNow' /\ FileIsRecent' /\ AttributionIsRecent'
  BY <1>1 DEF CacheInv, TypeOK, AgeInv, NamedNow, FileIsRecent, AttributionIsRecent, Named
<1>4. SampleIsRecent'
  BY <1>1
  DEF CacheInv, TypeOK, AgeInv, SampleIsRecent, SteadyInv, NothingYet, EmptyMap
<1>5. ReadIsValid'
  BY <1>1, OldAgeIsNat DEF CacheInv, TypeOK, Files, AgeInv, ReadIsValid
<1>6. NothingYet' /\ SteadyIsAskedFor'
  BY <1>1 DEF CacheInv, TypeOK, SteadyInv, NothingYet, SteadyIsAskedFor,
      Right, KnownJob, Namesakes
<1>7. SteadyIsAttributed' /\ SteadyGpusAreRight'
  BY <1>1
  DEF CacheInv, TypeOK, SteadyInv, SteadyIsAskedFor, SteadyIsAttributed, SteadyGpusAreRight,
      Right, KnownJob, Namesakes
<1>8. ErrorIsAnAnswer' /\ TornFileExpires'
  BY <1>1 DEF CacheInv, TypeOK, ErrorIsAnAnswer, TornFileExpires
<1>9. QED
  BY <1>2, <1>3, <1>4, <1>5, <1>6, <1>7, <1>8 DEF CacheInv, AgeInv, SteadyInv

(* A call gives an answer; the file may have been written by it. *)
LEMMA AnswerKeepsInv ==
  ASSUME CacheInv, NEW c \in Calls, NEW map \in Maps, NEW e \in Errors, Answer(c, map, e),
         UNCHANGED <<alloc, running, elsewhere, refused, namedAge, elapsed, asked, steady>>,
         file' \in Files, file'.age <= file.age, FileIsRecent',
         \A g \in Gpu : map[g] # NoJob => namedAge[g][map[g]] <= CacheDuration + 2 * CallTime,
         \/ ~ asked[c] \/ e = "scontrol" \/ \A g \in steady[c] : Right(map, g),
         e = "unmarshal" => file.age <= CacheDuration + CallTime
  PROVE  CacheInv'
<1>1. /\ pc' = [pc EXCEPT ![c] = "answer"] /\ jobIDs' = [jobIDs EXCEPT ![c] = {}]
      /\ gpuMap' = [gpuMap EXCEPT ![c] = map] /\ err' = [err EXCEPT ![c] = e]
  BY DEF Answer, Goto
<1>2. TypeOK'
  BY <1>1 DEF CacheInv, TypeOK
<1>3. NamedNow' /\ SampleIsRecent' /\ AttributionIsRecent'
  BY <1>1 DEF CacheInv, TypeOK, AgeInv, NamedNow, SampleIsRecent, AttributionIsRecent, Named
<1>4. ReadIsValid'
  BY <1>1, OldAgeIsNat DEF CacheInv, TypeOK, Files, AgeInv, ReadIsValid
<1>5. NothingYet' /\ SteadyIsAskedFor' /\ SteadyIsAttributed'
  BY <1>1 DEF CacheInv, TypeOK, SteadyInv, NothingYet, SteadyIsAskedFor, SteadyIsAttributed,
      Right, KnownJob, Namesakes
<1>6. SteadyGpusAreRight'
  BY <1>1 DEF CacheInv, TypeOK, SteadyInv, SteadyGpusAreRight,
      Right, KnownJob, Namesakes
<1>7. ErrorIsAnAnswer'
  BY <1>1 DEF CacheInv, TypeOK, ErrorIsAnAnswer
<1>8. TornFileExpires'
  BY <1>1, OldAgeIsNat DEF CacheInv, TypeOK, Files, TornFileExpires
<1>9. QED
  BY <1>2, <1>3, <1>4, <1>5, <1>6, <1>7, <1>8 DEF CacheInv, AgeInv, SteadyInv

(* What a call knows of scontrol is recent enough to be an answer. *)
LEMMA SampleCanBeAnswered ==
  ASSUME CacheInv, NEW c \in Calls, pc[c] \in {"query", "truncate", "write"}
  PROVE  /\ gpuMap[c] \in Maps
         /\ \A g \in Gpu : gpuMap[c][g] # NoJob =>
              /\ namedAge[g][gpuMap[c][g]] <= CallTime
              /\ namedAge[g][gpuMap[c][g]] <= CacheDuration + 2 * CallTime
<1>1. gpuMap[c] \in Maps /\ elapsed[c] \in 0 .. CallTime
  BY DEF CacheInv, TypeOK
<1>2. SUFFICES ASSUME NEW g \in Gpu, gpuMap[c][g] # NoJob
               PROVE  /\ namedAge[g][gpuMap[c][g]] <= CallTime
                      /\ namedAge[g][gpuMap[c][g]] <= CacheDuration + 2 * CallTime
  BY <1>1
<1>3. namedAge[g][gpuMap[c][g]] \in Nat
  BY <1>1, <1>2, OldAgeIsNat DEF CacheInv, TypeOK, Maps
<1>4. namedAge[g][gpuMap[c][g]] <= elapsed[c]
  BY <1>2 DEF CacheInv, AgeInv, SampleIsRecent
<1>5. QED
  BY <1>1, <1>3, <1>4, OldAgeIsNat

(* The list of the jobs, or none; then the age of the file. *)
LEMMA ListPidsKeepsInv ==
  ASSUME CacheInv, NEW c \in Calls, ListPids(c)
  PROVE  CacheInv'
<1>1. /\ pc[c] = "idle" /\ pc' = [pc EXCEPT ![c] = "stat"]
      /\ jobIDs' = [jobIDs EXCEPT ![c] = RunningJobs]
      /\ gpuMap' = [gpuMap EXCEPT ![c] = EmptyMap]
      /\ steady' = [steady EXCEPT ![c] = Gpu]
      /\ UNCHANGED <<alloc, running, elsewhere, refused, namedAge, file, err, elapsed, asked>>
  BY DEF ListPids, Goto, worldVars
<1>2. RunningJobs \subseteq Job /\ EmptyMap \in Maps
  BY EmptyMapType DEF CacheInv, TypeOK, RunningJobs
<1>3. TypeOK'
  BY <1>1, <1>2 DEF CacheInv, TypeOK
<1>4. AgeInv'
  BY <1>1
  DEF CacheInv, TypeOK, AgeInv, NamedNow, SampleIsRecent, FileIsRecent, ReadIsValid,
      AttributionIsRecent, Named
<1>5. SteadyIsAskedFor'
  <2>1. \A g \in Gpu : /\ EmptyMap[g] = NoJob
                       /\ (alloc[g] \in RunningJobs \/ Right(EmptyMap, g))
    BY DEF RunningJobs, EmptyMap, CacheInv, AgeInv, NamedNow, Right, KnownJob
  <2>2. QED
    BY <1>1, <2>1 DEF CacheInv, TypeOK, SteadyInv, SteadyIsAskedFor,
      Right, KnownJob, Namesakes
<1>6. NothingYet' /\ SteadyIsAttributed' /\ SteadyGpusAreRight'
  BY <1>1
  DEF CacheInv, TypeOK, SteadyInv, NothingYet, SteadyIsAttributed, SteadyGpusAreRight,
      Right, KnownJob, Namesakes
<1>7. ErrorIsAnAnswer' /\ TornFileExpires'
  BY <1>1 DEF CacheInv, TypeOK, ErrorIsAnAnswer, TornFileExpires
<1>8. QED
  BY <1>3, <1>4, <1>5, <1>6, <1>7 DEF CacheInv, SteadyInv

(* An error before anything is attributed: no list of jobs, or no file that  *)
(* can be looked at or read.                                                 *)
LEMMA EarlyFailureKeepsInv ==
  ASSUME CacheInv, NEW c \in Calls, ListPidsFails(c) \/ StatFails(c) \/ ReadFails(c)
  PROVE  CacheInv'
<1>1. PICK e \in {"scontrol", "cache"} :
        /\ Answer(c, EmptyMap, e)
        /\ e = "scontrol" \/ pc[c] \in {"stat", "read"}
        /\ UNCHANGED <<alloc, running, elsewhere, refused, namedAge, file, elapsed, asked, steady>>
  BY DEF ListPidsFails, StatFails, ReadFails, worldVars
<1>2. /\ file \in Files /\ file.age <= file.age /\ EmptyMap \in Maps
      /\ e \in Errors /\ e # "unmarshal"
  BY EmptyMapType, OldAgeIsNat DEF CacheInv, TypeOK, Files, Errors
<1>3. FileIsRecent'
  BY <1>1 DEF CacheInv, AgeInv, FileIsRecent
<1>4. \A g \in Gpu : EmptyMap[g] = NoJob
  BY DEF EmptyMap
<1>5. ~ asked[c] \/ e = "scontrol"
  BY <1>1 DEF CacheInv, AgeInv, ReadIsValid
<1>6. QED
  BY <1>1, <1>2, <1>3, <1>4, <1>5, AnswerKeepsInv

LEMMA StatKeepsInv ==
  ASSUME CacheInv, NEW c \in Calls, Stat(c) \/ ReadEmpty(c) \/ QueriesDone(c)
  PROVE  CacheInv'
<1>1. \A d \in Calls : pc[d] # "answer" => err[d] = "none"
  BY DEF CacheInv, ErrorIsAnAnswer
<1>2. asked \in [Calls -> BOOLEAN]
  BY DEF CacheInv, TypeOK
<1>3. CASE Stat(c)
  <2>1. /\ pc[c] = "stat" /\ Goto(c, IF FileIsValid THEN "read" ELSE "query")
        /\ asked' = [asked EXCEPT ![c] = ~ FileIsValid]
        /\ UNCHANGED <<alloc, running, elsewhere, refused, namedAge, file, jobIDs, gpuMap, err, elapsed, steady>>
    BY <1>3 DEF Stat, worldVars
  <2>2. CASE FileIsValid
    <3>1. Goto(c, "read") /\ file.age <= CacheDuration
      BY <2>1, <2>2 DEF FileIsValid
    <3>2. asked' = [asked EXCEPT ![c] = FALSE]
      BY <2>1, <2>2
    <3>3. QED
      BY <1>1, <2>1, <3>1, <3>2, MoveKeepsInv
  <2>3. CASE ~ FileIsValid
    <3>1. Goto(c, "query")
      BY <2>1, <2>3
    <3>2. asked' = [asked EXCEPT ![c] = TRUE]
      BY <2>1, <2>3
    <3>3. QED
      BY <1>1, <2>1, <3>1, <3>2, MoveKeepsInv
  <2>4. QED
    BY <2>2, <2>3
<1>4. CASE ReadEmpty(c)
  BY <1>1, <1>4, MoveKeepsInv DEF ReadEmpty, worldVars
<1>5. CASE QueriesDone(c)
  <2>1. /\ pc[c] = "query" /\ jobIDs[c] = {} /\ Goto(c, "truncate")
        /\ UNCHANGED <<alloc, running, elsewhere, refused, namedAge, file, jobIDs, gpuMap, err, elapsed, asked, steady>>
    BY <1>5 DEF QueriesDone, worldVars
  <2>2. asked' = [asked EXCEPT ![c] = asked[c]] /\ asked[c] \in BOOLEAN
    BY <1>2, <2>1
  <2>3. QED
    BY <1>1, <2>1, <2>2, MoveKeepsInv
<1>6. QED
  BY <1>3, <1>4, <1>5

LEMMA ReadKeepsInv ==
  ASSUME CacheInv, NEW c \in Calls, ReadFile(c)
  PROVE  CacheInv'
<1>0. OldAge \in Nat /\ CacheDuration \in Nat /\ CallTime \in Nat
  BY OldAgeIsNat
<1>1. /\ pc[c] = "read" /\ UNCHANGED <<alloc, running, elsewhere, refused, namedAge, file, elapsed, asked, steady>>
  BY DEF ReadFile, worldVars
<1>2. /\ file \in Files /\ file.age \in Nat /\ file.age <= file.age
      /\ file.data \in Maps /\ EmptyMap \in Maps
      /\ "none" \in Errors /\ "unmarshal" \in Errors
  BY <1>0, EmptyMapType DEF CacheInv, TypeOK, Files, Errors
<1>3. ~ asked[c] /\ file.age <= CacheDuration + CallTime
  BY <1>0, <1>1, <1>2 DEF CacheInv, TypeOK, AgeInv, ReadIsValid
<1>4. FileIsRecent'
  BY <1>1 DEF CacheInv, AgeInv, FileIsRecent
<1>5. CASE file.torn
  <2>1. Answer(c, EmptyMap, "unmarshal")
    BY <1>5 DEF ReadFile
  <2>2. \A g \in Gpu : EmptyMap[g] = NoJob
    BY DEF EmptyMap
  <2>3. QED
    BY <1>1, <1>2, <1>3, <1>4, <2>1, <2>2, AnswerKeepsInv
<1>6. CASE ~ file.torn
  <2>1. Answer(c, file.data, "none")
    BY <1>6 DEF ReadFile
  <2>2. ASSUME NEW g \in Gpu, file.data[g] # NoJob
        PROVE  namedAge[g][file.data[g]] <= CacheDuration + 2 * CallTime
    <3>1. namedAge[g][file.data[g]] <= file.age + CallTime
      BY <2>2 DEF CacheInv, AgeInv, FileIsRecent
    <3>2. namedAge[g][file.data[g]] \in Nat
      BY <1>0, <1>2, <2>2 DEF CacheInv, TypeOK, Maps
    <3>3. QED
      BY <1>0, <1>2, <1>3, <3>1, <3>2
  <2>3. QED
    BY <1>1, <1>2, <1>3, <1>4, <2>1, <2>2, AnswerKeepsInv
<1>7. QED
  BY <1>5, <1>6

(* One job more is attributed: its GPUs, and its namesakes, are named now. *)
LEMMA QueryKeepsInv ==
  ASSUME CacheInv, NEW c \in Calls, QueryJob(c)
  PROVE  CacheInv'
<1>1. PICK j \in jobIDs[c] :
        /\ gpuMap' = [gpuMap EXCEPT ![c] =
                        [g \in Gpu |-> IF g \in Named(j) /\ j \notin refused THEN j
                                      ELSE gpuMap[c][g]]]
        /\ jobIDs' = [jobIDs EXCEPT ![c] = jobIDs[c] \ {j}]
  BY DEF QueryJob
<1>2. /\ pc[c] = "query"
      /\ UNCHANGED <<alloc, running, elsewhere, refused, namedAge, file, pc, err, elapsed, asked, steady>>
  BY DEF QueryJob, worldVars
<1>3. j \in Job /\ j # NoJob
  BY NoJobAssumption DEF CacheInv, TypeOK
<1>4. [g \in Gpu |-> IF g \in Named(j) /\ j \notin refused THEN j ELSE gpuMap[c][g]] \in Maps
  BY <1>3 DEF CacheInv, TypeOK, Maps
<1>5. TypeOK'
  BY <1>1, <1>2, <1>4 DEF CacheInv, TypeOK
<1>6. SampleIsRecent'
  <2>1. elapsed[c] \in Nat
    BY OldAgeIsNat DEF CacheInv, TypeOK
  <2>2. \A g \in Named(j) : namedAge[g][j] <= elapsed[c]
    BY <1>3, <2>1 DEF CacheInv, AgeInv, NamedNow
  <2>3. QED
    BY <1>1, <1>2, <2>2 DEF CacheInv, TypeOK, AgeInv, SampleIsRecent
<1>7. NamedNow' /\ FileIsRecent' /\ ReadIsValid' /\ AttributionIsRecent'
  BY <1>1, <1>2
  DEF CacheInv, TypeOK, AgeInv, NamedNow, Named, FileIsRecent, ReadIsValid, AttributionIsRecent
<1>8. \A g \in Gpu : KnownJob(g)' = KnownJob(g) /\ Namesakes(g)' = Namesakes(g)
  BY <1>2 DEF KnownJob, Namesakes
<1>9. SteadyIsAskedFor'
  <2>1. ASSUME NEW g \in Gpu
        PROVE  gpuMap'[c][g] = (IF g \in Named(j) /\ j \notin refused THEN j ELSE gpuMap[c][g])
    BY <1>1, <2>1 DEF CacheInv, TypeOK
  <2>2. ASSUME NEW g \in steady[c]
        PROVE  /\ gpuMap'[c][g] = NoJob \/ Right(gpuMap'[c], g)
               /\ alloc[g] \in jobIDs[c] \ {j} \/ Right(gpuMap'[c], g)
    <3>1. /\ g \in Gpu
          /\ gpuMap[c][g] = NoJob \/ Right(gpuMap[c], g)
          /\ alloc[g] \in jobIDs[c] \/ Right(gpuMap[c], g)
      BY <1>2, <2>2 DEF CacheInv, TypeOK, SteadyInv, SteadyIsAskedFor
    <3>2. CASE g \in Named(j) /\ j \notin refused
      <4>1. alloc[g] = j \/ g \in elsewhere[j]
        BY <3>1, <3>2 DEF Named
      <4>2. Right(gpuMap'[c], g)
        BY <1>3, <2>1, <3>1, <3>2, <4>1 DEF Right, KnownJob, Namesakes
      <4>3. QED
        BY <4>2
    <3>3. CASE ~ (g \in Named(j) /\ j \notin refused)
      <4>1. gpuMap'[c][g] = gpuMap[c][g]
        BY <2>1, <3>1, <3>3
      <4>2. Right(gpuMap[c], g) => Right(gpuMap'[c], g)
        BY <4>1 DEF Right
      <4>3. CASE alloc[g] = j
        <5>1. j \in running
          BY <1>3, <3>1, <4>3 DEF CacheInv, AgeInv, NamedNow
        <5>2. j \in refused
          BY <3>1, <3>3, <4>3, <5>1 DEF Named
        <5>3. gpuMap[c][g] = NoJob => Right(gpuMap'[c], g)
          BY <4>1, <4>3, <5>2 DEF Right, KnownJob
        <5>4. QED
          BY <3>1, <4>1, <4>2, <5>3
      <4>4. CASE alloc[g] # j
        BY <3>1, <4>1, <4>2, <4>4
      <4>5. QED
        BY <4>3, <4>4
    <3>4. QED
      BY <3>2, <3>3
  <2>3. ASSUME NEW d \in Calls, d # c
        PROVE  gpuMap'[d] = gpuMap[d] /\ jobIDs'[d] = jobIDs[d]
    BY <1>1, <2>3 DEF CacheInv, TypeOK
  <2>4. jobIDs'[c] = jobIDs[c] \ {j}
    BY <1>1 DEF CacheInv, TypeOK
  <2>5. SUFFICES ASSUME NEW d \in Calls, pc[d] \in {"stat", "read", "query"},
                        NEW g \in steady[d]
                 PROVE  /\ gpuMap'[d][g] = NoJob \/ Right(gpuMap'[d], g)
                        /\ alloc[g] \in jobIDs'[d] \/ Right(gpuMap'[d], g)
    <3>1. \A d \in Calls : \A g \in steady[d] :
            g \in Gpu /\ (Right(gpuMap[d], g)' <=> Right(gpuMap'[d], g))
      BY <1>8 DEF Right, CacheInv, TypeOK
    <3>2. QED
      BY <1>2, <2>5, <3>1 DEF SteadyIsAskedFor
  <2>6. CASE d = c
    BY <2>2, <2>4, <2>5, <2>6
  <2>7. CASE d # c
    <3>1. gpuMap'[d] = gpuMap[d] /\ jobIDs'[d] = jobIDs[d]
      BY <2>3, <2>7
    <3>2. /\ gpuMap[d][g] = NoJob \/ Right(gpuMap[d], g)
          /\ alloc[g] \in jobIDs[d] \/ Right(gpuMap[d], g)
      BY <2>5 DEF CacheInv, SteadyInv, SteadyIsAskedFor
    <3>3. QED
      BY <3>1, <3>2
  <2>8. QED
    BY <2>6, <2>7
<1>10. NothingYet' /\ SteadyIsAttributed' /\ SteadyGpusAreRight'
  BY <1>1, <1>2
  DEF CacheInv, TypeOK, SteadyInv, NothingYet, SteadyIsAttributed, SteadyGpusAreRight,
      Right, KnownJob, Namesakes
<1>11. ErrorIsAnAnswer' /\ TornFileExpires'
  BY <1>2 DEF CacheInv, ErrorIsAnAnswer, TornFileExpires
<1>12. QED
  BY <1>5, <1>6, <1>7, <1>9, <1>10, <1>11 DEF CacheInv, AgeInv, SteadyInv

LEMMA FailureKeepsInv ==
  ASSUME CacheInv, NEW c \in Calls, QueryFails(c) \/ SaveFails(c)
  PROVE  CacheInv'
<1>1. PICK e \in {"scontrol", "save"} :
        /\ Answer(c, gpuMap[c], e)
        /\ e = "scontrol" \/ pc[c] \in {"truncate", "write"}
  BY DEF QueryFails, SaveFails
<1>2. /\ pc[c] \in {"query", "truncate", "write"}
      /\ UNCHANGED <<alloc, running, elsewhere, refused, namedAge, file, elapsed, asked, steady>>
  BY DEF QueryFails, SaveFails, worldVars
<1>3. file \in Files /\ file.age <= file.age /\ e \in Errors
  BY OldAgeIsNat DEF CacheInv, TypeOK, Files, Errors
<1>4. FileIsRecent'
  BY <1>2 DEF CacheInv, AgeInv, FileIsRecent
<1>5. e = "scontrol" \/ \A g \in steady[c] : Right(gpuMap[c], g)
  BY <1>1 DEF CacheInv, SteadyInv, SteadyIsAttributed,
      Right, KnownJob, Namesakes
<1>6. QED
  BY <1>1, <1>2, <1>3, <1>4, <1>5, SampleCanBeAnswered, AnswerKeepsInv

(* The answer is used, and nothing of it is kept. *)
LEMMA UseKeepsInv ==
  ASSUME CacheInv, NEW c \in Calls, Use(c)
  PROVE  CacheInv'
<1>1. /\ pc' = [pc EXCEPT ![c] = "idle"] /\ gpuMap' = [gpuMap EXCEPT ![c] = EmptyMap]
      /\ err' = [err EXCEPT ![c] = "none"] /\ elapsed' = [elapsed EXCEPT ![c] = 0]
      /\ asked' = [asked EXCEPT ![c] = FALSE] /\ steady' = [steady EXCEPT ![c] = {}]
      /\ UNCHANGED <<alloc, running, elsewhere, refused, namedAge, file, jobIDs>>
  BY DEF Use, Goto, worldVars
<1>2. TypeOK'
  BY <1>1, EmptyMapType, OldAgeIsNat DEF CacheInv, TypeOK, Errors
<1>3. AgeInv'
  BY <1>1
  DEF CacheInv, TypeOK, AgeInv, NamedNow, SampleIsRecent, FileIsRecent, ReadIsValid,
      AttributionIsRecent, Named
<1>4. SteadyInv'
  BY <1>1
  DEF CacheInv, TypeOK, SteadyInv, NothingYet, SteadyIsAskedFor, SteadyIsAttributed,
      SteadyGpusAreRight,
      Right, KnownJob, Namesakes
<1>5. ErrorIsAnAnswer' /\ TornFileExpires'
  BY <1>1 DEF CacheInv, TypeOK, ErrorIsAnAnswer, TornFileExpires
<1>6. QED
  BY <1>2, <1>3, <1>4, <1>5 DEF CacheInv

-----------------------------------------------------------------------------
(* The steps that rewrite the file. *)

(* O_TRUNC: an empty file says nothing of any GPU. *)
LEMMA TruncateKeepsInv ==
  ASSUME CacheInv, NEW c \in Calls, Truncate(c)
  PROVE  CacheInv'
<1>0. OldAge \in Nat /\ CacheDuration \in Nat /\ CallTime \in Nat
  BY OldAgeIsNat
<1>1. /\ pc[c] = "truncate" /\ pc' = [pc EXCEPT ![c] = "write"]
      /\ file' = [exists |-> TRUE, age |-> 0, size |-> 0, data |-> EmptyMap, torn |-> FALSE]
      /\ UNCHANGED <<alloc, running, elsewhere, refused, namedAge, jobIDs, gpuMap, err, elapsed, asked, steady>>
  BY DEF Truncate, Goto, worldVars
<1>2. file' \in Files /\ file'.age = 0 /\ file'.exists /\ file'.data = EmptyMap
  BY <1>0, <1>1, EmptyMapType, SizeType DEF Files
<1>3. TypeOK'
  BY <1>1, <1>2 DEF CacheInv, TypeOK
<1>4. FileIsRecent'
  BY <1>2 DEF FileIsRecent, EmptyMap
<1>5. NamedNow' /\ SampleIsRecent' /\ AttributionIsRecent'
  BY <1>1 DEF CacheInv, TypeOK, AgeInv, NamedNow, SampleIsRecent, AttributionIsRecent, Named
<1>6. ReadIsValid' /\ TornFileExpires'
  BY <1>0, <1>1, <1>2
  DEF CacheInv, TypeOK, AgeInv, ReadIsValid, TornFileExpires
<1>7. SteadyInv'
  BY <1>1
  DEF CacheInv, TypeOK, SteadyInv, NothingYet, SteadyIsAskedFor, SteadyIsAttributed,
      SteadyGpusAreRight,
      Right, KnownJob, Namesakes
<1>8. ErrorIsAnAnswer'
  BY <1>1 DEF CacheInv, TypeOK, ErrorIsAnAnswer
<1>9. QED
  BY <1>3, <1>4, <1>5, <1>6, <1>7, <1>8 DEF CacheInv, AgeInv

(* The write: its map is a call old at most, whatever was written meanwhile. *)
LEMMA WriteKeepsInv ==
  ASSUME CacheInv, NEW c \in Calls, Write(c)
  PROVE  CacheInv'
<1>0. OldAge \in Nat /\ CacheDuration \in Nat /\ CallTime \in Nat
  BY OldAgeIsNat
<1>1. /\ pc[c] = "write" /\ Answer(c, gpuMap[c], "none")
      /\ UNCHANGED <<alloc, running, elsewhere, refused, namedAge, elapsed, asked, steady>>
  BY DEF Write, worldVars
<1>2. file' = [exists |-> TRUE, age |-> 0,
               size |-> Max({file.size, Size(gpuMap[c])}),
               data |-> gpuMap[c],
               torn |-> file.size > Size(gpuMap[c])]
  BY DEF Write
<1>3. gpuMap[c] \in Maps
      /\ \A g \in Gpu : gpuMap[c][g] # NoJob =>
           /\ namedAge[g][gpuMap[c][g]] <= CallTime
           /\ namedAge[g][gpuMap[c][g]] <= CacheDuration + 2 * CallTime
  BY <1>1, SampleCanBeAnswered
<1>4. file' \in Files /\ file'.age = 0 /\ file'.exists /\ file'.data = gpuMap[c]
  <2>1. file.size \in 0 .. 1 + Cardinality(Gpu) /\ Size(gpuMap[c]) \in 1 .. 1 + Cardinality(Gpu)
        /\ Cardinality(Gpu) \in Nat
    BY SizeType DEF CacheInv, TypeOK, Files
  <2>2. Max({file.size, Size(gpuMap[c])}) \in 0 .. 1 + Cardinality(Gpu)
    BY <2>1, MaxOfTwo
  <2>3. QED
    BY <1>0, <1>2, <1>3, <2>2 DEF Files
<1>5. FileIsRecent'
  BY <1>0, <1>1, <1>3, <1>4 DEF FileIsRecent
<1>6. 0 <= file.age /\ "none" \in Errors
  BY <1>0 DEF CacheInv, TypeOK, Files, Errors
<1>7. \A g \in steady[c] : Right(gpuMap[c], g)
  BY <1>1 DEF CacheInv, SteadyInv, SteadyIsAttributed,
      Right, KnownJob, Namesakes
<1>8. QED
  BY <1>1, <1>3, <1>4, <1>5, <1>6, <1>7, AnswerKeepsInv

-----------------------------------------------------------------------------
LEMMA CacheInvInit == Init => CacheInv
<1> SUFFICES ASSUME Init PROVE CacheInv
  OBVIOUS
<1>1. TypeOK
  BY TypeInit
<1>2. AgeInv
  BY DEF Init, AgeInv, NamedNow, SampleIsRecent, FileIsRecent, ReadIsValid,
         AttributionIsRecent, EmptyMap, Named
<1>3. SteadyInv /\ ErrorIsAnAnswer /\ TornFileExpires
  BY DEF Init, SteadyInv, NothingYet, SteadyIsAskedFor, SteadyIsAttributed,
         SteadyGpusAreRight, ErrorIsAnAnswer, TornFileExpires,
      Right, KnownJob, Namesakes
<1>4. QED
  BY <1>1, <1>2, <1>3 DEF CacheInv

LEMMA CacheInvNext == CacheInv /\ [Next]_vars => CacheInv'
<1> SUFFICES ASSUME CacheInv, [Next]_vars PROVE CacheInv'
  OBVIOUS
<1>1. ASSUME NEW j \in Job, JobStarts(j) \/ JobEnds(j) PROVE CacheInv'
  BY <1>1, WorldKeepsInv
<1>2. CASE Tick
  BY <1>2, TickKeepsInv
<1>3. ASSUME NEW c \in Calls, Step(c) PROVE CacheInv'
  BY <1>3, ListPidsKeepsInv, EarlyFailureKeepsInv, StatKeepsInv, ReadKeepsInv,
     QueryKeepsInv, FailureKeepsInv, TruncateKeepsInv, WriteKeepsInv, UseKeepsInv
  DEF Step
<1>4. CASE UNCHANGED vars
  <2>1. TypeOK'
    BY <1>4 DEF vars, worldVars, callVars, CacheInv, TypeOK
  <2>2. AgeInv'
    BY <1>4
    DEF vars, worldVars, callVars, CacheInv, AgeInv, NamedNow, SampleIsRecent, FileIsRecent, ReadIsValid,
        AttributionIsRecent, Named
  <2>3. SteadyInv' /\ ErrorIsAnAnswer' /\ TornFileExpires'
    BY <1>4
    DEF vars, worldVars, callVars, CacheInv, SteadyInv, NothingYet, SteadyIsAskedFor, SteadyIsAttributed,
        SteadyGpusAreRight, ErrorIsAnAnswer, TornFileExpires,
      Right, KnownJob, Namesakes
  <2>4. QED
    BY <2>1, <2>2, <2>3 DEF CacheInv
<1>5. QED
  BY <1>1, <1>2, <1>3, <1>4 DEF Next

(* The inductive invariant of the file and the calls. *)
THEOREM FileInvariance == Spec => []CacheInv
<1>1. Init => CacheInv
  BY CacheInvInit
<1>2. CacheInv /\ [Next]_vars => CacheInv'
  BY CacheInvNext
<1>3. QED
  BY <1>1, <1>2, PTL DEF Spec

(* The file, the calls and the node keep their types: no rewrite of the file *)
(* makes it longer than the map of all GPUs.                                 *)
THEOREM FileTypeOK == Spec => []TypeOK
<1>1. CacheInv => TypeOK
  BY DEF CacheInv
<1>2. QED
  BY <1>1, FileInvariance, PTL

(* For any number of pipelines that share the file, without a lock: no GPU   *)
(* is attributed to a job for which scontrol has not named it for longer     *)
(* than cache_duration and the time of two calls (config.go:24). Of a job of *)
(* this node alone that says that it held the GPU then.                      *)
THEOREM AttributionsAreRecent == Spec => []AttributionIsRecent
<1>1. CacheInv => AttributionIsRecent
  BY DEF CacheInv, AgeInv
<1>2. QED
  BY <1>1, FileInvariance, PTL

(* An answer that was collected job by job, while jobs come and go, is right *)
(* of every GPU whose allocation has not changed since the jobs were listed, *)
(* but for a job that holds a GPU of the same index on another node, and for *)
(* jobs that are skipped: their GPUs are attributed to none                  *)
(* (entrypoint.go:55-63, slurm_helpers.go:107-110 and 165-167).              *)
THEOREM SteadyAttributionsAreRight == Spec => []SteadyGpusAreRight
<1>1. CacheInv => SteadyGpusAreRight
  BY DEF CacheInv, SteadyInv
<1>2. QED
  BY <1>1, FileInvariance, PTL

(* A file that overlapping rewrites have torn is out of use once it is older *)
(* than cache_duration and a call (cache_helpers.go:24).                     *)
THEOREM TornFilesExpire == Spec => []TornFileExpires
<1>1. CacheInv => TornFileExpires
  BY DEF CacheInv
<1>2. QED
  BY <1>1, FileInvariance, PTL
=============================================================================
