------------------------- MODULE CollectionLoopProofs -------------------------
(***************************************************************************)
(* Proofs about CollectionLoop, for any options, tasks and records.        *)
(***************************************************************************)
EXTENDS CollectionLoop, FiniteSetTheorems, WellFoundedInduction, TLAPS

OptionsOK ==
  /\ wrapped \in BOOLEAN /\ once \in BOOLEAN /\ streams \in BOOLEAN /\ ignoring \in BOOLEAN
  /\ retries \in Nat /\ hint \in Nat

LoopTypeOK == TypeOK /\ OptionsOK

AtWork == pc \in {"pull", "write"}

(* The records a call of write may be given. *)
Given == IF Chunking THEN chunks[Len(chunks)] ELSE Positions

PullIsChunked == pc = "pull" => Chunking

(* Chunks are made of records that have been pulled, and none that waits in  *)
(* the chunk being built, or is still to be pulled, has reached the sink.    *)
ChunkIsBehind ==
  AtWork /\ Chunking =>
    /\ chunk \subseteq 1 .. next - 1
    /\ \A p \in Positions : p \in chunk \/ p >= next => delivered[p] = 0

(* The chunk that is written does not share a record with the next one.      *)
WrittenIsBehind ==
  pc = "write" /\ Chunking =>
    chunks # <<>> /\ Given \subseteq 1 .. next - 1 /\ Given \cap chunk = {}

(* While records are written, each has been delivered at most once per try.  *)
TriesAreCounted ==
  /\ wrapped => try = 0
  /\ pc = "write" => \A p \in Given : delivered[p] <= try

(* A record that was pulled has reached the sink or is in one of the two     *)
(* chunks, unless it was logged that one is lost.                            *)
NoneIsLost ==
  AtWork /\ Chunking =>
    logged \/ \A p \in 1 .. next - 1 :
                \/ p \in chunk \/ delivered[p] > 0
                \/ pc = "write" /\ p \in Given

(* Without a retry, a lazy iterable is read from its start. *)
LazyFromTheStart == pc = "write" /\ ~ Chunking /\ wrapped => next = 1

DeliveryInv ==
  /\ PullIsChunked /\ ChunkIsBehind /\ WrittenIsBehind /\ TriesAreCounted
  /\ NoneIsLost /\ LazyFromTheStart
  /\ DeliveredOncePerTry /\ LossIsLogged

-----------------------------------------------------------------------------
(* A task's records. *)

(* They are a sequence, no longer than the bound. *)
LEMMA SourceIsSequence ==
  ASSUME NEW s \in Sources
  PROVE  /\ s \in Seq(Sizes \cup {Invalid})
         /\ Len(s) \in Nat /\ Len(s) <= MaxRecords /\ DOMAIN s = 1 .. Len(s)
<1>1. PICK n \in 0 .. MaxRecords : s \in [1 .. n -> Sizes \cup {Invalid}]
  BY DEF Sources
<1>2. n \in Nat
  BY <1>1, BoundsAssumption
<1>3. QED
  BY <1>1, <1>2, BoundsAssumption

LEMMA NoRecordsIsASource == <<>> \in Sources
<1>1. <<>> \in [1 .. 0 -> Sizes \cup {Invalid}] /\ 0 \in 0 .. MaxRecords
  BY BoundsAssumption
<1>2. QED
  BY <1>1 DEF Sources

(* A set of numbers that is not empty has a least one. *)
LEMMA LeastNumber ==
  ASSUME NEW T, T \subseteq Nat, T # {}
  PROVE  Min(T) \in T /\ \A y \in T : Min(T) <= y
<1>1. PICK x \in T : \A y \in T : ~ (<<y, x>> \in OpToRel(<, Nat))
  BY WFMin, NatLessThanWellFounded
<1>2. \A y \in T : x <= y
  <2>1. SUFFICES ASSUME NEW y \in T, ~ (x <= y) PROVE FALSE
    OBVIOUS
  <2>2. y < x /\ y \in Nat /\ x \in Nat
    BY <2>1
  <2>3. <<y, x>> \in OpToRel(<, Nat)
    BY <2>2 DEF OpToRel
  <2>4. QED
    BY <1>1, <2>3
<1>3. QED
  BY <1>2 DEF Min

(* A lazy iterable ends at its end or at a record that cannot be made. *)
LEMMA StopIsNotBefore ==
  ASSUME TypeOK
  PROVE  /\ Stop \in next .. Len(source) + 1
         /\ \A p \in next .. Stop - 1 : ignoring \/ source[p] # Invalid
<1>1. Len(source) \in Nat /\ next \in Nat /\ next >= 1 /\ next <= Len(source) + 1
  BY SourceIsSequence DEF TypeOK
<1> DEFINE bad == { p \in next .. Len(source) : source[p] = Invalid }
<1>2. CASE ignoring \/ \A p \in next .. Len(source) : source[p] # Invalid
  <2>1. Stop = Len(source) + 1
    BY <1>2 DEF Stop
  <2>2. QED
    BY <1>1, <1>2, <2>1
<1>3. CASE ~ (ignoring \/ \A p \in next .. Len(source) : source[p] # Invalid)
  <2>1. Stop = Min(bad) /\ bad # {} /\ bad \subseteq Nat
    BY <1>1, <1>3 DEF Stop
  <2>2. Min(bad) \in bad /\ \A y \in bad : Min(bad) <= y
    BY <2>1, LeastNumber
  <2>3. Stop \in bad /\ \A y \in bad : Stop <= y
    BY <2>1, <2>2
  <2>4. Stop \in next .. Len(source)
    BY <2>3
  <2>5. ASSUME NEW p \in next .. Stop - 1 PROVE source[p] # Invalid
    <3>1. p \in next .. Len(source) /\ ~ (Stop <= p)
      BY <1>1, <2>4
    <3>2. p \notin bad
      BY <2>3, <3>1
    <3>3. QED
      BY <3>1, <3>2
  <2>6. QED
    BY <1>1, <2>4, <2>5
<1>4. QED
  BY <1>2, <1>3

-----------------------------------------------------------------------------
(* What a call of write may do. *)

(* It is given records of the task, ... *)
LEMMA BatchIsGiven ==
  ASSUME TypeOK, WrittenIsBehind, pc = "write"
  PROVE  /\ Batch \subseteq Positions /\ Batch \subseteq Given
         /\ Batch \subseteq 1 .. Len(source)
<1>1. /\ Len(source) \in Nat /\ Len(source) <= MaxRecords /\ MaxRecords \in Nat
      /\ next \in Nat /\ next >= 1 /\ next <= Len(source) + 1
  BY SourceIsSequence, BoundsAssumption DEF TypeOK
<1>2. CASE Chunking
  <2>1. Batch = Given /\ Given \subseteq 1 .. next - 1
    BY <1>2 DEF Batch, Given, WrittenIsBehind
  <2>2. 1 .. next - 1 \subseteq 1 .. Len(source) /\ 1 .. Len(source) \subseteq Positions
    BY <1>1 DEF Positions
  <2>3. QED
    BY <2>1, <2>2
<1>3. CASE ~ Chunking
  <2>1. Stop \in next .. Len(source) + 1
    BY StopIsNotBefore
  <2>2. Batch \subseteq next .. Stop - 1 /\ Given = Positions
    BY <1>3 DEF Batch, Given
  <2>3. next .. Stop - 1 \subseteq 1 .. Len(source) /\ 1 .. Len(source) \subseteq Positions
    BY <1>1, <2>1 DEF Positions
  <2>4. QED
    BY <2>2, <2>3
<1>4. QED
  BY <1>2, <1>3

(* ... and a sink that fails has taken some of them. *)
LEMMA FailureTakesSome ==
  ASSUME TypeOK, WrittenIsBehind, pc = "write", NEW w \in FailedWrites
  PROVE  w.took \subseteq Batch /\ w.read \in 0 .. Len(source)
<1>1. Len(source) \in Nat /\ Batch \subseteq 1 .. Len(source)
  BY SourceIsSequence, BatchIsGiven DEF TypeOK
<1>2. CASE streams
  <2>1. PICK c \in Batch : w = [took |-> { p \in Batch : p < c }, read |-> c]
    BY <1>2 DEF FailedWrites
  <2>2. w.took = { p \in Batch : p < c } /\ w.read = c
    BY <2>1
  <2>3. QED
    BY <1>1, <2>2
<1>3. CASE ~ streams
  <2>1. PICK b \in { ps \in {{}, Batch} : ReadsAll } : w = [took |-> b, read |-> Len(source)]
    BY <1>3 DEF FailedWrites
  <2>2. w.took = b /\ w.read = Len(source) /\ b \subseteq Batch
    BY <2>1
  <2>3. QED
    BY <1>1, <2>2
<1>4. QED
  BY <1>2, <1>3

(* What the sink takes is counted once. *)
LEMMA DeliverCounts ==
  ASSUME TypeOK, NEW ps, Deliver(ps)
  PROVE  /\ delivered' \in [Positions -> Nat]
         /\ \A p \in Positions : /\ p \in ps => delivered'[p] = delivered[p] + 1
                                 /\ p \notin ps => delivered'[p] = delivered[p]
  BY DEF TypeOK, Deliver

-----------------------------------------------------------------------------
(* Types. *)

LEMMA LoopTypeOKInit == Init => LoopTypeOK
<1> SUFFICES ASSUME Init PROVE LoopTypeOK
  OBVIOUS
<1>1. /\ wrapped \in BOOLEAN /\ retries \in Nat /\ hint \in Nat
      /\ 1 \in 1 .. MaxRounds /\ 1 \in 1 .. Tasks
  BY WrappedAssumption, RetriesAssumption, HintsAssumption, BoundsAssumption DEF Init
<1>2. source \in Sources /\ next \in 1 .. Len(source) + 1
  BY NoRecordsIsASource DEF Init
<1>3. chunk \subseteq Positions /\ chunkSize \in Nat /\ chunks \in Seq(SUBSET Positions)
  BY DEF Init, Brackets
<1>4. try \in 0 .. retries
  BY <1>1 DEF Init
<1>5. QED
  BY <1>1, <1>2, <1>3, <1>4 DEF Init, LoopTypeOK, TypeOK, OptionsOK

(* The loop's counters stay within their bounds. *)
LEMMA TaskDoneTypes ==
  ASSUME TypeOK, TaskDone
  PROVE  /\ round' \in 1 .. MaxRounds /\ task' \in 1 .. Tasks
         /\ pc' \in {"getData", "exited"} /\ status' \in {"running", "ok", "failed"}
<1>1. /\ round \in 1 .. MaxRounds /\ task \in 1 .. Tasks
      /\ MaxRounds \in Nat /\ Tasks \in Nat \ {0}
  BY BoundsAssumption DEF TypeOK
<1>2. CASE task < Tasks /\ task' = task + 1 /\ round' = round
  BY <1>1, <1>2 DEF TaskDone, TypeOK, Exit
<1>3. CASE UNCHANGED counters /\ Exit("ok")
  BY <1>1, <1>3 DEF counters, Exit
<1>4. CASE task = Tasks /\ round < MaxRounds /\ task' = 1 /\ round' = round + 1
  BY <1>1, <1>4 DEF TaskDone, TypeOK, Exit
<1>5. QED
  BY <1>2, <1>3, <1>4 DEF TaskDone

(* After a write comes the next chunk, or the next task. *)
LEMMA WrittenTypes ==
  ASSUME TypeOK, Written
  PROVE  /\ round' \in 1 .. MaxRounds /\ task' \in 1 .. Tasks
         /\ pc' \in {"getData", "pull", "exited"} /\ status' \in {"running", "ok", "failed"}
<1>1. CASE Chunking
  BY <1>1 DEF Written, counters, TypeOK
<1>2. CASE ~ Chunking
  BY <1>2, TaskDoneTypes DEF Written
<1>3. QED
  BY <1>1, <1>2

(* The options are read once. *)
LEMMA OptionsStay == [Next]_vars => UNCHANGED options
  BY DEF Next, GetData, GetNoData, GetDataRaises, SkipInvalid, PullRaises, Grow, YieldChunk,
         YieldLastChunk, ChunksEnd, WriteSucceeds, WriteFailsLogged, WriteRetries, WriteFails,
         WriteMeetsInvalid, vars

LEMMA LoopTypeOKNext ==
  ASSUME LoopTypeOK, WrittenIsBehind, [Next]_vars
  PROVE  LoopTypeOK'
<1> USE DEF LoopTypeOK
<1>1. OptionsOK' /\ UNCHANGED options
  BY OptionsStay DEF options, OptionsOK
<1>2. /\ source \in Sources /\ Len(source) \in Nat /\ Len(source) <= MaxRecords
      /\ DOMAIN source = 1 .. Len(source) /\ source \in Seq(Sizes \cup {Invalid})
      /\ MaxRecords \in Nat /\ next \in 1 .. Len(source) + 1
      /\ retries \in Nat /\ retries' = retries /\ hint' = hint
  BY <1>1, SourceIsSequence, BoundsAssumption DEF TypeOK, OptionsOK, options
<1>3. CASE GetData
  <2>1. source' \in Sources /\ next' = 1 /\ Len(source') \in Nat
    BY <1>3, SourceIsSequence DEF GetData
  <2>2. chunk' \subseteq Positions /\ chunkSize' \in Nat /\ chunks' \in Seq(SUBSET Positions)
    BY <1>3 DEF GetData, Brackets
  <2>3. delivered' \in [Positions -> Nat] /\ try' = 0
    BY <1>3 DEF GetData
  <2>4. next' \in 1 .. Len(source') + 1 /\ try' \in 0 .. retries'
    BY <1>2, <2>1, <2>3
  <2>5. pc' \in {"pull", "write"} /\ logged' = FALSE /\ UNCHANGED <<round, task, status>>
    BY <1>3 DEF GetData, counters
  <2>6. QED
    BY <1>1, <2>1, <2>2, <2>3, <2>4, <2>5 DEF TypeOK
<1>4. CASE GetNoData
  <2>1. source' \in Sources /\ next' = 1 /\ Len(source') = 0
    BY <1>4, NoRecordsIsASource DEF GetNoData
  <2>2. chunk' \subseteq Positions /\ chunkSize' \in Nat /\ chunks' \in Seq(SUBSET Positions)
    BY <1>4 DEF GetNoData, Brackets
  <2>3. delivered' \in [Positions -> Nat] /\ try' = 0 /\ logged' = FALSE
    BY <1>4 DEF GetNoData
  <2>4. next' \in 1 .. Len(source') + 1 /\ try' \in 0 .. retries'
    BY <1>2, <2>1, <2>3
  <2>5. /\ round' \in 1 .. MaxRounds /\ task' \in 1 .. Tasks
        /\ pc' \in {"getData", "exited"} /\ status' \in {"running", "ok", "failed"}
    BY <1>4, TaskDoneTypes DEF GetNoData
  <2>6. QED
    BY <1>1, <2>1, <2>2, <2>3, <2>4, <2>5 DEF TypeOK
<1>5. CASE GetDataRaises \/ PullRaises
  BY <1>1, <1>5 DEF GetDataRaises, PullRaises, Exit, TypeOK, counters, chunkVars, options
<1>6. CASE SkipInvalid
  BY <1>1, <1>2, <1>6
  DEF SkipInvalid, AtRecord, TypeOK, counters, chunkVars, options
<1>7. CASE Grow \/ YieldChunk
  <2>1. /\ AtRecord /\ source[next] # Invalid /\ next' = next + 1
        /\ try' \in {0, try} /\ pc' \in {"pull", "write"}
        /\ UNCHANGED <<counters, source, delivered, logged, status>>
    BY <1>7 DEF Grow, Grows, YieldChunk, AtRecord
  <2>2. next \in 1 .. Len(source) /\ source[next] \in Nat
    <3>1. next \in 1 .. Len(source)
      BY <1>2, <2>1 DEF AtRecord
    <3>2. source[next] \in Sizes \cup {Invalid}
      BY <1>2, <3>1
    <3>3. QED
      BY <2>1, <3>1, <3>2, SizesAssumption
  <2>3. next \in Positions
    BY <1>2, <2>2 DEF Positions
  <2>4. chunk' \subseteq Positions /\ chunks' \in Seq(SUBSET Positions)
    <3>1. chunk \in SUBSET Positions /\ chunks \in Seq(SUBSET Positions)
      BY DEF TypeOK
    <3>2. Append(chunks, chunk) \in Seq(SUBSET Positions)
      BY <3>1
    <3>3. QED
      BY <1>7, <2>3, <3>1, <3>2 DEF Grow, YieldChunk
  <2>5. chunkSize' \in Nat
    BY <1>7, <2>2 DEF Grow, YieldChunk, TypeOK, Separator, Brackets
  <2>6. next' \in 1 .. Len(source') + 1
    BY <1>2, <2>1, <2>2
  <2>7. QED
    BY <1>1, <1>2, <2>1, <2>4, <2>5, <2>6 DEF TypeOK, counters
<1>8. CASE YieldLastChunk
  <2>1. chunk' = {} /\ chunkSize' \in Nat /\ chunks' \in Seq(SUBSET Positions)
    BY <1>8 DEF YieldLastChunk, Brackets, TypeOK
  <2>2. QED
    BY <1>1, <1>2, <1>8, <2>1 DEF YieldLastChunk, TypeOK, counters, options
<1>9. CASE ChunksEnd
  BY <1>1, <1>2, <1>9, TaskDoneTypes DEF ChunksEnd, TypeOK, chunkVars, options
<1>10. CASE WriteSucceeds
  <2>1. delivered' \in [Positions -> Nat] /\ logged' \in BOOLEAN
    BY <1>10, DeliverCounts DEF WriteSucceeds, TypeOK
  <2>2. next' \in 1 .. Len(source) + 1
    BY <1>2, <1>10 DEF WriteSucceeds
  <2>3. QED
    BY <1>1, <1>2, <1>10, <2>1, <2>2, WrittenTypes DEF WriteSucceeds, TypeOK, chunkVars
<1>11. CASE WriteFailsLogged
  <2>1. delivered' \in [Positions -> Nat]
    BY <1>11, DeliverCounts DEF WriteFailsLogged
  <2>2. QED
    BY <1>1, <1>2, <1>11, <2>1, WrittenTypes DEF WriteFailsLogged, TypeOK, chunkVars
<1>12. CASE WriteRetries
  <2>1. PICK w \in FailedWrites : Deliver(w.took) /\ next' \in {next, w.read + 1}
    BY <1>12 DEF WriteRetries
  <2>2. w.read \in 0 .. Len(source)
    BY <1>12, <2>1, FailureTakesSome DEF WriteRetries
  <2>3. next' \in 1 .. Len(source) + 1 /\ delivered' \in [Positions -> Nat]
    BY <1>2, <2>1, <2>2, DeliverCounts
  <2>4. try' \in 0 .. retries
    BY <1>2, <1>12 DEF WriteRetries, TypeOK
  <2>5. QED
    BY <1>1, <1>2, <1>12, <2>3, <2>4 DEF WriteRetries, TypeOK, chunkVars, counters
<1>13. CASE WriteFails
  <2>1. delivered' \in [Positions -> Nat]
    BY <1>13, DeliverCounts DEF WriteFails
  <2>2. QED
    BY <1>1, <1>2, <1>13, <2>1 DEF WriteFails, Exit, TypeOK, chunkVars, counters
<1>14. CASE WriteMeetsInvalid
  <2>1. delivered' \in [Positions -> Nat]
    BY <1>14, DeliverCounts DEF WriteMeetsInvalid
  <2>2. next' \in 1 .. Len(source) + 1
    BY <1>2, <1>14 DEF WriteMeetsInvalid
  <2>3. /\ round' \in 1 .. MaxRounds /\ task' \in 1 .. Tasks
        /\ pc' \in {"getData", "pull", "exited"} /\ status' \in {"running", "ok", "failed"}
        /\ logged' \in BOOLEAN
    BY <1>14, WrittenTypes DEF WriteMeetsInvalid, Exit, TypeOK, counters
  <2>4. QED
    BY <1>1, <1>2, <1>14, <2>1, <2>2, <2>3 DEF WriteMeetsInvalid, TypeOK, chunkVars
<1>15. CASE UNCHANGED vars
  BY <1>1, <1>15 DEF vars, TypeOK, counters, chunkVars, options
<1>16. QED
  BY <1>3, <1>4, <1>5, <1>6, <1>7, <1>8, <1>9, <1>10, <1>11, <1>12, <1>13, <1>14, <1>15
  DEF Next

-----------------------------------------------------------------------------
(* Deliveries. *)

LEMMA DeliveryInvInit == Init => DeliveryInv
<1> SUFFICES ASSUME Init PROVE DeliveryInv
  OBVIOUS
<1>1. retries \in Nat /\ pc = "getData" /\ source = <<>> /\ try = 0
      /\ \A p \in Positions : delivered[p] = 0
  BY RetriesAssumption DEF Init
<1>2. DeliveredOncePerTry
  BY <1>1 DEF DeliveredOncePerTry
<1>3. DOMAIN source = {}
  BY <1>1
<1>4. QED
  BY <1>1, <1>2, <1>3
  DEF DeliveryInv, PullIsChunked, ChunkIsBehind, WrittenIsBehind, TriesAreCounted,
      NoneIsLost, LazyFromTheStart, LossIsLogged, AtWork

(* Once a task is over nothing is at work, and only its losses matter. *)
LEMMA OverIsQuiet ==
  ASSUME DeliveredOncePerTry', wrapped' => try' = 0, pc' \in {"getData", "exited"},
         LossIsLogged'
  PROVE  DeliveryInv'
  BY DEF DeliveryInv, PullIsChunked, ChunkIsBehind, WrittenIsBehind, TriesAreCounted,
         NoneIsLost, LazyFromTheStart, AtWork

(* A write, whatever the sink takes of its records: no more than one of each *)
(* record of this write, none of any other.                                  *)
LEMMA WriteCounts ==
  ASSUME LoopTypeOK, DeliveryInv, pc = "write", UNCHANGED options,
         NEW ps, ps \subseteq Batch, Deliver(ps)
  PROVE  /\ DeliveredOncePerTry'
         /\ Chunking => \A p \in Positions : p \in chunk \/ p >= next => delivered'[p] = 0
         /\ \A p \in Given : delivered'[p] <= try + 1
         /\ \A p \in Positions : delivered[p] > 0 \/ p \in ps => delivered'[p] > 0
<1>1. /\ delivered \in [Positions -> Nat] /\ try \in Nat /\ try <= retries /\ retries \in Nat
      /\ wrapped' = wrapped /\ retries' = retries /\ wrapped \in BOOLEAN
  BY DEF LoopTypeOK, TypeOK, OptionsOK, options
<1>2. ps \subseteq Positions /\ ps \subseteq Given
  BY BatchIsGiven DEF LoopTypeOK, DeliveryInv
<1>3. /\ delivered' \in [Positions -> Nat]
      /\ \A p \in Positions : /\ p \in ps => delivered'[p] = delivered[p] + 1
                              /\ p \notin ps => delivered'[p] = delivered[p]
  BY DeliverCounts DEF LoopTypeOK
<1>4. \A p \in Given : delivered[p] <= try
  BY DEF DeliveryInv, TriesAreCounted
<1>5. Given \subseteq Positions
  <2>1. CASE Chunking
    <3>1. Given = Batch
      BY <2>1 DEF Given, Batch
    <3>2. QED
      BY <3>1, BatchIsGiven DEF LoopTypeOK, DeliveryInv
  <2>2. CASE ~ Chunking
    BY <2>2 DEF Given
  <2>3. QED
    BY <2>1, <2>2
<1>6. \A p \in Given : delivered'[p] <= try + 1
  BY <1>1, <1>3, <1>4, <1>5
<1>7. ASSUME NEW p \in Positions
      PROVE  delivered'[p] <= IF wrapped THEN 1 ELSE retries + 1
  <2>1. CASE p \in ps
    <3>1. delivered'[p] <= try + 1 /\ delivered'[p] \in Nat
      BY <1>2, <1>3, <1>6, <2>1
    <3>2. wrapped => try = 0
      BY DEF DeliveryInv, TriesAreCounted
    <3>3. QED
      BY <1>1, <3>1, <3>2
  <2>2. CASE p \notin ps
    BY <1>3, <2>2 DEF DeliveryInv, DeliveredOncePerTry
  <2>3. QED
    BY <2>1, <2>2
<1>8. DeliveredOncePerTry'
  BY <1>1, <1>7 DEF DeliveredOncePerTry, Positions
<1>9. ASSUME Chunking, NEW p \in Positions, p \in chunk \/ p >= next
      PROVE  delivered'[p] = 0
  <2>1. Given \subseteq 1 .. next - 1 /\ Given \cap chunk = {}
    BY <1>9 DEF DeliveryInv, WrittenIsBehind
  <2>2. next \in Int
    BY SourceIsSequence DEF LoopTypeOK, TypeOK
  <2>3. p \notin ps
    BY <1>2, <1>9, <2>1, <2>2
  <2>4. delivered[p] = 0
    BY <1>9 DEF DeliveryInv, ChunkIsBehind, AtWork
  <2>5. QED
    BY <1>3, <2>3, <2>4
<1>10. \A p \in Positions : delivered[p] > 0 \/ p \in ps => delivered'[p] > 0
  BY <1>1, <1>3
<1>11. QED
  BY <1>6, <1>8, <1>9, <1>10

(* Pulling records moves them into chunks. *)
LEMMA PullKeepsDelivery ==
  ASSUME LoopTypeOK, DeliveryInv,
         SkipInvalid \/ Grow \/ YieldChunk \/ YieldLastChunk
  PROVE  DeliveryInv'
<1> USE DEF DeliveryInv
<1>1. /\ pc = "pull" /\ Chunking /\ AtWork
      /\ wrapped' = wrapped /\ retries' = retries /\ hint' = hint /\ Chunking'
      /\ source' = source /\ delivered' = delivered
  BY DEF SkipInvalid, Grow, YieldChunk, YieldLastChunk, AtRecord, AtWork, PullIsChunked,
         options, Chunking
<1>2. /\ next \in Nat /\ next >= 1 /\ next' \in {next, next + 1}
      /\ chunks \in Seq(SUBSET Positions) /\ delivered \in [Positions -> Nat]
  BY SourceIsSequence
  DEF LoopTypeOK, TypeOK, SkipInvalid, Grow, YieldChunk, YieldLastChunk
<1>3. pc' \in {"pull", "write"} /\ try' \in {0, try}
  BY DEF SkipInvalid, Grow, YieldChunk, YieldLastChunk, AtRecord
<1>4. PullIsChunked' /\ LazyFromTheStart' /\ LossIsLogged' /\ DeliveredOncePerTry'
  BY <1>1, <1>3
  DEF PullIsChunked, LazyFromTheStart, LossIsLogged, TaskOver, DeliveredOncePerTry
<1>5. /\ chunk \subseteq 1 .. next - 1
      /\ \A p \in Positions : p \in chunk \/ p >= next => delivered[p] = 0
  BY <1>1 DEF ChunkIsBehind
<1>6. \/ chunk' = chunk /\ next' = next + 1 /\ logged' = TRUE
      \/ chunk' = chunk \cup {next} /\ next' = next + 1
      \/ chunk' = {next} /\ next' = next + 1
      \/ chunk' = {} /\ next' = next
  BY DEF SkipInvalid, Grow, YieldChunk, YieldLastChunk, chunkVars
<1>7. chunk' \subseteq chunk \cup {next} /\ next \notin chunk
  BY <1>2, <1>5, <1>6
<1>8. ChunkIsBehind'
  <2>1. chunk' \subseteq 1 .. next' - 1
    <3>1. CASE next' = next
      BY <1>2, <1>5, <1>6, <3>1
    <3>2. CASE next' = next + 1
      <4>1. next' - 1 = next /\ next \in 1 .. next /\ 1 .. next - 1 \subseteq 1 .. next
        BY <1>2, <3>2
      <4>2. QED
        BY <1>5, <1>7, <4>1
    <3>3. QED
      BY <1>2, <3>1, <3>2
  <2>2. ASSUME NEW p \in Positions, p \in chunk' \/ p >= next' PROVE delivered'[p] = 0
    <3>1. p \in chunk \/ p >= next
      BY <1>2, <1>7, <2>2 DEF Positions
    <3>2. QED
      BY <1>1, <1>5, <3>1
  <2>3. QED
    BY <2>1, <2>2 DEF ChunkIsBehind, Positions
<1>9. CASE SkipInvalid \/ Grow
  <2>1. pc' = "pull" /\ chunks' = chunks /\ try' = try
    BY <1>9 DEF SkipInvalid, Grow, AtRecord, chunkVars
  <2>2. WrittenIsBehind' /\ TriesAreCounted'
    BY <1>1, <2>1 DEF WrittenIsBehind, TriesAreCounted
  <2>3. logged' \/ (logged' = logged /\ chunk' = chunk \cup {next} /\ next' = next + 1)
    BY <1>9 DEF SkipInvalid, Grow
  <2>4. NoneIsLost'
    <3>1. SUFFICES ASSUME ~ logged', NEW p \in 1 .. next' - 1
                   PROVE  p \in chunk' \/ delivered'[p] > 0
      BY DEF NoneIsLost
    <3>2. ~ logged /\ chunk' = chunk \cup {next} /\ next' = next + 1
      BY <2>3, <3>1
    <3>3. CASE p = next
      BY <3>2, <3>3
    <3>4. CASE p # next
      <4>1. p \in 1 .. next - 1
        BY <1>2, <3>1, <3>2, <3>4
      <4>2. p \in chunk \/ delivered[p] > 0
        BY <1>1, <3>2, <4>1 DEF NoneIsLost
      <4>3. QED
        BY <1>1, <3>2, <4>2
    <3>5. QED
      BY <3>3, <3>4
  <2>5. QED
    BY <1>4, <1>8, <2>2, <2>4
<1>10. CASE YieldChunk \/ YieldLastChunk
  <2>1. /\ pc' = "write" /\ chunks' = Append(chunks, chunk) /\ try' = 0 /\ logged' = logged
        /\ chunk' \subseteq {next}
        /\ chunk' = {next} \/ next' = next
    BY <1>10 DEF YieldChunk, YieldLastChunk
  <2>2. Given' = chunk /\ chunks' # <<>>
    <3>1. chunks'[Len(chunks')] = chunk /\ chunks' # <<>>
      BY <1>2, <2>1
    <3>2. QED
      BY <1>1, <3>1 DEF Given
  <2>3. Given' \cap chunk' = {} /\ Given' \subseteq 1 .. next' - 1
    <3>1. 1 .. next - 1 \subseteq 1 .. next' - 1
      <4>1. next \in Nat /\ next' \in Nat /\ next <= next'
        BY <1>2
      <4>2. \A m, n \in Nat : m <= n => 1 .. m - 1 \subseteq 1 .. n - 1
        OBVIOUS
      <4>3. QED
        BY <4>1, <4>2
    <3>2. QED
      BY <1>5, <1>7, <2>1, <2>2, <3>1
  <2>4. WrittenIsBehind'
    BY <2>2, <2>3 DEF WrittenIsBehind
  <2>5. TriesAreCounted'
    <3>1. chunk \subseteq Positions
      BY DEF LoopTypeOK, TypeOK
    <3>2. QED
      BY <1>1, <1>5, <2>1, <2>2, <3>1 DEF TriesAreCounted
  <2>6. NoneIsLost'
    <3>1. SUFFICES ASSUME ~ logged', NEW p \in 1 .. next' - 1
                   PROVE  p \in chunk' \/ delivered'[p] > 0 \/ p \in Given'
      BY <2>1 DEF NoneIsLost
    <3>2. p \in chunk' \/ p \in 1 .. next - 1
      <4>1. CASE next' = next
        BY <3>1, <4>1
      <4>2. CASE next' # next
        <5>1. chunk' = {next} /\ next' = next + 1
          BY <1>2, <2>1, <4>2
        <5>2. p = next \/ p \in 1 .. next - 1
          BY <1>2, <3>1, <5>1
        <5>3. QED
          BY <5>1, <5>2
      <4>3. QED
        BY <4>1, <4>2
    <3>3. p \in 1 .. next - 1 => p \in chunk \/ delivered[p] > 0
      BY <1>1, <2>1, <3>1 DEF NoneIsLost
    <3>4. QED
      BY <1>1, <2>2, <3>2, <3>3
  <2>7. QED
    BY <1>4, <1>8, <2>4, <2>5, <2>6
<1>11. QED
  BY <1>9, <1>10

(* The loop goes on after the last chunk, when no record is left. *)
LEMMA ChunksEndKeepsDelivery ==
  ASSUME LoopTypeOK, DeliveryInv, ChunksEnd
  PROVE  DeliveryInv'
<1>1. /\ pc' \in {"getData", "exited"} /\ wrapped' = wrapped /\ try' = try
      /\ source' = source /\ delivered' = delivered /\ logged' = logged
      /\ retries' = retries /\ pc = "pull" /\ next > Len(source) /\ chunk = {}
  BY TaskDoneTypes DEF ChunksEnd, LoopTypeOK, options
<1>2. DeliveredOncePerTry' /\ (wrapped' => try' = 0)
  BY <1>1 DEF DeliveryInv, DeliveredOncePerTry, TriesAreCounted
<1>3. 1 .. next - 1 = DOMAIN source
  BY <1>1, SourceIsSequence DEF LoopTypeOK, TypeOK
<1>4. logged \/ \A p \in DOMAIN source : delivered[p] > 0
  BY <1>1, <1>3 DEF DeliveryInv, NoneIsLost, PullIsChunked, AtWork
<1>5. LossIsLogged'
  BY <1>1, <1>4 DEF LossIsLogged
<1>6. QED
  BY <1>1, <1>2, <1>5, OverIsQuiet

(* A write that ends leaves its records delivered or its failure logged. *)
LEMMA WriteKeepsDelivery ==
  ASSUME LoopTypeOK, DeliveryInv,
         WriteSucceeds \/ WriteFailsLogged \/ WriteMeetsInvalid
  PROVE  DeliveryInv'
<1>1. /\ pc = "write" /\ UNCHANGED options /\ source' = source
      /\ UNCHANGED <<chunk, chunks, try>>
      /\ wrapped' = wrapped /\ retries' = retries /\ hint' = hint
  BY DEF WriteSucceeds, WriteFailsLogged, WriteMeetsInvalid, options, chunkVars
<1>2. PICK ps : ps \subseteq Batch /\ Deliver(ps) /\ (WriteSucceeds => ps = Batch)
  <2>1. CASE WriteSucceeds
    BY <2>1 DEF WriteSucceeds
  <2>2. CASE ~ WriteSucceeds /\ WriteFailsLogged
    <3>1. PICK w \in FailedWrites : Deliver(w.took)
      BY <2>2 DEF WriteFailsLogged
    <3>2. w.took \subseteq Batch
      BY <1>1, FailureTakesSome DEF LoopTypeOK, DeliveryInv
    <3>3. QED
      BY <2>2, <3>1, <3>2
  <2>3. CASE ~ WriteSucceeds /\ WriteMeetsInvalid
    <3>1. Deliver(IF streams THEN Batch ELSE {})
      BY <2>3 DEF WriteMeetsInvalid
    <3>2. CASE streams
      BY <2>3, <3>1, <3>2
    <3>3. CASE ~ streams
      BY <2>3, <3>1, <3>3
    <3>4. QED
      BY <3>2, <3>3
  <2>4. QED
    BY <2>1, <2>2, <2>3
<1>3. /\ DeliveredOncePerTry'
      /\ Chunking => \A p \in Positions : p \in chunk \/ p >= next => delivered'[p] = 0
      /\ \A p \in Positions : delivered[p] > 0 \/ p \in ps => delivered'[p] > 0
  BY <1>1, <1>2, WriteCounts
<1>4. wrapped' => try' = 0
  BY <1>1 DEF DeliveryInv, TriesAreCounted
<1>5. /\ Len(source) \in Nat /\ DOMAIN source = 1 .. Len(source)
      /\ next \in 1 .. Len(source) + 1 /\ 1 .. Len(source) \subseteq Positions
  BY SourceIsSequence, BoundsAssumption DEF LoopTypeOK, TypeOK, Positions
<1>6. CASE Chunking
  <2>1. /\ pc' = "pull" /\ next' = next /\ ~ WriteMeetsInvalid
    BY <1>6
    DEF WriteSucceeds, WriteFailsLogged, WriteMeetsInvalid, Written, ReadsAll
  <2>2. Chunking'
    BY <1>1, <1>6 DEF Chunking
  <2>3. ChunkIsBehind'
    <3>1. chunk \subseteq 1 .. next - 1
      BY <1>1, <1>6 DEF DeliveryInv, ChunkIsBehind, AtWork
    <3>2. QED
      BY <1>1, <1>3, <1>6, <2>1, <3>1 DEF ChunkIsBehind, Positions
  <2>4. NoneIsLost'
    <3>1. SUFFICES ASSUME ~ logged', NEW p \in 1 .. next' - 1
                   PROVE  p \in chunk' \/ delivered'[p] > 0
      BY DEF NoneIsLost
    <3>2. WriteSucceeds /\ ~ logged
      BY <2>1, <3>1 DEF WriteSucceeds, WriteFailsLogged
    <3>3. p \in 1 .. next - 1 /\ p \in Positions
      BY <1>5, <2>1, <3>1
    <3>4. p \in chunk \/ delivered[p] > 0 \/ p \in Given
      BY <1>1, <1>6, <3>2, <3>3 DEF DeliveryInv, NoneIsLost, AtWork
    <3>5. Given = ps
      BY <1>2, <1>6, <3>2 DEF Given, Batch
    <3>6. QED
      BY <1>1, <1>3, <3>3, <3>4, <3>5
  <2>5. QED
    BY <1>3, <1>4, <2>1, <2>2, <2>3, <2>4
    DEF DeliveryInv, PullIsChunked, WrittenIsBehind, TriesAreCounted, LazyFromTheStart,
        LossIsLogged, TaskOver
<1>7. CASE ~ Chunking
  <2>1. \/ TaskDone
        \/ Exit("failed") /\ UNCHANGED counters
    BY <1>7 DEF WriteSucceeds, WriteFailsLogged, WriteMeetsInvalid, Written
  <2>2. pc' \in {"getData", "exited"}
    BY <2>1, TaskDoneTypes DEF LoopTypeOK, Exit
  <2>3. LossIsLogged'
    <3>1. SUFFICES ASSUME TaskOver', wrapped' \/ Chunking', ~ logged',
                          NEW p \in DOMAIN source'
                   PROVE  delivered'[p] > 0
      BY DEF LossIsLogged
    <3>2. wrapped
      BY <1>1, <1>7, <3>1 DEF Chunking
    <3>3. WriteSucceeds
      BY <3>1, <3>2 DEF WriteSucceeds, WriteFailsLogged, WriteMeetsInvalid
    <3>4. next = 1
      BY <1>1, <1>7, <3>2 DEF DeliveryInv, LazyFromTheStart
    <3>5. Stop > Len(source) /\ source[p] # Invalid
      BY <1>1, <1>5, <1>7, <3>1, <3>3, <3>4 DEF WriteSucceeds, ReadsAll
    <3>6. Stop = Len(source) + 1
      BY <1>5, <3>5, StopIsNotBefore DEF LoopTypeOK
    <3>7. p \in next .. Stop - 1 /\ p \in Positions
      BY <1>1, <1>5, <3>1, <3>4, <3>6
    <3>8. p \in Batch
      BY <1>7, <3>5, <3>7 DEF Batch
    <3>9. QED
      BY <1>2, <1>3, <3>3, <3>7, <3>8
  <2>4. QED
    BY <1>3, <1>4, <2>2, <2>3, OverIsQuiet
<1>8. QED
  BY <1>6, <1>7

(* A write that is tried again counts the try. *)
LEMMA RetryKeepsDelivery ==
  ASSUME LoopTypeOK, DeliveryInv, WriteRetries
  PROVE  DeliveryInv'
<1>1. /\ pc = "write" /\ pc' = "write" /\ UNCHANGED options /\ source' = source
      /\ UNCHANGED <<chunk, chunks, logged>> /\ try' = try + 1 /\ ~ wrapped /\ ~ wrapped'
      /\ hint' = hint
  BY DEF WriteRetries, options, chunkVars
<1>2. PICK w \in FailedWrites : /\ Deliver(w.took)
                                /\ Chunking => next' = next
  BY DEF WriteRetries
<1>3. w.took \subseteq Batch
  BY <1>1, FailureTakesSome DEF LoopTypeOK, DeliveryInv
<1>4. /\ DeliveredOncePerTry'
      /\ Chunking => \A p \in Positions : p \in chunk \/ p >= next => delivered'[p] = 0
      /\ \A p \in Given : delivered'[p] <= try + 1
      /\ \A p \in Positions : delivered[p] > 0 => delivered'[p] > 0
  BY <1>1, <1>2, <1>3, WriteCounts
<1>5. (Chunking <=> Chunking') /\ Given' = Given
  BY <1>1 DEF Chunking, Given, Positions
<1>6. TriesAreCounted'
  BY <1>1, <1>4, <1>5 DEF TriesAreCounted
<1>7. CASE Chunking
  <2>1. ChunkIsBehind' /\ WrittenIsBehind'
    BY <1>1, <1>2, <1>4, <1>5, <1>7
    DEF DeliveryInv, ChunkIsBehind, WrittenIsBehind, AtWork, Positions
  <2>2. NoneIsLost'
    <3>1. 1 .. next - 1 \subseteq Positions
      BY SourceIsSequence, BoundsAssumption DEF LoopTypeOK, TypeOK, Positions
    <3>2. QED
      BY <1>1, <1>2, <1>4, <1>5, <1>7, <3>1 DEF DeliveryInv, NoneIsLost, AtWork
  <2>3. QED
    BY <1>1, <1>4, <1>5, <1>6, <1>7, <2>1, <2>2
    DEF DeliveryInv, PullIsChunked, LazyFromTheStart, LossIsLogged, TaskOver
<1>8. CASE ~ Chunking
  BY <1>1, <1>4, <1>5, <1>6, <1>8
  DEF DeliveryInv, PullIsChunked, ChunkIsBehind, WrittenIsBehind, NoneIsLost,
      LazyFromTheStart, LossIsLogged, TaskOver
<1>9. QED
  BY <1>7, <1>8

(* Whatever else a step does, a failed command owes nothing any more. *)
LEMMA FailureKeepsDelivery ==
  ASSUME LoopTypeOK, DeliveryInv, GetDataRaises \/ PullRaises \/ WriteFails
  PROVE  DeliveryInv'
<1>1. /\ pc' = "exited" /\ status' = "failed" /\ try' = try
      /\ wrapped' = wrapped /\ retries' = retries /\ UNCHANGED options
  BY DEF GetDataRaises, PullRaises, WriteFails, Exit, options
<1>2. DeliveredOncePerTry'
  <2>1. CASE GetDataRaises \/ PullRaises
    <3>1. delivered' = delivered
      BY <2>1 DEF GetDataRaises, PullRaises
    <3>2. QED
      BY <1>1, <3>1 DEF DeliveryInv, DeliveredOncePerTry
  <2>2. CASE WriteFails
    <3>1. PICK w \in FailedWrites : Deliver(w.took)
      BY <2>2 DEF WriteFails
    <3>2. pc = "write" /\ w.took \subseteq Batch
      BY <2>2, FailureTakesSome DEF LoopTypeOK, DeliveryInv, WriteFails
    <3>3. QED
      BY <1>1, <3>1, <3>2, WriteCounts
  <2>3. QED
    BY <2>1, <2>2
<1>3. (wrapped' => try' = 0) /\ LossIsLogged'
  BY <1>1 DEF DeliveryInv, TriesAreCounted, LossIsLogged, TaskOver
<1>4. QED
  BY <1>1, <1>2, <1>3, OverIsQuiet

(* A task's records begin undelivered. *)
LEMMA GettingKeepsDelivery ==
  ASSUME LoopTypeOK, DeliveryInv, GetData \/ GetNoData
  PROVE  DeliveryInv'
<1>1. /\ try' = 0 /\ next' = 1 /\ chunk' = {} /\ chunks' = <<>>
      /\ delivered' = [p \in Positions |-> 0]
      /\ wrapped' = wrapped /\ retries' = retries /\ hint' = hint /\ retries \in Nat
  BY DEF GetData, GetNoData, LoopTypeOK, OptionsOK, options
<1>2. DeliveredOncePerTry'
  BY <1>1 DEF DeliveredOncePerTry, Positions
<1>3. CASE GetData
  <2>1. pc' = (IF Chunking THEN "pull" ELSE "write") /\ (Chunking <=> Chunking')
    BY <1>1, <1>3 DEF GetData, Chunking
  <2>2. ~ Chunking => Given' = Positions
    BY <2>1 DEF Given, Positions
  <2>3. PullIsChunked' /\ WrittenIsBehind' /\ LazyFromTheStart' /\ LossIsLogged'
    BY <1>1, <2>1
    DEF PullIsChunked, WrittenIsBehind, LazyFromTheStart, LossIsLogged, TaskOver
  <2>4. ChunkIsBehind' /\ NoneIsLost'
    <3>1. 1 .. next' - 1 = {}
      BY <1>1
    <3>2. QED
      BY <1>1, <3>1 DEF ChunkIsBehind, NoneIsLost, Positions
  <2>5. TriesAreCounted'
    <3>1. ASSUME pc' = "write", NEW p \in Given' PROVE delivered'[p] <= try'
      <4>1. p \in Positions
        BY <2>1, <2>2, <3>1
      <4>2. delivered'[p] = 0
        BY <1>1, <4>1
      <4>3. QED
        BY <1>1, <4>2
    <3>2. QED
      BY <1>1, <3>1 DEF TriesAreCounted
  <2>6. QED
    BY <1>2, <2>3, <2>4, <2>5 DEF DeliveryInv
<1>4. CASE GetNoData
  <2>1. pc' \in {"getData", "exited"} /\ source' = <<>>
    BY <1>4, TaskDoneTypes DEF GetNoData, LoopTypeOK
  <2>2. DOMAIN source' = {}
    BY <2>1
  <2>3. LossIsLogged'
    BY <2>2 DEF LossIsLogged
  <2>4. QED
    BY <1>1, <1>2, <2>1, <2>3, OverIsQuiet
<1>5. QED
  BY <1>3, <1>4

LEMMA DeliveryInvNext ==
  ASSUME LoopTypeOK, DeliveryInv, [Next]_vars
  PROVE  DeliveryInv'
<1>1. CASE GetData \/ GetNoData
  BY <1>1, GettingKeepsDelivery
<1>2. CASE SkipInvalid \/ Grow \/ YieldChunk \/ YieldLastChunk
  BY <1>2, PullKeepsDelivery
<1>3. CASE ChunksEnd
  BY <1>3, ChunksEndKeepsDelivery
<1>4. CASE WriteSucceeds \/ WriteFailsLogged \/ WriteMeetsInvalid
  BY <1>4, WriteKeepsDelivery
<1>5. CASE WriteRetries
  BY <1>5, RetryKeepsDelivery
<1>6. CASE GetDataRaises \/ PullRaises \/ WriteFails
  BY <1>6, FailureKeepsDelivery
<1>7. CASE UNCHANGED vars
  BY <1>7
  DEF vars, options, counters, chunkVars, DeliveryInv, PullIsChunked, ChunkIsBehind,
      WrittenIsBehind, TriesAreCounted, NoneIsLost, LazyFromTheStart, LossIsLogged, TaskOver,
      DeliveredOncePerTry, AtWork, Given, Chunking
<1>8. QED
  BY <1>1, <1>2, <1>3, <1>4, <1>5, <1>6, <1>7 DEF Next

-----------------------------------------------------------------------------
(* Sums over finite sets: that MapThenSumSet adds up, in whatever order.     *)

Total(f, S) == MapThenSumSet(LAMBDA p : f[p], S)

SomeOf(s) == CHOOSE x \in s : TRUE
SumStep(f, g, s) == IF s = {} THEN 0 ELSE f[SomeOf(s)] + g[s \ {SomeOf(s)}]

(* g adds up f over each set of D, one element after the other. *)
AddsUp(f, g, D) == g = [s \in D |-> SumStep(f, g, s)]

LEMMA TotalIsChosen ==
  ASSUME NEW f, NEW S
  PROVE  Total(f, S) = (CHOOSE g : AddsUp(f, g, SUBSET S))[S]
  BY DEF Total, MapThenSumSet, MapThenFoldSet, AddsUp, SumStep, SomeOf

LEMMA SomeOfIsOne == \A s : s # {} => SomeOf(s) \in s
  BY DEF SomeOf

(* Such a function exists: it is built set by larger set. *)
LEMMA SumExists ==
  ASSUME NEW f, NEW S, IsFiniteSet(S)
  PROVE  \E g : AddsUp(f, g, SUBSET S)
<1> DEFINE Sub(n) == { s \in SUBSET S : Cardinality(s) <= n }
           bad == { n \in Nat : ~ \E g : AddsUp(f, g, Sub(n)) }
<1>1. \A s \in SUBSET S : IsFiniteSet(s) /\ Cardinality(s) \in Nat
  BY FS_Subset, FS_CardinalityType
<1>2. ASSUME bad # {} PROVE FALSE
  <2>1. PICK n \in bad : \A m \in bad : n <= m
    <3>1. bad \subseteq Nat
      OBVIOUS
    <3>2. Min(bad) \in bad /\ \A y \in bad : Min(bad) <= y
      BY <1>2, <3>1, LeastNumber
    <3>3. QED
      BY <3>2
  <2>2. n \in Nat
    OBVIOUS
  <2>3. PICK g : \A s \in Sub(n) : s # {} =>
                   g[s \ {SomeOf(s)}] = SumStep(f, g, s \ {SomeOf(s)})
    <3>1. CASE n = 0
      <4>1. \A s \in Sub(n) : s = {}
        BY <1>1, <3>1, FS_EmptySet
      <4>2. QED
        BY <4>1
    <3>2. CASE n # 0
      <4>1. n - 1 \in Nat /\ n - 1 \notin bad
        <5>1. n - 1 \in Nat /\ ~ (n <= n - 1)
          BY <2>2, <3>2
        <5>2. QED
          BY <2>1, <5>1
      <4>2. PICK h : AddsUp(f, h, Sub(n - 1))
        BY <4>1
      <4>3. ASSUME NEW s \in Sub(n), s # {} PROVE s \ {SomeOf(s)} \in Sub(n - 1)
        <5>1. SomeOf(s) \in s
          BY <4>3, SomeOfIsOne
        <5>2. Cardinality(s \ {SomeOf(s)}) = Cardinality(s) - 1
          BY <1>1, <5>1, FS_RemoveElement
        <5>3. QED
          BY <1>1, <2>2, <5>2
      <4>4. \A t \in Sub(n - 1) : h[t] = SumStep(f, h, t)
        BY <4>2 DEF AddsUp
      <4> HIDE DEF Sub
      <4>5. QED
        BY <4>3, <4>4
    <3>3. QED
      BY <3>1, <3>2
  <2> DEFINE g2 == [s \in Sub(n) |-> SumStep(f, g, s)]
  <2>4. ASSUME NEW s \in Sub(n) PROVE SumStep(f, g2, s) = SumStep(f, g, s)
    <3>1. CASE s = {}
      BY <3>1 DEF SumStep
    <3>2. CASE s # {}
      <4>1. SomeOf(s) \in s
        BY <3>2, SomeOfIsOne
      <4>2. s \ {SomeOf(s)} \in Sub(n)
        <5>1. Cardinality(s \ {SomeOf(s)}) <= Cardinality(s)
          BY <1>1, FS_Subset
        <5>2. QED
          BY <1>1, <2>2, <5>1
      <4>3. g2[s \ {SomeOf(s)}] = g[s \ {SomeOf(s)}]
        BY <2>3, <3>2, <4>2
      <4>4. QED
        BY <3>2, <4>3 DEF SumStep
    <3>3. QED
      BY <3>1, <3>2
  <2>5. AddsUp(f, g2, Sub(n))
    BY <2>4 DEF AddsUp
  <2>6. QED
    BY <2>5
<1>3. Cardinality(S) \in Nat /\ Cardinality(S) \notin bad
  BY <1>1, <1>2
<1>4. Sub(Cardinality(S)) = SUBSET S
  BY FS_Subset
<1>5. QED
  BY <1>3, <1>4

(* It is the same whatever the sets it is asked for are part of. *)
LEMMA SumIsUnique ==
  ASSUME NEW f, NEW R, NEW S, IsFiniteSet(R), NEW g, NEW h,
         AddsUp(f, g, SUBSET R), AddsUp(f, h, SUBSET S)
  PROVE  \A s \in (SUBSET R) \cap (SUBSET S) : g[s] = h[s]
<1> DEFINE bad == { s \in (SUBSET R) \cap (SUBSET S) : g[s] # h[s] }
           sizes == { Cardinality(s) : s \in bad }
<1>1. \A s \in SUBSET R : IsFiniteSet(s) /\ Cardinality(s) \in Nat
  BY FS_Subset, FS_CardinalityType
<1>2. ASSUME bad # {} PROVE FALSE
  <2>1. sizes \subseteq Nat /\ sizes # {}
    BY <1>1, <1>2
  <2>2. Min(sizes) \in sizes /\ \A y \in sizes : Min(sizes) <= y
    BY <2>1, LeastNumber
  <2>3. PICK s \in bad : \A t \in bad : Cardinality(s) <= Cardinality(t)
    BY <2>2
  <2>4. g[s] = SumStep(f, g, s) /\ h[s] = SumStep(f, h, s) /\ g[s] # h[s]
    <3>1. s \in SUBSET R /\ s \in SUBSET S /\ g[s] # h[s]
      OBVIOUS
    <3>2. g[s] = SumStep(f, g, s)
      BY <3>1 DEF AddsUp
    <3>3. h[s] = SumStep(f, h, s)
      BY <3>1 DEF AddsUp
    <3>4. QED
      BY <3>1, <3>2, <3>3
  <2>5. s # {}
    BY <2>4 DEF SumStep
  <2>6. SomeOf(s) \in s
    BY <2>5, SomeOfIsOne
  <2>7. Cardinality(s \ {SomeOf(s)}) = Cardinality(s) - 1 /\ Cardinality(s) \in Nat
    BY <1>1, <2>6, FS_RemoveElement
  <2>8. s \ {SomeOf(s)} \notin bad
    BY <2>3, <2>7
  <2>9. g[s \ {SomeOf(s)}] = h[s \ {SomeOf(s)}]
    BY <2>8
  <2>10. QED
    BY <2>4, <2>9 DEF SumStep
<1>3. QED
  BY <1>2

(* So the total of a set is a first element and the total of the others. *)
LEMMA TotalStep ==
  ASSUME NEW f, NEW S, IsFiniteSet(S)
  PROVE  /\ S = {} => Total(f, S) = 0
         /\ S # {} => Total(f, S) = f[SomeOf(S)] + Total(f, S \ {SomeOf(S)})
<1>1. \A R \in SUBSET S : \E g : AddsUp(f, g, SUBSET R) /\ Total(f, R) = g[R]
  <2>1. SUFFICES ASSUME NEW R \in SUBSET S
                 PROVE  \E g : AddsUp(f, g, SUBSET R) /\ Total(f, R) = g[R]
    OBVIOUS
  <2>2. \E g : AddsUp(f, g, SUBSET R)
    BY SumExists, FS_Subset
  <2>3. AddsUp(f, CHOOSE g : AddsUp(f, g, SUBSET R), SUBSET R)
    BY <2>2, Zenon
  <2>4. QED
    BY <2>3, TotalIsChosen
<1>2. PICK g : AddsUp(f, g, SUBSET S) /\ Total(f, S) = g[S]
  BY <1>1
<1>3. g[S] = SumStep(f, g, S)
  BY <1>2 DEF AddsUp
<1>4. CASE S = {}
  BY <1>2, <1>3, <1>4 DEF SumStep
<1>5. CASE S # {}
  <2> DEFINE R == S \ {SomeOf(S)}
  <2>1. PICK h : AddsUp(f, h, SUBSET R) /\ Total(f, R) = h[R]
    BY <1>1
  <2>2. g[R] = h[R]
    <3>1. \A s \in (SUBSET S) \cap (SUBSET R) : g[s] = h[s]
      <4> HIDE DEF R
      <4>1. QED
        BY <1>2, <2>1, SumIsUnique, SMTT(60)
    <3>2. R \in (SUBSET S) \cap (SUBSET R)
      OBVIOUS
    <3>3. QED
      BY <3>1, <3>2
  <2>3. QED
    BY <1>2, <1>3, <1>5, <2>1, <2>2 DEF SumStep
<1>6. QED
  BY <1>4, <1>5

(* The total is a number, ... *)
LEMMA TotalIsNat ==
  ASSUME NEW f, NEW S, IsFiniteSet(S), \A x \in S : f[x] \in Nat
  PROVE  Total(f, S) \in Nat
<1> DEFINE bad == { s \in SUBSET S : Total(f, s) \notin Nat }
           sizes == { Cardinality(s) : s \in bad }
<1>1. \A s \in SUBSET S : IsFiniteSet(s) /\ Cardinality(s) \in Nat
  BY FS_Subset, FS_CardinalityType
<1>2. ASSUME bad # {} PROVE FALSE
  <2>1. sizes \subseteq Nat /\ sizes # {}
    BY <1>1, <1>2
  <2>2. Min(sizes) \in sizes /\ \A y \in sizes : Min(sizes) <= y
    BY <2>1, LeastNumber
  <2>3. PICK s \in bad : \A t \in bad : Cardinality(s) <= Cardinality(t)
    BY <2>2
  <2>4. IsFiniteSet(s) /\ s \subseteq S /\ Total(f, s) \notin Nat
    BY <1>1
  <2>5. s # {}
    <3>1. s = {} => Total(f, s) = 0
      BY <2>4, TotalStep
    <3>2. QED
      BY <2>4, <3>1
  <2>6. SomeOf(s) \in s
    BY <2>5, SomeOfIsOne
  <2>7. Cardinality(s \ {SomeOf(s)}) = Cardinality(s) - 1 /\ Cardinality(s) \in Nat
    BY <1>1, <2>6, FS_RemoveElement
  <2>8. s \ {SomeOf(s)} \notin bad /\ s \ {SomeOf(s)} \in SUBSET S
    BY <2>3, <2>7
  <2>9. Total(f, s \ {SomeOf(s)}) \in Nat /\ f[SomeOf(s)] \in Nat
    BY <2>4, <2>6, <2>8
  <2>10. Total(f, s) = f[SomeOf(s)] + Total(f, s \ {SomeOf(s)})
    BY <2>4, <2>5, TotalStep
  <2>11. QED
    BY <2>4, <2>9, <2>10
<1>3. QED
  BY <1>2

(* ... whichever element it is that is added first, ... *)
LEMMA TotalWithout ==
  ASSUME NEW f, NEW S, IsFiniteSet(S), \A x \in S : f[x] \in Nat, NEW x \in S
  PROVE  Total(f, S) = f[x] + Total(f, S \ {x})
<1> DEFINE Wrong(s) == \E y \in s : Total(f, s) # f[y] + Total(f, s \ {y})
           bad == { s \in SUBSET S : Wrong(s) }
           sizes == { Cardinality(s) : s \in bad }
<1>1. \A s \in SUBSET S : IsFiniteSet(s) /\ Cardinality(s) \in Nat
  BY FS_Subset, FS_CardinalityType
<1>2. ASSUME bad # {} PROVE FALSE
  <2>1. sizes \subseteq Nat /\ sizes # {}
    BY <1>1, <1>2
  <2>2. Min(sizes) \in sizes /\ \A y \in sizes : Min(sizes) <= y
    BY <2>1, LeastNumber
  <2>3. PICK s \in bad : \A t \in bad : Cardinality(s) <= Cardinality(t)
    BY <2>2
  <2>4. PICK y \in s : Total(f, s) # f[y] + Total(f, s \ {y})
    BY <2>3
  <2> DEFINE c == SomeOf(s)
             rest == (s \ {y}) \ {c}
  <2>5. c \in s /\ s \in SUBSET S /\ s # {}
    BY <2>4, SomeOfIsOne
  <2>6. Total(f, s) = f[c] + Total(f, s \ {c})
    BY <1>1, <2>5, TotalStep
  <2>7. c # y
    BY <2>4, <2>6
  <2>8. ASSUME NEW z \in s PROVE s \ {z} \in SUBSET S /\ ~ Wrong(s \ {z})
    <3>1. Cardinality(s \ {z}) = Cardinality(s) - 1 /\ Cardinality(s) \in Nat
      BY <1>1, <2>5, FS_RemoveElement
    <3>2. s \ {z} \notin bad
      BY <2>3, <3>1
    <3>3. QED
      BY <2>5, <3>2
  <2>9. Total(f, s \ {c}) = f[y] + Total(f, (s \ {c}) \ {y})
    BY <2>5, <2>7, <2>8
  <2>10. Total(f, s \ {y}) = f[c] + Total(f, rest)
    BY <2>5, <2>7, <2>8
  <2>11. (s \ {c}) \ {y} = rest
    OBVIOUS
  <2>12. Total(f, rest) \in Nat /\ f[y] \in Nat /\ f[c] \in Nat
    <3>1. rest \in SUBSET S /\ IsFiniteSet(rest)
      BY <1>1, <2>5
    <3>2. QED
      BY <2>5, <3>1, TotalIsNat
  <2> HIDE DEF rest, c
  <2>13. Total(f, s) = f[c] + (f[y] + Total(f, rest))
    BY <2>6, <2>9, <2>11
  <2>14. f[y] + Total(f, s \ {y}) = f[y] + (f[c] + Total(f, rest))
    BY <2>10
  <2>15. QED
    BY <2>4, <2>12, <2>13, <2>14
<1>3. QED
  BY <1>2

(* ... and of a part of a set it is no more than of the set. *)
LEMMA TotalOfPart ==
  ASSUME NEW f, NEW S, IsFiniteSet(S), \A x \in S : f[x] \in Nat, NEW R \in SUBSET S
  PROVE  Total(f, R) <= Total(f, S)
<1> DEFINE bad == { s \in SUBSET S : R \subseteq s /\ ~ (Total(f, R) <= Total(f, s)) }
           sizes == { Cardinality(s) : s \in bad }
<1>1. \A s \in SUBSET S : IsFiniteSet(s) /\ Cardinality(s) \in Nat /\ Total(f, s) \in Nat
  BY FS_Subset, FS_CardinalityType, TotalIsNat
<1>2. ASSUME bad # {} PROVE FALSE
  <2>1. sizes \subseteq Nat /\ sizes # {}
    BY <1>1, <1>2
  <2>2. Min(sizes) \in sizes /\ \A y \in sizes : Min(sizes) <= y
    BY <2>1, LeastNumber
  <2>3. PICK s \in bad : \A t \in bad : Cardinality(s) <= Cardinality(t)
    BY <2>2
  <2>4. s \in SUBSET S /\ R \subseteq s /\ ~ (Total(f, R) <= Total(f, s))
    OBVIOUS
  <2>5. PICK x \in s : x \notin R
    BY <1>1, <2>4
  <2>6. Cardinality(s \ {x}) = Cardinality(s) - 1 /\ Cardinality(s) \in Nat
    BY <1>1, FS_RemoveElement
  <2>7. s \ {x} \notin bad /\ s \ {x} \in SUBSET S /\ R \subseteq s \ {x}
    BY <2>3, <2>4, <2>5, <2>6
  <2>8. Total(f, R) <= Total(f, s \ {x})
    BY <2>7
  <2>9. Total(f, s) = f[x] + Total(f, s \ {x}) /\ f[x] \in Nat
    BY <1>1, <2>4, TotalWithout
  <2>10. QED
    BY <1>1, <2>4, <2>7, <2>8, <2>9
<1>3. QED
  BY <1>2

-----------------------------------------------------------------------------
(* The JSON of a chunk, and the cuts of a task's records. *)

(* JsonSize, Valid and Pieces, of any sequence f of records. *)
SizeOf(f, ps) == Brackets + Total(f, ps) + (IF ps = {} THEN 0 ELSE Cardinality(ps) - 1)
ValidOf(f, n) == { p \in 1 .. n : f[p] # Invalid }
HeadOf(cuts, p) == Max({ c \in cuts \cup {1} : c <= p })
PiecesOf(f, n, cuts) ==
  { { p \in ValidOf(f, n) : HeadOf(cuts, p) = q } : q \in cuts \cup {1} }

LEMMA RecordsOf ==
  ASSUME NEW f \in Seq(Sizes \cup {Invalid}), NEW n \in 0 .. Len(f), NEW ps \in SUBSET ValidOf(f, n)
  PROVE  /\ IsFiniteSet(ps) /\ Cardinality(ps) \in Nat
         /\ \A p \in ps : f[p] \in Nat
         /\ Total(f, ps) \in Nat
<1>1. Len(f) \in Nat /\ n \in Nat
  OBVIOUS
<1>2. IsFiniteSet(1 .. n) /\ ps \in SUBSET (1 .. n)
  BY <1>1, FS_Interval DEF ValidOf
<1>3. IsFiniteSet(ps) /\ Cardinality(ps) \in Nat
  BY <1>2, FS_Subset, FS_CardinalityType
<1>4. \A p \in ps : f[p] \in Nat
  <2>1. SUFFICES ASSUME NEW p \in ps PROVE f[p] \in Nat
    OBVIOUS
  <2>2. p \in 1 .. Len(f) /\ f[p] # Invalid
    BY <1>1 DEF ValidOf
  <2>3. f[p] \in Sizes \cup {Invalid}
    BY <2>2
  <2>4. QED
    BY <2>2, <2>3, SizesAssumption
<1>5. Total(f, ps) \in Nat
  BY <1>3, <1>4, TotalIsNat
<1>6. QED
  BY <1>3, <1>4, <1>5

(* One more record adds its own length, and a comma unless it is the first.  *)
LEMMA SizeOfMore ==
  ASSUME NEW f \in Seq(Sizes \cup {Invalid}), NEW n \in 0 .. Len(f),
         NEW ps \in SUBSET ValidOf(f, n), NEW x \in ValidOf(f, n), x \notin ps
  PROVE  /\ SizeOf(f, ps \cup {x})
              = SizeOf(f, ps) + f[x] + (IF ps # {} THEN 1 ELSE 0)
         /\ SizeOf(f, ps) \in Nat /\ f[x] \in Nat
<1> DEFINE more == ps \cup {x}
<1>1. more \in SUBSET ValidOf(f, n) /\ x \in more /\ more \ {x} = ps /\ more # {}
  OBVIOUS
<1>2. /\ IsFiniteSet(more) /\ IsFiniteSet(ps) /\ Cardinality(ps) \in Nat
      /\ \A p \in more : f[p] \in Nat
      /\ Total(f, more) \in Nat /\ Total(f, ps) \in Nat
  BY <1>1, RecordsOf
<1>3. Cardinality(more) = Cardinality(ps) + 1
  BY <1>2, FS_AddElement
<1> HIDE DEF more
<1>4. Total(f, more) = f[x] + Total(f, ps) /\ f[x] \in Nat
  BY <1>1, <1>2, TotalWithout
<1>5. CASE ps = {}
  <2>1. Cardinality(ps) = 0
    BY <1>5, FS_EmptySet
  <2>2. QED
    BY <1>1, <1>2, <1>3, <1>4, <1>5, <2>1 DEF SizeOf, Brackets, more
<1>6. CASE ps # {}
  <2>1. Cardinality(ps) # 0
    BY <1>2, <1>6, FS_EmptySet
  <2>2. SizeOf(f, more) = 2 + (f[x] + Total(f, ps)) + ((Cardinality(ps) + 1) - 1)
    BY <1>1, <1>3, <1>4 DEF SizeOf, Brackets
  <2>3. SizeOf(f, ps) = 2 + Total(f, ps) + (Cardinality(ps) - 1)
    BY <1>6 DEF SizeOf, Brackets
  <2>4. SizeOf(f, more) = SizeOf(f, ps) + f[x] + 1 /\ SizeOf(f, ps) \in Nat
    BY <1>2, <1>4, <2>1, <2>2, <2>3, SMTT(30)
  <2>5. QED
    BY <1>4, <1>6, <2>4 DEF more
<1>7. QED
  BY <1>5, <1>6

(* The JSON of no record are its brackets. *)
LEMMA SizeOfNone == \A f : SizeOf(f, {}) = Brackets
<1>1. \A f : Total(f, {}) = 0
  BY FS_EmptySet, TotalStep
<1>2. QED
  BY <1>1 DEF SizeOf, Brackets

LEMMA SizeIsNat ==
  ASSUME NEW f \in Seq(Sizes \cup {Invalid}), NEW n \in 0 .. Len(f), NEW ps \in SUBSET ValidOf(f, n)
  PROVE  SizeOf(f, ps) \in Nat
<1>1. IsFiniteSet(ps) /\ Cardinality(ps) \in Nat /\ Total(f, ps) \in Nat
  BY RecordsOf
<1>2. ps # {} => Cardinality(ps) # 0
  BY <1>1, FS_EmptySet
<1>3. QED
  BY <1>1, <1>2 DEF SizeOf, Brackets

(* A part of a chunk is no longer than the chunk. *)
LEMMA SizeOfPart ==
  ASSUME NEW f \in Seq(Sizes \cup {Invalid}), NEW n \in 0 .. Len(f),
         NEW ps \in SUBSET ValidOf(f, n), NEW part \in SUBSET ps
  PROVE  SizeOf(f, part) <= SizeOf(f, ps)
<1>1. /\ IsFiniteSet(ps) /\ Cardinality(ps) \in Nat /\ Total(f, ps) \in Nat
      /\ \A p \in ps : f[p] \in Nat
  BY RecordsOf
<1>2. IsFiniteSet(part) /\ Cardinality(part) \in Nat /\ Total(f, part) \in Nat
  BY RecordsOf
<1>3. Total(f, part) <= Total(f, ps) /\ Cardinality(part) <= Cardinality(ps)
  BY <1>1, TotalOfPart, FS_Subset
<1>4. ps # {} => Cardinality(ps) # 0
  BY <1>1, FS_EmptySet
<1>5. QED
  BY <1>1, <1>2, <1>3, <1>4 DEF SizeOf, Brackets

(* Where the piece of a record begins: at the last cut before it. *)
LEMMA HeadOfIs ==
  ASSUME NEW cuts, cuts \subseteq Nat, NEW p \in Nat \ {0}
  PROVE  /\ HeadOf(cuts, p) \in cuts \cup {1} /\ HeadOf(cuts, p) <= p
         /\ \A c \in cuts \cup {1} : c <= p => c <= HeadOf(cuts, p)
<1> DEFINE T == { c \in cuts \cup {1} : c <= p }
           gaps == { p - c : c \in T }
<1>1. T \subseteq Nat /\ 1 \in T
  <2>1. 1 <= p
    OBVIOUS
  <2>2. 1 \in T
    BY <2>1
  <2>3. \A c \in cuts \cup {1} : c \in Nat
    OBVIOUS
  <2>4. QED
    BY <2>2, <2>3
<1>2. gaps \subseteq Nat /\ gaps # {}
  BY <1>1
<1>3. PICK x \in T : \A y \in T : p - x <= p - y
  <2>1. Min(gaps) \in gaps /\ \A y \in gaps : Min(gaps) <= y
    BY <1>2, LeastNumber
  <2>2. QED
    BY <2>1
<1>4. \A y \in T : x >= y
  BY <1>1, <1>3
<1>5. Max(T) \in T /\ \A y \in T : Max(T) >= y
  BY <1>4 DEF Max
<1>6. QED
  <2>1. HeadOf(cuts, p) = Max(T)
    BY DEF HeadOf
  <2>2. \A c \in cuts \cup {1} : c <= p => c \in T
    OBVIOUS
  <2>3. Max(T) \in Nat /\ \A y \in T : y <= Max(T)
    BY <1>1, <1>5
  <2>4. Max(T) \in cuts \cup {1} /\ Max(T) <= p
    BY <1>5
  <2> HIDE DEF T
  <2>5. QED
    BY <2>1, <2>2, <2>3, <2>4

(* Later records are in the same piece or in a later one. *)
LEMMA HeadOfGrows ==
  ASSUME NEW cuts, cuts \subseteq Nat, NEW p \in Nat \ {0}, NEW r \in Nat, p <= r
  PROVE  HeadOf(cuts, p) <= HeadOf(cuts, r)
<1>1. HeadOf(cuts, p) \in cuts \cup {1} /\ HeadOf(cuts, p) <= p
  BY HeadOfIs
<1>2. HeadOf(cuts, p) <= r /\ r \in Nat \ {0}
  <2>1. \A c \in cuts \cup {1} : c \in Nat
    OBVIOUS
  <2>2. HeadOf(cuts, p) \in Nat
    BY <1>1, <2>1
  <2>3. QED
    BY <1>1, <2>2
<1>3. QED
  BY <1>1, <1>2, HeadOfIs

(* What is cut later does not matter to earlier records. *)
LEMMA HeadOfEarlier ==
  ASSUME NEW cuts, cuts \subseteq Nat \ {0, 1}, NEW n \in Nat, NEW p \in 1 .. n
  PROVE  HeadOf(cuts \cap (2 .. n), p) = HeadOf(cuts, p)
<1>1. { c \in (cuts \cap (2 .. n)) \cup {1} : c <= p } = { c \in cuts \cup {1} : c <= p }
  <2>1. ASSUME NEW c \in cuts, c <= p PROVE c \in 2 .. n
    <3>1. c \in Nat /\ c # 0 /\ c # 1
      OBVIOUS
    <3>2. QED
      BY <2>1, <3>1
  <2>2. QED
    BY <2>1
<1>2. QED
  BY <1>1 DEF HeadOf

(* The pieces of the first n records are what the pieces of more records     *)
(* have of them.                                                             *)
LEMMA PiecesOfFewer ==
  ASSUME NEW f, NEW m \in Nat, NEW n \in 0 .. m, NEW cuts \in SUBSET (2 .. m)
  PROVE  \A ps \in PiecesOf(f, n, cuts \cap (2 .. n)) :
           \E qs \in PiecesOf(f, m, cuts) : ps = qs \cap (1 .. n)
<1> DEFINE early == cuts \cap (2 .. n)
<1>1. SUFFICES ASSUME NEW ps \in PiecesOf(f, n, early)
               PROVE  \E qs \in PiecesOf(f, m, cuts) : ps = qs \cap (1 .. n)
  OBVIOUS
<1>2. PICK q \in early \cup {1} : ps = { p \in ValidOf(f, n) : HeadOf(early, p) = q }
  BY DEF PiecesOf
<1> DEFINE qs == { p \in ValidOf(f, m) : HeadOf(cuts, p) = q }
<1>3. qs \in PiecesOf(f, m, cuts)
  BY <1>2 DEF PiecesOf
<1>4. \A p \in 1 .. n : HeadOf(early, p) = HeadOf(cuts, p)
  <2>1. cuts \subseteq Nat \ {0, 1} /\ n \in Nat
    OBVIOUS
  <2>2. QED
    BY <2>1, HeadOfEarlier
<1>5. ValidOf(f, n) = ValidOf(f, m) \cap (1 .. n)
  BY DEF ValidOf
<1>6. ps = qs \cap (1 .. n)
  <2>1. \A p \in ValidOf(f, n) : HeadOf(early, p) = HeadOf(cuts, p)
    BY <1>4, <1>5
  <2> HIDE DEF early
  <2>2. QED
    BY <1>2, <1>5, <2>1
<1>7. QED
  BY <1>3, <1>6

(* Every record is in a piece, ... *)
LEMMA PieceOf ==
  ASSUME NEW f, NEW m \in Nat, NEW cuts \in SUBSET (2 .. m), NEW p \in 1 .. m, f[p] # Invalid
  PROVE  \E qs \in PiecesOf(f, m, cuts) : p \in qs
<1>1. cuts \subseteq Nat /\ p \in Nat \ {0}
  OBVIOUS
<1>2. HeadOf(cuts, p) \in cuts \cup {1}
  BY <1>1, HeadOfIs
<1>3. { r \in ValidOf(f, m) : HeadOf(cuts, r) = HeadOf(cuts, p) } \in PiecesOf(f, m, cuts)
  BY <1>2 DEF PiecesOf
<1>4. QED
  BY <1>3 DEF ValidOf

(* ... and a piece that holds two of them holds all that are in between.     *)
LEMMA PiecesAreRuns ==
  ASSUME NEW f, NEW m \in Nat, NEW cuts \in SUBSET (2 .. m),
         NEW qs \in PiecesOf(f, m, cuts), NEW p \in qs, m \in qs
  PROVE  \A r \in ValidOf(f, m) : p <= r => r \in qs
<1>1. SUFFICES ASSUME NEW r \in ValidOf(f, m), p <= r PROVE r \in qs
  OBVIOUS
<1>2. PICK q \in cuts \cup {1} : qs = { x \in ValidOf(f, m) : HeadOf(cuts, x) = q }
  BY DEF PiecesOf
<1>3. /\ cuts \subseteq Nat /\ q \in Nat
      /\ p \in Nat \ {0} /\ r \in Nat \ {0} /\ m \in Nat \ {0} /\ r <= m
  BY <1>2 DEF ValidOf
<1>4. HeadOf(cuts, p) = q /\ HeadOf(cuts, m) = q
  BY <1>2
<1>5. HeadOf(cuts, p) <= HeadOf(cuts, r) /\ HeadOf(cuts, r) <= HeadOf(cuts, m)
  BY <1>1, <1>3, HeadOfGrows
<1>6. HeadOf(cuts, r) \in Nat
  <2>1. HeadOf(cuts, r) \in cuts \cup {1}
    BY <1>3, HeadOfIs
  <2>2. \A c \in cuts \cup {1} : c \in Nat
    BY <1>3
  <2>3. QED
    BY <2>1, <2>2
<1>7. HeadOf(cuts, r) = q
  BY <1>3, <1>4, <1>5, <1>6
<1>8. QED
  BY <1>2, <1>7

(* Pieces can be counted. *)
LEMMA PiecesAreFinite ==
  ASSUME NEW f, NEW m \in Nat, NEW cuts \in SUBSET (2 .. m)
  PROVE  IsFiniteSet(PiecesOf(f, m, cuts))
<1>1. IsFiniteSet(2 .. m)
  BY FS_Interval
<1>2. IsFiniteSet(cuts)
  BY <1>1, FS_Subset
<1>3. IsFiniteSet(cuts \cup {1})
  BY <1>2, FS_AddElement
<1> DEFINE Piece == [q \in cuts \cup {1} |-> { p \in ValidOf(f, m) : HeadOf(cuts, p) = q }]
<1>4. PiecesOf(f, m, cuts) = { Piece[q] : q \in cuts \cup {1} }
  BY DEF PiecesOf
<1>5. IsFiniteSet({ Piece[q] : q \in cuts \cup {1} })
  <2>1. Piece \in Surjection(cuts \cup {1}, { Piece[q] : q \in cuts \cup {1} })
    BY DEF Surjection
  <2>2. QED
    BY <1>3, <2>1, FS_Surjection
<1>6. QED
  BY <1>4, <1>5

-----------------------------------------------------------------------------
(* How few chunks there can be. *)

(* No cut of the first n records into pieces that fit makes fewer than k.    *)
AtLeast(f, h, n, k) ==
  \A cuts \in SUBSET (2 .. n) :
    (\A ps \in PiecesOf(f, n, cuts) : SizeOf(f, ps) <= h) =>
      k <= Cardinality(PiecesOf(f, n, cuts) \ {{}})

(* Pieces that differ on the first n records are as many as their parts.     *)
LEMMA PartsAreFewer ==
  ASSUME NEW A, IsFiniteSet(A), NEW B, NEW S, \A b \in B : \E a \in A : b = a \cap S
  PROVE  IsFiniteSet(B) /\ Cardinality(B) <= Cardinality(A)
<1> DEFINE Part == [a \in { x \in A : x \cap S \in B } |-> a \cap S]
           From == { x \in A : x \cap S \in B }
<1>1. From \subseteq A
  OBVIOUS
<1>2. IsFiniteSet(From) /\ Cardinality(From) \in Nat /\ Cardinality(A) \in Nat
      /\ Cardinality(From) <= Cardinality(A)
  BY <1>1, FS_Subset, FS_CardinalityType
<1>3. Part \in Surjection(From, B)
  <2>1. \A b \in B : \E a \in From : Part[a] = b
    OBVIOUS
  <2>2. Part \in [From -> B]
    OBVIOUS
  <2> HIDE DEF Part, From
  <2>3. QED
    BY <2>1, <2>2 DEF Surjection
<1>4. IsFiniteSet(B) /\ Cardinality(B) <= Cardinality(From)
  BY <1>2, <1>3, FS_Surjection
<1>5. Cardinality(B) \in Nat
  BY <1>4, FS_CardinalityType
<1>6. QED
  BY <1>2, <1>4, <1>5

(* If the pieces of more records fit, so do those of fewer. *)
LEMMA FewerFit ==
  ASSUME NEW f \in Seq(Sizes \cup {Invalid}), NEW m \in 0 .. Len(f), NEW n \in 0 .. m,
         NEW h \in Nat, NEW cuts \in SUBSET (2 .. m)
  PROVE  (\A ps \in PiecesOf(f, m, cuts) : SizeOf(f, ps) <= h) =>
           \A ps \in PiecesOf(f, n, cuts \cap (2 .. n)) : SizeOf(f, ps) <= h
<1> DEFINE early == cuts \cap (2 .. n)
<1>1. early \in SUBSET (2 .. n) /\ m \in Nat /\ n \in Nat
  OBVIOUS
<1>2. \A b \in PiecesOf(f, n, early) : \E a \in PiecesOf(f, m, cuts) : b = a \cap (1 .. n)
  BY <1>1, PiecesOfFewer, SMTT(60)
<1> SUFFICES ASSUME \A ps \in PiecesOf(f, m, cuts) : SizeOf(f, ps) <= h,
                    NEW ps \in PiecesOf(f, n, early)
             PROVE  SizeOf(f, ps) <= h
  OBVIOUS
<1>3. PICK qs \in PiecesOf(f, m, cuts) : ps = qs \cap (1 .. n)
  BY <1>2
<1>4. qs \in SUBSET ValidOf(f, m) /\ ps \in SUBSET qs
  BY <1>3 DEF PiecesOf
<1>5. SizeOf(f, ps) <= SizeOf(f, qs) /\ SizeOf(f, qs) <= h
  BY <1>3, <1>4, SizeOfPart
<1>6. SizeOf(f, ps) \in Nat /\ SizeOf(f, qs) \in Nat
  BY <1>4, SizeIsNat
<1>7. QED
  BY <1>5, <1>6

(* More records need as many pieces, ... *)
LEMMA AtLeastGrows ==
  ASSUME NEW f \in Seq(Sizes \cup {Invalid}), NEW m \in 0 .. Len(f), NEW n \in 0 .. m,
         NEW h \in Nat, NEW k \in Nat, AtLeast(f, h, n, k)
  PROVE  AtLeast(f, h, m, k)
<1>1. SUFFICES ASSUME NEW cuts \in SUBSET (2 .. m),
                      \A ps \in PiecesOf(f, m, cuts) : SizeOf(f, ps) <= h
               PROVE  k <= Cardinality(PiecesOf(f, m, cuts) \ {{}})
  BY DEF AtLeast
<1> DEFINE early == cuts \cap (2 .. n)
           A == PiecesOf(f, m, cuts) \ {{}}
           B == PiecesOf(f, n, early) \ {{}}
<1>2. early \in SUBSET (2 .. n) /\ m \in Nat /\ n \in Nat
  OBVIOUS
<1>3. \A ps \in PiecesOf(f, n, early) : SizeOf(f, ps) <= h
  BY <1>1, FewerFit
<1>4. k <= Cardinality(B)
  BY <1>2, <1>3 DEF AtLeast
<1>5. IsFiniteSet(A)
  BY <1>2, PiecesAreFinite, FS_Subset
<1>6. \A b \in B : \E a \in A : b = a \cap (1 .. n)
  <2>1. \A b \in PiecesOf(f, n, early) : \E a \in PiecesOf(f, m, cuts) : b = a \cap (1 .. n)
    BY <1>2, PiecesOfFewer
  <2>2. QED
    BY <2>1
<1> HIDE DEF A, B
<1>7. IsFiniteSet(B) /\ Cardinality(B) <= Cardinality(A)
  BY <1>5, <1>6, PartsAreFewer
<1>8. Cardinality(A) \in Nat /\ Cardinality(B) \in Nat
  BY <1>5, <1>7, FS_CardinalityType
<1>9. k <= Cardinality(A)
  BY <1>4, <1>7, <1>8
<1>10. QED
  BY <1>9 DEF A

(* ... the first record needs one, ... *)
LEMMA AtLeastOne ==
  ASSUME NEW f \in Seq(Sizes \cup {Invalid}), NEW h \in Nat,
         NEW n \in 1 .. Len(f), f[n] # Invalid
  PROVE  AtLeast(f, h, n, 1)
<1>1. SUFFICES ASSUME NEW cuts \in SUBSET (2 .. n)
               PROVE  1 <= Cardinality(PiecesOf(f, n, cuts) \ {{}})
  BY DEF AtLeast
<1> DEFINE A == PiecesOf(f, n, cuts) \ {{}}
<1>2. PICK qs \in PiecesOf(f, n, cuts) : n \in qs
  BY PieceOf DEF ValidOf
<1>3. qs \in A
  BY <1>2
<1>4. IsFiniteSet(A)
  BY PiecesAreFinite, FS_Subset
<1> HIDE DEF A
<1>5. Cardinality(A) \in Nat /\ Cardinality(A) # 0
  BY <1>3, <1>4, FS_CardinalityType, FS_EmptySet
<1>6. 1 <= Cardinality(A)
  BY <1>5
<1>7. QED
  BY <1>6 DEF A

(* ... and where the records from s to before m would not fit with m, the    *)
(* piece of m holds none of the records up to s: it is one more.             *)
LEMMA AtLeastOneMore ==
  ASSUME NEW f \in Seq(Sizes \cup {Invalid}), NEW h \in Nat, NEW k \in Nat,
         NEW m \in 1 .. Len(f), NEW s \in 1 .. m - 1, f[m] # Invalid,
         AtLeast(f, h, s, k),
         ~ (SizeOf(f, { p \in ValidOf(f, m) : p >= s }) <= h)
  PROVE  AtLeast(f, h, m, k + 1)
<1>1. SUFFICES ASSUME NEW cuts \in SUBSET (2 .. m),
                      \A ps \in PiecesOf(f, m, cuts) : SizeOf(f, ps) <= h
               PROVE  k + 1 <= Cardinality(PiecesOf(f, m, cuts) \ {{}})
  BY DEF AtLeast
<1> DEFINE early == cuts \cap (2 .. s)
           all == PiecesOf(f, m, cuts) \ {{}}
           B == PiecesOf(f, s, early) \ {{}}
<1>2. /\ early \in SUBSET (2 .. s) /\ m \in Nat /\ s \in Nat
      /\ m \in 0 .. Len(f) /\ s \in 0 .. m /\ m \in 1 .. m
  OBVIOUS
<1>3. k <= Cardinality(B)
  <2>1. \A ps \in PiecesOf(f, s, early) : SizeOf(f, ps) <= h
    BY <1>1, <1>2, FewerFit
  <2>2. QED
    BY <1>2, <2>1 DEF AtLeast
<1>4. PICK P \in PiecesOf(f, m, cuts) : m \in P
  BY <1>2, PieceOf DEF ValidOf
<1>5. P \cap (1 .. s) = {}
  <2>1. SUFFICES ASSUME NEW p \in 1 .. s, p \in P PROVE FALSE
    OBVIOUS
  <2>2. \A r \in ValidOf(f, m) : p <= r => r \in P
    BY <1>2, <1>4, <2>1, PiecesAreRuns
  <2>3. { r \in ValidOf(f, m) : r >= s } \in SUBSET P
    <3>1. ASSUME NEW r \in ValidOf(f, m), r >= s PROVE p <= r
      BY <1>2, <3>1 DEF ValidOf
    <3>2. QED
      BY <2>2, <3>1
  <2>4. P \in SUBSET ValidOf(f, m)
    BY <1>4 DEF PiecesOf
  <2> DEFINE tail == { r \in ValidOf(f, m) : r >= s }
  <2>5. SizeOf(f, tail) <= SizeOf(f, P) /\ tail \in SUBSET ValidOf(f, m)
    BY <1>2, <2>3, <2>4, SizeOfPart
  <2>6. SizeOf(f, P) <= h /\ SizeOf(f, P) \in Nat /\ SizeOf(f, tail) \in Nat
    BY <1>1, <1>2, <1>4, <2>4, <2>5, SizeIsNat
  <2>7. ~ (SizeOf(f, tail) <= h)
    OBVIOUS
  <2> HIDE DEF tail
  <2>8. QED
    BY <2>5, <2>6, <2>7
<1> DEFINE A == all \ {P}
<1>6. \A b \in B : \E a \in A : b = a \cap (1 .. s)
  <2>1. \A b \in PiecesOf(f, s, early) : \E a \in PiecesOf(f, m, cuts) : b = a \cap (1 .. s)
    BY <1>2, PiecesOfFewer
  <2>2. QED
    BY <1>5, <2>1
<1>7. IsFiniteSet(all) /\ P \in all
  BY <1>2, <1>4, PiecesAreFinite, FS_Subset
<1>8. IsFiniteSet(A) /\ Cardinality(A) = Cardinality(all) - 1 /\ Cardinality(all) \in Nat
  <2> HIDE DEF all
  <2>1. QED
    BY <1>7, FS_RemoveElement, FS_CardinalityType, FS_Subset
<1> HIDE DEF A, B
<1>9. IsFiniteSet(B) /\ Cardinality(B) <= Cardinality(A)
  BY <1>6, <1>8, PartsAreFewer
<1>10. Cardinality(A) \in Nat /\ Cardinality(B) \in Nat
  BY <1>8, <1>9, FS_CardinalityType
<1> HIDE DEF all
<1>11. k + 1 <= Cardinality(all)
  BY <1>3, <1>8, <1>9, <1>10
<1>12. QED
  BY <1>11 DEF all

-----------------------------------------------------------------------------
(* chunk_by_json_size. *)

(* The chunk being built is counted right and fits, *)
ChunkIsCounted ==
  /\ chunk \subseteq ValidOf(source, next - 1)
  /\ chunkSize = SizeOf(source, chunk)
  /\ chunk # {} => chunkSize <= hint

(* and so do those that were yielded. *)
YieldedFit ==
  \A i \in DOMAIN chunks : chunks[i] # {} /\ SizeOf(source, chunks[i]) <= hint

(* It holds every record from its first, up to which a cut needs a piece     *)
(* more than there are chunks yielded; without one, the records have been    *)
(* read to the end, or none was made so far.                                 *)
NoneIsWasted ==
  IF chunk = {}
  THEN /\ chunks # <<>> => next > Len(source)
       /\ AtLeast(source, hint, next - 1, Len(chunks))
  ELSE \E s \in chunk :
         /\ chunk = { p \in ValidOf(source, next - 1) : p >= s }
         /\ AtLeast(source, hint, s, Len(chunks) + 1)

SizeInv == Chunking => ChunkIsCounted /\ YieldedFit /\ NoneIsWasted

LEMMA LoopNumbers ==
  ASSUME LoopTypeOK
  PROVE  /\ source \in Seq(Sizes \cup {Invalid}) /\ Len(source) \in Nat
         /\ next \in Nat /\ next - 1 \in 0 .. Len(source)
         /\ hint \in Nat /\ Len(chunks) \in Nat /\ DOMAIN chunks = 1 .. Len(chunks)
         /\ chunkSize \in Nat
<1>1. source \in Seq(Sizes \cup {Invalid}) /\ Len(source) \in Nat
  BY SourceIsSequence DEF LoopTypeOK, TypeOK
<1>2. chunks \in Seq(SUBSET Positions)
  BY DEF LoopTypeOK, TypeOK
<1>3. Len(chunks) \in Nat /\ DOMAIN chunks = 1 .. Len(chunks)
  BY <1>2
<1>4. next \in Nat /\ next - 1 \in 0 .. Len(source)
  BY <1>1 DEF LoopTypeOK, TypeOK
<1>5. QED
  BY <1>1, <1>3, <1>4 DEF LoopTypeOK, TypeOK, OptionsOK

(* Before the first record. *)
LEMMA NoneIsNeeded ==
  ASSUME NEW f, NEW h
  PROVE  AtLeast(f, h, 0, 0)
<1>1. ASSUME NEW cuts \in SUBSET (2 .. 0)
      PROVE  0 <= Cardinality(PiecesOf(f, 0, cuts) \ {{}})
  <2>1. IsFiniteSet(PiecesOf(f, 0, cuts) \ {{}})
    BY PiecesAreFinite, FS_Subset
  <2>2. Cardinality(PiecesOf(f, 0, cuts) \ {{}}) \in Nat
    BY <2>1, FS_CardinalityType
  <2>3. QED
    BY <2>2
<1>2. QED
  BY <1>1 DEF AtLeast

LEMMA SizeInvInit == Init => SizeInv
<1>1. SUFFICES ASSUME Init PROVE ChunkIsCounted /\ YieldedFit /\ NoneIsWasted
  BY DEF SizeInv
<1>2. next - 1 = 0 /\ Len(chunks) = 0 /\ chunk = {} /\ chunkSize = Brackets /\ chunks = <<>>
  BY <1>1 DEF Init
<1>3. QED
  BY <1>2, SizeOfNone, NoneIsNeeded DEF ChunkIsCounted, YieldedFit, NoneIsWasted

(* A record that is skipped. *)
LEMMA SkipKeepsSize ==
  ASSUME LoopTypeOK, SizeInv, Chunking, SkipInvalid, UNCHANGED options
  PROVE  SizeInv'
<1>1. /\ source \in Seq(Sizes \cup {Invalid}) /\ Len(source) \in Nat
      /\ next \in Nat /\ next - 1 \in 0 .. Len(source) /\ Len(chunks) \in Nat /\ hint \in Nat
  BY LoopNumbers
<1>2. /\ next <= Len(source) /\ source[next] = Invalid /\ next' = next + 1
      /\ UNCHANGED <<source, chunk, chunkSize, chunks, hint>>
  BY DEF SkipInvalid, AtRecord, chunkVars, options
<1>3. ValidOf(source, next) = ValidOf(source, next - 1) /\ next' - 1 = next /\ next > 0
      /\ next \in 0 .. Len(source) /\ next - 1 \in 0 .. next
  <2>1. next > 0 /\ next' - 1 = next /\ next \in 0 .. Len(source) /\ next - 1 \in 0 .. next
    BY <1>1, <1>2
  <2>2. 1 .. next = (1 .. next - 1) \cup {next}
    BY <1>1, <2>1
  <2>3. QED
    BY <1>2, <2>1, <2>2 DEF ValidOf
<1>4. ChunkIsCounted' /\ YieldedFit'
  BY <1>2, <1>3 DEF SizeInv, ChunkIsCounted, YieldedFit
<1>5. NoneIsWasted'
  <2>1. CASE chunk = {}
    <3>1. AtLeast(source, hint, next - 1, Len(chunks)) /\ chunks = <<>>
      BY <1>1, <1>2, <2>1 DEF SizeInv, NoneIsWasted
    <3>2. AtLeast(source, hint, next, Len(chunks))
      BY <1>1, <1>3, <3>1, AtLeastGrows
    <3>3. QED
      BY <1>2, <1>3, <2>1, <3>1, <3>2 DEF NoneIsWasted
  <2>2. CASE chunk # {}
    BY <1>2, <1>3, <2>2 DEF SizeInv, NoneIsWasted
  <2>3. QED
    BY <2>1, <2>2
<1>6. QED
  BY <1>4, <1>5 DEF SizeInv

(* A chunk of one record has its brackets and no comma. *)
LEMMA SizeOfOne ==
  ASSUME NEW f \in Seq(Sizes \cup {Invalid}), NEW n \in 0 .. Len(f), NEW x \in ValidOf(f, n)
  PROVE  SizeOf(f, {x}) = f[x] + Brackets
<1>1. {} \in SUBSET ValidOf(f, n) /\ x \notin {} /\ {} \cup {x} = {x}
  OBVIOUS
<1>2. SizeOf(f, {} \cup {x}) = SizeOf(f, {}) + f[x] + 0 /\ f[x] \in Nat
  BY <1>1, SizeOfMore, ZenonT(30)
<1>3. QED
  BY <1>1, <1>2, SizeOfNone DEF Brackets

(* A record that can be made and fits. *)
LEMMA RecordFits ==
  ASSUME LoopTypeOK, SizeInv, Chunking, AtRecord, source[next] # Invalid, Fits(next)
  PROVE  /\ next \in ValidOf(source, next) /\ next \in 1 .. Len(source)
         /\ ValidOf(source, next) = ValidOf(source, next - 1) \cup {next}
         /\ chunk \in SUBSET ValidOf(source, next) /\ next \notin chunk
         /\ SizeOf(source, {next}) = source[next] + Brackets
         /\ SizeOf(source, {next}) <= hint
         /\ SizeOf(source, chunk \cup {next}) = chunkSize + source[next] + Separator
<1>1. /\ source \in Seq(Sizes \cup {Invalid}) /\ Len(source) \in Nat
      /\ next \in Nat /\ next - 1 \in 0 .. Len(source) /\ hint \in Nat
  BY LoopNumbers
<1>2. next <= Len(source) /\ source[next] + Brackets <= hint
  BY DEF AtRecord, Fits
<1>3. next \in 1 .. Len(source) /\ next \in 0 .. Len(source)
  BY <1>1, <1>2
<1>4. 1 .. next = (1 .. next - 1) \cup {next} /\ next \notin 1 .. next - 1
  BY <1>1, <1>3
<1>5. ValidOf(source, next) = ValidOf(source, next - 1) \cup {next}
      /\ next \notin ValidOf(source, next - 1)
  BY <1>4 DEF ValidOf
<1>6. next \in ValidOf(source, next) /\ chunk \in SUBSET ValidOf(source, next) /\ next \notin chunk
  BY <1>5 DEF SizeInv, ChunkIsCounted
<1>7. SizeOf(source, chunk \cup {next})
        = SizeOf(source, chunk) + source[next] + (IF chunk # {} THEN 1 ELSE 0)
  BY <1>1, <1>3, <1>6, SizeOfMore
<1>8. SizeOf(source, {next}) = source[next] + Brackets
  BY <1>1, <1>3, <1>6, SizeOfOne
<1>9. QED
  BY <1>2, <1>3, <1>5, <1>6, <1>7, <1>8 DEF Separator, SizeInv, ChunkIsCounted

(* A record that goes into the chunk. *)
LEMMA GrowKeepsSize ==
  ASSUME LoopTypeOK, SizeInv, Chunking, Grow, UNCHANGED options
  PROVE  SizeInv'
<1>1. /\ source \in Seq(Sizes \cup {Invalid}) /\ Len(source) \in Nat
      /\ next \in Nat /\ next - 1 \in 0 .. Len(source) /\ Len(chunks) \in Nat /\ hint \in Nat
  BY LoopNumbers
<1>2. /\ AtRecord /\ source[next] # Invalid /\ Fits(next)
      /\ chunkSize + source[next] + Separator <= hint
      /\ chunk' = chunk \cup {next} /\ chunkSize' = chunkSize + source[next] + Separator
      /\ next' = next + 1 /\ UNCHANGED <<source, chunks, hint>>
  BY DEF Grow, Grows, options
<1>3. /\ next \in ValidOf(source, next) /\ next \in 1 .. Len(source)
      /\ ValidOf(source, next) = ValidOf(source, next - 1) \cup {next}
      /\ chunk \in SUBSET ValidOf(source, next)
      /\ SizeOf(source, chunk \cup {next}) = chunkSize + source[next] + Separator
  BY <1>2, RecordFits
<1>4. next' - 1 = next /\ chunk' # {}
  BY <1>1, <1>2
<1>5. ChunkIsCounted'
  BY <1>2, <1>3, <1>4 DEF ChunkIsCounted
<1>6. YieldedFit'
  BY <1>2 DEF SizeInv, YieldedFit
<1>7. NoneIsWasted'
  <2>1. CASE chunk = {}
    <3>1. chunks = <<>>
      BY <1>1, <1>2, <2>1 DEF SizeInv, NoneIsWasted, AtRecord
    <3>2. AtLeast(source, hint, next, 1) /\ Len(chunks) + 1 = 1
      BY <1>1, <1>2, <1>3, <3>1, AtLeastOne
    <3>3. { p \in ValidOf(source, next) : p >= next } = {next}
      BY <1>1, <1>3 DEF ValidOf
    <3>4. QED
      BY <1>2, <1>4, <2>1, <3>2, <3>3 DEF NoneIsWasted
  <2>2. CASE chunk # {}
    <3>1. PICK s \in chunk : /\ chunk = { p \in ValidOf(source, next - 1) : p >= s }
                             /\ AtLeast(source, hint, s, Len(chunks) + 1)
      BY <2>2 DEF SizeInv, NoneIsWasted
    <3>2. s <= next /\ s \in chunk'
      BY <1>1, <1>2, <1>3, <3>1 DEF ValidOf
    <3>3. chunk' = { p \in ValidOf(source, next) : p >= s }
      BY <1>2, <1>3, <3>1, <3>2
    <3>4. QED
      BY <1>2, <1>4, <3>1, <3>2, <3>3 DEF NoneIsWasted
  <2>3. QED
    BY <2>1, <2>2
<1>8. QED
  BY <1>5, <1>6, <1>7 DEF SizeInv

(* A sequence with one element more. *)
LEMMA YieldedFitMore ==
  ASSUME LoopTypeOK, YieldedFit, UNCHANGED <<source, hint>>, chunks' = Append(chunks, chunk),
         chunk # {}, SizeOf(source, chunk) <= hint
  PROVE  YieldedFit' /\ Len(chunks') = Len(chunks) + 1 /\ chunks' # <<>>
<1>1. chunks \in Seq(SUBSET Positions) /\ chunk \in SUBSET Positions
  BY DEF LoopTypeOK, TypeOK
<1>2. /\ Len(chunks') = Len(chunks) + 1 /\ DOMAIN chunks' = 1 .. Len(chunks) + 1
      /\ \A i \in 1 .. Len(chunks) : chunks'[i] = chunks[i]
      /\ chunks'[Len(chunks) + 1] = chunk /\ Len(chunks) \in Nat /\ DOMAIN chunks = 1 .. Len(chunks)
  BY <1>1
<1>3. ASSUME NEW i \in DOMAIN chunks'
      PROVE  chunks'[i] # {} /\ SizeOf(source, chunks'[i]) <= hint
  <2>1. i \in 1 .. Len(chunks) \/ i = Len(chunks) + 1
    BY <1>2
  <2>2. QED
    BY <1>2, <2>1 DEF YieldedFit
<1>4. chunks' # <<>>
  BY <1>2
<1>5. QED
  BY <1>2, <1>3, <1>4 DEF YieldedFit

(* A record that would not fit: the chunk is yielded and another begun. *)
LEMMA YieldKeepsSize ==
  ASSUME LoopTypeOK, SizeInv, Chunking, YieldChunk, UNCHANGED options
  PROVE  SizeInv'
<1>1. /\ source \in Seq(Sizes \cup {Invalid}) /\ Len(source) \in Nat /\ chunkSize \in Nat
      /\ next \in Nat /\ next - 1 \in 0 .. Len(source) /\ Len(chunks) \in Nat /\ hint \in Nat
  BY LoopNumbers
<1>2. /\ AtRecord /\ source[next] # Invalid /\ Fits(next)
      /\ ~ (chunkSize + source[next] + Separator <= hint)
      /\ chunks' = Append(chunks, chunk) /\ chunk' = {next}
      /\ chunkSize' = source[next] + Brackets
      /\ next' = next + 1 /\ UNCHANGED <<source, hint>>
  BY DEF YieldChunk, Grows, options
<1>3. /\ next \in ValidOf(source, next) /\ next \in 1 .. Len(source)
      /\ ValidOf(source, next) = ValidOf(source, next - 1) \cup {next}
      /\ SizeOf(source, {next}) = source[next] + Brackets /\ SizeOf(source, {next}) <= hint
      /\ SizeOf(source, chunk \cup {next}) = chunkSize + source[next] + Separator
  BY <1>2, RecordFits
<1>4. next' - 1 = next /\ chunk' # {}
  BY <1>1, <1>2
<1>5. chunk # {}
  <2>1. SUFFICES ASSUME chunk = {} PROVE FALSE
    OBVIOUS
  <2>2. SizeOf(source, {next}) = chunkSize + source[next] + Separator
    BY <1>3, <2>1
  <2>3. QED
    BY <1>2, <1>3, <2>2
<1>6. YieldedFit' /\ Len(chunks') = Len(chunks) + 1
  BY <1>2, <1>5, YieldedFitMore DEF SizeInv, ChunkIsCounted
<1>7. ChunkIsCounted'
  BY <1>2, <1>3, <1>4 DEF ChunkIsCounted
<1>8. NoneIsWasted'
  <2>1. PICK s \in chunk : /\ chunk = { p \in ValidOf(source, next - 1) : p >= s }
                           /\ AtLeast(source, hint, s, Len(chunks) + 1)
    BY <1>5 DEF SizeInv, NoneIsWasted
  <2>2. s \in 1 .. next - 1
    BY <2>1 DEF ValidOf
  <2>3. { p \in ValidOf(source, next) : p >= s } = chunk \cup {next}
    BY <1>1, <1>3, <2>1, <2>2
  <2>4. ~ (SizeOf(source, { p \in ValidOf(source, next) : p >= s }) <= hint)
    BY <1>2, <1>3, <2>3
  <2>5. AtLeast(source, hint, next, (Len(chunks) + 1) + 1)
    <3> DEFINE k == Len(chunks) + 1
    <3>1. k \in Nat /\ AtLeast(source, hint, s, k)
      BY <1>1, <2>1
    <3> HIDE DEF k
    <3>2. AtLeast(source, hint, next, k + 1)
      BY ONLY <1>1, <1>2, <1>3, <2>2, <2>4, <3>1, AtLeastOneMore
    <3>3. QED
      BY <3>2 DEF k
  <2>6. { p \in ValidOf(source, next) : p >= next } = {next}
    BY <1>1, <1>3 DEF ValidOf
  <2>7. QED
    BY <1>2, <1>4, <1>6, <2>5, <2>6 DEF NoneIsWasted
<1>9. QED
  BY <1>6, <1>7, <1>8 DEF SizeInv

(* The end of the records: the last chunk is yielded. *)
LEMMA YieldLastKeepsSize ==
  ASSUME LoopTypeOK, SizeInv, Chunking, YieldLastChunk, UNCHANGED options
  PROVE  SizeInv'
<1>1. /\ source \in Seq(Sizes \cup {Invalid}) /\ Len(source) \in Nat
      /\ next \in Nat /\ next - 1 \in 0 .. Len(source) /\ Len(chunks) \in Nat /\ hint \in Nat
  BY LoopNumbers
<1>2. /\ next > Len(source) /\ chunk # {}
      /\ chunks' = Append(chunks, chunk) /\ chunk' = {} /\ chunkSize' = Brackets
      /\ UNCHANGED <<source, next, hint>>
  BY DEF YieldLastChunk, options
<1>3. YieldedFit' /\ Len(chunks') = Len(chunks) + 1
  BY <1>2, YieldedFitMore DEF SizeInv, ChunkIsCounted
<1>4. ChunkIsCounted'
  BY <1>2, SizeOfNone DEF ChunkIsCounted
<1>5. NoneIsWasted'
  <2>1. PICK s \in chunk : AtLeast(source, hint, s, Len(chunks) + 1)
    BY <1>2 DEF SizeInv, NoneIsWasted
  <2>2. s \in 0 .. next - 1
    BY <1>1 DEF SizeInv, ChunkIsCounted, ValidOf
  <2>3. AtLeast(source, hint, next - 1, Len(chunks) + 1)
    BY <1>1, <2>1, <2>2, AtLeastGrows
  <2>4. QED
    BY <1>2, <1>3, <2>3 DEF NoneIsWasted
<1>6. QED
  BY <1>3, <1>4, <1>5 DEF SizeInv

LEMMA SizeInvNext ==
  ASSUME LoopTypeOK, SizeInv, [Next]_vars
  PROVE  SizeInv'
<1>1. UNCHANGED options
  BY OptionsStay
<1>2. hint' = hint /\ hint \in Nat
  BY <1>1 DEF options, LoopTypeOK, OptionsOK
<1>3. CASE ~ Chunking
  BY <1>2, <1>3 DEF Chunking, SizeInv
<1>4. CASE Chunking
  <2>1. CASE GetData \/ GetNoData
    <3>1. next' = 1 /\ chunk' = {} /\ chunkSize' = Brackets /\ chunks' = <<>> /\ hint' \in Nat
      BY <1>2, <2>1 DEF GetData, GetNoData
    <3>2. next' - 1 = 0 /\ Len(chunks') = 0
      BY <3>1
    <3>3. (ChunkIsCounted /\ YieldedFit /\ NoneIsWasted)'
      BY <3>1, <3>2, SizeOfNone, NoneIsNeeded DEF ChunkIsCounted, YieldedFit, NoneIsWasted
    <3>4. QED
      BY <3>3 DEF SizeInv
  <2>2. CASE SkipInvalid
    BY <1>1, <1>4, <2>2, SkipKeepsSize
  <2>3. CASE Grow
    BY <1>1, <1>4, <2>3, GrowKeepsSize
  <2>4. CASE YieldChunk
    BY <1>1, <1>4, <2>4, YieldKeepsSize
  <2>5. CASE YieldLastChunk
    BY <1>1, <1>4, <2>5, YieldLastKeepsSize
  <2>6. CASE \/ GetDataRaises \/ PullRaises \/ ChunksEnd \/ WriteSucceeds \/ WriteFailsLogged
             \/ WriteRetries \/ WriteFails \/ WriteMeetsInvalid \/ UNCHANGED vars
    <3>1. UNCHANGED <<source, next, chunk, chunkSize, chunks, hint>>
      BY <1>2, <1>4, <2>6 DEF GetDataRaises, PullRaises, ChunksEnd, WriteSucceeds, WriteFailsLogged,
         WriteRetries, WriteFails, WriteMeetsInvalid, ReadsAll, chunkVars, vars
    <3>2. QED
      BY <3>1 DEF SizeInv, ChunkIsCounted, YieldedFit, NoneIsWasted, Chunking
  <2>7. QED
    BY <2>1, <2>2, <2>3, <2>4, <2>5, <2>6 DEF Next
<1>5. QED
  BY <1>3, <1>4

-----------------------------------------------------------------------------
(* The definitions of CollectionLoop and those above agree. *)

LEMMA SizesAgree == \A ps : JsonSize(ps) = SizeOf(source, ps)
  BY DEF JsonSize, SizeOf, Total, MapThenSumSet, MapThenFoldSet

LEMMA PiecesAgree == \A n, cuts : Pieces(n, cuts) = PiecesOf(source, n, cuts)
  BY DEF Pieces, PiecesOf, Valid, ValidOf, HeadOf

LEMMA FitIsMeant == SizeInv => ChunksFit
<1>1. SUFFICES ASSUME ChunkIsCounted, YieldedFit
               PROVE  /\ chunkSize = JsonSize(chunk)
                      /\ \A i \in DOMAIN chunks : chunks[i] # {} /\ JsonSize(chunks[i]) <= hint
  BY DEF SizeInv, ChunksFit
<1>2. QED
  BY <1>1, SizesAgree DEF ChunkIsCounted, YieldedFit

LEMMA MinimalIsMeant == LoopTypeOK /\ SizeInv => ChunksAreMinimal
<1>1. SUFFICES ASSUME LoopTypeOK, SizeInv, Chunking,
                      NEW cuts \in SUBSET (2 .. next - 1),
                      \A ps \in Pieces(next - 1, cuts) : JsonSize(ps) <= hint
               PROVE  Len(chunks) + (IF chunk = {} THEN 0 ELSE 1)
                        <= Cardinality(Pieces(next - 1, cuts) \ {{}})
  BY DEF ChunksAreMinimal
<1>2. /\ source \in Seq(Sizes \cup {Invalid}) /\ Len(source) \in Nat
      /\ next \in Nat /\ next - 1 \in 0 .. Len(source) /\ Len(chunks) \in Nat /\ hint \in Nat
  BY <1>1, LoopNumbers
<1>3. AtLeast(source, hint, next - 1, Len(chunks) + (IF chunk = {} THEN 0 ELSE 1))
  <2>1. CASE chunk = {}
    BY <1>1, <1>2, <2>1 DEF SizeInv, NoneIsWasted
  <2>2. CASE chunk # {}
    <3>1. PICK s \in chunk : AtLeast(source, hint, s, Len(chunks) + 1)
      BY <1>1, <2>2 DEF SizeInv, NoneIsWasted
    <3>2. s \in 0 .. next - 1
      BY <1>1, <1>2 DEF SizeInv, ChunkIsCounted, ValidOf
    <3>3. AtLeast(source, hint, next - 1, Len(chunks) + 1)
      BY <1>2, <3>1, <3>2, AtLeastGrows
    <3>4. QED
      BY <2>2, <3>3
  <2>3. QED
    BY <2>1, <2>2
<1>4. /\ Pieces(next - 1, cuts) = PiecesOf(source, next - 1, cuts)
      /\ \A ps \in PiecesOf(source, next - 1, cuts) : SizeOf(source, ps) <= hint
  BY <1>1, SizesAgree, PiecesAgree
<1>5. QED
  BY <1>1, <1>3, <1>4 DEF AtLeast

-----------------------------------------------------------------------------
LoopInv == LoopTypeOK /\ DeliveryInv /\ SizeInv

(* The inductive invariant of the loop: its types, what has been delivered   *)
(* of the records pulled so far, and the sizes of the chunks.                *)
THEOREM LoopInvariance == Spec => []LoopInv
<1>1. Init => LoopInv
  BY LoopTypeOKInit, DeliveryInvInit, SizeInvInit DEF LoopInv
<1>2. LoopInv /\ [Next]_vars => LoopInv'
  <2>1. SUFFICES ASSUME LoopInv, [Next]_vars PROVE LoopInv'
    OBVIOUS
  <2>2. LoopTypeOK /\ DeliveryInv /\ SizeInv /\ WrittenIsBehind
    BY <2>1 DEF LoopInv, DeliveryInv
  <2>3. LoopTypeOK' /\ DeliveryInv' /\ SizeInv'
    BY <2>1, <2>2, LoopTypeOKNext, DeliveryInvNext, SizeInvNext
  <2>4. QED
    BY <2>3 DEF LoopInv
<1>3. QED
  BY <1>1, <1>2, PTL DEF Spec

(* The types of the loop, of chunk_by_json_size and of a call of write.      *)
THEOREM LoopKeepsTypes == Spec => []TypeOK
<1>1. LoopInv => TypeOK
  BY DEF LoopInv, LoopTypeOK
<1>2. QED
  BY <1>1, LoopInvariance, PTL

(* "The (compact) JSON encoding of each chunk is at most size_hint_bytes"    *)
(* (itertools.py), whatever the records.                                     *)
THEOREM EveryChunkFits == Spec => []ChunksFit
<1>1. LoopInv => ChunksFit
  BY FitIsMeant DEF LoopInv
<1>2. QED
  BY <1>1, LoopInvariance, PTL

(* "Minimally chunk": the greedy chunks are as few as any cut of the same    *)
(* records into chunks that fit.                                             *)
THEOREM GreedyIsMinimal == Spec => []ChunksAreMinimal
<1>1. LoopInv => ChunksAreMinimal
  BY MinimalIsMeant DEF LoopInv
<1>2. QED
  BY <1>1, LoopInvariance, PTL

(* A record reaches the sink at most once per try of write, and in the loop, *)
(* whose write is wrapped in log_error, at most once.                        *)
THEOREM NoneIsDeliveredTwice == Spec => []DeliveredOncePerTry
<1>1. LoopInv => DeliveredOncePerTry
  BY DEF LoopInv, DeliveryInv
<1>2. QED
  BY <1>1, LoopInvariance, PTL

(* When a task is over and the command goes on, each of its records has      *)
(* reached the sink or log_error has logged that one was lost.               *)
THEOREM LossesAreLogged == Spec => []LossIsLogged
<1>1. LoopInv => LossIsLogged
  BY DEF LoopInv, DeliveryInv
<1>2. QED
  BY <1>1, LoopInvariance, PTL
=============================================================================
