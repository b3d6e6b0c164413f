------------------------- MODULE BackfillPoolProofs -------------------------
(***************************************************************************)
(* Proofs about BackfillPool, for every range, file, --concurrently and    *)
(* size of the executor: the pool pulls the iterator as it is meant to be  *)
(* pulled, so its chunks partition the range; no permit of the semaphore   *)
(* is ever lost or given back twice, which bounds how many publications    *)
(* run at a time; and no chunk is published twice or forgotten, so the     *)
(* pool implements ChunkLedger.                                            *)
(***************************************************************************)
EXTENDS BackfillPool, ChunkIterProofs, FiniteSetTheorems

-----------------------------------------------------------------------------
(* The pool is a client of the iterator. *)

(* Every step of the pool is a next() of the iterator or leaves it alone. *)
LEMMA PoolPullsIterator == [Next]_vars => [IterNext]_iterVars
<1> SUFFICES ASSUME [Next]_vars PROVE [IterNext]_iterVars
  OBVIOUS
<1>1. CASE Main
  BY <1>1
  DEF Main, SerialPull, SerialCall, SerialPublished, SerialPublishRaises,
      SerialPullRaises, SerialReturn, Return, IterNext
<1>2. CASE Producer
  BY <1>2
  DEF Producer, ProducerPull, ProducerRaises, ProducerStops, Acquire, Put, PutNone,
      IterNext
<1>3. CASE Consumer
  BY <1>3 DEF Consumer, Get, Submit, Attach, Join
<1>4. CASE Begin \/ \E i \in 1 .. Len(chunks) : End(i)
  BY <1>4 DEF Begin, End
<1>5. CASE UNCHANGED vars
  BY <1>5 DEF vars
<1>6. QED
  BY <1>1, <1>2, <1>3, <1>4, <1>5 DEF Next

(* Whichever way it publishes, `backfill new` asks for every second of its   *)
(* interval once and only once.                                              *)
THEOREM BackfillPartition == Spec => []EverySecondOnce
<1>1. Spec => IterSpec
  BY PoolPullsIterator, PTL DEF Spec, Init, IterSpec
<1>2. QED
  BY <1>1, IterPartition, PTL

-----------------------------------------------------------------------------
(* Types. *)

(* The types hold at the start, ... *)
LEMMA TypeOKInit == Init => TypeOK
<1> SUFFICES ASSUME Init PROVE TypeOK
  OBVIOUS
<1>1. IterTypeOK
  BY IterInvInit DEF Init, IterInv
<1>2. concurrently \in Nat
  BY ConcurrentlyAssumption DEF Init
<1>3. QED
  BY <1>1, <1>2 DEF Init, TypeOK, None, Serial

(* ... and every step keeps them, given that next() keeps the iterator's. *)
LEMMA TypeOKNext == TypeOK /\ IterTypeOK' /\ [Next]_vars => TypeOK'
<1> SUFFICES ASSUME TypeOK, IterTypeOK', [Next]_vars PROVE TypeOK'
  OBVIOUS
<1> USE DEF TypeOK, threadVars, taskVars
<1>0. Len(chunks) \in Nat /\ Begun \subseteq Nat
  BY DEF IterTypeOK, Begun
<1>1. CASE SerialPull \/ SerialCall \/ SerialPublished \/ SerialPublishRaises
  <2>1. CASE SerialPull
    BY <2>1 DEF SerialPull
  <2>2. CASE SerialCall
    BY <1>0, <2>2 DEF SerialCall
  <2>3. CASE SerialPublished \/ SerialPublishRaises
    BY <1>0, <2>3 DEF SerialPublished, SerialPublishRaises
  <2>4. QED
    BY <1>1, <2>1, <2>2, <2>3
<1>2. CASE SerialPullRaises \/ SerialReturn \/ Return
  BY <1>2 DEF SerialPullRaises, SerialReturn, Return
<1>3. CASE ProducerPull \/ ProducerRaises \/ ProducerStops
  BY <1>3 DEF ProducerPull, ProducerRaises, ProducerStops
<1>4. CASE Acquire
  BY <1>4 DEF Acquire, HasSem
<1>5. CASE Put \/ PutNone
  <2>1. CASE Put
    BY <1>0, <2>1 DEF Put
  <2>2. CASE PutNone
    <3>1. None \in Nat
      BY DEF None
    <3>2. QED
      BY <2>2, <3>1 DEF PutNone
  <2>3. QED
    BY <1>5, <2>1, <2>2
<1>6. CASE Get
  BY <1>6 DEF Get
<1>7. CASE Submit \/ Attach \/ Join
  <2>1. CASE Submit
    BY <2>1 DEF Submit
  <2>2. CASE Attach
    BY <2>2 DEF Attach
  <2>3. CASE Join
    BY <2>3 DEF Join
  <2>4. QED
    BY <1>7, <2>1, <2>2, <2>3
<1>8. CASE Begin
  BY <1>8 DEF Begin
<1>9. CASE \E i \in 1 .. Len(chunks) : End(i)
  BY <1>9 DEF End
<1>10. CASE UNCHANGED vars
  BY <1>10 DEF vars, poolVars, iterVars
<1>11. QED
  BY <1>1, <1>2, <1>3, <1>4, <1>5, <1>6, <1>7, <1>8, <1>9, <1>10
  DEF Next, Main, Producer, Consumer

-----------------------------------------------------------------------------
(* Where each chunk is on its way from the producer to its callback. *)

(* How many chunks the producer has put on the work queue. *)
Queued == IF producer \in {"acquire", "put"} THEN Len(chunks) - 1 ELSE Len(chunks)

ProducerCarriesAChunk == producer \in {"acquire", "put"} => Len(chunks) > 0

(* A chunk is on the work queue at most once, before its callback. *)
QueueHoldsNewChunks ==
  /\ \A k \in DOMAIN workQueue : workQueue[k] # None =>
       workQueue[k] \in 1 .. Queued /\ workQueue[k] \notin attached
  /\ \A k, l \in DOMAIN workQueue :
       k < l /\ workQueue[k] # None => workQueue[k] # workQueue[l]

(* The chunk the consumer holds is on the queue no more. *)
ConsumerHoldsANewChunk == consumer \in {"submit", "attach"} =>
  /\ work \in 1 .. Queued /\ work \notin attached
  /\ \A k \in DOMAIN workQueue : workQueue[k] # work

OnlyQueuedChunksGoOn ==
  /\ attached \subseteq 1 .. Queued
  /\ \A k \in DOMAIN execQueue : execQueue[k] \in 1 .. Queued
  /\ Begun \subseteq 1 .. Queued
  /\ ended \subseteq Begun

Flow ==
  /\ main \in {"wait", "returned"}
  /\ ProducerCarriesAChunk
  /\ QueueHoldsNewChunks
  /\ ConsumerHoldsANewChunk
  /\ OnlyQueuedChunksGoOn

SerialIsIdle == producer = "done" /\ consumer = "done" /\ execQueue = <<>> /\ main # "wait"

FlowInv == IF Serial THEN SerialIsIdle ELSE Flow

(* Nothing is on its way at the start. *)
LEMMA FlowInit == Init => FlowInv
  BY DEF Init, IterInit, FlowInv, SerialIsIdle, Flow, ProducerCarriesAChunk,
         QueueHoldsNewChunks, ConsumerHoldsANewChunk, OnlyQueuedChunksGoOn, Queued, Begun

(* Pulling the iterator adds at most one chunk. *)
LEMMA PullLength ==
  ASSUME IterTypeOK
  PROVE  /\ NextYields => Len(chunks') = Len(chunks) + 1
         /\ NextRaises \/ NextStops => chunks' = chunks
<1>1. ASSUME NextYields PROVE Len(chunks') = Len(chunks) + 1
  BY <1>1 DEF IterTypeOK, NextYields, YieldStep, YieldLast, YieldRow
<1>2. ASSUME NextRaises \/ NextStops PROVE chunks' = chunks
  BY <1>2 DEF NextRaises, NextStops, RaiseOnStep, RaiseOnRow, EndOfFile, iterVars
<1>3. QED
  BY <1>1, <1>2

(* publish_all_serial never wakes the tasks of publish_all_parallel. *)
LEMMA SerialStaysIdle ==
  ASSUME TypeOK, Serial, SerialIsIdle, [Next]_vars
  PROVE  Serial' /\ SerialIsIdle'
<1> USE DEF Serial, SerialIsIdle
<1>1. CASE Main
  BY <1>1
  DEF Main, SerialPull, SerialCall, SerialPublished, SerialPublishRaises,
      SerialPullRaises, SerialReturn, Return, taskVars
<1>2. CASE Producer \/ Consumer
  BY <1>2
  DEF Producer, ProducerPull, ProducerRaises, ProducerStops, Acquire, Put, PutNone,
      Consumer, Get, Submit, Attach, Join
<1>3. CASE Begin \/ \E i \in 1 .. Len(chunks) : End(i)
  BY <1>3 DEF Begin, End
<1>4. CASE UNCHANGED vars
  BY <1>4 DEF vars, poolVars
<1>5. QED
  BY <1>1, <1>2, <1>3, <1>4 DEF Next

(* Calling publish_one for a chunk adds that chunk to those begun.           *)
LEMMA BeginAdds ==
  ASSUME begun \in Seq(Nat), NEW c \in Nat, begun' = Append(begun, c)
  PROVE  Begun' = Begun \cup {c}
<1>1. /\ DOMAIN begun = 1 .. Len(begun) /\ Len(begun) \in Nat
      /\ DOMAIN begun' = 1 .. Len(begun) + 1
      /\ begun'[Len(begun) + 1] = c
      /\ \A k \in 1 .. Len(begun) : begun'[k] = begun[k]
  OBVIOUS
<1>2. DOMAIN begun' = DOMAIN begun \cup {Len(begun) + 1}
  BY <1>1
<1>3. Begun' = { begun'[k] : k \in DOMAIN begun' }
  BY DEF Begun
<1>4. Begun' \subseteq Begun \cup {c}
  <2>1. ASSUME NEW k \in DOMAIN begun' PROVE begun'[k] \in Begun \cup {c}
    <3>1. CASE k = Len(begun) + 1
      BY <1>1, <3>1
    <3>2. CASE k \in DOMAIN begun
      <4>1. begun'[k] = begun[k] /\ begun[k] \in Begun
        BY <1>1, <3>2 DEF Begun
      <4>2. QED
        BY <4>1
    <3>3. QED
      BY <1>2, <2>1, <3>1, <3>2
  <2>2. QED
    BY <1>3, <2>1
<1>5. Begun \cup {c} \subseteq Begun'
  <2>1. c \in Begun'
    <3>1. Len(begun) + 1 \in DOMAIN begun'
      BY <1>2
    <3>2. QED
      BY <1>1, <1>3, <3>1
  <2>2. ASSUME NEW k \in DOMAIN begun PROVE begun[k] \in Begun'
    <3>1. k \in DOMAIN begun' /\ begun'[k] = begun[k]
      BY <1>1, <1>2
    <3>2. QED
      BY <1>3, <3>1
  <2>3. QED
    BY <2>1, <2>2 DEF Begun
<1>6. QED
  BY <1>4, <1>5

(* Every step of publish_all_parallel moves a chunk one station on. *)
LEMMA FlowNext ==
  ASSUME TypeOK, IterTypeOK', ~ Serial, Flow, [Next]_vars
  PROVE  ~ Serial' /\ Flow'
<1> USE DEF Flow, ProducerCarriesAChunk, QueueHoldsNewChunks, ConsumerHoldsANewChunk,
            OnlyQueuedChunksGoOn
<1> DEFINE N == Len(chunks)
<1>0. N \in Nat /\ N' \in Nat /\ workQueue \in Seq(Nat) /\ execQueue \in Seq(Nat)
      /\ begun \in Seq(Nat)
  BY DEF TypeOK, IterTypeOK
<1>1. CASE Main
  <2>1. Return
    BY <1>1
    DEF Main, SerialPull, SerialCall, SerialPublished, SerialPublishRaises,
        SerialPullRaises, SerialReturn
  <2>2. Queued' = Queued /\ Begun' = Begun
    BY <2>1 DEF Return, Queued, Begun, iterVars, taskVars
  <2>3. QED
    BY <2>1, <2>2 DEF Return, iterVars, taskVars, Serial
<1>2. CASE ProducerPull
  <2>1. /\ N' = N + 1 /\ producer = "pull" /\ producer' = "acquire"
        /\ UNCHANGED <<concurrently, main, sem, workQueue, consumer, work,
                      execQueue, begun, ended, attached>>
    BY <1>2, PullLength DEF ProducerPull, taskVars, TypeOK
  <2>2. Queued' = Queued /\ Begun' = Begun
    BY <1>0, <2>1 DEF Queued, Begun
  <2>3. QED
    BY <1>0, <2>1, <2>2 DEF Serial
<1>3. CASE ProducerRaises \/ ProducerStops
  <2>1. /\ chunks' = chunks /\ producer = "pull" /\ producer' \in {"died", "sentinel"}
        /\ UNCHANGED <<concurrently, main, sem, workQueue, consumer, work,
                      execQueue, begun, ended, attached>>
    <3>1. ProducerRaises => chunks' = chunks
      BY PullLength DEF ProducerRaises, TypeOK
    <3>2. ProducerStops => chunks' = chunks
      BY PullLength DEF ProducerStops, TypeOK
    <3>3. QED
      BY <1>3, <3>1, <3>2 DEF ProducerRaises, ProducerStops, taskVars
  <2>2. Queued' = Queued /\ Begun' = Begun
    BY <2>1 DEF Queued, Begun
  <2>3. QED
    BY <2>1, <2>2 DEF Serial
<1>4. CASE Acquire
  <2>1. Queued' = Queued /\ Begun' = Begun
    BY <1>4 DEF Acquire, Queued, Begun, iterVars, taskVars
  <2>2. QED
    BY <1>4, <2>1 DEF Acquire, iterVars, taskVars, Serial
<1>5. CASE Put
  <2>1. /\ Queued = N - 1 /\ Queued' = N /\ N > 0 /\ N' = N /\ Begun' = Begun
        /\ workQueue' = Append(workQueue, N) /\ producer' = "pull"
        /\ UNCHANGED <<concurrently, main, consumer, work, execQueue, begun, ended, attached>>
    BY <1>5 DEF Put, Queued, Begun, iterVars, taskVars
  <2>2. 1 .. Queued \subseteq 1 .. Queued' /\ N \notin 1 .. Queued
    BY <1>0, <2>1
  <2>3. N \notin attached /\ N # None
    BY <2>1, <2>2 DEF None
  <2>4. QueueHoldsNewChunks'
    <3>1. /\ DOMAIN workQueue' = 1 .. Len(workQueue) + 1
          /\ DOMAIN workQueue = 1 .. Len(workQueue)
          /\ workQueue'[Len(workQueue) + 1] = N
          /\ \A k \in 1 .. Len(workQueue) : workQueue'[k] = workQueue[k]
      BY <1>0, <2>1
    <3>2. \A k \in DOMAIN workQueue : workQueue[k] # N
      BY <2>2, <2>3
    <3>3. ASSUME NEW k \in DOMAIN workQueue', workQueue'[k] # None
          PROVE  workQueue'[k] \in 1 .. Queued' /\ workQueue'[k] \notin attached'
      BY <1>0, <2>1, <2>2, <2>3, <3>1, <3>3
    <3>4. ASSUME NEW k \in DOMAIN workQueue', NEW l \in DOMAIN workQueue',
                 k < l, workQueue'[k] # None
          PROVE  workQueue'[k] # workQueue'[l]
      <4>1. k \in DOMAIN workQueue /\ workQueue'[k] = workQueue[k]
        BY <1>0, <3>1, <3>4
      <4>2. CASE l = Len(workQueue) + 1
        BY <3>1, <3>2, <4>1, <4>2
      <4>3. CASE l # Len(workQueue) + 1
        <5>1. l \in DOMAIN workQueue /\ workQueue'[l] = workQueue[l]
          BY <1>0, <3>1, <4>3
        <5>2. QED
          BY <3>4, <4>1, <5>1
      <4>4. QED
        BY <4>2, <4>3
    <3>5. QED
      BY <3>3, <3>4
  <2>5. ConsumerHoldsANewChunk'
    BY <1>0, <2>1, <2>2
  <2>6. OnlyQueuedChunksGoOn'
    BY <2>1, <2>2
  <2>7. QED
    BY <2>1, <2>4, <2>5, <2>6 DEF Serial
<1>6. CASE PutNone
  <2>1. /\ Queued' = Queued /\ Begun' = Begun
        /\ workQueue' = Append(workQueue, None) /\ producer' = "done"
        /\ UNCHANGED <<concurrently, main, consumer, work, execQueue, begun, ended, attached>>
    BY <1>6 DEF PutNone, Queued, Begun, iterVars, taskVars
  <2>2. /\ DOMAIN workQueue' = 1 .. Len(workQueue) + 1
        /\ DOMAIN workQueue = 1 .. Len(workQueue)
        /\ workQueue'[Len(workQueue) + 1] = None
        /\ \A k \in 1 .. Len(workQueue) : workQueue'[k] = workQueue[k]
    BY <1>0, <2>1 DEF None
  <2>3. QueueHoldsNewChunks'
    BY <1>0, <2>1, <2>2
  <2>4. ConsumerHoldsANewChunk'
    <3>1. None \notin 1 .. Queued
      BY DEF None
    <3>2. QED
      BY <2>1, <2>2, <3>1
  <2>5. QED
    BY <2>1, <2>3, <2>4 DEF Serial
<1>7. CASE Get
  <2>1. /\ Queued' = Queued /\ Begun' = Begun /\ workQueue # <<>>
        /\ workQueue' = Tail(workQueue) /\ work' = workQueue[1]
        /\ consumer' = (IF work' = None THEN "join" ELSE "submit")
        /\ UNCHANGED <<chunks, concurrently, main, producer, execQueue, begun, ended, attached>>
    BY <1>0, <1>7 DEF Get, Queued, Begun, iterVars, taskVars
  <2>2. /\ DOMAIN workQueue' = 1 .. Len(workQueue) - 1
        /\ DOMAIN workQueue = 1 .. Len(workQueue)
        /\ 1 \in DOMAIN workQueue
        /\ \A k \in 1 .. Len(workQueue) - 1 :
             workQueue'[k] = workQueue[k + 1] /\ k + 1 \in DOMAIN workQueue
    BY <1>0, <2>1
  <2>3. QueueHoldsNewChunks'
    <3>1. \A k \in DOMAIN workQueue' : workQueue'[k] # None =>
            workQueue'[k] \in 1 .. Queued' /\ workQueue'[k] \notin attached'
      BY <2>1, <2>2
    <3>2. ASSUME NEW k \in DOMAIN workQueue', NEW l \in DOMAIN workQueue',
                 k < l, workQueue'[k] # None
          PROVE  workQueue'[k] # workQueue'[l]
      <4>1. /\ k + 1 \in DOMAIN workQueue /\ workQueue'[k] = workQueue[k + 1]
            /\ l + 1 \in DOMAIN workQueue /\ workQueue'[l] = workQueue[l + 1]
        BY <2>2
      <4>2. k + 1 < l + 1
        BY <2>2, <3>2
      <4>3. QED
        BY <3>2, <4>1, <4>2
    <3>3. QED
      BY <3>1, <3>2
  <2>4. ConsumerHoldsANewChunk'
    <3>1. SUFFICES ASSUME work' # None
                   PROVE /\ work' \in 1 .. Queued' /\ work' \notin attached'
                         /\ \A k \in DOMAIN workQueue' : workQueue'[k] # work'
      BY <2>1
    <3>2. work' \in 1 .. Queued' /\ work' \notin attached'
      BY <2>1, <2>2, <3>1
    <3>3. \A k \in DOMAIN workQueue' : 1 < k + 1 /\ workQueue'[k] = workQueue[k + 1]
      BY <1>0, <2>2
    <3>4. QED
      BY <2>1, <2>2, <3>1, <3>2, <3>3
  <2>5. QED
    BY <2>1, <2>3, <2>4 DEF Serial
<1>8. CASE Submit
  <2>1. /\ Queued' = Queued /\ Begun' = Begun /\ consumer = "submit" /\ consumer' = "attach"
        /\ execQueue' = Append(execQueue, work)
        /\ UNCHANGED <<chunks, concurrently, main, producer, workQueue, work, begun,
                      ended, attached>>
    BY <1>8 DEF Submit, Queued, Begun, iterVars
  <2>2. work \in Nat
    BY DEF TypeOK
  <2>3. \A k \in DOMAIN execQueue' : execQueue'[k] \in 1 .. Queued
    BY <1>0, <2>1, <2>2
  <2>4. QED
    BY <2>1, <2>3 DEF Serial
<1>9. CASE Attach
  <2>1. /\ Queued' = Queued /\ Begun' = Begun /\ consumer = "attach" /\ consumer' = "get"
        /\ attached' = attached \cup {work}
        /\ UNCHANGED <<chunks, concurrently, main, producer, workQueue, work, execQueue,
                      begun, ended>>
    BY <1>9 DEF Attach, Queued, Begun, iterVars
  <2>2. QED
    BY <2>1 DEF Serial
<1>10. CASE Join
  <2>1. Queued' = Queued /\ Begun' = Begun
    BY <1>10 DEF Join, Queued, Begun, iterVars, taskVars
  <2>2. QED
    BY <1>10, <2>1 DEF Join, iterVars, taskVars, Serial
<1>11. CASE Begin
  <2>1. /\ Queued' = Queued /\ execQueue # <<>> /\ execQueue' = Tail(execQueue)
        /\ begun' = Append(begun, execQueue[1])
        /\ UNCHANGED <<chunks, concurrently, main, producer, workQueue, consumer, work,
                      ended, attached>>
    BY <1>0, <1>11 DEF Begin, Queued, iterVars, threadVars
  <2>2. Begun' = Begun \cup {execQueue[1]} /\ execQueue[1] \in 1 .. Queued
    <3>1. execQueue[1] \in Nat /\ 1 \in DOMAIN execQueue
      BY <1>0, <2>1
    <3>2. Begun' = Begun \cup {execQueue[1]}
      BY <1>0, <2>1, <3>1, BeginAdds
    <3>3. QED
      BY <3>1, <3>2
  <2>3. \A k \in DOMAIN execQueue' : execQueue'[k] \in 1 .. Queued
    BY <1>0, <2>1
  <2>4. QED
    BY <2>1, <2>2, <2>3 DEF Serial
<1>12. CASE \E i \in 1 .. Len(chunks) : End(i)
  <2>1. PICK i \in 1 .. Len(chunks) : End(i)
    BY <1>12
  <2>2. Queued' = Queued /\ Begun' = Begun /\ ended' \subseteq Begun
    BY <2>1 DEF End, Queued, Begun, Running, iterVars, threadVars
  <2>3. QED
    BY <2>1, <2>2 DEF End, iterVars, threadVars, Serial
<1>13. CASE UNCHANGED vars
  BY <1>13 DEF vars, poolVars, iterVars, Queued, Begun, Serial
<1>14. QED
  BY <1>1, <1>2, <1>3, <1>4, <1>5, <1>6, <1>7, <1>8, <1>9, <1>10, <1>11, <1>12, <1>13
  DEF Next, Producer, Consumer

-----------------------------------------------------------------------------
(* No permit is lost, and none is given back twice. *)

(* The permits that are out can be counted. *)
LEMMA PermitsAreFinite == TypeOK => IsFiniteSet(PermitsOut)
<1> SUFFICES ASSUME TypeOK PROVE IsFiniteSet(PermitsOut)
  OBVIOUS
<1>1. Acquired \in Int
  BY DEF TypeOK, IterTypeOK, Acquired
<1>2. IsFiniteSet(1 .. Acquired)
  BY <1>1, FS_Interval
<1>3. PermitsOut \in SUBSET (1 .. Acquired)
  BY DEF PermitsOut
<1>4. QED
  BY <1>2, <1>3, FS_Subset

(* All the permits are in the semaphore at the start. *)
LEMMA PermitsInit == Init => PermitsConserved
<1> SUFFICES ASSUME Init, HasSem PROVE sem + Cardinality(PermitsOut) = concurrently
  BY DEF PermitsConserved
<1>1. Len(chunks) = 0 /\ sem = concurrently /\ concurrently \in Nat
  BY ConcurrentlyAssumption DEF Init, IterInit
<1>2. producer # "acquire"
  BY DEF Init
<1>3. PermitsOut = {}
  BY <1>1, <1>2 DEF PermitsOut, Acquired
<1>4. QED
  BY <1>1, <1>3, FS_EmptySet

(* A permit taken: by acquire(), for the newest chunk. *)
LEMMA AcquireTakesOne ==
  ASSUME TypeOK, Flow, HasSem, Acquire
  PROVE  /\ Cardinality(PermitsOut') = Cardinality(PermitsOut) + 1
         /\ sem' = sem - 1
<1> DEFINE n == Len(chunks)
<1>1. /\ n \in Nat /\ n > 0 /\ Len(chunks') = n
      /\ Acquired = n - 1 /\ Acquired' = n /\ Queued = n - 1
      /\ ended' = ended /\ attached' = attached
  BY DEF TypeOK, IterTypeOK, Flow, ProducerCarriesAChunk, Acquire, Acquired, Queued,
         iterVars, taskVars
<1>2. n \notin ended /\ n \notin 1 .. n - 1
  BY <1>1 DEF Flow, OnlyQueuedChunksGoOn
<1>3. 1 .. n = (1 .. n - 1) \cup {n}
  BY <1>1
<1>4. PermitsOut' = PermitsOut \cup {n} /\ n \notin PermitsOut
  BY <1>1, <1>2, <1>3 DEF PermitsOut
<1>5. QED
  BY <1>4, PermitsAreFinite, FS_AddElement DEF Acquire

(* A permit given back: once both ended and attached are known of a chunk. *)
LEMMA CallbackReleasesOne ==
  ASSUME TypeOK, Flow, NEW c \in 1 .. Queued, c \notin ended \cap attached,
         ended' \cap attached' = (ended \cap attached) \cup {c},
         Acquired' = Acquired
  PROVE  Cardinality(PermitsOut') = Cardinality(PermitsOut) - 1
<1>1. Len(chunks) \in Nat /\ c \in 1 .. Acquired
  BY DEF TypeOK, IterTypeOK, Queued, Acquired
<1>2. PermitsOut' = PermitsOut \ {c} /\ c \in PermitsOut
  BY <1>1 DEF PermitsOut
<1>3. QED
  BY <1>2, PermitsAreFinite, FS_RemoveElement

(* Every step keeps the sum of the permits, whichever of the two, the end   *)
(* of a publication or the attachment of its callback, comes first.          *)
LEMMA PermitsNext ==
  ASSUME TypeOK, TypeOK', ~ Serial, Flow, PermitsConserved, [Next]_vars
  PROVE  PermitsConserved'
<1> SUFFICES ASSUME HasSem' PROVE sem' + Cardinality(PermitsOut') = concurrently'
  BY DEF PermitsConserved
<1>0. concurrently' = concurrently
  BY DEF Next, Main, SerialPull, SerialCall, SerialPublished, SerialPublishRaises,
         SerialPullRaises, SerialReturn, Return, Producer, ProducerPull, ProducerRaises,
         ProducerStops, Acquire, Put, PutNone, Consumer, Get, Submit, Attach, Join,
         Begin, End, vars, poolVars
<1>1. HasSem /\ sem + Cardinality(PermitsOut) = concurrently
  BY <1>0 DEF HasSem, PermitsConserved
<1>2. /\ Len(chunks) \in Nat /\ sem \in Nat
      /\ Cardinality(PermitsOut) \in Nat
  BY PermitsAreFinite, FS_CardinalityType DEF TypeOK, IterTypeOK
<1>3. CASE Acquire
  BY <1>0, <1>1, <1>2, <1>3, AcquireTakesOne
<1>4. CASE Attach
  <2>1. /\ work \in 1 .. Queued /\ work \notin attached /\ attached' = attached \cup {work}
        /\ ended' = ended /\ Acquired' = Acquired
    BY <1>4 DEF Attach, Flow, ConsumerHoldsANewChunk, Acquired, iterVars
  <2>2. CASE work \in ended
    <3>1. ended' \cap attached' = (ended \cap attached) \cup {work}
      BY <2>1, <2>2
    <3>2. Cardinality(PermitsOut') = Cardinality(PermitsOut) - 1
      BY <2>1, <3>1, CallbackReleasesOne
    <3>3. sem' = sem + 1
      BY <1>1, <1>4, <2>2 DEF Attach
    <3>4. QED
      BY <1>0, <1>1, <1>2, <3>2, <3>3
  <2>3. CASE work \notin ended
    <3>1. PermitsOut' = PermitsOut /\ sem' = sem
      BY <1>4, <2>1, <2>3 DEF PermitsOut, Attach
    <3>2. QED
      BY <1>0, <1>1, <3>1
  <2>4. QED
    BY <2>2, <2>3
<1>5. CASE \E i \in 1 .. Len(chunks) : End(i)
  <2>1. PICK i \in 1 .. Len(chunks) : End(i)
    BY <1>5
  <2>2. /\ i \in 1 .. Queued /\ i \notin ended /\ ended' = ended \cup {i}
        /\ attached' = attached /\ Acquired' = Acquired
    BY <2>1 DEF End, Running, Flow, OnlyQueuedChunksGoOn, Acquired, iterVars, threadVars
  <2>3. CASE i \in attached
    <3>1. ended' \cap attached' = (ended \cap attached) \cup {i}
      BY <2>2, <2>3
    <3>2. Cardinality(PermitsOut') = Cardinality(PermitsOut) - 1
      BY <2>2, <3>1, CallbackReleasesOne
    <3>3. sem' = sem + 1
      BY <1>1, <2>1, <2>3 DEF End
    <3>4. QED
      BY <1>0, <1>1, <1>2, <3>2, <3>3
  <2>4. CASE i \notin attached
    <3>1. PermitsOut' = PermitsOut /\ sem' = sem
      BY <2>1, <2>2, <2>4 DEF PermitsOut, End
    <3>2. QED
      BY <1>0, <1>1, <3>1
  <2>5. QED
    BY <2>3, <2>4
<1>6. CASE ProducerPull
  <2>1. Acquired' = Acquired
    BY <1>2, <1>6, PullLength DEF ProducerPull, Acquired, TypeOK
  <2>2. QED
    BY <1>0, <1>1, <1>6, <2>1 DEF ProducerPull, PermitsOut, taskVars
<1>7. CASE ProducerRaises \/ ProducerStops
  <2>1. Acquired' = Acquired
    <3>1. ProducerRaises => Acquired' = Acquired
      BY PullLength DEF ProducerRaises, Acquired, TypeOK
    <3>2. ProducerStops => Acquired' = Acquired
      BY PullLength DEF ProducerStops, Acquired, TypeOK
    <3>3. QED
      BY <1>7, <3>1, <3>2
  <2>2. QED
    BY <1>0, <1>1, <1>7, <2>1 DEF ProducerRaises, ProducerStops, PermitsOut, taskVars
<1>8. CASE Put \/ PutNone \/ Get \/ Submit \/ Join \/ Begin \/ Return \/ UNCHANGED vars
  <2>1. /\ Acquired' = Acquired /\ sem' = sem
        /\ ended' = ended /\ attached' = attached
    BY <1>8
    DEF Put, PutNone, Get, Submit, Join, Begin, Return, vars, poolVars, iterVars,
        threadVars, taskVars, Acquired
  <2>2. QED
    BY <1>0, <1>1, <2>1 DEF PermitsOut
<1>9. main \in {"wait", "returned"}
  BY DEF Flow
<1>10. QED
  BY <1>3, <1>4, <1>5, <1>6, <1>7, <1>8, <1>9
  DEF Next, Main, Producer, Consumer, SerialPull, SerialCall, SerialPublished,
      SerialPublishRaises, SerialPullRaises, SerialReturn

-----------------------------------------------------------------------------
(* How many publications run at a time. *)

(* In the main thread at most one runs, of the newest chunk. *)
OneAtATime == Serial => Running \subseteq (IF main = "publish" THEN {Len(chunks)} ELSE {})

(* In the executor, no more than there are threads. *)
ThreadsSuffice == ~ Serial => Busy <= MaxWorkers

PoolInv == TypeOK /\ FlowInv /\ PermitsConserved /\ OneAtATime /\ ThreadsSuffice

(* The publications that run can be counted. *)
LEMMA RunningIsFinite ==
  ASSUME TypeOK, Flow
  PROVE  IsFiniteSet(Running) /\ Cardinality(Running) \in Nat
<1>1. Queued \in Int
  BY DEF TypeOK, IterTypeOK, Queued
<1>2. IsFiniteSet(1 .. Queued) /\ Running \in SUBSET (1 .. Queued)
  BY <1>1, FS_Interval DEF Flow, OnlyQueuedChunksGoOn, Running
<1>3. QED
  BY <1>2, FS_Subset, FS_CardinalityType

(* publish_all_serial calls publish_one only after the last one returned. *)
LEMMA OneAtATimeNext ==
  ASSUME TypeOK, Serial, SerialIsIdle, OneAtATime, [Next]_vars
  PROVE  OneAtATime'
<1> USE DEF OneAtATime, SerialIsIdle
<1>1. CASE SerialCall
  <2>1. Begun' = Begun \cup {Len(chunks)}
    BY <1>1, BeginAdds DEF SerialCall, TypeOK, IterTypeOK
  <2>2. QED
    BY <1>1, <2>1 DEF SerialCall, Running, iterVars
<1>2. CASE SerialPull \/ SerialPullRaises \/ SerialReturn
  <2>1. Running' = Running /\ Running = {} /\ main' # "publish"
    BY <1>2 DEF SerialPull, SerialPullRaises, SerialReturn, Running, Begun, taskVars
  <2>2. QED
    BY <2>1
<1>3. CASE SerialPublished \/ SerialPublishRaises
  BY <1>3 DEF SerialPublished, SerialPublishRaises, Running, Begun
<1>4. CASE UNCHANGED vars
  BY <1>4 DEF vars, poolVars, iterVars, Running, Begun, Serial
<1>5. QED
  <2>1. ~ (Producer \/ Consumer \/ Begin \/ Return \/ \E i \in 1 .. Len(chunks) : End(i))
    BY DEF Producer, ProducerPull, ProducerRaises, ProducerStops, Acquire, Put, PutNone,
           Consumer, Get, Submit, Attach, Join, Begin, Return, End
  <2>2. QED
    BY <1>1, <1>2, <1>3, <1>4, <2>1 DEF Next, Main

(* A publication begins only on a free thread, and no task comes back to one. *)
LEMMA ThreadsNext ==
  ASSUME TypeOK, TypeOK', ~ Serial, Flow, Flow', ThreadsSuffice, [Next]_vars
  PROVE  ThreadsSuffice'
<1> SUFFICES Busy' <= MaxWorkers
  BY DEF ThreadsSuffice
<1>0. /\ IsFiniteSet(Running) /\ Cardinality(Running) \in Nat
      /\ Busy \in Nat /\ Busy <= MaxWorkers /\ MaxWorkers \in Nat
  BY RunningIsFinite, MaxWorkersAssumption DEF ThreadsSuffice, Busy
<1>1. CASE Begin
  <2>1. /\ begun' = Append(begun, Head(execQueue)) /\ Head(execQueue) \in Nat
        /\ ended' = ended /\ consumer' = consumer /\ producer' = producer
        /\ Busy < MaxWorkers
    BY <1>1 DEF Begin, threadVars, TypeOK
  <2>2. Begun' = Begun \cup {Head(execQueue)}
    BY <2>1, BeginAdds DEF TypeOK
  <2>3. Running' = Running \/ Running' = Running \cup {Head(execQueue)}
    BY <2>1, <2>2 DEF Running
  <2>4. /\ Cardinality(Running') \in Nat
        /\ Cardinality(Running') <= Cardinality(Running) + 1
    <3> DEFINE S == Running \cup {Head(execQueue)}
    <3>1. IsFiniteSet(S) /\ Cardinality(S) \in Nat
          /\ Cardinality(S) <= Cardinality(Running) + 1
      BY <1>0, FS_AddElement
    <3>2. Running' = Running \/ Running' = S
      BY <2>3
    <3>3. Cardinality(Running') \in {Cardinality(Running), Cardinality(S)}
      BY <3>2, Zenon
    <3> HIDE DEF S
    <3>4. QED
      BY <1>0, <3>1, <3>3
  <2>5. /\ Cardinality(Running') - Cardinality(Running) \in Int
        /\ Busy' = Busy + (Cardinality(Running') - Cardinality(Running))
    BY <1>0, <2>1, <2>4 DEF Busy
  <2>6. QED
    BY <1>0, <2>1, <2>4, <2>5
<1>2. CASE \E i \in 1 .. Len(chunks) : End(i)
  <2>1. PICK i \in 1 .. Len(chunks) : End(i)
    BY <1>2
  <2>2. Running' \in SUBSET Running /\ consumer' = consumer /\ producer' = producer
    BY <2>1 DEF End, Running, Begun, threadVars
  <2>3. Cardinality(Running') <= Cardinality(Running) /\ Cardinality(Running') \in Nat
    BY <1>0, <2>2, FS_Subset, FS_CardinalityType
  <2>4. QED
    BY <1>0, <2>2, <2>3 DEF Busy
<1>3. CASE Producer \/ Consumer \/ Main \/ UNCHANGED vars
  <2>1. Begun' = Begun /\ ended' = ended
    <3>1. main \in {"wait", "returned"}
      BY DEF Flow
    <3>2. begun' = begun /\ ended' = ended
      BY <1>3, <3>1
      DEF Main, SerialPull, SerialCall, SerialPublished, SerialPublishRaises,
          SerialPullRaises, SerialReturn, Return, Producer, ProducerPull,
          ProducerRaises, ProducerStops, Acquire, Put, PutNone,
          Consumer, Get, Submit, Attach, Join, vars, poolVars, taskVars
    <3>3. QED
      BY <3>2 DEF Begun
  <2>2. /\ consumer' = consumer \/ consumer # "done"
        /\ producer' = producer \/ producer \notin {"done", "died"}
    <3>1. CASE Main \/ Consumer \/ UNCHANGED vars
      BY <3>1
      DEF Main, SerialPull, SerialCall, SerialPublished, SerialPublishRaises,
          SerialPullRaises, SerialReturn, Return, Consumer, Get, Submit, Attach, Join,
          vars, poolVars
    <3>2. CASE Producer
      BY <3>2
      DEF Producer, ProducerPull, ProducerRaises, ProducerStops, Acquire, Put, PutNone
    <3>3. QED
      BY <1>3, <3>1, <3>2
  <2>3. Running' = Running
    BY <2>1 DEF Running
  <2>4. QED
    BY <1>0, <2>2, <2>3 DEF Busy
<1>4. QED
  BY <1>1, <1>2, <1>3 DEF Next

(* The inductive invariant holds at the start, ... *)
LEMMA PoolInvInit == Init => PoolInv
<1> SUFFICES ASSUME Init PROVE PoolInv
  OBVIOUS
<1>1. TypeOK /\ FlowInv /\ PermitsConserved
  BY TypeOKInit, FlowInit, PermitsInit
<1>2. Running = {}
  BY DEF Init, Running, Begun
<1>3. Busy <= MaxWorkers
  BY <1>2, FS_EmptySet, MaxWorkersAssumption DEF Busy
<1>4. QED
  BY <1>1, <1>2, <1>3 DEF PoolInv, OneAtATime, ThreadsSuffice

(* ... every step keeps it, ... *)
LEMMA PoolInvNext == PoolInv /\ IterTypeOK' /\ [Next]_vars => PoolInv'
<1> SUFFICES ASSUME PoolInv, IterTypeOK', [Next]_vars PROVE PoolInv'
  OBVIOUS
<1> USE DEF PoolInv
<1>1. TypeOK'
  BY TypeOKNext
<1>2. CASE Serial
  <2>1. SerialIsIdle
    BY <1>2 DEF FlowInv
  <2>2. Serial' /\ SerialIsIdle'
    BY <1>2, <2>1, SerialStaysIdle
  <2>3. OneAtATime'
    BY <1>2, <2>1, OneAtATimeNext
  <2>4. FlowInv' /\ PermitsConserved' /\ ThreadsSuffice'
    BY <2>2 DEF FlowInv, PermitsConserved, HasSem, Serial, ThreadsSuffice
  <2>5. QED
    BY <1>1, <2>3, <2>4
<1>3. CASE ~ Serial
  <2>1. Flow
    BY <1>3 DEF FlowInv
  <2>2. ~ Serial' /\ Flow'
    BY <1>3, <2>1, FlowNext
  <2>3. PermitsConserved' /\ ThreadsSuffice'
    BY <1>1, <1>3, <2>1, <2>2, PermitsNext, ThreadsNext
  <2>4. FlowInv' /\ OneAtATime'
    BY <2>2 DEF FlowInv, OneAtATime
  <2>5. QED
    BY <1>1, <2>3, <2>4
<1>4. QED
  BY <1>2, <1>3

(* ... and it bounds the publications that run: each holds a permit. *)
LEMMA PoolInvBoundsConcurrency == PoolInv => ConcurrencyBounded
<1> SUFFICES ASSUME PoolInv PROVE ConcurrencyBounded
  OBVIOUS
<1> USE DEF PoolInv
<1>1. CASE Serial
  <2>1. Running \in SUBSET {Len(chunks)}
    BY <1>1 DEF OneAtATime
  <2>2. Cardinality(Running) <= 1
    <3>1. IsFiniteSet({Len(chunks)}) /\ Cardinality({Len(chunks)}) = 1
      BY FS_Singleton
    <3>2. QED
      BY <2>1, <3>1, FS_Subset
  <2>3. QED
    BY <1>1, <2>2 DEF ConcurrencyBounded, Serial, FlowInv, SerialIsIdle
<1>2. CASE ~ Serial
  <2>1. Flow /\ Cardinality(Running) \in Nat
    BY <1>2, RunningIsFinite DEF FlowInv
  <2>2. consumer # "done" => Cardinality(Running) < MaxWorkers
    BY <1>2, <2>1, MaxWorkersAssumption DEF ThreadsSuffice, Busy
  <2>3. ASSUME concurrently > 0 PROVE Cardinality(Running) <= concurrently
    <3>1. HasSem /\ concurrently \in Nat /\ sem \in Nat /\ Len(chunks) \in Nat
      BY <1>2, <2>3 DEF Serial, HasSem, TypeOK, IterTypeOK
    <3>2. 1 .. Queued \subseteq 1 .. Acquired
      BY <3>1 DEF Queued, Acquired
    <3>3. Running \in SUBSET PermitsOut
      BY <2>1, <3>2 DEF Flow, OnlyQueuedChunksGoOn, Running, PermitsOut
    <3>4. IsFiniteSet(PermitsOut) /\ Cardinality(PermitsOut) \in Nat
      BY PermitsAreFinite, FS_CardinalityType
    <3>5. Cardinality(Running) <= Cardinality(PermitsOut)
      BY <3>3, <3>4, FS_Subset
    <3>6. QED
      BY <2>1, <3>1, <3>4, <3>5 DEF PermitsConserved
  <2>4. QED
    BY <2>2, <2>3 DEF ConcurrencyBounded
<1>3. QED
  BY <1>1, <1>2

(* The inductive invariant of the pool. *)
THEOREM PoolInvariance == Spec => []PoolInv
<1>1. Spec => []IterTypeOK
  <2>1. Spec => IterSpec
    BY PoolPullsIterator, PTL DEF Spec, Init, IterSpec
  <2>2. IterInv => IterTypeOK
    BY DEF IterInv
  <2>3. QED
    BY <2>1, <2>2, IterInvariance, PTL
<1>2. Init => PoolInv
  BY PoolInvInit
<1>3. PoolInv /\ IterTypeOK' /\ [Next]_vars => PoolInv'
  BY PoolInvNext
<1>4. QED
  BY <1>1, <1>2, <1>3, PTL DEF Spec

(* Every field of the pool keeps its type: no chunk but a number the         *)
(* iterator gave it is ever queued, submitted, begun or ended.               *)
THEOREM PoolTypeOK == Spec => []TypeOK
<1>1. PoolInv => TypeOK
  BY DEF PoolInv
<1>2. QED
  BY <1>1, PoolInvariance, PTL

(* For every --concurrently and any number of chunks: the semaphore's count  *)
(* and the permits out always add up, however a publication's end and the    *)
(* attachment of its callback interleave (lines 272-290).                    *)
THEOREM PoolConservesPermits == Spec => []PermitsConserved
<1>1. PoolInv => PermitsConserved
  BY DEF PoolInv
<1>2. QED
  BY <1>1, PoolInvariance, PTL

(* For every --concurrently > 0 and every executor: no more than             *)
(* --concurrently chunks are ever being published, and while the consumer    *)
(* occupies a thread never as many as the executor has.                      *)
THEOREM PoolBoundsConcurrency == Spec => []ConcurrencyBounded
  BY PoolInvariance, PoolInvBoundsConcurrency, PTL

-----------------------------------------------------------------------------
(* What the pool must know of itself to keep the promise of ChunkLedger. *)

(* Serially the chunks begin and end in the order in which they are pulled. *)
SerialInStep ==
  /\ main = "pull" => Begun = 1 .. Len(chunks) /\ ended = Begun
  /\ main = "call" =>
       Len(chunks) > 0 /\ Begun = 1 .. Len(chunks) - 1 /\ ended = Begun
  /\ main = "publish" =>
       Len(chunks) > 0 /\ Begun = 1 .. Len(chunks) /\ ended = 1 .. Len(chunks) - 1

NotSubmitted(c) == c \notin Begun /\ \A k \in DOMAIN execQueue : execQueue[k] # c

(* A chunk that waits to be submitted was never submitted before, ... *)
WaitingIsNew ==
  /\ \A k \in DOMAIN workQueue : workQueue[k] # None => NotSubmitted(workQueue[k])
  /\ consumer = "submit" => NotSubmitted(work)

(* ... one that waits for a thread waits once and was never begun, ... *)
SubmittedOnce ==
  /\ \A k, l \in DOMAIN execQueue : k < l => execQueue[k] # execQueue[l]
  /\ \A k \in DOMAIN execQueue : execQueue[k] \notin Begun

(* ... and one that was queued is queued still, in the consumer's hands, or *)
(* has its callback.                                                        *)
NoneForgotten ==
  \A c \in 1 .. Queued :
    \/ c \in attached
    \/ consumer \in {"submit", "attach"} /\ work = c
    \/ \E k \in DOMAIN workQueue : workQueue[k] = c

(* The None on the queue comes when the iterator has said that it is        *)
(* exhausted, and after it there is nothing more to get.                    *)
SentinelIsLast ==
  /\ \A k \in DOMAIN workQueue :
       workQueue[k] = None => producer = "done" /\ k = Len(workQueue)
  /\ consumer \in {"join", "done"} => workQueue = <<>> /\ producer = "done"
  /\ consumer = "done" => attached \subseteq ended
  /\ producer \in {"sentinel", "done"} => gstate = "exhausted"

Delivery == WaitingIsNew /\ SubmittedOnce /\ NoneForgotten /\ SentinelIsLast

LedgerInv == IF Serial THEN SerialInStep ELSE Delivery

LEMMA LedgerInvInit == Init => LedgerInv
  BY DEF Init, IterInit, LedgerInv, SerialInStep, Delivery, WaitingIsNew, SubmittedOnce,
         NoneForgotten, SentinelIsLast, Queued, Begun

(* Serially, a chunk is called after it is pulled and ends before the next. *)
LEMMA SerialInStepNext ==
  ASSUME TypeOK, Serial, SerialIsIdle, SerialInStep, [Next]_vars
  PROVE  SerialInStep'
<1> USE DEF SerialInStep
<1>0. Len(chunks) \in Nat
  BY DEF TypeOK, IterTypeOK
<1>1. CASE SerialPull
  <2>1. Len(chunks') = Len(chunks) + 1
    BY <1>1, PullLength DEF SerialPull, TypeOK
  <2>2. Begun' = Begun /\ ended' = ended /\ main' = "call" /\ main = "pull"
    BY <1>1 DEF SerialPull, Begun, taskVars
  <2>3. QED
    BY <1>0, <2>1, <2>2
<1>2. CASE SerialCall
  <2>1. Begun' = Begun \cup {Len(chunks)}
    BY <1>0, <1>2, BeginAdds DEF SerialCall, TypeOK
  <2>2. /\ main = "call" /\ main' = "publish" /\ ended' = ended
        /\ Len(chunks') = Len(chunks)
    BY <1>2 DEF SerialCall, iterVars
  <2>3. (1 .. Len(chunks) - 1) \cup {Len(chunks)} = 1 .. Len(chunks)
    BY <1>0, <2>2
  <2>4. QED
    BY <2>1, <2>2, <2>3
<1>3. CASE SerialPublished \/ SerialPublishRaises
  <2>1. /\ main = "publish" /\ main' \in {"pull", "crashed"} /\ ended' = Begun
        /\ Begun' = Begun /\ Len(chunks') = Len(chunks)
    BY <1>3 DEF SerialPublished, SerialPublishRaises, Begun, iterVars
  <2>2. QED
    BY <2>1
<1>4. CASE SerialPullRaises \/ SerialReturn
  <2>1. main' \in {"crashed", "returned"}
    BY <1>4 DEF SerialPullRaises, SerialReturn
  <2>2. QED
    BY <2>1
<1>5. CASE UNCHANGED vars
  BY <1>5 DEF vars, poolVars, iterVars, Begun
<1>6. QED
  <2>1. ~ (Producer \/ Consumer \/ Begin \/ Return \/ \E i \in 1 .. Len(chunks) : End(i))
    BY DEF SerialIsIdle, Producer, ProducerPull, ProducerRaises, ProducerStops, Acquire,
           Put, PutNone, Consumer, Get, Submit, Attach, Join, Begin, Return, End
  <2>2. QED
    BY <1>1, <1>2, <1>3, <1>4, <1>5, <2>1 DEF Next, Main

(* In parallel, by the station a chunk leaves. *)
LEMMA DeliveryNext ==
  ASSUME TypeOK, ~ Serial, Flow, Delivery, [Next]_vars
  PROVE  Delivery'
<1> USE DEF Delivery, WaitingIsNew, SubmittedOnce, NoneForgotten, SentinelIsLast, NotSubmitted
<1> DEFINE N == Len(chunks)
<1>0. N \in Nat /\ workQueue \in Seq(Nat) /\ execQueue \in Seq(Nat) /\ begun \in Seq(Nat)
  BY DEF TypeOK, IterTypeOK
<1>1. CASE Main
  <2>1. Return
    BY <1>1
    DEF Flow, Main, SerialPull, SerialCall, SerialPublished, SerialPublishRaises,
        SerialPullRaises, SerialReturn
  <2>2. /\ Queued' = Queued /\ Begun' = Begun
        /\ UNCHANGED <<gstate, producer, workQueue, consumer, work, execQueue, ended, attached>>
    BY <2>1 DEF Return, Queued, Begun, iterVars, taskVars
  <2>3. QED
    BY <2>2
<1>2. CASE ProducerPull
  <2>1. /\ N' = N + 1 /\ producer = "pull" /\ producer' = "acquire"
        /\ UNCHANGED <<workQueue, consumer, work, execQueue, begun, ended, attached>>
    BY <1>2, PullLength DEF ProducerPull, taskVars, TypeOK
  <2>2. Queued' = Queued /\ Begun' = Begun
    BY <1>0, <2>1 DEF Queued, Begun
  <2>3. QED
    BY <2>1, <2>2
<1>3. CASE ProducerRaises \/ ProducerStops
  <2>1. /\ chunks' = chunks /\ producer = "pull"
        /\ UNCHANGED <<workQueue, consumer, work, execQueue, begun, ended, attached>>
    <3>1. ProducerRaises => chunks' = chunks
      BY PullLength DEF ProducerRaises, TypeOK
    <3>2. ProducerStops => chunks' = chunks
      BY PullLength DEF ProducerStops, TypeOK
    <3>3. QED
      BY <1>3, <3>1, <3>2 DEF ProducerRaises, ProducerStops, taskVars
  <2>2. producer' = "died" \/ (producer' = "sentinel" /\ gstate' = "exhausted")
    <3>1. NextStops => gstate' = "exhausted"
      BY DEF NextStops, EndOfFile, iterVars
    <3>2. QED
      BY <1>3, <3>1 DEF ProducerRaises, ProducerStops
  <2>3. Queued' = Queued /\ Begun' = Begun
    BY <2>1, <2>2 DEF Queued, Begun
  <2>4. QED
    BY <2>1, <2>2, <2>3
<1>4. CASE Acquire
  <2>1. /\ Queued' = Queued /\ Begun' = Begun /\ producer = "acquire" /\ producer' = "put"
        /\ UNCHANGED <<workQueue, consumer, work, execQueue, ended, attached>>
    BY <1>4 DEF Acquire, Queued, Begun, iterVars, taskVars
  <2>2. QED
    BY <2>1
<1>5. CASE Put
  <2>1. /\ Queued = N - 1 /\ Queued' = N /\ N > 0 /\ Begun' = Begun
        /\ workQueue' = Append(workQueue, N) /\ producer = "put" /\ producer' = "pull"
        /\ UNCHANGED <<consumer, work, execQueue, ended, attached>>
    BY <1>5 DEF Put, Queued, Begun, iterVars, taskVars, Flow, ProducerCarriesAChunk
  <2>2. /\ DOMAIN workQueue' = 1 .. Len(workQueue) + 1
        /\ DOMAIN workQueue = 1 .. Len(workQueue)
        /\ workQueue'[Len(workQueue) + 1] = N
        /\ \A k \in 1 .. Len(workQueue) : workQueue'[k] = workQueue[k]
        /\ Len(workQueue) + 1 \in DOMAIN workQueue'
    BY <1>0, <2>1
  <2>3. NotSubmitted(N)
    BY <1>0, <2>1 DEF Flow, OnlyQueuedChunksGoOn
  <2>4. WaitingIsNew'
    <3>1. \A k \in DOMAIN workQueue' : workQueue'[k] # None => NotSubmitted(workQueue'[k])
      <4>1. \A k \in DOMAIN workQueue' : k \in DOMAIN workQueue \/ k = Len(workQueue) + 1
        BY <1>0, <2>2
      <4>2. QED
        BY <2>2, <2>3, <4>1
    <3>2. QED
      BY <2>1, <3>1
  <2>5. NoneForgotten'
    <3>1. SUFFICES ASSUME NEW c \in 1 .. N, c \notin attached,
                          ~ (consumer \in {"submit", "attach"} /\ work = c)
                   PROVE  \E k \in DOMAIN workQueue' : workQueue'[k] = c
      BY <2>1
    <3>2. CASE c = N
      BY <2>2, <3>2
    <3>3. CASE c # N
      <4>1. c \in 1 .. Queued
        BY <1>0, <2>1, <3>3
      <4>2. PICK k \in DOMAIN workQueue : workQueue[k] = c
        BY <3>1, <4>1
      <4>3. k \in DOMAIN workQueue'
        BY <1>0, <2>2
      <4>4. QED
        BY <2>2, <4>2, <4>3
    <3>4. QED
      BY <3>2, <3>3
  <2>6. SentinelIsLast'
    <3>1. N # None
      BY <2>1 DEF None
    <3>2. \A k \in DOMAIN workQueue' : workQueue'[k] # None
      BY <1>0, <2>1, <2>2, <3>1
    <3>3. QED
      BY <2>1, <3>2
  <2>7. QED
    BY <2>1, <2>4, <2>5, <2>6
<1>6. CASE PutNone
  <2>1. /\ Queued' = Queued /\ Begun' = Begun /\ gstate' = gstate
        /\ workQueue' = Append(workQueue, None) /\ producer = "sentinel" /\ producer' = "done"
        /\ UNCHANGED <<consumer, work, execQueue, ended, attached>>
    BY <1>6 DEF PutNone, Queued, Begun, iterVars, taskVars
  <2>2. /\ DOMAIN workQueue' = 1 .. Len(workQueue) + 1
        /\ DOMAIN workQueue = 1 .. Len(workQueue)
        /\ Len(workQueue') = Len(workQueue) + 1
        /\ workQueue'[Len(workQueue) + 1] = None
        /\ \A k \in 1 .. Len(workQueue) : workQueue'[k] = workQueue[k]
    BY <1>0, <2>1 DEF None
  <2>3. \A k \in DOMAIN workQueue' : k \in DOMAIN workQueue \/ workQueue'[k] = None
    BY <1>0, <2>2
  <2>4. WaitingIsNew'
    <3>1. \A k \in DOMAIN workQueue' : workQueue'[k] # None => NotSubmitted(workQueue'[k])
      BY <2>2, <2>3
    <3>2. QED
      BY <2>1, <3>1
  <2>5. NoneForgotten'
    BY <1>0, <2>1, <2>2
  <2>6. SentinelIsLast'
    BY <1>0, <2>1, <2>2
  <2>7. QED
    BY <2>1, <2>4, <2>5, <2>6
<1>7. CASE Get
  <2>1. /\ Queued' = Queued /\ Begun' = Begun /\ workQueue # <<>> /\ consumer = "get"
        /\ workQueue' = Tail(workQueue) /\ work' = workQueue[1]
        /\ consumer' = (IF work' = None THEN "join" ELSE "submit")
        /\ UNCHANGED <<gstate, producer, execQueue, ended, attached>>
    BY <1>0, <1>7 DEF Get, Queued, Begun, iterVars, taskVars
  <2>2. /\ DOMAIN workQueue' = 1 .. Len(workQueue) - 1
        /\ DOMAIN workQueue = 1 .. Len(workQueue)
        /\ Len(workQueue') = Len(workQueue) - 1
        /\ Len(workQueue) \in Nat /\ 1 \in DOMAIN workQueue
        /\ \A k \in 1 .. Len(workQueue) - 1 :
             workQueue'[k] = workQueue[k + 1] /\ k + 1 \in DOMAIN workQueue
    BY <1>0, <2>1
  <2>3. WaitingIsNew'
    BY <2>1, <2>2
  <2>4. NoneForgotten'
    <3>1. SUFFICES ASSUME NEW c \in 1 .. Queued, c \notin attached, work' # c
                   PROVE  \E k \in DOMAIN workQueue' : workQueue'[k] = c
      BY <2>1 DEF None
    <3>2. PICK k \in DOMAIN workQueue : workQueue[k] = c
      BY <2>1, <3>1
    <3>3. k # 1 /\ k - 1 \in 1 .. Len(workQueue) - 1 /\ (k - 1) + 1 = k
      BY <2>1, <2>2, <3>1, <3>2
    <3>4. QED
      BY <2>2, <3>2, <3>3
  <2>5. SentinelIsLast'
    <3>1. ASSUME work' = None PROVE producer = "done" /\ workQueue' = <<>>
      <4>1. producer = "done" /\ Len(workQueue) = 1
        BY <2>1, <2>2, <3>1
      <4>2. QED
        BY <1>0, <2>1, <2>2, <4>1
    <3>2. \A k \in DOMAIN workQueue' :
            workQueue'[k] = None => producer = "done" /\ k = Len(workQueue')
      <4>1. SUFFICES ASSUME NEW k \in DOMAIN workQueue', workQueue'[k] = None
                     PROVE  producer = "done" /\ k = Len(workQueue')
        OBVIOUS
      <4>2. k + 1 \in DOMAIN workQueue /\ workQueue[k + 1] = None
        BY <2>2, <4>1
      <4>3. producer = "done" /\ k + 1 = Len(workQueue)
        BY <4>2
      <4>4. QED
        BY <2>2, <4>3
    <3>3. QED
      BY <2>1, <3>1, <3>2
  <2>6. QED
    BY <2>1, <2>3, <2>4, <2>5
<1>8. CASE Submit
  <2>1. /\ Queued' = Queued /\ Begun' = Begun /\ consumer = "submit" /\ consumer' = "attach"
        /\ execQueue' = Append(execQueue, work) /\ work \in Nat
        /\ UNCHANGED <<gstate, producer, workQueue, work, ended, attached>>
    BY <1>8 DEF Submit, Queued, Begun, iterVars, TypeOK
  <2>2. /\ DOMAIN execQueue' = 1 .. Len(execQueue) + 1
        /\ DOMAIN execQueue = 1 .. Len(execQueue)
        /\ execQueue'[Len(execQueue) + 1] = work
        /\ \A k \in 1 .. Len(execQueue) : execQueue'[k] = execQueue[k]
    BY <1>0, <2>1
  <2>3. NotSubmitted(work) /\ \A k \in DOMAIN workQueue : workQueue[k] # work
    BY <2>1 DEF Flow, ConsumerHoldsANewChunk
  <2>4. WaitingIsNew'
    BY <1>0, <2>1, <2>2, <2>3
  <2>5. SubmittedOnce'
    <3>1. \A k \in DOMAIN execQueue' : execQueue'[k] \notin Begun'
      <4>1. \A k \in DOMAIN execQueue' : k \in DOMAIN execQueue \/ k = Len(execQueue) + 1
        BY <1>0, <2>2
      <4>2. QED
        BY <2>1, <2>2, <2>3, <4>1
    <3>2. ASSUME NEW k \in DOMAIN execQueue', NEW l \in DOMAIN execQueue', k < l
          PROVE  execQueue'[k] # execQueue'[l]
      <4>1. k \in DOMAIN execQueue /\ execQueue'[k] = execQueue[k]
        BY <1>0, <2>2, <3>2
      <4>2. CASE l = Len(execQueue) + 1
        BY <2>2, <2>3, <4>1, <4>2
      <4>3. CASE l # Len(execQueue) + 1
        <5>1. l \in DOMAIN execQueue /\ execQueue'[l] = execQueue[l]
          BY <1>0, <2>2, <4>3
        <5>2. QED
          BY <3>2, <4>1, <5>1
      <4>4. QED
        BY <4>2, <4>3
    <3>3. QED
      BY <3>1, <3>2
  <2>6. NoneForgotten' /\ SentinelIsLast'
    BY <2>1
  <2>7. QED
    BY <2>4, <2>5, <2>6
<1>9. CASE Attach
  <2>1. /\ Queued' = Queued /\ Begun' = Begun /\ consumer = "attach" /\ consumer' = "get"
        /\ attached' = attached \cup {work}
        /\ UNCHANGED <<gstate, producer, workQueue, work, execQueue, ended>>
    BY <1>9 DEF Attach, Queued, Begun, iterVars
  <2>2. QED
    BY <2>1
<1>10. CASE Join
  <2>1. /\ Queued' = Queued /\ Begun' = Begun /\ consumer = "join" /\ consumer' = "done"
        /\ attached \subseteq ended
        /\ UNCHANGED <<gstate, producer, workQueue, work, execQueue, ended, attached>>
    BY <1>10 DEF Join, Queued, Begun, iterVars, taskVars
  <2>2. QED
    BY <2>1
<1>11. CASE Begin
  <2>1. /\ Queued' = Queued /\ execQueue # <<>> /\ execQueue' = Tail(execQueue)
        /\ begun' = Append(begun, execQueue[1])
        /\ UNCHANGED <<gstate, producer, workQueue, consumer, work, ended, attached>>
    BY <1>0, <1>11 DEF Begin, Queued, iterVars, threadVars
  <2>2. execQueue[1] \in Nat /\ 1 \in DOMAIN execQueue
    BY <1>0, <2>1
  <2>3. Begun' = Begun \cup {execQueue[1]}
    BY <1>0, <2>1, <2>2, BeginAdds
  <2>4. /\ DOMAIN execQueue' = 1 .. Len(execQueue) - 1
        /\ \A k \in DOMAIN execQueue' :
             /\ execQueue'[k] = execQueue[k + 1] /\ k + 1 \in DOMAIN execQueue
             /\ k \in Nat /\ 1 < k + 1
    BY <1>0, <2>1
  <2>5. SubmittedOnce'
    <3>1. \A k \in DOMAIN execQueue' : execQueue'[k] \notin Begun'
      BY <2>2, <2>3, <2>4
    <3>2. ASSUME NEW k \in DOMAIN execQueue', NEW l \in DOMAIN execQueue', k < l
          PROVE  execQueue'[k] # execQueue'[l]
      <4>1. k + 1 < l + 1
        BY <2>4, <3>2
      <4>2. QED
        BY <2>4, <4>1
    <3>3. QED
      BY <3>1, <3>2
  <2>6. ASSUME NEW c, NotSubmitted(c) PROVE NotSubmitted(c)'
    BY <2>2, <2>3, <2>4, <2>6
  <2>7. WaitingIsNew'
    BY <2>1, <2>6
  <2>8. QED
    BY <2>1, <2>5, <2>7
<1>12. CASE \E i \in 1 .. Len(chunks) : End(i)
  <2>1. PICK i \in 1 .. Len(chunks) : End(i)
    BY <1>12
  <2>2. /\ Queued' = Queued /\ Begun' = Begun /\ ended \subseteq ended'
        /\ UNCHANGED <<gstate, producer, workQueue, consumer, work, execQueue, attached>>
    BY <2>1 DEF End, Queued, Begun, iterVars, threadVars
  <2>3. QED
    BY <2>2
<1>13. CASE UNCHANGED vars
  BY <1>13 DEF vars, poolVars, iterVars, Queued, Begun
<1>14. QED
  BY <1>1, <1>2, <1>3, <1>4, <1>5, <1>6, <1>7, <1>8, <1>9, <1>10, <1>11, <1>12, <1>13
  DEF Next, Producer, Consumer
-----------------------------------------------------------------------------
(* Each step of the pool is one step of ChunkLedger, or none. *)

(* The ledger counts as the pool does. *)
LEMMA SameCardinality == \A S : Ledger!Cardinality(S) = Cardinality(S)
  BY Zenon DEF Ledger!Cardinality, Cardinality

(* What the iterator says is written in the ledger. *)
LEMMA NextIsInTheLedger ==
  ASSUME IterTypeOK,
         concurrently' = concurrently, Begun' = Begun, ended' = ended,
         main = "returned" <=> main' = "returned"
  PROVE  /\ NextYields => Ledger!Yield
         /\ NextRaises => UNCHANGED Ledger!vars
         /\ NextStops => Ledger!Exhaust
<1>1. ASSUME NextYields PROVE Ledger!Yield
  <2>1. Len(chunks') = Len(chunks) + 1 /\ gstate # "exhausted"
    BY <1>1, PullLength DEF NextYields, YieldStep, YieldLast, YieldRow
  <2>2. QED
    BY <2>1 DEF Ledger!Yield
<1>2. ASSUME NextRaises PROVE UNCHANGED Ledger!vars
  <2>1. chunks' = chunks /\ gstate # "exhausted" /\ gstate' # "exhausted"
    BY <1>2 DEF NextRaises, RaiseOnStep, RaiseOnRow
  <2>2. QED
    BY <2>1 DEF Ledger!vars
<1>3. ASSUME NextStops PROVE Ledger!Exhaust
  <2>1. chunks' = chunks /\ gstate' = "exhausted"
    BY <1>3 DEF NextStops, EndOfFile, iterVars
  <2>2. QED
    BY <2>1 DEF Ledger!Exhaust
<1>4. QED
  BY <1>1, <1>2, <1>3

(* publish_all_serial. *)
LEMMA SerialKeepsLedger ==
  ASSUME TypeOK, Serial, SerialIsIdle, SerialInStep, [Next]_vars
  PROVE  [Ledger!Next]_Ledger!vars
<1> USE DEF SerialInStep
<1> DEFINE N == Len(chunks)
<1>0. N \in Nat /\ IterTypeOK
  BY DEF TypeOK, IterTypeOK
<1>1. CASE SerialPull
  <2>1. /\ NextYields /\ Begun' = Begun
        /\ UNCHANGED <<concurrently, ended>> /\ main = "pull" /\ main' = "call"
    BY <1>1 DEF SerialPull, Begun, taskVars
  <2>2. QED
    BY <1>0, <2>1, NextIsInTheLedger DEF Ledger!Next
<1>2. CASE SerialCall
  <2>1. /\ main = "call" /\ main' = "publish"
        /\ UNCHANGED <<chunks, gstate, concurrently, ended>>
    BY <1>2 DEF SerialCall, iterVars
  <2>2. Begun' = Begun \cup {N}
    BY <1>0, <1>2, BeginAdds DEF SerialCall, TypeOK
  <2>3. N \in 1 .. N /\ N \notin Begun /\ Begun \ ended = {}
    BY <1>0, <2>1
  <2>4. Cardinality(Begun \ ended) < concurrently
    <3>1. Cardinality(Begun \ ended) = 0
      BY <2>3, FS_EmptySet
    <3>2. QED
      BY <3>1 DEF Serial
  <2>5. Ledger!Begin(N)
    BY <2>1, <2>2, <2>3, <2>4, SameCardinality DEF Ledger!Begin
  <2>6. QED
    BY <2>3, <2>5 DEF Ledger!Next
<1>3. CASE SerialPublished \/ SerialPublishRaises
  <2>1. /\ main = "publish" /\ main' \in {"pull", "crashed"} /\ ended' = Begun
        /\ Begun' = Begun /\ UNCHANGED <<chunks, gstate, concurrently>>
    BY <1>3 DEF SerialPublished, SerialPublishRaises, Begun, iterVars
  <2>2. N \in 1 .. N /\ N \in Begun \ ended /\ Begun = ended \cup {N}
    BY <1>0, <2>1
  <2>3. Ledger!End(N)
    BY <2>1, <2>2 DEF Ledger!End
  <2>4. QED
    BY <2>2, <2>3 DEF Ledger!Next
<1>4. CASE SerialPullRaises
  <2>1. /\ NextRaises \/ NextStops
        /\ Begun' = Begun /\ UNCHANGED <<concurrently, ended>>
        /\ main = "pull" /\ main' = "crashed"
    BY <1>4 DEF SerialPullRaises, Begun, taskVars
  <2>2. QED
    BY <1>0, <2>1, NextIsInTheLedger DEF Ledger!Next
<1>5. CASE SerialReturn
  <2>1. /\ NextStops /\ Begun' = Begun /\ UNCHANGED <<concurrently, ended>>
        /\ main = "pull" /\ main' = "returned"
    BY <1>5 DEF SerialReturn, Begun, taskVars
  <2>2. chunks' = chunks /\ gstate' = "exhausted"
    BY <2>1 DEF NextStops, EndOfFile, iterVars
  <2>3. ended = 1 .. N
    BY <2>1
  <2>4. Ledger!Return
    BY <2>1, <2>2, <2>3 DEF Ledger!Return
  <2>5. QED
    BY <2>4 DEF Ledger!Next
<1>6. CASE UNCHANGED vars
  BY <1>6 DEF vars, poolVars, iterVars, Begun, Ledger!vars
<1>7. QED
  <2>1. ~ (Producer \/ Consumer \/ Begin \/ Return \/ \E i \in 1 .. Len(chunks) : End(i))
    BY DEF SerialIsIdle, Producer, ProducerPull, ProducerRaises, ProducerStops, Acquire,
           Put, PutNone, Consumer, Get, Submit, Attach, Join, Begin, Return, End
  <2>2. QED
    BY <1>1, <1>2, <1>3, <1>4, <1>5, <1>6, <2>1 DEF Next, Main

(* Every chunk that waits for a thread holds a permit beside those that run. *)
LEMMA PermitForTheNext ==
  ASSUME TypeOK, ~ Serial, Flow, PermitsConserved, NEW c \in 1 .. Queued, c \notin Begun,
         concurrently > 0
  PROVE  Cardinality(Running) < concurrently
<1>1. HasSem /\ concurrently \in Nat /\ sem \in Nat /\ Len(chunks) \in Nat
  BY DEF Serial, HasSem, TypeOK, IterTypeOK
<1>2. 1 .. Queued \subseteq 1 .. Acquired
  BY <1>1 DEF Queued, Acquired
<1>3. Running \cup {c} \in SUBSET PermitsOut /\ c \notin Running
  BY <1>2 DEF Flow, OnlyQueuedChunksGoOn, Running, PermitsOut
<1>4. IsFiniteSet(PermitsOut) /\ Cardinality(PermitsOut) \in Nat
  BY PermitsAreFinite, FS_CardinalityType
<1>5. IsFiniteSet(Running) /\ Cardinality(Running) \in Nat
  BY RunningIsFinite
<1>6. Cardinality(Running \cup {c}) = Cardinality(Running) + 1
  BY <1>3, <1>5, FS_AddElement
<1>7. Cardinality(Running \cup {c}) <= Cardinality(PermitsOut)
  BY <1>3, <1>4, FS_Subset
<1>8. QED
  BY <1>1, <1>4, <1>5, <1>6, <1>7 DEF PermitsConserved

(* publish_all_parallel. *)
LEMMA ParallelKeepsLedger ==
  ASSUME TypeOK, ~ Serial, Flow, PermitsConserved, Delivery, [Next]_vars
  PROVE  [Ledger!Next]_Ledger!vars
<1> DEFINE N == Len(chunks)
<1>0. N \in Nat /\ IterTypeOK /\ execQueue \in Seq(Nat) /\ begun \in Seq(Nat)
  BY DEF TypeOK, IterTypeOK
<1>1. CASE Main
  <2>1. Return
    BY <1>1
    DEF Flow, Main, SerialPull, SerialCall, SerialPublished, SerialPublishRaises,
        SerialPullRaises, SerialReturn
  <2>2. /\ Begun' = Begun /\ UNCHANGED <<chunks, gstate, concurrently, ended>>
        /\ main' = "returned" /\ consumer = "done"
    BY <2>1 DEF Return, Begun, iterVars, taskVars
  <2>3. /\ workQueue = <<>> /\ producer = "done" /\ gstate = "exhausted"
        /\ attached \subseteq ended
    BY <2>2 DEF Delivery, SentinelIsLast
  <2>4. Queued = N
    BY <2>3 DEF Queued
  <2>5. 1 .. N \subseteq attached
    BY <2>2, <2>3, <2>4 DEF Delivery, NoneForgotten
  <2>6. ended = 1 .. N
    BY <2>3, <2>4, <2>5 DEF Flow, OnlyQueuedChunksGoOn
  <2>7. Ledger!Return
    BY <2>2, <2>3, <2>6 DEF Ledger!Return
  <2>8. QED
    BY <2>7 DEF Ledger!Next
<1>2. CASE ProducerPull \/ ProducerRaises \/ ProducerStops
  <2>1. producer = "pull" /\ Begun' = Begun /\ UNCHANGED <<concurrently, main, ended>>
    BY <1>2 DEF ProducerPull, ProducerRaises, ProducerStops, taskVars, Begun
  <2>2. NextYields \/ NextRaises \/ NextStops
    BY <1>2 DEF ProducerPull, ProducerRaises, ProducerStops
  <2>3. QED
    BY <1>0, <2>1, <2>2, NextIsInTheLedger DEF Ledger!Next
<1>3. CASE Acquire \/ Put \/ PutNone \/ Consumer \/ UNCHANGED vars
  <2>1. /\ Begun' = Begun
        /\ UNCHANGED <<chunks, gstate, concurrently, main, ended>>
    BY <1>3
    DEF Acquire, Put, PutNone, Consumer, Get, Submit, Attach, Join, vars, poolVars, iterVars,
        taskVars, Begun
  <2>2. QED
    BY <2>1 DEF Ledger!vars
<1>4. CASE Begin
  <2>1. /\ execQueue # <<>> /\ begun' = Append(begun, execQueue[1])
        /\ UNCHANGED <<chunks, gstate, concurrently, main, ended>>
    BY <1>0, <1>4 DEF Begin, iterVars, threadVars
  <2>2. 1 \in DOMAIN execQueue /\ execQueue[1] \in Nat
    BY <1>0, <2>1
  <2>3. Begun' = Begun \cup {execQueue[1]}
    BY <1>0, <2>1, <2>2, BeginAdds
  <2>4. execQueue[1] \in 1 .. Queued /\ execQueue[1] \notin Begun
    BY <2>2 DEF Flow, OnlyQueuedChunksGoOn, Delivery, SubmittedOnce
  <2>5. execQueue[1] \in 1 .. N
    BY <1>0, <2>4 DEF Queued
  <2>6. concurrently > 0 => Cardinality(Begun \ ended) < concurrently
    BY <2>4, PermitForTheNext DEF Running
  <2>7. Ledger!Begin(execQueue[1])
    BY <2>1, <2>3, <2>4, <2>6, SameCardinality DEF Ledger!Begin
  <2>8. QED
    BY <2>5, <2>7 DEF Ledger!Next
<1>5. CASE \E i \in 1 .. Len(chunks) : End(i)
  <2>1. PICK i \in 1 .. N : End(i)
    BY <1>5
  <2>2. /\ i \in Begun \ ended /\ ended' = ended \cup {i} /\ Begun' = Begun
        /\ UNCHANGED <<chunks, gstate, concurrently, main>>
    BY <2>1 DEF End, Running, Begun, iterVars, threadVars
  <2>3. Ledger!End(i)
    BY <2>2 DEF Ledger!End
  <2>4. QED
    BY <2>1, <2>3 DEF Ledger!Next
<1>6. QED
  BY <1>1, <1>2, <1>3, <1>4, <1>5 DEF Next, Producer

(* What the pool knows of itself stays true, ... *)
THEOREM LedgerInvariance == Spec => []LedgerInv
<1>1. Init => LedgerInv
  BY LedgerInvInit
<1>2. PoolInv /\ LedgerInv /\ [Next]_vars => LedgerInv'
  <2> SUFFICES ASSUME PoolInv, LedgerInv, [Next]_vars PROVE LedgerInv'
    OBVIOUS
  <2>1. Serial' <=> Serial
    BY DEF Serial, Next, Main, SerialPull, SerialCall, SerialPublished, SerialPublishRaises,
           SerialPullRaises, SerialReturn, Return, Producer, ProducerPull, ProducerRaises,
           ProducerStops, Acquire, Put, PutNone, Consumer, Get, Submit, Attach, Join,
           Begin, End, vars, poolVars
  <2>2. CASE Serial
    BY <2>1, <2>2, SerialInStepNext DEF LedgerInv, PoolInv, FlowInv
  <2>3. CASE ~ Serial
    BY <2>1, <2>3, DeliveryNext DEF LedgerInv, PoolInv, FlowInv
  <2>4. QED
    BY <2>2, <2>3
<1>3. QED
  BY <1>1, <1>2, PoolInvariance, PTL DEF Spec

(* ... and so the pool implements ChunkLedger, serially and in parallel, for *)
(* every --concurrently and any number of chunks: each chunk the iterator    *)
(* yields is published once, never more of them at a time than allowed, and  *)
(* the command returns only after all of them (publish_all_serial and        *)
(* publish_all_parallel, lines 246-306).                                     *)
THEOREM BackfillKeepsLedger == Spec => KeepsLedger
<1>1. Init => Ledger!Init
  <2> SUFFICES ASSUME Init PROVE Ledger!Init
    OBVIOUS
  <2>1. concurrently \in Nat
    BY ConcurrentlyAssumption DEF Init
  <2>2. Begun = {} /\ Len(chunks) = 0 /\ gstate # "exhausted" /\ main # "returned"
    BY DEF Init, IterInit, Begun
  <2>3. ended = {}
    BY DEF Init
  <2>4. QED
    BY <2>1, <2>2, <2>3 DEF Ledger!Init
<1>2. PoolInv /\ LedgerInv /\ [Next]_vars => [Ledger!Next]_Ledger!vars
  <2> SUFFICES ASSUME PoolInv, LedgerInv, [Next]_vars PROVE [Ledger!Next]_Ledger!vars
    OBVIOUS
  <2>1. CASE Serial
    BY <2>1, SerialKeepsLedger DEF LedgerInv, PoolInv, FlowInv
  <2>2. CASE ~ Serial
    BY <2>2, ParallelKeepsLedger DEF LedgerInv, PoolInv, FlowInv
  <2>3. QED
    BY <2>1, <2>2
<1>3. QED
  BY <1>1, <1>2, PoolInvariance, LedgerInvariance, PTL DEF Spec, KeepsLedger, Ledger!Spec
=============================================================================
