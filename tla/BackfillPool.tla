---------------------------- MODULE BackfillPool ----------------------------
(***************************************************************************)
(* How `l9gpu sacct_backfill` publishes the chunks of its iterator         *)
(* (src/l9gpu/monitoring/cli/sacct_backfill.py).                           *)
(*                                                                         *)
(* --concurrently 1: publish_all_serial, in the main thread.               *)
(* Otherwise publish_all_parallel: a producer task pulls the iterator,     *)
(* takes a permit of the semaphore for each chunk and queues it; a         *)
(* consumer task takes chunks off that queue and submits one publishing    *)
(* task for each to the executor both of them run on; the done-callback of *)
(* a publishing task gives its permit back. None on the queue ends the     *)
(* consumer, which then waits for the publishing tasks; main waits for     *)
(* both tasks and shuts the executor down.                                 *)
(*                                                                         *)
(* A chunk is known by its number in the order the iterator yields it.     *)
(***************************************************************************)
EXTENDS ChunkIter, FiniteSets

CONSTANTS
  Concurrently,  (* the values of --concurrently                        *)
  MaxWorkers     (* threads of the executor: min(32, cpu_count + 4)     *)

ASSUME ConcurrentlyAssumption == Concurrently \subseteq Nat
ASSUME MaxWorkersAssumption == MaxWorkers \in Nat /\ MaxWorkers >= 3

VARIABLES
  concurrently,  (* --concurrently: 1 serial, 0 no semaphore               *)
  main,          (* "pull" | "call" | "publish" (serial)                   *)
                 (*   | "wait" (parallel) | "returned" | "crashed"         *)
  producer,      (* "pull" | "acquire" | "put" | "sentinel" | "done"       *)
                 (*   | "died"                                             *)
  sem,           (* permits of the semaphore                               *)
  workQueue,     (* work_queue: chunk numbers, and None                    *)
  consumer,      (* "get" | "submit" | "attach" | "join" | "done"          *)
  work,          (* the chunk the consumer holds                           *)
  execQueue,     (* publishing tasks submitted and not started             *)
  begun,         (* chunks whose publish_one was called, in call order     *)
  ended,         (* chunks whose publish_one returned or raised            *)
  attached       (* chunks whose future has the release callback           *)

threadVars == <<main, producer, consumer, work>>
taskVars == <<execQueue, begun, ended, attached>>
poolVars == <<concurrently, main, producer, sem, workQueue, consumer, work,
              execQueue, begun, ended, attached>>
vars == <<iterVars, poolVars>>

None == 0
Serial == concurrently = 1
HasSem == concurrently > 1

Begun == { begun[k] : k \in DOMAIN begun }
Running == Begun \ ended

(* The threads of the executor in use: publishing tasks, consumer, producer. *)
Busy ==
  Cardinality(Running)
    + (IF consumer # "done" THEN 1 ELSE 0)
    + (IF producer \notin {"done", "died"} THEN 1 ELSE 0)

Init ==
  /\ IterInit
  /\ concurrently \in Concurrently
  /\ main = IF Serial THEN "pull" ELSE "wait"
  /\ producer = IF Serial THEN "done" ELSE "pull"
  /\ consumer = IF Serial THEN "done" ELSE "get"
  /\ sem = concurrently
  /\ workQueue = <<>>
  /\ work = None
  /\ execQueue = <<>> /\ begun = <<>>
  /\ ended = {} /\ attached = {}

-----------------------------------------------------------------------------
(* publish_all_serial. *)

SerialPull ==
  /\ main = "pull" /\ NextYields
  /\ main' = "call"
  /\ UNCHANGED <<concurrently, producer, sem, workQueue, consumer, work, taskVars>>

(* After time.sleep(sleep), from the second chunk on. *)
SerialCall ==
  /\ main = "call"
  /\ begun' = Append(begun, Len(chunks))
  /\ main' = "publish"
  /\ UNCHANGED <<iterVars, concurrently, producer, sem, workQueue, consumer,
                 work, execQueue, ended, attached>>

(* publish_one returns, after sacct_publish or with the failure logged. *)
SerialPublished ==
  /\ main = "publish"
  /\ ended' = Begun
  /\ main' = "pull"
  /\ UNCHANGED <<iterVars, concurrently, producer, sem, workQueue, consumer,
                 work, execQueue, begun, attached>>

(* publish_one raises: a broken barrier, a command that does not exist. *)
SerialPublishRaises ==
  /\ main = "publish"
  /\ ended' = Begun
  /\ main' = "crashed"
  /\ UNCHANGED <<iterVars, concurrently, producer, sem, workQueue, consumer,
                 work, execQueue, begun, attached>>

(* The iterator raises, or the first next() finds nothing: StopIteration. *)
SerialPullRaises ==
  /\ main = "pull"
  /\ \/ NextRaises
     \/ begun = <<>> /\ NextStops
  /\ main' = "crashed"
  /\ UNCHANGED <<concurrently, producer, sem, workQueue, consumer, work, taskVars>>

SerialReturn ==
  /\ main = "pull"
  /\ NextStops /\ begun # <<>>
  /\ main' = "returned"
  /\ UNCHANGED <<concurrently, producer, sem, workQueue, consumer, work, taskVars>>

-----------------------------------------------------------------------------
(* producer() of publish_all_parallel. *)

ProducerPull ==
  /\ producer = "pull" /\ NextYields
  /\ producer' = "acquire"
  /\ UNCHANGED <<concurrently, main, sem, workQueue, consumer, work, taskVars>>

(* An exception of the iterator ends the task: None is never queued. *)
ProducerRaises ==
  /\ producer = "pull" /\ NextRaises
  /\ producer' = "died"
  /\ UNCHANGED <<concurrently, main, sem, workQueue, consumer, work, taskVars>>

ProducerStops ==
  /\ producer = "pull" /\ NextStops
  /\ producer' = "sentinel"
  /\ UNCHANGED <<concurrently, main, sem, workQueue, consumer, work, taskVars>>

(* A producer that does not wait for a permit, for mutation testing. *)
AcquireWithoutWaiting ==
  /\ producer = "acquire"
  /\ producer' = "put"
  /\ sem' = IF HasSem THEN sem - 1 ELSE sem
  /\ UNCHANGED <<iterVars, concurrently, main, workQueue, consumer, work, taskVars>>

(* sem.acquire(), when there is a semaphore. *)
Acquire ==
  /\ producer = "acquire"
  /\ HasSem => sem > 0
  /\ sem' = IF HasSem THEN sem - 1 ELSE sem
  /\ producer' = "put"
  /\ UNCHANGED <<iterVars, concurrently, main, workQueue, consumer, work, taskVars>>

Put ==
  /\ producer = "put"
  /\ workQueue' = Append(workQueue, Len(chunks))
  /\ producer' = "pull"
  /\ UNCHANGED <<iterVars, concurrently, main, sem, consumer, work, taskVars>>

PutNone ==
  /\ producer = "sentinel"
  /\ workQueue' = Append(workQueue, None)
  /\ producer' = "done"
  /\ UNCHANGED <<iterVars, concurrently, main, sem, consumer, work, taskVars>>

-----------------------------------------------------------------------------
(* consumer() of publish_all_parallel. *)

(* A consumer that does not wait for its futures, for mutation testing. *)
GetAndLeave ==
  /\ consumer = "get" /\ workQueue # <<>>
  /\ work' = Head(workQueue)
  /\ workQueue' = Tail(workQueue)
  /\ consumer' = IF Head(workQueue) = None THEN "done" ELSE "submit"
  /\ UNCHANGED <<iterVars, concurrently, main, producer, sem, taskVars>>

Get ==
  /\ consumer = "get" /\ workQueue # <<>>
  /\ work' = Head(workQueue)
  /\ workQueue' = Tail(workQueue)
  /\ consumer' = IF Head(workQueue) = None THEN "join" ELSE "submit"
  /\ UNCHANGED <<iterVars, concurrently, main, producer, sem, taskVars>>

Submit ==
  /\ consumer = "submit"
  /\ execQueue' = Append(execQueue, work)
  /\ consumer' = "attach"
  /\ UNCHANGED <<iterVars, concurrently, main, producer, sem, workQueue, work,
                 begun, ended, attached>>

(* A callback that is lost when the future is done already, and one that     *)
(* the submission itself runs, for mutation testing.                         *)
AttachTooLate ==
  /\ consumer = "attach"
  /\ attached' = attached \cup {work}
  /\ consumer' = "get"
  /\ UNCHANGED <<iterVars, concurrently, main, producer, sem, workQueue, work,
                 execQueue, begun, ended>>

AttachReleases ==
  /\ consumer = "attach"
  /\ attached' = attached \cup {work}
  /\ sem' = IF HasSem THEN sem + 1 ELSE sem
  /\ consumer' = "get"
  /\ UNCHANGED <<iterVars, concurrently, main, producer, workQueue, work,
                 execQueue, begun, ended>>

(* f.add_done_callback: runs at once when the future is done already. *)
Attach ==
  /\ consumer = "attach"
  /\ attached' = attached \cup {work}
  /\ sem' = IF HasSem /\ work \in ended THEN sem + 1 ELSE sem
  /\ consumer' = "get"
  /\ UNCHANGED <<iterVars, concurrently, main, producer, workQueue, work,
                 execQueue, begun, ended>>

(* wait(fs), in the finally block. *)
Join ==
  /\ consumer = "join"
  /\ attached \subseteq ended
  /\ consumer' = "done"
  /\ UNCHANGED <<iterVars, concurrently, main, producer, sem, workQueue, work,
                 taskVars>>

-----------------------------------------------------------------------------
(* The executor and main. *)

(* A thread of the executor takes the first task that waits for one. *)
Begin ==
  /\ execQueue # <<>> /\ Busy < MaxWorkers
  /\ begun' = Append(begun, Head(execQueue))
  /\ execQueue' = Tail(execQueue)
  /\ UNCHANGED <<iterVars, concurrently, threadVars, sem, workQueue, ended, attached>>

(* publish_one returns or raises: its future is done either way, nobody      *)
(* looks at its exception, and its callbacks run.                            *)
End(i) ==
  /\ ~ Serial
  /\ i \in Running
  /\ ended' = ended \cup {i}
  /\ sem' = IF HasSem /\ i \in attached THEN sem + 1 ELSE sem
  /\ UNCHANGED <<iterVars, concurrently, threadVars, workQueue, execQueue,
                 begun, attached>>

(* wait([consume_fut, produce_fut]), then the executor's shutdown(wait=True). *)
Return ==
  /\ main = "wait"
  /\ consumer = "done" /\ producer \in {"done", "died"}
  /\ main' = "returned"
  /\ UNCHANGED <<iterVars, concurrently, producer, sem, workQueue, consumer,
                 work, taskVars>>

-----------------------------------------------------------------------------
Main == \/ SerialPull \/ SerialCall \/ SerialPublished \/ SerialPublishRaises
        \/ SerialPullRaises \/ SerialReturn \/ Return
Producer == ProducerPull \/ ProducerRaises \/ ProducerStops
            \/ Acquire \/ Put \/ PutNone
Consumer == Get \/ Submit \/ Attach \/ Join

Next ==
  \/ Main
  \/ Producer
  \/ Consumer
  \/ Begin
  \/ \E i \in 1 .. Len(chunks) : End(i)

(* Every thread runs on, and publish_one ends: publish_chunk bounds its own  *)
(* wait for the two processes it starts.                                     *)
Fairness ==
  /\ WF_vars(Main) /\ WF_vars(Producer) /\ WF_vars(Consumer)
  /\ WF_vars(Begin)
  /\ WF_vars(\E i \in 1 .. Len(chunks) : End(i))

Spec == Init /\ [][Next]_vars
FairSpec == Spec /\ Fairness
-----------------------------------------------------------------------------
TypeOK ==
  /\ IterTypeOK
  /\ concurrently \in Nat
  /\ main \in {"pull", "call", "publish", "wait", "returned", "crashed"}
  /\ producer \in {"pull", "acquire", "put", "sentinel", "done", "died"}
  /\ consumer \in {"get", "submit", "attach", "join", "done"}
  /\ sem \in Nat
  /\ workQueue \in Seq(Nat)
  /\ work \in Nat
  /\ execQueue \in Seq(Nat)
  /\ begun \in Seq(Nat)
  /\ ended \subseteq Nat
  /\ attached \subseteq Nat

(* How many chunks the producer has taken a permit for. *)
Acquired == IF producer = "acquire" THEN Len(chunks) - 1 ELSE Len(chunks)

(* The chunks whose permit is out: taken, and not given back by the callback. *)
PermitsOut == (1 .. Acquired) \ (ended \cap attached)

(* The semaphore's count and the permits that are out always add up to       *)
(* --concurrently: no permit is lost when a publication ends before its      *)
(* callback is attached, and none is given back twice (lines 272-290).       *)
PermitsConserved == HasSem => sem + Cardinality(PermitsOut) = concurrently

(* --concurrently is the "maximum number of publishes that can occur         *)
(* concurrently"; and since the consumer, and the producer while it lives,   *)
(* occupy threads of the same executor, no setting reaches all of them.      *)
ConcurrencyBounded ==
  /\ concurrently > 0 => Cardinality(Running) <= concurrently
  /\ consumer # "done" => Cardinality(Running) < MaxWorkers

(* The backfill keeps the promise of ChunkLedger, in both ways to publish.   *)
Ledger == INSTANCE ChunkLedger WITH
  limit <- concurrently,
  yielded <- Len(chunks),
  exhausted <- gstate = "exhausted",
  begun <- Begun,
  returned <- main = "returned"

KeepsLedger == Ledger!Spec

(* Every backfill ends, by returning or by an exception in the main thread,  *)
(* unless its iterator raised: every queued chunk gets a thread and a permit *)
(* although consumer, producer and publications share one executor.          *)
EndsUnlessRaised == <>(main \in {"returned", "crashed"} \/ gstate = "raised")

(* The doc of `new` tells the operator to retry failed chunks "after the     *)
(* current invocation finishes" (lines 359-362): every invocation finishes.  *)
InvocationFinishes == <>(main \in {"returned", "crashed"})
=============================================================================
