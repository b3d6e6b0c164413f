------------------------------- MODULE Rendezvous ------------------------------
(***************************************************************************)
(* Several backfills, of one cluster each, that publish in step: before    *)
(* and after each chunk, _publish_chunk of sacct_backfill.py waits at a    *)
(* barrier that a rendezvous server keeps for the bounds of that chunk.    *)
(***************************************************************************)
EXTENDS Integers, FiniteSets, Functions

CONSTANTS Processes,     \* the backfills; the barriers are for as many
          NumChunks,     \* each has this many chunks
          MaxRestarts    \* bound: how often somebody starts one again

ASSUME ProcessesAssumption == IsFiniteSet(Processes) /\ NumChunks \in Nat

VARIABLES concurrently,  \* --concurrently of each: 1 is publish_all_serial
          skew,          \* seconds after the first that its relative dates were resolved
          at,            \* where each is with each of its chunks
          killed,        \* backfills that were killed
          life,          \* how often each was started again
          waiting,       \* the server's threads that wait at each barrier
          broken,        \* barriers at which somebody waited in vain
          tried          \* chunks each backfill has tried to publish to the end

meetVars == <<concurrently, skew, at, killed, life, waiting, broken, tried>>

Chunks == 1 .. NumChunks
Key(p, c) == <<skew[p], c>>
Keys == {0, 1} \X Chunks

MeetInit ==
  /\ concurrently \in [Processes -> 1 .. 2]
  /\ skew \in { s \in [Processes -> {0, 1}] : 0 \in Range(s) }
  /\ at = [p \in Processes |-> [c \in Chunks |-> "queued"]]
  /\ killed = {} /\ life = [p \in Processes |-> 0]
  /\ waiting = [k \in Keys |-> {}] /\ broken = {} /\ tried = {}

(* Nobody looks at an exception of a chunk but publish_all_serial, which   *)
(* ends with it.                                                           *)
Serial(p) == concurrently[p] = 1
Down(p) == p \in killed \/ (Serial(p) /\ \E c \in Chunks : at[p][c] = "raised")
Active(p) == { c \in Chunks : at[p][c] \in {"start", "publish", "finish", "unwind"} }
Over(p) == Down(p) \/ \A c \in Chunks : at[p][c] \in {"done", "raised"}

(* threading.Barrier of the server: a thread waits there for its client,   *)
(* and does not notice that the client is gone. The last to arrive frees   *)
(* all of them; a broken barrier stays broken.                             *)
Moved(places) ==
  [p \in Processes |-> [c \in Chunks |->
     IF <<p, c>> \in DOMAIN places THEN places[<<p, c>>] ELSE at[p][c]]]
Clients(threads) == { <<t.process, t.chunk>> :
                        t \in { u \in threads : u.life = life[u.process] /\ u.process \notin killed } }
After == [start |-> "publish", finish |-> "done", unwind |-> "raised"]

Wait(p, c, phase) ==
  LET k == Key(p, c)
      threads == waiting[k] \cup {[process |-> p, life |-> life[p], chunk |-> c, phase |-> phase]}
  IN \/ /\ k \in broken
        /\ at' = [at EXCEPT ![p][c] = "raised"]
        /\ UNCHANGED waiting
     \/ /\ k \notin broken /\ Cardinality(threads) < Cardinality(Processes)
        /\ at' = [at EXCEPT ![p][c] = phase]
        /\ waiting' = [waiting EXCEPT ![k] = threads]
     \/ /\ k \notin broken /\ Cardinality(threads) = Cardinality(Processes)
        /\ at' = Moved([pc \in Clients(threads) |->
                   After[(CHOOSE t \in threads : t.process = pc[1] /\ t.life = life[pc[1]]).phase]])
        /\ waiting' = [waiting EXCEPT ![k] = {}]

(* publish_all_serial or publish_all_parallel comes to a chunk.            *)
CanStart(p, c) ==
  /\ ~Down(p) /\ at[p][c] = "queued"
  /\ \A d \in 1 .. c - 1 : at[p][d] # "queued"
  /\ Cardinality(Active(p)) < concurrently[p]

StartUnmet(p, c) ==   \* mutant: the first of the two waits is missing
  /\ CanStart(p, c)
  /\ at' = [at EXCEPT ![p][c] = "publish"]
  /\ UNCHANGED <<concurrently, skew, killed, life, waiting, broken, tried>>

Start(p, c) ==
  /\ CanStart(p, c)
  /\ Wait(p, c, "start")
  /\ UNCHANGED <<concurrently, skew, killed, life, broken, tried>>

(* The chunk is published, or an exception says that it cannot be and goes *)
(* on after the second wait, which is in a finally.                        *)
FinishUnmet(p, c) ==   \* mutant: the second of the two waits is missing
  /\ ~Down(p) /\ at[p][c] = "publish"
  /\ tried' = tried \cup {<<p, c>>}
  /\ at' = [at EXCEPT ![p][c] = "done"]
  /\ UNCHANGED <<concurrently, skew, killed, life, waiting, broken>>

Finish(p, c) ==
  /\ ~Down(p) /\ at[p][c] = "publish"
  /\ tried' = tried \cup {<<p, c>>}
  /\ Wait(p, c, "finish") \/ Wait(p, c, "unwind")
  /\ UNCHANGED <<concurrently, skew, killed, life, broken>>

(* rendezvous_timeout, or that of the second wait: the barrier breaks, and *)
(* all who wait there get an exception.                                    *)
TimesOutAtStart(k) ==   \* mutant: the second wait is without a timeout
  /\ \E t \in waiting[k] : t.phase = "start"
  /\ broken' = broken \cup {k}
  /\ at' = Moved([pc \in Clients(waiting[k]) |-> "raised"])
  /\ waiting' = [waiting EXCEPT ![k] = {}]
  /\ UNCHANGED <<concurrently, skew, killed, life, tried>>

TimesOut(k) ==
  /\ waiting[k] # {}
  /\ broken' = broken \cup {k}
  /\ at' = Moved([pc \in Clients(waiting[k]) |-> "raised"])
  /\ waiting' = [waiting EXCEPT ![k] = {}]
  /\ UNCHANGED <<concurrently, skew, killed, life, tried>>

Kill(p) ==
  /\ ~Over(p)
  /\ killed' = killed \cup {p}
  /\ UNCHANGED <<concurrently, skew, at, life, waiting, broken, tried>>

(* Somebody starts the backfill again, from its first chunk on. *)
Restart(p) ==
  /\ Down(p) /\ FoldFunction(+, 0, life) < MaxRestarts
  /\ life' = [life EXCEPT ![p] = @ + 1]
  /\ killed' = killed \ {p}
  /\ at' = [at EXCEPT ![p] = [c \in Chunks |-> "queued"]]
  /\ \E s \in {0, 1} : skew' = [skew EXCEPT ![p] = s]
  /\ UNCHANGED <<concurrently, waiting, broken, tried>>

Idle == (\A p \in Processes : Over(p)) /\ UNCHANGED meetVars

Step(p) == \E c \in Chunks : Start(p, c) \/ Finish(p, c)
MeetNext == \/ \E p \in Processes : Step(p) \/ Kill(p) \/ Restart(p)
        \/ \E k \in Keys : TimesOut(k)
        \/ Idle

Fairness == /\ \A p \in Processes : WF_meetVars(Step(p))
            /\ \A k \in Keys : WF_meetVars(TimesOut(k))
MeetSpec == MeetInit /\ [][MeetNext]_meetVars /\ Fairness

-----------------------------------------------------------------------------
(* Serial backfills are in step: what is published at any time is the same *)
(* chunk everywhere, however late any of them comes or dies. One that is   *)
(* killed and started again can meet the thread that still waits for its   *)
(* former self, or its first wait be taken for the second: nothing is said *)
(* of backfills once that has happened.                                    *)
NoneRestarted == \A p \in Processes : life[p] = 0

InStep ==
  \A p, q \in Processes : \A c, d \in Chunks :
    /\ NoneRestarted /\ Serial(p) /\ Serial(q) /\ {p, q} \cap killed = {}
    /\ at[p][c] = "publish" /\ at[q][d] = "publish"
    => Key(p, c) = Key(q, d)

(* A chunk that one backfill has done without an exception has been tried  *)
(* by every other.                                                         *)
DoneIsTried ==
  \A p, q \in Processes, c \in Chunks :
    NoneRestarted /\ at[p][c] = "done" => <<q, c>> \in tried

(* Nobody waits for the others for ever.                                   *)
EveryoneEnds == <>[](\A p \in Processes : Over(p))
=============================================================================
