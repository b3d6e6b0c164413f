--------------------------- MODULE RendezvousProofs ---------------------------
(***************************************************************************)
(* Proofs about Rendezvous, for any backfills and any number of chunks:    *)
(* serial backfills publish the same chunk at the same time, and a chunk   *)
(* that one has done all have tried, until one of them is started again.   *)
(***************************************************************************)
EXTENDS Rendezvous, FiniteSetTheorems, TLAPS

Waits == {"start", "finish", "unwind"}
Places == Waits \cup {"queued", "publish", "done", "raised"}
Threads == [process : Processes, life : Nat, chunk : Chunks, phase : Waits]

MeetTypeOK ==
  /\ concurrently \in [Processes -> 1 .. 2]
  /\ skew \in [Processes -> {0, 1}]
  /\ at \in [Processes -> [Chunks -> Places]]
  /\ killed \subseteq Processes
  /\ life \in [Processes -> Nat]
  /\ waiting \in [Keys -> SUBSET Threads]

(* A backfill's first wait for a chunk is over.                              *)
Past(p, c) == at[p][c] \in {"publish", "finish", "unwind", "done"}

(* Every thread at a barrier is of a chunk that waits there.                 *)
ThreadsWait ==
  \A k \in Keys : \A t \in waiting[k] :
    t.life = 0 /\ k = Key(t.process, t.chunk) /\ at[t.process][t.chunk] = t.phase

(* The first wait for a chunk is over for all at once: who is past it has    *)
(* come there with all others, and at the same barrier.                      *)
PastTogether ==
  \A p, q \in Processes, c \in Chunks : Past(p, c) =>
    /\ at[q][c] # "queued" /\ skew[q] = skew[p]
    /\ \A t \in waiting[Key(p, c)] : t.phase # "start"

(* publish_all_serial comes to a chunk when it is through with those before. *)
SerialInOrder ==
  \A p \in Processes : \A c, d \in Chunks :
    Serial(p) /\ c < d /\ at[p][d] # "queued" => at[p][c] \in {"done", "raised"}

(* The second wait comes after the chunk was tried.                          *)
SecondIsTried ==
  \A p \in Processes, c \in Chunks :
    at[p][c] \in {"finish", "unwind", "done"} => <<p, c>> \in tried

FirstLife == ThreadsWait /\ PastTogether /\ SerialInOrder /\ SecondIsTried /\ DoneIsTried

(* A backfill that is started again begins anew at barriers where its former *)
(* self may still wait: all but types is about the first lives.              *)
MeetInv == MeetTypeOK /\ (NoneRestarted => FirstLife)

-----------------------------------------------------------------------------
(* Barriers. *)

(* As many threads as backfills, of different ones: one of each.             *)
LEMMA OneThreadOfEach ==
  ASSUME IsFiniteSet(Processes), NEW T \in SUBSET Threads,
         \A t, u \in T : t.process = u.process => t = u,
         Cardinality(T) = Cardinality(Processes)
  PROVE  \A q \in Processes : \E t \in T : t.process = q
<1> DEFINE f == [t \in T |-> t.process]
<1>1. f \in [T -> Processes] /\ \A t, u \in T : f[t] = f[u] => t = u
  BY DEF Threads
<1>2. f \in Injection(T, Processes)
  BY <1>1 DEF Injection, IsInjective
<1>3. f \in Surjection(T, Processes)
  BY <1>2, FS_Injection
<1>4. \A q \in Processes : \E t \in T : f[t] = q
  BY <1>3 DEF Surjection
<1>5. QED
  BY <1>4

(* The clients of threads, where these are freed. *)
LEMMA MovedAt ==
  ASSUME MeetTypeOK, NEW places, at' = Moved(places),
         \A pc \in DOMAIN places : places[pc] \in Places
  PROVE  /\ at' \in [Processes -> [Chunks -> Places]]
         /\ \A q \in Processes, e \in Chunks :
              at'[q][e] = IF <<q, e>> \in DOMAIN places THEN places[<<q, e>>] ELSE at[q][e]
  BY DEF MeetTypeOK, Moved

LEMMA ClientsAre ==
  ASSUME NEW T, NEW q, NEW e, <<q, e>> \in Clients(T)
  PROVE  q \notin killed /\ \E t \in T : t.process = q /\ t.chunk = e /\ t.life = life[q]
  BY DEF Clients

(* What the last to arrive at a barrier does to all who wait there. *)
LEMMA Freed ==
  ASSUME MeetTypeOK, NEW T \in SUBSET Threads,
         at' = Moved([pc \in Clients(T) |->
                 After[(CHOOSE t \in T : t.process = pc[1] /\ t.life = life[pc[1]]).phase]])
  PROVE  /\ at' \in [Processes -> [Chunks -> Places]]
         /\ \A q \in Processes, e \in Chunks :
              \/ <<q, e>> \notin Clients(T) /\ at'[q][e] = at[q][e]
              \/ /\ <<q, e>> \in Clients(T)
                 /\ \E t \in T : t.process = q /\ t.life = life[q] /\ at'[q][e] = After[t.phase]
<1> DEFINE thread(pc) == CHOOSE t \in T : t.process = pc[1] /\ t.life = life[pc[1]]
           places == [pc \in Clients(T) |-> After[thread(pc).phase]]
<1>1. ASSUME NEW pc \in Clients(T)
      PROVE  thread(pc) \in T /\ thread(pc).process = pc[1] /\ thread(pc).life = life[pc[1]]
  <2>1. \E t \in T : t.process = pc[1] /\ t.life = life[pc[1]]
    BY <1>1 DEF Clients
  <2>2. QED
    BY <2>1
<1>2. \A pc \in DOMAIN places : places[pc] \in Places
  BY <1>1 DEF Threads, After, Waits, Places
<1>3. /\ at' \in [Processes -> [Chunks -> Places]]
      /\ \A q \in Processes, e \in Chunks :
           at'[q][e] = IF <<q, e>> \in DOMAIN places THEN places[<<q, e>>] ELSE at[q][e]
  BY <1>2, MovedAt
<1>4. ASSUME NEW q \in Processes, NEW e \in Chunks, <<q, e>> \in Clients(T)
      PROVE  \E t \in T : t.process = q /\ t.life = life[q] /\ at'[q][e] = After[t.phase]
  <2>1. at'[q][e] = After[thread(<<q, e>>).phase]
    BY <1>3, <1>4
  <2>2. thread(<<q, e>>) \in T /\ thread(<<q, e>>).process = q /\ thread(<<q, e>>).life = life[q]
    BY <1>1, <1>4
  <2>3. QED
    BY <2>1, <2>2
<1>5. QED
  BY <1>3, <1>4, ZenonT(30)

-----------------------------------------------------------------------------
(* Types. *)

LEMMA MeetTypeInit == MeetInit => MeetTypeOK
  BY DEF MeetInit, MeetTypeOK, Places, Waits

LEMMA WaitType ==
  ASSUME MeetTypeOK, NEW p \in Processes, NEW c \in Chunks, NEW phase \in Waits,
         Wait(p, c, phase)
  PROVE  at' \in [Processes -> [Chunks -> Places]] /\ waiting' \in [Keys -> SUBSET Threads]
<1> DEFINE k == Key(p, c)
           new == [process |-> p, life |-> life[p], chunk |-> c, phase |-> phase]
           T == waiting[k] \cup {new}
<1>1. k \in Keys /\ new \in Threads
  BY DEF MeetTypeOK, Key, Keys, Threads
<1>2. T \in SUBSET Threads
  BY <1>1 DEF MeetTypeOK
<1>3. phase \in Places /\ "raised" \in Places
  BY DEF Places
<1>4. CASE at' = [at EXCEPT ![p][c] = "raised"] /\ UNCHANGED waiting
  BY <1>3, <1>4 DEF MeetTypeOK
<1>5. CASE at' = [at EXCEPT ![p][c] = phase] /\ waiting' = [waiting EXCEPT ![k] = T]
  BY <1>1, <1>2, <1>3, <1>5 DEF MeetTypeOK
<1>6. CASE /\ at' = Moved([pc \in Clients(T) |->
                After[(CHOOSE t \in T : t.process = pc[1] /\ t.life = life[pc[1]]).phase]])
           /\ waiting' = [waiting EXCEPT ![k] = {}]
  <2>1. at' \in [Processes -> [Chunks -> Places]]
    BY <1>2, <1>6, Freed
  <2>2. QED
    BY <1>6, <2>1 DEF MeetTypeOK
<1>7. QED
  BY <1>4, <1>5, <1>6 DEF Wait

(* A step that changes no type. *)
LEMMA MeetTypeNext == MeetTypeOK /\ [MeetNext]_meetVars => MeetTypeOK'
<1> SUFFICES ASSUME MeetTypeOK, [MeetNext]_meetVars PROVE MeetTypeOK'
  OBVIOUS
<1>1. ASSUME NEW p \in Processes, NEW c \in Chunks, Start(p, c) \/ Finish(p, c)
      PROVE  MeetTypeOK'
  <2>1. PICK phase \in Waits : Wait(p, c, phase)
    BY <1>1 DEF Start, Finish, Waits
  <2>2. UNCHANGED <<concurrently, skew, killed, life>>
    BY <1>1 DEF Start, Finish
  <2>3. QED
    BY <2>1, <2>2, WaitType DEF MeetTypeOK
<1>2. ASSUME NEW k \in Keys, TimesOut(k) PROVE MeetTypeOK'
  <2>1. /\ at' = Moved([pc \in Clients(waiting[k]) |-> "raised"])
        /\ waiting' = [waiting EXCEPT ![k] = {}]
        /\ UNCHANGED <<concurrently, skew, killed, life>>
    BY <1>2 DEF TimesOut
  <2>2. at' \in [Processes -> [Chunks -> Places]]
    BY <2>1, MovedAt DEF Places
  <2>3. QED
    BY <2>1, <2>2 DEF MeetTypeOK
<1>3. ASSUME NEW p \in Processes, Kill(p) PROVE MeetTypeOK'
  BY <1>3 DEF Kill, MeetTypeOK
<1>4. ASSUME NEW p \in Processes, Restart(p) PROVE MeetTypeOK'
  <2>1. PICK s \in {0, 1} : skew' = [skew EXCEPT ![p] = s]
    BY <1>4 DEF Restart
  <2>2. /\ life' = [life EXCEPT ![p] = life[p] + 1] /\ killed' = killed \ {p}
        /\ at' = [at EXCEPT ![p] = [c \in Chunks |-> "queued"]]
        /\ UNCHANGED <<concurrently, waiting>>
    BY <1>4 DEF Restart
  <2>3. QED
    BY <2>1, <2>2 DEF MeetTypeOK, Places
<1>5. CASE UNCHANGED meetVars
  BY <1>5 DEF meetVars, MeetTypeOK
<1>6. QED
  BY <1>1, <1>2, <1>3, <1>4, <1>5 DEF MeetNext, Step, Idle

-----------------------------------------------------------------------------
(* One wait at a barrier. *)

(* Who comes to the first wait of a chunk, or to the second. *)
Arrives(p, c, phase) ==
  \/ /\ phase = "start" /\ at[p][c] = "queued" /\ tried' = tried
     /\ Serial(p) => \A d \in Chunks : d < c => at[p][d] \in {"done", "raised"}
  \/ /\ phase \in {"finish", "unwind"} /\ at[p][c] = "publish"
     /\ tried' = tried \cup {<<p, c>>}

(* A broken barrier raises. *)
LEMMA RaiseKeepsFirstLife ==
  ASSUME MeetTypeOK, FirstLife, NEW p \in Processes, NEW c \in Chunks, NEW phase \in Waits,
         Arrives(p, c, phase), UNCHANGED <<concurrently, skew, killed, life, waiting>>,
         at' = [at EXCEPT ![p][c] = "raised"]
  PROVE  FirstLife'
<1>1. /\ at'[p][c] = "raised" /\ at[p][c] \in {"queued", "publish"}
      /\ \A q \in Processes, e \in Chunks : <<q, e>> # <<p, c>> => at'[q][e] = at[q][e]
      /\ tried \subseteq tried'
  BY DEF MeetTypeOK, Arrives
<1>2. ThreadsWait'
  <2>1. \A k \in Keys : \A t \in waiting[k] :
          /\ t.process \in Processes /\ t.chunk \in Chunks /\ t.phase \in Waits
    BY DEF MeetTypeOK, Threads
  <2>2. QED
    BY <1>1, <2>1 DEF FirstLife, ThreadsWait, Key, Waits
<1>3. PastTogether'
  BY <1>1 DEF FirstLife, PastTogether, Past, Key
<1>4. SerialInOrder'
  BY <1>1 DEF FirstLife, SerialInOrder, Serial, Arrives, Chunks
<1>5. SecondIsTried' /\ DoneIsTried'
  BY <1>1 DEF FirstLife, SecondIsTried, DoneIsTried, NoneRestarted
<1>6. QED
  BY <1>2, <1>3, <1>4, <1>5 DEF FirstLife

(* Not all are there: the thread waits. *)
LEMMA WaitingKeepsFirstLife ==
  ASSUME MeetTypeOK, FirstLife, NoneRestarted,
         NEW p \in Processes, NEW c \in Chunks, NEW phase \in Waits,
         Arrives(p, c, phase), UNCHANGED <<concurrently, skew, killed, life>>,
         at' = [at EXCEPT ![p][c] = phase],
         waiting' = [waiting EXCEPT ![Key(p, c)] = waiting[Key(p, c)] \cup
                       {[process |-> p, life |-> life[p], chunk |-> c, phase |-> phase]}]
  PROVE  FirstLife'
<1> DEFINE new == [process |-> p, life |-> life[p], chunk |-> c, phase |-> phase]
<1>1. /\ at'[p][c] = phase /\ at[p][c] \in {"queued", "publish"}
      /\ \A q \in Processes, e \in Chunks : <<q, e>> # <<p, c>> => at'[q][e] = at[q][e]
      /\ tried \subseteq tried' /\ life[p] = 0
  BY DEF MeetTypeOK, Arrives, NoneRestarted
<1>2. Key(p, c) \in Keys /\ waiting \in [Keys -> SUBSET Threads]
  BY DEF MeetTypeOK, Key, Keys
<1>3. \A k \in Keys : \A t \in waiting'[k] : t \in waiting[k] \/ (k = Key(p, c) /\ t = new)
  BY <1>2
<1>4. ThreadsWait'
  <2>1. SUFFICES ASSUME NEW k \in Keys, NEW t \in waiting'[k]
                 PROVE  /\ t.life = 0 /\ k = <<skew[t.process], t.chunk>>
                        /\ at'[t.process][t.chunk] = t.phase
    BY DEF ThreadsWait, Key
  <2>2. CASE t \in waiting[k]
    <3>1. t.process \in Processes /\ t.chunk \in Chunks /\ t.phase \in Waits
      BY <1>2, <2>2 DEF Threads
    <3>2. /\ t.life = 0 /\ k = <<skew[t.process], t.chunk>>
          /\ at[t.process][t.chunk] = t.phase
      BY <2>2 DEF FirstLife, ThreadsWait, Key
    <3>3. QED
      BY <1>1, <3>1, <3>2 DEF Waits
  <2>3. CASE k = Key(p, c) /\ t = new
    BY <1>1, <2>3 DEF Key
  <2>4. QED
    BY <1>3, <2>2, <2>3
<1>5. PastTogether'
  <2>1. SUFFICES ASSUME NEW q \in Processes, NEW r \in Processes, NEW e \in Chunks,
                        at'[q][e] \in {"publish", "finish", "unwind", "done"}
                 PROVE  /\ at'[r][e] # "queued" /\ skew[r] = skew[q]
                        /\ \A t \in waiting'[Key(q, e)] : t.phase # "start"
    BY DEF PastTogether, Past, Key
  <2>2. Past(q, e)
    BY <1>1, <2>1 DEF Past, Arrives
  <2>3. /\ \A s \in Processes : at[s][e] # "queued" /\ skew[s] = skew[q]
        /\ \A t \in waiting[Key(q, e)] : t.phase # "start"
    BY <2>2 DEF FirstLife, PastTogether
  <2>4. at'[r][e] # "queued"
    BY <1>1, <2>3 DEF Waits
  <2>5. ASSUME NEW t \in waiting'[Key(q, e)] PROVE t.phase # "start"
    <3>1. Key(q, e) \in Keys
      BY DEF MeetTypeOK, Key, Keys
    <3>2. CASE t \in waiting[Key(q, e)]
      BY <2>3, <3>2
    <3>3. CASE Key(q, e) = Key(p, c) /\ t = new
      <4>1. e = c
        BY <3>3 DEF Key
      <4>2. phase # "start"
        BY <2>3, <4>1 DEF Arrives
      <4>3. QED
        BY <3>3, <4>2
    <3>4. QED
      BY <1>3, <2>5, <3>1, <3>2, <3>3
  <2>6. QED
    BY <2>3, <2>4, <2>5
<1>6. SerialInOrder'
  BY <1>1 DEF FirstLife, SerialInOrder, Serial, Arrives, Chunks
<1>7. SecondIsTried' /\ DoneIsTried'
  BY <1>1 DEF FirstLife, SecondIsTried, DoneIsTried, NoneRestarted, Arrives, Waits
<1>8. QED
  BY <1>4, <1>5, <1>6, <1>7 DEF FirstLife

(* What the last to arrive at a barrier finds there: a thread of each, first  *)
(* waits if it comes for the first time, second waits for the second.        *)
AllThere(p, c, phase, new, T) ==
  /\ \A t \in T : /\ t.process \in Processes /\ t.chunk = c /\ t.life = 0
                  /\ <<skew[t.process], c>> = Key(p, c)
                  /\ t = new \/ at[t.process][c] = t.phase
  /\ \A q \in Processes : \E t \in T : t.process = q
  /\ \/ /\ phase = "start" /\ at[p][c] = "queued"
        /\ \A t \in T : t.phase = "start"
     \/ /\ phase \in {"finish", "unwind"} /\ at[p][c] = "publish"
        /\ \A t \in T : t.phase \in {"finish", "unwind"}

(* Every thread goes on, unless its client has been killed: to the chunk     *)
(* after a first wait, to the end of it after a second.                      *)
Frees(T) ==
  at' = Moved([pc \in Clients(T) |->
           After[(CHOOSE t \in T : t.process = pc[1] /\ t.life = life[pc[1]]).phase]])

AllGoOn(p, c, phase) ==
  /\ \A q \in Processes, e \in Chunks : e # c => at'[q][e] = at[q][e]
  /\ \A q \in Processes :
       \/ q # p /\ at'[q][c] = at[q][c] /\ at[q][c] \in Waits
       \/ /\ phase = "start" /\ at'[q][c] = "publish"
          /\ at[q][c] \in {"queued", "start"}
       \/ /\ phase # "start" /\ at'[q][c] \in {"done", "raised"}
          /\ at[q][c] \in {"publish", "finish", "unwind"}

(* All are at the same barrier, and for the same of its two waits.           *)
SameWait(p, c, phase) ==
  \A q \in Processes : /\ <<skew[q], c>> = Key(p, c)
                       /\ \/ q = p
                          \/ phase = "start" /\ at[q][c] = "start"
                          \/ phase # "start" /\ at[q][c] \in {"finish", "unwind"}

LEMMA ThreadsAtTheBarrier ==
  ASSUME IsFiniteSet(Processes), MeetTypeOK, FirstLife, NoneRestarted,
         NEW p \in Processes, NEW c \in Chunks, NEW phase \in Waits,
         Arrives(p, c, phase),
         NEW new, new = [process |-> p, life |-> life[p], chunk |-> c, phase |-> phase],
         NEW T, T = waiting[Key(p, c)] \cup {new},
         Cardinality(T) = Cardinality(Processes)
  PROVE  T \in SUBSET Threads /\ AllThere(p, c, phase, new, T)
<1> DEFINE k == Key(p, c)
<1>1. /\ at[p][c] \in {"queued", "publish"}
      /\ \A q \in Processes : life[q] = 0
  BY DEF Arrives, NoneRestarted
<1>2. k \in Keys /\ waiting \in [Keys -> SUBSET Threads] /\ new \in Threads
  BY DEF MeetTypeOK, Key, Keys, Threads
<1>3. T \in SUBSET Threads
  BY <1>2
<1>4. \A t \in T : /\ t.process \in Processes /\ t.chunk = c /\ t.life = 0 /\ t.phase \in Waits
                   /\ <<skew[t.process], c>> = k
                   /\ t = new \/ at[t.process][c] = t.phase
  <2>1. \A t \in waiting[k] : /\ t.life = 0 /\ k = <<skew[t.process], t.chunk>>
                              /\ at[t.process][t.chunk] = t.phase
    BY <1>2 DEF FirstLife, ThreadsWait, Key
  <2>2. \A t \in T : t.process \in Processes /\ t.phase \in Waits
    BY <1>3 DEF Threads
  <2>3. k = <<skew[p], c>>
    BY DEF Key
  <2>4. QED
    BY <1>1, <2>1, <2>2, <2>3
<1>5. \A q \in Processes : \E t \in T : t.process = q
  <2>1. ASSUME NEW t \in T, NEW u \in T, t.process = u.process PROVE t = u
    <3>1. t.phase = u.phase /\ t.chunk = u.chunk /\ t.life = u.life
      BY <1>1, <1>4, <2>1 DEF Waits
    <3>2. QED
      BY <1>3, <2>1, <3>1 DEF Threads
  <2>2. QED
    BY <1>3, <2>1, OneThreadOfEach
<1>6. CASE phase = "start"
  <2>1. at[p][c] = "queued"
    BY <1>6 DEF Arrives
  <2>2. \A q \in Processes : ~ Past(q, c)
    BY <2>1 DEF FirstLife, PastTogether
  <2>3. \A t \in T : t.phase = "start"
    BY <1>4, <1>6, <2>2 DEF Past, Waits
  <2>4. QED
    BY <1>3, <1>4, <1>5, <1>6, <2>1, <2>3 DEF AllThere
<1>7. CASE phase # "start"
  <2>1. phase \in {"finish", "unwind"} /\ at[p][c] = "publish"
    BY <1>7 DEF Arrives
  <2>2. \A t \in waiting[k] : t.phase # "start"
    BY <2>1 DEF FirstLife, PastTogether, Past
  <2>3. \A t \in T : t.phase \in {"finish", "unwind"}
    BY <1>4, <2>1, <2>2 DEF Waits
  <2>4. QED
    BY <1>3, <1>4, <1>5, <2>1, <2>3 DEF AllThere
<1>8. QED
  BY <1>6, <1>7

LEMMA PlacesAfterTheBarrier ==
  ASSUME MeetTypeOK, NEW p \in Processes, NEW c \in Chunks, NEW phase \in Waits,
         p \notin killed, NoneRestarted,
         NEW new, new.process = p, new.chunk = c,
         NEW T \in SUBSET Threads, new \in T,
         AllThere(p, c, phase, new, T), Frees(T)
  PROVE  AllGoOn(p, c, phase)
<1>0. /\ \A t \in T : t.chunk = c /\ t.life = 0 /\ (t = new \/ at[t.process][c] = t.phase)
      /\ \A q \in Processes : \E t \in T : t.process = q
      /\ \/ /\ phase = "start" /\ at[p][c] = "queued"
            /\ \A t \in T : t.phase = "start"
         \/ /\ phase \in {"finish", "unwind"} /\ at[p][c] = "publish"
            /\ \A t \in T : t.phase \in {"finish", "unwind"}
  BY DEF AllThere
<1>1. \A q \in Processes, e \in Chunks :
        \/ <<q, e>> \notin Clients(T) /\ at'[q][e] = at[q][e]
        \/ /\ <<q, e>> \in Clients(T)
           /\ \E t \in T : t.process = q /\ t.life = life[q] /\ at'[q][e] = After[t.phase]
  BY Freed DEF Frees
<1>2. <<p, c>> \in Clients(T)
  <2>1. new.life = 0 /\ life[new.process] = 0 /\ new.process \notin killed
    BY <1>0 DEF NoneRestarted
  <2>2. new \in { t \in T : t.life = life[t.process] /\ t.process \notin killed }
    BY <2>1
  <2>3. <<new.process, new.chunk>> \in Clients(T)
    BY <2>2 DEF Clients
  <2>4. QED
    BY <2>3
<1>3. ASSUME NEW q \in Processes, NEW e \in Chunks, <<q, e>> \in Clients(T) PROVE e = c
  <2>1. \E t \in T : t.chunk = e
    BY <1>3, ClientsAre
  <2>2. QED
    BY <1>0, <2>1
<1>4. \A q \in Processes, e \in Chunks : e # c => at'[q][e] = at[q][e]
  BY <1>1, <1>3
<1>5. ASSUME NEW q \in Processes
      PROVE  \/ q # p /\ at'[q][c] = at[q][c] /\ at[q][c] \in Waits
             \/ /\ phase = "start" /\ at'[q][c] = "publish"
                /\ at[q][c] \in {"queued", "start"}
             \/ /\ phase # "start" /\ at'[q][c] \in {"done", "raised"}
                /\ at[q][c] \in {"publish", "finish", "unwind"}
  <2>1. CASE <<q, c>> \in Clients(T)
    <3>0. \E t \in T : t.process = q /\ t.life = life[q] /\ at'[q][c] = After[t.phase]
      BY <1>1, <2>1, Zenon
    <3>1. PICK t \in T : t.process = q /\ t.life = life[q] /\ at'[q][c] = After[t.phase]
      BY <3>0, Zenon
    <3>2. at[q][c] = t.phase \/ q = p
      BY <1>0, <3>1
    <3>3. CASE phase = "start"
      <4>1. t.phase = "start" /\ at[p][c] = "queued"
        BY <1>0, <3>3
      <4>2. After["start"] = "publish"
        BY DEF After
      <4>3. QED
        BY <3>1, <3>2, <3>3, <4>1, <4>2
    <3>4. CASE phase # "start"
      <4>1. t.phase \in {"finish", "unwind"} /\ at[p][c] = "publish"
        BY <1>0, <3>4
      <4>2. After["finish"] = "done" /\ After["unwind"] = "raised"
        BY DEF After
      <4>3. QED
        BY <3>1, <3>2, <3>4, <4>1, <4>2
    <3>5. QED
      BY <3>3, <3>4
  <2>2. CASE <<q, c>> \notin Clients(T)
    <3>1. q # p /\ at'[q][c] = at[q][c]
      BY <1>1, <1>2, <2>2
    <3>2. PICK t \in T : t.process = q
      BY <1>0
    <3>3. at[q][c] = t.phase /\ t.phase \in Waits
      BY <1>0, <3>1, <3>2 DEF Threads
    <3>4. QED
      BY <3>1, <3>3
  <2>3. QED
    BY <2>1, <2>2
<1>6. QED
  BY <1>4, <1>5 DEF AllGoOn

LEMMA FreeingKeepsFirstLife ==
  ASSUME MeetTypeOK, FirstLife, NoneRestarted,
         NEW p \in Processes, NEW c \in Chunks, NEW phase \in Waits,
         Arrives(p, c, phase), UNCHANGED <<concurrently, skew, killed, life>>,
         SameWait(p, c, phase), AllGoOn(p, c, phase),
         waiting' = [waiting EXCEPT ![Key(p, c)] = {}]
  PROVE  FirstLife'
<1> DEFINE k == Key(p, c)
<1>1. at[p][c] \in {"queued", "publish"} /\ tried \subseteq tried'
  BY DEF Arrives
<1>2. k \in Keys /\ waiting \in [Keys -> SUBSET Threads]
  BY DEF MeetTypeOK, Key, Keys
<1> USE DEF SameWait, AllGoOn
<1>3. ThreadsWait'
  <2>1. SUFFICES ASSUME NEW j \in Keys, NEW t \in waiting'[j]
                 PROVE  /\ t.life = 0 /\ j = <<skew[t.process], t.chunk>>
                        /\ at'[t.process][t.chunk] = t.phase
    BY DEF ThreadsWait, Key
  <2>2. j # k /\ t \in waiting[j]
    BY <1>2, <2>1
  <2>3. t.process \in Processes /\ t.chunk \in Chunks
    BY <1>2, <2>2 DEF Threads
  <2>4. t.life = 0 /\ j = <<skew[t.process], t.chunk>> /\ at[t.process][t.chunk] = t.phase
    BY <2>2 DEF FirstLife, ThreadsWait, Key
  <2>5. t.chunk # c
    BY <2>2, <2>3, <2>4
  <2>6. QED
    BY <2>3, <2>4, <2>5
<1>4. PastTogether'
  <2>1. SUFFICES ASSUME NEW q \in Processes, NEW r \in Processes, NEW e \in Chunks,
                        at'[q][e] \in {"publish", "finish", "unwind", "done"}
                 PROVE  /\ at'[r][e] # "queued" /\ skew[r] = skew[q]
                        /\ \A t \in waiting'[Key(q, e)] : t.phase # "start"
    BY DEF PastTogether, Past, Key
  <2>2. CASE e = c
    <3>1. Key(q, e) = k /\ skew[r] = skew[q]
      BY <2>2 DEF Key
    <3>2. waiting'[Key(q, e)] = {}
      BY <1>2, <3>1
    <3>3. at'[r][c] # "queued"
      BY DEF Waits
    <3>4. QED
      BY <2>2, <3>1, <3>2, <3>3
  <2>3. CASE e # c
    <3>1. Past(q, e) /\ at'[r][e] = at[r][e]
      BY <2>1, <2>3 DEF Past
    <3>2. Key(q, e) # k /\ Key(q, e) \in Keys
      BY <2>3 DEF Key, Keys, MeetTypeOK
    <3>3. waiting'[Key(q, e)] = waiting[Key(q, e)]
      BY <1>2, <3>2
    <3>4. QED
      BY <3>1, <3>3 DEF FirstLife, PastTogether
  <2>4. QED
    BY <2>2, <2>3
<1>5. SerialInOrder'
  <2>1. SUFFICES ASSUME NEW q \in Processes, NEW d \in Chunks, NEW e \in Chunks,
                        Serial(q), d < e, at'[q][e] # "queued"
                 PROVE  at'[q][d] \in {"done", "raised"}
    BY DEF SerialInOrder, Serial
  <2>2. \/ at[q][e] # "queued"
        \/ q = p /\ e = c /\ at[p][c] = "queued"
    BY <2>1 DEF Waits
  <2>3. at[q][d] \in {"done", "raised"}
    BY <2>1, <2>2 DEF FirstLife, SerialInOrder, Arrives
  <2>4. d # c
    BY <2>3 DEF Waits
  <2>5. QED
    BY <2>3, <2>4
<1>6. SecondIsTried'
  <2>1. SUFFICES ASSUME NEW q \in Processes, NEW e \in Chunks,
                        at'[q][e] \in {"finish", "unwind", "done"}
                 PROVE  <<q, e>> \in tried'
    BY DEF SecondIsTried
  <2>2. CASE at[q][e] \in {"finish", "unwind", "done"}
    BY <1>1, <2>2 DEF FirstLife, SecondIsTried
  <2>3. CASE at[q][e] \notin {"finish", "unwind", "done"}
    <3>1. e = c /\ phase # "start" /\ at[q][c] = "publish"
      BY <2>1, <2>3
    <3>2. q = p
      BY <3>1 DEF Waits
    <3>3. QED
      BY <3>1, <3>2 DEF Arrives
  <2>4. QED
    BY <2>2, <2>3
<1>7. DoneIsTried'
  <2>1. SUFFICES ASSUME NEW q \in Processes, NEW r \in Processes, NEW e \in Chunks,
                        at'[q][e] = "done"
                 PROVE  <<r, e>> \in tried'
    BY DEF DoneIsTried
  <2>2. CASE at[q][e] = "done"
    BY <1>1, <2>2 DEF FirstLife, DoneIsTried, NoneRestarted
  <2>3. CASE at[q][e] # "done"
    <3>1. e = c /\ phase # "start"
      BY <2>1, <2>3
    <3>2. r = p \/ at[r][c] \in {"finish", "unwind"}
      BY <3>1
    <3>3. QED
      BY <1>1, <3>1, <3>2 DEF FirstLife, SecondIsTried, Arrives
  <2>4. QED
    BY <2>2, <2>3
<1>8. QED
  BY <1>3, <1>4, <1>5, <1>6, <1>7 DEF FirstLife

(* A barrier breaks, and all who wait there get an exception. *)
LEMMA BreakingKeepsFirstLife ==
  ASSUME MeetTypeOK, FirstLife, NEW k \in Keys, TimesOut(k)
  PROVE  FirstLife'
<1>1. /\ waiting' = [waiting EXCEPT ![k] = {}]
      /\ UNCHANGED <<concurrently, skew, killed, life, tried>>
  BY DEF TimesOut
<1>2. waiting \in [Keys -> SUBSET Threads]
  BY DEF MeetTypeOK
<1>3. \A q \in Processes, e \in Chunks :
        \/ <<q, e>> \notin Clients(waiting[k]) /\ at'[q][e] = at[q][e]
        \/ <<q, e>> \in Clients(waiting[k]) /\ at'[q][e] = "raised"
  <2> DEFINE places == [pc \in Clients(waiting[k]) |-> "raised"]
  <2>1. at' = Moved(places) /\ \A pc \in DOMAIN places : places[pc] \in Places
    BY DEF TimesOut, Places
  <2>2. \A q \in Processes, e \in Chunks :
          at'[q][e] = IF <<q, e>> \in DOMAIN places THEN places[<<q, e>>] ELSE at[q][e]
    <3> HIDE DEF places
    <3>1. QED
      BY <2>1, MovedAt
  <2>3. QED
    BY <2>2
<1>4. ASSUME NEW q \in Processes, NEW e \in Chunks, <<q, e>> \in Clients(waiting[k])
      PROVE  at[q][e] \in Waits /\ k = <<skew[q], e>>
  <2>1. PICK t \in waiting[k] : t.process = q /\ t.chunk = e
    BY <1>4, ClientsAre
  <2>2. at[q][e] = t.phase /\ k = <<skew[q], e>>
    BY <2>1 DEF FirstLife, ThreadsWait, Key
  <2>3. QED
    BY <1>2, <2>1, <2>2 DEF Threads
<1>5. \A q \in Processes, e \in Chunks :
        \/ at'[q][e] = at[q][e]
        \/ at'[q][e] = "raised" /\ at[q][e] \in Waits
  BY <1>3, <1>4
<1>6. \A j \in Keys : waiting'[j] \subseteq waiting[j]
  BY <1>1, <1>2
<1>7. ThreadsWait'
  <2>1. SUFFICES ASSUME NEW j \in Keys, NEW t \in waiting'[j]
                 PROVE  /\ t.life = 0 /\ j = <<skew[t.process], t.chunk>>
                        /\ at'[t.process][t.chunk] = t.phase
    BY <1>1 DEF ThreadsWait, Key
  <2>2. j # k /\ t \in waiting[j]
    BY <1>1, <1>2, <2>1
  <2>3. t.process \in Processes /\ t.chunk \in Chunks
    BY <1>2, <2>2 DEF Threads
  <2>4. t.life = 0 /\ j = <<skew[t.process], t.chunk>> /\ at[t.process][t.chunk] = t.phase
    BY <2>2 DEF FirstLife, ThreadsWait, Key
  <2>5. QED
    BY <1>3, <1>4, <2>2, <2>3, <2>4
<1>8. PastTogether'
  <2>0. skew' = skew
    BY <1>1
  <2>1. SUFFICES ASSUME NEW q \in Processes, NEW r \in Processes, NEW e \in Chunks,
                        at'[q][e] \in {"publish", "finish", "unwind", "done"}
                 PROVE  /\ at'[r][e] # "queued" /\ skew[r] = skew[q]
                        /\ \A t \in waiting'[Key(q, e)] : t.phase # "start"
    BY <2>0 DEF PastTogether, Past, Key
  <2>2. Past(q, e)
    BY <1>5, <2>1 DEF Past
  <2>3. Key(q, e) \in Keys
    BY DEF Key, Keys, MeetTypeOK
  <2>4. QED
    BY <1>5, <1>6, <2>2, <2>3 DEF FirstLife, PastTogether
<1>9. SerialInOrder'
  BY <1>1, <1>5 DEF FirstLife, SerialInOrder, Serial, Waits
<1>10. SecondIsTried' /\ DoneIsTried'
  BY <1>1, <1>5 DEF FirstLife, SecondIsTried, DoneIsTried, NoneRestarted
<1>11. QED
  BY <1>7, <1>8, <1>9, <1>10 DEF FirstLife

LEMMA WaitKeepsFirstLife ==
  ASSUME IsFiniteSet(Processes), MeetTypeOK, FirstLife, NoneRestarted,
         NEW p \in Processes, NEW c \in Chunks, NEW phase \in Waits, p \notin killed,
         Arrives(p, c, phase), Wait(p, c, phase),
         UNCHANGED <<concurrently, skew, killed, life>>
  PROVE  FirstLife'
<1> SUFFICES ASSUME NEW new,
                    new = [process |-> p, life |-> life[p], chunk |-> c, phase |-> phase],
                    NEW T, T = waiting[Key(p, c)] \cup {new}
             PROVE  FirstLife'
  OBVIOUS
<1>0. \/ at' = [at EXCEPT ![p][c] = "raised"] /\ UNCHANGED waiting
      \/ at' = [at EXCEPT ![p][c] = phase] /\ waiting' = [waiting EXCEPT ![Key(p, c)] = T]
      \/ /\ Cardinality(T) = Cardinality(Processes)
         /\ Frees(T)
         /\ waiting' = [waiting EXCEPT ![Key(p, c)] = {}]
  BY DEF Wait, Frees
<1>1. CASE at' = [at EXCEPT ![p][c] = "raised"] /\ UNCHANGED waiting
  BY <1>1, RaiseKeepsFirstLife
<1>2. CASE at' = [at EXCEPT ![p][c] = phase] /\ waiting' = [waiting EXCEPT ![Key(p, c)] = T]
  BY <1>2, WaitingKeepsFirstLife
<1>3. CASE /\ Cardinality(T) = Cardinality(Processes)
           /\ Frees(T)
           /\ waiting' = [waiting EXCEPT ![Key(p, c)] = {}]
  <2>0. new.process = p /\ new.chunk = c /\ new \in T
    OBVIOUS
  <2>1. T \in SUBSET Threads /\ AllThere(p, c, phase, new, T)
    BY <1>3, ThreadsAtTheBarrier
  <2>2. AllGoOn(p, c, phase)
    BY <1>3, <2>0, <2>1, PlacesAfterTheBarrier
  <2>3. SameWait(p, c, phase)
    BY <2>0, <2>1 DEF AllThere, SameWait
  <2>4. QED
    BY <1>3, <2>2, <2>3, FreeingKeepsFirstLife
<1>4. QED
  BY <1>0, <1>1, <1>2, <1>3

(* A serial backfill comes to a chunk when none before it is under way. *)
LEMMA SerialComesInOrder ==
  ASSUME MeetTypeOK, NEW p \in Processes, NEW c \in Chunks,
         CanStart(p, c), Serial(p), NEW d \in Chunks, d < c
  PROVE  at[p][d] \in {"done", "raised"}
<1>1. Active(p) \in SUBSET (1 .. NumChunks)
  BY DEF Active, Chunks
<1>2. IsFiniteSet(Active(p)) /\ Cardinality(Active(p)) \in Nat
  <2>1. IsFiniteSet(1 .. NumChunks)
    BY FS_Interval, ProcessesAssumption
  <2>2. IsFiniteSet(Active(p))
    BY <1>1, <2>1, FS_Subset
  <2>3. QED
    BY <2>2, FS_CardinalityType
<1>3. Cardinality(Active(p)) < 1
  BY DEF CanStart, Serial
<1>4. Active(p) = {}
  <2>1. Cardinality(Active(p)) = 0
    BY <1>2, <1>3
  <2>2. QED
    BY <1>2, <2>1, FS_EmptySet
<1>5. at[p][d] \notin {"start", "publish", "finish", "unwind"}
  BY <1>4 DEF Active
<1>6. at[p][d] # "queued"
  <2>1. d \in 1 .. c - 1
    BY ProcessesAssumption DEF Chunks
  <2>2. QED
    BY <2>1 DEF CanStart
<1>7. at[p][d] \in Places
  BY DEF MeetTypeOK
<1>8. QED
  BY <1>5, <1>6, <1>7 DEF Places, Waits

LEMMA MeetInvInit == MeetInit => MeetInv
<1> SUFFICES ASSUME MeetInit PROVE MeetInv
  OBVIOUS
<1>1. \A p \in Processes, c \in Chunks : at[p][c] = "queued"
  BY DEF MeetInit
<1>2. \A k \in Keys : waiting[k] = {}
  BY DEF MeetInit
<1>3. ThreadsWait /\ PastTogether /\ SerialInOrder /\ SecondIsTried /\ DoneIsTried
  BY <1>1, <1>2
  DEF ThreadsWait, PastTogether, Past, SerialInOrder, SecondIsTried, DoneIsTried
<1>4. QED
  BY <1>3, MeetTypeInit DEF MeetInv, FirstLife

LEMMA MeetInvNext ==
  MeetInv /\ [MeetNext]_meetVars => MeetInv'
<1> SUFFICES ASSUME MeetInv, [MeetNext]_meetVars PROVE MeetInv'
  OBVIOUS
<1>1. MeetTypeOK /\ MeetTypeOK'
  BY MeetTypeNext DEF MeetInv
<1>2. SUFFICES ASSUME NoneRestarted' PROVE FirstLife'
  BY <1>1 DEF MeetInv
<1>3. ASSUME NEW p \in Processes, Restart(p) PROVE FALSE
  <2>1. life' = [life EXCEPT ![p] = life[p] + 1]
    BY <1>3 DEF Restart
  <2>2. life'[p] # 0
    BY <1>1, <2>1 DEF MeetTypeOK
  <2>3. QED
    BY <1>2, <2>2 DEF NoneRestarted
<1>4. NoneRestarted /\ FirstLife
  <2>1. life' = life
    BY <1>3 DEF MeetNext, Step, Start, Finish, Kill, TimesOut, Idle, meetVars
  <2>2. QED
    BY <1>2, <2>1 DEF NoneRestarted, MeetInv
<1>5. ASSUME NEW p \in Processes, NEW c \in Chunks, Start(p, c) PROVE FirstLife'
  <2>1. /\ CanStart(p, c) /\ Wait(p, c, "start") /\ "start" \in Waits
        /\ UNCHANGED <<concurrently, skew, killed, life, tried>>
    BY <1>5 DEF Start, Waits
  <2>2. p \notin killed /\ at[p][c] = "queued"
    BY <2>1 DEF CanStart, Down
  <2>3. Arrives(p, c, "start")
    BY <1>1, <2>1, <2>2, SerialComesInOrder DEF Arrives
  <2>4. QED
    BY <1>1, <1>4, <2>1, <2>2, <2>3, WaitKeepsFirstLife, ProcessesAssumption
<1>6. ASSUME NEW p \in Processes, NEW c \in Chunks, Finish(p, c) PROVE FirstLife'
  <2>1. PICK phase \in {"finish", "unwind"} : Wait(p, c, phase)
    BY <1>6 DEF Finish
  <2>2. /\ p \notin killed /\ Arrives(p, c, phase) /\ phase \in Waits
        /\ UNCHANGED <<concurrently, skew, killed, life>>
    BY <1>6 DEF Finish, Down, Arrives, Waits
  <2>3. QED
    BY <1>1, <1>4, <2>1, <2>2, WaitKeepsFirstLife, ProcessesAssumption
<1>7. ASSUME NEW k \in Keys, TimesOut(k) PROVE FirstLife'
  BY <1>1, <1>4, <1>7, BreakingKeepsFirstLife
<1>8. ASSUME UNCHANGED <<concurrently, skew, at, life, waiting, tried>> PROVE FirstLife'
  BY <1>4, <1>8
  DEF FirstLife, ThreadsWait, PastTogether, Past, SerialInOrder, SecondIsTried, DoneIsTried,
      Serial, Key, NoneRestarted
<1>9. QED
  BY <1>3, <1>5, <1>6, <1>7, <1>8 DEF MeetNext, Step, Kill, Idle, meetVars

(* The inductive invariant of the barriers. *)
THEOREM MeetInvariance ==
  MeetSpec => []MeetInv
<1>1. MeetInit => MeetInv
  BY MeetInvInit
<1>2. MeetInv /\ [MeetNext]_meetVars => MeetInv'
  BY MeetInvNext
<1>3. QED
  BY <1>1, <1>2, PTL DEF MeetSpec

(* Two chunks in publication, of serial backfills that live, are the same:   *)
(* the earlier one is over wherever the later one has begun.                 *)
LEMMA MeetInvIsInStep == MeetInv => InStep
<1> SUFFICES ASSUME MeetInv, NEW p \in Processes, NEW q \in Processes,
                    NEW c \in Chunks, NEW d \in Chunks, NoneRestarted, Serial(p), Serial(q),
                    at[p][c] = "publish", at[q][d] = "publish"
             PROVE  Key(p, c) = Key(q, d)
  BY DEF InStep
<1>1. FirstLife
  BY DEF MeetInv
<1>2. Past(p, c) /\ Past(q, d)
  BY DEF Past
<1>3. at[q][c] # "queued" /\ at[p][d] # "queued" /\ skew[p] = skew[q]
  BY <1>1, <1>2 DEF FirstLife, PastTogether
<1>4. ~ (c < d) /\ ~ (d < c)
  BY <1>1, <1>3 DEF FirstLife, SerialInOrder
<1>5. c = d
  BY <1>4 DEF Chunks
<1>6. QED
  BY <1>3, <1>5 DEF Key

(* For any number of serial backfills: what they publish at any time is the  *)
(* same chunk everywhere, however late any of them comes, dies or times out, *)
(* until one of them is started again.                                       *)
THEOREM SerialBackfillsAreInStep ==
  MeetSpec => []InStep
  BY MeetInvariance, MeetInvIsInStep, PTL

(* For any number of backfills: a chunk that one of them has done without an *)
(* exception all of them have tried, until one of them is started again.     *)
THEOREM DoneChunksAreTried ==
  MeetSpec => []DoneIsTried
<1>1. MeetInv => DoneIsTried
  BY DEF MeetInv, FirstLife, DoneIsTried
<1>2. QED
  BY <1>1, MeetInvariance, PTL
=============================================================================
