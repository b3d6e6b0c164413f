---------------------------- MODULE CollectionLoop ----------------------------
(***************************************************************************)
(* run_data_collection_loop (src/l9gpu/monitoring/utils/monitor.py), which *)
(* every l9gpu monitor is, and what it writes with:                        *)
(* write_to_sink_with_retries (sink/utils.py), retry (decorators.py),      *)
(* chunk_by_json_size (itertools.py) and log_error (utils/error.py).       *)
(*                                                                         *)
(* Each round asks every task for its records and writes them to the sink, *)
(* in chunks of a bounded JSON size or, with --chunk-size 0, as the lazy   *)
(* iterable itself. A write that raises Retry is tried again with the same *)
(* argument; but the loop hands over sink.write wrapped in log_error, from *)
(* which no exception gets out. Both the loop and the function alone, with *)
(* a bare write, are covered: see `wrapped`.                               *)
(*                                                                         *)
(* A record is known by its position in the data of its task. Its value is *)
(* the length of its JSON, or Invalid when pulling it raises ValueError.   *)
(***************************************************************************)
EXTENDS Naturals, Sequences, FiniteSets, FiniteSetsExt

CONSTANTS
  Wrapped,     (* whether write is wrapped: {TRUE} for the loop           *)
  Retries,     (* the values of --retries                                 *)
  Hints,       (* the values of --chunk-size; 0: no chunks                *)
  Sizes,       (* lengths of the JSON of a record                         *)
  Invalid,     (* a record that cannot be made                            *)
  MaxRecords,  (* bound: the records of a task                            *)
  Tasks,       (* the number of data_collection_tasks                     *)
  MaxRounds    (* bound: the rounds of the loop without --once            *)

ASSUME WrappedAssumption == Wrapped \subseteq BOOLEAN
ASSUME RetriesAssumption == Retries \subseteq Nat
ASSUME HintsAssumption == Hints \subseteq Nat
ASSUME SizesAssumption == Sizes \subseteq Nat \ {0} /\ Invalid \notin Sizes
ASSUME BoundsAssumption ==
  MaxRecords \in Nat /\ Tasks \in Nat \ {0} /\ MaxRounds \in Nat \ {0}

VARIABLES
  wrapped, once, retries, hint,
  streams,    (* the sink writes record by record (file, OTel logs), or    *)
              (* all at once (stdout, webhook)                             *)
  ignoring,   (* --ignore-line-errors                                      *)
  pc,         (* "getData" | "pull" | "write" | "exited"                   *)
  round, task,
  source,     (* the records of this task, a list or an iterator           *)
  next,       (* the position its iterator is at                           *)
  chunk,      (* the positions in the chunk that chunk_by_json_size builds *)
  chunkSize,  (* its running size                                          *)
  chunks,     (* the chunks it has yielded                                 *)
  try,        (* try_idx of the current write                              *)
  delivered,  (* how often the sink took the record of each position       *)
  logged,     (* whether an exception of this task was logged              *)
  status      (* of the command: "running" | "ok" | "failed"               *)

options == <<wrapped, once, retries, hint, streams, ignoring>>
counters == <<round, task>>
chunkVars == <<chunk, chunkSize, chunks>>
vars == <<options, pc, counters, source, next, chunkVars, try, delivered, logged, status>>

Brackets == 2
Sources == UNION { [1 .. n -> Sizes \cup {Invalid}] : n \in 0 .. MaxRecords }
Positions == 1 .. MaxRecords
Chunking == hint > 0

Init ==
  /\ wrapped \in Wrapped /\ once \in BOOLEAN
  /\ retries \in Retries /\ hint \in Hints
  /\ streams \in BOOLEAN /\ ignoring \in BOOLEAN
  /\ pc = "getData"
  /\ round = 1 /\ task = 1
  /\ source = <<>> /\ next = 1
  /\ chunk = {} /\ chunkSize = Brackets /\ chunks = <<>>
  /\ try = 0
  /\ delivered = [p \in Positions |-> 0]
  /\ logged = FALSE
  /\ status = "running"

-----------------------------------------------------------------------------
(* The loop. *)

Exit(s) == pc' = "exited" /\ status' = s

(* A loop that forgets --once, for mutation testing. *)
TaskDoneForever ==
  \/ /\ task < Tasks
     /\ task' = task + 1 /\ round' = round
     /\ pc' = "getData" /\ status' = status
  \/ /\ task = Tasks /\ round < MaxRounds
     /\ task' = 1 /\ round' = round + 1
     /\ pc' = "getData" /\ status' = status

(* The next task, the end of the command, or the next round. *)
TaskDone ==
  \/ /\ task < Tasks
     /\ task' = task + 1 /\ round' = round
     /\ pc' = "getData" /\ status' = status
  \/ /\ task = Tasks /\ once
     /\ Exit("ok")
     /\ UNCHANGED counters
  \/ /\ task = Tasks /\ ~ once /\ round < MaxRounds
     /\ task' = 1 /\ round' = round + 1
     /\ pc' = "getData" /\ status' = status

(* get_data returns records, or an iterator of them. *)
GetData ==
  /\ pc = "getData"
  /\ source' \in Sources
  /\ next' = 1
  /\ chunk' = {} /\ chunkSize' = Brackets /\ chunks' = <<>>
  /\ try' = 0
  /\ delivered' = [p \in Positions |-> 0]
  /\ logged' = FALSE
  /\ pc' = IF Chunking THEN "pull" ELSE "write"
  /\ UNCHANGED <<options, counters, status>>

(* get_data returns None: the task is passed over. *)
GetNoData ==
  /\ pc = "getData"
  /\ source' = <<>> /\ next' = 1
  /\ chunk' = {} /\ chunkSize' = Brackets /\ chunks' = <<>>
  /\ try' = 0
  /\ delivered' = [p \in Positions |-> 0]
  /\ logged' = FALSE
  /\ TaskDone
  /\ UNCHANGED options

(* Nothing catches what get_data raises. *)
GetDataRaises ==
  /\ pc = "getData"
  /\ Exit("failed")
  /\ UNCHANGED <<options, counters, source, next, chunkVars, try, delivered, logged>>

-----------------------------------------------------------------------------
(* chunk_by_json_size, pulled by write_to_sink_with_retries. *)

AtRecord == pc = "pull" /\ next <= Len(source)
Fits(p) == source[p] + Brackets <= hint
Separator == IF chunk # {} THEN 1 ELSE 0

(* generate_sacct_records logs a line it cannot convert and goes on, ... *)
SkipInvalid ==
  /\ AtRecord /\ source[next] = Invalid /\ ignoring
  /\ next' = next + 1
  /\ logged' = TRUE
  /\ UNCHANGED <<options, pc, counters, source, chunkVars, try, delivered, status>>

(* ... or raises ValueError, as does a record too large for any chunk: a     *)
(* UsageError, and the chunk being built is not written.                     *)
PullRaises ==
  /\ AtRecord
  /\ IF source[next] = Invalid THEN ~ ignoring ELSE ~ Fits(next)
  /\ Exit("failed")
  /\ UNCHANGED <<options, counters, source, next, chunkVars, try, delivered, logged>>

Grows == source[next] # Invalid /\ Fits(next)
         /\ chunkSize + source[next] + Separator <= hint

Grow ==
  /\ AtRecord /\ Grows
  /\ chunk' = chunk \cup {next}
  /\ chunkSize' = chunkSize + source[next] + Separator
  /\ next' = next + 1
  /\ UNCHANGED <<options, pc, counters, source, chunks, try, delivered, logged, status>>

(* A chunk whose successor starts with too small a size, for mutation testing. *)
YieldChunkForgetful ==
  /\ AtRecord /\ source[next] # Invalid /\ Fits(next) /\ ~ Grows
  /\ chunks' = Append(chunks, chunk)
  /\ chunk' = {next} /\ chunkSize' = Brackets
  /\ next' = next + 1
  /\ try' = 0
  /\ pc' = "write"
  /\ UNCHANGED <<options, counters, source, delivered, logged, status>>

(* A chunk whose successor is not given the separator's byte back. *)
YieldChunkWasteful ==
  /\ AtRecord /\ source[next] # Invalid /\ Fits(next) /\ ~ Grows
  /\ chunks' = Append(chunks, chunk)
  /\ chunk' = {next} /\ chunkSize' = Brackets + source[next] + Separator
  /\ next' = next + 1
  /\ try' = 0
  /\ pc' = "write"
  /\ UNCHANGED <<options, counters, source, delivered, logged, status>>

YieldChunk ==
  /\ AtRecord /\ source[next] # Invalid /\ Fits(next) /\ ~ Grows
  /\ chunks' = Append(chunks, chunk)
  /\ chunk' = {next} /\ chunkSize' = source[next] + Brackets
  /\ next' = next + 1
  /\ try' = 0
  /\ pc' = "write"
  /\ UNCHANGED <<options, counters, source, delivered, logged, status>>

YieldLastChunk ==
  /\ pc = "pull" /\ next > Len(source) /\ chunk # {}
  /\ chunks' = Append(chunks, chunk)
  /\ chunk' = {} /\ chunkSize' = Brackets
  /\ try' = 0
  /\ pc' = "write"
  /\ UNCHANGED <<options, counters, source, next, delivered, logged, status>>

ChunksEnd ==
  /\ pc = "pull" /\ next > Len(source) /\ chunk = {}
  /\ TaskDone
  /\ UNCHANGED <<options, source, next, chunkVars, try, delivered, logged>>

-----------------------------------------------------------------------------
(* One call of write. *)

(* Only generate_sacct_records, an iterator, meets records it cannot make.   *)
IsList == \A p \in DOMAIN source : source[p] # Invalid

(* The lazy iterable ends at the first record that cannot be made. *)
Stop ==
  IF ignoring \/ \A p \in next .. Len(source) : source[p] # Invalid
  THEN Len(source) + 1
  ELSE Min({ p \in next .. Len(source) : source[p] = Invalid })

(* What a call of write is given. *)
Batch ==
  IF Chunking THEN chunks[Len(chunks)]
  ELSE { p \in next .. Stop - 1 : source[p] # Invalid }

ReadsAll == Chunking \/ Stop > Len(source)

(* A sink that fails at its c-th record or, having read them all, altogether *)
(* (before or after it was heard): what it took, and how far it read.        *)
FailedWrites ==
  IF streams THEN { [took |-> { p \in Batch : p < c }, read |-> c] : c \in Batch }
  ELSE { [took |-> b, read |-> Len(source)] : b \in { ps \in {{}, Batch} : ReadsAll } }

Deliver(ps) ==
  delivered' = [p \in Positions |-> IF p \in ps THEN delivered[p] + 1 ELSE delivered[p]]

(* retryable_write returns. *)
Written ==
  IF Chunking THEN pc' = "pull" /\ UNCHANGED <<counters, status>> ELSE TaskDone

WriteSucceeds ==
  /\ pc = "write" /\ ReadsAll
  /\ Deliver(Batch)
  /\ next' = IF Chunking THEN next ELSE Len(source) + 1
  /\ logged' = (logged \/ (~ Chunking /\ \E p \in next .. Len(source) : source[p] = Invalid))
  /\ Written
  /\ UNCHANGED <<options, source, chunkVars, try>>

(* The sink raises inside log_error, which logs it and returns None. *)
WriteFailsLogged ==
  /\ pc = "write" /\ wrapped
  /\ \E w \in FailedWrites : Deliver(w.took)
  /\ logged' = TRUE
  /\ Written
  /\ UNCHANGED <<options, source, next, chunkVars, try>>

(* A retry without the end of the schedule, for mutation testing. *)
WriteRetriesForever ==
  /\ pc = "write" /\ ~ wrapped
  /\ \E w \in FailedWrites : Deliver(w.took) /\ next' = next
  /\ try' = try + 1
  /\ UNCHANGED <<options, pc, counters, source, chunkVars, logged, status>>

(* The sink raises Retry: after a sleep, the same call again. A list is read *)
(* from its start again, an iterator from where the failed call stopped.     *)
WriteRetries ==
  /\ pc = "write" /\ ~ wrapped /\ try < retries
  /\ \E w \in FailedWrites :
       /\ Deliver(w.took)
       /\ \/ (Chunking \/ IsList) /\ next' = next
          \/ ~ Chunking /\ next' = w.read + 1
  /\ try' = try + 1
  /\ UNCHANGED <<options, pc, counters, source, chunkVars, logged, status>>

(* A last try that is passed over, for mutation testing. *)
WriteGivenUp ==
  /\ pc = "write" /\ ~ wrapped
  /\ \E w \in FailedWrites : Deliver(w.took)
  /\ Written
  /\ UNCHANGED <<options, source, next, chunkVars, try, logged>>

(* OutOfRetries, or any other exception: a ClickException. *)
WriteFails ==
  /\ pc = "write" /\ ~ wrapped
  /\ \E w \in FailedWrites : Deliver(w.took)
  /\ Exit("failed")
  /\ UNCHANGED <<options, counters, source, next, chunkVars, try, logged>>

(* A record that cannot be made raises inside write, which reads the lazy    *)
(* iterable: a sink that writes all at once has written nothing yet.         *)
WriteMeetsInvalid ==
  /\ pc = "write" /\ ~ ReadsAll
  /\ Deliver(IF streams THEN Batch ELSE {})
  /\ next' = Len(source) + 1
  /\ IF wrapped THEN logged' = TRUE /\ Written
     ELSE logged' = logged /\ Exit("failed") /\ UNCHANGED counters
  /\ UNCHANGED <<options, source, chunkVars, try>>

Next ==
  \/ GetData \/ GetNoData \/ GetDataRaises
  \/ SkipInvalid \/ PullRaises \/ Grow \/ YieldChunk \/ YieldLastChunk \/ ChunksEnd
  \/ WriteSucceeds \/ WriteFailsLogged \/ WriteRetries \/ WriteFails \/ WriteMeetsInvalid

(* Tasks return and writes end: a sink has timeouts of its own.  *)
Spec == Init /\ [][Next]_vars
FairSpec == Spec /\ WF_vars(Next)

-----------------------------------------------------------------------------
TypeOK ==
  /\ pc \in {"getData", "pull", "write", "exited"}
  /\ round \in 1 .. MaxRounds /\ task \in 1 .. Tasks
  /\ source \in Sources
  /\ next \in 1 .. Len(source) + 1
  /\ chunk \subseteq Positions /\ chunkSize \in Nat
  /\ chunks \in Seq(SUBSET Positions)
  /\ try \in 0 .. retries
  /\ delivered \in [Positions -> Nat]
  /\ logged \in BOOLEAN
  /\ status \in {"running", "ok", "failed"}

(* The JSON of a chunk as chunk_by_json_size should count it: its brackets,  *)
(* its records and the commas between them.                                  *)
JsonSize(ps) ==
  Brackets + MapThenSumSet(LAMBDA p : source[p], ps)
    + (IF ps = {} THEN 0 ELSE Cardinality(ps) - 1)

(* "The (compact) JSON encoding of each chunk is at most size_hint_bytes":   *)
(* the running size never drifts from the real one (itertools.py:23-60).     *)
ChunksFit == Chunking =>
  /\ chunkSize = JsonSize(chunk)
  /\ \A i \in DOMAIN chunks : chunks[i] # {} /\ JsonSize(chunks[i]) <= hint

(* The positions of the records, cut before each position of `cuts`. *)
Valid(n) == { p \in 1 .. n : source[p] # Invalid }
Pieces(n, cuts) ==
  { { p \in Valid(n) : Max({ c \in cuts \cup {1} : c <= p }) = q } : q \in cuts \cup {1} }

(* "Minimally chunk": no way to cut the records read so far into fitting     *)
(* pieces makes fewer of them (the docstring's claim, itertools.py:26-28).   *)
ChunksAreMinimal == Chunking =>
  \A cuts \in SUBSET (2 .. next - 1) :
    (\A ps \in Pieces(next - 1, cuts) : JsonSize(ps) <= hint) =>
      Len(chunks) + (IF chunk = {} THEN 0 ELSE 1)
        <= Cardinality(Pieces(next - 1, cuts) \ {{}})

(* No record reaches the sink more often than one call of write per try can  *)
(* take it: never twice in the loop, where nothing is ever retried.          *)
DeliveredOncePerTry ==
  \A p \in Positions : delivered[p] <= IF wrapped THEN 1 ELSE retries + 1

TaskOver == pc \in {"getData", "exited"} /\ status # "failed"

(* A record is not lost without a trace: when a task is over and the command *)
(* goes on, every record has reached the sink, or something was logged. Only *)
(* the retry of a lazy iterable would lose what the failed try had read.     *)
LossIsLogged ==
  TaskOver /\ (wrapped \/ Chunking) =>
    logged \/ \A p \in DOMAIN source : delivered[p] > 0

(* Every command with --once exits, whatever the sink does. *)
OnceEnds == once ~> pc = "exited"

(* "The maximum number of times to retry writing to sink before failing"     *)
(* (--retries, src/l9gpu/monitoring/click.py:163): when writing has failed   *)
(* for good, the command fails.                                              *)
SinkFailureFails ==
  TaskOver => \A p \in DOMAIN source : source[p] # Invalid => delivered[p] > 0
=============================================================================
