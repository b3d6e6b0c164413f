# TLA+ models of gpu-telemetry

Models, model-checking runs and machine-checked proofs for
[last9/gpu-telemetry](https://github.com/last9/gpu-telemetry): the Python
package `l9gpu` (monitors, Slurm backfill, health checks, exporters) and the Go
helpers and OpenTelemetry processors that attribute GPUs to Slurm jobs and
Kubernetes pods. All paths below are relative to `src/`.

## 1. Inventory

| Component | State it keeps | Operations | Talks to | Hard part |
|---|---|---|---|---|
| chunk iterators, `l9gpu/monitoring/cli/sacct_backfill.py` 496-552 | position in the interval or file | `next()` | the pool that pulls it | closed intervals, one-second steps, an exception in the middle |
| publication pool, same file 246-305 | semaphore, work queue, executor queue, futures | producer, consumer, publish, done-callback | iterator, `publish_one` | three kinds of task on one executor, callbacks racing completions |
| one chunk, same file 555-632 and 69-82 | two children, a pipe, return codes | wait, time out, terminate, reap | kernel, `fsacct`, `publish_cmd` | timeouts, a signal handler that steals exit statuses |
| rendezvous, same file 202-233 and 635-658 | a barrier per chunk in a manager process | enter, leave, time out | other backfill processes | crashes, wall-clock keys, broken barriers |
| sacct wrapper and `sacct_publish` | line being joined, batch | filter, convert, write | `sacct`, a sink | boundary seconds, broken lines |
| `shelper`, Slurmctld mode | one JSON file, its mtime | list pids, stat, read, query, rewrite | `scontrol`, all pipelines | unlocked file shared by concurrent calls, stale answers |
| `shelper`, Slurmd and NVML modes | none | read process environments | `/proc`, NVML | partial failure |
| `slurmprocessor` | none | enrich a batch | `shelper` | type of the GPU index, aggregate over stale maps |
| `k8shelper`, `k8sprocessor`, `k8s_gpu_map.py` | one map behind a mutex | get, refresh | Kubernetes API | mutex held over an API call, ordinals by list order |
| collection loop, `monitoring/utils/monitor.py`, `sink/utils.py`, `decorators.py` | time of the next round, generator | collect, chunk, write, retry, sleep | sinks | retries of consumed generators, swallowed exceptions |
| device monitors (NVML, AMD, Gaudi, DCGM) | accumulators of a window | sample, accumulate, publish | drivers, sinks | one failing GPU, empty windows |
| fleet health | event windows per GPU | observe, compute | `dcgmi`, kernel log | windows by wall clock, recurring events |
| NCCL monitor | offset in a growing log | tail, parse, publish | a file | partial lines, truncation, restart |
| cost and inference monitors | none or last scrape | scrape, convert | HTTP | little state |
| Slurm monitors | none | run, parse, publish | Slurm commands | parsers |
| health checks, `l9gpu/health_checks` | exit code, telemetry | run, judge, report | commands with timeouts | a timeout or crash that reads as healthy |
| GPU processes, `check_nvidia_smi.py` 120-245 | processes listed last, attempt | list, judge, retry, kill, look again | NVIDIA's library, `psutil` | processes that come and go between any two of these |
| exporters | OTel providers | write, flush | collectors | loss at shutdown |
| schemas, features, deployment | none | | | configuration and generated code |

What each part must do to be correct:

- *Backfill*: every second of the interval is published once; a failure is
  visible; the command ends; no more than `--concurrently` publications run.
- *One chunk*: a chunk that is not logged as failed is complete, as far as the
  exit statuses of its two children tell; nothing is left behind; every wait is
  bounded.
- *Rendezvous*: no process starts a chunk while another is still at an earlier
  one; a dead process does not block the others beyond the timeouts.
- *Attribution*: a GPU is attributed to a job or pod that holds it, or held it
  no longer ago than the cache allows; an unreadable cache heals.
- *Collection loop*: what was collected is written, or the failure is visible.
- *sacct wrapper*: each job is in the chunk it ended in, once and in one piece.
- *Monitors*: what is published is of this window, this GPU and this job; no
  event counts twice.
- *Health checks*: OK is never reported for a command that did not finish, nor
  for a node with a fault the check could see; a part that is fine never hides
  one that is not.

The hazards, each at its line, are in `PROJECT.json`.

## 2. Modules

```
ChunkIter ------------+--> BackfillPool ---> MCBackfillPool   (TLC)
  |                   |        |  refines
  v                   |        v
ChunkIterProofs --+   |    ChunkLedger
                  +---+--> BackfillPoolProofs                 (TLAPS)

PublishChunk ---+--------> PublishChunkProofs                 (TLAPS)
                +--+
Rendezvous -----+--|-----> RendezvousProofs                   (TLAPS)
                   +-----> MCPublishChunk                     (TLC)

SlurmCache ------+-------> MCSlurmCache                       (TLC)
                 +-------> SlurmCacheProofs                   (TLAPS)
CollectionLoop   (TLC) --> CollectionLoopProofs               (TLAPS)

            +--> ChecksHost ----+
HealthExit -+--> ChecksNet -----+--> HealthPromises ---> HealthCheckRun --+--> MCHealthChecks    (TLC)
   |        +--> ChecksGpu -----+                                         |
   |        +--> ChecksService -+                                         +--> HealthCheckProofs (TLAPS)
   +-----------> GpuProcesses --------------------------------------------+

K8sCache, SacctWindow, NcclTail, ------+-> MCNodeMonitors      (TLC)
FleetHealth, LocalAttribution,         |
DeviceMonitor -------------------------+-> NodeMonitorsProofs  (TLAPS)
```

`MCPublishChunk`, `MCHealthChecks` and `MCNodeMonitors` are disjoint unions:
their parts share no state in the code either, so a behaviour is one of any one
of them, chosen by `part` (or `gpuPc`) in the initial state, and the others rest.
That makes one run of several small modules; nothing is composed that way.
`Rendezvous`, `GpuProcesses` and the modules of `MCNodeMonitors` name their `Init`,
`Next` and variables apart from those of the modules they share a run with, so
that the run and the proofs speak of the same definitions.

### ChunkIter

The two generators a backfill pulls. A pull is one step: `YieldStep`,
`YieldLast`, `YieldRow` append to `chunks`; `RaiseOnStep`, `RaiseOnRow` raise;
`EndOfFile` and a pull of an exhausted generator stop. A time is an integer of
seconds, because `get_datetime` asks `date` for whole seconds. A row of an
intervals file is an interval; one that raises (not a date, or start after end)
is an improper interval.

### BackfillPool and ChunkLedger

`publish_all_serial` and `publish_all_parallel`, whichever `--concurrently`
selects. Each thread has a program counter (`main`, `producer`, `consumer`);
`sem`, `workQueue`, `execQueue` are the semaphore and the two queues; `begun`,
`ended` and `attached` say how far each chunk's publication and its callback
are. Every action is the code between two points where another thread can
interfere: `Submit` and `Attach` are two, because the publication may end in
between, which is where `add_done_callback` runs the callback at once. A thread
of the executor is in use by the consumer, the producer and each running
publication (`Busy`), and `Begin` needs a free one.

`ChunkLedger` is what an operator is promised, in both modes: chunks are
yielded, each is begun at most once, at most `limit` at a time, and the command
returns only when the iterator is exhausted and everything yielded has ended.
`KeepsLedger` states that `BackfillPool` implements it, with
`begun <- Begun, yielded <- Len(chunks)`.

### PublishChunk

`publish_chunk` from the two `Popen` calls to its return, the SIGCHLD handler
the module installs, and the two children with the pipe between them. The
children are environment: they may fail at any moment. `publish_cmd` may also
exit with 0 although it has failed (`PublishGivesUp`): with `--chunk-size 0`,
`sacct_publish` hands the generator of its records to the sink inside `log_error`,
and a write or a line that fails ends it there, with the rest unread. `swallowed`
remembers that. `Waitpid` is what
CPython's `Popen` does, including the case that matters here: a child that
somebody else collected counts as having exited with 0. A timeout may happen at
any moment of a wait, also just after the child ended.

### Rendezvous

`_publish_chunk` of `sacct_backfill.py`, seen from several backfills that share
a rendezvous server: where each is with each of its chunks (`at`), and the
server's barriers. A `Wait` is a request to the server, where a thread of its own
waits for it (`waiting`); the last to arrive frees all, a timeout breaks the
barrier for good, and a client that is killed leaves its thread behind. A barrier
is one per start and end of a chunk: a backfill whose relative dates were
resolved a second later (`skew`) asks for others. Serial backfills end with the
first exception, parallel ones do not look at it. `PublishChunk` is one step
here, `Finish`. A restart begins at the first chunk, with another `life`.

### SacctWindow

`fsacct` over all chunks of a backfill: what `sacct` selects for the widened
interval, the joining of torn lines (`get_sacct_lines`) and the filter by end.
A line of `sacct` is, of each of its pieces, the number of delimiters up to the end
of it: a line break in a job's name makes another piece, a delimiter in it one
delimiter too many (only for `Unruly` jobs, which bounds the model). Then the
columns are not the header's any more, and `Filter` may raise where `format_line`
finds no date. `late` is by how much `sacct` takes a job to have ended before it
did, or after it (`Offsets`). `Chunks` are those of `gen_time_bounds`, whose last
one is a second longer than a step when the steps divide the interval. `printed` is a sequence,
so that a job that is printed twice is there twice.

### LocalAttribution

The two modes of `GetGPU2Slurm` that do not ask `slurmctld`: a list of processes
(`scontrol listpids`, or the lines of `nvidia-smi`), then one look into `/proc`
after the other, while processes end and their numbers go to others. The first
environment that cannot be read ends the call in mode `slurmd`; in mode `nvml`
such a process is a job without a name. The GPU's number in mode `nvml` is the
number of the line, which is right as long as each GPU has one line: `FirstLine`
and `LinesOf` say which lines of the output are a GPU's.

### K8sCache

`GetGPU2K8s`: the mutex, which is held while the API server is asked, the cached
map, its time of expiry, which is that of the pipeline that fetched it, and
`buildGPU2K8s`, which hands out ordinals in the order of the list. Pods are
listed in one moment, then their owners are asked for; `MaxFetch` bounds the time
between. `pods` changes at any moment.

### SlurmCache

`GetGPU2Slurm` in Slurmctld mode, called by the metrics, logs and traces
pipelines of one collector, over one file. Jobs start and end at any moment.
A call is `ListPids`, `Stat`, then `ReadFile` or one `QueryJob` per job and
`Truncate`, `Write`. What a file holds after overlapping writes is modelled by
what `os.WriteFile` does: truncate, then write at offset 0, so a shorter map
written over a longer one leaves a tail (`torn`). Time is a `Tick`; ages are
counted up to `OldAge`, beyond which nothing compares them. `os.Stat` and
`os.ReadFile` may fail, and the error is the answer (`StatFails`, `ReadFails`).

`scontrol` is external: what it prints of a job has a line for each of its nodes,
with the indices of the GPUs it holds there, and none for a job that has ended.
`AttributeGPU2SlurmMetadata` takes the indices of all those lines for GPUs of this
node (`Named`: the GPUs held here and the indices `elsewhere`), and it skips a job
in whose list of nodes it does not find the host, which happens to a job that is
here when its hosts' prefix has digits (`refused`). The properties say what is
left: who may be named by mistake (`Namesakes`), and that a skipped job's GPUs are
nobody's.

### CollectionLoop

`run_data_collection_loop`, which the Slurm monitors and `sacct_publish` run (the
monitors of GPUs, fleet health, NCCL, cost and inference have loops of their own), with
`write_to_sink_with_retries`, `retry`, `chunk_by_json_size` and `log_error`.
One step is one `get_data`, one record pulled into a chunk, or one call of
`write`. A record is its position and the length of its JSON, or `Invalid`, a
line `sacct_publish` cannot convert. A sink fails at one record (`streams`: file,
OTel logs) or as a whole, before or after it was heard (stdout, webhook).
`wrapped` is how the loop calls the writing function: `sink.write` inside
`log_error`. No command passes a bare write; `write_to_sink_with_retries` is
covered for one all the same (`wrapped = FALSE`), because that is where its
retries and error paths do something. No sink of the repository raises `Retry`
today; the sink of a plug-in may.

### DeviceMonitor

`main` of `nvml_monitor.py`, whose loop the monitors of AMD's and Intel's GPUs
repeat: a window of samples, `MaxFields` field by field, the last job seen on each
GPU, then a log for each GPU and one message for all. A GPU that was not reached
in a whole window has an empty accumulator: `AskRaises` ends the monitor.
`MaxFields` takes the mask of throttle reasons for a level, and so does the
code; the property is about everything else.

### FleetHealth

`FleetHealthTracker` for one GPU, with the clock it reads (it may be set back),
the last XID code the driver shows (it stays until the next error) and the
counter of corrected errors (a reload of the driver resets both). `before` and
`after` of an event are for the property: they say between which errors the code
was read. What is not read is `None`, and then the corrected errors' window is
not trimmed.

### NcclTail

`tail_and_parse` and the sink behind it, over a log that is written in halves of
records, truncated and rotated. The halves are numbered over all logs; the log has
those from `start` to `written`. `position` is what `fh.tell()` returns; it is
nowhere on disk, so a restarted monitor reads all of the log again.

### Health checks

`HealthExit` has the exit codes in their order and how results add up. The four
`Checks*` modules have one operator per check, a function from what it reads of
the node (return codes and outputs of its commands, absent and unreadable
values, calls that raise) to a result: an exit code, or `Raised(c)` for an
exception nobody catches. An output is one of the few texts the check tells
apart; a loop over devices, volumes or lines is over one or two of them.

`HealthPromises` says, check by check and without looking at how the code goes
about it, for which observations the node is good, for which it is bad, and in
which the check could not look: any return code but 0 of a command says so, that
of a signal too. It is written from help texts and docstrings. Where a check may
fail to look without noticing, the observation has a `lapse`: a command that was
killed, a counter that is no number, a file system that raises; and nothing is
good that lapsed.
What each check keeps of its promise is `ChecksAssumption` of `HealthCheckRun`: a
statement about constants, which TLC decides over every observation of every check
before the run begins. `HealthCheckRun` is a command around its parts: kill
switches, up to `MaxParts` selected parts in the order of the code, `OutputContext`,
`TelemetryContext` with a sink that fails in any of its ways, `sys.exit`; or it
fails before the contexts are there (`FailsEarly`: the log cannot be opened, the
two lists of `check-module` differ in length). Its
properties compare the exit status, and what is published, with the promises.

Two things are known not to hold and are excluded by name. `KnownLapses` are
pairs of a check and a lapse for which it says OK: the 31 checks of
`DeafToSignals`, which compare a return code with `> 0` and so take a command
that a signal has killed for one that succeeded, and four others (section 4).
`LapsesAssumption` says that each of them happens, `ChecksAssumption` that no other
does; TLC evaluates both. `NvlinkCutShort` is a kill switch that exits `nvlink`
with OK whatever its first part has found.

`GpuProcesses` is the one part with a life of its own, `check_and_kill_running_procs`:
GPU by GPU it lists processes and tests their pids, tries again, kills, waits and
looks again, while processes start, end and leave their GPUs. A process that is
gone may still be listed by the driver for a while (`held`).

## 3. Runs

| Run | Checks | Bounds |
|---|---|---|
| `backfill_pool` | `TypeOK`, `EverySecondOnce`, `PermitsConserved`, `ConcurrencyBounded`, refinement `KeepsLedger`, liveness `EndsUnlessRaised` | seconds 0..9, steps of 0, 2 and 3, files of up to 5 rows, `--concurrently` 0..3, 5 threads |
| `backfill_hang` (violation) | `InvocationFinishes` | the same, `from_file` only |
| `publish_chunk` | one chunk: `TypeOK`, `QuietChunkIsComplete`, `NoChildLeft`, liveness `ChunkEnds`; rendezvous: `InStep`, `DoneIsTried`, liveness `EveryoneEnds` | up to 4 records, a pipe of 2; 2 backfills, serial or two at a time, 2 chunks, 1 restart, clocks 0 or 1 second apart |
| `publish_chunk_masked` (violation) | `FailedChunkIsLogged` | up to 4 records, a pipe of 2 |
| `publish_chunk_hang` (violation) | `PublishWaitIsBounded` | the same |
| `slurm_cache` | `TypeOK`, `AttributionIsRecent`, `SteadyGpusAreRight`, `TornFileExpires` | 2 pipelines, 1 GPU, 2 jobs, at most one of which has GPUs elsewhere or is skipped, cache 1 tick, calls of 1 tick |
| `slurm_cache_torn` (violation) | `InvalidCacheIsQueriedAgain` | the same |
| `collection_loop` | `TypeOK`, `ChunksFit`, `ChunksAreMinimal`, `DeliveredOncePerTry`, `LossIsLogged`, liveness `OnceEnds` | 2 tasks, 2 rounds, up to 3 records of 1, 2 or 5 bytes, chunks of 6, `--retries` 0, 1 |
| `sink_swallowed` (violation) | `SinkFailureFails` | the loop alone, 2 records, `--retries` 2 |
| `node_monitors`: `SacctWindow` | `EveryJobInOneChunk` | seconds 0..4 in chunks of 2, slack 1, 2 jobs, placed by `sacct` 1 after their ends, or 1 or 2 before, lines of up to 3 pieces, one job whose name may have a delimiter |
| `NcclTail` | `EachRecordOnce` | 4 records, 2 truncations, 2 lives of the monitor |
| `FleetHealth` | `RatesAreOfTheWindow` | a window of 1, a clock of 0..2, 2 codes, 2 XIDs, 1 corrected error |
| `K8sCache` | `AnswerIsRecent`, `FetchesAreSpaced`, liveness `EveryCallReturns` | 2 pipelines with durations 1 and 2, 2 pods that ask for 1 and 2 GPUs, fetches of up to 1, a clock of 0..4 |
| `LocalAttribution` | `SteadyJobsAreRight` | 2 GPUs, 2 process numbers, 2 jobs |
| `DeviceMonitor` | `PublishedPeak` | 2 GPUs, 2 rounds, 1 job |
| `health_checks`: commands | `TypeOK`, `NoFalseOk`, `FaultsAreCritical`, `PublishedMatchesExit`, `CrashIsNotOk`, action `OverallNeverFalls` | every check; 1 or 2 parts of a command with many; 1 or 2 devices, lines or volumes |
| `health_checks`: `GpuProcesses` | `OkMeansFree`, liveness `Terminates` | 3 processes, 1 of which may start later, 2 GPUs, up to 2 retries |
| `gpu_kill_dead` (violation) | `AlreadyDeadIsNoError` | 2 processes, 1 GPU, 1 retry |

Why the bounds are enough: five chunks and three permits make the producer wait
for a permit and, with five threads and no semaphore, publications wait for a
thread; ten seconds and steps of two and three give pieces that divide the
interval and pieces that do not; `--step` is in whole hours, so that a step that
raises is 0. Four records and a pipe of two
let the writer block. Two jobs on one GPU let an attribution go stale and be
replaced, and be taken by a job with a GPU of that index elsewhere; two calls let
a writer overlap a slower writer, or a reader, and read what both have left;
`CacheDuration + 2 * CallTime` is reached, one tick less is violated.

Three records in chunks of six bytes are enough for a chunk that holds one, two
or three records, an item that exactly fits or misses by the comma, a second
chunk whose running size starts from the item that did not fit, and one that no
chunk can hold (5 bytes and the brackets).

Two backfills are the least that wait for each other, and a third would wait at
the same barrier; two chunks are needed for one to be ahead; one restart is
enough for a backfill to meet itself (without the premise `NoneRestarted`,
`DoneIsTried` is violated by one restart and `InStep` by two). Two chunks of `fsacct` have a boundary second, a second
before and one after, and the last ends at a multiple of the step; `sacct` is late,
early by the slack, or early by more; a line of three pieces has a piece that is neither first
nor last. Two truncations leave the position beyond the end and then inside
again. A window of 1 on a clock of 0..2 has events that are in, at its edge and
out of it, and setting back by two puts one into the future. Two durations make
the map of one pipeline outlive what the other would have allowed; the clock
goes far enough for two fetches after the first has expired. Two process numbers
let one end and its number go to the other job during a call. Two parts are
enough for a command with many, because what one part hands to the next is
`overall` alone.

`CHECK_DEADLOCK FALSE` stands in the runs of the backfill and of the collection
loop, and in `publish_chunk`, which really stop when the command returns. (The loop without `--once` is
cut after `MaxRounds`.)

*Fairness.* `BackfillPool!Fairness`: every thread is scheduled again and a
publication ends, because `publish_chunk` bounds its waits (run `publish_chunk`
shows that it ends if `publish_cmd` reads its input). `PublishChunk`: the main
thread goes on (a timeout is always due some day), signal handlers run, a
child sent SIGTERM dies (`CallerFairness`); that `publish_cmd` reads to the end
of its input is `PublishFairness`, and `publish_chunk_hang` is the run without
it. Nothing is assumed of `fsacct`. `SlurmCache` needs no fairness.
`Rendezvous`: a backfill that can go on does, and the server's waits time out,
because both of `_publish_chunk`'s have a timeout. `K8sCache`: Go's mutex hands
itself to whoever has waited for a millisecond, hence strong fairness of taking
it; that the API server answers, well or badly, is an assumption: the request
has no timeout, and `EveryCallReturns` fails without it. `GpuProcesses`: the
library calls and `wait_procs` return; nothing is assumed of the processes.
`CollectionLoop!FairSpec` assumes that the one thread of the loop goes on: that
`get_data` and a write return (webhook and OTel have timeouts) and a sleep ends.

## 4. What the runs show

The violation runs:

1. `backfill_hang`: the producer dies with its iterator and never queues
   `None` (line 293-300); `from_file --concurrently 2` with one bad row hangs
   instead of finishing, and does not report the row.
2. `publish_chunk_masked`: `reap_children` (line 69) takes the exit status of
   `fsacct` or of `publish_cmd`; the chunk failed, nothing is logged.
3. `publish_chunk_hang`: leaving `with Popen(publish_cmd)` after a failed
   `fsacct` waits for ever for a `publish_cmd` that hangs.
4. `slurm_cache_torn`: two overlapping rewrites leave a file that cannot be
   unmarshalled and is valid for `cache_duration`: no attribution until then.
5. `sink_swallowed`: a sink fails, `log_error` (`monitor.py` line 136) returns
   `None`, the writing function takes that for success: no retry, no error, exit
   status 0, and `publish_chunk` counts the chunk as published.
6. `gpu_kill_dead`: `psutil.Process(pid)` (`check_nvidia_smi.py` line 171) is
   made outside the `try`: a process that has ended between the listing and the
   killing is an exception, the check exits with 1 although the GPU is free.

What the passing runs had to leave out to pass, each in the premise of a
property and, at its line, among the hazards:

- A backfill that is killed while it waits and started again meets the thread of
  its former self at the barrier (`NoneRestarted`).
- `sacct` places a job up to 2-3 minutes off its end, on either side; the slack is
  2 minutes, and on one side. `EveryJobInOneChunk` promises only the jobs that are
  placed early by the slack at most (`WithinSlack`); that no job is printed twice or
  in the wrong chunk it says of all.
- A job name with the delimiter in it shifts the columns: the call fails, or prints
  a line with a column too many; with a line break as well it leaves half a line
  behind, which the next torn line is joined to (`Tame`).
- `publish_cmd` exits with 0 although it swallowed a failure: `QuietChunkIsComplete`
  then only bounds what was left unread by the pipe.
- A job of several nodes is given GPUs of this node for indices it has elsewhere,
  and one whose node list the code cannot read is given none (`Namesakes`,
  `KnownJob`).
- A record of NCCL's log of which a read has seen the first half only is lost
  (`torn`), and so is what lies before the position after a truncation.
- An XID that recurs with the same code is no new event; a counter that cannot be
  read any more keeps its last rate.
- The maximum of a mask of throttle reasons is not the mask of all reasons.
- With two processes on one GPU, mode `nvml` numbers the GPUs behind it wrongly
  (`shared`).
- 31 checks say OK for a command that a signal has killed, if what it printed
  before looks good or nothing was expected (`DeafToSignals`). `file_exists
  --should-not-exist` says it when the file system raises, `check_mountpoint` of a
  mount that is not in `fstab`, `nvlink` of error counters that are no numbers.
  `check_dstate` looks for the single line `strace` says of a stuck process on its
  stderr, which `shell_command` has sent to stdout: the one case in which a fault
  that was there to be seen is hidden (`Blinding`).
- A kill switch of `nvlink`'s second part hides the first part's finding
  (`NvlinkCutShort`).
- `check_ethlink` that has seen a fault on one interface (CRITICAL) and then comes
  to one that is not listed exits with WARN (1): its promise to be CRITICAL is of
  interfaces that are all listed.
- `NODE_STATES` has states `SinfoNodeStates` has no field for
  (`slurm/sinfo.py` line 425): a table, no behaviour; it is in the hazards only.

## 5. Proofs

Every theorem is for all values of the constants. The assumptions are their
types, and: at least three threads in the executor (`BackfillPool`), a rendezvous
has at least one process, a node whose GPU processes are checked or sampled has a
GPU, durations and times are natural numbers, a step is at least 2 seconds (as
`gen_time_bounds` demands), `wrapped` is a Boolean. They are named
in the modules that declare the constants, and TLC evaluates them in the runs.
Each component has one inductive invariant, proved once; the properties follow
from it.

**Chunk iterators** (`ChunkIterProofs`). `EverySecondOnce` is not inductive.
`Partitioning` is: the pieces so far are proper, in order, and cover the interval
up to `Frontier`, the local variable `start` of `gen_time_bounds`. `AddPiece` is
the one step of it, for a piece from the frontier on.

**Publication pool** (`BackfillPoolProofs`).
- `BackfillPartition`: every step of the pool is a `next()` or leaves the iterator
  alone, so the partition carries over.
- `PoolInvariance`: the invariant `PoolInv`. `Flow` says where a chunk is: on
  the work queue at most once, then with the consumer, then submitted, begun,
  ended; its callback is attached by the consumer alone. That is what makes a
  permit come back exactly once: when the second of "ended" and "attached"
  happens (`AcquireTakesOne`, `CallbackReleasesOne`). Without `Flow` the sum of
  permits is not inductive: a chunk queued twice would give its permit back
  twice. `PoolConservesPermits` and `PoolBoundsConcurrency` follow: each running
  publication holds a permit.
- `BackfillKeepsLedger`: `BackfillPool` implements `ChunkLedger`. `LedgerInvariance`
  adds to `PoolInv` that what was begun is what was yielded and has left the
  queues, so that a `return` finds nothing begun and not ended; then each step of
  the pool is a step of the ledger or leaves it alone.

**One chunk** (`PublishChunkProofs`). `ChunkInvariance` relates the children and
what the thread believes of them: a return code is known of collected children
only; of each collected child it is known, or the child is in `masked`, the history
of what the SIGCHLD handler collected; an exit with 0 means that the child's work is
done, or, of `publish_cmd`, that it swallowed a failure; and each `with` block that is behind has its child collected. From it
`QuietMeansComplete` (a chunk that ends quietly, none of whose children was
masked, has all its records, or lacks no more than the pipe holds if `publish_cmd`
swallowed a failure) and `NoChildIsLeft`, whose point is that every way
out of the two `with` blocks waits.

**Rendezvous** (`RendezvousProofs`). `MeetInvariance`: as long as no backfill was
started again, a thread at a barrier is of a chunk that waits there
(`ThreadsWait`); whoever is past the first wait of a chunk came there with all the
others, and none is left at it (`PastTogether`); a serial backfill has its chunks
in order (`SerialInOrder`). `SerialBackfillsAreInStep` and `DoneChunksAreTried`
follow.

**Slurmctld cache** (`SlurmCacheProofs`). `FileInvariance` bounds the time since
`scontrol` named a GPU for a job (`namedAge`): of what a call has in hand by what
the call has spent so far, and of what is in the file by
the file's age and one call (`SampleIsRecent`, `FileIsRecent`);
`AttributionsAreRecent` is its last step, `CacheDuration + 2 * CallTime`.
`SteadyAttributionsAreRight` says in addition that the job of a GPU that is steady
is still to be asked for or attributed already, or has lost the GPU to a namesake,
at every point of the loop over the jobs. `TornFilesExpire` needs that a torn file is as old as the write that tore it.

**Kubernetes cache** (`NodeMonitorsProofs`, as the five that follow). `CacheInvariance`: who asks the API server
holds the mutex; what is being built is at most a fetch old; what is cached expires
when the duration of the pipeline that fetched it is over, and is of the pods that
run unless these have changed in the time it was fetched or kept. `CacheSpacesFetches` and
`CacheAnswersAreRecent` follow.

**Local attribution.** `LocalInvariance` says of each entry of the process list that
has not been read what is still true of it, when its process is one of those that
were there all the time (`EntriesAreOfListed`), and of each GPU of such a process
that it is still to be attributed, or is, or cannot be (`ToReadOrRead`). What
makes it inductive is `OneProcessOfAGpu`: nobody who is given a process number that
has become free is on a GPU of a steady process. `LocalAttributionsAreRight`
follows.

**GPU monitor.** `NvmlInvariance`: an accumulator is an upper bound of what it was
told, and one of it, level by level (`AccumulatorIsPeak`); telling it a sample more
keeps that (`TellKeepsPeak`), because what is `None` is less than every level. That
the GPUs are published in order is what makes `ask()` of every GPU behind `device`
a success. `PeaksArePublished` follows; that bounded sets of numbers have a maximum,
which the host's utilisation is, is proved by least counterexample.

**Fleet health.** `FleetInvariance`: events are in the order of their readings, and a
code other than the last one that counted is of an error since then
(`NewCodeIsNewXid`); the counter grows by no more than the total
(`CounterBelowTotal`); until the clock is set back the windows are in the order of
the clock. `TrimIs` says what `_trim` keeps, `RateIsBelowTotal` is the step to
`RatesAreOfWindows`.

**NCCL tail.** `NcclInvariance`: what is emitted, and then what is read, is in the
order of the log and lies before the position (`TailInOrder`); a record is torn if
the position lies between its halves (`HalvesAreTorn`); and each record before the
position is taken or torn (`NoneIsMissing`), unless the log was started anew.
`WholeRecordsAre` says what one read finds. `RecordsAreEmittedOnce` follows.

**fsacct.** `SacctInvariance`, as long as no name has the delimiter in it: the pipe and `prev_line` are between two lines, or hold the pieces of one
job's line and `prev_line_delimiters` is the delimiters of those before (`InLine`), so that
the line is whole exactly when the count is reached, and never above it. A job that
was printed was in a chunk it ended in, and that chunk is behind it
(`PrintedInTurn`); chunks are disjoint (`ChunksAreDisjoint`), hence once. A job that ended
in a chunk is selected for it, if `sacct` places it early by the slack at most
(`EndedIsSelected`), and stays to be listed, or in the pipe, until it is printed
(`NoneIsDropped`). `JobsArePrintedOnce` follows.

**Collection loop** (`CollectionLoopProofs`). `LoopInvariance` has two parts.
`DeliveryInv`: what was yielded and written is behind the position, and the tries
of the sink are counted; `NoneIsDeliveredTwice` and `LossesAreLogged` follow.
`SizeInv`: the open chunk's size is the total of its records, every yielded chunk
fits, and none was cut early. The totals are sums over sets of records; that a
total grows by a record's size when one is added is proved from the community
module's definition by least counterexample. `EveryChunkFits` is the running size.
`GreedyIsMinimal` is the argument every greedy packing has: the record that opened
a chunk did not fit into the one before, so that any cut of the records up to the
first of the open chunk needs a piece more than the chunks yielded so far.

**Health checks** (`HealthCheckProofs`), in two halves. That each check keeps its
promise is a statement about finitely many observations: `ChecksAssumption`, which
TLC evaluates. That nothing around the checks spoils it is proved, for any number
of selected parts where the run has two. `RunInvariance` is the invariant. It says
which parts have had their turn (`Ahead`); as long as the overall code is no fault
each of them is fine or switched off (`AllAreFine`), once there is a fault it stays
(`FaultIsKept`); the codes published, and the one about to be, add up to the
overall code (`TellsTheWorst`); no part has two turns, so a record with the name of
the part that crashed is of its crash (`InTurn`, `CrashIsTold`). `OkIsEarned`,
`FaultsAreTold`, `RecordsMatchExit`, `CrashesAreTold` and the action property
`OverallOnlyRises` follow.

**GPU processes** (same module). `OkProvesFree`: the GPUs before `device` are
free as long as the round has found nothing, because a process does not change its
GPU and one that starts sets `arrived`.

*Only model-checked.* Liveness is out of the prover's reach: `EndsUnlessRaised`,
`ChunkEnds`, `EveryoneEnds`, `OnceEnds`, `Terminates`, `EveryCallReturns`. So is what
the checks compute for their observations, other than by enumerating them:
`ChecksAssumption`. Every other property of the passing runs is a theorem.

## 6. Plan

Modelled: the backfill from its iterators to the rendezvous and `fsacct`, the
attribution of GPUs to jobs and pods, the collection loop, the windows of the
monitors, the NCCL tail and the health checks. Each safety property, each action
property and the refinement is proved. What is left:

1. The safety half of the liveness properties: that a state of the pool, of a chunk
   or of the rendezvous in which no thread can go on is one in which all have ended
   (or in which the producer has died), as an invariant without `ENABLED`.
2. `ChecksAssumption`, check by check, where a check reads more values than TLC is
   given.

## 7. Not modelled

- *Shell helper*: one call without state.
- *Cost and inference monitors*: a scrape, parsed and renamed, in a plain loop of
  their own.
- *Slurm clients and monitors*: a command, parsed and renamed, inside the collection
  loop, which is modelled.
- *Training hooks*: a step counter and a formula.
- *Deployment*: charts, dashboards and alerts are configuration.
- *Schemas, feature generator*: data classes and generated code; the kill switches
  the generated code reads are in `HealthCheckRun`.

Of components that are modelled in part:

- *sacct wrapper and `sacct_publish`*: the unpatched pass-through and the
  conversion of a payload.
- *Slurmctld cache*: a job array prints a block for each of its tasks; the model has
  one per job. That the cache's directory is made with mode 0600, which nobody but
  root can search, is one of the reasons of `StatFails`.
- *Slurm and Kubernetes processors*: the attributes of one data point, the labels
  and owners of pods; `k8s_gpu_map.py` asks once per message and keeps nothing.
- *Device monitors*: the readings themselves and the DCGM scraper.
- *Fleet health*: score, temperature, PCIe, uncorrected errors, row remapping:
  formulas over one reading.
- *NCCL monitor*: the verdict on stragglers, a formula over one batch.
- *Exporters*: the conversions; how a write can fail is in `CollectionLoop` and
  `HealthCheckRun`.
- *Health checks*: formatting of messages, options `click` refuses (the command exits
  with 2 before it begins), and that a pipeline without a timeout
  may not end (`subprocess.py` line 38): the check then hangs.
