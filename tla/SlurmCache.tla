------------------------------ MODULE SlurmCache ------------------------------
(***************************************************************************)
(* GetGPU2Slurm in slurmctld mode (src/shelper/entrypoint.go) and the file *)
(* it caches its answer in (src/shelper/cache_helpers.go), called by the   *)
(* slurm processors of an OTel collector: the metrics, logs and traces     *)
(* pipelines run concurrently and share the file, with no lock.            *)
(*                                                                         *)
(* Jobs come and go on the node meanwhile. A call lists the jobs of the    *)
(* node, looks at the age of the file, and either reads the file or asks   *)
(* scontrol for each job in turn and rewrites the file, which is a         *)
(* truncation followed by a write at offset 0.                             *)
(*                                                                         *)
(* What scontrol says of a job has one line for each of its nodes, with    *)
(* the indices of the GPUs it holds there, and one list of its nodes. The  *)
(* code takes the indices of all those lines for GPUs of this node, and it *)
(* skips a job when it does not find this host in the list, which it may   *)
(* not although the host is there: a prefix with digits, for example.      *)
(*                                                                         *)
(* Time is a Tick that ages things; no age is counted further than         *)
(* OldAge, where nothing compares it any more.                             *)
(***************************************************************************)
EXTENDS Naturals, FiniteSets, Sequences, FiniteSetsExt

CONSTANTS
  Calls,          (* the pipelines that call GetGPU2Slurm              *)
  Gpu, Job,       (* the GPUs of the node and the jobs that may run    *)
  NoJob,          (* what a GPU without a job is attributed to         *)
  CacheDuration,  (* cfg.CacheDuration, in ticks                       *)
  CallTime        (* bound: a call takes at most so many ticks         *)

ASSUME CacheDurationAssumption == CacheDuration \in Nat
ASSUME CallTimeAssumption == CallTime \in Nat
ASSUME NoJobAssumption == NoJob \notin Job
ASSUME GpuAssumption == IsFiniteSet(Gpu)

VARIABLES
  alloc,    (* the job each GPU is allocated to, NoJob if none         *)
  running,  (* the jobs with processes on the node                     *)
  elsewhere, (* the indices of the GPUs each job has on other nodes    *)
  refused,  (* the jobs in whose list of nodes this host is not found  *)
  namedAge, (* ticks since scontrol last named a GPU, or one of its    *)
            (* index on another node, for a job that ran here          *)
  file,     (* the cache file: see Files                               *)
  pc,       (* each call: "idle" | "stat" | "read" | "query"           *)
            (*   | "truncate" | "write" | "answer"                     *)
  jobIDs,   (* the jobs a call has still to ask scontrol for           *)
  gpuMap,   (* GPU2Slurm of each call                                  *)
  err,      (* the error of each call: see Errors                      *)
  elapsed,  (* ticks each call has taken                               *)
  asked,    (* whether each call asks scontrol, not the file           *)
  steady    (* history: the GPUs whose allocation has not changed      *)
            (* since each call listed the jobs                         *)

worldVars == <<alloc, running, elsewhere, refused, namedAge>>
callVars == <<pc, jobIDs, gpuMap, err, elapsed, asked>>
vars == <<worldVars, file, pc, jobIDs, gpuMap, err, elapsed, asked, steady>>

OldAge == CacheDuration + 2 * CallTime + 1

Maps == [Gpu -> Job \cup {NoJob}]
EmptyMap == [g \in Gpu |-> NoJob]
Errors == {"none", "scontrol", "cache", "unmarshal", "save"}

(* The JSON of a map grows with the GPUs in it.  *)
Size(map) == 1 + Cardinality({ g \in Gpu : map[g] # NoJob })

(* What the file holds: `size` is 0 for an empty file; `data` is what its    *)
(* first bytes say; `torn` says that bytes of an older, longer one follow.   *)
Files == [exists : BOOLEAN, age : 0 .. OldAge, size : 0 .. 1 + Cardinality(Gpu),
          data : Maps, torn : BOOLEAN]

(* The row of column headers taken for a job, for mutation testing. *)
RunningJobsAndHeader == running \cup {NoJob}

RunningJobs == running

(* The GPUs that the lines of a job name, and the jobs that would name a     *)
(* GPU for a namesake of it on another node.                                 *)
Named(j) == IF j \in running THEN { g \in Gpu : alloc[g] = j } \cup elsewhere[j] ELSE {}
Namesakes(g) == { j \in Job \ refused : g \in elsewhere[j] }

Init ==
  /\ alloc = EmptyMap /\ running = {}
  /\ elsewhere \in [Job -> SUBSET Gpu] /\ refused \in SUBSET Job
  /\ namedAge = [g \in Gpu |-> [j \in Job |-> OldAge]]
  /\ file = [exists |-> FALSE, age |-> 0, size |-> 0, data |-> EmptyMap, torn |-> FALSE]
  /\ pc = [c \in Calls |-> "idle"]
  /\ jobIDs = [c \in Calls |-> {}]
  /\ gpuMap = [c \in Calls |-> EmptyMap]
  /\ err = [c \in Calls |-> "none"]
  /\ elapsed = [c \in Calls |-> 0]
  /\ asked = [c \in Calls |-> FALSE]
  /\ steady = [c \in Calls |-> {}]

-----------------------------------------------------------------------------
(* The node. *)

Unsettled(gs) == steady' = [c \in Calls |-> steady[c] \ gs]

(* A job starts with some of the free GPUs, or with none of this node. *)
JobStarts(j) ==
  /\ j \notin running
  /\ \E gs \in SUBSET { g \in Gpu : alloc[g] = NoJob } :
       /\ alloc' = [g \in Gpu |-> IF g \in gs THEN j ELSE alloc[g]]
       /\ namedAge' = [g \in Gpu |-> IF g \in gs \cup elsewhere[j]
                                     THEN [namedAge[g] EXCEPT ![j] = 0]
                                     ELSE namedAge[g]]
       /\ Unsettled(gs)
  /\ running' = running \cup {j}
  /\ UNCHANGED <<elsewhere, refused, file, callVars>>

JobEnds(j) ==
  /\ j \in running
  /\ alloc' = [g \in Gpu |-> IF alloc[g] = j THEN NoJob ELSE alloc[g]]
  /\ running' = running \ {j}
  /\ Unsettled({ g \in Gpu : alloc[g] = j })
  /\ UNCHANGED <<elsewhere, refused, namedAge, file, callVars>>

Older(age) == IF age < OldAge THEN age + 1 ELSE age

(* An answer is used at once, and no call takes longer than CallTime. *)
Tick ==
  /\ \A c \in Calls : pc[c] # "answer" /\ (pc[c] # "idle" => elapsed[c] < CallTime)
  /\ namedAge' = [g \in Gpu |-> [j \in Job |->
                   IF g \in Named(j) THEN 0 ELSE Older(namedAge[g][j])]]
  /\ file' = IF file.exists THEN [file EXCEPT !.age = Older(@)] ELSE file
  /\ elapsed' = [c \in Calls |-> IF pc[c] = "idle" THEN 0 ELSE elapsed[c] + 1]
  /\ UNCHANGED <<alloc, running, elsewhere, refused, pc, jobIDs, gpuMap, err, asked, steady>>

-----------------------------------------------------------------------------
(* GetGPU2Slurm. *)

Goto(c, to) == pc' = [pc EXCEPT ![c] = to]

Answer(c, map, e) ==
  /\ gpuMap' = [gpuMap EXCEPT ![c] = map]
  /\ err' = [err EXCEPT ![c] = e]
  /\ jobIDs' = [jobIDs EXCEPT ![c] = {}]
  /\ Goto(c, "answer")

(* GetJob2Pid: scontrol listpids. *)
ListPids(c) ==
  /\ pc[c] = "idle"
  /\ jobIDs' = [jobIDs EXCEPT ![c] = RunningJobs]
  /\ gpuMap' = [gpuMap EXCEPT ![c] = EmptyMap]
  /\ steady' = [steady EXCEPT ![c] = Gpu]
  /\ Goto(c, "stat")
  /\ UNCHANGED <<worldVars, file, err, elapsed, asked>>

(* scontrol fails, or os.Hostname did before. *)
ListPidsFails(c) ==
  /\ pc[c] = "idle"
  /\ Answer(c, EmptyMap, "scontrol")
  /\ UNCHANGED <<worldVars, file, elapsed, asked, steady>>

(* A file that never gets too old, for mutation testing. *)
AnyFileIsValid == file.exists

(* GetSlurmMetadataCache: the file exists, and its mtime is recent enough. *)
FileIsValid == file.exists /\ file.age <= CacheDuration

Stat(c) ==
  /\ pc[c] = "stat"
  /\ Goto(c, IF FileIsValid THEN "read" ELSE "query")
  /\ asked' = [asked EXCEPT ![c] = ~ FileIsValid]
  /\ UNCHANGED <<worldVars, file, jobIDs, gpuMap, err, elapsed, steady>>

(* os.Stat or os.ReadFile fails, for another reason than that there is no    *)
(* file (a directory that may not be searched, ...): the error is the answer.*)
StatFails(c) ==
  /\ pc[c] = "stat"
  /\ Answer(c, EmptyMap, "cache")
  /\ UNCHANGED <<worldVars, file, elapsed, asked, steady>>

ReadFails(c) ==
  /\ pc[c] = "read"
  /\ Answer(c, EmptyMap, "cache")
  /\ UNCHANGED <<worldVars, file, elapsed, asked, steady>>

(* ReadFile: an empty file is taken for no cache at all; ... *)
ReadEmpty(c) ==
  /\ pc[c] = "read" /\ file.size = 0
  /\ Goto(c, "query")
  /\ asked' = [asked EXCEPT ![c] = TRUE]
  /\ UNCHANGED <<worldVars, file, jobIDs, gpuMap, err, elapsed, steady>>

(* ... anything else is unmarshalled, and an error there is the answer. *)
ReadFile(c) ==
  /\ pc[c] = "read" /\ file.size > 0
  /\ IF file.torn THEN Answer(c, EmptyMap, "unmarshal")
                  ELSE Answer(c, file.data, "none")
  /\ UNCHANGED <<worldVars, file, elapsed, asked, steady>>

(* GetJobMetadata and AttributeGPU2SlurmMetadata, job by job: the GPUs that  *)
(* the lines of all its nodes name now, if this host is found in their list. *)
(* A job that has ended in the meantime has none.                            *)
QueryJob(c) ==
  /\ pc[c] = "query"
  /\ \E j \in jobIDs[c] :
       /\ gpuMap' = [gpuMap EXCEPT ![c] =
                       [g \in Gpu |-> IF g \in Named(j) /\ j \notin refused THEN j
                                     ELSE gpuMap[c][g]]]
       /\ jobIDs' = [jobIDs EXCEPT ![c] = @ \ {j}]
  /\ UNCHANGED <<worldVars, file, pc, err, elapsed, asked, steady>>

(* A failed job that is passed over, for mutation testing. *)
QueryFailsAndGoesOn(c) ==
  /\ pc[c] = "query"
  /\ \E j \in jobIDs[c] : jobIDs' = [jobIDs EXCEPT ![c] = @ \ {j}]
  /\ UNCHANGED <<worldVars, file, pc, gpuMap, err, elapsed, asked, steady>>

(* The answer is what was attributed so far, and the file stays as it is. *)
QueryFails(c) ==
  /\ pc[c] = "query" /\ jobIDs[c] # {}
  /\ Answer(c, gpuMap[c], "scontrol")
  /\ UNCHANGED <<worldVars, file, elapsed, asked, steady>>

QueriesDone(c) ==
  /\ pc[c] = "query" /\ jobIDs[c] = {}
  /\ Goto(c, "truncate")
  /\ UNCHANGED <<worldVars, file, jobIDs, gpuMap, err, elapsed, asked, steady>>

(* SaveSlurmToJSON: os.WriteFile opens the file with O_TRUNC, ... *)
Truncate(c) ==
  /\ pc[c] = "truncate"
  /\ file' = [exists |-> TRUE, age |-> 0, size |-> 0, data |-> EmptyMap, torn |-> FALSE]
  /\ Goto(c, "write")
  /\ UNCHANGED <<worldVars, jobIDs, gpuMap, err, elapsed, asked, steady>>

(* ... and writes from its own offset 0: where another call has written a    *)
(* longer map since the truncation, the end of that one stays.               *)
Write(c) ==
  /\ pc[c] = "write"
  /\ file' = [exists |-> TRUE, age |-> 0,
              size |-> Max({file.size, Size(gpuMap[c])}),
              data |-> gpuMap[c],
              torn |-> file.size > Size(gpuMap[c])]
  /\ Answer(c, gpuMap[c], "none")
  /\ UNCHANGED <<worldVars, elapsed, asked, steady>>

(* No directory, no permission, no space. *)
SaveFails(c) ==
  /\ pc[c] \in {"truncate", "write"}
  /\ Answer(c, gpuMap[c], "save")
  /\ UNCHANGED <<worldVars, file, elapsed, asked, steady>>

(* The processor enriches its batch, whatever the error. *)
Use(c) ==
  /\ pc[c] = "answer"
  /\ Goto(c, "idle")
  /\ gpuMap' = [gpuMap EXCEPT ![c] = EmptyMap]
  /\ err' = [err EXCEPT ![c] = "none"]
  /\ elapsed' = [elapsed EXCEPT ![c] = 0]
  /\ asked' = [asked EXCEPT ![c] = FALSE]
  /\ steady' = [steady EXCEPT ![c] = {}]
  /\ UNCHANGED <<worldVars, file, jobIDs>>

Step(c) ==
  \/ ListPids(c) \/ ListPidsFails(c)
  \/ Stat(c) \/ StatFails(c) \/ ReadEmpty(c) \/ ReadFile(c) \/ ReadFails(c)
  \/ QueryJob(c) \/ QueryFails(c) \/ QueriesDone(c)
  \/ Truncate(c) \/ Write(c) \/ SaveFails(c)
  \/ Use(c)

Next ==
  \/ \E j \in Job : JobStarts(j) \/ JobEnds(j)
  \/ Tick
  \/ \E c \in Calls : Step(c)

Spec == Init /\ [][Next]_vars

-----------------------------------------------------------------------------
TypeOK ==
  /\ alloc \in Maps /\ running \subseteq Job
  /\ elsewhere \in [Job -> SUBSET Gpu] /\ refused \subseteq Job
  /\ namedAge \in [Gpu -> [Job -> 0 .. OldAge]]
  /\ file \in Files
  /\ pc \in [Calls -> {"idle", "stat", "read", "query", "truncate", "write", "answer"}]
  /\ jobIDs \in [Calls -> SUBSET Job]
  /\ gpuMap \in [Calls -> Maps]
  /\ err \in [Calls -> Errors]
  /\ elapsed \in [Calls -> 0 .. CallTime]
  /\ asked \in [Calls -> BOOLEAN]
  /\ steady \in [Calls -> SUBSET Gpu]

(* A GPU is attributed to a job only if scontrol named the GPU for it at     *)
(* most cache_duration ago, the time of the call that sampled it and of the  *)
(* call that reads it aside. For a job of this node alone that is to say     *)
(* that the job held the GPU then; a job of several nodes ran here and held  *)
(* this GPU or one of its index elsewhere (slurm_helpers.go:165-167).        *)
(* Neither overlapping rewrites of the file, nor a slow call that rewrites   *)
(* it with an older sample, nor a partial answer after an error lets an      *)
(* attribution live longer (config.go:24, entrypoint.go:45-47).              *)
AttributionIsRecent ==
  \A c \in Calls : pc[c] = "answer" =>
    \A g \in Gpu : gpuMap[c][g] # NoJob =>
      namedAge[g][gpuMap[c][g]] <= CacheDuration + 2 * CallTime

(* The job a GPU should be attributed to, as far as the code can know it: a  *)
(* job in whose list of nodes it does not find the host is skipped           *)
(* (slurm_helpers.go:107-110).                                               *)
KnownJob(g) == IF alloc[g] \in refused THEN NoJob ELSE alloc[g]

(* Asking job by job is no snapshot, but what did not change meanwhile is    *)
(* right: a call that asked scontrol and got an answer attributes every GPU  *)
(* whose allocation was steady to its job, and to none if it was free or its *)
(* job was skipped. A job that holds a GPU of the same index on another node *)
(* is the only one such a GPU can be attributed to by mistake                *)
(* (entrypoint.go:55-63).                                                    *)
SteadyGpusAreRight ==
  \A c \in Calls : pc[c] = "answer" /\ asked[c] /\ err[c] # "scontrol" =>
    \A g \in steady[c] : gpuMap[c][g] \in {KnownJob(g)} \cup Namesakes(g)

(* A file that two overlapping rewrites have torn is not read for ever: like *)
(* any other it is out of use once it is older than cache_duration.          *)
TornFileExpires ==
  \A c \in Calls : err[c] = "unmarshal" => file.age <= CacheDuration + CallTime

(* "If cache is not valid, query slurmctld and write to cache"               *)
(* (entrypoint.go:54): what the file holds is never the cause of an error.   *)
InvalidCacheIsQueriedAgain == \A c \in Calls : err[c] # "unmarshal"
=============================================================================
