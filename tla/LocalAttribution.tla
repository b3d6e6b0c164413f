---------------------------- MODULE LocalAttribution ---------------------------
(***************************************************************************)
(* GetGPU2Slurm of the shelper in the two modes that do not ask slurmctld: *)
(* with "slurmd" the processes of the jobs are those of scontrol listpids  *)
(* and each names the GPUs of its job; with "nvml" they are those that     *)
(* nvidia-smi sees on the GPUs and each names its job. In both, processes  *)
(* come and go between the list and the look into their environments.      *)
(***************************************************************************)
EXTENDS Integers, FiniteSets, Functions

CONSTANTS NumGpus, Pids, Jobs

VARIABLES jobGpus,     \* SLURM_JOB_GPUS of each job
          unreadable,  \* jobs whose processes' environments cannot be read
          proc,        \* the job of each process, Nobody if there is no such process
          source,      \* GetMetadataSource
          shared,      \* in mode nvml: jobs have two processes on each of their GPUs
          localPc, toRead,  \* of one call
          GPU2Slurm,   \* the jobs the map has for each GPU: none or one
          err,
          listed,      \* processes that were there when the call began
          steady       \* those of them that have not ended since

localVars == <<jobGpus, unreadable, proc, source, shared, localPc, toRead, GPU2Slurm, err,
               listed, steady>>
localWorld == <<jobGpus, unreadable, source, shared>>

ASSUME LocalAssumption == NumGpus \in Nat /\ "none" \notin Jobs

Nobody == "none"
Blank == "blank"
Gpus == 0 .. NumGpus - 1
Running == { p \in Pids : proc[p] # Nobody }
UsedGpus == UNION { jobGpus[proc[p]] : p \in Running }

LocalInit ==
  /\ jobGpus \in [Jobs -> SUBSET Gpus] /\ unreadable \in SUBSET Jobs
  /\ proc = [p \in Pids |-> Nobody]
  /\ source \in {"slurmd", "nvml"}
  /\ shared \in BOOLEAN /\ (source = "slurmd" => ~shared)
  /\ localPc = "idle" /\ toRead = {} /\ GPU2Slurm = [g \in Gpus |-> {}] /\ err = FALSE
  /\ listed = {} /\ steady = {}

(* A job starts in a process whose number may have been another's.         *)
Spawn(p, j) ==
  /\ proc[p] = Nobody /\ j \notin Range(proc) /\ jobGpus[j] \cap UsedGpus = {}
  /\ proc' = [proc EXCEPT ![p] = j]
  /\ UNCHANGED <<localWorld, localPc, toRead, GPU2Slurm, err, listed, steady>>

Exit(p) ==
  /\ proc[p] # Nobody
  /\ proc' = [proc EXCEPT ![p] = Nobody]
  /\ steady' = steady \ {p}
  /\ UNCHANGED <<localWorld, localPc, toRead, GPU2Slurm, err, listed>>

(* GetJob2Pid: a process of each job.                                      *)
Job2Pid == { [job |-> proc[p], pid |-> p] : p \in Running }

(* The output of nvidia-smi has a line for each process of each GPU, or    *)
(* one with a dash; the lines are numbered as if they were the GPUs.       *)
OnGpu(g) == { p \in Running : g \in jobGpus[proc[p]] }
UsedBefore(g) == Cardinality({ h \in Gpus : h < g /\ OnGpu(h) # {} })
FirstLineDashless(g) == UsedBefore(g) * (IF shared THEN 2 ELSE 1)  \* mutant: a dash is no line
FirstLine(g) == g + (IF shared THEN UsedBefore(g) ELSE 0)
LinesOf(g) == FirstLine(g) .. FirstLine(g) + (IF shared THEN 1 ELSE 0)
ParseNvidiaSmi == { e \in [gpu : 0 .. 2 * NumGpus, pid : Pids] :
                      \E g \in Gpus : e.pid \in OnGpu(g) /\ e.gpu \in LinesOf(g) }

Begin ==
  /\ localPc = "idle"
  /\ toRead' = IF source = "nvml" THEN ParseNvidiaSmi ELSE Job2Pid
  /\ localPc' = "reading" /\ listed' = Running /\ steady' = Running
  /\ UNCHANGED <<localWorld, proc, GPU2Slurm, err>>

(* There is no host name, or nvidia-smi or scontrol fails: of the failure  *)
(* of nvidia-smi nobody is told.                                           *)
CannotList ==
  /\ localPc = "idle"
  /\ err' \in {TRUE, source = "slurmd"} /\ localPc' = "returned"
  /\ UNCHANGED <<localWorld, proc, toRead, GPU2Slurm, listed, steady>>

Readable(p) == proc[p] # Nobody /\ proc[p] \notin unreadable

(* GetGPU2SlurmFromPIDs, one process after the other in any order: the     *)
(* first that cannot be read, and the first of a job without GPUs, ends it. *)
FromPid(entry) ==
  IF Readable(entry.pid) /\ jobGpus[proc[entry.pid]] # {}
  THEN /\ GPU2Slurm' = [g \in Gpus |-> IF g \in jobGpus[proc[entry.pid]] THEN {entry.job}
                                        ELSE GPU2Slurm[g]]
       /\ toRead' = toRead \ {entry}
       /\ UNCHANGED <<localPc, err>>
  ELSE /\ err' = ~Readable(entry.pid) /\ localPc' = "returned" /\ toRead' = {}
       /\ UNCHANGED GPU2Slurm

(* GetGPU2SlurmFromNvml: what cannot be read is a job without a name. A    *)
(* number beyond the GPUs is in the map too, but no data point has it.     *)
FromNvml(entry) ==
  /\ GPU2Slurm' = [g \in Gpus |-> IF g # entry.gpu THEN GPU2Slurm[g]
                                   ELSE {IF Readable(entry.pid) THEN proc[entry.pid] ELSE Blank}]
  /\ toRead' = toRead \ {entry}
  /\ UNCHANGED <<localPc, err>>

Read ==
  /\ localPc = "reading"
  /\ \E entry \in toRead : IF source = "nvml" THEN FromNvml(entry) ELSE FromPid(entry)
  /\ UNCHANGED <<localWorld, proc, listed, steady>>

ReturnMap ==
  /\ localPc = "reading" /\ toRead = {}
  /\ localPc' = "returned"
  /\ UNCHANGED <<localWorld, proc, toRead, GPU2Slurm, err, listed, steady>>

(* processMetrics enriches its batch with what the map has, error or not.  *)
Enrich ==
  /\ localPc = "returned"
  /\ localPc' = "idle" /\ GPU2Slurm' = [g \in Gpus |-> {}] /\ err' = FALSE
  /\ listed' = {} /\ steady' = {}
  /\ UNCHANGED <<localWorld, proc, toRead>>

LocalNext == \/ \E p \in Pids : Exit(p) \/ \E j \in Jobs : Spawn(p, j)
             \/ Begin \/ CannotList \/ Read \/ ReturnMap \/ Enrich

LocalSpec == LocalInit /\ [][LocalNext]_localVars

-----------------------------------------------------------------------------
(* A GPU of a job that has run since the call began is never attributed to *)
(* another, whatever ends, starts and takes over a process number in the   *)
(* meantime; in mode nvml this is so only while no GPU has two processes.  *)
(* And if no process that was there is gone, can be read and has GPUs, the *)
(* map has all of them.                                                    *)
Complete == /\ listed = steady
            /\ \A p \in listed : Readable(p) /\ jobGpus[proc[p]] # {}
SteadyJobsAreRight ==
  localPc = "returned" /\ ~shared =>
    \A p \in steady : \A g \in jobGpus[proc[p]] :
      /\ GPU2Slurm[g] \subseteq {proc[p], Blank}
      /\ Complete => GPU2Slurm[g] = {proc[p]}
=============================================================================
