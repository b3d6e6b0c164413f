----------------------------- MODULE GpuProcesses -----------------------------
(***************************************************************************)
(* check_and_kill_running_procs of check_nvidia_smi.py: the part that asks *)
(* again for a while whether processes are on the GPUs, and then kills     *)
(* them if it was told to. Meanwhile the processes of the node start, end  *)
(* and leave the GPUs as they please.                                      *)
(***************************************************************************)
EXTENDS HealthExit, FiniteSets

CONSTANTS Pids,           \* the processes that ever use a GPU
          NumGpus,        \* the GPUs, walked in the order of their index
          MaxRetry,       \* bound on --running_procs_retry_count
          MaxStarts       \* bound on the processes that start meanwhile

(* A node whose GPU processes are checked has a GPU. *)
ASSUME GpusAssumption == NumGpus \in Nat \ {0}

VARIABLES gpuOf,      \* where a process runs
          proc,       \* "running"; "held": it is gone and its GPU lists it still
          starts,     \* how many have started since
          gpuPc, device, attempt,
          listed,     \* `pids`: the processes of the last GPU that answered
          found,      \* the exit code of the round over the GPUs
          victims, toKill, alive,
          result,     \* the exit code of the part
          retryCount, force,
          arrived     \* whether a process has started since the last round began

world == <<gpuOf, proc, starts>>
gpuOptions == <<retryCount, force>>
killing == <<victims, toKill, alive>>
gpuVars == <<world, gpuPc, device, attempt, listed, found, killing, result, gpuOptions, arrived>>

GpuInit ==
  /\ gpuOf \in [Pids -> 1 .. NumGpus]
  /\ proc \in [Pids -> {"none", "running", "held"}]
  /\ starts = 0
  /\ gpuPc = "begin" /\ device = 1 /\ attempt = 0
  /\ listed = {} /\ found = OK
  /\ victims = {} /\ toKill = {} /\ alive = {}
  /\ result = OK
  /\ retryCount \in 0 .. MaxRetry /\ force \in BOOLEAN
  /\ arrived = FALSE

Ended == gpuPc \in {"done", "raised"}
Living == { p \in Pids : proc[p] = "running" }

-----------------------------------------------------------------------------
(* The processes of the node. *)

Start(p) ==
  /\ ~Ended /\ starts < MaxStarts
  /\ proc[p] = "none"
  /\ proc' = [proc EXCEPT ![p] = "running"]
  /\ starts' = starts + 1
  /\ arrived' = TRUE
  /\ UNCHANGED <<gpuOf, gpuPc, device, attempt, listed, found, killing, result, gpuOptions>>

(* A process is gone at once for the kernel, for the driver a little later. *)
Leaves(p) == \E s \in {"held", "gone"} : proc' = [proc EXCEPT ![p] = s]

Die(p) ==
  /\ ~Ended
  /\ proc[p] = "running"
  /\ Leaves(p)
  /\ UNCHANGED <<gpuOf, starts, gpuPc, device, attempt, listed, found, killing, result,
                 gpuOptions, arrived>>

Release(p) ==
  /\ ~Ended
  /\ proc[p] = "held"
  /\ proc' = [proc EXCEPT ![p] = "gone"]
  /\ UNCHANGED <<gpuOf, starts, gpuPc, device, attempt, listed, found, killing, result,
                 gpuOptions, arrived>>

-----------------------------------------------------------------------------
(* One round over the GPUs: attempt_check_running_procs. *)

Round(phase) ==
  /\ gpuPc' = phase /\ device' = 1
  /\ listed' = {} /\ found' = OK
  /\ arrived' = FALSE

(* Without devices, or when they cannot be counted, there is no round; nor *)
(* is there when no retries are wanted.                                    *)
NoDevices ==
  /\ gpuPc = "begin"
  /\ result' \in {OK, WARN, CRITICAL}
  /\ gpuPc' = "done"
  /\ retryCount' = 0
  /\ UNCHANGED <<world, device, attempt, listed, found, killing, force, arrived>>

GpuBegin ==
  /\ gpuPc = "begin"
  /\ IF retryCount = 0
     THEN gpuPc' = "kill?" /\ UNCHANGED <<device, listed, found, arrived>>
     ELSE Round("list")
  /\ UNCHANGED <<world, attempt, killing, result, gpuOptions>>

NextDevice ==
  IF device < NumGpus
  THEN device' = device + 1 /\ gpuPc' = (IF gpuPc \in {"list", "judge"} THEN "list" ELSE "listAgain")
  ELSE device' = device /\ gpuPc' = IF gpuPc \in {"list", "judge"} THEN "decide" ELSE "decideAgain"

ListFails ==
  /\ gpuPc \in {"list", "listAgain"}
  /\ \E c \in {WARN, CRITICAL} : found' = WorseOf(found, c)
  /\ NextDevice
  /\ UNCHANGED <<world, attempt, listed, killing, result, gpuOptions, arrived>>

List ==
  /\ gpuPc \in {"list", "listAgain"}
  /\ listed' = { p \in Pids : gpuOf[p] = device /\ proc[p] \in {"running", "held"} }
  /\ gpuPc' = IF gpuPc = "list" THEN "judge" ELSE "judgeAgain"
  /\ UNCHANGED <<world, device, attempt, found, killing, result, gpuOptions, arrived>>

(* A GPU is occupied if one of the listed processes exists, by now.        *)
Judge ==
  /\ gpuPc \in {"judge", "judgeAgain"}
  /\ found' = IF listed \cap Living = {} THEN found ELSE CRITICAL
  /\ NextDevice
  /\ UNCHANGED <<world, attempt, listed, killing, result, gpuOptions, arrived>>

Decide ==
  /\ gpuPc = "decide"
  /\ \/ /\ found = OK
        /\ result' = (IF attempt = 0 THEN OK ELSE WARN)
        /\ gpuPc' = "kill?"
     \/ /\ found # OK /\ attempt = retryCount - 1
        /\ result' = found
        /\ gpuPc' = "kill?"
     \/ /\ found # OK /\ attempt # retryCount - 1
        /\ gpuPc' = "sleep"
        /\ UNCHANGED result
  /\ UNCHANGED <<world, device, attempt, listed, found, killing, gpuOptions, arrived>>

(* Mutant: the attempt is not counted. *)
RetryUncounted ==
  /\ gpuPc = "sleep"
  /\ Round("list")
  /\ UNCHANGED <<world, attempt, killing, result, gpuOptions>>

Retry ==
  /\ gpuPc = "sleep"
  /\ attempt' = attempt + 1
  /\ Round("list")
  /\ UNCHANGED <<world, killing, result, gpuOptions>>

-----------------------------------------------------------------------------
(* kill_processes, for the processes listed last. *)

DoNotKill ==
  /\ gpuPc = "kill?" /\ (~force \/ listed = {})
  /\ gpuPc' = "done"
  /\ UNCHANGED <<world, device, attempt, listed, found, killing, result, gpuOptions, arrived>>

(* psutil.Process(pid) raises for a process that does not exist.           *)
Attach ==
  /\ gpuPc = "kill?" /\ force /\ listed # {}
  /\ IF listed \subseteq Living
     THEN /\ victims' = listed /\ toKill' = listed
          /\ gpuPc' = "kill"
     ELSE /\ gpuPc' = "raised"
          /\ UNCHANGED <<victims, toKill>>
  /\ UNCHANGED <<world, device, attempt, listed, found, alive, result, gpuOptions, arrived>>

(* A process that has ended meanwhile is passed over; one that sleeps in   *)
(* the kernel does not end; one of another user ends the killing.          *)
Kill(p) ==
  /\ gpuPc = "kill" /\ p \in toKill
  /\ toKill' = toKill \ {p}
  /\ IF proc[p] = "running" THEN Leaves(p) \/ UNCHANGED proc ELSE UNCHANGED proc
  /\ UNCHANGED <<gpuOf, starts, gpuPc, device, attempt, listed, found, victims, alive, result,
                 gpuOptions, arrived>>

AccessDenied(p) ==
  /\ gpuPc = "kill" /\ p \in toKill /\ proc[p] = "running"
  /\ result' = CRITICAL
  /\ gpuPc' = "done"
  /\ UNCHANGED <<world, device, attempt, listed, found, killing, gpuOptions, arrived>>

(* wait_procs ends when all have ended, or after its timeout.              *)
WaitProcs ==
  /\ gpuPc = "kill" /\ toKill = {}
  /\ alive' = victims \cap Living
  /\ Round("listAgain")
  /\ UNCHANGED <<world, attempt, victims, toKill, result, gpuOptions>>

KilledUnchecked(gone, code) == gone   \* mutant: does not look again
Killed(gone, code) == gone /\ code = OK

DecideAgain ==
  /\ gpuPc = "decideAgain"
  /\ result' = IF Killed(alive = {}, found) THEN OK ELSE CRITICAL
  /\ gpuPc' = "done"
  /\ UNCHANGED <<world, device, attempt, listed, found, killing, gpuOptions, arrived>>

CheckStep ==
  \/ NoDevices \/ GpuBegin \/ ListFails \/ List \/ Judge \/ Decide \/ Retry
  \/ DoNotKill \/ Attach \/ WaitProcs \/ DecideAgain
  \/ \E p \in Pids : Kill(p) \/ AccessDenied(p)

Node == \E p \in Pids : Start(p) \/ Die(p) \/ Release(p)

GpuDone == Ended /\ UNCHANGED gpuVars

GpuNext == CheckStep \/ Node \/ GpuDone

GpuSpec == GpuInit /\ [][GpuNext]_gpuVars /\ WF_gpuVars(CheckStep)

-----------------------------------------------------------------------------
(* What attempt_check_running_procs is for: when the part says OK and had  *)
(* anything to look at, no process that was there when its last round      *)
(* began is running on any GPU, whatever ended, was killed, or left its    *)
(* GPU between the listing, the test of the pids and the killing.          *)
OkMeansFree ==
  gpuPc = "done" /\ result = OK /\ retryCount > 0 /\ ~arrived => Living = {}

(* The retries of check_and_kill_running_procs are bounded, so that the    *)
(* part ends however the processes come and go.                            *)
Terminates == (gpuPc = "begin") ~> Ended

(* kill_processes' docstring: "Returns True if all processes are gone (or  *)
(* already dead)". A process that is already dead is no error.             *)
AlreadyDeadIsNoError == gpuPc # "raised"
===============================================================================
