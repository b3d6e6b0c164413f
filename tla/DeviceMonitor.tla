------------------------------ MODULE DeviceMonitor ----------------------------
(***************************************************************************)
(* The GPU monitor, main of cli/nvml_monitor.py: in a window of            *)
(* push_interval it samples every GPU each collect_interval into an        *)
(* accumulator of its own, and remembers the last job it saw there; then   *)
(* it writes a log for each GPU, one after the other, and one message with *)
(* the metrics of all and of the host. The monitors of AMD's and Intel's   *)
(* GPUs repeat this loop.                                                  *)
(***************************************************************************)
EXTENDS Integers, FiniteSets, FiniteSetsExt

CONSTANTS NumDevices, JobIds,
          MaxUtil,     \* the highest level
          Masks,       \* the masks of throttle reasons
          MaxRounds    \* bound: the samples of a window

VARIABLES job,         \* what runs on each GPU
          ran,         \* what ran there in this window
          told,        \* the samples of each GPU in this window
          accumulators, jobPerDevice,
          mainPc, device,  \* where main is, and at which GPU
          rounds,
          logged,      \* the logs of the GPUs that this window has written
          message      \* the metrics of its last message

nvmlVars == <<job, ran, told, accumulators, jobPerDevice, mainPc, device, rounds, logged, message>>
window == <<job, ran, told, accumulators, jobPerDevice>>

ASSUME DevicesAssumption == NumDevices \in Nat \ {0} /\ MaxUtil \in Nat /\ Masks \subseteq Nat

None == -1     \* of a field or a job
Untold == [field |-> None]   \* an accumulator that was told nothing
Devices == 0 .. NumDevices - 1
NoMessage == [gpus |-> {}, host |-> None]

(* DeviceMetrics: a level, a mask of throttle reasons, and of each reason  *)
(* whether it is in the mask.                                              *)
Fields == {"util", "throttle_reason", "thermal", "power"}
Flag(mask, bit) == IF mask = None THEN None ELSE (mask \div bit) % 2
GetDeviceMetricsBasic(util, mask) ==
  [util |-> util, throttle_reason |-> mask, thermal |-> Flag(mask, 1), power |-> Flag(mask, 2)]
Readings == { GetDeviceMetricsBasic(u, m) : u \in {None} \cup 0 .. MaxUtil, m \in Masks }

(* max_fields, field by field: what is None gives way.                     *)
MaxFieldsOfLast(left, right) ==   \* mutant: the later sample gives way to nothing
  [f \in Fields |-> IF right[f] = None THEN None ELSE Max({left[f], right[f]})]
MaxFields(left, right) ==
  [f \in Fields |-> IF left[f] = None THEN right[f]
                    ELSE IF right[f] = None THEN left[f] ELSE Max({left[f], right[f]})]
Tell(acc, reading) == IF acc = Untold THEN reading ELSE MaxFields(acc, reading)

NvmlInit ==
  /\ job \in [Devices -> JobIds \cup {None}] /\ ran = [g \in Devices |-> {job[g]}]
  /\ told = [g \in Devices |-> {}]
  /\ accumulators = [g \in Devices |-> Untold] /\ jobPerDevice = [g \in Devices |-> None]
  /\ mainPc = "sampling" /\ device = 0 /\ rounds = 0
  /\ logged = {} /\ message = NoMessage

JobChanges(g) ==
  /\ job' \in { [job EXCEPT ![g] = j] : j \in (JobIds \cup {None}) \ {job[g]} }
  /\ ran' = [ran EXCEPT ![g] = @ \cup {job'[g]}]
  /\ UNCHANGED <<told, accumulators, jobPerDevice, mainPc, device, rounds, logged, message>>

(* One GPU of a round. Without a handle it is passed over. A process of no *)
(* Slurm job has the job None; no process at all, or an environment that   *)
(* cannot be read, leaves the last job.                                    *)
NextDevice == /\ device' = (device + 1) % NumDevices
              /\ rounds' = IF device' = 0 THEN rounds + 1 ELSE rounds
SampleDevice ==
  /\ mainPc = "sampling" /\ rounds < MaxRounds
  /\ \E reading \in Readings :
       /\ accumulators' = [accumulators EXCEPT ![device] = Tell(@, reading)]
       /\ told' = [told EXCEPT ![device] = @ \cup {reading}]
  /\ \/ jobPerDevice' = [jobPerDevice EXCEPT ![device] = job[device]]
     \/ UNCHANGED jobPerDevice
  /\ NextDevice
  /\ UNCHANGED <<job, ran, mainPc, logged, message>>

NoHandle ==
  /\ mainPc = "sampling" /\ rounds < MaxRounds
  /\ NextDevice
  /\ UNCHANGED <<window, mainPc, logged, message>>

(* The push interval is over after a round, and at least one. *)
EndSampling ==
  /\ mainPc = "sampling" /\ device = 0 /\ rounds > 0
  /\ mainPc' = "publishing"
  /\ UNCHANGED <<window, device, rounds, logged, message>>

(* ask() raises ValueError if a GPU had no sample in the window: the end   *)
(* of the monitor, after the logs of the GPUs before it.                   *)
WriteLog ==
  /\ mainPc = "publishing" /\ device < NumDevices /\ accumulators[device] # Untold
  /\ logged' = logged \cup {[gpu |-> device, metrics |-> accumulators[device],
                             job |-> jobPerDevice[device]]}
  /\ device' = device + 1
  /\ UNCHANGED <<window, mainPc, rounds, message>>

AskRaises ==
  /\ mainPc = "publishing" /\ device < NumDevices /\ accumulators[device] = Untold
  /\ mainPc' = "dead"
  /\ UNCHANGED <<window, device, rounds, logged, message>>

(* compute_host_level_metrics: idle GPUs and unknown ones are not counted. *)
HostUtil == Max({0} \cup { accumulators[g].util : g \in Devices })
WriteMessage ==
  /\ mainPc = "publishing" /\ device = NumDevices
  /\ message' = [gpus |-> { <<g, accumulators[g]>> : g \in Devices }, host |-> HostUtil]
  /\ mainPc' = "sleeping"
  /\ UNCHANGED <<window, device, rounds, logged>>

(* Each window has accumulators and jobs of its own.                       *)
NewWindowOldJobs ==   \* mutant: the jobs of the window before stay
  /\ told' = [g \in Devices |-> {}] /\ accumulators' = [g \in Devices |-> Untold]
  /\ ran' = [g \in Devices |-> {job[g]}]
  /\ mainPc' = "sampling" /\ device' = 0 /\ rounds' = 0 /\ logged' = {} /\ message' = NoMessage
  /\ UNCHANGED <<job, jobPerDevice>>
NewWindow ==
  /\ told' = [g \in Devices |-> {}] /\ accumulators' = [g \in Devices |-> Untold]
  /\ jobPerDevice' = [g \in Devices |-> None] /\ ran' = [g \in Devices |-> {job[g]}]
  /\ mainPc' = "sampling" /\ device' = 0 /\ rounds' = 0 /\ logged' = {} /\ message' = NoMessage
  /\ UNCHANGED job

StartWindow == mainPc = "sleeping" /\ NewWindow

(* The sink raises, or a signal.                                           *)
MonitorDies ==
  /\ mainPc \in {"sampling", "publishing"}
  /\ mainPc' = "dead"
  /\ UNCHANGED <<window, device, rounds, logged, message>>

RestartMonitor == mainPc = "dead" /\ NewWindow

NvmlNext == \/ \E g \in Devices : JobChanges(g)
            \/ SampleDevice \/ NoHandle \/ EndSampling \/ WriteLog \/ AskRaises \/ WriteMessage
            \/ StartWindow \/ MonitorDies \/ RestartMonitor

NvmlSpec == NvmlInit /\ [][NvmlNext]_nvmlVars

-----------------------------------------------------------------------------
(* What is written of a GPU is, level by level and flag by flag, the peak  *)
(* of the samples of this window, and a job that ran there in it; so are   *)
(* the metrics of the message, which are of all GPUs. The mask itself is   *)
(* left out: its maximum is not the mask of all the reasons.               *)
IsPeak(metrics, g) ==
  \A f \in Fields \ {"throttle_reason"} :
    metrics[f] = Max({None} \cup { s[f] : s \in told[g] })
PublishedPeak ==
  /\ \A l \in logged : IsPeak(l.metrics, l.gpu) /\ l.job \in ran[l.gpu] \cup {None}
  /\ message # NoMessage =>
       /\ \A g \in Devices : \E m \in message.gpus : m[1] = g /\ IsPeak(m[2], g)
       /\ message.host = Max({0} \cup UNION { { s.util : s \in told[g] } : g \in Devices })
=============================================================================
