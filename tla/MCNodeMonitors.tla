---------------------------- MODULE MCNodeMonitors ----------------------------
(***************************************************************************)
(* The small programs of a node and the parts of the processors that share *)
(* no state: a behaviour is one of any of them, while the others are at    *)
(* rest, as their programs are before they do anything.                    *)
(***************************************************************************)
EXTENDS K8sCache, LocalAttribution, DeviceMonitor, FleetHealth, NcclTail, SacctWindow

(* The duration in each pipeline's configuration, and the GPUs of each pod.  *)
TwoDurations == <<1, 2>>
TwoRequests == <<1, 2>>
(* Sacct puts an end too late, early by the slack, or early by more. *)
EarlyOrLate == {-1, 1, 2}

VARIABLE part

K8sRests ==
  /\ now = 0 /\ pods = <<>> /\ since = 0 /\ pc = [p \in Pipelines |-> "idle"]
  /\ mu = {} /\ data = Nil /\ expiresAt = 0 /\ building = Nil /\ asked = 0
  /\ fetched = [at |-> -1, for |-> 0]
LocalRests ==
  /\ jobGpus = [j \in Jobs |-> {}] /\ unreadable = {} /\ proc = [p \in Pids |-> Nobody]
  /\ source = "slurmd" /\ shared = FALSE /\ localPc = "idle" /\ toRead = {}
  /\ GPU2Slurm = [g \in Gpus |-> {}] /\ err = FALSE /\ listed = {} /\ steady = {}
NvmlRests ==
  /\ job = [g \in Devices |-> None] /\ ran = [g \in Devices |-> {None}]
  /\ told = [g \in Devices |-> {}] /\ accumulators = [g \in Devices |-> Untold]
  /\ jobPerDevice = [g \in Devices |-> None] /\ mainPc = "sampling" /\ device = 0
  /\ rounds = 0 /\ logged = {} /\ message = NoMessage
FleetRests ==
  /\ wallClock = 0 /\ slept = TRUE /\ stepped = FALSE /\ code = 0 /\ xids = 0 /\ counter = 0
  /\ corrected = 0 /\ lastXid = 0 /\ xidEvents = <<>> /\ sbeCounts = <<>> /\ seenXids = -1
NcclRests ==
  /\ written = 0 /\ start = 0 /\ truncations = 0 /\ tailPc = "sleeping" /\ position = 0
  /\ records = <<>> /\ emitted = <<>> /\ torn = {} /\ behind = FALSE /\ lives = 1
SacctRests ==
  /\ end = [j \in SacctJobs |-> LastSecond + 1] /\ late = [j \in SacctJobs |-> Slack]
  /\ pieces = [j \in SacctJobs |-> <<Delimiters>>] /\ chunk = 0 /\ toList = Selected(0)
  /\ lines = <<>> /\ joined = <<>> /\ count = 0 /\ printed = <<>> /\ failed = {}

MCInit ==
  \/ /\ part = "k8s" /\ Init
     /\ LocalRests /\ NvmlRests /\ FleetRests /\ NcclRests /\ SacctRests
  \/ /\ part = "local" /\ LocalInit
     /\ K8sRests /\ NvmlRests /\ FleetRests /\ NcclRests /\ SacctRests
  \/ /\ part = "nvml" /\ NvmlInit
     /\ K8sRests /\ LocalRests /\ FleetRests /\ NcclRests /\ SacctRests
  \/ /\ part = "fleet" /\ FleetInit
     /\ K8sRests /\ LocalRests /\ NvmlRests /\ NcclRests /\ SacctRests
  \/ /\ part = "nccl" /\ NcclInit
     /\ K8sRests /\ LocalRests /\ NvmlRests /\ FleetRests /\ SacctRests
  \/ /\ part = "sacct" /\ SacctInit
     /\ K8sRests /\ LocalRests /\ NvmlRests /\ FleetRests /\ NcclRests

(* A step of one part, and of no other. *)
OnlyK8s == /\ part = "k8s"
           /\ UNCHANGED <<part, localVars, nvmlVars, fleetVars, ncclVars, sacctVars>>
OnlyLocal == /\ part = "local"
             /\ UNCHANGED <<part, vars, nvmlVars, fleetVars, ncclVars, sacctVars>>
OnlyNvml == /\ part = "nvml"
            /\ UNCHANGED <<part, vars, localVars, fleetVars, ncclVars, sacctVars>>
OnlyFleet == /\ part = "fleet"
             /\ UNCHANGED <<part, vars, localVars, nvmlVars, ncclVars, sacctVars>>
OnlyNccl == /\ part = "nccl"
            /\ UNCHANGED <<part, vars, localVars, nvmlVars, fleetVars, sacctVars>>
OnlySacct == /\ part = "sacct"
             /\ UNCHANGED <<part, vars, localVars, nvmlVars, fleetVars, ncclVars>>

MCNext ==
  \/ OnlyK8s /\ Next
  \/ OnlyLocal /\ LocalNext
  \/ OnlyNvml /\ NvmlNext
  \/ OnlyFleet /\ FleetNext
  \/ OnlyNccl /\ NcclNext
  \/ OnlySacct /\ SacctNext

nodeVars == <<part, vars, localVars, nvmlVars, fleetVars, ncclVars, sacctVars>>

(* The fairness of K8sCache, of its steps alone. *)
MCSpec ==
  /\ MCInit /\ [][MCNext]_nodeVars
  /\ \A p \in Pipelines : /\ SF_nodeVars(OnlyK8s /\ Locked(p))
                          /\ WF_nodeVars(OnlyK8s /\ (ListPods(p) \/ Fail(p)))
                          /\ WF_nodeVars(OnlyK8s /\ Store(p))
===============================================================================
