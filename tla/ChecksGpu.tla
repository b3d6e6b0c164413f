------------------------------- MODULE ChecksGpu -------------------------------
(***************************************************************************)
(* The checks of the GPUs: the parts of check_nvidia_smi.py,               *)
(* check_dcgmi.py and check_nccl.py of l9gpu/health_checks/checks, each a  *)
(* function from its observations to a result (see HealthExit). The part   *)
(* that retries and kills processes is in GpuProcesses, and the order in   *)
(* which the selected parts run is in HealthCheckRun.                      *)
(***************************************************************************)
EXTENDS HealthExit, FiniteSets, FiniteSetsExt

(* What a call to the device library did: NVML errors are a WARN but for   *)
(* those of a lost or corrupted GPU; an error of any other library is      *)
(* CRITICAL.                                                               *)
Calls == {"fine", "nvml error", "gpu lost", "other library"}
HandleDeviceTelemetryException(call) == IF call = "nvml error" THEN WARN ELSE CRITICAL

(* Every part walks the devices alike: counting them may fail, which ends  *)
(* the part, and so may any device, which goes on with the next.           *)
OfDevices(count, devices, Faulty(_)) ==
  IF count # "fine" THEN HandleDeviceTelemetryException(count)
  ELSE Overall(OK, [i \in DOMAIN devices |->
         IF devices[i].call # "fine" THEN HandleDeviceTelemetryException(devices[i].call)
         ELSE IF Faulty(devices[i]) THEN CRITICAL ELSE OK])

DeviceLists(reading) == UpToTwo([call : Calls, reading : reading]) \cup {<<>>}
Devices(reading) == [count : Calls, devices : DeviceLists(reading)]

-----------------------------------------------------------------------------
(* check_nvidia_smi.py *)

CheckGpuNum ==
  [o \in [count : Calls, present : 0 .. 3, expected : {2}] |->
     IF o.count # "fine" THEN HandleDeviceTelemetryException(o.count)
     ELSE IF o.present # o.expected THEN CRITICAL ELSE OK]

(* In a prolog or an epilog the devices are those of the job; without any  *)
(* the check is OK and the library is not asked.                           *)
GetGpuDevices(o) == IF o.type = "prolog" THEN "fine" ELSE o.count

(* A device is free when none of the processes it lists exists any more.   *)
Occupied(d) == d.reading = "alive"
CheckRunningProcs ==
  [o \in [type : {"nagios", "prolog"}, count : Calls,
          devices : DeviceLists({"no process", "alive", "dead"})] |->
     OfDevices(GetGpuDevices(o), o.devices, Occupied)]

(* Application clocks as [gpu, memory], compared with what is expected.    *)
Slow(d) == d.reading[1] < 2 \/ d.reading[2] < 2
CheckAppClockFreq ==
  [o \in Devices({1, 2} \X {1, 2}) |-> OfDevices(o.count, o.devices, Slow)]

(* A value against its threshold: up to the threshold is fine.             *)
AboveThreshold(d) == d.reading > 2
CheckGpuTemp ==
  [o \in [count : Calls, devices : DeviceLists(2 .. 3), threshold : {"given", "none"}] |->
     IF o.threshold = "none" THEN CRITICAL ELSE OfDevices(o.count, o.devices, AboveThreshold)]

CheckMemUsage ==
  [o \in [type : {"nagios", "prolog"}, count : Calls, devices : DeviceLists(2 .. 3)] |->
     OfDevices(GetGpuDevices(o), o.devices, AboveThreshold)]

(* Retired pages of both kinds and whether one is pending. *)
Retired(d) == d.reading.single > 2 \/ d.reading.double > 2 \/ d.reading.pending > 0
CheckRetiredPages ==
  [o \in Devices([single : 2 .. 3, double : 2 .. 3, pending : 0 .. 1]) |->
     OfDevices(o.count, o.devices, Retired)]

CheckEccUncorrectedVolatileTotal ==
  [o \in Devices(2 .. 3) |-> OfDevices(o.count, o.devices, AboveThreshold)]

CheckEccCorrectedVolatileTotal ==
  [o \in Devices(2 .. 3) |-> OfDevices(o.count, o.devices, AboveThreshold)]

(* Without an expected version the first device that tells sets it.        *)
CheckVbiosMismatch ==
  [o \in [count : Calls, devices : DeviceLists({"v1", "v2"}), expected : {"", "v1"}] |->
     LET told == SelectSeq(o.devices, LAMBDA d : d.call = "fine")
         version == IF o.expected = "" /\ told # <<>> THEN Head(told).reading ELSE o.expected
         Other(d) == d.reading # version
     IN OfDevices(o.count, o.devices, Other)]

Remaps == [pending : 0 .. 1, failure : 0 .. 1]
RemapPending(d) == d.reading.pending > 0
RemapFailed(d) == d.reading.failure > 0
RemapPendingOrFailed(d) == RemapPending(d) \/ RemapFailed(d)

CheckRowRemap == [o \in Devices(Remaps) |-> OfDevices(o.count, o.devices, RemapPendingOrFailed)]
CheckRowRemapPending == [o \in Devices(Remaps) |-> OfDevices(o.count, o.devices, RemapPending)]
CheckRowRemapFailed == [o \in Devices(Remaps) |-> OfDevices(o.count, o.devices, RemapFailed)]

-----------------------------------------------------------------------------
(* check_dcgmi.py *)

(* 205 is not fatal: the report is read all the same. Output that is not   *)
(* JSON is an exception nobody catches; JSON without the tests is a WARN.  *)
DiagTests == [excluded : BOOLEAN, status : {"Pass", "Warn", "Fail", "Skip"}]
ProcessDcgmiDiagOutput(out, tests) ==
  IF out.rc > 0 /\ out.rc # 205 THEN WARN
  ELSE CASE out.text \in {"", "no tests"} -> WARN
         [] out.text \in {"not json", "error"} -> Raised(UNKNOWN)
         [] out.text = "tests" ->
              Overall(OK, [i \in DOMAIN tests |->
                IF tests[i].excluded THEN OK
                ELSE [Pass |-> OK, Skip |-> OK, Warn |-> WARN, Fail |-> CRITICAL][tests[i].status]])

DcgmiDiag ==
  [o \in [out : Outputs({"", "not json", "no tests", "tests"})
                  \cup [rc : {205}, text : {"not json", "tests"}],
          tests : UpToTwo(DiagTests) \cup {<<>>}] |->
     ProcessDcgmiDiagOutput(o.out, o.tests)]

(* The counters of a GPU's links; one that is not a number is passed over. *)
Counters == [kind : {"data", "flit", "recovery", "replay", "other"},
             value : {"low", "high", "not a number"}]
ProcessDcgmiNvlinkErrorOutput(out, counters) ==
  IF out.rc > 0 \/ out.text \in {"", "no body"} THEN WARN
  ELSE IF out.text # "json" THEN Raised(UNKNOWN)
  ELSE IF \E i \in DOMAIN counters : counters[i].kind # "other" /\ counters[i].value = "high"
  THEN CRITICAL ELSE OK

(* One report per GPU; here an exception is caught, and a WARN. The exit   *)
(* code is the worst of them; what the telemetry publishes is the last.    *)
NvlinkReports == [out : Outputs({"", "not json", "no body", "json"}),
                  counters : { <<c>> : c \in Counters }]
NvlinkOfGpu(report) ==
  LET judged == ProcessDcgmiNvlinkErrorOutput(report.out, report.counters)
  IN IF HasRaised(judged) THEN WARN ELSE judged
NvlinkErrors ==
  [gpus \in { <<r>> : r \in NvlinkReports }
            \cup (NvlinkReports \X { r \in NvlinkReports : r.out.rc = 0 /\ r.out.text = "json" })
            \cup {<<>>} |->
     Overall(UNKNOWN, [i \in DOMAIN gpus |-> NvlinkOfGpu(gpus[i])])]
LastGpu(gpus) == IF gpus = <<>> THEN UNKNOWN ELSE NvlinkOfGpu(gpus[Len(gpus)])

(* A line per GPU: a letter per link, D for down and X for disabled.       *)
ProcessNvlinkStatusOutput(out, links) ==
  IF out.rcs[1] > 0 \/ out.text = "" THEN WARN
  ELSE IF out.text = "lines" /\ \E i \in DOMAIN links : links[i] \in {"D", "X"}
  THEN CRITICAL ELSE OK

NvlinkStatus ==
  [o \in [out : PipedOutputs(2, {"", "lines"}), links : UpToTwo({"U", "D", "X", "_"})] |->
     ProcessNvlinkStatusOutput(o.out, o.links)]

-----------------------------------------------------------------------------
(* check_nccl.py *)

(* The groups of hosts that are tested together. An odd host out is tested *)
(* with the first one.                                                     *)
GetHosts(flavor, n) ==
  CASE flavor = "single" -> { {h} : h \in 1 .. n }
    [] flavor = "pairwise" -> { {g, h} : g, h \in 1 .. n } \ { {h} : h \in 1 .. n }
    [] flavor = "pairwise-quick" ->
         { {h, h + 1} : h \in { k \in 1 .. n - 1 : k % 2 = 1 } }
           \cup (IF n % 2 = 1 THEN { {n, 1} } ELSE {})

(* A test's bandwidth against the two thresholds; the second is optional.  *)
ProcessNcclTestOutput(out, warnThreshold) ==
  IF out.rc > 0 \/ out.text \in {"no bandwidth", "error"} THEN WARN
  ELSE IF out.text = "critical" THEN CRITICAL
  ELSE IF out.text = "low" /\ warnThreshold THEN WARN ELSE OK

(* Every group with every operation; the worst of them, and none is OK.    *)
NcclOutputs == Outputs({"no bandwidth", "critical", "low", "high"})
CheckNccl ==
  [o \in [outputs : UpToTwo(NcclOutputs) \cup {<<>>}, warnThreshold : BOOLEAN] |->
     Overall(OK, [i \in DOMAIN o.outputs |->
       ProcessNcclTestOutput(o.outputs[i], o.warnThreshold)])]
=============================================================================
