------------------------------ MODULE ChecksHost ------------------------------
(***************************************************************************)
(* The checks of a host's processor, memory, disks and sensors:            *)
(* check_processor.py, check_storage.py, check_memtest.py,                 *)
(* check_sensors.py, check_ipmitool.py and check_blockdev.py of            *)
(* l9gpu/health_checks/checks. Each is a function from its observations to *)
(* a result (see HealthExit); the kill switch that each asks first is in   *)
(* HealthCheckRun.                                                         *)
(***************************************************************************)
EXTENDS HealthExit, FiniteSets, FiniteSetsExt

Failed(out) == out.rc > 0 \/ out.text = ""
PipeFailed(out) == out.rcs[1] > 0 \/ out.text = ""

-----------------------------------------------------------------------------
(* check_processor.py *)

ProcessCpuFreq(out) ==
  IF Failed(out) \/ out.text = "no number" THEN WARN
  ELSE IF out.text = "below" THEN CRITICAL ELSE OK

ProcessorFreq ==
  [out \in Outputs({"", "no number", "below", "enough"}) |-> ProcessCpuFreq(out)]

(* `uniq` leaves one line when all CPUs have the same governor. *)
ProcessCpufreqGovernor(out) ==
  IF PipeFailed(out) THEN WARN ELSE IF out.text = "expected" THEN OK ELSE CRITICAL

CpufreqGovernor ==
  [out \in PipedOutputs(2, {"", "expected", "other", "several"}) |->
     ProcessCpufreqGovernor(out)]

(* The lines of `uniq -c`, each a number of DIMMs and their size, added up;  *)
(* a line with one word raises IndexError, which nobody catches.             *)
ProcessMemInfo(out, lines, dimms, totalSize) ==
  IF PipeFailed(out) THEN WARN
  ELSE IF out.text = "one word" THEN Raised(UNKNOWN)
  ELSE IF out.text \in {"no number", "error"} THEN WARN
  ELSE IF Total(LAMBDA l : l[1], lines) = dimms /\ Total(LAMBDA l : l[1] * l[2], lines) = totalSize
  THEN OK ELSE CRITICAL

(* Four DIMMs, 64 GB are expected. Sizes that are neither on the command   *)
(* line nor known for the host raise ValueError.                           *)
MemLines == UpToTwo({<<2, 16>>, <<2, 8>>, <<4, 16>>})
CheckMemSize ==
  [o \in [out : PipedOutputs(3, {"", "one word", "no number", "lines"}),
          lines : MemLines, known : BOOLEAN] |->
     IF o.known THEN ProcessMemInfo(o.out, o.lines, 4, 64) ELSE Raised(UNKNOWN)]

(* A zone of /proc/buddyinfo: `blocks` free blocks of order 8 and above;   *)
(* only zone Normal needs one count of 10.                                 *)
Zones == [zone : {"Normal", "DMA", "no zone line"}, blocks : UpToTwo({0, 9, 10})]
CheckThreshold(z, threshold) ==
  IF z.zone = "Normal" /\ \A i \in DOMAIN z.blocks : z.blocks[i] < threshold
  THEN CRITICAL ELSE OK

ProcessBuddyInfo(zones) ==
  Overall(OK, [i \in DOMAIN zones |-> CheckThreshold(zones[i], 10)])

CheckBuddyinfo ==
  [zones \in UpToTwo(Zones) |->
     IF \E i \in DOMAIN zones : zones[i].zone = "no zone line" THEN WARN
     ELSE ProcessBuddyInfo(zones)]

CheckClocksource ==
  [out \in Outputs({"", "tsc", "hpet"}) |->
     IF out.rc > 0 THEN WARN ELSE IF out.text = "tsc" THEN OK ELSE CRITICAL]

-----------------------------------------------------------------------------
(* check_storage.py *)

ProcessDiskUsage(out) ==
  IF Failed(out) \/ out.text = "no number" THEN WARN
  ELSE [low |-> OK, high |-> WARN, full |-> CRITICAL][out.text]

DiskUsage ==
  [vols \in UpToTwo(Outputs({"", "no number", "low", "high", "full"})) |->
     Overall(UNKNOWN, [i \in DOMAIN vols |-> ProcessDiskUsage(vols[i])])]

(* `mount | grep dir`: any line that has dir in it will do, so will that   *)
(* of a directory below dir or of one whose name only begins like it.      *)
ProcessMountStatus(out) ==
  IF out.rcs[1] > 0 THEN WARN ELSE IF out.text = "" THEN CRITICAL ELSE OK

MountedDirectory ==
  [dirs \in UpToTwo(PipedOutputs(2, {"", "dir", "longer name"})) |->
     Overall(UNKNOWN, [i \in DOMAIN dirs |-> ProcessMountStatus(dirs[i])])]

(* What Path.is_file finds; an exception counts as "not found".            *)
Found == {"there", "absent", "raises"}
FileExists ==
  [o \in [files : UpToTwo(Found), shouldNotExist : BOOLEAN] |->
     Overall(UNKNOWN, [i \in DOMAIN o.files |->
       IF (o.files[i] = "there") = o.shouldNotExist THEN CRITICAL ELSE OK])]

DirectoryExists ==
  [dirs \in UpToTwo(Found) |->
     Overall(UNKNOWN, [i \in DOMAIN dirs |-> IF dirs[i] = "there" THEN OK ELSE CRITICAL])]

(* The mount points of /etc/fstab and of /proc/mounts that match.          *)
ProcessCheckMountpoint(m) ==
  IF m.fstabRc > 0 \/ m.mountsRc > 0 THEN WARN
  ELSE IF m.fstab \subseteq m.mounts THEN OK ELSE CRITICAL

CheckMountpoint ==
  [ms \in UpToTwo([fstab : SUBSET {"a"}, mounts : SUBSET {"a", "b"},
                   fstabRc : {0, 1, -9}, mountsRc : {0, 1, -9}]) |->
     Overall(UNKNOWN, [i \in DOMAIN ms |-> ProcessCheckMountpoint(ms[i])])]

Compare(n, op, m) ==
  CASE op = "<" -> n < m [] op = "=" -> n = m [] op = ">" -> n > m
    [] op = ">=" -> n >= m [] op = "<=" -> n <= m

ProcessDiskSize(out, size, op, value) ==
  IF (\E i \in DOMAIN out.rcs : out.rcs[i] # 0) \/ out.text # "number" THEN WARN
  ELSE IF Compare(size, op, value) THEN OK ELSE CRITICAL

DiskSize ==
  [o \in [out : PipedOutputs(2, {"", "no number", "number"}), size : 1 .. 3,
          op : {"<", "=", ">", ">=", "<="}] |->
     WorseOf(UNKNOWN, ProcessDiskSize(o.out, o.size, o.op, 2))]

-----------------------------------------------------------------------------
(* check_memtest.py: one thread per device; a test that raises is a WARN,  *)
(* and with no device at all the check stays UNKNOWN.                      *)

RunCudaMemtest(rc) == IF rc = Raises THEN WARN ELSE IF rc = 0 THEN OK ELSE CRITICAL

Memtest ==
  [rcs \in UpToTwo({0, 1, -9, Raises}) \cup {<<>>} |->
     IF rcs = <<>> THEN UNKNOWN
     ELSE WorstOf({ RunCudaMemtest(rcs[i]) : i \in DOMAIN rcs })]

-----------------------------------------------------------------------------
(* check_sensors.py: a line of ipmi-sensors that tells of a fan, a power   *)
(* value or a PSU that is not as it should be, or of a lost redundancy.    *)

SensorLines == {"ok", "fan", "power", "psu", "redundancy"}
ProcessSensorsOut(out) ==
  IF out.rc # 0 THEN WARN
  ELSE IF out.text \cap {"fan", "power", "psu"} # {} THEN CRITICAL
  ELSE IF "redundancy" \in out.text THEN WARN ELSE OK

(* Only a SubprocessError is caught: output that is not UTF-8, or a shell  *)
(* that cannot be forked, ends the check.                                  *)
CheckSensors ==
  [out \in [rc : {0, 1, -9, 128, Raises}, text : SUBSET SensorLines] |->
     IF out.rc = Raises THEN Raised(UNKNOWN) ELSE ProcessSensorsOut(out)]

-----------------------------------------------------------------------------
(* check_ipmitool.py: an event counts only when it is asserted. Whatever   *)
(* `sel list` returned, a long log is cleared; of clearing it only an      *)
(* exception is noticed.                                                   *)

ProcessSelOut(out) ==
  IF out.rc > 0 THEN WARN
  ELSE IF "asserted error" \in out.text THEN CRITICAL ELSE OK

CheckSel ==
  [o \in [out : [rc : {0, 1, -9, 128},
                 text : SUBSET {"event", "asserted error", "deasserted error"}],
          long : BOOLEAN, clear : {"done", "fails", "raises"}] |->
     WorseOf(ProcessSelOut(o.out), IF o.long /\ o.clear = "raises" THEN WARN ELSE OK)]

-----------------------------------------------------------------------------
(* check_blockdev.py *)

(* Sizes and wear are compared with bounds; `idle` says that data moved    *)
(* although none was counted. A health log that is there but empty raises. *)
SmartData == [log : {"there", "missing", "empty"}, size : {"full", "smaller"},
              used : {80, 81, 101}, spare : {"enough", "low"}, idle : BOOLEAN]

EnumerateIssues(d) ==
  IF d.log = "missing" THEN {"HEALTH_LOG_INVALID"}
  ELSE (IF d.size = "smaller" THEN {"SIZE_MISMATCH"} ELSE {})
    \cup (IF d.used > 100 THEN {"LIFETIME_EXCEEDED"}
          ELSE IF d.used > 80 THEN {"LIFETIME_LOW"} ELSE {})
    \cup (IF d.spare = "low" THEN {"SPARE_SPACE_LOW"} ELSE {})
    \cup (IF d.idle THEN {"BAD_SMARTDATA"} ELSE {})

(* Issues above CRITERION_WARNING are CRITICAL all the same.               *)
ProcessCheckBlockdev(disks) ==
  IF \E i \in DOMAIN disks : EnumerateIssues(disks[i]) # {} THEN CRITICAL ELSE OK

CheckBlockdev ==
  [o \in [manifest : BOOLEAN, disks : UpToTwo(SmartData)] |->
     IF ~o.manifest \/ \E i \in DOMAIN o.disks : o.disks[i].log = "empty" THEN WARN
     ELSE ProcessCheckBlockdev(o.disks)]
=============================================================================
