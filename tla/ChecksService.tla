----------------------------- MODULE ChecksService -----------------------------
(***************************************************************************)
(* The checks of a node's services, processes and logs: check_slurm.py,    *)
(* check_service.py, check_authentication.py, check_ssh.py,                *)
(* check_ssh_certs.py, check_syslogs.py, check_running_process.py,         *)
(* check_zombie.py, check_dstate.py and check_node.py of                   *)
(* l9gpu/health_checks/checks, each a function from its observations to a  *)
(* result (see HealthExit).                                                *)
(***************************************************************************)
EXTENDS HealthExit, FiniteSets, FiniteSetsExt

(* check_slurm.py *)

ProcessSlurmctldCountOutput(out, up, expected) ==
  IF out.rcs[1] > 0 \/ out.text # "number" THEN WARN
  ELSE IF up < expected THEN CRITICAL ELSE OK

SlurmctldCount ==
  [o \in [out : PipedOutputs(2, {"", "number"}), found : 0 .. 3, expected : {2}] |->
     ProcessSlurmctldCountOutput(o.out, o.found, o.expected)]

(* A node is in every one of its partitions: any line with a state of the  *)
(* first list is a WARN (and so is a state of neither list).               *)
ProcessNodeState(out) ==
  IF out.rc > 0 \/ "critical" \in out.text THEN WARN
  ELSE IF "good" \in out.text THEN OK ELSE WARN

NodeSlurmState ==
  [out \in [rc : {0, 1, -9, 128, 2}, text : SUBSET {"critical", "good", "other"}] |->
     ProcessNodeState(out)]

(* Nodes per state as `uniq -c` counts them: the bad ones as a percentage. *)
(* Of no node at all this is a division by zero, which nobody catches.     *)
ProcessClusterState(out, good, bad, critical, warning) ==
  IF out.rcs[1] > 0 \/ out.text \in {"no number", "error"} THEN WARN
  ELSE IF out.text = "" \/ good + bad = 0 THEN Raised(UNKNOWN)
  ELSE IF bad * 100 > critical * (good + bad) THEN CRITICAL
  ELSE IF bad * 100 > warning * (good + bad) THEN WARN ELSE OK

ClusterAvailability ==
  [o \in [out : PipedOutputs(2, {"", "no number", "lines"}), good : 0 .. 4, bad : 0 .. 4] |->
     ProcessClusterState(o.out, o.good, o.bad, 50, 25)]

-----------------------------------------------------------------------------
(* check_service.py and check_ssh.py: any failure to ask is a CRITICAL.    *)
ServiceStatus ==
  [outs \in UpToTwo(Outputs({"active"})) |->
     Overall(UNKNOWN, [i \in DOMAIN outs |-> IF outs[i].rc > 0 THEN CRITICAL ELSE OK])]

PackageVersion ==
  [out \in Outputs({"expected", "other"}) |->
     IF out.rc > 0 THEN WARN ELSE IF out.text = "expected" THEN OK ELSE CRITICAL]

SshConnection ==
  [outs \in UpToTwo(Outputs({"output"})) |->
     Overall(UNKNOWN, [i \in DOMAIN outs |-> IF outs[i].rc > 0 THEN CRITICAL ELSE OK])]

-----------------------------------------------------------------------------
(* check_authentication.py *)

ProcessPassStatus(out) ==
  IF out.rcs[1] > 0 \/ out.text = "" THEN WARN
  ELSE IF out.text = "expected" THEN OK ELSE CRITICAL

PasswordStatus ==
  [out \in PipedOutputs(2, {"", "expected", "other"}) |-> ProcessPassStatus(out)]

CheckPathAccessByUser ==
  [out \in Outputs({""}) |-> IF out.rc = 0 THEN OK ELSE CRITICAL]

-----------------------------------------------------------------------------
(* check_ssh_certs.py: the certificates registered in IPA must be among    *)
(* those the host shows. It starts out OK, and only a timeout is caught:   *)
(* any other exception is published as an OK.                              *)
Timeout == 128
CheckSshCerts ==
  [o \in [ipa : {0, 1, -9, Timeout, Raises}, hostFound : BOOLEAN, registered : SUBSET {"a", "b"},
          ssh : {0, 1, -9, Timeout, Raises}, shown : SUBSET {"a", "b"}] |->
     CASE o.ipa = Raises -> Raised(OK)
       [] o.ipa = Timeout -> UNKNOWN
       [] o.ipa \notin {0, Timeout, Raises} -> IF o.hostFound THEN UNKNOWN ELSE CRITICAL
       [] OTHER ->
            IF o.registered = {} THEN CRITICAL
            ELSE IF o.ssh = Raises THEN Raised(OK)
            ELSE IF o.ssh # 0 \/ ~(o.registered \subseteq o.shown) THEN CRITICAL ELSE OK]

-----------------------------------------------------------------------------
(* check_syslogs.py *)

(* grep's 1 is "no line found". *)
ProcessLinkFlapOutput(out) ==
  IF out.rc > 1 THEN WARN
  ELSE IF "ib" \in out.text THEN CRITICAL
  ELSE IF "eth" \in out.text THEN WARN ELSE OK

LinkFlaps ==
  [out \in [rc : {0, 1, 2, -9, 128}, text : SUBSET {"ib", "eth", "other"}] |->
     ProcessLinkFlapOutput(out)]

(* The kinds of XID lines; a line whose code cannot be parsed is as bad as *)
(* any code NVIDIA does not call non-critical.                             *)
ProcessXidOutput(out) ==
  IF out.rcs[1] > 0 THEN WARN
  ELSE IF out.text \cap {"critical", "not parsed"} # {} THEN CRITICAL
  ELSE IF "non-critical" \in out.text THEN WARN ELSE OK

Xid ==
  [out \in [rcs : [1 .. 2 -> {0, 1, -9}] \cup {<<128>>, <<2>>},
            text : SUBSET {"critical", "not parsed", "non-critical", "no colon"}] |->
     ProcessXidOutput(out)]

ProcessIoErrorsOutput(out) ==
  IF out.rcs[1] > 0 THEN WARN ELSE IF out.text = "" THEN OK ELSE CRITICAL

IoErrors ==
  [out \in PipedOutputs(2, {"", "devices"}) |-> ProcessIoErrorsOutput(out)]

-----------------------------------------------------------------------------
(* check_running_process.py, check_zombie.py and check_dstate.py           *)

CheckRunningProcess ==
  [outs \in UpToTwo(PipedOutputs(2, {"", "lines"})) |->
     Overall(UNKNOWN, [i \in DOMAIN outs |->
       IF outs[i].rcs[1] # 0 THEN WARN ELSE IF outs[i].text = "" THEN CRITICAL ELSE OK])]

(* Zombies older than a threshold, up to the first whose age is no number. *)
Zombies == {"young", "old", "no age"}
ProcessZombieProcs(out, zombies) ==
  IF out.rcs[1] > 0 THEN WARN
  ELSE IF \E i \in DOMAIN zombies : zombies[i] \in {"old", "no age"} THEN WARN ELSE OK

CheckZombie ==
  [o \in [out : PipedOutputs(2, {"lines"}), zombies : UpToTwo(Zombies) \cup {<<>>}] |->
     IF o.out.text = "error" THEN WARN ELSE ProcessZombieProcs(o.out, o.zombies)]

(* Processes in state D for long: one is stuck when strace cannot attach   *)
(* to it or says a single line on stderr. shell_command sends stderr to    *)
(* stdout, so no line is ever found there. strace timing out is a WARN.    *)
DStates == [named : BOOLEAN, rc : {0, 1, 124, -9, Raises}, said : 0 .. 2]
StderrLines(p) == 0
CheckDstateProcesses(o) ==
  LET asked == { i \in DOMAIN o.procs : o.procs[i].named }
      Stuck(p) == p.rc = 1 \/ StderrLines(p) = 1
  IN IF o.list # 0 \/ \E i \in asked : o.procs[i].rc = Raises THEN WARN
     ELSE IF \E i \in asked : Stuck(o.procs[i]) THEN CRITICAL ELSE OK

CheckDstate ==
  [o \in [list : {0, 1, -9, 128}, procs : UpToTwo(DStates) \cup {<<>>}] |->
     CheckDstateProcesses(o)]

-----------------------------------------------------------------------------
(* check_node.py *)

ProcessUptime(out) ==
  IF out.rcs[1] > 0 \/ out.text # "long" THEN WARN ELSE OK

Uptime == [out \in PipedOutputs(2, {"", "no number", "short", "long"}) |-> ProcessUptime(out)]

ProcessModule(out, appearances, count) ==
  IF out.rcs[1] > 0 \/ out.text # "number" THEN WARN
  ELSE IF appearances >= count THEN OK ELSE CRITICAL

(* A module with the count it should have: the two lists are of one length, *)
(* or the command ends before it looks (see FailsEarly of HealthCheckRun).  *)
ModuleReadings == [out : PipedOutputs(2, {"", "number"}), appearances : 0 .. 2, count : 1 .. 2]
CheckModule ==
  [modules \in { <<r>> : r \in ModuleReadings }
             \cup (ModuleReadings \X { r \in ModuleReadings : r.out.text = "number" /\ r.count = 1 }) |->
     Overall(UNKNOWN, [i \in DOMAIN modules |->
       ProcessModule(modules[i].out, modules[i].appearances, modules[i].count)])]

CheckDnfRepos ==
  [out \in Outputs({"", "repos"}) |-> IF out.rc > 0 \/ out.text = "" THEN CRITICAL ELSE OK]
=============================================================================
