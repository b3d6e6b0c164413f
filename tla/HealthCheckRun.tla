---------------------------- MODULE HealthCheckRun ----------------------------
(***************************************************************************)
(* One run of a health_checks command: its parts one after the other, and  *)
(* around them OutputContext, which prints the state Nagios reads, and     *)
(* TelemetryContext, which publishes what the fleet sees, down to the      *)
(* status the process exits with. Most commands have a single part; with   *)
(* them the telemetry is outermost. check-nvidia-smi and check-dcgmi       *)
(* nvlink have several, each with a telemetry of its own inside the output.*)
(***************************************************************************)
EXTENDS HealthPromises

CONSTANT MaxParts   \* bound on the parts selected of a command of several

ASSUME PartsAssumption == MaxParts \in Nat

NvidiaParts ==
  <<"gpu_num", "clock_freq", "running_procs", "running_procs_and_kill", "gpu_temperature",
    "gpu_mem_usage", "gpu_retired_pages", "ecc_uncorrected_volatile_total",
    "ecc_corrected_volatile_total", "vbios_mismatch", "row_remap", "row_remap_pending",
    "row_remap_failed">>
NvlinkParts == <<"nvlink_errors", "nvlink_status">>
Nested == {"check_nvidia_smi", "nvlink"}
PartsOfMany == ToSet(NvidiaParts) \cup ToSet(NvlinkParts)
Singles == DOMAIN Promises \ PartsOfMany

PartsOf(c) == CASE c = "check_nvidia_smi" -> NvidiaParts
                [] c = "nvlink" -> NvlinkParts
                [] OTHER -> <<c>>

(* The checks that see no difference between a command a signal has killed *)
(* and one that exited with 0: they compare its return code with > 0.      *)
DeafToSignals ==
  {"processor_freq", "cpufreq_governor", "check_mem_size", "check_clocksource", "disk_usage",
   "mounted_directory", "check_mountpoint", "check_sel", "check_ibstat", "check_ib_interfaces",
   "check_hca", "diag", "nvlink_errors", "nvlink_status", "check_nccl", "slurmctld_count",
   "node_slurm_state", "cluster_availability", "service_status", "package_version",
   "ssh_connection", "password_status", "link_flaps", "xid", "io_errors",
   "check_running_process", "check_zombie", "check_dstate", "uptime", "check_module",
   "check_dnf_repos"}

(* What is known to make a part say OK although it has not found the node  *)
(* good, and nothing else does: each is a hazard of its own, at its line.  *)
(* Only one of them also hides a fault that was there to be seen.          *)
KnownLapses ==
  (DeafToSignals \X {"killed"})
    \cup {<<"file_exists", "raises">>, <<"check_mountpoint", "not in fstab">>,
          <<"nvlink_errors", "not a number">>, <<"check_dstate", "one line">>}
Blinding == {<<"check_dstate", "one line">>}

(* What every check keeps of its promises, whatever it observes: a result  *)
(* that is OK is of a good node, or of a known lapse, and a fault that was *)
(* seen is CRITICAL or an exception. One of several parts does not say     *)
(* UNKNOWN of a node that is not good: the OK of another would outdo it.   *)
Earned(part, o) == (o.good /\ ~o.bad) \/ <<part, o.lapse>> \in KnownLapses
Truthful(part, o) ==
  /\ o.code = OK \/ (part \in PartsOfMany /\ o.code = UNKNOWN) => Earned(part, o)
  /\ o.bad => HasRaised(o.code) \/ o.code = CRITICAL \/ <<part, o.lapse>> \in Blinding
(* What is published of a part is its result; of one that ended with an    *)
(* exception, anything but OK, unless it started from OK.                  *)
Told(part, o) ==
  /\ ~HasRaised(o.code) /\ part \notin ToSet(NvlinkParts) => o.published = o.code
  /\ HasRaised(o.code) /\ part # "check_ssh_certs" => o.published # OK
ASSUME ChecksAssumption ==
  \A part \in DOMAIN Promises : \A o \in Promises[part] :
    /\ o \in [code : Results, published : Codes, lapse : STRING, good : BOOLEAN, bad : BOOLEAN]
    /\ Truthful(part, o) /\ Told(part, o)

(* No lapse is in the list that does not happen.                           *)
ASSUME LapsesAssumption ==
  \A known \in KnownLapses : \E o \in Promises[known[1]] :
    o.code = OK /\ o.lapse = known[2] /\ ~o.good

(* A command of several parts is none of them. *)
ASSUME NamesAssumption ==
  /\ PartsOfMany \subseteq DOMAIN Promises
  /\ (Nested \cup {"none", "check_telemetry"}) \cap DOMAIN Promises = {}

VARIABLES command, type,
          inside,           \* whether the telemetries are inside the output
          selected, todo,   \* the parts asked for, and those not yet left behind
          pc,
          code,             \* what the current part's telemetry is going to publish
          overall,          \* what the output prints and the process exits with
          leaving,          \* "no", or on the way out with sys.exit or an exception
          looked,           \* the parts that looked at the node, and what there was
          switched,         \* the parts a kill switch turned off
          crashed,          \* the parts that ended with an exception
          published, broken,
          shown, status

options == <<command, type, selected>>
history == <<looked, switched, crashed>>
sinks == <<published, broken>>
vars == <<options, inside, todo, pc, code, overall, leaving, history, sinks, shown, status>>

Running == -1     \* there is no exit status yet

Init ==
  /\ command = "none" /\ type \in {"nagios", "prolog"} /\ selected = {}
  /\ inside = FALSE /\ todo = <<>>
  /\ pc = "select"
  /\ code = UNKNOWN /\ overall = UNKNOWN /\ leaving = "no"
  /\ looked = {} /\ switched = {} /\ crashed = {}
  /\ published = {} /\ broken = FALSE
  /\ shown = "nothing" /\ status = Running

(* Mutant: runs the parts nobody has asked for, too.                       *)
SelectAll(c, parts) ==
  /\ pc = "select"
  /\ command' = c /\ selected' = ToSet(parts)
  /\ inside' = (c \in Nested)
  /\ todo' = PartsOf(c)
  /\ code' = UNKNOWN /\ overall' = code'
  /\ pc' = IF c = "check_nvidia_smi" THEN "init" ELSE "part"
  /\ UNCHANGED <<type, leaving, history, sinks, shown, status>>

Select(c, parts) ==
  /\ pc = "select"
  /\ command' = c /\ selected' = ToSet(parts)
  /\ inside' = (c \in Nested)
  /\ todo' = parts
  /\ code' = (IF c = "check_ssh_certs" THEN OK ELSE UNKNOWN)
  /\ overall' = code'
  /\ pc' = IF c = "check_nvidia_smi" THEN "init" ELSE "part"
  /\ UNCHANGED <<type, leaving, history, sinks, shown, status>>

-----------------------------------------------------------------------------
(* The parts. One ends with a result, with sys.exit or with an exception,  *)
(* and the context around it is left.                                      *)

Leave(how) ==
  /\ leaving' = how
  /\ pc' = IF inside THEN "publish" ELSE "output"

(* A command that fails before its contexts are there, for its log cannot  *)
(* be opened or the lists of check-module are not of one length, prints    *)
(* nothing and publishes nothing.                                          *)
FailsEarly(c, parts) ==
  /\ pc = "select"
  /\ command' = c /\ selected' = ToSet(parts) /\ todo' = parts
  /\ crashed' = ToSet(parts)
  /\ leaving' = "raise" /\ pc' = "exit"
  /\ UNCHANGED <<type, inside, code, overall, looked, switched, sinks, shown, status>>

(* Mutant: the telemetry does not learn the code.                          *)
InitFailsUnpublished ==
  /\ pc = "init"
  /\ \E c \in {WARN, CRITICAL} : overall' = c
  /\ inside' = FALSE
  /\ leaving' = "exit" /\ pc' = "output"
  /\ UNCHANGED <<options, todo, code, history, sinks, shown, status>>

(* The NVIDIA library cannot be loaded: a single telemetry, outermost,     *)
(* with the overall code.                                                  *)
InitFails ==
  /\ pc = "init"
  /\ \E c \in {WARN, CRITICAL} : overall' = c /\ code' = c
  /\ inside' = FALSE
  /\ leaving' = "exit" /\ pc' = "output"
  /\ UNCHANGED <<options, todo, history, sinks, shown, status>>

(* A kill switch is read from the features file whenever it is asked for;  *)
(* without a readable file it is off, and anything but a boolean raises.   *)
KillSwitch == {"off", "on", "raises"}

CommandSwitch(read) ==
  /\ pc = "init"
  /\ CASE read = "off" -> pc' = "part" /\ UNCHANGED <<overall, leaving, switched>>
       [] read = "on" -> /\ overall' = OK /\ switched' = selected
                         /\ leaving' = "exit" /\ pc' = "output"
       [] read = "raises" -> /\ leaving' = "raise" /\ pc' = "output"
                             /\ UNCHANGED <<overall, switched>>
  /\ UNCHANGED <<options, inside, todo, code, looked, crashed, sinks, shown, status>>

(* Mutant: a part that is turned off ends the command, with OK.            *)
PartIsOffExits ==
  /\ pc = "part"
  /\ switched' = switched \cup {Head(todo)}
  /\ code' = OK /\ overall' = OK
  /\ Leave("exit")
  /\ UNCHANGED <<options, inside, todo, looked, crashed, sinks, shown, status>>

(* A part that is turned off: of check-nvidia-smi its result is OK and the *)
(* next one runs; elsewhere the command exits, with OK.                    *)
PartIsOff ==
  /\ pc = "part"
  /\ switched' = switched \cup {Head(todo)}
  /\ code' = OK
  /\ IF command = "check_nvidia_smi"
     THEN overall' = WorseOf(overall, OK) /\ Leave("no")
     ELSE overall' = OK /\ Leave("exit")
  /\ UNCHANGED <<options, inside, todo, looked, crashed, sinks, shown, status>>

PartSwitchRaises ==
  /\ pc = "part"
  /\ crashed' = crashed \cup {Head(todo)}
  /\ Leave("raise")
  /\ UNCHANGED <<options, inside, todo, code, overall, looked, switched, sinks, shown, status>>

(* One of several parts adds to what the others have found.                *)
CombinedLast(c) == c   \* mutant: the last one instead of the worst
Combined(c) == IF inside THEN WorseOf(overall, c) ELSE c

(* A part looks at the node; an exception leaves the block of the command. *)
Look(outcome) ==
  /\ pc = "part"
  /\ looked' = looked \cup {[part |-> Head(todo), lapse |-> outcome.lapse,
                             good |-> outcome.good, bad |-> outcome.bad]}
  /\ code' = outcome.published
  /\ IF HasRaised(outcome.code)
     THEN /\ crashed' = crashed \cup {Head(todo)}
          /\ overall' = IF inside THEN overall ELSE CodeOf(outcome.code)
          /\ Leave("raise")
     ELSE /\ overall' = Combined(outcome.code)
          /\ Leave(IF inside THEN "no" ELSE "exit")
          /\ UNCHANGED crashed
  /\ UNCHANGED <<options, inside, todo, switched, sinks, shown, status>>

(* check-telemetry only publishes the code it is given, and exits with 0.  *)
RecordOnly(c) ==
  /\ pc = "select"
  /\ command' = "check_telemetry"
  /\ code' = c /\ overall' = OK
  /\ leaving' = "exit" /\ pc' = "publish"
  /\ UNCHANGED <<type, selected, inside, todo, history, sinks, shown, status>>

-----------------------------------------------------------------------------
(* The contexts around the parts. *)

PrintResult ==
  /\ pc = "output"
  /\ shown' = CASE leaving = "raise" -> "warning"
                [] leaving = "exit" /\ type = "nagios" -> "state"
                [] leaving = "exit" /\ type # "nagios" -> "nothing"
  /\ pc' = IF inside THEN "exit" ELSE "publish"
  /\ UNCHANGED <<options, inside, todo, code, overall, leaving, history, sinks, status>>

(* Mutant: the first part is the last one.                                 *)
AfterPublishOnce(how) ==
  /\ leaving' = IF how = "no" THEN "exit" ELSE how
  /\ pc' = IF inside THEN "output" ELSE "exit"
  /\ UNCHANGED <<todo, code>>

(* After the telemetry of one of several parts comes the next one, which   *)
(* starts from UNKNOWN again; after that of the last one, sys.exit.        *)
AfterPublish(how) ==
  IF how = "no" /\ Len(todo) > 1
  THEN todo' = Tail(todo) /\ code' = UNKNOWN /\ leaving' = "no" /\ pc' = "part"
  ELSE /\ leaving' = IF how = "no" THEN "exit" ELSE how
       /\ pc' = IF inside THEN "output" ELSE "exit"
       /\ UNCHANGED <<todo, code>>

Record == [part |-> IF todo = <<>> THEN command ELSE Head(todo), code |-> code]

Publish ==
  /\ pc = "publish"
  /\ published' = published \cup {Record}
  /\ AfterPublish(leaving)
  /\ UNCHANGED <<options, inside, overall, history, broken, shown, status>>

(* Only write is guarded: what it raises is logged.                        *)
WriteFails ==
  /\ pc = "publish"
  /\ AfterPublish(leaving)
  /\ broken' = TRUE
  /\ UNCHANGED <<options, inside, overall, history, published, shown, status>>

(* The job id is no number or the sink cannot be made; or its shutdown     *)
(* fails after it has written. The exception takes the place of sys.exit.  *)
SinkRaises ==
  /\ pc = "publish"
  /\ published' \in {published, published \cup {Record}}
  /\ AfterPublish("raise")
  /\ broken' = TRUE
  /\ UNCHANGED <<options, inside, overall, history, shown, status>>

(* Mutant: an exception exits as if there were none.                       *)
ExitRegardless ==
  /\ pc = "exit"
  /\ status' = Value(overall)
  /\ pc' = "done"
  /\ UNCHANGED <<options, inside, todo, code, overall, leaving, history, sinks, shown>>

Exit ==
  /\ pc = "exit"
  /\ status' = (IF leaving = "raise" THEN 1 ELSE Value(overall))
  /\ pc' = "done"
  /\ UNCHANGED <<options, inside, todo, code, overall, leaving, history, sinks, shown>>

Done == pc = "done" /\ UNCHANGED vars

(* The selected parts run in the order of the code, not of the options.    *)
Selections(c) ==
  UNION { { [k \in 1 .. n |-> PartsOf(c)[at[k]]]
              : at \in { f \in [1 .. n -> DOMAIN PartsOf(c)] : \A j, k \in 1 .. n : j < k => f[j] < f[k] } }
          : n \in 1 .. MaxParts }

Begin == pc = "select" /\
  \/ \E c \in Singles : Select(c, <<c>>) \/ FailsEarly(c, <<c>>)
  \/ \E c \in Nested : \E parts \in Selections(c) : Select(c, parts) \/ FailsEarly(c, parts)
  \/ \E c \in Codes : RecordOnly(c)

RunPart == pc = "part" /\
  \/ PartIsOff \/ PartSwitchRaises
  \/ \E outcome \in Promises[Head(todo)] : Look(outcome)

Next ==
  \/ Begin
  \/ InitFails
  \/ \E read \in KillSwitch : CommandSwitch(read)
  \/ RunPart
  \/ PrintResult
  \/ Publish \/ WriteFails \/ SinkRaises
  \/ Exit
  \/ Done

Spec == Init /\ [][Next]_vars

-----------------------------------------------------------------------------
TypeOK ==
  /\ command \in Singles \cup Nested \cup {"none", "check_telemetry"}
  /\ type \in {"nagios", "prolog"}
  /\ inside \in BOOLEAN
  /\ selected \subseteq DOMAIN Promises /\ ToSet(todo) \subseteq selected
  /\ pc \in {"select", "init", "part", "output", "publish", "exit", "done"}
  /\ code \in Codes /\ overall \in Codes
  /\ leaving \in {"no", "exit", "raise"}
  /\ looked \subseteq [part : selected, lapse : STRING, good : BOOLEAN, bad : BOOLEAN]
  /\ switched \subseteq selected /\ crashed \subseteq selected
  /\ \A r \in published : r.code \in Codes
  /\ broken \in BOOLEAN
  /\ shown \in {"nothing", "warning", "state"}
  /\ status \in {Running, 0, 1, 2, 3}

(* check_dcgmi.py 589 and 635: a switched off part of nvlink ends the      *)
(* command with OK, whatever the part before it has found.                 *)
NvlinkCutShort == command = "nvlink" /\ switched # {}

(* Exit status 0 is what lets a job start on the node: every part that was *)
(* asked for has looked and found the node as it should be, or one of its  *)
(* known lapses kept it from looking, or it is switched off. No early      *)
(* return, no exception handler, no failed command, no other death of one  *)
(* and no later part gives OK for a node that is not.                      *)
NoFalseOk ==
  status = 0 /\ ~NvlinkCutShort =>
    \A part \in selected \ switched : \E l \in looked : l.part = part /\ Earned(part, l)

(* A fault that a part has been able to see makes the command CRITICAL; an *)
(* exception, of a later part or of the sink, may make it 1, and nothing   *)
(* makes it less.                                                          *)
FaultsAreCritical ==
  pc = "done" /\ ~NvlinkCutShort =>
    \A l \in looked : l.bad /\ <<l.part, l.lapse>> \notin Blinding =>
      status = 2 \/ (status = 1 /\ leaving = "raise")

(* Nagios sees the exit status, the fleet what is published: when nothing  *)
(* was lost on the way they are the same, the exit status being the worst  *)
(* of the parts. The NVLink errors publish the code of the last GPU only.  *)
PublishedMatchesExit ==
  pc = "done" /\ leaving = "exit" /\ ~broken /\ published # {}
  /\ command \notin {"check_telemetry", "nvlink"} =>
    status = Value(WorstOf({ r.code : r \in published }))

(* A part that crashed has found out nothing: the command exits with 1 and *)
(* OK is not published for it. check_ssh_certs starts from OK.             *)
CrashIsNotOk ==
  pc = "done" /\ crashed # {} =>
    /\ status = 1
    /\ \A r \in published : r.part \in crashed \ {"check_ssh_certs"} => r.code # OK

(* Part after part the overall code only ever gets worse.                  *)
OverallNeverFalls == [][inside => overall' >= overall \/ NvlinkCutShort']_vars
===============================================================================
