---------------------------- MODULE MCHealthChecks ----------------------------
(***************************************************************************)
(* The health_checks command, or, step by step, its one part that retries  *)
(* and kills. The two do not share state: a behaviour is one of either.    *)
(***************************************************************************)
EXTENDS HealthCheckRun, GpuProcesses

NoGpu ==
  /\ gpuOf = [p \in Pids |-> 1] /\ proc = [p \in Pids |-> "none"] /\ starts = 0
  /\ gpuPc = "unused" /\ device = 1 /\ attempt = 0 /\ listed = {} /\ found = OK
  /\ victims = {} /\ toKill = {} /\ alive = {} /\ result = OK
  /\ retryCount = 0 /\ force = FALSE /\ arrived = FALSE
NoRun ==
  /\ command = "none" /\ type = "prolog" /\ selected = {} /\ inside = FALSE /\ todo = <<>>
  /\ pc = "done" /\ code = UNKNOWN /\ overall = UNKNOWN /\ leaving = "no"
  /\ looked = {} /\ switched = {} /\ crashed = {} /\ published = {} /\ broken = FALSE
  /\ shown = "nothing" /\ status = Running

MCInit == (Init /\ NoGpu) \/ (NoRun /\ GpuInit)
MCNext == \/ gpuPc = "unused" /\ Next /\ UNCHANGED gpuVars
          \/ gpuPc # "unused" /\ GpuNext /\ UNCHANGED vars
MCSpec == MCInit /\ [][MCNext]_<<vars, gpuVars>> /\ WF_gpuVars(gpuPc # "unused" /\ CheckStep /\ UNCHANGED vars)
===============================================================================
