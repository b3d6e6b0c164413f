------------------------------- MODULE FleetHealth -----------------------------
(***************************************************************************)
(* The fleet health monitor's view of one GPU: each push interval, main of *)
(* cli/fleet_health_monitor.py reads the last XID code and the counter of  *)
(* corrected errors, and FleetHealthTracker of fleet_health.py keeps them  *)
(* in windows, of which it computes rates. A code stays until the next     *)
(* error; a reload of the driver resets it, and the counter.               *)
(***************************************************************************)
EXTENDS Integers, FiniteSets, Sequences, SequencesExt

CONSTANTS Codes,      \* XID codes
          Window,     \* window_seconds
          MaxClock,   \* bound: the wall clock
          MaxXids, MaxCorrected   \* bounds: the errors of each kind

VARIABLES wallClock,  \* the wall clock, which time.time() reads
          slept,      \* the push interval is over
          stepped,    \* the clock was set back in this life of the monitor
          code, xids,         \* the last XID code, and how many there were
          counter, corrected, \* the volatile counter, and its true total
          lastXid,    \* last_xid, 0 for None
          xidEvents, sbeCounts,   \* the deques, oldest first
          seenXids    \* xids at the last reading of the code, -1 before the first

ASSUME WindowAssumption == Window \in Nat

fleetVars == <<wallClock, slept, stepped, code, xids, counter, corrected, lastXid, xidEvents,
               sbeCounts, seenXids>>
gpu == <<code, xids, counter, corrected>>
tracker == <<lastXid, xidEvents, sbeCounts, seenXids>>

FleetInit ==
  /\ wallClock = 0 /\ slept = TRUE /\ stepped = FALSE
  /\ code \in {0, CHOOSE c \in Codes : TRUE} /\ xids = 0 /\ counter = 0 /\ corrected = 0
  /\ lastXid = 0 /\ xidEvents = <<>> /\ sbeCounts = <<>> /\ seenXids = -1

ClockTicks ==
  /\ wallClock < MaxClock
  /\ wallClock' = wallClock + 1 /\ slept' = TRUE
  /\ UNCHANGED <<stepped, gpu, tracker>>

(* Somebody sets the clock back.                                           *)
StepBack ==
  /\ wallClock > 1 /\ ~stepped
  /\ wallClock' = wallClock - 2 /\ stepped' = TRUE
  /\ UNCHANGED <<slept, gpu, tracker>>

Xid(c) ==
  /\ xids < MaxXids
  /\ code' = c /\ xids' = xids + 1
  /\ UNCHANGED <<wallClock, slept, stepped, counter, corrected, tracker>>

Correct ==
  /\ corrected < MaxCorrected
  /\ counter' = counter + 1 /\ corrected' = corrected + 1
  /\ UNCHANGED <<wallClock, slept, stepped, code, xids, tracker>>

ReloadDriver ==
  /\ code # 0 \/ counter > 0
  /\ code' = 0 /\ counter' = 0
  /\ UNCHANGED <<wallClock, slept, stepped, xids, corrected, tracker>>

(* _trim: from the left, as long as the leftmost is too old.               *)
TrimLate(buf) ==   \* mutant: off by one
  LET old == { i \in DOMAIN buf : \A k \in 1 .. i : wallClock - buf[k].at > Window + 1 }
  IN SubSeq(buf, Cardinality(old) + 1, Len(buf))
Trim(buf) ==
  LET old == { i \in DOMAIN buf : \A k \in 1 .. i : wallClock - buf[k].at > Window }
  IN SubSeq(buf, Cardinality(old) + 1, Len(buf))

(* observe: a code that is the last one again is no new event. What could  *)
(* not be read is None, and a window of readings is trimmed only with the  *)
(* next reading. The last two fields of an entry are for the properties.   *)
ObserveEveryXid(gotCode) ==   \* mutant: a code that stays counts again
  LET event == [at |-> wallClock, before |-> seenXids, after |-> xids]
      isNew == gotCode /\ code # 0
  IN /\ xidEvents' = Trim(IF isNew THEN Append(xidEvents, event) ELSE xidEvents)
     /\ lastXid' = IF isNew THEN code ELSE lastXid
     /\ seenXids' = IF gotCode THEN xids ELSE seenXids

ObserveXid(gotCode) ==
  LET event == [at |-> wallClock, before |-> seenXids, after |-> xids]
      isNew == gotCode /\ code # 0 /\ code # lastXid
  IN /\ xidEvents' = Trim(IF isNew THEN Append(xidEvents, event) ELSE xidEvents)
     /\ lastXid' = IF isNew THEN code ELSE lastXid
     /\ seenXids' = IF gotCode THEN xids ELSE seenXids

ObserveSbe(gotCounter) ==
  sbeCounts' = IF gotCounter
               THEN Trim(Append(sbeCounts, [at |-> wallClock, value |-> counter, total |-> corrected]))
               ELSE sbeCounts

(* compute, right after observe: the rates are of all the windows hold.    *)
SbeRate == IF Len(sbeCounts) >= 2 /\ Last(sbeCounts).at > Head(sbeCounts).at
           THEN [errors |-> Max({0, Last(sbeCounts).value - Head(sbeCounts).value}),
                 seconds |-> Last(sbeCounts).at - Head(sbeCounts).at]
           ELSE [errors |-> 0, seconds |-> 0]

SampleHealth ==
  /\ slept /\ slept' = FALSE
  /\ \E gotCode, gotCounter \in BOOLEAN : ObserveXid(gotCode) /\ ObserveSbe(gotCounter)
  /\ UNCHANGED <<wallClock, stepped, gpu>>

(* The sink raises, or a signal: another monitor starts with empty windows. *)
RestartTracker ==
  /\ slept' = TRUE /\ stepped' = FALSE
  /\ lastXid' = 0 /\ xidEvents' = <<>> /\ sbeCounts' = <<>> /\ seenXids' = -1
  /\ UNCHANGED <<wallClock, gpu>>

FleetNext == ClockTicks \/ StepBack \/ (\E c \in Codes : Xid(c)) \/ Correct \/ ReloadDriver
             \/ SampleHealth \/ RestartTracker

FleetSpec == FleetInit /\ [][FleetNext]_fleetVars

-----------------------------------------------------------------------------
(* An XID event that is counted is an error that happened between two      *)
(* readings of the code, and no error counts twice; only the first reading *)
(* of a life may count an old one. The rate of corrected errors is never   *)
(* above what really was corrected. While nobody sets the clock back, both *)
(* are of the window: the events of the one before the publication, the    *)
(* readings of the one before the last reading, whenever that was.         *)
RatesAreOfTheWindow ==
  ~slept =>
    /\ \A i \in DOMAIN xidEvents :
         /\ xidEvents[i].before = -1 \/ xidEvents[i].before < xidEvents[i].after
         /\ ~stepped => wallClock - xidEvents[i].at <= Window
    /\ \A i, j \in DOMAIN xidEvents : i < j => xidEvents[i].after <= xidEvents[j].before
    /\ sbeCounts # <<>> => SbeRate.errors <= Last(sbeCounts).total - Head(sbeCounts).total
    /\ ~stepped => SbeRate.seconds <= Window
=============================================================================
