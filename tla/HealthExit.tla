------------------------------ MODULE HealthExit ------------------------------
(***************************************************************************)
(* What every health check of l9gpu/health_checks is written with: the     *)
(* exit codes and their order (types.py), what a shell command hands back  *)
(* (subprocess.py), and how a check adds up the results of its parts.      *)
(*                                                                         *)
(* A check is a function from observations, everything it reads of the     *)
(* node, to a result. A result is an exit code or, when the check ends     *)
(* with an exception nobody catches, Raised(c), c being the code its       *)
(* telemetry publishes: the value of exit_code at that moment.             *)
(***************************************************************************)
EXTENDS Integers, Sequences, SequencesExt

(* ExitCode in the order of its comparisons: UNKNOWN is below everything.  *)
UNKNOWN == 0
OK == 1
WARN == 2
CRITICAL == 3
Codes == UNKNOWN .. CRITICAL

(* The value a process exits with. *)
Value(c) == IF c = UNKNOWN THEN 3 ELSE c - 1

(* `if code > overall: overall = code`, in every check that has parts.     *)
WorseOf(c, d) == IF d > c THEN d ELSE c
WorstOf(codes) == CASE CRITICAL \in codes -> CRITICAL
                    [] CRITICAL \notin codes /\ WARN \in codes -> WARN
                    [] codes \subseteq {OK, UNKNOWN} -> IF OK \in codes THEN OK ELSE UNKNOWN

Raised(c) == 10 + c
HasRaised(r) == r >= 10
CodeOf(r) == r % 10
Results == Codes \cup { Raised(c) : c \in Codes }

(* What a loop over parts makes of their results, one after the other: an  *)
(* exception ends it, and leaves the overall code where it was.            *)
Overall(start, results) ==
  LET raising == { i \in DOMAIN results : HasRaised(results[i]) }
      before == { i \in DOMAIN results : \A j \in raising : i < j }
      worst == WorstOf({start} \cup { results[i] : i \in before })
  IN IF raising = {} THEN worst ELSE Raised(worst)

-----------------------------------------------------------------------------
(* A command's return code (negative: killed by a signal) and what its     *)
(* output amounts to; `error` is what handle_subprocess_exception puts     *)
(* there when the command timed out or could not be run.                   *)
Exceptional == { [rc |-> 128, text |-> "error"], [rc |-> 2, text |-> "error"] }
Outputs(texts) == [rc : {0, 1, -9}, text : texts] \cup Exceptional

(* A pipeline's return codes, and the output of its last command.          *)
PipedOutputs(n, texts) ==
  [rcs : [1 .. n -> {0, 1, -9}], text : texts]
    \cup { [rcs |-> <<out.rc>>, text |-> out.text] : out \in Exceptional }

(* Where a call may raise, this is its return code.                        *)
Raises == 99

(* Up to two of a kind: volumes, devices, interfaces, lines, ...           *)
UpToTwo(S) == { SubSeq(s, 1, n) : s \in S \X S, n \in 1 .. 2 }
Total(F(_), seq) == IF Len(seq) = 1 THEN F(seq[1]) ELSE F(seq[1]) + F(seq[2])

(* A check beside what it promises: on which observations it should be OK, *)
(* on which CRITICAL, on which it could not look, and what may have kept   *)
(* it from looking without its knowledge. What matters of an observation   *)
(* is the result, the code the telemetry publishes, and what the node was  *)
(* like. Nothing is good of which the look failed or lapsed.               *)
Publishing(verdict, Published(_), Good(_), Bad(_), Failed(_), Lapse(_)) ==
  { [code |-> verdict[o], published |-> Published(o), lapse |-> Lapse(o), bad |-> Bad(o),
     good |-> Good(o) /\ ~Failed(o) /\ Lapse(o) = "none"] : o \in DOMAIN verdict }

Lapsing(verdict, Good(_), Bad(_), Failed(_), Lapse(_)) ==
  LET Published(o) == CodeOf(verdict[o])
  IN Publishing(verdict, Published, Good, Bad, Failed, Lapse)

Check(verdict, Good(_), Bad(_), Failed(_)) ==
  LET Lapse(o) == "none"
  IN Lapsing(verdict, Good, Bad, Failed, Lapse)

(* A check that runs commands, with these return codes: one that a signal  *)
(* has killed did not get to its end, whatever it has printed.             *)
BySignal(rcs) == \E rc \in rcs : rc < 0
CommandCheck(verdict, Good(_), Bad(_), Failed(_), Rcs(_)) ==
  LET Lapse(o) == IF BySignal(Rcs(o)) THEN "killed" ELSE "none"
  IN Lapsing(verdict, Good, Bad, Failed, Lapse)
=============================================================================
