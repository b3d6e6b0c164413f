------------------------------ MODULE ChunkIter ------------------------------
(***************************************************************************)
(* The two chunk iterators of `l9gpu sacct_backfill`                       *)
(* (src/l9gpu/monitoring/cli/sacct_backfill.py), pulled one element at a   *)
(* time by whoever publishes:                                              *)
(*                                                                         *)
(*   - gen_time_bounds cuts one closed interval of seconds into pieces of  *)
(*     `step` seconds (`backfill new`);                                    *)
(*   - gen_intervals reads one (start, end) pair per row of a CSV file     *)
(*     (`backfill from_file`), and raises at a row it cannot read.         *)
(*                                                                         *)
(* A time is a whole number of seconds: get_datetime formats every time    *)
(* with `date +...%S`.                                                     *)
(***************************************************************************)
EXTENDS Integers, Sequences

CONSTANTS
  Times,   (* the seconds the interval of `new` may start or end at       *)
  Steps,   (* the lengths, in seconds, a chunk may be asked to have       *)
  Rows,    (* what a row of an intervals file may hold                    *)
  MaxRows  (* bound: the rows of an intervals file                        *)

Interval == [lower : Int, upper : Int]

ASSUME TimesAssumption == Times \subseteq Int
ASSUME StepsAssumption == Steps \subseteq Int
ASSUME RowsAssumption == Rows \subseteq Interval
ASSUME MaxRowsAssumption == MaxRows \in Nat

VARIABLES
  source,    (* "new" | "from_file": the subcommand that made the iterator *)
  interval,  (* new: the interval to cut                                   *)
  step,      (* new: the length of a piece                                 *)
  start,     (* new: the local variable `start` of gen_time_bounds         *)
  rows,      (* from_file: the rows not read yet                           *)
  gstate,    (* "suspended" | "exhausted" | "raised"                       *)
  chunks     (* every interval yielded so far, in order                    *)

inputVars == <<source, interval, step>>
iterVars == <<source, interval, step, start, rows, gstate, chunks>>

(* BoundedClosedInterval.__post_init__ raises ValueError when lower > upper. *)
(* A row that is no pair of dates raises ValueError as well: it is an        *)
(* improper interval here.                                                   *)
Proper(i) == i.lower <= i.upper

RowFiles == UNION { [1 .. n -> Rows] : n \in 0 .. MaxRows }

InitNew ==
  /\ source = "new"
  /\ interval \in { i \in [lower : Times, upper : Times] : Proper(i) }
  /\ step \in Steps
  /\ rows = <<>>

InitFromFile ==
  /\ source = "from_file"
  /\ interval = [lower |-> 0, upper |-> 0]
  /\ step = 0
  /\ rows \in RowFiles

IterInit ==
  /\ InitNew \/ InitFromFile
  /\ start = interval.lower
  /\ gstate = "suspended"
  /\ chunks = <<>>

-----------------------------------------------------------------------------
(* gen_time_bounds: one next() of the generator. *)

(* A piece that ends where the next begins, for mutation testing. *)
YieldStepOverlapping ==
  /\ source = "new" /\ gstate = "suspended" /\ step > 1
  /\ start + step < interval.upper
  /\ chunks' = Append(chunks, [lower |-> start, upper |-> start + step])
  /\ start' = start + step
  /\ UNCHANGED <<inputVars, rows, gstate>>

(* ValueError: "Step must be greater than one second". *)
RaiseOnStep ==
  /\ source = "new" /\ gstate = "suspended" /\ step <= 1
  /\ gstate' = "raised"
  /\ UNCHANGED <<inputVars, start, rows, chunks>>

(* while start + step < end: yield [start, start + step - 1s]; start += step *)
YieldStep ==
  /\ source = "new" /\ gstate = "suspended" /\ step > 1
  /\ start + step < interval.upper
  /\ chunks' = Append(chunks, [lower |-> start, upper |-> start + step - 1])
  /\ start' = start + step
  /\ UNCHANGED <<inputVars, rows, gstate>>

(* yield [start, end], after the loop *)
YieldLast ==
  /\ source = "new" /\ gstate = "suspended" /\ step > 1
  /\ start + step >= interval.upper
  /\ chunks' = Append(chunks, [lower |-> start, upper |-> interval.upper])
  /\ gstate' = "exhausted"
  /\ UNCHANGED <<inputVars, start, rows>>

-----------------------------------------------------------------------------
(* gen_intervals of from_file: one next() of the generator. *)

YieldRow ==
  /\ source = "from_file" /\ gstate = "suspended"
  /\ rows # <<>> /\ Proper(Head(rows))
  /\ chunks' = Append(chunks, Head(rows))
  /\ rows' = Tail(rows)
  /\ UNCHANGED <<inputVars, start, gstate>>

RaiseOnRow ==
  /\ source = "from_file" /\ gstate = "suspended"
  /\ rows # <<>> /\ ~ Proper(Head(rows))
  /\ gstate' = "raised"
  /\ UNCHANGED <<inputVars, start, rows, chunks>>

EndOfFile ==
  /\ source = "from_file" /\ gstate = "suspended"
  /\ rows = <<>>
  /\ gstate' = "exhausted"
  /\ UNCHANGED <<inputVars, start, rows, chunks>>

-----------------------------------------------------------------------------
(* What next() does to whoever pulls: return an element, raise, or stop. *)

NextYields == YieldStep \/ YieldLast \/ YieldRow
NextRaises == RaiseOnStep \/ RaiseOnRow
NextStops  == \/ EndOfFile
              \/ gstate = "exhausted" /\ UNCHANGED iterVars

IterNext == NextYields \/ NextRaises \/ NextStops

IterSpec == IterInit /\ [][IterNext]_iterVars

-----------------------------------------------------------------------------
IterTypeOK ==
  /\ source \in {"new", "from_file"}
  /\ interval \in Interval
  /\ step \in Int
  /\ start \in Int
  /\ rows \in Seq(Interval)
  /\ gstate \in {"suspended", "exhausted", "raised"}
  /\ chunks \in Seq(Interval)

Covers(i, t) == chunks[i].lower <= t /\ t <= chunks[i].upper

(* How far the pieces reach: every second before it is in a piece. *)
Frontier == IF gstate = "exhausted" THEN interval.upper + 1 ELSE start

PiecesAreProper ==
  \A i \in DOMAIN chunks :
    /\ interval.lower <= chunks[i].lower
    /\ Proper(chunks[i])
    /\ chunks[i].upper < Frontier

PiecesAreOrdered ==
  \A i, j \in DOMAIN chunks : i < j => chunks[i].upper < chunks[j].lower

PiecesCoverUpToFrontier ==
  \A t \in interval.lower .. Frontier - 1 : \E i \in DOMAIN chunks : Covers(i, t)

(* What every next() of gen_time_bounds preserves: the pieces so far are     *)
(* proper, disjoint, in order, and reach up to the frontier.                 *)
Partitioning == source = "new" =>
  /\ Proper(interval)
  /\ interval.lower <= start /\ start <= interval.upper
  /\ PiecesAreProper
  /\ PiecesAreOrdered
  /\ PiecesCoverUpToFrontier

(* No piece spans more than `step` seconds from its first to its last: the  *)
(* promise of --step, which bounds what one sacct call is asked for.        *)
PiecesAreShort == source = "new" =>
  \A i \in DOMAIN chunks : chunks[i].upper - chunks[i].lower <= step

(* The pieces `new` publishes partition the interval it was given: once the *)
(* iterator is exhausted, a job that ended in any second of the interval is *)
(* asked for by one and only one chunk (gen_time_bounds, lines 526-552).    *)
EverySecondOnce == source = "new" /\ gstate = "exhausted" =>
  \A t \in interval.lower .. interval.upper :
    \E i \in DOMAIN chunks :
      /\ Covers(i, t)
      /\ \A j \in DOMAIN chunks : Covers(j, t) => j = i
=============================================================================
