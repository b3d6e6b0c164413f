--------------------------- MODULE MCBackfillPool ---------------------------
(* Small instances of BackfillPool for TLC. *)
EXTENDS BackfillPool

MCTimes == 0 .. 9

(* --step is a whole number of hours: `--step 0` is the one gen_time_bounds  *)
(* refuses, the others are scaled down to a few seconds.                     *)
MCSteps == {0, 2, 3}
MCConcurrently == {0, 1, 2, 3}

(* A chunk of an intervals file, and a row that raises. *)
GoodRow == [lower |-> 1, upper |-> 2]
BadRow == [lower |-> 1, upper |-> 0]
MCRows == {GoodRow, BadRow}
=============================================================================
