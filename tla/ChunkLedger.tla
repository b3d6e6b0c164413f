----------------------------- MODULE ChunkLedger -----------------------------
(***************************************************************************)
(* What a backfill promises, whichever way it publishes: every chunk the   *)
(* iterator yields is published, never twice, never more of them at a time *)
(* than asked for, and the command returns only when the iterator is       *)
(* exhausted and every chunk's publication has ended.                      *)
(***************************************************************************)
EXTENDS Naturals, FiniteSets

VARIABLES
  limit,      (* the most publications at a time; 0: no limit     *)
  yielded,    (* how many chunks the iterator has yielded         *)
  exhausted,  (* whether it has said that there are no more       *)
  begun,      (* the chunks (by number) whose publication began   *)
  ended,      (* those whose publication ended, well or not       *)
  returned    (* whether the command has returned                 *)

vars == <<limit, yielded, exhausted, begun, ended, returned>>

Init ==
  /\ limit \in Nat
  /\ yielded = 0
  /\ exhausted = FALSE
  /\ begun = {} /\ ended = {}
  /\ returned = FALSE

(* The last chunk may come together with the news that it is the last. *)
Yield ==
  /\ ~ exhausted
  /\ yielded' = yielded + 1
  /\ exhausted' \in BOOLEAN
  /\ UNCHANGED <<limit, begun, ended, returned>>

Exhaust ==
  /\ exhausted' = TRUE
  /\ UNCHANGED <<limit, yielded, begun, ended, returned>>

Begin(i) ==
  /\ i \notin begun
  /\ limit > 0 => Cardinality(begun \ ended) < limit
  /\ begun' = begun \cup {i}
  /\ UNCHANGED <<limit, yielded, exhausted, ended, returned>>

End(i) ==
  /\ i \in begun \ ended
  /\ ended' = ended \cup {i}
  /\ UNCHANGED <<limit, yielded, exhausted, begun, returned>>

(* Serially, the pull that finds the iterator exhausted is also the return. *)
Return ==
  /\ ended = 1 .. yielded
  /\ exhausted' = TRUE /\ returned' = TRUE
  /\ UNCHANGED <<limit, yielded, begun, ended>>

Next ==
  \/ Yield
  \/ Exhaust
  \/ \E i \in 1 .. yielded : Begin(i) \/ End(i)
  \/ Return

Spec == Init /\ [][Next]_vars
=============================================================================
