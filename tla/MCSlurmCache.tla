---------------------------- MODULE MCSlurmCache ----------------------------
(* Small instance of SlurmCache for TLC. *)
EXTENDS SlurmCache, TLC

Symmetry == Permutations(Gpu) \cup Permutations(Job) \cup Permutations(Calls)

(* At most one job of several nodes, or one job that is skipped. *)
Wide == { j \in Job : elsewhere[j] # {} }
MCInit == Init /\ Cardinality(Wide) + Cardinality(refused) <= 1
MCSpec == MCInit /\ [][Next]_vars
=============================================================================
