--------------------------- MODULE ChunkIterProofs ---------------------------
(***************************************************************************)
(* Proofs about the iterators of ChunkIter, for every interval, step and   *)
(* file: the chunks of `backfill new` partition its interval.              *)
(***************************************************************************)
EXTENDS ChunkIter, TLAPS

IterInv == IterTypeOK /\ Partitioning

(* An intervals file is a sequence of rows. *)
LEMMA RowFilesAreSequences == RowFiles \subseteq Seq(Interval)
<1>1. SUFFICES ASSUME NEW f \in RowFiles PROVE f \in Seq(Interval)
  OBVIOUS
<1>2. PICK n \in 0 .. MaxRows : f \in [1 .. n -> Rows]
  BY DEF RowFiles
<1>3. n \in Nat /\ f \in [1 .. n -> Interval]
  BY <1>2, MaxRowsAssumption, RowsAssumption
<1>4. QED
  BY <1>3

(* Nothing is yielded yet, and the frontier is the start of the interval. *)
LEMMA IterInvInit == IterInit => IterInv
<1>1. SUFFICES ASSUME IterInit PROVE IterInv
  OBVIOUS
<1>2. CASE InitNew
  <2>1. interval \in Interval /\ step \in Int /\ start \in Int
    BY <1>1, <1>2, TimesAssumption, StepsAssumption DEF IterInit, InitNew, Interval
  <2>2. IterTypeOK
    BY <1>1, <1>2, <2>1 DEF IterInit, InitNew, IterTypeOK
  <2>3. Partitioning
    BY <1>1, <1>2, <2>1
    DEF IterInit, InitNew, Partitioning, Proper, PiecesAreProper, PiecesAreOrdered,
        PiecesCoverUpToFrontier, Frontier, Interval
  <2>4. QED
    BY <2>2, <2>3 DEF IterInv
<1>3. CASE InitFromFile
  <2>1. IterTypeOK
    BY <1>1, <1>3, RowFilesAreSequences DEF IterInit, InitFromFile, IterTypeOK, Interval
  <2>2. Partitioning
    BY <1>3 DEF InitFromFile, Partitioning
  <2>3. QED
    BY <2>1, <2>2 DEF IterInv
<1>4. QED
  BY <1>1, <1>2, <1>3 DEF IterInit

(* One more piece, from the frontier up to hi, keeps the pieces a partition. *)
LEMMA AddPiece ==
  ASSUME IterTypeOK, source = "new",
         PiecesAreProper, PiecesAreOrdered, PiecesCoverUpToFrontier,
         NEW hi \in Int, start <= hi, interval.lower <= start,
         chunks' = Append(chunks, [lower |-> start, upper |-> hi]),
         interval' = interval, Frontier = start, Frontier' = hi + 1
  PROVE  PiecesAreProper' /\ PiecesAreOrdered' /\ PiecesCoverUpToFrontier'
<1> DEFINE piece == [lower |-> start, upper |-> hi]
           n == Len(chunks) + 1
<1>1. /\ piece \in Interval /\ n \in Nat
      /\ interval.lower \in Int /\ start \in Int
  BY DEF IterTypeOK, Interval
<1>2. /\ DOMAIN chunks' = 1 .. n /\ DOMAIN chunks = 1 .. n - 1
      /\ chunks'[n] = piece
      /\ \A i \in 1 .. n - 1 : chunks'[i] = chunks[i] /\ chunks[i] \in Interval
  BY <1>1 DEF IterTypeOK
<1>3. piece.lower = start /\ piece.upper = hi
  OBVIOUS
<1> HIDE DEF piece, n
<1>4. PiecesAreProper'
  <2>1. SUFFICES ASSUME NEW i \in 1 .. n
                 PROVE /\ interval.lower <= chunks'[i].lower
                       /\ chunks'[i].lower <= chunks'[i].upper
                       /\ chunks'[i].upper < hi + 1
    BY <1>2 DEF PiecesAreProper, Proper
  <2>2. CASE i = n
    BY <1>1, <1>2, <1>3, <2>2
  <2>3. CASE i # n
    <3>1. i \in 1 .. n - 1
      BY <1>1, <2>3
    <3>2. /\ interval.lower <= chunks[i].lower
          /\ chunks[i].lower <= chunks[i].upper
          /\ chunks[i].upper < start
      BY <1>2, <3>1 DEF PiecesAreProper, Proper
    <3>3. chunks'[i] = chunks[i] /\ chunks[i].upper \in Int
      BY <1>2, <3>1 DEF Interval
    <3>4. chunks[i].upper < hi + 1
      BY <1>1, <3>2, <3>3
    <3>5. QED
      BY <3>2, <3>3, <3>4
  <2>4. QED
    BY <2>2, <2>3
<1>5. PiecesAreOrdered'
  <2>1. SUFFICES ASSUME NEW i \in 1 .. n, NEW j \in 1 .. n, i < j
                 PROVE chunks'[i].upper < chunks'[j].lower
    BY <1>2 DEF PiecesAreOrdered
  <2>2. i \in 1 .. n - 1 /\ chunks'[i] = chunks[i]
    BY <1>1, <1>2, <2>1
  <2>3. CASE j = n
    <3>1. chunks[i].upper < start
      BY <1>2, <2>2 DEF PiecesAreProper
    <3>2. QED
      BY <1>2, <1>3, <2>2, <2>3, <3>1
  <2>4. CASE j # n
    <3>1. j \in 1 .. n - 1 /\ chunks'[j] = chunks[j]
      BY <1>1, <1>2, <2>4
    <3>2. QED
      BY <1>2, <2>1, <2>2, <3>1 DEF PiecesAreOrdered
  <2>5. QED
    BY <2>3, <2>4
<1>6. PiecesCoverUpToFrontier'
  <2>1. SUFFICES ASSUME NEW t \in interval.lower .. hi
                 PROVE \E i \in 1 .. n : Covers(i, t)'
    <3>1. Frontier' - 1 = hi
      OBVIOUS
    <3>2. QED
      BY <1>2, <3>1 DEF PiecesCoverUpToFrontier
  <2>2. CASE t < start
    <3>1. t \in interval.lower .. Frontier - 1
      BY <1>1, <2>1, <2>2
    <3>2. PICK i \in 1 .. n - 1 : Covers(i, t)
      BY <1>2, <3>1 DEF PiecesCoverUpToFrontier
    <3>3. Covers(i, t)' /\ i \in 1 .. n
      BY <1>1, <1>2, <3>2 DEF Covers
    <3>4. QED
      BY <3>3
  <2>3. CASE start <= t
    <3>1. chunks'[n].lower <= t /\ t <= chunks'[n].upper
      BY <1>1, <1>2, <1>3, <2>1, <2>3
    <3>2. n \in 1 .. n
      BY <1>1 DEF n, IterTypeOK
    <3>3. QED
      BY <3>1, <3>2 DEF Covers
  <2>4. QED
    BY <1>1, <2>1, <2>2, <2>3
<1>7. QED
  BY <1>4, <1>5, <1>6

(* Every next() keeps the types and the partition. *)
LEMMA IterInvNext == IterInv /\ [IterNext]_iterVars => IterInv'
<1> SUFFICES ASSUME IterInv, [IterNext]_iterVars PROVE IterInv'
  OBVIOUS
<1> USE DEF IterInv
<1>1. CASE YieldStep
  <2> DEFINE hi == start + step - 1
  <2>1. /\ hi \in Int /\ start <= hi /\ Frontier = start /\ Frontier' = hi + 1
        /\ interval' = interval /\ interval.lower <= start
        /\ chunks' = Append(chunks, [lower |-> start, upper |-> hi])
    BY <1>1 DEF YieldStep, inputVars, Frontier, IterTypeOK, Partitioning
  <2>2. IterTypeOK'
    BY <1>1, <2>1 DEF YieldStep, inputVars, IterTypeOK, Interval
  <2>3. PiecesAreProper' /\ PiecesAreOrdered' /\ PiecesCoverUpToFrontier'
    <3> HIDE DEF hi
    <3>1. QED
      BY <1>1, <2>1, AddPiece DEF YieldStep, Partitioning
  <2>4. QED
    BY <1>1, <2>2, <2>3
    DEF YieldStep, inputVars, Partitioning, Proper, IterTypeOK, Interval
<1>2. CASE YieldLast
  <2> DEFINE hi == interval.upper
  <2>1. /\ hi \in Int /\ start <= hi /\ Frontier = start /\ Frontier' = hi + 1
        /\ interval' = interval /\ interval.lower <= start
        /\ chunks' = Append(chunks, [lower |-> start, upper |-> hi])
    BY <1>2 DEF YieldLast, inputVars, Frontier, IterTypeOK, Interval, Partitioning
  <2>2. IterTypeOK'
    BY <1>2, <2>1 DEF YieldLast, inputVars, IterTypeOK, Interval
  <2>3. PiecesAreProper' /\ PiecesAreOrdered' /\ PiecesCoverUpToFrontier'
    <3> HIDE DEF hi
    <3>1. QED
      BY <1>2, <2>1, AddPiece DEF YieldLast, Partitioning
  <2>4. QED
    BY <1>2, <2>2, <2>3
    DEF YieldLast, inputVars, Partitioning, Proper, IterTypeOK, Interval
<1>3. CASE RaiseOnStep
  <2>1. IterTypeOK'
    BY <1>3 DEF RaiseOnStep, inputVars, IterTypeOK
  <2>2. Partitioning'
    BY <1>3
    DEF RaiseOnStep, inputVars, Partitioning, Proper, PiecesAreProper, PiecesAreOrdered,
        PiecesCoverUpToFrontier, Frontier, Covers
  <2>3. QED
    BY <2>1, <2>2
<1>4. CASE YieldRow
  <2>1. IterTypeOK'
    BY <1>4 DEF YieldRow, inputVars, IterTypeOK
  <2>2. Partitioning'
    BY <1>4 DEF YieldRow, inputVars, Partitioning
  <2>3. QED
    BY <2>1, <2>2
<1>5. CASE RaiseOnRow \/ EndOfFile
  <2>1. IterTypeOK'
    BY <1>5 DEF RaiseOnRow, EndOfFile, inputVars, IterTypeOK
  <2>2. Partitioning'
    BY <1>5 DEF RaiseOnRow, EndOfFile, inputVars, Partitioning
  <2>3. QED
    BY <2>1, <2>2
<1>6. CASE UNCHANGED iterVars
  BY <1>6
  DEF iterVars, IterTypeOK, Partitioning, Proper, PiecesAreProper, PiecesAreOrdered,
      PiecesCoverUpToFrontier, Frontier, Covers
<1>7. QED
  BY <1>1, <1>2, <1>3, <1>4, <1>5, <1>6 DEF IterNext, NextYields, NextRaises, NextStops

(* Disjoint pieces up to the end of the interval hold every second once. *)
LEMMA PartitionCoversOnce == IterInv => EverySecondOnce
<1> SUFFICES ASSUME IterInv, source = "new", gstate = "exhausted",
                    NEW t \in interval.lower .. interval.upper
             PROVE \E i \in DOMAIN chunks :
                     /\ Covers(i, t)
                     /\ \A j \in DOMAIN chunks : Covers(j, t) => j = i
  BY DEF EverySecondOnce
<1>1. PICK i \in DOMAIN chunks : Covers(i, t)
  BY DEF IterInv, IterTypeOK, Interval, Partitioning, PiecesCoverUpToFrontier, Frontier
<1>2. ASSUME NEW j \in DOMAIN chunks, Covers(j, t) PROVE j = i
  <2>1. i \in Nat /\ j \in Nat /\ chunks[i] \in Interval /\ chunks[j] \in Interval
    BY DEF IterInv, IterTypeOK
  <2>2. ~ (i < j) /\ ~ (j < i)
    BY <1>1, <1>2, <2>1 DEF Covers, IterInv, Partitioning, PiecesAreOrdered, Interval
  <2>3. QED
    BY <2>1, <2>2
<1>3. QED
  BY <1>1, <1>2

(* gen_time_bounds and gen_intervals keep their types and, of `new`, the     *)
(* pieces yielded so far partition the interval up to the frontier.          *)
THEOREM IterInvariance == IterSpec => []IterInv
<1>1. IterInit => IterInv
  BY IterInvInit
<1>2. IterInv /\ [IterNext]_iterVars => IterInv'
  BY IterInvNext
<1>3. QED
  BY <1>1, <1>2, PTL DEF IterSpec

(* For every interval and every step: once gen_time_bounds is exhausted, its *)
(* chunks partition the interval second by second.                           *)
THEOREM IterPartition == IterSpec => []EverySecondOnce
  BY IterInvariance, PartitionCoversOnce, PTL
=============================================================================
