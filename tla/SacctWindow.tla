------------------------------ MODULE SacctWindow ------------------------------
(***************************************************************************)
(* fsacct, the wrapper of sacct_wrapper.py, called once for each chunk of  *)
(* a backfill: it asks sacct for a little more than the chunk, puts lines  *)
(* back together that a line break in a job's name has torn apart, and     *)
(* lets through the jobs that ended within the chunk.                      *)
(***************************************************************************)
EXTENDS Integers, Sequences, SequencesExt

CONSTANTS SacctJobs,    \* the jobs of the cluster
          LastSecond,   \* the backfill is of 0 .. LastSecond
          Step,         \* the length of its chunks
          Slack,        \* start_time_slack
          Offsets,      \* how long before its end sacct may think a job ended
          Delimiters,   \* in the header, and so in every whole line
          MaxPieces,    \* bound: the pieces of a line
          Unruly        \* bound: the jobs whose names may have the delimiter in them

VARIABLES end, late,    \* when a job ended, and how long before that in sacct's idea
          pieces,       \* the delimiters up to the end of each piece of a job's line
          chunk,        \* the chunk that is asked for
          toList,       \* the jobs sacct has yet to list
          lines,        \* what is in the pipe: the number of a piece and its job
          joined, count,   \* prev_line and prev_line_delimiters
          printed,      \* the lines let through, over all chunks
          failed        \* the chunks whose calls failed, which is logged, and by whom

sacctVars == <<end, late, pieces, chunk, toList, lines, joined, count, printed, failed>>

ASSUME SacctAssumption ==
  /\ LastSecond \in Nat /\ Step \in Nat \ {0, 1} /\ Delimiters \in Nat \ {0} /\ MaxPieces \in Nat
  /\ Offsets \subseteq Int /\ Slack \in Nat

(* The chunks of gen_time_bounds: closed intervals without a gap, each of  *)
(* a step as long as there is more than a step left, and one of the rest.  *)
Chunks == { c \in 0 .. LastSecond : c = 0 \/ c * Step < LastSecond }
Lower(c) == c * Step
Upper(c) == IF c * Step + Step < LastSecond THEN c * Step + Step - 1 ELSE LastSecond

(* A name with line breaks is in the middle of its line: the last piece    *)
(* has at least the delimiter before the end, the first the one after the  *)
(* job's id. A name with a delimiter is one too many.                      *)
Torn(k, n) == { p \in [1 .. k -> 1 .. n] :
                  p[k] = n /\ \A i \in 1 .. k - 1 : p[i] <= p[i + 1] /\ p[i] < n }
Lines(j) == (UNION { Torn(k, Delimiters) : k \in 1 .. MaxPieces })
            \cup (IF j \in Unruly THEN Torn(1, Delimiters + 1) \cup Torn(2, Delimiters + 1) ELSE {})
DelimitersIn(line) ==
  LET upTo == pieces[line.job]
  IN IF line.piece = 1 THEN upTo[1] ELSE upTo[line.piece] - upTo[line.piece - 1]

(* The command asks from Slack before the chunk on. Sacct takes a job for  *)
(* one of the interval when its own idea of the end is, which may be some  *)
(* minutes before the end or after it.                                     *)
GetPatchedSacctCmd(c) == [from |-> Lower(c) - Slack, to |-> Upper(c)]
Selected(c) ==
  LET cmd == GetPatchedSacctCmd(c)
  IN { j \in SacctJobs : end[j] - late[j] >= cmd.from /\ end[j] - late[j] <= cmd.to }

SacctInit ==
  /\ end \in [SacctJobs -> 0 .. LastSecond + 1]
  /\ late \in [SacctJobs -> Offsets]
  /\ pieces \in { f \in [SacctJobs -> UNION { Lines(j) : j \in SacctJobs }] : \A j \in SacctJobs : f[j] \in Lines(j) }
  /\ chunk = 0
  /\ toList = Selected(0)
  /\ lines = <<>> /\ joined = <<>> /\ count = 0
  /\ printed = <<>> /\ failed = {}

(* The line of a job, piece by piece.                                      *)
Whole(j) == [i \in DOMAIN pieces[j] |-> [job |-> j, piece |-> i]]

(* Sacct writes a job's line, with its breaks, into the pipe.              *)
List(j) ==
  /\ j \in toList /\ lines = <<>>
  /\ toList' = toList \ {j}
  /\ lines' = Whole(j)
  /\ UNCHANGED <<end, late, pieces, chunk, joined, count, printed, failed>>

(* One closed interval after the other: `end in interval`.                 *)
InInterval(t, c) == Lower(c) <= t /\ t <= Upper(c)

NextCall ==
  /\ joined' = <<>> /\ count' = 0 /\ lines' = <<>>
  /\ chunk' = chunk + 1
  /\ toList' = IF chunk + 1 \in Chunks THEN Selected(chunk + 1) ELSE {}
  /\ UNCHANGED <<end, late, pieces, printed>>

(* A failure ends the call.                                                *)
Fails(by) == NextCall /\ failed' = failed \cup {[chunk |-> chunk, by |-> by]}
Raise == Fails("wrapper")

(* A line is printed if its last column says so. In a line that is not of  *)
(* one job, and in one whose name has a delimiter, the columns are not the *)
(* header's: what format_line takes for a date may be none, and it raises, *)
(* or it is one and the line goes through. A batch is only a delay.        *)
Filter(line, left, leftCount) ==
  LET j == Last(line).job
  IN \/ (line # Whole(j) \/ Last(pieces[j]) > Delimiters) /\ Raise
     \/ /\ Last(line).piece = Len(pieces[j])
        /\ printed' = IF InInterval(end[j], chunk) THEN Append(printed, line) ELSE printed
        /\ joined' = left /\ count' = leftCount /\ lines' = Tail(lines)
        /\ UNCHANGED <<chunk, toList, failed>>

Join(line, delimiters) ==
  /\ joined' = Append(joined, line) /\ count' = count + delimiters /\ lines' = Tail(lines)
  /\ UNCHANGED <<chunk, toList, printed, failed>>

(* get_sacct_lines, one line of the pipe at a time.                        *)
GetSacctLinesUnreset ==   \* mutant: what is left of the line before stays
  /\ lines # <<>>
  /\ LET line == Head(lines)
         delimiters == DelimitersIn(line)
     IN \/ delimiters >= Delimiters /\ Filter(<<line>>, joined, count)
        \/ /\ delimiters < Delimiters
           /\ \/ count + delimiters = Delimiters /\ Filter(Append(joined, line), joined, count)
              \/ count + delimiters < Delimiters /\ Join(line, delimiters)
              \/ count + delimiters > Delimiters /\ Raise
  /\ UNCHANGED <<end, late, pieces>>

GetSacctLines ==
  /\ lines # <<>>
  /\ LET line == Head(lines)
         delimiters == DelimitersIn(line)
     IN \/ delimiters >= Delimiters /\ Filter(<<line>>, joined, count)
        \/ /\ delimiters < Delimiters
           /\ \/ count + delimiters = Delimiters /\ Filter(Append(joined, line), <<>>, 0)
              \/ count + delimiters < Delimiters /\ Join(line, delimiters)
              \/ count + delimiters > Delimiters /\ Raise
  /\ UNCHANGED <<end, late, pieces>>

(* The pipe ends; half a line at its end is dropped.                       *)
Finish ==
  /\ chunk \in Chunks /\ toList = {} /\ lines = <<>>
  /\ NextCall
  /\ UNCHANGED failed

(* Sacct fails at any point: its exit status becomes the wrapper's.        *)
SacctFails == chunk \in Chunks /\ Fails("sacct")

Done == chunk \notin Chunks /\ UNCHANGED sacctVars

SacctNext == (\E j \in SacctJobs : List(j)) \/ GetSacctLines \/ Finish \/ SacctFails \/ Done

SacctSpec == SacctInit /\ [][SacctNext]_sacctVars

-----------------------------------------------------------------------------
(* While no name has the delimiter in it, the chunks of a backfill that    *)
(* did not fail have, between them, each job that ended in one of them and *)
(* whose end sacct puts no further back than the slack exactly once and in *)
(* one piece, whatever line breaks its name has, and however sacct reckons *)
(* with the ends of the others; and no job that ended in none of them. And *)
(* a call only fails when sacct does.                                      *)
Tame == \A j \in SacctJobs : Last(pieces[j]) = Delimiters
WithinSlack(j) == 0 <= late[j] /\ late[j] <= Slack

EveryJobInOneChunk ==
  Tame =>
    /\ \A line \in Range(printed) : \E j \in SacctJobs : line = Whole(j) /\ end[j] <= LastSecond
    /\ IsInjective(printed)
    /\ chunk \notin Chunks =>
         \A j \in SacctJobs, c \in Chunks \ { f.chunk : f \in failed } :
           WithinSlack(j) /\ InInterval(end[j], c) => Whole(j) \in Range(printed)
    /\ \A f \in failed : f.by = "sacct"
=============================================================================
