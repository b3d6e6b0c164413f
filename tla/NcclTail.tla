-------------------------------- MODULE NcclTail -------------------------------
(***************************************************************************)
(* The monitor of NCCL's log: every push interval, tail_and_parse of       *)
(* nccl_monitor.py reads what the log has beyond the position of the last  *)
(* read, and main of cli/nccl_monitor.py writes the records to a sink. The *)
(* training job writes the log as it likes, a record in one go or in two,  *)
(* and may start it anew.                                                  *)
(***************************************************************************)
EXTENDS Integers, Sequences, Functions

CONSTANTS NumRecords,      \* bound: the records of all training jobs
          MaxTruncations,  \* bound: how often the log is started anew
          MaxLives         \* bound: how often the monitor is started

VARIABLES written,     \* halves of records written so far, to this log or an older one
          start,       \* those of older ones: the log has the halves from there on
          truncations,
          tailPc,      \* of the monitor
          position,    \* file_position
          records,     \* metrics_list
          emitted,     \* records the sink has taken, in this life of the monitor
          torn,        \* records of which a read saw the first half only
          behind,      \* the log was started anew in this life
          lives

ncclVars == <<written, start, truncations, tailPc, position, records, emitted, torn, behind, lives>>

ASSUME NcclAssumption == NumRecords \in Nat

NcclInit ==
  /\ written = 0 /\ start = 0 /\ truncations = 0
  /\ tailPc = "sleeping" /\ position = 0 /\ records = <<>>
  /\ emitted = <<>> /\ torn = {} /\ behind = FALSE /\ lives = 1

(* NCCL Inspector writes on: record r is the halves 2r - 1 and 2r.         *)
Write ==
  /\ written < 2 * NumRecords
  /\ written' = written + 1
  /\ UNCHANGED <<start, truncations, tailPc, position, records, emitted, torn, behind, lives>>

(* Another training job, or a rotation, starts the log anew.               *)
Size == written - start
Truncate ==
  /\ truncations < MaxTruncations /\ written % 2 = 0 /\ Size > 0
  /\ truncations' = truncations + 1
  /\ start' = written
  /\ behind' = TRUE
  /\ UNCHANGED <<written, tailPc, position, records, emitted, torn, lives>>

(* The lines beyond the position; half a record is a line that json.loads  *)
(* refuses, whichever half it is.                                          *)
Until(pos) == start + pos
WholeRecords(pos) ==
  LET read == (Until(pos) + 1) \div 2   \* the records of which a half was read before
  IN [n \in 1 .. written \div 2 - read |-> read + n]

(* fh.tell() after the last line, which is the position itself when that   *)
(* is beyond the end.                                                      *)
NewPositionKept(pos) == pos    \* mutant: the position is not taken over
NewPosition(pos) == IF pos > Size THEN pos ELSE Size

TailAndParse ==
  /\ tailPc = "sleeping"
  /\ records' = WholeRecords(position)
  /\ position' = NewPosition(position)
  /\ torn' = IF Size > position /\ written % 2 = 1 THEN torn \cup {written \div 2 + 1} ELSE torn
  /\ tailPc' = "read"
  /\ UNCHANGED <<written, start, truncations, emitted, behind, lives>>

(* The log is not there, or cannot be read: the position stays.            *)
CannotRead ==
  /\ tailPc = "sleeping"
  /\ records' = <<>> /\ tailPc' = "read"
  /\ UNCHANGED <<written, start, truncations, position, emitted, torn, behind, lives>>

SinkWrite ==
  /\ tailPc = "read"
  /\ emitted' = emitted \o records
  /\ tailPc' = "sleeping"
  /\ UNCHANGED <<written, start, truncations, position, records, torn, behind, lives>>

(* An exception of the sink, or a signal, is the end of the monitor; there *)
(* is nothing to write when there are no records.                          *)
Die ==
  /\ tailPc = "sleeping" \/ (tailPc = "read" /\ records # <<>>)
  /\ tailPc' = "dead"
  /\ UNCHANGED <<written, start, truncations, position, records, emitted, torn, behind, lives>>

(* The position is nowhere on disk: a new monitor reads the log again.     *)
Restart ==
  /\ tailPc = "dead" /\ lives < MaxLives
  /\ lives' = lives + 1
  /\ tailPc' = "sleeping" /\ position' = 0 /\ records' = <<>>
  /\ emitted' = <<>> /\ torn' = {} /\ behind' = FALSE
  /\ UNCHANGED <<written, start, truncations>>

Idle == tailPc = "dead" /\ lives = MaxLives /\ UNCHANGED ncclVars

NcclNext == Write \/ Truncate \/ TailAndParse \/ CannotRead \/ SinkWrite \/ Die \/ Restart \/ Idle

NcclSpec == NcclInit /\ [][NcclNext]_ncclVars

-----------------------------------------------------------------------------
(* In one life of the monitor, no record is emitted twice, whatever        *)
(* becomes of the log; and none that lies before the position is missing,  *)
(* unless the log was started anew or a read fell between its two halves.  *)
EachRecordOnce ==
  /\ IsInjective(emitted \o (IF tailPc = "read" THEN records ELSE <<>>))
  /\ tailPc = "sleeping" /\ ~behind =>
       \A r \in 1 .. written :
         start < 2 * r /\ 2 * r <= Until(position) => (r \in Range(emitted)) = (r \notin torn)
=============================================================================
