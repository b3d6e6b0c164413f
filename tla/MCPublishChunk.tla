---------------------------- MODULE MCPublishChunk ----------------------------
(***************************************************************************)
(* One chunk of a backfill, child process by child process, or, with that  *)
(* as one step, several backfills that wait for each other before and      *)
(* after each chunk: a behaviour is one of either.                         *)
(***************************************************************************)
EXTENDS PublishChunk, Rendezvous

VARIABLE part

(* The backfills of the other case are all killed.                         *)
NobodyMeets ==
  /\ concurrently = [p \in Processes |-> 1] /\ skew = [p \in Processes |-> 0]
  /\ at = [p \in Processes |-> [c \in 1 .. NumChunks |-> "queued"]]
  /\ killed = Processes /\ life = [p \in Processes |-> 0]
  /\ waiting = [k \in Keys |-> {}] /\ broken = {} /\ tried = {}
NoChunk ==
  /\ nrecords = 0 /\ caller = "returned" /\ proc = [c \in Child |-> "gone"]
  /\ status = [c \in Child |-> Ok] /\ returncode = [c \in Child |-> Ok]
  /\ termed = {} /\ sigchld = FALSE /\ written = 0 /\ taken = 0
  /\ logged = FALSE /\ masked = {} /\ swallowed = FALSE

(* A step of the one case or of the other.                                 *)
OneChunk == part = "chunk" /\ UNCHANGED <<part, meetVars>>
Meeting == part = "meet" /\ UNCHANGED <<part, vars>>

MCInit == \/ part = "chunk" /\ Init /\ NobodyMeets
          \/ part = "meet" /\ NoChunk /\ MeetInit
MCNext == (OneChunk /\ Next) \/ (Meeting /\ MeetNext)

allVars == <<part, vars, meetVars>>
ChunkFairness ==
  /\ WF_allVars(OneChunk /\ Caller) /\ WF_allVars(OneChunk /\ ReapChildren)
  /\ \A c \in Child : WF_allVars(OneChunk /\ DiesOfSigterm(c))
  /\ WF_allVars(OneChunk /\ PublishReads) /\ WF_allVars(OneChunk /\ PublishSucceeds)
ServerFairness ==
  /\ \A p \in Processes : WF_allVars(Meeting /\ Step(p))
  /\ \A k \in Keys : WF_allVars(Meeting /\ TimesOut(k))
MCSpec == MCInit /\ [][MCNext]_allVars /\ ChunkFairness /\ ServerFairness
===============================================================================
