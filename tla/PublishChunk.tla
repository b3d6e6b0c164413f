---------------------------- MODULE PublishChunk ----------------------------
(***************************************************************************)
(* publish_chunk of src/l9gpu/monitoring/cli/sacct_backfill.py: one chunk, *)
(* published by two child processes joined by a pipe, `l9gpu fsacct` that  *)
(* writes one record per job and publish_cmd that reads them.              *)
(*                                                                         *)
(* The caller waits for the first and then for the second, each with a     *)
(* timeout, logs "Failed to publish" for a chunk that failed, and leaves   *)
(* through the two `with Popen` blocks, which wait without one. At the     *)
(* same time the SIGCHLD handler of the module, which runs in the main     *)
(* thread of the process, collects every child that has ended. When it     *)
(* gets to a child before Popen does, Popen finds no such child and takes  *)
(* its exit status to be 0.                                                *)
(*                                                                         *)
(* The caller holds the read end of the pipe until fsacct is gone, so a    *)
(* writer whose reader has died fills the pipe and blocks: it gets no      *)
(* SIGPIPE.                                                                *)
(***************************************************************************)
EXTENDS Integers, FiniteSets

CONSTANTS
  MaxRecords,  (* bound: the most records a chunk has        *)
  PipeCap      (* records the pipe holds                     *)

ASSUME MaxRecordsAssumption == MaxRecords \in Nat
ASSUME PipeCapAssumption == PipeCap \in Nat \ {0}

VARIABLES
  nrecords,    (* the records sacct has for the chunk                      *)
  caller,      (* "waitSacct" | "waitPublish" | "exitPublish"              *)
               (*   | "exitSacct" | "returned"                             *)
  proc,        (* each child: "running" | "zombie" | "gone" (collected)    *)
  status,      (* the exit status of each child that has ended             *)
  returncode,  (* Popen.returncode of each child, NotSet before it is set  *)
  termed,      (* the children a SIGTERM was sent to                       *)
  sigchld,     (* whether a SIGCHLD waits for the main thread              *)
  written,     (* records fsacct has written to the pipe                   *)
  taken,       (* records publish_cmd has read off it                      *)
  logged,      (* whether "Failed to publish" was logged for the chunk     *)
  masked,      (* history: the children the handler collected              *)
  swallowed    (* history: whether publish_cmd swallowed a failure         *)

childVars == <<proc, status, returncode, termed, sigchld, masked>>
vars == <<nrecords, caller, childVars, written, taken, logged, swallowed>>

Child == {"sacct", "publish"}
NotSet == 2
Ok == 0
Failed == 1

Init ==
  /\ nrecords \in 0 .. MaxRecords
  /\ caller = "waitSacct"
  /\ proc = [c \in Child |-> "running"]
  /\ status = [c \in Child |-> Ok]
  /\ returncode = [c \in Child |-> NotSet]
  /\ termed = {}
  /\ sigchld = FALSE
  /\ written = 0 /\ taken = 0
  /\ logged = FALSE
  /\ masked = {} /\ swallowed = FALSE

-----------------------------------------------------------------------------
(* The children. *)

Ends(c, s) ==
  /\ proc[c] = "running"
  /\ proc' = [proc EXCEPT ![c] = "zombie"]
  /\ status' = [status EXCEPT ![c] = s]
  /\ sigchld' = TRUE
  /\ UNCHANGED <<nrecords, caller, returncode, termed, written, taken, logged, masked>>

(* A child that ends with the status it has earned. *)
EndsPlainly(c, s) == Ends(c, s) /\ UNCHANGED swallowed

SacctWrites ==
  /\ proc["sacct"] = "running"
  /\ written < nrecords /\ written - taken < PipeCap
  /\ written' = written + 1
  /\ UNCHANGED <<nrecords, caller, childVars, taken, logged, swallowed>>

SacctSucceeds == written = nrecords /\ EndsPlainly("sacct", Ok)

(* slurmdbd is down or too slow, an option is refused, ... *)
SacctFails == EndsPlainly("sacct", Failed)

(* A read that does not wait for a record, for mutation testing. *)
PublishReadsAnyway ==
  /\ proc["publish"] = "running"
  /\ taken' = taken + 1
  /\ UNCHANGED <<nrecords, caller, childVars, written, logged, swallowed>>

PublishReads ==
  /\ proc["publish"] = "running"
  /\ taken < written
  /\ taken' = taken + 1
  /\ UNCHANGED <<nrecords, caller, childVars, written, logged, swallowed>>

(* End of file: the pipe is empty and its only writer has ended. *)
PublishSucceeds ==
  /\ proc["sacct"] # "running" /\ taken = written
  /\ EndsPlainly("publish", Ok)

(* sacct_publish --chunk-size 0 hands the generator of its records to the    *)
(* sink's write, inside log_error: a write that fails, or a line that cannot *)
(* be read, is logged and swallowed, and it exits 0 wherever it had got to.  *)
PublishGivesUp == Ends("publish", Ok) /\ swallowed' = TRUE

PublishFails == EndsPlainly("publish", Failed)

DiesOfSigterm(c) == c \in termed /\ EndsPlainly(c, Failed)

-----------------------------------------------------------------------------
(* reap_children: while os.waitpid(-1, os.WNOHANG)[0] > 0. *)
ReapChildren ==
  LET zombies == { c \in Child : proc[c] = "zombie" } IN
  /\ sigchld
  /\ sigchld' = FALSE
  /\ proc' = [c \in Child |-> IF c \in zombies THEN "gone" ELSE proc[c]]
  /\ masked' = masked \cup zombies
  /\ UNCHANGED <<nrecords, caller, status, returncode, termed, written, taken, logged, swallowed>>

(* Popen's waitpid(pid) for a child: its exit status when it is there to be  *)
(* collected, 0 when it was collected elsewhere, nothing while it runs.      *)
Waitpid(c) ==
  IF returncode[c] # NotSet \/ proc[c] = "running" THEN returncode[c]
  ELSE IF proc[c] = "zombie" THEN status[c] ELSE Ok

Collect(cs) ==
  /\ returncode' = [c \in Child |-> IF c \in cs THEN Waitpid(c) ELSE returncode[c]]
  /\ proc' = [c \in Child |->
                IF c \in cs /\ proc[c] = "zombie" THEN "gone" ELSE proc[c]]

(* Popen.terminate polls each child and signals those that still run. *)
Terminate(cs) ==
  /\ Collect(cs)
  /\ termed' = termed \cup { c \in cs : proc[c] = "running" }

-----------------------------------------------------------------------------
(* publish_chunk. *)

(* A caller that does not look at the exit status, for mutation testing. *)
SacctWaitedUnchecked ==
  /\ caller = "waitSacct" /\ Waitpid("sacct") # NotSet
  /\ Collect({"sacct"})
  /\ caller' = "waitPublish"
  /\ UNCHANGED <<nrecords, status, termed, sigchld, written, taken, logged, masked, swallowed>>

(* sacct_proc.wait returns; the caller closes its end of the pipe. *)
SacctWaited ==
  /\ caller = "waitSacct" /\ Waitpid("sacct") # NotSet
  /\ Collect({"sacct"})
  /\ IF Waitpid("sacct") = Ok
       THEN caller' = "waitPublish" /\ logged' = logged
       ELSE caller' = "exitPublish" /\ logged' = TRUE
  /\ UNCHANGED <<nrecords, status, termed, sigchld, written, taken, masked, swallowed>>

(* A timeout that is never set, for mutation testing. *)
SacctNeverTimesOut == FALSE /\ UNCHANGED vars

(* The poll may have been just before the child ended. *)
SacctTimesOut ==
  /\ caller = "waitSacct"
  /\ Terminate(Child)
  /\ caller' = "exitPublish"
  /\ logged' = TRUE
  /\ UNCHANGED <<nrecords, status, sigchld, written, taken, masked, swallowed>>

PublishWaited ==
  /\ caller = "waitPublish" /\ Waitpid("publish") # NotSet
  /\ Collect({"publish"})
  /\ caller' = "exitPublish"
  /\ logged' = (Waitpid("publish") # Ok)
  /\ UNCHANGED <<nrecords, status, termed, sigchld, written, taken, masked, swallowed>>

PublishTimesOut ==
  /\ caller = "waitPublish"
  /\ Terminate({"publish"})
  /\ caller' = "exitPublish"
  /\ logged' = TRUE
  /\ UNCHANGED <<nrecords, status, sigchld, written, taken, masked, swallowed>>

(* An exit that does not wait, for mutation testing. *)
LeaveAtOnce(c, from, to) ==
  /\ caller = from
  /\ caller' = to
  /\ UNCHANGED <<nrecords, childVars, written, taken, logged, swallowed>>

(* Popen.__exit__: wait() without a timeout. *)
Leave(c, from, to) ==
  /\ caller = from /\ Waitpid(c) # NotSet
  /\ Collect({c})
  /\ caller' = to
  /\ UNCHANGED <<nrecords, status, termed, sigchld, written, taken, logged, masked, swallowed>>

LeavePublish == Leave("publish", "exitPublish", "exitSacct")
LeaveSacct == Leave("sacct", "exitSacct", "returned")

Caller ==
  \/ SacctWaited \/ SacctTimesOut
  \/ PublishWaited \/ PublishTimesOut
  \/ LeavePublish \/ LeaveSacct

Sacct == SacctWrites \/ SacctSucceeds \/ SacctFails
Publish == PublishReads \/ PublishSucceeds \/ PublishGivesUp \/ PublishFails

Next ==
  \/ Caller
  \/ ReapChildren
  \/ Sacct
  \/ Publish
  \/ \E c \in Child : DiesOfSigterm(c)

(* The caller goes on, a timeout included; the main thread runs its signal   *)
(* handlers; a child that is sent SIGTERM dies.                              *)
CallerFairness ==
  /\ WF_vars(Caller) /\ WF_vars(ReapChildren)
  /\ \A c \in Child : WF_vars(DiesOfSigterm(c))

(* Moreover publish_cmd does not hang: it reads what comes, up to the end. *)
PublishFairness == WF_vars(PublishReads) /\ WF_vars(PublishSucceeds)

Spec == Init /\ [][Next]_vars
HangSpec == Spec /\ CallerFairness
FairSpec == HangSpec /\ PublishFairness

-----------------------------------------------------------------------------
TypeOK ==
  /\ nrecords \in 0 .. MaxRecords
  /\ caller \in {"waitSacct", "waitPublish", "exitPublish", "exitSacct", "returned"}
  /\ proc \in [Child -> {"running", "zombie", "gone"}]
  /\ status \in [Child -> {Ok, Failed}]
  /\ returncode \in [Child -> {Ok, Failed, NotSet}]
  /\ termed \subseteq Child /\ masked \subseteq Child
  /\ sigchld \in BOOLEAN
  /\ taken \in 0 .. nrecords /\ written \in taken .. nrecords
  /\ logged \in BOOLEAN /\ swallowed \in BOOLEAN

(* A chunk nothing was logged for is complete unless the SIGCHLD handler     *)
(* took a child's exit status: publish_cmd has read every record sacct has,  *)
(* or it swallowed a failure of its own, and then what it left unread fits   *)
(* in the pipe (with more, fsacct would block and time out, lines 606-612).  *)
(* This is how far "failures are on STDERR" is a sound base for retrying.    *)
QuietChunkIsComplete ==
  caller = "returned" /\ ~ logged /\ masked = {} =>
    /\ nrecords - taken <= PipeCap
    /\ ~ swallowed => taken = nrecords

(* publish_chunk leaves no child behind, on any of its paths: neither one    *)
(* that still runs nor a zombie (the two `with` blocks, lines 577-605).      *)
NoChildLeft == caller = "returned" => \A c \in Child : proc[c] = "gone"

(* publish_chunk returns even when publish_cmd dies early and fsacct blocks  *)
(* on a pipe nobody reads: the sacct timeout is what ends it.                *)
ChunkEnds == <>(caller = "returned")

(* "Chunks which fail log an error to STDERR" (docstring of `new`, line      *)
(* 360): a chunk one of whose processes failed is logged.                    *)
FailedChunkIsLogged ==
  caller = "returned" /\ (\E c \in Child : status[c] = Failed) => logged

(* --publish-timeout is the "number of seconds to wait for each              *)
(* `sacct_publish` call to exit" (line 117): the caller does not wait for    *)
(* ever for a publish_cmd that hangs.                                        *)
PublishWaitIsBounded == <>(caller = "returned")
=============================================================================
