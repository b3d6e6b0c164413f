-------------------------- MODULE PublishChunkProofs --------------------------
(***************************************************************************)
(* Proofs about PublishChunk, for any number of records and any pipe:      *)
(* publish_chunk leaves no child behind, and a chunk it is quiet about is  *)
(* complete unless the SIGCHLD handler has taken an exit status, or        *)
(* publish_cmd has swallowed a failure: then what is missing fits in the   *)
(* pipe.                                                                   *)
(***************************************************************************)
EXTENDS PublishChunk, TLAPS

(* A return code is known of collected children only, and before a wait for  *)
(* a child it is not.                                                        *)
ReturnCodesAreOfTheGone ==
  /\ \A c \in Child : returncode[c] # NotSet => proc[c] = "gone"
  /\ caller = "waitSacct" => \A c \in Child : returncode[c] = NotSet
  /\ caller = "waitPublish" => returncode["publish"] = NotSet

(* Without the handler, only publish_chunk itself collects a child.          *)
GoneIsCollected ==
  \A c \in Child : proc[c] = "gone" => returncode[c] # NotSet \/ c \in masked

(* What an exit status of 0 says of the records.                             *)
OkSaysAllIsDone ==
  /\ proc["sacct"] # "running" /\ status["sacct"] = Ok => written = nrecords
  /\ proc["publish"] # "running" /\ status["publish"] = Ok /\ ~ swallowed =>
       taken = written /\ proc["sacct"] # "running"

(* The pipe holds what fsacct has written and publish_cmd has not read.      *)
PipeHolds == written - taken <= PipeCap

(* Each `with` block is left behind with its child collected.                *)
LeftIsGone ==
  /\ caller \in {"exitSacct", "returned"} => proc["publish"] = "gone"
  /\ caller = "returned" => proc["sacct"] = "gone"

(* While a child is waited for, nothing has been logged.                     *)
NothingLoggedYet == caller \in {"waitSacct", "waitPublish"} => ~ logged

(* How far a chunk nothing went wrong with has got.                          *)
QuietSoFar ==
  masked = {} /\ ~ logged =>
    /\ caller = "waitPublish" => written = nrecords /\ proc["sacct"] = "gone"
    /\ caller \in {"exitPublish", "exitSacct", "returned"} =>
         written = nrecords /\ (~ swallowed => taken = nrecords)

ChunkInv ==
  /\ TypeOK
  /\ ReturnCodesAreOfTheGone
  /\ GoneIsCollected
  /\ OkSaysAllIsDone
  /\ PipeHolds
  /\ LeftIsGone
  /\ NothingLoggedYet
  /\ QuietSoFar

-----------------------------------------------------------------------------
(* Nothing has ended at the start. *)
LEMMA ChunkInvInit == Init => ChunkInv
<1> SUFFICES ASSUME Init PROVE ChunkInv
  OBVIOUS
<1> USE DEF Init, Child, NotSet, Ok, Failed
<1>1. TypeOK
  <2>1. taken \in 0 .. nrecords /\ written \in taken .. nrecords
    BY MaxRecordsAssumption
  <2>2. QED
    BY <2>1 DEF TypeOK
<1>2. /\ \A c \in Child : proc[c] = "running" /\ returncode[c] = NotSet
      /\ caller = "waitSacct" /\ ~ logged
  OBVIOUS
<1>3. PipeHolds
  BY PipeCapAssumption DEF PipeHolds
<1>4. QED
  BY <1>1, <1>2, <1>3
  DEF ChunkInv, ReturnCodesAreOfTheGone, GoneIsCollected, OkSaysAllIsDone, LeftIsGone,
      NothingLoggedYet, QuietSoFar

(* A child that ends with s, which is 0 only when it has done its work.      *)
LEMMA EndsKeepsInv ==
  ASSUME ChunkInv, NEW c \in Child, NEW s \in {Ok, Failed}, Ends(c, s),
         s = Ok /\ c = "sacct" => written = nrecords,
         s = Ok /\ c = "publish" /\ ~ swallowed' =>
           taken = written /\ proc["sacct"] # "running",
         swallowed' \in BOOLEAN, swallowed => swallowed'
  PROVE  ChunkInv'
<1> USE DEF Ends, ChunkInv, Child, NotSet, Ok, Failed
<1>1. /\ proc[c] = "running" /\ proc'[c] = "zombie" /\ status'[c] = s
      /\ \A d \in Child \ {c} : proc'[d] = proc[d] /\ status'[d] = status[d]
  BY DEF TypeOK
<1>2. TypeOK'
  BY DEF TypeOK
<1>3. ReturnCodesAreOfTheGone' /\ GoneIsCollected'
  BY <1>1 DEF ReturnCodesAreOfTheGone, GoneIsCollected
<1>4. OkSaysAllIsDone'
  BY <1>1 DEF OkSaysAllIsDone
<1>5. LeftIsGone' /\ NothingLoggedYet' /\ QuietSoFar' /\ PipeHolds'
  BY <1>1 DEF LeftIsGone, NothingLoggedYet, QuietSoFar, PipeHolds
<1>6. QED
  BY <1>2, <1>3, <1>4, <1>5

(* What Popen's waitpid tells of a child, and what collecting it leaves.     *)
LEMMA WaitpidTells ==
  ASSUME ChunkInv, NEW c \in Child
  PROVE  /\ Waitpid(c) \in {Ok, Failed, NotSet}
         /\ Waitpid(c) = NotSet <=> proc[c] = "running"
         /\ returncode[c] # NotSet => Waitpid(c) = returncode[c]
         /\ proc[c] = "zombie" => Waitpid(c) = status[c]
  BY DEF ChunkInv, TypeOK, ReturnCodesAreOfTheGone, Waitpid, Child, NotSet, Ok, Failed

LEMMA CollectKeeps ==
  ASSUME ChunkInv, NEW cs \in SUBSET Child, Collect(cs),
         caller' # "waitSacct", caller' = "waitPublish" => "publish" \notin cs /\ returncode["publish"] = NotSet,
         UNCHANGED <<nrecords, status, written, taken, masked, swallowed>>
  PROVE  /\ returncode' \in [Child -> {Ok, Failed, NotSet}]
         /\ proc' \in [Child -> {"running", "zombie", "gone"}]
         /\ \A c \in Child : proc'[c] = "running" <=> proc[c] = "running"
         /\ \A c \in cs : proc[c] # "running" => proc'[c] = "gone"
         /\ \A c \in Child : proc[c] = "gone" => proc'[c] = "gone"
         /\ ReturnCodesAreOfTheGone' /\ GoneIsCollected' /\ OkSaysAllIsDone' /\ PipeHolds'
<1>1. \A c \in Child :
        /\ returncode'[c] = (IF c \in cs THEN Waitpid(c) ELSE returncode[c])
        /\ proc'[c] = (IF c \in cs /\ proc[c] = "zombie" THEN "gone" ELSE proc[c])
  BY DEF Collect
<1>2. /\ returncode' \in [Child -> {Ok, Failed, NotSet}]
      /\ proc' \in [Child -> {"running", "zombie", "gone"}]
  BY WaitpidTells DEF Collect, ChunkInv, TypeOK
<1>3. \A c \in Child : proc[c] \in {"running", "zombie", "gone"}
  BY DEF ChunkInv, TypeOK
<1>4. /\ \A c \in Child : proc'[c] = "running" <=> proc[c] = "running"
      /\ \A c \in cs : proc[c] # "running" => proc'[c] = "gone"
      /\ \A c \in Child : proc[c] = "gone" => proc'[c] = "gone"
  BY <1>1, <1>3
<1>5. ReturnCodesAreOfTheGone'
  BY <1>1, <1>3, <1>4, WaitpidTells DEF ChunkInv, ReturnCodesAreOfTheGone, Child
<1>6. GoneIsCollected'
  BY <1>1, <1>3, <1>4, WaitpidTells DEF ChunkInv, GoneIsCollected
<1>7. OkSaysAllIsDone'
  BY <1>4 DEF ChunkInv, OkSaysAllIsDone, Child
<1>8. PipeHolds'
  BY DEF ChunkInv, PipeHolds
<1>9. QED
  BY <1>2, <1>4, <1>5, <1>6, <1>7, <1>8

(* The handler's children are in masked, so QuietSoFar has nothing to say.   *)
LEMMA ReapKeepsInv == ChunkInv /\ ReapChildren => ChunkInv'
<1> SUFFICES ASSUME ChunkInv, ReapChildren PROVE ChunkInv'
  OBVIOUS
<1> DEFINE zombies == { c \in Child : proc[c] = "zombie" }
<1>1. /\ proc' = [c \in Child |-> IF c \in zombies THEN "gone" ELSE proc[c]]
      /\ masked' = masked \cup zombies /\ sigchld' = FALSE
      /\ UNCHANGED <<nrecords, caller, status, returncode, termed, written, taken, logged, swallowed>>
  BY DEF ReapChildren
<1>2. \A c \in Child : /\ proc'[c] = (IF proc[c] = "zombie" THEN "gone" ELSE proc[c])
                       /\ proc[c] \in {"running", "zombie", "gone"}
  BY <1>1 DEF ChunkInv, TypeOK
<1>3. zombies \subseteq Child
  OBVIOUS
<1>4. TypeOK'
  BY <1>1, <1>3 DEF ChunkInv, TypeOK
<1>5. ReturnCodesAreOfTheGone' /\ GoneIsCollected'
  BY <1>1, <1>2 DEF ChunkInv, ReturnCodesAreOfTheGone, GoneIsCollected
<1>6. OkSaysAllIsDone' /\ LeftIsGone' /\ NothingLoggedYet' /\ QuietSoFar' /\ PipeHolds'
  BY <1>1, <1>2
  DEF ChunkInv, OkSaysAllIsDone, LeftIsGone, NothingLoggedYet, QuietSoFar, PipeHolds, Child
<1>7. QED
  BY <1>4, <1>5, <1>6 DEF ChunkInv

(* Each step keeps the invariant. *)
LEMMA ChunkInvNext == ChunkInv /\ [Next]_vars => ChunkInv'
<1> SUFFICES ASSUME ChunkInv, [Next]_vars PROVE ChunkInv'
  OBVIOUS
<1>0. "sacct" \in Child /\ "publish" \in Child /\ Child = {"sacct", "publish"}
  BY DEF Child
<1>1. CASE SacctWaited
  <2>1. /\ caller = "waitSacct" /\ Collect({"sacct"}) /\ proc["sacct"] # "running"
        /\ caller' = (IF Waitpid("sacct") = Ok THEN "waitPublish" ELSE "exitPublish")
        /\ logged' = (IF Waitpid("sacct") = Ok THEN logged ELSE TRUE)
        /\ UNCHANGED <<nrecords, status, termed, sigchld, written, taken, masked, swallowed>>
    BY <1>0, <1>1, WaitpidTells DEF SacctWaited
  <2>2. returncode["publish"] = NotSet /\ returncode["sacct"] = NotSet
    BY <1>0, <2>1 DEF ChunkInv, ReturnCodesAreOfTheGone
  <2>3. /\ proc'["sacct"] = "gone"
        /\ returncode' \in [Child -> {Ok, Failed, NotSet}]
        /\ proc' \in [Child -> {"running", "zombie", "gone"}]
        /\ ReturnCodesAreOfTheGone' /\ GoneIsCollected' /\ OkSaysAllIsDone' /\ PipeHolds'
    BY <1>0, <2>1, <2>2, CollectKeeps
  <2>4. TypeOK'
    BY <2>1, <2>3 DEF ChunkInv, TypeOK
  <2>5. LeftIsGone' /\ NothingLoggedYet'
    BY <2>1 DEF LeftIsGone, NothingLoggedYet, ChunkInv
  <2>6. QuietSoFar'
    <3>1. SUFFICES ASSUME masked = {}, caller' = "waitPublish" PROVE written = nrecords
      BY <2>1, <2>3 DEF QuietSoFar
    <3>2. proc["sacct"] = "zombie"
      BY <1>0, <2>1, <2>2, <3>1 DEF ChunkInv, TypeOK, GoneIsCollected
    <3>3. status["sacct"] = Ok
      BY <1>0, <2>1, <3>1, <3>2, WaitpidTells
    <3>4. QED
      BY <3>2, <3>3 DEF ChunkInv, OkSaysAllIsDone
  <2>7. QED
    BY <2>3, <2>4, <2>5, <2>6 DEF ChunkInv
<1>2. CASE SacctTimesOut
  <2>1. /\ caller = "waitSacct" /\ Collect(Child) /\ caller' = "exitPublish" /\ logged' = TRUE
        /\ termed' \subseteq Child
        /\ UNCHANGED <<nrecords, status, sigchld, written, taken, masked, swallowed>>
    BY <1>2 DEF SacctTimesOut, Terminate, ChunkInv, TypeOK
  <2>2. /\ returncode' \in [Child -> {Ok, Failed, NotSet}]
        /\ proc' \in [Child -> {"running", "zombie", "gone"}]
        /\ ReturnCodesAreOfTheGone' /\ GoneIsCollected' /\ OkSaysAllIsDone' /\ PipeHolds'
    BY <2>1, CollectKeeps
  <2>3. TypeOK'
    BY <2>1, <2>2 DEF ChunkInv, TypeOK
  <2>4. LeftIsGone' /\ NothingLoggedYet' /\ QuietSoFar'
    BY <2>1 DEF LeftIsGone, NothingLoggedYet, QuietSoFar
  <2>5. QED
    BY <2>2, <2>3, <2>4 DEF ChunkInv
<1>3. CASE PublishWaited
  <2>1. /\ caller = "waitPublish" /\ Collect({"publish"}) /\ proc["publish"] # "running"
        /\ caller' = "exitPublish" /\ logged' = (Waitpid("publish") # Ok)
        /\ UNCHANGED <<nrecords, status, termed, sigchld, written, taken, masked, swallowed>>
    BY <1>0, <1>3, WaitpidTells DEF PublishWaited
  <2>2. /\ returncode' \in [Child -> {Ok, Failed, NotSet}]
        /\ proc' \in [Child -> {"running", "zombie", "gone"}]
        /\ ReturnCodesAreOfTheGone' /\ GoneIsCollected' /\ OkSaysAllIsDone' /\ PipeHolds'
    BY <1>0, <2>1, CollectKeeps
  <2>3. TypeOK'
    BY <2>1, <2>2 DEF ChunkInv, TypeOK
  <2>4. LeftIsGone' /\ NothingLoggedYet'
    BY <2>1 DEF LeftIsGone, NothingLoggedYet
  <2>5. QuietSoFar'
    <3>1. SUFFICES ASSUME masked = {}, Waitpid("publish") = Ok
                   PROVE  written = nrecords /\ (~ swallowed => taken = nrecords)
      BY <2>1 DEF QuietSoFar
    <3>2. proc["publish"] = "zombie"
      BY <1>0, <2>1, <3>1 DEF ChunkInv, TypeOK, GoneIsCollected, ReturnCodesAreOfTheGone
    <3>3. status["publish"] = Ok
      BY <1>0, <3>1, <3>2, WaitpidTells
    <3>4. ~ swallowed => taken = written
      BY <3>2, <3>3 DEF ChunkInv, OkSaysAllIsDone
    <3>5. written = nrecords
      BY <2>1, <3>1 DEF ChunkInv, NothingLoggedYet, QuietSoFar
    <3>6. QED
      BY <3>4, <3>5
  <2>6. QED
    BY <2>2, <2>3, <2>4, <2>5 DEF ChunkInv
<1>4. CASE PublishTimesOut
  <2>1. /\ caller = "waitPublish" /\ Collect({"publish"}) /\ caller' = "exitPublish" /\ logged' = TRUE
        /\ termed' \subseteq Child
        /\ UNCHANGED <<nrecords, status, sigchld, written, taken, masked, swallowed>>
    BY <1>0, <1>4 DEF PublishTimesOut, Terminate, ChunkInv, TypeOK
  <2>2. /\ returncode' \in [Child -> {Ok, Failed, NotSet}]
        /\ proc' \in [Child -> {"running", "zombie", "gone"}]
        /\ ReturnCodesAreOfTheGone' /\ GoneIsCollected' /\ OkSaysAllIsDone' /\ PipeHolds'
    BY <1>0, <2>1, CollectKeeps
  <2>3. TypeOK'
    BY <2>1, <2>2 DEF ChunkInv, TypeOK
  <2>4. LeftIsGone' /\ NothingLoggedYet' /\ QuietSoFar'
    BY <2>1 DEF LeftIsGone, NothingLoggedYet, QuietSoFar
  <2>5. QED
    BY <2>2, <2>3, <2>4 DEF ChunkInv
<1>5. CASE LeavePublish \/ LeaveSacct
  <2>1. PICK c \in Child :
          /\ Collect({c}) /\ proc[c] # "running"
          /\ \/ c = "publish" /\ caller = "exitPublish" /\ caller' = "exitSacct"
             \/ c = "sacct" /\ caller = "exitSacct" /\ caller' = "returned"
          /\ UNCHANGED <<nrecords, status, termed, sigchld, written, taken, logged, masked, swallowed>>
    BY <1>0, <1>5, WaitpidTells DEF LeavePublish, LeaveSacct, Leave
  <2>2. /\ returncode' \in [Child -> {Ok, Failed, NotSet}]
        /\ proc' \in [Child -> {"running", "zombie", "gone"}]
        /\ \A d \in Child : proc[d] = "gone" => proc'[d] = "gone"
        /\ proc'[c] = "gone"
        /\ ReturnCodesAreOfTheGone' /\ GoneIsCollected' /\ OkSaysAllIsDone' /\ PipeHolds'
    BY <2>1, CollectKeeps
  <2>3. TypeOK'
    BY <2>1, <2>2 DEF ChunkInv, TypeOK
  <2>4. LeftIsGone'
    BY <1>0, <2>1, <2>2 DEF ChunkInv, LeftIsGone
  <2>5. NothingLoggedYet' /\ QuietSoFar'
    BY <2>1 DEF ChunkInv, NothingLoggedYet, QuietSoFar
  <2>6. QED
    BY <2>2, <2>3, <2>4, <2>5 DEF ChunkInv
<1>6. CASE ReapChildren
  BY <1>6, ReapKeepsInv
<1>7. CASE SacctWrites \/ PublishReads
  <2>1. /\ \/ SacctWrites /\ written' = written + 1 /\ written < nrecords /\ taken' = taken
           \/ PublishReads /\ taken' = taken + 1 /\ taken < written /\ written' = written
        /\ UNCHANGED <<nrecords, caller, proc, status, returncode, termed, sigchld, masked, logged, swallowed>>
    BY <1>7 DEF SacctWrites, PublishReads, childVars
  <2>2. TypeOK'
    BY <2>1 DEF ChunkInv, TypeOK
  <2>3. ReturnCodesAreOfTheGone' /\ GoneIsCollected' /\ LeftIsGone' /\ NothingLoggedYet'
    BY <2>1 DEF ChunkInv, ReturnCodesAreOfTheGone, GoneIsCollected, LeftIsGone, NothingLoggedYet
  <2>4. OkSaysAllIsDone' /\ QuietSoFar'
    BY <2>1 DEF ChunkInv, TypeOK, OkSaysAllIsDone, QuietSoFar, SacctWrites, PublishReads
  <2>5. PipeHolds'
    BY <2>1, PipeCapAssumption DEF ChunkInv, TypeOK, PipeHolds, SacctWrites
  <2>6. QED
    BY <2>2, <2>3, <2>4, <2>5 DEF ChunkInv
<1>8. CASE SacctSucceeds \/ SacctFails \/ PublishSucceeds \/ PublishGivesUp \/ PublishFails
  <2>1. PICK c \in Child, s \in {Ok, Failed} :
          /\ Ends(c, s)
          /\ s = Ok /\ c = "sacct" => written = nrecords
          /\ s = Ok /\ c = "publish" /\ ~ swallowed' =>
               taken = written /\ proc["sacct"] # "running"
          /\ swallowed' = swallowed \/ swallowed' = TRUE
    <3>1. Ok # Failed /\ "sacct" # "publish"
      BY DEF Ok, Failed
    <3>2. QED
      BY <1>0, <1>8, <3>1
      DEF SacctSucceeds, SacctFails, PublishSucceeds, PublishGivesUp, PublishFails, EndsPlainly
  <2>2. swallowed' \in BOOLEAN /\ (swallowed => swallowed')
    <3>1. swallowed \in BOOLEAN
      BY DEF ChunkInv, TypeOK
    <3>2. CASE swallowed' = swallowed
      BY <3>1, <3>2
    <3>3. CASE swallowed' = TRUE
      BY <3>3
    <3>4. QED
      BY <2>1, <3>2, <3>3
  <2>3. QED
    BY <2>1, <2>2, EndsKeepsInv
<1>9. CASE \E c \in Child : DiesOfSigterm(c)
  <2>1. PICK c \in Child : Ends(c, Failed) /\ swallowed' = swallowed
    BY <1>9 DEF DiesOfSigterm, EndsPlainly
  <2>2. Failed # Ok
    BY DEF Ok, Failed
  <2>3. swallowed' \in BOOLEAN
    BY <2>1 DEF ChunkInv, TypeOK
  <2>4. QED
    BY <2>1, <2>2, <2>3, EndsKeepsInv
<1>10. CASE UNCHANGED vars
  BY <1>10
  DEF vars, childVars, ChunkInv, TypeOK, ReturnCodesAreOfTheGone, GoneIsCollected,
      OkSaysAllIsDone, PipeHolds, LeftIsGone, NothingLoggedYet, QuietSoFar
<1>11. QED
  BY <1>1, <1>2, <1>3, <1>4, <1>5, <1>6, <1>7, <1>8, <1>9, <1>10
  DEF Next, Caller, Sacct, Publish

-----------------------------------------------------------------------------
(* The invariant of a chunk: what is known of each child's exit status, and  *)
(* what that says of the records.                                            *)
THEOREM ChunkInvariance == Spec => []ChunkInv
<1>1. QED
  BY ChunkInvInit, ChunkInvNext, PTL DEF Spec

(* Every variable of publish_chunk keeps its type. *)
THEOREM ChunkTypeOK == Spec => []TypeOK
<1>1. ChunkInv => TypeOK
  BY DEF ChunkInv
<1>2. QED
  BY <1>1, ChunkInvariance, PTL

(* When publish_chunk returns without a log and the SIGCHLD handler took no  *)
(* exit status, publish_cmd has read every record sacct has, or has          *)
(* swallowed a failure and left no more than a pipeful unread.               *)
THEOREM QuietMeansComplete == Spec => []QuietChunkIsComplete
<1>1. ChunkInv => QuietChunkIsComplete
  BY DEF ChunkInv, QuietSoFar, PipeHolds, QuietChunkIsComplete
<1>2. QED
  BY <1>1, ChunkInvariance, PTL

(* When publish_chunk returns, on whichever path, both children have ended   *)
(* and been collected.                                                       *)
THEOREM NoChildIsLeft == Spec => []NoChildLeft
<1>1. ChunkInv => NoChildLeft
  BY DEF ChunkInv, LeftIsGone, NoChildLeft, Child
<1>2. QED
  BY <1>1, ChunkInvariance, PTL
=============================================================================
