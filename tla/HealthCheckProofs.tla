--------------------------- MODULE HealthCheckProofs ---------------------------
(***************************************************************************)
(* Proofs about HealthCheckRun, for any number of selected parts: from     *)
(* what each check keeps of its promises (ChecksAssumption) to what the    *)
(* exit status and the published records of the whole command say. Then    *)
(* about GpuProcesses, for any processes, GPUs and retries.                *)
(***************************************************************************)
EXTENDS HealthCheckRun, GpuProcesses, TLAPS

Parts == DOMAIN Promises \cup {"check_telemetry"}
PublishedCodes == { r.code : r \in published }

RunTypeOK ==
  /\ TypeOK
  /\ todo \in Seq(DOMAIN Promises)
  /\ published \subseteq [part : Parts, code : Codes]

(* Which phases leave nothing decided, and where the exit status is from.  *)
Fresh == looked = {} /\ switched = {} /\ crashed = {} /\ published = {} /\ ~broken
PhaseInv ==
  /\ pc \in {"select", "init", "part"} => leaving = "no"
  /\ leaving = "no" => pc \in {"select", "init", "part"} \/ (pc = "publish" /\ inside)
  /\ pc = "select" => command = "none" /\ Fresh /\ todo = <<>>
  /\ pc = "init" => /\ command = "check_nvidia_smi" /\ inside /\ Fresh
                    /\ overall = UNKNOWN /\ code = UNKNOWN
  /\ pc # "select" => todo # <<>> \/ command = "check_telemetry"
  /\ status = IF pc # "done" THEN Running ELSE IF leaving = "raise" THEN 1 ELSE Value(overall)

(* A command has one part, itself, or several, with the telemetries inside *)
(* unless NVIDIA's library could not be loaded.                            *)
FailedEarly == pc \in {"exit", "done"} /\ leaving = "raise" /\ published = {} /\ ~inside
CommandInv ==
  /\ inside => command \in Nested
  /\ command \in Nested => selected \subseteq ToSet(PartsOf(command))
  /\ command \in Singles => todo = <<command>> /\ selected = {command}
  /\ command \in Nested /\ ~inside => looked = {} /\ pc # "part"
  /\ command \in Nested /\ ~inside => FailedEarly \/ (crashed = {} /\ overall \in {WARN, CRITICAL})
  /\ command \in {"none", "check_telemetry"} => selected = {} /\ ~inside /\ pc \notin {"init", "part"}
  /\ ~inside /\ pc = "part" => Fresh
  /\ ~inside /\ pc \in {"output", "publish"} => published = {} /\ ~broken

(* The parts that have not had their turn.                                 *)
Ahead == IF pc \in {"init", "part"} THEN ToSet(todo)
         ELSE IF pc = "publish" /\ leaving = "no" THEN ToSet(Tail(todo))
         ELSE {}

(* As long as there is no fault, everything before has looked and is fine; *)
(* once there is one, it stays.                                            *)
Plain(l) == l.bad /\ <<l.part, l.lapse>> \notin Blinding
NoFault == overall = OK \/ (inside /\ overall = UNKNOWN)
AllAreFine ==
  leaving # "raise" /\ NoFault /\ ~NvlinkCutShort =>
    \A part \in selected \ (Ahead \cup switched) : \E l \in looked : l.part = part /\ Earned(part, l)
FaultIsKept ==
  leaving # "raise" /\ ~NvlinkCutShort /\ (\E l \in looked : Plain(l))
    => overall = CRITICAL

(* What is published, and about to be, adds up to the overall code.        *)
TellsTheWorst ==
  leaving # "raise" /\ ~broken /\ command \notin {"check_telemetry", "nvlink"} =>
    /\ inside /\ pc = "part" => overall = WorstOf(PublishedCodes)
    /\ inside /\ pc = "publish" => overall = WorstOf(PublishedCodes \cup {code})
    /\ inside /\ pc \in {"output", "exit", "done"} /\ published # {} => overall = WorstOf(PublishedCodes)
    /\ ~inside /\ pc \in {"output", "publish"} => code = overall
    /\ ~inside /\ pc \in {"exit", "done"} => PublishedCodes = {overall}

(* No part has two turns, so that a record is of the part that crashed.    *)
Distinct(s) == \A j, k \in DOMAIN s : s[j] = s[k] => j = k
InTurn ==
  /\ Distinct(todo)
  /\ pc \in {"init", "part"} \/ (pc = "publish" /\ inside) =>
       \A r \in published : r.part \notin ToSet(todo)
CrashIsTold ==
  /\ pc = "part" => code = UNKNOWN \/ Head(todo) = "check_ssh_certs"
  /\ crashed # {} => leaving = "raise"
  /\ crashed # {} /\ ~FailedEarly => /\ crashed = {Head(todo)}
                                     /\ code # OK \/ Head(todo) = "check_ssh_certs"
  /\ \A r \in published : r.part \in crashed \ {"check_ssh_certs"} => r.code # OK

RunInv == /\ RunTypeOK /\ PhaseInv /\ CommandInv
          /\ AllAreFine /\ FaultIsKept /\ TellsTheWorst /\ InTurn /\ CrashIsTold

-----------------------------------------------------------------------------
(* The exit codes, in their order. *)
LEMMA CodeNumbers == Codes = {0, 1, 2, 3} /\ UNKNOWN = 0 /\ OK = 1 /\ WARN = 2 /\ CRITICAL = 3
  BY DEF Codes, UNKNOWN, OK, WARN, CRITICAL

LEMMA WorseIsOneOf ==
  ASSUME NEW c \in Codes, NEW d \in Codes
  PROVE  WorseOf(c, d) \in Codes /\ WorseOf(c, d) >= c /\ WorseOf(c, d) >= d
         /\ WorseOf(c, d) \in {c, d}
  BY CodeNumbers DEF WorseOf

LEMMA WorstOfOne == ASSUME NEW c \in Codes PROVE WorstOf({c}) = c
  BY CodeNumbers DEF WorstOf

LEMMA WorstOfNone == WorstOf({}) = UNKNOWN
  BY CodeNumbers DEF WorstOf

(* Comparing one after the other finds the worst of all.                   *)
LEMMA WorstOfMore ==
  ASSUME NEW S \in SUBSET Codes, NEW c \in Codes
  PROVE  WorstOf(S \cup {c}) = WorseOf(WorstOf(S), c) /\ WorstOf(S) \in Codes
  BY CodeNumbers DEF WorstOf, WorseOf

(* What an outcome of a check that looked is like.                         *)
LEMMA Outcomes ==
  ASSUME NEW part \in DOMAIN Promises, NEW o \in Promises[part]
  PROVE  /\ o.code \in Results /\ o.published \in Codes /\ o.lapse \in STRING
         /\ o.good \in BOOLEAN /\ o.bad \in BOOLEAN
         /\ ~HasRaised(o.code) => o.code \in Codes
         /\ HasRaised(o.code) => CodeOf(o.code) \in Codes
         /\ Truthful(part, o) /\ Told(part, o)
<1>1. /\ o \in [code : Results, published : Codes, lapse : STRING, good : BOOLEAN, bad : BOOLEAN]
      /\ Truthful(part, o) /\ Told(part, o)
  BY ChecksAssumption
<1>2. o.code \in Codes \/ \E c \in Codes : o.code = 10 + c
  BY <1>1 DEF Results, Raised
<1>3. QED
  BY <1>1, <1>2, CodeNumbers DEF HasRaised, CodeOf

(* The sequence of parts, and what its head and its tail are.              *)
LEMMA TurnFacts ==
  ASSUME NEW S, NEW s \in Seq(S), s # <<>>
  PROVE  /\ Head(s) \in S /\ Head(s) \in ToSet(s) /\ Tail(s) \in Seq(S) /\ Len(s) \in Nat
         /\ ToSet(s) = {Head(s)} \cup ToSet(Tail(s))
         /\ Len(s) > 1 => Tail(s) # <<>>
         /\ ~(Len(s) > 1) => ToSet(Tail(s)) = {}
         /\ Distinct(s) => Distinct(Tail(s)) /\ Head(s) \notin ToSet(Tail(s))
<1>1. /\ Len(s) \in Nat /\ Len(s) >= 1 /\ DOMAIN s = 1 .. Len(s)
      /\ Head(s) = s[1] /\ Tail(s) \in Seq(S) /\ DOMAIN Tail(s) = 1 .. Len(s) - 1
      /\ \A k \in 1 .. Len(s) - 1 : Tail(s)[k] = s[k + 1]
      /\ \A k \in 1 .. Len(s) : s[k] \in S
  OBVIOUS
<1>2. ToSet(s) = { s[k] : k \in 1 .. Len(s) } /\ ToSet(Tail(s)) = { Tail(s)[k] : k \in 1 .. Len(s) - 1 }
  BY <1>1 DEF ToSet
<1>3. ASSUME NEW k \in 1 .. Len(s) PROVE s[k] = Head(s) \/ s[k] \in ToSet(Tail(s))
  <2>1. CASE k = 1
    BY <1>1, <2>1
  <2>2. CASE k # 1
    <3>1. k - 1 \in 1 .. Len(s) - 1 /\ Tail(s)[k - 1] = s[k]
      BY <1>1, <2>2
    <3>2. QED
      BY <1>2, <3>1
  <2>3. QED
    BY <2>1, <2>2
<1>4. ASSUME NEW k \in 1 .. Len(s) - 1 PROVE k + 1 \in 1 .. Len(s) /\ Tail(s)[k] = s[k + 1]
  BY <1>1
<1>5. ToSet(s) = {Head(s)} \cup ToSet(Tail(s)) /\ Head(s) \in S /\ Head(s) \in ToSet(s)
  <2>1. 1 \in 1 .. Len(s)
    BY <1>1
  <2>2. QED
    BY <1>1, <1>2, <1>3, <1>4, <2>1
<1>6. ASSUME Distinct(s) PROVE Distinct(Tail(s)) /\ Head(s) \notin ToSet(Tail(s))
  <2>1. \A j, k \in 1 .. Len(s) : s[j] = s[k] => j = k
    BY <1>1, <1>6 DEF Distinct
  <2>2. ASSUME NEW j \in 1 .. Len(s) - 1, NEW k \in 1 .. Len(s) - 1, Tail(s)[j] = Tail(s)[k] PROVE j = k
    <3>1. j + 1 = k + 1
      BY <1>4, <2>1, <2>2
    <3>2. QED
      BY <1>1, <3>1
  <2>3. ASSUME NEW k \in 1 .. Len(s) - 1 PROVE Tail(s)[k] # Head(s)
    BY <1>1, <1>4, <2>1
  <2>4. QED
    BY <1>1, <1>2, <2>2, <2>3 DEF Distinct
<1>7. ~(Len(s) > 1) => ToSet(Tail(s)) = {}
  BY <1>1, <1>2
<1>8. Len(s) > 1 => Tail(s) # <<>>
  <2>1. Len(Tail(s)) = Len(s) - 1 /\ Len(<<>>) = 0
    BY <1>1
  <2>2. ASSUME Tail(s) = <<>> PROVE Len(s) - 1 = 0
    BY <2>1, <2>2
  <2>3. QED
    BY <1>1, <2>2
<1>9. QED
  BY <1>1, <1>5, <1>6, <1>7, <1>8

-----------------------------------------------------------------------------
(* The names of the parts, and what can be selected of them.               *)
LEMMA PartNames ==
  /\ \A c \in Nested : /\ PartsOf(c) \in Seq(PartsOfMany) /\ Distinct(PartsOf(c))
                       /\ ToSet(PartsOf(c)) \subseteq PartsOfMany
  /\ ToSet(PartsOf("check_nvidia_smi")) \cap ToSet(NvlinkParts) = {}
<1>1. /\ PartsOf("check_nvidia_smi") = NvidiaParts
      /\ PartsOf("nvlink") = NvlinkParts
  BY DEF PartsOf
<1>2. /\ NvidiaParts \in Seq(ToSet(NvidiaParts)) /\ Distinct(NvidiaParts)
  BY DEF NvidiaParts, ToSet, Distinct
<1>3. /\ NvlinkParts \in Seq(ToSet(NvlinkParts)) /\ Distinct(NvlinkParts)
  BY DEF NvlinkParts, ToSet, Distinct
<1>4. ToSet(NvidiaParts) \cap ToSet(NvlinkParts) = {}
  BY DEF NvidiaParts, NvlinkParts, ToSet
<1>5. QED
  BY <1>1, <1>2, <1>3, <1>4 DEF Nested, PartsOfMany

LEMMA SelectionFacts ==
  ASSUME NEW c \in Nested, NEW parts \in Selections(c)
  PROVE  /\ parts \in Seq(DOMAIN Promises) /\ parts # <<>> /\ Distinct(parts)
         /\ ToSet(parts) \subseteq ToSet(PartsOf(c)) /\ ToSet(parts) \subseteq DOMAIN Promises
<1> DEFINE all == PartsOf(c)
<1>0. PICK n \in 1 .. MaxParts : \E at \in [1 .. n -> DOMAIN all] :
        /\ \A j, k \in 1 .. n : j < k => at[j] < at[k]
        /\ parts = [k \in 1 .. n |-> all[at[k]]]
  BY DEF Selections
<1>1. PICK at \in [1 .. n -> DOMAIN all] :
        /\ \A j, k \in 1 .. n : j < k => at[j] < at[k]
        /\ parts = [k \in 1 .. n |-> all[at[k]]]
  BY <1>0
<1>2. all \in Seq(PartsOfMany) /\ Distinct(all) /\ ToSet(all) \subseteq PartsOfMany
  BY PartNames
<1>3. n \in Nat /\ n >= 1 /\ DOMAIN all = 1 .. Len(all) /\ Len(all) \in Nat
  BY <1>2, PartsAssumption
<1>4. \A k \in 1 .. n : at[k] \in DOMAIN all /\ parts[k] = all[at[k]] /\ all[at[k]] \in ToSet(all)
  BY <1>1 DEF ToSet
<1>5. DOMAIN parts = 1 .. n
  BY <1>1
<1>6. ToSet(parts) \subseteq ToSet(all)
  BY <1>4, <1>5 DEF ToSet
<1>7. ToSet(parts) \subseteq DOMAIN Promises
  BY <1>2, <1>6, NamesAssumption
<1>8. parts \in Seq(DOMAIN Promises) /\ parts # <<>>
  <2>1. \A k \in 1 .. n : all[at[k]] \in DOMAIN Promises
    BY <1>2, <1>4, NamesAssumption
  <2>2. parts \in Seq(DOMAIN Promises) /\ Len(parts) = n
    BY <1>1, <1>3, <2>1
  <2>3. QED
    BY <1>3, <2>2
<1>9. Distinct(parts)
  <2>1. ASSUME NEW j \in 1 .. n, NEW k \in 1 .. n, parts[j] = parts[k], j < k PROVE FALSE
    <3>1. at[j] = at[k] /\ at[j] < at[k] /\ at[j] \in Nat
      BY <1>1, <1>2, <1>3, <1>4, <2>1 DEF Distinct
    <3>2. QED
      BY <3>1
  <2>2. QED
    BY <1>3, <1>5, <2>1 DEF Distinct
<1>10. QED
  BY <1>6, <1>7, <1>8, <1>9

(* A single part is a command of its own.                                  *)
LEMMA SingleFacts ==
  ASSUME NEW c \in Singles
  PROVE  /\ c \in DOMAIN Promises /\ c \notin Nested /\ c \notin PartsOfMany
         /\ c \notin {"none", "check_telemetry"}
         /\ <<c>> \in Seq(DOMAIN Promises) /\ <<c>> # <<>> /\ Distinct(<<c>>)
         /\ ToSet(<<c>>) = {c} /\ Head(<<c>>) = c /\ Len(<<c>>) = 1
<1>1. c \in DOMAIN Promises /\ c \notin Nested /\ c \notin PartsOfMany /\ c \notin {"none", "check_telemetry"}
  BY NamesAssumption DEF Singles
<1>2. QED
  BY <1>1 DEF ToSet, Distinct

-----------------------------------------------------------------------------
LEMMA InvInit == Init => RunInv
<1> SUFFICES ASSUME Init PROVE RunInv
  OBVIOUS
<1> USE DEF Init
<1>1. /\ todo \in Seq(DOMAIN Promises) /\ ToSet(todo) = {} /\ Distinct(todo)
  BY DEF ToSet, Distinct
<1>2. RunTypeOK
  BY <1>1, CodeNumbers DEF RunTypeOK, TypeOK, Running
<1>3. PhaseInv /\ CommandInv
  BY NamesAssumption DEF PhaseInv, CommandInv, Fresh, Nested, Singles
<1>4. AllAreFine /\ FaultIsKept /\ TellsTheWorst /\ InTurn /\ CrashIsTold
  BY <1>1, CodeNumbers DEF AllAreFine, FaultIsKept, TellsTheWorst, InTurn, CrashIsTold
<1>5. QED
  BY <1>2, <1>3, <1>4 DEF RunInv

(* What a command does when it begins.                                     *)
LEMMA SelectKeeps ==
  ASSUME RunInv, NEW c, NEW parts, Select(c, parts),
         \/ c \in Singles /\ parts = <<c>>
         \/ c \in Nested /\ parts \in Selections(c)
  PROVE  RunInv'
<1> USE DEF Select
<1>1. /\ parts \in Seq(DOMAIN Promises) /\ parts # <<>> /\ Distinct(parts)
      /\ ToSet(parts) \subseteq DOMAIN Promises
      /\ c \in Singles \/ (c \in Nested /\ c \notin Singles /\ ToSet(parts) \subseteq ToSet(PartsOf(c)))
  BY SelectionFacts, SingleFacts
<1>2. /\ pc = "select" /\ leaving' = "no" /\ status' = Running
      /\ looked' = {} /\ switched' = {} /\ crashed' = {} /\ published' = {} /\ ~broken'
  BY DEF RunInv, PhaseInv, Fresh, history, sinks
<1>3. /\ overall' = code' /\ overall' \in {UNKNOWN, OK} /\ pc' \in {"init", "part"}
      /\ c \in Nested => overall' = UNKNOWN
      /\ overall' = UNKNOWN \/ Head(parts) = "check_ssh_certs"
  <2>1. CASE c = "check_ssh_certs"
    BY <1>1, <2>1, SingleFacts DEF Nested
  <2>2. CASE c # "check_ssh_certs"
    BY <2>2
  <2>3. QED
    BY <2>1, <2>2
<1>4. RunTypeOK'
  <2>1. UNKNOWN \in Codes /\ OK \in Codes
    BY CodeNumbers
  <2>2. ToSet(todo') \subseteq selected' /\ selected' \subseteq DOMAIN Promises
    BY <1>1
  <2>3. type' \in {"nagios", "prolog"} /\ shown' \in {"nothing", "warning", "state"}
    BY DEF RunInv, RunTypeOK, TypeOK
  <2>4. /\ todo' \in Seq(DOMAIN Promises) /\ command' \in Singles \cup Nested
        /\ inside' \in BOOLEAN /\ broken' \in BOOLEAN
    <3>1. inside' \in BOOLEAN
      OBVIOUS
    <3>2. broken' \in BOOLEAN
      BY DEF RunInv, RunTypeOK, TypeOK, sinks
    <3>3. QED
      BY <1>1, <3>1, <3>2
  <2>5. code' \in Codes /\ overall' \in Codes
    BY <1>3, <2>1
  <2>6. TypeOK'
    BY <1>2, <1>3, <2>2, <2>3, <2>4, <2>5 DEF TypeOK
  <2>7. QED
    BY <1>2, <2>4, <2>6 DEF RunTypeOK
<1>5. PhaseInv'
  BY <1>1, <1>2, <1>3 DEF PhaseInv, Fresh, Nested
<1>6. CommandInv'
  BY <1>1, <1>2, <1>3, SingleFacts DEF CommandInv, Fresh, Nested
<1>7. AllAreFine' /\ FaultIsKept'
  BY <1>1, <1>2, <1>3 DEF AllAreFine, Ahead, FaultIsKept
<1>8. TellsTheWorst'
  <2>1. PublishedCodes' = {}
    BY <1>2 DEF PublishedCodes
  <2>2. QED
    BY <1>1, <1>2, <1>3, <2>1, WorstOfNone DEF TellsTheWorst, Singles
<1>9. InTurn' /\ CrashIsTold'
  BY <1>1, <1>2, <1>3 DEF InTurn, CrashIsTold
<1>10. QED
  BY <1>4, <1>5, <1>6, <1>7, <1>8, <1>9 DEF RunInv

(* A command that ends before its contexts has published nothing.          *)
LEMMA FailsEarlyKeeps ==
  ASSUME RunInv, NEW c, NEW parts, FailsEarly(c, parts),
         \/ c \in Singles /\ parts = <<c>>
         \/ c \in Nested /\ parts \in Selections(c)
  PROVE  RunInv'
<1> USE DEF FailsEarly
<1>1. /\ parts \in Seq(DOMAIN Promises) /\ parts # <<>> /\ Distinct(parts)
      /\ ToSet(parts) \subseteq DOMAIN Promises
      /\ c \in Singles \/ (c \in Nested /\ c \notin Singles /\ ToSet(parts) \subseteq ToSet(PartsOf(c)))
  BY SelectionFacts, SingleFacts
<1>2. /\ pc' = "exit" /\ leaving' = "raise" /\ status' = Running /\ ~inside' /\ inside' \in BOOLEAN
      /\ looked' = {} /\ switched' = {} /\ published' = {} /\ ~broken' /\ broken' \in BOOLEAN
  BY DEF RunInv, PhaseInv, CommandInv, Fresh, RunTypeOK, TypeOK, sinks
<1>3. RunTypeOK'
  <2>1. /\ type' \in {"nagios", "prolog"} /\ shown' \in {"nothing", "warning", "state"}
        /\ code' \in Codes /\ overall' \in Codes
    BY DEF RunInv, RunTypeOK, TypeOK
  <2>2. TypeOK'
    BY <1>1, <1>2, <2>1 DEF TypeOK
  <2>3. QED
    BY <1>1, <1>2, <2>2 DEF RunTypeOK
<1>4. PhaseInv'
  BY <1>1, <1>2 DEF PhaseInv
<1>5. CommandInv'
  BY <1>1, <1>2, SingleFacts DEF CommandInv, FailedEarly, Nested
<1>6. AllAreFine' /\ FaultIsKept' /\ TellsTheWorst'
  BY <1>2 DEF AllAreFine, FaultIsKept, TellsTheWorst
<1>7. InTurn' /\ CrashIsTold'
  BY <1>1, <1>2 DEF InTurn, CrashIsTold, FailedEarly
<1>8. QED
  BY <1>3, <1>4, <1>5, <1>6, <1>7 DEF RunInv

(* check-telemetry has no part at all.                                     *)
LEMMA RecordOnlyKeeps ==
  ASSUME RunInv, NEW c \in Codes, RecordOnly(c)
  PROVE  RunInv'
<1> USE DEF RecordOnly
<1>1. /\ leaving' = "exit" /\ pc' = "publish" /\ command' = "check_telemetry"
      /\ selected' = {} /\ ~inside' /\ Distinct(todo') /\ status' = Running
      /\ looked' = {} /\ switched' = {} /\ crashed' = {} /\ published' = {} /\ ~broken'
  BY DEF RunInv, PhaseInv, CommandInv, InTurn, Fresh, history, sinks
<1>2. RunTypeOK'
  <2>1. type' = type /\ todo' = todo /\ shown' = shown /\ code' \in Codes /\ overall' \in Codes
    BY CodeNumbers
  <2>2. todo \in Seq(DOMAIN Promises) /\ type \in {"nagios", "prolog"} /\ shown \in {"nothing", "warning", "state"}
        /\ todo = <<>>
    BY DEF RunInv, RunTypeOK, TypeOK, PhaseInv
  <2>3. ToSet(todo) = {}
    BY <2>2 DEF ToSet
  <2>4. inside' \in BOOLEAN /\ broken' \in BOOLEAN
    BY DEF RunInv, RunTypeOK, TypeOK, sinks
  <2>5. TypeOK'
    BY <1>1, <2>1, <2>2, <2>3, <2>4 DEF TypeOK
  <2>6. QED
    BY <1>1, <2>1, <2>2, <2>5 DEF RunTypeOK
<1>3. PhaseInv' /\ CommandInv'
  BY <1>1, NamesAssumption DEF PhaseInv, CommandInv, Nested, Singles
<1>4. AllAreFine' /\ FaultIsKept' /\ TellsTheWorst' /\ InTurn' /\ CrashIsTold'
  BY <1>1 DEF AllAreFine, FaultIsKept, TellsTheWorst, InTurn, CrashIsTold
<1>5. QED
  BY <1>2, <1>3, <1>4 DEF RunInv

(* NVIDIA's library cannot be loaded.                                      *)
LEMMA InitFailsKeeps ==
  ASSUME RunInv, InitFails
  PROVE  RunInv'
<1> USE DEF InitFails
<1>1. /\ leaving' = "exit" /\ pc' = "output" /\ command' = "check_nvidia_smi" /\ ~inside'
      /\ code' = overall' /\ overall' \in {WARN, CRITICAL} /\ status' = Running
      /\ todo' # <<>> /\ todo' = todo /\ selected' = selected
      /\ looked' = {} /\ switched' = {} /\ crashed' = {} /\ published' = {} /\ ~broken'
  BY NamesAssumption DEF RunInv, PhaseInv, Fresh, options, history, sinks
<1>2. RunTypeOK'
  <2>1. type' = type /\ shown' = shown /\ code' \in Codes /\ overall' \in Codes
    BY <1>1, CodeNumbers DEF options
  <2>2. /\ todo \in Seq(DOMAIN Promises) /\ ToSet(todo) \subseteq selected
        /\ selected \subseteq DOMAIN Promises
        /\ type \in {"nagios", "prolog"} /\ shown \in {"nothing", "warning", "state"}
    BY DEF RunInv, RunTypeOK, TypeOK
  <2>3. inside' \in BOOLEAN /\ broken' \in BOOLEAN
    BY DEF RunInv, RunTypeOK, TypeOK, sinks
  <2>4. TypeOK'
    BY <1>1, <2>1, <2>2, <2>3 DEF TypeOK, Nested
  <2>5. QED
    BY <1>1, <2>1, <2>2, <2>4 DEF RunTypeOK
<1>3. PhaseInv' /\ CommandInv'
  <2>1. command = "check_nvidia_smi" /\ command \in Nested /\ command \notin Singles
    BY NamesAssumption DEF RunInv, PhaseInv, Nested, Singles
  <2>2. QED
    BY <1>1, <2>1 DEF RunInv, PhaseInv, CommandInv
<1>4. AllAreFine' /\ FaultIsKept' /\ TellsTheWorst'
  BY <1>1, CodeNumbers DEF AllAreFine, NoFault, FaultIsKept, TellsTheWorst
<1>5. InTurn' /\ CrashIsTold'
  BY <1>1 DEF RunInv, InTurn, CrashIsTold
<1>6. QED
  BY <1>2, <1>3, <1>4, <1>5 DEF RunInv

(* The kill switch of check-nvidia-smi as a whole.                         *)
LEMMA CommandSwitchKeeps ==
  ASSUME RunInv, NEW read \in KillSwitch, CommandSwitch(read)
  PROVE  RunInv'
<1> USE DEF CommandSwitch
<1>1. /\ command' = command /\ selected' = selected /\ inside' = inside /\ todo' = todo /\ type' = type
      /\ looked' = looked /\ crashed' = crashed /\ published' = published /\ broken' = broken
      /\ shown' = shown /\ code' = code /\ status' = Running
      /\ command = "check_nvidia_smi" /\ command \in Nested /\ command \notin Singles
      /\ inside /\ looked = {} /\ crashed = {} /\ switched = {} /\ published = {} /\ ~broken
      /\ overall = UNKNOWN /\ code = UNKNOWN /\ leaving = "no" /\ todo # <<>>
  BY NamesAssumption DEF RunInv, PhaseInv, Fresh, options, sinks, Nested, Singles
<1>2. \/ /\ pc' = "part" /\ overall' = overall /\ leaving' = leaving /\ switched' = switched
      \/ /\ overall' = OK /\ switched' = selected /\ leaving' = "exit" /\ pc' = "output"
      \/ /\ overall' = overall /\ switched' = switched /\ leaving' = "raise" /\ pc' = "output"
  BY DEF KillSwitch
<1>3. RunTypeOK'
  BY <1>1, <1>2, CodeNumbers DEF RunInv, RunTypeOK, TypeOK
<1>4. PhaseInv' /\ CommandInv'
  BY <1>1, <1>2 DEF RunInv, PhaseInv, CommandInv
<1>5. AllAreFine' /\ FaultIsKept'
  <2>1. pc' = "part" => Ahead' = ToSet(todo) /\ Ahead = ToSet(todo) /\ NoFault' = NoFault /\ NvlinkCutShort' = NvlinkCutShort
    BY <1>1, <1>2 DEF Ahead, NoFault, NvlinkCutShort
  <2>2. QED
    BY <1>1, <1>2, <2>1 DEF RunInv, AllAreFine, FaultIsKept
<1>6. TellsTheWorst'
  <2>1. PublishedCodes' = {}
    BY <1>1 DEF PublishedCodes
  <2>2. QED
    BY <1>1, <1>2, <2>1, WorstOfNone DEF TellsTheWorst
<1>7. InTurn' /\ CrashIsTold'
  BY <1>1, <1>2 DEF RunInv, InTurn, CrashIsTold
<1>8. QED
  BY <1>3, <1>4, <1>5, <1>6, <1>7 DEF RunInv

-----------------------------------------------------------------------------
(* Where a run is when a part has its turn.                                *)
LEMMA AtPart ==
  ASSUME RunInv, pc = "part"
  PROVE  /\ todo # <<>> /\ todo \in Seq(DOMAIN Promises)
         /\ Head(todo) \in DOMAIN Promises /\ Head(todo) \in selected
         /\ ToSet(todo) = {Head(todo)} \cup ToSet(Tail(todo))
         /\ leaving = "no" /\ crashed = {} /\ status = Running
         /\ inside => /\ command \in Nested /\ command \notin Singles /\ Head(todo) \in PartsOfMany
                      /\ command # "nvlink" => Head(todo) \notin ToSet(NvlinkParts)
         /\ ~inside => /\ command \in Singles /\ command \notin Nested /\ Head(todo) = command
                       /\ selected = {command} /\ command \notin PartsOfMany
                       /\ looked = {} /\ switched = {} /\ published = {} /\ ~broken
<1>1. /\ todo # <<>> /\ todo \in Seq(DOMAIN Promises) /\ leaving = "no" /\ crashed = {}
      /\ status = Running /\ ToSet(todo) \subseteq selected
  BY DEF RunInv, RunTypeOK, TypeOK, PhaseInv, CommandInv, CrashIsTold
<1>2. /\ Head(todo) \in DOMAIN Promises /\ Head(todo) \in ToSet(todo)
      /\ ToSet(todo) = {Head(todo)} \cup ToSet(Tail(todo))
  BY <1>1, TurnFacts
<1>3. ASSUME inside
      PROVE  /\ command \in Nested /\ command \notin Singles /\ Head(todo) \in PartsOfMany
             /\ command # "nvlink" => Head(todo) \notin ToSet(NvlinkParts)
  <2>1. command \in Nested /\ Head(todo) \in ToSet(PartsOf(command))
    BY <1>1, <1>2, <1>3 DEF RunInv, CommandInv
  <2>2. QED
    BY <2>1, PartNames, NamesAssumption DEF Nested, Singles
<1>4. ASSUME ~inside
      PROVE  /\ command \in Singles /\ command \notin Nested /\ Head(todo) = command
             /\ selected = {command} /\ command \notin PartsOfMany
             /\ looked = {} /\ switched = {} /\ published = {} /\ ~broken
  <2>1. command \in Singles
    BY <1>4 DEF RunInv, RunTypeOK, TypeOK, CommandInv
  <2>2. QED
    BY <1>4, <2>1, SingleFacts DEF RunInv, CommandInv, Fresh
<1>5. QED
  BY <1>1, <1>2, <1>3, <1>4

(* However a part ends, the run goes on to the contexts around it, and the *)
(* parts ahead are those behind it.                                        *)
LEMMA LeaveKeeps ==
  ASSUME RunInv, pc = "part", NEW how \in {"no", "exit", "raise"}, Leave(how),
         how = "no" => inside,
         UNCHANGED <<options, inside, todo, sinks, shown, status>>,
         code' \in Codes, overall' \in Codes,
         looked' \subseteq [part : selected, lapse : STRING, good : BOOLEAN, bad : BOOLEAN],
         switched' \subseteq selected, crashed' \subseteq {Head(todo)},
         crashed' # {} => how = "raise" /\ (code' # OK \/ Head(todo) = "check_ssh_certs")
  PROVE  /\ RunTypeOK' /\ PhaseInv' /\ CommandInv' /\ InTurn' /\ CrashIsTold'
         /\ selected' = selected /\ inside' = inside /\ command' = command /\ published' = published
         /\ broken' = broken /\ PublishedCodes' = PublishedCodes /\ leaving' = how
         /\ how = "no" \/ ~inside => \A part \in selected : part \notin Ahead' => part \notin Ahead \/ part = Head(todo)
         /\ pc' = IF inside THEN "publish" ELSE "output"
<1>1. /\ command' = command /\ type' = type /\ selected' = selected /\ inside' = inside
      /\ todo' = todo /\ published' = published /\ broken' = broken /\ shown' = shown
      /\ status' = status /\ leaving' = how /\ pc' = IF inside THEN "publish" ELSE "output"
  BY DEF Leave, options, sinks
<1>2. /\ todo # <<>> /\ todo \in Seq(DOMAIN Promises) /\ Head(todo) \in selected
      /\ ToSet(todo) = {Head(todo)} \cup ToSet(Tail(todo)) /\ status = Running
      /\ inside => command \in Nested /\ command \notin Singles
      /\ ~inside => command \in Singles /\ command \notin Nested /\ selected = {command}
                    /\ Head(todo) = command /\ published = {} /\ ~broken
  BY AtPart
<1>3. RunTypeOK'
  <2>1. TypeOK'
    BY <1>1, <1>2 DEF RunInv, RunTypeOK, TypeOK
  <2>2. QED
    BY <1>1, <2>1 DEF RunInv, RunTypeOK
<1>4. PhaseInv' /\ CommandInv'
  BY <1>1, <1>2 DEF RunInv, PhaseInv, CommandInv, Singles
<1>5. InTurn' /\ CrashIsTold'
  <2>1. InTurn'
    BY <1>1 DEF RunInv, InTurn
  <2>2. \A r \in published : r.part \notin ToSet(todo)
    BY DEF RunInv, InTurn
  <2>3. \A r \in published' : r.part \notin crashed'
    BY <1>1, <1>2, <2>2
  <2>4. QED
    BY <1>1, <2>1, <2>3 DEF CrashIsTold
<1>6. PublishedCodes' = PublishedCodes
  BY <1>1 DEF PublishedCodes
<1>7. how = "no" \/ ~inside => \A part \in selected : part \notin Ahead' => part \notin Ahead \/ part = Head(todo)
  BY <1>1, <1>2 DEF Ahead
<1>8. QED
  BY <1>1, <1>3, <1>4, <1>5, <1>6, <1>7

(* A part that is turned off counts as fine.                               *)

(* A part that is turned off counts as fine.                               *)
LEMMA PartIsOffKeeps ==
  ASSUME RunInv, PartIsOff
  PROVE  RunInv'
<1> DEFINE how == IF command = "check_nvidia_smi" THEN "no" ELSE "exit"
<1>1. /\ pc = "part" /\ Leave(how) /\ UNCHANGED <<options, inside, todo, sinks, shown, status>>
      /\ looked' = looked /\ crashed' = crashed /\ switched' = switched \cup {Head(todo)} /\ code' = OK
      /\ overall' = (IF how = "no" THEN WorseOf(overall, OK) ELSE OK)
  BY DEF PartIsOff
<1>2. /\ crashed = {} /\ Head(todo) \in selected /\ leaving = "no"
      /\ inside => command \in Nested
      /\ ~inside => /\ command \in Singles /\ command \notin Nested /\ looked = {} /\ ~broken
                    /\ selected = {command} /\ Head(todo) = command
  BY <1>1, AtPart
<1>3. how = "no" => inside
  BY <1>2, NamesAssumption DEF Nested, Singles
<1>4. /\ overall \in Codes /\ overall' \in Codes /\ code' \in Codes /\ published \in SUBSET [part : Parts, code : Codes]
      /\ overall' \in {overall, OK} /\ (how = "no" => overall' >= overall /\ overall' = WorseOf(overall, OK))
      /\ looked \subseteq [part : selected, lapse : STRING, good : BOOLEAN, bad : BOOLEAN] /\ switched \subseteq selected
  <2>1. overall \in Codes /\ OK \in Codes
    BY CodeNumbers DEF RunInv, RunTypeOK, TypeOK
  <2>2. WorseOf(overall, OK) \in Codes /\ WorseOf(overall, OK) >= overall /\ WorseOf(overall, OK) \in {overall, OK}
    BY <2>1, WorseIsOneOf
  <2>3. QED
    BY <1>1, <2>1, <2>2 DEF RunInv, RunTypeOK, TypeOK
<1>5. how \in {"no", "exit", "raise"}
  OBVIOUS
<1>6. /\ RunTypeOK' /\ PhaseInv' /\ CommandInv' /\ InTurn' /\ CrashIsTold'
      /\ selected' = selected /\ inside' = inside /\ command' = command /\ published' = published
      /\ broken' = broken /\ PublishedCodes' = PublishedCodes /\ leaving' = how
      /\ how = "no" \/ ~inside => \A part \in selected : part \notin Ahead' => part \notin Ahead \/ part = Head(todo)
      /\ pc' = IF inside THEN "publish" ELSE "output"
  <2> HIDE DEF how
  <2>1. switched' \subseteq selected /\ crashed' = {} /\ looked' \subseteq [part : selected, lapse : STRING, good : BOOLEAN, bad : BOOLEAN]
    BY <1>1, <1>2, <1>4
  <2>2. QED
    BY <1>1, <1>3, <1>4, <1>5, <2>1, LeaveKeeps
<1>7. how # "no" /\ inside => command = "nvlink" /\ NvlinkCutShort'
  BY <1>1, <1>2, <1>6 DEF Nested, NvlinkCutShort
<1>8. how = "no" => command = "check_nvidia_smi" /\ ~NvlinkCutShort /\ ~NvlinkCutShort'
  BY <1>6 DEF NvlinkCutShort
<1> HIDE DEF how
<1>9. AllAreFine'
  <2>1. CASE how = "no"
    <3>1. NoFault' => NoFault
      BY <1>3, <1>4, <1>6, <2>1, CodeNumbers DEF NoFault
    <3>2. QED
      BY <1>1, <1>2, <1>6, <1>8, <2>1, <3>1 DEF RunInv, AllAreFine
  <2>2. CASE how # "no" /\ ~inside
    BY <1>1, <1>2, <1>6, <2>2 DEF AllAreFine
  <2>3. QED
    BY <1>7, <2>1, <2>2 DEF AllAreFine
<1>10. FaultIsKept'
  <2>1. CASE how = "no"
    BY <1>1, <1>2, <1>4, <1>6, <1>8, <2>1, CodeNumbers DEF RunInv, FaultIsKept
  <2>2. CASE how # "no" /\ ~inside
    BY <1>1, <1>2, <2>2 DEF FaultIsKept
  <2>3. QED
    BY <1>7, <2>1, <2>2 DEF FaultIsKept
<1>11. TellsTheWorst'
  <2>1. CASE how = "no"
    <3>1. ~broken => overall = WorstOf(PublishedCodes)
      BY <1>1, <1>2, <1>3, <1>8, <2>1 DEF RunInv, TellsTheWorst
    <3>2. PublishedCodes \in SUBSET Codes
      BY <1>4 DEF PublishedCodes
    <3>3. WorstOf(PublishedCodes \cup {OK}) = WorseOf(WorstOf(PublishedCodes), OK)
      BY <3>2, CodeNumbers, WorstOfMore
    <3>4. QED
      BY <1>1, <1>3, <1>4, <1>6, <2>1, <3>1, <3>3 DEF TellsTheWorst
  <2>2. CASE how # "no" /\ ~inside
    BY <1>1, <1>6, <2>2 DEF TellsTheWorst
  <2>3. QED
    BY <1>6, <1>7, <2>1, <2>2 DEF TellsTheWorst
<1>12. QED
  BY <1>6, <1>9, <1>10, <1>11 DEF RunInv

(* A kill switch that is no boolean.                                       *)
LEMMA PartSwitchRaisesKeeps ==
  ASSUME RunInv, PartSwitchRaises
  PROVE  RunInv'
<1>1. /\ pc = "part" /\ Leave("raise") /\ UNCHANGED <<options, inside, todo, sinks, shown, status>>
      /\ looked' = looked /\ crashed' = crashed \cup {Head(todo)} /\ switched' = switched
      /\ code' = code /\ overall' = overall
  BY DEF PartSwitchRaises
<1>2. crashed = {} /\ (code # OK \/ Head(todo) = "check_ssh_certs")
  BY <1>1, AtPart, CodeNumbers DEF RunInv, CrashIsTold
<1>3. /\ overall' \in Codes /\ code' \in Codes /\ switched' \subseteq selected
      /\ looked' \subseteq [part : selected, lapse : STRING, good : BOOLEAN, bad : BOOLEAN]
      /\ crashed' \subseteq {Head(todo)} /\ (code' # OK \/ Head(todo) = "check_ssh_certs")
  BY <1>1, <1>2 DEF RunInv, RunTypeOK, TypeOK
<1>4. /\ RunTypeOK' /\ PhaseInv' /\ CommandInv' /\ InTurn' /\ CrashIsTold' /\ leaving' = "raise"
  BY <1>1, <1>3, LeaveKeeps
<1>5. AllAreFine' /\ FaultIsKept' /\ TellsTheWorst'
  BY <1>4 DEF AllAreFine, FaultIsKept, TellsTheWorst
<1>6. QED
  BY <1>4, <1>5 DEF RunInv

(* A part that looks at the node and says what it has found ...            *)
LEMMA FoundKeeps ==
  ASSUME RunInv, pc = "part", NEW o \in Promises[Head(todo)], Look(o), ~HasRaised(o.code)
  PROVE  RunInv'
<1> DEFINE part == Head(todo)
           how == IF inside THEN "no" ELSE "exit"
           seen == [part |-> part, lapse |-> o.lapse, good |-> o.good, bad |-> o.bad]
<1>1. /\ Leave(how) /\ UNCHANGED <<options, inside, todo, sinks, shown, status>>
      /\ looked' = looked \cup {seen} /\ crashed' = crashed /\ switched' = switched
      /\ code' = o.published
      /\ overall' = (IF inside THEN WorseOf(overall, o.code) ELSE o.code)
  BY DEF Look, Combined
<1>2. /\ crashed = {} /\ part \in selected /\ part \in DOMAIN Promises /\ leaving = "no"
      /\ inside => /\ command \in Nested /\ part \in PartsOfMany
                   /\ command # "nvlink" => part \notin ToSet(NvlinkParts)
      /\ ~inside => /\ command \in Singles /\ command \notin Nested /\ looked = {} /\ ~broken
                    /\ selected = {command} /\ part = command /\ part \notin PartsOfMany
  BY AtPart
<1>3. /\ o.code \in Codes /\ o.published \in Codes /\ o.lapse \in STRING
      /\ o.good \in BOOLEAN /\ o.bad \in BOOLEAN
      /\ Truthful(part, o) /\ Told(part, o)
  BY <1>2, Outcomes
<1>4. overall \in Codes /\ published \in SUBSET [part : Parts, code : Codes]
      /\ looked \subseteq [part : selected, lapse : STRING, good : BOOLEAN, bad : BOOLEAN] /\ switched \subseteq selected
  BY DEF RunInv, RunTypeOK, TypeOK
<1>5. inside => /\ overall' \in Codes /\ overall' >= overall /\ overall' >= o.code
                /\ overall' \in {overall, o.code}
  BY <1>1, <1>3, <1>4, WorseIsOneOf
<1>6. seen \in [part : selected, lapse : STRING, good : BOOLEAN, bad : BOOLEAN]
  BY <1>2, <1>3
<1>7. how \in {"no", "exit", "raise"} /\ (how = "no" <=> inside) /\ how # "raise"
  OBVIOUS
<1> HIDE DEF how, seen
<1>8. /\ RunTypeOK' /\ PhaseInv' /\ CommandInv' /\ InTurn' /\ CrashIsTold'
      /\ selected' = selected /\ inside' = inside /\ command' = command /\ published' = published
      /\ broken' = broken /\ PublishedCodes' = PublishedCodes /\ leaving' = how
      /\ \A p \in selected : p \notin Ahead' => p \notin Ahead \/ p = part
      /\ pc' = IF inside THEN "publish" ELSE "output"
  <2>1. /\ looked' \subseteq [part : selected, lapse : STRING, good : BOOLEAN, bad : BOOLEAN]
        /\ switched' \subseteq selected /\ crashed' = {}
        /\ overall' \in Codes /\ code' \in Codes
    BY <1>1, <1>2, <1>3, <1>4, <1>5, <1>6
  <2>2. QED
    BY <1>1, <1>7, <2>1, LeaveKeeps
<1>9. NvlinkCutShort' = NvlinkCutShort
  BY <1>1, <1>8 DEF NvlinkCutShort
<1>10. AllAreFine'
  <2> SUFFICES ASSUME NoFault', ~NvlinkCutShort', NEW p \in selected, p \notin Ahead',
                      p \notin switched
               PROVE  \E l \in looked' : l.part = p /\ Earned(p, l)
    BY <1>1, <1>8 DEF AllAreFine
  <2>1. overall' = OK \/ (inside /\ overall' = UNKNOWN)
    BY <1>8 DEF NoFault
  <2>2. CASE p = part
    <3>1. o.code = OK \/ (part \in PartsOfMany /\ o.code = UNKNOWN)
      BY <1>1, <1>2, <1>3, <1>5, <2>1, CodeNumbers
    <3>2. Earned(part, o)
      BY <1>3, <3>1 DEF Truthful
    <3>3. seen \in looked' /\ seen.part = p /\ Earned(p, seen)
      BY <1>1, <2>2, <3>2 DEF seen, Earned
    <3>4. QED
      BY <3>3
  <2>3. CASE p # part
    <3>1. inside /\ p \notin Ahead
      BY <1>2, <1>8, <2>3
    <3>2. NoFault
      BY <1>4, <1>5, <2>1, <3>1, CodeNumbers DEF NoFault
    <3>3. QED
      BY <1>1, <1>2, <1>9, <3>1, <3>2 DEF RunInv, AllAreFine
  <2>4. QED
    BY <2>2, <2>3
<1>11. FaultIsKept'
  <2> SUFFICES ASSUME ~NvlinkCutShort', NEW l \in looked', Plain(l)
               PROVE  overall' = CRITICAL
    BY DEF FaultIsKept
  <2>1. CASE l = seen
    <3>1. o.code = CRITICAL
      <4>1. o.bad /\ <<part, o.lapse>> \notin Blinding
        BY <2>1 DEF seen, Plain
      <4>2. QED
        BY <1>3, <4>1 DEF Truthful
    <3>2. QED
      BY <1>1, <1>5, <3>1, CodeNumbers
  <2>2. CASE l \in looked
    <3>1. overall = CRITICAL /\ inside
      BY <1>2, <1>9, <2>2 DEF RunInv, FaultIsKept
    <3>2. QED
      BY <1>5, <3>1, CodeNumbers
  <2>3. QED
    BY <1>1, <2>1, <2>2
<1>12. TellsTheWorst'
  <2>1. command \notin {"check_telemetry", "nvlink"} => code' = o.code
    <3>1. command \notin {"check_telemetry", "nvlink"} => part \notin ToSet(NvlinkParts)
      BY <1>2 DEF PartsOfMany
    <3>2. QED
      BY <1>1, <1>3, <3>1 DEF Told
  <2>2. CASE inside
    <3>1. ~broken /\ command \notin {"check_telemetry", "nvlink"} => overall = WorstOf(PublishedCodes)
      BY <1>2, <2>2 DEF RunInv, TellsTheWorst
    <3>2. PublishedCodes \in SUBSET Codes
      BY <1>4 DEF PublishedCodes
    <3>3. WorstOf(PublishedCodes \cup {o.code}) = WorseOf(WorstOf(PublishedCodes), o.code)
      BY <1>3, <3>2, WorstOfMore
    <3>4. QED
      BY <1>1, <1>8, <2>1, <2>2, <3>1, <3>3 DEF TellsTheWorst
  <2>3. CASE ~inside
    BY <1>1, <1>8, <2>1, <2>3 DEF TellsTheWorst
  <2>4. QED
    BY <2>2, <2>3
<1>13. QED
  BY <1>8, <1>10, <1>11, <1>12 DEF RunInv

(* ... or ends with an exception.                                          *)
LEMMA CrashKeeps ==
  ASSUME RunInv, pc = "part", NEW o \in Promises[Head(todo)], Look(o), HasRaised(o.code)
  PROVE  RunInv'
<1> DEFINE part == Head(todo)
           seen == [part |-> part, lapse |-> o.lapse, good |-> o.good, bad |-> o.bad]
<1>1. /\ Leave("raise") /\ UNCHANGED <<options, inside, todo, sinks, shown, status>>
      /\ looked' = looked \cup {seen} /\ crashed' = crashed \cup {part} /\ switched' = switched
      /\ code' = o.published
      /\ overall' = (IF inside THEN overall ELSE CodeOf(o.code))
  BY DEF Look
<1>2. crashed = {} /\ part \in selected /\ part \in DOMAIN Promises
  BY AtPart
<1>3. /\ CodeOf(o.code) \in Codes /\ o.published \in Codes /\ o.lapse \in STRING
      /\ o.good \in BOOLEAN /\ o.bad \in BOOLEAN
      /\ o.published # OK \/ part = "check_ssh_certs"
  BY <1>2, Outcomes DEF Told
<1>4. overall \in Codes /\ switched \subseteq selected
      /\ looked \subseteq [part : selected, lapse : STRING, good : BOOLEAN, bad : BOOLEAN]
  BY DEF RunInv, RunTypeOK, TypeOK
<1>5. /\ looked' \subseteq [part : selected, lapse : STRING, good : BOOLEAN, bad : BOOLEAN]
      /\ switched' \subseteq selected /\ crashed' \subseteq {part}
      /\ overall' \in Codes /\ code' \in Codes /\ (code' # OK \/ part = "check_ssh_certs")
  BY <1>1, <1>2, <1>3, <1>4
<1>6. /\ RunTypeOK' /\ PhaseInv' /\ CommandInv' /\ InTurn' /\ CrashIsTold' /\ leaving' = "raise"
  BY <1>1, <1>5, LeaveKeeps
<1>7. AllAreFine' /\ FaultIsKept' /\ TellsTheWorst'
  BY <1>6 DEF AllAreFine, FaultIsKept, TellsTheWorst
<1>8. QED
  BY <1>6, <1>7 DEF RunInv

-----------------------------------------------------------------------------
(* The contexts.                                                           *)
LEMMA PrintKeeps ==
  ASSUME RunInv, PrintResult
  PROVE  RunInv'
<1>1. /\ pc = "output" /\ pc' = (IF inside THEN "exit" ELSE "publish")
      /\ UNCHANGED <<command, type, selected, inside, todo, code, overall, leaving,
                     looked, switched, crashed, published, broken, status>>
  BY DEF PrintResult, options, history, sinks
<1>2. leaving \in {"exit", "raise"} /\ type \in {"nagios", "prolog"}
  BY <1>1 DEF RunInv, RunTypeOK, TypeOK, PhaseInv
<1>3. shown' \in {"nothing", "warning", "state"}
  BY <1>2 DEF PrintResult
<1>4. RunTypeOK' /\ PhaseInv' /\ CommandInv' /\ InTurn' /\ CrashIsTold'
  <2>1. RunTypeOK'
    <3>1. TypeOK'
      BY <1>1, <1>3 DEF RunInv, RunTypeOK, TypeOK
    <3>2. QED
      BY <1>1, <3>1 DEF RunInv, RunTypeOK
  <2>2. PhaseInv' /\ CommandInv'
    BY <1>1, <1>2 DEF RunInv, PhaseInv, CommandInv, FailedEarly
  <2>3. InTurn'
    BY <1>1 DEF RunInv, InTurn, CommandInv
  <2>4. CrashIsTold'
    BY <1>1 DEF RunInv, CrashIsTold, FailedEarly
  <2>5. QED
    BY <2>1, <2>2, <2>3, <2>4
<1>5. /\ Ahead = {} /\ Ahead' = {} /\ NoFault' = NoFault /\ NvlinkCutShort' = NvlinkCutShort
      /\ PublishedCodes' = PublishedCodes
  BY <1>1, <1>2 DEF Ahead, NoFault, NvlinkCutShort, PublishedCodes
<1>6. AllAreFine' /\ FaultIsKept'
  BY <1>1, <1>5 DEF RunInv, AllAreFine, FaultIsKept
<1>7. TellsTheWorst'
  BY <1>1, <1>5 DEF RunInv, TellsTheWorst
<1>8. QED
  BY <1>4, <1>6, <1>7 DEF RunInv

LEMMA ExitKeeps ==
  ASSUME RunInv, Exit
  PROVE  RunInv'
<1>1. /\ pc = "exit" /\ pc' = "done"
      /\ UNCHANGED <<command, type, selected, inside, todo, code, overall, leaving,
                     looked, switched, crashed, published, broken, shown>>
      /\ status' = IF leaving = "raise" THEN 1 ELSE Value(overall)
  BY DEF Exit, options, history, sinks
<1>2. leaving \in {"exit", "raise"} /\ status' \in {Running, 0, 1, 2, 3}
  <2>1. overall \in Codes /\ leaving \in {"exit", "raise"}
    BY <1>1 DEF RunInv, RunTypeOK, TypeOK, PhaseInv
  <2>2. QED
    BY <1>1, <2>1, CodeNumbers DEF Value
<1>3. RunTypeOK' /\ PhaseInv' /\ CommandInv' /\ InTurn' /\ CrashIsTold'
  <2>1. RunTypeOK'
    <3>1. TypeOK'
      BY <1>1, <1>2 DEF RunInv, RunTypeOK, TypeOK
    <3>2. QED
      BY <1>1, <3>1 DEF RunInv, RunTypeOK
  <2>2. PhaseInv' /\ CommandInv'
    BY <1>1, <1>2 DEF RunInv, PhaseInv, CommandInv, FailedEarly
  <2>3. InTurn'
    BY <1>1 DEF RunInv, InTurn
  <2>4. CrashIsTold'
    BY <1>1 DEF RunInv, CrashIsTold, FailedEarly
  <2>5. QED
    BY <2>1, <2>2, <2>3, <2>4
<1>4. /\ Ahead = {} /\ Ahead' = {} /\ NoFault' = NoFault /\ NvlinkCutShort' = NvlinkCutShort
      /\ PublishedCodes' = PublishedCodes
  BY <1>1 DEF Ahead, NoFault, NvlinkCutShort, PublishedCodes
<1>5. AllAreFine' /\ FaultIsKept'
  BY <1>1, <1>4 DEF RunInv, AllAreFine, FaultIsKept
<1>6. TellsTheWorst'
  BY <1>1, <1>4 DEF RunInv, TellsTheWorst
<1>7. QED
  BY <1>3, <1>5, <1>6 DEF RunInv

(* After a telemetry comes the next part's turn, or the way out begins.    *)
LEMMA AfterPublishMoves ==
  ASSUME RunInv, pc = "publish", NEW how \in {leaving, "raise"}, AfterPublish(how), UNCHANGED inside
  PROVE  \/ /\ how = "no" /\ inside /\ leaving = "no" /\ todo # <<>> /\ Tail(todo) # <<>>
            /\ todo' = Tail(todo) /\ code' = UNKNOWN /\ leaving' = "no" /\ pc' = "part"
         \/ /\ todo' = todo /\ code' = code /\ leaving' \in {"exit", "raise"}
            /\ leaving' = "raise" <=> how = "raise"
            /\ pc' = (IF inside THEN "output" ELSE "exit")
            /\ how # "raise" => how = leaving /\ Ahead = {}
<1>1. /\ leaving \in {"no", "exit", "raise"} /\ todo \in Seq(DOMAIN Promises)
      /\ leaving = "no" => inside /\ todo # <<>>
  BY DEF RunInv, RunTypeOK, TypeOK, PhaseInv, CommandInv
<1>2. /\ how \in {"no", "exit", "raise"}
      /\ how = "no" => leaving = "no" /\ inside /\ todo # <<>>
  BY <1>1
<1>3. CASE how = "no" /\ Len(todo) > 1
  <2>1. Tail(todo) # <<>>
    BY <1>1, <1>2, <1>3, TurnFacts
  <2>2. QED
    BY <1>2, <1>3, <2>1 DEF AfterPublish
<1>4. CASE ~(how = "no" /\ Len(todo) > 1)
  <2>1. /\ todo' = todo /\ code' = code /\ leaving' = (IF how = "no" THEN "exit" ELSE how)
        /\ pc' = (IF inside THEN "output" ELSE "exit")
    BY <1>4 DEF AfterPublish
  <2>2. how = "no" => ToSet(Tail(todo)) = {}
    BY <1>1, <1>2, <1>4, TurnFacts
  <2>3. QED
    BY <1>2, <2>1, <2>2 DEF Ahead
<1>5. QED
  BY <1>3, <1>4

LEMMA PublicationKeeps ==
  ASSUME RunInv, pc = "publish", NEW how \in {leaving, "raise"}, AfterPublish(how),
         UNCHANGED <<options, inside, overall, history, shown, status>>,
         published' = published \/ published' = published \cup {Record}, broken' \in BOOLEAN,
         ~broken' => ~broken /\ how = leaving /\ published' = published \cup {Record}
  PROVE  RunInv'
<1>1. /\ command' = command /\ type' = type /\ selected' = selected /\ inside' = inside
      /\ overall' = overall /\ looked' = looked /\ switched' = switched /\ crashed' = crashed
      /\ shown' = shown /\ status' = status
  BY DEF options, history
<1>2. \/ /\ how = "no" /\ inside /\ leaving = "no" /\ todo # <<>> /\ Tail(todo) # <<>>
         /\ todo' = Tail(todo) /\ code' = UNKNOWN /\ leaving' = "no" /\ pc' = "part"
      \/ /\ todo' = todo /\ code' = code /\ leaving' \in {"exit", "raise"}
         /\ leaving' = "raise" <=> how = "raise"
         /\ pc' = (IF inside THEN "output" ELSE "exit")
         /\ how # "raise" => how = leaving /\ Ahead = {}
  BY <1>1, AfterPublishMoves
<1>3. /\ todo \in Seq(DOMAIN Promises) /\ ToSet(todo) \subseteq selected /\ code \in Codes
      /\ published \in SUBSET [part : Parts, code : Codes] /\ crashed \subseteq selected
      /\ todo = <<>> => command = "check_telemetry" /\ crashed = {} /\ ~inside
      /\ Distinct(todo)
  BY DEF RunInv, RunTypeOK, TypeOK, PhaseInv, CommandInv, InTurn
<1>4. /\ Record \in [part : Parts, code : Codes] /\ Record.code = code
      /\ todo # <<>> => Record.part = Head(todo)
  <2>1. todo # <<>> => Head(todo) \in Parts
    BY <1>3, TurnFacts DEF Parts
  <2>2. QED
    BY <1>3, <2>1 DEF Record, Parts
<1>5. todo # <<>> => /\ Tail(todo) \in Seq(DOMAIN Promises) /\ ToSet(Tail(todo)) \subseteq ToSet(todo)
                    /\ Distinct(Tail(todo)) /\ Head(todo) \notin ToSet(Tail(todo))
  BY <1>3, TurnFacts
<1>6. RunTypeOK'
  <2>1. todo' \in Seq(DOMAIN Promises) /\ ToSet(todo') \subseteq selected' /\ code' \in Codes
    BY <1>1, <1>2, <1>3, <1>5, CodeNumbers
  <2>2. published' \in SUBSET [part : Parts, code : Codes]
    BY <1>3, <1>4
  <2>3. pc' \in {"part", "output", "exit"} /\ leaving' \in {"no", "exit", "raise"}
    BY <1>2
  <2>4. TypeOK'
    BY <1>1, <2>1, <2>2, <2>3 DEF RunInv, RunTypeOK, TypeOK
  <2>5. QED
    BY <2>1, <2>2, <2>4 DEF RunTypeOK
<1>7. PhaseInv'
  BY <1>1, <1>2, <1>3 DEF RunInv, PhaseInv
<1>8. CommandInv'
  <2>1. inside => command \notin Singles
    BY NamesAssumption DEF RunInv, CommandInv, Singles, Nested
  <2>2. QED
    BY <1>1, <1>2, <2>1 DEF RunInv, CommandInv, FailedEarly
<1>9. /\ NoFault' = NoFault /\ NvlinkCutShort' = NvlinkCutShort
      /\ leaving' # "raise" => leaving # "raise" /\ Ahead' = Ahead
  <2>1. NoFault' = NoFault /\ NvlinkCutShort' = NvlinkCutShort
    BY <1>1 DEF NoFault, NvlinkCutShort
  <2>2. leaving' # "raise" => leaving # "raise" /\ Ahead' = Ahead
    BY <1>2 DEF Ahead
  <2>3. QED
    BY <2>1, <2>2
<1>10. AllAreFine' /\ FaultIsKept'
  BY <1>1, <1>9 DEF RunInv, AllAreFine, FaultIsKept
<1>11. TellsTheWorst'
  <2> SUFFICES ASSUME leaving' # "raise", ~broken', command' \notin {"check_telemetry", "nvlink"}
               PROVE  /\ inside' /\ pc' \in {"part", "output"} => overall' = WorstOf(PublishedCodes')
                      /\ ~inside' => pc' = "exit" /\ PublishedCodes' = {overall'}
                      /\ pc' \in {"part", "output", "exit"} /\ (inside' => pc' # "exit")
    BY DEF TellsTheWorst
  <2>1. leaving # "raise" /\ ~broken /\ published' = published \cup {Record}
    BY <1>9
  <2>2. PublishedCodes' = PublishedCodes \cup {code}
    BY <1>4, <2>1 DEF PublishedCodes
  <2>3. inside => overall = WorstOf(PublishedCodes \cup {code})
    BY <1>1, <2>1 DEF RunInv, TellsTheWorst
  <2>4. ~inside => code = overall /\ PublishedCodes = {}
    BY <1>1, <2>1 DEF RunInv, TellsTheWorst, CommandInv, PublishedCodes
  <2>5. QED
    BY <1>1, <1>2, <2>2, <2>3, <2>4
<1>12. InTurn'
  <2>1. Distinct(todo')
    BY <1>2, <1>3, <1>5
  <2>2. ASSUME pc' = "part", NEW r \in published' PROVE r.part \notin ToSet(todo')
    <3>1. inside /\ todo' = Tail(todo) /\ todo # <<>>
      BY <1>2, <2>2
    <3>2. CASE r \in published
      BY <1>5, <3>1, <3>2 DEF RunInv, InTurn
    <3>3. CASE r = Record
      BY <1>4, <1>5, <3>1, <3>3
    <3>4. QED
      BY <2>2, <3>2, <3>3
  <2>3. pc' \in {"part", "output", "exit"}
    BY <1>2
  <2>4. QED
    BY <2>1, <2>2, <2>3 DEF InTurn
<1>13. CrashIsTold'
  <2>1. crashed # {} => /\ leaving = "raise" /\ crashed = {Head(todo)} /\ todo' = todo /\ code' = code
                        /\ leaving' = "raise" /\ (code # OK \/ Head(todo) = "check_ssh_certs") /\ todo # <<>>
    BY <1>2, <1>3 DEF RunInv, CrashIsTold, FailedEarly
  <2>2. ASSUME NEW r \in published', r.part \in crashed \ {"check_ssh_certs"} PROVE r.code # OK
    <3>1. CASE r \in published
      BY <2>2, <3>1 DEF RunInv, CrashIsTold
    <3>2. CASE r = Record
      BY <1>4, <2>1, <2>2, <3>2
    <3>3. QED
      BY <2>2, <3>1, <3>2
  <2>3. pc' = "part" => code' = UNKNOWN
    BY <1>2
  <2>4. QED
    BY <1>1, <2>1, <2>2, <2>3 DEF CrashIsTold
<1>14. QED
  BY <1>6, <1>7, <1>8, <1>10, <1>11, <1>12, <1>13 DEF RunInv

LEMMA PublishKeeps ==
  ASSUME RunInv, Publish \/ WriteFails \/ SinkRaises
  PROVE  RunInv'
<1>1. broken \in BOOLEAN
  BY DEF RunInv, RunTypeOK, TypeOK
<1>2. CASE Publish
  BY <1>1, <1>2, PublicationKeeps DEF Publish
<1>3. CASE WriteFails
  BY <1>1, <1>3, PublicationKeeps DEF WriteFails
<1>4. CASE SinkRaises
  BY <1>1, <1>4, PublicationKeeps DEF SinkRaises
<1>5. QED
  BY <1>2, <1>3, <1>4

-----------------------------------------------------------------------------
LEMMA StutterKeeps == ASSUME RunInv, UNCHANGED vars PROVE RunInv'
<1>1. UNCHANGED <<command, type, selected, inside, todo, pc, code, overall, leaving,
                  looked, switched, crashed, published, broken, shown, status>>
  BY DEF vars, options, history, sinks
<1>2. RunTypeOK' /\ PhaseInv' /\ CommandInv'
  BY <1>1 DEF RunInv, RunTypeOK, TypeOK, PhaseInv, CommandInv, Fresh, FailedEarly
<1>3. Ahead' = Ahead /\ NoFault' = NoFault /\ NvlinkCutShort' = NvlinkCutShort /\ PublishedCodes' = PublishedCodes
  BY <1>1 DEF Ahead, NoFault, NvlinkCutShort, PublishedCodes
<1>4. AllAreFine' /\ FaultIsKept' /\ TellsTheWorst' /\ InTurn' /\ CrashIsTold'
  BY <1>1, <1>3 DEF RunInv, AllAreFine, FaultIsKept, TellsTheWorst, InTurn, CrashIsTold, FailedEarly
<1>5. QED
  BY <1>2, <1>4 DEF RunInv

LEMMA InvNext == RunInv /\ [Next]_vars => RunInv'
<1> SUFFICES ASSUME RunInv, [Next]_vars PROVE RunInv'
  OBVIOUS
<1>1. CASE Begin
  <2>1. ASSUME NEW c \in Singles, Select(c, <<c>>) PROVE RunInv'
    BY <2>1, SelectKeeps
  <2>2. ASSUME NEW c \in Nested, NEW parts \in Selections(c), Select(c, parts) PROVE RunInv'
    BY <2>2, SelectKeeps
  <2>3. ASSUME NEW c \in Codes, RecordOnly(c) PROVE RunInv'
    BY <2>3, RecordOnlyKeeps
  <2>4. ASSUME NEW c \in Singles, FailsEarly(c, <<c>>) PROVE RunInv'
    BY <2>4, FailsEarlyKeeps
  <2>5. ASSUME NEW c \in Nested, NEW parts \in Selections(c), FailsEarly(c, parts) PROVE RunInv'
    BY <2>5, FailsEarlyKeeps
  <2>6. QED
    BY <1>1, <2>1, <2>2, <2>3, <2>4, <2>5 DEF Begin
<1>2. CASE InitFails
  BY <1>2, InitFailsKeeps
<1>3. ASSUME NEW read \in KillSwitch, CommandSwitch(read) PROVE RunInv'
  BY <1>3, CommandSwitchKeeps
<1>4. CASE RunPart
  <2>1. ASSUME NEW o \in Promises[Head(todo)], Look(o) PROVE RunInv'
    <3>1. pc = "part"
      BY <2>1 DEF Look
    <3>2. QED
      BY <2>1, <3>1, FoundKeeps, CrashKeeps
  <2>2. QED
    BY <1>4, <2>1, PartIsOffKeeps, PartSwitchRaisesKeeps DEF RunPart
<1>5. CASE PrintResult
  BY <1>5, PrintKeeps
<1>6. CASE Publish \/ WriteFails \/ SinkRaises
  BY <1>6, PublishKeeps
<1>7. CASE Exit
  BY <1>7, ExitKeeps
<1>8. CASE UNCHANGED vars
  BY <1>8, StutterKeeps
<1>9. QED
  BY <1>1, <1>2, <1>3, <1>4, <1>5, <1>6, <1>7, <1>8 DEF Next, Done

(* Wherever a health check is, its state is accounted for: RunInv.         *)
THEOREM RunInvariance == Spec => []RunInv
<1>1. Init => RunInv
  BY InvInit
<1>2. RunInv /\ [Next]_vars => RunInv'
  BY InvNext
<1>3. QED
  BY <1>1, <1>2, PTL DEF Spec

(* The types of HealthCheckRun.                                            *)
THEOREM RunKeepsTypes == Spec => []TypeOK
<1>1. RunInv => TypeOK
  BY DEF RunInv, RunTypeOK
<1>2. QED
  BY <1>1, RunInvariance, PTL

(* Exit status 0 means that every part that was selected has looked and    *)
(* found the node good, or was kept from it by a lapse of KnownLapses (a   *)
(* killed command above all), or is switched off, whatever other parts,    *)
(* kill switches, exceptions and sinks do: sys.exit(overall_exit_code).    *)
THEOREM OkIsEarned == Spec => []NoFalseOk
<1>1. RunInv => NoFalseOk
  <2> SUFFICES ASSUME RunInv, status = 0, ~NvlinkCutShort,
                      NEW part \in selected \ switched
               PROVE  \E l \in looked : l.part = part /\ Earned(part, l)
    BY DEF NoFalseOk
  <2>1. pc = "done" /\ leaving # "raise" /\ Value(overall) = 0
    BY DEF RunInv, PhaseInv, Running
  <2>2. overall = OK
    BY <2>1, CodeNumbers DEF RunInv, RunTypeOK, TypeOK, Value
  <2>3. NoFault /\ Ahead = {}
    BY <2>1, <2>2 DEF NoFault, Ahead
  <2>4. QED
    BY <2>1, <2>3 DEF RunInv, AllAreFine
<1>2. QED
  BY <1>1, RunInvariance, PTL

(* A fault that a part has seen is CRITICAL in the end, or an exception.   *)
THEOREM FaultsAreTold == Spec => []FaultsAreCritical
<1>1. RunInv => FaultsAreCritical
  <2> SUFFICES ASSUME RunInv, pc = "done", ~NvlinkCutShort,
                      NEW l \in looked, Plain(l)
               PROVE  status = 2 \/ (status = 1 /\ leaving = "raise")
    BY DEF FaultsAreCritical, Plain
  <2>1. status = IF leaving = "raise" THEN 1 ELSE Value(overall)
    BY DEF RunInv, PhaseInv
  <2>2. leaving # "raise" => overall = CRITICAL
    BY DEF RunInv, FaultIsKept
  <2>3. QED
    BY <2>1, <2>2, CodeNumbers DEF Value
<1>2. QED
  BY <1>1, RunInvariance, PTL

(* What the fleet sees adds up to the status the scheduler sees.           *)
THEOREM RecordsMatchExit == Spec => []PublishedMatchesExit
<1>1. RunInv => PublishedMatchesExit
  <2> SUFFICES ASSUME RunInv, pc = "done", leaving = "exit", ~broken, published # {},
                      command \notin {"check_telemetry", "nvlink"}
               PROVE  status = Value(WorstOf(PublishedCodes))
    BY DEF PublishedMatchesExit, PublishedCodes
  <2>1. status = Value(overall) /\ overall \in Codes
    BY DEF RunInv, RunTypeOK, TypeOK, PhaseInv
  <2>2. overall = WorstOf(PublishedCodes)
    BY <2>1, WorstOfOne DEF RunInv, TellsTheWorst
  <2>3. QED
    BY <2>1, <2>2
<1>2. QED
  BY <1>1, RunInvariance, PTL

(* A part that ended with an exception lets the command exit with 1, and   *)
(* its TelemetryContext does not publish OK.                               *)
THEOREM CrashesAreTold == Spec => []CrashIsNotOk
<1>1. RunInv => CrashIsNotOk
  BY DEF RunInv, PhaseInv, CrashIsTold, CrashIsNotOk
<1>2. QED
  BY <1>1, RunInvariance, PTL

(* `if exit_code > overall_exit_code`: no part takes back what another has *)
(* found.                                                                  *)
THEOREM OverallOnlyRises == Spec => OverallNeverFalls
<1>1. ASSUME RunInv, [Next]_vars PROVE [inside => overall' >= overall \/ NvlinkCutShort']_vars
  <2> SUFFICES ASSUME Next, inside PROVE overall' >= overall \/ NvlinkCutShort'
    BY <1>1
  <2>1. overall \in Codes
    BY <1>1 DEF RunInv, RunTypeOK, TypeOK
  <2>2. CASE overall' = overall
    BY <2>1, <2>2, CodeNumbers
  <2>3. CASE Begin
    BY <1>1, <2>3 DEF Begin, Select, RecordOnly, RunInv, PhaseInv, CommandInv
  <2>4. CASE InitFails
    BY <1>1, <2>4, CodeNumbers DEF InitFails, RunInv, PhaseInv
  <2>5. ASSUME NEW read \in KillSwitch, CommandSwitch(read) PROVE overall' >= overall
    <3>1. overall = UNKNOWN
      BY <1>1, <2>5 DEF CommandSwitch, RunInv, PhaseInv
    <3>2. overall' = overall \/ overall' = OK
      BY <2>5 DEF CommandSwitch, KillSwitch
    <3>3. QED
      BY <3>1, <3>2, CodeNumbers
  <2>6. CASE RunPart
    <3>1. ASSUME NEW o \in Promises[Head(todo)], Look(o) PROVE overall' >= overall
      <4>1. CASE HasRaised(o.code)
        BY <2>1, <3>1, <4>1, CodeNumbers DEF Look
      <4>2. CASE ~HasRaised(o.code)
        <5>1. o.code \in Codes
          BY <1>1, <3>1, <4>2, AtPart, Outcomes DEF Look
        <5>2. overall' = WorseOf(overall, o.code)
          BY <3>1, <4>2 DEF Look, Combined
        <5>3. QED
          BY <2>1, <5>1, <5>2, WorseIsOneOf
      <4>3. QED
        BY <4>1, <4>2
    <3>2. CASE PartIsOff
      <4>1. command \in Nested /\ OK \in Codes
        BY <1>1, CodeNumbers DEF RunInv, CommandInv
      <4>2. CASE command = "check_nvidia_smi"
        BY <2>1, <3>2, <4>1, <4>2, WorseIsOneOf DEF PartIsOff
      <4>3. CASE command = "nvlink"
        BY <3>2, <4>3 DEF PartIsOff, NvlinkCutShort, options
      <4>4. QED
        BY <4>1, <4>2, <4>3 DEF Nested
    <3>3. CASE PartSwitchRaises
      BY <2>2, <3>3 DEF PartSwitchRaises
    <3>4. QED
      BY <2>6, <3>1, <3>2, <3>3 DEF RunPart
  <2>7. CASE PrintResult \/ Publish \/ WriteFails \/ SinkRaises \/ Exit \/ Done
    BY <2>2, <2>7 DEF PrintResult, Publish, WriteFails, SinkRaises, Exit, Done, vars
  <2>8. QED
    BY <2>3, <2>4, <2>5, <2>6, <2>7 DEF Next
<1>2. QED
  BY <1>1, RunInvariance, PTL DEF Spec, OverallNeverFalls

-----------------------------------------------------------------------------
(* GpuProcesses: when check_and_kill_running_procs says OK, no process     *)
(* that was there when its last round over the GPUs began still runs.      *)
Phases == {"begin", "list", "judge", "decide", "sleep", "kill?", "kill", "listAgain",
           "judgeAgain", "decideAgain", "done", "raised"}

GpuTypeOK ==
  /\ gpuOf \in [Pids -> 1 .. NumGpus]
  /\ proc \in [Pids -> {"none", "running", "held", "gone"}]
  /\ gpuPc \in Phases
  /\ device \in 1 .. NumGpus
  /\ found \in Codes /\ result \in Codes
  /\ arrived \in BOOLEAN

RoundPhases == {"list", "judge", "listAgain", "judgeAgain"}

(* The GPUs before `device` are behind this round, and are free as long as   *)
(* the round has found nothing.                                              *)
BehindIsFree ==
  gpuPc \in RoundPhases /\ found = OK /\ ~ arrived =>
    \A p \in Living : gpuOf[p] >= device

(* What runs on the GPU that is judged has been listed.                      *)
ListedIsComplete ==
  gpuPc \in {"judge", "judgeAgain"} /\ ~ arrived =>
    \A p \in Living : gpuOf[p] = device => p \in listed

(* A round that ends with OK has found all GPUs free, ...                    *)
RoundMeansFree ==
  gpuPc \in {"decide", "decideAgain"} /\ found = OK /\ ~ arrived => Living = {}

(* ... and OK is said after such a round only.                               *)
ResultMeansFree ==
  gpuPc \in {"kill?", "done"} /\ result = OK /\ retryCount > 0 /\ ~ arrived => Living = {}

GpuInv == /\ GpuTypeOK /\ BehindIsFree /\ ListedIsComplete
          /\ RoundMeansFree /\ ResultMeansFree

-----------------------------------------------------------------------------
(* No round has begun. *)
LEMMA GpuInvInit ==
  GpuInit => GpuInv
<1> SUFFICES ASSUME GpuInit PROVE GpuInv
  OBVIOUS
<1> USE DEF GpuInit
<1>1. GpuTypeOK
  <2>1. 1 \in 1 .. NumGpus
    BY GpusAssumption
  <2>2. \A p \in Pids : proc[p] \in {"none", "running", "held", "gone"}
    OBVIOUS
  <2>3. proc \in [Pids -> {"none", "running", "held", "gone"}]
    BY <2>2
  <2>4. OK \in Codes
    BY DEF Codes, UNKNOWN, OK, CRITICAL
  <2>5. gpuOf \in [Pids -> 1 .. NumGpus] /\ gpuPc \in Phases /\ arrived \in BOOLEAN
    BY DEF Phases
  <2>6. QED
    BY <2>1, <2>3, <2>4, <2>5 DEF GpuTypeOK
<1>2. QED
  BY <1>1
  DEF GpuInv, BehindIsFree, ListedIsComplete, RoundMeansFree, ResultMeansFree, RoundPhases

(* A process that ends or leaves its GPU only makes more of them free, and   *)
(* one that starts is one that has arrived.                                  *)
LEMMA NodeKeepsInv == GpuInv /\ Node => GpuInv'
<1> SUFFICES ASSUME GpuInv, Node PROVE GpuInv'
  OBVIOUS
<1>1. /\ UNCHANGED <<gpuOf, gpuPc, device, listed, found, result, retryCount>>
      /\ proc' \in [Pids -> {"none", "running", "held", "gone"}]
      /\ arrived' \in BOOLEAN
      /\ ~ arrived' => ~ arrived /\ Living' \subseteq Living
  <2>1. PICK p \in Pids : Start(p) \/ Die(p) \/ Release(p)
    BY DEF Node
  <2>2. UNCHANGED <<gpuOf, gpuPc, device, listed, found, result, retryCount>>
    BY <2>1 DEF Start, Die, Release, gpuOptions, killing
  <2>3. PICK s \in {"running", "held", "gone"} :
          /\ proc' = [proc EXCEPT ![p] = s]
          /\ arrived' = TRUE \/ (arrived' = arrived /\ s # "running")
    BY <2>1 DEF Start, Die, Release, Leaves
  <2>4. proc' \in [Pids -> {"none", "running", "held", "gone"}]
    BY <2>3 DEF GpuInv, GpuTypeOK
  <2>5. s # "running" => Living' \subseteq Living
    BY <2>3 DEF GpuInv, GpuTypeOK, Living
  <2>6. arrived' \in BOOLEAN /\ (~ arrived' => ~ arrived /\ s # "running")
    BY <2>3 DEF GpuInv, GpuTypeOK
  <2>7. QED
    BY <2>2, <2>4, <2>5, <2>6
<1>2. GpuTypeOK'
  BY <1>1 DEF GpuInv, GpuTypeOK
<1>3. BehindIsFree' /\ ListedIsComplete'
  BY <1>1 DEF GpuInv, BehindIsFree, ListedIsComplete
<1>4. RoundMeansFree' /\ ResultMeansFree'
  BY <1>1 DEF GpuInv, RoundMeansFree, ResultMeansFree
<1>5. QED
  BY <1>2, <1>3, <1>4 DEF GpuInv

(* A new round has no GPU behind it. *)
LEMMA RoundKeepsInv ==
  ASSUME GpuInv, NEW phase \in {"list", "listAgain"}, Round(phase),
         result' \in Codes, UNCHANGED <<gpuOf, proc>>
  PROVE  GpuInv'
<1>1. gpuPc' = phase /\ device' = 1 /\ found' = OK /\ arrived' = FALSE
  BY DEF Round
<1>2. 1 \in 1 .. NumGpus /\ OK \in Codes
  BY GpusAssumption DEF Codes, UNKNOWN, OK, CRITICAL
<1>3. GpuTypeOK'
  BY <1>1, <1>2 DEF GpuInv, GpuTypeOK, Phases
<1>4. \A p \in Pids : gpuOf'[p] \in 1 .. NumGpus
  BY DEF GpuInv, GpuTypeOK
<1>5. BehindIsFree'
  BY <1>1, <1>4, GpusAssumption DEF BehindIsFree, Living
<1>6. ListedIsComplete' /\ RoundMeansFree' /\ ResultMeansFree'
  BY <1>1 DEF ListedIsComplete, RoundMeansFree, ResultMeansFree
<1>7. QED
  BY <1>3, <1>5, <1>6 DEF GpuInv

(* To the next GPU, or, after the last, to the end of the round: with        *)
(* nothing found only if this GPU is free, too.                              *)
LEMMA NextDeviceKeepsInv ==
  ASSUME GpuInv, gpuPc \in RoundPhases, NextDevice, found' \in Codes,
         found' = OK => found = OK /\ (~ arrived => \A p \in Living : gpuOf[p] # device),
         UNCHANGED <<gpuOf, proc, result, retryCount, arrived>>
  PROVE  GpuInv'
<1>1. /\ device' \in 1 .. NumGpus
      /\ \/ device < NumGpus /\ device' = device + 1 /\ gpuPc' \in {"list", "listAgain"}
         \/ device = NumGpus /\ gpuPc' \in {"decide", "decideAgain"}
  BY GpusAssumption DEF NextDevice, GpuInv, GpuTypeOK
<1>2. GpuTypeOK'
  BY <1>1 DEF GpuInv, GpuTypeOK, Phases
<1>3. \A p \in Pids : gpuOf[p] \in 1 .. NumGpus
  BY DEF GpuInv, GpuTypeOK
<1>4. ASSUME found' = OK, ~ arrived PROVE \A p \in Living : gpuOf[p] > device
  BY <1>3, <1>4, GpusAssumption DEF GpuInv, GpuTypeOK, BehindIsFree, Living
<1>5. BehindIsFree'
  <2>1. SUFFICES ASSUME gpuPc' \in RoundPhases, found' = OK, ~ arrived, NEW p \in Living
                 PROVE  gpuOf[p] >= device'
    BY DEF BehindIsFree, Living
  <2>2. device' = device + 1 /\ device \in Nat
    BY <1>1, <2>1, GpusAssumption DEF RoundPhases, GpuInv, GpuTypeOK
  <2>3. gpuOf[p] > device /\ gpuOf[p] \in Nat
    BY <1>3, <1>4, <2>1, GpusAssumption DEF Living
  <2>4. QED
    BY <2>2, <2>3
<1>6. RoundMeansFree'
  <2>1. SUFFICES ASSUME gpuPc' \in {"decide", "decideAgain"}, found' = OK, ~ arrived
                 PROVE  Living = {}
    BY DEF RoundMeansFree, Living
  <2>2. device = NumGpus
    BY <1>1, <2>1
  <2>3. QED
    BY <1>3, <1>4, <2>1, <2>2, GpusAssumption DEF Living
<1>7. ListedIsComplete' /\ ResultMeansFree'
  BY <1>1 DEF ListedIsComplete, ResultMeansFree
<1>8. QED
  BY <1>2, <1>5, <1>6, <1>7 DEF GpuInv

(* Where no round is under way and nothing is concluded, there is nothing to *)
(* show but types.                                                           *)
LEMMA ElsewhereKeepsInv ==
  ASSUME GpuTypeOK', gpuPc' \notin RoundPhases \cup {"decide", "decideAgain", "kill?", "done"}
  PROVE  GpuInv'
  BY DEF GpuInv, BehindIsFree, ListedIsComplete, RoundMeansFree, ResultMeansFree, RoundPhases

LEMMA CheckKeepsInv ==
  ASSUME GpuInv, CheckStep
  PROVE  GpuInv'
<1>0. OK \in Codes /\ WARN \in Codes /\ CRITICAL \in Codes /\ OK # WARN /\ OK # CRITICAL
  BY DEF Codes, UNKNOWN, OK, WARN, CRITICAL
<1>1. CASE NoDevices
  <2>1. /\ gpuPc' = "done" /\ retryCount' = 0 /\ result' \in Codes
        /\ UNCHANGED <<gpuOf, proc, device, found, arrived>>
    BY <1>0, <1>1 DEF NoDevices, world
  <2>2. GpuTypeOK'
    BY <2>1 DEF GpuInv, GpuTypeOK, Phases
  <2>3. QED
    BY <2>1, <2>2
    DEF GpuInv, BehindIsFree, ListedIsComplete, RoundMeansFree, ResultMeansFree, RoundPhases
<1>2. CASE GpuBegin
  <2>1. CASE retryCount = 0
    <3>1. /\ gpuPc' = "kill?" /\ retryCount' = 0
          /\ UNCHANGED <<gpuOf, proc, device, found, result, arrived>>
      BY <1>2, <2>1 DEF GpuBegin, world, gpuOptions
    <3>2. GpuTypeOK'
      BY <3>1 DEF GpuInv, GpuTypeOK, Phases
    <3>3. QED
      BY <3>1, <3>2
      DEF GpuInv, BehindIsFree, ListedIsComplete, RoundMeansFree, ResultMeansFree, RoundPhases
  <2>2. CASE retryCount # 0
    BY <1>2, <2>2, RoundKeepsInv DEF GpuBegin, world, GpuInv, GpuTypeOK
  <2>3. QED
    BY <2>1, <2>2
<1>3. CASE ListFails
  <2>1. PICK c \in {WARN, CRITICAL} : found' = WorseOf(found, c)
    BY <1>3 DEF ListFails
  <2>2. found' \in Codes /\ found' # OK
    BY <1>0, <2>1 DEF GpuInv, GpuTypeOK, WorseOf, Codes, UNKNOWN, OK, WARN, CRITICAL
  <2>3. gpuPc \in RoundPhases /\ NextDevice
        /\ UNCHANGED <<gpuOf, proc, result, retryCount, arrived>>
    BY <1>3 DEF ListFails, RoundPhases, world, gpuOptions
  <2>4. QED
    BY <2>2, <2>3, NextDeviceKeepsInv
<1>4. CASE List
  <2>1. /\ gpuPc \in {"list", "listAgain"} /\ gpuPc' \in {"judge", "judgeAgain"}
        /\ listed' = { p \in Pids : gpuOf[p] = device /\ proc[p] \in {"running", "held"} }
        /\ UNCHANGED <<gpuOf, proc, device, found, result, retryCount, arrived>>
    BY <1>4 DEF List, world, gpuOptions
  <2>2. GpuTypeOK'
    BY <2>1 DEF GpuInv, GpuTypeOK, Phases
  <2>3. BehindIsFree'
    BY <2>1 DEF GpuInv, BehindIsFree, RoundPhases, Living
  <2>4. ListedIsComplete'
    BY <2>1 DEF ListedIsComplete, Living
  <2>5. RoundMeansFree' /\ ResultMeansFree'
    BY <2>1 DEF RoundMeansFree, ResultMeansFree
  <2>6. QED
    BY <2>2, <2>3, <2>4, <2>5 DEF GpuInv
<1>5. CASE Judge
  <2>1. /\ gpuPc \in {"judge", "judgeAgain"} /\ NextDevice
        /\ found' = IF listed \cap Living = {} THEN found ELSE CRITICAL
        /\ UNCHANGED <<gpuOf, proc, result, retryCount, arrived>>
    BY <1>5 DEF Judge, world, gpuOptions
  <2>2. found' \in Codes
    BY <1>0, <2>1 DEF GpuInv, GpuTypeOK
  <2>3. ASSUME found' = OK
        PROVE  found = OK /\ (~ arrived => \A p \in Living : gpuOf[p] # device)
    BY <1>0, <2>1, <2>3 DEF GpuInv, ListedIsComplete
  <2>4. QED
    BY <2>1, <2>2, <2>3, NextDeviceKeepsInv DEF RoundPhases
<1>6. CASE Decide
  <2>1. /\ gpuPc = "decide"
        /\ \/ /\ gpuPc' = "sleep" /\ result' = result
           \/ /\ gpuPc' = "kill?" /\ result' \in Codes /\ (result' = OK => found = OK)
        /\ UNCHANGED <<gpuOf, proc, device, found, retryCount, arrived>>
    <3>1. found \in Codes
      BY DEF GpuInv, GpuTypeOK
    <3>2. UNCHANGED <<gpuOf, proc, device, found, retryCount, arrived>>
      BY <1>6 DEF Decide, world, gpuOptions
    <3>3. CASE found = OK
      BY <1>0, <1>6, <3>2, <3>3 DEF Decide
    <3>4. CASE found # OK
      BY <1>6, <3>1, <3>2, <3>4 DEF Decide
    <3>5. QED
      BY <3>3, <3>4
  <2>2. GpuTypeOK'
    BY <2>1 DEF GpuInv, GpuTypeOK, Phases
  <2>3. ResultMeansFree'
    BY <2>1 DEF GpuInv, RoundMeansFree, ResultMeansFree, Living
  <2>4. BehindIsFree' /\ ListedIsComplete' /\ RoundMeansFree'
    BY <2>1 DEF BehindIsFree, ListedIsComplete, RoundMeansFree, RoundPhases
  <2>5. QED
    BY <2>2, <2>3, <2>4 DEF GpuInv
<1>7. CASE Retry
  BY <1>7, RoundKeepsInv DEF Retry, world, GpuInv, GpuTypeOK
<1>8. CASE DoNotKill
  <2>1. /\ gpuPc = "kill?" /\ gpuPc' = "done"
        /\ UNCHANGED <<gpuOf, proc, device, listed, found, result, retryCount, arrived>>
    BY <1>8 DEF DoNotKill, world, gpuOptions
  <2>2. GpuTypeOK'
    BY <2>1 DEF GpuInv, GpuTypeOK, Phases
  <2>3. ResultMeansFree'
    BY <2>1 DEF GpuInv, ResultMeansFree, Living
  <2>4. BehindIsFree' /\ ListedIsComplete' /\ RoundMeansFree'
    BY <2>1 DEF BehindIsFree, ListedIsComplete, RoundMeansFree, RoundPhases
  <2>5. QED
    BY <2>2, <2>3, <2>4 DEF GpuInv
<1>9. CASE Attach
  <2>1. gpuPc' \in {"kill", "raised"} /\ UNCHANGED <<gpuOf, proc, device, found, result, arrived>>
    BY <1>9 DEF Attach, world
  <2>2. GpuTypeOK'
    BY <2>1 DEF GpuInv, GpuTypeOK, Phases
  <2>3. QED
    BY <2>1, <2>2, ElsewhereKeepsInv DEF RoundPhases
<1>10. CASE \E p \in Pids : Kill(p)
  <2>1. PICK p \in Pids : Kill(p)
    BY <1>10
  <2>2. /\ gpuPc' = "kill" /\ UNCHANGED <<gpuOf, device, found, result, arrived>>
        /\ \/ proc' = proc
           \/ \E st \in {"held", "gone"} : proc' = [proc EXCEPT ![p] = st]
    BY <2>1 DEF Kill, Leaves
  <2>3. GpuTypeOK'
    BY <2>2 DEF GpuInv, GpuTypeOK, Phases
  <2>4. QED
    BY <2>2, <2>3, ElsewhereKeepsInv DEF RoundPhases
<1>11. CASE \E p \in Pids : AccessDenied(p)
  <2>1. /\ gpuPc' = "done" /\ result' = CRITICAL
        /\ UNCHANGED <<gpuOf, proc, device, listed, found, retryCount, arrived>>
    BY <1>11 DEF AccessDenied, world, gpuOptions
  <2>2. GpuTypeOK'
    BY <1>0, <2>1 DEF GpuInv, GpuTypeOK, Phases
  <2>3. QED
    BY <1>0, <2>1, <2>2
    DEF GpuInv, BehindIsFree, ListedIsComplete, RoundMeansFree, ResultMeansFree, RoundPhases
<1>12. CASE WaitProcs
  BY <1>12, RoundKeepsInv DEF WaitProcs, world, GpuInv, GpuTypeOK
<1>13. CASE DecideAgain
  <2>1. /\ gpuPc = "decideAgain" /\ gpuPc' = "done"
        /\ result' \in Codes /\ (result' = OK => found = OK)
        /\ UNCHANGED <<gpuOf, proc, device, found, retryCount, arrived>>
    BY <1>0, <1>13 DEF DecideAgain, Killed, world, gpuOptions
  <2>2. GpuTypeOK'
    BY <2>1 DEF GpuInv, GpuTypeOK, Phases
  <2>3. ResultMeansFree'
    BY <2>1 DEF GpuInv, RoundMeansFree, ResultMeansFree, Living
  <2>4. BehindIsFree' /\ ListedIsComplete' /\ RoundMeansFree'
    BY <2>1 DEF BehindIsFree, ListedIsComplete, RoundMeansFree, RoundPhases
  <2>5. QED
    BY <2>2, <2>3, <2>4 DEF GpuInv
<1>14. QED
  BY <1>1, <1>2, <1>3, <1>4, <1>5, <1>6, <1>7, <1>8, <1>9, <1>10, <1>11, <1>12, <1>13
  DEF CheckStep

LEMMA GpuInvNext ==
  GpuInv /\ [GpuNext]_gpuVars => GpuInv'
<1> SUFFICES ASSUME GpuInv, [GpuNext]_gpuVars PROVE GpuInv'
  OBVIOUS
<1>1. CASE CheckStep
  BY <1>1, CheckKeepsInv
<1>2. CASE Node
  BY <1>2, NodeKeepsInv
<1>3. CASE UNCHANGED gpuVars
  BY <1>3
  DEF gpuVars, world, killing, gpuOptions, GpuInv, GpuTypeOK, BehindIsFree, ListedIsComplete,
      RoundMeansFree, ResultMeansFree, Living
<1>4. QED
  BY <1>1, <1>2, <1>3 DEF GpuNext, GpuDone

-----------------------------------------------------------------------------
(* For any node: when check_and_kill_running_procs ends with OK after it has *)
(* looked, nothing that was there when its last round over the GPUs began    *)
(* runs on any of them.                                                      *)
THEOREM OkProvesFree ==
  GpuSpec => []OkMeansFree
<1>1. GpuInit => GpuInv
  BY GpuInvInit
<1>2. GpuInv /\ [GpuNext]_gpuVars => GpuInv'
  BY GpuInvNext
<1>3. GpuInv => OkMeansFree
  BY DEF GpuInv, ResultMeansFree, OkMeansFree
<1>4. QED
  BY <1>1, <1>2, <1>3, PTL DEF GpuSpec
================================================================================
