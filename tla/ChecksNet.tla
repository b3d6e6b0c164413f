------------------------------- MODULE ChecksNet -------------------------------
(***************************************************************************)
(* The checks of a node's links and cards: check_iblink.py,                *)
(* check_ibstat.py, check_ethlink.py, check_hca.py and check_pci.py of     *)
(* l9gpu/health_checks/checks, each a function from its observations to a  *)
(* result (see HealthExit).                                                *)
(***************************************************************************)
EXTENDS HealthExit, FiniteSets, FiniteSetsExt

(* check_iblink.py: IBLinkIssue, numbered as its members are.              *)
MISBIND == 1
MLX5_MISMATCH == 2
MLX5_PROTOCOL_MISMATCH == 3
LINK_RATE_MISMATCH == 4
LINK_NOT_UP == 5
LINK_BAD_STATE == 6
LINK_OPERSTATE_DOWN == 7
CRITERION_NOT_CRITICAL == 100
LINK_IN_INIT == 101
FIRMWARE_MISMATCH == 102
CRITERION_NOT_WARNING == 200
CRITERION_OK == 1000

(* What read_cardstate finds in /sys, as it compares with the manifest. A  *)
(* file that cannot be read gives None, which compares as a mismatch.      *)
LinkStates == {"4: ACTIVE", "2: INIT", "other"}
IBLinkState == [bound : BOOLEAN, mlx : BOOLEAN, firmware : BOOLEAN,
                infiniband : BOOLEAN, active : BOOLEAN, state : LinkStates,
                rate : BOOLEAN, operstate : BOOLEAN]

(* A card bound to the wrong device is not looked at any further.          *)
ValidateIb(card) ==
  LET When(condition, issue) == IF condition THEN {issue} ELSE {} IN
  IF ~card.bound THEN {MISBIND}
  ELSE When(~card.mlx, MLX5_MISMATCH)
    \cup When(~card.firmware, FIRMWARE_MISMATCH)
    \cup When(~card.infiniband, MLX5_PROTOCOL_MISMATCH)
    \cup When(~card.active, LINK_NOT_UP)
    \cup When(card.state = "2: INIT", LINK_IN_INIT)
    \cup When(card.state = "other", LINK_BAD_STATE)
    \cup When(card.active /\ ~card.rate, LINK_RATE_MISMATCH)
    \cup When(card.state = "4: ACTIVE" /\ ~card.operstate, LINK_OPERSTATE_DOWN)

(* The lowest issue of all cards decides; with no card there is none.      *)
ProcessIblink(cards) ==
  LET issues == UNION { ValidateIb(cards[i]) : i \in DOMAIN cards }
      LowestAbove(criterion) == \A issue \in issues \cup {CRITERION_OK} : issue > criterion
  IN IF LowestAbove(CRITERION_NOT_WARNING) THEN OK
     ELSE IF LowestAbove(CRITERION_NOT_CRITICAL) THEN WARN ELSE CRITICAL

(* Any exception, the manifest's included, is a WARN. *)
SoundCard == [bound |-> TRUE, mlx |-> TRUE, firmware |-> TRUE, infiniband |-> TRUE,
              active |-> TRUE, state |-> "4: ACTIVE", rate |-> TRUE, operstate |-> TRUE]
SecondCards == {SoundCard, [SoundCard EXCEPT !.firmware = FALSE], [SoundCard EXCEPT !.rate = FALSE]}
CheckIblink ==
  [o \in [manifest : BOOLEAN,
          cards : { <<c>> : c \in IBLinkState } \cup (IBLinkState \X SecondCards) \cup {<<>>}] |->
     IF ~o.manifest THEN WARN ELSE ProcessIblink(o.cards)]

-----------------------------------------------------------------------------
(* check_ibstat.py: the lines of `ibstat | grep`, one of each port.        *)

(* "Active" is looked for anywhere in a line, "Inactive" has it not.       *)
ProcessIbstatOutput(out, lines) ==
  IF out.rcs[1] > 0 \/ out.text = "" THEN WARN
  ELSE IF out.text = "lines" /\ \A i \in DOMAIN lines : lines[i] = "up" THEN OK
  ELSE CRITICAL

CheckIbstat ==
  [o \in [out : PipedOutputs(2, {"", "lines"}), lines : UpToTwo({"up", "other"})] |->
     ProcessIbstatOutput(o.out, o.lines)]

(* `ip -j link`: an interface with a field the code does not know is a     *)
(* TypeError, which nobody catches.                                        *)
Interfaces == [type : {"infiniband", "ether"}, operstate : {"UP", "DOWN"}]
ProcessIbInterfacesOutput(out, interfaces, expected) ==
  IF out.rc > 0 \/ out.text = "" THEN WARN
  ELSE IF out.text = "not json" THEN CRITICAL
  ELSE IF out.text = "unknown field" THEN Raised(UNKNOWN)
  ELSE LET up == { i \in DOMAIN interfaces :
                     interfaces[i] = [type |-> "infiniband", operstate |-> "UP"] }
       IN IF Cardinality(up) = expected THEN OK ELSE CRITICAL

CheckIbInterfaces ==
  [o \in [out : Outputs({"", "not json", "unknown field", "json"}),
          interfaces : UpToTwo(Interfaces), expected : 0 .. 2] |->
     ProcessIbInterfacesOutput(o.out, o.interfaces, o.expected)]

-----------------------------------------------------------------------------
(* check_ethlink.py *)

(* An interface of the manifest beside what the node has of it. The        *)
(* optional parts of the manifest are "none" or FALSE when it has them not.*)
EthInterfaces ==
  [phys : BOOLEAN, config : {"none", "same mac", "other mac"}, listed : BOOLEAN,
   operstate : {"UP", "DOWN"}, flags : BOOLEAN, mtu : BOOLEAN,
   speed : {"none", "expected", "other"}]

(* An interface without a configuration ends the walk; a wrong address     *)
(* does not, and no later interface takes it back.                         *)
CheckCfgMacaddr(interfaces) ==
  IF \E i \in DOMAIN interfaces :
       interfaces[i].phys /\ interfaces[i].config # "same mac"
  THEN CRITICAL ELSE OK

(* An interface `ip` does not list is an IndexError: caught by the command.*)
CheckLinkState(interfaces) ==
  Overall(OK, [i \in DOMAIN interfaces |->
    LET itf == interfaces[i] IN
    IF ~itf.listed THEN Raised(OK)
    ELSE IF itf.operstate # "UP" \/ ~itf.flags THEN CRITICAL
    ELSE IF ~itf.mtu THEN WARN ELSE OK])

CheckLinkSpeed(interfaces) ==
  IF \E i \in DOMAIN interfaces : interfaces[i].speed = "other" THEN WARN ELSE OK

(* The three in this order, until one is not OK. *)
ProcessEthlink(interfaces) ==
  IF CheckCfgMacaddr(interfaces) # OK THEN CheckCfgMacaddr(interfaces)
  ELSE IF CheckLinkState(interfaces) # OK THEN CheckLinkState(interfaces)
  ELSE CheckLinkSpeed(interfaces)

SoundInterface == [phys |-> TRUE, config |-> "same mac", listed |-> TRUE, operstate |-> "UP",
                   flags |-> TRUE, mtu |-> TRUE, speed |-> "expected"]
SecondInterfaces == {SoundInterface, [SoundInterface EXCEPT !.mtu = FALSE],
                     [SoundInterface EXCEPT !.config = "none"]}
CheckEthlink ==
  [o \in [manifest : {"with eth", "without eth", "none"},
          interfaces : { <<c>> : c \in EthInterfaces } \cup (EthInterfaces \X SecondInterfaces)] |->
     CASE o.manifest = "without eth" -> OK
       [] o.manifest = "none" -> WARN
       [] OTHER -> IF HasRaised(ProcessEthlink(o.interfaces)) THEN WARN
                   ELSE ProcessEthlink(o.interfaces)]

-----------------------------------------------------------------------------
(* check_hca.py: fewer adapters than expected are worse than more.         *)
CheckHca ==
  [o \in [out : Outputs({"no count", "count"}), found : 0 .. 3, expected : {2}] |->
     IF o.out.rc > 0 THEN WARN
     ELSE IF o.out.text = "no count" \/ o.found < o.expected THEN CRITICAL
     ELSE IF o.found > o.expected THEN WARN ELSE OK]

-----------------------------------------------------------------------------
(* check_pci.py: a device of the manifest and the link /sys shows for it.  *)
(* Without a link speed in the manifest no speed is the expected one.      *)
PciDevices == [link : BOOLEAN, width : BOOLEAN, speed : {"expected", "other", "unspecified"},
               topologyCritical : BOOLEAN]

PciPasses(d) == d.link /\ d.width /\ d.speed = "expected"

(* A missing device the topology hangs on ends the loop: it does not pass, *)
(* so neither does the check.                                              *)
CheckPciState(devices) ==
  LET stops == { i \in DOMAIN devices : ~devices[i].link /\ devices[i].topologyCritical }
      reached == { i \in DOMAIN devices : \A j \in stops : i <= j }
      passing == { i \in reached : PciPasses(devices[i]) }
  IN IF Cardinality(passing) = Len(devices) THEN OK ELSE CRITICAL

CheckPci ==
  [o \in [manifest : BOOLEAN, devices : UpToTwo(PciDevices) \cup {<<>>}] |->
     IF ~o.manifest THEN WARN ELSE CheckPciState(o.devices)]
=============================================================================
