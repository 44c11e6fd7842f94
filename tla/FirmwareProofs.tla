--------------------------- MODULE FirmwareProofs ----------------------------
(***************************************************************************)
(* The front ends and the PN7160 board (Frontends, Nucula) for every set   *)
(* of cards and networks and any number of activation attempts; the        *)
(* threads of the M5Stick firmware (EspThreads) for any number of jobs;    *)
(* and the parts together, with the sessions of Iso14443Proofs, as         *)
(* MCFirmware composes them.                                               *)
(***************************************************************************)
EXTENDS MCFirmware, Iso14443Proofs

------------------------------------------------------------------------------
(* The front ends.                                                           *)

(* The driver's belief is never about another card: while it has a target,   *)
(* or the ladder is up, the active card is the one whose UID it returns.     *)
Believes ==
  /\ chip \in {"pn532", "pn7160"} /\ dev.target /\ link # NoCard => link = uid
  /\ chip = "mfrc522" /\ ladder.at = "up" /\ link # NoCard => link = uid

(* Every round of the ladder before this one was lost.                       *)
RoundsLost ==
  /\ ladder.at # "idle" => chip = "mfrc522"
  /\ ladder.at \in {"prepare", "wake", "rats"} => ladder.lost = ladder.attempt - 1
  /\ ladder.at = "rats" => ladder.picked # NoCard
  /\ ladder.at \in {"prepare", "wake", "rats"} => answered = NoCard

FrontInv ==
  /\ FrontTypeOK
  /\ Believes /\ RoundsLost
  /\ UidMatchesCard /\ WakesResetCards /\ GivesUpAfterAllAttempts

LEMMA FrontInvInit == FrontInit => FrontInv
BY FrontAssumption
   DEF FrontInit, FrontInv, FrontTypeOK, Believes, RoundsLost, UidMatchesCard, WakesResetCards,
       GivesUpAfterAllAttempts, Maybe, Chips

LEMMA CardMovesStep == ASSUME FrontInv, CardMoves PROVE FrontInv'
BY DEF CardMoves, FrontInv, FrontTypeOK, Believes, RoundsLost, UidMatchesCard, WakesResetCards,
       GivesUpAfterAllAttempts, Maybe, Chips

LEMMA Pn532Steps == ASSUME FrontInv, Pn532Step PROVE FrontInv'
<1> USE DEF FrontInv, FrontTypeOK, Believes, RoundsLost, UidMatchesCard, WakesResetCards,
            GivesUpAfterAllAttempts, Maybe, Chips
<1>1. CASE Pn532Release
  BY <1>1, Zenon DEF Pn532Release
<1>2. ASSUME NEW ready \in BOOLEAN, NEW heard \in BOOLEAN, Pn532Activate(ready, heard)
      PROVE  FrontInv'
  <2>1. CASE Initialized(ready) /\ Listed(heard)
    <3>1. dev' = [initialized |-> TRUE, target |-> TRUE] /\ link' = field /\ uid' = field
      BY <1>2, <2>1, Zenon DEF Pn532Activate, Detect, Listed
    <3> QED BY <1>2, <3>1 DEF Pn532Activate
  <2>2. CASE Initialized(ready) /\ ~Listed(heard)
    <3>1. dev' = [initialized |-> TRUE, target |-> FALSE] /\ link' = field /\ uid' = uid
      BY <1>2, <2>2, Zenon DEF Pn532Activate, Detect, Listed
    <3> QED BY <1>2, <3>1 DEF Pn532Activate
  <2>3. CASE ~Initialized(ready)
    BY <1>2, <2>3 DEF Pn532Activate
  <2> QED BY <2>1, <2>2, <2>3
<1> QED BY <1>1, <1>2 DEF Pn532Step

(* The PN7160 after power_on.                                                *)
LEMMA PowerOnStep ==
  ASSUME FrontInv, chip = "pn7160", NEW works \in BOOLEAN, PowerOn(works) PROVE FrontInv'
BY Zenon DEF PowerOn, FrontInv, FrontTypeOK, Believes, RoundsLost, UidMatchesCard, WakesResetCards,
       GivesUpAfterAllAttempts, Maybe, Chips

LEMMA NextRoundStep ==
  ASSUME FrontInv, ladder.at \in {"prepare", "wake"}, NextRound
  PROVE  /\ ladder' \in [at : {"idle", "prepare"}, attempt : 1..ACTIVATION_ATTEMPTS,
                         picked : Maybe, lost : 0..ACTIVATION_ATTEMPTS]
         /\ ladder'.at = "idle" => ladder'.lost = ACTIVATION_ATTEMPTS
         /\ ladder'.at = "prepare" => ladder'.lost = ladder'.attempt - 1
<1> USE DEF FrontInv, FrontTypeOK, RoundsLost
<1>1. ladder.lost = ladder.attempt - 1 /\ ladder.attempt \in 1..ACTIVATION_ATTEMPTS
  OBVIOUS
<1>2. CASE ladder.attempt = ACTIVATION_ATTEMPTS
  <2>1. ladder' = [at |-> "idle", attempt |-> ladder.attempt, picked |-> ladder.picked,
                   lost |-> ladder.lost + 1]
    BY <1>2, Zenon DEF NextRound
  <2> QED BY <1>1, <1>2, <2>1, FrontAssumption
<1>3. CASE ladder.attempt # ACTIVATION_ATTEMPTS
  <2>1. ladder' = [at |-> "prepare", attempt |-> ladder.attempt + 1, picked |-> ladder.picked,
                   lost |-> ladder.lost + 1]
    BY <1>3, Zenon DEF NextRound
  <2> QED BY <1>1, <1>3, <2>1, FrontAssumption
<1> QED BY <1>2, <1>3

LEMMA LadderSteps == ASSUME FrontInv, MfrcActivate \/ LadderStep PROVE FrontInv'
<1> USE DEF FrontInv, FrontTypeOK, Believes, RoundsLost, UidMatchesCard, WakesResetCards,
            GivesUpAfterAllAttempts, Maybe, Chips
<1>1. CASE MfrcActivate
  BY <1>1, FrontAssumption DEF MfrcActivate
<1>2. CASE MfrcPrepare
  <2>1. CASE Climb("wake") /\ link' = NoCard
    BY <1>2, <2>1 DEF MfrcPrepare, Climb
  <2>2. CASE NextRound /\ link' \in {link, NoCard}
    BY <1>2, <2>2, NextRoundStep DEF MfrcPrepare
  <2> QED BY <1>2, <2>1, <2>2 DEF MfrcPrepare
<1>3. CASE MfrcWakeup
  <2>1. CASE /\ field # NoCard /\ link' = field
             /\ ladder' = [ladder EXCEPT !.at = "rats", !.picked = field]
    BY <1>3, <2>1, Zenon DEF MfrcWakeup
  <2>2. CASE NextRound /\ link' \in {link, field}
    BY <1>3, <2>2, NextRoundStep DEF MfrcWakeup
  <2> QED BY <1>3, <2>1, <2>2 DEF MfrcWakeup
<1>4. CASE MfrcSession
  BY <1>4 DEF MfrcSession, Climb
<1> QED BY <1>1, <1>2, <1>3, <1>4 DEF LadderStep

LEMMA ExchangeStep == ASSUME FrontInv, NEW ok \in BOOLEAN, Exchanged(ok) PROVE FrontInv'
<1> USE DEF FrontInv, FrontTypeOK, Believes, RoundsLost, UidMatchesCard, WakesResetCards,
            GivesUpAfterAllAttempts, Maybe, Chips
<1>1. dev' = dev \/ (chip = "pn7160" /\ dev' = [dev EXCEPT !.target = FALSE])
  BY DEF Exchanged
<1>2. ok => link = uid /\ ladder.at \in {"idle", "up"}
  BY Zenon DEF Exchanged, CanTransmit
<1>3. /\ UNCHANGED <<chip, field, link, uid, ladder>>
      /\ answered' = NoCard \/ (ok /\ answered' = link)
  BY DEF Exchanged
<1>4. CASE dev' = dev
  BY <1>2, <1>3, <1>4
<1>5. CASE chip = "pn7160" /\ dev' = [dev EXCEPT !.target = FALSE]
  <2>1. dev' \in [initialized : BOOLEAN, target : BOOLEAN] /\ ~dev'.target
    BY <1>5, Zenon
  <2>2. FrontTypeOK'
    BY <1>3, <2>1
  <2>3. Believes' /\ RoundsLost'
    BY <1>2, <1>3, <1>5, <2>1
  <2>4. UidMatchesCard' /\ WakesResetCards' /\ GivesUpAfterAllAttempts'
    BY <1>2, <1>3
  <2> QED BY <2>2, <2>3, <2>4
<1> QED BY <1>1, <1>4, <1>5

LEMMA FrontSteps == ASSUME FrontInv, [FrontNext]_front PROVE FrontInv'
<1>1. CASE UNCHANGED front
  BY <1>1 DEF front, FrontInv, FrontTypeOK, Believes, RoundsLost, UidMatchesCard,
              WakesResetCards, GivesUpAfterAllAttempts
<1> QED BY <1>1, CardMovesStep, Pn532Steps, LadderSteps, ExchangeStep DEF FrontNext

(* The inductive invariant of the three front ends.                          *)
THEOREM FrontInvariant == FrontSpec => []FrontInv
BY FrontSteps, FrontInvInit, PTL DEF FrontSpec

(* Whatever cards are swapped and answers lost, an answered transmit was     *)
(* answered by the card whose UID the transport returns.                     *)
THEOREM AnswersOwnUid == FrontSpec => []UidMatchesCard
BY FrontInvariant, PTL DEF FrontInv

(* No attempt of the ladder wakes a card that is active already.             *)
THEOREM WakesOnlyResetCards == FrontSpec => []WakesResetCards
BY FrontInvariant, PTL DEF FrontInv

(* For every ACTIVATION_ATTEMPTS, none of them is left out or made twice.    *)
THEOREM UsesAllAttempts == FrontSpec => []GivesUpAfterAllAttempts
BY FrontInvariant, PTL DEF FrontInv

(* Every front end knows its card.                                           *)
THEOREM FrontendsKnow == FrontSpec => []KnowsItsCard
BY AnswersOwnUid, WakesOnlyResetCards, UsesAllAttempts, PTL DEF KnowsItsCard

(* How a pair of naturals goes down.                                         *)
LEMMA LessOfTwo ==
  ASSUME NEW a1 \in Nat, NEW a2 \in Nat, NEW b1 \in Nat, NEW b2 \in Nat,
         a1 < b1 \/ (a1 = b1 /\ a2 < b2)
  PROVE  Less(<<a1, a2>>, <<b1, b2>>)
<1>1. <<a1, a2>> \in Seq(Nat) /\ <<b1, b2>> \in Seq(Nat) /\ Len(<<a1, a2>>) = 2 /\ Len(<<b1, b2>>) = 2
  OBVIOUS
<1>2. CASE a1 < b1
  <2>1. 1 \in 1..2 /\ \A i \in 1..(1 - 1) : FALSE
    OBVIOUS
  <2>2. <<a1, a2>>[1] < <<b1, b2>>[1]
    BY <1>2
  <2> QED BY <1>1, <2>1, <2>2, Zenon DEF Less
<1>3. CASE a1 = b1 /\ a2 < b2
  <2>1. 2 \in 1..2 /\ \A i \in 1..(2 - 1) : i = 1
    OBVIOUS
  <2>2. <<a1, a2>>[1] = <<b1, b2>>[1] /\ <<a1, a2>>[2] < <<b1, b2>>[2]
    BY <1>3
  <2> QED BY <1>1, <2>1, <2>2, Zenon DEF Less
<1> QED BY <1>2, <1>3

(* An activation has an end: each step of the ladder brings it nearer, for   *)
(* any number of attempts and whatever the cards do.                         *)
THEOREM LadderComesToItsEnd == FrontSpec => LadderAdvances
<1> DEFINE Rung(at) == CASE at = "prepare" -> 2 [] at = "wake" -> 1 [] OTHER -> 0
<1>r. /\ Rung("prepare") = 2 /\ Rung("wake") = 1 /\ Rung("rats") = 0
  OBVIOUS
<1>1. ASSUME FrontInv, LadderStep
      PROVE  ladder'.at \in {"idle", "up"} \/ Less(RungsLeft', RungsLeft)
  <2>0. /\ ladder.attempt \in 1..ACTIVATION_ATTEMPTS /\ ACTIVATION_ATTEMPTS \in Nat
        /\ ACTIVATION_ATTEMPTS - ladder.attempt \in Nat
        /\ DOMAIN ladder = {"at", "attempt", "picked", "lost"}
    BY <1>1, FrontAssumption DEF FrontInv, FrontTypeOK
  <2>l. RungsLeft = <<ACTIVATION_ATTEMPTS - ladder.attempt, Rung(ladder.at)>>
    BY Zenon DEF RungsLeft
  <2>m. RungsLeft' = <<ACTIVATION_ATTEMPTS - ladder'.attempt, Rung(ladder'.at)>>
    BY Zenon DEF RungsLeft
  <2>n. Rung(ladder.at) \in Nat /\ Rung(ladder'.at) \in Nat
    OBVIOUS
  <2> HIDE DEF Rung
  <2>1. CASE ladder'.attempt = ladder.attempt /\ Rung(ladder'.at) < Rung(ladder.at)
    BY <2>0, <2>l, <2>m, <2>n, <2>1, LessOfTwo
  <2>2. CASE ladder'.attempt = ladder.attempt + 1 /\ ladder.attempt # ACTIVATION_ATTEMPTS
    <3>1. /\ ACTIVATION_ATTEMPTS - ladder'.attempt \in Nat
          /\ ACTIVATION_ATTEMPTS - ladder'.attempt < ACTIVATION_ATTEMPTS - ladder.attempt
      BY <2>0, <2>2
    <3> QED BY <2>0, <2>l, <2>m, <2>n, <3>1, LessOfTwo, Zenon
  <2>3. CASE NextRound
    <3>1. CASE ladder.attempt = ACTIVATION_ATTEMPTS
      <4>1. ladder'.at = "idle"
        BY <2>0, <2>3, <3>1, Zenon DEF NextRound
      <4> QED BY <4>1
    <3>2. CASE ladder.attempt # ACTIVATION_ATTEMPTS
      BY <2>0, <2>2, <2>3, <3>2, Zenon DEF NextRound
    <3> QED BY <3>1, <3>2
  <2>4. CASE MfrcPrepare /\ Climb("wake")
    <3>1. ladder.at = "prepare" /\ ladder'.at = "wake" /\ ladder'.attempt = ladder.attempt
      BY <2>0, <2>4, Zenon DEF MfrcPrepare, Climb
    <3> QED BY <1>r, <2>1, <3>1
  <2>5. CASE MfrcWakeup /\ ladder' = [ladder EXCEPT !.at = "rats", !.picked = field]
    <3>1. ladder.at = "wake" /\ ladder'.at = "rats" /\ ladder'.attempt = ladder.attempt
      BY <2>0, <2>5, Zenon DEF MfrcWakeup
    <3> QED BY <1>r, <2>1, <3>1
  <2>6. CASE MfrcSession
    <3>1. ladder'.at \in {"idle", "up"}
      BY <2>0, <2>6, Zenon DEF MfrcSession, Climb
    <3> QED BY <3>1
  <2> QED BY <1>1, <2>3, <2>4, <2>5, <2>6, Zenon DEF LadderStep, MfrcPrepare, MfrcWakeup
<1> QED BY <1>1, FrontInvariant, PTL DEF FrontSpec, LadderAdvances

------------------------------------------------------------------------------
(* The console of the PN7160 board.                                          *)

(* A card was activated in this boot whenever the driver has a target or an  *)
(* inspect is under way.                                                     *)
NfcInv ==
  /\ FrontInv /\ chip = "pn7160"
  /\ inspect.at \in {"idle", "first", "again", "second"}
  /\ dev.target => activated
  /\ inspect.at # "idle" => activated
  /\ EvidenceIsACard

(* What is to be saved did associate; between the two blobs the first is     *)
(* already that of the new pair.                                             *)
NetworkInv ==
  /\ blobs \in [ssid : Blobs, pass : Blobs]
  /\ job \in [at : {"idle", "connect", "ssid", "pass", "report"}, ssid : Blobs, pass : Blobs]
  /\ spawned \in BOOLEAN /\ torn \in BOOLEAN
  /\ job.at \in {"ssid", "pass"} => job.ssid = job.pass
  /\ job.at = "pass" => blobs.ssid = job.ssid
  /\ StoredPairAssociates
  /\ OneOtaServer

LEMMA NuculaInvInit == NuculaInit /\ chip = "pn7160" => NfcInv /\ NetworkInv
<1> SUFFICES ASSUME NuculaInit, chip = "pn7160" PROVE NfcInv /\ NetworkInv
  OBVIOUS
<1>1. NfcInv
  BY FrontInvInit DEF NuculaInit, NfcInv, EvidenceIsACard, NoInspect, FrontInit
<1>2. NetworkInv
  BY Zenon DEF NuculaInit, NetworkInv, StoredPairAssociates, OneOtaServer, NoJoin, Blobs
<1> QED BY <1>1, <1>2

LEMMA ActivationStep ==
  ASSUME NfcInv, NEW works \in BOOLEAN, Activation(works)
  PROVE  /\ FrontInv' /\ chip' = "pn7160"
         /\ activated' = (activated \/ dev'.target)
         /\ activated => activated'
BY PowerOnStep, Zenon DEF NfcInv, Activation, PowerOn

LEMMA NfcStep == ASSUME NfcInv, NfcNext PROVE NfcInv'
<1> USE DEF NfcInv, EvidenceIsACard
<1>0. dev \in [initialized : BOOLEAN, target : BOOLEAN]
  BY DEF FrontInv, FrontTypeOK
<1>1. CASE Poll
  BY <1>1, ActivationStep, Zenon DEF Poll
<1>2. ASSUME WithSession
      PROVE  FrontInv' /\ chip' = "pn7160" /\ (activated => activated') /\ (dev'.target => activated')
  <2>1. CASE dev.target /\ UNCHANGED <<front, tick, activated>>
    BY <2>1 DEF front, FrontInv, FrontTypeOK, Believes, RoundsLost, UidMatchesCard,
                WakesResetCards, GivesUpAfterAllAttempts
  <2> QED BY <1>2, <2>1, ActivationStep, Zenon DEF WithSession
<1>3. CASE Uid
  BY <1>2, <1>3, Zenon DEF Uid
<1>4. CASE Inspect
  BY <1>2, <1>4 DEF Inspect, NoInspect
<1>5. ASSUME NEW ok \in BOOLEAN, Exchanged(ok), activated' = activated
      PROVE  FrontInv' /\ chip' = "pn7160" /\ (dev'.target => activated')
  BY <1>0, <1>5, ExchangeStep DEF Exchanged
<1>6. CASE InspectFirst
  <2>1. activated' = activated /\ evidence' = evidence /\ activated
    BY <1>6, Zenon DEF InspectFirst
  <2>3. inspect'.at \in {"idle", "again"}
    <3>1. CASE inspect' = NoInspect
      BY <3>1 DEF NoInspect
    <3>2. ASSUME NEW settings \in BOOLEAN, NEW ndef \in BOOLEAN, NEW again \in BOOLEAN,
                 inspect' = [NoInspect EXCEPT !.at = "again", !.tick = tick,
                               !.sdm = Mirroring(settings, ndef, again),
                               !.first = IF ndef THEN link ELSE NoCard]
          PROVE  inspect'.at = "again"
      BY <3>2 DEF NoInspect
    <3> QED BY <1>6, <3>1, <3>2, Zenon DEF InspectFirst
  <2>2. Exchanged(FALSE) \/ Exchanged(TRUE)
    BY <1>6, Zenon DEF InspectFirst
  <2> QED BY <1>5, <2>1, <2>2, <2>3, Zenon
<1>7. CASE InspectAgain
  <2>1. PICK works \in BOOLEAN : Activation(works)
    BY <1>7 DEF InspectAgain
  <2>2. evidence' = evidence /\ inspect'.at \in {"second", "idle", "first", "again"} /\ activated
    BY <1>7 DEF InspectAgain
  <2> QED BY <2>1, <2>2, ActivationStep
<1>8. CASE InspectSecond
  BY <1>5, <1>8 DEF InspectSecond
<1>9. CASE CardSwapped
  BY <1>9, CardMovesStep DEF CardSwapped, CardMoves
<1> QED BY <1>1, <1>3, <1>4, <1>6, <1>7, <1>8, <1>9 DEF NfcNext

LEMMA ReportStep ==
  ASSUME spawned \in BOOLEAN, OneOtaServer, Report
  PROVE  spawned' \in BOOLEAN /\ OneOtaServer'
<1>1. CASE spawned
  BY <1>1, Zenon DEF Report, OneOtaServer
<1>2. CASE ~spawned
  <2>1. servers = 0
    BY <1>2 DEF OneOtaServer
  <2>2. (spawned' = TRUE /\ servers' = 1) \/ UNCHANGED <<spawned, servers>>
    BY <1>2, <2>1 DEF Report
  <2>3. CASE spawned' = TRUE /\ servers' = 1
    BY <2>3 DEF OneOtaServer
  <2>4. CASE UNCHANGED <<spawned, servers>>
    BY <1>2, <2>1, <2>4 DEF OneOtaServer
  <2> QED BY <2>2, <2>3, <2>4, Zenon
<1> QED BY <1>1, <1>2

LEMMA NetworkStep == ASSUME NetworkInv, NetworkNext PROVE NetworkInv'
<1> USE DEF NetworkInv, StoredPairAssociates, OneOtaServer, Blobs
<1>1. CASE Ip
  BY <1>1, ReportStep DEF Ip
<1>2. CASE Wifi
  <2>1. PICK s \in Nets, p \in Nets : job' = [at |-> "connect", ssid |-> s, pass |-> p]
    BY <1>2 DEF Wifi
  <2> QED BY <1>2, <2>1 DEF Wifi, Prompt
<1>3. CASE Connect
  BY <1>3 DEF Connect, NoJoin
<1>4. CASE Save
  <2>1. CASE job.at = "ssid"
    BY <1>4, <2>1 DEF Save
  <2>2. CASE job.at = "pass"
    <3>1. CASE /\ torn' = FALSE /\ job' = [job EXCEPT !.at = "report"]
               /\ blobs' = [ssid |-> blobs.ssid, pass |-> job.pass]
      BY <1>4, <2>2, <3>1, Zenon DEF Save
    <3>2. CASE torn' = TRUE /\ job' = [job EXCEPT !.at = "report"] /\ UNCHANGED blobs
      BY <1>4, <2>2, <3>2 DEF Save
    <3> QED BY <1>4, <2>2, <3>1, <3>2, Zenon DEF Save
  <2> QED BY <1>4, <2>1, <2>2 DEF Save
<1>5. CASE Reported
  BY <1>5, ReportStep DEF Reported, NoJoin
<1>6. CASE StationDrops
  BY <1>6 DEF StationDrops
<1> QED BY <1>1, <1>2, <1>3, <1>4, <1>5, <1>6 DEF NetworkNext

LEMMA PowerCutStep == ASSUME NfcInv, NetworkInv, PowerCut PROVE NfcInv' /\ NetworkInv'
<1>1. PICK m \in BOOLEAN, c \in BOOLEAN, r \in {"missing", "up"} : Booted(blobs, m, c, r)
  BY DEF PowerCut
<1>2. NfcInv'
  BY <1>1 DEF Booted, NfcInv, EvidenceIsACard, NoInspect, FrontInv, FrontTypeOK, Believes,
              RoundsLost, UidMatchesCard, WakesResetCards, GivesUpAfterAllAttempts, Maybe, Chips
<1>3. NetworkInv'
  BY <1>1, Zenon DEF PowerCut, Booted, NetworkNew, Autoconnect, NoJoin, NetworkInv,
              StoredPairAssociates, OneOtaServer, Blobs
<1> QED BY <1>2, <1>3

(* Its reader and its network do not touch one another.                      *)
LEMMA BoardSteps == ASSUME NfcInv, NetworkInv, [NuculaNext]_nucula PROVE NfcInv' /\ NetworkInv'
<1>1. UNCHANGED nfc => NfcInv'
  BY DEF nfc, front, NfcInv, EvidenceIsACard, FrontInv, FrontTypeOK, Believes,
         RoundsLost, UidMatchesCard, WakesResetCards, GivesUpAfterAllAttempts
<1>2. UNCHANGED network => NetworkInv'
  BY DEF network, NetworkInv, StoredPairAssociates, OneOtaServer
<1>3. NfcNext => UNCHANGED network
  BY Zenon DEF NfcNext, Poll, Uid, Inspect, InspectFirst, InspectAgain, InspectSecond, CardSwapped
<1>4. NetworkNext => UNCHANGED nfc
  BY DEF NetworkNext, Ip, Wifi, Connect, Save, Reported, StationDrops
<1> QED BY <1>1, <1>2, <1>3, <1>4, NfcStep, NetworkStep, PowerCutStep DEF NuculaNext, nucula

(* The inductive invariant of the board.                                     *)
THEOREM NuculaInvariant == NuculaSpec => [](NfcInv /\ NetworkInv)
BY BoardSteps, NuculaInvInit, PTL DEF NuculaSpec

(* On the board, too, an answer is that of the card whose UID is shown.      *)
THEOREM BoardAnswersOwnUid == NuculaSpec => []UidMatchesCard
BY NuculaInvariant, PTL DEF NfcInv, FrontInv

(* An image is marked valid only after a card was activated in its boot.     *)
THEOREM EvidenceNeedsACard == NuculaSpec => []EvidenceIsACard
BY NuculaInvariant, PTL DEF NfcInv

(* A stored pair that is not torn did associate.                             *)
THEOREM StoresWorkingPair == NuculaSpec => []StoredPairAssociates
BY NuculaInvariant, PTL DEF NetworkInv

(* No sequence of commands starts a second OTA server in one boot.           *)
THEOREM StartsOneServer == NuculaSpec => []OneOtaServer
BY NuculaInvariant, PTL DEF NetworkInv

(* The way back over the network stays open.                                 *)
THEOREM KeepsRecoveryDoor == NuculaSpec => []RecoveryDoor
BY StoresWorkingPair, StartsOneServer, PTL DEF RecoveryDoor

(* What an inspect under way knows: mirroring found off is off, a second     *)
(* read that meets a card is made in another activation than the first.      *)
InspectInv ==
  /\ inspect \in [at : {"idle", "first", "again", "second"},
                  sdm : {"off", "static", "live", "unknown"},
                  first : Maybe, tick : 0..1, second : Maybe,
                  label : {"none", "off", "static", "live", "unknown"}]
  /\ tick \in 0..1
  /\ inspect.at \in {"again", "second"} /\ inspect.first # NoCard =>
       (inspect.sdm = "off" => Mirror[inspect.first] = "off")
  /\ inspect.at = "again" => tick = inspect.tick
  /\ inspect.at = "second" /\ link # NoCard => tick # inspect.tick
  /\ LabelIsHonest

(* Before its first read, an inspect knows nothing.                          *)
LEMMA KnowsNothing ==
  ASSUME NEW i, NEW t \in 0..1, i \in {NoInspect, [NoInspect EXCEPT !.at = "first"]},
         inspect' = i, tick' = t
  PROVE  InspectInv'
<1>1. NoInspect = [at |-> "idle", sdm |-> "off", first |-> NoCard, tick |-> 0,
                   second |-> NoCard, label |-> "none"]
  BY Zenon DEF NoInspect
<1>2. \E at \in {"idle", "first"} :
        inspect' = [at |-> at, sdm |-> "off", first |-> NoCard, tick |-> 0,
                    second |-> NoCard, label |-> "none"]
  BY <1>1
<1> QED
  BY <1>2 DEF InspectInv, LabelIsHonest, Maybe

(* An activation that finds a card is another one.                           *)
LEMMA ActivationTicks ==
  ASSUME NEW works \in BOOLEAN, Activation(works), tick \in 0..1,
         dev \in [initialized : BOOLEAN, target : BOOLEAN]
  PROVE  tick' \in 0..1 /\ (link' # NoCard => tick' # tick)
<1>1. link' # NoCard => dev'.target
  BY Zenon DEF Activation, PowerOn
<1>2. tick' = IF dev'.target THEN 1 - tick ELSE tick
  BY Zenon DEF Activation
<1> QED
  BY <1>1, <1>2

(* While no inspect is under way, the last one stays as it was.              *)
LEMMA LabelStays ==
  ASSUME InspectInv, inspect.at = "idle", inspect' = inspect, tick' \in 0..1
  PROVE  InspectInv'
BY Zenon DEF InspectInv, LabelIsHonest

(* The first read.                                                           *)
LEMMA InspectFirstStep == ASSUME NfcInv, InspectInv, InspectFirst PROVE InspectInv'
<1>1. tick' = tick /\ tick \in 0..1 /\ link \in Maybe
  <2>1. FrontTypeOK /\ tick \in 0..1
    BY Zenon DEF NfcInv, FrontInv, InspectInv
  <2>2. tick' = tick
    BY Zenon DEF InspectFirst
  <2> QED
    BY <2>1, <2>2, Zenon DEF FrontTypeOK
<1>2. CASE inspect' = NoInspect
  BY <1>1, <1>2, KnowsNothing, Zenon
<1>3. ASSUME NEW settings \in BOOLEAN, NEW ndef \in BOOLEAN, NEW again \in BOOLEAN,
             inspect' = [NoInspect EXCEPT !.at = "again", !.tick = tick,
                           !.sdm = Mirroring(settings, ndef, again),
                           !.first = IF ndef THEN link ELSE NoCard]
      PROVE  InspectInv'
  <2> DEFINE sdm == Mirroring(settings, ndef, again)
             first == IF ndef THEN link ELSE NoCard
  <2>1. /\ sdm \in {"off", "static", "unknown"} /\ (sdm = "off" => Mirror[link] = "off")
        /\ first \in {link, NoCard}
    BY DEF Mirroring
  <2>2. inspect' = [at |-> "again", sdm |-> sdm, first |-> first, tick |-> tick,
                    second |-> NoCard, label |-> "none"]
    BY <1>3, Zenon DEF NoInspect
  <2> HIDE DEF sdm, first
  <2>3. first \in Maybe /\ NoCard \in Maybe
    BY <1>1, <2>1 DEF Maybe
  <2> QED
    BY <1>1, <2>1, <2>2, <2>3 DEF InspectInv, LabelIsHonest
<1>4. \/ inspect' = NoInspect
      \/ \E settings, ndef, again \in BOOLEAN :
           inspect' = [NoInspect EXCEPT !.at = "again", !.tick = tick,
                         !.sdm = Mirroring(settings, ndef, again),
                         !.first = IF ndef THEN link ELSE NoCard]
  BY Zenon DEF InspectFirst
<1> QED
  BY <1>2, <1>3, <1>4, Zenon

(* The second read, of a card activated anew, tells whether it mirrors.      *)
LEMMA InspectSecondStep == ASSUME NfcInv, InspectInv, InspectSecond PROVE InspectInv'
<1>1. /\ inspect.at = "second" /\ tick' = tick /\ tick \in 0..1
      /\ link \in Maybe /\ NoCard \in Maybe
  BY DEF InspectSecond, InspectInv, NfcInv, FrontInv, FrontTypeOK, Maybe
<1>2. PICK ok \in BOOLEAN, ndef \in BOOLEAN :
        /\ Exchanged(ok) /\ (ndef => ok)
        /\ inspect' = [inspect EXCEPT !.at = "idle",
                         !.second = IF ndef THEN link ELSE NoCard,
                         !.label = Label(IF ndef THEN link ELSE NoCard)]
  BY Zenon DEF InspectSecond
<1> DEFINE second == IF ndef THEN link ELSE NoCard
<1>3. second \in Maybe /\ (second # NoCard => second = link /\ link # NoCard)
  BY <1>1, <1>2 DEF Exchanged
<1>4. inspect' = [at |-> "idle", sdm |-> inspect.sdm, first |-> inspect.first,
                  tick |-> inspect.tick, second |-> second, label |-> Label(second)]
  BY <1>2, Zenon DEF InspectInv
<1> HIDE DEF second
<1>5. second # NoCard => tick # inspect.tick
  BY <1>1, <1>3 DEF InspectInv
<1>6. /\ Label(second) = "live" /\ second = inspect.first /\ second # NoCard
           => Mirror[inspect.first] = "live"
      /\ Label(second) = "static" /\ second # NoCard /\ inspect.first # NoCard
           => Mirror[inspect.first] # "live"
      /\ Label(second) = "off" => inspect.sdm = "off"
      /\ Label(second) \in {"off", "static", "live", "unknown"}
  BY <1>5 DEF Label, Differ, InspectInv
<1>7. inspect'.at = "idle" /\ inspect'.first = inspect.first /\ inspect'.second = second
      /\ inspect'.label = Label(second)
  BY <1>4
<1>8. LabelIsHonest'
  BY <1>1, <1>6, <1>7 DEF LabelIsHonest, InspectInv
<1>9. inspect' \in [at : {"idle", "first", "again", "second"},
                    sdm : {"off", "static", "live", "unknown"},
                    first : Maybe, tick : 0..1, second : Maybe,
                    label : {"none", "off", "static", "live", "unknown"}]
  BY <1>1, <1>3, <1>4, <1>6 DEF InspectInv
<1> QED
  BY <1>1, <1>7, <1>8, <1>9 DEF InspectInv

LEMMA InspectInvStep == ASSUME NfcInv, InspectInv, NfcNext PROVE InspectInv'
<1>1. tick \in 0..1 /\ dev \in [initialized : BOOLEAN, target : BOOLEAN]
  BY DEF InspectInv, NfcInv, FrontInv, FrontTypeOK
<1>2. WithSession => tick' \in 0..1
  BY <1>1, ActivationTicks DEF WithSession
<1>3. CASE Poll
  BY <1>1, <1>3, ActivationTicks, LabelStays, Zenon DEF Poll, Prompt
<1>4. CASE Uid
  BY <1>2, <1>4, LabelStays, Zenon DEF Uid, Prompt
<1>5. CASE Inspect
  <2>1. inspect' \in {NoInspect, [NoInspect EXCEPT !.at = "first"]}
    BY <1>5, Zenon DEF Inspect
  <2> QED
    BY <1>2, <1>5, <2>1, KnowsNothing, Zenon DEF Inspect
<1>6. CASE InspectAgain
  <2>1. inspect.at = "again" /\ inspect' = [inspect EXCEPT !.at = "second"]
    BY <1>6, Zenon DEF InspectAgain
  <2>2. tick' \in 0..1 /\ (link' # NoCard => tick' # tick)
    BY <1>1, <1>6, ActivationTicks, Zenon DEF InspectAgain
  <2> QED
    BY <2>1, <2>2 DEF InspectInv, LabelIsHonest
<1>7. CASE CardSwapped
  BY <1>7 DEF CardSwapped, CardMoves, InspectInv, LabelIsHonest
<1> QED
  BY <1>3, <1>4, <1>5, <1>6, <1>7, InspectFirstStep, InspectSecondStep, Zenon DEF NfcNext

LEMMA InspectInvInit == NuculaInit => InspectInv
BY FrontAssumption DEF NuculaInit, InspectInv, LabelIsHonest, NoInspect, Maybe

LEMMA InspectSteps == ASSUME NfcInv, InspectInv, [NuculaNext]_nucula PROVE InspectInv'
<1>1. UNCHANGED <<inspect, tick, link>> => InspectInv'
  BY Zenon DEF InspectInv, LabelIsHonest
<1>2. NetworkNext \/ UNCHANGED nucula => UNCHANGED <<inspect, tick, link>>
  BY Zenon DEF NetworkNext, Ip, Wifi, Connect, Save, Reported, StationDrops, nucula, nfc, front
<1>3. CASE PowerCut
  <2>1. inspect' = NoInspect /\ tick' = tick /\ tick \in 0..1
    BY <1>3, Zenon DEF PowerCut, Booted, InspectInv
  <2> QED
    BY <2>1, KnowsNothing, Zenon
<1> QED
  BY <1>1, <1>2, <1>3, InspectInvStep, Zenon DEF NuculaNext

(* The invariant of the board and of its inspect.                            *)
THEOREM InspectInvariant == NuculaSpec => []InspectInv
BY InspectInvInit, InspectSteps, NuculaInvariant, PTL DEF NuculaSpec

(* The label of inspect is true of the card it was made for, and an image is *)
(* accepted only on a card's account, whatever cards are swapped in between. *)
THEOREM ReportsTruly == NuculaSpec => []CardReportsAreTrue
<1>1. InspectInv => LabelIsHonest
  BY DEF InspectInv
<1> QED
  BY <1>1, InspectInvariant, EvidenceNeedsACard, PTL DEF CardReportsAreTrue

(* The variables whose values the invariants above leave open.               *)
BoardTypes ==
  /\ reader \in {"missing", "up"} /\ station \in Blobs
  /\ evidence \in BOOLEAN /\ activated \in BOOLEAN
  /\ manager \in BOOLEAN /\ creds \in BOOLEAN

LEMMA BoardTypesInit == NuculaInit => BoardTypes
BY Zenon DEF NuculaInit, BoardTypes, Blobs

(* A command of the reader touches neither the network nor the reader's      *)
(* presence.                                                                 *)
LEMMA NfcKeepsTypes ==
  ASSUME BoardTypes, dev' \in [initialized : BOOLEAN, target : BOOLEAN], NfcNext
  PROVE  BoardTypes'
<1>0. dev'.target \in BOOLEAN
  BY Zenon
<1>1. reader' = reader /\ station' = station /\ manager' = manager /\ creds' = creds
  BY Zenon DEF NfcNext, Poll, Uid, Inspect, InspectFirst, InspectAgain, InspectSecond, CardSwapped,
               network
<1>2. activated' \in {activated, activated \/ dev'.target}
  BY Zenon DEF NfcNext, Poll, Uid, WithSession, Inspect, InspectFirst, InspectAgain, InspectSecond,
               CardSwapped, Activation
<1>3. evidence' \in {evidence, TRUE, evidence \/ dev'.target}
  BY Zenon DEF NfcNext, Poll, Uid, Inspect, InspectFirst, InspectAgain, InspectSecond, CardSwapped
<1> QED
  BY <1>0, <1>1, <1>2, <1>3, Zenon DEF BoardTypes

LEMMA NetworkKeepsTypes == ASSUME BoardTypes, NetworkInv, NetworkNext PROVE BoardTypes'
<1>1. UNCHANGED <<reader, evidence, activated, manager, creds>>
  BY Zenon DEF NetworkNext, Ip, Wifi, Connect, Save, Reported, StationDrops, nfc
<1>2. job.ssid \in Blobs /\ NoBlob \in Blobs
  BY DEF NetworkInv, Blobs
<1>3. station' \in {station, NoBlob, job.ssid}
  BY Zenon DEF NetworkNext, Ip, Wifi, Connect, Save, Reported, StationDrops
<1> QED
  BY <1>1, <1>2, <1>3, Zenon DEF BoardTypes

LEMMA PowerCutKeepsTypes ==
  ASSUME dev' \in [initialized : BOOLEAN, target : BOOLEAN], PowerCut PROVE BoardTypes'
<1>1. PICK m \in BOOLEAN, c \in BOOLEAN, r \in {"missing", "up"} : Booted(blobs, m, c, r)
  BY Zenon DEF PowerCut
<1>2. activated' = dev'.target /\ evidence' = FALSE /\ reader' = r
      /\ manager' = m /\ creds' = c /\ station' = NoBlob
  BY <1>1, Zenon DEF Booted, NetworkNew
<1> QED
  BY <1>2, Zenon DEF BoardTypes, Blobs

LEMMA BoardKeepsTypes ==
  ASSUME NetworkInv, NfcInv', BoardTypes, [NuculaNext]_nucula PROVE BoardTypes'
<1>1. dev' \in [initialized : BOOLEAN, target : BOOLEAN]
  BY DEF NfcInv, FrontInv, FrontTypeOK
<1>2. CASE UNCHANGED nucula
  BY <1>2, Zenon DEF nucula, nfc, network, BoardTypes
<1> QED
  BY <1>1, <1>2, NfcKeepsTypes, NetworkKeepsTypes, PowerCutKeepsTypes, Zenon DEF NuculaNext

(* Together with the invariants these are the types of the board.            *)
LEMMA BoardIsTyped ==
  ASSUME FrontInv, InspectInv, NetworkInv, BoardTypes
  PROVE  NuculaTypeOK
<1>1. FrontTypeOK
  BY Zenon DEF FrontInv
<1>2. {evidence, activated, manager, creds, spawned, torn} \subseteq BOOLEAN
  BY Zenon DEF BoardTypes, NetworkInv
<1>3. servers \in 0..2
  BY DEF NetworkInv, OneOtaServer
<1> QED
  BY <1>1, <1>2, <1>3, Zenon DEF NuculaTypeOK, BoardTypes, InspectInv, NetworkInv

(* Every variable of the board keeps its type, through commands, swapped     *)
(* cards and power cuts.                                                     *)
THEOREM NuculaTypesHold == NuculaSpec => []NuculaTypeOK
<1>1. NfcInv => FrontInv
  BY DEF NfcInv
<1>2. FrontInv /\ InspectInv /\ NetworkInv /\ BoardTypes => NuculaTypeOK
  BY BoardIsTyped
<1>3. NuculaSpec => []BoardTypes
  BY BoardKeepsTypes, BoardTypesInit, NuculaInvariant, PTL DEF NuculaSpec
<1> QED
  BY <1>1, <1>2, <1>3, NuculaInvariant, InspectInvariant, PTL

------------------------------------------------------------------------------
(* EspThreads: ThreadsInv is inductive for every number of jobs and every    *)
(* cooldown; the mutual exclusion on the card and the fate of the jobs       *)
(* follow from it.                                                           *)

USE DEF Jobs, Locks, Phases, Places, Handlers, Steps, Writes, NoJob

(* The first state of the firmware satisfies the invariant.                  *)
LEMMA ThreadsInitInv == ThreadsInit => ThreadsInv
  BY ThreadsAssumption DEF ThreadsInit, ThreadsInv, ThreadsTypeOK, HasRun

(* A step of the main loop from one phase without locks to the next.         *)
LEMMA MainGoesOn ==
  ASSUME ThreadsInv, Console \/ Heartbeat \/ Buttons PROVE ThreadsInv'
<1>1. /\ main.phase # "job" /\ main.at # "run" /\ main'.phase # "job"
      /\ main' \in [phase : Phases, at : Places] /\ main'.at # "run"
      /\ main'.at = "config" => main'.phase \in {"command", "token", "button"}
      /\ main'.at = "service" => main'.phase \in {"poll", "look"}
  BY DEF Console, Heartbeat, Buttons, Main, In
<1>2. UNCHANGED <<holder, http, server, slot, elapsed, uptime, ran>>
  BY Zenon DEF Console, Heartbeat, Buttons, shared
<1>3. HasRun' <=> HasRun
  BY <1>1, <1>2, Zenon DEF HasRun
<1> HIDE DEF Jobs, Locks, Phases, Places, Handlers, Steps, Writes, NoJob
<1>4. ThreadsTypeOK'
  BY <1>1, <1>2, Zenon DEF ThreadsInv, ThreadsTypeOK
<1>5. \A j \in Jobs : ran'[j] = IF j < slot'.id \/ (j = slot'.id /\ HasRun') THEN 1 ELSE 0
  BY <1>2, <1>3, Zenon DEF ThreadsInv
<1>6. slot.status # "running" /\ holder.service # "main"
  BY <1>1, Zenon DEF ThreadsInv
<1>7. main'.at \in {"service", "run"} => main'.phase \in {"command", "poll", "job", "look", "button"}
  BY <1>1, Zenon
<1> QED
  BY <1>1, <1>2, <1>4, <1>5, <1>6, <1>7, Zenon DEF ThreadsInv

(* A step of the HTTP thread that takes and leaves no lock.                  *)
LEMMA HttpGoesOn ==
  ASSUME ThreadsInv, Request \/ Authorize \/ CheckRateLimit \/ JobStatus \/ HttpStatus
  PROVE  ThreadsInv'
<1>1. http \in [req : Handlers \cup {"none"}, at : Steps \cup {"idle"}]
      /\ (http.req = "submit" /\ http.at # "record" => slot.id < MaxJobs)
  BY Zenon DEF ThreadsInv, ThreadsTypeOK
<1>2. UNCHANGED <<holder, main, server, slot, elapsed, uptime, ran>>
  BY Zenon DEF Request, Authorize, CheckRateLimit, JobStatus, HttpStatus, shared
<1>3. /\ http' \in [req : Handlers \cup {"none"}, at : Steps \cup {"idle"}]
      /\ http.at # "run" /\ http'.at # "run"
      /\ http'.req = "submit" => slot.id < MaxJobs
  <2>1. CASE Request
    BY <2>1 DEF Request
  <2>2. CASE Authorize \/ CheckRateLimit
    BY <1>1, <2>2 DEF Authorize, CheckRateLimit, Http, Respond
  <2>3. CASE JobStatus \/ HttpStatus
    BY <2>3 DEF JobStatus, HttpStatus, Respond
  <2> QED
    BY <2>1, <2>2, <2>3
<1>4. HasRun' <=> HasRun
  BY <1>2, Zenon DEF HasRun
<1> HIDE DEF Jobs, Locks, Phases, Places, Handlers, Steps, Writes, NoJob
<1>5. ThreadsTypeOK'
  BY <1>2, <1>3, Zenon DEF ThreadsInv, ThreadsTypeOK
<1>6. \A j \in Jobs : ran'[j] = IF j < slot'.id \/ (j = slot'.id /\ HasRun') THEN 1 ELSE 0
  BY <1>2, <1>4, Zenon DEF ThreadsInv
<1> QED
  BY <1>2, <1>3, <1>5, <1>6, Zenon DEF ThreadsInv

(* Steps of the main loop keep the invariant.                                *)
LEMMA MainKeepsInv == ThreadsInv /\ MainStep => ThreadsInv'
<1> SUFFICES ASSUME ThreadsInv, MainStep PROVE ThreadsInv'
  OBVIOUS
<1> USE DEF ThreadsInv, ThreadsTypeOK, HasRun, Main, In, shared
<1>1. CASE Console \/ Heartbeat \/ Buttons
  BY <1>1, MainGoesOn, Zenon
<1>2. CASE WifiOff
  BY <1>2 DEF WifiOff
<1>3. CASE WifiStopped
  BY <1>3 DEF WifiStopped, Release
<1>4. CASE MainConfig
  BY <1>4 DEF MainConfig, Acquire
<1>5. CASE MainService
  <2>1. /\ main.at = "service" /\ main' = [phase |-> main.phase, at |-> "run"]
        /\ holder.service = "free" /\ holder' = [holder EXCEPT !.service = "main"]
        /\ UNCHANGED <<http, server, slot, elapsed, uptime>>
    BY <1>5, Zenon DEF MainService, MainEnters, Acquire
  <2>2. CASE main.phase = "job"
    <3>1. ran' = [ran EXCEPT ![slot.id] = @ + 1]
      BY <1>5, <2>2, Zenon DEF MainService, MainEnters
    <3>2. slot.status = "running" /\ slot.id \in Jobs /\ ran[slot.id] = 0
      BY <2>1, <2>2
    <3>3. ran' \in [Jobs -> Nat]
      BY <3>1, <3>2
    <3>4. \A j \in Jobs : ran'[j] = IF j = slot.id THEN 1 ELSE ran[j]
      BY <3>1, <3>2
    <3>5. HasRun' /\ ~HasRun /\ slot' = slot
      BY <2>1, <2>2, <3>2
    <3>6. \A j \in Jobs : ran'[j] = IF j < slot'.id \/ (j = slot'.id /\ HasRun') THEN 1 ELSE 0
      <4> HIDE DEF HasRun, ThreadsInv
      <4>1. slot'.id = slot.id /\ slot.id \in Nat /\ Jobs \subseteq Nat
        BY <3>2, <3>5, ThreadsAssumption
      <4>2. \A j \in Jobs : ran[j] = IF j < slot.id \/ (j = slot.id /\ HasRun) THEN 1 ELSE 0
        BY Zenon DEF ThreadsInv
      <4> QED
        BY <3>4, <3>5, <4>1, <4>2
    <3>7. holder' \in [Locks -> {"free", "main", "http"}]
          /\ holder'.service = "main" /\ http.at # "run"
      BY <2>1
    <3> HIDE DEF HasRun
    <3> QED
      BY <2>1, <2>2, <3>2, <3>3, <3>6, <3>7
  <2>3. CASE main.phase # "job"
    <3>1. UNCHANGED ran
      BY <1>5, <2>3 DEF MainService, MainEnters
    <3> QED
      BY <2>1, <2>3, <3>1
  <2> QED
    BY <2>2, <2>3, Zenon
<1>6. CASE MainRun
  <2>1. /\ main.at = "run" /\ holder.service = "main"
        /\ holder' \in [Locks -> {"free", "main", "http"}] /\ holder'.service = "free"
        /\ UNCHANGED <<http, server, slot, elapsed, uptime, ran>>
    BY <1>6 DEF MainRun, Release
  <2>2. main.phase \in {"command", "poll", "job", "look", "button"} /\ After(main.phase)
    BY <1>6, <2>1 DEF MainRun
  <2>3. CASE main.phase = "job"
    BY <2>1, <2>2, <2>3 DEF After
  <2>4. CASE main.phase # "job"
    <3>1. main' \in {[phase |-> "poll", at |-> "service"], [phase |-> "take", at |-> "start"],
                     [phase |-> "button", at |-> "config"], [phase |-> "console", at |-> "start"]}
      BY <2>2, <2>4, Zenon DEF After
    <3>2. main' \in [phase : Phases, at : Places] /\ main'.phase # "job" /\ main'.at # "run"
          /\ (main'.at = "config" => main'.phase \in {"command", "token", "job", "button"})
          /\ (main'.at \in {"service", "run"} =>
                main'.phase \in {"command", "poll", "job", "look", "button"})
      <4> HIDE DEF ThreadsInv
      <4> QED
        BY <3>1
    <3>3. http.at # "run"
      BY <2>1, Zenon
    <3>4. HasRun' <=> HasRun
      BY <2>1, <2>4, <3>2, Zenon
    <3> HIDE DEF HasRun, Jobs, Locks, Phases, Places, Handlers, Steps, Writes, NoJob
    <3> QED
      BY <2>1, <2>4, <3>2, <3>3, <3>4, Zenon
  <2> QED
    BY <2>3, <2>4, Zenon
<1>7. CASE JobTake
  BY <1>7 DEF JobTake
<1>8. CASE JobDone
  BY <1>8, ZenonT(30) DEF JobDone
<1> QED
  BY <1>1, <1>2, <1>3, <1>4, <1>5, <1>6, <1>7, <1>8, Zenon DEF MainStep

(* Steps of the HTTP thread keep the invariant.                              *)
LEMMA HttpKeepsInv == ThreadsInv /\ (Request \/ HttpStep) => ThreadsInv'
<1> SUFFICES ASSUME ThreadsInv, Request \/ HttpStep PROVE ThreadsInv'
  OBVIOUS
<1> USE DEF ThreadsInv, ThreadsTypeOK, HasRun, Http, Respond, shared
<1>1. CASE Request \/ Authorize \/ CheckRateLimit \/ JobStatus \/ HttpStatus
  BY <1>1, HttpGoesOn, Zenon
<1>2. CASE RecordRateLimit
  BY <1>2, ThreadsAssumption DEF RecordRateLimit
<1>3. CASE SubmitJob
  BY <1>3, ThreadsAssumption DEF SubmitJob, Submitted
<1>4. CASE HttpConfig
  BY <1>4 DEF HttpConfig, Acquire
<1>5. CASE HttpService
  BY <1>5, ThreadsAssumption DEF HttpService, Acquire
<1>6. CASE HttpRun
  BY <1>6 DEF HttpRun, Release
<1> QED
  BY <1>1, <1>2, <1>3, <1>4, <1>5, <1>6, Zenon DEF HttpStep

(* Every step keeps the invariant.                                           *)
LEMMA NextKeepsInv == ThreadsInv /\ [ThreadsNext]_threadVars => ThreadsInv'
<1> SUFFICES ASSUME ThreadsInv, [ThreadsNext]_threadVars PROVE ThreadsInv'
  OBVIOUS
<1>1. CASE MainStep
  BY <1>1, MainKeepsInv
<1>2. CASE Request \/ HttpStep
  BY <1>2, HttpKeepsInv
<1>3. CASE WifiOn
  BY <1>3, ThreadsAssumption DEF WifiOn, ThreadsInv, ThreadsTypeOK, HasRun, Main, In
<1>4. CASE Tick
  BY <1>4, ThreadsAssumption DEF Tick, Later, ThreadsInv, ThreadsTypeOK, HasRun
<1>5. CASE UNCHANGED threadVars
  BY <1>5 DEF threadVars, ThreadsInv, ThreadsTypeOK, HasRun
<1> QED
  BY <1>1, <1>2, <1>3, <1>4, <1>5 DEF ThreadsNext

(* The invariant holds in every state of the firmware: what each thread is   *)
(* doing determines who holds the service lock and how far the job is.       *)
THEOREM ThreadsInvariant == ThreadsSpec => []ThreadsInv
  BY ThreadsInitInv, NextKeepsInv, PTL DEF ThreadsSpec

(* The main loop and the HTTP thread are never both inside a card operation, *)
(* however many jobs are submitted and whenever Wi-Fi is switched.           *)
THEOREM OneUserOfTheCard == ThreadsSpec => []CardExclusive
<1>1. ThreadsInv => CardExclusive
  BY DEF ThreadsInv, CardExclusive
<1> QED
  BY <1>1, ThreadsInvariant, PTL

(* Every job accepted by JobSlot::submit is run exactly once by              *)
(* process_rest_job before the next is accepted, and the result in the slot  *)
(* is that job's.                                                            *)
THEOREM JobsRunOnce == ThreadsSpec => []EachJobRunsOnce
<1>1. ThreadsInv => EachJobRunsOnce
  BY ThreadsAssumption DEF ThreadsInv, ThreadsTypeOK, EachJobRunsOnce, HasRun
<1> QED
  BY <1>1, ThreadsInvariant, PTL

(* Steps of the main loop keep ConfigInv.                                    *)
LEMMA MainKeepsConfig == ThreadsInv /\ ConfigInv /\ MainStep => ConfigInv'
<1> SUFFICES ASSUME ThreadsInv, ConfigInv, MainStep PROVE ConfigInv'
  OBVIOUS
<1>t. /\ holder \in [Locks -> {"free", "main", "http"}]
      /\ main \in [phase : Phases, at : Places]
      /\ main.at = "config" => main.phase \in {"command", "token", "job", "button"}
      /\ main.at \in {"service", "run"} =>
           main.phase \in {"command", "poll", "job", "look", "button"}
  BY DEF ThreadsInv, ThreadsTypeOK
<1> USE DEF ConfigInv, Main, In
<1>1. CASE Console
  BY <1>1, <1>t DEF Console
<1>2. CASE WifiOff
  BY <1>2, <1>t DEF WifiOff
<1>3. CASE WifiStopped
  BY <1>3, <1>t DEF WifiStopped, Release
<1>4. CASE MainConfig
  BY <1>4, <1>t DEF MainConfig, Acquire
<1>5. CASE MainService
  BY <1>5, <1>t DEF MainService, MainEnters, Acquire
<1>6. CASE MainRun
  <2>1. /\ main.at = "run" /\ http' = http
        /\ holder'.config = IF holder.config = "main" THEN "free" ELSE holder.config
    BY <1>6, <1>t DEF MainRun, Release
  <2>2. main.phase \in {"command", "poll", "job", "look", "button"} /\ After(main.phase)
    BY <1>6, <1>t DEF MainRun
  <2>3. main' \in {[phase |-> "poll", at |-> "service"], [phase |-> "take", at |-> "start"],
                   [phase |-> "job", at |-> "done"],
                   [phase |-> "button", at |-> "config"], [phase |-> "console", at |-> "start"]}
    BY <2>2, Zenon DEF After
  <2> QED
    BY <2>1, <2>3, <1>t
<1>7. CASE JobTake
  BY <1>7, <1>t DEF JobTake
<1>8. CASE JobDone
  BY <1>8, <1>t DEF JobDone
<1>9. CASE Heartbeat
  BY <1>9, <1>t DEF Heartbeat
<1>10. CASE Buttons
  BY <1>10, <1>t DEF Buttons
<1> QED
  BY <1>1, <1>2, <1>3, <1>4, <1>5, <1>6, <1>7, <1>8, <1>9, <1>10, Zenon DEF MainStep

(* So does every other step.                                                 *)
LEMMA NextKeepsConfig == ThreadsInv /\ ConfigInv /\ [ThreadsNext]_threadVars => ConfigInv'
<1> SUFFICES ASSUME ThreadsInv, ConfigInv, [ThreadsNext]_threadVars PROVE ConfigInv'
  OBVIOUS
<1>t. /\ holder \in [Locks -> {"free", "main", "http"}]
      /\ main \in [phase : Phases, at : Places]
      /\ http \in [req : Handlers \cup {"none"}, at : Steps \cup {"idle"}]
  BY DEF ThreadsInv, ThreadsTypeOK
<1> USE DEF ConfigInv, Http, Respond
<1>1. CASE MainStep
  BY <1>1, MainKeepsConfig
<1>2. CASE Request \/ Authorize \/ CheckRateLimit \/ RecordRateLimit \/ JobStatus
  BY <1>2, <1>t DEF Request, Authorize, CheckRateLimit, RecordRateLimit, JobStatus
<1>3. CASE SubmitJob
  BY <1>3, <1>t DEF SubmitJob
<1>4. CASE HttpConfig
  BY <1>4, <1>t DEF HttpConfig, Acquire
<1>5. CASE HttpService
  BY <1>5, <1>t DEF HttpService, Acquire
<1>6. CASE HttpRun
  BY <1>6, <1>t DEF HttpRun, Release
<1>7. CASE HttpStatus
  BY <1>7, <1>t DEF HttpStatus
<1>8. CASE WifiOn
  BY <1>8, <1>t DEF WifiOn, Main, In
<1>9. CASE Tick \/ UNCHANGED threadVars
  BY <1>9 DEF Tick, threadVars
<1> QED
  BY <1>1, <1>2, <1>3, <1>4, <1>5, <1>6, <1>7, <1>8, <1>9, Zenon DEF ThreadsNext, HttpStep

(* Where the two threads are determines who holds the configuration.         *)
THEOREM ConfigInvariant == ThreadsSpec => []ConfigInv
<1>1. ThreadsInit => ConfigInv
  BY DEF ThreadsInit, ConfigInv
<1> QED
  BY <1>1, NextKeepsConfig, ThreadsInvariant, PTL DEF ThreadsSpec

(* The main loop and the HTTP thread never wait for one another, by the two  *)
(* mutexes or by stop(): there is no deadlock between them.                  *)
THEOREM NoDeadlock == ThreadsSpec => []NeverBothWait
<1>1. ASSUME ThreadsInv, ConfigInv, MainWaits, HttpWaits PROVE FALSE
  <2>t. /\ holder.config \in {"free", "main", "http"}
        /\ holder.service \in {"free", "main", "http"}
        /\ holder.service = "main" <=> main.at = "run"
        /\ holder.service = "http" <=> http.at = "run"
    BY <1>1 DEF ThreadsInv, ThreadsTypeOK
  <2>c. /\ holder.config = "main" => main.at \in {"service", "run"}
        /\ holder.config = "http" => http.at \in {"service", "run"}
    BY <1>1 DEF ConfigInv
  <2>1. CASE main.at = "config" /\ holder.config # "free"
    BY <1>1, <2>1, <2>t, <2>c DEF HttpWaits
  <2>2. CASE main.at = "service" /\ holder.service # "free"
    BY <1>1, <2>2, <2>t, <2>c DEF HttpWaits
  <2>3. CASE In("wifiOff", "done")
    <3>1. main.at = "done"
      BY <2>3 DEF In
    <3> QED
      BY <1>1, <3>1, <2>t, <2>c DEF HttpWaits
  <2> QED
    BY <1>1, <2>1, <2>2, <2>3, Zenon DEF MainWaits
<1> QED
  BY <1>1, ThreadsInvariant, ConfigInvariant, PTL DEF NeverBothWait

(* The two threads share the reader and the job slot, for any number of      *)
(* jobs.                                                                     *)
THEOREM SharesReader == ThreadsSpec => []ReaderIsShared
BY OneUserOfTheCard, JobsRunOnce, NoDeadlock, PTL DEF ReaderIsShared

HIDE DEF Jobs, Locks, Phases, Places, Handlers, Steps, Writes, NoJob

------------------------------------------------------------------------------
(* The parts together, as MCFirmware composes them.  A board without a       *)
(* PN7160 has a front end and none of the console of firmware_nucula.rs.     *)

BoardInv ==
  /\ InspectInv /\ NetworkInv /\ BoardTypes
  /\ chip = "pn7160" => NfcInv
  /\ chip # "pn7160" => FrontInv /\ inspect = NoInspect /\ evidence = FALSE
  /\ part \in {"nfc", "network"} => chip = "pn7160"
  /\ part = "front" => chip # "pn7160"

LEMMA BoardInvInit == MCInit => BoardInv
<1> SUFFICES ASSUME MCInit PROVE BoardInv
  OBVIOUS
<1>1. NuculaInit /\ FrontInit
  BY Zenon DEF MCInit, NuculaInit
<1>2. InspectInv /\ BoardTypes /\ FrontInv
  BY <1>1, InspectInvInit, BoardTypesInit, FrontInvInit
<1>3. NetworkInv
  BY <1>1, Zenon DEF NuculaInit, NetworkInv, StoredPairAssociates, OneOtaServer, NoJoin, Blobs
<1>4. chip = "pn7160" => NfcInv
  BY <1>1, NuculaInvInit
<1>5. inspect = NoInspect /\ evidence = FALSE
  BY <1>1, Zenon DEF NuculaInit
<1>6. /\ part \in {"nfc", "network"} => chip = "pn7160"
      /\ part = "front" => chip # "pn7160"
  BY DEF MCInit
<1> QED
  BY <1>2, <1>3, <1>4, <1>5, <1>6, Zenon DEF BoardInv

LEMMA BoardInvStep == ASSUME BoardInv, [MCNext]_all PROVE BoardInv'
<1>p. part' = part
  BY Zenon DEF MCNext, all
<1>1. ASSUME chip = "pn7160", part # "front", [NuculaNext]_nucula PROVE BoardInv'
  <2>1. NfcInv' /\ NetworkInv' /\ InspectInv'
    BY <1>1, BoardSteps, InspectSteps, Zenon DEF BoardInv
  <2>2. BoardTypes' /\ chip' = "pn7160"
    BY <1>1, <2>1, BoardKeepsTypes, Zenon DEF BoardInv, NfcInv
  <2> QED
    BY <1>p, <1>1, <2>1, <2>2, Zenon DEF BoardInv
<1>2. ASSUME chip # "pn7160", part \notin {"nfc", "network"}, [FrontNext]_front,
             UNCHANGED <<reader, tick, inspect, evidence, activated, network>>
      PROVE  BoardInv'
  <2>1. FrontInv' /\ chip' = chip
    <3>1. chip' = chip
      BY <1>2, Zenon DEF FrontNext, front, CardMoves, Pn532Step, Pn532Release, Pn532Activate,
                   MfrcActivate, LadderStep, MfrcPrepare, MfrcWakeup, MfrcSession, Exchanged
    <3> QED
      BY <1>2, <3>1, FrontSteps, Zenon DEF BoardInv
  <2>2. NetworkInv'
    BY <1>2, Zenon DEF BoardInv, network, NetworkInv, StoredPairAssociates, OneOtaServer
  <2>3. inspect' = NoInspect /\ evidence' = FALSE /\ tick' = tick /\ tick \in 0..1
    BY <1>2, Zenon DEF BoardInv, InspectInv
  <2>4. InspectInv'
    BY <2>3, KnowsNothing, Zenon
  <2>5. BoardTypes'
    BY <1>2, Zenon DEF BoardInv, BoardTypes, network
  <2> QED
    BY <1>p, <1>2, <2>1, <2>2, <2>3, <2>4, <2>5, Zenon DEF BoardInv
<1>3. CASE UNCHANGED nucula
  <2>1. CASE chip = "pn7160"
    BY <1>1, <1>3, <2>1, Zenon DEF BoardInv
  <2>2. CASE chip # "pn7160"
    BY <1>2, <1>3, <2>2, Zenon DEF BoardInv, nucula, nfc
  <2> QED BY <2>1, <2>2
<1>4. CASE part \in {"nfc", "network"} /\ NuculaNext
  <2>1. part # "front" /\ chip = "pn7160"
    BY <1>4, Zenon DEF BoardInv
  <2> QED BY <1>1, <1>4, <2>1, Zenon
<1>5. CASE /\ part = "front" /\ FrontNext
           /\ UNCHANGED <<reader, tick, inspect, evidence, activated, network>>
  <2>1. chip # "pn7160" /\ part \notin {"nfc", "network"}
    BY <1>5, Zenon DEF BoardInv
  <2> QED BY <1>2, <1>5, <2>1, Zenon
<1> QED
  BY <1>3, <1>4, <1>5, Zenon DEF MCNext, NuculaNext, all

(* The invariants of the board and of the front ends hold of the firmware,   *)
(* whichever chip it is built for.                                           *)
THEOREM BoardInvariant == MCSpec => []BoardInv
BY BoardInvInit, BoardInvStep, PTL DEF MCSpec

(* The other parts are what they are by themselves.                          *)
THEOREM FirmwareIsItsParts == MCSpec => SessionSpec /\ ChannelSpec /\ ThreadsSpec
<1>1. MCInit => SessionInit /\ ChannelInit /\ ThreadsInit
  BY Zenon DEF MCInit
<1>2. [MCNext]_all => [SessionNext]_vars /\ [ChannelNext]_channelVars /\ [ThreadsNext]_threadVars
  BY Zenon DEF MCNext, all
<1> QED
  BY <1>1, <1>2, PTL DEF MCSpec, SessionSpec, ChannelSpec, ThreadsSpec

(* Every variable of the parts keeps its type: rounds, block numbers,        *)
(* retries, chunks, jobs and locks stay within what the code provides for.   *)
THEOREM FirmwareTypesHold == MCSpec => []FirmwareTypeOK
<1>1. BoardInv => NuculaTypeOK
  <2> SUFFICES ASSUME BoardInv PROVE NuculaTypeOK
    OBVIOUS
  <2>1. FrontInv
    BY Zenon DEF BoardInv, NfcInv
  <2> QED BY <2>1, BoardIsTyped, Zenon DEF BoardInv
<1>2. ThreadsInv => ThreadsTypeOK
  BY Zenon DEF ThreadsInv
<1>3. MCSpec => [](NuculaTypeOK /\ ThreadsTypeOK)
  BY <1>1, <1>2, BoardInvariant, FirmwareIsItsParts, ThreadsInvariant, PTL
<1>4. MCSpec => [](SessionTypeOK /\ ChannelTypeOK)
  BY FirmwareIsItsParts, SessionTypesHold, ChannelTypesHold, PTL
<1> QED
  BY <1>3, <1>4, PTL DEF FirmwareTypeOK

(* The properties of the front ends and of the PN7160 board, of the firmware *)
(* for any chip: it knows its card, its way back over the network is open    *)
(* and its reports are true.                                                 *)
THEOREM BoardKeepsItsPromises ==
  MCSpec => [](KnowsItsCard /\ RecoveryDoor /\ CardReportsAreTrue)
<1>1. BoardInv => KnowsItsCard /\ RecoveryDoor /\ CardReportsAreTrue
  <2> SUFFICES ASSUME BoardInv PROVE KnowsItsCard /\ RecoveryDoor /\ CardReportsAreTrue
    OBVIOUS
  <2>1. FrontInv /\ NetworkInv /\ InspectInv
    BY Zenon DEF BoardInv, NfcInv
  <2>2. EvidenceIsACard
    BY Zenon DEF BoardInv, NfcInv, EvidenceIsACard
  <2> QED
    BY <2>1, <2>2, Zenon DEF FrontInv, NetworkInv, InspectInv, KnowsItsCard, RecoveryDoor,
                             CardReportsAreTrue
<1> QED
  BY <1>1, BoardInvariant, PTL

(* Those of the sessions and of the threads: exchanges that are clean and    *)
(* implement ApduExchange, a channel in step whose transfers are whole, and  *)
(* a reader that is shared.                                                  *)
THEOREM SessionsKeepTheirPromises ==
  ASSUME Reactivates
  PROVE  MCSpec => /\ IsAnExchange
                   /\ [](ExchangeIsClean /\ ChannelInStep /\ TransfersAreWhole /\ ReaderIsShared)
<1>1. MCSpec => IsAnExchange /\ []ExchangeIsClean
  BY FirmwareIsItsParts, ImplementsExchange, ExchangesCleanly, PTL
<1>2. MCSpec => [](ChannelInStep /\ TransfersAreWhole /\ ReaderIsShared)
  BY FirmwareIsItsParts, KeepsChannelInStep, KeepsTransfersWhole, SharesReader, PTL
<1> QED
  BY <1>1, <1>2, PTL
==============================================================================
