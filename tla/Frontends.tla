----------------------------- MODULE Frontends -------------------------------
(***************************************************************************)
(* The three NFC front ends behind ntag424::Transport: bolty-pn532 over    *)
(* pn532-transport, bolty-pn7160, and bolty-mfrc522 with its ladder of     *)
(* wake-up attempts.  Cards come, go and are swapped at any moment, and    *)
(* the answer of a chip may be lost.  A device has one of them.            *)
(*                                                                         *)
(* External: the chips.  A card takes part in an exchange only if it was   *)
(* activated and has not left the field since; one that is active does not *)
(* answer a further WUPA.  A PN7160 driver whose power-on failed has no    *)
(* session.                                                                *)
(***************************************************************************)
EXTENDS Naturals, Measure

CONSTANTS
  Cards,
  Foreign,               \* the cards that are not ISO 14443-4 cards
  NoCard,
  ACTIVATION_ATTEMPTS

ASSUME FrontAssumption ==
  /\ NoCard \notin Cards /\ Foreign \subseteq Cards
  /\ ACTIVATION_ATTEMPTS \in Nat \ {0}

VARIABLES
  chip,       \* the front end of this device
  field,      \* the card on the antenna
  link,       \* the card that is active
  dev,        \* the driver: initialized, target (it has a card, it believes)
  uid,        \* what get_uid returns
  answered,   \* the card that answered the last transmit
  ladder      \* mfrc522: at, attempt, picked (the card that answered), lost (rounds)

front == <<chip, field, link, dev, uid, answered, ladder>>

Chips == {"pn532", "pn7160", "mfrc522"}
Maybe == Cards \cup {NoCard}

FrontTypeOK ==
  /\ chip \in Chips /\ {field, link, uid, answered} \subseteq Maybe
  /\ dev \in [initialized : BOOLEAN, target : BOOLEAN]
  /\ ladder \in [at : {"idle", "prepare", "wake", "rats", "up"},
                 attempt : 1..ACTIVATION_ATTEMPTS, picked : Maybe,
                 lost : 0..ACTIVATION_ATTEMPTS]

FrontInit ==
  /\ chip \in Chips /\ field \in Maybe /\ link = NoCard
  /\ dev = [initialized |-> FALSE, target |-> FALSE]
  /\ uid = NoCard /\ answered = NoCard
  /\ ladder = [at |-> "idle", attempt |-> 1, picked |-> NoCard, lost |-> 0]

(* A card is put down, taken away or swapped for another.                    *)
CardMoves ==
  /\ field' \in Maybe /\ link' = NoCard
  /\ UNCHANGED <<chip, dev, uid, answered, ladder>>

------------------------------------------------------------------------------
(* PN532                                                                     *)

(* inlist_passive_target: a target, unless there is none or the answer is    *)
(* lost.                                                                     *)
Listed(heard) == heard /\ field # NoCard

(* Mutant: a failed detection leaves the old target in place.                *)
DetectKeepsTarget(heard) ==
  /\ link' = field
  /\ dev' = [initialized |-> TRUE, target |-> Listed(heard) \/ dev.target]
  /\ uid' = IF Listed(heard) THEN field ELSE uid

(* detect_card and finish_activation: the chip activates what it finds, also *)
(* when its answer is lost; without an answer the device forgets its target  *)
(* and the transport keeps the old UID.                                      *)
Detect(heard) ==
  /\ link' = field
  /\ dev' = [initialized |-> TRUE, target |-> Listed(heard)]
  /\ uid' = IF Listed(heard) THEN field ELSE uid

(* init_with_delay: reset, firmware version and SAM configuration, any of    *)
(* which may fail.                                                           *)
Initialized(ready) == dev.initialized \/ ready

(* activate: the chip is initialized once, then a card is looked for.        *)
Pn532Activate(ready, heard) ==
  /\ chip = "pn532" /\ answered' = NoCard
  /\ IF Initialized(ready) THEN Detect(heard) ELSE UNCHANGED <<link, dev, uid>>
  /\ UNCHANGED <<chip, field, ladder>>

(* release: whether the chip lets go of its target or not.                   *)
Pn532Release ==
  /\ chip = "pn532" /\ answered' = NoCard
  /\ link' \in IF dev.target THEN {link, NoCard} ELSE {link}
  /\ dev' = [dev EXCEPT !.target = FALSE]
  /\ uid' = NoCard
  /\ UNCHANGED <<chip, field, ladder>>

------------------------------------------------------------------------------
(* PN7160                                                                    *)

(* power_on: discovery and activation; when it fails, the UID and the ATR    *)
(* stay those of the last card.                                              *)
PowerOn(works) ==
  LET found == works /\ field # NoCard IN
  /\ link' = IF found THEN field ELSE NoCard
  /\ dev' = [dev EXCEPT !.target = found]
  /\ uid' = IF found THEN field ELSE uid
  /\ answered' = NoCard
  /\ UNCHANGED <<chip, field, ladder>>

------------------------------------------------------------------------------
(* MFRC522: activate_with_delays                                             *)

Climb(at) == ladder' = [ladder EXCEPT !.at = at]

(* Mutant: one attempt too many.                                             *)
NextRoundOver ==
  ladder' = IF ladder.attempt > ACTIVATION_ATTEMPTS
              THEN [ladder EXCEPT !.at = "idle", !.lost = @ + 1]
              ELSE [ladder EXCEPT !.at = "prepare", !.attempt = @ + 1, !.lost = @ + 1]

(* The round is lost: the next one, or the last error.                       *)
NextRound ==
  ladder' = IF ladder.attempt = ACTIVATION_ATTEMPTS
              THEN [ladder EXCEPT !.at = "idle", !.lost = @ + 1]
              ELSE [ladder EXCEPT !.at = "prepare", !.attempt = @ + 1, !.lost = @ + 1]

(* The transport of the last activation is gone, and its UID with it.        *)
MfrcActivate ==
  /\ chip = "mfrc522" /\ ladder.at \in {"idle", "up"}
  /\ ladder' = [at |-> "prepare", attempt |-> 1, picked |-> NoCard, lost |-> 0]
  /\ uid' = NoCard /\ answered' = NoCard
  /\ UNCHANGED <<chip, field, link, dev>>

(* prepare_for_activation_with_delays: the field is cycled, or the bus fails *)
(* at some point of it.                                                      *)
MfrcPrepare ==
  /\ ladder.at = "prepare"
  /\ \/ link' = NoCard /\ Climb("wake")
     \/ link' \in {link, NoCard} /\ NextRound
  /\ UNCHANGED <<chip, field, dev, uid, answered>>

(* wakeup: WUPA, anticollision and selection.  A card may be active although *)
(* its last answer was lost.                                                 *)
MfrcWakeup ==
  /\ ladder.at = "wake"
  /\ \/ /\ field # NoCard /\ link # field
        /\ link' = field /\ ladder' = [ladder EXCEPT !.at = "rats", !.picked = field]
     \/ link' \in {link, field} /\ NextRound
  /\ UNCHANGED <<chip, field, dev, uid, answered>>

(* from_activation: a tag without ISO 14443-4 is refused; RATS and the set-up*)
(* of the session succeed, if the card is still there, or fail for good.     *)
MfrcSession ==
  /\ ladder.at = "rats"
  /\ \/ /\ link = ladder.picked /\ link \notin Foreign
        /\ Climb("up") /\ uid' = ladder.picked
     \/ Climb("idle") /\ UNCHANGED uid
  /\ UNCHANGED <<chip, field, link, dev, answered>>

------------------------------------------------------------------------------
(* transmit: refused without a target (pn532), a session (pn7160) or an      *)
(* activated transport; otherwise the active card answers, or the exchange   *)
(* fails, and the PN7160 driver may end its session.                         *)
CanTransmit ==
  CASE chip = "pn532" -> dev.initialized /\ dev.target
    [] chip = "pn7160" -> dev.target
    [] chip = "mfrc522" -> ladder.at = "up"

Exchanged(ok) ==
  /\ ok => CanTransmit /\ link # NoCard
  /\ answered' = IF ok THEN link ELSE NoCard
  /\ dev' \in IF ok \/ chip # "pn7160" THEN {dev} ELSE {dev, [dev EXCEPT !.target = FALSE]}
  /\ UNCHANGED <<chip, field, link, uid, ladder>>

Pn532Step == Pn532Release \/ \E ready, heard \in BOOLEAN : Pn532Activate(ready, heard)
LadderStep == MfrcPrepare \/ MfrcWakeup \/ MfrcSession

FrontNext ==
  \/ CardMoves \/ Pn532Step \/ MfrcActivate \/ LadderStep
  \/ chip # "pn7160" /\ \E ok \in BOOLEAN : Exchanged(ok)

FrontSpec == FrontInit /\ [][FrontNext]_front
------------------------------------------------------------------------------
(* Properties                                                                *)

(* A transmit that returns Ok was answered by the card whose UID get_uid     *)
(* returns, whatever was swapped or lost: keys derived from that UID are     *)
(* never offered to another card.  (The UID may be that of a card that is    *)
(* gone; every transmit then fails.)                                         *)
UidMatchesCard == answered # NoCard => answered = uid

(* No WUPA reaches a card that is active already (lib.rs: that would         *)
(* "convert success into CardNotPresent"): every attempt after a lost answer *)
(* starts with a cycle of the field.                                         *)
WakesResetCards == ladder.at = "wake" => link = NoCard

(* The ladder gives up only after ACTIVATION_ATTEMPTS lost rounds, or when   *)
(* the card that answered fails the set-up of its session.                   *)
GivesUpAfterAllAttempts ==
  chip = "mfrc522" /\ ladder.at = "idle" /\ ladder.picked = NoCard /\ ladder.lost > 0
    => ladder.lost = ACTIVATION_ATTEMPTS

(* Every activation comes to an end.                                         *)
ActivationEnds == ladder.at = "prepare" ~> ladder.at \in {"idle", "up"}

(* What is left of the ladder: attempts, and the rungs of this one.          *)
RungsLeft ==
  <<ACTIVATION_ATTEMPTS - ladder.attempt,
    CASE ladder.at = "prepare" -> 2 [] ladder.at = "wake" -> 1 [] OTHER -> 0>>

(* Every step of activate_with_delays ends the activation or leaves less of  *)
(* the ladder, whatever card comes, goes or is swapped meanwhile.            *)
LadderAdvances ==
  [][LadderStep => ladder'.at \in {"idle", "up"} \/ Less(RungsLeft', RungsLeft)]_front

(* A front end knows its card: whatever is swapped or lost, what answers is  *)
(* the card it names, no attempt silences a card that is active, and a card  *)
(* is given up only after all attempts.                                      *)
KnowsItsCard == UidMatchesCard /\ WakesResetCards /\ GivesUpAfterAllAttempts
=============================================================================
