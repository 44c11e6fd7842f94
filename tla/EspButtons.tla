------------------------------ MODULE EspButtons -----------------------------
(***************************************************************************)
(* The two buttons of the M5StickC (button.rs), what a click or a long     *)
(* press does in the simple and in the legacy mode, the poll that keeps    *)
(* last_card, on which the simple mode relies, and the hardware test,      *)
(* which uses buttons and poll for itself (firmware.rs, service.rs).       *)
(*                                                                         *)
(* A card is here blank or provisioned, as poll_safe tells them apart;     *)
(* what burn and wipe do to it in detail is EspWorkflow's subject.         *)
(***************************************************************************)
EXTENDS Naturals

CONSTANTS
  Tags,            \* cards
  Nobody,          \* no card
  DEBOUNCE_TICKS,
  LONG_PRESS       \* LONG_PRESS_MS, in ticks of the clock

ASSUME ButtonsAssumption ==
  /\ Nobody \notin Tags
  /\ {DEBOUNCE_TICKS, LONG_PRESS} \subseteq Nat \ {0}

Keys == {"front", "side"}

VARIABLES
  debounce,    \* per button: ButtonDebounce, with the age of the press for its start
  told,        \* history, per button: events since it was last seen pressed
  mode,        \* BUTTON_MODE, and what NVS has of it
  desk,        \* legacy_op, display mode, last_card, and the cards (see Desk)
  onReader,    \* the card on the reader
  announced,   \* card_announced
  test         \* run_hwtest: step, and how many have passed

buttonState == <<debounce, told>>
buttonVars == <<buttonState, mode, desk, onReader, announced, test>>

Modes == {"simple", "legacy"}
Ops   == {"idle", "burn", "wipe"}

(* op: legacy_op; shown: the display's mode; sight and seen: state and UID   *)
(* of last_card; kind: what the cards are.  History: gone, the card seen has *)
(* left the reader since and no activation noticed; changed, the card seen   *)
(* has been written since.                                                   *)
Desk == [op : Ops, shown : Ops \cup {"error"},
         sight : {"unknown", "blank", "prov"}, seen : Tags \cup {Nobody},
         kind : [Tags -> {"blank", "prov"}], gone : BOOLEAN, changed : BOOLEAN]

Up == [count |-> 0, pressed |-> FALSE, age |-> 0, fired |-> FALSE]

ButtonsTypeOK ==
  /\ debounce \in [Keys -> [count : 0..DEBOUNCE_TICKS, pressed : BOOLEAN,
                            age : 0..LONG_PRESS, fired : BOOLEAN]]
  /\ told \in [Keys -> Nat]
  /\ mode \in [now : Modes, saved : Modes]
  /\ desk \in Desk /\ onReader \in Tags \cup {Nobody} /\ announced \in BOOLEAN
  /\ test \in [at : {"no", "front", "side", "tap", "remove"}, passed : 0..3]

Forgotten(d) == [d EXCEPT !.sight = "unknown", !.seen = Nobody, !.gone = FALSE, !.changed = FALSE]

(* load_button_mode and save_button_mode: what NVS has after a save, which   *)
(* may fail without a word.                                                  *)
LoadButtonMode == mode.saved
SaveButtonMode(m) == {m, mode.saved}

(* A boot of a device that leaves its desk as d.                             *)
Booted(d) ==
  /\ debounce' = [k \in Keys |-> Up] /\ told' = [k \in Keys |-> 1]
  /\ mode' = [mode EXCEPT !.now = LoadButtonMode]
  /\ desk' = [Forgotten(d) EXCEPT !.op = "idle", !.shown = "idle"]
  /\ announced' = FALSE /\ test' = [at |-> "no", passed |-> 0]

ButtonsInit ==
  /\ debounce = [k \in Keys |-> Up] /\ told = [k \in Keys |-> 1]
  /\ mode = [now |-> "simple", saved |-> "simple"]
  /\ desk = [op |-> "idle", shown |-> "idle", sight |-> "unknown", seen |-> Nobody,
             kind |-> [c \in Tags |-> "blank"], gone |-> FALSE, changed |-> FALSE]
  /\ onReader = Nobody /\ announced = FALSE /\ test = [at |-> "no", passed |-> 0]

------------------------------------------------------------------------------
(* ButtonDebounce::update.  A press counts from the second low sample on; a  *)
(* release counts at once.                                                   *)

Older(d, dt) == IF d.age + dt < LONG_PRESS THEN d.age + dt ELSE LONG_PRESS

LongNow(d, dt) == d.pressed /\ ~d.fired /\ Older(d, dt) = LONG_PRESS

Event(d, low, dt) ==
  IF low THEN IF LongNow(d, dt) THEN "long" ELSE "none"
         ELSE IF d.pressed /\ ~d.fired THEN "click" ELSE "none"

Updated(d, low, dt) ==
  IF ~low THEN Up
  ELSE IF d.pressed THEN [d EXCEPT !.age = Older(d, dt), !.fired = @ \/ LongNow(d, dt)]
  ELSE IF d.count + 1 >= DEBOUNCE_TICKS
    THEN [count |-> DEBOUNCE_TICKS, pressed |-> TRUE, age |-> 0, fired |-> FALSE]
    ELSE [d EXCEPT !.count = @ + 1]

(* ButtonHandler::poll                                                       *)
Sampled(low, dt) ==
  /\ debounce' = [k \in Keys |-> Updated(debounce[k], low[k], dt)]
  /\ told' = [k \in Keys |->
                IF debounce'[k].pressed /\ ~debounce[k].pressed THEN 0
                ELSE told[k] + IF Event(debounce[k], low[k], dt) = "none" THEN 0 ELSE 1]

------------------------------------------------------------------------------
(* The service.  Each operator gives the desks it may leave.                 *)

(* Mutant: last_card survives a failed activation.                           *)
NotActivatedKeeps(d) == [d EXCEPT !.gone = FALSE]

(* activate_transport fails: no card, or one that does not answer.           *)
NotActivated(d) == Forgotten(d)

Seen(d, sight) ==
  [d EXCEPT !.sight = sight, !.seen = onReader, !.gone = FALSE, !.changed = FALSE]

(* The card on the reader becomes, or stays, of some kind.                   *)
Written(d, kind) ==
  [d EXCEPT !.kind[onReader] = kind, !.changed = @ \/ (d.kind[onReader] # kind)]

Outcome(d, shown) == [d EXCEPT !.shown = shown]

(* do_burn_button: refused for want of keys or URL, no card, done, failed    *)
(* part-way.  last_card is left as it is.                                    *)
Burn(d) ==
  {d, Outcome(NotActivated(d), "error")}
  \cup IF onReader = Nobody THEN {}
       ELSE {Outcome(Written(d, "prov"), "idle")}
            \cup {Outcome(Written(d, k), "error") : k \in {"blank", "prov"}}

(* do_wipe_button: a success is also remembered.                             *)
Wipe(d) ==
  {d, Outcome(NotActivated(d), "error")}
  \cup IF onReader = Nobody THEN {}
       ELSE {Outcome(Seen(Written(d, "blank"), "blank"), "idle")}
            \cup {Outcome(Written(d, k), "error") : k \in {"blank", "prov"}}

(* poll_safe: the state is read from the file settings, which may not be     *)
(* readable; a later failure of the inspection leaves last_card alone.       *)
PollSafe(d) ==
  {[desk |-> NotActivated(d), found |-> FALSE]}
  \cup IF onReader = Nobody THEN {}
       ELSE {[desk |-> Seen(d, s), found |-> TRUE] : s \in {d.kind[onReader], "unknown"}}
            \cup {[desk |-> d, found |-> FALSE]}

(* card_present                                                              *)
CardPresent(d) ==
  {[desk |-> NotActivated(d), found |-> FALSE]}
  \cup IF onReader = Nobody THEN {} ELSE {[desk |-> d, found |-> TRUE]}

------------------------------------------------------------------------------
(* The main loop                                                             *)

(* poll_card: once a card is announced, only its presence is checked.        *)
PollCard ==
  /\ test.at = "no"
  /\ \E r \in IF announced THEN CardPresent(desk) ELSE PollSafe(desk) :
       desk' = r.desk /\ announced' = r.found
  /\ UNCHANGED <<buttonState, mode, onReader, test>>

(* do_smart_action                                                           *)
SmartAction(d) ==
  CASE d.sight = "blank" -> Burn(d)
    [] d.sight = "prov"  -> Wipe(d)
    [] OTHER             -> {d}

Cycle(d) ==
  LET next == CASE d.op = "idle" -> "burn" [] d.op = "burn" -> "wipe" [] OTHER -> "idle"
  IN {[d EXCEPT !.op = next, !.shown = next]}

(* A long press of the front button toggles Wi-Fi, which is EspNetwork's.    *)
FrontButton(d, event) ==
  IF event # "click" THEN {d} ELSE IF mode.now = "simple" THEN SmartAction(d) ELSE Cycle(d)

(* The side button: status, or the operation chosen.                         *)
SideButton(d, event) ==
  IF event # "click" \/ mode.now = "simple" THEN {d}
  ELSE CASE d.op = "burn" -> Burn(d) [] d.op = "wipe" -> Wipe(d) [] OTHER -> {d}

(* handle_button_events, at the end of an iteration of the loop.             *)
ButtonPoll(low, dt) ==
  LET event == [k \in Keys |-> Event(debounce[k], low[k], dt)] IN
  /\ test.at = "no" /\ event["side"] # "long"
  /\ Sampled(low, dt)
  /\ desk' \in UNION {SideButton(d, event["side"]) : d \in FrontButton(desk, event["front"])}
  /\ UNCHANGED <<mode, onReader, announced, test>>

(* A long press of the side button: deep sleep, until a reset.  What the     *)
(* front button asks for in the same poll is done before.                    *)
Sleep(low, dt) ==
  /\ test.at = "no" /\ Event(debounce["side"], low["side"], dt) = "long"
  /\ \E d \in FrontButton(desk, Event(debounce["front"], low["front"], dt)) : Booted(d)
  /\ UNCHANGED onReader

(* A line of the console: the card may be burned, wiped or assessed, which   *)
(* does not touch the display's mode; whatever the line, the card is         *)
(* announced again.                                                          *)
ConsoleLine ==
  /\ test.at = "no"
  /\ \E d \in Burn(desk) \cup Wipe(desk) \cup {r.desk : r \in PollSafe(desk)} :
       desk' = [d EXCEPT !.shown = desk.shown]
  /\ announced' = FALSE
  /\ UNCHANGED <<buttonState, mode, onReader, test>>

(* button-mode: set, and saved, which may fail.                              *)
SetMode(m) ==
  /\ test.at = "no"
  /\ \E saved \in SaveButtonMode(m) : mode' = [now |-> m, saved |-> saved]
  /\ announced' = FALSE
  /\ UNCHANGED <<buttonState, desk, onReader, test>>

------------------------------------------------------------------------------
(* run_hwtest: front button, side button, card on, card off, each until it   *)
(* succeeds or its time is over.  The loop stands still meanwhile.           *)

HwTest ==
  /\ test.at = "no" /\ test' = [at |-> "front", passed |-> 0]
  /\ desk' = [desk EXCEPT !.shown = "burn"]
  /\ UNCHANGED <<buttonState, mode, onReader, announced>>

FollowingTest(step) ==
  CASE step = "front" -> "side" [] step = "side" -> "tap" [] step = "tap" -> "remove"
    [] OTHER -> "no"

Step(passed) ==
  test' = [at |-> FollowingTest(test.at),
           passed |-> IF test.at = "remove" THEN 0 ELSE test.passed + IF passed THEN 1 ELSE 0]

HwButton(low, dt) ==
  /\ test.at \in Keys
  /\ Sampled(low, dt)
  /\ IF Event(debounce[test.at], low[test.at], dt) # "none" THEN Step(TRUE) ELSE UNCHANGED test
  /\ UNCHANGED <<mode, desk, onReader, announced>>

HwTap ==
  /\ test.at = "tap"
  /\ \E r \in PollSafe(desk) :
       desk' = r.desk /\ IF r.found THEN Step(TRUE) ELSE UNCHANGED test
  /\ UNCHANGED <<buttonState, mode, onReader, announced>>

(* The last step also ends the test, and with it the line of the console.    *)
HwEnds(d, passed) ==
  /\ Step(passed) /\ announced' = FALSE
  /\ desk' = Outcome(d, IF passed /\ test.passed = 3 THEN "idle" ELSE "error")

HwRemove ==
  /\ test.at = "remove"
  /\ \E r \in CardPresent(desk) :
       IF r.found THEN desk' = r.desk /\ UNCHANGED <<test, announced>> ELSE HwEnds(r.desk, TRUE)
  /\ UNCHANGED <<buttonState, mode, onReader>>

HwTimeout ==
  /\ test.at # "no"
  /\ IF test.at = "remove" THEN HwEnds(desk, FALSE)
                           ELSE Step(FALSE) /\ UNCHANGED <<desk, announced>>
  /\ UNCHANGED <<buttonState, mode, onReader>>

------------------------------------------------------------------------------
CardComes(c) ==
  /\ onReader = Nobody /\ onReader' = c
  /\ UNCHANGED <<buttonState, mode, desk, announced, test>>

CardGoes ==
  /\ onReader # Nobody /\ onReader' = Nobody
  /\ desk' = [desk EXCEPT !.gone = desk.seen # Nobody]
  /\ UNCHANGED <<buttonState, mode, announced, test>>

ButtonsNext ==
  \/ PollCard \/ ConsoleLine \/ HwTest \/ HwTap \/ HwRemove \/ HwTimeout \/ CardGoes
  \/ \E low \in [Keys -> BOOLEAN], dt \in 0..LONG_PRESS :
       ButtonPoll(low, dt) \/ Sleep(low, dt) \/ HwButton(low, dt)
  \/ \E m \in Modes : SetMode(m)
  \/ \E c \in Tags : CardComes(c)

ButtonsSpec == ButtonsInit /\ [][ButtonsNext]_buttonVars

------------------------------------------------------------------------------
(* Properties                                                                *)

(* A press is told once: by its long press, or else by its click, however    *)
(* the samples of the two buttons fall and whoever polls them.               *)
PressToldOnce ==
  \A k \in Keys : told[k] = IF debounce[k].pressed /\ ~debounce[k].fired THEN 0 ELSE 1

(* What the smart action goes by is the card on the reader and its state,    *)
(* unless the card was exchanged between two activations, or was written     *)
(* since it was assessed (a burn does not update last_card).                 *)
SightIsCurrent ==
  onReader # Nobody /\ desk.seen # Nobody =>
    \/ desk.gone
    \/ /\ desk.seen = onReader
       /\ desk.sight \in {"unknown", desk.kind[onReader]} \/ desk.changed

(* Outside the hardware test, an operation on the display is the one that    *)
(* the side button of the legacy mode would run.  (The converse fails: a     *)
(* completed burn shows idle and leaves legacy_op at burn.)                  *)
ShownIsRun == test.at = "no" /\ desk.shown \in {"burn", "wipe"} => desk.op = desk.shown

(* What a press does is what its user sees: it counts once, acts on the card *)
(* that is there, and runs the operation shown.                              *)
PressDoesAsShown == PressToldOnce /\ SightIsCurrent /\ ShownIsRun
=============================================================================
