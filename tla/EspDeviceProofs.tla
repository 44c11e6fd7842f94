--------------------------- MODULE EspDeviceProofs ---------------------------
(***************************************************************************)
(* The parts of bolty-esp32 around the card: EspBoot for every length of a *)
(* URL and any number of boots, EspButtons for every debounce, long press  *)
(* and set of cards, EspNetwork for any number of provisionings, OtaUpdate *)
(* for images of any length and any number of updates and resets.          *)
(***************************************************************************)
EXTENDS EspBoot, EspButtons, EspNetwork, OtaUpdate, TLAPS

------------------------------------------------------------------------------
(* What survives a boot.                                                     *)

BootTypes ==
  /\ nvs \in [bootcnt : Nat, reason : Abnormal \cup {None}, boot : Nat,
              url : 0..MAX_LNURL_LEN, force : BOOLEAN]
  /\ config \in [url : 0..MAX_LNURL_LEN, force : BOOLEAN, boot : Nat]
  /\ booting \in {"load", "count", "reason", "boot", "ready"} /\ cause \in Causes
  /\ crash \in [reason : Abnormal \cup {None}, boot : Nat]
  /\ spoiled \in BOOLEAN /\ unsaved \in SUBSET {"url", "force"}

(* Once loaded, the configuration is what NVS has, but for the exceptions.   *)
Loaded ==
  booting # "load" =>
    /\ config.url = nvs.url \/ config.url = MAX_LNURL_LEN \/ "url" \in unsaved
    /\ config.force = nvs.force \/ "force" \in unsaved

(* How far the record of a crash has come at each step of the boot.          *)
Recorded ==
  /\ booting \in {"reason", "boot"} => cause \in Abnormal /\ config.boot > 0
  /\ ~spoiled =>
       /\ booting \in {"load", "count"} /\ cause \in Abnormal =>
            crash.reason = cause /\ crash.boot = nvs.bootcnt
       /\ booting \in {"load", "count"} /\ cause \notin Abnormal => Crashlog = crash
       /\ booting = "reason" => crash.reason = cause /\ crash.boot = config.boot - 1
       /\ booting = "boot" => nvs.reason = crash.reason /\ crash.boot = config.boot - 1
       /\ booting = "ready" => Crashlog = crash

BootInv == BootTypes /\ Loaded /\ Recorded

LEMMA BootInvInit == BootInit => BootInv
<1> SUFFICES ASSUME BootInit PROVE BootInv
  OBVIOUS
<1>1. BootTypes
  <2>1. NoUrl \in 0..MAX_LNURL_LEN
    BY BootAssumption DEF NoUrl
  <2>2. crash \in [reason : Abnormal \cup {None}, boot : Nat]
    BY DEF BootInit, NoCrash
  <2> QED BY <2>1, <2>2, Zenon DEF BootInit, BootTypes, Causes
<1>2. Loaded /\ Recorded
  BY DEF BootInit, Loaded, Recorded, Crashlog, NoCrash, None, Abnormal
<1> QED BY <1>1, <1>2 DEF BootInv

LEMMA BootingStep ==
  ASSUME BootInv, LoadConfig \/ CountBoot \/ SaveCrashReason \/ SaveCrashBoot
  PROVE  BootInv'
<1> USE DEF BootInv, BootTypes, Loaded, Recorded, Crashlog
<1>1. CASE LoadConfig
  BY <1>1, BootAssumption DEF LoadConfig, LoadLnurl, LoadForceFlag
<1>2. CASE CountBoot
  BY <1>2 DEF CountBoot
<1>3. CASE SaveCrashReason
  BY <1>3, Zenon DEF SaveCrashReason
<1>4. CASE SaveCrashBoot
  <2>1. config.boot - 1 \in Nat
    BY <1>4 DEF SaveCrashBoot
  <2>2. CASE nvs' = [nvs EXCEPT !.boot = config.boot - 1] /\ UNCHANGED spoiled
    <3>1. BootTypes'
      BY <1>4, <2>1, <2>2 DEF SaveCrashBoot
    <3>2. ~spoiled => crash = [reason |-> nvs.reason, boot |-> config.boot - 1]
      BY <1>4 DEF SaveCrashBoot
    <3> QED BY <1>4, <2>2, <3>1, <3>2 DEF SaveCrashBoot
  <2>3. CASE UNCHANGED nvs /\ spoiled' = TRUE
    BY <1>4, <2>3 DEF SaveCrashBoot
  <2> QED BY <1>4, <2>2, <2>3, Zenon DEF SaveCrashBoot
<1> QED BY <1>1, <1>2, <1>3, <1>4

LEMMA ResetByStep == ASSUME BootInv, NEW c \in Causes, ResetBy(c) PROVE BootInv'
<1> USE DEF BootInv, BootTypes, Loaded, Recorded, Crashlog
<1>1. BootTypes'
  <2>1. crash' \in [reason : Abnormal \cup {None}, boot : Nat]
    BY DEF ResetBy
  <2>2. config' \in [url : 0..MAX_LNURL_LEN, force : BOOLEAN, boot : Nat]
    BY BootAssumption DEF ResetBy, NoUrl
  <2>3. spoiled' \in BOOLEAN
    BY Zenon DEF ResetBy
  <2> QED BY <2>1, <2>2, <2>3, Zenon DEF ResetBy
<1>2. Recorded'
  BY Zenon DEF ResetBy
<1> QED BY <1>1, <1>2, Zenon DEF ResetBy

LEMMA SettingStep ==
  ASSUME BootInv,
         \/ SyncFrom \/ \E url \in 1..MAX_LNURL_LEN : SetUrl(url)
         \/ \E on \in BOOLEAN : SetForce(on)
  PROVE  BootInv'
<1> USE DEF BootInv, BootTypes, Loaded, Recorded, Crashlog
<1>1. CASE SyncFrom
  BY <1>1, BootAssumption DEF SyncFrom, SaveLnurl, Attempt
<1>2. ASSUME NEW url \in 1..MAX_LNURL_LEN, SetUrl(url) PROVE BootInv'
  BY <1>2, BootAssumption DEF SetUrl, SaveLnurl, Attempt
<1>3. ASSUME NEW on \in BOOLEAN, SetForce(on) PROVE BootInv'
  BY <1>3 DEF SetForce, SaveForceFlag, Attempt
<1> QED BY <1>1, <1>2, <1>3

(* The inductive invariant of the boots.                                     *)
THEOREM BootInvariant == BootSpec => []BootInv
<1>1. BootInv /\ [BootNext]_bootVars => BootInv'
  <2> SUFFICES ASSUME BootInv, [BootNext]_bootVars PROVE BootInv'
    OBVIOUS
  <2>1. CASE UNCHANGED bootVars
    BY <2>1 DEF bootVars, BootInv, BootTypes, Loaded, Recorded, Crashlog
  <2> QED BY <2>1, BootingStep, ResetByStep, SettingStep DEF BootNext
<1> QED BY <1>1, BootInvInit, PTL DEF BootSpec

(* An accepted setting is the one that the next boot loads, unless NVS       *)
(* failed or the URL has the full length.                                    *)
THEOREM KeepsSettings == BootSpec => []SettingsSurvive
<1>1. BootInv => SettingsSurvive
  BY DEF BootInv, Loaded, SettingsSurvive
<1> QED BY <1>1, BootInvariant, PTL

(* crashlog names the last abnormal reset and the boot that it ended, unless *)
(* the record was spoiled.                                                   *)
THEOREM TellsCrash == BootSpec => []CrashlogIsTrue
<1>1. BootInv => CrashlogIsTrue
  BY DEF BootInv, Recorded, CrashlogIsTrue
<1> QED BY <1>1, BootInvariant, PTL

(* The counters run no further than the resets: a boot is counted once.      *)
BootCounts ==
  /\ cuts \in 0..MaxBoots
  /\ nvs.bootcnt <= cuts + IF booting \in {"load", "count"} THEN 0 ELSE 1
  /\ config.boot <= cuts + 1 /\ nvs.boot <= cuts + 1 /\ crash.boot <= cuts + 1

LEMMA BootCountsKept == BootInv /\ BootCounts /\ [BootNext]_bootVars => BootCounts'
<1> SUFFICES ASSUME BootInv, BootCounts, [BootNext]_bootVars PROVE BootCounts'
  OBVIOUS
<1>0. /\ nvs \in [bootcnt : Nat, reason : Abnormal \cup {None}, boot : Nat,
                   url : 0..MAX_LNURL_LEN, force : BOOLEAN]
      /\ config \in [url : 0..MAX_LNURL_LEN, force : BOOLEAN, boot : Nat]
      /\ crash \in [reason : Abnormal \cup {None}, boot : Nat] /\ cuts \in Nat /\ MaxBoots \in Nat
  BY BootAssumption DEF BootInv, BootTypes, BootCounts
<1>1. CASE UNCHANGED <<booting, cuts, crash>> /\ config'.boot = config.boot
           /\ nvs'.bootcnt = nvs.bootcnt /\ nvs'.boot = nvs.boot
  BY <1>1 DEF BootCounts
<1>2. CASE LoadConfig
  BY <1>0, <1>2 DEF LoadConfig, BootCounts
<1>3. CASE CountBoot
  BY <1>0, <1>3 DEF CountBoot, BootCounts
<1>4. CASE SaveCrashReason
  BY <1>0, <1>4 DEF SaveCrashReason, BootCounts
<1>5. CASE SaveCrashBoot
  <2>1. config.boot - 1 \in Nat /\ config.boot - 1 <= cuts + 1
    BY <1>0, <1>5 DEF SaveCrashBoot, BootCounts, BootInv, Recorded
  <2> QED BY <1>0, <1>5, <2>1 DEF SaveCrashBoot, BootCounts
<1>6. ASSUME NEW c \in Causes, ResetBy(c) PROVE BootCounts'
  BY <1>0, <1>6 DEF ResetBy, BootCounts
<1>7. ASSUME NEW url, SaveLnurl(url) PROVE nvs'.bootcnt = nvs.bootcnt /\ nvs'.boot = nvs.boot
  BY <1>0, <1>7 DEF SaveLnurl, Attempt
<1>8. CASE SyncFrom
  BY <1>1, <1>7, <1>8, Zenon DEF SyncFrom
<1>9. ASSUME NEW url \in 1..MAX_LNURL_LEN, SetUrl(url) PROVE BootCounts'
  BY <1>0, <1>1, <1>7, <1>9 DEF SetUrl
<1>10. ASSUME NEW on \in BOOLEAN, SetForce(on) PROVE BootCounts'
  BY <1>0, <1>1, <1>10 DEF SetForce, SaveForceFlag, Attempt
<1>11. CASE UNCHANGED bootVars
  BY <1>1, <1>11 DEF bootVars
<1> QED BY <1>2, <1>3, <1>4, <1>5, <1>6, <1>8, <1>9, <1>10, <1>11 DEF BootNext

(* What NVS and the configuration hold keeps its type: after n resets no     *)
(* boot has a number beyond n + 1, whichever writes failed.                  *)
THEOREM BootTypesHold == BootSpec => []BootTypeOK
<1>1. BootInit => BootCounts
  BY BootAssumption DEF BootInit, BootCounts, NoCrash
<1>2. BootInv /\ BootCounts => BootTypeOK
  <2> SUFFICES ASSUME BootInv, BootCounts PROVE BootTypeOK
    OBVIOUS
  <2>1. /\ nvs.bootcnt \in 0..MaxBoots + 1 /\ nvs.boot \in 0..MaxBoots + 1
        /\ config.boot \in 0..MaxBoots + 1 /\ crash.boot \in 0..MaxBoots + 1
    BY BootAssumption DEF BootInv, BootTypes, BootCounts
  <2> QED BY <2>1 DEF BootInv, BootTypes, BootCounts, BootTypeOK
<1> QED BY <1>1, <1>2, BootInvariant, BootCountsKept, PTL DEF BootSpec

------------------------------------------------------------------------------
(* The buttons.                                                              *)

Debounce  == [count : 0..DEBOUNCE_TICKS, pressed : BOOLEAN, age : 0..LONG_PRESS, fired : BOOLEAN]
Debounces == [Keys -> Debounce]

PressInv == debounce \in Debounces /\ told \in [Keys -> Nat] /\ PressToldOnce

LEMMA SampleStep ==
  ASSUME PressInv, NEW low \in [Keys -> BOOLEAN], NEW dt \in Nat, Sampled(low, dt)
  PROVE  PressInv'
<1> USE DEF PressInv
<1>1. ASSUME NEW k \in Keys
      PROVE  /\ debounce'[k] \in Debounce
             /\ told'[k] = IF debounce'[k].pressed /\ ~debounce'[k].fired THEN 0 ELSE 1
  <2> DEFINE d == debounce[k]
  <2>0. /\ d \in Debounce
        /\ told[k] = IF d.pressed /\ ~d.fired THEN 0 ELSE 1
        /\ DEBOUNCE_TICKS \in Nat /\ LONG_PRESS \in Nat
    BY ButtonsAssumption DEF Debounces, PressToldOnce
  <2>1. /\ debounce'[k] = Updated(d, low[k], dt)
        /\ told'[k] = IF debounce'[k].pressed /\ ~d.pressed THEN 0
                      ELSE told[k] + IF Event(d, low[k], dt) = "none" THEN 0 ELSE 1
    BY DEF Sampled
  <2> HIDE DEF d
  <2>2. CASE ~low[k]
    BY <2>0, <2>1, <2>2 DEF Updated, Event, Up, Debounce
  <2>3. CASE low[k] /\ d.pressed
    <3>1. Older(d, dt) \in 0..LONG_PRESS
      BY <2>0 DEF Older, Debounce
    <3>2. CASE LongNow(d, dt)
      <4>1. debounce'[k] = [d EXCEPT !.age = Older(d, dt), !.fired = TRUE]
        BY <2>0, <2>1, <2>3, <3>2, Zenon DEF Updated
      <4>2. told'[k] = 1
        BY <2>0, <2>1, <2>3, <3>2 DEF Event, LongNow
      <4> QED BY <2>0, <3>1, <4>1, <4>2, Zenon DEF Debounce
    <3>3. CASE ~LongNow(d, dt)
      <4>1. debounce'[k] = [d EXCEPT !.age = Older(d, dt), !.fired = d.fired]
        BY <2>0, <2>1, <2>3, <3>3, Zenon DEF Updated, Debounce
      <4>2. told'[k] = told[k]
        BY <2>0, <2>1, <2>3, <3>3 DEF Event
      <4> QED BY <2>0, <2>3, <3>1, <4>1, <4>2, Zenon DEF Debounce
    <3> QED BY <3>2, <3>3
  <2>4. CASE low[k] /\ ~d.pressed
    BY <2>0, <2>1, <2>4 DEF Updated, Event, LongNow, Debounce
  <2> QED BY <2>0, <2>2, <2>3, <2>4
<1>2. debounce' \in Debounces
  BY <1>1 DEF Sampled, Debounces
<1>3. told' \in [Keys -> Nat]
  BY <1>1 DEF Sampled
<1> QED BY <1>1, <1>2, <1>3 DEF PressToldOnce

(* The invariant of the presses holds of every behaviour.                    *)
THEOREM PressInvariant == ButtonsSpec => []PressInv
<1>0. Up \in Debounce
  BY ButtonsAssumption DEF Up, Debounce
<1>1. ButtonsInit => PressInv
  BY <1>0 DEF ButtonsInit, PressInv, Debounces, PressToldOnce, Up
<1>2. PressInv /\ [ButtonsNext]_buttonVars => PressInv'
  <2> SUFFICES ASSUME PressInv, [ButtonsNext]_buttonVars PROVE PressInv'
    OBVIOUS
  <2>1. CASE UNCHANGED buttonState
    BY <2>1 DEF buttonState, PressInv, PressToldOnce
  <2>2. ASSUME NEW low \in [Keys -> BOOLEAN], NEW dt \in 0..LONG_PRESS, Sampled(low, dt)
        PROVE  PressInv'
    BY <2>2, SampleStep, ButtonsAssumption
  <2>3. ASSUME NEW d, Booted(d) PROVE PressInv'
    BY <1>0, <2>3 DEF Booted, PressInv, Debounces, PressToldOnce, Up
  <2>4. ASSUME PollCard \/ ConsoleLine \/ HwTest \/ HwTap \/ HwRemove \/ HwTimeout \/ CardGoes
        PROVE  UNCHANGED buttonState
    BY <2>4, Zenon DEF PollCard, ConsoleLine, HwTest, HwTap, HwRemove, HwTimeout, CardGoes
  <2>5. ASSUME NEW low \in [Keys -> BOOLEAN], NEW dt \in 0..LONG_PRESS,
               ButtonPoll(low, dt) \/ Sleep(low, dt) \/ HwButton(low, dt)
        PROVE  PressInv'
    BY <2>2, <2>3, <2>5, Zenon DEF ButtonPoll, Sleep, HwButton
  <2>6. ASSUME (\E m \in Modes : SetMode(m)) \/ (\E c \in Tags : CardComes(c))
        PROVE  UNCHANGED buttonState
    BY <2>6 DEF SetMode, CardComes
  <2>7. CASE UNCHANGED buttonVars
    BY <2>1, <2>7 DEF buttonVars
  <2> QED BY <2>1, <2>4, <2>5, <2>6, <2>7 DEF ButtonsNext
<1> QED BY <1>1, <1>2, PTL DEF ButtonsSpec

(* However the buttons are sampled and whoever samples them, a press is told *)
(* once.                                                                     *)
THEOREM TellsPressOnce == ButtonsSpec => []PressToldOnce
<1>1. PressInv => PressToldOnce
  BY DEF PressInv
<1> QED BY <1>1, PressInvariant, PTL

------------------------------------------------------------------------------
(* What the smart action goes by.                                            *)

(* The card seen is the one on the reader, or has gone.                      *)
Sees(d) ==
  /\ d \in Desk
  /\ d.seen # Nobody =>
       \/ d.gone
       \/ /\ onReader # Nobody /\ d.seen = onReader
          /\ d.sight \in {"unknown", d.kind[onReader]} \/ d.changed

SightInv == onReader \in Tags \cup {Nobody} /\ Sees(desk)

LEMMA ForgottenSees == ASSUME NEW d, Sees(d) PROVE Sees(Forgotten(d))
BY Zenon DEF Sees, Forgotten, Desk

LEMMA OutcomeSees ==
  ASSUME NEW d, Sees(d), NEW shown \in Ops \cup {"error"} PROVE Sees(Outcome(d, shown))
BY DEF Sees, Outcome, Desk

LEMMA SeenSees ==
  ASSUME NEW d, Sees(d), onReader \in Tags, NEW sight \in {"unknown", d.kind[onReader]}
  PROVE  Sees(Seen(d, sight))
<1>1. sight \in {"unknown", "blank", "prov"}
  BY DEF Sees, Desk
<1> QED BY <1>1, ButtonsAssumption, Zenon DEF Sees, Seen, Desk

LEMMA WrittenSees ==
  ASSUME NEW d, Sees(d), onReader \in Tags, NEW kind \in {"blank", "prov"}
  PROVE  Sees(Written(d, kind)) /\ Written(d, kind).kind[onReader] = kind
<1> DEFINE kinds == [d.kind EXCEPT ![onReader] = kind]
           changes == d.changed \/ (d.kind[onReader] # kind)
<1>1. /\ d \in Desk /\ d.kind \in [Tags -> {"blank", "prov"}]
      /\ kinds \in [Tags -> {"blank", "prov"}] /\ kinds[onReader] = kind /\ changes \in BOOLEAN
  BY DEF Sees, Desk
<1>2. Written(d, kind) = [d EXCEPT !.kind = kinds, !.changed = changes]
  BY <1>1 DEF Written, Desk
<1> HIDE DEF kinds
<1> QED BY <1>1, <1>2, Zenon DEF Sees, Desk

LEMMA BurnSees ==
  ASSUME NEW d, Sees(d), onReader \in Tags \cup {Nobody}, NEW e \in Burn(d) PROVE Sees(e)
BY ForgottenSees, OutcomeSees, WrittenSees DEF Burn, NotActivated, Ops

LEMMA WipeSees ==
  ASSUME NEW d, Sees(d), onReader \in Tags \cup {Nobody}, NEW e \in Wipe(d) PROVE Sees(e)
BY ForgottenSees, OutcomeSees, WrittenSees, SeenSees DEF Wipe, NotActivated, Ops

LEMMA PollSees ==
  ASSUME NEW d, Sees(d), onReader \in Tags \cup {Nobody},
         NEW r \in PollSafe(d) \cup CardPresent(d)
  PROVE  Sees(r.desk)
BY ForgottenSees, SeenSees DEF PollSafe, CardPresent, NotActivated

LEMMA FrontSees ==
  ASSUME NEW d, Sees(d), onReader \in Tags \cup {Nobody}, NEW event, NEW e \in FrontButton(d, event)
  PROVE  Sees(e)
<1>1. ASSUME NEW f \in SmartAction(d) PROVE Sees(f)
  BY <1>1, BurnSees, WipeSees DEF SmartAction
<1>2. ASSUME NEW f \in Cycle(d) PROVE Sees(f)
  <2>1. PICK next \in Ops : f = [d EXCEPT !.op = next, !.shown = next]
    BY <1>2, Zenon DEF Cycle, Ops
  <2> QED BY <2>1, Zenon DEF Sees, Desk
<1> QED BY <1>1, <1>2 DEF FrontButton

LEMMA SideSees ==
  ASSUME NEW d, Sees(d), onReader \in Tags \cup {Nobody}, NEW event, NEW e \in SideButton(d, event)
  PROVE  Sees(e)
BY BurnSees, WipeSees DEF SideButton

LEMMA DeskStep ==
  ASSUME SightInv,
         \/ PollCard \/ ConsoleLine \/ HwTest \/ HwTap \/ HwRemove \/ HwTimeout
         \/ \E low \in [Keys -> BOOLEAN], dt \in 0..LONG_PRESS :
              ButtonPoll(low, dt) \/ Sleep(low, dt) \/ HwButton(low, dt)
  PROVE  SightInv'
<1>0. onReader' = onReader /\ Sees(desk) /\ onReader \in Tags \cup {Nobody}
  BY Zenon DEF SightInv, PollCard, ConsoleLine, HwTest, HwTap, HwRemove, HwTimeout, ButtonPoll, Sleep,
         HwButton
<1>s. SUFFICES Sees(desk')
  BY <1>0 DEF SightInv, Sees
<1>1. ASSUME NEW shown \in Ops \cup {"error"}, NEW d, Sees(d), desk' = [d EXCEPT !.shown = shown]
      PROVE  Sees(desk')
  BY <1>1, OutcomeSees DEF Outcome
<1>2. CASE PollCard
  BY <1>0, <1>2, PollSees DEF PollCard
<1>3. CASE ConsoleLine
  <2>1. PICK d \in Burn(desk) \cup Wipe(desk) \cup {r.desk : r \in PollSafe(desk)} :
          desk' = [d EXCEPT !.shown = desk.shown]
    BY <1>3 DEF ConsoleLine
  <2>2. Sees(d)
    BY <1>0, BurnSees, WipeSees, PollSees
  <2>3. desk.shown \in Ops \cup {"error"}
    BY <1>0 DEF Sees, Desk
  <2> QED BY <1>1, <2>1, <2>2, <2>3
<1>4. CASE HwTest
  BY <1>0, <1>1, <1>4 DEF HwTest, Ops
<1>5. CASE HwTap
  BY <1>0, <1>5, PollSees DEF HwTap
<1>6. ASSUME NEW d, Sees(d), NEW passed, HwEnds(d, passed) PROVE Sees(desk')
  BY <1>6, OutcomeSees DEF HwEnds, Ops
<1>7. CASE HwRemove
  BY <1>0, <1>6, <1>7, PollSees, Zenon DEF HwRemove
<1>8. CASE HwTimeout
  BY <1>0, <1>6, <1>8, Zenon DEF HwTimeout
<1>9. ASSUME NEW low \in [Keys -> BOOLEAN], NEW dt \in 0..LONG_PRESS,
             ButtonPoll(low, dt) \/ Sleep(low, dt) \/ HwButton(low, dt)
      PROVE  Sees(desk')
  <2>1. CASE ButtonPoll(low, dt)
    <3>1. PICK d \in FrontButton(desk, Event(debounce["front"], low["front"], dt)) :
            desk' \in SideButton(d, Event(debounce["side"], low["side"], dt))
      BY <2>1 DEF ButtonPoll, Keys
    <3> QED BY <1>0, <3>1, FrontSees, SideSees
  <2>2. CASE Sleep(low, dt)
    <3>1. PICK d \in FrontButton(desk, Event(debounce["front"], low["front"], dt)) : Booted(d)
      BY <2>2 DEF Sleep
    <3>2. Sees(Forgotten(d))
      BY <1>0, FrontSees, ForgottenSees
    <3>3. desk' = [Forgotten(d) EXCEPT !.op = "idle", !.shown = "idle"]
      BY <3>1 DEF Booted
    <3> HIDE DEF Forgotten
    <3> QED BY <3>2, <3>3, Zenon DEF Sees, Desk, Ops
  <2>3. CASE HwButton(low, dt)
    BY <1>0, <2>3 DEF HwButton
  <2> QED BY <1>9, <2>1, <2>2, <2>3
<1> QED BY <1>2, <1>3, <1>4, <1>5, <1>7, <1>8, <1>9

(* The invariant of the sight holds of every behaviour.                      *)
THEOREM SightInvariant == ButtonsSpec => []SightInv
<1>1. ButtonsInit => SightInv
  BY DEF ButtonsInit, SightInv, Sees, Desk, Ops
<1>2. SightInv /\ [ButtonsNext]_buttonVars => SightInv'
  <2> SUFFICES ASSUME SightInv, [ButtonsNext]_buttonVars PROVE SightInv'
    OBVIOUS
  <2>1. CASE UNCHANGED <<desk, onReader>>
    BY <2>1 DEF SightInv, Sees
  <2>2. CASE CardGoes
    BY <2>2, Zenon DEF CardGoes, SightInv, Sees, Desk
  <2>3. ASSUME NEW c \in Tags, CardComes(c) PROVE SightInv'
    BY <2>3 DEF CardComes, SightInv, Sees
  <2>4. ASSUME NEW m \in Modes, SetMode(m) PROVE UNCHANGED <<desk, onReader>>
    BY <2>4 DEF SetMode
  <2> QED BY <2>1, <2>2, <2>3, <2>4, DeskStep DEF ButtonsNext, buttonVars
<1> QED BY <1>1, <1>2, PTL DEF ButtonsSpec

(* The smart action never goes by another card, or another state, than the   *)
(* one on the reader, but for the exchange and the burn that nobody noticed. *)
THEOREM ActsOnWhatIsThere == ButtonsSpec => []SightIsCurrent
<1>1. SightInv => SightIsCurrent
  BY DEF SightInv, Sees, SightIsCurrent
<1> QED BY <1>1, SightInvariant, PTL

------------------------------------------------------------------------------
(* What the display shows.                                                   *)

(* The display names no other operation than the one chosen.                 *)
Shows(d) == d.shown \in {"burn", "wipe"} => d.op = d.shown

TestSteps == {"no", "front", "side", "tap", "remove"}

(* The hardware test uses the display for itself, and ends by clearing it.   *)
ShownInv == test.at \in TestSteps /\ (test.at = "no" => Shows(desk))

(* What the service remembers or writes is not on the display.               *)
LEMMA FieldsShow ==
  ASSUME NEW d \in Desk, NEW sight, NEW kind, NEW shown
  PROVE  /\ Forgotten(d).op = d.op /\ Forgotten(d).shown = d.shown
         /\ Seen(d, sight).op = d.op /\ Seen(d, sight).shown = d.shown
         /\ Written(d, kind).op = d.op /\ Written(d, kind).shown = d.shown
         /\ Outcome(d, shown).op = d.op /\ Outcome(d, shown).shown = shown
<1>1. Forgotten(d).op = d.op /\ Forgotten(d).shown = d.shown
  BY DEF Forgotten, Desk
<1>2. Seen(d, sight).op = d.op /\ Seen(d, sight).shown = d.shown
  BY DEF Seen, Desk
<1>3. Written(d, kind).op = d.op /\ Written(d, kind).shown = d.shown
  BY DEF Written, Desk
<1>4. Outcome(d, shown).op = d.op /\ Outcome(d, shown).shown = shown
  BY DEF Outcome, Desk
<1> QED BY <1>1, <1>2, <1>3, <1>4

(* An operation leaves legacy_op alone, and the display shows what it showed *)
(* or how the operation ended.                                               *)
LEMMA OperationShows ==
  ASSUME NEW d, Sees(d), onReader \in Tags \cup {Nobody},
         NEW e \in Burn(d) \cup Wipe(d) \cup {r.desk : r \in PollSafe(d) \cup CardPresent(d)}
  PROVE  e.op = d.op /\ e.shown \in {d.shown, "idle", "error"}
<1>1. d \in Desk /\ Forgotten(d) \in Desk
  BY ForgottenSees DEF Sees
<1>2. ASSUME onReader \in Tags, NEW kind \in {"blank", "prov"}
      PROVE  Written(d, kind) \in Desk
  BY <1>2, WrittenSees DEF Sees
<1>3. ASSUME onReader \in Tags
      PROVE  Seen(Written(d, "blank"), "blank") \in Desk
  BY <1>3, WrittenSees, SeenSees DEF Sees
<1> DEFINE Shown(f) == f.op = d.op /\ f.shown \in {d.shown, "idle", "error"}
<1>n. Shown(d) /\ Shown(Outcome(Forgotten(d), "error"))
  BY <1>1, FieldsShow, Zenon
<1>k. ASSUME onReader \in Tags, NEW kind \in {"blank", "prov"}, NEW shown \in {"idle", "error"}
      PROVE  Shown(Outcome(Written(d, kind), shown))
  BY <1>1, <1>2, <1>k, FieldsShow
<1>s. ASSUME onReader \in Tags PROVE Shown(Outcome(Seen(Written(d, "blank"), "blank"), "idle"))
  <2>1. Written(d, "blank") \in Desk /\ Written(d, "blank").op = d.op
    BY <1>1, <1>2, <1>s, FieldsShow
  <2>2. Seen(Written(d, "blank"), "blank").op = d.op
    BY <2>1, FieldsShow
  <2> QED BY <1>3, <1>s, <2>2, FieldsShow
<1> HIDE DEF Shown
<1>4. ASSUME e \in Burn(d) PROVE Shown(e)
  BY <1>4, <1>n, <1>k, Zenon DEF Burn, NotActivated
<1>5. ASSUME e \in Wipe(d) PROVE Shown(e)
  BY <1>5, <1>n, <1>k, <1>s, Zenon DEF Wipe, NotActivated
<1> USE DEF Shown
<1>6. CASE e \in {r.desk : r \in PollSafe(d) \cup CardPresent(d)}
  BY <1>1, <1>6, FieldsShow DEF PollSafe, CardPresent, NotActivated
<1> QED BY <1>4, <1>5, <1>6

(* So it shows the operation chosen if it did before.                        *)
LEMMA OperationKeepsShows ==
  ASSUME NEW d, Sees(d), onReader \in Tags \cup {Nobody}, Shows(d),
         NEW e \in Burn(d) \cup Wipe(d) \cup {r.desk : r \in PollSafe(d) \cup CardPresent(d)}
  PROVE  Shows(e)
BY OperationShows DEF Shows

(* A press of the front button chooses what it shows.                        *)
LEMMA FrontShows ==
  ASSUME NEW d, Sees(d), onReader \in Tags \cup {Nobody}, Shows(d), NEW event,
         NEW e \in FrontButton(d, event)
  PROVE  Shows(e)
<1>1. ASSUME NEW f \in SmartAction(d) PROVE Shows(f)
  BY <1>1, OperationKeepsShows DEF SmartAction
<1>2. ASSUME NEW f \in Cycle(d) PROVE Shows(f)
  <2>1. PICK next : f = [d EXCEPT !.op = next, !.shown = next]
    BY <1>2, Zenon DEF Cycle
  <2> QED BY <2>1 DEF Shows, Sees, Desk
<1> QED BY <1>1, <1>2 DEF FrontButton

(* The side button runs it.                                                  *)
LEMMA SideShows ==
  ASSUME NEW d, Sees(d), onReader \in Tags \cup {Nobody}, Shows(d), NEW event,
         NEW e \in SideButton(d, event)
  PROVE  Shows(e)
BY OperationKeepsShows DEF SideButton

(* The steps of the main loop.                                               *)
LEMMA LoopShows ==
  ASSUME SightInv, ShownInv,
         \/ PollCard \/ ConsoleLine
         \/ \E low \in [Keys -> BOOLEAN], dt \in 0..LONG_PRESS :
              ButtonPoll(low, dt) \/ Sleep(low, dt)
  PROVE  ShownInv'
<1>0. test.at = "no" /\ (test' = test \/ test' = [at |-> "no", passed |-> 0])
  BY Zenon DEF PollCard, ConsoleLine, ButtonPoll, Sleep, Booted
<1>1. /\ desk \in Desk /\ Sees(desk) /\ onReader \in Tags \cup {Nobody} /\ test.at = "no"
      /\ Shows(desk) /\ test'.at = "no"
  BY <1>0 DEF SightInv, Sees, ShownInv
<1>2. SUFFICES Shows(desk')
  BY <1>1 DEF ShownInv, Shows, TestSteps
<1>3. CASE PollCard
  BY <1>1, <1>3, OperationKeepsShows DEF PollCard
<1>4. CASE ConsoleLine
  <2>1. PICK d \in Burn(desk) \cup Wipe(desk) \cup {r.desk : r \in PollSafe(desk)} :
          desk' = [d EXCEPT !.shown = desk.shown]
    BY <1>4 DEF ConsoleLine
  <2>2. Sees(d)
    BY <1>1, BurnSees, WipeSees, PollSees
  <2>3. d.op = desk.op /\ d \in Desk
    BY <1>1, <2>2, OperationShows DEF Sees
  <2> QED BY <1>1, <2>1, <2>3 DEF Shows, Desk
<1>5. ASSUME NEW low \in [Keys -> BOOLEAN], NEW dt \in 0..LONG_PRESS,
             ButtonPoll(low, dt) \/ Sleep(low, dt)
      PROVE  Shows(desk')
  <2> DEFINE front == Event(debounce["front"], low["front"], dt)
             side  == Event(debounce["side"], low["side"], dt)
  <2>1. CASE ButtonPoll(low, dt)
    <3>1. PICK d \in FrontButton(desk, front) : desk' \in SideButton(d, side)
      BY <2>1 DEF ButtonPoll, Keys
    <3>2. Shows(d) /\ Sees(d)
      BY <1>1, <3>1, FrontShows, FrontSees
    <3> QED BY <1>1, <3>1, <3>2, SideShows
  <2>2. CASE Sleep(low, dt)
    <3>1. PICK d \in FrontButton(desk, front) : Booted(d)
      BY <2>2 DEF Sleep
    <3>2. Forgotten(d) \in Desk
      BY <1>1, FrontSees, ForgottenSees DEF Sees
    <3>3. desk' = [Forgotten(d) EXCEPT !.op = "idle", !.shown = "idle"]
      BY <3>1 DEF Booted
    <3> HIDE DEF Forgotten
    <3> QED BY <3>2, <3>3 DEF Shows, Desk
  <2> QED BY <1>5, <2>1, <2>2
<1> QED BY <1>3, <1>4, <1>5

(* The steps of the hardware test.                                           *)
LEMMA TestShows ==
  ASSUME SightInv, ShownInv,
         \/ HwTest \/ HwTap \/ HwRemove \/ HwTimeout
         \/ \E low \in [Keys -> BOOLEAN], dt \in 0..LONG_PRESS : HwButton(low, dt)
  PROVE  ShownInv'
<1>1. test.at \in TestSteps /\ desk \in Desk
  BY DEF ShownInv, SightInv, Sees
<1>2. ASSUME NEW passed, Step(passed), test.at \in {"front", "side", "tap"}
      PROVE  test'.at \in TestSteps /\ test'.at # "no"
  BY <1>2 DEF Step, FollowingTest, TestSteps
<1>3. ASSUME NEW d \in Desk, NEW passed, HwEnds(d, passed), test.at = "remove"
      PROVE  ShownInv'
  <2>1. test'.at = "no" /\ desk'.shown \in {"idle", "error"}
    BY <1>3 DEF HwEnds, Step, FollowingTest, Outcome, Desk
  <2> QED BY <2>1 DEF ShownInv, Shows, TestSteps
<1>4. CASE HwTest
  BY <1>4 DEF HwTest, ShownInv, TestSteps
<1>5. CASE HwTap
  BY <1>1, <1>2, <1>5, Zenon DEF HwTap, ShownInv
<1>6. CASE HwRemove
  <2>1. PICK r \in CardPresent(desk) :
          IF r.found THEN desk' = r.desk /\ UNCHANGED <<test, announced>> ELSE HwEnds(r.desk, TRUE)
    BY <1>6, Zenon DEF HwRemove
  <2>2. r.desk \in Desk
    BY PollSees, Zenon DEF SightInv, Sees
  <2>3. test.at = "remove"
    BY <1>6 DEF HwRemove
  <2>4. CASE test' = test
    BY <2>3, <2>4 DEF ShownInv, TestSteps
  <2> QED BY <1>3, <2>1, <2>2, <2>3, <2>4, Zenon
<1>7. CASE HwTimeout
  <2>1. CASE test.at = "remove"
    BY <1>1, <1>3, <1>7, <2>1, Zenon DEF HwTimeout
  <2>2. CASE test.at \in {"front", "side", "tap"}
    <3>1. Step(FALSE)
      BY <1>7, <2>2, Zenon DEF HwTimeout
    <3> QED BY <1>2, <2>2, <3>1, Zenon DEF ShownInv
  <2> QED BY <1>1, <1>7, <2>1, <2>2 DEF HwTimeout, TestSteps
<1>8. ASSUME NEW low \in [Keys -> BOOLEAN], NEW dt \in 0..LONG_PRESS, HwButton(low, dt)
      PROVE  ShownInv'
  <2>1. test.at \in {"front", "side"} /\ (Step(TRUE) \/ test' = test)
    BY <1>8, Zenon DEF HwButton, Keys
  <2> QED BY <1>1, <1>2, <2>1, Zenon DEF ShownInv
<1> QED BY <1>4, <1>5, <1>6, <1>7, <1>8

(* Outside the hardware test the operation shown is the one that runs.       *)
THEOREM RunsWhatIsShown == ButtonsSpec => []ShownIsRun
<1>1. ButtonsInit => ShownInv
  BY DEF ButtonsInit, ShownInv, Shows, TestSteps
<1>2. SightInv /\ ShownInv /\ [ButtonsNext]_buttonVars => ShownInv'
  <2> SUFFICES ASSUME SightInv, ShownInv, [ButtonsNext]_buttonVars PROVE ShownInv'
    OBVIOUS
  <2>1. CASE UNCHANGED <<desk, test>>
    BY <2>1 DEF ShownInv, Shows
  <2>2. CASE CardGoes
    BY <2>2 DEF CardGoes, ShownInv, Shows, SightInv, Sees, Desk
  <2>3. ASSUME (\E m \in Modes : SetMode(m)) \/ (\E c \in Tags : CardComes(c))
        PROVE  UNCHANGED <<desk, test>>
    BY <2>3 DEF SetMode, CardComes
  <2> QED BY <2>1, <2>2, <2>3, LoopShows, TestShows DEF ButtonsNext, buttonVars
<1>3. ShownInv => ShownIsRun
  BY DEF ShownInv, Shows, ShownIsRun
<1> QED BY <1>1, <1>2, <1>3, SightInvariant, PTL DEF ButtonsSpec

(* The hardware test: what has passed is of the steps that are over.         *)
StepsBefore(step) ==
  CASE step = "side" -> 1 [] step = "tap" -> 2 [] step = "remove" -> 3 [] OTHER -> 0

TestInv ==
  /\ mode \in [now : Modes, saved : Modes] /\ announced \in BOOLEAN
  /\ test \in [at : TestSteps, passed : Nat] /\ test.passed <= StepsBefore(test.at)

LEMMA TestStep == ASSUME TestInv, NEW passed \in BOOLEAN, Step(passed), test.at # "no"
                  PROVE  /\ test' \in [at : TestSteps, passed : Nat]
                         /\ test'.passed <= StepsBefore(test'.at)
BY DEF TestInv, Step, FollowingTest, StepsBefore, TestSteps

LEMMA TestKept == TestInv /\ [ButtonsNext]_buttonVars => TestInv'
<1> SUFFICES ASSUME TestInv, [ButtonsNext]_buttonVars PROVE TestInv'
  OBVIOUS
<1> DEFINE TestOK == test \in [at : TestSteps, passed : Nat] /\ test.passed <= StepsBefore(test.at)
<1>0. TestOK /\ (test' = test => TestOK') /\ (test' = [at |-> "no", passed |-> 0] => TestOK')
  BY DEF TestInv, StepsBefore, TestSteps
<1>1. ASSUME NEW passed \in BOOLEAN, Step(passed), test.at # "no" PROVE TestOK'
  BY <1>1, TestStep
<1> HIDE DEF TestOK
<1>2. ASSUME NEW d, NEW r \in CardPresent(d) \cup PollSafe(d) PROVE r.found \in BOOLEAN
  <2>1. \E e : r = [desk |-> e, found |-> FALSE] \/ r = [desk |-> e, found |-> TRUE]
    BY <1>2, Zenon DEF CardPresent, PollSafe
  <2>2. r.found = FALSE \/ r.found = TRUE
    BY <2>1
  <2> QED BY <2>2, Zenon
<1>3. CASE PollCard
  <2>1. announced' \in BOOLEAN
    BY <1>2, <1>3, Zenon DEF PollCard
  <2> QED BY <1>0, <1>3, <2>1, Zenon DEF PollCard, TestInv, TestOK
<1>4. CASE ConsoleLine
  BY <1>0, <1>4, Zenon DEF ConsoleLine, TestInv, TestOK
<1>5. CASE HwTest
  <2>1. test' \in [at : TestSteps, passed : Nat] /\ test'.passed <= StepsBefore(test'.at)
    BY <1>5 DEF HwTest, StepsBefore, TestSteps
  <2> QED BY <1>5, <2>1, Zenon DEF HwTest, TestInv
<1>6. CASE HwTap
  BY <1>0, <1>1, <1>6, Zenon DEF HwTap, TestInv, TestOK
<1>7. CASE HwRemove
  BY <1>0, <1>1, <1>7, Zenon DEF HwRemove, HwEnds, TestInv, TestOK
<1>8. CASE HwTimeout
  BY <1>0, <1>1, <1>8, Zenon DEF HwTimeout, HwEnds, TestInv, TestOK
<1>9. CASE CardGoes \/ (\E c \in Tags : CardComes(c))
  BY <1>0, <1>9, Zenon DEF CardGoes, CardComes, TestInv, TestOK
<1>10. ASSUME NEW low \in [Keys -> BOOLEAN], NEW dt \in 0..LONG_PRESS, ButtonPoll(low, dt)
       PROVE  TestInv'
  BY <1>0, <1>10, Zenon DEF ButtonPoll, TestInv, TestOK
<1>11. ASSUME NEW low \in [Keys -> BOOLEAN], NEW dt \in 0..LONG_PRESS, Sleep(low, dt)
       PROVE  TestInv'
  <2>1. mode' \in [now : Modes, saved : Modes]
    BY <1>11 DEF Sleep, Booted, LoadButtonMode, TestInv
  <2> QED BY <1>0, <1>11, <2>1, Zenon DEF Sleep, Booted, TestInv, TestOK
<1>12. ASSUME NEW low \in [Keys -> BOOLEAN], NEW dt \in 0..LONG_PRESS, HwButton(low, dt)
       PROVE  TestInv'
  <2>1. test.at # "no"
    BY <1>12 DEF HwButton, Keys
  <2> QED BY <1>0, <1>1, <1>12, <2>1, Zenon DEF HwButton, TestInv, TestOK
<1>13. ASSUME NEW m \in Modes, SetMode(m) PROVE TestInv'
  <2>1. mode' \in [now : Modes, saved : Modes]
    BY <1>13 DEF SetMode, SaveButtonMode, TestInv
  <2> QED BY <1>0, <1>13, <2>1, Zenon DEF SetMode, TestInv, TestOK
<1>14. CASE UNCHANGED buttonVars
  BY <1>0, <1>14, Zenon DEF buttonVars, TestInv, TestOK
<1> QED BY <1>3, <1>4, <1>5, <1>6, <1>7, <1>8, <1>9, <1>10, <1>11, <1>12, <1>13, <1>14
        DEF ButtonsNext

(* Debounce counters, display, last_card and hardware test keep their types: *)
(* a counter stops at DEBOUNCE_TICKS, and a test passes no step twice.       *)
THEOREM ButtonsTypesHold == ButtonsSpec => []ButtonsTypeOK
<1>1. ButtonsInit => TestInv
  <2> SUFFICES ASSUME ButtonsInit PROVE TestInv
    OBVIOUS
  <2>1. test \in [at : TestSteps, passed : Nat] /\ test.passed <= StepsBefore(test.at)
    BY DEF ButtonsInit, StepsBefore, TestSteps
  <2> QED BY <2>1, Zenon DEF ButtonsInit, TestInv, Modes
<1>2. PressInv /\ SightInv /\ TestInv => ButtonsTypeOK
  <2> SUFFICES ASSUME PressInv, SightInv, TestInv PROVE ButtonsTypeOK
    OBVIOUS
  <2>1. test.passed \in 0..3
    BY DEF TestInv, StepsBefore
  <2>2. test \in [at : TestSteps, passed : 0..3]
    BY <2>1 DEF TestInv
  <2> QED BY <2>2, Zenon DEF PressInv, SightInv, TestInv, TestSteps, Sees, Debounces, Debounce, ButtonsTypeOK
<1> QED BY <1>1, <1>2, PressInvariant, SightInvariant, TestKept, PTL DEF ButtonsSpec

(* A press counts once, acts on the card that is there, and runs the         *)
(* operation shown.                                                          *)
THEOREM PressesDoAsShown == ButtonsSpec => []PressDoesAsShown
BY TellsPressOnce, ActsOnWhatIsThere, RunsWhatIsShown, PTL DEF PressDoesAsShown

(* Settings and crash record survive any number of boots.                    *)
THEOREM Remembers == BootSpec => []BootRemembers
BY KeepsSettings, TellsCrash, PTL DEF BootRemembers

------------------------------------------------------------------------------
(* EspNetwork, for any number of provisionings: contexts are freed, what was *)
(* acknowledged is stored, the server's certificate fits its key, and only a *)
(* running server is advertised.                                             *)

(* What the steps of a save know of the blobs: the certificate of this       *)
(* provisioning, if it was stored, then its key; until the save is complete  *)
(* the pair counts as torn and nothing of it as acknowledged.                *)
SaveProgress ==
  /\ job = "setkey" /\ stored => blobs.cert = made
  /\ job \in {"commit", "hash"} => blobs.cert = made /\ blobs.key = made
  /\ job \in {"setkey", "commit"} => torn
  /\ job \in {"setkey", "commit", "hash"} => acked.pair = 0
  /\ ~torn => blobs.cert = blobs.key

NetInv ==
  /\ blobs \in [cert : Nat, key : Nat, ota : Nat] /\ acked \in [pair : Nat, ota : Nat]
  /\ made \in Nat
  /\ SaveProgress
  /\ ContextsFreed /\ AcknowledgedIsStored /\ ServesMatchingPair /\ AdvertisedIsServed

LEMMA NetInvInit == NetInit => NetInv
BY DEF NetInit, NetInv, SaveProgress, ContextsFreed, AcknowledgedIsStored, ServesMatchingPair,
       AdvertisedIsServed, NoServer

(* Provisioning leaves the station, mDNS and the server alone.               *)
LEMMA ProvisionStep ==
  ASSUME NetInv,
         \/ ProvisionCert \/ Seed \/ GenerateKey \/ AssembleCrt \/ WriteDer
         \/ SetCert \/ SetKey \/ Commit \/ Fingerprint
         \/ \E key \in 1..MaxProvisions : ProvisionOtaKey(key)
  PROVE  NetInv'
<1> USE DEF NetInv, SaveProgress, ContextsFreed, AcknowledgedIsStored, ServesMatchingPair,
            AdvertisedIsServed, wifi
<1>1. CASE ProvisionCert
  BY <1>1 DEF ProvisionCert
<1>2. CASE Seed \/ GenerateKey \/ AssembleCrt \/ WriteDer
  BY <1>2 DEF Seed, GenerateKey, AssembleCrt, WriteDer, Freed
<1>3. CASE SetCert
  BY <1>3 DEF SetCert
<1>4. CASE SetKey
  BY <1>4 DEF SetKey
<1>5. CASE Commit
  BY <1>5, Zenon DEF Commit
<1>6. CASE Fingerprint
  BY <1>6 DEF Fingerprint
<1>7. ASSUME NEW key \in 1..MaxProvisions, ProvisionOtaKey(key)
      PROVE  NetInv'
  BY <1>7, NetworkAssumption DEF ProvisionOtaKey
<1> QED BY <1>1, <1>2, <1>3, <1>4, <1>5, <1>6, <1>7, Zenon

(* The station's commands leave what is stored alone; a server is started    *)
(* over the pair as it is then.                                              *)
LEMMA StationStep ==
  ASSUME NetInv, SetWifi \/ WifiOff \/ ToggleWifiButton \/ LinkLost \/ PowerFails
  PROVE  NetInv'
<1> USE DEF NetInv, SaveProgress, ContextsFreed, AcknowledgedIsStored, ServesMatchingPair,
            AdvertisedIsServed, NoServer, provision
<1>1. CASE SetWifi
  <2>1. PICK c \in Connected :
          /\ server' \in IF c.ok /\ server = NoServer THEN StartServer ELSE {server}
          /\ mdns' \in IF c.ok /\ server' # NoServer THEN {"host", "http"} ELSE {c.mdns}
    BY <1>1 DEF SetWifi
  <2>2. c.mdns \in {"off", "host"}
    BY DEF Connected
  <2>3. ServesMatchingPair'
    BY <2>1 DEF StartServer, LoadPair
  <2>4. AdvertisedIsServed'
    BY <2>1, <2>2
  <2> QED BY <1>1, <2>3, <2>4 DEF SetWifi
<1>2. CASE WifiOff
  BY <1>2 DEF WifiOff
<1>3. CASE ToggleWifiButton
  BY <1>3 DEF ToggleWifiButton
<1>4. CASE LinkLost
  BY <1>4 DEF LinkLost
<1>5. CASE PowerFails
  BY <1>5 DEF PowerFails
<1> QED BY <1>1, <1>2, <1>3, <1>4, <1>5, Zenon

(* The inductive invariant holds of every behaviour.                         *)
THEOREM NetInvariant == NetSpec => []NetInv
<1>1. NetInv /\ [NetNext]_netVars => NetInv'
  <2> SUFFICES ASSUME NetInv, [NetNext]_netVars PROVE NetInv'
    OBVIOUS
  <2>1. CASE UNCHANGED netVars
    BY <2>1 DEF netVars, provision, wifi, NetInv, SaveProgress, ContextsFreed,
                AcknowledgedIsStored, ServesMatchingPair, AdvertisedIsServed
  <2> QED BY <2>1, ProvisionStep, StationStep DEF NetNext
<1> QED BY <1>1, NetInvInit, PTL DEF NetSpec

(* Whatever step of a provisioning fails, no context of mbedTLS outlives it. *)
THEOREM FreesContexts == NetSpec => []ContextsFreed
BY NetInvariant, PTL DEF NetInv

(* A fingerprint or an OK on the console means that NVS has that pair, or    *)
(* key, until the next one is stored, through any number of power failures.  *)
THEOREM StoresAcknowledged == NetSpec => []AcknowledgedIsStored
BY NetInvariant, PTL DEF NetInv

(* A server runs with the key of its certificate unless a save was torn.     *)
THEOREM PairMatches == NetSpec => []ServesMatchingPair
BY NetInvariant, PTL DEF NetInv

(* _http._tcp is advertised only while a server runs.                        *)
THEOREM AdvertisesServed == NetSpec => []AdvertisedIsServed
BY NetInvariant, PTL DEF NetInv

(* Provisioning and serving agree, whatever fails or is cut off.             *)
THEOREM ServesProvisioned == NetSpec => []ProvisionedIsServed
BY StoresAcknowledged, PairMatches, AdvertisesServed, FreesContexts, PTL
   DEF ProvisionedIsServed

(* NVS, the contexts of mbedTLS, station, mDNS and server keep their types:  *)
(* no number names a pair that was never made.                               *)
THEOREM NetTypesHold == NetSpec => []NetTypeOK
<1>0. 0 \in Numbers /\ 1..MaxProvisions \subseteq Numbers
  BY NetworkAssumption DEF Numbers
<1>n. NoServer \in [cert : Numbers, key : Numbers, torn : BOOLEAN]
  BY <1>0, Zenon DEF NoServer
<1>1. NetInit => NetTypeOK
  <2> SUFFICES ASSUME NetInit PROVE NetTypeOK
    OBVIOUS
  <2>1. blobs \in [cert : Numbers, key : Numbers, ota : Numbers] /\ acked \in [pair : Numbers, ota : Numbers]
    BY <1>0 DEF NetInit
  <2>2. job \in Jobs /\ contexts \subseteq {"entropy", "drbg", "pk", "crt"} /\ made \in Numbers
    BY <1>0 DEF NetInit, Jobs
  <2> QED BY <1>n, <2>1, <2>2, Zenon DEF NetInit, NetTypeOK
<1>2. NetTypeOK /\ [NetNext]_netVars => NetTypeOK'
  <2> SUFFICES ASSUME NetTypeOK, [NetNext]_netVars PROVE NetTypeOK'
    OBVIOUS
  <2> USE DEF NetTypeOK
  <2>1. CASE ProvisionCert
    <3>1. made' \in Numbers
      BY <2>1, NetworkAssumption DEF ProvisionCert, Numbers
    <3> QED BY <2>1, <3>1, Zenon DEF ProvisionCert, wifi, Jobs
  <2>2. CASE Seed \/ GenerateKey \/ AssembleCrt \/ WriteDer
    <3>1. job' \in Jobs /\ UNCHANGED <<blobs, made, stored, acked, torn, wifi>>
      BY <2>2, Zenon DEF Seed, GenerateKey, AssembleCrt, WriteDer, Freed, Jobs
    <3>2. contexts' \in {{}, contexts, contexts \cup {"pk"}, contexts \cup {"crt"}}
      BY <2>2, Zenon DEF Seed, GenerateKey, AssembleCrt, WriteDer, Freed
    <3>3. contexts' \subseteq {"entropy", "drbg", "pk", "crt"}
      BY <3>2, Zenon
    <3> QED BY <3>1, <3>3, Zenon DEF wifi
  <2>3. CASE SetCert
    <3>1. blobs' \in {blobs, [blobs EXCEPT !.cert = made], [blobs EXCEPT !.cert = blobs.cert]}
      BY <2>3, Zenon DEF SetCert
    <3>2. blobs' \in [cert : Numbers, key : Numbers, ota : Numbers]
      BY <3>1, Zenon
    <3> QED BY <1>0, <2>3, <3>2, Zenon DEF SetCert, wifi, Jobs
  <2>4. CASE SetKey
    BY <2>4, Zenon DEF SetKey, wifi, Jobs
  <2>5. CASE Commit \/ Fingerprint
    <3>1. acked' \in {acked, [acked EXCEPT !.pair = made]}
      BY <2>5, Zenon DEF Commit, Fingerprint
    <3>2. /\ job' \in Jobs /\ torn' \in {torn, FALSE}
          /\ UNCHANGED <<blobs, contexts, made, stored, wifi>>
      BY <2>5, Zenon DEF Commit, Fingerprint, Jobs
    <3> QED BY <3>1, <3>2, Zenon DEF wifi
  <2>6. ASSUME NEW key \in 1..MaxProvisions, ProvisionOtaKey(key) PROVE NetTypeOK'
    <3>1. key \in Numbers
      BY <1>0
    <3> QED BY <1>0, <2>6, <3>1, Zenon DEF ProvisionOtaKey, wifi
  <2>7. ASSUME UNCHANGED provision, station' \in {"stopped", "started", "joined"},
               mdns' \in {"off", "host", "http"}, server' \in {server, NoServer, LoadPair}
        PROVE  NetTypeOK'
    <3>1. LoadPair \in [cert : Numbers, key : Numbers, torn : BOOLEAN]
      BY Zenon DEF LoadPair
    <3> QED BY <1>n, <2>7, <3>1, Zenon DEF provision
  <2>8. CASE SetWifi
    BY <2>7, <2>8 DEF SetWifi, Connected, StartServer
  <2>9. CASE WifiOff \/ ToggleWifiButton
    <3>1. \A d \in Disconnected : d.station \in {"stopped", "started", "joined"}
      <4> DEFINE kept == IF station = "joined" THEN {"joined", "started"} ELSE {station}
      <4>1. kept \subseteq {"stopped", "started", "joined"}
        OBVIOUS
      <4>2. Disconnected = {[station |-> "stopped", ok |-> TRUE]} \cup [station : kept, ok : {FALSE}]
        BY Zenon DEF Disconnected
      <4> HIDE DEF kept
      <4>3. ASSUME NEW d \in [station : kept, ok : {FALSE}] PROVE d.station \in kept
        OBVIOUS
      <4>4. [station |-> "stopped", ok |-> TRUE].station = "stopped"
        OBVIOUS
      <4> QED BY <4>1, <4>2, <4>3, <4>4, Zenon
    <3> QED BY <2>7, <2>9, <3>1, Zenon DEF WifiOff, ToggleWifiButton
  <2>10. CASE LinkLost
    BY <2>7, <2>10, Zenon DEF LinkLost
  <2>11. CASE PowerFails
    BY <1>0, <2>11, Zenon DEF PowerFails, NoServer, Jobs
  <2>12. CASE UNCHANGED netVars
    BY <2>12, Zenon DEF netVars, provision, wifi
  <2> QED BY <2>1, <2>2, <2>3, <2>4, <2>5, <2>6, <2>8, <2>9, <2>10, <2>11, <2>12, Zenon DEF NetNext
<1> QED BY <1>1, <1>2, PTL DEF NetSpec

------------------------------------------------------------------------------
(* The firmware update: no sequence of updates, failures and resets leaves a *)
(* board without a whole, proven image to boot.                              *)

OtaTypes ==
  /\ build \in [path : {"http", "tcp"}, armed : BOOLEAN]
  /\ flash \in [Slots -> [image : Images, n : Nat]]
  /\ otadata \in [OtaSlots -> States] /\ latest \in OtaSlots
  /\ running \in Slots /\ previous \in Slots /\ target \in OtaSlots /\ upload \in Images
  /\ at \in {"idle", "stream", "verify", "select", "restart"}
  /\ proven \in [Slots -> BOOLEAN] /\ boots \in [Slots -> Nat]

Good(s) == Whole(s) /\ Trusted(s)
Reverted(s) == Selected([otadata EXCEPT ![s] = "aborted"])

(* An entry is new only between the selection of its image and the restart,  *)
(* and pending only while its image runs; both are entries of the latest.    *)
OtaEntries ==
  /\ \A s \in OtaSlots :
       /\ otadata[s] = "new" => at = "restart" /\ s = target /\ s = latest
       /\ otadata[s] = "pending" => at = "idle" /\ s = running /\ s = latest
  /\ at = "restart" => otadata[target] = "new"

(* What runs: the selected image, unless one is on trial; it is valid, and   *)
(* then it has served, or pending.                                           *)
Runs ==
  /\ at # "restart" /\ ~Pending => Selected(otadata) = running
  /\ running \in OtaSlots => otadata[running] \in {"valid", "pending"}
  /\ running \in OtaSlots /\ otadata[running] = "valid" => proven[running]
  /\ Good(running) /\ Good("factory")

(* There is a way back from an image on trial.                               *)
WayBack ==
  \A s \in OtaSlots : otadata[s] \in {"new", "pending"} =>
    /\ Reverted(s) = previous /\ Good(previous)
    /\ previous = "factory" \/ proven[previous]

(* The update in progress, in the slot that does not run.                    *)
Update ==
  /\ at # "idle" => target # running /\ boots[target] = 0
  /\ at \in {"stream", "verify", "select"} =>
       /\ flash[target].image = upload
       /\ build.path = "tcp" /\ build.armed => upload.genuine
  /\ at \in {"select", "restart"} => Good(target)

OtaInv ==
  /\ OtaTypes /\ OtaEntries /\ Runs /\ WayBack /\ Update
  /\ OneBootToProve /\ NoLeakedHandle

------------------------------------------------------------------------------
(* The boot loader.                                                          *)

LEMMA TwoSlots == Other("ota_0") = "ota_1" /\ Other("ota_1") = "ota_0"
BY DEF Other, OtaSlots

(* The slot selected for a table of entries.                                 *)
LEMMA SelectedSlot ==
  ASSUME latest \in OtaSlots, NEW od \in [OtaSlots -> States]
  PROVE  /\ Selected(od) \in Slots
         /\ Selected(od) \in OtaSlots => od[Selected(od)] \in {"new", "valid"}
         /\ od[latest] \in {"new", "valid"} => Selected(od) = latest
         /\ Selected(od) = "factory" => \A s \in OtaSlots : od[s] \notin {"new", "valid"}
         /\ \A s \in OtaSlots : s # latest /\ od[latest] \notin {"new", "valid"}
              => Selected(od) = IF od[s] \in {"new", "valid"} THEN s ELSE "factory"
BY TwoSlots DEF Selected, OtaSlots, Slots

LEMMA SettledTable ==
  ASSUME OtaTypes, OtaEntries
  PROVE  /\ Settled(otadata) \in [OtaSlots -> States]
         /\ Pending => Settled(otadata) = [otadata EXCEPT ![running] = "aborted"]
         /\ ~Pending => Settled(otadata) = otadata
BY Zenon DEF OtaTypes, OtaEntries, Settled, Pending, States

(* What a reset starts.                                                      *)
LEMMA NextBoot ==
  ASSUME OtaInv
  PROVE  /\ at = "restart" => Selected(Settled(otadata)) = target /\ ~Pending /\ latest = target
         /\ Pending => Selected(Settled(otadata)) = previous
         /\ at # "restart" /\ ~Pending => Selected(Settled(otadata)) = running
<1> USE DEF OtaInv
<1>1. ASSUME at = "restart"
      PROVE  Selected(Settled(otadata)) = target /\ ~Pending /\ latest = target
  <2>1. ~Pending /\ latest = target /\ otadata[latest] = "new"
    BY <1>1 DEF OtaEntries, Pending, OtaTypes
  <2> QED BY <2>1, SettledTable, SelectedSlot DEF OtaTypes
<1>2. ASSUME Pending PROVE Selected(Settled(otadata)) = previous
  BY <1>2, SettledTable DEF Pending, WayBack, Reverted
<1>3. ASSUME at # "restart", ~Pending PROVE Selected(Settled(otadata)) = running
  BY <1>3, SettledTable DEF Runs
<1> QED BY <1>1, <1>2, <1>3

LEMMA OtaInvInit == OtaInit => OtaInv
<1> SUFFICES ASSUME OtaInit PROVE OtaInv
  OBVIOUS
<1>1. OtaTypes
  BY OtaAssumption, Zenon DEF OtaInit, OtaTypes, Slots, OtaSlots, Images, Shipped, States
<1>2. Selected(otadata) = "factory"
  <2>1. \A s \in OtaSlots : otadata[s] \notin {"new", "valid"}
    BY DEF OtaInit
  <2> QED BY <1>1, <2>1, SelectedSlot DEF OtaTypes, Slots
<1>3. Good("factory")
  BY DEF OtaInit, Good, Whole, Trusted, Shipped, Slots
<1>4. OtaEntries /\ WayBack /\ Update /\ OneBootToProve /\ NoLeakedHandle
  BY DEF OtaInit, OtaEntries, WayBack, Update, OneBootToProve, NoLeakedHandle, OtaSlots, Slots
<1>5. Runs
  BY <1>2, <1>3 DEF OtaInit, Runs, OtaSlots
<1> QED BY <1>1, <1>3, <1>4, <1>5 DEF OtaInv

------------------------------------------------------------------------------
(* Resets.                                                                   *)

(* What a reset leaves as it is.                                             *)
RamLost ==
  /\ at' = "idle" /\ handle' = FALSE
  /\ UNCHANGED <<build, flash, latest, target, upload, proven, previous>>

(* The image selected last is tried.                                         *)
LEMMA TrialBoots ==
  ASSUME OtaInv, at = "restart", RamLost, Boot(otadata) PROVE OtaInv'
<1> USE DEF OtaInv
<1>1. Selected(Settled(otadata)) = target /\ Settled(otadata) = otadata /\ latest = target
  BY NextBoot, SettledTable
<1>2. /\ running' = target /\ otadata' = [otadata EXCEPT ![target] = "pending"]
      /\ boots' = [boots EXCEPT ![target] = @ + 1]
  BY <1>1, Zenon DEF Boot, OtaTypes, OtaEntries
<1>3. OtaTypes'
  BY <1>2 DEF RamLost, OtaTypes, Slots, States
<1>4. OtaEntries'
  BY <1>1, <1>2 DEF RamLost, OtaTypes, OtaEntries
<1>5. Runs'
  BY <1>2, Zenon DEF RamLost, OtaTypes, Runs, Update, Pending, Good, Whole, Trusted
<1>6. WayBack'
  <2>1. [otadata' EXCEPT ![target] = "aborted"] = [otadata EXCEPT ![target] = "aborted"]
    BY <1>2 DEF OtaTypes
  <2>2. Reverted(target)' = Reverted(target)
    BY <2>1, Zenon DEF RamLost, Reverted, Selected
  <2>3. \A s \in OtaSlots : otadata'[s] \in {"new", "pending"} => s = target
    BY <1>2 DEF OtaTypes, OtaEntries
  <2>4. otadata[target] = "new" /\ target \in OtaSlots
    BY DEF OtaTypes, OtaEntries
  <2> QED BY <2>2, <2>3, <2>4 DEF RamLost, WayBack, Good, Whole, Trusted
<1>7. OneBootToProve'
  BY <1>2 DEF RamLost, OtaTypes, Update, OneBootToProve, Slots
<1> QED BY <1>3, <1>4, <1>5, <1>6, <1>7 DEF RamLost, Update, NoLeakedHandle

(* An image that did not serve is reverted.                                  *)
LEMMA TrialReverted ==
  ASSUME OtaInv, Pending, RamLost, Boot(otadata) PROVE OtaInv'
<1> USE DEF OtaInv
<1>1. /\ Selected(Settled(otadata)) = previous
      /\ Settled(otadata) = [otadata EXCEPT ![running] = "aborted"]
  BY NextBoot, SettledTable
<1>2. /\ running \in OtaSlots /\ otadata[running] = "pending"
      /\ at = "idle" /\ running = latest
  BY DEF Pending, OtaEntries
<1>3. \A s \in OtaSlots : Settled(otadata)[s] \notin {"new", "pending"}
  BY <1>1, <1>2 DEF OtaTypes, OtaEntries
<1>4. /\ running' = previous /\ otadata' = Settled(otadata)
      /\ boots' = [boots EXCEPT ![previous] = @ + 1]
  BY <1>1, <1>3, SettledTable, Zenon DEF Boot
<1>5. /\ previous \in OtaSlots => otadata'[previous] = "valid"
      /\ Selected(otadata') = previous
  BY <1>1, <1>3, <1>4, SettledTable, SelectedSlot, Zenon DEF OtaTypes
<1>6. Good(previous) /\ (previous = "factory" \/ proven[previous])
  BY <1>2 DEF WayBack
<1>7. OtaTypes'
  BY <1>4, SettledTable DEF RamLost, OtaTypes
<1>8. OtaEntries' /\ WayBack'
  BY <1>3, <1>4 DEF RamLost, OtaEntries, WayBack
<1>9. Runs'
  <2>1. Selected(otadata)' = previous
    BY <1>5 DEF RamLost, Selected
  <2> QED BY <1>4, <1>5, <1>6, <2>1
          DEF RamLost, OtaTypes, Runs, Good, Whole, Trusted, Slots, OtaSlots
<1>10. OneBootToProve'
  BY <1>4, <1>6 DEF RamLost, OtaTypes, OneBootToProve, OtaSlots, Slots
<1> QED BY <1>7, <1>8, <1>9, <1>10, Zenon DEF RamLost, Update, NoLeakedHandle

(* The same image is booted again.                                           *)
LEMMA BootsAgain ==
  ASSUME OtaInv, at # "restart", ~Pending, RamLost, Boot(otadata) PROVE OtaInv'
<1> USE DEF OtaInv
<1>1. Selected(Settled(otadata)) = running /\ Settled(otadata) = otadata
  BY NextBoot, SettledTable
<1>2. \A s \in OtaSlots : otadata[s] \notin {"new", "pending"}
  BY DEF OtaTypes, OtaEntries, Pending
<1>3. /\ running' = running /\ otadata' = otadata
      /\ boots' = [boots EXCEPT ![running] = @ + 1]
  BY <1>1, <1>2 DEF Boot, OtaTypes
<1>4. OtaTypes'
  BY <1>3 DEF RamLost, OtaTypes
<1>5. OtaEntries' /\ WayBack'
  BY <1>2, <1>3 DEF RamLost, OtaEntries, WayBack
<1>6. Runs'
  BY <1>3 DEF RamLost, Runs, Selected, Pending, Good, Whole, Trusted
<1>7. OneBootToProve'
  BY <1>2, <1>3 DEF RamLost, OtaTypes, Runs, OneBootToProve, Slots
<1> QED BY <1>4, <1>5, <1>6, <1>7 DEF RamLost, Update, NoLeakedHandle

LEMMA EraseStep == ASSUME OtaInv, EraseOtadata PROVE OtaInv'
<1> USE DEF OtaInv
<1>0. RamLost
  BY DEF EraseOtadata, RamLost
<1> DEFINE none == [s \in OtaSlots |-> "none"]
<1>1. none \in [OtaSlots -> States] /\ Settled(none) = none
  BY DEF States, Settled
<1>2. Selected(none) = "factory"
  BY <1>1, SelectedSlot DEF OtaTypes, Slots
<1>3. /\ running' = "factory" /\ otadata' = none
      /\ boots' = [boots EXCEPT !["factory"] = @ + 1]
  BY <1>1, <1>2, Zenon DEF EraseOtadata, Boot
<1>4. OtaTypes'
  BY <1>0, <1>1, <1>3 DEF RamLost, OtaTypes, Slots
<1>5. OtaEntries' /\ WayBack'
  BY <1>0, <1>3 DEF RamLost, OtaEntries, WayBack
<1>6. Runs'
  BY <1>0, <1>2, <1>3 DEF RamLost, Runs, Selected, Good, Whole, Trusted, OtaSlots
<1>7. OneBootToProve'
  BY <1>0, <1>3 DEF RamLost, OtaTypes, OneBootToProve, OtaSlots, Slots
<1> QED BY <1>0, <1>4, <1>5, <1>6, <1>7, Zenon DEF RamLost, Update, NoLeakedHandle

LEMMA ResetStep == ASSUME OtaInv, Reset PROVE OtaInv'
<1>1. RamLost /\ Boot(otadata)
  BY DEF Reset, RamLost
<1> QED BY <1>1, TrialBoots, TrialReverted, BootsAgain

------------------------------------------------------------------------------
(* The gate and the update.                                                  *)

LEMMA ServeStep == ASSUME OtaInv, NEW ok \in BOOLEAN, Serve(ok) PROVE OtaInv'
<1> USE DEF OtaInv
<1>0. /\ UNCHANGED <<build, flash, latest, running, task, boots, previous>>
      /\ proven' \in [Slots -> BOOLEAN] /\ \A s \in Slots : proven[s] => proven'[s]
      /\ ok => proven'[running]
  BY DEF Serve, OtaTypes
<1>1. CASE otadata' = otadata
  <2>1. /\ Selected(otadata)' = Selected(otadata) /\ Pending' = Pending
        /\ \A s \in Slots : Good(s)' = Good(s) /\ Reverted(s)' = Reverted(s)
    BY <1>0, <1>1, Zenon DEF Selected, Reverted, Pending, Good, Whole, Trusted
  <2>2. /\ running \in Slots /\ previous \in Slots /\ target \in Slots /\ "factory" \in Slots
        /\ OtaSlots \subseteq Slots
    BY DEF OtaTypes, Slots, OtaSlots
  <2>3. OtaTypes' /\ OtaEntries' /\ Runs'
    BY <1>0, <1>1, <2>1, <2>2, Zenon DEF task, OtaTypes, OtaEntries, Runs
  <2>4. WayBack' /\ Update' /\ OneBootToProve' /\ NoLeakedHandle'
    BY <1>0, <1>1, <2>1, <2>2, Zenon DEF task, WayBack, Update, OneBootToProve, NoLeakedHandle
  <2> QED
    BY <2>3, <2>4, Zenon
<1>2. CASE ok /\ Pending /\ otadata' = [otadata EXCEPT ![running] = "valid"]
  <2>1. running \in OtaSlots /\ at = "idle" /\ running = latest
    BY <1>2 DEF Pending, OtaEntries
  <2>2. \A s \in OtaSlots : otadata'[s] \notin {"new", "pending"}
    BY <1>2, <2>1 DEF OtaTypes, OtaEntries
  <2>3. OtaTypes'
    BY <1>0, <1>2, Zenon DEF task, OtaTypes, States
  <2>4. OtaEntries' /\ WayBack' /\ Update' /\ NoLeakedHandle'
    BY <1>0, <2>1, <2>2 DEF task, OtaEntries, WayBack, Update, NoLeakedHandle
  <2>5. Runs'
    <3>1. otadata'[running] = "valid"
      BY <1>2, <2>1 DEF OtaTypes
    <3>2. Selected(otadata)' = running
      BY <1>0, <2>1, <3>1 DEF Selected
    <3> QED BY <1>0, <1>2, <2>1, <3>1, <3>2 DEF Runs, Good, Whole, Trusted
  <2>6. OneBootToProve'
    BY <1>0 DEF OneBootToProve, OtaSlots, Slots
  <2> QED BY <2>3, <2>4, <2>5, <2>6
<1> QED BY <1>1, <1>2 DEF Serve, NoteServeEvidence, MarkValid

LEMMA StartStep ==
  ASSUME OtaInv, NEW u \in Images, NEW m \in {"OTA1", "OTA2", "bad"}, NEW n \in 0..Chunks + 1,
         Start(u, m, n)
  PROVE  OtaInv'
<1> USE DEF OtaInv
<1>0. /\ at = "idle" /\ ~Pending /\ at' = "stream" /\ handle' = TRUE /\ upload' = u
      /\ UNCHANGED <<build, otadata, latest, running, previous>>
      /\ build.path = "tcp" /\ build.armed => u.genuine
  BY DEF Start, Authorize
<1>1. target' \in OtaSlots /\ target' # running
  BY DEF Start, NextUpdatePartition, OtaSlots
<1>2. /\ flash' = [flash EXCEPT ![target'] = [image |-> u, n |-> 0]]
      /\ proven' = [proven EXCEPT ![target'] = FALSE]
      /\ boots' = [boots EXCEPT ![target'] = 0]
  BY DEF Start
<1>3. \A s \in OtaSlots : otadata[s] \notin {"new", "pending"}
  BY <1>0 DEF OtaTypes, OtaEntries, Pending
<1>4. \A s \in Slots : s # target' =>
        flash'[s] = flash[s] /\ proven'[s] = proven[s] /\ boots'[s] = boots[s]
  BY <1>2 DEF OtaTypes
<1>5. flash'[target'].image = u /\ boots'[target'] = 0 /\ target' \in Slots
  BY <1>1, <1>2 DEF OtaTypes, Slots
<1>6. OtaTypes'
  BY <1>0, <1>1, <1>2 DEF OtaTypes, Slots
<1>7. OtaEntries' /\ WayBack'
  BY <1>0, <1>3 DEF OtaEntries, WayBack
<1>8. Runs'
  <2>1. Good(running)' /\ Good("factory")'
    BY <1>0, <1>1, <1>4, Zenon DEF OtaTypes, Runs, Good, Whole, Trusted, OtaSlots, Slots
  <2> QED BY <1>0, <1>1, <1>4, <2>1, Zenon DEF OtaTypes, Runs, Selected, Pending
<1>9. Update' /\ NoLeakedHandle'
  BY <1>0, <1>1, <1>5 DEF Update, NoLeakedHandle
<1>10. OneBootToProve'
  BY <1>4, <1>5 DEF OneBootToProve, OtaSlots, Slots
<1> QED BY <1>6, <1>7, <1>8, <1>9, <1>10

LEMMA WriteStep == ASSUME OtaInv, WriteChunk PROVE OtaInv'
<1> USE DEF OtaInv
<1>0. /\ at = "stream" /\ flash' = [flash EXCEPT ![target].n = flash[target].n + 1]
      /\ UNCHANGED <<build, otadata, latest, running, task, hist>>
  BY DEF WriteChunk
<1>1. /\ flash' \in [Slots -> [image : Images, n : Nat]]
      /\ \A s \in Slots : flash'[s].image = flash[s].image /\ (s # target => flash'[s] = flash[s])
  BY <1>0 DEF OtaTypes, OtaSlots, Slots
<1>2. \A s \in OtaSlots : otadata[s] \notin {"new", "pending"}
  BY <1>0 DEF OtaTypes, OtaEntries
<1>3. target # running /\ target # "factory" /\ target \in Slots
  BY <1>0 DEF OtaTypes, Update, OtaSlots, Slots
<1>4. OtaTypes'
  BY <1>0, <1>1 DEF task, hist, OtaTypes
<1>5. OtaEntries' /\ WayBack' /\ OneBootToProve' /\ NoLeakedHandle'
  BY <1>0, <1>2 DEF task, hist, OtaEntries, WayBack, OneBootToProve, NoLeakedHandle
<1>6. Runs'
  <2>1. Good(running)' /\ Good("factory")'
    BY <1>0, <1>1, <1>3 DEF OtaTypes, Runs, Good, Whole, Trusted, Slots
  <2> QED BY <1>0, <2>1 DEF hist, task, Runs, Selected, Pending
<1>7. Update'
  BY <1>0, <1>1, <1>3 DEF task, hist, Update
<1> QED BY <1>4, <1>5, <1>6, <1>7

LEMMA TaskStep == ASSUME OtaInv, Abort \/ StreamEnd \/ Verify PROVE OtaInv'
<1> USE DEF OtaInv
<1>0. /\ UNCHANGED <<build, flash, otadata, latest, running, hist, target, upload>>
      /\ at \in {"stream", "verify"} /\ at' \in {"idle", "verify", "select"}
      /\ handle' => at' = "verify"
  BY DEF Abort, StreamEnd, Verify, Quiet, NoLeakedHandle
<1>1. at' = "select" => Good(target)
  BY DEF Abort, StreamEnd, Verify, OtaTypes, Update, Good, Trusted
<1>2. \A s \in OtaSlots : otadata[s] \notin {"new", "pending"}
  BY <1>0 DEF OtaTypes, OtaEntries
<1>3. OtaTypes'
  BY <1>0 DEF hist, OtaTypes
<1>4. OtaEntries' /\ WayBack' /\ OneBootToProve' /\ NoLeakedHandle'
  BY <1>0, <1>2 DEF hist, OtaEntries, WayBack, OneBootToProve, NoLeakedHandle
<1>5. Runs'
  BY <1>0, <1>2 DEF hist, Runs, Selected, Pending, Good, Whole, Trusted
<1>6. Update'
  BY <1>0, <1>1, Zenon DEF hist, Update, Good, Whole, Trusted
<1> QED BY <1>3, <1>4, <1>5, <1>6

LEMMA SelectStep == ASSUME OtaInv, Select PROVE OtaInv'
<1> USE DEF OtaInv
<1>0. /\ at = "select" /\ at' = "restart" /\ latest' = target /\ previous' = running
      /\ otadata' = [otadata EXCEPT ![target] = "new"]
      /\ UNCHANGED <<build, flash, running, target, upload, handle, proven, boots>>
  BY DEF Select, SetBootPartition
<1>1. \A s \in OtaSlots : otadata[s] \notin {"new", "pending"}
  BY <1>0 DEF OtaTypes, OtaEntries
<1>2. target \in OtaSlots /\ target # running /\ otadata'[target] = "new"
  BY <1>0 DEF OtaTypes, Update
<1>3. \A s \in OtaSlots : s # target => otadata'[s] = otadata[s]
  BY <1>0 DEF OtaTypes
<1>4. OtaTypes'
  BY <1>0 DEF OtaTypes, States
<1>5. OtaEntries'
  BY <1>0, <1>1, <1>2, <1>3 DEF OtaEntries
<1>6. Runs'
  BY <1>0, <1>2, <1>3, Zenon DEF Runs, Good, Whole, Trusted
<1>7. Selected(otadata) = running
  BY <1>0, <1>1 DEF Runs, Pending
<1>8. Reverted(target)' = running
  <2>1. /\ [otadata' EXCEPT ![target'] = "aborted"] = [otadata EXCEPT ![target] = "aborted"]
        /\ [otadata EXCEPT ![target] = "aborted"][target] = "aborted"
        /\ \A s \in OtaSlots : s # target => [otadata EXCEPT ![target] = "aborted"][s] = otadata[s]
    BY <1>0, <1>2 DEF OtaTypes
  <2>2. PICK s \in OtaSlots : s # target
    BY DEF OtaSlots
  <2>3. Reverted(target)' = IF otadata[s] \in {"new", "valid"} THEN s ELSE "factory"
    <3>1. s = Other(target)
      BY <1>2, <2>2, TwoSlots DEF OtaSlots
    <3> QED BY <1>0, <2>1, <2>2, <3>1, Zenon DEF Reverted, Selected
  <2>4. CASE running = "factory"
    <3>1. otadata[s] \notin {"new", "valid"}
      BY <1>7, <2>4, SelectedSlot DEF OtaTypes
    <3> QED BY <2>3, <2>4, <3>1
  <2>5. CASE running \in OtaSlots
    <3>1. s = running
      BY <1>2, <2>2, <2>5 DEF OtaSlots
    <3>2. otadata[running] = "valid"
      BY <1>1, <2>5 DEF Runs
    <3> QED BY <2>3, <3>1, <3>2
  <2> QED BY <2>4, <2>5 DEF OtaTypes, Slots
<1>9. WayBack'
  <2>1. running = "factory" \/ proven[running]
    BY <1>1 DEF OtaTypes, Runs, Slots
  <2>2. \A s \in OtaSlots : otadata'[s] \in {"new", "pending"} => s = target
    BY <1>1, <1>3
  <2> QED BY <1>0, <1>8, <2>1, <2>2, Zenon DEF WayBack, Runs, Good, Whole, Trusted
<1>10. Update' /\ OneBootToProve' /\ NoLeakedHandle'
  BY <1>0, Zenon DEF Update, OneBootToProve, NoLeakedHandle, Good, Whole, Trusted
<1> QED BY <1>4, <1>5, <1>6, <1>9, <1>10

(* The inductive invariant of the update.                                    *)
THEOREM OtaInvariant == OtaSpec => []OtaInv
<1>1. OtaInv /\ [OtaNext]_vars => OtaInv'
  <2> SUFFICES ASSUME OtaInv, [OtaNext]_vars PROVE OtaInv'
    OBVIOUS
  <2>1. CASE UNCHANGED vars
    BY <2>1, Zenon DEF vars, task, hist, OtaInv, OtaTypes, OtaEntries, Runs, WayBack, Update, OneBootToProve,
                NoLeakedHandle, Selected, Reverted, Pending, Good, Whole, Trusted
  <2> QED BY <2>1, ResetStep, EraseStep, ServeStep, StartStep, WriteStep, TaskStep, SelectStep
          DEF OtaNext
<1> QED BY <1>1, OtaInvInit, PTL DEF OtaSpec

(* Through any number of updates, failures and resets, what runs and what    *)
(* the next reset starts is whole and, where the build authenticates         *)
(* updates, genuine.                                                         *)
THEOREM AlwaysBootable == OtaSpec => []BootsWholeImages
<1>1. OtaInv => BootsWholeImages
  <2> SUFFICES ASSUME OtaInv PROVE Good(running) /\ Good(Selected(Settled(otadata)))
    BY DEF BootsWholeImages, Good
  <2>1. CASE at = "restart"
    BY <2>1, NextBoot DEF OtaInv, Runs, Update
  <2>2. CASE Pending
    BY <2>2, NextBoot DEF OtaInv, Runs, WayBack, Pending
  <2>3. CASE at # "restart" /\ ~Pending
    BY <2>3, NextBoot DEF OtaInv, Runs
  <2> QED BY <2>1, <2>2, <2>3
<1> QED BY <1>1, OtaInvariant, PTL

(* Reverting an image on trial starts the one that installed it, which has   *)
(* served.                                                                   *)
THEOREM RevertsToProven == OtaSpec => []FallbackIsProven
<1>1. OtaInv => FallbackIsProven
  BY DEF OtaInv, WayBack, Reverted, FallbackIsProven
<1> QED BY <1>1, OtaInvariant, PTL

(* An image that never serves is booted once at most.                        *)
THEOREM TriedOnce == OtaSpec => []OneBootToProve
<1>1. OtaInv => OneBootToProve
  BY DEF OtaInv
<1> QED BY <1>1, OtaInvariant, PTL

(* Every path out of an update closes its handle.                            *)
THEOREM ClosesHandle == OtaSpec => []NoLeakedHandle
<1>1. OtaInv => NoLeakedHandle
  BY DEF OtaInv
<1> QED BY <1>1, OtaInvariant, PTL

(* An upload never overruns the size that was announced, nor its partition,  *)
(* and no image was booted more often than the board was reset.              *)
OtaBounds ==
  /\ \A s \in Slots : flash[s].n <= Chunks /\ boots[s] <= resets
  /\ size \in 1..Chunks /\ updates \in 0..MaxUpdates /\ resets \in 0..MaxResets
  /\ marked \in BOOLEAN /\ handle \in BOOLEAN

LEMMA OtaBoots ==
  ASSUME OtaInv, OtaBounds, resets < MaxResets, resets' = resets + 1, marked' = FALSE,
         handle' = FALSE, UNCHANGED <<flash, size, updates>>,
         NEW s \in Slots, boots' = [boots EXCEPT ![s] = @ + 1]
  PROVE  OtaBounds'
<1>1. resets \in Nat /\ MaxResets \in Nat /\ boots \in [Slots -> Nat]
  BY OtaAssumption DEF OtaInv, OtaTypes, OtaBounds
<1>2. \A t \in Slots : boots'[t] <= resets + 1
  BY <1>1 DEF OtaBounds
<1>3. resets' \in 0..MaxResets
  BY <1>1
<1> QED BY <1>2, <1>3, Zenon DEF OtaBounds

LEMMA OtaBoundsKept == OtaInv /\ OtaBounds /\ [OtaNext]_vars => OtaBounds'
<1> SUFFICES ASSUME OtaInv, OtaBounds, [OtaNext]_vars PROVE OtaBounds'
  OBVIOUS
<1>0. /\ flash \in [Slots -> [image : Images, n : Nat]] /\ boots \in [Slots -> Nat]
      /\ target \in Slots /\ Chunks \in Nat \ {0} /\ resets \in Nat /\ size \in Nat
  BY OtaAssumption DEF OtaInv, OtaTypes, OtaBounds, Slots
<1>1. CASE Reset
  <2>1. Selected(Settled(otadata)) \in Slots
    BY SettledTable, SelectedSlot DEF OtaInv, OtaTypes
  <2> QED BY <1>1, <2>1, OtaBoots, Zenon DEF Reset, Boot
<1>2. CASE EraseOtadata
  <2> DEFINE none == [s \in OtaSlots |-> "none"]
  <2>1. Selected(Settled(none)) \in Slots
    <3>1. none \in [OtaSlots -> States] /\ Settled(none) = none
      BY DEF States, Settled
    <3> QED BY <3>1, SelectedSlot DEF OtaInv, OtaTypes
  <2> QED BY <1>2, <2>1, OtaBoots, Zenon DEF EraseOtadata, Boot
<1>3. ASSUME NEW ok \in BOOLEAN, Serve(ok) PROVE OtaBounds'
  <2>1. marked' \in BOOLEAN
    BY <1>3, Zenon DEF Serve, NoteServeEvidence, OtaBounds
  <2> QED BY <1>3, <2>1, Zenon DEF Serve, task, OtaBounds
<1>4. ASSUME NEW u \in Images, NEW m \in {"OTA1", "OTA2", "bad"}, NEW n \in 0..Chunks + 1,
             Start(u, m, n)
      PROVE  OtaBounds'
  <2>1. size' \in 1..Chunks
    BY <1>0, <1>4 DEF Start, ValidateSize
  <2>2. updates' \in 0..MaxUpdates
    BY <1>4, OtaAssumption DEF Start, OtaBounds
  <2>3. target' \in Slots
    BY <1>4 DEF Start, NextUpdatePartition, Slots, OtaSlots
  <2>4. ASSUME NEW s \in Slots PROVE flash'[s].n <= Chunks /\ boots'[s] <= resets
    BY <1>0, <1>4, <2>3 DEF Start, OtaBounds
  <2> QED BY <1>4, <2>1, <2>2, <2>4, Zenon DEF Start, OtaBounds
<1>5. CASE WriteChunk
  <2>1. ASSUME NEW s \in Slots PROVE flash'[s].n <= Chunks
    BY <1>0, <1>5 DEF WriteChunk, OtaBounds
  <2> QED BY <1>5, <2>1, Zenon DEF WriteChunk, task, hist, OtaBounds
<1>6. CASE Abort \/ StreamEnd \/ Verify
  <2>1. /\ UNCHANGED <<flash, boots, size, updates, resets, marked>> /\ handle' \in {handle, FALSE}
    BY <1>6, Zenon DEF Abort, StreamEnd, Verify, Quiet, hist
  <2> QED BY <2>1, Zenon DEF OtaBounds
<1>7. CASE Select
  BY <1>7, Zenon DEF Select, OtaBounds
<1>8. CASE UNCHANGED vars
  BY <1>8, Zenon DEF vars, task, hist, OtaBounds
<1> QED BY <1>1, <1>2, <1>3, <1>4, <1>5, <1>6, <1>7, <1>8 DEF OtaNext

(* Flash, otadata and the update in progress keep their types: writing never *)
(* leaves the partition, whatever size the client announced.                 *)
THEOREM OtaTypesHold == OtaSpec => []OtaTypeOK
<1>1. OtaInit => OtaBounds
  <2> SUFFICES ASSUME OtaInit PROVE OtaBounds
    OBVIOUS
  <2>1. \A s \in Slots : flash[s].n <= Chunks /\ boots[s] <= resets
    BY OtaAssumption DEF OtaInit
  <2>2. size \in 1..Chunks /\ updates \in 0..MaxUpdates /\ resets \in 0..MaxResets
    BY OtaAssumption DEF OtaInit
  <2> QED BY <2>1, <2>2, Zenon DEF OtaInit, OtaBounds
<1>2. OtaInv /\ OtaBounds => OtaTypeOK
  <2> SUFFICES ASSUME OtaInv, OtaBounds PROVE OtaTypeOK
    OBVIOUS
  <2>1. flash \in [Slots -> [image : Images, n : 0..Chunks]]
    <3>1. \A s \in Slots : flash[s] \in [image : Images, n : 0..Chunks]
      BY OtaAssumption DEF OtaInv, OtaTypes, OtaBounds
    <3> QED BY <3>1 DEF OtaInv, OtaTypes
  <2>2. boots \in [Slots -> 0..MaxResets + 1]
    <3>1. \A s \in Slots : boots[s] \in 0..MaxResets + 1
      BY OtaAssumption DEF OtaInv, OtaTypes, OtaBounds
    <3> QED BY <3>1 DEF OtaInv, OtaTypes
  <2> QED BY <2>1, <2>2, Zenon DEF OtaInv, OtaTypes, OtaBounds, OtaTypeOK
<1> QED BY <1>1, <1>2, OtaInvariant, OtaBoundsKept, PTL DEF OtaSpec

(* Updates are reversible, for any number of updates and resets.             *)
THEOREM Reversible == OtaSpec => []UpdatesAreReversible
BY AlwaysBootable, RevertsToProven, TriedOnce, ClosesHandle, PTL
   DEF UpdatesAreReversible
==============================================================================
