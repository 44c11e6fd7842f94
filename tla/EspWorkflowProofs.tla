-------------------------- MODULE EspWorkflowProofs --------------------------
(***************************************************************************)
(* EspWorkflow for every set of issuers, number of slots and set of        *)
(* callers: the device drives the library as CardOps allows, `check`       *)
(* reports a blank card only when it is one, and no command offers the     *)
(* card more wrong keys than its budget.                                   *)
(***************************************************************************)
EXTENDS EspWorkflow, CardOpsProofs

USE CardAssumption
USE DEF Slots, NonMaster, contents, cardVars, params, hostVars

------------------------------------------------------------------------------
(* The inductive invariant.                                                  *)

BurnStages == {"burnFactory", "burnGiven", "runFactory", "runGiven"}

(* What the service and the NVS hold.                                        *)
Services ==
  [config : Configs, keys : Held, last : {"Unknown", "Blank", "Provisioned", "Foreign"}]

Stores == [url : Urls, force : BOOLEAN]

(* The values the commands work with.                                        *)
EspTypes ==
  /\ config \in Configs /\ service \in Services /\ nvs \in Stores
  /\ field \in BOOLEAN /\ announced \in BOOLEAN
  /\ missed \in BOOLEAN /\ ours \in BOOLEAN
  /\ cmd \in {"none", "burn", "wipe", "inspect", "check", "diagnose", "picc"}
  /\ via \in {"none", "console", "rest", "ble", "button"}
  /\ stage \in EspStages /\ result \in Results /\ wrong \in Nat

(* Which command is at which stage, with keys to work with.                  *)
CommandAtStage ==
  /\ stage # "lib" => pc = "idle"
  /\ stage \in BurnStages => cmd = "burn" /\ Given \in Issuers
  /\ stage \in {"wipeGuard", "runWipe"} => cmd = "wipe" /\ Given \in Issuers
  /\ stage \in {"inspectKeys", "inspectFactory"} => cmd \in {"inspect", "check"}
  /\ stage = "diagFactory" => cmd = "diagnose"
  /\ stage = "lib" =>
       /\ op = cmd /\ cmd \in {"burn", "wipe"} /\ Given \in Issuers
       /\ cmd = "burn" => target = Given

(* The exchanges of each operation.                                          *)
LabelsOf ==
  /\ op \in {"none", "burn", "wipe"}
  /\ op = "none" => pc = "idle"
  /\ op = "burn" => /\ ver = 1
                    /\ pc \in {"idle", "uid", "auth", "get", "clear", "write", "readback",
                               "get2", "enable", "verify", "key", "keyver", "master",
                               "reauth", "final"}
  /\ op = "wipe" => pc \in {"idle", "uid", "auth", "get", "restore", "empty", "key",
                            "keyver", "master", "reauth", "final"}

(* The library's first authentication of a burn uses a key that a probe      *)
(* found right.                                                              *)
ProbedIsRight ==
  /\ stage = "runFactory" => keys[0] = Factory
  /\ stage = "runGiven" => keys[0] = Given
  /\ stage = "lib" /\ cmd = "burn" /\ pc \in {"uid", "auth"} => keys[0] = cur

(* Wrong keys a command may have offered when it is at a stage.              *)
Spent ==
  CASE stage = "idle" -> EspBudget[cmd]
    [] stage \in {"burnGiven", "runFactory", "runGiven", "inspectFactory"} -> 1
    [] stage = "lib" -> IF cmd = "wipe" /\ pc \in {"uid", "auth"} THEN 0 ELSE 1
    [] OTHER -> 0

(* The service holds the keys of the card it burned, and the factory key is  *)
(* tried on that card only when it was missed.                               *)
KnowsOurCard ==
  /\ ours => stage # "lib" /\ service.keys # None /\ keys[0] = service.keys
  /\ ours /\ ~missed /\ cmd \in {"inspect", "check"} =>
       wrong = 0 /\ stage # "inspectFactory"

EspInv ==
  /\ EspTypes /\ CommandAtStage /\ LabelsOf /\ ProbedIsRight
  /\ wrong <= Spent /\ KnowsOurCard /\ CheckTellsBlank
------------------------------------------------------------------------------
(* What the steps of a command have in common.                               *)

(* The budget of each command.                                               *)
LEMMA BudgetOf ==
  /\ EspBudget["none"] = 0 /\ EspBudget["burn"] = 2 /\ EspBudget["wipe"] = 1
  /\ EspBudget["inspect"] = 2 /\ EspBudget["check"] = 2 /\ EspBudget["diagnose"] = 1
  /\ EspBudget["picc"] = 0
BY DEF EspBudget

(* A step outside the library: the card keeps its contents and the library   *)
(* its state.                                                                *)
Outside ==
  UNCHANGED contents /\ UNCHANGED hostVars /\ session' \in Slots \cup {NoSession}

(* Between operations such a step is a probe or a removal for CardOps.       *)
LEMMA OutsideDrives == ASSUME IInv, pc = "idle", Outside PROVE [Next]_vars
BY DEF Outside, Next, Probe, RemoveCard, CardReset, vars, IInv, TypeOK, CardTypeOK

(* sync_from keeps the keys the service holds.                               *)
LEMMA SyncedKeeps ==
  ASSUME NEW s \in Services, NEW c \in Configs
  PROVE  /\ Synced(s, c) \in Services
         /\ s.keys # None => Synced(s, c).keys = s.keys
BY Zenon DEF Synced, Services, Configs

(* sync_config saves a URL.                                                  *)
LEMMA SavedKeeps ==
  ASSUME nvs \in Stores, NEW c \in Configs
  PROVE  Saved(c) \in Stores
BY DEF Saved, Stores, Configs

(* How a command ends.                                                       *)
LEMMA FinishEffect ==
  ASSUME EspTypes, NEW res \in Results, NEW s \in Services, Finish(res, s)
  PROVE  /\ stage' = "idle" /\ result' = res /\ via' = "none"
         /\ UNCHANGED hostVars /\ UNCHANGED <<config, field, cmd>>
         /\ service' \in Services /\ (s.keys # None => service'.keys = s.keys)
         /\ nvs' \in Stores /\ announced' \in BOOLEAN
<1>1. config \in Configs /\ nvs \in Stores
  BY DEF EspTypes
<1>2. service' \in Services /\ (s.keys # None => service'.keys = s.keys)
  BY <1>1, SyncedKeeps DEF Finish
<1>3. nvs' \in Stores
  BY <1>1, SavedKeeps DEF Finish
<1>4. announced' \in BOOLEAN
  BY Zenon DEF Finish
<1> QED
  BY <1>2, <1>3, <1>4 DEF Finish

(* Between commands little has to be shown.                                  *)
LEMMA RestsKeeps ==
  ASSUME EspInv, UNCHANGED keys, UNCHANGED hostVars, pc = "idle",
         stage' = "idle", EspTypes', wrong' <= EspBudget[cmd'],
         ours' => service'.keys # None /\ keys[0] = service'.keys,
         ours' /\ ~missed' /\ cmd' \in {"inspect", "check"} => wrong' = 0,
         cmd' = "check" /\ result' = "Success" => AllSlots(Factory)
  PROVE  EspInv'
<1>1. CommandAtStage'
  BY DEF CommandAtStage, BurnStages
<1>2. LabelsOf'
  BY DEF EspInv, LabelsOf
<1>3. ProbedIsRight'
  BY DEF ProbedIsRight
<1>4. wrong' <= Spent'
  BY DEF Spent
<1>5. KnowsOurCard' /\ CheckTellsBlank'
  BY DEF KnowsOurCard, CheckTellsBlank, AllSlots
<1> QED
  BY <1>1, <1>2, <1>3, <1>4, <1>5 DEF EspInv

(* A command that ends.                                                      *)
LEMMA FinishKeeps ==
  ASSUME EspInv, Outside, pc = "idle", NEW res \in Results, NEW s \in Services,
         Finish(res, s), wrong' \in Nat, wrong' <= EspBudget[cmd],
         ours' \in BOOLEAN, missed' \in BOOLEAN,
         ours' => s.keys # None /\ keys[0] = s.keys,
         ours' /\ ~missed' /\ cmd \in {"inspect", "check"} => wrong' = 0,
         cmd = "check" /\ res = "Success" => AllSlots(Factory)
  PROVE  EspInv'
<1>1. EspTypes
  BY DEF EspInv
<1>2. /\ stage' = "idle" /\ result' = res /\ via' = "none"
      /\ UNCHANGED hostVars /\ UNCHANGED <<config, field, cmd>>
      /\ service' \in Services /\ (s.keys # None => service'.keys = s.keys)
      /\ nvs' \in Stores /\ announced' \in BOOLEAN
  BY <1>1, FinishEffect
<1>3. EspTypes'
  BY <1>1, <1>2 DEF EspTypes, EspStages
<1>4. UNCHANGED keys
  BY DEF Outside
<1> QED
  BY <1>2, <1>3, <1>4, RestsKeeps

(* A command that goes on to another of its stages.                          *)
LEMMA ToKeeps ==
  ASSUME EspInv, Outside, pc = "idle", stage # "lib",
         NEW next \in EspStages \ {"idle", "start", "lib"},
         NEW s \in Services, s.keys = service.keys, To(next, s),
         wrong' \in Nat, wrong' <= Spent', missed' \in BOOLEAN, ours' = ours,
         next \in BurnStages => cmd = "burn" /\ Given \in Issuers,
         next \in {"wipeGuard", "runWipe"} => cmd = "wipe" /\ Given \in Issuers,
         next \in {"inspectKeys", "inspectFactory"} => cmd \in {"inspect", "check"},
         next = "diagFactory" => cmd = "diagnose",
         next = "runFactory" => keys[0] = Factory,
         next = "runGiven" => keys[0] = Given,
         ours /\ ~missed' /\ cmd \in {"inspect", "check"} =>
           wrong' = 0 /\ next # "inspectFactory"
  PROVE  EspInv'
<1>1. /\ stage' = next /\ service' = s /\ UNCHANGED hostVars
      /\ UNCHANGED <<config, nvs, field, announced, cmd, via, ours, result, keys>>
  BY DEF To, dev, call, Outside
<1>2. EspTypes'
  BY <1>1 DEF EspInv, EspTypes
<1>3. CommandAtStage'
  BY <1>1 DEF EspInv, CommandAtStage, Given
<1>4. LabelsOf'
  BY <1>1 DEF EspInv, LabelsOf
<1>5. ProbedIsRight'
  BY <1>1 DEF EspInv, ProbedIsRight, Given
<1>6. KnowsOurCard' /\ CheckTellsBlank'
  BY <1>1 DEF EspInv, KnowsOurCard, CheckTellsBlank
<1> QED
  BY <1>2, <1>3, <1>4, <1>5, <1>6 DEF EspInv

(* An authentication of K0: a wrong key is counted once.                     *)
LEMMA EspAuthenticateCases ==
  ASSUME IInv, NEW STATE key, NEW ACTION ok, NEW ACTION delayed, NEW ACTION refused,
         NEW ACTION lost, EspAuthenticate(key, ok, delayed, refused, lost)
  PROVE  /\ UNCHANGED contents /\ session' \in Slots \cup {NoSession} /\ missed' = missed
         /\ \/ keys[0] = key /\ wrong' = wrong /\ (ok \/ lost)
            \/ keys[0] # key /\ wrong' = wrong + 1 /\ (refused \/ lost)
            \/ wrong' = wrong /\ (delayed \/ lost)
<1>1. session \in Slots \cup {NoSession} /\ 0 \in Slots
  BY DEF IInv, TypeOK, CardTypeOK
<1>2. CASE field /\ keys[0] = key /\ CardAuthenticate(0) /\ wrong' = wrong /\ (ok \/ lost)
  BY <1>1, <1>2 DEF EspAuthenticate, CardAuthenticate
<1>3. CASE field /\ keys[0] # key /\ CardReset /\ wrong' = wrong + 1 /\ (refused \/ lost)
  BY <1>1, <1>3 DEF EspAuthenticate, CardReset
<1>4. CASE field /\ CardReset /\ wrong' = wrong /\ delayed
  BY <1>1, <1>4 DEF EspAuthenticate, CardReset
<1>5. CASE (CardRead \/ CardReset) /\ wrong' = wrong /\ lost
  BY <1>1, <1>5 DEF EspAuthenticate, CardReset, CardRead
<1> QED
  BY <1>2, <1>3, <1>4, <1>5 DEF EspAuthenticate

(* What a command may have spent is within its budget.                       *)
LEMMA WithinBudget ==
  ASSUME EspInv
  PROVE  wrong \in Nat /\ wrong <= EspBudget[cmd]
<1>1. /\ wrong \in Nat /\ wrong <= Spent /\ stage \in EspStages
      /\ cmd \in {"none", "burn", "wipe", "inspect", "check", "diagnose", "picc"}
  BY DEF EspInv, EspTypes
<1>2. CASE stage = "idle"
  BY <1>1, <1>2 DEF Spent
<1>3. CASE stage \in {"burnGiven", "runFactory", "runGiven", "inspectFactory", "lib"}
  BY <1>1, <1>3, BudgetOf DEF EspInv, CommandAtStage, BurnStages, Spent
<1>4. CASE stage \notin {"idle", "burnGiven", "runFactory", "runGiven", "inspectFactory", "lib"}
  BY <1>1, <1>4, BudgetOf DEF Spent
<1> QED
  BY <1>2, <1>3, <1>4

(* A command that ends having spent nothing on its last step.                *)
LEMMA StopsKeeps ==
  ASSUME EspInv, Outside, pc = "idle", stage # "lib", NEW res \in Results,
         NEW s \in Services, s.keys = service.keys, Finish(res, s),
         wrong' = wrong, ours' = ours, missed' \in {missed, TRUE},
         cmd = "check" /\ res = "Success" => AllSlots(Factory)
  PROVE  EspInv'
<1>1. wrong' \in Nat /\ wrong' <= EspBudget[cmd]
  BY WithinBudget
<1>2. ours' \in BOOLEAN /\ missed' \in BOOLEAN
  BY Zenon DEF EspInv, EspTypes
<1>3. /\ ours' => s.keys # None /\ keys[0] = s.keys
      /\ ours' /\ ~missed' /\ cmd \in {"inspect", "check"} => wrong' = 0
  BY Zenon DEF EspInv, KnowsOurCard
<1> QED
  BY <1>1, <1>2, <1>3, FinishKeeps

(* What is kept when only the assessment of the card changes.                *)
LEMMA Assessed ==
  ASSUME EspTypes
  PROVE  /\ service \in Services
         /\ Unseen \in Services /\ Unseen.keys = service.keys
         /\ \A state \in {"Unknown", "Blank", "Provisioned", "Foreign"} :
              Seen(state) \in Services /\ Seen(state).keys = service.keys
BY Zenon DEF EspTypes, Services, Unseen, Seen

(* Staged keys are keys of an issuer.                                        *)
LEMMA GivenType == ASSUME EspTypes PROVE Given \in Issuers \cup {None}
BY DEF EspTypes, Configs, Held, Given

(* Moving on leaves the library alone.                                       *)
LEMMA LeavesLibrary ==
  /\ \A next, s : To(next, s) => UNCHANGED hostVars
  /\ \A res, s : Finish(res, s) => UNCHANGED hostVars
BY DEF To, Finish

(* A read of the card is a step outside the library.                         *)
LEMMA ReadsOutside ==
  ASSUME IInv, CardRead, UNCHANGED hostVars
  PROVE  Outside
BY DEF Outside, CardRead, IInv, TypeOK, CardTypeOK

------------------------------------------------------------------------------
(* burn                                                                      *)

(* burn starts with keys of an issuer, or not at all.                        *)
LEMMA BurnStartStep == ASSUME IInv, EspInv, BurnStart PROVE Outside /\ pc = "idle" /\ EspInv'
<1>1. /\ stage = "start" /\ cmd = "burn" /\ pc = "idle" /\ ours' = ours /\ EspTypes
      /\ wrong \in Nat /\ wrong <= 0
  BY DEF BurnStart, Same, EspInv, CommandAtStage, EspTypes, Spent
<1>2. CASE CardRead /\ UNCHANGED <<wrong, missed>> /\ Finish("Error", service)
  <2>1. Outside
    BY <1>2, ReadsOutside, LeavesLibrary
  <2> QED
    BY <1>1, <1>2, <2>1, StopsKeeps, Assessed DEF Results
<1>3. CASE BurnReady /\ Activate(To("burnFactory", service), Finish("CardNotPresent", Unseen))
  <2>1. /\ UNCHANGED contents /\ session' \in Slots \cup {NoSession} /\ wrong' = wrong
        /\ \/ To("burnFactory", service) /\ missed' = missed
           \/ Finish("CardNotPresent", Unseen) /\ missed' = TRUE
    BY <1>3, Zenon DEF Activate, CardReset
  <2>2. Outside
    BY <2>1, LeavesLibrary, Zenon DEF Outside
  <2>3. CASE Finish("CardNotPresent", Unseen) /\ missed' = TRUE
    BY <1>1, <2>1, <2>2, <2>3, StopsKeeps, Assessed DEF Results
  <2>4. CASE To("burnFactory", service) /\ missed' = missed
    <3>1. Given \in Issuers
      BY <1>1, <1>3, GivenType DEF BurnReady
    <3>2. stage' = "burnFactory" /\ wrong' \in Nat /\ wrong' <= Spent' /\ missed' \in BOOLEAN
      BY <1>1, <2>1, <2>4 DEF To, Spent, EspTypes
    <3> QED
      BY <1>1, <2>2, <2>4, <3>1, <3>2, ToKeeps, Assessed DEF EspStages, BurnStages
  <2> QED
    BY <1>1, <2>1, <2>2, <2>3, <2>4, Zenon
<1> QED
  BY <1>1, <1>2, <1>3, Zenon DEF BurnStart

(* The factory key is offered once, and is right when it is accepted.        *)
LEMMA BurnProbeFactoryStep ==
  ASSUME IInv, EspInv, BurnProbeFactory
  PROVE  Outside /\ pc = "idle" /\ EspInv'
<1>1. /\ stage = "burnFactory" /\ cmd = "burn" /\ pc = "idle" /\ ours' = ours /\ EspTypes
      /\ Given \in Issuers /\ wrong \in Nat /\ wrong <= 0
  BY DEF BurnProbeFactory, Same, EspInv, CommandAtStage, BurnStages, EspTypes, Spent
<1>2. EspAuthenticate(Factory, To("runFactory", service), Finish("AuthDelay", service),
                      To("burnGiven", service), To("burnGiven", service))
  BY DEF BurnProbeFactory
<1>3. /\ UNCHANGED contents /\ session' \in Slots \cup {NoSession} /\ missed' = missed
      /\ wrong' \in {wrong, wrong + 1}
      /\ \/ keys[0] = Factory /\ To("runFactory", service)
         \/ To("burnGiven", service)
         \/ wrong' = wrong /\ Finish("AuthDelay", service)
  BY <1>2, EspAuthenticateCases, SMT
<1>4. Outside
  BY <1>3, LeavesLibrary, Zenon DEF Outside
<1>5. wrong' \in Nat /\ wrong' <= 1 /\ missed' \in BOOLEAN
  BY <1>1, <1>3 DEF EspTypes
<1>6. CASE Finish("AuthDelay", service) /\ wrong' = wrong
  BY <1>1, <1>3, <1>4, <1>6, StopsKeeps, Assessed DEF Results
<1>7. ASSUME NEW next \in {"runFactory", "burnGiven"}, To(next, service),
             next = "runFactory" => keys[0] = Factory
      PROVE  EspInv'
  <2>1. stage' = next /\ wrong' <= Spent'
    BY <1>5, <1>7 DEF To, Spent
  <2> QED
    BY <1>1, <1>4, <1>5, <1>7, <2>1, ToKeeps, Assessed DEF EspStages, BurnStages
<1> QED
  BY <1>1, <1>3, <1>4, <1>6, <1>7

(* So are the keys staged.                                                   *)
LEMMA BurnProbeGivenStep ==
  ASSUME IInv, EspInv, BurnProbeGiven
  PROVE  Outside /\ pc = "idle" /\ EspInv'
<1>1. /\ stage = "burnGiven" /\ cmd = "burn" /\ pc = "idle" /\ ours' = ours /\ EspTypes
      /\ Given \in Issuers /\ wrong \in Nat /\ wrong <= 1
  BY DEF BurnProbeGiven, Same, EspInv, CommandAtStage, BurnStages, EspTypes, Spent
<1>2. EspAuthenticate(Given, To("runGiven", service), Finish("AuthDelay", service),
                      Finish("AuthFailed", service), Finish("AuthFailed", service))
  BY DEF BurnProbeGiven
<1>3. /\ UNCHANGED contents /\ session' \in Slots \cup {NoSession} /\ missed' = missed
      /\ wrong' \in {wrong, wrong + 1}
      /\ \/ keys[0] = Given /\ wrong' = wrong /\ To("runGiven", service)
         \/ Finish("AuthFailed", service)
         \/ Finish("AuthDelay", service)
  BY <1>2, EspAuthenticateCases, SMT
<1>4. Outside
  BY <1>3, LeavesLibrary, Zenon DEF Outside
<1>5. wrong' \in Nat /\ wrong' <= 2 /\ missed' \in BOOLEAN
  BY <1>1, <1>3 DEF EspTypes
<1>6. ASSUME NEW res \in {"AuthFailed", "AuthDelay"}, Finish(res, service)
      PROVE  EspInv'
  <2>1. wrong' <= EspBudget[cmd] /\ res \in Results
    BY <1>1, <1>5, BudgetOf DEF Results
  <2>2. ours' \in BOOLEAN /\ (ours' => service.keys # None /\ keys[0] = service.keys)
    BY <1>1 DEF EspInv, EspTypes, KnowsOurCard
  <2> QED
    BY <1>1, <1>4, <1>5, <1>6, <2>1, <2>2, FinishKeeps, Assessed
<1>7. CASE keys[0] = Given /\ wrong' = wrong /\ To("runGiven", service)
  <2>1. stage' = "runGiven" /\ wrong' <= Spent'
    BY <1>1, <1>7 DEF To, Spent
  <2> QED
    BY <1>1, <1>4, <1>5, <1>7, <2>1, ToKeeps, Assessed DEF EspStages, BurnStages
<1> QED
  BY <1>1, <1>3, <1>4, <1>6, <1>7

(* The library starts with the key a probe found right, and writes version 1.*)
LEMMA EspBurnStep == ASSUME IInv, EspInv, EspBurn PROVE [Next]_vars /\ EspInv'
<1>1. /\ stage \in {"runFactory", "runGiven"} /\ cmd = "burn" /\ pc = "idle" /\ EspTypes
      /\ Given \in Issuers /\ UNCHANGED <<wrong, missed>> /\ wrong \in Nat /\ wrong <= 1
  BY DEF EspBurn, EspInv, CommandAtStage, BurnStages, EspTypes, Spent
<1>2. CASE CardRead /\ Same /\ Finish("Error", service)
  <2>1. Outside
    BY <1>2, ReadsOutside, LeavesLibrary
  <2>2. EspInv'
    BY <1>1, <1>2, <2>1, StopsKeeps, Assessed DEF Results, Same
  <2> QED
    BY <1>1, <2>1, <2>2, OutsideDrives
<1>3. ASSUME NEW c \in {Factory, Given}, keys[0] = c,
             Begin("burn", Given, 1, c, Whole(c)),
             stage' = "lib", ours' = FALSE, UNCHANGED <<dev, service, cmd, via, result>>
      PROVE  [Next]_vars /\ EspInv'
  <2>1. StartBurn
    BY <1>1, <1>3, EspAssumption, Zenon DEF StartBurn, Whole
  <2>2. /\ op' = "burn" /\ pc' = "uid" /\ target' = Given /\ ver' = 1 /\ cur' = c
        /\ keys' = keys /\ UNCHANGED <<config, nvs, field, announced, service, cmd, via, result>>
    BY <1>3 DEF Begin, dev
  <2>3. EspTypes'
    <3>1. ours' \in BOOLEAN /\ missed' \in BOOLEAN
      BY <1>1, <1>3, Zenon DEF EspTypes
    <3> QED
      BY <1>1, <1>3, <2>2, <3>1 DEF EspTypes, EspStages
  <2>4. CommandAtStage' /\ LabelsOf'
    BY <1>1, <1>3, <2>2 DEF CommandAtStage, LabelsOf, BurnStages, Given
  <2>5. ProbedIsRight'
    BY <1>1, <1>3, <2>2 DEF ProbedIsRight
  <2>6. wrong' <= Spent'
    BY <1>1, <1>3, <2>2 DEF Spent
  <2>7. KnowsOurCard' /\ CheckTellsBlank'
    BY <1>3, <2>2 DEF KnowsOurCard, CheckTellsBlank
  <2> QED
    BY <2>1, <2>3, <2>4, <2>5, <2>6, <2>7 DEF EspInv, Next, Start
<1>4. /\ stage = "runFactory" => keys[0] = Factory
      /\ stage = "runGiven" => keys[0] = Given
  BY DEF EspInv, ProbedIsRight
<1> QED
  BY <1>1, <1>2, <1>3, <1>4, Zenon DEF EspBurn

------------------------------------------------------------------------------
(* wipe                                                                      *)

(* wipe goes on with keys of an issuer, or not at all.                       *)
LEMMA WipeStartStep == ASSUME IInv, EspInv, WipeStart PROVE Outside /\ pc = "idle" /\ EspInv'
<1>1. /\ stage = "start" /\ cmd = "wipe" /\ pc = "idle" /\ ours' = ours /\ EspTypes
      /\ wrong \in Nat /\ wrong <= 0
  BY DEF WipeStart, Same, EspInv, CommandAtStage, EspTypes, Spent
<1>2. CASE CardRead /\ UNCHANGED <<wrong, missed>> /\ Finish("Error", service)
  <2>1. Outside
    BY <1>2, ReadsOutside, LeavesLibrary
  <2> QED
    BY <1>1, <1>2, <2>1, StopsKeeps, Assessed DEF Results
<1>3. CASE Activate(IF Given = None THEN Finish("WipeRefused", service)
                                    ELSE To("wipeGuard", service),
                    Finish("CardNotPresent", Unseen))
  <2>1. /\ UNCHANGED contents /\ session' \in Slots \cup {NoSession} /\ wrong' = wrong
        /\ \/ Finish("WipeRefused", service) /\ missed' = missed
           \/ Given # None /\ To("wipeGuard", service) /\ missed' = missed
           \/ Finish("CardNotPresent", Unseen) /\ missed' = TRUE
    BY <1>3, Zenon DEF Activate, CardReset
  <2>2. Outside
    BY <2>1, LeavesLibrary, Zenon DEF Outside
  <2>3. CASE Finish("WipeRefused", service) /\ missed' = missed
    BY <1>1, <2>1, <2>2, <2>3, StopsKeeps, Assessed DEF Results
  <2>4. CASE Given # None /\ To("wipeGuard", service) /\ missed' = missed
    <3>1. Given \in Issuers
      BY <1>1, <2>4, GivenType
    <3>2. stage' = "wipeGuard" /\ wrong' \in Nat /\ wrong' <= Spent' /\ missed' \in BOOLEAN
      BY <1>1, <2>1, <2>4 DEF To, Spent, EspTypes
    <3> QED
      BY <1>1, <2>2, <2>4, <3>1, <3>2, ToKeeps, Assessed DEF EspStages, BurnStages
  <2>5. CASE Finish("CardNotPresent", Unseen) /\ missed' = TRUE
    BY <1>1, <2>1, <2>2, <2>5, StopsKeeps, Assessed DEF Results
  <2> QED
    BY <1>1, <2>1, <2>2, <2>3, <2>4, <2>5, Zenon
<1> QED
  BY <1>1, <1>2, <1>3, Zenon DEF WipeStart

(* The guard reads the card and stops the command, or lets it go on.         *)
LEMMA WipeGuardStep == ASSUME IInv, EspInv, WipeGuard PROVE Outside /\ pc = "idle" /\ EspInv'
<1>1. /\ stage = "wipeGuard" /\ cmd = "wipe" /\ pc = "idle" /\ ours' = ours /\ EspTypes
      /\ Given \in Issuers /\ wrong' = wrong /\ missed' = missed /\ CardRead
      /\ wrong \in Nat /\ wrong <= 0
  BY DEF WipeGuard, Same, EspInv, CommandAtStage, EspTypes, Spent
<1>2. Finish("WipeRefused", service) \/ To("runWipe", service)
  BY DEF WipeGuard
<1>3. Outside
  BY <1>1, <1>2, ReadsOutside, LeavesLibrary
<1>4. CASE Finish("WipeRefused", service)
  BY <1>1, <1>3, <1>4, StopsKeeps, Assessed DEF Results
<1>5. CASE To("runWipe", service)
  <2>1. stage' = "runWipe" /\ wrong' <= Spent' /\ missed' \in BOOLEAN
    BY <1>1, <1>5 DEF To, Spent, EspTypes
  <2> QED
    BY <1>1, <1>3, <1>5, <2>1, ToKeeps, Assessed DEF EspStages, BurnStages
<1> QED
  BY <1>1, <1>2, <1>3, <1>4, <1>5

(* The library starts with the keys staged, which nothing has probed.        *)
LEMMA EspWipeStep == ASSUME IInv, EspInv, EspWipe PROVE [Next]_vars /\ EspInv'
<1>1. /\ stage = "runWipe" /\ cmd = "wipe" /\ pc = "idle" /\ EspTypes
      /\ Given \in Issuers /\ UNCHANGED <<wrong, missed>> /\ wrong \in Nat /\ wrong <= 0
      /\ Begin("wipe", Factory, 0, Given, Whole(Given))
      /\ stage' = "lib" /\ ours' = FALSE /\ UNCHANGED <<dev, service, cmd, via, result>>
  BY DEF EspWipe, EspInv, CommandAtStage, EspTypes, Spent
<1>2. StartWipe
  <2>1. Whole(Given) \in [Slots -> KeySets] /\ Whole(Given)[0] = Given
    BY <1>1 DEF Whole, KeySets
  <2> QED
    BY <1>1, <2>1, Zenon DEF StartWipe
<1>3. /\ op' = "wipe" /\ pc' = "uid"
      /\ keys' = keys /\ UNCHANGED <<config, nvs, field, announced, service, cmd, via, result>>
  BY <1>1 DEF Begin, dev
<1>4. EspTypes'
  <2>1. ours' \in BOOLEAN /\ missed' \in BOOLEAN
    BY <1>1, Zenon DEF EspTypes
  <2> QED
    BY <1>1, <1>3, <2>1 DEF EspTypes, EspStages
<1>5. CommandAtStage' /\ LabelsOf'
  BY <1>1, <1>3 DEF CommandAtStage, LabelsOf, BurnStages, Given
<1>6. ProbedIsRight' /\ wrong' <= Spent'
  BY <1>1, <1>3 DEF ProbedIsRight, Spent
<1>7. KnowsOurCard' /\ CheckTellsBlank'
  BY <1>1, <1>3 DEF KnowsOurCard, CheckTellsBlank
<1> QED
  BY <1>2, <1>4, <1>5, <1>6, <1>7 DEF EspInv, Next, Start

------------------------------------------------------------------------------
(* The library operation.                                                    *)

(* Each exchange of an operation is followed by another of the same.         *)
LEMMA StepLabels == ASSUME LabelsOf, Step, UNCHANGED params PROVE LabelsOf'
<1> USE DEF At, Goto, End, Check, SelectUid, Authenticate, Exchange, NextSlot
<1>1. CASE Burn
  <2>1. op = "burn"
    BY <1>1, Zenon DEF Burn, BurnSelect, BurnAuthenticate, BurnGetSettings, BurnClearSdm,
       BurnWriteNdef, BurnReadBack, BurnGetSettings2, BurnEnableSdm, BurnVerifySdm, BurnChangeKey,
       BurnKeyVersion, BurnChangeMasterKey, BurnReauthenticate, BurnFinalSettings
  <2>2. pc' \in {"idle", "uid", "auth", "get", "clear", "write", "readback", "get2", "enable",
                 "verify", "key", "keyver", "master", "reauth", "final"}
    <3>1. CASE BurnSelect \/ BurnAuthenticate \/ BurnGetSettings \/ BurnClearSdm
      BY <3>1, Zenon DEF BurnSelect, BurnAuthenticate, BurnGetSettings, BurnClearSdm
    <3>2. CASE BurnWriteNdef \/ BurnReadBack \/ BurnGetSettings2 \/ BurnEnableSdm \/ BurnVerifySdm
      BY <3>2, Zenon DEF BurnWriteNdef, BurnReadBack, BurnGetSettings2, BurnEnableSdm, BurnVerifySdm
    <3>3. CASE \/ BurnChangeKey \/ BurnKeyVersion \/ BurnChangeMasterKey \/ BurnReauthenticate
               \/ BurnFinalSettings
      BY <3>3, Zenon DEF BurnChangeKey, BurnKeyVersion, BurnChangeMasterKey, BurnReauthenticate,
         BurnFinalSettings
    <3> QED
      BY <1>1, <3>1, <3>2, <3>3, Zenon DEF Burn
  <2> QED
    BY <2>1, <2>2 DEF LabelsOf
<1>2. CASE Wipe
  <2>1. op = "wipe"
    BY <1>2, Zenon DEF Wipe, WipeSelect, WipeAuthenticate, WipeGetSettings, WipeRestoreSettings,
       WipeEmptyNdef, WipeChangeKey, WipeKeyVersion, WipeChangeMasterKey, WipeReauthenticate,
       WipeFinalSettings
  <2>2. pc' \in {"idle", "uid", "auth", "get", "restore", "empty", "key", "keyver", "master",
                 "reauth", "final"}
    <3>1. CASE WipeSelect \/ WipeAuthenticate \/ WipeGetSettings \/ WipeRestoreSettings
               \/ WipeEmptyNdef
      BY <3>1, Zenon DEF WipeSelect, WipeAuthenticate, WipeGetSettings, WipeRestoreSettings,
         WipeEmptyNdef
    <3>2. CASE \/ WipeChangeKey \/ WipeKeyVersion \/ WipeChangeMasterKey \/ WipeReauthenticate
               \/ WipeFinalSettings
      BY <3>2, Zenon DEF WipeChangeKey, WipeKeyVersion, WipeChangeMasterKey, WipeReauthenticate,
         WipeFinalSettings
    <3> QED
      BY <1>2, <3>1, <3>2, Zenon DEF Wipe
  <2> QED
    BY <2>1, <2>2 DEF LabelsOf
<1>3. ~Testck
  BY Zenon DEF LabelsOf, Testck, TestckSelect, TestckAuthenticate, TestckVersionBefore, TestckToTest,
     TestckVersionMid, TestckToZero, TestckVersionAfter
<1> QED
  BY <1>1, <1>2, <1>3 DEF Step

(* An operation can be cut short at every exchange.                          *)
LEMMA CutShort ==
  ASSUME LabelsOf, pc # "idle", CardRead, End("transport")
  PROVE  Step
<1>1. CardRead /\ End("transport")
  OBVIOUS
<1> HIDE DEF End, CardRead
<1> USE DEF At, SelectUid, Authenticate, Exchange
<1>2. CASE op = "burn" /\ pc \in {"uid", "auth", "get", "clear", "write", "readback"}
  BY <1>1, <1>2, Zenon DEF Step, Burn, BurnSelect, BurnAuthenticate, BurnGetSettings,
     BurnClearSdm, BurnWriteNdef, BurnReadBack
<1>3. CASE op = "burn" /\ pc \in {"get2", "enable", "verify", "key", "keyver"}
  BY <1>1, <1>3, Zenon DEF Step, Burn, BurnGetSettings2, BurnEnableSdm, BurnVerifySdm,
     BurnChangeKey, BurnKeyVersion
<1>4. CASE op = "burn" /\ pc \in {"master", "reauth", "final"}
  BY <1>1, <1>4, Zenon DEF Step, Burn, BurnChangeMasterKey, BurnReauthenticate, BurnFinalSettings
<1>5. CASE op = "wipe" /\ pc \in {"uid", "auth", "get", "restore", "empty"}
  BY <1>1, <1>5, Zenon DEF Step, Wipe, WipeSelect, WipeAuthenticate, WipeGetSettings,
     WipeRestoreSettings, WipeEmptyNdef
<1>6. CASE op = "wipe" /\ pc \in {"key", "keyver", "master", "reauth", "final"}
  BY <1>1, <1>6, Zenon DEF Step, Wipe, WipeChangeKey, WipeKeyVersion, WipeChangeMasterKey,
     WipeReauthenticate, WipeFinalSettings
<1> QED
  BY <1>2, <1>3, <1>4, <1>5, <1>6 DEF LabelsOf

(* The first authentication of a burn is never refused for its key; that of  *)
(* a wipe may be, once.                                                      *)
LEMMA LibStepKeeps == ASSUME IInv, EspInv, LibStep PROVE [Next]_vars /\ EspInv'
<1>1. /\ stage = "lib" /\ Step /\ UNCHANGED <<config, nvs, field, announced, service>>
      /\ UNCHANGED <<cmd, via, ours, stage, result, missed>>
      /\ op = cmd /\ cmd \in {"burn", "wipe"} /\ EspTypes
  BY DEF LibStep, dev, call, EspInv, CommandAtStage
<1>2. UNCHANGED params /\ pc # "idle"
  BY <1>1, StepKeepsParams
<1>3. /\ outcome' = "auth" => op = "wipe" /\ pc = "auth" /\ pc' = "idle"
      /\ pc' \in {"uid", "auth"} => pc = "uid" /\ keys' = keys
  <2>1. pc = "reauth" => keys[0] = target
    BY <1>1 DEF IInv, KeyProgress, AllSlots
  <2>2. pc = "auth" /\ op = "burn" => keys[0] = cur
    BY <1>1 DEF EspInv, ProbedIsRight
  <2> QED
    BY <1>1, <2>1, <2>2, StepOutcome DEF Offered
<1>4. wrong' = IF outcome' = "auth" THEN wrong + 1 ELSE wrong
  BY DEF LibStep
<1>5. wrong' \in Nat /\ wrong' <= Spent'
  BY <1>1, <1>2, <1>3, <1>4 DEF EspInv, EspTypes, Spent
<1>6. EspTypes'
  BY <1>1, <1>5 DEF EspTypes
<1>7. CommandAtStage'
  BY <1>1, <1>2 DEF EspInv, CommandAtStage, Given, BurnStages
<1>8. LabelsOf'
  BY <1>1, <1>2, StepLabels DEF EspInv
<1>9. ProbedIsRight'
  BY <1>1, <1>2, <1>3 DEF EspInv, ProbedIsRight
<1>10. KnowsOurCard' /\ CheckTellsBlank'
  BY <1>1 DEF EspInv, KnowsOurCard, CheckTellsBlank
<1> QED
  BY <1>1, <1>5, <1>6, <1>7, <1>8, <1>9, <1>10 DEF EspInv, Next

(* After a burn that succeeded the service holds the keys of the card.       *)
LEMMA LibReturnsStep == ASSUME IInv, EspInv, LibReturns PROVE Outside /\ pc = "idle" /\ EspInv'
<1>1. /\ stage = "lib" /\ pc = "idle" /\ CardRead /\ UNCHANGED <<wrong, missed>>
      /\ op = cmd /\ cmd \in {"burn", "wipe"} /\ EspTypes /\ Given \in Issuers
      /\ cmd = "burn" => target = Given
  BY DEF LibReturns, EspInv, CommandAtStage
<1> DEFINE burned == [service EXCEPT !.keys = Given]
           wiped == [service EXCEPT !.keys = None, !.last = "Blank"]
<1>2. burned \in Services /\ burned.keys = Given /\ wiped \in Services /\ service \in Services
  BY <1>1, Zenon DEF EspTypes, Services, Held
<1>3. map_ntag_error \in Results /\ "Success" \in Results
  BY Zenon DEF map_ntag_error, Results
<1>4. \/ ours' = FALSE /\ Finish(map_ntag_error, service)
      \/ ours' = TRUE /\ outcome = "ok" /\ cmd = "burn" /\ Finish("Success", burned)
      \/ ours' = FALSE /\ Finish("Success", wiped)
  BY Zenon DEF LibReturns
<1> HIDE DEF burned, wiped
<1>5. Outside
  BY <1>1, <1>4, ReadsOutside, LeavesLibrary, Zenon
<1>6. wrong' \in Nat /\ wrong' <= EspBudget[cmd]
  BY <1>1, WithinBudget
<1>7. missed' \in BOOLEAN /\ ours' \in BOOLEAN
  BY <1>1, <1>4, Zenon DEF EspTypes
<1>8. CASE ours' = FALSE /\ Finish(map_ntag_error, service)
  BY <1>1, <1>2, <1>3, <1>5, <1>6, <1>7, <1>8, FinishKeeps
<1>9. CASE ours' = FALSE /\ Finish("Success", wiped)
  BY <1>1, <1>2, <1>3, <1>5, <1>6, <1>7, <1>9, FinishKeeps
<1>10. CASE outcome = "ok" /\ cmd = "burn" /\ Finish("Success", burned)
  <2>1. keys[0] = burned.keys /\ burned.keys # None
    BY <1>1, <1>2, <1>10, EspAssumption DEF IInv, SuccessIsComplete, Ended, AllSlots, KeySets
  <2> QED
    BY <1>1, <1>2, <1>3, <1>5, <1>6, <1>7, <1>10, <2>1, FinishKeeps
<1> QED
  BY <1>1, <1>4, <1>5, <1>8, <1>9, <1>10, Zenon

------------------------------------------------------------------------------
(* inspect, check, diagnose and picc                                         *)

(* check succeeds only on a card whose version bytes are all 0, and they     *)
(* tell (VersionsTell).                                                      *)
LEMMA InspectedKeeps ==
  ASSUME EspInv, VersionsTell, Outside, pc = "idle",
         stage \in {"inspectKeys", "inspectFactory"}, Inspected,
         wrong' = wrong, ours' = ours, missed' = missed
  PROVE  EspInv'
<1> DEFINE state == Assessment(version)
           res == IF cmd = "inspect" \/ state = "Blank" THEN "Success" ELSE "Error"
<1>1. /\ state \in {"Unknown", "Blank", "Provisioned", "Foreign"}
      /\ state = "Blank" => \A i \in Slots : version[i] = 0
  BY Zenon DEF Assessment
<1>2. Finish(res, Seen(state))
  BY Zenon DEF Inspected, Seen
<1>3. Seen(state) \in Services /\ Seen(state).keys = service.keys
  BY <1>1, Assessed DEF EspInv
<1>4. res \in Results /\ (cmd = "check" /\ res = "Success" => AllSlots(Factory))
  BY <1>1 DEF Results, VersionsTell, AllSlots
<1> HIDE DEF state, res
<1> QED
  BY <1>2, <1>3, <1>4, StopsKeeps

(* The keys of the service are tried first when it holds some.               *)
LEMMA InspectStartStep ==
  ASSUME IInv, EspInv, InspectStart
  PROVE  Outside /\ pc = "idle" /\ EspInv'
<1>1. /\ stage = "start" /\ cmd \in {"inspect", "check"} /\ pc = "idle" /\ ours' = ours
      /\ EspTypes /\ wrong' = wrong /\ missed' = missed /\ CardRead
      /\ wrong \in Nat /\ wrong <= 0
  BY DEF InspectStart, Same, EspInv, CommandAtStage, EspTypes, Spent
<1>2. PICK next \in {"inspectKeys", "inspectFactory"} :
        To(next, service) /\ (next = "inspectFactory" => service.keys = None)
  BY DEF InspectStart
<1>3. Outside
  BY <1>1, <1>2, ReadsOutside, LeavesLibrary
<1>4. stage' = next /\ wrong' \in Nat /\ wrong' <= Spent' /\ missed' \in BOOLEAN
  BY <1>1, <1>2 DEF To, Spent, EspTypes
<1>5. ours => next # "inspectFactory" /\ wrong' = 0
  BY <1>1, <1>2 DEF EspInv, KnowsOurCard
<1> QED
  BY <1>1, <1>2, <1>3, <1>4, <1>5, ToKeeps, Assessed DEF EspStages, BurnStages

(* Our own card accepts the keys of the service.                             *)
LEMMA InspectKeysStep ==
  ASSUME IInv, EspInv, VersionsTell, InspectKeys
  PROVE  Outside /\ pc = "idle" /\ EspInv'
<1>1. /\ stage = "inspectKeys" /\ cmd \in {"inspect", "check"} /\ pc = "idle" /\ ours' = ours
      /\ EspTypes /\ wrong \in Nat /\ wrong <= 0
      /\ ours => keys[0] = service.keys /\ service.keys # None
  BY DEF InspectKeys, Same, EspInv, CommandAtStage, EspTypes, Spent, KnowsOurCard
<1>2. CASE Activate(FALSE, To("inspectFactory", Unseen))
  <2>1. /\ UNCHANGED contents /\ session' \in Slots \cup {NoSession} /\ wrong' = wrong
        /\ To("inspectFactory", Unseen) /\ missed' = TRUE
    BY <1>2, Zenon DEF Activate, CardReset
  <2>2. Outside
    BY <2>1, LeavesLibrary, Zenon DEF Outside
  <2>3. stage' = "inspectFactory" /\ wrong' \in Nat /\ wrong' <= Spent'
    BY <1>1, <2>1 DEF To, Spent
  <2>4. missed' \in BOOLEAN /\ ~(~missed')
    BY <2>1, Zenon
  <2> QED
    BY <1>1, <2>1, <2>2, <2>3, <2>4, ToKeeps, Assessed DEF EspStages, BurnStages
<1>3. CASE EspAuthenticate(service.keys, Inspected, Finish("AuthDelay", service),
                           To("inspectFactory", service), Finish("Error", service))
  <2>1. /\ UNCHANGED contents /\ session' \in Slots \cup {NoSession} /\ missed' = missed
        /\ \/ wrong' = wrong /\ Inspected
           \/ wrong' = wrong /\ Finish("AuthDelay", service)
           \/ wrong' = wrong /\ Finish("Error", service)
           \/ keys[0] # service.keys /\ wrong' = wrong + 1 /\ Finish("Error", service)
           \/ keys[0] # service.keys /\ wrong' = wrong + 1 /\ To("inspectFactory", service)
    BY <1>3, EspAuthenticateCases, SMT
  <2>2. Outside
    BY <2>1, LeavesLibrary, Zenon DEF Outside, Inspected
  <2>3. missed' \in BOOLEAN
    BY <1>1, <2>1 DEF EspTypes
  <2>4. CASE wrong' = wrong /\ Inspected
    BY <1>1, <2>1, <2>2, <2>4, InspectedKeeps
  <2>5. CASE wrong' = wrong /\ Finish("AuthDelay", service)
    BY <1>1, <2>1, <2>2, <2>5, StopsKeeps, Assessed DEF Results
  <2>6. CASE wrong' = wrong /\ Finish("Error", service)
    BY <1>1, <2>1, <2>2, <2>6, StopsKeeps, Assessed DEF Results
  <2>7. CASE keys[0] # service.keys /\ wrong' = wrong + 1 /\ Finish("Error", service)
    <3>1. wrong' \in Nat /\ wrong' <= EspBudget[cmd]
      BY <1>1, <2>7, BudgetOf
    <3>2. ours' \in BOOLEAN /\ ~ours'
      BY <1>1, <2>7 DEF EspTypes
    <3> QED
      BY <1>1, <2>2, <2>3, <2>7, <3>1, <3>2, FinishKeeps, Assessed DEF Results
  <2>8. CASE keys[0] # service.keys /\ wrong' = wrong + 1 /\ To("inspectFactory", service)
    <3>1. stage' = "inspectFactory" /\ wrong' \in Nat /\ wrong' <= Spent'
      BY <1>1, <2>8 DEF To, Spent
    <3> QED
      BY <1>1, <2>2, <2>3, <2>8, <3>1, ToKeeps, Assessed DEF EspStages, BurnStages
  <2> QED
    BY <1>1, <2>1, <2>2, <2>4, <2>5, <2>6, <2>7, <2>8, Zenon
<1> QED
  BY <1>2, <1>3, Zenon DEF InspectKeys

(* The factory key is offered to our card only when it was missed.           *)
LEMMA InspectFactoryStep ==
  ASSUME IInv, EspInv, VersionsTell, InspectFactory
  PROVE  Outside /\ pc = "idle" /\ EspInv'
<1>1. /\ stage = "inspectFactory" /\ cmd \in {"inspect", "check"} /\ pc = "idle" /\ ours' = ours
      /\ EspTypes /\ wrong \in Nat /\ wrong <= 1
      /\ ours => missed /\ service.keys # None /\ keys[0] = service.keys
  BY DEF InspectFactory, Same, EspInv, CommandAtStage, EspTypes, Spent, KnowsOurCard
<1>2. CASE Activate(FALSE, Finish("CardNotPresent", Unseen))
  <2>1. /\ UNCHANGED contents /\ session' \in Slots \cup {NoSession} /\ wrong' = wrong
        /\ Finish("CardNotPresent", Unseen) /\ missed' = TRUE
    BY <1>2, Zenon DEF Activate, CardReset
  <2>2. Outside
    BY <2>1, LeavesLibrary, Zenon DEF Outside
  <2> QED
    BY <1>1, <2>1, <2>2, StopsKeeps, Assessed DEF Results
<1>3. CASE EspAuthenticate(Factory, Inspected, Finish("AuthDelay", service),
                           Finish("AuthFailed", service), Finish("Error", service))
  <2>1. /\ UNCHANGED contents /\ session' \in Slots \cup {NoSession} /\ missed' = missed
        /\ wrong' \in {wrong, wrong + 1}
        /\ \/ wrong' = wrong /\ Inspected
           \/ Finish("AuthDelay", service)
           \/ Finish("AuthFailed", service)
           \/ Finish("Error", service)
    BY <1>3, EspAuthenticateCases, SMT
  <2>2. Outside
    BY <2>1, LeavesLibrary, Zenon DEF Outside, Inspected
  <2>3. CASE wrong' = wrong /\ Inspected
    BY <1>1, <2>1, <2>2, <2>3, InspectedKeeps
  <2>4. ASSUME NEW res \in {"AuthDelay", "AuthFailed", "Error"}, Finish(res, service)
        PROVE  EspInv'
    <3>1. wrong' \in Nat /\ wrong' <= EspBudget[cmd] /\ res \in Results
      BY <1>1, <2>1, BudgetOf DEF Results
    <3>2. ours' \in BOOLEAN /\ missed' \in BOOLEAN /\ (ours' => missed')
      BY <1>1, <2>1 DEF EspTypes
    <3> QED
      BY <1>1, <2>2, <2>4, <3>1, <3>2, FinishKeeps, Assessed
  <2> QED
    BY <1>1, <2>1, <2>2, <2>3, <2>4
<1> QED
  BY <1>2, <1>3, Zenon DEF InspectFactory

(* diagnose authenticates only what looks like a new card.                   *)
LEMMA DiagnoseStep == ASSUME IInv, EspInv, Diagnose PROVE Outside /\ pc = "idle" /\ EspInv'
<1>1. /\ stage = "start" /\ cmd = "diagnose" /\ pc = "idle" /\ ours' = ours
      /\ EspTypes /\ wrong \in Nat /\ wrong <= 0
  BY Zenon DEF Diagnose, Same, EspInv, CommandAtStage, EspTypes, Spent
<1>2. /\ UNCHANGED contents /\ session' \in Slots \cup {NoSession} /\ wrong' = wrong
      /\ \/ Finish("Error", service) /\ missed' = missed
         \/ To("diagFactory", service) /\ missed' = missed
         \/ Finish("Success", Seen("Provisioned")) /\ missed' = missed
         \/ Finish("Success", Seen("Unknown")) /\ missed' = missed
         \/ Finish("CardNotPresent", Unseen) /\ missed' = TRUE
  BY Zenon DEF Diagnose, Activate, CardReset
<1>3. Outside
  BY <1>2, LeavesLibrary, Zenon DEF Outside
<1>4. CASE To("diagFactory", service) /\ missed' = missed
  <2>1. stage' = "diagFactory" /\ wrong' \in Nat /\ wrong' <= Spent' /\ missed' \in BOOLEAN
    BY <1>1, <1>2, <1>4 DEF To, Spent, EspTypes
  <2> QED
    BY <1>1, <1>3, <1>4, <2>1, ToKeeps, Assessed DEF EspStages, BurnStages
<1>5. ASSUME NEW res \in Results, NEW s \in {service, Unseen, Seen("Provisioned"), Seen("Unknown")},
             Finish(res, s), missed' \in {missed, TRUE}
      PROVE  EspInv'
  <2>1. s \in Services /\ s.keys = service.keys
    BY <1>1, <1>5, Assessed
  <2> QED
    BY <1>1, <1>2, <1>3, <1>5, <2>1, StopsKeeps, Zenon
<1>6. {"Error", "Success", "CardNotPresent"} \subseteq Results
  BY DEF Results
<1> QED
  BY <1>1, <1>2, <1>3, <1>4, <1>5, <1>6, Zenon

(* Its one authentication is its last step.                                  *)
LEMMA DiagnoseFactoryStep ==
  ASSUME IInv, EspInv, DiagnoseFactory
  PROVE  Outside /\ pc = "idle" /\ EspInv'
<1>1. /\ stage = "diagFactory" /\ cmd = "diagnose" /\ pc = "idle" /\ ours' = ours
      /\ EspTypes /\ wrong \in Nat /\ wrong <= 0
      /\ ours => service.keys # None /\ keys[0] = service.keys
  BY DEF DiagnoseFactory, Same, EspInv, CommandAtStage, EspTypes, Spent, KnowsOurCard
<1>2. EspAuthenticate(Factory, Finish("Success", Seen("Blank")),
                      Finish("Success", Seen("Unknown")), Finish("Success", Seen("Unknown")),
                      Finish("Success", Seen("Unknown")))
  BY Zenon DEF DiagnoseFactory
<1>3. /\ UNCHANGED contents /\ session' \in Slots \cup {NoSession} /\ missed' = missed
      /\ wrong' \in {wrong, wrong + 1}
      /\ Finish("Success", Seen("Blank")) \/ Finish("Success", Seen("Unknown"))
  BY <1>2, EspAuthenticateCases, SMT
<1>4. Outside
  BY <1>3, LeavesLibrary, Zenon DEF Outside
<1>5. PICK s \in {Seen("Blank"), Seen("Unknown")} : Finish("Success", s)
  BY <1>3, Zenon
<1>6. s \in Services /\ s.keys = service.keys
  BY <1>1, <1>5, Assessed
<1>7. wrong' \in Nat /\ wrong' <= EspBudget[cmd] /\ "Success" \in Results
  BY <1>1, <1>3, BudgetOf DEF Results
<1>8. ours' \in BOOLEAN /\ missed' \in BOOLEAN
  BY <1>1, <1>3 DEF EspTypes
<1> QED
  BY <1>1, <1>4, <1>5, <1>6, <1>7, <1>8, FinishKeeps

(* picc never authenticates.                                                 *)
LEMMA PiccStep == ASSUME IInv, EspInv, Picc PROVE Outside /\ pc = "idle" /\ EspInv'
<1>1. /\ stage = "start" /\ cmd = "picc" /\ pc = "idle" /\ ours' = ours /\ EspTypes
  BY Zenon DEF Picc, Same, EspInv, CommandAtStage
<1>2. /\ UNCHANGED contents /\ session' \in Slots \cup {NoSession} /\ wrong' = wrong
      /\ missed' \in {missed, TRUE}
      /\ \/ Finish("Error", service)
         \/ Finish("Success", Seen("Provisioned"))
         \/ Finish("Success", Seen("Unknown"))
         \/ Finish("CardNotPresent", Unseen)
  BY Zenon DEF Picc, Activate, CardReset
<1>3. Outside
  BY <1>2, LeavesLibrary, Zenon DEF Outside
<1>4. ASSUME NEW res \in Results, NEW s \in {service, Unseen, Seen("Provisioned"), Seen("Unknown")},
             Finish(res, s)
      PROVE  EspInv'
  <2>1. s \in Services /\ s.keys = service.keys
    BY <1>1, <1>4, Assessed
  <2> QED
    BY <1>1, <1>2, <1>3, <1>4, <2>1, StopsKeeps, Zenon
<1>5. {"Error", "Success", "CardNotPresent"} \subseteq Results
  BY DEF Results
<1> QED
  BY <1>1, <1>2, <1>3, <1>4, <1>5, Zenon

------------------------------------------------------------------------------
(* Between commands.                                                         *)

(* What is staged, polled or seen between commands leaves the card alone.    *)
LEMMA IdleKeeps ==
  ASSUME EspInv, Outside, stage = "idle", stage' = "idle",
         config' \in Configs, service' \in Services, nvs' \in Stores, announced' \in BOOLEAN,
         service.keys # None => service'.keys = service.keys,
         UNCHANGED <<field, cmd, via, ours, result, wrong, missed>>
  PROVE  EspInv'
<1>1. pc = "idle" /\ UNCHANGED keys /\ UNCHANGED hostVars /\ EspTypes
  BY DEF EspInv, CommandAtStage, Outside
<1>2. EspTypes'
  BY <1>1 DEF EspTypes
<1>3. /\ wrong' <= EspBudget[cmd']
      /\ ours' => service'.keys # None /\ keys[0] = service'.keys
      /\ ours' /\ ~missed' /\ cmd' \in {"inspect", "check"} => wrong' = 0
      /\ cmd' = "check" /\ result' = "Success" => AllSlots(Factory)
  BY WithinBudget DEF EspInv, KnowsOurCard, CheckTellsBlank
<1> QED
  BY <1>1, <1>2, <1>3, RestsKeeps

(* A staging command.                                                        *)
LEMMA StageKeeps ==
  ASSUME IInv, EspInv, NEW c \in Configs, NEW from, Stage(c, from)
  PROVE  Outside /\ stage = "idle" /\ EspInv'
<1>1. /\ stage = "idle" /\ stage' = "idle" /\ config' = c /\ service' = Synced(service, c)
      /\ nvs' = Saved(c) /\ UNCHANGED <<field, cmd, via, ours, result, wrong, missed>>
      /\ EspTypes
  BY DEF Stage, call, EspInv
<1>2. Outside
  BY DEF Stage, Outside, IInv, TypeOK, CardTypeOK
<1>3. announced' \in BOOLEAN
  BY Zenon DEF Stage
<1>4. nvs' \in Stores
  BY <1>1, SavedKeeps DEF EspTypes
<1>5. service' \in Services /\ (service.keys # None => service'.keys = service.keys)
  BY <1>1, SyncedKeeps DEF EspTypes
<1> QED
  BY <1>1, <1>2, <1>3, <1>4, <1>5, IdleKeeps, Zenon

(* The staging commands, and those that reach no card.                       *)
LEMMA StagingStep ==
  ASSUME IInv, EspInv, SetIssuer \/ SetKeys \/ SetUrl \/ Status \/ SetForce
  PROVE  Outside /\ stage = "idle" /\ EspInv'
<1>1. EspTypes /\ config \in Configs
  BY DEF EspInv, EspTypes
<1>2. ASSUME NEW c \in Configs, \E from : Stage(c, from)
      PROVE  Outside /\ stage = "idle" /\ EspInv'
  BY <1>2, StageKeeps
<1>3. CASE SetIssuer
  <2>1. PICK s \in Issuers : Stage([config EXCEPT !.issuer = s], "console")
    BY <1>3 DEF SetIssuer
  <2>2. [config EXCEPT !.issuer = s] \in Configs
    BY <1>1 DEF Configs, Held
  <2> QED
    BY <1>2, <2>1, <2>2
<1>4. CASE SetKeys
  <2>1. PICK s \in Issuers, from \in Sources \cap {"console", "rest"} :
          Stage([config EXCEPT !.keys = s], from)
    BY <1>4 DEF SetKeys
  <2>2. [config EXCEPT !.keys = s] \in Configs
    BY <1>1 DEF Configs, Held
  <2> QED
    BY <1>2, <2>1, <2>2
<1>5. CASE SetUrl
  <2>1. PICK u \in StagedUrls, from \in Sources \cap {"console", "rest"} :
          Stage([config EXCEPT !.url = u], from)
    BY <1>5 DEF SetUrl
  <2>2. [config EXCEPT !.url = u] \in Configs
    BY <1>1, EspAssumption DEF Configs, Urls
  <2> QED
    BY <1>2, <2>1, <2>2
<1>6. CASE Status
  BY <1>1, <1>2, <1>6 DEF Status
<1>7. CASE SetForce
  <2>1. PICK f \in BOOLEAN : config' = [config EXCEPT !.force = f] /\ nvs' = [nvs EXCEPT !.force = f]
    BY <1>7 DEF SetForce
  <2>2. config' \in Configs /\ nvs' \in Stores
    BY <1>1, <2>1 DEF EspTypes, Configs, Stores
  <2>3. /\ stage = "idle" /\ stage' = "idle" /\ service' = service /\ announced' = FALSE
        /\ UNCHANGED <<field, cmd, via, ours, result, wrong, missed>>
    BY <1>7 DEF SetForce, call
  <2>4. Outside
    BY <1>7 DEF SetForce, Outside, IInv, TypeOK, CardTypeOK
  <2>5. service' \in Services /\ announced' \in BOOLEAN
    BY <1>1, <2>3, Zenon DEF EspTypes
  <2> QED
    BY <2>2, <2>3, <2>4, <2>5, IdleKeeps
<1> QED
  BY <1>3, <1>4, <1>5, <1>6, <1>7

(* The poll of the main loop never authenticates.                            *)
LEMMA PollStep == ASSUME IInv, EspInv, Poll PROVE Outside /\ stage = "idle" /\ EspInv'
<1>1. /\ stage = "idle" /\ CardReset /\ UNCHANGED <<wrong, missed>> /\ ours' = ours /\ EspTypes
  BY Zenon DEF Poll, Same, EspInv
<1>2. PICK s \in {service, Unseen, Seen("Unknown"), Seen("Provisioned"), Seen("Blank")},
           a \in BOOLEAN : Polled(s, a)
  BY Zenon DEF Poll
<1>3. s \in Services /\ s.keys = service.keys
  BY <1>1, <1>2, Assessed
<1>4. Outside
  BY <1>1, <1>2 DEF Outside, Polled, CardReset
<1>5. /\ service' = s /\ announced' = a /\ stage' = "idle"
      /\ UNCHANGED <<config, nvs, field, cmd, via, result>>
  BY <1>1, <1>2 DEF Polled, call
<1>6. config' \in Configs /\ service' \in Services /\ nvs' \in Stores /\ announced' \in BOOLEAN
  BY <1>1, <1>3, <1>5 DEF EspTypes
<1> QED
  BY <1>1, <1>3, <1>4, <1>5, <1>6, IdleKeeps

(* A command starts with nothing spent.                                      *)
LEMMA ReceiveKeeps ==
  ASSUME IInv, EspInv, NEW name \in {"burn", "wipe", "inspect", "check", "diagnose", "picc"},
         NEW from \in {"console", "rest", "ble", "button"}, Receive(name, from)
  PROVE  Outside /\ stage = "idle" /\ EspInv'
<1>1. /\ stage = "idle" /\ cmd' = name /\ via' = from /\ stage' = "start"
      /\ result' = "none" /\ wrong' = 0 /\ missed' = FALSE
      /\ UNCHANGED <<config, nvs, field, announced, service, ours, keys>>
      /\ UNCHANGED hostVars /\ EspTypes /\ pc = "idle"
  BY DEF Receive, dev, EspInv, CommandAtStage
<1>2. Outside
  BY DEF Receive, Outside, IInv, TypeOK, CardTypeOK
<1>3. EspTypes'
  <2>1. missed' \in BOOLEAN
    BY <1>1, Zenon
  <2> QED
    BY <1>1, <2>1 DEF EspTypes, EspStages, Results
<1>4. CommandAtStage' /\ LabelsOf'
  BY <1>1 DEF EspInv, CommandAtStage, LabelsOf, BurnStages
<1>5. ProbedIsRight' /\ wrong' <= Spent'
  BY <1>1 DEF ProbedIsRight, Spent
<1>6. KnowsOurCard' /\ CheckTellsBlank'
  BY <1>1 DEF EspInv, KnowsOurCard, CheckTellsBlank
<1> QED
  BY <1>1, <1>2, <1>3, <1>4, <1>5, <1>6 DEF EspInv

(* Whoever sends it.                                                         *)
LEMMA CommandStep ==
  ASSUME IInv, EspInv, Command \/ LegacyButton \/ SmartButton
  PROVE  Outside /\ stage = "idle" /\ EspInv'
<1>1. \A from \in {"console", "rest", "ble"} :
        Offers(from) \subseteq {"burn", "wipe", "inspect", "check", "diagnose", "picc"}
  BY DEF Offers
<1>2. PICK name \in {"burn", "wipe", "inspect", "check", "diagnose", "picc"},
           from \in {"console", "rest", "ble", "button"} : Receive(name, from)
  BY <1>1, Zenon DEF Command, LegacyButton, SmartButton
<1> QED
  BY <1>2, ReceiveKeeps

------------------------------------------------------------------------------
(* The card comes and goes; the device reboots.                              *)

(* Nothing the commands know depends on the field or the session.            *)
LEMMA FrameKeeps ==
  ASSUME EspInv, field' \in BOOLEAN, UNCHANGED <<config, service, nvs, announced>>,
         UNCHANGED <<cmd, via, ours, stage, result, wrong, missed, keys>>, UNCHANGED hostVars
  PROVE  EspInv'
<1>1. EspTypes'
  BY DEF EspInv, EspTypes
<1>2. CommandAtStage' /\ LabelsOf'
  BY DEF EspInv, CommandAtStage, LabelsOf, Given
<1>3. ProbedIsRight' /\ wrong' <= Spent'
  BY DEF EspInv, ProbedIsRight, Given, Spent
<1>4. KnowsOurCard' /\ CheckTellsBlank'
  BY DEF EspInv, KnowsOurCard, CheckTellsBlank, AllSlots
<1> QED
  BY <1>1, <1>2, <1>3, <1>4 DEF EspInv

(* The card is put on or taken off, in the middle of an operation as well.   *)
LEMMA FieldStep == ASSUME IInv, EspInv, PlaceCard \/ TakeCard PROVE [Next]_vars /\ EspInv'
<1>1. CASE PlaceCard
  <2>1. field' \in BOOLEAN
    BY <1>1, Zenon DEF PlaceCard
  <2> QED
    BY <1>1, <2>1, FrameKeeps DEF PlaceCard, call, vars
<1>2. CASE TakeCard
  <2>1. field' \in BOOLEAN
    BY <1>2, Zenon DEF TakeCard
  <2>2. EspInv'
    BY <1>2, <2>1, FrameKeeps DEF TakeCard, CardReset, call
  <2>3. [Next]_vars
    BY <1>2 DEF TakeCard, CardReset, Next, RemoveCard, vars, call
  <2> QED
    BY <2>2, <2>3
<1> QED
  BY <1>1, <1>2

(* A reboot cuts short what is running, and forgets the keys.                *)
LEMMA RebootStep == ASSUME IInv, EspInv, Reboot PROVE [Next]_vars /\ EspInv'
<1> DEFINE c == [issuer |-> None, keys |-> None, url |-> nvs.url, force |-> nvs.force]
<1>1. /\ config' = c /\ service' = [config |-> c, keys |-> None, last |-> "Unknown"]
      /\ announced' = FALSE /\ stage' = "idle" /\ cmd' = "none" /\ via' = "none"
      /\ result' = "none" /\ wrong' = 0 /\ missed' = FALSE /\ ours' = FALSE
      /\ UNCHANGED <<nvs, field>> /\ CardRead
  BY DEF Reboot, Booted
<1>2. c \in Configs /\ service' \in Services
  BY <1>1 DEF EspInv, EspTypes, Stores, Configs, Services, Held
<1>3. announced' \in BOOLEAN /\ missed' \in BOOLEAN /\ ours' \in BOOLEAN
  BY <1>1, Zenon
<1>4. EspTypes'
  BY <1>1, <1>2, <1>3 DEF EspInv, EspTypes, EspStages, Results
<1>5. keys' = keys /\ pc' = "idle" /\ UNCHANGED params
  BY <1>1 DEF Reboot, CardRead, End
<1>6. CommandAtStage' /\ LabelsOf'
  BY <1>1, <1>5 DEF EspInv, CommandAtStage, LabelsOf, BurnStages
<1>7. ProbedIsRight' /\ wrong' <= Spent'
  BY <1>1, BudgetOf DEF ProbedIsRight, Spent
<1>8. KnowsOurCard' /\ CheckTellsBlank'
  BY <1>1 DEF KnowsOurCard, CheckTellsBlank
<1>9. [Next]_vars
  <2>1. CASE pc = "idle"
    BY <1>1, <2>1 DEF Reboot, CardRead, vars
  <2>2. CASE pc # "idle"
    BY <1>1, <2>2, CutShort DEF Reboot, EspInv, Next
  <2> QED
    BY <2>1, <2>2
<1> QED
  BY <1>4, <1>6, <1>7, <1>8, <1>9 DEF EspInv

------------------------------------------------------------------------------
(* Every step of the device is one that CardOps allows, and keeps the        *)
(* invariant.                                                                *)
LEMMA EspNextKeeps ==
  ASSUME IInv, VersionsTell, EspInv, [EspNext]_espVars
  PROVE  [Next]_vars /\ EspInv'
<1>1. CASE \/ SetIssuer \/ SetKeys \/ SetUrl \/ Status \/ SetForce \/ Poll
           \/ Command \/ LegacyButton \/ SmartButton
  <2>1. Outside /\ stage = "idle" /\ EspInv'
    BY <1>1, StagingStep, PollStep, CommandStep, Zenon
  <2> QED
    BY <2>1, OutsideDrives DEF EspInv, CommandAtStage
<1>2. CASE \/ BurnStart \/ BurnProbeFactory \/ BurnProbeGiven \/ WipeStart \/ WipeGuard
           \/ LibReturns \/ InspectStart \/ InspectKeys \/ InspectFactory
           \/ Diagnose \/ DiagnoseFactory \/ Picc
  <2>1. Outside /\ pc = "idle" /\ EspInv'
    BY <1>2, BurnStartStep, BurnProbeFactoryStep, BurnProbeGivenStep, WipeStartStep, WipeGuardStep,
       LibReturnsStep, InspectStartStep, InspectKeysStep, InspectFactoryStep, DiagnoseStep,
       DiagnoseFactoryStep, PiccStep, Zenon
  <2> QED
    BY <2>1, OutsideDrives
<1>3. CASE EspBurn \/ EspWipe \/ LibStep \/ PlaceCard \/ TakeCard \/ Reboot
  BY <1>3, EspBurnStep, EspWipeStep, LibStepKeeps, FieldStep, RebootStep, Zenon
<1>4. CASE UNCHANGED espVars
  BY <1>4, FrameKeeps, Zenon DEF espVars, vars, EspInv, EspTypes
<1> QED
  BY <1>1, <1>2, <1>3, <1>4, Zenon DEF EspNext, EspStep

(* A device that has just booted.                                            *)
LEMMA EspInitKeeps == ASSUME EspInit PROVE Init /\ VersionsTell /\ EspInv
<1>1. Init /\ VersionsTell /\ op = "none" /\ pc = "idle"
  BY DEF EspInit, Init, CardInit, VersionsTell
<1>2. nvs \in Stores /\ config \in Configs
  BY DEF EspInit, Stores, Configs, Held, Urls
<1>3. service \in Services
  BY <1>2 DEF EspInit, Services, Held
<1>4. field \in BOOLEAN /\ announced \in BOOLEAN /\ missed \in BOOLEAN /\ ours \in BOOLEAN
  BY Zenon DEF EspInit
<1>5. EspTypes
  BY <1>2, <1>3, <1>4 DEF EspInit, EspTypes, EspStages, Results
<1>6. CommandAtStage /\ LabelsOf
  BY <1>1 DEF EspInit, CommandAtStage, LabelsOf, BurnStages
<1>7. ProbedIsRight /\ wrong <= Spent
  BY BudgetOf DEF EspInit, ProbedIsRight, Spent
<1>8. KnowsOurCard /\ CheckTellsBlank
  BY DEF EspInit, KnowsOurCard, CheckTellsBlank
<1> QED
  BY <1>1, <1>5, <1>6, <1>7, <1>8 DEF EspInv

------------------------------------------------------------------------------
(* Theorems                                                                  *)

(* The inductive invariant of the device, with those of CardOps it needs.    *)
THEOREM EspInvariant == EspSpec => [](IInv /\ VersionsTell /\ EspInv)
<1> DEFINE Inv == IInv /\ VersionsTell /\ EspInv
<1>1. EspInit => Inv
  BY EspInitKeeps, InitIInv
<1>2. Inv /\ [EspNext]_espVars => Inv'
  <2> SUFFICES ASSUME Inv, [EspNext]_espVars PROVE Inv'
    OBVIOUS
  <2>1. [Next]_vars /\ EspInv'
    BY EspNextKeeps
  <2>2. op = "burn" => ver # 0
    BY DEF EspInv, LabelsOf
  <2> QED
    BY <2>1, <2>2, NextKeeps, VersionsTellStep
<1> QED
  BY <1>1, <1>2, PTL DEF EspSpec

(* Whatever the device's callers do and however the card comes and goes, the *)
(* library is driven as CardOps allows.                                      *)
THEOREM EspDrivesCardOps == EspSpec => DrivesCardOps
<1>1. EspInit => Init
  BY EspInitKeeps
<1>2. IInv /\ VersionsTell /\ EspInv /\ [EspNext]_espVars => [Next]_vars
  BY EspNextKeeps
<1> QED
  BY <1>1, <1>2, EspInvariant, PTL DEF EspSpec, DrivesCardOps, Spec

(* The types of the device's state.                                          *)
THEOREM EspTypeCorrectness == EspSpec => []EspTypeOK
<1>1. IInv /\ EspInv => EspTypeOK
  BY DEF IInv, EspInv, EspTypes, CommandAtStage, EspTypeOK, Services, Stores
<1> QED
  BY <1>1, EspInvariant, PTL

(* `check` reports a blank card only when every slot holds the factory key,  *)
(* although it goes by version bytes.                                        *)
THEOREM ChecksBlank == EspSpec => []CheckTellsBlank
<1>1. EspInv => CheckTellsBlank
  BY DEF EspInv
<1> QED
  BY <1>1, EspInvariant, PTL

(* No command offers the card more wrong keys than its budget.               *)
THEOREM KeepsEspWrongKeyBudget == EspSpec => []EspWrongKeyBudget
<1>1. EspInv => EspWrongKeyBudget
  BY WithinBudget DEF EspWrongKeyBudget
<1> QED
  BY <1>1, EspInvariant, PTL

(* After a burn by this device, inspect and check open the card at once.     *)
THEOREM InspectsFreely == EspSpec => []InspectAfterBurnIsFree
<1>1. EspInv => InspectAfterBurnIsFree
  BY DEF EspInv, KnowsOurCard, InspectAfterBurnIsFree
<1> QED
  BY <1>1, EspInvariant, PTL

(* Whatever the callers do, and wherever a reboot cuts them short, the card  *)
(* goes through its lifecycle.                                               *)
THEOREM EspKeepsLifecycle == EspSpec => KeepsLifecycle
BY EspDrivesCardOps, ImplementsLifecycle, PTL DEF DrivesCardOps
==============================================================================
