---------------------------- MODULE EspWorkflow ------------------------------
(***************************************************************************)
(* apps/bolty-esp32: the card service of the firmware and everything that  *)
(* drives it - the serial console, the REST handlers and the job runner,   *)
(* the BLE commands, the buttons and the poll of the main loop - against   *)
(* one card that comes and goes.                                           *)
(*                                                                         *)
(* Every command holds the configuration and the service lock from its     *)
(* first step to its last, so commands do not interleave with one another  *)
(* (EspThreads is about the locks).  A command is a sequence of exchanges  *)
(* with the card; its library operation is the one of CardOps.             *)
(***************************************************************************)
EXTENDS CardOps

CONSTANTS
  None,          \* no key set staged, or none held
  Sources,       \* who sends commands: console, rest, ble (not with rest), button
  StagedUrls     \* the URLs that are staged

ASSUME EspAssumption ==
  /\ None \notin KeySets /\ 1 \in BurnVersions
  /\ Sources \subseteq {"console", "rest", "ble", "button"}
  /\ StagedUrls \subseteq {"template", "plain"}

VARIABLES
  config,      \* BoltyConfig: issuer, keys, url, force
  service,     \* Esp32BoltyService: config (its copy), keys, last (last_card)
  nvs,         \* what survives a reboot: url, force
  field,       \* the card is in the field
  announced,   \* card_announced of the main loop
  cmd,         \* the command running, or the last one
  via,         \* who sent the running command
  stage,       \* where it is; "idle" between commands
  result,      \* WorkflowResult of the last command
  wrong,       \* history: wrong keys for K0 the command has offered the card
  missed,      \* history: an activation failed during the command
  ours         \* history: the card is as our last successful burn left it

dev     == <<config, nvs, field, announced>>
call    == <<cmd, via, ours>>
espVars == <<keys, version, sdm, access, nlen, body, session,
             op, pc, target, ver, cur, old, k, outcome, atStart,
             config, service, nvs, field, announced,
             cmd, via, stage, result, wrong, missed, ours>>

Held    == Issuers \cup {None}
Urls    == {"none", "template", "plain"}     \* "plain": no {mac} in it
Results == {"none", "Success", "CardNotPresent", "AuthFailed", "AuthDelay",
            "WipeRefused", "Error"}
EspStages == {"idle", "start", "burnFactory", "burnGiven", "runFactory",
              "runGiven", "lib", "wipeGuard", "runWipe", "inspectKeys",
              "inspectFactory", "diagFactory"}

Configs == [issuer : Held, keys : Held, url : Urls, force : BOOLEAN]

EspTypeOK ==
  /\ TypeOK
  /\ config \in Configs
  /\ service \in [config : Configs, keys : Held,
                  last : {"Unknown", "Blank", "Provisioned", "Foreign"}]
  /\ nvs \in [url : Urls, force : BOOLEAN]
  /\ {field, announced, missed, ours} \subseteq BOOLEAN
  /\ cmd \in {"none", "burn", "wipe", "inspect", "check", "diagnose", "picc"}
  /\ via \in {"none", "console", "rest", "ble", "button"}
  /\ stage \in EspStages /\ result \in Results /\ wrong \in Nat
  /\ (stage = "idle" => pc = "idle")

Whole(s) == [i \in Slots |-> s]

(* main: the configuration comes from NVS, the keys are gone.                *)
Booted ==
  LET c == [issuer |-> None, keys |-> None, url |-> nvs.url, force |-> nvs.force]
  IN  /\ config' = c
      /\ service' = [config |-> c, keys |-> None, last |-> "Unknown"]

EspInit ==
  /\ Init
  /\ nvs \in [url : {"none", "template"}, force : BOOLEAN]
  /\ config = [issuer |-> None, keys |-> None, url |-> nvs.url, force |-> nvs.force]
  /\ service = [config |-> config, keys |-> None, last |-> "Unknown"]
  /\ field = FALSE /\ announced = FALSE
  /\ cmd = "none" /\ via = "none" /\ stage = "idle" /\ result = "none"
  /\ wrong = 0 /\ missed = FALSE /\ ours = FALSE

------------------------------------------------------------------------------
(* The configuration and its copy in the service.                            *)

(* Mutant: the staged keys replace the keys of the card that was burned.     *)
SyncedAlways(s, c) == [s EXCEPT !.config = c, !.keys = c.keys]

(* sync_from: the copy is renewed, staged keys are taken over only if the    *)
(* service holds none.                                                       *)
Synced(s, c) == [s EXCEPT !.config = c, !.keys = IF @ = None THEN c.keys ELSE @]

(* sync_config also saves the URL.                                           *)
Saved(c) == IF c.url = "none" THEN nvs ELSE [nvs EXCEPT !.url = c.url]

(* dispatch_command of a staging command, or of one that does nothing, and   *)
(* the sync_from after it.                                                   *)
Stage(c, from) ==
  /\ stage = "idle"
  /\ config' = c
  /\ service' = Synced(service, c)
  /\ nvs' = Saved(c)
  /\ announced' = (announced /\ from # "console")
  /\ UNCHANGED <<cardVars, hostVars, field, call, stage, result, wrong, missed>>

SetIssuer == "console" \in Sources /\ \E s \in Issuers : Stage([config EXCEPT !.issuer = s], "console")
SetKeys   == \E s \in Issuers, from \in Sources \cap {"console", "rest"} :
               Stage([config EXCEPT !.keys = s], from)
SetUrl    == \E u \in StagedUrls, from \in Sources \cap {"console", "rest"} :
               Stage([config EXCEPT !.url = u], from)
Status    == \E from \in Sources \cap {"console", "rest"} : Stage(config, from)

(* `force on` and `force off` go past the dispatcher: configuration and NVS  *)
(* are changed, the copy in the service is not.                              *)
SetForce ==
  /\ stage = "idle" /\ "console" \in Sources
  /\ \E f \in BOOLEAN : config' = [config EXCEPT !.force = f]
                        /\ nvs' = [nvs EXCEPT !.force = f]
  /\ announced' = FALSE
  /\ UNCHANGED <<cardVars, hostVars, service, field, call, stage, result, wrong, missed>>

------------------------------------------------------------------------------
(* A command.                                                                *)

(* Console: everything.  REST and jobs: no picc or diagnose that reach the   *)
(* card.  BLE: reads only.  Buttons: burn and wipe.                          *)
Offers(from) ==
  CASE from = "console" -> {"burn", "wipe", "inspect", "check", "diagnose", "picc"}
    [] from = "rest"    -> {"burn", "wipe", "inspect", "check"}
    [] from = "ble"     -> {"inspect", "check"}
    [] from = "button"  -> {"burn", "wipe"}

Receive(name, from) ==
  /\ stage = "idle"
  /\ from \in Sources /\ name \in Offers(from)
  /\ cmd' = name /\ via' = from /\ stage' = "start"
  /\ result' = "none" /\ wrong' = 0 /\ missed' = FALSE
  /\ UNCHANGED <<cardVars, hostVars, dev, service, ours>>

Command ==
  \E from \in {"console", "rest", "ble"} : \E name \in Offers(from) : Receive(name, from)

LegacyButton == \E name \in {"burn", "wipe"} : Receive(name, "button")

(* do_smart_action: what the service last saw decides.                       *)
SmartButton ==
  \/ service.last = "Blank" /\ Receive("burn", "button")
  \/ service.last = "Provisioned" /\ Receive("wipe", "button")

(* Which commands are followed by sync_from.                                 *)
Syncs ==
  \/ via = "rest"
  \/ via = "console" /\ cmd \notin {"picc", "diagnose"}
  \/ via = "button" /\ cmd = "burn"

Finish(res, s) ==
  /\ stage' = "idle" /\ result' = res
  /\ service' = IF Syncs THEN Synced(s, config) ELSE s
  /\ nvs' = IF Syncs THEN Saved(config) ELSE nvs
  /\ announced' = (announced /\ via # "console")
  /\ via' = "none"
  /\ UNCHANGED <<hostVars, config, field, cmd>>

To(next, s) ==
  /\ stage' = next /\ service' = s
  /\ UNCHANGED <<hostVars, dev, call, result>>

Unseen == [service EXCEPT !.last = "Unknown"]

(* activate_transport: the card is selected anew, or nothing is found and    *)
(* the last assessment is dropped.                                           *)
Activate(next, absent) ==
  /\ CardReset /\ wrong' = wrong
  /\ \/ field /\ next /\ UNCHANGED missed
     \/ absent /\ missed' = TRUE

(* AuthenticateEV2First of K0; a card out of the field answers nothing.      *)
EspAuthenticate(key, ok, delayed, refused, lost) ==
  /\ \/ field /\ keys[0] = key /\ CardAuthenticate(0) /\ wrong' = wrong /\ (ok \/ lost)
     \/ field /\ keys[0] # key /\ CardReset /\ wrong' = wrong + 1 /\ (refused \/ lost)
     \/ field /\ CardReset /\ wrong' = wrong /\ delayed
     \/ (CardRead \/ CardReset) /\ wrong' = wrong /\ lost
  /\ UNCHANGED missed

Same == UNCHANGED ours

(* An issuer key takes precedence over staged keys.                          *)
Given == IF config.issuer # None THEN config.issuer ELSE config.keys

------------------------------------------------------------------------------
(* burn                                                                      *)

(* dispatch_command and do_burn_button refuse differently: only the former   *)
(* looks for {mac}, unless forced.                                           *)
BurnReady ==
  /\ config.url # "none" /\ Given # None
  /\ via = "button" \/ config.force \/ config.url = "template"

BurnStart ==
  /\ stage = "start" /\ cmd = "burn" /\ Same
  /\ \/ ~BurnReady /\ CardRead /\ UNCHANGED <<wrong, missed>> /\ Finish("Error", service)
     \/ BurnReady /\ Activate(To("burnFactory", service),
                              Finish("CardNotPresent", Unseen))

(* Mutant: the factory key is tried again when its answer is lost.           *)
BurnProbeFactoryRetries ==
  /\ stage = "burnFactory" /\ Same
  /\ EspAuthenticate(Factory, To("runFactory", service), Finish("AuthDelay", service),
                     To("burnGiven", service), To("burnFactory", service))

BurnProbeFactory ==
  /\ stage = "burnFactory" /\ Same
  /\ EspAuthenticate(Factory, To("runFactory", service), Finish("AuthDelay", service),
                     To("burnGiven", service), To("burnGiven", service))

BurnProbeGiven ==
  /\ stage = "burnGiven" /\ Same
  /\ EspAuthenticate(Given, To("runGiven", service), Finish("AuthDelay", service),
                     Finish("AuthFailed", service), Finish("AuthFailed", service))

(* Mutant: the keys are written with the version of factory keys.            *)
EspBurnVersionZero ==
  /\ stage \in {"runFactory", "runGiven"} /\ UNCHANGED <<wrong, missed>>
  /\ LET c == IF stage = "runFactory" THEN Factory ELSE Given IN
     Begin("burn", Given, 0, c, Whole(c))
  /\ stage' = "lib" /\ ours' = FALSE
  /\ UNCHANGED <<dev, service, cmd, via, result>>

(* bolty_ntag::burn rejects a URL without {mac} before its first exchange.   *)
EspBurn ==
  /\ stage \in {"runFactory", "runGiven"} /\ UNCHANGED <<wrong, missed>>
  /\ IF config.url = "plain"
       THEN CardRead /\ Same /\ Finish("Error", service)
       ELSE LET c == IF stage = "runFactory" THEN Factory ELSE Given IN
            /\ Begin("burn", Given, 1, c, Whole(c))
            /\ stage' = "lib" /\ ours' = FALSE
            /\ UNCHANGED <<dev, service, cmd, via, result>>

------------------------------------------------------------------------------
(* wipe                                                                      *)

LooksFactory == sdm = Factory /\ access = "Free"

(* Mutant: a wipe without staged keys is not refused.                        *)
WipeStartUnguarded ==
  /\ stage = "start" /\ cmd = "wipe" /\ Same
  /\ Activate(To("wipeGuard", service), Finish("CardNotPresent", Unseen))

WipeStart ==
  /\ stage = "start" /\ cmd = "wipe" /\ Same
  /\ \/ /\ via = "button" /\ Given = None
        /\ CardRead /\ UNCHANGED <<wrong, missed>> /\ Finish("Error", service)
     \/ /\ via = "button" => Given # None
        /\ Activate(IF Given = None THEN Finish("WipeRefused", service)
                                    ELSE To("wipeGuard", service),
                    Finish("CardNotPresent", Unseen))

(* The guard fires on factory settings with an NDEF file that cannot be      *)
(* read; it goes by the service's copy of the force flag.                    *)
WipeGuard ==
  /\ stage = "wipeGuard" /\ Same /\ CardRead /\ UNCHANGED <<wrong, missed>>
  /\ \/ ~service.config.force /\ LooksFactory /\ field /\ Finish("WipeRefused", service)
     \/ To("runWipe", service)

EspWipe ==
  /\ stage = "runWipe" /\ UNCHANGED <<wrong, missed>>
  /\ Begin("wipe", Factory, 0, Given, Whole(Given))
  /\ stage' = "lib" /\ ours' = FALSE
  /\ UNCHANGED <<dev, service, cmd, via, result>>

------------------------------------------------------------------------------
(* The library operation.                                                    *)

LibStep ==
  /\ stage = "lib" /\ Step
  /\ ~field => UNCHANGED cardVars /\ outcome' = "transport"
  /\ wrong' = IF outcome' = "auth" THEN wrong + 1 ELSE wrong
  /\ UNCHANGED <<dev, service, call, stage, result, missed>>

map_ntag_error ==
  CASE outcome = "delay" -> "AuthDelay"
    [] outcome \in {"auth", "refused"} -> "AuthFailed"
    [] OTHER -> "Error"

LibReturns ==
  /\ stage = "lib" /\ pc = "idle" /\ CardRead /\ UNCHANGED <<wrong, missed>>
  /\ ours' = (outcome = "ok" /\ cmd = "burn")
  /\ IF outcome # "ok" THEN Finish(map_ntag_error, service)
     ELSE IF cmd = "burn" THEN Finish("Success", [service EXCEPT !.keys = Given])
     ELSE Finish("Success", [service EXCEPT !.keys = None, !.last = "Blank"])

------------------------------------------------------------------------------
(* inspect, check: the versions of all keys, under whichever K0 opens.       *)

(* Mutant: only the slot that the issuer match looks at is read.             *)
AssessmentOfSlot1(reads) ==
  CASE reads[1] = 0 -> "Blank"
    [] reads[1] # 0 /\ service.config.issuer # None /\ reads[1] = 1 -> "Provisioned"
    [] OTHER -> "Foreign"

Assessment(reads) ==
  CASE \A i \in Slots : reads[i] = 0 -> "Blank"
    [] (\E i \in Slots : reads[i] # 0) /\ service.config.issuer # None /\ reads[1] = 1
         -> "Provisioned"
    [] OTHER -> "Foreign"

Inspected ==
  LET state == Assessment(version) IN
  Finish(IF cmd = "inspect" \/ state = "Blank" THEN "Success" ELSE "Error",
         [service EXCEPT !.last = state])

InspectStart ==
  /\ stage = "start" /\ cmd \in {"inspect", "check"} /\ Same
  /\ CardRead /\ UNCHANGED <<wrong, missed>>
  /\ To(IF service.keys # None THEN "inspectKeys" ELSE "inspectFactory", service)

(* A card that is gone, or refuses the key, is tried with the factory key.   *)
InspectKeys ==
  /\ stage = "inspectKeys" /\ Same
  /\ \/ Activate(FALSE, To("inspectFactory", Unseen))
     \/ EspAuthenticate(service.keys, Inspected, Finish("AuthDelay", service),
                        To("inspectFactory", service), Finish("Error", service))

InspectFactory ==
  /\ stage = "inspectFactory" /\ Same
  /\ \/ Activate(FALSE, Finish("CardNotPresent", Unseen))
     \/ EspAuthenticate(Factory, Inspected, Finish("AuthDelay", service),
                        Finish("AuthFailed", service), Finish("Error", service))

------------------------------------------------------------------------------
(* diagnose and picc of the console: unauthenticated reads, each of which    *)
(* may fail; diagnose tries the factory key on what looks like a new card.   *)

Seen(state) == [service EXCEPT !.last = state]

Diagnose ==
  /\ stage = "start" /\ cmd = "diagnose" /\ Same
  /\ Activate(\/ Finish("Error", service)
              \/ \E settings, ndef \in BOOLEAN :
                   IF settings /\ LooksFactory THEN To("diagFactory", service)
                   ELSE Finish("Success", Seen(IF settings \/ ndef THEN "Provisioned"
                                                                  ELSE "Unknown")),
              Finish("CardNotPresent", Unseen))

DiagnoseFactory ==
  /\ stage = "diagFactory" /\ Same
  /\ EspAuthenticate(Factory, Finish("Success", Seen("Blank")),
                     Finish("Success", Seen("Unknown")), Finish("Success", Seen("Unknown")),
                     Finish("Success", Seen("Unknown")))

(* The p/c pair of the file verifies under the keys the service holds.       *)
KeysConfirmed ==
  /\ service.keys # None /\ sdm # Factory
  /\ \A i \in {1, 2} : i \in Slots => keys[i] = service.keys

Picc ==
  /\ stage = "start" /\ cmd = "picc" /\ Same
  /\ Activate(\/ Finish("Error", service)
              \/ Finish("Success", Seen("Unknown"))
              \/ KeysConfirmed /\ Finish("Success", Seen("Provisioned")),
              Finish("CardNotPresent", Unseen))

------------------------------------------------------------------------------
(* poll_card, between commands: never authenticates.                         *)

Polled(s, a) ==
  /\ service' = s /\ announced' = a
  /\ UNCHANGED <<hostVars, config, nvs, field, call, stage, result>>

(* An announced card is only checked for presence; a new one is classified   *)
(* by its file settings.                                                     *)
Poll ==
  /\ stage = "idle" /\ Same
  /\ CardReset /\ UNCHANGED <<wrong, missed>>
  /\ \/ Polled(Unseen, FALSE)
     \/ field /\ announced /\ Polled(service, TRUE)
     \/ field /\ ~announced
        /\ \/ Polled(service, FALSE)
           \/ Polled(Seen("Unknown"), TRUE)
           \/ Polled(Seen(IF sdm # Factory THEN "Provisioned" ELSE "Blank"), TRUE)

------------------------------------------------------------------------------
(* The card comes and goes; the device reboots, in the middle of a command   *)
(* as well.                                                                  *)

PlaceCard ==
  /\ ~field /\ field' = TRUE
  /\ UNCHANGED <<cardVars, hostVars, config, service, nvs, announced,
                 call, stage, result, wrong, missed>>

TakeCard ==
  /\ field /\ field' = FALSE /\ CardReset
  /\ UNCHANGED <<hostVars, config, service, nvs, announced,
                 call, stage, result, wrong, missed>>

Reboot ==
  /\ Booted
  /\ CardRead /\ IF pc = "idle" THEN UNCHANGED hostVars ELSE End("transport")
  /\ announced' = FALSE /\ stage' = "idle" /\ cmd' = "none" /\ via' = "none"
  /\ result' = "none" /\ wrong' = 0 /\ missed' = FALSE /\ ours' = FALSE
  /\ UNCHANGED <<nvs, field>>

------------------------------------------------------------------------------
EspStep ==
  \/ BurnStart \/ BurnProbeFactory \/ BurnProbeGiven \/ EspBurn
  \/ WipeStart \/ WipeGuard \/ EspWipe \/ LibStep \/ LibReturns
  \/ InspectStart \/ InspectKeys \/ InspectFactory
  \/ Diagnose \/ DiagnoseFactory \/ Picc

EspNext ==
  \/ SetIssuer \/ SetKeys \/ SetUrl \/ Status \/ SetForce
  \/ Command \/ LegacyButton \/ SmartButton \/ EspStep \/ Poll
  \/ PlaceCard \/ TakeCard \/ Reboot

EspSpec == EspInit /\ [][EspNext]_espVars
------------------------------------------------------------------------------
(* Properties                                                                *)

(* Whatever the device's callers do and however the card comes and goes, the *)
(* library is driven as CardOps allows: what is proved of CardOps holds on   *)
(* the device.                                                               *)
DrivesCardOps == Spec

(* `check` goes by version bytes only.  When it reports a blank card, every  *)
(* slot really holds the factory key, after any history of burns and wipes   *)
(* cut short and of reboots.                                                 *)
CheckTellsBlank ==
  stage = "idle" /\ cmd = "check" /\ result = "Success" => AllSlots(Factory)

EspBudget == [none |-> 0, burn |-> 2, wipe |-> 1, inspect |-> 2, check |-> 2,
              diagnose |-> 1, picc |-> 0]

(* No command offers the card more wrong keys than this, whatever is lost or *)
(* delayed: the probes of burn are not repeated, and its library             *)
(* authentication only ever uses the key that a probe found right.           *)
EspWrongKeyBudget == wrong <= EspBudget[cmd]

(* After a burn by this device, `inspect` and `check` open the card with the *)
(* right key at once, whatever is staged in between (sync_config keeps the   *)
(* keys of the card) - unless the card was missed on the way, when the       *)
(* factory key is tried on it.                                               *)
InspectAfterBurnIsFree ==
  ours /\ ~missed /\ cmd \in {"inspect", "check"} => wrong = 0

(* firmware.rs: "[OK] safety checks enabled (force=off)" and "safety checks  *)
(* DISABLED (force=on)".  The guard of a wipe would then go by the flag the  *)
(* operator set last.                                                        *)
ForceIsObeyed == stage = "wipeGuard" => service.config.force = config.force
=============================================================================
