------------------------------- MODULE Nucula --------------------------------
(***************************************************************************)
(* apps/bolty-esp32/src/firmware_nucula.rs: the console of the PN7160      *)
(* board - poll, uid, inspect, wifi and ip - its stored Wi-Fi credentials  *)
(* and the OTA server it opens once it has an address.  Power may be cut   *)
(* between any two steps, the card may be swapped and the access point may *)
(* go away.                                                                *)
(*                                                                         *)
(* External: the Wi-Fi stack and NVS.  A station associates only with the  *)
(* password of its network; each blob that is set is committed.  A card    *)
(* that mirrors serves a new mirror in every activation.                   *)
(***************************************************************************)
EXTENDS Frontends

CONSTANTS
  Nets,        \* the networks; each one's password is named after it
  NoBlob,      \* a credential that is not stored
  Mirror       \* what the NDEF file of each card mirrors: off, static or live

ASSUME NuculaAssumption ==
  /\ NoBlob \notin Nets
  /\ Mirror \in [Cards -> {"off", "static", "live"}]

VARIABLES
  reader,      \* the initialized reader, or missing
  tick,        \* the parity of the activations
  inspect,     \* the inspect running, or the last one
  evidence,    \* history: note_serve_evidence was called in this boot
  activated,   \* history: some card was activated in this boot
  manager,     \* the Wi-Fi manager is there
  creds,       \* the credential store is open
  blobs,       \* NVS: the two blobs of the credentials
  station,     \* the network the station is associated with
  job,         \* the `wifi` command, or the autoconnect, in progress
  spawned,     \* ota_spawned
  servers,     \* history: ota_server::spawn calls in this boot
  torn         \* history: the last save ended between its two blobs

nfc      == <<front, reader, tick, inspect, evidence, activated>>
network  == <<manager, creds, blobs, station, job, spawned, servers, torn>>
nucula   == <<nfc, network>>

Blobs == Nets \cup {NoBlob}
NoInspect == [at |-> "idle", sdm |-> "off", first |-> NoCard, tick |-> 0,
              second |-> NoCard, label |-> "none"]
NoJoin == [at |-> "idle", ssid |-> NoBlob, pass |-> NoBlob]

NuculaTypeOK ==
  /\ FrontTypeOK
  /\ reader \in {"missing", "up"} /\ tick \in 0..1
  /\ inspect \in [at : {"idle", "first", "again", "second"},
                  sdm : {"off", "static", "live", "unknown"},
                  first : Maybe, tick : 0..1, second : Maybe,
                  label : {"none", "off", "static", "live", "unknown"}]
  /\ {evidence, activated, manager, creds, spawned, torn} \subseteq BOOLEAN
  /\ blobs \in [ssid : Blobs, pass : Blobs] /\ station \in Blobs
  /\ job \in [at : {"idle", "connect", "ssid", "pass", "report"}, ssid : Blobs, pass : Blobs]
  /\ servers \in 0..2

(* The console runs one command after the other.                             *)
Prompt == inspect.at = "idle" /\ job.at = "idle"

------------------------------------------------------------------------------
(* The reader.                                                               *)

(* power_on on the kept reader.                                              *)
Activation(works) ==
  /\ PowerOn(works)
  /\ tick' = IF dev'.target THEN 1 - tick ELSE tick
  /\ activated' = (activated \/ dev'.target)

(* `poll`                                                                    *)
Poll ==
  /\ Prompt /\ reader = "up"
  /\ \E works \in BOOLEAN : Activation(works)
  /\ evidence' = (evidence \/ dev'.target)
  /\ UNCHANGED <<reader, inspect, network>>

(* `uid` and the beginning of `inspect`: a session that is active is used as *)
(* it is.                                                                    *)
WithSession ==
  \/ dev.target /\ UNCHANGED <<front, tick, activated>>
  \/ ~dev.target /\ \E works \in BOOLEAN : Activation(works)

Uid ==
  /\ Prompt /\ reader = "up" /\ WithSession
  /\ evidence' = (evidence \/ dev'.target)
  /\ UNCHANGED <<reader, inspect, network>>

Inspect ==
  /\ Prompt /\ reader = "up" /\ WithSession
  /\ inspect' = IF dev'.target THEN [NoInspect EXCEPT !.at = "first"] ELSE NoInspect
  /\ UNCHANGED <<reader, evidence, network>>

(* safe_inspect without keys: the settings and the file, each if it can be   *)
(* read, and the file once more when it mirrors - in the same activation, so *)
(* with the same content.                                                    *)
Mirroring(settings, ndef, again) ==
  CASE ~settings -> "unknown"
    [] settings /\ Mirror[link] = "off" -> "off"
    [] settings /\ Mirror[link] # "off" -> IF ndef /\ again THEN "static" ELSE "unknown"

InspectFirst ==
  /\ inspect.at = "first"
  /\ \/ Exchanged(FALSE) /\ inspect' = NoInspect
     \/ /\ Exchanged(TRUE)
        /\ \E settings, ndef, again \in BOOLEAN :
             inspect' = [NoInspect EXCEPT !.at = "again", !.tick = tick,
                           !.sdm = Mirroring(settings, ndef, again),
                           !.first = IF ndef THEN link ELSE NoCard]
  /\ UNCHANGED <<reader, tick, activated, evidence, network>>

(* Mutant: the second read is made without a new activation.                 *)
InspectSameActivation ==
  /\ inspect.at = "again"
  /\ inspect' = [inspect EXCEPT !.at = "second"]
  /\ UNCHANGED <<front, reader, tick, activated, evidence, network>>

(* A new activation; if it fails there is no second read.                    *)
InspectAgain ==
  /\ inspect.at = "again"
  /\ \E works \in BOOLEAN : Activation(works)
  /\ inspect' = [inspect EXCEPT !.at = "second"]
  /\ UNCHANGED <<reader, evidence, network>>

(* The two files differ: other cards, or a new mirror.                       *)
Differ(first, second) ==
  second # first \/ (Mirror[first] = "live" /\ tick # inspect.tick)

(* Without a second file the label is the one of the first activation.       *)
Label(second) ==
  IF inspect.sdm \in {"off", "unknown"} \/ NoCard \in {inspect.first, second}
    THEN inspect.sdm
    ELSE IF Differ(inspect.first, second) THEN "live" ELSE "static"

(* The label is printed, and the command is evidence.                        *)
InspectSecond ==
  /\ inspect.at = "second"
  /\ \E ok, ndef \in BOOLEAN :
       /\ Exchanged(ok) /\ (ndef => ok)
       /\ LET second == IF ndef THEN link ELSE NoCard
          IN  inspect' = [inspect EXCEPT !.at = "idle", !.second = second,
                                         !.label = Label(second)]
  /\ evidence' = TRUE
  /\ UNCHANGED <<reader, tick, activated, network>>

------------------------------------------------------------------------------
(* The network.                                                              *)

(* report: with an address, the OTA server is started, once.  (Without an    *)
(* association the stack may still have an address to report.)               *)
Report ==
  \/ /\ manager
     /\ spawned' = TRUE
     /\ servers' = IF spawned THEN servers ELSE servers + 1
  \/ ~(manager /\ station # NoBlob) /\ UNCHANGED <<spawned, servers>>

(* `ip`                                                                      *)
Ip ==
  /\ Prompt /\ Report
  /\ UNCHANGED <<nfc, manager, creds, blobs, station, job, torn>>

(* `wifi <ssid> <password>`; without a manager it fails at once.             *)
Wifi ==
  /\ Prompt /\ manager
  /\ \E s, p \in Nets : job' = [at |-> "connect", ssid |-> s, pass |-> p]
  /\ UNCHANGED <<nfc, manager, creds, blobs, station, spawned, servers, torn>>

(* Mutant: the credentials are saved whatever the outcome.                   *)
ConnectAndSave ==
  /\ job.at = "connect"
  /\ station' = IF job.ssid = job.pass THEN job.ssid ELSE NoBlob
  /\ job' = [job EXCEPT !.at = "ssid"]
  /\ UNCHANGED <<nfc, manager, creds, blobs, spawned, servers, torn>>

(* WifiManager::connect: the old association goes first.  It may fail before *)
(* that, on the way, or after the new association (the mDNS responder).      *)
Connect ==
  /\ job.at = "connect"
  /\ \/ /\ job.ssid = job.pass /\ station' = job.ssid
        /\ job' \in {[job EXCEPT !.at = "ssid"], NoJoin}
     \/ station' \in {station, NoBlob} /\ job' = NoJoin
  /\ UNCHANGED <<nfc, manager, creds, blobs, spawned, servers, torn>>

(* save_wifi_creds: two blobs, one after the other.  A failure is reported,  *)
(* and the report follows all the same.                                      *)
Save ==
  /\ job.at \in {"ssid", "pass"}
  /\ \/ /\ creds /\ torn' = (torn /\ job.at = "ssid")
        /\ blobs' = IF job.at = "ssid" THEN [blobs EXCEPT !.ssid = job.ssid]
                                       ELSE [ssid |-> blobs.ssid, pass |-> job.pass]
        /\ job' = [job EXCEPT !.at = IF job.at = "ssid" THEN "pass" ELSE "report"]
     \/ /\ job' = [job EXCEPT !.at = "report"] /\ UNCHANGED blobs
        /\ torn' = (torn \/ job.at = "pass")
  /\ UNCHANGED <<nfc, manager, creds, station, spawned, servers>>

Reported ==
  /\ job.at = "report" /\ Report /\ job' = NoJoin
  /\ UNCHANGED <<nfc, manager, creds, blobs, station, torn>>

(* The access point goes away.                                               *)
StationDrops ==
  /\ station # NoBlob /\ station' = NoBlob
  /\ UNCHANGED <<nfc, manager, creds, blobs, job, spawned, servers, torn>>

------------------------------------------------------------------------------
(* Network::new, or degraded when there is no partition: the manager and the *)
(* store are each there or not.                                              *)
NetworkNew(m, c) ==
  manager' = m /\ creds' = c /\ station' = NoBlob /\ spawned' = FALSE /\ servers' = 0

(* decode_creds_pair: a missing blob makes the pair absent.                  *)
DecodeCredsPair(b) == NoBlob \notin {b.ssid, b.pass}

(* autoconnect: the stored pair, if there is one, is tried once.             *)
Autoconnect(b, m, c) ==
  job' = IF m /\ c /\ DecodeCredsPair(b)
           THEN [at |-> "connect", ssid |-> b.ssid, pass |-> b.pass] ELSE NoJoin

(* main: the reader is kept if the chip came up, with a card or without.     *)
Booted(b, m, c, r) ==
  /\ NetworkNew(m, c) /\ Autoconnect(b, m, c) /\ reader' = r
  /\ inspect' = NoInspect /\ evidence' = FALSE /\ tick' = tick
  /\ chip' = chip /\ field' = field /\ ladder' = ladder /\ answered' = NoCard
  /\ LET found == r = "up" /\ field # NoCard IN
     \E works \in BOOLEAN :
       /\ dev' = [initialized |-> r = "up", target |-> found /\ works]
       /\ link' = IF dev'.target THEN field ELSE NoCard
       /\ uid' = link' /\ activated' = dev'.target

(* Power is cut, at any point.                                               *)
PowerCut ==
  /\ \E m, c \in BOOLEAN, r \in {"missing", "up"} : Booted(blobs, m, c, r)
  /\ torn' = (torn \/ job.at = "pass")
  /\ UNCHANGED blobs

NuculaInit ==
  /\ FrontInit
  /\ reader = "missing" /\ tick = 0 /\ inspect = NoInspect
  /\ evidence = FALSE /\ activated = FALSE
  /\ manager = FALSE /\ creds = FALSE /\ station = NoBlob /\ job = NoJoin
  /\ blobs = [ssid |-> NoBlob, pass |-> NoBlob]
  /\ spawned = FALSE /\ servers = 0 /\ torn = FALSE

CardSwapped == CardMoves /\ UNCHANGED <<reader, tick, inspect, evidence, activated, network>>

(* The reader's commands and the network's share nothing but the prompt.     *)
NfcNext ==
  Poll \/ Uid \/ Inspect \/ InspectFirst \/ InspectAgain \/ InspectSecond \/ CardSwapped

NetworkNext == Ip \/ Wifi \/ Connect \/ Save \/ Reported \/ StationDrops

NuculaNext == NfcNext \/ NetworkNext \/ PowerCut

NuculaSpec == NuculaInit /\ chip = "pn7160" /\ [][NuculaNext]_nucula
------------------------------------------------------------------------------
(* Properties                                                                *)

(* The credentials that autoconnect finds are a pair that did associate,     *)
(* through any number of `wifi` commands, wrong passwords and power cuts,    *)
(* unless the last save was stopped between its two blobs: then halves of    *)
(* two pairs may be mixed, which decode_creds_pair cannot tell.              *)
StoredPairAssociates ==
  ~torn /\ job.at # "pass" /\ NoBlob \notin {blobs.ssid, blobs.pass}
    => blobs.ssid = blobs.pass

(* The recovery door: no sequence of `wifi` and `ip` commands, failed saves  *)
(* and lost associations starts a second OTA server in one boot.             *)
OneOtaServer == servers = IF spawned THEN 1 ELSE 0

(* "Evidence on this frontend = a successful card op over the console,       *)
(* never boot itself": an image is marked valid only if a card was activated *)
(* since it booted.                                                          *)
EvidenceIsACard == evidence => activated

(* inspect compares a file with the one served after a new activation.  It   *)
(* says "live" of a card that does not mirror only if another card was read  *)
(* the second time, and "static" of one that does only if there was no       *)
(* second file.                                                              *)
LabelIsHonest ==
  LET c == inspect.first IN
  inspect.at = "idle" /\ c # NoCard =>
    /\ inspect.label = "live" /\ inspect.second = c => Mirror[c] = "live"
    /\ inspect.label = "static" /\ inspect.second # NoCard => Mirror[c] # "live"
    /\ inspect.label = "off" => Mirror[c] = "off"

(* The way back over the network: what autoconnect finds is a pair that did  *)
(* associate, and there is one OTA server once there is one.                 *)
RecoveryDoor == StoredPairAssociates /\ OneOtaServer

(* What the board says of cards is true: the label of inspect, and the       *)
(* evidence an image is accepted by.                                         *)
CardReportsAreTrue == LabelIsHonest /\ EvidenceIsACard
=============================================================================
