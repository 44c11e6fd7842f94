----------------------------- MODULE EspNetwork -----------------------------
(***************************************************************************)
(* bolty-esp32 on the network: provision-cert (cert_gen.rs and the pair in *)
(* NVS), provision-ota-key, and the Wi-Fi station, the HTTPS server that   *)
(* wifi starts over that pair (tls.rs, rest.rs) and its mDNS advertisement *)
(* (wifi.rs).  Provisioning takes several steps, and power may fail at any *)
(* of them.                                                                *)
(*                                                                         *)
(* A certificate and its private key carry the number of the provisioning  *)
(* that made them.  External: NVS, where a blob that was set survives a    *)
(* reset, and mbedTLS, ESP-IDF's Wi-Fi, mDNS and HTTP server, any call of  *)
(* which may fail.                                                         *)
(***************************************************************************)
EXTENDS Naturals

CONSTANT MaxProvisions   \* bound: certificates made

ASSUME NetworkAssumption == MaxProvisions \in Nat \ {0}

VARIABLES
  blobs,      \* NVS: certder, keyder, otakey; 0 for none
  job,        \* the step of provision-cert to come, "idle" between commands
  contexts,   \* mbedTLS contexts initialised and not freed
  made,       \* certificates made so far
  stored,     \* what nvs_set_blob said of the certificate: rc_cert
  station,    \* the Wi-Fi driver: "stopped", "started" or "joined"
  mdns,       \* "off", "host", or "http" once the service is advertised
  server,     \* rest_server: the pair it serves, or NoServer
  acked,      \* history: the pair and the key last answered with [OK], 0 since a new attempt
  torn        \* history: the pair in NVS is of a save that did not complete

provision == <<blobs, job, contexts, made, stored, acked, torn>>
wifi      == <<station, mdns, server>>
netVars   == <<provision, wifi>>

Numbers  == 0..MaxProvisions
NoServer == [cert |-> 0, key |-> 0, torn |-> FALSE]
Jobs     == {"idle", "seed", "key", "crt", "der", "setcert", "setkey", "commit", "hash"}

NetTypeOK ==
  /\ blobs \in [cert : Numbers, key : Numbers, ota : Numbers] /\ job \in Jobs
  /\ contexts \subseteq {"entropy", "drbg", "pk", "crt"}
  /\ made \in Numbers /\ stored \in BOOLEAN
  /\ station \in {"stopped", "started", "joined"} /\ mdns \in {"off", "host", "http"}
  /\ server \in [cert : Numbers, key : Numbers, torn : BOOLEAN]
  /\ acked \in [pair : Numbers, ota : Numbers] /\ torn \in BOOLEAN

NetInit ==
  /\ blobs = [cert |-> 0, key |-> 0, ota |-> 0] /\ acked = [pair |-> 0, ota |-> 0]
  /\ job = "idle" /\ contexts = {} /\ made = 0 /\ stored = FALSE /\ torn = FALSE
  /\ station = "stopped" /\ mdns = "off" /\ server = NoServer

------------------------------------------------------------------------------
(* generate_self_signed_cert                                                 *)

(* An error path frees every context, and provision-cert fails.              *)
Freed == job' = "idle" /\ contexts' = {}

ProvisionCert ==
  /\ job = "idle" /\ made < MaxProvisions
  /\ job' = "seed" /\ contexts' = {"entropy", "drbg"} /\ made' = made + 1
  /\ UNCHANGED <<blobs, stored, acked, torn, wifi>>

(* mbedtls_ctr_drbg_seed, and the initialisation of the key's context.       *)
Seed ==
  /\ job = "seed"
  /\ Freed \/ (job' = "key" /\ contexts' = contexts \cup {"pk"})
  /\ UNCHANGED <<blobs, made, stored, acked, torn, wifi>>

(* pk_info_from_type, pk_setup, rsa_gen_key; the certificate's context.      *)
GenerateKey ==
  /\ job = "key"
  /\ Freed \/ (job' = "crt" /\ contexts' = contexts \cup {"crt"})
  /\ UNCHANGED <<blobs, made, stored, acked, torn, wifi>>

(* Serial, validity, names, key identifiers and basic constraints.           *)
AssembleCrt ==
  /\ job = "crt"
  /\ Freed \/ (job' = "der" /\ UNCHANGED contexts)
  /\ UNCHANGED <<blobs, made, stored, acked, torn, wifi>>

(* Both to DER, and the contexts are freed.  The old pair is about to go.    *)
WriteDer ==
  /\ job = "der" /\ contexts' = {}
  /\ job' \in {"idle", "setcert"}
  /\ UNCHANGED <<blobs, made, stored, acked, torn, wifi>>

------------------------------------------------------------------------------
(* save_cert_der                                                             *)

(* nvs_open may fail; otherwise the certificate is set, or is not.           *)
SetCert ==
  /\ job = "setcert" /\ acked' = [acked EXCEPT !.pair = 0]
  /\ \/ job' = "idle" /\ UNCHANGED <<blobs, stored, torn>>
     \/ /\ job' = "setkey" /\ stored' \in BOOLEAN /\ torn' = TRUE
        /\ blobs' = [blobs EXCEPT !.cert = IF stored' THEN made ELSE @]
  /\ UNCHANGED <<contexts, made, wifi>>

(* Mutant: the result of the certificate is forgotten.                       *)
SetKeyOnly ==
  /\ job = "setkey"
  /\ \/ job' = "commit" /\ blobs' = [blobs EXCEPT !.key = made]
     \/ job' = "idle" /\ UNCHANGED blobs
  /\ UNCHANGED <<contexts, made, stored, acked, torn, wifi>>

(* The key is set even if the certificate was not.                           *)
SetKey ==
  /\ job = "setkey"
  /\ \/ job' = (IF stored THEN "commit" ELSE "idle") /\ blobs' = [blobs EXCEPT !.key = made]
     \/ job' = "idle" /\ UNCHANGED blobs
  /\ UNCHANGED <<contexts, made, stored, acked, torn, wifi>>

Commit ==
  /\ job = "commit" /\ torn' = FALSE
  /\ job' \in {"idle", "hash"}
  /\ UNCHANGED <<blobs, contexts, made, stored, acked, wifi>>

(* The fingerprint is shown and provision-cert answers [OK], or it fails     *)
(* with the new pair in place.                                               *)
Fingerprint ==
  /\ job = "hash" /\ job' = "idle"
  /\ acked' \in {acked, [acked EXCEPT !.pair = made]}
  /\ UNCHANGED <<blobs, contexts, made, stored, torn, wifi>>

(* run_provision_ota_key with a key that parses; save_ota_pubkey.            *)
ProvisionOtaKey(key) ==
  /\ job = "idle"
  /\ \/ blobs' = [blobs EXCEPT !.ota = key] /\ acked' = [acked EXCEPT !.ota = key]
     \/ blobs' \in {blobs, [blobs EXCEPT !.ota = key]} /\ acked' = [acked EXCEPT !.ota = 0]
  /\ UNCHANGED <<job, contexts, made, stored, torn, wifi>>

------------------------------------------------------------------------------
(* The station                                                               *)

(* The ways WifiManager.connect ends: the station, mDNS, and the result.     *)
(* mDNS goes first; then come the driver's calls, start_mdns and get_ip_info.*)
Connected ==
  {[station |-> s, mdns |-> "off", ok |-> FALSE] : s \in {"stopped", "started", "joined"}}
    \cup [station : {"joined"}, mdns : {"host"}, ok : BOOLEAN]

(* The ways WifiManager.disconnect ends: the driver leaves, then stops.      *)
Disconnected ==
  LET kept == IF station = "joined" THEN {"joined", "started"} ELSE {station}
  IN  {[station |-> "stopped", ok |-> TRUE]} \cup [station : kept, ok : {FALSE}]

(* load_pair: both blobs, of whichever provisioning they are.                *)
LoadPair == [cert |-> blobs.cert, key |-> blobs.key, torn |-> torn]

(* RestServer::start.                                                        *)
StartServer ==
  {NoServer} \cup (IF blobs.cert # 0 /\ blobs.key # 0 THEN {LoadPair} ELSE {})

(* wifi <ssid> <password>: connect; a server if there is none, without which *)
(* the command ends; the advertisement, which may fail.                      *)
SetWifi ==
  /\ job = "idle"
  /\ \E c \in Connected :
       /\ station' = c.station
       /\ server' \in IF c.ok /\ server = NoServer THEN StartServer ELSE {server}
       /\ mdns' \in IF c.ok /\ server' # NoServer THEN {"host", "http"} ELSE {c.mdns}
  /\ UNCHANGED provision

(* wifi off: the server is stopped only when the station could be.           *)
WifiOff ==
  /\ job = "idle" /\ mdns' = "off"
  /\ \E d \in Disconnected :
       station' = d.station /\ server' = IF d.ok THEN NoServer ELSE server
  /\ UNCHANGED provision

(* toggle_wifi_button: the server is left running.                           *)
ToggleWifiButton ==
  /\ job = "idle" /\ station = "joined" /\ mdns' = "off"
  /\ \E d \in Disconnected : station' = d.station
  /\ UNCHANGED <<server, provision>>

(* The access point goes; nothing in the firmware reacts.                    *)
LinkLost ==
  /\ station = "joined" /\ station' = "started"
  /\ UNCHANGED <<mdns, server, provision>>

(* A reset at any point.  The network is not brought up again by itself.     *)
PowerFails ==
  /\ job' = "idle" /\ contexts' = {} /\ stored' = FALSE
  /\ station' = "stopped" /\ mdns' = "off" /\ server' = NoServer
  /\ UNCHANGED <<blobs, made, acked, torn>>

NetNext ==
  \/ ProvisionCert \/ Seed \/ GenerateKey \/ AssembleCrt \/ WriteDer
  \/ SetCert \/ SetKey \/ Commit \/ Fingerprint
  \/ \E key \in 1..MaxProvisions : ProvisionOtaKey(key)
  \/ SetWifi \/ WifiOff \/ ToggleWifiButton \/ LinkLost \/ PowerFails

NetSpec == NetInit /\ [][NetNext]_netVars

------------------------------------------------------------------------------
(* Properties                                                                *)

(* However certificate generation ends, every mbedTLS context that it had    *)
(* set up is freed: the device can be provisioned any number of times.       *)
ContextsFreed == job \notin {"seed", "key", "crt", "der"} => contexts = {}

(* What provisioning answered with [OK] is in NVS, until a new provisioning  *)
(* gets as far as writing: the certificate with its own key, and the key     *)
(* that OTA signatures are verified with.                                    *)
AcknowledgedIsStored ==
  /\ acked.pair # 0 => blobs.cert = acked.pair /\ blobs.key = acked.pair
  /\ acked.ota # 0 => blobs.ota = acked.ota

(* The HTTPS server serves a certificate under its own private key, except   *)
(* when it was started over a pair whose save failed half way or was cut     *)
(* off by a reset.                                                           *)
ServesMatchingPair == server.cert = server.key \/ server.torn

(* bolty.local offers the REST service only while its server runs: not       *)
(* before a certificate is provisioned, after wifi off, or over a reconnect  *)
(* that failed.                                                              *)
AdvertisedIsServed == mdns = "http" => server # NoServer

(* Provisioning and serving agree: what was acknowledged is stored, what is  *)
(* served is a pair, what is advertised is served, and nothing is leaked.    *)
ProvisionedIsServed ==
  AcknowledgedIsStored /\ ServesMatchingPair /\ AdvertisedIsServed /\ ContextsFreed
=============================================================================
