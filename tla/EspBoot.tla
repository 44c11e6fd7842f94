------------------------------- MODULE EspBoot -------------------------------
(***************************************************************************)
(* What bolty-esp32 keeps in NVS over its boots: the boot counter and the  *)
(* record of the last crash, written while booting (firmware.rs), the      *)
(* LNURL and the force flag, written by the console (nvs.rs, service.rs).  *)
(* A reset may come at any point.                                          *)
(*                                                                         *)
(* A URL stands for its length.  External: NVS.  A value that was set is   *)
(* in flash and survives a reset; a write may fail and leave the old one.  *)
(***************************************************************************)
EXTENDS Naturals

CONSTANTS
  MAX_LNURL_LEN,   \* longest URL that a configuration holds
  MaxBoots         \* bound: resets

ASSUME BootAssumption == MAX_LNURL_LEN \in Nat \ {0} /\ MaxBoots \in Nat \ {0}

VARIABLES
  nvs,        \* bootcnt; crashrsn and crashboot; lnurl; force
  config,     \* lnurl and force_unsafe in RAM; the number of this boot
  booting,    \* how far main has come
  cause,      \* esp_reset_reason of this boot
  crash,      \* history: the last abnormal reset, and the boot it ended
  spoiled,    \* history: the record of that crash could not be written as it should
  unsaved,    \* history: which settings' last write to NVS failed
  cuts        \* resets so far

bootVars == <<nvs, config, booting, cause, crash, spoiled, unsaved, cuts>>

Abnormal == {"panic", "brownout"}
Causes   == Abnormal \cup {"poweron", "restart"}
None     == "none"
NoUrl    == 0
NoCrash  == [reason |-> None, boot |-> 0]

BootTypeOK ==
  /\ nvs \in [bootcnt : 0..MaxBoots + 1, reason : Abnormal \cup {None},
              boot : 0..MaxBoots + 1, url : 0..MAX_LNURL_LEN, force : BOOLEAN]
  /\ config \in [url : 0..MAX_LNURL_LEN, force : BOOLEAN, boot : 0..MaxBoots + 1]
  /\ booting \in {"load", "count", "reason", "boot", "ready"} /\ cause \in Causes
  /\ crash \in [reason : Abnormal \cup {None}, boot : 0..MaxBoots + 1]
  /\ spoiled \in BOOLEAN /\ unsaved \subseteq {"url", "force"} /\ cuts \in 0..MaxBoots

BootInit ==
  /\ nvs = [bootcnt |-> 0, reason |-> None, boot |-> 0, url |-> NoUrl, force |-> FALSE]
  /\ config = [url |-> NoUrl, force |-> FALSE, boot |-> 0]
  /\ booting = "load" /\ cause = "poweron"
  /\ crash = NoCrash /\ spoiled = FALSE /\ unsaved = {} /\ cuts = 0

------------------------------------------------------------------------------
(* Booting                                                                   *)

(* load_lnurl: none, if what is stored is too long for a configuration.      *)
LoadLnurl == IF nvs.url > MAX_LNURL_LEN THEN NoUrl ELSE nvs.url

LoadForceFlag == nvs.force

(* The configuration of this boot; the service saves the URL it is given,    *)
(* which is the stored one.                                                  *)
LoadConfig ==
  /\ booting = "load" /\ booting' = "count"
  /\ config' = [url |-> LoadLnurl, force |-> LoadForceFlag, boot |-> 0]
  /\ unsaved' = {}
  /\ UNCHANGED <<nvs, cause, crash, spoiled, cuts>>

(* The boot is counted.  Only an abnormal reset has more to write.           *)
CountBoot ==
  /\ booting = "count" /\ booting' = IF cause \in Abnormal THEN "reason" ELSE "ready"
  /\ config' = [config EXCEPT !.boot = nvs.bootcnt + 1]
  /\ nvs' = [nvs EXCEPT !.bootcnt = @ + 1] \/ UNCHANGED nvs
  /\ UNCHANGED <<cause, crash, spoiled, unsaved, cuts>>

(* save_crash_info: the reason, then the boot that it ended; the second is   *)
(* written even if the first could not be.                                   *)
SaveCrashReason ==
  /\ booting = "reason" /\ booting' = "boot"
  /\ \/ nvs' = [nvs EXCEPT !.reason = cause] /\ UNCHANGED spoiled
     \/ UNCHANGED nvs /\ spoiled' = TRUE
  /\ UNCHANGED <<config, cause, crash, unsaved, cuts>>

(* Mutant: the crash is put down to the boot that records it.                *)
SaveCrashBootThis ==
  /\ booting = "boot" /\ booting' = "ready"
  /\ nvs' = [nvs EXCEPT !.boot = config.boot]
  /\ UNCHANGED <<config, cause, crash, spoiled, unsaved, cuts>>

SaveCrashBoot ==
  /\ booting = "boot" /\ booting' = "ready"
  /\ \/ nvs' = [nvs EXCEPT !.boot = config.boot - 1] /\ UNCHANGED spoiled
     \/ UNCHANGED nvs /\ spoiled' = TRUE
  /\ UNCHANGED <<config, cause, crash, unsaved, cuts>>

(* A reset: power, the watchdogs or a panic, esp_restart (fatal_halt, ota).  *)
(* History: a boot that ends before it was counted has no number to record,  *)
(* a crash still to be recorded is lost, and a crash of a counted boot       *)
(* starts afresh.                                                            *)
ResetBy(c) ==
  /\ cuts < MaxBoots /\ cuts' = cuts + 1
  /\ booting' = "load" /\ cause' = c
  /\ crash' = IF c \in Abnormal THEN [reason |-> c, boot |-> config.boot] ELSE crash
  /\ spoiled' = IF booting \in {"load", "count"} \/ nvs.bootcnt # config.boot
                  THEN spoiled \/ c \in Abnormal \/ cause \in Abnormal
                ELSE IF c \in Abnormal THEN FALSE
                ELSE spoiled \/ booting # "ready"
  /\ config' = [url |-> NoUrl, force |-> FALSE, boot |-> 0]
  /\ UNCHANGED <<nvs, unsaved>>

------------------------------------------------------------------------------
(* The console                                                               *)

Attempt(name, saved) ==
  \/ nvs' = saved /\ unsaved' = unsaved \ {name}
  \/ UNCHANGED nvs /\ unsaved' = unsaved \cup {name}

(* save_lnurl, whose result nobody looks at.                                 *)
SaveLnurl(url) ==
  IF url >= MAX_LNURL_LEN THEN UNCHANGED <<nvs, unsaved>>
  ELSE Attempt("url", [nvs EXCEPT !.url = url])

(* `url`, in the dispatcher, and sync_from.                                  *)
SetUrl(url) ==
  /\ booting = "ready"
  /\ config' = [config EXCEPT !.url = url] /\ SaveLnurl(url)
  /\ UNCHANGED <<booting, cause, crash, spoiled, cuts>>

(* Any other dispatched command: sync_from saves the URL again.              *)
SyncFrom ==
  /\ booting = "ready"
  /\ IF config.url = NoUrl THEN UNCHANGED <<nvs, unsaved>> ELSE SaveLnurl(config.url)
  /\ UNCHANGED <<config, booting, cause, crash, spoiled, cuts>>

(* save_force_flag, which does not say whether it succeeded.                 *)
SaveForceFlag(on) == Attempt("force", [nvs EXCEPT !.force = on])

(* force on, force off.                                                      *)
SetForce(on) ==
  /\ booting = "ready"
  /\ config' = [config EXCEPT !.force = on]
  /\ SaveForceFlag(on)
  /\ UNCHANGED <<booting, cause, crash, spoiled, cuts>>

BootNext ==
  \/ LoadConfig \/ CountBoot \/ SaveCrashReason \/ SaveCrashBoot \/ SyncFrom
  \/ \E c \in Causes : ResetBy(c)
  \/ \E url \in 1..MAX_LNURL_LEN : SetUrl(url)
  \/ \E on \in BOOLEAN : SetForce(on)

BootSpec == BootInit /\ [][BootNext]_bootVars

------------------------------------------------------------------------------
(* Properties                                                                *)

(* load_crash_info: what crashlog tells.                                     *)
Crashlog == [reason |-> nvs.reason, boot |-> nvs.boot]

(* crashlog names the last abnormal reset and the boot that it ended, unless *)
(* that boot died before it was counted, NVS failed, or another reset came   *)
(* before the crash was recorded.                                            *)
CrashlogIsTrue == booting = "ready" /\ ~spoiled => Crashlog = crash

(* A setting that was accepted is the one that the next boot loads, unless   *)
(* NVS failed to store it.  The exception is a URL of the full length: the   *)
(* configuration holds it, save_lnurl does not store it, and the next boot   *)
(* loads the one before it.                                                  *)
SettingsSurvive ==
  booting = "ready" =>
    /\ config.url = nvs.url \/ config.url = MAX_LNURL_LEN \/ "url" \in unsaved
    /\ config.force = nvs.force \/ "force" \in unsaved

(* What a boot finds in NVS is what the boots before it left: settings and   *)
(* the record of the last crash.                                             *)
BootRemembers == SettingsSurvive /\ CrashlogIsTrue
=============================================================================
