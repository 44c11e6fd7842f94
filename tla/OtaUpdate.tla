----------------------------- MODULE OtaUpdate -------------------------------
(***************************************************************************)
(* Firmware update of bolty-esp32: the signed HTTP pull (ota.rs), the TCP  *)
(* push server (ota_server.rs, ota_header.rs) and the gate that marks an   *)
(* image valid once it has served (ota_validity.rs), with a reset possible *)
(* at every step.  A build has one of the two update paths.                *)
(*                                                                         *)
(* External: the boot loader with rollback enabled, and the app_update     *)
(* calls of ESP-IDF, as the comments of these files describe them.         *)
(***************************************************************************)
EXTENDS Naturals

CONSTANTS
  Chunks,        \* length of an image
  MaxUpdates,    \* bound: updates begun
  MaxResets      \* bound: resets, restarts after an update included

ASSUME OtaAssumption == Chunks \in Nat \ {0} /\ {MaxUpdates, MaxResets} \subseteq Nat

OtaSlots == {"ota_0", "ota_1"}
Slots    == OtaSlots \cup {"factory"}

VARIABLES
  build,      \* path ("http" or "tcp") and whether the push token is compiled in
  flash,      \* per slot: the image, and how many chunks of it are there
  otadata,    \* per OTA slot: state of its entry
  latest,     \* the OTA slot whose entry has the greater sequence number
  running,    \* the slot the running image was booted from
  marked,     \* the gate has run the marker in this boot
  at,         \* of the update task
  target,     \* slot being written
  upload,     \* the image being received
  size,       \* chunks the client announced
  handle,     \* an update handle of ESP-IDF is open
  proven,     \* history: the image in the slot has served
  boots,      \* history: boots of the image in the slot
  previous,   \* history: what ran when the latest image was selected
  updates, resets

task == <<at, target, upload, size, handle>>
hist == <<proven, boots, previous>>
vars == <<build, flash, otadata, latest, running, marked, task, hist, updates, resets>>

Images  == [genuine : BOOLEAN, intact : BOOLEAN, serves : BOOLEAN]
Shipped == [genuine |-> TRUE, intact |-> TRUE, serves |-> TRUE]
States  == {"none", "new", "pending", "valid", "aborted"}

OtaTypeOK ==
  /\ build \in [path : {"http", "tcp"}, armed : BOOLEAN]
  /\ flash \in [Slots -> [image : Images, n : 0..Chunks]]
  /\ otadata \in [OtaSlots -> States] /\ latest \in OtaSlots
  /\ running \in Slots /\ marked \in BOOLEAN
  /\ at \in {"idle", "stream", "verify", "select", "restart"}
  /\ target \in OtaSlots /\ upload \in Images /\ size \in 1..Chunks /\ handle \in BOOLEAN
  /\ proven \in [Slots -> BOOLEAN] /\ boots \in [Slots -> 0..MaxResets + 1]
  /\ previous \in Slots /\ updates \in 0..MaxUpdates /\ resets \in 0..MaxResets

OtaInit ==
  /\ build \in [path : {"http"}, armed : {FALSE}] \cup [path : {"tcp"}, armed : BOOLEAN]
  /\ flash = [s \in Slots |-> [image |-> Shipped, n |-> IF s = "factory" THEN Chunks ELSE 0]]
  /\ otadata = [s \in OtaSlots |-> "none"] /\ latest = "ota_0"
  /\ running = "factory" /\ marked = FALSE
  /\ at = "idle" /\ target = "ota_0" /\ upload = Shipped /\ size = Chunks /\ handle = FALSE
  /\ proven = [s \in Slots |-> s = "factory"]
  /\ boots = [s \in Slots |-> 0] /\ previous = "factory"
  /\ updates = 0 /\ resets = 0

Other(s) == CHOOSE o \in OtaSlots : o # s
Whole(s) == flash[s].n = Chunks /\ flash[s].image.intact

------------------------------------------------------------------------------
(* Boot loader and ESP-IDF                                                   *)

(* An image still pending is aborted; the selected slot is the latest whose  *)
(* entry is usable, or factory.                                              *)
Settled(od) == [s \in OtaSlots |-> IF od[s] = "pending" THEN "aborted" ELSE od[s]]
Selected(od) ==
  IF od[latest] \in {"new", "valid"} THEN latest
  ELSE IF od[Other(latest)] \in {"new", "valid"} THEN Other(latest)
  ELSE "factory"

Boot(od) ==
  LET s == Selected(Settled(od)) IN
  /\ running' = s
  /\ otadata' = [o \in OtaSlots |->
                   IF o = s /\ Settled(od)[o] = "new" THEN "pending" ELSE Settled(od)[o]]
  /\ boots' = [boots EXCEPT ![s] = @ + 1]

NextUpdatePartition == IF running = "ota_0" THEN "ota_1" ELSE "ota_0"

Pending == running \in OtaSlots /\ otadata[running] = "pending"

(* esp_ota_mark_app_valid_cancel_rollback: refused unless pending.           *)
MarkValid == otadata' = IF Pending THEN [otadata EXCEPT ![running] = "valid"] ELSE otadata

(* esp_ota_set_boot_partition                                                *)
SetBootPartition ==
  /\ otadata' = [otadata EXCEPT ![target] = "new"] /\ latest' = target
  /\ previous' = running

------------------------------------------------------------------------------
(* A reset, for whatever reason: RAM is lost; main arms the gate anew.       *)

Reset ==
  /\ resets < MaxResets /\ resets' = resets + 1
  /\ Boot(otadata) /\ marked' = FALSE
  /\ at' = "idle" /\ handle' = FALSE
  /\ UNCHANGED <<build, flash, latest, target, upload, size, proven, previous, updates>>

(* The manual rollback: otadata is erased over the serial line.              *)
EraseOtadata ==
  /\ resets < MaxResets /\ resets' = resets + 1
  /\ Boot([s \in OtaSlots |-> "none"]) /\ marked' = FALSE
  /\ at' = "idle" /\ handle' = FALSE
  /\ UNCHANGED <<build, flash, latest, target, upload, size, proven, previous, updates>>

------------------------------------------------------------------------------
(* The gate.  A card transaction or REST response succeeds, if the image is  *)
(* one that can serve, or fails.                                             *)

NoteServeEvidence ==
  IF marked THEN UNCHANGED <<marked, otadata>> ELSE marked' = TRUE /\ MarkValid

(* Mutant: evidence is noted whatever the result.                            *)
ServeAnyResult(ok) ==
  /\ ok => flash[running].image.serves
  /\ NoteServeEvidence
  /\ proven' = [proven EXCEPT ![running] = @ \/ ok]
  /\ UNCHANGED <<build, flash, latest, running, task, boots, previous, updates, resets>>

Serve(ok) ==
  /\ ok => flash[running].image.serves
  /\ IF ok THEN NoteServeEvidence ELSE UNCHANGED <<marked, otadata>>
  /\ proven' = [proven EXCEPT ![running] = @ \/ ok]
  /\ UNCHANGED <<build, flash, latest, running, task, boots, previous, updates, resets>>

------------------------------------------------------------------------------
(* The update.                                                               *)

(* authorize: the token is compared only in a build that has one.            *)
Authorize(magic, token) ==
  IF build.armed THEN magic = "OTA2" /\ token ELSE magic \in {"OTA1", "OTA2"}

(* validate_size: against the size of the partition.                         *)
ValidateSize(announced) == announced > 0 /\ announced <= Chunks

(* Up to esp_ota_begin, which erases the slot and is refused while the       *)
(* running image is pending.  A token is what a genuine sender has.          *)
Start(u, magic, announced) ==
  /\ at = "idle" /\ updates < MaxUpdates /\ ~Pending
  /\ IF build.path = "tcp"
       THEN ValidateSize(announced) /\ Authorize(magic, u.genuine) /\ size' = announced
       ELSE size' = Chunks
  /\ updates' = updates + 1 /\ at' = "stream" /\ handle' = TRUE
  /\ target' = NextUpdatePartition /\ upload' = u
  /\ flash' = [flash EXCEPT ![target'] = [image |-> u, n |-> 0]]
  /\ proven' = [proven EXCEPT ![target'] = FALSE]
  /\ boots' = [boots EXCEPT ![target'] = 0]
  /\ UNCHANGED <<build, otadata, latest, running, marked, previous, resets>>

(* Mutant: the loop runs once more than there is to read.                    *)
WriteChunkMore ==
  /\ at = "stream" /\ flash[target].n <= size
  /\ flash' = [flash EXCEPT ![target].n = @ + 1]
  /\ UNCHANGED <<build, otadata, latest, running, marked, task, hist, updates, resets>>

WriteChunk ==
  /\ at = "stream" /\ flash[target].n < size
  /\ flash' = [flash EXCEPT ![target].n = @ + 1]
  /\ UNCHANGED <<build, otadata, latest, running, marked, task, hist, updates, resets>>

Quiet == UNCHANGED <<build, flash, otadata, latest, running, marked, hist, updates, resets>>

(* A read or a write fails: the handle is aborted (http: when it is dropped).*)
Abort == at = "stream" /\ at' = "idle" /\ handle' = FALSE /\ UNCHANGED <<target, upload, size>> /\ Quiet

(* The stream ends: over HTTP wherever the connection does, but not empty.   *)
StreamEnd ==
  /\ at = "stream" /\ at' = "verify"
  /\ IF build.path = "tcp" THEN flash[target].n = size ELSE flash[target].n > 0
  /\ UNCHANGED <<target, upload, size, handle>> /\ Quiet

(* http: the signature of the hash of what was received; then, on both       *)
(* paths, esp_ota_end checks the image and closes the handle.                *)
Verify ==
  /\ at = "verify" /\ handle' = FALSE
  /\ at' = IF Whole(target) /\ (build.path = "http" => upload.genuine)
           THEN "select" ELSE "idle"
  /\ UNCHANGED <<target, upload, size>> /\ Quiet

Select ==
  /\ at = "select" /\ at' = "restart"
  /\ SetBootPartition
  /\ UNCHANGED <<build, flash, running, marked, target, upload, size, handle, proven, boots,
                 updates, resets>>

(* The task ends in esp_restart, after a pause: Reset.                       *)

OtaNext ==
  \/ Reset \/ EraseOtadata
  \/ \E ok \in BOOLEAN : Serve(ok)
  \/ \E u \in Images, m \in {"OTA1", "OTA2", "bad"}, n \in 0..Chunks + 1 :
       Start(u, m, n)
  \/ WriteChunk \/ Abort \/ StreamEnd \/ Verify \/ Select

OtaSpec == OtaInit /\ [][OtaNext]_vars
------------------------------------------------------------------------------
(* Properties                                                                *)

Trusted(s) == build.path = "http" \/ build.armed => flash[s].image.genuine

(* The running image, and the one the next reset would start, are whole and, *)
(* where the build authenticates updates, genuine: updates only ever write   *)
(* the inactive slot and select it after verification (partitions.csv: "the  *)
(* running image is never the write target").                                *)
BootsWholeImages ==
  \A s \in {running, Selected(Settled(otadata))} : Whole(s) /\ Trusted(s)

(* An image that is to be, or is being, tried can be reverted from: aborting *)
(* it starts the image that installed it, and that one has served            *)
(* (card-safety.md: the boot loader "boots the PREVIOUS slot").              *)
FallbackIsProven ==
  \A s \in OtaSlots :
    otadata[s] \in {"new", "pending"} =>
      LET back == Selected([otadata EXCEPT ![s] = "aborted"]) IN
      back = previous /\ (back = "factory" \/ proven[back])

(* An image that has not served is booted once at most (ota_validity.rs:     *)
(* "exactly ONE boot to prove itself").                                      *)
OneBootToProve == \A s \in OtaSlots : boots[s] > 1 => proven[s]

(* No path out of an update leaves its handle open: ota_server.rs, "a leaked *)
(* handle leaves the next attempt wedged until reboot".                      *)
NoLeakedHandle == handle => at \in {"stream", "verify"}

(* An update is never the end of a device: only whole images boot, one that  *)
(* does not serve is tried once and gives way to the proven one before it,   *)
(* and a failed update leaves room for the next.                             *)
UpdatesAreReversible ==
  BootsWholeImages /\ FallbackIsProven /\ OneBootToProve /\ NoLeakedHandle
=============================================================================
