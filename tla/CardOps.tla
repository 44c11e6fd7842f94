------------------------------ MODULE CardOps --------------------------------
(***************************************************************************)
(* crates/bolty-ntag: burn and wipe, and the testck command of bolty-cli,  *)
(* as sequences of command exchanges with one card.                        *)
(*                                                                         *)
(* Every exchange can fail: the command or its answer is lost, or the card *)
(* refuses it.  Each of those ends the operation (the `?` after every      *)
(* await; a failed command consumes the session), at whatever point it had *)
(* reached, and the card keeps what was done to it.  The operator may then *)
(* start any operation again.                                              *)
(***************************************************************************)
EXTENDS Ntag424Card

CONSTANT BurnVersions     \* key versions a burn may be asked for (u8)

ASSUME BurnVersionsAssumption == BurnVersions \subseteq Nat

VARIABLES
  op,        \* the operation running, or last run
  pc,        \* the next command of the operation; "idle" between operations
  target,    \* the key set being installed
  ver,       \* the version byte installed with it
  cur,       \* the key offered for the first authentication of slot 0
  old,       \* old[i]: the key sent as the old key of slot i
  k,         \* the slot of the key loop, or the page of the NDEF write
  outcome,   \* how the last operation ended
  atStart    \* history: keys when the operation started

params   == <<op, target, ver, cur, old, atStart>>
hostVars == <<op, pc, target, ver, cur, old, k, outcome, atStart>>
vars     == <<keys, version, sdm, access, nlen, body, session,
              op, pc, target, ver, cur, old, k, outcome, atStart>>

Labels == {"idle", "uid", "auth", "get", "clear", "write", "readback", "get2",
           "enable", "verify", "restore", "empty", "key", "keyver", "master",
           "reauth", "final", "before", "toTest", "isTest", "toZero", "isZero"}

Outcomes == {"none", "ok", "transport", "auth", "delay", "session", "refused",
             "mismatch", "notblank"}

TypeOK ==
  /\ CardTypeOK
  /\ op \in {"none", "burn", "wipe", "testck"}
  /\ pc \in Labels
  /\ target \in KeySets
  /\ ver \in Nat
  /\ cur \in KeySets
  /\ old \in [Slots -> KeySets]
  /\ k \in 1..(N + Chunks)
  /\ outcome \in Outcomes
  /\ atStart \in [Slots -> KeySets]

Init ==
  /\ CardInit
  /\ op = "none" /\ pc = "idle" /\ outcome = "none"
  /\ target = Factory /\ ver = 0 /\ cur = Factory
  /\ old = [i \in Slots |-> Factory]
  /\ atStart = keys
  /\ k = 1

------------------------------------------------------------------------------
(* One command exchange.                                                     *)

InSession == session = 0

Goto(label) == pc' = label /\ UNCHANGED <<params, k, outcome>>

End(result) == pc' = "idle" /\ outcome' = result /\ UNCHANGED <<params, k>>

(* `await?`: the command is accepted and answered, it is accepted and its    *)
(* answer lost, it never reaches the card, or the card refuses it.           *)
Exchange(accepts, effect, next) ==
  \/ InSession /\ accepts /\ effect /\ next
  \/ InSession /\ accepts /\ effect /\ End("transport")
  \/ CardRead /\ End("transport")
  \/ ~InSession /\ CardReset /\ End("session")
  \/ InSession /\ ~accepts /\ CardReset /\ End("refused")

(* AuthenticateEV2First of slot 0 with the key of set s: accepted, lost,     *)
(* rejected, or refused because the card still delays earlier rejections.    *)
Authenticate(s, next) ==
  \/ keys[0] = s /\ CardAuthenticate(0) /\ next
  \/ keys[0] = s /\ CardAuthenticate(0) /\ End("transport")
  \/ CardRead /\ End("transport")
  \/ keys[0] # s /\ CardReset /\ End("auth")
  \/ CardReset /\ End("delay")

(* get_selected_uid: needs no session.                                       *)
SelectUid(next) ==
  \/ CardRead /\ next
  \/ CardRead /\ End("transport")

(* A value read back is compared with what it must be.                       *)
Check(good, next) == IF good THEN Goto(next) ELSE End("mismatch")

------------------------------------------------------------------------------
(* Starting an operation.                                                    *)

Begin(name, s, v, offered, olds) ==
  /\ pc = "idle"
  /\ op' = name
  /\ pc' = "uid"
  /\ target' = s
  /\ ver' = v
  /\ cur' = offered
  /\ old' = olds
  /\ k' = 1
  /\ outcome' = "none"
  /\ atStart' = keys
  /\ UNCHANGED cardVars

(* The callers of burn offer either the factory keys in every slot or the    *)
(* keys being installed in every slot.                                       *)
StartBurn ==
  \E s \in Issuers, v \in BurnVersions : \E c \in {Factory, s} :
    Begin("burn", s, v, c, [i \in Slots |-> c])

(* wipe takes a whole key set; with raw keys every slot is given by itself.  *)
StartWipe ==
  \E o \in [Slots -> KeySets] : Begin("wipe", Factory, 0, o[0], o)

StartTestck ==
  Begin("testck", TestSet, 1, Factory, [i \in Slots |-> Factory])

At(name, label) == op = name /\ pc = label

------------------------------------------------------------------------------
(* burn                                                                      *)

BurnSelect == At("burn", "uid") /\ SelectUid(Goto("auth"))

BurnAuthenticate == At("burn", "auth") /\ Authenticate(cur, Goto("get"))

(* Mutant: residual SDM is not cleared before the file is rewritten.         *)
BurnGetSettingsNoClear ==
  At("burn", "get") /\ Exchange(TRUE, CardRead, Goto("write"))

(* SDM is cleared first only on a card that has it.                          *)
BurnGetSettings ==
  /\ At("burn", "get")
  /\ Exchange(TRUE, CardRead, Goto(IF sdm # Factory THEN "clear" ELSE "write"))

(* settings.into_update().without_sdm(): the access rights stay.             *)
BurnClearSdm ==
  /\ At("burn", "clear")
  /\ Exchange(TRUE, CardChangeFileSettings(Factory, access), Goto("write"))

(* write_file_plain: one WriteData per page, NLEN in the first one.          *)
BurnWriteNdef ==
  /\ At("burn", "write")
  /\ Exchange(TRUE, CardWritePage(k, target),
       /\ pc' = IF k < Chunks THEN "write" ELSE "readback"
       /\ k' = IF k < Chunks THEN k + 1 ELSE 1
       /\ UNCHANGED <<params, outcome>>)

BurnReadBack ==
  /\ At("burn", "readback")
  /\ Exchange(TRUE, CardRead, Check(HoldsTemplate(target), "get2"))

BurnGetSettings2 ==
  At("burn", "get2") /\ Exchange(TRUE, CardRead, Goto("enable"))

(* Mutant: SDM is enabled with the access rights the file had.               *)
BurnEnableSdmKeepsAccess ==
  /\ At("burn", "enable")
  /\ Exchange(TRUE, CardChangeFileSettings(target, access), Goto("verify"))

BurnEnableSdm ==
  /\ At("burn", "enable")
  /\ Exchange(TRUE, CardChangeFileSettings(target, "K0"), Goto("verify"))

BurnVerifySdm ==
  /\ At("burn", "verify")
  /\ Exchange(TRUE, CardRead, Check(sdm # Factory, "key"))

BurnChangeKey ==
  /\ At("burn", "key")
  /\ Exchange(keys[k] = old[k], CardChangeKey(k, target, ver), Goto("keyver"))

(* Mutants: the last slot is left out; the loop stays on the same slot.      *)
NextSlotMissesLast ==
  IF k + 1 < N
    THEN pc' = "key" /\ k' = k + 1 /\ UNCHANGED <<params, outcome>>
    ELSE pc' = "master" /\ UNCHANGED <<params, k, outcome>>

NextSlotStays ==
  IF k < N
    THEN pc' = "key" /\ UNCHANGED <<params, k, outcome>>
    ELSE pc' = "master" /\ UNCHANGED <<params, k, outcome>>

(* The loop over key_updates goes on with the next slot, or leaves it.       *)
NextSlot ==
  IF k < N
    THEN pc' = "key" /\ k' = k + 1 /\ UNCHANGED <<params, outcome>>
    ELSE pc' = "master" /\ UNCHANGED <<params, k, outcome>>

BurnKeyVersion ==
  /\ At("burn", "keyver")
  /\ Exchange(TRUE, CardRead,
              IF version[k] = ver THEN NextSlot ELSE End("mismatch"))

BurnChangeMasterKey ==
  /\ At("burn", "master")
  /\ Exchange(TRUE, CardChangeMasterKey(target, ver), Goto("reauth"))

BurnReauthenticate ==
  At("burn", "reauth") /\ Authenticate(target, Goto("final"))

BurnFinalSettings ==
  /\ At("burn", "final")
  /\ Exchange(TRUE, CardRead,
              End(IF sdm # Factory THEN "ok" ELSE "mismatch"))

Burn ==
  \/ BurnSelect \/ BurnAuthenticate \/ BurnGetSettings \/ BurnClearSdm
  \/ BurnWriteNdef \/ BurnReadBack \/ BurnGetSettings2 \/ BurnEnableSdm
  \/ BurnVerifySdm \/ BurnChangeKey \/ BurnKeyVersion
  \/ BurnChangeMasterKey \/ BurnReauthenticate \/ BurnFinalSettings

------------------------------------------------------------------------------
(* wipe                                                                      *)

WipeSelect == At("wipe", "uid") /\ SelectUid(Goto("auth"))

WipeAuthenticate == At("wipe", "auth") /\ Authenticate(cur, Goto("get"))

(* Mutant: the file is emptied while SDM is still on.                        *)
WipeGetSettingsNoRestore ==
  At("wipe", "get") /\ Exchange(TRUE, CardRead, Goto("empty"))

WipeGetSettings == At("wipe", "get") /\ Exchange(TRUE, CardRead, Goto("restore"))

(* Mutant: the access rights the card had are kept.                          *)
WipeRestoreSettingsKeepsAccess ==
  /\ At("wipe", "restore")
  /\ Exchange(TRUE, CardChangeFileSettings(Factory, access), Goto("empty"))

(* Factory access rights, and the SDM enable bit clear.                      *)
WipeRestoreSettings ==
  /\ At("wipe", "restore")
  /\ Exchange(TRUE, CardChangeFileSettings(Factory, "Free"), Goto("empty"))

(* NLEN = 0; the pages behind it are left as they are.                       *)
WipeEmptyNdef ==
  At("wipe", "empty") /\ Exchange(TRUE, CardWriteEmpty, Goto("key"))

(* Mutant: K0 is sent as the old key of every slot.                          *)
WipeChangeKeyFromMaster ==
  /\ At("wipe", "key")
  /\ Exchange(keys[k] = cur, CardChangeKey(k, Factory, 0), Goto("keyver"))

WipeChangeKey ==
  /\ At("wipe", "key")
  /\ Exchange(keys[k] = old[k], CardChangeKey(k, Factory, 0), Goto("keyver"))

WipeKeyVersion ==
  /\ At("wipe", "keyver")
  /\ Exchange(TRUE, CardRead,
              IF version[k] = 0 THEN NextSlot ELSE End("mismatch"))

WipeChangeMasterKey ==
  /\ At("wipe", "master")
  /\ Exchange(TRUE, CardChangeMasterKey(Factory, 0), Goto("reauth"))

WipeReauthenticate ==
  At("wipe", "reauth") /\ Authenticate(Factory, Goto("final"))

WipeFinalSettings ==
  /\ At("wipe", "final")
  /\ Exchange(TRUE, CardRead,
              End(IF sdm = Factory THEN "ok" ELSE "mismatch"))

Wipe ==
  \/ WipeSelect \/ WipeAuthenticate \/ WipeGetSettings
  \/ WipeRestoreSettings \/ WipeEmptyNdef \/ WipeChangeKey
  \/ WipeKeyVersion \/ WipeChangeMasterKey \/ WipeReauthenticate
  \/ WipeFinalSettings

------------------------------------------------------------------------------
(* testck: slot 1 to the test key and back, on a card with factory K0.       *)

TestckSelect == At("testck", "uid") /\ SelectUid(Goto("auth"))

TestckAuthenticate ==
  At("testck", "auth") /\ Authenticate(Factory, Goto("before"))

TestckVersionBefore ==
  /\ At("testck", "before")
  /\ Exchange(TRUE, CardRead,
              IF version[1] # 0 THEN End("notblank") ELSE Goto("toTest"))

TestckToTest ==
  /\ At("testck", "toTest")
  /\ Exchange(keys[1] = Factory, CardChangeKey(1, TestSet, 1), Goto("isTest"))

TestckVersionMid ==
  /\ At("testck", "isTest")
  /\ Exchange(TRUE, CardRead, Check(version[1] = 1, "toZero"))

TestckToZero ==
  /\ At("testck", "toZero")
  /\ Exchange(keys[1] = TestSet, CardChangeKey(1, Factory, 0), Goto("isZero"))

TestckVersionAfter ==
  /\ At("testck", "isZero")
  /\ Exchange(TRUE, CardRead,
              End(IF version[1] = 0 THEN "ok" ELSE "mismatch"))

Testck ==
  \/ TestckSelect \/ TestckAuthenticate \/ TestckVersionBefore
  \/ TestckToTest \/ TestckVersionMid \/ TestckToZero
  \/ TestckVersionAfter

------------------------------------------------------------------------------
(* The card is taken off the reader, during or between operations.           *)
RemoveCard ==
  /\ session # NoSession
  /\ CardReset
  /\ UNCHANGED hostVars

(* Callers authenticate on their own before they start an operation, to find *)
(* out which keys the card accepts.                                          *)
Probe ==
  /\ pc = "idle"
  /\ session' \in Slots
  /\ UNCHANGED <<contents, hostVars>>

Start == StartBurn \/ StartWipe \/ StartTestck

Step == Burn \/ Wipe \/ Testck

Next == Start \/ Step \/ Probe \/ RemoveCard

Spec == Init /\ [][Next]_vars

(* The host never stops on its own in the middle of an operation: every      *)
(* await is answered or times out.                                           *)
FairSpec == Spec /\ WF_vars(Step)

------------------------------------------------------------------------------
(* Properties                                                                *)

Ended == pc = "idle"

AllSlots(s) == \A i \in Slots : keys[i] = s

(* What burn and wipe promise when they return Ok (bolty-ntag lib.rs, burn   *)
(* and wipe): every slot of the card, its SDM configuration, its NDEF file   *)
(* and its access rights are those of the target, whatever happened to the   *)
(* card in earlier operations that failed half way.                          *)
SuccessIsComplete ==
  Ended /\ outcome = "ok" =>
    /\ op = "burn" => /\ AllSlots(target)
                      /\ \A i \in Slots : version[i] = ver
                      /\ sdm = target
                      /\ HoldsTemplate(target)
                      /\ access = "K0"
    /\ op = "wipe" => /\ AllSlots(Factory)
                      /\ \A i \in Slots : version[i] = 0
                      /\ sdm = Factory
                      /\ nlen = Factory
                      /\ access = "Free"

(* SDM is switched on only over a template that was written completely, and  *)
(* off before the file is touched: no interruption leaves a card mirroring   *)
(* into a torn or foreign NDEF file (burn clears, writes, reads back, then   *)
(* enables; wipe disables before NLEN = 0).                                  *)
SdmOverWholeTemplate == sdm # Factory => HoldsTemplate(sdm)

(* An operation that does not complete leaves K0 as it found it, unless      *)
(* every other slot already holds the target: the operator can always still  *)
(* authenticate with a key they know (burn and wipe change K0 last).         *)
InterruptedKeepsMaster == keys[0] = atStart[0] \/ AllSlots(target)

(* A ChangeKey is refused only when one of the keys the caller staged was    *)
(* wrong when the operation started; a refusal is never the doing of the     *)
(* operation's own earlier steps.                                            *)
RefusedOnlyIfStagedWrong ==
  outcome = "refused" => \E i \in Slots : old[i] # atStart[i]

(* A burn or wipe cut short anywhere leaves a prefix of the slots converted  *)
(* and the rest untouched.                                                   *)
TornIsPrefix ==
  op \in {"burn", "wipe"} =>
    \E j \in 0..N : \A i \in NonMaster :
      keys[i] = IF i <= j THEN target ELSE atStart[i]

(* What a step may never do: change K0 while some other slot does not        *)
(* already hold the key set that K0 changes to, or while the file is not in  *)
(* the state that goes with that key set.                                    *)
MasterCommitsLast ==
  [][keys'[0] # keys[0] =>
       /\ \A i \in NonMaster : keys[i] = keys'[0]
       /\ sdm = keys'[0] /\ nlen = keys'[0]]_vars

------------------------------------------------------------------------------
(* The inductive invariant: how far an operation has got, per command.       *)

Preparing == {"uid", "auth", "get", "clear", "write", "readback", "get2",
              "enable", "verify", "restore", "empty"}
Keying    == {"key", "keyver", "master", "reauth", "final"}

(* The first j non-master slots are converted, the others untouched.         *)
Converted(j) ==
  \A i \in NonMaster : keys[i] = IF i <= j THEN target ELSE atStart[i]

(* The slots during burn and wipe.                                           *)
KeyProgress ==
  op \in {"burn", "wipe"} =>
    /\ pc \in Preparing => keys = atStart
    /\ pc \in Preparing \ {"write"} => k = 1
    /\ pc \in {"key", "keyver", "master"} => keys[0] = atStart[0]
    /\ pc = "key" => k \in NonMaster /\ Converted(k - 1)
    /\ pc = "keyver" => k \in NonMaster /\ Converted(k)
    /\ pc = "master" => Converted(N)
    /\ pc \in {"reauth", "final"} => AllSlots(target)

(* The version bytes of the converted slots during burn and wipe.            *)
VersionProgress ==
  op \in {"burn", "wipe"} =>
    /\ pc \in {"key", "keyver"} => \A i \in 1..(k - 1) : version[i] = ver
    /\ pc = "master" => \A i \in NonMaster : version[i] = ver
    /\ pc \in {"reauth", "final"} => \A i \in Slots : version[i] = ver

(* The NDEF file and its settings during burn.                               *)
BurnFileProgress ==
  op = "burn" =>
    /\ target \in Issuers
    /\ pc \in {"write", "readback", "get2", "enable"} => sdm = Factory
    /\ pc = "write" => /\ k \in Pages
                       /\ k > 1 => nlen = target
                       /\ \A p \in 1..(k - 1) : body[p] = target
    /\ pc \in {"readback", "get2", "enable", "verify"} \cup Keying =>
         HoldsTemplate(target)
    /\ pc \in {"verify"} \cup Keying => sdm = target /\ access = "K0"

(* The NDEF file and its settings during wipe.                               *)
WipeFileProgress ==
  op = "wipe" =>
    /\ target = Factory /\ ver = 0
    /\ pc \in {"empty"} \cup Keying => sdm = Factory /\ access = "Free"
    /\ pc \in Keying => nlen = Factory

(* Slot 1 during testck.                                                     *)
TestckProgress ==
  op = "testck" =>
    /\ old = [i \in Slots |-> Factory]
    /\ keys[0] = atStart[0]
    /\ pc \in {"uid", "auth", "before", "toTest"} => keys = atStart
    /\ pc \in {"isTest", "toZero"} => keys[1] = TestSet

(* Together with what they are to establish: every reachable state is at a   *)
(* point of an operation where the card is as far as the operation got, or   *)
(* between operations with the card as the last one left it.                 *)
IInv ==
  /\ TypeOK
  /\ pc # "idle" => outcome = "none"
  /\ KeyProgress
  /\ VersionProgress
  /\ BurnFileProgress
  /\ WipeFileProgress
  /\ TestckProgress
  /\ SuccessIsComplete
  /\ SdmOverWholeTemplate
  /\ InterruptedKeepsMaster
  /\ RefusedOnlyIfStagedWrong
  /\ TornIsPrefix

------------------------------------------------------------------------------
(* The operations implement the life cycle that docs/card-safety.md promises *)
(* of the card: the NDEF file counts as empty when NLEN is 0, whatever the   *)
(* pages behind it still hold.                                               *)
Torn == "torn"

FileState ==
  IF nlen = Factory THEN Factory ELSE
  IF HoldsTemplate(nlen) THEN nlen ELSE Torn

Lifecycle == INSTANCE CardLifecycle
               WITH slot <- keys, file <- FileState, Sets <- KeySets

KeepsLifecycle == Lifecycle!Spec

(* Every operation ends: there is no await without an answer or an error.    *)
OperationsEnd == pc # "idle" ~> pc = "idle"

(* The commands an operation may still send: two for each slot from j on,    *)
(* and those that come before and after the keys.                            *)
CommandsFrom(j) == 2 * (N - j) + 5

CommandsAt(at, j) ==
  CASE at = "idle" -> 0
    [] at \in {"final", "isZero"} -> 1
    [] at \in {"reauth", "toZero"} -> 2
    [] at \in {"master", "isTest"} -> 3
    [] at = "toTest" -> 4
    [] at = "before" -> 5
    [] at = "keyver" -> CommandsFrom(j) - 1
    [] at = "key" -> CommandsFrom(j)
    [] at \in {"verify", "empty"} -> CommandsFrom(1) + 1
    [] at \in {"enable", "restore"} -> CommandsFrom(1) + 2
    [] at = "get2" -> CommandsFrom(1) + 3
    [] at = "readback" -> CommandsFrom(1) + 4
    [] at = "write" -> CommandsFrom(1) + 5 + Chunks - j
    [] at = "clear" -> CommandsFrom(1) + 5 + Chunks
    [] at = "get" -> CommandsFrom(1) + 6 + Chunks
    [] at = "auth" -> CommandsFrom(1) + 7 + Chunks
    [] at = "uid" -> CommandsFrom(1) + 8 + Chunks

CommandsLeft == CommandsAt(pc, k)

(* Every command of an operation leaves fewer to send, and an operation      *)
(* sends at most 2N + 11 and one for each page: no answer of the card makes  *)
(* it send one again.                                                        *)
CommandsRunOut ==
  [][Step => /\ CommandsLeft \in 1..(2 * N + 11 + Chunks)
             /\ CommandsLeft' \in Nat /\ CommandsLeft' < CommandsLeft]_vars

(* A burn or wipe that is told what the slots really hold fails only for     *)
(* want of an exchange, a session or the card's delay, however the card was  *)
(* torn before: nothing it finds on the card stops it.                       *)
TrueKeysSuffice ==
  op \in {"burn", "wipe"} /\ old = atStart =>
    outcome \in {"none", "ok", "transport", "delay", "session"}

(* However a card was torn, once the exchanges stop failing, a wipe that is  *)
(* told what the slots really hold brings it back to the delivery state.     *)
TrueKeysRecover ==
  (/\ <>[][outcome' \notin {"transport", "delay", "session"}]_vars
   /\ []<><<pc = "idle" /\ op' = "wipe" /\ old' = keys>>_vars)
  => []<>(AllSlots(Factory) /\ sdm = Factory /\ nlen = Factory)

(* docs/card-safety.md: "If K0 is still factory: re-burn fixes everything    *)
(* (auth with factory K0, re-install keys)".  A burn over a factory K0 would *)
(* then never be refused by the card.                                        *)
ReburnFixesEverything ==
  op = "burn" /\ cur = Factory /\ atStart[0] = Factory => outcome # "refused"
=============================================================================
