# Verification of bolty-rs

bolty-rs programs Bolt Cards: NTAG 424 DNA cards whose five keys (K0 master,
K1..K4), NDEF file and SDM (dynamic URL mirroring) settings are written by a
*burn* and taken back to the delivery state by a *wipe*. The programs that do it
are a command line tool on a PC/SC reader and firmware for ESP32 boards. A card
is hard to replace: a wrong order of commands can lock it for ever, rejected
authentications are counted by the card, and every exchange with it can fail.

This directory models that system in TLA+, checks the models with TLC on small
instances, and proves the properties of most components with TLAPS for every
value of their constants. `PROJECT.json` is the index: components, runs, mutants
(plausible bugs each property must catch), the map from definitions to source
lines, findings, hazards and theorems.

## The parts of the system

| part | source | module |
|---|---|---|
| the card (hardware, external) | used by `crates/bolty-ntag`, `vendor/ntag424` | `Ntag424Card` |
| burn and wipe, command by command; `testck` | `crates/bolty-ntag/src/lib.rs`, `apps/bolty-cli/src/testck.rs` | `CardOps` |
| what they promise of a card | | `CardLifecycle` (abstract) |
| sessions, handshakes and commands of the NTAG 424, APDU by APDU | `vendor/ntag424/src/session`, `commands` | `SecureChannel` |
| ISO 14443-4 block protocol on the MFRC522 | `crates/iso14443-session`, `crates/bolty-mfrc522` | `Iso14443Session` |
| what it promises of an exchange | | `ApduExchange` (abstract) |
| the NFC front ends PN532, PN7160, MFRC522 | `crates/bolty-pn532`, `pn532-transport`, `bolty-pn7160`, `bolty-mfrc522` | `Frontends` |
| CLI commands and their probes | `apps/bolty-cli/src` | `CliSession` |
| CLI processes on one bench: readers, flock, exchanges | `transport.rs`, `bench_lock.rs` of bolty-cli | `CliBench` |
| the audit log and the tally of wrong keys | `audit.rs`, `budget.rs` of bolty-cli | `AuditLog` |
| firmware: card service and the paths into it | `apps/bolty-esp32/src/workflow.rs`, `firmware.rs`, `firmware/` | `EspWorkflow` |
| firmware: main loop, HTTP thread, locks, job slot, cooldown | `rest.rs`, `firmware.rs` | `EspThreads` |
| firmware: serial console, bytes to commands | `console_framing.rs`, `commands.rs`, `firmware/serial_console.rs` | `EspConsole` |
| firmware: buttons, poll, hardware test | `button.rs`, `firmware.rs` | `EspButtons` |
| firmware: BLE transport | `ble.rs` | `EspBle` |
| firmware: settings and crash record over boots | `firmware/nvs.rs`, `firmware.rs` | `EspBoot` |
| firmware: certificate, Wi-Fi, HTTPS server, mDNS | `cert_gen.rs`, `tls.rs`, `wifi.rs` | `EspNetwork` |
| firmware: update, rollback, validity gate | `ota*.rs` | `OtaUpdate` |
| firmware for the PN7160 board | `firmware_nucula.rs` | `Nucula` |
| the rest | | not modelled, see below |

How they interact, from the top:

- `CliSession` and `EspWorkflow` are two drivers of the library `CardOps`; each
  EXTENDS it, takes its steps, and is shown to implement `CardOps!Spec`
  (`DrivesCardOps`), so what is proved of `CardOps` holds under both.
- `CardOps` EXTENDS the card and implements `CardLifecycle` (`KeepsLifecycle`).
  A command of `CardOps` either gets its answer, loses it after the card has
  acted, never reaches the card, or is refused, and a failure drops the session.
- `SecureChannel` looks into one such command: the APDUs it consists of, the
  command counter and the selection on both sides, and the chunks of a transfer.
  It shows that a command whose answers arrive is never failed by the channel
  itself.
- `Iso14443Session` looks into one APDU exchange, frame by frame, and is shown to
  give exactly the outcomes above (`IsAnExchange`, a refinement of `ApduExchange`).
- `Frontends` is below it: which card is active, and which UID the driver reports.
  `Nucula` EXTENDS it with the console of the PN7160 board.
- `EspThreads` shows that the operations of the firmware, which `EspWorkflow` takes
  to be sequential, exclude one another. `EspConsole`, `EspButtons` and `EspBle` are
  the ways in which commands reach it, `EspBoot`, `EspNetwork` and `OtaUpdate` what
  a device keeps over a reset.
- `CliBench` EXTENDS `AuditLog`: processes that each run a command of `CliSession`
  share readers, a lock and a log file.

`MCFirmware` and `MCEspDevice` put components that share no variable into one
instance; a behaviour is that of one of them (variable `part`), so the runs cost the sum
of the state spaces and not their product.

## How the models correspond to the code

**Ntag424Card.** `keys[i]` and `version[i]` are the slots; a key is abstracted to
the name of the set it belongs to, since the code only compares the key of slot i
of one set with that of another. `sdm`, `access`, `nlen` and `body` are the file
settings and the NDEF file, page by page. `session` is the authenticated slot.
One action fragment per command; all are external, taken from how the library
uses them and from the observations in `docs/`.

**CardOps.** `pc` is the next command of the running operation, `k` the slot or
page of its loop, `params` what the caller gave. One action per `await` of `burn`
(`lib.rs` 360-507), `wipe` (509-615) and `cmd_testck`. `Exchange` is the `?` after
each of them: a failure ends the operation where it stands, the card keeps what
was done, and any operation may start again. `Probe` is an authentication a
caller makes between operations. `atStart` is history.

**SecureChannel.** `host` is the session value: gone, unauthenticated or
authenticated, with the number of the handshake that made its keys, the command
counter and what it believes selected; `tag` is the card's side, external. A
command starts with the APDUs the code will send (`cmd.todo`) and each step is one
exchange: delivered, lost on the way out or on the way back, or refused. A MAC is
what it is computed over, so an answer verifies when keys and counter agree. A session is moved
into its command and comes back only with Ok, as ownership has it in the code;
an error leaves none. Reads and writes are cut into chunks of the sizes in the
code (plain, MAC and full differ), in bytes. `emulated` is the tag for which
`PLAIN_ADVANCE_COMPAT` is set: it does not count plain commands. `cause` is
history: a fault, a request the code refuses, or a selection that is behind (see
the observations).

**Iso14443Session.** `pcd` is `PcdSession` with the local variables of
`exchange`; `picc` the card. A transceive is one step with three outcomes: the
block and its answer arrive, the answer is lost, the block is lost (a frame that
fails its CRC or its length check is a lost one). `Collect`, `Acknowledged`,
`Block` and `Failed` are `collect_response`, the send loop and
`transceive_with_recovery`. The block-number rules of the card and of the
`iso14443` crate are external.

**Frontends.** `field` is the card on the antenna, `link` the one that is active,
`dev` and `uid` what the driver believes. The PN532 detects, exchanges and
releases; the PN7160 powers on and exchanges; the MFRC522 climbs its ladder of
attempts (reset of the field, WUPA, RATS). A card may be swapped between any two
steps; one that is active does not answer another WUPA, which is what the field
reset of the ladder is for.

**Nucula.** `poll`, `uid` and `inspect` on the kept reader; `inspect` activates twice
and compares the two mirrors. `wifi` connects, saves two blobs, starts the update
server; boot loads the credentials and connects once. `PowerCut` may come between
the blobs. `evidence`, `activated`, `servers` and `torn` are history.

**CliSession.** One process run per `Launch`: the command, its arguments and the
verdicts of its probes. `burn`, `wipe` (derived or raw keys), `cycle`, `testck`,
`diagnose`, `keyver`, `inspect`, `scan-keys` and `try-key`, each with the order of
authentications of its source file. The card counts rejected authentications
(`SeqLimit`) and then answers with a delay. The issuer key is an argument of each
process, so with two issuers a card is also handled with keys that are not its own.

**AuditLog, CliBench.** A process picks a reader (the first its pin names, else a PICC
interface, else no SAM, never a virtual one), takes the flock if the reader is physical and it was not
told to skip it, writes its name into the file, connects, and exchanges APDUs,
each logged before and after. `writer` is the statics of `audit.rs` (banner
written, step of the clock noted, first and last stamp). A process may be killed at
any step, which drops its flock; a line of the log may fail to be written. The
harness that holds the same lock and starts a CLI as its child is external, and so
is the counter of wrong keys in the card.

**EspWorkflow.** `config` is the configuration shared by all inputs, `service` the
copy `sync_from` makes of it, `nvs` what a reboot keeps. `Receive` is a command
from one of `Sources`; the actions that follow are `dispatch_command` and the
service's operations, up to the library call (`EspBurn`, `EspWipe`) and its
return. The card may come and go, and the device reboot, at any step.

**EspThreads.** The main loop as a cycle of phases (console, job, poll, heartbeat,
buttons) and one HTTP thread with a handler at a time; each step is a critical
section, `config` and `service` the two mutexes held across an operation.

**EspConsole.** One step per byte. A byte is a word, a blank or an end of line;
words stand for classes of what the parsers tell apart (a key of 32 hex digits, an
argument that fits, one that fits nowhere, one outside ASCII that is two bytes
wide). `assembler` is `LineAssembler`, `answer` what the main loop makes of a
finished line. The parsers of each command are operators.

**EspButtons.** `debounce` is `ButtonDebounce` per button with the age of the press
in ticks; `desk` is what a press acts on (`legacy_op`, display, `last_card`), `test`
the hardware test, which takes over buttons and poll. Cards are put down and taken
away between any two ticks.

**EspBle.** The callbacks of the Bluetooth task, in the order in which the stack
reports (`events`), the table of connections, the queue, and the main loop, which
waits at boot, takes one command and notifies subscribers. The stack is external
and may refuse any request.

**EspBoot.** The boot as its writes to NVS: load, count, reason of the last reset,
its boot number. A URL is its length. A write may fail, a reset come at any point.

**EspNetwork.** `provision-cert` step by step with the mbedTLS contexts it holds,
then its three NVS calls; `provision-ota-key`; `wifi`, `wifi off`, the button, a lost
link, a power cut. A certificate and a key carry the number of the provisioning
that made them, so that a pair fits when the numbers agree.

**OtaUpdate.** Three partitions, the otadata entries of the two OTA slots, the
running image and the update task, whose steps are those of `OtaUpdater::update`
(HTTP) or `ota_server::handle` (TCP); a build has one of them. `Reset` may happen
anywhere and includes the boot loader (external). `Serve` is a card transaction
or REST response with the evidence it gives to `ValidityGate`.

## Runs

Passing runs. Each property has a mutant of the model that it catches. A property
in the list below may be a conjunction; its parts are named in brackets and are
definitions of the component's module.

**`card_ops`** (311,696 states). burn, wipe and testck on one card, interrupted or
refused at any command and repeated in any order. `IInv` is the inductive
invariant of the proofs; among its conjuncts are that SDM is never on over a
half-written file (`SdmOverWholeTemplate`), that an interrupted card still has a
known master (`InterruptedKeepsMaster`), that what is converted is a prefix
(`TornIsPrefix`), and that a ChangeKey is refused only for a wrongly staged key
(`RefusedOnlyIfStagedWrong`). `SuccessIsComplete`: Ok means a complete card.
`MasterCommitsLast`: K0 changes after all others. `KeepsLifecycle`: refinement of
`CardLifecycle`. `OperationsEnd`; `TrueKeysRecover`: a wipe told the true keys
recovers every torn card.

**`cli_session`** (1,382,209). Every sequence of CLI commands drives the library as
`CardOps` allows (`DrivesCardOps`, `CliTypeOK`).

**`cli_budget`** (1,112,929). With two issuers and a slot that p/c do not cover: how
many wrong keys each command may offer to a card (`WrongKeyBudget`); `diagnose`
offers none to a card it can verify (`DiagnoseSparesHealthyCard`); a wipe that
passed the p/c check is not refused half way (`VerifiedWipeIsNotRefused`).

**`cli_bench`** (3,282,561). Several CLI processes and a harness on one bench, killed
at any step, with a clock that steps back. `BenchIsExclusive` (OneDriver,
HolderIsNamed): one process at a time drives a physical reader, and the text in
the lock file names whoever has it. `NeverRetargeted`: a pin is never answered with
another reader; without one a virtual reader is never taken, one that is no PICC interface
only if no real reader is, and a SAM slot only if there is nothing else. `LogIsTrue` (FailuresAccounted, BannerFirst, StepsAreMarked): the log
accounts for what was done, and its stamps go back only at a marked step.
`BudgetCoversCard`: what `budget` reads is never below the card's own count, but for
what was lost or is on its way (a wipe of a virtual card and an orphan excepted).

**`esp_workflow`** (2,066,048), **`esp_rest`** (612,804). The firmware drives the
library as `CardOps` allows, through console and BLE, and through REST and buttons
(`DrivesCardOps`); `check` says blank only on factory keys (`CheckTellsBlank`);
inspecting one's own card costs no wrong key (`InspectAfterBurnIsFree`); the
wrong-key budget (`EspWrongKeyBudget`).

**`firmware`** (71,887). From the reader to the threads:

- `KnowsItsCard` (UidMatchesCard, WakesResetCards, GivesUpAfterAllAttempts): the UID
  a driver reports is that of the card that answers, whatever was swapped or lost;
  the ladder wakes only cards the reset has taken out of their session, and fails
  only when all attempts have.
- `RecoveryDoor` (StoredPairAssociates, OneOtaServer): stored credentials associate,
  unless a save was torn; an update server is started once.
- `CardReportsAreTrue` (LabelIsHonest, EvidenceIsACard): "live" is said of a card that
  mirrors afresh, if it was not swapped; serve evidence needs an activated card.
- `ExchangeIsClean` (AnswerIsExact, BaseTimeoutRestored), `IsAnExchange`: an APDU is
  executed at most once, its answer is the whole one, and a time extension ends with
  its exchange.
- `ChannelInStep` (InStep, SelectionIsTrue): counters of session and tag agree while
  they have the same keys, and what the session believes selected is.
- `TransfersAreWhole`: Ok means all of the data, and nothing but a fault or an
  impossible request makes a command fail.
- `ReaderIsShared` (CardExclusive, EachJobRunsOnce, NeverBothWait): one user of the card
  at a time; every accepted job runs once and keeps its result; main loop and handler
  are never both kept waiting, so no order of locks is a deadlock.
- `ReaderReturns` (ActivationEnds, ExchangeReturns), `NobodyStarves` (JobCompletes,
  HeartbeatRecurs, RequestsAreAnswered): no loss, no order of locks, no `wifi off` in
  the middle of a request blocks an activation, an exchange, the main loop, a job or
  a request.

**`esp_device`** (1,568,814). The device around the card:

- `LinesAreCommands` (ObeysWholeLines, OverlongFailsOnce): what is run is a line as it
  was typed, and an overlong one is reported once and none of it run.
- `PressDoesAsShown` (PressToldOnce, SightIsCurrent, ShownIsRun): one event per press;
  `last_card` is the card on the reader as far as polls could tell; what is run is
  what the display offers.
- `ServesClients` (ReadyCanAnswer, ConnectionsAreLinked, RunInOrder): a server that is
  ready has all its handles, the table lists connected clients, and accepted commands
  run in order and once.
- `BootRemembers` (SettingsSurvive, CrashlogIsTrue): settings whose write succeeded
  survive a reset at any point; the crash record is that of the last abnormal reset.
- `ProvisionedIsServed` (AcknowledgedIsStored, ServesMatchingPair, AdvertisedIsServed,
  ContextsFreed): what was acknowledged is stored; the server's certificate fits its
  key unless the save was torn; mDNS advertises a running server only.
- `UpdatesAreReversible` (BootsWholeImages, FallbackIsProven, OneBootToProve,
  NoLeakedHandle): only whole and authenticated images boot; one that has not served
  boots once and reverts to the proven one that installed it.

Violation runs. Each checks one statement of the repository that the code does
not keep; the finding in `PROJECT.json` quotes it.

| run | what happens |
|---|---|
| `card_ops_reburn` | a burn interrupted after K1 cannot be completed by burning again (card-safety.md says it can) |
| `cli_derived_wipe` | a torn wipe and a torn re-burn leave placeholders in the file; the gate lets a derived wipe through, and it is refused at K1 |
| `esp_force` | `force on`/`off` does not reach the service's copy, which wipe reads |
| `iso_one_loss` | one lost last I-block aborts the APDU, although the send side is said to recover |

### Bounds

- `N = 2` non-master slots: the key loops treat slots alike, and two slots have a
  first, a last, a done-before and a not-yet. `cli_budget` has three, the third one
  outside of what p and c prove.
- `Chunks` 1 or 2 pages of the NDEF file: 2 where a half-written file matters.
- One or two issuers: two where a card of another issuer matters.
- `SeqLimit = 3`, `MaxDelay = 2`: rejected authentications until the card delays
  (50 on the card), so that the delay is met within one or two commands.
- `CliBench`: two processes (symmetric: they are only compared; the run has no
  liveness) and the harness, three readers (PICC, SAM, virtual), two exchanges, one
  fault, a clock of two readings that is set twice, so that it goes forward and back.
- `Frontends`, `Nucula`: the code's four attempts; a card that mirrors live, one that
  mirrors a constant, and one without mirror that is no ISO 14443-4 card; two
  networks, so that a torn save can mix them.
- `Iso14443Session`: three chunks in each direction (first, middle, last), five lost
  frames (more than `MAX_RETRIES` twice), two extensions, two exchanges.
- `SecureChannel`: three commands (a selection or handshake, and two that depend on
  it), one fault; lengths 0, 240, 249 and 257 with a file of 256 bytes: on both sides
  of the limits 239, 240, 248, 255 and 256 of the chunked transfers.
- `EspThreads`: three jobs are enough for one to be submitted at each point of its
  predecessor's life; of the cooldown only matters whether it is over.
- `EspConsole`: lines of four symbols, `keys` with two keys: a command with all its
  arguments, one too many, and a line that overflows.
- `EspButtons`: two ticks of debounce and of a long press, two cards. `EspBle`: three
  clients for two places, a queue of two and four commands, so that both overflow.
- `EspBoot`: URLs of up to three, three resets. `EspNetwork`: two provisionings, so that
  a pair can be mixed. `OtaUpdate`: three updates, so that both slots are used and one
  is overwritten; four resets; images of two chunks, so that one can be partial.

There are no state constraints; every bound is in a guard. The proofs do without
the bounds: they hold for every value.

### Fairness and deadlock

- `CardOps!FairSpec`: weak fairness of the library's steps. An `await` returns, if
  only with an error of the transport. Starting operations and removing the card
  are not fair.
- `MCFirmware!MCFairSpec`: weak fairness of the steps of the MFRC522's ladder and of a
  transceive, each of which has its timeout set; weak fairness of the main loop and
  of the handler in progress: both are FreeRTOS tasks that are scheduled, and card
  operations return as above. Taking a contended mutex is strongly fair: a FreeRTOS
  mutex is handed to its waiters, by priority and arrival, and is not passed over for
  ever. That requests arrive, or cards, is not assumed.

Deadlock is checked in the runs of `CardOps`, `CliSession` and `EspWorkflow`. The others
stop where their bounds are used up (`cli_bench`, `firmware`, `esp_device`,
`iso_one_loss`) and say CHECK_DEADLOCK FALSE; that the threads do not wait on one another
is what `NeverBothWait` (in `ReaderIsShared`) and `NobodyStarves` check.

## What is proved

A theorem holds for every value of the constants under the named assumptions of
the component's module. Each rests on an inductive invariant: the initial states
have it, each action keeps it (one lemma or step per action), and it implies the
property.

`CardOpsProofs`, for every number of slots and pages, every set of issuers and of
versions, from `CardAssumption` (the constants are distinct, at least one slot and
one page) and `BurnVersionsAssumption`:

- `InductiveInvariant`: `Spec => []IInv`. `SuccessIsComplete` is not inductive: that
  the final command of a burn finds every slot converted depends on what each
  earlier command established. `IInv` says, for every value of `pc` and `k`, which
  slots hold the target (`KeyProgress`), with which version (`VersionProgress`),
  and how far the file and its settings are (`BurnFileProgress`,
  `WipeFileProgress`, `TestckProgress`).
- `TypeCorrectness`, `OkMeansComplete`, `SdmNeverOverTornFile`, `NeverLockedOut`,
  `RefusalIsProof`: the invariants of the run, from `IInv` (`NeverLockedOut` has both
  `InterruptedKeepsMaster` and `TornIsPrefix`).
- `MasterLast`: the action property `MasterCommitsLast`, from `IInv` before the step.
- `ImplementsLifecycle`: the refinement `Spec => Lifecycle!Spec`; initial states map
  to initial states and each action to a step or a stutter.
- `MasterBinds` (`MasterBindsSlots`: under a K0 that is not the factory key the first
  slots may be back at the factory key, all others hold the set of K0) and
  `VersionZeroIsBlank` (`VersionsTell`, if no burn writes version 0). Both are what the
  probes of the drivers rely on.
- `CommandsAlwaysRunOut` (`CommandsRunOut`): `CommandsLeft`, the commands an operation can
  still send from where it is, falls with each step, so whatever the card answers a burn,
  wipe or testck sends at most 2N + 11 + Chunks. It is the safety half of `OperationsEnd`.
- `TruthSuffices` (`TrueKeysSuffice`): told the keys that the card had when it began, a burn or
  wipe ends in Ok, or in a fault of transport, delay or session, and never because the
  card refuses a key or a verification fails. It is the safety half of `TrueKeysRecover`,
  from `IInv` (slots not yet converted hold what they held at the start), `VersionIsNew`
  and `OffersStaged` (the session is opened with the key staged for slot 0).

`CliSessionProofs` and `EspWorkflowProofs` extend it, each with an invariant of the
driver on top of `IInv`, for every set of issuers and of callers, any number of slots,
retries and candidates (`CliAssumption`, `EspAssumption`):

- `CliDrivesCardOps`, `EspDrivesCardOps` (`DrivesCardOps`), and so `CliKeepsLifecycle` and
  `EspKeepsLifecycle`: the refinements compose, and what `CardLifecycle` promises holds
  for every sequence of commands.
- `KeepsWrongKeyBudget`, `KeepsEspWrongKeyBudget`. The invariant bounds `wrong` at each
  stage of each command (`Spent`), which needs that a key the card has accepted stays the
  right one until the command changes it (`ProbedIsRight`).
- `VerifiedWipes`: `VerifiedWipeIsNotRefused`, from `GateIsTrue` (what a p/c pair that verified
  says of the slots) and `MasterBindsSlots` for the slots it says nothing of.
- `SparesHealthyCard` (`DiagnoseSparesHealthyCard`), `ChecksBlank` (`CheckTellsBlank`, which needs
  `VersionsTell`), `InspectsFreely` (`InspectAfterBurnIsFree`, from `KnowsOurCard`: the service
  holds the keys of the card it burned), `CliTypeCorrectness`, `EspTypeCorrectness`.

`Iso14443Proofs`, for chains of any length, any number of retries, extensions and
losses:

- `ImplementsExchange` (the refinement `IsAnExchange`), under `Reactivates`: a session
  that failed is activated anew before it is used, as bolty's callers do.
  `ExchangeInv` says what block numbers tell: while sending, that the card's number
  equals the reader's exactly if it has the block, and has executed the command
  exactly if that was the last; while receiving, that it was executed once. Without
  it a repeated block could not be told from a new one.
- `ExchangesCleanly` (`ExchangeIsClean`), under `Reactivates`. `ExactInv` adds to it the
  chunks: what the card has received is a prefix of the command, what the reader has
  got is a prefix of the answer, and the numbers tell whether the last one arrived.
- `ExchangeComesToItsEnd` (`StepsAdvance`), under `Reactivates`: each transceive ends the
  exchange or brings down `Remaining` (losses left, stage, chunks left, tries left) in
  the lexicographic order `Less` of module `Measure`, which is well-founded. It needs the
  block numbers again: a repeated block must not set the exchange back. Without
  `Reactivates` it is false, as TLC shows.
- `SessionTypesHold`, `ChannelTypesHold`: types, for which the contents of the blocks in
  flight and of what is cached for a repetition are needed (`SessionTypes`, `ChannelTypes`).
- `KeepsChannelInStep`: `ChannelSpec => []ChannelInStep`, for any files, lengths,
  commands and faults, from `ChannelAssumption`. `ChannelInv` adds that an
  authenticated session has a handshake's keys, that an EF is believed selected only
  together with the application, that selections come first in a command and the
  application before the file, that a fault has ended the command it happened in, and that a tag
  in the middle of an inner authentication still holds the keys of the session.
- `KeepsTransfersWhole` (`TransfersAreWhole`). `WholeInv` says of a command under way that
  its remaining APDUs are a suffix of its plan, that the tag is in the state in which it
  accepts the next one (`Prepared`), and how many bytes were moved (`Progress`).

`FirmwareProofs`:

- `FrontendsKnow` (`KnowsItsCard`) for all sets of cards and any number of attempts, from
  `FrontInv`: while a driver has a target the active card is the one whose UID it returns
  (`Believes`), and every round of the ladder before the present one was lost (`RoundsLost`).
- `KeepsRecoveryDoor` (`RecoveryDoor`) from `NetworkInv`, `EvidenceNeedsACard` from `NfcInv`,
  `ReportsTruly` (`CardReportsAreTrue`) from `InspectInv`: a second read that meets a card is
  made in another activation than the first.
- For any number of jobs and any cooldown, from `ThreadsAssumption`: `ThreadsInvariant`
  (`ThreadsInv`: who is in an operation holds the service lock; the phase of the main loop
  determines how far the job in the slot is), `ConfigInvariant` (`ConfigInv`: where the two
  threads are tells who holds the configuration), and from both `NoDeadlock`
  (`NeverBothWait`) and `SharesReader` (`ReaderIsShared`).
- `LadderComesToItsEnd` (`LadderAdvances`): each step of the MFRC522's ladder ends the
  activation or brings down the rounds and rungs left, whatever happens to the card.
- Of the composed instance `MCFirmware!MCSpec`, with `Iso14443Proofs`: `BoardInvariant` joins
  the invariants of both kinds of board (a PN7160 with its console, or a bare front end),
  and from it follow `BoardKeepsItsPromises` and, with the parts that run by themselves
  (`FirmwareIsItsParts`), `FirmwareTypesHold` (`FirmwareTypeOK`) and
  `SessionsKeepTheirPromises`.

`EspDeviceProofs`:

- `Remembers` (`BootRemembers`) for URLs of any length and any number of boots, from
  `BootInv` (what NVS and RAM share after each step of the boot, and how far the crash
  record has come).
- `PressesDoAsShown` (`PressDoesAsShown`) for any debounce, long press and set of cards:
  `TellsPressOnce` (`PressInv`), `ActsOnWhatIsThere` (`SightInv`: `SightIsCurrent` through polls,
  presses and the hardware test) and `RunsWhatIsShown` (`ShownInv`).
- `ServesProvisioned` (`ProvisionedIsServed`) for any number of provisionings. `SaveProgress`
  says which blobs are of this provisioning at each step of the save, and that the pair
  counts as torn until it is complete.
- `Reversible` (`UpdatesAreReversible`) for images of any length, any number of updates and
  resets. `OtaInv` has the entries that can be new or pending (`Entries`), what runs (`Runs`),
  that from an image on trial the boot loader goes back to a whole and proven one
  (`WayBack`), and the update in progress (`Update`).
- `BootTypesHold`, `ButtonsTypesHold`, `NetTypesHold`, `OtaTypesHold`.

`EspTransportProofs`:

- `ObeysLines` (`LinesAreCommands`) for lines and buffers of any length. `ConsoleInv` relates the
  assembler to the line being typed; that the parser runs nothing but what the table
  of the protocol allows is a lemma about the parser, by induction over the words.
- `ServesItsClients` (`ServesClients`) for any number of clients, connections and commands, from
  `BleInv`: which reports are due with which handles (`GattInv`), whom the table lists
  (`TableInv`, through `swap_remove`), and how commands are numbered (`QueueInv`).
- Of the composed instance `MCEspDevice!MCSpec`, with `EspDeviceProofs`: `DeviceIsItsParts`,
  and so `DeviceTypesHold` (`DeviceTypeOK`) and `DeviceKeepsItsPromises`.

`CliBenchProofs`, for any finite set of processes, any readers, pins, exchanges, faults and
readings of the clock, from `AuditAssumption` and `BenchAssumption` (the names of nobody, of
the harness and of no reader are names of nothing else); all the invariants of the run:

- `KeepsBench` (`BenchIsExclusive`). `LockInv` says who holds the flock and who relies on it.
  A child whose harness died (an orphan) has no lock; `OneDriver` excepts it, in the run as
  in the theorem.
- `KeepsTarget` (`NeverRetargeted`): `Selects`, a lemma about `SelectReader`, and that a process
  keeps the reader it chose (`TargetInv`).
- `TellsTheTruth` (`LogIsTrue`). `FailuresAccounted` is a balance: each step moves a wrong key
  from the card to the process, to the log or to what was missed (`Conserved`, `Balance`,
  with `LoadInv`: an answer comes to a process without lines in hand). `FileInv` says of the
  file and of the lines in hand together whether they have the banner of a process and
  the note of its step (`Own`), and `BannersAppended` and `MarkedAppended` that appending them
  keeps the order.
- `BudgetIsHonest` (`BudgetCoversCard`). `Cleared` says that from the reset of the card's counter
  until the wipe is in the log nobody else counts it up, which is where the lock is
  needed; `BudgetGrows` that lines without a wipe are counted on top.
- `BenchTypes` (`BenchTypeOK`).

Induction over data is done where it is needed by way of a least counterexample (`Least`
and `UpTo` of `EspTransportProofs`, `LeastNumber` of `CliBenchProofs`).

Only model-checked: all liveness (the prover has no fairness or ENABLED), that is
`OperationsEnd`, `TrueKeysRecover`, `ReaderReturns` and `NobodyStarves`. What can be said of
them without fairness is proved: an operation, an exchange and an activation cannot take
steps for ever (`CommandsRunOut`, `StepsAdvance`, `LadderAdvances`), true keys are not refused
(`TrueKeysSuffice`), and one of the two threads can always go on (`NeverBothWait`). What is
left to TLC is that a step that is possible is taken, and for `NobodyStarves` also that a
contended lock comes to everyone. Also left to TLC are the `violation` runs, which are
about single behaviours.

## Observations

Seen while modelling and visible in the models, without a run of their own.

Cards and commands:

- `wipe` sends two authentications with the factory key before the p/c
  pre-verification (`WipeProbe`, `WipeProbe2`), although `wipe.rs` 195-196 says
  "BEFORE the first AuthenticateEV2First".
- `burn` without `--force`, and `wipe`, offer a card of another issuer three wrong
  keys; `docs/card-safety.md` 197-198 says two. `WrongKeyBudget` has the three.
- `diagnose` reports BLANK on a card whose K1 an interrupted `testck` left at the
  test key; `diagnose.rs` 7 says "factory keys".
- Burns and wipes over REST that fail start no cooldown (`rest.rs` 599-603), although
  `rest.rs` 32-33 gives the card's failure counters as its reason. It is the one
  hazard without a property.

vendor/ntag424:

- If the answer to the selection of an EF is lost, the unauthenticated session goes on
  believing the earlier one selected, and a later read or write of that one goes
  to the other file and returns Ok (`cause = "behind"`). Callers in bolty select
  `File::Ndef` only and do not reach it.
- `secure_channel.rs` says of CmdCtr that it "stays put on failure and on
  `CommMode.Plain` passthrough"; the plain chunked transfers advance it, as the card
  does, except under `PLAIN_ADVANCE_COMPAT`.
- Under that flag a bare answer to a MACed read is taken for the end of the file: Ok with
  fewer bytes.

Bench:

- `select_reader` is documented to need exactly one match of a pin and takes the first;
  the `readers` listing connects without the lock; a child outlives its harness
  without a lock; a wipe of a virtual card resets the tally of `budget`.

nucula board:

- With a session that is active but whose card is gone, `uid` answers without touching
  the card and counts as serve evidence; `inspect` fails until the next `poll`. A card
  swapped between the two activations of `inspect` is reported live.
- A power cut between the two credential blobs leaves a mixed pair that nothing
  detects. If mDNS fails after the association, the credentials are not saved and no
  update server is started. Autoconnect is tried once.

bolty-esp32:

- Console: a line of blanks is answered with UnknownCommand; its documentation says it
  is not answered.
- Buttons: after a burn `last_card` stays blank until the next poll, and the display
  shows idle while `legacy_op` is still burn.
- BLE: a write dropped by a full queue is answered Ok; advertising is not restarted by the
  code; responses go to all subscribers. `process_ble_command` locks service before
  config and REST config before service: no build has both.
- Boot: a URL of exactly `MAX_LNURL_LEN` is held in RAM and never persisted; a `force off`
  whose write failed is on again after a reboot.
- Network: a running server keeps its old certificate after a new provisioning until it
  is stopped; HTTPS does not start by itself after a reboot; switching Wi-Fi off by
  button leaves the server running; `has_cert` says provisioned of a torn pair.
  `docs/security.md` says "Only LNURL and button mode are persisted"; NVS has more.

## What is not modelled

`PROJECT.json` lists every part with the reason.

- Cryptography, encodings and parsers of bytes (`bolty-core`, `vendor/ntag424` types and
  crypto): functions without state, whose correctness is a matter of test vectors. A
  key, MAC or signature is its verdict.
- `vendor/ntag424` `high_level` (provisioning, reset, verification): nothing of bolty calls
  it. The LRP suite, SetConfiguration, the originality signature and the choice of
  mode in `read_file` and `write_file`: not called for burn and wipe either.
- CLI commands that only read and print, and its mock card; the power cycle of a
  reader is the card leaving the field.
- Display, power chip, diagnostics output, wording and JSON: output only.
- `deselect` of `iso14443-session`, which nothing calls, and the registers of the chips.
- The STM32 skeleton; fuzz targets; `ota-sign`; the test benches in Python, the overnight
  harness among them: they drive the programs from outside.
- A second card in the field during one operation, and random-ID cards.
- A poisoned mutex, the wrap of the job number at 2^32 and of CmdCtr at 2^16: not reached.
- A caller that goes on in the same ISO 14443-4 session after an error: no caller does;
  `Reactivates = FALSE` has the case, and the theorem excludes it.
