----------------------------- MODULE CliSession ------------------------------
(***************************************************************************)
(* bolty-cli: one process after another against one card.  Each process    *)
(* runs one command; burn and wipe probe the card with authentications,    *)
(* decide from the answers which keys to stage, and only then call the     *)
(* library operations of CardOps.                                          *)
(*                                                                         *)
(* Every AuthenticateEV2First with a wrong key adds to the failure         *)
(* counters of the card's master key.  The card is hardware; its counters  *)
(* are modelled as docs/ntag424-auth.md records them.                      *)
(***************************************************************************)
EXTENDS CardOps, Sequences

CONSTANTS
  StaticTest,     \* the M5StickC static test key (0x11..11)
  Candidates,     \* the keys scan-keys tries, in order
  Used,           \* the commands the operators of this instance use
  Retries,        \* length of AUTH_RETRY_DELAYS
  TryAttempts,    \* --attempts of try-key and scan-keys
  Breaker,        \* CIRCUIT_BREAKER_THRESHOLD
  SeqLimit,       \* SeqFailCtr from which the card delays (50)
  MaxDelay        \* refusals that spend one delay

ASSUME CliAssumption ==
  /\ N >= 2
  /\ Candidates \in Seq(KeySets \cup {StaticTest} \cup STRING) \ {<<>>}
  /\ {Retries, TryAttempts, Breaker, SeqLimit, MaxDelay} \subseteq Nat \ {0}

VARIABLES
  cli,        \* the command of the running process, or of the last one
  stage,      \* where the command is; "idle" between processes
  given,      \* the keys the command line supplies, per slot
  flag,       \* --force of burn, --skip-preverify of wipe
  idx,        \* slot, candidate or part of the cycle the command is at
  attempt,    \* AuthRetry.attempt, or the attempt of try-key and scan-keys
  failures,   \* TOTAL_AUTH_FAILURES
  gate,       \* what the p/c pre-verification of wipe came to
  diag,       \* what diagnose saw and said
  wrong,      \* history: wrong-key authentications this process sent
  seq,        \* SeqFailCtr of the card's K0, up to SeqLimit
  delay       \* refusals (91AD) left until the current delay is spent

counters == <<seq, delay>>
cliVars  == <<cli, given, flag, gate, diag>>
allVars  == <<keys, version, sdm, access, nlen, body, session,
              op, pc, target, ver, cur, old, k, outcome, atStart,
              cli, stage, given, flag, idx, attempt, failures, gate, diag,
              wrong, seq, delay>>

Commands == {"none", "burn", "wipe", "rawwipe", "cycle", "testck", "diagnose",
             "keyver", "inspect", "scan", "trykey"}

Stages == {"idle", "preflight", "check", "factory", "provided", "runFactory",
           "runGiven", "probe", "probe2", "already", "preverify", "k0",
           "slots", "runWipe", "runTestck", "lib", "diag", "diagFactory",
           "diagStatic", "kvGiven", "kvFactory", "inspect", "scan", "try"}

NoDiag == [read |-> FALSE, sdm |-> FALSE, ndef |-> FALSE, picc |-> FALSE,
           factory |-> FALSE, state |-> "none"]

CliTypeOK ==
  /\ TypeOK
  /\ cli \in Commands /\ stage \in Stages
  /\ given \in [Slots -> KeySets] /\ flag \in BOOLEAN
  /\ idx \in 1..(N + Len(Candidates))
  /\ attempt \in Nat /\ (attempt <= Retries \/ attempt < TryAttempts)
  /\ failures \in 0..Breaker /\ wrong \in Nat
  /\ gate \in {"none", "verified", "skipped"}
  /\ diag.state \in {"none", "BLANK", "PROVISIONED", "HALF-WIPED",
                     "AUTH_DELAY", "INCONSISTENT"}
  /\ seq \in 0..SeqLimit /\ delay \in 0..MaxDelay

CliInit ==
  /\ Init
  /\ cli = "none" /\ stage = "idle" /\ flag = FALSE /\ idx = 1
  /\ given = [i \in Slots |-> Factory]
  /\ attempt = 0 /\ failures = 0 /\ wrong = 0
  /\ gate = "none" /\ diag = NoDiag
  /\ seq = 0 /\ delay = 0

Whole(s) == [i \in Slots |-> s]

------------------------------------------------------------------------------
(* Moving on in a command.  Each starts a new AuthRetry.                     *)

GoOn(next) ==
  stage' = next /\ attempt' = 0 /\ UNCHANGED <<hostVars, cliVars, idx>>

To(next) == GoOn(next) /\ UNCHANGED failures

(* The process exits, and what it held is gone.                              *)
Exit ==
  /\ stage' = "idle" /\ attempt' = 0 /\ idx' = 1
  /\ given' = Whole(Factory) /\ flag' = FALSE /\ gate' = "none"
  /\ UNCHANGED <<hostVars, cli, diag>>

Quit == Exit /\ UNCHANGED failures

(* Mutant: the ladder of delays has no end.                                  *)
AgainForever(limit) ==
  attempt' = attempt + 1 /\ UNCHANGED <<hostVars, cliVars, stage, idx, failures>>

(* AuthRetry.next_delay: the same authentication again, or give up.          *)
Again(limit) ==
  IF attempt < limit
    THEN attempt' = attempt + 1 /\ UNCHANGED <<hostVars, cliVars, stage, idx, failures>>
    ELSE Quit

(* record_auth_failure: exits when the breaker trips, else the command goes  *)
(* on, or gives up.                                                          *)
Recorded(goOn) ==
  /\ failures' = failures + 1
  /\ IF failures + 1 >= Breaker THEN Exit ELSE goOn

(* The card meets a wrong key for K0.                                        *)
CountWrong ==
  /\ seq' = IF seq < SeqLimit THEN seq + 1 ELSE SeqLimit
  /\ delay' \in IF seq' = SeqLimit THEN 1..MaxDelay ELSE {0}
  /\ wrong' = wrong + 1

(* AuthenticateEV2First of K0 with key: the card accepts it, refuses it      *)
(* while a delay runs, or refuses it as wrong; the command or its answer may *)
(* also be lost on the way.                                                  *)
AuthK0(key, ok, delayed, refused, lost) ==
  \/ /\ delay = 0 /\ keys[0] = key /\ CardAuthenticate(0)
     /\ seq' = 0 /\ UNCHANGED <<delay, wrong>>
     /\ ok \/ lost
  \/ /\ delay > 0 /\ delay' = delay - 1
     /\ CardReset /\ UNCHANGED <<seq, wrong>>
     /\ delayed \/ lost
  \/ /\ delay = 0 /\ keys[0] # key /\ CardReset /\ CountWrong
     /\ refused \/ lost
  \/ CardRead /\ UNCHANGED <<counters, wrong>> /\ lost

(* A step that sends no authentication.                                      *)
NoAuth == UNCHANGED <<counters, wrong>>

------------------------------------------------------------------------------
(* A process starts.                                                         *)

FirstStage(name) ==
  CASE name \in {"burn", "wipe", "rawwipe", "cycle"} -> "preflight"
    [] name = "testck"   -> "runTestck"
    [] name = "diagnose" -> "diag"
    [] name = "keyver"   -> "kvGiven"
    [] name = "inspect"  -> "inspect"
    [] name = "scan"     -> "scan"
    [] name = "trykey"   -> "try"

Launch(name, ks, f) ==
  /\ stage = "idle" /\ pc = "idle" /\ name \in Used
  /\ cli' = name /\ given' = ks /\ flag' = f
  /\ stage' = FirstStage(name)
  /\ idx' = 1 /\ attempt' = 0 /\ failures' = 0 /\ wrong' = 0
  /\ gate' = "none" /\ diag' = NoDiag
  /\ UNCHANGED <<cardVars, hostVars, counters>>

LaunchBurn  == \E s \in Issuers, f \in BOOLEAN : Launch("burn", Whole(s), f)
LaunchWipe  == \E s \in Issuers, f \in BOOLEAN : Launch("wipe", Whole(s), f)
LaunchRaw   == \E ks \in [Slots -> KeySets], f \in BOOLEAN : Launch("rawwipe", ks, f)
LaunchOther ==
  \E name \in {"cycle", "testck", "diagnose", "keyver", "inspect", "scan"}, s \in Issuers :
    Launch(name, Whole(s), FALSE)
LaunchTryKey == \E s \in KeySets : Launch("trykey", Whole(s), FALSE)

------------------------------------------------------------------------------
(* burn                                                                      *)

Burning == cli = "burn" \/ (cli = "cycle" /\ idx # 2)

(* UID and chip type are read; a wrong card, a dry run or a template without *)
(* placeholders ends the command here.                                       *)
Preflight ==
  /\ stage = "preflight" /\ CardRead /\ NoAuth
  /\ \/ To(IF ~Burning THEN "probe" ELSE IF flag THEN "factory" ELSE "check")
     \/ Quit

(* The state check of a burn without --force: informative only.              *)
BurnCheck ==
  /\ stage = "check"
  /\ AuthK0(Factory, To("factory"), Again(Retries), To("factory"), To("factory"))

(* Mutant: a rejected factory key is tried again like a delayed one.         *)
BurnProbeFactoryRetries ==
  /\ stage = "factory"
  /\ AuthK0(Factory, To("runFactory"), Again(Retries), Again(Retries),
            Recorded(GoOn("provided")))

BurnProbeFactory ==
  /\ stage = "factory"
  /\ AuthK0(Factory, To("runFactory"), Again(Retries), Recorded(GoOn("provided")),
            Recorded(GoOn("provided")))

BurnProbeProvided ==
  /\ stage = "provided"
  /\ AuthK0(given[0], To("runGiven"), Again(Retries), Recorded(Exit),
            Recorded(Exit))

(* Mutant: the factory keys are staged as the old keys of every burn.        *)
CliBurnFromFactory ==
  /\ stage \in {"runFactory", "runGiven"}
  /\ \E v \in BurnVersions :
       LET c == IF stage = "runFactory" THEN Factory ELSE given[0] IN
       Begin("burn", given[0], v, c, Whole(Factory))
  /\ stage' = "lib" /\ NoAuth
  /\ UNCHANGED <<cliVars, idx, attempt, failures>>

(* BurnParams: current_key and previous_keys follow from the probe.          *)
CliBurn ==
  /\ stage \in {"runFactory", "runGiven"}
  /\ \E v \in BurnVersions :
       LET c == IF stage = "runFactory" THEN Factory ELSE given[0] IN
       Begin("burn", given[0], v, c, Whole(c))
  /\ stage' = "lib" /\ NoAuth
  /\ UNCHANGED <<cliVars, idx, attempt, failures>>

------------------------------------------------------------------------------
(* wipe                                                                      *)

(* factory_probe: anything but an acceptance counts as provisioned.          *)
WipeProbe ==
  /\ stage = "probe"
  /\ AuthK0(Factory, Quit, To("probe2"), To("probe2"), To("probe2"))

WipeProbe2 ==
  /\ stage = "probe2"
  /\ AuthK0(Factory, To("already"), To("preverify"), To("preverify"), To("preverify"))

(* The settings and the file are read; the command ends either way.          *)
WipeAlready == stage = "already" /\ CardRead /\ NoAuth /\ Quit

(* What reading the NDEF file unauthenticated gives: no URI in an empty      *)
(* file, live p= and c= when SDM mirrors, else the template's placeholders,  *)
(* which a torn file may or may not still parse as.                          *)
NdefReads ==
  IF nlen = Factory THEN {"nothing"}
  ELSE IF sdm # Factory THEN {"live"}
  ELSE IF HoldsTemplate(nlen) THEN {"placeholders"} ELSE {"nothing", "placeholders"}

(* p= decrypts under K1 and c= verifies under K2.                            *)
PiccVerifies == keys[1] = given[1] /\ keys[2] = given[2]

PassGate(how) ==
  /\ gate' = how /\ stage' = "k0" /\ attempt' = 0
  /\ UNCHANGED <<hostVars, cli, given, flag, diag, idx, failures>>

(* Mutant: the gate rests on c= alone.                                       *)
WipePreVerifyMacOnly ==
  /\ stage = "preverify" /\ CardRead /\ NoAuth
  /\ \/ flag /\ PassGate("skipped")
     \/ ~flag /\ "placeholders" \in NdefReads /\ PassGate("skipped")
     \/ ~flag /\ "live" \in NdefReads /\ keys[2] = given[2] /\ PassGate("verified")
     \/ ~flag /\ Quit

(* pre_verify_pc, or --skip-preverify.                                       *)
WipePreVerify ==
  /\ stage = "preverify" /\ CardRead /\ NoAuth
  /\ \/ flag /\ PassGate("skipped")
     \/ ~flag /\ "placeholders" \in NdefReads /\ PassGate("skipped")
     \/ ~flag /\ "live" \in NdefReads /\ PiccVerifies /\ PassGate("verified")
     \/ ~flag /\ Quit

WipeK0 ==
  /\ stage = "k0"
  /\ AuthK0(given[0], To(IF cli = "rawwipe" THEN "slots" ELSE "runWipe"),
            Again(Retries), Recorded(Exit), Recorded(Exit))

(* With raw keys every other slot is authenticated before the first write.   *)
(* The counters of these slots are not followed: any of them may be delayed. *)
WipeRawSlot ==
  /\ stage = "slots" /\ NoAuth
  /\ \/ /\ keys[idx] = given[idx] /\ CardAuthenticate(idx)
        /\ idx' = idx + 1 /\ stage' = IF idx < N THEN "slots" ELSE "runWipe"
        /\ attempt' = 0 /\ UNCHANGED <<hostVars, cliVars, failures>>
     \/ CardReset /\ (Again(Retries) \/ Recorded(Exit))

CliWipe ==
  /\ stage = "runWipe" /\ NoAuth
  /\ Begin("wipe", Factory, 0, given[0], given)
  /\ stage' = "lib" /\ UNCHANGED <<cliVars, idx, attempt, failures>>

------------------------------------------------------------------------------
(* The library operation, and testck, run to their end.                      *)

CliTestck ==
  /\ stage = "runTestck" /\ NoAuth
  /\ StartTestck
  /\ stage' = "lib" /\ UNCHANGED <<cliVars, idx, attempt, failures>>

(* Inside the library too a rejected key counts, and an accepted one clears  *)
(* the counter.                                                              *)
LibStep ==
  /\ stage = "lib" /\ Step
  /\ outcome' # "delay"
  /\ pc \in {"auth", "reauth"} => delay = 0
  /\ IF outcome' = "auth" THEN CountWrong
     ELSE /\ seq' = IF session' = 0 THEN 0 ELSE seq
          /\ UNCHANGED <<delay, wrong>>
  /\ UNCHANGED <<cliVars, stage, idx, attempt, failures>>

LibDelayed ==
  /\ stage = "lib" /\ pc = "auth" /\ delay > 0
  /\ delay' = delay - 1 /\ CardReset /\ End("delay")
  /\ UNCHANGED <<cliVars, stage, idx, attempt, failures, seq, wrong>>

(* The command ends with the operation; cycle goes on with wipe, then burn.  *)
LibReturns ==
  /\ stage = "lib" /\ pc = "idle" /\ CardRead /\ NoAuth
  /\ IF cli = "cycle" /\ outcome = "ok" /\ idx < 3
       THEN /\ stage' = "preflight" /\ idx' = idx + 1
            /\ UNCHANGED <<hostVars, cliVars, attempt, failures>>
       ELSE Quit

------------------------------------------------------------------------------
(* diagnose                                                                  *)

classify_card_state(authDelay, d) ==
  CASE authDelay -> "AUTH_DELAY"
    [] ~authDelay /\ ~d.sdm /\ ~d.ndef -> IF d.factory THEN "BLANK" ELSE "INCONSISTENT"
    [] ~authDelay /\ d.sdm /\ d.ndef   -> "PROVISIONED"
    [] OTHER -> "HALF-WIPED"

Diagnosed(d, next) ==
  /\ diag' = d /\ stage' = next /\ attempt' = 0
  /\ UNCHANGED <<hostVars, cli, given, flag, gate, idx, failures>>

Concluded(authDelay, d) ==
  Diagnosed([d EXCEPT !.state = classify_card_state(authDelay, d)], "idle")

(* Mutant: the factory key is tried on every card.                           *)
DiagnoseReadsProbesAlways ==
  /\ stage = "diag" /\ CardRead /\ NoAuth
  /\ \E ok \in BOOLEAN, reads \in NdefReads :
       Diagnosed([NoDiag EXCEPT !.read = ok, !.sdm = ok /\ sdm # Factory,
                    !.ndef = ok /\ reads # "nothing",
                    !.picc = ok /\ reads = "live" /\ PiccVerifies], "diagFactory")

(* UID, version, file settings and NDEF, all unauthenticated: what cannot be *)
(* read counts as absent.                                                    *)
DiagnoseReads ==
  /\ stage = "diag" /\ CardRead /\ NoAuth
  /\ \/ Quit
     \/ \E seen, readable \in BOOLEAN, reads \in NdefReads :
          LET d == [NoDiag EXCEPT
                      !.read = seen /\ readable,
                      !.sdm  = seen /\ sdm # Factory,
                      !.ndef = readable /\ reads # "nothing",
                      !.picc = seen /\ readable /\ reads = "live" /\ PiccVerifies]
          IN  IF ~d.sdm /\ ~d.ndef THEN Diagnosed(d, "diagFactory")
              ELSE IF ~d.picc      THEN Diagnosed(d, "diagStatic")
              ELSE Concluded(FALSE, d)

DiagnoseFactory ==
  /\ stage = "diagFactory"
  /\ AuthK0(Factory, Concluded(FALSE, [diag EXCEPT !.factory = TRUE]),
            Concluded(TRUE, diag), Diagnosed(diag, "diagStatic"),
            Diagnosed(diag, "diagStatic"))

DiagnoseStatic ==
  /\ stage = "diagStatic"
  /\ AuthK0(StaticTest, Concluded(FALSE, diag), Concluded(FALSE, diag),
            Concluded(FALSE, diag), Concluded(FALSE, diag))

------------------------------------------------------------------------------
(* The other commands that authenticate.                                     *)

KeyverGiven ==
  /\ stage = "kvGiven"
  /\ \/ AuthK0(given[0], Quit, To("kvFactory"), To("kvFactory"), To("kvFactory"))
     \/ CardRead /\ NoAuth /\ Quit

KeyverFactory ==
  stage = "kvFactory" /\ AuthK0(Factory, Quit, Quit, Quit, Quit)

(* inspect authenticates only when the NDEF file holds a URI.                *)
Inspect ==
  /\ stage = "inspect"
  /\ \/ NdefReads # {"nothing"} /\ AuthK0(given[0], Quit, Quit, Quit, Quit)
     \/ CardRead /\ NoAuth /\ Quit

TryKey ==
  /\ stage = "try"
  /\ AuthK0(given[0], Quit, Again(TryAttempts - 1), Quit, Quit)

NextCandidate ==
  IF idx < Len(Candidates)
    THEN idx' = idx + 1 /\ attempt' = 0 /\ UNCHANGED <<hostVars, cliVars, stage>>
    ELSE Exit

ScanKeys ==
  /\ stage = "scan"
  /\ \/ AuthK0(Candidates[idx], Quit, Again(TryAttempts - 1),
               Recorded(NextCandidate), NextCandidate /\ UNCHANGED failures)
     \/ CardRead /\ NoAuth /\ Quit

CliRemoveCard ==
  /\ RemoveCard /\ NoAuth
  /\ UNCHANGED <<cliVars, stage, idx, attempt, failures>>

------------------------------------------------------------------------------
LaunchAny == LaunchBurn \/ LaunchWipe \/ LaunchRaw \/ LaunchOther \/ LaunchTryKey

CliStep ==
  \/ Preflight \/ BurnCheck \/ BurnProbeFactory \/ BurnProbeProvided \/ CliBurn
  \/ WipeProbe \/ WipeProbe2 \/ WipeAlready \/ WipePreVerify \/ WipeK0
  \/ WipeRawSlot \/ CliWipe \/ CliTestck \/ LibStep \/ LibDelayed \/ LibReturns
  \/ DiagnoseReads \/ DiagnoseFactory \/ DiagnoseStatic
  \/ KeyverGiven \/ KeyverFactory \/ Inspect \/ TryKey \/ ScanKeys

CliNext == LaunchAny \/ CliStep \/ CliRemoveCard

CliSpec == CliInit /\ [][CliNext]_allVars
------------------------------------------------------------------------------
(* Properties                                                                *)

(* Whatever the probes of a command see, and however its exchanges fail, the *)
(* library is only ever driven as CardOps allows: what is proved of CardOps  *)
(* holds for every sequence of CLI commands.                                 *)
DrivesCardOps == Spec

(* A wipe that got past its checks is never refused by the card after it has *)
(* cleared SDM and the NDEF file: with raw keys every slot was authenticated *)
(* first, and a p/c pair that verified binds the slots (wipe.rs, "Verifying  *)
(* raw K1-K4 before any card mutation").                                     *)
VerifiedWipeIsNotRefused ==
  stage = "lib" /\ (cli = "rawwipe" \/ gate = "verified") => outcome # "refused"

(* How many wrong keys for K0 one process can offer the card, at most.       *)
Budget ==
  [none |-> 0, burn |-> 3, wipe |-> 3, rawwipe |-> 3, cycle |-> 5,
   testck |-> 1, diagnose |-> 2, keyver |-> 2, inspect |-> 1,
   scan |-> Len(Candidates), trykey |-> 1]

(* No command spends more of the card's failure counters than its number of  *)
(* probes, whatever is delayed, lost or retried on the way: only 91AD        *)
(* answers are retried (AuthRetry), never a rejection.                       *)
WrongKeyBudget == wrong <= Budget[cli]

(* diagnose is non-destructive: on a card whose SDM mirrors under the issuer *)
(* key it was given, and can be read, it offers no key at all.               *)
DiagnoseSparesHealthyCard ==
  cli = "diagnose" /\ diag.picc => wrong = 0

(* wipe.rs: "The derived path does not need this: p/c pre-verification       *)
(* already binds K1/K2 cryptographically to the UID-derived keyset".  A      *)
(* derived wipe without --skip-preverify would then never be refused half    *)
(* way.                                                                      *)
DerivedWipeIsNotRefused ==
  stage = "lib" /\ cli = "wipe" /\ ~flag => outcome # "refused"
=============================================================================
