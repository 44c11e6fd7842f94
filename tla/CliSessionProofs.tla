-------------------------- MODULE CliSessionProofs ---------------------------
(***************************************************************************)
(* CliSession for every set of issuers, number of slots, retry ladder and  *)
(* list of candidates: the commands drive the library as CardOps allows,   *)
(* spend no more wrong keys than they have probes, and a wipe that got     *)
(* past its checks is never refused half way.                              *)
(***************************************************************************)
EXTENDS CliSession, CardOpsProofs

USE CardAssumption
USE DEF Slots, NonMaster, contents, cardVars, params, hostVars, cliVars, counters

------------------------------------------------------------------------------
(* The inductive invariant.                                                  *)

BurnStages == {"check", "factory", "provided", "runFactory", "runGiven"}
WipeStages == {"probe", "probe2", "already", "preverify", "k0", "slots", "runWipe"}

Wiping == cli \in {"wipe", "rawwipe"} \/ (cli = "cycle" /\ idx = 2)

(* What diagnose can have seen and said.                                     *)
Diagnoses ==
  [read : BOOLEAN, sdm : BOOLEAN, ndef : BOOLEAN, picc : BOOLEAN, factory : BOOLEAN,
   state : {"none", "BLANK", "PROVISIONED", "HALF-WIPED", "AUTH_DELAY", "INCONSISTENT"}]

(* The values the commands work with.                                        *)
CliTypes ==
  /\ cli \in Commands /\ stage \in Stages
  /\ given \in [Slots -> KeySets] /\ flag \in BOOLEAN
  /\ idx \in 1..(N + Len(Candidates))
  /\ attempt \in Nat /\ (attempt <= Retries \/ attempt < TryAttempts)
  /\ failures \in 0..Breaker /\ wrong \in Nat
  /\ gate \in {"none", "verified", "skipped"}
  /\ diag \in Diagnoses
  /\ seq \in 0..SeqLimit /\ delay \in 0..MaxDelay

(* Which command is at which stage, and when the library is running.         *)
CommandAtStage ==
  /\ stage # "lib" => pc = "idle"
  /\ stage # "idle" => failures < Breaker
  /\ stage = "preflight" => cli \in {"burn", "wipe", "rawwipe", "cycle"}
  /\ stage \in BurnStages => Burning
  /\ stage \in WipeStages => Wiping
  /\ stage = "slots" => cli = "rawwipe" /\ idx \in NonMaster
  /\ stage \in {"preflight", "probe", "probe2", "preverify", "k0"} /\ cli = "rawwipe" => idx = 1
  /\ stage = "runTestck" => cli = "testck"
  /\ stage \in {"diag", "diagFactory", "diagStatic"} => cli = "diagnose"
  /\ stage \in {"kvGiven", "kvFactory"} => cli = "keyver"
  /\ stage = "inspect" => cli = "inspect"
  /\ stage = "scan" => cli = "scan" /\ idx <= Len(Candidates)
  /\ stage = "try" => cli = "trykey"
  /\ cli = "cycle" => idx \in 1..3
  /\ stage = "lib" =>
       \/ op = "burn" /\ Burning /\ target = given[0]
       \/ op = "wipe" /\ Wiping
       \/ op = "testck" /\ cli = "testck"

(* burn, wipe and cycle work with the keys of one issuer.                    *)
GivenByIssuer ==
  stage # "idle" /\ cli \in {"burn", "wipe", "cycle"} =>
    \E s \in Issuers : given = Whole(s)

(* What the probes have shown of the card still holds when the library runs: *)
(* its first authentication uses a key that a probe found right.  The last   *)
(* part of a cycle meets the blank card that its wipe left.                  *)
ProbedIsRight ==
  /\ stage = "runFactory" => keys[0] = Factory
  /\ stage = "runGiven" => keys[0] = given[0]
  /\ stage \in {"slots", "runWipe"} => keys[0] = given[0]
  /\ stage = "lib" /\ op # "testck" /\ pc \in {"uid", "auth"} => keys[0] = cur
  /\ cli = "cycle" /\ idx = 3 /\ stage \in {"preflight"} \cup BurnStages => AllSlots(Factory)

(* What the gates of wipe have shown of the other slots.                     *)
GateIsTrue ==
  /\ gate = "verified" /\ stage \in {"k0", "slots", "runWipe"} => PiccVerifies
  /\ gate = "verified" /\ stage # "idle" => Wiping \/ (cli = "cycle" /\ idx = 3)
  /\ stage = "slots" => \A i \in 1..(idx - 1) : keys[i] = given[i]
  /\ stage = "runWipe" /\ cli = "rawwipe" => \A i \in Slots : keys[i] = given[i]
  /\ stage = "lib" /\ (cli = "rawwipe" \/ gate = "verified") =>
       \A i \in Slots : old[i] = atStart[i]

(* Wrong keys a command may have offered when it is at a stage: what earlier *)
(* parts of a cycle spent, and one for each of its own probes.               *)
EarlierParts == IF cli = "cycle" THEN 2 * (idx - 1) ELSE 0

OwnProbes ==
  CASE stage \in {"factory", "runFactory", "probe2", "already", "diagStatic", "kvFactory"} -> 1
    [] stage \in {"provided", "runGiven", "preverify", "k0", "slots", "runWipe"} -> 2
    [] stage = "lib" -> IF op # "testck" THEN 2 ELSE IF pc \in {"uid", "auth"} THEN 0 ELSE 1
    [] stage = "scan" -> idx - 1
    [] OTHER -> 0

Spent ==
  IF stage = "idle" THEN Budget[cli] ELSE
  IF cli = "cycle" /\ idx = 3 THEN 4 ELSE EarlierParts + OwnProbes

(* diagnose offers a key only when p/c did not verify.                       *)
SparedSoFar ==
  /\ stage = "diag" => wrong = 0
  /\ stage \in {"diagFactory", "diagStatic"} => ~diag.picc
  /\ cli = "diagnose" /\ diag.picc => wrong = 0

CliInv ==
  /\ CliTypes /\ CommandAtStage /\ GivenByIssuer
  /\ ProbedIsRight /\ GateIsTrue
  /\ wrong <= Spent /\ SparedSoFar

------------------------------------------------------------------------------
(* What the steps of a command have in common.                               *)

(* The budget of each command.                                               *)
LEMMA BudgetOf ==
  /\ Budget["none"] = 0 /\ Budget["burn"] = 3 /\ Budget["wipe"] = 3 /\ Budget["rawwipe"] = 3
  /\ Budget["cycle"] = 5 /\ Budget["testck"] = 1 /\ Budget["diagnose"] = 2
  /\ Budget["keyver"] = 2 /\ Budget["inspect"] = 1 /\ Budget["scan"] = Len(Candidates)
  /\ Budget["trykey"] = 1
BY DEF Budget

(* The bounds of the code are positive, and there is a candidate to scan.    *)
LEMMA Limits ==
  /\ Retries \in Nat \ {0} /\ TryAttempts \in Nat \ {0} /\ Breaker \in Nat \ {0}
  /\ SeqLimit \in Nat \ {0} /\ MaxDelay \in Nat \ {0} /\ N >= 2
  /\ Len(Candidates) \in Nat \ {0}
BY CliAssumption

(* A step outside the library: the card keeps its contents, the library its  *)
(* state, and the counters of the card stay in range.                        *)
Outside ==
  /\ UNCHANGED contents /\ UNCHANGED hostVars
  /\ session' \in Slots \cup {NoSession}
  /\ seq' \in 0..SeqLimit /\ delay' \in 0..MaxDelay

(* Such a step is a probe or a removal of the card for CardOps.              *)
LEMMA OutsideDrives == ASSUME IInv, pc = "idle", Outside PROVE [Next]_vars
BY DEF Outside, Next, Probe, RemoveCard, CardReset, vars, IInv, TypeOK, CardTypeOK

(* The card's side of such a step.                                           *)
Answered ==
  /\ UNCHANGED contents /\ session' \in Slots \cup {NoSession}
  /\ seq' \in 0..SeqLimit /\ delay' \in 0..MaxDelay

(* The answers to an authentication of K0: a wrong key is counted once.      *)
LEMMA AuthK0Cases ==
  ASSUME IInv, CliTypes
  PROVE  /\ delay = 0 /\ CardAuthenticate(0) /\ seq' = 0 /\ UNCHANGED <<delay, wrong>>
              => Answered /\ wrong' = wrong
         /\ delay > 0 /\ delay' = delay - 1 /\ CardReset /\ UNCHANGED <<seq, wrong>>
              => Answered /\ wrong' = wrong
         /\ delay = 0 /\ CardReset /\ CountWrong => Answered /\ wrong' = wrong + 1
         /\ CardRead /\ UNCHANGED <<counters, wrong>> => Answered /\ wrong' = wrong
<1>1. /\ {SeqLimit, MaxDelay} \subseteq Nat \ {0} /\ seq \in 0..SeqLimit /\ delay \in 0..MaxDelay
      /\ session \in Slots \cup {NoSession} /\ 0 \in Slots
  BY Limits DEF CliTypes, IInv, TypeOK, CardTypeOK
<1>2. delay = 0 /\ CardAuthenticate(0) /\ seq' = 0 /\ UNCHANGED <<delay, wrong>>
        => Answered /\ wrong' = wrong
  BY <1>1 DEF CardAuthenticate, Answered
<1>3. delay > 0 /\ delay' = delay - 1 /\ CardReset /\ UNCHANGED <<seq, wrong>>
        => Answered /\ wrong' = wrong
  BY <1>1 DEF CardReset, Answered
<1>4. delay = 0 /\ CardReset /\ CountWrong => Answered /\ wrong' = wrong + 1
  BY <1>1 DEF CardReset, CountWrong, Answered
<1>5. CardRead /\ UNCHANGED <<counters, wrong>> => Answered /\ wrong' = wrong
  BY <1>1 DEF CardRead, counters, Answered
<1> QED
  BY <1>2, <1>3, <1>4, <1>5

(* The stages at which a command offers a key to K0.                         *)
Probes == {"check", "factory", "provided", "probe", "probe2", "k0", "diagFactory",
           "diagStatic", "kvGiven", "kvFactory", "inspect", "scan", "try"}

(* A command is within its budget, with one wrong key to spare at a probe.   *)
LEMMA WithinBudget ==
  ASSUME CliInv
  PROVE  wrong <= Budget[cli] /\ (stage \in Probes => wrong + 1 <= Budget[cli])
<1>1. /\ cli \in Commands /\ stage \in Stages /\ wrong \in Nat /\ wrong <= Spent
      /\ idx \in 1..(N + Len(Candidates))
  BY DEF CliInv, CliTypes
<1>2. CASE stage = "idle"
  BY <1>1, <1>2 DEF Spent, Probes
<1>3. CASE stage # "idle" /\ cli = "cycle"
  <2>1. idx \in 1..3 /\ stage \in {"preflight", "lib"} \cup BurnStages \cup WipeStages
    BY <1>1, <1>3 DEF CliInv, CommandAtStage, Stages, BurnStages, WipeStages
  <2>2. OwnProbes \in 0..2
    BY <2>1 DEF OwnProbes, BurnStages, WipeStages
  <2>3. wrong <= 4
    <3>1. CASE idx \in {1, 2}
      BY <1>1, <1>3, <2>2, <3>1 DEF Spent, EarlierParts
    <3>2. CASE idx = 3
      BY <1>1, <1>3, <3>2 DEF Spent
    <3> QED
      BY <2>1, <3>1, <3>2
  <2> QED
    BY <1>1, <1>3, <2>3, BudgetOf
<1>4. CASE stage # "idle" /\ cli # "cycle"
  <2>1. wrong <= OwnProbes
    BY <1>1, <1>4, Limits DEF Spent, EarlierParts, OwnProbes
  <2>2. CASE stage \in {"preflight", "lib"} \cup BurnStages \cup WipeStages
    BY <1>1, <1>4, <2>1, <2>2, BudgetOf DEF CliInv, CommandAtStage, OwnProbes, Probes,
       BurnStages, WipeStages, Burning, Wiping
  <2>3. CASE stage \notin {"preflight", "lib"} \cup BurnStages \cup WipeStages
    BY <1>1, <1>4, <2>1, <2>3, BudgetOf, Limits DEF CliInv, CommandAtStage, OwnProbes, Probes,
       BurnStages, WipeStages, Stages
  <2> QED
    BY <2>2, <2>3
<1> QED
  BY <1>2, <1>3, <1>4

(* The process exits within its budget.                                      *)
LEMMA ExitKeeps ==
  ASSUME CliInv, Outside, pc = "idle", Exit,
         failures' \in 0..Breaker, wrong' \in Nat, wrong' <= Budget[cli],
         cli = "diagnose" /\ diag.picc => wrong' = 0
  PROVE  CliInv'
<1>1. /\ stage' = "idle" /\ attempt' = 0 /\ idx' = 1 /\ given' = Whole(Factory)
      /\ flag' = FALSE /\ gate' = "none" /\ cli' = cli /\ diag' = diag
      /\ keys' = keys /\ pc' = "idle"
      /\ seq' \in 0..SeqLimit /\ delay' \in 0..MaxDelay
  BY DEF Exit, Outside
<1>2. CliTypes'
  <2>1. given' \in [Slots -> KeySets] /\ stage' \in Stages
    BY <1>1 DEF Whole, KeySets, Stages
  <2>2. /\ idx' \in 1..(N + Len(Candidates))
        /\ attempt' \in Nat /\ (attempt' <= Retries \/ attempt' < TryAttempts)
    BY <1>1, Limits
  <2>3. flag' \in BOOLEAN /\ gate' \in {"none", "verified", "skipped"}
    BY <1>1, Zenon
  <2> QED
    BY <1>1, <2>1, <2>2, <2>3 DEF CliInv, CliTypes
<1>3. CommandAtStage' /\ GivenByIssuer'
  BY <1>1 DEF CommandAtStage, GivenByIssuer, BurnStages, WipeStages
<1>4. ProbedIsRight' /\ GateIsTrue'
  BY <1>1 DEF ProbedIsRight, GateIsTrue, BurnStages
<1>5. wrong' <= Spent' /\ SparedSoFar'
  BY <1>1 DEF Spent, SparedSoFar, Budget
<1> QED
  BY <1>2, <1>3, <1>4, <1>5 DEF CliInv

(* record_auth_failure keeps the breaker in range.                           *)
LEMMA RecordedCases ==
  ASSUME NEW ACTION goOn, CliInv, stage # "idle", Recorded(goOn)
  PROVE  failures' \in 0..Breaker /\ (Exit \/ (failures' < Breaker /\ goOn))
BY Limits DEF Recorded, CliInv, CliTypes, CommandAtStage

(* The same authentication again, or the end.                                *)
LEMMA AgainKeeps ==
  ASSUME CliInv, Outside, pc = "idle", stage \notin {"idle", "lib"},
         NEW limit \in {Retries, TryAttempts - 1}, Again(limit), wrong' = wrong,
         wrong <= Budget[cli]
  PROVE  CliInv'
<1>1. CASE Quit
  BY <1>1, ExitKeeps DEF Quit, CliInv, CliTypes, SparedSoFar
<1>2. CASE /\ attempt < limit /\ attempt' = attempt + 1
           /\ UNCHANGED <<hostVars, cliVars, stage, idx, failures>>
  <2>1. /\ UNCHANGED <<cli, given, flag, gate, diag, stage, idx, failures, wrong>>
        /\ UNCHANGED <<keys, pc, op, target, cur, old, atStart>>
        /\ seq' \in 0..SeqLimit /\ delay' \in 0..MaxDelay
    BY <1>2 DEF Outside
  <2>2. CliTypes'
    BY <1>2, <2>1, Limits DEF CliInv, CliTypes
  <2>3. CommandAtStage' /\ GivenByIssuer'
    BY <2>1 DEF CliInv, CommandAtStage, GivenByIssuer, Burning, Wiping
  <2>4. ProbedIsRight' /\ GateIsTrue'
    BY <2>1 DEF CliInv, ProbedIsRight, GateIsTrue, PiccVerifies, AllSlots, Wiping
  <2>5. wrong' <= Spent' /\ SparedSoFar'
    BY <2>1 DEF CliInv, Spent, EarlierParts, OwnProbes, SparedSoFar
  <2> QED
    BY <2>2, <2>3, <2>4, <2>5 DEF CliInv
<1> QED
  BY <1>1, <1>2 DEF Again

(* A command goes on to another of its stages.                               *)
LEMMA GoOnKeeps ==
  ASSUME CliInv, Outside, pc = "idle", stage \notin {"idle", "lib"},
         NEW next \in (BurnStages \cup WipeStages \cup {"kvFactory"}) \ {"k0"}, GoOn(next),
         failures' \in 0..Breaker, failures' < Breaker, wrong' \in Nat, wrong' <= Spent',
         next \in BurnStages => Burning,
         next \in WipeStages => Wiping /\ ~Burning,
         next = "kvFactory" => cli = "keyver",
         next \in {"slots", "runWipe"} =>
           stage = "k0" /\ keys[0] = given[0] /\ (next = "slots" <=> cli = "rawwipe"),
         next = "runFactory" => keys[0] = Factory,
         next = "runGiven" => keys[0] = given[0],
         stage \in {"preflight", "check", "factory", "provided", "probe", "probe2", "k0", "kvGiven"}
  PROVE  CliInv'
<1>1. /\ stage' = next /\ attempt' = 0
      /\ UNCHANGED <<cli, given, flag, gate, diag, idx>>
      /\ UNCHANGED <<keys, pc, op, target, cur, old, atStart>>
      /\ seq' \in 0..SeqLimit /\ delay' \in 0..MaxDelay
  BY DEF GoOn, Outside
<1>2. next \in Stages \ {"idle", "lib", "preflight", "diag", "diagFactory", "diagStatic"}
  BY DEF Stages, BurnStages, WipeStages
<1>3. CliTypes'
  BY <1>1, <1>2, Limits DEF CliInv, CliTypes
<1>4. CommandAtStage' /\ GivenByIssuer'
  BY <1>1, <1>2, Limits
     DEF CliInv, CommandAtStage, GivenByIssuer, Burning, Wiping, BurnStages, WipeStages
<1>5. ProbedIsRight'
  BY <1>1, <1>2 DEF CliInv, CommandAtStage, ProbedIsRight, AllSlots, BurnStages,
                     WipeStages, Wiping, Burning
<1>6. GateIsTrue'
  BY <1>1, <1>2 DEF CliInv, CommandAtStage, GateIsTrue, PiccVerifies, Wiping, WipeStages
<1>7. SparedSoFar'
  BY <1>1, <1>2 DEF CliInv, CommandAtStage, SparedSoFar, BurnStages, WipeStages, Burning, Wiping
<1> QED
  BY <1>3, <1>4, <1>5, <1>6, <1>7 DEF CliInv

------------------------------------------------------------------------------
(* burn                                                                      *)

(* Every way a step outside the library can end leaves the library alone.    *)
LEMMA LeavesLibrary ==
  /\ \A next : GoOn(next) \/ To(next) => UNCHANGED hostVars
  /\ Exit \/ Quit => UNCHANGED hostVars
  /\ \A limit : Again(limit) => UNCHANGED hostVars
BY DEF GoOn, To, Exit, Quit, Again

(* In the last part of a cycle the card is blank.                            *)
LEMMA LastPartIsBlank ==
  ASSUME CliInv, cli = "cycle", idx = 3, stage \in {"preflight"} \cup BurnStages
  PROVE  keys[0] = Factory
BY DEF CliInv, ProbedIsRight, AllSlots

(* What earlier parts of a cycle may have spent is a number.                 *)
LEMMA EarlierPartsType == ASSUME CliInv PROVE EarlierParts \in Nat
BY DEF CliInv, CliTypes, EarlierParts

(* The first look at the card sends every command to its own first probe.    *)
LEMMA PreflightStep == ASSUME IInv, CliInv, Preflight PROVE Outside /\ CliInv'
<1>1. stage = "preflight" /\ CardRead /\ NoAuth /\ pc = "idle" /\ wrong' = wrong
  BY DEF Preflight, CliInv, CommandAtStage, NoAuth
<1>2. Outside
  <2>1. UNCHANGED hostVars
    BY LeavesLibrary, Zenon DEF Preflight
  <2> QED
    BY <1>1, <2>1 DEF Outside, CardRead, NoAuth, CliInv, CliTypes, IInv, TypeOK, CardTypeOK
<1>3. CASE Quit
  BY <1>1, <1>2, <1>3, ExitKeeps, WithinBudget DEF Quit, CliInv, CliTypes, SparedSoFar
<1>4. CASE To(IF ~Burning THEN "probe" ELSE IF flag THEN "factory" ELSE "check")
  <2>1. PICK next \in {"probe", "factory", "check"} :
          To(next) /\ (next = "probe" <=> ~Burning)
    BY <1>4
  <2>2. GoOn(next) /\ UNCHANGED <<cli, idx, failures>> /\ stage' = next
    BY <2>1 DEF To, GoOn
  <2>3. wrong' <= Spent'
    BY <1>1, <2>2 DEF CliInv, CliTypes, Spent, EarlierParts, OwnProbes
  <2>4. Burning \/ Wiping
    BY <1>1 DEF CliInv, CommandAtStage, Burning, Wiping
  <2> QED
    BY <1>1, <1>2, <2>1, <2>2, <2>3, <2>4, GoOnKeeps
       DEF CliInv, CliTypes, CommandAtStage, BurnStages, WipeStages
<1> QED
  BY <1>2, <1>3, <1>4 DEF Preflight

(* The state check of burn spends its one probe and learns nothing.          *)
LEMMA BurnCheckStep == ASSUME IInv, CliInv, BurnCheck PROVE Outside /\ CliInv'
<1>1. stage = "check" /\ pc = "idle" /\ Burning
  BY DEF BurnCheck, CliInv, CommandAtStage, BurnStages
<1>2. /\ UNCHANGED contents /\ session' \in Slots \cup {NoSession}
      /\ seq' \in 0..SeqLimit /\ delay' \in 0..MaxDelay
      /\ \/ wrong' = wrong /\ (To("factory") \/ Again(Retries))
         \/ keys[0] # Factory /\ wrong' = wrong + 1 /\ To("factory")
  <2>1. CliTypes /\ AuthK0(Factory, To("factory"), Again(Retries), To("factory"), To("factory"))
    BY DEF BurnCheck, CliInv
  <2> QED
    BY <2>1, AuthK0Cases, Zenon DEF AuthK0, Answered
<1>3. Outside
  BY <1>2, LeavesLibrary, Zenon DEF Outside
<1>4. CASE To("factory")
  <2>1. GoOn("factory") /\ UNCHANGED <<cli, idx, failures>> /\ stage' = "factory"
    BY <1>4 DEF To, GoOn
  <2>2. EarlierParts' = EarlierParts /\ EarlierParts \in Nat
    BY <2>1, EarlierPartsType DEF EarlierParts
  <2>3. wrong' \in Nat /\ wrong' <= Spent'
    BY <1>1, <1>2, <2>1, <2>2, LastPartIsBlank DEF CliInv, CliTypes, Spent, OwnProbes, BurnStages
  <2> QED
    BY <1>1, <1>3, <2>1, <2>3, GoOnKeeps
       DEF CliInv, CliTypes, CommandAtStage, BurnStages, WipeStages
<1>5. CASE Again(Retries) /\ wrong' = wrong
  BY <1>1, <1>3, <1>5, AgainKeeps, WithinBudget
<1> QED
  BY <1>2, <1>3, <1>4, <1>5

(* An accepted factory key is the key the library will start with.           *)
LEMMA BurnProbeFactoryStep == ASSUME IInv, CliInv, BurnProbeFactory PROVE Outside /\ CliInv'
<1>1. stage = "factory" /\ pc = "idle" /\ Burning
  BY DEF BurnProbeFactory, CliInv, CommandAtStage, BurnStages
<1>2. /\ UNCHANGED contents /\ session' \in Slots \cup {NoSession}
      /\ seq' \in 0..SeqLimit /\ delay' \in 0..MaxDelay
      /\ \/ keys[0] = Factory /\ wrong' = wrong /\ To("runFactory")
         \/ wrong' = wrong /\ (Again(Retries) \/ Recorded(GoOn("provided")))
         \/ keys[0] # Factory /\ wrong' = wrong + 1 /\ Recorded(GoOn("provided"))
  <2>1. CliTypes /\ AuthK0(Factory, To("runFactory"), Again(Retries),
                           Recorded(GoOn("provided")), Recorded(GoOn("provided")))
    BY DEF BurnProbeFactory, CliInv
  <2> QED
    BY <2>1, AuthK0Cases, Zenon DEF AuthK0, Answered
<1>3. Recorded(GoOn("provided")) =>
        failures' \in 0..Breaker /\ (Exit \/ (failures' < Breaker /\ GoOn("provided")))
  BY <1>1, RecordedCases
<1>4. Outside
  BY <1>2, <1>3, LeavesLibrary, Zenon DEF Outside
<1>5. ASSUME NEW next \in {"runFactory", "provided"}, GoOn(next),
             failures' \in 0..Breaker, failures' < Breaker,
             next = "runFactory" => keys[0] = Factory /\ wrong' = wrong
      PROVE  CliInv'
  <2>1. stage' = next /\ UNCHANGED <<cli, idx>>
    BY <1>5 DEF GoOn
  <2>2. EarlierParts' = EarlierParts /\ EarlierParts \in Nat
    BY <2>1, EarlierPartsType DEF EarlierParts
  <2>3. wrong' \in Nat /\ wrong' <= Spent'
    <3>1. wrong' \in {wrong, wrong + 1} /\ (keys[0] = Factory => wrong' = wrong)
      BY <1>2
    <3>2. /\ wrong \in Nat /\ stage' # "idle"
          /\ cli = "cycle" /\ idx = 3 => wrong <= 4 /\ wrong' = wrong
          /\ ~(cli = "cycle" /\ idx = 3) => wrong <= EarlierParts + 1
      <4>1. cli = "cycle" /\ idx = 3 => keys[0] = Factory
        BY <1>1, LastPartIsBlank, Zenon DEF BurnStages
      <4> QED
        BY <1>1, <1>5, <2>1, <3>1, <4>1 DEF CliInv, CliTypes, Spent, OwnProbes
    <3>3. OwnProbes' = IF next = "runFactory" THEN 1 ELSE 2
      BY <1>5, <2>1 DEF OwnProbes
    <3> QED
      BY <1>5, <2>1, <2>2, <3>1, <3>2, <3>3 DEF Spent
  <2> QED
    BY <1>1, <1>4, <1>5, <2>3, GoOnKeeps DEF BurnStages, WipeStages
<1>6. CASE Again(Retries) /\ wrong' = wrong
  BY <1>1, <1>4, <1>6, AgainKeeps, WithinBudget
<1>7. CASE To("runFactory") /\ keys[0] = Factory /\ wrong' = wrong
  <2>1. GoOn("runFactory") /\ failures' \in 0..Breaker /\ failures' < Breaker
    BY <1>1, <1>7 DEF To, CliInv, CliTypes, CommandAtStage
  <2> QED
    BY <1>4, <1>5, <1>7, <2>1
<1>8. CASE Exit /\ failures' \in 0..Breaker
  BY <1>1, <1>2, <1>4, <1>8, ExitKeeps, WithinBudget
     DEF CliInv, CliTypes, Probes, Burning
<1> QED
  BY <1>2, <1>3, <1>4, <1>5, <1>6, <1>7, <1>8

(* An accepted issuer key is the key the library will start with.            *)
LEMMA BurnProbeProvidedStep == ASSUME IInv, CliInv, BurnProbeProvided PROVE Outside /\ CliInv'
<1>1. stage = "provided" /\ pc = "idle" /\ Burning
  BY DEF BurnProbeProvided, CliInv, CommandAtStage, BurnStages
<1>2. /\ UNCHANGED contents /\ session' \in Slots \cup {NoSession}
      /\ seq' \in 0..SeqLimit /\ delay' \in 0..MaxDelay
      /\ \/ keys[0] = given[0] /\ wrong' = wrong /\ To("runGiven")
         \/ wrong' = wrong /\ (Again(Retries) \/ Recorded(Exit))
         \/ wrong' = wrong + 1 /\ Recorded(Exit)
  <2>1. CliTypes /\ AuthK0(given[0], To("runGiven"), Again(Retries), Recorded(Exit), Recorded(Exit))
    BY DEF BurnProbeProvided, CliInv
  <2> QED
    BY <2>1, AuthK0Cases, Zenon DEF AuthK0, Answered
<1>3. Recorded(Exit) => failures' \in 0..Breaker /\ Exit
  BY <1>1, RecordedCases
<1>4. Outside
  BY <1>2, <1>3, LeavesLibrary, Zenon DEF Outside
<1>5. CASE To("runGiven") /\ keys[0] = given[0] /\ wrong' = wrong
  <2>1. GoOn("runGiven") /\ UNCHANGED <<cli, idx, failures>> /\ stage' = "runGiven"
    BY <1>5 DEF To, GoOn
  <2>2. wrong' \in Nat /\ wrong' <= Spent'
    BY <1>1, <1>5, <2>1 DEF CliInv, CliTypes, Spent, EarlierParts, OwnProbes
  <2> QED
    BY <1>1, <1>4, <1>5, <2>1, <2>2, GoOnKeeps, Zenon
       DEF CliInv, CliTypes, CommandAtStage, BurnStages, WipeStages
<1>6. CASE Again(Retries) /\ wrong' = wrong
  BY <1>1, <1>4, <1>6, AgainKeeps, WithinBudget
<1>7. CASE Exit /\ failures' \in 0..Breaker
  <2>1. wrong' \in Nat /\ wrong' <= Budget[cli] /\ cli # "diagnose"
    BY <1>1, <1>2, WithinBudget DEF CliInv, CliTypes, Probes, Burning
  <2> QED
    BY <1>1, <1>4, <1>7, <2>1, ExitKeeps
<1> QED
  BY <1>2, <1>3, <1>4, <1>5, <1>6, <1>7, Zenon

------------------------------------------------------------------------------
(* wipe                                                                      *)

(* wipe goes from one of its probes to the next.                             *)
LEMMA WipeMoves ==
  ASSUME CliInv, Outside, NEW next \in {"probe2", "already", "preverify"}, To(next),
         stage = (IF next = "probe2" THEN "probe" ELSE "probe2"),
         wrong' \in {wrong, wrong + 1}, next = "already" => wrong' = wrong
  PROVE  CliInv'
<1>1. GoOn(next) /\ UNCHANGED <<cli, idx, failures>> /\ stage' = next
  BY DEF To, GoOn
<1>2. pc = "idle" /\ Wiping /\ ~Burning /\ ~(cli = "cycle" /\ idx = 3)
  BY DEF CliInv, CommandAtStage, WipeStages, Wiping, Burning
<1>3. EarlierParts' = EarlierParts /\ EarlierParts \in Nat
  BY <1>1, EarlierPartsType DEF EarlierParts
<1>4. wrong' \in Nat /\ wrong' <= Spent'
  BY <1>1, <1>2, <1>3 DEF CliInv, CliTypes, Spent, OwnProbes
<1>5. failures' \in 0..Breaker /\ failures' < Breaker
  BY <1>1 DEF CliInv, CliTypes, CommandAtStage
<1> QED
  BY <1>1, <1>2, <1>4, <1>5, GoOnKeeps DEF BurnStages, WipeStages

(* A command that stops without having learnt anything new.                  *)
LEMMA QuitKeeps ==
  ASSUME CliInv, Outside, pc = "idle", Quit, wrong' = wrong
  PROVE  CliInv'
BY ExitKeeps, WithinBudget DEF Quit, CliInv, CliTypes, SparedSoFar

(* The first factory probe of wipe.                                          *)
LEMMA WipeProbeStep == ASSUME IInv, CliInv, WipeProbe PROVE Outside /\ CliInv'
<1>1. stage = "probe" /\ pc = "idle"
  BY DEF WipeProbe, CliInv, CommandAtStage
<1>2. CliTypes /\ AuthK0(Factory, Quit, To("probe2"), To("probe2"), To("probe2"))
  BY DEF WipeProbe, CliInv
<1>3. /\ UNCHANGED contents /\ session' \in Slots \cup {NoSession}
      /\ seq' \in 0..SeqLimit /\ delay' \in 0..MaxDelay
      /\ \/ wrong' = wrong /\ (Quit \/ To("probe2"))
         \/ wrong' = wrong + 1 /\ To("probe2")
  BY <1>2, AuthK0Cases, Zenon DEF AuthK0, Answered
<1>4. Outside
  BY <1>3, LeavesLibrary, Zenon DEF Outside
<1> QED
  BY <1>1, <1>3, <1>4, QuitKeeps, WipeMoves

(* The second one.                                                           *)
LEMMA WipeProbe2Step == ASSUME IInv, CliInv, WipeProbe2 PROVE Outside /\ CliInv'
<1>1. stage = "probe2" /\ pc = "idle"
  BY DEF WipeProbe2, CliInv, CommandAtStage
<1>2. CliTypes /\ AuthK0(Factory, To("already"), To("preverify"), To("preverify"), To("preverify"))
  BY DEF WipeProbe2, CliInv
<1>3. /\ UNCHANGED contents /\ session' \in Slots \cup {NoSession}
      /\ seq' \in 0..SeqLimit /\ delay' \in 0..MaxDelay
      /\ \/ wrong' = wrong /\ (To("already") \/ To("preverify"))
         \/ wrong' = wrong + 1 /\ To("preverify")
  BY <1>2, AuthK0Cases, Zenon DEF AuthK0, Answered
<1>4. Outside
  BY <1>3, LeavesLibrary, Zenon DEF Outside
<1> QED
  BY <1>1, <1>3, <1>4, WipeMoves

(* Reading the card without authenticating changes nothing that counts.      *)
LEMMA ReadsOutside ==
  ASSUME IInv, CliInv, CardRead, NoAuth, UNCHANGED hostVars
  PROVE  Outside /\ wrong' = wrong
BY DEF Outside, CardRead, NoAuth, CliInv, CliTypes, IInv, TypeOK, CardTypeOK

(* A card found blank is only read.                                          *)
LEMMA WipeAlreadyStep == ASSUME IInv, CliInv, WipeAlready PROVE Outside /\ CliInv'
<1>1. Outside /\ wrong' = wrong /\ pc = "idle"
  BY ReadsOutside, LeavesLibrary DEF WipeAlready, CliInv, CommandAtStage
<1> QED
  BY <1>1, QuitKeeps DEF WipeAlready

(* The gate is passed as verified only when p/c verified.                    *)
LEMMA WipePreVerifyStep == ASSUME IInv, CliInv, WipePreVerify PROVE Outside /\ CliInv'
<1>1. stage = "preverify" /\ CardRead /\ NoAuth /\ pc = "idle" /\ Wiping
  BY DEF WipePreVerify, CliInv, CommandAtStage, WipeStages
<1>2. PICK how \in {"skipped", "verified"} :
        Quit \/ (PassGate(how) /\ (how = "verified" => PiccVerifies))
  BY DEF WipePreVerify
<1>3. UNCHANGED hostVars
  BY <1>2, LeavesLibrary DEF PassGate
<1>4. Outside /\ wrong' = wrong
  BY <1>1, <1>3, ReadsOutside
<1>5. CASE PassGate(how) /\ (how = "verified" => PiccVerifies)
  <2>1. /\ gate' = how /\ stage' = "k0" /\ attempt' = 0
        /\ UNCHANGED <<cli, given, flag, diag, idx, failures>>
        /\ UNCHANGED <<keys, pc, op, target, cur, old, atStart>>
        /\ seq' \in 0..SeqLimit /\ delay' \in 0..MaxDelay
    BY <1>4, <1>5 DEF PassGate, Outside
  <2>2. CliTypes'
    BY <1>4, <2>1, Limits DEF CliInv, CliTypes, Stages
  <2>3. CommandAtStage' /\ GivenByIssuer'
    BY <1>1, <2>1
       DEF CliInv, CommandAtStage, GivenByIssuer, Burning, Wiping, BurnStages, WipeStages
  <2>4. ProbedIsRight' /\ GateIsTrue'
    <3>1. (gate = "verified" => PiccVerifies)'
      BY <1>5, <2>1, Zenon DEF PiccVerifies
    <3>2. Wiping'
      BY <1>1, <2>1 DEF Wiping
    <3> QED
      BY <2>1, <3>1, <3>2 DEF ProbedIsRight, GateIsTrue, BurnStages
  <2>5. wrong' <= Spent'
    <3>1. EarlierParts' = EarlierParts /\ EarlierParts \in Nat
      BY <2>1, EarlierPartsType DEF EarlierParts
    <3> QED
      BY <1>1, <1>4, <2>1, <3>1 DEF CliInv, CliTypes, Spent, OwnProbes
  <2>6. SparedSoFar'
    BY <1>4, <2>1 DEF CliInv, SparedSoFar
  <2> QED
    BY <1>4, <2>2, <2>3, <2>4, <2>5, <2>6 DEF CliInv
<1> QED
  BY <1>1, <1>2, <1>4, <1>5, QuitKeeps

(* An accepted K0 is the key the library will start with.                    *)
LEMMA WipeK0Step == ASSUME IInv, CliInv, WipeK0 PROVE Outside /\ CliInv'
<1> DEFINE next == IF cli = "rawwipe" THEN "slots" ELSE "runWipe"
<1>1. stage = "k0" /\ pc = "idle" /\ Wiping /\ ~Burning /\ ~(cli = "cycle" /\ idx = 3)
  BY DEF WipeK0, CliInv, CommandAtStage, WipeStages, Wiping, Burning
<1>2. CliTypes /\ AuthK0(given[0], To(next), Again(Retries), Recorded(Exit), Recorded(Exit))
  BY DEF WipeK0, CliInv
<1>3. /\ UNCHANGED contents /\ session' \in Slots \cup {NoSession}
      /\ seq' \in 0..SeqLimit /\ delay' \in 0..MaxDelay
      /\ \/ keys[0] = given[0] /\ wrong' = wrong /\ To(next)
         \/ wrong' = wrong /\ (Again(Retries) \/ Recorded(Exit))
         \/ wrong' = wrong + 1 /\ Recorded(Exit)
  <2> HIDE DEF next
  <2> QED
    BY <1>2, AuthK0Cases, Zenon DEF AuthK0, Answered
<1>4. Recorded(Exit) => failures' \in 0..Breaker /\ Exit
  BY <1>1, RecordedCases
<1>5. Outside
  BY <1>3, <1>4, LeavesLibrary, Zenon DEF Outside
<1>6. CASE To(next) /\ keys[0] = given[0] /\ wrong' = wrong
  <2>1. GoOn(next) /\ UNCHANGED <<cli, idx, failures>> /\ stage' = next
    BY <1>6 DEF To, GoOn
  <2>2. EarlierParts' = EarlierParts /\ EarlierParts \in Nat
    BY <2>1, EarlierPartsType DEF EarlierParts
  <2>3. wrong' \in Nat /\ wrong' <= Spent'
    BY <1>1, <1>6, <2>1, <2>2 DEF CliInv, CliTypes, Spent, OwnProbes
  <2> QED
    BY <1>1, <1>5, <1>6, <2>1, <2>3, GoOnKeeps, Zenon
       DEF CliInv, CliTypes, CommandAtStage, BurnStages, WipeStages
<1>7. CASE Again(Retries) /\ wrong' = wrong
  BY <1>1, <1>5, <1>7, AgainKeeps, WithinBudget
<1>8. CASE Exit /\ failures' \in 0..Breaker
  <2>1. wrong' \in Nat /\ wrong' <= Budget[cli] /\ cli # "diagnose"
    BY <1>1, <1>3, WithinBudget DEF CliInv, CliTypes, Probes, Wiping
  <2> QED
    BY <1>1, <1>5, <1>8, <2>1, ExitKeeps
<1> QED
  BY <1>3, <1>4, <1>5, <1>6, <1>7, <1>8

(* With raw keys each slot that accepted its key holds it.                   *)
LEMMA WipeRawSlotStep == ASSUME IInv, CliInv, WipeRawSlot PROVE Outside /\ CliInv'
<1>1. /\ stage = "slots" /\ pc = "idle" /\ cli = "rawwipe" /\ idx \in NonMaster
      /\ UNCHANGED <<seq, delay, wrong>>
  BY DEF WipeRawSlot, NoAuth, CliInv, CommandAtStage
<1>2. CASE /\ keys[idx] = given[idx] /\ CardAuthenticate(idx)
           /\ idx' = idx + 1 /\ stage' = IF idx < N THEN "slots" ELSE "runWipe"
           /\ attempt' = 0 /\ UNCHANGED <<hostVars, cliVars, failures>>
  <2>1. Outside
    BY <1>1, <1>2 DEF Outside, CardAuthenticate, CliInv, CliTypes
  <2>2. /\ UNCHANGED <<cli, given, flag, gate, diag, failures, wrong, seq, delay>>
        /\ UNCHANGED <<keys, pc, op, target, cur, old, atStart>>
        /\ stage' \in {"slots", "runWipe"} /\ (stage' = "slots" <=> idx < N)
    BY <1>1, <1>2, Zenon DEF CardAuthenticate
  <2>3. CliTypes'
    BY <1>1, <1>2, <2>2, Limits DEF CliInv, CliTypes, Stages
  <2>4. CommandAtStage' /\ GivenByIssuer'
    BY <1>1, <1>2, <2>2
       DEF CliInv, CommandAtStage, GivenByIssuer, Burning, Wiping, BurnStages, WipeStages
  <2>5. ProbedIsRight'
    BY <1>1, <2>2 DEF CliInv, ProbedIsRight
  <2>6. GateIsTrue'
    <3>1. \A i \in 1..idx : keys[i] = given[i]
      <4>1. \A i \in 1..(idx - 1) : keys[i] = given[i]
        BY <1>1, Zenon DEF CliInv, GateIsTrue
      <4>2. \A i \in 1..idx : i = idx \/ i \in 1..(idx - 1)
        BY <1>1
      <4> QED
        BY <1>2, <4>1, <4>2, Zenon
    <3>2. stage' = "runWipe" => \A i \in Slots : keys[i] = given[i]
      <4>1. keys[0] = given[0]
        BY <1>1, Zenon DEF CliInv, ProbedIsRight
      <4>2. idx \in 1..N /\ N \in Nat
        BY <1>1
      <4>3. ~(idx < N) => \A i \in Slots : i = 0 \/ i \in 1..idx
        BY <4>2
      <4>4. stage' = "runWipe" => ~(idx < N)
        BY <2>2
      <4> QED
        BY <3>1, <4>1, <4>3, <4>4, Zenon
    <3>3. stage' = "slots" => \A i \in 1..(idx' - 1) : keys[i] = given[i]
      <4>1. idx \in Nat
        BY <1>1
      <4>2. idx' = idx + 1
        BY <1>2, Zenon
      <4>3. (idx + 1) - 1 = idx
        BY <4>1
      <4> QED
        BY <3>1, <4>2, <4>3, Zenon
    <3> QED
      BY <1>1, <2>2, <3>2, <3>3 DEF CliInv, GateIsTrue, PiccVerifies, Wiping
  <2>7. wrong' <= Spent' /\ SparedSoFar'
    BY <1>1, <2>2 DEF CliInv, CliTypes, Spent, EarlierParts, OwnProbes, SparedSoFar
  <2> QED
    BY <2>1, <2>3, <2>4, <2>5, <2>6, <2>7 DEF CliInv
<1>3. CASE CardReset /\ (Again(Retries) \/ Recorded(Exit))
  <2>1. Recorded(Exit) => failures' \in 0..Breaker /\ Exit
    BY <1>1, RecordedCases
  <2>2. Outside
    <3>1. UNCHANGED hostVars
      BY <1>3, <2>1, LeavesLibrary, Zenon
    <3> QED
      BY <1>1, <1>3, <3>1 DEF Outside, CardReset, CliInv, CliTypes
  <2>3. CASE Again(Retries)
    BY <1>1, <2>2, <2>3, AgainKeeps, WithinBudget
  <2>4. CASE Recorded(Exit)
    BY <1>1, <2>1, <2>2, <2>4, ExitKeeps, WithinBudget DEF CliInv, CliTypes
  <2> QED
    BY <1>3, <2>2, <2>3, <2>4
<1> QED
  BY <1>2, <1>3, Zenon DEF WipeRawSlot

------------------------------------------------------------------------------
(* The library is called and runs to its end.                                *)

(* What a burn is called with: the keys of one issuer over a card that holds *)
(* the key offered; the last part of a cycle over a blank card.              *)
LEMMA CliBurnStep == ASSUME IInv, CliInv, CliBurn PROVE Next /\ CliInv'
<1> DEFINE c == IF stage = "runFactory" THEN Factory ELSE given[0]
<1>1. PICK v \in BurnVersions : Begin("burn", given[0], v, c, Whole(c))
  BY Zenon DEF CliBurn
<1>2. /\ stage \in {"runFactory", "runGiven"} /\ Burning /\ keys[0] = c
      /\ stage' = "lib" /\ UNCHANGED <<cli, given, flag, gate, diag, idx, attempt, failures>>
      /\ UNCHANGED <<seq, delay, wrong>>
  BY Zenon DEF CliBurn, NoAuth, CliInv, CommandAtStage, ProbedIsRight, BurnStages
<1>3. PICK s \in Issuers : given = Whole(s)
  BY <1>2, Zenon DEF CliInv, GivenByIssuer, Burning
<1>4. given[0] = s
  BY <1>3 DEF Whole
<1>5. Next
  <2>1. c \in {Factory, s} /\ Begin("burn", s, v, c, [i \in Slots |-> c])
    BY <1>1, <1>4, Zenon DEF Whole
  <2> HIDE DEF c
  <2> QED
    BY <2>1, Zenon DEF Next, Start, StartBurn
<1>6. /\ op' = "burn" /\ pc' = "uid" /\ target' = given[0] /\ cur' = c /\ old' = Whole(c)
      /\ atStart' = keys /\ keys' = keys
  BY <1>1 DEF Begin
<1>7. CliTypes'
  BY <1>2, Zenon DEF CliInv, CliTypes, Stages
<1>8. CommandAtStage' /\ GivenByIssuer'
  BY <1>2, <1>6, Zenon DEF CliInv, CommandAtStage, GivenByIssuer, Burning, BurnStages, WipeStages
<1>9. ProbedIsRight'
  BY <1>2, <1>6, Zenon DEF ProbedIsRight, BurnStages
<1>10. GateIsTrue'
  <2>1. ASSUME gate = "verified" PROVE \A i \in Slots : old'[i] = keys[i]
    <3>1. cli = "cycle" /\ idx = 3
      BY <1>2, <2>1 DEF CliInv, GateIsTrue, Burning, Wiping
    <3>2. AllSlots(Factory)
      BY <1>2, <3>1 DEF CliInv, ProbedIsRight, BurnStages
    <3>3. c = Factory
      BY <1>2, <3>2 DEF AllSlots
    <3> QED
      BY <1>6, <3>2, <3>3 DEF AllSlots, Whole
  <2>2. gate = "verified" => Wiping \/ (cli = "cycle" /\ idx = 3)
    BY <1>2 DEF CliInv, GateIsTrue
  <2> QED
    BY <1>2, <1>6, <2>1, <2>2 DEF GateIsTrue, Burning, Wiping
<1>11. wrong' <= Spent' /\ SparedSoFar'
  <2>1. EarlierParts' = EarlierParts /\ EarlierParts \in Nat
    BY <1>2, EarlierPartsType DEF EarlierParts
  <2>2. wrong' <= Spent'
    BY <1>2, <1>6, <2>1 DEF CliInv, CliTypes, Spent, OwnProbes
  <2>3. SparedSoFar'
    BY <1>2 DEF CliInv, SparedSoFar
  <2> QED
    BY <2>2, <2>3
<1> QED
  BY <1>5, <1>7, <1>8, <1>9, <1>10, <1>11 DEF CliInv

(* A p/c pair that verified under the keys of one issuer, and K0 opened with *)
(* them: every slot holds the keys given.                                    *)
LEMMA VerifiedBindsSlots ==
  ASSUME CliInv, MasterBindsSlots, stage = "runWipe", gate = "verified"
  PROVE  \A i \in Slots : keys[i] = given[i]
<1>1. keys[0] = given[0] /\ PiccVerifies /\ Wiping
  BY DEF CliInv, ProbedIsRight, GateIsTrue, CommandAtStage, WipeStages
<1>2. CASE cli = "rawwipe"
  BY <1>2 DEF CliInv, GateIsTrue
<1>3. CASE cli # "rawwipe"
  <2>1. PICK s \in Issuers : given = Whole(s)
    BY <1>1, <1>3 DEF CliInv, GivenByIssuer, Wiping
  <2>2. /\ \A i \in Slots : given[i] = s
        /\ s # Factory /\ 0 \in Slots /\ 1 \in NonMaster /\ NonMaster \subseteq Slots
    BY <2>1 DEF Whole
  <2>3. keys[0] = s /\ keys[1] = s
    BY <1>1, <2>2 DEF PiccVerifies
  <2>4. PICK j \in 0..N : \A i \in NonMaster : keys[i] = IF i <= j THEN Factory ELSE keys[0]
    BY <2>2, <2>3 DEF MasterBindsSlots
  <2>5. j = 0
    BY <2>2, <2>3, <2>4
  <2>6. \A i \in NonMaster : keys[i] = s
    BY <2>3, <2>4, <2>5
  <2> QED
    BY <2>2, <2>3, <2>6
<1> QED
  BY <1>2, <1>3

(* wipe starts the library with keys that are right where its gate said so.  *)
LEMMA CliWipeStep == ASSUME IInv, CliInv, MasterBindsSlots, CliWipe PROVE Next /\ CliInv'
<1>1. Begin("wipe", Factory, 0, given[0], given)
  BY DEF CliWipe
<1>2. /\ stage = "runWipe" /\ Wiping /\ ~(cli = "cycle" /\ idx = 3) /\ keys[0] = given[0]
      /\ stage' = "lib" /\ UNCHANGED <<cli, given, flag, gate, diag, idx, attempt, failures>>
      /\ UNCHANGED <<seq, delay, wrong>>
  BY DEF CliWipe, NoAuth, CliInv, CommandAtStage, ProbedIsRight, WipeStages, Wiping
<1>3. given \in [Slots -> KeySets]
  BY DEF CliInv, CliTypes
<1>4. Next
  BY <1>1, <1>3, Zenon DEF Next, Start, StartWipe
<1>5. /\ op' = "wipe" /\ pc' = "uid" /\ cur' = given[0] /\ old' = given
      /\ atStart' = keys /\ keys' = keys
  BY <1>1 DEF Begin
<1>6. CliTypes'
  BY <1>2 DEF CliInv, CliTypes, Stages
<1>7. CommandAtStage' /\ GivenByIssuer'
  BY <1>2, <1>5 DEF CliInv, CommandAtStage, GivenByIssuer, Wiping, BurnStages, WipeStages
<1>8. ProbedIsRight'
  BY <1>2, <1>5 DEF ProbedIsRight, BurnStages
<1>9. GateIsTrue'
  <2>1. cli = "rawwipe" \/ gate = "verified" => \A i \in Slots : keys[i] = given[i]
    BY <1>2, VerifiedBindsSlots DEF CliInv, GateIsTrue
  <2> QED
    BY <1>2, <1>5, <2>1 DEF GateIsTrue, Wiping
<1>10. wrong' <= Spent' /\ SparedSoFar'
  <2>1. EarlierParts' = EarlierParts /\ EarlierParts \in Nat
    BY <1>2, EarlierPartsType, Zenon DEF EarlierParts
  <2>2. wrong' <= Spent'
    BY <1>2, <1>5, <2>1 DEF CliInv, CliTypes, Spent, OwnProbes
  <2>3. SparedSoFar'
    BY <1>2 DEF CliInv, SparedSoFar
  <2> QED
    BY <2>2, <2>3
<1> QED
  BY <1>4, <1>6, <1>7, <1>8, <1>9, <1>10 DEF CliInv

(* testck starts the library without a probe.                                *)
LEMMA CliTestckStep == ASSUME IInv, CliInv, CliTestck PROVE Next /\ CliInv'
<1>1. /\ stage = "runTestck" /\ cli = "testck" /\ StartTestck
      /\ stage' = "lib" /\ UNCHANGED <<cli, given, flag, gate, diag, idx, attempt, failures>>
      /\ UNCHANGED <<seq, delay, wrong>>
  BY DEF CliTestck, NoAuth, CliInv, CommandAtStage
<1>2. Next
  BY <1>1 DEF Next, Start
<1>3. op' = "testck" /\ pc' = "uid" /\ keys' = keys
  BY <1>1 DEF StartTestck, Begin
<1>4. CliTypes'
  BY <1>1 DEF CliInv, CliTypes, Stages
<1>5. CommandAtStage' /\ GivenByIssuer'
  BY <1>1, <1>3 DEF CliInv, CommandAtStage, GivenByIssuer, BurnStages, WipeStages
<1>6. ProbedIsRight' /\ GateIsTrue'
  BY <1>1, <1>3 DEF CliInv, ProbedIsRight, GateIsTrue, BurnStages, Wiping
<1>7. wrong' <= Spent' /\ SparedSoFar'
  BY <1>1, <1>3 DEF CliInv, CliTypes, Spent, EarlierParts, OwnProbes, SparedSoFar
<1> QED
  BY <1>2, <1>4, <1>5, <1>6, <1>7 DEF CliInv

(* The keys that burn and wipe are called with are never rejected: only      *)
(* testck, which does not probe, can spend a wrong key inside the library.   *)
LEMMA LibStepKeeps == ASSUME IInv, CliInv, LibStep PROVE Next /\ CliInv'
<1>1. /\ stage = "lib" /\ Step
      /\ UNCHANGED <<cli, given, flag, gate, diag, stage, idx, attempt, failures>>
  BY DEF LibStep
<1>2. Next
  BY <1>1 DEF Next
<1>3. /\ op' = op /\ target' = target /\ cur' = cur /\ old' = old /\ atStart' = atStart
      /\ op \in {"burn", "wipe", "testck"} /\ pc # "idle"
  BY <1>1, StepKeepsParams
<1>4. /\ outcome' = "auth" => op = "testck" /\ pc = "auth" /\ pc' = "idle"
      /\ pc' \in {"uid", "auth"} => pc = "uid" /\ keys' = keys
  <2>1. pc = "reauth" /\ op # "testck" => keys[0] = target
    BY <1>3 DEF IInv, KeyProgress, AllSlots
  <2>2. op = "testck" => pc # "reauth"
    BY <1>1, TestckHasNoReauth
  <2>3. pc = "auth" /\ op # "testck" => keys[0] = cur
    BY <1>1 DEF CliInv, ProbedIsRight
  <2> QED
    BY <1>1, <2>1, <2>2, <2>3, StepOutcome DEF Offered
<1>5. /\ seq' \in 0..SeqLimit /\ delay' \in 0..MaxDelay
      /\ wrong' = IF outcome' = "auth" THEN wrong + 1 ELSE wrong
  BY Limits DEF LibStep, CountWrong, CliInv, CliTypes
<1>6. CliTypes'
  BY <1>1, <1>5 DEF CliInv, CliTypes
<1>7. CommandAtStage' /\ GivenByIssuer'
  BY <1>1, <1>3 DEF CliInv, CommandAtStage, GivenByIssuer, Burning, Wiping, BurnStages, WipeStages
<1>8. ProbedIsRight' /\ GateIsTrue'
  BY <1>1, <1>3, <1>4, Zenon DEF CliInv, ProbedIsRight, GateIsTrue, BurnStages, Wiping
<1>9. wrong' <= Spent'
  <2>1. EarlierParts' = EarlierParts /\ EarlierParts \in Nat
    BY <1>1, EarlierPartsType DEF EarlierParts
  <2>2. op = "testck" => cli # "cycle"
    BY <1>1 DEF CliInv, CommandAtStage
  <2> QED
    BY <1>1, <1>3, <1>4, <1>5, <2>1, <2>2 DEF CliInv, CliTypes, Spent, OwnProbes
<1>10. SparedSoFar'
  <2>1. cli # "diagnose"
    BY <1>1 DEF CliInv, CommandAtStage, Burning, Wiping
  <2> QED
    BY <1>1, <2>1 DEF SparedSoFar
<1> QED
  BY <1>2, <1>6, <1>7, <1>8, <1>9, <1>10 DEF CliInv

(* A refused first authentication (91AD) is a failure CardOps knows.         *)
LEMMA LibDelayedStep == ASSUME IInv, CliInv, LibDelayed PROVE Next /\ CliInv'
<1>1. /\ stage = "lib" /\ pc = "auth" /\ CardReset /\ End("delay")
      /\ UNCHANGED <<cli, given, flag, gate, diag, stage, idx, attempt, failures, wrong>>
      /\ seq' \in 0..SeqLimit /\ delay' \in 0..MaxDelay
  BY Limits DEF LibDelayed, CliInv, CliTypes
<1>2. op \in {"burn", "wipe", "testck"}
  BY <1>1 DEF CliInv, CommandAtStage
<1>3. Next
  <2>1. BurnAuthenticate \/ WipeAuthenticate \/ TestckAuthenticate
    BY <1>1, <1>2, Zenon
       DEF BurnAuthenticate, WipeAuthenticate, TestckAuthenticate, Authenticate, At
  <2> QED
    BY <2>1, Zenon DEF Next, Step, Burn, Wipe, Testck
<1>4. /\ pc' = "idle" /\ keys' = keys
      /\ UNCHANGED <<op, target, cur, old, atStart>>
  BY <1>1 DEF End, CardReset
<1>5. CliTypes'
  BY <1>1 DEF CliInv, CliTypes
<1>6. CommandAtStage' /\ GivenByIssuer'
  BY <1>1, <1>4 DEF CliInv, CommandAtStage, GivenByIssuer, Burning, Wiping, BurnStages, WipeStages
<1>7. ProbedIsRight' /\ GateIsTrue'
  BY <1>1, <1>4, Zenon DEF CliInv, ProbedIsRight, GateIsTrue, BurnStages, Wiping
<1>8. wrong' <= Spent'
  <2>1. EarlierParts' = EarlierParts /\ EarlierParts \in Nat
    BY <1>1, EarlierPartsType DEF EarlierParts
  <2> QED
    BY <1>1, <1>2, <1>4, <2>1 DEF CliInv, CliTypes, Spent, OwnProbes
<1>9. SparedSoFar'
  BY <1>1 DEF CliInv, SparedSoFar
<1> QED
  BY <1>3, <1>5, <1>6, <1>7, <1>8, <1>9 DEF CliInv

(* cycle goes on with its next part; the burn that ends it meets the blank   *)
(* card that its wipe left.                                                  *)
LEMMA LibReturnsStep == ASSUME IInv, CliInv, LibReturns PROVE Outside /\ CliInv'
<1>1. stage = "lib" /\ pc = "idle" /\ CardRead /\ NoAuth
  BY DEF LibReturns
<1>2. UNCHANGED hostVars
  BY LeavesLibrary DEF LibReturns
<1>3. Outside /\ wrong' = wrong
  BY <1>1, <1>2, ReadsOutside
<1>4. CASE Quit
  BY <1>1, <1>3, <1>4, QuitKeeps
<1>5. CASE /\ cli = "cycle" /\ outcome = "ok" /\ idx < 3
           /\ stage' = "preflight" /\ idx' = idx + 1
           /\ UNCHANGED <<hostVars, cliVars, attempt, failures>>
  <2>0. idx \in 1..3
    BY <1>5, Zenon DEF CliInv, CommandAtStage
  <2>1. /\ stage' = "preflight" /\ idx' = idx + 1 /\ idx \in {1, 2} /\ cli = "cycle"
        /\ UNCHANGED <<cli, given, flag, gate, diag, attempt, failures, wrong>>
        /\ UNCHANGED <<keys, pc, op, target, cur, old, atStart>>
        /\ seq' \in 0..SeqLimit /\ delay' \in 0..MaxDelay
    <3>1. idx \in {1, 2}
      BY <1>5, <2>0
    <3> QED
      BY <1>3, <1>5, <3>1, Zenon DEF Outside
  <2>2. op # "testck" /\ (idx = 2 => AllSlots(Factory))
    BY <1>1, <1>5, Zenon DEF CliInv, CommandAtStage, Burning, IInv, SuccessIsComplete, Ended
  <2>t. idx' \in 1..(N + Len(Candidates)) /\ idx' \in 1..3
    BY <2>1, Limits
  <2>3. CliTypes'
    BY <2>1, <2>t, Zenon DEF CliInv, CliTypes, Stages
  <2>4. CommandAtStage' /\ GivenByIssuer'
    BY <1>1, <2>1, <2>t, Zenon DEF CliInv, CommandAtStage, GivenByIssuer, BurnStages, WipeStages
  <2>5. ProbedIsRight'
    BY <2>1, <2>2 DEF ProbedIsRight, AllSlots, BurnStages
  <2>6. GateIsTrue'
    BY <1>1, <2>1 DEF CliInv, GateIsTrue, Wiping
  <2>7. wrong' <= Spent'
    <3>1. CASE idx = 1
      BY <1>1, <2>1, <2>2, <3>1 DEF CliInv, CliTypes, Spent, EarlierParts, OwnProbes
    <3>2. CASE idx = 2
      BY <1>1, <2>1, <2>2, <3>2 DEF CliInv, CliTypes, Spent, EarlierParts, OwnProbes
    <3> QED
      BY <2>1, <3>1, <3>2
  <2>8. SparedSoFar'
    BY <2>1 DEF SparedSoFar
  <2> QED
    BY <1>3, <2>3, <2>4, <2>5, <2>6, <2>7, <2>8 DEF CliInv
<1> QED
  BY <1>3, <1>4, <1>5 DEF LibReturns

------------------------------------------------------------------------------
(* diagnose                                                                  *)

(* A step of diagnose records what it saw and goes on, or says what it saw.  *)
LEMMA DiagnosedKeeps ==
  ASSUME CliInv, Outside, cli = "diagnose", stage \notin {"idle", "lib"},
         NEW d \in Diagnoses,
         NEW next \in {"idle", "diagFactory", "diagStatic"},
         Diagnosed(d, next), wrong' \in Nat,
         wrong' <= (IF next = "idle" THEN 2 ELSE IF next = "diagStatic" THEN 1 ELSE 0),
         next # "idle" => ~d.picc, d.picc => wrong' = 0
  PROVE  CliInv'
<1>1. /\ diag' = d /\ stage' = next /\ attempt' = 0 /\ pc' = "idle"
      /\ UNCHANGED <<cli, given, flag, gate, idx, failures>>
      /\ seq' \in 0..SeqLimit /\ delay' \in 0..MaxDelay
  BY DEF Diagnosed, Outside, CliInv, CommandAtStage
<1>2. CliTypes'
  BY <1>1, Limits DEF CliInv, CliTypes, Stages
<1>3. CommandAtStage' /\ GivenByIssuer'
  BY <1>1 DEF CliInv, CommandAtStage, GivenByIssuer, BurnStages, WipeStages
<1>4. gate # "verified"
  BY DEF CliInv, GateIsTrue, Wiping
<1>5. ProbedIsRight' /\ GateIsTrue'
  BY <1>1, <1>4, Zenon DEF ProbedIsRight, GateIsTrue, BurnStages
<1>6. wrong' <= Spent' /\ SparedSoFar'
  BY <1>1, BudgetOf DEF Spent, EarlierParts, OwnProbes, SparedSoFar
<1> QED
  BY <1>2, <1>3, <1>5, <1>6 DEF CliInv

(* The verdict of diagnose is one of its five, and leaves what it saw.       *)
LEMMA ConcludedKeeps ==
  ASSUME CliInv, Outside, cli = "diagnose", stage \notin {"idle", "lib"},
         NEW d \in Diagnoses,
         NEW authDelay \in BOOLEAN, Concluded(authDelay, d), wrong' \in Nat, wrong' <= 2,
         d.picc => wrong' = 0
  PROVE  CliInv'
<1> DEFINE e == [d EXCEPT !.state = classify_card_state(authDelay, d)]
<1>1. classify_card_state(authDelay, d) \in {"BLANK", "PROVISIONED", "HALF-WIPED",
                                              "AUTH_DELAY", "INCONSISTENT"}
  BY Zenon DEF classify_card_state
<1>2. /\ e \in Diagnoses
      /\ e.picc = d.picc
  BY <1>1 DEF Diagnoses
<1>3. Diagnosed(e, "idle")
  BY DEF Concluded
<1> HIDE DEF e
<1> QED
  BY <1>2, <1>3, DiagnosedKeeps

(* diagnose offers no key when p/c verified.                                 *)
LEMMA DiagnoseReadsStep == ASSUME IInv, CliInv, DiagnoseReads PROVE Outside /\ CliInv'
<1>1. /\ stage = "diag" /\ CardRead /\ NoAuth /\ pc = "idle" /\ cli = "diagnose" /\ wrong = 0
  BY Zenon DEF DiagnoseReads, CliInv, CommandAtStage, SparedSoFar
<1>2. CASE Quit
  <2>1. Outside /\ wrong' = wrong
    BY <1>1, <1>2, LeavesLibrary, ReadsOutside
  <2> QED
    BY <1>1, <1>2, <2>1, QuitKeeps
<1>3. \/ Quit
      \/ \E d \in Diagnoses :
           \/ ~d.picc /\ Diagnosed(d, "diagFactory")
           \/ ~d.picc /\ Diagnosed(d, "diagStatic")
           \/ Concluded(FALSE, d)
  <2>1. CASE ~Quit
    <3>1. PICK seen \in BOOLEAN, readable \in BOOLEAN, reads \in NdefReads :
            LET d == [NoDiag EXCEPT
                        !.read = seen /\ readable,
                        !.sdm  = seen /\ sdm # Factory,
                        !.ndef = readable /\ reads # "nothing",
                        !.picc = seen /\ readable /\ reads = "live" /\ PiccVerifies]
            IN  IF ~d.sdm /\ ~d.ndef THEN Diagnosed(d, "diagFactory")
                ELSE IF ~d.picc      THEN Diagnosed(d, "diagStatic")
                ELSE Concluded(FALSE, d)
      BY <2>1, Zenon DEF DiagnoseReads
    <3> DEFINE d == [NoDiag EXCEPT
                       !.read = seen /\ readable,
                       !.sdm  = seen /\ sdm # Factory,
                       !.ndef = readable /\ reads # "nothing",
                       !.picc = seen /\ readable /\ reads = "live" /\ PiccVerifies]
    <3>2. d \in Diagnoses /\ (d.picc => d.ndef)
      BY Zenon DEF NoDiag, Diagnoses
    <3>3. \/ ~d.picc /\ Diagnosed(d, "diagFactory")
          \/ ~d.picc /\ Diagnosed(d, "diagStatic")
          \/ Concluded(FALSE, d)
      BY <3>1, <3>2, Zenon
    <3> HIDE DEF d
    <3> QED
      BY <3>2, <3>3, Zenon
  <2> QED
    BY <2>1, Zenon
<1>4. ASSUME NEW d \in Diagnoses,
             \/ ~d.picc /\ Diagnosed(d, "diagFactory")
             \/ ~d.picc /\ Diagnosed(d, "diagStatic")
             \/ Concluded(FALSE, d)
      PROVE  Outside /\ CliInv'
  <2>1. UNCHANGED hostVars
    BY <1>4, Zenon DEF Concluded, Diagnosed
  <2>2. Outside /\ wrong' = 0
    BY <1>1, <2>1, ReadsOutside
  <2>3. wrong' \in Nat /\ wrong' <= 0 /\ wrong' <= 2 /\ wrong' <= 1
    BY <2>2
  <2>4. CASE ~d.picc /\ Diagnosed(d, "diagFactory")
    BY <1>1, <2>2, <2>3, <2>4, DiagnosedKeeps
  <2>5. CASE ~d.picc /\ Diagnosed(d, "diagStatic")
    BY <1>1, <2>2, <2>3, <2>5, DiagnosedKeeps
  <2>6. CASE Concluded(FALSE, d)
    BY <1>1, <2>2, <2>3, <2>6, ConcludedKeeps, Zenon
  <2> QED
    BY <1>4, <2>2, <2>4, <2>5, <2>6, Zenon
<1> QED
  BY <1>2, <1>3, <1>4, Zenon

(* The factory key is offered once.                                          *)
LEMMA DiagnoseFactoryStep == ASSUME IInv, CliInv, DiagnoseFactory PROVE Outside /\ CliInv'
<1> DEFINE e == [diag EXCEPT !.factory = TRUE]
           Blank == Concluded(FALSE, e)
           Delayed == Concluded(TRUE, diag)
           Static == Diagnosed(diag, "diagStatic")
<1>1. /\ stage = "diagFactory" /\ pc = "idle" /\ cli = "diagnose" /\ ~diag.picc
      /\ wrong \in Nat /\ wrong <= 0
  BY DEF DiagnoseFactory, CliInv, CommandAtStage, SparedSoFar, CliTypes, Spent, EarlierParts,
         OwnProbes
<1>2. CliTypes /\ AuthK0(Factory, Blank, Delayed, Static, Static)
  BY Zenon DEF DiagnoseFactory, CliInv
<1>3. /\ diag \in Diagnoses
      /\ e \in Diagnoses
      /\ ~e.picc
  BY <1>1 DEF CliInv, CliTypes, Diagnoses
<1> HIDE DEF e, Blank, Delayed, Static
<1>4. /\ UNCHANGED contents /\ session' \in Slots \cup {NoSession}
      /\ seq' \in 0..SeqLimit /\ delay' \in 0..MaxDelay
      /\ wrong' \in {wrong, wrong + 1}
      /\ Blank \/ Delayed \/ Static
  BY <1>2, AuthK0Cases, Zenon DEF AuthK0, Answered
<1>5. Outside
  BY <1>4, Zenon DEF Outside, Concluded, Diagnosed, Blank, Delayed, Static
<1>6. wrong' \in Nat /\ wrong' <= 1 /\ wrong' <= 2
  BY <1>1, <1>4
<1>7. CASE Blank
  BY <1>1, <1>3, <1>5, <1>6, <1>7, ConcludedKeeps, Zenon DEF Blank
<1>8. CASE Delayed
  BY <1>1, <1>3, <1>5, <1>6, <1>8, ConcludedKeeps, Zenon DEF Delayed
<1>9. CASE Static
  BY <1>1, <1>3, <1>5, <1>6, <1>9, DiagnosedKeeps DEF Static
<1> QED
  BY <1>4, <1>5, <1>7, <1>8, <1>9

(* The static test key is offered once.                                      *)
LEMMA DiagnoseStaticStep == ASSUME IInv, CliInv, DiagnoseStatic PROVE Outside /\ CliInv'
<1> DEFINE Said == Concluded(FALSE, diag)
<1>1. /\ stage = "diagStatic" /\ pc = "idle" /\ cli = "diagnose" /\ ~diag.picc
      /\ wrong \in Nat /\ wrong <= 1
  BY DEF DiagnoseStatic, CliInv, CommandAtStage, SparedSoFar, CliTypes, Spent, EarlierParts,
         OwnProbes
<1>2. CliTypes /\ AuthK0(StaticTest, Said, Said, Said, Said)
  BY Zenon DEF DiagnoseStatic, CliInv
<1> HIDE DEF Said
<1>3. /\ UNCHANGED contents /\ session' \in Slots \cup {NoSession}
      /\ seq' \in 0..SeqLimit /\ delay' \in 0..MaxDelay
      /\ wrong' \in {wrong, wrong + 1} /\ Said
  BY <1>2, AuthK0Cases, Zenon DEF AuthK0, Answered
<1>4. Outside
  BY <1>3, Zenon DEF Outside, Concluded, Diagnosed, Said
<1>5. wrong' \in Nat /\ wrong' <= 2
  BY <1>1, <1>3
<1> QED
  BY <1>1, <1>2, <1>3, <1>4, <1>5, ConcludedKeeps, Zenon DEF CliTypes, Said

------------------------------------------------------------------------------
(* The other commands that authenticate.                                     *)

(* A command that ends with one more authentication.                         *)
LEMMA LastProbeKeeps ==
  ASSUME CliInv, Outside, pc = "idle", stage \in Probes, cli # "diagnose", Exit,
         failures' \in 0..Breaker, wrong' \in {wrong, wrong + 1}
  PROVE  CliInv'
<1>1. wrong' \in Nat /\ wrong' <= Budget[cli]
  <2>1. wrong \in Nat /\ wrong <= Budget[cli] /\ wrong + 1 <= Budget[cli]
    BY WithinBudget DEF CliInv, CliTypes
  <2> QED
    BY <2>1
<1> QED
  BY <1>1, ExitKeeps

(* key-version offers the key given, then the factory key.                   *)
LEMMA KeyverGivenStep == ASSUME IInv, CliInv, KeyverGiven PROVE Outside /\ CliInv'
<1>1. stage = "kvGiven" /\ pc = "idle" /\ cli = "keyver" /\ CliTypes
  BY DEF KeyverGiven, CliInv, CommandAtStage
<1>2. CASE CardRead /\ NoAuth /\ Quit
  <2>1. Outside /\ wrong' = wrong
    BY <1>2, LeavesLibrary, ReadsOutside
  <2> QED
    BY <1>1, <1>2, <2>1, QuitKeeps
<1>3. CASE AuthK0(given[0], Quit, To("kvFactory"), To("kvFactory"), To("kvFactory"))
  <2>1. /\ UNCHANGED contents /\ session' \in Slots \cup {NoSession}
        /\ seq' \in 0..SeqLimit /\ delay' \in 0..MaxDelay
        /\ wrong' \in {wrong, wrong + 1}
        /\ (Quit /\ wrong' = wrong) \/ To("kvFactory")
    BY <1>1, <1>3, AuthK0Cases, Zenon DEF AuthK0, Answered
  <2>2. Outside
    BY <2>1, LeavesLibrary, Zenon DEF Outside
  <2>3. CASE To("kvFactory")
    <3>1. GoOn("kvFactory") /\ UNCHANGED <<cli, idx, failures>> /\ stage' = "kvFactory"
      BY <2>3 DEF To, GoOn
    <3>2. wrong' \in Nat /\ wrong' <= Spent'
      BY <1>1, <2>1, <3>1 DEF CliInv, CliTypes, Spent, EarlierParts, OwnProbes
    <3> QED
      BY <1>1, <2>2, <3>1, <3>2, GoOnKeeps, Zenon
         DEF CliInv, CliTypes, CommandAtStage, BurnStages, WipeStages
  <2> QED
    BY <1>1, <2>1, <2>2, <2>3, QuitKeeps
<1> QED
  BY <1>2, <1>3 DEF KeyverGiven

(* The second key of key-version is its last.                                *)
LEMMA KeyverFactoryStep == ASSUME IInv, CliInv, KeyverFactory PROVE Outside /\ CliInv'
<1>1. stage = "kvFactory" /\ pc = "idle" /\ cli = "keyver" /\ CliTypes
  BY DEF KeyverFactory, CliInv, CommandAtStage
<1>2. AuthK0(Factory, Quit, Quit, Quit, Quit)
  BY DEF KeyverFactory
<1>3. /\ UNCHANGED contents /\ session' \in Slots \cup {NoSession}
      /\ seq' \in 0..SeqLimit /\ delay' \in 0..MaxDelay
      /\ wrong' \in {wrong, wrong + 1} /\ Quit
  BY <1>1, <1>2, AuthK0Cases, Zenon DEF AuthK0, Answered
<1>4. Outside
  BY <1>3, LeavesLibrary, Zenon DEF Outside
<1> QED
  BY <1>1, <1>3, <1>4, LastProbeKeeps DEF Quit, Probes, CliTypes

(* inspect offers one key.                                                   *)
LEMMA InspectStep == ASSUME IInv, CliInv, Inspect PROVE Outside /\ CliInv'
<1>1. stage = "inspect" /\ pc = "idle" /\ cli = "inspect" /\ CliTypes
  BY DEF Inspect, CliInv, CommandAtStage
<1>2. CASE CardRead /\ NoAuth /\ Quit
  <2>1. Outside /\ wrong' = wrong
    BY <1>2, LeavesLibrary, ReadsOutside
  <2> QED
    BY <1>1, <1>2, <2>1, QuitKeeps
<1>3. CASE AuthK0(given[0], Quit, Quit, Quit, Quit)
  <2>1. /\ UNCHANGED contents /\ session' \in Slots \cup {NoSession}
        /\ seq' \in 0..SeqLimit /\ delay' \in 0..MaxDelay
        /\ wrong' \in {wrong, wrong + 1} /\ Quit
    BY <1>1, <1>3, AuthK0Cases, Zenon DEF AuthK0, Answered
  <2>2. Outside
    BY <2>1, LeavesLibrary, Zenon DEF Outside
  <2> QED
    BY <1>1, <2>1, <2>2, LastProbeKeeps DEF Quit, Probes, CliTypes
<1> QED
  BY <1>2, <1>3 DEF Inspect

(* try-key offers one key again only while the card delays it.               *)
LEMMA TryKeyStep == ASSUME IInv, CliInv, TryKey PROVE Outside /\ CliInv'
<1>1. stage = "try" /\ pc = "idle" /\ cli = "trykey" /\ CliTypes
  BY DEF TryKey, CliInv, CommandAtStage
<1>2. AuthK0(given[0], Quit, Again(TryAttempts - 1), Quit, Quit)
  BY DEF TryKey
<1>3. /\ UNCHANGED contents /\ session' \in Slots \cup {NoSession}
      /\ seq' \in 0..SeqLimit /\ delay' \in 0..MaxDelay
      /\ wrong' \in {wrong, wrong + 1}
      /\ Quit \/ (Again(TryAttempts - 1) /\ wrong' = wrong)
  BY <1>1, <1>2, AuthK0Cases, Zenon DEF AuthK0, Answered
<1>4. Outside
  BY <1>3, LeavesLibrary, Zenon DEF Outside
<1>5. CASE Quit
  BY <1>1, <1>3, <1>4, <1>5, LastProbeKeeps DEF Quit, Probes, CliTypes
<1>6. CASE Again(TryAttempts - 1) /\ wrong' = wrong
  BY <1>1, <1>4, <1>6, AgainKeeps, WithinBudget
<1> QED
  BY <1>3, <1>4, <1>5, <1>6

(* scan-keys offers each candidate once, but for delays.                     *)
LEMMA ScanKeysStep == ASSUME IInv, CliInv, ScanKeys PROVE Outside /\ CliInv'
<1>1. /\ stage = "scan" /\ pc = "idle" /\ cli = "scan" /\ CliTypes
      /\ idx <= Len(Candidates) /\ wrong <= idx - 1 /\ wrong \in Nat
  BY DEF ScanKeys, CliInv, CommandAtStage, CliTypes, Spent, EarlierParts, OwnProbes
<1>2. CASE CardRead /\ NoAuth /\ Quit
  <2>1. Outside /\ wrong' = wrong
    BY <1>2, LeavesLibrary, ReadsOutside
  <2> QED
    BY <1>1, <1>2, <2>1, QuitKeeps
<1>3. CASE AuthK0(Candidates[idx], Quit, Again(TryAttempts - 1),
                  Recorded(NextCandidate), NextCandidate /\ UNCHANGED failures)
  <2> DEFINE Skip == NextCandidate /\ UNCHANGED failures
  <2>1. /\ UNCHANGED contents /\ session' \in Slots \cup {NoSession}
        /\ seq' \in 0..SeqLimit /\ delay' \in 0..MaxDelay
        /\ wrong' \in {wrong, wrong + 1}
        /\ \/ Quit
           \/ Again(TryAttempts - 1) /\ wrong' = wrong
           \/ Recorded(NextCandidate)
           \/ Skip
    <3>1. CliTypes /\ AuthK0(Candidates[idx], Quit, Again(TryAttempts - 1),
                             Recorded(NextCandidate), Skip)
      BY <1>1, <1>3, Zenon
    <3> HIDE DEF Skip
    <3> QED
      BY <3>1, AuthK0Cases, Zenon DEF AuthK0, Answered
  <2>2. Recorded(NextCandidate) =>
          failures' \in 0..Breaker /\ (Exit \/ (failures' < Breaker /\ NextCandidate))
    BY <1>1, RecordedCases
  <2>3. Outside
    BY <2>1, <2>2, LeavesLibrary, Zenon DEF Outside, NextCandidate
  <2>4. CASE Exit /\ failures' \in 0..Breaker
    BY <1>1, <2>1, <2>3, <2>4, LastProbeKeeps DEF Probes
  <2>5. CASE Again(TryAttempts - 1) /\ wrong' = wrong
    BY <1>1, <2>3, <2>5, AgainKeeps, WithinBudget
  <2>6. CASE /\ idx < Len(Candidates) /\ idx' = idx + 1 /\ attempt' = 0
             /\ UNCHANGED <<hostVars, cliVars, stage>>
             /\ failures' \in 0..Breaker /\ failures' < Breaker
    <3>1. /\ stage' = "scan" /\ cli' = "scan" /\ idx' = idx + 1 /\ attempt' = 0
          /\ UNCHANGED <<given, flag, gate, diag, pc>>
          /\ seq' \in 0..SeqLimit /\ delay' \in 0..MaxDelay
      BY <1>1, <2>3, <2>6 DEF Outside
    <3>2. wrong' \in Nat /\ wrong' <= idx
      BY <1>1, <2>1 DEF CliTypes
    <3>t. /\ idx' \in 1..(N + Len(Candidates)) /\ idx' <= Len(Candidates)
          /\ attempt' \in Nat /\ attempt' <= Retries
      BY <1>1, <2>6, Limits DEF CliTypes
    <3>3. CliTypes'
      BY <1>1, <2>6, <3>1, <3>2, <3>t, Zenon DEF CliTypes, Stages
    <3>4. CommandAtStage' /\ GivenByIssuer'
      BY <1>1, <2>6, <3>1, <3>t, Zenon
         DEF CliInv, CliTypes, CommandAtStage, GivenByIssuer, BurnStages, WipeStages
    <3>5. ProbedIsRight' /\ GateIsTrue'
      BY <1>1, <3>1, Zenon DEF CliInv, ProbedIsRight, GateIsTrue, BurnStages, Wiping
    <3>6. wrong' <= Spent' /\ SparedSoFar'
      BY <1>1, <3>1, <3>2 DEF CliTypes, Spent, EarlierParts, OwnProbes, SparedSoFar
    <3> QED
      BY <2>3, <3>3, <3>4, <3>5, <3>6 DEF CliInv
  <2>7. failures \in 0..Breaker /\ failures < Breaker
    BY <1>1 DEF CliTypes, CliInv, CommandAtStage
  <2> QED
    BY <2>1, <2>2, <2>3, <2>4, <2>5, <2>6, <2>7, Zenon DEF Quit, NextCandidate
<1> QED
  BY <1>2, <1>3 DEF ScanKeys

------------------------------------------------------------------------------
(* A process starts, the card is taken away, and nothing happens.            *)

(* A new process holds nothing of an earlier one.                            *)
LEMMA LaunchKeeps ==
  ASSUME IInv, CliInv, NEW name \in Commands \ {"none"}, NEW ks \in [Slots -> KeySets],
         NEW f \in BOOLEAN, Launch(name, ks, f),
         name \in {"burn", "wipe", "cycle"} => \E s \in Issuers : ks = Whole(s)
  PROVE  Outside /\ CliInv'
<1>1. /\ stage = "idle" /\ pc = "idle" /\ cli' = name /\ given' = ks /\ flag' = f
      /\ idx' = 1 /\ attempt' = 0 /\ failures' = 0 /\ wrong' = 0
      /\ gate' = "none" /\ diag' = NoDiag
      /\ UNCHANGED <<keys, pc, op, target, cur, old, atStart, seq, delay>>
  BY DEF Launch
<1>2. Outside
  BY Zenon DEF Launch, Outside, CliInv, CliTypes, IInv, TypeOK, CardTypeOK
<1>3. /\ stage' = FirstStage(name)
      /\ stage' \in {"preflight", "runTestck", "diag", "kvGiven", "inspect", "scan", "try"}
      /\ stage' = "preflight" => name \in {"burn", "wipe", "rawwipe", "cycle"}
      /\ stage' = "runTestck" => name = "testck"
      /\ stage' = "diag" => name = "diagnose"
      /\ stage' = "kvGiven" => name = "keyver"
      /\ stage' = "inspect" => name = "inspect"
      /\ stage' = "scan" => name = "scan"
      /\ stage' = "try" => name = "trykey"
  BY DEF Launch, FirstStage, Commands
<1>4. CliTypes'
  <2>1. diag' \in Diagnoses
    BY <1>1, Zenon DEF NoDiag, Diagnoses
  <2>2. flag' \in BOOLEAN /\ gate' \in {"none", "verified", "skipped"}
    BY <1>1, Zenon
  <2>3. stage' \in Stages
    BY <1>3 DEF Stages
  <2>4. /\ idx' \in 1..(N + Len(Candidates)) /\ failures' \in 0..Breaker /\ wrong' \in Nat
        /\ attempt' \in Nat /\ (attempt' <= Retries \/ attempt' < TryAttempts)
    BY <1>1, Limits
  <2> QED
    BY <1>1, <2>1, <2>2, <2>3, <2>4 DEF CliInv, CliTypes
<1>5. CommandAtStage'
  <2>1. failures' < Breaker /\ idx' \in 1..3 /\ idx' <= Len(Candidates)
    BY <1>1, Limits
  <2> QED
    BY <1>1, <1>3, <2>1, Zenon DEF CommandAtStage, BurnStages, WipeStages
<1>6. GivenByIssuer'
  BY <1>1 DEF GivenByIssuer
<1>7. ProbedIsRight' /\ GateIsTrue'
  <2>1. idx' # 3 /\ gate' # "verified"
    BY <1>1
  <2>2. stage' \notin {"runFactory", "runGiven", "slots", "runWipe", "lib"}
    BY <1>3
  <2> QED
    BY <2>1, <2>2, Zenon DEF ProbedIsRight, GateIsTrue
<1>8. wrong' <= Spent'
  BY <1>1, <1>3 DEF Spent, EarlierParts, OwnProbes
<1>9. SparedSoFar'
  BY <1>1, <1>3 DEF SparedSoFar
<1> QED
  BY <1>2, <1>4, <1>5, <1>6, <1>7, <1>8, <1>9 DEF CliInv

(* The keys of a command come from one issuer, but for wipe with raw keys    *)
(* and try-key.                                                              *)
LEMMA LaunchAnyStep == ASSUME IInv, CliInv, LaunchAny PROVE Outside /\ CliInv'
<1>1. \A s \in KeySets : Whole(s) \in [Slots -> KeySets]
  BY DEF Whole
<1>2. Issuers \subseteq KeySets
  BY DEF KeySets
<1>3. CASE LaunchBurn
  <2>1. PICK s \in Issuers, f \in BOOLEAN : Launch("burn", Whole(s), f)
    BY <1>3 DEF LaunchBurn
  <2>2. Whole(s) \in [Slots -> KeySets] /\ "burn" \in Commands \ {"none"}
    BY <1>1, <1>2 DEF Commands
  <2> QED
    BY <2>1, <2>2, LaunchKeeps
<1>4. CASE LaunchWipe
  <2>1. PICK s \in Issuers, f \in BOOLEAN : Launch("wipe", Whole(s), f)
    BY <1>4 DEF LaunchWipe
  <2>2. Whole(s) \in [Slots -> KeySets] /\ "wipe" \in Commands \ {"none"}
    BY <1>1, <1>2 DEF Commands
  <2> QED
    BY <2>1, <2>2, LaunchKeeps
<1>5. CASE LaunchRaw
  <2>1. PICK ks \in [Slots -> KeySets], f \in BOOLEAN : Launch("rawwipe", ks, f)
    BY <1>5 DEF LaunchRaw
  <2>2. "rawwipe" \in Commands \ {"none"}
    BY DEF Commands
  <2> QED
    BY <2>1, <2>2, LaunchKeeps
<1>6. CASE LaunchOther
  <2>1. PICK name \in {"cycle", "testck", "diagnose", "keyver", "inspect", "scan"}, s \in Issuers :
          Launch(name, Whole(s), FALSE)
    BY <1>6, Zenon DEF LaunchOther
  <2>2. Whole(s) \in [Slots -> KeySets] /\ name \in Commands \ {"none"} /\ FALSE \in BOOLEAN
    BY <1>1, <1>2 DEF Commands
  <2> QED
    BY <2>1, <2>2, LaunchKeeps, Zenon
<1>7. CASE LaunchTryKey
  <2>1. PICK s \in KeySets : Launch("trykey", Whole(s), FALSE)
    BY <1>7, Zenon DEF LaunchTryKey
  <2>2. Whole(s) \in [Slots -> KeySets] /\ "trykey" \in Commands \ {"none"} /\ FALSE \in BOOLEAN
    BY <1>1 DEF Commands
  <2> QED
    BY <2>1, <2>2, LaunchKeeps, Zenon
<1> QED
  BY <1>3, <1>4, <1>5, <1>6, <1>7 DEF LaunchAny

(* What the commands know of the card survives its removal.                  *)
LEMMA FrameKeeps ==
  ASSUME CliInv, UNCHANGED <<cli, given, flag, gate, diag, stage, idx, attempt, failures>>,
         UNCHANGED <<keys, pc, op, target, cur, old, atStart, seq, delay, wrong>>
  PROVE  CliInv'
<1>1. CliTypes'
  BY DEF CliInv, CliTypes
<1>2. CommandAtStage' /\ GivenByIssuer'
  BY Zenon DEF CliInv, CommandAtStage, GivenByIssuer, Burning, Wiping
<1>3. ProbedIsRight' /\ GateIsTrue'
  BY Zenon DEF CliInv, ProbedIsRight, GateIsTrue, PiccVerifies, AllSlots, Wiping
<1>4. wrong' <= Spent' /\ SparedSoFar'
  BY DEF CliInv, Spent, EarlierParts, OwnProbes, SparedSoFar
<1> QED
  BY <1>1, <1>2, <1>3, <1>4 DEF CliInv

------------------------------------------------------------------------------
(* Every step of every command.                                              *)

(* Outside the library no command is running there.                          *)
LEMMA OutsideSteps ==
  ASSUME IInv, CliInv,
         \/ LaunchAny
         \/ Preflight \/ BurnCheck \/ BurnProbeFactory \/ BurnProbeProvided
         \/ WipeProbe \/ WipeProbe2 \/ WipeAlready \/ WipePreVerify \/ WipeK0 \/ WipeRawSlot
         \/ LibReturns \/ DiagnoseReads \/ DiagnoseFactory \/ DiagnoseStatic
         \/ KeyverGiven \/ KeyverFactory \/ Inspect \/ TryKey \/ ScanKeys
  PROVE  [Next]_vars /\ CliInv'
<1>1. Outside /\ CliInv'
  BY LaunchAnyStep, PreflightStep, BurnCheckStep, BurnProbeFactoryStep, BurnProbeProvidedStep,
     WipeProbeStep, WipeProbe2Step, WipeAlreadyStep, WipePreVerifyStep, WipeK0Step,
     WipeRawSlotStep, LibReturnsStep, DiagnoseReadsStep, DiagnoseFactoryStep,
     DiagnoseStaticStep, KeyverGivenStep, KeyverFactoryStep, InspectStep, TryKeyStep,
     ScanKeysStep, Zenon
<1>2. stage \notin {"idle", "lib"} => pc = "idle"
  BY DEF CliInv, CommandAtStage
<1>3. pc = "idle"
  <2>1. CASE LaunchAny
    BY <2>1, Zenon
       DEF LaunchAny, LaunchBurn, LaunchWipe, LaunchRaw, LaunchOther, LaunchTryKey, Launch
  <2>2. CASE LibReturns
    BY <2>2 DEF LibReturns
  <2>3. CASE ~LaunchAny /\ ~LibReturns
    <3>1. stage # "lib"
      BY <2>3, Zenon DEF Preflight, BurnCheck, BurnProbeFactory, BurnProbeProvided, WipeProbe,
         WipeProbe2, WipeAlready, WipePreVerify, WipeK0, WipeRawSlot, DiagnoseReads,
         DiagnoseFactory, DiagnoseStatic, KeyverGiven, KeyverFactory, Inspect, TryKey, ScanKeys
    <3> QED
      BY <3>1 DEF CliInv, CommandAtStage
  <2> QED
    BY <2>1, <2>2, <2>3, Zenon
<1> QED
  BY <1>1, <1>3, OutsideDrives

(* Every step of the CLI is one that CardOps allows, and keeps the invariant.*)
LEMMA CliNextKeeps ==
  ASSUME IInv, MasterBindsSlots, CliInv, [CliNext]_allVars
  PROVE  [Next]_vars /\ CliInv'
<1>1. CASE LaunchAny
  BY <1>1, OutsideSteps
<1>2. CASE CliStep
  <2>1. CASE CliBurn \/ CliWipe \/ CliTestck \/ LibStep \/ LibDelayed
    BY <2>1, CliBurnStep, CliWipeStep, CliTestckStep, LibStepKeeps, LibDelayedStep, Zenon
  <2>2. CASE ~(CliBurn \/ CliWipe \/ CliTestck \/ LibStep \/ LibDelayed)
    BY <1>2, <2>2, OutsideSteps, Zenon DEF CliStep
  <2> QED
    BY <2>1, <2>2, Zenon
<1>3. CASE CliRemoveCard
  <2>1. Next
    BY <1>3, Zenon DEF CliRemoveCard, Next
  <2>2. CliInv'
    BY <1>3, FrameKeeps DEF CliRemoveCard, RemoveCard, CardReset, NoAuth
  <2> QED
    BY <2>1, <2>2
<1>4. CASE UNCHANGED allVars
  BY <1>4, FrameKeeps DEF allVars, vars
<1> QED
  BY <1>1, <1>2, <1>3, <1>4, Zenon DEF CliNext

(* A process that has not started yet.                                       *)
LEMMA CliInitKeeps == ASSUME CliInit PROVE Init /\ CliInv
<1>1. Init /\ pc = "idle"
  BY DEF CliInit, Init
<1>2. CliTypes
  <2>1. diag \in Diagnoses /\ flag \in BOOLEAN /\ gate \in {"none", "verified", "skipped"}
    BY Zenon DEF CliInit, NoDiag, Diagnoses
  <2>2. /\ idx \in 1..(N + Len(Candidates)) /\ failures \in 0..Breaker /\ wrong \in Nat
        /\ attempt \in Nat /\ (attempt <= Retries \/ attempt < TryAttempts)
        /\ seq \in 0..SeqLimit /\ delay \in 0..MaxDelay
    BY Limits DEF CliInit
  <2>3. cli \in Commands /\ stage \in Stages /\ given \in [Slots -> KeySets]
    BY DEF CliInit, Commands, Stages, KeySets
  <2> QED
    BY <2>1, <2>2, <2>3 DEF CliTypes
<1>3. CommandAtStage /\ GivenByIssuer
  BY <1>1 DEF CliInit, CommandAtStage, GivenByIssuer, BurnStages, WipeStages
<1>4. ProbedIsRight /\ GateIsTrue
  BY DEF CliInit, ProbedIsRight, GateIsTrue, BurnStages
<1>5. wrong <= Spent /\ SparedSoFar
  BY BudgetOf DEF CliInit, Spent, SparedSoFar
<1> QED
  BY <1>1, <1>2, <1>3, <1>4, <1>5 DEF CliInv

------------------------------------------------------------------------------
(* Theorems                                                                  *)

(* The inductive invariant of bolty-cli, together with those of CardOps that *)
(* it needs.                                                                 *)
THEOREM CliInvariant == CliSpec => [](IInv /\ StagedKeys /\ MasterBindsSlots /\ CliInv)
<1> DEFINE Inv == IInv /\ StagedKeys /\ MasterBindsSlots /\ CliInv
<1>1. CliInit => Inv
  BY CliInitKeeps, InitIInv DEF Init, CardInit, StagedKeys, MasterBindsSlots
<1>2. Inv /\ [CliNext]_allVars => Inv'
  <2> SUFFICES ASSUME Inv, [CliNext]_allVars PROVE Inv'
    OBVIOUS
  <2>1. [Next]_vars /\ CliInv'
    BY CliNextKeeps
  <2> QED
    BY <2>1, NextKeeps, StagedKeysStep, MasterBindsSlotsStep
<1> QED
  BY <1>1, <1>2, PTL DEF CliSpec

(* Whatever the probes of a command see, and however its exchanges fail, the *)
(* library is only ever driven as CardOps allows.                            *)
THEOREM CliDrivesCardOps == CliSpec => DrivesCardOps
<1>1. CliInit => Init
  BY CliInitKeeps
<1>2. IInv /\ MasterBindsSlots /\ CliInv /\ [CliNext]_allVars => [Next]_vars
  BY CliNextKeeps
<1> QED
  BY <1>1, <1>2, CliInvariant, PTL DEF CliSpec, DrivesCardOps, Spec

(* The types of bolty-cli's state.                                           *)
THEOREM CliTypeCorrectness == CliSpec => []CliTypeOK
<1>1. IInv /\ CliInv => CliTypeOK
  BY DEF IInv, CliInv, CliTypes, CliTypeOK, Diagnoses
<1> QED
  BY <1>1, CliInvariant, PTL

(* No command spends more wrong keys than it has probes, whatever is         *)
(* delayed, lost or retried.                                                 *)
THEOREM KeepsWrongKeyBudget == CliSpec => []WrongKeyBudget
<1>1. CliInv => WrongKeyBudget
  BY WithinBudget DEF WrongKeyBudget
<1> QED
  BY <1>1, CliInvariant, PTL

(* diagnose offers no key to a card that it can read and that mirrors under  *)
(* the issuer key it was given.                                              *)
THEOREM SparesHealthyCard == CliSpec => []DiagnoseSparesHealthyCard
<1>1. CliInv => DiagnoseSparesHealthyCard
  BY DEF CliInv, SparedSoFar, DiagnoseSparesHealthyCard
<1> QED
  BY <1>1, CliInvariant, PTL

(* A wipe that got past its checks is never refused after it has cleared SDM *)
(* and the NDEF file.                                                        *)
THEOREM VerifiedWipes == CliSpec => []VerifiedWipeIsNotRefused
<1>1. IInv /\ CliInv => VerifiedWipeIsNotRefused
  BY DEF IInv, CliInv, GateIsTrue, RefusedOnlyIfStagedWrong, VerifiedWipeIsNotRefused
<1> QED
  BY <1>1, CliInvariant, PTL

(* In every sequence of CLI commands, whichever of them fail and wherever,   *)
(* the card goes through its lifecycle.                                      *)
THEOREM CliKeepsLifecycle == CliSpec => KeepsLifecycle
BY CliDrivesCardOps, ImplementsLifecycle, PTL DEF DrivesCardOps
==============================================================================
