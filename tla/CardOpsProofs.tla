---------------------------- MODULE CardOpsProofs ----------------------------
(***************************************************************************)
(* Proofs about CardOps, for any number of slots, pages and issuers.       *)
(***************************************************************************)
EXTENDS CardOps, TLAPS

USE CardAssumption, BurnVersionsAssumption
USE DEF Slots, NonMaster, Pages, KeySets, contents, cardVars, params, hostVars

(* What is left to show of IInv when an operation ends with an error other   *)
(* than a refusal: only the facts about the card.                            *)
LEMMA EndKeeps ==
  ASSUME IInv, pc # "idle",
         NEW r \in Outcomes \ {"ok", "refused"}, End(r),
         CardTypeOK', SdmOverWholeTemplate', InterruptedKeepsMaster',
         TornIsPrefix', op = "testck" => keys'[0] = atStart[0]
  PROVE  IInv'
<1>1. /\ pc' = "idle" /\ outcome' = r
      /\ op' = op /\ target' = target /\ ver' = ver /\ cur' = cur
      /\ old' = old /\ atStart' = atStart /\ k' = k
  BY DEF End
<1>2. TypeOK'
  BY <1>1 DEF IInv, TypeOK, Labels, Outcomes
<1>3. KeyProgress' /\ VersionProgress'
  BY <1>1 DEF KeyProgress, VersionProgress, Preparing
<1>4. BurnFileProgress' /\ WipeFileProgress' /\ TestckProgress'
  BY <1>1 DEF IInv, BurnFileProgress, WipeFileProgress, TestckProgress, Keying
<1>5. SuccessIsComplete' /\ RefusedOnlyIfStagedWrong'
  BY <1>1 DEF SuccessIsComplete, RefusedOnlyIfStagedWrong, Outcomes
<1> QED
  BY <1>1, <1>2, <1>3, <1>4, <1>5 DEF IInv

(* ... and nothing is left to show when the card keeps its contents.         *)
LEMMA EndUnchangedKeeps ==
  ASSUME IInv, pc # "idle",
         NEW r \in Outcomes \ {"ok", "refused"}, End(r),
         UNCHANGED contents, session' \in Slots \cup {NoSession}
  PROVE  IInv'
<1>1. /\ op' = op /\ target' = target /\ atStart' = atStart
      /\ keys' = keys /\ sdm' = sdm /\ nlen' = nlen /\ body' = body
  BY DEF End
<1>2. CardTypeOK'
  BY DEF IInv, TypeOK, CardTypeOK
<1>3. SdmOverWholeTemplate' /\ InterruptedKeepsMaster' /\ TornIsPrefix'
  BY <1>1 DEF IInv, SdmOverWholeTemplate, HoldsTemplate,
         InterruptedKeepsMaster, AllSlots, TornIsPrefix
<1>4. op = "testck" => keys'[0] = atStart[0]
  BY <1>1 DEF IInv, TestckProgress
<1> QED
  BY <1>2, <1>3, <1>4, EndKeeps

(* An exchange that ends the operation and leaves the contents of the card.  *)
Failing ==
  \E r \in Outcomes \ {"ok", "refused"} :
    End(r) /\ UNCHANGED contents /\ session' \in Slots \cup {NoSession}

LEMMA FailingKeeps == IInv /\ pc # "idle" /\ Failing => IInv'
BY EndUnchangedKeeps DEF Failing

(* A read command that needs no session, or needs one, or authenticates: it  *)
(* is answered and the operation goes on, or the operation fails.            *)
LEMMA SelectCases ==
  ASSUME NEW ACTION A, IInv, SelectUid(A)
  PROVE  (CardRead /\ A) \/ Failing
BY Zenon DEF SelectUid, Failing, CardRead, Outcomes, IInv, TypeOK, CardTypeOK

LEMMA ReadCases ==
  ASSUME NEW ACTION A, IInv, Exchange(TRUE, CardRead, A)
  PROVE  (CardRead /\ A) \/ Failing
BY Zenon DEF Exchange, Failing, CardRead, CardReset, Outcomes, IInv, TypeOK, CardTypeOK

LEMMA AuthenticateCases ==
  ASSUME NEW STATE s, NEW ACTION A, IInv, Authenticate(s, A)
  PROVE  (keys[0] = s /\ CardAuthenticate(0) /\ A) \/ Failing
<1>1. CASE keys[0] = s /\ CardAuthenticate(0) /\ End("transport")
  <2>1. session' \in Slots \cup {NoSession}
    BY <1>1 DEF CardAuthenticate
  <2> QED
    BY <1>1, <2>1 DEF CardAuthenticate, Failing, Outcomes
<1>2. CASE CardRead /\ End("transport")
  BY <1>2 DEF CardRead, Failing, Outcomes, IInv, TypeOK, CardTypeOK
<1>3. CASE keys[0] # s /\ CardReset /\ End("auth")
  BY <1>3 DEF CardReset, Failing, Outcomes
<1>4. CASE CardReset /\ End("delay")
  BY <1>4 DEF CardReset, Failing, Outcomes
<1> QED
  BY <1>1, <1>2, <1>3, <1>4 DEF Authenticate

(* A command that changes the card is answered, or executed with its answer  *)
(* lost, or refused, or the operation fails without it.                      *)
LEMMA WriteCases ==
  ASSUME NEW STATE b, NEW ACTION E, NEW ACTION A, IInv, Exchange(b, E, A)
  PROVE  \/ b /\ E /\ (A \/ End("transport"))
         \/ ~b /\ CardReset /\ End("refused")
         \/ Failing
BY Zenon DEF Exchange, Failing, CardRead, CardReset, Outcomes, IInv, TypeOK, CardTypeOK

(* The key loop of burn and wipe goes on: slot k is converted and verified.   *)
LEMMA NextSlotKeeps ==
  ASSUME IInv, op \in {"burn", "wipe"}, pc = "keyver",
         version[k] = ver, CardRead, NextSlot
  PROVE  IInv'
<1>1. /\ k \in NonMaster /\ Converted(k) /\ keys[0] = atStart[0]
      /\ \A i \in 1..(k - 1) : version[i] = ver
  BY DEF IInv, KeyProgress, VersionProgress
<1>2. \A i \in 1..k : version[i] = ver
  BY <1>1
<1>3. /\ UNCHANGED <<cardVars, params, outcome>>
      /\ \/ k < N /\ pc' = "key" /\ k' = k + 1
         \/ k = N /\ pc' = "master" /\ k' = k
  BY <1>1 DEF NextSlot, CardRead
<1>4. TypeOK'
  BY <1>1, <1>3 DEF IInv, TypeOK, CardTypeOK, Labels
<1>5. KeyProgress'
  BY <1>1, <1>3 DEF KeyProgress, Preparing, Converted
<1>6. VersionProgress'
  BY <1>1, <1>2, <1>3 DEF VersionProgress
<1>7. BurnFileProgress' /\ WipeFileProgress' /\ TestckProgress'
  BY <1>3 DEF IInv, BurnFileProgress, WipeFileProgress, TestckProgress,
              Keying, HoldsTemplate
<1> QED
  BY <1>3, <1>4, <1>5, <1>6, <1>7
     DEF IInv, SuccessIsComplete, Ended, RefusedOnlyIfStagedWrong,
         SdmOverWholeTemplate, HoldsTemplate, InterruptedKeepsMaster, AllSlots,
         TornIsPrefix

------------------------------------------------------------------------------
(* The commands of burn that read, and those that authenticate.              *)

LEMMA BurnReadsKeep ==
  ASSUME IInv,
         \/ BurnSelect \/ BurnAuthenticate \/ BurnGetSettings
         \/ BurnReadBack \/ BurnGetSettings2 \/ BurnVerifySdm
         \/ BurnKeyVersion \/ BurnReauthenticate \/ BurnFinalSettings
  PROVE  IInv'
<1> USE DEF Goto, Check, End, CardRead, CardAuthenticate, TypeOK, CardTypeOK,
            Labels, Outcomes, KeyProgress, VersionProgress, BurnFileProgress,
            WipeFileProgress, TestckProgress, SuccessIsComplete, Ended,
            RefusedOnlyIfStagedWrong, SdmOverWholeTemplate, HoldsTemplate,
            InterruptedKeepsMaster, AllSlots, TornIsPrefix, Preparing, Keying,
            Converted
<1>1. CASE BurnSelect
  <2>1. (CardRead /\ Goto("auth")) \/ Failing
    BY <1>1, SelectCases, Zenon DEF BurnSelect
  <2>2. At("burn", "uid")
    BY <1>1 DEF BurnSelect
  <2>3. CASE CardRead /\ Goto("auth")
    BY <2>2, <2>3 DEF At, IInv
  <2> QED
    BY <2>1, <2>2, <2>3, FailingKeeps DEF At
<1>2. CASE BurnAuthenticate
  <2>1. (CardAuthenticate(0) /\ Goto("get")) \/ Failing
    BY <1>2, AuthenticateCases, Zenon DEF BurnAuthenticate
  <2>2. At("burn", "auth")
    BY <1>2 DEF BurnAuthenticate
  <2>3. CASE CardAuthenticate(0) /\ Goto("get")
    BY <2>2, <2>3 DEF At, IInv
  <2> QED
    BY <2>1, <2>2, <2>3, FailingKeeps DEF At
<1>3. CASE BurnGetSettings
  <2>1. (CardRead /\ Goto(IF sdm # Factory THEN "clear" ELSE "write")) \/ Failing
    BY <1>3, ReadCases, Zenon DEF BurnGetSettings
  <2>2. At("burn", "get")
    BY <1>3 DEF BurnGetSettings
  <2>3. CASE CardRead /\ Goto(IF sdm # Factory THEN "clear" ELSE "write")
    BY <2>2, <2>3 DEF At, IInv
  <2> QED
    BY <2>1, <2>2, <2>3, FailingKeeps DEF At
<1>4. CASE BurnReadBack
  <2>1. (CardRead /\ Check(HoldsTemplate(target), "get2")) \/ Failing
    BY <1>4, ReadCases, Zenon DEF BurnReadBack
  <2>2. At("burn", "readback")
    BY <1>4 DEF BurnReadBack
  <2>3. CASE CardRead /\ Check(HoldsTemplate(target), "get2")
    BY <2>2, <2>3, ZenonT(30) DEF At, IInv
  <2> QED
    BY <2>1, <2>2, <2>3, FailingKeeps DEF At
<1>5. CASE BurnGetSettings2
  <2>1. (CardRead /\ Goto("enable")) \/ Failing
    BY <1>5, ReadCases, Zenon DEF BurnGetSettings2
  <2>2. At("burn", "get2")
    BY <1>5 DEF BurnGetSettings2
  <2>3. CASE CardRead /\ Goto("enable")
    BY <2>2, <2>3 DEF At, IInv
  <2> QED
    BY <2>1, <2>2, <2>3, FailingKeeps DEF At
<1>6. CASE BurnVerifySdm
  <2>1. (CardRead /\ Check(sdm # Factory, "key")) \/ Failing
    BY <1>6, ReadCases, Zenon DEF BurnVerifySdm
  <2>2. At("burn", "verify")
    BY <1>6 DEF BurnVerifySdm
  <2>3. CASE CardRead /\ Check(sdm # Factory, "key")
    <3>1. /\ op = "burn" /\ pc = "verify" /\ k = 1 /\ keys = atStart
          /\ sdm = target /\ target # Factory
      BY <2>2 DEF At, IInv
    <3>2. Goto("key")
      BY <2>3, <3>1
    <3>3. KeyProgress'
      BY <2>3, <3>1, <3>2
    <3>4. VersionProgress'
      BY <2>3, <3>1, <3>2
    <3> QED
      BY <2>3, <3>1, <3>2, <3>3, <3>4 DEF IInv
  <2> QED
    BY <2>1, <2>2, <2>3, FailingKeeps DEF At
<1>7. CASE BurnKeyVersion
  <2>1. At("burn", "keyver")
    BY <1>7 DEF BurnKeyVersion
  <2>2. CASE CardRead /\ version[k] = ver /\ NextSlot
    BY <2>1, <2>2, NextSlotKeeps, ZenonT(30) DEF At, IInv
  <2>3. CASE CardRead /\ End("mismatch")
    BY <2>1, <2>3, EndUnchangedKeeps, Zenon DEF At, IInv
  <2>4. CASE Failing
    BY <2>1, <2>4, FailingKeeps DEF At
  <2> QED
    BY <1>7, <2>2, <2>3, <2>4, Zenon DEF BurnKeyVersion, Exchange, Failing, CardReset, IInv
<1>8. CASE BurnReauthenticate
  <2>1. (CardAuthenticate(0) /\ Goto("final")) \/ Failing
    BY <1>8, AuthenticateCases, Zenon DEF BurnReauthenticate
  <2>2. At("burn", "reauth")
    BY <1>8 DEF BurnReauthenticate
  <2>3. CASE CardAuthenticate(0) /\ Goto("final")
    BY <2>2, <2>3 DEF At, IInv
  <2> QED
    BY <2>1, <2>2, <2>3, FailingKeeps DEF At
<1>9. CASE BurnFinalSettings
  <2>1. (CardRead /\ End(IF sdm # Factory THEN "ok" ELSE "mismatch")) \/ Failing
    BY <1>9, ReadCases, Zenon DEF BurnFinalSettings
  <2>2. At("burn", "final")
    BY <1>9 DEF BurnFinalSettings
  <2>3. CASE CardRead /\ End(IF sdm # Factory THEN "ok" ELSE "mismatch")
    BY <2>2, <2>3 DEF At, IInv
  <2> QED
    BY <2>1, <2>2, <2>3, FailingKeeps DEF At
<1> QED
  BY <1>1, <1>2, <1>3, <1>4, <1>5, <1>6, <1>7, <1>8, <1>9

(* The same for wipe.                                                        *)

LEMMA WipeReadsKeep ==
  ASSUME IInv,
         \/ WipeSelect \/ WipeAuthenticate \/ WipeGetSettings
         \/ WipeKeyVersion \/ WipeReauthenticate \/ WipeFinalSettings
  PROVE  IInv'
<1> USE DEF Goto, Check, End, CardRead, CardAuthenticate, TypeOK, CardTypeOK,
            Labels, Outcomes, KeyProgress, VersionProgress, BurnFileProgress,
            WipeFileProgress, TestckProgress, SuccessIsComplete, Ended,
            RefusedOnlyIfStagedWrong, SdmOverWholeTemplate, HoldsTemplate,
            InterruptedKeepsMaster, AllSlots, TornIsPrefix, Preparing, Keying,
            Converted
<1>1. CASE WipeSelect
  <2>1. (CardRead /\ Goto("auth")) \/ Failing
    BY <1>1, SelectCases, Zenon DEF WipeSelect
  <2>2. At("wipe", "uid")
    BY <1>1 DEF WipeSelect
  <2>3. CASE CardRead /\ Goto("auth")
    BY <2>2, <2>3 DEF At, IInv
  <2> QED
    BY <2>1, <2>2, <2>3, FailingKeeps DEF At
<1>2. CASE WipeAuthenticate
  <2>1. (CardAuthenticate(0) /\ Goto("get")) \/ Failing
    BY <1>2, AuthenticateCases, Zenon DEF WipeAuthenticate
  <2>2. At("wipe", "auth")
    BY <1>2 DEF WipeAuthenticate
  <2>3. CASE CardAuthenticate(0) /\ Goto("get")
    BY <2>2, <2>3 DEF At, IInv
  <2> QED
    BY <2>1, <2>2, <2>3, FailingKeeps DEF At
<1>3. CASE WipeGetSettings
  <2>1. (CardRead /\ Goto("restore")) \/ Failing
    BY <1>3, ReadCases, Zenon DEF WipeGetSettings
  <2>2. At("wipe", "get")
    BY <1>3 DEF WipeGetSettings
  <2>3. CASE CardRead /\ Goto("restore")
    BY <2>2, <2>3 DEF At, IInv
  <2> QED
    BY <2>1, <2>2, <2>3, FailingKeeps DEF At
<1>4. CASE WipeKeyVersion
  <2>1. At("wipe", "keyver")
    BY <1>4 DEF WipeKeyVersion
  <2>2. CASE CardRead /\ version[k] = 0 /\ NextSlot
    BY <2>1, <2>2, NextSlotKeeps, ZenonT(30) DEF At, IInv
  <2>3. CASE CardRead /\ End("mismatch")
    BY <2>1, <2>3, EndUnchangedKeeps, Zenon DEF At, IInv
  <2>4. CASE Failing
    BY <2>1, <2>4, FailingKeeps DEF At
  <2> QED
    BY <1>4, <2>2, <2>3, <2>4, Zenon DEF WipeKeyVersion, Exchange, Failing, CardReset, IInv
<1>5. CASE WipeReauthenticate
  <2>1. (CardAuthenticate(0) /\ Goto("final")) \/ Failing
    BY <1>5, AuthenticateCases, Zenon DEF WipeReauthenticate
  <2>2. At("wipe", "reauth")
    BY <1>5 DEF WipeReauthenticate
  <2>3. CASE CardAuthenticate(0) /\ Goto("final")
    BY <2>2, <2>3, SMTT(20) DEF At, IInv
  <2> QED
    BY <2>1, <2>2, <2>3, FailingKeeps DEF At
<1>6. CASE WipeFinalSettings
  <2>1. (CardRead /\ End(IF sdm = Factory THEN "ok" ELSE "mismatch")) \/ Failing
    BY <1>6, ReadCases, Zenon DEF WipeFinalSettings
  <2>2. At("wipe", "final")
    BY <1>6 DEF WipeFinalSettings
  <2>3. CASE CardRead /\ End(IF sdm = Factory THEN "ok" ELSE "mismatch")
    BY <2>2, <2>3 DEF At, IInv
  <2> QED
    BY <2>1, <2>2, <2>3, FailingKeeps DEF At
<1> QED
  BY <1>1, <1>2, <1>3, <1>4, <1>5, <1>6

(* The same for testck.                                                      *)

LEMMA TestckReadsKeep ==
  ASSUME IInv,
         \/ TestckSelect \/ TestckAuthenticate \/ TestckVersionBefore
         \/ TestckVersionMid \/ TestckVersionAfter
  PROVE  IInv'
<1> USE DEF Goto, Check, End, CardRead, CardAuthenticate, TypeOK, CardTypeOK,
            Labels, Outcomes, KeyProgress, VersionProgress, BurnFileProgress,
            WipeFileProgress, TestckProgress, SuccessIsComplete, Ended,
            RefusedOnlyIfStagedWrong, SdmOverWholeTemplate, HoldsTemplate,
            InterruptedKeepsMaster, AllSlots, TornIsPrefix, Preparing, Keying,
            Converted
<1>1. CASE TestckSelect
  <2>1. (CardRead /\ Goto("auth")) \/ Failing
    BY <1>1, SelectCases, Zenon DEF TestckSelect
  <2>2. At("testck", "uid")
    BY <1>1 DEF TestckSelect
  <2>3. CASE CardRead /\ Goto("auth")
    BY <2>2, <2>3, SMTT(20) DEF At, IInv
  <2> QED
    BY <2>1, <2>2, <2>3, FailingKeeps DEF At
<1>2. CASE TestckAuthenticate
  <2>1. (CardAuthenticate(0) /\ Goto("before")) \/ Failing
    BY <1>2, AuthenticateCases, Zenon DEF TestckAuthenticate
  <2>2. At("testck", "auth")
    BY <1>2, SMTT(20) DEF TestckAuthenticate
  <2>3. CASE CardAuthenticate(0) /\ Goto("before")
    <3>1. /\ op = "testck" /\ op' = op /\ pc' = "before" /\ outcome = "none"
          /\ keys = atStart /\ old = [i \in Slots |-> Factory]
      BY <2>2, <2>3 DEF At, IInv
    <3>2. TypeOK'
      BY <2>3 DEF IInv
    <3>3. TestckProgress'
      BY <2>3, <3>1
    <3>4. KeyProgress' /\ VersionProgress' /\ BurnFileProgress' /\ WipeFileProgress'
      BY <3>1
    <3> QED
      BY <2>3, <3>1, <3>2, <3>3, <3>4, Zenon DEF IInv
  <2> QED
    BY <2>1, <2>2, <2>3, FailingKeeps DEF At
<1>3. CASE TestckVersionBefore
  <2>1. (CardRead /\ (IF version[1] # 0 THEN End("notblank") ELSE Goto("toTest"))) \/ Failing
    BY <1>3, ReadCases, Zenon DEF TestckVersionBefore
  <2>2. At("testck", "before")
    BY <1>3 DEF TestckVersionBefore
  <2>3. CASE CardRead /\ (IF version[1] # 0 THEN End("notblank") ELSE Goto("toTest"))
    BY <2>2, <2>3, SMTT(20) DEF At, IInv
  <2> QED
    BY <2>1, <2>2, <2>3, FailingKeeps DEF At
<1>4. CASE TestckVersionMid
  <2>1. (CardRead /\ Check(version[1] = 1, "toZero")) \/ Failing
    BY <1>4, ReadCases, Zenon DEF TestckVersionMid
  <2>2. At("testck", "isTest")
    BY <1>4 DEF TestckVersionMid
  <2>3. CASE CardRead /\ Check(version[1] = 1, "toZero")
    BY <2>2, <2>3, SMTT(20) DEF At, IInv
  <2> QED
    BY <2>1, <2>2, <2>3, FailingKeeps DEF At
<1>5. CASE TestckVersionAfter
  <2>1. (CardRead /\ End(IF version[1] = 0 THEN "ok" ELSE "mismatch")) \/ Failing
    BY <1>5, ReadCases, Zenon DEF TestckVersionAfter
  <2>2. At("testck", "isZero")
    BY <1>5 DEF TestckVersionAfter
  <2>3. CASE CardRead /\ End(IF version[1] = 0 THEN "ok" ELSE "mismatch")
    <3>1. /\ op = "testck" /\ op' = op /\ pc' = "idle" /\ keys[0] = atStart[0]
          /\ old = [i \in Slots |-> Factory] /\ outcome' \in {"ok", "mismatch"}
      BY <2>2, <2>3 DEF At, IInv
    <3>2. TypeOK'
      BY <2>3, <3>1 DEF IInv
    <3>3. TestckProgress'
      BY <2>3, <3>1
    <3>4. /\ KeyProgress' /\ VersionProgress' /\ BurnFileProgress'
          /\ WipeFileProgress' /\ SuccessIsComplete' /\ RefusedOnlyIfStagedWrong'
      BY <3>1
    <3> QED
      BY <2>3, <3>1, <3>2, <3>3, <3>4, Zenon DEF IInv
  <2> QED
    BY <2>1, <2>2, <2>3, FailingKeeps DEF At
<1> QED
  BY <1>1, <1>2, <1>3, <1>4, <1>5

------------------------------------------------------------------------------
(* The key commands that burn and wipe share.                                *)

(* ChangeKey of slot k is executed, and answered or not.                     *)
LEMMA ConvertSlotKeeps ==
  ASSUME IInv, op \in {"burn", "wipe"}, pc = "key",
         CardChangeKey(k, target, ver), Goto("keyver") \/ End("transport")
  PROVE  IInv'
<1>1. /\ k \in NonMaster /\ Converted(k - 1) /\ keys[0] = atStart[0]
      /\ \A i \in 1..(k - 1) : version[i] = ver
      /\ keys \in [Slots -> KeySets] /\ version \in [Slots -> Nat]
      /\ target \in KeySets /\ ver \in Nat
  BY DEF IInv, KeyProgress, VersionProgress, TypeOK, CardTypeOK
<1>2. /\ keys' = [keys EXCEPT ![k] = target]
      /\ version' = [version EXCEPT ![k] = ver]
      /\ UNCHANGED <<sdm, access, nlen, body, session>>
  BY DEF CardChangeKey
<1>3. UNCHANGED <<params, k>>
  BY DEF Goto, End
<1>4. CardTypeOK'
  BY <1>1, <1>2 DEF IInv, TypeOK, CardTypeOK
<1>5. Converted(k)' /\ keys'[0] = atStart[0]
  <2>1. keys'[0] = atStart[0]
    BY <1>1, <1>2
  <2>2. ASSUME NEW i \in NonMaster
        PROVE  keys'[i] = IF i <= k THEN target ELSE atStart[i]
    <3>1. i <= k <=> (i <= k - 1 \/ i = k)
      BY <1>1
    <3>2. keys'[i] = IF i = k THEN target ELSE keys[i]
      BY <1>1, <1>2
    <3>3. keys[i] = IF i <= k - 1 THEN target ELSE atStart[i]
      BY <1>1 DEF Converted
    <3> QED
      BY <3>1, <3>2, <3>3
  <2> QED
    BY <1>3, <2>1, <2>2 DEF Converted
<1>6. SdmOverWholeTemplate' /\ InterruptedKeepsMaster'
  BY <1>2, <1>3, <1>5 DEF IInv, SdmOverWholeTemplate, HoldsTemplate,
                          InterruptedKeepsMaster
<1>7. TornIsPrefix'
  <2>1. k \in 0..N
    BY <1>1
  <2> QED
    BY <1>3, <1>5, <2>1 DEF TornIsPrefix, Converted
<1>8. CASE Goto("keyver")
  <2>1. pc' = "keyver" /\ outcome' = outcome
    BY <1>8 DEF Goto
  <2>2. TypeOK'
    BY <1>3, <1>4, <2>1 DEF IInv, TypeOK, Labels
  <2>3. KeyProgress' /\ VersionProgress'
    BY <1>1, <1>2, <1>3, <1>5, <2>1 DEF KeyProgress, VersionProgress, Preparing
  <2>4. BurnFileProgress' /\ WipeFileProgress' /\ TestckProgress'
    BY <1>2, <1>3, <2>1, SMTT(20) DEF IInv, BurnFileProgress, WipeFileProgress,
                            TestckProgress, Keying, HoldsTemplate
  <2> QED
    BY <1>3, <1>6, <1>7, <2>1, <2>2, <2>3, <2>4, Zenon
       DEF IInv, SuccessIsComplete, Ended, RefusedOnlyIfStagedWrong
<1>9. CASE End("transport")
  BY <1>4, <1>6, <1>7, <1>9, EndKeeps, Zenon DEF Outcomes
<1> QED
  BY <1>8, <1>9

(* ChangeKey of slot k is refused: the slot is untouched so far, so the key  *)
(* staged for it was wrong from the start.                                   *)
LEMMA RefusalKeeps ==
  ASSUME IInv, op \in {"burn", "wipe"}, pc = "key",
         keys[k] # old[k], CardReset, End("refused")
  PROVE  IInv'
<1>1. k \in NonMaster /\ keys[k] = atStart[k]
  <2>1. k \in NonMaster /\ Converted(k - 1)
    BY DEF IInv, KeyProgress
  <2>2. ~(k <= k - 1)
    BY <2>1
  <2> QED
    BY <2>1, <2>2 DEF Converted
<1>2. /\ UNCHANGED <<contents, params, k>>
      /\ pc' = "idle" /\ outcome' = "refused" /\ session' = NoSession
  BY Zenon DEF CardReset, End
<1>3. RefusedOnlyIfStagedWrong'
  BY <1>1, <1>2 DEF RefusedOnlyIfStagedWrong
<1>4. TypeOK'
  BY <1>2 DEF IInv, TypeOK, CardTypeOK, Labels, Outcomes
<1>5. KeyProgress' /\ VersionProgress'
  BY <1>2 DEF KeyProgress, VersionProgress, Preparing
<1>6. BurnFileProgress' /\ WipeFileProgress' /\ TestckProgress'
  BY <1>2 DEF IInv, BurnFileProgress, WipeFileProgress, TestckProgress, Keying
<1> QED
  BY <1>2, <1>3, <1>4, <1>5, <1>6, Zenon
     DEF IInv, SuccessIsComplete, SdmOverWholeTemplate, HoldsTemplate,
         InterruptedKeepsMaster, AllSlots, TornIsPrefix

(* ChangeKey of slot 0 is executed, and answered or not.                     *)
LEMMA CommitMasterKeeps ==
  ASSUME IInv, op \in {"burn", "wipe"}, pc = "master",
         CardChangeMasterKey(target, ver), Goto("reauth") \/ End("transport")
  PROVE  IInv'
<1>1. /\ Converted(N)
      /\ \A i \in NonMaster : version[i] = ver
      /\ keys \in [Slots -> KeySets] /\ version \in [Slots -> Nat]
      /\ target \in KeySets /\ ver \in Nat
  BY DEF IInv, KeyProgress, VersionProgress, TypeOK, CardTypeOK
<1>2. /\ keys' = [keys EXCEPT ![0] = target]
      /\ version' = [version EXCEPT ![0] = ver]
      /\ session' = NoSession
      /\ UNCHANGED <<sdm, access, nlen, body>>
  BY DEF CardChangeMasterKey
<1>3. UNCHANGED <<params, k>>
  BY DEF Goto, End
<1>4. CardTypeOK'
  BY <1>1, <1>2 DEF IInv, TypeOK, CardTypeOK
<1>5. AllSlots(target)' /\ \A i \in Slots : version'[i] = ver
  <2>1. \A i \in NonMaster : keys[i] = target
    BY <1>1 DEF Converted
  <2>2. \A i \in Slots : i = 0 \/ i \in NonMaster
    OBVIOUS
  <2> QED
    BY <1>1, <1>2, <1>3, <2>1, <2>2 DEF AllSlots
<1>6. SdmOverWholeTemplate' /\ InterruptedKeepsMaster'
  BY <1>2, <1>3, <1>5 DEF IInv, SdmOverWholeTemplate, HoldsTemplate,
                          InterruptedKeepsMaster
<1>7. TornIsPrefix'
  BY <1>3, <1>5 DEF TornIsPrefix, AllSlots
<1>8. CASE Goto("reauth")
  <2>1. pc' = "reauth" /\ outcome' = outcome
    BY <1>8 DEF Goto
  <2>2. TypeOK'
    BY <1>3, <1>4, <2>1 DEF IInv, TypeOK, Labels
  <2>3. KeyProgress' /\ VersionProgress'
    BY <1>3, <1>5, <2>1 DEF KeyProgress, VersionProgress, Preparing
  <2>4. BurnFileProgress' /\ WipeFileProgress' /\ TestckProgress'
    BY <1>2, <1>3, <2>1 DEF IInv, BurnFileProgress, WipeFileProgress,
                            TestckProgress, Keying, HoldsTemplate
  <2> QED
    BY <1>3, <1>6, <1>7, <2>1, <2>2, <2>3, <2>4
       DEF IInv, SuccessIsComplete, Ended, RefusedOnlyIfStagedWrong
<1>9. CASE End("transport")
  BY <1>4, <1>6, <1>7, <1>9, EndKeeps DEF Outcomes
<1> QED
  BY <1>8, <1>9

------------------------------------------------------------------------------
(* The commands that change the NDEF file and its settings.                  *)

LEMMA BurnClearSdmKeeps == ASSUME IInv, BurnClearSdm PROVE IInv'
<1>1. op = "burn" /\ pc = "clear" /\ keys = atStart /\ k = 1
  BY DEF BurnClearSdm, At, IInv, KeyProgress, Preparing
<1>2. CASE /\ CardChangeFileSettings(Factory, access)
           /\ Goto("write") \/ End("transport")
  <2>1. /\ sdm' = Factory /\ access' = access
        /\ UNCHANGED <<keys, version, nlen, body, session, params, k>>
    BY <1>2 DEF CardChangeFileSettings, Goto, End
  <2>2. CardTypeOK'
    BY <2>1 DEF IInv, TypeOK, CardTypeOK
  <2>3. SdmOverWholeTemplate' /\ InterruptedKeepsMaster' /\ TornIsPrefix'
    BY <1>1, <2>1 DEF IInv, BurnFileProgress, SdmOverWholeTemplate,
       HoldsTemplate, InterruptedKeepsMaster, AllSlots, TornIsPrefix
  <2>4. CASE Goto("write")
    <3>1. pc' = "write" /\ outcome' = outcome
      BY <2>4 DEF Goto
    <3>2. TypeOK'
      BY <2>1, <2>2, <3>1 DEF IInv, TypeOK, Labels
    <3>3. KeyProgress' /\ VersionProgress'
      BY <1>1, <2>1, <3>1 DEF KeyProgress, VersionProgress, Preparing
    <3>4. BurnFileProgress' /\ WipeFileProgress' /\ TestckProgress'
      BY <1>1, <2>1, <3>1 DEF IInv, BurnFileProgress, WipeFileProgress,
                              TestckProgress, Keying, HoldsTemplate
    <3> QED
      BY <1>1, <2>1, <2>3, <3>1, <3>2, <3>3, <3>4
         DEF IInv, SuccessIsComplete, Ended, RefusedOnlyIfStagedWrong
  <2>5. CASE End("transport")
    BY <1>1, <2>2, <2>3, <2>5, EndKeeps DEF Outcomes
  <2> QED
    BY <1>2, <2>4, <2>5
<1> QED
  BY <1>1, <1>2, WriteCases, FailingKeeps, Zenon DEF BurnClearSdm

LEMMA BurnEnableSdmKeeps == ASSUME IInv, BurnEnableSdm PROVE IInv'
<1>1. op = "burn" /\ pc = "enable" /\ keys = atStart /\ k = 1
  BY DEF BurnEnableSdm, At, IInv, KeyProgress, Preparing
<1>2. CASE /\ CardChangeFileSettings(target, "K0")
           /\ Goto("verify") \/ End("transport")
  <2>1. /\ sdm' = target /\ access' = "K0"
        /\ UNCHANGED <<keys, version, nlen, body, session, params, k>>
    BY <1>2 DEF CardChangeFileSettings, Goto, End
  <2>2. CardTypeOK'
    BY <2>1 DEF IInv, TypeOK, CardTypeOK
  <2>3. SdmOverWholeTemplate' /\ InterruptedKeepsMaster' /\ TornIsPrefix'
    BY <1>1, <2>1 DEF IInv, BurnFileProgress, SdmOverWholeTemplate,
       HoldsTemplate, InterruptedKeepsMaster, AllSlots, TornIsPrefix
  <2>4. CASE Goto("verify")
    <3>1. pc' = "verify" /\ outcome' = outcome
      BY <2>4 DEF Goto
    <3>2. TypeOK'
      BY <2>1, <2>2, <3>1 DEF IInv, TypeOK, Labels
    <3>3. KeyProgress' /\ VersionProgress'
      BY <1>1, <2>1, <3>1 DEF KeyProgress, VersionProgress, Preparing
    <3>4. BurnFileProgress' /\ WipeFileProgress' /\ TestckProgress'
      BY <1>1, <2>1, <3>1 DEF IInv, BurnFileProgress, WipeFileProgress,
                              TestckProgress, Keying, HoldsTemplate
    <3> QED
      BY <1>1, <2>1, <2>3, <3>1, <3>2, <3>3, <3>4
         DEF IInv, SuccessIsComplete, Ended, RefusedOnlyIfStagedWrong
  <2>5. CASE End("transport")
    BY <1>1, <2>2, <2>3, <2>5, EndKeeps DEF Outcomes
  <2> QED
    BY <1>2, <2>4, <2>5
<1> QED
  BY <1>1, <1>2, WriteCases, FailingKeeps, Zenon DEF BurnEnableSdm

LEMMA WipeRestoreSettingsKeeps == ASSUME IInv, WipeRestoreSettings PROVE IInv'
<1>1. op = "wipe" /\ pc = "restore" /\ keys = atStart /\ k = 1
  BY DEF WipeRestoreSettings, At, IInv, KeyProgress, Preparing
<1>2. CASE /\ CardChangeFileSettings(Factory, "Free")
           /\ Goto("empty") \/ End("transport")
  <2>1. /\ sdm' = Factory /\ access' = "Free"
        /\ UNCHANGED <<keys, version, nlen, body, session, params, k>>
    BY <1>2 DEF CardChangeFileSettings, Goto, End
  <2>2. CardTypeOK'
    BY <2>1 DEF IInv, TypeOK, CardTypeOK
  <2>3. SdmOverWholeTemplate' /\ InterruptedKeepsMaster' /\ TornIsPrefix'
    BY <1>1, <2>1 DEF IInv, BurnFileProgress, SdmOverWholeTemplate,
       HoldsTemplate, InterruptedKeepsMaster, AllSlots, TornIsPrefix
  <2>4. CASE Goto("empty")
    <3>1. pc' = "empty" /\ outcome' = outcome
      BY <2>4 DEF Goto
    <3>2. TypeOK'
      BY <2>1, <2>2, <3>1 DEF IInv, TypeOK, Labels
    <3>3. KeyProgress' /\ VersionProgress'
      BY <1>1, <2>1, <3>1 DEF KeyProgress, VersionProgress, Preparing
    <3>4. BurnFileProgress' /\ WipeFileProgress' /\ TestckProgress'
      BY <1>1, <2>1, <3>1 DEF IInv, BurnFileProgress, WipeFileProgress,
                              TestckProgress, Keying, HoldsTemplate
    <3> QED
      BY <1>1, <2>1, <2>3, <3>1, <3>2, <3>3, <3>4
         DEF IInv, SuccessIsComplete, Ended, RefusedOnlyIfStagedWrong
  <2>5. CASE End("transport")
    BY <1>1, <2>2, <2>3, <2>5, EndKeeps DEF Outcomes
  <2> QED
    BY <1>2, <2>4, <2>5
<1> QED
  BY <1>1, <1>2, WriteCases, FailingKeeps, Zenon DEF WipeRestoreSettings

LEMMA BurnWriteNdefKeeps == ASSUME IInv, BurnWriteNdef PROVE IInv'
<1> DEFINE Advance ==
      /\ pc' = IF k < Chunks THEN "write" ELSE "readback"
      /\ k' = IF k < Chunks THEN k + 1 ELSE 1
      /\ UNCHANGED <<params, outcome>>
<1>1. /\ op = "burn" /\ pc = "write" /\ keys = atStart /\ k \in Pages
      /\ sdm = Factory /\ target \in Issuers
      /\ k > 1 => nlen = target
      /\ \A p \in 1..(k - 1) : body[p] = target
  BY Zenon DEF BurnWriteNdef, At, IInv, KeyProgress, BurnFileProgress, Preparing
<1>2. CASE CardWritePage(k, target) /\ (Advance \/ End("transport"))
  <2>1. /\ body' = [body EXCEPT ![k] = target]
        /\ nlen' = IF k = 1 THEN target ELSE nlen
        /\ UNCHANGED <<keys, version, sdm, access, session, params>>
    BY <1>2 DEF CardWritePage, End
  <2>2. body \in [Pages -> KeySets] /\ nlen \in KeySets /\ target \in KeySets
    BY DEF IInv, TypeOK, CardTypeOK
  <2>3. CardTypeOK'
    BY <1>1, <2>1, <2>2, SMTT(20) DEF IInv, TypeOK, CardTypeOK
  <2>4. SdmOverWholeTemplate' /\ InterruptedKeepsMaster' /\ TornIsPrefix'
    BY <1>1, <2>1, Zenon DEF IInv, SdmOverWholeTemplate, InterruptedKeepsMaster,
                      TornIsPrefix
  <2>5. nlen' = target /\ \A p \in 1..k : body'[p] = target
    BY <1>1, <2>1, <2>2
  <2>6. CASE Advance
    <3>1. /\ outcome' = outcome
          /\ \/ k < Chunks /\ pc' = "write" /\ k' = k + 1
             \/ k = Chunks /\ pc' = "readback" /\ k' = 1
      BY <1>1, <2>6
    <3>2. TypeOK'
      BY <1>1, <2>1, <2>3, <3>1 DEF IInv, TypeOK, Labels
    <3>3. KeyProgress' /\ VersionProgress'
      BY <1>1, <2>1, <3>1 DEF KeyProgress, VersionProgress, Preparing
    <3>4. BurnFileProgress'
      BY <1>1, <2>1, <2>5, <3>1 DEF BurnFileProgress, HoldsTemplate, Keying
    <3>5. WipeFileProgress' /\ TestckProgress'
      BY <1>1, <2>1, <3>1 DEF WipeFileProgress, TestckProgress
    <3> QED
      BY <1>1, <2>1, <2>4, <3>1, <3>2, <3>3, <3>4, <3>5
         DEF IInv, SuccessIsComplete, Ended, RefusedOnlyIfStagedWrong
  <2>7. CASE End("transport")
    BY <1>1, <2>3, <2>4, <2>7, EndKeeps DEF Outcomes
  <2> QED
    BY <1>2, <2>6, <2>7
<1>3. CASE Failing
  BY <1>1, <1>3, FailingKeeps
<1> QED
  BY <1>2, <1>3, WriteCases, Zenon DEF BurnWriteNdef

LEMMA WipeEmptyNdefKeeps == ASSUME IInv, WipeEmptyNdef PROVE IInv'
<1>1. /\ op = "wipe" /\ pc = "empty" /\ keys = atStart /\ k = 1
      /\ sdm = Factory /\ access = "Free" /\ target = Factory /\ ver = 0
  BY DEF WipeEmptyNdef, At, IInv, KeyProgress, WipeFileProgress, Preparing
<1>2. CASE CardWriteEmpty /\ (Goto("key") \/ End("transport"))
  <2>1. /\ nlen' = Factory
        /\ UNCHANGED <<keys, version, sdm, access, body, session, params, k>>
    BY <1>2 DEF CardWriteEmpty, Goto, End
  <2>2. CardTypeOK'
    BY <2>1 DEF IInv, TypeOK, CardTypeOK
  <2>3. SdmOverWholeTemplate' /\ InterruptedKeepsMaster' /\ TornIsPrefix'
    BY <1>1, <2>1 DEF IInv, SdmOverWholeTemplate, InterruptedKeepsMaster,
                      TornIsPrefix
  <2>4. CASE Goto("key")
    <3>1. pc' = "key" /\ outcome' = outcome
      BY <2>4 DEF Goto
    <3>2. TypeOK'
      BY <2>1, <2>2, <3>1 DEF IInv, TypeOK, Labels
    <3>3. KeyProgress'
      <4>1. Converted(k - 1)'
        BY <1>1, <2>1 DEF Converted
      <4> QED
        BY <1>1, <2>1, <3>1, <4>1 DEF KeyProgress, Preparing
    <3>4. VersionProgress'
      BY <1>1, <2>1, <3>1 DEF VersionProgress
    <3>5. BurnFileProgress' /\ WipeFileProgress' /\ TestckProgress'
      BY <1>1, <2>1, <3>1 DEF BurnFileProgress, WipeFileProgress,
                              TestckProgress, Keying
    <3> QED
      BY <1>1, <2>1, <2>3, <3>1, <3>2, <3>3, <3>4, <3>5
         DEF IInv, SuccessIsComplete, Ended, RefusedOnlyIfStagedWrong
  <2>5. CASE End("transport")
    BY <1>1, <2>2, <2>3, <2>5, EndKeeps DEF Outcomes
  <2> QED
    BY <1>2, <2>4, <2>5
<1>3. CASE Failing
  BY <1>1, <1>3, FailingKeeps
<1> QED
  BY <1>2, <1>3, WriteCases, Zenon DEF WipeEmptyNdef

------------------------------------------------------------------------------
(* The key commands of burn and of wipe.                                     *)

LEMMA KeyCommandsKeep ==
  ASSUME IInv,
         \/ BurnChangeKey \/ BurnChangeMasterKey
         \/ WipeChangeKey \/ WipeChangeMasterKey
  PROVE  IInv'
<1>1. CASE BurnChangeKey
  <2>1. At("burn", "key")
    BY <1>1 DEF BurnChangeKey
  <2>2. \/ /\ CardChangeKey(k, target, ver)
           /\ Goto("keyver") \/ End("transport")
        \/ keys[k] # old[k] /\ CardReset /\ End("refused")
        \/ Failing
    BY <1>1, WriteCases, Zenon DEF BurnChangeKey
  <2> QED
    BY <2>1, <2>2, ConvertSlotKeeps, RefusalKeeps, FailingKeeps DEF At
<1>2. CASE WipeChangeKey
  <2>1. At("wipe", "key") /\ target = Factory /\ ver = 0
    BY <1>2 DEF WipeChangeKey, At, IInv, WipeFileProgress
  <2>2. \/ /\ CardChangeKey(k, Factory, 0)
           /\ Goto("keyver") \/ End("transport")
        \/ keys[k] # old[k] /\ CardReset /\ End("refused")
        \/ Failing
    BY <1>2, WriteCases, Zenon DEF WipeChangeKey
  <2> QED
    BY <2>1, <2>2, ConvertSlotKeeps, RefusalKeeps, FailingKeeps DEF At
<1>3. CASE BurnChangeMasterKey
  <2>1. At("burn", "master")
    BY <1>3 DEF BurnChangeMasterKey
  <2>2. \/ /\ CardChangeMasterKey(target, ver)
           /\ Goto("reauth") \/ End("transport")
        \/ Failing
    BY <1>3, WriteCases, Zenon DEF BurnChangeMasterKey
  <2> QED
    BY <2>1, <2>2, CommitMasterKeeps, FailingKeeps DEF At
<1>4. CASE WipeChangeMasterKey
  <2>1. At("wipe", "master") /\ target = Factory /\ ver = 0
    BY <1>4 DEF WipeChangeMasterKey, At, IInv, WipeFileProgress
  <2>2. \/ /\ CardChangeMasterKey(Factory, 0)
           /\ Goto("reauth") \/ End("transport")
        \/ Failing
    BY <1>4, WriteCases, Zenon DEF WipeChangeMasterKey
  <2> QED
    BY <2>1, <2>2, CommitMasterKeeps, FailingKeeps DEF At
<1> QED
  BY <1>1, <1>2, <1>3, <1>4

(* testck writes slot 1 only.                                                *)
LEMMA TestckWritesKeep ==
  ASSUME IInv, TestckToTest \/ TestckToZero PROVE IInv'
<1>1. /\ op = "testck" /\ pc \in {"toTest", "toZero"}
      /\ keys[0] = atStart[0] /\ old = [i \in Slots |-> Factory]
      /\ pc = "toTest" => keys = atStart
      /\ pc = "toZero" => keys[1] = TestSet
  BY DEF TestckToTest, TestckToZero, At, IInv, TestckProgress
<1>2. ASSUME NEW s \in {TestSet, Factory}, NEW v \in {0, 1}, NEW l \in Labels,
             l \in {"isTest", "isZero"}, l = "isTest" => s = TestSet,
             CardChangeKey(1, s, v), Goto(l) \/ End("transport")
      PROVE  IInv'
  <2>1. /\ keys' = [keys EXCEPT ![1] = s]
        /\ version' = [version EXCEPT ![1] = v]
        /\ UNCHANGED <<sdm, access, nlen, body, session, params, k>>
    BY <1>2 DEF CardChangeKey, Goto, End
  <2>2. CardTypeOK'
    BY <2>1 DEF IInv, TypeOK, CardTypeOK
  <2>3. 1 \in Slots /\ keys'[1] = s /\ keys'[0] = atStart[0]
    BY <1>1, <2>1, SMTT(20) DEF IInv, TypeOK, CardTypeOK
  <2>4. SdmOverWholeTemplate' /\ InterruptedKeepsMaster' /\ TornIsPrefix'
    BY <1>1, <2>1, <2>3 DEF IInv, SdmOverWholeTemplate, HoldsTemplate,
                            InterruptedKeepsMaster, TornIsPrefix
  <2>5. CASE Goto(l)
    <3>1. pc' = l /\ outcome' = outcome
      BY <2>5 DEF Goto
    <3>2. TypeOK'
      BY <1>2, <2>1, <2>2, <3>1 DEF IInv, TypeOK
    <3>3. TestckProgress'
      BY <1>1, <1>2, <2>1, <2>3, <3>1 DEF TestckProgress
    <3> QED
      BY <1>1, <1>2, <2>1, <2>4, <3>1, <3>2, <3>3, Zenon
         DEF IInv, KeyProgress, VersionProgress, BurnFileProgress,
             WipeFileProgress, SuccessIsComplete, Ended,
             RefusedOnlyIfStagedWrong
  <2>6. CASE End("transport")
    BY <1>1, <2>2, <2>3, <2>4, <2>6, EndKeeps DEF Outcomes
  <2> QED
    BY <1>2, <2>5, <2>6
<1>3. CASE TestckToTest
  <2>1. \/ CardChangeKey(1, TestSet, 1) /\ (Goto("isTest") \/ End("transport"))
        \/ keys[1] # Factory /\ CardReset /\ End("refused")
        \/ Failing
    BY <1>3, WriteCases, ZenonT(30) DEF TestckToTest
  <2>2. ASSUME keys[1] # Factory, CardReset, End("refused") PROVE IInv'
    <3>1. /\ UNCHANGED <<contents, params, k>>
          /\ pc' = "idle" /\ outcome' = "refused" /\ session' = NoSession
      BY <2>2 DEF CardReset, End
    <3>2. pc = "toTest" /\ 1 \in Slots /\ old[1] # atStart[1]
      BY <1>1, <1>3, <2>2 DEF TestckToTest, At
    <3>3. TypeOK'
      BY <3>1 DEF IInv, TypeOK, CardTypeOK, Labels, Outcomes
    <3>4. KeyProgress' /\ VersionProgress' /\ BurnFileProgress' /\ WipeFileProgress'
      BY <1>1, <3>1 DEF KeyProgress, VersionProgress, BurnFileProgress, WipeFileProgress
    <3>5. TestckProgress' /\ SuccessIsComplete' /\ RefusedOnlyIfStagedWrong'
      BY <1>1, <3>1, <3>2
         DEF IInv, TestckProgress, SuccessIsComplete, RefusedOnlyIfStagedWrong
    <3>6. SdmOverWholeTemplate' /\ InterruptedKeepsMaster' /\ TornIsPrefix'
      BY <1>1, <3>1, Zenon DEF IInv, SdmOverWholeTemplate, HoldsTemplate, InterruptedKeepsMaster,
                        AllSlots, TornIsPrefix
    <3> QED
      BY <3>1, <3>3, <3>4, <3>5, <3>6, Zenon DEF IInv
  <2> QED
    BY <1>1, <1>2, <2>1, <2>2, FailingKeeps DEF Labels
<1>4. CASE TestckToZero
  <2>1. \/ CardChangeKey(1, Factory, 0) /\ (Goto("isZero") \/ End("transport"))
        \/ keys[1] # TestSet /\ CardReset /\ End("refused")
        \/ Failing
    BY <1>4, WriteCases, Zenon DEF TestckToZero
  <2>2. keys[1] = TestSet
    BY <1>1, <1>4, SMTT(20) DEF TestckToZero, At
  <2> QED
    BY <1>1, <1>2, <2>1, <2>2, FailingKeeps DEF Labels
<1> QED
  BY <1>3, <1>4

------------------------------------------------------------------------------
(* Between operations.                                                       *)

LEMMA BeginKeeps ==
  ASSUME IInv,
         NEW name \in {"burn", "wipe", "testck"}, NEW s \in KeySets,
         NEW v \in Nat, NEW c \in KeySets, NEW o \in [Slots -> KeySets],
         name = "burn" => s \in Issuers,
         name = "wipe" => s = Factory /\ v = 0,
         name = "testck" => o = [i \in Slots |-> Factory],
         Begin(name, s, v, c, o)
  PROVE  IInv'
<1>1. /\ op' = name /\ pc' = "uid" /\ target' = s /\ ver' = v /\ cur' = c
      /\ old' = o /\ k' = 1 /\ outcome' = "none" /\ atStart' = keys
      /\ UNCHANGED cardVars
  BY DEF Begin
<1>2. TypeOK'
  BY <1>1, SMTT(20) DEF IInv, TypeOK, CardTypeOK, Labels, Outcomes
<1>3. KeyProgress' /\ VersionProgress' /\ TestckProgress'
  BY <1>1, Zenon DEF KeyProgress, VersionProgress, TestckProgress, Preparing
<1>4. BurnFileProgress' /\ WipeFileProgress'
  BY <1>1, SMTT(20) DEF BurnFileProgress, WipeFileProgress, Keying
<1>5. SdmOverWholeTemplate' /\ InterruptedKeepsMaster'
  BY <1>1, Zenon DEF IInv, SdmOverWholeTemplate, HoldsTemplate,
              InterruptedKeepsMaster
<1>6. TornIsPrefix'
  <2>1. 0 \in 0..N /\ \A i \in NonMaster : ~(i <= 0)
    OBVIOUS
  <2> QED
    BY <1>1, <2>1, Zenon DEF TornIsPrefix
<1> QED
  BY <1>1, <1>2, <1>3, <1>4, <1>5, <1>6, Zenon
     DEF IInv, SuccessIsComplete, Ended, RefusedOnlyIfStagedWrong

LEMMA StartKeeps == ASSUME IInv, Start PROVE IInv'
<1>1. \A c \in KeySets : [i \in Slots |-> c] \in [Slots -> KeySets]
  OBVIOUS
<1>2. CASE StartBurn
  BY <1>1, <1>2, BeginKeeps DEF StartBurn
<1>3. CASE StartWipe
  <2>1. PICK o \in [Slots -> KeySets] : Begin("wipe", Factory, 0, o[0], o)
    BY <1>3 DEF StartWipe
  <2>2. o[0] \in KeySets
    OBVIOUS
  <2> QED
    BY <2>1, <2>2, BeginKeeps
<1>4. CASE StartTestck
  BY <1>1, <1>4, BeginKeeps DEF StartTestck
<1> QED
  BY <1>2, <1>3, <1>4 DEF Start

LEMMA StutterKeeps ==
  ASSUME IInv, UNCHANGED contents, UNCHANGED hostVars,
         session' \in Slots \cup {NoSession}
  PROVE  IInv'
<1>1. TypeOK' /\ (pc' # "idle" => outcome' = "none")
  BY DEF IInv, TypeOK, CardTypeOK, contents, hostVars
<1>2. KeyProgress' /\ VersionProgress' /\ TestckProgress'
  BY SMTT(20) DEF IInv, KeyProgress, VersionProgress, TestckProgress, Converted,
         AllSlots, contents, hostVars
<1>3. BurnFileProgress' /\ WipeFileProgress' /\ SdmOverWholeTemplate'
  BY Zenon DEF IInv, BurnFileProgress, WipeFileProgress, SdmOverWholeTemplate,
         HoldsTemplate, contents, hostVars
<1>4. SuccessIsComplete' /\ InterruptedKeepsMaster'
  BY SMTT(20) DEF IInv, SuccessIsComplete, Ended, InterruptedKeepsMaster, AllSlots,
         HoldsTemplate, contents, hostVars
<1>5. RefusedOnlyIfStagedWrong' /\ TornIsPrefix'
  BY Zenon DEF IInv, RefusedOnlyIfStagedWrong, TornIsPrefix, contents, hostVars
<1> QED
  BY <1>1, <1>2, <1>3, <1>4, <1>5 DEF IInv

------------------------------------------------------------------------------
(* The theorems.                                                             *)

(* Initially no operation has started, on a card as delivered.               *)
LEMMA InitIInv == Init => IInv
<1> SUFFICES ASSUME Init PROVE IInv
  OBVIOUS
<1>1. TypeOK
  BY SMTT(20) DEF Init, CardInit, TypeOK, CardTypeOK, Labels, Outcomes
<1>2. KeyProgress /\ VersionProgress /\ TestckProgress
  BY DEF Init, KeyProgress, VersionProgress, TestckProgress, Preparing
<1>3. BurnFileProgress /\ WipeFileProgress
  BY DEF Init, BurnFileProgress, WipeFileProgress
<1> QED
  BY <1>1, <1>2, <1>3 DEF Init, CardInit, IInv, SuccessIsComplete,
     SdmOverWholeTemplate, InterruptedKeepsMaster, RefusedOnlyIfStagedWrong,
     TornIsPrefix

(* Every command of every operation keeps the inductive invariant.           *)
LEMMA NextKeeps == ASSUME IInv, [Next]_vars PROVE IInv'
<1>1. CASE Burn
  BY <1>1, BurnReadsKeep, BurnClearSdmKeeps, BurnWriteNdefKeeps,
     BurnEnableSdmKeeps, KeyCommandsKeep DEF Burn
<1>2. CASE Wipe
  BY <1>2, WipeReadsKeep, WipeRestoreSettingsKeeps, WipeEmptyNdefKeeps,
     KeyCommandsKeep DEF Wipe
<1>3. CASE Testck
  BY <1>3, TestckReadsKeep, TestckWritesKeep DEF Testck
<1>4. CASE RemoveCard \/ Probe
  BY <1>4, StutterKeeps, SMTT(20) DEF RemoveCard, CardReset, Probe
<1>5. CASE UNCHANGED vars
  BY <1>5, StutterKeeps, Zenon DEF vars, IInv, TypeOK, CardTypeOK
<1> QED
  BY <1>1, <1>2, <1>3, <1>4, <1>5, StartKeeps DEF Next, Step

(* The card is always as far as the running operation got (see IInv).        *)
THEOREM InductiveInvariant == Spec => []IInv
<1>1. IInv /\ [Next]_vars => IInv'
  BY NextKeeps
<1> QED
  BY InitIInv, <1>1, PTL DEF Spec

(* Type correctness of the card and of the host's operation state.           *)
THEOREM TypeCorrectness == Spec => []TypeOK
<1>1. IInv => TypeOK
  BY DEF IInv
<1> QED
  BY <1>1, InductiveInvariant, PTL

(* burn and wipe return Ok only on a card that is completely converted, for  *)
(* every history of interrupted operations before.                           *)
THEOREM OkMeansComplete == Spec => []SuccessIsComplete
<1>1. IInv => SuccessIsComplete
  BY DEF IInv
<1> QED
  BY <1>1, InductiveInvariant, PTL

(* SDM is never live over a file that is torn or of another template.        *)
THEOREM SdmNeverOverTornFile == Spec => []SdmOverWholeTemplate
<1>1. IInv => SdmOverWholeTemplate
  BY DEF IInv
<1> QED
  BY <1>1, InductiveInvariant, PTL

(* No interruption changes K0 on a card that is not completely converted,    *)
(* and what it leaves is a prefix of converted slots.                        *)
THEOREM NeverLockedOut == Spec => [](InterruptedKeepsMaster /\ TornIsPrefix)
<1>1. IInv => InterruptedKeepsMaster /\ TornIsPrefix
  BY DEF IInv
<1> QED
  BY <1>1, InductiveInvariant, PTL

(* A refused ChangeKey proves that a key staged by the caller was wrong.     *)
THEOREM RefusalIsProof == Spec => []RefusedOnlyIfStagedWrong
<1>1. IInv => RefusedOnlyIfStagedWrong
  BY DEF IInv
<1> QED
  BY <1>1, InductiveInvariant, PTL

------------------------------------------------------------------------------
(* What one step does to the contents of the card.                           *)

InstallsOne ==
  \E i \in NonMaster, s \in KeySets :
    keys' = [keys EXCEPT ![i] = s] /\ UNCHANGED <<sdm, nlen, body>>

CommitsMaster ==
  /\ target \in KeySets
  /\ \A i \in NonMaster : keys[i] = target
  /\ sdm = target /\ nlen = target
  /\ target = Factory \/ HoldsTemplate(target)
  /\ keys' = [keys EXCEPT ![0] = target]
  /\ UNCHANGED <<sdm, nlen, body>>

RewritesFile == sdm = Factory /\ nlen' \in KeySets /\ UNCHANGED <<keys, sdm>>

EnablesSdm ==
  /\ target \in Issuers /\ HoldsTemplate(target)
  /\ sdm' = target /\ UNCHANGED <<keys, nlen, body>>

DisablesSdm == sdm' = Factory /\ UNCHANGED <<keys, nlen, body>>

(* Every step does one of these, or leaves the contents alone.               *)
LEMMA StepEffect ==
  ASSUME IInv, [Next]_vars
  PROVE  \/ UNCHANGED <<keys, sdm, nlen, body>>
         \/ InstallsOne \/ CommitsMaster
         \/ RewritesFile \/ EnablesSdm \/ DisablesSdm
<1> USE DEF CardRead, CardReset, CardAuthenticate
<1> DEFINE Still == UNCHANGED <<keys, sdm, nlen, body>>
<1>1. /\ target \in KeySets /\ nlen \in KeySets /\ k \in Nat
      /\ op = "burn" => target \in Issuers
      /\ op = "wipe" => target = Factory /\ ver = 0
      /\ pc = "key" /\ op \in {"burn", "wipe"} => k \in NonMaster
  BY DEF IInv, TypeOK, CardTypeOK, KeyProgress, BurnFileProgress,
         WipeFileProgress
<1>2. CASE Start
  BY <1>2 DEF Start, StartBurn, StartWipe, StartTestck, Begin
<1>3. CASE \/ BurnSelect \/ BurnAuthenticate \/ BurnGetSettings
           \/ BurnReadBack \/ BurnGetSettings2 \/ BurnVerifySdm
           \/ BurnKeyVersion \/ BurnReauthenticate \/ BurnFinalSettings
  BY <1>3, Zenon DEF BurnSelect, BurnAuthenticate, BurnGetSettings, BurnReadBack,
     BurnGetSettings2, BurnVerifySdm, BurnKeyVersion, BurnReauthenticate,
     BurnFinalSettings, SelectUid, Authenticate, Exchange
<1>4. CASE \/ WipeSelect \/ WipeAuthenticate \/ WipeGetSettings
           \/ WipeKeyVersion \/ WipeReauthenticate \/ WipeFinalSettings
  BY <1>4, ZenonT(30) DEF WipeSelect, WipeAuthenticate, WipeGetSettings, WipeKeyVersion,
     WipeReauthenticate, WipeFinalSettings, SelectUid, Authenticate, Exchange
<1>5. CASE \/ TestckSelect \/ TestckAuthenticate \/ TestckVersionBefore
           \/ TestckVersionMid \/ TestckVersionAfter
  BY <1>5, Zenon DEF TestckSelect, TestckAuthenticate, TestckVersionBefore,
     TestckVersionMid, TestckVersionAfter, SelectUid, Authenticate, Exchange
<1>6. CASE BurnClearSdm \/ WipeRestoreSettings
  BY <1>6 DEF BurnClearSdm, WipeRestoreSettings, Exchange, DisablesSdm,
              CardChangeFileSettings
<1>7. CASE BurnEnableSdm
  <2>1. HoldsTemplate(target) /\ target \in Issuers
    BY <1>7 DEF BurnEnableSdm, At, IInv, BurnFileProgress
  <2> QED
    BY <1>7, <2>1 DEF BurnEnableSdm, Exchange, EnablesSdm,
                      CardChangeFileSettings
<1>8. CASE BurnWriteNdef
  <2>1. sdm = Factory
    BY <1>8, Zenon DEF BurnWriteNdef, At, IInv, BurnFileProgress
  <2> QED
    BY <1>1, <1>8, <2>1, SMTT(20) DEF BurnWriteNdef, Exchange, RewritesFile,
                            CardWritePage
<1>9. CASE WipeEmptyNdef
  <2>1. sdm = Factory
    BY <1>9 DEF WipeEmptyNdef, At, IInv, WipeFileProgress
  <2> QED
    BY <1>9, <2>1 DEF WipeEmptyNdef, Exchange, RewritesFile, CardWriteEmpty
<1>10. CASE BurnChangeKey \/ WipeChangeKey
  BY <1>1, <1>10 DEF BurnChangeKey, WipeChangeKey, At, Exchange, InstallsOne,
                     CardChangeKey
<1>11. CASE TestckToTest \/ TestckToZero
  BY <1>11 DEF TestckToTest, TestckToZero, Exchange, InstallsOne,
               CardChangeKey
<1>12. CASE BurnChangeMasterKey
  <2>1. op = "burn" /\ pc = "master"
    BY <1>12 DEF BurnChangeMasterKey, At
  <2>2. \A i \in NonMaster : keys[i] = target
    BY <2>1, SMTT(20) DEF IInv, KeyProgress, Converted
  <2>3. sdm = target /\ HoldsTemplate(target) /\ nlen = target
    BY <2>1, Zenon DEF IInv, BurnFileProgress, Keying, HoldsTemplate
  <2> QED
    BY <1>1, <1>12, <2>2, <2>3 DEF BurnChangeMasterKey, Exchange, CommitsMaster,
                             CardChangeMasterKey
<1>13. CASE WipeChangeMasterKey
  <2>1. op = "wipe" /\ pc = "master"
    BY <1>13 DEF WipeChangeMasterKey, At
  <2>2. \A i \in NonMaster : keys[i] = target
    BY <2>1 DEF IInv, KeyProgress, Converted
  <2>3. sdm = target /\ nlen = target /\ target = Factory
    BY <2>1 DEF IInv, WipeFileProgress, Keying
  <2> QED
    BY <1>13, <2>2, <2>3 DEF WipeChangeMasterKey, Exchange, CommitsMaster,
                       CardChangeMasterKey
<1>14. CASE RemoveCard \/ Probe \/ UNCHANGED vars
  BY <1>14 DEF RemoveCard, Probe, vars
<1> QED
  BY <1>2, <1>3, <1>4, <1>5, <1>6, <1>7, <1>8, <1>9, <1>10, <1>11, <1>12,
     <1>13, <1>14 DEF Next, Step, Burn, Wipe, Testck

(* K0 changes only to the set that every other slot, SDM and the NDEF file   *)
(* are already in: K0 is the last thing burn and wipe change.                *)
THEOREM MasterLast == Spec => MasterCommitsLast
<1>1. ASSUME IInv, [Next]_vars
      PROVE  [keys'[0] # keys[0] =>
                /\ \A i \in NonMaster : keys[i] = keys'[0]
                /\ sdm = keys'[0] /\ nlen = keys'[0]]_vars
  <2>1. keys \in [Slots -> KeySets]
    BY <1>1 DEF IInv, TypeOK, CardTypeOK
  <2>2. CASE CommitsMaster
    <3>1. keys'[0] = target
      BY <2>1, <2>2 DEF CommitsMaster
    <3> QED
      BY <2>2, <3>1 DEF CommitsMaster
  <2>3. CASE InstallsOne
    BY <2>1, <2>3 DEF InstallsOne
  <2>4. CASE keys' = keys
    BY <2>4
  <2> QED
    BY <1>1, <2>2, <2>3, <2>4, StepEffect
       DEF RewritesFile, EnablesSdm, DisablesSdm
<1> QED
  BY <1>1, InductiveInvariant, PTL DEF Spec, MasterCommitsLast

------------------------------------------------------------------------------
(* burn, wipe and testck, interrupted anywhere, implement the life cycle     *)
(* that docs/card-safety.md promises of the card.                            *)
THEOREM ImplementsLifecycle == Spec => KeepsLifecycle
<1> USE DEF Lifecycle!lifecycle
<1>1. Init => Lifecycle!Init
  <2>1. NonMaster \cup {0} = Slots
    OBVIOUS
  <2> QED
    BY <2>1 DEF Init, CardInit, Lifecycle!Init, FileState
<1>2. ASSUME IInv, [Next]_vars
      PROVE  [Lifecycle!Next]_(Lifecycle!lifecycle)
  <2>1. CASE UNCHANGED <<keys, sdm, nlen, body>>
    BY <2>1 DEF FileState, HoldsTemplate
  <2>2. CASE InstallsOne
    BY <2>2, Zenon DEF InstallsOne, FileState, HoldsTemplate, Lifecycle!Next,
                Lifecycle!InstallKey
  <2>3. CASE CommitsMaster
    <3>1. FileState = target /\ UNCHANGED FileState
      BY <2>3 DEF CommitsMaster, FileState, HoldsTemplate
    <3> QED
      BY <2>3, <3>1, Zenon DEF CommitsMaster, Lifecycle!Next, Lifecycle!CommitMaster
  <2>4. CASE RewritesFile
    <3>1. FileState' \in KeySets \cup {Torn}
      BY <2>4 DEF RewritesFile, FileState
    <3> QED
      BY <2>4, <3>1 DEF RewritesFile, Lifecycle!Next, Lifecycle!RewriteFile
  <2>5. CASE EnablesSdm
    <3>1. FileState = target /\ UNCHANGED FileState /\ target # Factory
      BY <2>5 DEF EnablesSdm, FileState, HoldsTemplate
    <3> QED
      BY <2>5, <3>1 DEF EnablesSdm, Lifecycle!Next, Lifecycle!EnableSdm
  <2>6. CASE DisablesSdm
    <3>1. UNCHANGED FileState
      BY <2>6 DEF DisablesSdm, FileState, HoldsTemplate
    <3> QED
      BY <2>6, <3>1 DEF DisablesSdm, Lifecycle!Next, Lifecycle!DisableSdm
  <2> QED
    BY <1>2, <2>1, <2>2, <2>3, <2>4, <2>5, <2>6, StepEffect
<1> QED
  BY <1>1, <1>2, InductiveInvariant, PTL DEF Spec, KeepsLifecycle, Lifecycle!Spec

------------------------------------------------------------------------------
(* What the master key tells about the other slots.                          *)

(* The keys an operation was started with, and what its authentication has   *)
(* shown of them.                                                            *)
StagedKeys ==
  /\ op = "burn" => old = [i \in Slots |-> cur] /\ cur \in {Factory, target}
  /\ op = "testck" => cur = Factory
  /\ pc \notin {"idle", "uid", "auth"} => atStart[0] = cur

(* Under a K0 that is not the factory key, a wipe may have brought the first *)
(* slots back to the factory key; all the others hold the set of K0.         *)
MasterBindsSlots ==
  keys[0] # Factory =>
    \E j \in 0..N : \A i \in NonMaster : keys[i] = IF i <= j THEN Factory ELSE keys[0]

(* A slot whose version byte is 0 holds the factory key.                     *)
VersionsTell == \A i \in Slots : version[i] = 0 => keys[i] = Factory

(* How a step other than the start of an operation changes a key: slot k, or *)
(* slot 1 by testck, or K0, and the version byte with it.                    *)
ConvertsSlot ==
  /\ op \in {"burn", "wipe"} /\ pc = "key" /\ keys[k] = old[k]
  /\ CardChangeKey(k, target, ver)

TestsSlot ==
  /\ op = "testck" /\ pc \in {"toTest", "toZero"}
  /\ CardChangeKey(1, TestSet, 1) \/ CardChangeKey(1, Factory, 0)

ConvertsMaster ==
  /\ op \in {"burn", "wipe"} /\ pc = "master"
  /\ CardChangeMasterKey(target, ver)

LEMMA KeysEffect ==
  ASSUME IInv, Next
  PROVE  UNCHANGED <<keys, version>> \/ ConvertsSlot \/ TestsSlot \/ ConvertsMaster
<1> USE DEF CardRead, CardReset, CardAuthenticate
<1>1. op = "wipe" => target = Factory /\ ver = 0
  BY DEF IInv, WipeFileProgress
<1>2. CASE Start \/ RemoveCard \/ Probe
  BY <1>2 DEF Start, StartBurn, StartWipe, StartTestck, Begin, RemoveCard, Probe
<1>3. CASE \/ BurnSelect \/ BurnAuthenticate \/ BurnGetSettings
           \/ BurnReadBack \/ BurnGetSettings2 \/ BurnVerifySdm
           \/ BurnKeyVersion \/ BurnReauthenticate \/ BurnFinalSettings
  BY <1>3, Zenon DEF BurnSelect, BurnAuthenticate, BurnGetSettings, BurnReadBack,
     BurnGetSettings2, BurnVerifySdm, BurnKeyVersion, BurnReauthenticate,
     BurnFinalSettings, SelectUid, Authenticate, Exchange
<1>4. CASE \/ WipeSelect \/ WipeAuthenticate \/ WipeGetSettings
           \/ WipeKeyVersion \/ WipeReauthenticate \/ WipeFinalSettings
  BY <1>4, ZenonT(30) DEF WipeSelect, WipeAuthenticate, WipeGetSettings, WipeKeyVersion,
     WipeReauthenticate, WipeFinalSettings, SelectUid, Authenticate, Exchange
<1>5. CASE \/ TestckSelect \/ TestckAuthenticate \/ TestckVersionBefore
           \/ TestckVersionMid \/ TestckVersionAfter
  BY <1>5, Zenon DEF TestckSelect, TestckAuthenticate, TestckVersionBefore,
     TestckVersionMid, TestckVersionAfter, SelectUid, Authenticate, Exchange
<1>6. CASE \/ BurnClearSdm \/ BurnEnableSdm \/ WipeRestoreSettings
           \/ BurnWriteNdef \/ WipeEmptyNdef
  BY <1>6, Zenon DEF BurnClearSdm, BurnEnableSdm, WipeRestoreSettings, BurnWriteNdef,
     WipeEmptyNdef, Exchange, CardChangeFileSettings, CardWritePage, CardWriteEmpty
<1>7. CASE BurnChangeKey \/ WipeChangeKey
  BY <1>1, <1>7, Zenon DEF BurnChangeKey, WipeChangeKey, At, Exchange, ConvertsSlot
<1>8. CASE TestckToTest \/ TestckToZero
  BY <1>8, Zenon DEF TestckToTest, TestckToZero, At, Exchange, TestsSlot
<1>9. CASE BurnChangeMasterKey \/ WipeChangeMasterKey
  BY <1>1, <1>9, Zenon DEF BurnChangeMasterKey, WipeChangeMasterKey, At, Exchange,
     ConvertsMaster
<1> QED
  BY <1>2, <1>3, <1>4, <1>5, <1>6, <1>7, <1>8, <1>9 DEF Next, Step, Burn, Wipe, Testck

(* A step of an operation leaves its parameters alone, and gets past the     *)
(* first authentication only with the right key.                             *)
Unproven == {"idle", "uid", "auth"}

Offered == IF op = "testck" THEN Factory ELSE cur

LEMMA StepKeepsParams ==
  ASSUME Step
  PROVE  /\ op \in {"burn", "wipe", "testck"} /\ pc # "idle" /\ UNCHANGED params
         /\ pc' \in Unproven \/ pc \notin Unproven \/ keys[0] = Offered
<1> USE DEF Unproven, At, End, Goto, Check
<1>1. CASE BurnSelect \/ WipeSelect \/ TestckSelect
  BY <1>1, Zenon DEF BurnSelect, WipeSelect, TestckSelect, SelectUid
<1>2. CASE BurnAuthenticate \/ WipeAuthenticate \/ TestckAuthenticate
  BY <1>2, Zenon DEF BurnAuthenticate, WipeAuthenticate, TestckAuthenticate, Authenticate,
     Offered
<1>3. CASE BurnReauthenticate \/ WipeReauthenticate
  BY <1>3, Zenon DEF BurnReauthenticate, WipeReauthenticate, Authenticate
<1>4. CASE BurnGetSettings \/ BurnClearSdm \/ BurnWriteNdef \/ BurnReadBack
           \/ BurnGetSettings2 \/ BurnEnableSdm \/ BurnVerifySdm
  BY <1>4, Zenon DEF BurnGetSettings, BurnClearSdm, BurnWriteNdef, BurnReadBack,
     BurnGetSettings2, BurnEnableSdm, BurnVerifySdm, Exchange
<1>5. CASE BurnChangeKey \/ BurnKeyVersion \/ BurnChangeMasterKey \/ BurnFinalSettings
  BY <1>5, Zenon DEF BurnChangeKey, BurnKeyVersion, BurnChangeMasterKey, BurnFinalSettings,
     Exchange, NextSlot
<1>6. CASE WipeGetSettings \/ WipeRestoreSettings \/ WipeEmptyNdef \/ WipeChangeKey
           \/ WipeKeyVersion \/ WipeChangeMasterKey \/ WipeFinalSettings
  BY <1>6, Zenon DEF WipeGetSettings, WipeRestoreSettings, WipeEmptyNdef, WipeChangeKey,
     WipeKeyVersion, WipeChangeMasterKey, WipeFinalSettings, Exchange, NextSlot
<1>7. CASE TestckVersionBefore \/ TestckToTest \/ TestckVersionMid \/ TestckToZero
           \/ TestckVersionAfter
  BY <1>7, Zenon DEF TestckVersionBefore, TestckToTest, TestckVersionMid, TestckToZero,
     TestckVersionAfter, Exchange
<1> QED
  BY <1>1, <1>2, <1>3, <1>4, <1>5, <1>6, <1>7 DEF Step, Burn, Wipe, Testck

(* An operation runs on the keys it was started with.                        *)
LEMMA StagedKeysStep == ASSUME IInv, StagedKeys, [Next]_vars PROVE StagedKeys'
<1> USE DEF StagedKeys
<1>1. CASE Start
  BY <1>1, Zenon DEF Start, StartBurn, StartWipe, StartTestck, Begin
<1>2. CASE Step
  <2>1. /\ op \in {"burn", "wipe", "testck"} /\ pc # "idle" /\ UNCHANGED params
        /\ pc' \in Unproven \/ pc \notin Unproven \/ keys[0] = Offered
    BY <1>2, StepKeepsParams
  <2>2. pc \in {"uid", "auth"} => keys[0] = atStart[0]
    BY <2>1 DEF IInv, KeyProgress, TestckProgress, Preparing
  <2> QED
    BY <2>1, <2>2, Zenon DEF Unproven, Offered
<1>3. CASE Probe \/ RemoveCard \/ UNCHANGED vars
  BY <1>3, Zenon DEF Probe, RemoveCard, vars
<1> QED
  BY <1>1, <1>2, <1>3, Zenon DEF Next

(* Each way to change a key keeps the slots bound to K0.                     *)
LEMMA MasterBindsSlotsStep ==
  ASSUME IInv, StagedKeys, MasterBindsSlots, [Next]_vars
  PROVE  MasterBindsSlots'
<1>1. keys \in [Slots -> KeySets] /\ target \in KeySets
  BY DEF IInv, TypeOK, CardTypeOK
<1>2. CASE UNCHANGED keys
  BY <1>2 DEF MasterBindsSlots
<1>3. CASE ConvertsSlot
  <2>1. /\ k \in NonMaster /\ Converted(k - 1)
        /\ keys[0] = atStart[0] /\ atStart[0] = cur /\ keys[k] = old[k]
        /\ op = "wipe" => target = Factory
        /\ keys' = [keys EXCEPT ![k] = target]
    BY <1>3 DEF ConvertsSlot, CardChangeKey, IInv, KeyProgress, WipeFileProgress, StagedKeys
  <2>2. keys'[0] = keys[0] /\ \A i \in NonMaster : keys'[i] = IF i = k THEN target ELSE keys[i]
    BY <1>1, <2>1
  <2>3. CASE op = "burn"
    <3>1. keys[k] = cur /\ cur \in {Factory, target}
      BY <2>1, <2>3 DEF StagedKeys
    <3> QED
      BY <2>1, <2>2, <3>1 DEF MasterBindsSlots
  <2>4. CASE op = "wipe" /\ keys[0] # Factory
    <3>1. PICK j \in 0..N : \A i \in NonMaster : keys[i] = IF i <= j THEN Factory ELSE keys[0]
      BY <2>4 DEF MasterBindsSlots
    <3>2. \A i \in NonMaster : i < k => keys[i] = Factory
      BY <2>1, <2>4 DEF Converted
    <3>3. CASE k <= j
      <4>1. \A i \in NonMaster : keys'[i] = IF i <= j THEN Factory ELSE keys'[0]
        BY <2>1, <2>2, <2>4, <3>1, <3>3
      <4> QED
        BY <4>1 DEF MasterBindsSlots
    <3>4. CASE j < k
      <4>1. \A i \in NonMaster : keys'[i] = IF i <= k THEN Factory ELSE keys'[0]
        BY <2>1, <2>2, <2>4, <3>1, <3>2, <3>4
      <4> QED
        BY <2>1, <4>1 DEF MasterBindsSlots
    <3> QED
      BY <2>1, <3>3, <3>4
  <2> QED
    BY <1>3, <2>2, <2>3, <2>4 DEF ConvertsSlot, MasterBindsSlots
<1>4. CASE TestsSlot
  <2>1. keys[0] = Factory
    BY <1>4 DEF TestsSlot, StagedKeys, IInv, TestckProgress
  <2>2. keys'[0] = Factory
    BY <1>1, <1>4, <2>1 DEF TestsSlot, CardChangeKey
  <2> QED
    BY <2>2 DEF MasterBindsSlots
<1>5. CASE ConvertsMaster
  <2>1. \A i \in NonMaster : keys[i] = target
    BY <1>5 DEF ConvertsMaster, IInv, KeyProgress, Converted
  <2>2. keys'[0] = target /\ \A i \in NonMaster : keys'[i] = target
    BY <1>1, <1>5, <2>1 DEF ConvertsMaster, CardChangeMasterKey
  <2>3. \A i \in NonMaster : keys'[i] = IF i <= 0 THEN Factory ELSE keys'[0]
    BY <2>2
  <2> QED
    BY <2>3 DEF MasterBindsSlots
<1> QED
  BY <1>2, <1>3, <1>4, <1>5, KeysEffect DEF vars

(* Each way to change a key writes a version byte that tells the factory key *)
(* from the others, if burns are asked for a version other than 0.           *)
LEMMA VersionsTellStep ==
  ASSUME IInv, VersionsTell, op = "burn" => ver # 0, [Next]_vars
  PROVE  VersionsTell'
<1>1. /\ keys \in [Slots -> KeySets] /\ version \in [Slots -> Nat] /\ k \in Nat
      /\ target \in KeySets /\ ver \in Nat
      /\ op = "wipe" => target = Factory
  BY DEF IInv, TypeOK, CardTypeOK, WipeFileProgress
<1>2. CASE UNCHANGED <<keys, version>>
  BY <1>2 DEF VersionsTell
<1>3. CASE ConvertsSlot
  BY <1>1, <1>3 DEF ConvertsSlot, CardChangeKey, VersionsTell
<1>4. CASE TestsSlot
  BY <1>1, <1>4 DEF TestsSlot, CardChangeKey, VersionsTell
<1>5. CASE ConvertsMaster
  BY <1>1, <1>5 DEF ConvertsMaster, CardChangeMasterKey, VersionsTell
<1> QED
  BY <1>2, <1>3, <1>4, <1>5, KeysEffect DEF vars

(* However operations were interrupted: a K0 that is not the factory key     *)
(* binds the other slots, up to the prefix a wipe has brought back.  Opening *)
(* the card with one key set tells what the slots hold.                      *)
THEOREM MasterBinds == Spec => []MasterBindsSlots
<1>1. Init => StagedKeys /\ MasterBindsSlots
  BY DEF Init, CardInit, StagedKeys, MasterBindsSlots
<1>2. IInv /\ StagedKeys /\ MasterBindsSlots /\ [Next]_vars
      => StagedKeys' /\ MasterBindsSlots'
  BY StagedKeysStep, MasterBindsSlotsStep
<1> QED
  BY <1>1, <1>2, InductiveInvariant, PTL DEF Spec

(* Where burns never ask for version 0, the version bytes that GetKeyVersion *)
(* answers tell a blank slot, after any interruption.                        *)
THEOREM VersionZeroIsBlank == ASSUME 0 \notin BurnVersions PROVE Spec => []VersionsTell
<1> DEFINE Versioned == op = "burn" => ver # 0
<1>1. Init => Versioned /\ VersionsTell
  BY DEF Init, CardInit, VersionsTell
<1>2. ASSUME Versioned, [Next]_vars PROVE Versioned'
  <2>1. CASE Start
    BY <2>1, Zenon DEF Start, StartBurn, StartWipe, StartTestck, Begin
  <2>2. CASE Step
    BY <1>2, <2>2, StepKeepsParams
  <2> QED
    BY <1>2, <2>1, <2>2 DEF Next, Probe, RemoveCard, vars
<1>3. IInv /\ VersionsTell /\ Versioned /\ [Next]_vars => VersionsTell' /\ Versioned'
  BY <1>2, VersionsTellStep
<1> QED
  BY <1>1, <1>3, InductiveInvariant, PTL DEF Spec

------------------------------------------------------------------------------
(* What the callers of the operations need to know of their steps.           *)

(* What a command of the library can come to: only an authentication with a  *)
(* wrong key ends in "auth", and the first authentication comes first.       *)
LEMMA StepOutcome ==
  ASSUME IInv, Step
  PROVE  /\ outcome' = "auth" =>
              /\ pc' = "idle"
              /\ \/ pc = "auth" /\ keys[0] # Offered
                 \/ pc = "reauth" /\ keys[0] # target
         /\ pc' \in {"uid", "auth"} => pc = "uid" /\ UNCHANGED keys
<1> USE DEF At, End, Goto, Check
<1>1. outcome = "none" /\ (op = "wipe" => target = Factory)
  BY StepKeepsParams DEF IInv, WipeFileProgress
<1>2. CASE BurnSelect \/ WipeSelect \/ TestckSelect
  BY <1>1, <1>2, Zenon DEF BurnSelect, WipeSelect, TestckSelect, SelectUid, CardRead
<1>3. CASE BurnAuthenticate \/ WipeAuthenticate \/ TestckAuthenticate
  BY <1>1, <1>3, Zenon DEF BurnAuthenticate, WipeAuthenticate, TestckAuthenticate, Authenticate,
     Offered
<1>4. CASE BurnReauthenticate \/ WipeReauthenticate
  BY <1>1, <1>4, Zenon DEF BurnReauthenticate, WipeReauthenticate, Authenticate
<1>5. CASE BurnGetSettings \/ BurnClearSdm \/ BurnWriteNdef \/ BurnReadBack
           \/ BurnGetSettings2 \/ BurnEnableSdm \/ BurnVerifySdm
  BY <1>1, <1>5, Zenon DEF BurnGetSettings, BurnClearSdm, BurnWriteNdef, BurnReadBack,
     BurnGetSettings2, BurnEnableSdm, BurnVerifySdm, Exchange
<1>6. CASE BurnChangeKey \/ BurnKeyVersion \/ BurnChangeMasterKey \/ BurnFinalSettings
  BY <1>1, <1>6, Zenon DEF BurnChangeKey, BurnKeyVersion, BurnChangeMasterKey, BurnFinalSettings,
     Exchange, NextSlot
<1>7. CASE WipeGetSettings \/ WipeRestoreSettings \/ WipeEmptyNdef \/ WipeChangeKey
           \/ WipeKeyVersion \/ WipeChangeMasterKey \/ WipeFinalSettings
  BY <1>1, <1>7, Zenon DEF WipeGetSettings, WipeRestoreSettings, WipeEmptyNdef, WipeChangeKey,
     WipeKeyVersion, WipeChangeMasterKey, WipeFinalSettings, Exchange, NextSlot
<1>8. CASE TestckVersionBefore \/ TestckToTest \/ TestckVersionMid \/ TestckToZero
           \/ TestckVersionAfter
  BY <1>1, <1>8, Zenon DEF TestckVersionBefore, TestckToTest, TestckVersionMid, TestckToZero,
     TestckVersionAfter, Exchange
<1> QED
  BY <1>2, <1>3, <1>4, <1>5, <1>6, <1>7, <1>8 DEF Step, Burn, Wipe, Testck

(* testck authenticates once.                                                *)
LEMMA TestckHasNoReauth == ASSUME Step, op = "testck" PROVE pc # "reauth"
<1>1. ~Burn
  BY Zenon DEF Burn, At, BurnSelect, BurnAuthenticate, BurnGetSettings, BurnClearSdm,
     BurnWriteNdef, BurnReadBack, BurnGetSettings2, BurnEnableSdm, BurnVerifySdm, BurnChangeKey,
     BurnKeyVersion, BurnChangeMasterKey, BurnReauthenticate, BurnFinalSettings
<1>2. ~Wipe
  BY Zenon DEF Wipe, At, WipeSelect, WipeAuthenticate, WipeGetSettings, WipeRestoreSettings,
     WipeEmptyNdef, WipeChangeKey, WipeKeyVersion, WipeChangeMasterKey, WipeReauthenticate,
     WipeFinalSettings
<1>3. Testck => pc # "reauth"
  BY Zenon DEF Testck, At, TestckSelect, TestckAuthenticate, TestckVersionBefore, TestckToTest,
     TestckVersionMid, TestckToZero, TestckVersionAfter
<1> QED
  BY <1>1, <1>2, <1>3 DEF Step

------------------------------------------------------------------------------
(* The commands of an operation run out.                                     *)

(* The label that follows another within an operation.                       *)
Follows ==
  \/ /\ k' = k
     /\ \/ pc = "uid" /\ pc' = "auth"
        \/ pc = "auth" /\ pc' \in {"get", "before"}
        \/ pc = "get" /\ pc' \in {"clear", "write", "restore"}
        \/ pc = "clear" /\ pc' = "write"
        \/ pc = "readback" /\ pc' = "get2"
        \/ pc = "get2" /\ pc' = "enable"
        \/ pc = "enable" /\ pc' = "verify"
        \/ pc = "restore" /\ pc' = "empty"
        \/ pc \in {"verify", "empty"} /\ pc' = "key"
        \/ pc = "key" /\ pc' = "keyver"
        \/ pc = "keyver" /\ pc' = "master"
        \/ pc = "master" /\ pc' = "reauth"
        \/ pc = "reauth" /\ pc' = "final"
        \/ pc = "before" /\ pc' = "toTest"
        \/ pc = "toTest" /\ pc' = "isTest"
        \/ pc = "isTest" /\ pc' = "toZero"
        \/ pc = "toZero" /\ pc' = "isZero"
  \/ pc = "write" /\ pc' = "write" /\ k < Chunks /\ k' = k + 1
  \/ pc = "write" /\ pc' = "readback"
  \/ pc = "keyver" /\ pc' = "key" /\ k < N /\ k' = k + 1

LEMMA StepFollows ==
  ASSUME Step
  PROVE  /\ pc # "idle" /\ (pc' = "idle" \/ Follows)
         /\ pc \in {"clear", "write", "readback"} \/ pc' \in {"clear", "write", "readback"} => op = "burn"
         /\ pc \in {"verify", "empty", "key", "keyver"} => op \in {"burn", "wipe"}
<1> USE DEF At, End, Goto, Check, Follows
<1>1. CASE BurnSelect \/ WipeSelect \/ TestckSelect
  BY <1>1, Zenon DEF BurnSelect, WipeSelect, TestckSelect, SelectUid
<1>2. CASE BurnAuthenticate \/ WipeAuthenticate \/ TestckAuthenticate
  BY <1>2, Zenon DEF BurnAuthenticate, WipeAuthenticate, TestckAuthenticate, Authenticate
<1>3. CASE BurnReauthenticate \/ WipeReauthenticate
  BY <1>3, Zenon DEF BurnReauthenticate, WipeReauthenticate, Authenticate
<1>4. CASE BurnGetSettings \/ BurnClearSdm \/ BurnWriteNdef
  BY <1>4, Zenon DEF BurnGetSettings, BurnClearSdm, BurnWriteNdef, Exchange
<1>5. CASE BurnReadBack \/ BurnGetSettings2 \/ BurnEnableSdm \/ BurnVerifySdm
  BY <1>5, Zenon DEF BurnReadBack, BurnGetSettings2, BurnEnableSdm, BurnVerifySdm, Exchange
<1>6. CASE BurnChangeKey \/ BurnKeyVersion \/ BurnChangeMasterKey \/ BurnFinalSettings
  BY <1>6, Zenon DEF BurnChangeKey, BurnKeyVersion, BurnChangeMasterKey, BurnFinalSettings,
     Exchange, NextSlot
<1>7. CASE WipeGetSettings \/ WipeRestoreSettings \/ WipeEmptyNdef
  BY <1>7, Zenon DEF WipeGetSettings, WipeRestoreSettings, WipeEmptyNdef, Exchange
<1>8. CASE WipeChangeKey \/ WipeKeyVersion \/ WipeChangeMasterKey \/ WipeFinalSettings
  BY <1>8, Zenon DEF WipeChangeKey, WipeKeyVersion, WipeChangeMasterKey, WipeFinalSettings,
     Exchange, NextSlot
<1>9. CASE TestckVersionBefore \/ TestckToTest \/ TestckVersionMid \/ TestckToZero
           \/ TestckVersionAfter
  BY <1>9, Zenon DEF TestckVersionBefore, TestckToTest, TestckVersionMid, TestckToZero,
     TestckVersionAfter, Exchange
<1> QED
  BY <1>1, <1>2, <1>3, <1>4, <1>5, <1>6, <1>7, <1>8, <1>9, Zenon DEF Step, Burn, Wipe, Testck

(* Where in its loops an operation is.                                       *)
LEMMA LoopsAreBounded ==
  ASSUME IInv
  PROVE  /\ k \in Nat /\ pc \in Labels
         /\ pc \in {"key", "keyver"} /\ op \in {"burn", "wipe"} => k \in 1..N
         /\ pc = "write" /\ op = "burn" => k \in 1..Chunks
         /\ pc \in {"verify", "empty", "get", "clear"} /\ op \in {"burn", "wipe"} => k = 1
<1>1. k \in Nat /\ pc \in Labels
  BY DEF IInv, TypeOK
<1>2. pc \in {"key", "keyver"} /\ op \in {"burn", "wipe"} => k \in 1..N
  BY DEF IInv, KeyProgress
<1>3. pc = "write" /\ op = "burn" => k \in 1..Chunks
  BY DEF IInv, BurnFileProgress
<1>4. pc \in {"verify", "empty", "get", "clear"} /\ op \in {"burn", "wipe"} => k = 1
  BY DEF IInv, KeyProgress, Preparing
<1> QED
  BY <1>1, <1>2, <1>3, <1>4

(* A loop counts down, and every other label has fewer commands left than    *)
(* the one before it.                                                        *)
LEMMA CommandsCount ==
  ASSUME NEW j
  PROVE  /\ CommandsAt("idle", j) = 0
         /\ CommandsAt("final", j) = 1 /\ CommandsAt("isZero", j) = 1
         /\ CommandsAt("reauth", j) = 2 /\ CommandsAt("toZero", j) = 2
         /\ CommandsAt("master", j) = 3 /\ CommandsAt("isTest", j) = 3
         /\ CommandsAt("toTest", j) = 4 /\ CommandsAt("before", j) = 5
         /\ CommandsAt("keyver", j) = CommandsFrom(j) - 1
         /\ CommandsAt("key", j) = CommandsFrom(j)
         /\ CommandsAt("verify", j) = CommandsFrom(1) + 1
         /\ CommandsAt("empty", j) = CommandsFrom(1) + 1
         /\ CommandsAt("enable", j) = CommandsFrom(1) + 2
         /\ CommandsAt("restore", j) = CommandsFrom(1) + 2
         /\ CommandsAt("get2", j) = CommandsFrom(1) + 3
         /\ CommandsAt("readback", j) = CommandsFrom(1) + 4
         /\ CommandsAt("write", j) = CommandsFrom(1) + 5 + Chunks - j
         /\ CommandsAt("clear", j) = CommandsFrom(1) + 5 + Chunks
         /\ CommandsAt("get", j) = CommandsFrom(1) + 6 + Chunks
         /\ CommandsAt("auth", j) = CommandsFrom(1) + 7 + Chunks
         /\ CommandsAt("uid", j) = CommandsFrom(1) + 8 + Chunks
BY DEF CommandsAt

(* How many commands are left at most.                                       *)
LEMMA CommandsBounded ==
  ASSUME NEW at \in Labels, NEW j \in Nat,
         at \in {"key", "keyver"} => j \in 1..N, at = "write" => j \in 1..Chunks
  PROVE  /\ CommandsAt(at, j) \in 0..(2 * N + 11 + Chunks)
         /\ at # "idle" => CommandsAt(at, j) \in 1..(2 * N + 11 + Chunks)
<1>1. CommandsFrom(1) = 2 * N + 3 /\ N \in Nat /\ N >= 1 /\ Chunks \in Nat /\ Chunks >= 1
  BY DEF CommandsFrom
<1>2. j \in 1..N => CommandsFrom(j) \in 5..(2 * N + 3)
  BY <1>1 DEF CommandsFrom
<1>3. CASE at \in {"key", "keyver"}
  <2>1. CommandsFrom(j) \in Nat /\ 5 =< CommandsFrom(j) /\ CommandsFrom(j) =< 2 * N + 3
    BY <1>2, <1>3
  <2>2. CommandsAt(at, j) = CommandsFrom(j) \/ CommandsAt(at, j) = CommandsFrom(j) - 1
    BY <1>3, CommandsCount, Zenon
  <2> QED
    BY <1>1, <2>1, <2>2
<1>4. CASE at = "write"
  BY <1>1, <1>4, CommandsCount
<1>5. CASE at \in {"idle", "final", "isZero", "reauth", "toZero", "master", "isTest", "toTest",
                  "before"}
  BY <1>1, <1>5, CommandsCount
<1>6. CASE at \in {"verify", "empty", "enable", "restore", "get2", "readback", "clear", "get",
                  "auth", "uid"}
  BY <1>1, <1>6, CommandsCount
<1> QED
  BY <1>3, <1>4, <1>5, <1>6 DEF Labels

(* Every command of burn, wipe and testck leaves fewer to send, for any      *)
(* number of slots and pages: an operation sends at most 2N + 11 + Chunks    *)
(* and ends, whatever the card answers.                                      *)
THEOREM CommandsAlwaysRunOut == Spec => CommandsRunOut
<1>1. ASSUME IInv, IInv', Step
      PROVE  /\ CommandsLeft \in 1..(2 * N + 11 + Chunks)
             /\ CommandsLeft' \in Nat /\ CommandsLeft' < CommandsLeft
  <2>1. /\ pc # "idle" /\ (pc' = "idle" \/ Follows)
        /\ pc \in {"clear", "write", "readback"} \/ pc' \in {"clear", "write", "readback"} => op = "burn"
        /\ pc \in {"verify", "empty", "key", "keyver"} => op \in {"burn", "wipe"}
    BY <1>1, StepFollows
  <2>2. /\ k \in Nat /\ pc \in Labels
        /\ pc \in {"key", "keyver"} => k \in 1..N
        /\ pc = "write" => k \in 1..Chunks
        /\ pc \in {"verify", "empty", "clear"} => k = 1
        /\ pc = "get" /\ op = "burn" => k = 1
    BY <1>1, <2>1, LoopsAreBounded
  <2>3. /\ CommandsLeft \in 0..(2 * N + 11 + Chunks)
        /\ CommandsLeft \in 1..(2 * N + 11 + Chunks)
    BY <2>1, <2>2, CommandsBounded DEF CommandsLeft
  <2>4. CommandsLeft' = CommandsAt(pc', k')
    BY DEF CommandsLeft
  <2>f. CommandsFrom(1) = 2 * N + 3 /\ N \in Nat /\ N >= 1 /\ Chunks \in Nat /\ Chunks >= 1
    BY DEF CommandsFrom
  <2>5. CASE pc' = "idle"
    BY <2>3, <2>4, <2>5, CommandsCount
  <2>6. CASE pc = "write" /\ pc' = "write" /\ k < Chunks /\ k' = k + 1
    BY <2>2, <2>4, <2>6, <2>f, <2>3, CommandsCount DEF CommandsLeft
  <2>7. CASE pc = "write" /\ pc' = "readback"
    BY <2>2, <2>4, <2>7, <2>f, <2>3, CommandsCount DEF CommandsLeft
  <2>8. CASE pc = "keyver" /\ pc' = "key" /\ k < N /\ k' = k + 1
    <3>1. CommandsFrom(k + 1) = CommandsFrom(k) - 2 /\ CommandsFrom(k) \in Nat
          /\ CommandsFrom(k + 1) \in Nat
      BY <2>2, <2>8 DEF CommandsFrom
    <3> QED
      BY <2>3, <2>4, <2>8, <3>1, CommandsCount DEF CommandsLeft
  <2>9. CASE k' = k /\ pc \in {"key", "keyver"} /\ pc' \in {"keyver", "master"} /\ pc # pc'
    <3>1. CommandsFrom(k) \in Nat /\ CommandsFrom(k) >= 5
      BY <2>2, <2>9 DEF CommandsFrom
    <3>2. CASE pc = "key" /\ pc' = "keyver"
      BY <2>3, <2>4, <2>9, <3>1, <3>2, CommandsCount DEF CommandsLeft
    <3>3. CASE pc' = "master"
      <4>1. CommandsLeft' = 3 /\ CommandsLeft >= 4
        BY <2>4, <2>9, <3>1, <3>3, CommandsCount DEF CommandsLeft
      <4> QED
        BY <2>3, <4>1
    <3>4. pc = "keyver" => pc' = "master"
      BY <2>9
    <3> QED
      BY <2>9, <3>2, <3>3, <3>4
  <2>10. CASE k' = k /\ pc \in {"verify", "empty"} /\ pc' = "key"
    BY <2>2, <2>3, <2>4, <2>10, <2>f, CommandsCount DEF CommandsLeft
  <2>11. CASE k' = k /\ pc \in {"get", "clear"} /\ pc' = "write"
    BY <2>1, <2>2, <2>3, <2>4, <2>11, <2>f, CommandsCount DEF CommandsLeft
  <2>12. CASE \/ pc = "uid" /\ pc' = "auth"
              \/ pc = "auth" /\ pc' \in {"get", "before"}
              \/ pc = "get" /\ pc' \in {"clear", "restore"}
              \/ pc = "restore" /\ pc' = "empty"
    BY <2>3, <2>4, <2>12, <2>f, CommandsCount DEF CommandsLeft
  <2>13. CASE \/ pc = "readback" /\ pc' = "get2"
              \/ pc = "get2" /\ pc' = "enable"
              \/ pc = "enable" /\ pc' = "verify"
    BY <2>3, <2>4, <2>13, <2>f, CommandsCount DEF CommandsLeft
  <2>14. CASE \/ pc = "master" /\ pc' = "reauth"
              \/ pc = "reauth" /\ pc' = "final"
              \/ pc = "before" /\ pc' = "toTest"
              \/ pc = "toTest" /\ pc' = "isTest"
              \/ pc = "isTest" /\ pc' = "toZero"
              \/ pc = "toZero" /\ pc' = "isZero"
    BY <2>3, <2>4, <2>14, CommandsCount DEF CommandsLeft
  <2> QED
    BY <2>1, <2>3, <2>5, <2>6, <2>7, <2>8, <2>9, <2>10, <2>11, <2>12, <2>13, <2>14, Zenon DEF Follows
<1> QED
  BY <1>1, InductiveInvariant, PTL DEF CommandsRunOut

------------------------------------------------------------------------------
(* A burn or wipe that is told the truth.                                    *)

(* The key is verified right after it was changed.                           *)
VersionIsNew == op \in {"burn", "wipe"} /\ pc = "keyver" => version[k] = ver

LEMMA KeyversFollow ==
  ASSUME IInv, IInv', VersionIsNew, [Next]_vars PROVE VersionIsNew'
<1>1. CASE Step
  <2>1. UNCHANGED params
    BY <1>1, StepKeepsParams
  <2>2. SUFFICES ASSUME op \in {"burn", "wipe"}, pc' = "keyver" PROVE version'[k'] = ver
    BY <2>1 DEF VersionIsNew
  <2>3. pc = "key" /\ k' = k
    BY <1>1, <2>2, StepFollows DEF Follows
  <2>4. \/ BurnChangeKey \/ WipeChangeKey
    BY <1>1, <2>2, <2>3, Zenon DEF Step, Burn, Wipe, Testck, At, BurnSelect, BurnAuthenticate,
       BurnGetSettings, BurnClearSdm, BurnWriteNdef, BurnReadBack, BurnGetSettings2, BurnEnableSdm,
       BurnVerifySdm, BurnKeyVersion, BurnChangeMasterKey, BurnReauthenticate, BurnFinalSettings,
       WipeSelect, WipeAuthenticate, WipeGetSettings, WipeRestoreSettings, WipeEmptyNdef,
       WipeKeyVersion, WipeChangeMasterKey, WipeReauthenticate, WipeFinalSettings,
       TestckSelect, TestckAuthenticate, TestckVersionBefore, TestckToTest, TestckVersionMid,
       TestckToZero, TestckVersionAfter
  <2>5. CardChangeKey(k, target, ver)
    <3>1. op = "wipe" => target = Factory /\ ver = 0
      BY <1>1 DEF IInv, WipeFileProgress
    <3> QED
      BY <2>2, <2>4, <3>1, Zenon DEF BurnChangeKey, WipeChangeKey, At, Exchange, End
  <2>6. k \in Slots /\ version \in [Slots -> Nat]
    <3>1. k \in 1..N
      BY <2>2, <2>3, LoopsAreBounded, Zenon
    <3>2. version \in [Slots -> Nat]
      BY Zenon DEF IInv, TypeOK, CardTypeOK
    <3> QED
      BY <3>1, <3>2
  <2> QED
    BY <2>3, <2>5, <2>6 DEF CardChangeKey
<1>2. CASE Start
  BY <1>2 DEF Start, StartBurn, StartWipe, StartTestck, Begin, VersionIsNew
<1>3. CASE Probe \/ RemoveCard \/ UNCHANGED vars
  BY <1>3, Zenon DEF Probe, RemoveCard, CardReset, vars, VersionIsNew
<1> QED
  BY <1>1, <1>2, <1>3, Zenon DEF Next

(* The first authentication offers the key that is staged for slot 0.        *)
OffersStaged == op \in {"burn", "wipe"} => cur = old[0]

LEMMA OffersStagedStep == ASSUME OffersStaged, [Next]_vars PROVE OffersStaged'
<1>1. CASE Start
  <2>1. CASE StartBurn
    BY <2>1 DEF StartBurn, Begin, OffersStaged
  <2>2. CASE StartWipe \/ StartTestck
    BY <2>2, Zenon DEF StartWipe, StartTestck, Begin, OffersStaged
  <2> QED
    BY <1>1, <2>1, <2>2 DEF Start
<1>2. CASE Step
  BY <1>2, StepKeepsParams DEF OffersStaged
<1>3. CASE Probe \/ RemoveCard \/ UNCHANGED vars
  BY <1>3, Zenon DEF Probe, RemoveCard, vars, OffersStaged
<1> QED
  BY <1>1, <1>2, <1>3, Zenon DEF Next

(* What a command of burn or wipe finds on the card is what it expects.      *)
LEMMA TruthEndsWell ==
  ASSUME IInv, VersionIsNew, OffersStaged, Step, op \in {"burn", "wipe"}, old = atStart
  PROVE  outcome' \in {"none", "ok", "transport", "delay", "session"}
<1> USE DEF At, End, Goto, Check
<1>1. outcome = "none" /\ (op = "wipe" => target = Factory /\ ver = 0)
  BY StepKeepsParams DEF IInv, WipeFileProgress
<1>2. CASE BurnSelect \/ WipeSelect
  BY <1>1, <1>2, Zenon DEF BurnSelect, WipeSelect, SelectUid
<1>3. CASE BurnAuthenticate \/ WipeAuthenticate
  <2>1. pc = "auth"
    BY <1>3, Zenon DEF BurnAuthenticate, WipeAuthenticate
  <2>2. keys[0] = cur
    BY <2>1 DEF IInv, KeyProgress, Preparing, OffersStaged
  <2> QED
    BY <1>1, <1>3, <2>2, Zenon DEF BurnAuthenticate, WipeAuthenticate, Authenticate
<1>4. CASE BurnReauthenticate \/ WipeReauthenticate
  <2>1. pc = "reauth"
    BY <1>4, Zenon DEF BurnReauthenticate, WipeReauthenticate
  <2>2. keys[0] = target
    BY <2>1 DEF IInv, KeyProgress, AllSlots
  <2> QED
    BY <1>1, <1>4, <2>2, Zenon DEF BurnReauthenticate, WipeReauthenticate, Authenticate
<1>5. CASE BurnGetSettings \/ BurnClearSdm \/ BurnWriteNdef \/ BurnGetSettings2 \/ BurnEnableSdm
  BY <1>1, <1>5, Zenon DEF BurnGetSettings, BurnClearSdm, BurnWriteNdef, BurnGetSettings2,
     BurnEnableSdm, Exchange
<1>6. CASE BurnReadBack
  <2>1. HoldsTemplate(target)
    BY <1>6, Zenon DEF BurnReadBack, IInv, BurnFileProgress
  <2> QED
    BY <1>1, <1>6, <2>1, Zenon DEF BurnReadBack, Exchange
<1>7. CASE BurnVerifySdm \/ BurnFinalSettings
  <2>1. op = "burn" /\ pc \in {"verify"} \cup Keying
    BY <1>7, Zenon DEF BurnVerifySdm, BurnFinalSettings, Keying
  <2>2. sdm # Factory
    BY <2>1 DEF IInv, BurnFileProgress
  <2> QED
    BY <1>1, <1>7, <2>2, Zenon DEF BurnVerifySdm, BurnFinalSettings, Exchange
<1>8. CASE BurnChangeKey \/ WipeChangeKey
  <2>1. pc = "key"
    BY <1>8, Zenon DEF BurnChangeKey, WipeChangeKey
  <2>2. k \in NonMaster /\ Converted(k - 1)
    BY <2>1, Zenon DEF IInv, KeyProgress
  <2>3. keys[k] = old[k]
    BY <2>2 DEF Converted
  <2> QED
    BY <1>1, <1>8, <2>3, Zenon DEF BurnChangeKey, WipeChangeKey, Exchange
<1>9. CASE BurnKeyVersion \/ WipeKeyVersion
  <2>1. version[k] = ver
    BY <1>9, Zenon DEF BurnKeyVersion, WipeKeyVersion, VersionIsNew
  <2> QED
    BY <1>1, <1>9, <2>1, Zenon DEF BurnKeyVersion, WipeKeyVersion, Exchange, NextSlot
<1>10. CASE BurnChangeMasterKey \/ WipeChangeMasterKey \/ WipeGetSettings
            \/ WipeRestoreSettings \/ WipeEmptyNdef
  BY <1>1, <1>10, Zenon DEF BurnChangeMasterKey, WipeChangeMasterKey, WipeGetSettings,
     WipeRestoreSettings, WipeEmptyNdef, Exchange
<1>11. CASE WipeFinalSettings
  <2>1. op = "wipe" /\ pc = "final"
    BY <1>11, Zenon DEF WipeFinalSettings
  <2>2. sdm = Factory
    BY <2>1 DEF IInv, WipeFileProgress, Keying
  <2> QED
    BY <1>1, <1>11, <2>2, Zenon DEF WipeFinalSettings, Exchange
<1>12. ~Testck
  BY Zenon DEF Testck, TestckSelect, TestckAuthenticate, TestckVersionBefore, TestckToTest,
     TestckVersionMid, TestckToZero, TestckVersionAfter
<1> QED
  BY <1>2, <1>3, <1>4, <1>5, <1>6, <1>7, <1>8, <1>9, <1>10, <1>11, <1>12 DEF Step, Burn, Wipe

(* However a card was torn, a burn or wipe that is told what its slots hold  *)
(* is stopped by nothing that is on the card.                                *)
THEOREM TruthSuffices == Spec => []TrueKeysSuffice
<1>1. Init => VersionIsNew /\ OffersStaged /\ TrueKeysSuffice
  BY DEF Init, VersionIsNew, OffersStaged, TrueKeysSuffice
<1>2. ASSUME IInv, VersionIsNew, OffersStaged, TrueKeysSuffice, [Next]_vars
      PROVE  TrueKeysSuffice'
  <2>1. CASE Step
    <3>1. UNCHANGED <<op, old, atStart>>
      BY <2>1, StepKeepsParams
    <3> QED
      BY <1>2, <2>1, <3>1, TruthEndsWell DEF TrueKeysSuffice
  <2>2. CASE Start
    BY <2>2, Zenon DEF Start, StartBurn, StartWipe, StartTestck, Begin, TrueKeysSuffice
  <2>3. CASE Probe \/ RemoveCard \/ UNCHANGED vars
    BY <1>2, <2>3, Zenon DEF Probe, RemoveCard, vars, TrueKeysSuffice
  <2> QED
    BY <1>2, <2>1, <2>2, <2>3, Zenon DEF Next
<1>3. IInv /\ IInv' /\ VersionIsNew /\ OffersStaged /\ TrueKeysSuffice /\ [Next]_vars
        => VersionIsNew' /\ OffersStaged' /\ TrueKeysSuffice'
  BY <1>2, KeyversFollow, OffersStagedStep
<1> QED
  BY <1>1, <1>3, InductiveInvariant, PTL DEF Spec
=============================================================================
