---------------------------- MODULE CardLifecycle ----------------------------
(***************************************************************************)
(* What the card operations promise about a card, whatever interrupts them *)
(* (the "critical safety properties" of docs/card-safety.md, stated over   *)
(* the card alone): slots change one at a time, the master key last, and   *)
(* SDM is live only over a complete file that is not being rewritten.      *)
(***************************************************************************)
EXTENDS Naturals

CONSTANTS
  Factory,     \* the delivery state of a slot, of SDM and of the NDEF file
  Sets,        \* key sets that can be in a slot, Factory among them
  NonMaster,   \* the slots other than 0
  Torn         \* a file that is neither empty nor one complete template

VARIABLES slot, sdm, file

lifecycle == <<slot, sdm, file>>

Init ==
  /\ slot = [i \in NonMaster \cup {0} |-> Factory]
  /\ sdm = Factory
  /\ file = Factory

InstallKey ==
  \E i \in NonMaster, s \in Sets :
    slot' = [slot EXCEPT ![i] = s] /\ UNCHANGED <<sdm, file>>

(* The master key of a set is written only over a card that is otherwise     *)
(* completely in the state of that set.                                      *)
CommitMaster ==
  \E s \in Sets :
    /\ \A i \in NonMaster : slot[i] = s
    /\ sdm = s /\ file = s
    /\ slot' = [slot EXCEPT ![0] = s]
    /\ UNCHANGED <<sdm, file>>

RewriteFile ==
  /\ sdm = Factory
  /\ file' \in Sets \cup {Torn}
  /\ UNCHANGED <<slot, sdm>>

EnableSdm ==
  /\ file \in Sets \ {Factory}
  /\ sdm' = file
  /\ UNCHANGED <<slot, file>>

DisableSdm == sdm' = Factory /\ UNCHANGED <<slot, file>>

Next == InstallKey \/ CommitMaster \/ RewriteFile \/ EnableSdm \/ DisableSdm

Spec == Init /\ [][Next]_lifecycle
=============================================================================
