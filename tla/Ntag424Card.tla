----------------------------- MODULE Ntag424Card -----------------------------
(***************************************************************************)
(* The NTAG 424 DNA card as the host code of this repository relies on it. *)
(* The card is hardware, outside the repository: what it does with each    *)
(* command is taken from the way crates/bolty-ntag and vendor/ntag424 use  *)
(* it and from the hardware observations the repository records.           *)
(*                                                                         *)
(* A key is abstracted to the name of the key set it belongs to: the code  *)
(* only ever compares the key of slot i of one set with the key of slot i  *)
(* of another.  Factory names the set of all-zero keys.                    *)
(***************************************************************************)
EXTENDS Naturals

CONSTANTS
  Factory,      \* the all-zero keys, and the empty NDEF and SDM configuration
  Issuers,      \* key sets that can be installed (one per issuer key)
  TestSet,      \* the fixed TEST_KEY that testck puts into slot 1
  N,            \* number of non-master slots (4 on the card: K1..K4)
  Chunks,       \* WriteData commands that one NDEF template takes
  NoSession     \* the card holds no authenticated session

ASSUME CardAssumption ==
  /\ N \in Nat \ {0}
  /\ Chunks \in Nat \ {0}
  /\ Factory \notin Issuers
  /\ TestSet \notin Issuers \cup {Factory}
  /\ NoSession \notin 0..N

KeySets   == Issuers \cup {Factory, TestSet}
NonMaster == 1..N
Slots     == 0..N
Pages     == 1..Chunks

VARIABLES
  keys,      \* keys[i]: the set whose slot-i key slot i holds
  version,   \* version[i]: the version byte stored with the key of slot i
  sdm,       \* the template SDM is configured for; Factory = SDM off
  access,    \* NDEF write access: "Free" or "K0"
  nlen,      \* whose message length the NLEN field announces; Factory = 0
  body,      \* body[p]: the template page p of the NDEF file comes from
  session    \* the slot authenticated in the running session, or NoSession

contents == <<keys, version, sdm, access, nlen, body>>
cardVars == <<keys, version, sdm, access, nlen, body, session>>

CardTypeOK ==
  /\ keys \in [Slots -> KeySets]
  /\ version \in [Slots -> Nat]
  /\ sdm \in KeySets
  /\ access \in {"Free", "K0"}
  /\ nlen \in KeySets
  /\ body \in [Pages -> KeySets]
  /\ session \in Slots \cup {NoSession}

(* A card as delivered. *)
CardInit ==
  /\ keys = [i \in Slots |-> Factory]
  /\ version = [i \in Slots |-> 0]
  /\ sdm = Factory
  /\ access = "Free"
  /\ nlen = Factory
  /\ body = [p \in Pages |-> Factory]
  /\ session = NoSession

(* The NDEF file holds the whole template of s. *)
HoldsTemplate(s) == nlen = s /\ \A p \in Pages : body[p] = s

------------------------------------------------------------------------------
(* What the card does with a command it accepts.                             *)

(* Read commands: GetFileSettings, GetKeyVersion, ReadData, ISOSelectFile.   *)
CardRead == UNCHANGED cardVars

(* AuthenticateEV2First with the right key opens a session, dropping any     *)
(* session there was.                                                        *)
CardAuthenticate(slot) ==
  /\ session' = slot
  /\ UNCHANGED contents

(* ChangeKey of slot i to set s, version v.  For a non-master slot the host sends       *)
(* New xor Old and CRC32(New): the card accepts only when the old key the    *)
(* host used is the key the slot holds.                                      *)
CardChangeKey(i, s, v) ==
  /\ keys' = [keys EXCEPT ![i] = s]
  /\ version' = [version EXCEPT ![i] = v]
  /\ UNCHANGED <<sdm, access, nlen, body, session>>

(* ChangeKey of the authenticated slot 0 ends the session.                   *)
CardChangeMasterKey(s, v) ==
  /\ keys' = [keys EXCEPT ![0] = s]
  /\ version' = [version EXCEPT ![0] = v]
  /\ session' = NoSession
  /\ UNCHANGED <<sdm, access, nlen, body>>

CardChangeFileSettings(s, rights) ==
  /\ sdm' = s
  /\ access' = rights
  /\ UNCHANGED <<keys, version, nlen, body, session>>

(* WriteData of page p of the template of s; NLEN is in the first page.      *)
CardWritePage(p, s) ==
  /\ body' = [body EXCEPT ![p] = s]
  /\ nlen' = IF p = 1 THEN s ELSE nlen
  /\ UNCHANGED <<keys, version, sdm, access, session>>

(* WriteData of two zero bytes at offset 0.                                  *)
CardWriteEmpty ==
  /\ nlen' = Factory
  /\ UNCHANGED <<keys, version, sdm, access, body, session>>

(* The card leaves the field, or its reader is reset.                        *)
CardReset ==
  /\ session' = NoSession
  /\ UNCHANGED contents
=============================================================================
