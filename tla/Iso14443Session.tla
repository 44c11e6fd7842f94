-------------------------- MODULE Iso14443Session ----------------------------
(***************************************************************************)
(* crates/iso14443-session under bolty-mfrc522: one APDU exchange over     *)
(* ISO 14443-4 blocks, with chaining in both directions, waiting time      *)
(* extension and the recovery from lost or garbled frames.  A transceive   *)
(* is one step: the block and its answer arrive, the answer is lost, or    *)
(* the block itself is.                                                    *)
(*                                                                         *)
(* The card and the ProtocolHandler of the iso14443 crate are external;    *)
(* they follow the block-number rules of the standard that the code cites. *)
(***************************************************************************)
EXTENDS Naturals, Sequences, Measure

CONSTANTS
  SendChunks,      \* I-blocks an APDU takes
  RecvChunks,      \* I-blocks an answer takes
  MAX_RETRIES,
  MaxCalls,        \* bound: exchanges
  MaxLoss,         \* bound: frames lost in one exchange
  MaxWtx,          \* bound: extensions the card asks for in one exchange
  Reactivates      \* the caller activates the card anew after an error

ASSUME SessionAssumption ==
  /\ {SendChunks, RecvChunks, MaxCalls} \subseteq Nat \ {0}
  /\ {MAX_RETRIES, MaxLoss, MaxWtx} \subseteq Nat
  /\ Reactivates \in BOOLEAN

VARIABLES
  pcd,        \* the reader: at, bn, i (chunk), tries, reply (block), got (chunks)
  timer,      \* timeout of the transceiver: "base" or "extended"
  picc,       \* the card: bn, rx (chunks), apdu (executed), tx (chunk sent), last, wtx
  call,       \* number of the exchange
  outcome,    \* of the exchange
  execs,      \* history: the chunks of each APDU the card executed in this call
  lost        \* frames lost in this call

vars == <<pcd, timer, picc, call, outcome, execs, lost>>

IBlock(b, more, c) == [type |-> "I", bn |-> b, more |-> more, chunk |-> c]
RBlock(t, b)       == [type |-> t, bn |-> b, more |-> FALSE, chunk |-> <<0, 0>>]
WtxBlock           == RBlock("WTX", 0)
NoBlock            == RBlock("none", 0)

Chunks == (0..MaxCalls) \X (0..(SendChunks + RecvChunks))
Blocks == [type : {"I", "ACK", "NAK", "WTX", "none"}, bn : {0, 1},
           more : BOOLEAN, chunk : Chunks]

SessionTypeOK ==
  /\ pcd.at \in {"idle", "send", "recv", "dead"} /\ pcd.bn \in {0, 1}
  /\ pcd.i \in 1..SendChunks /\ pcd.tries \in 0..MAX_RETRIES
  /\ pcd.reply \in Blocks /\ pcd.got \in Seq(Chunks)
  /\ timer \in {"base", "extended"}
  /\ picc.bn \in {0, 1} /\ picc.rx \in Seq(Chunks) /\ picc.tx \in 0..RecvChunks
  /\ picc.apdu \in 0..MaxCalls
  /\ picc.last \in Blocks /\ picc.wtx \in 0..MaxWtx
  /\ call \in 0..MaxCalls /\ outcome \in {"none", "busy", "ok", "err"}
  /\ execs \in Seq(Seq(Chunks)) /\ lost \in 0..MaxLoss

(* After RATS the reader's block number is 0 and the card's is 1.            *)
FreshPcd == [at |-> "idle", bn |-> 0, i |-> 1, tries |-> 0, reply |-> NoBlock, got |-> <<>>]
FreshPicc == [bn |-> 1, rx |-> <<>>, apdu |-> 0, tx |-> 0, last |-> NoBlock, wtx |-> 0]

SessionInit ==
  /\ pcd = FreshPcd /\ timer = "base" /\ picc = FreshPicc
  /\ call = 0 /\ outcome = "none" /\ execs = <<>> /\ lost = 0

------------------------------------------------------------------------------
(* The card.  Reactions(b): what it may become, and answer, on receiving b.  *)

Answer(p, block) == [picc |-> [p EXCEPT !.last = block], answer |-> block]

(* The next chunk of its answer; the answer is to the APDU it executed last. *)
Chunk(p, j) == Answer([p EXCEPT !.tx = j], IBlock(p.bn, j < RecvChunks, <<p.apdu, j>>))

(* It may ask for more time first.                                           *)
Extension(p) == {Answer([p EXCEPT !.wtx = @ + 1], WtxBlock) : w \in {p.wtx} \ {MaxWtx}}

(* An I-block toggles the card's number; the last one of a chain is executed *)
(* and answered, or more time is asked for.                                  *)
OnIBlock(b) ==
  LET p == [picc EXCEPT !.bn = 1 - @, !.tx = 0]
      q == [p EXCEPT !.rx = <<>>, !.apdu = b.chunk[1]]
  IN IF b.more THEN {Answer([p EXCEPT !.rx = Append(@, b.chunk)], RBlock("ACK", p.bn))}
               ELSE {Chunk(q, 1)} \cup Extension(q)

(* R(ACK) or R(NAK) of its own number asks for the last block again; R(NAK)  *)
(* of the other is acknowledged, R(ACK) of the other asks for the next chunk.*)
OnRBlock(b) ==
  IF b.bn = picc.bn THEN {[picc |-> picc, answer |-> picc.last]}
  ELSE IF b.type = "NAK" THEN {[picc |-> picc, answer |-> RBlock("ACK", picc.bn)]}
  ELSE IF picc.tx \in 1..(RecvChunks - 1)
    THEN {Chunk([picc EXCEPT !.bn = 1 - @], picc.tx + 1)}
  ELSE {[picc |-> picc, answer |-> NoBlock]}

(* The echo of S(WTX): the card goes on, if that is what it waits for.       *)
OnWtx ==
  IF picc.last = WtxBlock THEN {Chunk(picc, 1)} \cup Extension(picc)
                          ELSE {[picc |-> picc, answer |-> NoBlock]}

Reactions(b) ==
  CASE b.type = "I" -> OnIBlock(b)
    [] b.type \in {"ACK", "NAK"} -> OnRBlock(b)
    [] b.type = "WTX" -> OnWtx

------------------------------------------------------------------------------
(* exchange                                                                  *)

Begin ==
  /\ pcd.at = "idle" /\ call < MaxCalls
  /\ call' = call + 1 /\ outcome' = "busy" /\ lost' = 0 /\ execs' = <<>>
  /\ pcd' = [pcd EXCEPT !.at = "send", !.i = 1, !.tries = 0, !.got = <<>>, !.reply = NoBlock]
  /\ picc' = [picc EXCEPT !.wtx = 0]
  /\ UNCHANGED timer

End(result) ==
  /\ outcome' = result /\ timer' = "base"
  /\ pcd' = [pcd EXCEPT !.at = IF result = "err" /\ Reactivates THEN "dead" ELSE "idle",
                        !.tries = 0]

(* activate_with_delays, when one of its attempts succeeds: the field is     *)
(* cycled and a new session begins.                                          *)
Activate ==
  /\ pcd.at = "dead"
  /\ pcd' = FreshPcd /\ picc' = FreshPicc
  /\ UNCHANGED <<timer, call, outcome, execs, lost>>

Toggled == [pcd EXCEPT !.bn = 1 - @, !.tries = 0]

Reply(p, block) ==
  /\ pcd' = [p EXCEPT !.at = "recv", !.reply = block, !.tries = 0]
  /\ timer' = IF block = WtxBlock THEN "extended" ELSE "base"
  /\ UNCHANGED outcome

(* collect_response: a block of the reader's number is taken in and          *)
(* acknowledged, or completes the answer; S(WTX) is echoed.                  *)
Collect(b) ==
  CASE b.type = "I" /\ b.bn = pcd.bn /\ b.more ->
         Reply([Toggled EXCEPT !.got = Append(@, b.chunk)], RBlock("ACK", 1 - pcd.bn))
    [] b.type = "I" /\ b.bn = pcd.bn /\ ~b.more ->
         /\ outcome' = "ok" /\ timer' = "base"
         /\ pcd' = [Toggled EXCEPT !.at = "idle", !.got = Append(@, b.chunk)]
    [] b.type = "WTX" -> Reply(pcd, WtxBlock)
    [] OTHER -> End("err")

(* Mutant: a request to send the chunk again is taken for an acknowledgement.*)
AcknowledgedAnyway(b) ==
  IF b.type = "ACK" /\ b.bn = pcd.bn
    THEN pcd' = [Toggled EXCEPT !.i = @ + 1] /\ UNCHANGED <<timer, outcome>>
  ELSE IF b.type = "ACK"
    THEN pcd' = [pcd EXCEPT !.tries = 0, !.i = @ + 1] /\ UNCHANGED <<timer, outcome>>
  ELSE End("err")

(* The answer to a chunk that is not the last: acknowledged, to be sent      *)
(* again, or not what a chain expects.                                       *)
Acknowledged(b) ==
  IF b.type = "ACK" /\ b.bn = pcd.bn
    THEN pcd' = [Toggled EXCEPT !.i = @ + 1] /\ UNCHANGED <<timer, outcome>>
  ELSE IF b.type = "ACK"
    THEN pcd' = [pcd EXCEPT !.tries = 0] /\ UNCHANGED <<timer, outcome>>
  ELSE End("err")

(* Mutant: the block itself is sent again, while sending as well.            *)
BlockResent ==
  IF pcd.at = "recv" THEN pcd.reply
  ELSE IBlock(pcd.bn, pcd.i < SendChunks, <<call, pcd.i>>)

(* transceive_with_recovery: the first try sends the block itself, the       *)
(* others R(NAK) while sending, the same block again while receiving.        *)
Block ==
  IF pcd.at = "recv" THEN pcd.reply
  ELSE IF pcd.tries > 0 THEN RBlock("NAK", pcd.bn)
  ELSE IBlock(pcd.bn, pcd.i < SendChunks, <<call, pcd.i>>)

(* Mutant: the retries are not counted.                                      *)
FailedForever ==
  pcd' = [pcd EXCEPT !.tries = 1] /\ UNCHANGED <<timer, outcome>>

Failed ==
  IF pcd.tries = MAX_RETRIES THEN End("err")
  ELSE pcd' = [pcd EXCEPT !.tries = @ + 1] /\ UNCHANGED <<timer, outcome>>

Executes(b) ==
  execs' = IF b.type = "I" /\ ~b.more THEN Append(execs, Append(picc.rx, b.chunk))
                                      ELSE execs

Arrives ==
  /\ pcd.at \in {"send", "recv"}
  /\ \E r \in Reactions(Block) :
       /\ picc' = r.picc
       /\ IF r.answer = NoBlock THEN Failed
          ELSE IF pcd.at = "send" /\ pcd.i < SendChunks THEN Acknowledged(r.answer)
          ELSE Collect(r.answer)
  /\ Executes(Block)
  /\ UNCHANGED <<call, lost>>

AnswerLost ==
  /\ pcd.at \in {"send", "recv"} /\ lost < MaxLoss /\ lost' = lost + 1
  /\ \E r \in Reactions(Block) : picc' = r.picc
  /\ Executes(Block) /\ Failed
  /\ UNCHANGED call

BlockLost ==
  /\ pcd.at \in {"send", "recv"} /\ lost < MaxLoss /\ lost' = lost + 1
  /\ Failed
  /\ UNCHANGED <<picc, call, execs>>

SessionStep == Arrives \/ AnswerLost \/ BlockLost

SessionNext == Begin \/ SessionStep \/ Activate

SessionSpec == SessionInit /\ [][SessionNext]_vars
SessionFairSpec == SessionSpec /\ WF_vars(SessionStep)
------------------------------------------------------------------------------
(* Properties                                                                *)

(* The assumption that CardOps rests on: whatever frames are lost, an        *)
(* exchange executes its command at most once and Ok means it was executed.  *)
Abstract == INSTANCE ApduExchange WITH executed <- Len(execs)
IsAnExchange == Abstract!Spec

(* An answer returned as Ok consists of the chunks of the answer to this     *)
(* command, each once and in order (the same R(ACK) is sent again, so no     *)
(* chunk is taken in twice or skipped), and what the card executes is this   *)
(* command, whole.                                                           *)
AnswerIsExact ==
  /\ outcome = "ok" => pcd.got = [j \in 1..RecvChunks |-> <<call, j>>]
  /\ \A e \in 1..Len(execs) : execs[e] = [i \in 1..SendChunks |-> <<call, i>>]

(* The extended timeout never outlives the exchange with S(WTX) it was set   *)
(* for, whether that succeeds or fails.                                      *)
BaseTimeoutRestored == timer = "extended" => pcd.at = "recv" /\ pcd.reply = WtxBlock

(* What an exchange leaves: the whole answer to its own command, a command   *)
(* executed as sent, and the timeout as it was.                              *)
ExchangeIsClean == AnswerIsExact /\ BaseTimeoutRestored

(* Every exchange returns.                                                   *)
ExchangeReturns == outcome = "busy" ~> outcome # "busy"

(* What is left of an exchange: to send, to wait for the card, to receive;   *)
(* the chunks or the extensions of that; the tries.  An R(NAK) may be        *)
(* answered by a request to send the block again, and while receiving the    *)
(* card may have gone on to a chunk that the reader has not seen.            *)
StageLeft == IF pcd.at = "send" THEN 2 ELSE IF pcd.reply.type = "WTX" THEN 1 ELSE 0

ChunksLeft ==
  CASE StageLeft = 2 -> SendChunks - pcd.i
    [] StageLeft = 1 -> MaxWtx - picc.wtx
    [] StageLeft = 0 -> RecvChunks - picc.tx

TriesLeft ==
  CASE StageLeft = 2 -> IF pcd.tries = 0 THEN 0 ELSE MAX_RETRIES + 1 - pcd.tries
    [] StageLeft = 1 -> MAX_RETRIES - pcd.tries
    [] StageLeft = 0 -> (IF picc.bn = pcd.bn THEN MAX_RETRIES + 1 ELSE 0) + MAX_RETRIES - pcd.tries

Remaining == <<MaxLoss - lost, StageLeft, ChunksLeft, TriesLeft>>

(* Every transceive ends the exchange or leaves less of it, so that it has   *)
(* an end whatever is lost: no two blocks go back and forth for ever.        *)
StepsAdvance == [][SessionStep => outcome' # "busy" \/ Less(Remaining', Remaining)]_vars

(* lib.rs, exchange: a transient transmit error is recovered from, and       *)
(* send_side_transient_error_recovers_via_rnak: "the recovery path must      *)
(* issue R(NAK) and complete the exchange".  A single lost frame would then  *)
(* never end an exchange with an error.                                      *)
OneLossIsRecovered == lost <= 1 => outcome # "err"
=============================================================================
