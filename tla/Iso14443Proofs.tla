--------------------------- MODULE Iso14443Proofs ----------------------------
(***************************************************************************)
(* Iso14443Session implements ApduExchange for chains of any length, any   *)
(* number of retries and whatever frames are lost, provided that a failed  *)
(* session is activated anew: block numbers alone keep a command from      *)
(* being executed twice, or answered without having been executed, and an  *)
(* answer that is returned is the whole one.                               *)
(*                                                                         *)
(* The second part is about the layer above it: the ntag424 session and    *)
(* the tag stay in step, and a command that returns Ok has transferred all *)
(* of its data, for any files, lengths and numbers of commands and faults  *)
(* (SecureChannel).                                                        *)
(***************************************************************************)
EXTENDS Iso14443Session, SecureChannel, TLAPS

AnyChunk == Nat \X Nat

AnyBlock == [type : {"I", "ACK", "NAK", "WTX", "none"}, bn : {0, 1},
             more : BOOLEAN, chunk : AnyChunk]

Pcds == [at : {"idle", "send", "recv", "dead"}, bn : {0, 1}, i : 1..SendChunks, tries : Nat,
         reply : AnyBlock, got : Seq(AnyChunk)]

Piccs == [bn : {0, 1}, rx : Seq(AnyChunk), apdu : Nat, tx : Nat, last : AnyBlock, wtx : Nat]

(* The card's last block bears its number.                                   *)
Numbered(p, block) == block.type \in {"I", "ACK"} => block.bn = p.bn

(* While sending, the numbers tell whether the card has the block: it never  *)
(* has one that is sent for the first time, and it has executed the command  *)
(* exactly if it has the last.  While receiving it has executed it.          *)
ExchangeInv ==
  /\ pcd \in Pcds /\ picc \in Piccs /\ call \in Nat /\ execs \in Seq(Seq(AnyChunk))
  /\ outcome \in {"none", "busy", "ok", "err"}
  /\ outcome = "busy" <=> pcd.at \in {"send", "recv"}
  /\ Numbered(picc, picc.last)
  /\ pcd.at = "idle" => picc.bn # pcd.bn
  /\ pcd.at = "send" =>
       /\ pcd.tries = 0 => picc.bn # pcd.bn
       /\ Len(execs) = IF picc.bn = pcd.bn /\ pcd.i = SendChunks THEN 1 ELSE 0
  /\ pcd.at = "recv" => Len(execs) = 1 /\ pcd.reply.type \in {"ACK", "WTX"}
  /\ BaseTimeoutRestored

LEMMA IBlockTypes ==
  ASSUME NEW b \in {0, 1}, NEW more \in BOOLEAN, NEW c \in AnyChunk
  PROVE  IBlock(b, more, c) \in AnyBlock
BY DEF IBlock, AnyBlock

LEMMA BlockTypes ==
  ASSUME NEW b \in {0, 1}, NEW t \in {"ACK", "NAK", "WTX", "none"}
  PROVE  RBlock(t, b) \in AnyBlock
BY DEF RBlock, AnyBlock, AnyChunk

LEMMA InitHolds == SessionInit => ExchangeInv
<1> SUFFICES ASSUME SessionInit PROVE ExchangeInv
  OBVIOUS
<1>1. NoBlock \in AnyBlock /\ NoBlock.type = "none"
  BY BlockTypes DEF NoBlock, RBlock, AnyBlock, AnyChunk
<1>2. 1 \in 1..SendChunks
  BY SessionAssumption
<1>3. pcd \in Pcds /\ picc \in Piccs
  BY <1>1, <1>2 DEF SessionInit, FreshPcd, FreshPicc, Pcds, Piccs
<1> QED BY <1>1, <1>3
        DEF SessionInit, FreshPcd, FreshPicc, ExchangeInv, Numbered, BaseTimeoutRestored

------------------------------------------------------------------------------
(* The card.                                                                 *)

LEMMA AnswerTypes ==
  ASSUME NEW p \in Piccs, NEW block \in AnyBlock, Numbered(p, block)
  PROVE  LET r == Answer(p, block) IN
         /\ r.picc \in Piccs /\ r.answer = block
         /\ r.picc.bn = p.bn /\ Numbered(r.picc, r.picc.last)
BY DEF Answer, Piccs, Numbered

LEMMA ChunkTypes ==
  ASSUME NEW p \in Piccs, NEW j \in Nat
  PROVE  LET r == Chunk(p, j) IN
         /\ r.picc \in Piccs /\ r.answer \in AnyBlock /\ r.answer.type = "I"
         /\ r.picc.bn = p.bn /\ r.answer.bn = p.bn /\ Numbered(r.picc, r.picc.last)
<1> DEFINE q == [p EXCEPT !.tx = j]
           b == IBlock(p.bn, j < RecvChunks, <<p.apdu, j>>)
<1>1. q \in Piccs /\ q.bn = p.bn
  BY DEF Piccs
<1>2. b \in AnyBlock /\ b.type = "I" /\ b.bn = p.bn
  <2>1. p.bn \in {0, 1} /\ (j < RecvChunks) \in BOOLEAN /\ <<p.apdu, j>> \in AnyChunk
    BY DEF Piccs, AnyChunk
  <2> QED BY <2>1, IBlockTypes, Zenon DEF IBlock
<1>3. Chunk(p, j) = Answer(q, b)
  BY DEF Chunk
<1> HIDE DEF q, b
<1> QED BY <1>1, <1>2, <1>3, AnswerTypes DEF Numbered

LEMMA ExtensionTypes ==
  ASSUME NEW p \in Piccs, NEW r \in Extension(p)
  PROVE  /\ r.picc \in Piccs /\ r.answer = WtxBlock /\ r.answer \in AnyBlock
         /\ r.answer.type = "WTX" /\ r.picc.bn = p.bn /\ Numbered(r.picc, r.picc.last)
<1>1. WtxBlock \in AnyBlock /\ WtxBlock.type = "WTX"
  BY BlockTypes DEF WtxBlock, RBlock, AnyBlock, AnyChunk
<1> DEFINE q == [p EXCEPT !.wtx = @ + 1]
<1>2. q \in Piccs /\ q.bn = p.bn
  BY DEF Piccs
<1>3. r = Answer(q, WtxBlock)
  BY DEF Extension
<1> HIDE DEF q
<1> QED BY <1>1, <1>2, <1>3, AnswerTypes DEF Numbered

(* What the card does with each block.                                       *)
LEMMA CardReacts ==
  ASSUME picc \in Piccs, Numbered(picc, picc.last), NEW b \in AnyBlock, b.type # "none",
         NEW r \in Reactions(b)
  PROVE  /\ r.picc \in Piccs /\ r.answer \in AnyBlock
         /\ Numbered(r.picc, r.picc.last) /\ Numbered(r.picc, r.answer)
         /\ b.type = "I" => r.picc.bn = 1 - picc.bn
         /\ b.type = "NAK" => r.picc = picc
         /\ b.type = "NAK" /\ r.answer.type = "WTX" => b.bn = picc.bn
<1>0. NoBlock \in AnyBlock /\ NoBlock.type = "none" /\ WtxBlock.type = "WTX"
  BY BlockTypes DEF NoBlock, WtxBlock, RBlock, AnyBlock, AnyChunk
<1>1. CASE b.type = "I"
  <2> DEFINE p == [picc EXCEPT !.bn = 1 - @, !.tx = 0]
             q == [p EXCEPT !.rx = <<>>, !.apdu = b.chunk[1]]
             s == [p EXCEPT !.rx = Append(@, b.chunk)]
  <2>1. p \in Piccs /\ p.bn = 1 - picc.bn /\ p.bn \in {0, 1}
    <3>1. 1 - picc.bn \in {0, 1}
      BY DEF Piccs
    <3> QED BY <3>1, Zenon DEF Piccs
  <2>2. b.chunk \in AnyChunk /\ b.chunk[1] \in Nat
    BY DEF AnyBlock, AnyChunk
  <2> HIDE DEF p
  <2>3. q \in Piccs /\ q.bn = p.bn
    <3>1. <<>> \in Seq(AnyChunk)
      OBVIOUS
    <3> QED BY <2>1, <2>2, <3>1, Zenon DEF Piccs
  <2>4. s \in Piccs /\ s.bn = p.bn
    <3>1. Append(p.rx, b.chunk) \in Seq(AnyChunk)
      BY <2>1, <2>2 DEF Piccs
    <3> QED BY <2>1, <3>1, Zenon DEF Piccs
  <2>5. RBlock("ACK", p.bn) \in AnyBlock /\ Numbered(s, RBlock("ACK", p.bn))
    BY <2>1, <2>4, BlockTypes DEF RBlock, Numbered, AnyBlock, AnyChunk
  <2>6. \/ r = Answer(s, RBlock("ACK", p.bn))
        \/ r = Chunk(q, 1)
        \/ r \in Extension(q)
    BY <1>1 DEF Reactions, OnIBlock, p
  <2> HIDE DEF q, s
  <2>7. CASE r = Answer(s, RBlock("ACK", p.bn))
    BY <1>1, <2>1, <2>4, <2>5, <2>7, AnswerTypes DEF Numbered
  <2>8. CASE r = Chunk(q, 1)
    BY <1>1, <2>1, <2>3, <2>8, ChunkTypes DEF Numbered
  <2>9. CASE r \in Extension(q)
    BY <1>1, <2>1, <2>3, <2>9, ExtensionTypes DEF Numbered
  <2> QED BY <2>6, <2>7, <2>8, <2>9
<1>2. CASE b.type \in {"ACK", "NAK"}
  <2>1. CASE r = [picc |-> picc, answer |-> picc.last] /\ b.bn = picc.bn
    BY <1>2, <2>1 DEF Piccs
  <2>2. CASE r = [picc |-> picc, answer |-> RBlock("ACK", picc.bn)]
    <3>1. RBlock("ACK", picc.bn) \in AnyBlock
      BY BlockTypes DEF Piccs
    <3> QED BY <1>2, <2>2, <3>1 DEF RBlock, Numbered
  <2>3. CASE r = Chunk([picc EXCEPT !.bn = 1 - @], picc.tx + 1) /\ b.type = "ACK"
    <3>1. [picc EXCEPT !.bn = 1 - @] \in Piccs /\ picc.tx + 1 \in Nat
      BY DEF Piccs
    <3> QED BY <1>2, <2>3, <3>1, ChunkTypes DEF Numbered
  <2>4. CASE r = [picc |-> picc, answer |-> NoBlock]
    BY <1>0, <1>2, <2>4 DEF Numbered
  <2> QED BY <1>2, <2>1, <2>2, <2>3, <2>4 DEF Reactions, OnRBlock
<1>3. CASE b.type = "WTX"
  <2>1. CASE r = Chunk(picc, 1)
    BY <1>3, <2>1, ChunkTypes DEF Numbered
  <2>2. CASE r \in Extension(picc)
    BY <1>3, <2>2, ExtensionTypes DEF Numbered
  <2>3. CASE r = [picc |-> picc, answer |-> NoBlock]
    BY <1>0, <1>3, <2>3 DEF Numbered
  <2> QED BY <1>3, <2>1, <2>2, <2>3 DEF Reactions, OnWtx
<1> QED BY <1>1, <1>2, <1>3 DEF AnyBlock

------------------------------------------------------------------------------
(* The reader.                                                               *)

(* What the reader sends is the block itself or R(NAK) while sending,        *)
(* R(ACK) or S(WTX) while receiving.                                         *)
LEMMA BlockSent ==
  ASSUME ExchangeInv, pcd.at \in {"send", "recv"}
  PROVE  /\ Block \in AnyBlock /\ Block.type # "none"
         /\ pcd.at = "recv" => Block.type \in {"ACK", "WTX"}
         /\ pcd.at = "send" /\ pcd.tries = 0 =>
              Block.type = "I" /\ (Block.more <=> pcd.i < SendChunks)
         /\ pcd.at = "send" /\ pcd.tries # 0 => Block.type = "NAK" /\ Block.bn = pcd.bn
<1> USE DEF ExchangeInv
<1>1. CASE pcd.at = "recv"
  BY <1>1 DEF Block, Pcds
<1>2. CASE pcd.at = "send" /\ pcd.tries = 0
  <2>1. pcd.bn \in {0, 1} /\ (pcd.i < SendChunks) \in BOOLEAN /\ <<call, pcd.i>> \in AnyChunk
    BY SessionAssumption DEF Pcds, AnyChunk
  <2>2. Block = IBlock(pcd.bn, pcd.i < SendChunks, <<call, pcd.i>>)
    BY <1>2 DEF Block
  <2> QED BY <1>2, <2>1, <2>2, IBlockTypes, Zenon DEF IBlock
<1>3. CASE pcd.at = "send" /\ pcd.tries # 0
  <2>1. Block = RBlock("NAK", pcd.bn) /\ pcd.bn \in {0, 1}
    BY <1>3 DEF Block, Pcds
  <2> QED BY <1>3, <2>1, BlockTypes, Zenon DEF RBlock
<1> QED BY <1>1, <1>2, <1>3

(* After the card has reacted, the numbers still tell what it has executed.  *)
Reacted ==
  /\ picc' \in Piccs /\ Numbered(picc', picc'.last) /\ execs' \in Seq(Seq(AnyChunk))
  /\ pcd.at = "send" =>
       Len(execs') = IF picc'.bn = pcd.bn /\ pcd.i = SendChunks THEN 1 ELSE 0
  /\ pcd.at = "recv" => Len(execs') = 1
  /\ Len(execs) \in {0, 1} /\ Len(execs') \in {Len(execs), 1}

LEMMA CardActs ==
  ASSUME ExchangeInv, pcd.at \in {"send", "recv"}, NEW r \in Reactions(Block), picc' = r.picc,
         Executes(Block)
  PROVE  /\ Reacted
         /\ r.answer \in AnyBlock /\ Numbered(picc', r.answer)
         /\ pcd.at = "send" /\ r.answer.type = "WTX" => picc'.bn = pcd.bn
<1> USE DEF ExchangeInv
<1>0. /\ picc' \in Piccs /\ Numbered(picc', picc'.last)
      /\ r.answer \in AnyBlock /\ Numbered(picc', r.answer)
      /\ Block.type = "I" => picc'.bn = 1 - picc.bn
      /\ Block.type = "NAK" => picc' = picc
      /\ Block.type = "NAK" /\ r.answer.type = "WTX" => Block.bn = picc.bn
  BY BlockSent, CardReacts
<1>1. CASE pcd.at = "recv"
  <2>1. execs' = execs
    BY <1>1, BlockSent DEF Executes
  <2> QED BY <1>0, <1>1, <2>1 DEF Reacted
<1>2. CASE pcd.at = "send" /\ pcd.tries # 0
  <2>1. execs' = execs /\ picc' = picc /\ Block.bn = pcd.bn /\ Block.type = "NAK"
    BY <1>0, <1>2, BlockSent DEF Executes
  <2>2. Len(execs) \in {0, 1}
    BY <1>2
  <2> QED BY <1>0, <1>2, <2>1, <2>2 DEF Reacted
<1>3. CASE pcd.at = "send" /\ pcd.tries = 0
  <2>1. /\ Block.type = "I" /\ (Block.more <=> pcd.i < SendChunks)
        /\ picc.bn # pcd.bn /\ Len(execs) = 0 /\ picc'.bn = 1 - picc.bn
    BY <1>0, <1>3, BlockSent
  <2>2. picc'.bn = pcd.bn
    BY <2>1 DEF Pcds, Piccs
  <2>3. pcd.i \in 1..SendChunks /\ SendChunks \in Nat
    BY SessionAssumption DEF Pcds
  <2>4. CASE pcd.i = SendChunks
    <3>1. execs' = Append(execs, Append(picc.rx, Block.chunk))
      BY <2>1, <2>3, <2>4 DEF Executes
    <3>2. Append(picc.rx, Block.chunk) \in Seq(AnyChunk)
      BY BlockSent DEF Piccs, AnyBlock
    <3>3. execs' \in Seq(Seq(AnyChunk)) /\ Len(execs') = 1
      BY <2>1, <3>1, <3>2
    <3> QED BY <1>0, <1>3, <2>1, <2>2, <2>4, <3>3 DEF Reacted
  <2>5. CASE pcd.i < SendChunks
    <3>1. execs' = execs
      BY <2>1, <2>5 DEF Executes
    <3> QED BY <1>0, <1>3, <2>1, <2>2, <2>3, <2>5, <3>1 DEF Reacted
  <2> QED BY <2>3, <2>4, <2>5
<1> QED BY <1>1, <1>2, <1>3 DEF Pcds

(* A step of the reader in an exchange, once the card has reacted: the       *)
(* invariant again, and Ok only if the command was executed.                 *)
Onward == ExchangeInv' /\ outcome' \in {"busy", "ok", "err"} /\ (outcome' = "ok" => Len(execs') = 1)

LEMMA EndsBadly ==
  ASSUME ExchangeInv, Reactivates, Reacted, call' = call, End("err") PROVE Onward
<1>1. pcd' = [pcd EXCEPT !.at = "dead", !.tries = 0] /\ outcome' = "err" /\ timer' = "base"
  BY DEF End
<1>2. pcd' \in Pcds /\ pcd'.at = "dead"
  BY <1>1, Zenon DEF ExchangeInv, Pcds
<1> QED BY <1>1, <1>2 DEF ExchangeInv, Reacted, Onward, BaseTimeoutRestored

LEMMA FailsStep ==
  ASSUME ExchangeInv, Reactivates, pcd.at \in {"send", "recv"}, Reacted, call' = call, Failed
  PROVE  Onward
<1>1. CASE End("err")
  BY <1>1, EndsBadly
<1>2. CASE pcd' = [pcd EXCEPT !.tries = @ + 1] /\ UNCHANGED <<timer, outcome>>
  <2>1. /\ pcd' \in Pcds /\ pcd'.tries # 0 /\ pcd'.at = pcd.at /\ pcd'.bn = pcd.bn
        /\ pcd'.i = pcd.i /\ pcd'.reply = pcd.reply
    BY <1>2 DEF ExchangeInv, Pcds
  <2> QED BY <1>2, <2>1 DEF ExchangeInv, Reacted, Onward, BaseTimeoutRestored
<1> QED BY <1>1, <1>2 DEF Failed

LEMMA AcknowledgedStep ==
  ASSUME ExchangeInv, Reactivates, pcd.at = "send", pcd.i < SendChunks, Reacted, call' = call,
         NEW a \in AnyBlock, Numbered(picc', a), Acknowledged(a)
  PROVE  Onward
<1>0. pcd.i \in 1..SendChunks /\ SendChunks \in Nat /\ pcd.bn \in {0, 1}
  BY SessionAssumption DEF ExchangeInv, Pcds
<1>1. CASE a.type = "ACK" /\ a.bn = pcd.bn
  <2>1. pcd' = [pcd EXCEPT !.bn = 1 - pcd.bn, !.tries = 0, !.i = pcd.i + 1]
    BY <1>1 DEF Acknowledged, Toggled, ExchangeInv, Pcds
  <2>2. 1 - pcd.bn \in {0, 1} /\ 1 - pcd.bn # pcd.bn /\ pcd.i + 1 \in 1..SendChunks
    BY <1>0
  <2>3. pcd' \in Pcds /\ pcd'.at = "send" /\ pcd'.bn # pcd.bn /\ pcd'.reply = pcd.reply
    BY <2>1, <2>2, Zenon DEF ExchangeInv, Pcds
  <2>4. picc'.bn = pcd.bn /\ Len(execs') = 0
    BY <1>0, <1>1 DEF Reacted, Numbered
  <2> QED BY <1>1, <2>3, <2>4
          DEF Acknowledged, ExchangeInv, Reacted, Onward, BaseTimeoutRestored
<1>2. CASE a.type = "ACK" /\ a.bn # pcd.bn
  <2>1. pcd' = [pcd EXCEPT !.tries = 0] /\ UNCHANGED <<timer, outcome>>
    BY <1>2 DEF Acknowledged
  <2>2. /\ pcd' \in Pcds /\ pcd'.at = "send" /\ pcd'.bn = pcd.bn /\ pcd'.i = pcd.i
        /\ pcd'.reply = pcd.reply
    BY <2>1 DEF ExchangeInv, Pcds
  <2>3. picc'.bn # pcd.bn
    BY <1>2 DEF Numbered
  <2> QED BY <2>1, <2>2, <2>3 DEF ExchangeInv, Reacted, Onward, BaseTimeoutRestored
<1>3. CASE a.type # "ACK"
  BY <1>3, EndsBadly DEF Acknowledged
<1> QED BY <1>1, <1>2, <1>3

LEMMA CollectStep ==
  ASSUME ExchangeInv, Reactivates, Reacted, call' = call,
         pcd.at = "recv" \/ (pcd.at = "send" /\ pcd.i = SendChunks),
         NEW a \in AnyBlock, Numbered(picc', a),
         pcd.at = "send" /\ a.type = "WTX" => picc'.bn = pcd.bn,
         Collect(a)
  PROVE  Onward
<1>0. 1 - pcd.bn \in {0, 1} /\ 1 - pcd.bn # pcd.bn /\ pcd \in Pcds
  BY DEF ExchangeInv, Pcds
<1>1. CASE a.type = "I" /\ a.bn = pcd.bn
  <2>1. picc'.bn = pcd.bn /\ Len(execs') = 1
    BY <1>1 DEF Reacted, Numbered
  <2>2. Append(pcd.got, a.chunk) \in Seq(AnyChunk)
    BY <1>0 DEF Pcds, AnyBlock
  <2>3. CASE a.more
    <3>1. /\ pcd' = [pcd EXCEPT !.bn = 1 - pcd.bn, !.tries = 0, !.got = Append(pcd.got, a.chunk),
                                !.at = "recv", !.reply = RBlock("ACK", 1 - pcd.bn)]
          /\ timer' = "base" /\ outcome' = outcome
      BY <1>0, <1>1, <2>3, Zenon DEF Collect, Reply, Toggled, Pcds, RBlock, WtxBlock
    <3>2. RBlock("ACK", 1 - pcd.bn) \in AnyBlock /\ RBlock("ACK", 1 - pcd.bn).type = "ACK"
      BY <1>0, BlockTypes, Zenon DEF RBlock
    <3>3. pcd' \in Pcds /\ pcd'.at = "recv" /\ pcd'.reply.type = "ACK"
      BY <1>0, <2>2, <3>1, <3>2, Zenon DEF Pcds
    <3> QED BY <2>1, <3>1, <3>3 DEF ExchangeInv, Reacted, Onward, BaseTimeoutRestored
  <2>4. CASE ~a.more
    <3>1. /\ pcd' = [pcd EXCEPT !.bn = 1 - pcd.bn, !.tries = 0, !.got = Append(pcd.got, a.chunk),
                                !.at = "idle"]
          /\ timer' = "base" /\ outcome' = "ok"
      BY <1>0, <1>1, <2>4, Zenon DEF Collect, Toggled, Pcds
    <3>2. pcd' \in Pcds /\ pcd'.at = "idle" /\ pcd'.bn # pcd.bn
      BY <1>0, <2>2, <3>1, Zenon DEF Pcds
    <3> QED BY <2>1, <3>1, <3>2 DEF ExchangeInv, Reacted, Onward, BaseTimeoutRestored
  <2> QED BY <2>3, <2>4
<1>2. CASE a.type = "WTX"
  <2>1. Len(execs') = 1
    BY <1>2 DEF Reacted
  <2>2. WtxBlock \in AnyBlock /\ WtxBlock.type = "WTX"
    BY BlockTypes DEF WtxBlock, RBlock
  <2>3. /\ pcd' = [pcd EXCEPT !.at = "recv", !.reply = WtxBlock, !.tries = 0]
        /\ outcome' = outcome
    BY <1>2 DEF Collect, Reply
  <2>4. pcd' \in Pcds /\ pcd'.at = "recv" /\ pcd'.reply = WtxBlock
    BY <1>0, <2>2, <2>3, Zenon DEF Pcds
  <2> QED BY <2>1, <2>2, <2>3, <2>4 DEF ExchangeInv, Reacted, Onward, BaseTimeoutRestored
<1>3. CASE a.type # "WTX" /\ ~(a.type = "I" /\ a.bn = pcd.bn)
  BY <1>3, EndsBadly DEF Collect
<1> QED BY <1>1, <1>2, <1>3

------------------------------------------------------------------------------
(* Every step.                                                               *)

LEMMA SessionStepHolds ==
  ASSUME ExchangeInv, Reactivates, SessionStep
  PROVE  pcd.at \in {"send", "recv"} /\ call' = call /\ Reacted /\ Onward
<1>0. pcd.at \in {"send", "recv"} /\ call' = call
  BY DEF SessionStep, Arrives, AnswerLost, BlockLost
<1>1. CASE Arrives
  <2>1. PICK r \in Reactions(Block) :
          /\ picc' = r.picc
          /\ IF r.answer = NoBlock THEN Failed
             ELSE IF pcd.at = "send" /\ pcd.i < SendChunks THEN Acknowledged(r.answer)
             ELSE Collect(r.answer)
    BY <1>1 DEF Arrives
  <2>2. /\ Reacted /\ r.answer \in AnyBlock /\ Numbered(picc', r.answer)
        /\ pcd.at = "send" /\ r.answer.type = "WTX" => picc'.bn = pcd.bn
    BY <1>0, <1>1, <2>1, CardActs DEF Arrives
  <2>3. pcd.i < SendChunks \/ pcd.i = SendChunks
    BY SessionAssumption DEF ExchangeInv, Pcds
  <2> QED BY <1>0, <2>1, <2>2, <2>3, FailsStep, AcknowledgedStep, CollectStep
<1>2. CASE AnswerLost
  <2>1. PICK r \in Reactions(Block) : picc' = r.picc
    BY <1>2 DEF AnswerLost
  <2>2. Reacted
    BY <1>0, <1>2, <2>1, CardActs DEF AnswerLost
  <2> QED BY <1>0, <1>2, <2>2, FailsStep DEF AnswerLost
<1>3. CASE BlockLost
  <2>1. Reacted
    BY <1>0, <1>3 DEF BlockLost, ExchangeInv, Reacted
  <2> QED BY <1>0, <1>3, <2>1, FailsStep DEF BlockLost
<1> QED BY <1>0, <1>1, <1>2, <1>3 DEF SessionStep

LEMMA BeginHolds ==
  ASSUME ExchangeInv, Begin
  PROVE  ExchangeInv' /\ outcome # "busy" /\ outcome' = "busy" /\ Len(execs') = 0
<1>1. NoBlock \in AnyBlock /\ 1 \in 1..SendChunks /\ <<>> \in Seq(AnyChunk)
  BY BlockTypes, SessionAssumption DEF NoBlock
<1>2. /\ pcd' = [pcd EXCEPT !.at = "send", !.i = 1, !.tries = 0, !.got = <<>>, !.reply = NoBlock]
      /\ picc' = [picc EXCEPT !.wtx = 0] /\ timer' = timer
      /\ pcd.at = "idle" /\ call' = call + 1 /\ outcome' = "busy" /\ execs' = <<>>
  BY DEF Begin
<1>3. pcd' \in Pcds /\ pcd'.at = "send" /\ pcd'.bn = pcd.bn
  BY <1>1, <1>2, Zenon DEF ExchangeInv, Pcds
<1>4. picc' \in Piccs /\ picc'.bn = picc.bn /\ picc'.last = picc.last
  BY <1>2 DEF ExchangeInv, Piccs
<1>5. execs' \in Seq(Seq(AnyChunk)) /\ Len(execs') = 0
  BY <1>2
<1> QED BY <1>2, <1>3, <1>4, <1>5 DEF ExchangeInv, Numbered, BaseTimeoutRestored

LEMMA ActivateHolds == ASSUME ExchangeInv, Activate PROVE ExchangeInv'
<1>1. NoBlock \in AnyBlock /\ NoBlock.type = "none" /\ 1 \in 1..SendChunks
  BY BlockTypes, SessionAssumption DEF NoBlock, RBlock
<1>2. pcd' \in Pcds /\ picc' \in Piccs
  BY <1>1 DEF Activate, FreshPcd, FreshPicc, Pcds, Piccs
<1> QED BY <1>1, <1>2
        DEF Activate, FreshPcd, FreshPicc, ExchangeInv, Numbered, BaseTimeoutRestored

(* The inductive invariant of a session whose failures are followed by a new *)
(* activation.                                                               *)
THEOREM ExchangeInvariant == ASSUME Reactivates PROVE SessionSpec => []ExchangeInv
<1>1. ExchangeInv /\ [SessionNext]_vars => ExchangeInv'
  <2> SUFFICES ASSUME ExchangeInv, [SessionNext]_vars PROVE ExchangeInv'
    OBVIOUS
  <2>1. CASE UNCHANGED vars
    BY <2>1 DEF vars, ExchangeInv, Numbered, BaseTimeoutRestored
  <2> QED BY <2>1, SessionStepHolds, BeginHolds, ActivateHolds DEF SessionNext, Onward
<1> QED BY <1>1, InitHolds, PTL DEF SessionSpec

(* The extended timeout of S(WTX) never outlives the exchange that set it.   *)
THEOREM RestoresTimeout == ASSUME Reactivates PROVE SessionSpec => []BaseTimeoutRestored
<1>1. ExchangeInv => BaseTimeoutRestored
  BY DEF ExchangeInv
<1> QED BY <1>1, ExchangeInvariant, PTL

(* The session implements the exchange that the card operations take for     *)
(* granted: the command is executed at most once, and Ok means that it was.  *)
THEOREM ImplementsExchange == ASSUME Reactivates PROVE SessionSpec => IsAnExchange
<1>1. SessionInit => Abstract!Init
  BY DEF SessionInit, Abstract!Init
<1>2. ExchangeInv /\ [SessionNext]_vars
        => [Abstract!Next]_<<call, Len(execs), outcome>>
  <2> SUFFICES ASSUME ExchangeInv, [SessionNext]_vars
               PROVE  Abstract!Next \/ UNCHANGED <<call, Len(execs), outcome>>
    OBVIOUS
  <2>1. CASE UNCHANGED vars
    BY <2>1 DEF vars
  <2>2. CASE Activate
    BY <2>2 DEF Activate
  <2>3. CASE Begin
    BY <2>3, BeginHolds DEF Begin, Abstract!Next, Abstract!Issue
  <2>4. CASE SessionStep
    <3>1. /\ outcome = "busy" /\ call' = call /\ outcome' \in {"busy", "ok", "err"}
          /\ Len(execs) \in {0, 1} /\ Len(execs') \in {Len(execs), 1}
          /\ outcome' = "ok" => Len(execs') = 1
      BY <2>4, SessionStepHolds DEF ExchangeInv, Reacted, Onward
    <3>2. CASE Len(execs) = 0 /\ Len(execs') = 1
      BY <3>1, <3>2 DEF Abstract!Next, Abstract!Execute
    <3>3. CASE Len(execs') = Len(execs) /\ outcome' = "busy"
      BY <3>1, <3>3
    <3>4. CASE Len(execs') = Len(execs) /\ outcome' # "busy"
      BY <3>1, <3>4 DEF Abstract!Next, Abstract!Return
    <3> QED BY <3>1, <3>2, <3>3, <3>4
  <2> QED BY <2>1, <2>2, <2>3, <2>4 DEF SessionNext
<1> QED BY <1>1, <1>2, ExchangeInvariant, PTL DEF SessionSpec, IsAnExchange, Abstract!Spec
------------------------------------------------------------------------------
(* What is in the blocks.                                                    *)

(* The first chunks of command m, or of the answer to it.                    *)
Sent(m, n) == [i \in 1..n |-> <<m, i>>]

(* The card c has sent, last, chunk k of its answer.                         *)
Answering(m, c, k) == c.tx = k /\ c.last = IBlock(c.bn, k < RecvChunks, <<m, k>>)
Beginning(m, c) == Answering(m, c, 1) \/ c.last = WtxBlock
Executed(m, c) == c.rx = <<>> /\ c.apdu = m

(* What the card has while the reader x sends: the chunks before the one     *)
(* being sent, that one as well, or the command, executed.                   *)
InSend(m, c, x) ==
  /\ x.got = <<>>
  /\ c.bn # x.bn => c.rx = Sent(m, x.i - 1)
  /\ c.bn = x.bn /\ x.i < SendChunks => c.rx = Sent(m, x.i)
  /\ c.bn = x.bn /\ x.i = SendChunks => Executed(m, c) /\ Beginning(m, c)

(* While the reader asks for more, the card has sent the chunks the reader   *)
(* has, or one more.                                                         *)
InRecv(m, c, x) ==
  /\ Executed(m, c)
  /\ x.reply.type = "WTX" => x.got = <<>> /\ c.bn = x.bn /\ Beginning(m, c)
  /\ x.reply.type = "ACK" =>
       /\ x.reply.bn = x.bn
       /\ \E k \in 1..(RecvChunks - 1) :
            x.got = Sent(m, k) /\ Answering(m, c, IF c.bn = x.bn THEN k + 1 ELSE k)

Fits(m, c, x) ==
  /\ x.at = "idle" => c.rx = <<>>
  /\ x.at = "send" => InSend(m, c, x)
  /\ x.at = "recv" => InRecv(m, c, x)

ExactInv == Fits(call, picc, pcd) /\ (pcd.at = "dead" => outcome # "ok") /\ AnswerIsExact

LEMMA SentGrows ==
  ASSUME NEW m, NEW n \in Nat
  PROVE  Sent(m, 0) = <<>> /\ Append(Sent(m, n), <<m, n + 1>>) = Sent(m, n + 1)
<1>1. Sent(m, n) \in Seq({<<m, i>> : i \in Nat}) /\ Len(Sent(m, n)) = n
  BY DEF Sent
<1>2. Sent(m, 0) = <<>>
  BY DEF Sent
<1> QED
  BY <1>1, <1>2 DEF Sent

(* What the card becomes with a block it sends.                              *)
LEMMA AnswerHas ==
  ASSUME NEW p \in Piccs, NEW block \in AnyBlock
  PROVE  LET r == Answer(p, block) IN
         /\ r.answer = block /\ r.picc.last = block
         /\ r.picc.rx = p.rx /\ r.picc.apdu = p.apdu /\ r.picc.tx = p.tx /\ r.picc.bn = p.bn
BY DEF Answer, Piccs

LEMMA ChunkHas ==
  ASSUME NEW p \in Piccs, NEW j \in Nat
  PROVE  LET r == Chunk(p, j) IN
         /\ r.answer = r.picc.last /\ Answering(p.apdu, r.picc, j)
         /\ r.picc.rx = p.rx /\ r.picc.apdu = p.apdu /\ r.picc.bn = p.bn
<1> DEFINE q == [p EXCEPT !.tx = j]
           b == IBlock(p.bn, j < RecvChunks, <<p.apdu, j>>)
<1>1. q \in Piccs /\ q.bn = p.bn /\ q.rx = p.rx /\ q.apdu = p.apdu /\ q.tx = j
  BY DEF Piccs
<1>2. b \in AnyBlock
  <2>1. p.bn \in {0, 1} /\ (j < RecvChunks) \in BOOLEAN /\ <<p.apdu, j>> \in AnyChunk
    BY DEF Piccs, AnyChunk
  <2> QED
    BY <2>1, IBlockTypes, Zenon
<1>3. Chunk(p, j) = Answer(q, b)
  BY Zenon DEF Chunk
<1>4. b = IBlock(p.bn, j < RecvChunks, <<p.apdu, j>>)
  OBVIOUS
<1> HIDE DEF q, b
<1>5. LET r == Answer(q, b) IN
      /\ r.answer = b /\ r.picc.last = b /\ r.picc.tx = j
      /\ r.picc.rx = p.rx /\ r.picc.apdu = p.apdu /\ r.picc.bn = p.bn
  BY <1>1, <1>2, AnswerHas
<1> QED
  BY <1>3, <1>4, <1>5, Zenon DEF Answering

LEMMA ExtensionHas ==
  ASSUME NEW p \in Piccs, NEW r \in Extension(p)
  PROVE  /\ r.answer = WtxBlock /\ r.picc.last = WtxBlock
         /\ r.picc.rx = p.rx /\ r.picc.apdu = p.apdu /\ r.picc.bn = p.bn
<1> DEFINE q == [p EXCEPT !.wtx = @ + 1]
<1>1. q \in Piccs /\ q.bn = p.bn /\ q.rx = p.rx /\ q.apdu = p.apdu
  BY DEF Piccs
<1>2. r = Answer(q, WtxBlock)
  BY DEF Extension
<1>3. WtxBlock \in AnyBlock
  BY BlockTypes DEF WtxBlock
<1> HIDE DEF q
<1> QED
  BY <1>1, <1>2, <1>3, AnswerHas

(* A chunk of a command is put to the others; the last is executed.          *)
LEMMA TakesIBlock ==
  ASSUME picc \in Piccs, NEW b \in AnyBlock, b.type = "I", NEW r \in Reactions(b)
  PROVE  /\ r.picc.bn = 1 - picc.bn
         /\ b.more => r.picc.rx = Append(picc.rx, b.chunk) /\ r.answer.type = "ACK"
         /\ ~b.more => /\ Executed(b.chunk[1], r.picc) /\ Beginning(b.chunk[1], r.picc)
                       /\ r.answer = r.picc.last
<1> DEFINE p == [picc EXCEPT !.bn = 1 - @, !.tx = 0]
           q == [p EXCEPT !.rx = <<>>, !.apdu = b.chunk[1]]
           s == [p EXCEPT !.rx = Append(@, b.chunk)]
<1>1. p \in Piccs /\ p.bn = 1 - picc.bn /\ p.bn \in {0, 1} /\ p.rx = picc.rx
  <2>1. 1 - picc.bn \in {0, 1}
    BY DEF Piccs
  <2> QED
    BY <2>1, Zenon DEF Piccs
<1>2. b.chunk \in AnyChunk /\ b.chunk[1] \in Nat
  BY DEF AnyBlock, AnyChunk
<1>3. r \in IF b.more THEN {Answer(s, RBlock("ACK", p.bn))} ELSE {Chunk(q, 1)} \cup Extension(q)
  BY Zenon DEF Reactions, OnIBlock
<1>4. b.more \in BOOLEAN
  BY DEF AnyBlock
<1> HIDE DEF p
<1>5. q \in Piccs /\ q.bn = p.bn /\ q.rx = <<>> /\ q.apdu = b.chunk[1]
  <2>1. <<>> \in Seq(AnyChunk)
    OBVIOUS
  <2> QED
    BY <1>1, <1>2, <2>1, Zenon DEF Piccs
<1>6. s \in Piccs /\ s.bn = p.bn /\ s.rx = Append(picc.rx, b.chunk)
  <2>1. Append(p.rx, b.chunk) \in Seq(AnyChunk)
    BY <1>1, <1>2 DEF Piccs
  <2> QED
    BY <1>1, <2>1, Zenon DEF Piccs
<1>7. RBlock("ACK", p.bn) \in AnyBlock /\ RBlock("ACK", p.bn).type = "ACK"
  BY <1>1, BlockTypes, Zenon DEF RBlock
<1> HIDE DEF q, s
<1>8. CASE b.more /\ r = Answer(s, RBlock("ACK", p.bn))
  BY <1>1, <1>6, <1>7, <1>8, AnswerHas
<1>9. CASE ~b.more /\ r = Chunk(q, 1)
  BY <1>1, <1>5, <1>9, ChunkHas DEF Executed, Beginning
<1>10. CASE ~b.more /\ r \in Extension(q)
  BY <1>1, <1>5, <1>10, ExtensionHas DEF Executed, Beginning
<1> QED
  BY <1>3, <1>4, <1>8, <1>9, <1>10, Zenon

(* R(ACK) asks for the last chunk again or for the next one.                 *)
LEMMA TakesAck ==
  ASSUME picc \in Piccs, NEW b \in AnyBlock, b.type = "ACK", NEW r \in Reactions(b)
  PROVE  \/ b.bn = picc.bn /\ r.picc = picc /\ r.answer = picc.last
         \/ r.picc = picc /\ r.answer = NoBlock
         \/ /\ b.bn # picc.bn /\ r.answer = r.picc.last /\ r.picc.bn = 1 - picc.bn
            /\ Answering(picc.apdu, r.picc, picc.tx + 1)
            /\ r.picc.rx = picc.rx /\ r.picc.apdu = picc.apdu
<1> DEFINE p == [picc EXCEPT !.bn = 1 - @]
<1>1. /\ p \in Piccs /\ p.bn = 1 - picc.bn /\ p.rx = picc.rx /\ p.apdu = picc.apdu
      /\ picc.tx + 1 \in Nat
  BY DEF Piccs
<1>2. \/ b.bn = picc.bn /\ r = [picc |-> picc, answer |-> picc.last]
      \/ b.bn # picc.bn /\ r = Chunk(p, picc.tx + 1)
      \/ r = [picc |-> picc, answer |-> NoBlock]
  BY DEF Reactions, OnRBlock
<1> HIDE DEF p
<1>3. CASE b.bn # picc.bn /\ r = Chunk(p, picc.tx + 1)
  BY <1>1, <1>3, ChunkHas
<1> QED
  BY <1>2, <1>3

(* S(WTX) lets it go on, if it waits.                                        *)
LEMMA TakesWtx ==
  ASSUME picc \in Piccs, NEW b \in AnyBlock, b.type = "WTX", NEW r \in Reactions(b)
  PROVE  \/ r.picc = picc /\ r.answer = NoBlock
         \/ /\ r.answer = r.picc.last /\ Beginning(picc.apdu, r.picc)
            /\ r.picc.rx = picc.rx /\ r.picc.apdu = picc.apdu /\ r.picc.bn = picc.bn
<1>1. r = Chunk(picc, 1) \/ r \in Extension(picc) \/ r = [picc |-> picc, answer |-> NoBlock]
  BY DEF Reactions, OnWtx
<1>2. CASE r = Chunk(picc, 1)
  BY <1>2, ChunkHas DEF Beginning
<1>3. CASE r \in Extension(picc)
  BY <1>3, ExtensionHas DEF Beginning
<1> QED
  BY <1>1, <1>2, <1>3

(* R(NAK) changes nothing: the last block again, or an acknowledgement.      *)
LEMMA TakesNak ==
  ASSUME NEW b \in AnyBlock, b.type = "NAK", NEW r \in Reactions(b)
  PROVE  r.picc = picc /\ (r.answer = picc.last \/ r.answer.type = "ACK")
<1>1. \/ r = [picc |-> picc, answer |-> picc.last]
      \/ r = [picc |-> picc, answer |-> RBlock("ACK", picc.bn)]
  BY DEF Reactions, OnRBlock
<1> QED
  BY <1>1 DEF RBlock

(* After the card has reacted it still fits the reader, and chunks and       *)
(* requests for time are what it would send again.                           *)
Carried ==
  /\ Fits(call, picc', pcd)
  /\ \A e \in 1..Len(execs') : execs'[e] = Sent(call, SendChunks)

LEMMA CardCarries ==
  ASSUME ExchangeInv, ExactInv, pcd.at \in {"send", "recv"}, NEW r \in Reactions(Block),
         picc' = r.picc, Executes(Block)
  PROVE  Carried /\ (r.answer.type \in {"I", "WTX"} => r.answer = picc'.last)
<1>0. /\ picc \in Piccs /\ pcd \in Pcds /\ call \in Nat /\ pcd.bn \in {0, 1} /\ picc.bn \in {0, 1}
      /\ pcd.i \in 1..SendChunks /\ SendChunks \in Nat \ {0} /\ RecvChunks \in Nat \ {0}
      /\ execs \in Seq(Seq(AnyChunk))
      /\ NoBlock.type = "none"
  BY SessionAssumption DEF ExchangeInv, Pcds, Piccs, NoBlock, RBlock
<1>1. Fits(call, picc, pcd) /\ \A e \in 1..Len(execs) : execs[e] = Sent(call, SendChunks)
  BY Zenon DEF ExactInv, AnswerIsExact, Sent
<1>2. CASE pcd.at = "send" /\ pcd.tries # 0
  <2>1. picc' = picc /\ execs' = execs /\ (r.answer = picc.last \/ r.answer.type = "ACK")
    BY <1>2, BlockSent, TakesNak DEF Executes
  <2> QED
    BY <1>1, <2>1, Zenon DEF Carried
<1>3. CASE pcd.at = "send" /\ pcd.tries = 0
  <2>1. Block = IBlock(pcd.bn, pcd.i < SendChunks, <<call, pcd.i>>)
    BY <1>3 DEF Block
  <2>2. /\ Block \in AnyBlock /\ Block.type = "I" /\ Block.chunk = <<call, pcd.i>>
        /\ Block.chunk[1] = call /\ (Block.more <=> pcd.i < SendChunks)
    BY <1>3, <2>1, BlockSent, Zenon DEF IBlock
  <2>3. picc.bn # pcd.bn /\ pcd.got = <<>> /\ picc.rx = Sent(call, pcd.i - 1)
    BY <1>1, <1>3, Zenon DEF ExchangeInv, Fits, InSend
  <2>4. Append(picc.rx, Block.chunk) = Sent(call, pcd.i)
    <3>1. pcd.i - 1 \in Nat /\ (pcd.i - 1) + 1 = pcd.i
      BY <1>0
    <3> QED
      <4>1. Append(Sent(call, pcd.i - 1), <<call, (pcd.i - 1) + 1>>) = Sent(call, (pcd.i - 1) + 1)
        BY <3>1, SentGrows, Zenon
      <4> QED
        BY <2>2, <2>3, <3>1, <4>1, Zenon
  <2>5. /\ picc'.bn = 1 - picc.bn
        /\ Block.more => picc'.rx = Append(picc.rx, Block.chunk) /\ r.answer.type = "ACK"
        /\ ~Block.more => /\ Executed(call, picc') /\ Beginning(call, picc')
                          /\ r.answer = picc'.last
    BY <1>0, <2>2, TakesIBlock, Zenon
  <2>6. picc'.bn = pcd.bn
    BY <1>0, <2>3, <2>5
  <2>7. InSend(call, picc', pcd) /\ (r.answer.type \in {"I", "WTX"} => r.answer = picc'.last)
    <3>1. pcd.i = SendChunks => ~(pcd.i < SendChunks)
      BY <1>0
    <3> QED
      BY <2>2, <2>3, <2>4, <2>5, <2>6, <3>1, Zenon DEF InSend
  <2>8. \A e \in 1..Len(execs') : execs'[e] = Sent(call, SendChunks)
    <3>1. CASE Block.more
      BY <1>1, <3>1, Zenon DEF Executes
    <3>2. CASE ~Block.more
      <4>1. execs' = Append(execs, Sent(call, SendChunks))
        <5>1. pcd.i = SendChunks
          BY <1>0, <2>2, <3>2
        <5> QED
          BY <2>2, <2>4, <3>2, <5>1, Zenon DEF Executes
      <4>2. Len(execs) = 0
        BY <1>3, <2>3 DEF ExchangeInv
      <4> DEFINE whole == Sent(call, SendChunks)
      <4>3. execs' = Append(execs, whole)
        BY <4>1
      <4> HIDE DEF whole
      <4>4. \A e \in 1..Len(execs') : execs'[e] = whole
        BY <1>0, <4>2, <4>3
      <4> QED
        BY <4>4 DEF whole
    <3> QED
      BY <3>1, <3>2
  <2> QED
    BY <1>3, <2>7, <2>8, Zenon DEF Carried, Fits
<1>4. CASE pcd.at = "recv"
  <2>1. Block = pcd.reply /\ Block \in AnyBlock /\ Block.type \in {"ACK", "WTX"} /\ execs' = execs
    <3>1. Block = pcd.reply
      BY <1>4, Zenon DEF Block
    <3>2. Block \in AnyBlock /\ Block.type \in {"ACK", "WTX"}
      BY <1>4, BlockSent
    <3> QED
      BY <3>1, <3>2 DEF Executes
  <2>2. InRecv(call, picc, pcd)
    BY <1>1, <1>4, Zenon DEF Fits
  <2>3. CASE r.picc = picc /\ (r.answer = picc.last \/ r.answer = NoBlock)
    BY <1>0, <1>1, <2>1, <2>3 DEF Carried
  <2>4. CASE /\ Block.type = "ACK" /\ Block.bn # picc.bn /\ r.answer = r.picc.last
             /\ r.picc.bn = 1 - picc.bn /\ Answering(picc.apdu, r.picc, picc.tx + 1)
             /\ r.picc.rx = picc.rx /\ r.picc.apdu = picc.apdu
    <3>1. PICK k \in 1..(RecvChunks - 1) :
            pcd.got = Sent(call, k) /\ Answering(call, picc, IF picc.bn = pcd.bn THEN k + 1 ELSE k)
      BY <2>1, <2>2, <2>4, Zenon DEF InRecv
    <3>2. pcd.reply.bn = pcd.bn /\ picc.bn # pcd.bn /\ picc.tx = k /\ picc.apdu = call
      BY <2>1, <2>2, <2>4, <3>1, Zenon DEF InRecv, Answering, Executed
    <3>3. picc'.bn = pcd.bn
      BY <1>0, <2>4, <3>2
    <3>4. InRecv(call, picc', pcd)
      BY <2>1, <2>2, <2>4, <3>1, <3>2, <3>3, Zenon DEF InRecv, Executed
    <3> QED
      BY <1>1, <1>4, <2>1, <2>4, <3>4, Zenon DEF Carried, Fits
  <2>5. CASE /\ Block.type = "WTX" /\ r.answer = r.picc.last /\ Beginning(picc.apdu, r.picc)
             /\ r.picc.rx = picc.rx /\ r.picc.apdu = picc.apdu /\ r.picc.bn = picc.bn
    <3>1. InRecv(call, picc', pcd)
      <4>1. Executed(call, picc')
        BY <2>2, <2>5, Zenon DEF InRecv, Executed
      <4>2. pcd.reply.type = "WTX" /\ pcd.got = <<>> /\ picc'.bn = pcd.bn /\ Beginning(call, picc')
        BY <2>1, <2>2, <2>5, Zenon DEF InRecv, Executed
      <4> QED
        BY <4>1, <4>2 DEF InRecv
    <3> QED
      BY <1>1, <1>4, <2>1, <2>5, <3>1, Zenon DEF Carried, Fits
  <2> QED
    BY <1>0, <2>1, <2>3, <2>4, <2>5, TakesAck, TakesWtx, Zenon
<1> QED
  BY <1>2, <1>3, <1>4

(* The reader gives up, or tries again.                                      *)
LEMMA FailsExactly ==
  ASSUME ExchangeInv, Reactivates, pcd.at \in {"send", "recv"}, Carried, call' = call,
         Failed \/ End("err")
  PROVE  ExactInv'
<1>1. CASE End("err")
  <2>1. pcd'.at = "dead" /\ outcome' = "err"
    BY <1>1 DEF End, ExchangeInv, Pcds
  <2> QED
    BY <2>1 DEF ExactInv, Fits, AnswerIsExact, Carried, Sent
<1>2. CASE pcd' = [pcd EXCEPT !.tries = @ + 1] /\ UNCHANGED outcome
  <2>1. /\ pcd'.at = pcd.at /\ pcd'.bn = pcd.bn /\ pcd'.i = pcd.i /\ pcd'.got = pcd.got
        /\ pcd'.reply = pcd.reply
    BY <1>2 DEF ExchangeInv, Pcds
  <2>2. outcome' # "ok" /\ pcd'.at # "dead"
    BY <1>2, <2>1 DEF ExchangeInv
  <2>3. Fits(call', picc', pcd')
    BY <2>1, Zenon DEF Carried, Fits, InSend, InRecv
  <2> QED
    BY <2>2, <2>3, Zenon DEF ExactInv, AnswerIsExact, Carried, Sent
<1> QED
  BY <1>1, <1>2 DEF Failed

(* The next chunk, or the same one again.                                    *)
LEMMA AcknowledgedExactly ==
  ASSUME ExchangeInv, Reactivates, pcd.at = "send", pcd.i < SendChunks, Carried, call' = call,
         picc' \in Piccs, NEW a \in AnyBlock, Numbered(picc', a), Acknowledged(a)
  PROVE  ExactInv'
<1>0. /\ pcd.i \in 1..SendChunks /\ SendChunks \in Nat /\ pcd.bn \in {0, 1} /\ outcome = "busy"
      /\ picc'.bn \in {0, 1}
  BY SessionAssumption DEF ExchangeInv, Pcds, Piccs
<1>1. InSend(call, picc', pcd)
  BY Zenon DEF Carried, Fits
<1>2. CASE a.type = "ACK" /\ a.bn = pcd.bn
  <2>1. /\ pcd' = [pcd EXCEPT !.bn = 1 - pcd.bn, !.tries = 0, !.i = pcd.i + 1]
        /\ outcome' = outcome
    BY <1>2 DEF Acknowledged, Toggled, ExchangeInv, Pcds
  <2>2. pcd'.at = "send" /\ pcd'.bn = 1 - pcd.bn /\ pcd'.i = pcd.i + 1 /\ pcd'.got = pcd.got
    BY <2>1 DEF ExchangeInv, Pcds
  <2>3. picc'.bn = pcd.bn /\ pcd'.bn # picc'.bn /\ pcd'.i - 1 = pcd.i
    BY <1>0, <1>2, <2>2 DEF Numbered
  <2>4. InSend(call, picc', pcd')
    BY <1>1, <2>2, <2>3, Zenon DEF InSend
  <2> QED
    BY <1>0, <2>1, <2>2, <2>4, Zenon DEF ExactInv, Fits, AnswerIsExact, Carried, Sent
<1>3. CASE a.type = "ACK" /\ a.bn # pcd.bn
  <2>1. pcd' = [pcd EXCEPT !.tries = 0] /\ outcome' = outcome
    BY <1>3 DEF Acknowledged
  <2>2. pcd'.at = "send" /\ pcd'.bn = pcd.bn /\ pcd'.i = pcd.i /\ pcd'.got = pcd.got
    BY <2>1 DEF ExchangeInv, Pcds
  <2>3. InSend(call, picc', pcd')
    BY <1>1, <2>2, Zenon DEF InSend
  <2> QED
    BY <1>0, <2>1, <2>2, <2>3, Zenon DEF ExactInv, Fits, AnswerIsExact, Carried, Sent
<1>4. CASE a.type # "ACK"
  BY <1>4, FailsExactly DEF Acknowledged
<1> QED
  BY <1>2, <1>3, <1>4

(* The chunk that is taken in is the next one of the answer.                 *)
LEMMA NextChunk ==
  ASSUME ExchangeInv, Carried, pcd.at = "recv" \/ (pcd.at = "send" /\ pcd.i = SendChunks),
         picc'.bn = pcd.bn, picc'.last.type = "I"
  PROVE  /\ Executed(call, picc')
         /\ \E k \in 0..(RecvChunks - 1) :
              pcd.got = Sent(call, k) /\ Answering(call, picc', k + 1)
<1>0. RecvChunks \in Nat \ {0} /\ 0 \in 0..(RecvChunks - 1) /\ 0 + 1 = 1 /\ <<>> = Sent(call, 0)
  BY SessionAssumption DEF Sent
<1>1. WtxBlock.type = "WTX"
  BY DEF WtxBlock, RBlock
<1>2. CASE pcd.got = <<>> /\ Executed(call, picc') /\ Beginning(call, picc')
  BY <1>0, <1>1, <1>2, Zenon DEF Beginning
<1>3. CASE pcd.at = "send"
  BY <1>2, <1>3, Zenon DEF Carried, Fits, InSend
<1>4. CASE pcd.at = "recv" /\ pcd.reply.type = "WTX"
  BY <1>2, <1>4, Zenon DEF Carried, Fits, InRecv
<1>5. CASE pcd.at = "recv" /\ pcd.reply.type = "ACK"
  <2>1. InRecv(call, picc', pcd)
    BY <1>5, Zenon DEF Carried, Fits
  <2>2. PICK k \in 1..(RecvChunks - 1) : pcd.got = Sent(call, k) /\ Answering(call, picc', k + 1)
    BY <1>5, <2>1, Zenon DEF InRecv
  <2>3. k \in 0..(RecvChunks - 1)
    BY <1>0, <2>2
  <2> QED
    BY <2>1, <2>2, <2>3, Zenon DEF InRecv
<1> QED
  BY <1>3, <1>4, <1>5 DEF ExchangeInv

LEMMA CollectExactly ==
  ASSUME ExchangeInv, Reactivates, Carried, call' = call,
         pcd.at = "recv" \/ (pcd.at = "send" /\ pcd.i = SendChunks),
         picc' \in Piccs, NEW a \in AnyBlock, Numbered(picc', a),
         a.type \in {"I", "WTX"} => a = picc'.last,
         pcd.at = "send" /\ a.type = "WTX" => picc'.bn = pcd.bn,
         Collect(a)
  PROVE  ExactInv'
<1>0. /\ 1 - pcd.bn \in {0, 1} /\ 1 - pcd.bn # pcd.bn /\ pcd \in Pcds /\ outcome = "busy"
      /\ RecvChunks \in Nat \ {0}
  BY SessionAssumption DEF ExchangeInv, Pcds
<1>1. CASE a.type = "I" /\ a.bn = pcd.bn
  <2>1. picc'.bn = pcd.bn /\ a = picc'.last
    BY <1>1, Zenon DEF Numbered
  <2>2. Executed(call, picc')
    BY <1>1, <2>1, NextChunk
  <2>3. PICK k \in 0..(RecvChunks - 1) :
          pcd.got = Sent(call, k) /\ Answering(call, picc', k + 1)
    BY <1>1, <2>1, NextChunk
  <2>4. a.chunk = <<call, k + 1>> /\ (a.more <=> k + 1 < RecvChunks)
    <3>1. a = IBlock(picc'.bn, k + 1 < RecvChunks, <<call, k + 1>>)
      BY <2>1, <2>3, Zenon DEF Answering
    <3>2. a.chunk = <<call, k + 1>> /\ a.more = (k + 1 < RecvChunks)
      BY <3>1, Zenon DEF IBlock
    <3> QED
      BY <3>2, Zenon
  <2>5. Append(pcd.got, a.chunk) = Sent(call, k + 1)
    <3>1. k \in Nat
      BY <1>0, <2>3
    <3> QED
      BY <2>3, <2>4, <3>1, SentGrows, Zenon
  <2>6. CASE a.more
    <3>1. /\ pcd' = [pcd EXCEPT !.bn = 1 - pcd.bn, !.tries = 0, !.got = Append(pcd.got, a.chunk),
                                !.at = "recv", !.reply = RBlock("ACK", 1 - pcd.bn)]
          /\ outcome' = outcome
      BY <1>0, <1>1, <2>6, Zenon DEF Collect, Reply, Toggled, Pcds
    <3>2. /\ pcd'.at = "recv" /\ pcd'.bn = 1 - pcd.bn /\ pcd'.got = Sent(call, k + 1)
          /\ pcd'.reply = RBlock("ACK", 1 - pcd.bn)
      BY <1>0, <2>5, <3>1, Zenon DEF Pcds
    <3>3. pcd'.reply.type = "ACK" /\ pcd'.reply.bn = pcd'.bn
      BY <3>2 DEF RBlock
    <3>4. k + 1 \in 1..(RecvChunks - 1) /\ picc'.bn # pcd'.bn
      BY <1>0, <2>1, <2>3, <2>4, <2>6, <3>2
    <3>5. InRecv(call, picc', pcd')
      <4>1. \E j \in 1..(RecvChunks - 1) :
              /\ pcd'.got = Sent(call, j)
              /\ Answering(call, picc', IF picc'.bn = pcd'.bn THEN j + 1 ELSE j)
        <5>1. Answering(call, picc', IF picc'.bn = pcd'.bn THEN (k + 1) + 1 ELSE k + 1)
          BY <2>3, <3>4, Zenon
        <5> QED
          BY <3>2, <3>4, <5>1, Zenon
      <4>2. pcd'.reply.type # "WTX"
        BY <3>3
      <4> QED
        BY <2>2, <3>3, <4>1, <4>2, Zenon DEF InRecv
    <3> QED
      BY <1>0, <3>1, <3>2, <3>5, Zenon DEF ExactInv, Fits, AnswerIsExact, Carried, Sent
  <2>7. CASE ~a.more
    <3>1. /\ pcd' = [pcd EXCEPT !.bn = 1 - pcd.bn, !.tries = 0, !.got = Append(pcd.got, a.chunk),
                                !.at = "idle"]
          /\ outcome' = "ok"
      BY <1>0, <1>1, <2>7, Zenon DEF Collect, Toggled, Pcds
    <3>2. pcd'.at = "idle" /\ pcd'.got = Sent(call, k + 1)
      BY <1>0, <2>5, <3>1, Zenon DEF Pcds
    <3>3. k + 1 = RecvChunks
      BY <1>0, <2>3, <2>4, <2>7
    <3> QED
      BY <2>2, <3>1, <3>2, <3>3, Zenon DEF ExactInv, Fits, Executed, AnswerIsExact, Carried, Sent
  <2> QED
    BY <2>6, <2>7
<1>2. CASE a.type = "WTX"
  <2>1. WtxBlock.type = "WTX" /\ picc'.last.type = "WTX"
    BY <1>2 DEF WtxBlock, RBlock
  <2>2. \A m, j : Answering(m, picc', j) => picc'.last.type = "I"
    BY DEF Answering, IBlock
  <2>3. /\ pcd' = [pcd EXCEPT !.at = "recv", !.reply = WtxBlock, !.tries = 0]
        /\ outcome' = outcome
    BY <1>2 DEF Collect, Reply
  <2>4. pcd'.at = "recv" /\ pcd'.reply = WtxBlock /\ pcd'.got = pcd.got /\ pcd'.bn = pcd.bn
    BY <1>0, <2>3, Zenon DEF Pcds
  <2>5. pcd.got = <<>> /\ picc'.bn = pcd.bn /\ Executed(call, picc') /\ Beginning(call, picc')
    <3>1. CASE pcd.at = "send"
      BY <1>2, <3>1, Zenon DEF Carried, Fits, InSend
    <3>2. CASE pcd.at = "recv"
      <4>1. InRecv(call, picc', pcd) /\ pcd.reply.type \in {"ACK", "WTX"}
        BY <3>2, Zenon DEF Carried, Fits, ExchangeInv
      <4>2. pcd.reply.type # "ACK"
        <5>1. picc'.last.type # "I"
          BY <2>1
        <5> QED
          BY <2>2, <4>1, <5>1, Zenon DEF InRecv
      <4> QED
        BY <4>1, <4>2, Zenon DEF InRecv
    <3> QED
      BY <3>1, <3>2
  <2>6. InRecv(call, picc', pcd')
    BY <2>1, <2>4, <2>5 DEF InRecv
  <2> QED
    BY <1>0, <2>3, <2>4, <2>6, Zenon DEF ExactInv, Fits, AnswerIsExact, Carried, Sent
<1>3. CASE a.type # "WTX" /\ ~(a.type = "I" /\ a.bn = pcd.bn)
  BY <1>3, FailsExactly DEF Collect
<1> QED
  BY <1>1, <1>2, <1>3

LEMMA SessionStepExact ==
  ASSUME ExchangeInv, ExactInv, Reactivates, SessionStep PROVE ExactInv'
<1>0. pcd.at \in {"send", "recv"} /\ call' = call /\ picc' \in Piccs
  BY SessionStepHolds, Zenon DEF Reacted
<1>1. CASE Arrives
  <2>1. PICK r \in Reactions(Block) :
          /\ picc' = r.picc
          /\ IF r.answer = NoBlock THEN Failed
             ELSE IF pcd.at = "send" /\ pcd.i < SendChunks THEN Acknowledged(r.answer)
             ELSE Collect(r.answer)
    BY <1>1, Zenon DEF Arrives
  <2>2. /\ r.answer \in AnyBlock /\ Numbered(picc', r.answer)
        /\ pcd.at = "send" /\ r.answer.type = "WTX" => picc'.bn = pcd.bn
    BY <1>0, <1>1, <2>1, CardActs, Zenon DEF Arrives
  <2>3. Carried /\ (r.answer.type \in {"I", "WTX"} => r.answer = picc'.last)
    BY <1>0, <1>1, <2>1, CardCarries, Zenon DEF Arrives
  <2>4. pcd.i < SendChunks \/ pcd.i = SendChunks
    BY SessionAssumption DEF ExchangeInv, Pcds
  <2> QED
    BY <1>0, <2>1, <2>2, <2>3, <2>4, FailsExactly, AcknowledgedExactly, CollectExactly, Zenon
<1>2. CASE AnswerLost
  <2>1. PICK r \in Reactions(Block) : picc' = r.picc
    BY <1>2, Zenon DEF AnswerLost
  <2>2. Carried
    BY <1>0, <1>2, <2>1, CardCarries, Zenon DEF AnswerLost
  <2> QED
    BY <1>0, <1>2, <2>2, FailsExactly, Zenon DEF AnswerLost
<1>3. CASE BlockLost
  <2>1. Carried
    BY <1>3, Zenon DEF BlockLost, ExactInv, AnswerIsExact, Sent, Carried
  <2> QED
    BY <1>0, <1>3, <2>1, FailsExactly, Zenon DEF BlockLost
<1> QED
  BY <1>1, <1>2, <1>3, Zenon DEF SessionStep

(* The chunks of every block are the right ones.                             *)
THEOREM ExactInvariant == ASSUME Reactivates PROVE SessionSpec => []ExactInv
<1>1. SessionInit => ExactInv
  BY DEF SessionInit, FreshPcd, FreshPicc, ExactInv, Fits, AnswerIsExact
<1>2. ExchangeInv /\ ExactInv /\ [SessionNext]_vars => ExactInv'
  <2> SUFFICES ASSUME ExchangeInv, ExactInv, [SessionNext]_vars PROVE ExactInv'
    OBVIOUS
  <2>1. CASE UNCHANGED vars
    BY <2>1, Zenon DEF vars, ExactInv, AnswerIsExact
  <2>2. CASE Begin
    <3>1. /\ pcd' = [pcd EXCEPT !.at = "send", !.i = 1, !.tries = 0, !.got = <<>>,
                                !.reply = NoBlock]
          /\ picc' = [picc EXCEPT !.wtx = 0] /\ pcd.at = "idle"
          /\ outcome' = "busy" /\ execs' = <<>>
      BY <2>2, Zenon DEF Begin
    <3>2. /\ pcd'.at = "send" /\ pcd'.got = <<>> /\ pcd'.i = 1 /\ pcd'.bn = pcd.bn
          /\ picc'.bn = picc.bn /\ picc'.rx = picc.rx
      BY <3>1 DEF ExchangeInv, Pcds, Piccs
    <3>3. picc'.bn # pcd'.bn /\ picc'.rx = <<>> /\ <<>> = Sent(call', 0) /\ pcd'.i - 1 = 0
      BY <3>1, <3>2 DEF ExchangeInv, ExactInv, Fits, Sent
    <3>4. InSend(call', picc', pcd')
      BY <3>2, <3>3, Zenon DEF InSend
    <3> QED
      BY <3>1, <3>2, <3>4 DEF ExactInv, Fits, AnswerIsExact
  <2>3. CASE Activate
    <3>1. /\ pcd.at = "dead" /\ pcd' = FreshPcd /\ picc' = FreshPicc
          /\ UNCHANGED <<call, outcome, execs>>
      BY <2>3, Zenon DEF Activate
    <3>2. pcd'.at = "idle" /\ picc'.rx = <<>>
      BY <3>1 DEF FreshPcd, FreshPicc
    <3> QED
      BY <3>1, <3>2 DEF ExactInv, Fits, AnswerIsExact
  <2> QED
    BY <2>1, <2>2, <2>3, SessionStepExact, Zenon DEF SessionNext
<1> QED
  BY <1>1, <1>2, ExchangeInvariant, PTL DEF SessionSpec

(* Whatever is lost and sent again, for chains of any length: an Ok returns  *)
(* the chunks of the answer to this command, each once and in order, the     *)
(* card executes this command as it was sent, and the timeout is restored.   *)
THEOREM ExchangesCleanly == ASSUME Reactivates PROVE SessionSpec => []ExchangeIsClean
<1>1. ExactInv => AnswerIsExact
  BY DEF ExactInv
<1> QED
  BY <1>1, ExactInvariant, RestoresTimeout, PTL DEF ExchangeIsClean

------------------------------------------------------------------------------
(* The types of the session, also when a failed one is not activated anew.   *)

Readers == [at : {"idle", "send", "recv", "dead"}, bn : {0, 1}, i : 1..SendChunks,
            tries : 0..MAX_RETRIES, reply : Blocks, got : Seq(Chunks)]

Answerers == [bn : {0, 1}, rx : Seq(Chunks), apdu : 0..MaxCalls, tx : 0..RecvChunks,
              last : Blocks, wtx : 0..MaxWtx]

(* Also, what the reader sends while receiving is R(ACK) or S(WTX), which    *)
(* the card knows how to answer.                                             *)
SessionTypes ==
  /\ pcd \in Readers /\ picc \in Answerers
  /\ pcd.at = "recv" => pcd.reply.type \in {"ACK", "WTX"}
  /\ timer \in {"base", "extended"}
  /\ call \in 0..MaxCalls /\ outcome \in {"none", "busy", "ok", "err"}
  /\ execs \in Seq(Seq(Chunks)) /\ lost \in 0..MaxLoss

LEMMA SizedRBlock ==
  ASSUME NEW b \in {0, 1}, NEW t \in {"ACK", "NAK", "WTX", "none"}
  PROVE  RBlock(t, b) \in Blocks /\ RBlock(t, b).type = t
<1>1. <<0, 0>> \in Chunks
  BY SessionAssumption DEF Chunks
<1> HIDE DEF Chunks
<1> QED BY <1>1 DEF RBlock, Blocks

LEMMA SizedIBlock ==
  ASSUME NEW b \in {0, 1}, NEW more \in BOOLEAN, NEW n \in 0..MaxCalls,
         NEW j \in 0..(SendChunks + RecvChunks)
  PROVE  IBlock(b, more, <<n, j>>) \in Blocks /\ IBlock(b, more, <<n, j>>).type = "I"
<1>1. <<n, j>> \in Chunks
  BY DEF Chunks
<1> HIDE DEF Chunks
<1> QED BY <1>1, Zenon DEF IBlock, Blocks

LEMMA SizedAnswer ==
  ASSUME NEW p \in Answerers, NEW block \in Blocks
  PROVE  Answer(p, block).picc \in Answerers /\ Answer(p, block).answer = block
BY Zenon DEF Answer, Answerers

LEMMA SizedChunk ==
  ASSUME NEW p \in Answerers, NEW j \in 1..RecvChunks
  PROVE  Chunk(p, j).picc \in Answerers /\ Chunk(p, j).answer \in Blocks
<1> DEFINE q == [p EXCEPT !.tx = j]
           b == IBlock(p.bn, j < RecvChunks, <<p.apdu, j>>)
<1>1. j \in 0..RecvChunks /\ j \in 0..(SendChunks + RecvChunks) /\ (j < RecvChunks) \in BOOLEAN
  BY SessionAssumption
<1>2. q \in Answerers
  BY <1>1, Zenon DEF Answerers
<1>3. p.bn \in {0, 1} /\ p.apdu \in 0..MaxCalls
  BY Zenon DEF Answerers
<1>4. b \in Blocks
  BY <1>1, <1>3, SizedIBlock, Zenon
<1>5. Chunk(p, j) = Answer(q, b)
  BY Zenon DEF Chunk
<1> HIDE DEF q, b
<1> QED BY <1>2, <1>4, <1>5, SizedAnswer, Zenon

LEMMA SizedExtension ==
  ASSUME NEW p \in Answerers, NEW r \in Extension(p)
  PROVE  r.picc \in Answerers /\ r.answer \in Blocks
<1> DEFINE q == [p EXCEPT !.wtx = p.wtx + 1]
<1>1. WtxBlock \in Blocks
  BY SizedRBlock DEF WtxBlock
<1>2. r = Answer(q, WtxBlock) /\ p.wtx # MaxWtx /\ p.wtx \in 0..MaxWtx
  BY DEF Extension, Answerers
<1>3. p.wtx + 1 \in 0..MaxWtx
  BY <1>2, SessionAssumption
<1>4. q \in Answerers
  BY <1>3, Zenon DEF Answerers
<1> HIDE DEF q
<1> QED BY <1>1, <1>2, <1>4, SizedAnswer, Zenon

LEMMA SizedReaction ==
  ASSUME picc \in Answerers, NEW b \in Blocks, b.type # "none", NEW r \in Reactions(b)
  PROVE  r.picc \in Answerers /\ r.answer \in Blocks
<1>0. NoBlock \in Blocks /\ 1 \in 1..RecvChunks /\ 0 \in 0..RecvChunks
  BY SizedRBlock, SessionAssumption DEF NoBlock
<1>t. /\ picc.bn \in {0, 1} /\ 1 - picc.bn \in {0, 1} /\ picc.tx \in 0..RecvChunks
      /\ picc.last \in Blocks
  <2>1. picc.bn \in {0, 1} /\ picc.tx \in 0..RecvChunks /\ picc.last \in Blocks
    BY Zenon DEF Answerers
  <2> QED BY <2>1
<1>1. CASE b.type = "I"
  <2> DEFINE p == [picc EXCEPT !.bn = 1 - picc.bn, !.tx = 0]
             q == [p EXCEPT !.rx = <<>>, !.apdu = b.chunk[1]]
             s == [p EXCEPT !.rx = Append(p.rx, b.chunk)]
  <2>1. p \in Answerers /\ p.bn = 1 - picc.bn
    BY <1>0, <1>t, Zenon DEF Answerers
  <2>2. b.chunk \in Chunks
    BY Zenon DEF Blocks
  <2>3. b.chunk[1] \in 0..MaxCalls
    BY <2>2 DEF Chunks
  <2>4. \/ r = Answer(s, RBlock("ACK", p.bn))
        \/ r = Chunk(q, 1)
        \/ r \in Extension(q)
    <3>1. [picc EXCEPT !.bn = 1 - @, !.tx = 0] = p
      OBVIOUS
    <3>2. r \in OnIBlock(b)
      BY <1>1 DEF Reactions
    <3> QED BY <3>1, <3>2 DEF OnIBlock
  <2> HIDE DEF p
  <2>5. q \in Answerers
    <3>1. <<>> \in Seq(Chunks)
      OBVIOUS
    <3> QED BY <2>1, <2>3, <3>1, Zenon DEF Answerers
  <2>6. s \in Answerers
    <3>1. p.rx \in Seq(Chunks)
      BY <2>1, Zenon DEF Answerers
    <3>2. Append(p.rx, b.chunk) \in Seq(Chunks)
      <4> HIDE DEF Chunks
      <4> QED BY <2>2, <3>1
    <3> QED BY <2>1, <3>2, Zenon DEF Answerers
  <2>7. RBlock("ACK", p.bn) \in Blocks
    BY <1>t, <2>1, SizedRBlock, Zenon
  <2> HIDE DEF q, s
  <2> QED BY <1>0, <2>4, <2>5, <2>6, <2>7, SizedAnswer, SizedChunk, SizedExtension, Zenon
<1>2. CASE b.type \in {"ACK", "NAK"}
  <2>0. r \in OnRBlock(b)
    BY <1>2 DEF Reactions
  <2>1. ASSUME NEW a \in {picc.last, RBlock("ACK", picc.bn), NoBlock},
               r = [picc |-> picc, answer |-> a]
        PROVE  r.picc \in Answerers /\ r.answer \in Blocks
    <3>1. RBlock("ACK", picc.bn) \in Blocks
      BY <1>t, SizedRBlock, Zenon
    <3>2. a \in Blocks /\ r.picc = picc /\ r.answer = a
      BY <1>0, <1>t, <2>1, <3>1
    <3> QED BY <3>2, Zenon
  <2>2. CASE r = Chunk([picc EXCEPT !.bn = 1 - picc.bn], picc.tx + 1)
             /\ picc.tx \in 1..(RecvChunks - 1)
    <3>1. picc.tx + 1 \in 1..RecvChunks
      BY <2>2, SessionAssumption
    <3>2. [picc EXCEPT !.bn = 1 - picc.bn] \in Answerers
      BY <1>t, Zenon DEF Answerers
    <3> QED BY <2>2, <3>1, <3>2, SizedChunk, Zenon
  <2> QED BY <2>0, <2>1, <2>2 DEF OnRBlock
<1>3. CASE b.type = "WTX"
  <2>0. r \in OnWtx
    BY <1>3 DEF Reactions
  <2>1. r = Chunk(picc, 1) \/ r \in Extension(picc) \/ r = [picc |-> picc, answer |-> NoBlock]
    BY <2>0, Zenon DEF OnWtx
  <2>2. CASE r = [picc |-> picc, answer |-> NoBlock]
    <3>1. r.picc = picc /\ r.answer = NoBlock
      BY <2>2
    <3> QED BY <1>0, <3>1, Zenon
  <2> QED BY <1>0, <2>1, <2>2, SizedChunk, SizedExtension, Zenon
<1> QED BY <1>1, <1>2, <1>3, Zenon DEF Blocks

LEMMA SizedBlockSent ==
  ASSUME SessionTypes, pcd.at \in {"send", "recv"}
  PROVE  Block \in Blocks /\ Block.type # "none"
<1>t. /\ pcd.bn \in {0, 1} /\ pcd.reply \in Blocks /\ call \in 0..MaxCalls
      /\ pcd.i \in 1..SendChunks
  BY Zenon DEF SessionTypes, Readers
<1>1. CASE pcd.at = "recv"
  BY <1>t, <1>1, Zenon DEF Block, SessionTypes
<1>2. CASE pcd.at # "recv" /\ Block = RBlock("NAK", pcd.bn)
  <2>1. RBlock("NAK", pcd.bn) \in Blocks /\ RBlock("NAK", pcd.bn).type = "NAK"
    BY <1>t, SizedRBlock, Zenon
  <2> QED BY <1>2, <2>1, Zenon
<1>3. CASE pcd.at # "recv" /\ Block = IBlock(pcd.bn, pcd.i < SendChunks, <<call, pcd.i>>)
  <2>1. pcd.i \in 0..(SendChunks + RecvChunks) /\ (pcd.i < SendChunks) \in BOOLEAN
    BY <1>t, SessionAssumption
  <2>2. /\ IBlock(pcd.bn, pcd.i < SendChunks, <<call, pcd.i>>) \in Blocks
        /\ IBlock(pcd.bn, pcd.i < SendChunks, <<call, pcd.i>>).type = "I"
    BY <1>t, <2>1, SizedIBlock, Zenon
  <2> QED BY <1>3, <2>2, Zenon
<1> QED BY <1>1, <1>2, <1>3, Zenon DEF Block

LEMMA SizedExecution ==
  ASSUME SessionTypes, NEW b \in Blocks, Executes(b) PROVE execs' \in Seq(Seq(Chunks))
<1>1. b.chunk \in Chunks /\ picc.rx \in Seq(Chunks) /\ execs \in Seq(Seq(Chunks))
  BY Zenon DEF SessionTypes, Blocks, Answerers
<1> HIDE DEF Chunks
<1>2. Append(picc.rx, b.chunk) \in Seq(Chunks)
  BY <1>1
<1>3. Append(execs, Append(picc.rx, b.chunk)) \in Seq(Seq(Chunks))
  BY <1>1, <1>2
<1> QED BY <1>1, <1>3, Zenon DEF Executes

(* What a step of the reader leaves typed.                                   *)
ReaderTyped ==
  /\ pcd' \in Readers /\ (pcd'.at = "recv" => pcd'.reply.type \in {"ACK", "WTX"})
  /\ timer' \in {"base", "extended"} /\ outcome' \in {"none", "busy", "ok", "err"}

LEMMA SizedEnd == ASSUME SessionTypes, End("err") PROVE ReaderTyped
<1>1. PICK at \in {"dead", "idle"} : pcd' = [pcd EXCEPT !.at = at, !.tries = 0]
  BY Zenon DEF End
<1>2. 0 \in 0..MAX_RETRIES
  BY SessionAssumption
<1>3. pcd' \in Readers /\ pcd'.at = at
  BY <1>1, <1>2, Zenon DEF SessionTypes, Readers
<1> QED BY <1>3 DEF End, ReaderTyped

LEMMA SizedFailure == ASSUME SessionTypes, Failed PROVE ReaderTyped
<1>1. CASE pcd.tries = MAX_RETRIES
  BY <1>1, SizedEnd DEF Failed
<1>2. CASE pcd.tries # MAX_RETRIES
  <2>1. pcd' = [pcd EXCEPT !.tries = pcd.tries + 1] /\ UNCHANGED <<timer, outcome>>
    BY <1>2 DEF Failed
  <2>2. pcd.tries \in 0..MAX_RETRIES
    BY Zenon DEF SessionTypes, Readers
  <2>3. pcd.tries + 1 \in 0..MAX_RETRIES
    BY <1>2, <2>2, SessionAssumption
  <2>4. pcd' \in Readers /\ pcd'.at = pcd.at /\ pcd'.reply = pcd.reply
    BY <2>1, <2>3, Zenon DEF SessionTypes, Readers
  <2> QED BY <2>1, <2>4, Zenon DEF SessionTypes, ReaderTyped
<1> QED BY <1>1, <1>2

LEMMA SizedAcknowledgement ==
  ASSUME SessionTypes, pcd.at = "send", pcd.i < SendChunks, NEW a \in Blocks, Acknowledged(a)
  PROVE  ReaderTyped
<1>t. pcd.bn \in {0, 1} /\ pcd.i \in 1..SendChunks
  BY Zenon DEF SessionTypes, Readers
<1>0. 0 \in 0..MAX_RETRIES /\ 1 - pcd.bn \in {0, 1} /\ pcd.i + 1 \in 1..SendChunks
  BY <1>t, SessionAssumption
<1>1. CASE End("err")
  BY <1>1, SizedEnd
<1>2. CASE /\ pcd' = [pcd EXCEPT !.bn = 1 - pcd.bn, !.tries = 0, !.i = pcd.i + 1]
           /\ UNCHANGED <<timer, outcome>>
  <2>1. pcd' \in Readers /\ pcd'.at = "send"
    BY <1>0, <1>2, Zenon DEF SessionTypes, Readers
  <2> QED BY <1>2, <2>1 DEF SessionTypes, ReaderTyped
<1>3. CASE pcd' = [pcd EXCEPT !.tries = 0] /\ UNCHANGED <<timer, outcome>>
  <2>1. pcd' \in Readers /\ pcd'.at = "send"
    BY <1>0, <1>3, Zenon DEF SessionTypes, Readers
  <2> QED BY <1>3, <2>1 DEF SessionTypes, ReaderTyped
<1>4. [Toggled EXCEPT !.i = @ + 1] = [pcd EXCEPT !.bn = 1 - pcd.bn, !.tries = 0, !.i = pcd.i + 1]
  <2>1. pcd \in Readers
    BY DEF SessionTypes
  <2> QED BY <2>1, Zenon DEF Toggled, Readers
<1> QED BY <1>1, <1>2, <1>3, <1>4, Zenon DEF Acknowledged

LEMMA SizedCollection == ASSUME SessionTypes, NEW a \in Blocks, Collect(a) PROVE ReaderTyped
<1>t. pcd \in Readers /\ pcd.bn \in {0, 1} /\ pcd.got \in Seq(Chunks) /\ a.chunk \in Chunks
  BY Zenon DEF SessionTypes, Readers, Blocks
<1>0. 0 \in 0..MAX_RETRIES /\ 1 - pcd.bn \in {0, 1}
  BY <1>t, SessionAssumption
<1> DEFINE got == Append(pcd.got, a.chunk)
<1>g. got \in Seq(Chunks)
  <2> HIDE DEF Chunks
  <2> QED BY <1>t
<1>e. Toggled = [pcd EXCEPT !.bn = 1 - pcd.bn, !.tries = 0] /\ Toggled.got = pcd.got
  BY <1>t, Zenon DEF Toggled, Readers
<1> HIDE DEF got
<1>1. CASE a.type = "I" /\ a.bn = pcd.bn /\ a.more
  <2>1. RBlock("ACK", 1 - pcd.bn) \in Blocks /\ RBlock("ACK", 1 - pcd.bn).type = "ACK"
    BY <1>0, SizedRBlock, Zenon
  <2>2. Reply([Toggled EXCEPT !.got = got], RBlock("ACK", 1 - pcd.bn))
    <3>1. Reply([Toggled EXCEPT !.got = Append(@, a.chunk)], RBlock("ACK", 1 - pcd.bn))
      BY <1>1, Zenon DEF Collect
    <3>2. [Toggled EXCEPT !.got = Append(@, a.chunk)] = [Toggled EXCEPT !.got = got]
      BY <1>e, Zenon DEF got
    <3> QED BY <3>1, <3>2, Zenon
  <2>3. pcd' = [pcd EXCEPT !.bn = 1 - pcd.bn, !.got = got, !.at = "recv",
                           !.reply = RBlock("ACK", 1 - pcd.bn), !.tries = 0]
    BY <1>t, <1>e, <2>2, Zenon DEF Reply, Readers
  <2>4. pcd' \in Readers /\ pcd'.reply.type = "ACK"
    BY <1>t, <1>0, <1>g, <2>1, <2>3, Zenon DEF Readers
  <2> QED BY <2>2, <2>4, Zenon DEF Reply, ReaderTyped, SessionTypes
<1>2. CASE a.type = "I" /\ a.bn = pcd.bn /\ ~a.more
  <2>1. /\ outcome' = "ok" /\ timer' = "base"
        /\ pcd' = [Toggled EXCEPT !.at = "idle", !.got = Append(@, a.chunk)]
    BY <1>2, Zenon DEF Collect
  <2>2. pcd' = [pcd EXCEPT !.bn = 1 - pcd.bn, !.got = got, !.at = "idle", !.tries = 0]
    BY <1>t, <1>e, <2>1, Zenon DEF Readers, got
  <2>3. pcd' \in Readers /\ pcd'.at = "idle"
    BY <1>t, <1>0, <1>g, <2>2, Zenon DEF Readers
  <2> QED BY <2>1, <2>3 DEF ReaderTyped
<1>3. CASE a.type = "WTX"
  <2>1. Reply(pcd, WtxBlock)
    BY <1>3, Zenon DEF Collect
  <2>2. WtxBlock \in Blocks /\ WtxBlock.type = "WTX"
    BY SizedRBlock DEF WtxBlock
  <2>3. pcd' \in Readers /\ pcd'.reply = WtxBlock
    BY <1>t, <1>0, <2>1, <2>2, Zenon DEF Readers, Reply
  <2> QED BY <2>1, <2>2, <2>3, Zenon DEF Reply, ReaderTyped, SessionTypes
<1>4. CASE a.type # "WTX" /\ ~(a.type = "I" /\ a.bn = pcd.bn)
  <2>1. End("err")
    BY <1>4, Zenon DEF Collect
  <2> QED BY <2>1, SizedEnd
<1> QED BY <1>1, <1>2, <1>3, <1>4, Zenon

LEMMA SizedStep == ASSUME SessionTypes, SessionStep PROVE SessionTypes'
<1>0. pcd.at \in {"send", "recv"}
  BY Zenon DEF SessionStep, Arrives, AnswerLost, BlockLost
<1>b. Block \in Blocks /\ Block.type # "none" /\ picc \in Answerers
  BY <1>0, SizedBlockSent DEF SessionTypes
<1>l. lost \in 0..MaxLoss /\ (lost < MaxLoss => lost + 1 \in 0..MaxLoss)
  BY SessionAssumption DEF SessionTypes
<1>1. CASE Arrives
  <2>1. PICK r \in Reactions(Block) :
          /\ picc' = r.picc
          /\ IF r.answer = NoBlock THEN Failed
             ELSE IF pcd.at = "send" /\ pcd.i < SendChunks THEN Acknowledged(r.answer)
             ELSE Collect(r.answer)
    BY <1>1, Zenon DEF Arrives
  <2>2. picc' \in Answerers /\ r.answer \in Blocks
    BY <1>b, <2>1, SizedReaction, Zenon
  <2>3. ReaderTyped
    BY <2>1, <2>2, SizedFailure, SizedAcknowledgement, SizedCollection, Zenon
  <2>4. execs' \in Seq(Seq(Chunks)) /\ call' = call /\ lost' = lost
    BY <1>1, <1>b, SizedExecution DEF Arrives
  <2> QED BY <2>2, <2>3, <2>4, Zenon DEF SessionTypes, ReaderTyped
<1>2. CASE AnswerLost
  <2>1. picc' \in Answerers /\ lost' \in 0..MaxLoss /\ call' = call /\ Failed
    BY <1>2, <1>b, <1>l, SizedReaction, Zenon DEF AnswerLost
  <2>2. execs' \in Seq(Seq(Chunks)) /\ ReaderTyped
    BY <1>2, <1>b, <2>1, SizedExecution, SizedFailure, Zenon DEF AnswerLost
  <2> QED BY <2>1, <2>2, Zenon DEF SessionTypes, ReaderTyped
<1>3. CASE BlockLost
  <2>1. picc' = picc /\ lost' \in 0..MaxLoss /\ call' = call /\ execs' = execs /\ ReaderTyped
    BY <1>3, <1>l, SizedFailure, Zenon DEF BlockLost
  <2> QED BY <2>1, Zenon DEF SessionTypes, ReaderTyped
<1> QED BY <1>1, <1>2, <1>3, Zenon DEF SessionStep

(* Block numbers, retries, chunks and extensions stay within their bounds,   *)
(* and the reader never sends a block without a meaning, also in a session   *)
(* that goes on after an error.                                              *)
THEOREM SessionTypesHold == SessionSpec => [](SessionTypes /\ SessionTypeOK)
<1>f. FreshPcd \in Readers /\ FreshPicc \in Answerers /\ NoBlock \in Blocks
      /\ FreshPcd.at = "idle"
  <2>1. NoBlock \in Blocks
    BY SizedRBlock DEF NoBlock
  <2>2. /\ 1 \in 1..SendChunks /\ 0 \in 0..MAX_RETRIES /\ 0 \in 0..MaxCalls /\ 0 \in 0..RecvChunks
        /\ 0 \in 0..MaxWtx /\ <<>> \in Seq(Chunks)
    BY SessionAssumption
  <2> QED BY <2>1, <2>2, Zenon DEF FreshPcd, FreshPicc, Readers, Answerers
<1>1. SessionInit => SessionTypes
  <2>1. 0 \in 0..MaxCalls /\ 0 \in 0..MaxLoss /\ <<>> \in Seq(Seq(Chunks))
    BY SessionAssumption
  <2> QED BY <1>f, <2>1 DEF SessionInit, SessionTypes
<1>2. ASSUME SessionTypes, [SessionNext]_vars PROVE SessionTypes'
  <2>1. CASE Begin
    <3>1. call + 1 \in 0..MaxCalls /\ 0 \in 0..MaxLoss /\ <<>> \in Seq(Seq(Chunks))
          /\ 1 \in 1..SendChunks /\ 0 \in 0..MAX_RETRIES /\ 0 \in 0..MaxWtx /\ <<>> \in Seq(Chunks)
      BY <1>2, <2>1, SessionAssumption DEF Begin, SessionTypes
    <3>2. pcd' \in Readers /\ pcd'.at = "send"
      BY <1>2, <1>f, <2>1, <3>1, Zenon DEF Begin, SessionTypes, Readers
    <3>3. picc' \in Answerers
      BY <1>2, <2>1, <3>1, Zenon DEF Begin, SessionTypes, Answerers
    <3>4. /\ call' = call + 1 /\ outcome' = "busy" /\ lost' = 0 /\ execs' = <<>>
          /\ timer' = timer
      BY <2>1, Zenon DEF Begin
    <3> QED BY <1>2, <3>1, <3>2, <3>3, <3>4 DEF SessionTypes
  <2>2. CASE Activate
    BY <1>2, <1>f, <2>2 DEF Activate, SessionTypes
  <2>3. CASE UNCHANGED vars
    BY <1>2, <2>3, Zenon DEF vars, SessionTypes
  <2> QED BY <1>2, <2>1, <2>2, <2>3, SizedStep, Zenon DEF SessionNext
<1>3. SessionTypes => SessionTypeOK
  BY Zenon DEF SessionTypes, SessionTypeOK, Readers, Answerers
<1> QED BY <1>1, <1>2, <1>3, PTL DEF SessionSpec

------------------------------------------------------------------------------
(* An exchange comes to its end.                                             *)

LEMMA LessOfFour ==
  ASSUME NEW a1 \in Nat, NEW a2 \in Nat, NEW a3 \in Nat, NEW a4 \in Nat,
         NEW b1 \in Nat, NEW b2 \in Nat, NEW b3 \in Nat, NEW b4 \in Nat,
         \/ a1 < b1
         \/ a1 = b1 /\ a2 < b2
         \/ a1 = b1 /\ a2 = b2 /\ a3 < b3
         \/ a1 = b1 /\ a2 = b2 /\ a3 = b3 /\ a4 < b4
  PROVE  Less(<<a1, a2, a3, a4>>, <<b1, b2, b3, b4>>)
<1> DEFINE a == <<a1, a2, a3, a4>>
           b == <<b1, b2, b3, b4>>
<1>1. a \in Seq(Nat) /\ b \in Seq(Nat) /\ Len(a) = 4 /\ Len(b) = 4
  OBVIOUS
<1>2. /\ a[1] = a1 /\ a[2] = a2 /\ a[3] = a3 /\ a[4] = a4
      /\ b[1] = b1 /\ b[2] = b2 /\ b[3] = b3 /\ b[4] = b4
  OBVIOUS
<1>3. \E j \in 1..4 : a[j] < b[j] /\ \A i \in 1..(j - 1) : a[i] = b[i]
  <2> HIDE DEF a, b
  <2>1. CASE a1 < b1
    <3>1. \A i \in 1..(1 - 1) : a[i] = b[i]
      OBVIOUS
    <3> QED BY <1>2, <2>1, <3>1
  <2>2. CASE a1 = b1 /\ a2 < b2
    <3>1. \A i \in 1..(2 - 1) : i = 1
      OBVIOUS
    <3> QED BY <1>2, <2>2, <3>1
  <2>3. CASE a1 = b1 /\ a2 = b2 /\ a3 < b3
    <3>1. \A i \in 1..(3 - 1) : i = 1 \/ i = 2
      OBVIOUS
    <3> QED BY <1>2, <2>3, <3>1
  <2>4. CASE a1 = b1 /\ a2 = b2 /\ a3 = b3 /\ a4 < b4
    <3>1. \A i \in 1..(4 - 1) : i = 1 \/ i = 2 \/ i = 3
      OBVIOUS
    <3> QED BY <1>2, <2>4, <3>1
  <2> QED BY <2>1, <2>2, <2>3, <2>4
<1> HIDE DEF a, b
<1>4. Less(a, b)
  BY <1>1, <1>3 DEF Less
<1> QED BY <1>4 DEF a, b

LEMMA RemainingIsNatural ==
  SessionTypes => /\ MaxLoss - lost \in Nat /\ StageLeft \in Nat /\ ChunksLeft \in Nat
                  /\ TriesLeft \in Nat
<1> SUFFICES ASSUME SessionTypes
             PROVE  /\ MaxLoss - lost \in Nat /\ StageLeft \in Nat /\ ChunksLeft \in Nat
                    /\ TriesLeft \in Nat
  OBVIOUS
<1>1. /\ pcd.i \in 1..SendChunks /\ pcd.tries \in 0..MAX_RETRIES /\ lost \in 0..MaxLoss
      /\ picc.tx \in 0..RecvChunks /\ picc.wtx \in 0..MaxWtx
  BY Zenon DEF SessionTypes, Readers, Answerers
<1>2. {MaxLoss, SendChunks, RecvChunks, MaxWtx, MAX_RETRIES} \subseteq Nat
  BY SessionAssumption
<1>3. StageLeft \in {0, 1, 2}
  BY DEF StageLeft
<1>4. SendChunks - pcd.i \in Nat /\ MaxWtx - picc.wtx \in Nat /\ RecvChunks - picc.tx \in Nat
  BY <1>1, <1>2
<1>5. /\ MAX_RETRIES + 1 - pcd.tries \in Nat /\ MAX_RETRIES - pcd.tries \in Nat
      /\ (MAX_RETRIES + 1) + MAX_RETRIES - pcd.tries \in Nat
      /\ 0 + MAX_RETRIES - pcd.tries \in Nat
  BY <1>1, <1>2
<1>6. MaxLoss - lost \in Nat
  BY <1>1, <1>2
<1>7. ChunksLeft \in Nat
  BY <1>3, <1>4 DEF ChunksLeft
<1>8. TriesLeft \in Nat
  <2>1. CASE StageLeft = 2
    BY <1>5, <2>1 DEF TriesLeft
  <2>2. CASE StageLeft = 1
    BY <1>5, <2>2 DEF TriesLeft
  <2>3. CASE StageLeft = 0
    <3>1. TriesLeft = (IF picc.bn = pcd.bn THEN MAX_RETRIES + 1 ELSE 0) + MAX_RETRIES - pcd.tries
      BY <2>3 DEF TriesLeft
    <3> QED BY <1>5, <3>1, Zenon
  <2> QED BY <1>3, <2>1, <2>2, <2>3
<1> QED BY <1>3, <1>6, <1>7, <1>8

(* What each reaction of the reader leaves of the exchange.                  *)
LEMMA FailureGoesOn ==
  ASSUME SessionTypes, Failed, pcd.at \in {"send", "recv"}
  PROVE  \/ outcome' # "busy"
         \/ /\ pcd'.at = pcd.at /\ pcd'.i = pcd.i /\ pcd'.bn = pcd.bn
            /\ pcd'.reply = pcd.reply /\ pcd'.tries = pcd.tries + 1
<1>1. CASE End("err")
  BY <1>1 DEF End
<1>2. CASE pcd' = [pcd EXCEPT !.tries = @ + 1]
  BY <1>2, Zenon DEF SessionTypes, Readers
<1> QED BY <1>1, <1>2, Zenon DEF Failed

LEMMA AcknowledgementGoesOn ==
  ASSUME SessionTypes, NEW a \in AnyBlock, Acknowledged(a), pcd.at = "send"
  PROVE  \/ outcome' # "busy"
         \/ /\ a.type = "ACK" /\ pcd'.at = "send" /\ pcd'.tries = 0
            /\ pcd'.i = IF a.bn = pcd.bn THEN pcd.i + 1 ELSE pcd.i
<1>1. CASE a.type = "ACK" /\ a.bn = pcd.bn
  <2>1. pcd' = [Toggled EXCEPT !.i = @ + 1]
    BY <1>1, Zenon DEF Acknowledged
  <2>2. pcd'.at = "send" /\ pcd'.tries = 0 /\ pcd'.i = pcd.i + 1
    BY <2>1, Zenon DEF Toggled, SessionTypes, Readers
  <2> QED BY <1>1, <2>2, Zenon
<1>2. CASE a.type = "ACK" /\ a.bn # pcd.bn
  <2>1. pcd' = [pcd EXCEPT !.tries = 0]
    BY <1>2, Zenon DEF Acknowledged
  <2>2. pcd'.at = "send" /\ pcd'.tries = 0 /\ pcd'.i = pcd.i
    BY <2>1, Zenon DEF SessionTypes, Readers
  <2> QED BY <1>2, <2>2, Zenon
<1>3. CASE a.type # "ACK"
  BY <1>3 DEF Acknowledged, End
<1> QED BY <1>1, <1>2, <1>3

LEMMA CollectionGoesOn ==
  ASSUME SessionTypes, NEW a \in AnyBlock, Collect(a)
  PROVE  \/ outcome' # "busy"
         \/ /\ pcd'.at = "recv" /\ pcd'.tries = 0
            /\ \/ /\ a.type = "I" /\ a.bn = pcd.bn /\ pcd'.bn = 1 - pcd.bn
                  /\ pcd'.reply.type = "ACK"
               \/ a.type = "WTX" /\ pcd'.reply.type = "WTX"
<1>0. a.type \in {"I", "ACK", "NAK", "WTX", "none"} /\ a.more \in BOOLEAN
  BY DEF AnyBlock
<1>1. CASE a.type = "I" /\ a.bn = pcd.bn /\ a.more
  <2>1. pcd' = [[Toggled EXCEPT !.got = Append(@, a.chunk)] EXCEPT
                  !.at = "recv", !.reply = RBlock("ACK", 1 - pcd.bn), !.tries = 0]
    BY <1>1, Zenon DEF Collect, Reply
  <2>2. /\ pcd'.at = "recv" /\ pcd'.tries = 0 /\ pcd'.bn = 1 - pcd.bn
        /\ pcd'.reply = RBlock("ACK", 1 - pcd.bn)
    BY <2>1, Zenon DEF Toggled, SessionTypes, Readers
  <2>3. RBlock("ACK", 1 - pcd.bn).type = "ACK"
    BY DEF RBlock
  <2> QED BY <1>1, <2>2, <2>3, Zenon
<1>2. CASE a.type = "I" /\ a.bn = pcd.bn /\ ~a.more
  BY <1>2 DEF Collect
<1>3. CASE a.type = "WTX"
  <2>1. pcd' = [pcd EXCEPT !.at = "recv", !.reply = WtxBlock, !.tries = 0]
    BY <1>3 DEF Collect, Reply
  <2>2. pcd'.at = "recv" /\ pcd'.tries = 0 /\ pcd'.reply = WtxBlock
    BY <2>1, Zenon DEF SessionTypes, Readers
  <2>3. WtxBlock.type = "WTX"
    BY DEF WtxBlock, RBlock
  <2> QED BY <1>3, <2>2, <2>3, Zenon
<1>4. CASE a.type # "WTX" /\ ~(a.type = "I" /\ a.bn = pcd.bn)
  BY <1>4 DEF Collect, End
<1> QED BY <1>0, <1>1, <1>2, <1>3, <1>4

(* What is left after the reader has failed to get an answer it can use:     *)
(* one try less, as long as the block was not sent for the first time.       *)
Advances == outcome' # "busy" \/ Less(Remaining', Remaining)

LEMMA Compared ==
  ASSUME SessionTypes, SessionTypes',
         \/ MaxLoss - lost' < MaxLoss - lost
         \/ /\ lost' = lost
            /\ \/ StageLeft' < StageLeft
               \/ StageLeft' = StageLeft /\ ChunksLeft' < ChunksLeft
               \/ StageLeft' = StageLeft /\ ChunksLeft' = ChunksLeft /\ TriesLeft' < TriesLeft
  PROVE  Less(Remaining', Remaining)
<1>1. Remaining' = <<MaxLoss - lost', StageLeft', ChunksLeft', TriesLeft'>>
  BY Zenon DEF Remaining
<1>2. /\ MaxLoss - lost \in Nat /\ StageLeft \in Nat /\ ChunksLeft \in Nat /\ TriesLeft \in Nat
  BY RemainingIsNatural
<1>3. (/\ MaxLoss - lost \in Nat /\ StageLeft \in Nat /\ ChunksLeft \in Nat /\ TriesLeft \in Nat)'
  BY RemainingIsNatural, PTL
<1> QED BY <1>1, <1>2, <1>3, LessOfFour, Zenon DEF Remaining

(* The steps of the exchange, by what the reader does with the answer.       *)
LEMMA FailureAdvances ==
  ASSUME SessionTypes, SessionTypes', Failed, pcd.at \in {"send", "recv"},
         \/ lost' = lost + 1
         \/ lost' = lost /\ picc' = picc /\ (pcd.at = "send" => pcd.tries # 0)
  PROVE  Advances
<1> SUFFICES ASSUME outcome' = "busy" PROVE Less(Remaining', Remaining)
  BY DEF Advances
<1>1. /\ pcd'.at = pcd.at /\ pcd'.i = pcd.i /\ pcd'.bn = pcd.bn
      /\ pcd'.reply = pcd.reply /\ pcd'.tries = pcd.tries + 1
  BY FailureGoesOn
<1>2. /\ lost \in Nat /\ MaxLoss \in Nat /\ MAX_RETRIES \in Nat /\ pcd.tries \in Nat
      /\ picc.bn \in {0, 1}
  BY SessionAssumption DEF SessionTypes, Readers, Answerers
<1>3. CASE lost' = lost + 1
  <2>1. MaxLoss - lost' < MaxLoss - lost
    BY <1>2, <1>3
  <2> QED BY <2>1, Compared
<1>4. CASE lost' = lost /\ picc' = picc /\ (pcd.at = "send" => pcd.tries # 0)
  <2>1. StageLeft' = StageLeft /\ StageLeft \in {0, 1, 2} /\ (StageLeft = 2 => pcd.at = "send")
    BY <1>1 DEF StageLeft
  <2>2. ChunksLeft' = ChunksLeft
    BY <1>1, <1>4, <2>1 DEF ChunksLeft
  <2>3. TriesLeft' < TriesLeft
    <3>1. CASE StageLeft = 2
      <4>1. TriesLeft = MAX_RETRIES + 1 - pcd.tries
        BY <1>4, <2>1, <3>1 DEF TriesLeft
      <4>2. TriesLeft' = MAX_RETRIES + 1 - (pcd.tries + 1)
        BY <1>1, <1>2, <2>1, <3>1 DEF TriesLeft
      <4> QED BY <1>2, <4>1, <4>2
    <3>2. CASE StageLeft = 1
      <4>1. TriesLeft = MAX_RETRIES - pcd.tries /\ TriesLeft' = MAX_RETRIES - (pcd.tries + 1)
        BY <1>1, <2>1, <3>2 DEF TriesLeft
      <4> QED BY <1>2, <4>1
    <3>3. CASE StageLeft = 0
      <4> DEFINE unseen == IF picc.bn = pcd.bn THEN MAX_RETRIES + 1 ELSE 0
      <4>1. TriesLeft = unseen + MAX_RETRIES - pcd.tries
        BY <3>3 DEF TriesLeft
      <4>2. TriesLeft' = unseen + MAX_RETRIES - (pcd.tries + 1)
        BY <1>1, <1>4, <2>1, <3>3 DEF TriesLeft
      <4>3. unseen \in Nat
        BY <1>2
      <4> HIDE DEF unseen
      <4> QED BY <1>2, <4>1, <4>2, <4>3
    <3> QED BY <2>1, <3>1, <3>2, <3>3
  <2> QED BY <1>4, <2>1, <2>2, <2>3, Compared
<1> QED BY <1>3, <1>4

LEMMA AcknowledgementAdvances ==
  ASSUME SessionTypes, SessionTypes', NEW a \in AnyBlock, Acknowledged(a), pcd.at = "send",
         lost' = lost, pcd.tries = 0 => (a.type = "ACK" => a.bn = pcd.bn)
  PROVE  Advances
<1> SUFFICES ASSUME outcome' = "busy" PROVE Less(Remaining', Remaining)
  BY DEF Advances
<1>1. /\ a.type = "ACK" /\ pcd'.at = "send" /\ pcd'.tries = 0
      /\ pcd'.i = IF a.bn = pcd.bn THEN pcd.i + 1 ELSE pcd.i
  BY AcknowledgementGoesOn
<1>2. /\ MAX_RETRIES \in Nat /\ pcd.tries \in 0..MAX_RETRIES
      /\ SendChunks \in Nat /\ pcd.i \in Nat
  BY SessionAssumption DEF SessionTypes, Readers
<1>3. StageLeft = 2 /\ StageLeft' = 2
  BY <1>1 DEF StageLeft
<1>4. ChunksLeft = SendChunks - pcd.i /\ ChunksLeft' = SendChunks - pcd'.i
  BY <1>3 DEF ChunksLeft
<1>5. CASE a.bn = pcd.bn
  <2>1. ChunksLeft' < ChunksLeft
    BY <1>1, <1>2, <1>4, <1>5
  <2> QED BY <1>3, <2>1, Compared
<1>6. CASE a.bn # pcd.bn
  <2>1. pcd.tries # 0 /\ ChunksLeft' = ChunksLeft
    BY <1>1, <1>4, <1>6
  <2>2. TriesLeft' = 0 /\ TriesLeft = MAX_RETRIES + 1 - pcd.tries
    BY <1>1, <1>3, <2>1 DEF TriesLeft
  <2>3. TriesLeft' < TriesLeft
    BY <1>2, <2>2
  <2> QED BY <1>3, <2>1, <2>3, Compared
<1> QED BY <1>5, <1>6

(* What the card moves on by while the reader receives.                      *)
MovesOn(r) ==
  \/ pcd.reply.type = "WTX" /\ (r.answer.type = "WTX" => r.picc.wtx = picc.wtx + 1)
  \/ /\ pcd.reply.type = "ACK" /\ r.answer.type = "I"
     /\ r.picc.tx = picc.tx + 1 \/ (r.picc = picc /\ picc.bn = pcd.bn)

LEMMA CollectionAdvances ==
  ASSUME SessionTypes, SessionTypes', NEW r, r.answer \in AnyBlock, Collect(r.answer),
         picc' = r.picc, pcd.at \in {"send", "recv"}, lost' = lost, pcd.at = "recv" => MovesOn(r)
  PROVE  Advances
<1> SUFFICES ASSUME outcome' = "busy" PROVE Less(Remaining', Remaining)
  BY DEF Advances
<1>1. /\ pcd'.at = "recv" /\ pcd'.tries = 0
      /\ \/ /\ r.answer.type = "I" /\ r.answer.bn = pcd.bn /\ pcd'.bn = 1 - pcd.bn
            /\ pcd'.reply.type = "ACK"
         \/ r.answer.type = "WTX" /\ pcd'.reply.type = "WTX"
  BY CollectionGoesOn
<1>2. /\ MAX_RETRIES \in Nat /\ pcd.tries \in 0..MAX_RETRIES /\ pcd.bn \in {0, 1}
      /\ picc.tx \in Nat /\ picc.wtx \in Nat /\ RecvChunks \in Nat /\ MaxWtx \in Nat
  BY SessionAssumption DEF SessionTypes, Readers, Answerers
<1>3. /\ StageLeft' = IF r.answer.type = "WTX" THEN 1 ELSE 0
  BY <1>1 DEF StageLeft
<1>4. CASE pcd.at = "send"
  <2>1. StageLeft = 2
    BY <1>4 DEF StageLeft
  <2> QED BY <1>3, <2>1, Compared
<1>5. CASE pcd.at = "recv" /\ pcd.reply.type = "WTX"
  <2>1. StageLeft = 1
    BY <1>5 DEF StageLeft
  <2>2. CASE r.answer.type = "WTX"
    <3>1. StageLeft' = 1 /\ picc'.wtx = picc.wtx + 1
      BY <1>3, <1>5, <2>2 DEF MovesOn
    <3>2. ChunksLeft = MaxWtx - picc.wtx /\ ChunksLeft' = MaxWtx - (picc.wtx + 1)
      BY <2>1, <3>1 DEF ChunksLeft
    <3>3. ChunksLeft' < ChunksLeft
      BY <1>2, <3>2
    <3> QED BY <2>1, <3>1, <3>3, Compared
  <2>3. CASE r.answer.type # "WTX"
    BY <1>3, <2>1, <2>3, Compared
  <2> QED BY <2>2, <2>3
<1>6. CASE pcd.at = "recv" /\ pcd.reply.type # "WTX"
  <2>1. StageLeft = 0 /\ r.answer.type = "I" /\ StageLeft' = 0 /\ pcd'.bn = 1 - pcd.bn
    BY <1>1, <1>3, <1>6 DEF StageLeft, MovesOn
  <2>2. ChunksLeft = RecvChunks - picc.tx /\ ChunksLeft' = RecvChunks - picc'.tx
    BY <2>1 DEF ChunksLeft
  <2>3. CASE picc'.tx = picc.tx + 1
    <3>1. ChunksLeft' < ChunksLeft
      BY <1>2, <2>2, <2>3
    <3> QED BY <2>1, <3>1, Compared
  <2>4. CASE picc' = picc /\ picc.bn = pcd.bn
    <3>1. picc'.bn # pcd'.bn /\ ChunksLeft' = ChunksLeft
      BY <1>2, <2>1, <2>2, <2>4
    <3>2. TriesLeft = (MAX_RETRIES + 1) + MAX_RETRIES - pcd.tries
      BY <2>1, <2>4 DEF TriesLeft
    <3>3. TriesLeft' = 0 + MAX_RETRIES - 0
      BY <1>1, <2>1, <3>1 DEF TriesLeft
    <3>4. TriesLeft' < TriesLeft
      BY <1>2, <3>2, <3>3
    <3> QED BY <2>1, <3>1, <3>4, Compared
  <2> QED BY <1>6, <2>3, <2>4 DEF MovesOn
<1> QED BY <1>4, <1>5, <1>6

LEMMA WtxAnswered ==
  ASSUME picc \in Piccs, NEW b \in AnyBlock, b.type = "WTX", NEW r \in Reactions(b)
  PROVE  \/ r.picc = picc /\ r.answer = NoBlock
         \/ r.answer.type = "I"
         \/ r.answer.type = "WTX" /\ r.picc.wtx = picc.wtx + 1
<1>1. r = Chunk(picc, 1) \/ r \in Extension(picc) \/ r = [picc |-> picc, answer |-> NoBlock]
  BY DEF Reactions, OnWtx
<1>2. CASE r = Chunk(picc, 1)
  BY <1>2, ChunkTypes
<1>3. CASE r \in Extension(picc)
  <2> DEFINE q == [picc EXCEPT !.wtx = @ + 1]
  <2>1. q \in Piccs /\ q.wtx = picc.wtx + 1
    BY DEF Piccs
  <2>2. r = Answer(q, WtxBlock)
    BY <1>3 DEF Extension
  <2>3. WtxBlock \in AnyBlock /\ WtxBlock.type = "WTX"
    BY BlockTypes DEF WtxBlock, RBlock
  <2> HIDE DEF q
  <2>4. r.picc = [q EXCEPT !.last = WtxBlock] /\ r.answer = WtxBlock
    BY <2>2 DEF Answer
  <2>5. r.picc.wtx = q.wtx
    BY <2>1, <2>4, Zenon DEF Piccs
  <2> QED BY <2>1, <2>3, <2>4, <2>5
<1> QED BY <1>1, <1>2, <1>3

LEMMA ArrivalAdvances ==
  ASSUME ExchangeInv, ExactInv, SessionTypes, SessionTypes', Arrives PROVE Advances
<1>0. /\ pcd.at \in {"send", "recv"} /\ lost' = lost /\ picc \in Piccs /\ pcd \in Pcds
      /\ picc.bn \in {0, 1} /\ pcd.bn \in {0, 1} /\ pcd.i \in 1..SendChunks
      /\ SendChunks \in Nat /\ NoBlock.type = "none" /\ Numbered(picc, picc.last)
  BY SessionAssumption, Zenon DEF Arrives, ExchangeInv, Piccs, Pcds, NoBlock, RBlock
<1>1. PICK r \in Reactions(Block) :
        /\ picc' = r.picc
        /\ IF r.answer = NoBlock THEN Failed
           ELSE IF pcd.at = "send" /\ pcd.i < SendChunks THEN Acknowledged(r.answer)
           ELSE Collect(r.answer)
  BY Zenon DEF Arrives
<1>2. Block \in AnyBlock /\ Block.type # "none"
  BY <1>0, BlockSent
<1>3. r.answer \in AnyBlock /\ Numbered(r.picc, r.answer)
      /\ (Block.type = "I" => r.picc.bn = 1 - picc.bn)
  BY <1>0, <1>2, CardReacts
<1>4. CASE pcd.at = "send" /\ pcd.tries # 0
  <2>1. picc' = picc
    BY <1>1, <1>2, <1>4, BlockSent, TakesNak
  <2>2. CASE Failed
    BY <1>0, <1>4, <2>1, <2>2, FailureAdvances
  <2>3. CASE Acknowledged(r.answer)
    BY <1>0, <1>3, <1>4, <2>3, AcknowledgementAdvances
  <2>4. CASE Collect(r.answer)
    BY <1>0, <1>1, <1>3, <1>4, <2>4, CollectionAdvances
  <2> QED BY <1>1, <2>2, <2>3, <2>4
<1>5. CASE pcd.at = "send" /\ pcd.tries = 0
  <2>1. Block.type = "I" /\ (Block.more <=> pcd.i < SendChunks) /\ picc.bn # pcd.bn
    BY <1>5, BlockSent DEF ExchangeInv
  <2>2. CASE Block.more
    <3>1. r.answer.type = "ACK" /\ r.answer.bn = pcd.bn
      BY <1>0, <1>2, <1>3, <2>1, <2>2, TakesIBlock DEF Numbered
    <3>2. Acknowledged(r.answer)
      BY <1>0, <1>1, <1>5, <2>1, <2>2, <3>1, Zenon
    <3> QED BY <1>0, <1>3, <1>5, <3>1, <3>2, AcknowledgementAdvances
  <2>3. CASE ~Block.more
    <3>1. Beginning(Block.chunk[1], r.picc) /\ r.answer = r.picc.last
      BY <1>0, <1>2, <2>1, <2>3, TakesIBlock
    <3>2. r.answer # NoBlock
      BY <1>0, <3>1 DEF Beginning, Answering, IBlock, WtxBlock, RBlock
    <3>3. Collect(r.answer)
      BY <1>1, <2>1, <2>3, <3>2
    <3> QED BY <1>0, <1>1, <1>3, <1>5, <3>3, CollectionAdvances
  <2> QED BY <2>2, <2>3
<1>6. CASE pcd.at = "recv" /\ pcd.reply.type = "WTX"
  <2>1. Block.type = "WTX"
    BY <1>6 DEF Block
  <2>2. \/ r.picc = picc /\ r.answer = NoBlock
        \/ r.answer.type = "I"
        \/ r.answer.type = "WTX" /\ r.picc.wtx = picc.wtx + 1
    BY <1>0, <1>2, <2>1, WtxAnswered
  <2>3. CASE r.answer = NoBlock
    <3>1. picc' = picc /\ Failed
      BY <1>0, <1>1, <2>2, <2>3
    <3> QED BY <1>0, <1>6, <3>1, FailureAdvances
  <2>4. CASE r.answer # NoBlock
    <3>1. Collect(r.answer) /\ MovesOn(r)
      BY <1>1, <1>6, <2>2, <2>4 DEF MovesOn
    <3> QED BY <1>0, <1>1, <1>3, <3>1, CollectionAdvances
  <2> QED BY <2>3, <2>4
<1>7. CASE pcd.at = "recv" /\ pcd.reply.type # "WTX"
  <2>1. pcd.reply.type = "ACK" /\ Block = pcd.reply
    BY <1>7 DEF Block, ExchangeInv
  <2>2. Block.bn = pcd.bn /\ picc.last.type = "I"
    <3>1. InRecv(call, picc, pcd)
      BY <1>7, Zenon DEF ExactInv, Fits
    <3>2. pcd.reply.bn = pcd.bn /\ \E n : Answering(call, picc, n)
      BY <2>1, <3>1, Zenon DEF InRecv
    <3>3. PICK n : Answering(call, picc, n)
      BY <3>2
    <3>4. picc.last = IBlock(picc.bn, n < RecvChunks, <<call, n>>)
      BY <3>3, Zenon DEF Answering
    <3>5. IBlock(picc.bn, n < RecvChunks, <<call, n>>).type = "I"
      BY DEF IBlock
    <3> QED BY <2>1, <3>2, <3>4, <3>5, Zenon
  <2>3. \/ picc.bn = pcd.bn /\ r.picc = picc /\ r.answer.type = "I"
        \/ r.picc = picc /\ r.answer = NoBlock
        \/ r.answer.type = "I" /\ r.picc.tx = picc.tx + 1
    <3>1. \/ Block.bn = picc.bn /\ r.picc = picc /\ r.answer = picc.last
          \/ r.picc = picc /\ r.answer = NoBlock
          \/ r.answer = r.picc.last /\ Answering(picc.apdu, r.picc, picc.tx + 1)
      BY <1>0, <1>2, <2>1, TakesAck, Zenon
    <3>2. CASE r.answer = r.picc.last /\ Answering(picc.apdu, r.picc, picc.tx + 1)
      BY <3>2 DEF Answering, IBlock
    <3> QED BY <2>2, <3>1, <3>2, Zenon
  <2>4. CASE r.answer = NoBlock
    <3>1. picc' = picc /\ Failed
      BY <1>0, <1>1, <2>3, <2>4
    <3> QED BY <1>0, <1>7, <3>1, FailureAdvances
  <2>5. CASE r.answer # NoBlock
    <3>1. Collect(r.answer) /\ MovesOn(r)
      BY <1>1, <1>7, <2>1, <2>3, <2>5 DEF MovesOn
    <3> QED BY <1>0, <1>1, <1>3, <3>1, CollectionAdvances
  <2> QED BY <2>4, <2>5
<1> QED BY <1>0, <1>4, <1>5, <1>6, <1>7

(* Every transceive brings the exchange nearer to its end, for chains of any *)
(* length and any number of retries, losses and extensions.                  *)
THEOREM ExchangeComesToItsEnd == ASSUME Reactivates PROVE SessionSpec => StepsAdvance
<1>1. ASSUME ExchangeInv, ExactInv, SessionTypes, SessionTypes', SessionStep PROVE Advances
  <2>1. CASE Arrives
    BY <1>1, <2>1, ArrivalAdvances
  <2>2. CASE AnswerLost \/ BlockLost
    <3>1. pcd.at \in {"send", "recv"} /\ lost' = lost + 1 /\ Failed
      BY <2>2, Zenon DEF AnswerLost, BlockLost
    <3> QED BY <1>1, <3>1, FailureAdvances
  <2> QED BY <1>1, <2>1, <2>2 DEF SessionStep
<1>2. ExchangeInv /\ ExactInv /\ SessionTypes /\ SessionTypes'
        => (SessionStep => outcome' # "busy" \/ Less(Remaining', Remaining))
  BY <1>1, Zenon DEF Advances
<1> QED
  BY <1>2, ExchangeInvariant, ExactInvariant, SessionTypesHold, PTL DEF StepsAdvance

------------------------------------------------------------------------------
(* The secure channel                                                        *)

(* The record of a command, whatever the values of its fields                *)
IsCommand(c) == /\ DOMAIN c = {"op", "file", "mode", "len", "done", "src", "todo"}
                /\ c = [x \in DOMAIN c |-> c[x]]

(* What a command has yet to send: it selects before anything else, first    *)
(* the application and then the file.                                        *)
Programs(c) ==
  /\ IsCommand(c) /\ c.file \in Files \cup {NoFile} /\ c.todo \in Seq(Apdus)
  /\ \A i \in 2..Len(c.todo) :
       c.todo[i] # "select" /\ (c.todo[i] = "ef" => i = 2 /\ c.todo[1] = "select")
  /\ c.op = "authenticate" => c.todo \in {<<>>, <<"part2">>, <<"part1", "part2">>}

(* Tag and session agree.  What makes them: a session that is in the middle   *)
(* of a command has not been told of an error, an application is selected    *)
(* once in a session, and the tag, while it waits for the second part of an  *)
(* authentication inside the session, still holds the keys of the session.   *)
ChannelInv ==
  /\ host \in SessionValue /\ tag \in Tag /\ shake \in Nat
  /\ Programs(cmd)
  /\ host.kind = "authenticated" => host.keys # 0
  /\ host.ef # NoFile => host.app
  /\ cmd.todo # <<>> =>
       /\ cause \in {"none", "behind"}
       /\ Head(cmd.todo) = "select" => ~host.app
       /\ Head(cmd.todo) = "ef" => host.app
       /\ cmd.op \in Borrowed => host.kind = "unauthenticated"
       /\ cmd.op \in {"authenticate_aes", "authenticate"} => shake # 0
       /\ cmd.op = "authenticate" /\ Head(cmd.todo) = "part2" /\ tag.pending
            => tag.keys = host.keys
  /\ ChannelInStep

(* A new session with a tag that has just been powered up agrees with it.    *)
LEMMA ChannelBegins == ChannelInit => ChannelInv
<1> SUFFICES ASSUME ChannelInit PROVE ChannelInv
  OBVIOUS
<1>1. host \in SessionValue /\ host.kind = "unauthenticated" /\ host.ef = NoFile /\ ~host.app
  BY DEF ChannelInit, NewSession, SessionValue
<1>2. tag \in Tag
  <2> PICK e \in BOOLEAN : tag = PoweredUp(e)
    BY DEF ChannelInit
  <2> QED
    BY DEF PoweredUp, Tag
<1>3. IsCommand(cmd) /\ cmd.op = "none" /\ cmd.file = NoFile /\ cmd.todo = <<>>
  BY Zenon DEF ChannelInit, IsCommand
<1>4. Programs(cmd)
  BY <1>3 DEF Programs
<1> QED
  BY <1>1, <1>2, <1>3, <1>4 DEF ChannelInit, ChannelInv, ChannelInStep, InStep, SelectionIsTrue

(* A command begins with nothing but its first APDU able to select.          *)
LEMMA Invoked ==
  ASSUME ChannelInv, NEW op \in SessionOps, NEW f \in Files \cup {NoFile},
         NEW m, NEW n, NEW todo \in Seq(Apdus),
         Invoke(op, f, m, n, todo), shake' \in Nat,
         \A i \in 2..Len(todo) :
           todo[i] # "select" /\ (todo[i] = "ef" => i = 2 /\ todo[1] = "select"),
         todo # <<>>, todo[1] = "select" => ~host.app, todo[1] = "ef" => host.app,
         op \in Borrowed => host.kind = "unauthenticated",
         op \in {"authenticate_aes", "authenticate"} => shake' # 0,
         op = "authenticate" => todo = <<"part1", "part2">>
  PROVE  ChannelInv'
<1>1. /\ host' = host /\ tag' = tag
      /\ cmd' = [op |-> op, file |-> f, mode |-> m, len |-> n, done |-> 0, src |-> {},
                 todo |-> todo]
  BY DEF Invoke
<1>2. Programs(cmd')
  BY <1>1, Zenon DEF Programs, IsCommand
<1>3. ChannelInStep'
  BY <1>1, Zenon DEF ChannelInv, ChannelInStep, InStep, SelectionIsTrue, Invoke
<1>4. Head(cmd'.todo) = todo[1] /\ (op = "authenticate" => todo[1] = "part1")
  BY <1>1
<1>5. cmd'.op = op /\ cmd'.todo = todo
  BY <1>1, Zenon
<1>6. cause' \in {"none", "behind"}
  BY Zenon DEF Invoke
<1>7. todo[1] # "part2" \/ op # "authenticate"
  BY <1>4
<1> QED
  BY <1>1, <1>2, <1>3, <1>4, <1>5, <1>6, <1>7, Zenon DEF ChannelInv

(* What is left of a command when one APDU is done, or one chunk more moved. *)
LEMMA Leaves ==
  ASSUME Programs(cmd), ~Idle, NEW n
  PROVE  \A c \in {Done(cmd), Took(n), Put} :
           /\ Programs(c) /\ c.op = cmd.op /\ c.file = cmd.file
           /\ c.todo = cmd.todo \/ c.todo = Tail(cmd.todo)
<1> DEFINE Same(c) == /\ IsCommand(c) /\ c.op = cmd.op /\ c.file = cmd.file /\ c.todo = cmd.todo
<1>1. ASSUME NEW c, Same(c)
      PROVE  /\ Programs(c)
             /\ Programs(Done(c)) /\ Done(c).op = cmd.op /\ Done(c).file = cmd.file
             /\ Done(c).todo = Tail(cmd.todo)
  <2>1. IsCommand(Done(c)) /\ Done(c).op = cmd.op /\ Done(c).file = cmd.file
        /\ Done(c).todo = Tail(cmd.todo)
    BY <1>1, Zenon DEF Done, IsCommand
  <2>2. Tail(cmd.todo) \in Seq(Apdus)
        /\ \A i \in 2..Len(Tail(cmd.todo)) : Tail(cmd.todo)[i] \notin {"select", "ef"}
    BY DEF Programs, Idle
  <2>3. ASSUME cmd.op = "authenticate" PROVE Tail(cmd.todo) \in {<<>>, <<"part2">>}
    <3>1. cmd.todo = <<"part2">> \/ cmd.todo = <<"part1", "part2">>
      BY <2>3 DEF Programs, Idle
    <3>2. Tail(<<"part2">>) = <<>> /\ Tail(<<"part1", "part2">>) = <<"part2">>
      OBVIOUS
    <3> QED
      BY <3>1, <3>2, Zenon
  <2> QED
    BY <1>1, <2>1, <2>2, <2>3 DEF Programs
<1>2. Same(cmd)
  BY DEF Programs
<1>3. Same([cmd EXCEPT !.done = @ + n, !.src = @ \cup {tag.ef}])
  BY Zenon DEF Programs, IsCommand
<1>4. Same([cmd EXCEPT !.done = @ + ChunkLen])
  BY DEF Programs, IsCommand
<1>5. /\ Programs(Done(cmd)) /\ Done(cmd).op = cmd.op /\ Done(cmd).file = cmd.file
      /\ Done(cmd).todo = Tail(cmd.todo)
  BY <1>1, <1>2
<1> HIDE DEF Same
<1>6. /\ Programs(Took(n)) /\ Took(n).op = cmd.op /\ Took(n).file = cmd.file
      /\ Took(n).todo = cmd.todo \/ Took(n).todo = Tail(cmd.todo)
  <2> DEFINE c == [cmd EXCEPT !.done = @ + n, !.src = @ \cup {tag.ef}]
  <2>1. Took(n) = Done(c) \/ Took(n) = c
    BY DEF Took
  <2>2. Same(c)
    BY <1>3
  <2> HIDE DEF c
  <2> QED
    BY <2>1, <2>2, <1>1 DEF Same
<1>7. /\ Programs(Put) /\ Put.op = cmd.op /\ Put.file = cmd.file
      /\ Put.todo = cmd.todo \/ Put.todo = Tail(cmd.todo)
  <2> DEFINE c == [cmd EXCEPT !.done = @ + ChunkLen]
  <2>1. Put = Done(c) \/ Put = c
    BY DEF Put
  <2>2. Same(c)
    BY <1>4
  <2> HIDE DEF c
  <2> QED
    BY <2>1, <2>2, <1>1 DEF Same
<1> QED
  BY <1>5, <1>6, <1>7

(* The session is dropped, or is one that was never authenticated.           *)
LEMMA Abandons ==
  ASSUME ChannelInv, ~Idle, NEW why, Abandon(why), tag' \in Tag, shake' = shake,
         cause' # "behind" => (host.app => tag'.app) /\ (host.ef # NoFile => tag'.ef = host.ef)
  PROVE  ChannelInv'
<1>1. Programs(cmd') /\ cmd'.todo = <<>>
  BY DEF ChannelInv, Programs, IsCommand, Abandon
<1>2. host' = NoSession \/ (host' = host /\ host.kind = "unauthenticated")
  BY DEF ChannelInv, Abandon, Idle
<1>3. NoSession \in SessionValue /\ NoSession.kind = "gone" /\ ~NoSession.app /\ NoSession.ef = NoFile
  BY Zenon DEF NoSession, NewSession, SessionValue
<1>4. host' \in SessionValue /\ host'.kind # "authenticated" /\ (host'.ef # NoFile => host'.app)
  BY <1>2, <1>3 DEF ChannelInv
<1>5. SelectionIsTrue'
  BY <1>2, <1>3 DEF SelectionIsTrue
<1> QED
  BY <1>1, <1>4, <1>5 DEF ChannelInv, ChannelInStep, InStep

(* The command goes on, with the session h.                                  *)
LEMMA Proceeds ==
  ASSUME ChannelInv, ~Idle, NEW c, NEW h \in SessionValue, Proceed(c, h),
         tag' \in Tag, shake' = shake,
         Programs(c), c.op = cmd.op,
         c.todo = Tail(cmd.todo) \/ (c.todo = cmd.todo /\ Apdu \in Data),
         h.kind = "authenticated" => h.keys # 0 /\ (tag'.keys = h.keys => tag'.ctr = h.ctr),
         h.ef # NoFile => h.app,
         cmd.op \in Borrowed => h.kind = "unauthenticated",
         cmd.op = "authenticate" /\ Apdu = "part1" => tag'.keys = h.keys,
         Apdu = "select" => h.app,
         cause # "behind" => (h.app => tag'.app) /\ (h.ef # NoFile => tag'.ef = h.ef)
  PROVE  ChannelInv'
<1>1. cmd' = c /\ host' = h /\ cause' = cause
  BY Zenon DEF Proceed
<1>2. ASSUME c.todo # <<>>
      PROVE  /\ Head(c.todo) # "select" /\ (Head(c.todo) = "ef" => h.app)
             /\ c.op = "authenticate" /\ Head(c.todo) = "part2" => Apdu = "part1"
  <2>1. CASE c.todo = Tail(cmd.todo)
    <3>0. cmd.todo \in Seq(Apdus) /\ cmd.todo # <<>> /\ Tail(cmd.todo) # <<>>
      BY <1>2, <2>1, Zenon DEF ChannelInv, Programs, Idle
    <3>1. Head(Tail(cmd.todo)) = cmd.todo[2] /\ Head(cmd.todo) = cmd.todo[1] /\ 2 \in 2..Len(cmd.todo)
      BY <3>0
    <3>2. c.op = "authenticate" => cmd.todo = <<"part1", "part2">>
      <4>1. Tail(<<"part2">>) = <<>>
        OBVIOUS
      <4> QED
        BY <3>0, <4>1, Zenon DEF ChannelInv, Programs
    <3>3. cmd.todo[2] # "select" /\ (cmd.todo[2] = "ef" => cmd.todo[1] = "select")
      BY <3>1, Zenon DEF ChannelInv, Programs
    <3>4. c.op = "authenticate" => cmd.todo[1] = "part1"
      BY <3>2
    <3> QED
      BY <2>1, <3>1, <3>3, <3>4, Zenon DEF Apdu
  <2>2. CASE c.todo = cmd.todo /\ Apdu \in Data
    BY <2>2, Zenon DEF Apdu, Data
  <2> QED
    BY <2>1, <2>2, Zenon
<1>3. ChannelInStep'
  BY <1>1, Zenon DEF ChannelInStep, InStep, SelectionIsTrue
<1>4. /\ cmd.op \in {"authenticate_aes", "authenticate"} => shake # 0
      /\ cause \in {"none", "behind"}
  BY DEF ChannelInv, Idle
<1> QED
  BY <1>1, <1>2, <1>3, <1>4, Zenon DEF ChannelInv

(* Only selecting changes what is selected.                                  *)
LEMMA Reacts ==
  ASSUME ChannelInv, ~Idle
  PROVE  /\ Reaction \in Tag /\ Errs \in Tag
         /\ Errs.app = tag.app /\ Errs.ef = tag.ef
         /\ Apdu \notin {"select", "ef"} => Reaction.app = tag.app /\ Reaction.ef = tag.ef
         /\ Apdu = "select" => Reaction.app /\ Reaction.ef = NoFile /\ Reaction.keys = 0
         /\ Apdu = "ef" => /\ Reaction.app = tag.app /\ Reaction.ef = cmd.file
                           /\ Reaction.keys = tag.keys /\ Reaction.ctr = tag.ctr
<1>1. tag \in Tag /\ shake \in Nat /\ cmd.file \in Files \cup {NoFile}
  BY Zenon DEF ChannelInv, Programs
<1>2. Errs \in Tag /\ Errs.app = tag.app /\ Errs.ef = tag.ef
  BY <1>1, Zenon DEF Errs, Tag
<1>3. Advanced(tag) \in Tag /\ Advanced(tag).app = tag.app /\ Advanced(tag).ef = tag.ef
  BY <1>1 DEF Advanced, Tag
<1>4. CASE Apdu = "select"
  <2>1. Reaction = [tag EXCEPT !.keys = 0, !.app = TRUE, !.ef = NoFile, !.pending = FALSE]
    BY <1>4 DEF Reaction, PlainData, SecureData
  <2> QED
    BY <1>1, <1>2, <1>4, <2>1, Zenon DEF Tag
<1>5. CASE Apdu = "ef"
  <2>1. Reaction = [tag EXCEPT !.ef = cmd.file]
    BY <1>5 DEF Reaction, PlainData, SecureData
  <2> QED
    BY <1>1, <1>2, <1>5, <2>1 DEF Tag
<1>6. CASE Apdu = "part1"
  <2>1. Reaction = [tag EXCEPT !.pending = TRUE, !.keys = IF cmd.op = "authenticate" THEN @ ELSE 0]
    BY <1>6 DEF Reaction, PlainData, SecureData
  <2> QED
    BY <1>1, <1>2, <1>6, <2>1, Zenon DEF Tag
<1>7. CASE Apdu = "part2"
  <2>1. Reaction = [tag EXCEPT !.pending = FALSE, !.keys = shake,
                               !.ctr = IF cmd.op = "authenticate" THEN @ ELSE 0]
    BY <1>7 DEF Reaction, PlainData, SecureData
  <2> QED
    BY <1>1, <1>2, <1>7, <2>1, Zenon DEF Tag
<1>8. CASE Apdu = "master"
  <2>1. Reaction = [tag EXCEPT !.keys = 0]
    BY <1>8 DEF Reaction, PlainData, SecureData
  <2> QED
    BY <1>1, <1>2, <1>8, <2>1 DEF Tag
<1>9. CASE Apdu \notin {"select", "ef", "part1", "part2", "master"}
  <2>1. Reaction = tag \/ Reaction = Advanced(tag)
    BY <1>9 DEF Reaction, PlainData, SecureData
  <2> QED
    BY <1>1, <1>2, <1>3, <1>9, <2>1
<1> QED
  BY <1>4, <1>5, <1>6, <1>7, <1>8, <1>9, Zenon

(* A MAC that verifies moves both counters on; one that does not ends it.    *)
LEMMA VerifiedKeeps ==
  ASSUME ChannelInv, ~Idle, Accepts, tag' = Reaction, shake' = shake, Agree,
         Reaction = Advanced(tag),
         NEW bare, NEW c, Verified(bare, c), Programs(c), c.op = cmd.op,
         Apdu \notin {"select", "ef", "part1"},
         c.todo = Tail(cmd.todo) \/ (c.todo = cmd.todo /\ Apdu \in Data)
  PROVE  ChannelInv'
<1>1. /\ tag' \in Tag /\ tag'.app = tag.app /\ tag'.ef = tag.ef
  BY Reacts
<1>2. SelectionIsTrue
  BY DEF ChannelInv, ChannelInStep
<1>3. CASE Abandon("none")
  <2>1. cause' # "behind" => cause # "behind"
    BY <1>3 DEF Abandon
  <2> QED
    BY <1>1, <1>2, <1>3, <2>1, Abandons DEF SelectionIsTrue
<1>4. CASE Proceed(c, advance_counter(host))
  <2> DEFINE h == advance_counter(host)
  <2>1. h \in SessionValue /\ h.kind = host.kind /\ h.keys = host.keys
        /\ h.app = host.app /\ h.ef = host.ef
        /\ h.ctr = host.ctr + 1
    BY DEF ChannelInv, advance_counter, SessionValue
  <2>2. tag'.ctr = tag.ctr + 1
    BY DEF ChannelInv, Advanced, Tag
  <2>3. tag'.ctr = h.ctr
    BY <2>1, <2>2 DEF Agree
  <2>4. cmd.op \in Borrowed => h.kind = "unauthenticated"
    BY <2>1 DEF ChannelInv, Idle
  <2>5. /\ h.kind = "authenticated" => h.keys # 0
        /\ h.ef # NoFile => h.app
    BY <2>1 DEF ChannelInv
  <2>6. cause # "behind" => (h.app => tag'.app) /\ (h.ef # NoFile => tag'.ef = h.ef)
    BY <1>1, <1>2, <2>1 DEF SelectionIsTrue
  <2> HIDE DEF h
  <2>7. Proceed(c, h)
    BY <1>4 DEF h
  <2> QED
    BY <1>1, <2>1, <2>3, <2>4, <2>5, <2>6, <2>7, Proceeds, Zenon
<1> QED
  BY <1>3, <1>4 DEF Verified

(* Neither what is selected nor the counters change, or both counters do.    *)
LEMMA SameSessionKeeps ==
  ASSUME ChannelInv, ~Idle, tag' = Reaction, shake' = shake,
         Apdu \notin {"select", "ef"},
         NEW c, NEW h \in {host, advance_counter(host)}, Proceed(c, h),
         Programs(c), c.op = cmd.op,
         c.todo = Tail(cmd.todo) \/ (c.todo = cmd.todo /\ Apdu \in Data),
         cmd.op = "authenticate" /\ Apdu = "part1" => tag'.keys = host.keys,
         host.kind = "authenticated" /\ tag'.keys = host.keys => tag'.ctr = h.ctr
  PROVE  ChannelInv'
<1>1. /\ tag' \in Tag /\ tag'.app = tag.app /\ tag'.ef = tag.ef
  BY Reacts
<1>2. h \in SessionValue /\ h.kind = host.kind /\ h.keys = host.keys
      /\ h.app = host.app /\ h.ef = host.ef
  BY DEF ChannelInv, advance_counter, SessionValue
<1>3. cmd.op \in Borrowed => h.kind = "unauthenticated"
  BY <1>2 DEF ChannelInv, Idle
<1>4. /\ h.kind = "authenticated" => h.keys # 0
      /\ h.ef # NoFile => h.app
  BY <1>2 DEF ChannelInv
<1>5. cause # "behind" => (h.app => tag'.app) /\ (h.ef # NoFile => tag'.ef = h.ef)
  BY <1>1, <1>2 DEF ChannelInv, ChannelInStep, SelectionIsTrue
<1> QED
  BY <1>1, <1>2, <1>3, <1>4, <1>5, Proceeds, Zenon

(* Selecting ends what session there was on the tag.                         *)
LEMMA SelectingKeeps == ASSUME ChannelInv, Replied, OnSelected PROVE ChannelInv'
<1>1. ~Idle /\ Accepts /\ tag' = Reaction /\ shake' = shake
  BY DEF Replied
<1>2. Programs(Done(cmd)) /\ Done(cmd).op = cmd.op /\ Done(cmd).todo = Tail(cmd.todo)
  BY <1>1, Leaves, Zenon DEF ChannelInv, Done, Programs, IsCommand
<1>3. host \in SessionValue /\ (cmd.op \in Borrowed => host.kind = "unauthenticated")
      /\ (host.kind = "authenticated" => host.keys # 0)
  BY <1>1 DEF ChannelInv, Idle
<1>4. CASE Apdu = "select" /\ Proceed(Done(cmd), [host EXCEPT !.app = TRUE, !.ef = NoFile])
  <2> DEFINE h == [host EXCEPT !.app = TRUE, !.ef = NoFile]
  <2>1. /\ h \in SessionValue /\ h.kind = host.kind /\ h.keys = host.keys /\ h.app /\ h.ef = NoFile
    BY <1>3, Zenon DEF SessionValue
  <2>2. tag' \in Tag /\ tag'.app /\ tag'.keys = 0
    BY <1>1, <1>4, Reacts
  <2>3. Proceed(Done(cmd), h)
    BY <1>4
  <2> HIDE DEF h
  <2> QED
    BY <1>1, <1>2, <1>3, <1>4, <2>1, <2>2, <2>3, Proceeds
<1>5. CASE Apdu = "ef" /\ Proceed(Done(cmd), [host EXCEPT !.ef = cmd.file])
  <2> DEFINE h == [host EXCEPT !.ef = cmd.file]
  <2>1. /\ h \in SessionValue /\ h.kind = host.kind /\ h.keys = host.keys /\ h.ctr = host.ctr
        /\ h.app = host.app /\ h.ef = cmd.file
    BY <1>3 DEF SessionValue, ChannelInv, Programs
  <2>2. /\ tag' \in Tag /\ tag'.app = tag.app /\ tag'.ef = cmd.file
        /\ tag'.keys = tag.keys /\ tag'.ctr = tag.ctr
    BY <1>1, <1>5, Reacts
  <2>3. Proceed(Done(cmd), h)
    BY <1>5
  <2>4. host.app
    BY <1>1, <1>5 DEF ChannelInv, Idle, Apdu
  <2>5. /\ host.kind = "authenticated" /\ tag.keys = host.keys => tag.ctr = host.ctr
        /\ cause # "behind" => (host.app => tag.app)
    BY DEF ChannelInv, ChannelInStep, InStep, SelectionIsTrue
  <2> HIDE DEF h
  <2> QED
    BY <1>1, <1>2, <1>3, <1>5, <2>1, <2>2, <2>3, <2>4, <2>5, Proceeds, Zenon
<1>6. CASE Apdu = "settings" /\ Proceed(Done(cmd), host)
  <2>1. tag' = tag
    BY <1>1, <1>6 DEF Reaction, PlainData, SecureData
  <2> QED
    BY <1>1, <1>2, <1>6, <2>1, SameSessionKeeps, Zenon DEF ChannelInv, ChannelInStep, InStep
<1> QED
  BY <1>4, <1>5, <1>6 DEF OnSelected

(* The first authentication starts both counters, a later one keeps them.    *)
LEMMA AuthenticatingKeeps == ASSUME ChannelInv, Replied, OnAuthenticated PROVE ChannelInv'
<1>1. ~Idle /\ Accepts /\ tag' = Reaction /\ shake' = shake
  BY DEF Replied
<1>2. Programs(Done(cmd)) /\ Done(cmd).op = cmd.op /\ Done(cmd).todo = Tail(cmd.todo)
  BY <1>1, Leaves, Zenon DEF ChannelInv, Done, Programs, IsCommand
<1>3. /\ host \in SessionValue /\ tag \in Tag /\ shake \in Nat
      /\ host.kind = "authenticated" => host.keys # 0
      /\ host.ef # NoFile => host.app
      /\ cmd.op \in {"authenticate_aes", "authenticate"} => shake # 0
      /\ InStep /\ SelectionIsTrue
  BY <1>1 DEF ChannelInv, Idle, ChannelInStep
<1>4. CASE Apdu = "part1" /\ Proceed(Done(cmd), host)
  <2>1. tag' = [tag EXCEPT !.pending = TRUE, !.keys = IF cmd.op = "authenticate" THEN @ ELSE 0]
    BY <1>1, <1>4 DEF Reaction, PlainData, SecureData
  <2>2. tag'.ctr = tag.ctr /\ (tag'.keys = tag.keys \/ tag'.keys = 0)
    BY <1>3, <2>1 DEF Tag
  <2>3. cmd.op = "authenticate" => tag'.keys = host.keys
    BY <1>1, <1>3, <1>4, <2>1 DEF Accepts, Tag
  <2>4. host.kind = "authenticated" /\ tag'.keys = host.keys => tag'.ctr = host.ctr
    BY <1>3, <2>2 DEF InStep
  <2> QED
    BY <1>1, <1>2, <1>4, <2>3, <2>4, SameSessionKeeps
<1>5. ASSUME Apdu = "part2",
             NEW h \in SessionValue, Proceed(Done(cmd), h),
             cmd.op \in {"authenticate_aes", "authenticate"},
             h.keys = shake, h.ef = host.ef, host.app => h.app,
             h.kind = "authenticated" => tag'.ctr = h.ctr
      PROVE  ChannelInv'
  <2>1. tag' \in Tag /\ tag'.app = tag.app /\ tag'.ef = tag.ef /\ tag.app
    BY <1>1, <1>5, Reacts, Zenon DEF Accepts
  <2>2. cmd.op \notin Borrowed
    BY <1>5 DEF Borrowed
  <2> QED
    BY <1>1, <1>2, <1>3, <1>5, <2>1, <2>2, Proceeds, Zenon DEF SelectionIsTrue
<1>6. CASE /\ Apdu = "part2" /\ cmd.op = "authenticate_aes"
           /\ Proceed(Done(cmd), [host EXCEPT !.kind = "authenticated", !.keys = shake, !.ctr = 0,
                                              !.app = TRUE])
  <2> DEFINE h == [host EXCEPT !.kind = "authenticated", !.keys = shake, !.ctr = 0,
                               !.app = TRUE]
  <2>1. h \in SessionValue /\ h.keys = shake /\ h.ctr = 0 /\ h.app /\ h.ef = host.ef
    BY <1>3, Zenon DEF SessionValue
  <2>2. tag'.ctr = 0
    BY <1>1, <1>3, <1>6, Zenon DEF Reaction, PlainData, SecureData, Tag
  <2>3. Proceed(Done(cmd), h)
    BY <1>6
  <2> HIDE DEF h
  <2> QED
    BY <1>5, <1>6, <2>1, <2>2, <2>3
<1>7. CASE Apdu = "part2" /\ cmd.op = "authenticate" /\ Proceed(Done(cmd), [host EXCEPT !.keys = shake])
  <2> DEFINE h == [host EXCEPT !.keys = shake]
  <2>1. /\ h \in SessionValue /\ h.keys = shake /\ h.ctr = host.ctr /\ h.app = host.app /\ h.ef = host.ef
        /\ h.kind = host.kind
    BY <1>3 DEF SessionValue
  <2>2. tag'.ctr = tag.ctr
    BY <1>1, <1>3, <1>7, Zenon DEF Reaction, PlainData, SecureData, Tag
  <2>3. tag.keys = host.keys
    BY <1>1, <1>7 DEF ChannelInv, Idle, Apdu, Accepts
  <2>4. Proceed(Done(cmd), h)
    BY <1>7
  <2> HIDE DEF h
  <2> QED
    BY <1>3, <1>5, <1>7, <2>1, <2>2, <2>3, <2>4 DEF InStep
<1> QED
  BY <1>4, <1>6, <1>7 DEF OnAuthenticated

(* One MAC, and one step of the counters, for every command and every chain  *)
LEMMA CommandingKeeps ==
  ASSUME ChannelInv, Replied, NEW bare, OnCommand(bare) PROVE ChannelInv'
<1>1. ~Idle /\ Accepts /\ tag' = Reaction /\ shake' = shake
  BY DEF Replied
<1>2. Programs(Done(cmd)) /\ Done(cmd).op = cmd.op /\ Done(cmd).todo = Tail(cmd.todo)
  BY <1>1, Leaves, Zenon DEF ChannelInv, Done, Programs, IsCommand
<1>3. InStep /\ SelectionIsTrue
  BY DEF ChannelInv, ChannelInStep
<1>4. CASE Apdu \in {"version1", "version2"} /\ Proceed(Done(cmd), host)
  <2>1. tag' = tag
    BY <1>1, <1>4 DEF Reaction, PlainData, SecureData
  <2> QED
    BY <1>1, <1>2, <1>3, <1>4, <2>1, SameSessionKeeps DEF InStep
<1>5. CASE Apdu = "master" /\ Proceed(Done(cmd), NewSession)
  <2>1. /\ NewSession \in SessionValue /\ NewSession.kind = "unauthenticated"
        /\ ~NewSession.app /\ NewSession.ef = NoFile
    BY DEF NewSession, SessionValue
  <2>2. tag' \in Tag
    BY <1>1, Reacts
  <2> QED
    BY <1>1, <1>2, <1>5, <2>1, <2>2, Proceeds
<1>6. CASE Apdu \in {"query", "version3", "update"}
  <2>1. Reaction = Advanced(tag) /\ Agree
    BY <1>1, <1>6 DEF Reaction, PlainData, SecureData, Accepts, Secure
  <2>2. ASSUME NEW b, Verified(b, Done(cmd)) PROVE ChannelInv'
    BY <1>1, <1>2, <1>6, <2>1, <2>2, VerifiedKeeps
  <2>3. CASE Abandon("fault")
    <3>1. tag' \in Tag /\ tag'.app = tag.app /\ tag'.ef = tag.ef
      BY <1>1, <1>6, Reacts
    <3>2. cause' # "behind" => cause # "behind"
      BY <2>3 DEF Abandon
    <3> QED
      BY <1>1, <1>3, <2>3, <3>1, <3>2, Abandons DEF SelectionIsTrue
  <2> QED
    BY <1>6, <2>2, <2>3, Zenon DEF OnCommand
<1> QED
  BY <1>4, <1>5, <1>6, Zenon DEF OnCommand

(* A chunk moves both counters or neither, plain chunks included.            *)
LEMMA TransferringKeeps ==
  ASSUME ChannelInv, Replied, NEW bare, OnData(bare) PROVE ChannelInv'
<1>1. ~Idle /\ Accepts /\ tag' = Reaction /\ shake' = shake
  BY DEF Replied
<1>2. /\ host \in SessionValue /\ tag \in Tag /\ InStep /\ SelectionIsTrue
      /\ (host.kind = "authenticated" => host.keys # 0)
  BY DEF ChannelInv, ChannelInStep
<1>3. Apdu \in Data /\ Apdu \notin {"select", "ef", "part1"}
  BY Zenon DEF OnData, Data, IsoRead, IsoWrite, PlainRead, PlainWrite, MacRead, FullRead, SecureWrite
<1>4. ASSUME NEW n, NEW c \in {Took(n), Put}
      PROVE  /\ Programs(c)
             /\ c.op = cmd.op
             /\ (c.todo = Tail(cmd.todo) \/ (c.todo = cmd.todo /\ Apdu \in Data))
  BY <1>1, <1>3, <1>4, Leaves DEF ChannelInv
<1>5. CASE Apdu \in {"iso_read", "iso_write"}
  <2>1. tag' = tag
    BY <1>1, <1>5 DEF Reaction, PlainData, SecureData
  <2>2. PICK n : \E c \in {Took(n), Put} : Proceed(c, host)
    BY <1>5, Zenon DEF OnData, IsoRead, IsoWrite, PlainRead, PlainWrite, MacRead, FullRead, SecureWrite
  <2> QED
    BY <1>1, <1>2, <1>4, <1>5, <2>1, <2>2, SameSessionKeeps, Zenon DEF InStep
<1>6. CASE PlainData
  <2>1. tag' = IF tag.keys # 0 /\ ~tag.emulated THEN Advanced(tag) ELSE tag
    BY <1>1, <1>6 DEF Reaction, PlainData, SecureData
  <2>2. PICK n : \E c \in {Took(n), Put} : Proceed(c, AfterPlain)
    BY <1>6 DEF OnData, PlainData, IsoRead, IsoWrite, PlainRead, PlainWrite, MacRead, FullRead,
                SecureWrite
  <2>3. host.kind = "authenticated" /\ tag'.keys = host.keys => tag'.ctr = AfterPlain.ctr
    BY <1>2, <2>1
       DEF InStep, AfterPlain, PLAIN_ADVANCE_COMPAT, Advanced, advance_counter, Tag, SessionValue
  <2>4. AfterPlain \in {host, advance_counter(host)}
    BY DEF AfterPlain
  <2>5. Apdu \notin {"select", "ef", "part1"}
    BY <1>3 DEF Data
  <2> QED
    BY <1>1, <1>4, <2>2, <2>3, <2>4, <2>5, SameSessionKeeps
<1>7. CASE SecureData
  <2>1. Reaction = Advanced(tag) /\ Agree
    BY <1>1, <1>7 DEF Reaction, PlainData, SecureData, Accepts, Secure
  <2>2. Apdu \notin {"select", "ef", "part1"}
    BY <1>3 DEF Data
  <2>3. ASSUME NEW b, NEW n, NEW c \in {Took(n), Put}, Verified(b, c) PROVE ChannelInv'
    BY <1>1, <1>4, <2>1, <2>2, <2>3, VerifiedKeeps
  <2>4. CASE Abandon("request")
    <3>1. tag' \in Tag /\ tag'.app = tag.app /\ tag'.ef = tag.ef
      BY <1>1, <2>2, Reacts
    <3>2. cause' # "behind" => cause # "behind"
      BY <2>4 DEF Abandon
    <3> QED
      BY <1>1, <1>2, <2>4, <3>1, <3>2, Abandons DEF SelectionIsTrue
  <2>5. Abandon("request") \/ \E b, n : \E c \in {Took(n), Put} : Verified(b, c)
    BY <1>7, Zenon DEF OnData, SecureData, IsoRead, IsoWrite, PlainRead, PlainWrite, MacRead, FullRead,
                SecureWrite
  <2> QED
    BY <2>3, <2>4, <2>5
<1> QED
  BY <1>3, <1>5, <1>6, <1>7 DEF Data, PlainData, SecureData

(* An answer that never came, or an error: the session is not used again.    *)
LEMMA FailingKeeps ==
  ASSUME ChannelInv, Rejected \/ Refused \/ RequestLost \/ ReplyLost
  PROVE  ChannelInv'
<1>1. ~Idle /\ shake' = shake /\ tag \in Tag
  BY DEF Rejected, Refused, RequestLost, ReplyLost, Fault, ChannelInv
<1>2. ASSUME NEW why, Abandon(why), cause' # "behind"
      PROVE  cause # "behind" /\ why # "behind"
  BY <1>1, <1>2 DEF Abandon, ChannelInv, Idle
<1>3. /\ cause # "behind" => (host.app => tag.app)
      /\ cause # "behind" => (host.ef # NoFile => tag.ef = host.ef)
      /\ host.ef # NoFile => host.app
      /\ Apdu = "select" => ~host.app
  BY <1>1 DEF ChannelInv, ChannelInStep, SelectionIsTrue, Idle, Apdu
<1>4. ASSUME NEW why, Abandon(why), tag' = Errs PROVE ChannelInv'
  BY <1>1, <1>2, <1>3, <1>4, Reacts, Abandons
<1>5. CASE Rejected
  BY <1>4, <1>5 DEF Rejected
<1>6. CASE Refused
  BY <1>4, <1>6 DEF Refused, Fault
<1>7. CASE RequestLost
  <2>1. Abandon("fault") /\ tag' = tag
    BY <1>7 DEF RequestLost, Fault
  <2> QED
    BY <1>1, <1>2, <1>3, <2>1, Abandons
<1>8. CASE ReplyLost
  <2>1. Abandon(IF Apdu = "ef" THEN "behind" ELSE "fault") /\ tag' = Reaction
    BY <1>8 DEF ReplyLost, Fault
  <2>2. tag' \in Tag /\ (Apdu = "select" => tag'.app)
        /\ (Apdu \notin {"select", "ef"} => tag'.app = tag.app /\ tag'.ef = tag.ef)
    BY <1>1, <2>1, Reacts
  <2>3. cause' # "behind" => cause # "behind" /\ Apdu # "ef"
    BY <1>2, <2>1
  <2>4. cause' # "behind" => (host.app => tag'.app) /\ (host.ef # NoFile => tag'.ef = host.ef)
    BY <1>3, <2>2, <2>3
  <2> QED
    BY <1>1, <2>1, <2>2, <2>4, Abandons
<1> QED
  BY <1>5, <1>6, <1>7, <1>8

(* Every command begins with what it has to select, and no more.             *)
LEMMA InvokingKeeps ==
  ASSUME ChannelInv,
         \/ ReadFileUnauthenticated \/ WriteFileUnauthenticated \/ GetFileSettings
         \/ AuthenticateAes \/ Authenticate \/ Query \/ Update \/ GetVersion
         \/ ChangeMasterKey \/ ReadFile \/ WriteFile
  PROVE  ChannelInv'
<1> DEFINE Plain(todo) ==
      /\ todo \in Seq(Apdus) /\ todo # <<>>
      /\ todo[1] \notin {"select", "ef"}
      /\ \A i \in 2..Len(todo) : todo[i] \notin {"select", "ef"}
<1>1. shake \in Nat /\ host \in SessionValue
  BY DEF ChannelInv
<1>2. ASSUME NEW op \in SessionOps, NEW f \in Files \cup {NoFile},
             NEW m, NEW n, NEW todo, Plain(todo),
             Invoke(op, f, m, n, SelectApp \o todo), shake' \in Nat,
             op # "authenticate",
             op \in Borrowed => host.kind = "unauthenticated",
             op = "authenticate_aes" => shake' # 0
      PROVE  ChannelInv'
  <2>1. CASE host.app
    <3>1. SelectApp \o todo = todo
      BY <1>2, <2>1 DEF SelectApp
    <3>2. Invoke(op, f, m, n, todo)
      BY <1>2, <3>1
    <3> QED
      BY <1>2, <2>1, <3>2, Invoked
  <2>2. CASE ~host.app
    <3> DEFINE whole == <<"select">> \o todo
    <3>1. /\ whole \in Seq(Apdus) /\ whole # <<>> /\ whole[1] = "select"
          /\ \A i \in 2..Len(whole) : whole[i] \notin {"select", "ef"}
      BY <1>2 DEF Apdus
    <3>2. Invoke(op, f, m, n, whole)
      BY <1>2, <2>2 DEF SelectApp
    <3> HIDE DEF whole
    <3> QED
      BY <1>2, <2>2, <3>1, <3>2, Invoked
  <2> QED
    BY <2>1, <2>2
<1>3. ASSUME NEW op \in Borrowed, NEW f \in Files, NEW n, NEW a \in Data, UNCHANGED shake,
             host.kind = "unauthenticated",
             Invoke(op, f, "plain", n, SelectApp \o SelectEf(f) \o <<a>>)
      PROVE  ChannelInv'
  <2>1. op \in SessionOps /\ op \notin {"authenticate", "authenticate_aes"}
    BY <1>3 DEF Borrowed, SessionOps
  <2>2. a \in Apdus /\ a \notin {"select", "ef"} /\ {"select", "ef"} \subseteq Apdus
    BY <1>3 DEF Data, Apdus
  <2>3. CASE host.app /\ host.ef = f
    <3> DEFINE whole == <<>> \o <<>> \o <<a>>
    <3>1. Invoke(op, f, "plain", n, whole)
      <4>1. SelectApp = <<>> /\ SelectEf(f) = <<>>
        BY <2>3 DEF SelectApp, SelectEf
      <4> QED
        BY <1>3, <4>1
    <3>2. whole \in Seq(Apdus) /\ whole # <<>> /\ whole[1] = a
          /\ \A i \in 2..Len(whole) : whole[i] \notin {"select", "ef"}
      BY <2>2
    <3> HIDE DEF whole
    <3> QED
      BY <1>1, <1>3, <2>1, <2>2, <2>3, <3>1, <3>2, Invoked
  <2>4. CASE host.app /\ host.ef # f
    <3> DEFINE whole == <<>> \o <<"ef">> \o <<a>>
    <3>1. Invoke(op, f, "plain", n, whole)
      <4>1. SelectApp = <<>> /\ SelectEf(f) = <<"ef">>
        BY <2>4 DEF SelectApp, SelectEf
      <4> QED
        BY <1>3, <4>1
    <3>2. whole \in Seq(Apdus) /\ whole # <<>> /\ whole[1] = "ef"
          /\ \A i \in 2..Len(whole) : whole[i] \notin {"select", "ef"}
      BY <2>2
    <3> HIDE DEF whole
    <3> QED
      BY <1>1, <1>3, <2>1, <2>2, <2>4, <3>1, <3>2, Invoked
  <2>5. CASE ~host.app
    <3> DEFINE whole == <<"select">> \o <<"ef">> \o <<a>>
    <3>1. Invoke(op, f, "plain", n, whole)
      <4>1. SelectApp = <<"select">> /\ SelectEf(f) = <<"ef">>
        BY <2>5 DEF SelectApp, SelectEf
      <4> QED
        BY <1>3, <4>1
    <3>2. whole \in Seq(Apdus) /\ whole # <<>> /\ whole[1] = "select"
          /\ \A i \in 2..Len(whole) : whole[i] # "select" /\ (whole[i] = "ef" => i = 2)
      BY <2>2
    <3> HIDE DEF whole
    <3> QED
      BY <1>1, <1>3, <2>1, <2>2, <2>5, <3>1, <3>2, Invoked
  <2> QED
    BY <2>3, <2>4, <2>5
<1>4. ASSUME NEW op \in SessionOps \ (Borrowed \cup {"authenticate", "authenticate_aes"}),
             NEW m, NEW n, NEW todo,
             Plain(todo), UNCHANGED shake, Invoke(op, NoFile, m, n, todo)
      PROVE  ChannelInv'
  BY <1>1, <1>4, Invoked, Zenon
<1>5. CASE ReadFileUnauthenticated
  BY <1>3, <1>5 DEF ReadFileUnauthenticated, Borrowed, Data
<1>6. CASE WriteFileUnauthenticated
  BY <1>3, <1>6 DEF WriteFileUnauthenticated, Borrowed, Data
<1>7. CASE GetFileSettings
  <2>1. Plain(<<"settings">>)
    BY DEF Apdus
  <2> HIDE DEF Plain
  <2> QED
    BY <1>1, <1>2, <1>7, <2>1 DEF GetFileSettings, SessionOps
<1>8. CASE AuthenticateAes
  <2>1. Plain(<<"part1", "part2">>)
    BY DEF Apdus
  <2> HIDE DEF Plain
  <2>2. shake' \in Nat /\ shake' # 0
    BY <1>1, <1>8 DEF AuthenticateAes
  <2> QED
    BY <1>2, <1>8, <2>1, <2>2 DEF AuthenticateAes, SessionOps, Borrowed
<1>9. CASE Authenticate
  <2>1. Plain(<<"part1", "part2">>)
    BY DEF Apdus
  <2>2. shake' \in Nat /\ shake' # 0
    BY <1>1, <1>9 DEF Authenticate
  <2>3. "authenticate" \in SessionOps \ Borrowed
    BY DEF SessionOps, Borrowed
  <2>4. Invoke("authenticate", NoFile, "plain", 0, <<"part1", "part2">>)
    BY <1>9 DEF Authenticate
  <2> QED
    BY <2>1, <2>2, <2>3, <2>4, Invoked, Zenon
<1>10. /\ Plain(<<"query">>) /\ Plain(<<"update">>) /\ Plain(<<"master">>)
       /\ Plain(<<"read">>) /\ Plain(<<"write">>) /\ Plain(<<"version1", "version2", "version3">>)
  BY DEF Apdus
<1>11. {"query", "update", "get_version", "change_master_key", "read_file", "write_file"}
         \subseteq SessionOps \ (Borrowed \cup {"authenticate", "authenticate_aes"})
  BY DEF SessionOps, Borrowed
<1> HIDE DEF Plain
<1>12. CASE Query \/ Update \/ GetVersion \/ ChangeMasterKey
  BY <1>4, <1>10, <1>11, <1>12 DEF Query, Update, GetVersion, ChangeMasterKey
<1>13. CASE ReadFile \/ WriteFile
  BY <1>4, <1>10, <1>11, <1>13 DEF ReadFile, WriteFile
<1> QED
  BY <1>5, <1>6, <1>7, <1>8, <1>9, <1>12, <1>13

(* Every step of the channel keeps the invariant.                            *)
LEMMA ChannelSteps == ChannelInv /\ [ChannelNext]_channelVars => ChannelInv'
<1> SUFFICES ASSUME ChannelInv, [ChannelNext]_channelVars PROVE ChannelInv'
  OBVIOUS
<1>1. /\ NewSession \in SessionValue /\ NewSession.kind = "unauthenticated"
      /\ ~NewSession.app /\ NewSession.ef = NoFile
  BY DEF NewSession, SessionValue
<1>2. NoSession \in SessionValue /\ NoSession.kind = "gone" /\ ~NoSession.app /\ NoSession.ef = NoFile
  BY Zenon DEF NoSession, NewSession, SessionValue
<1>3. CASE StartAgain \/ EmptyWrite
  <2>1. cmd' = cmd /\ tag' = tag /\ shake' = shake /\ cmd.todo = <<>> /\ host' \in {NewSession, NoSession}
    BY <1>3 DEF StartAgain, EmptyWrite, Idle
  <2>2. /\ host' \in SessionValue /\ host'.kind # "authenticated"
        /\ ~host'.app /\ host'.ef = NoFile
    BY <1>1, <1>2, <2>1
  <2> QED
    BY <2>1, <2>2 DEF ChannelInv, ChannelInStep, InStep, SelectionIsTrue
<1>4. CASE FieldLost
  <2>1. tag' \in Tag /\ tag'.keys = 0 /\ ~tag'.pending
    BY <1>4 DEF FieldLost, PoweredUp, ChannelInv, Tag
  <2>2. UNCHANGED <<host, cmd, shake>> /\ cause' = "behind"
    BY <1>4 DEF FieldLost
  <2> QED
    BY <2>1, <2>2 DEF ChannelInv, ChannelInStep, InStep, SelectionIsTrue, Programs, IsCommand
<1>5. CASE Replied
  BY <1>5, SelectingKeeps, AuthenticatingKeeps, CommandingKeeps, TransferringKeeps, Zenon DEF Replied
<1>6. CASE UNCHANGED channelVars
  BY <1>6 DEF channelVars, ChannelInv, ChannelInStep, InStep, SelectionIsTrue, Programs, IsCommand
<1> QED
  BY <1>3, <1>4, <1>5, <1>6, InvokingKeeps, FailingKeeps DEF ChannelNext

(* Session and tag stay in step through any sequence of the session's         *)
(* commands, whatever APDU of whichever of them is lost or refused, and       *)
(* whatever a session believes to be selected is selected.                    *)
THEOREM KeepsChannelInStep == ChannelSpec => []ChannelInStep
<1>1. ChannelInv => ChannelInStep
  BY DEF ChannelInv
<1> QED
  BY <1>1, ChannelBegins, ChannelSteps, PTL DEF ChannelSpec
------------------------------------------------------------------------------
(* What a session transfers                                                  *)

(* The commands of a session that is not authenticated, the transfers among  *)
(* all of them                                                               *)
Outside == Borrowed \cup {"authenticate_aes"}
Unkeyed == {"read_file_unauthenticated", "write_file_unauthenticated"}
Transfers == Unkeyed \cup {"read_file", "write_file"}

(* What may be left of each command, up to its last APDU                     *)
Plan(op) ==
  CASE op = "read_file_unauthenticated" ->
         {<<"select", "ef", "iso_read">>, <<"ef", "iso_read">>, <<"iso_read">>}
    [] op = "write_file_unauthenticated" ->
         {<<"select", "ef", "iso_write">>, <<"ef", "iso_write">>, <<"iso_write">>}
    [] op = "get_file_settings" -> {<<"select", "settings">>, <<"settings">>}
    [] op = "authenticate_aes" ->
         {<<"select", "part1", "part2">>, <<"part1", "part2">>, <<"part2">>}
    [] op = "authenticate" -> {<<"part1", "part2">>, <<"part2">>}
    [] op = "query" -> {<<"query">>}
    [] op = "update" -> {<<"update">>}
    [] op = "get_version" ->
         {<<"version1", "version2", "version3">>, <<"version2", "version3">>, <<"version3">>}
    [] op = "change_master_key" -> {<<"master">>}
    [] op = "read_file" -> {<<"read">>}
    [] op = "write_file" -> {<<"write">>}
    [] OTHER -> {}

(* The next APDU of the command c finds the session h, and a tag t that was  *)
(* not reset behind its back, as it needs them.                              *)
Prepared(c, h, t, why) ==
  /\ c.todo \in Plan(c.op)
  /\ h.kind = IF c.op \in Outside THEN "unauthenticated" ELSE "authenticated"
  /\ Head(c.todo) # "select" => h.app
  /\ c.op \in Unkeyed => c.file \in Files
  /\ Head(c.todo) \in {"iso_read", "iso_write"} => h.ef = c.file
  /\ Head(c.todo) = "part2" /\ why # "behind" => t.pending

(* Something is left to transfer, and what was transferred is where it       *)
(* should be: fr bytes of the file that is written, or bytes of the file     *)
(* that is read.                                                             *)
Progress(c, fr, why) ==
  /\ c.op \in Transfers =>
       /\ c.mode \in CommModes /\ c.len \in Nat /\ c.done \in Nat
       /\ c.len = 0 => c.done = 0 /\ c.mode = "plain" /\ c.op = "read_file"
       /\ c.len # 0 => c.done < c.len
  /\ c.op \in {"read_file", "read_file_unauthenticated"} => c.done <= FileSize
  /\ c.op = "write_file" => fr = c.done
  /\ c.op = "write_file_unauthenticated" => fr = c.done \/ why = "behind"
  /\ c.op = "read_file_unauthenticated" => c.src \subseteq {c.file} \/ why = "behind"

(* A session has the keys of the tag, and every command in the middle of its  *)
(* APDUs is one that the tag will accept.                                    *)
WholeInv ==
  /\ host.kind = "authenticated" => host.app
  /\ cause # "behind" /\ host.kind = "authenticated" => tag.keys = host.keys
  /\ ~Idle => /\ returned = "busy" /\ Prepared(cmd, host, tag, cause)
              /\ Progress(cmd, fresh, cause)
  /\ TransfersAreWhole

(* What a command returns with Ok                                            *)
Whole(c, fr, why, t) ==
  /\ c.op = "write_file" => fr = c.len
  /\ c.op = "write_file_unauthenticated" => fr = c.len \/ why = "behind"
  /\ c.op = "read_file_unauthenticated" => c.src = {c.file} \/ why = "behind"
  /\ c.op \in {"read_file", "read_file_unauthenticated"} =>
       \/ c.done = IF c.len = 0 THEN FileSize ELSE Min({c.len, FileSize})
       \/ t.emulated /\ c.mode = "mac"

(* A plan is followed APDU by APDU.                                          *)
LEMMA FollowsPlan ==
  ASSUME NEW op, NEW todo \in Plan(op)
  PROVE  /\ todo # <<>>
         /\ Tail(todo) = <<>> \/ Tail(todo) \in Plan(op)
         /\ Tail(todo) # <<>> =>
              /\ Head(Tail(todo)) # "select"
              /\ Head(Tail(todo)) \in {"iso_read", "iso_write"} => Head(todo) = "ef"
              /\ Head(Tail(todo)) = "part2" => Head(todo) = "part1"
         /\ Head(todo) \in Data \cup {"settings", "part2", "query", "update", "version3", "master"}
              <=> Tail(todo) = <<>>
         /\ Head(todo) \in {"select", "ef"} => op \in Outside
         /\ Head(todo) = "ef" => op \in Unkeyed
         /\ Head(todo) = "iso_read" => op = "read_file_unauthenticated"
         /\ Head(todo) = "iso_write" => op = "write_file_unauthenticated"
         /\ Head(todo) = "read" => op = "read_file"
         /\ Head(todo) = "write" => op = "write_file"
         /\ Head(todo) \in {"part1", "part2"} => op \in {"authenticate", "authenticate_aes"}
         /\ Head(todo) \in {"query", "update", "version1", "version2", "version3", "master"}
              => op \in {"query", "update", "get_version", "change_master_key"}
         /\ op \in Transfers /\ Head(todo) \notin {"select", "ef"} => Head(todo) \in Data
<1>1. ASSUME NEW a PROVE <<a>> # <<>> /\ Head(<<a>>) = a /\ Tail(<<a>>) = <<>>
  OBVIOUS
<1>2. CASE op = "read_file_unauthenticated"
  <2>1. Plan(op) = {<<"select", "ef", "iso_read">>, <<"ef", "iso_read">>, <<"iso_read">>}
    BY <1>2 DEF Plan
  <2>2. CASE todo = <<"select", "ef", "iso_read">>
    <3>1. todo # <<>> /\ Head(todo) = "select" /\ Tail(todo) = <<"ef", "iso_read">>
          /\ Head(Tail(todo)) = "ef" /\ Tail(todo) # <<>>
      BY <2>2
    <3>2. Tail(todo) \in Plan(op)
      BY <2>1, <3>1, Zenon
    <3> QED
      BY <1>2, <3>1, <3>2 DEF Data, Outside, Borrowed, Unkeyed, Transfers
  <2>3. CASE todo = <<"ef", "iso_read">>
    <3>1. todo # <<>> /\ Head(todo) = "ef" /\ Tail(todo) = <<"iso_read">>
          /\ Head(Tail(todo)) = "iso_read" /\ Tail(todo) # <<>>
      BY <2>3
    <3>2. Tail(todo) \in Plan(op)
      BY <2>1, <3>1, Zenon
    <3> QED
      BY <1>2, <3>1, <3>2 DEF Data, Outside, Borrowed, Unkeyed, Transfers
  <2>4. CASE todo = <<"iso_read">>
    <3>1. todo # <<>> /\ Head(todo) = "iso_read" /\ Tail(todo) = <<>>
      BY <2>4
    <3> QED
      BY <1>2, <3>1 DEF Data, Outside, Borrowed, Unkeyed, Transfers
  <2> QED
    BY <2>1, <2>2, <2>3, <2>4, Zenon
<1>3. CASE op = "write_file_unauthenticated"
  <2>1. Plan(op) = {<<"select", "ef", "iso_write">>, <<"ef", "iso_write">>, <<"iso_write">>}
    BY <1>3 DEF Plan
  <2>2. CASE todo = <<"select", "ef", "iso_write">>
    <3>1. todo # <<>> /\ Head(todo) = "select" /\ Tail(todo) = <<"ef", "iso_write">>
          /\ Head(Tail(todo)) = "ef" /\ Tail(todo) # <<>>
      BY <2>2
    <3>2. Tail(todo) \in Plan(op)
      BY <2>1, <3>1, Zenon
    <3> QED
      BY <1>3, <3>1, <3>2 DEF Data, Outside, Borrowed, Unkeyed, Transfers
  <2>3. CASE todo = <<"ef", "iso_write">>
    <3>1. todo # <<>> /\ Head(todo) = "ef" /\ Tail(todo) = <<"iso_write">>
          /\ Head(Tail(todo)) = "iso_write" /\ Tail(todo) # <<>>
      BY <2>3
    <3>2. Tail(todo) \in Plan(op)
      BY <2>1, <3>1, Zenon
    <3> QED
      BY <1>3, <3>1, <3>2 DEF Data, Outside, Borrowed, Unkeyed, Transfers
  <2>4. CASE todo = <<"iso_write">>
    <3>1. todo # <<>> /\ Head(todo) = "iso_write" /\ Tail(todo) = <<>>
      BY <2>4
    <3> QED
      BY <1>3, <3>1 DEF Data, Outside, Borrowed, Unkeyed, Transfers
  <2> QED
    BY <2>1, <2>2, <2>3, <2>4, Zenon
<1>4. CASE op = "get_file_settings"
  <2>1. Plan(op) = {<<"select", "settings">>, <<"settings">>}
    BY <1>4 DEF Plan
  <2>2. CASE todo = <<"select", "settings">>
    <3>1. todo # <<>> /\ Head(todo) = "select" /\ Tail(todo) = <<"settings">>
          /\ Head(Tail(todo)) = "settings" /\ Tail(todo) # <<>>
      BY <2>2
    <3>2. Tail(todo) \in Plan(op)
      BY <2>1, <3>1, Zenon
    <3> QED
      BY <1>4, <3>1, <3>2 DEF Data, Outside, Borrowed, Unkeyed, Transfers
  <2>3. CASE todo = <<"settings">>
    <3>1. todo # <<>> /\ Head(todo) = "settings" /\ Tail(todo) = <<>>
      BY <2>3
    <3> QED
      BY <1>4, <3>1 DEF Data, Outside, Borrowed, Unkeyed, Transfers
  <2> QED
    BY <2>1, <2>2, <2>3, Zenon
<1>5. CASE op = "authenticate_aes"
  <2>1. Plan(op) = {<<"select", "part1", "part2">>, <<"part1", "part2">>, <<"part2">>}
    BY <1>5 DEF Plan
  <2>2. CASE todo = <<"select", "part1", "part2">>
    <3>1. todo # <<>> /\ Head(todo) = "select" /\ Tail(todo) = <<"part1", "part2">>
          /\ Head(Tail(todo)) = "part1" /\ Tail(todo) # <<>>
      BY <2>2
    <3>2. Tail(todo) \in Plan(op)
      BY <2>1, <3>1, Zenon
    <3> QED
      BY <1>5, <3>1, <3>2 DEF Data, Outside, Borrowed, Unkeyed, Transfers
  <2>3. CASE todo = <<"part1", "part2">>
    <3>1. todo # <<>> /\ Head(todo) = "part1" /\ Tail(todo) = <<"part2">>
          /\ Head(Tail(todo)) = "part2" /\ Tail(todo) # <<>>
      BY <2>3
    <3>2. Tail(todo) \in Plan(op)
      BY <2>1, <3>1, Zenon
    <3> QED
      BY <1>5, <3>1, <3>2 DEF Data, Outside, Borrowed, Unkeyed, Transfers
  <2>4. CASE todo = <<"part2">>
    <3>1. todo # <<>> /\ Head(todo) = "part2" /\ Tail(todo) = <<>>
      BY <2>4
    <3> QED
      BY <1>5, <3>1 DEF Data, Outside, Borrowed, Unkeyed, Transfers
  <2> QED
    BY <2>1, <2>2, <2>3, <2>4, Zenon
<1>6. CASE op = "authenticate"
  <2>1. Plan(op) = {<<"part1", "part2">>, <<"part2">>}
    BY <1>6 DEF Plan
  <2>2. CASE todo = <<"part1", "part2">>
    <3>1. todo # <<>> /\ Head(todo) = "part1" /\ Tail(todo) = <<"part2">>
          /\ Head(Tail(todo)) = "part2" /\ Tail(todo) # <<>>
      BY <2>2
    <3>2. Tail(todo) \in Plan(op)
      BY <2>1, <3>1, Zenon
    <3> QED
      BY <1>6, <3>1, <3>2 DEF Data, Outside, Borrowed, Unkeyed, Transfers
  <2>3. CASE todo = <<"part2">>
    <3>1. todo # <<>> /\ Head(todo) = "part2" /\ Tail(todo) = <<>>
      BY <2>3
    <3> QED
      BY <1>6, <3>1 DEF Data, Outside, Borrowed, Unkeyed, Transfers
  <2> QED
    BY <2>1, <2>2, <2>3, Zenon
<1>7. CASE op = "get_version"
  <2>1. Plan(op) = {<<"version1", "version2", "version3">>, <<"version2", "version3">>, <<"version3">>}
    BY <1>7 DEF Plan
  <2>2. CASE todo = <<"version1", "version2", "version3">>
    <3>1. todo # <<>> /\ Head(todo) = "version1" /\ Tail(todo) = <<"version2", "version3">>
          /\ Head(Tail(todo)) = "version2" /\ Tail(todo) # <<>>
      BY <2>2
    <3>2. Tail(todo) \in Plan(op)
      BY <2>1, <3>1, Zenon
    <3> QED
      BY <1>7, <3>1, <3>2 DEF Data, Outside, Borrowed, Unkeyed, Transfers
  <2>3. CASE todo = <<"version2", "version3">>
    <3>1. todo # <<>> /\ Head(todo) = "version2" /\ Tail(todo) = <<"version3">>
          /\ Head(Tail(todo)) = "version3" /\ Tail(todo) # <<>>
      BY <2>3
    <3>2. Tail(todo) \in Plan(op)
      BY <2>1, <3>1, Zenon
    <3> QED
      BY <1>7, <3>1, <3>2 DEF Data, Outside, Borrowed, Unkeyed, Transfers
  <2>4. CASE todo = <<"version3">>
    <3>1. todo # <<>> /\ Head(todo) = "version3" /\ Tail(todo) = <<>>
      BY <2>4
    <3> QED
      BY <1>7, <3>1 DEF Data, Outside, Borrowed, Unkeyed, Transfers
  <2> QED
    BY <2>1, <2>2, <2>3, <2>4, Zenon
<1>8. CASE op \in {"query", "update", "change_master_key", "read_file", "write_file"}
  <2>1. PICK a \in {"query", "update", "master", "read", "write"} :
          /\ todo = <<a>> /\ (a = "read" => op = "read_file") /\ (a = "write" => op = "write_file")
          /\ a \in {"query", "update", "master"} => op \in {"query", "update", "change_master_key"}
          /\ op \in {"read_file", "write_file"} => a \in {"read", "write"}
    BY <1>8 DEF Plan
  <2>2. todo # <<>> /\ Head(todo) = a /\ Tail(todo) = <<>>
    BY <1>1, <2>1, Zenon
  <2> QED
    BY <1>8, <2>1, <2>2 DEF Data, Outside, Borrowed, Unkeyed, Transfers
<1> QED
  BY <1>2, <1>3, <1>4, <1>5, <1>6, <1>7, <1>8 DEF Plan

LEMMA LesserOfTwo ==
  ASSUME NEW a \in Int, NEW b \in Int
  PROVE  Min({a, b}) = IF a <= b THEN a ELSE b
<1>1. \A x \in {a, b} : (\A y \in {a, b} : x <= y) <=> (x = IF a <= b THEN a ELSE b)
  OBVIOUS
<1>2. \E x \in {a, b} : \A y \in {a, b} : x <= y
  OBVIOUS
<1>3. Min({a, b}) \in {a, b} /\ \A y \in {a, b} : Min({a, b}) <= y
  <2> DEFINE P(x) == \A y \in {a, b} : x <= y
  <2>1. \E x \in {a, b} : P(x)
    BY <1>2
  <2>2. Min({a, b}) = CHOOSE x \in {a, b} : P(x)
    BY Zenon DEF Min
  <2> HIDE DEF P
  <2>3. Min({a, b}) \in {a, b} /\ P(Min({a, b}))
    BY <2>1, <2>2, Zenon
  <2> QED
    BY <2>3 DEF P
<1> QED
  BY <1>1, <1>3

(* A chunk is never empty, and always fits an APDU with what the mode adds.  *)
LEMMA ChunkFits ==
  ASSUME ~Idle, WholeInv, Apdu \in Data
  PROVE  /\ cmd.op \in Transfers
         /\ cmd.len \in Nat /\ cmd.done \in Nat /\ ChunkLen \in Nat
         /\ 0 < ChunkLen /\ FitsApdu
         /\ cmd.len = 0 => cmd.done = 0 /\ cmd.op = "read_file" /\ ChunkLen = 256
         /\ cmd.len # 0 => cmd.done < cmd.len /\ cmd.done + ChunkLen <= cmd.len
<1>1. cmd.todo \in Plan(cmd.op) /\ Progress(cmd, fresh, cause)
  BY DEF WholeInv, Prepared
<1>2. /\ Apdu = "iso_read" => cmd.op = "read_file_unauthenticated"
      /\ Apdu = "iso_write" => cmd.op = "write_file_unauthenticated"
      /\ Apdu = "read" => cmd.op = "read_file"
      /\ Apdu = "write" => cmd.op = "write_file"
  BY <1>1, FollowsPlan, Zenon DEF Apdu
<1>3. cmd.op \in Transfers
  BY <1>2 DEF Data, Transfers, Unkeyed
<1>4. /\ cmd.mode \in CommModes /\ cmd.len \in Nat /\ cmd.done \in Nat
      /\ cmd.len = 0 => cmd.done = 0 /\ cmd.mode = "plain" /\ cmd.op = "read_file"
      /\ cmd.len # 0 => cmd.done < cmd.len
  BY <1>1, <1>3 DEF Progress
<1>5. /\ Cap \in Nat /\ 0 < Cap
      /\ Apdu = "read" => Cap = ReadChunk(cmd.mode)
      /\ Apdu = "write" => Cap = WriteChunk(cmd.mode)
      /\ Apdu = "iso_read" => Cap = 256
      /\ Apdu = "iso_write" => Cap = 255
  BY <1>4 DEF Cap, Data, ReadChunk, WriteChunk, CommModes, ISO_READ_BINARY_CHUNK,
              ISO_UPDATE_BINARY_CHUNK
<1>6. cmd.len = 0 => ChunkLen = Cap /\ Apdu = "read" /\ Cap = 256
  BY <1>2, <1>4, <1>5 DEF ChunkLen, Data, ReadChunk
<1>7. ASSUME cmd.len # 0
      PROVE  ChunkLen = IF cmd.len - cmd.done <= Cap THEN cmd.len - cmd.done ELSE Cap
  BY <1>4, <1>5, <1>7, LesserOfTwo DEF ChunkLen
<1>8. ChunkLen \in Nat /\ 0 < ChunkLen /\ ChunkLen <= Cap
      /\ (cmd.len # 0 => cmd.done + ChunkLen <= cmd.len)
  BY <1>4, <1>5, <1>6, <1>7
<1>9. FitsApdu
  <2>1. CASE Apdu = "read"
    <3>1. Body(cmd.mode, ChunkLen) <= 256
      BY <1>4, <1>5, <1>8, <2>1 DEF Body, ReadChunk, CommModes, MAC_LEN, Padded
    <3> QED
      BY <2>1, <3>1 DEF FitsApdu
  <2>2. CASE Apdu = "write"
    <3>1. HEADER + Body(cmd.mode, ChunkLen) <= MAX_APDU_BODY
      BY <1>4, <1>5, <1>8, <2>2 DEF Body, WriteChunk, CommModes, MAC_LEN, HEADER, MAX_APDU_BODY, Padded
    <3> QED
      BY <2>2, <3>1 DEF FitsApdu
  <2>3. CASE Apdu \in {"iso_read", "iso_write"}
    <3>1. ChunkLen <= 256 /\ (Apdu = "iso_write" => ChunkLen <= MAX_APDU_BODY)
      BY <1>5, <1>8, <2>3 DEF MAX_APDU_BODY
    <3> QED
      BY <2>3, <3>1, Zenon DEF FitsApdu
  <2> QED
    BY <2>1, <2>2, <2>3 DEF Data
<1> QED
  BY <1>3, <1>4, <1>6, <1>8, <1>9

(* A tag that was not reset behind the session's back accepts what is sent.  *)
LEMMA AlwaysAccepted ==
  ASSUME ChannelInv, WholeInv, ~Idle, cause # "behind"
  PROVE  Accepts
<1>1. /\ cmd.todo \in Plan(cmd.op) /\ Prepared(cmd, host, tag, cause)
  BY DEF WholeInv, Prepared
<1>2. /\ Apdu # "select" => host.app
      /\ cmd.op \in Unkeyed => cmd.file \in Files
      /\ Apdu \in {"iso_read", "iso_write"} => host.ef = cmd.file
      /\ Apdu = "part2" => tag.pending
      /\ cmd.op \notin Outside => host.kind = "authenticated"
  BY <1>1 DEF Prepared, Apdu
<1>3. /\ Apdu \in {"iso_read", "iso_write"} => cmd.op \in Unkeyed
      /\ Apdu \in {"query", "update", "version1", "version2", "version3", "master", "read", "write"}
           => cmd.op \notin Outside
  BY <1>1, FollowsPlan, Zenon DEF Apdu, Unkeyed, Outside, Borrowed
<1>4. SelectionIsTrue /\ InStep
  BY DEF ChannelInv, ChannelInStep
<1>5. host.kind = "authenticated" => Agree
  BY <1>4 DEF WholeInv, Agree, InStep
<1>6. Secure => Agree
  BY <1>2, <1>3, <1>5 DEF Secure, SecureData
<1>7. Apdu \in Data => FitsApdu
  BY ChunkFits
<1>8. cmd.op = "authenticate" => tag.keys = host.keys
  BY <1>2, <1>5 DEF Outside, Borrowed, Agree
<1>9. Apdu \in {"iso_read", "iso_write"} => tag.ef # NoFile
  BY <1>2, <1>3, <1>4, ChannelAssumption DEF SelectionIsTrue
<1>10. Apdu # "select" => tag.app
  BY <1>2, <1>4 DEF SelectionIsTrue
<1> QED
  BY <1>2, <1>6, <1>7, <1>8, <1>9, <1>10 DEF Accepts

LEMMA BeginsWhole == ChannelInit => WholeInv
<1> SUFFICES ASSUME ChannelInit PROVE WholeInv
  OBVIOUS
<1>1. host.kind = "unauthenticated" /\ cmd.todo = <<>> /\ returned = "none"
  BY Zenon DEF ChannelInit, NewSession
<1> QED
  BY <1>1 DEF WholeInv, Idle, TransfersAreWhole

(* A command that returns an error has a cause to.                           *)
LEMMA GivesUp ==
  ASSUME ChannelInv, WholeInv, ~Idle, NEW why, Abandon(why), cause = "none" => why # "none"
  PROVE  WholeInv'
<1>1. Idle' /\ returned' = "err" /\ cause' # "none"
  BY DEF Abandon, Idle, ChannelInv, Programs, IsCommand
<1>2. host' = NoSession \/ (host' = host /\ host.kind = "unauthenticated")
  BY DEF ChannelInv, Abandon, Idle
<1>3. NoSession.kind = "gone"
  BY Zenon DEF NoSession, NewSession
<1>4. host'.kind # "authenticated"
  BY <1>2, <1>3
<1> QED
  BY <1>1, <1>4, Zenon DEF WholeInv, TransfersAreWhole

(* One that goes on is prepared for its next APDU, or has done its work.     *)
LEMMA GoesOn ==
  ASSUME WholeInv, ~Idle, NEW c, NEW h, Proceed(c, h),
         h.kind = "authenticated" => h.app,
         cause # "behind" /\ h.kind = "authenticated" => tag'.keys = h.keys,
         c.todo # <<>> => Prepared(c, h, tag', cause) /\ Progress(c, fresh', cause),
         c.todo = <<>> => Whole(c, fresh', cause, tag')
  PROVE  WholeInv'
<1>1. cmd' = c /\ host' = h /\ cause' = cause /\ returned' = IF c.todo = <<>> THEN "ok" ELSE returned
  BY Zenon DEF Proceed
<1>2. returned = "busy"
  BY Zenon DEF WholeInv
<1> QED
  BY <1>1, <1>2, Zenon DEF WholeInv, Idle, TransfersAreWhole, Whole

(* What is left when one APDU is answered                                    *)
LEMMA DoneHas ==
  ASSUME IsCommand(cmd)
  PROVE  /\ \A x \in {"op", "file", "mode", "len", "done", "src"} : Done(cmd)[x] = cmd[x]
         /\ Done(cmd).todo = Tail(cmd.todo)
  BY Zenon DEF Done, IsCommand

(* The next APDU of a plan                                                   *)
LEMMA NextPrepared ==
  ASSUME ChannelInv, WholeInv, ~Idle, NEW h, NEW t, Tail(cmd.todo) # <<>>,
         h.kind = host.kind, h.app,
         Apdu = "ef" => h.ef = cmd.file, Apdu = "part1" => t.pending
  PROVE  Prepared(Done(cmd), h, t, cause) /\ Progress(Done(cmd), fresh, cause)
<1>1. Prepared(cmd, host, tag, cause) /\ Progress(cmd, fresh, cause) /\ IsCommand(cmd)
  BY Zenon DEF WholeInv, ChannelInv, Programs
<1>2. /\ Done(cmd).op = cmd.op /\ Done(cmd).file = cmd.file /\ Done(cmd).mode = cmd.mode
      /\ Done(cmd).len = cmd.len /\ Done(cmd).done = cmd.done /\ Done(cmd).src = cmd.src
      /\ Done(cmd).todo = Tail(cmd.todo)
  BY <1>1, DoneHas, Zenon
<1>3. Progress(Done(cmd), fresh, cause)
  BY <1>1, <1>2, Zenon DEF Progress
<1>4. cmd.todo \in Plan(cmd.op)
  BY <1>1 DEF Prepared
<1>5. /\ Tail(cmd.todo) \in Plan(cmd.op)
      /\ Head(Tail(cmd.todo)) \in {"iso_read", "iso_write"} => Apdu = "ef"
      /\ Head(Tail(cmd.todo)) = "part2" => Apdu = "part1"
  BY <1>4, FollowsPlan, Zenon DEF Apdu
<1> QED
  BY <1>1, <1>2, <1>3, <1>5, Zenon DEF Prepared

(* The last one of a command that transfers nothing                          *)
LEMMA LastOfPlan ==
  ASSUME ChannelInv, WholeInv, ~Idle, NEW fr, NEW t,
         Apdu \notin Data \cup {"select", "ef"}
  PROVE  Whole(Done(cmd), fr, cause, t)
<1>1. cmd.todo \in Plan(cmd.op) /\ IsCommand(cmd)
  BY Zenon DEF WholeInv, Prepared, ChannelInv, Programs
<1>2. cmd.op \notin Transfers
  BY <1>1, FollowsPlan, Zenon DEF Apdu
<1>3. Done(cmd).op = cmd.op
  BY <1>1, DoneHas, Zenon
<1> QED
  BY <1>2, <1>3 DEF Whole, Transfers, Unkeyed

LEMMA SelectsWhole == ASSUME ChannelInv, WholeInv, Replied, OnSelected PROVE WholeInv'
<1>1. ~Idle /\ tag' = Reaction /\ Write
  BY DEF Replied
<1>2. /\ cmd.todo \in Plan(cmd.op) /\ Prepared(cmd, host, tag, cause) /\ IsCommand(cmd)
      /\ host \in SessionValue
  BY <1>1, Zenon DEF WholeInv, Prepared, ChannelInv, Programs
<1>3. /\ Apdu \in {"select", "ef"} => Tail(cmd.todo) # <<>> /\ cmd.op \in Outside
      /\ Apdu = "settings" => Tail(cmd.todo) = <<>>
      /\ Apdu # "select" => host.app
  <2>1. /\ Apdu \in {"select", "ef"} => cmd.op \in Outside
        /\ Apdu \in Data \cup {"settings", "part2", "query", "update", "version3", "master"}
             <=> Tail(cmd.todo) = <<>>
    BY <1>2, FollowsPlan, Zenon DEF Apdu
  <2>2. Apdu # "select" => host.app
    BY <1>2, Zenon DEF Prepared, Apdu
  <2> QED
    BY <2>1, <2>2 DEF Data
<1>4. cmd.op \in Outside => host.kind = "unauthenticated"
  BY <1>2 DEF Prepared
<1>5. Done(cmd).todo = Tail(cmd.todo)
  BY <1>2, DoneHas
<1>6. Apdu \in {"select", "ef", "settings"} => fresh' = fresh
  BY <1>1 DEF Write, Stores
<1>7. CASE Apdu = "select" /\ Proceed(Done(cmd), [host EXCEPT !.app = TRUE, !.ef = NoFile])
  <2> DEFINE h == [host EXCEPT !.app = TRUE, !.ef = NoFile]
  <2>1. h.kind = host.kind /\ h.app
    BY <1>2, Zenon DEF SessionValue
  <2>2. Proceed(Done(cmd), h)
    BY <1>7
  <2> HIDE DEF h
  <2>3. Prepared(Done(cmd), h, tag', cause) /\ Progress(Done(cmd), fresh, cause)
    BY <1>1, <1>3, <1>7, <2>1, NextPrepared
  <2> QED
    BY <1>1, <1>3, <1>4, <1>5, <1>6, <1>7, <2>1, <2>2, <2>3, GoesOn, Zenon
<1>8. CASE Apdu = "ef" /\ Proceed(Done(cmd), [host EXCEPT !.ef = cmd.file])
  <2> DEFINE h == [host EXCEPT !.ef = cmd.file]
  <2>1. h.kind = host.kind /\ h.app /\ h.ef = cmd.file
    BY <1>2, <1>3, <1>8, Zenon DEF SessionValue
  <2>2. Proceed(Done(cmd), h)
    BY <1>8
  <2> HIDE DEF h
  <2>3. Prepared(Done(cmd), h, tag', cause) /\ Progress(Done(cmd), fresh, cause)
    BY <1>1, <1>3, <1>8, <2>1, NextPrepared
  <2> QED
    BY <1>1, <1>3, <1>4, <1>5, <1>6, <1>8, <2>1, <2>2, <2>3, GoesOn, Zenon
<1>9. CASE Apdu = "settings" /\ Proceed(Done(cmd), host)
  <2>1. tag' = tag
    BY <1>1, <1>9 DEF Reaction, PlainData, SecureData
  <2>2. Whole(Done(cmd), fresh', cause, tag')
    BY <1>1, <1>9, LastOfPlan DEF Data
  <2> QED
    BY <1>1, <1>3, <1>5, <1>9, <2>1, <2>2, GoesOn, Zenon DEF WholeInv
<1> QED
  BY <1>7, <1>8, <1>9 DEF OnSelected

LEMMA AuthenticatesWhole == ASSUME ChannelInv, WholeInv, Replied, OnAuthenticated PROVE WholeInv'
<1>1. ~Idle /\ tag' = Reaction /\ Write
  BY DEF Replied
<1>2. /\ cmd.todo \in Plan(cmd.op) /\ Prepared(cmd, host, tag, cause) /\ IsCommand(cmd)
      /\ host \in SessionValue /\ tag \in Tag
  BY <1>1, Zenon DEF WholeInv, Prepared, ChannelInv, Programs
<1>3. /\ Apdu = "part1" => Tail(cmd.todo) # <<>>
      /\ Apdu = "part2" => Tail(cmd.todo) = <<>>
      /\ Apdu \in {"part1", "part2"} => host.app
      /\ cmd.op \in Outside => host.kind = "unauthenticated"
      /\ Apdu \in {"part1", "part2"} => cmd.op \in {"authenticate", "authenticate_aes"}
  <2>1. /\ Apdu \in {"part1", "part2"} => cmd.op \in {"authenticate", "authenticate_aes"}
        /\ Apdu \in Data \cup {"settings", "part2", "query", "update", "version3", "master"}
             <=> Tail(cmd.todo) = <<>>
    BY <1>2, FollowsPlan, Zenon DEF Apdu
  <2>2. /\ Apdu # "select" => host.app
        /\ cmd.op \in Outside => host.kind = "unauthenticated"
    BY <1>2, Zenon DEF Prepared, Apdu
  <2> QED
    BY <2>1, <2>2 DEF Data
<1>4. Done(cmd).todo = Tail(cmd.todo)
  BY <1>2, DoneHas
<1>5. Apdu \in {"part1", "part2"} => fresh' = fresh
  BY <1>1 DEF Write, Stores
<1>6. CASE Apdu = "part1" /\ Proceed(Done(cmd), host)
  <2>1. tag' = [tag EXCEPT !.pending = TRUE, !.keys = IF cmd.op = "authenticate" THEN @ ELSE 0]
    BY <1>1, <1>6 DEF Reaction, PlainData, SecureData
  <2>2. tag'.pending /\ (cmd.op = "authenticate" => tag'.keys = tag.keys)
    BY <1>2, <2>1 DEF Tag
  <2>3. Prepared(Done(cmd), host, tag', cause) /\ Progress(Done(cmd), fresh, cause)
    BY <1>1, <1>3, <1>6, <2>2, NextPrepared, Zenon
  <2>4. cause # "behind" /\ host.kind = "authenticated" => tag'.keys = host.keys
    BY <1>3, <1>6, <2>2 DEF WholeInv, Outside
  <2> QED
    BY <1>1, <1>3, <1>4, <1>5, <1>6, <2>3, <2>4, GoesOn, Zenon
<1>7. ASSUME Apdu = "part2" PROVE tag'.keys = shake /\ Whole(Done(cmd), fresh', cause, tag')
  <2>1. tag' = [tag EXCEPT !.pending = FALSE, !.keys = shake,
                           !.ctr = IF cmd.op = "authenticate" THEN @ ELSE 0]
    BY <1>1, <1>7 DEF Reaction, PlainData, SecureData
  <2>2. tag'.keys = shake
    BY <1>2, <2>1, Zenon DEF Tag
  <2> QED
    BY <1>1, <1>7, <2>2, LastOfPlan DEF Data
<1>8. CASE /\ Apdu = "part2" /\ cmd.op = "authenticate_aes"
           /\ Proceed(Done(cmd), [host EXCEPT !.kind = "authenticated", !.keys = shake, !.ctr = 0,
                                              !.app = TRUE])
  <2> DEFINE h == [host EXCEPT !.kind = "authenticated", !.keys = shake, !.ctr = 0, !.app = TRUE]
  <2>1. h.keys = shake /\ h.app
    BY <1>2, Zenon DEF SessionValue
  <2>2. Proceed(Done(cmd), h)
    BY <1>8
  <2> HIDE DEF h
  <2> QED
    BY <1>1, <1>3, <1>4, <1>7, <1>8, <2>1, <2>2, GoesOn, Zenon
<1>9. CASE Apdu = "part2" /\ cmd.op = "authenticate" /\ Proceed(Done(cmd), [host EXCEPT !.keys = shake])
  <2> DEFINE h == [host EXCEPT !.keys = shake]
  <2>1. h.keys = shake /\ h.app
    BY <1>2, <1>3, <1>9, Zenon DEF SessionValue
  <2>2. Proceed(Done(cmd), h)
    BY <1>9
  <2> HIDE DEF h
  <2> QED
    BY <1>1, <1>3, <1>4, <1>7, <1>9, <2>1, <2>2, GoesOn, Zenon
<1> QED
  BY <1>6, <1>8, <1>9 DEF OnAuthenticated

(* Where the MACs agreed before, they do after: a tag that accepts a command *)
(* and answers it has the answer accepted.                                   *)
LEMMA VerifiesWhole ==
  ASSUME ChannelInv, Agree, Reaction = Advanced(tag), NEW bare, NEW c, Verified(bare, c)
  PROVE  /\ Proceed(c, advance_counter(host))
         /\ advance_counter(host).kind = host.kind /\ advance_counter(host).keys = host.keys
         /\ advance_counter(host).app = host.app /\ advance_counter(host).ef = host.ef
         /\ Reaction.keys = tag.keys /\ Reaction.emulated = tag.emulated
<1>1. Reaction.keys = tag.keys /\ Reaction.ctr = tag.ctr + 1 /\ Reaction.emulated = tag.emulated
  BY DEF Advanced, ChannelInv, Tag
<1>2. Proceed(c, advance_counter(host))
  BY <1>1 DEF Verified, Agree
<1>3. /\ advance_counter(host).kind = host.kind /\ advance_counter(host).keys = host.keys
      /\ advance_counter(host).app = host.app /\ advance_counter(host).ef = host.ef
  BY DEF advance_counter, ChannelInv, SessionValue
<1> QED
  BY <1>1, <1>2, <1>3, Zenon

LEMMA CommandsWhole ==
  ASSUME ChannelInv, WholeInv, Replied, NEW bare, OnCommand(bare) PROVE WholeInv'
<1>1. ~Idle /\ tag' = Reaction /\ Write /\ Accepts
  BY DEF Replied
<1>2. /\ cmd.todo \in Plan(cmd.op) /\ IsCommand(cmd) /\ tag \in Tag
  BY <1>1, Zenon DEF WholeInv, Prepared, ChannelInv, Programs
<1>3. /\ Apdu \in {"version1", "version2"} => Tail(cmd.todo) # <<>> /\ host.app
      /\ Apdu \in {"query", "update", "version3", "master"} => Tail(cmd.todo) = <<>>
  <2>1. Apdu \in Data \cup {"settings", "part2", "query", "update", "version3", "master"}
          <=> Tail(cmd.todo) = <<>>
    BY <1>2, FollowsPlan, Zenon DEF Apdu
  <2>2. Apdu # "select" => host.app
    BY <1>1, Zenon DEF WholeInv, Prepared, Apdu
  <2> QED
    BY <2>1, <2>2 DEF Data
<1>4. Done(cmd).todo = Tail(cmd.todo)
  BY <1>2, DoneHas
<1>5. Apdu \in {"version1", "version2"} => fresh' = fresh
  BY <1>1 DEF Write, Stores
<1>6. CASE Apdu \in {"version1", "version2"} /\ Proceed(Done(cmd), host)
  <2>1. tag' = tag
    BY <1>1, <1>6 DEF Reaction, PlainData, SecureData
  <2>2. Prepared(Done(cmd), host, tag', cause) /\ Progress(Done(cmd), fresh, cause)
    BY <1>1, <1>3, <1>6, NextPrepared, Zenon
  <2> QED
    BY <1>1, <1>3, <1>4, <1>5, <1>6, <2>1, <2>2, GoesOn, Zenon DEF WholeInv
<1>7. Apdu \in {"query", "update", "version3", "master"} => Whole(Done(cmd), fresh', cause, tag')
  BY <1>1, LastOfPlan DEF Data
<1>8. CASE Apdu = "master" /\ Proceed(Done(cmd), NewSession)
  <2>1. NewSession.kind # "authenticated"
    BY DEF NewSession
  <2> QED
    BY <1>1, <1>3, <1>4, <1>7, <1>8, <2>1, GoesOn, Zenon
<1>9. CASE Apdu \in {"query", "version3", "update"}
  <2>1. Reaction = Advanced(tag) /\ Agree
    BY <1>1, <1>9 DEF Reaction, PlainData, SecureData, Accepts, Secure
  <2>2. ASSUME NEW b, Verified(b, Done(cmd)) PROVE WholeInv'
    <3> DEFINE h == advance_counter(host)
    <3>1. Proceed(Done(cmd), h) /\ h.kind = host.kind /\ h.keys = host.keys /\ h.app = host.app
          /\ tag'.keys = tag.keys
      BY <1>1, <2>1, <2>2, VerifiesWhole, Zenon
    <3> HIDE DEF h
    <3>2. /\ h.kind = "authenticated" => h.app
          /\ cause # "behind" /\ h.kind = "authenticated" => tag'.keys = h.keys
      BY <3>1, Zenon DEF WholeInv
    <3> QED
      BY <1>1, <1>3, <1>4, <1>7, <1>9, <3>1, <3>2, GoesOn, Zenon
  <2>3. CASE Abandon("fault")
    BY <1>1, <2>3, GivesUp
  <2> QED
    BY <1>9, <2>2, <2>3, Zenon DEF OnCommand
<1> QED
  BY <1>6, <1>8, <1>9, Zenon DEF OnCommand

(* The command after a chunk                                                 *)
LEMMA ChunkLeaves ==
  ASSUME IsCommand(cmd), NEW n
  PROVE  /\ \A x \in {"op", "file", "mode", "len"} : Took(n)[x] = cmd[x] /\ Put[x] = cmd[x]
         /\ Took(n).done = cmd.done + n /\ Put.done = cmd.done + ChunkLen
         /\ Took(n).src = cmd.src \cup {tag.ef}
         /\ Took(n).todo = IF n < ChunkLen \/ cmd.len = 0 \/ cmd.done + n = cmd.len
                             THEN Tail(cmd.todo) ELSE cmd.todo
         /\ Put.todo = IF cmd.done + ChunkLen = cmd.len THEN Tail(cmd.todo) ELSE cmd.todo
<1> DEFINE read == [cmd EXCEPT !.done = @ + n, !.src = @ \cup {tag.ef}]
           written == [cmd EXCEPT !.done = @ + ChunkLen]
<1>1. /\ \A x \in {"op", "file", "mode", "len", "todo"} : read[x] = cmd[x]
      /\ read.done = cmd.done + n /\ read.src = cmd.src \cup {tag.ef} /\ IsCommand(read)
  BY Zenon DEF IsCommand
<1>2. /\ \A x \in {"op", "file", "mode", "len", "todo"} : written[x] = cmd[x]
      /\ written.done = cmd.done + ChunkLen /\ IsCommand(written)
  BY Zenon DEF IsCommand
<1>3. ASSUME NEW c, IsCommand(c)
      PROVE  /\ \A x \in {"op", "file", "mode", "len", "done", "src"} : Done(c)[x] = c[x]
             /\ Done(c).todo = Tail(c.todo)
  BY <1>3, Zenon DEF Done, IsCommand
<1>4. /\ Took(n) = IF n < ChunkLen \/ cmd.len = 0 \/ read.done = cmd.len THEN Done(read) ELSE read
      /\ Put = IF written.done = cmd.len THEN Done(written) ELSE written
  BY Zenon DEF Took, Put
<1> HIDE DEF read, written
<1>5. /\ \A x \in {"op", "file", "mode", "len"} : Took(n)[x] = cmd[x]
      /\ Took(n).done = cmd.done + n /\ Took(n).src = cmd.src \cup {tag.ef}
      /\ Took(n).todo = IF n < ChunkLen \/ cmd.len = 0 \/ cmd.done + n = cmd.len
                          THEN Tail(cmd.todo) ELSE cmd.todo
  <2>1. CASE n < ChunkLen \/ cmd.len = 0 \/ cmd.done + n = cmd.len
    <3>1. Took(n) = Done(read)
      BY <1>1, <1>4, <2>1, Zenon
    <3>2. /\ \A x \in {"op", "file", "mode", "len", "done", "src"} : Done(read)[x] = read[x]
          /\ Done(read).todo = Tail(read.todo)
      BY <1>1, <1>3, Zenon
    <3> QED
      BY <1>1, <2>1, <3>1, <3>2, Zenon
  <2>2. CASE ~(n < ChunkLen \/ cmd.len = 0 \/ cmd.done + n = cmd.len)
    BY <1>1, <1>4, <2>2, Zenon
  <2> QED
    BY <2>1, <2>2, Zenon
<1>6. /\ \A x \in {"op", "file", "mode", "len"} : Put[x] = cmd[x]
      /\ Put.done = cmd.done + ChunkLen
      /\ Put.todo = IF cmd.done + ChunkLen = cmd.len THEN Tail(cmd.todo) ELSE cmd.todo
  <2>1. CASE cmd.done + ChunkLen = cmd.len
    <3>1. Put = Done(written)
      BY <1>2, <1>4, <2>1, Zenon
    <3>2. /\ \A x \in {"op", "file", "mode", "len", "done", "src"} : Done(written)[x] = written[x]
          /\ Done(written).todo = Tail(written.todo)
      BY <1>2, <1>3, Zenon
    <3> QED
      BY <1>2, <2>1, <3>1, <3>2, Zenon
  <2>2. CASE cmd.done + ChunkLen # cmd.len
    BY <1>2, <1>4, <2>2, Zenon
  <2> QED
    BY <2>1, <2>2, Zenon
<1> QED
  BY <1>5, <1>6, Zenon

(* A chunk that was read brings the end nearer, and the last one is the end  *)
(* of the file or of what was asked for.                                     *)
LEMMA ReadsOn ==
  ASSUME ChannelInv, WholeInv, ~Idle, Apdu \in {"read", "iso_read"},
         NEW n, n = Served \/ (n = 0 /\ tag.emulated /\ cmd.mode = "mac")
  PROVE  /\ Took(n).todo # <<>> => Took(n).todo = cmd.todo /\ Progress(Took(n), fresh, cause)
         /\ Took(n).todo = <<>> => Whole(Took(n), fresh, cause, tag)
<1> DEFINE c == Took(n)
<1>1. /\ cmd.todo \in Plan(cmd.op) /\ IsCommand(cmd) /\ Prepared(cmd, host, tag, cause)
      /\ Progress(cmd, fresh, cause)
  <2>1. IsCommand(cmd)
    BY Zenon DEF ChannelInv, Programs
  <2>2. Prepared(cmd, host, tag, cause) /\ Progress(cmd, fresh, cause)
    BY Zenon DEF WholeInv
  <2> QED
    BY <2>1, <2>2, Zenon DEF Prepared
<1>2. /\ Apdu = "iso_read" => cmd.op = "read_file_unauthenticated"
      /\ Apdu = "read" => cmd.op = "read_file"
      /\ Tail(cmd.todo) = <<>> /\ cmd.todo # <<>>
  <2>1. /\ Apdu = "iso_read" => cmd.op = "read_file_unauthenticated"
        /\ Apdu = "read" => cmd.op = "read_file"
        /\ Apdu \in Data \cup {"settings", "part2", "query", "update", "version3", "master"}
             <=> Tail(cmd.todo) = <<>>
    BY <1>1, FollowsPlan, Zenon DEF Apdu
  <2> QED
    BY <2>1 DEF Data, Idle
<1>3. cmd.op \in {"read_file", "read_file_unauthenticated"}
  BY <1>2
<1>4. /\ c.op = cmd.op /\ c.file = cmd.file /\ c.mode = cmd.mode /\ c.len = cmd.len
      /\ c.done = cmd.done + n /\ c.src = cmd.src \cup {tag.ef}
      /\ c.todo = IF n < ChunkLen \/ cmd.len = 0 \/ cmd.done + n = cmd.len
                    THEN <<>> ELSE cmd.todo
  BY <1>1, <1>2, ChunkLeaves, Zenon
<1>5. /\ cmd.len \in Nat /\ cmd.done \in Nat /\ ChunkLen \in Nat /\ 0 < ChunkLen
      /\ cmd.len = 0 => cmd.done = 0 /\ cmd.op = "read_file" /\ ChunkLen = 256
      /\ cmd.len # 0 => cmd.done < cmd.len /\ cmd.done + ChunkLen <= cmd.len
      /\ cmd.op \in Transfers
  BY ChunkFits DEF Data
<1>6. cmd.done <= FileSize /\ FileSize \in 1..256 /\ cmd.mode \in CommModes
  BY <1>1, <1>3, <1>5, ChannelAssumption, Zenon DEF Progress
<1>7. Served = IF ChunkLen <= FileSize - cmd.done THEN ChunkLen ELSE FileSize - cmd.done
  BY <1>5, <1>6, LesserOfTwo DEF Served
<1>8. n \in Nat /\ n <= ChunkLen /\ cmd.done + n <= FileSize
  BY <1>5, <1>6, <1>7
<1>9. cmd.op = "read_file_unauthenticated" => c.src = {cmd.file} \/ cause = "behind"
  <2>1. ASSUME cmd.op = "read_file_unauthenticated", cause # "behind" PROVE c.src = {cmd.file}
    <3>1. Apdu = "iso_read"
      BY <1>2, <2>1
    <3>2. host.ef = cmd.file /\ cmd.file \in Files
      BY <1>1, <2>1, <3>1 DEF Prepared, Apdu, Unkeyed
    <3>3. tag.ef = cmd.file
      BY <2>1, <3>2, ChannelAssumption DEF ChannelInv, ChannelInStep, SelectionIsTrue
    <3>4. cmd.src \subseteq {cmd.file}
      BY <1>1, <2>1, Zenon DEF Progress
    <3> QED
      BY <1>4, <3>3, <3>4
  <2> QED
    BY <2>1
<1>10. ASSUME c.todo # <<>> PROVE c.todo = cmd.todo /\ Progress(c, fresh, cause)
  <2>1. n = ChunkLen /\ cmd.len # 0 /\ cmd.done + n # cmd.len /\ c.todo = cmd.todo
    BY <1>4, <1>5, <1>8, <1>10
  <2>2. /\ c.len \in Nat /\ c.len # 0 /\ c.done \in Nat /\ c.done < c.len /\ c.done <= FileSize
        /\ c.mode \in CommModes
    <3>1. c.len = cmd.len /\ c.done = cmd.done + n /\ c.mode = cmd.mode
      BY <1>4, Zenon
    <3>2. cmd.len \in Nat /\ cmd.len # 0 /\ cmd.mode \in CommModes
      BY <1>5, <1>6, <2>1, Zenon
    <3>3. cmd.done + n \in Nat /\ cmd.done + n < cmd.len
      <4>1. cmd.done \in Nat /\ n \in Nat /\ cmd.len \in Nat /\ cmd.done + n <= cmd.len
        BY <1>5, <2>1, Zenon
      <4> QED
        BY <2>1, <4>1
    <3>4. cmd.done + n <= FileSize
      BY <1>5, <1>6, <1>8
    <3> QED
      BY <3>1, <3>2, <3>3, <3>4, Zenon
  <2>3. c.op = "read_file_unauthenticated" => c.src \subseteq {c.file} \/ cause = "behind"
    BY <1>4, <1>9, Zenon
  <2>4. c.op \notin {"write_file", "write_file_unauthenticated"}
    BY <1>3, <1>4
  <2> HIDE DEF c
  <2> QED
    BY <2>1, <2>2, <2>3, <2>4, Zenon DEF Progress
<1>11. ASSUME c.todo = <<>> PROVE Whole(c, fresh, cause, tag)
  <2>1. n < ChunkLen \/ cmd.len = 0 \/ cmd.done + n = cmd.len
    BY <1>2, <1>4, <1>11
  <2>2. Min({cmd.len, FileSize}) = IF cmd.len <= FileSize THEN cmd.len ELSE FileSize
    BY <1>5, <1>6, LesserOfTwo
  <2>3. CASE n = Served
    <3>1. cmd.done + n = IF cmd.len = 0 THEN FileSize ELSE Min({cmd.len, FileSize})
      BY <1>5, <1>6, <1>7, <2>1, <2>2, <2>3
    <3>2. c.done = IF c.len = 0 THEN FileSize ELSE Min({c.len, FileSize})
      BY <1>4, <3>1, Zenon
    <3>3. c.op = "read_file_unauthenticated" => c.src = {c.file} \/ cause = "behind"
      BY <1>4, <1>9, Zenon
    <3>4. c.op \notin {"write_file", "write_file_unauthenticated"}
      BY <1>3, <1>4
    <3> HIDE DEF c
    <3> QED
      BY <3>2, <3>3, <3>4, Zenon DEF Whole
  <2>4. CASE n = 0 /\ tag.emulated /\ cmd.mode = "mac"
    <3>1. c.mode = "mac"
      BY <1>4, <2>4
    <3>2. c.op = "read_file_unauthenticated" => c.src = {c.file} \/ cause = "behind"
      BY <1>4, <1>9, Zenon
    <3>3. c.op \notin {"write_file", "write_file_unauthenticated"}
      BY <1>3, <1>4
    <3> HIDE DEF c
    <3> QED
      BY <2>4, <3>1, <3>2, <3>3, Zenon DEF Whole
  <2> QED
    BY <2>3, <2>4
<1> QED
  BY <1>10, <1>11, Zenon

(* A chunk that was written follows those before it.                         *)
LEMMA WritesOn ==
  ASSUME ChannelInv, WholeInv, ~Idle, Apdu \in {"write", "iso_write"}, Write
  PROVE  /\ Put.todo # <<>> => Put.todo = cmd.todo /\ Progress(Put, fresh', cause)
         /\ Put.todo = <<>> => Whole(Put, fresh', cause, tag)
<1> DEFINE c == Put
<1>1. /\ cmd.todo \in Plan(cmd.op) /\ IsCommand(cmd) /\ Prepared(cmd, host, tag, cause)
      /\ Progress(cmd, fresh, cause)
  <2>1. IsCommand(cmd)
    BY Zenon DEF ChannelInv, Programs
  <2>2. Prepared(cmd, host, tag, cause) /\ Progress(cmd, fresh, cause)
    BY Zenon DEF WholeInv
  <2> QED
    BY <2>1, <2>2, Zenon DEF Prepared
<1>2. /\ Apdu = "iso_write" => cmd.op = "write_file_unauthenticated"
      /\ Apdu = "write" => cmd.op = "write_file"
      /\ Tail(cmd.todo) = <<>> /\ cmd.todo # <<>>
  <2>1. /\ Apdu = "iso_write" => cmd.op = "write_file_unauthenticated"
        /\ Apdu = "write" => cmd.op = "write_file"
        /\ Apdu \in Data \cup {"settings", "part2", "query", "update", "version3", "master"}
             <=> Tail(cmd.todo) = <<>>
    BY <1>1, FollowsPlan, Zenon DEF Apdu
  <2> QED
    BY <2>1 DEF Data, Idle
<1>3. /\ c.op = cmd.op /\ c.file = cmd.file /\ c.mode = cmd.mode /\ c.len = cmd.len
      /\ c.done = cmd.done + ChunkLen
      /\ c.todo = IF cmd.done + ChunkLen = cmd.len THEN <<>> ELSE cmd.todo
  BY <1>1, <1>2, ChunkLeaves, Zenon
<1>4. /\ cmd.len \in Nat /\ cmd.done \in Nat /\ ChunkLen \in Nat /\ 0 < ChunkLen
      /\ cmd.len # 0
      /\ cmd.done < cmd.len /\ cmd.done + ChunkLen <= cmd.len
      /\ cmd.op \in Transfers
  BY <1>2, ChunkFits DEF Data
<1>5. cmd.mode \in CommModes
  BY <1>1, <1>4, Zenon DEF Progress
<1>6. fresh' = c.done \/ (cmd.op = "write_file_unauthenticated" /\ cause = "behind")
  <2>1. CASE Apdu = "write"
    <3>1. fresh = cmd.done
      BY <1>1, <1>2, <2>1, Zenon DEF Progress
    <3> QED
      BY <1>3, <2>1, <3>1 DEF Write, Stores
  <2>2. CASE Apdu = "iso_write" /\ cause # "behind"
    <3>1. fresh = cmd.done
      BY <1>1, <1>2, <2>2 DEF Progress
    <3>2. host.ef = cmd.file /\ cmd.file \in Files
      BY <1>1, <1>2, <2>2 DEF Prepared, Apdu, Unkeyed
    <3>3. tag.ef = cmd.file
      BY <2>2, <3>2, ChannelAssumption DEF ChannelInv, ChannelInStep, SelectionIsTrue
    <3> QED
      BY <1>3, <2>2, <3>1, <3>3 DEF Write, Stores
  <2> QED
    BY <1>2, <2>1, <2>2
<1>7. ASSUME c.todo # <<>> PROVE c.todo = cmd.todo /\ Progress(c, fresh', cause)
  <2>1. cmd.done + ChunkLen # cmd.len /\ c.todo = cmd.todo
    BY <1>3, <1>7
  <2>2. /\ c.len \in Nat /\ c.len # 0 /\ c.done \in Nat /\ c.done < c.len /\ c.mode \in CommModes
    BY <1>3, <1>4, <1>5, <2>1
  <2>3. c.op \in {"write_file", "write_file_unauthenticated"} /\ c.op = cmd.op
    BY <1>2, <1>3
  <2> HIDE DEF c
  <2> QED
    BY <1>6, <2>1, <2>2, <2>3 DEF Progress
<1>8. ASSUME c.todo = <<>> PROVE Whole(c, fresh', cause, tag)
  <2>1. c.done = c.len
    BY <1>2, <1>3, <1>8
  <2>2. c.op \in {"write_file", "write_file_unauthenticated"} /\ c.op = cmd.op
    BY <1>2, <1>3
  <2> HIDE DEF c
  <2> QED
    BY <1>6, <2>1, <2>2 DEF Whole
<1> QED
  BY <1>7, <1>8

(* A chunk leaves session and tag as they were, but for the counters.        *)
LEMMA ChunkGoesOn ==
  ASSUME ChannelInv, WholeInv, ~Idle, Apdu \in Data,
         NEW c, NEW h, Proceed(c, h), c.op = cmd.op, c.file = cmd.file,
         h.kind = host.kind, h.keys = host.keys, h.app = host.app, h.ef = host.ef,
         tag'.keys = tag.keys, tag'.emulated = tag.emulated,
         c.todo # <<>> => c.todo = cmd.todo /\ Progress(c, fresh', cause),
         c.todo = <<>> => Whole(c, fresh', cause, tag)
  PROVE  WholeInv'
<1>1. /\ h.kind = "authenticated" => h.app
      /\ cause # "behind" /\ h.kind = "authenticated" => tag'.keys = h.keys
  BY Zenon DEF WholeInv
<1>2. ASSUME c.todo # <<>> PROVE Prepared(c, h, tag', cause)
  <2>1. Prepared(cmd, host, tag, cause) /\ Head(cmd.todo) # "part2"
    BY Zenon DEF WholeInv, Data, Apdu
  <2> QED
    BY <1>2, <2>1, Zenon DEF Prepared
<1>3. c.todo = <<>> => Whole(c, fresh', cause, tag')
  BY Zenon DEF Whole
<1> QED
  BY <1>1, <1>2, <1>3, GoesOn, Zenon

LEMMA TransfersWhole ==
  ASSUME ChannelInv, WholeInv, Replied, NEW bare \in {FALSE, tag.emulated}, OnData(bare)
  PROVE  WholeInv'
<1>1. ~Idle /\ tag' = Reaction /\ Write /\ Accepts /\ tag \in Tag /\ host \in SessionValue
  BY Zenon DEF Replied, ChannelInv
<1>2. Apdu \in Data
  BY Zenon DEF OnData, Data, IsoRead, IsoWrite, PlainRead, PlainWrite, MacRead, FullRead, SecureWrite
<1>3. IsCommand(cmd)
  BY DEF ChannelInv, Programs
<1>4. ASSUME NEW n, NEW c \in {Took(n), Put} PROVE c.op = cmd.op /\ c.file = cmd.file
  BY <1>3, <1>4, ChunkLeaves, Zenon
<1>5. Apdu \in {"read", "iso_read"} => fresh' = fresh
  BY <1>1 DEF Write, Stores
<1>6. ASSUME NEW h, h.kind = host.kind, h.keys = host.keys, h.app = host.app, h.ef = host.ef,
             tag'.keys = tag.keys, tag'.emulated = tag.emulated,
             \/ /\ Apdu \in {"read", "iso_read"}
                /\ \E n : /\ n = Served \/ (n = 0 /\ tag.emulated /\ cmd.mode = "mac")
                          /\ Proceed(Took(n), h)
             \/ Apdu \in {"write", "iso_write"} /\ Proceed(Put, h)
      PROVE  WholeInv'
  <2>1. CASE /\ Apdu \in {"read", "iso_read"}
             /\ \E n : /\ n = Served \/ (n = 0 /\ tag.emulated /\ cmd.mode = "mac")
                       /\ Proceed(Took(n), h)
    <3>1. PICK n : /\ n = Served \/ (n = 0 /\ tag.emulated /\ cmd.mode = "mac")
                   /\ Proceed(Took(n), h)
      BY <2>1
    <3>2. /\ Took(n).todo # <<>> => Took(n).todo = cmd.todo /\ Progress(Took(n), fresh, cause)
          /\ Took(n).todo = <<>> => Whole(Took(n), fresh, cause, tag)
      BY <1>1, <2>1, <3>1, ReadsOn, Zenon
    <3>3. Took(n).op = cmd.op /\ Took(n).file = cmd.file
      BY <1>4
    <3> QED
      BY <1>1, <1>2, <1>5, <1>6, <2>1, <3>1, <3>2, <3>3, ChunkGoesOn, Zenon
  <2>2. CASE Apdu \in {"write", "iso_write"} /\ Proceed(Put, h)
    <3>1. /\ Put.todo # <<>> => Put.todo = cmd.todo /\ Progress(Put, fresh', cause)
          /\ Put.todo = <<>> => Whole(Put, fresh', cause, tag)
      BY <1>1, <2>2, WritesOn
    <3>2. Put.op = cmd.op /\ Put.file = cmd.file
      BY <1>4
    <3> QED
      BY <1>1, <1>2, <1>6, <2>2, <3>1, <3>2, ChunkGoesOn, Zenon
  <2> QED
    BY <1>6, <2>1, <2>2
<1>7. CASE Apdu \in {"iso_read", "iso_write"}
  <2>1. tag' = tag
    BY <1>1, <1>7 DEF Reaction, PlainData, SecureData
  <2>2. (Apdu = "iso_read" /\ Proceed(Took(Served), host)) \/ (Apdu = "iso_write" /\ Proceed(Put, host))
    BY <1>7, Zenon DEF OnData, IsoRead, IsoWrite, PlainRead, PlainWrite, MacRead, FullRead, SecureWrite
  <2> QED
    BY <1>6, <2>1, <2>2, Zenon
<1>8. CASE PlainData
  <2>1. tag' = IF tag.keys # 0 /\ ~tag.emulated THEN Advanced(tag) ELSE tag
    BY <1>1, <1>8 DEF Reaction, PlainData, SecureData
  <2>2. tag'.keys = tag.keys /\ tag'.emulated = tag.emulated
    BY <1>1, <2>1 DEF Advanced, Tag
  <2>3. (Apdu = "read" /\ Proceed(Took(Served), AfterPlain)) \/ (Apdu = "write" /\ Proceed(Put, AfterPlain))
    BY <1>8, Zenon DEF OnData, PlainData, IsoRead, IsoWrite, PlainRead, PlainWrite, MacRead, FullRead,
                SecureWrite
  <2>4. /\ AfterPlain.kind = host.kind /\ AfterPlain.keys = host.keys
        /\ AfterPlain.app = host.app /\ AfterPlain.ef = host.ef
    BY <1>1 DEF AfterPlain, advance_counter, SessionValue
  <2> QED
    BY <1>6, <2>2, <2>3, <2>4, Zenon
<1>9. CASE SecureData
  <2>1. Reaction = Advanced(tag) /\ Agree
    BY <1>1, <1>9 DEF Reaction, PlainData, SecureData, Accepts, Secure
  <2>2. CASE Abandon("request")
    BY <1>1, <2>2, GivesUp
  <2>3. CASE \E b, c : /\ Verified(b, c)
                       /\ \/ Apdu = "write" /\ c = Put
                          \/ /\ Apdu = "read"
                             /\ \E n : /\ n = Served \/ (n = 0 /\ tag.emulated /\ cmd.mode = "mac")
                                       /\ c = Took(n)
    <3>1. PICK b, c : /\ Verified(b, c)
                      /\ \/ Apdu = "write" /\ c = Put
                         \/ /\ Apdu = "read"
                            /\ \E n : /\ n = Served \/ (n = 0 /\ tag.emulated /\ cmd.mode = "mac")
                                      /\ c = Took(n)
      BY <2>3
    <3> DEFINE h == advance_counter(host)
    <3>2. /\ Proceed(c, h) /\ h.kind = host.kind /\ h.keys = host.keys /\ h.app = host.app
          /\ h.ef = host.ef
          /\ tag'.keys = tag.keys /\ tag'.emulated = tag.emulated
      BY <1>1, <2>1, <3>1, VerifiesWhole, Zenon
    <3> HIDE DEF h
    <3> QED
      BY <1>6, <3>1, <3>2, Zenon
  <2>4. CASE MacRead(bare)
    <3>1. (IF bare THEN 0 ELSE Served) = Served \/ ((IF bare THEN 0 ELSE Served) = 0 /\ tag.emulated)
      BY Zenon
    <3> QED
      BY <2>3, <2>4, <3>1, Zenon DEF MacRead
  <2>5. CASE FullRead(bare)
    BY <2>2, <2>3, <2>5, Zenon DEF FullRead
  <2>6. CASE SecureWrite(bare)
    BY <2>3, <2>6, Zenon DEF SecureWrite
  <2> QED
    BY <1>9, <2>4, <2>5, <2>6, Zenon DEF OnData, SecureData, IsoRead, IsoWrite, PlainRead, PlainWrite
<1> QED
  BY <1>2, <1>7, <1>8, <1>9 DEF Data, PlainData, SecureData

LEMMA FailsWhole ==
  ASSUME ChannelInv, WholeInv, Rejected \/ Refused \/ RequestLost \/ ReplyLost
  PROVE  WholeInv'
<1>1. ~Idle
  BY DEF Rejected, Refused, RequestLost, ReplyLost, Fault
<1>2. CASE Rejected
  <2>1. cause = "behind"
    BY <1>1, <1>2, AlwaysAccepted DEF Rejected
  <2> QED
    BY <1>1, <1>2, <2>1, GivesUp DEF Rejected
<1>3. CASE Refused
  BY <1>1, <1>3, GivesUp DEF Refused, Fault
<1>4. CASE RequestLost
  BY <1>1, <1>4, GivesUp DEF RequestLost, Fault
<1>5. CASE ReplyLost
  <2>1. Abandon(IF Apdu = "ef" THEN "behind" ELSE "fault")
    BY <1>5 DEF ReplyLost, Fault
  <2> QED
    BY <1>1, <2>1, GivesUp
<1> QED
  BY <1>2, <1>3, <1>4, <1>5

(* A command begins with a plan that suits the session.                      *)
LEMMA InvokesWhole ==
  ASSUME ChannelInv, WholeInv, NEW op, NEW f, NEW m \in CommModes, NEW n \in Nat,
         NEW todo \in Plan(op), Invoke(op, f, m, n, todo),
         host.kind = IF op \in Outside THEN "unauthenticated" ELSE "authenticated",
         op \in Unkeyed => f \in Files,
         Head(todo) # "part2",
         Head(todo) # "select" => host.app,
         Head(todo) \in {"iso_read", "iso_write"} => host.ef = f,
         op \in Transfers /\ n = 0 => m = "plain" /\ op = "read_file"
  PROVE  WholeInv'
<1> DEFINE c == [op |-> op, file |-> f, mode |-> m, len |-> n, done |-> 0, src |-> {},
                 todo |-> todo]
<1>1. /\ cmd' = c /\ host' = host /\ tag' = tag /\ returned' = "busy"
      /\ cause' = "behind" <=> cause = "behind"
      /\ op \in {"write_file", "write_file_unauthenticated"} => fresh' = 0
  BY Zenon DEF Invoke
<1>2. /\ c.op = op /\ c.file = f /\ c.mode = m /\ c.len = n /\ c.done = 0 /\ c.src = {}
      /\ c.todo = todo
  OBVIOUS
<1> HIDE DEF c
<1>3. Prepared(c, host, tag, cause')
  BY <1>2, Zenon DEF Prepared
<1>4. 0 <= FileSize /\ n # 0 => 0 < n
  BY ChannelAssumption
<1>5. Progress(c, fresh', cause')
  <2>1. c.op \in Transfers =>
          /\ c.mode \in CommModes /\ c.len \in Nat /\ c.done \in Nat
          /\ c.len = 0 => c.done = 0 /\ c.mode = "plain" /\ c.op = "read_file"
          /\ c.len # 0 => c.done < c.len
    BY <1>2, <1>4
  <2>2. c.done <= FileSize
    BY <1>2, ChannelAssumption
  <2>3. c.op \in {"write_file", "write_file_unauthenticated"} => fresh' = c.done
    BY <1>1, <1>2, Zenon
  <2>4. c.src \subseteq {c.file}
    BY <1>2
  <2> QED
    BY <2>1, <2>2, <2>3, <2>4, Zenon DEF Progress
<1>6. Prepared(cmd', host', tag', cause') /\ Progress(cmd', fresh', cause')
  BY <1>1, <1>3, <1>5, Zenon
<1>7. /\ host'.kind = "authenticated" => host'.app
      /\ cause' # "behind" /\ host'.kind = "authenticated" => tag'.keys = host'.keys
  BY <1>1, Zenon DEF WholeInv
<1>8. TransfersAreWhole'
  BY <1>1 DEF TransfersAreWhole
<1> QED
  BY <1>1, <1>6, <1>7, <1>8, Zenon DEF WholeInv

LEMMA EqualSequences ==
  ASSUME NEW S, NEW s \in Seq(S), NEW t \in Seq(S), Len(s) = Len(t),
         \A i \in 1..Len(s) : s[i] = t[i]
  PROVE  s = t
  OBVIOUS

LEMMA Concatenation ==
  ASSUME NEW S, NEW s \in Seq(S), NEW t \in Seq(S), NEW u \in Seq(S), Len(u) = Len(s) + Len(t),
         \A i \in 1..Len(s) : u[i] = s[i],
         \A i \in 1..Len(t) : u[Len(s) + i] = t[i]
  PROVE  s \o t = u
<1>1. s \o t \in Seq(S) /\ Len(s \o t) = Len(u)
  OBVIOUS
<1>2. \A i \in 1..Len(u) : (s \o t)[i] = u[i]
  OBVIOUS
<1> QED
  BY <1>1, <1>2, EqualSequences, Zenon

LEMMA Joined ==
  ASSUME NEW a, NEW b, NEW c
  PROVE  /\ <<a>> \o <<b>> = <<a, b>>
         /\ <<a>> \o <<b, c>> = <<a, b, c>>
         /\ <<a, b>> \o <<c>> = <<a, b, c>>
<1>1. <<a>> \o <<b>> = <<a, b>>
  <2>1. /\ Len(<<a, b>>) = Len(<<a>>) + Len(<<b>>)
        /\ \A i \in 1..Len(<<a>>) : <<a, b>>[i] = <<a>>[i]
        /\ \A i \in 1..Len(<<b>>) : <<a, b>>[Len(<<a>>) + i] = <<b>>[i]
    <3>1. /\ Len(<<a, b>>) = Len(<<a>>) + Len(<<b>>) /\ Len(<<a>>) + 1 = 2
          /\ 1..Len(<<a>>) = {1} /\ 1..Len(<<b>>) = {1}
      OBVIOUS
    <3>2. <<a, b>>[1] = <<a>>[1] /\ <<a, b>>[2] = <<b>>[1]
      OBVIOUS
    <3> QED
      BY <3>1, <3>2, Zenon
  <2>2. <<a>> \in Seq({a, b, c}) /\ <<b>> \in Seq({a, b, c}) /\ <<a, b>> \in Seq({a, b, c})
    OBVIOUS
  <2> QED
    BY <2>1, <2>2, Concatenation, Zenon
<1>2. <<a>> \o <<b, c>> = <<a, b, c>>
  <2>1. /\ Len(<<a, b, c>>) = Len(<<a>>) + Len(<<b, c>>)
        /\ \A i \in 1..Len(<<a>>) : <<a, b, c>>[i] = <<a>>[i]
        /\ \A i \in 1..Len(<<b, c>>) : <<a, b, c>>[Len(<<a>>) + i] = <<b, c>>[i]
    OBVIOUS
  <2>2. <<a>> \in Seq({a, b, c}) /\ <<b, c>> \in Seq({a, b, c}) /\ <<a, b, c>> \in Seq({a, b, c})
    OBVIOUS
  <2> QED
    BY <2>1, <2>2, Concatenation, Zenon
<1>3. <<a, b>> \o <<c>> = <<a, b, c>>
  <2>1. /\ Len(<<a, b, c>>) = Len(<<a, b>>) + Len(<<c>>)
        /\ \A i \in 1..Len(<<a, b>>) : <<a, b, c>>[i] = <<a, b>>[i]
        /\ \A i \in 1..Len(<<c>>) : <<a, b, c>>[Len(<<a, b>>) + i] = <<c>>[i]
    OBVIOUS
  <2>2. <<a, b>> \in Seq({a, b, c}) /\ <<c>> \in Seq({a, b, c}) /\ <<a, b, c>> \in Seq({a, b, c})
    OBVIOUS
  <2> QED
    BY <2>1, <2>2, Concatenation, Zenon
<1> QED
  BY <1>1, <1>2, <1>3

LEMMA BegunWhole ==
  ASSUME ChannelInv, WholeInv,
         \/ ReadFileUnauthenticated \/ WriteFileUnauthenticated \/ GetFileSettings
         \/ AuthenticateAes \/ Authenticate \/ Query \/ Update \/ GetVersion
         \/ ChangeMasterKey \/ ReadFile \/ WriteFile
  PROVE  WholeInv'
<1>1. "plain" \in CommModes /\ "mac" \in CommModes /\ "full" \in CommModes /\ 0 \in Nat
      /\ Sizes \subseteq Nat
  BY ChannelAssumption DEF CommModes
<1>2. host.kind = "authenticated" => host.app
  BY DEF WholeInv
<1>3. ASSUME NEW op \in Unkeyed, NEW f \in Files, NEW n \in Nat \ {0}, NEW a,
             (op = "read_file_unauthenticated" /\ a = "iso_read")
               \/ (op = "write_file_unauthenticated" /\ a = "iso_write"),
             host.kind = "unauthenticated",
             Invoke(op, f, "plain", n, SelectApp \o SelectEf(f) \o <<a>>)
      PROVE  WholeInv'
  <2>1. op \in Outside
    BY <1>3 DEF Outside, Borrowed
  <2>2. {<<"select", "ef", a>>, <<"ef", a>>, <<a>>} \subseteq Plan(op)
    BY <1>3, Zenon DEF Plan
  <2>3. ASSUME NEW todo \in {<<"select", "ef", a>>, <<"ef", a>>, <<a>>},
               SelectApp \o SelectEf(f) \o <<a>> = todo,
               Head(todo) # "part2", Head(todo) # "select" => host.app,
               Head(todo) \in {"iso_read", "iso_write"} => host.ef = f
        PROVE  WholeInv'
    BY <1>1, <1>3, <2>1, <2>2, <2>3, InvokesWhole, Zenon
  <2>4. CASE host.app /\ host.ef = f
    <3>1. SelectApp = <<>> /\ SelectEf(f) = <<>>
      BY <2>4 DEF SelectApp, SelectEf
    <3>2. SelectApp \o SelectEf(f) \o <<a>> = <<a>> /\ Head(<<a>>) = a /\ a # "part2"
      BY <1>3, <3>1
    <3> QED
      BY <2>3, <2>4, <3>2, Zenon
  <2>5. CASE host.app /\ host.ef # f
    <3>1. SelectApp = <<>> /\ SelectEf(f) = <<"ef">>
      BY <2>5 DEF SelectApp, SelectEf
    <3>2. <<>> \o <<"ef">> = <<"ef">> /\ Head(<<"ef", a>>) = "ef"
      OBVIOUS
    <3>3. <<"ef">> \o <<a>> = <<"ef", a>>
      BY Joined, Zenon
    <3> QED
      BY <2>3, <2>5, <3>1, <3>2, <3>3, Zenon
  <2>6. CASE ~host.app
    <3>1. SelectApp = <<"select">> /\ SelectEf(f) = <<"ef">>
      BY <2>6 DEF SelectApp, SelectEf
    <3>2. /\ <<"select">> \o <<"ef">> = <<"select", "ef">>
          /\ <<"select", "ef">> \o <<a>> = <<"select", "ef", a>>
      BY Joined, Zenon
    <3>3. Head(<<"select", "ef", a>>) = "select"
      OBVIOUS
    <3> QED
      BY <2>3, <2>6, <3>1, <3>2, <3>3, Zenon
  <2> QED
    BY <2>4, <2>5, <2>6
<1>4. CASE ReadFileUnauthenticated
  <2>1. PICK f \in Files, n \in Sizes \ {0} :
          Invoke("read_file_unauthenticated", f, "plain", n,
                 SelectApp \o SelectEf(f) \o <<"iso_read">>)
    BY <1>4 DEF ReadFileUnauthenticated
  <2>2. n \in Nat \ {0} /\ host.kind = "unauthenticated"
    BY <1>1, <1>4, <2>1 DEF ReadFileUnauthenticated
  <2> QED
    BY <1>3, <2>1, <2>2, Zenon DEF Unkeyed
<1>5. CASE WriteFileUnauthenticated
  <2>1. PICK f \in Files, n \in Sizes \cap 1..FileSize :
          Invoke("write_file_unauthenticated", f, "plain", n,
                 SelectApp \o SelectEf(f) \o <<"iso_write">>)
    BY <1>5 DEF WriteFileUnauthenticated
  <2>2. n \in Nat \ {0} /\ host.kind = "unauthenticated"
    BY <1>1, <1>5, <2>1, ChannelAssumption DEF WriteFileUnauthenticated
  <2> QED
    BY <1>3, <2>1, <2>2, Zenon DEF Unkeyed
<1>6. ASSUME NEW op \in Outside \ Unkeyed, NEW todo, <<"select">> \o todo \in Plan(op), todo \in Plan(op),
             Head(<<"select">> \o todo) = "select",
             Head(todo) \in {"settings", "part1"},
             host.kind = "unauthenticated", SelectApp \o todo \in {todo, <<"select">> \o todo},
             SelectApp \o todo = todo => host.app,
             Invoke(op, NoFile, "plain", 0, SelectApp \o todo)
      PROVE  WholeInv'
  <2>1. op \notin Transfers /\ op \notin Unkeyed
    BY <1>6 DEF Transfers, Outside, Borrowed, Unkeyed
  <2>2. CASE SelectApp \o todo = todo
    BY <1>1, <1>6, <2>1, <2>2, InvokesWhole, Zenon
  <2>3. CASE SelectApp \o todo = <<"select">> \o todo
    BY <1>1, <1>6, <2>1, <2>3, InvokesWhole, Zenon
  <2> QED
    BY <1>6, <2>2, <2>3
<1>7. CASE GetFileSettings
  <2>1. /\ <<"select">> \o <<"settings">> = <<"select", "settings">>
        /\ <<>> \o <<"settings">> = <<"settings">>
        /\ Head(<<"select">> \o <<"settings">>) = "select" /\ Head(<<"settings">>) = "settings"
        /\ <<"select">> \o <<"settings">> # <<"settings">>
    <3>1. <<"select">> \o <<"settings">> = <<"select", "settings">>
      BY Joined, Zenon
    <3>2. /\ <<>> \o <<"settings">> = <<"settings">> /\ Head(<<"settings">>) = "settings"
          /\ Head(<<"select", "settings">>) = "select" /\ <<"select", "settings">> # <<"settings">>
      OBVIOUS
    <3> QED
      BY <3>1, <3>2, Zenon
  <2>2. <<"select", "settings">> \in Plan("get_file_settings")
        /\ <<"settings">> \in Plan("get_file_settings")
    BY DEF Plan
  <2>3. "get_file_settings" \in Outside \ Unkeyed
    BY DEF Outside, Borrowed, Unkeyed
  <2> QED
    BY <1>6, <1>7, <2>1, <2>2, <2>3, Zenon DEF GetFileSettings, SelectApp
<1>8. CASE AuthenticateAes
  <2>1. /\ <<"select">> \o <<"part1", "part2">> = <<"select", "part1", "part2">>
        /\ <<>> \o <<"part1", "part2">> = <<"part1", "part2">>
        /\ Head(<<"select">> \o <<"part1", "part2">>) = "select" /\ Head(<<"part1", "part2">>) = "part1"
        /\ <<"select">> \o <<"part1", "part2">> # <<"part1", "part2">>
    <3>1. <<"select">> \o <<"part1", "part2">> = <<"select", "part1", "part2">>
      BY Joined, Zenon
    <3>2. /\ <<>> \o <<"part1", "part2">> = <<"part1", "part2">> /\ Head(<<"part1", "part2">>) = "part1"
          /\ Head(<<"select", "part1", "part2">>) = "select" /\ <<"select", "part1", "part2">> # <<"part1", "part2">>
      OBVIOUS
    <3> QED
      BY <3>1, <3>2, Zenon
  <2>2. <<"select", "part1", "part2">> \in Plan("authenticate_aes")
        /\ <<"part1", "part2">> \in Plan("authenticate_aes")
    BY DEF Plan
  <2>3. "authenticate_aes" \in Outside \ Unkeyed
    BY DEF Outside, Borrowed, Unkeyed
  <2> QED
    BY <1>6, <1>8, <2>1, <2>2, <2>3, Zenon DEF AuthenticateAes, SelectApp
<1>9. ASSUME NEW op \in {"authenticate", "query", "update", "get_version", "change_master_key",
                         "read_file", "write_file"},
             NEW m \in CommModes, NEW n \in Nat, NEW todo \in Plan(op),
             Head(todo) \in {"part1", "query", "update", "version1", "master", "read", "write"},
             host.kind = "authenticated", Invoke(op, NoFile, m, n, todo),
             op \in {"read_file", "write_file"} /\ n = 0 => m = "plain" /\ op = "read_file"
      PROVE  WholeInv'
  <2>1. /\ op \notin Outside /\ op \notin Unkeyed
        /\ op \in Transfers => op \in {"read_file", "write_file"}
    BY <1>9 DEF Transfers, Outside, Borrowed, Unkeyed
  <2>2. Head(todo) \notin {"select", "part2", "iso_read", "iso_write"}
    BY <1>9
  <2> QED
    BY <1>2, <1>9, <2>1, <2>2, InvokesWhole, Zenon
<1>10. /\ <<"part1", "part2">> \in Plan("authenticate") /\ <<"query">> \in Plan("query")
       /\ <<"update">> \in Plan("update")
       /\ <<"version1", "version2", "version3">> \in Plan("get_version")
       /\ <<"master">> \in Plan("change_master_key") /\ <<"read">> \in Plan("read_file")
       /\ <<"write">> \in Plan("write_file")
  BY DEF Plan
<1>11. /\ Head(<<"part1", "part2">>) = "part1" /\ Head(<<"query">>) = "query"
       /\ Head(<<"update">>) = "update" /\ Head(<<"version1", "version2", "version3">>) = "version1"
       /\ Head(<<"master">>) = "master" /\ Head(<<"read">>) = "read" /\ Head(<<"write">>) = "write"
  OBVIOUS
<1>12. CASE Authenticate \/ Query \/ Update \/ GetVersion \/ ChangeMasterKey
  BY <1>1, <1>9, <1>10, <1>11, <1>12, Zenon
     DEF Authenticate, Query, Update, GetVersion, ChangeMasterKey
<1>13. CASE ReadFile
  <2>1. PICK m \in CommModes, n \in Sizes :
          (n = 0 => m = "plain") /\ Invoke("read_file", NoFile, m, n, <<"read">>)
    BY <1>13 DEF ReadFile
  <2>2. host.kind = "authenticated" /\ n \in Nat
    BY <1>1, <1>13 DEF ReadFile
  <2> QED
    BY <1>9, <1>10, <1>11, <2>1, <2>2, Zenon
<1>14. CASE WriteFile
  <2>1. PICK m \in CommModes, n \in Sizes \cap 1..FileSize :
          Invoke("write_file", NoFile, m, n, <<"write">>)
    BY <1>14 DEF WriteFile
  <2>2. host.kind = "authenticated" /\ n \in Nat /\ n # 0
    BY <1>1, <1>14, ChannelAssumption DEF WriteFile
  <2> QED
    BY <1>9, <1>10, <1>11, <2>1, <2>2, Zenon
<1> QED
  BY <1>4, <1>5, <1>7, <1>8, <1>12, <1>13, <1>14

(* Every step of the channel keeps its transfers whole.                      *)
LEMMA WholeSteps == ChannelInv /\ WholeInv /\ [ChannelNext]_channelVars => WholeInv'
<1> SUFFICES ASSUME ChannelInv, WholeInv, [ChannelNext]_channelVars PROVE WholeInv'
  OBVIOUS
<1>1. CASE StartAgain \/ EmptyWrite
  <2>1. NewSession.kind = "unauthenticated" /\ NoSession.kind = "gone"
    BY Zenon DEF NewSession, NoSession
  <2>2. /\ Idle' /\ host' \in {NewSession, NoSession}
        /\ returned' # "ok" /\ (returned' = "err" => cause' # "none")
    BY <1>1, Zenon DEF StartAgain, EmptyWrite, Idle
  <2>3. host'.kind # "authenticated"
    BY <2>1, <2>2
  <2> QED
    BY <2>2, <2>3, Zenon DEF WholeInv, TransfersAreWhole
<1>2. CASE FieldLost
  <2>1. /\ UNCHANGED <<host, cmd, returned, fresh>> /\ cause' = "behind"
        /\ tag'.emulated = tag.emulated
    BY <1>2 DEF FieldLost, PoweredUp
  <2>2. ~Idle' => /\ returned' = "busy" /\ Prepared(cmd', host', tag', cause')
                  /\ Progress(cmd', fresh', cause')
    BY <2>1, Zenon DEF WholeInv, Idle, Prepared, Progress
  <2>3. TransfersAreWhole'
    BY <2>1, Zenon DEF WholeInv, TransfersAreWhole
  <2> QED
    BY <2>1, <2>2, <2>3, Zenon DEF WholeInv
<1>3. CASE Replied
  BY <1>3, SelectsWhole, AuthenticatesWhole, CommandsWhole, TransfersWhole, Zenon DEF Replied
<1>4. CASE UNCHANGED channelVars
  <2>1. UNCHANGED <<host, tag, cmd, returned, fresh, cause>>
    BY <1>4, Zenon DEF channelVars
  <2> QED
    BY <2>1, Zenon DEF WholeInv, Idle, Prepared, Progress, TransfersAreWhole
<1> QED
  BY <1>1, <1>2, <1>3, <1>4, BegunWhole, FailsWhole DEF ChannelNext

(* For any files, lengths and numbers of commands and faults: a write that    *)
(* returns Ok has put all of its data in the file, a read has returned what   *)
(* the file it was asked for holds up to the length asked for, every APDU on  *)
(* the way fits, and a command fails for a fault, a request that cannot be    *)
(* served or a reset behind the session's back, never by the session itself. *)
THEOREM KeepsTransfersWhole == ChannelSpec => []TransfersAreWhole
<1>1. WholeInv => TransfersAreWhole
  BY DEF WholeInv
<1> QED
  BY <1>1, ChannelBegins, ChannelSteps, BeginsWhole, WholeSteps, PTL DEF ChannelSpec

------------------------------------------------------------------------------
(* The types of the channel                                                  *)

(* The fields of a command that the invariants above leave open              *)
Typed(c) ==
  /\ c.op \in SessionOps /\ c.mode \in CommModes /\ c.len \in Nat /\ c.done \in Nat
  /\ c.src \in SUBSET (Files \cup {NoFile})

ChannelTypes ==
  /\ Typed(cmd)
  /\ returned \in {"none", "busy", "ok", "err"} /\ cause \in {"none", "fault", "request", "behind"}
  /\ fresh \in Nat /\ commands \in Nat /\ faults \in Nat

(* The command becomes c, or is at its end with it.                          *)
Becomes(c) == cmd' = c /\ returned' \in {returned, "ok"} /\ cause' = cause

(* An answer ends the command with an error, or takes it on by one APDU or   *)
(* one chunk.                                                                *)
LEMMA AnswerMoves ==
  ASSUME Replied
  PROVE  \/ \E why \in {"none", "fault", "request"} : Abandon(why)
         \/ Becomes(Done(cmd))
         \/ Apdu \in {"read", "iso_read"} /\ \E n \in {0, Served} : Becomes(Took(n))
         \/ Apdu \in {"write", "iso_write"} /\ Becomes(Put)
<1>1. ASSUME NEW c, NEW h, Proceed(c, h) PROVE Becomes(c)
  BY <1>1, Zenon DEF Proceed, Becomes
<1>2. ASSUME NEW bare, NEW c, Verified(bare, c) PROVE Becomes(c) \/ Abandon("none")
  BY <1>1, <1>2, Zenon DEF Verified
<1>3. CASE OnSelected \/ OnAuthenticated
  BY <1>1, <1>3, Zenon DEF OnSelected, OnAuthenticated
<1>4. ASSUME NEW bare, OnCommand(bare) PROVE Becomes(Done(cmd)) \/ Abandon("none") \/ Abandon("fault")
  BY <1>1, <1>2, <1>4, Zenon DEF OnCommand
<1>5. ASSUME NEW bare, OnData(bare)
      PROVE  \/ Abandon("none") \/ Abandon("request")
             \/ Apdu \in {"read", "iso_read"} /\ (Becomes(Took(0)) \/ Becomes(Took(Served)))
             \/ Apdu \in {"write", "iso_write"} /\ Becomes(Put)
  <2>1. CASE IsoRead \/ PlainRead
    BY <1>1, <2>1, Zenon DEF IsoRead, PlainRead
  <2>2. CASE IsoWrite \/ PlainWrite
    BY <1>1, <2>2, Zenon DEF IsoWrite, PlainWrite
  <2>3. CASE MacRead(bare)
    BY <1>2, <2>3, Zenon DEF MacRead
  <2>4. CASE FullRead(bare)
    BY <1>2, <2>4, Zenon DEF FullRead
  <2>5. CASE SecureWrite(bare)
    BY <1>2, <2>5, Zenon DEF SecureWrite
  <2> QED
    BY <1>5, <2>1, <2>2, <2>3, <2>4, <2>5, Zenon DEF OnData
<1> QED
  BY <1>3, <1>4, <1>5, Zenon DEF Replied

(* A command that is taken on keeps the types of its fields.                 *)
LEMMA TakenOn ==
  ASSUME IsCommand(cmd), Typed(cmd), tag.ef \in Files \cup {NoFile}
  PROVE  /\ Typed(Done(cmd))
         /\ \A n \in Nat : Typed(Took(n))
         /\ ChunkLen \in Nat => Typed(Put)
<1>1. ASSUME NEW c, IsCommand(c), Typed(c) PROVE Typed(Done(c))
  <2>1. \A x \in {"op", "mode", "len", "done", "src"} : Done(c)[x] = c[x]
    BY <1>1, Zenon DEF Done, IsCommand
  <2> QED
    BY <1>1, <2>1, Zenon DEF Typed
<1>2. ASSUME NEW n \in Nat PROVE Typed(Took(n))
  <2> DEFINE c == [cmd EXCEPT !.done = @ + n, !.src = @ \cup {tag.ef}]
  <2>1. /\ IsCommand(c) /\ c.op = cmd.op /\ c.mode = cmd.mode /\ c.len = cmd.len
        /\ c.done = cmd.done + n /\ c.src = cmd.src \cup {tag.ef}
    BY Zenon DEF IsCommand
  <2>2. cmd.done + n \in Nat /\ cmd.src \cup {tag.ef} \in SUBSET (Files \cup {NoFile})
    BY <1>2 DEF Typed
  <2>3. Took(n) = Done(c) \/ Took(n) = c
    BY Zenon DEF Took
  <2> HIDE DEF c
  <2>4. Typed(c)
    BY <2>1, <2>2, Zenon DEF Typed
  <2> QED
    BY <1>1, <2>1, <2>3, <2>4, Zenon
<1>3. ASSUME ChunkLen \in Nat PROVE Typed(Put)
  <2> DEFINE c == [cmd EXCEPT !.done = @ + ChunkLen]
  <2>1. /\ IsCommand(c) /\ c.op = cmd.op /\ c.mode = cmd.mode /\ c.len = cmd.len
        /\ c.done = cmd.done + ChunkLen /\ c.src = cmd.src
    BY Zenon DEF IsCommand
  <2>2. cmd.done + ChunkLen \in Nat
    BY <1>3 DEF Typed
  <2>3. Put = Done(c) \/ Put = c
    BY Zenon DEF Put
  <2> HIDE DEF c
  <2>4. Typed(c)
    BY <2>1, <2>2, Zenon DEF Typed
  <2> QED
    BY <1>1, <2>1, <2>3, <2>4, Zenon
<1> QED
  BY <1>1, <1>2, <1>3, Zenon

LEMMA AbandonTypes ==
  ASSUME IsCommand(cmd), ChannelTypes, NEW why \in {"none", "fault", "request", "behind"},
         Abandon(why)
  PROVE  /\ Typed(cmd') /\ returned' = "err"
         /\ cause' \in {"none", "fault", "request", "behind"}
<1>1. \A x \in {"op", "mode", "len", "done", "src"} : cmd'[x] = cmd[x]
  BY Zenon DEF Abandon, IsCommand
<1> QED
  BY <1>1, Zenon DEF Abandon, Typed, ChannelTypes

(* The bytes counted as fresh, whether the answer to a write comes or not    *)
LEMMA WriteTypes ==
  ASSUME WholeInv, ~Idle, ChannelTypes, Write PROVE fresh' \in Nat
<1>1. CASE Stores
  <2>1. Apdu \in Data
    BY <1>1, Zenon DEF Stores, Data
  <2>2. cmd.done + ChunkLen \in Nat
    BY <2>1, ChunkFits
  <2> QED
    BY <1>1, <2>2, Zenon DEF Write
<1>2. CASE ~Stores
  BY <1>2, Zenon DEF Write, ChannelTypes
<1> QED
  BY <1>1, <1>2

LEMMA AnswerTyped ==
  ASSUME ChannelInv, WholeInv, ChannelTypes, Replied PROVE ChannelTypes'
<1>1. ~Idle /\ Write /\ commands' = commands /\ faults' = faults
  BY Zenon DEF Replied
<1>2. fresh' \in Nat
  BY <1>1, WriteTypes
<1>3. IsCommand(cmd) /\ Typed(cmd) /\ tag.ef \in Files \cup {NoFile}
  BY Zenon DEF ChannelInv, Programs, ChannelTypes, Tag
<1>4. ASSUME NEW c, Becomes(c), Typed(c) PROVE ChannelTypes'
  BY <1>1, <1>2, <1>4, Zenon DEF Becomes, ChannelTypes
<1>5. ASSUME NEW why \in {"none", "fault", "request"}, Abandon(why) PROVE ChannelTypes'
  BY <1>1, <1>2, <1>3, <1>5, AbandonTypes, Zenon DEF ChannelTypes
<1>6. ASSUME Apdu \in {"read", "iso_read"} PROVE Served \in Nat
  <2>1. Apdu \in Data
    BY <1>6, Zenon DEF Data
  <2>2. cmd.done \in Nat /\ ChunkLen \in Nat
    BY <1>1, <2>1, ChunkFits
  <2>3. cmd.op \in {"read_file", "read_file_unauthenticated"}
    <3>1. cmd.todo \in Plan(cmd.op)
      BY <1>1, Zenon DEF WholeInv, Prepared
    <3> QED
      BY <1>6, <3>1, FollowsPlan, Zenon DEF Apdu
  <2>4. cmd.done <= FileSize
    BY <1>1, <2>3, Zenon DEF WholeInv, Progress
  <2>5. FileSize - cmd.done \in Nat
    BY <2>2, <2>4, ChannelAssumption
  <2>6. Served = IF ChunkLen <= FileSize - cmd.done THEN ChunkLen ELSE FileSize - cmd.done
    BY <2>2, <2>5, LesserOfTwo DEF Served
  <2> QED
    BY <2>2, <2>5, <2>6
<1>7. ASSUME Apdu \in {"write", "iso_write"} PROVE ChunkLen \in Nat
  <2>1. Apdu \in Data
    BY <1>7, Zenon DEF Data
  <2> QED
    BY <1>1, <2>1, ChunkFits
<1>8. 0 \in Nat
  OBVIOUS
<1> QED
  BY <1>3, <1>4, <1>5, <1>6, <1>7, <1>8, AnswerMoves, TakenOn, Zenon

LEMMA FaultTyped ==
  ASSUME ChannelInv, WholeInv, ChannelTypes,
         Rejected \/ Refused \/ RequestLost \/ ReplyLost \/ FieldLost
  PROVE  ChannelTypes'
<1>f. IsCommand(cmd) /\ faults \in Nat
  BY Zenon DEF ChannelInv, Programs, ChannelTypes
<1>0. IsCommand(cmd) /\ faults + 1 \in Nat
  BY <1>f
<1>1. ASSUME NEW why \in {"none", "fault", "request", "behind"}, Abandon(why),
             fresh' \in Nat, commands' = commands, faults' \in {faults, faults + 1}
      PROVE  ChannelTypes'
  BY <1>0, <1>1, AbandonTypes, Zenon DEF ChannelTypes
<1>2. CASE Rejected
  BY <1>1, <1>2, Zenon DEF Rejected, ChannelTypes
<1>3. CASE Refused \/ RequestLost
  BY <1>1, <1>3, Zenon DEF Refused, RequestLost, Fault, ChannelTypes
<1>4. CASE ReplyLost
  <2>1. fresh' \in Nat
    BY <1>4, WriteTypes DEF ReplyLost, Fault
  <2> QED
    BY <1>1, <1>4, <2>1, Zenon DEF ReplyLost, Fault
<1>5. CASE FieldLost
  BY <1>0, <1>5, Zenon DEF FieldLost, ChannelTypes, Typed
<1> QED
  BY <1>2, <1>3, <1>4, <1>5

LEMMA InvocationTyped ==
  ASSUME ChannelTypes,
         \/ ReadFileUnauthenticated \/ WriteFileUnauthenticated \/ GetFileSettings
         \/ AuthenticateAes \/ Authenticate \/ Query \/ Update \/ GetVersion
         \/ ChangeMasterKey \/ ReadFile \/ WriteFile
  PROVE  ChannelTypes'
<1>0. commands + 1 \in Nat /\ 0 \in Nat /\ {} \in SUBSET (Files \cup {NoFile})
  BY DEF ChannelTypes
<1>1. ASSUME NEW op \in SessionOps, NEW f, NEW m \in CommModes, NEW n \in Nat, NEW todo,
             Invoke(op, f, m, n, todo)
      PROVE  ChannelTypes'
  <2>1. Typed(cmd')
    BY <1>0, <1>1, Zenon DEF Invoke, Typed
  <2> QED
    BY <1>0, <1>1, <2>1, Zenon DEF Invoke, ChannelTypes
<1>2. "plain" \in CommModes /\ "mac" \in CommModes /\ "full" \in CommModes
  BY DEF CommModes
<1>3. \A n \in Sizes : n \in Nat
  BY ChannelAssumption
<1>4. CASE ReadFileUnauthenticated
  BY <1>1, <1>2, <1>3, <1>4, Zenon DEF ReadFileUnauthenticated, SessionOps
<1>5. CASE WriteFileUnauthenticated
  BY <1>1, <1>2, <1>3, <1>5, Zenon DEF WriteFileUnauthenticated, SessionOps
<1>6. CASE GetFileSettings \/ AuthenticateAes \/ Authenticate
  BY <1>0, <1>1, <1>2, <1>6, Zenon DEF GetFileSettings, AuthenticateAes, Authenticate, SessionOps
<1>7. CASE Query \/ Update \/ GetVersion \/ ChangeMasterKey
  BY <1>0, <1>1, <1>2, <1>7, Zenon DEF Query, Update, GetVersion, ChangeMasterKey, SessionOps
<1>8. CASE ReadFile
  BY <1>1, <1>3, <1>8, Zenon DEF ReadFile, SessionOps
<1>9. CASE WriteFile
  BY <1>1, <1>3, <1>9, Zenon DEF WriteFile, SessionOps
<1> QED
  BY <1>4, <1>5, <1>6, <1>7, <1>8, <1>9

(* Every variable of session and tag keeps its type: no chunk is negative,   *)
(* also when the answer is lost that would tell how much was written.        *)
THEOREM ChannelTypesHold == ChannelSpec => []ChannelTypeOK
<1>1. ChannelInit => ChannelTypes
  <2> SUFFICES ASSUME ChannelInit PROVE ChannelTypes
    OBVIOUS
  <2>1. 0 \in Nat
    OBVIOUS
  <2>2. Typed(cmd)
    BY <2>1 DEF ChannelInit, Typed, SessionOps, CommModes
  <2> QED
    BY <2>1, <2>2 DEF ChannelInit, ChannelTypes
<1>2. ChannelInv /\ WholeInv /\ ChannelTypes /\ [ChannelNext]_channelVars => ChannelTypes'
  <2> SUFFICES ASSUME ChannelInv, WholeInv, ChannelTypes, [ChannelNext]_channelVars
               PROVE  ChannelTypes'
    OBVIOUS
  <2>0. commands + 1 \in Nat
    BY DEF ChannelTypes
  <2>1. CASE EmptyWrite \/ StartAgain
    BY <2>0, <2>1, Zenon DEF EmptyWrite, StartAgain, ChannelTypes, Typed
  <2>2. CASE UNCHANGED channelVars
    BY <2>2, Zenon DEF channelVars, ChannelTypes, Typed
  <2> QED
    BY <2>1, <2>2, AnswerTyped, FaultTyped, InvocationTyped, Zenon DEF ChannelNext
<1>3. ASSUME ChannelInv, ChannelTypes PROVE ChannelTypeOK
  <2>1. cmd \in Command
    BY <1>3, Zenon DEF ChannelInv, Programs, IsCommand, ChannelTypes, Typed, Command
  <2> QED
    BY <1>3, <2>1, Zenon DEF ChannelInv, ChannelTypes, ChannelTypeOK
<1>4. ChannelSpec => []ChannelInv
  BY ChannelBegins, ChannelSteps, PTL DEF ChannelSpec
<1>5. ChannelSpec => []WholeInv
  BY <1>4, BeginsWhole, WholeSteps, PTL DEF ChannelSpec
<1> QED
  BY <1>1, <1>2, <1>3, <1>4, <1>5, PTL DEF ChannelSpec
=============================================================================
