---------------------------- MODULE IsoDepProofs ----------------------------
(***************************************************************************)
(* Proofs about IsoDep, for every number of retries, attempts, calls and   *)
(* losses, every size of buffer and every length of answer.                *)
(***************************************************************************)
EXTENDS IsoDep, TLAPS

---------------------------------------------------------------------------
(* The tag.                                                                *)

LEMMA Others == \A b \in BlockNumbers : Other(b) \in BlockNumbers /\ Other(b) # b
PROOF BY DEF BlockNumbers, Other

LEMMA TagBlocks ==
  /\ Silence \in Block
  /\ WtxRequest \in Block
  /\ \A b \in BlockNumbers : RAck(b) \in Block
PROOF BY DEF Silence, WtxRequest, RAck, Block, Part, NoPart, BlockNumbers

(* A reply that carries nothing out.                                       *)
LEMMA QuietReply ==
  ASSUME NEW p \in Picc, NEW b \in Block
  PROVE  /\ Reply(p, b).picc \in Picc
         /\ Reply(p, b).rsp = b
         /\ Reply(p, b).picc.last = b
         /\ Reply(p, b).picc.carried = p.carried
         /\ Reply(p, b).picc.bn = p.bn
         /\ Reply(p, b).picc.cmd = p.cmd
         /\ Reply(p, b).picc.sent = p.sent
         /\ Reply(p, b).picc.parts = p.parts
PROOF
<1>1. [p EXCEPT !.last = b] \in Picc
  BY DEF Picc
<1>2. QED
  BY <1>1 DEF Reply, Picc

(* The next part of an answer: what the tag sends and remembers.           *)
PartBlock(p) ==
  [kind |-> "I", bn |-> p.bn, part |-> [cmd |-> p.cmd, part |-> p.sent + 1],
   more |-> p.sent + 1 < p.parts]

LEMMA OnlyPart ==
  ASSUME NEW p, NEW apdu, p.sent = 0, p.parts = 1, p.bn = apdu.bn, p.cmd = apdu.cmd
  PROVE  PartBlock(p) = OwnBlock(apdu)
PROOF
<1> DEFINE more == p.sent + 1 < p.parts
           part == p.sent + 1
<1>1. more = FALSE /\ part = 1
  OBVIOUS
<1>2. PartBlock(p) = [kind |-> "I", bn |-> p.bn, part |-> [cmd |-> p.cmd, part |-> part],
                      more |-> more]
  BY DEF PartBlock
<1> HIDE DEF more, part
<1>3. QED
  BY <1>1, <1>2 DEF OwnBlock

LEMMA PartReply ==
  ASSUME NEW p \in Picc
  PROVE  /\ PartBlock(p) \in Block
         /\ NextPart(p).picc \in Picc
         /\ NextPart(p).rsp = PartBlock(p)
         /\ NextPart(p).picc.last = PartBlock(p)
         /\ NextPart(p).picc.carried = p.carried
         /\ NextPart(p).picc.bn = p.bn
         /\ NextPart(p).picc.cmd = p.cmd
         /\ NextPart(p).picc.parts = p.parts
PROOF
<1> DEFINE q == [p EXCEPT !.sent = @ + 1]
<1>1. p.bn \in BlockNumbers /\ p.cmd \in Nat /\ p.sent \in Nat /\ p.parts \in Nat
  BY DEF Picc
<1>2. PartBlock(p) \in Block
  BY <1>1 DEF PartBlock, Block, Part
<1>3. /\ q \in Picc
      /\ q.carried = p.carried /\ q.bn = p.bn /\ q.cmd = p.cmd /\ q.parts = p.parts
  BY <1>1 DEF Picc
<1>4. NextPart(p) = Reply(q, PartBlock(p))
  BY DEF NextPart, PartBlock
<1> HIDE DEF q
<1>5. QED
  BY <1>2, <1>3, <1>4, QuietReply

LEMMA CarryOutFacts ==
  ASSUME NEW p \in Picc, NEW cmd \in Nat, NEW n \in Nat,
         NEW q, q = CarryOut(p, cmd, n)
  PROVE  /\ q \in Picc
         /\ q.bn = Other(p.bn)
         /\ q.cmd = cmd
         /\ q.sent = 0
         /\ q.parts = n
         /\ q.carried = Append(p.carried, [cmd |-> cmd, parts |-> n])
PROOF
<1>1. p.bn \in BlockNumbers /\ p.carried \in Seq([cmd: Nat, parts: Nat])
  BY DEF Picc
<1>2. Other(p.bn) \in BlockNumbers
  BY <1>1, Others
<1>3. [cmd |-> cmd, parts |-> n] \in [cmd: Nat, parts: Nat]
  OBVIOUS
<1>4. Append(p.carried, [cmd |-> cmd, parts |-> n]) \in Seq([cmd: Nat, parts: Nat])
  BY <1>1, <1>3
<1> DEFINE s == Append(p.carried, [cmd |-> cmd, parts |-> n])
           o == Other(p.bn)
<1> HIDE DEF s, o
<1>5. [p EXCEPT !.bn = o, !.cmd = cmd, !.sent = 0, !.parts = n, !.carried = s]
        \in Picc
  BY <1>2, <1>4 DEF Picc, s, o
<1>6. CarryOut(p, cmd, n)
        = [p EXCEPT !.bn = o, !.cmd = cmd, !.sent = 0, !.parts = n, !.carried = s]
  BY DEF CarryOut, s, o
<1>7. QED
  BY <1>5, <1>6 DEF Picc, s, o

LEMMA WaitFacts ==
  ASSUME NEW p \in Picc, NEW r \in AnswerOrWait(p)
  PROVE  /\ r.picc \in Picc
         /\ r.rsp \in Block
         /\ r.picc.carried = p.carried
         /\ r.picc.last = r.rsp
         /\ r.picc.bn = p.bn /\ r.picc.cmd = p.cmd /\ r.picc.parts = p.parts
         /\ \/ r.rsp = PartBlock(p)
            \/ r.rsp = WtxRequest /\ r.picc.sent = p.sent
PROOF
<1>1. CASE r = NextPart(p)
  BY <1>1, PartReply
<1>2. CASE r = Reply(p, WtxRequest)
  BY <1>2, QuietReply, TagBlocks
<1>3. QED
  BY <1>1, <1>2 DEF AnswerOrWait

(* An I-block is carried out and answered, or time is asked for.           *)
LEMMA IBlockReplies ==
  ASSUME NEW p \in Picc, NEW f \in Frame, f.kind = "I", NEW r \in Replies(p, f)
  PROVE  \E n \in 1..MaxBlocks : r \in AnswerOrWait(CarryOut(p, f.cmd, n))
PROOF
<1>1. r \in UNION {AnswerOrWait(CarryOut(p, f.cmd, n)) : n \in 1..MaxBlocks}
  BY DEF Replies
<1>2. QED
  BY <1>1

LEMMA Lengths == 1..MaxBlocks \subseteq Nat
PROOF BY MaxBlocksAssumption

(* What any other frame brings: nothing is carried out.                    *)
LEMMA QuietReplies ==
  ASSUME NEW p \in Picc, NEW f \in Frame, f.kind # "I", NEW r \in Replies(p, f)
  PROVE  r.picc \in Picc /\ r.rsp \in Block /\ r.picc.carried = p.carried
PROOF
<1>1. p.last \in Block
  BY DEF Picc
<1>2. /\ Again(p).picc = p /\ Again(p).rsp = p.last
      /\ Ignored(p).picc = p /\ Ignored(p).rsp = Silence
  BY DEF Again, Ignored
<1>3. CASE f.kind = "WTX"
  BY <1>2, <1>3, WaitFacts, TagBlocks DEF Replies
<1>4. CASE f.kind = "RACK"
  <2> DEFINE q == [p EXCEPT !.bn = Other(@)]
  <2>1. q \in Picc /\ q.carried = p.carried
    BY Others DEF Picc
  <2> HIDE DEF q
  <2>2. NextPart(q).picc \in Picc /\ NextPart(q).rsp \in Block
        /\ NextPart(q).picc.carried = p.carried
    BY <2>1, PartReply
  <2>3. r \in {Again(p), Ignored(p), NextPart(q)}
    BY <1>4 DEF Replies, q
  <2>4. QED
    BY <1>1, <1>2, <2>2, <2>3, TagBlocks
<1>5. CASE f.kind = "RNAK"
  <2>1. p.bn \in BlockNumbers
    BY DEF Picc
  <2>2. r = Again(p) \/ r = Reply(p, RAck(p.bn))
    BY <1>5 DEF Replies
  <2>3. QED
    BY <1>1, <1>2, <2>1, <2>2, QuietReply, TagBlocks
<1>6. QED
  BY <1>3, <1>4, <1>5 DEF Frame

(* The R(NAK) of the recovery: the tag repeats its last block or answers   *)
(* R(ACK), as its number is that of the R(NAK) or not.                     *)
LEMMA RNakReplies ==
  ASSUME NEW p \in Picc, NEW b \in BlockNumbers,
         NEW r \in Replies(p, RBlock("RNAK", b))
  PROVE  IF p.bn = b THEN r.picc = p /\ r.rsp = p.last
         ELSE /\ r.rsp = RAck(p.bn)
              /\ r.picc.bn = p.bn /\ r.picc.carried = p.carried
PROOF
<1>1. r \in IF b = p.bn THEN {Again(p)} ELSE {Reply(p, RAck(p.bn))}
  BY DEF Replies, RBlock
<1>2. p.bn \in BlockNumbers
  BY DEF Picc
<1>3. QED
  BY <1>1, <1>2, QuietReply, TagBlocks DEF Again

---------------------------------------------------------------------------
(* An exchange.                                                            *)

LEMMA FrameFacts ==
  /\ WtxResponse \in Frame
  /\ \A b \in BlockNumbers, cmd \in Nat : IBlock(b, cmd) \in Frame
  /\ \A b \in BlockNumbers, k \in {"RACK", "RNAK"} : RBlock(k, b) \in Frame
PROOF BY DEF WtxResponse, IBlock, RBlock, Frame, BlockNumbers

(* What came back is the tag's reply or nothing; what became of the tag is *)
(* that of a reply, or nothing.                                            *)
LEMMA ExchangedFacts ==
  ASSUME NEW f \in Frame, losses \in 0..MaxLosses, NEW x \in Exchanged(f)
  PROVE  /\ losses + x.lost \in 0..MaxLosses
         /\ \/ x.picc = picc /\ x.rsp = Silence
            \/ \E r \in Replies(picc, f) :
                 x.picc = r.picc /\ x.rsp \in {r.rsp, Silence}
PROOF
<1>1. MaxLosses \in Nat
  BY LimitsAssumption
<1>2. CASE x \in {[picc |-> r.picc, rsp |-> r.rsp, lost |-> 0] :
                     r \in Replies(picc, f)}
  BY <1>1, <1>2
<1>3. CASE x \in IF losses < MaxLosses
                 THEN {[picc |-> q, rsp |-> Silence, lost |-> 1] :
                         q \in {picc} \union {r.picc : r \in Replies(picc, f)}}
                 ELSE {}
  BY <1>1, <1>3
<1>4. QED
  BY <1>2, <1>3 DEF Exchanged

(* The tag after an exchange: typed, and grown by at most the APDU of the  *)
(* I-block sent.                                                           *)
Grown(p, q, cmd) ==
  \E n \in 1..MaxBlocks : q.carried = Append(p.carried, [cmd |-> cmd, parts |-> n])

LEMMA ExchangeStep ==
  ASSUME TypeOK, NEW f \in Frame, NEW x \in Exchanged(f), Exchange(x)
  PROVE  /\ picc' \in Picc
         /\ x.rsp \in Block
         /\ losses' \in 0..MaxLosses
         /\ \/ picc'.carried = picc.carried
            \/ f.kind = "I" /\ Grown(picc, picc', f.cmd)
PROOF
<1>1. picc \in Picc /\ losses \in 0..MaxLosses
  BY DEF TypeOK
<1>2. picc' = x.picc /\ losses' \in 0..MaxLosses
  BY <1>1, ExchangedFacts DEF Exchange
<1>3. CASE x.picc = picc /\ x.rsp = Silence
  BY <1>1, <1>2, <1>3, TagBlocks
<1>4. ASSUME NEW r \in Replies(picc, f), x.picc = r.picc,
             x.rsp \in {r.rsp, Silence}
      PROVE  /\ r.picc \in Picc /\ r.rsp \in Block
             /\ \/ r.picc.carried = picc.carried
                \/ f.kind = "I" /\ Grown(picc, r.picc, f.cmd)
  <2>1. CASE f.kind = "I"
    <3>1. PICK n \in 1..MaxBlocks : r \in AnswerOrWait(CarryOut(picc, f.cmd, n))
      BY <1>1, <2>1, IBlockReplies
    <3>2. f.cmd \in Nat /\ n \in Nat
      BY Lengths DEF Frame
    <3>3. PICK q : q = CarryOut(picc, f.cmd, n)
      OBVIOUS
    <3>4. q \in Picc /\ Grown(picc, q, f.cmd)
      <4>1. /\ q \in Picc
            /\ q.carried = Append(picc.carried, [cmd |-> f.cmd, parts |-> n])
        BY <1>1, <3>2, <3>3, CarryOutFacts
      <4>2. QED
        BY <4>1 DEF Grown
    <3>5. r.picc \in Picc /\ r.rsp \in Block /\ r.picc.carried = q.carried
      BY <3>1, <3>4, <3>3, WaitFacts
    <3>6. QED
      BY <2>1, <3>4, <3>5 DEF Grown
  <2>2. CASE f.kind # "I"
    BY <1>1, <2>2, QuietReplies
  <2>3. QED
    BY <2>1, <2>2
<1>5. QED
  BY <1>1, <1>2, <1>3, <1>4, ExchangedFacts, TagBlocks

---------------------------------------------------------------------------
(* How a call goes on.                                                     *)

LEMMA CallFacts ==
  ASSUME TypeOK
  PROVE  /\ call \in Call
         /\ call.send \in Frame /\ call.current \in Frame
         /\ call.cmd \in Nat /\ call.total \in Nat /\ call.room \in Nat
         /\ call.data \in Seq(Part)
         /\ Recovery(call) \in Frame
         /\ Recovery(call) = RBlock("RNAK", call.send.bn)
         /\ call.send.bn \in BlockNumbers
PROOF
<1>1. call \in Call /\ call.send \in Frame
  BY DEF TypeOK, Call
<1>2. call.send.bn \in BlockNumbers
  BY <1>1 DEF Frame
<1>3. QED
  BY <1>1, <1>2, FrameFacts DEF Call, Recovery

LEMMA NoCallTyped == NoCall \in Call
PROOF BY FrameFacts DEF NoCall, Call, Steps, Stages

(* After Accept the call is over, or sends a frame that is no I-block.     *)
Ended ==
  /\ call' = NoCall
  /\ last'.cmd = call.cmd /\ last'.inStep = call.inStep /\ ~last'.reset

GoesOn ==
  /\ call'.step = "block" /\ call'.current.kind # "I"
  /\ call'.cmd = call.cmd /\ call'.inStep = call.inStep
  /\ UNCHANGED last

Advanced ==
  /\ blockNumber' \in BlockNumbers
  /\ call' \in Call
  /\ last' \in Result
  /\ Ended \/ GoesOn

LEMMA FinishStep ==
  ASSUME TypeOK, NEW data \in Seq(Part), Finish(data)
  PROVE  call' \in Call /\ last' \in Result /\ Ended
PROOF
<1>1. call.cmd \in Nat /\ call.inStep \in BOOLEAN
  BY DEF TypeOK, Call
<1>2. last' \in Result
  BY <1>1 DEF Finish, Result
<1>3. QED
  BY <1>2, NoCallTyped DEF Finish, Ended

LEMMA FailStep ==
  ASSUME TypeOK, Fail
  PROVE  Advanced
PROOF
<1>1. <<>> \in Seq(Part)
  OBVIOUS
<1>2. QED
  BY <1>1, FinishStep DEF Fail, Advanced, TypeOK

LEMMA PassStep ==
  ASSUME TypeOK, NEW send \in Frame, send.kind # "I", NEW stage \in Stages,
         NEW room \in Nat, NEW data \in Seq(Part), Pass(send, stage, room, data)
  PROVE  call' \in Call /\ last' \in Result /\ GoesOn
PROOF
<1>1. call' \in Call
  BY DEF Pass, TypeOK, Call, Steps
<1>2. /\ call'.step = "block" /\ call'.current = send /\ call'.cmd = call.cmd
      /\ call'.inStep = call.inStep
  BY DEF Pass, TypeOK, Call
<1>3. QED
  BY <1>1, <1>2 DEF Pass, GoesOn, TypeOK

LEMMA ReceivedStep ==
  ASSUME TypeOK, NEW b \in Block, Received(b)
  PROVE  Advanced
PROOF
<1> DEFINE part == IF b.kind = "I" THEN <<b.part>> ELSE <<>>
           data == call.data \o part
           ack  == RBlock("RACK", NextNumber(blockNumber))
           remaining == IF call.total > Len(data) THEN call.total - Len(data) ELSE 0
<1>1. blockNumber \in BlockNumbers
  BY DEF TypeOK
<1>2. NextNumber(blockNumber) \in BlockNumbers
  BY <1>1, Others DEF NextNumber
<1>3. ack \in Frame /\ ack.kind # "I"
  BY <1>2, FrameFacts DEF RBlock
<1>4. b.part \in Part
  BY DEF Block
<1>5. part \in Seq(Part)
  BY <1>4
<1>6. data \in Seq(Part)
  BY <1>5, CallFacts
<1>7. remaining \in Nat
  <2> HIDE DEF data
  <2>1. Len(data) \in Nat
    BY <1>6
  <2>2. QED
    BY <2>1, CallFacts
<1>8. \/ Fail
      \/ /\ blockNumber' = NextNumber(blockNumber)
         /\ \/ Finish(<<>>)
            \/ Pass(ack, "chain2", call.room, data)
            \/ Pass(ack, "chain1", remaining, data)
            \/ Finish(data)
  BY DEF Received
<1> HIDE DEF part, data, ack, remaining
<1>9. <<>> \in Seq(Part) /\ {"chain1", "chain2"} \subseteq Stages
  BY DEF Stages
<1>10. QED
  BY <1>2, <1>3, <1>6, <1>7, <1>8, <1>9, FailStep, FinishStep, PassStep, CallFacts
     DEF Advanced

LEMMA AcceptStep ==
  ASSUME TypeOK, NEW b \in Block, Accept(b)
  PROVE  Advanced
PROOF
<1>1. CASE b.kind # "WTX"
  BY <1>1, ReceivedStep DEF Accept
<1>2. CASE b.kind = "WTX" /\ ~(call.attempt + 1 < MaxAttempts)
  BY <1>2, FailStep DEF Accept
<1>3. CASE b.kind = "WTX" /\ call.attempt + 1 < MaxAttempts
  <2>1. /\ call' = [call EXCEPT !.step = "block", !.current = WtxResponse,
                                !.attempt = @ + 1]
        /\ UNCHANGED <<blockNumber, last>>
    BY <1>3 DEF Accept
  <2>2. call' \in Call
    <3> DEFINE n == call.attempt + 1
    <3>1. n \in Nat
      BY DEF TypeOK, Call
    <3>2. call' = [call EXCEPT !.step = "block", !.current = WtxResponse,
                               !.attempt = n]
      BY <2>1 DEF TypeOK, Call
    <3> HIDE DEF n
    <3>3. QED
      BY <3>1, <3>2, FrameFacts DEF TypeOK, Call, Steps
  <2>3. /\ call'.step = "block" /\ call'.current = WtxResponse
        /\ call'.cmd = call.cmd /\ call'.inStep = call.inStep
    BY <2>1 DEF TypeOK, Call
  <2>4. QED
    BY <2>1, <2>2, <2>3 DEF Advanced, GoesOn, WtxResponse, TypeOK
<1>4. QED
  BY <1>1, <1>2, <1>3

---------------------------------------------------------------------------
(* A step of a call: what it does to the tag, and how the call goes on.    *)

GoesToRNak ==
  /\ call'.step = "rnak"
  /\ call'.cmd = call.cmd /\ call'.inStep = call.inStep
  /\ UNCHANGED <<blockNumber, last>>

LEMMA LinkAdvances ==
  ASSUME TypeOK, LinkStep
  PROVE  /\ TypeOK'
         /\ call.step # "idle"
         /\ Ended \/ GoesOn \/ GoesToRNak
         /\ \/ picc'.carried = picc.carried
            \/ /\ call.step = "block" /\ call.current.kind = "I"
               /\ Grown(picc, picc', call.current.cmd)
PROOF
<1>1. blockNumber \in BlockNumbers /\ call \in Call /\ last \in Result
  BY DEF TypeOK
<1>2. CASE SendBlock
  <2>1. PICK x \in Exchanged(call.current) :
          /\ Exchange(x)
          /\ \/ Accept(x.rsp)
             \/ /\ call' = [call EXCEPT !.step = "rnak", !.retries = 0]
                /\ UNCHANGED <<blockNumber, last>>
    BY <1>2 DEF SendBlock
  <2>2. /\ picc' \in Picc /\ x.rsp \in Block /\ losses' \in 0..MaxLosses
        /\ \/ picc'.carried = picc.carried
           \/ /\ call.current.kind = "I"
              /\ Grown(picc, picc', call.current.cmd)
    BY <2>1, CallFacts, ExchangeStep
  <2>3. CASE Accept(x.rsp)
    BY <1>2, <2>2, <2>3, AcceptStep DEF SendBlock, Advanced, TypeOK
  <2>4. CASE /\ call' = [call EXCEPT !.step = "rnak", !.retries = 0]
             /\ UNCHANGED <<blockNumber, last>>
    <3>1. /\ call' \in Call /\ call'.step = "rnak"
          /\ call'.cmd = call.cmd /\ call'.inStep = call.inStep
      BY <1>1, <2>4 DEF Call, Steps
    <3>2. QED
      BY <1>1, <1>2, <2>2, <2>4, <3>1 DEF SendBlock, GoesToRNak, TypeOK
  <2>5. QED
    BY <2>1, <2>3, <2>4
<1>3. CASE SendRNak
  <2>1. PICK x \in Exchanged(Recovery(call)) :
          /\ Exchange(x)
          /\ \/ Accept(x.rsp)
             \/ /\ call' = [call EXCEPT !.retries = @ + 1]
                /\ UNCHANGED <<blockNumber, last>>
             \/ Fail
    BY <1>3 DEF SendRNak
  <2>2. Recovery(call).kind # "I"
    BY CallFacts DEF RBlock
  <2>3. /\ picc' \in Picc /\ x.rsp \in Block /\ losses' \in 0..MaxLosses
        /\ picc'.carried = picc.carried
    BY <2>1, <2>2, CallFacts, ExchangeStep
  <2>4. CASE Accept(x.rsp) \/ Fail
    BY <1>3, <2>3, <2>4, AcceptStep, FailStep DEF SendRNak, Advanced, TypeOK
  <2>5. CASE /\ call' = [call EXCEPT !.retries = @ + 1]
             /\ UNCHANGED <<blockNumber, last>>
    <3> DEFINE n == call.retries + 1
    <3>1. n \in Nat /\ call' = [call EXCEPT !.retries = n]
      BY <1>1, <2>5 DEF Call
    <3> HIDE DEF n
    <3>2. /\ call' \in Call /\ call'.step = call.step
          /\ call'.cmd = call.cmd /\ call'.inStep = call.inStep
      BY <1>1, <3>1 DEF Call
    <3>3. QED
      BY <1>1, <1>3, <2>3, <2>5, <3>2 DEF SendRNak, GoesToRNak, TypeOK
  <2>6. QED
    BY <2>1, <2>4, <2>5
<1>4. QED
  BY <1>2, <1>3 DEF LinkStep

LEMMA Elements ==
  ASSUME NEW S, NEW s \in Seq(S), NEW i \in DOMAIN s
  PROVE  s[i] \in S
PROOF OBVIOUS

(* The commands carried out, before and after.                             *)
LEMMA GrownFacts ==
  ASSUME NEW p \in Picc, NEW q \in Picc, NEW cmd \in Nat, Grown(p, q, cmd)
  PROVE  /\ Len(p.carried) \in Nat
         /\ DOMAIN p.carried = 1..Len(p.carried)
         /\ DOMAIN q.carried = 1..(Len(p.carried) + 1)
         /\ \A i \in DOMAIN p.carried : q.carried[i] = p.carried[i]
         /\ q.carried[Len(p.carried) + 1].cmd = cmd
         /\ q.carried[Len(p.carried) + 1].parts \in 1..MaxBlocks
PROOF
<1>1. p.carried \in Seq([cmd: Nat, parts: Nat])
  BY DEF Picc
<1>2. PICK n \in 1..MaxBlocks :
        q.carried = Append(p.carried, [cmd |-> cmd, parts |-> n])
  BY DEF Grown
<1>3. n \in Nat
  BY Lengths
<1> DEFINE e == [cmd |-> cmd, parts |-> n]
<1>4. e.cmd = cmd /\ e.parts = n
  OBVIOUS
<1>5. e \in [cmd: Nat, parts: Nat]
  BY <1>3
<1> HIDE DEF e
<1>6. /\ Len(p.carried) \in Nat
      /\ DOMAIN p.carried = 1..Len(p.carried)
      /\ DOMAIN Append(p.carried, e) = 1..(Len(p.carried) + 1)
      /\ \A i \in DOMAIN p.carried : Append(p.carried, e)[i] = p.carried[i]
      /\ Append(p.carried, e)[Len(p.carried) + 1] = e
  BY <1>1, <1>5
<1>7. QED
  BY <1>2, <1>4, <1>6 DEF e

---------------------------------------------------------------------------
(* No APDU is carried out twice.                                           *)

Numbering == CallNumber /\ CarriedBehind /\ NotYetCarried /\ CarriedOnce

LEMMA InitNumbering == Init => TypeOK /\ Numbering
PROOF
<1> SUFFICES ASSUME Init PROVE TypeOK /\ Numbering
  OBVIOUS
<1>1. <<>> \in Seq([cmd: Nat, parts: Nat]) /\ <<>> \in Seq(Part)
  OBVIOUS
<1>2. picc \in Picc /\ picc.carried = <<>>
  BY <1>1, TagBlocks DEF Init, FreshPicc, Picc, BlockNumbers
<1>3. last \in Result
  BY <1>1 DEF Init, Result
<1>4. 0 \in 0..MaxLosses
  BY LimitsAssumption
<1>5. TypeOK
  BY <1>2, <1>3, <1>4, NoCallTyped DEF Init, TypeOK, BlockNumbers
<1>6. CallNumber /\ NotYetCarried
  BY DEF Init, CallNumber, NotYetCarried, NoCall
<1>7. CarriedBehind /\ CarriedOnce
  BY <1>2 DEF CarriedBehind, CarriedOnce
<1>8. QED
  BY <1>5, <1>6, <1>7 DEF Numbering

LEMMA LinkNumbering ==
  ASSUME TypeOK, Numbering, LinkStep
  PROVE  Numbering'
PROOF
<1>1. /\ picc \in Picc /\ picc' \in Picc
      /\ call.cmd \in Nat /\ last.cmd \in Nat
      /\ call.step # "idle"
  BY LinkAdvances DEF TypeOK, Call, Result
<1>2. call.cmd = last.cmd + 1
  BY <1>1 DEF Numbering, CallNumber
<1>3. Ended \/ GoesOn \/ GoesToRNak
  BY LinkAdvances
<1>4. /\ CallNumber'
      /\ (IF call'.step = "idle" THEN last'.cmd ELSE call'.cmd) = call.cmd
      /\ ~(call'.step = "block" /\ call'.current.kind = "I")
  BY <1>2, <1>3 DEF Ended, GoesOn, GoesToRNak, CallNumber, NoCall
<1>5. NotYetCarried'
  BY <1>4 DEF NotYetCarried
<1>6. \A i \in DOMAIN picc.carried : picc.carried[i].cmd <= call.cmd
  BY <1>1 DEF Numbering, CarriedBehind
<1>7. CASE picc'.carried = picc.carried
  BY <1>4, <1>5, <1>6, <1>7 DEF Numbering, CarriedBehind, CarriedOnce
<1>8. CASE /\ call.step = "block" /\ call.current.kind = "I"
           /\ Grown(picc, picc', call.current.cmd)
  <2> DEFINE n == Len(picc.carried) + 1
  <2>1. call.current.cmd = call.cmd /\ ~Carried(picc, call.cmd)
    BY <1>8 DEF Numbering, NotYetCarried
  <2>2. /\ n \in Nat
        /\ \A i \in DOMAIN picc'.carried : i \in DOMAIN picc.carried \/ i = n
        /\ \A i \in DOMAIN picc.carried : picc'.carried[i] = picc.carried[i]
        /\ picc'.carried[n].cmd = call.cmd
    BY <1>1, <1>8, <2>1, GrownFacts
  <2> HIDE DEF n
  <2>3. CarriedBehind'
    BY <1>1, <1>4, <1>6, <2>2 DEF CarriedBehind
  <2>4. CarriedOnce'
    BY <2>1, <2>2 DEF Numbering, CarriedOnce, Carried
  <2>5. QED
    BY <1>4, <1>5, <2>3, <2>4 DEF Numbering
<1>9. QED
  BY <1>7, <1>8, LinkAdvances

(* The steps of the application keep the types and send nothing.           *)
LEMMA StartStep ==
  ASSUME TypeOK, NEW room \in Rooms, TCL_Transceive(room)
  PROVE  /\ TypeOK'
         /\ call = NoCall
         /\ UNCHANGED <<blockNumber, picc, last, losses>>
         /\ call'.step = "block" /\ call'.stage = "first" /\ call'.data = <<>>
         /\ call'.cmd = last.cmd + 1 /\ call'.inStep = InStep
         /\ call'.send = IBlock(blockNumber, last.cmd + 1)
         /\ call'.current = call'.send
PROOF
<1> DEFINE block == IBlock(blockNumber, last.cmd + 1)
           n == last.cmd + 1
<1>1. /\ call = NoCall
      /\ call' = [NoCall EXCEPT !.step = "block", !.cmd = n,
                               !.total = room, !.room = room,
                               !.send = block, !.current = block,
                               !.inStep = InStep]
      /\ UNCHANGED <<blockNumber, picc, last, losses>>
  BY DEF TCL_Transceive, MayCall
<1>2. blockNumber \in BlockNumbers /\ n \in Nat /\ room \in Nat
  BY LimitsAssumption DEF TypeOK, Result
<1>3. block \in Frame /\ InStep \in BOOLEAN
  BY <1>2, FrameFacts DEF InStep
<1> HIDE DEF block, n
<1>4. call' \in Call
  BY <1>1, <1>2, <1>3, NoCallTyped DEF Call, Steps
<1>5. TypeOK'
  BY <1>1, <1>4 DEF TypeOK
<1>6. /\ call'.step = "block" /\ call'.stage = "first" /\ call'.data = <<>>
      /\ call'.cmd = n /\ call'.inStep = InStep
      /\ call'.send = block /\ call'.current = block
  BY <1>1 DEF NoCall
<1>7. QED
  BY <1>1, <1>5, <1>6 DEF block, n

LEMMA RefuseStep ==
  ASSUME TypeOK, Refuse
  PROVE  /\ TypeOK'
         /\ call = NoCall
         /\ UNCHANGED <<blockNumber, picc, call, losses>>
         /\ last'.cmd = last.cmd + 1 /\ last'.data = <<>>
PROOF
<1>1. last.cmd + 1 \in Nat /\ <<>> \in Seq(Part) /\ InStep \in BOOLEAN
  BY DEF TypeOK, Result, InStep
<1>2. /\ last' = [cmd |-> last.cmd + 1, data |-> <<>>, inStep |-> InStep,
                 reset |-> FALSE]
      /\ call = NoCall
      /\ UNCHANGED <<blockNumber, picc, call, losses>>
  BY DEF Refuse, MayCall
<1>3. last' \in Result
  BY <1>1, <1>2 DEF Result
<1>4. QED
  BY <1>2, <1>3 DEF TypeOK

LEMMA ActivateStep ==
  ASSUME TypeOK, Activate
  PROVE  /\ TypeOK'
         /\ call = NoCall /\ call' = NoCall
         /\ picc'.carried = picc.carried
         /\ InStep'
         /\ last'.cmd = last.cmd /\ last'.data = last.data
         /\ last'.inStep = last.inStep
PROOF
<1>1. picc.carried \in Seq([cmd: Nat, parts: Nat])
  BY DEF TypeOK, Picc
<1>2. picc' \in Picc /\ picc'.carried = picc.carried /\ picc'.bn = 1
  BY <1>1, TagBlocks DEF Activate, FreshPicc, Picc, BlockNumbers
<1>3. last' \in Result
  BY DEF Activate, TypeOK, Result
<1>4. last'.cmd = last.cmd /\ last'.data = last.data /\ last'.inStep = last.inStep
  BY DEF Activate, TypeOK, Result
<1>5. blockNumber' = 0 /\ blockNumber' \in BlockNumbers
      /\ call = NoCall /\ call' = NoCall /\ losses' = losses
  BY DEF Activate, BlockNumbers
<1>6. TypeOK'
  BY <1>2, <1>3, <1>5, NoCallTyped DEF TypeOK
<1>7. InStep'
  BY <1>2, <1>5 DEF InStep
<1>8. QED
  BY <1>2, <1>4, <1>5, <1>6, <1>7

LEMMA NextNumbering ==
  ASSUME TypeOK, Numbering, [Next]_vars
  PROVE  TypeOK' /\ Numbering'
PROOF
<1>1. last.cmd \in Nat /\ NoCall.step = "idle" /\ picc \in Picc
  BY DEF TypeOK, Result, NoCall
<1>2. \A i \in DOMAIN picc.carried : picc.carried[i].cmd \in Nat
  <2>1. picc.carried \in Seq([cmd: Nat, parts: Nat])
    BY <1>1 DEF Picc
  <2>2. \A i \in DOMAIN picc.carried : picc.carried[i] \in [cmd: Nat, parts: Nat]
    BY <2>1, Elements
  <2>3. QED
    BY <2>2
<1>3. ASSUME NEW room \in Rooms, TCL_Transceive(room)
      PROVE  TypeOK' /\ Numbering'
  <2>1. \A i \in DOMAIN picc.carried : picc.carried[i].cmd <= last.cmd
    BY <1>1, <1>3, StartStep DEF Numbering, CarriedBehind
  <2>2. CallNumber' /\ CarriedOnce'
    BY <1>3, StartStep DEF Numbering, CallNumber, CarriedOnce
  <2>3. CarriedBehind'
    BY <1>1, <1>2, <1>3, <2>1, StartStep DEF CarriedBehind
  <2>4. NotYetCarried'
    BY <1>1, <1>2, <1>3, <2>1, StartStep DEF NotYetCarried, Carried, IBlock
  <2>5. QED
    BY <1>3, <2>2, <2>3, <2>4, StartStep DEF Numbering
<1>4. CASE Refuse
  <2>1. \A i \in DOMAIN picc.carried : picc.carried[i].cmd <= last.cmd
    BY <1>1, <1>4, RefuseStep DEF Numbering, CarriedBehind
  <2>2. CarriedBehind'
    BY <1>1, <1>2, <1>4, <2>1, RefuseStep DEF CarriedBehind
  <2>3. CallNumber' /\ NotYetCarried'
    BY <1>1, <1>4, RefuseStep DEF CallNumber, NotYetCarried
  <2>4. CarriedOnce'
    BY <1>4, RefuseStep DEF Numbering, CarriedOnce
  <2>5. QED
    BY <1>4, <2>2, <2>3, <2>4, RefuseStep DEF Numbering
<1>5. CASE Activate
  BY <1>1, <1>5, ActivateStep
     DEF Numbering, CallNumber, CarriedBehind, NotYetCarried, CarriedOnce
<1>6. CASE LinkStep
  BY <1>6, LinkAdvances, LinkNumbering
<1>7. CASE UNCHANGED vars
  BY <1>7 DEF vars, TypeOK, Numbering, CallNumber, CarriedBehind,
              NotYetCarried, Carried, CarriedOnce
<1>8. QED
  BY <1>3, <1>4, <1>5, <1>6, <1>7 DEF Next

---------------------------------------------------------------------------
(* A call that began with the block numbers in step.                       *)

Situation ==
  /\ call.stage = "first" /\ call.data = <<>>
  /\ call.send = IBlock(blockNumber, call.cmd)
  /\ \/ /\ Lacks(picc, call.send)
        /\ call.step = "block" => call.current = call.send
     \/ /\ Has(picc, call.send)
        /\ call.step = "block" => call.current = WtxResponse

(* The tag after an exchange, and what has come back.                      *)
Came(p, b, apdu) ==
  \/ Lacks(p, apdu) /\ b \in {Silence, RAck(p.bn)}
  \/ Has(p, apdu) /\ b \in {Silence, WtxRequest, OwnBlock(apdu)}

LEMMA ShortAnswers ==
  ASSUME NEW p \in Picc, NEW n \in Nat, NEW cmd \in Nat, NEW q \in Picc,
         q.carried = Append(p.carried, [cmd |-> cmd, parts |-> n]),
         OneBlock(q, cmd)
  PROVE  n = 1 /\ Carried(q, cmd)
PROOF
<1> DEFINE e == [cmd |-> cmd, parts |-> n]
<1>1. e \in [cmd: Nat, parts: Nat] /\ e.cmd = cmd /\ e.parts = n
  OBVIOUS
<1>2. p.carried \in Seq([cmd: Nat, parts: Nat])
  BY DEF Picc
<1>3. q.carried = Append(p.carried, e)
  OBVIOUS
<1> HIDE DEF e
<1>4. /\ Len(p.carried) + 1 \in DOMAIN q.carried
      /\ q.carried[Len(p.carried) + 1] = e
  BY <1>1, <1>2, <1>3
<1>5. QED
  BY <1>1, <1>4 DEF Carried, OneBlock

LEMMA FirstDelivery ==
  ASSUME NEW p \in Picc, NEW apdu \in Frame, apdu.kind = "I",
         Lacks(p, apdu), NEW r \in Replies(p, apdu), OneBlock(r.picc, apdu.cmd)
  PROVE  Has(r.picc, apdu) /\ r.rsp \in {WtxRequest, OwnBlock(apdu)}
PROOF
<1>1. apdu.cmd \in Nat /\ apdu.bn \in BlockNumbers /\ p.bn \in BlockNumbers
  BY DEF Frame, Picc
<1>2. PICK n \in Nat : r \in AnswerOrWait(CarryOut(p, apdu.cmd, n))
  BY IBlockReplies, Lengths
<1>3. PICK q : q = CarryOut(p, apdu.cmd, n)
  OBVIOUS
<1>4. /\ q \in Picc /\ q.bn = Other(p.bn) /\ q.cmd = apdu.cmd
      /\ q.sent = 0 /\ q.parts = n
      /\ q.carried = Append(p.carried, [cmd |-> apdu.cmd, parts |-> n])
  BY <1>1, <1>3, CarryOutFacts
<1>5. q.bn = apdu.bn
  BY <1>1, <1>4 DEF Lacks, Other, BlockNumbers
<1>6. /\ r.picc \in Picc /\ r.picc.carried = q.carried /\ r.picc.last = r.rsp
      /\ r.picc.bn = q.bn /\ r.picc.cmd = q.cmd /\ r.picc.parts = q.parts
      /\ r.rsp = PartBlock(q) \/ (r.rsp = WtxRequest /\ r.picc.sent = q.sent)
  BY <1>2, <1>3, <1>4, WaitFacts
<1>7. n = 1 /\ Carried(r.picc, apdu.cmd)
  BY <1>1, <1>4, <1>6, ShortAnswers
<1>8. PartBlock(q) = OwnBlock(apdu)
  BY <1>4, <1>7, <1>5, OnlyPart
<1>9. QED
  BY <1>4, <1>6, <1>7, <1>8, <1>5 DEF Has

(* The tag that has the APDU answers S(WTX) and R(NAK) alike: with a       *)
(* request for time or the answer.                                         *)
LEMMA SecondDelivery ==
  ASSUME NEW p \in Picc, NEW apdu \in Frame, Has(p, apdu),
         NEW f \in {WtxResponse, RBlock("RNAK", apdu.bn)}, NEW r \in Replies(p, f)
  PROVE  Has(r.picc, apdu) /\ r.rsp \in {Silence, WtxRequest, OwnBlock(apdu)}
PROOF
<1>1. apdu.bn \in BlockNumbers
  BY DEF Frame
<1>2. CASE f = RBlock("RNAK", apdu.bn)
  <2>1. r.picc = p /\ r.rsp = p.last
    BY <1>1, <1>2, RNakReplies DEF Has
  <2>2. QED
    BY <2>1 DEF Has
<1>3. CASE f = WtxResponse
  <2>1. r \in IF p.last.kind = "WTX" THEN AnswerOrWait(p) ELSE {Ignored(p)}
    BY <1>3 DEF Replies, WtxResponse
  <2>2. CASE p.last.kind = "WTX"
    <3>1. p.sent = 0 /\ p.bn = apdu.bn /\ p.cmd = apdu.cmd /\ p.parts = 1
          /\ Carried(p, apdu.cmd)
      BY <2>2 DEF Has, OwnBlock
    <3>2. PartBlock(p) = OwnBlock(apdu)
      BY <3>1, OnlyPart
    <3>3. r \in AnswerOrWait(p)
      BY <2>1, <2>2
    <3>4. /\ r.picc.carried = p.carried /\ r.picc.last = r.rsp
          /\ r.picc.bn = p.bn /\ r.picc.cmd = p.cmd /\ r.picc.parts = p.parts
          /\ r.rsp = PartBlock(p) \/ (r.rsp = WtxRequest /\ r.picc.sent = p.sent)
      BY <3>3, WaitFacts
    <3>5. QED
      BY <3>1, <3>2, <3>4 DEF Has, Carried
  <2>3. CASE p.last.kind # "WTX"
    BY <2>1, <2>3 DEF Ignored
  <2>4. QED
    BY <2>2, <2>3
<1>4. QED
  BY <1>2, <1>3

LEMMA InStepExchange ==
  ASSUME TypeOK, Situation,
         NEW f, f = (IF call.step = "block" THEN call.current ELSE Recovery(call)),
         NEW x \in Exchanged(f), Exchange(x), OneBlock(picc', call.cmd)
  PROVE  Came(picc', x.rsp, call.send)
PROOF
<1>1. picc \in Picc /\ losses \in 0..MaxLosses /\ picc' = x.picc
  BY DEF TypeOK, Exchange
<1>2. /\ call.send \in Frame /\ f \in Frame /\ call.send.bn \in BlockNumbers
      /\ call.send.kind = "I" /\ call.send.cmd = call.cmd
  BY CallFacts DEF Situation, IBlock
<1>3. \/ /\ Lacks(picc, call.send)
         /\ f \in {call.send, RBlock("RNAK", call.send.bn)}
      \/ /\ Has(picc, call.send)
         /\ f \in {WtxResponse, RBlock("RNAK", call.send.bn)}
  BY CallFacts DEF Situation
<1>4. CASE x.picc = picc /\ x.rsp = Silence
  BY <1>1, <1>3, <1>4 DEF Came
<1>5. ASSUME NEW r \in Replies(picc, f), x.picc = r.picc,
             x.rsp \in {r.rsp, Silence}
      PROVE  Came(picc', x.rsp, call.send)
  <2>1. CASE Has(picc, call.send)
             /\ f \in {WtxResponse, RBlock("RNAK", call.send.bn)}
    BY <1>1, <1>2, <1>5, <2>1, SecondDelivery DEF Came
  <2>2. CASE Lacks(picc, call.send) /\ f = call.send
    <3>1. OneBlock(r.picc, call.send.cmd)
      BY <1>1, <1>2, <1>5
    <3>2. Has(r.picc, call.send) /\ r.rsp \in {WtxRequest, OwnBlock(call.send)}
      BY <1>1, <1>2, <2>2, <3>1, FirstDelivery
    <3>3. QED
      BY <1>1, <1>5, <3>2 DEF Came
  <2>3. CASE Lacks(picc, call.send) /\ f = RBlock("RNAK", call.send.bn)
    <3>1. /\ r.rsp = RAck(picc.bn)
          /\ r.picc.bn = picc.bn /\ r.picc.carried = picc.carried
      BY <1>1, <1>2, <2>3, RNakReplies DEF Lacks
    <3>2. Lacks(r.picc, call.send)
      BY <2>3, <3>1 DEF Lacks, Carried
    <3>3. QED
      BY <1>1, <1>5, <3>1, <3>2 DEF Came
  <2>4. QED
    BY <1>3, <2>1, <2>2, <2>3
<1>6. QED
  BY <1>1, <1>2, <1>4, <1>5, ExchangedFacts

(* The block that came back ends the call, or asks for another round.      *)
LEMMA InStepAccept ==
  ASSUME TypeOK, Situation, NEW b, Came(picc', b, call.send), Accept(b)
  PROVE  \/ Ended /\ last'.data = <<>>
         \/ /\ Ended /\ b = OwnBlock(call.send)
            /\ last'.data = <<b.part>>
            /\ blockNumber' = Other(blockNumber)
         \/ /\ b = WtxRequest
            /\ \E n : call' = [call EXCEPT !.step = "block",
                                          !.current = WtxResponse, !.attempt = n]
            /\ UNCHANGED <<blockNumber, last>>
PROOF
<1>1. \/ b.kind \in {"none", "RACK"} /\ b.more = FALSE
      \/ b = OwnBlock(call.send) /\ b.kind = "I" /\ b.more = FALSE
      \/ b = WtxRequest /\ b.kind = "WTX"
  BY DEF Came, Silence, RAck, WtxRequest, OwnBlock
<1>2. ASSUME NEW data, Finish(data) PROVE Ended /\ last'.data = data
  BY <1>2 DEF Finish, Ended
<1>3. CASE b.kind = "WTX"
  BY <1>1, <1>2, <1>3 DEF Accept, Fail
<1>4. CASE b.kind \in {"none", "RACK"} /\ b.more = FALSE
  <2>1. Fail \/ Finish(call.data \o <<>>)
    BY <1>4 DEF Accept, Received, Situation
  <2>2. call.data \o <<>> = <<>>
    BY DEF Situation
  <2>3. QED
    BY <1>2, <2>1, <2>2 DEF Fail
<1>5. CASE b = OwnBlock(call.send) /\ b.kind = "I" /\ b.more = FALSE
  <2>1. \/ Fail
        \/ Finish(call.data \o <<b.part>>) /\ blockNumber' = NextNumber(blockNumber)
    BY <1>5 DEF Accept, Received, Situation
  <2>2. call.data \o <<b.part>> = <<b.part>>
    BY DEF Situation
  <2>3. QED
    BY <1>2, <1>5, <2>1, <2>2 DEF Fail, NextNumber
<1>6. QED
  BY <1>1, <1>3, <1>4, <1>5

(* Such a call returns nothing, returns its own answer with the numbers in *)
(* step again, or goes on in one of the two situations.                    *)
LEMMA SituationStep ==
  ASSUME TypeOK, Situation, LinkStep, OneBlock(picc', call.cmd)
  PROVE  \/ Ended /\ last'.data = <<>>
         \/ /\ Ended /\ Has(picc', call.send)
            /\ last'.data = <<[cmd |-> call.cmd, part |-> 1]>>
            /\ InStep'
         \/ Situation' /\ call'.step # "idle" /\ UNCHANGED last
PROOF
<1> DEFINE f == IF call.step = "block" THEN call.current ELSE Recovery(call)
<1>1. call \in Call /\ picc' \in Picc /\ blockNumber \in BlockNumbers
  BY LinkAdvances DEF TypeOK
<1>2. call.send.bn = blockNumber /\ call.send.cmd = call.cmd
  BY DEF Situation, IBlock
<1>3. PICK x \in Exchanged(f) :
        /\ Exchange(x)
        /\ \/ Accept(x.rsp)
           \/ /\ x.rsp = Silence
              /\ \E n : call' = [call EXCEPT !.step = "rnak", !.retries = n]
              /\ UNCHANGED <<blockNumber, last>>
           \/ Fail
  <2>1. CASE SendBlock
    BY <2>1 DEF SendBlock
  <2>2. CASE SendRNak
    <3>1. PICK x \in Exchanged(Recovery(call)) :
            /\ Exchange(x)
            /\ \/ Accept(x.rsp)
               \/ /\ x.rsp = Silence
                  /\ call' = [call EXCEPT !.retries = @ + 1]
                  /\ UNCHANGED <<blockNumber, last>>
               \/ Fail
      BY <2>2 DEF SendRNak
    <3>2. f = Recovery(call) /\ call.step = "rnak"
      BY <2>2 DEF SendRNak
    <3>3. call' = [call EXCEPT !.retries = @ + 1]
            => \E n : call' = [call EXCEPT !.step = "rnak", !.retries = n]
      <4>1. [call EXCEPT !.retries = @ + 1]
              = [call EXCEPT !.step = "rnak", !.retries = call.retries + 1]
        BY <1>1, <3>2 DEF Call
      <4>2. QED
        BY <4>1
    <3>4. QED
      BY <3>1, <3>2, <3>3
  <2>3. QED
    BY <2>1, <2>2 DEF LinkStep
<1> HIDE DEF f
<1>4. PICK b : b = x.rsp
  OBVIOUS
<1>5. Came(picc', b, call.send)
  BY <1>3, <1>4, InStepExchange DEF f
<1>6. CASE Fail
  BY <1>6 DEF Fail, Finish, Ended
<1>7. CASE Accept(b)
  <2>1. CASE Ended /\ last'.data = <<>>
    BY <2>1
  <2>2. CASE /\ Ended /\ b = OwnBlock(call.send)
             /\ last'.data = <<b.part>>
             /\ blockNumber' = Other(blockNumber)
    <3>1. Has(picc', call.send)
      BY <1>5, <2>2 DEF Came, OwnBlock, Silence, RAck
    <3>2. b.part = [cmd |-> call.cmd, part |-> 1]
      BY <1>2, <2>2 DEF OwnBlock
    <3>3. InStep'
      BY <1>1, <1>2, <2>2, <3>1, Others DEF InStep, Has
    <3>4. QED
      BY <2>2, <3>1, <3>2, <3>3
  <2>3. CASE /\ b = WtxRequest
             /\ \E n : call' = [call EXCEPT !.step = "block",
                                           !.current = WtxResponse, !.attempt = n]
             /\ UNCHANGED <<blockNumber, last>>
    <3>1. Has(picc', call.send)
      BY <1>5, <2>3 DEF Came, WtxRequest, Silence, RAck
    <3>2. PICK n : call' = [call EXCEPT !.step = "block",
                                        !.current = WtxResponse, !.attempt = n]
      BY <2>3
    <3>3. /\ call'.step = "block" /\ call'.current = WtxResponse
          /\ call'.stage = call.stage /\ call'.data = call.data
          /\ call'.send = call.send /\ call'.cmd = call.cmd
      BY <1>1, <3>2 DEF Call
    <3>4. QED
      BY <2>3, <3>1, <3>3 DEF Situation
  <2>4. QED
    BY <1>5, <1>7, <2>1, <2>2, <2>3, InStepAccept
<1>8. CASE /\ \E n : call' = [call EXCEPT !.step = "rnak", !.retries = n]
           /\ UNCHANGED <<blockNumber, last>>
  <2>1. /\ call'.step = "rnak"
        /\ call'.stage = call.stage /\ call'.data = call.data
        /\ call'.send = call.send /\ call'.cmd = call.cmd
    BY <1>1, <1>8 DEF Call
  <2>2. Lacks(picc', call.send) \/ Has(picc', call.send)
    BY <1>5 DEF Came
  <2>3. QED
    BY <1>8, <2>1, <2>2 DEF Situation
<1>9. QED
  BY <1>3, <1>6, <1>7, <1>8, <1>4

---------------------------------------------------------------------------
(* The inductive invariant.                                                *)

OwnAnswers == InStepCall /\ InStepAnswer /\ StaysInStep

LEMMA WholeInvariant == IInv <=> TypeOK /\ Numbering /\ OwnAnswers
PROOF BY DEF IInv, Numbering, OwnAnswers

(* The commands carried out are never forgotten or changed.                *)
LEMMA NothingForgotten ==
  ASSUME TypeOK, LinkStep
  PROVE  /\ \A cmd : OneBlock(picc', cmd) => OneBlock(picc, cmd)
         /\ \A i \in DOMAIN picc.carried :
              i \in DOMAIN picc'.carried /\ picc'.carried[i] = picc.carried[i]
PROOF
<1>1. \A i \in DOMAIN picc.carried :
        i \in DOMAIN picc'.carried /\ picc'.carried[i] = picc.carried[i]
  <2>1. CASE picc'.carried = picc.carried
    BY <2>1
  <2>2. CASE Grown(picc, picc', call.current.cmd)
    <3>1. picc \in Picc /\ picc' \in Picc /\ call.current.cmd \in Nat
      BY LinkAdvances, CallFacts DEF TypeOK, Frame
    <3>2. QED
      BY <2>2, <3>1, GrownFacts
  <2>3. QED
    BY <2>1, <2>2, LinkAdvances
<1>2. QED
  BY <1>1 DEF OneBlock

LEMMA LinkOwnAnswers ==
  ASSUME TypeOK, OwnAnswers, LinkStep
  PROVE  OwnAnswers'
PROOF
<1>1. /\ call.step # "idle"
      /\ Ended \/ GoesOn \/ GoesToRNak
      /\ NoCall.step = "idle"
  BY LinkAdvances DEF NoCall
<1>2. CASE ~Ended /\ UNCHANGED last
  <2>1. call'.step # "idle" /\ call' # NoCall
        /\ call'.inStep = call.inStep /\ call'.cmd = call.cmd
    BY <1>1, <1>2 DEF GoesOn, GoesToRNak
  <2>2. ASSUME NEW data, NEW cmd, WholeAnswer(data, cmd)
        PROVE  \E i \in DOMAIN picc'.carried :
                 /\ picc'.carried[i].cmd = cmd
                 /\ data = [n \in 1..picc'.carried[i].parts
                             |-> [cmd |-> cmd, part |-> n]]
    <3>1. PICK i \in DOMAIN picc.carried :
            /\ picc.carried[i].cmd = cmd
            /\ data = [n \in 1..picc.carried[i].parts |-> [cmd |-> cmd, part |-> n]]
      BY <2>2 DEF WholeAnswer
    <3>2. i \in DOMAIN picc'.carried /\ picc'.carried[i] = picc.carried[i]
      BY NothingForgotten
    <3>3. QED
      BY <3>1, <3>2
  <2>3. InStepAnswer'
    <3>1. SUFFICES ASSUME last.inStep, OneBlock(picc', last.cmd), last.data # <<>>
                   PROVE  WholeAnswer(last.data, last.cmd)'
      BY <1>2 DEF InStepAnswer
    <3>2. WholeAnswer(last.data, last.cmd)
      BY <3>1, NothingForgotten DEF OwnAnswers, InStepAnswer
    <3>3. QED
      BY <1>2, <2>2, <3>2 DEF WholeAnswer
  <2>4. StaysInStep'
    BY <2>1 DEF StaysInStep
  <2>5. InStepCall'
    <3>1. SUFFICES ASSUME call.inStep, OneBlock(picc', call.cmd)
                   PROVE  Situation'
      BY <2>1 DEF InStepCall, Situation
    <3>2. Situation
      BY <1>1, <3>1, NothingForgotten DEF OwnAnswers, InStepCall, Situation
    <3>3. QED
      BY <1>2, <3>1, <3>2, SituationStep
  <2>6. QED
    BY <2>3, <2>4, <2>5 DEF OwnAnswers
<1>3. CASE Ended
  <2>1. InStepCall'
    BY <1>1, <1>3 DEF Ended, InStepCall
  <2>2. CASE ~(call.inStep /\ OneBlock(picc', call.cmd) /\ last'.data # <<>>)
    BY <1>3, <2>1, <2>2 DEF Ended, OwnAnswers, InStepAnswer, StaysInStep
  <2>3. CASE call.inStep /\ OneBlock(picc', call.cmd) /\ last'.data # <<>>
    <3>1. Situation
      BY <1>1, <2>3, NothingForgotten DEF OwnAnswers, InStepCall, Situation
    <3>2. /\ Has(picc', call.send)
          /\ last'.data = <<[cmd |-> call.cmd, part |-> 1]>>
          /\ InStep'
      BY <1>1, <1>3, <2>3, <3>1, SituationStep DEF Ended
    <3>3. call.send.cmd = call.cmd
      BY <3>1 DEF Situation, IBlock
    <3>4. PICK i \in DOMAIN picc'.carried : picc'.carried[i].cmd = call.cmd
      BY <3>2, <3>3 DEF Has, Carried
    <3>5. picc'.carried[i].parts = 1
      BY <2>3, <3>4 DEF OneBlock
    <3>6. last'.data = [n \in 1..picc'.carried[i].parts
                         |-> [cmd |-> call.cmd, part |-> n]]
      BY <3>2, <3>5
    <3>7. WholeAnswer(last.data, last.cmd)'
      BY <1>3, <3>4, <3>6 DEF WholeAnswer, Ended
    <3>8. QED
      BY <2>1, <3>2, <3>7 DEF OwnAnswers, InStepAnswer, StaysInStep
  <2>4. QED
    BY <2>2, <2>3
<1>4. QED
  BY <1>1, <1>2, <1>3 DEF GoesOn, GoesToRNak

LEMMA NextOwnAnswers ==
  ASSUME TypeOK, Numbering, OwnAnswers, [Next]_vars
  PROVE  OwnAnswers'
PROOF
<1>1. NoCall.step = "idle"
  BY DEF NoCall
<1>2. ASSUME NEW room \in Rooms, TCL_Transceive(room)
      PROVE  OwnAnswers'
  <2>1. last.cmd \in Nat /\ picc \in Picc
    BY DEF TypeOK, Result
  <2>2. \A i \in DOMAIN picc.carried : picc.carried[i].cmd <= last.cmd
    BY <1>1, <1>2, StartStep DEF Numbering, CarriedBehind
  <2>3. \A i \in DOMAIN picc.carried : picc.carried[i].cmd \in Nat
    <3>1. picc.carried \in Seq([cmd: Nat, parts: Nat])
      BY <2>1 DEF Picc
    <3>2. \A i \in DOMAIN picc.carried : picc.carried[i] \in [cmd: Nat, parts: Nat]
      BY <3>1, Elements
    <3>3. QED
      BY <3>2
  <2>4. ~Carried(picc, last.cmd + 1)
    BY <2>1, <2>2, <2>3 DEF Carried
  <2>5. call'.inStep => Lacks(picc, call'.send)
    <3>1. call'.inStep = InStep
      BY <1>2, StartStep
    <3>2. call'.inStep => blockNumber # picc.bn
      BY <3>1 DEF InStep
    <3>3. call'.send.bn = blockNumber /\ call'.send.cmd = last.cmd + 1
      BY <1>2, StartStep DEF IBlock
    <3>4. QED
      BY <2>4, <3>2, <3>3 DEF Lacks
  <2>6. InStepCall'
    BY <1>2, <2>5, StartStep DEF InStepCall
  <2>7. InStepAnswer' /\ StaysInStep'
    BY <1>1, <1>2, StartStep
       DEF OwnAnswers, InStepAnswer, StaysInStep, WholeAnswer
  <2>8. QED
    BY <2>6, <2>7 DEF OwnAnswers
<1>3. CASE Refuse
  BY <1>1, <1>3, RefuseStep DEF OwnAnswers, InStepCall, InStepAnswer, StaysInStep
<1>4. CASE Activate
  <2>1. InStepCall' /\ StaysInStep'
    BY <1>1, <1>4, ActivateStep DEF InStepCall, StaysInStep
  <2>2. InStepAnswer'
    <3>1. SUFFICES ASSUME last.inStep, OneBlock(picc, last.cmd), last.data # <<>>
                   PROVE  WholeAnswer(last.data, last.cmd)'
      BY <1>4, ActivateStep DEF InStepAnswer, OneBlock
    <3>2. PICK i \in DOMAIN picc.carried :
            /\ picc.carried[i].cmd = last.cmd
            /\ last.data = [n \in 1..picc.carried[i].parts
                             |-> [cmd |-> last.cmd, part |-> n]]
      BY <3>1 DEF OwnAnswers, InStepAnswer, WholeAnswer
    <3>3. /\ i \in DOMAIN picc'.carried /\ picc'.carried[i].cmd = last.cmd
          /\ last'.data = [n \in 1..picc'.carried[i].parts
                             |-> [cmd |-> last.cmd, part |-> n]]
      BY <1>4, <3>2, ActivateStep
    <3>4. last'.cmd = last.cmd
      BY <1>4, ActivateStep
    <3>5. QED
      BY <3>3, <3>4 DEF WholeAnswer
  <2>3. QED
    BY <2>1, <2>2 DEF OwnAnswers
<1>5. CASE LinkStep
  BY <1>5, LinkOwnAnswers
<1>6. CASE UNCHANGED vars
  BY <1>6 DEF vars, OwnAnswers, InStepCall, InStepAnswer, StaysInStep, WholeAnswer,
              InStep
<1>7. QED
  BY <1>2, <1>3, <1>4, <1>5, <1>6 DEF Next

(* The invariant is inductive and holds in every reachable state.          *)
THEOREM Inductive == Spec => []IInv
PROOF
<1>1. Init => IInv
  <2> SUFFICES ASSUME Init PROVE IInv
    OBVIOUS
  <2>1. TypeOK /\ Numbering
    BY InitNumbering
  <2>2. OwnAnswers
    BY DEF Init, NoCall, OwnAnswers, InStepCall, InStepAnswer, StaysInStep
  <2>3. QED
    BY <2>1, <2>2, WholeInvariant
<1>2. IInv /\ [Next]_vars => IInv'
  <2> SUFFICES ASSUME IInv, [Next]_vars PROVE IInv'
    OBVIOUS
  <2>1. TypeOK' /\ Numbering'
    BY WholeInvariant, NextNumbering
  <2>2. OwnAnswers'
    BY WholeInvariant, NextOwnAnswers
  <2>3. QED
    BY <2>1, <2>2 DEF IInv, Numbering, OwnAnswers
<1>3. QED
  BY <1>1, <1>2, PTL DEF Spec

(* Every variable of the block protocol keeps its type.                    *)
THEOREM TypeCorrect == Spec => []TypeOK
PROOF
<1>1. IInv => TypeOK
  BY DEF IInv
<1>2. QED
  BY <1>1, Inductive, PTL

(* However many frames are lost, R(NAK) recovery never makes the tag carry *)
(* an APDU out twice.                                                      *)
THEOREM NeverTwice == Spec => []CarriedOnce
PROOF
<1>1. IInv => CarriedOnce
  BY DEF IInv
<1>2. QED
  BY <1>1, Inductive, PTL

(* A call that begins in step and whose answer fits a block returns its    *)
(* own answer or nothing.                                                  *)
THEOREM InStepMeansOwn == Spec => []InStepAnswer
PROOF
<1>1. IInv => InStepAnswer
  BY DEF IInv
<1>2. QED
  BY <1>1, Inductive, PTL

(* Such a call leaves the block numbers in step when it returns an answer. *)
THEOREM InStepAgain == Spec => []StaysInStep
PROOF
<1>1. IInv => StaysInStep
  BY DEF IInv
<1>2. QED
  BY <1>1, Inductive, PTL

---------------------------------------------------------------------------
(* An application that activates the tag again after a call that returned  *)
(* nothing, and answers that fit a block.                                  *)

Restarted ==
  /\ call.step # "idle" => call.inStep
  /\ last.data # <<>> => last.inStep
  /\ call.step = "idle" /\ last.reset => InStep
  /\ \A i \in DOMAIN picc.carried : picc.carried[i].parts \in 1..MaxBlocks

LEMMA LinkRestarted ==
  ASSUME TypeOK, Restarted, LinkStep
  PROVE  Restarted'
PROOF
<1>1. /\ call.step # "idle" /\ call.inStep
      /\ Ended \/ GoesOn \/ GoesToRNak
      /\ picc \in Picc /\ picc' \in Picc /\ call.current.cmd \in Nat
      /\ NoCall.step = "idle"
  BY LinkAdvances, CallFacts DEF Restarted, TypeOK, Frame, NoCall
<1>2. \A i \in DOMAIN picc'.carried : picc'.carried[i].parts \in 1..MaxBlocks
  <2>1. CASE picc'.carried = picc.carried
    BY <2>1 DEF Restarted
  <2>2. CASE Grown(picc, picc', call.current.cmd)
    <3> DEFINE n == Len(picc.carried) + 1
    <3>1. /\ \A i \in DOMAIN picc'.carried : i \in DOMAIN picc.carried \/ i = n
          /\ \A i \in DOMAIN picc.carried : picc'.carried[i] = picc.carried[i]
          /\ picc'.carried[n].parts \in 1..MaxBlocks
      BY <1>1, <2>2, GrownFacts
    <3> HIDE DEF n
    <3>2. QED
      BY <3>1 DEF Restarted
  <2>3. QED
    BY <2>1, <2>2, LinkAdvances
<1>3. CASE Ended
  BY <1>1, <1>2, <1>3 DEF Ended, Restarted
<1>4. CASE GoesOn \/ GoesToRNak
  BY <1>1, <1>2, <1>4 DEF GoesOn, GoesToRNak, Restarted
<1>5. QED
  BY <1>1, <1>3, <1>4

LEMMA NextRestarted ==
  ASSUME Disciplined, MaxBlocks = 1, IInv, Restarted, [Next]_vars
  PROVE  Restarted'
PROOF
<1>1. TypeOK /\ StaysInStep /\ NoCall.step = "idle"
  BY DEF IInv, NoCall
<1>2. OneBlock(picc, last.cmd)
  <2>1. \A n \in 1..MaxBlocks : n = 1
    OBVIOUS
  <2>2. QED
    BY <2>1 DEF Restarted, OneBlock
<1>3. ASSUME NEW room \in Rooms, TCL_Transceive(room)
      PROVE  Restarted'
  <2>1. InStep
    BY <1>1, <1>2, <1>3 DEF TCL_Transceive, MayCall, StaysInStep, Restarted
  <2>2. call'.inStep = InStep
    BY <1>1, <1>3, StartStep
  <2>3. call'.inStep
    BY <2>1, <2>2
  <2>4. QED
    BY <1>1, <1>3, <2>3, StartStep DEF Restarted
<1>4. CASE Refuse
  BY <1>1, <1>4, RefuseStep DEF Restarted, Refuse
<1>5. CASE Activate
  BY <1>1, <1>5, ActivateStep DEF Restarted
<1>6. CASE LinkStep
  BY <1>1, <1>6, LinkRestarted
<1>7. CASE UNCHANGED vars
  BY <1>7 DEF vars, Restarted, InStep
<1>8. QED
  BY <1>3, <1>4, <1>5, <1>6, <1>7 DEF Next

LEMMA InitRestarted == Init => Restarted
PROOF
<1> SUFFICES ASSUME Init PROVE Restarted
  OBVIOUS
<1>1. picc.carried = <<>> /\ picc.bn = 1
  BY DEF Init, FreshPicc
<1>2. QED
  BY <1>1 DEF Init, NoCall, InStep, Restarted

(* A step of a call carries its command out, returns, or stutters.         *)
LEMMA LinkRefines ==
  ASSUME MaxBlocks = 1, IInv, Restarted, Restarted', LinkStep
  PROVE  Contract!Next \/ UNCHANGED <<picc.carried, last.cmd, last.data>>
PROOF
<1>1. /\ TypeOK /\ CallNumber /\ CarriedBehind /\ NotYetCarried
      /\ call.step # "idle" /\ call.inStep /\ InStepCall
      /\ last.cmd \in Nat /\ picc \in Picc
  BY LinkAdvances DEF IInv, Restarted, TypeOK, Result
<1>2. call.cmd = last.cmd + 1
  BY <1>1 DEF CallNumber
<1>3. picc'.carried = picc.carried \/ Contract!CarryOut
  <2>1. ASSUME call.step = "block", call.current.kind = "I",
               Grown(picc, picc', call.current.cmd)
        PROVE  Contract!CarryOut
    <3>1. call.current.cmd = last.cmd + 1 /\ ~Carried(picc, call.cmd)
      BY <1>1, <1>2, <2>1 DEF NotYetCarried
    <3>2. \A i \in DOMAIN picc.carried : picc.carried[i].cmd \in Nat
      <4>1. picc.carried \in Seq([cmd: Nat, parts: Nat])
        BY <1>1 DEF Picc
      <4>2. \A i \in DOMAIN picc.carried : picc.carried[i] \in [cmd: Nat, parts: Nat]
        BY <4>1, Elements
      <4>3. QED
        BY <4>2
    <3>3. \A i \in DOMAIN picc.carried : picc.carried[i].cmd <= last.cmd
      BY <1>1, <1>2, <3>1, <3>2 DEF CarriedBehind, Carried
    <3>4. QED
      BY <2>1, <3>1, <3>3 DEF Grown, Contract!CarryOut
  <2>2. QED
    BY <1>1, <2>1, LinkAdvances
<1>4. CASE UNCHANGED last
  BY <1>3, <1>4 DEF Contract!Next
<1>5. CASE Ended
  <2>1. \A i \in DOMAIN picc'.carried : picc'.carried[i].parts = 1
    BY DEF Restarted
  <2>2. OneBlock(picc', call.cmd)
    BY <2>1 DEF OneBlock
  <2>3. Situation
    BY <1>1, <2>2, NothingForgotten DEF InStepCall, Situation
  <2>4. call'.step = "idle" /\ last'.cmd = last.cmd + 1
    BY <1>2, <1>5 DEF Ended, NoCall
  <2>5. \/ last'.data = <<>>
        \/ /\ Has(picc', call.send)
           /\ last'.data = <<[cmd |-> call.cmd, part |-> 1]>>
    BY <1>1, <1>5, <2>2, <2>3, <2>4, SituationStep
  <2>6. CASE last'.data = <<>>
    BY <1>3, <2>4, <2>6 DEF Contract!Next, Contract!Return
  <2>7. CASE /\ Has(picc', call.send)
             /\ last'.data = <<[cmd |-> call.cmd, part |-> 1]>>
    <3>1. PICK i \in DOMAIN picc'.carried : picc'.carried[i].cmd = last.cmd + 1
      BY <1>2, <2>3, <2>7 DEF Has, Carried, Situation, IBlock
    <3>2. last'.data = Contract!Answer(picc'.carried[i])
      BY <1>2, <2>1, <2>7, <3>1 DEF Contract!Answer
    <3>3. last'.data \in {Contract!Answer(picc'.carried[k]) :
                            k \in {j \in DOMAIN picc'.carried :
                                      picc'.carried[j].cmd = last.cmd + 1}}
      BY <3>1, <3>2
    <3>4. QED
      BY <1>3, <2>4, <3>3 DEF Contract!Next, Contract!Return
  <2>8. QED
    BY <2>5, <2>6, <2>7
<1>6. QED
  BY <1>1, <1>4, <1>5, LinkAdvances DEF GoesOn, GoesToRNak

(* Then the block protocol keeps the contract of transceive: APDUs reach   *)
(* the tag in order and at most once, and a call returns the whole answer  *)
(* to its own APDU or nothing.                                             *)
THEOREM ContractKept ==
  ASSUME Disciplined, MaxBlocks = 1
  PROVE  Spec => KeepsContract
PROOF
<1>1. Init => Contract!Init
  BY DEF Init, FreshPicc, Contract!Init
<1>2. IInv /\ Restarted /\ [Next]_vars => Restarted'
  BY NextRestarted
<1>3. IInv /\ IInv' /\ Restarted /\ Restarted' /\ [Next]_vars
        => [Contract!Next]_<<picc.carried, last.cmd, last.data>>
  <2> SUFFICES ASSUME IInv, Restarted, Restarted', [Next]_vars
               PROVE  Contract!Next \/ UNCHANGED <<picc.carried, last.cmd, last.data>>
    OBVIOUS
  <2>1. TypeOK
    BY DEF IInv
  <2>2. ASSUME NEW room \in Rooms, TCL_Transceive(room)
        PROVE  UNCHANGED <<picc.carried, last.cmd, last.data>>
    BY <2>2 DEF TCL_Transceive
  <2>3. CASE Refuse
    <3>1. UNCHANGED picc.carried /\ last'.cmd = last.cmd + 1 /\ last'.data = <<>>
      BY <2>1, <2>3, RefuseStep
    <3>2. QED
      BY <3>1 DEF Contract!Next, Contract!Return
  <2>4. CASE Activate
    BY <2>1, <2>4, ActivateStep
  <2>5. CASE LinkStep
    BY <2>5, LinkRefines
  <2>6. CASE UNCHANGED vars
    BY <2>6 DEF vars
  <2>7. QED
    BY <2>2, <2>3, <2>4, <2>5, <2>6 DEF Next
<1>4. QED
  BY <1>1, <1>2, <1>3, InitRestarted, Inductive, PTL
     DEF Spec, KeepsContract, Contract!Spec
===========================================================================
