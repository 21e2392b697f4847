------------------------------- MODULE IsoDep -------------------------------
(***************************************************************************)
(* MFRC522_I2C_Extended::TCL_Transceive: how the reader passes an APDU to  *)
(* the tag and collects the answer, with the R(NAK) recovery, waiting time *)
(* extension and chaining of MFRC522_I2C_Extended.cpp, over a radio link   *)
(* that loses frames both ways (IsoDepPicc is the tag).                    *)
(*                                                                         *)
(* A step is one PCD_TransceiveData: a frame and what came back.  A frame  *)
(* that is not answered is seen as a status other than STATUS_OK or, when  *)
(* the poll loop runs out before the chip's timer, as STATUS_OK with an    *)
(* empty FIFO.  A block of an answer counts as one unit of room.           *)
(***************************************************************************)
EXTENDS IsoDepPicc

CONSTANTS
  kMaxRetries,   (* R(NAK)s after a failed exchange                        *)
  MaxAttempts,   (* frames of TCL_Transceive's loop, 6 in the code         *)
  Rooms,         (* sizes of the buffers callers pass, in blocks           *)
  PollRunsOut,   (* the poll loop may end before the chip's timer          *)
  Disciplined,   (* the application re-activates the tag after a call that *)
                 (* returned nothing                                       *)
  MaxCalls,      (* bound: calls of transceive                             *)
  MaxLosses      (* bound: frames lost                                     *)

ASSUME LimitsAssumption ==
  /\ kMaxRetries \in Nat \ {0}
  /\ MaxAttempts \in Nat \ {0}
  /\ Rooms \subseteq Nat \ {0}
  /\ PollRunsOut \in BOOLEAN
  /\ Disciplined \in BOOLEAN
  /\ MaxCalls \in Nat
  /\ MaxLosses \in Nat

VARIABLES
  blockNumber,  (* tag.blockNumber                                         *)
  picc,         (* the tag                                                 *)
  call,         (* the locals of the call in progress                      *)
  last,         (* history: number and result of the last call             *)
  losses        (* frames lost so far                                      *)

vars == <<blockNumber, picc, call, last, losses>>

Steps  == {"idle", "block", "rnak"}
Stages == {"first", "chain1", "chain2"}

(* total, data: room of the caller and what was copied to it; room: *backLen *)
(* of the TCL_Transceive in progress; send: the block it was given, current: *)
(* the one it sends; inStep, history: the block numbers were in step when    *)
(* the call began.                                                           *)
Call == [step: Steps, stage: Stages, cmd: Nat, total: Nat, room: Nat,
         send: Frame, current: Frame, attempt: Nat, retries: Nat,
         data: Seq(Part), inStep: BOOLEAN]

(* reset: the tag was activated since the call returned.                   *)
Result == [cmd: Nat, data: Seq(Part), inStep: BOOLEAN, reset: BOOLEAN]

IBlock(b, cmd) == [kind |-> "I", bn |-> b, cmd |-> cmd]
RBlock(kind, b) == [kind |-> kind, bn |-> b, cmd |-> 0]
WtxResponse    == [kind |-> "WTX", bn |-> 0, cmd |-> 0]

NoCall == [step |-> "idle", stage |-> "first", cmd |-> 0, total |-> 0, room |-> 0,
           send |-> WtxResponse, current |-> WtxResponse, attempt |-> 0,
           retries |-> 0, data |-> <<>>, inStep |-> FALSE]

Init ==
  /\ blockNumber = 0
  /\ picc = FreshPicc(<<>>)
  /\ call = NoCall
  /\ last = [cmd |-> 0, data |-> <<>>, inStep |-> FALSE, reset |-> TRUE]
  /\ losses = 0

---------------------------------------------------------------------------
(* The block numbers as the standard has them between two commands: the    *)
(* reader's next block differs from the tag's last.                        *)
InStep == blockNumber # picc.bn

MayCall ==
  /\ call = NoCall
  /\ last.cmd < MaxCalls
  /\ Disciplined => last.data # <<>> \/ last.reset

(* TCL_Transceive(tag, ...): the APDU in one I-block.                      *)
TCL_Transceive(room) ==
  /\ MayCall
  /\ LET block == IBlock(blockNumber, last.cmd + 1)
     IN call' = [NoCall EXCEPT !.step = "block", !.cmd = last.cmd + 1,
                               !.total = room, !.room = room,
                               !.send = block, !.current = block,
                               !.inStep = InStep]
  /\ UNCHANGED <<blockNumber, picc, last, losses>>

(* The calls that fail before a frame is sent: no tag, not SELECTED, an    *)
(* APDU longer than the FIFO, the CRC coprocessor too slow.                *)
Refuse ==
  /\ MayCall
  /\ last' = [cmd |-> last.cmd + 1, data |-> <<>>, inStep |-> InStep,
              reset |-> FALSE]
  /\ UNCHANGED <<blockNumber, picc, call, losses>>

(* readPassiveTargetID succeeds: clearTag, select and RATS.                *)
Activate ==
  /\ call = NoCall
  /\ blockNumber' = 0
  /\ picc' = FreshPicc(picc.carried)
  /\ last' = [last EXCEPT !.reset = TRUE]
  /\ UNCHANGED <<call, losses>>

---------------------------------------------------------------------------
(* The end of a call; the adapter turns any status but STATUS_OK into 0.   *)
Finish(data) ==
  /\ call' = NoCall
  /\ last' = [cmd |-> call.cmd, data |-> data, inStep |-> call.inStep,
              reset |-> FALSE]

Fail == Finish(<<>>) /\ UNCHANGED blockNumber

Pass(send, stage, room, data) ==
  /\ call' = [call EXCEPT !.step = "block", !.stage = stage, !.room = room,
                          !.send = send, !.current = send, !.attempt = 0,
                          !.data = data]
  /\ UNCHANGED last

(* Mutants of NextNumber: counted without the mask; not toggled.           *)
NextNumberUnmasked(b) == b + 1
NextNumberKept(b) == b
NextNumber(b) == Other(b)

(* One block has been passed to the tag and b has come back: the block     *)
(* number is toggled, and a chained answer continued.  The loop body sends *)
(* two R(ACK)s; whether the first brought the end of the chain is not      *)
(* looked at, and room is not reduced between them.                        *)
Received(b) ==
  LET part == IF b.kind = "I" THEN <<b.part>> ELSE <<>>
      data == call.data \o part
      ack  == RBlock("RACK", NextNumber(blockNumber))
      remaining == IF call.total > Len(data) THEN call.total - Len(data) ELSE 0
  IN IF Len(part) > call.room
     THEN Fail
     ELSE /\ blockNumber' = NextNumber(blockNumber)
          /\ IF call.stage = "chain1"
             THEN IF call.room = 0 THEN Finish(<<>>)
                  ELSE Pass(ack, "chain2", call.room, data)
             ELSE IF b.more THEN Pass(ack, "chain1", remaining, data)
                  ELSE Finish(data)

(* Mutant of Accept: the count of attempts wraps and the loop goes on.     *)
AcceptWraps(b) ==
  IF b.kind # "WTX" THEN Received(b)
  ELSE /\ call' = [call EXCEPT !.step = "block", !.current = WtxResponse,
                               !.attempt = (@ + 1) % MaxAttempts]
       /\ UNCHANGED <<blockNumber, last>>

(* S(WTX) is answered in another round of the loop, which ends after       *)
(* MaxAttempts; an R(ACK), or nothing at all, passes for an answer.        *)
Accept(b) ==
  IF b.kind # "WTX" THEN Received(b)
  ELSE IF call.attempt + 1 < MaxAttempts
  THEN /\ call' = [call EXCEPT !.step = "block", !.current = WtxResponse,
                               !.attempt = @ + 1]
       /\ UNCHANGED <<blockNumber, last>>
  ELSE Fail

(* PCD_TransceiveData: the frame is answered, or it or its answer is lost. *)
Exchanged(f) ==
  {[picc |-> r.picc, rsp |-> r.rsp, lost |-> 0] : r \in Replies(picc, f)}
  \union
  (IF losses < MaxLosses
   THEN {[picc |-> q, rsp |-> Silence, lost |-> 1] :
           q \in {picc} \union {r.picc : r \in Replies(picc, f)}}
   ELSE {})

Exchange(x) == picc' = x.picc /\ losses' = losses + x.lost

SendBlock ==
  /\ call.step = "block"
  /\ \E x \in Exchanged(call.current) :
       /\ Exchange(x)
       /\ \/ (x.rsp = Silence => PollRunsOut) /\ Accept(x.rsp)
          \/ /\ x.rsp = Silence
             /\ call' = [call EXCEPT !.step = "rnak", !.retries = 0]
             /\ UNCHANGED <<blockNumber, last>>

(* Mutants of Recovery: the block itself is sent again; the number of the  *)
(* block expected next is asked for.                                       *)
RecoveryResends(c) == c.send
RecoveryOtherNumber(c) == RBlock("RNAK", Other(c.send.bn))

(* Recovery: R(NAK) with the number of the block that was given, until     *)
(* something comes back or the retries are used up.                        *)
Recovery(c) == RBlock("RNAK", c.send.bn)

SendRNak ==
  /\ call.step = "rnak"
  /\ \E x \in Exchanged(Recovery(call)) :
       /\ Exchange(x)
       /\ IF x.rsp # Silence THEN Accept(x.rsp)
          ELSE IF call.retries + 1 < kMaxRetries
          THEN /\ call' = [call EXCEPT !.retries = @ + 1]
               /\ UNCHANGED <<blockNumber, last>>
          ELSE Fail

LinkStep == SendBlock \/ SendRNak

Next ==
  \/ \E room \in Rooms : TCL_Transceive(room)
  \/ Refuse
  \/ Activate
  \/ LinkStep

Spec == Init /\ [][Next]_vars

(* A call goes on by itself; the tag owes nothing.                         *)
FairSpec == Spec /\ WF_vars(LinkStep)

---------------------------------------------------------------------------
(* Properties                                                              *)

TypeOK ==
  /\ blockNumber \in BlockNumbers
  /\ picc \in Picc
  /\ call \in Call
  /\ last \in Result
  /\ losses \in 0..MaxLosses

(* The APDU's I-block is never sent again: whatever is lost, the tag       *)
(* carries a command out at most once.                                     *)
CarriedOnce ==
  \A i, j \in DOMAIN picc.carried :
    picc.carried[i].cmd = picc.carried[j].cmd => i = j

WholeAnswer(data, cmd) ==
  \E i \in DOMAIN picc.carried :
    /\ picc.carried[i].cmd = cmd
    /\ data = [n \in 1..picc.carried[i].parts |-> [cmd |-> cmd, part |-> n]]

OneBlock(p, cmd) ==
  \A i \in DOMAIN p.carried : p.carried[i].cmd = cmd => p.carried[i].parts = 1

(* A call that began with the block numbers in step, and whose answer fits *)
(* a block, returns nothing or its own answer, whatever frames are lost.   *)
InStepAnswer ==
  last.inStep /\ OneBlock(picc, last.cmd) /\ last.data # <<>>
    => WholeAnswer(last.data, last.cmd)

(* Such a call leaves the numbers in step when it returns an answer: only  *)
(* a call that returns nothing, or a chained answer, can put them out.     *)
StaysInStep ==
  call = NoCall /\ last.inStep /\ OneBlock(picc, last.cmd) /\ last.data # <<>>
    => InStep

(* The parts of the inductive invariant.  An APDU has a number of its own, *)
(* and an I-block about to be sent has not reached the tag.                *)
CallNumber ==
  IF call.step = "idle" THEN call = NoCall ELSE call.cmd = last.cmd + 1

CarriedBehind ==
  \A i \in DOMAIN picc.carried :
    picc.carried[i].cmd <= IF call.step = "idle" THEN last.cmd ELSE call.cmd

Carried(p, cmd) == \E i \in DOMAIN p.carried : p.carried[i].cmd = cmd

NotYetCarried ==
  call.step = "block" /\ call.current.kind = "I"
    => call.current.cmd = call.cmd /\ ~Carried(picc, call.cmd)

(* A call begun in step is in one of two situations: the tag lacks the     *)
(* APDU and the numbers differ, or it has carried it out, its number is    *)
(* that of the APDU's block, and the answer or a request for time is the   *)
(* last it sent.                                                           *)
Lacks(p, apdu) == ~Carried(p, apdu.cmd) /\ p.bn # apdu.bn

OwnBlock(apdu) ==
  [kind |-> "I", bn |-> apdu.bn, part |-> [cmd |-> apdu.cmd, part |-> 1],
   more |-> FALSE]

Has(p, apdu) ==
  /\ Carried(p, apdu.cmd)
  /\ p.bn = apdu.bn /\ p.cmd = apdu.cmd /\ p.parts = 1
  /\ \/ p.last = OwnBlock(apdu)
     \/ p.last = WtxRequest /\ p.sent = 0

InStepCall ==
  call.step # "idle" /\ call.inStep /\ OneBlock(picc, call.cmd)
    => /\ call.stage = "first" /\ call.data = <<>>
       /\ call.send = IBlock(blockNumber, call.cmd)
       /\ \/ /\ Lacks(picc, call.send)
             /\ call.step = "block" => call.current = call.send
          \/ /\ Has(picc, call.send)
             /\ call.step = "block" => call.current = WtxResponse

IInv ==
  /\ TypeOK
  /\ CallNumber
  /\ CarriedBehind
  /\ NotYetCarried
  /\ CarriedOnce
  /\ InStepCall
  /\ InStepAnswer
  /\ StaysInStep

(* Every call returns, however the tag asks for time, chains or is silent. *)
CallsReturn == call # NoCall ~> call = NoCall

(* ntag424_reader.h: transceive sends an APDU and receives its response,   *)
(* "Returns response length, 0 on error".  The comment on the recovery in  *)
(* TCL_Transceive says R(NAK) requests retransmission of the response.     *)
OwnAnswer == \A i \in DOMAIN last.data : last.data[i].cmd = last.cmd

(* The same contract for answers of several blocks and no frame lost.      *)
WholeResponse ==
  last.data # <<>> /\ losses = 0 => WholeAnswer(last.data, last.cmd)

(* With the tag activated again after every call that returned nothing,    *)
(* the block protocol keeps the contract of transceive.                    *)
Contract == INSTANCE TransceiveContract WITH
  carried <- picc.carried,
  cmd     <- last.cmd,
  data    <- last.data

KeepsContract == Contract!Spec
===========================================================================
