----------------------------- MODULE IsoDepPicc -----------------------------
(***************************************************************************)
(* The block protocol of the tag (ISO/IEC 14443-4, PICC side), external to *)
(* the repository: what TCL_Transceive exchanges frames with.  The tag     *)
(* toggles its block number when an I-block arrives, whatever the block's  *)
(* own number, and when it goes on with a chained answer; an R-block with  *)
(* the tag's current number asks for the last block again, an R(NAK) with  *)
(* the other number is answered with R(ACK).  Anything else is ignored.    *)
(*                                                                         *)
(* An APDU is its number, an answer a number of parts, one part to a       *)
(* block.                                                                  *)
(***************************************************************************)
EXTENDS Naturals, Sequences

CONSTANT MaxBlocks   \* bound: blocks of the longest answer

ASSUME MaxBlocksAssumption == MaxBlocks \in Nat \ {0}

BlockNumbers == {0, 1}
Other(b) == 1 - b

(* From the reader; cmd is the APDU an I-block carries.                    *)
Frame == [kind: {"I", "RACK", "RNAK", "WTX"}, bn: BlockNumbers, cmd: Nat]

(* From the tag; no block at all is Silence.                               *)
Part  == [cmd: Nat, part: Nat]
Block == [kind: {"I", "RACK", "WTX", "none"}, bn: BlockNumbers, part: Part,
          more: BOOLEAN]

NoPart   == [cmd |-> 0, part |-> 0]
Silence  == [kind |-> "none", bn |-> 0, part |-> NoPart, more |-> FALSE]
RAck(b)  == [kind |-> "RACK", bn |-> b, part |-> NoPart, more |-> FALSE]
WtxRequest == [kind |-> "WTX", bn |-> 0, part |-> NoPart, more |-> FALSE]

(* The tag: its block number and last block, the command it answers, the   *)
(* parts sent of how many, and, as history, the commands carried out.      *)
Picc == [bn: BlockNumbers, last: Block, cmd: Nat, sent: Nat, parts: Nat,
         carried: Seq([cmd: Nat, parts: Nat])]

(* After RATS the tag's block number is 1.                                 *)
FreshPicc(carried) ==
  [bn |-> 1, last |-> Silence, cmd |-> 0, sent |-> 0, parts |-> 0,
   carried |-> carried]

---------------------------------------------------------------------------
Reply(p, b)  == [picc |-> [p EXCEPT !.last = b], rsp |-> b]
Again(p)     == [picc |-> p, rsp |-> p.last]
Ignored(p)   == [picc |-> p, rsp |-> Silence]

NextPart(p) ==
  Reply([p EXCEPT !.sent = @ + 1],
        [kind |-> "I", bn |-> p.bn, part |-> [cmd |-> p.cmd, part |-> p.sent + 1],
         more |-> p.sent + 1 < p.parts])

(* A command is carried out when its I-block arrives; its answer may come  *)
(* after requests for more time.                                           *)
CarryOut(p, cmd, parts) ==
  [p EXCEPT !.bn = Other(@), !.cmd = cmd, !.sent = 0, !.parts = parts,
            !.carried = Append(@, [cmd |-> cmd, parts |-> parts])]

AnswerOrWait(p) == {NextPart(p), Reply(p, WtxRequest)}

Replies(p, f) ==
  CASE f.kind = "I" ->
         UNION {AnswerOrWait(CarryOut(p, f.cmd, n)) : n \in 1..MaxBlocks}
    [] f.kind = "WTX" ->
         IF p.last.kind = "WTX" THEN AnswerOrWait(p) ELSE {Ignored(p)}
    [] f.kind = "RACK" ->
         IF f.bn = p.bn THEN {Again(p)}
         ELSE IF 0 < p.sent /\ p.sent < p.parts
         THEN {NextPart([p EXCEPT !.bn = Other(@)])}
         ELSE {Ignored(p)}
    [] f.kind = "RNAK" ->
         IF f.bn = p.bn THEN {Again(p)} ELSE {Reply(p, RAck(p.bn))}
===========================================================================
