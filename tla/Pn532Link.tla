------------------------------ MODULE Pn532Link -----------------------------
(***************************************************************************)
(* The host side of the PN532 (Adafruit_PN532_NTAG424.cpp): every function *)
(* writes a command, waits, reads the ACK frame, waits again and reads its *)
(* response into the buffer all functions share.  The chip and the link    *)
(* are external.                                                           *)
(*                                                                         *)
(* On I2C and SPI (bus = "frames") a read returns one frame of the chip,   *)
(* and a new command makes the chip drop what it still had to say.  On the *)
(* UART the answers are a stream of bytes that nobody                      *)
(* flushes: what one call leaves, the next one reads.                      *)
(***************************************************************************)
EXTENDS Pn532Commands

CONSTANTS
  Calls,    (* the functions the application calls, for each kind of bus   *)
  InTime,   (* what the chip does, if at all, before a wait gives up, for  *)
            (* each kind of bus: it acknowledges a "command", it answers   *)
            (* what it "acked"                                             *)
  MaxRx     (* bound: bytes in the receive buffer                          *)

Buses == {"frames", "uart"}

ASSUME LinkAssumption ==
  /\ Calls \in [Buses -> SUBSET DOMAIN Commands]
  /\ InTime \in [Buses -> SUBSET {"command", "acked"}]
  /\ MaxRx \in Nat

VARIABLES
  bus,     (* the kind of bus the driver was constructed for               *)
  pc,      (* where the host is: "idle", "waitAck" or "waitResponse"       *)
  call,    (* the function in progress, or the last one                    *)
  rx,      (* what the chip has sent and the host has not read             *)
  chip,    (* the chip: "idle", "command" received, "acked"                *)
  did,     (* history: what the chip answered to the command               *)
  packet,  (* the first bytes of pn532_packetbuffer                        *)
  listed,  (* _inListedTag                                                 *)
  result   (* history: the outcome of the last call                        *)

vars == <<bus, pc, call, rx, chip, did, packet, listed, result>>

Stream == bus = "uart"

View == 9   (* header, code and the first byte of the payload              *)

Writers   == {"mifareclassic_WriteDataBlock", "mifareultralight_WritePage",
              "ntag2xx_WritePage"}
Emulators == {"AsTarget", "setDataTarget"}

(* What the proofs use of the table: a response fills the view of the      *)
(* buffer, a function compares bytes that it reads and that are in view,   *)
(* and a function that looks at the answer accepts the answers that report *)
(* success and no other.                                                   *)
Answers(f) == {Commands[f].good} \cup Commands[f].bad
Reader(f)  == IF f = "startPassiveTargetIDDetection" THEN ReadPassiveTargetID ELSE Commands[f]
ASSUME CommandsAssumption ==
  \A f \in DOMAIN Commands:
    LET r == Reader(f)
        Response(p) == Frame(Commands[f].code, p)
    IN /\ Commands[f].sent \in Seq(Byte)
       /\ \A p \in Answers(f): Response(p) \in Seq(Byte) /\ Len(Response(p)) >= View
       /\ r.reads \in Nat
       /\ \A n \in r.needs: n[1] \in 0..(View - 1) /\ n[1] < r.reads
       /\ r.checksLen \/ r.ownBuffer => r.reads >= View
       /\ f \notin Writers \cup Emulators =>
            /\ Accepts(r, Response(Commands[f].good))
            /\ \A p \in Commands[f].bad: ~Accepts(r, Response(p))

(* A byte and the command it answers: the one in progress, or not.         *)
Cells(bytes, of) == [i \in DOMAIN bytes |-> [v |-> bytes[i], of |-> of]]
Bytes(cells)      == [i \in DOMAIN cells |-> cells[i].v]
Aged(cells)       == Cells(Bytes(cells), "other")
AllOwn(cells)     == \A i \in DOMAIN cells: cells[i].of = "this"
(* Mutant: a buffer grows with what is copied into it.                     *)
OverUncut(new, old) ==
  [i \in DOMAIN old \cup DOMAIN new |-> IF i \in DOMAIN new THEN new[i] ELSE old[i]]
(* new over the beginning of old, as far as old goes                       *)
Over(new, old) == [i \in DOMAIN old |-> IF i \in DOMAIN new THEN new[i] ELSE old[i]]

Cell   == [v: Byte, of: {"this", "other"}]
Reasons == {"none", "timeout", "nack", "unread", "read"}
NoResult == [ok |-> FALSE, why |-> "none", own |-> TRUE]

Init ==
  /\ pc = "idle" /\ chip = "idle" /\ did = "none"
  /\ bus \in Buses
  /\ call \in Calls[bus]
  /\ rx = <<>>
  /\ packet = [i \in 1..View |-> [v |-> 0, of |-> "other"]]
  /\ listed = 0
  /\ result = NoResult

---------------------------------------------------------------------------
(* The chip.  It answers a command with an ACK frame and then, unless it   *)
(* has nothing to say (no card, no initiator), with a response.            *)
Deliver(bytes) ==
  /\ Stream \/ rx = <<>>
  /\ Len(rx) + Len(bytes) <= MaxRx
  /\ rx' = rx \o Cells(bytes, "this")

SendAck ==
  /\ chip = "command"
  /\ Deliver(Ack)
  /\ chip' = "acked"
  /\ UNCHANGED <<pc, call, did, packet, listed, result>>

Respond(outcome, payload) ==
  /\ chip = "acked"
  /\ Deliver(Frame(Commands[call].code, payload))
  /\ chip' = "idle"
  /\ did' = outcome
  /\ UNCHANGED <<pc, call, packet, listed, result>>

RespondGood == Respond("good", Commands[call].good)
RespondBad  == \E p \in Commands[call].bad: Respond("bad", p)

SaysNothing ==
  /\ chip # "idle"
  /\ chip' = "idle"
  /\ UNCHANGED <<pc, call, rx, did, packet, listed, result>>

---------------------------------------------------------------------------
(* The host.                                                               *)
Return(ok, why, own) ==
  /\ pc' = "idle"
  /\ result' = [ok |-> ok, why |-> why, own |-> own]

(* writecommand                                                            *)
Write(f) ==
  /\ pc = "idle"
  /\ pc' = "waitAck"
  /\ call' = f
  /\ rx' = IF Stream THEN Aged(rx) ELSE <<>>
  /\ chip' = "command" /\ did' = "none"
  /\ packet' = Over(Cells(Commands[f].sent, "other"), Aged(packet))
  /\ result' = NoResult
  /\ UNCHANGED listed

(* begin: what the UART had received is dropped, the chip is reset, and    *)
(* wakeup calls SAMConfig, whose result begin does not look at.            *)
Begin ==
  /\ pc = "idle"
  /\ pc' = "waitAck"
  /\ call' = "SAMConfig"
  /\ rx' = <<>>
  /\ chip' = "command" /\ did' = "none"
  /\ packet' = Over(Cells(SAMConfig.sent, "other"), Aged(packet))
  /\ result' = NoResult
  /\ UNCHANGED listed

(* A read returns a frame, or on the UART up to n bytes: it waits for the  *)
(* ones the chip is about to send.                                         *)
Shortest(s, n) == SubSeq(s, 1, IF Len(s) < n THEN Len(s) ELSE n)
Taken(n) == Shortest(rx, n)
(* Mutant: reads without waiting for the chip to be ready.                 *)
ConsumeUnready(n) ==
  /\ Stream => Len(rx) >= n \/ chip \notin InTime[bus]
  /\ rx' = IF Stream THEN SubSeq(rx, n + 1, Len(rx)) ELSE <<>>
Consume(n) ==
  /\ rx # <<>>
  /\ Stream => Len(rx) >= n \/ chip \notin InTime[bus]
  /\ rx' = IF Stream THEN SubSeq(rx, n + 1, Len(rx)) ELSE <<>>

(* waitready, readack: a short read leaves part of ackbuff uninitialised.  *)
ReadAck ==
  /\ pc = "waitAck"
  /\ Consume(6)
  /\ \E complete \in BOOLEAN:
       LET t == Bytes(Taken(6))
           understood == complete /\ IsPrefix(t, Ack)
       IN /\ Len(t) = 6 => complete
          /\ IF understood
             THEN pc' = "waitResponse" /\ UNCHANGED result
             ELSE Return(FALSE, "nack", AllOwn(Taken(6)))
  /\ UNCHANGED <<call, chip, did, packet, listed>>

(* Mutant: only the wait for the ACK gives up.                             *)
TimeOutOnce ==
  /\ pc = "waitAck"
  /\ rx = <<>>
  /\ ~Commands[call].forever
  /\ chip \notin InTime[bus]
  /\ Return(FALSE, "timeout", TRUE)
  /\ UNCHANGED <<call, rx, chip, did, packet, listed>>

(* A wait gives up.                                                        *)
TimeOut ==
  /\ pc \in {"waitAck", "waitResponse"}
  /\ rx = <<>>
  /\ ~Commands[call].forever
  /\ chip \notin InTime[bus]
  /\ Return(FALSE, "timeout", TRUE)
  /\ UNCHANGED <<call, rx, chip, did, packet, listed>>

(* The functions that leave the response unread return sendCommandCheckAck.*)
LeaveUnread ==
  /\ pc = "waitResponse"
  /\ rx # <<>>
  /\ Commands[call].reads = 0
  /\ Return(TRUE, "unread", TRUE)
  /\ UNCHANGED <<call, rx, chip, did, packet, listed>>

(* Mutant: _inListedTag is set before the answer is checked.               *)
ReadByUnchecked(c) ==
  LET buffer == Over(Taken(c.reads), packet)
      ok == Accepts(c, Bytes(buffer))
  IN /\ Consume(c.reads)
     /\ packet' = IF c.ownBuffer THEN packet ELSE buffer
     /\ Return(ok, "read", AllOwn(Shortest(buffer, c.reads)))
     /\ listed' = IF c = InListPassiveTarget THEN At(Bytes(buffer), 8) ELSE listed

(* Mutant: the answer is judged before it is read.                         *)
ReadByBefore(c) ==
  LET buffer == Over(Taken(c.reads), packet)
      ok == Accepts(c, Bytes(packet))
  IN /\ Consume(c.reads)
     /\ packet' = IF c.ownBuffer THEN packet ELSE buffer
     /\ Return(ok, "read", AllOwn(Shortest(buffer, c.reads)))
     /\ listed' = IF ok /\ c = InListPassiveTarget THEN At(Bytes(buffer), 8) ELSE listed

(* Read a response and judge it by c; _inListedTag is its Tg.              *)
ReadBy(c) ==
  LET buffer == Over(Taken(c.reads), packet)
      ok == Accepts(c, Bytes(buffer))
  IN /\ Consume(c.reads)
     /\ packet' = IF c.ownBuffer THEN packet ELSE buffer
     /\ Return(ok, "read", AllOwn(Shortest(buffer, c.reads)))
     /\ listed' = IF ok /\ c = InListPassiveTarget THEN At(Bytes(buffer), 8) ELSE listed

ReadResponse ==
  /\ pc = "waitResponse"
  /\ Commands[call].reads > 0
  /\ ReadBy(Commands[call])
  /\ UNCHANGED <<call, chip, did>>

(* readDetectedPassiveTargetID, called when the IRQ line says that the     *)
(* detection startPassiveTargetIDDetection began has an answer.            *)
ReadDetectedPassiveTargetID ==
  /\ pc = "idle" /\ call = "startPassiveTargetIDDetection"
  /\ chip = "idle" /\ result.why # "read"
  /\ ReadBy(ReadPassiveTargetID)
  /\ UNCHANGED <<call, chip, did>>

---------------------------------------------------------------------------
Chip == SendAck \/ RespondGood \/ RespondBad \/ SaysNothing
Host == ReadAck \/ TimeOut \/ LeaveUnread \/ ReadResponse
Step ==
  \/ "SAMConfig" \in Calls[bus] /\ Begin
  \/ \E f \in Calls[bus]: Write(f)
  \/ Host
  \/ ReadDetectedPassiveTargetID
  \/ Chip
Next == Step /\ UNCHANGED bus

Spec == Init /\ [][Next]_vars
(* The host's loops run; the chip answers or gives the command up.         *)
FairSpec == Spec /\ WF_vars(Host /\ UNCHANGED bus) /\ WF_vars(Chip /\ UNCHANGED bus)

---------------------------------------------------------------------------
TypeOK ==
  /\ pc \in {"idle", "waitAck", "waitResponse"}
  /\ chip \in {"idle", "command", "acked"}
  /\ did \in {"none", "good", "bad"}
  /\ bus \in Buses
  /\ call \in Calls[bus]
  /\ rx \in Seq(Cell) /\ Len(rx) <= MaxRx
  /\ packet \in [1..View -> Cell]
  /\ listed \in Byte
  /\ result \in [ok: BOOLEAN, why: Reasons, own: BOOLEAN]

(* What a function takes for the response to its command is the response   *)
(* to its command: no byte of it is the command's own, left in the shared  *)
(* buffer, or part of an earlier answer.                                   *)
OwnResponse == result.why = "read" => result.own

(* sendCommandCheckAck never takes the answer to another command, or part  *)
(* of one, for a missing acknowledgement.                                  *)
AckUnderstood == result.why # "nack"

(* A function that looks at the answer returns success exactly when the    *)
(* chip reported success.  The functions that write to a tag and the ones  *)
(* that emulate one are left to ReportsOutcome.                            *)
Truthful ==
  result.why = "read" /\ call \notin Writers \cup Emulators
    => (result.ok <=> did = "good")

(* Every function returns 1 exactly when the chip reported success.        *)
ReportsOutcome == result.why = "read" => (result.ok <=> did = "good")

(* _inListedTag, which is_tag_present and inDataExchange rely on, changes  *)
(* only when inListPassiveTarget returns true on the chip's report of a    *)
(* target.                                                                 *)
ListedOnReport ==
  [][listed' # listed =>
       call = "inListPassiveTarget" /\ did = "good" /\ result'.ok /\ result'.own]_vars

(* On the UART, functions that read all of their responses leave nothing   *)
(* for the next call, whether they succeed, fail or time out.              *)
NothingLeft == Stream /\ pc = "idle" /\ result.why # "none" => rx = <<>>

(* Every function that does not wait for ever returns, whether or not the  *)
(* chip answers.                                                           *)
CallsReturn == (pc # "idle" /\ ~Commands[call].forever) ~> pc = "idle"

---------------------------------------------------------------------------
(* On I2C and SPI, what the chip can have put forward while the host waits *)
(* for the ACK frame and while it waits for the response.                  *)
FrameLink ==
  /\ bus = "frames"
  /\ "startPassiveTargetIDDetection" \in Calls["frames"] => "command" \in InTime["frames"]

AwaitingAck ==
  \/ rx = <<>> /\ chip \in {"command", "idle"}
  \/ rx = Cells(Ack, "this") /\ chip \in {"acked", "idle"}

ResponsePending ==
  \E p \in Answers(call):
    /\ rx = Cells(Frame(Commands[call].code, p), "this")
    /\ \/ p = Commands[call].good /\ did = "good"
       \/ p \in Commands[call].bad /\ did = "bad"

AwaitingResponse ==
  /\ chip \in {"acked", "idle"}
  /\ chip = "acked" => rx = <<>>
  /\ rx # <<>> => ResponsePending

(* What holds on I2C and SPI: the chip and the host agree on which half of *)
(* the exchange they are in, what is pending belongs to the call in        *)
(* progress, and the last result was right when it was returned.           *)
FrameInv ==
  /\ pc \in {"idle", "waitAck", "waitResponse"}
  /\ call \in Calls["frames"]
  /\ packet \in [1..View -> Cell]
  /\ pc = "waitAck" => AwaitingAck
  /\ pc = "waitResponse" => AwaitingResponse
  /\ pc = "idle" /\ call = "startPassiveTargetIDDetection" => AwaitingResponse
  /\ pc # "idle" => result.why = "none"
  /\ result.why = "read" => chip = "idle"
  /\ OwnResponse
  /\ AckUnderstood
  /\ Truthful

(* On the UART, that every function reads the whole of each answer to its  *)
(* command and waits longer than the chip takes.                           *)
StreamLink ==
  /\ bus = "uart"
  /\ InTime["uart"] = {"command", "acked"}
  /\ \A f \in Calls["uart"]: \A p \in Answers(f):
       Len(Frame(Commands[f].code, p)) <= Commands[f].reads

(* The chip may have answered before the host has read the ACK.            *)
AnswerBehindAck ==
  /\ chip = "idle"
  /\ \E p \in Answers(call):
       /\ rx = Cells(Ack, "this") \o Cells(Frame(Commands[call].code, p), "this")
       /\ \/ p = Commands[call].good /\ did = "good"
          \/ p \in Commands[call].bad /\ did = "bad"

(* What holds on such a UART: between calls the chip has nothing to say    *)
(* and nothing is left to read.                                            *)
StreamInv ==
  /\ pc \in {"idle", "waitAck", "waitResponse"}
  /\ call \in Calls["uart"]
  /\ packet \in [1..View -> Cell]
  /\ pc = "waitAck" => AwaitingAck \/ AnswerBehindAck
  /\ pc = "waitResponse" => AwaitingResponse
  /\ pc = "idle" => rx = <<>> /\ chip = "idle"
  /\ pc # "idle" => result.why = "none"
  /\ OwnResponse
  /\ AckUnderstood
  /\ Truthful

(* The inductive invariant.                                                *)
IInv == (FrameLink => FrameInv) /\ (StreamLink => StreamInv)
===========================================================================
