------------------------------- MODULE Mfrc522 ------------------------------
(***************************************************************************)
(* Tag activation with the MFRC522: MFRC522_I2C finds, selects and halts   *)
(* tags, MFRC522_I2C_Extended adds RATS, PPS and DESELECT, and             *)
(* MFRC522_NTAG424::readPassiveTargetID puts a call together of them.      *)
(* One action is one exchange over the air with what the driver does until *)
(* the next; an exchange may be lost either way, disturbed, or end by the  *)
(* poll loop running out.                                                  *)
(***************************************************************************)
EXTENDS Picc14443

CONSTANTS
  Noise,     (* bound: where a disturbance looks like a collision          *)
  Together   (* bound: the tags that are in the field at once              *)

CollPosNotValid == 0
ASSUME NoiseAssumption == Noise \subseteq 0..32 /\ Together \subseteq SUBSET Tags

VARIABLES
  picc,     (* the tags                                                    *)
  antenna,  (* whether the field is on                                     *)
  pc,       (* the exchange that is next                                   *)
  call,     (* the call in progress, or the last one                       *)
  sel,      (* PICC_Select: cascade level, known bits, buffer[2..5]        *)
  base,     (* _tag_selected and uid                                       *)
  tag,      (* of tag: the UID, whether ats.size > 0, isoDepState          *)
  crc,      (* MFRC522_CRC_ENABLE in TxModeReg and RxModeReg               *)
  result,   (* history: what the last call returned, and who answered it   *)
  sure,     (* history: no tag was left in its block protocol              *)
  target    (* history: the tag that an undisturbed call has to find       *)

drivers == <<call, sel, base, tag, crc, result>>
history == <<sure, target>>
vars == <<picc, antenna, pc, drivers, history>>

ApiCalls == {"begin", "readPassiveTargetID", "PICC_IsNewCardPresent",
             "PICC_ReadCardSerial", "PICC_HaltA", "TCL_Deselect", "transceive"}
Locations == {"idle", "deselect", "halt", "reqa", "wupa", "select", "rats", "pps"}

NoBytes == [i \in 1..4 |-> 0]
NoUid  == [size |-> 0, byte |-> [i \in 1..10 |-> 0]]
NoTag  == [uid |-> NoUid, ats |-> FALSE, iso |-> "IDLE"]
NoBase == [selected |-> FALSE, uid |-> NoUid]
NoSel  == [level |-> 1, known |-> 0, buf |-> NoBytes]

getUID(uid) == SubSeq(uid.byte, 1, uid.size)

Init ==
  /\ picc = [t \in Tags |-> In("away")]
  /\ antenna = FALSE /\ crc = FALSE
  /\ pc = "idle" /\ call = "begin"
  /\ sel = NoSel /\ base = NoBase /\ tag = NoTag
  /\ result = [ok |-> FALSE, uid |-> <<>>, by |-> {}]
  /\ sure = TRUE /\ target = {}

---------------------------------------------------------------------------
(* Exchanges.  CRC_A is computed in software around activation, and by the *)
(* chip once the CRC is enabled; the block layer copes with either.        *)
Right(kind) == \/ kind = "APDU"
               \/ kind = "DESELECT" /\ crc
               \/ kind \notin {"APDU", "DESELECT"} /\ ~crc

ShortFrame(kind) ==
  [kind |-> kind, level |-> sel.level, known |-> sel.known, bytes |-> sel.buf,
   right |-> Right(kind)]

Answerers(f) == {t \in Tags: Answers(picc[t], t, f)}

(* The bits, counted from 1, where the answers to f differ.                *)
Differ(f) ==
  {i + 1: i \in {j \in Bits: \E t, u \in Answerers(f):
                    Bit(Uid[t][f.level], j) # Bit(Uid[u][f.level], j)}}

(* How an exchange ends for the driver: whether the tags heard it, the     *)
(* status of PCD_CommunicateWithPICC, and the position of a collision.     *)
Expected(f) ==
  IF Answerers(f) = {} THEN [heard |-> TRUE, status |-> "timeout", at |-> 0]
  ELSE IF f.kind = "AC" /\ Differ(f) # {}
       THEN [heard |-> TRUE, status |-> "collision",
             at |-> CHOOSE p \in Differ(f): \A q \in Differ(f): p <= q]
  ELSE IF f.kind = "APDU" /\ Cardinality(Answerers(f)) > 1
       THEN [heard |-> TRUE, status |-> "collision", at |-> CollPosNotValid]
  ELSE [heard |-> TRUE, status |-> "ok", at |-> 0]

(* The poll loop ends with an answer, by the timer, or by running out:     *)
(* what comes with the last poll is taken for a timeout, and when nothing  *)
(* came at all the driver goes on with an empty FIFO.                      *)
Polls == {"last", "timer", "never"}
Polled(poll) == IF poll = "never" THEN "empty" ELSE "timeout"

Receptions(f) ==
  {Expected(f)}
  \cup [heard: BOOLEAN, status: {Polled(p): p \in Polls}, at: {0}]
  \cup [heard: BOOLEAN, status: {"collision"},
        at: IF f.kind = "AC" THEN Noise ELSE {CollPosNotValid}]

Exchange(f, r) ==
  /\ picc' = IF r.heard THEN [t \in Tags |-> Hears(picc[t], t, f)] ELSE picc
  /\ target' = IF r = Expected(f) THEN target ELSE {}
  /\ UNCHANGED antenna

---------------------------------------------------------------------------
Return(ok, uid, by) ==
  /\ pc' = "idle"
  /\ result' = [ok |-> ok, uid |-> uid, by |-> by]
Fail == Return(FALSE, <<>>, {})

(* MFRC522_I2C_Extended::clearTag; the one of MFRC522_I2C leaves tag.      *)
clearTag == base' = NoBase /\ tag' = NoTag

Linked == {t \in Tags: picc[t].state = "protocol"}

(* What readPassiveTargetID can bring back.  A tag whose block protocol    *)
(* the driver has lost hears nothing but a DESELECT nobody sends.          *)
InField == {t \in Tags: picc[t].state # "away"}
Reachable(t) == antenna /\ (t \in Linked => base.selected /\ tag.ats /\ crc)
Findable == {t \in Tags: InField = {t} /\ Reachable(t)}

Starts(c) ==
  /\ pc = "idle"
  /\ call' = c
  /\ result' = [ok |-> FALSE, uid |-> <<>>, by |-> {}]
  /\ target' = IF c = "readPassiveTargetID" THEN Findable ELSE {}
  /\ UNCHANGED <<picc, antenna, base, tag>>

(* Mutant: the block protocol of the previous tag is not ended.            *)
LetGoHalted == "halt"
(* How the tag selected before is sent away.                               *)
LetGo == IF tag.ats THEN "deselect" ELSE "halt"

(* PICC_IsNewCardPresent first switches the CRC off.                       *)
CallReadPassiveTargetID ==
  /\ Starts("readPassiveTargetID")
  /\ pc' = IF ~base.selected THEN "reqa" ELSE LetGo
  /\ crc' = (base.selected /\ crc)
  /\ UNCHANGED <<sel, sure>>

CallIsNewCardPresent ==
  /\ Starts("PICC_IsNewCardPresent")
  /\ pc' = "reqa"
  /\ crc' = FALSE
  /\ sure' = (sure /\ Linked = {})
  /\ UNCHANGED sel

(* The application calls it for a tag that PICC_IsNewCardPresent found.    *)
CallReadCardSerial ==
  /\ call = "PICC_IsNewCardPresent" /\ result.ok
  /\ Starts("PICC_ReadCardSerial")
  /\ pc' = "select"
  /\ UNCHANGED <<sel, crc, sure>>

CallHaltA ==
  /\ Starts("PICC_HaltA")
  /\ pc' = "halt"
  /\ sure' = (sure /\ Linked = {})
  /\ UNCHANGED <<sel, crc>>

CallDeselect ==
  /\ Starts("TCL_Deselect")
  /\ pc' = "deselect"
  /\ UNCHANGED <<sel, crc, sure>>

(* begin: a soft reset switches the field and the CRC off; the antenna is  *)
(* switched on and the tag cleared when all registers could be written,    *)
(* at the first attempt or at the second, which resets nothing.            *)
Powered(reset, configured) == configured \/ (antenna /\ ~reset)
Begin(reset, configured) ==
  /\ pc = "idle"
  /\ call' = "begin"
  /\ antenna' = Powered(reset, configured)
  /\ picc' = [t \in Tags |->
       IF picc[t].state = "away" THEN picc[t]
       ELSE IF ~Powered(reset, configured) THEN In("off")
       ELSE IF reset \/ ~antenna THEN In("idle") ELSE picc[t]]
  /\ crc' = (crc /\ ~reset)
  /\ base' = IF configured THEN NoBase ELSE base
  /\ sure' = (reset \/ (sure /\ Linked = {}))
  /\ \E ok \in {FALSE, configured}: Return(ok, <<>>, {})
  /\ target' = {}
  /\ UNCHANGED <<sel, tag>>

---------------------------------------------------------------------------
(* Mutant: clearTag leaves the block protocol's state.                     *)
DeselectedTagKept == [NoTag EXCEPT !.iso = "DESELECTED"]
(* DESELECTED, until clearTag                                              *)
DeselectedTag == NoTag

(* TCL_Deselect: the block carries no CRC of its own.                      *)
Deselect(r) ==
  LET ok == r.status \in {"ok", "empty"}
  IN /\ Exchange(ShortFrame("DESELECT"), r)
     /\ IF ok THEN base' = NoBase /\ tag' = DeselectedTag ELSE UNCHANGED <<base, tag>>
     /\ sure' = (sure /\ Linked' = {})
     /\ IF call = "TCL_Deselect" THEN Return(ok, <<>>, {})
        ELSE pc' = "halt" /\ UNCHANGED result
     /\ UNCHANGED <<call, sel, crc>>

(* PICC_HaltA; readPassiveTargetID goes on whatever came of it.            *)
Halt(r) ==
  /\ Exchange(ShortFrame("HLTA"), r)
  /\ IF call = "PICC_HaltA"
     THEN /\ base' = NoBase
          /\ Return(r.status = "timeout", <<>>, {})
          /\ UNCHANGED <<tag, crc>>
     ELSE clearTag /\ crc' = FALSE /\ pc' = "reqa" /\ UNCHANGED result
  /\ UNCHANGED <<call, sel, sure>>

(* Its CRC could not be computed.                                          *)
HaltNotSent ==
  /\ pc = "halt" /\ call = "PICC_HaltA"
  /\ Fail
  /\ UNCHANGED <<picc, antenna, call, sel, base, tag, crc, history>>

(* Mutant: no second attempt.                                              *)
TriesAgainNever(kind) == FALSE
(* REQA first, then WUPA                                                   *)
TriesAgain(kind) == kind = "REQA"

(* PICC_REQA_or_WUPA                                                       *)
Found(r) == r.status \in {"ok", "collision"}
Request(kind, r) ==
  /\ Exchange(ShortFrame(kind), r)
  /\ IF Found(r) THEN clearTag ELSE UNCHANGED <<base, tag>>
  /\ IF Found(r) /\ call = "readPassiveTargetID"
     THEN pc' = "select" /\ UNCHANGED result
     ELSE IF ~Found(r) /\ TriesAgain(kind)
          THEN pc' = "wupa" /\ UNCHANGED result
          ELSE Return(Found(r), <<>>, {})
  /\ UNCHANGED <<call, sel, crc, sure>>

---------------------------------------------------------------------------
(* PICC_Select.                                                            *)
(* The bits of a collided answer before bit n; the others read as 0.       *)
Before(bytes, n) ==
  [i \in 1..4 |-> IF i <= n \div 8 THEN bytes[i]
                 ELSE IF i = n \div 8 + 1 THEN bytes[i] % Weight(n % 8) ELSE 0]

(* The answer is read into the byte that holds the last known bits; the    *)
(* chip aligns it, but the byte is zeroed first.                           *)
ReadIn(buf, known, bytes) ==
  [i \in 1..4 |-> IF i <= known \div 8 THEN buf[i]
                 ELSE IF i = known \div 8 + 1
                      THEN bytes[i] - (bytes[i] % Weight(known % 8)) ELSE bytes[i]]

(* After a collision at position p the tags with a 1 are asked.  The byte  *)
(* index counts bytes up to p - 1 at a multiple of 8 and elsewhere up to   *)
(* p; buffer[1] and buffer[6] are written again before they are sent.      *)
Mark(buf, p) ==
  LET bit == (p - 1) % 8
      k   == p \div 8 + (IF bit # 0 THEN 1 ELSE 0)
  IN IF k \in 1..4 /\ Bit(buf, 8 * (k - 1) + bit) = 0
     THEN [buf EXCEPT ![k] = @ + Weight(bit)] ELSE buf

AnswerBits(f) ==
  IF Answerers(f) = {} THEN NoBytes ELSE Uid[CHOOSE t \in Answerers(f): TRUE][f.level]

SelectFails(newTag) ==
  /\ tag' = newTag
  /\ base' = [base EXCEPT !.uid = newTag.uid]
  /\ sel' = NoSel
  /\ Fail

Asks    == pc = "select" /\ sel.known < 32
Selects == pc = "select" /\ sel.known >= 32

(* Mutant: any valid position is gone on with.                             *)
ResolvesAny(r) == r.at # CollPosNotValid
Resolves(r) == r.at > sel.known
Anticollision(r) ==
  LET f == ShortFrame("AC")
  IN /\ Exchange(f, r)
     /\ \/ /\ r.status = "ok"
           /\ sel' = [sel EXCEPT !.known = 32,
                                 !.buf = ReadIn(@, sel.known, AnswerBits(f))]
           /\ UNCHANGED <<pc, base, tag, result>>
        \/ /\ r.status = "empty"
           /\ sel' = [sel EXCEPT !.known = 32]
           /\ UNCHANGED <<pc, base, tag, result>>
        \/ /\ r.status = "collision" /\ Resolves(r)
           /\ sel' = [sel EXCEPT !.known = r.at,
                        !.buf = Mark(ReadIn(@, sel.known, Before(AnswerBits(f), r.at - 1)), r.at)]
           /\ UNCHANGED <<pc, base, tag, result>>
        \/ /\ r.status = "timeout" \/ (r.status = "collision" /\ ~Resolves(r))
           /\ SelectFails(tag)
     /\ UNCHANGED <<call, crc, sure>>

Copied(uid) ==
  LET at  == 3 * (sel.level - 1)
      cut == IF sel.buf[1] = CT THEN 1 ELSE 0
  IN [uid EXCEPT !.byte = [i \in 1..10 |->
        IF i - at \in 1..(4 - cut) THEN sel.buf[i - at + cut] ELSE uid.byte[i]]]

(* Mutant: whatever is in the buffer is the SAK.                           *)
SakValidUnchecked(r) == r.status \in {"ok", "empty"}
(* Its CRC tells the SAK from what the buffer held before.                 *)
SakValid(r) == r.status = "ok"

(* MFRC522_I2C_Extended::PICC_Select goes on with RATS if the SAK says so. *)
Selected(whole, iso4) ==
  /\ tag' = [tag EXCEPT !.uid = whole, !.iso = "SELECTED"]
  /\ base' = [selected |-> TRUE, uid |-> whole]
  /\ IF iso4 THEN pc' = "rats" /\ UNCHANGED result
     ELSE Return(TRUE, getUID(whole), {})

SelectLevel(r) ==
  LET f    == ShortFrame("SEL")
      told == Copied(tag.uid)
      more == \E t \in Answerers(f): sel.level < Len(Uid[t])
  IN /\ Exchange(f, r)
     /\ \/ /\ SakValid(r) /\ more /\ sel.level < MaxLevel
           /\ sel' = [NoSel EXCEPT !.level = sel.level + 1]
           /\ tag' = [tag EXCEPT !.uid = told]
           /\ UNCHANGED <<pc, base, result>>
        \/ /\ SakValid(r) /\ ~more
           /\ sel' = NoSel
           /\ Selected([told EXCEPT !.size = 3 * sel.level + 1], Answerers(f) \subseteq Iso4)
        \/ /\ ~SakValid(r)
           /\ SelectFails(IF r.status = "empty" THEN [tag EXCEPT !.uid = told] ELSE tag)
     /\ UNCHANGED <<call, crc, sure>>

RequestATS(r) ==
  /\ Exchange(ShortFrame("RATS"), r)
  /\ IF r.status = "ok"
     THEN tag' = [tag EXCEPT !.ats = TRUE] /\ pc' = "pps" /\ UNCHANGED <<result, sure>>
     ELSE Fail /\ sure' = (sure /\ Linked' = {}) /\ UNCHANGED tag
  /\ UNCHANGED <<call, sel, base, crc>>

(* Mutant: only when PPS succeeded.                                        *)
EnablesCrcAfterPPS(r) == r.status = "ok"
(* by PICC_PPS, or after it failed by PICC_Select                          *)
EnablesCrc(r) == TRUE
PPS(r) ==
  /\ Exchange(ShortFrame("PPS"), r)
  /\ crc' = (crc \/ EnablesCrc(r))
  /\ Return(TRUE, getUID(base.uid), {})
  /\ UNCHANGED <<call, sel, base, tag, sure>>

---------------------------------------------------------------------------
(* MFRC522_NTAG424_Adapter::transceive, one exchange of TCL_Transceive.    *)
Transceive(r) ==
  LET f == ShortFrame("APDU")
  IN /\ Exchange(f, r)
     /\ call' = "transceive"
     /\ Return(r.status = "ok", <<>>, IF r.status = "ok" THEN Answerers(f) ELSE {})
     /\ UNCHANGED <<sel, base, tag, crc, sure>>

(* The tags.  One that comes when others have been called hears nothing it *)
(* answers until the next call: it may as well come after this one.        *)
Enter(t) ==
  /\ pc \notin {"select", "rats", "pps"}
  /\ picc[t].state = "away"
  /\ \E T \in Together: InField \cup {t} \subseteq T
  /\ picc' = [picc EXCEPT ![t] = In(IF antenna THEN "idle" ELSE "off")]
  /\ target' = {}
  /\ UNCHANGED <<antenna, pc, drivers, sure>>

Leave(t) ==
  /\ picc[t].state # "away"
  /\ picc' = [picc EXCEPT ![t] = In("away")]
  /\ target' = IF pc = "idle" THEN target ELSE {}
  /\ UNCHANGED <<antenna, pc, drivers, sure>>

Calls == \/ CallReadPassiveTargetID \/ CallIsNewCardPresent \/ CallReadCardSerial
         \/ CallHaltA \/ CallDeselect
         \/ \E reset, configured \in BOOLEAN: Begin(reset, configured)
         \/ /\ pc = "idle" /\ base.selected /\ tag.iso = "SELECTED"
            /\ \E r \in Receptions(ShortFrame("APDU")): Transceive(r)

Step ==
  \/ pc = "deselect" /\ \E r \in Receptions(ShortFrame("DESELECT")): Deselect(r)
  \/ pc = "halt"     /\ \E r \in Receptions(ShortFrame("HLTA")): Halt(r)
  \/ HaltNotSent
  \/ pc = "reqa"     /\ \E r \in Receptions(ShortFrame("REQA")): Request("REQA", r)
  \/ pc = "wupa"     /\ \E r \in Receptions(ShortFrame("WUPA")): Request("WUPA", r)
  \/ Asks            /\ \E r \in Receptions(ShortFrame("AC")): Anticollision(r)
  \/ Selects         /\ \E r \in Receptions(ShortFrame("SEL")): SelectLevel(r)
  \/ pc = "rats"     /\ \E r \in Receptions(ShortFrame("RATS")): RequestATS(r)
  \/ pc = "pps"      /\ \E r \in Receptions(ShortFrame("PPS")): PPS(r)

Next == Calls \/ Step \/ \E t \in Tags: Enter(t) \/ Leave(t)

(* The driver does not wait between the exchanges of a call.               *)
Spec == Init /\ [][Next]_vars /\ WF_vars(Step)

---------------------------------------------------------------------------
(* Properties.                                                             *)

UidType == [size: 0..10, byte: [1..10 -> Byte]]

(* The type of every variable.                                             *)
TypeOK ==
  /\ picc \in [Tags -> Picc]
  /\ antenna \in BOOLEAN /\ crc \in BOOLEAN
  /\ pc \in Locations /\ call \in ApiCalls
  /\ sel \in [level: 1..MaxLevel, known: 0..32, buf: Level]
  /\ base \in [selected: BOOLEAN, uid: UidType]
  /\ tag \in [uid: UidType, ats: BOOLEAN, iso: {"IDLE", "SELECTED"}]
  /\ result \in [ok: BOOLEAN, uid: Seq(Byte), by: SUBSET Tags]
  /\ sure \in BOOLEAN /\ target \subseteq Tags

(* A UID that is told is the whole UID of one tag, and that tag is the one *)
(* selected, or it has left since and none is: whatever tags answer        *)
(* together, whatever is lost, and though a poll loop that runs out lets   *)
(* PICC_Select go on with what its buffer holds.                           *)
Tells(c) == call' = c /\ pc # "idle" /\ pc' = "idle" /\ result'.ok
TellsOneTag ==
  Tells("readPassiveTargetID") \/ Tells("PICC_ReadCardSerial") =>
    \E t \in Tags: /\ result'.uid = FullUid(t)
                   /\ \/ picc'[t].state \in {"active", "protocol"}
                      \/ picc'[t].state = "away" /\ ~\E u \in Tags: picc'[u].state = "active"
ReadsOneTag == [][TellsOneTag]_vars

(* A tag alone in the field is found by an undisturbed                     *)
(* readPassiveTargetID, in whatever state earlier calls and lost exchanges *)
(* left it, unless it is in a block protocol the driver has forgotten.     *)
Refound ==
  (pc = "idle" /\ call = "readPassiveTargetID" /\ target # {}) =>
    result.ok /\ \A t \in target: result.uid = FullUid(t)

(* A tag that speaks ISO/IEC 14443-4 is told of only when its ATS was read *)
(* and the chip computes the CRC of blocks, which the DESELECT of the next *)
(* call needs; a PPS that fails changes nothing about it.                  *)
LinkReady ==
  (/\ pc = "idle" /\ result.ok
   /\ call \in {"readPassiveTargetID", "PICC_ReadCardSerial"}
   /\ \E t \in Iso4: result.uid = FullUid(t))
     => base.selected /\ tag.ats /\ tag.iso = "SELECTED" /\ crc

(* An APDU is answered by the tag whose UID the driver tells, as long as   *)
(* no RATS answer or DESELECT was lost and no selected tag was called      *)
(* again: the tag selected before has been sent out of its block protocol. *)
AnsweredByTold ==
  (call = "transceive" /\ result.ok /\ sure) =>
    \E t \in Tags: result.by = {t} /\ getUID(base.uid) = FullUid(t)

(* Every call returns: a collision that adds no known bit ends the search, *)
(* a UID has three levels.                                                 *)
CallsReturn == pc # "idle" ~> pc = "idle"
=============================================================================
