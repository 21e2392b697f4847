--------------------------- MODULE Pn532LinkProofs --------------------------
(***************************************************************************)
(* Proofs about Pn532Link, for every set of functions the application      *)
(* calls and every table of commands that satisfies CommandsAssumption: on *)
(* I2C and SPI, and on a UART whose answers are read whole and in time.    *)
(***************************************************************************)
EXTENDS Pn532Link, SequenceTheorems, TLAPS

---------------------------------------------------------------------------
(* Sequences of cells.                                                     *)

LEMMA TuplesAreSequences ==
  ASSUME NEW S, NEW n \in Nat, NEW f \in [1..n -> S]
  PROVE  f \in Seq(S) /\ Len(f) = n
PROOF OBVIOUS

LEMMA CellsOfBytes ==
  ASSUME NEW s \in Seq(Byte), NEW c, c = Cells(s, "this")
  PROVE  /\ c \in Seq(Cell) /\ Len(c) = Len(s)
         /\ \A i \in 1..Len(s): c[i].v = s[i] /\ c[i].of = "this"
PROOF
<1>1. DOMAIN s = 1..Len(s) /\ Len(s) \in Nat /\ \A i \in 1..Len(s): s[i] \in Byte
  OBVIOUS
<1>2. c = [i \in 1..Len(s) |-> [v |-> s[i], of |-> "this"]]
  BY <1>1 DEF Cells
<1>3. \A i \in 1..Len(s): [v |-> s[i], of |-> "this"] \in Cell
  BY <1>1 DEF Cell
<1>4. c \in [1..Len(s) -> Cell]
  BY <1>2, <1>3
<1>5. c \in Seq(Cell) /\ Len(c) = Len(s)
  BY <1>1, <1>4, TuplesAreSequences
<1>6. QED
  BY <1>1, <1>2, <1>5

LEMMA ShortestCells ==
  ASSUME NEW S, NEW s \in Seq(S), NEW n \in Nat, NEW t, t = Shortest(s, n)
  PROVE  /\ t \in Seq(S)
         /\ Len(t) = IF Len(s) < n THEN Len(s) ELSE n
         /\ DOMAIN t = 1..Len(t)
         /\ \A i \in 1..Len(t): t[i] = s[i]
PROOF
<1>1. PICK k : k = IF Len(s) < n THEN Len(s) ELSE n
  OBVIOUS
<1>2. k \in 0..Len(s)
  BY <1>1
<1>3. t = SubSeq(s, 1, k)
  BY <1>1 DEF Shortest
<1>4. /\ SubSeq(s, 1, k) \in Seq(S)
      /\ Len(SubSeq(s, 1, k)) = k
      /\ DOMAIN SubSeq(s, 1, k) = 1..k
      /\ \A i \in 1..k: SubSeq(s, 1, k)[i] = s[i]
  BY <1>2
<1>5. QED
  BY <1>1, <1>3, <1>4

LEMMA OwnPrefix ==
  ASSUME NEW b \in Seq(Cell), NEW n \in Nat,
         \A i \in 1..Len(b): i <= n => b[i].of = "this"
  PROVE  AllOwn(Shortest(b, n))
PROOF
<1>1. PICK t : t = Shortest(b, n)
  OBVIOUS
<1>2. /\ t \in Seq(Cell)
      /\ Len(t) = IF Len(b) < n THEN Len(b) ELSE n
      /\ DOMAIN t = 1..Len(t)
      /\ \A i \in 1..Len(t): t[i] = b[i]
  BY <1>1, ShortestCells
<1>3. \A i \in 1..Len(t): i \in 1..Len(b) /\ i <= n
  BY <1>2
<1>4. \A i \in 1..Len(t): t[i].of = "this"
  BY <1>2, <1>3
<1>5. QED
  BY <1>1, <1>2, <1>4 DEF AllOwn

(* The view of the buffer shows what a read of n of d's cells left in it.  *)
Shows(b, d, n) ==
  /\ b \in [1..View -> Cell]
  /\ \A i \in 1..View: i <= n => b[i] = d[i]
  /\ AllOwn(Shortest(b, n))

(* At least a view of cells, all of them the command's own.                *)
OwnView(d) == d \in Seq(Cell) /\ Len(d) >= View /\ \A i \in 1..Len(d): d[i].of = "this"

LEMMA ViewOfCells ==
  ASSUME NEW d, OwnView(d), NEW n \in Nat, NEW buf \in [1..View -> Cell],
         NEW b, b = Over(Shortest(d, n), buf)
  PROVE  Shows(b, d, n)
PROOF
<1> USE DEF View
<1> d \in Seq(Cell) /\ \A i \in 1..Len(d): d[i].of = "this"
  BY DEF OwnView
<1>0. Len(d) \in Nat /\ Len(d) >= 9
  BY DEF OwnView
<1>1. PICK c : c = Shortest(d, n)
  OBVIOUS
<1>2. /\ c \in Seq(Cell)
      /\ Len(c) = IF Len(d) < n THEN Len(d) ELSE n
      /\ DOMAIN c = 1..Len(c)
      /\ \A i \in 1..Len(c): c[i] = d[i]
  BY <1>1, ShortestCells
<1>3. Len(c) \in Nat /\ \A i \in 1..Len(c): c[i] \in Cell
  BY <1>2
<1>4. b = [i \in 1..9 |-> IF i \in 1..Len(c) THEN c[i] ELSE buf[i]]
  BY <1>1, <1>2 DEF Over
<1>5. b \in [1..9 -> Cell]
  BY <1>3, <1>4
<1>6. \A i \in 1..9: i <= n => b[i] = d[i]
  <2> SUFFICES ASSUME NEW i \in 1..9, i <= n PROVE b[i] = d[i]
    OBVIOUS
  <2>1. i \in 1..Len(c)
    BY <1>0, <1>2
  <2>2. QED
    BY <1>2, <1>4, <2>1
<1>7. b \in Seq(Cell) /\ Len(b) = 9
  BY <1>5, TuplesAreSequences
<1>8. \A i \in 1..9: i <= n => b[i].of = "this"
  BY <1>0, <1>6, SMTT(40)
<1>9. AllOwn(Shortest(b, n))
  BY <1>7, <1>8, OwnPrefix
<1>10. QED
  BY <1>5, <1>6, <1>9 DEF Shows

(* A function judges the view as it would judge the frame.                 *)
LEMMA JudgesFrame ==
  ASSUME NEW r, NEW fr, r.reads \in Nat,
         \A n \in r.needs: n[1] \in 0..(View - 1) /\ n[1] < r.reads,
         r.checksLen \/ r.ownBuffer => r.reads >= View,
         NEW b \in [1..View -> Cell],
         \A i \in 1..View: i <= r.reads => b[i].v = fr[i]
  PROVE  Accepts(r, Bytes(b)) <=> Accepts(r, fr)
PROOF
<1> USE DEF View
<1>1. \A i \in 1..9: Bytes(b)[i] = b[i].v
  BY DEF Bytes
<1>2. \A i \in 0..8: i < r.reads => At(Bytes(b), i) = At(fr, i)
  <2> SUFFICES ASSUME NEW i \in 0..8, i < r.reads PROVE At(Bytes(b), i) = At(fr, i)
    OBVIOUS
  <2>1. i + 1 \in 1..9 /\ i + 1 <= r.reads
    OBVIOUS
  <2>2. Bytes(b)[i + 1] = b[i + 1].v /\ b[i + 1].v = fr[i + 1]
    BY <1>1, <2>1
  <2>3. QED
    BY <2>2 DEF At
<1>3. \A n \in r.needs: At(Bytes(b), n[1]) = At(fr, n[1])
  BY <1>2
<1>4. r.checksLen \/ r.ownBuffer => At(Bytes(b), 3) = At(fr, 3) /\ At(Bytes(b), 4) = At(fr, 4)
  BY <1>2
<1>5. QED
  BY <1>3, <1>4 DEF Accepts

(* A read of function f's reader when a response p to f is there.          *)
LEMMA ReadFrame ==
  ASSUME NEW f \in DOMAIN Commands, NEW p \in Answers(f),
         NEW buf \in [1..View -> Cell],
         NEW fr, fr = Frame(Commands[f].code, p),
         NEW r, r = Reader(f),
         NEW d, d = Cells(fr, "this"),
         NEW b, b = Over(Shortest(d, r.reads), buf)
  PROVE  /\ b \in [1..View -> Cell]
         /\ AllOwn(Shortest(b, r.reads))
         /\ Accepts(r, Bytes(b)) <=> Accepts(r, fr)
         /\ f \notin Writers \cup Emulators =>
              /\ p = Commands[f].good => Accepts(r, fr)
              /\ p \in Commands[f].bad => ~Accepts(r, fr)
PROOF
<1>1. /\ fr \in Seq(Byte) /\ Len(fr) >= View /\ r.reads \in Nat
      /\ \A n \in r.needs: n[1] \in 0..(View - 1) /\ n[1] < r.reads
      /\ r.checksLen \/ r.ownBuffer => r.reads >= View
  BY CommandsAssumption
<1>2. /\ d \in Seq(Cell) /\ Len(d) = Len(fr)
      /\ \A i \in 1..Len(fr): d[i].v = fr[i] /\ d[i].of = "this"
  BY <1>1, CellsOfBytes
<1>3. /\ b \in [1..View -> Cell]
      /\ \A i \in 1..View: i <= r.reads => b[i] = d[i]
      /\ AllOwn(Shortest(b, r.reads))
  <2>1. OwnView(d)
    BY <1>1, <1>2 DEF OwnView
  <2>2. PICK n \in Nat : n = r.reads
    BY <1>1
  <2>3. b = Over(Shortest(d, n), buf)
    BY <2>2
  <2>4. Shows(b, d, n)
    BY <2>1, <2>3, ViewOfCells
  <2>5. QED
    BY <2>2, <2>4 DEF Shows
<1>4. \A i \in 1..View: i <= r.reads => b[i].v = fr[i]
  <2> SUFFICES ASSUME NEW i \in 1..View, i <= r.reads PROVE b[i].v = fr[i]
    OBVIOUS
  <2>1. i \in 1..Len(fr)
    BY <1>1 DEF View
  <2>2. QED
    BY <1>2, <1>3, <2>1
<1>5. Accepts(r, Bytes(b)) <=> Accepts(r, fr)
  BY <1>1, <1>3, <1>4, JudgesFrame
<1>6. f \notin Writers \cup Emulators =>
        /\ p = Commands[f].good => Accepts(r, fr)
        /\ p \in Commands[f].bad => ~Accepts(r, fr)
  BY CommandsAssumption
<1>7. QED
  BY <1>3, <1>5, <1>6

(* A command is written over a clean slate.                                *)
LEMMA Overwritten ==
  ASSUME NEW f \in DOMAIN Commands, NEW buf \in [1..View -> Cell],
         NEW b, b = Over(Cells(Commands[f].sent, "other"), Aged(buf))
  PROVE  b \in [1..View -> Cell]
PROOF
<1>1. PICK s : s = Commands[f].sent
  OBVIOUS
<1>2. s \in Seq(Byte)
  BY <1>1, CommandsAssumption
<1>3. Cells(s, "other") = [i \in DOMAIN s |-> [v |-> s[i], of |-> "other"]]
  BY DEF Cells
<1>4. \A i \in DOMAIN s: [v |-> s[i], of |-> "other"] \in Cell
  BY <1>2 DEF Cell
<1>5. Aged(buf) = [i \in 1..View |-> [v |-> buf[i].v, of |-> "other"]]
  BY DEF Aged, Cells, Bytes
<1>6. \A i \in 1..View: [v |-> buf[i].v, of |-> "other"] \in Cell
  BY DEF Cell
<1>7. b = [i \in 1..View |-> IF i \in DOMAIN s THEN [v |-> s[i], of |-> "other"]
                             ELSE [v |-> buf[i].v, of |-> "other"]]
  BY <1>1, <1>3, <1>5 DEF Over
<1>8. QED
  BY <1>4, <1>6, <1>7

---------------------------------------------------------------------------
(* The types, on every bus.                                                *)

LEMMA CellsTyped ==
  ASSUME NEW s \in Seq(Byte), NEW o \in {"this", "other"}, NEW c, c = Cells(s, o)
  PROVE  c \in Seq(Cell) /\ Len(c) = Len(s)
PROOF
<1>1. c = [i \in 1..Len(s) |-> [v |-> s[i], of |-> o]]
  BY DEF Cells
<1>2. \A i \in 1..Len(s): [v |-> s[i], of |-> o] \in Cell
  BY DEF Cell
<1>3. c \in [1..Len(s) -> Cell] /\ Len(s) \in Nat
  BY <1>1, <1>2
<1>4. QED
  BY <1>3, TuplesAreSequences

LEMMA AgedTyped ==
  ASSUME NEW c \in Seq(Cell), NEW a, a = Aged(c)
  PROVE  a \in Seq(Cell) /\ Len(a) = Len(c)
PROOF
<1>1. PICK b : b = Bytes(c)
  OBVIOUS
<1>2. b = [i \in 1..Len(c) |-> c[i].v]
  BY <1>1 DEF Bytes
<1>3. \A i \in 1..Len(c): c[i].v \in Byte
  <2>1. \A i \in 1..Len(c): c[i] \in Cell
    OBVIOUS
  <2>2. QED
    BY <2>1 DEF Cell
<1>4. b \in [1..Len(c) -> Byte] /\ Len(c) \in Nat
  BY <1>2, <1>3
<1>5. b \in Seq(Byte) /\ Len(b) = Len(c)
  BY <1>4, TuplesAreSequences
<1>6. a = Cells(b, "other")
  BY <1>1 DEF Aged
<1>7. QED
  BY <1>5, <1>6, CellsTyped

LEMMA OverTyped ==
  ASSUME NEW c \in Seq(Cell), NEW buf \in [1..View -> Cell], NEW b, b = Over(c, buf)
  PROVE  b \in [1..View -> Cell]
PROOF
<1>1. b = [i \in 1..View |-> IF i \in DOMAIN c THEN c[i] ELSE buf[i]]
  BY DEF Over
<1>2. \A i \in DOMAIN c: c[i] \in Cell
  OBVIOUS
<1>3. QED
  BY <1>1, <1>2

LEMMA CallTyped == ASSUME TypeOK PROVE call \in DOMAIN Commands
PROOF
<1>1. bus \in Buses /\ call \in Calls[bus]
  BY DEF TypeOK
<1>2. QED
  BY <1>1, LinkAssumption

LEMMA ConsumeTyped ==
  ASSUME TypeOK, NEW n \in Nat, Consume(n)
  PROVE  rx' \in Seq(Cell) /\ Len(rx') <= MaxRx
PROOF
<1>1. rx \in Seq(Cell) /\ Len(rx) <= MaxRx /\ MaxRx \in Nat
  BY LinkAssumption DEF TypeOK
<1>2. CASE rx' = <<>>
  BY <1>1, <1>2
<1>3. CASE rx' = SubSeq(rx, n + 1, Len(rx))
  <2>1. \A i \in (n + 1)..Len(rx): rx[i] \in Cell
    BY <1>1
  <2>2. PICK m \in Nat : m = n + 1 /\ m >= 1
    OBVIOUS
  <2>3. PICK l \in Nat : l = Len(rx)
    BY <1>1
  <2>4. /\ SubSeq(rx, m, l) \in Seq(Cell)
        /\ Len(SubSeq(rx, m, l)) = IF m <= l THEN l - m + 1 ELSE 0
    BY <2>1, <2>2, <2>3, SubSeqProperties
  <2>5. Len(SubSeq(rx, m, l)) <= l
    BY <2>2, <2>3, <2>4
  <2>6. QED
    BY <1>1, <1>3, <2>2, <2>3, <2>4, <2>5
<1>4. QED
  BY <1>2, <1>3 DEF Consume

LEMMA DeliverTyped ==
  ASSUME TypeOK, NEW s \in Seq(Byte), Deliver(s)
  PROVE  rx' \in Seq(Cell) /\ Len(rx') <= MaxRx
PROOF
<1>1. PICK c : c = Cells(s, "this")
  OBVIOUS
<1>2. c \in Seq(Cell) /\ Len(c) = Len(s)
  BY <1>1, CellsTyped
<1>3. rx \in Seq(Cell) /\ rx' = rx \o c /\ Len(rx) + Len(s) <= MaxRx
  BY <1>1 DEF TypeOK, Deliver
<1>4. rx \o c \in Seq(Cell) /\ Len(rx \o c) = Len(rx) + Len(c)
  BY <1>2, <1>3, ConcatProperties
<1>5. QED
  BY <1>2, <1>3, <1>4

LEMMA ReturnTyped ==
  ASSUME NEW ok \in BOOLEAN, NEW why \in Reasons, NEW own \in BOOLEAN, Return(ok, why, own)
  PROVE  pc' = "idle" /\ result' \in [ok: BOOLEAN, why: Reasons, own: BOOLEAN]
PROOF
  BY DEF Return

LEMMA WriteTypes ==
  ASSUME TypeOK, NEW f \in Calls[bus], Write(f), UNCHANGED bus
  PROVE  TypeOK'
PROOF
<1>1. f \in DOMAIN Commands
  <2>1. bus \in Buses
    BY DEF TypeOK
  <2>2. QED
    BY <2>1, LinkAssumption
<1>2. packet' \in [1..View -> Cell]
  BY <1>1, Overwritten DEF TypeOK, Write
<1>3. rx' \in Seq(Cell) /\ Len(rx') <= MaxRx
  <2>1. CASE rx' = <<>>
    BY <2>1, LinkAssumption
  <2>2. CASE rx' = Aged(rx)
    BY <2>2, AgedTyped DEF TypeOK
  <2>3. QED
    BY <2>1, <2>2 DEF Write
<1>4. /\ pc' = "waitAck" /\ chip' = "command" /\ did' = "none" /\ call' = f /\ listed' = listed
      /\ result' = NoResult
  BY DEF Write
<1>5. NoResult \in [ok: BOOLEAN, why: Reasons, own: BOOLEAN]
  BY DEF NoResult, Reasons
<1>6. QED
  BY <1>2, <1>3, <1>4, <1>5 DEF TypeOK

LEMMA BeginTypes ==
  ASSUME TypeOK, "SAMConfig" \in Calls[bus], Begin, UNCHANGED bus
  PROVE  TypeOK'
PROOF
<1>1. SAMConfig = Commands["SAMConfig"]
  BY DEF Commands
<1>2. packet' \in [1..View -> Cell]
  <2>1. bus \in Buses
    BY DEF TypeOK
  <2>2. "SAMConfig" \in DOMAIN Commands
    BY <2>1, LinkAssumption
  <2>3. QED
    BY <1>1, <2>2, Overwritten DEF TypeOK, Begin
<1>3. rx' \in Seq(Cell) /\ Len(rx') <= MaxRx
  BY LinkAssumption DEF Begin
<1>4. /\ pc' = "waitAck" /\ chip' = "command" /\ did' = "none" /\ call' = "SAMConfig"
      /\ listed' = listed /\ result' = NoResult
  BY DEF Begin
<1>5. NoResult \in [ok: BOOLEAN, why: Reasons, own: BOOLEAN]
  BY DEF NoResult, Reasons
<1>6. QED
  BY <1>2, <1>3, <1>4, <1>5 DEF TypeOK

LEMMA ReadAckTypes ==
  ASSUME TypeOK, ReadAck, UNCHANGED bus
  PROVE  TypeOK'
PROOF
<1>1. rx' \in Seq(Cell) /\ Len(rx') <= MaxRx
  BY ConsumeTyped DEF ReadAck
<1>2. UNCHANGED <<call, chip, did, packet, listed>>
  BY DEF ReadAck
<1>3. \/ pc' = "waitResponse" /\ result' = result
      \/ Return(FALSE, "nack", AllOwn(Taken(6)))
  BY DEF ReadAck
<1>4. PICK own \in BOOLEAN : own = AllOwn(Taken(6))
  BY DEF AllOwn
<1>5. pc' \in {"idle", "waitResponse"} /\ result' \in [ok: BOOLEAN, why: Reasons, own: BOOLEAN]
  BY <1>3, <1>4, ReturnTyped DEF TypeOK, Reasons
<1>6. QED
  BY <1>1, <1>2, <1>5 DEF TypeOK

LEMMA GivenUpTypes ==
  ASSUME TypeOK, TimeOut \/ LeaveUnread, UNCHANGED bus
  PROVE  TypeOK'
PROOF
<1>1. UNCHANGED <<call, rx, chip, did, packet, listed>>
  BY DEF TimeOut, LeaveUnread
<1>2. Return(FALSE, "timeout", TRUE) \/ Return(TRUE, "unread", TRUE)
  BY DEF TimeOut, LeaveUnread
<1>3. pc' = "idle" /\ result' \in [ok: BOOLEAN, why: Reasons, own: BOOLEAN]
  BY <1>2, ReturnTyped DEF Reasons
<1>4. QED
  BY <1>1, <1>3 DEF TypeOK

LEMMA ReadByTypes ==
  ASSUME TypeOK, NEW r, r = Reader(call), ReadBy(r), UNCHANGED <<call, chip, did, bus>>
  PROVE  TypeOK'
PROOF
<1>1. PICK n \in Nat : n = r.reads
  BY CallTyped, CommandsAssumption
<1>2. rx' \in Seq(Cell) /\ Len(rx') <= MaxRx
  <2>1. Consume(n)
    BY <1>1 DEF ReadBy
  <2>2. QED
    BY <2>1, ConsumeTyped
<1>3. PICK b : b = Over(Shortest(rx, n), packet)
  OBVIOUS
<1>4. b \in [1..View -> Cell]
  <2>1. Shortest(rx, n) \in Seq(Cell)
    BY ShortestCells DEF TypeOK
  <2>2. QED
    BY <1>3, <2>1, OverTyped DEF TypeOK
<1>5. PICK ok \in BOOLEAN : ok = Accepts(r, Bytes(b))
  BY DEF Accepts
<1>6. PICK own \in BOOLEAN : own = AllOwn(Shortest(b, n))
  BY DEF AllOwn
<1>7. /\ packet' = IF r.ownBuffer THEN packet ELSE b
      /\ Return(ok, "read", own)
      /\ listed' = IF ok /\ r = InListPassiveTarget THEN At(Bytes(b), 8) ELSE listed
  BY <1>1, <1>3, <1>5, <1>6 DEF ReadBy, Taken
<1>8. At(Bytes(b), 8) \in Byte
  <2>1. Bytes(b)[9] = b[9].v /\ b[9] \in Cell
    BY <1>4 DEF Bytes, View
  <2>2. QED
    BY <2>1 DEF At, Cell
<1>9. pc' = "idle" /\ result' \in [ok: BOOLEAN, why: Reasons, own: BOOLEAN]
  BY <1>7, ReturnTyped DEF Reasons
<1>10. packet' \in [1..View -> Cell] /\ listed' \in Byte
  BY <1>4, <1>7, <1>8 DEF TypeOK
<1>11. QED
  BY <1>2, <1>9, <1>10 DEF TypeOK

(* Both functions that read a response read it by the call's reader.       *)
LEMMA ReadsByReader ==
  ASSUME ReadResponse \/ ReadDetectedPassiveTargetID
  PROVE  ReadBy(Reader(call)) /\ UNCHANGED <<call, chip, did>>
PROOF
<1>1. CASE ReadDetectedPassiveTargetID
  BY <1>1 DEF ReadDetectedPassiveTargetID, Reader
<1>2. CASE ReadResponse
  <2>1. call # "startPassiveTargetIDDetection"
    BY <1>2 DEF ReadResponse, Commands, StartPassiveTargetIDDetection, Command
  <2>2. QED
    BY <1>2, <2>1 DEF ReadResponse, Reader
<1>3. QED
  BY <1>1, <1>2

LEMMA ChipTypes ==
  ASSUME TypeOK, Chip, UNCHANGED bus
  PROVE  TypeOK'
PROOF
<1>1. CASE SendAck
  <2>1. Ack \in Seq(Byte)
    BY DEF Ack, Byte
  <2>2. rx' \in Seq(Cell) /\ Len(rx') <= MaxRx
    BY <1>1, <2>1, DeliverTyped DEF SendAck
  <2>3. chip' = "acked" /\ UNCHANGED <<pc, call, did, packet, listed, result>>
    BY <1>1 DEF SendAck
  <2>4. QED
    BY <2>2, <2>3 DEF TypeOK
<1>2. ASSUME NEW outcome \in {"good", "bad"}, NEW p \in Answers(call), Respond(outcome, p)
      PROVE  TypeOK'
  <2>1. Frame(Commands[call].code, p) \in Seq(Byte)
    BY CallTyped, CommandsAssumption
  <2>2. rx' \in Seq(Cell) /\ Len(rx') <= MaxRx
    BY <1>2, <2>1, DeliverTyped DEF Respond
  <2>3. chip' = "idle" /\ did' = outcome /\ UNCHANGED <<pc, call, packet, listed, result>>
    BY <1>2 DEF Respond
  <2>4. QED
    BY <2>2, <2>3 DEF TypeOK
<1>3. CASE RespondGood
  BY <1>2, <1>3 DEF RespondGood, Answers
<1>4. CASE RespondBad
  BY <1>2, <1>4 DEF RespondBad, Answers
<1>5. CASE SaysNothing
  BY <1>5 DEF SaysNothing, TypeOK
<1>6. QED
  BY <1>1, <1>3, <1>4, <1>5 DEF Chip

(* The driver, the chip and what is between them keep their types on every *)
(* bus, whatever is called: the view of the buffer keeps its length under  *)
(* every command and every read, and the receive buffer its bound.         *)
THEOREM LinkTypes == Spec => []TypeOK
PROOF
<1>1. Init => TypeOK
  <2> SUFFICES ASSUME Init PROVE TypeOK
    OBVIOUS
  <2>1. packet \in [1..View -> Cell] /\ listed \in Byte
    BY DEF Init, Cell, Byte
  <2>2. rx \in Seq(Cell) /\ Len(rx) <= MaxRx
    BY LinkAssumption DEF Init
  <2>3. result \in [ok: BOOLEAN, why: Reasons, own: BOOLEAN]
    BY DEF Init, NoResult, Reasons
  <2>4. QED
    BY <2>1, <2>2, <2>3 DEF Init, TypeOK
<1>2. TypeOK /\ [Next]_vars => TypeOK'
  <2> SUFFICES ASSUME TypeOK, [Next]_vars PROVE TypeOK'
    OBVIOUS
  <2>1. CASE UNCHANGED vars
    BY <2>1 DEF vars, TypeOK
  <2>2. CASE Step /\ UNCHANGED bus
    <3>1. CASE "SAMConfig" \in Calls[bus] /\ Begin
      BY <2>2, <3>1, BeginTypes
    <3>2. CASE \E f \in Calls[bus]: Write(f)
      BY <2>2, <3>2, WriteTypes
    <3>3. CASE ReadAck \/ TimeOut \/ LeaveUnread
      BY <2>2, <3>3, ReadAckTypes, GivenUpTypes
    <3>4. CASE ReadResponse \/ ReadDetectedPassiveTargetID
      BY <2>2, <3>4, ReadsByReader, ReadByTypes
    <3>5. CASE Chip
      BY <2>2, <3>5, ChipTypes
    <3>6. QED
      BY <2>2, <3>1, <3>2, <3>3, <3>4, <3>5 DEF Step, Host
  <2>3. QED
    BY <2>1, <2>2 DEF Next
<1>3. QED
  BY <1>1, <1>2, PTL DEF Spec

---------------------------------------------------------------------------
(* The inductive invariant.                                                *)

LEMMA LinkCalls == Calls["frames"] \subseteq DOMAIN Commands /\ Calls["uart"] \subseteq DOMAIN Commands
PROOF
<1>1. "frames" \in Buses /\ "uart" \in Buses
  BY DEF Buses
<1>2. QED
  BY <1>1, LinkAssumption

LEMMA InitInv == ASSUME Init, FrameLink PROVE FrameInv
PROOF
<1>1. 0 \in Byte
  BY DEF Byte
<1>2. packet \in [1..View -> Cell]
  BY <1>1 DEF Init, Cell
<1>3. result.why = "none" /\ pc = "idle" /\ call \in Calls["frames"] /\ rx = <<>> /\ chip = "idle"
  BY DEF Init, NoResult, FrameLink
<1>4. QED
  BY <1>2, <1>3 DEF FrameInv, OwnResponse, AckUnderstood, Truthful, AwaitingResponse

LEMMA WriteInv ==
  ASSUME FrameInv, FrameLink, NEW f \in Calls["frames"], Write(f)
  PROVE  FrameInv'
PROOF
<1>1. packet' \in [1..View -> Cell]
  BY LinkCalls, Overwritten DEF FrameInv, Write
<1>2. /\ pc' = "waitAck" /\ call' \in Calls["frames"] /\ rx' = <<>> /\ chip' = "command"
      /\ result'.why = "none"
  BY DEF Write, NoResult, FrameLink, Stream
<1>3. QED
  BY <1>1, <1>2 DEF FrameInv, AwaitingAck, OwnResponse, AckUnderstood, Truthful

LEMMA BeginInv ==
  ASSUME FrameInv, "SAMConfig" \in Calls["frames"], Begin
  PROVE  FrameInv'
PROOF
<1>1. SAMConfig = Commands["SAMConfig"]
  BY DEF Commands
<1>2. packet' \in [1..View -> Cell]
  BY <1>1, LinkCalls, Overwritten DEF FrameInv, Begin
<1>3. /\ pc' = "waitAck" /\ call' \in Calls["frames"] /\ rx' = <<>> /\ chip' = "command"
      /\ result'.why = "none"
  BY DEF Begin, NoResult
<1>4. QED
  BY <1>2, <1>3 DEF FrameInv, AwaitingAck, OwnResponse, AckUnderstood, Truthful

LEMMA AckCells == Cells(Ack, "this") \in Seq(Cell) /\ Len(Cells(Ack, "this")) = 6
PROOF
<1>1. Ack \in Seq(Byte) /\ Len(Ack) = 6
  BY DEF Ack, Byte
<1>2. QED
  BY <1>1, CellsOfBytes

LEMMA ShortestFull ==
  ASSUME NEW c \in Seq(Cell), NEW n \in Nat, Len(c) >= n, NEW t, t = Shortest(c, n)
  PROVE  /\ t \in Seq(Cell) /\ Len(t) = n /\ DOMAIN t = 1..n
         /\ \A i \in 1..n: t[i] = c[i]
PROOF
<1>1. /\ t \in Seq(Cell)
      /\ Len(t) = IF Len(c) < n THEN Len(c) ELSE n
      /\ DOMAIN t = 1..Len(t)
      /\ \A i \in 1..Len(t): t[i] = c[i]
  BY ShortestCells
<1>2. Len(c) \in Nat
  OBVIOUS
<1>3. Len(t) = n
  BY <1>1, <1>2
<1>4. QED
  BY <1>1, <1>3

(* Six cells with the bytes of an ACK frame are read as one.               *)
LEMMA AckRead ==
  ASSUME NEW c \in Seq(Cell), Len(c) >= 6, \A i \in 1..6: c[i].v = Ack[i],
         NEW t, t = Shortest(c, 6)
  PROVE  Len(Bytes(t)) = 6 /\ IsPrefix(Bytes(t), Ack)
PROOF
<1>1. Ack \in Seq(Byte) /\ Len(Ack) = 6
  BY DEF Ack, Byte
<1>2. /\ t \in Seq(Cell) /\ Len(t) = 6 /\ DOMAIN t = 1..6
      /\ \A i \in 1..6: t[i] = c[i]
  <2>1. PICK n \in Nat : n = 6
    OBVIOUS
  <2>2. Len(c) >= n /\ t = Shortest(c, n)
    BY <2>1
  <2>3. /\ t \in Seq(Cell) /\ Len(t) = n /\ DOMAIN t = 1..n
        /\ \A i \in 1..n: t[i] = c[i]
    BY <2>2, ShortestFull
  <2>4. QED
    BY <2>1, <2>3
<1>3. PICK b : b = Bytes(t)
  OBVIOUS
<1>4. b = [i \in 1..6 |-> t[i].v]
  BY <1>2, <1>3 DEF Bytes
<1>5. \A i \in 1..6: b[i] = Ack[i] /\ Ack[i] \in Byte
  BY <1>1, <1>2, <1>4
<1>6. b \in [1..6 -> Byte]
  BY <1>4, <1>5
<1>7. b \in Seq(Byte) /\ Len(b) = 6
  BY <1>6, TuplesAreSequences
<1>8. b = Ack
  BY <1>1, <1>5, <1>7
<1>9. SubSeq(Ack, 1, 6) = Ack
  BY <1>1
<1>10. QED
  BY <1>3, <1>7, <1>8, <1>9 DEF IsPrefix

(* An ACK frame at the head of what there is to read is understood.        *)
LEMMA AckIsTaken ==
  ASSUME NEW rest \in Seq(Cell), rx = Cells(Ack, "this") \o rest
  PROVE  /\ Len(Bytes(Taken(6))) = 6
         /\ IsPrefix(Bytes(Taken(6)), Ack)
         /\ rx # <<>>
PROOF
<1>1. Ack \in Seq(Byte) /\ Len(Ack) = 6
  BY DEF Ack, Byte
<1>2. PICK a : a = Cells(Ack, "this")
  OBVIOUS
<1>3. /\ a \in Seq(Cell) /\ Len(a) = Len(Ack)
      /\ \A i \in 1..Len(Ack): a[i].v = Ack[i]
  BY ONLY <1>1, <1>2, CellsOfBytes
<1>4. Len(a) = 6 /\ \A i \in 1..6: a[i].v = Ack[i]
  BY <1>1, <1>3
<1>5. /\ a \o rest \in Seq(Cell) /\ Len(a \o rest) = Len(a) + Len(rest)
      /\ \A i \in 1..(Len(a) + Len(rest)):
           (a \o rest)[i] = IF i <= Len(a) THEN a[i] ELSE rest[i - Len(a)]
  BY <1>3, ConcatProperties
<1>6. Len(rest) \in Nat /\ rx = a \o rest
  BY <1>2
<1>7. rx \in Seq(Cell) /\ Len(rx) >= 6 /\ \A i \in 1..6: rx[i] = a[i]
  <2>1. rx \in Seq(Cell) /\ Len(rx) = 6 + Len(rest)
    BY <1>4, <1>5, <1>6
  <2>2. \A i \in 1..6: i \in 1..(Len(a) + Len(rest)) /\ i <= Len(a)
    BY <1>4, <1>6
  <2>3. QED
    BY <1>5, <1>6, <2>1, <2>2
<1>8. \A i \in 1..6: rx[i].v = Ack[i]
  BY <1>4, <1>7
<1>9. Len(Bytes(Taken(6))) = 6 /\ IsPrefix(Bytes(Taken(6)), Ack)
  BY <1>7, <1>8, AckRead DEF Taken
<1>10. rx # <<>>
  <2>1. CASE rx = <<>>
    <3>1. Len(rx) = 0
      BY <2>1
    <3>2. QED
      BY <1>7, <3>1
  <2>2. QED
    BY <2>1
<1>11. QED
  BY <1>9, <1>10

LEMMA ReadAckInv ==
  ASSUME FrameInv, FrameLink, ReadAck
  PROVE  FrameInv'
PROOF
<1>1. rx = Cells(Ack, "this") /\ chip \in {"acked", "idle"}
  BY DEF FrameInv, ReadAck, Consume, AwaitingAck
<1>2. Len(Bytes(Taken(6))) = 6 /\ IsPrefix(Bytes(Taken(6)), Ack)
  <2>1. rx = Cells(Ack, "this") \o <<>> /\ <<>> \in Seq(Cell)
    BY <1>1, AckCells, ConcatEmptySeq
  <2>2. QED
    BY <2>1, AckIsTaken
<1>3. pc' = "waitResponse" /\ result' = result
  BY <1>2 DEF ReadAck
<1>4. rx' = <<>> /\ UNCHANGED <<call, chip, did, packet, listed>>
  BY DEF ReadAck, Consume, FrameLink, Stream
<1>5. result.why = "none"
  BY DEF FrameInv, ReadAck
<1>6. QED
  BY <1>1, <1>3, <1>4, <1>5 DEF FrameInv, AwaitingResponse, OwnResponse, AckUnderstood, Truthful

LEMMA TimeOutInv ==
  ASSUME FrameInv, FrameLink, TimeOut
  PROVE  FrameInv'
PROOF
<1>1. /\ pc' = "idle" /\ result'.why = "timeout" /\ rx = <<>>
      /\ UNCHANGED <<call, rx, chip, did, packet>>
  BY DEF TimeOut, Return
<1>2. ASSUME call = "startPassiveTargetIDDetection" PROVE AwaitingResponse
  <2>1. "command" \in InTime["frames"]
    BY <1>2 DEF FrameInv, FrameLink
  <2>2. chip # "command"
    BY <2>1 DEF TimeOut, FrameLink
  <2>3. CASE pc = "waitAck"
    BY <1>1, <2>2, <2>3 DEF FrameInv, AwaitingAck, AwaitingResponse
  <2>4. CASE pc = "waitResponse"
    BY <2>4 DEF FrameInv
  <2>5. QED
    BY <2>3, <2>4 DEF TimeOut
<1>3. AwaitingResponse => AwaitingResponse'
  BY <1>1 DEF AwaitingResponse
<1>4. QED
  BY <1>1, <1>2, <1>3 DEF FrameInv, OwnResponse, AckUnderstood, Truthful

LEMMA LeaveUnreadInv ==
  ASSUME FrameInv, LeaveUnread
  PROVE  FrameInv'
PROOF
<1>1. /\ pc' = "idle" /\ result'.why = "unread"
      /\ UNCHANGED <<call, rx, chip, did, packet>>
  BY DEF LeaveUnread, Return
<1>2. AwaitingResponse
  BY DEF FrameInv, LeaveUnread
<1>3. AwaitingResponse'
  BY <1>1, <1>2 DEF AwaitingResponse, ResponsePending
<1>4. QED
  BY <1>1, <1>3 DEF FrameInv, OwnResponse, AckUnderstood, Truthful

(* Reading the pending response of the call, by the function that reads    *)
(* that call's responses, on any bus.                                      *)
LEMMA ReadPending ==
  ASSUME AwaitingResponse, call \in DOMAIN Commands, packet \in [1..View -> Cell],
         NEW r, r = Reader(call), ReadBy(r), UNCHANGED <<call, chip, did>>
  PROVE  /\ packet' \in [1..View -> Cell]
         /\ pc' = "idle" /\ chip' = "idle" /\ result'.why = "read"
         /\ OwnResponse' /\ AckUnderstood' /\ Truthful'
PROOF
<1>1. rx # <<>>
  BY DEF ReadBy, Consume
<1>2. PICK p \in Answers(call):
        /\ rx = Cells(Frame(Commands[call].code, p), "this")
        /\ \/ p = Commands[call].good /\ did = "good"
           \/ p \in Commands[call].bad /\ did = "bad"
  BY <1>1 DEF AwaitingResponse, ResponsePending
<1>3. PICK fr : fr = Frame(Commands[call].code, p)
  OBVIOUS
<1>4. PICK b : b = Over(Shortest(rx, r.reads), packet)
  OBVIOUS
<1>6. /\ b \in [1..View -> Cell]
      /\ AllOwn(Shortest(b, r.reads))
      /\ Accepts(r, Bytes(b)) <=> Accepts(r, fr)
      /\ call \notin Writers \cup Emulators =>
           /\ p = Commands[call].good => Accepts(r, fr)
           /\ p \in Commands[call].bad => ~Accepts(r, fr)
  BY <1>2, <1>3, <1>4, ReadFrame
<1>7. /\ packet' = IF r.ownBuffer THEN packet ELSE b
      /\ pc' = "idle"
      /\ result' = [ok |-> Accepts(r, Bytes(b)), why |-> "read",
                    own |-> AllOwn(Shortest(b, r.reads))]
  BY <1>4 DEF ReadBy, Taken, Return
<1>8. result'.why = "read" /\ result'.own /\ (result'.ok <=> Accepts(r, fr))
  BY <1>6, <1>7
<1>9. chip' = "idle"
  BY <1>1 DEF AwaitingResponse
<1>10. OwnResponse' /\ AckUnderstood'
  BY <1>8 DEF OwnResponse, AckUnderstood
<1>11. Truthful'
  BY <1>2, <1>6, <1>8 DEF Truthful
<1>12. packet' \in [1..View -> Cell]
  BY <1>6, <1>7
<1>13. QED
  BY <1>7, <1>8, <1>9, <1>10, <1>11, <1>12

LEMMA ReadsInv ==
  ASSUME FrameInv, FrameLink, ReadResponse \/ ReadDetectedPassiveTargetID
  PROVE  FrameInv'
PROOF
<1>1. ReadBy(Reader(call)) /\ UNCHANGED <<call, chip, did>>
  BY ReadsByReader
<1>2. AwaitingResponse
  BY DEF FrameInv, ReadResponse, ReadDetectedPassiveTargetID
<1>3. call \in DOMAIN Commands /\ packet \in [1..View -> Cell] /\ call \in Calls["frames"]
  BY LinkCalls DEF FrameInv
<1>4. /\ packet' \in [1..View -> Cell]
      /\ pc' = "idle" /\ chip' = "idle" /\ result'.why = "read"
      /\ OwnResponse' /\ AckUnderstood' /\ Truthful'
  BY <1>1, <1>2, <1>3, ReadPending
<1>5. rx' = <<>>
  BY <1>1 DEF ReadBy, Consume, FrameLink, Stream
<1>6. AwaitingResponse'
  BY <1>4, <1>5 DEF AwaitingResponse
<1>7. QED
  BY <1>1, <1>3, <1>4, <1>6 DEF FrameInv

LEMMA SendAckInv ==
  ASSUME FrameInv, FrameLink, SendAck
  PROVE  FrameInv'
PROOF
<1>1. /\ rx = <<>> /\ chip = "command" /\ chip' = "acked"
      /\ rx' = <<>> \o Cells(Ack, "this")
      /\ UNCHANGED <<pc, call, did, packet, listed, result>>
  BY DEF SendAck, Deliver, FrameLink, Stream
<1>2. rx' = Cells(Ack, "this")
  <2>1. Ack \in Seq(Byte)
    BY DEF Ack, Byte
  <2>2. Cells(Ack, "this") \in Seq(Cell)
    BY <2>1, CellsOfBytes
  <2>3. QED
    BY <1>1, <2>2
<1>3. result.why # "read"
  BY <1>1 DEF FrameInv
<1>4. QED
  BY <1>1, <1>2, <1>3
  DEF FrameInv, AwaitingAck, AwaitingResponse, OwnResponse, AckUnderstood, Truthful

LEMMA RespondInv ==
  ASSUME FrameInv, FrameLink, NEW outcome, NEW p \in Answers(call), Respond(outcome, p),
         \/ p = Commands[call].good /\ outcome = "good"
         \/ p \in Commands[call].bad /\ outcome = "bad"
  PROVE  FrameInv'
PROOF
<1>1. PICK fr : fr = Frame(Commands[call].code, p)
  OBVIOUS
<1>2. /\ rx = <<>> /\ chip = "acked" /\ chip' = "idle" /\ did' = outcome
      /\ rx' = <<>> \o Cells(fr, "this")
      /\ UNCHANGED <<pc, call, packet, listed, result>>
  BY <1>1 DEF Respond, Deliver, FrameLink, Stream
<1>3. rx' = Cells(fr, "this")
  <2>1. call \in DOMAIN Commands
    BY LinkCalls DEF FrameInv
  <2>2. fr \in Seq(Byte)
    BY <1>1, <2>1, CommandsAssumption
  <2>3. Cells(fr, "this") \in Seq(Cell)
    BY <2>2, CellsOfBytes
  <2>4. QED
    BY <1>2, <2>3
<1>4. ResponsePending'
  <2>1. Answers(call)' = Answers(call)
    BY <1>2
  <2>2. QED
    BY <1>1, <1>2, <1>3, <2>1 DEF ResponsePending
<1>5. AwaitingResponse'
  BY <1>2, <1>4 DEF AwaitingResponse
<1>6. result.why # "read" /\ pc # "waitAck"
  <2>1. Ack \in Seq(Byte) /\ Len(Ack) = 6
    BY DEF Ack, Byte
  <2>2. Len(Cells(Ack, "this")) = 6
    BY <2>1, CellsOfBytes
  <2>3. Cells(Ack, "this") # <<>>
    BY <2>2
  <2>4. QED
    BY <1>2, <2>3 DEF FrameInv, AwaitingAck
<1>7. QED
  BY <1>2, <1>5, <1>6 DEF FrameInv, OwnResponse, AckUnderstood, Truthful

LEMMA SaysNothingInv ==
  ASSUME FrameInv, SaysNothing
  PROVE  FrameInv'
PROOF
<1>1. /\ chip' = "idle"
      /\ UNCHANGED <<pc, call, rx, did, packet, listed, result>>
  BY DEF SaysNothing
<1>2. AwaitingAck => AwaitingAck'
  BY <1>1 DEF AwaitingAck
<1>3. AwaitingResponse => AwaitingResponse'
  BY <1>1 DEF AwaitingResponse, ResponsePending
<1>4. QED
  BY <1>1, <1>2, <1>3 DEF FrameInv, OwnResponse, AckUnderstood, Truthful

LEMMA StepInv ==
  ASSUME FrameInv, FrameLink, Step
  PROVE  FrameInv'
PROOF
<1>0. bus = "frames"
  BY DEF FrameLink
<1>1. CASE "SAMConfig" \in Calls[bus] /\ Begin
  BY <1>0, <1>1, BeginInv
<1>2. ASSUME NEW f \in Calls[bus], Write(f) PROVE FrameInv'
  BY <1>0, <1>2, WriteInv
<1>3. CASE Host
  BY <1>3, ReadAckInv, TimeOutInv, LeaveUnreadInv, ReadsInv DEF Host
<1>4. CASE ReadDetectedPassiveTargetID
  BY <1>4, ReadsInv
<1>5. CASE SendAck \/ SaysNothing
  BY <1>5, SendAckInv, SaysNothingInv
<1>6. CASE RespondGood
  <2>1. Commands[call].good \in Answers(call)
    BY DEF Answers
  <2>2. QED
    BY <1>6, <2>1, RespondInv DEF RespondGood
<1>7. CASE RespondBad
  <2>1. PICK p \in Commands[call].bad : Respond("bad", p)
    BY <1>7 DEF RespondBad
  <2>2. p \in Answers(call)
    BY DEF Answers
  <2>3. QED
    BY <2>1, <2>2, RespondInv
<1>8. QED
  BY <1>1, <1>2, <1>3, <1>4, <1>5, <1>6, <1>7 DEF Step, Chip

LEMMA StutterInv ==
  ASSUME FrameInv, UNCHANGED vars
  PROVE  FrameInv'
PROOF
  BY DEF vars, FrameInv, AwaitingAck, AwaitingResponse, ResponsePending,
         OwnResponse, AckUnderstood, Truthful

---------------------------------------------------------------------------
(* The invariant on a UART whose answers are read whole.                   *)

LEMMA StreamInit == ASSUME Init, StreamLink PROVE StreamInv
PROOF
<1>1. packet \in [1..View -> Cell]
  BY DEF Init, Cell, Byte
<1>2. result.why = "none" /\ pc = "idle" /\ call \in Calls["uart"] /\ rx = <<>> /\ chip = "idle"
  BY DEF Init, NoResult, StreamLink
<1>3. QED
  BY <1>1, <1>2 DEF StreamInv, OwnResponse, AckUnderstood, Truthful

(* Every function reads its response: none leaves it unread.               *)
LEMMA ReadsWhole ==
  ASSUME StreamLink, StreamInv, NEW p \in Answers(call),
         NEW fr, fr = Frame(Commands[call].code, p)
  PROVE  /\ call \in DOMAIN Commands
         /\ fr \in Seq(Byte)
         /\ Len(fr) <= Commands[call].reads /\ Commands[call].reads > 0
         /\ Cells(fr, "this") \in Seq(Cell) /\ Len(Cells(fr, "this")) = Len(fr)
         /\ Cells(fr, "this") # <<>>
PROOF
<1>1. call \in DOMAIN Commands /\ call \in Calls["uart"]
  BY LinkCalls DEF StreamInv
<1>2. fr \in Seq(Byte) /\ Len(fr) >= 9
  BY <1>1, CommandsAssumption DEF View
<1>3. Len(fr) <= Commands[call].reads
  BY <1>1 DEF StreamLink
<1>4. Commands[call].reads > 0
  <2>1. PICK l \in Nat : l = Len(fr)
    BY <1>2
  <2>2. CASE call = "startPassiveTargetIDDetection"
    <3>1. Commands[call].reads = 0
      BY <2>2 DEF Commands, StartPassiveTargetIDDetection, Command
    <3>2. QED
      BY <1>2, <1>3, <2>1, <3>1
  <2>3. CASE call # "startPassiveTargetIDDetection"
    <3>1. Commands[call].reads \in Nat
      BY <1>1, <2>3, CommandsAssumption DEF Reader
    <3>2. QED
      BY <1>2, <1>3, <2>1, <3>1
  <2>4. QED
    BY <2>2, <2>3
<1>5. Cells(fr, "this") \in Seq(Cell) /\ Len(Cells(fr, "this")) = Len(fr)
  BY <1>2, CellsOfBytes
<1>6. Cells(fr, "this") # <<>>
  <2>1. CASE Cells(fr, "this") = <<>>
    <3>1. Len(Cells(fr, "this")) = 0
      BY <2>1
    <3>2. QED
      BY <1>2, <1>5, <3>1
  <2>2. QED
    BY <2>1
<1>7. QED
  BY <1>1, <1>2, <1>3, <1>4, <1>5, <1>6

LEMMA StreamWrite ==
  ASSUME StreamInv, StreamLink, NEW f \in Calls["uart"], Write(f)
  PROVE  StreamInv'
PROOF
<1>1. packet' \in [1..View -> Cell]
  BY LinkCalls, Overwritten DEF StreamInv, Write
<1>2. rx' = <<>>
  <2>1. rx = <<>> /\ rx' = Aged(rx)
    BY DEF StreamInv, Write, StreamLink, Stream
  <2>2. PICK a : a = Aged(rx)
    OBVIOUS
  <2>3. rx \in Seq(Cell) /\ Len(rx) = 0
    BY <2>1
  <2>4. a \in Seq(Cell) /\ Len(a) = 0
    BY <2>2, <2>3, AgedTyped
  <2>5. QED
    BY <2>1, <2>2, <2>4
<1>3. /\ pc' = "waitAck" /\ call' \in Calls["uart"] /\ chip' = "command"
      /\ result'.why = "none"
  BY DEF Write, NoResult
<1>4. QED
  BY <1>1, <1>2, <1>3 DEF StreamInv, AwaitingAck, OwnResponse, AckUnderstood, Truthful

LEMMA StreamBegin ==
  ASSUME StreamInv, "SAMConfig" \in Calls["uart"], Begin
  PROVE  StreamInv'
PROOF
<1>1. SAMConfig = Commands["SAMConfig"]
  BY DEF Commands
<1>2. packet' \in [1..View -> Cell]
  BY <1>1, LinkCalls, Overwritten DEF StreamInv, Begin
<1>3. /\ pc' = "waitAck" /\ call' \in Calls["uart"] /\ rx' = <<>> /\ chip' = "command"
      /\ result'.why = "none"
  BY DEF Begin, NoResult
<1>4. QED
  BY <1>2, <1>3 DEF StreamInv, AwaitingAck, OwnResponse, AckUnderstood, Truthful

(* What is behind the ACK frame is left when the ACK frame is read.        *)
LEMMA BehindAck ==
  ASSUME Stream, NEW rest \in Seq(Cell), rx = Cells(Ack, "this") \o rest, Consume(6)
  PROVE  rx' = rest
PROOF
<1>1. PICK a : a = Cells(Ack, "this")
  OBVIOUS
<1>2. a \in Seq(Cell) /\ Len(a) = 6 /\ rx = a \o rest
  BY <1>1, AckCells
<1>3. Len(rx) = 6 + Len(rest) /\ Len(rest) \in Nat
  <2>1. Len(a \o rest) = Len(a) + Len(rest)
    BY <1>2, ConcatProperties
  <2>2. QED
    BY <1>2, <2>1
<1>4. rx' = SubSeq(a \o rest, 7, 6 + Len(rest))
  BY <1>2, <1>3 DEF Consume
<1>5. CASE rest = <<>>
  <2>1. SubSeq(a \o rest, 7, 6) = <<>>
    BY SubSeqEmpty
  <2>2. QED
    BY <1>4, <1>5, <2>1
<1>6. CASE rest # <<>>
  <2>1. PICK n \in Nat : n = Len(rest) /\ n > 0
    BY <1>6
  <2>2. SubSeq(a \o rest, 7, 6 + n) = SubSeq(rest, 7 - Len(a), (6 + n) - Len(a))
    <3>1. PICK k : k = 6 + n
      OBVIOUS
    <3>2. 7 \in (Len(a) + 1)..(Len(a) + Len(rest)) /\ k \in (Len(a) + 1)..(Len(a) + Len(rest))
      BY <1>2, <2>1, <3>1
    <3>3. SubSeq(a \o rest, 7, k) = SubSeq(rest, 7 - Len(a), k - Len(a))
      BY <1>2, <3>2, SubSeqOfConcat2
    <3>4. QED
      BY <3>1, <3>3
  <2>3. 7 - Len(a) = 1 /\ (6 + n) - Len(a) = n
    BY <1>2, <2>1
  <2>4. SubSeq(rest, 1, n) = rest
    BY <2>1, SubSeqFull
  <2>5. QED
    BY <1>4, <2>1, <2>2, <2>3, <2>4
<1>7. QED
  BY <1>5, <1>6

LEMMA StreamReadAck ==
  ASSUME StreamInv, StreamLink, ReadAck
  PROVE  StreamInv'
PROOF
<1>1. rx # <<>> /\ Consume(6) /\ Stream /\ pc = "waitAck"
  BY DEF ReadAck, Consume, StreamLink, Stream
<1>2. PICK rest \in Seq(Cell) :
        /\ rx = Cells(Ack, "this") \o rest
        /\ chip \in {"acked", "idle"}
        /\ \/ rest = <<>>
           \/ /\ chip = "idle"
              /\ \E p \in Answers(call):
                   /\ rest = Cells(Frame(Commands[call].code, p), "this")
                   /\ \/ p = Commands[call].good /\ did = "good"
                      \/ p \in Commands[call].bad /\ did = "bad"
  <2>1. CASE AwaitingAck
    <3>1. rx = Cells(Ack, "this") /\ chip \in {"acked", "idle"}
      BY <1>1, <2>1 DEF AwaitingAck
    <3>2. rx = Cells(Ack, "this") \o <<>> /\ <<>> \in Seq(Cell)
      BY <3>1, AckCells, ConcatEmptySeq
    <3>3. QED
      BY <3>1, <3>2
  <2>2. CASE AnswerBehindAck
    <3>1. PICK p \in Answers(call):
            /\ rx = Cells(Ack, "this") \o Cells(Frame(Commands[call].code, p), "this")
            /\ \/ p = Commands[call].good /\ did = "good"
               \/ p \in Commands[call].bad /\ did = "bad"
      BY <2>2 DEF AnswerBehindAck
    <3>2. Cells(Frame(Commands[call].code, p), "this") \in Seq(Cell)
      BY ReadsWhole
    <3>3. QED
      BY <2>2, <3>1, <3>2 DEF AnswerBehindAck
  <2>3. QED
    BY <1>1, <2>1, <2>2 DEF StreamInv
<1>3. rx' = rest
  BY <1>1, <1>2, BehindAck
<1>4. Len(Bytes(Taken(6))) = 6 /\ IsPrefix(Bytes(Taken(6)), Ack)
  BY <1>2, AckIsTaken
<1>5. pc' = "waitResponse" /\ result' = result /\ UNCHANGED <<call, chip, did, packet, listed>>
  BY <1>4 DEF ReadAck
<1>6. result.why = "none"
  BY <1>1 DEF StreamInv
<1>7. AwaitingResponse'
  <2>1. CASE rest = <<>>
    BY <1>2, <1>3, <1>5, <2>1 DEF AwaitingResponse
  <2>2. CASE rest # <<>>
    <3>1. chip' = "idle"
      BY <1>2, <1>5, <2>2
    <3>2. PICK p \in Answers(call):
            /\ rest = Cells(Frame(Commands[call].code, p), "this")
            /\ \/ p = Commands[call].good /\ did = "good"
               \/ p \in Commands[call].bad /\ did = "bad"
      BY <1>2, <2>2
    <3>3. Answers(call)' = Answers(call)
      BY <1>5
    <3>4. ResponsePending'
      BY <1>3, <1>5, <3>2, <3>3 DEF ResponsePending
    <3>5. QED
      BY <3>1, <3>4 DEF AwaitingResponse
  <2>3. QED
    BY <2>1, <2>2
<1>8. QED
  BY <1>5, <1>6, <1>7 DEF StreamInv, OwnResponse, AckUnderstood, Truthful

LEMMA StreamTimeOut ==
  ASSUME StreamInv, StreamLink, TimeOut
  PROVE  StreamInv'
PROOF
<1>1. /\ pc' = "idle" /\ result'.why = "timeout" /\ rx' = <<>>
      /\ UNCHANGED <<call, chip, did, packet>>
  BY DEF TimeOut, Return
<1>2. chip \notin {"command", "acked"}
  BY DEF TimeOut, StreamLink
<1>3. rx = <<>> /\ Cells(Ack, "this") # <<>>
  <2>1. CASE Cells(Ack, "this") = <<>>
    <3>1. Len(Cells(Ack, "this")) = 0
      BY <2>1
    <3>2. QED
      BY <3>1, AckCells
  <2>2. QED
    BY <2>1 DEF TimeOut
<1>4. chip = "idle"
  BY <1>2 DEF StreamInv, TimeOut, AwaitingAck, AnswerBehindAck, AwaitingResponse
<1>5. QED
  BY <1>1, <1>4 DEF StreamInv, OwnResponse, AckUnderstood, Truthful

LEMMA StreamNeverLeaves ==
  ASSUME StreamInv, StreamLink, LeaveUnread
  PROVE  FALSE
PROOF
<1>1. rx # <<>> /\ AwaitingResponse /\ Commands[call].reads = 0
  BY DEF LeaveUnread, StreamInv
<1>2. PICK p \in Answers(call) : rx = Cells(Frame(Commands[call].code, p), "this")
  BY <1>1 DEF AwaitingResponse, ResponsePending
<1>3. Commands[call].reads > 0
  BY <1>2, ReadsWhole
<1>4. QED
  BY <1>1, <1>3

LEMMA StreamReads ==
  ASSUME StreamInv, StreamLink, ReadResponse \/ ReadDetectedPassiveTargetID
  PROVE  StreamInv'
PROOF
<1>1. ReadBy(Reader(call)) /\ UNCHANGED <<call, chip, did>>
  BY ReadsByReader
<1>2. rx # <<>>
  BY <1>1 DEF ReadBy, Consume
<1>3. AwaitingResponse /\ ReadResponse
  BY <1>2 DEF StreamInv, ReadResponse, ReadDetectedPassiveTargetID
<1>4. call \in DOMAIN Commands /\ packet \in [1..View -> Cell] /\ call \in Calls["uart"]
  BY LinkCalls DEF StreamInv
<1>5. /\ packet' \in [1..View -> Cell]
      /\ pc' = "idle" /\ chip' = "idle" /\ result'.why = "read"
      /\ OwnResponse' /\ AckUnderstood' /\ Truthful'
  BY <1>1, <1>3, <1>4, ReadPending
<1>6. rx' = <<>>
  <2>1. PICK p \in Answers(call) : rx = Cells(Frame(Commands[call].code, p), "this")
    BY <1>2, <1>3 DEF AwaitingResponse, ResponsePending
  <2>2. PICK n : n = Commands[call].reads
    OBVIOUS
  <2>3. PICK fr : fr = Frame(Commands[call].code, p)
    OBVIOUS
  <2>4. fr \in Seq(Byte) /\ Len(fr) <= n /\ Len(rx) = Len(fr)
    BY <2>1, <2>2, <2>3, ReadsWhole
  <2>5. n \in Nat
    <3>1. call # "startPassiveTargetIDDetection"
      BY <1>3 DEF ReadResponse, Commands, StartPassiveTargetIDDetection, Command
    <3>2. QED
      BY <1>4, <2>2, <3>1, CommandsAssumption DEF Reader
  <2>6. rx' = SubSeq(rx, n + 1, Len(rx))
    BY <1>3, <2>2 DEF ReadResponse, ReadBy, Consume, StreamLink, Stream
  <2>7. Len(rx) \in Nat /\ Len(rx) < n + 1
    BY <2>4, <2>5
  <2>8. QED
    BY <2>5, <2>6, <2>7, SubSeqEmpty
<1>7. QED
  BY <1>1, <1>4, <1>5, <1>6 DEF StreamInv

LEMMA StreamSendAck ==
  ASSUME StreamInv, StreamLink, SendAck
  PROVE  StreamInv'
PROOF
<1>1. /\ chip = "command" /\ chip' = "acked"
      /\ rx' = rx \o Cells(Ack, "this")
      /\ UNCHANGED <<pc, call, did, packet, listed, result>>
  BY DEF SendAck, Deliver
<1>2. pc = "waitAck" /\ rx = <<>>
  BY <1>1 DEF StreamInv, AwaitingAck, AnswerBehindAck, AwaitingResponse
<1>3. rx' = Cells(Ack, "this")
  BY <1>1, <1>2, AckCells, ConcatEmptySeq
<1>4. QED
  BY <1>1, <1>2, <1>3
  DEF StreamInv, AwaitingAck, OwnResponse, AckUnderstood, Truthful

LEMMA StreamRespond ==
  ASSUME StreamInv, StreamLink, NEW outcome, NEW p \in Answers(call), Respond(outcome, p),
         \/ p = Commands[call].good /\ outcome = "good"
         \/ p \in Commands[call].bad /\ outcome = "bad"
  PROVE  StreamInv'
PROOF
<1>1. PICK c : c = Cells(Frame(Commands[call].code, p), "this")
  OBVIOUS
<1>2. /\ chip = "acked" /\ chip' = "idle" /\ did' = outcome
      /\ rx' = rx \o c
      /\ UNCHANGED <<pc, call, packet, listed, result>>
  BY <1>1 DEF Respond, Deliver
<1>3. c \in Seq(Cell)
  BY <1>1, ReadsWhole
<1>4. Answers(call)' = Answers(call)
  BY <1>2
<1>5. pc # "idle" /\ result.why = "none"
  BY <1>2 DEF StreamInv
<1>6. CASE pc = "waitAck"
  <2>1. rx = Cells(Ack, "this")
    BY <1>2, <1>6 DEF StreamInv, AwaitingAck, AnswerBehindAck
  <2>2. AnswerBehindAck'
    BY <1>1, <1>2, <1>4, <2>1 DEF AnswerBehindAck
  <2>3. QED
    BY <1>2, <1>5, <1>6, <2>2 DEF StreamInv, OwnResponse, AckUnderstood, Truthful
<1>7. CASE pc = "waitResponse"
  <2>1. rx = <<>>
    BY <1>2, <1>7 DEF StreamInv, AwaitingResponse
  <2>2. rx' = c
    BY <1>2, <1>3, <2>1, ConcatEmptySeq
  <2>3. ResponsePending'
    BY <1>1, <1>2, <1>4, <2>2 DEF ResponsePending
  <2>4. AwaitingResponse'
    BY <1>2, <2>3 DEF AwaitingResponse
  <2>5. QED
    BY <1>2, <1>5, <1>7, <2>4 DEF StreamInv, OwnResponse, AckUnderstood, Truthful
<1>8. QED
  BY <1>5, <1>6, <1>7 DEF StreamInv

LEMMA StreamSaysNothing ==
  ASSUME StreamInv, SaysNothing
  PROVE  StreamInv'
PROOF
<1>1. /\ chip # "idle" /\ chip' = "idle"
      /\ UNCHANGED <<pc, call, rx, did, packet, listed, result>>
  BY DEF SaysNothing
<1>2. AwaitingAck => AwaitingAck'
  BY <1>1 DEF AwaitingAck
<1>3. AwaitingResponse => AwaitingResponse'
  BY <1>1 DEF AwaitingResponse, ResponsePending
<1>4. ~AnswerBehindAck
  BY <1>1 DEF AnswerBehindAck
<1>5. QED
  BY <1>1, <1>2, <1>3, <1>4 DEF StreamInv, OwnResponse, AckUnderstood, Truthful

LEMMA StreamStep ==
  ASSUME StreamInv, StreamLink, Step
  PROVE  StreamInv'
PROOF
<1>0. bus = "uart"
  BY DEF StreamLink
<1>1. CASE "SAMConfig" \in Calls[bus] /\ Begin
  BY <1>0, <1>1, StreamBegin
<1>2. ASSUME NEW f \in Calls[bus], Write(f) PROVE StreamInv'
  BY <1>0, <1>2, StreamWrite
<1>3. CASE Host
  BY <1>3, StreamReadAck, StreamTimeOut, StreamNeverLeaves, StreamReads DEF Host
<1>4. CASE ReadDetectedPassiveTargetID
  BY <1>4, StreamReads
<1>5. CASE SendAck \/ SaysNothing
  BY <1>5, StreamSendAck, StreamSaysNothing
<1>6. CASE RespondGood
  BY <1>6, StreamRespond DEF RespondGood, Answers
<1>7. CASE RespondBad
  BY <1>7, StreamRespond DEF RespondBad, Answers
<1>8. QED
  BY <1>1, <1>2, <1>3, <1>4, <1>5, <1>6, <1>7 DEF Step, Chip

LEMMA StreamStutter ==
  ASSUME StreamInv, UNCHANGED vars
  PROVE  StreamInv'
PROOF
<1>1. UNCHANGED <<pc, call, rx, chip, did, packet, result>>
  BY DEF vars
<1>2. AwaitingAck' = AwaitingAck /\ AwaitingResponse' = AwaitingResponse
  BY <1>1 DEF AwaitingAck, AwaitingResponse, ResponsePending
<1>3. AnswerBehindAck' = AnswerBehindAck
  BY <1>1 DEF AnswerBehindAck
<1>4. QED
  BY <1>1, <1>2, <1>3 DEF StreamInv, OwnResponse, AckUnderstood, Truthful

---------------------------------------------------------------------------
(* The theorems.  Linked: a frame bus, or a UART whose answers are read    *)
(* whole and in time.                                                      *)
Linked == FrameLink \/ StreamLink

LEMMA NextInv ==
  ASSUME IInv, [Next]_vars
  PROVE  IInv'
PROOF
<1>1. bus' = bus
  BY DEF Next, vars
<1>2. (FrameLink' => FrameLink) /\ (StreamLink' => StreamLink)
  BY <1>1 DEF FrameLink, StreamLink
<1>3. FrameLink => FrameInv'
  BY StepInv, StutterInv DEF IInv, Next
<1>4. StreamLink => StreamInv'
  BY StreamStep, StreamStutter DEF IInv, Next
<1>5. QED
  BY <1>2, <1>3, <1>4 DEF IInv

(* On I2C and SPI, and on a UART whose answers are read whole and in time, *)
(* the inductive invariant holds, whatever functions are called, in        *)
(* whatever order, and whether or not the chip answers.                    *)
THEOREM LinkInvariant == Spec => []IInv
PROOF
<1>1. Init => IInv
  BY InitInv, StreamInit DEF IInv
<1>2. IInv /\ [Next]_vars => IInv'
  BY NextInv
<1>3. QED
  BY <1>1, <1>2, PTL DEF Spec

(* A function takes only the response to its own command for that          *)
(* response, although all functions share one buffer, and on I2C and SPI   *)
(* responses may be left unread and waits may give up before the chip      *)
(* answers.                                                                *)
THEOREM LinkOwnResponse == Spec => [](Linked => OwnResponse)
PROOF
<1>1. IInv => (Linked => OwnResponse)
  BY DEF IInv, FrameInv, StreamInv, Linked
<1>2. QED
  BY <1>1, LinkInvariant, PTL

(* sendCommandCheckAck fails only because a wait gave up.                  *)
THEOREM LinkAckUnderstood == Spec => [](Linked => AckUnderstood)
PROOF
<1>1. IInv => (Linked => AckUnderstood)
  BY DEF IInv, FrameInv, StreamInv, Linked
<1>2. QED
  BY <1>1, LinkInvariant, PTL

(* A function that looks at the answer returns success exactly when the    *)
(* chip reported success.                                                  *)
THEOREM LinkTruthful == Spec => [](Linked => Truthful)
PROOF
<1>1. IInv => (Linked => Truthful)
  BY DEF IInv, FrameInv, StreamInv, Linked
<1>2. QED
  BY <1>1, LinkInvariant, PTL

(* On a UART whose answers are read whole and in time, no call leaves a    *)
(* byte for the next one, not even one that failed or gave up.             *)
THEOREM StreamNothingLeft == Spec => [](StreamLink => NothingLeft)
PROOF
<1>1. IInv => (StreamLink => NothingLeft)
  BY DEF IInv, StreamInv, NothingLeft
<1>2. QED
  BY <1>1, LinkInvariant, PTL

(* No other command of the table is InListPassiveTarget.                   *)
LEMMA OnlyOneLists ==
  ASSUME NEW f \in DOMAIN Commands, Reader(f) = InListPassiveTarget
  PROVE  f = "inListPassiveTarget"
PROOF
<1>1. InListPassiveTarget.code = 74 /\ InListPassiveTarget.reads = 64
  BY DEF InListPassiveTarget, Command
<1>2. ReadPassiveTargetID.reads = 20
  BY DEF ReadPassiveTargetID, Command
<1>3. Commands[f].code = 74 /\ Commands[f].reads = 64
  BY <1>1, <1>2 DEF Reader
<1>4. f \notin {"getFirmwareVersion", "writeGPIO", "readGPIO", "SAMConfig",
                "setPassiveActivationRetries", "readPassiveTargetID",
                "startPassiveTargetIDDetection"}
  BY <1>3, SMTT(40) DEF Commands, Command, GetFirmwareVersion, WriteGPIO, ReadGPIO, SAMConfig,
     SetPassiveActivationRetries, ReadPassiveTargetID, StartPassiveTargetIDDetection
<1>5. f \notin {"inDataExchange", "transceive", "AsTarget", "getDataTarget", "setDataTarget"}
  <2>1. InDataExchange.code = 64 /\ AdapterTransceive.code = 64
    BY DEF Command, InDataExchange, AdapterTransceive
  <2>2. AsTarget.reads = 8 /\ SetDataTarget.reads = 8 /\ GetDataTarget.code = 134
    BY DEF Command, AsTarget, SetDataTarget, GetDataTarget
  <2>3. QED
    BY <1>3, <2>1, <2>2 DEF Commands
<1>6. f \notin {"mifareclassic_AuthenticateBlock", "mifareclassic_ReadDataBlock",
                "mifareclassic_WriteDataBlock", "mifareultralight_ReadPage",
                "mifareultralight_WritePage", "ntag2xx_ReadPage", "ntag2xx_WritePage"}
  BY <1>3 DEF Commands, Command, ClassicAuthenticateBlock, ClassicReadDataBlock,
     ClassicWriteDataBlock, UltralightReadPage, UltralightWritePage, Ntag2xxReadPage,
     Ntag2xxWritePage
<1>7. QED
  BY <1>4, <1>5, <1>6 DEF Commands

(* _inListedTag is written by the functions that read a response, and only *)
(* from an answer that inListPassiveTarget accepts.                        *)
LEMMA ListedByReads ==
  ASSUME Linked, IInv, [Next]_vars, listed' # listed
  PROVE  call = "inListPassiveTarget" /\ did = "good" /\ result'.ok /\ result'.own
PROOF
<1>1. ReadResponse \/ ReadDetectedPassiveTargetID
  BY DEF Next, vars, Step, Host, Chip, Begin, Write, ReadAck, TimeOut, LeaveUnread,
     SendAck, RespondGood, RespondBad, Respond, SaysNothing
<1>2. ReadBy(Reader(call)) /\ UNCHANGED <<call, chip, did>>
  BY <1>1, ReadsByReader
<1>3. Reader(call) = InListPassiveTarget /\ result'.ok /\ result'.why = "read"
  BY <1>2 DEF ReadBy, Return
<1>4. call = "inListPassiveTarget"
  <2>1. call \in DOMAIN Commands
    BY LinkCalls DEF Linked, IInv, FrameInv, StreamInv
  <2>2. QED
    BY <1>3, <2>1, OnlyOneLists
<1>5. Linked'
  BY DEF Linked, Next, vars, FrameLink, StreamLink
<1>6. OwnResponse' /\ Truthful'
  BY <1>5, NextInv DEF Linked, IInv, FrameInv, StreamInv
<1>7. result'.own /\ did' = "good"
  BY <1>2, <1>3, <1>4, <1>6 DEF OwnResponse, Truthful, Writers, Emulators
<1>8. QED
  BY <1>2, <1>3, <1>4, <1>7

(* _inListedTag changes only when inListPassiveTarget returns true on the  *)
(* chip's own report of a target.                                          *)
THEOREM LinkListedOnReport == Spec /\ Linked => ListedOnReport
PROOF
<1>1. Linked /\ [Next]_vars => Linked'
  BY DEF Linked, Next, vars, FrameLink, StreamLink
<1>2. Linked /\ IInv /\ [Next]_vars =>
        [listed' # listed =>
           call = "inListPassiveTarget" /\ did = "good" /\ result'.ok /\ result'.own]_vars
  BY ListedByReads
<1>3. QED
  BY <1>1, <1>2, LinkInvariant, PTL DEF Spec, ListedOnReport
===========================================================================
