---------------------------- MODULE Ntag424Files ----------------------------
(***************************************************************************)
(* The functions of ntag424_core.cpp that read and write the NDEF file in  *)
(* pieces, one exchange at a time, over a link that may lose an exchange:  *)
(* FormatNDEF, ISOUpdateBinary, ReadNDEFMessage and ISOReadFile, with the  *)
(* widths of their integers.  The tag's file is external.                  *)
(***************************************************************************)
EXTENDS Buffers

CONSTANTS
  FileSize,   (* bytes of the NDEF file                                    *)
  Contents,   (* what the file may hold at first: sequences of that length *)
  Datas,      (* what the application writes with ISOUpdateBinary          *)
  MaxSizes,   (* the sizes of the buffers it reads into                    *)
  MaxCalls,   (* bound: calls of a program                                 *)
  MaxFaults   (* bound: lost exchanges                                     *)

ASSUME FilesAssumption ==
  /\ FileSize \in Nat /\ FileSize >= 255
  /\ Contents \subseteq Seq(Nat) /\ \A c \in Contents: Len(c) = FileSize
  /\ Datas \subseteq Seq(Nat) /\ \A d \in Datas: Len(d) \in 0..255
  /\ MaxSizes \subseteq Nat

VARIABLES
  file,     (* the NDEF file of the tag                                    *)
  before,   (* history: the file when the last call began                  *)
  buffer,   (* what the call in progress has stored for its caller         *)
  op,       (* the call in progress                                        *)
  done,     (* history: the last call and its result                       *)
  calls, faults, faulted   (* history: calls begun, exchanges lost, and    *)
                           (* whether the last call lost one               *)

vars == <<file, before, buffer, op, done, calls, faults, faulted>>

Idle    == [fn |-> "none"]
NotDone == [op |-> Idle, ret |-> 0]

(* The bytes n, n+1, ... of the file as ISO READ BINARY gives them, or     *)
(* nothing: le = 0 asks for the rest of the file, a read past its end is   *)
(* refused, and a response with its status has to fit the buffer.          *)
Binary(n, le, room) ==
  LET data == SubSeq(file, n + 1, IF le = 0 THEN FileSize ELSE n + le)
  IN IF n + le <= FileSize /\ Len(data) + 2 <= room THEN data ELSE <<>>

Init ==
  /\ file \in Contents
  /\ before = file
  /\ buffer = <<>>
  /\ op = Idle
  /\ done = NotDone
  /\ calls = 0 /\ faults = 0 /\ faulted = FALSE

---------------------------------------------------------------------------
Begin ==
  /\ op = Idle
  /\ calls < MaxCalls
  /\ calls' = calls + 1
  /\ before' = file
  /\ buffer' = <<>>
  /\ done' = NotDone
  /\ faulted' = FALSE
  /\ UNCHANGED <<file, faults>>

Return(ret) ==
  /\ op' = Idle
  /\ done' = [op |-> op, ret |-> ret]

Continue(next) == op' = next /\ UNCHANGED done

Lose ==
  /\ faults < MaxFaults
  /\ faults' = faults + 1
  /\ faulted' = TRUE
Keep == UNCHANGED <<faults, faulted>>

(* One exchange that writes: a lost one may have been carried out.         *)
Write(at, data) == file' = Copy(file, at, data) /\ Keep
LoseWrite(at, data) == Lose /\ file' \in {file, Copy(file, at, data)}

---------------------------------------------------------------------------
(* ntag424_FormatNDEF: writes of zeros, offset an uint8_t.                 *)
memsize == 248
FormatChunk64 == 64   (* Mutant: a chunk whose multiples miss 248..255.    *)
FormatChunk == 47
(* Mutant: the last chunk is not cut.                                      *)
FormatLengthUncut(offset) == FormatChunk
FormatLength(offset) ==
  IF offset + FormatChunk > memsize THEN memsize - offset ELSE FormatChunk

(* Mutant: the result is that of the last write.                           *)
FormattedLast(ok, status) == status
Formatted(ok, status) == ok /\ status

CallFormatNDEF == Begin /\ op' = [fn |-> "format", offset |-> 0, ok |-> TRUE]

FormatWrite(status) ==
  LET zeros == Zeros(FormatLength(op.offset))
      offset == U8(op.offset + FormatChunk)
      ok == Formatted(op.ok, status)
  IN /\ IF status THEN Write(op.offset, zeros) ELSE LoseWrite(op.offset, zeros)
     /\ IF offset < memsize THEN Continue([op EXCEPT !.offset = offset, !.ok = ok])
        ELSE Return(IF ok THEN 1 ELSE 0)

FormatNDEF ==
  /\ op.fn = "format"
  /\ \E status \in BOOLEAN: FormatWrite(status)
  /\ UNCHANGED <<before, buffer, calls>>

---------------------------------------------------------------------------
(* ntag424_ISOUpdateBinary: kIsoUpdateBinaryChunkSize bytes at a time.     *)
UpdateChunk == 25

CallISOUpdateBinary(data) ==
  /\ Begin
  /\ op' = [fn |-> "update", data |-> data, i |-> 0, offset |-> 0, datalen |-> UpdateChunk]

Datalen(o) ==
  IF o.offset + o.datalen > Len(o.data) THEN U8(Len(o.data) - o.offset) ELSE o.datalen
Piece(o) == SubSeq(o.data, o.offset + 1, o.offset + Datalen(o))
Advanced(o) ==
  [o EXCEPT !.datalen = Datalen(o), !.offset = U8(@ + Datalen(o)), !.i = @ + Datalen(o)]

UpdateDone ==
  /\ op.i >= Len(op.data)
  /\ Return(1)
  /\ Keep /\ UNCHANGED file

(* Mutant: a chunk that failed is left out.                                *)
UpdateLostOn ==
  /\ op.i < Len(op.data)
  /\ LoseWrite(op.offset, Piece(op))
  /\ Continue(Advanced(op))
UpdateLost ==
  /\ op.i < Len(op.data)
  /\ LoseWrite(op.offset, Piece(op))
  /\ Return(0)

UpdateChunkWritten ==
  /\ op.i < Len(op.data)
  /\ Write(op.offset, Piece(op))
  /\ Continue(Advanced(op))

ISOUpdateBinary ==
  /\ op.fn = "update"
  /\ UpdateDone \/ UpdateLost \/ UpdateChunkWritten
  /\ UNCHANGED <<before, buffer, calls>>

---------------------------------------------------------------------------
(* ntag424_ReadNDEFMessage: NLEN, then 48 bytes at a time.                 *)
CallReadNDEFMessage(maxsize) ==
  Begin /\ op' = [fn |-> "read", step |-> "nlen", maxsize |-> maxsize]

ReadChunk60 == 60   (* Mutant: more than the page's buffer takes.          *)
ReadChunk == 48
ReadRoom  == 56
(* Mutant: the two bytes of NLEN are read as part of the message.          *)
MessageOffsetNone(o) == o.total_read
MessageOffset(o) == 2 + o.total_read
ChunkOf(o) == Smaller(U8(o.total_to_read - o.total_read), ReadChunk)

NLen(f) == U8(f[1]) * 256 + U8(f[2])

ReadNLen ==
  LET nlen == NLen(Binary(0, 2, 8))
  IN /\ op.step = "nlen"
     /\ IF op.maxsize = 0 THEN Return(-1)
        ELSE IF nlen = 0 THEN Return(0)
        ELSE Continue([fn |-> "read", step |-> "data", maxsize |-> op.maxsize,
                       total_to_read |-> Smaller(nlen, op.maxsize), total_read |-> 0])
     /\ Keep /\ UNCHANGED buffer

ReadData ==
  LET data == Binary(MessageOffset(op), ChunkOf(op), ReadRoom)
      total_read == op.total_read + Len(data)
  IN /\ op.step = "data"
     /\ IF data = <<>> THEN Return(-1) /\ UNCHANGED buffer
        ELSE /\ buffer' = Copy(buffer, op.total_read, data)
             /\ IF total_read < op.total_to_read
                THEN Continue([op EXCEPT !.total_read = total_read])
                ELSE Return(total_read)
     /\ Keep

(* One of the SELECTs or READ BINARYs is lost.                             *)
ReadLost == Lose /\ Return(-1) /\ UNCHANGED buffer

ReadNDEFMessage ==
  /\ op.fn = "read"
  /\ ReadNLen \/ ReadData \/ ReadLost
  /\ UNCHANGED <<file, before, calls>>

---------------------------------------------------------------------------
(* ntag424_ISOReadFile: the file's size from one byte of it, then pages of *)
(* 32 bytes; C's division goes towards zero.                               *)
CallISOReadFile(maxsize) ==
  Begin /\ op' = [fn |-> "readfile", step |-> "size", maxsize |-> maxsize]

Quotient(n, d) == IF n >= 0 THEN n \div d ELSE -((-n) \div d)
PageRoom == 64

ReadSize ==
  LET filesize == U8(Binary(0, 3, 8)[2]) - 5
  IN /\ op.step = "size"
     /\ Continue([fn |-> "readfile", step |-> "page", maxsize |-> op.maxsize,
                  filesize |-> filesize, pagesize |-> 32, i |-> 0,
                  pages |-> U8(Quotient(filesize, 32) + 1)])
     /\ Keep /\ UNCHANGED buffer

PageOffset(o) == U8(o.i * o.pagesize)
LastPage(o) ==
  LET offset == PageOffset(o)
  IN IF offset + o.pagesize > o.filesize THEN U8(o.filesize - offset) ELSE o.pagesize
EarlyOut(o) == PageOffset(o) + LastPage(o) > o.maxsize
PageSize(o) == IF EarlyOut(o) THEN U8(o.maxsize - PageOffset(o)) ELSE LastPage(o)
FileSizeOf(o) == IF EarlyOut(o) THEN o.maxsize ELSE o.filesize
(* Mutant: the header in front of the data is read as data.                *)
FirstByteNone == 0
FirstByte == 7

(* The page's buffer is cleared before the page is read into it.           *)
Page(data, n) == [i \in 1..n |-> IF i <= Len(data) THEN data[i] ELSE 0]

ReadPage ==
  LET n == PageSize(op)
      data == Binary(U8(FirstByte + PageOffset(op)), n, PageRoom)
      next == [op EXCEPT !.i = @ + 1, !.pagesize = n, !.filesize = FileSizeOf(op)]
  IN /\ op.step = "page"
     /\ IF data = <<>> THEN Return(0) /\ UNCHANGED buffer
        ELSE /\ buffer' = Copy(buffer, PageOffset(op), Page(data, n))
             /\ IF ~EarlyOut(op) /\ next.i < op.pages THEN Continue(next)
                ELSE Return(U8(FileSizeOf(op)))
     /\ Keep

PageLost == Lose /\ Return(0) /\ UNCHANGED buffer

ISOReadFile ==
  /\ op.fn = "readfile"
  /\ ReadSize \/ ReadPage \/ PageLost
  /\ UNCHANGED <<file, before, calls>>

---------------------------------------------------------------------------
Steps == FormatNDEF \/ ISOUpdateBinary \/ ReadNDEFMessage \/ ISOReadFile
Next ==
  \/ CallFormatNDEF
  \/ \E data \in Datas: CallISOUpdateBinary(data)
  \/ \E maxsize \in MaxSizes: CallReadNDEFMessage(maxsize)
  \/ \E maxsize \in MaxSizes: CallISOReadFile(maxsize)
  \/ Steps

Spec == Init /\ [][Next]_vars

---------------------------------------------------------------------------
Byte == 0..255
FormatOp == [fn: {"format"}, offset: 0..(memsize - 1), ok: BOOLEAN]
UpdateOp == [fn: {"update"}, data: Datas, i: Byte, offset: Byte, datalen: 0..UpdateChunk]
NLenOp   == [fn: {"read"}, step: {"nlen"}, maxsize: MaxSizes]
DataOp   == [fn: {"read"}, step: {"data"}, maxsize: MaxSizes,
             total_to_read: Nat, total_read: Nat]
SizeOp   == [fn: {"readfile"}, step: {"size"}, maxsize: MaxSizes]
PageOp   == [fn: {"readfile"}, step: {"page"}, maxsize: MaxSizes, filesize: Int,
             pagesize: Byte, i: Byte, pages: Byte]
Ops == {Idle} \cup FormatOp \cup UpdateOp \cup NLenOp \cup DataOp \cup SizeOp \cup PageOp

TypeOK ==
  /\ file \in Seq(Nat) /\ Len(file) = FileSize
  /\ before \in Seq(Nat) /\ Len(before) = FileSize
  /\ buffer \in Seq(Nat)
  /\ op \in Ops
  /\ done \in [op: Ops, ret: Int]
  /\ op # Idle => done = NotDone

Returned(fn) == done.op.fn = fn

(* f is the first k bytes of data, and what was there before.              *)
Prefixed(f, data, k, was) ==
  \A i \in 1..FileSize: f[i] = IF i <= k THEN data[i] ELSE was[i]

(* At every moment of ISOUpdateBinary, and when it has returned, the file  *)
(* holds a prefix of the data over what it held before: no piece is left   *)
(* out or misplaced, although any exchange may be lost, with or without    *)
(* its effect; all of the data when it returns true.                       *)
WrittenPrefix ==
  /\ op.fn = "update" => Prefixed(file, op.data, op.offset, before)
  /\ Returned("update") =>
       \E k \in 0..Len(done.op.data):
         /\ Prefixed(file, done.op.data, k, before)
         /\ done.ret = 1 => k = Len(done.op.data)

(* FormatNDEF returns true only when the whole area of 248 bytes is zero,  *)
(* and writes nothing after it, although its offset wraps several times.   *)
FormatErases ==
  /\ Returned("format") /\ done.ret = 1 => \A i \in 1..memsize: file[i] = 0
  /\ op.fn = "format" \/ Returned("format") =>
       \A i \in (memsize + 1)..FileSize: file[i] = before[i]

(* ReadNDEFMessage returns the length the file gives, or its maxsize if    *)
(* that is less, and that much of the message; it never stores more.       *)
ReadsMessage ==
  /\ op.fn = "read" => Len(buffer) <= op.maxsize
  /\ Returned("read") /\ done.ret > 0 =>
       /\ done.ret = Smaller(NLen(file), done.op.maxsize)
       /\ buffer = SubSeq(file, 3, 2 + done.ret)

(* ISOReadFile, for a file whose size byte counts its header, returns the  *)
(* size, or its maxsize, and that much of the data behind the header.      *)
ReadsFile ==
  Returned("readfile") /\ done.ret > 0 /\ U8(file[2]) >= 5 =>
    /\ done.ret = Smaller(U8(file[2]) - 5, done.op.maxsize)
    /\ buffer = SubSeq(file, 8, 7 + done.ret)

(* When no exchange is lost, a call succeeds: reads, for a message that    *)
(* fits the file; ISOReadFile, unless what it has to read is a multiple of *)
(* the page size, for then its last page asks with Le = 0 for the rest of  *)
(* the file.                                                               *)
Completes ==
  ~faulted =>
    /\ Returned("format") \/ Returned("update") => done.ret = 1
    /\ Returned("read") /\ done.op.maxsize > 0 /\ NLen(file) <= FileSize - 2 =>
         done.ret >= 0
    /\ Returned("readfile") /\ U8(file[2]) \in 6..(FileSize - 2)
       /\ Smaller(U8(file[2]) - 5, done.op.maxsize) % 32 # 0 =>
         done.ret > 0

---------------------------------------------------------------------------
(* The inductive invariant: what a call in progress has done so far.       *)

(* FormatNDEF's first round erases everything; 26, 73, ... follow 235.     *)
FirstRound == {0, 47, 94, 141, 188, 235}
FormatSoFar ==
  op.fn = "format" /\ op.ok =>
    \A i \in 1..(IF op.offset \in FirstRound THEN op.offset ELSE memsize): file[i] = 0

UpdateSoFar == op.fn = "update" => op.i = op.offset /\ op.offset <= Len(op.data)

ReadSoFar ==
  op.fn = "read" =>
    IF op.step = "nlen" THEN buffer = <<>>
    ELSE /\ op.total_to_read = Smaller(NLen(file), op.maxsize)
         /\ op.total_read < op.total_to_read
         /\ Len(buffer) = op.total_read
         /\ \A i \in 1..op.total_read: buffer[i] = file[i + 2]
         /\ 2 + op.total_read <= FileSize

IInv ==
  /\ TypeOK
  /\ FormatSoFar /\ UpdateSoFar /\ ReadSoFar
  /\ WrittenPrefix /\ FormatErases /\ ReadsMessage
===========================================================================
