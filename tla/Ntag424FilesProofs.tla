-------------------------- MODULE Ntag424FilesProofs ------------------------
(***************************************************************************)
(* Proofs about Ntag424Files: for every file, every data of up to 255      *)
(* bytes, every buffer size and any number of calls and lost exchanges.    *)
(***************************************************************************)
EXTENDS TagMemory, BuffersProofs, TLAPS

---------------------------------------------------------------------------
(* Integers.                                                               *)

LEMMA U8Byte == \A n \in Int: U8(n) \in Byte
PROOF BY DEF U8, Byte

LEMMA U8Small == \A n \in Byte: U8(n) = n
PROOF BY DEF U8, Byte

LEMMA FileSizes == FileSize \in Nat /\ FileSize >= 255
PROOF BY FilesAssumption, Zenon

LEMMA Sizes == MaxSizes \subseteq Nat
PROOF BY FilesAssumption, Zenon

LEMMA Files == \A c \in Contents: c \in Seq(Nat) /\ Len(c) = FileSize
PROOF BY FilesAssumption, Zenon

LEMMA Writes == \A d \in Datas: d \in Seq(Nat) /\ Len(d) \in 0..255
PROOF BY FilesAssumption, Zenon

(* The same within the file.                                               *)
Overwritten(c, f, at, data) ==
  /\ c \in Seq(Nat) /\ Len(c) = FileSize
  /\ \A i \in 1..FileSize: c[i] = IF i > at /\ i <= at + Len(data)
                                 THEN data[i - at] ELSE f[i]

LEMMA CopiedInto ==
  ASSUME NEW f \in Seq(Nat), Len(f) = FileSize, NEW data \in Seq(Nat),
         NEW at \in Nat, at + Len(data) <= FileSize,
         NEW c, c = Copy(f, at, data)
  PROVE  Overwritten(c, f, at, data)
PROOF
<1>1. Len(data) \in Nat /\ FileSize \in Nat
  BY FileSizes
<1>2. at <= Len(f)
  BY <1>1
<1>3. CopyOf(c, f, at, data)
  BY <1>2, Copied
<1>4. Len(c) = FileSize
  BY <1>1, <1>3 DEF CopyOf
<1>5. QED
  BY <1>3, <1>4 DEF CopyOf, Overwritten

---------------------------------------------------------------------------
(* The invariant.                                                          *)

LEMMA InitInv == ASSUME Init PROVE IInv
PROOF
<1>1. /\ file \in Seq(Nat) /\ Len(file) = FileSize /\ before = file
      /\ buffer = <<>> /\ op = Idle /\ done = NotDone
  BY Files DEF Init
<1>2. op \in Ops /\ done \in [op: Ops, ret: Int]
  BY <1>1 DEF Ops, NotDone
<1>3. TypeOK
  BY <1>1, <1>2 DEF TypeOK
<1>4. op.fn = "none" /\ done.op.fn = "none"
  BY <1>1 DEF Idle, NotDone
<1>5. QED
  BY <1>3, <1>4 DEF IInv, FormatSoFar, UpdateSoFar, ReadSoFar, WrittenPrefix,
                    FormatErases, ReadsMessage, Returned

(* The operations by name.                                                 *)
LEMMA OpNames ==
  ASSUME NEW o \in Ops
  PROVE  /\ o.fn = "none" => o = Idle
         /\ o.fn = "format" => o \in FormatOp
         /\ o.fn = "update" => o \in UpdateOp
         /\ o.fn = "read" => \/ o \in NLenOp /\ o.step = "nlen"
                             \/ o \in DataOp /\ o.step = "data"
         /\ o.fn = "readfile" => \/ o \in SizeOp /\ o.step = "size"
                                 \/ o \in PageOp /\ o.step = "page"
PROOF
<1>1. Idle.fn = "none"
  BY DEF Idle
<1>2. o \in FormatOp => o.fn = "format"
  BY DEF FormatOp
<1>3. o \in UpdateOp => o.fn = "update"
  BY DEF UpdateOp
<1>4. /\ o \in NLenOp => o.fn = "read" /\ o.step = "nlen"
      /\ o \in DataOp => o.fn = "read" /\ o.step = "data"
  BY DEF NLenOp, DataOp
<1>5. /\ o \in SizeOp => o.fn = "readfile" /\ o.step = "size"
      /\ o \in PageOp => o.fn = "readfile" /\ o.step = "page"
  BY DEF SizeOp, PageOp
<1>6. \/ o = Idle \/ o \in FormatOp \/ o \in UpdateOp
      \/ o \in NLenOp \/ o \in DataOp \/ o \in SizeOp \/ o \in PageOp
  BY DEF Ops
<1>7. QED
  BY <1>1, <1>2, <1>3, <1>4, <1>5, <1>6

(* What every call begins with.                                            *)
LEMMA BeginInv ==
  ASSUME IInv, Begin, op' \in Ops,
         op'.fn = "format" => op'.offset = 0,
         op'.fn = "update" => op'.i = 0 /\ op'.offset = 0,
         op'.fn = "read" => op'.step = "nlen"
  PROVE  IInv'
PROOF
<1>1. /\ file' = file /\ before' = file /\ buffer' = <<>> /\ done' = NotDone
      /\ file \in Seq(Nat) /\ Len(file) = FileSize
  BY DEF IInv, TypeOK, Begin
<1>2. done' \in [op: Ops, ret: Int] /\ done'.op.fn = "none"
  BY <1>1 DEF NotDone, Ops, Idle
<1>3. TypeOK'
  BY <1>1, <1>2 DEF TypeOK
<1>4. FormatSoFar'
  BY DEF FormatSoFar, FirstRound
<1>5. UpdateSoFar'
  <2>1. op'.fn = "update" => op' \in UpdateOp
    BY OpNames
  <2>2. op'.fn = "update" => Len(op'.data) \in Nat
    BY <2>1, Writes DEF UpdateOp
  <2>3. QED
    BY <2>2 DEF UpdateSoFar
<1>6. ReadSoFar'
  BY <1>1 DEF ReadSoFar
<1>7. WrittenPrefix'
  <2>1. \A i \in 1..FileSize: ~(i <= 0)
    BY FileSizes
  <2>2. op'.fn = "update" => Prefixed(file, op.data, op.offset, before)'
    BY <1>1, <2>1 DEF Prefixed
  <2>3. QED
    BY <1>2, <2>2 DEF WrittenPrefix, Returned
<1>8. FormatErases'
  BY <1>1, <1>2 DEF FormatErases, Returned
<1>9. ReadsMessage'
  <2>1. op'.fn = "read" => op'.maxsize \in Nat
    <3>1. op'.fn = "read" => op' \in NLenOp
      BY OpNames
    <3>2. op' \in NLenOp => op'.maxsize \in MaxSizes
      BY DEF NLenOp
    <3>3. MaxSizes \subseteq Nat
      BY Sizes
    <3>4. QED
      BY <3>1, <3>2, <3>3
  <2>2. Len(buffer') = 0
    BY <1>1
  <2>3. QED
    BY <1>2, <2>1, <2>2 DEF ReadsMessage, Returned
<1>10. QED
  BY <1>3, <1>4, <1>5, <1>6, <1>7, <1>8, <1>9 DEF IInv

LEMMA CallsInv ==
  ASSUME IInv,
         \/ CallFormatNDEF
         \/ \E data \in Datas: CallISOUpdateBinary(data)
         \/ \E maxsize \in MaxSizes: CallReadNDEFMessage(maxsize)
         \/ \E maxsize \in MaxSizes: CallISOReadFile(maxsize)
  PROVE  IInv'
PROOF
<1>1. CASE CallFormatNDEF
  <2>1. op' = [fn |-> "format", offset |-> 0, ok |-> TRUE]
    BY <1>1 DEF CallFormatNDEF
  <2>2. op' \in FormatOp
    BY <2>1 DEF FormatOp, memsize
  <2>3. Begin /\ op' \in Ops
    BY <1>1, <2>2 DEF CallFormatNDEF, Ops
  <2>4. QED
    BY <2>1, <2>3, BeginInv
<1>2. ASSUME NEW data \in Datas, CallISOUpdateBinary(data) PROVE IInv'
  <2>1. op' = [fn |-> "update", data |-> data, i |-> 0, offset |-> 0,
               datalen |-> UpdateChunk]
    BY <1>2 DEF CallISOUpdateBinary
  <2>2. op' \in UpdateOp
    BY <2>1 DEF UpdateOp, Byte, UpdateChunk
  <2>3. Begin /\ op' \in Ops
    BY <1>2, <2>2 DEF CallISOUpdateBinary, Ops
  <2>4. QED
    BY <2>1, <2>3, BeginInv
<1>3. ASSUME NEW maxsize \in MaxSizes, CallReadNDEFMessage(maxsize) PROVE IInv'
  <2>1. op' = [fn |-> "read", step |-> "nlen", maxsize |-> maxsize]
    BY <1>3 DEF CallReadNDEFMessage
  <2>2. op' \in NLenOp
    BY <2>1 DEF NLenOp
  <2>3. Begin /\ op' \in Ops
    BY <1>3, <2>2 DEF CallReadNDEFMessage, Ops
  <2>4. QED
    BY <2>1, <2>3, BeginInv
<1>4. ASSUME NEW maxsize \in MaxSizes, CallISOReadFile(maxsize) PROVE IInv'
  <2>1. op' = [fn |-> "readfile", step |-> "size", maxsize |-> maxsize]
    BY <1>4 DEF CallISOReadFile
  <2>2. op' \in SizeOp
    BY <2>1 DEF SizeOp
  <2>3. Begin /\ op' \in Ops
    BY <1>4, <2>2 DEF CallISOReadFile, Ops
  <2>4. QED
    BY <2>1, <2>3, BeginInv
<1>5. QED
  BY <1>1, <1>2, <1>3, <1>4

---------------------------------------------------------------------------
(* What a returning call leaves for the parts of the invariant that speak  *)
(* of a call in progress.                                                  *)
LEMMA ReturnTypes ==
  ASSUME NEW ret \in Int, op \in Ops, Return(ret)
  PROVE  /\ op' = Idle /\ op'.fn = "none"
         /\ op' \in Ops /\ done' \in [op: Ops, ret: Int]
         /\ done'.op = op /\ done'.ret = ret
PROOF
<1>1. op' = Idle /\ done' = [op |-> op, ret |-> ret]
  BY DEF Return
<1>2. QED
  BY <1>1 DEF Idle, Ops

---------------------------------------------------------------------------
(* FormatNDEF.                                                             *)

LEMMA FormatInv ==
  ASSUME IInv, FormatNDEF
  PROVE  IInv'
PROOF
<1>1. PICK status \in BOOLEAN : FormatWrite(status)
  BY DEF FormatNDEF
<1>2. /\ TypeOK /\ op.fn = "format" /\ op \in Ops
      /\ before' = before /\ buffer' = buffer
  BY DEF IInv, TypeOK, FormatNDEF
<1>3. /\ op \in FormatOp /\ op.offset \in 0..247 /\ op.ok \in BOOLEAN
  BY <1>2, OpNames DEF FormatOp, memsize
<1>4. done = NotDone
  BY <1>2 DEF TypeOK, Idle
<1>0. op.offset \in Nat /\ op.offset <= 247
  BY <1>3
<1>5. PICK n : n = FormatLength(op.offset)
  OBVIOUS
<1>6. n \in Nat /\ n = (IF op.offset + 47 > 248 THEN 248 - op.offset ELSE 47)
      /\ op.offset + n <= 248
  BY <1>3, <1>5 DEF FormatLength, FormatChunk, memsize
<1>7. PICK z : z = Zeros(n)
  OBVIOUS
<1>8. z \in Seq(Nat) /\ Len(z) = n /\ \A i \in 1..n: z[i] = 0
  BY <1>6, <1>7, TuplesAreSequences DEF Zeros
<1>9. Write(op.offset, z) \/ LoseWrite(op.offset, z)
  BY <1>1, <1>5, <1>7 DEF FormatWrite
<1>10. FileSize \in Nat /\ FileSize >= 255
  BY FileSizes
<1>22. PICK c : c = Copy(file, op.offset, z)
  OBVIOUS
<1>23. file \in Seq(Nat) /\ Len(file) = FileSize
  BY <1>2 DEF TypeOK
<1>24. /\ c \in Seq(Nat) /\ Len(c) = FileSize
       /\ \A i \in 1..FileSize: c[i] = IF i > op.offset /\ i <= op.offset + Len(z)
                                       THEN z[i - op.offset] ELSE file[i]
  <2>1. op.offset \in Nat /\ op.offset + Len(z) <= FileSize
    BY <1>0, <1>6, <1>8, <1>10
  <2>2. z \in Seq(Nat)
    BY <1>8
  <2>3. Overwritten(c, file, op.offset, z)
    BY <1>22, <1>23, <2>1, <2>2, CopiedInto
  <2>4. QED
    BY <2>3 DEF Overwritten
<1>25. \A i \in 1..FileSize: c[i] = IF i > op.offset /\ i <= op.offset + n
                                   THEN 0 ELSE file[i]
  <2> SUFFICES ASSUME NEW i \in 1..FileSize
               PROVE  c[i] = IF i > op.offset /\ i <= op.offset + n THEN 0 ELSE file[i]
    OBVIOUS
  <2>5. CASE i > op.offset /\ i <= op.offset + n
    <3>1. i - op.offset \in 1..n
      BY <1>3, <1>6, <1>10, <2>5
    <3>2. QED
      BY <1>8, <1>24, <2>5, <3>1
  <2>6. CASE ~(i > op.offset /\ i <= op.offset + n)
    BY <1>8, <1>24, <2>6
  <2>7. QED
    BY <2>5, <2>6
<1>26. (file' = file \/ file' = c) /\ (status => file' = c)
  BY <1>9, <1>1, <1>5, <1>7, <1>22 DEF FormatWrite, Write, LoseWrite
<1>11. file' \in Seq(Nat) /\ Len(file') = FileSize
  BY <1>23, <1>24, <1>26
<1>12. status => \A i \in 1..FileSize:
                   file'[i] = IF i > op.offset /\ i <= op.offset + n
                              THEN 0 ELSE file[i]
  BY <1>25, <1>26
<1>13. \A i \in (memsize + 1)..FileSize: file'[i] = before'[i]
  <2> SUFFICES ASSUME NEW i \in (memsize + 1)..FileSize PROVE file'[i] = before'[i]
    OBVIOUS
  <2>1. i \in 1..FileSize /\ ~(i > op.offset /\ i <= op.offset + n)
    BY <1>0, <1>6, <1>10 DEF memsize
  <2>2. file'[i] = file[i]
    BY <1>25, <1>26, <2>1
  <2>3. file[i] = before[i]
    BY <1>2 DEF IInv, FormatErases
  <2>4. QED
    BY <1>2, <2>2, <2>3
<1>14. PICK offset : offset = U8(op.offset + FormatChunk)
  OBVIOUS
<1>15. offset \in Nat /\ offset = (op.offset + 47) % 256
  BY <1>3, <1>14 DEF U8, FormatChunk
<1>16. PICK ok \in BOOLEAN : ok = Formatted(op.ok, status)
  BY <1>3 DEF Formatted
<1>17. ok => op.ok /\ status
  BY <1>16 DEF Formatted
<1>18. ok => \A i \in 1..(IF offset \in FirstRound THEN offset ELSE memsize): file'[i] = 0
  <2> SUFFICES ASSUME ok, NEW i \in 1..(IF offset \in FirstRound THEN offset ELSE memsize)
               PROVE  file'[i] = 0
    OBVIOUS
  <2>1. \A j \in 1..(IF op.offset \in FirstRound THEN op.offset ELSE memsize): file[j] = 0
    BY <1>2, <1>17 DEF IInv, FormatSoFar
  <2>2. i \in 1..248 /\ i \in 1..FileSize
    BY <1>10, <1>15 DEF FirstRound, memsize
  <2>3. file'[i] = IF i > op.offset /\ i <= op.offset + n THEN 0 ELSE file[i]
    BY <1>12, <1>17, <2>2
  <2>4. CASE op.offset \notin FirstRound
    BY <2>1, <2>2, <2>3, <2>4 DEF memsize
  <2>5. CASE op.offset \in FirstRound
    <3>1. i <= op.offset + n
      BY <1>3, <1>6, <1>15, <2>2, <2>5 DEF FirstRound, memsize
    <3>2. i <= op.offset => file[i] = 0
      BY <1>3, <2>1, <2>2, <2>5
    <3>3. i <= op.offset \/ i > op.offset
      BY <1>3, <2>2
    <3>4. QED
      BY <2>3, <3>1, <3>2, <3>3
  <2>6. QED
    BY <2>4, <2>5
<1>19. CASE offset < memsize
  <2>1. op' = [op EXCEPT !.offset = offset, !.ok = ok] /\ done' = done
    BY <1>1, <1>14, <1>16, <1>19 DEF FormatWrite, Continue
  <2>2. /\ op' \in FormatOp /\ op'.fn = "format"
        /\ op'.offset = offset /\ op'.ok = ok
    <3>1. offset \in 0..(memsize - 1)
      BY <1>15, <1>19 DEF memsize
    <3>2. QED
      BY <1>3, <1>16, <2>1, <3>1 DEF FormatOp
  <2>3. TypeOK'
    BY <1>2, <1>4, <1>11, <2>1, <2>2 DEF TypeOK, Ops
  <2>4. FormatSoFar'
    BY <1>18, <2>2 DEF FormatSoFar
  <2>5. done'.op.fn = "none"
    BY <1>4, <2>1 DEF NotDone, Idle
  <2>6. FormatErases'
    BY <1>13, <2>5 DEF FormatErases, Returned
  <2>7. UpdateSoFar' /\ ReadSoFar' /\ WrittenPrefix' /\ ReadsMessage'
    BY <2>2, <2>5 DEF UpdateSoFar, ReadSoFar, WrittenPrefix, ReadsMessage, Returned
  <2>8. QED
    BY <2>3, <2>4, <2>6, <2>7 DEF IInv
<1>20. CASE ~(offset < memsize)
  <2>1. Return(IF ok THEN 1 ELSE 0)
    BY <1>1, <1>14, <1>16, <1>20 DEF FormatWrite
  <2>2. /\ op' = Idle /\ op'.fn = "none" /\ op' \in Ops
        /\ done' \in [op: Ops, ret: Int]
        /\ done'.op = op /\ done'.ret = (IF ok THEN 1 ELSE 0)
    BY <1>2, <2>1, ReturnTypes
  <2>3. TypeOK'
    BY <1>2, <1>11, <2>2 DEF TypeOK
  <2>4. offset \notin FirstRound
    BY <1>15, <1>20 DEF FirstRound, memsize
  <2>5. done'.ret = 1 => \A i \in 1..memsize: file'[i] = 0
    BY <1>18, <2>2, <2>4
  <2>6. FormatErases'
    BY <1>13, <2>2, <2>5 DEF FormatErases, Returned
  <2>7. /\ FormatSoFar' /\ UpdateSoFar' /\ ReadSoFar' /\ WrittenPrefix'
        /\ ReadsMessage'
    BY <1>2, <2>2 DEF FormatSoFar, UpdateSoFar, ReadSoFar, WrittenPrefix,
                      ReadsMessage, Returned
  <2>8. QED
    BY <2>3, <2>6, <2>7 DEF IInv
<1>21. QED
  BY <1>19, <1>20

---------------------------------------------------------------------------
(* ISOUpdateBinary.                                                        *)


(* Another piece of d, in its place behind the first a bytes.              *)
LEMMA PrefixGrows ==
  ASSUME NEW f \in Seq(Nat), Len(f) = FileSize, NEW d, NEW a \in Nat,
         NEW p \in Seq(Nat), a + Len(p) <= FileSize,
         \A i \in 1..Len(p): p[i] = d[a + i],
         NEW was, Prefixed(f, d, a, was), NEW c, c = Copy(f, a, p)
  PROVE  /\ c \in Seq(Nat) /\ Len(c) = FileSize
         /\ Prefixed(c, d, a + Len(p), was)
PROOF
<1>1. FileSize \in Nat /\ Len(p) \in Nat
  BY FileSizes
<1>2. /\ c \in Seq(Nat) /\ Len(c) = FileSize
      /\ \A i \in 1..FileSize: c[i] = IF i > a /\ i <= a + Len(p)
                                      THEN p[i - a] ELSE f[i]
  BY CopiedInto DEF Overwritten
<1>3. ASSUME NEW i \in 1..FileSize
      PROVE  c[i] = IF i <= a + Len(p) THEN d[i] ELSE was[i]
  <2>1. f[i] = IF i <= a THEN d[i] ELSE was[i]
    BY DEF Prefixed
  <2>2. CASE i <= a
    BY <1>1, <1>2, <2>1, <2>2
  <2>3. CASE i > a /\ i <= a + Len(p)
    <3>1. i - a \in 1..Len(p) /\ a + (i - a) = i
      BY <1>1, <2>3
    <3>2. p[i - a] = d[i]
      BY <3>1
    <3>3. QED
      BY <1>2, <2>3, <3>2
  <2>4. CASE i > a + Len(p)
    <3>1. ~(i <= a) /\ ~(i <= a + Len(p))
      BY <1>1, <2>4
    <3>2. c[i] = f[i]
      BY <1>2, <3>1
    <3>3. QED
      BY <2>1, <3>1, <3>2
  <2>5. QED
    BY <1>1, <2>2, <2>3, <2>4
<1>4. QED
  BY <1>2, <1>3 DEF Prefixed

LEMMA UpdateInv ==
  ASSUME IInv, ISOUpdateBinary
  PROVE  IInv'
PROOF
<1>1. /\ TypeOK /\ op.fn = "update" /\ op \in Ops
      /\ before' = before /\ buffer' = buffer
      /\ UpdateDone \/ UpdateLost \/ UpdateChunkWritten
  BY DEF IInv, TypeOK, ISOUpdateBinary
<1>2. op \in UpdateOp
  BY <1>1, OpNames
<1>3. done = NotDone /\ done.op.fn = "none"
  BY <1>1 DEF TypeOK, Idle, NotDone
<1>4. PICK d \in Datas : d = op.data
  BY <1>2 DEF UpdateOp
<1>5. d \in Seq(Nat) /\ Len(d) \in 0..255
  BY Writes
<1>6. PICK l \in 0..255 : l = Len(d)
  BY <1>5
<1>7. PICK a \in 0..255 : a = op.offset /\ a <= l /\ op.i = a
  <2>1. op.offset \in 0..255
    BY <1>2 DEF UpdateOp, Byte
  <2>2. op.i = op.offset /\ op.offset <= l
    BY <1>1, <1>4, <1>6 DEF IInv, UpdateSoFar
  <2>3. QED
    BY <2>1, <2>2
<1>8. PICK datalen \in 0..25 : datalen = op.datalen
  BY <1>2 DEF UpdateOp, UpdateChunk
<1>9. FileSize \in Nat /\ l <= FileSize
  BY FileSizes
<1>10. file \in Seq(Nat) /\ Len(file) = FileSize /\ Prefixed(file, d, a, before)
  BY <1>1, <1>4, <1>7 DEF IInv, TypeOK, WrittenPrefix
<1>11. PICK n : n = Datalen(op)
  OBVIOUS
<1>12. n = IF a + datalen > l THEN (l - a) % 256 ELSE datalen
  BY <1>4, <1>6, <1>7, <1>8, <1>11 DEF Datalen, U8
<1>13. n \in 0..25 /\ a + n <= l
  <2>1. CASE a + datalen > l
    <3>0. a <= l
      BY <1>7
    <3>1. (l - a) \in 0..255 /\ l - a < datalen
      BY <3>0, <2>1
    <3>2. (l - a) % 256 = l - a
      BY <3>1, U8Small DEF U8, Byte
    <3>3. n = l - a
      BY <1>12, <2>1, <3>2
    <3>4. QED
      BY <3>1, <3>3
  <2>2. CASE ~(a + datalen > l)
    BY <1>7, <1>8, <1>12, <2>2
  <2>3. QED
    BY <2>1, <2>2
<1>14. PICK p : p = SubSeq(d, a + 1, a + n)
  OBVIOUS
<1>15. PICK c : c = Copy(file, a, p)
  OBVIOUS
<1>16. p \in Seq(Nat) /\ Len(p) = n /\ \A i \in 1..n: p[i] = d[a + i]
  <2>1. a \in Nat /\ n \in Nat /\ a + n <= Len(d)
    <3>1. a \in Nat /\ n \in Nat
      BY <1>13
    <3>2. QED
      BY <1>6, <1>13, <3>1
  <2>2. QED
    <3>1. PartOf(p, d, a, n)
      BY <1>5, <1>14, <2>1, PartIs, Zenon
    <3>2. QED
      BY <3>1 DEF PartOf
<1>21. c \in Seq(Nat) /\ Len(c) = FileSize /\ Prefixed(c, d, a + n, before)
  <2>1. a \in Nat /\ a + n <= FileSize
    BY <1>9, <1>13
  <2>2. /\ p \in Seq(Nat) /\ a + Len(p) <= FileSize
        /\ \A i \in 1..Len(p): p[i] = d[a + i]
    BY <1>16, <2>1
  <2>3. c \in Seq(Nat) /\ Len(c) = FileSize /\ Prefixed(c, d, a + Len(p), before)
    BY <1>10, <1>15, <2>1, <2>2, PrefixGrows, ZenonT(60)
  <2>4. QED
    BY <1>16, <2>3
<1>17. Piece(op) = p
  BY <1>4, <1>7, <1>11, <1>14 DEF Piece
<1>18. CASE UpdateDone \/ UpdateLost
  <2>1. PICK ret \in {0, 1} : Return(ret) /\ (ret = 1 => op.i >= l)
    BY <1>4, <1>6, <1>18 DEF UpdateDone, UpdateLost
  <2>2. /\ op' = Idle /\ op'.fn = "none" /\ op' \in Ops
        /\ done' \in [op: Ops, ret: Int] /\ done'.op = op /\ done'.ret = ret
    BY <1>1, <2>1, ReturnTypes
  <2>3. file' = file \/ (file' = c /\ ret = 0)
    <3>1. CASE UpdateDone
      BY <3>1 DEF UpdateDone
    <3>2. CASE UpdateLost
      <4>1. file' = file \/ file' = c
        BY <1>7, <1>15, <1>17, <3>2 DEF UpdateLost, LoseWrite
      <4>2. done'.ret = 0
        BY <1>1, <3>2, ReturnTypes DEF UpdateLost
      <4>3. QED
        BY <2>2, <4>1, <4>2
    <3>3. QED
      BY <1>18, <3>1, <3>2
  <2>4. TypeOK'
    BY <1>1, <1>10, <1>21, <2>2, <2>3 DEF TypeOK
  <2>5. PICK k \in {a, a + n} : /\ Prefixed(file', d, k, before)
                                /\ ret = 1 => k = a
    BY <1>10, <1>21, <2>3
  <2>6. k \in 0..l /\ (ret = 1 => k = l)
    BY <1>7, <1>13, <2>1, <2>5
  <2>7. \E j \in 0..Len(done'.op.data):
          /\ Prefixed(file', done'.op.data, j, before')
          /\ done'.ret = 1 => j = Len(done'.op.data)
    BY <1>1, <1>4, <1>6, <2>2, <2>5, <2>6
  <2>8. WrittenPrefix'
    BY <2>2, <2>7 DEF WrittenPrefix
  <2>9. /\ FormatSoFar' /\ UpdateSoFar' /\ ReadSoFar' /\ FormatErases'
        /\ ReadsMessage'
    BY <1>1, <2>2 DEF FormatSoFar, UpdateSoFar, ReadSoFar, FormatErases,
                      ReadsMessage, Returned
  <2>10. QED
    BY <2>4, <2>8, <2>9 DEF IInv
<1>19. CASE UpdateChunkWritten
  <2>1. file' = c /\ op' = Advanced(op) /\ done' = done
    BY <1>7, <1>15, <1>17, <1>19 DEF UpdateChunkWritten, Write, Continue
  <2>2. PICK b \in Nat : b = a + n /\ b <= 255
    BY <1>7, <1>13
  <2>3. U8(b) = b
    BY <2>2, U8Small DEF Byte
  <2>4. op' = [op EXCEPT !.datalen = n, !.offset = b, !.i = b]
    BY <1>7, <1>11, <2>1, <2>2, <2>3 DEF Advanced
  <2>5. b \in Byte /\ n \in 0..UpdateChunk
    BY <1>13, <2>2 DEF Byte, UpdateChunk
  <2>6. /\ op' \in UpdateOp /\ op'.fn = "update" /\ op'.data = d
        /\ op'.offset = b /\ op'.i = b
    BY <1>1, <1>2, <1>4, <2>4, <2>5 DEF UpdateOp
  <2>7. TypeOK'
    BY <1>1, <1>3, <1>21, <2>1, <2>6 DEF TypeOK, Ops
  <2>8. UpdateSoFar'
    BY <1>6, <1>13, <2>2, <2>6 DEF UpdateSoFar
  <2>9. WrittenPrefix'
    BY <1>1, <1>3, <1>21, <2>1, <2>2, <2>6 DEF WrittenPrefix, Returned
  <2>10. FormatSoFar' /\ ReadSoFar' /\ FormatErases' /\ ReadsMessage'
    BY <1>3, <2>1, <2>6 DEF FormatSoFar, ReadSoFar, FormatErases, ReadsMessage, Returned
  <2>11. QED
    BY <2>7, <2>8, <2>9, <2>10 DEF IInv
<1>20. QED
  BY <1>1, <1>18, <1>19

---------------------------------------------------------------------------
(* ReadNDEFMessage.                                                        *)

(* What READ BINARY gives: nothing, what was asked for, or the rest of the *)
(* file.                                                                   *)
ReadAt(b, n, le, room) ==
  /\ b \in Seq(Nat) /\ n + Len(b) <= FileSize
  /\ \A i \in 1..Len(b): b[i] = file[n + i]
  /\ Len(b) = le \/ (le = 0 /\ Len(b) + 2 <= room)

LEMMA Binaries ==
  ASSUME TypeOK, NEW n \in Nat, NEW le \in Nat, NEW room \in Nat,
         NEW b, b = Binary(n, le, room), b # <<>>
  PROVE  ReadAt(b, n, le, room)
PROOF
<1>1. file \in Seq(Nat) /\ Len(file) = FileSize
  BY DEF TypeOK
<1>2. PICK len : len = IF le = 0 THEN FileSize - n ELSE le
  OBVIOUS
<1>3. n + le <= FileSize
  BY DEF Binary
<1>4. len \in Nat /\ n + len <= FileSize
  BY <1>2, <1>3, FileSizes
<1>5. (IF le = 0 THEN FileSize ELSE n + le) = n + len
  BY <1>2, <1>4, FileSizes
<1>6. b = SubSeq(file, n + 1, n + len) /\ Len(b) + 2 <= room
  BY <1>5 DEF Binary
<1>7. b \in Seq(Nat) /\ Len(b) = len /\ \A i \in 1..len: b[i] = file[n + i]
  <2>1. n + len <= Len(file)
    BY <1>1, <1>4
  <2>2. b = SubSeq(file, n + 1, n + len)
    BY <1>6
  <2>3. QED
    BY <1>1, <1>4, <2>1, <2>2, Pieces
<1>8. le # 0 => len = le
  BY <1>2
<1>9. QED
  BY <1>4, <1>6, <1>7, <1>8 DEF ReadAt

LEMMA NLenRead ==
  ASSUME TypeOK
  PROVE  NLen(Binary(0, 2, 8)) = NLen(file) /\ NLen(file) \in Nat
PROOF
<1>1. file \in Seq(Nat) /\ Len(file) = FileSize /\ 2 <= FileSize
  BY FileSizes DEF TypeOK
<1>2. PICK s : s = SubSeq(file, 1, 2)
  OBVIOUS
<1>3. s \in Seq(Nat) /\ Len(s) = 2 /\ \A i \in 1..2: s[i] = file[0 + i]
  <2>1. s = SubSeq(file, 0 + 1, 0 + 2) /\ 0 + 2 <= Len(file)
    BY <1>1, <1>2
  <2>2. QED
    BY <1>1, <2>1, Pieces
<1>4. Binary(0, 2, 8) = s
  BY <1>1, <1>2, <1>3 DEF Binary
<1>5. s[1] = file[1] /\ s[2] = file[2]
  BY <1>3
<1>6. file[1] \in Nat /\ file[2] \in Nat
  BY <1>1
<1>7. NLen(s) = NLen(file)
  BY <1>5 DEF NLen
<1>8. NLen(file) \in Nat
  BY <1>6 DEF NLen, U8
<1>9. QED
  BY <1>4, <1>7, <1>8

(* What a chunk may be: never more than what is left to read.              *)
LEMMA ChunkFits ==
  ASSUME NEW total \in Nat, NEW read \in Nat, read < total, NEW len \in Nat,
         NEW chunk, chunk = Smaller(U8(total - read), ReadChunk),
         len = chunk \/ (chunk = 0 /\ len + 2 <= ReadRoom)
  PROVE  chunk \in Nat /\ read + len <= total
PROOF
<1>1. PICK left \in Nat : left = total - read /\ left > 0
  OBVIOUS
<1>2. PICK m \in 0..255 : m = left % 256
  BY <1>1
<1>3. m <= left /\ (m = 0 => left >= 256)
  BY <1>1, <1>2
<1>4. chunk = IF m <= 48 THEN m ELSE 48
  BY <1>1, <1>2 DEF Smaller, U8, ReadChunk
<1>5. chunk \in Nat /\ chunk <= m /\ (chunk = 0 => m = 0)
  BY <1>4
<1>6. len <= left
  BY <1>3, <1>5 DEF ReadRoom
<1>7. QED
  BY <1>1, <1>5, <1>6

(* A read that returns.                                                    *)
LEMMA ReadReturns ==
  ASSUME TypeOK, op.fn = "read", NEW ret \in Int, Return(ret),
         file' = file, before' = before, buffer' \in Seq(Nat),
         ret > 0 => /\ ret = Smaller(NLen(file), op.maxsize)
                    /\ buffer' = SubSeq(file, 3, 2 + ret)
  PROVE  IInv'
PROOF
<1>1. op \in Ops
  BY DEF TypeOK
<1>2. /\ op' = Idle /\ op'.fn = "none" /\ op' \in Ops
      /\ done' \in [op: Ops, ret: Int] /\ done'.op = op /\ done'.ret = ret
  BY <1>1, ReturnTypes
<1>3. TypeOK'
  BY <1>2 DEF TypeOK
<1>4. ReadsMessage'
  BY <1>2 DEF ReadsMessage
<1>5. FormatSoFar' /\ UpdateSoFar' /\ ReadSoFar' /\ WrittenPrefix' /\ FormatErases'
  BY <1>2 DEF FormatSoFar, UpdateSoFar, ReadSoFar, WrittenPrefix, FormatErases, Returned
<1>6. QED
  BY <1>3, <1>4, <1>5 DEF IInv

(* A read that goes on.                                                    *)
LEMMA ReadContinues ==
  ASSUME TypeOK, done = NotDone, op' \in DataOp, done' = done,
         file' = file, before' = before, buffer' \in Seq(Nat), ReadSoFar'
  PROVE  IInv'
PROOF
<1>1. op'.fn = "read" /\ op'.step = "data" /\ op' \in Ops
  BY DEF DataOp, Ops
<1>2. done'.op.fn = "none"
  BY DEF NotDone, Idle
<1>3. TypeOK'
  BY <1>1 DEF TypeOK
<1>4. ReadsMessage'
  <2>1. /\ op'.total_to_read = Smaller(NLen(file'), op'.maxsize)
        /\ op'.total_read < op'.total_to_read /\ Len(buffer') = op'.total_read
    BY <1>1 DEF ReadSoFar
  <2>2. op'.total_read \in Nat /\ op'.maxsize \in Nat
    <3>1. op'.maxsize \in MaxSizes /\ op'.total_read \in Nat
      BY DEF DataOp
    <3>2. QED
      BY <3>1, Sizes
  <2>3. NLen(file') \in Nat
    BY NLenRead
  <2>4. op'.total_to_read <= op'.maxsize
    BY <2>1, <2>2, <2>3 DEF Smaller
  <2>5. op'.total_to_read \in Nat
    BY DEF DataOp
  <2>6. Len(buffer') <= op'.maxsize
    BY <2>1, <2>2, <2>4, <2>5
  <2>7. QED
    BY <1>2, <2>6 DEF ReadsMessage, Returned
<1>5. FormatSoFar' /\ UpdateSoFar' /\ WrittenPrefix' /\ FormatErases'
  BY <1>1, <1>2 DEF FormatSoFar, UpdateSoFar, WrittenPrefix, FormatErases, Returned
<1>6. QED
  BY <1>3, <1>4, <1>5 DEF IInv

LEMMA ReadInv ==
  ASSUME IInv, ReadNDEFMessage
  PROVE  IInv'
PROOF
<1>1. /\ TypeOK /\ op.fn = "read" /\ op \in Ops
      /\ file' = file /\ before' = before
      /\ ReadNLen \/ ReadData \/ ReadLost
  BY DEF IInv, TypeOK, ReadNDEFMessage
<1>2. done = NotDone /\ buffer \in Seq(Nat)
  BY <1>1 DEF TypeOK, Idle
<1>3. /\ op.step = "nlen" => op \in NLenOp
      /\ op.step = "data" => op \in DataOp
  BY <1>1, OpNames
<1>4. ReadSoFar
  BY DEF IInv
<1>5. CASE ReadNLen
  <2>1. op.step = "nlen" /\ buffer' = buffer /\ buffer = <<>>
    BY <1>1, <1>4, <1>5 DEF ReadNLen, ReadSoFar
  <2>2. PICK nlen \in Nat : nlen = NLen(file) /\ nlen = NLen(Binary(0, 2, 8))
    BY <1>1, NLenRead
  <2>3. PICK m \in Nat : m = op.maxsize /\ m \in MaxSizes
    BY <1>3, <2>1, Sizes DEF NLenOp
  <2>4. CASE m = 0 \/ nlen = 0
    <3>1. PICK ret \in {0, -1} : Return(ret)
      BY <1>5, <2>2, <2>3, <2>4 DEF ReadNLen
    <3>2. ~(ret > 0) /\ ret \in Int
      OBVIOUS
    <3>3. QED
      BY <1>1, <1>2, <2>1, <3>1, <3>2, ReadReturns
  <2>5. CASE ~(m = 0 \/ nlen = 0)
    <3>1. PICK t : t = Smaller(nlen, m)
      OBVIOUS
    <3>2. t \in Nat /\ t > 0
      BY <2>5, <3>1 DEF Smaller
    <3>3. /\ op' = [fn |-> "read", step |-> "data", maxsize |-> m,
                    total_to_read |-> t, total_read |-> 0]
          /\ done' = done
      BY <1>5, <2>2, <2>3, <2>5, <3>1 DEF ReadNLen, Continue
    <3>4. op' \in DataOp
      BY <2>3, <3>2, <3>3 DEF DataOp
    <3>5. ReadSoFar'
      <4>1. /\ op'.total_to_read = t /\ op'.total_read = 0 /\ op'.maxsize = m
            /\ op'.step = "data"
        BY <3>3
      <4>2. t = Smaller(NLen(file'), m)
        BY <1>1, <2>2, <3>1
      <4>3. Len(buffer') = 0 /\ 2 + 0 <= FileSize
        BY <2>1, FileSizes
      <4>4. \A i \in 1..0: buffer'[i] = file'[i + 2]
        OBVIOUS
      <4>5. QED
        BY <3>2, <4>1, <4>2, <4>3, <4>4 DEF ReadSoFar
    <3>6. QED
      BY <1>1, <1>2, <2>1, <3>3, <3>4, <3>5, ReadContinues
  <2>6. QED
    BY <2>4, <2>5
<1>6. CASE ReadData
  <2>1. op.step = "data" /\ op \in DataOp
    BY <1>3, <1>6 DEF ReadData
  <2>2. PICK total \in Nat : total = op.total_to_read
    BY <2>1 DEF DataOp
  <2>3. PICK r \in Nat : r = op.total_read
    BY <2>1 DEF DataOp
  <2>4. r < total /\ 2 + r <= FileSize
    BY <1>1, <1>4, <2>1, <2>2, <2>3 DEF ReadSoFar
  <2>5. /\ total = Smaller(NLen(file), op.maxsize) /\ Len(buffer) = r
        /\ \A i \in 1..r: buffer[i] = file[i + 2]
    BY <1>1, <1>4, <2>1, <2>2, <2>3 DEF ReadSoFar
  <2>6. PICK chunk : chunk = Smaller(U8(total - r), ReadChunk)
    OBVIOUS
  <2>7. ChunkOf(op) = chunk /\ MessageOffset(op) = 2 + r
    BY <2>2, <2>3, <2>6 DEF ChunkOf, MessageOffset
  <2>8. PICK data : data = Binary(2 + r, chunk, ReadRoom)
    OBVIOUS
  <2>9. CASE data = <<>>
    <3>1. Return(-1) /\ buffer' = buffer
      BY <1>6, <2>7, <2>8, <2>9 DEF ReadData
    <3>2. QED
      BY <1>1, <1>2, <3>1, ReadReturns
  <2>10. CASE data # <<>>
    <3>1. chunk \in Nat
      BY <2>4, <2>6 DEF Smaller, U8, ReadChunk
    <3>2. /\ data \in Seq(Nat) /\ (2 + r) + Len(data) <= FileSize
          /\ \A i \in 1..Len(data): data[i] = file[(2 + r) + i]
          /\ Len(data) = chunk \/ (chunk = 0 /\ Len(data) + 2 <= ReadRoom)
      <4>1. PICK at \in Nat : at = 2 + r
        OBVIOUS
      <4>2. PICK room \in Nat : room = ReadRoom
        BY DEF ReadRoom
      <4>3. data = Binary(at, chunk, room)
        BY <2>8, <4>1, <4>2
      <4>4. /\ data \in Seq(Nat) /\ at + Len(data) <= FileSize
            /\ \A i \in 1..Len(data): data[i] = file[at + i]
            /\ Len(data) = chunk \/ (chunk = 0 /\ Len(data) + 2 <= room)
        <5>1. TypeOK
          BY <1>1
        <5>2. ReadAt(data, at, chunk, room)
          BY <2>10, <3>1, <4>3, <5>1, Binaries
        <5>3. QED
          BY <5>2 DEF ReadAt
      <4>5. QED
        BY <4>1, <4>2, <4>4
    <3>3. PICK n \in Nat : n = Len(data)
      BY <3>2
    <3>4. r + n <= total
      BY <2>4, <2>6, <3>2, <3>3, ChunkFits
    <3>5. PICK c : c = Copy(buffer, r, data)
      OBVIOUS
    <3>6. /\ c \in Seq(Nat)
          /\ Len(c) = IF Len(buffer) >= r + Len(data) THEN Len(buffer) ELSE r + Len(data)
          /\ \A i \in 1..Len(c): c[i] = IF i > r /\ i <= r + Len(data)
                                        THEN data[i - r] ELSE buffer[i]
      <4>1. r <= Len(buffer)
        BY <2>5
      <4>2. data \in Seq(Nat)
        BY <3>2
      <4>3. buffer \in Seq(Nat)
        BY <1>2
      <4>4. QED
        <5>1. CopyOf(c, buffer, r, data)
          BY <3>5, <4>1, <4>2, <4>3, Copied
        <5>2. QED
          BY <5>1 DEF CopyOf
    <3>7. Len(c) = r + n
      BY <2>5, <3>3, <3>6
    <3>8. \A i \in 1..(r + n): c[i] = file[i + 2]
      <4> SUFFICES ASSUME NEW i \in 1..(r + n) PROVE c[i] = file[i + 2]
        OBVIOUS
      <4>1. c[i] = IF i > r /\ i <= r + n THEN data[i - r] ELSE buffer[i]
        BY <3>3, <3>6, <3>7
      <4>2. CASE i > r
        <5>1. i - r \in 1..n /\ (2 + r) + (i - r) = i + 2
          BY <4>2
        <5>2. data[i - r] = file[i + 2]
          BY <3>2, <3>3, <5>1
        <5>3. QED
          BY <4>1, <4>2, <5>2
      <4>3. CASE ~(i > r)
        <5>1. i \in 1..r
          BY <4>3
        <5>2. QED
          BY <2>5, <4>1, <4>3, <5>1
      <4>4. QED
        BY <4>2, <4>3
    <3>9. /\ buffer' = c
          /\ IF r + n < total
             THEN op' = [op EXCEPT !.total_read = r + n] /\ done' = done
             ELSE Return(r + n)
      BY <1>6, <2>2, <2>3, <2>7, <2>8, <2>10, <3>3, <3>5 DEF ReadData, Continue
    <3>10. CASE r + n < total
      <4>1. op' = [op EXCEPT !.total_read = r + n] /\ done' = done
        BY <3>9, <3>10
      <4>2. /\ op' \in DataOp /\ op'.total_read = r + n /\ op'.total_to_read = total
            /\ op'.maxsize = op.maxsize /\ op'.step = "data"
        BY <2>1, <2>2, <4>1 DEF DataOp
      <4>3. 2 + (r + n) <= FileSize
        BY <3>2, <3>3, FileSizes
      <4>4. ReadSoFar'
        BY <1>1, <2>5, <3>7, <3>8, <3>9, <3>10, <4>2, <4>3 DEF ReadSoFar
      <4>5. QED
        BY <1>1, <1>2, <3>6, <3>9, <4>1, <4>2, <4>4, ReadContinues
    <3>11. CASE ~(r + n < total)
      <4>1. Return(total) /\ r + n = total
        <5>1. r + n = total
          BY <3>4, <3>11
        <5>2. QED
          BY <3>9, <3>11, <5>1
      <4>2. buffer' = SubSeq(file, 3, 2 + total)
        <5>1. PICK s : s = SubSeq(file, 3, 2 + total)
          OBVIOUS
        <5>2. file \in Seq(Nat) /\ 2 + total <= Len(file)
          <6>1. 2 + total <= FileSize
            BY <3>2, <3>3, <4>1, FileSizes
          <6>2. QED
            BY <1>1, <6>1 DEF TypeOK
        <5>3. s \in Seq(Nat) /\ Len(s) = total /\ \A i \in 1..total: s[i] = file[2 + i]
          <6>1. s = SubSeq(file, 2 + 1, 2 + total)
            BY <5>1
          <6>2. QED
            BY <5>2, <6>1, Pieces
        <5>4. Len(c) = total /\ \A i \in 1..total: c[i] = s[i]
          <6>1. Len(c) = total
            BY <3>7, <4>1
          <6>2. ASSUME NEW i \in 1..total PROVE c[i] = s[i]
            <7>1. i + 2 = 2 + i /\ i \in 1..(r + n)
              BY <4>1
            <7>2. QED
              BY <3>8, <5>3, <7>1
          <6>3. QED
            BY <6>1, <6>2
        <5>5. c = s
          <6>1. c \in [1..total -> Nat] /\ s \in [1..total -> Nat]
            BY <3>6, <5>3, <5>4
          <6>2. QED
            BY <5>4, <6>1
        <5>6. QED
          BY <3>9, <5>1, <5>5
      <4>3. buffer' \in Seq(Nat)
        BY <3>6, <3>9
      <4>4. total \in Int
        OBVIOUS
      <4>5. QED
        BY <1>1, <2>5, <4>1, <4>2, <4>3, <4>4, ReadReturns
    <3>12. QED
      BY <3>10, <3>11
  <2>11. QED
    BY <2>9, <2>10
<1>7. CASE ReadLost
  <2>1. Return(-1) /\ buffer' = buffer
    BY <1>7 DEF ReadLost
  <2>2. QED
    BY <1>1, <1>2, <2>1, ReadReturns
<1>8. QED
  BY <1>1, <1>5, <1>6, <1>7

---------------------------------------------------------------------------
(* ISOReadFile: its types, and that it leaves the file alone.              *)

LEMMA PageTyped ==
  ASSUME NEW data \in Seq(Nat), NEW n \in Nat
  PROVE  Page(data, n) \in Seq(Nat)
PROOF
<1>1. PICK p : p = Page(data, n)
  OBVIOUS
<1>2. p = [i \in 1..n |-> IF i <= Len(data) THEN data[i] ELSE 0]
  BY <1>1 DEF Page
<1>3. ASSUME NEW i \in 1..n PROVE p[i] \in Nat
  <2>1. Len(data) \in Nat
    OBVIOUS
  <2>2. i <= Len(data) => i \in 1..Len(data)
    BY <2>1
  <2>3. QED
    BY <1>2, <2>2
<1>4. p \in [1..n -> Nat]
  BY <1>2, <1>3
<1>5. QED
  BY <1>1, <1>4, TuplesAreSequences

(* The arithmetic of a page stays in its types.                            *)
LEMMA PageSizes ==
  ASSUME NEW o \in PageOp
  PROVE  /\ PageOffset(o) \in Byte /\ PageSize(o) \in Byte
         /\ FileSizeOf(o) \in Int
PROOF
<1>1. /\ o.i \in Byte /\ o.pagesize \in Byte /\ o.filesize \in Int
      /\ o.maxsize \in Nat
  BY Sizes DEF PageOp
<1>2. o.i \in Nat /\ o.pagesize \in Nat
  BY <1>1 DEF Byte
<1>3. PageOffset(o) \in Byte
  BY <1>2, U8Byte DEF PageOffset
<1>4. PageOffset(o) \in Int
  BY <1>3 DEF Byte
<1>5. LastPage(o) \in Byte
  BY <1>1, <1>4, U8Byte DEF LastPage
<1>6. PageSize(o) \in Byte
  BY <1>1, <1>4, <1>5, U8Byte DEF PageSize
<1>7. FileSizeOf(o) \in Int
  BY <1>1 DEF FileSizeOf
<1>8. QED
  BY <1>3, <1>6, <1>7

LEMMA FileSizeRead ==
  ASSUME TypeOK
  PROVE  U8(Binary(0, 3, 8)[2]) \in Byte
PROOF
<1>1. file \in Seq(Nat) /\ Len(file) = FileSize /\ 3 <= FileSize
  BY FileSizes DEF TypeOK
<1>2. PICK s : s = SubSeq(file, 1, 3)
  OBVIOUS
<1>3. s \in Seq(Nat) /\ Len(s) = 3
  <2>1. s = SubSeq(file, 0 + 1, 0 + 3) /\ 0 + 3 <= Len(file)
    BY <1>1, <1>2
  <2>2. QED
    BY <1>1, <2>1, Pieces
<1>4. Binary(0, 3, 8) = s
  BY <1>1, <1>2, <1>3 DEF Binary
<1>5. s[2] \in Nat
  BY <1>3, SMTT(40)
<1>6. QED
  BY <1>4, <1>5, U8Byte

(* A call of ISOReadFile that goes on.                                     *)
LEMMA PageContinues ==
  ASSUME TypeOK, done = NotDone, op' \in PageOp, done' = done,
         file' = file, before' = before, buffer' \in Seq(Nat)
  PROVE  IInv'
PROOF
<1>1. op'.fn = "readfile" /\ op' \in Ops
  BY DEF PageOp, Ops
<1>2. done'.op.fn = "none"
  BY DEF NotDone, Idle
<1>3. TypeOK'
  BY <1>1 DEF TypeOK
<1>4. /\ FormatSoFar' /\ UpdateSoFar' /\ ReadSoFar' /\ WrittenPrefix'
      /\ FormatErases' /\ ReadsMessage'
  BY <1>1, <1>2 DEF FormatSoFar, UpdateSoFar, ReadSoFar, WrittenPrefix,
                    FormatErases, ReadsMessage, Returned
<1>5. QED
  BY <1>3, <1>4 DEF IInv

LEMMA PageReturns ==
  ASSUME TypeOK, op.fn = "readfile", NEW ret \in Int, Return(ret),
         file' = file, before' = before, buffer' \in Seq(Nat)
  PROVE  IInv'
PROOF
<1>1. op \in Ops
  BY DEF TypeOK
<1>2. /\ op' = Idle /\ op'.fn = "none" /\ op' \in Ops
      /\ done' \in [op: Ops, ret: Int] /\ done'.op = op
  BY <1>1, ReturnTypes
<1>3. TypeOK'
  BY <1>2 DEF TypeOK
<1>4. /\ FormatSoFar' /\ UpdateSoFar' /\ ReadSoFar' /\ WrittenPrefix'
      /\ FormatErases' /\ ReadsMessage'
  BY <1>2 DEF FormatSoFar, UpdateSoFar, ReadSoFar, WrittenPrefix, FormatErases,
              ReadsMessage, Returned
<1>5. QED
  BY <1>3, <1>4 DEF IInv

LEMMA ReadFileInv ==
  ASSUME IInv, ISOReadFile
  PROVE  IInv'
PROOF
<1>1. /\ TypeOK /\ op.fn = "readfile" /\ op \in Ops
      /\ file' = file /\ before' = before
      /\ ReadSize \/ ReadPage \/ PageLost
  BY DEF IInv, TypeOK, ISOReadFile
<1>2. done = NotDone /\ buffer \in Seq(Nat)
  BY <1>1 DEF TypeOK, Idle
<1>3. /\ op.step = "size" => op \in SizeOp
      /\ op.step = "page" => op \in PageOp
  BY <1>1, OpNames
<1>4. CASE ReadSize
  <2>1. op \in SizeOp /\ buffer' = buffer
    BY <1>3, <1>4 DEF ReadSize
  <2>2. PICK size \in Byte : size = U8(Binary(0, 3, 8)[2])
    BY <1>1, FileSizeRead
  <2>3. PICK filesize \in Int : filesize = size - 5
    BY DEF Byte
  <2>4. PICK q \in Int : q = Quotient(filesize, 32) + 1
    BY DEF Quotient
  <2>5. U8(q) \in Byte
    BY U8Byte
  <2>6. /\ op' = [fn |-> "readfile", step |-> "page", maxsize |-> op.maxsize,
                  filesize |-> filesize, pagesize |-> 32, i |-> 0, pages |-> U8(q)]
        /\ done' = done
    BY <1>4, <2>2, <2>3, <2>4 DEF ReadSize, Continue
  <2>7. 32 \in Byte /\ 0 \in Byte /\ op.maxsize \in MaxSizes
    BY <2>1 DEF Byte, SizeOp
  <2>8. op' \in PageOp
    BY <2>5, <2>6, <2>7 DEF PageOp
  <2>9. QED
    BY <1>1, <1>2, <2>1, <2>6, <2>8, PageContinues
<1>5. CASE ReadPage
  <2>1. op \in PageOp
    BY <1>3, <1>5 DEF ReadPage
  <2>2. PICK n \in Byte : n = PageSize(op)
    BY <2>1, PageSizes
  <2>3. PICK at \in Byte : at = PageOffset(op)
    BY <2>1, PageSizes
  <2>4. PICK filesize \in Int : filesize = FileSizeOf(op)
    BY <2>1, PageSizes
  <2>5. PICK first \in Byte : first = U8(FirstByte + at)
    <3>1. FirstByte + at \in Int
      BY DEF FirstByte, Byte
    <3>2. QED
      BY <3>1, U8Byte
  <2>6. n \in Nat /\ at \in Nat /\ first \in Nat
    BY DEF Byte
  <2>7. PICK data : data = Binary(first, n, PageRoom)
    OBVIOUS
  <2>8. CASE data = <<>>
    <3>1. Return(0) /\ buffer' = buffer
      BY <1>5, <2>2, <2>3, <2>5, <2>7, <2>8 DEF ReadPage
    <3>2. QED
      BY <1>1, <1>2, <3>1, PageReturns
  <2>9. CASE data # <<>>
    <3>1. data \in Seq(Nat)
      <4>1. PageRoom \in Nat
        BY DEF PageRoom
      <4>2. TypeOK
        BY <1>1
      <4>3. ReadAt(data, first, n, PageRoom)
        BY <2>6, <2>7, <2>9, <4>1, <4>2, Binaries
      <4>4. QED
        BY <4>3 DEF ReadAt
    <3>2. PICK page \in Seq(Nat) : page = Page(data, n)
      BY <2>6, <3>1, PageTyped
    <3>3. buffer' \in Seq(Nat)
      <4>1. buffer' = Copy(buffer, at, page)
        BY <1>5, <2>2, <2>3, <2>5, <2>7, <2>9, <3>2 DEF ReadPage
      <4>2. buffer \in Seq(Nat)
        BY <1>2
      <4>3. QED
        BY <2>6, <4>1, <4>2, CopyTyped
    <3>4. PICK next : next = [op EXCEPT !.i = @ + 1, !.pagesize = n, !.filesize = filesize]
      OBVIOUS
    <3>5. \/ next.i < op.pages /\ op' = next /\ done' = done
          \/ Return(U8(filesize))
      BY <1>5, <2>2, <2>3, <2>4, <2>5, <2>7, <2>9, <3>4 DEF ReadPage, Continue
    <3>6. CASE next.i < op.pages /\ op' = next /\ done' = done
      <4>1. next.i = op.i + 1 /\ op.i \in Byte /\ op.pages \in Byte
        BY <2>1, <3>4 DEF PageOp
      <4>2. op.i + 1 \in Byte
        <5>1. PICK i \in Byte : i = op.i
          BY <4>1
        <5>2. PICK pages \in Byte : pages = op.pages
          BY <4>1
        <5>3. i + 1 < pages
          BY <3>6, <4>1, <5>1, <5>2
        <5>4. i + 1 \in Byte
          BY <5>3 DEF Byte
        <5>5. QED
          BY <5>1, <5>4
      <4>3. next \in PageOp
        BY <2>1, <3>4, <4>2 DEF PageOp
      <4>4. QED
        BY <1>1, <1>2, <3>3, <3>6, <4>3, PageContinues
    <3>7. CASE Return(U8(filesize))
      <4>1. U8(filesize) \in Int
        <5>1. PICK u \in Byte : u = U8(filesize)
          BY U8Byte
        <5>2. u \in Int
          BY DEF Byte
        <5>3. QED
          BY <5>1, <5>2
      <4>2. QED
        BY <1>1, <3>3, <3>7, <4>1, PageReturns
    <3>8. QED
      BY <3>5, <3>6, <3>7
  <2>10. QED
    BY <2>8, <2>9
<1>6. CASE PageLost
  <2>1. Return(0) /\ buffer' = buffer
    BY <1>6 DEF PageLost
  <2>2. QED
    BY <1>1, <1>2, <2>1, PageReturns
<1>7. QED
  BY <1>1, <1>4, <1>5, <1>6

---------------------------------------------------------------------------
(* A step of another component, or none.                                   *)
LEMMA FilesStutter ==
  ASSUME IInv, UNCHANGED vars
  PROVE  IInv'
PROOF
<1>1. /\ file' = file /\ before' = before /\ buffer' = buffer /\ op' = op
      /\ done' = done
  BY DEF vars
<1>2. TypeOK'
  BY <1>1 DEF IInv, TypeOK
<1>3. FormatSoFar' /\ UpdateSoFar' /\ WrittenPrefix' /\ FormatErases'
  BY <1>1 DEF IInv, FormatSoFar, UpdateSoFar, WrittenPrefix, FormatErases, Returned
<1>4. ReadSoFar' /\ ReadsMessage'
  BY <1>1 DEF IInv, ReadSoFar, ReadsMessage, Returned
<1>5. QED
  BY <1>2, <1>3, <1>4 DEF IInv

LEMMA FilesStep ==
  ASSUME IInv, Next
  PROVE  IInv'
PROOF
<1>1. \/ CallFormatNDEF
      \/ \E data \in Datas: CallISOUpdateBinary(data)
      \/ \E maxsize \in MaxSizes: CallReadNDEFMessage(maxsize)
      \/ \E maxsize \in MaxSizes: CallISOReadFile(maxsize)
      \/ FormatNDEF \/ ISOUpdateBinary \/ ReadNDEFMessage \/ ISOReadFile
  BY DEF Next, Steps
<1>2. QED
  BY <1>1, CallsInv, FormatInv, UpdateInv, ReadInv, ReadFileInv

(* The inductive invariant, in every behaviour of the files ...            *)
THEOREM FilesInvariant == Spec => []IInv
PROOF
<1>1. Init => IInv
  BY InitInv
<1>2. IInv /\ [Next]_vars => IInv'
  BY FilesStep, FilesStutter
<1>3. QED
  BY <1>1, <1>2, PTL DEF Spec

(* ... and of a program that may use the other library instead.            *)
THEOREM MemoryInvariant == MemorySpec => []IInv
PROOF
<1>1. MemoryInit => IInv
  BY InitInv DEF MemoryInit
<1>2. IInv /\ [MemoryNext]_memoryVars => IInv'
  <2> SUFFICES ASSUME IInv, [MemoryNext]_memoryVars PROVE IInv'
    OBVIOUS
  <2>1. Next \/ UNCHANGED vars
    BY DEF MemoryNext, UsesFiles, UsesRecords, memoryVars
  <2>2. QED
    BY <2>1, FilesStep, FilesStutter
<1>3. QED
  BY <1>1, <1>2, PTL DEF MemorySpec

(* Every variable has its type, the lengths of the file among them.        *)
THEOREM FilesTypeCorrect == MemorySpec => []TypeOK
PROOF
<1>1. IInv => TypeOK
  BY DEF IInv
<1>2. QED
  BY <1>1, MemoryInvariant, PTL

(* ISOUpdateBinary leaves a prefix of the data, the whole of it when it    *)
(* returns true, over the old contents: for every data of up to 255 bytes, *)
(* every file and any exchanges lost.                                      *)
THEOREM FilesWrittenPrefix == MemorySpec => []WrittenPrefix
PROOF
<1>1. IInv => WrittenPrefix
  BY DEF IInv
<1>2. QED
  BY <1>1, MemoryInvariant, PTL

(* FormatNDEF returns true only over 248 zeros, and never writes after     *)
(* them: the rounds after its offset wraps do no harm.                     *)
THEOREM FilesFormatErases == MemorySpec => []FormatErases
PROOF
<1>1. IInv => FormatErases
  BY DEF IInv
<1>2. QED
  BY <1>1, MemoryInvariant, PTL

(* ReadNDEFMessage returns what the file holds, for every length in it and *)
(* every maxsize, and never stores more than maxsize bytes.                *)
THEOREM FilesReadsMessage == MemorySpec => []ReadsMessage
PROOF
<1>1. IInv => ReadsMessage
  BY DEF IInv
<1>2. QED
  BY <1>1, MemoryInvariant, PTL

---------------------------------------------------------------------------
(* What ISOReadFile has stored: whole pages of the data behind the header, *)
(* and no more than maxsize.                                               *)
FirstPages(o) ==
  /\ o.filesize = U8(file[2]) - 5
  /\ o.pagesize = 32 /\ o.pages = o.filesize \div 32 + 1
  /\ o.i < o.pages /\ 32 * o.i <= o.maxsize
  /\ Len(buffer) = 32 * o.i
  /\ \A j \in 1..(32 * o.i): buffer[j] = file[7 + j]
PagesSoFar ==
  op.fn = "readfile" =>
    IF op.step = "size" THEN buffer = <<>> ELSE U8(file[2]) >= 5 => FirstPages(op)
FileInv == PagesSoFar /\ ReadsFile

(* The arithmetic of page i of F bytes, for a buffer of M.                 *)
PageIs(o, i, F, M) ==
  /\ PageOffset(o) = 32 * i /\ U8(FirstByte + PageOffset(o)) = 7 + 32 * i
  /\ PageSize(o) \in 0..32
  /\ (~EarlyOut(o) /\ i + 1 < F \div 32 + 1) =>
       PageSize(o) = 32 /\ 32 * (i + 1) <= M /\ FileSizeOf(o) = F
  /\ ~(~EarlyOut(o) /\ i + 1 < F \div 32 + 1) =>
       /\ 32 * i + PageSize(o) = Smaller(F, M)
       /\ U8(FileSizeOf(o)) = Smaller(F, M)

LEMMA PageNumbers ==
  ASSUME NEW o, NEW i \in Nat, NEW F \in 0..250, NEW M \in Nat,
         o.i = i, o.pagesize = 32, o.filesize = F, o.maxsize = M,
         i < F \div 32 + 1, 32 * i <= M
  PROVE  PageIs(o, i, F, M)
PROOF
<1>1. PICK k \in 0..7 : k = F \div 32
  OBVIOUS
<1>2. 32 * k <= F /\ F < 32 * k + 32 /\ i <= k
  BY <1>1
<1>3. PICK at \in 0..224 : at = 32 * i
  BY <1>2
<1>4. PageOffset(o) = at
  <2>1. \A x \in 0..250: x % 256 = x
    OBVIOUS
  <2>2. i * 32 = at
    BY <1>3
  <2>3. QED
    BY <2>1, <2>2 DEF PageOffset, U8
<1>5. U8(FirstByte + at) = 7 + at
  BY <1>3 DEF FirstByte, U8
<1>6. at <= F /\ (i < k => at + 32 <= F) /\ (i = k => F < at + 32)
  BY <1>2, <1>3
<1>7. PICK last \in 0..32 : last = IF at + 32 > F THEN F - at ELSE 32
  BY <1>6
<1>8. LastPage(o) = last
  <2>1. at + 32 > F => (F - at) % 256 = F - at
    BY <1>6
  <2>2. QED
    BY <1>4, <1>7, <2>1 DEF LastPage, U8
<1>9. EarlyOut(o) <=> at + last > M
  BY <1>4, <1>8 DEF EarlyOut
<1>10. CASE at + last > M
  <2>1. M - at \in 0..32 /\ (M - at) % 256 = M - at /\ M < F
    BY <1>3, <1>6, <1>7, <1>10
  <2>2. PageSize(o) = M - at
    BY <1>4, <1>9, <1>10, <2>1 DEF PageSize, U8
  <2>3. FileSizeOf(o) = M /\ U8(M) = M
    BY <1>9, <1>10, <2>1 DEF FileSizeOf, U8
  <2>4. Smaller(F, M) = M
    BY <2>1 DEF Smaller
  <2>5. at + PageSize(o) = M
    BY <2>1, <2>2
  <2>6. QED
    BY <1>3, <1>4, <1>5, <1>9, <1>10, <2>1, <2>2, <2>3, <2>4, <2>5 DEF PageIs
<1>11. CASE ~(at + last > M)
  <2>1. PageSize(o) = last
    BY <1>8, <1>9, <1>11 DEF PageSize
  <2>2. FileSizeOf(o) = F /\ U8(F) = F
    BY <1>9, <1>11 DEF FileSizeOf, U8
  <2>3. i < k => last = 32 /\ 32 * (i + 1) <= M
    BY <1>3, <1>6, <1>7, <1>11
  <2>4. i = k => at + last = F /\ Smaller(F, M) = F
    BY <1>6, <1>7, <1>11 DEF Smaller
  <2>5. (i + 1 < F \div 32 + 1 <=> i < k) /\ (~(i < k) => i = k)
    BY <1>1, <1>2
  <2>6. QED
    BY <1>3, <1>4, <1>5, <1>9, <1>11, <2>1, <2>2, <2>3, <2>4, <2>5 DEF PageIs
<1>12. QED
  BY <1>10, <1>11

(* s holds the first n bytes behind the header, d what READ BINARY gave of *)
(* the page that follows.                                                  *)
Behind(s, n) == /\ s \in Seq(Nat) /\ Len(s) = n
                /\ \A j \in 1..n: s[j] = file[7 + j]
Follows(d, at, n) == /\ d \in Seq(Nat) /\ (n = 0 \/ Len(d) = n)
                     /\ \A j \in 1..Len(d): d[j] = file[7 + at + j]

LEMMA PageStored ==
  ASSUME NEW was, NEW data, NEW at \in Nat, NEW n \in Nat,
         Behind(was, at), Follows(data, at, n),
         NEW c, c = Copy(was, at, Page(data, n))
  PROVE  Behind(c, at + n)
PROOF
<1>0. /\ was \in Seq(Nat) /\ Len(was) = at /\ \A j \in 1..at: was[j] = file[7 + j]
      /\ data \in Seq(Nat) /\ (n = 0 \/ Len(data) = n)
      /\ \A j \in 1..Len(data): data[j] = file[7 + at + j]
  BY DEF Behind, Follows
<1>1. PICK p \in Seq(Nat) : p = Page(data, n)
  BY <1>0, PageTyped
<1>2. Len(p) = n /\ \A j \in 1..n: p[j] = file[7 + at + j]
  <2>1. p = [j \in 1..n |-> IF j <= Len(data) THEN data[j] ELSE 0]
    BY <1>1 DEF Page
  <2>2. Len(p) = n
    BY <1>1, <2>1, TuplesAreSequences
  <2>3. ASSUME NEW j \in 1..n PROVE p[j] = file[7 + at + j]
    <3>1. Len(data) = n
      BY <1>0, <2>3
    <3>2. QED
      BY <1>0, <2>1, <3>1
  <2>4. QED
    BY <2>2, <2>3
<1>3. CopyOf(c, was, at, p)
  BY <1>0, <1>1, Copied
<1>4. c \in Seq(Nat) /\ Len(c) = at + n
  BY <1>0, <1>2, <1>3 DEF CopyOf
<1>5. ASSUME NEW j \in 1..(at + n) PROVE c[j] = file[7 + j]
  <2>1. c[j] = IF j > at /\ j <= at + n THEN p[j - at] ELSE was[j]
    BY <1>2, <1>3, <1>4 DEF CopyOf
  <2>2. CASE j > at
    <3>1. j - at \in 1..n /\ 7 + at + (j - at) = 7 + j
      BY <2>2
    <3>2. QED
      BY <1>2, <2>1, <2>2, <3>1
  <2>3. CASE ~(j > at)
    <3>1. j \in 1..at
      BY <2>3
    <3>2. QED
      BY <1>0, <2>1, <2>3, <3>1
  <2>4. QED
    BY <2>2, <2>3
<1>6. QED
  BY <1>4, <1>5 DEF Behind

(* The second byte of the file is its size.                                *)
LEMMA SizeByte ==
  ASSUME TypeOK
  PROVE  Binary(0, 3, 8)[2] = file[2] /\ file[2] \in Nat /\ U8(file[2]) \in Byte
PROOF
<1>1. file \in Seq(Nat) /\ Len(file) = FileSize /\ 3 <= FileSize
  BY FileSizes DEF TypeOK
<1>2. PICK s : s = SubSeq(file, 1, 3)
  OBVIOUS
<1>3. Len(s) = 3 /\ \A i \in 1..3: s[i] = file[0 + i]
  <2>1. s = SubSeq(file, 0 + 1, 0 + 3) /\ 0 + 3 <= Len(file)
    BY <1>1, <1>2
  <2>2. QED
    BY <1>1, <2>1, Pieces
<1>4. Binary(0, 3, 8) = s
  BY <1>1, <1>2, <1>3 DEF Binary
<1>5. file[2] \in Nat
  BY <1>1
<1>6. QED
  BY <1>3, <1>4, <1>5, U8Byte

(* No other call is in progress, or has returned.                          *)
LEMMA OtherCalls ==
  ASSUME op'.fn # "readfile", done'.op.fn # "readfile" \/ done'.ret <= 0, done'.ret \in Int
  PROVE  FileInv'
PROOF BY DEF FileInv, PagesSoFar, ReadsFile, Returned

LEMMA NothingDone == NotDone.op.fn = "none" /\ NotDone.ret = 0
PROOF BY DEF NotDone, Idle

(* A call of ISOReadFile that returns nothing.                             *)
LEMMA ReadsNothing ==
  ASSUME TypeOK, Return(0)
  PROVE  FileInv'
PROOF
<1>1. op'.fn = "none" /\ done'.ret = 0
  BY ReturnTypes DEF TypeOK
<1>2. QED
  BY <1>1, OtherCalls

LEMMA SizeIsRead ==
  ASSUME TypeOK, FileInv, op.fn = "readfile", done = NotDone, op \in SizeOp,
         file' = file, ReadSize
  PROVE  FileInv'
PROOF
<1>1. buffer' = buffer /\ buffer = <<>> /\ op.maxsize \in Nat
  BY Sizes DEF ReadSize, FileInv, PagesSoFar, SizeOp
<1>2. PICK F \in Int : F = U8(file[2]) - 5
  BY SizeByte DEF Byte
<1>3. PICK q \in Int : q = Quotient(F, 32) + 1
  BY DEF Quotient
<1>4. /\ op' = [fn |-> "readfile", step |-> "page", maxsize |-> op.maxsize,
                filesize |-> F, pagesize |-> 32, i |-> 0, pages |-> U8(q)]
      /\ done' = done
  BY <1>2, <1>3, SizeByte DEF ReadSize, Continue
<1>5. ASSUME U8(file[2]) >= 5
      PROVE  q = F \div 32 + 1 /\ U8(q) = q /\ 0 < q
  <2>1. F \in 0..250
    BY <1>2, <1>5, SizeByte DEF Byte
  <2>2. q = F \div 32 + 1
    BY <1>3, <2>1 DEF Quotient
  <2>3. F \div 32 \in 0..7
    BY <2>1
  <2>4. q \in 1..8
    BY <2>2, <2>3
  <2>5. QED
    BY <2>2, <2>4 DEF U8
<1>6. U8(file[2]) >= 5 => FirstPages(op)'
  <2>1. Len(buffer') = 32 * 0 /\ \A j \in 1..(32 * 0): buffer'[j] = file[7 + j]
    BY <1>1
  <2>2. 32 * 0 <= op.maxsize
    BY <1>1
  <2>3. QED
    BY <1>2, <1>4, <1>5, <2>1, <2>2 DEF FirstPages
<1>7. PagesSoFar'
  BY <1>4, <1>6 DEF PagesSoFar
<1>8. ReadsFile'
  BY <1>4, NothingDone DEF ReadsFile, Returned
<1>9. QED
  BY <1>7, <1>8 DEF FileInv

(* A page of a file whose size counts its header.                          *)
LEMMA PageIsRead ==
  ASSUME TypeOK, FileInv, op.fn = "readfile", done = NotDone, op \in PageOp,
         file' = file, ReadPage, U8(file[2]) >= 5
  PROVE  FileInv'
PROOF
<1>1. file \in Seq(Nat) /\ Len(file) = FileSize /\ buffer \in Seq(Nat)
  BY DEF TypeOK
<1>2. FirstPages(op) /\ op.step = "page"
  BY DEF FileInv, PagesSoFar, PageOp
<1>3. PICK M \in Nat : M = op.maxsize
  BY Sizes DEF PageOp
<1>4. PICK F \in 0..250 : F = op.filesize /\ F = U8(file[2]) - 5
  <2>1. U8(file[2]) - 5 \in 0..250
    BY SizeByte DEF Byte
  <2>2. QED
    BY <1>2, <2>1 DEF FirstPages
<1>5. PICK i \in Nat : i = op.i
  BY SMTT(30) DEF PageOp, Byte
<1>6. /\ op.pagesize = 32 /\ op.pages = F \div 32 + 1
      /\ i < F \div 32 + 1 /\ 32 * i <= M /\ Len(buffer) = 32 * i
      /\ \A j \in 1..(32 * i): buffer[j] = file[7 + j]
  BY <1>2, <1>3, <1>4, <1>5 DEF FirstPages
<1>7. PageIs(op, i, F, M)
  BY <1>3, <1>4, <1>5, <1>6, PageNumbers
<1>8. PICK at \in Nat : at = 32 * i
  OBVIOUS
<1>9. PICK n \in 0..32 : n = PageSize(op)
  BY <1>7 DEF PageIs
<1>10. PageOffset(op) = at /\ U8(FirstByte + PageOffset(op)) = 7 + at
  BY <1>7, <1>8 DEF PageIs
<1>11. PICK data : data = Binary(7 + at, n, PageRoom)
  OBVIOUS
<1>12. CASE data = <<>>
  <2>1. Return(0)
    BY <1>9, <1>10, <1>11, <1>12 DEF ReadPage
  <2>2. QED
    BY <2>1, ReadsNothing
<1>13. CASE data # <<>>
  <2>1. ReadAt(data, 7 + at, n, PageRoom)
    <3>1. 7 + at \in Nat /\ n \in Nat /\ PageRoom \in Nat
      BY DEF PageRoom
    <3>2. QED
      BY <1>11, <1>13, <3>1, Binaries
  <2>2. /\ data \in Seq(Nat) /\ (n = 0 \/ Len(data) = n)
        /\ \A j \in 1..Len(data): data[j] = file[7 + at + j]
        /\ 7 + at + n <= FileSize
    <3>1. data \in Seq(Nat) /\ 7 + at + Len(data) <= FileSize /\ (Len(data) = n \/ n = 0)
      BY <2>1 DEF ReadAt
    <3>2. Len(data) \in Nat
      BY <3>1
    <3>3. 7 + at + n <= FileSize
      BY <3>1, <3>2, FileSizes
    <3>4. QED
      BY <2>1, <3>1, <3>3 DEF ReadAt
  <2>3. PICK c : c = Copy(buffer, at, Page(data, n))
    OBVIOUS
  <2>4. /\ c \in Seq(Nat) /\ Len(c) = at + n
        /\ \A j \in 1..(at + n): c[j] = file[7 + j]
    <3>1. Behind(buffer, at)
      BY <1>1, <1>6, <1>8 DEF Behind
    <3>2. Follows(data, at, n)
      BY <2>2 DEF Follows
    <3>3. n \in Nat
      OBVIOUS
    <3>4. Behind(c, at + n)
      BY <2>3, <3>1, <3>2, <3>3, PageStored
    <3>5. QED
      BY <3>4 DEF Behind
  <2>5. buffer' = c
    BY <1>9, <1>10, <1>11, <1>13, <2>3 DEF ReadPage
  <2>6. PICK next : next = [op EXCEPT !.i = @ + 1, !.pagesize = n, !.filesize = FileSizeOf(op)]
    OBVIOUS
  <2>7. next.i = i + 1 /\ next.pagesize = n /\ next.filesize = FileSizeOf(op)
        /\ next.fn = "readfile" /\ next.step = "page" /\ next.maxsize = M
        /\ next.pages = op.pages
    BY <1>2, <1>3, <1>5, <2>6 DEF PageOp
  <2>8. IF ~EarlyOut(op) /\ next.i < op.pages THEN op' = next /\ done' = done
        ELSE Return(U8(FileSizeOf(op)))
    BY <1>9, <1>10, <1>11, <1>13, <2>6 DEF ReadPage, Continue
  <2>9. CASE ~EarlyOut(op) /\ i + 1 < F \div 32 + 1
    <3>1. op' = next /\ done' = done
      BY <1>6, <2>7, <2>8, <2>9
    <3>2. n = 32 /\ 32 * (i + 1) <= M /\ FileSizeOf(op) = F
      BY <1>7, <1>9, <2>9 DEF PageIs
    <3>3. at + n = 32 * (i + 1)
      BY <1>8, <3>2
    <3>4. Len(buffer') = 32 * (i + 1) /\ \A j \in 1..(32 * (i + 1)): buffer'[j] = file'[7 + j]
      BY <2>4, <2>5, <3>3
    <3>5. op'.filesize = F /\ op'.pagesize = 32 /\ op'.i = i + 1 /\ op'.maxsize = M
          /\ op'.pages = F \div 32 + 1
      BY <1>6, <2>7, <3>1, <3>2
    <3>6. FirstPages(op)'
      BY <1>4, <2>9, <3>2, <3>4, <3>5 DEF FirstPages
    <3>7. PagesSoFar'
      BY <3>6, <2>7, <3>1 DEF PagesSoFar
    <3>8. ReadsFile'
      BY <3>1, NothingDone DEF ReadsFile, Returned
    <3>9. QED
      BY <3>7, <3>8 DEF FileInv
  <2>10. CASE ~(~EarlyOut(op) /\ i + 1 < F \div 32 + 1)
    <3>1. PICK ret \in Nat : ret = Smaller(F, M)
      BY DEF Smaller
    <3>2. at + n = ret /\ U8(FileSizeOf(op)) = ret
      BY <1>7, <1>8, <1>9, <2>10, <3>1 DEF PageIs
    <3>3. Return(ret)
      BY <1>6, <2>7, <2>8, <2>10, <3>2
    <3>4. op'.fn = "none" /\ done'.op = op /\ done'.ret = ret
      BY <3>3, ReturnTypes DEF TypeOK
    <3>5. buffer' = SubSeq(file, 8, 7 + ret)
      <4>0. PICK a \in Nat : a = 7
        OBVIOUS
      <4>1. PICK s : s = SubSeq(file, a + 1, a + ret)
        OBVIOUS
      <4>2. a + ret <= Len(file)
        <5>1. 7 + (at + n) <= FileSize
          BY <2>2, FileSizes
        <5>2. QED
          BY <1>1, <3>2, <4>0, <5>1
      <4>3. s \in Seq(Nat) /\ Len(s) = ret /\ \A j \in 1..ret: s[j] = file[a + j]
        BY <1>1, <4>1, <4>2, Pieces
      <4>4. c \in Seq(Nat) /\ Len(c) = ret /\ \A j \in 1..ret: c[j] = file[7 + j]
        BY <2>4, <3>2
      <4>5. c = s
        <5>1. \A j \in 1..ret: c[j] = s[j]
          BY <4>0, <4>3, <4>4
        <5>2. QED
          BY <4>3, <4>4, <5>1, SameSequence
      <4>6. QED
        BY <2>5, <4>0, <4>1, <4>5
    <3>6. ReadsFile'
      BY <1>3, <1>4, <3>1, <3>4, <3>5 DEF ReadsFile
    <3>7. PagesSoFar'
      BY <3>4 DEF PagesSoFar
    <3>8. QED
      BY <3>6, <3>7 DEF FileInv
  <2>11. QED
    BY <2>9, <2>10
<1>14. QED
  BY <1>12, <1>13

(* A page of a file whose size byte means nothing.                         *)
LEMMA PageOfNoSize ==
  ASSUME TypeOK, op.fn = "readfile", done = NotDone, op \in PageOp,
         file' = file, ReadPage, ~(U8(file[2]) >= 5)
  PROVE  FileInv'
PROOF
<1>1. ReadsFile'
  BY DEF ReadsFile
<1>2. op'.fn = "readfile" => op'.step = "page"
  <2>1. op' = Idle \/ op' = [op EXCEPT !.i = @ + 1, !.pagesize = PageSize(op),
                                       !.filesize = FileSizeOf(op)]
    BY DEF ReadPage, Return, Continue
  <2>2. Idle.fn = "none"
    BY DEF Idle
  <2>3. QED
    BY <2>1, <2>2 DEF PageOp
<1>3. PagesSoFar'
  BY <1>2 DEF PagesSoFar
<1>4. QED
  BY <1>1, <1>3 DEF FileInv

LEMMA FileIsRead ==
  ASSUME IInv, FileInv, ISOReadFile
  PROVE  FileInv'
PROOF
<1>1. /\ TypeOK /\ op.fn = "readfile" /\ op \in Ops /\ done = NotDone /\ file' = file
      /\ ReadSize \/ ReadPage \/ PageLost
  BY DEF IInv, TypeOK, Idle, ISOReadFile
<1>2. (op.step = "size" => op \in SizeOp) /\ (op.step = "page" => op \in PageOp)
  BY <1>1, OpNames
<1>3. CASE ReadSize
  <2>1. op.step = "size"
    BY <1>3 DEF ReadSize
  <2>2. QED
    BY <1>1, <1>2, <1>3, <2>1, SizeIsRead
<1>4. CASE ReadPage
  <2>1. op.step = "page"
    BY <1>4 DEF ReadPage
  <2>2. QED
    BY <1>1, <1>2, <1>4, <2>1, PageIsRead, PageOfNoSize
<1>5. CASE PageLost
  BY <1>1, <1>5, ReadsNothing DEF PageLost
<1>6. QED
  BY <1>1, <1>3, <1>4, <1>5

(* What a step makes of the call in progress.                              *)
StaysOrEnds == (op' = Idle /\ done'.op = op) \/ (op'.fn = op.fn /\ done' = done)

LEMMA GoingOn ==
  ASSUME NEW next, next.fn = op.fn, Continue(next) \/ \E ret: Return(ret)
  PROVE  StaysOrEnds
PROOF
<1>1. CASE Continue(next)
  BY <1>1 DEF Continue, StaysOrEnds
<1>2. ASSUME NEW ret, Return(ret) PROVE StaysOrEnds
  <2>1. op' = Idle /\ done' = [op |-> op, ret |-> ret]
    BY <1>2 DEF Return
  <2>2. done'.op = op
    BY <2>1
  <2>3. QED
    BY <2>1, <2>2 DEF StaysOrEnds
<1>3. QED
  BY <1>1, <1>2

(* The other operations do not come in between.                            *)
LEMMA OthersRead ==
  ASSUME IInv, FormatNDEF \/ ISOUpdateBinary \/ ReadNDEFMessage
  PROVE  FileInv'
PROOF
<1>1. TypeOK /\ op.fn \in {"format", "update", "read"} /\ op \in Ops
  BY DEF IInv, TypeOK, FormatNDEF, ISOUpdateBinary, ReadNDEFMessage
<1>2. done = NotDone
  BY <1>1 DEF TypeOK, Idle
<1>3. /\ op.fn = "format" => op \in FormatOp
      /\ op.fn = "update" => op \in UpdateOp
      /\ op.fn = "read" => op \in NLenOp \/ op \in DataOp
  BY <1>1, OpNames
<1>4. StaysOrEnds
  <2>1. CASE FormatNDEF
    <3>1. op \in FormatOp
      BY <1>3, <2>1 DEF FormatNDEF
    <3>2. PICK status \in BOOLEAN : FormatWrite(status)
      BY <2>1 DEF FormatNDEF
    <3>3. PICK next : next = [op EXCEPT !.offset = U8(op.offset + FormatChunk),
                                        !.ok = Formatted(op.ok, status)]
      OBVIOUS
    <3>4. Continue(next) \/ \E ret: Return(ret)
      BY <3>2, <3>3 DEF FormatWrite
    <3>5. next.fn = op.fn
      BY <3>1, <3>3 DEF FormatOp
    <3>6. QED
      BY <3>4, <3>5, GoingOn
  <2>2. CASE ISOUpdateBinary
    <3>1. op \in UpdateOp
      BY <1>3, <2>2 DEF ISOUpdateBinary
    <3>2. Advanced(op).fn = op.fn
      BY <3>1 DEF Advanced, UpdateOp
    <3>3. Continue(Advanced(op)) \/ \E ret: Return(ret)
      BY <2>2 DEF ISOUpdateBinary, UpdateDone, UpdateLost, UpdateChunkWritten
    <3>4. QED
      BY <3>2, <3>3, GoingOn
  <2>3. CASE ReadNDEFMessage
    <3>1. op.fn = "read" /\ (op \in NLenOp \/ op \in DataOp)
      BY <1>3, <2>3 DEF ReadNDEFMessage
    <3>2. CASE ReadNLen
      <4>1. PICK total : total = Smaller(NLen(Binary(0, 2, 8)), op.maxsize)
        OBVIOUS
      <4>2. PICK next : next = [fn |-> "read", step |-> "data", maxsize |-> op.maxsize,
                                total_to_read |-> total, total_read |-> 0]
        OBVIOUS
      <4>3. Continue(next) \/ \E ret: Return(ret)
        BY <3>2, <4>1, <4>2 DEF ReadNLen
      <4>4. next.fn = op.fn
        BY <3>1, <4>2
      <4>5. QED
        BY <4>3, <4>4, GoingOn
    <3>3. CASE ReadData
      <4>1. op \in DataOp
        BY <3>1, <3>3 DEF ReadData, NLenOp
      <4>2. QED
        <5>1. PICK total : total = op.total_read +
                             Len(Binary(MessageOffset(op), ChunkOf(op), ReadRoom))
          OBVIOUS
        <5>2. Continue([op EXCEPT !.total_read = total]) \/ \E ret: Return(ret)
          BY <3>3, <5>1 DEF ReadData
        <5>3. [op EXCEPT !.total_read = total].fn = op.fn
          BY <4>1 DEF DataOp
        <5>4. QED
          BY <5>2, <5>3, GoingOn
    <3>4. CASE ReadLost
      BY <3>4, GoingOn DEF ReadLost
    <3>5. QED
      BY <2>3, <3>2, <3>3, <3>4 DEF ReadNDEFMessage
  <2>4. QED
    BY <2>1, <2>2, <2>3
<1>5. op'.fn # "readfile" /\ done'.op.fn # "readfile"
  BY <1>1, <1>2, <1>4, NothingDone DEF Idle, StaysOrEnds
<1>6. QED
  BY <1>5 DEF FileInv, PagesSoFar, ReadsFile, Returned

LEMMA CallsRead ==
  ASSUME \/ CallFormatNDEF
         \/ \E data \in Datas: CallISOUpdateBinary(data)
         \/ \E maxsize \in MaxSizes: CallReadNDEFMessage(maxsize)
         \/ \E maxsize \in MaxSizes: CallISOReadFile(maxsize)
  PROVE  FileInv'
PROOF
<1>1. Begin
  BY DEF CallFormatNDEF, CallISOUpdateBinary, CallReadNDEFMessage, CallISOReadFile
<1>2. buffer' = <<>> /\ done' = NotDone
  BY <1>1 DEF Begin
<1>3. op'.fn = "readfile" => op'.step = "size"
  BY DEF CallFormatNDEF, CallISOUpdateBinary, CallReadNDEFMessage, CallISOReadFile
<1>4. QED
  BY <1>2, <1>3, NothingDone DEF FileInv, PagesSoFar, ReadsFile, Returned

LEMMA FilesFileInv == MemorySpec => []FileInv
PROOF
<1>1. MemoryInit => FileInv
  BY NothingDone DEF MemoryInit, Init, FileInv, PagesSoFar, ReadsFile, Returned, Idle
<1>2. IInv /\ FileInv /\ [MemoryNext]_memoryVars => FileInv'
  <2> SUFFICES ASSUME IInv, FileInv, [MemoryNext]_memoryVars PROVE FileInv'
    OBVIOUS
  <2>1. Next \/ UNCHANGED vars
    BY DEF MemoryNext, UsesFiles, UsesRecords, memoryVars
  <2>2. CASE Next
    BY <2>2, FileIsRead, OthersRead, CallsRead DEF Next, Steps
  <2>3. CASE UNCHANGED vars
    BY <2>3 DEF vars, FileInv, PagesSoFar, FirstPages, ReadsFile, Returned
  <2>4. QED
    BY <2>1, <2>2, <2>3
<1>3. QED
  BY <1>1, <1>2, MemoryInvariant, PTL DEF MemorySpec

(* ISOReadFile returns the size the file's second byte gives, or maxsize,  *)
(* and that much of the data, for every size and every maxsize.            *)
THEOREM FilesReadsFile == MemorySpec => []ReadsFile
PROOF
<1>1. FileInv => ReadsFile
  BY DEF FileInv
<1>2. QED
  BY <1>1, FilesFileInv, PTL

---------------------------------------------------------------------------
(* When no exchange is lost, a call succeeds.                              *)

(* What Completes asks of a call o that returned ret, the file being f.    *)
Promised(f, o, ret) ==
  /\ o.fn = "format" \/ o.fn = "update" => ret = 1
  /\ o.fn = "read" /\ o.maxsize > 0 /\ NLen(f) <= FileSize - 2 => ret >= 0
  /\ o.fn = "readfile" /\ U8(f[2]) \in 6..(FileSize - 2)
     /\ Smaller(U8(f[2]) - 5, o.maxsize) % 32 # 0 => ret > 0

CompleteInv ==
  /\ op.fn = "format" /\ ~faulted => op.ok
  /\ Completes

LEMMA LossExcuses == ASSUME faulted' PROVE CompleteInv'
PROOF BY DEF CompleteInv, Completes

LEMMA InProgress ==
  ASSUME done' = NotDone, op'.fn = "format" /\ ~faulted' => op'.ok
  PROVE  CompleteInv'
PROOF
<1>1. done'.op.fn = "none"
  BY NothingDone
<1>2. QED
  BY <1>1 DEF CompleteInv, Completes, Returned

LEMMA ReturnsPromised ==
  ASSUME op \in Ops, NEW ret \in Int, Return(ret), Promised(file', op, ret)
  PROVE  CompleteInv'
PROOF
<1>1. op'.fn = "none" /\ done'.op = op /\ done'.ret = ret
  BY ReturnTypes
<1>2. Completes'
  BY <1>1 DEF Completes, Returned, Promised
<1>3. QED
  BY <1>1, <1>2 DEF CompleteInv

LEMMA FormatCompletes ==
  ASSUME IInv, CompleteInv, FormatNDEF
  PROVE  CompleteInv'
PROOF
<1>1. op.fn = "format" /\ op \in Ops /\ op \in FormatOp /\ done = NotDone
  BY OpNames DEF IInv, TypeOK, Idle, FormatNDEF
<1>2. PICK status \in BOOLEAN : FormatWrite(status)
  BY DEF FormatNDEF
<1>3. CASE ~status
  <2>1. faulted'
    BY <1>2, <1>3 DEF FormatWrite, LoseWrite, Lose
  <2>2. QED
    BY <2>1, LossExcuses
<1>4. CASE faulted
  <2>1. faulted'
    BY <1>2, <1>4 DEF FormatWrite, LoseWrite, Lose, Write, Keep
  <2>2. QED
    BY <2>1, LossExcuses
<1>5. CASE status /\ ~faulted
  <2>1. op.ok /\ op.ok \in BOOLEAN
    BY <1>1, <1>5 DEF CompleteInv, FormatOp
  <2>2. Formatted(op.ok, status)
    BY <1>5, <2>1 DEF Formatted
  <2>3. PICK ok \in BOOLEAN : ok = Formatted(op.ok, status)
    BY <2>1 DEF Formatted
  <2>4. PICK next : next = [op EXCEPT !.offset = U8(op.offset + FormatChunk), !.ok = ok]
    OBVIOUS
  <2>5. Continue(next) \/ Return(IF ok THEN 1 ELSE 0)
    BY <1>2, <2>3, <2>4 DEF FormatWrite
  <2>6. CASE Continue(next)
    <3>1. op'.ok
      BY <1>1, <2>2, <2>3, <2>4, <2>6 DEF Continue, FormatOp
    <3>2. done' = NotDone
      BY <1>1, <2>6 DEF Continue
    <3>3. QED
      BY <3>1, <3>2, InProgress
  <2>7. CASE Return(IF ok THEN 1 ELSE 0)
    <3>1. Return(1)
      BY <2>2, <2>3, <2>7
    <3>2. Promised(file', op, 1)
      BY <1>1 DEF Promised
    <3>3. QED
      BY <1>1, <3>1, <3>2, ReturnsPromised
  <2>8. QED
    BY <2>5, <2>6, <2>7
<1>6. QED
  BY <1>3, <1>4, <1>5

LEMMA UpdateCompletes ==
  ASSUME IInv, CompleteInv, ISOUpdateBinary
  PROVE  CompleteInv'
PROOF
<1>1. op.fn = "update" /\ op \in Ops /\ op \in UpdateOp /\ done = NotDone
  BY OpNames DEF IInv, TypeOK, Idle, ISOUpdateBinary
<1>2. CASE UpdateDone
  <2>1. Promised(file', op, 1)
    BY <1>1 DEF Promised
  <2>2. QED
    BY <1>1, <1>2, <2>1, ReturnsPromised DEF UpdateDone
<1>3. CASE UpdateLost
  BY <1>3, LossExcuses DEF UpdateLost, LoseWrite, Lose
<1>4. CASE UpdateChunkWritten
  <2>1. op' = Advanced(op) /\ done' = NotDone
    BY <1>1, <1>4 DEF UpdateChunkWritten, Continue
  <2>2. op'.fn = "update"
    BY <1>1, <2>1 DEF Advanced, UpdateOp
  <2>3. QED
    BY <2>1, <2>2, InProgress
<1>5. QED
  BY <1>2, <1>3, <1>4 DEF ISOUpdateBinary

(* READ BINARY of bytes the file has gives them, if they fit the buffer.   *)
LEMMA BinaryGiven ==
  ASSUME TypeOK, NEW n \in Nat, NEW le \in Nat, NEW room \in Nat,
         le > 0, n + le <= FileSize, le + 2 <= room
  PROVE  Binary(n, le, room) # <<>>
PROOF
<1>1. file \in Seq(Nat) /\ Len(file) = FileSize
  BY DEF TypeOK
<1>2. PICK s : s = SubSeq(file, n + 1, n + le)
  OBVIOUS
<1>3. s \in Seq(Nat) /\ Len(s) = le
  BY <1>1, <1>2, Pieces
<1>4. Binary(n, le, room) = s
  BY <1>2, <1>3 DEF Binary
<1>5. s # <<>>
  BY <1>3
<1>6. QED
  BY <1>4, <1>5

(* A chunk of a message of at most 255 bytes is never empty: the uint8_t   *)
(* loses nothing.                                                          *)
LEMMA ChunkGiven ==
  ASSUME NEW total \in 0..255, NEW read \in Nat, read < total,
         NEW chunk, chunk = Smaller(U8(total - read), ReadChunk)
  PROVE  chunk \in 1..48 /\ read + chunk <= total
PROOF
<1>1. PICK left \in 1..255 : left = total - read
  OBVIOUS
<1>2. U8(left) = left
  BY <1>1 DEF U8
<1>3. chunk = IF left <= 48 THEN left ELSE 48
  BY <1>1, <1>2 DEF Smaller, ReadChunk
<1>4. QED
  BY <1>1, <1>3

LEMMA ReadCompletes ==
  ASSUME FileSize <= 257, IInv, CompleteInv, ReadNDEFMessage
  PROVE  CompleteInv'
PROOF
<1>1. /\ TypeOK /\ op.fn = "read" /\ op \in Ops /\ done = NotDone /\ file' = file
      /\ op \in NLenOp \/ op \in DataOp
  BY OpNames DEF IInv, TypeOK, Idle, ReadNDEFMessage
<1>2. CASE ReadLost
  BY <1>2, LossExcuses DEF ReadLost, Lose
<1>3. CASE ReadNLen
  <2>1. PICK nlen \in Nat : nlen = NLen(Binary(0, 2, 8))
    BY <1>1, NLenRead
  <2>2. PICK next : next = [fn |-> "read", step |-> "data", maxsize |-> op.maxsize,
                            total_to_read |-> Smaller(nlen, op.maxsize), total_read |-> 0]
    OBVIOUS
  <2>3. IF op.maxsize = 0 THEN Return(-1) ELSE IF nlen = 0 THEN Return(0) ELSE Continue(next)
    BY <1>3, <2>1, <2>2 DEF ReadNLen
  <2>4. CASE op.maxsize = 0
    <3>1. Promised(file', op, -1)
      BY <1>1, <2>4 DEF Promised
    <3>2. QED
      BY <1>1, <2>3, <2>4, <3>1, ReturnsPromised
  <2>5. CASE op.maxsize # 0 /\ nlen = 0
    <3>1. Promised(file', op, 0)
      BY <1>1 DEF Promised
    <3>2. QED
      BY <1>1, <2>3, <2>5, <3>1, ReturnsPromised
  <2>6. CASE op.maxsize # 0 /\ nlen # 0
    <3>1. op' = next /\ done' = NotDone
      BY <1>1, <2>3, <2>6 DEF Continue
    <3>2. op'.fn = "read"
      BY <2>2, <3>1
    <3>3. QED
      BY <3>1, <3>2, InProgress
  <2>7. QED
    BY <2>4, <2>5, <2>6
<1>4. CASE ReadData
  <2>1. op.step = "data" /\ op \in DataOp
    BY <1>1, <1>4 DEF ReadData, NLenOp
  <2>2. PICK read \in Nat : read = op.total_read
    BY <2>1 DEF DataOp
  <2>3. PICK total \in Nat : total = op.total_to_read
    BY <2>1 DEF DataOp
  <2>4. PICK data : data = Binary(2 + read, ChunkOf(op), ReadRoom)
    OBVIOUS
  <2>5. MessageOffset(op) = 2 + read
    BY <2>2 DEF MessageOffset
  <2>6. CASE data = <<>>
    <3>1. Return(-1)
      BY <1>4, <2>4, <2>5, <2>6 DEF ReadData
    <3>2. ~(NLen(file) <= FileSize - 2)
      <4> SUFFICES ASSUME NLen(file) <= FileSize - 2 PROVE FALSE
        OBVIOUS
      <4>1. NLen(file) \in 0..255
        BY <1>1, NLenRead, FileSizes
      <4>2. total = Smaller(NLen(file), op.maxsize) /\ read < total
        BY <1>1, <2>1, <2>2, <2>3 DEF IInv, ReadSoFar
      <4>3. total <= NLen(file)
        <5>1. op.maxsize \in Nat
          BY <2>1, Sizes DEF DataOp
        <5>2. QED
          BY <4>1, <4>2, <5>1 DEF Smaller
      <4>4. PICK chunk : chunk = Smaller(U8(total - read), ReadChunk)
        OBVIOUS
      <4>5. chunk \in 1..48 /\ read + chunk <= total
        <5>1. total \in 0..255
          BY <4>1, <4>3
        <5>2. QED
          BY <4>2, <4>4, <5>1, ChunkGiven, ZenonT(40)
      <4>6. ChunkOf(op) = chunk
        BY <2>2, <2>3, <4>4 DEF ChunkOf
      <4>7. (2 + read) + chunk <= FileSize /\ 2 + read \in Nat
        BY <4>1, <4>3, <4>5, FileSizes
      <4>8. chunk \in Nat /\ chunk > 0 /\ chunk + 2 <= ReadRoom /\ ReadRoom \in Nat
        BY <4>5 DEF ReadRoom
      <4>9. Binary(2 + read, chunk, ReadRoom) # <<>>
        BY <1>1, <4>7, <4>8, BinaryGiven
      <4>10. QED
        BY <2>4, <2>6, <4>6, <4>9
    <3>3. Promised(file', op, -1)
      BY <1>1, <3>2 DEF Promised
    <3>4. QED
      BY <1>1, <3>1, <3>3, ReturnsPromised
  <2>7. CASE data # <<>>
    <3>1. PICK ret \in Nat : ret = read + Len(data)
      <4>1. data \in Seq(Nat)
        <5>1. ChunkOf(op) \in Nat
          <6>1. U8(total - read) \in Nat
            BY DEF U8
          <6>2. QED
            BY <2>2, <2>3, <6>1 DEF ChunkOf, Smaller, ReadChunk
        <5>2. 2 + read \in Nat /\ ReadRoom \in Nat
          BY DEF ReadRoom
        <5>3. ReadAt(data, 2 + read, ChunkOf(op), ReadRoom)
          BY <1>1, <2>4, <2>7, <5>1, <5>2, Binaries
        <5>4. QED
          BY <5>3 DEF ReadAt
      <4>2. QED
        BY <4>1
    <3>2. PICK next : next = [op EXCEPT !.total_read = ret]
      OBVIOUS
    <3>3. Continue(next) \/ Return(ret)
      BY <1>4, <2>2, <2>4, <2>5, <2>7, <3>1, <3>2 DEF ReadData
    <3>4. CASE Continue(next)
      <4>1. op' = next /\ done' = NotDone
        BY <1>1, <3>4 DEF Continue
      <4>2. op'.fn = "read"
        BY <2>1, <3>2, <4>1 DEF DataOp
      <4>3. QED
        BY <4>1, <4>2, InProgress
    <3>5. CASE Return(ret)
      <4>1. Promised(file', op, ret)
        BY <1>1 DEF Promised
      <4>2. QED
        BY <1>1, <3>5, <4>1, ReturnsPromised
    <3>6. QED
      BY <3>3, <3>4, <3>5
  <2>8. QED
    BY <2>6, <2>7
<1>5. QED
  BY <1>2, <1>3, <1>4 DEF ReadNDEFMessage

(* Page i of a file of which S bytes are read is not empty, nor is S 0.    *)
LEMMA PageGiven ==
  ASSUME NEW o, NEW i \in Nat, NEW F \in 0..250, NEW M \in Nat, PageIs(o, i, F, M),
         i < F \div 32 + 1, 32 * i <= M, Smaller(F, M) % 32 # 0,
         NEW n, n = PageSize(o)
  PROVE  /\ n \in 1..32 /\ 7 + 32 * i + n <= 7 + F
         /\ Smaller(F, M) > 0
PROOF
<1>1. PICK S \in 0..250 : S = Smaller(F, M) /\ S <= F
  BY DEF Smaller
<1>2. 32 * i <= F
  <2>1. PICK k \in 0..7 : k = F \div 32
    OBVIOUS
  <2>2. 32 * k <= F /\ i <= k
    BY <2>1
  <2>3. QED
    BY <2>2
<1>3. PICK at \in 0..250 : at = 32 * i
  BY <1>2
<1>4. at <= S
  BY <1>1, <1>2, <1>3 DEF Smaller
<1>5. at # S
  <2>1. at % 32 = 0
    BY <1>3
  <2>2. QED
    BY <1>1, <2>1
<1>6. n \in 0..32
  BY DEF PageIs
<1>7. CASE ~EarlyOut(o) /\ i + 1 < F \div 32 + 1
  <2>1. n = 32
    BY <1>7 DEF PageIs
  <2>2. PICK k \in 0..7 : k = F \div 32
    OBVIOUS
  <2>3. 32 * k <= F /\ i + 1 <= k
    BY <1>7, <2>2
  <2>4. 32 * (i + 1) <= F
    BY <2>3
  <2>5. QED
    BY <1>1, <1>3, <1>4, <1>5, <2>1, <2>4
<1>8. CASE ~(~EarlyOut(o) /\ i + 1 < F \div 32 + 1)
  <2>1. at + n = S
    BY <1>1, <1>3, <1>8 DEF PageIs
  <2>2. QED
    BY <1>1, <1>3, <1>4, <1>5, <1>6, <2>1
<1>9. QED
  BY <1>7, <1>8

LEMMA PageCompletes ==
  ASSUME IInv, FileInv, CompleteInv, op.fn = "readfile", op \in PageOp, done = NotDone,
         file' = file, ReadPage
  PROVE  CompleteInv'
PROOF
<1>1. TypeOK /\ op \in Ops
  BY DEF IInv, TypeOK
<1>2. PICK next : next = [op EXCEPT !.i = @ + 1, !.pagesize = PageSize(op),
                                    !.filesize = FileSizeOf(op)]
  OBVIOUS
<1>3. CASE Continue(next)
  <2>1. op' = next /\ done' = NotDone
    BY <1>3 DEF Continue
  <2>2. op'.fn = "readfile"
    BY <1>2, <2>1 DEF PageOp
  <2>3. QED
    BY <2>1, <2>2, InProgress
<1>4. ASSUME NEW ret \in Int, Return(ret),
             ~(U8(file[2]) \in 6..(FileSize - 2)
               /\ Smaller(U8(file[2]) - 5, op.maxsize) % 32 # 0)
      PROVE  CompleteInv'
  <2>1. Promised(file', op, ret)
    BY <1>4 DEF Promised
  <2>2. QED
    BY <1>1, <1>4, <2>1, ReturnsPromised
<1>5. ASSUME U8(file[2]) \in 6..(FileSize - 2),
             Smaller(U8(file[2]) - 5, op.maxsize) % 32 # 0, ~Continue(next)
      PROVE  CompleteInv'
  <2>1. FirstPages(op)
    <3>1. op.step = "page" /\ U8(file[2]) >= 5
      BY <1>5, FileSizes DEF PageOp
    <3>2. QED
      BY <3>1 DEF FileInv, PagesSoFar
  <2>2. PICK M \in Nat : M = op.maxsize
    BY Sizes DEF PageOp
  <2>3. PICK F \in 0..250 : F = op.filesize /\ F = U8(file[2]) - 5 /\ F + 7 <= FileSize
    <3>1. PICK z \in 6..255 : z = U8(file[2]) /\ z <= FileSize - 2
      BY <1>1, <1>5, SizeByte, FileSizes DEF Byte
    <3>2. z - 5 \in 0..250 /\ z - 5 + 7 <= FileSize
      BY <3>1, FileSizes
    <3>3. QED
      BY <2>1, <3>1, <3>2 DEF FirstPages
  <2>4. PICK i \in Nat : i = op.i
    BY DEF PageOp, Byte
  <2>5. op.pagesize = 32 /\ op.pages = F \div 32 + 1 /\ i < F \div 32 + 1 /\ 32 * i <= M
    BY <2>1, <2>2, <2>3, <2>4, SMTT(30) DEF FirstPages
  <2>6. PageIs(op, i, F, M)
    BY <2>2, <2>3, <2>4, <2>5, PageNumbers
  <2>7. PICK n : n = PageSize(op)
    OBVIOUS
  <2>8. /\ n \in 1..32 /\ 7 + 32 * i + n <= 7 + F
        /\ Smaller(F, M) > 0
    BY <1>5, <2>2, <2>3, <2>5, <2>6, <2>7, PageGiven
  <2>9. PICK at \in Nat : at = 7 + 32 * i /\ at + n <= FileSize
    BY <2>3, <2>8, FileSizes
  <2>10. Binary(at, n, PageRoom) # <<>>
    <3>1. n \in Nat /\ n > 0 /\ PageRoom \in Nat /\ n + 2 <= PageRoom
      BY <2>8 DEF PageRoom
    <3>2. QED
      BY <1>1, <2>9, <3>1, BinaryGiven
  <2>11. U8(FirstByte + PageOffset(op)) = at
    BY <2>6, <2>9 DEF PageIs
  <2>12. Return(U8(FileSizeOf(op))) /\ ~(~EarlyOut(op) /\ next.i < op.pages)
    BY <1>2, <1>5, <2>7, <2>10, <2>11 DEF ReadPage
  <2>13. next.i = i + 1
    BY <1>2, <2>4 DEF PageOp
  <2>14. PICK ret \in Nat : ret = Smaller(F, M) /\ ret > 0
    BY <2>8 DEF Smaller
  <2>15. U8(FileSizeOf(op)) = ret
    BY <2>5, <2>6, <2>12, <2>13, <2>14 DEF PageIs
  <2>16. Promised(file', op, ret)
    BY <2>14 DEF Promised
  <2>17. QED
    BY <1>1, <2>12, <2>15, <2>16, ReturnsPromised
<1>6. Continue(next) \/ \E ret \in Int: Return(ret)
  <2>1. Continue(next) \/ Return(0) \/ Return(U8(FileSizeOf(op)))
    BY <1>2 DEF ReadPage
  <2>2. U8(FileSizeOf(op)) \in Int
    <3>1. FileSizeOf(op) \in Int
      <4>1. op.maxsize \in Int /\ op.filesize \in Int
        <5>1. op.filesize \in Int
          BY DEF PageOp
        <5>2. PICK M \in Nat : M = op.maxsize
          BY Sizes DEF PageOp
        <5>3. QED
          BY <5>1, <5>2
      <4>2. QED
        BY <4>1 DEF FileSizeOf
    <3>2. QED
      BY <3>1, U8Byte DEF Byte
  <2>3. QED
    BY <2>1, <2>2
<1>7. QED
  BY <1>3, <1>4, <1>5, <1>6

LEMMA ReadFileCompletes ==
  ASSUME IInv, FileInv, CompleteInv, ISOReadFile
  PROVE  CompleteInv'
PROOF
<1>1. /\ TypeOK /\ op.fn = "readfile" /\ op \in Ops /\ done = NotDone /\ file' = file
      /\ ReadSize \/ ReadPage \/ PageLost
  BY DEF IInv, TypeOK, Idle, ISOReadFile
<1>2. CASE PageLost
  BY <1>2, LossExcuses DEF PageLost, Lose
<1>3. CASE ReadSize
  <2>1. op'.fn = "readfile" /\ done' = NotDone
    BY <1>1, <1>3 DEF ReadSize, Continue
  <2>2. QED
    BY <2>1, InProgress
<1>4. CASE ReadPage
  <2>1. op \in PageOp
    BY <1>1, <1>4, OpNames DEF ReadPage
  <2>2. QED
    BY <1>1, <1>4, <2>1, PageCompletes
<1>5. QED
  BY <1>1, <1>2, <1>3, <1>4

LEMMA CallsComplete ==
  ASSUME \/ CallFormatNDEF
         \/ \E data \in Datas: CallISOUpdateBinary(data)
         \/ \E maxsize \in MaxSizes: CallReadNDEFMessage(maxsize)
         \/ \E maxsize \in MaxSizes: CallISOReadFile(maxsize)
  PROVE  CompleteInv'
PROOF
<1>1. done' = NotDone
  BY DEF CallFormatNDEF, CallISOUpdateBinary, CallReadNDEFMessage, CallISOReadFile, Begin
<1>2. op'.fn = "format" => op'.ok
  BY DEF CallFormatNDEF, CallISOUpdateBinary, CallReadNDEFMessage, CallISOReadFile
<1>3. QED
  BY <1>1, <1>2, InProgress

(* When no exchange is lost every call succeeds, on a file of at most 257  *)
(* bytes; the tag's file has 256.  (In a larger one the length left to     *)
(* read can be a multiple of 256, which the uint8_t of the chunk makes 0.) *)
THEOREM FilesComplete ==
  ASSUME FileSize <= 257
  PROVE  MemorySpec => []Completes
PROOF
<1>1. MemoryInit => CompleteInv
  BY NothingDone DEF MemoryInit, Init, CompleteInv, Completes, Returned, Idle
<1>2. IInv /\ FileInv /\ CompleteInv /\ [MemoryNext]_memoryVars => CompleteInv'
  <2> SUFFICES ASSUME IInv, FileInv, CompleteInv, [MemoryNext]_memoryVars PROVE CompleteInv'
    OBVIOUS
  <2>1. Next \/ UNCHANGED vars
    BY DEF MemoryNext, UsesFiles, UsesRecords, memoryVars
  <2>2. CASE Next
    BY <2>2, FormatCompletes, UpdateCompletes, ReadCompletes, ReadFileCompletes, CallsComplete
    DEF Next, Steps
  <2>3. CASE UNCHANGED vars
    BY <2>3 DEF vars, CompleteInv, Completes, Returned
  <2>4. QED
    BY <2>1, <2>2, <2>3
<1>3. CompleteInv => Completes
  BY DEF CompleteInv
<1>4. QED
  BY <1>1, <1>2, <1>3, MemoryInvariant, FilesFileInv, PTL DEF MemorySpec
===========================================================================
