-------------------------- MODULE UriRecordsProofs --------------------------
(***************************************************************************)
(* Proofs about UriRecords: for urls of every length, NTAG2xx tags of      *)
(* every size an uint8_t holds, and any number of calls, writes lost and   *)
(* writes refused.                                                         *)
(***************************************************************************)
EXTENDS TagMemory, BuffersProofs, TLAPS

---------------------------------------------------------------------------
(* Lengths and sequences.                                                  *)

LEMMA U8Range == \A n \in Nat: U8(n) \in Nat /\ U8(n) <= 255 /\ U8(n) <= n
PROOF BY DEF U8

LEMMA U8Same == \A n \in 0..255: U8(n) = n
PROOF BY DEF U8

(* One sequence behind another.                                            *)
Join(r, s, t) ==
  /\ r \in Seq(Nat) /\ Len(r) = Len(s) + Len(t)
  /\ \A i \in 1..Len(r): r[i] = IF i <= Len(s) THEN s[i] ELSE t[i - Len(s)]

LEMMA Joined ==
  ASSUME NEW s \in Seq(Nat), NEW t \in Seq(Nat)
  PROVE  Join(s \o t, s, t)
PROOF
<1>0. s \o t \in Seq(Nat)
  OBVIOUS
<1>1. PICK r \in Seq(Nat) : r = s \o t
  BY <1>0, Zenon
<1>2. Len(r) = Len(s) + Len(t)
  BY <1>1
<1>3. \A i \in 1..Len(r): r[i] = IF i <= Len(s) THEN s[i] ELSE t[i - Len(s)]
  BY <1>1
<1>4. QED
  BY <1>1, <1>2, <1>3, Zenon DEF Join

(* The same by the places of each.                                         *)
Chain(r, s, t, n, m) ==
  /\ r \in Seq(Nat) /\ Len(r) = n + m
  /\ \A i \in 1..n: r[i] = s[i]
  /\ \A i \in 1..m: r[n + i] = t[i]

LEMMA Behind ==
  ASSUME NEW s \in Seq(Nat), NEW t \in Seq(Nat), NEW n \in Nat, NEW m \in Nat,
         Len(s) = n, Len(t) = m, NEW r, r = s \o t
  PROVE  Chain(r, s, t, n, m)
PROOF
<1>1. Join(r, s, t)
  BY Joined
<1>2. /\ r \in Seq(Nat) /\ Len(r) = n + m
      /\ \A i \in 1..(n + m): r[i] = IF i <= n THEN s[i] ELSE t[i - n]
  BY <1>1 DEF Join
<1>3. \A i \in 1..n: r[i] = s[i]
  BY <1>2
<1>4. \A i \in 1..m: r[n + i] = t[i]
  <2>1. TAKE i \in 1..m
  <2>2. PICK q \in 1..(n + m) : q = n + i
    OBVIOUS
  <2>3. r[q] = IF q <= n THEN s[q] ELSE t[q - n]
    BY <1>2
  <2>4. QED
    BY <2>2, <2>3
<1>5. QED
  BY <1>2, <1>3, <1>4, Zenon DEF Chain

LEMMA PaddedIs ==
  ASSUME NEW s \in Seq(Nat), NEW n \in Nat, Len(s) <= n
  PROVE  /\ Padded(s, n) \in Seq(Nat) /\ Len(Padded(s, n)) = n
         /\ \A i \in 1..Len(s): Padded(s, n)[i] = s[i]
PROOF
<1>1. Zeros(n) \in [1..n -> Nat]
  BY DEF Zeros
<1>2. Zeros(n) \in Seq(Nat) /\ Len(Zeros(n)) = n
  BY <1>1, TuplesAreSequences
<1>3. CopyOf(Padded(s, n), Zeros(n), 0, s)
  BY <1>2, Copied DEF Padded
<1>4. Len(s) \in Nat
  OBVIOUS
<1>5. QED
  BY <1>2, <1>3, <1>4 DEF CopyOf

LEMMA RecordIs ==
  ASSUME NEW len \in Nat
  PROVE  /\ Record(len) \in Seq(Nat) /\ Len(Record(len)) = 7
         /\ Record(len)[1] = 3 /\ Record(len)[2] = U8(len + 5) /\ Record(len)[3] = 209
         /\ Record(len)[4] = 1 /\ Record(len)[5] = U8(len + 1) /\ Record(len)[6] = 85
         /\ Record(len)[7] = 1
PROOF
<1>1. len + 5 \in Nat /\ len + 1 \in Nat
  OBVIOUS
<1>3. U8(len + 5) \in Nat /\ U8(len + 1) \in Nat
  BY <1>1, U8Range, Zenon
<1>2. QED
  BY <1>3 DEF Record, uriIdentifier

---------------------------------------------------------------------------
(* What a reader looks for.                                                *)

MessageByte(url, i) ==
  IF i <= 7 THEN <<3, Len(url) + 5, 209, 1, Len(url) + 1, 85, 1>>[i]
  ELSE IF i <= 7 + Len(url) THEN url[i - 7] ELSE 254

LEMMA MessageIs ==
  ASSUME NEW url \in Seq(Nat), NEW n \in Nat, Len(url) = n
  PROVE  /\ Message(url) \in Seq(Nat) /\ Len(Message(url)) = n + 8
         /\ \A i \in 1..(n + 8): Message(url)[i] = MessageByte(url, i)
PROOF
<1> DEFINE head == <<3, Len(url) + 5, 209, 1, Len(url) + 1, 85, 1>>
           tail == <<254>>
<1>1. head \in Seq(Nat) /\ Len(head) = 7
  OBVIOUS
<1>2. tail \in Seq(Nat) /\ Len(tail) = 1 /\ tail[1] = 254
  OBVIOUS
<1>3. Message(url) = (head \o url) \o tail
  BY DEF Message, uriIdentifier
<1>4. \A i \in 1..(n + 8): MessageByte(url, i) = IF i <= 7 THEN head[i]
         ELSE IF i <= 7 + n THEN url[i - 7] ELSE 254
  BY DEF MessageByte
<1> HIDE DEF head, tail
<1>5. PICK hu : hu = head \o url /\ Join(hu, head, url)
  BY <1>1, Joined
<1>6. hu \in Seq(Nat)
  BY <1>5 DEF Join
<1>7. PICK m : m = hu \o tail /\ Join(m, hu, tail)
  BY <1>2, <1>6, Joined
<1>8. Len(hu) = n + 7 /\ \A i \in 1..(n + 7): hu[i] = IF i <= 7 THEN head[i] ELSE url[i - 7]
  BY <1>1, <1>5 DEF Join
<1>9. /\ m \in Seq(Nat) /\ Len(m) = n + 8
      /\ \A i \in 1..(n + 8): m[i] = IF i <= n + 7 THEN hu[i] ELSE tail[i - (n + 7)]
  BY <1>2, <1>7, <1>8 DEF Join
<1>10. ASSUME NEW i \in 1..(n + 8) PROVE m[i] = MessageByte(url, i)
  <2>1. CASE i <= n + 7
    <3>1. m[i] = hu[i]
      BY <1>9, <2>1
    <3>2. hu[i] = IF i <= 7 THEN head[i] ELSE url[i - 7]
      BY <1>8, <2>1
    <3>3. MessageByte(url, i) = IF i <= 7 THEN head[i] ELSE url[i - 7]
      BY <1>4, <2>1
    <3>4. QED
      BY <3>1, <3>2, <3>3, Zenon
  <2>2. CASE i = n + 8
    <3>1. m[i] = tail[1]
      BY <1>9, <2>2
    <3>2. QED
      BY <1>2, <1>4, <2>2, <3>1
  <2>3. QED
    BY <2>1, <2>2
<1>11. m = Message(url)
  BY <1>3, <1>5, <1>7
<1>12. QED
  BY <1>9, <1>10, <1>11

LEMMA LeadIs ==
  /\ Lead \in Seq(Nat)
  /\ tag.kind = "classic" => Len(Lead) = 2 /\ Lead[1] = 0 /\ Lead[2] = 0
  /\ tag.kind # "classic" => Len(Lead) = 5 /\ Lead = LockControl
PROOF BY DEF Lead, LockControl

LEMMA ImageIs ==
  ASSUME NEW url \in Seq(Nat), NEW n \in Nat, Len(url) = n, NEW k \in Nat, Len(Lead) = k
  PROVE  /\ Image(url) \in Seq(Nat) /\ Len(Image(url)) = k + n + 8
         /\ \A i \in 1..k: Image(url)[i] = Lead[i]
         /\ \A i \in 1..(n + 8): Image(url)[k + i] = Message(url)[i]
PROOF
<1>1. Message(url) \in Seq(Nat) /\ Len(Message(url)) = n + 8
  BY MessageIs
<1>2. PICK m \in Seq(Nat) : m = Message(url)
  BY <1>1
<1>3. PICK r : r = Lead \o m /\ Join(r, Lead, m)
  BY LeadIs, Joined
<1>4. Image(url) = r
  BY <1>2, <1>3 DEF Image
<1>5. /\ r \in Seq(Nat) /\ Len(r) = k + (n + 8)
      /\ \A i \in 1..(k + (n + 8)): r[i] = IF i <= k THEN Lead[i] ELSE m[i - k]
  BY <1>1, <1>2, <1>3 DEF Join
<1>6. \A i \in 1..k: r[i] = Lead[i]
  BY <1>5
<1>7. \A i \in 1..(n + 8): r[k + i] = m[i]
  <2>1. TAKE i \in 1..(n + 8)
  <2>2. PICK q \in 1..(k + (n + 8)) : q = k + i
    OBVIOUS
  <2>3. r[q] = IF q <= k THEN Lead[q] ELSE m[q - k]
    BY <1>5
  <2>4. QED
    BY <2>2, <2>3
<1>8. QED
  BY <1>2, <1>4, <1>5, <1>6, <1>7

(* The first TLV that is neither NULL nor lock control, behind the lead.   *)
LEMMA FirstTlvIs ==
  ASSUME tag \in Tags, NEW k \in Nat, Len(Lead) = k, k < tag.size,
         \A i \in 1..k: mem[i] = Lead[i], mem[k + 1] = 3
  PROVE  FirstTlv = k + 1
PROOF
<1>1. CASE tag.kind = "classic"
  <2>1. k = 2 /\ mem[1] = 0 /\ mem[2] = 0 /\ mem[3] = 3
    BY <1>1, LeadIs
  <2>2. tag.size = 48
    BY <1>1 DEF Tags, SectorData
  <2>3. FirstTlv = CHOOSE p \in 1..tag.size: mem[p] # 0 /\ \A q \in 1..(p - 1): mem[q] = 0
    BY <2>1 DEF FirstTlv
  <2>4. mem[3] # 0 /\ \A q \in 1..(3 - 1): mem[q] = 0
    BY <2>1
  <2>5. ASSUME NEW p \in 1..tag.size, mem[p] # 0, \A q \in 1..(p - 1): mem[q] = 0
        PROVE  p = 3
    BY <2>1, <2>2, <2>5
  <2>6. 3 \in 1..tag.size
    BY <2>2
  <2>7. FirstTlv = 3
    BY <2>3, <2>4, <2>5, <2>6
  <2>8. QED
    BY <2>1, <2>7
<1>2. CASE tag.kind # "classic"
  <2>1. k = 5 /\ mem[1] = 1 /\ mem[2] = 3
    BY <1>2, LeadIs DEF LockControl
  <2>2. QED
    BY <2>1 DEF FirstTlv
<1>3. QED
  BY <1>1, <1>2

LEMMA MessageStart ==
  ASSUME NEW url \in Seq(Nat)
  PROVE  Message(url)[1] = 3
PROOF
<1>1. PICK n \in Nat : n = Len(url)
  OBVIOUS
<1>2. 1 \in 1..(n + 8) /\ MessageByte(url, 1) = 3
  BY <1>1 DEF MessageByte
<1>3. QED
  BY <1>1, <1>2, MessageIs

LEMMA PieceIs ==
  ASSUME NEW b \in Seq(Nat), NEW k \in Nat, NEW m \in Nat, k + m <= Len(b),
         NEW g \in Seq(Nat), Len(g) = m, \A i \in 1..m: b[k + i] = g[i]
  PROVE  SubSeq(b, k + 1, k + m) = g
PROOF
<1>1. PICK p : p = SubSeq(b, k + 1, k + m)
  OBVIOUS
<1>2. /\ p \in Seq(Nat) /\ Len(p) = m
      /\ \A i \in 1..m: p[i] = b[k + i]
  BY <1>1, Pieces
<1>3. p = g
  BY <1>2, SameSequence, ZenonT(40)
<1>4. QED
  BY <1>1, <1>3

LEMMA ReadsBackWhole ==
  ASSUME tag \in Tags, mem \in Seq(Nat), NEW z \in Nat, z = tag.size, Len(mem) >= z,
         NEW url \in Seq(Nat), NEW n \in Nat, Len(url) = n, NEW k \in Nat, Len(Lead) = k,
         k + n + 8 <= z, Shows(k + n + 8, url)
  PROVE  ReadsBack(url)
PROOF
<1>1. \A i \in 1..(k + n + 8): mem[i] = Image(url)[i]
  BY ImageIs DEF Shows
<1>2. \A i \in 1..k: mem[i] = Lead[i]
  BY <1>1, ImageIs, SMTT(40)
<1>3. ASSUME NEW i \in 1..(n + 8) PROVE mem[k + i] = Message(url)[i]
  <2>1. k + i \in 1..(k + n + 8)
    OBVIOUS
  <2>2. mem[k + i] = Image(url)[k + i]
    BY <1>1, <2>1
  <2>3. QED
    BY <2>2, ImageIs
<1>4. mem[k + 1] = 3
  <2>1. 1 \in 1..(n + 8)
    OBVIOUS
  <2>2. QED
    BY <1>3, <2>1, MessageStart
<1>5. FirstTlv = k + 1
  BY <1>2, <1>4, FirstTlvIs
<1>6. PICK m \in Nat : m = n + 8
  OBVIOUS
<1>7. PICK g : g = Message(url)
  OBVIOUS
<1>8. g \in Seq(Nat) /\ Len(g) = m
  BY <1>6, <1>7, MessageIs
<1>9. \A i \in 1..m: mem[k + i] = g[i]
  BY <1>3, <1>6, <1>7
<1>10. k + m <= Len(mem)
  BY <1>6
<1>11. SubSeq(mem, k + 1, k + m) = g
  BY <1>8, <1>9, <1>10, PieceIs, SMTT(40)
<1>12. SubSeq(mem, k + 1, k + m) = Message(url)
  BY <1>7, <1>11
<1>13. k + 1 + 7 + Len(url) = k + m /\ k + m <= tag.size
  BY <1>6
<1>14. QED
  BY <1>5, <1>12, <1>13 DEF ReadsBack

(* The image of a url whose length fits: the lead, the record, its         *)
(* characters and the terminator.                                          *)
ImageByte(url, n, k, i) ==
  IF i <= k THEN Lead[i]
  ELSE IF i <= k + 7 THEN Record(n)[i - k]
  ELSE IF i <= k + 7 + n THEN url[i - (k + 7)] ELSE 254

LEMMA ImageBytes ==
  ASSUME NEW url \in Seq(Nat), NEW n \in Nat, Len(url) = n, n <= 250,
         NEW k \in Nat, Len(Lead) = k
  PROVE  /\ Len(Image(url)) = k + n + 8
         /\ \A i \in 1..(k + n + 8): Image(url)[i] = ImageByte(url, n, k, i)
PROOF
<1>1. Len(Image(url)) = k + n + 8
  BY ImageIs
<1>2. n + 5 \in 0..255 /\ n + 1 \in 0..255
  OBVIOUS
<1>3. U8(n + 5) = n + 5 /\ U8(n + 1) = n + 1
  BY <1>2, U8Same, Zenon
<1>4. \A i \in 1..7: Record(n)[i] = <<3, n + 5, 209, 1, n + 1, 85, 1>>[i]
  BY <1>3, RecordIs DEF Record, uriIdentifier
<1>5. ASSUME NEW i \in 1..(k + n + 8) PROVE Image(url)[i] = ImageByte(url, n, k, i)
  <2>1. CASE i <= k
    BY <2>1, ImageIs DEF ImageByte
  <2>2. CASE k < i /\ i <= k + 7
    <3>1. PICK q \in 1..7 : i = k + q
      BY <2>2
    <3>2. q \in 1..(n + 8)
      OBVIOUS
    <3>3. Image(url)[k + q] = Message(url)[q]
      BY <3>2, ImageIs
    <3>4. Message(url)[q] = MessageByte(url, q)
      BY <3>2, MessageIs
    <3>5. MessageByte(url, q) = Record(n)[q]
      BY <1>4 DEF MessageByte
    <3>6. ImageByte(url, n, k, i) = Record(n)[q]
      BY <2>2, <3>1 DEF ImageByte
    <3>7. QED
      BY <3>1, <3>3, <3>4, <3>5, <3>6
  <2>3. CASE k + 7 < i
    <3>1. PICK q \in 8..(n + 8) : i = k + q
      BY <2>3
    <3>2. q \in 1..(n + 8)
      OBVIOUS
    <3>3. Image(url)[k + q] = Message(url)[q]
      BY <3>2, ImageIs
    <3>4. Message(url)[q] = MessageByte(url, q)
      BY <3>2, MessageIs
    <3>5. MessageByte(url, q) = IF q <= 7 + n THEN url[q - 7] ELSE 254
      BY DEF MessageByte
    <3>6. ImageByte(url, n, k, i) = IF i <= k + 7 + n THEN url[i - (k + 7)] ELSE 254
      BY <2>3 DEF ImageByte
    <3>7. i - (k + 7) = q - 7 /\ (i <= k + 7 + n <=> q <= 7 + n)
      BY <3>1
    <3>8. QED
      BY <3>1, <3>3, <3>4, <3>5, <3>6, <3>7
  <2>4. QED
    BY <2>1, <2>2, <2>3
<1>6. QED
  BY <1>1, <1>5

(* A write that continues the image makes the tag show more of it.         *)
LEMMA ShowsGrows ==
  ASSUME NEW url \in Seq(Nat), NEW at \in Nat, Shows(at, url),
         NEW f \in Seq(Nat), NEW n \in Nat, Len(f) = n,
         \A i \in 1..n: at + i <= Len(Image(url)) => f[i] = Image(url)[at + i],
         NEW c, CopyOf(c, mem, at, f), mem \in Seq(Nat), mem' = c, tag' = tag
  PROVE  Shows(at + n, url)'
PROOF
<1>1. Image(url)' = Image(url)
  BY DEF Image, Lead, Message
<1>2. PICK g \in Seq(Nat) : g = Image(url)
  <2>1. PICK m \in Nat, k \in Nat : m = Len(url) /\ k = Len(Lead)
    BY LeadIs
  <2>2. QED
    BY <2>1, ImageIs
<1>3. \A i \in 1..at: i <= Len(g) => mem[i] = g[i]
  BY <1>2 DEF Shows
<1>9. PICK y \in Nat : y = Len(mem)
  OBVIOUS
<1>10. c \in Seq(Nat) /\ Len(c) = IF y >= at + n THEN y ELSE at + n
  BY <1>9 DEF CopyOf
<1>7. PICK z \in Nat : z = Len(c) /\ z >= at + n
  BY <1>10
<1>4. \A i \in 1..z: c[i] = IF i > at /\ i <= at + n THEN f[i - at] ELSE mem[i]
  BY <1>7 DEF CopyOf
<1>5. ASSUME NEW i \in 1..(at + n), i <= Len(g) PROVE c[i] = g[i]
  <2>1. CASE i <= at
    <3>1. i \in 1..z
      BY <1>7
    <3>2. c[i] = mem[i]
      BY <1>4, <2>1, <3>1
    <3>3. QED
      BY <1>3, <1>5, <2>1, <3>2
  <2>2. CASE i > at
    <3>1. PICK q \in 1..n : i = at + q
      BY <2>2
    <3>5. i \in 1..z
      BY <1>7
    <3>2. c[i] = f[q]
      BY <1>4, <2>2, <3>1, <3>5
    <3>3. f[q] = g[at + q]
      BY <1>2, <1>5, <3>1
    <3>4. QED
      BY <3>1, <3>2, <3>3
  <2>3. QED
    BY <2>1, <2>2
<1>6. \A i \in 1..(at + n): i <= Len(Image(url)) => mem'[i] = Image(url)[i]
  BY <1>2, <1>5
<1>8. QED
  BY <1>1, <1>6 DEF Shows

---------------------------------------------------------------------------
(* The blocks of a sector.                                                 *)

Block1Byte(url, len, i) ==
  IF i <= 2 THEN 0
  ELSE IF i <= 9 THEN Record(len)[i - 2]
  ELSE IF i <= 9 + len THEN url[i - 9] ELSE 254

LEMMA Block1Is ==
  ASSUME NEW url \in Seq(Nat), NEW len \in Nat, 1 <= len, len <= 38, len <= Len(url)
  PROVE  /\ Block1(url, len) \in Seq(Nat)
         /\ Len(Block1(url, len)) = IF len <= 6 THEN len + 10 ELSE 16
         /\ \A i \in 1..Len(Block1(url, len)): Block1(url, len)[i] = Block1Byte(url, len, i)
PROOF
<1>1. PICK s \in Nat : s = Smaller(len, 7)
  BY DEF Smaller
<1>2. s <= len /\ s <= 7 /\ (len <= 6 => s = len) /\ (len > 6 => s = 7)
  BY <1>1 DEF Smaller
<1>3. PICK head : head = <<0, 0>>
  OBVIOUS
<1>4. head \in Seq(Nat) /\ Len(head) = 2 /\ head[1] = 0 /\ head[2] = 0
  BY <1>3
<1>20. len \in Nat
  OBVIOUS
<1>5. PICK rec \in Seq(Nat) : rec = Record(len)
  BY <1>20, RecordIs
<1>21. Len(rec) = 7
  BY <1>5, <1>20, RecordIs
<1>6. PICK text : text = SubSeq(url, 1, s)
  OBVIOUS
<1>7. text \in Seq(Nat) /\ Len(text) = s /\ \A i \in 1..s: text[i] = url[i]
  <2>1. 0 + s <= Len(url)
    BY <1>2
  <2>2. text = SubSeq(url, 0 + 1, 0 + s)
    BY <1>6
  <2>3. text \in Seq(Nat) /\ Len(text) = s /\ \A i \in 1..s: text[i] = url[0 + i]
    BY <2>1, <2>2, Pieces
  <2>4. QED
    BY <2>3
<1>8. PICK end : end = IF len <= 6 THEN <<254>> ELSE <<>>
  OBVIOUS
<1>9. /\ end \in Seq(Nat)
      /\ len <= 6 => Len(end) = 1 /\ end[1] = 254
      /\ len > 6 => Len(end) = 0
  BY <1>8
<1>22. PICK e \in Nat : e = IF len <= 6 THEN 1 ELSE 0
  OBVIOUS
<1>29. Len(end) = e
  BY <1>9, <1>22
<1>23. PICK h \in Nat, r \in Nat : h = 2 /\ r = 7
  OBVIOUS
<1>24. Len(head) = h /\ Len(rec) = r
  BY <1>4, <1>21, <1>23
<1>10. PICK j1 : j1 = head \o rec
  OBVIOUS
<1>11. /\ j1 \in Seq(Nat) /\ Len(j1) = h + r
       /\ \A i \in 1..h: j1[i] = head[i]
       /\ \A i \in 1..r: j1[h + i] = rec[i]
  <2>1. Chain(j1, head, rec, h, r)
    BY <1>4, <1>5, <1>10, <1>24, Behind
  <2>2. QED
    BY <2>1, Zenon DEF Chain
<1>12. PICK j2 : j2 = j1 \o text
  OBVIOUS
<1>25. PICK hr \in Nat : hr = h + r
  OBVIOUS
<1>30. Len(j1) = hr
  BY <1>11, <1>25
<1>14. /\ j2 \in Seq(Nat) /\ Len(j2) = hr + s
       /\ \A i \in 1..hr: j2[i] = j1[i]
       /\ \A i \in 1..s: j2[hr + i] = text[i]
  <2>1. Chain(j2, j1, text, hr, s)
    BY <1>7, <1>11, <1>12, <1>30, Behind
  <2>2. QED
    BY <2>1, Zenon DEF Chain
<1>15. PICK j3 : j3 = j2 \o end
  OBVIOUS
<1>26. PICK hrs \in Nat : hrs = hr + s
  OBVIOUS
<1>31. Len(j2) = hrs
  BY <1>14, <1>26
<1>16. /\ j3 \in Seq(Nat) /\ Len(j3) = hrs + e
       /\ \A i \in 1..hrs: j3[i] = j2[i]
       /\ \A i \in 1..e: j3[hrs + i] = end[i]
  <2>1. Chain(j3, j2, end, hrs, e)
    <3>1. end \in Seq(Nat) /\ j2 \in Seq(Nat)
      BY <1>9, <1>14
    <3>2. QED
      BY <1>15, <1>29, <1>31, <3>1, Behind
  <2>2. QED
    BY <2>1, Zenon DEF Chain
<1>13. Block1(url, len) = j3
  BY <1>1, <1>3, <1>5, <1>6, <1>8, <1>10, <1>12, <1>15 DEF Block1
<1>27. h = 2 /\ r = 7 /\ hr = 9 /\ hrs = 9 + s
  BY <1>23, <1>25, <1>26
<1>28. Len(j3) = IF len <= 6 THEN len + 10 ELSE 16
  BY <1>2, <1>16, <1>22, <1>27
<1>17. ASSUME NEW i \in 1..(hrs + e) PROVE j3[i] = Block1Byte(url, len, i)
  <2>1. CASE i <= 2
    <3>4. i \in 1..h /\ i \in 1..hr /\ i \in 1..hrs
      BY <1>27, <2>1
    <3>1. j3[i] = j2[i] /\ j2[i] = j1[i] /\ j1[i] = head[i]
      BY <1>11, <1>14, <1>16, <1>25, <3>4
    <3>2. head[i] = 0
      BY <1>4, <2>1
    <3>3. QED
      BY <2>1, <3>1, <3>2 DEF Block1Byte
  <2>2. CASE 2 < i /\ i <= 9
    <3>5. i \in 1..hr /\ i \in 1..hrs
      BY <1>27, <2>2
    <3>1. j3[i] = j2[i] /\ j2[i] = j1[i]
      BY <1>14, <1>16, <3>5
    <3>2. PICK q \in 1..r : i = h + q
      BY <1>27, <2>2
    <3>3. j1[i] = rec[q]
      BY <1>11, <3>2
    <3>6. q = i - 2
      BY <1>27, <3>2
    <3>4. QED
      BY <1>5, <2>2, <3>1, <3>3, <3>6 DEF Block1Byte
  <2>3. CASE 9 < i /\ i <= 9 + s
    <3>1. PICK q \in 1..s : i = hr + q
      BY <1>27, <2>3
    <3>6. i \in 1..hrs
      BY <1>27, <2>3
    <3>2. j3[i] = j2[i] /\ j2[i] = text[q]
      BY <1>14, <1>16, <3>1, <3>6
    <3>3. q = i - 9 /\ text[q] = url[q]
      BY <1>7, <1>27, <3>1
    <3>4. Block1Byte(url, len, i) = url[i - 9]
      BY <1>2, <2>3 DEF Block1Byte
    <3>5. QED
      BY <3>2, <3>3, <3>4
  <2>4. CASE 9 + s < i
    <3>1. len <= 6 /\ s = len /\ e = 1
      BY <1>2, <1>22, <1>27, <2>4
    <3>2. i = hrs + 1
      BY <1>27, <2>4, <3>1
    <3>3. j3[i] = end[1]
      BY <1>16, <3>1, <3>2
    <3>4. Block1Byte(url, len, i) = 254
      BY <2>4, <3>1 DEF Block1Byte
    <3>5. QED
      BY <1>9, <3>1, <3>3, <3>4
  <2>5. QED
    BY <1>27, <2>1, <2>2, <2>3, <2>4
<1>18. QED
  BY <1>13, <1>16, <1>17, <1>28

Size2(len) == IF len <= 6 THEN 0 ELSE IF len <= 22 THEN len - 6 ELSE 16
Block2Byte(url, len, i) == IF i <= len - 7 THEN url[7 + i] ELSE 254

LEMMA Block2Is ==
  ASSUME NEW url \in Seq(Nat), NEW len \in Nat, 1 <= len, len <= 38, len <= Len(url)
  PROVE  /\ Block2(url, len) \in Seq(Nat)
         /\ Len(Block2(url, len)) = Size2(len)
         /\ \A i \in 1..Size2(len): Block2(url, len)[i] = Block2Byte(url, len, i)
PROOF
<1>1. CASE len <= 6
  BY <1>1 DEF Block2, Size2
<1>2. CASE len > 6 /\ len <= 22
  <2>1. PICK m \in Nat : m = len - 7
    BY <1>2
  <2>2. PICK a \in Nat : a = 7
    OBVIOUS
  <2>3. PICK text : text = SubSeq(url, a + 1, a + m)
    OBVIOUS
  <2>4. a + m <= Len(url)
    BY <2>1, <2>2
  <2>5. text \in Seq(Nat) /\ Len(text) = m /\ \A i \in 1..m: text[i] = url[a + i]
    BY <2>3, <2>4, Pieces
  <2>6. PICK end : end = <<254>>
    OBVIOUS
  <2>7. end \in Seq(Nat) /\ Len(end) = 1 /\ end[1] = 254
    BY <2>6
  <2>8. PICK r : r = text \o end /\ Join(r, text, end)
    BY <2>5, <2>7, Joined
  <2>9. a + 1 = 8 /\ a + m = len
    BY <2>1, <2>2
  <2>10. Block2(url, len) = r
    BY <1>2, <2>3, <2>6, <2>8, <2>9, SMTT(40) DEF Block2
  <2>11. /\ r \in Seq(Nat) /\ Len(r) = m + 1
         /\ \A i \in 1..(m + 1): r[i] = IF i <= m THEN text[i] ELSE end[i - m]
    BY <2>5, <2>7, <2>8 DEF Join
  <2>12. \A i \in 1..(m + 1): r[i] = Block2Byte(url, len, i)
    <3>1. TAKE i \in 1..(m + 1)
    <3>2. CASE i <= m
      BY <2>1, <2>2, <2>5, <2>11, <3>2 DEF Block2Byte
    <3>3. CASE i = m + 1
      <4>1. r[i] = end[1]
        BY <2>11, <3>3
      <4>2. QED
        BY <2>1, <2>7, <3>3, <4>1 DEF Block2Byte
    <3>4. QED
      BY <3>2, <3>3
  <2>13. QED
    <3>1. Size2(len) = m + 1
      BY <1>2, <2>1 DEF Size2
    <3>2. QED
      BY <2>10, <2>11, <2>12, <3>1
<1>3. CASE len > 22
  <2>1. PICK a \in Nat, m \in Nat : a = 7 /\ m = 16
    OBVIOUS
  <2>2. PICK text : text = SubSeq(url, a + 1, a + m)
    OBVIOUS
  <2>3. a + m <= Len(url)
    BY <1>3, <2>1
  <2>4. text \in Seq(Nat) /\ Len(text) = m /\ \A i \in 1..m: text[i] = url[a + i]
    BY <2>2, <2>3, Pieces
  <2>5. a + 1 = 8 /\ a + m = 23
    BY <2>1
  <2>6. Block2(url, len) = text
    <3>1. text = SubSeq(url, 8, 23)
      BY <2>2, <2>5, Zenon
    <3>2. ~(len <= 6) /\ ~(len <= 22)
      BY <1>3
    <3>3. QED
      BY <3>1, <3>2, Zenon DEF Block2
  <2>7. m = Size2(len)
    BY <1>3, <2>1 DEF Size2
  <2>8. ASSUME NEW i \in 1..m PROVE text[i] = Block2Byte(url, len, i)
    <3>1. i <= len - 7
      BY <1>3, <2>1
    <3>2. text[i] = url[7 + i]
      <4>1. text[i] = url[a + i]
        BY <2>4, Zenon
      <4>2. QED
        BY <2>1, <4>1, Zenon
    <3>3. QED
      BY <3>1, <3>2, Zenon DEF Block2Byte
  <2>9. QED
    BY <2>4, <2>6, <2>7, <2>8
<1>4. QED
  BY <1>1, <1>2, <1>3

LEMMA Block3Is ==
  ASSUME NEW url \in Seq(Nat), NEW len \in Nat, 1 <= len, len <= 38, len <= Len(url)
  PROVE  /\ Block3(url, len) \in Seq(Nat) /\ Len(Block3(url, len)) <= 16
PROOF
<1>1. CASE len <= 22
  BY <1>1 DEF Block3
<1>2. CASE len = 23
  BY <1>2 DEF Block3
<1>3. CASE len > 23
  <2>1. PICK m \in Nat : m = len - 24
    BY <1>3
  <2>2. PICK a \in Nat : a = 23
    OBVIOUS
  <2>3. PICK text : text = SubSeq(url, a + 1, a + m)
    OBVIOUS
  <2>4. a + m <= Len(url)
    BY <2>1, <2>2
  <2>5. text \in Seq(Nat) /\ Len(text) = m
    BY <2>3, <2>4, Pieces
  <2>6. PICK end : end = <<0, 0>>
    OBVIOUS
  <2>7. end \in Seq(Nat) /\ Len(end) = 2
    BY <2>6
  <2>8. PICK r : r = text \o end /\ Join(r, text, end)
    BY <2>5, <2>7, Joined
  <2>9. a + 1 = 24 /\ a + m = len - 1
    BY <2>1, <2>2
  <2>10. Block3(url, len) = r
    <3>1. text = SubSeq(url, 24, len - 1)
      BY <2>3, <2>9, Zenon
    <3>2. ~(len <= 22) /\ len # 23
      BY <1>3
    <3>3. QED
      BY <2>6, <2>8, <3>1, <3>2, Zenon DEF Block3
  <2>11. r \in Seq(Nat) /\ Len(r) <= 16
    BY <2>1, <2>5, <2>7, <2>8 DEF Join
  <2>12. QED
    BY <1>3, <2>10, <2>11
<1>4. QED
  BY <1>1, <1>2, <1>3

LEMMA SequencesAreTuples ==
  ASSUME NEW s \in Seq(Nat)
  PROVE  s \in [1..Len(s) -> Nat]
PROOF OBVIOUS

LEMMA Patched ==
  ASSUME NEW b \in Block, NEW k \in Int
  PROVE  [b EXCEPT ![k] = 254] \in Block
PROOF
<1>1. b \in Seq(Nat) /\ Len(b) = 16
  BY DEF Block
<1>2. b \in [1..16 -> Nat]
  BY <1>1, SequencesAreTuples, Zenon
<1>3. PICK c : c = [b EXCEPT ![k] = 254]
  OBVIOUS
<1>4. c \in [1..16 -> Nat]
  BY <1>2, <1>3, ZenonT(40)
<1>5. c \in Seq(Nat) /\ Len(c) = 16
  BY <1>4, TuplesAreSequences
<1>6. QED
  BY <1>3, <1>5 DEF Block

LEMMA OnePatched ==
  ASSUME NEW t \in [1..4 -> Block], NEW h \in 1..4, NEW k \in Int,
         NEW u, u = [t EXCEPT ![h][k] = 254]
  PROVE  u \in [1..4 -> Block] /\ (h # 4 => u[4] = t[4])
PROOF
<1>1. PICK p : p = [t[h] EXCEPT ![k] = 254]
  OBVIOUS
<1>2. p \in Block
  BY <1>1, Patched
<1>3. u = [t EXCEPT ![h] = p]
  BY <1>1
<1>4. QED
  BY <1>2, <1>3

LEMMA FourIn ==
  ASSUME NEW S, NEW a \in S, NEW b \in S, NEW c \in S, NEW d \in S
  PROVE  /\ <<a, b, c, d>> \in [1..4 -> S]
         /\ <<a, b, c, d>>[1] = a /\ <<a, b, c, d>>[2] = b
         /\ <<a, b, c, d>>[3] = c /\ <<a, b, c, d>>[4] = d
PROOF OBVIOUS

EndsAs(e, b1, b2, b3, b4, len) ==
  /\ e \in [1..4 -> Block]
  /\ len <= 23 => e = <<b1, b2, b3, b4>>
  /\ len < 38 => e[4] = b4

LEMMA EndedIs ==
  ASSUME NEW b1 \in Block, NEW b2 \in Block, NEW b3 \in Block, NEW b4 \in Block,
         NEW len \in Nat, NEW hit \in {0, 1, 2, 4},
         NEW e, e = Ended(<<b1, b2, b3, b4>>, len, hit)
  PROVE  EndsAs(e, b1, b2, b3, b4, len)
PROOF
<1>1. PICK t : t = <<b1, b2, b3, b4>>
  OBVIOUS
<1>2. t \in [1..4 -> Block] /\ t[4] = b4
  BY <1>1, FourIn, Zenon
<1>4. ASSUME len <= 23 PROVE e = t /\ e \in [1..4 -> Block] /\ e[4] = b4
  BY <1>1, <1>2, <1>4 DEF Ended
<1>5. ASSUME len > 23, len - 22 < 16 PROVE e \in [1..4 -> Block] /\ e[4] = b4
  <2>1. PICK h \in 1..4, k \in Int : h = 3 /\ k = len - 22 + 1
    OBVIOUS
  <2>2. e = [t EXCEPT ![h][k] = 254]
    BY <1>1, <1>5, <2>1 DEF Ended
  <2>3. h # 4
    BY <2>1
  <2>4. e \in [1..4 -> Block] /\ e[4] = t[4]
    BY <1>2, <2>2, <2>3, OnePatched
  <2>5. QED
    BY <1>2, <1>5, <2>4
<1>6. ASSUME ~(len <= 23), ~(len - 22 < 16) PROVE e \in [1..4 -> Block]
  <2>1. PICK k \in Int : k = 1
    OBVIOUS
  <2>2. e = IF hit = 0 THEN t ELSE [t EXCEPT ![hit][k] = 254]
    BY <1>1, <1>6, <2>1 DEF Ended
  <2>3. hit # 0 => hit \in 1..4
    OBVIOUS
  <2>4. e \in [1..4 -> Block]
    BY <1>2, <2>2, <2>3, OnePatched
  <2>5. QED
    BY <1>6, <2>4
<1>7. /\ e \in [1..4 -> Block]
      /\ len <= 23 => e = <<b1, b2, b3, b4>>
      /\ len < 38 => e[4] = b4
  BY <1>1, <1>4, <1>5, <1>6
<1>8. QED
  BY <1>7, Zenon DEF EndsAs

LEMMA BlocksIs ==
  ASSUME NEW url \in Seq(Nat), NEW len \in Nat, 1 <= len, len <= 38, len <= Len(url),
         NEW hit \in {0, 1, 2, 4}
  PROVE  /\ Blocks(url, len, hit) \in [1..4 -> Block]
         /\ len < 38 => Blocks(url, len, hit)[4] = Trailer
         /\ len <= 23 =>
              /\ Blocks(url, len, hit)[1] = Padded(Block1(url, len), 16)
              /\ Blocks(url, len, hit)[2] = Padded(Block2(url, len), 16)
              /\ \A i \in 1..16: Blocks(url, len, hit)[3][i] = Padded(Block3(url, len), 18)[i]
PROOF
<1>1. PICK b1 : b1 = Padded(Block1(url, len), 16)
  OBVIOUS
<1>2. b1 \in Block
  <2>4. /\ Block1(url, len) \in Seq(Nat)
        /\ Len(Block1(url, len)) = IF len <= 6 THEN len + 10 ELSE 16
    BY Block1Is, Zenon
  <2>1. Block1(url, len) \in Seq(Nat) /\ Len(Block1(url, len)) <= 16
    BY <2>4
  <2>2. 16 \in Nat
    OBVIOUS
  <2>3. QED
    BY <1>1, <2>1, <2>2, PaddedIs DEF Block
<1>3. PICK b2 : b2 = Padded(Block2(url, len), 16)
  OBVIOUS
<1>4. b2 \in Block
  <2>4. Block2(url, len) \in Seq(Nat) /\ Len(Block2(url, len)) = Size2(len)
    BY Block2Is, Zenon
  <2>1. Block2(url, len) \in Seq(Nat) /\ Len(Block2(url, len)) <= 16
    BY <2>4 DEF Size2
  <2>2. 16 \in Nat
    OBVIOUS
  <2>3. QED
    BY <1>3, <2>1, <2>2, PaddedIs DEF Block
<1>5. PICK p3 : p3 = Padded(Block3(url, len), 18)
  OBVIOUS
<1>6. p3 \in Seq(Nat) /\ Len(p3) = 18
  <2>1. Block3(url, len) \in Seq(Nat) /\ Len(Block3(url, len)) <= 18
    BY Block3Is
  <2>2. 18 \in Nat
    OBVIOUS
  <2>3. QED
    BY <1>5, <2>1, <2>2, PaddedIs
<1>7. PICK b3 : b3 = SubSeq(p3, 1, 16)
  OBVIOUS
<1>8. b3 \in Seq(Nat) /\ Len(b3) = 16 /\ \A i \in 1..16: b3[i] = p3[i]
  <2>1. PICK a \in Nat, m \in Nat : a = 0 /\ m = 16
    OBVIOUS
  <2>2. b3 = SubSeq(p3, a + 1, a + m) /\ a + m <= Len(p3)
    BY <1>6, <1>7, <2>1
  <2>3. p3 \in Seq(Nat)
    BY <1>6
  <2>4. b3 \in Seq(Nat) /\ Len(b3) = m /\ \A i \in 1..m: b3[i] = p3[a + i]
    BY <2>2, <2>3, Pieces
  <2>5. QED
    BY <2>1, <2>4
<1>9. b3 \in Block
  BY <1>8 DEF Block
<1>10. Trailer \in Block
  BY DEF Trailer, Block
<1>11. PICK e : e = Ended(<<b1, b2, b3, Trailer>>, len, hit)
  OBVIOUS
<1>12. Blocks(url, len, hit) = e
  BY <1>1, <1>3, <1>5, <1>7, <1>11 DEF Blocks
<1>13. /\ e \in [1..4 -> Block]
       /\ len <= 23 => e = <<b1, b2, b3, Trailer>>
       /\ len < 38 => e[4] = Trailer
  <2>1. EndsAs(e, b1, b2, b3, Trailer, len)
    BY <1>2, <1>4, <1>9, <1>10, <1>11, EndedIs, Zenon
  <2>2. QED
    BY <2>1, Zenon DEF EndsAs
<1>14. len <= 23 => e[1] = b1 /\ e[2] = b2 /\ e[3] = b3
  BY <1>13
<1>15. QED
  BY <1>1, <1>3, <1>5, <1>8, <1>12, <1>13, <1>14

(* In a sector, byte by byte: two zeros lead.                              *)
LEMMA SectorImage ==
  ASSUME tag.kind = "classic", NEW url \in Seq(Nat), NEW n \in Nat, Len(url) = n, n <= 250
  PROVE  /\ Len(Image(url)) = n + 10
         /\ \A i \in 1..(n + 10): Image(url)[i] = Block1Byte(url, n, i)
PROOF
<1>1. PICK k \in Nat : k = Len(Lead)
  BY LeadIs
<1>2. k = 2 /\ Lead[1] = 0 /\ Lead[2] = 0
  BY <1>1, LeadIs
<1>3. /\ Len(Image(url)) = k + n + 8
      /\ \A i \in 1..(k + n + 8): Image(url)[i] = ImageByte(url, n, k, i)
  BY <1>1, ImageBytes, Zenon
<1>4. Len(Image(url)) = n + 10
  BY <1>2, <1>3
<1>5. ASSUME NEW i \in 1..(n + 10) PROVE Image(url)[i] = Block1Byte(url, n, i)
  <2>1. i \in 1..(k + n + 8)
    BY <1>2
  <2>2. Image(url)[i] = ImageByte(url, n, k, i)
    BY <1>3, <2>1, Zenon
  <2>3. ImageByte(url, n, k, i) = Block1Byte(url, n, i)
    <3>1. CASE i <= 2
      <4>1. Lead[i] = 0
        BY <1>2, <3>1
      <4>2. QED
        BY <1>2, <3>1, <4>1 DEF ImageByte, Block1Byte
    <3>2. CASE i > 2
      BY <1>2, <3>2 DEF ImageByte, Block1Byte
    <3>3. QED
      BY <3>1, <3>2
  <2>4. QED
    BY <2>2, <2>3, Zenon
<1>6. QED
  BY <1>4, <1>5

LEMMA SectorHolds ==
  ASSUME tag.kind = "classic", NEW url \in Seq(Nat), NEW n \in Nat, Len(url) = n,
         1 <= n, n <= 23, NEW hit \in {0, 1, 2, 4}, NEW blocks, blocks = Blocks(url, n, hit)
  PROVE  InBlocks(blocks, url)
PROOF
<1>1. n <= 38 /\ n <= Len(url) /\ n <= 250 /\ 16 \in Nat /\ 18 \in Nat
  OBVIOUS
<1>2. /\ blocks[1] = Padded(Block1(url, n), 16)
      /\ blocks[2] = Padded(Block2(url, n), 16)
      /\ \A i \in 1..16: blocks[3][i] = Padded(Block3(url, n), 18)[i]
  BY <1>1, BlocksIs, ZenonT(40)
<1>3. /\ Len(Image(url)) = n + 10
      /\ \A i \in 1..(n + 10): Image(url)[i] = Block1Byte(url, n, i)
  BY <1>1, SectorImage
<1>4. ASSUME NEW i \in 1..16, i <= n + 10 PROVE blocks[1][i] = Image(url)[i]
  <2>1. PICK z \in Nat : z = IF n <= 6 THEN n + 10 ELSE 16
    OBVIOUS
  <2>2. PICK s : s = Block1(url, n)
    OBVIOUS
  <2>3. /\ s \in Seq(Nat) /\ Len(s) = z
        /\ \A q \in 1..Len(s): s[q] = Block1Byte(url, n, q)
    BY <1>1, <2>1, <2>2, Block1Is
  <2>4. i \in 1..z /\ z <= 16 /\ i \in 1..(n + 10)
    BY <1>4, <2>1
  <2>5. blocks[1][i] = s[i]
    <3>1. PICK m \in Nat : m = 16
      OBVIOUS
    <3>2. s \in Seq(Nat) /\ Len(s) <= m /\ i \in 1..Len(s)
      BY <2>3, <2>4, <3>1
    <3>3. Padded(s, m)[i] = s[i]
      BY <3>2, PaddedIs
    <3>4. QED
      BY <1>2, <2>2, <3>1, <3>3, Zenon
  <2>6. s[i] = Block1Byte(url, n, i)
    BY <2>3, <2>4
  <2>7. QED
    BY <1>3, <2>4, <2>5, <2>6
<1>5. ASSUME NEW i \in 1..16, 16 + i <= n + 10 PROVE blocks[2][i] = Image(url)[16 + i]
  <2>1. PICK z \in Nat : z = Size2(n)
    BY DEF Size2
  <2>2. PICK s : s = Block2(url, n)
    OBVIOUS
  <2>3. /\ s \in Seq(Nat) /\ Len(s) = z
        /\ \A q \in 1..z: s[q] = Block2Byte(url, n, q)
    BY <1>1, <2>1, <2>2, Block2Is
  <2>4. i \in 1..z /\ z <= 16
    BY <1>5, <2>1 DEF Size2
  <2>5. blocks[2][i] = s[i]
    <3>1. PICK m \in Nat : m = 16
      OBVIOUS
    <3>2. s \in Seq(Nat) /\ Len(s) <= m /\ i \in 1..Len(s)
      BY <2>3, <2>4, <3>1
    <3>3. Padded(s, m)[i] = s[i]
      BY <3>2, PaddedIs
    <3>4. QED
      BY <1>2, <2>2, <3>1, <3>3, Zenon
  <2>6. s[i] = Block2Byte(url, n, i)
    BY <2>3, <2>4
  <2>7. PICK q \in 1..(n + 10) : q = 16 + i
    BY <1>5
  <2>8. Image(url)[q] = Block1Byte(url, n, q)
    BY <1>3
  <2>9. Block1Byte(url, n, q) = Block2Byte(url, n, i)
    BY <2>7 DEF Block1Byte, Block2Byte
  <2>10. QED
    BY <2>5, <2>6, <2>7, <2>8, <2>9
<1>6. ASSUME NEW i \in 1..16, 32 + i <= n + 10 PROVE blocks[3][i] = Image(url)[32 + i]
  <2>1. n = 23 /\ i = 1
    BY <1>6
  <2>2. PICK s : s = Block3(url, n)
    OBVIOUS
  <2>3. s \in Seq(Nat) /\ Len(s) = 1 /\ s[1] = 254
    <3>1. s = <<254>>
      BY <2>1, <2>2 DEF Block3
    <3>2. QED
      BY <3>1
  <2>4. PICK q \in Nat : q = 18
    OBVIOUS
  <2>5. Len(s) <= q
    BY <2>3, <2>4
  <2>6. \A j \in 1..Len(s): Padded(s, q)[j] = s[j]
    <3>1. s \in Seq(Nat)
      BY <2>3
    <3>2. QED
      BY <2>5, <3>1, PaddedIs
  <2>7. Padded(s, q)[1] = 254
    BY <2>3, <2>6
  <2>8. blocks[3][1] = 254
    BY <1>2, <2>2, <2>4, <2>7
  <2>9. PICK r \in 1..(n + 10) : r = 33
    BY <2>1
  <2>10. Image(url)[r] = Block1Byte(url, n, r)
    BY <1>3
  <2>11. Block1Byte(url, n, r) = 254
    BY <2>1, <2>9 DEF Block1Byte
  <2>12. 32 + i = r
    BY <2>1, <2>9
  <2>13. QED
    BY <2>1, <2>8, <2>10, <2>11, <2>12
<1>7. ASSUME NEW b \in 1..3, NEW i \in 1..16, 16 * (b - 1) + i <= n + 10
      PROVE  blocks[b][i] = Image(url)[16 * (b - 1) + i]
  <2>1. CASE b = 1
    <3>1. 16 * (b - 1) + i = i
      BY <2>1
    <3>2. QED
      BY <1>4, <1>7, <2>1, <3>1
  <2>2. CASE b = 2
    <3>1. 16 * (b - 1) + i = 16 + i
      BY <2>2
    <3>2. QED
      BY <1>5, <1>7, <2>2, <3>1
  <2>3. CASE b = 3
    <3>1. 16 * (b - 1) + i = 32 + i
      BY <2>3
    <3>2. QED
      BY <1>6, <1>7, <2>3, <3>1
  <2>4. QED
    BY <2>1, <2>2, <2>3
<1>8. QED
  BY <1>3, <1>7 DEF InBlocks

---------------------------------------------------------------------------
(* The pages of a NTAG2xx.                                                 *)

Header(len) == LockControl \o Record(len)

LEMMA HeaderIs ==
  ASSUME NEW len \in Nat
  PROVE  /\ Header(len) \in Seq(Nat) /\ Len(Header(len)) = 12
         /\ \A i \in 1..12: Header(len)[i] = IF i <= 5 THEN LockControl[i] ELSE Record(len)[i - 5]
PROOF
<1>1. LockControl \in Seq(Nat) /\ Len(LockControl) = 5
  BY DEF LockControl
<1>2. Record(len) \in Seq(Nat) /\ Len(Record(len)) = 7
  BY RecordIs
<1>3. PICK r : r = LockControl \o Record(len) /\ Join(r, LockControl, Record(len))
  BY <1>1, <1>2, Joined
<1>4. Header(len) = r
  BY <1>3 DEF Header
<1>5. PICK lock, rec : lock = LockControl /\ rec = Record(len)
  OBVIOUS
<1>6. /\ Join(r, lock, rec) /\ Len(lock) = 5 /\ Len(rec) = 7
  BY <1>1, <1>2, <1>3, <1>5, Zenon
<1>7. /\ r \in Seq(Nat) /\ Len(r) = 12
      /\ \A i \in 1..12: r[i] = IF i <= 5 THEN lock[i] ELSE rec[i - 5]
  BY <1>6 DEF Join
<1>8. QED
  BY <1>4, <1>5, <1>7, Zenon

LEMMA PagesImage ==
  ASSUME tag.kind # "classic", NEW url \in Seq(Nat), NEW n \in Nat, Len(url) = n, n <= 250
  PROVE  /\ Len(Image(url)) = n + 13
         /\ \A i \in 1..(n + 13): Image(url)[i] = IF i <= 12 THEN Header(n)[i]
                                   ELSE IF i <= 12 + n THEN url[i - 12] ELSE 254
PROOF
<1>1. PICK k \in Nat : k = Len(Lead)
  BY LeadIs
<1>2. k = 5 /\ Lead = LockControl
  BY <1>1, LeadIs
<1>3. /\ Len(Image(url)) = k + n + 8
      /\ \A i \in 1..(k + n + 8): Image(url)[i] = ImageByte(url, n, k, i)
  BY <1>1, ImageBytes, Zenon
<1>4. Len(Image(url)) = n + 13
  BY <1>2, <1>3
<1>5. \A i \in 1..12: Header(n)[i] = IF i <= 5 THEN LockControl[i] ELSE Record(n)[i - 5]
  BY HeaderIs, ZenonT(40)
<1>6. ASSUME NEW i \in 1..(n + 13)
      PROVE  Image(url)[i] = IF i <= 12 THEN Header(n)[i]
                             ELSE IF i <= 12 + n THEN url[i - 12] ELSE 254
  <2>1. i \in 1..(k + n + 8)
    BY <1>2
  <2>2. Image(url)[i] = ImageByte(url, n, k, i)
    BY <1>3, <2>1, Zenon
  <2>3. ImageByte(url, n, k, i) = IF i <= 5 THEN LockControl[i]
           ELSE IF i <= 12 THEN Record(n)[i - 5] ELSE IF i <= 12 + n THEN url[i - 12] ELSE 254
    BY <1>2 DEF ImageByte
  <2>4. CASE i <= 12
    <3>1. Header(n)[i] = IF i <= 5 THEN LockControl[i] ELSE Record(n)[i - 5]
      BY <1>5, <2>4
    <3>2. QED
      BY <2>2, <2>3, <2>4, <3>1, Zenon
  <2>5. CASE ~(i <= 12)
    <3>1. ~(i <= 5)
      BY <2>5
    <3>2. QED
      BY <2>2, <2>3, <2>5, <3>1, Zenon
  <2>6. QED
    BY <2>4, <2>5
<1>7. QED
  BY <1>4, <1>6

(* The page at hand, by what it is made of.                                *)
PageHolds(b, page, len, rest, m) ==
  \A i \in 1..4: b[i] = IF page < 7 THEN Header(len)[4 * (page - 4) + i]
                        ELSE IF i <= m THEN rest[i]
                        ELSE IF i = m + 1 THEN 254 ELSE b[i]

LEMMA PageIs ==
  ASSUME NEW j \in Ntag2xxJobs, NEW page \in Nat, page = j.page, page >= 4,
         NEW rest \in Seq(Nat), rest = j.rest, NEW m \in Nat, m = Len(rest)
  PROVE  /\ Page4(j) \in Seq(Nat) /\ Len(Page4(j)) = 4
         /\ PageHolds(Page4(j), page, j.len, rest, m)
PROOF
<1>1. PICK q \in Nat : q = 4
  OBVIOUS
<1>2. CASE page < 7
  <2>1. PICK a \in Nat : a = 4 * (page - 4)
    OBVIOUS
  <2>2. j.len \in Nat
    <3>1. j.len \in 1..255
      BY DEF Ntag2xxJobs
    <3>2. \A n \in 1..255: n \in Nat
      OBVIOUS
    <3>3. QED
      BY <3>1, <3>2, Zenon
  <2>3. PICK h : h = Header(j.len)
    OBVIOUS
  <2>4. h \in Seq(Nat) /\ Len(h) = 12
    BY <2>2, <2>3, HeaderIs
  <2>5. a + q <= Len(h)
    BY <1>1, <1>2, <2>1, <2>4
  <2>6. PICK p : p = SubSeq(h, a + 1, a + q)
    OBVIOUS
  <2>7. h \in Seq(Nat)
    BY <2>4
  <2>8. p \in Seq(Nat) /\ Len(p) = q /\ \A i \in 1..q: p[i] = h[a + i]
    <3>1. PartOf(p, h, a, q)
      BY <2>5, <2>6, <2>7, PartIs, Zenon
    <3>2. QED
      BY <3>1 DEF PartOf
  <2>9. a + q = 4 * (page - 3)
    BY <1>1, <2>1
  <2>10. Page4(j) = SubSeq(h, 4 * (page - 4) + 1, 4 * (page - 3))
    BY <1>2, <2>3, Zenon DEF Page4, Header
  <2>11. Page4(j) = p
    BY <2>1, <2>6, <2>9, <2>10, Zenon
  <2>12. QED
    <3>1. p \in Seq(Nat) /\ Len(p) = 4
      BY <1>1, <2>8
    <3>2. ASSUME NEW i \in 1..4 PROVE p[i] = h[4 * (page - 4) + i]
      BY <1>1, <2>1, <2>8
    <3>3. QED
      BY <1>2, <2>3, <2>11, <3>1, <3>2, Zenon DEF PageHolds
<1>3. CASE page >= 7 /\ m < 4
  <2>1. PICK end : end = <<254>>
    OBVIOUS
  <2>2. end \in Seq(Nat) /\ Len(end) = 1 /\ end[1] = 254
    BY <2>1
  <2>3. PICK r : r = rest \o end /\ Join(r, rest, end)
    <3>1. end \in Seq(Nat)
      BY <2>2
    <3>2. QED
      BY <3>1, Joined
  <2>4. /\ r \in Seq(Nat) /\ Len(r) = m + 1
        /\ \A i \in 1..(m + 1): r[i] = IF i <= m THEN rest[i] ELSE end[i - m]
    BY <2>2, <2>3 DEF Join
  <2>5. Len(r) <= q
    BY <1>1, <1>3, <2>4
  <2>6. r \in Seq(Nat)
    BY <2>4
  <2>7. PICK p : p = Padded(r, q)
    OBVIOUS
  <2>8. p \in Seq(Nat) /\ Len(p) = q /\ \A i \in 1..Len(r): p[i] = r[i]
    BY <2>5, <2>6, <2>7, PaddedIs
  <2>9. ~(page < 7) /\ m < 4
    BY <1>3
  <2>10. Page4(j) = p
    BY <1>1, <2>1, <2>3, <2>7, <2>9, Zenon DEF Page4
  <2>11. ASSUME NEW i \in 1..(m + 1) PROVE p[i] = IF i <= m THEN rest[i] ELSE 254
    <3>1. p[i] = r[i]
      BY <2>4, <2>8
    <3>2. CASE i <= m
      BY <2>4, <3>1, <3>2
    <3>3. CASE i = m + 1
      <4>1. r[i] = end[1]
        BY <2>4, <3>3, SMTT(40)
      <4>2. QED
        BY <2>2, <3>1, <3>3, <4>1
    <3>4. QED
      BY <3>2, <3>3, SMTT(40)
  <2>12. QED
    <3>1. p \in Seq(Nat) /\ Len(p) = 4
      BY <1>1, <2>8
    <3>2. ASSUME NEW i \in 1..4
          PROVE  p[i] = IF i <= m THEN rest[i] ELSE IF i = m + 1 THEN 254 ELSE p[i]
      <4>1. CASE i <= m + 1
        <5>1. p[i] = IF i <= m THEN rest[i] ELSE 254
          BY <2>11, <4>1
        <5>2. QED
          BY <4>1, <5>1
      <4>2. CASE i > m + 1
        BY <4>2
      <4>3. QED
        BY <4>1, <4>2
    <3>3. QED
      BY <2>9, <2>10, <3>1, <3>2, Zenon DEF PageHolds
<1>4. CASE page >= 7 /\ m >= 4
  <2>1. PICK a \in Nat : a = 0
    OBVIOUS
  <2>2. PICK p : p = SubSeq(rest, a + 1, a + q)
    OBVIOUS
  <2>3. a + q <= Len(rest)
    BY <1>1, <1>4, <2>1
  <2>4. p \in Seq(Nat) /\ Len(p) = q /\ \A i \in 1..q: p[i] = rest[a + i]
    BY <2>2, <2>3, Pieces
  <2>5. ~(page < 7) /\ ~(m < 4) /\ a + 1 = 1 /\ a + q = 4
    BY <1>1, <1>4, <2>1
  <2>6. Page4(j) = p
    BY <2>2, <2>5, Zenon DEF Page4
  <2>7. QED
    <3>1. p \in Seq(Nat) /\ Len(p) = 4
      BY <1>1, <2>4
    <3>2. ASSUME NEW i \in 1..4 PROVE i <= m /\ p[i] = rest[i]
      BY <1>1, <1>4, <2>1, <2>4, SMTT(40)
    <3>3. QED
      BY <2>5, <2>6, <3>1, <3>2, Zenon DEF PageHolds
<1>5. QED
  BY <1>2, <1>3, <1>4

---------------------------------------------------------------------------
(* The calls.                                                              *)

LEMMA JobKinds ==
  /\ NoJob.fn = "none"
  /\ NoJob \notin ClassicJobs /\ NoJob \notin Ntag2xxJobs
  /\ \A j \in ClassicJobs: j.fn = "classic" /\ j \notin Ntag2xxJobs
  /\ \A j \in Ntag2xxJobs: j.fn = "ntag2xx" /\ j \notin ClassicJobs
PROOF
<1>1. NoJob.fn = "none"
  BY DEF NoJob
<1>2. \A j \in ClassicJobs: j.fn = "classic"
  BY DEF ClassicJobs
<1>3. \A j \in Ntag2xxJobs: j.fn = "ntag2xx"
  BY DEF Ntag2xxJobs
<1>4. QED
  BY <1>1, <1>2, <1>3

(* Nothing is written while the last call failed or one is in progress.    *)
LEMMA NotWritten == wrote = NoUri => ~Written
PROOF BY DEF Written, NoUri

(* What a step of a call does: it goes on, with its write done or refused, *)
(* or it returns, and tells of success only behind its last write.         *)
LEMMA WriteOutcome ==
  ASSUME NEW at, NEW bytes, NEW last \in BOOLEAN, NEW next, NEW c, c = Copy(mem, at, bytes),
         WriteBlock(at, bytes, last, next)
  PROVE  \/ ~last /\ job' = next /\ wrote' = wrote /\ mem' = c
         \/ ~last /\ job' = [next EXCEPT !.refused = TRUE] /\ wrote' = wrote /\ mem' = mem
         \/ /\ job' = NoJob /\ wrote'.url = job.url /\ mem' \in {mem, c}
            /\ Written' => last /\ ~job.refused /\ mem' = c
PROOF
<1>1. CASE /\ mem' = c
           /\ IF last THEN Returns(1, job.refused) ELSE job' = next /\ UNCHANGED wrote
  <2>1. CASE last
    <3>1. job' = NoJob /\ wrote' = [url |-> job.url, ret |-> 1, refused |-> job.refused]
      BY <1>1, <2>1 DEF Returns
    <3>2. wrote'.url = job.url /\ wrote'.refused = job.refused
      BY <3>1
    <3>3. Written' => ~job.refused
      BY <3>2 DEF Written
    <3>4. QED
      BY <1>1, <2>1, <3>1, <3>2, <3>3
  <2>2. CASE ~last
    BY <1>1, <2>2
  <2>3. QED
    BY <2>1, <2>2
<1>2. CASE mem' \in {mem, c} /\ Returns(0, job.refused)
  <2>1. job' = NoJob /\ wrote' = [url |-> job.url, ret |-> 0, refused |-> job.refused]
    BY <1>2 DEF Returns
  <2>2. wrote'.url = job.url /\ wrote'.ret = 0
    BY <2>1
  <2>3. ~Written'
    BY <2>2 DEF Written
  <2>4. QED
    BY <1>2, <2>1, <2>2, <2>3
<1>3. CASE /\ mem' = mem
           /\ IF last THEN Returns(1, TRUE)
              ELSE job' = [next EXCEPT !.refused = TRUE] /\ UNCHANGED wrote
  <2>1. CASE last
    <3>1. job' = NoJob /\ wrote' = [url |-> job.url, ret |-> 1, refused |-> TRUE]
      BY <1>3, <2>1 DEF Returns
    <3>2. wrote'.url = job.url /\ wrote'.refused = TRUE
      BY <3>1
    <3>3. ~Written'
      BY <3>2 DEF Written
    <3>4. QED
      BY <1>3, <3>1, <3>2, <3>3
  <2>2. CASE ~last
    BY <1>3, <2>2
  <2>3. QED
    BY <2>1, <2>2
<1>4. QED
  BY <1>1, <1>2, <1>3 DEF WriteBlock

(* The whole image is shown, and fits.                                     *)
WholeShown(url) ==
  /\ tag \in Tags /\ mem \in Seq(Nat) /\ Len(mem) >= tag.size
  /\ Len(Lead) + Len(url) + 8 <= tag.size
  /\ Shows(Len(Lead) + Len(url) + 8, url)

LEMMA SizeOf ==
  ASSUME tag \in Tags
  PROVE  /\ tag.size \in Nat /\ tag.size <= 255
         /\ tag.kind \in {"classic", "ntag2xx"}
         /\ tag.kind = "classic" => tag.size = 48
         /\ tag.kind = "ntag2xx" => tag.size \in DataLens
PROOF BY UriAssumption DEF Tags, SectorData

LEMMA WholeReadsBack == \A url \in Seq(Nat): WholeShown(url) => ReadsBack(url)
PROOF
<1> SUFFICES ASSUME NEW url \in Seq(Nat), WholeShown(url) PROVE ReadsBack(url)
  OBVIOUS
<1>1. PICK n \in Nat, k \in Nat : n = Len(url) /\ k = Len(Lead)
  BY LeadIs
<1>2. tag \in Tags /\ mem \in Seq(Nat) /\ Len(mem) >= tag.size
  BY DEF WholeShown
<1>3. PICK z \in Nat : z = tag.size
  BY <1>2, SizeOf
<1>4. k + n + 8 <= z /\ Shows(k + n + 8, url)
  BY <1>1, <1>3 DEF WholeShown
<1>5. Len(mem) >= z
  BY <1>2, <1>3
<1>6. QED
  BY <1>1, <1>2, <1>3, <1>4, <1>5, ReadsBackWhole

LEMMA WholeReadsBackNext == \A url \in Seq(Nat): WholeShown(url)' => ReadsBack(url)'
PROOF
<1>1. (\A url \in Seq(Nat): WholeShown(url) => ReadsBack(url))'
  BY WholeReadsBack, PTL
<1>2. QED
  BY <1>1

LEMMA ShownReadsBack ==
  ASSUME NEW url \in Seq(Nat), NEW n \in Nat, n = Len(url), NEW k \in Nat, k = Len(Lead),
         tag \in Tags, tag' = tag, mem' \in Seq(Nat),
         NEW z \in Nat, z = tag.size, Len(mem') >= z, k + n + 8 <= z,
         NEW shown \in Nat, shown >= k + n + 8, Shows(shown, url)'
  PROVE  ReadsBack(url)'
PROOF
<1>1. Lead' = Lead
  BY DEF Lead
<1>2. Shows(k + n + 8, url)'
  BY DEF Shows
<1>3. Len(Lead') + Len(url) + 8 = k + n + 8
  BY <1>1
<1>4. Len(Lead') + Len(url) + 8 <= tag'.size
  BY <1>3
<1>5. Shows(Len(Lead) + Len(url) + 8, url)'
  BY <1>2, <1>3 DEF Shows
<1>6. WholeShown(url)'
  BY <1>4, <1>5 DEF WholeShown, Tags
<1>7. QED
  BY <1>6, WholeReadsBackNext

(* The parts of the invariant.                                             *)
LEMMA InvParts ==
  ASSUME UriInv
  PROVE  /\ tag \in Tags /\ uris \in Nat /\ mem \in Seq(Nat) /\ Len(mem) >= Area
         /\ job.fn = "none" => job = NoJob
         /\ job.fn = "classic" => job \in ClassicJobs /\ wrote = NoUri
         /\ job.fn = "ntag2xx" => job \in Ntag2xxJobs /\ wrote = NoUri
PROOF
<1>1. /\ tag \in Tags /\ uris \in Nat /\ mem \in Seq(Nat) /\ Len(mem) >= Area
      /\ job = NoJob \/ (job \in ClassicJobs \cup Ntag2xxJobs /\ wrote = NoUri)
  BY DEF UriInv
<1>2. job \in ClassicJobs \cup Ntag2xxJobs => job \in ClassicJobs \/ job \in Ntag2xxJobs
  OBVIOUS
<1>3. QED
  BY <1>1, <1>2, JobKinds

LEMMA AreaIs ==
  ASSUME tag \in Tags
  PROVE  Area \in Nat /\ tag.size <= Area /\ (tag.kind = "classic" => Area = 64)
PROOF
<1>1. PICK z \in Nat : z = tag.size
  BY SizeOf
<1>2. tag.kind = "classic" => z = 48
  BY <1>1, SizeOf
<1>3. Area = IF tag.kind = "classic" THEN 64 ELSE z + 8
  BY <1>1 DEF Area, SectorSize
<1>4. Area \in Nat /\ z <= Area /\ (tag.kind = "classic" => Area = 64)
  BY <1>2, <1>3
<1>5. QED
  BY <1>1, <1>4

(* A call that has returned, or that has just begun or gone on.            *)
LEMMA ReturnedInv ==
  ASSUME UriInv, tag' = tag, uris' \in Nat, mem' \in Seq(Nat), Len(mem') >= Len(mem),
         job' = NoJob, ShortUriReadsBack'
  PROVE  UriInv'
PROOF
<1>0. tag \in Tags
  BY InvParts
<1>1. tag' \in Tags /\ Area' = Area /\ Area \in Nat
  <2>1. Area' = Area
    BY DEF Area
  <2>2. QED
    BY <1>0, <2>1, AreaIs
<1>2. Len(mem') >= Area'
  BY <1>1, InvParts
<1>3. ClassicSoFar' /\ Ntag2xxSoFar'
  BY JobKinds DEF ClassicSoFar, Ntag2xxSoFar, ClassicJobs, Ntag2xxJobs
<1>4. QED
  BY <1>1, <1>2, <1>3 DEF UriInv

LEMMA GoingOnInv ==
  ASSUME UriInv, tag' = tag, uris' \in Nat, mem' \in Seq(Nat), Len(mem') >= Len(mem),
         job' \in ClassicJobs \cup Ntag2xxJobs, wrote' = NoUri,
         ClassicSoFar', Ntag2xxSoFar'
  PROVE  UriInv'
PROOF
<1>0. tag \in Tags
  BY InvParts
<1>1. tag' \in Tags /\ Area' = Area /\ Area \in Nat
  <2>1. Area' = Area
    BY DEF Area
  <2>2. QED
    BY <1>0, <2>1, AreaIs
<1>2. Len(mem') >= Area'
  BY <1>1, InvParts
<1>3. ShortUriReadsBack'
  BY DEF ShortUriReadsBack, Written, NoUri
<1>4. job' \in (ClassicJobs \cup Ntag2xxJobs)'
  BY DEF ClassicJobs, Ntag2xxJobs, Block
<1>5. QED
  BY <1>1, <1>2, <1>3, <1>4 DEF UriInv, NoUri

---------------------------------------------------------------------------
(* A sector is written.                                                    *)

ClassicTyped(j) ==
  /\ j.url \in Seq(Nat) /\ j.refused \in BOOLEAN /\ j.block \in 1..4
  /\ j.blocks \in [1..4 -> Block]

LEMMA ClassicParts == \A j \in ClassicJobs: ClassicTyped(j)
PROOF BY DEF ClassicJobs, ClassicTyped

LEMMA ClassicNext ==
  ASSUME NEW j \in ClassicJobs, j.block # 4, NEW k, k = [j EXCEPT !.block = @ + 1]
  PROVE  /\ k \in ClassicJobs /\ k.url = j.url /\ k.blocks = j.blocks
         /\ k.block = j.block + 1 /\ k.refused = j.refused
PROOF
<1>1. j.block \in 1..4 /\ j.block + 1 \in 1..4
  BY ClassicParts DEF ClassicTyped
<1>2. QED
  BY <1>1 DEF ClassicJobs

LEMMA ClassicRefused ==
  ASSUME NEW j \in ClassicJobs, NEW k, k = [j EXCEPT !.refused = TRUE]
  PROVE  /\ k \in ClassicJobs /\ k.url = j.url /\ k.blocks = j.blocks
         /\ k.block = j.block /\ k.refused = TRUE
PROOF BY DEF ClassicJobs

(* What the write of a block leaves on the tag.                            *)
BlockWritten(c, at, bytes) ==
  /\ CopyOf(c, mem, at, bytes) /\ c \in Seq(Nat) /\ Len(c) >= Len(mem)
  /\ at \in Nat /\ bytes \in Seq(Nat) /\ at <= Len(mem)

LEMMA ClassicWrites ==
  ASSUME UriInv, job \in ClassicJobs, tag.kind = "classic",
         NEW at, at = 16 * (job.block - 1), NEW bytes, bytes = job.blocks[job.block],
         NEW c, c = Copy(mem, at, bytes)
  PROVE  BlockWritten(c, at, bytes) /\ Len(bytes) = 16 /\ at <= 48
PROOF
<1>1. PICK b \in 1..4 : b = job.block
  BY ClassicParts DEF ClassicTyped
<1>2. at = 16 * (b - 1)
  BY <1>1
<1>3. at \in Nat /\ at <= 48
  BY <1>2
<1>4. bytes \in Block
  BY <1>1, ClassicParts DEF ClassicTyped
<1>5. bytes \in Seq(Nat) /\ Len(bytes) = 16
  BY <1>4 DEF Block
<1>6. PICK y \in Nat : y = Len(mem)
  BY InvParts
<1>7. mem \in Seq(Nat) /\ at <= y
  BY <1>3, <1>6, InvParts, AreaIs
<1>8. CopyOf(c, mem, at, bytes)
  BY <1>3, <1>5, <1>6, <1>7, Copied
<1>9. c \in Seq(Nat) /\ Len(c) = IF y >= at + 16 THEN y ELSE at + 16
  BY <1>5, <1>6, <1>8 DEF CopyOf
<1>10. Len(c) >= y
  BY <1>3, <1>6, <1>9
<1>11. QED
  BY <1>3, <1>5, <1>6, <1>7, <1>8, <1>9, <1>10 DEF BlockWritten

LEMMA ClassicGrows ==
  ASSUME UriInv, job \in ClassicJobs, NEW url \in Seq(Nat), url = job.url,
         NEW n \in Nat, n = Len(url), n <= 23, ~job.refused,
         NEW at \in Nat, at = 16 * (job.block - 1),
         NEW bytes \in Seq(Nat), bytes = job.blocks[job.block],
         NEW c, BlockWritten(c, at, bytes), Len(bytes) = 16, mem' = c, tag' = tag
  PROVE  Shows(at + 16, url)'
PROOF
<1>1. tag.kind = "classic" /\ InBlocks(job.blocks, url) /\ Shows(at, url)
  <2>1. ClassicSoFar
    BY DEF UriInv
  <2>2. Len(job.url) <= 23
    OBVIOUS
  <2>3. QED
    BY <2>1, <2>2 DEF ClassicSoFar
<1>2. PICK b \in 1..4 : b = job.block
  BY ClassicParts DEF ClassicTyped
<1>3. at = 16 * (b - 1) /\ bytes = job.blocks[b]
  BY <1>2
<1>4. n <= 250
  OBVIOUS
<1>5. Len(Image(url)) = n + 10
  BY <1>1, <1>4, SectorImage
<1>6. PICK q \in Nat : q = 16
  OBVIOUS
<1>7. \A i \in 1..q: at + i <= Len(Image(url)) => bytes[i] = Image(url)[at + i]
  <2>1. CASE b = 4
    BY <1>3, <1>5, <2>1
  <2>2. CASE b # 4
    <3>1. b \in 1..3
      BY <2>2
    <3>2. \A i \in 1..16: 16 * (b - 1) + i <= Len(Image(url)) =>
             job.blocks[b][i] = Image(url)[16 * (b - 1) + i]
      BY <1>1, <3>1, Zenon DEF InBlocks
    <3>3. QED
      BY <1>3, <1>6, <3>2, Zenon
  <2>3. QED
    BY <2>1, <2>2
<1>8. CopyOf(c, mem, at, bytes) /\ mem \in Seq(Nat) /\ Len(bytes) = q
  BY <1>6, InvParts DEF BlockWritten
<1>9. Shows(at + q, url)'
  BY <1>1, <1>7, <1>8, ShowsGrows
<1>10. QED
  BY <1>6, <1>9

LEMMA ClassicReadsBack ==
  ASSUME UriInv, job \in ClassicJobs, tag.kind = "classic", tag' = tag,
         NEW at \in Nat, at = 16 * (job.block - 1),
         NEW bytes \in Seq(Nat), bytes = job.blocks[job.block],
         NEW c, BlockWritten(c, at, bytes), Len(bytes) = 16,
         mem' \in {mem, c}, wrote'.url = job.url,
         Written' => job.block = 4 /\ ~job.refused /\ mem' = c
  PROVE  ShortUriReadsBack'
PROOF
<1>1. PICK url \in Seq(Nat) : url = job.url
  BY ClassicParts DEF ClassicTyped
<1> SUFFICES ASSUME Written', Len(url) <= 23 PROVE ReadsBack(url)'
  BY <1>1 DEF ShortUriReadsBack, ReadsBack, Message
<1>2. PICK n \in Nat : n = Len(url)
  OBVIOUS
<1>3. job.block = 4 /\ ~job.refused /\ mem' = c /\ n <= 23
  BY <1>1, <1>2
<1>4. Shows(at + 16, url)'
  BY <1>1, <1>2, <1>3, ClassicGrows
<1>5. PICK shown \in Nat : shown = at + 16
  OBVIOUS
<1>6. shown = 64
  BY <1>3, <1>5
<1>7. PICK k \in Nat, z \in Nat : k = Len(Lead) /\ z = tag.size
  BY InvParts, SizeOf, LeadIs
<1>8. k = 2 /\ z = 48
  BY <1>7, InvParts, SizeOf, LeadIs
<1>9. tag \in Tags /\ mem' \in Seq(Nat) /\ Len(mem') >= Len(mem) /\ Len(mem) >= 64
  BY <1>3, InvParts, AreaIs DEF BlockWritten
<1>10. Len(mem') >= z
  BY <1>8, <1>9
<1>11. k + n + 8 <= z /\ shown >= k + n + 8
  BY <1>3, <1>6, <1>8
<1>12. Shows(shown, url)'
  BY <1>4, <1>5
<1>13. QED
  BY <1>2, <1>7, <1>9, <1>10, <1>11, <1>12, ShownReadsBack

LEMMA WriteClassicInv == ASSUME UriInv, WriteClassic PROVE UriInv'
PROOF
<1>1. job \in ClassicJobs /\ wrote = NoUri
  BY InvParts DEF WriteClassic
<1>2. tag.kind = "classic" /\ ClassicSoFar
  BY <1>1 DEF UriInv, ClassicSoFar
<1>3. PICK at, bytes, next, c :
        /\ at = 16 * (job.block - 1) /\ bytes = job.blocks[job.block]
        /\ next = [job EXCEPT !.block = @ + 1] /\ c = Copy(mem, at, bytes)
  OBVIOUS
<1>4. PICK last \in BOOLEAN : last = (job.block = 4)
  OBVIOUS
<1>5. WriteBlock(at, bytes, last, next) /\ tag' = tag /\ uris' = uris
  BY <1>3, <1>4 DEF WriteClassic
<1>6. BlockWritten(c, at, bytes) /\ Len(bytes) = 16
  BY <1>1, <1>2, <1>3, ClassicWrites
<1>7. at \in Nat /\ bytes \in Seq(Nat) /\ c \in Seq(Nat) /\ Len(c) >= Len(mem)
  BY <1>6 DEF BlockWritten
<1>8. PICK url \in Seq(Nat) : url = job.url
  BY <1>1, ClassicParts DEF ClassicTyped
<1>9. PICK n \in Nat : n = Len(url)
  OBVIOUS
<1>10. uris' \in Nat /\ mem \in Seq(Nat) /\ Len(mem) \in Nat
  BY <1>5, InvParts
<1>11. CASE ~last /\ job' = next /\ wrote' = wrote /\ mem' = c
  <2>1. /\ job' \in ClassicJobs /\ job'.url = url /\ job'.blocks = job.blocks
        /\ job'.block = job.block + 1 /\ job'.refused = job.refused
    BY <1>1, <1>3, <1>4, <1>8, <1>11, ClassicNext
  <2>2. job' \notin Ntag2xxJobs
    BY <2>1, JobKinds
  <2>3. Ntag2xxSoFar'
    BY <2>2 DEF Ntag2xxSoFar, Ntag2xxJobs
  <2>4. ASSUME n <= 23, ~job.refused PROVE Shows(16 * (job.block - 1), url)'
    <3>1. Shows(at + 16, url)'
      BY <1>1, <1>3, <1>5, <1>6, <1>7, <1>8, <1>9, <1>11, <2>4, ClassicGrows
    <3>2. job.block \in 1..4
      BY <1>1, ClassicParts DEF ClassicTyped
    <3>3. 16 * (job'.block - 1) = at + 16
      BY <1>3, <2>1, <3>2
    <3>4. QED
      BY <3>1, <3>3 DEF Shows
  <2>5. ClassicSoFar'
    <3>1. Image(url)' = Image(url)
      BY <1>5 DEF Image, Lead, Message
    <3>2. n < 38 => job.blocks[4] = Trailer
      BY <1>1, <1>2, <1>8, <1>9 DEF ClassicSoFar
    <3>3. n <= 23 => InBlocks(job.blocks, url)
      BY <1>1, <1>2, <1>8, <1>9 DEF ClassicSoFar
    <3>4. n <= 23 => InBlocks(job.blocks, job.url)'
      BY <2>1, <3>1, <3>3 DEF InBlocks
    <3>5. n <= 23 /\ ~job'.refused => Shows(16 * (job.block - 1), job.url)'
      BY <2>1, <2>4 DEF Shows
    <3>6. n < 38 => job'.blocks[4] = Trailer'
      BY <2>1, <3>2 DEF Trailer
    <3>7. tag'.kind = "classic" /\ Len(job'.url) = n
      BY <1>2, <1>5, <1>9, <2>1
    <3>8. QED
      BY <3>4, <3>5, <3>6, <3>7 DEF ClassicSoFar
  <2>6. QED
    BY <1>1, <1>5, <1>7, <1>10, <1>11, <2>1, <2>3, <2>5, GoingOnInv
<1>12. CASE /\ ~last /\ job' = [next EXCEPT !.refused = TRUE]
            /\ wrote' = wrote /\ mem' = mem
  <2>1. /\ next \in ClassicJobs /\ next.url = url /\ next.blocks = job.blocks
        /\ next.block = job.block + 1
    BY <1>1, <1>3, <1>4, <1>8, <1>12, ClassicNext
  <2>2. /\ job' \in ClassicJobs /\ job'.url = url /\ job'.blocks = job.blocks
        /\ job'.refused = TRUE
    BY <1>12, <2>1, ClassicRefused
  <2>3. Ntag2xxSoFar'
    BY <2>2, JobKinds DEF Ntag2xxSoFar, Ntag2xxJobs
  <2>4. ClassicSoFar'
    <3>1. Image(url)' = Image(url)
      BY <1>5 DEF Image, Lead, Message
    <3>2. n < 38 => job.blocks[4] = Trailer
      BY <1>1, <1>2, <1>8, <1>9 DEF ClassicSoFar
    <3>3. n <= 23 => InBlocks(job.blocks, url)
      BY <1>1, <1>2, <1>8, <1>9 DEF ClassicSoFar
    <3>4. n <= 23 => InBlocks(job.blocks, job.url)'
      BY <2>2, <3>1, <3>3 DEF InBlocks
    <3>5. n < 38 => job'.blocks[4] = Trailer'
      BY <2>2, <3>2 DEF Trailer
    <3>6. tag'.kind = "classic" /\ Len(job'.url) = n
      BY <1>2, <1>5, <1>9, <2>2
    <3>7. QED
      BY <2>2, <3>4, <3>5, <3>6 DEF ClassicSoFar
  <2>5. Len(mem') >= Len(mem) /\ mem' \in Seq(Nat)
    BY <1>10, <1>12
  <2>6. QED
    BY <1>1, <1>5, <1>10, <1>12, <2>2, <2>3, <2>4, <2>5, GoingOnInv
<1>13. CASE /\ job' = NoJob /\ wrote'.url = job.url /\ mem' \in {mem, c}
            /\ Written' => last /\ ~job.refused /\ mem' = c
  <2>1. Written' => job.block = 4 /\ ~job.refused /\ mem' = c
    BY <1>4, <1>13
  <2>2. ShortUriReadsBack'
    BY <1>1, <1>2, <1>3, <1>5, <1>6, <1>7, <1>13, <2>1, ClassicReadsBack
  <2>3. mem' \in Seq(Nat) /\ Len(mem') >= Len(mem)
    BY <1>7, <1>10, <1>13
  <2>4. QED
    BY <1>5, <1>10, <1>13, <2>2, <2>3, ReturnedInv
<1>14. \/ ~last /\ job' = next /\ wrote' = wrote /\ mem' = c
       \/ ~last /\ job' = [next EXCEPT !.refused = TRUE] /\ wrote' = wrote /\ mem' = mem
       \/ /\ job' = NoJob /\ wrote'.url = job.url /\ mem' \in {mem, c}
          /\ Written' => last /\ ~job.refused /\ mem' = c
  <2>1. c = Copy(mem, at, bytes)
    BY <1>3
  <2>2. WriteBlock(at, bytes, last, next)
    BY <1>5
  <2>3. QED
    BY <2>1, <2>2, WriteOutcome, Zenon
<1>15. QED
  BY <1>11, <1>12, <1>13, <1>14

---------------------------------------------------------------------------
(* The pages of a NTAG2xx are written.                                     *)

LEMMA Ntag2xxParts ==
  \A j \in Ntag2xxJobs: /\ j.url \in Seq(Nat) /\ j.refused \in BOOLEAN /\ j.page \in Nat
                        /\ j.len \in 1..255 /\ j.rest \in Seq(Nat)
PROOF BY DEF Ntag2xxJobs

(* What is left follows what was sent.                                     *)
Follows(j) ==
  /\ Sent(j) + Len(j.rest) = j.len
  /\ \A i \in 1..Len(j.rest): j.rest[i] = j.url[Sent(j) + i]

LEMMA Ntag2xxNext ==
  ASSUME NEW j \in Ntag2xxJobs, j.page >= 4, ~LastPage4(j), Follows(j),
         NEW next, next = NextPage4(j)
  PROVE  /\ next \in Ntag2xxJobs /\ next.url = j.url /\ next.len = j.len
         /\ next.page = j.page + 1 /\ next.refused = j.refused /\ Follows(next)
PROOF
<1>1. PICK page \in Nat, len \in Nat, rest \in Seq(Nat), url \in Seq(Nat) :
        page = j.page /\ len = j.len /\ rest = j.rest /\ url = j.url
  <2>1. j.page \in Nat /\ j.len \in 1..255 /\ j.rest \in Seq(Nat) /\ j.url \in Seq(Nat)
    BY Ntag2xxParts
  <2>2. \A n \in 1..255: n \in Nat
    OBVIOUS
  <2>3. j.len \in Nat
    BY <2>1, <2>2, Zenon
  <2>4. QED
    BY <2>1, <2>3, Zenon
<1>2. PICK m \in Nat : m = Len(rest)
  OBVIOUS
<1>3. page >= 4
  BY <1>1
<1>4. PICK sent \in Nat : sent = IF page < 7 THEN 0 ELSE 4 * (page - 7)
  BY <1>3
<1>5. Sent(j) = sent
  BY <1>1, <1>4 DEF Sent
<1>6. sent + m = len /\ \A i \in 1..m: rest[i] = url[sent + i]
  BY <1>1, <1>2, <1>5 DEF Follows
<1>7. page < 7 \/ m >= 4
  BY <1>1, <1>2 DEF LastPage4
<1>8. PICK more : more = IF page < 7 THEN rest ELSE SubSeq(rest, 5, m)
  OBVIOUS
<1>9. PICK later \in Nat : later = IF page + 1 < 7 THEN 0 ELSE 4 * (page + 1 - 7)
  BY <1>3
<1>10. /\ more \in Seq(Nat) /\ Len(more) \in Nat /\ later + Len(more) = len
       /\ \A i \in 1..Len(more): more[i] = url[later + i]
  <2>1. CASE page < 7
    <3>1. later = 0 /\ sent = 0 /\ more = rest
      BY <1>3, <1>4, <1>8, <1>9, <2>1
    <3>2. QED
      BY <1>2, <1>6, <3>1
  <2>2. CASE page >= 7
    <3>1. later = sent + 4 /\ m >= 4
      BY <1>4, <1>7, <1>9, <2>2
    <3>2. PICK a \in Nat, q \in Nat : a = 4 /\ q = m - 4
      BY <3>1
    <3>3. a + q = m /\ a + 1 = 5 /\ ~(page < 7)
      BY <2>2, <3>2
    <3>4. more = SubSeq(rest, a + 1, a + q)
      BY <1>8, <3>3, Zenon
    <3>5. a + q <= Len(rest)
      BY <1>2, <3>3
    <3>6. more \in Seq(Nat) /\ Len(more) = q /\ \A i \in 1..q: more[i] = rest[a + i]
      <4>1. SubSeq(rest, a + 1, a + q) \in Seq(Nat) /\ Len(SubSeq(rest, a + 1, a + q)) = q
        BY <3>5, Pieces
      <4>2. \A i \in 1..q: SubSeq(rest, a + 1, a + q)[i] = rest[a + i]
        BY <3>5, Pieces
      <4>3. QED
        BY <3>4, <4>1, <4>2, Zenon
    <3>7. ASSUME NEW i \in 1..q PROVE more[i] = url[later + i]
      <4>1. PICK p \in 1..m : p = a + i
        BY <3>3
      <4>2. more[i] = rest[p] /\ rest[p] = url[sent + p]
        BY <1>6, <3>6, <4>1
      <4>3. sent + p = later + i
        BY <3>1, <3>2, <4>1
      <4>4. QED
        BY <4>2, <4>3
    <3>8. later + q = len
      BY <1>6, <3>1, <3>2
    <3>9. QED
      BY <3>6, <3>7, <3>8
  <2>3. QED
    BY <2>1, <2>2
<1>11. next = [j EXCEPT !.page = page + 1, !.rest = more]
  BY <1>1, <1>2, <1>8 DEF NextPage4
<1>12. /\ next \in Ntag2xxJobs /\ next.url = url /\ next.len = len
       /\ next.page = page + 1 /\ next.refused = j.refused /\ next.rest = more
  <2>1. more \in Seq(Nat) /\ page + 1 \in Nat
    BY <1>10
  <2>2. PICK up \in Nat : up = page + 1
    BY <2>1
  <2>3. next = [j EXCEPT !.page = up, !.rest = more]
    BY <1>11, <2>2, Zenon
  <2>4. next \in Ntag2xxJobs
    BY <2>1, <2>3 DEF Ntag2xxJobs
  <2>5. /\ next.url = j.url /\ next.len = j.len
        /\ next.page = up /\ next.refused = j.refused /\ next.rest = more
    BY <2>3 DEF Ntag2xxJobs
  <2>6. QED
    BY <1>1, <2>2, <2>4, <2>5, Zenon
<1>13. Sent(next) = later
  BY <1>9, <1>12 DEF Sent
<1>14. Follows(next)
  BY <1>10, <1>12, <1>13 DEF Follows
<1>15. QED
  BY <1>1, <1>12, <1>14

LEMMA Ntag2xxRefused ==
  ASSUME NEW j \in Ntag2xxJobs, Follows(j), NEW next, next = [j EXCEPT !.refused = TRUE]
  PROVE  /\ next \in Ntag2xxJobs /\ next.url = j.url /\ next.len = j.len
         /\ next.page = j.page /\ next.refused = TRUE /\ Follows(next)
PROOF
<1>1. /\ next \in Ntag2xxJobs /\ next.url = j.url /\ next.len = j.len
      /\ next.page = j.page /\ next.refused = TRUE /\ next.rest = j.rest
  BY DEF Ntag2xxJobs
<1>2. Sent(next) = Sent(j)
  BY <1>1 DEF Sent
<1>3. Follows(next)
  BY <1>1, <1>2 DEF Follows
<1>4. QED
  BY <1>1, <1>3

(* Where the page at hand lies: within the data area.                      *)
Placed(at, z, len, page, m) ==
  /\ page >= 4 /\ at \in Nat /\ len + 13 <= z /\ z <= 255
  /\ at + 4 <= z + 3 /\ m <= len
  /\ page >= 7 => at + m = len + 12

LEMMA PlaceNumbers ==
  ASSUME NEW page \in Nat, page >= 4, NEW at \in Int, at = 4 * (page - 4),
         NEW sent \in Nat, sent = IF page < 7 THEN 0 ELSE 4 * (page - 7),
         NEW m \in Nat, NEW len \in Nat, sent + m = len,
         NEW z \in Nat, len >= 1, len + 1 <= z - 12, z <= 255
  PROVE  Placed(at, z, len, page, m)
PROOF BY DEF Placed

LEMMA PageNumbers ==
  ASSUME NEW p \in Int, NEW at \in Int, NEW i \in Int, NEW m \in Int, NEW n \in Int,
         NEW sent \in Int, p = at + i, at = 12 + sent, at + m = n + 12, i <= m
  PROVE  p <= 12 + n /\ p - 12 = sent + i
PROOF OBVIOUS

LEMMA Ntag2xxPlace ==
  ASSUME UriInv, job \in Ntag2xxJobs, NEW z \in Nat, z = tag.size,
         NEW len \in Nat, len = job.len, NEW page \in Nat, page = job.page,
         NEW m \in Nat, m = Len(job.rest), NEW at \in Int, at = 4 * (page - 4)
  PROVE  /\ tag.kind = "ntag2xx" /\ Follows(job) /\ job.len = U8(Len(job.url))
         /\ Placed(at, z, len, page, m)
PROOF
<1>1. Ntag2xxSoFar /\ tag \in Tags
  BY DEF UriInv
<1>2. /\ tag.kind = "ntag2xx" /\ page >= 4 /\ job.len = U8(Len(job.url))
      /\ ~TooLong(len, z) /\ Follows(job)
  BY <1>1 DEF Ntag2xxSoFar, Follows
<1>3. len >= 1 /\ len + 1 <= z - 12
  BY <1>2 DEF TooLong
<1>4. PICK sent \in Nat : sent = IF page < 7 THEN 0 ELSE 4 * (page - 7)
  BY <1>2
<1>5. Sent(job) = sent
  BY <1>4 DEF Sent
<1>6. sent + m = len
  BY <1>2, <1>5 DEF Follows
<1>7. z <= 255
  BY <1>1, SizeOf
<1>8. page >= 4
  BY <1>2
<1>14. Placed(at, z, len, page, m)
  BY <1>3, <1>4, <1>6, <1>7, <1>8, PlaceNumbers, Zenon
<1>15. QED
  BY <1>2, <1>14

LEMMA Ntag2xxNumbers ==
  ASSUME UriInv, job \in Ntag2xxJobs
  PROVE  /\ tag.size \in Nat /\ job.len \in Nat /\ job.page \in Nat
         /\ job.rest \in Seq(Nat) /\ Len(job.rest) \in Nat
         /\ job.url \in Seq(Nat) /\ Len(job.url) \in Nat
PROOF
<1>1. tag.size \in Nat
  BY InvParts, SizeOf
<1>2. job.page \in Nat /\ job.len \in 1..255 /\ job.rest \in Seq(Nat) /\ job.url \in Seq(Nat)
  BY Ntag2xxParts
<1>3. \A n \in 1..255: n \in Nat
  OBVIOUS
<1>4. job.len \in Nat
  BY <1>2, <1>3, Zenon
<1>5. \A s \in Seq(Nat): Len(s) \in Nat
  OBVIOUS
<1>6. QED
  BY <1>1, <1>2, <1>4, <1>5, Zenon

LEMMA Ntag2xxWrites ==
  ASSUME UriInv, job \in Ntag2xxJobs, NEW at \in Int, at = 4 * (job.page - 4),
         NEW bytes, bytes = Page4(job), NEW c, c = Copy(mem, at, bytes)
  PROVE  /\ BlockWritten(c, at, bytes) /\ Len(bytes) = 4 /\ Len(c) = Len(mem)
PROOF
<1>1. PICK z \in Nat, len \in Nat, page \in Nat, rest \in Seq(Nat), m \in Nat :
        /\ z = tag.size /\ len = job.len /\ page = job.page /\ rest = job.rest
        /\ m = Len(rest)
  BY Ntag2xxNumbers, Zenon
<1>2. at = 4 * (page - 4) /\ m = Len(job.rest)
  BY <1>1
<1>12. tag.kind = "ntag2xx" /\ Placed(at, z, len, page, m)
  BY <1>1, <1>2, Ntag2xxPlace, Zenon
<1>3. tag.kind = "ntag2xx" /\ page >= 4 /\ at \in Nat /\ at + 4 <= z + 3
  BY <1>12 DEF Placed
<1>4. bytes \in Seq(Nat) /\ Len(bytes) = 4
  BY <1>1, <1>3, PageIs
<1>5. PICK y \in Nat : y = Len(mem)
  BY InvParts
<1>6. mem \in Seq(Nat) /\ y >= z + 8
  <2>1. Area = z + 8
    BY <1>1, <1>3 DEF Area
  <2>2. QED
    BY <1>5, <2>1, InvParts
<1>7. at <= Len(mem) /\ at + 4 <= y
  BY <1>3, <1>5, <1>6
<1>8. CopyOf(c, mem, at, bytes)
  BY <1>3, <1>4, <1>6, <1>7, Copied
<1>9. c \in Seq(Nat) /\ Len(c) = IF y >= at + 4 THEN y ELSE at + 4
  BY <1>4, <1>5, <1>8 DEF CopyOf
<1>10. Len(c) = y
  BY <1>7, <1>9
<1>11. QED
  BY <1>3, <1>4, <1>5, <1>6, <1>7, <1>8, <1>9, <1>10 DEF BlockWritten

LEMMA Ntag2xxGrows ==
  ASSUME UriInv, job \in Ntag2xxJobs, NEW url \in Seq(Nat), url = job.url,
         NEW n \in Nat, n = Len(url), n <= 255, ~job.refused,
         NEW at \in Nat, at = 4 * (job.page - 4), NEW bytes \in Seq(Nat), bytes = Page4(job),
         NEW c, BlockWritten(c, at, bytes), Len(bytes) = 4, mem' = c, tag' = tag
  PROVE  Shows(at + 4, url)'
PROOF
<1>1. PICK z \in Nat, len \in Nat, page \in Nat, rest \in Seq(Nat), m \in Nat :
        /\ z = tag.size /\ len = job.len /\ page = job.page /\ rest = job.rest
        /\ m = Len(rest)
  BY Ntag2xxNumbers, Zenon
<1>2. at = 4 * (page - 4) /\ m = Len(job.rest)
  BY <1>1
<1>18. at \in Int
  OBVIOUS
<1>19. /\ tag.kind = "ntag2xx" /\ Follows(job) /\ job.len = U8(Len(job.url))
       /\ Placed(at, z, len, page, m)
  BY <1>1, <1>2, <1>18, Ntag2xxPlace, ZenonT(40)
<1>21. \A q \in Nat: q <= 255 => q \in 0..255
  OBVIOUS
<1>20. n \in 0..255
  BY <1>21, Zenon
<1>4. len = n
  BY <1>1, <1>19, <1>20, U8Same, Zenon
<1>3. /\ tag.kind = "ntag2xx" /\ page >= 4 /\ Follows(job)
      /\ m <= len /\ len + 13 <= z /\ z <= 255 /\ (page >= 7 => at + m = len + 12)
  BY <1>19 DEF Placed
<1>5. n <= 250 /\ tag.kind # "classic"
  BY <1>3, <1>4
<1>6. /\ Len(Image(url)) = n + 13
      /\ \A i \in 1..(n + 13): Image(url)[i] = IF i <= 12 THEN Header(n)[i]
                                ELSE IF i <= 12 + n THEN url[i - 12] ELSE 254
  BY <1>5, PagesImage
<1>7. PICK sent \in Nat : sent = IF page < 7 THEN 0 ELSE 4 * (page - 7)
  OBVIOUS
<1>8. Sent(job) = sent
  BY <1>1, <1>7 DEF Sent
<1>9. \A i \in 1..m: rest[i] = url[sent + i]
  BY <1>1, <1>3, <1>8 DEF Follows
<1>10. \A i \in 1..4:
         bytes[i] = IF page < 7 THEN Header(n)[4 * (page - 4) + i]
                    ELSE IF i <= m THEN rest[i]
                    ELSE IF i = m + 1 THEN 254 ELSE bytes[i]
  <2>1. page >= 4
    BY <1>3
  <2>2. bytes = Page4(job) /\ n = job.len
    BY <1>1, <1>4, Zenon
  <2>3. PageHolds(Page4(job), page, job.len, rest, m)
    BY <1>1, <2>1, PageIs
  <2>4. PageHolds(bytes, page, n, rest, m)
    BY <2>2, <2>3
  <2>5. QED
    BY <2>4 DEF PageHolds
<1>11. ASSUME NEW i \in 1..4, at + i <= n + 13 PROVE bytes[i] = Image(url)[at + i]
  <2>1. PICK p \in 1..(n + 13) : p = at + i
    BY <1>11
  <2>2. CASE page < 7
    <3>1. p = 4 * (page - 4) + i /\ p <= 12
      BY <1>2, <2>1, <2>2
    <3>2. bytes[i] = Header(n)[p]
      BY <1>10, <2>2, <3>1
    <3>3. Image(url)[p] = Header(n)[p]
      BY <1>6, <3>1
    <3>4. QED
      BY <2>1, <3>2, <3>3
  <2>3. CASE page >= 7
    <3>1. at = 12 + sent /\ ~(p <= 12) /\ at + m = n + 12
      BY <1>2, <1>3, <1>4, <1>7, <2>1, <2>3
    <3>2. CASE i <= m
      <4>1. bytes[i] = rest[i] /\ rest[i] = url[sent + i]
        <5>1. i \in 1..m /\ ~(page < 7)
          BY <2>3, <3>2
        <5>2. bytes[i] = rest[i]
          BY <1>10, <3>2, <5>1, Zenon
        <5>3. QED
          BY <1>9, <5>1, <5>2, Zenon
      <4>2. p <= 12 + n /\ p - 12 = sent + i
        <5>1. p = at + i /\ at = 12 + sent
          BY <2>1, <3>1
        <5>2. at + m = 12 + n
          BY <3>1
        <5>3. QED
          <6>1. /\ p \in Int /\ at \in Int /\ i \in Int /\ m \in Int /\ n \in Int
                /\ sent \in Int /\ at + m = n + 12
            BY <3>1
          <6>2. i <= m
            BY <3>2
          <6>3. p <= 12 + n
            BY <5>1, <6>1, <6>2, SMTT(30)
          <6>4. p - 12 = sent + i
            BY <5>1, <6>1
          <6>5. QED
            BY <6>3, <6>4, Zenon
      <4>3. Image(url)[p] = url[p - 12]
        BY <1>6, <3>1, <4>2
      <4>4. QED
        BY <2>1, <4>1, <4>2, <4>3
    <3>3. CASE i > m
      <4>1. i = m + 1 /\ ~(p <= 12 + n)
        <5>1. at + m = n + 12 /\ p = at + i /\ p <= n + 13
          BY <2>1, <3>1
        <5>2. QED
          BY <3>3, <5>1, SMTT(40)
      <4>2. bytes[i] = 254
        BY <1>10, <2>3, <4>1
      <4>3. Image(url)[p] = 254
        BY <1>6, <3>1, <4>1
      <4>4. QED
        BY <2>1, <4>2, <4>3
    <3>4. QED
      BY <3>2, <3>3
  <2>4. QED
    BY <2>2, <2>3
<1>12. PICK q \in Nat : q = 4
  OBVIOUS
<1>13. Len(bytes) = q /\ \A i \in 1..q: at + i <= Len(Image(url)) => bytes[i] = Image(url)[at + i]
  BY <1>6, <1>11, <1>12
<1>14. Shows(at, url)
  <2>1. Ntag2xxSoFar
    BY DEF UriInv
  <2>2. ~job.refused /\ Len(job.url) <= 255
    OBVIOUS
  <2>3. Shows(4 * (job.page - 4), job.url)
    BY <2>1, <2>2 DEF Ntag2xxSoFar
  <2>4. QED
    BY <2>3
<1>15. CopyOf(c, mem, at, bytes) /\ mem \in Seq(Nat)
  BY InvParts DEF BlockWritten
<1>16. Shows(at + q, url)'
  BY <1>13, <1>14, <1>15, ShowsGrows
<1>17. QED
  BY <1>12, <1>16

LEMMA Ntag2xxReadsBack ==
  ASSUME UriInv, job \in Ntag2xxJobs, tag' = tag,
         NEW at \in Nat, at = 4 * (job.page - 4), NEW bytes \in Seq(Nat), bytes = Page4(job),
         NEW c, BlockWritten(c, at, bytes), Len(bytes) = 4,
         mem' \in {mem, c}, wrote'.url = job.url,
         Written' => LastPage4(job) /\ ~job.refused /\ mem' = c
  PROVE  ShortUriReadsBack'
PROOF
<1>1. PICK z \in Nat, len \in Nat, page \in Nat, rest \in Seq(Nat), m \in Nat, url \in Seq(Nat),
           n \in Nat :
        /\ z = tag.size /\ len = job.len /\ page = job.page /\ rest = job.rest
        /\ m = Len(rest) /\ url = job.url /\ n = Len(url)
  BY Ntag2xxNumbers, Zenon
<1>2. at = 4 * (page - 4) /\ m = Len(job.rest) /\ at \in Int
  BY <1>1
<1>3. /\ tag.kind = "ntag2xx" /\ job.len = U8(Len(job.url)) /\ Placed(at, z, len, page, m)
  BY <1>1, <1>2, Ntag2xxPlace, Zenon
<1> SUFFICES ASSUME Written', n <= 255 PROVE ReadsBack(url)'
  BY <1>1, <1>3 DEF ShortUriReadsBack, ReadsBack, Message
<1>4. LastPage4(job) /\ ~job.refused /\ mem' = c
  OBVIOUS
<1>5. \A q \in Nat: q <= 255 => q \in 0..255
  OBVIOUS
<1>6. n \in 0..255
  BY <1>5, Zenon
<1>7. len = n
  BY <1>1, <1>3, <1>6, U8Same, Zenon
<1>8. page >= 7 /\ m < 4
  BY <1>1, <1>4 DEF LastPage4
<1>9. at + m = len + 12 /\ len + 13 <= z
  BY <1>3, <1>8 DEF Placed
<1>10. Shows(at + 4, url)'
  BY <1>1, <1>4, Ntag2xxGrows
<1>11. PICK shown \in Nat : shown = at + 4
  OBVIOUS
<1>12. PICK k \in Nat : k = Len(Lead)
  BY LeadIs
<1>13. k = 5
  BY <1>3, <1>12, LeadIs
<1>14. k + n + 8 <= z /\ shown >= k + n + 8
  BY <1>7, <1>8, <1>9, <1>11, <1>13
<1>15. tag \in Tags /\ mem \in Seq(Nat) /\ Len(mem) >= Area
  BY InvParts
<1>16. mem' \in Seq(Nat) /\ Len(mem') >= Len(mem)
  BY <1>4 DEF BlockWritten
<1>17. Len(mem') >= z
  BY <1>1, <1>15, <1>16, AreaIs
<1>18. Shows(shown, url)'
  BY <1>10, <1>11
<1>19. QED
  BY <1>1, <1>12, <1>14, <1>15, <1>16, <1>17, <1>18, ShownReadsBack

LEMMA Ntag2xxGood ==
  ASSUME UriInv, tag' = tag, NEW next \in Ntag2xxJobs, job' = next, next.page >= 4,
         tag.kind = "ntag2xx", next.len = U8(Len(next.url)), ~TooLong(next.len, tag.size),
         Follows(next),
         NEW at, at = 4 * (next.page - 4), NEW url, url = next.url,
         ~next.refused /\ Len(url) <= 255 => Shows(at, url)'
  PROVE  Ntag2xxSoFar' /\ ClassicSoFar'
PROOF
<1>1. ClassicSoFar'
  BY JobKinds DEF ClassicSoFar, ClassicJobs, Block
<1>2. Sent(job)' = Sent(next)
  BY DEF Sent
<1>3. TooLong(job.len, tag.size)' = TooLong(next.len, tag.size)
  BY DEF TooLong
<1>4. /\ (Sent(job) + Len(job.rest) = job.len)'
      /\ (\A i \in 1..Len(job.rest): job.rest[i] = job.url[Sent(job) + i])'
  BY <1>2 DEF Follows
<1>5. (~job.refused /\ Len(job.url) <= 255 => Shows(4 * (job.page - 4), job.url))'
  BY DEF Shows
<1>6. Ntag2xxSoFar'
  BY <1>3, <1>4, <1>5 DEF Ntag2xxSoFar
<1>7. QED
  BY <1>1, <1>6

LEMMA WriteNtag2xxInv == ASSUME UriInv, WriteNtag2xx PROVE UriInv'
PROOF
<1>1. job \in Ntag2xxJobs /\ wrote = NoUri
  BY InvParts DEF WriteNtag2xx
<1>2. PICK z \in Nat, len \in Nat, page \in Nat, m \in Nat, url \in Seq(Nat) :
        z = tag.size /\ len = job.len /\ page = job.page /\ m = Len(job.rest) /\ url = job.url
  BY <1>1, Ntag2xxNumbers, Zenon
<1>3. PICK at \in Int : at = 4 * (page - 4)
  OBVIOUS
<1>4. at = 4 * (job.page - 4)
  BY <1>2, <1>3
<1>5. /\ tag.kind = "ntag2xx" /\ Follows(job) /\ job.len = U8(Len(job.url))
      /\ Placed(at, z, len, page, m)
  BY <1>1, <1>2, <1>3, Ntag2xxPlace, Zenon
<1>6. page >= 4 /\ at \in Nat
  BY <1>5 DEF Placed
<1>7. ~TooLong(job.len, tag.size)
  BY <1>1 DEF UriInv, Ntag2xxSoFar
<1>8. PICK bytes, onward, c :
        bytes = Page4(job) /\ onward = NextPage4(job) /\ c = Copy(mem, at, bytes)
  OBVIOUS
<1>9. PICK last \in BOOLEAN : last = LastPage4(job)
  BY DEF LastPage4
<1>10. WriteBlock(at, bytes, last, onward) /\ tag' = tag /\ uris' = uris
  BY <1>4, <1>8, <1>9 DEF WriteNtag2xx
<1>11. BlockWritten(c, at, bytes) /\ Len(bytes) = 4 /\ Len(c) = Len(mem)
  BY <1>1, <1>4, <1>8, Ntag2xxWrites
<1>12. bytes \in Seq(Nat) /\ c \in Seq(Nat) /\ Len(c) >= Len(mem)
  BY <1>11 DEF BlockWritten
<1>13. uris' \in Nat /\ mem \in Seq(Nat) /\ Len(mem) \in Nat
  BY <1>10, InvParts
<1>14. ~last => /\ onward \in Ntag2xxJobs /\ onward.url = url /\ onward.len = job.len
                /\ onward.page = page + 1 /\ onward.refused = job.refused
                /\ Follows(onward)
  BY <1>1, <1>2, <1>5, <1>6, <1>8, <1>9, Ntag2xxNext
<1>15. PICK later : later = 4 * (page + 1 - 4) /\ later = at + 4
  BY <1>3
<1>16. CASE ~last /\ job' = onward /\ wrote' = wrote /\ mem' = c
  <2>1. ~onward.refused /\ Len(url) <= 255 => Shows(later, url)'
    <3>1. ASSUME ~job.refused, Len(url) <= 255 PROVE Shows(at + 4, url)'
      <4>1. PICK n \in Nat : n = Len(url)
        OBVIOUS
      <4>2. QED
        BY <1>1, <1>2, <1>4, <1>6, <1>8, <1>10, <1>11, <1>12, <1>16, <3>1, <4>1, Ntag2xxGrows
    <3>2. QED
      BY <1>14, <1>15, <1>16, <3>1 DEF Shows
  <2>2. /\ onward.page >= 4 /\ onward.len = U8(Len(onward.url))
        /\ ~TooLong(onward.len, tag.size) /\ later = 4 * (onward.page - 4)
    BY <1>2, <1>5, <1>6, <1>7, <1>14, <1>15, <1>16, SMTT(40)
  <2>3. Ntag2xxSoFar' /\ ClassicSoFar'
    BY <1>5, <1>10, <1>14, <1>16, <2>1, <2>2, Ntag2xxGood
  <2>4. job' \in ClassicJobs \cup Ntag2xxJobs
    BY <1>14, <1>16
  <2>5. mem' \in Seq(Nat) /\ Len(mem') >= Len(mem) /\ wrote' = NoUri
    BY <1>1, <1>12, <1>16
  <2>6. QED
    BY <1>10, <1>13, <2>3, <2>4, <2>5, GoingOnInv
<1>17. CASE /\ ~last /\ job' = [onward EXCEPT !.refused = TRUE]
            /\ wrote' = wrote /\ mem' = mem
  <2>1. PICK next : next = job'
    OBVIOUS
  <2>2. /\ next \in Ntag2xxJobs /\ next.url = url /\ next.len = job.len
        /\ next.page = page + 1 /\ next.refused = TRUE /\ Follows(next)
    BY <1>14, <1>17, <2>1, Ntag2xxRefused
  <2>3. /\ next.page >= 4 /\ next.len = U8(Len(next.url))
        /\ ~TooLong(next.len, tag.size) /\ later = 4 * (next.page - 4)
    BY <1>2, <1>5, <1>6, <1>7, <1>15, <2>2
  <2>4. ~next.refused /\ Len(url) <= 255 => Shows(later, url)'
    BY <2>2
  <2>5. Ntag2xxSoFar' /\ ClassicSoFar'
    BY <1>5, <1>10, <2>1, <2>2, <2>3, <2>4, Ntag2xxGood
  <2>6. job' \in ClassicJobs \cup Ntag2xxJobs
    BY <2>1, <2>2
  <2>7. mem' \in Seq(Nat) /\ Len(mem') >= Len(mem) /\ wrote' = NoUri
    BY <1>1, <1>13, <1>17
  <2>8. QED
    BY <1>10, <1>13, <2>5, <2>6, <2>7, GoingOnInv
<1>18. CASE /\ job' = NoJob /\ wrote'.url = job.url /\ mem' \in {mem, c}
            /\ Written' => last /\ ~job.refused /\ mem' = c
  <2>1. Written' => LastPage4(job) /\ ~job.refused /\ mem' = c
    BY <1>9, <1>18
  <2>2. ShortUriReadsBack'
    BY <1>1, <1>4, <1>6, <1>8, <1>10, <1>11, <1>12, <1>18, <2>1, Ntag2xxReadsBack
  <2>3. mem' \in Seq(Nat) /\ Len(mem') >= Len(mem)
    BY <1>12, <1>13, <1>18
  <2>4. QED
    BY <1>10, <1>13, <1>18, <2>2, <2>3, ReturnedInv
<1>19. \/ ~last /\ job' = onward /\ wrote' = wrote /\ mem' = c
       \/ ~last /\ job' = [onward EXCEPT !.refused = TRUE] /\ wrote' = wrote /\ mem' = mem
       \/ /\ job' = NoJob /\ wrote'.url = job.url /\ mem' \in {mem, c}
          /\ Written' => last /\ ~job.refused /\ mem' = c
  <2>1. c = Copy(mem, at, bytes)
    BY <1>8
  <2>2. WriteBlock(at, bytes, last, onward)
    BY <1>10
  <2>3. QED
    BY <2>1, <2>2, WriteOutcome, Zenon
<1>20. QED
  BY <1>16, <1>17, <1>18, <1>19

---------------------------------------------------------------------------
(* Calls begin.                                                            *)

LEMMA UrlIs ==
  ASSUME uris \in Nat, NEW n \in Nat, NEW url, url = Url(n)
  PROVE  url \in Seq(Nat) /\ Len(url) = n
PROOF
<1>1. url \in [1..n -> Nat]
  BY DEF Url
<1>2. QED
  BY <1>1, TuplesAreSequences

LEMMA RefuseInv ==
  ASSUME UriInv, BeginUri, NEW url, Refuse(url)
  PROVE  UriInv'
PROOF
<1>1. uris' \in Nat /\ mem' = mem /\ tag' = tag
  BY InvParts DEF BeginUri
<1>2. job' = NoJob /\ wrote'.ret = 0
  BY DEF Refuse
<1>3. ShortUriReadsBack'
  BY <1>2 DEF ShortUriReadsBack, Written
<1>4. mem' \in Seq(Nat) /\ Len(mem) \in Nat
  BY <1>1, InvParts
<1>5. Len(mem') >= Len(mem)
  BY <1>1, <1>4
<1>6. QED
  BY <1>1, <1>2, <1>3, <1>4, <1>5, ReturnedInv

LEMMA ClassicBegins ==
  ASSUME UriInv, BeginUri, tag.kind = "classic",
         NEW n \in Nat, NEW url \in Seq(Nat), Len(url) = n,
         NEW len \in Nat, len = U8(n), 1 <= len, len <= 38, NEW hit \in {0, 1, 2, 4},
         job' = [fn |-> "classic", url |-> url, refused |-> FALSE,
                 block |-> 1, blocks |-> Blocks(url, len, hit)],
         wrote' = NoUri
  PROVE  UriInv'
PROOF
<1>1. uris' \in Nat /\ mem' = mem /\ tag' = tag /\ mem \in Seq(Nat) /\ Len(mem) \in Nat
  BY InvParts DEF BeginUri
<1>2. len <= n
  BY U8Range
<1>3. PICK blocks : blocks = Blocks(url, len, hit)
  OBVIOUS
<1>4. blocks \in [1..4 -> Block] /\ (len < 38 => blocks[4] = Trailer)
  BY <1>2, <1>3, BlocksIs
<1>5. job' = [fn |-> "classic", url |-> url, refused |-> FALSE, block |-> 1, blocks |-> blocks]
  BY <1>3
<1>6. /\ job' \in ClassicJobs /\ job'.url = url /\ job'.blocks = blocks
      /\ job'.block = 1
  BY <1>4, <1>5 DEF ClassicJobs
<1>7. \A q \in Nat: q < 38 => q \in 0..255
  OBVIOUS
<1>8. n < 38 => len = n
  BY <1>7, U8Same, Zenon
<1>9. Ntag2xxSoFar'
  BY <1>6, JobKinds DEF Ntag2xxSoFar, Ntag2xxJobs
<1>10. ClassicSoFar'
  <2>1. Image(url)' = Image(url)
    BY <1>1 DEF Image, Lead, Message
  <2>2. n <= 23 => InBlocks(blocks, url)
    <3>1. SUFFICES ASSUME n <= 23 PROVE InBlocks(blocks, url)
      OBVIOUS
    <3>2. n < 38
      BY <3>1
    <3>3. len = n
      BY <1>8, <3>2
    <3>4. blocks = Blocks(url, n, hit) /\ 1 <= n
      BY <1>3, <3>3
    <3>5. QED
      BY <3>1, <3>4, SectorHolds
  <2>3. n <= 23 => InBlocks(job.blocks, job.url)'
    BY <1>6, <2>1, <2>2 DEF InBlocks
  <2>4. n < 38 => job'.blocks[4] = Trailer'
    BY <1>4, <1>6, <1>8 DEF Trailer
  <2>5. Shows(16 * (job.block - 1), job.url)'
    <3>1. 16 * (job'.block - 1) = 0
      BY <1>6
    <3>2. \A i \in 1..0: FALSE
      OBVIOUS
    <3>3. QED
      BY <3>1, <3>2 DEF Shows
  <2>6. tag'.kind = "classic" /\ Len(job'.url) = n
    BY <1>1, <1>6
  <2>7. QED
    BY <2>3, <2>4, <2>5, <2>6 DEF ClassicSoFar
<1>11. Len(mem') >= Len(mem) /\ mem' \in Seq(Nat)
  BY <1>1
<1>12. QED
  BY <1>1, <1>6, <1>9, <1>10, <1>11, GoingOnInv

LEMMA Ntag2xxBegins ==
  ASSUME UriInv, BeginUri, tag.kind = "ntag2xx",
         NEW n \in Nat, NEW url \in Seq(Nat), Len(url) = n,
         NEW len \in Nat, len = U8(n), ~TooLong(len, tag.size),
         job' = [fn |-> "ntag2xx", url |-> url, refused |-> FALSE,
                 page |-> 4, len |-> len, rest |-> SubSeq(url, 1, len)],
         wrote' = NoUri
  PROVE  UriInv'
PROOF
<1>1. uris' \in Nat /\ mem' = mem /\ tag' = tag /\ mem \in Seq(Nat) /\ Len(mem) \in Nat
  BY InvParts DEF BeginUri
<1>2. len <= n /\ len <= 255
  BY U8Range
<1>3. len >= 1
  BY DEF TooLong
<1>4. PICK a \in Nat : a = 0
  OBVIOUS
<1>5. a + len <= Len(url) /\ a + 1 = 1 /\ a + len = len
  BY <1>2, <1>4
<1>6. PICK rest : rest = SubSeq(url, a + 1, a + len)
  OBVIOUS
<1>7. rest \in Seq(Nat) /\ Len(rest) = len /\ \A i \in 1..len: rest[i] = url[a + i]
  <2>1. a + len <= Len(url)
    BY <1>5
  <2>2. SubSeq(url, a + 1, a + len) \in Seq(Nat) /\ Len(SubSeq(url, a + 1, a + len)) = len
    BY <2>1, Pieces, SMTT(40)
  <2>3. \A i \in 1..len: SubSeq(url, a + 1, a + len)[i] = url[a + i]
    BY <2>1, Pieces
  <2>4. QED
    BY <1>6, <2>2, <2>3, Zenon
<1>8. rest = SubSeq(url, 1, len)
  BY <1>5, <1>6, Zenon
<1>9. \A q \in Nat: q >= 1 /\ q <= 255 => q \in 1..255
  OBVIOUS
<1>10. len \in 1..255
  BY <1>2, <1>3, <1>9
<1>11. PICK next : next = [fn |-> "ntag2xx", url |-> url, refused |-> FALSE,
                           page |-> 4, len |-> len, rest |-> rest]
  OBVIOUS
<1>12. job' = next
  BY <1>8, <1>11
<1>13. /\ next \in Ntag2xxJobs /\ next.url = url /\ next.page = 4 /\ next.len = len
       /\ next.rest = rest
  BY <1>7, <1>10, <1>11 DEF Ntag2xxJobs
<1>14. Sent(next) = 0
  BY <1>13 DEF Sent
<1>15. Follows(next)
  <2>1. Sent(next) + Len(next.rest) = next.len
    BY <1>7, <1>13, <1>14
  <2>2. \A i \in 1..len: rest[i] = url[0 + i]
    BY <1>4, <1>7
  <2>3. QED
    BY <1>7, <1>13, <1>14, <2>1, <2>2 DEF Follows
<1>16. PICK at : at = 4 * (next.page - 4) /\ at = 0
  BY <1>13
<1>17. Shows(at, url)'
  <2>1. \A i \in 1..0: FALSE
    OBVIOUS
  <2>2. QED
    BY <1>16, <2>1 DEF Shows
<1>18. next.page >= 4 /\ next.len = U8(Len(next.url)) /\ ~TooLong(next.len, tag.size)
  BY <1>13
<1>19. Ntag2xxSoFar' /\ ClassicSoFar'
  BY <1>1, <1>12, <1>13, <1>15, <1>16, <1>17, <1>18, Ntag2xxGood
<1>20. Len(mem') >= Len(mem) /\ mem' \in Seq(Nat)
  BY <1>1
<1>21. job' \in ClassicJobs \cup Ntag2xxJobs
  BY <1>12, <1>13
<1>22. QED
  BY <1>1, <1>19, <1>20, <1>21, GoingOnInv

LEMMA CallInv ==
  ASSUME UriInv, NEW n \in Lens,
         (\E sectorNumber \in 0..16: CallClassic(n, sectorNumber)) \/ CallNtag2xx(n)
  PROVE  UriInv'
PROOF
<1>1. n \in Nat /\ uris \in Nat
  BY UriAssumption, InvParts
<1>2. PICK url \in Seq(Nat) : url = Url(n)
  BY <1>1, UrlIs
<1>3. Len(url) = n
  BY <1>1, <1>2, UrlIs
<1>4. PICK len \in Nat : len = U8(n)
  BY <1>1, U8Range
<1>5. ASSUME NEW sectorNumber \in 0..16, CallClassic(n, sectorNumber) PROVE UriInv'
  <2>1. BeginUri /\ tag.kind = "classic"
    BY <1>5 DEF CallClassic
  <2>2. CASE sectorNumber \notin 1..15 \/ len \notin 1..38
    <3>1. Refuse(url)
      BY <1>2, <1>4, <1>5, <2>2 DEF CallClassic
    <3>2. QED
      BY <2>1, <3>1, RefuseInv
  <2>3. CASE ~(sectorNumber \notin 1..15 \/ len \notin 1..38)
    <3>1. PICK hit \in {0, 1, 2, 4} :
            /\ job' = [fn |-> "classic", url |-> url, refused |-> FALSE,
                       block |-> 1, blocks |-> Blocks(url, len, hit)]
            /\ wrote' = NoUri
      BY <1>2, <1>4, <1>5, <2>3 DEF CallClassic
    <3>2. 1 <= len /\ len <= 38
      BY <2>3
    <3>3. QED
      BY <1>1, <1>3, <1>4, <2>1, <3>1, <3>2, ClassicBegins
  <2>4. QED
    BY <2>2, <2>3
<1>6. CASE CallNtag2xx(n)
  <2>1. BeginUri /\ tag.kind = "ntag2xx"
    BY <1>6 DEF CallNtag2xx
  <2>2. CASE TooLong(len, tag.size)
    <3>1. Refuse(url)
      BY <1>2, <1>4, <1>6, <2>2 DEF CallNtag2xx
    <3>2. QED
      BY <2>1, <3>1, RefuseInv
  <2>3. CASE ~TooLong(len, tag.size)
    <3>1. /\ job' = [fn |-> "ntag2xx", url |-> url, refused |-> FALSE,
                     page |-> 4, len |-> len, rest |-> SubSeq(url, 1, len)]
          /\ wrote' = NoUri
      BY <1>2, <1>4, <1>6, <2>3 DEF CallNtag2xx
    <3>2. QED
      BY <1>1, <1>3, <1>4, <2>1, <2>3, <3>1, Ntag2xxBegins
  <2>4. QED
    BY <2>2, <2>3
<1>7. QED
  BY <1>5, <1>6

LEMMA UriInitInv == ASSUME UriInit PROVE UriInv
PROOF
<1>1. tag \in Tags /\ uris = 0 /\ job = NoJob /\ wrote = NoUri
  BY DEF UriInit
<1>2. mem = Foreign(Area)
  BY DEF UriInit, Area
<1>3. PICK z \in Nat : z = Area
  BY <1>1, AreaIs
<1>4. mem \in [1..z -> Nat]
  BY <1>2, <1>3 DEF Foreign
<1>5. mem \in Seq(Nat) /\ Len(mem) = z
  BY <1>4, TuplesAreSequences
<1>6. ClassicSoFar /\ Ntag2xxSoFar
  BY <1>1, JobKinds DEF ClassicSoFar, Ntag2xxSoFar
<1>7. ShortUriReadsBack
  BY <1>1, NotWritten DEF ShortUriReadsBack
<1>8. QED
  BY <1>1, <1>3, <1>5, <1>6, <1>7 DEF UriInv

LEMMA IdleInv == ASSUME UriInv, UNCHANGED uriVars PROVE UriInv'
PROOF
<1>1. /\ tag' = tag /\ mem' = mem /\ job' = job /\ wrote' = wrote /\ uris' = uris
  BY DEF uriVars
<1>2. ShortUriReadsBack' = ShortUriReadsBack
  BY <1>1 DEF ShortUriReadsBack, Written, ReadsBack, Message, FirstTlv
<1>3. ClassicSoFar' = ClassicSoFar
  BY <1>1 DEF ClassicSoFar, ClassicJobs, Block, Trailer, InBlocks, Shows, Image, Lead, Message
<1>4. Ntag2xxSoFar' = Ntag2xxSoFar
  BY <1>1 DEF Ntag2xxSoFar, Ntag2xxJobs, Sent, TooLong, Shows, Image, Lead, Message
<1>5. Area' = Area
  BY <1>1 DEF Area
<1>6. QED
  BY <1>1, <1>2, <1>3, <1>4, <1>5 DEF UriInv, ClassicJobs, Ntag2xxJobs, Block, NoJob, NoUri, Tags

LEMMA UriNextInv == ASSUME UriInv, UriNext PROVE UriInv'
PROOF
<1>1. \/ \E n \in Lens: (\E sectorNumber \in 0..16: CallClassic(n, sectorNumber)) \/ CallNtag2xx(n)
      \/ WriteClassic \/ WriteNtag2xx
  BY DEF UriNext, UriSteps
<1>2. QED
  BY <1>1, CallInv, WriteClassicInv, WriteNtag2xxInv

(* A program that uses the records keeps the invariant; one that does not  *)
(* leaves the memory of the record's tag alone.                            *)
LEMMA MemoryUriInv == MemorySpec => []UriInv
PROOF
<1>1. MemoryInit => UriInv
  BY UriInitInv DEF MemoryInit
<1>2. UriInv /\ [MemoryNext]_memoryVars => UriInv'
  <2> SUFFICES ASSUME UriInv, [MemoryNext]_memoryVars PROVE UriInv'
    OBVIOUS
  <2>1. UriNext \/ UNCHANGED uriVars
    BY DEF MemoryNext, UsesFiles, UsesRecords, memoryVars
  <2>2. QED
    BY <2>1, UriNextInv, IdleInv
<1>3. QED
  BY <1>1, <1>2, PTL DEF MemorySpec

(* A url that was reported written reads back: of up to 23 characters from *)
(* a sector, and of every length a NTAG2xx has room for, whatever calls    *)
(* were interrupted or refused before (mifareclassic_WriteNDEFURI and      *)
(* ntag2xx_WriteNDEFURI).                                                  *)
THEOREM UriShortReadsBack == MemorySpec => []ShortUriReadsBack
PROOF
<1>1. UriInv => ShortUriReadsBack
  BY DEF UriInv
<1>2. QED
  BY <1>1, MemoryUriInv, PTL

---------------------------------------------------------------------------
(* Nothing is written past the data area.                                  *)


(* While no call has just returned success, only a NTAG2xx's pages matter. *)
LEMMA AreaKept ==
  ASSUME UriInv, InArea, tag' = tag, mem' \in Seq(Nat), Len(mem') = Len(mem), ~Written',
         tag.kind = "ntag2xx" =>
           \A i \in (tag.size + 1)..Len(mem'): mem'[i] = old'[i]
  PROVE  InArea'
PROOF
<1>1. Area' = Area /\ Len(mem) = Area
  BY DEF Area, InArea
<1>2. tag \in Tags
  BY InvParts
<1>3. CASE tag.kind = "ntag2xx"
  BY <1>1, <1>3 DEF InArea, WithinArea
<1>4. CASE tag.kind = "classic"
  <2>1. Area = SectorSize
    BY <1>4 DEF Area
  <2>2. WithinArea'
    BY <1>1, <1>4, <2>1 DEF WithinArea, SectorSize
  <2>3. QED
    BY <1>1, <2>2 DEF InArea
<1>5. QED
  BY <1>2, <1>3, <1>4, SizeOf

LEMMA AreaBegins ==
  ASSUME UriInv, InArea, NEW n,
         (\E sectorNumber \in 0..16: CallClassic(n, sectorNumber)) \/ CallNtag2xx(n)
  PROVE  InArea'
PROOF
<1>1. BeginUri /\ ~Written'
  <2>1. ASSUME NEW sectorNumber \in 0..16, CallClassic(n, sectorNumber)
        PROVE  BeginUri /\ ~Written'
    BY <2>1 DEF CallClassic, Refuse, NoUri, Written
  <2>2. CASE CallNtag2xx(n)
    BY <2>2 DEF CallNtag2xx, Refuse, NoUri, Written
  <2>3. QED
    BY <2>1, <2>2
<1>2. tag' = tag /\ mem' = mem /\ old' = mem /\ mem \in Seq(Nat)
  BY <1>1, InvParts DEF BeginUri
<1>3. \A i \in (tag.size + 1)..Len(mem'): mem'[i] = old'[i]
  BY <1>2
<1>4. QED
  BY <1>1, <1>2, <1>3, AreaKept

(* The last bytes are those copied last.                                   *)
LEMMA LastCopied ==
  ASSUME NEW c \in Seq(Nat), NEW k \in Nat, NEW m \in Nat, Len(c) = k + m,
         NEW b \in Seq(Nat), NEW g \in Seq(Nat), Len(g) = m, CopyOf(c, b, k, g)
  PROVE  SubSeq(c, k + 1, k + m) = g
PROOF
<1>1. \A i \in 1..(k + m): c[i] = IF i > k /\ i <= k + m THEN g[i - k] ELSE b[i]
  BY DEF CopyOf
<1>2. ASSUME NEW i \in 1..m PROVE c[k + i] = g[i]
  <2>1. PICK p \in 1..(k + m) : p = k + i
    OBVIOUS
  <2>2. c[p] = IF p > k /\ p <= k + m THEN g[p - k] ELSE b[p]
    BY <1>1
  <2>3. p > k /\ p <= k + m /\ p - k = i
    BY <2>1
  <2>4. QED
    BY <2>1, <2>2, <2>3
<1>3. k + m <= Len(c)
  OBVIOUS
<1>4. QED
  BY <1>2, <1>3, PieceIs

(* The trailer of a sector is in place when its last block was written.    *)
LEMMA TrailerWritten ==
  ASSUME NEW c \in Seq(Nat), Len(c) = 64, NEW b \in Seq(Nat), CopyOf(c, b, 48, Trailer)
  PROVE  SubSeq(c, 49, 64) = Trailer
PROOF
<1>1. Trailer \in Seq(Nat) /\ Len(Trailer) = 16
  BY DEF Trailer
<1>2. PICK g \in Seq(Nat) : g = Trailer
  BY <1>1
<1>3. PICK k \in Nat, m \in Nat : k = 48 /\ m = 16
  OBVIOUS
<1>4. Len(g) = m /\ Len(c) = k + m
  BY <1>1, <1>2, <1>3
<1>5. CopyOf(c, b, k, g)
  BY <1>2, <1>3, Zenon
<1>6. SubSeq(c, k + 1, k + m) = g
  BY <1>4, <1>5, LastCopied
<1>7. k + 1 = 49 /\ k + m = 64
  BY <1>3
<1>8. QED
  BY <1>2, <1>6, <1>7, Zenon

LEMMA AreaClassic ==
  ASSUME UriInv, InArea, WriteClassic
  PROVE  InArea'
PROOF
<1>1. job \in ClassicJobs /\ wrote = NoUri
  BY InvParts DEF WriteClassic
<1>2. tag.kind = "classic" /\ ClassicSoFar
  BY <1>1 DEF UriInv, ClassicSoFar
<1>3. PICK at, bytes, next, c :
        /\ at = 16 * (job.block - 1) /\ bytes = job.blocks[job.block]
        /\ next = [job EXCEPT !.block = @ + 1] /\ c = Copy(mem, at, bytes)
  OBVIOUS
<1>4. PICK last \in BOOLEAN : last = (job.block = 4)
  OBVIOUS
<1>5. WriteBlock(at, bytes, last, next) /\ tag' = tag
  BY <1>3, <1>4 DEF WriteClassic
<1>6. BlockWritten(c, at, bytes) /\ Len(bytes) = 16 /\ at <= 48
  BY <1>1, <1>2, <1>3, ClassicWrites
<1>7. Len(mem) = 64 /\ mem \in Seq(Nat)
  BY <1>2, InvParts, AreaIs DEF InArea
<1>8. c \in Seq(Nat) /\ at \in Nat /\ CopyOf(c, mem, at, bytes)
  BY <1>6 DEF BlockWritten
<1>9. Len(c) = 64
  BY <1>6, <1>7, <1>8 DEF CopyOf
<1>10. c = Copy(mem, at, bytes)
  BY <1>3
<1>11. /\ mem' = c \/ mem' = mem
       /\ Written' => last /\ ~job.refused /\ mem' = c /\ wrote'.url = job.url
  <2>1. WriteBlock(at, bytes, last, next)
    BY <1>5
  <2>2. \/ ~last /\ job' = next /\ wrote' = wrote /\ mem' = c
        \/ ~last /\ job' = [next EXCEPT !.refused = TRUE] /\ wrote' = wrote /\ mem' = mem
        \/ /\ job' = NoJob /\ wrote'.url = job.url /\ mem' \in {mem, c}
           /\ Written' => last /\ ~job.refused /\ mem' = c
    BY <1>10, <2>1, WriteOutcome, Zenon
  <2>3. wrote' = wrote => ~Written'
    BY <1>1 DEF Written, NoUri
  <2>4. QED
    BY <2>2, <2>3
<1>12. mem' \in Seq(Nat) /\ Len(mem') = 64
  BY <1>7, <1>8, <1>9, <1>11
<1>13. ASSUME Written', Len(wrote'.url) < 38 PROVE SubSeq(mem', 49, 64) = Trailer
  <2>1. job.block = 4 /\ mem' = c /\ Len(job.url) < 38
    BY <1>4, <1>11, <1>13
  <2>2. bytes = Trailer /\ at = 48
    BY <1>1, <1>2, <1>3, <2>1 DEF ClassicSoFar
  <2>3. CopyOf(c, mem, 48, Trailer)
    BY <1>8, <2>2
  <2>4. SubSeq(c, 49, 64) = Trailer
    BY <1>7, <1>8, <1>9, <2>3, TrailerWritten
  <2>5. QED
    BY <2>1, <2>4
<1>14. Area' = 64 /\ tag'.kind = "classic"
  BY <1>2, <1>5 DEF Area, SectorSize
<1>15. WithinArea'
  <2>1. Written' /\ Len(wrote'.url) < 38 => SubSeq(mem', 49, 64) = Trailer'
    BY <1>13 DEF Trailer
  <2>2. tag'.kind # "ntag2xx" /\ SectorSize' = 64
    BY <1>14 DEF SectorSize
  <2>3. QED
    BY <1>12, <2>1, <2>2 DEF WithinArea
<1>16. QED
  BY <1>12, <1>14, <1>15 DEF InArea

LEMMA WholePageFits ==
  ASSUME NEW page \in Nat, NEW z \in Nat, z % 4 = 0, NEW at \in Nat, at = 4 * (page - 4),
         at + 4 <= z + 3
  PROVE  at + 4 <= z
PROOF OBVIOUS

LEMMA AreaNtag2xx ==
  ASSUME UriInv, InArea, WriteNtag2xx, WholePages
  PROVE  InArea'
PROOF
<1>1. job \in Ntag2xxJobs /\ wrote = NoUri
  BY InvParts DEF WriteNtag2xx
<1>2. PICK z \in Nat, len \in Nat, page \in Nat, m \in Nat :
        z = tag.size /\ len = job.len /\ page = job.page /\ m = Len(job.rest)
  BY <1>1, Ntag2xxNumbers, Zenon
<1>3. PICK at \in Int : at = 4 * (page - 4)
  OBVIOUS
<1>4. at = 4 * (job.page - 4)
  BY <1>2, <1>3
<1>5. tag.kind = "ntag2xx" /\ Placed(at, z, len, page, m)
  BY <1>1, <1>2, <1>3, Ntag2xxPlace, Zenon
<1>6. at \in Nat /\ at + 4 <= z + 3
  BY <1>5 DEF Placed
<1>7. z % 4 = 0
  BY <1>2, <1>5, InvParts, SizeOf DEF WholePages
<1>8. at + 4 <= z
  BY <1>3, <1>6, <1>7, WholePageFits
<1>9. PICK bytes, onward, c :
        bytes = Page4(job) /\ onward = NextPage4(job) /\ c = Copy(mem, at, bytes)
  OBVIOUS
<1>10. PICK last \in BOOLEAN : last = LastPage4(job)
  BY DEF LastPage4
<1>11. WriteBlock(at, bytes, last, onward) /\ tag' = tag /\ old' = old
  BY <1>4, <1>9, <1>10 DEF WriteNtag2xx
<1>12. BlockWritten(c, at, bytes) /\ Len(bytes) = 4 /\ Len(c) = Len(mem)
  BY <1>1, <1>4, <1>9, Ntag2xxWrites
<1>13. CopyOf(c, mem, at, bytes) /\ c \in Seq(Nat) /\ mem \in Seq(Nat)
  BY <1>12, InvParts DEF BlockWritten
<1>14. mem' = c \/ mem' = mem
  <2>1. c = Copy(mem, at, bytes)
    BY <1>9
  <2>2. WriteBlock(at, bytes, last, onward)
    BY <1>11
  <2>3. \/ ~last /\ job' = onward /\ wrote' = wrote /\ mem' = c
        \/ ~last /\ job' = [onward EXCEPT !.refused = TRUE] /\ wrote' = wrote /\ mem' = mem
        \/ /\ job' = NoJob /\ wrote'.url = job.url /\ mem' \in {mem, c}
           /\ Written' => last /\ ~job.refused /\ mem' = c
    BY <2>1, <2>2, WriteOutcome, Zenon
  <2>4. QED
    BY <2>3
<1>15. PICK y \in Nat : y = Len(mem)
  BY <1>13
<1>16. \A i \in (z + 1)..y: mem[i] = old[i]
  BY <1>2, <1>5, <1>15 DEF InArea, WithinArea
<1>17. ASSUME NEW i \in (z + 1)..y PROVE c[i] = mem[i]
  <2>1. i \in 1..y /\ ~(i <= at + 4)
    BY <1>8
  <2>2. \A p \in 1..y: c[p] = IF p > at /\ p <= at + 4 THEN bytes[p - at] ELSE mem[p]
    BY <1>12, <1>13, <1>15 DEF CopyOf
  <2>3. QED
    BY <2>1, <2>2
<1>18. mem' \in Seq(Nat) /\ Len(mem') = y
  BY <1>12, <1>13, <1>14, <1>15
<1>19. \A i \in (z + 1)..y: mem'[i] = old'[i]
  BY <1>11, <1>14, <1>16, <1>17
<1>20. WithinArea'
  <2>1. tag'.kind = "ntag2xx" /\ tag'.size = z
    BY <1>2, <1>5, <1>11
  <2>2. QED
    BY <1>18, <1>19, <2>1 DEF WithinArea
<1>21. Len(mem') = Area'
  <2>1. Area' = Area
    BY <1>11 DEF Area
  <2>2. QED
    BY <1>15, <1>18, <2>1 DEF InArea
<1>22. QED
  BY <1>20, <1>21 DEF InArea

LEMMA MemoryInArea == ASSUME WholePages PROVE MemorySpec => []InArea
PROOF
<1>1. MemoryInit => InArea
  <2> SUFFICES ASSUME MemoryInit PROVE InArea
    OBVIOUS
  <2>1. UriInit /\ tag \in Tags /\ wrote = NoUri /\ old = mem
    BY DEF MemoryInit, UriInit
  <2>2. PICK z \in Nat : z = Area
    BY <2>1, AreaIs
  <2>3. mem = Foreign(z)
    BY <2>1, <2>2 DEF UriInit, Area
  <2>4. mem \in [1..z -> Nat]
    BY <2>3 DEF Foreign
  <2>5. Len(mem) = z
    BY <2>4, TuplesAreSequences
  <2>6. ~Written
    BY <2>1, NotWritten
  <2>7. tag.kind = "classic" => Len(mem) = SectorSize
    BY <2>2, <2>5 DEF Area
  <2>8. tag.kind # "ntag2xx" => tag.kind = "classic"
    BY <2>1, SizeOf
  <2>9. WithinArea
    BY <2>1, <2>6, <2>7, <2>8 DEF WithinArea
  <2>10. QED
    BY <2>2, <2>5, <2>9 DEF InArea
<1>2. UriInv /\ InArea /\ [MemoryNext]_memoryVars => InArea'
  <2> SUFFICES ASSUME UriInv, InArea, [MemoryNext]_memoryVars PROVE InArea'
    OBVIOUS
  <2>1. UriNext \/ UNCHANGED uriVars
    BY DEF MemoryNext, UsesFiles, UsesRecords, memoryVars
  <2>2. CASE UriNext
    <3>1. \/ \E n \in Lens: \/ \E sectorNumber \in 0..16: CallClassic(n, sectorNumber)
                            \/ CallNtag2xx(n)
          \/ WriteClassic \/ WriteNtag2xx
      BY <2>2 DEF UriNext, UriSteps
    <3>2. QED
      BY <3>1, AreaBegins, AreaClassic, AreaNtag2xx
  <2>3. CASE UNCHANGED uriVars
    BY <2>3, ZenonT(40) DEF uriVars, InArea, Area, WithinArea, Written, Trailer, SectorSize
  <2>4. QED
    BY <2>1, <2>2, <2>3
<1>3. QED
  BY <1>1, <1>2, MemoryUriInv, PTL DEF MemorySpec

(* On a tag made of whole pages nothing is written past the data area the  *)
(* caller names (ntag2xx_WriteNDEFURI), and a sector reported written with *)
(* less than 38 characters ends in the trailer with the NDEF key           *)
(* (mifareclassic_WriteNDEFURI; the terminator of 38 characters is stored  *)
(* past its buffer, and may hit the trailer's).                            *)
THEOREM UriWithinArea == ASSUME WholePages PROVE MemorySpec => []WithinArea
PROOF
<1>1. InArea => WithinArea
  BY DEF InArea
<1>2. QED
  BY <1>1, MemoryInArea, PTL
===========================================================================
