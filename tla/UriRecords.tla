----------------------------- MODULE UriRecords -----------------------------
(***************************************************************************)
(* NDEF URI records written by the PN532 driver, block by block to a       *)
(* sector of a Mifare Classic card (mifareclassic_WriteNDEFURI) and page   *)
(* by page to a NTAG2xx (ntag2xx_WriteNDEFURI).  The tag is external, and  *)
(* so is the reader that looks for the record (ReadsBack).                 *)
(***************************************************************************)
EXTENDS Buffers

CONSTANTS
  Lens,          (* the lengths of the urls the application writes         *)
  DataLens,      (* the data areas of NTAG2xx tags, in bytes               *)
  MaxUris,       (* bound: calls of a program                              *)
  MaxUriFaults   (* bound: writes that are lost or refused                 *)

ASSUME UriAssumption == Lens \subseteq Nat /\ DataLens \subseteq 0..255

VARIABLES
  tag,      (* the kind of tag, and its data area                          *)
  mem,      (* its bytes: a sector, or the pages from page 4               *)
  old,      (* history: those bytes when the last call began               *)
  job,      (* the call in progress                                        *)
  wrote,    (* history: the last call, its result and what happened to it  *)
  uris, uriFaults   (* history: calls begun, writes lost or refused        *)

uriVars == <<tag, mem, old, job, wrote, uris, uriFaults>>

NoJob   == [fn |-> "none"]
NoUri   == [url |-> <<>>, ret |-> 0, refused |-> FALSE]

(* A url of n characters, none of them like those of another call.         *)
Url(n) == [i \in 1..n |-> 1000 * (uris + 1) + i]

uriIdentifier == 1
SectorSize    == 64
SectorData    == 48

(* A tag that held something else.                                         *)
Foreign(n) == [i \in 1..n |-> 512 + i]

Tags == {[kind |-> "classic", size |-> SectorData]}
          \cup {[kind |-> "ntag2xx", size |-> n] : n \in DataLens}

UriInit ==
  /\ tag \in Tags
  /\ mem = Foreign(IF tag.kind = "classic" THEN SectorSize ELSE tag.size + 8)
  /\ old = mem
  /\ job = NoJob
  /\ wrote = NoUri
  /\ uris = 0 /\ uriFaults = 0

---------------------------------------------------------------------------
(* What is written.  len is strlen(url) in an uint8_t.                     *)
Record(len) == <<3, U8(len + 5), 209, 1, U8(len + 1), 85, uriIdentifier>>

(* The three data blocks of a sector: 7, 16 and the remaining characters,  *)
(* and 0xFE behind the last.                                               *)
Block1(url, len) ==
  <<0, 0>> \o Record(len) \o SubSeq(url, 1, Smaller(len, 7))
           \o (IF len <= 6 THEN <<254>> ELSE <<>>)
Block2(url, len) ==
  IF len <= 6 THEN <<>>
  ELSE IF len <= 22 THEN SubSeq(url, 8, len) \o <<254>>
  ELSE SubSeq(url, 8, 23)
(* Mutant: the terminator of 23 characters is forgotten.                   *)
Block3Unended(url, len) ==
  IF len <= 23 THEN <<>> ELSE SubSeq(url, 24, len - 1) \o <<0, 0>>
Block3(url, len) ==
  IF len <= 22 THEN <<>>
  ELSE IF len = 23 THEN <<254>>
  ELSE SubSeq(url, 24, len - 1) \o <<0, 0>>
Trailer == <<211, 247, 211, 247, 211, 247, 127, 7, 136, 64, 255, 255, 255, 255, 255, 255>>

Padded(s, n) == Copy(Zeros(n), 0, s)
(* sectorbuffer3[len - 22] = 0xFE, past its end when len is 38: it hits    *)
(* the first byte of another buffer, or nothing the function uses.         *)
Ended(blocks, len, hit) ==
  IF len <= 23 THEN blocks
  ELSE IF len - 22 < 16 THEN [blocks EXCEPT ![3][len - 22 + 1] = 254]
  ELSE IF hit = 0 THEN blocks ELSE [blocks EXCEPT ![hit][1] = 254]
Blocks(url, len, hit) ==
  Ended(<<Padded(Block1(url, len), 16), Padded(Block2(url, len), 16),
          SubSeq(Padded(Block3(url, len), 18), 1, 16), Trailer>>, len, hit)

LockControl == <<1, 3, 160, 16, 68>>
(* The page at hand of ntag2xx_WriteNDEFURI: one of the three of the       *)
(* header, or four characters of what is left, or the last of them and     *)
(* 0xFE.                                                                   *)
Page4(j) ==
  IF j.page < 7 THEN SubSeq(LockControl \o Record(j.len), 4 * (j.page - 4) + 1, 4 * (j.page - 3))
  ELSE IF Len(j.rest) < 4 THEN Padded(j.rest \o <<254>>, 4)
  ELSE SubSeq(j.rest, 1, 4)
LastPage4(j) == j.page >= 7 /\ Len(j.rest) < 4
NextPage4(j) ==
  [j EXCEPT !.page = @ + 1,
            !.rest = IF j.page < 7 THEN @ ELSE SubSeq(@, 5, Len(@))]

---------------------------------------------------------------------------
BeginUri ==
  /\ job = NoJob
  /\ uris < MaxUris
  /\ uris' = uris + 1
  /\ old' = mem
  /\ UNCHANGED <<tag, mem, uriFaults>>

Refuse(url) == wrote' = [url |-> url, ret |-> 0, refused |-> FALSE] /\ job' = NoJob

CallClassic(n, sectorNumber) ==
  LET url == Url(n)
      len == U8(n)
  IN /\ tag.kind = "classic"
     /\ BeginUri
     /\ IF sectorNumber \notin 1..15 \/ len \notin 1..38 THEN Refuse(url)
        ELSE \E hit \in {0, 1, 2, 4}:
               /\ len < 38 => hit = 0
               /\ job' = [fn |-> "classic", url |-> url, refused |-> FALSE,
                          block |-> 1, blocks |-> Blocks(url, len, hit)]
               /\ wrote' = NoUri

(* Mutant: the terminator is not counted.                                  *)
TooLongBarely(len, dataLen) == len < 1 \/ len > dataLen - 12
TooLong(len, dataLen) == len < 1 \/ len + 1 > dataLen - 12

CallNtag2xx(n) ==
  LET url == Url(n)
      len == U8(n)
  IN /\ tag.kind = "ntag2xx"
     /\ BeginUri
     /\ IF TooLong(len, tag.size) THEN Refuse(url)
        ELSE /\ job' = [fn |-> "ntag2xx", url |-> url, refused |-> FALSE,
                        page |-> 4, len |-> len, rest |-> SubSeq(url, 1, len)]
             /\ wrote' = NoUri

Returns(ret, refused) ==
  /\ job' = NoJob
  /\ wrote' = [url |-> job.url, ret |-> ret, refused |-> refused]

(* One write of a block or a page.  Without an answer in time the function *)
(* gives up; the tag may have written.  A write the tag refuses is not     *)
(* told from one it does.                                                  *)
WriteBlock(at, bytes, last, next) ==
  \/ /\ mem' = Copy(mem, at, bytes)
     /\ IF last THEN Returns(1, job.refused) ELSE job' = next /\ UNCHANGED wrote
     /\ UNCHANGED uriFaults
  \/ /\ uriFaults < MaxUriFaults /\ uriFaults' = uriFaults + 1
     /\ mem' \in {mem, Copy(mem, at, bytes)}
     /\ Returns(0, job.refused)
  \/ /\ uriFaults < MaxUriFaults /\ uriFaults' = uriFaults + 1
     /\ UNCHANGED mem
     /\ IF last THEN Returns(1, TRUE)
        ELSE job' = [next EXCEPT !.refused = TRUE] /\ UNCHANGED wrote

WriteClassic ==
  /\ job.fn = "classic"
  /\ WriteBlock(16 * (job.block - 1), job.blocks[job.block], job.block = 4,
                [job EXCEPT !.block = @ + 1])
  /\ UNCHANGED <<tag, old, uris>>

WriteNtag2xx ==
  /\ job.fn = "ntag2xx"
  /\ WriteBlock(4 * (job.page - 4), Page4(job), LastPage4(job), NextPage4(job))
  /\ UNCHANGED <<tag, old, uris>>

UriSteps == WriteClassic \/ WriteNtag2xx
UriNext ==
  \/ \E n \in Lens, sectorNumber \in 0..16: CallClassic(n, sectorNumber)
  \/ \E n \in Lens: CallNtag2xx(n)
  \/ UriSteps

UriSpec == UriInit /\ [][UriNext]_uriVars

---------------------------------------------------------------------------
(* A reader finds the record of the url: it passes NULL and lock control   *)
(* TLVs, and the message ends with the terminator TLV.                     *)
Message(url) ==
  <<3, Len(url) + 5, 209, 1, Len(url) + 1, 85, uriIdentifier>> \o url \o <<254>>
FirstTlv == IF mem[1] = 1 THEN 3 + mem[2]
            ELSE CHOOSE p \in 1..tag.size: mem[p] # 0 /\ \A q \in 1..(p - 1): mem[q] = 0
ReadsBack(url) ==
  LET p == FirstTlv
      end == p + 7 + Len(url)
  IN end <= tag.size /\ SubSeq(mem, p, end) = Message(url)

Written == wrote.ret = 1 /\ ~wrote.refused

(* A url that was reported written reads back, whatever an interrupted     *)
(* write left on the tag before.                                           *)
UriReadsBack == Written => ReadsBack(wrote.url)

(* The same for urls of up to 23 characters in a sector, and for the ones  *)
(* whose length an uint8_t holds on a NTAG2xx: whatever remainder the last *)
(* block or page has, and however the data area is used up.                *)
ShortUriReadsBack ==
  Written /\ Len(wrote.url) <= (IF tag.kind = "classic" THEN 23 ELSE 255)
    => ReadsBack(wrote.url)

(* Nothing is written past the data area of a NTAG2xx, where its lock and  *)
(* configuration pages are, and a sector's trailer gets the NDEF key.      *)
WithinArea ==
  IF tag.kind = "ntag2xx" THEN \A i \in (tag.size + 1)..Len(mem): mem[i] = old[i]
  ELSE Len(mem) = SectorSize /\ (Written /\ Len(wrote.url) < 38 =>
                                   SubSeq(mem, 49, 64) = Trailer)

---------------------------------------------------------------------------
(* The inductive invariant: what an uninterrupted call has put on the tag  *)
(* is the beginning of what a reader looks for.                            *)
Lead       == IF tag.kind = "classic" THEN <<0, 0>> ELSE LockControl
Image(url) == Lead \o Message(url)
Shows(k, url) == \A i \in 1..k: i <= Len(Image(url)) => mem[i] = Image(url)[i]

Area == IF tag.kind = "classic" THEN SectorSize ELSE tag.size + 8
Block == {b \in Seq(Nat): Len(b) = 16}
ClassicJobs == [fn: {"classic"}, url: Seq(Nat), refused: BOOLEAN,
                block: 1..4, blocks: [1..4 -> Block]]
Ntag2xxJobs == [fn: {"ntag2xx"}, url: Seq(Nat), refused: BOOLEAN,
                page: Nat, len: 1..255, rest: Seq(Nat)]

InBlocks(blocks, url) ==
  \A b \in 1..3: \A i \in 1..16:
    16 * (b - 1) + i <= Len(Image(url)) => blocks[b][i] = Image(url)[16 * (b - 1) + i]
ClassicSoFar ==
  job \in ClassicJobs =>
    /\ tag.kind = "classic"
    /\ Len(job.url) < 38 => job.blocks[4] = Trailer
    /\ Len(job.url) <= 23 =>
         /\ InBlocks(job.blocks, job.url)
         /\ ~job.refused => Shows(16 * (job.block - 1), job.url)

(* The characters written when the page at hand is written.                *)
Sent(j) == IF j.page < 7 THEN 0 ELSE 4 * (j.page - 7)
Ntag2xxSoFar ==
  job \in Ntag2xxJobs =>
    /\ tag.kind = "ntag2xx" /\ job.page >= 4
    /\ job.len = U8(Len(job.url)) /\ ~TooLong(job.len, tag.size)
    /\ Sent(job) + Len(job.rest) = job.len
    /\ \A i \in 1..Len(job.rest): job.rest[i] = job.url[Sent(job) + i]
    /\ ~job.refused /\ Len(job.url) <= 255 => Shows(4 * (job.page - 4), job.url)

UriInv ==
  /\ tag \in Tags /\ uris \in Nat
  /\ mem \in Seq(Nat) /\ Len(mem) >= Area
  /\ job = NoJob \/ (job \in ClassicJobs \cup Ntag2xxJobs /\ wrote = NoUri)
  /\ ClassicSoFar /\ Ntag2xxSoFar
  /\ ShortUriReadsBack

(* A NTAG2xx's memory is made of pages of 4 bytes.                         *)
WholePages == \A n \in DataLens: n % 4 = 0
InArea     == Len(mem) = Area /\ WithinArea
===========================================================================
