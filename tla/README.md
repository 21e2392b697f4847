# Verification of the NTAG424 reader library

This directory holds TLA+ models of the library in `src/`: an Arduino driver
for NTAG424 DNA tags behind a PN532 or an MFRC522 reader. TLC checks the
models on small instances, TLAPS proves the main results for every value of
the constants. `PROJECT.json` lists the runs, the source lines behind every
definition, the hazards and the theorems.

    tlc -config MCNtag424Session.cfg MCNtag424Session
    tlc -config MCMfrc522.cfg MCMfrc522
    tlapm Ntag424SessionProofs.tla

## 1. The system

An application calls a *handler* (`MFRC522_NTAG424` or `Adafruit_PN532`), which
forwards to `ntag424_core.cpp` with the handler's one `ntag424_SessionType`.
The core builds APDUs with `ntag424_apdu.cpp` and exchanges them through
`NTAG424_Reader::transceive`, which an adapter implements over one of two
readers. Everything is synchronous and single-threaded: the concurrency is
between the library and the tag, which leaves the field, loses frames and
answers late.

| Component | State | Operations | What is hard |
|---|---|---|---|
| Session (`ntag424_core.cpp`, `ntag424_crypto.h`) | `authenticated`, `cmd_counter`, TI and session keys | Authenticate, ISOAuthenticate, ChangeKey, ChangeFileSettings, GetFileSettings, GetCardUID, GetTTStatus, GetKeyVersion, Read/WriteData, ISO SELECT, isNTAG424 | a counter kept equal on both sides of a lossy link; calls that bypass the session; a flag nothing clears |
| APDU codec (`ntag424_apdu.cpp`) | none | build, process | guards, MAC check that short responses skip, 8-bit lengths |
| Chunk loops (`ntag424_core.cpp`) | file contents | FormatNDEF, ISOUpdateBinary, ReadNDEFMessage, ISOReadFile | 8-bit offsets, lengths taken from the response, half-written files |
| Crypto (`ntag424_crypto.cpp`, `aescmac.cpp`) | none | CMAC, AES-CBC, CRC32, padding | length limits |
| Handler (`ntag424_handler.cpp`) | the session, the reader | forwards | one session for every tag |
| ISO-DEP (`MFRC522_I2C_Extended.cpp`) | block number, ISO-DEP state, ATS | TCL_Transceive, R-blocks, Deselect | R(NAK) recovery, block numbers out of step, waiting time extension, chaining |
| Activation (`MFRC522_NTAG424.cpp`, adapter) | selected flag, target, UID | readPassiveTargetID, select, RATS, PPS, halt | a failed step leaves host and tag in different states |
| MFRC522 driver (`MFRC522_I2C.cpp`) | chip registers | CommunicateWithPICC, CalculateCRC, REQA, Select, HaltA | polling loops, timeouts |
| PN532 link (`Adafruit_PN532_NTAG424.cpp`) | shared packet buffer, target number, UID | command/ACK/response over SPI, I2C, UART | unread response frames, stale buffers, 16-bit timers |

What makes each correct, in a sentence: the session never lets the tag execute
a change twice and never reports one that was not executed; the codec and the
chunk loops do what their reference definitions say for every length; ISO-DEP
delivers each command at most once and gives each command its own answer; the
activation knows the state of the tag it talks to; the polling loops tell a
timeout from an answer; the PN532 link pairs each response with its command.
`PROJECT.json` lists the places where this can go wrong under "hazards".

## 2. The modules and how they fit

| Layer | Modules | Composes | Abstract specification |
|---|---|---|---|
| Session | `Ntag424Session`, `Ntag424Card` | session and tag over a lossy `transceive` | `SecureCommands` |
| Blocks | `IsoDep`, `IsoDepPicc` | reader and tag over lossy frames | `TransceiveContract`, the `transceive` of the layer above |
| Activation | `Mfrc522`, `Picc14443` | driver and several tags over a lossy, colliding field | |
| Host link | `Pn532Link`, `Pn532Commands` | driver and PN532 chip | |
| Memory | `TagMemory`: `Ntag424Files` and `UriRecords`, over `Buffers` | chunk loops and tag memory | |

The layers meet where the code has an interface. `Exchange` in `Ntag424Card` is
`TransceiveContract` with one APDU; `IsoDep` begins where `Mfrc522` has
activated a tag and shows when the contract holds. One product of all layers would
only multiply states: no layer reads another's variables.

`Ntag424SessionProofs`, `IsoDepProofs`, `Pn532LinkProofs`, `Ntag424FilesProofs`,
`UriRecordsProofs` and `Mfrc522Proofs` hold the theorems, `BuffersProofs` lemmas about
copying pieces of buffers (section 5); the `MC` modules instantiate
the others for TLC. A definition marked "Mutant" is a plausible bug that breaks the property named
in `PROJECT.json`; no specification uses it.

## 3. The models

### Ntag424Card (external)

The tag, as the code relies on it; it is not part of the repository. It keeps a
session number, a counter, the key number of the session, its keys and, as
history, the log of executed changes. A reply is a pair of the tag after it and
a response; where the code makes no assumption (a refused command may or may not
end the session) there are several. Responses are abstracted to a status class
and a MAC, and a MAC to what it binds: session and counter. `Exchange` is
`NTAG424_Reader::transceive`: the reply arrives, the request is lost, or the
response is; in the last two cases the caller sees length 0.

### Ntag424Session

| Variable | Code |
|---|---|
| `session` | `ntag424_SessionType`: `authenticated`, `cmd_counter`; `sid` stands for TI and the session keys |
| `card` | the tag in the field |
| `call` | the locals of a call between two of its exchanges |
| `last`, `acked` | history: what was returned, which changes the application saw confirmed |
| `lapses` | history: why the counters may differ since authentication |

An exchange is one action, so a call with one exchange is one action, and
Authenticate (SELECT, part 1 repeated on 91 AD, part 2), ISOSelectNDEFFile and
isNTAG424 are several, between which the tag may be swapped (`NewTag`).
`SendApdu` is `ntag424_send_apdu`: `CanBuild`/`BuildApdu`, `Exchange`,
`ProcessResponse`. ReadData, GetVersion and the authentication's own exchanges
go to the reader without the session, as in the code. The int16 counter is a
natural number: the bound stops it far below 2^15.

The application repeats a change only while it has not seen it confirmed
(`Unconfirmed`); a confirmed ChangeFileSettings is one whose returned length
holds a MAC, because the function returns a length for error statuses too.

### SecureCommands

The promise: in one session each change is executed at most once, at growing
counters, and a confirmation belongs to the very exchange that executed it.
`Ntag424Session` implements it under the mapping at its end (`KeepsPromise`).

### IsoDepPicc (external)

The tag's half of ISO/IEC 14443-4: block number, last block, the command it
answers and, as history, the commands it carried out. It toggles its number on
every I-block, repeats its last block for an R-block with its own number,
answers an R(NAK) with the other number by R(ACK), and may ask for time before
an answer. An APDU is its number and fits one block, because the code refuses
longer ones (`STATUS_NO_ROOM`); an answer is one or more parts, one to a block.

### IsoDep

| Variable | Code |
|---|---|
| `blockNumber` | `tag.blockNumber` |
| `call` | the locals of both `TCL_Transceive`: the block given and the block now sent, `attempt`, `retries`, which block of a chained answer is awaited (`stage`), `*backLen` (`room`), the data so far |
| `picc` | the tag |
| `last` | history: what the last call returned |

A step is one `PCD_TransceiveData`: `SendBlock` for the loop's frame,
`SendRNak` for one round of the recovery. `Accept` is what follows a block that
came back - another round for S(WTX), else `Received`, which toggles the block
number and goes on with a chained answer as the loop body does. The frame or the
answer to it may be lost; the code sees a status other than `STATUS_OK` or,
when the poll loop of `PCD_CommunicateWithPICC` runs out before the chip's timer
does (`PollRunsOut`), `STATUS_OK` with nothing in the FIFO. A corrupted frame is
a lost one. `Activate` is a successful `readPassiveTargetID`; a failed one leaves
a tag that is not SELECTED, whose calls are `Refuse`.

### TransceiveContract

What the code above relies on: APDUs are carried out in order, each at most
once, and a call returns nothing or the whole answer to its own APDU. This is
the `Exchange` of `Ntag424Card`. `IsoDep` implements it only under two
conditions, which the runs name: the application activates the tag again after
a call that returned nothing (`Disciplined`), and answers fit a block. The
library itself does not ask for the first: `ntag424_send_apdu` returns 0 and the
next call goes out on the same activation.

### Mfrc522

One action is one exchange over the air - `PCD_CommunicateWithPICC` with the
register traffic before it - and what the driver does until the next one.

| Variable | Code |
|---|---|
| `pc`, `call` | which exchange of which call is next |
| `sel` | the locals of `PICC_Select`: cascade level, known bits, `buffer[2..5]` |
| `base` | `_tag_selected` and `uid` of `MFRC522_I2C` |
| `tag` | of `tag`: UID, whether `ats.size > 0`, `isoDepState` |
| `crc` | the CRC bits of `TxModeReg` and `RxModeReg` |
| `antenna`, `picc` | the field and the tags |
| `result` | what the last call returned |
| `sure`, `target` | history: no tag was left behind in its block protocol; the tag an undisturbed call has to find |

`readPassiveTargetID`, `PICC_IsNewCardPresent`, `PICC_ReadCardSerial`, `PICC_HaltA`,
`TCL_Deselect`, `begin` and the adapter's `transceive` may be called in any order,
except that `PICC_ReadCardSerial` follows a `PICC_IsNewCardPresent` that found a
tag, as in every example. `Receptions` are the ways an exchange can end: as
expected, by the timer, by the poll loop running out (which the code takes for a
timeout or, when nothing came, for an empty answer), by a collision, real or from
noise; the tags may have heard the frame or not. `ReadIn` and `Mark` are the bit
arithmetic of `PICC_Select` as it is. Tags come and go, but none enters between
REQA and the end of an activation: it would not be woken before the next REQA.

What the code does there that one may not expect, all part of the model:

- A tag whose RATS answer or DESELECT was lost stays in its block protocol and
  hears no REQA. It is found again only after it left the field or the reader was
  reset. The same happens when the application calls `PICC_IsNewCardPresent` or
  `PICC_HaltA` with a tag activated. Two tags may then answer one APDU. `Reachable` and
  `sure` exclude these states from `Refound` and `AnsweredByTold`.
- `isoDepState` is SELECTED before RATS, and after a failed RATS the tag counts as
  present. `DESELECTED` is never seen: `clearTag` overwrites it.
- `Mark` marks the wrong byte for a collision at the first or last bit of a byte: at
  the last, the tag with a 0 is asked in place of the one with a 1. `ReadIn`
  zeroes the known bits of a byte, so that a collision inside a byte is not
  resolved and the call fails.
- When the poll loop runs out the exchange counts as a success without data, which
  `TCL_Deselect` reports as success.
- `begin` falls back to a configuration without reset, which keeps the CRC bits
  and the tags' states.

### Picc14443 (external)

Tags of ISO/IEC 14443-3 as the driver relies on them: idle, halted, ready at a
cascade level, active, in the block protocol, out of the field or without power.
A frame with the wrong CRC is one the tag ignores or, once woken, is sent back by.

### Pn532Link and Pn532Commands

`Pn532Commands` is a table: for each of the 20 functions of `Adafruit_PN532` that
talk to the chip, the bytes it sends, how many it reads, which bytes it
compares, and the payloads by which the chip reports success and failure. `Pn532Link`
runs them: `Write`, `ReadAck`, `ReadResponse`, `LeaveUnread`, `TimeOut` on the host's
side, `SendAck`, `Respond`, `SaysNothing` on the chip's. Every byte in transit and in the
shared buffer carries whether it answers the command in progress, so that a
property can ask what a function has judged.

On I2C and SPI a read returns one frame and a new command makes the chip drop what it
had to say; on the UART the receive buffer is a stream that only `begin` empties.
The first nine bytes of `pn532_packetbuffer` are kept, all that a function compares.

`InTime` says what the chip does in time, if it does it at all. On I2C and SPI it
acknowledges; it may answer after the wait is over. On the UART, answers are in
time: there a late answer disturbs the next call as an unread one does.

`startPassiveTargetIDDetection` returns what `sendCommandCheckAck` does, which also
waits for the response: without a card it returns 0 after a second although the
chip goes on detecting, and its answer is collected later. `AsTarget` and `setDataTarget` compare byte 6 with 0x15, which no
response has, and fail always.

### Ntag424Files, UriRecords, TagMemory, Buffers

`Ntag424Files` has the functions of `ntag424_core.cpp` that go through the NDEF file
in pieces, an exchange a step: `op` holds their locals at the width they have,
`file` is the tag's file, `buffer` what has been stored for the caller. A lost
exchange may have been carried out. `UriRecords` has `mifareclassic_WriteNDEFURI`
(three blocks and the trailer) and `ntag2xx_WriteNDEFURI` (pages), with a reader
of TLVs to say what is on the tag. `TagMemory` is a program that uses one of the two.

What the model shows of the code's arithmetic:

- `FormatNDEF` writes 38 times: its offset wraps at 256 until a multiple of 47
  falls into 248..255. The later rounds write zeros again and nothing else.
- `ReadNDEFMessage` with 256 bytes left asks for 0, the rest of the file, which does not
  fit; a message longer than the file makes it fail, not overrun.
- `ISOReadFile` takes the size from one byte. When what it has to read is a multiple of 32
  its last page asks with Le = 0 and it returns 0; a size byte below 5 makes the size
  negative, and the early exit returns `maxsize`. `ReadsFile` and `Completes`
  exclude these by name.
- A url of 257 or more characters wraps the `uint8_t` length: the beginning is
  written and reported as success (`ShortUriReadsBack` stops at 255).

## 4. Runs

| Run | What it shows |
|---|---|
| `session_safety` | type, counter, at-most-once, confirmation and MAC properties, the inductive invariant, the refinement, and that calls of several exchanges return |
| `session_counted` | violation: ReadData is not counted, against the comment in `ntag424_process_response` |
| `isodep_safety` | no APDU is carried out twice; calls begun in step return their own answer or nothing and stay in step; every call returns |
| `isodep_contract` | with re-activation after a failure, the block protocol implements `TransceiveContract` |
| `isodep_stale` | violation: a call returns the answer to an earlier APDU |
| `isodep_chained` | violation: a chained answer is returned with a block twice |
| `mfrc522` | a UID that is told is one tag's, a tag alone is found again, APDUs are answered by the tag told, calls return |
| `pn532_link` | functions judge the response to their own command, report what it says, leave nothing behind, and return |
| `pn532_unread` | violation, UART: an unread response is taken for the next acknowledgement |
| `pn532_outcome` | violation: a refused write is reported as done |
| `tag_memory` | what chunked reads and writes report is what the memory holds, whatever is lost, at the code's integer widths; they return |
| `tag_uri` | violation: a url of 24 to 38 characters is stored without its last character |

The block protocol's violations. In `isodep_stale` an APDU is lost, the R(NAK) is answered with
R(ACK), and the call takes that for success without data and toggles the number.
The standard has the reader send the I-block again there. The next call is out
of step; when its successor's APDU is lost too, the R(NAK) carries the number of
the tag's last block, and the old answer comes back for the new APDU. In the
session a MAC or the counter exposes this; Plain commands have nothing that does.
In `isodep_chained` nothing is lost: the loop sends R(ACK)s in pairs, so after an
answer of two blocks one is left over and puts the numbers out of step.

Bounds of the session. Two keys, key numbers 0 and 1 (the master key, whose change ends the
session, and another), one file-settings write and two key changes: every
branch of the tag's ChangeKey is taken. Two completed authentications give an
old session on one side and a new one on the other. `MaxCommands = 2` is
the counter at which no further call starts: a change, its lost answer and
the repetition fit, and a call of several exchanges may still run past it.
`AuthDelayMaxRetries` is 50 in the code; 3 reaches the first attempt, later ones
and the exhausted loop.
Deadlock checking is off: with the sessions used up and the bound reached the
application has no call left to make.

Bounds of the block protocol. `kMaxRetries` is the code's 2. `MaxAttempts`, 6 in
the code, is 3 in the larger runs: a first, a middle and a last round. Four (or
five) calls and as many lost frames let a call that fails be followed by
several that inherit its block numbers; the shortest wrong answer needs three
calls and two losses. Two blocks to an answer reach both R(ACK)s of a round,
three the next round. Deadlock checking is off: with `MaxCalls` calls made and
the tag activated nothing is left to do.

Bounds of the activation. Three tags: `a` and `b` have UIDs of 7 bytes, speak
ISO/IEC 14443-4 and differ first at the last bit of a byte of level 2; `c` has 4
bytes, does not speak it, and differs from the cascade tag inside the first byte. In
the field at once may be `a` with `b`, or `a` with `c`: a collision that is resolved,
one that is not, a UID of one level and of two. UIDs of three levels differ from
two by one more round of the same loop. Noise looks like a collision at bit 8 or
16. A frame is heard by all tags or none.

Bounds of the host link. On I2C and SPI one function of each way of asking and judging,
on the UART functions that read the whole of their response (the others are `pn532_unread`).
64 bytes of receive buffer hold more than a call can leave.

Bounds of the memory. A file of 256 bytes, messages that fit, that fill the file and
that do not; 3, 26 and 255 bytes to write: one chunk, a remainder of one, the widest
length; buffers of 0, 64, 100 and 300. Urls of each remainder at the block and page
borders and at both ends of what the functions accept. Two calls and two
lost exchanges: a call that meets what an interrupted one left. Deadlock checking is off
there: with `MaxCalls` calls made nothing is left to do.

Fairness. `FairSpec` of the session asks that a call under way takes its next
step: the code never waits for the application between two exchanges, and
`transceive` returns with a length or 0. Nothing is assumed of the tag or of new calls.
`FairSpec` of `IsoDep` asks the same of a call of `TCL_Transceive`, a plain loop
whose exchanges return because the driver's poll loop is bounded. The tag
may ask for time for ever; that calls return is the doing of `MaxAttempts`,
`kMaxRetries` and the room for a chained answer.
`Spec` of `Mfrc522` and `MemorySpec` ask it of theirs in the same way. `FairSpec` of
`Pn532Link` asks it of the host, and of the chip that it answers or gives the command
up; a function with timeout 0 waits for ever and is not claimed to return.

## 5. Proofs

`Ntag424SessionProofs` assumes only the named assumptions on the constants
(`KeyNosAssumption`, `KeyChangesAssumption`, `RequestsAssumption`,
`BoundsAssumption`) and proves, for any keys, changes and bounds:

- `TypeCorrect`: type correctness;
- `Inductive`: the invariant `IInv`;
- `ExecutedOnce`, `NeverAhead`, `ConfirmedMeansExecuted`, which follow from it;
- `CheckedMeansInSync`, `LapsesExplain` and `ChangedMeansChanged` (the invariant
  `SyncInv`): checked MACs mean equal counters, counters differ only after a lapse,
  and a key reported as changed is the tag's;
- `PromiseKept`: `Spec` implements `SecureCommands`.

`AtMostOnce` is not inductive: that the tag refuses the repetition of a change
depends on the counters. `IInv` adds that sessions are fresh (`SidsUsed`), that
the tag's log lies behind its counter (`LogBehind`), that the host is never
ahead (`CounterNeverAhead`), and, the heart of it, that while an executed change
is unconfirmed the host is strictly behind (`UnconfirmedBehind`): then its
next secured command carries an old counter and nothing is executed. The proof
has one lemma per kind of step, `BypassStep` (exchanges the session is not told
about), `ExchangeStep` (a command of the session) and `AuthenticatedStep`, and
one case per action in `NextInv`. `NextKept` goes through the actions once more for
`SyncInv` and the refinement: a step executes a change at the tag's counter
(`ExecutesStep`, which needs `LogBehind` and `UnconfirmedBehind`), begins a session
the log and the confirmations know nothing of (`RenewStep`), or stutters.

`IsoDepProofs` assumes `MaxBlocksAssumption` and `LimitsAssumption` and proves, for
any number of retries, attempts, calls, losses, block counts and buffer sizes:

- `TypeCorrect`, `NeverTwice` (`CarriedOnce`);
- `InStepMeansOwn` and `InStepAgain`, what does hold of the answers although
  `OwnAnswer` does not;
- `ContractKept`: under `Disciplined` and `MaxBlocks = 1`, `Spec` implements
  `TransceiveContract`. Both hypotheses are needed: `isodep_stale` and
  `isodep_chained` break the contract without the one and the other.

`InStepAnswer` is not inductive. The heart of its `IInv` is `InStepCall`: a call
begun in step is at any time in one of two situations. Either the tag lacks the
APDU and the numbers differ, so R(NAK) can only bring R(ACK) and the call
returns nothing; or the tag has it, its number is that of the APDU's block, and
whatever R(NAK) or S(WTX) brings is the answer or a request for time.
`FirstDelivery` and `SecondDelivery` prove that the tag moves between the two as
claimed, `InStepAccept` and `SituationStep` that the reader does. For
`CarriedOnce` the invariant adds that commands carried out have old numbers
(`CarriedBehind`) and that an I-block still to be sent is new
(`NotYetCarried`). `ContractKept` rests on `IInv` and on `Restarted`: with an
activation after each failure, every call begins in step.

`Pn532LinkProofs` assumes `CommandsAssumption`, what it uses of the table (TLC
evaluates it for the real one), and `LinkAssumption`. For any set of functions and on
every bus it proves `LinkTypes`; and under `Linked`, `LinkInvariant` (`IInv`),
`LinkOwnResponse`, `LinkAckUnderstood`, `LinkTruthful` and `LinkListedOnReport`. The
invariant says which half of the exchange host and chip are in (`AwaitingAck`,
`AwaitingResponse`), so that what is pending belongs to the call in progress. What
makes it inductive differs by bus, and `Linked` names the two cases:

- `FrameLink` (I2C, SPI): a new command drops what was pending. Who starts a
  detection needs its acknowledgement in time: when it is late,
  `readDetectedPassiveTargetID` may read that instead of the answer.
- `StreamLink` (UART): nothing drops what was pending, so every function called must
  read the whole of each answer, and answers must be in time. Then nothing is left
  between calls (`StreamInv`), which is also `StreamNothingLeft`; `AnswerBehindAck` is
  the case in which the chip has answered before the host reads the acknowledgement.
  `pn532_unread` shows what becomes of it when one function leaves its answer.

`Ntag424FilesProofs` assumes `FilesAssumption` and proves, for every file, data, buffer size
and number of losses, `FilesInvariant`, and in `TagMemory`: `FilesTypeCorrect`,
`FilesWrittenPrefix`, `FilesFormatErases`, `FilesReadsMessage`. The invariant says how far
a call has come: `FormatSoFar` (after the first round everything is zero),
`UpdateSoFar` (both indices agree and stay within the data), `ReadSoFar` (what
is stored is the beginning of the message, and less than was asked for). `FilesReadsFile` proves
`ReadsFile` on top of that, from `FileInv`: whole pages of 32 bytes have been stored
behind each other and the sizes the loop changes have not changed yet (`FirstPages`).
`PageNumbers` is the loop's arithmetic, in every case of an early end or a last page
of 0 bytes. `FilesComplete` proves `Completes`: an undisturbed call still has all of its
exchanges to come (`CompleteInv`), and each of them asks for something. It assumes
`FileSize <= 257`, and the NDEF file of an NTAG424 has 256 bytes: in a larger file
`ReadNDEFMessage` can have a multiple of 256 bytes left that is not the rest of the
file, which its `uint8_t` makes a request for all of it.

`UriRecordsProofs` assumes `UriAssumption` (urls have lengths, data areas fit the
`uint8_t` they are passed in) and proves, in `TagMemory`, for any url, prefix, data area, earlier
contents and number of writes lost or refused:

- `UriShortReadsBack` (`ShortUriReadsBack`). What is on the tag in the middle of a call is
  nothing a reader looks for, so the property says nothing of it. `UriInv` does: as long as
  every write of the call was answered with success, memory begins with the part of
  the image, `Image(url)`, that has been sent (`Shows`), and the blocks or pages still to
  come are the rest (`ClassicSoFar`, `Ntag2xxSoFar`). `ReadsBackWhole` says that a
  whole image reads back; `Block1Is` to `Block3Is` with `BlocksIs`, and `PageIs`, that the
  lengths the code distinguishes (7, 22 and 23 characters; each remainder of a page) cut the
  image in the right places. Writes that the tag refused are reported as
  success (`pn532_outcome`); `Written` excludes them here.
- `UriWithinArea` (`WithinArea`), from `InArea`, which adds that memory keeps its length.
  It assumes `WholePages`: the code compares lengths in bytes, and a data area
  of 4n + 1 to 4n + 3 bytes has its last page written beyond it. NTAG2xx data areas are
  whole pages.

`BuffersProofs` has what both use of `Buffers`: bytes copied piece by piece are those of
the whole.

`Mfrc522Proofs` assumes `TagsAssumption` (UIDs of one to three levels, the cascade
tag in front of every level but the last, no two tags alike) and
`NoiseAssumption`, and proves for any tags, any number of them in the field at once
and any noise `ActivationInvariant` (`IInv`), `TypeCorrect`, `OneTagIsTold`,
`LinkIsReady` and `ToldTagAnswers`. `ReadsOneTag` alone says nothing of a call in
progress. `SelInv` does: past the first level, every tag still asked has a UID that
begins with the bytes read (`Told`); `CopiedMiddle` and `CopiedLast` are the
arithmetic of where a level's bytes go. Tags that answer the last SELECT then all
have the same UID, hence are one (`FullUidInjective`). The noise costs nothing:
whatever ended up in the buffer, a tag answers SELECT only to its own bytes.
`RatsInv` and `PpsInv` carry the selected tag through its activation, `SureInv` says
that no other is in its block protocol. That the assembled bytes are bytes
(`MarkLevel`, `ReadInLevel`, `BeforeLevel`) is part of `TypeCorrect`.

`LoneTagIsFound` proves `Refound` on top of that, from `FoundInv`: while a call with
something to find is under way, `Awaits` says before each exchange where the tag is
and whether the CRC fits it. The tag may be anywhere earlier calls left it: each of
its states has a frame of the call that brings it to idle or halted, and REQA or WUPA
to ready.

Model-checked only: liveness (`CallsReturn` of each module), which is out of the
prover's reach. Every other property of a passing run is the subject of a
theorem. The properties of the violation runs have none, since the code breaks them; what
does hold in their place is `InStepMeansOwn` for `OwnAnswer`, `LinkAckUnderstood` on a
UART where every answer is read, and `ShortUriReadsBack` for `UriReadsBack`.

## 6. Not modelled

- Bytes and lengths of APDUs: the session knows status classes and MACs, the block
  protocol counts blocks. Layout, padding and length checks of `ntag424_apdu.cpp`,
  and the fit of a response in its caller's buffer, are left to tests.
- Cryptography beyond what a MAC binds; RndA' of the tag's second
  authentication answer, which the code does not compare.
- Frames whose damage goes unnoticed, CID and NAD, `PICC_PPS` with bit rates and
  `PICC_Select` with bits known beforehand, which nothing calls.
- The MFRC522's registers one by one: an exchange is one step with the outcomes its
  register traffic can have. `PCD_CalculateCRC` fails only in `HaltNotSent`.
- The bus transfers of Adafruit_BusIO, responses longer than the driver's buffers,
  and the time a wait takes (`waitready`'s 16-bit timer).
- `mifareclassic_FormatNDEF` and the block predicates of the PN532 driver: constant
  writes and arithmetic.
- `attach_reader`, examples, stubs and tests, which were read for how the library is used.
