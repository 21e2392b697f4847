---------------------------- MODULE Pn532Commands ---------------------------
(***************************************************************************)
(* What each function of Adafruit_PN532 asks of the chip and of its answer *)
(* (Adafruit_PN532_NTAG424.cpp, pn532_ntag424_adapter.cpp), and the frames *)
(* of the PN532's host protocol.                                           *)
(***************************************************************************)
EXTENDS Integers, Sequences, Folds, SequencesExt

Byte == 0..255

Ack == <<0, 0, 255, 0, 255, 0>>

(* A response: preamble, LEN, its complement, direction, the command's     *)
(* code plus one, the payload, checksum, postamble.                        *)
Frame(code, payload) ==
  LET body == <<213, code + 1>> \o payload
      Complement(n) == (256 - n) % 256
      sum == FoldFunction(LAMBDA x, y: x + y, 0, body)
  IN <<0, 0, 255, Len(body), Complement(Len(body))>>
       \o body \o <<Complement(sum % 256), 0>>

(* Byte i of a buffer, counted from 0 as in the code.                      *)
At(b, i) == b[i + 1]

(***************************************************************************)
(* A function of the driver.  code: the command; sent: the first bytes it  *)
(* writes to pn532_packetbuffer; reads: the length it reads, 0 when it     *)
(* reads no response; needs: the <<index, value>> pairs it compares;       *)
(* checksLen: it also compares LEN and LCS; ownBuffer: it reads into a     *)
(* buffer of its own; forever: it waits with timeout 0; good, bad: the     *)
(* payloads by which the chip reports success and failure.                 *)
(***************************************************************************)
Command(sent, reads, needs, good, bad) ==
  [code |-> Head(sent), sent |-> sent, reads |-> reads, needs |-> needs,
   checksLen |-> FALSE, ownBuffer |-> FALSE, forever |-> FALSE,
   good |-> good, bad |-> bad]

Data(n)    == [i \in 1..n |-> 7]
Succeeded  == 0
Failed     == {<<1>>}
(* NbTg, Tg, SENS_RES, SEL_RES, NFCIDLength and the UID                     *)
Target(uidLength) == <<1, 1, 0, 4, 8, uidLength>> \o Data(uidLength)

GetFirmwareVersion ==
  Command(<<2>>, 13, {<<0, 0>>, <<1, 0>>, <<2, 255>>, <<3, 6>>, <<4, 250>>, <<5, 213>>},
          <<50, 1, 6, 7>>, {})
WriteGPIO == Command(<<14, 191, 0>>, 8, {<<6, 15>>}, <<>>, {})
ReadGPIO  == Command(<<12>>, 11, {}, <<63, 7, 1>>, {})
SAMConfig == Command(<<20, 1, 20, 1>>, 9, {<<6, 21>>}, <<>>, {})
SetPassiveActivationRetries == Command(<<50, 5, 255, 1, 255>>, 0, {}, <<>>, {})

ReadPassiveTargetID ==
  [Command(<<74, 1, 0>>, 20, {<<7, 1>>}, Target(4), {<<0>>}) EXCEPT !.forever = TRUE]
StartPassiveTargetIDDetection ==
  Command(<<74, 1, 0>>, 0, {}, Target(4), {<<0>>})
InDataExchange ==
  [Command(<<64, 1, 48, 4>>, 64,
           {<<0, 0>>, <<1, 0>>, <<2, 255>>, <<5, 213>>, <<6, 65>>, <<7, Succeeded>>},
           <<Succeeded>> \o Data(16), Failed) EXCEPT !.checksLen = TRUE]
InListPassiveTarget ==
  [Command(<<74, 1, 0>>, 64,
           {<<0, 0>>, <<1, 0>>, <<2, 255>>, <<5, 213>>, <<6, 75>>, <<7, 1>>},
           Target(4), {<<0>>}) EXCEPT !.checksLen = TRUE]
AdapterTransceive == [InDataExchange EXCEPT !.sent = <<>>, !.ownBuffer = TRUE]

ClassicAuthenticateBlock ==
  Command(<<64, 1, 96, 4>> \o Data(5), 12, {<<7, Succeeded>>}, <<Succeeded>>, Failed)
(* Mutant: the checksum and the postamble are not read.                    *)
ClassicReadDataBlockShort ==
  Command(<<64, 1, 48, 4>>, 24, {<<7, Succeeded>>}, <<Succeeded>> \o Data(16), Failed)
ClassicReadDataBlock ==
  Command(<<64, 1, 48, 4>>, 26, {<<7, Succeeded>>}, <<Succeeded>> \o Data(16), Failed)
ClassicWriteDataBlock ==
  Command(<<64, 1, 160, 4>> \o Data(5), 26, {}, <<Succeeded>>, Failed)
UltralightReadPage  == ClassicReadDataBlock
UltralightWritePage ==
  Command(<<64, 1, 162, 4>> \o Data(4), 26, {}, <<Succeeded>>, Failed)
Ntag2xxReadPage  == ClassicReadDataBlock
Ntag2xxWritePage == UltralightWritePage

AsTarget      == Command(<<140>>, 8, {<<6, 21>>}, <<4, 224>>, {})
GetDataTarget == Command(<<134>>, 64, {}, <<Succeeded>> \o Data(4), {})
SetDataTarget ==
  [Command(<<142>>, 8, {<<6, 21>>}, <<Succeeded>>, Failed) EXCEPT !.sent = <<>>]

Commands ==
  [getFirmwareVersion |-> GetFirmwareVersion, writeGPIO |-> WriteGPIO,
   readGPIO |-> ReadGPIO, SAMConfig |-> SAMConfig,
   setPassiveActivationRetries |-> SetPassiveActivationRetries,
   readPassiveTargetID |-> ReadPassiveTargetID,
   startPassiveTargetIDDetection |-> StartPassiveTargetIDDetection,
   inDataExchange |-> InDataExchange, inListPassiveTarget |-> InListPassiveTarget,
   transceive |-> AdapterTransceive,
   mifareclassic_AuthenticateBlock |-> ClassicAuthenticateBlock,
   mifareclassic_ReadDataBlock |-> ClassicReadDataBlock,
   mifareclassic_WriteDataBlock |-> ClassicWriteDataBlock,
   mifareultralight_ReadPage |-> UltralightReadPage,
   mifareultralight_WritePage |-> UltralightWritePage,
   ntag2xx_ReadPage |-> Ntag2xxReadPage, ntag2xx_WritePage |-> Ntag2xxWritePage,
   AsTarget |-> AsTarget, getDataTarget |-> GetDataTarget,
   setDataTarget |-> SetDataTarget]

(* The answer in buffer b passes the checks of command c.                  *)
Accepts(c, b) ==
  /\ \A n \in c.needs: At(b, n[1]) = n[2]
  /\ c.checksLen => (At(b, 3) + At(b, 4)) % 256 = 0
  /\ c.ownBuffer => At(b, 3) >= 3
===========================================================================
