---------------------------- MODULE MCPn532Link -----------------------------
(* Small instances of Pn532Link.                                           *)
EXTENDS Pn532Link

(* On I2C and SPI one function of each way of asking and judging; on the   *)
(* UART functions that read the whole of their response.                   *)
MCCalls ==
  [frames |-> {"writeGPIO", "setPassiveActivationRetries", "readPassiveTargetID",
               "startPassiveTargetIDDetection", "inDataExchange", "inListPassiveTarget",
               "transceive", "mifareclassic_ReadDataBlock",
               "mifareclassic_WriteDataBlock", "setDataTarget"},
   uart   |-> {"getFirmwareVersion", "SAMConfig", "mifareclassic_ReadDataBlock",
               "mifareclassic_AuthenticateBlock", "ntag2xx_WritePage",
               "inListPassiveTarget", "inDataExchange"}]
MCInTime == [frames |-> {"command"}, uart |-> {"command", "acked"}]

(* A reader that configures the chip and reads and writes a tag            *)
SetupCalls ==
  [b \in Buses |-> {"SAMConfig", "setPassiveActivationRetries",
                    "mifareclassic_ReadDataBlock", "mifareclassic_WriteDataBlock"}]
===========================================================================
