------------------------------ MODULE TagMemory -----------------------------
(***************************************************************************)
(* A program that keeps a message on a tag: in the NDEF file of a NTAG424  *)
(* (Ntag424Files), or as a URI record on a Mifare Classic or NTAG2xx       *)
(* (UriRecords).  Either way one call is in progress at a time.            *)
(***************************************************************************)
EXTENDS Ntag424Files, UriRecords

VARIABLE library   (* which of the two the program uses                    *)

memoryVars == <<vars, uriVars, library>>

(* The memory the program does not use does not matter.                    *)
MemoryInit ==
  /\ Init
  /\ UriInit
  /\ library \in {"ntag424_core", "pn532"}
  /\ library = "ntag424_core" => tag.kind = "classic"
  /\ library = "pn532" => file = CHOOSE c \in Contents: TRUE

UsesFiles(A)   == library = "ntag424_core" /\ A /\ UNCHANGED <<uriVars, library>>
UsesRecords(A) == library = "pn532" /\ A /\ UNCHANGED <<vars, library>>

MemoryNext == UsesFiles(Next) \/ UsesRecords(UriNext)

(* A call goes on by itself.                                               *)
MemorySpec ==
  /\ MemoryInit /\ [][MemoryNext]_memoryVars
  /\ WF_memoryVars(UsesFiles(Steps))
  /\ WF_memoryVars(UsesRecords(UriSteps))

(* Every call returns, whatever exchanges are lost.                        *)
CallsReturn ==
  (op.fn # "none" \/ job.fn # "none") ~> (op.fn = "none" /\ job.fn = "none")
===========================================================================
