------------------------- MODULE TransceiveContract -------------------------
(***************************************************************************)
(* What NTAG424_Reader::transceive promises the code above it: commands    *)
(* are passed on one after the other, each is carried out at most once,    *)
(* and the caller gets nothing or the whole answer to the command it sent. *)
(* This is what the tag and the reader of Ntag424Card do.                  *)
(***************************************************************************)
EXTENDS Naturals, Sequences

CONSTANT MaxBlocks   \* parts of the longest answer

VARIABLES
  carried,   \* the commands carried out, with the length of their answers
  cmd,       \* number of the last command whose call returned
  data       \* what that call returned, <<>> for nothing

Init == carried = <<>> /\ cmd = 0 /\ data = <<>>

Answer(c) == [i \in 1..c.parts |-> [cmd |-> c.cmd, part |-> i]]

(* The tag carries out the command whose call is under way.                *)
CarryOut ==
  /\ \A i \in DOMAIN carried : carried[i].cmd <= cmd
  /\ \E n \in 1..MaxBlocks :
       carried' = Append(carried, [cmd |-> cmd + 1, parts |-> n])

(* The call returns nothing, or the answer to its command, which may have  *)
(* been carried out in the last exchange.                                  *)
Return ==
  /\ CarryOut \/ UNCHANGED carried
  /\ cmd' = cmd + 1
  /\ data' \in {<<>>} \union
       {Answer(carried'[i]) :
          i \in {j \in DOMAIN carried' : carried'[j].cmd = cmd + 1}}

Next == (CarryOut /\ UNCHANGED <<cmd, data>>) \/ Return

Spec == Init /\ [][Next]_<<carried, cmd, data>>
===========================================================================
