-------------------------- MODULE MCNtag424Session --------------------------
(* Small instance of Ntag424Session.                                       *)
EXTENDS Ntag424Session

CONSTANTS w1, k1, k2

MCWrites  == {w1}
MCKeyNos  == {0, 1}
MCKeys    == {k1, k2}
MCKeyChanges ==
  {[keynumber |-> 0, oldkey |-> k1, newkey |-> k2],
   [keynumber |-> 1, oldkey |-> k1, newkey |-> k2]}
===========================================================================
