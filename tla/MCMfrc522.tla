----------------------------- MODULE MCMfrc522 -----------------------------
(***************************************************************************)
(* Three tags: two with UIDs of 7 bytes that speak ISO/IEC 14443-4 and     *)
(* differ in the second cascade level only, and one with a UID of 4 bytes  *)
(* that does not.                                                          *)
(***************************************************************************)
EXTENDS Mfrc522, TLC

CONSTANTS a, b, c

MCTags == {a, b, c}
MCIso4 == {a, b}

(* a and b first differ at bit 8 of level 2; c differs from the cascade    *)
(* tag inside a byte, at bit 3.                                            *)
MCUid == (a :> << <<CT, 4, 18, 52>>, <<129, 6, 7, 8>> >>)
      @@ (b :> << <<CT, 4, 18, 52>>, <<1, 6, 7, 8>> >>)
      @@ (c :> << <<140, 16, 32, 48>> >>)

MCTogether == {{a, b}, {a, c}}
=============================================================================
