------------------------------ MODULE MCIsoDep ------------------------------
(* Small instances of IsoDep.                                              *)
EXTENDS IsoDep

CONSTANTS MCMinRoom, MCMaxRoom

MCRooms == MCMinRoom..MCMaxRoom
===========================================================================
