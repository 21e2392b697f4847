--------------------------- MODULE SecureCommands ---------------------------
(***************************************************************************)
(* What secure messaging promises an application that repeats a change     *)
(* until it sees it confirmed: within one session the tag carries each     *)
(* change out at most once, in the order of a counter that only grows, and *)
(* the confirmation of a change comes out of the exchange that carried it  *)
(* out, never out of a later one.                                          *)
(***************************************************************************)
EXTENDS Naturals

CONSTANTS
  Changes,   \* what the application asks for
  Counters   \* values of the command counter

VARIABLES
  executed,   \* changes the tag carried out in this session, by counter
  confirmed   \* changes the application saw confirmed in this session

Init == executed = {} /\ confirmed = {}

(* The tag carries out r at counter n; its answer arrives or is lost.      *)
Execute(r, n) ==
  /\ \A e \in executed : e.request # r /\ e.ctr < n
  /\ executed' = executed \union {[ctr |-> n, request |-> r]}
  /\ confirmed' \in {confirmed, confirmed \union {r}}

(* A new session: nothing said about the old one carries over.             *)
Renew == executed' = {} /\ confirmed' = {}

Next ==
  \/ \E r \in Changes, n \in Counters : Execute(r, n)
  \/ Renew

Spec == Init /\ [][Next]_<<executed, confirmed>>
===========================================================================
