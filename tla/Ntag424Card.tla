---------------------------- MODULE Ntag424Card ----------------------------
(***************************************************************************)
(* The PICC: an NTAG424 DNA tag as the host library uses it.  The tag is   *)
(* not part of the repository, so every operator here is external: it      *)
(* states what ntag424_core.cpp and ntag424_apdu.cpp rely on, and leaves   *)
(* open (as a set of possible replies) what they do not.                   *)
(*                                                                         *)
(*  - The tag keeps a command counter per authenticated session and counts *)
(*    every command it answers in that session, Plain ones included        *)
(*    (ntag424_apdu.cpp, the comment in ntag424_process_response).         *)
(*  - A command in CommMode.MAC or Full carries a MAC over the counter and *)
(*    the transaction identifier; a MAC that does not match ends the       *)
(*    session with INTEGRITY_ERROR (ntag424_core.h, status codes).         *)
(*  - A MAC or a key is abstracted to what it binds: the pair of session   *)
(*    and counter it was computed with, a member of Keys.                  *)
(***************************************************************************)
EXTENDS Naturals

CONSTANTS
  Writes,      (* contents an application asks ChangeFileSettings to store *)
  KeyNos,      (* key numbers of the application, 0 is its master key      *)
  Keys,        (* AES keys                                                 *)
  KeyChanges,  (* the ChangeKey calls an application makes                 *)
  NoRequest    (* stands for every command that changes nothing            *)

ASSUME KeyNosAssumption == KeyNos \subseteq 0..4
ASSUME KeyChangesAssumption ==
  KeyChanges \subseteq [keynumber: KeyNos, oldkey: Keys, newkey: Keys]
ASSUME RequestsAssumption ==
  /\ Writes \intersect KeyChanges = {}
  /\ NoRequest \notin Writes \union KeyChanges

(* What at most one execution per session matters for.                     *)
Requests == Writes \union KeyChanges

NoKeyNo == 5     \* no authentication is under way
NoSid   == 0     \* no session; sessions are numbered from 1

---------------------------------------------------------------------------
(* Responses.  "none" is what a caller of transceive sees as length 0.  A  *)
(* status without data and MAC has two bytes, a MAC adds eight.            *)

Mac   == [sid: Nat, ctr: Nat]
NoMac == [sid |-> NoSid, ctr |-> 0]

StatusWords == {"none", "ok", "more", "delay", "error"}
Response    == [sw: StatusWords, mac: Mac]

NoResponse     == [sw |-> "none", mac |-> NoMac]
Status(sw)     == [sw |-> sw, mac |-> NoMac]
Signed(sid, n) == [sw |-> "ok", mac |-> [sid |-> sid, ctr |-> n]]

Reply(c, rsp) == [card |-> c, rsp |-> rsp]

---------------------------------------------------------------------------
(* The tag's state: its session (sid, counter, key number used), the key   *)
(* number an authentication is waiting on, its keys, the number of         *)
(* sessions it opened, and which request it executed at which counter.     *)

LogEntry == [sid: Nat, ctr: Nat, request: Requests]
Card == [sid: Nat, ctr: Nat, authKey: KeyNos \union {NoKeyNo},
         challenge: KeyNos \union {NoKeyNo}, keys: [KeyNos -> Keys],
         lastSid: Nat, log: SUBSET LogEntry]

FreshCard(keys) ==
  [sid |-> NoSid, ctr |-> 0, authKey |-> NoKeyNo, challenge |-> NoKeyNo,
   keys |-> keys, lastSid |-> 0, log |-> {}]

LoggedOut(c) == [c EXCEPT !.sid = NoSid, !.ctr = 0, !.authKey = NoKeyNo,
                          !.challenge = NoKeyNo]

Counted(c) ==
  [c EXCEPT !.ctr = IF c.sid = NoSid THEN 0 ELSE c.ctr + 1,
            !.challenge = NoKeyNo]

(* A Plain command: answered and counted, refused and counted, or refused  *)
(* with the session ended.                                                 *)
PlainReplies(c, sw) ==
  {Reply(Counted(c), Status(sw)), Reply(Counted(c), Status("error")),
   Reply(LoggedOut(c), Status("error"))}

(* The next frame of a chained response belongs to the command before it.  *)
FrameReplies(c, sw) ==
  {Reply(c, Status(sw)), Reply(LoggedOut(c), Status("error"))}

(* Selecting a file; selecting the application may end the session.        *)
SelectReplies(c) ==
  PlainReplies(c, "ok") \union {Reply(LoggedOut(c), Status("ok"))}

(* AuthenticateEV2First, part 1: an encrypted challenge, AUTHENTICATION_   *)
(* DELAY or a refusal.                                                     *)
Auth1Replies(c, keyno) ==
  {Reply([LoggedOut(c) EXCEPT !.challenge = keyno], Status("more")),
   Reply(LoggedOut(c), Status("delay")),
   Reply(LoggedOut(c), Status("error"))}

(* Part 2: the answer proves knowledge of the key; a session opens.        *)
Auth2Replies(c, key) ==
  IF c.challenge \in KeyNos /\ c.keys[c.challenge] = key
  THEN {Reply([c EXCEPT !.sid = c.lastSid + 1, !.ctr = 0,
                        !.authKey = c.challenge, !.challenge = NoKeyNo,
                        !.lastSid = c.lastSid + 1],
              Status("ok"))}
  ELSE {Reply(LoggedOut(c), Status("error"))}

Logged(c, request) ==
  [Counted(c) EXCEPT !.log = c.log \union
     {[sid |-> c.sid, ctr |-> c.ctr, request |-> request]}]

(* ChangeKey needs a session of the master key.  The payload for another   *)
(* key number is old XOR new with a checksum of new, so the tag notices an *)
(* oldkey that is not its own.  Changing the master key ends the session,  *)
(* and the success status comes without a MAC.                             *)
ChangeKeyReplies(c, request) ==
  LET changed == [Logged(c, request)
                    EXCEPT !.keys[request.keynumber] = request.newkey]
  IN IF c.authKey # 0
     THEN {Reply(Counted(c), Status("error"))}
     ELSE IF request.keynumber = 0
     THEN {Reply(LoggedOut(changed), Status("ok"))}
     ELSE IF c.keys[request.keynumber] = request.oldkey
     THEN {Reply(changed, Signed(c.sid, c.ctr + 1))}
     ELSE {Reply(LoggedOut(c), Status("error"))}

(* A command in CommMode.MAC or Full.                                      *)
SecuredReplies(c, apdu) ==
  IF c.sid = NoSid \/ apdu.mac # [sid |-> c.sid, ctr |-> c.ctr]
  THEN {Reply(LoggedOut(c), Status("error"))}
  ELSE {Reply(Counted(c), Status("error")),
        Reply(LoggedOut(c), Status("error"))}
       \union
       (IF apdu.request \in KeyChanges
        THEN ChangeKeyReplies(c, apdu.request)
        ELSE IF apdu.request \in Writes
        THEN {Reply(Logged(c, apdu.request), Signed(c.sid, c.ctr + 1))}
        ELSE {Reply(Counted(c), Signed(c.sid, c.ctr + 1))})

CardReplies(c, apdu) ==
  IF apdu.mode = "plain" THEN PlainReplies(c, "ok") ELSE SecuredReplies(c, apdu)

(* reader->transceive: the card answers, or the request is lost, or the    *)
(* response is.  In the last two cases the caller gets length 0.           *)
Exchange(c, replies) ==
  replies \union {Reply(c, NoResponse)}
          \union {Reply(x.card, NoResponse) : x \in replies}
===========================================================================
