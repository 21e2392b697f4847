--------------------------- MODULE Ntag424Session ---------------------------
(***************************************************************************)
(* The secure-messaging session of the host library: ntag424_SessionType   *)
(* as ntag424_core.cpp and ntag424_apdu.cpp read and write it, against a   *)
(* tag (Ntag424Card) behind a reader that may lose a request or a          *)
(* response.                                                               *)
(*                                                                         *)
(* The library is synchronous: a call that makes one exchange is one       *)
(* action.  A call that makes several (Authenticate, ISOSelectNDEFFile,    *)
(* isNTAG424) is one action per exchange, with its locals in `call`, so    *)
(* that the tag can leave the field between two of them.  The application  *)
(* starts calls in any order and repeats a change only until it has seen   *)
(* it confirmed.                                                           *)
(***************************************************************************)
EXTENDS Ntag424Card

CONSTANTS
  AuthDelayMaxRetries,  (* NTAG424_AUTH_DELAY_MAX_RETRIES                  *)
  MaxSessions,          (* bound: authentications the tag completes        *)
  MaxCommands           (* bound: counter value at which calls stop        *)

ASSUME BoundsAssumption ==
  /\ AuthDelayMaxRetries \in Nat
  /\ MaxSessions \in Nat
  /\ MaxCommands \in Nat

VARIABLES
  session,  (* ntag424_SessionType: flag, counter, and sid for TI and keys *)
  card,     (* the tag in the field                                        *)
  call,     (* the library call in progress and its locals                 *)
  last,     (* history: what the last step returned to the application     *)
  acked,    (* history: changes reported to the application as done        *)
  lapses    (* history: what happened to the counters since authentication *)

vars == <<session, card, call, last, acked, lapses>>

CommModes == {"plain", "mac", "full"}

Session == [authenticated: BOOLEAN, cmd_counter: Nat, sid: Nat]

Idle == [step |-> "idle"]
AuthCall == [step: {"auth1", "auth2"}, iso: BOOLEAN, keyno: KeyNos, key: Keys,
             delay_retry: 0..AuthDelayMaxRetries]
OtherCall == [step: {"select_ef", "version2", "version3"}]

Ops == {"none", "ChangeFileSettings", "ChangeKey", "GetFileSettings",
        "ReadSimple", "Plain", "ReadData", "ISOSelectFile",
        "ISOSelectNDEFFile", "Authenticate"}
Nothing == [op |-> "none", request |-> NoRequest, ret |-> 0, verified |-> FALSE]

Init ==
  /\ session = [authenticated |-> FALSE, cmd_counter |-> 0, sid |-> NoSid]
  /\ \E keys \in [KeyNos -> Keys] : card = FreshCard(keys)
  /\ call = Idle
  /\ last = Nothing
  /\ acked = {}
  /\ lapses = {}

---------------------------------------------------------------------------
(* ntag424_apdu.cpp                                                        *)

Secured(mode) == mode \in {"mac", "full"}

(* ntag424_build_apdu refuses MAC and Full outside a session.              *)
CanBuild(s, mode) == Secured(mode) => s.authenticated

BuildApdu(s, mode, request) ==
  [mode |-> mode, request |-> request,
   mac |-> IF Secured(mode) THEN [sid |-> s.sid, ctr |-> s.cmd_counter]
                            ELSE NoMac]

(* The CMAC comparison of ntag424_process_response, made only when the     *)
(* response is long enough to hold a MAC.                                  *)
MacMatches(s, mode, rsp) ==
  Secured(mode) /\ rsp.mac # NoMac
    => rsp.mac = [sid |-> s.sid, ctr |-> s.cmd_counter + 1]

Decoded(s, mode, rsp) == rsp.sw # "none" /\ MacMatches(s, mode, rsp)

(* Mutants of ProcessResponse: an exchange without a response is counted;  *)
(* only secured modes are; CommMode.Full is not.                           *)
ProcessResponseCountsLost(s, mode, rsp) ==
  IF MacMatches(s, mode, rsp) /\ s.authenticated
  THEN [s EXCEPT !.cmd_counter = @ + 1]
  ELSE s
ProcessResponseSecuredOnly(s, mode, rsp) ==
  IF Decoded(s, mode, rsp) /\ s.authenticated /\ Secured(mode)
  THEN [s EXCEPT !.cmd_counter = @ + 1]
  ELSE s
ProcessResponseSkipsFull(s, mode, rsp) ==
  IF Decoded(s, mode, rsp) /\ s.authenticated /\ mode # "full"
  THEN [s EXCEPT !.cmd_counter = @ + 1]
  ELSE s

(* The session after ntag424_process_response: every decoded response of   *)
(* an authenticated session is counted, whatever its mode and status.      *)
ProcessResponse(s, mode, rsp) ==
  IF Decoded(s, mode, rsp) /\ s.authenticated
  THEN [s EXCEPT !.cmd_counter = @ + 1]
  ELSE s

(* Mutant of StatusOk: any answer is taken for success.                    *)
AnyStatusOk(rsp)    == rsp.sw # "none"
StatusOk(rsp)       == rsp.sw = "ok"
ResponseLength(rsp) == IF rsp.mac = NoMac THEN 2 ELSE 10

---------------------------------------------------------------------------
(* Calls with one exchange.  ntag424_send_apdu builds, exchanges and       *)
(* processes; when nothing can be built, nothing is sent.                  *)

Ready ==
  /\ call = Idle
  /\ card.ctr < MaxCommands
  /\ session.cmd_counter < MaxCommands

Answers(mode, request) ==
  IF CanBuild(session, mode)
  THEN Exchange(card, CardReplies(card, BuildApdu(session, mode, request)))
  ELSE {Reply(card, NoResponse)}

NoteLoss(rsp) == lapses' = IF rsp.sw = "none" THEN lapses \union {"lost"}
                                              ELSE lapses

SendApdu(mode, x) ==
  /\ card' = x.card
  /\ session' = ProcessResponse(session, mode, x.rsp)
  /\ NoteLoss(x.rsp)

Return(op, request, ret, verified) ==
  last' = [op |-> op, request |-> request, ret |-> ret, verified |-> verified]

Verified(mode, x) ==
  Secured(mode) /\ x.rsp.mac # NoMac /\ Decoded(session, mode, x.rsp)

(* What a call reports: 1 for a successful status, or the decoded length.  *)
StatusResult(mode, x) ==
  IF Decoded(session, mode, x.rsp) /\ StatusOk(x.rsp) THEN 1 ELSE 0
LengthResult(mode, x) ==
  IF Decoded(session, mode, x.rsp) THEN ResponseLength(x.rsp) ELSE 0

Unconfirmed(request) == [sid |-> session.sid, request |-> request] \notin acked
Confirm(request, done) ==
  acked' = IF done THEN acked \union {[sid |-> session.sid, request |-> request]}
                   ELSE acked

(* ntag424_ChangeFileSettings returns the decoded length, also of an error *)
(* status; only the length of a response with a MAC tells a success.       *)
ChangeFileSettings(w, mode) ==
  /\ Ready
  /\ Unconfirmed(w)
  /\ \E x \in Answers(mode, w) :
       /\ SendApdu(mode, x)
       /\ Return("ChangeFileSettings", w, LengthResult(mode, x), Verified(mode, x))
       /\ Confirm(w, LengthResult(mode, x) = 10)
  /\ UNCHANGED call

(* ntag424_ChangeKey always uses CommMode.Full and checks the status.      *)
ChangeKey(k) ==
  /\ Ready
  /\ Unconfirmed(k)
  /\ \E x \in Answers("full", k) :
       /\ SendApdu("full", x)
       /\ Return("ChangeKey", k, StatusResult("full", x), Verified("full", x))
       /\ Confirm(k, StatusResult("full", x) = 1)
  /\ UNCHANGED call

GetFileSettings(mode) ==
  /\ Ready
  /\ \E x \in Answers(mode, NoRequest) :
       /\ SendApdu(mode, x)
       /\ Return("GetFileSettings", NoRequest, LengthResult(mode, x),
                 Verified(mode, x))
  /\ UNCHANGED <<call, acked>>

(* ntag424_GetCardUID and ntag424_GetTTStatus.                             *)
ReadSimpleFullResponse ==
  /\ Ready
  /\ \E x \in Answers("full", NoRequest) :
       /\ SendApdu("full", x)
       /\ Return("ReadSimple", NoRequest, StatusResult("full", x),
                 Verified("full", x))
  /\ UNCHANGED <<call, acked>>

(* ntag424_GetKeyVersion and ntag424_WriteData: Plain, with the session.   *)
PlainCommand ==
  /\ Ready
  /\ \E x \in Answers("plain", NoRequest) :
       /\ SendApdu("plain", x)
       /\ Return("Plain", NoRequest, StatusResult("plain", x), FALSE)
  /\ UNCHANGED <<call, acked>>

(* ntag424_ReadData: one Plain exchange the session is not told about.     *)
ReadData ==
  /\ Ready
  /\ \E x \in Exchange(card, PlainReplies(card, "ok")) :
       /\ card' = x.card
       /\ Return("ReadData", NoRequest, IF StatusOk(x.rsp) THEN 1 ELSE 0, FALSE)
       /\ lapses' = lapses \union
                    {IF x.rsp.sw = "none" THEN "lost" ELSE "bypassed"}
  /\ UNCHANGED <<session, call, acked>>

(* ntag424_ISOSelectFileById, ...ByDFN, ...CCFile.                         *)
ISOSelectFile ==
  /\ Ready
  /\ \E x \in Exchange(card, SelectReplies(card)) :
       /\ SendApdu("plain", x)
       /\ Return("ISOSelectFile", NoRequest, StatusResult("plain", x), FALSE)
  /\ UNCHANGED <<call, acked>>

---------------------------------------------------------------------------
(* ntag424_ISOSelectNDEFFile: the application, then the file.              *)

ISOSelectNDEFFile ==
  /\ Ready
  /\ \E x \in Exchange(card, SelectReplies(card)) :
       /\ SendApdu("plain", x)
       /\ call' = IF StatusResult("plain", x) = 1 THEN [step |-> "select_ef"]
                                                  ELSE Idle
  /\ last' = Nothing
  /\ UNCHANGED acked

ISOSelectNDEFFile2 ==
  /\ call = [step |-> "select_ef"]
  /\ \E x \in Exchange(card, SelectReplies(card)) :
       /\ SendApdu("plain", x)
       /\ Return("ISOSelectNDEFFile", NoRequest, StatusResult("plain", x), FALSE)
  /\ call' = Idle
  /\ UNCHANGED acked

---------------------------------------------------------------------------
(* ntag424_isNTAG424: the three frames of ntag424_GetVersion, outside the  *)
(* session; a tag recognised as NTAG424 closes the host's session.         *)

GetVersionFrame(replies, next) ==
  /\ \E x \in Exchange(card, replies) :
       /\ card' = x.card
       /\ call' = IF x.rsp.sw = "more" THEN next ELSE Idle
       /\ lapses' = lapses \union
                    {IF x.rsp.sw = "none" THEN "lost" ELSE "bypassed"}
  /\ last' = Nothing
  /\ UNCHANGED <<session, acked>>

IsNTAG424 ==
  /\ Ready
  /\ GetVersionFrame(PlainReplies(card, "more"), [step |-> "version2"])

GetVersionFrame2 ==
  /\ call = [step |-> "version2"]
  /\ GetVersionFrame(FrameReplies(card, "more"), [step |-> "version3"])

GetVersionFrame3 ==
  /\ call = [step |-> "version3"]
  /\ \E x \in Exchange(card, FrameReplies(card, "ok")), hwType \in BOOLEAN :
       /\ card' = x.card
       /\ session' = IF StatusOk(x.rsp) /\ hwType
                     THEN [session EXCEPT !.authenticated = FALSE,
                                          !.cmd_counter = 0]
                     ELSE session
       /\ lapses' = lapses \union
                    {IF x.rsp.sw = "none" THEN "lost" ELSE "bypassed"}
  /\ call' = Idle
  /\ last' = Nothing
  /\ UNCHANGED acked

---------------------------------------------------------------------------
(* ntag424_Authenticate and ntag424_ISOAuthenticate (iso): SELECT, part 1  *)
(* (repeated while the native form is told to wait), part 2.               *)

AuthStart(iso, keyno, key) ==
  /\ Ready
  /\ card.lastSid < MaxSessions
  /\ \E x \in Exchange(card, SelectReplies(card)) :
       /\ card' = x.card
       /\ call' = IF StatusOk(x.rsp)
                  THEN [step |-> "auth1", iso |-> iso, keyno |-> keyno,
                        key |-> key, delay_retry |-> 0]
                  ELSE Idle
       /\ lapses' = lapses \union
                    {IF x.rsp.sw = "none" THEN "lost" ELSE "bypassed"}
  /\ last' = Nothing
  /\ UNCHANGED <<session, acked>>

(* Mutants of NextAttempt: one attempt too many; a counter too narrow for  *)
(* the bound wraps, and the loop does not end.                             *)
NextAttemptOneTooMany(c) ==
  IF ~c.iso /\ c.delay_retry <= AuthDelayMaxRetries
  THEN [c EXCEPT !.delay_retry = @ + 1]
  ELSE Idle
NextAttemptWraps(c) ==
  IF ~c.iso
  THEN [c EXCEPT !.delay_retry = (@ + 1) % (AuthDelayMaxRetries + 1)]
  ELSE Idle

(* The for loop: another attempt after AUTHENTICATION_DELAY, if any left.  *)
NextAttempt(c) ==
  IF ~c.iso /\ c.delay_retry < AuthDelayMaxRetries
  THEN [c EXCEPT !.delay_retry = @ + 1]
  ELSE Idle

AuthPart1 ==
  /\ call.step = "auth1"
  /\ \E x \in Exchange(card, Auth1Replies(card, call.keyno)) :
       /\ card' = x.card
       /\ call' = CASE x.rsp.sw = "more"  -> [call EXCEPT !.step = "auth2"]
                    [] x.rsp.sw = "delay" -> NextAttempt(call)
                    [] OTHER              -> Idle
  /\ last' = Nothing
  /\ UNCHANGED <<session, acked, lapses>>

(* Mutant of NewSession: the counter of the old session is kept.           *)
NewSessionKeepsCounter(s, sid) ==
  [s EXCEPT !.authenticated = TRUE, !.sid = sid]

(* authenticated and cmd_counter are assigned, the rest are TI and keys.    *)
NewSession(s, sid) ==
  [s EXCEPT !.authenticated = TRUE, !.cmd_counter = 0, !.sid = sid]

AuthPart2 ==
  /\ call.step = "auth2"
  /\ \E x \in Exchange(card, Auth2Replies(card, call.key)) :
       /\ card' = x.card
       /\ session' = IF StatusOk(x.rsp) THEN NewSession(session, x.card.sid)
                                        ELSE session
       /\ lapses' = IF StatusOk(x.rsp) THEN {} ELSE lapses
       /\ Return("Authenticate", NoRequest, IF StatusOk(x.rsp) THEN 1 ELSE 0, FALSE)
  /\ call' = Idle
  /\ UNCHANGED acked

---------------------------------------------------------------------------
(* The tag leaves the field, and it or another one comes back.  Nothing in *)
(* readPassiveTargetID touches the session.                                *)
NewTag ==
  /\ \E keys \in [KeyNos -> Keys] :
       card' = [LoggedOut(card) EXCEPT !.keys = keys]
  /\ last' = Nothing
  /\ UNCHANGED <<session, call, acked, lapses>>

LibraryStep ==
  \/ ISOSelectNDEFFile2
  \/ GetVersionFrame2
  \/ GetVersionFrame3
  \/ AuthPart1
  \/ AuthPart2

Next ==
  \/ \E w \in Writes, mode \in CommModes : ChangeFileSettings(w, mode)
  \/ \E k \in KeyChanges : ChangeKey(k)
  \/ \E mode \in CommModes : GetFileSettings(mode)
  \/ ReadSimpleFullResponse
  \/ PlainCommand
  \/ ReadData
  \/ ISOSelectFile
  \/ ISOSelectNDEFFile
  \/ IsNTAG424
  \/ \E iso \in BOOLEAN, keyno \in KeyNos, key \in Keys :
       AuthStart(iso, keyno, key)
  \/ LibraryStep
  \/ NewTag

Spec == Init /\ [][Next]_vars

(* A call that has begun goes on: the library never waits for the          *)
(* application between two exchanges, and transceive always returns.       *)
FairSpec == Spec /\ WF_vars(LibraryStep)

---------------------------------------------------------------------------
(* Properties                                                              *)

TypeOK ==
  /\ session \in Session
  /\ card \in Card
  /\ call \in {Idle} \union AuthCall \union OtherCall
  /\ last \in [op: Ops, request: Requests \union {NoRequest},
               ret: {0, 1, 2, 10}, verified: BOOLEAN]
  /\ acked \subseteq [sid: Nat, request: Requests]
  /\ lapses \subseteq {"lost", "bypassed"}

(* The host holds the session the tag is in.                               *)
InSession ==
  /\ session.authenticated
  /\ card.sid = session.sid
  /\ card.sid # NoSid

(* The host's counter may fall behind the tag's, when a response is lost   *)
(* or a command bypasses the session, but it never runs ahead: only a      *)
(* decoded response advances it (ntag424_process_response), and            *)
(* authentication starts both at zero.                                     *)
CounterNeverAhead == InSession => session.cmd_counter <= card.ctr

(* A change sent in CommMode.MAC or Full and repeated until confirmed is   *)
(* executed at most once in a session: after a lost response the repeated  *)
(* APDU carries the counter of the first one, and the tag refuses it.      *)
AtMostOnce ==
  \A d, e \in card.log :
    d.sid = e.sid /\ d.request = e.request => d = e

(* A change the application saw confirmed was executed in that session.    *)
AckedExecuted ==
  \A a \in acked :
    \E e \in card.log : e.sid = a.sid /\ e.request = a.request

(* When ntag424_ChangeKey returns 1 the tag holds the new key, also when   *)
(* the status came without a MAC because the session's own key changed.    *)
ChangeKeyTruthful ==
  last.op = "ChangeKey" /\ last.ret = 1
    => card.keys[last.request.keynumber] = last.request.newkey

(* A response whose MAC was checked leaves both counters equal: the check  *)
(* is what detects a command inserted into or deleted from the session.    *)
VerifiedInSync ==
  last.verified => InSession /\ session.cmd_counter = card.ctr

(* Counters differ only for a reason: a lost exchange, or a call that      *)
(* exchanged commands without telling the session (ReadData, GetVersion,   *)
(* the SELECT that starts an authentication).                              *)
CountersAgree ==
  InSession /\ lapses = {} => session.cmd_counter = card.ctr

(* What the comment in ntag424_process_response states: cmd_counter is     *)
(* incremented "for EVERY command when in authenticated state, even        *)
(* CommMode.Plain commands".  ReadData is one that does not.               *)
EveryCommandCounted ==
  InSession /\ "lost" \notin lapses => session.cmd_counter = card.ctr

(* Every call returns: the 91 AD loop of ntag424_Authenticate gives up.    *)
CallsReturn == call # Idle ~> call = Idle

(* The inductive invariant behind the properties above.  Sessions are      *)
(* fresh; the log of the tag's session lies behind its counter; and while  *)
(* a change was executed whose confirmation never arrived, the host's      *)
(* counter is strictly behind, so that nothing more is executed.           *)
SidsUsed ==
  /\ session.sid <= card.lastSid
  /\ card.sid <= card.lastSid
  /\ \A e \in card.log : e.sid # NoSid /\ e.sid <= card.lastSid
  /\ \A a \in acked : a.sid <= card.lastSid

LogBehind == \A e \in card.log : e.sid = card.sid => e.ctr < card.ctr

UnconfirmedBehind ==
  InSession =>
    \A e \in card.log :
      e.sid = card.sid /\ [sid |-> e.sid, request |-> e.request] \notin acked
        => session.cmd_counter < card.ctr

IInv ==
  /\ SidsUsed
  /\ LogBehind
  /\ CounterNeverAhead
  /\ UnconfirmedBehind
  /\ AtMostOnce
  /\ AckedExecuted

(* The session implements the promise of SecureCommands.                   *)
Promise == INSTANCE SecureCommands WITH
  Changes   <- Requests,
  Counters  <- 0..MaxCommands,
  executed  <- {[ctr |-> e.ctr, request |-> e.request] :
                  e \in {f \in card.log : f.sid = session.sid}},
  confirmed <- {a.request : a \in {b \in acked : b.sid = session.sid}}

KeepsPromise == Promise!Spec
===========================================================================
