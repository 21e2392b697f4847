------------------------ MODULE Ntag424SessionProofs ------------------------
(***************************************************************************)
(* Proofs about Ntag424Session, for every set of keys, changes and bounds. *)
(***************************************************************************)
EXTENDS Ntag424Session, TLAPS

---------------------------------------------------------------------------
(* What a reply does to the tag's session.                                 *)

(* A reply that opens no session: the tag keeps its session, its counter   *)
(* advancing by at most one, or drops it.                                  *)
Tame(c, x) ==
  /\ x.card \in Card
  /\ x.rsp \in Response
  /\ x.card.lastSid = c.lastSid
  /\ x.card.sid \in {c.sid, NoSid}
  /\ x.card.sid # NoSid => x.card.ctr \in {c.ctr, c.ctr + 1}

(* An answer that arrives while the session lives on was counted.          *)
CountsAnswer(c, x) ==
  x.rsp.sw # "none" /\ x.card.sid # NoSid => x.card.ctr = c.ctr + 1

LEMMA CardShapes ==
  ASSUME NEW c \in Card
  PROVE  /\ Counted(c) \in Card
         /\ LoggedOut(c) \in Card
         /\ Counted(c).sid = c.sid
         /\ Counted(c).sid # NoSid => Counted(c).ctr = c.ctr + 1
         /\ Counted(c).log = c.log
         /\ Counted(c).keys = c.keys
         /\ Counted(c).lastSid = c.lastSid
         /\ LoggedOut(c).sid = NoSid
         /\ LoggedOut(c).log = c.log
         /\ LoggedOut(c).keys = c.keys
         /\ LoggedOut(c).lastSid = c.lastSid
PROOF
<1>1. Counted(c) \in Card
  <2> DEFINE n == IF c.sid = NoSid THEN 0 ELSE c.ctr + 1
  <2>1. n \in Nat
    BY DEF Card
  <2> HIDE DEF n
  <2>2. [c EXCEPT !.ctr = n, !.challenge = NoKeyNo] \in Card
    BY <2>1 DEF Card
  <2>3. QED
    BY <2>2 DEF Counted, n
<1>2. LoggedOut(c) \in Card
  BY DEF Card, LoggedOut, NoSid
<1>3. /\ Counted(c).sid = c.sid
      /\ Counted(c).sid # NoSid => Counted(c).ctr = c.ctr + 1
      /\ Counted(c).log = c.log
      /\ Counted(c).keys = c.keys
      /\ Counted(c).lastSid = c.lastSid
  BY DEF Card, Counted
<1>4. /\ LoggedOut(c).sid = NoSid
      /\ LoggedOut(c).log = c.log
      /\ LoggedOut(c).keys = c.keys
      /\ LoggedOut(c).lastSid = c.lastSid
  BY DEF Card, LoggedOut
<1>5. QED
  BY <1>1, <1>2, <1>3, <1>4

LEMMA ResponseShapes ==
  /\ NoResponse \in Response
  /\ NoResponse.sw = "none"
  /\ NoResponse.mac = NoMac
  /\ \A sw \in StatusWords :
       Status(sw) \in Response /\ Status(sw).sw = sw /\ Status(sw).mac = NoMac
  /\ \A s, n \in Nat :
       /\ Signed(s, n) \in Response
       /\ Signed(s, n).sw = "ok"
       /\ Signed(s, n).mac = [sid |-> s, ctr |-> n]
BY DEF Response, NoResponse, Status, Signed, StatusWords, Mac, NoMac, NoSid

(* Plain commands and file selection: answered, refused or lost, they      *)
(* leave the log and the keys alone and carry no MAC.                      *)
LEMMA PlainAnswer ==
  ASSUME NEW c \in Card,
         NEW sw \in StatusWords,
         NEW x \in Exchange(c, SelectReplies(c) \union PlainReplies(c, sw)
                                 \union FrameReplies(c, sw))
  PROVE  /\ Tame(c, x)
         /\ x.card.log = c.log
         /\ x.card.keys = c.keys
         /\ x.rsp.mac = NoMac
PROOF
<1>1. "ok" \in StatusWords /\ "error" \in StatusWords
  BY DEF StatusWords
<1>2. PICK y, r : /\ x = Reply(y, r)
                  /\ y \in {c, Counted(c), LoggedOut(c)}
                  /\ r \in {NoResponse, Status(sw), Status("ok"), Status("error")}
  BY DEF Exchange, SelectReplies, PlainReplies, FrameReplies, Reply
<1>3. x.card = y /\ x.rsp = r
  BY <1>2 DEF Reply
<1>4. r \in Response /\ r.mac = NoMac
  BY <1>1, <1>2, ResponseShapes
<1>5. QED
  BY <1>2, <1>3, <1>4, CardShapes DEF Tame, Card, NoSid

LEMMA PlainCounts ==
  ASSUME NEW c \in Card,
         NEW sw \in StatusWords,
         NEW x \in Exchange(c, SelectReplies(c) \union PlainReplies(c, sw))
  PROVE  CountsAnswer(c, x)
PROOF
<1>1. PICK y, r : /\ x = Reply(y, r)
                  /\ y \in {c, Counted(c), LoggedOut(c)}
                  /\ y = c => r = NoResponse \/ c \in {Counted(c), LoggedOut(c)}
  BY DEF Exchange, SelectReplies, PlainReplies, Reply
<1>2. x.card = y /\ x.rsp = r
  BY <1>1 DEF Reply
<1>3. QED
  BY <1>1, <1>2, CardShapes, ResponseShapes DEF CountsAnswer, Card, NoSid

(* A secured command.  If it changed the log, the APDU matched the tag's   *)
(* session and counter, and the request is entered at that counter; a MAC, *)
(* or a success status of a change, only comes with that.                  *)
Matches(c, apdu) == c.sid # NoSid /\ apdu.mac = [sid |-> c.sid, ctr |-> c.ctr]

Entered(c, request) ==
  c.log \union {[sid |-> c.sid, ctr |-> c.ctr, request |-> request]}

SecuredEffect(c, apdu, x) ==
  /\ \/ x.card.log = c.log
     \/ /\ Matches(c, apdu)
        /\ apdu.request \in Requests
        /\ x.card.log = Entered(c, apdu.request)
        /\ x.card.sid # NoSid => x.card.ctr = c.ctr + 1
        /\ x.rsp.sw \in {"none", "ok"}
        /\ apdu.request \in Writes /\ x.rsp.sw = "ok" => x.rsp.mac # NoMac
  /\ x.rsp.sw = "ok" =>
       /\ Matches(c, apdu)
       /\ apdu.request \in Requests => x.card.log = Entered(c, apdu.request)
  /\ x.rsp.mac # NoMac =>
       /\ x.rsp.sw = "ok"
       /\ x.rsp.mac = [sid |-> c.sid, ctr |-> c.ctr + 1]
       /\ x.card.sid = c.sid

LEMMA LoggedShapes ==
  ASSUME NEW c \in Card, NEW r \in Requests
  PROVE  /\ Logged(c, r) \in Card
         /\ Logged(c, r).sid = c.sid
         /\ Logged(c, r).sid # NoSid => Logged(c, r).ctr = c.ctr + 1
         /\ Logged(c, r).log = Entered(c, r)
         /\ Logged(c, r).keys = c.keys
         /\ Logged(c, r).lastSid = c.lastSid
PROOF
<1> DEFINE l == Entered(c, r)
<1>1. l \in SUBSET LogEntry
  BY DEF Card, LogEntry, Entered
<1>2. Logged(c, r) = [Counted(c) EXCEPT !.log = l]
  BY DEF Logged, Entered
<1> HIDE DEF l
<1>3. [Counted(c) EXCEPT !.log = l] \in Card
  BY <1>1, CardShapes DEF Card
<1>4. QED
  BY <1>1, <1>2, <1>3, CardShapes DEF Card, l

LEMMA ChangedShapes ==
  ASSUME NEW c \in Card, NEW k \in KeyChanges
  PROVE  LET changed == [Logged(c, k) EXCEPT !.keys[k.keynumber] = k.newkey]
         IN /\ changed \in Card
            /\ changed.sid = c.sid
            /\ changed.sid # NoSid => changed.ctr = c.ctr + 1
            /\ changed.log = Entered(c, k)
            /\ changed.keys[k.keynumber] = k.newkey
            /\ changed.lastSid = c.lastSid
PROOF
<1> DEFINE d == Logged(c, k)
           ks == [d.keys EXCEPT ![k.keynumber] = k.newkey]
<1>1. k \in Requests /\ k.keynumber \in KeyNos /\ k.newkey \in Keys
  BY KeyChangesAssumption DEF Requests
<1>2. d \in Card /\ d.keys \in [KeyNos -> Keys]
  BY <1>1, LoggedShapes DEF Card
<1>3. ks \in [KeyNos -> Keys] /\ ks[k.keynumber] = k.newkey
  BY <1>1, <1>2
<1>4. [d EXCEPT !.keys[k.keynumber] = k.newkey] = [d EXCEPT !.keys = ks]
  BY <1>2 DEF Card
<1> HIDE DEF ks, d
<1>5. [d EXCEPT !.keys = ks] \in Card
  BY <1>2, <1>3 DEF Card
<1>6. /\ [d EXCEPT !.keys = ks].sid = d.sid
      /\ [d EXCEPT !.keys = ks].ctr = d.ctr
      /\ [d EXCEPT !.keys = ks].log = d.log
      /\ [d EXCEPT !.keys = ks].lastSid = d.lastSid
      /\ [d EXCEPT !.keys = ks].keys = ks
  BY <1>2 DEF Card
<1>7. /\ d.sid = c.sid
      /\ d.sid # NoSid => d.ctr = c.ctr + 1
      /\ d.log = Entered(c, k)
      /\ d.lastSid = c.lastSid
  BY <1>1, LoggedShapes DEF d
<1>8. QED
  BY <1>3, <1>4, <1>5, <1>6, <1>7 DEF d

Apdu == [mode: CommModes, request: Requests \union {NoRequest}, mac: Mac]

LEMMA SecuredAnswer ==
  ASSUME NEW c \in Card,
         NEW apdu \in Apdu,
         NEW x \in Exchange(c, SecuredReplies(c, apdu))
  PROVE  /\ Tame(c, x)
         /\ CountsAnswer(c, x)
         /\ SecuredEffect(c, apdu, x)
PROOF
<1> DEFINE Facts(y) == Tame(c, y) /\ CountsAnswer(c, y) /\ SecuredEffect(c, apdu, y)
           done == Signed(c.sid, c.ctr + 1)
<1>1. "ok" \in StatusWords /\ "error" \in StatusWords /\ "none" \in StatusWords
  BY DEF StatusWords
<1>2. /\ done \in Response /\ done.sw = "ok"
      /\ done.mac = [sid |-> c.sid, ctr |-> c.ctr + 1] /\ done.mac # NoMac
  BY ResponseShapes DEF Card, NoMac
<1>3. /\ Status("error") \in Response /\ Status("error").sw = "error"
      /\ Status("error").mac = NoMac
      /\ Status("ok") \in Response /\ Status("ok").sw = "ok"
      /\ Status("ok").mac = NoMac
      /\ NoResponse \in Response /\ NoResponse.sw = "none"
      /\ NoResponse.mac = NoMac
  BY <1>1, ResponseShapes
<1>4. /\ Facts(Reply(Counted(c), Status("error")))
      /\ Facts(Reply(LoggedOut(c), Status("error")))
      /\ Facts(Reply(c, NoResponse))
  BY <1>3, CardShapes
     DEF Tame, CountsAnswer, SecuredEffect, Reply, NoSid, Card
<1> HIDE DEF Facts, done
<1>5. \A y \in SecuredReplies(c, apdu) : Facts(y)
  <2> SUFFICES ASSUME NEW y \in SecuredReplies(c, apdu), Matches(c, apdu),
                      y # Reply(Counted(c), Status("error")),
                      y # Reply(LoggedOut(c), Status("error"))
               PROVE  Facts(y)
    BY <1>4 DEF SecuredReplies, Matches
  <2>1. CASE apdu.request \in KeyChanges
    <3> DEFINE k == apdu.request
               changed == [Logged(c, k) EXCEPT !.keys[k.keynumber] = k.newkey]
    <3>1. y \in ChangeKeyReplies(c, k)
      BY <2>1 DEF SecuredReplies
    <3>2. y \in {Reply(LoggedOut(changed), Status("ok")), Reply(changed, done)}
      BY <3>1 DEF ChangeKeyReplies, done
    <3>3. /\ changed \in Card /\ changed.sid = c.sid
          /\ changed.sid # NoSid => changed.ctr = c.ctr + 1
          /\ changed.log = Entered(c, k) /\ changed.lastSid = c.lastSid
      BY <2>1, ChangedShapes
    <3>4. k \in Requests /\ k \notin Writes
      BY <2>1, RequestsAssumption DEF Requests
    <3> HIDE DEF changed
    <3>5. Facts(Reply(changed, done))
      BY <1>2, <3>3, <3>4
         DEF Facts, Tame, CountsAnswer, SecuredEffect, Reply, NoSid, Card
    <3>6. Facts(Reply(LoggedOut(changed), Status("ok")))
      BY <1>3, <3>3, <3>4, CardShapes
         DEF Facts, Tame, CountsAnswer, SecuredEffect, Reply, NoSid
    <3>7. QED
      BY <3>2, <3>5, <3>6
  <2>2. CASE apdu.request \in Writes
    <3>1. apdu.request \in Requests /\ apdu.request \notin KeyChanges
      BY <2>2, RequestsAssumption DEF Requests
    <3>2. y = Reply(Logged(c, apdu.request), done)
      BY <2>2, <3>1 DEF SecuredReplies, done
    <3>3. QED
      BY <1>2, <3>1, <3>2, LoggedShapes
         DEF Facts, Tame, CountsAnswer, SecuredEffect, Reply, NoSid, Card
  <2>3. CASE apdu.request \notin Requests
    <3>1. y = Reply(Counted(c), done)
      BY <2>3 DEF SecuredReplies, Requests, done
    <3>2. QED
      BY <1>2, <2>3, <3>1, CardShapes
         DEF Facts, Tame, CountsAnswer, SecuredEffect, Reply, NoSid, Card
  <2>4. QED
    BY <2>1, <2>2, <2>3 DEF Requests
<1>6. ASSUME NEW y \in SecuredReplies(c, apdu)
      PROVE  Facts(Reply(y.card, NoResponse))
  BY <1>3, <1>5 DEF Facts, Tame, CountsAnswer, SecuredEffect, Reply
<1>7. QED
  BY <1>4, <1>5, <1>6 DEF Exchange, Facts

---------------------------------------------------------------------------
(* The answers to an APDU of the session.                                  *)

LEMMA BuiltApdu ==
  ASSUME NEW s \in Session, NEW mode \in CommModes,
         NEW r \in Requests \union {NoRequest}
  PROVE  /\ BuildApdu(s, mode, r) \in Apdu
         /\ BuildApdu(s, mode, r).request = r
         /\ BuildApdu(s, mode, r).mode = mode
         /\ Secured(mode) => BuildApdu(s, mode, r).mac
                               = [sid |-> s.sid, ctr |-> s.cmd_counter]
PROOF
<1>1. /\ NoMac \in Mac
      /\ [sid |-> s.sid, ctr |-> s.cmd_counter] \in Mac
  BY DEF NoMac, Mac, NoSid, Session
<1>2. QED
  BY <1>1 DEF BuildApdu, Apdu, Session

(* The host's session matches the tag's, so that the tag executes.         *)
HostMatches ==
  InSession /\ session.cmd_counter = card.ctr

LEMMA AnswerFacts ==
  ASSUME TypeOK,
         NEW mode \in CommModes,
         NEW r \in Requests \union {NoRequest},
         NEW x \in Answers(mode, r)
  PROVE  /\ Tame(card, x)
         /\ CountsAnswer(card, x)
         /\ \/ x.card.log = card.log
            \/ /\ HostMatches
               /\ r \in Requests
               /\ x.card.log = Entered(card, r)
               /\ x.card.sid # NoSid => x.card.ctr = card.ctr + 1
               /\ x.rsp.sw \in {"none", "ok"}
               /\ r \in Writes /\ x.rsp.sw = "ok" => x.rsp.mac # NoMac
         /\ Secured(mode) /\ x.rsp.sw = "ok" =>
              /\ HostMatches
              /\ r \in Requests => x.card.log = Entered(card, r)
         /\ x.rsp.mac # NoMac =>
              /\ Secured(mode)
              /\ x.rsp.sw = "ok"
              /\ x.rsp.mac = [sid |-> session.sid, ctr |-> session.cmd_counter + 1]
              /\ x.card.sid = card.sid
PROOF
<1> DEFINE apdu == BuildApdu(session, mode, r)
<1>1. session \in Session /\ card \in Card
  BY DEF TypeOK
<1>2. apdu \in Apdu /\ apdu.request = r /\ apdu.mode = mode
      /\ (Secured(mode) => apdu.mac = [sid |-> session.sid, ctr |-> session.cmd_counter])
  BY <1>1, BuiltApdu
<1> HIDE DEF apdu
<1>3. CASE ~CanBuild(session, mode)
  <2>1. x = Reply(card, NoResponse)
    BY <1>3 DEF Answers
  <2>2. QED
    BY <1>1, <2>1, ResponseShapes DEF Reply, Tame, CountsAnswer, Card
<1>4. CASE CanBuild(session, mode) /\ ~Secured(mode)
  <2>1. mode = "plain"
    BY <1>4 DEF Secured, CommModes
  <2>2. x \in Exchange(card, PlainReplies(card, "ok"))
    BY <1>4, <1>2, <2>1 DEF Answers, CardReplies, apdu
  <2>3. x \in Exchange(card, SelectReplies(card) \union PlainReplies(card, "ok"))
    BY <2>2 DEF Exchange
  <2>4. "ok" \in StatusWords
    BY DEF StatusWords
  <2>5. x \in Exchange(card, SelectReplies(card) \union PlainReplies(card, "ok")
                               \union FrameReplies(card, "ok"))
    BY <2>2 DEF Exchange
  <2>6. QED
    BY <1>1, <1>4, <2>3, <2>4, <2>5, PlainAnswer, PlainCounts
<1>5. CASE CanBuild(session, mode) /\ Secured(mode)
  <2>1. session.authenticated
    BY <1>5 DEF CanBuild
  <2>2. x \in Exchange(card, SecuredReplies(card, apdu))
    BY <1>2, <1>5 DEF Answers, CardReplies, apdu, Secured
  <2>3. Tame(card, x) /\ CountsAnswer(card, x) /\ SecuredEffect(card, apdu, x)
    BY <1>1, <1>2, <2>2, SecuredAnswer
  <2>4. Matches(card, apdu) =>
          /\ HostMatches
          /\ [sid |-> card.sid, ctr |-> card.ctr + 1]
               = [sid |-> session.sid, ctr |-> session.cmd_counter + 1]
    <3> SUFFICES ASSUME Matches(card, apdu)
                 PROVE  session.sid = card.sid /\ session.cmd_counter = card.ctr
                        /\ card.sid # NoSid
      BY <2>1 DEF HostMatches, InSession
    <3>1. [sid |-> session.sid, ctr |-> session.cmd_counter]
            = [sid |-> card.sid, ctr |-> card.ctr]
      BY <1>2, <1>5 DEF Matches
    <3>2. QED
      BY <3>1 DEF Matches
  <2>5. QED
    BY <1>2, <1>5, <2>3, <2>4 DEF SecuredEffect
<1>6. QED
  BY <1>3, <1>4, <1>5

LEMMA ProcessedSession ==
  ASSUME NEW s \in Session, NEW mode, NEW rsp
  PROVE  LET t == ProcessResponse(s, mode, rsp)
         IN /\ t \in Session
            /\ t.sid = s.sid
            /\ t.authenticated = s.authenticated
            /\ t.cmd_counter \in {s.cmd_counter, s.cmd_counter + 1}
            /\ rsp.sw = "none" => t = s
            /\ Decoded(s, mode, rsp) /\ s.authenticated
                 => t.cmd_counter = s.cmd_counter + 1
BY DEF Session, ProcessResponse, Decoded

---------------------------------------------------------------------------
(* How a step preserves the inductive invariant.                           *)

(* A step that is not told to the session: the tag answers, or drops its   *)
(* session, or is replaced; the host may close its session.                *)
LEMMA BypassStep ==
  ASSUME TypeOK, TypeOK', IInv,
         card'.log = card.log,
         card'.lastSid = card.lastSid,
         card'.sid \in {card.sid, NoSid},
         card'.sid # NoSid => card'.ctr \in {card.ctr, card.ctr + 1},
         session'.sid = session.sid,
         session'.authenticated => session' = session,
         acked' = acked
  PROVE  IInv'
PROOF
<1>1. /\ session \in Session /\ session' \in Session
      /\ card \in Card /\ card' \in Card
  BY DEF TypeOK
<1>2. InSession' => InSession /\ session' = session /\ card'.ctr >= card.ctr
  BY <1>1 DEF InSession, Session, Card
<1>3. SidsUsed'
  BY <1>1 DEF IInv, SidsUsed, Card, NoSid
<1>4. LogBehind'
  <2> SUFFICES ASSUME NEW e \in card.log, e.sid = card'.sid
               PROVE  e.ctr < card'.ctr
    BY DEF LogBehind
  <2>1. e \in LogEntry
    BY <1>1 DEF Card
  <2>2. CASE card'.sid = NoSid
    BY <2>2 DEF IInv, SidsUsed
  <2>3. CASE card'.sid # NoSid
    BY <1>1, <2>1, <2>3 DEF IInv, LogBehind, Card, LogEntry
  <2>4. QED
    BY <2>2, <2>3
<1>5. CounterNeverAhead'
  BY <1>1, <1>2 DEF IInv, CounterNeverAhead, Session, Card
<1>6. UnconfirmedBehind'
  BY <1>1, <1>2 DEF IInv, UnconfirmedBehind, Session, Card, InSession
<1>7. AtMostOnce' /\ AckedExecuted'
  BY DEF IInv, AtMostOnce, AckedExecuted
<1>8. QED
  BY <1>3, <1>4, <1>5, <1>6, <1>7 DEF IInv

(* An exchange of the session: the tag changes nothing, or it executes r   *)
(* because the host's session and counter match, and then the confirmation *)
(* is lost, or the session is over, or the change is noted as confirmed.   *)
LEMMA ExchangeStep ==
  ASSUME TypeOK, TypeOK', IInv,
         NEW mode \in CommModes,
         NEW r \in Requests \union {NoRequest},
         NEW x,
         SendApdu(mode, x),
         Tame(card, x),
         CountsAnswer(card, x),
         \/ x.card.log = card.log /\ acked' = acked
         \/ /\ HostMatches
            /\ r \in Requests
            /\ Unconfirmed(r)
            /\ x.card.log = Entered(card, r)
            /\ x.card.sid # NoSid => x.card.ctr = card.ctr + 1
            /\ \/ acked' = acked \union {[sid |-> session.sid, request |-> r]}
               \/ /\ acked' = acked
                  /\ x.rsp.sw = "none" \/ x.card.sid = NoSid
  PROVE  IInv'
PROOF
<1>1. /\ session \in Session /\ session' \in Session
      /\ card \in Card /\ card' \in Card
      /\ card' = x.card
  BY DEF TypeOK, SendApdu
<1>2. /\ session'.sid = session.sid
      /\ session'.authenticated = session.authenticated
      /\ session'.cmd_counter \in {session.cmd_counter, session.cmd_counter + 1}
      /\ x.rsp.sw = "none" => session' = session
  BY <1>1, ProcessedSession DEF SendApdu
<1>3. /\ card'.lastSid = card.lastSid
      /\ card'.sid \in {card.sid, NoSid}
      /\ card'.sid # NoSid => card'.ctr \in {card.ctr, card.ctr + 1}
      /\ x.rsp.sw # "none" /\ card'.sid # NoSid => card'.ctr = card.ctr + 1
  BY <1>1 DEF Tame, CountsAnswer
<1>4. InSession' => /\ InSession
                    /\ session'.cmd_counter - session.cmd_counter
                         <= card'.ctr - card.ctr
  BY <1>1, <1>2, <1>3 DEF InSession, Session, Card
<1>5. CounterNeverAhead'
  BY <1>1, <1>4 DEF IInv, CounterNeverAhead, Session, Card
<1>6. CASE x.card.log = card.log /\ acked' = acked
  <2>1. SidsUsed'
    BY <1>1, <1>2, <1>3, <1>6 DEF IInv, SidsUsed, Card, NoSid
  <2>2. LogBehind'
    <3> SUFFICES ASSUME NEW e \in card.log, e.sid = card'.sid
                 PROVE  e.ctr < card'.ctr
      BY <1>1, <1>6 DEF LogBehind
    <3>1. e \in LogEntry /\ e.sid # NoSid
      BY <1>1 DEF Card, IInv, SidsUsed
    <3>2. QED
      BY <1>1, <1>3, <3>1 DEF IInv, LogBehind, Card, LogEntry
  <2>3. UnconfirmedBehind'
    BY <1>1, <1>2, <1>3, <1>4, <1>6
       DEF IInv, UnconfirmedBehind, InSession, Session, Card
  <2>4. AtMostOnce' /\ AckedExecuted'
    BY <1>1, <1>6 DEF IInv, AtMostOnce, AckedExecuted
  <2>5. QED
    BY <1>5, <2>1, <2>2, <2>3, <2>4 DEF IInv
<1>7. CASE /\ HostMatches
           /\ r \in Requests
           /\ Unconfirmed(r)
           /\ x.card.log = Entered(card, r)
           /\ x.card.sid # NoSid => x.card.ctr = card.ctr + 1
           /\ \/ acked' = acked \union {[sid |-> session.sid, request |-> r]}
              \/ /\ acked' = acked
                 /\ x.rsp.sw = "none" \/ x.card.sid = NoSid
  <2> DEFINE new == [sid |-> card.sid, ctr |-> card.ctr, request |-> r]
             ack == [sid |-> session.sid, request |-> r]
  <2>1. /\ card'.log = card.log \union {new}
        /\ new.sid = card.sid /\ new.ctr = card.ctr /\ new.request = r
        /\ ack.sid = card.sid /\ ack.request = r
        /\ session.sid = card.sid /\ card.sid # NoSid
        /\ session.cmd_counter = card.ctr
        /\ InSession
    BY <1>1, <1>7 DEF Entered, HostMatches, InSession
  <2>2. \A e \in card.log : e \in LogEntry
    BY <1>1 DEF Card
  <2>3. acked \subseteq acked' /\ acked' \subseteq acked \union {ack}
    BY <1>7
  <2>4. ack \notin acked
    BY <1>7 DEF Unconfirmed
  <2>5. \A e \in card.log : e.sid = card.sid =>
          [sid |-> e.sid, request |-> e.request] \in acked
    BY <1>1, <2>1 DEF IInv, UnconfirmedBehind, Card
  <2> HIDE DEF new
  <2>6. SidsUsed'
    BY <1>1, <1>2, <1>3, <2>1, <2>3 DEF IInv, SidsUsed, Card, NoSid
  <2>7. LogBehind'
    <3> SUFFICES ASSUME NEW e \in card.log \union {new}, e.sid = card'.sid
                 PROVE  e.ctr < card'.ctr
      BY <2>1 DEF LogBehind
    <3>1. e.sid # NoSid
      BY <2>1 DEF IInv, SidsUsed
    <3>2. card'.sid = card.sid /\ card'.ctr \in {card.ctr, card.ctr + 1}
      BY <1>3, <3>1
    <3>3. CASE e \in card.log
      BY <1>1, <2>2, <3>2, <3>3 DEF IInv, LogBehind, Card, LogEntry
    <3>4. CASE e = new
      <4>1. card'.ctr = card.ctr + 1
        BY <1>1, <1>7, <2>1, <3>2
      <4>2. QED
        BY <1>1, <2>1, <3>4, <4>1 DEF Card
    <3>5. QED
      BY <3>3, <3>4
  <2>8. UnconfirmedBehind'
    <3>1. CASE acked' = acked \union {ack}
      BY <1>2, <2>1, <2>5, <3>1 DEF UnconfirmedBehind, InSession
    <3>2. CASE acked' = acked /\ x.rsp.sw = "none" /\ card'.sid # NoSid
      <4>1. session' = session /\ card'.ctr = card.ctr + 1
        BY <1>1, <1>2, <1>7, <3>2
      <4>2. session'.cmd_counter < card'.ctr
        BY <1>1, <2>1, <4>1 DEF Card
      <4>3. QED
        BY <4>2 DEF UnconfirmedBehind
    <3>3. CASE card'.sid = NoSid
      BY <3>3 DEF UnconfirmedBehind, InSession
    <3>4. QED
      BY <1>1, <1>7, <3>1, <3>2, <3>3
  <2>9. AtMostOnce'
    <3>1. \A e \in card.log : e.sid = card.sid => e.request # r
      BY <2>1, <2>4, <2>5
    <3>2. QED
      BY <2>1, <3>1 DEF IInv, AtMostOnce
  <2>10. AckedExecuted'
    BY <2>1, <2>3 DEF IInv, AckedExecuted
  <2>11. QED
    BY <1>5, <2>6, <2>7, <2>8, <2>9, <2>10 DEF IInv
<1>8. QED
  BY <1>6, <1>7

---------------------------------------------------------------------------
(* Type correctness.                                                       *)

Result == [op: Ops, request: Requests \union {NoRequest},
           ret: {0, 1, 2, 10}, verified: BOOLEAN]

LEMMA SentTypes ==
  ASSUME TypeOK, NEW mode, NEW x, Tame(card, x), SendApdu(mode, x)
  PROVE  /\ session' \in Session
         /\ card' \in Card
         /\ lapses' \subseteq {"lost", "bypassed"}
BY ProcessedSession DEF TypeOK, Tame, SendApdu, NoteLoss

LEMMA ReturnTypes ==
  ASSUME NEW mode, NEW x, NEW op \in Ops,
         NEW r \in Requests \union {NoRequest}
  PROVE  /\ StatusResult(mode, x) \in {0, 1, 2, 10}
         /\ LengthResult(mode, x) \in {0, 1, 2, 10}
         /\ Verified(mode, x) \in BOOLEAN
         /\ \A ret \in {0, 1, 2, 10}, v \in BOOLEAN :
              Return(op, r, ret, v) => last' \in Result
         /\ Nothing \in Result
PROOF
<1>1. StatusResult(mode, x) \in {0, 1, 2, 10}
  BY DEF StatusResult
<1>2. LengthResult(mode, x) \in {0, 1, 2, 10}
  BY DEF LengthResult, ResponseLength
<1>3. Verified(mode, x) \in BOOLEAN
  BY DEF Verified
<1>4. ASSUME NEW ret \in {0, 1, 2, 10}, NEW v \in BOOLEAN,
             Return(op, r, ret, v)
      PROVE  last' \in Result
  BY <1>4 DEF Return, Result
<1>5. Nothing \in Result
  BY DEF Nothing, Result, Ops
<1>6. QED
  BY <1>1, <1>2, <1>3, <1>4, <1>5

(* The tag after the two parts of an authentication.                       *)
LEMMA AuthAnswers ==
  ASSUME NEW c \in Card, NEW keyno \in KeyNos, NEW key \in Keys
  PROVE  /\ \A x \in Exchange(c, Auth1Replies(c, keyno)) :
              /\ x.card \in Card
              /\ x.card.sid \in {c.sid, NoSid}
              /\ x.card.sid # NoSid => x.card = c
              /\ x.card.log = c.log /\ x.card.lastSid = c.lastSid
         /\ \A x \in Exchange(c, Auth2Replies(c, key)) :
              /\ x.card \in Card
              /\ x.card.log = c.log
              /\ \/ /\ x.card.lastSid = c.lastSid
                    /\ x.rsp.sw # "ok"
                    /\ x.card = c \/ x.card.sid = NoSid
                 \/ /\ x.card.lastSid = c.lastSid + 1
                    /\ x.card.sid = c.lastSid + 1
                    /\ x.card.ctr = 0
PROOF
<1> DEFINE waiting == [LoggedOut(c) EXCEPT !.challenge = keyno]
           opened == [c EXCEPT !.sid = c.lastSid + 1, !.ctr = 0,
                               !.authKey = c.challenge, !.challenge = NoKeyNo,
                               !.lastSid = c.lastSid + 1]
<1>1. /\ waiting \in Card /\ waiting.sid = NoSid
      /\ waiting.log = c.log /\ waiting.lastSid = c.lastSid
  BY CardShapes DEF Card
<1>2. /\ opened \in Card /\ opened.sid = c.lastSid + 1 /\ opened.ctr = 0
      /\ opened.log = c.log /\ opened.lastSid = c.lastSid + 1
  <2> DEFINE n == c.lastSid + 1
  <2>1. n \in Nat
    BY DEF Card
  <2> HIDE DEF n
  <2>2. /\ [c EXCEPT !.sid = n, !.ctr = 0, !.authKey = c.challenge,
                     !.challenge = NoKeyNo, !.lastSid = n] \in Card
        /\ [c EXCEPT !.sid = n, !.ctr = 0, !.authKey = c.challenge,
                     !.challenge = NoKeyNo, !.lastSid = n].sid = n
        /\ [c EXCEPT !.sid = n, !.ctr = 0, !.authKey = c.challenge,
                     !.challenge = NoKeyNo, !.lastSid = n].ctr = 0
        /\ [c EXCEPT !.sid = n, !.ctr = 0, !.authKey = c.challenge,
                     !.challenge = NoKeyNo, !.lastSid = n].log = c.log
        /\ [c EXCEPT !.sid = n, !.ctr = 0, !.authKey = c.challenge,
                     !.challenge = NoKeyNo, !.lastSid = n].lastSid = n
    BY <2>1 DEF Card
  <2>3. QED
    BY <2>2 DEF n, opened
<1> HIDE DEF waiting, opened
<1>3. ASSUME NEW x \in Exchange(c, Auth1Replies(c, keyno))
      PROVE  x.card \in {c, waiting, LoggedOut(c)}
  BY DEF Exchange, Auth1Replies, Reply, waiting
<1>4. ASSUME NEW x \in Exchange(c, Auth2Replies(c, key))
      PROVE  \/ x.card = opened
             \/ x.card \in {c, LoggedOut(c)} /\ x.rsp.sw # "ok"
  BY DEF Exchange, Auth2Replies, Reply, Status, NoResponse, opened
<1>5. ASSUME NEW x \in Exchange(c, Auth1Replies(c, keyno))
      PROVE  /\ x.card \in Card
             /\ x.card.sid \in {c.sid, NoSid}
             /\ x.card.sid # NoSid => x.card = c
             /\ x.card.log = c.log /\ x.card.lastSid = c.lastSid
  BY <1>1, <1>3, CardShapes
<1>6. ASSUME NEW x \in Exchange(c, Auth2Replies(c, key))
      PROVE  /\ x.card \in Card
             /\ x.card.log = c.log
             /\ \/ /\ x.card.lastSid = c.lastSid
                   /\ x.rsp.sw # "ok"
                   /\ x.card = c \/ x.card.sid = NoSid
                \/ /\ x.card.lastSid = c.lastSid + 1
                   /\ x.card.sid = c.lastSid + 1
                   /\ x.card.ctr = 0
  BY <1>2, <1>4, CardShapes
<1>7. QED
  BY <1>5, <1>6

LEMMA InitType == Init => TypeOK
PROOF
<1> SUFFICES ASSUME Init PROVE TypeOK
  OBVIOUS
<1>1. session \in Session
  BY DEF Init, Session, NoSid
<1>2. card \in Card
  BY DEF Init, Card, FreshCard, NoSid, NoKeyNo
<1>3. last \in Result
  BY ReturnTypes DEF Init, Nothing, Result, Ops
<1>4. QED
  BY <1>1, <1>2, <1>3 DEF Init, TypeOK, Idle, Result

(* A step whose exchange is tame and whose results have their types.       *)
LEMMA StepType ==
  ASSUME TypeOK,
         NEW x, Tame(card, x), card' = x.card,
         session' \in Session,
         call' \in {Idle} \union AuthCall \union OtherCall,
         last' \in Result,
         acked' \subseteq [sid: Nat, request: Requests],
         lapses' \subseteq {"lost", "bypassed"}
  PROVE  TypeOK'
BY DEF TypeOK, Tame, Result

(* A call with one exchange of the session.                                *)
LEMMA CommandType ==
  ASSUME TypeOK,
         NEW mode, NEW x, Tame(card, x), SendApdu(mode, x),
         NEW op \in Ops, NEW r \in Requests \union {NoRequest},
         NEW ret \in {0, 1, 2, 10}, NEW v \in BOOLEAN, Return(op, r, ret, v),
         acked' \subseteq [sid: Nat, request: Requests],
         call' = call
  PROVE  TypeOK'
PROOF
<1>1. last' \in Result
  BY ReturnTypes
<1>2. /\ session' \in Session
      /\ lapses' \subseteq {"lost", "bypassed"}
      /\ card' = x.card
  BY SentTypes DEF SendApdu
<1>3. QED
  BY <1>1, <1>2, StepType DEF TypeOK

LEMMA ConfirmType ==
  ASSUME TypeOK, NEW r \in Requests, NEW done, Confirm(r, done)
  PROVE  acked' \subseteq [sid: Nat, request: Requests]
BY DEF TypeOK, Confirm, Session

(* Plain exchanges, in or outside the session.                             *)
LEMMA PlainTame ==
  ASSUME TypeOK,
         NEW x \in Exchange(card, SelectReplies(card))
              \union Exchange(card, PlainReplies(card, "ok"))
              \union Exchange(card, PlainReplies(card, "more"))
              \union Exchange(card, FrameReplies(card, "ok"))
              \union Exchange(card, FrameReplies(card, "more"))
  PROVE  Tame(card, x) /\ x.card.log = card.log
PROOF
<1>1. card \in Card /\ "ok" \in StatusWords /\ "more" \in StatusWords
  BY DEF TypeOK, StatusWords
<1>2. PICK sw \in {"ok", "more"} :
        x \in Exchange(card, SelectReplies(card) \union PlainReplies(card, sw)
                               \union FrameReplies(card, sw))
  BY DEF Exchange
<1>3. QED
  BY <1>1, <1>2, PlainAnswer

LEMMA NextType == TypeOK /\ [Next]_vars => TypeOK'
PROOF
<1> SUFFICES ASSUME TypeOK, [Next]_vars PROVE TypeOK'
  OBVIOUS
<1> DEFINE Calls == {Idle} \union AuthCall \union OtherCall
           Acks == [sid: Nat, request: Requests]
<1>1. /\ session \in Session /\ card \in Card /\ call \in Calls
      /\ last \in Result /\ acked \subseteq Acks
      /\ lapses \subseteq {"lost", "bypassed"}
  BY DEF TypeOK, Result
<1>2. /\ NoRequest \in Requests \union {NoRequest}
      /\ Writes \subseteq Requests /\ KeyChanges \subseteq Requests
      /\ {"plain", "full"} \subseteq CommModes
  BY DEF Requests, CommModes
<1>3. Nothing \in Result
  BY ReturnTypes DEF Ops
<1>4. ASSUME NEW w \in Writes, NEW mode \in CommModes, ChangeFileSettings(w, mode)
      PROVE  TypeOK'
  <2>1. PICK x \in Answers(mode, w) :
          /\ SendApdu(mode, x)
          /\ Return("ChangeFileSettings", w, LengthResult(mode, x), Verified(mode, x))
          /\ Confirm(w, LengthResult(mode, x) = 10)
    BY <1>4 DEF ChangeFileSettings
  <2>2. w \in Requests /\ "ChangeFileSettings" \in Ops /\ call' = call
    BY <1>2, <1>4 DEF Ops, ChangeFileSettings
  <2>3. Tame(card, x) /\ acked' \subseteq Acks
    BY <2>1, <2>2, AnswerFacts, ConfirmType
  <2>4. LengthResult(mode, x) \in {0, 1, 2, 10} /\ Verified(mode, x) \in BOOLEAN
    BY <2>2, ReturnTypes
  <2>5. QED
    BY <2>1, <2>2, <2>3, <2>4, CommandType
<1>5. ASSUME NEW k \in KeyChanges, ChangeKey(k)
      PROVE  TypeOK'
  <2>1. PICK x \in Answers("full", k) :
          /\ SendApdu("full", x)
          /\ Return("ChangeKey", k, StatusResult("full", x), Verified("full", x))
          /\ Confirm(k, StatusResult("full", x) = 1)
    BY <1>5 DEF ChangeKey
  <2>2. k \in Requests /\ "ChangeKey" \in Ops /\ call' = call
    BY <1>2, <1>5 DEF Ops, ChangeKey
  <2>3. Tame(card, x) /\ acked' \subseteq Acks
    BY <1>2, <2>1, <2>2, AnswerFacts, ConfirmType
  <2>4. StatusResult("full", x) \in {0, 1, 2, 10} /\ Verified("full", x) \in BOOLEAN
    BY <2>2, ReturnTypes
  <2>5. QED
    BY <2>1, <2>2, <2>3, <2>4, CommandType
<1>6. ASSUME NEW mode \in CommModes, GetFileSettings(mode)
      PROVE  TypeOK'
  <2>1. PICK x \in Answers(mode, NoRequest) :
          /\ SendApdu(mode, x)
          /\ Return("GetFileSettings", NoRequest, LengthResult(mode, x),
                    Verified(mode, x))
    BY <1>6 DEF GetFileSettings
  <2>2. "GetFileSettings" \in Ops /\ call' = call /\ acked' \subseteq Acks
    BY <1>1, <1>6 DEF Ops, GetFileSettings
  <2>3. /\ Tame(card, x)
        /\ LengthResult(mode, x) \in {0, 1, 2, 10} /\ Verified(mode, x) \in BOOLEAN
    BY <1>2, <2>1, <2>2, AnswerFacts, ReturnTypes
  <2>4. QED
    BY <1>2, <2>1, <2>2, <2>3, CommandType
<1>7. ASSUME ReadSimpleFullResponse
      PROVE  TypeOK'
  <2>1. PICK x \in Answers("full", NoRequest) :
          /\ SendApdu("full", x)
          /\ Return("ReadSimple", NoRequest, StatusResult("full", x),
                    Verified("full", x))
    BY <1>7 DEF ReadSimpleFullResponse
  <2>2. "ReadSimple" \in Ops /\ call' = call /\ acked' \subseteq Acks
    BY <1>1, <1>7 DEF Ops, ReadSimpleFullResponse
  <2>3. /\ Tame(card, x)
        /\ StatusResult("full", x) \in {0, 1, 2, 10} /\ Verified("full", x) \in BOOLEAN
    BY <1>2, <2>1, <2>2, AnswerFacts, ReturnTypes
  <2>4. QED
    BY <1>2, <2>1, <2>2, <2>3, CommandType
<1>8. ASSUME PlainCommand
      PROVE  TypeOK'
  <2>1. PICK x \in Answers("plain", NoRequest) :
          /\ SendApdu("plain", x)
          /\ Return("Plain", NoRequest, StatusResult("plain", x), FALSE)
    BY <1>8 DEF PlainCommand
  <2>2. "Plain" \in Ops /\ call' = call /\ acked' \subseteq Acks
    BY <1>1, <1>8 DEF Ops, PlainCommand
  <2>3. Tame(card, x) /\ StatusResult("plain", x) \in {0, 1, 2, 10}
    BY <1>2, <2>1, <2>2, AnswerFacts, ReturnTypes
  <2>4. QED
    BY <1>2, <2>1, <2>2, <2>3, CommandType
<1>9. ASSUME ReadData
      PROVE  TypeOK'
  <2>1. PICK x \in Exchange(card, PlainReplies(card, "ok")) :
          /\ card' = x.card
          /\ Return("ReadData", NoRequest, IF StatusOk(x.rsp) THEN 1 ELSE 0, FALSE)
          /\ lapses' = lapses \union
                       {IF x.rsp.sw = "none" THEN "lost" ELSE "bypassed"}
    BY <1>9 DEF ReadData
  <2>2. /\ "ReadData" \in Ops
        /\ (IF StatusOk(x.rsp) THEN 1 ELSE 0) \in {0, 1, 2, 10}
    BY DEF Ops
  <2>3. last' \in Result
    BY <1>2, <2>1, <2>2, ReturnTypes
  <2>4. Tame(card, x)
    BY PlainTame
  <2>5. /\ session' \in Session /\ call' \in Calls /\ acked' \subseteq Acks
        /\ lapses' \subseteq {"lost", "bypassed"}
    BY <1>1, <1>9, <2>1 DEF ReadData
  <2>6. QED
    BY <2>1, <2>3, <2>4, <2>5, StepType
<1>10. ASSUME ISOSelectFile
       PROVE  TypeOK'
  <2>1. PICK x \in Exchange(card, SelectReplies(card)) :
          /\ SendApdu("plain", x)
          /\ Return("ISOSelectFile", NoRequest, StatusResult("plain", x), FALSE)
    BY <1>10 DEF ISOSelectFile
  <2>2. "ISOSelectFile" \in Ops /\ call' = call /\ acked' \subseteq Acks
    BY <1>1, <1>10 DEF Ops, ISOSelectFile
  <2>3. Tame(card, x) /\ StatusResult("plain", x) \in {0, 1, 2, 10}
    BY <1>2, <2>2, PlainTame, ReturnTypes
  <2>4. QED
    BY <1>2, <2>1, <2>2, <2>3, CommandType
<1>11. ASSUME ISOSelectNDEFFile
       PROVE  TypeOK'
  <2>1. PICK x \in Exchange(card, SelectReplies(card)) :
          /\ SendApdu("plain", x)
          /\ call' = IF StatusResult("plain", x) = 1 THEN [step |-> "select_ef"]
                                                     ELSE Idle
    BY <1>11 DEF ISOSelectNDEFFile
  <2>2. call' \in Calls /\ last' \in Result /\ acked' \subseteq Acks
    BY <1>1, <1>3, <1>11, <2>1 DEF ISOSelectNDEFFile, OtherCall
  <2>3. /\ Tame(card, x) /\ card' = x.card
        /\ session' \in Session /\ lapses' \subseteq {"lost", "bypassed"}
    BY <2>1, PlainTame, SentTypes DEF SendApdu
  <2>4. QED
    BY <2>2, <2>3, StepType
<1>12. ASSUME ISOSelectNDEFFile2
       PROVE  TypeOK'
  <2>1. PICK x \in Exchange(card, SelectReplies(card)) :
          /\ SendApdu("plain", x)
          /\ Return("ISOSelectNDEFFile", NoRequest, StatusResult("plain", x), FALSE)
    BY <1>12 DEF ISOSelectNDEFFile2
  <2>2. "ISOSelectNDEFFile" \in Ops /\ StatusResult("plain", x) \in {0, 1, 2, 10}
    BY <1>2, ReturnTypes DEF Ops
  <2>3. call' \in Calls /\ last' \in Result /\ acked' \subseteq Acks
    BY <1>1, <1>2, <1>12, <2>1, <2>2, ReturnTypes DEF ISOSelectNDEFFile2
  <2>4. /\ Tame(card, x) /\ card' = x.card
        /\ session' \in Session /\ lapses' \subseteq {"lost", "bypassed"}
    BY <2>1, PlainTame, SentTypes DEF SendApdu
  <2>5. QED
    BY <2>3, <2>4, StepType
<1>13. ASSUME NEW replies \in {PlainReplies(card, "more"), FrameReplies(card, "more")},
              NEW next \in OtherCall, GetVersionFrame(replies, next)
       PROVE  TypeOK'
  <2>1. PICK x \in Exchange(card, replies) :
          /\ card' = x.card
          /\ call' = IF x.rsp.sw = "more" THEN next ELSE Idle
          /\ lapses' = lapses \union
                       {IF x.rsp.sw = "none" THEN "lost" ELSE "bypassed"}
    BY <1>13 DEF GetVersionFrame
  <2>2. Tame(card, x)
    BY PlainTame
  <2>3. /\ session' \in Session /\ call' \in Calls /\ acked' \subseteq Acks
        /\ lapses' \subseteq {"lost", "bypassed"} /\ last' \in Result
    BY <1>1, <1>3, <1>13, <2>1 DEF GetVersionFrame
  <2>4. QED
    BY <2>1, <2>2, <2>3, StepType
<1>14. ASSUME GetVersionFrame3
       PROVE  TypeOK'
  <2>1. PICK x \in Exchange(card, FrameReplies(card, "ok")), hwType \in BOOLEAN :
          /\ card' = x.card
          /\ session' = IF StatusOk(x.rsp) /\ hwType
                        THEN [session EXCEPT !.authenticated = FALSE,
                                             !.cmd_counter = 0]
                        ELSE session
          /\ lapses' = lapses \union
                       {IF x.rsp.sw = "none" THEN "lost" ELSE "bypassed"}
    BY <1>14 DEF GetVersionFrame3
  <2>2. Tame(card, x)
    BY PlainTame
  <2>3. session' \in Session
    BY <1>1, <2>1 DEF Session
  <2>4. /\ call' \in Calls /\ acked' \subseteq Acks
        /\ lapses' \subseteq {"lost", "bypassed"} /\ last' \in Result
    BY <1>1, <1>3, <1>14, <2>1 DEF GetVersionFrame3
  <2>5. QED
    BY <2>1, <2>2, <2>3, <2>4, StepType
<1>15. ASSUME NEW iso \in BOOLEAN, NEW keyno \in KeyNos, NEW key \in Keys,
              AuthStart(iso, keyno, key)
       PROVE  TypeOK'
  <2>1. PICK x \in Exchange(card, SelectReplies(card)) :
          /\ card' = x.card
          /\ call' = IF StatusOk(x.rsp)
                     THEN [step |-> "auth1", iso |-> iso, keyno |-> keyno,
                           key |-> key, delay_retry |-> 0]
                     ELSE Idle
          /\ lapses' = lapses \union
                       {IF x.rsp.sw = "none" THEN "lost" ELSE "bypassed"}
    BY <1>15 DEF AuthStart
  <2>2. [step |-> "auth1", iso |-> iso, keyno |-> keyno, key |-> key,
         delay_retry |-> 0] \in AuthCall
    BY BoundsAssumption DEF AuthCall
  <2>3. Tame(card, x)
    BY PlainTame
  <2>4. /\ session' \in Session /\ call' \in Calls /\ acked' \subseteq Acks
        /\ lapses' \subseteq {"lost", "bypassed"} /\ last' \in Result
    BY <1>1, <1>3, <1>15, <2>1, <2>2 DEF AuthStart
  <2>5. QED
    BY <2>1, <2>3, <2>4, StepType
<1>16. ASSUME AuthPart1
       PROVE  TypeOK'
  <2>1. PICK x \in Exchange(card, Auth1Replies(card, call.keyno)) :
          /\ card' = x.card
          /\ call' = CASE x.rsp.sw = "more"  -> [call EXCEPT !.step = "auth2"]
                       [] x.rsp.sw = "delay" -> NextAttempt(call)
                       [] OTHER              -> Idle
    BY <1>16 DEF AuthPart1
  <2>2. call \in AuthCall
    BY <1>1, <1>16 DEF AuthPart1, Idle, OtherCall
  <2>3. call.keyno \in KeyNos /\ call.key \in Keys
    BY <2>2 DEF AuthCall
  <2>4. card' \in Card
    BY <1>1, <2>1, <2>3, AuthAnswers
  <2>5. call' \in Calls
    <3>1. [call EXCEPT !.step = "auth2"] \in AuthCall
      BY <2>2 DEF AuthCall
    <3>2. NextAttempt(call) \in AuthCall \union {Idle}
      <4>1. call.delay_retry < AuthDelayMaxRetries
              => [call EXCEPT !.delay_retry = call.delay_retry + 1] \in AuthCall
        BY <2>2, BoundsAssumption DEF AuthCall
      <4>2. QED
        BY <4>1 DEF NextAttempt
    <3>3. QED
      BY <2>1, <3>1, <3>2
  <2>6. QED
    BY <1>1, <1>3, <1>16, <2>4, <2>5 DEF AuthPart1, TypeOK, Result
<1>17. ASSUME AuthPart2
       PROVE  TypeOK'
  <2>1. PICK x \in Exchange(card, Auth2Replies(card, call.key)) :
          /\ card' = x.card
          /\ session' = IF StatusOk(x.rsp) THEN NewSession(session, x.card.sid)
                                           ELSE session
          /\ lapses' = IF StatusOk(x.rsp) THEN {} ELSE lapses
          /\ Return("Authenticate", NoRequest, IF StatusOk(x.rsp) THEN 1 ELSE 0, FALSE)
    BY <1>17 DEF AuthPart2
  <2>2. call \in AuthCall
    BY <1>1, <1>17 DEF AuthPart2, Idle, OtherCall
  <2>3. call.keyno \in KeyNos /\ call.key \in Keys
    BY <2>2 DEF AuthCall
  <2>4. card' \in Card
    BY <1>1, <2>1, <2>3, AuthAnswers
  <2>5. session' \in Session
    BY <1>1, <2>1, <2>4 DEF NewSession, Session, Card
  <2>6. last' \in Result
    <3>1. /\ "Authenticate" \in Ops
          /\ (IF StatusOk(x.rsp) THEN 1 ELSE 0) \in {0, 1, 2, 10}
      BY DEF Ops
    <3>2. QED
      BY <1>2, <2>1, <3>1, ReturnTypes
  <2>7. QED
    BY <1>1, <1>17, <2>1, <2>4, <2>5, <2>6 DEF AuthPart2, TypeOK, Result
<1>18. ASSUME NewTag
       PROVE  TypeOK'
  <2>1. PICK keys \in [KeyNos -> Keys] :
          card' = [LoggedOut(card) EXCEPT !.keys = keys]
    BY <1>18 DEF NewTag
  <2>2. card' \in Card
    BY <1>1, <2>1, CardShapes DEF Card
  <2>3. QED
    BY <1>1, <1>3, <1>18, <2>2 DEF NewTag, TypeOK, Result
<1>19. CASE UNCHANGED vars
  BY <1>1, <1>19 DEF vars, TypeOK, Result
<1>20. IsNTAG424 \/ GetVersionFrame2 => TypeOK'
  BY <1>13 DEF IsNTAG424, GetVersionFrame2, OtherCall
<1>21. QED
  BY <1>4, <1>5, <1>6, <1>7, <1>8, <1>9, <1>10, <1>11, <1>12, <1>14, <1>15,
     <1>16, <1>17, <1>18, <1>19, <1>20 DEF Next, LibraryStep

(* Every variable keeps its type, for all values of the constants: in      *)
(* particular the 91 AD loop never counts past AuthDelayMaxRetries.        *)
THEOREM TypeCorrect == Spec => []TypeOK
PROOF
<1>1. Init => TypeOK
  BY InitType
<1>2. TypeOK /\ [Next]_vars => TypeOK'
  BY NextType
<1>3. QED
  BY <1>1, <1>2, PTL DEF Spec
---------------------------------------------------------------------------
(* The inductive invariant.                                                *)

LEMMA InitInv == Init => IInv
PROOF
<1> SUFFICES ASSUME Init PROVE IInv
  OBVIOUS
<1>1. /\ card.log = {} /\ card.sid = 0 /\ card.lastSid = 0
      /\ ~session.authenticated /\ session.sid = 0 /\ acked = {}
  BY DEF Init, FreshCard, NoSid
<1>2. ~InSession
  BY <1>1 DEF InSession
<1>3. SidsUsed /\ LogBehind /\ AtMostOnce /\ AckedExecuted
  BY <1>1 DEF SidsUsed, LogBehind, AtMostOnce, AckedExecuted
<1>4. CounterNeverAhead /\ UnconfirmedBehind
  BY <1>2 DEF CounterNeverAhead, UnconfirmedBehind
<1>5. QED
  BY <1>3, <1>4 DEF IInv

(* A Plain APDU carries no MAC, so the tag makes no change for it.         *)
LEMMA PlainChangesNothing ==
  ASSUME TypeOK, NEW r, NEW x \in Answers("plain", r)
  PROVE  x.card.log = card.log
PROOF
<1>1. BuildApdu(session, "plain", r).mode = "plain"
  BY DEF BuildApdu
<1>2. x \in Exchange(card, PlainReplies(card, "ok")) \/ x = Reply(card, NoResponse)
  BY <1>1 DEF Answers, CardReplies
<1>3. x \in Exchange(card, PlainReplies(card, "ok"))
  BY <1>2 DEF Exchange
<1>4. QED
  BY <1>3, PlainTame

(* A Plain exchange of the session.                                        *)
LEMMA SelectStep ==
  ASSUME TypeOK, TypeOK', IInv,
         NEW x \in Exchange(card, SelectReplies(card)),
         SendApdu("plain", x), acked' = acked
  PROVE  IInv'
PROOF
<1>1. card \in Card /\ "ok" \in StatusWords /\ "plain" \in CommModes
      /\ NoRequest \in Requests \union {NoRequest}
  BY DEF TypeOK, StatusWords, CommModes
<1>2. x \in Exchange(card, SelectReplies(card) \union PlainReplies(card, "ok"))
  BY DEF Exchange
<1>3. CountsAnswer(card, x)
  BY <1>1, <1>2, PlainCounts
<1>4. Tame(card, x) /\ x.card.log = card.log
  BY PlainTame
<1>5. QED
  BY <1>1, <1>3, <1>4, ExchangeStep

(* A command of the session that changes nothing on the tag.               *)
LEMMA QueryStep ==
  ASSUME TypeOK, TypeOK', IInv,
         NEW mode \in CommModes,
         NEW x \in Answers(mode, NoRequest),
         SendApdu(mode, x), acked' = acked
  PROVE  IInv'
PROOF
<1>1. NoRequest \in Requests \union {NoRequest} /\ NoRequest \notin Requests
  BY RequestsAssumption DEF Requests
<1>2. Tame(card, x) /\ CountsAnswer(card, x) /\ x.card.log = card.log
  BY <1>1, AnswerFacts
<1>3. QED
  BY <1>1, <1>2, ExchangeStep

(* An exchange the session is not told about.                              *)
LEMMA UntoldStep ==
  ASSUME TypeOK, TypeOK', IInv,
         NEW x, Tame(card, x), x.card.log = card.log, card' = x.card,
         session'.sid = session.sid,
         session'.authenticated => session' = session,
         acked' = acked
  PROVE  IInv'
BY BypassStep DEF Tame

(* A change: executed and confirmed in the same exchange, or executed with *)
(* the confirmation lost or the session ended, or not executed.            *)
LEMMA ChangeStep ==
  ASSUME TypeOK, TypeOK', IInv,
         NEW mode \in CommModes,
         NEW r \in Requests,
         NEW x \in Answers(mode, r),
         NEW done \in BOOLEAN,
         Unconfirmed(r),
         SendApdu(mode, x),
         Confirm(r, done),
         done => Secured(mode) /\ x.rsp.sw = "ok",
         Secured(mode) /\ x.rsp.sw = "ok" =>
           \/ done
           \/ r \in Writes /\ x.rsp.mac = NoMac
  PROVE  IInv'
PROOF
<1>1. r \in Requests \union {NoRequest}
  OBVIOUS
<1>2. /\ Tame(card, x) /\ CountsAnswer(card, x)
      /\ \/ x.card.log = card.log
         \/ /\ HostMatches
            /\ x.card.log = Entered(card, r)
            /\ x.card.sid # NoSid => x.card.ctr = card.ctr + 1
            /\ x.rsp.sw \in {"none", "ok"}
            /\ r \in Writes /\ x.rsp.sw = "ok" => x.rsp.mac # NoMac
      /\ Secured(mode) /\ x.rsp.sw = "ok" =>
           HostMatches /\ x.card.log = Entered(card, r)
  BY <1>1, AnswerFacts
<1>3. CASE done
  <2>1. acked' = acked \union {[sid |-> session.sid, request |-> r]}
    BY <1>3 DEF Confirm
  <2>2. /\ HostMatches /\ x.card.log = Entered(card, r)
        /\ x.card.log # card.log
        /\ x.card.sid # NoSid => x.card.ctr = card.ctr + 1
    <3>1. HostMatches /\ x.card.log = Entered(card, r)
      BY <1>2, <1>3
    <3>2. [sid |-> card.sid, ctr |-> card.ctr, request |-> r] \notin card.log
      BY DEF IInv, LogBehind, TypeOK, Card
    <3>3. QED
      BY <1>2, <3>1, <3>2 DEF Entered
  <2>3. QED
    BY <1>1, <1>2, <2>1, <2>2, ExchangeStep
<1>4. CASE ~done
  <2>1. acked' = acked
    BY <1>4 DEF Confirm
  <2>2. CASE x.card.log = card.log
    BY <1>1, <1>2, <2>1, <2>2, ExchangeStep
  <2>3. CASE x.card.log # card.log
    <3>1. x.rsp.sw = "none"
      <4>1. mode = "plain" => x.card.log = card.log
        BY <1>1, PlainChangesNothing
      <4>2. Secured(mode)
        BY <2>3, <4>1 DEF CommModes, Secured
      <4>3. QED
        BY <1>2, <1>4, <2>3, <4>2
    <3>2. QED
      BY <1>1, <1>2, <2>1, <2>3, <3>1, ExchangeStep
  <2>4. QED
    BY <2>2, <2>3
<1>5. QED
  BY <1>3, <1>4
(* The second part of an authentication opens a session no entry of the    *)
(* log belongs to, and sets the host's counter to the tag's, zero.         *)
LEMMA AuthenticatedStep ==
  ASSUME TypeOK, TypeOK', IInv,
         card'.log = card.log,
         card'.sid = card.lastSid + 1,
         card'.lastSid = card.lastSid + 1,
         card'.ctr = 0,
         \/ session' = session
         \/ session' = NewSession(session, card'.sid),
         acked' = acked
  PROVE  IInv'
PROOF
<1>1. /\ session \in Session /\ session' \in Session
      /\ card \in Card /\ card' \in Card
      /\ acked \subseteq [sid: Nat, request: Requests]
  BY DEF TypeOK
<1>2. \A e \in card.log : e \in LogEntry /\ e.sid # card'.sid
  BY <1>1 DEF IInv, SidsUsed, Card, LogEntry
<1>3. SidsUsed'
  <2>1. session'.sid <= card'.lastSid
    <3>1. session'.sid \in {session.sid, card'.sid}
      BY <1>1 DEF NewSession, Session
    <3>2. session.sid <= card.lastSid /\ session.sid \in Nat /\ card.lastSid \in Nat
      BY <1>1 DEF IInv, SidsUsed, Session, Card
    <3>3. QED
      BY <3>1, <3>2
  <2>2. \A e \in card.log : e.sid # NoSid /\ e.sid <= card'.lastSid
    BY <1>1, <1>2 DEF IInv, SidsUsed, Card, LogEntry
  <2>3. \A a \in acked : a.sid <= card'.lastSid
    BY <1>1 DEF IInv, SidsUsed, Card
  <2>4. QED
    BY <1>1, <2>1, <2>2, <2>3 DEF SidsUsed, Card
<1>4. LogBehind' /\ UnconfirmedBehind'
  BY <1>2 DEF LogBehind, UnconfirmedBehind
<1>5. CounterNeverAhead'
  <2>1. CASE session' = session
    BY <1>1, <2>1 DEF IInv, SidsUsed, CounterNeverAhead, InSession, Session, Card
  <2>2. CASE session' = NewSession(session, card'.sid)
    BY <1>1, <2>2 DEF CounterNeverAhead, NewSession, Session
  <2>3. QED
    BY <2>1, <2>2
<1>6. AtMostOnce' /\ AckedExecuted'
  BY DEF IInv, AtMostOnce, AckedExecuted
<1>7. QED
  BY <1>3, <1>4, <1>5, <1>6 DEF IInv

LEMMA NextInv == TypeOK /\ IInv /\ [Next]_vars => IInv'
PROOF
<1> SUFFICES ASSUME TypeOK, IInv, [Next]_vars PROVE IInv'
  OBVIOUS
<1>1. TypeOK'
  BY NextType
<1>2. /\ session \in Session /\ card \in Card
      /\ Writes \subseteq Requests /\ KeyChanges \subseteq Requests
      /\ {"plain", "full"} \subseteq CommModes
  BY DEF TypeOK, Requests, CommModes
<1>3. ASSUME NEW w \in Writes, NEW mode \in CommModes, ChangeFileSettings(w, mode)
      PROVE  IInv'
  <2>1. PICK x \in Answers(mode, w) :
          SendApdu(mode, x) /\ Confirm(w, LengthResult(mode, x) = 10)
    BY <1>3 DEF ChangeFileSettings
  <2>2. Unconfirmed(w) /\ w \in Requests /\ w \in Requests \union {NoRequest}
    BY <1>2, <1>3 DEF ChangeFileSettings
  <2>3. x.rsp.mac # NoMac =>
          /\ Secured(mode) /\ x.rsp.sw = "ok"
          /\ x.rsp.mac = [sid |-> session.sid, ctr |-> session.cmd_counter + 1]
    BY <2>2, AnswerFacts
  <2>4. LengthResult(mode, x) = 10 <=> x.rsp.mac # NoMac
    BY <2>3 DEF LengthResult, ResponseLength, Decoded, MacMatches
  <2>5. QED
    BY <1>1, <2>1, <2>2, <2>3, <2>4, ChangeStep
<1>4. ASSUME NEW k \in KeyChanges, ChangeKey(k)
      PROVE  IInv'
  <2>1. PICK x \in Answers("full", k) :
          SendApdu("full", x) /\ Confirm(k, StatusResult("full", x) = 1)
    BY <1>4 DEF ChangeKey
  <2>2. /\ Unconfirmed(k) /\ k \in Requests /\ k \in Requests \union {NoRequest}
        /\ "full" \in CommModes /\ Secured("full")
    BY <1>2, <1>4 DEF ChangeKey, Secured
  <2>3. x.rsp.mac # NoMac =>
          x.rsp.mac = [sid |-> session.sid, ctr |-> session.cmd_counter + 1]
    BY <2>2, AnswerFacts
  <2>4. StatusResult("full", x) = 1 <=> x.rsp.sw = "ok"
    BY <2>3 DEF StatusResult, StatusOk, Decoded, MacMatches
  <2>5. QED
    BY <1>1, <2>1, <2>2, <2>4, ChangeStep
<1>5. ASSUME NEW mode \in CommModes, GetFileSettings(mode)
      PROVE  IInv'
  BY <1>1, <1>5, QueryStep DEF GetFileSettings
<1>6. ASSUME ReadSimpleFullResponse
      PROVE  IInv'
  BY <1>1, <1>2, <1>6, QueryStep DEF ReadSimpleFullResponse
<1>7. ASSUME PlainCommand
      PROVE  IInv'
  BY <1>1, <1>2, <1>7, QueryStep DEF PlainCommand
<1>8. ASSUME ReadData
      PROVE  IInv'
  <2>1. PICK x \in Exchange(card, PlainReplies(card, "ok")) : card' = x.card
    BY <1>8 DEF ReadData
  <2>2. QED
    BY <1>1, <1>8, <2>1, PlainTame, UntoldStep DEF ReadData
<1>9. ASSUME ISOSelectFile \/ ISOSelectNDEFFile \/ ISOSelectNDEFFile2
      PROVE  IInv'
  <2>1. PICK x \in Exchange(card, SelectReplies(card)) : SendApdu("plain", x)
    BY <1>9 DEF ISOSelectFile, ISOSelectNDEFFile, ISOSelectNDEFFile2
  <2>2. acked' = acked
    BY <1>9 DEF ISOSelectFile, ISOSelectNDEFFile, ISOSelectNDEFFile2
  <2>3. QED
    BY <1>1, <2>1, <2>2, SelectStep
<1>10. ASSUME NEW replies \in {PlainReplies(card, "more"), FrameReplies(card, "more")},
              NEW next, GetVersionFrame(replies, next)
       PROVE  IInv'
  <2>1. PICK x \in Exchange(card, replies) : card' = x.card
    BY <1>10 DEF GetVersionFrame
  <2>2. session' = session /\ acked' = acked
    BY <1>10 DEF GetVersionFrame
  <2>3. Tame(card, x) /\ x.card.log = card.log
    BY PlainTame
  <2>4. QED
    BY <1>1, <2>1, <2>2, <2>3, UntoldStep
<1>11. ASSUME GetVersionFrame3
       PROVE  IInv'
  <2>1. PICK x \in Exchange(card, FrameReplies(card, "ok")), hwType \in BOOLEAN :
          /\ card' = x.card
          /\ session' = IF StatusOk(x.rsp) /\ hwType
                        THEN [session EXCEPT !.authenticated = FALSE,
                                             !.cmd_counter = 0]
                        ELSE session
    BY <1>11 DEF GetVersionFrame3
  <2>2. session'.sid = session.sid /\ (session'.authenticated => session' = session)
    BY <1>2, <2>1 DEF Session
  <2>3. Tame(card, x) /\ x.card.log = card.log
    BY PlainTame
  <2>4. acked' = acked
    BY <1>11 DEF GetVersionFrame3
  <2>5. QED
    BY <1>1, <2>1, <2>2, <2>3, <2>4, UntoldStep
<1>12. ASSUME NEW iso \in BOOLEAN, NEW keyno \in KeyNos, NEW key \in Keys,
              AuthStart(iso, keyno, key)
       PROVE  IInv'
  <2>1. PICK x \in Exchange(card, SelectReplies(card)) : card' = x.card
    BY <1>12 DEF AuthStart
  <2>2. session' = session /\ acked' = acked
    BY <1>12 DEF AuthStart
  <2>3. QED
    BY <1>1, <2>1, <2>2, PlainTame, UntoldStep
<1>13. ASSUME AuthPart1
       PROVE  IInv'
  <2>1. call \in AuthCall
    BY <1>13 DEF TypeOK, AuthPart1, Idle, OtherCall
  <2>2. call.keyno \in KeyNos /\ call.key \in Keys
    BY <2>1 DEF AuthCall
  <2>3. PICK x \in Exchange(card, Auth1Replies(card, call.keyno)) : card' = x.card
    BY <1>13 DEF AuthPart1
  <2>4. /\ card'.sid \in {card.sid, NoSid}
        /\ card'.sid # NoSid => card' = card
        /\ card'.log = card.log /\ card'.lastSid = card.lastSid
    BY <1>2, <2>2, <2>3, AuthAnswers
  <2>5. session' = session /\ acked' = acked
    BY <1>13 DEF AuthPart1
  <2>6. QED
    BY <1>1, <2>4, <2>5, BypassStep
<1>14. ASSUME AuthPart2
       PROVE  IInv'
  <2>1. call \in AuthCall
    BY <1>14 DEF TypeOK, AuthPart2, Idle, OtherCall
  <2>2. call.keyno \in KeyNos /\ call.key \in Keys
    BY <2>1 DEF AuthCall
  <2>3. PICK x \in Exchange(card, Auth2Replies(card, call.key)) :
          /\ card' = x.card
          /\ session' = IF StatusOk(x.rsp) THEN NewSession(session, x.card.sid)
                                           ELSE session
    BY <1>14 DEF AuthPart2
  <2>4. /\ card'.log = card.log
        /\ \/ /\ card'.lastSid = card.lastSid
              /\ x.rsp.sw # "ok"
              /\ card' = card \/ card'.sid = NoSid
           \/ /\ card'.lastSid = card.lastSid + 1
              /\ card'.sid = card.lastSid + 1
              /\ card'.ctr = 0
    BY <1>2, <2>2, <2>3, AuthAnswers
  <2>5. acked' = acked
    BY <1>14 DEF AuthPart2
  <2>6. CASE /\ card'.lastSid = card.lastSid
             /\ x.rsp.sw # "ok"
             /\ card' = card \/ card'.sid = NoSid
    <3>1. session' = session
      BY <2>3, <2>6 DEF StatusOk
    <3>2. QED
      BY <1>1, <2>4, <2>5, <2>6, <3>1, BypassStep
  <2>7. CASE /\ card'.lastSid = card.lastSid + 1
             /\ card'.sid = card.lastSid + 1
             /\ card'.ctr = 0
    <3>1. session' = session \/ session' = NewSession(session, card'.sid)
      BY <2>3
    <3>2. QED
      BY <1>1, <2>4, <2>5, <2>7, <3>1, AuthenticatedStep
  <2>8. QED
    BY <2>4, <2>6, <2>7
<1>15. ASSUME NewTag
       PROVE  IInv'
  <2>1. PICK keys \in [KeyNos -> Keys] :
          card' = [LoggedOut(card) EXCEPT !.keys = keys]
    BY <1>15 DEF NewTag
  <2>2. /\ card'.sid = NoSid /\ card'.log = card.log
        /\ card'.lastSid = card.lastSid
    BY <1>2, <2>1, CardShapes DEF Card
  <2>3. session' = session /\ acked' = acked
    BY <1>15 DEF NewTag
  <2>4. QED
    BY <1>1, <2>2, <2>3, BypassStep
<1>16. CASE UNCHANGED vars
  BY <1>16 DEF vars, IInv, SidsUsed, LogBehind, CounterNeverAhead,
               UnconfirmedBehind, AtMostOnce, AckedExecuted, InSession
<1>17. IsNTAG424 \/ GetVersionFrame2 => IInv'
  BY <1>10 DEF IsNTAG424, GetVersionFrame2
<1>18. QED
  BY <1>3, <1>4, <1>5, <1>6, <1>7, <1>8, <1>9, <1>11, <1>12, <1>13, <1>14,
     <1>15, <1>16, <1>17 DEF Next, LibraryStep

(* The strengthened invariant holds in every reachable state.              *)
THEOREM Inductive == Spec => []IInv
PROOF
<1>1. Init => TypeOK /\ IInv
  BY InitType, InitInv
<1>2. TypeOK /\ IInv /\ [Next]_vars => (TypeOK /\ IInv)'
  BY NextType, NextInv
<1>3. QED
  BY <1>1, <1>2, PTL DEF Spec

(* No change is executed twice in one session, however often it is         *)
(* repeated after a lost response (ntag424_send_apdu and the counter in    *)
(* ntag424_build_apdu), for any number of sessions, keys and commands.     *)
THEOREM ExecutedOnce == Spec => []AtMostOnce
PROOF
<1>1. IInv => AtMostOnce
  BY DEF IInv
<1>2. QED
  BY <1>1, Inductive, PTL

(* The host's counter never overtakes the tag's.                           *)
THEOREM NeverAhead == Spec => []CounterNeverAhead
PROOF
<1>1. IInv => CounterNeverAhead
  BY DEF IInv
<1>2. QED
  BY <1>1, Inductive, PTL

(* A success reported to the application is backed by an execution.        *)
THEOREM ConfirmedMeansExecuted == Spec => []AckedExecuted
PROOF
<1>1. IInv => AckedExecuted
  BY DEF IInv
<1>2. QED
  BY <1>1, Inductive, PTL

---------------------------------------------------------------------------
(* What a command of the session tells its caller, and the counters.       *)

SyncInv == VerifiedInSync /\ CountersAgree /\ ChangeKeyTruthful

(* A step that returns no result of a secured command.                     *)
LEMMA QuietStep ==
  ASSUME ~last'.verified, last'.op # "ChangeKey", CountersAgree'
  PROVE  SyncInv'
BY DEF SyncInv, VerifiedInSync, ChangeKeyTruthful

(* An answer that arrives advances both counters, or ends the session.     *)
LEMMA CountersAgreeStep ==
  ASSUME TypeOK, TypeOK', CountersAgree, NEW mode, NEW x, SendApdu(mode, x),
         Tame(card, x), CountsAnswer(card, x), MacMatches(session, mode, x.rsp)
  PROVE  CountersAgree'
PROOF
<1> SUFFICES ASSUME InSession', lapses' = {}
             PROVE  session'.cmd_counter = card'.ctr
  BY DEF CountersAgree
<1>1. session \in Session /\ card \in Card /\ card' = x.card
  BY DEF TypeOK, SendApdu
<1>2. x.rsp.sw # "none" /\ lapses = {}
  BY DEF SendApdu, NoteLoss
<1>3. /\ session'.sid = session.sid /\ session'.authenticated = session.authenticated
      /\ session.authenticated => session'.cmd_counter = session.cmd_counter + 1
  BY <1>1, <1>2, ProcessedSession DEF SendApdu, Decoded
<1>4. card'.sid = card.sid /\ card'.ctr = card.ctr + 1
  BY <1>1, <1>2 DEF Tame, CountsAnswer, InSession
<1>5. InSession
  BY <1>3, <1>4 DEF InSession
<1>6. QED
  BY <1>2, <1>3, <1>4, <1>5 DEF CountersAgree, InSession

LEMMA CommandSync ==
  ASSUME TypeOK, TypeOK', CountersAgree, NEW mode \in CommModes,
         NEW r \in Requests \union {NoRequest}, NEW x \in Answers(mode, r), SendApdu(mode, x)
  PROVE  /\ CountersAgree'
         /\ Verified(mode, x) => InSession' /\ session'.cmd_counter = card'.ctr
PROOF
<1>1. /\ Tame(card, x) /\ CountsAnswer(card, x)
      /\ Secured(mode) /\ x.rsp.sw = "ok" => HostMatches
      /\ x.rsp.mac # NoMac =>
           /\ Secured(mode) /\ x.rsp.sw = "ok" /\ x.card.sid = card.sid
           /\ x.rsp.mac = [sid |-> session.sid, ctr |-> session.cmd_counter + 1]
  BY AnswerFacts
<1>2. MacMatches(session, mode, x.rsp)
  BY <1>1 DEF MacMatches
<1>3. CountersAgree'
  BY <1>1, <1>2, CountersAgreeStep
<1>4. ASSUME Verified(mode, x)
      PROVE  InSession' /\ session'.cmd_counter = card'.ctr
  <2>1. /\ HostMatches /\ Decoded(session, mode, x.rsp)
        /\ x.rsp.sw = "ok" /\ x.card.sid = card.sid
    BY <1>1, <1>4 DEF Verified
  <2>2. session \in Session /\ card' = x.card
    BY DEF TypeOK, SendApdu
  <2>3. /\ session'.sid = session.sid /\ session'.authenticated = session.authenticated
        /\ session.authenticated => session'.cmd_counter = session.cmd_counter + 1
    BY <2>1, <2>2, ProcessedSession DEF SendApdu
  <2>4. card'.sid = card.sid /\ card.sid # NoSid
    BY <2>1, <2>2 DEF HostMatches, InSession
  <2>5. card'.ctr = card.ctr + 1
    BY <1>1, <2>1, <2>2, <2>4 DEF CountsAnswer
  <2>6. QED
    BY <2>1, <2>3, <2>4, <2>5 DEF HostMatches, InSession
<1>5. QED
  BY <1>3, <1>4

LEMMA SelectSync ==
  ASSUME TypeOK, TypeOK', CountersAgree, NEW x \in Exchange(card, SelectReplies(card)),
         SendApdu("plain", x)
  PROVE  CountersAgree'
PROOF
<1>1. card \in Card /\ "ok" \in StatusWords
  BY DEF TypeOK, StatusWords
<1>2. x \in Exchange(card, SelectReplies(card) \union PlainReplies(card, "ok"))
  BY DEF Exchange
<1>3. Tame(card, x) /\ CountsAnswer(card, x)
  BY <1>1, <1>2, PlainCounts, PlainTame
<1>4. QED
  BY <1>3, CountersAgreeStep DEF MacMatches, Secured

(* A command that is not a change of keys.                                 *)
LEMMA ReturnSync ==
  ASSUME TypeOK, TypeOK', SyncInv, NEW mode \in CommModes,
         NEW r \in Requests \union {NoRequest}, NEW x \in Answers(mode, r), SendApdu(mode, x),
         NEW op, op # "ChangeKey", NEW ret, NEW verified,
         verified => Verified(mode, x), Return(op, r, ret, verified)
  PROVE  SyncInv'
PROOF
<1>1. /\ CountersAgree'
      /\ Verified(mode, x) => InSession' /\ session'.cmd_counter = card'.ctr
  BY CommandSync DEF SyncInv
<1>2. last'.op = op /\ last'.verified = verified
  BY DEF Return
<1>3. VerifiedInSync'
  BY <1>1, <1>2 DEF VerifiedInSync
<1>4. QED
  BY <1>1, <1>2, <1>3 DEF SyncInv, ChangeKeyTruthful

(* The tag holds the key when it answers a change with success.            *)
LEMMA KeyIsChanged ==
  ASSUME NEW c \in Card, NEW apdu \in Apdu, apdu.request \in KeyChanges,
         NEW x \in Exchange(c, SecuredReplies(c, apdu)), x.rsp.sw = "ok"
  PROVE  x.card.keys[apdu.request.keynumber] = apdu.request.newkey
PROOF
<1> DEFINE k == apdu.request
           changed == [Logged(c, k) EXCEPT !.keys[k.keynumber] = k.newkey]
<1>1. "error" \in StatusWords
  BY DEF StatusWords
<1>2. Status("error").sw # "ok" /\ NoResponse.sw # "ok"
  BY <1>1, ResponseShapes
<1>3. x \in SecuredReplies(c, apdu)
  BY <1>2 DEF Exchange, Reply
<1>4. x \in ChangeKeyReplies(c, k)
  BY <1>2, <1>3 DEF SecuredReplies, Reply
<1>5. x.card \in {LoggedOut(changed), changed}
  BY <1>2, <1>4 DEF ChangeKeyReplies, Reply
<1>6. changed \in Card /\ changed.keys[k.keynumber] = k.newkey
  BY ChangedShapes
<1> HIDE DEF changed
<1>7. QED
  BY <1>5, <1>6, CardShapes

LEMMA ChangeKeySync ==
  ASSUME TypeOK, TypeOK', SyncInv, NEW k \in KeyChanges, ChangeKey(k)
  PROVE  SyncInv'
PROOF
<1>1. PICK x \in Answers("full", k) :
        /\ SendApdu("full", x)
        /\ Return("ChangeKey", k, StatusResult("full", x), Verified("full", x))
  BY DEF ChangeKey
<1>2. /\ "full" \in CommModes /\ k \in Requests \union {NoRequest} /\ Secured("full")
      /\ session \in Session /\ card \in Card /\ card' = x.card
  BY <1>1 DEF CommModes, Requests, Secured, TypeOK, SendApdu
<1>3. /\ CountersAgree'
      /\ Verified("full", x) => InSession' /\ session'.cmd_counter = card'.ctr
  BY <1>1, <1>2, CommandSync DEF SyncInv
<1>4. /\ last'.request = k /\ last'.ret = StatusResult("full", x)
      /\ last'.verified = Verified("full", x)
  BY <1>1 DEF Return
<1>5. VerifiedInSync'
  BY <1>3, <1>4 DEF VerifiedInSync
<1>6. ChangeKeyTruthful'
  <2> SUFFICES ASSUME StatusResult("full", x) = 1
               PROVE  card'.keys[k.keynumber] = k.newkey
    BY <1>4 DEF ChangeKeyTruthful
  <2>1. x.rsp.sw = "ok"
    BY DEF StatusResult, StatusOk
  <2>2. PICK apdu \in Apdu : /\ apdu = BuildApdu(session, "full", k)
                             /\ apdu.request = k /\ apdu.mode = "full"
    BY <1>2, BuiltApdu
  <2>3. "none" # "ok" /\ NoResponse.sw = "none"
    BY ResponseShapes
  <2>4. x \in Exchange(card, SecuredReplies(card, apdu))
    BY <2>1, <2>2, <2>3 DEF Answers, CardReplies, Reply
  <2>5. QED
    BY <1>2, <2>1, <2>2, <2>4, KeyIsChanged
<1>7. QED
  BY <1>3, <1>5, <1>6 DEF SyncInv

---------------------------------------------------------------------------
(* The refinement of SecureCommands.                                       *)

Executed  == {[ctr |-> e.ctr, request |-> e.request] :
                e \in {f \in card.log : f.sid = session.sid}}
Confirmed == {a.request : a \in {b \in acked : b.sid = session.sid}}

(* A step of SecureCommands, or none.                                      *)
Promised == Promise!Next \/ UNCHANGED <<Executed, Confirmed>>

LEMMA SilentStep ==
  ASSUME card'.log = card.log, session'.sid = session.sid, acked' = acked
  PROVE  Promised
BY DEF Promised, Executed, Confirmed

(* The session is new to the log and to what was confirmed.                *)
LEMMA RenewStep ==
  ASSUME TypeOK, IInv, card'.log = card.log, acked' = acked,
         session'.sid = card.lastSid + 1
  PROVE  Promised
PROOF
<1>1. card.lastSid \in Nat /\ \A e \in card.log : e.sid \in Nat
  BY DEF TypeOK, Card, LogEntry
<1>2. \A a \in acked : a.sid \in Nat
  BY DEF TypeOK
<1>3. \A e \in card.log : e.sid # session'.sid
  BY <1>1 DEF IInv, SidsUsed
<1>4. \A a \in acked : a.sid # session'.sid
  BY <1>1, <1>2 DEF IInv, SidsUsed
<1>5. Executed' = {} /\ Confirmed' = {}
  BY <1>3, <1>4 DEF Executed, Confirmed
<1>6. QED
  BY <1>5 DEF Promised, Promise!Next, Promise!Renew, Executed, Confirmed

(* The tag carries out a change at its counter.                            *)
LEMMA ExecutesStep ==
  ASSUME TypeOK, IInv, HostMatches, NEW r \in Requests, Unconfirmed(r),
         card.ctr \in 0..MaxCommands, card'.log = Entered(card, r),
         session'.sid = session.sid,
         acked' \in {acked, acked \union {[sid |-> session.sid, request |-> r]}}
  PROVE  Promised
PROOF
<1> DEFINE new == [ctr |-> card.ctr, request |-> r]
<1>1. /\ session.sid = card.sid /\ session.cmd_counter = card.ctr /\ InSession
      /\ card.ctr \in Nat
  BY DEF HostMatches, InSession, TypeOK, Card
<1>2. ASSUME NEW e \in card.log, e.sid = session.sid
      PROVE  e.request # r /\ e.ctr < card.ctr
  <2>1. e.ctr < card.ctr
    BY <1>1, <1>2 DEF IInv, LogBehind
  <2>2. [sid |-> e.sid, request |-> e.request] \in acked
    BY <1>1, <1>2 DEF IInv, UnconfirmedBehind
  <2>3. QED
    BY <1>2, <2>1, <2>2 DEF Unconfirmed
<1>3. \A e \in Executed : e.request # r /\ e.ctr < card.ctr
  BY <1>2 DEF Executed
<1>4. Executed' = Executed \union {new}
  <2> DEFINE entry == [sid |-> card.sid, ctr |-> card.ctr, request |-> r]
  <2>1. /\ card'.log = card.log \union {entry} /\ entry.sid = session.sid
        /\ [ctr |-> entry.ctr, request |-> entry.request] = new
    BY <1>1 DEF Entered
  <2> HIDE DEF entry, new
  <2>2. QED
    BY <2>1 DEF Executed
<1>5. Confirmed' \in {Confirmed, Confirmed \union {r}}
  <2>1. CASE acked' = acked
    BY <2>1 DEF Confirmed
  <2>2. CASE acked' = acked \union {[sid |-> session.sid, request |-> r]}
    <3> DEFINE ack == [sid |-> session.sid, request |-> r]
    <3>1. acked' = acked \union {ack} /\ ack.sid = session.sid /\ ack.request = r
      BY <2>2
    <3> HIDE DEF ack
    <3>2. Confirmed' = Confirmed \union {r}
      BY <3>1 DEF Confirmed
    <3>3. QED
      BY <3>2
  <2>3. QED
    BY <2>1, <2>2
<1>6. PICK n \in 0..MaxCommands : n = card.ctr
  OBVIOUS
<1>7. \E q \in Requests, m \in 0..MaxCommands : Promise!Execute(q, m)
  <2>1. /\ \A e \in Executed : e.request # r /\ e.ctr < n
        /\ Executed' = Executed \union {[ctr |-> n, request |-> r]}
        /\ Confirmed' \in {Confirmed, Confirmed \union {r}}
    BY <1>3, <1>4, <1>5, <1>6
  <2>2. Promise!Execute(r, n)
    BY <2>1 DEF Promise!Execute, Executed, Confirmed
  <2>3. QED
    BY <2>2
<1>8. Promise!Next
  BY <1>7 DEF Promise!Next
<1>9. QED
  BY <1>8 DEF Promised

(* A change is carried out and confirmed in one exchange, or only carried  *)
(* out, or nothing happens.                                                *)
LEMMA ChangePromised ==
  ASSUME TypeOK, IInv, Ready, NEW mode \in CommModes, NEW r \in Requests,
         NEW x \in Answers(mode, r), NEW done \in BOOLEAN, Unconfirmed(r),
         SendApdu(mode, x), Confirm(r, done), done => Secured(mode) /\ x.rsp.sw = "ok"
  PROVE  Promised
PROOF
<1>1. /\ session \in Session /\ card' = x.card
      /\ session' = ProcessResponse(session, mode, x.rsp)
  BY DEF TypeOK, SendApdu
<1>2. session'.sid = session.sid
  BY <1>1, ProcessedSession
<1>3. /\ \/ x.card.log = card.log
         \/ HostMatches /\ x.card.log = Entered(card, r)
      /\ Secured(mode) /\ x.rsp.sw = "ok" => HostMatches /\ x.card.log = Entered(card, r)
  BY AnswerFacts
<1>4. card.ctr \in 0..MaxCommands
  BY BoundsAssumption DEF Ready, TypeOK, Card
<1>5. CASE HostMatches /\ x.card.log = Entered(card, r)
  <2>1. acked' \in {acked, acked \union {[sid |-> session.sid, request |-> r]}}
    BY DEF Confirm
  <2>2. QED
    BY <1>1, <1>2, <1>4, <1>5, <2>1, ExecutesStep
<1>6. CASE ~(HostMatches /\ x.card.log = Entered(card, r))
  <2>1. ~done
    BY <1>3, <1>6
  <2>2. acked' = acked /\ card'.log = card.log
    BY <1>1, <1>3, <1>6, <2>1 DEF Confirm
  <2>3. QED
    BY <1>2, <2>2, SilentStep
<1>7. QED
  BY <1>5, <1>6

(* A command of the session that changes nothing.                          *)
LEMMA QueryPromised ==
  ASSUME TypeOK, NEW mode, NEW x, SendApdu(mode, x), x.card.log = card.log, acked' = acked
  PROVE  Promised
PROOF
<1>1. session'.sid = session.sid /\ card'.log = card.log
  BY ProcessedSession DEF TypeOK, SendApdu
<1>2. QED
  BY <1>1, SilentStep

LEMMA NextKept ==
  ASSUME TypeOK, IInv, SyncInv, [Next]_vars
  PROVE  SyncInv' /\ Promised
PROOF
<1>1. TypeOK'
  BY NextType
<1>2. /\ session \in Session /\ card \in Card
      /\ Writes \subseteq Requests /\ KeyChanges \subseteq Requests
      /\ {"plain", "mac", "full"} \subseteq CommModes
      /\ NoRequest \in Requests \union {NoRequest} /\ NoRequest \notin Requests
      /\ CountersAgree
  BY RequestsAssumption DEF TypeOK, Requests, CommModes, SyncInv
<1>3. ASSUME NEW w \in Writes, NEW mode \in CommModes, ChangeFileSettings(w, mode)
      PROVE  SyncInv' /\ Promised
  <2>1. PICK x \in Answers(mode, w) :
          /\ SendApdu(mode, x) /\ Confirm(w, LengthResult(mode, x) = 10)
          /\ Return("ChangeFileSettings", w, LengthResult(mode, x), Verified(mode, x))
    BY <1>3 DEF ChangeFileSettings
  <2>2. /\ Unconfirmed(w) /\ w \in Requests /\ w \in Requests \union {NoRequest}
        /\ Ready
    BY <1>2, <1>3 DEF ChangeFileSettings
  <2>3. x.rsp.mac # NoMac => Secured(mode) /\ x.rsp.sw = "ok"
    BY <2>2, AnswerFacts
  <2>4. PICK done : done = (LengthResult(mode, x) = 10)
    OBVIOUS
  <2>5. done \in BOOLEAN
    BY <2>4
  <2>6. ASSUME done PROVE Secured(mode) /\ x.rsp.sw = "ok"
    <3>1. LengthResult(mode, x) = 10
      BY <2>4, <2>6
    <3>2. x.rsp.mac # NoMac
      BY <3>1 DEF LengthResult, ResponseLength
    <3>3. QED
      BY <2>3, <3>2
  <2> Promised
    BY <2>1, <2>2, <2>4, <2>5, <2>6, ChangePromised
  <2>7. SyncInv'
    BY <1>1, <2>1, <2>2, ReturnSync
  <2>8. QED
    BY <2>7
<1>4. ASSUME NEW k \in KeyChanges, ChangeKey(k)
      PROVE  SyncInv' /\ Promised
  <2>1. PICK x \in Answers("full", k) :
          SendApdu("full", x) /\ Confirm(k, StatusResult("full", x) = 1)
    BY <1>4 DEF ChangeKey
  <2>2. Unconfirmed(k) /\ k \in Requests /\ Ready /\ Secured("full")
    BY <1>2, <1>4 DEF ChangeKey, Secured
  <2>3. PICK done : done = (StatusResult("full", x) = 1)
    OBVIOUS
  <2>4. done \in BOOLEAN
    BY <2>3
  <2>5. ASSUME done PROVE Secured("full") /\ x.rsp.sw = "ok"
    <3>1. StatusResult("full", x) = 1
      BY <2>3, <2>5
    <3>2. QED
      BY <2>2, <3>1 DEF StatusResult, StatusOk
  <2>6. Promised
    BY <1>2, <2>1, <2>2, <2>3, <2>4, <2>5, ChangePromised
  <2>7. QED
    BY <1>1, <1>4, <2>6, ChangeKeySync
<1>5. ASSUME NEW mode \in CommModes, NEW x \in Answers(mode, NoRequest), SendApdu(mode, x),
             NEW op \in {"GetFileSettings", "ReadSimple", "Plain"}, NEW ret, NEW verified,
             verified => Verified(mode, x), Return(op, NoRequest, ret, verified),
             acked' = acked
      PROVE  SyncInv' /\ Promised
  <2>1. x.card.log = card.log
    BY <1>2, AnswerFacts
  <2>2. Promised
    BY <1>5, <2>1, QueryPromised
  <2>3. op # "ChangeKey"
    OBVIOUS
  <2>4. SyncInv'
    BY <1>1, <1>2, <1>5, <2>3, ReturnSync
  <2>5. QED
    BY <2>2, <2>4
<1>6. ASSUME NEW mode \in CommModes, GetFileSettings(mode)
      PROVE  SyncInv' /\ Promised
  <2>1. PICK x \in Answers(mode, NoRequest) :
          /\ SendApdu(mode, x)
          /\ Return("GetFileSettings", NoRequest, LengthResult(mode, x), Verified(mode, x))
    BY <1>6 DEF GetFileSettings
  <2>2. acked' = acked
    BY <1>6 DEF GetFileSettings
  <2>3. QED
    BY <1>5, <2>1, <2>2
<1>7. ASSUME ReadSimpleFullResponse
      PROVE  SyncInv' /\ Promised
  <2>1. PICK x \in Answers("full", NoRequest) :
          /\ SendApdu("full", x)
          /\ Return("ReadSimple", NoRequest, StatusResult("full", x), Verified("full", x))
    BY <1>7 DEF ReadSimpleFullResponse
  <2>2. acked' = acked /\ "full" \in CommModes
    BY <1>2, <1>7 DEF ReadSimpleFullResponse
  <2>3. QED
    BY <1>5, <2>1, <2>2
<1>8. ASSUME PlainCommand
      PROVE  SyncInv' /\ Promised
  <2>1. PICK x \in Answers("plain", NoRequest) :
          /\ SendApdu("plain", x)
          /\ Return("Plain", NoRequest, StatusResult("plain", x), FALSE)
    BY <1>8 DEF PlainCommand
  <2>2. acked' = acked /\ "plain" \in CommModes
    BY <1>2, <1>8 DEF PlainCommand
  <2>3. QED
    BY <1>5, <2>1, <2>2
<1>9. ASSUME ISOSelectFile \/ ISOSelectNDEFFile \/ ISOSelectNDEFFile2
      PROVE  SyncInv' /\ Promised
  <2>1. PICK x \in Exchange(card, SelectReplies(card)) : SendApdu("plain", x)
    BY <1>9 DEF ISOSelectFile, ISOSelectNDEFFile, ISOSelectNDEFFile2
  <2>2. acked' = acked /\ ~last'.verified /\ last'.op # "ChangeKey"
    BY <1>9 DEF ISOSelectFile, ISOSelectNDEFFile, ISOSelectNDEFFile2, Return, Nothing
  <2>3. CountersAgree'
    BY <1>1, <1>2, <2>1, SelectSync
  <2>4. x.card.log = card.log
    BY PlainTame
  <2>5. QED
    BY <2>1, <2>2, <2>3, <2>4, QuietStep, QueryPromised
<1>10. ASSUME NEW x \in Exchange(card, PlainReplies(card, "ok"))
                  \union Exchange(card, PlainReplies(card, "more"))
                  \union Exchange(card, SelectReplies(card))
                  \union Exchange(card, FrameReplies(card, "more"))
                  \union Exchange(card, FrameReplies(card, "ok")),
              card' = x.card, session'.sid = session.sid, acked' = acked, lapses' # {},
              ~last'.verified, last'.op # "ChangeKey"
       PROVE  SyncInv' /\ Promised
  <2>1. card'.log = card.log
    BY <1>10, PlainTame
  <2>2. CountersAgree'
    BY <1>10 DEF CountersAgree
  <2>3. QED
    BY <1>10, <2>1, <2>2, QuietStep, SilentStep
<1>11. ASSUME ReadData
       PROVE  SyncInv' /\ Promised
  <2>1. PICK x \in Exchange(card, PlainReplies(card, "ok")) :
          card' = x.card /\ lapses' = lapses \union
                              {IF x.rsp.sw = "none" THEN "lost" ELSE "bypassed"}
    BY <1>11 DEF ReadData
  <2>2. /\ session'.sid = session.sid /\ acked' = acked /\ ~last'.verified
        /\ last'.op # "ChangeKey"
    BY <1>11 DEF ReadData, Return
  <2>3. QED
    BY <1>10, <2>1, <2>2
<1>12. ASSUME NEW replies \in {PlainReplies(card, "more"), FrameReplies(card, "more")},
              NEW next, GetVersionFrame(replies, next)
       PROVE  SyncInv' /\ Promised
  <2>1. PICK x \in Exchange(card, replies) :
          card' = x.card /\ lapses' = lapses \union
                              {IF x.rsp.sw = "none" THEN "lost" ELSE "bypassed"}
    BY <1>12 DEF GetVersionFrame
  <2>2. /\ session'.sid = session.sid /\ acked' = acked /\ ~last'.verified
        /\ last'.op # "ChangeKey"
    BY <1>12 DEF GetVersionFrame, Nothing
  <2>3. QED
    BY <1>10, <2>1, <2>2
<1>13. ASSUME GetVersionFrame3
       PROVE  SyncInv' /\ Promised
  <2>1. PICK x \in Exchange(card, FrameReplies(card, "ok")), hwType \in BOOLEAN :
          /\ card' = x.card
          /\ session' = IF StatusOk(x.rsp) /\ hwType
                        THEN [session EXCEPT !.authenticated = FALSE,
                                             !.cmd_counter = 0]
                        ELSE session
          /\ lapses' = lapses \union
                         {IF x.rsp.sw = "none" THEN "lost" ELSE "bypassed"}
    BY <1>13 DEF GetVersionFrame3
  <2>2. session'.sid = session.sid
    BY <1>2, <2>1 DEF Session
  <2>3. acked' = acked /\ ~last'.verified /\ last'.op # "ChangeKey"
    BY <1>13 DEF GetVersionFrame3, Nothing
  <2>4. QED
    BY <1>10, <2>1, <2>2, <2>3
<1>14. ASSUME NEW iso \in BOOLEAN, NEW keyno \in KeyNos, NEW key \in Keys,
              AuthStart(iso, keyno, key)
       PROVE  SyncInv' /\ Promised
  <2>1. PICK x \in Exchange(card, SelectReplies(card)) :
          card' = x.card /\ lapses' = lapses \union
                              {IF x.rsp.sw = "none" THEN "lost" ELSE "bypassed"}
    BY <1>14 DEF AuthStart
  <2>2. /\ session'.sid = session.sid /\ acked' = acked /\ ~last'.verified
        /\ last'.op # "ChangeKey"
    BY <1>14 DEF AuthStart, Nothing
  <2>3. QED
    BY <1>10, <2>1, <2>2
<1>15. ASSUME card'.log = card.log, session' = session, acked' = acked, lapses' = lapses,
              ~last'.verified, last'.op # "ChangeKey",
              card' = card \/ card'.sid = NoSid
       PROVE  SyncInv' /\ Promised
  <2>1. CountersAgree'
    BY <1>2, <1>15 DEF CountersAgree, InSession
  <2>2. QED
    BY <1>15, <2>1, QuietStep, SilentStep
<1>16. ASSUME AuthPart1
       PROVE  SyncInv' /\ Promised
  <2>1. call \in AuthCall
    BY <1>16 DEF TypeOK, AuthPart1, Idle, OtherCall
  <2>2. call.keyno \in KeyNos /\ call.key \in Keys
    BY <2>1 DEF AuthCall
  <2>3. PICK x \in Exchange(card, Auth1Replies(card, call.keyno)) : card' = x.card
    BY <1>16 DEF AuthPart1
  <2>4. card'.log = card.log /\ (card' = card \/ card'.sid = NoSid)
    BY <1>2, <2>2, <2>3, AuthAnswers
  <2>5. /\ session' = session /\ acked' = acked /\ lapses' = lapses
        /\ ~last'.verified /\ last'.op # "ChangeKey"
    BY <1>16 DEF AuthPart1, Nothing
  <2>6. QED
    BY <1>15, <2>4, <2>5
<1>17. ASSUME AuthPart2
       PROVE  SyncInv' /\ Promised
  <2>1. call \in AuthCall
    BY <1>17 DEF TypeOK, AuthPart2, Idle, OtherCall
  <2>2. call.keyno \in KeyNos /\ call.key \in Keys
    BY <2>1 DEF AuthCall
  <2>3. PICK x \in Exchange(card, Auth2Replies(card, call.key)) :
          /\ card' = x.card
          /\ session' = IF StatusOk(x.rsp) THEN NewSession(session, x.card.sid)
                                           ELSE session
          /\ lapses' = IF StatusOk(x.rsp) THEN {} ELSE lapses
    BY <1>17 DEF AuthPart2
  <2>4. /\ card'.log = card.log
        /\ \/ x.rsp.sw # "ok" /\ (card' = card \/ card'.sid = NoSid)
           \/ card'.sid = card.lastSid + 1 /\ card'.ctr = 0
    BY <1>2, <2>2, <2>3, AuthAnswers
  <2>5. acked' = acked /\ ~last'.verified /\ last'.op # "ChangeKey"
    BY <1>17 DEF AuthPart2, Return
  <2>6. CASE x.rsp.sw # "ok" /\ (card' = card \/ card'.sid = NoSid)
    BY <1>15, <2>3, <2>4, <2>5, <2>6 DEF StatusOk
  <2>7. CASE x.rsp.sw # "ok" /\ card'.sid = card.lastSid + 1
    <3>1. session' = session
      BY <2>3, <2>7 DEF StatusOk
    <3>2. session.sid # card'.sid
      BY <1>2, <2>7 DEF IInv, SidsUsed, Session, Card
    <3>3. CountersAgree'
      BY <3>1, <3>2 DEF CountersAgree, InSession
    <3>4. QED
      BY <2>4, <2>5, <3>1, <3>3, QuietStep, SilentStep
  <2>8. CASE x.rsp.sw = "ok"
    <3>1. /\ session' = NewSession(session, card'.sid)
          /\ card'.sid = card.lastSid + 1 /\ card'.ctr = 0
      BY <2>3, <2>4, <2>8 DEF StatusOk
    <3>2. session'.sid = card.lastSid + 1 /\ session'.cmd_counter = 0
      BY <1>2, <3>1 DEF NewSession, Session
    <3>3. CountersAgree'
      BY <3>1, <3>2 DEF CountersAgree
    <3>4. QED
      BY <2>4, <2>5, <3>2, <3>3, QuietStep, RenewStep
  <2>9. QED
    BY <2>4, <2>6, <2>7, <2>8
<1>18. ASSUME NewTag
       PROVE  SyncInv' /\ Promised
  <2>1. PICK keys \in [KeyNos -> Keys] :
          card' = [LoggedOut(card) EXCEPT !.keys = keys]
    BY <1>18 DEF NewTag
  <2>2. card'.sid = NoSid /\ card'.log = card.log
    BY <1>2, <2>1, CardShapes DEF Card
  <2>3. /\ session' = session /\ acked' = acked /\ lapses' = lapses
        /\ ~last'.verified /\ last'.op # "ChangeKey"
    BY <1>18 DEF NewTag, Nothing
  <2>4. QED
    BY <1>15, <2>2, <2>3
<1>19. CASE UNCHANGED vars
  <2>1. Promised
    BY <1>19, SilentStep DEF vars
  <2>2. SyncInv'
    BY <1>19 DEF vars, SyncInv, VerifiedInSync, CountersAgree, ChangeKeyTruthful, InSession
  <2>3. QED
    BY <2>1, <2>2
<1>20. IsNTAG424 \/ GetVersionFrame2 => SyncInv' /\ Promised
  BY <1>12 DEF IsNTAG424, GetVersionFrame2
<1>21. QED
  BY <1>3, <1>4, <1>6, <1>7, <1>8, <1>9, <1>11, <1>13, <1>14, <1>16, <1>17, <1>18, <1>19,
     <1>20 DEF Next, LibraryStep

LEMMA InitKept == Init => SyncInv /\ Promise!Init
PROOF
<1> SUFFICES ASSUME Init PROVE SyncInv /\ Promise!Init
  OBVIOUS
<1>1. /\ card.log = {} /\ acked = {} /\ ~session.authenticated /\ last = Nothing
  BY DEF Init, FreshCard
<1>2. SyncInv
  BY <1>1 DEF SyncInv, VerifiedInSync, CountersAgree, ChangeKeyTruthful, InSession, Nothing
<1>3. Promise!Init
  BY <1>1 DEF Promise!Init
<1>4. QED
  BY <1>2, <1>3

(* The counters and the results are right together with IInv: only a       *)
(* matching session answers with a MAC or carries a change out.            *)
THEOREM InSync == Spec => []SyncInv
PROOF
<1>1. Init => SyncInv
  BY InitKept
<1>2. TypeOK /\ IInv /\ SyncInv /\ [Next]_vars => SyncInv'
  BY NextKept
<1>3. QED
  BY <1>1, <1>2, TypeCorrect, Inductive, PTL DEF Spec

(* A response whose MAC was checked leaves the counters of host and tag    *)
(* equal (ntag424_process_response), whatever was lost or bypassed before. *)
THEOREM CheckedMeansInSync == Spec => []VerifiedInSync
PROOF
<1>1. SyncInv => VerifiedInSync
  BY DEF SyncInv
<1>2. QED
  BY <1>1, InSync, PTL

(* The counters differ only after a lost exchange or one that bypassed     *)
(* the session (ntag424_ReadData, ntag424_GetVersion, ntag424_Authenticate)*)
THEOREM LapsesExplain == Spec => []CountersAgree
PROOF
<1>1. SyncInv => CountersAgree
  BY DEF SyncInv
<1>2. QED
  BY <1>1, InSync, PTL

(* When ntag424_ChangeKey reports success the tag holds the new key, also  *)
(* for the master key, whose change is not answered with a MAC.            *)
THEOREM ChangedMeansChanged == Spec => []ChangeKeyTruthful
PROOF
<1>1. SyncInv => ChangeKeyTruthful
  BY DEF SyncInv
<1>2. QED
  BY <1>1, InSync, PTL

(* The session implements SecureCommands: within a session each change is  *)
(* carried out at most once, at a growing counter, and confirmed only by   *)
(* the exchange that carried it out.                                       *)
THEOREM PromiseKept == Spec => KeepsPromise
PROOF
<1>1. Init => Promise!Init
  BY InitKept
<1>2. TypeOK /\ IInv /\ SyncInv /\ [Next]_vars
        => [Promise!Next]_<<{[ctr |-> e.ctr, request |-> e.request] :
                               e \in {f \in card.log : f.sid = session.sid}},
                            {a.request : a \in {b \in acked : b.sid = session.sid}}>>
  BY NextKept DEF Promised, Executed, Confirmed
<1>3. QED
  BY <1>1, <1>2, TypeCorrect, Inductive, InSync, PTL DEF Spec, KeepsPromise, Promise!Spec
===========================================================================
