------------------------------ MODULE Handshake ------------------------------
(***************************************************************************)
(* The key exchange of a fresh link: connectAndHandshake() and             *)
(* BluettiCrypt::handle() on the panel against DeviceSession and BleServer *)
(* of the simulator, whose writes and notifications are coroutines that    *)
(* may still run when the next connection has subscribed.                  *)
(*                                                                         *)
(* A session the server still tracks is kept when the panel is back before *)
(* the server has seen it go: it then draws no challenge.                  *)
(*                                                                         *)
(* Keys are symbolic.  Connections are numbered.  A session has the number *)
(* of the connection it was made for, and what it draws is called by it:   *)
(* the challenge, hence the unsecured key, and its key pair.  The panel's  *)
(* key pair is called by the connection it is drawn for, and a shared      *)
(* secret is the pair of both numbers.  A number is used again once        *)
(* nothing of it can be left.  AES-CBC has no authentication: a frame      *)
(* under another key of the same phase decrypts to garbage, one of the     *)
(* other phase has a length that does not decrypt at all.                  *)
(***************************************************************************)
EXTENDS Integers, Sequences

CONSTANTS
  RxLen,      \* length of g_q
  Conns,      \* connection numbers, more than are ever in use at a time
  MaxLost, MaxSlow, MaxDrops   \* bounds on radio, unit and poll()

ASSUME BoundsAssumption ==
  /\ {RxLen, Conns} \subseteq Nat \ {0}
  /\ {MaxLost, MaxSlow, MaxDrops} \subseteq Nat

\* Only a slow unit keeps anything of a connection until the next one.
ASSUME ConnsAssumption == MaxSlow < Conns

VARIABLES
  \* the panel
  pc,       \* "off", "linked", "handshake", "ready"
  crypt,    \* g_crypt: unsec (0 = !unsecureSet_), peer, my, sec, ready
  rx,       \* g_q
  conn,     \* number of the last connection made, 0 at first
  linkUp,
  \* the unit
  sess,     \* DeviceSession: conn 0 is None; state; sec
  writes,   \* _written() coroutines that have not run yet
  notes,    \* notifications a coroutine has still to send, in its order
  budget,
  clean     \* history: nothing has disturbed the present handshake

panelVars == <<pc, crypt, rx, conn>>
unitVars  == <<sess, writes, notes>>
vars == <<panelVars, unitVars, linkUp, budget, clean>>

NoSession == [conn |-> 0, state |-> "dead", sec |-> <<>>]

Init ==
  /\ pc = "off" /\ rx = <<>> /\ conn = 0 /\ linkUp = FALSE
  /\ crypt = [unsec |-> 0, peer |-> 0, my |-> 0, sec |-> <<>>, ready |-> FALSE]
  /\ sess = NoSession /\ writes = {} /\ notes = {} /\ clean = FALSE
  /\ budget = [lost |-> MaxLost, slow |-> MaxSlow, drops |-> MaxDrops]

\* What an earlier connection has left with the unit.
NoneLeft == writes = {} /\ notes = {} /\ sess = NoSession

Spend(b) == budget[b] > 0 /\ budget' = [budget EXCEPT ![b] = @ - 1]

\* Frames.  `key' is what the frame is encrypted under.
Challenge(n)    == [kind |-> "challenge", n |-> n]
Accepted        == [kind |-> "accepted"]
PeerPubkey(n)   == [kind |-> "pubkey", key |-> n, pub |-> n]
PubkeyOk(n)     == [kind |-> "pubkeyOk", key |-> n]
Modbus(k)       == [kind |-> "modbus", key |-> k]
Echo(n)         == [kind |-> "echo", n |-> n]
MyPubkey(n, m)  == [kind |-> "mypub", key |-> n, pub |-> m]

-----------------------------------------------------------------------------
(* BluettiCrypt.                                                           *)

\* reset() leaves secKey_ as it was.
KeptCrypt  == crypt
FreshCrypt == [crypt EXCEPT !.unsec = 0, !.peer = 0, !.my = 0, !.ready = FALSE]

\* What handle() makes of a frame; "garbage" is a Modbus frame with a bad CRC.
Verdict(f) ==
  CASE f.kind = "challenge" -> "challenge"
    [] f.kind = "accepted"  -> "ignored"
    [] f.kind \notin {"challenge", "accepted"} /\ crypt.unsec = 0 -> "bad"
    [] OTHER ->
         LET plain == f.kind # "modbus"
         IN  IF plain = crypt.ready THEN "bad"
             ELSE IF f.key # (IF crypt.ready THEN crypt.sec ELSE crypt.unsec)
               THEN "garbage"
             ELSE IF f.kind = "pubkeyOk" /\ crypt.peer = 0 THEN "bad"
             ELSE f.kind

OnChallenge(n) == [crypt EXCEPT !.unsec = n]
OnPeerPubkey(n) == [crypt EXCEPT !.peer = n, !.my = conn]
OnPubkeyAccepted == [crypt EXCEPT !.sec = <<crypt.peer, crypt.my>>, !.ready = TRUE]

-----------------------------------------------------------------------------
(* connectAndHandshake().                                                  *)

KeptFrames == rx
Drained == <<>>

Listening == pc \in {"handshake", "ready"} /\ linkUp

\* The server tracks a subscriber.
Tracked == sess # NoSession

\* dropLink(), connect, characteristics, g_crypt.reset(), drainQueue().  The
\* task sleeps between two attempts; only a slow unit still has coroutines of
\* the earlier connection by then, or still lists it as a subscriber.
Connects ==
  /\ pc = "off" /\ pc' = "linked" /\ linkUp' = TRUE
  /\ IF NoneLeft THEN UNCHANGED budget ELSE Spend("slow")
  /\ conn' = (conn % Conns) + 1 /\ crypt' = FreshCrypt /\ rx' = Drained
  /\ UNCHANGED <<unitVars, clean>>

\* No address, no connection, no service or no subscription.
ConnectFails ==
  /\ pc \in {"off", "linked"} /\ Spend("lost")
  /\ pc' = "off" /\ linkUp' = FALSE
  /\ UNCHANGED <<crypt, rx, conn, unitVars, clean>>

\* The notification handler is registered and the unit told.  _subscribed()
\* makes a session and has it send its challenge, unless the panel is still
\* listed from an earlier connection: the session of that one stays as it is.
\* gatt and session are set together, so one stands for both; no write is
\* possible before the coroutine has run up to its first await.
Subscribes ==
  /\ pc = "linked" /\ linkUp /\ pc' = IF crypt.ready THEN "ready" ELSE "handshake"
  /\ IF Tracked THEN UNCHANGED <<sess, notes>>
     ELSE /\ sess' = [conn |-> conn, state |-> "waitReply", sec |-> <<>>]
          /\ notes' = notes \cup {<<Challenge(conn)>>}
  /\ clean' = NoneLeft
  /\ UNCHANGED <<crypt, rx, conn, writes, linkUp, budget>>

Fails == pc' = "off" /\ linkUp' = FALSE

\* A write with response fails on a dead link and ends the handshake.
Replies(w) ==
  IF linkUp THEN writes' = writes \cup {w} /\ UNCHANGED <<pc, linkUp>>
  ELSE Fails /\ UNCHANGED writes

\* Frames the loop passes over; any other ends it.
SkippedPlain == {"garbage", "modbus"}
Skipped == {"ignored", "garbage", "modbus"}

HandleFrame ==
  /\ pc = "handshake" /\ rx # <<>> /\ rx' = Tail(rx)
  /\ LET f == Head(rx)
         v == Verdict(f)
     IN  \/ v = "challenge" /\ crypt' = OnChallenge(f.n) /\ Replies(Echo(f.n))
         \/ /\ v = "pubkey" /\ crypt' = OnPeerPubkey(f.pub)
            /\ Replies(MyPubkey(crypt.unsec, conn))
         \/ /\ v = "pubkeyOk" /\ crypt' = OnPubkeyAccepted
            /\ pc' = "ready" /\ UNCHANGED <<writes, linkUp>>
         \/ v \in Skipped /\ UNCHANGED <<pc, crypt, writes, linkUp>>
         \/ /\ v \notin Skipped \cup {"challenge", "pubkey", "pubkeyOk"}
            /\ Fails /\ UNCHANGED <<crypt, writes>>
  /\ UNCHANGED <<conn, sess, notes, budget, clean>>

Quiet == rx = <<>> /\ writes = {} /\ notes = {}

\* Twelve seconds without becoming ready.  A unit that is merely slow can
\* cause it a bounded number of times.
HandshakeTimesOut ==
  /\ pc = "handshake" /\ Fails
  /\ IF Quiet \/ ~linkUp THEN UNCHANGED <<budget, clean>>
     ELSE Spend("slow") /\ clean' = FALSE
  /\ UNCHANGED <<crypt, rx, conn, unitVars>>

-----------------------------------------------------------------------------
(* The secured link, as poll() uses it.                                    *)

SendsRequest ==
  /\ pc = "ready" /\ linkUp /\ writes' = writes \cup {Modbus(crypt.sec)}
  /\ UNCHANGED <<panelVars, sess, notes, linkUp, budget, clean>>

\* readRegs(): handle() runs here too, its replies are not sent.
TakesFrame ==
  /\ pc = "ready" /\ rx # <<>> /\ rx' = Tail(rx)
  /\ crypt' = IF Verdict(Head(rx)) = "challenge" THEN OnChallenge(Head(rx).n) ELSE crypt
  /\ UNCHANGED <<pc, conn, unitVars, linkUp, budget, clean>>

\* ensureConnected() finds the link gone, or the SoC read on it fails ...
NoticesLoss ==
  /\ pc \in {"linked", "ready"} /\ ~linkUp /\ pc' = "off"
  /\ UNCHANGED <<crypt, rx, conn, unitVars, linkUp, budget, clean>>

\* ... or poll() drops it: an unanswered SoC read, a release for the phone app.
Drops ==
  /\ pc = "ready" /\ Fails /\ Spend("drops")
  /\ UNCHANGED <<crypt, rx, conn, unitVars, clean>>

-----------------------------------------------------------------------------
(* The unit.                                                               *)

Answer(w) ==
  CASE sess.state = "waitReply" /\ w = Echo(sess.conn) ->
         [state |-> "waitPubkey", sec |-> <<>>,
          out |-> <<Accepted, PeerPubkey(sess.conn)>>]
    [] sess.state = "waitPubkey" /\ w.kind = "mypub" /\ w.key = sess.conn ->
         [state |-> "secure", sec |-> <<sess.conn, w.pub>>,
          out |-> <<PubkeyOk(sess.conn)>>]
    [] sess.state = "secure" ->
         [state |-> "secure", sec |-> sess.sec,
          out |-> IF w = Modbus(sess.sec) THEN <<Modbus(sess.sec)>> ELSE <<>>]
    [] OTHER -> [state |-> "dead", sec |-> <<>>, out |-> <<>>]

\* DeviceSession.handle(), by whatever session is tracked when the coroutine
\* gets to run.
Written ==
  \E w \in writes :
    /\ writes' = writes \ {w}
    /\ IF sess = NoSession THEN UNCHANGED <<sess, notes>>
       ELSE LET a == Answer(w)
            IN  /\ sess' = [sess EXCEPT !.state = a.state, !.sec = a.sec]
                /\ notes' = IF a.out = <<>> THEN notes ELSE notes \cup {a.out}
    /\ UNCHANGED <<panelVars, linkUp, budget, clean>>

ReceivedUnchecked(f) == Append(rx, f)
Received(f) == IF Len(rx) < RxLen THEN Append(rx, f) ELSE rx

\* _notify_bytes() reaches whoever is subscribed by then; notifyCB() drops
\* the frame if g_q is full.
Notifies ==
  \E s \in notes :
    /\ notes' = (notes \ {s}) \cup (IF Len(s) > 1 THEN {Tail(s)} ELSE {})
    /\ rx' = IF Listening THEN Received(Head(s)) ELSE rx
    /\ UNCHANGED <<pc, crypt, conn, sess, writes, linkUp, budget, clean>>

NotificationLost ==
  /\ Spend("lost") /\ clean' = FALSE
  /\ \E s \in notes :
       notes' = (notes \ {s}) \cup (IF Len(s) > 1 THEN {Tail(s)} ELSE {})
  /\ UNCHANGED <<panelVars, sess, writes, linkUp>>

LinkLost ==
  /\ linkUp /\ linkUp' = FALSE /\ Spend("lost") /\ clean' = FALSE
  /\ UNCHANGED <<panelVars, unitVars>>

\* The server sees the panel's subscription gone while it has no other: the
\* list of subscribers is empty and the session is forgotten.
Unsubscribed ==
  /\ ~Listening /\ Tracked /\ sess' = NoSession
  /\ UNCHANGED <<panelVars, writes, notes, linkUp, budget, clean>>

-----------------------------------------------------------------------------
Panel == \/ Connects \/ Subscribes \/ HandleFrame \/ HandshakeTimesOut
         \/ TakesFrame \/ NoticesLoss
Unit  == Written \/ Notifies
Next  == \/ Panel \/ SendsRequest \/ Drops \/ Unit \/ Unsubscribed
         \/ ConnectFails \/ NotificationLost \/ LinkLost

Spec == Init /\ [][Next]_vars

\* The task polls forever, the unit's event loop runs its coroutines, and its
\* Bluetooth stack reports a subscriber that has gone.
FairSpec ==
  /\ Spec /\ WF_vars(Panel)
  /\ WF_vars(Written) /\ WF_vars(Notifies) /\ WF_vars(Unsubscribed)

-----------------------------------------------------------------------------
Keys == {<<>>} \cup ((1 .. Conns) \X (1 .. Conns))

TypeOK ==
  /\ pc \in {"off", "linked", "handshake", "ready"}
  /\ {conn, sess.conn, crypt.unsec, crypt.peer, crypt.my} \subseteq 0 .. Conns
  /\ crypt.ready \in BOOLEAN /\ {crypt.sec, sess.sec} \subseteq Keys
  /\ sess.state \in {"waitReply", "waitPubkey", "secure", "dead"}
  /\ Len(rx) <= RxLen

\* "secure link established": while the link lasts, a panel that considers it
\* ready and the unit's session hold the same key, made by that session, which
\* may be older than the connection, and by the panel for this connection.
KeysAgree ==
  pc = "ready" /\ linkUp =>
    /\ sess.state = "secure"
    /\ sess.sec = crypt.sec /\ crypt.sec = <<sess.conn, conn>>

\* A handshake with a unit that has nothing left of an earlier connection, and
\* that nothing disturbs, succeeds: neither a frame an earlier connection left
\* in g_q nor a frame the loop has no use for ends it.
CleanHandshakeSucceeds ==
  [][pc = "handshake" /\ pc' = "off" => ~clean']_vars

\* However a connection was disturbed, and though a session that is kept sends
\* no challenge and may be dead, the panel gets back to a secured link and keeps
\* it once the disturbances are over.
LinkRecovers == <>[](pc = "ready" /\ linkUp)

=============================================================================
