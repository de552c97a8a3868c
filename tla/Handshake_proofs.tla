--------------------------- MODULE Handshake_proofs ---------------------------
(* The invariants of Handshake, and that a handshake nothing disturbs       *)
(* succeeds, for every choice of its constants.                             *)
EXTENDS Handshake, SequenceTheorems, TLAPS

USE DEF panelVars, unitVars

Numbers == 1 .. Conns

\* What a coroutine may still have to send, and what the panel writes.
NoteSeqs ==
  {<<Challenge(n)>> : n \in Numbers} \cup {<<Accepted, PeerPubkey(n)>> : n \in Numbers}
    \cup {<<PeerPubkey(n)>> : n \in Numbers} \cup {<<PubkeyOk(n)>> : n \in Numbers}
    \cup {<<Modbus(k)>> : k \in Keys}

Frames ==
  {Challenge(n) : n \in Numbers} \cup {Accepted} \cup {PeerPubkey(n) : n \in Numbers}
    \cup {PubkeyOk(n) : n \in Numbers} \cup {Modbus(k) : k \in Keys}

Requests ==
  {Echo(n) : n \in Numbers} \cup {MyPubkey(n, m) : n \in Numbers, m \in Numbers}
    \cup {Modbus(k) : k \in Keys}

Budgets == {"lost", "slow", "drops"}

Crypts ==
  [unsec : 0 .. Conns, peer : 0 .. Conns, my : 0 .. Conns, sec : Keys, ready : BOOLEAN]

Sessions ==
  [conn : 0 .. Conns, state : {"waitReply", "waitPubkey", "secure", "dead"}, sec : Keys]

\* TypeOK with the types of what is in flight, and the few facts about the
\* steps of a connection those types rest on.
Typed ==
  /\ pc \in {"off", "linked", "handshake", "ready"} /\ conn \in 0 .. Conns
  /\ crypt \in Crypts /\ sess \in Sessions
  /\ rx \in Seq(Frames) /\ Len(rx) <= RxLen
  /\ writes \subseteq Requests /\ notes \subseteq NoteSeqs
  /\ linkUp \in BOOLEAN /\ clean \in BOOLEAN
  /\ budget \in [Budgets -> Nat] /\ budget.slow <= MaxSlow
  /\ pc # "off" => conn # 0
  /\ crypt.peer # 0 => crypt.my # 0
  /\ sess.conn = 0 => sess = NoSession
  /\ pc = "linked" => rx = <<>> /\ ~crypt.ready /\ crypt.unsec = 0 /\ crypt.peer = 0

USE DEF Challenge, Accepted, PeerPubkey, PubkeyOk, Modbus, Echo, MyPubkey

\* An element joins or leaves a sequence.
LEMMA SeqSteps ==
  ASSUME NEW S, NEW s \in Seq(S)
  PROVE  /\ \A e \in S : Append(s, e) \in Seq(S) /\ Len(Append(s, e)) = Len(s) + 1
         /\ s # <<>> => /\ Head(s) \in S /\ Tail(s) \in Seq(S)
                        /\ Len(Tail(s)) = Len(s) - 1 /\ Len(s) > 0
BY HeadTailProperties, AppendProperties, EmptySeq

LEMMA SpendTyped ==
  ASSUME budget \in [Budgets -> Nat], budget.slow <= MaxSlow, NEW b \in Budgets, Spend(b)
  PROVE  /\ budget' \in [Budgets -> Nat] /\ budget'.slow <= MaxSlow
         /\ budget'.slow <= budget.slow
         /\ b # "slow" => budget'.slow = budget.slow
         /\ b = "slow" => budget'.slow = budget.slow - 1
BY BoundsAssumption DEF Spend, Budgets

LEMMA InitTyped == Init => Typed
<1> SUFFICES ASSUME Init PROVE Typed
  OBVIOUS
<1>1. <<>> \in Keys /\ <<>> \in Seq(Frames) /\ Len(<<>>) = 0
  BY EmptySeq DEF Keys
<1>2. budget \in [Budgets -> Nat] /\ budget.slow <= MaxSlow
  BY BoundsAssumption DEF Init, Budgets
<1>3. sess \in Sessions
  BY <1>1, BoundsAssumption DEF Init, NoSession, Sessions
<1>4. crypt \in Crypts
  BY <1>1, BoundsAssumption DEF Init, Crypts
<1> QED
  <2>1. /\ pc = "off" /\ conn \in 0 .. Conns /\ Len(rx) <= RxLen /\ rx \in Seq(Frames)
        /\ writes = {} /\ notes = {} /\ crypt.peer = 0 /\ sess = NoSession
    BY <1>1, BoundsAssumption DEF Init
  <2>2. linkUp \in BOOLEAN /\ clean \in BOOLEAN
    BY Zenon DEF Init
  <2> QED
    BY <1>2, <1>3, <1>4, <2>1, <2>2 DEF Typed

LEMMA TypedOK == Typed => TypeOK
BY DEF Typed, TypeOK, Crypts, Sessions

\* reset() and the handlers of the two public frames keep g_crypt well typed.
LEMMA ResetTyped ==
  ASSUME crypt \in Crypts
  PROVE  /\ FreshCrypt \in Crypts
         /\ FreshCrypt.unsec = 0 /\ FreshCrypt.peer = 0 /\ FreshCrypt.ready = FALSE
<1>1. 0 \in 0 .. Conns
  BY BoundsAssumption
<1>2. FreshCrypt \in Crypts
  BY <1>1, Zenon DEF FreshCrypt, Crypts
<1>3. FreshCrypt.unsec = 0 /\ FreshCrypt.peer = 0 /\ FreshCrypt.ready = FALSE
  BY DEF FreshCrypt, Crypts
<1> QED
  BY <1>2, <1>3

LEMMA PeerTyped ==
  ASSUME crypt \in Crypts, conn \in Numbers, NEW n \in Numbers
  PROVE  OnPeerPubkey(n) \in Crypts /\ OnPeerPubkey(n).my # 0
<1>1. Numbers \subseteq 0 .. Conns /\ 0 \notin Numbers
  BY DEF Numbers
<1>2. OnPeerPubkey(n) \in Crypts
  BY <1>1 DEF OnPeerPubkey, Crypts
<1>3. OnPeerPubkey(n).my = conn
  BY DEF OnPeerPubkey, Crypts
<1> QED
  BY <1>1, <1>2, <1>3

LEMMA ReplyTyped ==
  ASSUME NEW n \in Numbers, NEW m \in Numbers
  PROVE  Echo(n) \in Requests /\ MyPubkey(n, m) \in Requests
BY DEF Requests

\* What handle() accepts of a frame, and under which key.
LEMMA VerdictMeans ==
  ASSUME Typed, NEW f \in Frames
  PROVE  /\ Verdict(f) = "challenge" => \E n \in Numbers : f = Challenge(n)
         /\ Verdict(f) = "pubkey" =>
              ~crypt.ready /\ crypt.unsec \in Numbers /\ f = PeerPubkey(crypt.unsec)
         /\ Verdict(f) = "pubkeyOk" =>
              /\ ~crypt.ready /\ crypt.unsec \in Numbers /\ f = PubkeyOk(crypt.unsec)
              /\ crypt.peer # 0
<1>1. CASE \E n \in Numbers : f = Challenge(n)
  BY <1>1 DEF Verdict
<1>2. CASE f = Accepted
  BY <1>2 DEF Verdict
<1>3. CASE \E n \in Numbers : f = PeerPubkey(n)
  <2>1. PICK n \in Numbers : f = PeerPubkey(n)
    BY <1>3
  <2>2. f.kind = "pubkey" /\ f.key = n
    BY <2>1
  <2> QED
    BY <2>1, <2>2 DEF Verdict, Typed, Crypts
<1>4. CASE \E n \in Numbers : f = PubkeyOk(n)
  <2>1. PICK n \in Numbers : f = PubkeyOk(n)
    BY <1>4
  <2>2. f.kind = "pubkeyOk" /\ f.key = n
    BY <2>1
  <2> QED
    BY <2>1, <2>2 DEF Verdict, Typed, Crypts
<1>5. CASE \E k \in Keys : f = Modbus(k)
  BY <1>5 DEF Verdict
<1> QED
  BY <1>1, <1>2, <1>3, <1>4, <1>5 DEF Frames

\* The first frame of a coroutine, and what is left of it.
LEMMA NoteSteps ==
  ASSUME NEW s \in NoteSeqs
  PROVE  Head(s) \in Frames /\ (Len(s) > 1 => Tail(s) \in NoteSeqs)
<1>1. CASE \E n \in Numbers : s = <<Accepted, PeerPubkey(n)>>
  <2>1. PICK n \in Numbers : s = <<Accepted, PeerPubkey(n)>>
    BY <1>1
  <2>2. Tail(s) = <<PeerPubkey(n)>> /\ Head(s) = Accepted
    BY <2>1
  <2> QED
    BY <2>2 DEF Frames, NoteSeqs
<1>2. CASE \E f \in Frames : s = <<f>>
  BY <1>2
<1> QED
  BY <1>1, <1>2 DEF NoteSeqs, Frames

\* What the session makes of a write.
Outs == {<<>>} \cup NoteSeqs

LEMMA AnswerTyped ==
  ASSUME Typed, sess # NoSession, NEW w \in Requests
  PROVE  /\ Answer(w).state \in {"waitReply", "waitPubkey", "secure", "dead"}
         /\ Answer(w).sec \in Keys /\ Answer(w).out \in Outs
<1>1. sess.conn \in Numbers /\ sess.sec \in Keys
  BY BoundsAssumption DEF Typed, Sessions, Numbers
<1>2. w.kind = "mypub" => w.pub \in Numbers
  BY DEF Requests
<1>3. CASE sess.state = "waitReply" /\ w = Echo(sess.conn)
  BY <1>1, <1>3 DEF Answer, Keys, Outs, NoteSeqs
<1>4. CASE sess.state = "waitPubkey" /\ w.kind = "mypub" /\ w.key = sess.conn
  <2>1. <<sess.conn, w.pub>> \in Keys
    BY <1>1, <1>2, <1>4 DEF Keys, Numbers
  <2> QED
    BY <1>1, <1>4, <2>1 DEF Answer, Outs, NoteSeqs
<1>5. CASE sess.state = "secure"
  BY <1>1, <1>5 DEF Answer, Outs, NoteSeqs
<1>6. CASE /\ ~(sess.state = "waitReply" /\ w = Echo(sess.conn))
           /\ ~(sess.state = "waitPubkey" /\ w.kind = "mypub" /\ w.key = sess.conn)
           /\ sess.state # "secure"
  <2>1. Answer(w) = [state |-> "dead", sec |-> <<>>, out |-> <<>>]
    BY <1>6 DEF Answer
  <2> QED
    BY <2>1 DEF Keys, Outs
<1> QED
  BY <1>3, <1>4, <1>5, <1>6

LEMMA NextTyped == Typed /\ [Next]_vars => Typed'
<1> SUFFICES ASSUME Typed, [Next]_vars PROVE Typed'
  OBVIOUS
<1> USE BoundsAssumption DEF Typed
<1>a. conn = 0 \/ conn \in Numbers
  BY DEF Numbers
<1>b. (conn % Conns) + 1 \in Numbers
  BY DEF Numbers
<1>c. <<>> \in Seq(Frames) /\ Len(<<>>) = 0 /\ <<>> \in Keys
  BY EmptySeq DEF Keys
<1>1. CASE Connects
  <2>1. crypt' \in Crypts /\ crypt'.unsec = 0 /\ crypt'.peer = 0 /\ ~crypt'.ready
    BY <1>1, ResetTyped DEF Connects
  <2>2. budget' \in [Budgets -> Nat] /\ budget'.slow <= MaxSlow
    BY <1>1, SpendTyped DEF Connects, Budgets
  <2> QED
    BY <1>1, <1>b, <1>c, <2>1, <2>2 DEF Connects, Drained, Numbers
<1>2. CASE ConnectFails
  BY <1>2, SpendTyped DEF ConnectFails, Budgets
<1>3. CASE Subscribes
  <2>1. sess' \in Sessions /\ (sess'.conn = 0 => sess' = NoSession)
    BY <1>3, <1>c DEF Subscribes, Sessions
  <2>2. notes' \subseteq NoteSeqs
    BY <1>3, <1>a DEF Subscribes, NoteSeqs
  <2>3. clean' \in BOOLEAN
    BY <1>3, Zenon DEF Subscribes, NoneLeft
  <2> QED
    BY <1>3, <2>1, <2>2, <2>3 DEF Subscribes
<1>4. CASE HandleFrame
  <2> DEFINE f == Head(rx)
  <2>1. f \in Frames /\ rx' \in Seq(Frames) /\ Len(rx') <= RxLen
    BY <1>4, SeqSteps DEF HandleFrame
  <2>2. conn \in Numbers
    BY <1>4, <1>a DEF HandleFrame
  <2>3. /\ pc' \in {"off", "handshake", "ready"} /\ linkUp' \in BOOLEAN
        /\ UNCHANGED <<conn, sess, notes, budget, clean>>
    BY <1>4 DEF HandleFrame, Replies, Fails
  <2>4. CASE Verdict(f) = "challenge" /\ crypt' = OnChallenge(f.n) /\ Replies(Echo(f.n))
    <3>1. f.n \in Numbers /\ Echo(f.n) \in Requests
      BY <2>1, <2>4, VerdictMeans DEF Requests
    <3>2. crypt' \in Crypts /\ (crypt'.peer # 0 => crypt'.my # 0)
      BY <2>4, <3>1 DEF OnChallenge, Crypts, Numbers
    <3> QED
      BY <1>4, <2>1, <2>3, <2>4, <3>1, <3>2 DEF Replies, HandleFrame
  <2>5. CASE /\ Verdict(f) = "pubkey" /\ crypt' = OnPeerPubkey(f.pub)
             /\ Replies(MyPubkey(crypt.unsec, conn))
    <3>1. crypt.unsec \in Numbers /\ f = PeerPubkey(crypt.unsec)
      BY <2>1, <2>5, VerdictMeans
    <3>2. f.pub \in Numbers
      BY <3>1
    <3>3. MyPubkey(crypt.unsec, conn) \in Requests
      BY <2>2, <3>1, ReplyTyped
    <3>4. OnPeerPubkey(f.pub) \in Crypts /\ OnPeerPubkey(f.pub).my # 0
      BY <2>2, <3>2, PeerTyped
    <3> QED
      BY <1>4, <2>1, <2>3, <2>5, <3>3, <3>4 DEF Replies, HandleFrame
  <2>6. CASE Verdict(f) = "pubkeyOk" /\ crypt' = OnPubkeyAccepted /\ UNCHANGED writes
    <3>1. <<crypt.peer, crypt.my>> \in Keys
      BY <2>1, <2>6, VerdictMeans DEF Crypts, Keys
    <3>2. crypt' \in Crypts /\ (crypt'.peer # 0 => crypt'.my # 0)
      BY <2>6, <3>1 DEF OnPubkeyAccepted, Crypts
    <3> QED
      BY <2>1, <2>3, <2>6, <3>2, <1>4 DEF HandleFrame
  <2>7. CASE UNCHANGED <<crypt, writes>>
    BY <1>4, <2>1, <2>3, <2>7 DEF HandleFrame
  <2> QED
    BY <1>4, <2>4, <2>5, <2>6, <2>7 DEF HandleFrame
<1>5. CASE HandshakeTimesOut
  <2>1. budget' \in [Budgets -> Nat] /\ budget'.slow <= MaxSlow
    BY <1>5, SpendTyped DEF HandshakeTimesOut, Budgets
  <2> QED
    BY <1>5, <2>1 DEF HandshakeTimesOut, Fails
<1>6. CASE SendsRequest
  <2>1. Modbus(crypt.sec) \in Requests
    BY DEF Requests, Crypts
  <2> QED
    BY <1>6, <2>1 DEF SendsRequest
<1>7. CASE TakesFrame
  <2>1. Head(rx) \in Frames /\ rx' \in Seq(Frames) /\ Len(rx') <= RxLen
    BY <1>7, SeqSteps DEF TakesFrame
  <2>2. CASE Verdict(Head(rx)) = "challenge"
    <3>1. Head(rx).n \in Numbers
      BY <2>1, <2>2, VerdictMeans
    <3>2. crypt' \in Crypts /\ (crypt'.peer # 0 => crypt'.my # 0)
      BY <1>7, <2>2, <3>1 DEF TakesFrame, OnChallenge, Crypts, Numbers
    <3> QED
      BY <1>7, <2>1, <3>2 DEF TakesFrame
  <2>3. CASE Verdict(Head(rx)) # "challenge"
    BY <1>7, <2>1, <2>3 DEF TakesFrame
  <2> QED
    BY <2>2, <2>3
<1>8. CASE NoticesLoss
  BY <1>8 DEF NoticesLoss
<1>9. CASE Drops
  BY <1>9, SpendTyped DEF Drops, Fails, Budgets
<1>10. CASE Written
  <2>1. PICK w \in writes :
          /\ writes' = writes \ {w}
          /\ \/ sess = NoSession /\ UNCHANGED <<sess, notes>>
             \/ /\ sess # NoSession
                /\ sess' = [sess EXCEPT !.state = Answer(w).state, !.sec = Answer(w).sec]
                /\ \/ notes' = notes
                   \/ Answer(w).out # <<>> /\ notes' = notes \cup {Answer(w).out}
    BY <1>10 DEF Written
  <2>2. UNCHANGED <<panelVars, linkUp, budget, clean>>
    BY <1>10 DEF Written
  <2>3. sess' \in Sessions /\ (sess'.conn = 0 => sess' = NoSession)
    BY <2>1, AnswerTyped DEF Sessions
  <2>4. notes' \subseteq NoteSeqs
    BY <2>1, AnswerTyped DEF Outs
  <2> QED
    BY <2>1, <2>2, <2>3, <2>4
<1>11. CASE Notifies
  <2>1. PICK s \in notes :
          /\ notes' = (notes \ {s}) \cup (IF Len(s) > 1 THEN {Tail(s)} ELSE {})
          /\ rx' = IF Listening THEN Received(Head(s)) ELSE rx
    BY <1>11 DEF Notifies
  <2>2. Head(s) \in Frames /\ notes' \subseteq NoteSeqs
    BY <2>1, NoteSteps
  <2>3. rx' \in Seq(Frames) /\ Len(rx') <= RxLen
    BY <2>1, <2>2, SeqSteps DEF Received
  <2> QED
    BY <1>11, <2>1, <2>2, <2>3 DEF Notifies, Listening
<1>12. CASE NotificationLost
  <2>1. notes' \subseteq NoteSeqs
    BY <1>12, NoteSteps DEF NotificationLost
  <2> QED
    BY <1>12, <2>1, SpendTyped DEF NotificationLost, Budgets
<1>13. CASE LinkLost
  BY <1>13, SpendTyped DEF LinkLost, Budgets
<1>14. CASE Unsubscribed
  <2>1. sess' \in Sessions /\ sess' = NoSession
    BY <1>14, <1>c DEF Unsubscribed, Sessions, NoSession
  <2> QED
    BY <1>14, <2>1 DEF Unsubscribed
<1>15. CASE UNCHANGED vars
  BY <1>15 DEF vars
<1> QED
  BY <1>1, <1>2, <1>3, <1>4, <1>5, <1>6, <1>7, <1>8, <1>9, <1>10, <1>11, <1>12, <1>13,
     <1>14, <1>15 DEF Next, Panel, Unit

LEMMA WellTyped == Spec => []Typed
BY InitTyped, NextTyped, PTL DEF Spec

\* Every variable keeps its type; the numbers of connections stay in range and
\* g_q never holds more than its length.
THEOREM TypeCorrect == Spec => []TypeOK
BY WellTyped, TypedOK, PTL

-----------------------------------------------------------------------------
(* Why the keys agree.                                                     *)

\* The frames in g_q and those still to be notified.
Elems(s) == {s[i] : i \in 1 .. Len(s)}
Queued == Elems(rx)
Noted  == UNION {Elems(s) : s \in notes}
KeyFrames(n) == {PeerPubkey(n), PubkeyOk(n)}

\* How many connections ago the number n was drawn, at most as many as a slow
\* unit has been met.
Age(n) == IF n <= conn THEN conn - n ELSE conn - n + Conns
Recent == {n \in Numbers : Age(n) <= MaxSlow - budget.slow}

InUse ==
  {n \in Numbers :
     \/ Challenge(n) \in Noted \cup Queued \/ KeyFrames(n) \cap (Noted \cup Queued) # {}
     \/ Echo(n) \in writes \/ \E m \in Numbers : MyPubkey(n, m) \in writes}

\* A number in use is recent, so the next connection's number is fresh.
NumbersRecent == InUse \subseteq Recent

\* Between connecting and subscribing nothing in flight bears the number of the
\* new connection.
NumberUnused == pc = "linked" => conn \notin InUse

\* A challenge still to be notified has not been answered.
ChallengesUnanswered ==
  \A n \in Numbers :
    Challenge(n) \in Noted =>
      /\ KeyFrames(n) \cap (Noted \cup Queued) = {} /\ Echo(n) \notin writes
      /\ Challenge(n) \notin Queued /\ \A m \in Numbers : MyPubkey(n, m) \notin writes
      /\ sess.conn = n => sess.state \in {"waitReply", "dead"}

\* The panel has the challenge n, or will have it.
Challenged(n) == Challenge(n) \in Queued \/ crypt.unsec = n

\* The panel's key reaches the session n only as drawn for this connection ...
KeyIsNew(n) ==
  \A m \in Numbers :
    MyPubkey(n, m) \in writes => m = conn /\ crypt.peer = n /\ crypt.my = conn

\* ... and its acceptance says that both have the same secret.
AcceptedKeyAgrees(n) ==
  PubkeyOk(n) \in Noted \cup Queued =>
    /\ crypt.peer = n /\ crypt.my = conn
    /\ sess.state = "secure" /\ sess.sec = <<n, conn>>

\* While a handshake runs on a live link: a challenge of another session leads
\* nowhere, and what follows the challenge of the tracked one has its reasons,
\* though that session be older than the connection.
HandshakeSound ==
  pc = "handshake" /\ linkUp =>
    \A n \in Numbers :
      Challenged(n) =>
        IF n = sess.conn THEN KeyIsNew(n) /\ AcceptedKeyAgrees(n)
        ELSE KeyFrames(n) \cap (Noted \cup Queued) = {}

IInv == NumbersRecent /\ NumberUnused /\ ChallengesUnanswered /\ HandshakeSound /\ KeysAgree

LEMMA ElemsSteps ==
  ASSUME NEW S, NEW s \in Seq(S)
  PROVE  /\ s # <<>> => Head(s) \in Elems(s) /\ Elems(Tail(s)) \subseteq Elems(s)
         /\ \A e \in S : Elems(Append(s, e)) \subseteq Elems(s) \cup {e}
<1>1. CASE s # <<>>
  <2>1. Len(s) \in Nat \ {0} /\ Head(s) = s[1] /\ Len(Tail(s)) = Len(s) - 1
        /\ \A i \in 1 .. Len(Tail(s)) : Tail(s)[i] = s[i + 1]
    BY <1>1, HeadTailProperties, EmptySeq, LenProperties
  <2> QED
    BY <2>1 DEF Elems
<1>2. ASSUME NEW e \in S PROVE Elems(Append(s, e)) \subseteq Elems(s) \cup {e}
  <2>1. /\ Len(s) \in Nat /\ Len(Append(s, e)) = Len(s) + 1
        /\ \A i \in 1 .. Len(s) : Append(s, e)[i] = s[i]
        /\ Append(s, e)[Len(s) + 1] = e
    BY AppendProperties, LenProperties
  <2> QED
    BY <2>1 DEF Elems
<1> QED
  BY <1>1, <1>2

LEMMA ElemsOfShort ==
  ASSUME NEW a, NEW b
  PROVE  Elems(<<>>) = {} /\ Elems(<<a>>) = {a} /\ Elems(<<a, b>>) = {a, b}
BY DEF Elems

LEMMA ElemsOfNote ==
  ASSUME NEW s, NEW a, NEW b
  PROVE  (s = <<a>> => Elems(s) = {a}) /\ (s = <<a, b>> => Elems(s) = {a, b})
BY ElemsOfShort

\* A coroutine sends one frame, or that it accepts the challenge and its key.
LEMMA NoteShapes ==
  ASSUME NEW s \in NoteSeqs
  PROVE  \/ \E n \in Numbers :
              /\ s = <<Accepted, PeerPubkey(n)>> /\ Tail(s) = <<PeerPubkey(n)>>
              /\ Head(s) = Accepted /\ Elems(s) = {Accepted, PeerPubkey(n)}
              /\ Elems(Tail(s)) = {PeerPubkey(n)}
         \/ s = <<Head(s)>> /\ ~(Len(s) > 1) /\ Elems(s) = {Head(s)}
<1>1. ASSUME NEW n \in Numbers, s = <<Accepted, PeerPubkey(n)>>
      PROVE  /\ Tail(s) = <<PeerPubkey(n)>> /\ Head(s) = Accepted
             /\ Elems(s) = {Accepted, PeerPubkey(n)} /\ Elems(Tail(s)) = {PeerPubkey(n)}
  <2>1. Tail(s) = <<PeerPubkey(n)>> /\ Head(s) = Accepted
    BY <1>1
  <2> QED
    BY <1>1, <2>1, ElemsOfShort, Zenon
<1>2. ASSUME NEW f, s = <<f>>
      PROVE  s = <<Head(s)>> /\ ~(Len(s) > 1) /\ Elems(s) = {Head(s)}
  <2>1. Head(s) = f /\ ~(Len(s) > 1)
    BY <1>2
  <2> QED
    BY <1>2, <2>1, ElemsOfShort, Zenon
<1> QED
  BY <1>1, <1>2 DEF NoteSeqs

\* Only the challenge's own coroutine sends it.
LEMMA ChallengeAlone ==
  ASSUME NEW s \in NoteSeqs, NEW n \in Numbers, Challenge(n) \in Elems(s)
  PROVE  s = <<Challenge(n)>>
BY NoteShapes

LEMMA NotedTail ==
  ASSUME notes \subseteq NoteSeqs, NEW s \in notes,
         notes' = (notes \ {s}) \cup (IF Len(s) > 1 THEN {Tail(s)} ELSE {})
  PROVE  /\ Noted' \subseteq Noted /\ Head(s) \in Noted
         /\ \A n \in Numbers : Head(s) = Challenge(n) => Challenge(n) \notin Noted'
<1>1. Head(s) \in Elems(s) /\ (Len(s) > 1 => Elems(Tail(s)) \subseteq Elems(s))
  BY NoteShapes, Zenon
<1>2. Noted' \subseteq Noted /\ Head(s) \in Noted
  BY <1>1 DEF Noted
<1>3. ASSUME NEW n \in Numbers, Head(s) = Challenge(n) PROVE Challenge(n) \notin Noted'
  <2>1. s = <<Challenge(n)>> /\ ~(Len(s) > 1)
    <3>1. Challenge(n) # Accepted
      OBVIOUS
    <3> QED
      BY <1>3, <3>1, NoteShapes, Zenon
  <2>2. notes' = notes \ {s}
    BY <2>1
  <2> QED
    BY <2>1, <2>2, ChallengeAlone DEF Noted
<1> QED
  BY <1>2, <1>3

LEMMA NotedMore ==
  ASSUME NEW s, notes' = notes \cup {s} PROVE Noted' = Noted \cup Elems(s)
BY DEF Noted

\* Numbers age only when the panel connects, and by one.
LEMMA RecentStays ==
  ASSUME Typed, Typed', conn' = conn, budget'.slow <= budget.slow
  PROVE  Recent \subseteq Recent' /\ (conn # 0 => conn \in Recent)
<1>1. /\ budget.slow \in Nat /\ budget'.slow \in Nat /\ MaxSlow \in Nat
      /\ Conns \in Nat \ {0} /\ conn \in 0 .. Conns /\ budget.slow <= MaxSlow
  BY BoundsAssumption DEF Typed, Budgets
<1>2. \A n \in Numbers : Age(n)' = Age(n) /\ Age(n) \in Int
  BY <1>1 DEF Age, Numbers
<1>3. Recent \subseteq Recent'
  BY <1>1, <1>2 DEF Recent
<1>4. conn # 0 => conn \in Numbers /\ Age(conn) = 0
  BY <1>1 DEF Age, Numbers
<1> QED
  BY <1>1, <1>3, <1>4 DEF Recent

LEMMA RecentAges ==
  ASSUME Typed, Typed', conn' = (conn % Conns) + 1, budget'.slow = budget.slow - 1
  PROVE  Recent \subseteq Recent' /\ conn' \notin Recent
<1>1. /\ budget.slow \in Nat /\ budget'.slow \in Nat /\ MaxSlow \in Nat
      /\ Conns \in Nat \ {0} /\ conn \in 0 .. Conns /\ MaxSlow < Conns
  BY BoundsAssumption, ConnsAssumption DEF Typed, Budgets
<1>2. conn % Conns = IF conn < Conns THEN conn ELSE 0
  BY <1>1, Z3
<1>3. ASSUME NEW n \in Recent PROVE n \in Recent' /\ n # conn'
  <2>1. n \in Numbers /\ Age(n) <= MaxSlow - budget.slow
    BY <1>3 DEF Recent
  <2>2. Age(n)' = Age(n) + 1
    BY <1>1, <1>2, <2>1 DEF Age, Numbers
  <2>3. Age(n) >= 0
    BY <1>1, <2>1 DEF Age, Numbers
  <2>4. n # conn'
    BY <1>1, <1>2, <2>1 DEF Age, Numbers
  <2> QED
    BY <1>1, <2>1, <2>2, <2>3, <2>4 DEF Recent, Age, Numbers
<1> QED
  BY <1>3

\* The link is gone or given up, and nothing else happens.
LEMMA LinkGoneSound ==
  ASSUME Typed, Typed', IInv, UNCHANGED <<crypt, rx, conn, unitVars>>, ~linkUp',
         pc' \in {pc, "off"}, budget'.slow <= budget.slow
  PROVE  IInv'
<1>1. Noted' = Noted /\ Queued' = Queued /\ InUse' = InUse
  BY DEF Noted, Queued, InUse
<1>2. NumbersRecent'
  BY <1>1, RecentStays DEF IInv, NumbersRecent
<1>3. NumberUnused' /\ ChallengesUnanswered'
  BY <1>1 DEF IInv, NumberUnused, ChallengesUnanswered
<1> QED
  BY <1>2, <1>3 DEF IInv, HandshakeSound, KeysAgree

LEMMA ConnectsSound == ASSUME Typed, Typed', IInv, Connects PROVE IInv'
<1>1. Noted' = Noted /\ Queued' = {} /\ pc' = "linked" /\ UNCHANGED <<sess, writes, notes>>
  BY ElemsOfShort DEF Connects, Noted, Queued, Drained
<1>2. InUse' \subseteq InUse
  BY <1>1 DEF InUse
<1>3. CASE NoneLeft
  <2>1. Noted = {} /\ InUse' = {}
    BY <1>1, <1>3 DEF NoneLeft, Noted, InUse
  <2> QED
    BY <1>1, <2>1
    DEF IInv, NumbersRecent, NumberUnused, ChallengesUnanswered, HandshakeSound, KeysAgree
<1>4. CASE Spend("slow")
  <2>1. Recent \subseteq Recent' /\ conn' \notin Recent
    BY <1>4, RecentAges, SpendTyped DEF Connects, Typed, Budgets
  <2>2. NumbersRecent' /\ NumberUnused'
    BY <1>2, <2>1 DEF IInv, NumbersRecent, NumberUnused
  <2>3. ChallengesUnanswered'
    BY <1>1 DEF IInv, ChallengesUnanswered
  <2> QED
    BY <1>1, <2>2, <2>3 DEF IInv, HandshakeSound, KeysAgree
<1> QED
  BY <1>3, <1>4 DEF Connects

\* A session that is kept learns nothing; a new one has a number of its own.
LEMMA SubscribesSound == ASSUME Typed, Typed', IInv, Subscribes PROVE IInv'
<1>1. /\ Queued' = {} /\ Queued = {} /\ conn \in Numbers /\ crypt.unsec = 0
      /\ UNCHANGED <<crypt, conn, writes, linkUp, budget>> /\ pc' = "handshake"
      /\ 0 \notin Numbers
  <2>1. rx = <<>> /\ rx' = <<>> /\ ~crypt.ready
    BY DEF Subscribes, Typed
  <2>2. Queued' = {} /\ Queued = {}
    BY <2>1, ElemsOfShort DEF Queued
  <2> QED
    BY <2>1, <2>2 DEF Subscribes, Typed, Numbers
<1>2. HandshakeSound' /\ KeysAgree' /\ NumberUnused'
  BY <1>1 DEF HandshakeSound, Challenged, KeysAgree, NumberUnused
<1>3. budget'.slow <= budget.slow
  BY <1>1 DEF Typed, Budgets
<1>4. Recent \subseteq Recent' /\ conn \in Recent'
  BY <1>1, <1>3, RecentStays DEF Numbers
<1>5. CASE Tracked
  <2>1. sess' = sess /\ Noted' = Noted /\ InUse' = InUse
    BY <1>1, <1>5 DEF Subscribes, Noted, InUse
  <2>2. NumbersRecent' /\ ChallengesUnanswered'
    BY <1>1, <1>4, <2>1 DEF IInv, NumbersRecent, ChallengesUnanswered
  <2> QED
    BY <1>2, <2>2 DEF IInv
<1>6. CASE ~Tracked
  <2>1. Noted' = Noted \cup {Challenge(conn)}
    BY <1>6, NotedMore, ElemsOfShort DEF Subscribes
  <2>2. sess'.conn = conn /\ sess'.state = "waitReply" /\ conn \notin InUse
    BY <1>6 DEF Subscribes, IInv, NumberUnused
  <2>3. InUse' \subseteq InUse \cup {conn}
    BY <1>1, <2>1 DEF InUse, KeyFrames
  <2>4. NumbersRecent'
    BY <1>4, <2>3 DEF IInv, NumbersRecent
  <2>5. ChallengesUnanswered'
    BY <1>1, <2>1, <2>2 DEF IInv, ChallengesUnanswered, InUse, KeyFrames
  <2> QED
    BY <1>2, <2>4, <2>5 DEF IInv
<1> QED
  BY <1>5, <1>6

\* What the loop of connectAndHandshake() does with a frame.
LEMMA HandleFrameFacts ==
  ASSUME Typed, HandleFrame
  PROVE  /\ pc = "handshake" /\ conn \in Numbers
         /\ Queued' \subseteq Queued /\ Noted' = Noted
         /\ UNCHANGED <<conn, sess, notes, budget>>
         /\ linkUp' => linkUp
         /\ pc' = "off" => ~linkUp'
         /\ \/ \E n \in Numbers :
                 /\ Challenge(n) \in Queued /\ crypt' = OnChallenge(n)
                 /\ Replies(Echo(n))
            \/ /\ crypt.unsec \in Numbers /\ PeerPubkey(crypt.unsec) \in Queued
               /\ crypt' = OnPeerPubkey(crypt.unsec) /\ Replies(MyPubkey(crypt.unsec, conn))
            \/ /\ crypt.unsec \in Numbers /\ PubkeyOk(crypt.unsec) \in Queued
               /\ crypt' = OnPubkeyAccepted /\ pc' = "ready" /\ UNCHANGED <<writes, linkUp>>
            \/ UNCHANGED <<crypt, writes>> /\ pc' \in {"handshake", "off"}
<1> DEFINE f == Head(rx)
<1>1. f \in Frames /\ f \in Queued /\ Queued' \subseteq Queued
  BY SeqSteps, ElemsSteps DEF HandleFrame, Typed, Queued
<1>2. /\ pc = "handshake" /\ conn \in Numbers /\ Noted' = Noted
      /\ UNCHANGED <<conn, sess, notes, budget>>
      /\ (linkUp' => linkUp) /\ (pc' = "off" => ~linkUp')
  BY DEF HandleFrame, Replies, Fails, Typed, Numbers, Noted
<1>3. CASE Verdict(f) = "challenge" /\ crypt' = OnChallenge(f.n) /\ Replies(Echo(f.n))
  <2>1. PICK n \in Numbers : f = Challenge(n)
    BY <1>1, <1>3, VerdictMeans
  <2>2. f.n = n
    BY <2>1
  <2> QED
    BY <1>1, <1>2, <1>3, <2>1, <2>2, Zenon
<1>4. CASE /\ Verdict(f) = "pubkey" /\ crypt' = OnPeerPubkey(f.pub)
           /\ Replies(MyPubkey(crypt.unsec, conn))
  <2>1. crypt.unsec \in Numbers /\ f = PeerPubkey(crypt.unsec)
    BY <1>1, <1>4, VerdictMeans
  <2>2. f.pub = crypt.unsec
    BY <2>1
  <2> QED
    BY <1>1, <1>2, <1>4, <2>1, <2>2, Zenon
<1>5. CASE /\ Verdict(f) = "pubkeyOk" /\ crypt' = OnPubkeyAccepted
           /\ pc' = "ready" /\ UNCHANGED <<writes, linkUp>>
  <2>1. crypt.unsec \in Numbers /\ f = PubkeyOk(crypt.unsec)
    BY <1>1, <1>5, VerdictMeans
  <2> QED
    BY <1>1, <1>2, <1>5, <2>1, Zenon
<1>6. CASE UNCHANGED <<crypt, writes>> /\ pc' \in {"handshake", "off"}
  BY <1>1, <1>2, <1>6
<1> QED
  BY <1>2, <1>3, <1>4, <1>5, <1>6 DEF HandleFrame, Fails

LEMMA HandleFrameSound == ASSUME Typed, Typed', IInv, HandleFrame PROVE IInv'
<1>1. /\ pc = "handshake" /\ conn \in Numbers
      /\ Queued' \subseteq Queued /\ Noted' = Noted
      /\ UNCHANGED <<conn, sess, notes, budget>>
      /\ linkUp' => linkUp
      /\ pc' = "off" => ~linkUp'
  BY HandleFrameFacts
<1>2. Recent' = Recent /\ 0 \notin Numbers /\ conn' = conn
  BY <1>1 DEF Recent, Age, Numbers
<1>a. pc' # "linked"
  BY <1>1 DEF HandleFrame, Replies, Fails
<1>b. /\ NumberUnused'
      /\ InUse' \subseteq InUse => NumbersRecent'
  BY <1>a, <1>2 DEF IInv, NumberUnused, NumbersRecent
<1>3. CASE \E n \in Numbers : /\ Challenge(n) \in Queued /\ crypt' = OnChallenge(n)
                             /\ Replies(Echo(n))
  <2>1. PICK n \in Numbers : /\ Challenge(n) \in Queued /\ crypt' = OnChallenge(n)
                            /\ Replies(Echo(n))
    BY <1>3
  <2>2. /\ crypt'.unsec = n /\ crypt'.peer = crypt.peer /\ crypt'.my = crypt.my
        /\ crypt'.sec = crypt.sec
    BY <2>1 DEF OnChallenge, Typed, Crypts
  <2>3. InUse' \subseteq InUse
    BY <1>1, <2>1 DEF InUse, Replies, KeyFrames
  <2>4. /\ writes' \subseteq writes \cup {Echo(n)} /\ (linkUp' => pc' = pc)
        /\ (writes' # writes => linkUp)
    BY <2>1 DEF Replies, Fails
  <2>5. ChallengesUnanswered'
    <3>1. Challenge(n) \in Noted' => Challenge(n) \in Noted /\ Challenge(n) \notin Queued
      BY <1>1 DEF IInv, ChallengesUnanswered
    <3> QED
      BY <1>1, <2>1, <2>4, <3>1 DEF IInv, ChallengesUnanswered
  <2>6. \A k \in Numbers : Challenged(k)' => Challenged(k)
    BY <1>1, <2>1, <2>2 DEF Challenged
  <2>7. HandshakeSound'
    BY <1>1, <2>1, <2>2, <2>4, <2>6
    DEF IInv, HandshakeSound, KeyIsNew, AcceptedKeyAgrees
  <2> QED
    BY <1>1, <1>b, <2>3, <2>4, <2>5, <2>7 DEF IInv, KeysAgree
<1>4. CASE /\ crypt.unsec \in Numbers /\ PeerPubkey(crypt.unsec) \in Queued
           /\ crypt' = OnPeerPubkey(crypt.unsec) /\ Replies(MyPubkey(crypt.unsec, conn))
  <2>1. /\ crypt'.unsec = crypt.unsec /\ crypt'.peer = crypt.unsec /\ crypt'.my = conn
        /\ crypt'.sec = crypt.sec
    BY <1>4 DEF OnPeerPubkey, Typed, Crypts
  <2>2. /\ writes' \subseteq writes \cup {MyPubkey(crypt.unsec, conn)}
        /\ (linkUp' => pc' = pc) /\ (writes' # writes => linkUp)
    BY <1>4 DEF Replies, Fails
  <2>3. PeerPubkey(crypt.unsec) \in KeyFrames(crypt.unsec) \cap (Noted \cup Queued)
    BY <1>4 DEF KeyFrames
  <2>4. InUse' \subseteq InUse
    BY <1>1, <1>4, <2>2, <2>3 DEF InUse
  <2>5. linkUp => crypt.unsec = sess.conn
    BY <1>1, <1>4, <2>3, Zenon DEF IInv, HandshakeSound, Challenged
  <2>6. ChallengesUnanswered'
    <3>1. Challenge(crypt.unsec) \notin Noted
      BY <1>4, <2>3 DEF IInv, ChallengesUnanswered
    <3> QED
      BY <1>1, <2>2, <3>1 DEF IInv, ChallengesUnanswered
  <2>7. \A k \in Numbers : Challenged(k)' => Challenged(k)
    BY <1>1, <2>1 DEF Challenged
  <2>8. HandshakeSound'
    <3> SUFFICES ASSUME pc' = "handshake", linkUp', NEW k \in Numbers, Challenged(k)'
                 PROVE  IF k = sess.conn THEN KeyIsNew(k)' /\ AcceptedKeyAgrees(k)'
                        ELSE KeyFrames(k) \cap (Noted' \cup Queued') = {}
      BY <1>1 DEF HandshakeSound
    <3>1. CASE k = sess.conn
      <4>1. KeyIsNew(k) /\ AcceptedKeyAgrees(k) /\ crypt.unsec = k
        BY <1>1, <2>5, <2>7, <3>1 DEF IInv, HandshakeSound
      <4> QED
        BY <1>1, <2>1, <2>2, <3>1, <4>1 DEF KeyIsNew, AcceptedKeyAgrees
    <3>2. CASE k # sess.conn
      <4>1. KeyFrames(k) \cap (Noted \cup Queued) = {}
        BY <1>1, <2>7, <3>2 DEF IInv, HandshakeSound
      <4> QED
        BY <1>1, <3>2, <4>1
    <3> QED
      BY <3>1, <3>2
  <2> QED
    BY <1>1, <1>b, <2>2, <2>4, <2>6, <2>8 DEF IInv, KeysAgree
<1>5. CASE /\ crypt.unsec \in Numbers /\ PubkeyOk(crypt.unsec) \in Queued
           /\ crypt' = OnPubkeyAccepted /\ pc' = "ready" /\ UNCHANGED <<writes, linkUp>>
  <2>1. crypt'.sec = <<crypt.peer, crypt.my>>
    BY <1>5 DEF OnPubkeyAccepted, Typed, Crypts
  <2>2. InUse' \subseteq InUse
    BY <1>1, <1>5 DEF InUse, KeyFrames
  <2>3. PubkeyOk(crypt.unsec) \in KeyFrames(crypt.unsec) \cap (Noted \cup Queued)
    BY <1>5 DEF KeyFrames
  <2>4. KeysAgree'
    <3>1. linkUp => crypt.unsec = sess.conn /\ AcceptedKeyAgrees(crypt.unsec)
      BY <1>1, <1>5, <2>3, Zenon DEF IInv, HandshakeSound, Challenged
    <3>2. linkUp => /\ crypt.peer = sess.conn /\ crypt.my = conn
                    /\ sess.state = "secure" /\ sess.sec = <<sess.conn, conn>>
      BY <1>5, <3>1 DEF AcceptedKeyAgrees
    <3> QED
      BY <1>1, <1>5, <2>1, <3>2 DEF KeysAgree
  <2>5. ChallengesUnanswered'
    BY <1>1, <1>5 DEF IInv, ChallengesUnanswered
  <2> QED
    BY <1>5, <1>b, <2>2, <2>4, <2>5 DEF IInv, HandshakeSound
<1>6. CASE UNCHANGED <<crypt, writes>> /\ pc' \in {"handshake", "off"}
  <2>1. InUse' \subseteq InUse
    BY <1>1, <1>6 DEF InUse, KeyFrames
  <2>2. ChallengesUnanswered'
    BY <1>1, <1>6 DEF IInv, ChallengesUnanswered
  <2>3. HandshakeSound'
    BY <1>1, <1>6 DEF IInv, HandshakeSound, Challenged, KeyIsNew, AcceptedKeyAgrees
  <2> QED
    BY <1>6, <1>b, <2>1, <2>2, <2>3 DEF IInv, KeysAgree
<1> QED
  BY <1>3, <1>4, <1>5, <1>6, HandleFrameFacts

\* What DeviceSession.handle() makes of a write: the session moves on, dies or
\* stays, and what it sends follows from where it was.
LEMMA WrittenFacts ==
  ASSUME Typed, Written
  PROVE  /\ writes' \subseteq writes /\ writes # {} /\ Noted \subseteq Noted'
         /\ UNCHANGED <<panelVars, linkUp, budget>> /\ Queued' = Queued
         /\ sess'.conn = sess.conn /\ (sess' = NoSession <=> sess = NoSession)
         /\ \/ /\ sess'.state = sess.state /\ sess'.sec = sess.sec
               /\ Noted' \subseteq Noted \cup {Modbus(k) : k \in Keys}
            \/ /\ sess # NoSession /\ sess.state = "waitReply" /\ Echo(sess.conn) \in writes
               /\ Noted' = Noted \cup {Accepted, PeerPubkey(sess.conn)}
            \/ \E m \in Numbers :
                 /\ sess # NoSession /\ sess.state = "waitPubkey"
                 /\ MyPubkey(sess.conn, m) \in writes
                 /\ Noted' = Noted \cup {PubkeyOk(sess.conn)}
                 /\ sess'.state = "secure" /\ sess'.sec = <<sess.conn, m>>
            \/ sess.state # "secure" /\ sess'.state = "dead" /\ Noted' = Noted
<1>1. PICK w \in writes :
        /\ writes' = writes \ {w}
        /\ \/ sess = NoSession /\ UNCHANGED <<sess, notes>>
           \/ /\ sess # NoSession
              /\ sess' = [sess EXCEPT !.state = Answer(w).state, !.sec = Answer(w).sec]
              /\ notes' = IF Answer(w).out = <<>> THEN notes ELSE notes \cup {Answer(w).out}
  BY DEF Written
<1>2. UNCHANGED <<panelVars, linkUp, budget>> /\ Queued' = Queued
  BY DEF Written, Queued
<1>3. CASE sess = NoSession
  BY <1>1, <1>2, <1>3 DEF Noted
<1> SUFFICES ASSUME sess # NoSession
             PROVE  /\ Noted \subseteq Noted'
                    /\ sess'.conn = sess.conn /\ sess' # NoSession
                    /\ \/ /\ sess'.state = sess.state /\ sess'.sec = sess.sec
                          /\ Noted' \subseteq Noted \cup {Modbus(k) : k \in Keys}
                       \/ /\ sess.state = "waitReply" /\ Echo(sess.conn) \in writes
                          /\ Noted' = Noted \cup {Accepted, PeerPubkey(sess.conn)}
                       \/ \E m \in Numbers :
                            /\ sess.state = "waitPubkey" /\ MyPubkey(sess.conn, m) \in writes
                            /\ Noted' = Noted \cup {PubkeyOk(sess.conn)}
                            /\ sess'.state = "secure" /\ sess'.sec = <<sess.conn, m>>
                       \/ sess.state # "secure" /\ sess'.state = "dead" /\ Noted' = Noted
  BY <1>1, <1>2, <1>3
<1> DEFINE a == Answer(w)
<1>4. /\ sess'.conn = sess.conn /\ sess'.state = a.state /\ sess'.sec = a.sec
      /\ sess' # NoSession /\ sess.conn \in Numbers
  <2>1. sess.conn \in Numbers
    BY DEF Typed, Sessions, Numbers
  <2>2. sess'.conn = sess.conn /\ sess'.state = a.state /\ sess'.sec = a.sec
    BY <1>1 DEF Typed, Sessions
  <2> QED
    BY <2>1, <2>2 DEF NoSession, Numbers
<1>5. /\ a.out = <<>> => Noted' = Noted /\ notes' = notes
      /\ a.out # <<>> => Noted' = Noted \cup Elems(a.out)
  BY <1>1, NotedMore DEF Noted
<1>6. CASE sess.state = "waitReply" /\ w = Echo(sess.conn)
  <2>1. a.out = <<Accepted, PeerPubkey(sess.conn)>>
    BY <1>6 DEF Answer
  <2>2. a.out # <<>>
    BY <2>1
  <2>3. Elems(a.out) = {Accepted, PeerPubkey(sess.conn)}
    BY <2>1, ElemsOfNote
  <2>4. Noted' = Noted \cup {Accepted, PeerPubkey(sess.conn)}
    BY <1>5, <2>2, <2>3, Zenon
  <2>5. Echo(sess.conn) \in writes
    BY <1>1, <1>6
  <2> QED
    BY <1>4, <1>6, <2>4, <2>5
<1>7. CASE sess.state = "waitPubkey" /\ w.kind = "mypub" /\ w.key = sess.conn
  <2>1. PICK n \in Numbers, m \in Numbers : w = MyPubkey(n, m)
    BY <1>1, <1>7 DEF Typed, Requests
  <2>2. w = MyPubkey(sess.conn, m) /\ w.pub = m
    BY <1>7, <2>1
  <2>3. a = [state |-> "secure", sec |-> <<sess.conn, m>>, out |-> <<PubkeyOk(sess.conn)>>]
    BY <1>7, <2>2 DEF Answer
  <2>4. a.out # <<>> /\ a.state = "secure" /\ a.sec = <<sess.conn, m>>
    BY <2>3
  <2>5. Elems(a.out) = {PubkeyOk(sess.conn)}
    <3>1. a.out = <<PubkeyOk(sess.conn)>>
      BY <2>3
    <3> QED
      BY <3>1, ElemsOfNote
  <2>6. Noted' = Noted \cup {PubkeyOk(sess.conn)}
    BY <1>5, <2>4, <2>5, Zenon
  <2>7. MyPubkey(sess.conn, m) \in writes
    BY <1>1, <2>2
  <2> QED
    BY <1>4, <1>7, <2>4, <2>6, <2>7
<1>8. CASE sess.state = "secure"
  <2>1. /\ a.state = "secure" /\ a.sec = sess.sec
        /\ a.out = <<>> \/ a.out = <<Modbus(sess.sec)>>
    BY <1>8 DEF Answer
  <2>2. a.out # <<>> => Elems(a.out) = {Modbus(sess.sec)}
    BY <2>1, ElemsOfShort
  <2>3. Modbus(sess.sec) \in {Modbus(k) : k \in Keys}
    BY DEF Typed, Sessions
  <2>4. Noted \subseteq Noted' /\ Noted' \subseteq Noted \cup {Modbus(k) : k \in Keys}
    BY <1>5, <2>2, <2>3, Zenon
  <2> QED
    BY <1>4, <1>8, <2>1, <2>4
<1>9. CASE /\ ~(sess.state = "waitReply" /\ w = Echo(sess.conn))
           /\ ~(sess.state = "waitPubkey" /\ w.kind = "mypub" /\ w.key = sess.conn)
           /\ sess.state # "secure"
  <2>1. a = [state |-> "dead", sec |-> <<>>, out |-> <<>>]
    BY <1>9 DEF Answer
  <2> QED
    BY <1>4, <1>5, <1>9, <2>1
<1> QED
  BY <1>6, <1>7, <1>8, <1>9

LEMMA WrittenSound == ASSUME Typed, Typed', IInv, Written PROVE IInv'
<1>1. /\ writes' \subseteq writes /\ writes # {} /\ Noted \subseteq Noted'
      /\ pc' = pc /\ crypt' = crypt /\ conn' = conn /\ linkUp' = linkUp
      /\ budget' = budget /\ Queued' = Queued
      /\ sess'.conn = sess.conn /\ (sess' = NoSession <=> sess = NoSession)
  BY WrittenFacts
<1>2. Recent' = Recent
  BY <1>1 DEF Recent, Age
<1>3. sess # NoSession => sess.conn \in Numbers
  BY DEF Typed, Sessions, Numbers
<1>4. /\ InUse' \subseteq InUse => NumbersRecent' /\ NumberUnused'
      /\ \A n \in Numbers : Challenged(n)' = Challenged(n)
      /\ \A n \in Numbers : KeyIsNew(n) => KeyIsNew(n)'
  BY <1>1, <1>2 DEF IInv, NumbersRecent, NumberUnused, Challenged, KeyIsNew
<1> DEFINE c == sess.conn
\* Only frames of the tracked session are added, and what the panel has of
\* another challenge still leads nowhere.
<1>5. ASSUME \A n \in Numbers \ {c} :
               KeyFrames(n) \cap (Noted' \cup Queued') = KeyFrames(n) \cap (Noted \cup Queued),
             pc = "handshake" /\ linkUp /\ c \in Numbers /\ Challenged(c)
               /\ KeyIsNew(c) /\ AcceptedKeyAgrees(c) => AcceptedKeyAgrees(c)'
      PROVE  HandshakeSound'
  <2> SUFFICES ASSUME pc = "handshake", linkUp, NEW n \in Numbers, Challenged(n)
               PROVE  IF n = c THEN KeyIsNew(n)' /\ AcceptedKeyAgrees(n)'
                      ELSE KeyFrames(n) \cap (Noted' \cup Queued') = {}
    BY <1>1, <1>4 DEF HandshakeSound
  <2>1. CASE n = c
    <3>1. KeyIsNew(c) /\ AcceptedKeyAgrees(c) /\ Challenged(c)
      BY <2>1 DEF IInv, HandshakeSound
    <3>2. KeyIsNew(n)'
      <4>1. KeyIsNew(n)
        BY <2>1, <3>1
      <4> QED
        BY <1>4, <4>1
    <3>3. AcceptedKeyAgrees(c)'
      BY <1>5, <2>1, <3>1
    <3>4. AcceptedKeyAgrees(n)'
      BY <1>1, <2>1, <3>3 DEF AcceptedKeyAgrees
    <3> QED
      BY <2>1, <3>2, <3>4
  <2>2. CASE n # c
    BY <1>5, <2>2 DEF IInv, HandshakeSound
  <2> QED
    BY <2>1, <2>2
\* What each kind of write does to the frames in flight.
<1>a. CASE /\ sess'.state = sess.state /\ sess'.sec = sess.sec
           /\ Noted' \subseteq Noted \cup {Modbus(k) : k \in Keys}
  <2>1. \A n \in Numbers : Challenge(n) \in Noted' => Challenge(n) \in Noted
    BY <1>a
  <2>2. \A n \in Numbers : KeyFrames(n) \cap (Noted' \cup Queued') = KeyFrames(n) \cap (Noted \cup Queued)
    BY <1>a, <1>1 DEF KeyFrames
  <2>3. InUse' \subseteq InUse
    BY <1>1, <2>1, <2>2 DEF InUse
  <2>4. ChallengesUnanswered'
    BY <1>1, <1>a, <2>1, <2>2 DEF IInv, ChallengesUnanswered
  <2>5. AcceptedKeyAgrees(c) => AcceptedKeyAgrees(c)'
    BY <1>a, <1>1 DEF AcceptedKeyAgrees
  <2>6. HandshakeSound'
    BY <1>5, <2>2, <2>5
  <2> QED
    BY <1>1, <1>4, <1>a, <2>3, <2>4, <2>6 DEF IInv, KeysAgree
<1>b. CASE /\ sess # NoSession /\ sess.state = "waitReply" /\ Echo(c) \in writes
           /\ Noted' = Noted \cup {Accepted, PeerPubkey(c)}
  <2>1. \A n \in Numbers : Challenge(n) \in Noted' => Challenge(n) \in Noted
    BY <1>b
  <2>2. \A n \in Numbers \ {c} :
          KeyFrames(n) \cap (Noted' \cup Queued') = KeyFrames(n) \cap (Noted \cup Queued)
    BY <1>b, <1>1 DEF KeyFrames
  <2>3. InUse' \subseteq InUse
    BY <1>1, <1>3, <1>b, <2>1, <2>2 DEF InUse
  <2>4. ChallengesUnanswered'
    BY <1>1, <1>3, <1>b, <2>1, <2>2 DEF IInv, ChallengesUnanswered
  <2>5. AcceptedKeyAgrees(c) => AcceptedKeyAgrees(c)'
    BY <1>b, <1>1 DEF AcceptedKeyAgrees
  <2>6. HandshakeSound'
    BY <1>5, <2>2, <2>5
  <2> QED
    BY <1>1, <1>4, <1>b, <2>3, <2>4, <2>6 DEF IInv, KeysAgree
<1>c. CASE \E m \in Numbers :
             /\ sess # NoSession /\ sess.state = "waitPubkey" /\ MyPubkey(c, m) \in writes
             /\ Noted' = Noted \cup {PubkeyOk(c)}
             /\ sess'.state = "secure" /\ sess'.sec = <<c, m>>
  <2>0. PICK m \in Numbers :
          /\ sess # NoSession /\ sess.state = "waitPubkey" /\ MyPubkey(c, m) \in writes
          /\ Noted' = Noted \cup {PubkeyOk(c)}
          /\ sess'.state = "secure" /\ sess'.sec = <<c, m>>
    BY <1>c
  <2>1. \A n \in Numbers : Challenge(n) \in Noted' => Challenge(n) \in Noted
    BY <2>0
  <2>2. \A n \in Numbers \ {c} :
          KeyFrames(n) \cap (Noted' \cup Queued') = KeyFrames(n) \cap (Noted \cup Queued)
    BY <2>0, <1>1 DEF KeyFrames
  <2>3. InUse' \subseteq InUse
    BY <1>1, <1>3, <2>0, <2>1, <2>2 DEF InUse
  <2>4. ChallengesUnanswered'
    BY <1>1, <1>3, <2>0, <2>1, <2>2 DEF IInv, ChallengesUnanswered
  <2>5. KeyIsNew(c) => AcceptedKeyAgrees(c)'
    BY <1>1, <2>0 DEF KeyIsNew, AcceptedKeyAgrees
  <2>6. HandshakeSound'
    BY <1>5, <2>2, <2>5
  <2> QED
    BY <1>1, <1>4, <2>0, <2>3, <2>4, <2>6 DEF IInv, KeysAgree
<1>d. CASE sess.state # "secure" /\ sess'.state = "dead" /\ Noted' = Noted
  <2>1. InUse' \subseteq InUse
    BY <1>1, <1>d DEF InUse, KeyFrames
  <2>2. ChallengesUnanswered'
    BY <1>1, <1>d DEF IInv, ChallengesUnanswered
  <2>3. AcceptedKeyAgrees(c) => AcceptedKeyAgrees(c)'
    BY <1>1, <1>d DEF AcceptedKeyAgrees
  <2>4. HandshakeSound'
    BY <1>1, <1>5, <1>d, <2>3
  <2> QED
    BY <1>1, <1>4, <1>d, <2>1, <2>2, <2>4 DEF IInv, KeysAgree
<1> QED
  BY <1>a, <1>b, <1>c, <1>d, WrittenFacts

\* A coroutine's next frame reaches g_q or nobody.
LEMMA FrameLeavesSound ==
  ASSUME Typed, Typed', IInv, UNCHANGED <<pc, crypt, conn, sess, writes, linkUp>>,
         budget'.slow = budget.slow,
         NEW s \in notes,
         notes' = (notes \ {s}) \cup (IF Len(s) > 1 THEN {Tail(s)} ELSE {}),
         Queued' \subseteq Queued \cup {Head(s)}, pc = "linked" => Queued' = {}
  PROVE  IInv'
<1>1. /\ Noted' \subseteq Noted /\ Head(s) \in Noted
      /\ \A n \in Numbers : Head(s) = Challenge(n) => Challenge(n) \notin Noted'
  BY NotedTail DEF Typed
<1>2. InUse' \subseteq InUse /\ Recent' = Recent
  BY <1>1 DEF InUse, KeyFrames, Recent, Age
<1>3. NumbersRecent' /\ NumberUnused'
  BY <1>2 DEF IInv, NumbersRecent, NumberUnused
<1>4. ChallengesUnanswered'
  BY <1>1 DEF IInv, ChallengesUnanswered, KeyFrames
<1>5. HandshakeSound'
  <2>1. Noted' \cup Queued' \subseteq Noted \cup Queued
    BY <1>1
  <2>2. ASSUME NEW n \in Numbers
        PROVE  /\ KeyIsNew(n)' = KeyIsNew(n)
               /\ AcceptedKeyAgrees(n) => AcceptedKeyAgrees(n)'
               /\ Challenged(n)' => Challenged(n) \/ Challenge(n) \in Noted
    BY <1>1, <2>1 DEF KeyIsNew, AcceptedKeyAgrees, Challenged
  <2>3. ASSUME NEW n \in Numbers, Challenge(n) \in Noted
        PROVE  /\ KeyFrames(n) \cap (Noted \cup Queued) = {}
               /\ KeyIsNew(n) /\ AcceptedKeyAgrees(n)
    BY <2>3 DEF IInv, ChallengesUnanswered, KeyIsNew, AcceptedKeyAgrees, KeyFrames
  <2> SUFFICES ASSUME pc = "handshake", linkUp, NEW n \in Numbers, Challenged(n)'
               PROVE  IF n = sess.conn THEN KeyIsNew(n)' /\ AcceptedKeyAgrees(n)'
                      ELSE KeyFrames(n) \cap (Noted' \cup Queued') = {}
    BY DEF HandshakeSound
  <2>4. CASE Challenged(n)
    BY <2>1, <2>2, <2>4 DEF IInv, HandshakeSound
  <2>5. CASE Challenge(n) \in Noted
    BY <2>1, <2>2, <2>3, <2>5
  <2> QED
    BY <2>2, <2>4, <2>5
<1> QED
  BY <1>3, <1>4, <1>5 DEF IInv, KeysAgree

LEMMA InitSound == Init => IInv
<1> SUFFICES ASSUME Init PROVE IInv
  OBVIOUS
<1>1. Noted = {} /\ Queued = {}
  BY ElemsOfShort DEF Init, Noted, Queued
<1>2. InUse = {} /\ writes = {} /\ pc = "off"
  BY <1>1 DEF Init, InUse
<1> QED
  BY <1>1, <1>2
  DEF IInv, NumbersRecent, NumberUnused, ChallengesUnanswered, HandshakeSound, KeysAgree

LEMMA NextSound == Typed /\ Typed' /\ IInv /\ [Next]_vars => IInv'
<1> SUFFICES ASSUME Typed, Typed', IInv, [Next]_vars PROVE IInv'
  OBVIOUS
<1>a. budget \in [Budgets -> Nat] /\ budget.slow \in Nat /\ budget.slow <= MaxSlow
  BY DEF Typed, Budgets
<1>1. CASE Connects
  BY <1>1, ConnectsSound
<1>2. CASE Subscribes
  BY <1>2, SubscribesSound
<1>3. CASE HandleFrame
  BY <1>3, HandleFrameSound
<1>4. CASE HandshakeTimesOut
  <2>1. budget'.slow <= budget.slow
    BY <1>4, <1>a, SpendTyped DEF HandshakeTimesOut, Budgets
  <2> QED
    BY <1>4, <2>1, LinkGoneSound DEF HandshakeTimesOut, Fails
<1>5. CASE TakesFrame
  <2>1. Noted' = Noted /\ Queued' \subseteq Queued /\ pc = "ready" /\ Head(rx) \in Queued
    BY <1>5, ElemsSteps DEF TakesFrame, Typed, Noted, Queued
  <2>2. crypt'.sec = crypt.sec
    BY <1>5 DEF TakesFrame, OnChallenge, Typed, Crypts
  <2>3. InUse' \subseteq InUse /\ Recent' = Recent
    BY <1>5, <2>1 DEF TakesFrame, InUse, KeyFrames, Recent, Age
  <2>4. NumbersRecent'
    BY <2>3 DEF IInv, NumbersRecent
  <2>5. ChallengesUnanswered'
    BY <1>5, <2>1 DEF TakesFrame, IInv, ChallengesUnanswered, KeyFrames
  <2> QED
    BY <1>5, <2>1, <2>2, <2>4, <2>5
    DEF TakesFrame, IInv, NumberUnused, HandshakeSound, KeysAgree
<1>6. CASE NoticesLoss
  BY <1>6, <1>a, LinkGoneSound DEF NoticesLoss
<1>7. CASE SendsRequest
  <2>1. /\ Noted' = Noted /\ Queued' = Queued /\ InUse' = InUse /\ Recent' = Recent
        /\ pc = "ready" /\ linkUp
    BY <1>7 DEF SendsRequest, Noted, Queued, InUse, Recent, Age
  <2> QED
    BY <1>7, <2>1
    DEF SendsRequest, IInv, NumbersRecent, NumberUnused, ChallengesUnanswered, HandshakeSound,
        KeysAgree
<1>8. CASE Drops
  <2>1. budget'.slow <= budget.slow
    BY <1>8, <1>a, SpendTyped DEF Drops, Budgets
  <2> QED
    BY <1>8, <2>1, LinkGoneSound DEF Drops, Fails
<1>9. CASE Written
  BY <1>9, WrittenSound
<1>10. CASE Notifies
  <2>1. PICK s \in notes :
          /\ notes' = (notes \ {s}) \cup (IF Len(s) > 1 THEN {Tail(s)} ELSE {})
          /\ rx' = IF Listening THEN Received(Head(s)) ELSE rx
    BY <1>10 DEF Notifies
  <2>2. Head(s) \in Frames
    BY <2>1, NoteSteps DEF Typed
  <2>3. Queued' \subseteq Queued \cup {Head(s)}
    BY <2>1, <2>2, ElemsSteps DEF Received, Queued, Typed
  <2>4. pc = "linked" => Queued' = {}
    BY <2>1, ElemsOfShort DEF Listening, Queued, Typed
  <2> QED
    BY <1>10, <2>1, <2>3, <2>4, FrameLeavesSound DEF Notifies
<1>11. CASE Unsubscribed
  <2>1. Noted' = Noted /\ Queued' = Queued /\ InUse' = InUse /\ Recent' = Recent
    BY <1>11 DEF Unsubscribed, Noted, Queued, InUse, Recent, Age
  <2>2. \A n \in Numbers : sess'.conn # n
    BY <1>11 DEF Unsubscribed, NoSession, Numbers
  <2> QED
    BY <1>11, <2>1, <2>2
    DEF Unsubscribed, Listening, IInv, NumbersRecent, NumberUnused, ChallengesUnanswered,
        HandshakeSound, KeysAgree
<1>12. CASE ConnectFails
  <2>1. budget'.slow <= budget.slow
    BY <1>12, <1>a, SpendTyped DEF ConnectFails, Budgets
  <2> QED
    BY <1>12, <2>1, LinkGoneSound DEF ConnectFails
<1>13. CASE NotificationLost
  <2>1. PICK s \in notes :
          notes' = (notes \ {s}) \cup (IF Len(s) > 1 THEN {Tail(s)} ELSE {})
    BY <1>13 DEF NotificationLost
  <2>2. budget'.slow = budget.slow
    BY <1>13, <1>a, SpendTyped DEF NotificationLost, Budgets
  <2>3. Queued' = Queued /\ (pc = "linked" => Queued' = {})
    BY <1>13, ElemsOfShort DEF NotificationLost, Queued, Typed
  <2> QED
    BY <1>13, <2>1, <2>2, <2>3, FrameLeavesSound DEF NotificationLost
<1>14. CASE LinkLost
  <2>1. budget'.slow <= budget.slow
    BY <1>14, <1>a, SpendTyped DEF LinkLost, Budgets
  <2> QED
    BY <1>14, <2>1, LinkGoneSound DEF LinkLost
<1>15. CASE UNCHANGED vars
  BY <1>15 DEF vars, IInv, NumbersRecent, NumberUnused, ChallengesUnanswered, HandshakeSound,
     KeysAgree, InUse, Recent, Age, Noted, Queued, Challenged, KeyIsNew, AcceptedKeyAgrees
<1> QED
  BY <1>1, <1>2, <1>3, <1>4, <1>5, <1>6, <1>7, <1>8, <1>9, <1>10, <1>11, <1>12, <1>13,
     <1>14, <1>15 DEF Next, Panel, Unit

\* Whatever frames, coroutines and sessions of earlier connections are still
\* about, even if the unit goes on with a session it already had, a panel that
\* considers the link ready and the unit's session hold one key, which the panel
\* made for this connection with the key pair of that very session.
THEOREM LinkKeysAgree == Spec => []KeysAgree
<1>1. Typed /\ IInv /\ [Next]_vars => Typed' /\ IInv'
  BY NextTyped, NextSound
<1>2. Init => Typed /\ IInv
  BY InitTyped, InitSound
<1>3. IInv => KeysAgree
  BY DEF IInv
<1> QED
  BY <1>1, <1>2, <1>3, PTL DEF Spec

-----------------------------------------------------------------------------
(* Why a handshake nothing disturbs succeeds.                              *)

HIDE DEF Challenge, Accepted, PeerPubkey, PubkeyOk, Modbus, Echo, MyPubkey

\* One stage of the exchange: what the panel knows, the state of the session,
\* and what is under way in a write, in a notification or in g_q.
Stage(unsec, peer, state, w, n, r) ==
  /\ crypt.unsec = unsec /\ crypt.peer = peer /\ sess.state = state
  /\ writes = w /\ notes = n /\ rx = r

Asks       == Stage(0, 0, "waitReply", {}, {<<Challenge(conn)>>}, <<>>)
Asked      == Stage(0, 0, "waitReply", {}, {}, <<Challenge(conn)>>)
Echoes     == Stage(conn, 0, "waitReply", {Echo(conn)}, {}, <<>>)
SendsKey   == Stage(conn, 0, "waitPubkey", {}, {<<Accepted, PeerPubkey(conn)>>}, <<>>)
Half       == Stage(conn, 0, "waitPubkey", {}, {<<PeerPubkey(conn)>>}, <<Accepted>>)
HalfTaken  == Stage(conn, 0, "waitPubkey", {}, {<<PeerPubkey(conn)>>}, <<>>)
KeySent    == Stage(conn, 0, "waitPubkey", {}, {}, <<Accepted, PeerPubkey(conn)>>)
KeyNext    == Stage(conn, 0, "waitPubkey", {}, {}, <<PeerPubkey(conn)>>)
Replied    == Stage(conn, conn, "waitPubkey", {MyPubkey(conn, conn)}, {}, <<>>)
Agrees     == Stage(conn, conn, "secure", {}, {<<PubkeyOk(conn)>>}, <<>>)
Agreed     == Stage(conn, conn, "secure", {}, {}, <<PubkeyOk(conn)>>)

AtStage ==
  \/ Asks \/ Asked \/ Echoes \/ SendsKey \/ Half \/ HalfTaken \/ KeySent \/ KeyNext
  \/ Replied \/ Agrees \/ Agreed

\* A clean handshake is at one of its stages: something is always under way,
\* and it is what the other side waits for.
OnPath ==
  pc = "handshake" /\ clean => linkUp /\ ~crypt.ready /\ sess.conn = conn /\ AtStage

\* Short sequences, as the stages write them.
LEMMA Short ==
  ASSUME NEW a, NEW b
  PROVE  /\ Head(<<a>>) = a /\ Tail(<<a>>) = <<>> /\ <<a>> # <<>> /\ Len(<<a>>) = 1
         /\ Head(<<a, b>>) = a /\ Tail(<<a, b>>) = <<b>> /\ <<a, b>> # <<>>
         /\ Len(<<a, b>>) = 2 /\ Append(<<>>, a) = <<a>> /\ Append(<<a>>, b) = <<a, b>>
         /\ Len(<<>>) = 0
<1>1. Head(<<a>>) = a /\ Len(<<a>>) = 1 /\ Head(<<a, b>>) = a /\ Len(<<a, b>>) = 2
  OBVIOUS
<1>2. <<a>> # <<>> /\ <<a, b>> # <<>> /\ Len(<<>>) = 0
  OBVIOUS
<1>3. Tail(<<a>>) = <<>>
  OBVIOUS
<1>4. Tail(<<a, b>>) = <<b>>
  OBVIOUS
<1>5. Append(<<>>, a) = <<a>>
  OBVIOUS
<1>6. Append(<<a>>, b) = <<a, b>>
  <2>1. <<a>> \in Seq({a, b}) /\ <<a, b>> \in Seq({a, b}) /\ b \in {a, b}
    OBVIOUS
  <2>2. /\ Append(<<a>>, b) \in Seq({a, b}) /\ Len(Append(<<a>>, b)) = 2
        /\ Append(<<a>>, b)[1] = a /\ Append(<<a>>, b)[2] = b
    BY <1>1, <2>1, AppendProperties
  <2>3. \A i \in 1 .. Len(Append(<<a>>, b)) : Append(<<a>>, b)[i] = <<a, b>>[i]
    BY <2>2
  <2> QED
    BY <1>1, <2>1, <2>2, <2>3, SeqEqual
<1> QED
  BY <1>1, <1>2, <1>3, <1>4, <1>5, <1>6

\* What handle() makes of the frames of this connection.
LEMMA VerdictOfStage ==
  ASSUME Typed, conn \in Numbers, ~crypt.ready
  PROVE  /\ Verdict(Challenge(conn)) = "challenge" /\ Verdict(Accepted) = "ignored"
         /\ crypt.unsec = conn => Verdict(PeerPubkey(conn)) = "pubkey"
         /\ crypt.unsec = conn /\ crypt.peer # 0 => Verdict(PubkeyOk(conn)) = "pubkeyOk"
         /\ Challenge(conn).n = conn /\ PeerPubkey(conn).pub = conn
<1>1. conn # 0 /\ crypt.ready = FALSE
  BY DEF Numbers, Typed, Crypts
<1> QED
  BY <1>1 DEF Verdict, Challenge, Accepted, PeerPubkey, PubkeyOk

LEMMA OnPathFrame ==
  ASSUME Typed, OnPath, pc = "handshake", clean, HandleFrame
  PROVE  OnPath' /\ pc' # "off"
<1>1. /\ conn' = conn /\ sess' = sess /\ notes' = notes /\ clean' = clean
      /\ rx # <<>> /\ rx' = Tail(rx)
      /\ conn \in Numbers /\ linkUp /\ ~crypt.ready /\ sess.conn = conn /\ conn # 0
  BY DEF HandleFrame, OnPath, Typed, Numbers
<1>2. CASE Asked
  <2>1. Head(rx) = Challenge(conn) /\ rx' = <<>>
    BY <1>1, <1>2, Short DEF Asked, Stage
  <2>2. Verdict(Head(rx)) = "challenge" /\ Head(rx).n = conn
    BY <1>1, <2>1, VerdictOfStage
  <2>3. crypt' = OnChallenge(conn) /\ Replies(Echo(conn))
    BY <2>2 DEF HandleFrame, Skipped
  <2>4. /\ crypt'.unsec = conn /\ crypt'.peer = crypt.peer /\ crypt'.ready = crypt.ready
        /\ writes' = writes \cup {Echo(conn)} /\ pc' = pc /\ linkUp' = linkUp
    BY <1>1, <2>3 DEF OnChallenge, Typed, Crypts, Replies
  <2>5. Echoes'
    BY <1>1, <1>2, <2>1, <2>4 DEF Asked, Echoes, Stage
  <2> QED
    BY <1>1, <2>4, <2>5 DEF OnPath, AtStage
<1>3. CASE Half \/ KeySent
  <2>1. Head(rx) = Accepted /\ crypt.unsec = conn
    BY <1>3, Short DEF Half, KeySent, Stage
  <2>2. Verdict(Head(rx)) = "ignored"
    BY <1>1, <2>1, VerdictOfStage
  <2>3. UNCHANGED <<pc, crypt, writes, linkUp>>
    BY <2>2 DEF HandleFrame, Skipped
  <2>4. Half => HalfTaken'
    BY <1>1, <2>3, Short DEF Half, HalfTaken, Stage
  <2>5. KeySent => KeyNext'
    BY <1>1, <2>3, Short DEF KeySent, KeyNext, Stage
  <2> QED
    BY <1>1, <1>3, <2>3, <2>4, <2>5 DEF OnPath, AtStage
<1>4. CASE KeyNext
  <2>1. Head(rx) = PeerPubkey(conn) /\ rx' = <<>> /\ crypt.unsec = conn
    BY <1>1, <1>4, Short DEF KeyNext, Stage
  <2>2. Verdict(Head(rx)) = "pubkey" /\ Head(rx).pub = conn
    BY <1>1, <2>1, VerdictOfStage
  <2>3. crypt' = OnPeerPubkey(conn) /\ Replies(MyPubkey(conn, conn))
    BY <2>1, <2>2 DEF HandleFrame, Skipped
  <2>4. /\ crypt'.unsec = conn /\ crypt'.peer = conn /\ crypt'.ready = crypt.ready
        /\ writes' = writes \cup {MyPubkey(conn, conn)} /\ pc' = pc /\ linkUp' = linkUp
    BY <1>1, <2>1, <2>3 DEF OnPeerPubkey, Typed, Crypts, Replies
  <2>5. Replied'
    BY <1>1, <1>4, <2>1, <2>4 DEF KeyNext, Replied, Stage
  <2> QED
    BY <1>1, <2>4, <2>5 DEF OnPath, AtStage
<1>5. CASE Agreed
  <2>1. Head(rx) = PubkeyOk(conn) /\ crypt.unsec = conn /\ crypt.peer # 0
    BY <1>1, <1>5, Short DEF Agreed, Stage
  <2>2. Verdict(Head(rx)) = "pubkeyOk"
    BY <1>1, <2>1, VerdictOfStage
  <2>3. pc' = "ready"
    BY <2>2 DEF HandleFrame, Skipped
  <2> QED
    BY <2>3 DEF OnPath
<1>6. rx # <<>> => Asked \/ Half \/ KeySent \/ KeyNext \/ Agreed
  BY DEF OnPath, AtStage, Stage, Asks, Echoes, SendsKey, HalfTaken, Replied, Agrees
<1> QED
  BY <1>1, <1>2, <1>3, <1>4, <1>5, <1>6

\* The session takes the write it waits for and sends what comes next.
LEMMA OnPathWritten ==
  ASSUME Typed, OnPath, pc = "handshake", clean, Written
  PROVE  OnPath' /\ pc' # "off"
<1>1. /\ conn' = conn /\ pc' = pc /\ crypt' = crypt /\ rx' = rx /\ linkUp' = linkUp
      /\ clean' = clean
      /\ conn \in Numbers /\ linkUp /\ ~crypt.ready /\ sess.conn = conn /\ conn # 0
      /\ sess # NoSession
  BY DEF Written, OnPath, Typed, Numbers, NoSession
<1>2. PICK w \in writes :
        /\ writes' = writes \ {w}
        /\ sess' = [sess EXCEPT !.state = Answer(w).state, !.sec = Answer(w).sec]
        /\ notes' = IF Answer(w).out = <<>> THEN notes ELSE notes \cup {Answer(w).out}
  BY <1>1, Zenon DEF Written
<1>3. sess'.conn = conn /\ sess'.state = Answer(w).state
  BY <1>1, <1>2 DEF Typed, Sessions
<1>4. CASE Echoes
  <2>1. w = Echo(conn) /\ writes' = {} /\ notes = {}
    BY <1>2, <1>4 DEF Echoes, Stage
  <2>2. sess.state = "waitReply"
    BY <1>4 DEF Echoes, Stage
  <2>3. Answer(w).state = "waitPubkey" /\ Answer(w).out = <<Accepted, PeerPubkey(conn)>>
    BY <1>1, <2>1, <2>2 DEF Answer
  <2>4. notes' = {<<Accepted, PeerPubkey(conn)>>}
    BY <1>2, <2>1, <2>3, Short
  <2>5. SendsKey'
    BY <1>1, <1>3, <1>4, <2>1, <2>3, <2>4 DEF Echoes, SendsKey, Stage
  <2> QED
    BY <1>1, <1>3, <2>5 DEF OnPath, AtStage
<1>5. CASE Replied
  <2>1. w = MyPubkey(conn, conn) /\ writes' = {} /\ notes = {}
    BY <1>2, <1>5 DEF Replied, Stage
  <2>2. sess.state = "waitPubkey" /\ w.kind = "mypub" /\ w.key = conn
    BY <1>5, <2>1 DEF Replied, Stage, MyPubkey
  <2>3. Answer(w).state = "secure" /\ Answer(w).out = <<PubkeyOk(conn)>>
    BY <1>1, <2>2 DEF Answer
  <2>4. notes' = {<<PubkeyOk(conn)>>}
    BY <1>2, <2>1, <2>3, Short
  <2>5. Agrees'
    BY <1>1, <1>3, <1>5, <2>1, <2>3, <2>4 DEF Replied, Agrees, Stage
  <2> QED
    BY <1>1, <1>3, <2>5 DEF OnPath, AtStage
<1> QED
  BY <1>2, <1>4, <1>5
  DEF OnPath, AtStage, Stage, Asks, Asked, SendsKey, Half, HalfTaken, KeySent, KeyNext, Agrees,
      Agreed

\* The next frame of the stage enters g_q, which has room for it.
LEMMA OnPathNotifies ==
  ASSUME Typed, OnPath, pc = "handshake", clean, Notifies, RxLen >= 2
  PROVE  OnPath' /\ pc' # "off"
<1>1. /\ conn' = conn /\ pc' = pc /\ crypt' = crypt /\ sess' = sess /\ writes' = writes
      /\ linkUp' = linkUp /\ clean' = clean
      /\ linkUp /\ ~crypt.ready /\ sess.conn = conn /\ Listening
  BY DEF Notifies, OnPath, Listening
<1>2. PICK s \in notes :
        /\ notes' = (notes \ {s}) \cup (IF Len(s) > 1 THEN {Tail(s)} ELSE {})
        /\ rx' = IF Len(rx) < RxLen THEN Append(rx, Head(s)) ELSE rx
  BY <1>1 DEF Notifies, Received
<1>3. ASSUME NEW a, notes = {<<a>>}
      PROVE  /\ notes' = {}
             /\ rx = <<>> => rx' = <<a>>
             /\ \A b : rx = <<b>> => rx' = <<b, a>>
  <2>1. s = <<a>> /\ Head(s) = a /\ Len(s) = 1
    BY <1>2, <1>3, Short
  <2>2. notes' = {}
    BY <1>2, <1>3, <2>1
  <2>3. rx = <<>> => rx' = <<a>>
    BY <1>2, <2>1, Short, BoundsAssumption
  <2>4. ASSUME NEW b, rx = <<b>> PROVE rx' = <<b, a>>
    <3>1. Len(rx) = 1
      BY <2>4, Short, Zenon
    <3>2. Len(rx) < RxLen
      BY <3>1, BoundsAssumption
    <3> QED
      BY <1>2, <2>1, <2>4, <3>2, Short
  <2> QED
    BY <2>2, <2>3, <2>4
<1>4. CASE Asks
  <2>1. Asked'
    BY <1>1, <1>3, <1>4 DEF Asks, Asked, Stage
  <2> QED
    BY <1>1, <2>1 DEF OnPath, AtStage
<1>5. CASE SendsKey
  <2>1. s = <<Accepted, PeerPubkey(conn)>> /\ notes = {s} /\ rx = <<>>
    BY <1>2, <1>5 DEF SendsKey, Stage
  <2>2. Len(s) = 2 /\ Head(s) = Accepted /\ Tail(s) = <<PeerPubkey(conn)>>
    BY <2>1, Short
  <2>3. notes' = {<<PeerPubkey(conn)>>}
    BY <1>2, <2>1, <2>2
  <2>4. rx' = <<Accepted>>
    BY <1>2, <2>1, <2>2, Short, BoundsAssumption
  <2>5. Half'
    BY <1>1, <1>5, <2>3, <2>4 DEF SendsKey, Half, Stage
  <2> QED
    BY <1>1, <2>5 DEF OnPath, AtStage
<1>6. CASE Half
  <2>1. KeySent'
    BY <1>1, <1>3, <1>6 DEF Half, KeySent, Stage
  <2> QED
    BY <1>1, <2>1 DEF OnPath, AtStage
<1>7. CASE HalfTaken
  <2>1. KeyNext'
    BY <1>1, <1>3, <1>7 DEF HalfTaken, KeyNext, Stage
  <2> QED
    BY <1>1, <2>1 DEF OnPath, AtStage
<1>8. CASE Agrees
  <2>1. Agreed'
    BY <1>1, <1>3, <1>8 DEF Agrees, Agreed, Stage
  <2> QED
    BY <1>1, <2>1 DEF OnPath, AtStage
<1> QED
  BY <1>2, <1>4, <1>5, <1>6, <1>7, <1>8
  DEF OnPath, AtStage, Stage, Asked, Echoes, KeySent, KeyNext, Replied, Agreed

\* A clean handshake begins with a unit that tracks nobody: it draws a challenge.
LEMMA SubscribesOnPath == ASSUME Typed, Subscribes PROVE OnPath'
<1> SUFFICES ASSUME clean' PROVE OnPath'
  BY DEF OnPath
<1>a. writes = {} /\ notes = {} /\ ~Tracked
  BY DEF Subscribes, NoneLeft, Tracked
<1>1. rx = <<>> /\ crypt.ready = FALSE /\ crypt.unsec = 0 /\ crypt.peer = 0
  BY DEF Typed, Subscribes, Crypts
<1>2. /\ writes' = {} /\ notes' = {<<Challenge(conn)>>} /\ rx' = <<>> /\ crypt' = crypt
      /\ conn' = conn /\ linkUp'
  BY <1>a, <1>1 DEF Subscribes
<1>3. sess'.conn = conn /\ sess'.state = "waitReply"
  BY <1>a DEF Subscribes
<1>4. Asks'
  BY <1>1, <1>2, <1>3 DEF Asks, Stage
<1> QED
  BY <1>1, <1>2, <1>3, <1>4 DEF OnPath, AtStage

\* Something is under way at every stage.
LEMMA NotQuiet == ASSUME OnPath, pc = "handshake", clean PROVE ~Quiet
BY Short
DEF OnPath, AtStage, Quiet, Stage, Asks, Asked, Echoes, SendsKey, Half, HalfTaken, KeySent,
    KeyNext, Replied, Agrees, Agreed

LEMMA NextOnPath ==
  ASSUME Typed, OnPath, [Next]_vars, RxLen >= 2
  PROVE  OnPath' /\ (pc = "handshake" /\ pc' = "off" => ~clean')
<1>1. CASE Subscribes
  BY <1>1, SubscribesOnPath DEF Subscribes
<1>2. CASE pc = "handshake" /\ clean
  <2>1. CASE HandleFrame
    BY <1>2, <2>1, OnPathFrame
  <2>2. CASE Written
    BY <1>2, <2>2, OnPathWritten
  <2>3. CASE Notifies
    BY <1>2, <2>3, OnPathNotifies
  <2>4. CASE HandshakeTimesOut
    BY <1>2, <2>4, NotQuiet DEF HandshakeTimesOut, OnPath, Fails
  <2>5. CASE NotificationLost \/ LinkLost
    BY <2>5 DEF NotificationLost, LinkLost, OnPath
  <2>6. CASE UNCHANGED vars
    BY <1>2, <2>6 DEF vars, OnPath, AtStage, Stage, Asks, Asked, Echoes, SendsKey, Half,
       HalfTaken, KeySent, KeyNext, Replied, Agrees, Agreed
  <2>7. ~(\/ Connects \/ TakesFrame \/ NoticesLoss \/ SendsRequest \/ Drops \/ Unsubscribed
          \/ ConnectFails \/ Subscribes)
    BY <1>2 DEF Connects, TakesFrame, NoticesLoss, SendsRequest, Drops, Unsubscribed,
       Listening, ConnectFails, Subscribes, OnPath
  <2> QED
    BY <2>1, <2>2, <2>3, <2>4, <2>5, <2>6, <2>7 DEF Next, Panel, Unit
<1>3. CASE ~Subscribes /\ ~(pc = "handshake" /\ clean)
  <2>1. CASE HandleFrame \/ HandshakeTimesOut
    BY <1>3, <2>1 DEF HandleFrame, Replies, Fails, HandshakeTimesOut, OnPath, Typed
  <2>2. CASE NotificationLost \/ LinkLost \/ UNCHANGED vars
    BY <1>3, <2>2 DEF vars, NotificationLost, LinkLost, OnPath
  <2>3. CASE Written \/ Notifies \/ Unsubscribed
    <3>1. pc' = pc /\ clean' = clean
      BY <2>3 DEF Written, Notifies, Unsubscribed
    <3> QED
      BY <1>3, <3>1 DEF OnPath
  <2>4. CASE \/ Connects \/ TakesFrame \/ NoticesLoss \/ SendsRequest \/ Drops \/ ConnectFails
    BY <2>4 DEF Connects, TakesFrame, NoticesLoss, SendsRequest, Drops, ConnectFails, Fails,
       OnPath
  <2> QED
    BY <1>3, <2>1, <2>2, <2>3, <2>4 DEF Next, Panel, Unit
<1> QED
  BY <1>1, <1>2, <1>3

\* A handshake that nothing disturbs does not end the link: a queue of two
\* frames is enough, whatever the counters of the other disturbances.
THEOREM CleanHandshake == ASSUME RxLen >= 2 PROVE Spec => CleanHandshakeSucceeds
<1>1. Init => OnPath
  BY DEF Init, OnPath
<1>2. Typed /\ OnPath /\ [Next]_vars => OnPath'
  BY NextOnPath
<1>3. Typed /\ OnPath /\ [Next]_vars => [pc = "handshake" /\ pc' = "off" => ~clean']_vars
  BY NextOnPath
<1> QED
  BY <1>1, <1>2, <1>3, WellTyped, PTL DEF Spec, CleanHandshakeSucceeds
=============================================================================
