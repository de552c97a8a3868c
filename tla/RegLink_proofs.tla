---------------------------- MODULE RegLink_proofs ----------------------------
(* RegLink is well typed, and with no reply left over from an earlier send  *)
(* it implements RegService, for every choice of its constants.             *)
EXTENDS RegLink, SequenceTheorems, TLAPS

USE DEF callVars, wireVars

\* What TypeOK needs beside itself: the budgets are counters, a read-back is
\* only begun while some are left, and only writeReg() sends a write.
Budgets == {"lost", "changes", "stragglers"}
Typed ==
  /\ TypeOK /\ budget \in [Budgets -> Nat]
  /\ pc \in {"readSend", "readWait"} => checks < Readbacks
  /\ pc \in {"writeSend", "writeWait"} => call.kind = "write"

LEMMA CallsTyped ==
  ASSUME NEW c \in Service!Calls
  PROVE  /\ c.reg \in Regs /\ c # NoCall
         /\ c.kind \in {"read", "write"}
         /\ c.kind = "write" => c.val \in Values
BY NoCallAssumption DEF Service!Calls, Service!ReadCall, Service!WriteCall

LEMMA InitTyped == Init => Typed
<1> SUFFICES ASSUME Init PROVE Typed
  OBVIOUS
<1>1. budget \in [Budgets -> Nat]
  BY TriesAssumption DEF Init, Budgets
<1>2. TypeOK
  BY TriesAssumption, EmptySeq DEF Init, TypeOK, Service!Init
<1> QED
  BY <1>1, <1>2 DEF Init, Typed

LEMMA SpendTyped ==
  ASSUME budget \in [Budgets -> Nat], NEW b \in Budgets, Spend(b)
  PROVE  budget' \in [Budgets -> Nat]
BY DEF Spend

LEMMA SettledTyped ==
  ASSUME budget \in [Budgets -> Nat], Settled
  PROVE  budget' \in [Budgets -> Nat]
BY SpendTyped DEF Settled, Budgets

\* A request or a frame joins or leaves one of the sequences of type S.
LEMMA SeqSteps ==
  ASSUME NEW S, NEW s \in Seq(S)
  PROVE  /\ \A e \in S : Append(s, e) \in Seq(S)
         /\ s # <<>> => /\ Head(s) \in S /\ Tail(s) \in Seq(S)
                        /\ Len(Tail(s)) = Len(s) - 1
BY HeadTailProperties, AppendProperties

\* The write the unit commits next names a register and a value.
LEMMA NextWriteTyped ==
  ASSUME uncommitted \in Seq(Requests), uncommitted # <<>>
  PROVE  /\ Head(uncommitted).reg \in Regs /\ Head(uncommitted).val \in Values
         /\ Tail(uncommitted) \in Seq(Requests)
<1>1. Head(uncommitted) \in Requests /\ Tail(uncommitted) \in Seq(Requests)
  BY SeqSteps
<1> QED
  BY <1>1 DEF Requests

\* What readRegs() hands back to poll() or to writeReg() leaves the caller's
\* state well typed.
CallTyped ==
  /\ pc \in {"idle", "readSend", "readWait", "writeSend", "writeWait"}
  /\ (pc = "idle" <=> call = NoCall) /\ call \in Service!Calls \cup {NoCall}
  /\ tries \in 0 .. ReadTries /\ writeTries \in 0 .. WriteTries
  /\ checks \in 0 .. Readbacks /\ held \subseteq Values
  /\ pc \in {"readSend", "readWait"} => checks < Readbacks
  /\ pc \in {"writeSend", "writeWait"} => call.kind = "write"

LEMMA ReturnsTyped == ASSUME NEW r, Returns(r) PROVE CallTyped'
BY TriesAssumption DEF Returns, CallTyped

LEMMA NotYetTyped ==
  ASSUME CallTyped, pc \in {"readSend", "readWait"}, call.kind = "write", NotYet
  PROVE  CallTyped'
BY TriesAssumption DEF NotYet, CallTyped

LEMMA ReadEndsTyped ==
  ASSUME CallTyped, pc \in {"readSend", "readWait"}
  PROVE  /\ ReadFails => CallTyped'
         /\ \A v : ReadReturns(v) => CallTyped'
<1>1. call.kind \in {"read", "write"}
  BY CallsTyped DEF CallTyped
<1> QED
  BY <1>1, ReturnsTyped, NotYetTyped DEF ReadFails, ReadReturns

LEMMA NextTyped == Typed /\ [Next]_vars => Typed'
<1> SUFFICES ASSUME Typed, [Next]_vars PROVE Typed'
  OBVIOUS
<1> USE TriesAssumption, NoCallAssumption, RegsAssumption
<1> DEFINE Wired ==
      /\ linkUp \in BOOLEAN /\ rx \in Seq(Frames) /\ Len(rx) <= RxLen
      /\ air \in Seq(Frames) /\ reqs \in Seq(Requests) /\ uncommitted \in Seq(Requests)
      /\ dev \in [Regs -> Values] /\ budget \in [Budgets -> Nat]
<1>a. CallTyped /\ Wired
  BY DEF Typed, TypeOK, CallTyped
<1>b. CallTyped' /\ Wired' => Typed'
  BY DEF Typed, TypeOK, CallTyped
<1>c. <<>> \in Seq(Frames) /\ <<>> \in Seq(Requests) /\ Len(<<>>) = 0
  BY EmptySeq
<1> USE DEF CallTyped
<1>1. CASE Begin
  <2>1. /\ call' \in Service!Calls /\ pc' \in {"readSend", "writeSend"}
        /\ pc' = "writeSend" => call'.kind = "write"
    BY <1>1 DEF Begin, Service!Calls, Service!ReadCall, Service!WriteCall
  <2>2. call'.reg \in Regs /\ call' # NoCall
    BY <2>1, CallsTyped
  <2> QED
    BY <1>1, <1>a, <1>b, <2>1, <2>2 DEF Begin
<1>2. CASE ReadSend
  <2>1. call \in Service!Calls /\ call.reg \in Regs
    BY <1>2, <1>a, CallsTyped DEF ReadSend
  <2>2. [fn |-> "read", reg |-> call.reg, val |-> dev[call.reg]] \in Requests
    BY <2>1, <1>a DEF Requests
  <2> QED
    BY <1>2, <1>a, <1>b, <1>c, <2>1, <2>2, SettledTyped, SeqSteps
    DEF ReadSend, NextTry, DrainedQueue
<1>3. CASE ReadSendFails
  BY <1>3, <1>a, <1>b, <1>c DEF ReadSendFails, NextTry, DrainedQueue
<1>4. CASE ReadGivesUp
  BY <1>4, <1>a, <1>b, ReadEndsTyped DEF ReadGivesUp
<1>5. CASE ReadFrame
  <2>1. Wired'
    BY <1>5, <1>a, SeqSteps DEF ReadFrame
  <2>2. CASE Matches(Head(rx))
    BY <1>5, <2>2, <2>1, <1>a, <1>b, ReadEndsTyped DEF ReadFrame
  <2>3. CASE ~Matches(Head(rx))
    BY <1>5, <2>3, <2>1, <1>a, <1>b DEF ReadFrame
  <2> QED
    BY <2>2, <2>3
<1>6. CASE ReadTimesOut
  BY <1>6, <1>a, <1>b DEF ReadTimesOut
<1>7. CASE WriteSend
  <2>1. call \in Service!Calls /\ call.reg \in Regs /\ call.val \in Values
    BY <1>7, <1>a, CallsTyped DEF WriteSend
  <2>2. [fn |-> "write", reg |-> call.reg, val |-> call.val] \in Requests
    BY <2>1, <1>a DEF Requests
  <2> QED
    BY <1>7, <1>a, <1>b, <1>c, <2>1, <2>2, SettledTyped, SeqSteps
    DEF WriteSend, NextTry, DrainedQueue
<1>8. CASE WriteSendFails
  BY <1>8, <1>a, <1>b, <1>c DEF WriteSendFails, NextTry, DrainedQueue
<1>9. CASE WriteGivesUp
  BY <1>9, <1>a, <1>b, ReturnsTyped DEF WriteGivesUp
<1>10. CASE EchoFrame
  BY <1>10, <1>a, <1>b, SeqSteps DEF EchoFrame, NoChecks
<1>11. CASE EchoTimesOut
  BY <1>11, <1>a, <1>b DEF EchoTimesOut, NoChecks
<1>12. CASE Serve
  <2> DEFINE q == Head(reqs)
             f == [fn |-> q.fn, words |-> Words[q.reg],
                   val |-> IF q.fn = "read" THEN dev[q.reg] ELSE q.val]
  <2>1. q \in Requests /\ Tail(reqs) \in Seq(Requests)
    BY <1>12, <1>a, SeqSteps DEF Serve
  <2>2. f \in Frames
    BY <2>1, <1>a DEF Requests, Frames
  <2>3. Append(air, f) \in Seq(Frames) /\ Append(uncommitted, q) \in Seq(Requests)
    BY <2>1, <2>2, <1>a, SeqSteps
  <2> QED
    BY <1>12, <1>a, <1>b, <2>1, <2>3 DEF Serve
<1>13. CASE Commit
  <2>1. dev' \in [Regs -> Values] /\ held' \subseteq Values
    BY <1>13, <1>a, NextWriteTyped DEF Commit, Becomes
  <2> QED
    BY <1>13, <1>a, <1>b, <2>1, NextWriteTyped DEF Commit
<1>14. CASE Change
  BY <1>14, <1>a, <1>b, SpendTyped DEF Change, Becomes, Budgets
<1>15. CASE Deliver
  BY <1>15, <1>a, <1>b, SeqSteps, AppendProperties DEF Deliver, Received
<1>16. CASE Lose
  BY <1>16, <1>a, <1>b, SpendTyped, SeqSteps DEF Lose, Budgets
<1>17. CASE LinkLost
  BY <1>17, <1>a, <1>b, <1>c, SpendTyped DEF LinkLost, Budgets
<1>18. CASE Relink
  BY <1>18, <1>a, <1>b, <1>c DEF Relink
<1>19. CASE UNCHANGED vars
  BY <1>19, <1>a, <1>b DEF vars
<1> QED
  BY <1>1, <1>2, <1>3, <1>4, <1>5, <1>6, <1>7, <1>8, <1>9, <1>10, <1>11, <1>12, <1>13,
     <1>14, <1>15, <1>16, <1>17, <1>18, <1>19 DEF Next, Reading, Writing, Unit

LEMMA WellTyped == Spec => []Typed
BY InitTyped, NextTyped, PTL DEF Spec

\* Every variable keeps its type: readRegs() and writeReg() never run a retry
\* more than their limits allow, and g_q never holds more than its length.
THEOREM TypeCorrect == Spec => []TypeOK
BY WellTyped, PTL DEF Typed

-----------------------------------------------------------------------------
(* Why a reply can be trusted although it carries no address.              *)

\* No request has been sent so far while an older reply was under way.
Undisturbed == budget.stragglers = MaxStragglers

\* The requests that ask for the register of the call, and the frames that
\* carry a value it has had since the call began.
Own    == {q \in Requests : q.fn = "read" /\ q.reg = call.reg}
Timely == {f \in Frames : f.val \in held}

\* While readRegs() waits, whatever is asked for or answered belongs to the
\* call in progress.
Fresh == pc = "readWait" => reqs \in Seq(Own) /\ air \in Seq(Timely) /\ rx \in Seq(Timely)

IInv ==
  /\ budget.stragglers <= MaxStragglers
  /\ call # NoCall => dev[call.reg] \in held
  /\ Undisturbed => Fresh

LEMMA InitFresh == Init => IInv
BY TriesAssumption DEF Init, Service!Init, IInv, Fresh

\* The front panel or a commit gives a register its value: a value the call's
\* register takes is one it has had during the call.
LEMMA BecomesHeld ==
  ASSUME Typed, IInv, NEW r \in Regs, NEW v \in Values, Becomes(r, v), UNCHANGED <<call, pc>>
  PROVE  /\ call' # NoCall => dev'[call'.reg] \in held'
         /\ held \subseteq held' /\ Own' = Own /\ Seq(Timely) \subseteq Seq(Timely')
<1>1. call # NoCall => call.reg \in Regs
  BY CallsTyped DEF Typed, TypeOK
<1>2. held \subseteq held'
  BY DEF Becomes
<1>3. Timely \subseteq Timely'
  BY <1>2 DEF Timely
<1>4. call' # NoCall => dev'[call'.reg] \in held'
  BY <1>1 DEF Becomes, IInv, Typed, TypeOK
<1> QED
  BY <1>2, <1>3, <1>4, SeqMonotonic DEF Own

\* A budget is only spent, and the budget for stragglers only by a send with
\* something under way.
LEMMA SpendBounded ==
  ASSUME budget \in [Budgets -> Nat], NEW b \in Budgets, Spend(b)
  PROVE  /\ budget'.stragglers <= budget.stragglers
         /\ b # "stragglers" => budget'.stragglers = budget.stragglers
         /\ b = "stragglers" => budget'.stragglers < budget.stragglers
BY DEF Spend, Budgets

LEMMA SettledFresh ==
  ASSUME Typed, IInv, Settled
  PROVE  /\ budget'.stragglers <= MaxStragglers
         /\ Undisturbed' => Quiet
<1>1. budget.stragglers \in Nat /\ MaxStragglers \in Nat
  BY TriesAssumption DEF Typed, Budgets
<1>2. budget'.stragglers \in Nat
  BY SettledTyped DEF Typed, Budgets
<1>3. CASE Quiet /\ UNCHANGED budget
  BY <1>3 DEF IInv
<1>4. CASE Spend("stragglers")
  <2>1. budget'.stragglers < budget.stragglers
    BY <1>4, SpendBounded DEF Typed, Budgets
  <2> QED
    BY <2>1, <1>1, <1>2 DEF IInv, Undisturbed
<1> QED
  BY <1>3, <1>4 DEF Settled

LEMMA NextFresh == Typed /\ IInv /\ [Next]_vars => IInv'
<1> SUFFICES ASSUME Typed, IInv, [Next]_vars PROVE IInv'
  OBVIOUS
<1>a. /\ pc \in {"idle", "readSend", "readWait", "writeSend", "writeWait"}
      /\ call # NoCall => call \in Service!Calls /\ call.reg \in Regs
      /\ pc = "idle" <=> call = NoCall
      /\ dev \in [Regs -> Values] /\ budget \in [Budgets -> Nat]
      /\ rx \in Seq(Frames) /\ air \in Seq(Frames) /\ reqs \in Seq(Requests)
      /\ uncommitted \in Seq(Requests)
  BY CallsTyped DEF Typed, TypeOK
<1>b. <<>> \in Seq(Timely) /\ <<>> \in Seq(Own)
  BY EmptySeq
\* What a step that ends the wait, or does not begin it, has to show.
<1>c. ASSUME pc' # "readWait", budget'.stragglers = budget.stragglers,
             call' # NoCall => dev'[call'.reg] \in held'
      PROVE  IInv'
  BY <1>c DEF IInv, Fresh
\* readRegs() goes back to its caller.
<1>d. ASSUME pc \in {"readSend", "readWait"}, UNCHANGED <<dev, budget>>,
             ReadFails \/ \E v : ReadReturns(v)
      PROVE  IInv'
  <2>1. CASE \E r : Returns(r)
    BY <2>1, <1>d, <1>c DEF Returns
  <2>2. CASE NotYet
    BY <2>2, <1>d, <1>c DEF NotYet, IInv
  <2> QED
    BY <2>1, <2>2, <1>d DEF ReadFails, ReadReturns
<1>1. CASE Begin
  BY <1>1, <1>c DEF Begin
<1>2. CASE ReadSend
  <2>1. Undisturbed' => Quiet
    BY <1>2, SettledFresh DEF ReadSend
  <2>2. [fn |-> "read", reg |-> call.reg, val |-> dev[call.reg]] \in Own'
    BY <1>2, <1>a DEF ReadSend, Own, Requests
  <2>3. Quiet => reqs' \in Seq(Own') /\ air' = <<>> /\ rx' = <<>>
    BY <1>2, <1>b, <2>2, SeqSteps, EmptySeq DEF ReadSend, Quiet, DrainedQueue
  <2>4. Undisturbed' => Fresh'
    BY <2>1, <2>3, EmptySeq DEF Fresh
  <2> QED
    BY <1>2, <2>4, SettledFresh DEF ReadSend, IInv
<1>3. CASE ReadSendFails
  BY <1>3, <1>c DEF ReadSendFails, IInv
<1>4. CASE ReadGivesUp
  BY <1>4, <1>d DEF ReadGivesUp
<1>5. CASE ReadFrame
  <2>1. CASE Matches(Head(rx))
    BY <1>5, <2>1, <1>d DEF ReadFrame
  <2>2. CASE ~Matches(Head(rx))
    BY <1>5, <2>2, SeqSteps DEF ReadFrame, IInv, Fresh, Own, Timely, Undisturbed
  <2> QED
    BY <2>1, <2>2
<1>6. CASE ReadTimesOut
  BY <1>6, <1>c DEF ReadTimesOut, IInv
<1>7. CASE WriteSend
  BY <1>7, SettledFresh DEF WriteSend, IInv, Fresh
<1>8. CASE WriteSendFails
  BY <1>8, <1>c DEF WriteSendFails, IInv
<1>9. CASE WriteGivesUp
  BY <1>9, <1>c DEF WriteGivesUp, Returns
<1>10. CASE EchoFrame
  BY <1>10, <1>c DEF EchoFrame, IInv
<1>11. CASE EchoTimesOut
  BY <1>11, <1>c DEF EchoTimesOut, IInv
<1>12. CASE Serve
  <2> DEFINE q == Head(reqs)
             f == [fn |-> q.fn, words |-> Words[q.reg],
                   val |-> IF q.fn = "read" THEN dev[q.reg] ELSE q.val]
  <2>1. q \in Requests
    BY <1>12, <1>a, SeqSteps DEF Serve
  <2>2. f \in Frames
    BY <2>1, <1>a, RegsAssumption DEF Requests, Frames
  <2>3. Own' = Own /\ Timely' = Timely
    BY <1>12 DEF Serve, Own, Timely
  <2>4. CASE pc = "readWait" /\ Undisturbed
    <3>1. q \in Own /\ Tail(reqs) \in Seq(Own)
      BY <1>12, <2>4, SeqSteps DEF Serve, IInv, Fresh
    <3>2. f \in Timely
      BY <2>2, <2>4, <3>1, <1>a DEF Own, Timely, IInv
    <3>3. Append(air, f) \in Seq(Timely)
      BY <2>4, <3>2, SeqSteps DEF IInv, Fresh
    <3> QED
      BY <1>12, <2>3, <2>4, <3>1, <3>3 DEF Serve, IInv, Fresh
  <2> QED
    BY <1>12, <2>4 DEF Serve, IInv, Fresh, Undisturbed
<1>13. CASE Commit
  <2>1. Head(uncommitted).reg \in Regs /\ Head(uncommitted).val \in Values
    BY <1>13, <1>a, NextWriteTyped DEF Commit
  <2>2. /\ call' # NoCall => dev'[call'.reg] \in held'
        /\ held \subseteq held' /\ Own' = Own /\ Seq(Timely) \subseteq Seq(Timely')
    BY <1>13, <2>1, BecomesHeld DEF Commit
  <2> QED
    BY <1>13, <2>2 DEF Commit, IInv, Fresh, Undisturbed
<1>14. CASE Change
  <2>1. budget'.stragglers = budget.stragglers
    BY <1>14, <1>a, SpendBounded DEF Change, Budgets
  <2> QED
    BY <1>14, <2>1, BecomesHeld DEF Change, IInv, Fresh, Undisturbed
<1>15. CASE Deliver
  <2>1. Own' = Own /\ Timely' = Timely
    BY <1>15 DEF Deliver, Own, Timely
  <2>2. air \in Seq(Timely) => air' \in Seq(Timely) /\ Head(air) \in Timely
    BY <1>15, SeqSteps DEF Deliver
  <2>3. air \in Seq(Timely) /\ rx \in Seq(Timely) => rx' \in Seq(Timely)
    BY <1>15, <2>2, SeqSteps DEF Deliver, Received
  <2> QED
    BY <1>15, <2>1, <2>2, <2>3 DEF Deliver, IInv, Fresh, Undisturbed
<1>16. CASE Lose
  <2>1. budget'.stragglers = budget.stragglers
    BY <1>16, <1>a, SpendBounded DEF Lose, Budgets
  <2>2. Own' = Own /\ Timely' = Timely
    BY <1>16 DEF Lose, Own, Timely
  <2>3. air \in Seq(Timely) => air' \in Seq(Timely)
    BY <1>16, SeqSteps DEF Lose
  <2> QED
    BY <1>16, <2>1, <2>2, <2>3 DEF Lose, IInv, Fresh, Undisturbed
<1>17. CASE LinkLost
  <2>1. budget'.stragglers = budget.stragglers
    BY <1>17, <1>a, SpendBounded DEF LinkLost, Budgets
  <2>2. Own' = Own /\ Timely' = Timely
    BY <1>17 DEF LinkLost, Own, Timely
  <2> QED
    BY <1>17, <1>b, <2>1, <2>2 DEF LinkLost, IInv, Fresh, Undisturbed
<1>18. CASE Relink
  BY <1>18, <1>c DEF Relink, IInv
<1>19. CASE UNCHANGED vars
  BY <1>19 DEF vars, IInv, Fresh, Own, Timely, Undisturbed
<1> QED
  BY <1>1, <1>2, <1>3, <1>4, <1>5, <1>6, <1>7, <1>8, <1>9, <1>10, <1>11, <1>12, <1>13,
     <1>14, <1>15, <1>16, <1>17, <1>18, <1>19 DEF Next, Reading, Writing, Unit

LEMMA RepliesFresh == Spec => [](Typed /\ IInv)
<1>1. Typed /\ IInv /\ [Next]_vars => (Typed /\ IInv)'
  BY NextTyped, NextFresh
<1> QED
  BY InitTyped, InitFresh, <1>1, PTL DEF Spec

-----------------------------------------------------------------------------
(* The refinement.                                                         *)

LEMMA InitServes == Init => Service!Init
BY DEF Init

\* As long as no request has been sent past an older reply, every step is a
\* step of the service or changes nothing the caller can see.
LEMMA StepServes ==
  Typed /\ IInv /\ Undisturbed /\ [Next]_vars => [Service!Next]_(Service!vars)
<1> SUFFICES ASSUME Typed, IInv, Undisturbed, [Next]_vars
             PROVE  [Service!Next]_(Service!vars)
  OBVIOUS
<1> USE DEF Service!vars, Service!Next
<1>a. /\ call # NoCall => call \in Service!Calls /\ call.kind \in {"read", "write"}
      /\ pc = "idle" <=> call = NoCall
      /\ uncommitted \in Seq(Requests) /\ rx \in Seq(Frames)
  BY CallsTyped DEF Typed, TypeOK
\* A call that fails.
<1>b. Returns(Service!Failure) /\ call # NoCall /\ UNCHANGED dev => Service!Fails
  BY DEF Returns, Service!Fails, Service!Ends
<1>c. NotYet /\ UNCHANGED dev => UNCHANGED Service!vars
  BY DEF NotYet
<1>d. ASSUME pc \in {"readSend", "readWait"}, UNCHANGED dev, ReadFails
      PROVE  Service!Fails \/ UNCHANGED Service!vars
  BY <1>a, <1>b, <1>c, <1>d DEF ReadFails
<1>1. CASE Begin
  <2>1. call' \in Service!Calls
    BY <1>1, RegsAssumption DEF Begin, Service!Calls
  <2> QED
    BY <1>1, <2>1, <1>a DEF Begin, Service!Begin
<1>2. CASE ReadGivesUp
  BY <1>2, <1>d DEF ReadGivesUp
<1>3. CASE ReadFrame
  <2> DEFINE v == Head(rx).val
  <2>1. v \in held /\ call # NoCall
    BY <1>3, <1>a, SeqSteps DEF ReadFrame, IInv, Fresh, Timely
  <2>2. CASE Matches(Head(rx)) /\ call.kind = "read"
    <3>1. Returns(Service!ReadOf(v)) /\ UNCHANGED dev
      BY <1>3, <2>2 DEF ReadFrame, ReadReturns
    <3> QED
      BY <2>1, <2>2, <3>1 DEF Returns, Service!Answers, Service!Ends
  <2>3. CASE Matches(Head(rx)) /\ call.kind = "write" /\ v = call.val
    <3>1. Returns(Service!Confirmed) /\ UNCHANGED dev
      BY <1>3, <2>3 DEF ReadFrame, ReadReturns
    <3> QED
      BY <2>1, <2>3, <3>1 DEF Returns, Service!Confirms, Service!Ends
  <2>4. CASE Matches(Head(rx)) /\ call.kind = "write" /\ v # call.val
    BY <1>3, <2>4, <1>c DEF ReadFrame, ReadReturns
  <2>5. CASE ~Matches(Head(rx))
    BY <1>3, <2>5 DEF ReadFrame
  <2> QED
    BY <2>1, <2>2, <2>3, <2>4, <2>5, <1>a
<1>4. CASE WriteGivesUp
  BY <1>4, <1>a, <1>b DEF WriteGivesUp
<1>5. CASE Commit
  <2>1. Head(uncommitted).reg \in Regs /\ Head(uncommitted).val \in Values
    BY <1>5, <1>a, NextWriteTyped DEF Commit
  <2> QED
    BY <1>5, <2>1 DEF Commit, Becomes, Service!DeviceChanges
<1>6. CASE Change
  BY <1>6 DEF Change, Becomes, Service!DeviceChanges
\* Nothing else touches what the caller sees.
<1>7. CASE ReadSend \/ ReadSendFails \/ ReadTimesOut
  BY <1>7 DEF ReadSend, ReadSendFails, ReadTimesOut
<1>8. CASE WriteSend \/ WriteSendFails \/ EchoFrame \/ EchoTimesOut
  BY <1>8 DEF WriteSend, WriteSendFails, EchoFrame, EchoTimesOut
<1>9. CASE Serve \/ Deliver \/ Lose \/ LinkLost \/ Relink
  BY <1>9 DEF Serve, Deliver, Lose, LinkLost, Relink
<1>10. CASE UNCHANGED vars
  BY <1>10 DEF vars
<1> QED
  BY <1>1, <1>2, <1>3, <1>4, <1>5, <1>6, <1>7, <1>8, <1>9, <1>10
  DEF Next, Reading, Writing, Unit

\* Up to the first request sent while an older reply is still under way (the
\* reply carries no address, so nothing holds after it), a read returns a value
\* its register had during the call and a write reported confirmed was committed.
THEOREM ServesUntilStraggler ==
  Spec => [][Undisturbed => Service!Next]_(Service!vars)
<1>1. Typed /\ IInv /\ [Next]_vars => [Undisturbed => Service!Next]_(Service!vars)
  BY StepServes
<1> QED
  BY <1>1, RepliesFresh, PTL DEF Spec

\* When no timed out reply is ever overtaken by the next request, readRegs() and
\* writeReg() implement the service poll() relies on, whatever is lost and
\* whatever changes at the unit.
THEOREM ImplementsService ==
  ASSUME MaxStragglers = 0
  PROVE  Spec => ServesRegisters
<1>1. Typed /\ IInv => Undisturbed
  BY DEF Typed, IInv, Undisturbed, Budgets
<1>2. Typed /\ IInv /\ [Next]_vars => [Service!Next]_(Service!vars)
  BY <1>1, StepServes
<1> QED
  BY InitServes, <1>2, RepliesFresh, PTL DEF Spec, ServesRegisters, Service!Spec
=============================================================================
