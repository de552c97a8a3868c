------------------------------- MODULE RegLink -------------------------------
(***************************************************************************)
(* readRegs() and writeReg() of src/src/bluetti.cpp over the notification  *)
(* queue, against a unit that answers Modbus requests in order and commits *)
(* a write some time after its echo (the simulator's DeviceSession and     *)
(* Registers).  A request is a write with response, so it arrives or the   *)
(* call knows it did not; a reply is a bare notification, which can be     *)
(* lost or overtaken by the caller's timeout.  A reply carries no address. *)
(***************************************************************************)
EXTENDS Integers, Sequences

CONSTANTS
  Regs, Values,
  Words,        \* registers in the block a read of r asks for
  Writable,     \* registers writeReg() is called for, one word each
  ReadTries,    \* attempts of readRegs()
  WriteTries,   \* attempts of writeReg()
  Readbacks,    \* read-backs after each attempt of writeReg()
  RxLen,        \* length of g_q
  NoCall,
  MaxUncommitted,      \* writes the unit holds between echo and commit
  MaxLost, MaxChanges, \* bounds on the radio and the front panel
  MaxStragglers        \* requests sent while an older reply is still under way

ASSUME RegsAssumption ==
  /\ Words \in [Regs -> Nat \ {0}] /\ Writable \subseteq Regs
  /\ \A r \in Writable : Words[r] = 1

ASSUME TriesAssumption ==
  /\ {ReadTries, WriteTries, Readbacks, RxLen, MaxUncommitted} \subseteq Nat \ {0}
  /\ {MaxLost, MaxChanges, MaxStragglers} \subseteq Nat

VARIABLES
  pc,           \* "idle", or where readRegs()/writeReg() is
  call, ret,    \* the call of poll() in progress and the last result
  tries,        \* attempts readRegs() has begun
  writeTries,   \* attempts writeReg() has begun
  checks,       \* read-backs done since the last send
  rx,           \* g_q
  linkUp,       \* writeValue() succeeds
  reqs,         \* requests the unit has not served yet
  air,          \* notifications on their way, oldest first
  dev,          \* committed register contents
  uncommitted,  \* echoed writes not committed yet, oldest first
  held,         \* history: values call.reg has had since the call began
  budget

callVars == <<pc, tries, writeTries, checks>>
wireVars == <<rx, linkUp, reqs, air>>
vars == <<callVars, wireVars, call, ret, dev, uncommitted, held, budget>>

Service == INSTANCE RegService

ASSUME NoCallAssumption == NoCall \notin Service!Calls

Requests == [fn : {"read", "write"}, reg : Regs, val : Values]
Frames   == [fn : {"read", "write"}, words : {Words[r] : r \in Regs}, val : Values]

Init ==
  /\ Service!Init
  /\ pc = "idle" /\ tries = 0 /\ writeTries = 0 /\ checks = 0
  /\ rx = <<>> /\ linkUp = TRUE /\ reqs = <<>> /\ air = <<>> /\ uncommitted = <<>>
  /\ budget = [lost |-> MaxLost, changes |-> MaxChanges, stragglers |-> MaxStragglers]

Spend(b) == budget[b] > 0 /\ budget' = [budget EXCEPT ![b] = @ - 1]

Quiet == reqs = <<>> /\ air = <<>>
Settled == \/ Quiet /\ UNCHANGED budget
           \/ ~Quiet /\ Spend("stragglers")

\* Register r now holds v.
Becomes(r, v) ==
  /\ dev' = [dev EXCEPT ![r] = v]
  /\ held' = IF call # NoCall /\ call.reg = r THEN held \cup {v} ELSE held

-----------------------------------------------------------------------------
(* The caller.                                                             *)

Begin ==
  /\ pc = "idle"
  /\ \/ \E r \in Regs : call' = Service!ReadCall(r) /\ pc' = "readSend"
     \/ \E r \in Writable, v \in Values :
          call' = Service!WriteCall(r, v) /\ pc' = "writeSend"
  /\ held' = {dev[call'.reg]}
  /\ tries' = 0 /\ writeTries' = 0 /\ checks' = 0
  /\ UNCHANGED <<wireVars, ret, dev, uncommitted, budget>>

Returns(result) ==
  /\ pc' = "idle" /\ call' = NoCall /\ ret' = result /\ held' = {}
  /\ tries' = 0 /\ writeTries' = 0 /\ checks' = 0

\* readRegs() returned to writeReg() without the wanted value: read again, or
\* send the write again.
NotYet ==
  /\ checks' = checks + 1 /\ tries' = 0
  /\ pc' = IF checks' < Readbacks THEN "readSend" ELSE "writeSend"
  /\ UNCHANGED <<call, ret, held, writeTries>>

ReadReturns(v) ==
  IF call.kind = "read" THEN Returns(Service!ReadOf(v))
  ELSE IF v = call.val  THEN Returns(Service!Confirmed)
  ELSE NotYet

ReadFails == IF call.kind = "read" THEN Returns(Service!Failure) ELSE NotYet

\* drainQueue() then writeValue(), with response.  A send that fails counts as
\* an attempt.
KeptQueue == rx
DrainedQueue == <<>>
SameTry(n) == n
NextTry(n) == n + 1

\* The read-backs are counted from zero after each send.
ChecksSoFar == checks
NoChecks == 0

ReadSend ==
  /\ pc = "readSend" /\ tries < ReadTries /\ linkUp /\ Settled
  /\ pc' = "readWait" /\ tries' = NextTry(tries) /\ rx' = DrainedQueue
  /\ reqs' = Append(reqs, [fn |-> "read", reg |-> call.reg, val |-> dev[call.reg]])
  /\ UNCHANGED <<writeTries, checks, linkUp, air, call, ret, dev, uncommitted, held>>

ReadSendFails ==
  /\ pc = "readSend" /\ tries < ReadTries /\ ~linkUp
  /\ tries' = NextTry(tries) /\ rx' = DrainedQueue
  /\ UNCHANGED <<pc, writeTries, checks, linkUp, reqs, air, call, ret, dev, uncommitted,
                 held, budget>>

ReadGivesUp ==
  /\ pc = "readSend" /\ tries = ReadTries /\ ReadFails
  /\ UNCHANGED <<wireVars, dev, uncommitted, budget>>

\* modbus_parse_read(): an FC3 reply with the byte count asked for.
Matches(f) == f.fn = "read" /\ f.words = Words[call.reg]

ReadFrame ==
  /\ pc = "readWait" /\ rx # <<>> /\ rx' = Tail(rx)
  /\ IF Matches(Head(rx)) THEN ReadReturns(Head(rx).val)
     ELSE UNCHANGED <<callVars, call, ret, held>>
  /\ UNCHANGED <<linkUp, reqs, air, dev, uncommitted, budget>>

ReadTimesOut ==
  /\ pc = "readWait" /\ pc' = "readSend"
  /\ UNCHANGED <<tries, writeTries, checks, wireVars, call, ret, dev, uncommitted, held,
                 budget>>

WriteSend ==
  /\ pc = "writeSend" /\ writeTries < WriteTries /\ linkUp /\ Settled
  /\ pc' = "writeWait" /\ writeTries' = NextTry(writeTries) /\ rx' = DrainedQueue
  /\ reqs' = Append(reqs, [fn |-> "write", reg |-> call.reg, val |-> call.val])
  /\ UNCHANGED <<tries, checks, linkUp, air, call, ret, dev, uncommitted, held>>

WriteSendFails ==
  /\ pc = "writeSend" /\ writeTries < WriteTries /\ ~linkUp
  /\ writeTries' = NextTry(writeTries) /\ rx' = DrainedQueue
  /\ UNCHANGED <<pc, tries, checks, linkUp, reqs, air, call, ret, dev, uncommitted, held,
                 budget>>

WriteGivesUp ==
  /\ pc = "writeSend" /\ writeTries = WriteTries /\ Returns(Service!Failure)
  /\ UNCHANGED <<wireVars, dev, uncommitted, budget>>

\* Any FC6 echo ends the wait; everything else is consumed.
EchoFrame ==
  /\ pc = "writeWait" /\ rx # <<>> /\ rx' = Tail(rx)
  /\ IF Head(rx).fn = "write"
       THEN pc' = "readSend" /\ tries' = 0 /\ checks' = NoChecks
       ELSE UNCHANGED <<pc, tries, checks>>
  /\ UNCHANGED <<writeTries, linkUp, reqs, air, call, ret, dev, uncommitted, held, budget>>

EchoTimesOut ==
  /\ pc = "writeWait" /\ pc' = "readSend" /\ tries' = 0 /\ checks' = NoChecks
  /\ UNCHANGED <<writeTries, wireVars, call, ret, dev, uncommitted, held, budget>>

-----------------------------------------------------------------------------
(* The unit.                                                               *)

\* The reply is built when the request is served; a write only joins the
\* writes that await their commit.
Serve ==
  /\ reqs # <<>> /\ Len(uncommitted) < MaxUncommitted /\ reqs' = Tail(reqs)
  /\ LET q == Head(reqs)
         f == [fn |-> q.fn, words |-> Words[q.reg],
               val |-> IF q.fn = "read" THEN dev[q.reg] ELSE q.val]
     IN  /\ air' = IF linkUp THEN Append(air, f) ELSE air
         /\ uncommitted' = IF q.fn = "write" THEN Append(uncommitted, q) ELSE uncommitted
  /\ UNCHANGED <<callVars, rx, linkUp, call, ret, dev, held, budget>>

Commit ==
  /\ uncommitted # <<>> /\ uncommitted' = Tail(uncommitted)
  /\ Becomes(Head(uncommitted).reg, Head(uncommitted).val)
  /\ UNCHANGED <<callVars, wireVars, call, ret, budget>>

\* A front-panel button or the unit's own measurement.
Change ==
  /\ Spend("changes") /\ \E r \in Regs, v \in Values : v # dev[r] /\ Becomes(r, v)
  /\ UNCHANGED <<callVars, wireVars, call, ret, uncommitted>>

-----------------------------------------------------------------------------
(* The radio and notifyCB().                                               *)

\* xQueueSend with no wait: a full g_q drops the frame.
ReceivedUnchecked(q, f) == Append(q, f)
Received(q, f) == IF Len(q) < RxLen THEN Append(q, f) ELSE q

Deliver ==
  /\ air # <<>> /\ air' = Tail(air)
  /\ rx' = Received(rx, Head(air))
  /\ UNCHANGED <<callVars, linkUp, reqs, call, ret, dev, uncommitted, held, budget>>

Lose ==
  /\ air # <<>> /\ air' = Tail(air) /\ Spend("lost")
  /\ UNCHANGED <<callVars, rx, linkUp, reqs, call, ret, dev, uncommitted, held>>

LinkLost ==
  /\ linkUp /\ linkUp' = FALSE /\ air' = <<>> /\ Spend("lost")
  /\ UNCHANGED <<callVars, rx, reqs, call, ret, dev, uncommitted, held>>

\* The next poll's ensureConnected(): the queue is drained, the unit starts a
\* new session, and frames of the old one no longer decrypt.
Relink ==
  /\ ~linkUp /\ pc = "idle" /\ linkUp' = TRUE
  /\ rx' = <<>> /\ reqs' = <<>> /\ air' = <<>>
  /\ UNCHANGED <<callVars, call, ret, dev, uncommitted, held, budget>>

-----------------------------------------------------------------------------
Reading == ReadSend \/ ReadSendFails \/ ReadGivesUp \/ ReadFrame \/ ReadTimesOut
Writing == WriteSend \/ WriteSendFails \/ WriteGivesUp \/ EchoFrame \/ EchoTimesOut
Unit    == Serve \/ Commit
Next == Begin \/ Reading \/ Writing \/ Unit \/ Change \/ Deliver
        \/ Lose \/ LinkLost \/ Relink

Spec == Init /\ [][Next]_vars

\* The task runs, its timeouts elapse, the unit serves and commits, and a
\* notification that is not lost arrives.
FairSpec == Spec /\ WF_vars(Reading) /\ WF_vars(Writing) /\ WF_vars(Serve)
                 /\ WF_vars(Commit) /\ WF_vars(Deliver)

-----------------------------------------------------------------------------
TypeOK ==
  /\ pc \in {"idle", "readSend", "readWait", "writeSend", "writeWait"}
  /\ (pc = "idle" <=> call = NoCall) /\ call \in Service!Calls \cup {NoCall}
  /\ tries \in 0 .. ReadTries /\ writeTries \in 0 .. WriteTries
  /\ checks \in 0 .. Readbacks /\ linkUp \in BOOLEAN
  /\ rx \in Seq(Frames) /\ Len(rx) <= RxLen /\ air \in Seq(Frames)
  /\ reqs \in Seq(Requests) /\ uncommitted \in Seq(Requests)
  /\ dev \in [Regs -> Values] /\ held \subseteq Values

\* "valid, matching FC3 response" (321), "Returns true once confirmed" (334):
\* a value read is one the register asked for had during the call, and a write
\* reported confirmed was committed.
ServesRegisters == Service!Spec

\* Every call of readRegs() and writeReg() returns, on a dead link too.
CallsReturn == (call # NoCall) ~> (call = NoCall)

=============================================================================
