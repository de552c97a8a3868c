----------------------------- MODULE RegService -----------------------------
(***************************************************************************)
(* What poll() relies on when it calls readRegs() and writeReg(): a call   *)
(* that succeeds speaks of the register it names and of a moment within    *)
(* the call.  Nothing is promised of a call that fails; a failed write may *)
(* still take effect, even after the call.                                 *)
(***************************************************************************)
CONSTANTS Regs, Values, NoCall

VARIABLES
  dev,    \* contents of the registers
  call,   \* the call in progress, or NoCall
  held,   \* values the register of the call has had since the call began
  ret     \* what the last call to end returned

ReadCall(r)     == [kind |-> "read", reg |-> r]
WriteCall(r, v) == [kind |-> "write", reg |-> r, val |-> v]
Calls == {ReadCall(r) : r \in Regs} \cup {WriteCall(r, v) : r \in Regs, v \in Values}

Failure   == [ok |-> FALSE]
ReadOf(v) == [ok |-> TRUE, val |-> v]
Confirmed == [ok |-> TRUE]

Init ==
  /\ dev \in [Regs -> Values] /\ call = NoCall /\ held = {} /\ ret = Failure

Begin ==
  /\ call = NoCall /\ call' \in Calls /\ held' = {dev[call'.reg]}
  /\ UNCHANGED <<dev, ret>>

\* A commit of an earlier write, a front-panel button, the phone app.
DeviceChanges ==
  /\ \E r \in Regs, v \in Values :
       /\ dev' = [dev EXCEPT ![r] = v]
       /\ held' = IF call # NoCall /\ call.reg = r THEN held \cup {v} ELSE held
  /\ UNCHANGED <<call, ret>>

Ends == call # NoCall /\ call' = NoCall /\ held' = {} /\ UNCHANGED dev

Answers  == Ends /\ call.kind = "read" /\ \E v \in held : ret' = ReadOf(v)
Confirms == Ends /\ call.kind = "write" /\ call.val \in held /\ ret' = Confirmed
Fails    == Ends /\ ret' = Failure

Next == Begin \/ DeviceChanges \/ Answers \/ Confirms \/ Fails

vars == <<dev, call, held, ret>>
Spec == Init /\ [][Next]_vars
=============================================================================
