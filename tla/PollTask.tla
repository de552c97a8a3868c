------------------------------ MODULE PollTask ------------------------------
(***************************************************************************)
(* The BLE task of the touch panel (src/src/bluetti.cpp, poll() and its    *)
(* callers) interleaved with the main loop, which taps controls, raises    *)
(* flags and watches the published telemetry.  The two run on different    *)
(* cores and share plain volatile variables, one FreeRTOS queue, one       *)
(* binary semaphore and the struct `power'.                                *)
(*                                                                         *)
(* One step of the task is one BLE transaction or one test; a register     *)
(* read or a confirmed write is a single step here, with the outcomes that *)
(* RegLink derives from the frames.  A register block is read in one       *)
(* Modbus reply, so a block is atomic and two blocks are not.              *)
(***************************************************************************)
EXTENDS Integers, Sequences, FiniteSets

CONSTANTS
  Values,       \* what a register can hold; 0 is also what `tmp = {}' leaves
  FastReads,    \* register blocks read on every poll, in reading order
  SlowReads,    \* register blocks of the slow tier, in reading order
  CfgRead,      \* index in SlowReads of the config block 2014-2023
  UiRegs,       \* registers the controls of the panel write
  SlowEvery,    \* SLOW_EVERY
  WriteQLen,    \* length of g_writeQ
  NoWrite,      \* "no PendWrite in hand"
  MaxWrites, MaxReleases,          \* bounds on the user
  MaxFaults, MaxLosses, MaxPanel   \* bounds on the radio and the unit

BlocksOf(reads) == UNION {reads[i] : i \in DOMAIN reads}
FastRegs == BlocksOf(FastReads)
SlowRegs == BlocksOf(SlowReads)
Regs     == FastRegs \cup SlowRegs
CfgRegs  == SlowReads[CfgRead]
Write    == [reg : UiRegs, val : Values]

ASSUME ReadsAssumption ==
  /\ FastReads \in Seq(SUBSET Regs)
  /\ SlowReads \in Seq(SUBSET Regs)
  /\ CfgRead \in DOMAIN SlowReads
  /\ UiRegs \subseteq Regs

ASSUME ValuesAssumption == Values \subseteq Nat /\ 0 \in Values

ASSUME SizesAssumption ==
  /\ SlowEvery \in Nat \ {0}
  /\ WriteQLen \in Nat \ {0}
  /\ NoWrite \notin Write

ASSUME BoundsAssumption ==
  {MaxWrites, MaxReleases, MaxFaults, MaxLosses, MaxPanel} \subseteq Nat

-----------------------------------------------------------------------------
VARIABLES
  \* the BLE task
  pc,         \* where poll() is
  idx,        \* which block it reads next
  pw,         \* the PendWrite taken from the queue
  tmp,        \* fast-tier fields of the PowerData being assembled
  cfgOk,      \* did the config block answer this time
  client,     \* g_client: "null", "up" (connected, keys agreed) or "lost"
  slow,       \* g_slow
  slowValid,  \* g_slow.valid
  slowTick,   \* g_slowTick, which the code only uses modulo SLOW_EVERY
  \* shared by the task and the main loop
  writeQ,     \* g_writeQ
  forceFull,  \* g_forceFull
  wake,       \* g_wake
  released,   \* millis() < g_releaseUntil
  connState,  \* g_state
  power,      \* the published telemetry
  \* the main loop
  ui,         \* which statement of a call into bluetti.cpp it is at
  pending,    \* g_writePending: the "Applying..." spinner is shown
  landed,     \* power.fetchedMs # g_pendingFetch
  \* the unit and the budgets of the bounded disturbances
  dev,        \* register contents of the power station
  late,       \* per register, the writes the unit took and has yet to commit
  budget

\* History variables: read by properties only, never by the code's actions.
VARIABLES
  tapAhead,   \* queue entries up to and including the spinner's own write
  unshown,    \* slow registers with a confirmed write not read back since
  raced,      \* g_forceFull was cleared over a config write still queued
  cfgFresh,   \* the cached config block was read on the present link
  cfgAge,     \* polls published since the config block last answered
  heldPolls,  \* polls published since the release window in force began
  want        \* value of the last accepted write of a register, {} if void

taskVars == <<pc, idx, pw, tmp, cfgOk, client>>
slowVars == <<slow, slowValid, slowTick>>
uiVars   == <<ui, pending, landed>>
unitVars == <<dev, late>>
histVars == <<tapAhead, unshown, raced, cfgFresh, cfgAge, heldPolls, want>>
vars == <<taskVars, slowVars, uiVars, histVars,
          writeQ, forceFull, wake, released, connState, power, unitVars, budget>>

ZeroOf(regs) == [r \in regs |-> 0]
Budgets == {"writes", "releases", "faults", "losses", "panel"}

Init ==
  /\ pc = "start" /\ idx = 1 /\ pw = NoWrite /\ cfgOk = FALSE
  /\ tmp = ZeroOf(FastRegs) /\ client = "null"
  /\ slow = ZeroOf(SlowRegs) /\ slowValid = FALSE /\ slowTick = 0
  /\ ui = "idle" /\ pending = FALSE /\ landed = FALSE
  /\ writeQ = <<>> /\ forceFull = TRUE /\ wake = FALSE /\ released = FALSE
  /\ connState = "OFFLINE"
  /\ power = [ok |-> FALSE, val |-> ZeroOf(Regs)]
  /\ dev \in [Regs -> Values] /\ late = [r \in UiRegs |-> <<>>]
  /\ budget = [writes |-> MaxWrites, releases |-> MaxReleases,
               faults |-> MaxFaults, losses |-> MaxLosses, panel |-> MaxPanel]
  /\ tapAhead = 0 /\ unshown = {} /\ raced = FALSE
  /\ cfgFresh = FALSE /\ cfgAge = 0 /\ heldPolls = 0
  /\ want = [r \in UiRegs |-> {}]

\* A disturbance the run allows a bounded number of times.
Spend(b) == budget[b] > 0 /\ budget' = [budget EXCEPT ![b] = @ - 1]

\* A transaction goes unanswered: always on a lost link, otherwise when the
\* radio or the unit misses every one of the code's retries.
Unanswered == \/ client = "lost" /\ UNCHANGED budget
              \/ client = "up" /\ Spend("faults")

DropClientOnly == client' = "null" /\ UNCHANGED connState
DropLink == client' = "null" /\ connState' = "OFFLINE"

Queued(r) == \E i \in DOMAIN writeQ : writeQ[i].reg = r
Outstanding(r) == Queued(r) \/ (pw # NoWrite /\ pw.reg = r)

-----------------------------------------------------------------------------
(* The task: sleep, release window, connection.                            *)

\* xSemaphoreTake returns on a give or when the poll/retry period elapses;
\* either way the semaphore is empty afterwards.
TaskWakes ==
  /\ pc = "sleep" /\ pc' = "start" /\ wake' = FALSE
  /\ UNCHANGED <<idx, pw, tmp, cfgOk, client, slowVars, uiVars, histVars, writeQ,
                 forceFull, released, connState, power, unitVars, budget>>

PollReleased ==
  /\ pc = "start" /\ released /\ pc' = "sleep" /\ DropLink
  /\ UNCHANGED <<idx, pw, tmp, cfgOk, slowVars, uiVars, histVars, writeQ, forceFull,
                 wake, released, power, unitVars, budget>>

PollOnLinkReleased ==
  /\ pc = "start" /\ client = "up" /\ pc' = "writes"
  /\ UNCHANGED <<idx, pw, tmp, cfgOk, client, slowVars, uiVars, histVars, writeQ,
                 forceFull, wake, released, connState, power, unitVars, budget>>

PollOnLinkNoWrites ==
  /\ pc = "start" /\ ~released /\ client = "up" /\ pc' = "soc"
  /\ UNCHANGED <<idx, pw, tmp, cfgOk, client, slowVars, uiVars, histVars, writeQ,
                 forceFull, wake, released, connState, power, unitVars, budget>>

PollOnLink ==
  /\ pc = "start" /\ ~released /\ client = "up" /\ pc' = "writes"
  /\ UNCHANGED <<idx, pw, tmp, cfgOk, client, slowVars, uiVars, histVars, writeQ,
                 forceFull, wake, released, connState, power, unitVars, budget>>

PollConnects ==
  /\ pc = "start" /\ ~released /\ client # "up" /\ pc' = "connect"
  /\ client' = "null" /\ connState' = "CONNECTING"
  /\ UNCHANGED <<idx, pw, tmp, cfgOk, slowVars, uiVars, histVars, writeQ, forceFull,
                 wake, released, power, unitVars, budget>>

ConnectFails ==
  /\ pc = "connect" /\ pc' = "sleep" /\ DropLink /\ Spend("faults")
  /\ UNCHANGED <<idx, pw, tmp, cfgOk, slowVars, uiVars, histVars, writeQ, forceFull,
                 wake, released, power, unitVars>>

KeepForce == forceFull
ForceOnFreshLink == TRUE

\* The state stays CONNECTING until telemetry arrives.
ConnectSucceeds ==
  /\ pc = "connect" /\ pc' = "writes" /\ client' = "up"
  /\ forceFull' = ForceOnFreshLink
  /\ cfgFresh' = FALSE
  /\ UNCHANGED <<idx, pw, tmp, cfgOk, slowVars, uiVars, tapAhead, unshown, raced,
                 cfgAge, heldPolls, want, writeQ, wake, released, connState, power, unitVars, budget>>

-----------------------------------------------------------------------------
(* The task: queued writes.                                                *)

TakeWrite ==
  /\ pc = "writes" /\ writeQ # <<>> /\ pc' = "write"
  /\ pw' = Head(writeQ) /\ writeQ' = Tail(writeQ)
  /\ tapAhead' = IF tapAhead > 0 THEN tapAhead - 1 ELSE 0
  /\ UNCHANGED <<idx, tmp, cfgOk, client, slowVars, uiVars, unshown, raced, cfgFresh,
                 cfgAge, heldPolls, want, forceFull, wake, released, connState, power, unitVars, budget>>

\* The unit takes a write of r and, by the time the call returns, has committed
\* all but the last n of those waiting; it commits them in the order they came.
Takes(r, v, n) ==
  LET q == Append(late[r], v)
      done == Len(q) - n
  IN /\ late' = [late EXCEPT ![r] = SubSeq(q, done + 1, Len(q))]
     /\ dev' = IF done = 0 THEN dev ELSE [dev EXCEPT ![r] = q[done]]

\* writeReg() returned true: the register reads as the value written.  It may
\* have held that value before, with the write itself not committed yet.
WriteConfirmed ==
  /\ pc = "write" /\ client = "up" /\ pc' = "writes" /\ pw' = NoWrite
  /\ \E n \in 0 .. Len(late[pw.reg]) + 1 : Takes(pw.reg, pw.val, n)
  /\ dev'[pw.reg] = pw.val
  /\ unshown' = unshown \cup ({pw.reg} \cap SlowRegs)
  /\ UNCHANGED <<idx, tmp, cfgOk, client, slowVars, uiVars, tapAhead, raced, cfgFresh,
                 cfgAge, heldPolls, want, writeQ, forceFull, wake, released, connState, power,
                 budget>>

\* writeReg() gave up; the unit may have taken the value all the same, and may
\* commit it now or later.  The result is discarded and the write not retried.
WriteUnconfirmed ==
  /\ pc = "write" /\ Unanswered /\ pc' = "writes" /\ pw' = NoWrite
  /\ \/ UNCHANGED unitVars
     \/ \E n \in 0 .. Len(late[pw.reg]) + 1 : Takes(pw.reg, pw.val, n)
  /\ want' = IF Queued(pw.reg) THEN want ELSE [want EXCEPT ![pw.reg] = {}]
  /\ UNCHANGED <<idx, tmp, cfgOk, client, slowVars, uiVars, tapAhead, unshown, raced,
                 cfgFresh, cfgAge, heldPolls, writeQ, forceFull, wake, released, connState, power>>

WritesDrained ==
  /\ pc = "writes" /\ writeQ = <<>> /\ pc' = "soc"
  /\ UNCHANGED <<idx, pw, tmp, cfgOk, client, slowVars, uiVars, histVars, writeQ, forceFull,
                 wake, released, connState, power, unitVars, budget>>

-----------------------------------------------------------------------------
(* The task: telemetry reads.                                              *)

SocAnswers ==
  /\ pc = "soc" /\ client = "up" /\ pc' = "fast" /\ idx' = 1
  /\ UNCHANGED <<pw, tmp, cfgOk, client, slowVars, uiVars, histVars, writeQ, forceFull,
                 wake, released, connState, power, unitVars, budget>>

SocFails ==
  /\ pc = "soc" /\ Unanswered /\ pc' = "sleep" /\ DropLink
  /\ UNCHANGED <<idx, pw, tmp, cfgOk, slowVars, uiVars, histVars, writeQ, forceFull,
                 wake, released, power, unitVars>>

FastReadAnswers ==
  /\ pc = "fast" /\ client = "up" /\ idx \in DOMAIN FastReads /\ idx' = idx + 1
  /\ tmp' = [r \in FastRegs |-> IF r \in FastReads[idx] THEN dev[r] ELSE tmp[r]]
  /\ UNCHANGED <<pc, pw, cfgOk, client, slowVars, uiVars, histVars, writeQ, forceFull,
                 wake, released, connState, power, unitVars, budget>>

\* The fields keep the zero of `PowerData tmp = {}'.
FastReadFails ==
  /\ pc = "fast" /\ Unanswered /\ idx \in DOMAIN FastReads /\ idx' = idx + 1
  /\ UNCHANGED <<pc, pw, tmp, cfgOk, client, slowVars, uiVars, histVars, writeQ,
                 forceFull, wake, released, connState, power, unitVars>>

SlowTierOnDemand == forceFull \/ ~slowValid
SlowTierDue == forceFull \/ ~slowValid \/ slowTick = 0

SlowTierStarts ==
  /\ pc = "fast" /\ idx \notin DOMAIN FastReads /\ SlowTierDue
  /\ pc' = "slow" /\ idx' = 1 /\ cfgOk' = FALSE
  /\ UNCHANGED <<pw, tmp, client, slowVars, uiVars, histVars, writeQ, forceFull, wake,
                 released, connState, power, unitVars, budget>>

SlowTierSkipped ==
  /\ pc = "fast" /\ idx \notin DOMAIN FastReads /\ ~SlowTierDue
  /\ pc' = "publish"
  /\ UNCHANGED <<idx, pw, tmp, cfgOk, client, slowVars, uiVars, histVars, writeQ,
                 forceFull, wake, released, connState, power, unitVars, budget>>

CachedOnce(block) ==
  [r \in SlowRegs |-> IF r \in block /\ ~slowValid THEN dev[r] ELSE slow[r]]
Cached(block) == [r \in SlowRegs |-> IF r \in block THEN dev[r] ELSE slow[r]]

SlowReadAnswers ==
  /\ pc = "slow" /\ client = "up" /\ idx \in DOMAIN SlowReads /\ idx' = idx + 1
  /\ slow' = Cached(SlowReads[idx])
  /\ cfgOk' = (cfgOk \/ idx = CfgRead)
  /\ unshown' = unshown \ SlowReads[idx]
  /\ cfgFresh' = (cfgFresh \/ idx = CfgRead)
  /\ cfgAge' = IF idx = CfgRead THEN 0 ELSE cfgAge
  /\ UNCHANGED <<pc, pw, tmp, client, slowValid, slowTick, uiVars, tapAhead, raced,
                 heldPolls, want, writeQ, forceFull, wake, released, connState, power, unitVars, budget>>

\* The cache keeps the older value of the block.
SlowReadFails ==
  /\ pc = "slow" /\ Unanswered /\ idx \in DOMAIN SlowReads /\ idx' = idx + 1
  /\ UNCHANGED <<pc, pw, tmp, cfgOk, client, slowVars, uiVars, histVars, writeQ,
                 forceFull, wake, released, connState, power, unitVars>>

ForceNever == FALSE
ForceAgain == ~cfgOk

\* `g_forceFull = !cfgOk' overwrites whatever the main loop stored meanwhile.
SlowTierEnds ==
  /\ pc = "slow" /\ idx \notin DOMAIN SlowReads /\ pc' = "publish"
  /\ slowValid' = TRUE /\ forceFull' = ForceAgain
  /\ raced' = (\E r \in CfgRegs : Queued(r))
  /\ UNCHANGED <<idx, pw, tmp, cfgOk, client, slow, slowTick, uiVars, tapAhead, unshown,
                 cfgFresh, cfgAge, heldPolls, want, writeQ, wake, released, connState, power, unitVars,
                 budget>>

Assembled == [r \in Regs |-> IF r \in FastRegs THEN tmp[r] ELSE slow[r]]

\* poll() returns: its locals die with it.
Publish ==
  /\ pc = "publish" /\ pc' = "sleep"
  /\ idx' = 1 /\ tmp' = ZeroOf(FastRegs) /\ cfgOk' = FALSE
  /\ slowTick' = (slowTick + 1) % SlowEvery
  /\ power' = [ok |-> TRUE, val |-> Assembled]
  /\ connState' = "ONLINE"
  /\ landed' = pending
  /\ cfgAge' = cfgAge + 1
  /\ heldPolls' = IF released THEN heldPolls + 1 ELSE 0
  /\ UNCHANGED <<pw, client, slow, slowValid, ui, pending, tapAhead, unshown, raced,
                 cfgFresh, want, writeQ, forceFull, wake, released, unitVars,
                 budget>>

-----------------------------------------------------------------------------
(* The main loop.  bluetti_write_reg() is three statements and the tap     *)
(* handler's notePendingWrite() a fourth; the task may run between them.   *)

\* xQueueSend with no wait: a full queue drops the write silently.
SentUnchecked(q, w) == Append(q, w)
SentToFront(q, w) == IF Len(q) < WriteQLen THEN <<w>> \o q ELSE q
Sent(q, w) == IF Len(q) < WriteQLen THEN Append(q, w) ELSE q

UiQueuesWrite ==
  /\ ui = "idle" /\ power.ok /\ ui' = "force" /\ Spend("writes")
  /\ \E w \in Write :
       /\ writeQ' = Sent(writeQ, w)
       /\ IF Len(writeQ) < WriteQLen
            THEN /\ want' = [want EXCEPT ![w.reg] = {w.val}]
                 /\ tapAhead' = Len(writeQ) + 1
            ELSE UNCHANGED want /\ tapAhead' = 0
  /\ UNCHANGED <<taskVars, slowVars, pending, landed, unshown, raced, cfgFresh, cfgAge,
                 heldPolls, forceFull, wake, released, connState, power, unitVars>>

UiForcesFull ==
  /\ ui = "force" /\ ui' = "wake" /\ forceFull' = TRUE /\ raced' = FALSE
  /\ UNCHANGED <<taskVars, slowVars, pending, landed, tapAhead, unshown, cfgFresh,
                 cfgAge, heldPolls, want, writeQ, wake, released, connState, power, unitVars, budget>>

UiWakesForWrites ==
  /\ \/ ui = "wake" /\ ui' = "note" /\ wake' = TRUE
     \/ ui = "wakeOnly" /\ ui' = "idle" /\ wake' = wake
  /\ UNCHANGED <<taskVars, slowVars, pending, landed, histVars, writeQ, forceFull,
                 released, connState, power, unitVars, budget>>

UiWakesTask ==
  /\ \/ ui = "wake" /\ ui' = "note"
     \/ ui = "wakeOnly" /\ ui' = "idle"
  /\ wake' = TRUE
  /\ UNCHANGED <<taskVars, slowVars, pending, landed, histVars, writeQ, forceFull,
                 released, connState, power, unitVars, budget>>

UiNotesPending ==
  /\ ui = "note" /\ ui' = "idle" /\ pending' = TRUE /\ landed' = FALSE
  /\ UNCHANGED <<taskVars, slowVars, histVars, writeQ, forceFull, wake, released,
                 connState, power, unitVars, budget>>

UiReleases ==
  /\ ui = "idle" /\ ui' = "wakeOnly" /\ released' = TRUE /\ Spend("releases")
  /\ heldPolls' = 0
  /\ UNCHANGED <<taskVars, slowVars, pending, landed, tapAhead, unshown, raced,
                 cfgFresh, cfgAge, want, writeQ, forceFull, wake,
                 connState, power, unitVars>>

UiResumes ==
  /\ ui = "idle" /\ released /\ ui' = "wakeOnly" /\ released' = FALSE
  /\ heldPolls' = 0
  /\ UNCHANGED <<taskVars, slowVars, pending, landed, tapAhead, unshown, raced,
                 cfgFresh, cfgAge, want, writeQ, forceFull, wake,
                 connState, power, unitVars, budget>>

\* ui_tick(): the spinner goes when a poll landed since the tap ...
UiSpinnerLands ==
  /\ ui = "idle" /\ pending /\ landed /\ pending' = FALSE /\ landed' = FALSE
  /\ UNCHANGED <<taskVars, slowVars, ui, histVars, writeQ, forceFull, wake, released,
                 connState, power, unitVars, budget>>

\* ... or after six seconds.
UiSpinnerTimesOut ==
  /\ ui = "idle" /\ pending /\ ~landed /\ pending' = FALSE
  /\ UNCHANGED <<taskVars, slowVars, ui, landed, histVars, writeQ, forceFull, wake,
                 released, connState, power, unitVars, budget>>

-----------------------------------------------------------------------------
(* Clock, radio and the unit itself.                                       *)

ReleaseExpires ==
  /\ released /\ released' = FALSE /\ heldPolls' = 0
  /\ UNCHANGED <<taskVars, slowVars, uiVars, tapAhead, unshown, raced, cfgFresh,
                 cfgAge, want, writeQ, forceFull, wake,
                 connState, power, unitVars, budget>>

LinkLost ==
  /\ client = "up" /\ client' = "lost" /\ Spend("losses")
  /\ UNCHANGED <<pc, idx, pw, tmp, cfgOk, slowVars, uiVars, histVars, writeQ, forceFull,
                 wake, released, connState, power, unitVars>>

\* A front-panel button, a menu of the unit, or the phone app.
PanelChanges ==
  /\ Spend("panel")
  /\ \E r \in Regs : \E v \in Values \ {dev[r]} :
       /\ dev' = [dev EXCEPT ![r] = v]
       /\ want' = IF r \in UiRegs /\ ~Outstanding(r)
                    THEN [want EXCEPT ![r] = {}] ELSE want
  /\ UNCHANGED <<taskVars, slowVars, uiVars, tapAhead, unshown, raced, cfgFresh, cfgAge,
                 heldPolls, writeQ, forceFull, wake, released, connState, power, late>>

\* "The Elite 300 commits ~0.4s after the echo": a write takes effect at a time
\* of the unit's own, possibly long after writeReg() gave up on it.
UnitCommits ==
  /\ \E r \in UiRegs :
       /\ late[r] # <<>>
       /\ dev' = [dev EXCEPT ![r] = Head(late[r])]
       /\ late' = [late EXCEPT ![r] = Tail(@)]
  /\ UNCHANGED <<taskVars, slowVars, uiVars, histVars, writeQ, forceFull, wake, released,
                 connState, power, budget>>

-----------------------------------------------------------------------------
Connects == PollReleased \/ PollOnLink \/ PollConnects \/ ConnectFails \/ ConnectSucceeds
Writes   == TakeWrite \/ WriteConfirmed \/ WriteUnconfirmed \/ WritesDrained
Reads    == \/ SocAnswers \/ SocFails \/ FastReadAnswers \/ FastReadFails
            \/ SlowTierStarts \/ SlowTierSkipped \/ SlowReadAnswers \/ SlowReadFails
            \/ SlowTierEnds \/ Publish
Task     == TaskWakes \/ Connects \/ Writes \/ Reads

UiCall    == UiForcesFull \/ UiWakesTask \/ UiNotesPending
UiTick    == UiSpinnerLands \/ UiSpinnerTimesOut
UiTap     == UiQueuesWrite \/ UiReleases \/ UiResumes
Env       == ReleaseExpires \/ LinkLost \/ PanelChanges \/ UnitCommits

Next == Task \/ UiCall \/ UiTick \/ UiTap \/ Env

Spec == Init /\ [][Next]_vars

\* The task and the main loop are scheduled forever; time passes.  Taps,
\* losses and faults are never promised, and a fault budget that is spent
\* leaves the answering outcome as the only one.
Fairness == WF_vars(Task) /\ WF_vars(UiCall) /\ WF_vars(UiTick)
            /\ WF_vars(ReleaseExpires)

FairSpec == Spec /\ Fairness

-----------------------------------------------------------------------------
(* Properties.                                                             *)

\* Every variable stays in its domain; the write queue within its length.
ControlTyped ==
  /\ pc \in {"sleep", "start", "connect", "writes", "write", "soc", "fast", "slow",
             "publish"}
  /\ idx \in Nat \ {0} /\ slowTick \in 0 .. SlowEvery - 1
  /\ client \in {"null", "up", "lost"}
  /\ connState \in {"OFFLINE", "CONNECTING", "ONLINE"}
  /\ ui \in {"idle", "force", "wake", "wakeOnly", "note"}
  /\ tapAhead \in Nat /\ cfgAge \in Nat /\ heldPolls \in Nat

FlagsTyped ==
  /\ cfgOk \in BOOLEAN /\ slowValid \in BOOLEAN /\ forceFull \in BOOLEAN
  /\ wake \in BOOLEAN /\ released \in BOOLEAN /\ pending \in BOOLEAN
  /\ landed \in BOOLEAN /\ raced \in BOOLEAN /\ cfgFresh \in BOOLEAN

QueueTyped ==
  /\ writeQ \in Seq(Write) /\ Len(writeQ) <= WriteQLen
  /\ pw \in Write \cup {NoWrite} /\ (pc = "write" <=> pw # NoWrite)

DataTyped ==
  /\ tmp \in [FastRegs -> Values] /\ slow \in [SlowRegs -> Values]
  /\ power \in [ok : BOOLEAN, val : [Regs -> Values]]
  /\ dev \in [Regs -> Values] /\ budget \in [Budgets -> Nat]
  /\ unshown \in SUBSET SlowRegs /\ want \in [UiRegs -> SUBSET Values]
  /\ late \in [UiRegs -> Seq(Values)]

TypeOK == ControlTyped /\ FlagsTyped /\ QueueTyped /\ DataTyped

\* Between polls the status bar tells the truth: ONLINE exactly when the task
\* holds a client, and CONNECTING never outlives the poll that connected
\* (every early return of connectAndHandshake() and poll() resets g_state).
SleepStateAgrees ==
  pc = "sleep" => connState = IF client = "null" THEN "OFFLINE" ELSE "ONLINE"

\* No wakeup is lost.  If the task sleeps on a live client, a write still
\* queued or a release still to be acted on has its give of g_wake pending or
\* about to be made, so it is not left to the poll period.
WakeupNotLost ==
  pc = "sleep" /\ client # "null" /\ (released \/ writeQ # <<>>)
    => wake \/ ui \in {"force", "wake", "wakeOnly"}

\* "fresh link -- re-read the slow tier, don't trust cache": once g_forceFull
\* is down, the cached config block was read on the link in use.
ReconnectRefreshes == client # "null" /\ pc # "connect" /\ ~forceFull => cfgFresh

\* "keep re-reading until the block actually lands": a confirmed write to the
\* config block that was not read back holds g_forceFull up, whatever reads
\* fail and whatever links drop; the one exception is the write queued while
\* a slow tier was about to store its own result (see FlagHeldWhileStale).
CfgRereadUntilLands ==
  unshown \cap CfgRegs # {} => forceFull \/ raced \/ ui = "force"

\* Telemetry of the config block is never older than SLOW_EVERY polls, plus
\* one for every read or link that failed: a failed slow tier is retried on
\* the next poll, not a period later.
Failures == (MaxFaults - budget.faults) + (MaxLosses - budget.losses)
CfgAgeBounded == cfgAge <= SlowEvery + Failures

\* Writes reach the unit in tap order: when no write to a register is queued or
\* in hand and the unit has committed those it took, the register holds the value
\* of the last one the queue accepted.  An earlier write, given up on and committed
\* while later ones wait or after they were sent, never has the last word.  The
\* exceptions: the last write itself went unconfirmed, or the unit was operated
\* since.
LastWriteWins ==
  \A r \in UiRegs :
    Outstanding(r) \/ late[r] # <<>> \/ want[r] \subseteq {dev[r]}

\* "Released for the phone app: stay disconnected until the window expires":
\* the poll under way when the user taps Release may still publish, and no
\* poll after it does, so the link is free after one poll at most.
ReleaseStopsPolls == released => heldPolls <= 1

\* Every accepted write is eventually handed to the unit.
WritesTaken == writeQ # <<>> ~> writeQ = <<>>

\* Once taps, faults, losses and panel operations stop, the display shows the
\* unit's registers and goes on doing so: no flag, cache or link state the
\* disturbances can leave behind freezes a stale value.
DisplayConverges == <>[](power.ok /\ power.val = dev)

\* "keep re-reading until the block actually lands, so the confirmed value isn't
\* left stale" (568-569), without the exception of CfgRereadUntilLands: a poll
\* that is about to publish a config register older than a confirmed write to
\* it still has g_forceFull up, so that the next poll reads it.
FlagHeldWhileStale ==
  pc = "publish" /\ unshown \cap CfgRegs # {} => forceFull \/ ui = "force"

\* "until the next poll confirms the new value" (ui.cpp:1043-1045): the spinner
\* is not taken off by a poll while the tapped write is still in the queue.
SpinnerCoversWrite == [][UiSpinnerLands => tapAhead = 0]_vars

\* "the UI must not lag behind the hardware": with the unit left alone, what a
\* poll publishes for an output register is what the register holds.
OutputStateIsRead ==
  [][pc = "publish" /\ pc' = "sleep" => \A r \in FastRegs : power'.val[r] = dev[r]]_vars

=============================================================================
