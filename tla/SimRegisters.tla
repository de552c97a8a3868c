----------------------------- MODULE SimRegisters -----------------------------
(***************************************************************************)
(* The register model of the simulated unit (src/tools/bluetti_sim/        *)
(* registers.py) and the part of its window that shares it                 *)
(* (bluetti_sim.py).                                                       *)
(*                                                                         *)
(* The BLE thread reads and queues writes; the window's thread sets values,*)
(* advances the energy counters and shows what was committed.  A queued    *)
(* write waits for the commit delay; a step of time passes for all of them *)
(* at once.  Every critical section of `_lock' is one step.                *)
(***************************************************************************)
EXTENDS Integers, Sequences, FiniteSets

CONSTANTS
  Word,       \* values of a register (65536)
  Windows,    \* READABLE: the readable windows, pairs <<first, end>>
  Delays,     \* commit delays the window offers, in steps of time
  SetValues,  \* SetValues[a]: what the window's control of register a sets it to
  EnergyValues, \* what can be typed for an energy counter, in tenths of a kWh
  Budgets     \* bounds of a run, [sets, energies, delays, writes, ticks |-> ...]

ASSUME SimAssumption ==
  /\ Word \in Nat \ {0, 1} /\ 1 \in Delays /\ Delays \subseteq Nat
  /\ EnergyValues \subseteq Int
  /\ DOMAIN SetValues \subseteq Int
  /\ \A a \in DOMAIN SetValues : SetValues[a] \subseteq 0..(Word - 1)

DC_OUT_W == 140
AC_OUT_W == 142
DC_IN_W == 144
AC_IN_W == 146
AC_OUT_ENERGY == 152
PV_CHG_ENERGY == 154
GRID_CHG_ENERGY == 156
AC_OUT_DV == 1431
CTRL_AC == 2011
CTRL_DC == 2012
TIME_REMAINING == 104
ENERGY_COUNTERS == {AC_OUT_ENERGY, PV_CHG_ENERGY, GRID_CHG_ENERGY}

\* Registers that are stored and play a part here; any other reads as 0.
Stored == {DC_OUT_W, AC_OUT_W, DC_IN_W, AC_IN_W, AC_OUT_DV, CTRL_AC, CTRL_DC,
           TIME_REMAINING} \cup DOMAIN SetValues
Initial == [a \in Stored |-> IF a \in {CTRL_AC, CTRL_DC} THEN 1
                             ELSE IF a = AC_OUT_DV THEN 2300 % Word ELSE 0]
InitialEnergy == [c \in ENERGY_COUNTERS |-> CASE c = AC_OUT_ENERGY -> 413
                                               [] c = PV_CHG_ENERGY -> 128
                                               [] c = GRID_CHG_ENERGY -> 62]

readable(a) == \E w \in Windows : w[1] <= a /\ a < w[2]

Controls == DOMAIN SetValues

VARIABLES
  r,        \* _r: the stored registers
  energy,   \* _energy, in tenths of a kWh
  pending,  \* _pending: writes not yet committed, [wait, addr, val]
  delay,    \* commit_delay
  calls,    \* calls[t]: commits of thread t whose callback has not run yet
  events,   \* the window's queue: "commit" and "log"
  shown,    \* what the controls show
  gui,      \* _poll(): "idle", "tick", "drain" or "refresh"
  committed,\* its local
  spare     \* what is left of the bounds

\* History variables: read by properties only.
VARIABLES
  want,     \* the value each register must have once no write to it is pending
  cut       \* the delay was shortened while a write was waiting

simVars == <<r, energy, pending, delay, calls, events, shown, gui, committed, spare,
             want, cut>>

Threads == {"ble", "gui"}

SimInit ==
  /\ r = Initial /\ energy = InitialEnergy /\ pending = <<>>
  /\ delay = 1
  /\ calls = [t \in Threads |-> <<>>] /\ events = <<>>
  /\ shown = [a \in Controls |-> Initial[a]] /\ gui = "idle" /\ committed = FALSE
  /\ spare \in Budgets /\ want = Initial /\ cut = FALSE

Use(b) == spare[b] > 0 /\ spare' = [spare EXCEPT ![b] = @ - 1]

-----------------------------------------------------------------------------
(* What a register reads as.                                               *)

acOut == IF r[CTRL_AC] # 0 THEN r[AC_OUT_W] ELSE 0
dcOut == IF r[CTRL_DC] # 0 THEN r[DC_OUT_W] ELSE 0
netW  == (r[DC_IN_W] + r[AC_IN_W]) - (dcOut + acOut)
Flag(b, n) == IF b THEN n ELSE 0

LowWord(v) == v % Word
HighWord(v) == v \div Word

\* Two registers of a 32-bit counter, low word first, which stops at its end.
EnergyWord(a) ==
  LET base == a - ((a - 152) % 2)
      most == Word * Word - 1
      tenths == IF energy[base] < most THEN energy[base] ELSE most
  IN  IF a = base THEN LowWord(tenths) ELSE HighWord(tenths)

\* A negative value is sent in two's complement.
SignedWord(v, low) ==
  LET u == IF v < 0 THEN v + Word * Word ELSE v
  IN  IF low THEN LowWord(u) ELSE HighWord(u)

_value(a) ==
  CASE a \in 152..157     -> EnergyWord(a)
    [] a \in {140, 1400}  -> dcOut
    [] a \in {142, 1420}  -> acOut
    [] a = 161 -> Flag(r[AC_IN_W] # 0, 2) + Flag(acOut # 0, 1)
    [] a = 103 -> IF netW > 0 THEN 1 ELSE IF netW < 0 THEN 2 ELSE 0
    [] a = 105 -> r[TIME_REMAINING]
    [] a = 124 -> Flag(acOut # 0, 2)
    [] a \in {148, 149}   -> SignedWord(acOut - r[AC_IN_W], a = 148)
    [] a = 169  -> r[AC_OUT_DV] \div 10
    [] a = 1511 -> r[AC_OUT_DV]
    [] a = 1432 -> (acOut * 100) \div (IF r[AC_OUT_DV] = 0 THEN 1 ELSE r[AC_OUT_DV])
    [] a = 1314 -> Flag(r[AC_IN_W] # 0, 2430)
    [] a = 1315 -> (r[AC_IN_W] * 100) \div 2430
    [] OTHER -> IF a \in Stored THEN r[a] ELSE 0

-----------------------------------------------------------------------------
(* Commits.                                                                *)

\* The entries of a queue whose wait is one of `waits', in order.
Entries(queue, waits) ==
  LET taken[n \in 0..Len(queue)] ==
        IF n = 0 THEN <<>>
        ELSE IF queue[n].wait \in waits THEN Append(taken[n - 1], queue[n])
        ELSE taken[n - 1]
  IN  taken[Len(queue)]

Due(queue) == Entries(queue, {0})
Waiting(queue) == Entries(queue, Nat \ {0})

\* The faulty form: the newest write is stored first.
AppliedBackwards(regs, due) ==
  LET stored[n \in 0..Len(due)] ==
        IF n = 0 THEN regs
        ELSE LET w == due[Len(due) - n + 1]
             IN  [stored[n - 1] EXCEPT ![w.addr] = w.val % Word]
  IN  stored[Len(due)]

\* The registers once the due writes are stored, one after the other.
Applied(regs, due) ==
  LET stored[n \in 0..Len(due)] ==
        IF n = 0 THEN regs
        ELSE [stored[n - 1] EXCEPT ![due[n].addr] = due[n].val % Word]
  IN  stored[Len(due)]

\* commit_due() of thread t: due writes are taken and stored under the lock,
\* their callbacks run after it.
commit_due(t) ==
  /\ calls[t] = <<>>
  /\ r' = Applied(r, Due(pending)) /\ pending' = Waiting(pending)
  /\ calls' = [calls EXCEPT ![t] = Due(pending)]

\* The window's callback puts an event.
on_commit(t) ==
  /\ calls[t] # <<>> /\ calls' = [calls EXCEPT ![t] = Tail(@)]
  /\ events' = Append(events, "commit")
  /\ UNCHANGED <<r, energy, pending, delay, shown, gui, committed, spare, want, cut>>

TimePasses ==
  /\ \E i \in DOMAIN pending : pending[i].wait > 0
  /\ pending' = [i \in DOMAIN pending |->
                   [pending[i] EXCEPT !.wait = IF @ > 0 THEN @ - 1 ELSE 0]]
  /\ UNCHANGED <<r, energy, delay, calls, events, shown, gui, committed, spare, want, cut>>

-----------------------------------------------------------------------------
(* The BLE thread.  A write is logged in the window; so is a read, left out. *)

write(a, v) ==
  /\ Use("writes") /\ calls["ble"] = <<>> /\ events' = Append(events, "log")
  /\ IF readable(a)
     THEN /\ pending' = Append(pending, [wait |-> delay, addr |-> a, val |-> v])
          /\ want' = [want EXCEPT ![a] = v % Word]
     ELSE UNCHANGED <<pending, want>>
  /\ UNCHANGED <<r, energy, delay, calls, shown, gui, committed, cut>>

\* The values of a read request, <<>> when a register is not readable.
ReadOut(a, qty) ==
  IF \A b \in a..(a + qty - 1) : readable(b)
  THEN [i \in 1..qty |-> _value(a + i - 1)] ELSE <<>>

-----------------------------------------------------------------------------
(* The window's thread.                                                    *)

Overtakes(a) == \E i \in DOMAIN pending : pending[i].addr = a

\* A control is moved: it shows the value and sets the register.  A write that
\* waits lands on top of it.
Set(a, v) ==
  /\ gui = "idle" /\ Use("sets") /\ r' = [r EXCEPT ![a] = v % Word]
  /\ shown' = [shown EXCEPT ![a] = v]
  /\ want' = IF Overtakes(a) THEN want ELSE [want EXCEPT ![a] = v % Word]
  /\ UNCHANGED <<energy, pending, delay, calls, events, gui, committed, cut>>

SetDelay(d) ==
  /\ gui = "idle" /\ d # delay /\ Use("delays") /\ delay' = d
  /\ cut' = (cut \/ (d < delay /\ Waiting(pending) # <<>>))
  /\ UNCHANGED <<r, energy, pending, calls, events, shown, gui, committed, want>>

\* A typed energy is never negative.
SetEnergy(c, e) ==
  /\ gui = "idle" /\ Use("energies") /\ energy' = [energy EXCEPT ![c] = IF e < 0 THEN 0 ELSE e]
  /\ UNCHANGED <<r, pending, delay, calls, events, shown, gui, committed, want, cut>>

\* A poll that finds nothing to do changes nothing and is left out.
SomethingToDo == Due(pending) # <<>> \/ events # <<>> \/ spare.ticks > 0

\* _poll() calls tick(), which commits what is due ...
PollCommit ==
  /\ gui = "idle" /\ SomethingToDo /\ commit_due("gui") /\ gui' = "tick"
  /\ UNCHANGED <<energy, delay, events, shown, committed, spare, want, cut>>

\* ... and adds up the energy (too little to count, or so much that it does), ...
PollTick ==
  /\ gui = "tick" /\ calls["gui"] = <<>> /\ gui' = "drain"
  /\ \/ UNCHANGED <<energy, spare>>
     \/ /\ Use("ticks")
        /\ energy' = [energy EXCEPT ![AC_OUT_ENERGY] = @ + acOut,
             ![PV_CHG_ENERGY] = @ + r[DC_IN_W], ![GRID_CHG_ENERGY] = @ + r[AC_IN_W]]
  /\ UNCHANGED <<r, pending, delay, calls, events, shown, committed, want, cut>>

\* The faulty form: only the last event decides whether to refresh.
PollDrainLast ==
  /\ gui = "drain"
  /\ IF events = <<>> THEN gui' = "refresh" /\ UNCHANGED <<events, committed>>
     ELSE events' = Tail(events) /\ committed' = (Head(events) = "commit") /\ UNCHANGED gui
  /\ UNCHANGED <<r, energy, pending, delay, calls, shown, spare, want, cut>>

\* ... takes the events until there are none, ...
PollDrain ==
  /\ gui = "drain"
  /\ IF events = <<>> THEN gui' = "refresh" /\ UNCHANGED <<events, committed>>
     ELSE /\ events' = Tail(events) /\ committed' = (committed \/ Head(events) = "commit")
          /\ UNCHANGED gui
  /\ UNCHANGED <<r, energy, pending, delay, calls, shown, spare, want, cut>>

\* ... and shows the registers when one was committed.
PollRefresh ==
  /\ gui = "refresh" /\ gui' = "idle" /\ committed' = FALSE
  /\ shown' = IF committed THEN [a \in Controls |-> r[a]] ELSE shown
  /\ UNCHANGED <<r, energy, pending, delay, calls, events, spare, want, cut>>

GuiStep == PollCommit \/ PollTick \/ on_commit("gui") \/ PollDrain \/ PollRefresh
=============================================================================
