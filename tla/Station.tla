------------------------------- MODULE Station --------------------------------
(***************************************************************************)
(* The sweep of the panel over the registers of the simulated unit: a read *)
(* request of the sweep is answered by the unit's BLE thread, which commits*)
(* the due writes first; the user of the window sets values meanwhile, and *)
(* the panel's writes land after the commit delay.  The link between them  *)
(* is that of RegLink: a read is answered, or it fails after its retries.  *)
(***************************************************************************)
EXTENDS SimRegisters, DiagSweep

\* Bounds of a run, besides those of SimRegisters: switches, resets and fails.
CONSTANT Writes  \* writes the panel makes, pairs <<register, value>>

ASSUME StationAssumption ==
  \A w \in Writes : w[2] \in Nat /\ (readable(w[1]) => w[1] \in Stored)

VARIABLE
  answer    \* a read the unit's BLE thread is working on: "no" or "commit"

vars == <<simVars, diagVars, answer>>

Init == SimInit /\ DiagInit /\ answer = "no"

\* What a step of the panel that uses up a bound leaves alone.
unitElse == <<r, energy, pending, delay, calls, events, shown, gui, committed, want, cut>>

\* The panel.
SwitchSweep ==
  /\ Use("switches") /\ bluetti_diag_enable(~g_diagOn) /\ UNCHANGED <<unitElse, answer>>
Reset == Use("resets") /\ TapResets /\ UNCHANGED <<unitElse, answer>>
ResetGoesOn == (ResetSnap \/ ResetHead \/ ResetCount) /\ UNCHANGED <<simVars, answer>>

Sweep == (StartSweep \/ DiagStep) /\ UNCHANGED <<simVars, answer>>

\* The stores of a reset take no longer than a read of the sweep over the air.
ResetOver == loop = "idle"

\* A read of the sweep is never answered.
ReadFails ==
  /\ answer = "no" /\ ResetOver /\ Use("fails") /\ ReadBlock(<<>>) /\ UNCHANGED <<unitElse, answer>>

\* The unit's BLE thread: it commits, ...
ReadCommits ==
  /\ sweep = "read" /\ answer = "no" /\ answer' = "commit" /\ commit_due("ble")
  /\ UNCHANGED <<energy, delay, events, shown, gui, committed, spare, want, cut, diagVars>>

\* The reply cannot hold a register beyond two bytes: packing it raises, the
\* request stays unanswered and the panel's read fails.
Reply(words) == IF \A i \in DOMAIN words : words[i] < Word THEN words ELSE <<>>

\* ... and answers when the callbacks have run.
ReadAnswered ==
  /\ answer = "commit" /\ ResetOver /\ calls["ble"] = <<>> /\ answer' = "no"
  /\ ReadBlock(Reply(ReadOut(at[2], Quantity)))
  /\ UNCHANGED simVars

\* The panel writes between two sweeps.
PanelWrites ==
  /\ sweep = "idle" /\ answer = "no" /\ \E w \in Writes : write(w[1], w[2])
  /\ UNCHANGED <<diagVars, answer>>

\* The window and the clock.
Window ==
  /\ \/ \E a \in DOMAIN SetValues : \E v \in SetValues[a] : v # r[a] /\ Set(a, v)
     \/ \E d \in Delays : SetDelay(d)
     \/ \E c \in ENERGY_COUNTERS : \E e \in EnergyValues : e # energy[c] /\ SetEnergy(c, e)
     \/ GuiStep \/ on_commit("ble") \/ TimePasses
  /\ UNCHANGED <<diagVars, answer>>

Next == \/ SwitchSweep \/ Reset \/ ResetGoesOn \/ Sweep \/ ReadFails \/ ReadCommits
        \/ ReadAnswered \/ PanelWrites \/ Window

Spec == Init /\ [][Next]_vars

\* The BLE task, the unit's threads, the loop's reset and time go on.
FairSpec ==
  /\ Spec /\ WF_vars(Sweep) /\ WF_vars(ReadCommits) /\ WF_vars(ReadAnswered)
  /\ WF_vars(ResetGoesOn)
  /\ WF_vars(on_commit("ble") /\ UNCHANGED <<diagVars, answer>>)
  /\ WF_vars(GuiStep /\ UNCHANGED <<diagVars, answer>>)
  /\ WF_vars(TimePasses /\ UNCHANGED <<diagVars, answer>>)

-----------------------------------------------------------------------------
(* Properties.                                                             *)

Changes == [addr : Addresses \cup {0}, old : Int, new : Int]

\* Every variable has its type.
TypeOK ==
  /\ r \in [Stored -> 0..(Word - 1)] /\ \A c \in ENERGY_COUNTERS : energy[c] \in Nat
  /\ delay \in Delays /\ gui \in {"idle", "tick", "drain", "refresh"}
  /\ \A i \in DOMAIN pending : pending[i].wait \in Nat /\ readable(pending[i].addr)
  /\ \A i \in DOMAIN events : events[i] \in {"commit", "log"}
  /\ sweep \in {"idle", "read", "diff", "head", "count", "store"}
  /\ loop \in {"idle", "snap", "head", "count"} /\ answer \in {"no", "commit"}
  /\ head \in 0..(NChanges - 1) /\ count \in 0..NChanges
  /\ changes \in [0..(NChanges - 1) -> Changes]
  /\ \A a \in Addresses : snap[a] \in {Junk} \cup 0..(Word - 1)

\* Writes to a register land in the order they were accepted, whichever thread
\* commits them: once none is pending, the register holds the last one, or what
\* the window set after it.  (A write accepted after the delay was shortened
\* overtakes those that wait.)
WritesLandInOrder ==
  ~cut => \A a \in Stored : ~Overtakes(a) => r[a] = want[a]

\* The window shows the registers it has controls for, unless a commit is still
\* on its way to it, though the other thread commits most writes.
WindowFollows ==
  shown = [a \in Controls |-> r[a]]
    \/ committed \/ (\E i \in DOMAIN events : events[i] = "commit")
    \/ \E t \in Threads : calls[t] # <<>>

Quiet == loop \in {"idle", "snap"} /\ sweep \in {"idle", "read", "diff"} /\ torn # "note"

\* The list is that of the changes since the last reset, newest first, as many
\* as the ring holds, unless that reset came in the middle of a note.
NewestFirst ==
  Quiet =>
    /\ count = IF Len(noted) < NChanges THEN Len(noted) ELSE NChanges
    /\ \A i \in 0..(count - 1) : bluetti_diag_at(i) = noted[Len(noted) - i]

\* The changes noted for a register lead from the first value read since the
\* last reset to the present baseline, each from where the one before it ended:
\* nothing is missed, noted twice or made up.  Excepted are registers that drift.
\* After a reset in the middle of a sweep, which then compares with the baseline
\* from before, or after a failed read, whose registers are compared with whatever
\* the memory held, the first change may lead to the first value instead.
ChangesLink ==
  Quiet =>
    \A a \in {b \in Addresses : ~diagIsNoisy(b) /\ first[b] # Unread} :
      LET mine == {i \in DOMAIN noted : noted[i].addr = a}
          next(i, j) == i < j /\ \A k \in mine : k <= i \/ j <= k
      IN  /\ mine = {} => snap[a] = first[a]
          /\ \A i \in mine :
               /\ noted[i].old # noted[i].new
               /\ (\A j \in mine : i <= j) =>
                    \/ noted[i].old = first[a]
                    \/ noted[i].new = first[a] /\ (torn = "sweep" \/ failed)
               /\ (\A j \in mine : j <= i) => noted[i].new = snap[a]
               /\ \A j \in mine : next(i, j) => noted[i].new = noted[j].old

\* A sweep that is left on catches up with the unit, whatever reads fail and
\* however long writes take to land, but for the block of a register that does
\* not fit in a reply.
Unfit(a) ==
  \E b \in Addresses : a - Block < b /\ b < a + Block /\ _value(b) >= Word
CatchesUp ==
  []<>(~g_diagOn \/ (pending = <<>> /\ \A a \in Addresses : snap[a] = _value(a) \/ Unfit(a)))
=============================================================================
