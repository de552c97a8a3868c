------------------------------- MODULE DiagSweep -------------------------------
(***************************************************************************)
(* The register sweep of the Diagnostics page (src/src/bluetti.cpp): the   *)
(* BLE task reads every readable register after a poll, compares it with a *)
(* baseline and notes changes in a ring; the main loop switches the sweep  *)
(* on and off, resets and lists it.                                        *)
(*                                                                         *)
(* Nothing guards what the two share.  The three stores of a reset and the *)
(* stores of a note are steps of their own; the count is loaded and stored *)
(* apart.  The baseline is kept by address rather than by slot.            *)
(***************************************************************************)
EXTENDS Integers, Sequences, FiniteSets, Folds

CONSTANTS
  DiagRanges,  \* DIAG_RANGES, a sequence of pairs <<first, end>>
  Block,       \* registers of one read (10)
  NChanges,    \* size of the ring (24)
  Junk         \* what uninitialised PSRAM holds

ASSUME DiagAssumption ==
  /\ Block \in Nat \ {0} /\ NChanges \in Nat \ {0} /\ Junk \in Int
  /\ DiagRanges \in Seq(Int \X Int) /\ DiagRanges # <<>>
  /\ \A k \in DOMAIN DiagRanges : DiagRanges[k][1] < DiagRanges[k][2]
  /\ \A j, k \in DOMAIN DiagRanges : j < k => DiagRanges[j][2] <= DiagRanges[k][1]

\* The ranges of the panel, and the count of registers that must be their sum.
DIAG_RANGES ==
  << <<0, 20>>, <<100, 200>>, <<700, 760>>, <<1100, 1180>>, <<1200, 1340>>,
     <<1400, 1470>>, <<1500, 1560>>, <<1600, 1610>>, <<2000, 2090>>, <<2200, 2280>>,
     <<2400, 2450>>, <<2500, 2540>>, <<3000, 3030>>, <<3500, 3550>>, <<3600, 3660>> >>
DIAG_NREGS == 940
ASSUME DiagSizeAssumption ==
  DIAG_NREGS = MapThenFoldSet(+, 0, LAMBDA k : DIAG_RANGES[k][2] - DIAG_RANGES[k][1],
                              LAMBDA S : CHOOSE k \in S : TRUE, DOMAIN DIAG_RANGES)

Addresses == UNION {DiagRanges[k][1]..(DiagRanges[k][2] - 1) : k \in DOMAIN DiagRanges}

\* Registers known to drift.
diagIsNoisy(a) ==
  a \in {100, 101, 102, 104, 105, 167, 188, 1301, 1400, 1420, 1500, 2003}
        \cup (140..149) \cup (1313..1315) \cup (1430..1432) \cup (1509..1512)

VARIABLES
  g_diagOn, haveSnap, snap, changes, head, count,
  sweep,    \* diagScan(): "idle", "read", "diff", "head", "count" or "store"
  at,       \* the block it reads, <<range, address>>
  baseline, \* its locals: no comparison in this sweep,
  buf,      \*   the values read,
  item,     \*   the one looked at,
  h,        \*   and the loaded head or count
  loop      \* bluetti_diag_reset() of the main loop: "idle", "snap", "head" or "count"

\* History variables: read by properties only.
VARIABLES
  noted,    \* changes noted since the last reset
  first,    \* the value a register had when it was first read since then
  torn,     \* it came "sweep": in the middle of a sweep, "note": or even of a note
  failed    \* a read failed since then

diagVars == <<g_diagOn, haveSnap, snap, changes, head, count, sweep, at, baseline, buf,
              item, h, loop, noted, first, torn, failed>>

NoChange == [addr |-> 0, old |-> 0, new |-> 0]
Unread == -1

DiagInit ==
  /\ g_diagOn = FALSE /\ haveSnap = FALSE /\ snap = [a \in Addresses |-> Junk]
  /\ changes = [i \in 0..(NChanges - 1) |-> NoChange] /\ head = 0 /\ count = 0
  /\ sweep = "idle" /\ at = <<1, DiagRanges[1][1]>> /\ baseline = FALSE /\ buf = <<>>
  /\ item = 1 /\ h = 0 /\ loop = "idle"
  /\ noted = <<>> /\ first = [a \in Addresses |-> Unread] /\ torn = "no" /\ failed = FALSE

-----------------------------------------------------------------------------
(* The main loop.                                                          *)

mainElse == <<snap, changes, sweep, at, baseline, buf, item, h>>
Noting == sweep \in {"head", "count", "store"}

\* The page switches the sweep on and resets it, or switches it off.
bluetti_diag_enable(on) ==
  /\ loop = "idle" /\ g_diagOn' = on /\ loop' = IF on THEN "snap" ELSE "idle"
  /\ UNCHANGED <<mainElse, haveSnap, head, count, noted, first, torn, failed>>

\* A tap on the page resets it.
TapResets ==
  /\ loop = "idle" /\ loop' = "snap"
  /\ UNCHANGED <<mainElse, g_diagOn, haveSnap, head, count, noted, first, torn, failed>>

\* bluetti_diag_reset(), store by store.
ResetSnap ==
  /\ loop = "snap" /\ loop' = "head" /\ haveSnap' = FALSE
  /\ noted' = <<>> /\ first' = [a \in Addresses |-> Unread] /\ failed' = FALSE
  /\ torn' = IF Noting THEN "note" ELSE IF sweep # "idle" THEN "sweep" ELSE "no"
  /\ UNCHANGED <<mainElse, g_diagOn, head, count>>

ResetHead ==
  /\ loop = "head" /\ loop' = "count" /\ head' = 0
  /\ UNCHANGED <<mainElse, g_diagOn, haveSnap, count, noted, first, torn, failed>>

ResetCount ==
  /\ loop = "count" /\ loop' = "idle" /\ count' = 0
  /\ UNCHANGED <<mainElse, g_diagOn, haveSnap, head, noted, first, torn, failed>>

\* The faulty form: one past the last write.
bluetti_diag_at_ahead(i) == changes[(head - i) % NChanges]

\* Newest first.  TLA+'s % is never negative, as the code's after its correction.
bluetti_diag_at(i) ==
  IF i < 0 \/ i >= count THEN NoChange ELSE changes[(head - 1 - i) % NChanges]

-----------------------------------------------------------------------------
(* The BLE task's sweep.                                                   *)

taskElse == <<g_diagOn, loop>>

StartSweep ==
  /\ sweep = "idle" /\ g_diagOn /\ sweep' = "read" /\ baseline' = ~haveSnap
  /\ at' = <<1, DiagRanges[1][1]>>
  /\ UNCHANGED <<taskElse, haveSnap, snap, changes, head, count, buf, item, h, noted,
                 first, torn, failed>>

Quantity == LET left == DiagRanges[at[1]][2] - at[2] IN IF left < Block THEN left ELSE Block

\* The faulty form: a range's last block is left out when it is not a full one.
NextBlockFull ==
  IF at[2] + 2 * Block <= DiagRanges[at[1]][2] THEN <<at[1], at[2] + Block>>
  ELSE IF at[1] < Len(DiagRanges) THEN <<at[1] + 1, DiagRanges[at[1] + 1][1]>> ELSE <<>>

\* The block after this one, <<>> after the last.
NextBlock ==
  IF at[2] + Block < DiagRanges[at[1]][2] THEN <<at[1], at[2] + Block>>
  ELSE IF at[1] < Len(DiagRanges) THEN <<at[1] + 1, DiagRanges[at[1] + 1][1]>> ELSE <<>>

\* The sweep goes on to the next block, or ends.
Onward ==
  /\ buf' = <<>> /\ item' = 1
  /\ IF NextBlock # <<>>
     THEN at' = NextBlock /\ sweep' = "read" /\ UNCHANGED haveSnap
     ELSE at' = <<1, DiagRanges[1][1]>> /\ sweep' = "idle" /\ haveSnap' = TRUE

\* readRegs() returns `words', or fails and the block is left as it was.
ReadBlock(words) ==
  /\ sweep = "read"
  /\ IF words = <<>> THEN Onward
     ELSE buf' = words /\ item' = 1 /\ sweep' = "diff" /\ UNCHANGED <<at, haveSnap>>
  /\ failed' = (failed \/ words = <<>>)
  /\ UNCHANGED <<taskElse, snap, changes, head, count, baseline, h, noted, first, torn>>

Addr == at[2] + item - 1
Change == [addr |-> Addr, old |-> snap[Addr], new |-> buf[item]]
Differs == ~baseline /\ snap[Addr] # buf[item] /\ ~diagIsNoisy(Addr)

\* The faulty form: a change that is noted does not become the baseline.
StoredSnapUnlessNoted(v) == IF Differs THEN snap ELSE [snap EXCEPT ![Addr] = v]
StoredSnap(v) == [snap EXCEPT ![Addr] = v]

\* The value becomes the baseline, and the next item or block is looked at.
Keep ==
  /\ snap' = StoredSnap(buf[item])
  /\ first' = IF first[Addr] = Unread THEN [first EXCEPT ![Addr] = buf[item]] ELSE first
  /\ IF item < Len(buf) THEN item' = item + 1 /\ sweep' = "diff" /\ UNCHANGED <<at, buf, haveSnap>>
                        ELSE Onward

Same ==
  /\ sweep = "diff" /\ ~Differs /\ Keep
  /\ UNCHANGED <<taskElse, changes, head, count, baseline, h, noted, torn, failed>>

\* diagNote(): the entry, ...
NoteEntry ==
  /\ sweep = "diff" /\ Differs /\ sweep' = "head" /\ h' = head
  /\ changes' = [changes EXCEPT ![head] = Change] /\ noted' = Append(noted, Change)
  /\ torn' = IF loop \in {"head", "count"} THEN "note" ELSE torn
  /\ UNCHANGED <<taskElse, haveSnap, snap, head, count, at, baseline, buf, item, first,
                 failed>>

\* The faulty form: the ring does not wrap.
NextSlotPast(i) == i + 1
NextSlot(i) == (i + 1) % NChanges

\* ... the head, from the value loaded before or loaded again, ...
NoteHead ==
  /\ sweep = "head" /\ sweep' = "count"
  /\ \E from \in {h, head} : head' = NextSlot(from)
  /\ UNCHANGED <<taskElse, haveSnap, snap, changes, count, at, baseline, buf, item, h,
                 noted, first, torn, failed>>

\* ... and the count, loaded and stored.
NoteCount ==
  /\ sweep = "count" /\ sweep' = "store" /\ h' = count
  /\ UNCHANGED <<taskElse, haveSnap, snap, changes, head, count, at, baseline, buf, item,
                 noted, first, torn, failed>>

NoteStored ==
  /\ sweep = "store" /\ count' = (IF h < NChanges THEN h + 1 ELSE count) /\ Keep
  /\ UNCHANGED <<taskElse, changes, head, baseline, h, noted, torn, failed>>

DiagStep == Same \/ NoteEntry \/ NoteHead \/ NoteCount \/ NoteStored
=============================================================================
