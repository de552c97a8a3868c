------------------------------ MODULE PowerLog -------------------------------
(***************************************************************************)
(* The power history: powerlog_tick() of the main loop puts a sample of    *)
(* the published telemetry in a ring in RAM and a row in a file of the SD  *)
(* card, which is kept open; the ring is refilled from the file at boot.   *)
(* Power can fail and the card be pulled at any moment.                    *)
(*                                                                         *)
(* A sample is a model value, whatever its fields.  A line of the file is  *)
(* the list of the fragments between two newlines, since a row that power  *)
(* cuts short has no newline and the next row continues it.                *)
(***************************************************************************)
EXTENDS Integers, Sequences

CONSTANTS
  Samples,   \* captured values
  Zero,      \* the zeroed sample
  Garbled,   \* what replaySdFile() makes of a damaged row
  RingN,     \* RING_N
  PlotW,     \* columns of the plot
  Windows,   \* samples of the windows the chart offers
  MaxRows, MaxCrashes, MaxTorn, MaxPulls   \* bounds

ASSUME SamplesAssumption == Zero \notin Samples /\ Garbled \notin Samples
ASSUME SizesAssumption == RingN \in Nat \ {0}
ASSUME PlotAssumption ==
  PlotW \in Nat \ {0, 1} /\ Windows \in Seq(Nat \ {0, 1}) /\ Windows # <<>>
ASSUME BoundsAssumption == {MaxRows, MaxCrashes, MaxTorn, MaxPulls} \subseteq Nat

VARIABLES
  up,        \* powered and booted
  ring,      \* ring, head and count
  unseen,    \* powerlog_total() differs from the total the chart last saw
  chart,     \* the chart is on screen
  win,       \* settings.chartWindow, which the flash keeps
  painted,   \* the columns of the plot it last drew, <<>> before there are two samples
  power,     \* the published telemetry
  valid,     \* power_valid()
  fresh,     \* power.fetchedMs # lastFetched
  due,       \* SAMPLE_INTERVAL_MS has passed since the last sample
  mounted,   \* sd_begin() has succeeded since boot
  logf,      \* g_logf: "none", "open", or "dead" when the card went away
  card,      \* a card is in the slot
  file,      \* lines of /logs/power.csv; <<>> when it does not exist
  budget,
  steady,    \* history: the card has always been in, and no row was cut short
  before     \* history: the ring's contents when power failed

appVars  == <<ring, unseen, chart, win, painted>>
pollVars == <<power, valid, fresh, due>>
cardVars == <<mounted, logf, card, file>>
histVars == <<steady, before>>
vars == <<up, appVars, pollVars, cardVars, histVars, budget>>

Spend(b) == budget[b] > 0 /\ budget' = [budget EXCEPT ![b] = @ - 1]

-----------------------------------------------------------------------------
(* The ring.                                                               *)

EmptyRing == [cells |-> [i \in 0 .. RingN - 1 |-> Zero], head |-> 0, count |-> 0]

\* pushRing()
PushedUncapped(r, s) ==
  [cells |-> [r.cells EXCEPT ![r.head] = s],
   head  |-> (r.head + 1) % RingN,
   count |-> r.count + 1]
PushedPastEnd(r, s) ==
  [cells |-> [r.cells EXCEPT ![r.head] = s],
   head  |-> (r.head + 1) % RingN,
   count |-> (r.count + 1) % (RingN + 1)]
Pushed(r, s) ==
  [cells |-> [r.cells EXCEPT ![r.head] = s],
   head  |-> (r.head + 1) % RingN,
   count |-> IF r.count < RingN THEN r.count + 1 ELSE r.count]

\* The remainder of C, which has the sign of a.
Rem(a, b) == IF a >= 0 THEN a % b ELSE -((-a) % b)

\* powerlog_at()
At(r, i) ==
  LET idx == Rem(r.head - r.count + i, RingN)
  IN  IF i \notin 0 .. r.count - 1 THEN Zero
      ELSE r.cells[IF idx < 0 THEN idx + RingN ELSE idx]

\* What the chart reads: powerlog_at(0), ..., powerlog_at(powerlog_count() - 1).
Held(r) == [i \in 1 .. r.count |-> At(r, i - 1)]

\* drawChartScreen(): the sample, counted from the first of n that are visible,
\* which column px shows.
ColumnPastEnd(px, n) == (px * n) \div (PlotW - 1)
Column(px, n) == (px * (n - 1)) \div (PlotW - 1)

Plotted(r, w) ==
  LET n == IF r.count < Windows[w] THEN r.count ELSE Windows[w]
  IN  IF r.count < 2 THEN <<>>
      ELSE [c \in 1 .. PlotW |-> At(r, r.count - n + Column(c - 1, n))]

-----------------------------------------------------------------------------
(* The file.                                                               *)

Header == [kind |-> "header"]
Row(s) == [kind |-> "row", sample |-> s]
Cut    == [kind |-> "cut"]

Ended(parts)   == [parts |-> parts, ended |-> TRUE]
Unended(parts) == [parts |-> parts, ended |-> FALSE]

\* Text appended to the file, with or without its newline.
Extended(f, part, newline) ==
  LET n == Len(f)
      open == n > 0 /\ ~f[n].ended
      parts == IF open THEN Append(f[n].parts, part) ELSE <<part>>
      line == IF newline THEN Ended(parts) ELSE Unended(parts)
  IN  Append(IF open THEN SubSeq(f, 1, n - 1) ELSE f, line)

\* replaySdFile() takes a line that begins with a digit for a row.
Intact(line) == line.parts = <<line.parts[1]>> /\ line.parts[1].kind = "row"
Scanned(line) == IF Intact(line) THEN line.parts[1].sample ELSE Garbled
Replayed(r, line) ==
  IF line.parts[1].kind = "header" THEN r ELSE Pushed(r, Scanned(line))

RingFrom(f) ==
  LET after[n \in 0 .. Len(f)] ==
        IF n = 0 THEN EmptyRing ELSE Replayed(after[n - 1], f[n])
  IN  after[Len(f)]

\* The file once it is open for a row: a new file gets its header.
OpenedAfresh == <<Ended(<<Header>>)>>
Opened == IF file = <<>> THEN <<Ended(<<Header>>)>> ELSE file

Init ==
  /\ up = TRUE /\ ring = EmptyRing /\ unseen = TRUE /\ chart = FALSE /\ painted = <<>>
  /\ win = 1
  /\ power = Zero /\ valid = FALSE /\ fresh = FALSE /\ due = TRUE
  /\ card \in BOOLEAN /\ mounted = card /\ logf = "none" /\ file = <<>>
  /\ steady = card /\ before = <<>>
  /\ budget = [rows |-> MaxRows, crashes |-> MaxCrashes, torn |-> MaxTorn,
               pulls |-> MaxPulls]

-----------------------------------------------------------------------------
(* The main loop.                                                          *)

Samplable == up /\ valid /\ fresh /\ due

\* logToSd(): the rows the file gets, and what becomes of g_logf.
Logs(part, newline) ==
  /\ mounted' = (mounted \/ card)
  /\ \/ /\ mounted' /\ card /\ logf \in {"none", "open"} /\ logf' = "open"
        /\ file' = Extended(IF logf = "none" THEN Opened ELSE file, part, newline)
     \/ /\ ~(mounted' /\ card /\ logf \in {"none", "open"})
        /\ UNCHANGED <<logf, file>>
  /\ UNCHANGED card

TickSamples ==
  /\ Samplable /\ Spend("rows")
  /\ fresh' = FALSE /\ due' = FALSE
  /\ ring' = Pushed(ring, power) /\ unseen' = TRUE
  /\ Logs(Row(power), TRUE)
  /\ UNCHANGED <<up, chart, win, painted, power, valid, histVars>>

\* ui_tick() on the chart; a pending write or the keyboard comes first.
CountChanged == unseen /\ ring.count < RingN
TotalChanged == unseen
UiRepaintsChart ==
  /\ up /\ chart /\ TotalChanged
  /\ unseen' = FALSE /\ painted' = Plotted(ring, win)
  /\ UNCHANGED <<up, ring, chart, win, pollVars, cardVars, histVars, budget>>

UiOpensChart ==
  /\ up /\ ~chart /\ chart' = TRUE /\ painted' = Plotted(ring, win)
  /\ UNCHANGED <<up, ring, unseen, win, pollVars, cardVars, histVars, budget>>

\* A tap on a window button, which draws at once.
UiPicksWindow(w) ==
  /\ up /\ chart /\ w # win /\ win' = w /\ painted' = Plotted(ring, w)
  /\ UNCHANGED <<up, ring, unseen, chart, pollVars, cardVars, histVars, budget>>

UiLeavesChart ==
  /\ up /\ chart /\ chart' = FALSE /\ painted' = <<>>
  /\ UNCHANGED <<up, ring, unseen, win, pollVars, cardVars, histVars, budget>>

-----------------------------------------------------------------------------
(* Telemetry and time.                                                     *)

PollPublishes ==
  /\ up /\ power' \in Samples /\ valid' = TRUE /\ fresh' = TRUE
  /\ UNCHANGED <<up, appVars, due, cardVars, histVars, budget>>

TelemetryGoesStale ==
  /\ up /\ valid /\ valid' = FALSE
  /\ UNCHANGED <<up, appVars, power, fresh, due, cardVars, histVars, budget>>

IntervalPasses ==
  /\ up /\ ~due /\ due' = TRUE
  /\ UNCHANGED <<up, appVars, power, valid, fresh, cardVars, histVars, budget>>

-----------------------------------------------------------------------------
(* Power and the card.                                                     *)

Loses ==
  /\ up' = FALSE /\ ring' = EmptyRing /\ unseen' = TRUE /\ chart' = FALSE /\ painted' = <<>>
  /\ UNCHANGED win /\ power' = Zero /\ valid' = FALSE /\ fresh' = FALSE /\ due' = TRUE

PowerFails ==
  /\ up /\ Spend("crashes") /\ Loses /\ before' = Held(ring)
  /\ mounted' = FALSE /\ logf' = "none"
  /\ UNCHANGED <<card, file, steady>>

\* ... while a row is on its way to the card.
PowerFailsInRow ==
  /\ Samplable /\ card /\ logf # "dead" /\ Spend("torn") /\ Loses
  /\ steady' = FALSE /\ before' = Held(ring)
  /\ file' = Extended(IF logf = "none" THEN Opened ELSE file, Cut, FALSE)
  /\ mounted' = FALSE /\ logf' = "none" /\ UNCHANGED card

\* powerlog_init()
Boots ==
  /\ ~up /\ up' = TRUE /\ mounted' = card
  /\ ring' = IF card THEN RingFrom(file) ELSE EmptyRing
  /\ UNCHANGED <<unseen, chart, win, painted, pollVars, logf, card, file, histVars, budget>>

CardPulled ==
  /\ card /\ card' = FALSE /\ Spend("pulls") /\ steady' = FALSE
  /\ logf' = IF logf = "open" THEN "dead" ELSE logf
  /\ UNCHANGED <<up, appVars, pollVars, mounted, file, before>>

CardInserted ==
  /\ ~card /\ card' = TRUE
  /\ UNCHANGED <<up, appVars, pollVars, mounted, logf, file, histVars, budget>>

-----------------------------------------------------------------------------
Loop == \/ TickSamples \/ UiRepaintsChart \/ UiOpensChart \/ UiLeavesChart
        \/ \E w \in DOMAIN Windows : UiPicksWindow(w)
Env  == \/ PollPublishes \/ TelemetryGoesStale \/ IntervalPasses
        \/ PowerFails \/ PowerFailsInRow \/ Boots \/ CardPulled \/ CardInserted
Next == Loop \/ Env
Spec == Init /\ [][Next]_vars

-----------------------------------------------------------------------------
\* What the lines after the header say.
Logged == [i \in 1 .. Len(file) - 1 |-> Scanned(file[i + 1])]

History == INSTANCE SampleHistory WITH hist <- Held(ring), log <- Logged

TypeOK ==
  /\ ring.head \in 0 .. RingN - 1 /\ ring.count \in 0 .. RingN
  /\ ring.cells \in [0 .. RingN - 1 -> Samples \cup {Zero, Garbled}]
  /\ win \in DOMAIN Windows /\ logf \in {"none", "open", "dead"} /\ (logf = "open" => card /\ mounted)

\* The chart holds the latest samples in order, whatever the ring's position,
\* and after a restart the latest rows of the file: powerlog_at(), pushRing()
\* and replaySdFile() together implement SampleHistory.
RingIsHistory == History!Spec

\* "so the chart survives reboots" (powerlog.cpp:41): with the card left in its
\* slot, a power cut between two rows loses no sample the ring held.
SurvivesReboot == [][~up /\ up' /\ steady => Held(ring') = before]_vars

\* powerlog_total() is "what to watch for a new sample landed": a chart on
\* screen that the watch finds nothing new for shows the ring as it is.
ChartFollows == chart /\ ~TotalChanged => painted = Plotted(ring, win)

\* The plot spans its window: it ends with the newest sample, begins with the
\* oldest that is in the window, and shows those between in order, every one of
\* them as long as there are columns enough, wherever the ring has wrapped.
ChartSpansWindow ==
  chart /\ ~TotalChanged /\ ring.count >= 2 =>
    LET n == IF ring.count < Windows[win] THEN ring.count ELSE Windows[win]
        recent == SubSeq(Held(ring), ring.count - n + 1, ring.count)
    IN  \E shown \in [1 .. PlotW -> 1 .. n] :
          /\ \A c \in 1 .. PlotW : painted[c] = recent[shown[c]]
          /\ shown[1] = 1 /\ shown[PlotW] = n
          /\ \A c \in 2 .. PlotW : shown[c - 1] <= shown[c]
          /\ n <= PlotW => \A i \in 1 .. n : \E c \in 1 .. PlotW : shown[c] = i

\* "Rolling history of Bluetti power flows" (powerlog.h:4): every sample of the
\* ring was captured from a poll.
SamplesWereCaptured == \A i \in 1 .. ring.count : Held(ring)[i] # Garbled
=============================================================================
