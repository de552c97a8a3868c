----------------------------- MODULE PanelLayout -----------------------------
(***************************************************************************)
(* Where the controls of the touch panel are (src/src/ui.cpp, keyboard.cpp *)
(* and include/logic): the touch report of the AXS15231 is parsed and      *)
(* rotated into screen coordinates, and a handler tries the rectangles of  *)
(* the page one after the other.                                           *)
(*                                                                         *)
(* A control is named by what a tap on it does and a number, <<"row", 2>>. *)
(***************************************************************************)
EXTENDS Integers, Sequences

\* The panel is mounted in landscape.
PanelNativeW == 320
PanelNativeH == 480
ScreenW == PanelNativeH
ScreenH == PanelNativeW

Rect(x, y, w, h) == [x |-> x, y |-> y, w |-> w, h |-> h]

inRect(p, r) == /\ p[1] >= r.x /\ p[1] < r.x + r.w
                /\ p[2] >= r.y /\ p[2] < r.y + r.h

WholeScreen == Rect(0, 0, ScreenW, ScreenH)

-----------------------------------------------------------------------------
(* The touch report.                                                       *)

logic_clampi(v, lo, hi) == IF v < lo THEN lo ELSE IF v > hi THEN hi ELSE v

\* A report counts when its first byte is 0 and it holds one or two points;
\* the coordinates are 12 bits each.
parseAxsTouch(buf) ==
  IF Len(buf) < 6 \/ buf[1] # 0 \/ buf[2] \notin 1..2 THEN <<>>
  ELSE <<(buf[3] % 16) * 256 + buf[4], (buf[5] % 16) * 256 + buf[6]>>

\* Rotation 1: the controller's y runs along the screen's x.
mapTouch(raw) ==
  << logic_clampi(raw[2], 0, ScreenW - 1),
     logic_clampi((PanelNativeW - 1) - raw[1], 0, ScreenH - 1) >>

\* The report for a finger at p, a point of the screen as it is mounted: what
\* the controller sends, with the touch event in the high bits of the x byte.
Report(p, event, count) ==
  LET rx == (PanelNativeW - 1) - p[2]
      ry == p[1]
  IN  << 0, count, event * 64 + rx \div 256, rx % 256, ry \div 256, ry % 256 >>

-----------------------------------------------------------------------------
(* The rectangles of the pages.                                            *)

gearRect == Rect(ScreenW \div 2 - 6 - 50, 270, 50, 42)
powerChargeBtnRect == Rect(ScreenW \div 2 + 6, 270, 50, 42)

\* 0 DC IN (top left), 1 AC IN (top right), 2 DC OUT, 3 AC OUT.
powerCardRect(idx) ==
  Rect(IF idx \in {0, 2} THEN 10 ELSE ScreenW - 10 - 140,
       IF idx < 2 THEN 10 ELSE ScreenH - 10 - 80, 140, 80)

powerModalRect == Rect((ScreenW - 280) \div 2, (ScreenH - 132) \div 2, 280, 132)

powerConfirmRect(which) ==
  LET m == powerModalRect
      mid == m.x + m.w \div 2
  IN  Rect(IF which = "cancel" THEN mid - 8 - 112 ELSE mid + 8,
           m.y + m.h - 42 - 16, 112, 42)

backBtnRect == Rect(8, 8, 46, 28)

\* The utility row of the settings page: 0 history, 1 release, 2 lifetime
\* energy, 3 ECO & limits.
btUtilityRect(k) ==
  Rect(IF k = 0 THEN ScreenW \div 2 - 6 - 50 ELSE ScreenW \div 2 + 6 + (k - 1) * 62,
       8, 50, 42)

srowRect(i) == Rect(12, 56 + i * 40, ScreenW - 24, 36)

btStepperRect(i, which) ==
  LET row == srowRect(i)
      plusX == row.x + row.w - 12 - 30
  IN  Rect(IF which = "plus" THEN plusX ELSE plusX - 30 - 70, row.y + 3, 30, 30)

diagStepRect(y, which) == Rect(IF which = "minus" THEN 150 ELSE 150 + 30 + 78, y, 30, 30)
diagPollStepRect(which) == diagStepRect(30, which)
diagGapStepRect(which) == diagStepRect(66, which)
diagSweepBtnRect == Rect(ScreenW - 92 - 10, 28, 92, 26)

chartLegendRect(i) == Rect(4 + i * 78, 260, 74, 52)
chartWindowRect(i) == Rect(330 + i * 50, 8, 44, 24)

-----------------------------------------------------------------------------
(* The controls of a page, in the order its handler tries them.            *)

Control(name, n, rect) == [ctl |-> <<name, n>>, at |-> rect]
None == <<"none", 0>>

\* The place among the controls cs of the first whose rectangle holds p.
FirstUnder(cs, p) ==
  CHOOSE i \in DOMAIN cs : /\ inRect(p, cs[i].at)
                           /\ \A j \in 1 .. (i - 1) : ~inRect(p, cs[j].at)

\* What a tap at p does: the first control whose rectangle holds it.
Hit(controls, p) ==
  LET ctl == [cs \in {controls} |-> IF \E i \in DOMAIN cs : inRect(p, cs[i].at)
                                    THEN cs[FirstUnder(cs, p)].ctl ELSE None]
  IN  ctl[controls]

BackControl == <<Control("back", 0, backBtnRect)>>

\* The faulty form: the gear answers on the offline screen too.
PowerTestedUngated(valid, released, confirming) ==
  <<Control("gear", 0, gearRect)>> \o
  IF released THEN <<Control("resume", 0, WholeScreen)>>
  ELSE IF confirming THEN <<Control("confirm", 0, powerConfirmRect("confirm")),
                            Control("cancel", 0, powerConfirmRect("cancel"))>>
  ELSE IF valid THEN <<Control("charge", 0, powerChargeBtnRect),
                       Control("card", 2, powerCardRect(2)),
                       Control("card", 3, powerCardRect(3))>>
  ELSE <<>>

\* The power page as it is handled: the gear while the data is valid, then the
\* whole screen ends a release window, then an open confirmation, then the rest.
PowerTested(valid, released, confirming) ==
  (IF valid THEN <<Control("gear", 0, gearRect)>> ELSE <<>>) \o
  (IF released THEN <<Control("resume", 0, WholeScreen)>>
   ELSE IF confirming THEN <<Control("confirm", 0, powerConfirmRect("confirm")),
                             Control("cancel", 0, powerConfirmRect("cancel"))>>
   ELSE IF valid THEN <<Control("charge", 0, powerChargeBtnRect),
                        Control("card", 2, powerCardRect(2)),
                        Control("card", 3, powerCardRect(3))>>
   ELSE <<>>)

\* The power page as it is drawn.  An open confirmation covers the buttons of
\* the bottom row's middle only; the cards stay visible under it.
PowerDrawn(valid, released, confirming) ==
  IF released THEN <<Control("resume", 0, WholeScreen)>>
  ELSE IF ~valid THEN <<>>
  ELSE <<Control("gear", 0, gearRect), Control("card", 2, powerCardRect(2)),
         Control("card", 3, powerCardRect(3))>> \o
       IF confirming THEN <<Control("confirm", 0, powerConfirmRect("confirm")),
                            Control("cancel", 0, powerConfirmRect("cancel"))>>
                     ELSE <<Control("charge", 0, powerChargeBtnRect)>>

ChartControls ==
  BackControl \o [i \in 1..6 |-> Control("legend", i - 1, chartLegendRect(i - 1))]
              \o [i \in 1..3 |-> Control("window", i - 1, chartWindowRect(i - 1))]

BtSettingsControls(valid) ==
  BackControl \o
  << Control("chart", 0, btUtilityRect(0)), Control("release", 0, btUtilityRect(1)),
     Control("energy", 0, btUtilityRect(2)), Control("eco", 0, btUtilityRect(3)) >> \o
  IF ~valid THEN <<>> ELSE
  << Control("row", 0, srowRect(0)), Control("row", 1, srowRect(1)),
     Control("row", 2, srowRect(2)),
     Control("limit", -1, btStepperRect(3, "minus")),
     Control("limit", 1, btStepperRect(3, "plus")),
     Control("timeout", 0, srowRect(4)), Control("pairing", 0, srowRect(5)) >>

\* The faulty form: the catch-all is tested first.
DiagnosticsControlsCatchAll == <<Control("reset", 0, WholeScreen)>> \o BackControl
DiagnosticsControls ==
  BackControl \o
  << Control("poll", -1, diagPollStepRect("minus")), Control("poll", 1, diagPollStepRect("plus")),
     Control("gap", -1, diagGapStepRect("minus")), Control("gap", 1, diagGapStepRect("plus")),
     Control("sweep", 0, diagSweepBtnRect), Control("reset", 0, WholeScreen) >>

\* The pages below the power page are drawn as they are handled.
SubpageControls(page, valid) ==
  CASE page = "POWER_CHART" -> ChartControls
    [] page = "BT_SETTINGS" -> BtSettingsControls(valid)
    [] page = "DIAGNOSTICS" -> DiagnosticsControls
    [] OTHER -> BackControl
=============================================================================
