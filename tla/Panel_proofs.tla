----------------------------- MODULE Panel_proofs -----------------------------
(* The panel is well typed, one press is one tap, the register sweep stays  *)
(* on its page, the flash follows the settings, the saved address is that   *)
(* of the linked unit, and an output is switched as the confirmation on the *)
(* glass asks, for every kind of user, every budget and every reading.      *)
EXTENDS Panel, SetInduction, SequenceTheorems, FiniteSetTheorems, TLAPS

PageNames == {"POWER", "POWER_CHART", "BT_SETTINGS", "DIAGNOSTICS", "ENERGY", "ECO_LIMITS"}

-----------------------------------------------------------------------------
(* The inductive invariant.                                                *)

\* The part of the types that the handlers of a page change.
Paged ==
  /\ settings \in Fields /\ unsaved \in Seq(FieldNames) /\ current \in PageNames
  /\ confirm \in [out : {"none", "AC", "DC"}, on : BOOLEAN]
  /\ gear \in {"none", "pressed", "due"} /\ kb \in KbType /\ Len(kb.buf) <= MaxLen
  /\ pending \in {"no", "waiting", "done"}
  /\ pollMs \in PollTimes /\ gapMs \in Gaps /\ diagOn \in BOOLEAN
  /\ away \in {"no", "counting", "last"}
  /\ power \in [ok : BOOLEAN, fresh : BOOLEAN, rd : ReadingNames]
  /\ sent \in Writes

\* The rest: the user, the loop and the BLE task.
Fingers == Spots[user] \cup Slides[user] \cup {<<>>, BackSpot, CancelSpot}
Latches == [pressed : BOOLEAN, count : 0 .. 2, first : {latch.first}, last : {latch.last}]
Looped ==
  /\ user \in Users /\ left \in [Budgets -> Nat] /\ missed \in 0 .. 2 /\ finger \in Fingers
  /\ pc \in {"touch", "learn", "tick"} /\ latch \in Latches /\ nvs \in Fields
  /\ task \in {"idle", "direct", "scan", "found"} /\ fails \in 0 .. FALLBACK_FAILS
  /\ conn \in {"OFFLINE", "CONNECTING", "ONLINE"} /\ samples \in Nat /\ calls \in 0 .. 2
  /\ learned \in Addresses /\ target \in Addresses

\* Where the sweep, a press of the gear and the keyboard can be met.
Fitting ==
  /\ diagOn => current = "DIAGNOSTICS"
  /\ gear # "none" => current = "POWER"
  /\ kb.active => current \in {"POWER", "BT_SETTINGS"} /\ gear = "none"

GearHeld == gear # "none" => latch.pressed

\* The tap of a press has been handed on only while the finger is down, and
\* then the latch has missed it no more often than the controller did.
PressCounted ==
  calls # 0 => calls = 1 /\ finger # <<>> /\ latch.pressed /\ latch.count <= missed

\* One field at most differs from the flash, and its put is still to come.
Saving ==
  /\ pollMs = settings.pollMs /\ gapMs = settings.gapMs
  /\ \E f \in FieldNames :
       /\ \A g \in FieldNames \ {f} : nvs[g] = settings[g]
       /\ nvs[f] = settings[f] \/ \E i \in 1 .. Len(unsaved) : unsaved[i] = f

\* What is learned is the address of the attempt or the link that found it; an
\* address that is not to be learned is the saved one, unless one was typed.
Attempt ==
  /\ task # "idle" => link = NoUnit
  /\ task \in {"direct", "scan"} => learned = NoUnit
  /\ learned # NoUnit => /\ task = "found" => learned = target
                         /\ link # NoUnit => learned = link
  /\ task = "direct" /\ ~typed => settings.mac = target
  /\ task = "found" /\ learned = NoUnit /\ ~typed => settings.mac = target
  /\ link # NoUnit /\ learned = NoUnit /\ ~typed => settings.mac = link

\* The power page on the glass shows the confirmation that is open.
ModalShown == painted.surface = "POWER" => painted.modal = confirm

IInv == /\ Paged /\ Looped /\ Fitting /\ GearHeld /\ PressCounted /\ Saving /\ Attempt
        /\ ModalShown

-----------------------------------------------------------------------------
(* The layout.                                                             *)

\* What a tap does is what some control under it does.
LEMMA HitFrom ==
  ASSUME NEW C, NEW cs \in Seq([ctl : C, at : [x : Int, y : Int, w : Int, h : Int]]), NEW p
  PROVE  \/ Hit(cs, p) = None
         \/ \E i \in DOMAIN cs : Hit(cs, p) = cs[i].ctl /\ inRect(p, cs[i].at)
<1> DEFINE under(i) == inRect(p, cs[i].at)
           S == {i \in DOMAIN cs : under(i)}
<1>1. CASE S = {}
  <2>1. Hit(cs, p) = None
    BY <1>1 DEF Hit
  <2> QED
    BY <2>1
<1>2. CASE S # {}
  <2>1. S \subseteq Nat
    OBVIOUS
  <2>2. PICK i \in S : \A j \in S : i <= j
    <3> HIDE DEF S
    <3> QED
      BY <1>2, <2>1, LeastMember
  <2>3. \A j \in 1 .. (i - 1) : ~inRect(p, cs[j].at)
    <3>1. DOMAIN cs = 1 .. Len(cs) /\ Len(cs) \in Nat /\ i \in DOMAIN cs
      BY LenProperties
    <3>2. \A j \in 1 .. (i - 1) : j \in DOMAIN cs /\ ~(i <= j)
      <4>1. \A n \in Nat : \A k \in 1 .. n : \A j \in 1 .. (k - 1) : j \in 1 .. n /\ ~(k <= j)
        OBVIOUS
      <4> QED
        BY <3>1, <4>1
    <3> QED
      BY <2>2, <3>2
  <2>4. FirstUnder(cs, p) \in S
    BY <2>3 DEF FirstUnder
  <2>5. Hit(cs, p) = cs[FirstUnder(cs, p)].ctl
    BY <1>2 DEF Hit
  <2> QED
    BY <2>4, <2>5
<1> QED
  BY <1>1, <1>2

Rects == [x : Int, y : Int, w : Int, h : Int]
Controls(C) == Seq([ctl : C, at : Rects])

LEMMA RectTyped ==
  /\ WholeScreen \in Rects /\ backBtnRect \in Rects /\ gearRect \in Rects
  /\ powerChargeBtnRect \in Rects /\ diagSweepBtnRect \in Rects
  /\ \A k \in Int : /\ powerCardRect(k) \in Rects /\ btUtilityRect(k) \in Rects
                    /\ srowRect(k) \in Rects /\ chartLegendRect(k) \in Rects
                    /\ chartWindowRect(k) \in Rects
  /\ \A which : /\ powerConfirmRect(which) \in Rects /\ btStepperRect(3, which) \in Rects
                /\ diagPollStepRect(which) \in Rects /\ diagGapStepRect(which) \in Rects
<1>1. \A x, y, w, h \in Int : Rect(x, y, w, h) \in Rects
  BY DEF Rect, Rects
<1>2. ScreenW = 480 /\ ScreenH = 320 /\ 480 \div 2 = 240
  BY DEF ScreenW, ScreenH, PanelNativeW, PanelNativeH
<1>3. /\ WholeScreen \in Rects /\ backBtnRect \in Rects /\ gearRect \in Rects
      /\ powerChargeBtnRect \in Rects /\ diagSweepBtnRect \in Rects
  BY <1>1, <1>2 DEF WholeScreen, backBtnRect, gearRect, powerChargeBtnRect, diagSweepBtnRect
<1>4. ASSUME NEW k \in Int
      PROVE  /\ powerCardRect(k) \in Rects /\ btUtilityRect(k) \in Rects
             /\ srowRect(k) \in Rects /\ chartLegendRect(k) \in Rects
             /\ chartWindowRect(k) \in Rects
  BY <1>1, <1>2 DEF powerCardRect, btUtilityRect, srowRect, chartLegendRect, chartWindowRect
<1>5. ASSUME NEW which
      PROVE  /\ powerConfirmRect(which) \in Rects /\ btStepperRect(3, which) \in Rects
             /\ diagPollStepRect(which) \in Rects /\ diagGapStepRect(which) \in Rects
  <2>1. powerConfirmRect(which) \in Rects
    BY <1>1, <1>2 DEF powerConfirmRect, powerModalRect, Rect
  <2>2. btStepperRect(3, which) \in Rects
    BY <1>1, <1>2 DEF btStepperRect, srowRect, Rect
  <2>3. diagPollStepRect(which) \in Rects /\ diagGapStepRect(which) \in Rects
    BY <1>1 DEF diagPollStepRect, diagGapStepRect, diagStepRect
  <2> QED
    BY <2>1, <2>2, <2>3
<1> QED
  BY <1>3, <1>4, <1>5

\* A control with one of the names C, and a row of controls after another.
LEMMA ControlsTyped ==
  ASSUME NEW C
  PROVE  /\ <<>> \in Controls(C)
         /\ \A s, t \in Controls(C) : s \o t \in Controls(C)
         /\ \A name, n : \A r \in Rects :
              <<name, n>> \in C => Control(name, n, r) \in [ctl : C, at : Rects]
<1>1. \A s, t \in Controls(C) : s \o t \in Controls(C)
  BY ConcatProperties DEF Controls
<1>2. <<>> \in Controls(C)
  BY EmptySeq DEF Controls
<1> QED
  BY <1>1, <1>2 DEF Control

\* What the controls of each page do.
Answers(page) ==
  CASE page = "POWER" ->
         {<<"gear", 0>>, <<"resume", 0>>, <<"confirm", 0>>, <<"cancel", 0>>,
          <<"charge", 0>>, <<"card", 2>>, <<"card", 3>>}
    [] page = "POWER_CHART" -> {<<"back", 0>>} \cup ({"legend"} \X (0 .. 5))
                                 \cup ({"window"} \X (0 .. 2))
    [] page = "BT_SETTINGS" ->
         {<<"back", 0>>, <<"chart", 0>>, <<"release", 0>>, <<"energy", 0>>, <<"eco", 0>>,
          <<"row", 0>>, <<"row", 1>>, <<"row", 2>>, <<"limit", -1>>, <<"limit", 1>>,
          <<"timeout", 0>>, <<"pairing", 0>>}
    [] page = "DIAGNOSTICS" ->
         {<<"back", 0>>, <<"poll", -1>>, <<"poll", 1>>, <<"gap", -1>>, <<"gap", 1>>,
          <<"sweep", 0>>, <<"reset", 0>>}
    [] OTHER -> {<<"back", 0>>}

\* The confirm button is there only while a confirmation is open.
Offered == Answers(current) \ (IF current = "POWER" /\ confirm = NoConfirm
                               THEN {<<"confirm", 0>>, <<"cancel", 0>>} ELSE {})

LEMMA TestedTyped == current \in PageNames => Tested \in Controls(Offered)
<1> SUFFICES ASSUME current \in PageNames PROVE Tested \in Controls(Offered)
  OBVIOUS
<1> DEFINE E == [ctl : Offered, at : Rects]
<1>1. \A name, n : \A r \in Rects : <<name, n>> \in Offered => Control(name, n, r) \in E
  BY ControlsTyped
<1>2. \A s, t \in Controls(Offered) : s \o t \in Controls(Offered)
  BY ControlsTyped
<1>3. <<>> \in Controls(Offered)
  BY ControlsTyped
<1>4. \A s \in Seq(E) : s \in Controls(Offered)
  BY DEF Controls
<1> HIDE DEF E
<1>a. \A c, d, e \in E : <<c>> \in Seq(E) /\ <<c, d>> \in Seq(E) /\ <<c, d, e>> \in Seq(E)
  OBVIOUS
<1>5. current # "POWER" => BackControl \in Controls(Offered)
  <2> SUFFICES ASSUME current # "POWER" PROVE BackControl \in Controls(Offered)
    OBVIOUS
  <2>1. <<"back", 0>> \in Offered
    BY DEF Offered, Answers, PageNames
  <2>2. Control("back", 0, backBtnRect) \in E
    BY <1>1, <2>1, RectTyped
  <2> QED
    BY <1>4, <1>a, <2>2 DEF BackControl
<1>6. CASE current = "POWER"
  <2>1. {<<"gear", 0>>, <<"resume", 0>>, <<"charge", 0>>, <<"card", 2>>, <<"card", 3>>}
          \subseteq Offered
    BY <1>6 DEF Offered, Answers
  <2>2. confirm # NoConfirm => {<<"confirm", 0>>, <<"cancel", 0>>} \subseteq Offered
    BY <1>6 DEF Offered, Answers
  <2>3. /\ Control("gear", 0, gearRect) \in E /\ Control("resume", 0, WholeScreen) \in E
        /\ Control("charge", 0, powerChargeBtnRect) \in E
        /\ Control("card", 2, powerCardRect(2)) \in E
        /\ Control("card", 3, powerCardRect(3)) \in E
    BY <1>1, <2>1, RectTyped
  <2>4. confirm # NoConfirm =>
          /\ Control("confirm", 0, powerConfirmRect("confirm")) \in E
          /\ Control("cancel", 0, powerConfirmRect("cancel")) \in E
    BY <1>1, <2>2, RectTyped
  <2>5. (IF valid THEN <<Control("gear", 0, gearRect)>> ELSE <<>>) \in Controls(Offered)
    BY <1>3, <1>4, <1>a, <2>3
  <2>6. (IF released THEN <<Control("resume", 0, WholeScreen)>>
         ELSE IF confirm # NoConfirm
              THEN <<Control("confirm", 0, powerConfirmRect("confirm")),
                     Control("cancel", 0, powerConfirmRect("cancel"))>>
         ELSE IF valid THEN <<Control("charge", 0, powerChargeBtnRect),
                              Control("card", 2, powerCardRect(2)),
                              Control("card", 3, powerCardRect(3))>>
         ELSE <<>>) \in Controls(Offered)
    BY <1>3, <1>4, <1>a, <2>3, <2>4
  <2>7. PowerTested(valid, released, confirm # NoConfirm) \in Controls(Offered)
    BY <1>2, <2>5, <2>6 DEF PowerTested
  <2> QED
    BY <1>6, <2>7 DEF Tested
<1>7. CASE current = "POWER_CHART"
  <2>1. \A k \in 0 .. 5 : <<"legend", k>> \in Offered
    BY <1>7 DEF Offered, Answers
  <2>2. \A k \in 0 .. 2 : <<"window", k>> \in Offered
    BY <1>7 DEF Offered, Answers
  <2>3. [i \in 1 .. 6 |-> Control("legend", i - 1, chartLegendRect(i - 1))] \in Seq(E)
    <3>1. \A i \in 1 .. 6 : i - 1 \in 0 .. 5 /\ i - 1 \in Int
      OBVIOUS
    <3>2. \A i \in 1 .. 6 : Control("legend", i - 1, chartLegendRect(i - 1)) \in E
      BY <1>1, <2>1, <3>1, RectTyped
    <3> QED
      BY <3>2
  <2>4. [i \in 1 .. 3 |-> Control("window", i - 1, chartWindowRect(i - 1))] \in Seq(E)
    <3>1. \A i \in 1 .. 3 : i - 1 \in 0 .. 2 /\ i - 1 \in Int
      OBVIOUS
    <3>2. \A i \in 1 .. 3 : Control("window", i - 1, chartWindowRect(i - 1)) \in E
      BY <1>1, <2>2, <3>1, RectTyped
    <3> QED
      BY <3>2
  <2>5. ChartControls \in Controls(Offered)
    BY <1>2, <1>4, <1>5, <1>7, <2>3, <2>4 DEF ChartControls
  <2> QED
    BY <1>7, <2>5 DEF Tested, SubpageControls
<1>8. CASE current = "BT_SETTINGS"
  <2>1. {<<"chart", 0>>, <<"release", 0>>, <<"energy", 0>>, <<"eco", 0>>, <<"row", 0>>,
         <<"row", 1>>, <<"row", 2>>, <<"limit", -1>>, <<"limit", 1>>, <<"timeout", 0>>,
         <<"pairing", 0>>} \subseteq Offered
    BY <1>8 DEF Offered, Answers
  <2>2. << Control("chart", 0, btUtilityRect(0)), Control("release", 0, btUtilityRect(1)),
           Control("energy", 0, btUtilityRect(2)), Control("eco", 0, btUtilityRect(3)) >>
          \in Seq(E)
    <3>1. /\ Control("chart", 0, btUtilityRect(0)) \in E
          /\ Control("release", 0, btUtilityRect(1)) \in E
          /\ Control("energy", 0, btUtilityRect(2)) \in E
          /\ Control("eco", 0, btUtilityRect(3)) \in E
      BY <1>1, <2>1, RectTyped
    <3> QED
      BY <3>1
  <2>3. << Control("row", 0, srowRect(0)), Control("row", 1, srowRect(1)),
           Control("row", 2, srowRect(2)),
           Control("limit", -1, btStepperRect(3, "minus")),
           Control("limit", 1, btStepperRect(3, "plus")),
           Control("timeout", 0, srowRect(4)), Control("pairing", 0, srowRect(5)) >>
          \in Seq(E)
    <3>1. /\ Control("row", 0, srowRect(0)) \in E /\ Control("row", 1, srowRect(1)) \in E
          /\ Control("row", 2, srowRect(2)) \in E
      BY <1>1, <2>1, RectTyped
    <3>2. /\ Control("limit", -1, btStepperRect(3, "minus")) \in E
          /\ Control("limit", 1, btStepperRect(3, "plus")) \in E
      BY <1>1, <2>1, RectTyped
    <3>3. Control("timeout", 0, srowRect(4)) \in E /\ Control("pairing", 0, srowRect(5)) \in E
      BY <1>1, <2>1, RectTyped
    <3> QED
      BY <3>1, <3>2, <3>3
  <2>4. BtSettingsControls(valid) \in Controls(Offered)
    BY <1>2, <1>3, <1>4, <1>5, <1>8, <2>2, <2>3 DEF BtSettingsControls
  <2> QED
    BY <1>8, <2>4 DEF Tested, SubpageControls
<1>9. CASE current = "DIAGNOSTICS"
  <2>1. {<<"poll", -1>>, <<"poll", 1>>, <<"gap", -1>>, <<"gap", 1>>, <<"sweep", 0>>,
         <<"reset", 0>>} \subseteq Offered
    BY <1>9 DEF Offered, Answers
  <2>2. /\ Control("poll", -1, diagPollStepRect("minus")) \in E
        /\ Control("poll", 1, diagPollStepRect("plus")) \in E
        /\ Control("gap", -1, diagGapStepRect("minus")) \in E
        /\ Control("gap", 1, diagGapStepRect("plus")) \in E
        /\ Control("sweep", 0, diagSweepBtnRect) \in E
        /\ Control("reset", 0, WholeScreen) \in E
    BY <1>1, <2>1, RectTyped
  <2>3. << Control("poll", -1, diagPollStepRect("minus")),
           Control("poll", 1, diagPollStepRect("plus")),
           Control("gap", -1, diagGapStepRect("minus")),
           Control("gap", 1, diagGapStepRect("plus")),
           Control("sweep", 0, diagSweepBtnRect), Control("reset", 0, WholeScreen) >>
          \in Seq(E)
    BY <2>2
  <2>4. DiagnosticsControls \in Controls(Offered)
    BY <1>2, <1>4, <1>5, <1>9, <2>3 DEF DiagnosticsControls
  <2> QED
    BY <1>9, <2>4 DEF Tested, SubpageControls
<1>10. CASE current \in {"ENERGY", "ECO_LIMITS"}
  BY <1>5, <1>10 DEF Tested, SubpageControls
<1> QED
  BY <1>6, <1>7, <1>8, <1>9, <1>10 DEF PageNames

\* A tap answers as one of the controls of its page, or not at all.
LEMMA TapAnswers ==
  ASSUME current \in PageNames, NEW p
  PROVE  Hit(Tested, p) \in Offered \cup {None}
<1>1. Tested \in Seq([ctl : Offered, at : Rects])
  BY TestedTyped DEF Controls
<1> DEFINE T == Tested
<1>2. Hit(T, p) = None \/ \E i \in DOMAIN T : Hit(T, p) = T[i].ctl
  <2>1. T \in Seq([ctl : Offered, at : [x : Int, y : Int, w : Int, h : Int]])
    BY <1>1 DEF Rects
  <2> HIDE DEF T
  <2> QED
    BY <2>1, HitFrom
<1>3. \A i \in DOMAIN T : T[i].ctl \in Offered
  <2>1. T \in Seq([ctl : Offered, at : Rects])
    BY <1>1
  <2> HIDE DEF T
  <2>2. DOMAIN T = 1 .. Len(T)
    BY <2>1, LenProperties
  <2>3. \A i \in DOMAIN T : T[i] \in [ctl : Offered, at : Rects]
    BY <2>1, <2>2, ElementOfSeq
  <2> QED
    BY <2>3
<1> QED
  BY <1>2, <1>3

-----------------------------------------------------------------------------
(* The keyboard.                                                           *)

Specials == {"Cancel", "Layout", "Backspace", "OK", "Gap"}

\* A key is one of the special keys or types a character.
LEMMA KeyTyped == ASSUME NEW layout \in Layouts, NEW p PROVE KeyAt(layout, p) \in Chars \cup Specials
<1> DEFINE under == {c \in Cells(layout) :
                       inRect(p, keyCell(Len(Rows(layout)[c[1]]), c[2] - 1, c[1] - 1))}
           char == CharAt(layout, CHOOSE c \in under : TRUE)
<1>1. \A c \in Cells(layout) : CharAt(layout, c) \in Chars
  <2> DEFINE All == UNION {{CharAt(l, c) : c \in Cells(l)} : l \in Layouts}
  <2>1. \A c \in Cells(layout) : CharAt(layout, c) \in All
    OBVIOUS
  <2>2. All \subseteq Chars
    BY Zenon DEF Chars
  <2> HIDE DEF All
  <2> QED
    BY <2>1, <2>2
<1>2. under # {} => char \in Chars
  <2>1. under \subseteq Cells(layout)
    OBVIOUS
  <2> HIDE DEF under
  <2> QED
    BY <1>1, <2>1
<1>3. " " \in Chars
  BY Zenon DEF Chars
<1>4. KeyAt(layout, p) =
        IF inRect(p, kbCancelRect) THEN "Cancel"
        ELSE IF under # {} THEN char
        ELSE IF inRect(p, functionCell(0)) THEN "Layout"
        ELSE IF inRect(p, functionCell(1)) THEN " "
        ELSE IF inRect(p, functionCell(3)) THEN "Backspace"
        ELSE IF inRect(p, functionCell(4)) THEN "OK"
        ELSE "Gap"
  BY Zenon DEF KeyAt
<1> HIDE DEF under, char
<1> QED
  BY <1>2, <1>3, <1>4 DEF Specials

LEMMA KeyboardOpens ==
  ASSUME NEW initial \in Seq(Chars)
  PROVE  /\ keyboard_open(initial) \in KbType /\ keyboard_open(initial).active
         /\ Len(keyboard_open(initial).buf) <= MaxLen
<1> DEFINE n == IF Len(initial) < MaxLen THEN Len(initial) ELSE MaxLen
           buf == SubSeq(initial, 1, n)
<1>1. n \in 0 .. Len(initial) /\ n <= MaxLen
  BY MaxLenAssumption, LenProperties
<1>2. buf \in Seq(Chars) /\ Len(buf) = n
  <2> HIDE DEF n
  <2> QED
    BY <1>1, SubSeqProperties
<1>3. keyboard_open(initial) = [active |-> TRUE, layout |-> "LOWER", buf |-> buf]
  BY DEF keyboard_open
<1> HIDE DEF n, buf
<1> QED
  BY <1>1, <1>2, <1>3 DEF KbType, Layouts

\* A sequence without its last element.
LEMMA ButLast ==
  ASSUME NEW S, NEW s \in Seq(S), s # <<>>
  PROVE  /\ SubSeq(s, 1, Len(s) - 1) \in Seq(S)
         /\ Len(SubSeq(s, 1, Len(s) - 1)) = Len(s) - 1
<1> DEFINE n == Len(s)
<1>1. n \in Nat /\ n # 0
  BY EmptySeq, LenProperties
<1>2. n - 1 \in 0 .. n
  <2> HIDE DEF n
  <2> QED
    BY <1>1
<1> HIDE DEF n
<1>3. n - 1 + 1 - 1 = n - 1 /\ n - 1 \in 0 .. Len(s)
  BY <1>1, <1>2 DEF n
<1>4. SubSeq(s, 1, n - 1) \in Seq(S) /\ Len(SubSeq(s, 1, n - 1)) = n - 1
  BY <1>1, <1>2, <1>3 DEF n
<1> QED
  BY <1>4 DEF n

\* A key leaves the buffer within the field's length.
LEMMA KeyboardTouched ==
  ASSUME NEW k \in KbType, Len(k.buf) <= MaxLen, NEW p
  PROVE  LET after == keyboard_handle_touch(k, p)
         IN  after \in KbType /\ Len(after.buf) <= MaxLen
<1> DEFINE key == KeyAt(k.layout, p)
<1> USE DEF KbType
<1>1. k.buf \in Seq(Chars) /\ k.layout \in Layouts /\ key \in Chars \cup Specials
  BY KeyTyped
<1>2. k = [active |-> k.active, layout |-> k.layout, buf |-> k.buf]
  OBVIOUS
<1>3. [k EXCEPT !.active = FALSE] \in KbType /\ [k EXCEPT !.active = FALSE].buf = k.buf
  OBVIOUS
<1>4. /\ [k EXCEPT !.layout = NextLayout[@]] \in KbType
      /\ [k EXCEPT !.layout = NextLayout[@]].buf = k.buf
  <2>1. NextLayout[k.layout] \in Layouts
    BY <1>1 DEF NextLayout, Layouts
  <2> QED
    BY <2>1
<1>5. Backspace(k) \in KbType /\ Len(Backspace(k).buf) <= MaxLen
  <2>1. CASE k.buf = <<>>
    BY <2>1 DEF Backspace
  <2>2. CASE k.buf # <<>>
    <3> DEFINE shorter == SubSeq(k.buf, 1, Len(k.buf) - 1)
    <3>2. shorter \in Seq(Chars) /\ Len(shorter) = Len(k.buf) - 1
      BY <1>1, <2>2, ButLast
    <3>3. Backspace(k) = [k EXCEPT !.buf = shorter]
      BY <2>2 DEF Backspace
    <3>4. Len(shorter) <= MaxLen
      BY <1>1, <3>2, MaxLenAssumption, LenProperties
    <3> HIDE DEF shorter
    <3> QED
      BY <3>2, <3>3, <3>4
  <2> QED
    BY <2>1, <2>2
<1>6. ASSUME key \in Chars
      PROVE  TypeKey(k, key) \in KbType /\ Len(TypeKey(k, key).buf) <= MaxLen
  <2>1. CASE Len(k.buf) < MaxLen
    <3> DEFINE longer == Append(k.buf, key)
    <3>1. longer \in Seq(Chars) /\ Len(longer) = Len(k.buf) + 1
      BY <1>1, <1>6, AppendProperties
    <3>2. TypeKey(k, key) = [k EXCEPT !.buf = longer]
      BY <2>1 DEF TypeKey
    <3>3. Len(longer) <= MaxLen
      BY <1>1, <2>1, <3>1, MaxLenAssumption, LenProperties
    <3> HIDE DEF longer
    <3> QED
      BY <3>1, <3>2, <3>3
  <2>2. CASE ~(Len(k.buf) < MaxLen)
    BY <2>2 DEF TypeKey
  <2> QED
    BY <2>1, <2>2
<1> HIDE DEF KbType
<1> QED
  BY <1>1, <1>3, <1>4, <1>5, <1>6 DEF keyboard_handle_touch, Specials

-----------------------------------------------------------------------------
(* The handlers of a touch, a move and a release.                          *)

\* The saved address changes only as one is typed.
MacKept == typed' \/ (typed' = typed /\ settings'.mac = settings.mac)

\* Before a handler runs, and what it leaves.
Ready ==
  /\ Paged /\ Fitting /\ Saving /\ ModalShown
  /\ unsaved = <<>> /\ nvs \in Fields /\ nvs' = nvs
Kept == Paged' /\ Fitting' /\ Saving' /\ ModalShown' /\ MacKept

LEMMA DrawsModal == current' \in PageNames /\ Draw => ModalShown'
BY DEF Draw, Shows, ModalShown, View, PageNames, KeyboardView, PowerView, ChartView,
       DiagnosticsView, BtSettingsView, EnergyView, EcoView, DataView, NoConfirm

\* One field of the settings changes.
LEMMA FieldTyped ==
  ASSUME NEW s \in Fields
  PROVE  /\ \A v \in Addresses : [s EXCEPT !.mac = v] \in Fields
         /\ \A v \in Masks : [s EXCEPT !.mask = v] \in Fields
         /\ \A v \in Windows : [s EXCEPT !.window = v] \in Fields
         /\ \A v \in PollTimes : [s EXCEPT !.pollMs = v] \in Fields
         /\ \A v \in Gaps : [s EXCEPT !.gapMs = v] \in Fields
BY DEF Fields

LEMMA FieldKept ==
  ASSUME NEW s \in Fields, NEW v
  PROVE  /\ \A g \in FieldNames \ {"mac"} : [s EXCEPT !.mac = v][g] = s[g]
         /\ \A g \in FieldNames \ {"mask"} : [s EXCEPT !.mask = v][g] = s[g]
         /\ \A g \in FieldNames \ {"window"} : [s EXCEPT !.window = v][g] = s[g]
         /\ \A g \in FieldNames \ {"pollMs"} : [s EXCEPT !.pollMs = v][g] = s[g]
         /\ \A g \in FieldNames \ {"gapMs"} : [s EXCEPT !.gapMs = v][g] = s[g]
BY DEF Fields, FieldNames

\* With nothing left to put the flash holds the settings.
LEMMA AllSaved ==
  ASSUME Saving, unsaved = <<>>
  PROVE  \A g \in FieldNames : nvs[g] = settings[g]
<1>1. PICK f \in FieldNames :
        /\ \A g \in FieldNames \ {f} : nvs[g] = settings[g]
        /\ nvs[f] = settings[f] \/ \E i \in 1 .. Len(unsaved) : unsaved[i] = f
  BY DEF Saving
<1>2. ~\E i \in 1 .. Len(unsaved) : unsaved[i] = f
  OBVIOUS
<1> QED
  BY <1>1, <1>2

\* A change of one field is saved.
LEMMA SavesField ==
  ASSUME Saving, unsaved = <<>>, nvs' = nvs, settings_save,
         NEW f \in FieldNames, \A g \in FieldNames \ {f} : settings'[g] = settings[g],
         pollMs' = settings'.pollMs, gapMs' = settings'.gapMs
  PROVE  Saving' /\ unsaved' \in Seq(FieldNames)
<1>1. \A g \in FieldNames \ {f} : nvs'[g] = settings'[g]
  BY AllSaved
<1>2. unsaved' = <<"mac", "mask", "window", "pollMs", "gapMs">>
  BY DEF settings_save
<1>3. Len(unsaved') = 5 /\ \E i \in 1 .. 5 : unsaved'[i] = f
  BY <1>2 DEF FieldNames
<1>4. unsaved' \in Seq(FieldNames)
  BY <1>2 DEF FieldNames
<1> QED
  BY <1>1, <1>3, <1>4 DEF Saving

\* Nothing that is saved changes.
LEMMA StaysSaved ==
  ASSUME Saving, UNCHANGED <<settings, unsaved, pollMs, gapMs>>, nvs' = nvs
  PROVE  Saving'
BY DEF Saving

LEMMA ReadingTyped == Paged => Reading \in PowerState
BY ReadingsAssumption DEF Paged, Reading

LEMMA WritesTyped ==
  ASSUME NEW reg \in {2011, 2012, 2014, 2017, 2020, 2021, 2067, 2083}, NEW val \in Nat,
         writes(reg, val)
  PROVE  sent' \in Writes /\ pending' = "waiting"
BY DEF writes, Writes

LEMMA KeyTappedKeeps ==
  ASSUME Ready, kb.active, NEW p, KeyTapped(p)
  PROVE  Kept
<1> DEFINE after == keyboard_handle_touch(kb, p)
<1>1. after \in KbType /\ Len(after.buf) <= MaxLen
  BY KeyboardTouched DEF Ready, Paged
<1>2. Closed \in KbType /\ Len(Closed.buf) <= MaxLen /\ ~Closed.active
  BY EmptySeq, MaxLenAssumption DEF Closed, KbType, Layouts
<1>3. kb' \in KbType /\ Len(kb'.buf) <= MaxLen
  BY <1>1, <1>2 DEF KeyTapped
<1>4. ModalShown'
  <2>1. current' \in PageNames
    BY DEF KeyTapped, Ready, Paged, PageNames
  <2> QED
    BY <2>1, DrawsModal DEF KeyTapped, Ready, ModalShown
<1>5. CASE KeyAt(kb.layout, p) = "OK"
  <2>1. settings' = [settings EXCEPT !.mac = kb.buf] /\ settings_save
    BY <1>5 DEF KeyTapped
  <2>2. settings \in Fields /\ kb.buf \in Seq(Chars)
    BY DEF Ready, Paged, KbType
  <2>3. settings' \in Fields
    BY <2>1, <2>2, FieldTyped DEF Addresses
  <2>4. \A g \in FieldNames \ {"mac"} : settings'[g] = settings[g]
    <3>1. \A g \in FieldNames \ {"mac"} : [settings EXCEPT !.mac = kb.buf][g] = settings[g]
      BY <2>2, FieldKept
    <3> QED
      BY <2>1, <3>1
  <2>5. Saving' /\ unsaved' \in Seq(FieldNames)
    <3>1. "mac" \in FieldNames /\ UNCHANGED <<pollMs, gapMs>>
      BY DEF KeyTapped, setVars, FieldNames
    <3>2. settings'.pollMs = settings.pollMs /\ settings'.gapMs = settings.gapMs
      BY <2>4 DEF FieldNames
    <3> QED
      BY <2>1, <2>4, <3>1, <3>2, SavesField DEF Ready, Saving
  <2>6. power' \in [ok : BOOLEAN, fresh : BOOLEAN, rd : ReadingNames]
    <3>1. power \in [ok : BOOLEAN, fresh : BOOLEAN, rd : ReadingNames]
      BY DEF Ready, Paged
    <3>2. power' = [power EXCEPT !.ok = FALSE]
      BY <1>5 DEF KeyTapped
    <3> QED
      BY <3>1, <3>2
  <2>7. Paged'
    BY <1>3, <1>5, <2>3, <2>5, <2>6 DEF KeyTapped, Ready, Paged, PageNames, setVars
  <2>8. Fitting' /\ typed'
    BY <1>5 DEF KeyTapped, Ready, Fitting, setVars
  <2> QED
    BY <1>4, <2>5, <2>7, <2>8 DEF Kept, MacKept
<1>6. CASE KeyAt(kb.layout, p) # "OK"
  <2>1. UNCHANGED <<settings, unsaved, power, current, typed, confirm, gear, pending,
                    setVars, sent>>
    BY <1>6 DEF KeyTapped
  <2>2. Paged' /\ MacKept
    BY <1>3, <2>1 DEF Ready, Paged, MacKept, setVars
  <2>3. Fitting'
    BY <2>1 DEF Ready, Fitting, setVars
  <2>4. Saving'
    BY <2>1, StaysSaved DEF Ready, setVars
  <2> QED
    BY <1>4, <2>2, <2>3, <2>4 DEF Kept
<1> QED
  BY <1>5, <1>6

\* Which page a tap was on and which control it was.
LEMMA AnswersAt ==
  ASSUME current \in PageNames, NEW c \in Offered \cup {None}
  PROVE  /\ c[1] = "gear" => current = "POWER"
         /\ c[1] = "confirm" => current = "POWER" /\ confirm # NoConfirm
         /\ c[1] = "card" => c[2] \in {2, 3}
         /\ c[1] \in {"chart", "energy", "eco", "row", "limit", "timeout", "pairing"} =>
              current = "BT_SETTINGS"
         /\ c[1] = "row" => c[2] \in 0 .. 2
         /\ c[1] \in {"limit", "poll", "gap"} => c[2] \in {-1, 1}
         /\ c[1] = "legend" => c[2] \in 0 .. 5
         /\ c[1] = "window" => c[2] \in 0 .. 2
         /\ c[1] = "sweep" => current = "DIAGNOSTICS"
<1> USE DEF None
<1>1. CASE c = None
  BY <1>1
<1>2. CASE c \in Offered /\ current = "POWER"
  <2>1. c \in {<<"gear", 0>>, <<"resume", 0>>, <<"confirm", 0>>, <<"cancel", 0>>,
               <<"charge", 0>>, <<"card", 2>>, <<"card", 3>>}
    BY <1>2 DEF Offered, Answers
  <2>2. c = <<"confirm", 0>> => confirm # NoConfirm
    BY <1>2 DEF Offered
  <2> QED
    BY <1>2, <2>1, <2>2
<1>3. CASE c \in Offered /\ current = "POWER_CHART"
  <2>1. c \in {<<"back", 0>>} \cup ({"legend"} \X (0 .. 5)) \cup ({"window"} \X (0 .. 2))
    BY <1>3 DEF Offered, Answers
  <2> QED
    BY <2>1
<1>4. CASE c \in Offered /\ current = "BT_SETTINGS"
  <2>1. c \in {<<"back", 0>>, <<"chart", 0>>, <<"release", 0>>, <<"energy", 0>>, <<"eco", 0>>,
               <<"row", 0>>, <<"row", 1>>, <<"row", 2>>, <<"limit", -1>>, <<"limit", 1>>,
               <<"timeout", 0>>, <<"pairing", 0>>}
    BY <1>4 DEF Offered, Answers
  <2> QED
    BY <1>4, <2>1
<1>5. CASE c \in Offered /\ current = "DIAGNOSTICS"
  <2>1. c \in {<<"back", 0>>, <<"poll", -1>>, <<"poll", 1>>, <<"gap", -1>>, <<"gap", 1>>,
               <<"sweep", 0>>, <<"reset", 0>>}
    BY <1>5 DEF Offered, Answers
  <2> QED
    BY <1>5, <2>1
<1>6. CASE c \in Offered /\ current \in {"ENERGY", "ECO_LIMITS"}
  <2>1. c = <<"back", 0>>
    BY <1>6 DEF Offered, Answers
  <2> QED
    BY <2>1
<1> QED
  BY <1>1, <1>2, <1>3, <1>4, <1>5, <1>6 DEF PageNames

\* A handler that saves nothing.
LEMMA SteadyKeeps ==
  ASSUME Ready, UNCHANGED <<settings, unsaved, pollMs, gapMs, typed>>, Paged', Fitting',
         Draw \/ UNCHANGED <<painted, confirm>>
  PROVE  Kept
<1>1. Saving'
  BY StaysSaved DEF Ready
<1>2. ModalShown'
  BY DrawsModal DEF Ready, ModalShown, Paged
<1> QED
  BY <1>1, <1>2 DEF Kept, MacKept

\* A handler that changes one field, not the address, and saves.
LEMMA SavedKeeps ==
  ASSUME Ready, settings_save, Draw,
         UNCHANGED <<current, confirm, gear, kb, pending, diagOn, away, power, sent, typed>>,
         NEW f \in FieldNames \ {"mac"}, settings' \in Fields,
         \A g \in FieldNames \ {f} : settings'[g] = settings[g],
         pollMs' = settings'.pollMs, gapMs' = settings'.gapMs
  PROVE  Kept
<1>1. Saving' /\ unsaved' \in Seq(FieldNames)
  BY SavesField DEF Ready
<1>2. pollMs' \in PollTimes /\ gapMs' \in Gaps
  BY DEF Fields
<1>3. Paged'
  BY <1>1, <1>2 DEF Ready, Paged
<1>4. Fitting'
  BY DEF Ready, Fitting
<1>5. ModalShown'
  BY <1>3, DrawsModal DEF Paged
<1>6. settings'.mac = settings.mac
  BY DEF FieldNames
<1> QED
  BY <1>1, <1>3, <1>4, <1>5, <1>6 DEF Kept, MacKept

\* A handler that only writes a register, or only goes to another page, opens
\* or closes a confirmation, or starts or ends the release window.
LEMMA WritingKeeps ==
  ASSUME Ready, UNCHANGED <<onlyUi, current, confirm>>, Draw,
         NEW reg \in {2014, 2017, 2020, 2021, 2067, 2083}, NEW val \in Nat, writes(reg, val)
  PROVE  Kept
<1>1. sent' \in Writes /\ pending' = "waiting"
  BY WritesTyped
<1>2. UNCHANGED <<gear, kb, power, typed, settings, unsaved, pollMs, gapMs, diagOn, away,
                  current, confirm>>
  BY DEF onlyUi, pageElse, setVars
<1>3. Paged'
  BY <1>1, <1>2 DEF Ready, Paged
<1>4. Fitting'
  BY <1>2 DEF Ready, Fitting
<1> QED
  BY <1>2, <1>3, <1>4, SteadyKeeps

LEMMA NoConfirmTyped == NoConfirm \in [out : {"none", "AC", "DC"}, on : BOOLEAN]
BY DEF NoConfirm

LEMMA PowerPageKeeps ==
  ASSUME Ready, ~kb.active, gear = "none"
  PROVE  /\ current = "POWER" /\ GearPressed => Kept
         /\ ResumeTapped => Kept
         /\ ConfirmTapped => Kept
         /\ CancelTapped => Kept
         /\ ChargeTapped => Kept
         /\ \A card \in {2, 3} : CardTapped(card) => Kept
<1> USE DEF pageElse, onlyUi, setVars
<1>1. ASSUME current = "POWER", GearPressed PROVE Kept
  <2>1. Paged' /\ Fitting'
    BY <1>1 DEF GearPressed, Ready, Paged, Fitting
  <2> QED
    BY <1>1, <2>1, SteadyKeeps DEF GearPressed
<1>2. ASSUME ResumeTapped PROVE Kept
  <2>1. Paged' /\ Fitting'
    BY <1>2 DEF ResumeTapped, Ready, Paged, Fitting
  <2> QED
    BY <1>2, <2>1, SteadyKeeps DEF ResumeTapped
<1>3. ASSUME ConfirmTapped PROVE Kept
  <2>1. sent' \in Writes /\ pending' = "waiting"
    <3>1. CtrlReg(confirm.out) \in {2011, 2012} /\ bit(confirm.on, 1) \in Nat
      BY DEF CtrlReg, bit
    <3> QED
      BY <1>3, <3>1, WritesTyped DEF ConfirmTapped
  <2>2. confirm' \in [out : {"none", "AC", "DC"}, on : BOOLEAN]
    BY <1>3, NoConfirmTyped DEF ConfirmTapped
  <2>3. Paged' /\ Fitting'
    BY <1>3, <2>1, <2>2 DEF ConfirmTapped, Ready, Paged, Fitting
  <2> QED
    BY <1>3, <2>3, SteadyKeeps DEF ConfirmTapped
<1>4. ASSUME CancelTapped PROVE Kept
  <2>1. confirm' \in [out : {"none", "AC", "DC"}, on : BOOLEAN]
    BY <1>4, NoConfirmTyped DEF CancelTapped
  <2>2. Paged' /\ Fitting'
    BY <1>4, <2>1 DEF CancelTapped, Ready, Paged, Fitting
  <2> QED
    BY <1>4, <2>2, SteadyKeeps DEF CancelTapped
<1>5. ASSUME ChargeTapped PROVE Kept
  <2>1. NextMode(Reading.chargeMode) \in Nat
    BY DEF NextMode
  <2> HIDE DEF onlyUi
  <2> QED
    BY <1>5, <2>1, WritingKeeps DEF ChargeTapped
<1>6. ASSUME NEW card \in {2, 3}, CardTapped(card) PROVE Kept
  <2>1. Reading.dcOn \in BOOLEAN /\ Reading.acOn \in BOOLEAN
    BY ReadingTyped DEF Ready, PowerState
  <2>2. confirm' \in [out : {"none", "AC", "DC"}, on : BOOLEAN]
    BY <1>6, <2>1 DEF CardTapped
  <2>3. Paged' /\ Fitting'
    BY <1>6, <2>2 DEF CardTapped, Ready, Paged, Fitting
  <2> QED
    BY <1>6, <2>3, SteadyKeeps DEF CardTapped
<1> QED
  BY <1>1, <1>2, <1>3, <1>4, <1>5, <1>6

LEMMA SettingsPageKeeps ==
  ASSUME Ready, ~kb.active, gear = "none"
  PROVE  /\ BackTapped => Kept
         /\ \A page \in PageNames : current = "BT_SETTINGS" /\ GoTo(page) => Kept
         /\ ReleaseTapped => Kept
         /\ \A i \in 0 .. 2 : RowTapped(i) => Kept
         /\ \A dir \in {-1, 1} : LimitTapped(dir) => Kept
         /\ TimeoutTapped => Kept
         /\ current = "BT_SETTINGS" /\ PairingTapped => Kept
<1> USE DEF pageElse, onlyUi, setVars
<1>1. ASSUME BackTapped PROVE Kept
  <2>1. Paged' /\ Fitting'
    BY <1>1 DEF BackTapped, Ready, Paged, Fitting, PageNames
  <2> QED
    BY <1>1, <2>1, SteadyKeeps DEF BackTapped
<1>2. ASSUME NEW page \in PageNames, current = "BT_SETTINGS", GoTo(page) PROVE Kept
  <2>1. Paged' /\ Fitting'
    BY <1>2 DEF GoTo, Ready, Paged, Fitting
  <2> QED
    BY <1>2, <2>1, SteadyKeeps DEF GoTo
<1>3. ASSUME ReleaseTapped PROVE Kept
  <2>1. Paged' /\ Fitting'
    BY <1>3 DEF ReleaseTapped, Ready, Paged, Fitting
  <2> QED
    BY <1>3, <2>1, SteadyKeeps DEF ReleaseTapped
<1>4. ASSUME NEW i \in 0 .. 2, RowTapped(i) PROVE Kept
  <2>1. <<2017, 2014, 2021>>[i + 1] \in {2014, 2017, 2020, 2021, 2067, 2083}
    OBVIOUS
  <2>2. \A b : bit(b, 1) \in Nat
    BY DEF bit
  <2> HIDE DEF onlyUi
  <2> QED
    BY <1>4, <2>1, <2>2, WritingKeeps DEF RowTapped
<1>5. ASSUME NEW dir \in {-1, 1}, LimitTapped(dir) PROVE Kept
  <2> DEFINE nc == Clamp(Reading.chargeLimit + 5 * dir, 50, 100)
  <2>1. Reading.chargeLimit \in Nat
    BY ReadingTyped DEF Ready, PowerState
  <2>2. nc * 256 \in Nat
    BY <2>1 DEF Clamp
  <2>3. CASE nc # Reading.chargeLimit
    <3> HIDE DEF onlyUi
    <3>1. writes(2083, nc * 256) /\ Draw /\ UNCHANGED <<onlyUi, current, confirm>>
      BY <1>5, <2>3 DEF LimitTapped
    <3> HIDE DEF nc
    <3> QED
      BY <2>2, <3>1, WritingKeeps
  <2>4. CASE nc = Reading.chargeLimit
    <3>1. UNCHANGED <<onlyUi, current, confirm, pending, sent, painted>>
      BY <1>5, <2>4 DEF LimitTapped
    <3>2. Paged' /\ Fitting'
      BY <3>1 DEF Ready, Paged, Fitting
    <3> QED
      BY <3>1, <3>2, SteadyKeeps
  <2> QED
    BY <2>3, <2>4
<1>6. ASSUME TimeoutTapped PROVE Kept
  <2>1. Reading.screenTimeout \in Nat
    BY ReadingTyped DEF Ready, PowerState
  <2> DEFINE val == LET e == Reading.screenTimeout IN IF e >= 5 \/ e < 2 THEN 2 ELSE e + 1
  <2>2. val \in Nat
    BY <2>1
  <2> HIDE DEF onlyUi
  <2>3. writes(2067, val) /\ Draw /\ UNCHANGED <<onlyUi, current, confirm>>
    BY <1>6 DEF TimeoutTapped
  <2> HIDE DEF val
  <2> QED
    BY <2>2, <2>3, WritingKeeps
<1>7. ASSUME current = "BT_SETTINGS", PairingTapped PROVE Kept
  <2>1. settings.mac \in Seq(Chars)
    BY DEF Ready, Paged, Fields, Addresses
  <2>2. kb' \in KbType /\ Len(kb'.buf) <= MaxLen
    BY <1>7, <2>1, KeyboardOpens DEF PairingTapped
  <2>3. Paged' /\ Fitting'
    BY <1>7, <2>2 DEF PairingTapped, Ready, Paged, Fitting
  <2> QED
    BY <1>7, <2>3, SteadyKeeps DEF PairingTapped
<1> QED
  BY <1>1, <1>2, <1>3, <1>4, <1>5, <1>6, <1>7

LEMMA ChartPageKeeps ==
  ASSUME Ready
  PROVE  /\ \A i \in 0 .. 5 : LegendTapped(i) => Kept
         /\ \A i \in 0 .. 2 : WindowTapped(i) => Kept
<1> USE DEF chartElse, pageElse, setVars
<1>1. settings \in Fields /\ pollMs = settings.pollMs /\ gapMs = settings.gapMs
  BY DEF Ready, Paged, Saving
<1>2. ASSUME NEW i \in 0 .. 5, LegendTapped(i) PROVE Kept
  <2> DEFINE v == IF i \in settings.mask THEN settings.mask \ {i} ELSE settings.mask \cup {i}
  <2>1. settings' = [settings EXCEPT !.mask = v]
    BY <1>2 DEF LegendTapped
  <2>2. v \in Masks
    BY <1>1 DEF Fields, Masks
  <2> HIDE DEF v
  <2>3. [settings EXCEPT !.mask = v] \in Fields
    BY <1>1, <2>2, FieldTyped
  <2>4. \A g \in FieldNames \ {"mask"} : [settings EXCEPT !.mask = v][g] = settings[g]
    BY <1>1, FieldKept
  <2>5. settings' \in Fields /\ \A g \in FieldNames \ {"mask"} : settings'[g] = settings[g]
    BY <2>1, <2>3, <2>4
  <2>6. "mask" \in FieldNames \ {"mac"} /\ {"pollMs", "gapMs"} \subseteq FieldNames \ {"mask"}
    BY DEF FieldNames
  <2>7. settings'.pollMs = settings.pollMs /\ settings'.gapMs = settings.gapMs
    BY <2>5, <2>6
  <2>8. /\ settings_save /\ Draw /\ pollMs' = pollMs /\ gapMs' = gapMs
        /\ UNCHANGED <<current, confirm, gear, kb, pending, diagOn, away, power, sent, typed>>
    BY <1>2 DEF LegendTapped
  <2> QED
    BY <1>1, <2>5, <2>6, <2>7, <2>8, SavedKeeps
<1>3. ASSUME NEW i \in 0 .. 2, WindowTapped(i) PROVE Kept
  <2>1. settings' = [settings EXCEPT !.window = i]
    BY <1>3 DEF WindowTapped
  <2>2. i \in Windows
    BY DEF Windows
  <2>3. [settings EXCEPT !.window = i] \in Fields
    BY <1>1, <2>2, FieldTyped
  <2>4. \A g \in FieldNames \ {"window"} : [settings EXCEPT !.window = i][g] = settings[g]
    BY <1>1, FieldKept
  <2>5. settings' \in Fields /\ \A g \in FieldNames \ {"window"} : settings'[g] = settings[g]
    BY <2>1, <2>3, <2>4
  <2>6. "window" \in FieldNames \ {"mac"} /\ {"pollMs", "gapMs"} \subseteq FieldNames \ {"window"}
    BY DEF FieldNames
  <2>7. settings'.pollMs = settings.pollMs /\ settings'.gapMs = settings.gapMs
    BY <2>5, <2>6
  <2>8. /\ settings_save /\ Draw /\ pollMs' = pollMs /\ gapMs' = gapMs
        /\ UNCHANGED <<current, confirm, gear, kb, pending, diagOn, away, power, sent, typed>>
    BY <1>3 DEF WindowTapped
  <2> QED
    BY <1>1, <2>5, <2>6, <2>7, <2>8, SavedKeeps
<1> QED
  BY <1>2, <1>3

\* A step of the polling interval is one of the table.
LEMMA StepFromTyped ==
  ASSUME NEW cur \in Int, NEW dir \in {-1, 1}
  PROVE  /\ StepFrom(cur, dir) \in PollTimes
         /\ Clamp(StepFrom(cur, dir), 250, 30000) = StepFrom(cur, dir)
<1>1. \A i \in 1 .. 9 : Steps[i] \in PollTimes /\ Steps[i] \in Int
  <2>0. PollTimes \subseteq Int
    BY DEF PollTimes
  <2> SUFFICES ASSUME NEW i \in 1 .. 9 PROVE Steps[i] \in PollTimes
    BY <2>0
  <2>1. i \in {1, 2, 3, 4, 5, 6, 7, 8, 9}
    OBVIOUS
  <2>2. {250, 500, 750, 1000, 1500, 2000, 3000, 5000, 10000} \subseteq PollTimes
    BY DEF PollTimes
  <2> QED
    BY <2>1, <2>2 DEF Steps
<1> DEFINE i == CHOOSE i \in 1 .. 9 : /\ i = 9 \/ Steps[i] >= cur
                                     /\ \A j \in 1 .. (i - 1) : Steps[j] < cur
<1>2. StepFrom(cur, dir) = Steps[Clamp(i + dir, 1, 9)]
  BY DEF StepFrom
<1>3. \E k \in 1 .. 9 : (k = 9 \/ Steps[k] >= cur) /\ \A j \in 1 .. (k - 1) : Steps[j] < cur
  <2> DEFINE S == {k \in 1 .. 9 : k = 9 \/ Steps[k] >= cur}
  <2>1. S \subseteq Nat /\ S # {}
    OBVIOUS
  <2>2. PICK k \in S : \A j \in S : k <= j
    <3> HIDE DEF S
    <3> QED
      BY <2>1, LeastMember
  <2>3. \A j \in 1 .. (k - 1) : j \notin S /\ j \in 1 .. 9
    BY <2>2
  <2>4. \A j \in 1 .. (k - 1) : Steps[j] < cur
    <3>1. \A j \in 1 .. (k - 1) : ~(Steps[j] >= cur) /\ Steps[j] \in Int
      BY <1>1, <2>3
    <3> QED
      BY <3>1
  <2> QED
    BY <2>4
<1>4. i \in 1 .. 9
  BY <1>3
<1> HIDE DEF i
<1>5. Clamp(i + dir, 1, 9) \in 1 .. 9
  BY <1>4 DEF Clamp
<1>6. StepFrom(cur, dir) \in PollTimes
  BY <1>1, <1>2, <1>5
<1>7. \A v \in PollTimes : Clamp(v, 250, 30000) = v
  BY DEF Clamp, PollTimes
<1> QED
  BY <1>6, <1>7

LEMMA DiagnosticsPageKeeps ==
  ASSUME Ready, ~kb.active, gear = "none"
  PROVE  /\ \A dir \in {-1, 1} : PollTapped(dir) => Kept
         /\ \A dir \in {-1, 1} : GapTapped(dir) => Kept
         /\ current = "DIAGNOSTICS" /\ SweepTapped => Kept
         /\ ResetTapped => Kept
         /\ NothingTapped => Kept
<1> USE DEF diagElse, pageElse, setVars
<1>1. settings \in Fields /\ pollMs = settings.pollMs /\ gapMs = settings.gapMs
      /\ pollMs \in PollTimes /\ gapMs \in Gaps
  BY DEF Ready, Paged, Saving
<1>2. ASSUME NEW dir \in {-1, 1}, PollTapped(dir) PROVE Kept
  <2> DEFINE v == StepFrom(pollMs, dir)
  <2>1. settings' = [settings EXCEPT !.pollMs = v] /\ pollMs' = Clamp(v, 250, 30000)
    BY <1>2 DEF PollTapped
  <2>2. v \in PollTimes /\ Clamp(v, 250, 30000) = v
    <3>1. pollMs \in Int
      BY <1>1 DEF PollTimes
    <3> QED
      BY <3>1, StepFromTyped
  <2> HIDE DEF v
  <2>3. [settings EXCEPT !.pollMs = v] \in Fields /\ [settings EXCEPT !.pollMs = v].pollMs = v
    <3>1. [settings EXCEPT !.pollMs = v] \in Fields
      BY <1>1, <2>2, FieldTyped
    <3>2. [settings EXCEPT !.pollMs = v].pollMs = v
      BY <1>1 DEF Fields
    <3> QED
      BY <3>1, <3>2
  <2>4. \A g \in FieldNames \ {"pollMs"} : [settings EXCEPT !.pollMs = v][g] = settings[g]
    BY <1>1, FieldKept
  <2>5. settings' \in Fields /\ settings'.pollMs = v
        /\ \A g \in FieldNames \ {"pollMs"} : settings'[g] = settings[g]
    BY <2>1, <2>3, <2>4
  <2>6. "pollMs" \in FieldNames \ {"mac"} /\ "gapMs" \in FieldNames \ {"pollMs"}
    BY DEF FieldNames
  <2>7. pollMs' = settings'.pollMs /\ gapMs' = settings'.gapMs
    <3>1. gapMs' = gapMs
      BY <1>2 DEF PollTapped
    <3> QED
      BY <1>1, <2>1, <2>2, <2>5, <2>6, <3>1
  <2>8. /\ settings_save /\ Draw
        /\ UNCHANGED <<current, confirm, gear, kb, pending, diagOn, away, power, sent, typed>>
    BY <1>2 DEF PollTapped
  <2> QED
    BY <2>5, <2>6, <2>7, <2>8, SavedKeeps
<1>3. ASSUME NEW dir \in {-1, 1}, GapTapped(dir) PROVE Kept
  <2> DEFINE v == Clamp(gapMs + 5 * dir, 0, 80)
  <2>1. settings' = [settings EXCEPT !.gapMs = v] /\ gapMs' = v
    BY <1>3 DEF GapTapped
  <2>2. v \in Gaps
    BY <1>1 DEF Gaps, Clamp
  <2> HIDE DEF v
  <2>3. [settings EXCEPT !.gapMs = v] \in Fields /\ [settings EXCEPT !.gapMs = v].gapMs = v
    <3>1. [settings EXCEPT !.gapMs = v] \in Fields
      BY <1>1, <2>2, FieldTyped
    <3>2. [settings EXCEPT !.gapMs = v].gapMs = v
      BY <1>1 DEF Fields
    <3> QED
      BY <3>1, <3>2
  <2>4. \A g \in FieldNames \ {"gapMs"} : [settings EXCEPT !.gapMs = v][g] = settings[g]
    BY <1>1, FieldKept
  <2>5. settings' \in Fields /\ settings'.gapMs = v
        /\ \A g \in FieldNames \ {"gapMs"} : settings'[g] = settings[g]
    BY <2>1, <2>3, <2>4
  <2>6. "gapMs" \in FieldNames \ {"mac"} /\ "pollMs" \in FieldNames \ {"gapMs"}
    BY DEF FieldNames
  <2>7. pollMs' = settings'.pollMs /\ gapMs' = settings'.gapMs
    <3>1. pollMs' = pollMs
      BY <1>3 DEF GapTapped
    <3> QED
      BY <1>1, <2>1, <2>5, <2>6, <3>1
  <2>8. /\ settings_save /\ Draw
        /\ UNCHANGED <<current, confirm, gear, kb, pending, diagOn, away, power, sent, typed>>
    BY <1>3 DEF GapTapped
  <2> QED
    BY <2>5, <2>6, <2>7, <2>8, SavedKeeps
<1>4. ASSUME current = "DIAGNOSTICS", SweepTapped PROVE Kept
  <2>1. Paged' /\ Fitting'
    BY <1>4 DEF SweepTapped, Ready, Paged, Fitting
  <2> QED
    BY <1>4, <2>1, SteadyKeeps DEF SweepTapped
<1>5. ASSUME ResetTapped PROVE Kept
  <2>1. Paged' /\ Fitting'
    BY <1>5 DEF ResetTapped, Ready, Paged, Fitting
  <2> QED
    BY <1>5, <2>1, SteadyKeeps DEF ResetTapped
<1>6. ASSUME NothingTapped PROVE Kept
  <2>1. Paged' /\ Fitting'
    BY <1>6 DEF NothingTapped, pageVars, Ready, Paged, Fitting
  <2> QED
    BY <1>6, <2>1, SteadyKeeps DEF NothingTapped, pageVars
<1> QED
  BY <1>2, <1>3, <1>4, <1>5, <1>6

\* What a tap that hits control c does.
Answer(c) ==
  \/ c[1] = "gear" /\ GearPressed
  \/ c[1] = "resume" /\ ResumeTapped
  \/ c[1] = "confirm" /\ ConfirmTapped
  \/ c[1] = "cancel" /\ CancelTapped
  \/ c[1] = "charge" /\ ChargeTapped
  \/ c[1] = "card" /\ CardTapped(c[2])
  \/ c[1] = "back" /\ BackTapped
  \/ c[1] = "chart" /\ GoTo("POWER_CHART")
  \/ c[1] = "energy" /\ GoTo("ENERGY")
  \/ c[1] = "eco" /\ GoTo("ECO_LIMITS")
  \/ c[1] = "release" /\ ReleaseTapped
  \/ c[1] = "legend" /\ LegendTapped(c[2])
  \/ c[1] = "window" /\ WindowTapped(c[2])
  \/ c[1] = "row" /\ RowTapped(c[2])
  \/ c[1] = "limit" /\ LimitTapped(c[2])
  \/ c[1] = "timeout" /\ TimeoutTapped
  \/ c[1] = "pairing" /\ PairingTapped
  \/ c[1] = "poll" /\ PollTapped(c[2])
  \/ c[1] = "gap" /\ GapTapped(c[2])
  \/ c[1] = "sweep" /\ SweepTapped
  \/ c[1] = "reset" /\ ResetTapped
  \/ c[1] = "none" /\ NothingTapped

LEMMA TouchIs ==
  ASSUME ~kb.active, NEW p, ui_handle_touch(p)
  PROVE  \E c \in {Hit(Tested, p)} : Answer(c)
BY Zenon DEF ui_handle_touch, Answer

LEMMA TouchKeeps ==
  ASSUME Ready, gear = "none", NEW p, ui_handle_touch(p)
  PROVE  Kept
<1>1. CASE kb.active
  BY <1>1, KeyTappedKeeps DEF ui_handle_touch
<1>2. CASE ~kb.active
  <2>1. current \in PageNames
    BY DEF Ready, Paged
  <2>2. PICK c \in {Hit(Tested, p)} : Answer(c)
    BY <1>2, TouchIs
  <2>3. c \in Offered \cup {None}
    BY <2>1, TapAnswers
  <2> DEFINE name == c[1]
             n == c[2]
  <2>4. /\ name = "gear" => current = "POWER"
        /\ name = "card" => n \in {2, 3}
        /\ name \in {"chart", "energy", "eco", "pairing"} => current = "BT_SETTINGS"
        /\ name = "row" => n \in 0 .. 2
        /\ name \in {"limit", "poll", "gap"} => n \in {-1, 1}
        /\ name = "legend" => n \in 0 .. 5
        /\ name = "window" => n \in 0 .. 2
        /\ name = "sweep" => current = "DIAGNOSTICS"
    BY <2>1, <2>3, AnswersAt
  <2>5. {"POWER_CHART", "ENERGY", "ECO_LIMITS"} \subseteq PageNames
    BY DEF PageNames
  <2> HIDE DEF name, n
  <2>6. CASE \/ name = "gear" /\ GearPressed
             \/ name = "resume" /\ ResumeTapped
             \/ name = "confirm" /\ ConfirmTapped
             \/ name = "cancel" /\ CancelTapped
             \/ name = "charge" /\ ChargeTapped
             \/ name = "card" /\ CardTapped(n)
    BY <1>2, <2>4, <2>6, PowerPageKeeps
  <2>7. CASE \/ name = "back" /\ BackTapped
             \/ name = "chart" /\ GoTo("POWER_CHART")
             \/ name = "energy" /\ GoTo("ENERGY")
             \/ name = "eco" /\ GoTo("ECO_LIMITS")
             \/ name = "release" /\ ReleaseTapped
             \/ name = "row" /\ RowTapped(n)
             \/ name = "limit" /\ LimitTapped(n)
             \/ name = "timeout" /\ TimeoutTapped
             \/ name = "pairing" /\ PairingTapped
    BY <1>2, <2>4, <2>5, <2>7, SettingsPageKeeps
  <2>8. CASE \/ name = "legend" /\ LegendTapped(n)
             \/ name = "window" /\ WindowTapped(n)
    BY <2>4, <2>8, ChartPageKeeps
  <2>9. CASE \/ name = "poll" /\ PollTapped(n)
             \/ name = "gap" /\ GapTapped(n)
             \/ name = "sweep" /\ SweepTapped
             \/ name = "reset" /\ ResetTapped
             \/ name = "none" /\ NothingTapped
    BY <1>2, <2>4, <2>9, DiagnosticsPageKeeps
  <2> QED
    BY <2>2, <2>6, <2>7, <2>8, <2>9 DEF Answer, name, n
<1> QED
  BY <1>1, <1>2

LEMMA DragKeeps ==
  ASSUME Ready, NEW p, ui_handle_drag(p)
  PROVE  Kept
<1> USE DEF moveElse
<1>1. Paged' /\ Fitting'
  BY DEF ui_handle_drag, Ready, Paged, Fitting, PageNames
<1>2. Draw \/ UNCHANGED <<painted, confirm>>
  BY DEF ui_handle_drag
<1> QED
  BY <1>1, <1>2, SteadyKeeps DEF ui_handle_drag

LEMMA ReleaseKeeps ==
  ASSUME Ready, NEW p0, NEW p1, ui_handle_release(p0, p1)
  PROVE  Kept /\ gear' = "none"
<1> USE DEF moveElse, setVars
<1>1. CASE gear # "none" /\ GearReleased
  <2>1. Paged' /\ Fitting' /\ gear' = "none"
    BY <1>1 DEF GearReleased, Ready, Paged, Fitting, PageNames
  <2> QED
    BY <1>1, <2>1, SteadyKeeps DEF GearReleased
<1>2. CASE gear = "none" /\ SwipedBack
  <2>1. confirm' \in [out : {"none", "AC", "DC"}, on : BOOLEAN]
    BY <1>2, NoConfirmTyped DEF SwipedBack
  <2>2. Paged' /\ Fitting' /\ gear' = "none"
    BY <1>2, <2>1 DEF SwipedBack, Ready, Paged, Fitting, PageNames
  <2> QED
    BY <1>2, <2>2, SteadyKeeps DEF SwipedBack
<1>3. CASE gear = "none" /\ UNCHANGED <<moveElse, gear, current, diagOn, painted>>
  <2>1. Paged' /\ Fitting' /\ gear' = "none"
    BY <1>3 DEF Ready, Paged, Fitting
  <2> QED
    BY <1>3, <2>1, SteadyKeeps
<1> QED
  BY <1>1, <1>2, <1>3 DEF ui_handle_release

-----------------------------------------------------------------------------
(* The loop.                                                               *)

\* What a step leaves alone stays right.
LEMMA Unmoved ==
  ASSUME IInv
  PROVE  /\ UNCHANGED <<settings, unsaved, current, confirm, gear, kb, pending, pollMs, gapMs,
                        diagOn, away, power, sent>> => Paged'
         /\ UNCHANGED <<current, gear, kb, diagOn>> => Fitting'
         /\ UNCHANGED <<gear, latch>> => GearHeld'
         /\ UNCHANGED <<calls, finger, missed, latch>> => PressCounted'
         /\ UNCHANGED <<settings, unsaved, nvs, pollMs, gapMs>> => Saving'
         /\ UNCHANGED <<task, link, learned, target, typed, settings>> => Attempt'
         /\ UNCHANGED <<painted, confirm>> => ModalShown'
<1>1. UNCHANGED <<settings, unsaved, current, confirm, gear, kb, pending, pollMs, gapMs,
                  diagOn, away, power, sent>> => Paged'
  BY DEF IInv, Paged
<1>2. UNCHANGED <<current, gear, kb, diagOn>> => Fitting'
  BY DEF IInv, Fitting
<1>3. UNCHANGED <<gear, latch>> => GearHeld'
  BY DEF IInv, GearHeld
<1>4. UNCHANGED <<calls, finger, missed, latch>> => PressCounted'
  BY DEF IInv, PressCounted
<1>5. UNCHANGED <<settings, unsaved, nvs, pollMs, gapMs>> => Saving'
  BY DEF IInv, Saving
<1>6. UNCHANGED <<task, link, learned, target, typed, settings>> => Attempt'
  BY DEF IInv, Attempt
<1>7. UNCHANGED <<painted, confirm>> => ModalShown'
  BY DEF IInv, ModalShown
<1> QED
  BY <1>1, <1>2, <1>3, <1>4, <1>5, <1>6, <1>7

LEMMA SpendTyped ==
  ASSUME left \in [Budgets -> Nat], NEW b \in Budgets, Spend(b)
  PROVE  left' \in [Budgets -> Nat]
BY DEF Spend

\* After a handler the attempt under way is as before.
LEMMA AttemptKept ==
  ASSUME IInv, MacKept, UNCHANGED <<task, link, learned, target>>
  PROVE  Attempt'
BY DEF IInv, Attempt, MacKept

LEMMA LatchesAre ==
  ASSUME latch \in Latches
  PROVE  /\ latch.pressed \in BOOLEAN /\ latch.count \in 0 .. 2
         /\ latch = [pressed |-> latch.pressed, count |-> latch.count,
                     first |-> latch.first, last |-> latch.last]
BY DEF Latches

LEMMA LatchSet ==
  ASSUME NEW pressed \in BOOLEAN, NEW count \in 0 .. 2, NEW p0, NEW p1,
         latch' = [pressed |-> pressed, count |-> count, first |-> p0, last |-> p1]
  PROVE  latch' \in Latches' /\ latch'.pressed = pressed /\ latch'.count = count
BY DEF Latches

LEMMA LatchDown ==
  ASSUME NEW p0, NEW p1,
         latch' = [pressed |-> TRUE, count |-> 0, first |-> p0, last |-> p1]
  PROVE  latch' \in Latches' /\ latch'.pressed /\ latch'.count = 0
BY DEF Latches

LEMMA ReadTouchKeeps == IInv /\ ReadTouch => IInv'
<1> SUFFICES ASSUME IInv, ReadTouch PROVE IInv'
  OBVIOUS
<1> DEFINE p == mapTouch(parseAxsTouch(Report(finger, IF latch.pressed THEN 2 ELSE 0, 1)))
<1>1. /\ pc' = "learn" /\ missed' = 0 /\ finger # <<>>
      /\ UNCHANGED <<user, nvs, seen, samples, task, target, fails, learned, link, conn, left,
                     finger>>
  BY DEF ReadTouch, loopElse, bleVars
<1>2. Ready
  BY <1>1 DEF ReadTouch, Ready, IInv, Looped
<1>3. latch \in Latches
  BY DEF IInv, Looped
<1>4. CASE latch.pressed
  <2>1. latch' = [latch EXCEPT !.count = 0, !.last = p] /\ ui_handle_drag(p) /\ UNCHANGED calls
    BY <1>4 DEF ReadTouch
  <2> HIDE DEF p
  <2>2. Kept
    BY <1>2, <2>1, DragKeeps
  <2>3. latch' = [pressed |-> TRUE, count |-> 0, first |-> latch.first, last |-> p]
    <3>1. latch = [pressed |-> latch.pressed, count |-> latch.count,
                   first |-> latch.first, last |-> latch.last]
      BY <1>3, LatchesAre
    <3>2. latch.pressed = TRUE
      BY <1>3, <1>4, LatchesAre
    <3> QED
      BY <2>1, <3>1, <3>2
  <2>4. latch' \in Latches' /\ latch'.pressed /\ latch'.count = 0
    BY <2>3, LatchDown
  <2>5. Looped'
    BY <1>1, <2>1, <2>4 DEF IInv, Looped, Fingers
  <2>6. PressCounted' /\ GearHeld'
    BY <1>1, <2>1, <2>4 DEF IInv, PressCounted, GearHeld
  <2>7. Attempt'
    BY <1>1, <2>2, AttemptKept DEF Kept
  <2> QED
    BY <2>2, <2>5, <2>6, <2>7 DEF IInv, Kept
<1>5. CASE ~latch.pressed
  <2>1. /\ latch' = [pressed |-> TRUE, count |-> 0, first |-> p, last |-> p]
        /\ calls' = (IF calls < 2 THEN calls + 1 ELSE 2)
        /\ ui_handle_touch(p)
    BY <1>5 DEF ReadTouch
  <2> HIDE DEF p
  <2>2. Kept
    <3>1. gear = "none"
      BY <1>5 DEF IInv, GearHeld
    <3> QED
      BY <1>2, <2>1, <3>1, TouchKeeps
  <2>3. latch' \in Latches' /\ latch'.pressed /\ latch'.count = 0
    BY <2>1, LatchDown
  <2>4. calls' = 1
    <3>1. calls = 0
      BY <1>5 DEF IInv, PressCounted
    <3> QED
      BY <2>1, <3>1
  <2>5. Looped'
    BY <1>1, <2>3, <2>4 DEF IInv, Looped, Fingers
  <2>6. PressCounted' /\ GearHeld'
    BY <1>1, <2>3, <2>4 DEF PressCounted, GearHeld
  <2>7. Attempt'
    BY <1>1, <2>2, AttemptKept DEF Kept
  <2> QED
    BY <2>2, <2>5, <2>6, <2>7 DEF IInv, Kept
<1> QED
  BY <1>4, <1>5

LEMMA ReadEmptyKeeps == IInv /\ ReadEmpty => IInv'
<1> SUFFICES ASSUME IInv, ReadEmpty PROVE IInv'
  OBVIOUS
<1>1. /\ pc' = "learn"
      /\ UNCHANGED <<user, nvs, seen, samples, task, target, fails, learned, link, conn, finger,
                     calls>>
  BY DEF ReadEmpty, loopElse, bleVars
<1>2. Ready
  BY <1>1 DEF ReadEmpty, Ready, IInv, Looped
<1>3. latch \in Latches
  BY DEF IInv, Looped
<1>4. left' \in [Budgets -> Nat] /\ missed' \in 0 .. 2
  <2>1. CASE finger = <<>>
    BY <2>1 DEF ReadEmpty, IInv, Looped
  <2>2. CASE finger # <<>>
    <3>1. missed < 2 /\ Spend("drops") /\ missed' = missed + 1
      BY <2>2 DEF ReadEmpty
    <3>2. left \in [Budgets -> Nat] /\ missed \in 0 .. 2 /\ "drops" \in Budgets
      BY DEF IInv, Looped, Budgets
    <3>3. left' \in [Budgets -> Nat]
      BY <3>1, <3>2, SpendTyped
    <3> QED
      BY <3>1, <3>2, <3>3
  <2> QED
    BY <2>1, <2>2
<1>5. CASE latch.pressed /\ Lifted(latch.count + 1)
  <2>1. latch' = NotPressed /\ ui_handle_release(latch.first, latch.last)
    BY <1>5 DEF ReadEmpty
  <2>2. Kept /\ gear' = "none"
    BY <1>2, <2>1, ReleaseKeeps
  <2>3. latch' \in Latches' /\ latch'.pressed = FALSE
    BY <2>1 DEF NotPressed, Latches
  <2>4. calls' = 0
    <3>1. latch.count = 2
      BY <1>3, <1>5, LatchesAre DEF Lifted
    <3>2. CASE finger = <<>>
      BY <1>1, <3>2 DEF IInv, PressCounted
    <3>3. CASE finger # <<>>
      <4>1. missed < 2 /\ missed \in 0 .. 2
        BY <3>3 DEF ReadEmpty, IInv, Looped
      <4> QED
        BY <1>1, <3>1, <4>1 DEF IInv, PressCounted
    <3> QED
      BY <3>2, <3>3
  <2>5. Looped'
    BY <1>1, <1>4, <2>3 DEF IInv, Looped, Fingers
  <2>6. PressCounted' /\ GearHeld'
    BY <2>2, <2>4 DEF PressCounted, GearHeld
  <2>7. Attempt'
    BY <1>1, <2>2, AttemptKept DEF Kept
  <2> QED
    BY <2>2, <2>5, <2>6, <2>7 DEF IInv, Kept
<1>6. CASE ~(latch.pressed /\ Lifted(latch.count + 1))
  <2>1. /\ latch' = (IF latch.pressed THEN [latch EXCEPT !.count = @ + 1] ELSE latch)
        /\ UNCHANGED <<current, confirm, gear, kb, pending, settings, unsaved, pollMs, gapMs,
                       diagOn, away, power, sent, typed, painted>>
    BY <1>6 DEF ReadEmpty, pageVars, setVars
  <2>2. Paged' /\ Fitting' /\ Saving' /\ Attempt' /\ ModalShown'
    BY <1>1, <2>1, Unmoved
  <2>3. /\ latch' \in Latches' /\ latch'.pressed = latch.pressed
        /\ latch.pressed => latch'.count = latch.count + 1
    <3>1. CASE latch.pressed
      <4>1. latch.count + 1 \in 0 .. 2
        BY <1>3, <1>6, <3>1, LatchesAre DEF Lifted
      <4>2. latch' = [pressed |-> latch.pressed, count |-> latch.count + 1,
                      first |-> latch.first, last |-> latch.last]
        BY <1>3, <2>1, <3>1, LatchesAre
      <4> QED
        BY <1>3, <4>1, <4>2, LatchesAre, LatchSet
    <3>2. CASE ~latch.pressed
      BY <1>3, <2>1, <3>2 DEF Latches
    <3> QED
      BY <3>1, <3>2
  <2>4. Looped'
    BY <1>1, <1>4, <2>3 DEF IInv, Looped, Fingers
  <2>5. GearHeld'
    BY <2>1, <2>3 DEF IInv, GearHeld
  <2>6. PressCounted'
    <3>1. CASE finger = <<>>
      BY <1>1, <3>1 DEF IInv, PressCounted
    <3>2. CASE finger # <<>>
      <4>1. missed' = missed + 1 /\ missed \in 0 .. 2 /\ latch.count \in 0 .. 2
        BY <1>3, <3>2, LatchesAre DEF ReadEmpty, IInv, Looped
      <4> QED
        BY <1>1, <2>3, <3>2, <4>1 DEF IInv, PressCounted
    <3> QED
      BY <3>1, <3>2
  <2> QED
    BY <2>2, <2>4, <2>5, <2>6 DEF IInv
<1> QED
  BY <1>5, <1>6

LEMMA PutKeeps == IInv /\ Put => IInv'
<1> SUFFICES ASSUME IInv, Put PROVE IInv'
  OBVIOUS
<1> DEFINE h == Head(unsaved)
<1>1. /\ unsaved # <<>> /\ unsaved' = Tail(unsaved) /\ nvs' = [nvs EXCEPT ![h] = settings[h]]
      /\ UNCHANGED <<user, left, finger, missed, pc, latch, settings, current, confirm, gear, kb,
                     pending, seen, painted, samples, pollMs, gapMs, diagOn, away, task, target,
                     fails, learned, link, conn, power, calls, sent, drew, typed>>
  BY DEF Put, userVars, pageVars, setVars, bleVars, histVars
<1>2. unsaved \in Seq(FieldNames) /\ settings \in Fields /\ nvs \in Fields
  BY DEF IInv, Paged, Looped
<1>3. /\ h \in FieldNames /\ unsaved' \in Seq(FieldNames) /\ Len(unsaved') = Len(unsaved) - 1
      /\ \A i \in 2 .. Len(unsaved) : unsaved[i] = unsaved'[i - 1]
      /\ h = unsaved[1] /\ Len(unsaved) \in Nat
  <2>1. Len(unsaved) \in Nat /\ Len(unsaved) >= 1
    BY <1>1, <1>2, EmptySeq, LenProperties
  <2>2. /\ h \in FieldNames /\ Tail(unsaved) \in Seq(FieldNames) /\ h = unsaved[1]
        /\ Len(Tail(unsaved)) = Len(unsaved) - 1
        /\ \A i \in 1 .. Len(Tail(unsaved)) : Tail(unsaved)[i] = unsaved[i + 1]
    BY <1>1, <1>2, HeadTailProperties
  <2> DEFINE n == Len(unsaved)
             t == Tail(unsaved)
  <2> HIDE DEF n, t
  <2>3. \A i \in 2 .. n : i - 1 \in 1 .. (n - 1) /\ (i - 1) + 1 = i
    BY <2>1 DEF n
  <2>4. \A i \in 2 .. n : t[i - 1] = unsaved[(i - 1) + 1]
    BY <2>2, <2>3 DEF n, t
  <2>5. \A i \in 2 .. n : t[i - 1] = unsaved[i]
    BY <2>3, <2>4
  <2> QED
    BY <1>1, <2>1, <2>2, <2>5 DEF n, t
<1> HIDE DEF h
<1>4. nvs' \in Fields /\ nvs'[h] = settings[h] /\ \A g \in FieldNames \ {h} : nvs'[g] = nvs[g]
  <2>1. h \in {"mac", "mask", "window", "pollMs", "gapMs"}
    BY <1>3 DEF FieldNames
  <2>2. [nvs EXCEPT ![h] = settings[h]] \in Fields
    <3>1. CASE h = "mac"
      BY <1>2, <3>1 DEF Fields
    <3>2. CASE h = "mask"
      BY <1>2, <3>2 DEF Fields
    <3>3. CASE h = "window"
      BY <1>2, <3>3 DEF Fields
    <3>4. CASE h = "pollMs"
      BY <1>2, <3>4 DEF Fields
    <3>5. CASE h = "gapMs"
      BY <1>2, <3>5 DEF Fields
    <3> QED
      BY <2>1, <3>1, <3>2, <3>3, <3>4, <3>5
  <2>3. DOMAIN nvs = FieldNames
    BY <1>2 DEF Fields, FieldNames
  <2>4. nvs'[h] = settings[h] /\ \A g \in FieldNames \ {h} : nvs'[g] = nvs[g]
    BY <1>1, <1>3, <2>3
  <2> QED
    BY <1>1, <2>2, <2>4
<1>5. Saving'
  <2>1. PICK f \in FieldNames :
          /\ \A g \in FieldNames \ {f} : nvs[g] = settings[g]
          /\ nvs[f] = settings[f] \/ \E i \in 1 .. Len(unsaved) : unsaved[i] = f
    BY DEF IInv, Saving
  <2>2. \A g \in FieldNames \ {f} : nvs'[g] = settings'[g]
    BY <1>1, <1>4, <2>1
  <2>3. nvs'[f] = settings'[f] \/ \E i \in 1 .. Len(unsaved') : unsaved'[i] = f
    <3>1. CASE f = h
      BY <1>1, <1>4, <3>1
    <3>2. CASE f # h /\ nvs[f] = settings[f]
      BY <1>1, <1>4, <3>2
    <3>3. CASE f # h /\ \E i \in 1 .. Len(unsaved) : unsaved[i] = f
      <4>1. PICK i \in 1 .. Len(unsaved) : unsaved[i] = f
        BY <3>3
      <4> DEFINE n == Len(unsaved)
      <4>2. i # 1 /\ n \in Nat /\ i \in 1 .. n
        BY <1>3, <3>3, <4>1
      <4> HIDE DEF n
      <4>3. i \in 2 .. n /\ i - 1 \in 1 .. (n - 1)
        BY <4>2
      <4>4. unsaved'[i - 1] = f
        BY <1>3, <4>1, <4>3 DEF n
      <4> QED
        BY <1>3, <4>3, <4>4 DEF n
    <3> QED
      BY <2>1, <3>1, <3>2, <3>3
  <2>4. pollMs' = settings'.pollMs /\ gapMs' = settings'.gapMs
    BY <1>1 DEF IInv, Saving
  <2> QED
    BY <2>2, <2>3, <2>4 DEF Saving
<1>6. Fitting' /\ GearHeld' /\ PressCounted' /\ Attempt' /\ ModalShown'
  BY <1>1, Unmoved
<1>7. Paged'
  BY <1>1, <1>3 DEF IInv, Paged
<1>8. Looped'
  BY <1>1, <1>4 DEF IInv, Looped, Fingers, Latches
<1> QED
  BY <1>5, <1>6, <1>7, <1>8 DEF IInv

LEMMA TakeLearnedKeeps == IInv /\ TakeLearned => IInv'
<1> SUFFICES ASSUME IInv, TakeLearned PROVE IInv'
  OBVIOUS
<1>1. /\ unsaved = <<>> /\ learned # NoUnit /\ pc' = "tick" /\ learned' = NoUnit
      /\ settings' = [settings EXCEPT !.mac = learned] /\ settings_save
      /\ UNCHANGED <<user, left, finger, missed, latch, nvs, current, confirm, gear, kb, pending,
                     seen, painted, samples, pollMs, gapMs, diagOn, away, task, target, fails,
                     link, conn, power, calls, sent, drew, typed>>
  BY DEF TakeLearned, userVars, pageVars, setVars, histVars
<1>2. settings \in Fields /\ learned \in Addresses /\ pollMs = settings.pollMs
      /\ gapMs = settings.gapMs
  BY DEF IInv, Paged, Looped, Saving
<1>3. settings' \in Fields /\ settings'.mac = learned
      /\ \A g \in FieldNames \ {"mac"} : settings'[g] = settings[g]
  <2>1. [settings EXCEPT !.mac = learned] \in Fields
    BY <1>2, FieldTyped
  <2>2. \A g \in FieldNames \ {"mac"} : [settings EXCEPT !.mac = learned][g] = settings[g]
    BY <1>2, FieldKept
  <2>3. [settings EXCEPT !.mac = learned].mac = learned
    BY <1>2 DEF Fields
  <2> QED
    BY <1>1, <2>1, <2>2, <2>3
<1>4. Saving' /\ unsaved' \in Seq(FieldNames)
  <2>1. "mac" \in FieldNames /\ {"pollMs", "gapMs"} \subseteq FieldNames \ {"mac"}
    BY DEF FieldNames
  <2>2. pollMs' = settings'.pollMs /\ gapMs' = settings'.gapMs
    BY <1>1, <1>2, <1>3, <2>1
  <2> QED
    BY <1>1, <1>3, <2>1, <2>2, SavesField DEF IInv
<1>5. Paged'
  BY <1>1, <1>3, <1>4 DEF IInv, Paged
<1>6. Looped'
  <2>1. learned' \in Addresses
    BY <1>1, EmptySeq DEF NoUnit, Addresses
  <2> QED
    BY <1>1, <2>1 DEF IInv, Looped, Fingers, Latches
<1>7. Fitting' /\ GearHeld' /\ PressCounted' /\ ModalShown'
  BY <1>1, Unmoved
<1>8. Attempt'
  BY <1>1, <1>3 DEF IInv, Attempt, Looped
<1> QED
  BY <1>4, <1>5, <1>6, <1>7, <1>8 DEF IInv

LEMMA TickKeeps == IInv /\ Tick => IInv'
<1> SUFFICES ASSUME IInv, Tick PROVE IInv'
  OBVIOUS
<1>1. /\ pc' = "touch" /\ sent' = <<>>
      /\ UNCHANGED <<user, finger, missed, latch, unsaved, nvs, settings, current, confirm, gear,
                     kb, pollMs, gapMs, diagOn, away, task, target, fails, learned, link, conn,
                     power, calls, typed>>
  BY DEF Tick, setVars, bleVars
<1>2. samples' \in Nat /\ left' \in [Budgets -> Nat]
  <2>1. samples \in Nat /\ left \in [Budgets -> Nat] /\ "samples" \in Budgets
    BY DEF IInv, Looped, Budgets
  <2> QED
    BY <2>1, SpendTyped DEF Tick
<1>3. pending' \in {"no", "waiting", "done"} /\ (Draw \/ UNCHANGED painted)
  <2>1. pending \in {"no", "waiting", "done"}
    BY DEF IInv, Paged
  <2>2. ASSUME NEW r, NEW m, Repaint(r, m)
        PROVE  UNCHANGED pending /\ (Draw \/ UNCHANGED painted)
    BY <2>2 DEF Repaint
  <2>3. CASE TickPending
    BY <2>1, <2>3 DEF TickPending
  <2>4. CASE TickModal
    BY <2>1, <2>4 DEF TickModal
  <2>5. CASE TickReleased
    BY <2>1, <2>2, <2>5 DEF TickReleased
  <2>6. CASE TickOffline
    BY <2>1, <2>2, <2>6 DEF TickOffline
  <2>7. CASE TickLive
    BY <2>1, <2>2, <2>7 DEF TickLive
  <2>8. CASE TickPage
    BY <2>1, <2>2, <2>8 DEF TickPage
  <2>9. CASE TickDiagnostics
    BY <2>1, <2>2, <2>9 DEF TickDiagnostics
  <2> QED
    BY <2>3, <2>4, <2>5, <2>6, <2>7, <2>8, <2>9 DEF Tick
<1>4. Paged'
  <2>1. <<>> \in Writes
    BY DEF Writes
  <2> QED
    BY <1>1, <1>3, <2>1 DEF IInv, Paged
<1>5. Looped'
  BY <1>1, <1>2 DEF IInv, Looped, Fingers, Latches
<1>6. Fitting' /\ GearHeld' /\ PressCounted' /\ Saving' /\ Attempt'
  BY <1>1, Unmoved
<1>7. ModalShown'
  <2>1. current' \in PageNames
    BY <1>4 DEF Paged
  <2> QED
    BY <1>1, <1>3, <2>1, DrawsModal, Unmoved
<1> QED
  BY <1>4, <1>5, <1>6, <1>7 DEF IInv

-----------------------------------------------------------------------------
(* The user, the clock and the BLE task.                                   *)

LEMMA PointsAre == ASSUME NEW p \in Points PROVE p # <<>>
BY DEF Points

LEMMA FingerKeeps ==
  ASSUME IInv,
         \/ \E p \in Spots[user] : FingerDown(p)
         \/ \E p \in Slides[user] : FingerSlides(p)
         \/ FingerUp \/ FingerHome
  PROVE  IInv'
<1> DEFINE Same == UNCHANGED <<user, pc, latch, unsaved, nvs, settings, current, confirm, gear, kb,
                              pending, seen, painted, samples, pollMs, gapMs, diagOn, away, task,
                              target, fails, learned, link, conn, power, sent, drew, typed>>
<1>a. fingerElse' = fingerElse => Same
  BY DEF fingerElse, loopVars, pageVars, setVars, bleVars
<1>b. left \in [Budgets -> Nat] /\ "taps" \in Budgets
  BY DEF IInv, Looped, Budgets
<1>c. Same => /\ Paged' /\ Fitting' /\ GearHeld' /\ Saving' /\ Attempt' /\ ModalShown'
  BY Unmoved
<1>d. ASSUME Same, finger' \in Fingers, missed' \in 0 .. 2, left' \in [Budgets -> Nat],
             calls' \in 0 .. 2
      PROVE  Looped'
  BY <1>d DEF IInv, Looped, Fingers, Latches
<1>e. missed \in 0 .. 2 /\ calls \in 0 .. 2 /\ left \in [Budgets -> Nat]
  BY DEF IInv, Looped
<1>1. ASSUME NEW p \in Spots[user], FingerDown(p) PROVE IInv'
  <2>1. Same /\ Spend("taps") /\ finger' = p /\ missed' = 0 /\ calls' = 0
    BY <1>1, <1>a DEF FingerDown
  <2>2. Looped' /\ PressCounted'
    <3>1. left' \in [Budgets -> Nat]
      BY <1>b, <2>1, SpendTyped
    <3>2. finger' \in Fingers
      BY <2>1 DEF Fingers
    <3> HIDE DEF Same
    <3> QED
      BY <1>d, <2>1, <3>1, <3>2 DEF PressCounted
  <2> QED
    BY <1>c, <2>1, <2>2 DEF IInv
<1>2. ASSUME NEW p \in Slides[user], FingerSlides(p) PROVE IInv'
  <2>1. Same /\ Spend("taps") /\ finger' = p /\ finger # <<>> /\ UNCHANGED <<missed, calls>>
    BY <1>2, <1>a DEF FingerSlides
  <2>2. p # <<>>
    <3>1. p \in Points
      BY UsersAssumption DEF IInv, Looped
    <3> QED
      BY <3>1, PointsAre
  <2>3. Looped'
    <3>1. left' \in [Budgets -> Nat]
      BY <1>b, <2>1, SpendTyped
    <3>2. finger' \in Fingers
      BY <2>1 DEF Fingers
    <3> HIDE DEF Same
    <3> QED
      BY <1>d, <1>e, <2>1, <3>1, <3>2
  <2>4. PressCounted'
    BY <2>1, <2>2 DEF IInv, PressCounted
  <2> QED
    BY <1>c, <2>1, <2>3, <2>4 DEF IInv
<1>3. ASSUME FingerUp PROVE IInv'
  <2>1. Same /\ finger' = <<>> /\ missed' = 0 /\ calls' = 0 /\ UNCHANGED left
    BY <1>3, <1>a DEF FingerUp
  <2>2. Looped' /\ PressCounted'
    <3>1. finger' \in Fingers
      BY <2>1 DEF Fingers
    <3> HIDE DEF Same
    <3> QED
      BY <1>d, <1>e, <2>1, <3>1 DEF PressCounted
  <2> QED
    BY <1>c, <2>1, <2>2 DEF IInv
<1>4. ASSUME FingerHome PROVE IInv'
  <2>1. Same /\ finger' \in {CancelSpot, BackSpot} /\ missed' = 0 /\ calls' = 0 /\ UNCHANGED left
    BY <1>4, <1>a DEF FingerHome
  <2>2. Looped' /\ PressCounted'
    <3>1. finger' \in Fingers
      BY <2>1 DEF Fingers
    <3> HIDE DEF Same
    <3> QED
      BY <1>d, <1>e, <2>1, <3>1 DEF PressCounted
  <2> QED
    BY <1>c, <2>1, <2>2 DEF IInv
<1> QED
  BY <1>1, <1>2, <1>3, <1>4

\* The clock moves none of what the user or the BLE task hold.
LEMMA ClockKeeps ==
  ASSUME IInv, GearDue \/ SpinnerTimesOut \/ WindowEnds \/ Expires
  PROVE  IInv'
<1>1. UNCHANGED <<user, left, finger, missed, pc, latch, unsaved, nvs, settings, current, confirm,
                  kb, samples, pollMs, gapMs, diagOn, task, target, fails, learned, link,
                  conn, painted, calls, sent, typed>>
  BY DEF GearDue, SpinnerTimesOut, WindowEnds, Expires, clockElse, userVars, loopVars, bleVars
<1>2. /\ gear' \in {"none", "pressed", "due"} /\ (gear' = "none" <=> gear = "none")
      /\ pending' \in {"no", "waiting", "done"} /\ away' \in {"no", "counting", "last"}
      /\ power' \in [ok : BOOLEAN, fresh : BOOLEAN, rd : ReadingNames]
  BY DEF GearDue, SpinnerTimesOut, WindowEnds, Expires, IInv, Paged
<1>3. Paged'
  BY <1>1, <1>2 DEF IInv, Paged
<1>4. Looped'
  BY <1>1 DEF IInv, Looped, Fingers, Latches
<1>5. Fitting' /\ GearHeld'
  BY <1>1, <1>2 DEF IInv, Fitting, GearHeld
<1>6. PressCounted' /\ Saving' /\ Attempt' /\ ModalShown'
  BY <1>1, Unmoved
<1> QED
  BY <1>3, <1>4, <1>5, <1>6 DEF IInv

LEMMA UnitTyped ==
  ASSUME IInv, NEW u \in InRange[user]
  PROVE  u \in Addresses /\ u # NoUnit
<1>1. u \in Seq(Chars) /\ Len(u) = MaxLen
  BY MacsAssumption DEF IInv, Looped
<1>2. MaxLen # 0 /\ Len(<<>>) = 0
  BY MaxLenAssumption
<1> QED
  BY <1>1, <1>2 DEF Addresses, NoUnit

\* The BLE task changes the attempt, the link and the reading only.
LEMMA TaskKeeps ==
  ASSUME IInv, \/ ConnectStep \/ ScanFindsNothing \/ LinkLost \/ HangUp
               \/ \E name \in Reads[user] : Publish(name)
  PROVE  IInv'
<1> DEFINE Else == UNCHANGED <<user, finger, missed, pc, latch, unsaved, nvs, settings, current,
                              confirm, gear, kb, seen, painted, samples, pollMs, gapMs, diagOn,
                              away, calls, sent>>
<1>1. taskElse' = taskElse => Else
  BY DEF taskElse, loopVars, setVars
<1>2. ASSUME Else, left' \in [Budgets -> Nat], task' \in {"idle", "direct", "scan", "found"},
             fails' \in 0 .. FALLBACK_FAILS, conn' \in {"OFFLINE", "CONNECTING", "ONLINE"},
             learned' \in Addresses, target' \in Addresses, Attempt',
             pending' \in {"no", "waiting", "done"},
             power' \in [ok : BOOLEAN, fresh : BOOLEAN, rd : ReadingNames]
      PROVE  IInv'
  <2>1. Paged'
    BY <1>2 DEF IInv, Paged
  <2>2. Looped'
    BY <1>2 DEF IInv, Looped, Fingers, Latches
  <2>3. Fitting' /\ GearHeld' /\ PressCounted' /\ Saving' /\ ModalShown'
    BY <1>2, Unmoved
  <2> QED
    BY <1>2, <2>1, <2>2, <2>3 DEF IInv
<1>3. /\ left \in [Budgets -> Nat] /\ task \in {"idle", "direct", "scan", "found"}
      /\ fails \in 0 .. FALLBACK_FAILS /\ conn \in {"OFFLINE", "CONNECTING", "ONLINE"}
      /\ learned \in Addresses /\ target \in Addresses /\ settings.mac \in Addresses
      /\ pending \in {"no", "waiting", "done"} /\ NoUnit \in Addresses
      /\ power \in [ok : BOOLEAN, fresh : BOOLEAN, rd : ReadingNames]
  <2>1. NoUnit \in Addresses
    BY EmptySeq DEF NoUnit, Addresses
  <2>2. settings.mac \in Addresses
    BY DEF IInv, Paged, Fields
  <2> QED
    BY <2>1, <2>2 DEF IInv, Paged, Looped
<1>4. \A b \in Budgets : Spend(b) => left' \in [Budgets -> Nat]
  BY <1>3, SpendTyped
<1>5. {"faults", "losses", "polls"} \subseteq Budgets
  BY DEF Budgets
<1>6. AttemptFails => fails' \in 0 .. FALLBACK_FAILS
  BY <1>3 DEF AttemptFails, FALLBACK_FAILS
<1> HIDE DEF Else
<1>7. ASSUME StartConnect PROVE IInv'
  <2>1. /\ Else /\ UNCHANGED <<left, fails, learned, power, pending, link>> /\ conn' = "CONNECTING"
        /\ \/ task' = "direct" /\ target' = settings.mac
           \/ task' = "scan" /\ target' = NoUnit
        /\ learned = NoUnit /\ link = NoUnit /\ typed' = FALSE
    BY <1>1, <1>7 DEF StartConnect
  <2>2. Attempt'
    BY <2>1 DEF Else, Attempt
  <2> QED
    BY <1>2, <1>3, <2>1, <2>2
<1>8. ASSUME NEW u \in InRange[user], ScanFinds(u) PROVE IInv'
  <2>1. /\ Else /\ UNCHANGED <<left, fails, conn, power, pending, link, typed>> /\ task = "scan"
        /\ task' = "found" /\ target' = u /\ learned' = IF u # settings.mac THEN u ELSE learned
    BY <1>1, <1>8 DEF ScanFinds
  <2>2. u \in Addresses /\ u # NoUnit
    BY UnitTyped
  <2>3. Attempt'
    BY <2>1, <2>2 DEF Else, IInv, Attempt
  <2> QED
    BY <1>2, <1>3, <2>1, <2>2, <2>3
<1>9. ASSUME AttemptFails, task # "idle", left' \in [Budgets -> Nat] PROVE IInv'
  <2>1. /\ Else /\ UNCHANGED <<learned, power, pending, link, typed>> /\ task' = "idle"
        /\ target' = NoUnit /\ conn' = "OFFLINE"
    BY <1>1, <1>9 DEF AttemptFails
  <2>2. Attempt'
    BY <1>9, <2>1 DEF Else, IInv, Attempt
  <2> QED
    BY <1>2, <1>3, <1>6, <1>9, <2>1, <2>2
<1>10. ASSUME ConnectSucceeds PROVE IInv'
  <2>1. /\ Else /\ UNCHANGED <<left, learned, conn, power, pending, typed>> /\ task' = "idle"
        /\ target' = NoUnit /\ link' = target /\ fails' = 0 /\ task \in {"direct", "found"}
    BY <1>1, <1>10 DEF ConnectSucceeds
  <2>2. Attempt'
    BY <2>1 DEF Else, IInv, Attempt
  <2>3. fails' \in 0 .. FALLBACK_FAILS
    BY <2>1 DEF FALLBACK_FAILS
  <2> QED
    BY <1>2, <1>3, <2>1, <2>2, <2>3
<1>11. ASSUME LinkLost PROVE IInv'
  <2>1. /\ Else /\ UNCHANGED <<task, target, fails, learned, conn, power, pending, typed>>
        /\ Spend("losses") /\ link # NoUnit /\ link' = NoUnit
    BY <1>1, <1>11 DEF LinkLost
  <2>2. Attempt'
    BY <2>1 DEF Else, IInv, Attempt
  <2> QED
    BY <1>2, <1>3, <1>4, <1>5, <2>1, <2>2
<1>12. ASSUME HangUp PROVE IInv'
  <2>1. /\ Else /\ UNCHANGED <<left, task, target, fails, learned, power, pending, typed>>
        /\ task = "idle" /\ link' = NoUnit /\ conn' = "OFFLINE"
    BY <1>1, <1>12 DEF HangUp
  <2>2. Attempt'
    BY <2>1 DEF Else, IInv, Attempt
  <2> QED
    BY <1>2, <1>3, <2>1, <2>2
<1>13. ASSUME NEW name \in ReadingNames, Publish(name) PROVE IInv'
  <2>1. /\ Else /\ UNCHANGED <<task, target, fails, learned, link, typed>> /\ Spend("polls")
        /\ power' = [ok |-> TRUE, fresh |-> TRUE, rd |-> name] /\ conn' = "ONLINE"
        /\ pending' = IF pending = "waiting" THEN "done" ELSE pending
    BY <1>1, <1>13 DEF Publish
  <2>2. Attempt'
    BY <2>1, Unmoved DEF Else
  <2> QED
    BY <1>2, <1>3, <1>4, <1>5, <2>1, <2>2
<1>14. CASE ScanFindsNothing
  <2>1. Spend("faults") /\ AttemptFails /\ task # "idle"
    BY <1>14 DEF ScanFindsNothing
  <2> QED
    BY <1>4, <1>5, <1>9, <2>1
<1>15. CASE ConnectFails
  <2>1. AttemptFails /\ task # "idle" /\ (Spend("faults") \/ UNCHANGED left)
    BY <1>15 DEF ConnectFails
  <2> QED
    BY <1>3, <1>4, <1>5, <1>9, <2>1
<1>16. Reads[user] \subseteq ReadingNames
  BY ReadingsAssumption DEF IInv, Looped
<1> QED
  BY <1>7, <1>8, <1>10, <1>11, <1>12, <1>13, <1>14, <1>15, <1>16 DEF ConnectStep

-----------------------------------------------------------------------------
(* Start and restart.                                                      *)

LEMMA Clamped ==
  /\ \A v \in PollTimes : Clamp(v, 250, 30000) = v
  /\ \A v \in Gaps : Clamp(v, 0, 80) = v
BY DEF Clamp, PollTimes, Gaps

LEMMA ClosedTyped == Closed \in KbType /\ Len(Closed.buf) <= MaxLen /\ ~Closed.active
BY EmptySeq, MaxLenAssumption DEF Closed, KbType, Layouts

\* What setup() makes of the flash.
LEMMA PowerCutKeeps == IInv /\ PowerCut => IInv'
<1> SUFFICES ASSUME IInv, PowerCut PROVE IInv'
  OBVIOUS
<1>1. /\ nvs \in Fields /\ nvs.pollMs \in PollTimes /\ nvs.gapMs \in Gaps
      /\ left \in [Budgets -> Nat] /\ "cuts" \in Budgets /\ user \in Users
  BY DEF IInv, Looped, Fields, Budgets
<1>2. left' \in [Budgets -> Nat]
  BY <1>1, SpendTyped DEF PowerCut
<1>3. pollMs' = nvs.pollMs /\ gapMs' = nvs.gapMs
  BY <1>1, Clamped DEF PowerCut
<1>4. "zero" \in ReadingNames
  BY ReadingsAssumption
<1>5. Paged'
  <2>1. /\ settings' = nvs /\ unsaved' = <<>> /\ current' = "POWER" /\ confirm' = NoConfirm
        /\ gear' = "none" /\ kb' = Closed /\ pending' = "no" /\ diagOn' = FALSE /\ away' = "no"
        /\ power' = [ok |-> FALSE, fresh |-> FALSE, rd |-> "zero"] /\ sent' = <<>>
    BY DEF PowerCut
  <2>2. <<>> \in Seq(FieldNames) /\ <<>> \in Writes /\ "POWER" \in PageNames
    BY EmptySeq DEF Writes, PageNames
  <2>3. power' \in [ok : BOOLEAN, fresh : BOOLEAN, rd : ReadingNames]
    BY <1>4, <2>1
  <2> QED
    BY <1>1, <1>3, <2>1, <2>2, <2>3, ClosedTyped, NoConfirmTyped DEF Paged
<1>6. Looped'
  <2>1. /\ user' = user /\ missed' = 0 /\ finger' = <<>> /\ pc' = "touch" /\ latch' = NotPressed
        /\ nvs' = nvs /\ task' = "idle" /\ fails' = 0 /\ conn' = "OFFLINE" /\ samples' = 0
        /\ calls' = 0 /\ learned' = NoUnit /\ target' = NoUnit
    BY DEF PowerCut
  <2>2. NoUnit \in Addresses
    BY EmptySeq DEF NoUnit, Addresses
  <2>3. latch' \in Latches'
    BY <2>1 DEF NotPressed, Latches
  <2>4. fails' \in 0 .. FALLBACK_FAILS
    BY <2>1 DEF FALLBACK_FAILS
  <2>5. finger' \in Fingers'
    BY <2>1 DEF Fingers
  <2> QED
    BY <1>1, <1>2, <2>1, <2>2, <2>3, <2>4, <2>5 DEF Looped
<1>7. Fitting' /\ GearHeld' /\ PressCounted'
  BY ClosedTyped DEF PowerCut, Fitting, GearHeld, PressCounted
<1>8. Saving'
  <2>1. settings' = nvs /\ nvs' = nvs /\ "mac" \in FieldNames
    BY DEF PowerCut, FieldNames
  <2> QED
    BY <1>3, <2>1 DEF Saving
<1>9. Attempt'
  BY DEF PowerCut, Attempt
<1>10. ModalShown'
  BY <1>5, DrawsModal DEF PowerCut, Paged
<1> QED
  BY <1>5, <1>6, <1>7, <1>8, <1>9, <1>10 DEF IInv

LEMMA InitEstablishes == Init => IInv
<1> SUFFICES ASSUME Init PROVE IInv
  OBVIOUS
<1> DEFINE stored == FactorySettings(FirstMac[user])
<1>1. user \in Users /\ left = Budget[user] /\ Boot(stored)
  BY DEF Init
<1>2. stored \in Fields /\ stored.pollMs = 3000 /\ stored.gapMs = 40
  <2>1. FirstMac[user] \in Addresses
    BY <1>1, MacsAssumption DEF Addresses
  <2>2. 0 .. 5 \in Masks /\ 0 \in Windows /\ 3000 \in PollTimes /\ 40 \in Gaps
    BY DEF Masks, Windows, PollTimes, Gaps
  <2>3. stored = [mac |-> FirstMac[user], mask |-> 0 .. 5, window |-> 0, pollMs |-> 3000,
                  gapMs |-> 40]
    BY DEF FactorySettings
  <2> DEFINE all == 0 .. 5
  <2> HIDE DEF stored, all
  <2>4. stored = [mac |-> FirstMac[user], mask |-> all, window |-> 0, pollMs |-> 3000,
                  gapMs |-> 40]
    BY <2>3 DEF all
  <2>5. all \in Masks
    BY <2>2 DEF all
  <2> QED
    BY <2>1, <2>2, <2>4, <2>5 DEF Fields
<1> HIDE DEF stored
<1>3. /\ pc = "touch" /\ latch = NotPressed /\ unsaved = <<>> /\ nvs = stored
      /\ settings = stored /\ current = "POWER" /\ confirm = NoConfirm /\ gear = "none"
      /\ kb = Closed /\ pending = "no" /\ samples = 0
      /\ pollMs = Clamp(stored.pollMs, 250, 30000) /\ gapMs = Clamp(stored.gapMs, 0, 80)
      /\ diagOn = FALSE /\ away = "no" /\ task = "idle" /\ target = NoUnit /\ fails = 0
      /\ learned = NoUnit /\ link = NoUnit /\ conn = "OFFLINE"
      /\ power = [ok |-> FALSE, fresh |-> FALSE, rd |-> "zero"] /\ painted = Shows
      /\ finger = <<>> /\ missed = 0 /\ calls = 0 /\ sent = <<>> /\ typed = FALSE
  BY <1>1 DEF Boot
<1>4. pollMs = stored.pollMs /\ gapMs = stored.gapMs /\ pollMs \in PollTimes /\ gapMs \in Gaps
  <2>1. 3000 \in PollTimes /\ 40 \in Gaps
    BY DEF PollTimes, Gaps
  <2> QED
    BY <1>2, <1>3, <2>1, Clamped
<1>5. Paged
  <2>1. unsaved \in Seq(FieldNames) /\ sent \in Writes /\ current \in PageNames
    BY <1>3, EmptySeq DEF Writes, PageNames
  <2>2. power \in [ok : BOOLEAN, fresh : BOOLEAN, rd : ReadingNames]
    BY <1>3, ReadingsAssumption
  <2>3. settings \in Fields
    BY <1>2, <1>3
  <2>4. kb \in KbType /\ Len(kb.buf) <= MaxLen
    BY <1>3, ClosedTyped
  <2>5. confirm \in [out : {"none", "AC", "DC"}, on : BOOLEAN]
    BY <1>3, NoConfirmTyped
  <2>6. gear = "none" /\ pending = "no" /\ diagOn = FALSE /\ away = "no"
    BY <1>3
  <2> QED
    BY <1>4, <2>1, <2>2, <2>3, <2>4, <2>5, <2>6 DEF Paged
<1>6. Looped
  <2>1. NoUnit \in Addresses
    BY EmptySeq DEF NoUnit, Addresses
  <2>2. latch \in Latches
    BY <1>3 DEF NotPressed, Latches
  <2>3. fails \in 0 .. FALLBACK_FAILS
    BY <1>3 DEF FALLBACK_FAILS
  <2>4. finger \in Fingers
    BY <1>3 DEF Fingers
  <2>5. left \in [Budgets -> Nat]
    BY <1>1, UsersAssumption
  <2> QED
    BY <1>1, <1>2, <1>3, <2>1, <2>2, <2>3, <2>4, <2>5 DEF Looped
<1>7. Fitting /\ GearHeld /\ PressCounted
  BY <1>3, ClosedTyped DEF Fitting, GearHeld, PressCounted
<1>8. Saving
  <2>1. "mac" \in FieldNames
    BY DEF FieldNames
  <2> QED
    BY <1>3, <1>4, <2>1 DEF Saving
<1>9. Attempt
  BY <1>3 DEF Attempt
<1>10. ModalShown
  BY <1>3, ClosedTyped DEF ModalShown, Shows, PowerView, valid, released, View, NoConfirm
<1> QED
  BY <1>5, <1>6, <1>7, <1>8, <1>9, <1>10 DEF IInv

LEMMA StepKeeps == IInv /\ [Next]_vars => IInv'
<1> SUFFICES ASSUME IInv, [Next]_vars PROVE IInv'
  OBVIOUS
<1>1. CASE UNCHANGED vars
  <2>1. /\ UNCHANGED <<user, left, finger, missed, pc, latch, unsaved, nvs, settings, current,
                       confirm, gear, kb, pending, painted, samples, pollMs, gapMs, diagOn,
                       away, task, target, fails>>
        /\ UNCHANGED <<learned, link, conn, power, calls, sent, drew, typed>>
    BY <1>1 DEF vars, userVars, loopVars, pageVars, setVars, bleVars, histVars
  <2>2. Paged' /\ Fitting' /\ GearHeld' /\ PressCounted' /\ Saving' /\ Attempt' /\ ModalShown'
    BY <2>1, Unmoved
  <2>3. Looped'
    BY <2>1 DEF IInv, Looped, Fingers, Latches
  <2> QED
    BY <2>2, <2>3 DEF IInv
<1>2. CASE LoopStep
  BY <1>2, ReadTouchKeeps, ReadEmptyKeeps, PutKeeps, TakeLearnedKeeps, TickKeeps DEF LoopStep
<1>3. CASE \/ ConnectStep \/ ScanFindsNothing \/ LinkLost \/ HangUp
           \/ \E name \in Reads[user] : Publish(name)
  BY <1>3, TaskKeeps
<1>4. CASE \/ \E p \in Spots[user] : FingerDown(p)
           \/ \E p \in Slides[user] : FingerSlides(p)
           \/ FingerUp \/ FingerHome
  BY <1>4, FingerKeeps
<1>5. CASE GearDue \/ SpinnerTimesOut \/ WindowEnds \/ Expires
  BY <1>5, ClockKeeps
<1>6. CASE PowerCut
  BY <1>6, PowerCutKeeps
<1> QED
  BY <1>1, <1>2, <1>3, <1>4, <1>5, <1>6 DEF Next

LEMMA Always == Spec => []IInv
BY InitEstablishes, StepKeeps, PTL DEF Spec

-----------------------------------------------------------------------------
(* What follows.                                                           *)

\* Every variable keeps its type, whatever the user touches, the unit answers
\* and the flash held (TypeOK).
THEOREM TypeCorrect == Spec => []TypeOK
<1>1. IInv => TypeOK
  <2> SUFFICES ASSUME IInv PROVE TypeOK
    OBVIOUS
  <2>1. latch.pressed \in BOOLEAN /\ latch.count \in 0 .. 2
    BY LatchesAre DEF IInv, Looped
  <2>2. current \in {"POWER", "POWER_CHART", "BT_SETTINGS", "DIAGNOSTICS", "ENERGY",
                     "ECO_LIMITS"}
    BY DEF IInv, Paged, PageNames
  <2>3. /\ settings \in Fields /\ confirm \in [out : {"none", "AC", "DC"}, on : BOOLEAN]
        /\ gear \in {"none", "pressed", "due"} /\ kb \in KbType /\ Len(kb.buf) <= MaxLen
        /\ pending \in {"no", "waiting", "done"}
        /\ pollMs \in PollTimes /\ gapMs \in Gaps /\ diagOn \in BOOLEAN
        /\ away \in {"no", "counting", "last"}
        /\ power \in [ok : BOOLEAN, fresh : BOOLEAN, rd : ReadingNames] /\ sent \in Writes
    BY DEF IInv, Paged
  <2>4. /\ user \in Users /\ left \in [Budgets -> Nat] /\ missed \in 0 .. 2
        /\ finger \in Spots[user] \cup Slides[user] \cup {<<>>, BackSpot, CancelSpot}
        /\ pc \in {"touch", "learn", "tick"} /\ nvs \in Fields
        /\ task \in {"idle", "direct", "scan", "found"} /\ fails \in 0 .. FALLBACK_FAILS
        /\ conn \in {"OFFLINE", "CONNECTING", "ONLINE"} /\ samples \in Nat /\ calls \in 0 .. 2
    BY DEF IInv, Looped, Fingers
  <2> QED
    BY <2>1, <2>2, <2>3, <2>4 DEF TypeOK
<1> QED
  BY <1>1, Always, PTL

\* However many frames the controller drops, one press is handed on as one tap
\* (OneCallPerPress): the release takes three empty reads, and of a finger that
\* is down two in a row at most are missed.
THEOREM OnePressOneTap == Spec => []OneCallPerPress
<1>1. IInv => OneCallPerPress
  BY DEF IInv, PressCounted, OneCallPerPress, Looped
<1> QED
  BY <1>1, Always, PTL

\* Every way out of Diagnostics stops the sweep (SweepOnlyOnItsPage); the long
\* press of the gear, which starts it, is over before any other tap.
THEOREM SweepStaysHome == Spec => []SweepOnlyOnItsPage
<1>1. IInv => SweepOnlyOnItsPage
  BY DEF IInv, Fitting, SweepOnlyOnItsPage
<1> QED
  BY <1>1, Always, PTL

\* A power cut in the middle of settings_save() loses one field at most, and
\* once it is done the flash, the memory and the BLE task agree
\* (SettingsPersist).
THEOREM SettingsReachFlash == Spec => []SettingsPersist
<1>1. IInv => SettingsPersist
  <2> SUFFICES ASSUME IInv PROVE SettingsPersist
    OBVIOUS
  <2> DEFINE differ == {f \in FieldNames : nvs[f] # settings[f]}
  <2>1. Cardinality(differ) <= 1
    <3>1. PICK f \in FieldNames : \A g \in FieldNames \ {f} : nvs[g] = settings[g]
      BY DEF IInv, Saving
    <3>2. differ \subseteq {f}
      BY <3>1
    <3>3. IsFiniteSet({f}) /\ Cardinality({f}) = 1
      BY FS_Singleton
    <3> HIDE DEF differ
    <3> QED
      BY <3>2, <3>3, FS_Subset
  <2>2. unsaved = <<>> => nvs = settings
    <3> SUFFICES ASSUME unsaved = <<>> PROVE nvs = settings
      OBVIOUS
    <3>1. \A g \in FieldNames : nvs[g] = settings[g]
      BY AllSaved DEF IInv
    <3>2. nvs \in Fields /\ settings \in Fields
      BY DEF IInv, Paged, Looped
    <3> QED
      BY <3>1, <3>2 DEF Fields, FieldNames
  <2>3. pollMs = settings.pollMs /\ gapMs = settings.gapMs
    BY DEF IInv, Saving
  <2> QED
    BY <2>1, <2>2, <2>3 DEF SettingsPersist
<1> QED
  BY <1>1, Always, PTL

\* Once a learned address is taken over, the saved one is that of the unit the
\* panel is linked to, unless the user typed another since the attempt began
\* (SavedMacIsTheLinked).
THEOREM SavedAddressIsLinked == Spec => []SavedMacIsTheLinked
<1>1. IInv => SavedMacIsTheLinked
  BY DEF IInv, Attempt, SavedMacIsTheLinked
<1> QED
  BY <1>1, Always, PTL

\* The controls that write no register, and a move or release of the finger.
LEMMA QuietTaps ==
  /\ GearPressed \/ ResumeTapped \/ CancelTapped \/ BackTapped \/ ReleaseTapped => UNCHANGED sent
  /\ PairingTapped \/ SweepTapped \/ ResetTapped \/ NothingTapped => UNCHANGED sent
  /\ \A i : CardTapped(i) \/ GoTo(i) => UNCHANGED sent
  /\ \A i : LegendTapped(i) \/ WindowTapped(i) => UNCHANGED sent
  /\ \A i : PollTapped(i) \/ GapTapped(i) => UNCHANGED sent
<1>1. GearPressed \/ ResumeTapped \/ CancelTapped \/ BackTapped \/ ReleaseTapped => UNCHANGED sent
  BY DEF GearPressed, ResumeTapped, CancelTapped, BackTapped, ReleaseTapped
<1>2. PairingTapped \/ SweepTapped \/ ResetTapped \/ NothingTapped => UNCHANGED sent
  BY DEF PairingTapped, SweepTapped, ResetTapped, NothingTapped, diagElse
<1>3. ASSUME NEW i PROVE CardTapped(i) \/ GoTo(i) => UNCHANGED sent
  BY DEF CardTapped, GoTo
<1>4. ASSUME NEW i PROVE LegendTapped(i) \/ WindowTapped(i) => UNCHANGED sent
  BY DEF LegendTapped, WindowTapped, chartElse
<1>5. ASSUME NEW i PROVE PollTapped(i) \/ GapTapped(i) => UNCHANGED sent
  BY DEF PollTapped, GapTapped, diagElse
<1> QED
  BY <1>1, <1>2, <1>3, <1>4, <1>5

LEMMA QuietMoves ==
  /\ \A p : ui_handle_drag(p) => UNCHANGED sent
  /\ \A p0, p1 : ui_handle_release(p0, p1) => UNCHANGED sent
<1>1. ASSUME NEW p, ui_handle_drag(p) PROVE UNCHANGED sent
  BY <1>1 DEF ui_handle_drag, moveElse
<1>2. ASSUME NEW p0, NEW p1, ui_handle_release(p0, p1) PROVE UNCHANGED sent
  <2>1. CASE gear # "none" /\ GearReleased
    BY <2>1 DEF GearReleased, moveElse
  <2>2. CASE gear = "none" /\ SwipedBack
    BY <2>2 DEF SwipedBack
  <2>3. CASE gear = "none" /\ UNCHANGED <<moveElse, gear, current, diagOn, painted>>
    BY <2>3 DEF moveElse
  <2> QED
    BY <1>2, <2>1, <2>2, <2>3 DEF ui_handle_release
<1> QED
  BY <1>1, <1>2

\* What a tap with the power page on the glass writes to a control register.
LEMMA TouchSwitches ==
  ASSUME IInv, NEW p, ui_handle_touch(p), sent' # sent, sent' # <<>>,
         sent'[1] \in {2011, 2012}
  PROVE  confirm # NoConfirm /\ sent' = <<CtrlReg(confirm.out), bit(confirm.on, 1)>>
<1>1. CASE kb.active
  BY <1>1 DEF ui_handle_touch, KeyTapped
<1>2. CASE ~kb.active
  <2> DEFINE c == Hit(Tested, p)
  <2>1. current \in PageNames
    BY DEF IInv, Paged
  <2>2. c \in Offered \cup {None}
    BY <2>1, TapAnswers
  <2>3. /\ c[1] = "confirm" => confirm # NoConfirm
        /\ c[1] = "row" => c[2] \in 0 .. 2
    BY <2>1, <2>2, AnswersAt
  <2> DEFINE n == c[2]
             name == c[1]
  <2>4. \/ UNCHANGED sent
        \/ name = "confirm" /\ ConfirmTapped
        \/ ChargeTapped
        \/ name = "row" /\ RowTapped(n)
        \/ LimitTapped(n)
        \/ TimeoutTapped
    <3>1. Answer(c)
      BY <1>2, TouchIs
    <3> QED
      BY <3>1, QuietTaps DEF Answer
  <2> HIDE DEF c, n, name
  <2>5. ~ChargeTapped /\ ~TimeoutTapped
    BY DEF ChargeTapped, TimeoutTapped, writes
  <2>6. ~LimitTapped(n)
    BY DEF LimitTapped, writes
  <2>7. ~(name = "row" /\ RowTapped(n))
    <3> SUFFICES ASSUME name = "row", RowTapped(n) PROVE FALSE
      OBVIOUS
    <3>1. n \in {0, 1, 2}
      BY <2>3 DEF c, n, name
    <3>2. sent'[1] = <<2017, 2014, 2021>>[n + 1]
      BY DEF RowTapped, writes
    <3>3. <<2017, 2014, 2021>>[n + 1] \notin {2011, 2012}
      BY <3>1
    <3> QED
      BY <3>2, <3>3
  <2>8. name = "confirm" /\ ConfirmTapped
    BY <2>4, <2>5, <2>6, <2>7
  <2> QED
    BY <2>3, <2>8 DEF ConfirmTapped, writes, c, name
<1> QED
  BY <1>1, <1>2

\* Whatever the output did since the confirmation was drawn, a register write of
\* a switch is the one the confirmation on the glass asks for
\* (ConfirmWritesWhatItAsks).
THEOREM SwitchedAsAsked == Spec => ConfirmWritesWhatItAsks
<1> DEFINE asks == sent' # sent /\ sent' # <<>> /\ sent'[1] \in {2011, 2012}
                     /\ painted.surface = "POWER"
                   => /\ painted.modal # NoConfirm
                      /\ sent' = <<CtrlReg(painted.modal.out), bit(painted.modal.on, 1)>>
<1>1. IInv /\ [Next]_vars => [asks]_vars
  <2> SUFFICES ASSUME IInv, Next, sent' # sent, sent' # <<>>, sent'[1] \in {2011, 2012},
                      painted.surface = "POWER"
               PROVE  /\ painted.modal # NoConfirm
                      /\ sent' = <<CtrlReg(painted.modal.out), bit(painted.modal.on, 1)>>
    OBVIOUS
  <2>1. ~Tick /\ ~PowerCut
    BY DEF Tick, PowerCut
  <2>2. ~Put /\ ~TakeLearned
    BY DEF Put, TakeLearned, histVars
  <2>3. /\ \A p \in Spots[user] : ~FingerDown(p)
        /\ \A p \in Slides[user] : ~FingerSlides(p)
        /\ ~FingerUp /\ ~FingerHome
    BY DEF FingerDown, FingerSlides, FingerUp, FingerHome, fingerElse
  <2>4. ~GearDue /\ ~SpinnerTimesOut /\ ~WindowEnds /\ ~Expires
    BY DEF GearDue, SpinnerTimesOut, WindowEnds, Expires, clockElse
  <2>5. /\ ~StartConnect /\ ~ConnectSucceeds /\ ~LinkLost /\ ~HangUp
        /\ \A u \in InRange[user] : ~ScanFinds(u)
        /\ \A name \in Reads[user] : ~Publish(name)
    BY DEF StartConnect, ConnectSucceeds, LinkLost, HangUp, ScanFinds, Publish, taskElse
  <2>6. ~ConnectFails /\ ~ScanFindsNothing
    BY DEF ConnectFails, ScanFindsNothing, AttemptFails, taskElse
  <2>7. ~ReadEmpty
    BY QuietMoves DEF ReadEmpty
  <2>8. ReadTouch
    BY <2>1, <2>2, <2>3, <2>4, <2>5, <2>6, <2>7 DEF Next, LoopStep, ConnectStep
  <2>9. \E p : ui_handle_touch(p)
    BY <2>8, QuietMoves DEF ReadTouch
  <2>10. confirm # NoConfirm /\ sent' = <<CtrlReg(confirm.out), bit(confirm.on, 1)>>
    BY <2>9, TouchSwitches
  <2> QED
    BY <2>10 DEF IInv, ModalShown
<1>2. [][asks]_vars <=> ConfirmWritesWhatItAsks
  BY DEF ConfirmWritesWhatItAsks
<1> HIDE DEF asks
<1>3. []IInv /\ [][Next]_vars => [][asks]_vars
  BY <1>1, PTL
<1> QED
  BY <1>2, <1>3, Always, PTL DEF Spec
===============================================================================
