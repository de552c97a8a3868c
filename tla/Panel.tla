-------------------------------- MODULE Panel --------------------------------
(***************************************************************************)
(* The main loop of the touch panel: touch latch and settings save         *)
(* (src/src/main.cpp, settings.cpp), the pages and their controls          *)
(* (ui.cpp, keyboard.cpp), and what the BLE task does to them: it connects *)
(* to a saved or scanned address, publishes readings and loses the link    *)
(* (bluetti.cpp; its polling is the matter of PollTask).                   *)
(*                                                                         *)
(* A round of loop() is: read the touch controller and handle it, take an  *)
(* address learned by a scan, tick the page.  The BLE task, the clock and  *)
(* the user move between these.  `painted' is what ui_draw() put on the    *)
(* glass last, which is what the user aims at.                             *)
(***************************************************************************)
EXTENDS PanelKeyboard, FiniteSets

CONSTANTS
  Users,     \* kinds of user: which spots of the glass they touch
  Spots,     \* Spots[u]: the points user u touches
  Slides,    \* Slides[u]: the points to which u's finger may move
  Budget,    \* Budget[u]: bounds on u's run, a record of the counts in Budgets
  Waits,     \* users who touch nothing before the first reading, nor before the
             \* panel has seen the finger lifted
  FirstMac,  \* FirstMac[u]: the address in flash when u's run begins
  InRange,   \* InRange[u]: addresses of the units that advertise
  Readings,  \* a reading for each name; "zero" is what `power = {}' holds
  Reads      \* Reads[u]: names of the readings u's unit has

Budgets == {"taps", "drops", "polls", "faults", "losses", "cuts", "samples"}
Points == Int \X Int
ReadingNames == DOMAIN Readings

ASSUME UsersAssumption ==
  /\ Spots \in [Users -> SUBSET Points] /\ Slides \in [Users -> SUBSET Points]
  /\ Budget \in [Users -> [Budgets -> Nat]] /\ Waits \subseteq Users

ASSUME MacsAssumption ==
  \A u \in Users : /\ FirstMac[u] \in Seq(Chars) /\ Len(FirstMac[u]) <= MaxLen
                   /\ \A a \in InRange[u] : a \in Seq(Chars) /\ Len(a) = MaxLen

\* The fields of `power' that the pages show.
PowerState ==
  [dcIn : Nat, acIn : Nat, dcOut : Nat, acOut : Nat, chargeMode : Nat, acOn : BOOLEAN,
   dcOn : BOOLEAN, acEco : BOOLEAN, dcEco : BOOLEAN, powerLift : BOOLEAN,
   chargeLimit : Nat, screenTimeout : Nat, energy : Nat, workMode : Nat]

ASSUME ReadingsAssumption ==
  /\ "zero" \in ReadingNames /\ \A name \in ReadingNames : Readings[name] \in PowerState
  /\ \A u \in Users : Reads[u] \subseteq ReadingNames \ {"zero"}

FALLBACK_FAILS == 3
NoUnit == <<>>

-----------------------------------------------------------------------------
VARIABLES
  \* the user
  user,         \* which kind of user this run has
  left,         \* what is left of the budgets
  finger,       \* where the finger is on the glass, <<>> when it is off
  missed,       \* reads in a row that missed the finger
  \* main.cpp
  pc,           \* next part of loop(): "touch", "learn" or "tick"
  latch,        \* pressed, releaseCount, pressX/Y and lastX/Y
  unsaved,      \* fields settings_save() has still to put
  nvs,          \* the settings in flash
  settings,     \* the settings in memory
  \* ui.cpp
  current, confirm, gear, kb, pending,
  seen,         \* the statics ui_tick() compares with
  painted,      \* what was drawn last
  samples,      \* powerlog_total()
  \* bluetti.cpp
  pollMs, gapMs, diagOn,
  away,         \* the release window: "no", "counting" or its "last" second
  task,         \* connect attempt under way: "idle", "direct", "scan", "found"
  target,       \* the address it tries
  fails,        \* g_connFails
  learned,      \* g_learnedMac while g_haveLearned
  link,         \* unit the secure link is up to
  conn,         \* g_state
  power         \* status, freshness and name of the published reading

\* History variables: read by properties only.
VARIABLES
  calls,        \* ui_handle_touch() calls since the finger came down
  sent,         \* the register write of this round
  drew,         \* something but the comparison of ui_tick() drew since it last ran
  typed         \* an address was typed since the link's connect attempt began

userVars == <<user, left, finger, missed>>
loopVars == <<pc, latch, unsaved, nvs>>
pageVars == <<current, confirm, gear, kb, pending>>
bleVars  == <<task, target, fails, learned, link, conn>>
setVars  == <<pollMs, gapMs, diagOn, away>>
histVars == <<calls, sent, drew, typed>>
vars == <<userVars, loopVars, settings, pageVars, seen, painted, samples, setVars,
          bleVars, power, histVars>>

valid == power.ok /\ power.fresh
Reading == Readings[power.rd]
\* bluetti_release_remaining() > 0, in whole seconds.
released == away = "counting"

-----------------------------------------------------------------------------
(* What the pages show.  A draw function is modelled by the state it reads *)
(* as long as ui_tick() is meant to follow it.                             *)

charging(r) == r.dcIn + r.acIn > r.dcOut + r.acOut

\* The part of a reading a page draws.
Face(page, name) ==
  LET r == Readings[name]
  IN  CASE page = "POWER" -> <<r.dcIn, r.acIn, r.dcOut, r.acOut, r.chargeMode,
                               r.acOn, r.dcOn, charging(r)>>
        [] page = "BT_SETTINGS" -> <<r.acEco, r.dcEco, r.powerLift, r.chargeLimit,
                                     r.screenTimeout, r.acOn>>
        [] page = "ENERGY" -> <<r.energy>>
        [] page = "ECO_LIMITS" -> <<r.chargeLimit, r.workMode>>
        [] OTHER -> <<>>

\* What ui_tick() compares to see that the reading changed.
bit(b, n) == IF b THEN n ELSE 0
TickKey(page, name) ==
  LET r == Readings[name]
  IN  CASE page = "POWER" ->
             <<r.dcIn + r.acIn + r.dcOut + r.acOut + r.chargeMode * 7,
               bit(r.acOn, 1) + bit(r.dcOn, 2) + bit(charging(r), 4)>>
        [] page = "BT_SETTINGS" ->
             <<bit(r.acEco, 1) + bit(r.dcEco, 2) + bit(r.powerLift, 4) +
               r.chargeLimit * 8 + r.screenTimeout * 1024, bit(r.acOn, 1)>>
        [] page = "ENERGY" -> <<r.energy>>
        [] page = "ECO_LIMITS" -> <<r.chargeLimit, r.workMode>>
        [] OTHER -> <<>>

NoConfirm == [out |-> "none", on |-> FALSE]
View(surface) == [surface |-> surface, live |-> FALSE, face |-> <<>>,
                  modal |-> NoConfirm, marks |-> <<>>, text |-> <<>>]

PowerView ==
  IF released THEN View("RELEASED")
  ELSE IF ~valid THEN [View("OFFLINE") EXCEPT !.marks = <<bit(conn = "CONNECTING", 1)>>]
  ELSE [View("POWER") EXCEPT !.live = TRUE, !.face = Face("POWER", power.rd),
                             !.modal = confirm]

KeyboardView ==
  [View("KEYBOARD") EXCEPT !.text = kb.buf,
     !.marks = <<CASE kb.layout = "LOWER" -> 1 [] kb.layout = "UPPER" -> 2
                   [] kb.layout = "SYM" -> 3>>]

ChartView ==
  [View("POWER_CHART") EXCEPT !.marks = <<samples, settings.window>>,
                              !.face = [i \in 1..6 |-> (i - 1) \in settings.mask]]

DiagnosticsView ==
  [View("DIAGNOSTICS") EXCEPT !.marks = <<pollMs, gapMs, bit(diagOn, 1)>>]

\* These pages hold a placeholder until there is live data.
DataView(page) == [View(page) EXCEPT !.live = valid,
                     !.face = IF valid THEN Face(page, power.rd) ELSE <<>>]
BtSettingsView == DataView("BT_SETTINGS")
EnergyView == DataView("ENERGY")
EcoView == DataView("ECO_LIMITS")

\* What ui_draw() draws now.
Shows ==
  IF kb.active THEN KeyboardView
  ELSE CASE current = "POWER"       -> PowerView
         [] current = "POWER_CHART" -> ChartView
         [] current = "BT_SETTINGS" -> BtSettingsView
         [] current = "DIAGNOSTICS" -> DiagnosticsView
         [] current = "ENERGY"      -> EnergyView
         [] current = "ECO_LIMITS"  -> EcoView

Draw == painted' = Shows'

\* Something outside the loop changes what a page depends on.
Outside == drew' = IF drew = "yes" THEN "raced" ELSE drew
Drew == drew' = IF painted' # painted THEN "yes" ELSE drew

-----------------------------------------------------------------------------
(* Start.                                                                  *)

FieldNames == {"mac", "mask", "window", "pollMs", "gapMs"}
FactorySettings(mac) ==
  [mac |-> mac, mask |-> 0..5, window |-> 0, pollMs |-> 3000, gapMs |-> 40]

Clamp(v, lo, hi) == IF v < lo THEN lo ELSE IF v > hi THEN hi ELSE v

\* The tables behind ui_tick() hold values no reading has.
NothingSeen == [rem |-> FALSE, icon |-> "none", POWER |-> <<>>, POWER_CHART |-> <<>>,
                BT_SETTINGS |-> <<>>, ECO_LIMITS |-> <<>>, ENERGY |-> <<>>]

NotPressed == [pressed |-> FALSE, count |-> 0, first |-> <<>>, last |-> <<>>]

\* setup() with what the flash holds.
Boot(stored) ==
  /\ pc = "touch" /\ latch = NotPressed /\ unsaved = <<>>
  /\ nvs = stored /\ settings = stored
  /\ current = "POWER" /\ confirm = NoConfirm /\ gear = "none" /\ kb = Closed
  /\ pending = "no" /\ seen = NothingSeen /\ samples = 0
  /\ pollMs = Clamp(stored.pollMs, 250, 30000)
  /\ gapMs = Clamp(stored.gapMs, 0, 80)
  /\ diagOn = FALSE /\ away = "no"
  /\ task = "idle" /\ target = NoUnit /\ fails = 0 /\ learned = NoUnit
  /\ link = NoUnit /\ conn = "OFFLINE"
  /\ power = [ok |-> FALSE, fresh |-> FALSE, rd |-> "zero"]
  /\ painted = Shows
  /\ finger = <<>> /\ missed = 0
  /\ calls = 0 /\ sent = <<>> /\ drew = "no" /\ typed = FALSE

Init ==
  /\ user \in Users
  /\ left = Budget[user]
  /\ Boot(FactorySettings(FirstMac[user]))

Spend(b) == left[b] > 0 /\ left' = [left EXCEPT ![b] = @ - 1]

\* The power fails at any moment and comes back: only the flash is left.
PowerCut ==
  /\ Spend("cuts") /\ UNCHANGED <<user, nvs>>
  /\ pc' = "touch" /\ latch' = NotPressed /\ unsaved' = <<>> /\ settings' = nvs
  /\ current' = "POWER" /\ confirm' = NoConfirm /\ gear' = "none" /\ kb' = Closed
  /\ pending' = "no" /\ seen' = NothingSeen /\ samples' = 0
  /\ pollMs' = Clamp(nvs.pollMs, 250, 30000) /\ gapMs' = Clamp(nvs.gapMs, 0, 80)
  /\ diagOn' = FALSE /\ away' = "no"
  /\ task' = "idle" /\ target' = NoUnit /\ fails' = 0 /\ learned' = NoUnit
  /\ link' = NoUnit /\ conn' = "OFFLINE"
  /\ power' = [ok |-> FALSE, fresh |-> FALSE, rd |-> "zero"]
  /\ finger' = <<>> /\ missed' = 0
  /\ calls' = 0 /\ sent' = <<>> /\ drew' = "no" /\ typed' = FALSE
  /\ Draw

-----------------------------------------------------------------------------
(* The user's finger.                                                      *)

fingerElse == <<user, loopVars, settings, pageVars, seen, painted, samples, setVars,
                bleVars, power, sent, drew, typed>>

FingerDown(p) ==
  /\ finger = <<>> /\ (user \in Waits => power.rd # "zero" /\ ~latch.pressed)
  /\ Spend("taps") /\ finger' = p /\ missed' = 0 /\ calls' = 0
  /\ UNCHANGED fingerElse

FingerSlides(p) ==
  /\ finger # <<>> /\ finger # p /\ Spend("taps") /\ finger' = p
  /\ UNCHANGED <<fingerElse, missed, calls>>

\* A touch shorter than a round of the loop is never seen and left out.
FingerUp ==
  /\ finger # <<>> /\ latch.pressed /\ finger' = <<>> /\ missed' = 0 /\ calls' = 0
  /\ UNCHANGED <<fingerElse, left>>

Centre(r) == <<r.x + r.w \div 2, r.y + r.h \div 2>>
BackSpot == Centre(backBtnRect)
CancelSpot == Centre(kbCancelRect)
AtHome == current = "POWER" /\ ~kb.active

\* A user who has seen enough waits for the panel to notice the finger is off,
\* and taps Cancel or Back until the power page is there.
FingerHome ==
  /\ left.taps = 0 /\ finger = <<>> /\ ~latch.pressed /\ ~AtHome
  /\ finger' = IF kb.active THEN CancelSpot ELSE BackSpot
  /\ missed' = 0 /\ calls' = 0
  /\ UNCHANGED <<fingerElse, left>>

-----------------------------------------------------------------------------
(* Controls.  Each action is what ui_handle_touch() does when the finger   *)
(* came down on the control; `settings_save()' queues the puts.            *)

settings_save == unsaved' = <<"mac", "mask", "window", "pollMs", "gapMs">>
writes(reg, val) == sent' = <<reg, val>> /\ pending' = "waiting"

\* The keyboard has the screen while it is open.  OK stores the field.
KeyTapped(p) ==
  LET after == keyboard_handle_touch(kb, p)
  IN  /\ IF after.active THEN kb' = after ELSE kb' = Closed
      /\ IF KeyAt(kb.layout, p) = "OK"
         THEN /\ settings' = [settings EXCEPT !.mac = kb.buf] /\ settings_save
              /\ power' = [power EXCEPT !.ok = FALSE] /\ current' = "BT_SETTINGS"
              /\ typed' = TRUE
         ELSE UNCHANGED <<settings, unsaved, power, current, typed>>
      /\ UNCHANGED <<confirm, gear, pending, setVars, sent>>
      /\ IF after = kb THEN UNCHANGED painted ELSE Draw

\* The press is latched; drag and release decide what it was.
GearPressed ==
  /\ gear' = "pressed"
  /\ UNCHANGED <<current, confirm, kb, pending, settings, unsaved, setVars, power,
                 sent, typed, painted>>

pageElse == <<gear, kb, power, typed>>

ResumeTapped ==
  /\ away' = "no"
  /\ UNCHANGED <<pageElse, current, confirm, pending, settings, unsaved, pollMs, gapMs,
                 diagOn, sent>>
  /\ Draw

onlyUi == <<pageElse, settings, unsaved, setVars>>

\* REG_CTRL_AC and REG_CTRL_DC.
CtrlReg(out) == IF out = "AC" THEN 2011 ELSE 2012

\* The faulty form: the output is toggled from its present state.
ConfirmToggles ==
  /\ writes(CtrlReg(confirm.out), bit(~(IF confirm.out = "AC" THEN Reading.acOn
                                                              ELSE Reading.dcOn), 1))
  /\ confirm' = NoConfirm /\ UNCHANGED <<onlyUi, current>> /\ Draw

ConfirmTapped ==
  /\ writes(CtrlReg(confirm.out), bit(confirm.on, 1)) /\ confirm' = NoConfirm
  /\ UNCHANGED <<onlyUi, current>> /\ Draw

CancelTapped ==
  /\ confirm' = NoConfirm /\ UNCHANGED <<onlyUi, current, pending, sent>> /\ Draw

\* Cycles Standard, Silent, Turbo; Custom goes to Standard.
NextMode(m) == CASE m = 0 -> 1 [] m = 1 -> 2 [] OTHER -> 0
ChargeTapped ==
  /\ writes(2020, NextMode(Reading.chargeMode))
  /\ UNCHANGED <<onlyUi, current, confirm>> /\ Draw

\* Card 2 is DC OUT, card 3 AC OUT.
CardTapped(card) ==
  /\ confirm' = IF card = 2 THEN [out |-> "DC", on |-> ~Reading.dcOn]
                            ELSE [out |-> "AC", on |-> ~Reading.acOn]
  /\ UNCHANGED <<onlyUi, current, pending, sent>> /\ Draw

GoTo(page) ==
  /\ current' = page /\ UNCHANGED <<onlyUi, confirm, pending, sent>> /\ Draw

\* The way back: the sweep stops on the way out of Diagnostics.
BackTapped ==
  /\ current' = IF current \in {"ENERGY", "ECO_LIMITS"} THEN "BT_SETTINGS" ELSE "POWER"
  /\ diagOn' = IF current = "DIAGNOSTICS" THEN FALSE ELSE diagOn
  /\ UNCHANGED <<pageElse, confirm, pending, settings, unsaved, pollMs, gapMs, away,
                 sent>>
  /\ Draw

ReleaseTapped ==
  /\ away' = "counting"
  /\ UNCHANGED <<pageElse, current, confirm, pending, settings, unsaved, pollMs, gapMs,
                 diagOn, sent>>
  /\ Draw

chartElse == <<pageElse, current, confirm, pending, setVars, sent>>

\* The faulty form: settings_save() is forgotten.
LegendTappedUnsaved(i) ==
  /\ settings' = [settings EXCEPT !.mask = IF i \in @ THEN @ \ {i} ELSE @ \cup {i}]
  /\ UNCHANGED unsaved /\ UNCHANGED chartElse /\ Draw

LegendTapped(i) ==
  /\ settings' = [settings EXCEPT !.mask = IF i \in @ THEN @ \ {i} ELSE @ \cup {i}]
  /\ settings_save /\ UNCHANGED chartElse /\ Draw

WindowTapped(i) ==
  /\ settings' = [settings EXCEPT !.window = i]
  /\ settings_save /\ UNCHANGED chartElse /\ Draw

\* AC ECO, DC ECO and power lifting.
RowTapped(i) ==
  /\ writes(<<2017, 2014, 2021>>[i + 1],
            bit(~<<Reading.acEco, Reading.dcEco, Reading.powerLift>>[i + 1], 1))
  /\ UNCHANGED <<onlyUi, current, confirm>> /\ Draw

\* Steps of 5 %, 50 to 100; the percentage is the high byte.
LimitTapped(dir) ==
  LET nc == Clamp(Reading.chargeLimit + 5 * dir, 50, 100)
  IN  /\ UNCHANGED <<onlyUi, current, confirm>>
      /\ IF nc # Reading.chargeLimit
         THEN writes(2083, nc * 256) /\ Draw
         ELSE UNCHANGED <<pending, sent, painted>>

TimeoutTapped ==
  /\ LET e == Reading.screenTimeout
     IN  writes(2067, IF e >= 5 \/ e < 2 THEN 2 ELSE e + 1)
  /\ UNCHANGED <<onlyUi, current, confirm>> /\ Draw

PairingTapped ==
  /\ kb' = keyboard_open(settings.mac)
  /\ UNCHANGED <<gear, power, typed, settings, unsaved, setVars, current, confirm,
                 pending, sent>>
  /\ Draw

diagElse == <<pageElse, current, confirm, pending, diagOn, away, sent>>

\* The nearest step at or above the present interval, and one up or down.
Steps == <<250, 500, 750, 1000, 1500, 2000, 3000, 5000, 10000>>
StepFrom(cur, dir) ==
  LET i == CHOOSE i \in 1..9 : /\ i = 9 \/ Steps[i] >= cur
                               /\ \A j \in 1..(i - 1) : Steps[j] < cur
  IN  Steps[Clamp(i + dir, 1, 9)]

PollTapped(dir) ==
  /\ pollMs' = Clamp(StepFrom(pollMs, dir), 250, 30000)
  /\ settings' = [settings EXCEPT !.pollMs = StepFrom(pollMs, dir)]
  /\ settings_save /\ UNCHANGED <<diagElse, gapMs>> /\ Draw

GapTapped(dir) ==
  /\ gapMs' = Clamp(gapMs + 5 * dir, 0, 80)
  /\ settings' = [settings EXCEPT !.gapMs = Clamp(gapMs + 5 * dir, 0, 80)]
  /\ settings_save /\ UNCHANGED <<diagElse, pollMs>> /\ Draw

SweepTapped ==
  /\ diagOn' = ~diagOn
  /\ UNCHANGED <<pageElse, current, confirm, pending, settings, unsaved, pollMs, gapMs,
                 away, sent>>
  /\ Draw

\* Anywhere else on the page: counters and baseline are reset (the list and
\* the baseline are those of DiagSweep).
ResetTapped == UNCHANGED <<diagElse, settings, unsaved, pollMs, gapMs>> /\ Draw

\* A tap that hits nothing changes nothing.
NothingTapped ==
  UNCHANGED <<pageVars, settings, unsaved, setVars, power, sent, typed, painted>>

-----------------------------------------------------------------------------
(* The handlers of a touch, a move and a release.                          *)

Tested ==
  IF current = "POWER" THEN PowerTested(valid, released, confirm # NoConfirm)
                       ELSE SubpageControls(current, valid)

ui_handle_touch(p) ==
  IF kb.active THEN KeyTapped(p) ELSE
  \E c \in {Hit(Tested, p)} :
  LET tapped(name) == c[1] = name
  IN  \/ tapped("gear") /\ GearPressed
      \/ tapped("resume") /\ ResumeTapped
      \/ tapped("confirm") /\ ConfirmTapped
      \/ tapped("cancel") /\ CancelTapped
      \/ tapped("charge") /\ ChargeTapped
      \/ tapped("card") /\ CardTapped(c[2])
      \/ tapped("back") /\ BackTapped
      \/ tapped("chart") /\ GoTo("POWER_CHART")
      \/ tapped("energy") /\ GoTo("ENERGY")
      \/ tapped("eco") /\ GoTo("ECO_LIMITS")
      \/ tapped("release") /\ ReleaseTapped
      \/ tapped("legend") /\ LegendTapped(c[2])
      \/ tapped("window") /\ WindowTapped(c[2])
      \/ tapped("row") /\ RowTapped(c[2])
      \/ tapped("limit") /\ LimitTapped(c[2])
      \/ tapped("timeout") /\ TimeoutTapped
      \/ tapped("pairing") /\ PairingTapped
      \/ tapped("poll") /\ PollTapped(c[2])
      \/ tapped("gap") /\ GapTapped(c[2])
      \/ tapped("sweep") /\ SweepTapped
      \/ tapped("reset") /\ ResetTapped
      \/ tapped("none") /\ NothingTapped

moveElse == <<confirm, kb, pending, settings, unsaved, pollMs, gapMs, away, power,
              sent, typed>>

\* Only the gear's long press follows the finger.
ui_handle_drag(p) ==
  /\ UNCHANGED moveElse
  /\ IF gear # "none" /\ inRect(p, gearRect) /\ gear = "due"
     THEN gear' = "none" /\ diagOn' = TRUE /\ current' = "DIAGNOSTICS" /\ Draw
     ELSE /\ gear' = IF inRect(p, gearRect) THEN gear ELSE "none"
          /\ UNCHANGED <<diagOn, current, painted>>

Abs(v) == IF v < 0 THEN -v ELSE v

GearReleased ==
  /\ gear' = "none" /\ current' = "BT_SETTINGS"
  /\ UNCHANGED <<moveElse, diagOn>> /\ Draw

\* The faulty form: the sweep goes on.
SwipedBackSweeping ==
  /\ confirm' = NoConfirm /\ current' = "POWER"
  /\ UNCHANGED <<gear, kb, pending, settings, unsaved, setVars, power, sent, typed>>
  /\ Draw

\* The sweep stops on the way out of Diagnostics.
SwipedBack ==
  /\ confirm' = NoConfirm /\ current' = "POWER"
  /\ diagOn' = IF current = "DIAGNOSTICS" THEN FALSE ELSE diagOn
  /\ UNCHANGED <<gear, kb, pending, settings, unsaved, pollMs, gapMs, away, power,
                 sent, typed>>
  /\ Draw

\* A short press of the gear opens the settings; a swipe to the right leaves a
\* page for the power page.
ui_handle_release(p0, p1) ==
  LET dx == p1[1] - p0[1]
      dy == p1[2] - p0[2]
      swipe == current # "POWER" /\ dx >= 60 /\ dx >= Abs(dy)
  IN  \/ gear # "none" /\ GearReleased
      \/ gear = "none" /\ swipe /\ SwipedBack
      \/ gear = "none" /\ ~swipe /\ UNCHANGED <<moveElse, gear, current, diagOn, painted>>

-----------------------------------------------------------------------------
(* loop().                                                                 *)

loopElse == <<user, nvs, seen, samples, bleVars>>

\* touch_get() sees the finger: the first time it is a touch, then a drag.
ReadTouch ==
  /\ pc = "touch" /\ unsaved = <<>> /\ finger # <<>>
  /\ pc' = "learn" /\ missed' = 0
  /\ UNCHANGED <<loopElse, left, finger>>
  /\ LET p == mapTouch(parseAxsTouch(Report(finger, IF latch.pressed THEN 2 ELSE 0, 1)))
     IN  IF latch.pressed
         THEN /\ latch' = [latch EXCEPT !.count = 0, !.last = p]
              /\ ui_handle_drag(p) /\ UNCHANGED calls
         ELSE /\ latch' = [pressed |-> TRUE, count |-> 0, first |-> p, last |-> p]
              /\ calls' = IF calls < 2 THEN calls + 1 ELSE 2
              /\ ui_handle_touch(p)
  /\ Drew

\* The faulty form: two empty reads end a press.
LiftedEarly(count) == count >= 2

\* A few consecutive empty reads end a press.
Lifted(count) == count >= 3

\* touch_get() sees nothing: no finger, or the controller dropped a frame, two
\* in a row at most.
ReadEmpty ==
  /\ pc = "touch" /\ unsaved = <<>> /\ pc' = "learn"
  /\ UNCHANGED <<loopElse, finger, calls>>
  /\ IF finger = <<>> THEN UNCHANGED <<left, missed>>
                      ELSE missed < 2 /\ Spend("drops") /\ missed' = missed + 1
  /\ IF latch.pressed /\ Lifted(latch.count + 1)
     THEN latch' = NotPressed /\ ui_handle_release(latch.first, latch.last)
     ELSE /\ latch' = IF latch.pressed THEN [latch EXCEPT !.count = @ + 1] ELSE latch
          /\ UNCHANGED <<pageVars, settings, unsaved, setVars, power, sent, typed, painted>>
  /\ Drew

\* One put of settings_save().
Put ==
  /\ unsaved # <<>> /\ unsaved' = Tail(unsaved)
  /\ nvs' = [nvs EXCEPT ![Head(unsaved)] = settings[Head(unsaved)]]
  /\ UNCHANGED <<userVars, pc, latch, settings, pageVars, seen, painted, samples, setVars,
                 bleVars, power, histVars>>

\* An address learned by a scan becomes the saved one.
TakeLearned ==
  /\ pc = "learn" /\ unsaved = <<>> /\ learned # NoUnit /\ pc' = "tick"
  /\ settings' = [settings EXCEPT !.mac = learned] /\ learned' = NoUnit /\ settings_save
  /\ UNCHANGED <<userVars, latch, nvs, pageVars, seen, painted, samples, setVars,
                 task, target, fails, link, conn, power, histVars>>

-----------------------------------------------------------------------------
(* ui_tick().                                                              *)

\* A write under way owns the screen until a reading or the timeout ends it.
TickPending ==
  /\ pending # "no" /\ UNCHANGED seen
  /\ IF pending = "done" THEN pending' = "no" /\ Draw ELSE UNCHANGED <<pending, painted>>
  /\ Drew

\* The page repaints when `repaint' holds, and remembers what it compared.
Repaint(repaint, remembered) ==
  /\ pending = "no" /\ UNCHANGED pending
  /\ seen' = remembered
  /\ IF repaint THEN Draw ELSE UNCHANGED painted
  /\ drew' = IF ~repaint /\ drew = "raced" THEN "raced" ELSE "no"

\* The keyboard and an open confirmation are left alone.
TickModal ==
  /\ kb.active \/ (current = "POWER" /\ confirm # NoConfirm)
  /\ pending = "no" /\ UNCHANGED <<pending, seen, painted, drew>>

OnPower == ~kb.active /\ current = "POWER" /\ confirm = NoConfirm

\* The countdown repaints when its seconds change.
TickReleased ==
  /\ OnPower /\ released
  /\ \E second \in BOOLEAN : Repaint(~seen.rem \/ second, [seen EXCEPT !.rem = TRUE])

\* Offline: the link's state, or the flashing icon while it connects.
TickOffline ==
  /\ OnPower /\ ~released /\ ~valid
  /\ \E flash \in {conn = "CONNECTING", FALSE} :
       Repaint(seen.rem \/ conn # seen.icon \/ flash,
               [seen EXCEPT !.rem = FALSE, !.icon = conn])

\* The faulty form: what is compared has been stored already.
TickLiveStored ==
  /\ OnPower /\ ~released /\ valid
  /\ \E pulse \in {charging(Reading), FALSE} :
       Repaint(seen.rem \/ pulse,
               [seen EXCEPT !.rem = FALSE, !["POWER"] = TickKey("POWER", power.rd)])

\* Live data, or the pulsing text while it charges.
TickLive ==
  /\ OnPower /\ ~released /\ valid
  /\ \E pulse \in {charging(Reading), FALSE} :
       Repaint(seen.rem \/ TickKey("POWER", power.rd) # seen["POWER"] \/ pulse,
               [seen EXCEPT !.rem = FALSE, !["POWER"] = TickKey("POWER", power.rd)])

\* What the page compares, `pv' included.
PageKey == IF current = "POWER_CHART" THEN <<samples'>>
           ELSE Append(TickKey(current, power.rd), bit(valid, 1))
TickPage ==
  /\ ~kb.active /\ current \in {"POWER_CHART", "BT_SETTINGS", "ECO_LIMITS", "ENERGY"}
  /\ Repaint(PageKey # seen[current], [seen EXCEPT ![current] = PageKey])

\* Diagnostics repaints with every poll and sweep.
TickDiagnostics ==
  /\ ~kb.active /\ current = "DIAGNOSTICS"
  /\ \E poll \in BOOLEAN : Repaint(poll, seen)

\* The rest of a round: a sample for the chart, then the page.
Tick ==
  /\ unsaved = <<>>
  /\ pc = "tick" \/ (pc = "learn" /\ learned = NoUnit)
  /\ pc' = "touch" /\ sent' = <<>>
  /\ \/ UNCHANGED <<samples, left>>
     \/ power.ok /\ Spend("samples") /\ samples' = samples + 1
  /\ UNCHANGED <<user, finger, missed, latch, unsaved, nvs, settings, current, confirm,
                 gear, kb, setVars, bleVars, power, calls, typed>>
  /\ \/ TickPending \/ TickModal \/ TickReleased \/ TickOffline \/ TickLive
     \/ TickPage \/ TickDiagnostics

LoopStep == ReadTouch \/ ReadEmpty \/ Put \/ TakeLearned \/ Tick

-----------------------------------------------------------------------------
(* The clock.                                                              *)

clockElse == <<userVars, loopVars, settings, current, confirm, kb, seen, painted, samples,
               pollMs, gapMs, diagOn, bleVars, calls, sent, typed>>

\* GEAR_HOLD_MS have passed.
GearDue ==
  /\ gear = "pressed" /\ gear' = "due"
  /\ UNCHANGED <<clockElse, pending, away, power, drew>>

\* Six seconds have passed since the tap.
SpinnerTimesOut ==
  /\ pending = "waiting" /\ pending' = "done"
  /\ UNCHANGED <<clockElse, gear, away, power, drew>>

\* The page is back a second before poll() connects again.
WindowEnds ==
  /\ away # "no" /\ away' = (IF released THEN "last" ELSE "no") /\ Outside
  /\ UNCHANGED <<clockElse, gear, pending, power>>

\* The last reading is a minute old.
Expires ==
  /\ valid /\ power' = [power EXCEPT !.fresh = FALSE] /\ Outside
  /\ UNCHANGED <<clockElse, gear, pending, away>>

-----------------------------------------------------------------------------
(* The BLE task.                                                           *)

taskElse == <<user, finger, missed, loopVars, settings, current, confirm, gear, kb, seen,
              painted, samples, setVars, calls, sent>>

\* The faulty form: a failing address is tried for ever.
resolveAddrStubborn == Len(settings.mac) >= MaxLen

\* A complete saved address is used, unless it failed too often.
resolveAddr == Len(settings.mac) >= MaxLen /\ fails < FALLBACK_FAILS

\* An attempt begins RETRY_MS after the last one, rounds of the loop away.
StartConnect ==
  /\ task = "idle" /\ link = NoUnit /\ away = "no" /\ learned = NoUnit
  /\ conn' = "CONNECTING"
  /\ IF resolveAddr THEN task' = "direct" /\ target' = settings.mac
                    ELSE task' = "scan" /\ target' = NoUnit
  /\ Outside /\ typed' = FALSE
  /\ UNCHANGED <<taskElse, left, fails, learned, link, power, pending>>

\* The faulty form: only a panel without an address learns one.
ScanFindsOnce(u) ==
  /\ task = "scan" /\ task' = "found" /\ target' = u
  /\ learned' = IF settings.mac = NoUnit THEN u ELSE learned
  /\ UNCHANGED <<taskElse, left, fails, link, conn, power, pending, drew, typed>>

\* The scan finds a unit by its name, and offers its address for saving.
ScanFinds(u) ==
  /\ task = "scan" /\ task' = "found" /\ target' = u
  /\ learned' = IF u # settings.mac THEN u ELSE learned
  /\ UNCHANGED <<taskElse, left, fails, link, conn, power, pending, drew, typed>>

AttemptFails ==
  /\ task' = "idle" /\ target' = NoUnit /\ conn' = "OFFLINE"
  /\ fails' = IF fails < FALLBACK_FAILS THEN fails + 1 ELSE fails
  /\ Outside
  /\ UNCHANGED <<taskElse, learned, link, power, pending, typed>>

ScanFindsNothing == task = "scan" /\ Spend("faults") /\ AttemptFails

ConnectFails ==
  /\ task \in {"direct", "found"}
  /\ IF target \in InRange[user] THEN Spend("faults") ELSE UNCHANGED left
  /\ AttemptFails

ConnectSucceeds ==
  /\ task \in {"direct", "found"} /\ target \in InRange[user]
  /\ link' = target /\ fails' = 0 /\ task' = "idle" /\ target' = NoUnit
  /\ UNCHANGED <<taskElse, left, learned, conn, power, pending, drew, typed>>

LinkLost ==
  /\ link # NoUnit /\ Spend("losses") /\ link' = NoUnit
  /\ UNCHANGED <<taskElse, task, target, fails, learned, conn, power, pending, drew, typed>>

\* The release window: poll() hangs up.
HangUp ==
  /\ away # "no" /\ task = "idle" /\ (link # NoUnit \/ conn # "OFFLINE")
  /\ link' = NoUnit /\ conn' = "OFFLINE" /\ Outside
  /\ UNCHANGED <<taskElse, left, task, target, fails, learned, power, pending, typed>>

\* poll() publishes.
Publish(name) ==
  /\ link # NoUnit /\ task = "idle" /\ Spend("polls")
  /\ power' = [ok |-> TRUE, fresh |-> TRUE, rd |-> name] /\ conn' = "ONLINE"
  /\ pending' = IF pending = "waiting" THEN "done" ELSE pending
  /\ Outside
  /\ UNCHANGED <<taskElse, task, target, fails, learned, link, typed>>

ConnectStep == \/ StartConnect \/ ConnectSucceeds \/ ConnectFails
               \/ \E u \in InRange[user] : ScanFinds(u)

Next ==
  \/ LoopStep \/ ConnectStep
  \/ \E p \in Spots[user] : FingerDown(p)
  \/ \E p \in Slides[user] : FingerSlides(p)
  \/ FingerUp \/ FingerHome \/ PowerCut
  \/ GearDue \/ SpinnerTimesOut \/ WindowEnds \/ Expires
  \/ ScanFindsNothing \/ LinkLost \/ HangUp
  \/ \E name \in Reads[user] : Publish(name)

Spec == Init /\ [][Next]_vars

\* The loop and the task run, the window ends, and a user who has seen enough
\* lifts the finger and goes home.
FairSpec ==
  /\ Spec
  /\ WF_vars(LoopStep) /\ WF_vars(ConnectStep) /\ WF_vars(WindowEnds)
  /\ WF_vars(FingerUp) /\ WF_vars(FingerHome)
-----------------------------------------------------------------------------
(* Properties.                                                             *)

Writes == {<<>>} \cup ({2011, 2012, 2014, 2017, 2020, 2021, 2067, 2083} \X Nat)
Addresses == Seq(Chars)
Masks == SUBSET (0..5)
Windows == 0..2
PollTimes == 250..30000
Gaps == 0..80
Fields == [mac : Addresses, mask : Masks, window : Windows, pollMs : PollTimes, gapMs : Gaps]

\* Every variable has its type.
TypeOK ==
  /\ user \in Users /\ left \in [Budgets -> Nat] /\ missed \in 0..2
  /\ finger \in Spots[user] \cup Slides[user] \cup {<<>>, BackSpot, CancelSpot}
  /\ pc \in {"touch", "learn", "tick"}
  /\ latch.pressed \in BOOLEAN /\ latch.count \in 0..2
  /\ nvs \in Fields /\ settings \in Fields
  /\ current \in {"POWER", "POWER_CHART", "BT_SETTINGS", "DIAGNOSTICS", "ENERGY",
                  "ECO_LIMITS"}
  /\ confirm \in [out : {"none", "AC", "DC"}, on : BOOLEAN]
  /\ gear \in {"none", "pressed", "due"} /\ kb \in KbType /\ Len(kb.buf) <= MaxLen
  /\ pending \in {"no", "waiting", "done"}
  /\ pollMs \in PollTimes /\ gapMs \in Gaps /\ diagOn \in BOOLEAN
  /\ away \in {"no", "counting", "last"} /\ task \in {"idle", "direct", "scan", "found"}
  /\ fails \in 0..FALLBACK_FAILS /\ conn \in {"OFFLINE", "CONNECTING", "ONLINE"}
  /\ power \in [ok : BOOLEAN, fresh : BOOLEAN, rd : ReadingNames]
  /\ samples \in Nat /\ calls \in 0..2 /\ sent \in Writes

\* The loop ends a round: P holds once ui_tick() returns.
EachRound(P) == pc # "touch" /\ pc' = "touch" => P

\* The controls the user sees.
Drawn ==
  CASE painted.surface \in {"KEYBOARD", "OFFLINE"} -> <<>>
    [] painted.surface = "RELEASED" -> PowerDrawn(FALSE, TRUE, FALSE)
    [] painted.surface = "POWER" -> PowerDrawn(TRUE, FALSE, painted.modal # NoConfirm)
    [] OTHER -> SubpageControls(painted.surface, painted.live)

\* Known blind spots of ui_tick(); `before' are the statics it compares with.
\* The power page compares nothing that says the offline screen is up, so the
\* reading that was drawn before an outage does not take it down; only a change
\* of the link's state takes live data down that has expired; and two readings
\* with the same flags and the same sum of watts look alike.
BackWithTheSame(before) ==
  /\ painted.surface = "OFFLINE" /\ current = "POWER" /\ valid
  /\ before["POWER"] = TickKey("POWER", power.rd)
StillUp(before) ==
  painted.surface = "POWER" /\ current = "POWER" /\ ~valid /\ conn = before.icon
SameSum ==
  \E name \in ReadingNames :
    /\ PowerView.live /\ painted = [PowerView EXCEPT !.face = Face("POWER", name)]
    /\ TickKey("POWER", name) = TickKey("POWER", power.rd)

\* A confirmation or a pending write hides behind the offline or the countdown
\* screen.  The gear works on the countdown screen without being there.  And
\* what changes back between a draw by a handler and the comparison after it
\* goes unnoticed.
Behind ==
  /\ painted.surface \in {"OFFLINE", "RELEASED"}
  /\ confirm # NoConfirm \/ pending # "no"
UnseenGear == painted.surface = "RELEASED" /\ Hit(Tested, Centre(gearRect)) = <<"gear", 0>>

\* A tap does what the glass shows at that spot, and nothing where it shows
\* nothing, outside of the known blind spots: the handlers test the data again
\* (power_valid(), the open confirmation, the release window), and ui_tick()
\* must have repainted whenever the outcome of such a test changed.
TapsFit(before) ==
  ~BackWithTheSame(before) /\ ~Behind /\ drew # "raced" =>
    /\ kb.active <=> painted.surface = "KEYBOARD"
    /\ ~kb.active => \A p \in Spots[user] :
         \E c \in {Hit(Tested, p)} :
           \/ c = None
           \/ \E i \in DOMAIN Drawn : Drawn[i].ctl = c /\ inRect(p, Drawn[i].at)
           \/ c = <<"gear", 0>> /\ UnseenGear

TapHitsWhatIsDrawn == [][\A before \in {seen} : EachRound(TapsFit(before)')]_vars

\* ui_tick() repaints whenever what a page draws has changed: at the end of a
\* round the glass shows the present state, unless a write is pending or a
\* confirmation is held still.  The known exceptions are those above, by what
\* ui_tick() remembered of its earlier rounds and not by what this one stored.
Faithful(before) ==
  \/ painted = Shows
  \/ pending # "no" \/ drew = "raced" \/ (current = "POWER" /\ confirm # NoConfirm)
  \/ BackWithTheSame(before) \/ StillUp(before)
  \/ current = "POWER" /\ ~kb.active /\ SameSum

PaintFollows == [][\A before \in {seen} : EachRound(Faithful(before)')]_vars

\* One press is one tap, whatever frames the controller drops: ui_handle_touch()
\* is not called again until the finger was off.
OneCallPerPress == calls <= 1

\* The register sweep, which slows the polling down, runs only while its page
\* is open: every way out of Diagnostics stops it.
SweepOnlyOnItsPage == diagOn => current = "DIAGNOSTICS"

\* The flash follows the settings: a power cut at any moment loses the last
\* change at most, and once settings_save() is done it holds what is in memory,
\* and what the BLE task was told.
SettingsPersist ==
  /\ Cardinality({f \in FieldNames : nvs[f] # settings[f]}) <= 1
  /\ unsaved = <<>> =>
       nvs = settings /\ pollMs = settings.pollMs /\ gapMs = settings.gapMs

\* An output is switched the way the confirmation on the glass asks, though the
\* output may have changed since it was opened.
ConfirmWritesWhatItAsks ==
  [][ sent' # sent /\ sent' # <<>> /\ sent'[1] \in {2011, 2012}
        /\ painted.surface = "POWER"
      => /\ painted.modal # NoConfirm
         /\ sent' = <<CtrlReg(painted.modal.out), bit(painted.modal.on, 1)>> ]_vars

\* Once the address a scan learned is taken over, the saved address is that of
\* the unit the panel is connected to, unless the user typed another meanwhile.
SavedMacIsTheLinked ==
  link # NoUnit /\ learned = NoUnit /\ ~typed => settings.mac = link

\* Whatever address is saved or typed, the panel finds its way back to a unit
\* in range.
AlwaysReconnects == []<>(link # NoUnit)

\* Back and Cancel lead to the power page from everywhere.
HomeReached == []<>(left.taps > 0 \/ AtHome)
=============================================================================
