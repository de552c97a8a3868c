------------------------------- MODULE MCPanel -------------------------------
(* Instances of the panel: ten users, each with a part of the glass.       *)
EXTENDS Panel

MCUsers == {"switcher", "tapper", "adjuster", "releaser", "browser", "charter", "tuner",
            "pairer", "mover", "finder"}
MCWaits == MCUsers \ {"tapper", "finder"}

Gear == Centre(gearRect)
MCSpots == [
  switcher |-> {Centre(powerCardRect(2)), Centre(powerCardRect(3)),
                Centre(powerChargeBtnRect), Centre(powerConfirmRect("confirm")),
                Centre(powerConfirmRect("cancel"))},
  tapper   |-> {Gear},
  adjuster |-> {Gear, Centre(srowRect(0)), Centre(btStepperRect(3, "plus")),
                Centre(srowRect(4))},
  releaser |-> {Gear, Centre(btUtilityRect(1)), BackSpot},
  browser  |-> {Gear, Centre(btUtilityRect(2)), Centre(btUtilityRect(3))},
  charter  |-> {Gear, Centre(btUtilityRect(0)), Centre(chartLegendRect(5)),
                Centre(chartWindowRect(2))},
  tuner    |-> {Gear, Centre(diagPollStepRect("minus")), Centre(diagGapStepRect("plus")),
                Centre(diagSweepBtnRect), Centre(srowRect(5))},
  pairer   |-> {Gear, Centre(srowRect(5)), Centre(keyCell(10, 2, 0)),
                Centre(functionCell(3)), Centre(functionCell(4))},
  mover    |-> {Gear, Centre(srowRect(5)), Centre(functionCell(4))},
  finder   |-> {Centre(powerCardRect(3))}]

MCSlides == [u \in MCUsers |-> IF u = "tuner" THEN {<<400, 160>>} ELSE {}]

Counts(t, d, p, f, l, c, s) ==
  [taps |-> t, drops |-> d, polls |-> p, faults |-> f, losses |-> l, cuts |-> c, samples |-> s]
MCBudget == [switcher |-> Counts(2, 0, 2, 0, 0, 0, 0),
             tapper   |-> Counts(2, 2, 1, 0, 0, 0, 0),
             adjuster |-> Counts(2, 0, 2, 0, 0, 0, 0),
             releaser |-> Counts(4, 0, 1, 0, 0, 0, 0),
             browser  |-> Counts(2, 0, 2, 0, 0, 0, 0),
             charter  |-> Counts(3, 0, 1, 0, 0, 0, 1),
             tuner    |-> Counts(3, 0, 1, 0, 0, 1, 0),
             pairer   |-> Counts(4, 0, 1, 0, 0, 0, 0),
             mover    |-> Counts(3, 0, 1, 0, 1, 0, 0),
             finder   |-> Counts(1, 0, 1, 1, 1, 1, 0)]

MCFirstMac == [u \in MCUsers |-> CASE u = "finder" -> <<"r", "r">>
                                   [] u = "charter" -> <<>>
                                   [] OTHER -> <<"a", "e">>]
MCInRange == [u \in MCUsers |-> {<<"a", "e">>}]

R(dcIn, acIn, mode, ac, eco, limit, e) ==
  [dcIn |-> dcIn, acIn |-> acIn, dcOut |-> 0, acOut |-> 1, chargeMode |-> mode, acOn |-> ac,
   dcOn |-> FALSE, acEco |-> eco, dcEco |-> FALSE, powerLift |-> FALSE, chargeLimit |-> limit,
   screenTimeout |-> 2, energy |-> e, workMode |-> 0]
MCReadings == [zero |-> [R(0, 0, 0, FALSE, FALSE, 0, 0) EXCEPT !.acOut = 0, !.screenTimeout = 0],
               on   |-> R(0, 1, 0, TRUE, FALSE, 95, 1),
               swap |-> R(1, 0, 0, TRUE, FALSE, 95, 1),
               off  |-> R(1, 0, 0, FALSE, TRUE, 100, 2)]
\* `swap' has the sum of watts of `on', drawn on the other cards.
MCReads == [u \in MCUsers |-> IF u \in {"switcher", "finder"} THEN {"on", "off", "swap"}
                                                             ELSE {"on", "off"}]
=============================================================================
