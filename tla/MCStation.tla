------------------------------ MODULE MCStation ------------------------------
(* A unit with five registers that are read, and a ring of two changes.    *)
EXTENDS Station, TLC

\* Energy counters, the output current, which is beyond a word when the output
\* power is 2, and a control.
MCRanges == << <<152, 155>>, <<1432, 1433>>, <<2011, 2012>> >>
MCWindows == {MCRanges[k] : k \in DOMAIN MCRanges}
MCSetValues == (AC_OUT_W :> {1, 2}) @@ (CTRL_AC :> {0, 1})
MCEnergyValues == {-1, 15}
MCWrites == {<<CTRL_AC, 0>>, <<CTRL_AC, 1>>, <<2020, 1>>}

Budget(s, e, d, w, t, on, re, f) ==
  [sets |-> s, energies |-> e, delays |-> d, writes |-> w, ticks |-> t,
   switches |-> on, resets |-> re, fails |-> f]
MCBudgets == {Budget(1, 0, 0, 2, 0, 1, 0, 0), \* writes and the window
              Budget(0, 0, 1, 2, 0, 1, 0, 0), \* another delay
              Budget(3, 0, 0, 0, 0, 1, 0, 0), \* more changes than the ring holds
              Budget(2, 0, 0, 0, 0, 1, 1, 0), \* a reset
              Budget(0, 0, 0, 1, 0, 2, 0, 1), \* a read fails
              Budget(1, 0, 0, 0, 0, 1, 1, 1), \* both
              Budget(1, 1, 0, 0, 1, 1, 0, 0)} \* energy

\* The simulated unit reads what the panel sweeps.
READABLE ==
  { <<0, 20>>, <<100, 200>>, <<700, 760>>, <<1100, 1180>>, <<1200, 1340>>,
    <<1400, 1470>>, <<1500, 1560>>, <<1600, 1610>>, <<2000, 2090>>, <<2200, 2280>>,
    <<2400, 2450>>, <<2500, 2540>>, <<3000, 3030>>, <<3500, 3550>>, <<3600, 3660>> }
ASSUME SameWindows == READABLE = {DIAG_RANGES[k] : k \in DOMAIN DIAG_RANGES}
=============================================================================
