SPECIFICATION Spec
CONSTANTS
  Samples = {s1, s2}
  Zero = Zero
  Garbled = Garbled
  RingN = 3
  PlotW = 4
  Windows <- MCWindows
  MaxRows = 4
  MaxCrashes = 2
  MaxTorn = 1
  MaxPulls = 1
INVARIANTS
  TypeOK
  ChartFollows
  ChartSpansWindow
PROPERTIES
  RingIsHistory
  SurvivesReboot
SYMMETRY Alike
