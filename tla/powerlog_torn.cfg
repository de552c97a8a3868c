SPECIFICATION Spec
CONSTANTS
  Samples = {s1, s2}
  Zero = Zero
  Garbled = Garbled
  RingN = 3
  PlotW = 4
  Windows <- MCWindows
  MaxRows = 3
  MaxCrashes = 1
  MaxTorn = 1
  MaxPulls = 1
INVARIANT
  SamplesWereCaptured
