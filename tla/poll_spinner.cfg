SPECIFICATION Spec
CONSTANTS
  Values = {0, 1}
  FastReads <- MCFastReads
  SlowReads <- MCSlowReadsLate
  CfgRead = 2
  UiRegs <- MCUiRegs
  SlowEvery = 3
  WriteQLen = 2
  NoWrite = NoWrite
  MaxWrites = 1
  MaxReleases = 0
  MaxFaults = 0
  MaxLosses = 0
  MaxPanel = 0
PROPERTY
  SpinnerCoversWrite
