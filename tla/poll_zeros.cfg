SPECIFICATION Spec
CONSTANTS
  Values = {0, 1}
  FastReads <- MCFastReads
  SlowReads <- MCSlowReadsLate
  CfgRead = 2
  UiRegs <- MCUiRegs
  SlowEvery = 3
  WriteQLen = 2
  NoWrite = NoWrite
  MaxWrites = 0
  MaxReleases = 0
  MaxFaults = 0
  MaxLosses = 1
  MaxPanel = 0
PROPERTY
  OutputStateIsRead
