SPECIFICATION FairSpec
CONSTANTS
  Values = {0, 1}
  FastReads <- MCFastReads
  SlowReads <- MCSlowReads
  CfgRead = 1
  UiRegs <- MCCfgOnly
  SlowEvery = 2
  WriteQLen = 1
  NoWrite = NoWrite
  MaxWrites = 1
  MaxReleases = 1
  MaxFaults = 1
  MaxLosses = 0
  MaxPanel = 1
PROPERTIES
  WritesTaken
  DisplayConverges
