SPECIFICATION Spec
CONSTANTS
  Values = {0, 1}
  FastReads <- MCNoReads
  SlowReads <- MCSlowReads
  CfgRead = 1
  UiRegs <- MCCfgOnly
  SlowEvery = 2
  WriteQLen = 2
  NoWrite = NoWrite
  MaxWrites = 3
  MaxReleases = 1
  MaxFaults = 1
  MaxLosses = 1
  MaxPanel = 0
INVARIANTS
  TypeOK
  SleepStateAgrees
  WakeupNotLost
  ReconnectRefreshes
  CfgRereadUntilLands
  CfgAgeBounded
  LastWriteWins
  ReleaseStopsPolls
