CONSTANTS
  Users <- MCUsers
  Spots <- MCSpots
  Slides <- MCSlides
  Waits <- MCWaits
  Budget <- MCBudget
  FirstMac <- MCFirstMac
  InRange <- MCInRange
  Readings <- MCReadings
  Reads <- MCReads
  MaxLen = 2
SPECIFICATION FairSpec
INVARIANTS TypeOK OneCallPerPress SweepOnlyOnItsPage SettingsPersist SavedMacIsTheLinked
PROPERTIES TapHitsWhatIsDrawn PaintFollows ConfirmWritesWhatItAsks AlwaysReconnects HomeReached
CHECK_DEADLOCK FALSE
