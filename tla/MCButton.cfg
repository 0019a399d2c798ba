CONSTANTS
  Debounce = 1
  HoldsRelease = 2
  ClicksRelease = 3
  HoldMin = 6
  MaxPresses = 3
SPECIFICATION FairSpec
PROPERTIES  ReleaseEnds
