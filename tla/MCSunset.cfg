CONSTANTS
  AbsoluteMax = 2
  Ramp = 6
  Deadlines = {7}
  Minutes = {5}
SPECIFICATION FairSpec
PROPERTIES
  PhaseoutOnlyDims
  HoldKeepsBrightness
  ShortcutNeverExtends
  RunningTimerEnds
CHECK_DEADLOCK FALSE
