CONSTANTS
  AbsoluteMax = 2
  Ramp = 6
  Deadlines = {7}
  Minutes = {5}
SPECIFICATION FairSpec
PROPERTY TimerEnds
CHECK_DEADLOCK FALSE
