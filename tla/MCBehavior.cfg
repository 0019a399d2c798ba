CONSTANTS
  TurnOffDelay = 1
  StateTimeout = 1
  GateWait = 1
  UnusableDelay = 2
  VbusDebounce = 1
  LockoutDelay = 1
SPECIFICATION FairSpec
INVARIANTS
  ChargeOffWhileLit
  NoOutputModeWhileCharging
PROPERTIES
  TransientStatesEnd
  OffReached
  UnusableEnds
