CONSTANTS
  GateSwitchDelay = 0
  BlipMax = 1
  ClearMinDelay = 1
  ClearFailureDelay = 2
  ClearTimeout = 3
  StartupTimeout = 3
  StartupPowerWait = 0
  StartupDetect = 1
  StartupCharge = 2
  MaxStall = 1
SPECIFICATION Spec
PROPERTY AcceptedModeKept
