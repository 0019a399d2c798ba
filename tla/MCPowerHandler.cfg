CONSTANTS
  GateSwitchDelay = 0
  BlipMax = 1
  ClearMinDelay = 1
  ClearFailureDelay = 2
  ClearTimeout = 4
  StartupTimeout = 3
  StartupPowerWait = 0
  StartupDetect = 1
  StartupCharge = 2
  MaxStall = 1
SPECIFICATION Spec
INVARIANTS
  TypeOK
  SafeStateIsolates
  PowerGateFollowsMode
  NoChargeIntoOutput
  DischargeIsolated
  ClearBounded
PROPERTIES
  RailsClearedFirst
  ImplementsPowerMachine
