CONSTANTS
  GateSwitchDelay = 2
  BlipMax = 3
SPECIFICATION SeqFairSpec
PROPERTIES BreakBeforeMake SwitchCompletes
