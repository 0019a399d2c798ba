CONSTANTS
  Present = {"TEMP_CRITICAL", "USB_PORT_SHORT", "OTG_FAILED"}
  Turn = 5000
  Temperatures = {"warm", "critical"}
  Batteries = {"unknown"}
SPECIFICATION FairSpec
INVARIANTS
  BlocksWhileRaised
  FreesOnceCleared
PROPERTIES
  HotStops
  ShortEnds
