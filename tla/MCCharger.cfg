CONSTANTS
  FullDelay = 1
  Validity = 1
SPECIFICATION FairSpec
INVARIANTS TypeOK NeverBothWays ChargeAsDecided
PROPERTIES FullChargeEnds
