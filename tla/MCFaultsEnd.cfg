CONSTANTS
  FullDelay = 1
  Validity = 1
SPECIFICATION FairSpec
PROPERTY FaultsEnd
