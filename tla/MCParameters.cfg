CONSTANTS
  Firmwares = {{2, 3}, {1, 2, 3}, {1, 2, 3, 4}}
  Levels = {0, 1}
SPECIFICATION Spec
PROPERTIES SkippedSleepNoticed PowerLossKeepsSave
