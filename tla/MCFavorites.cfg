SPECIFICATION Spec
CONSTANTS
  ModeCount <- MCModeCount
  Accessible = 2
  RampGroups = {0}
  Ramps = {0, 1}
  Bluetooth = 2
  MaxFavorites = 2
INVARIANTS TypeOK Remembered ShownIsFavorite
PROPERTY HiddenOnRequest
