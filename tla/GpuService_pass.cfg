SPECIFICATION Spec

CONSTANTS
  Programs <- MCPrograms
  Keys = 1

INVARIANTS
  StartsInTheWrite
  FreshWorkspace
PROPERTIES
  BusySettles
  FlashAnswered
  FiresOnce
  KeysDispatched
  PausedContinues
