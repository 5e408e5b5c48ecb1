SPECIFICATION Spec
CONSTANTS
  Fields <- Rows
  MaxOf <- RowMax
  IntroducedIn <- RowSince
  Versions = {0, 2, 3, 4}
  Running = 3
  Shipped <- Units
  MaxWrites = 2
  MaxBoots = 2
PROPERTIES
  SavedBlockReturns
  MigrationSettles
  BaseFollows
  ResetReseeds
CHECK_DEADLOCK FALSE
