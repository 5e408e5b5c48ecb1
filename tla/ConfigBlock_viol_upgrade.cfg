SPECIFICATION Spec
CONSTANTS
  Fields <- Rows
  MaxOf <- RowMax
  IntroducedIn <- RowSince
  Versions = {0, 2, 3, 4}
  Running = 3
  Shipped <- Units
  MaxWrites = 0
  MaxBoots = 1
INVARIANTS
  UpgradeKeepsTheOthers
CHECK_DEADLOCK FALSE
