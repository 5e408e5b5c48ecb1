SPECIFICATION Spec
CONSTANTS
  N = 2
  Colours <- TwoColours
  Default = "c0"
  WideTier = FALSE
  MaxEvents = 3
INVARIANTS
  StaleIsAnnounced
  HostColoursOnTheLine
  LayoutFollows
PROPERTIES
  ColoursSettle
  GuardRestored
