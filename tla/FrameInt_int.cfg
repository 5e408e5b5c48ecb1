SPECIFICATION SpecQuiet
CONSTANTS
  Lines = 2
  SpriteNums <- AllNums
  Reports <- SomeReports
  MaxResets = 0
INVARIANTS
  TypeOK
  Lockstep
  PinExact
PROPERTIES
  PublishedBeforePin
  StatusPromises
  FrameInterruptDelivered
