SPECIFICATION Spec
CONSTANTS
  ByteBits <- Bits
  Scenes <- AllScenes
CHECK_DEADLOCK FALSE
INVARIANTS
  SlicedEqualsWhole
PROPERTIES
  ArithmeticExact
  JumpsFollowTheCompare
  CallsReturn
  PixPaintsWhatIsShown
  DmaWalks
  PartKeepsItsMemory
