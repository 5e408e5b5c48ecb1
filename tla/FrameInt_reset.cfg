SPECIFICATION SpecReset
CONSTANTS
  Lines = 2
  SpriteNums <- FewNums
  Reports <- NoReports
  MaxResets = 1
INVARIANTS
  EveryFrameRaises
PROPERTIES
  ShadowRecovers
  LockstepRecovers
