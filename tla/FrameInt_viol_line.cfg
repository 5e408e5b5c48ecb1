SPECIFICATION SpecQuiet
CONSTANTS
  Lines = 2
  SpriteNums <- FewNums
  Reports <- FewReports
  MaxResets = 0
PROPERTIES
  LineFlagRisesOnMatch
