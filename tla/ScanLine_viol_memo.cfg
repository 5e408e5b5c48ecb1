SPECIFICATION LineSpec
CONSTANTS
  Unit = 4
  LineWords = 2
  ScanLimit = 2
  PageRows = 4
  TextCols = 10
  WideCols = 10
  ShiftWraps = FALSE
  Pattern <- MCPattern
  NameTable <- MCNames
  AttrTable <- MCAttributes
  ColourTable <- MCColours
  BitmapRow <- MCRows
  Scenes <- PageScenes
INVARIANT TilesByPosition
CHECK_DEADLOCK FALSE
