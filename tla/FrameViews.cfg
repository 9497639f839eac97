CONSTANTS
  x = x
  y = y
  red = red
  blue = blue
  MaxRows = 5
  MaxFrames = 2
  PixelRows = 3
  Addresses = {x, y}
  None = none
  Traces <- SomeTraces
  LCD_WIDTH = 2
  LCD_HEIGHT = 2
  Colours = {red, blue}
  Invalid = invalid
  LyValues = {0, 1, 2}
SPECIFICATION SpecViews
INVARIANTS ViewsInvariant SplitsAtChanges AnswerContainsRow InstructionsStayInTheirFrame PictureShowsLastPixels MapsAgree
CHECK_DEADLOCK FALSE
