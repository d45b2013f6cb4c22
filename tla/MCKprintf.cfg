CONSTANTS
  HexDigits = 2
  SIZE_MAX = 255
  Items <- MCItems
  Formats <- MCFormats
  Sizes <- MCSizes
  Beyond <- MCBeyond
SPECIFICATION KprintfSpec
INVARIANT LineIsFormatted
PROPERTY LineSent
CHECK_DEADLOCK FALSE
