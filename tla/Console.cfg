CONSTANTS
  Width = 2
  Height = 2
  ScrollAmount = 1
  AnsiBufSize = 4
  NumberSize = 3
  Chars <- MCChars
  PixelWidth = 17
  PixelHeight = 5
  Stride = 19
  Words = 97
  FontWidth = 8
  FontHeight = 2
  Font <- MCFont
  Before <- MCBefore
SPECIFICATION MCSpec
INVARIANTS TypeOK AnsiBufFits CursorOnScreen ShowsScreen KeepsInside
PROPERTIES ImplementsTerminal
