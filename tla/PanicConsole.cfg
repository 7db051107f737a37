CONSTANTS
  Width = 2
  Height = 4
  ScrollAmount = 1
  AnsiBufSize = 3
  NumberSize = 4
  Chars <- MCChars
  Texts <- MCTexts
  First = 80
  Second = 81
SPECIFICATION StepSpec
INVARIANTS ReportLegible UnsoundInside
PROPERTIES ImplementsConsole
CHECK_DEADLOCK FALSE
