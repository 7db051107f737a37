CONSTANTS
  Timelines <- DayTimelines
  Modes <- RegisterB
  Junk <- JunkBytes
SPECIFICATION Spec
INVARIANTS TypeOK Snapshot
PROPERTIES StampIsShown ReadReturns
