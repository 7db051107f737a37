CONSTANTS
  Timelines <- NoonTimelines
  Modes <- Hour12
  Junk <- JunkBytes
SPECIFICATION Spec
INVARIANTS HourIs24h
