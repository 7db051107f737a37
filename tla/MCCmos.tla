------------------------------- MODULE MCCmos -------------------------------
(* Instances of Cmos for TLC: what the chip goes through while log asks. *)
EXTENDS Cmos

At(yr, mo, dy, h, m, s) ==
  [year |-> yr, month |-> mo, day |-> dy, hour |-> h, minute |-> m, second |-> s]

\* A carry through every register, the two-digit year starting again, then
\* one through the time of day only
MidnightTimeline ==
  <<At(2099, 12, 31, 23, 59, 59), At(2100, 1, 1, 0, 0, 0), At(2100, 1, 1, 0, 0, 1)>>

\* Afternoon hours, for the 12-hour settings
AfternoonTimeline ==
  <<At(2021, 9, 30, 13, 59, 59), At(2021, 9, 30, 14, 0, 0), At(2021, 9, 30, 14, 0, 1)>>

\* Midnight where the hour is one of 24; a 12-hour dial is not read right there
DayTimelines == [m \in RegisterB |-> IF m.h24 THEN MidnightTimeline ELSE AfternoonTimeline]

NoonTimeline == <<At(2021, 7, 1, 11, 59, 59), At(2021, 7, 1, 12, 0, 0)>>

Hour12 == {m \in RegisterB : ~m.h24}
NoonTimelines == [m \in Hour12 |-> NoonTimeline]

\* A register read while it changes may be all zeroes, or look like a time
JunkBytes == {0, 89}
=============================================================================
