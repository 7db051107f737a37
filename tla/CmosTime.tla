------------------------------ MODULE CmosTime ------------------------------
(***************************************************************************)
(* The clock of the CMOS chip: what its registers hold for a time, and     *)
(* what CMOS::Read makes of them.                                          *)
(***************************************************************************)
EXTENDS Integers

(* The registers CMOS::Read reads, in its order.  century_register is 0:   *)
(* the one read of "century" goes to register 0, and nothing uses it.      *)
Registers == <<"second", "minute", "hour", "day", "month", "year">>
Fields    == {Registers[i] : i \in DOMAIN Registers}

Byte         == 0 .. 255
CURRENT_YEAR == 2021

\* Register B, bits 2 and 1: binary or BCD, 24-hour or 12-hour with a PM bit.
RegisterB == [binary : BOOLEAN, h24 : BOOLEAN]

\* The times a two-digit year can stand for.
Clocks ==
  [second : 0 .. 59, minute : 0 .. 59, hour : 0 .. 23, day : 1 .. 31,
   month : 1 .. 12, year : CURRENT_YEAR .. CURRENT_YEAR + 99]

-----------------------------------------------------------------------------
(* The chip: how it shows a time *)

Digits(mode, n) == IF mode.binary THEN n ELSE (n \div 10) * 16 + (n % 10)

\* On a 12-hour dial 12 stands for 0, and the PM bit for the afternoon.
Dial(h) == IF h % 12 = 0 THEN 12 ELSE h % 12

ShowHour(mode, h) ==
  IF mode.h24 THEN Digits(mode, h)
  ELSE Digits(mode, Dial(h)) + (IF h >= 12 THEN 128 ELSE 0)

Show(mode, c) ==
  [f \in Fields |->
     CASE f = "hour" -> ShowHour(mode, c.hour)
       [] f = "year" -> Digits(mode, c.year % 100)
       [] OTHER      -> Digits(mode, c[f])]

-----------------------------------------------------------------------------
(* CMOS::Read, after the registers have settled *)

FromBcd(b) == (b % 16) + (b \div 16) * 10

\* Mutant of FromBcdHour: the PM bit taken for a digit
FromBcdHourWithPm(b) == FromBcd(b)

\* (hour & 0x0F) + (hour & 0x70) / 16 * 10, and the PM bit kept
FromBcdHour(b) == (b % 16) + ((b \div 16) % 8) * 10 + (b \div 128) * 128

To24(mode, h) == IF ~mode.h24 /\ h >= 128 THEN ((h % 128) + 12) % 24 ELSE h

FullYear(y) ==
  LET full == y + (CURRENT_YEAR \div 100) * 100
  IN  IF full < CURRENT_YEAR THEN full + 100 ELSE full

Converted(mode, r) ==
  LET value(f) == IF mode.binary THEN r[f]
                  ELSE IF f = "hour" THEN FromBcdHour(r[f]) ELSE FromBcd(r[f])
  IN  [f \in Fields |->
         CASE f = "hour" -> To24(mode, value(f))
           [] f = "year" -> FullYear(value(f))
           [] OTHER      -> value(f)]

-----------------------------------------------------------------------------
(* platform_timer_now packs the time of day, log unpacks it *)

\* Mutant of Packed: the hour shifted by 15
PackedShort(c) == c.hour * 32768 + c.minute * 256 + c.second

Packed(c) == c.hour * 65536 + c.minute * 256 + c.second

Hours(t)   == (t \div 65536) % 256
Minutes(t) == (t \div 256) % 256
Seconds(t) == t % 256

TimeOfDay(c) == <<c.hour, c.minute, c.second>>
=============================================================================
