----------------------------- MODULE Cmos_proofs ----------------------------
(***************************************************************************)
(* Theorems about CmosTime and Cmos, for every line of times the chip can  *)
(* go through, every setting of register B and anything a register may     *)
(* read as during an update.                                               *)
(***************************************************************************)
EXTENDS Cmos, TLAPS

\* What CMOS::Read can convert: everything on a 24-hour dial, and every hour
\* but the two that a 12-hour dial shows as 12.
Readable(m, c) == m.h24 \/ c.hour % 12 # 0

-----------------------------------------------------------------------------
\* The six registers, without their order.
LEMMA FieldNames ==
  /\ Fields = {"second", "minute", "hour", "day", "month", "year"}
  /\ DOMAIN Registers = 1 .. 6 /\ Len(Registers) = 6
  /\ \A i \in 1 .. 6 : Registers[i] \in Fields
  /\ \A f \in Fields : \E i \in 1 .. 6 : Registers[i] = f
BY DEF Fields, Registers

\* Reading BCD gives back the number the chip shows.
LEMMA BcdRoundTrip ==
  ASSUME NEW n \in 0 .. 99
  PROVE  /\ (n \div 10) * 16 + (n % 10) \in 0 .. 153
         /\ FromBcd((n \div 10) * 16 + (n % 10)) = n
<1> DEFINE b == (n \div 10) * 16 + (n % 10)
<1>1. n \div 10 \in 0 .. 9 /\ n % 10 \in 0 .. 9 /\ n = (n \div 10) * 10 + (n % 10)
  OBVIOUS
<1>2. b \in 0 .. 153 /\ b % 16 = n % 10 /\ b \div 16 = n \div 10
  BY <1>1
<1> QED
  BY <1>1, <1>2 DEF FromBcd

\* The hour survives: BCD or binary, with or without the PM bit.
LEMMA HourRoundTrip ==
  ASSUME NEW m \in RegisterB, NEW h \in 0 .. 23, m.h24 \/ h % 12 # 0
  PROVE  LET b == ShowHour(m, h)
         IN  /\ b \in Nat
             /\ To24(m, IF m.binary THEN b ELSE FromBcdHour(b)) = h
<1>1. m.binary \in BOOLEAN /\ m.h24 \in BOOLEAN
  BY DEF RegisterB
<1>2. CASE m.h24 /\ m.binary
  BY <1>2 DEF ShowHour, Digits, To24
<1>3. CASE m.h24 /\ ~m.binary
  BY <1>3 DEF ShowHour, Digits, To24, FromBcdHour
<1>4. CASE ~m.h24 /\ m.binary
  BY <1>4 DEF ShowHour, Digits, Dial, To24
<1>5. CASE ~m.h24 /\ ~m.binary
  BY <1>5 DEF ShowHour, Digits, Dial, To24, FromBcdHour
<1> QED
  BY <1>1, <1>2, <1>3, <1>4, <1>5

\* The two digits of the year find their century.
LEMMA YearRoundTrip ==
  ASSUME NEW y \in CURRENT_YEAR .. CURRENT_YEAR + 99
  PROVE  y % 100 \in 0 .. 99 /\ FullYear(y % 100) = y
BY DEF CURRENT_YEAR, FullYear

\* A clock is a function on the fields.
LEMMA ClockFields ==
  ASSUME NEW c \in Clocks
  PROVE  /\ c = [f \in Fields |-> c[f]]
         /\ c.hour \in 0 .. 23 /\ c.year \in CURRENT_YEAR .. CURRENT_YEAR + 99
         /\ \A f \in Fields \ {"hour", "year"} : c[f] \in 0 .. 99
BY FieldNames DEF Clocks

\* What the chip shows is a number in each register.
LEMMA ShowType ==
  ASSUME NEW m \in RegisterB, NEW c \in Clocks
  PROVE  Show(m, c) \in [Fields -> Nat]
<1>1. ShowHour(m, c.hour) \in Nat
  BY ClockFields DEF ShowHour, Digits, Dial
<1>2. \A n \in 0 .. 99 : Digits(m, n) \in Nat
  BY DEF Digits
<1>3. c.year % 100 \in 0 .. 99
  BY ClockFields, YearRoundTrip
<1> QED
  BY <1>1, <1>2, <1>3, ClockFields DEF Show

\* Converting numbers gives numbers.
LEMMA ConvertedType ==
  ASSUME NEW m \in RegisterB, NEW r \in [Fields -> Nat]
  PROVE  Converted(m, r) \in [Fields -> Nat]
<1>1. ASSUME NEW b \in Nat
      PROVE  /\ FromBcd(b) \in Nat /\ FromBcdHour(b) \in Nat
             /\ To24(m, b) \in Nat /\ FullYear(b) \in Nat
  <2>1. FromBcd(b) \in Nat
    BY DEF FromBcd
  <2>2. FromBcdHour(b) \in Nat
    BY DEF FromBcdHour
  <2>3. To24(m, b) \in Nat
    BY DEF To24
  <2>4. FullYear(b) \in Nat
    BY DEF FullYear, CURRENT_YEAR
  <2> QED
    BY <2>1, <2>2, <2>3, <2>4
<1> QED
  BY <1>1 DEF Converted

\* The conversions undo what the chip did to show a time.
LEMMA RoundTrip ==
  ASSUME NEW m \in RegisterB, NEW c \in Clocks, Readable(m, c)
  PROVE  Converted(m, Show(m, c)) = c
<1> DEFINE r == Show(m, c)
           value(f) == IF m.binary THEN r[f]
                       ELSE IF f = "hour" THEN FromBcdHour(r[f]) ELSE FromBcd(r[f])
<1>1. ASSUME NEW n \in 0 .. 99
      PROVE  (IF m.binary THEN Digits(m, n) ELSE FromBcd(Digits(m, n))) = n
  BY BcdRoundTrip DEF Digits
<1>2. To24(m, value("hour")) = c.hour
  <2>1. r["hour"] = ShowHour(m, c.hour)
    BY FieldNames DEF Show
  <2> QED
    BY <2>1, HourRoundTrip, ClockFields DEF Readable
<1>3. FullYear(value("year")) = c.year
  <2>1. r["year"] = Digits(m, c.year % 100)
    BY FieldNames DEF Show
  <2> QED
    BY <1>1, <2>1, YearRoundTrip, ClockFields
<1>4. ASSUME NEW f \in Fields \ {"hour", "year"}
      PROVE  value(f) = c[f]
  <2>1. r[f] = Digits(m, c[f])
    BY FieldNames DEF Show
  <2> QED
    BY <1>1, <2>1, ClockFields
<1>5. Converted(m, r) = [f \in Fields |-> c[f]]
  BY <1>2, <1>3, <1>4 DEF Converted
<1> QED
  BY <1>5, ClockFields

\* Three bytes put into a word are the bytes taken out of it.
LEMMA UnpackBytes ==
  ASSUME NEW h \in Byte, NEW m \in Byte, NEW s \in Byte
  PROVE  LET t == h * 65536 + m * 256 + s
         IN  Hours(t) = h /\ Minutes(t) = m /\ Seconds(t) = s
<1> DEFINE t == h * 65536 + m * 256 + s
<1>1. t \div 65536 = h /\ h % 256 = h
  BY DEF Byte
<1>2. t \div 256 = h * 256 + m
  BY DEF Byte
<1>3. (h * 256 + m) % 256 = m
  BY DEF Byte
<1>4. t % 256 = s
  BY DEF Byte
<1> HIDE DEF t
<1>5. Hours(t) = h
  BY <1>1 DEF Hours
<1>6. Minutes(t) = m
  BY <1>2, <1>3 DEF Minutes
<1>7. Seconds(t) = s
  BY <1>4 DEF Seconds
<1> QED
  BY <1>5, <1>6, <1>7 DEF t

\* log gets back from the timer's word what platform_timer_now packed.
LEMMA PackRoundTrip ==
  ASSUME NEW c \in Clocks
  PROVE  <<Hours(Packed(c)), Minutes(Packed(c)), Seconds(Packed(c))>> = TimeOfDay(c)
<1>1. c.hour \in Byte /\ c.minute \in Byte /\ c.second \in Byte
  BY DEF Clocks, Byte
<1> QED
  BY <1>1, UnpackBytes DEF Packed, TimeOfDay

-----------------------------------------------------------------------------
(***************************************************************************)
(* Snapshot is not inductive: that two passes agree says nothing of what   *)
(* they agree on.  IInv adds what a pass has seen as long as no update     *)
(* overtook it, and that of two passes in a row at most one is overtaken:  *)
(* when they agree, one of them saw a single time, and so did the other.   *)
(***************************************************************************)
USE DEF Timeline

Shown(i) == Show(mode, Timeline[i])

\* r is what the chip showed at some moment of the call
Sighted(r) == \E i \in from .. now : r = Shown(i)

IInv ==
  /\ TypeOK
  /\ ~(overtaken /\ overtook)
  /\ pc = "read" /\ ~overtaken =>
       /\ phase # "flux"
       /\ \A i \in 1 .. next - 1 : cur[Registers[i]] = Shown(now)[Registers[i]]
  /\ pc = "compare" /\ ~overtaken => Sighted(cur)
  /\ pc = "poll" /\ ~first /\ ~overtaken => Sighted(last)
  /\ pc \in {"read", "compare"} /\ ~first /\ ~overtook => Sighted(last)
  /\ pc = "convert" => Sighted(cur)
  /\ Snapshot

AllReadable == \A m \in Modes : \A i \in DOMAIN Timelines[m] : Readable(m, Timelines[m][i])

\* What the chip shows at a moment is in the type of the registers.
LEMMA ShownType ==
  ASSUME TypeOK, NEW i \in DOMAIN Timeline
  PROVE  /\ Timeline[i] \in Clocks /\ mode \in RegisterB
         /\ Shown(i) \in [Fields -> Nat]
<1>1. Timeline[i] \in Clocks /\ mode \in RegisterB
  BY TimelineAssumption, ModesAssumption DEF TypeOK
<1> QED
  BY <1>1, ShowType DEF Shown

\* The initial states satisfy the inductive invariant.
LEMMA InitIInv == Init => IInv
<1> SUFFICES ASSUME Init PROVE IInv
  OBVIOUS
<1>1. 1 \in DOMAIN Timeline
  BY TimelineAssumption DEF Init
<1>2. TypeOK
  <2>1. cur \in [Fields -> Nat] /\ last \in [Fields -> Nat]
    BY DEF Init, Unread
  <2>2. stamp \in Byte \X Byte \X Byte
    BY DEF Init, Byte
  <2>3. next \in 1 .. Len(Registers) + 1 /\ from \in 1 .. now
    BY FieldNames DEF Init
  <2>4. first \in BOOLEAN /\ overtaken \in BOOLEAN /\ overtook \in BOOLEAN
    BY DEF Init
  <2>5. pc # "read" /\ phase # "flux"
    BY DEF Init
  <2> QED
    BY <1>1, <2>1, <2>2, <2>3, <2>4, <2>5 DEF Init, TypeOK
<1> QED
  BY <1>2 DEF Init, IInv, Snapshot

\* A sighting stays one while the call goes on and the chip's time advances.
LEMMA StillSighted ==
  ASSUME TypeOK, UNCHANGED <<mode, from>>, now' \in {now, now + 1}, NEW r
  PROVE  Sighted(r) => Sighted(r)'
<1> SUFFICES ASSUME Sighted(r) PROVE Sighted(r)'
  OBVIOUS
<1>1. PICK i \in from .. now : r = Shown(i)
  BY DEF Sighted
<1>2. now \in Nat /\ i \in from' .. now'
  BY TimelineAssumption, ModesAssumption DEF TypeOK
<1> QED
  BY <1>1, <1>2 DEF Sighted, Shown

\* Every step preserves it.
LEMMA NextIInv ==
  ASSUME AllReadable
  PROVE  IInv /\ [Next]_vars => IInv'
<1> SUFFICES ASSUME IInv, [Next]_vars PROVE IInv'
  OBVIOUS
<1> USE DEF IInv
<1>t. /\ now \in Nat /\ DOMAIN Timeline = 1 .. Len(Timeline) /\ Len(Timeline) \in Nat
      /\ now \in 1 .. Len(Timeline) /\ from \in 1 .. now
  BY TimelineAssumption, ModesAssumption DEF TypeOK
<1>1. CASE SetUip
  <2>1. TypeOK'
    BY <1>1 DEF SetUip, TypeOK, reader
  <2>2. Snapshot'
    BY <1>1 DEF SetUip, Snapshot, reader
  <2> QED
    BY <1>1, <2>1, <2>2 DEF SetUip, reader, Sighted, Shown
<1>2. CASE EndUpdate
  <2>1. TypeOK'
    BY <1>2 DEF EndUpdate, TypeOK, reader
  <2>2. Snapshot'
    BY <1>2 DEF EndUpdate, Snapshot, reader
  <2> QED
    BY <1>2, <2>1, <2>2 DEF EndUpdate, reader, Sighted, Shown
<1>3. CASE BeginUpdate
  <2>1. TypeOK'
    <3>1. overtaken' \in BOOLEAN
      BY <1>3 DEF BeginUpdate
    <3>2. now' = now + 1 /\ phase' = "flux" /\ UNCHANGED <<mode, reader, overtook>>
      BY <1>3 DEF BeginUpdate
    <3>3. now < Len(Timeline)
      BY <1>3 DEF BeginUpdate, TypeOK
    <3>4. now' \in DOMAIN Timeline /\ from' \in 1 .. now' /\ now' > 1
      BY <1>t, <3>2, <3>3 DEF reader
    <3> QED
      BY <3>1, <3>2, <3>4 DEF TypeOK, reader
  <2>2. Snapshot'
    BY <1>3, <1>t DEF BeginUpdate, Snapshot, reader
  <2>3. \A r : Sighted(r) => Sighted(r)'
    BY <1>3, StillSighted DEF BeginUpdate, reader
  <2>4. UNCHANGED <<pc, next, cur, last, first, overtook>>
    BY <1>3 DEF BeginUpdate, reader
  <2>5. CASE pc = "read"
    <3>1. overtaken' /\ ~overtook
      BY <1>3, <2>5 DEF BeginUpdate
    <3> QED
      BY <2>1, <2>2, <2>3, <2>4, <2>5, <3>1
  <2>6. CASE pc # "read"
    <3>1. overtaken' <=> overtaken
      BY <1>3, <2>6 DEF BeginUpdate
    <3> QED
      BY <2>1, <2>2, <2>3, <2>4, <2>6, <3>1
  <2> QED
    BY <2>5, <2>6
<1>4. CASE Read
  <2>1. TypeOK'
    <3>1. first' \in BOOLEAN /\ overtaken' \in BOOLEAN /\ overtook' \in BOOLEAN
      BY <1>4 DEF Read
    <3>2. from' \in 1 .. now'
      BY <1>4, <1>t DEF Read, chip
    <3>3. pc' = "poll" /\ UNCHANGED <<now, phase, mode, next, cur, last, stamp>>
      BY <1>4 DEF Read, chip
    <3> QED
      BY <3>1, <3>2, <3>3 DEF TypeOK
  <2> QED
    BY <1>4, <2>1 DEF Read, Snapshot
<1>5. CASE UipClear
  <2>1. /\ pc = "poll" /\ phase = "stable" /\ pc' = "read" /\ next' = 1
        /\ overtook' = overtaken /\ overtaken' = FALSE
        /\ UNCHANGED <<now, phase, mode, cur, last, first, stamp, from>>
    BY <1>5 DEF UipClear, chip
  <2>2. TypeOK'
    <3>1. overtaken' \in BOOLEAN /\ overtook' \in BOOLEAN
      BY <2>1 DEF TypeOK
    <3>2. next' \in 1 .. Len(Registers) + 1 /\ next' <= Len(Registers)
      BY <2>1, FieldNames
    <3> QED
      BY <2>1, <3>1, <3>2 DEF TypeOK
  <2>3. Sighted(last) => Sighted(last)'
    BY <2>1 DEF Sighted, Shown
  <2> QED
    BY <2>1, <2>2, <2>3 DEF Snapshot
<1>6. CASE get_RTC_register
  <2> DEFINE f == Registers[next]
  <2>1. PICK v \in Reading(f) : cur' = [cur EXCEPT ![f] = v]
    BY <1>6 DEF get_RTC_register
  <2>2. /\ pc = "read" /\ next' = next + 1
        /\ pc' = IF next = 6 THEN "compare" ELSE "read"
        /\ UNCHANGED <<now, phase, mode, last, first, stamp, from, overtaken, overtook>>
    BY <1>6, FieldNames DEF get_RTC_register, chip
  <2>3. next \in 1 .. 6 /\ f \in Fields /\ cur \in [Fields -> Nat]
    <3>1. next \in 1 .. Len(Registers) + 1 /\ next <= Len(Registers)
      BY <2>2 DEF TypeOK
    <3>2. cur \in [Fields -> Nat]
      BY DEF TypeOK
    <3> QED
      BY <3>1, <3>2, FieldNames
  <2>4. v \in Nat
    <3>1. phase = "flux" => now - 1 \in DOMAIN Timeline
      BY <1>t DEF TypeOK
    <3>2. ASSUME NEW i \in DOMAIN Timeline
          PROVE  Show(mode, Timeline[i])[f] \in Nat
      BY <2>3, ShownType DEF Shown
    <3>3. \/ v = Show(mode, Timeline[now])[f]
          \/ phase = "flux" /\ v = Show(mode, Timeline[now - 1])[f]
          \/ v \in Junk
      BY <2>1 DEF Reading
    <3>4. Junk \subseteq Nat
      BY JunkAssumption DEF Byte
    <3> QED
      BY <1>t, <3>1, <3>2, <3>3, <3>4
  <2>5. TypeOK'
    <3>1. cur' \in [Fields -> Nat]
      BY <2>1, <2>3, <2>4
    <3>2. next' \in 1 .. Len(Registers) + 1 /\ (pc' = "read" => next' <= Len(Registers))
      BY <2>2, <2>3, FieldNames
    <3> QED
      BY <2>2, <3>1, <3>2 DEF TypeOK
  <2>6. Sighted(last) => Sighted(last)'
    BY <2>2 DEF Sighted, Shown
  <2>7. ASSUME ~overtaken
        PROVE  /\ phase' # "flux"
               /\ \A i \in 1 .. next' - 1 : cur'[Registers[i]] = Shown(now)[Registers[i]]
    <3>1. v = Shown(now)[f]
      BY <2>2, <2>7 DEF Reading, Shown
    <3>2. \A i \in 1 .. next - 1 : cur[Registers[i]] = Shown(now)[Registers[i]]
      BY <2>2, <2>7
    <3>3. \A i \in 1 .. next : i = next \/ i \in 1 .. next - 1
      BY <2>3
    <3>4. next' - 1 = next
      BY <2>2, <2>3
    <3>5. \A i \in 1 .. 6 : cur'[Registers[i]] =
             IF Registers[i] = f THEN v ELSE cur[Registers[i]]
      BY <2>1, <2>3, FieldNames
    <3> QED
      BY <2>2, <2>3, <2>7, <3>1, <3>2, <3>3, <3>4, <3>5
  <2>8. CASE next = 6
    <3>1. ASSUME ~overtaken
          PROVE  Sighted(cur)'
      <4>1. \A i \in 1 .. 6 : cur'[Registers[i]] = Shown(now)[Registers[i]]
        BY <2>2, <2>7, <2>8, <3>1
      <4>2. \A g \in Fields : cur'[g] = Shown(now)[g]
        BY <4>1, FieldNames
      <4>3. cur' = Shown(now)
        <5>1. now \in DOMAIN Timeline /\ Shown(now) \in [Fields -> Nat]
          BY <1>t, ShownType
        <5>2. cur' \in [Fields -> Nat]
          BY <2>5 DEF TypeOK
        <5> HIDE DEF Shown
        <5> QED
          BY <4>2, <5>1, <5>2
      <4> QED
        BY <1>t, <2>2, <4>3 DEF Sighted, Shown
    <3>2. pc' = "compare"
      BY <2>2, <2>8
    <3> QED
      BY <2>2, <2>5, <2>6, <3>1, <3>2 DEF Snapshot
  <2>9. CASE next # 6
    <3>1. pc' = "read"
      BY <2>2, <2>9
    <3>2. Shown(now)' = Shown(now)
      BY <2>2 DEF Shown
    <3> QED
      BY <2>2, <2>5, <2>6, <2>7, <3>1, <3>2 DEF Snapshot
  <2> QED
    BY <2>8, <2>9
<1>7. CASE Compare
  <2>1. /\ pc = "compare"
        /\ UNCHANGED <<now, phase, mode, next, cur, stamp, from, overtaken, overtook>>
    BY <1>7 DEF Compare, chip
  <2>2. \A r : Sighted(r) => Sighted(r)'
    BY <2>1 DEF Sighted, Shown
  <2>3. CASE ~first /\ Agree /\ pc' = "convert" /\ UNCHANGED <<last, first>>
    <3>1. TypeOK'
      BY <2>1, <2>3 DEF TypeOK
    <3>2. cur = last
      BY <2>3 DEF Agree, TypeOK
    <3>3. Sighted(cur)
      BY <2>1, <2>3, <3>2
    <3> QED
      BY <2>1, <2>2, <2>3, <3>1, <3>3 DEF Snapshot
  <2>4. CASE pc' = "poll" /\ last' = cur /\ first' = FALSE
    <3>1. TypeOK'
      BY <2>1, <2>4 DEF TypeOK
    <3>2. ~overtaken => Sighted(last)'
      BY <2>1, <2>4 DEF Sighted, Shown
    <3> QED
      BY <2>1, <2>4, <3>1, <3>2 DEF Snapshot
  <2> QED
    BY <1>7, <2>3, <2>4 DEF Compare
<1>8. CASE Convert
  <2>1. /\ pc = "convert" /\ pc' = "return" /\ cur' = Converted(mode, cur)
        /\ UNCHANGED <<now, phase, mode, next, last, first, stamp, from, overtaken, overtook>>
    BY <1>8 DEF Convert, chip
  <2>2. PICK i \in from .. now : cur = Shown(i)
    BY <2>1 DEF Sighted
  <2>3. i \in DOMAIN Timeline
    BY <1>t
  <2>4. cur' = Timeline[i]
    <3>1. Readable(mode, Timeline[i]) /\ Timeline[i] \in Clocks /\ mode \in RegisterB
      BY <2>3, ShownType DEF AllReadable, TypeOK
    <3> QED
      BY <2>1, <2>2, <3>1, RoundTrip DEF Shown
  <2>5. TypeOK'
    <3>1. cur' \in [Fields -> Nat]
      BY <2>1, <2>3, ShownType, ConvertedType DEF TypeOK
    <3> QED
      BY <2>1, <3>1 DEF TypeOK
  <2> QED
    BY <2>1, <2>2, <2>4, <2>5 DEF Snapshot
<1>9. CASE Return
  <2>1. /\ pc = "return" /\ pc' = "idle"
        /\ stamp' = <<Hours(Packed(cur)), Minutes(Packed(cur)), Seconds(Packed(cur))>>
        /\ UNCHANGED <<now, phase, mode, next, cur, last, first, from, overtaken, overtook>>
    BY <1>9 DEF Return, chip
  <2>2. PICK i \in from .. now : cur = Timeline[i]
    BY <2>1 DEF Snapshot
  <2>3. cur \in Clocks /\ stamp' = TimeOfDay(cur)
    BY <1>t, <2>1, <2>2, ShownType, PackRoundTrip
  <2>4. TypeOK'
    <3>1. stamp' \in Byte \X Byte \X Byte
      BY <2>3 DEF Clocks, TimeOfDay, Byte
    <3> QED
      BY <2>1, <3>1 DEF TypeOK
  <2> QED
    BY <2>1, <2>4 DEF Snapshot
<1>10. CASE UNCHANGED vars
  <2>1. UNCHANGED <<now, phase, mode, pc, next, cur, last, first, stamp, from,
                    overtaken, overtook>>
    BY <1>10 DEF vars, chip, reader
  <2>2. TypeOK' /\ Snapshot'
    BY <2>1 DEF TypeOK, Snapshot
  <2> QED
    BY <2>1, <2>2 DEF Sighted, Shown
<1> QED
  BY <1>1, <1>2, <1>3, <1>4, <1>5, <1>6, <1>7, <1>8, <1>9, <1>10
     DEF Next, Chip, InRead

\* The inductive invariant holds throughout, for times that can be read.
LEMMA Invariance ==
  ASSUME AllReadable
  PROVE  Spec => []IInv
<1>1. Init /\ [][Next]_vars => []IInv
  BY InitIInv, NextIInv, PTL
<1> QED
  BY <1>1, PTL DEF Spec, Safety

-----------------------------------------------------------------------------
\* CMOS::Read reads no register behind the last one, and its globals hold
\* numbers, for times that can be read.
THEOREM TypeCorrect ==
  ASSUME AllReadable
  PROVE  Spec => []TypeOK
<1>1. IInv => TypeOK
  BY DEF IInv
<1> QED
  BY <1>1, Invariance, PTL

\* What CMOS::Read returns is one time the chip showed during the call, for
\* every 24-hour setting, and for a 12-hour one away from noon and midnight.
THEOREM SnapshotHolds ==
  ASSUME AllReadable
  PROVE  Spec => []Snapshot
<1>1. IInv => Snapshot
  BY DEF IInv
<1> QED
  BY <1>1, Invariance, PTL

\* The time of day log prints is one the chip showed during the call.
THEOREM StampHolds ==
  ASSUME AllReadable
  PROVE  Spec => StampIsShown
<1>1. IInv /\ [Next]_vars =>
        (stamp' # stamp => \E i \in from .. now : stamp' = TimeOfDay(Timeline[i]))
  <2> SUFFICES ASSUME IInv, [Next]_vars, stamp' # stamp
               PROVE  \E i \in from .. now : stamp' = TimeOfDay(Timeline[i])
    OBVIOUS
  <2>1. Return
    BY DEF Next, Chip, InRead, SetUip, BeginUpdate, EndUpdate, Read, UipClear,
           get_RTC_register, Compare, Convert, vars, reader
  <2>2. PICK i \in from .. now : cur = Timeline[i]
    BY <2>1 DEF IInv, Snapshot, Return
  <2>3. i \in DOMAIN Timeline
    BY <2>2, TimelineAssumption, ModesAssumption DEF IInv, TypeOK
  <2> QED
    BY <2>1, <2>2, <2>3, ShownType, PackRoundTrip DEF Return, IInv
<1> QED
  BY <1>1, Invariance, PTL DEF Spec, Safety, StampIsShown
=============================================================================
