-------------------------------- MODULE Cmos --------------------------------
(***************************************************************************)
(* platform_timer_now and CMOS::Read against a clock chip that does not    *)
(* wait for them.                                                          *)
(*                                                                         *)
(* The chip announces an update (UIP), then changes its registers one by   *)
(* one, during which a read may return anything.  CMOS::Read has no lock   *)
(* on it: it reads when UIP is clear, and reads again until two passes     *)
(* agree.  What it returns must be a time the chip showed during the call. *)
(***************************************************************************)
EXTENDS CmosTime, Sequences

CONSTANTS
  Modes,      \* the settings of register B the firmware may have left
  Timelines,  \* for each, the times the chip goes through, an update after the other
  Junk        \* what else a register may read as while it is updated

ASSUME ModesAssumption    == Modes \subseteq RegisterB
ASSUME TimelineAssumption ==
  \A m \in Modes : Timelines[m] \in Seq(Clocks) /\ Timelines[m] # <<>>
ASSUME JunkAssumption     == Junk \subseteq Byte

VARIABLES
  now,        \* the chip: index in Timeline of the time it keeps
  phase,      \* the chip: "stable", "uip" before an update, "flux" during it
  mode,       \* the chip: register B
  pc,         \* where CMOS::Read is
  next,       \* index in Registers of the register to read next
  cur,        \* the globals second ... year
  last,       \* the locals last_second ... last_year
  first,      \* is this the pass before the loop?
  stamp,      \* what log prints: hours, minutes, seconds
  from,       \* ghost: the chip's time when the call began
  overtaken,  \* ghost: did an update begin during the current pass?
  overtook    \* ghost: did one begin during the pass before?

chip   == <<now, phase, mode>>
reader == <<pc, next, cur, last, first, stamp, from>>
vars   == <<chip, reader, overtaken, overtook>>

\* Register B is never written
Timeline == Timelines[mode]

Unread == [f \in Fields |-> 0]

Init ==
  /\ now = 1 /\ phase = "stable" /\ mode \in Modes
  /\ pc = "idle" /\ next = 1 /\ first = TRUE
  /\ cur = Unread /\ last = Unread
  /\ stamp = <<0, 0, 0>> /\ from = 1
  /\ overtaken = FALSE /\ overtook = FALSE

-----------------------------------------------------------------------------
(* The chip.  UIP is set a fixed time before an update begins; updates are *)
(* a second apart, which outlasts two passes over the registers: so no     *)
(* update begins during a pass when one began during it or the one before. *)

SetUip ==
  /\ phase = "stable" /\ now < Len(Timeline)
  /\ phase' = "uip"
  /\ UNCHANGED <<now, mode, reader, overtaken, overtook>>

BeginUpdate ==
  /\ phase = "uip"
  /\ pc = "read" => ~overtaken /\ ~overtook
  /\ phase' = "flux" /\ now' = now + 1
  /\ overtaken' = (overtaken \/ pc = "read")
  /\ UNCHANGED <<mode, reader, overtook>>

EndUpdate ==
  /\ phase = "flux"
  /\ phase' = "stable"
  /\ UNCHANGED <<now, mode, reader, overtaken, overtook>>

\* What a read of register f may return.
Reading(f) ==
  {Show(mode, Timeline[now])[f]} \cup
  (IF phase = "flux" THEN {Show(mode, Timeline[now - 1])[f]} \cup Junk ELSE {})

-----------------------------------------------------------------------------
(* CMOS::Read *)

\* log calls platform_timer_now, which calls CMOS::Read
Read ==
  /\ pc = "idle"
  /\ pc' = "poll" /\ first' = TRUE /\ from' = now
  /\ overtaken' = FALSE /\ overtook' = FALSE
  /\ UNCHANGED <<chip, next, cur, last, stamp>>

\* while (get_update_in_progress_flag()): an iteration that finds UIP set
\* changes nothing
UipClear ==
  /\ pc = "poll" /\ phase = "stable"
  /\ pc' = "read" /\ next' = 1
  /\ overtook' = overtaken /\ overtaken' = FALSE
  /\ UNCHANGED <<chip, cur, last, first, stamp, from>>

\* Mutant of get_RTC_register: one register too many
get_RTC_registerPastEnd ==
  /\ pc = "read"
  /\ \E v \in Reading(Registers[next]) : cur' = [cur EXCEPT ![Registers[next]] = v]
  /\ next' = next + 1
  /\ pc' = IF next > Len(Registers) THEN "compare" ELSE "read"
  /\ UNCHANGED <<chip, last, first, stamp, from, overtaken, overtook>>

get_RTC_register ==
  /\ pc = "read"
  /\ \E v \in Reading(Registers[next]) : cur' = [cur EXCEPT ![Registers[next]] = v]
  /\ next' = next + 1
  /\ pc' = IF next = Len(Registers) THEN "compare" ELSE "read"
  /\ UNCHANGED <<chip, last, first, stamp, from, overtaken, overtook>>

\* Mutant of Agree: the condition looks at the seconds only
AgreeOnSeconds == last.second = cur.second

\* The loop's condition, on every register
Agree == \A f \in Fields : last[f] = cur[f]

\* Mutant of Compare: last_second ... assigned before the loop, not in it
CompareWithFirst ==
  /\ pc = "compare"
  /\ \/ /\ ~first /\ Agree
        /\ pc' = "convert"
        /\ UNCHANGED <<last, first>>
     \/ /\ first \/ ~Agree
        /\ pc' = "poll" /\ first' = FALSE
        /\ last' = IF first THEN cur ELSE last
  /\ UNCHANGED <<chip, next, cur, stamp, from, overtaken, overtook>>

\* The end of a pass: the first always leads to a second one
Compare ==
  /\ pc = "compare"
  /\ \/ /\ ~first /\ Agree
        /\ pc' = "convert"
        /\ UNCHANGED <<last, first>>
     \/ /\ first \/ ~Agree
        /\ pc' = "poll" /\ last' = cur /\ first' = FALSE
  /\ UNCHANGED <<chip, next, cur, stamp, from, overtaken, overtook>>

\* Register B is read last; the conversions it calls for are in place
Convert ==
  /\ pc = "convert"
  /\ pc' = "return" /\ cur' = Converted(mode, cur)
  /\ UNCHANGED <<chip, next, last, first, stamp, from, overtaken, overtook>>

\* platform_timer_now packs, log unpacks
Return ==
  /\ pc = "return"
  /\ pc' = "idle"
  /\ stamp' = <<Hours(Packed(cur)), Minutes(Packed(cur)), Seconds(Packed(cur))>>
  /\ UNCHANGED <<chip, next, cur, last, first, from, overtaken, overtook>>

-----------------------------------------------------------------------------
Chip    == SetUip \/ BeginUpdate \/ EndUpdate
InRead  == UipClear \/ get_RTC_register \/ Compare \/ Convert \/ Return
Next    == Chip \/ Read \/ InRead

\* A call that has begun goes on, and the chip completes the updates it has
\* announced.
Fairness == WF_vars(InRead) /\ WF_vars(BeginUpdate) /\ WF_vars(EndUpdate)

Safety == Init /\ [][Next]_vars
Spec   == Safety /\ Fairness

-----------------------------------------------------------------------------
(* Properties *)

TypeOK ==
  /\ now \in DOMAIN Timeline /\ from \in 1 .. now
  /\ phase \in {"stable", "uip", "flux"}
  /\ (phase = "uip" => now < Len(Timeline)) /\ (phase = "flux" => now > 1)
  /\ mode \in Modes
  /\ pc \in {"idle", "poll", "read", "compare", "convert", "return"}
  /\ next \in 1 .. Len(Registers) + 1 /\ (pc = "read" => next <= Len(Registers))
  /\ cur \in [Fields -> Nat] /\ last \in [Fields -> Nat]
  /\ stamp \in Byte \X Byte \X Byte
  /\ first \in BOOLEAN /\ overtaken \in BOOLEAN /\ overtook \in BOOLEAN

\* What CMOS::Read leaves in the globals is, all six of them together, a time
\* the chip showed between the call and the return: never a mixture of two,
\* and never one from before the call.
Snapshot == pc = "return" => \E i \in from .. now : cur = Timeline[i]

\* The time of day log prints is one the chip showed during the call, packed
\* into the timer's word and unpacked again.
StampIsShown ==
  [][stamp' # stamp => \E i \in from .. now : stamp' = TimeOfDay(Timeline[i])]_vars

\* The wait for UIP and the loop until two passes agree come to an end.
ReadReturns == pc = "poll" ~> pc = "return"

\* "Convert 12 hour clock to 24 hour clock if necessary": the hour returned
\* is an hour of the day the chip showed.
HourIs24h ==
  pc = "return" => \E i \in from .. now : cur.hour = Timeline[i].hour
=============================================================================
