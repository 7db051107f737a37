----------------------------- MODULE OneReport ------------------------------
(***************************************************************************)
(* What panic promises: the machine reports one failure.  The first to     *)
(* claim the report is the only one to appear, its pieces in order on the  *)
(* serial line and, a piece behind at most, on the console.                *)
(***************************************************************************)
EXTENDS Naturals, Sequences

CONSTANTS
  Pieces,     \* how many pieces a report is put out in
  NoReport    \* no failure has claimed the report yet

VARIABLES
  report,     \* the failure that is reported
  serial,     \* what the serial line has shown: <<failure, piece>> pairs
  console,    \* what the console has shown
  gConsole    \* is there a console?

Init == report = NoReport /\ serial = <<>> /\ console = <<>> /\ gConsole \in BOOLEAN

Claim ==
  /\ report = NoReport /\ report' # NoReport
  /\ UNCHANGED <<serial, console, gConsole>>

EmitSerial ==
  /\ report # NoReport /\ Len(serial) < Pieces
  /\ gConsole => Len(console) = Len(serial)
  /\ serial' = Append(serial, <<report, Len(serial) + 1>>)
  /\ UNCHANGED <<report, console, gConsole>>

EmitConsole ==
  /\ gConsole /\ Len(console) < Len(serial)
  /\ console' = Append(console, <<report, Len(console) + 1>>)
  /\ UNCHANGED <<report, serial, gConsole>>

Next == Claim \/ EmitSerial \/ EmitConsole

Spec == Init /\ [][Next]_<<report, serial, console, gConsole>>
=============================================================================
