--------------------------------- MODULE Log --------------------------------
(***************************************************************************)
(* log on its two devices: the serial line, a transmitter that is polled   *)
(* before each byte, and the console, which calls log itself when it is    *)
(* given an escape sequence it does not know.                              *)
(*                                                                         *)
(* One thread of control; what runs beside it is the transmitter.          *)
(***************************************************************************)
EXTENDS Naturals, SequencesExt

CONSTANTS
  Bodies,     \* what the formats expand to
  MaxCalls    \* bound: calls of log, those from inside the console included

\* The first byte of a format chooses the devices; "" is any other byte
Discs == {"SERIAL", "TERMINAL", "BOTH", "CSERIAL", "CTERMINAL", "CBOTH", ""}

\* Characters: "sequence" is the last one of an unhandled escape sequence,
\* "stamp" stands for the time, "text" for any other one.
Chars == {"text", "\n", "sequence", "stamp"}
Bytes == Chars \cup {"\r"}

ASSUME BodiesAssumption == Bodies \subseteq Seq(Chars)
ASSUME CallsAssumption  == MaxCalls \in Nat \ {0}

VARIABLES
  calls,      \* the calls of log so far
  stack,      \* those that have not returned, each with what it has to write
  phase,      \* where the last one is in _outchar_*
  thr,        \* the transmitter's holding register
  wire,       \* what has been transmitted, each byte with the call it is of
  console,    \* what gConsole->write was given
  gConsole    \* is there a console?

vars == <<calls, stack, phase, thr, wire, console, gConsole>>

Empty == <<>>     \* no byte in the holding register

Init ==
  /\ calls = <<>> /\ stack = <<>> /\ phase = "char"
  /\ thr = Empty /\ wire = <<>> /\ console = <<>>
  /\ gConsole \in BOOLEAN

-----------------------------------------------------------------------------
(* log *)

\* Mutant of Devices: a format without a device byte goes to both
DevicesDefaultBoth(disc) ==
  CASE disc \in {"SERIAL", "CSERIAL"}     -> {"serial"}
    [] disc \in {"TERMINAL", "CTERMINAL"} -> {"console"}
    [] OTHER                              -> {"serial", "console"}

\* The choice of func
Devices(disc) ==
  CASE disc \in {"TERMINAL", "CTERMINAL"} -> {"console"}
    [] disc \in {"BOTH", "CBOTH"}         -> {"serial", "console"}
    [] OTHER                              -> {"serial"}

\* Mutant of Line: with the \r that Tx puts ahead of the newline
LineCr(disc, body) ==
  (IF disc \in {"CSERIAL", "CTERMINAL", "CBOTH"} THEN <<>> ELSE <<"stamp">>)
    \o body \o <<"\r", "\n">>

\* The time, unless the device byte says not to; the format; a newline
Line(disc, body) ==
  (IF disc \in {"CSERIAL", "CTERMINAL", "CBOTH"} THEN <<>> ELSE <<"stamp">>)
    \o body \o <<"\n">>

Enter(disc, body) ==
  /\ Len(calls) < MaxCalls
  /\ calls' = Append(calls, [disc |-> disc, body |-> body])

Activation(disc, body) ==
  [id |-> Len(calls) + 1, devices |-> Devices(disc), rest |-> Line(disc, body)]

Top  == Last(stack)
Char == Head(Top.rest)

log(disc, body) ==
  /\ stack = <<>>
  /\ Enter(disc, body)
  /\ stack' = <<Activation(disc, body)>>
  /\ UNCHANGED <<phase, thr, wire, console, gConsole>>

Busy(at) == stack # <<>> /\ phase = at

\* The call's next character goes to func: _outchar_serial, _console or _both
Next_char ==
  /\ Busy("char") /\ Top.rest # <<>>
  /\ phase' = IF "serial" \in Top.devices THEN "spew" ELSE "console"
  /\ UNCHANGED <<calls, stack, thr, wire, console, gConsole>>

Return ==
  /\ Busy("char") /\ Top.rest = <<>>
  /\ stack' = Front(stack)
  /\ UNCHANGED <<calls, phase, thr, wire, console, gConsole>>

-----------------------------------------------------------------------------
(* The serial line *)

\* A write to the holding register; a byte that is still there is lost
outb(byte) == thr' = <<[id |-> Top.id, byte |-> byte]>>

AfterSerial == IF "console" \in Top.devices THEN "console" ELSE "done"

\* Mutant of WaitTxRdy: waits for the bit to be clear
WaitTxRdyInverted(from, to) ==
  /\ Busy(from) /\ thr # Empty /\ phase' = to
  /\ UNCHANGED <<calls, stack, thr, wire, console, gConsole>>

\* The poll ends when the register is empty
WaitTxRdy(from, to) ==
  /\ Busy(from) /\ thr = Empty /\ phase' = to
  /\ UNCHANGED <<calls, stack, thr, wire, console, gConsole>>

\* Mutant of Tx: \n first, the \r after it
TxSwapped ==
  /\ Busy("tx")
  /\ outb(Char) /\ phase' = IF Char = "\n" THEN "wait" ELSE AfterSerial
  /\ UNCHANGED <<calls, stack, wire, console, gConsole>>

\* Serial::Tx up to the wait in it, and what follows that
Tx ==
  /\ Busy("tx")
  /\ IF Char = "\n" THEN outb("\r") /\ phase' = "wait"
                    ELSE outb(Char) /\ phase' = AfterSerial
  /\ UNCHANGED <<calls, stack, wire, console, gConsole>>

\* Mutant of Spew: platform_debug_spew without its WaitTxRdy
SpewUnready ==
  /\ Busy("spew") /\ phase' = "tx"
  /\ UNCHANGED <<calls, stack, thr, wire, console, gConsole>>

\* platform_debug_spew waits before it transmits, and Tx between \r and \n
Spew   == WaitTxRdy("spew", "tx")
TxWait == WaitTxRdy("wait", "lf")

TxLf ==
  /\ Busy("lf") /\ outb("\n") /\ phase' = AfterSerial
  /\ UNCHANGED <<calls, stack, wire, console, gConsole>>

\* The transmitter (external) sends the byte and takes the next one
Transmit ==
  /\ thr # Empty
  /\ wire' = wire \o thr /\ thr' = Empty
  /\ UNCHANGED <<calls, stack, phase, console, gConsole>>

-----------------------------------------------------------------------------
(* The console *)

\* Is a console activation on the stack below the running one?  It is then
\* inside processAnsi, its parser still reading a sequence.
InsideConsole == \E i \in 1 .. Len(stack) - 1 : "console" \in stack[i].devices

\* A character that completes a sequence the console does not know: inside of
\* processAnsi that is every letter
Unhandled == Char = "sequence" \/ (InsideConsole /\ Char = "text")

Taken == [stack EXCEPT ![Len(stack)].rest = Tail(@)]

\* _outchar_console; processAnsi logs what it does not know before it returns
_outchar_console ==
  /\ Busy("console")
  /\ console' = IF gConsole THEN Append(console, [id |-> Top.id, byte |-> Char]) ELSE console
  /\ phase' = "char"
  /\ IF gConsole /\ Unhandled
       THEN /\ Enter("", <<"text">>)
            /\ stack' = Append(Taken, Activation("", <<"text">>))
       ELSE stack' = Taken /\ UNCHANGED calls
  /\ UNCHANGED <<thr, wire, gConsole>>

\* The end of _outchar_serial
Done ==
  /\ Busy("done") /\ stack' = Taken /\ phase' = "char"
  /\ UNCHANGED <<calls, thr, wire, console, gConsole>>

-----------------------------------------------------------------------------
\* Bound: room for the calls the console may make from inside of this one
Room(body) == Len(calls) + 1 + Len(SelectSeq(body, LAMBDA c : c = "sequence")) <= MaxCalls

Step == Next_char \/ Return \/ Spew \/ Tx \/ TxWait \/ TxLf \/ _outchar_console \/ Done
Next ==
  \/ \E disc \in Discs, body \in Bodies : Room(body) /\ log(disc, body)
  \/ Step
  \/ Transmit

\* A call that has begun goes on, and the transmitter sends what it was given.
Spec == Init /\ [][Next]_vars /\ WF_vars(Step) /\ WF_vars(Transmit)

-----------------------------------------------------------------------------
(* Properties *)

TypeOK ==
  /\ calls \in Seq([disc : Discs, body : Seq(Chars)]) /\ Len(calls) <= MaxCalls
  /\ stack \in Seq([id : 1 .. MaxCalls, devices : SUBSET {"serial", "console"}, rest : Seq(Chars)])
  /\ Len(stack) <= 2
  /\ phase \in {"char", "spew", "tx", "wait", "lf", "console", "done"}
  /\ thr \in {Empty} \cup {<<b>> : b \in [id : 1 .. MaxCalls, byte : Bytes]}
  /\ wire \in Seq([id : 1 .. MaxCalls, byte : Bytes])
  /\ console \in Seq([id : 1 .. MaxCalls, byte : Chars])
  /\ gConsole \in BOOLEAN

Sent == wire \o thr

\* The bytes of a call
Of(id, s) == FlattenSeq([i \in 1 .. Len(s) |-> IF s[i].id = id THEN <<s[i].byte>> ELSE <<>>])

CrLf(s) == FlattenSeq([i \in 1 .. Len(s) |-> IF s[i] = "\n" THEN <<"\r", "\n">> ELSE <<s[i]>>])

\* A call that has returned has put its line, all of it and in order, on the
\* devices its format names and on no other; no byte is overwritten in the
\* transmitter (log, _outchar_*, WaitTxRdy).
Returned == {id \in 1 .. Len(calls) : \A i \in 1 .. Len(stack) : stack[i].id # id}
LinesComplete ==
  \A id \in Returned :
    LET c == calls[id]  line == Line(c.disc, c.body) IN
    /\ Of(id, Sent) = IF c.disc \in {"TERMINAL", "CTERMINAL"} THEN <<>> ELSE CrLf(line)
    /\ Of(id, console) =
         IF gConsole /\ c.disc \in {"TERMINAL", "CTERMINAL", "BOTH", "CBOTH"} THEN line ELSE <<>>

\* On the wire \n comes right after \r and \r right before \n, whatever calls
\* are nested in one another (Serial::Tx).
CrBeforeLf ==
  \A i \in 1 .. Len(Sent) :
    /\ Sent[i].byte = "\n" => i > 1 /\ Sent[i - 1].byte = "\r"
    /\ Sent[i].byte = "\r" /\ i < Len(Sent) => Sent[i + 1].byte = "\n"

\* A log from inside of processAnsi goes past the console: its parser still
\* reads the sequence, and would take the first letter for the end of another.
ConsoleNotReentered ==
  \A i, j \in 1 .. Len(stack) :
    "console" \in stack[i].devices /\ "console" \in stack[j].devices => i = j

\* Every call of log returns.
Returns == stack # <<>> ~> stack = <<>>
=============================================================================
