----------------------------- MODULE Log_proofs -----------------------------
(***************************************************************************)
(* Log, for all formats and any number of calls: a log from inside of the  *)
(* console never comes back to it, on the wire \n and \r come as a pair,   *)
(* and a call that has returned has put its line where its format says.    *)
(* And of the line they are on: Serial, for all texts.                     *)
(***************************************************************************)
EXTENDS Log, Serial, SequenceLemmas

Call == [id : 1 .. MaxCalls, devices : (SUBSET {"serial", "console"}) \ {{}}, rest : Seq(Chars)]

\* Whatever is on top of another call is for the serial line alone; a call
\* that is at the console, or about to be, is for the console
NestedIsSerial == \A i \in 1 .. Len(stack) : i > 1 => stack[i].devices = {"serial"}
AtConsole ==
  /\ stack = <<>> => phase = "char"
  /\ stack # <<>> /\ phase = "console" => "console" \in Top.devices
  /\ stack # <<>> /\ phase # "char" => Top.rest # <<>>

Entry  == [disc : Discs, body : Seq(Chars)]
Phases == {"char", "spew", "tx", "wait", "lf", "console", "done"}

IInv ==
  /\ stack \in Seq(Call) /\ Len(stack) <= 2
  /\ calls \in Seq(Entry) /\ Len(calls) <= MaxCalls
  /\ phase \in Phases
  /\ NestedIsSerial /\ AtConsole

LEMMA LineType ==
  ASSUME NEW disc, NEW body \in Seq(Chars) PROVE Line(disc, body) \in Seq(Chars)
<1>1. "stamp" \in Chars /\ "\n" \in Chars
  BY DEF Chars
<1>2. <<"stamp">> \in Seq(Chars) /\ <<"\n">> \in Seq(Chars) /\ <<>> \in Seq(Chars)
  BY <1>1
<1> QED  BY <1>2 DEF Line

LEMMA ActivationType ==
  ASSUME calls \in Seq(Entry), Len(calls) < MaxCalls,
         NEW disc, NEW body \in Seq(Chars)
  PROVE  /\ Activation(disc, body) \in Call
         /\ Activation(disc, body).devices = Devices(disc)
<1>1. Len(calls) + 1 \in 1 .. MaxCalls
  BY CallsAssumption
<1>2. Devices(disc) \in (SUBSET {"serial", "console"}) \ {{}}
  BY DEF Devices
<1> QED  BY <1>1, <1>2, LineType DEF Activation, Call

LEMMA EnterType ==
  ASSUME calls \in Seq(Entry), NEW disc \in Discs, NEW body \in Seq(Chars), Enter(disc, body)
  PROVE  calls' \in Seq(Entry) /\ Len(calls') = Len(calls) + 1 /\ Len(calls') <= MaxCalls
<1> DEFINE entry == [disc |-> disc, body |-> body]
<1>1. entry \in Entry /\ calls' = Append(calls, entry) /\ Len(calls) < MaxCalls
  BY DEF Entry, Enter
<1> HIDE DEF entry
<1>2. calls' \in Seq(Entry) /\ Len(calls') = Len(calls) + 1
  BY <1>1, AppendProperties
<1> QED  BY <1>1, <1>2, CallsAssumption

LEMMA InitInv == Init => IInv
<1> SUFFICES ASSUME Init PROVE IInv
  OBVIOUS
<1>1. stack = <<>> /\ calls = <<>> /\ phase = "char" /\ Len(stack) = 0 /\ Len(calls) = 0
  BY DEF Init
<1>2. MaxCalls \in Nat
  BY CallsAssumption
<1> QED  BY <1>1, <1>2 DEF IInv, Phases, NestedIsSerial, AtConsole

\* The running call takes its next character
LEMMA TakenKeeps ==
  ASSUME stack \in Seq(Call), stack # <<>>, Top.rest # <<>>
  PROVE  /\ Taken \in Seq(Call) /\ Len(Taken) = Len(stack)
         /\ \A i \in 1 .. Len(stack) :
              /\ Taken[i].devices = stack[i].devices /\ Taken[i].id = stack[i].id
              /\ i # Len(stack) => Taken[i].rest = stack[i].rest
         /\ Taken[Len(stack)].rest = Tail(Top.rest)
<1> DEFINE n == Len(stack)
<1>1. n \in 1 .. n /\ Top = stack[n] /\ stack[n] \in Call
  BY DEF Top, Last
<1>2. Tail(stack[n].rest) \in Seq(Chars)
  BY <1>1 DEF Call
<1>3. [stack[n] EXCEPT !.rest = Tail(@)] \in Call
        /\ [stack[n] EXCEPT !.rest = Tail(@)].devices = stack[n].devices
        /\ [stack[n] EXCEPT !.rest = Tail(@)].id = stack[n].id
        /\ [stack[n] EXCEPT !.rest = Tail(@)].rest = Tail(stack[n].rest)
  BY <1>1, <1>2 DEF Call
<1>4. Taken = [stack EXCEPT ![n] = [stack[n] EXCEPT !.rest = Tail(@)]]
  BY DEF Taken
<1> QED  BY <1>1, <1>3, <1>4

\* A step inside of the call's own character: the stack stays, and the phase
\* is "console" only if the call is for it
LEMMA PhaseStep ==
  ASSUME IInv, stack # <<>>, UNCHANGED <<stack, calls>>, Top.rest # <<>>,
         phase' \in Phases, phase' = "console" => "console" \in Top.devices
  PROVE  IInv'
BY DEF IInv, NestedIsSerial, AtConsole, Top

\* The end of a character
LEMMA CharStep ==
  ASSUME IInv, stack # <<>>, Top.rest # <<>>, stack' = Taken, calls' = calls,
         phase' = "char"
  PROVE  IInv'
BY TakenKeeps DEF IInv, Phases, NestedIsSerial, AtConsole

LEMMA LogInv ==
  ASSUME IInv, NEW disc \in Discs, NEW body \in Bodies, log(disc, body) PROVE IInv'
<1> USE DEF IInv
<1>1. body \in Seq(Chars) /\ stack = <<>> /\ stack' = <<Activation(disc, body)>>
  BY BodiesAssumption DEF log
<1>2. Activation(disc, body) \in Call
  BY <1>1, ActivationType DEF log, Enter
<1>3. stack' \in Seq(Call) /\ Len(stack') = 1 /\ stack' # <<>>
  BY <1>1, <1>2
<1>4. calls' \in Seq(Entry) /\ Len(calls') <= MaxCalls
  BY <1>1, EnterType DEF log
<1>5. phase' = "char"
  BY <1>1 DEF log, AtConsole
<1> QED  BY <1>3, <1>4, <1>5 DEF NestedIsSerial, AtConsole, Phases

LEMMA FrontKeeps ==
  ASSUME NEW s \in Seq(Call), s # <<>>
  PROVE  /\ Len(s) \in Nat \ {0} /\ Front(s) \in Seq(Call) /\ Len(Front(s)) = Len(s) - 1
         /\ \A i \in 1 .. Len(s) - 1 : Front(s)[i] = s[i]
<1>1. Len(s) \in Nat /\ Len(s) > 0
  BY EmptySeq
<1> DEFINE n == Len(s) - 1
<1>2. \A i \in 1 .. n : s[i] \in Call
  BY <1>1
<1>3. n \in Nat /\ Front(s) = SubSeq(s, 1, n) /\ n <= Len(s)
  BY <1>1 DEF Front
<1> HIDE DEF n
<1>4. Front(s) = [i \in 1 .. n |-> s[i]]
  BY <1>3
<1>5. Front(s) \in Seq(Call)
  BY <1>2, <1>3, <1>4
<1>6. Len(Front(s)) = n /\ \A i \in 1 .. n : Front(s)[i] = s[i]
  BY <1>3, <1>4
<1> QED  BY <1>1, <1>5, <1>6 DEF n

LEMMA ReturnInv == ASSUME IInv, Return PROVE IInv'
<1> USE DEF IInv
<1>1. stack # <<>> /\ stack' = Front(stack) /\ phase' = "char" /\ calls' = calls
  BY DEF Return, Busy
<1>2. /\ Len(stack) \in Nat \ {0} /\ stack' \in Seq(Call) /\ Len(stack') = Len(stack) - 1
      /\ \A i \in 1 .. Len(stack) - 1 : stack'[i] = stack[i]
  BY <1>1, FrontKeeps
<1>3. NestedIsSerial'
  BY <1>2 DEF NestedIsSerial
<1>4. Len(stack') <= 2
  BY <1>2
<1> QED  BY <1>1, <1>2, <1>3, <1>4 DEF AtConsole, Phases

\* A call that is at the console is the only one
LEMMA AloneAtConsole ==
  ASSUME IInv, stack # <<>>, "console" \in Top.devices PROVE Len(stack) = 1
<1>1. Len(stack) \in Nat /\ Len(stack) > 0 /\ Top = stack[Len(stack)]
  BY EmptySeq DEF IInv, Top, Last
<1>2. Len(stack) > 1 => Top.devices = {"serial"}
  BY <1>1 DEF IInv, NestedIsSerial
<1> QED  BY <1>1, <1>2

\* A call on top of another one
LEMMA Nested ==
  ASSUME NEW s \in Seq(Call), Len(s) = 1, NEW c \in Call
  PROVE  /\ Append(s, c) \in Seq(Call) /\ Append(s, c) # <<>>
         /\ Len(Append(s, c)) = 2 /\ Append(s, c)[1] = s[1] /\ Append(s, c)[2] = c
<1>1. /\ Append(s, c) \in Seq(Call) /\ Append(s, c) # <<>>
      /\ Len(Append(s, c)) = Len(s) + 1
  BY AppendProperties
<1>2. Append(s, c)[Len(s) + 1] = c
  BY AppendProperties
<1>3. Len(s) + 1 = 2 /\ 1 \in 1 .. Len(s)
  OBVIOUS
<1>4. Append(s, c)[1] = s[1]
  BY <1>3, AppendProperties
<1> QED  BY <1>1, <1>2, <1>3, <1>4, Zenon

LEMMA ConsoleInv ==
  ASSUME IInv, Top.rest # <<>>, _outchar_console PROVE IInv'
<1> USE DEF IInv
<1>1. stack # <<>> /\ phase' = "char" /\ "console" \in Top.devices
  BY DEF _outchar_console, Busy, AtConsole
<1>2. CASE gConsole /\ Unhandled
  <2>1. stack' = Append(Taken, Activation("", <<"text">>)) /\ Enter("", <<"text">>)
    BY <1>2 DEF _outchar_console
  <2>2. "" \in Discs
    BY DEF Discs
  <2>3. <<"text">> \in Seq(Chars)
    <3>1. "text" \in Chars
      BY DEF Chars
    <3> QED  BY <3>1
  <2>4. Len(calls) < MaxCalls
    BY <2>1 DEF Enter
  <2>5. calls' \in Seq(Entry) /\ Len(calls') <= MaxCalls
    BY <2>1, <2>2, <2>3, EnterType
  <2> DEFINE act == Activation("", <<"text">>)
  <2>6. act \in Call /\ act.devices = {"serial"}
    BY <2>3, <2>4, ActivationType DEF Devices
  <2>7. Taken \in Seq(Call) /\ Len(Taken) = 1
    BY <1>1, TakenKeeps, AloneAtConsole
  <2>8. stack' = Append(Taken, act)
    BY <2>1
  <2> HIDE DEF act
  <2>9. stack' \in Seq(Call) /\ Len(stack') = 2 /\ stack'[2] = act /\ stack' # <<>>
    BY <2>6, <2>7, <2>8, Nested
  <2>10. NestedIsSerial'
    BY <2>6, <2>9 DEF NestedIsSerial
  <2> QED  BY <1>1, <2>5, <2>9, <2>10 DEF AtConsole, Phases
<1>3. CASE ~(gConsole /\ Unhandled)
  BY <1>1, <1>3, CharStep DEF _outchar_console
<1> QED  BY <1>2, <1>3

\* A call with a character under way has one left, and devices to put it to
LEMMA TopBusy ==
  ASSUME IInv, stack # <<>>
  PROVE  /\ "serial" \in Top.devices \/ "console" \in Top.devices
         /\ phase # "char" => Top.rest # <<>>
<1>1. Len(stack) \in 1 .. Len(stack)
  BY EmptySeq DEF IInv
<1>2. stack[Len(stack)] \in Call
  BY <1>1 DEF IInv
<1>3. stack[Len(stack)].devices \in (SUBSET {"serial", "console"}) \ {{}}
  BY <1>2 DEF Call
<1> QED  BY <1>3 DEF Top, Last, IInv, AtConsole

LEMMA NextInv == IInv /\ [Next]_vars => IInv'
<1> SUFFICES ASSUME IInv, [Next]_vars PROVE IInv'
  OBVIOUS
<1>1. ASSUME NEW disc \in Discs, NEW body \in Bodies, log(disc, body) PROVE IInv'
  BY <1>1, LogInv
<1>2. CASE Next_char
  <2>1. stack # <<>> /\ Top.rest # <<>> /\ UNCHANGED <<stack, calls>>
    BY <1>2 DEF Next_char, Busy
  <2>2. phase' = "console" => "console" \in Top.devices
    BY <1>2, <2>1, TopBusy DEF Next_char
  <2>3. phase' \in Phases
    BY <1>2 DEF Next_char, Phases
  <2> QED  BY <2>1, <2>2, <2>3, PhaseStep
<1>3. CASE Return
  BY <1>3, ReturnInv
<1>4. CASE Spew \/ TxWait
  <2>1. stack # <<>> /\ phase # "char" /\ UNCHANGED <<stack, calls>> /\ phase' # "console"
    BY <1>4 DEF Spew, TxWait, WaitTxRdy, Busy
  <2>2. phase' \in Phases
    BY <1>4 DEF Spew, TxWait, WaitTxRdy, Phases
  <2> QED  BY <2>1, <2>2, TopBusy, PhaseStep
<1>5. CASE Tx \/ TxLf
  <2>1. stack # <<>> /\ phase # "char" /\ UNCHANGED <<stack, calls>>
    BY <1>5 DEF Tx, TxLf, Busy
  <2>2. phase' = "console" => "console" \in Top.devices
    BY <1>5 DEF Tx, TxLf, AfterSerial
  <2>3. phase' \in Phases
    BY <1>5 DEF Tx, TxLf, AfterSerial, Phases
  <2> QED  BY <2>1, <2>2, <2>3, TopBusy, PhaseStep
<1>6. CASE _outchar_console
  <2>1. stack # <<>> /\ phase # "char"
    BY <1>6 DEF _outchar_console, Busy
  <2> QED  BY <1>6, <2>1, TopBusy, ConsoleInv
<1>7. CASE Done
  <2>1. /\ stack # <<>> /\ phase # "char" /\ phase' = "char"
        /\ stack' = Taken /\ calls' = calls
    BY <1>7 DEF Done, Busy
  <2> QED  BY <2>1, TopBusy, CharStep
<1>8. CASE Transmit \/ UNCHANGED vars
  <2>1. UNCHANGED <<stack, calls, phase>>
    BY <1>8 DEF Transmit, vars
  <2> QED  BY <2>1 DEF IInv, NestedIsSerial, AtConsole, Top
<1> QED  BY <1>1, <1>2, <1>3, <1>4, <1>5, <1>6, <1>7, <1>8 DEF Next, Step

\* A log from inside of processAnsi is never put to the console, whatever is
\* logged: no sequence in a nested line can come back to the parser.
THEOREM ConsoleIsNotReentered == Spec => []ConsoleNotReentered
<1>1. IInv => ConsoleNotReentered
  BY DEF IInv, NestedIsSerial, ConsoleNotReentered
<1> QED  BY InitInv, NextInv, <1>1, PTL DEF Spec

-----------------------------------------------------------------------------
(* What the devices were given *)

Sending == [id : 1 .. MaxCalls, byte : Bytes]
Shown   == [id : 1 .. MaxCalls, byte : Chars]

DevicesType ==
  /\ thr \in {Empty} \cup {<<b>> : b \in Sending}
  /\ wire \in Seq(Sending) /\ console \in Seq(Shown) /\ gConsole \in BOOLEAN

\* The call that is running has a number, and its next character is one
LEMMA TopType ==
  ASSUME IInv, stack # <<>>
  PROVE  /\ Top \in Call /\ Top.id \in 1 .. MaxCalls
         /\ Top.rest # <<>> => Char \in Chars /\ Char \in Bytes
<1>1. Len(stack) \in 1 .. Len(stack) /\ stack \in Seq(Call)
  BY EmptySeq DEF IInv
<1>2. Top \in Call
  BY <1>1 DEF Top, Last
<1>3. Top.id \in 1 .. MaxCalls /\ Top.rest \in Seq(Chars)
  BY <1>2 DEF Call
<1>4. Top.rest # <<>> => Char \in Chars
  BY <1>3 DEF Char
<1> QED  BY <1>2, <1>3, <1>4 DEF Bytes

LEMMA OutbType ==
  ASSUME IInv, stack # <<>>, NEW b \in Bytes, outb(b)
  PROVE  /\ thr' \in {<<c>> : c \in Sending}
         /\ \E c \in Sending : thr' = <<c>> /\ c.id = Top.id /\ c.byte = b
<1> DEFINE c == [id |-> Top.id, byte |-> b]
<1>1. c \in Sending /\ thr' = <<c>> /\ c.id = Top.id /\ c.byte = b
  BY TopType DEF outb, Sending
<1> HIDE DEF c
<1> QED  BY <1>1

LEMMA DevicesInit == Init => DevicesType
BY EmptySeq DEF Init, DevicesType

LEMMA DevicesNext == IInv /\ DevicesType /\ [Next]_vars => DevicesType'
<1> SUFFICES ASSUME IInv, DevicesType, [Next]_vars PROVE DevicesType'
  OBVIOUS
<1> USE DEF DevicesType
<1>1. ASSUME UNCHANGED <<thr, wire, console, gConsole>> PROVE DevicesType'
  BY <1>1
<1>2. ASSUME NEW disc \in Discs, NEW body \in Bodies, log(disc, body) PROVE DevicesType'
  BY <1>1, <1>2 DEF log
<1>3. CASE Next_char \/ Return \/ Spew \/ TxWait \/ Done
  BY <1>1, <1>3 DEF Next_char, Return, Spew, TxWait, WaitTxRdy, Done
<1>4. CASE Tx
  <2>1. stack # <<>> /\ Top.rest # <<>> /\ UNCHANGED <<wire, console, gConsole>>
    BY <1>4, TopBusy DEF Tx, Busy
  <2>2. PICK b \in Bytes : outb(b)
    <3>1. "\r" \in Bytes /\ Char \in Bytes
      BY <2>1, TopType DEF Bytes
    <3> QED  BY <1>4, <3>1 DEF Tx
  <2> QED  BY <2>1, <2>2, OutbType
<1>5. CASE TxLf
  <2>1. stack # <<>> /\ outb("\n") /\ UNCHANGED <<wire, console, gConsole>> /\ "\n" \in Bytes
    BY <1>5 DEF TxLf, Busy, Bytes, Chars
  <2> QED  BY <2>1, OutbType
<1>6. CASE _outchar_console
  <2>1. stack # <<>> /\ Top.rest # <<>> /\ UNCHANGED <<thr, wire, gConsole>>
    BY <1>6, TopBusy DEF _outchar_console, Busy
  <2> DEFINE shown == [id |-> Top.id, byte |-> Char]
  <2>2. shown \in Shown /\ (console' = Append(console, shown) \/ console' = console)
    BY <1>6, <2>1, TopType DEF _outchar_console, Shown
  <2> HIDE DEF shown
  <2>3. console' \in Seq(Shown)
    BY <2>2, AppendProperties
  <2> QED  BY <2>1, <2>3
<1>7. CASE Transmit
  <2>1. thr \in {<<b>> : b \in Sending} /\ wire' = wire \o thr /\ thr' = Empty
          /\ UNCHANGED <<console, gConsole>>
    BY <1>7 DEF Transmit
  <2>2. thr \in Seq(Sending)
    BY <2>1
  <2> QED  BY <2>1, <2>2, ConcatProperties
<1>8. CASE UNCHANGED vars
  BY <1>1, <1>8 DEF vars
<1> QED  BY <1>2, <1>3, <1>4, <1>5, <1>6, <1>7, <1>8 DEF Next, Step

\* The calls and what is left of each, the phases, and what the devices hold
\* are what they should be: two calls at most, one inside of the other, and no
\* \r for the console (log, _outchar_*).
THEOREM LogTypes == Spec => []TypeOK
<1>1. IInv /\ DevicesType => TypeOK
  <2> SUFFICES ASSUME IInv, DevicesType PROVE TypeOK
    OBVIOUS
  <2>1. Call \subseteq [id : 1 .. MaxCalls, devices : SUBSET {"serial", "console"}, rest : Seq(Chars)]
    BY DEF Call
  <2>2. stack \in Seq([id : 1 .. MaxCalls, devices : SUBSET {"serial", "console"}, rest : Seq(Chars)])
    BY <2>1, SeqMonotonic DEF IInv
  <2> QED  BY <2>2 DEF IInv, DevicesType, TypeOK, Sending, Shown, Phases, Entry
<1> QED  BY InitInv, NextInv, DevicesInit, DevicesNext, <1>1, PTL DEF Spec

-----------------------------------------------------------------------------
(* \r and \n *)

\* Are the bytes paired, but for a last \r that still waits for its \n?
Paired(s) ==
  \A i \in 1 .. Len(s) :
    /\ s[i].byte = "\n" => i > 1 /\ s[i - 1].byte = "\r"
    /\ s[i].byte = "\r" /\ i < Len(s) => s[i + 1].byte = "\n"

Open(s) == s # <<>> /\ s[Len(s)].byte = "\r"

\* A byte is put into an empty register, and a \r is open from Tx's first byte
\* to its second
PairInv ==
  /\ phase \in {"tx", "lf"} => thr = Empty
  /\ phase \in {"wait", "lf"} <=> Open(Sent)
  /\ Paired(Sent)

LEMMA PairedAppend ==
  ASSUME NEW s \in Seq(Sending), NEW b \in Sending, Paired(s), b.byte = "\n" <=> Open(s)
  PROVE  Paired(Append(s, b)) /\ (Open(Append(s, b)) <=> b.byte = "\r")
<1> DEFINE t == Append(s, b)  n == Len(s)
<1>1. /\ t \in Seq(Sending) /\ t # <<>> /\ Len(t) = n + 1 /\ n \in Nat
      /\ t[n + 1] = b /\ \A i \in 1 .. n : t[i] = s[i]
  BY AppendProperties
<1>2. s # <<>> <=> n > 0
  BY EmptySeq
<1> HIDE DEF t
<1>3. ASSUME NEW i \in 1 .. n + 1 PROVE t[i].byte = "\n" => i > 1 /\ t[i - 1].byte = "\r"
  <2>1. CASE i \in 1 .. n
    <3>1. s[i].byte = "\n" => i > 1 /\ s[i - 1].byte = "\r"
      BY <2>1 DEF Paired
    <3>2. i > 1 => i - 1 \in 1 .. n
      BY <2>1
    <3> QED  BY <1>1, <2>1, <3>1, <3>2
  <2>2. CASE i = n + 1
    <3>1. i - 1 = n /\ (n > 0 => n \in 1 .. n)
      BY <1>1, <2>2
    <3> HIDE DEF n
    <3> QED  BY <1>1, <1>2, <2>2, <3>1 DEF Open, n
  <2> QED  BY <1>1, <2>1, <2>2
<1>4. ASSUME NEW i \in 1 .. n + 1, t[i].byte = "\r", i < n + 1 PROVE t[i + 1].byte = "\n"
  <2>1. i \in 1 .. n /\ s[i].byte = "\r"
    BY <1>1, <1>4
  <2>2. CASE i < n
    BY <1>1, <2>1, <2>2 DEF Paired
  <2>3. CASE i = n
    BY <1>1, <1>2, <2>1, <2>3 DEF Open
  <2> QED  BY <1>1, <2>1, <2>2, <2>3
<1>5. Open(t) <=> b.byte = "\r"
  BY <1>1 DEF Open
<1>6. Paired(t)
  BY <1>1, <1>3, <1>4 DEF Paired
<1> QED  BY <1>5, <1>6 DEF t

LEMMA ThrType == ASSUME DevicesType PROVE thr \in Seq(Sending)
<1>1. CASE thr = Empty
  BY <1>1, EmptySeq DEF Empty
<1>2. CASE thr # Empty
  <2>1. PICK b \in Sending : thr = <<b>>
    BY <1>2 DEF DevicesType
  <2> QED  BY <2>1
<1> QED  BY <1>1, <1>2

LEMMA SentType ==
  ASSUME DevicesType PROVE Sent \in Seq(Sending) /\ (thr = Empty => Sent = wire)
<1>1. thr \in Seq(Sending)
  BY ThrType
<1>2. Sent \in Seq(Sending)
  BY <1>1, ConcatProperties DEF Sent, DevicesType
<1> QED  BY <1>2, ConcatEmptySeq DEF Sent, DevicesType, Empty

\* What a write to the empty register sends
LEMMA OutbSends ==
  ASSUME IInv, DevicesType, stack # <<>>, thr = Empty, wire' = wire, NEW b \in Bytes, outb(b)
  PROVE  \E c \in Sending : Sent' = Append(Sent, c) /\ c.id = Top.id /\ c.byte = b
<1>1. PICK c \in Sending : thr' = <<c>> /\ c.id = Top.id /\ c.byte = b
  BY OutbType
<1>2. Sent' = wire \o <<c>> /\ Sent = wire /\ wire \in Seq(Sending)
  BY <1>1, SentType DEF Sent, DevicesType
<1>3. wire \o <<c>> = Append(wire, c)
  BY <1>2, AppendIsConcat
<1> QED  BY <1>1, <1>2, <1>3

LEMMA TransmitSends ==
  ASSUME DevicesType, Transmit
  PROVE  Sent' = Sent
<1>1. wire \in Seq(Sending) /\ thr \in Seq(Sending)
  BY ThrType DEF DevicesType
<1>2. wire \o thr \in Seq(Sending)
  BY <1>1, ConcatProperties
<1> QED  BY <1>2, ConcatEmptySeq DEF Sent, Transmit, Empty

LEMMA PairNext == IInv /\ DevicesType /\ PairInv /\ [Next]_vars => PairInv'
<1> SUFFICES ASSUME IInv, DevicesType, PairInv, [Next]_vars PROVE PairInv'
  OBVIOUS
<1>1. ASSUME UNCHANGED <<thr, wire>>, phase \notin {"wait", "lf"}, phase' \notin {"tx", "wait", "lf"}
      PROVE  PairInv'
  BY <1>1 DEF PairInv, Sent
<1>2. ASSUME NEW disc \in Discs, NEW body \in Bodies, log(disc, body) PROVE PairInv'
  <2>1. phase = "char"
    BY <1>2 DEF log, IInv, AtConsole
  <2> QED  BY <1>1, <1>2, <2>1 DEF log
<1>3. CASE Next_char \/ Return
  BY <1>1, <1>3 DEF Next_char, Return, Busy
<1>4. CASE Spew \/ TxWait
  BY <1>4 DEF Spew, TxWait, WaitTxRdy, Busy, PairInv, Sent
<1>5. CASE Tx
  <2>1. stack # <<>> /\ Top.rest # <<>> /\ wire' = wire /\ phase = "tx" /\ thr = Empty
    BY <1>5, TopBusy DEF Tx, Busy, PairInv
  <2>2. Char \in Chars /\ Char # "\r" /\ "\r" \in Bytes /\ Char \in Bytes
    BY <2>1, TopType DEF Chars, Bytes
  <2>3. /\ Char = "\n" => outb("\r") /\ phase' = "wait"
        /\ Char # "\n" => outb(Char) /\ phase' \in {"console", "done"}
    BY <1>5 DEF Tx, AfterSerial
  <2>4. PICK c \in Sending : /\ Sent' = Append(Sent, c)
                             /\ c.byte = IF Char = "\n" THEN "\r" ELSE Char
    BY <2>1, <2>2, <2>3, OutbSends
  <2>5. Sent \in Seq(Sending) /\ Paired(Sent) /\ ~Open(Sent) /\ c.byte # "\n"
    BY <2>1, <2>4, SentType DEF PairInv
  <2>6. Paired(Sent') /\ (Open(Sent') <=> c.byte = "\r")
    BY <2>4, <2>5, PairedAppend
  <2>7. Paired(Sent)' /\ (Open(Sent)' <=> Char = "\n")
    BY <2>2, <2>4, <2>6 DEF Paired, Open
  <2> QED  BY <2>3, <2>7 DEF PairInv
<1>6. CASE TxLf
  <2>1. stack # <<>> /\ wire' = wire /\ phase = "lf" /\ thr = Empty /\ outb("\n")
          /\ phase' \in {"console", "done"} /\ "\n" \in Bytes
    BY <1>6 DEF TxLf, Busy, PairInv, AfterSerial, Bytes, Chars
  <2>2. PICK c \in Sending : Sent' = Append(Sent, c) /\ c.byte = "\n"
    BY <2>1, OutbSends
  <2>3. Sent \in Seq(Sending) /\ Paired(Sent) /\ Open(Sent)
    BY <2>1, SentType DEF PairInv
  <2>4. Paired(Sent') /\ ~Open(Sent')
    BY <2>2, <2>3, PairedAppend
  <2> QED  BY <2>1, <2>4 DEF PairInv, Paired, Open
<1>7. CASE _outchar_console \/ Done
  BY <1>1, <1>7 DEF _outchar_console, Done, Busy
<1>8. CASE Transmit
  <2>1. Sent' = Sent /\ phase' = phase /\ thr' = Empty
    BY <1>8, TransmitSends DEF Transmit
  <2> QED  BY <2>1 DEF PairInv, Paired, Open
<1>9. CASE UNCHANGED vars
  BY <1>9 DEF vars, PairInv, Sent, Paired, Open
<1> QED  BY <1>2, <1>3, <1>4, <1>5, <1>6, <1>7, <1>8, <1>9 DEF Next, Step

LEMMA PairInit == Init => PairInv
<1> SUFFICES ASSUME Init PROVE PairInv
  OBVIOUS
<1>1. Sent = <<>> /\ Len(Sent) = 0 /\ phase = "char"
  BY DEF Init, Sent, Empty
<1> QED  BY <1>1 DEF PairInv, Paired, Open

\* On the wire \n comes right after \r and \r right before \n, whatever is
\* logged and however calls are nested: platform_debug_spew waits ahead of Tx
\* and Tx between the two, so neither is overwritten (Serial::Tx).
THEOREM CrComesBeforeLf == Spec => []CrBeforeLf
<1>1. PairInv => CrBeforeLf
  BY DEF PairInv, Paired, CrBeforeLf
<1> QED  BY InitInv, NextInv, DevicesInit, DevicesNext, PairInit, PairNext, <1>1, PTL DEF Spec

-----------------------------------------------------------------------------
(* Of and CrLf, byte by byte *)

LEMMA OfAppend ==
  ASSUME NEW s \in Seq(Sending), NEW b \in Sending, NEW id
  PROVE  /\ Of(id, s) \in Seq(Bytes) /\ Of(id, <<>>) = <<>>
         /\ b.id = id => Of(id, Append(s, b)) = Append(Of(id, s), b.byte)
         /\ b.id # id => Of(id, Append(s, b)) = Of(id, s)
<1> DEFINE m == [w \in Sending |-> IF w.id = id THEN <<w.byte>> ELSE <<>>]
<1>1. m \in [Sending -> Seq(Bytes)]
  BY DEF Sending
<1>2. ASSUME NEW t \in Seq(Sending) PROVE Of(id, t) = FlattenSeq(Each(m, t))
  <2>1. \A i \in 1 .. Len(t) : m[t[i]] = IF t[i].id = id THEN <<t[i].byte>> ELSE <<>>
    OBVIOUS
  <2>2. Each(m, t) = [i \in 1 .. Len(t) |-> IF t[i].id = id THEN <<t[i].byte>> ELSE <<>>]
    <3> HIDE DEF m
    <3> QED  BY <2>1 DEF Each
  <2> QED  BY <2>2 DEF Of
<1>3. Append(s, b) \in Seq(Sending) /\ <<>> \in Seq(Sending)
  BY AppendProperties, EmptySeq
<1>4. m[b] = IF b.id = id THEN <<b.byte>> ELSE <<>>
  OBVIOUS
<1>5. b.byte \in Bytes
  BY DEF Sending
<1> HIDE DEF m
<1>6. /\ Of(id, s) \in Seq(Bytes) /\ Of(id, <<>>) = <<>>
      /\ Of(id, Append(s, b)) = Of(id, s) \o m[b]
  <2>1. /\ FlattenSeq(Each(m, s)) \in Seq(Bytes) /\ FlattenSeq(Each(m, <<>>)) = <<>>
        /\ FlattenSeq(Each(m, Append(s, b))) = FlattenSeq(Each(m, s)) \o m[b]
    BY <1>1, FlattenEach
  <2> QED  BY <1>2, <1>3, <2>1, Zenon
<1>7. b.id = id => Of(id, Append(s, b)) = Append(Of(id, s), b.byte)
  BY <1>4, <1>5, <1>6, AppendIsConcat
<1>8. b.id # id => Of(id, Append(s, b)) = Of(id, s)
  BY <1>4, <1>6, ConcatEmptySeq
<1> QED  BY <1>6, <1>7, <1>8

LEMMA CrLfAppend ==
  ASSUME NEW s \in Seq(Chars), NEW c \in Chars
  PROVE  /\ CrLf(s) \in Seq(Bytes) /\ CrLf(<<>>) = <<>>
         /\ c = "\n" => CrLf(Append(s, c)) = Append(Append(CrLf(s), "\r"), c)
         /\ c # "\n" => CrLf(Append(s, c)) = Append(CrLf(s), c)
<1> DEFINE m == [d \in Chars |-> IF d = "\n" THEN <<"\r", "\n">> ELSE <<d>>]
<1>1. m \in [Chars -> Seq(Bytes)]
  <2>1. "\r" \in Bytes /\ "\n" \in Bytes /\ \A d \in Chars : d \in Bytes
    BY DEF Bytes, Chars
  <2>2. <<"\r", "\n">> \in Seq(Bytes) /\ \A d \in Chars : <<d>> \in Seq(Bytes)
    BY <2>1
  <2> QED  BY <2>2
<1>2. ASSUME NEW t \in Seq(Chars) PROVE CrLf(t) = FlattenSeq(Each(m, t))
  <2>1. \A i \in 1 .. Len(t) : m[t[i]] = IF t[i] = "\n" THEN <<"\r", "\n">> ELSE <<t[i]>>
    OBVIOUS
  <2>2. Each(m, t) = [i \in 1 .. Len(t) |-> IF t[i] = "\n" THEN <<"\r", "\n">> ELSE <<t[i]>>]
    <3> HIDE DEF m
    <3> QED  BY <2>1 DEF Each
  <2> QED  BY <2>2 DEF CrLf
<1>3. Append(s, c) \in Seq(Chars) /\ <<>> \in Seq(Chars)
  BY AppendProperties, EmptySeq
<1>4. m[c] = IF c = "\n" THEN <<"\r", "\n">> ELSE <<c>>
  OBVIOUS
<1>5. c \in Bytes /\ "\r" \in Bytes
  BY DEF Bytes, Chars
<1> HIDE DEF m
<1>6. /\ CrLf(s) \in Seq(Bytes) /\ CrLf(<<>>) = <<>>
      /\ CrLf(Append(s, c)) = CrLf(s) \o m[c]
  <2>1. /\ FlattenSeq(Each(m, s)) \in Seq(Bytes) /\ FlattenSeq(Each(m, <<>>)) = <<>>
        /\ FlattenSeq(Each(m, Append(s, c))) = FlattenSeq(Each(m, s)) \o m[c]
    BY <1>1, FlattenEach
  <2> QED  BY <1>2, <1>3, <2>1, Zenon
<1>7. c # "\n" => CrLf(Append(s, c)) = Append(CrLf(s), c)
  BY <1>4, <1>5, <1>6, AppendIsConcat
<1>8. ASSUME c = "\n" PROVE CrLf(Append(s, c)) = Append(Append(CrLf(s), "\r"), c)
  <2>1. CrLf(s) \in Seq(Bytes) /\ <<"\r">> \in Seq(Bytes) /\ <<c>> \in Seq(Bytes)
    BY <1>5, <1>6
  <2>2. Append(CrLf(s), "\r") = CrLf(s) \o <<"\r">> /\ Append(CrLf(s), "\r") \in Seq(Bytes)
    BY <1>5, <2>1, AppendIsConcat, AppendProperties
  <2>3. Append(Append(CrLf(s), "\r"), c) = (CrLf(s) \o <<"\r">>) \o <<c>>
    BY <1>5, <2>2, AppendIsConcat
  <2>4. (CrLf(s) \o <<"\r">>) \o <<c>> = CrLf(s) \o (<<"\r">> \o <<c>>)
    BY <2>1, ConcatAssociative
  <2>5. <<"\r">> \o <<c>> = <<"\r", c>>
    BY <1>5, PairConcat
  <2> QED  BY <1>4, <1>6, <1>8, <2>3, <2>4, <2>5
<1> QED  BY <1>6, <1>7, <1>8

-----------------------------------------------------------------------------
(* How far a call is *)

\* What the serial line was given of a call that has put the characters "put"
\* and is in phase "now" of the next one
OnLine(put, rest, now) ==
  CASE now \in {"console", "done"} -> CrLf(Append(put, Head(rest)))
    [] now \in {"wait", "lf"}      -> Append(CrLf(put), "\r")
    [] OTHER                       -> CrLf(put)

\* "onLine" and "shown" are what the devices "to" were given of the line, when
\* "rest" is what is left of it
Written(line, to, onLine, shown, rest, now) ==
  \E put \in Seq(Chars) :
    /\ put \o rest = line
    /\ onLine = IF "serial" \in to THEN OnLine(put, rest, now) ELSE <<>>
    /\ shown = IF "console" \in to THEN put ELSE <<>>

LEMMA NextPut ==
  ASSUME NEW put \in Seq(Chars), NEW rest \in Seq(Chars), rest # <<>>
  PROVE  /\ Append(put, Head(rest)) \in Seq(Chars) /\ Tail(rest) \in Seq(Chars)
         /\ Append(put, Head(rest)) \o Tail(rest) = put \o rest
<1> DEFINE h == Head(rest)  t == Tail(rest)
<1>1. h \in Chars /\ t \in Seq(Chars)
  OBVIOUS
<1>2. <<h>> \o t = rest
  <2>1. Len(rest) \in Nat \ {0} /\ 1 \in 1 .. Len(rest) /\ h = rest[1]
    BY EmptySeq
  <2>2. SubSeq(rest, 1, Len(rest)) = <<rest[1]>> \o SubSeq(rest, 2, Len(rest))
    <3>1. Len(rest) \in 1 .. Len(rest)
      BY <2>1
    <3>2. SubSeq(rest, 1, Len(rest)) = <<rest[1]>> \o SubSeq(rest, 1 + 1, Len(rest))
      BY <2>1, <3>1, SubSeqRecursiveFirst
    <3> QED  BY <3>2
  <2>3. t = SubSeq(rest, 2, Len(rest)) /\ SubSeq(rest, 1, Len(rest)) = rest
    BY TailIsSubSeq, SubSeqFull
  <2> QED  BY <2>1, <2>2, <2>3
<1> HIDE DEF h, t
<1>3. Append(put, h) = put \o <<h>> /\ Append(put, h) \in Seq(Chars)
  BY <1>1, AppendIsConcat, AppendProperties
<1>4. <<h>> \in Seq(Chars)
  BY <1>1
<1>5. (put \o <<h>>) \o t = put \o (<<h>> \o t)
  BY <1>1, <1>4, ConcatAssociative
<1> QED  BY <1>1, <1>2, <1>3, <1>5 DEF h, t

\* The first byte of a character: all of it, or the \r ahead of a \n
LEMMA WrittenTx ==
  ASSUME NEW line, NEW to, NEW onLine, NEW shown, NEW rest \in Seq(Chars), rest # <<>>,
         "serial" \in to, Written(line, to, onLine, shown, rest, "tx"),
         NEW now \in {"console", "done"}
  PROVE  /\ Head(rest) # "\n" => Written(line, to, Append(onLine, Head(rest)), shown, rest, now)
         /\ Written(line, to, Append(onLine, "\r"), shown, rest, "wait")
<1>1. PICK put \in Seq(Chars) :
        /\ put \o rest = line /\ onLine = CrLf(put)
        /\ shown = IF "console" \in to THEN put ELSE <<>>
  BY DEF Written, OnLine
<1>2. Head(rest) \in Chars
  OBVIOUS
<1>3. Head(rest) # "\n" => OnLine(put, rest, now) = Append(onLine, Head(rest))
  BY <1>1, <1>2, CrLfAppend DEF OnLine
<1>4. OnLine(put, rest, "wait") = Append(onLine, "\r")
  BY <1>1 DEF OnLine
<1> QED  BY <1>1, <1>3, <1>4 DEF Written

\* The second byte of a \n
LEMMA WrittenLf ==
  ASSUME NEW line, NEW to, NEW onLine, NEW shown, NEW rest \in Seq(Chars), rest # <<>>,
         Head(rest) = "\n",
         "serial" \in to, Written(line, to, onLine, shown, rest, "lf"),
         NEW now \in {"console", "done"}
  PROVE  Written(line, to, Append(onLine, "\n"), shown, rest, now)
<1>1. PICK put \in Seq(Chars) :
        /\ put \o rest = line /\ onLine = Append(CrLf(put), "\r")
        /\ shown = IF "console" \in to THEN put ELSE <<>>
  BY DEF Written, OnLine
<1>2. "\n" \in Chars
  BY DEF Chars
<1>3. OnLine(put, rest, now) = Append(onLine, "\n")
  BY <1>1, <1>2, CrLfAppend DEF OnLine
<1> QED  BY <1>1, <1>3 DEF Written

\* The waits, and the start of a character
LEMMA WrittenWait ==
  ASSUME NEW line, NEW to, NEW onLine, NEW shown, NEW rest
  PROVE  /\ Written(line, to, onLine, shown, rest, "spew") => Written(line, to, onLine, shown, rest, "tx")
         /\ Written(line, to, onLine, shown, rest, "wait") => Written(line, to, onLine, shown, rest, "lf")
         /\ Written(line, to, onLine, shown, rest, "char") => Written(line, to, onLine, shown, rest, "spew")
         /\ "serial" \notin to /\ Written(line, to, onLine, shown, rest, "char")
              => Written(line, to, onLine, shown, rest, "console")
BY DEF Written, OnLine

\* The end of a character, on the console or past it
LEMMA WrittenChar ==
  ASSUME NEW line, NEW to, NEW onLine, NEW shown, NEW rest \in Seq(Chars), rest # <<>>,
         NEW now \in {"console", "done"}, Written(line, to, onLine, shown, rest, now)
  PROVE  /\ "console" \in to => Written(line, to, onLine, Append(shown, Head(rest)), Tail(rest), "char")
         /\ "console" \notin to => Written(line, to, onLine, shown, Tail(rest), "char")
<1>1. PICK put \in Seq(Chars) :
        /\ put \o rest = line
        /\ onLine = IF "serial" \in to THEN CrLf(Append(put, Head(rest))) ELSE <<>>
        /\ shown = IF "console" \in to THEN put ELSE <<>>
  BY DEF Written, OnLine
<1> DEFINE more == Append(put, Head(rest))
<1>2. more \in Seq(Chars) /\ more \o Tail(rest) = line
  BY <1>1, NextPut
<1>3. OnLine(more, Tail(rest), "char") = CrLf(more)
  BY DEF OnLine
<1> QED  BY <1>1, <1>2, <1>3 DEF Written

\* The start of a call, and its end
LEMMA WrittenStart ==
  ASSUME NEW line \in Seq(Chars), NEW to PROVE Written(line, to, <<>>, <<>>, line, "char")
<1>1. <<>> \in Seq(Chars) /\ <<>> \o line = line
  BY EmptySeq, ConcatEmptySeq
<1>2. CrLf(<<>>) = <<>>
  <2>1. "\n" \in Chars
    BY DEF Chars
  <2> QED  BY <1>1, <2>1, CrLfAppend
<1> QED  BY <1>1, <1>2 DEF Written, OnLine

LEMMA WrittenEnd ==
  ASSUME NEW line, NEW to, NEW onLine, NEW shown, Written(line, to, onLine, shown, <<>>, "char")
  PROVE  /\ onLine = IF "serial" \in to THEN CrLf(line) ELSE <<>>
         /\ shown = IF "console" \in to THEN line ELSE <<>>
<1>1. PICK put \in Seq(Chars) :
        /\ put \o <<>> = line /\ onLine = IF "serial" \in to THEN CrLf(put) ELSE <<>>
        /\ shown = IF "console" \in to THEN put ELSE <<>>
  BY DEF Written, OnLine
<1>2. put = line
  BY <1>1, ConcatEmptySeq
<1> QED  BY <1>1, <1>2

-----------------------------------------------------------------------------
(* Every call, how far it is *)

LineOf(id) == Line(calls[id].disc, calls[id].body)

\* The devices that are there
Reach(id) == Devices(calls[id].disc) \cap (IF gConsole THEN {"serial", "console"} ELSE {"serial"})

\* The calls on the stack: each once, with its devices
Running ==
  \A i \in 1 .. Len(stack) :
    /\ stack[i].id \in 1 .. Len(calls)
    /\ stack[i].devices = Devices(calls[stack[i].id].disc)
    /\ \A j \in 1 .. Len(stack) : stack[i].id = stack[j].id => i = j

\* The phases of a character are at the devices of the call
AtDevice ==
  /\ phase \in {"spew", "tx", "wait", "lf", "done"} => stack # <<>> /\ "serial" \in Top.devices
  /\ phase \in {"wait", "lf"} => Char = "\n"
  /\ phase = "done" => "console" \notin Top.devices

\* A call that has returned is at its end, one that is on the stack where that
\* says, and of calls to come nothing has been written
History ==
  /\ \A id \in Returned :
       Written(LineOf(id), Reach(id), Of(id, Sent), Of(id, console), <<>>, "char")
  /\ \A i \in 1 .. Len(stack) : LET id == stack[i].id IN
       Written(LineOf(id), Reach(id), Of(id, Sent), Of(id, console), stack[i].rest,
               IF i = Len(stack) THEN phase ELSE "char")
  /\ \A id \in Nat : id > Len(calls) => Of(id, Sent) = <<>> /\ Of(id, console) = <<>>

HInv == Running /\ AtDevice /\ History

LEMMA DevicesOnly ==
  ASSUME NEW disc
  PROVE  /\ Devices(disc) \subseteq {"serial", "console"}
         /\ "serial" \notin Devices(disc) <=> disc \in {"TERMINAL", "CTERMINAL"}
         /\ "console" \in Devices(disc) <=> disc \in {"TERMINAL", "CTERMINAL", "BOTH", "CBOTH"}
BY DEF Devices

LEMMA HistoryEnds == IInv /\ DevicesType /\ HInv => LinesComplete
<1> SUFFICES ASSUME DevicesType, HInv, NEW id \in Returned
             PROVE  LET c == calls[id]  line == Line(c.disc, c.body) IN
               /\ Of(id, Sent) = IF c.disc \in {"TERMINAL", "CTERMINAL"} THEN <<>> ELSE CrLf(line)
               /\ Of(id, console) =
                    IF gConsole /\ c.disc \in {"TERMINAL", "CTERMINAL", "BOTH", "CBOTH"}
                      THEN line ELSE <<>>
  BY DEF LinesComplete
<1>1. /\ Of(id, Sent) = IF "serial" \in Reach(id) THEN CrLf(LineOf(id)) ELSE <<>>
      /\ Of(id, console) = IF "console" \in Reach(id) THEN LineOf(id) ELSE <<>>
  BY WrittenEnd DEF HInv, History
<1>2. gConsole \in BOOLEAN
  BY DEF DevicesType
<1> QED  BY <1>1, <1>2, DevicesOnly DEF Reach, LineOf

\* The calls on the stack after a step that has changed the last one alone
LEMMA TopMoves ==
  ASSUME IInv, HInv, stack # <<>>, stack' \in Seq(Call), UNCHANGED <<calls, gConsole>>,
         Len(stack') = Len(stack), \A i \in 1 .. Len(stack) : stack'[i].id = stack[i].id,
         \A i \in 1 .. Len(stack) : stack'[i].devices = stack[i].devices,
         \A i \in 1 .. Len(stack) : i # Len(stack) => stack'[i].rest = stack[i].rest,
         \A id \in Nat : id # Top.id => Of(id, Sent') = Of(id, Sent) /\ Of(id, console') = Of(id, console),
         Written(LineOf(Top.id), Reach(Top.id), Of(Top.id, Sent'), Of(Top.id, console'),
                 stack'[Len(stack)].rest, phase')
  PROVE  Running' /\ History'
<1> DEFINE n == Len(stack)  top == Top.id
<1>1. n \in 1 .. n /\ top = stack[n].id /\ n \in Nat
  BY EmptySeq DEF IInv, Top, Last
<1>2. /\ \A i \in 1 .. n : stack[i].id \in 1 .. Len(calls)
      /\ \A i, j \in 1 .. n : stack[i].id = stack[j].id => i = j
      /\ Len(calls) \in Nat
  BY DEF HInv, Running, IInv
<1>3. Running'
  BY <1>2 DEF HInv, Running
<1>4. LineOf(top) = LineOf(top) /\ \A id : LineOf(id)' = LineOf(id) /\ Reach(id)' = Reach(id)
  BY DEF LineOf, Reach
<1>5. ASSUME NEW id \in Returned'
      PROVE  Written(LineOf(id), Reach(id), Of(id, Sent), Of(id, console), <<>>, "char")'
  <2>1. id \in Returned /\ id # top /\ id \in Nat
    BY <1>1, <1>2, <1>5 DEF Returned
  <2>2. Written(LineOf(id), Reach(id), Of(id, Sent), Of(id, console), <<>>, "char")
    BY <2>1 DEF HInv, History
  <2> QED  BY <1>4, <2>1, <2>2
<1>6. ASSUME NEW i \in 1 .. n, i # n
      PROVE  Written(LineOf(stack[i].id), Reach(stack[i].id), Of(stack[i].id, Sent),
                     Of(stack[i].id, console), stack[i].rest, "char")'
  <2> DEFINE id == stack[i].id
  <2>1. id # top /\ id \in Nat /\ stack'[i].id = id /\ stack'[i].rest = stack[i].rest
    BY <1>1, <1>2, <1>6
  <2>2. Written(LineOf(id), Reach(id), Of(id, Sent), Of(id, console), stack[i].rest, "char")
    BY <1>6 DEF HInv, History
  <2> QED  BY <1>4, <2>1, <2>2
<1>7. Written(LineOf(stack[n].id), Reach(stack[n].id), Of(stack[n].id, Sent),
              Of(stack[n].id, console), stack[n].rest, phase)'
  BY <1>1, <1>4
<1>8. ASSUME NEW id \in Nat, id > Len(calls') PROVE Of(id, Sent') = <<>> /\ Of(id, console') = <<>>
  <2>1. id > Len(calls) /\ id # top
    BY <1>1, <1>2, <1>8
  <2> QED  BY <2>1 DEF HInv, History
<1>9. History'
  BY <1>5, <1>6, <1>7, <1>8 DEF History
<1> QED  BY <1>3, <1>9

\* The call that is running
LEMMA TopAt ==
  ASSUME IInv, DevicesType, HInv, stack # <<>>
  PROVE  /\ Top.id \in 1 .. Len(calls) /\ Top.id \in Nat /\ Top.rest \in Seq(Chars)
         /\ "serial" \in Reach(Top.id) <=> "serial" \in Top.devices
         /\ "console" \in Reach(Top.id) <=> gConsole /\ "console" \in Top.devices
         /\ Written(LineOf(Top.id), Reach(Top.id), Of(Top.id, Sent), Of(Top.id, console), Top.rest, phase)
         /\ Top = stack[Len(stack)] /\ Len(stack) \in 1 .. Len(stack)
<1>1. Top = stack[Len(stack)] /\ Len(stack) \in 1 .. Len(stack)
  BY EmptySeq DEF IInv, Top, Last
<1>2. /\ Top.id \in 1 .. Len(calls) /\ Top.devices = Devices(calls[Top.id].disc)
      /\ Written(LineOf(Top.id), Reach(Top.id), Of(Top.id, Sent), Of(Top.id, console), Top.rest, phase)
  BY <1>1 DEF HInv, Running, History
<1>3. Top.rest \in Seq(Chars)
  BY TopType DEF Call
<1>4. gConsole \in BOOLEAN
  BY DEF DevicesType
<1> QED  BY <1>1, <1>2, <1>3, <1>4 DEF Reach

\* A step of the running call that leaves the stack alone
LEMMA TopStays ==
  ASSUME IInv, DevicesType, HInv, stack # <<>>, UNCHANGED <<stack, calls, gConsole>>,
         \A id \in Nat : id # Top.id => Of(id, Sent') = Of(id, Sent) /\ Of(id, console') = Of(id, console),
         Written(LineOf(Top.id), Reach(Top.id), Of(Top.id, Sent'), Of(Top.id, console'), Top.rest, phase')
  PROVE  Running' /\ History'
<1>1. stack' \in Seq(Call) /\ Len(stack') = Len(stack)
  BY DEF IInv
<1>2. stack'[Len(stack)].rest = Top.rest
  BY TopAt
<1> QED  BY <1>1, <1>2, TopMoves

LEMMA NextCharHistory == ASSUME IInv, DevicesType, HInv, Next_char PROVE HInv'
<1>1. stack # <<>> /\ phase = "char" /\ UNCHANGED <<stack, calls, gConsole, Sent, console>>
        /\ phase' = IF "serial" \in Top.devices THEN "spew" ELSE "console"
  BY DEF Next_char, Busy, Sent
<1>2. Written(LineOf(Top.id), Reach(Top.id), Of(Top.id, Sent'), Of(Top.id, console'), Top.rest, phase')
  BY <1>1, TopAt, WrittenWait
<1>3. Running' /\ History'
  BY <1>1, <1>2, TopStays
<1>4. AtDevice'
  BY <1>1 DEF AtDevice, Top
<1> QED  BY <1>3, <1>4 DEF HInv

LEMMA WaitHistory == ASSUME IInv, DevicesType, HInv, Spew \/ TxWait PROVE HInv'
<1>1. /\ stack # <<>> /\ UNCHANGED <<stack, calls, gConsole, Sent, console>>
      /\ (phase = "spew" /\ phase' = "tx") \/ (phase = "wait" /\ phase' = "lf")
  BY DEF Spew, TxWait, WaitTxRdy, Busy, Sent
<1>2. Written(LineOf(Top.id), Reach(Top.id), Of(Top.id, Sent'), Of(Top.id, console'), Top.rest, phase')
  BY <1>1, TopAt, WrittenWait
<1>3. Running' /\ History'
  BY <1>1, <1>2, TopStays
<1>4. AtDevice'
  BY <1>1 DEF HInv, AtDevice, Top, Char
<1> QED  BY <1>3, <1>4 DEF HInv

\* A byte of the running call is sent
LEMMA SentOf ==
  ASSUME DevicesType, NEW c \in Sending, Sent' = Append(Sent, c), c.id = Top.id, console' = console
  PROVE  /\ Of(Top.id, Sent') = Append(Of(Top.id, Sent), c.byte)
         /\ \A id \in Nat : id # Top.id => Of(id, Sent') = Of(id, Sent) /\ Of(id, console') = Of(id, console)
BY SentType, OfAppend

LEMMA TxHistory == ASSUME IInv, DevicesType, PairInv, HInv, Tx PROVE HInv'
<1>1. /\ stack # <<>> /\ Top.rest # <<>> /\ phase = "tx" /\ thr = Empty
      /\ UNCHANGED <<wire, stack, calls, gConsole, console>>
  BY TopBusy DEF Tx, Busy, PairInv
<1>2. "\r" \in Bytes /\ Char \in Bytes /\ Char = Head(Top.rest)
  BY <1>1, TopType DEF Bytes, Char
<1>3. "serial" \in Reach(Top.id)
  BY <1>1, TopAt DEF HInv, AtDevice
<1>4. Written(LineOf(Top.id), Reach(Top.id), Of(Top.id, Sent), Of(Top.id, console), Top.rest, "tx")
        /\ Top.rest \in Seq(Chars)
  BY <1>1, TopAt
<1>5. CASE Char = "\n"
  <2>1. outb("\r") /\ phase' = "wait"
    BY <1>5 DEF Tx
  <2>2. PICK c \in Sending : Sent' = Append(Sent, c) /\ c.id = Top.id /\ c.byte = "\r"
    BY <1>1, <1>2, <2>1, OutbSends
  <2>3. /\ Of(Top.id, Sent') = Append(Of(Top.id, Sent), "\r")
        /\ \A id \in Nat : id # Top.id => Of(id, Sent') = Of(id, Sent) /\ Of(id, console') = Of(id, console)
    BY <1>1, <2>2, SentOf
  <2>4. Written(LineOf(Top.id), Reach(Top.id), Of(Top.id, Sent'), Of(Top.id, console'), Top.rest, phase')
    BY <1>1, <1>3, <1>4, <2>1, <2>3, WrittenTx
  <2>5. Running' /\ History'
    BY <1>1, <2>3, <2>4, TopStays
  <2>6. AtDevice'
    BY <1>1, <1>5, <2>1 DEF HInv, AtDevice, Top, Char
  <2> QED  BY <2>5, <2>6 DEF HInv
<1>6. CASE Char # "\n"
  <2>1. outb(Char) /\ phase' = AfterSerial
    BY <1>6 DEF Tx
  <2>2. PICK c \in Sending : Sent' = Append(Sent, c) /\ c.id = Top.id /\ c.byte = Char
    BY <1>1, <1>2, <2>1, OutbSends
  <2>3. /\ Of(Top.id, Sent') = Append(Of(Top.id, Sent), Head(Top.rest))
        /\ \A id \in Nat : id # Top.id => Of(id, Sent') = Of(id, Sent) /\ Of(id, console') = Of(id, console)
    BY <1>1, <1>2, <2>2, SentOf
  <2>4. phase' \in {"console", "done"}
    BY <2>1 DEF AfterSerial
  <2>5. Written(LineOf(Top.id), Reach(Top.id), Of(Top.id, Sent'), Of(Top.id, console'), Top.rest, phase')
    BY <1>1, <1>2, <1>3, <1>4, <1>6, <2>3, <2>4, WrittenTx
  <2>6. Running' /\ History'
    BY <1>1, <2>3, <2>5, TopStays
  <2>7. AtDevice'
    BY <1>1, <2>1 DEF HInv, AtDevice, Top, Char, AfterSerial
  <2> QED  BY <2>6, <2>7 DEF HInv
<1> QED  BY <1>5, <1>6

LEMMA TxLfHistory == ASSUME IInv, DevicesType, PairInv, HInv, TxLf PROVE HInv'
<1>1. /\ stack # <<>> /\ Top.rest # <<>> /\ phase = "lf" /\ thr = Empty
      /\ UNCHANGED <<wire, stack, calls, gConsole, console>> /\ outb("\n") /\ phase' = AfterSerial
  BY TopBusy DEF TxLf, Busy, PairInv
<1>2. "\n" \in Bytes /\ Head(Top.rest) = "\n"
  BY <1>1 DEF Bytes, Chars, HInv, AtDevice, Char
<1>3. "serial" \in Reach(Top.id)
  BY <1>1, TopAt DEF HInv, AtDevice
<1>4. Written(LineOf(Top.id), Reach(Top.id), Of(Top.id, Sent), Of(Top.id, console), Top.rest, "lf")
        /\ Top.rest \in Seq(Chars)
  BY <1>1, TopAt
<1>5. PICK c \in Sending : Sent' = Append(Sent, c) /\ c.id = Top.id /\ c.byte = "\n"
  BY <1>1, <1>2, OutbSends
<1>6. /\ Of(Top.id, Sent') = Append(Of(Top.id, Sent), "\n")
      /\ \A id \in Nat : id # Top.id => Of(id, Sent') = Of(id, Sent) /\ Of(id, console') = Of(id, console)
  BY <1>1, <1>5, SentOf
<1>7. phase' \in {"console", "done"}
  BY <1>1 DEF AfterSerial
<1>8. Written(LineOf(Top.id), Reach(Top.id), Of(Top.id, Sent'), Of(Top.id, console'), Top.rest, phase')
  BY <1>1, <1>2, <1>3, <1>4, <1>6, <1>7, WrittenLf
<1>9. Running' /\ History'
  BY <1>1, <1>6, <1>8, TopStays
<1>10. AtDevice'
  BY <1>1 DEF HInv, AtDevice, Top, Char, AfterSerial
<1> QED  BY <1>9, <1>10 DEF HInv

\* A byte of the running call is shown
LEMMA ShownOf ==
  ASSUME IInv, DevicesType, stack # <<>>, Top.rest # <<>>, Sent' = Sent,
         console' = Append(console, [id |-> Top.id, byte |-> Char])
  PROVE  /\ Of(Top.id, console') = Append(Of(Top.id, console), Char)
         /\ \A id \in Nat : id # Top.id => Of(id, Sent') = Of(id, Sent) /\ Of(id, console') = Of(id, console)
<1> DEFINE b == [id |-> Top.id, byte |-> Char]
<1>1. b \in Sending /\ b.id = Top.id /\ b.byte = Char
  BY TopType DEF Sending
<1>2. console \in Seq(Sending)
  <2>1. Shown \subseteq Sending
    BY DEF Shown, Sending, Bytes
  <2> QED  BY <2>1, SeqMonotonic DEF DevicesType
<1>3. console' = Append(console, b)
  OBVIOUS
<1> HIDE DEF b
<1> QED  BY <1>1, <1>2, <1>3, OfAppend

\* What the devices have of every call after the end of a character
LEMMA CharWritten ==
  ASSUME IInv, DevicesType, HInv, stack # <<>>, Top.rest # <<>>, phase \in {"console", "done"},
         Sent' = Sent,
         console' = IF "console" \in Reach(Top.id)
                      THEN Append(console, [id |-> Top.id, byte |-> Char]) ELSE console
  PROVE  /\ \A id \in Nat : id # Top.id => Of(id, Sent') = Of(id, Sent) /\ Of(id, console') = Of(id, console)
         /\ Written(LineOf(Top.id), Reach(Top.id), Of(Top.id, Sent'), Of(Top.id, console'),
                    Tail(Top.rest), "char")
<1>1. /\ Written(LineOf(Top.id), Reach(Top.id), Of(Top.id, Sent), Of(Top.id, console), Top.rest, phase)
      /\ Top.rest \in Seq(Chars) /\ Char = Head(Top.rest)
  BY TopAt DEF Char
<1>2. CASE "console" \in Reach(Top.id)
  BY <1>1, <1>2, ShownOf, WrittenChar
<1>3. CASE "console" \notin Reach(Top.id)
  BY <1>1, <1>3, WrittenChar
<1> QED  BY <1>2, <1>3

\* The end of a character: on the console it is shown if there is one
LEMMA ConsoleShows ==
  ASSUME IInv, DevicesType, HInv, _outchar_console
  PROVE  /\ stack # <<>> /\ Top.rest # <<>> /\ phase = "console" /\ Sent' = Sent
         /\ console' = IF "console" \in Reach(Top.id)
                         THEN Append(console, [id |-> Top.id, byte |-> Char]) ELSE console
<1>1. stack # <<>> /\ Top.rest # <<>> /\ phase = "console" /\ Sent' = Sent
  BY TopBusy DEF _outchar_console, Busy, Sent
<1>2. "console" \in Top.devices
  BY <1>1 DEF IInv, AtConsole
<1>3. gConsole <=> "console" \in Reach(Top.id)
  BY <1>1, <1>2, TopAt
<1> QED  BY <1>1, <1>3 DEF _outchar_console

LEMMA CharHistory ==
  ASSUME IInv, DevicesType, HInv,
         Done \/ (_outchar_console /\ ~(gConsole /\ Unhandled))
  PROVE  HInv'
<1>1. /\ stack # <<>> /\ Top.rest # <<>> /\ phase \in {"console", "done"} /\ Sent' = Sent
      /\ console' = IF "console" \in Reach(Top.id)
                      THEN Append(console, [id |-> Top.id, byte |-> Char]) ELSE console
  <2>1. CASE Done
    <3>1. stack # <<>> /\ phase = "done" /\ Sent' = Sent /\ console' = console
      BY <2>1 DEF Done, Busy, Sent
    <3>2. Top.rest # <<>> /\ "console" \notin Reach(Top.id)
      BY <3>1, TopBusy, TopAt DEF HInv, AtDevice
    <3> QED  BY <3>1, <3>2
  <2>2. CASE _outchar_console
    BY <2>2, ConsoleShows
  <2> QED  BY <2>1, <2>2
<1>2. stack' = Taken /\ calls' = calls /\ gConsole' = gConsole /\ phase' = "char"
  BY DEF Done, _outchar_console
<1>3. stack \in Seq(Call)
  BY DEF IInv
<1>4. /\ stack' \in Seq(Call) /\ Len(stack') = Len(stack)
      /\ \A i \in 1 .. Len(stack) : stack'[i].id = stack[i].id
      /\ \A i \in 1 .. Len(stack) : stack'[i].devices = stack[i].devices
      /\ \A i \in 1 .. Len(stack) : i # Len(stack) => stack'[i].rest = stack[i].rest
      /\ stack'[Len(stack)].rest = Tail(Top.rest)
  BY <1>1, <1>2, <1>3, TakenKeeps, Zenon
<1>5. /\ \A id \in Nat : id # Top.id => Of(id, Sent') = Of(id, Sent) /\ Of(id, console') = Of(id, console)
      /\ Written(LineOf(Top.id), Reach(Top.id), Of(Top.id, Sent'), Of(Top.id, console'),
                 stack'[Len(stack)].rest, phase')
  BY <1>1, <1>2, <1>4, CharWritten
<1>6. Running' /\ History'
  BY <1>1, <1>2, <1>4, <1>5, TopMoves
<1>7. AtDevice'
  BY <1>2 DEF AtDevice
<1> QED  BY <1>6, <1>7 DEF HInv

\* A new call: its line is still to be written, the others keep theirs
LEMMA NewCall ==
  ASSUME IInv, NEW disc \in Discs, NEW body \in Seq(Chars), Enter(disc, body), gConsole' = gConsole,
         NEW new \in Nat, new = Len(calls) + 1
  PROVE  /\ Len(calls') = new /\ Activation(disc, body).id = new
         /\ Activation(disc, body).devices = Devices(calls'[new].disc)
         /\ LineOf(new)' = Activation(disc, body).rest /\ LineOf(new)' \in Seq(Chars)
         /\ \A id \in 1 .. Len(calls) :
              calls'[id] = calls[id] /\ LineOf(id)' = LineOf(id) /\ Reach(id)' = Reach(id)
<1> DEFINE entry == [disc |-> disc, body |-> body]
<1>1. entry \in Entry /\ calls' = Append(calls, entry) /\ Len(calls) < MaxCalls
  BY DEF Entry, Enter
<1>2. entry.disc = disc /\ entry.body = body
  OBVIOUS
<1>3. Activation(disc, body).id = Len(calls) + 1 /\ Activation(disc, body).devices = Devices(disc)
        /\ Activation(disc, body).rest = Line(disc, body)
  BY DEF Activation
<1> HIDE DEF entry
<1>4. /\ Len(calls') = Len(calls) + 1 /\ Len(calls) \in Nat /\ calls'[Len(calls) + 1] = entry
      /\ \A id \in 1 .. Len(calls) : calls'[id] = calls[id]
  BY <1>1, AppendProperties DEF IInv
<1>5. Line(disc, body) \in Seq(Chars)
  BY LineType
<1>6. LineOf(new)' = Line(disc, body)
  BY <1>2, <1>4 DEF LineOf
<1>7. \A id \in 1 .. Len(calls) : LineOf(id)' = LineOf(id) /\ Reach(id)' = Reach(id)
  BY <1>4 DEF LineOf, Reach
<1> QED  BY <1>2, <1>3, <1>4, <1>5, <1>6, <1>7

LEMMA LogHistory ==
  ASSUME IInv, DevicesType, HInv, NEW disc \in Discs, NEW body \in Bodies, log(disc, body)
  PROVE  HInv'
<1> DEFINE act == Activation(disc, body)
<1>0. PICK new \in Nat : new = Len(calls) + 1
  BY DEF IInv
<1>1. /\ body \in Seq(Chars) /\ stack = <<>> /\ Len(stack) = 0 /\ stack' = <<act>> /\ Enter(disc, body)
      /\ UNCHANGED <<Sent, console, gConsole>> /\ phase' = "char"
  BY BodiesAssumption DEF log, IInv, AtConsole, Sent
<1>2. /\ Len(calls') = new /\ act.id = new /\ act.devices = Devices(calls'[new].disc)
      /\ LineOf(new)' = act.rest /\ LineOf(new)' \in Seq(Chars)
      /\ \A id \in 1 .. Len(calls) :
           calls'[id] = calls[id] /\ LineOf(id)' = LineOf(id) /\ Reach(id)' = Reach(id)
  BY <1>0, <1>1, NewCall
<1>3. Len(calls) \in Nat
  BY DEF IInv
<1> HIDE DEF act
<1>4. Len(stack') = 1 /\ stack'[1] = act
  BY <1>1
<1>5. Running'
  BY <1>0, <1>2, <1>3, <1>4 DEF Running
<1>6. ASSUME NEW id \in Returned'
      PROVE  Written(LineOf(id), Reach(id), Of(id, Sent), Of(id, console), <<>>, "char")'
  <2>1. id \in 1 .. Len(calls)
    BY <1>0, <1>2, <1>3, <1>4, <1>6 DEF Returned
  <2>2. id \in Returned
    BY <1>1, <2>1 DEF Returned
  <2>3. Written(LineOf(id), Reach(id), Of(id, Sent), Of(id, console), <<>>, "char")
    BY <2>2 DEF HInv, History
  <2> QED  BY <1>1, <1>2, <2>1, <2>3
<1>7. \A id \in Nat : id > Len(calls) => Of(id, Sent') = <<>> /\ Of(id, console') = <<>>
  BY <1>1 DEF HInv, History
<1>8. Written(LineOf(new)', Reach(new)', <<>>, <<>>, LineOf(new)', "char")
  BY <1>2, WrittenStart
<1>9. Written(LineOf(new), Reach(new), Of(new, Sent), Of(new, console), stack[1].rest, phase)'
  BY <1>0, <1>1, <1>2, <1>3, <1>4, <1>7, <1>8
<1>10. \A id \in Nat : id > Len(calls') => Of(id, Sent') = <<>> /\ Of(id, console') = <<>>
  BY <1>0, <1>2, <1>3, <1>7
<1>11. History'
  BY <1>2, <1>4, <1>6, <1>9, <1>10 DEF History
<1>12. AtDevice'
  BY <1>1 DEF AtDevice
<1> QED  BY <1>5, <1>11, <1>12 DEF HInv

\* processAnsi logs: the call is put on top of the one at the console
LEMMA NestedHistory ==
  ASSUME IInv, DevicesType, HInv, _outchar_console, gConsole, Unhandled
  PROVE  HInv'
<1> DEFINE act == Activation("", <<"text">>)
<1>0. stack # <<>>
  BY ConsoleShows
<1>n. PICK new \in Nat : new = Len(calls) + 1
  BY DEF IInv
<1>t. PICK top \in Nat : top = Top.id
  BY <1>0, TopAt
<1>1. /\ stack # <<>> /\ Top.rest # <<>> /\ phase = "console" /\ Sent' = Sent
      /\ console' = IF "console" \in Reach(top)
                      THEN Append(console, [id |-> top, byte |-> Char]) ELSE console
  BY <1>t, ConsoleShows
<1>2. /\ phase' = "char" /\ gConsole' = gConsole
      /\ stack' = Append(Taken, act) /\ Enter("", <<"text">>)
  BY DEF _outchar_console
<1>3. "" \in Discs /\ <<"text">> \in Seq(Chars)
  <2>1. "text" \in Chars
    BY DEF Chars
  <2> QED  BY <2>1 DEF Discs
<1>4. /\ Len(calls') = new /\ act.id = new /\ act.devices = Devices(calls'[new].disc)
      /\ LineOf(new)' = act.rest /\ LineOf(new)' \in Seq(Chars)
      /\ \A id \in 1 .. Len(calls) :
           calls'[id] = calls[id] /\ LineOf(id)' = LineOf(id) /\ Reach(id)' = Reach(id)
  BY <1>n, <1>2, <1>3, NewCall
<1>5. Len(calls) \in Nat /\ Len(calls) < MaxCalls /\ stack \in Seq(Call) /\ calls \in Seq(Entry)
  <2>1. Len(calls) < MaxCalls
    BY <1>2 DEF Enter
  <2> QED  BY <2>1 DEF IInv
<1>6. act \in Call
  BY <1>3, <1>5, ActivationType
<1>7. Len(stack) = 1
  BY <1>1, AloneAtConsole DEF IInv, AtConsole
<1>8. /\ Taken \in Seq(Call) /\ Len(Taken) = 1
      /\ Taken[1].devices = stack[1].devices /\ Taken[1].id = stack[1].id
      /\ Taken[1].rest = Tail(Top.rest)
  <2>1. 1 \in 1 .. 1
    OBVIOUS
  <2> QED  BY <1>1, <1>5, <1>7, <2>1, TakenKeeps, Zenon
<1>9. /\ Len(stack') = 2 /\ stack'[2] = act
      /\ stack'[1].devices = stack[1].devices /\ stack'[1].id = stack[1].id
      /\ stack'[1].rest = Tail(Top.rest)
  <2> HIDE DEF act
  <2>1. Len(stack') = 2 /\ stack'[1] = Taken[1] /\ stack'[2] = act
    BY <1>2, <1>6, <1>8, Nested
  <2> QED  BY <1>8, <2>1
<1>10. /\ top = stack[1].id /\ top \in 1 .. Len(calls) /\ top \in Nat
       /\ stack[1].devices = Devices(calls[top].disc)
  BY <1>t, <1>1, <1>7, TopAt DEF HInv, Running
<1>11. /\ \A id \in Nat : id # top => Of(id, Sent') = Of(id, Sent) /\ Of(id, console') = Of(id, console)
       /\ Written(LineOf(top), Reach(top), Of(top, Sent'), Of(top, console'), Tail(Top.rest), "char")
  BY <1>t, <1>1, CharWritten
<1> HIDE DEF act
<1>12. Running'
  <2>1. /\ stack'[1].id = top /\ stack'[1].devices = Devices(calls'[top].disc)
        /\ stack'[2].id = new /\ stack'[2].devices = Devices(calls'[new].disc)
    BY <1>4, <1>9, <1>10
  <2>2. top \in 1 .. new /\ new \in 1 .. new /\ top # new
    BY <1>n, <1>5, <1>10
  <2> QED  BY <1>4, <1>9, <2>1, <2>2 DEF Running
<1>13. ASSUME NEW id \in Returned'
       PROVE  Written(LineOf(id), Reach(id), Of(id, Sent), Of(id, console), <<>>, "char")'
  <2>1. id \in 1 .. Len(calls) /\ id # top /\ id \in Nat
    BY <1>n, <1>4, <1>5, <1>9, <1>10, <1>13 DEF Returned
  <2>2. id \in Returned
    BY <1>7, <1>10, <2>1 DEF Returned
  <2>3. Written(LineOf(id), Reach(id), Of(id, Sent), Of(id, console), <<>>, "char")
    BY <2>2 DEF HInv, History
  <2> QED  BY <1>4, <1>11, <2>1, <2>3
<1>14. \A id \in Nat : id > Len(calls) => Of(id, Sent') = <<>> /\ Of(id, console') = <<>>
  BY <1>5, <1>10, <1>11 DEF HInv, History
<1>15. Written(LineOf(top), Reach(top), Of(top, Sent), Of(top, console), stack[1].rest, "char")'
  BY <1>4, <1>9, <1>10, <1>11
<1>16. Written(LineOf(new), Reach(new), Of(new, Sent), Of(new, console), stack[2].rest, phase)'
  <2>1. Written(LineOf(new)', Reach(new)', <<>>, <<>>, LineOf(new)', "char")
    BY <1>4, WrittenStart
  <2>2. Of(new, Sent') = <<>> /\ Of(new, console') = <<>>
    BY <1>n, <1>5, <1>14
  <2>3. stack'[2].rest = LineOf(new)'
    BY <1>4, <1>9
  <2> QED  BY <1>2, <2>1, <2>2, <2>3
<1>17. \A id \in Nat : id > Len(calls') => Of(id, Sent') = <<>> /\ Of(id, console') = <<>>
  BY <1>n, <1>4, <1>5, <1>14
<1>18. History'
  BY <1>4, <1>9, <1>10, <1>13, <1>15, <1>16, <1>17 DEF History
<1>19. AtDevice'
  BY <1>2 DEF AtDevice
<1> QED  BY <1>12, <1>18, <1>19 DEF HInv

LEMMA ReturnHistory == ASSUME IInv, DevicesType, HInv, Return PROVE HInv'
<1> DEFINE n == Len(stack)
<1>1. /\ stack # <<>> /\ Top.rest = <<>> /\ phase = "char" /\ phase' = "char"
      /\ stack' = Front(stack) /\ UNCHANGED <<calls, Sent, console, gConsole>>
  BY DEF Return, Busy, Sent
<1>2. n \in Nat /\ n > 0 /\ Top = stack[n] /\ n \in 1 .. n
  BY <1>1, TopAt
<1>3. Len(stack') = n - 1 /\ \A i \in 1 .. n - 1 : stack'[i] = stack[i] /\ i \in 1 .. n /\ i # n
  BY <1>1, <1>2, FrontKeeps DEF IInv
<1>4. /\ \A id : LineOf(id)' = LineOf(id) /\ Reach(id)' = Reach(id)
      /\ \A id : Of(id, Sent') = Of(id, Sent) /\ Of(id, console') = Of(id, console)
  BY <1>1 DEF LineOf, Reach
<1> HIDE DEF n
<1>5. Running'
  BY <1>1, <1>3 DEF HInv, Running, n
<1>6. ASSUME NEW id \in Returned'
      PROVE  Written(LineOf(id), Reach(id), Of(id, Sent), Of(id, console), <<>>, "char")'
  <2>1. id \in 1 .. Len(calls) /\ \A i \in 1 .. n - 1 : stack[i].id # id
    BY <1>1, <1>3, <1>6 DEF Returned
  <2>2. \A i \in 1 .. n : i \in 1 .. n - 1 \/ i = n
    BY <1>2
  <2>3. id # Top.id => \A i \in 1 .. n : stack[i].id # id
    BY <1>2, <2>1, <2>2, Zenon
  <2>4. id \in Returned \/ id = Top.id
    BY <2>1, <2>3 DEF Returned, n
  <2>5. Written(LineOf(id), Reach(id), Of(id, Sent), Of(id, console), <<>>, "char")
    BY <1>1, <2>4, TopAt DEF HInv, History
  <2> QED  BY <1>4, <2>5
<1>7. ASSUME NEW i \in 1 .. n - 1
      PROVE  Written(LineOf(stack[i].id), Reach(stack[i].id), Of(stack[i].id, Sent),
                     Of(stack[i].id, console), stack[i].rest, "char")'
  <2> DEFINE id == stack[i].id
  <2>1. Written(LineOf(id), Reach(id), Of(id, Sent), Of(id, console), stack[i].rest, "char")
    BY <1>3 DEF HInv, History, n
  <2> QED  BY <1>3, <1>4, <2>1
<1>8. \A id \in Nat : id > Len(calls') => Of(id, Sent') = <<>> /\ Of(id, console') = <<>>
  BY <1>1 DEF HInv, History
<1>9. History'
  BY <1>1, <1>3, <1>6, <1>7, <1>8 DEF History
<1>10. AtDevice'
  BY <1>1 DEF AtDevice
<1> QED  BY <1>5, <1>9, <1>10 DEF HInv

LEMMA HistoryInit == Init => HInv
<1> SUFFICES ASSUME Init PROVE HInv
  OBVIOUS
<1>1. /\ calls = <<>> /\ stack = <<>> /\ phase = "char" /\ Sent = <<>> /\ console = <<>>
      /\ Len(calls) = 0 /\ Len(stack) = 0
  BY DEF Init, Sent, Empty
<1>2. \A id : Of(id, <<>>) = <<>>
  <2>1. <<>> \in Seq(Sending)
    BY EmptySeq
  <2>2. \E b : b \in Sending
    <3>1. [id |-> 1, byte |-> "\r"] \in Sending
      BY CallsAssumption DEF Sending, Bytes
    <3> QED  BY <3>1
  <2> QED  BY <2>1, <2>2, OfAppend
<1>3. Returned = {}
  BY <1>1 DEF Returned
<1>4. History
  BY <1>1, <1>2, <1>3 DEF History
<1> QED  BY <1>1, <1>4 DEF HInv, Running, AtDevice

LEMMA HistoryNext == IInv /\ DevicesType /\ PairInv /\ HInv /\ [Next]_vars => HInv'
<1> SUFFICES ASSUME IInv, DevicesType, PairInv, HInv, [Next]_vars PROVE HInv'
  OBVIOUS
<1>1. ASSUME UNCHANGED <<calls, stack, phase, gConsole, Sent, console>> PROVE HInv'
  BY <1>1 DEF HInv, Running, AtDevice, History, Returned, LineOf, Reach, Top, Char
<1>2. ASSUME NEW disc \in Discs, NEW body \in Bodies, log(disc, body) PROVE HInv'
  BY <1>2, LogHistory
<1>3. CASE Next_char
  BY <1>3, NextCharHistory
<1>4. CASE Return
  BY <1>4, ReturnHistory
<1>5. CASE Spew \/ TxWait
  BY <1>5, WaitHistory
<1>6. CASE Tx
  BY <1>6, TxHistory
<1>7. CASE TxLf
  BY <1>7, TxLfHistory
<1>8. CASE _outchar_console \/ Done
  BY <1>8, CharHistory, NestedHistory
<1>9. CASE Transmit
  <2>1. Sent' = Sent
    BY <1>9, TransmitSends
  <2> QED  BY <1>1, <1>9, <2>1 DEF Transmit
<1>10. CASE UNCHANGED vars
  BY <1>1, <1>10 DEF vars, Sent
<1> QED  BY <1>2, <1>3, <1>4, <1>5, <1>6, <1>7, <1>8, <1>9, <1>10 DEF Next, Step

\* A call that has returned has put its line, whole and in order, on the
\* devices its format names and on no other, whatever is logged, from wherever
\* and however often: a nested call takes its own bytes only, and none is
\* overwritten in the transmitter (log, _outchar_*, WaitTxRdy).
THEOREM LinesAreComplete == Spec => []LinesComplete
BY InitInv, NextInv, DevicesInit, DevicesNext, PairInit, PairNext, HistoryInit, HistoryNext,
   HistoryEnds, PTL DEF Spec

-----------------------------------------------------------------------------
(* The serial line: Init and Tx against a UART that sends in its own time *)

Frames == [byte : Byte, format : Nat, divisor : Nat]

\* Of a byte on its way, of one in a queue that may hold one of the kernel's,
\* and of one in the text, what is to be seen on the line
Kept == [w \in Frames |-> IF w.byte \in Noise THEN <<>> ELSE <<w>>]
Coming(s) == IF s = <<>> \/ s[1] \in Noise THEN <<>> ELSE <<Item(s[1])>>
Lines == [b \in Byte |-> IF b = LF THEN <<Item(CR), Item(LF)>>
                                        ELSE <<Item(b)>>]

AllNoise(s) == \A k \in 1 .. Len(s) : s[k] \in Noise
LineNoise   == \A k \in 1 .. Len(sent) : sent[k].byte \in Noise

\* The text that platform_debug_spew has gone past
Past == Len(Text) - Len(text)

UartTypes ==
  /\ at \in {"init", "spew", "tx", "wait", "lf"} /\ made \in 0 .. 11
  /\ reg \in [ier : Nat, lcr : Nat, mcr : Nat, dll : Nat, dlm : Nat]
  /\ text \in Seq(Byte) /\ sent \in Seq(Frames)
  /\ fifo \in Seq(Byte) /\ shift \in Seq(Byte) /\ Len(shift) <= 1

\* The registers after so many accesses, and once Init is through
Registers ==
  /\ at = "init" =>
       /\ made <= 10
       /\ made >= 2 => reg.lcr = IF made <= 4 THEN 128 ELSE 3
       /\ made >= 3 => reg.dll = 1
       /\ made >= 4 => reg.dlm = 0
  /\ at # "init" => reg.lcr = 3 /\ reg.dll = 1 /\ reg.dlm = 0 /\ reg.mcr = 15

\* In the FIFO there is one byte of the kernel's at most, and then nothing
\* else; nothing but noise is ahead of noise
Queues ==
  /\ AllNoise(fifo) \/ Len(fifo) = 1
  /\ at \in {"tx", "lf"} => fifo = <<>>
  /\ at = "init" => AllNoise(fifo) /\ AllNoise(shift) /\ LineNoise
  /\ fifo # <<>> /\ AllNoise(fifo) => AllNoise(shift) /\ LineNoise
  /\ shift # <<>> /\ AllNoise(shift) => LineNoise
  /\ \A k \in 1 .. Len(sent) : sent[k].byte \in Noise =>
       \A l \in 1 .. k : sent[l].byte \in Noise

\* What is due on the line for that text, and for a newline that is half written
Due   == FlattenSeq(Each(Lines, SubSeq(Text, 1, Past)))
CrDue == IF at \in {"wait", "lf"} THEN <<Item(CR)>> ELSE <<>>

\* What is on the line, in the shift register and in the FIFO is what has been
\* written of the text
Stream ==
  /\ Past \in 0 .. Len(Text) /\ \A i \in 1 .. Len(text) : text[i] = Text[Past + i]
  /\ at = "init" => text = Text
  /\ at \in {"tx", "wait", "lf"} => text # <<>>
  /\ at \in {"wait", "lf"} => Head(text) = LF
  /\ Kernel(sent) \o (Coming(shift) \o Coming(fifo)) = Due \o CrDue

UartInv == UartTypes /\ Registers /\ Queues /\ Stream

-----------------------------------------------------------------------------

LEMMA ShownTypes ==
  /\ Kept \in [Frames -> Seq(Frames)]
  /\ \A b \in Byte : Item(b) \in Frames
  /\ \A s \in Seq(Byte) : Coming(s) \in Seq(Frames)
  /\ Lines \in [Byte -> Seq(Frames)]
<1>1. \A w \in Frames : <<>> \in Seq(Frames) /\ <<w>> \in Seq(Frames)
  OBVIOUS
<1>2. \A b \in Byte : Item(b) \in Frames
  BY DEF Item, Frames
<1>3. \A s \in Seq(Byte) : s # <<>> => s[1] \in Byte
  BY EmptySeq
<1>4. ASSUME NEW s \in Seq(Byte) PROVE Coming(s) \in Seq(Frames)
  <2>1. s # <<>> => Item(s[1]) \in Frames
    BY <1>2, <1>3
  <2>2. <<>> \in Seq(Frames)
    OBVIOUS
  <2>3. s # <<>> => <<Item(s[1])>> \in Seq(Frames)
    BY <2>1
  <2> QED  BY <2>2, <2>3 DEF Coming
<1>5. \A w \in Frames : Kept[w] \in Seq(Frames)
  BY <1>1, Zenon DEF Kept
<1>6. Kept \in [Frames -> Seq(Frames)]
  BY <1>5, Zenon DEF Kept
<1>7. ASSUME NEW b \in Byte PROVE Lines[b] \in Seq(Frames)
  <2>1. 13 \in Byte /\ 10 \in Byte
    BY DEF Byte
  <2>2. Item(13) \in Frames /\ Item(10) \in Frames /\ Item(b) \in Frames
    BY <1>2, <2>1
  <2>3. <<Item(13), Item(10)>> \in Seq(Frames) /\ <<Item(b)>> \in Seq(Frames)
    BY <2>2
  <2> QED  BY <2>3, Zenon DEF Lines, CR, LF
<1>8. Lines \in [Byte -> Seq(Frames)]
  BY <1>7, Zenon DEF Lines
<1> QED  BY <1>2, <1>4, <1>6, <1>8

LEMMA KernelAppend ==
  ASSUME NEW q \in Seq(Frames), NEW w \in Frames
  PROVE  /\ Kernel(q) \in Seq(Frames) /\ Kernel(<<>>) = <<>>
         /\ Kernel(Append(q, w)) = Kernel(q) \o Kept[w]
<1>1. ASSUME NEW s \in Seq(Frames) PROVE Kernel(s) = FlattenSeq(Each(Kept, s))
  <2>1. DOMAIN s = 1 .. Len(s) /\ \A k \in 1 .. Len(s) : s[k] \in Frames
    OBVIOUS
  <2>2. [k \in DOMAIN s |-> IF s[k].byte \in Noise THEN <<>> ELSE <<s[k]>>] = Each(Kept, s)
    BY <2>1, Zenon DEF Each, Kept
  <2> QED  BY <2>2, Zenon DEF Kernel
<1>2. /\ FlattenSeq(Each(Kept, q)) \in Seq(Frames) /\ FlattenSeq(Each(Kept, <<>>)) = <<>>
      /\ FlattenSeq(Each(Kept, Append(q, w))) = FlattenSeq(Each(Kept, q)) \o Kept[w]
  <2>1. Kept \in [Frames -> Seq(Frames)]
    BY ShownTypes
  <2>2. EachAppends(Frames, Frames, Kept, q, w)
    BY <2>1, FlattenEachAppends, Zenon
  <2> QED  BY <2>2, Zenon DEF EachAppends
<1>3. <<>> \in Seq(Frames) /\ Append(q, w) \in Seq(Frames)
  OBVIOUS
<1> QED  BY <1>1, <1>2, <1>3

LEMMA CrLfIsEach ==
  ASSUME NEW s \in Seq(Byte) PROVE Legible(s) = FlattenSeq(Each(Lines, s))
<1>1. DOMAIN s = 1 .. Len(s) /\ \A k \in 1 .. Len(s) : s[k] \in Byte
  OBVIOUS
<1>2. [k \in DOMAIN s |-> IF s[k] = LF THEN <<Item(CR), Item(LF)>>
                                            ELSE <<Item(s[k])>>] = Each(Lines, s)
  BY <1>1, Zenon DEF Each, Lines
<1> QED  BY <1>2, Zenon DEF Legible

-----------------------------------------------------------------------------
(* The steps of Init *)

LEMMA ProgramAt ==
  /\ Len(Program) = 11
  /\ Program[1] = Out(1, 0)    /\ Program[2] = Out(3, 128)
  /\ Program[3] = Out(0, 1)    /\ Program[4] = Out(1, 0)
  /\ Program[5] = Out(3, 3)    /\ Program[6] = Out(2, 199)
  /\ Program[7] = Out(4, 11)   /\ Program[8] = Out(4, 30)
  /\ Program[9] = Out(0, 174)  /\ Program[10] = In(0)
  /\ Program[11] = Out(4, 15)
BY DEF Program, Test

\* A write to the FIFO during Init is that of the test byte
LEMMA OutbFifo ==
  ASSUME UartInv, at = "init", NEW port \in Nat, NEW value \in Nat, WriteRegister(port, value),
         port = 0 => reg.lcr >= 128 \/ value = 174
  PROVE  fifo' \in Seq(Byte) /\ AllNoise(fifo')
<1>1. fifo \in Seq(Byte) /\ AllNoise(fifo)
  BY DEF UartInv, UartTypes, Queues
<1>2. fifo' = <<>> \/ fifo' = fifo \/ (value = 174 /\ fifo' = Append(fifo, value))
  BY DEF WriteRegister, Dlab
<1>3. ASSUME value = 174, fifo' = Append(fifo, value) PROVE fifo' \in Seq(Byte) /\ AllNoise(fifo')
  <2>1. value \in Byte /\ value \in Noise
    BY <1>3 DEF Byte, Noise, Test
  <2>2. /\ fifo' \in Seq(Byte) /\ Len(fifo') = Len(fifo) + 1
        /\ \A k \in 1 .. Len(fifo) + 1 : fifo'[k] = IF k = Len(fifo) + 1 THEN value ELSE fifo[k]
    BY <1>1, <1>3, <2>1, AppendProperties
  <2> QED  BY <1>1, <2>1, <2>2 DEF AllNoise
<1>4. AllNoise(<<>>) /\ <<>> \in Seq(Byte)
  BY DEF AllNoise
<1> QED  BY <1>1, <1>2, <1>3, <1>4, Zenon

\* What a write leaves in the registers
LEMMA OutbRegisters ==
  ASSUME UartTypes, NEW port \in Nat, NEW value \in Nat, WriteRegister(port, value)
  PROVE  /\ reg' \in [ier : Nat, lcr : Nat, mcr : Nat, dll : Nat, dlm : Nat]
         /\ reg'.lcr = IF port = 3 THEN value ELSE reg.lcr
         /\ reg'.mcr = IF port = 4 THEN value ELSE reg.mcr
         /\ reg'.dll = IF port = 0 /\ reg.lcr >= 128 THEN value ELSE reg.dll
         /\ reg'.dlm = IF port = 1 /\ reg.lcr >= 128 THEN value ELSE reg.dlm
<1>1. reg' = CASE port = 0 /\ reg.lcr >= 128    -> [reg EXCEPT !.dll = value]
               [] port = 1 /\ reg.lcr >= 128    -> [reg EXCEPT !.dlm = value]
               [] port = 1 /\ ~(reg.lcr >= 128) -> [reg EXCEPT !.ier = value]
               [] port = 3                      -> [reg EXCEPT !.lcr = value]
               [] port = 4                      -> [reg EXCEPT !.mcr = value]
               [] OTHER                         -> reg
  BY Zenon DEF WriteRegister, Dlab
<1>2. reg \in [ier : Nat, lcr : Nat, mcr : Nat, dll : Nat, dlm : Nat]
  BY DEF UartTypes
<1>3. CASE port = 0
  BY <1>1, <1>2, <1>3
<1>4. CASE port = 1
  BY <1>1, <1>2, <1>4
<1>5. CASE port = 3
  BY <1>1, <1>2, <1>5
<1>6. CASE port = 4
  BY <1>1, <1>2, <1>6
<1>7. CASE port \notin {0, 1, 3, 4}
  BY <1>1, <1>2, <1>7
<1> QED  BY <1>3, <1>4, <1>5, <1>6, <1>7

\* Of Init's accesses: where it writes, and what the registers are then
LEMMA InitAccess ==
  ASSUME UartInv, at = "init", Write
  PROVE  /\ fifo' \in Seq(Byte) /\ AllNoise(fifo')
         /\ reg' \in [ier : Nat, lcr : Nat, mcr : Nat, dll : Nat, dlm : Nat]
         /\ made' = made + 1 /\ at' = IF made = 10 THEN "spew" ELSE "init"
         /\ made >= 1 => reg'.lcr = IF made <= 3 THEN 128 ELSE 3
         /\ made >= 2 => reg'.dll = 1
         /\ made >= 3 => reg'.dlm = 0
         /\ made = 10 => reg'.mcr = 15
<1> DEFINE port == Access.port  value == Access.value
<1>1. /\ UartTypes /\ made \in 0 .. 10
      /\ made >= 2 => reg.lcr = IF made <= 4 THEN 128 ELSE 3
      /\ made >= 3 => reg.dll = 1
      /\ made >= 4 => reg.dlm = 0
  BY DEF UartInv, UartTypes, Registers
<1>2. /\ WriteRegister(port, value) /\ Access.op = "outb" /\ made' = made + 1
      /\ at' = IF made = 10 THEN "spew" ELSE "init"
  BY <1>1, ProgramAt DEF Write, Made
<1>3. /\ made = 0 => port = 1 /\ value = 0
      /\ made = 1 => port = 3 /\ value = 128
      /\ made = 2 => port = 0 /\ value = 1
      /\ made = 3 => port = 1 /\ value = 0
      /\ made = 4 => port = 3 /\ value = 3
      /\ made = 5 => port = 2 /\ value = 199
      /\ made = 6 => port = 4 /\ value = 11
      /\ made = 7 => port = 4 /\ value = 30
      /\ made = 8 => port = 0 /\ value = 174
      /\ made = 10 => port = 4 /\ value = 15
      /\ made # 9
  BY <1>2, ProgramAt DEF Access, Out, In
<1> HIDE DEF port, value
<1>4. made \in {0, 1, 2, 3, 4, 5, 6, 7, 8, 10}
  BY <1>1, <1>3
<1>5. port \in Nat /\ value \in Nat /\ (port = 0 => reg.lcr >= 128 \/ value = 174)
  BY <1>1, <1>3, <1>4
<1>6. fifo' \in Seq(Byte) /\ AllNoise(fifo')
  BY <1>2, <1>5, OutbFifo
<1>7. /\ reg' \in [ier : Nat, lcr : Nat, mcr : Nat, dll : Nat, dlm : Nat]
      /\ reg'.lcr = IF port = 3 THEN value ELSE reg.lcr
      /\ reg'.mcr = IF port = 4 THEN value ELSE reg.mcr
      /\ reg'.dll = IF port = 0 /\ reg.lcr >= 128 THEN value ELSE reg.dll
      /\ reg'.dlm = IF port = 1 /\ reg.lcr >= 128 THEN value ELSE reg.dlm
  BY <1>1, <1>2, <1>5, OutbRegisters
<1>8. /\ made >= 1 => reg'.lcr = IF made <= 3 THEN 128 ELSE 3
      /\ made >= 2 => reg'.dll = 1
      /\ made >= 3 => reg'.dlm = 0
      /\ made = 10 => reg'.mcr = 15
  BY <1>1, <1>3, <1>4, <1>7
<1> QED  BY <1>2, <1>6, <1>7, <1>8

LEMMA NoiseComes ==
  ASSUME NEW s \in Seq(Byte), AllNoise(s) PROVE Coming(s) = <<>>
<1>1. s # <<>> => 1 \in 1 .. Len(s)
  BY EmptySeq
<1> QED  BY <1>1 DEF Coming, AllNoise

LEMMA WriteInv ==
  ASSUME UartInv, Write \/ LoopbackTest PROVE UartInv'
<1>1. /\ at = "init" /\ UNCHANGED <<text, shift, sent>>
      /\ fifo \in Seq(Byte) /\ AllNoise(fifo) /\ made \in 0 .. 10
  BY DEF UartInv, UartTypes, Registers, Queues, Write, LoopbackTest, WriteRegister
<1>2. /\ fifo' \in Seq(Byte) /\ AllNoise(fifo')
      /\ reg' \in [ier : Nat, lcr : Nat, mcr : Nat, dll : Nat, dlm : Nat]
      /\ made' = made + 1 /\ at' = IF made = 10 THEN "spew" ELSE "init"
      /\ made >= 1 => reg'.lcr = IF made <= 3 THEN 128 ELSE 3
      /\ made >= 2 => reg'.dll = 1
      /\ made >= 3 => reg'.dlm = 0
      /\ made = 10 => reg'.mcr = 15
  <2>1. CASE Write
    BY <1>1, <2>1, InitAccess
  <2>2. CASE LoopbackTest
    <3>1. /\ UNCHANGED <<fifo, reg>> /\ Access.op = "inb"
          /\ made' = made + 1 /\ at' = IF made = 10 THEN "spew" ELSE "init"
      <4>1. UNCHANGED <<fifo, reg>> /\ Access.op = "inb" /\ Made
        BY <2>2 DEF LoopbackTest
      <4> QED  BY <1>1, <4>1, ProgramAt DEF Made
    <3>2. made = 9
      <4>1. made # 9 => Access.op = "outb"
        BY <1>1, ProgramAt DEF Access, Out
      <4> QED  BY <3>1, <4>1
    <3> QED  BY <1>1, <3>1, <3>2 DEF UartInv, UartTypes, Registers
  <2> QED  BY <2>1, <2>2
<1>3. UartTypes'
  BY <1>1, <1>2 DEF UartInv, UartTypes
<1>4. Registers'
  <2>1. at' = "init" <=> made # 10
    BY <1>2
  <2> QED  BY <1>1, <1>2, <2>1 DEF Registers
<1>5. Queues'
  <2>1. AllNoise(shift)' /\ LineNoise'
    BY <1>1 DEF UartInv, Queues, AllNoise, LineNoise
  <2>2. at' \notin {"tx", "lf"}
    BY <1>2
  <2>3. (\A k \in 1 .. Len(sent) : sent[k].byte \in Noise =>
           \A l \in 1 .. k : sent[l].byte \in Noise)'
    BY <1>1 DEF UartInv, Queues, Noise, Loader, Test
  <2> QED  BY <1>2, <2>1, <2>2, <2>3 DEF Queues
<1>6. Stream'
  <2>1. Coming(fifo') = Coming(fifo)
    BY <1>1, <1>2, NoiseComes
  <2>2. at' \notin {"tx", "wait", "lf"} /\ at \notin {"wait", "lf"}
    BY <1>1, <1>2
  <2>3. CrDue' = CrDue /\ Due' = Due /\ Past' = Past
    BY <1>1, <2>2 DEF CrDue, Due, Past
  <2>4. Kernel(sent)' = Kernel(sent)
    BY <1>1
  <2>5. Coming(shift)' = Coming(shift) /\ Coming(fifo)' = Coming(fifo)
    BY <1>1, <2>1
  <2> QED  BY <1>1, <2>2, <2>3, <2>4, <2>5 DEF UartInv, Stream
<1> QED  BY <1>3, <1>4, <1>5, <1>6 DEF UartInv

-----------------------------------------------------------------------------
(* The steps of WaitTxRdy and Tx *)

LEMMA WaitInv == ASSUME UartInv, platform_debug_spew \/ TxReady PROVE UartInv'
<1>1. /\ UNCHANGED <<made, text, reg, fifo, shift, received, sent>>
      /\ text # <<>> /\ fifo = <<>>
      /\ (at = "spew" /\ at' = "tx") \/ (at = "wait" /\ at' = "lf")
  BY DEF platform_debug_spew, TxReady, Ready
<1>2. UartTypes'
  BY <1>1 DEF UartInv, UartTypes
<1>3. Registers'
  BY <1>1 DEF UartInv, Registers
<1>4. Queues'
  <2>1. AllNoise(fifo)' = AllNoise(fifo) /\ AllNoise(shift)' = AllNoise(shift)
        /\ LineNoise' = LineNoise
    BY <1>1 DEF AllNoise, LineNoise, Noise, Loader, Test
  <2>2. Noise' = Noise
    BY DEF Noise, Loader, Test
  <2> QED  BY <1>1, <2>1, <2>2 DEF UartInv, Queues
<1>5. Stream'
  <2>1. CrDue' = CrDue /\ Due' = Due /\ Past' = Past
    BY <1>1 DEF CrDue, Due, Past
  <2>2. Coming(shift)' = Coming(shift) /\ Coming(fifo)' = Coming(fifo)
        /\ Kernel(sent)' = Kernel(sent)
    BY <1>1
  <2>3. at' # "init" /\ (at' = "lf" => at = "wait") /\ at' # "wait"
    BY <1>1
  <2> QED  BY <1>1, <2>1, <2>2, <2>3 DEF UartInv, Stream
<1> QED  BY <1>2, <1>3, <1>4, <1>5 DEF UartInv

\* A byte of the kernel's goes into an empty FIFO
LEMMA OutbKernel ==
  ASSUME UartInv, at \in {"tx", "lf"},
         NEW value \in Byte, value \notin Noise, WriteRegister(0, value)
  PROVE  /\ fifo' = <<value>> /\ UNCHANGED <<reg, shift, sent>>
         /\ fifo' \in Seq(Byte) /\ Len(fifo') = 1 /\ ~AllNoise(fifo')
         /\ Coming(fifo) = <<>> /\ Coming(fifo') = <<Item(value)>>
<1>1. fifo = <<>> /\ reg.lcr = 3 /\ Len(fifo) < FifoSize
      /\ reg \in [ier : Nat, lcr : Nat, mcr : Nat, dll : Nat, dlm : Nat]
  BY FifoAssumption DEF UartInv, UartTypes, Queues, Registers
<1>2. fifo' = <<value>>
  <2>1. fifo' = Append(fifo, value)
    BY <1>1 DEF WriteRegister, Dlab
  <2> QED  BY <1>1, <2>1
<1>3. UNCHANGED <<reg, shift, sent>>
  BY <1>1 DEF WriteRegister, Dlab
<1>4. fifo' \in Seq(Byte) /\ Len(fifo') = 1 /\ fifo'[1] = value /\ fifo' # <<>>
  BY <1>2
<1>5. ~AllNoise(fifo')
  BY <1>4 DEF AllNoise
<1>6. Coming(fifo) = <<>> /\ Coming(fifo') = <<Item(value)>>
  BY <1>1, <1>4 DEF Coming
<1> QED  BY <1>2, <1>3, <1>4, <1>5, <1>6

\* What it does to the queues
LEMMA TxQueues ==
  ASSUME UartTypes, Queues, at \in {"tx", "lf"}, at' \in {"wait", "spew"},
         UNCHANGED <<shift, sent>>, Len(fifo') = 1, ~AllNoise(fifo')
  PROVE  Queues'
<1>1. Noise' = Noise
  BY DEF Noise, Loader, Test
<1>2. AllNoise(shift)' = AllNoise(shift) /\ LineNoise' = LineNoise /\ AllNoise(fifo)' = AllNoise(fifo')
  BY <1>1 DEF AllNoise, LineNoise
<1> QED  BY <1>1, <1>2 DEF Queues

\* Both sides of the stream may have the same put behind them
Extends(k, p, w, r, e) == k \o (p \o <<>>) = w \o r => k \o (p \o e) = w \o (r \o e)

LEMMA BothExtend ==
  ASSUME NEW S, NEW k \in Seq(S), NEW p \in Seq(S), NEW w \in Seq(S), NEW r \in Seq(S),
         NEW e \in Seq(S)
  PROVE  Extends(k, p, w, r, e)
<1>1. p \o <<>> = p
  BY ConcatEmptySeq
<1>2. Regroups(k, p, e) /\ Regroups(w, r, e)
  BY Regrouped, Zenon
<1> QED  BY <1>1, <1>2, Zenon DEF Extends, Regroups

\* All of what Stream is about are sequences of what is sent
LEMMA StreamTypes ==
  ASSUME UartInv
  PROVE  /\ Kernel(sent) \in Seq(Frames) /\ Coming(shift) \in Seq(Frames)
         /\ Coming(fifo) \in Seq(Frames) /\ Due \in Seq(Frames)
         /\ CrDue \in Seq(Frames) /\ Text \in Seq(Byte)
<1>1. /\ sent \in Seq(Frames) /\ shift \in Seq(Byte) /\ fifo \in Seq(Byte)
      /\ Past \in 0 .. Len(Text)
  BY DEF UartInv, UartTypes, Stream
<1>2. Kernel(sent) \in Seq(Frames)
  <2>1. Item(1) \in Frames
    BY ShownTypes DEF Byte
  <2> QED  BY <1>1, <2>1, KernelAppend
<1>3. Text \in Seq(Byte)
  BY TextAssumption DEF Byte
<1>4. Due \in Seq(Frames)
  <2>1. Lines \in [Byte -> Seq(Frames)]
    BY ShownTypes
  <2> QED  BY <1>1, <1>3, <2>1, FlattenTo DEF Due
<1>5. CrDue \in Seq(Frames)
  <2>1. Item(13) \in Frames
    BY ShownTypes DEF Byte
  <2>2. <<Item(13)>> \in Seq(Frames) /\ <<>> \in Seq(Frames)
    BY <2>1
  <2> QED  BY <2>2, Zenon DEF CrDue, CR
<1> QED  BY <1>1, <1>2, <1>3, <1>4, <1>5, ShownTypes

LEMMA TxCrInv == ASSUME UartInv, TxCr PROVE UartInv'
<1>1. /\ at = "tx" /\ Head(text) = LF /\ WriteRegister(0, 13) /\ at' = "wait"
      /\ UNCHANGED <<made, text>>
  BY DEF TxCr, CR
<1>2. 13 \in Byte /\ 13 \notin Noise
  BY DEF Byte, Noise, Loader, Test
<1>3. /\ UNCHANGED <<reg, shift, sent>>
      /\ fifo' \in Seq(Byte) /\ Len(fifo') = 1 /\ ~AllNoise(fifo')
      /\ Coming(fifo) = <<>> /\ Coming(fifo') = <<Item(13)>>
  BY <1>1, <1>2, OutbKernel
<1>4. UartTypes'
  BY <1>1, <1>3 DEF UartInv, UartTypes
<1>5. Registers'
  BY <1>1, <1>3 DEF UartInv, Registers
<1>6. Queues'
  BY <1>1, <1>3, TxQueues DEF UartInv
<1>7. Stream'
  <2>1. Due' = Due /\ Past' = Past /\ Coming(shift)' = Coming(shift)
        /\ Kernel(sent)' = Kernel(sent)
    BY <1>1, <1>3 DEF Due, Past
  <2>2. CrDue = <<>> /\ CrDue' = <<Item(13)>>
    BY <1>1 DEF CrDue, CR
  <2>3. CrDue' \in Seq(Frames) /\ <<>> \o CrDue' = CrDue'
    <3>1. Item(13) \in Frames
      BY <1>2, ShownTypes
    <3>2. CrDue' \in Seq(Frames)
      BY <2>2, <3>1
    <3> QED  BY <3>2, ConcatEmptySeq
  <2>4. Kernel(sent) \o (Coming(shift) \o <<>>) = Due \o <<>>
    BY <1>3, <2>2 DEF UartInv, Stream
  <2>5. Kernel(sent) \o (Coming(shift) \o CrDue') = Due \o (<<>> \o CrDue')
    <3>1. <<>> \in Seq(Frames)
      BY EmptySeq
    <3> DEFINE k == Kernel(sent)  p == Coming(shift)  w == Due  e == CrDue'  r == <<>>
    <3>2. k \in Seq(Frames) /\ p \in Seq(Frames) /\ w \in Seq(Frames)
          /\ e \in Seq(Frames) /\ r \in Seq(Frames) 
      BY <2>3, <3>1, StreamTypes
    <3> HIDE DEF k, p, w, e, r
    <3>3. Extends(k, p, w, r, e)
      BY <3>2, BothExtend
    <3> QED  BY <2>4, <3>3, Zenon DEF k, p, w, e, r, Extends
  <2>6. (Kernel(sent) \o (Coming(shift) \o Coming(fifo)) = Due \o CrDue)'
    BY <1>3, <2>1, <2>2, <2>3, <2>5
  <2> QED  BY <1>1, <2>1, <2>6 DEF UartInv, Stream
<1> QED  BY <1>4, <1>5, <1>6, <1>7 DEF UartInv

\* The byte that is next, and what is written of the text behind it
LEMMA NextChar ==
  ASSUME UartInv, text # <<>>
  PROVE  /\ Head(text) \in Byte /\ Head(text) \notin Noise
         /\ Tail(text) \in Seq(Byte) /\ Len(Tail(text)) = Len(text) - 1
         /\ Past + 1 \in 0 .. Len(Text) /\ Len(Text) - Len(Tail(text)) = Past + 1
         /\ \A i \in 1 .. Len(Tail(text)) : Tail(text)[i] = Text[(Past + 1) + i]
         /\ FlattenSeq(Each(Lines, SubSeq(Text, 1, Past + 1))) = Due \o Lines[Head(text)]
<1> DEFINE n == Past
<1>1. /\ text \in Seq(Byte) /\ Len(text) \in Nat \ {0} /\ n \in 0 .. Len(Text) /\ Len(Text) \in Nat
      /\ \A i \in 1 .. Len(text) : text[i] = Text[n + i]
      /\ Len(Text) - Len(text) = n
  <2>1. text \in Seq(Byte) /\ n \in 0 .. Len(Text)
        /\ \A i \in 1 .. Len(text) : text[i] = Text[n + i]
    BY DEF UartInv, UartTypes, Stream
  <2>2. Len(text) \in Nat \ {0}
    BY <2>1, EmptySeq
  <2>3. Len(Text) \in Nat
    BY LenProperties, TextAssumption
  <2>4. Len(Text) - Len(text) = n
    BY DEF Past
  <2> QED  BY <2>1, <2>2, <2>3, <2>4
<1> HIDE DEF n
<1>2. n # Len(Text) /\ n + 1 \in 1 .. Len(Text)
  BY <1>1
<1>3. Head(text) = Text[n + 1] /\ Head(text) \in Byte
  BY <1>1
<1>4. Head(text) \notin Noise
  BY <1>2, <1>3, TextAssumption
<1>5. /\ Tail(text) \in Seq(Byte) /\ Len(Tail(text)) = Len(text) - 1
      /\ \A i \in 1 .. Len(Tail(text)) : Tail(text)[i] = text[i + 1]
  BY <1>1
<1>6. \A i \in 1 .. Len(Tail(text)) : Tail(text)[i] = Text[(n + 1) + i]
  <2> TAKE i \in 1 .. Len(Tail(text))
  <2>1. i + 1 \in 1 .. Len(text) /\ n + (i + 1) = (n + 1) + i
    BY <1>1, <1>5
  <2> QED  BY <1>1, <1>5, <2>1
<1>7. Follows(Frames, Byte, Lines, Text, n)
  <2>1. Lines \in [Byte -> Seq(Frames)] /\ Text \in Seq(Byte) /\ n \in 0 .. Len(Text)
    BY <1>1, ShownTypes, StreamTypes
  <2> QED  BY <1>2, <2>1, FlattenNext, Zenon
<1>8. FlattenSeq(Each(Lines, SubSeq(Text, 1, n + 1))) = Due \o Lines[Head(text)]
  BY <1>3, <1>7, Zenon DEF Follows, Due, n
<1>9. Len(Text) - Len(Tail(text)) = n + 1
  BY <1>1, <1>5
<1> QED  BY <1>2, <1>3, <1>4, <1>5, <1>6, <1>8, <1>9 DEF n

LEMMA TxCharInv == ASSUME UartInv, TxChar PROVE UartInv'
<1> DEFINE c == Head(text)
<1>1. /\ at = "lf" \/ (at = "tx" /\ c # LF)
      /\ WriteRegister(0, c) /\ at' = "spew" /\ text' = Tail(text) /\ UNCHANGED made
  BY DEF TxChar
<1>2. text # <<>> /\ (at = "lf" => c = LF)
  BY <1>1 DEF UartInv, Stream
<1>3. /\ c \in Byte /\ c \notin Noise
      /\ Tail(text) \in Seq(Byte) /\ Len(Tail(text)) = Len(text) - 1
      /\ Past + 1 \in 0 .. Len(Text) /\ Len(Text) - Len(Tail(text)) = Past + 1
      /\ \A i \in 1 .. Len(Tail(text)) : Tail(text)[i] = Text[(Past + 1) + i]
      /\ FlattenSeq(Each(Lines, SubSeq(Text, 1, Past + 1))) = Due \o Lines[c]
  BY <1>2, NextChar
<1> HIDE DEF c
<1>4. /\ UNCHANGED <<reg, shift, sent>>
      /\ fifo' \in Seq(Byte) /\ Len(fifo') = 1 /\ ~AllNoise(fifo')
      /\ Coming(fifo) = <<>> /\ Coming(fifo') = <<Item(c)>>
  BY <1>1, <1>3, OutbKernel
<1>5. UartTypes'
  BY <1>1, <1>3, <1>4 DEF UartInv, UartTypes
<1>6. Registers'
  BY <1>1, <1>4 DEF UartInv, Registers
<1>7. Queues'
  BY <1>1, <1>4, TxQueues DEF UartInv
<1>8. Stream'
  <2>1. /\ Past' = Past + 1 /\ Coming(shift)' = Coming(shift)
        /\ Kernel(sent)' = Kernel(sent)
    BY <1>1, <1>3, <1>4 DEF Past
  <2>2. Due' = Due \o Lines[c] /\ CrDue' = <<>>
    BY <1>1, <1>3, <2>1 DEF Due, CrDue
  <2>3. /\ Kernel(sent) \in Seq(Frames) /\ Coming(shift) \in Seq(Frames)
        /\ Due \in Seq(Frames) /\ CrDue \in Seq(Frames)
        /\ Item(c) \in Frames /\ <<Item(c)>> \in Seq(Frames)
        /\ Lines[c] \in Seq(Frames)
    <3>1. Item(c) \in Frames /\ Lines[c] \in Seq(Frames)
      BY <1>3, ShownTypes
    <3> QED  BY <3>1, StreamTypes
  <2>4. CrDue \o <<Item(c)>> = Lines[c]
    <3>1. CASE at = "lf"
      <4>1. CrDue = <<Item(13)>> /\ c = 10
        BY <1>2, <3>1 DEF CrDue, CR, LF
      <4>2. Lines[c] = <<Item(13), Item(10)>>
        BY <1>3, <4>1 DEF Lines, LF, CR
      <4>3. Item(13) \in Frames
        BY ShownTypes DEF Byte
      <4>4. <<Item(13)>> \o <<Item(c)>> = <<Item(13), Item(c)>>
        BY <2>3, <4>3, PairConcat
      <4> QED  BY <4>1, <4>2, <4>4
    <3>2. CASE at = "tx"
      <4>1. CrDue = <<>> /\ c # LF
        BY <1>1, <3>2 DEF CrDue
      <4>2. Lines[c] = <<Item(c)>>
        BY <1>3, <4>1 DEF Lines
      <4> QED  BY <2>3, <4>1, <4>2, ConcatEmptySeq
    <3> QED  BY <1>1, <3>1, <3>2
  <2>5. Kernel(sent) \o (Coming(shift) \o <<>>) = Due \o CrDue
    BY <1>4 DEF UartInv, Stream
  <2>6. Extends(Kernel(sent), Coming(shift), Due, CrDue, <<Item(c)>>)
    BY <2>3, BothExtend, Zenon
  <2>7. Kernel(sent) \o (Coming(shift) \o <<Item(c)>>) = Due \o Lines[c]
    BY <2>4, <2>5, <2>6, Zenon DEF Extends
  <2>8. Due' \in Seq(Frames) /\ Due' \o <<>> = Due'
    <3>1. Due' \in Seq(Frames)
      BY <2>2, <2>3, ConcatProperties
    <3> QED  BY <3>1, ConcatEmptySeq
  <2>9. (Kernel(sent) \o (Coming(shift) \o Coming(fifo)) = Due \o CrDue)'
    BY <1>4, <2>1, <2>2, <2>7, <2>8
  <2> QED  BY <1>1, <1>3, <2>1, <2>9 DEF Stream
<1> QED  BY <1>5, <1>6, <1>7, <1>8 DEF UartInv

-----------------------------------------------------------------------------
(* The steps of the UART *)

LEMMA TakeInv == ASSUME UartInv, Take PROVE UartInv'
<1> DEFINE b == Head(fifo)
<1>1. /\ fifo # <<>> /\ shift = <<>> /\ shift' = <<b>> /\ fifo' = Tail(fifo)
      /\ UNCHANGED <<made, at, text, reg, received, sent>>
  BY DEF Take
<1>2. /\ fifo \in Seq(Byte) /\ Len(fifo) \in Nat \ {0}
      /\ AllNoise(fifo) \/ Len(fifo) = 1
      /\ at \notin {"tx", "lf"}
      /\ AllNoise(fifo) => LineNoise
      /\ at = "init" => AllNoise(fifo) /\ LineNoise
  <2>1. fifo \in Seq(Byte)
    BY DEF UartInv, UartTypes
  <2> QED  BY <1>1, <2>1, EmptySeq DEF UartInv, Queues
<1>3. /\ b = fifo[1] /\ b \in Byte /\ Tail(fifo) \in Seq(Byte) /\ Len(Tail(fifo)) = Len(fifo) - 1
      /\ \A i \in 1 .. Len(Tail(fifo)) : Tail(fifo)[i] = fifo[i + 1] /\ i + 1 \in 1 .. Len(fifo)
  BY <1>2
<1> HIDE DEF b
<1>4. /\ shift' \in Seq(Byte) /\ Len(shift') = 1 /\ shift' # <<>> /\ shift'[1] = b
      /\ AllNoise(shift') <=> b \in Noise
  BY <1>1, <1>3 DEF AllNoise
<1>5. AllNoise(fifo') /\ (AllNoise(fifo) <=> b \in Noise)
  <2>1. 1 \in 1 .. Len(fifo)
    BY <1>2
  <2>2. AllNoise(fifo) => AllNoise(fifo') /\ b \in Noise
    BY <1>1, <1>3, <2>1 DEF AllNoise
  <2>3. ASSUME Len(fifo) = 1 PROVE AllNoise(fifo') /\ (b \in Noise => AllNoise(fifo))
    <3>1. Len(fifo') = 0 /\ \A k \in 1 .. Len(fifo) : fifo[k] = b
      BY <1>1, <1>3, <2>3
    <3> QED  BY <3>1 DEF AllNoise
  <2> QED  BY <1>2, <2>2, <2>3
<1>6. UartTypes'
  BY <1>1, <1>3, <1>4 DEF UartInv, UartTypes
<1>7. Registers'
  BY <1>1 DEF UartInv, Registers
<1>8. Noise' = Noise
  BY DEF Noise, Loader, Test
<1>9. Queues'
  <2>1. LineNoise' = LineNoise /\ AllNoise(fifo)' = AllNoise(fifo')
        /\ AllNoise(shift)' = AllNoise(shift')
    BY <1>1, <1>8 DEF LineNoise, AllNoise
  <2>2. (\A k \in 1 .. Len(sent) : sent[k].byte \in Noise =>
           \A l \in 1 .. k : sent[l].byte \in Noise)'
    BY <1>1, <1>8 DEF UartInv, Queues
  <2>3. fifo' # <<>> => Len(fifo) # 1
    BY <1>1, <1>2, <1>3
  <2> QED  BY <1>1, <1>2, <1>4, <1>5, <2>1, <2>2, <2>3 DEF Queues
<1>10. Stream'
  <2>1. /\ Past' = Past /\ Due' = Due /\ CrDue' = CrDue
        /\ Kernel(sent)' = Kernel(sent)
    BY <1>1 DEF Past, Due, CrDue
  <2>2. /\ Coming(shift) = <<>> /\ Coming(shift') = Coming(fifo) /\ Coming(fifo') = <<>>
    <3>1. Coming(fifo') = <<>>
      BY <1>1, <1>3, <1>5, NoiseComes
    <3>2. Coming(shift') = Coming(fifo)
      BY <1>1, <1>3, <1>4 DEF Coming
    <3> QED  BY <1>1, <3>1, <3>2 DEF Coming
  <2>3. Coming(shift) \o Coming(fifo) = Coming(shift') \o Coming(fifo')
    BY <2>2, StreamTypes, ConcatEmptySeq
  <2>4. (Kernel(sent) \o (Coming(shift) \o Coming(fifo)) = Due \o CrDue)'
    BY <2>1, <2>3 DEF UartInv, Stream
  <2> QED  BY <1>1, <2>1, <2>4 DEF UartInv, Stream
<1> QED  BY <1>6, <1>7, <1>9, <1>10 DEF UartInv

\* What Send puts on the line
Leaving == [byte |-> Head(shift), format |-> reg.lcr, divisor |-> reg.dll + 256 * reg.dlm]

LEMMA SendLine ==
  ASSUME UartInv, shift # <<>>
  PROVE  /\ Leaving \in Frames /\ Leaving.byte = shift[1]
         /\ AllNoise(shift) <=> shift[1] \in Noise
         /\ at # "init" \/ AllNoise(shift) => Kept[Leaving] = Coming(shift)
<1>1. /\ shift \in Seq(Byte) /\ Len(shift) = 1 /\ Head(shift) = shift[1] /\ shift[1] \in Byte
      /\ reg \in [ier : Nat, lcr : Nat, mcr : Nat, dll : Nat, dlm : Nat]
  <2>1. /\ shift \in Seq(Byte) /\ Len(shift) <= 1
        /\ reg \in [ier : Nat, lcr : Nat, mcr : Nat, dll : Nat, dlm : Nat]
    BY DEF UartInv, UartTypes
  <2> DEFINE n == Len(shift)
  <2>2. n = 1
    <3>1. n \in Nat \ {0} /\ n <= 1
      BY <2>1, EmptySeq
    <3> HIDE DEF n
    <3> QED  BY <3>1
  <2>3. Head(shift) = shift[1] /\ shift[1] \in Byte
    BY <2>1, <2>2
  <2> QED  BY <2>1, <2>2, <2>3
<1>2. reg.lcr \in Nat /\ reg.dll + 256 * reg.dlm \in Nat
  BY <1>1
<1>3. Leaving \in Frames /\ Leaving.byte = shift[1]
  BY <1>1, <1>2 DEF Leaving, Frames
<1>4. AllNoise(shift) <=> shift[1] \in Noise
  BY <1>1 DEF AllNoise
<1>5. ASSUME shift[1] \in Noise PROVE Kept[Leaving] = Coming(shift)
  BY <1>3, <1>5 DEF Kept, Coming
<1>6. ASSUME at # "init", shift[1] \notin Noise PROVE Kept[Leaving] = Coming(shift)
  <2>1. reg.lcr = 3 /\ reg.dll = 1 /\ reg.dlm = 0
    BY <1>6 DEF UartInv, Registers
  <2>2. Leaving = Item(shift[1])
    BY <1>1, <2>1 DEF Leaving, Item
  <2>3. Kept[Leaving] = <<Leaving>>
    BY <1>3, <1>6 DEF Kept
  <2>4. Coming(shift) = <<Item(shift[1])>>
    BY <1>6 DEF Coming
  <2> QED  BY <2>2, <2>3, <2>4
<1> QED  BY <1>3, <1>4, <1>5, <1>6

LEMMA SendInv == ASSUME UartInv, Send PROVE UartInv'
<1>1. /\ shift # <<>> /\ shift' = <<>>
      /\ UNCHANGED <<made, at, text, reg, fifo>>
      /\ sent' = sent \/ sent' = Append(sent, Leaving)
      /\ at # "init" => sent' = Append(sent, Leaving)
  <2>1. at # "init" => ~Loopback
    BY DEF UartInv, Registers, Loopback
  <2> QED  BY <2>1 DEF Send, Leaving
<1>2. /\ Leaving \in Frames /\ Leaving.byte = shift[1]
      /\ AllNoise(shift) <=> shift[1] \in Noise
      /\ at # "init" \/ AllNoise(shift) => Kept[Leaving] = Coming(shift)
  BY <1>1, SendLine
<1>3. /\ sent \in Seq(Frames) /\ Append(sent, Leaving) \in Seq(Frames)
      /\ Len(sent) \in Nat /\ Len(Append(sent, Leaving)) = Len(sent) + 1
      /\ Append(sent, Leaving)[Len(sent) + 1] = Leaving
      /\ \A k \in 1 .. Len(sent) : Append(sent, Leaving)[k] = sent[k]
  <2>1. sent \in Seq(Frames)
    BY DEF UartInv, UartTypes
  <2> QED  BY <1>2, <2>1, AppendProperties
<1>4. Noise' = Noise
  BY DEF Noise, Loader, Test
<1>5. UartTypes'
  <2>1. <<>> \in Seq(Byte) /\ Len(<<>>) = 0
    BY EmptySeq
  <2>2. shift' \in Seq(Byte) /\ Len(shift') <= 1
    BY <1>1, <2>1
  <2>3. sent' \in Seq(Frames)
    BY <1>1, <1>3
  <2> QED  BY <1>1, <2>2, <2>3 DEF UartInv, UartTypes
<1>6. Registers'
  BY <1>1 DEF UartInv, Registers
<1>7. AllNoise(shift) /\ LineNoise => LineNoise'
  <2>1. ASSUME AllNoise(shift), LineNoise, NEW k \in 1 .. Len(sent')
        PROVE  sent'[k].byte \in Noise
    <3>1. k \in 1 .. Len(sent) \/ (k = Len(sent) + 1 /\ sent' = Append(sent, Leaving))
      BY <1>1, <1>3
    <3>2. CASE k \in 1 .. Len(sent)
      BY <1>1, <1>3, <2>1, <3>2 DEF LineNoise
    <3>3. CASE k = Len(sent) + 1 /\ sent' = Append(sent, Leaving)
      BY <1>2, <1>3, <2>1, <3>3
    <3> QED  BY <3>1, <3>2, <3>3
  <2> QED  BY <1>4, <2>1 DEF LineNoise
<1>8. Queues'
  <2>1. AllNoise(fifo)' = AllNoise(fifo) /\ AllNoise(shift)'
    BY <1>1, <1>4 DEF AllNoise
  <2>2. ASSUME NEW k \in 1 .. Len(sent'), sent'[k].byte \in Noise, NEW l \in 1 .. k
        PROVE  sent'[l].byte \in Noise
    <3>1. CASE k \in 1 .. Len(sent)
      <4>1. l \in 1 .. Len(sent)
        BY <1>3, <3>1
      <4>2. sent'[k] = sent[k] /\ sent'[l] = sent[l]
        BY <1>1, <1>3, <3>1, <4>1
      <4> QED  BY <2>2, <3>1, <4>2 DEF UartInv, Queues
    <3>2. CASE k \notin 1 .. Len(sent)
      <4>1. k = Len(sent) + 1 /\ sent' = Append(sent, Leaving)
        BY <1>1, <1>3, <3>2
      <4>2. AllNoise(shift)
        BY <1>2, <1>3, <2>2, <4>1
      <4>3. LineNoise'
        BY <1>1, <1>7, <4>2 DEF UartInv, Queues
      <4>4. l \in 1 .. Len(sent')
        BY <1>3, <4>1
      <4> QED  BY <1>4, <4>3, <4>4 DEF LineNoise
    <3> QED  BY <3>1, <3>2
  <2>3. at = "init" => AllNoise(fifo) /\ AllNoise(shift) /\ LineNoise
    BY DEF UartInv, Queues
  <2>4. fifo # <<>> /\ AllNoise(fifo) => AllNoise(shift) /\ LineNoise
    BY DEF UartInv, Queues
  <2>5. (AllNoise(fifo) \/ Len(fifo) = 1) /\ (at \in {"tx", "lf"} => fifo = <<>>)
    BY DEF UartInv, Queues
  <2> QED  BY <1>1, <1>4, <1>7, <2>1, <2>2, <2>3, <2>4, <2>5 DEF Queues
<1>9. Stream'
  <2>1. /\ Past' = Past /\ Due' = Due /\ CrDue' = CrDue /\ Coming(fifo)' = Coming(fifo)
        /\ Coming(shift)' = <<>>
    BY <1>1 DEF Past, Due, CrDue, Coming
  <2> DEFINE k == Kernel(sent)  p == Coming(shift)  q == Coming(fifo)
  <2>2. k \in Seq(Frames) /\ p \in Seq(Frames) /\ q \in Seq(Frames)
    BY StreamTypes
  <2>3. Kernel(sent)' = k \o p
    <3>1. CASE sent' = Append(sent, Leaving) /\ (at # "init" \/ AllNoise(shift))
      BY <1>2, <1>3, <3>1, KernelAppend
    <3>2. CASE sent' = sent /\ at = "init"
      <4>1. p = <<>>
        <5>1. AllNoise(shift) /\ shift \in Seq(Byte)
          BY <3>2 DEF UartInv, UartTypes, Queues
        <5> QED  BY <5>1, NoiseComes
      <4> QED  BY <2>2, <3>2, <4>1, ConcatEmptySeq
    <3>3. at = "init" => AllNoise(shift)
      BY DEF UartInv, Queues
    <3> QED  BY <1>1, <3>1, <3>2, <3>3
  <2>4. Regroups(k, p, q)
    BY <2>2, Regrouped, Zenon
  <2>5. <<>> \o q = q
    BY <2>2, ConcatEmptySeq
  <2>6. (Kernel(sent) \o (Coming(shift) \o Coming(fifo)) = Due \o CrDue)'
    <3>1. k \o (p \o q) = Due \o CrDue
      BY DEF UartInv, Stream
    <3> HIDE DEF k, p, q
    <3>2. (k \o p) \o (<<>> \o q) = Due \o CrDue
      BY <2>4, <2>5, <3>1 DEF Regroups
    <3>3. Coming(fifo)' = q
      BY <2>1 DEF q
    <3> QED  BY <2>1, <2>3, <3>2, <3>3
  <2> QED  BY <1>1, <2>1, <2>6 DEF UartInv, Stream
<1> QED  BY <1>5, <1>6, <1>8, <1>9 DEF UartInv

-----------------------------------------------------------------------------

LEMMA UartInitInv == UartInit => UartInv
<1> SUFFICES ASSUME UartInit PROVE UartInv
  OBVIOUS
<1>1. /\ made = 0 /\ at = "init" /\ text = Text /\ sent = <<>>
      /\ reg \in [ier : Nat, lcr : Nat, mcr : Nat, dll : Nat, dlm : Nat]
      /\ shift = <<>> \/ shift = <<200>>
  <2>1. reg \in [ier : Byte, lcr : Byte, mcr : Byte, dll : Byte, dlm : Byte]
    BY LeftAssumption DEF UartInit
  <2>2. \A b \in Byte : b \in Nat
    BY DEF Byte
  <2>3. reg \in [ier : Nat, lcr : Nat, mcr : Nat, dll : Nat, dlm : Nat]
    BY <2>1, <2>2
  <2> QED  BY <2>3 DEF UartInit, Loader
<1>2. Text \in Seq(Byte) /\ Len(Text) \in Nat
  BY TextAssumption DEF Byte
<1>3. /\ fifo \in Seq(Byte) /\ shift \in Seq(Byte) /\ Len(shift) <= 1
      /\ AllNoise(fifo) /\ AllNoise(shift)
  <2>1. 200 \in Byte /\ 200 \in Noise
    BY DEF Byte, Noise, Loader
  <2>2. AllNoise(<<>>) /\ <<>> \in Seq(Byte) /\ Len(<<>>) <= 1
    BY DEF AllNoise
  <2>3. AllNoise(<<200>>) /\ <<200>> \in Seq(Byte) /\ Len(<<200>>) <= 1
    BY <2>1 DEF AllNoise
  <2>4. fifo \in Seq(Byte) /\ AllNoise(fifo)
    <3>1. PICK n \in 0 .. FifoSize : fifo = [k \in 1 .. n |-> 200]
      BY DEF UartInit, Loader
    <3>2. n \in Nat
      BY <3>1, FifoAssumption
    <3>3. fifo \in Seq(Byte) /\ Len(fifo) = n /\ \A k \in 1 .. n : fifo[k] = 200
      BY <2>1, <3>1, <3>2
    <3> QED  BY <2>1, <3>3 DEF AllNoise
  <2> QED  BY <1>1, <2>2, <2>3, <2>4
<1>4. UartTypes
  BY <1>1, <1>2, <1>3 DEF UartTypes
<1>5. Registers
  BY <1>1 DEF Registers
<1>6. Queues
  BY <1>1, <1>3 DEF Queues, LineNoise
<1>7. Stream
  <2>1. Past = 0
    BY <1>1, <1>2 DEF Past
  <2>2. Coming(fifo) = <<>> /\ Coming(shift) = <<>>
    BY <1>1, <1>3, NoiseComes
  <2>3. Kernel(sent) = <<>>
    <3>1. Item(1) \in Frames /\ sent \in Seq(Frames)
      BY <1>1, ShownTypes DEF Byte
    <3> QED  BY <1>1, <3>1, KernelAppend
  <2>4. Due = <<>>
    <3>1. SubSeq(Text, 1, 0) = <<>>
      BY SubSeqEmpty
    <3>2. FlattenSeq(Each(Lines, <<>>)) = <<>>
      BY DEF Each, FlattenSeq
    <3> QED  BY <2>1, <3>1, <3>2 DEF Due
  <2>5. CrDue = <<>>
    BY <1>1 DEF CrDue
  <2>6. <<>> \o (<<>> \o <<>>) = <<>> \o <<>>
    OBVIOUS
  <2> QED  BY <1>1, <1>2, <2>1, <2>2, <2>3, <2>4, <2>5, <2>6 DEF Stream
<1> QED  BY <1>4, <1>5, <1>6, <1>7 DEF UartInv

LEMMA UartNextInv == UartInv /\ [UartNext]_uart => UartInv'
<1> SUFFICES ASSUME UartInv, [UartNext]_uart PROVE UartInv'
  OBVIOUS
<1>1. CASE UNCHANGED uart
  <2>1. UNCHANGED <<made, at, text, reg, fifo, shift, sent>>
    BY <1>1 DEF uart
  <2>2. UartTypes' /\ Registers'
    BY <2>1 DEF UartInv, UartTypes, Registers
  <2>3. Queues'
    BY <2>1 DEF UartInv, Queues, AllNoise, LineNoise, Noise, Loader, Test
  <2>4. Stream'
    BY <2>1 DEF UartInv, Stream, Past, Due, CrDue
  <2> QED  BY <2>2, <2>3, <2>4 DEF UartInv
<1> QED  BY <1>1, WriteInv, WaitInv, TxCrInv, TxCharInv, TakeInv, SendInv DEF UartNext, Driver

LEMMA UartLegible == UartInv => TextLegible
<1> SUFFICES ASSUME UartInv PROVE TextLegible
  OBVIOUS
<1> DEFINE k == Kernel(sent)  pq == Coming(shift) \o Coming(fifo)  all == Legible(Text)
           To(n) == FlattenSeq(Each(Lines, SubSeq(Text, 1, n)))
<1>1. /\ k \in Seq(Frames) /\ pq \in Seq(Frames) /\ Due \in Seq(Frames)
      /\ CrDue \in Seq(Frames) /\ Text \in Seq(Byte)
  BY StreamTypes, ConcatProperties
<1>2. Past \in 0 .. Len(Text) /\ k \o pq = Due \o CrDue
  BY DEF UartInv, Stream
<1>3. \A n \in 0 .. Len(Text) : To(n) \in Seq(Frames) /\ Begins(Frames, To(n), all)
  <2>1. Lines \in [Byte -> Seq(Frames)] /\ all = FlattenSeq(Each(Lines, Text))
    BY <1>1, ShownTypes, CrLfIsEach
  <2> TAKE n \in 0 .. Len(Text)
  <2>2. Begins(Frames, To(n), FlattenSeq(Each(Lines, Text)))
    BY <1>1, <2>1, FlattenBegins, Zenon
  <2>3. To(n) \in Seq(Frames)
    BY <1>1, <2>1, FlattenTo
  <2> QED  BY <2>1, <2>2, <2>3
<1>4. all \in Seq(Frames)
  <2>1. Len(Text) \in 0 .. Len(Text) /\ SubSeq(Text, 1, Len(Text)) = Text
    BY <1>1, SubSeqFull, LenProperties
  <2>2. all = To(Len(Text))
    BY <1>1, <2>1, CrLfIsEach
  <2> QED  BY <1>3, <2>1, <2>2
<1> HIDE DEF all, pq, k
<1>5. Begins(Frames, Due \o CrDue, all)
  <2>1. CASE CrDue = <<>>
    <3>1. Due \o CrDue = To(Past)
      BY <1>1, <2>1, ConcatEmptySeq DEF Due
    <3> QED  BY <1>2, <1>3, <3>1
  <2>2. CASE CrDue # <<>>
    <3> DEFINE cr == Item(13)  lf == Item(10)
    <3>1. text # <<>> /\ Head(text) = LF /\ CrDue = <<cr>>
      <4>1. at \in {"wait", "lf"}
        BY <2>2 DEF CrDue
      <4> QED  BY <4>1 DEF UartInv, Stream, CrDue, CR
    <3>2. cr \in Frames /\ lf \in Frames /\ <<lf>> \in Seq(Frames)
      <4>1. cr \in Frames /\ lf \in Frames
        BY ShownTypes DEF Byte
      <4> QED  BY <4>1
    <3>3. Lines[Head(text)] = <<cr, lf>>
      <4>1. LF \in Byte
        BY DEF Byte, LF
      <4>2. Lines[LF] = <<Item(CR), Item(LF)>>
        BY <4>1, Zenon DEF Lines
      <4> QED  BY <3>1, <4>2, Zenon DEF CR, LF
    <3> HIDE DEF cr, lf
    <3>4. Past + 1 \in 0 .. Len(Text) /\ To(Past + 1) = Due \o <<cr, lf>>
      BY <3>1, <3>3, NextChar
    <3>5. <<cr>> \o <<lf>> = <<cr, lf>>
      BY <3>2, PairConcat
    <3>6. Regroups(Due, CrDue, <<lf>>)
      BY <1>1, <3>2, Regrouped, Zenon
    <3>7. (Due \o CrDue) \o <<lf>> = To(Past + 1)
      BY <3>1, <3>4, <3>5, <3>6, Zenon DEF Regroups
    <3> HIDE DEF To
    <3>8. Begins(Frames, Due \o CrDue, To(Past + 1))
      BY <3>2, <3>7, Zenon DEF Begins
    <3>9. Due \o CrDue \in Seq(Frames) /\ To(Past + 1) \in Seq(Frames)
          /\ Begins(Frames, To(Past + 1), all)
      BY <1>1, <1>3, <3>4, ConcatProperties
    <3> QED  BY <1>4, <3>8, <3>9, BeginsTransitive
  <2> QED  BY <2>1, <2>2
<1>6. Begins(Frames, k, all)
  <2>1. Begins(Frames, k, Due \o CrDue)
    BY <1>1, <1>2, Zenon DEF Begins
  <2>2. Due \o CrDue \in Seq(Frames)
    BY <1>1, ConcatProperties
  <2> QED  BY <1>1, <1>4, <1>5, <2>1, <2>2, BeginsTransitive
<1>7. IsPrefix(k, all)
  BY <1>1, <1>4, <1>6, BeginsIsPrefix
<1>8. IsPrefix(Kernel(sent), Legible(Text))
  BY <1>7 DEF IsPrefix, k, all
<1>9. DOMAIN sent = 1 .. Len(sent)
  BY DEF UartInv, UartTypes
<1> QED  BY <1>8, <1>9 DEF TextLegible, UartInv, Queues

\* Whatever text, and however long the UART takes for a byte: what comes out of
\* the line is a beginning of the text, with \r ahead of each \n, at the speed
\* and in the format that Init set, and only what Init found in the UART or put
\* there itself may be ahead of it (Serial::Init, WaitTxRdy, Tx).
THEOREM TextIsLegible == UartSpec => []TextLegible
BY UartInitInv, UartNextInv, UartLegible, PTL DEF UartSpec
=============================================================================
