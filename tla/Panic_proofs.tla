---------------------------- MODULE Panic_proofs ----------------------------
(***************************************************************************)
(* Theorems about Panic, for any number of nested failures and pieces.     *)
(*                                                                         *)
(* That one report appears is not inductive: it rests on who may be past   *)
(* the lock.  IInv says that of all the activations, interrupted ones      *)
(* included, at most one is, and none while gPanicLock is free; and how    *)
(* far the two devices are for each place that one can be in.              *)
(*                                                                         *)
(* What is reported has gone through snprintf.  The second part proves of  *)
(* Printf, for every format, count and argument, that it keeps to its      *)
(* buffer: all it puts out is a text of some length, and it does not matter*)
(* which (PrintfInv).                                                      *)
(*                                                                         *)
(* The third part is about which text that is.  PrintsInv says that the    *)
(* meanings of some of a call's directives, from the first on, have come   *)
(* out, and at which place of the next one's fields the parser is.  It rests*)
(* on two things: that what a directive spells is parsed as it was meant,  *)
(* and that a number put together last character first, in a buffer that   *)
(* takes digits, zeros and prefix in turn, is C's sign or prefix, zeros and*)
(* digits (NumberConverts).                                                *)
(***************************************************************************)
EXTENDS Panic, Formats, SequenceLemmas, SequenceTheorems, TLAPS

Activations == [kind : {"kernel"} \cup Kinds, pc : PCs, msg : Messages]
Reports     == [act : Nat, msg : Messages]

\* The pcs an activation can have only past gPanicLock
Reporting == {"fill", "serial", "console", "halt"}

OneReporter ==
  /\ \A i, j \in DOMAIN stack :
       stack[i].pc \in Reporting /\ stack[j].pc \in Reporting => i = j
  /\ \A i \in DOMAIN stack : stack[i].pc \in Reporting => count = 1

Progressing ==
  /\ count = 0 => panicBuf = NoReport
  /\ panicBuf = NoReport => serial = <<>> /\ console = <<>>
  /\ Len(serial) <= Pieces
  /\ \A i \in DOMAIN stack :
       /\ stack[i].pc = "fill" => panicBuf = NoReport
       /\ stack[i].pc \in {"serial", "console", "halt"} => panicBuf # NoReport
       /\ stack[i].pc = "serial" /\ gConsole => Len(console) = Len(serial)
       /\ stack[i].pc = "console" /\ gConsole => Len(console) + 1 = Len(serial)

\* Handlers run exceptions; a page fault past its entry has raised the flag
Flagged ==
  \A i \in DOMAIN stack :
    /\ stack[i].kind = "pagefault" /\ stack[i].pc # "entered" => inFault
    /\ stack[i].pc \in {"entered", "format"} => stack[i].kind \in Kinds

IInv == TypeOK /\ OneReporter /\ Progressing /\ Flagged /\ PageFaultOnce

-----------------------------------------------------------------------------
\* What the running activation becomes when it moves on; the others stay.
Becomes(p, m) ==
  /\ DOMAIN stack' = DOMAIN stack /\ Len(stack') = Len(stack)
  /\ stack' \in Seq(Activations) /\ stack' # <<>>
  /\ stack'[Running] = [kind |-> Top.kind, pc |-> p, msg |-> m]
  /\ \A i \in DOMAIN stack : i # Running => stack'[i] = stack[i]

\* The stack is never empty: there is a running activation.
LEMMA TopType ==
  ASSUME TypeOK
  PROVE  /\ Running \in Nat /\ Running >= 1 /\ Running \in DOMAIN stack
         /\ DOMAIN stack = 1 .. Running /\ Top \in Activations
         /\ \A i \in DOMAIN stack : stack[i] \in Activations
<1>1. stack \in Seq(Activations) /\ stack # <<>>
  BY DEF TypeOK, Activations
<1>2. Len(stack) \in Nat /\ Len(stack) >= 1 /\ DOMAIN stack = 1 .. Len(stack)
  BY <1>1
<1>3. \A i \in 1 .. Len(stack) : stack[i] \in Activations
  BY <1>1
<1> QED
  BY <1>2, <1>3 DEF Running, Top

\* Replacing the running activation by another one.
LEMMA ReplaceTop ==
  ASSUME TypeOK, NEW p \in PCs, NEW m \in Messages,
         stack' = [stack EXCEPT ![Running] = [kind |-> Top.kind, pc |-> p, msg |-> m]]
  PROVE  Becomes(p, m)
<1> DEFINE a == [kind |-> Top.kind, pc |-> p, msg |-> m]
<1>1. a \in Activations
  BY TopType DEF Activations
<1>2. stack \in Seq(Activations) /\ Running \in 1 .. Len(stack)
  BY TopType DEF TypeOK, Activations, Running
<1> HIDE DEF a
<1>3. stack' \in Seq(Activations) /\ Len(stack') = Len(stack)
  BY <1>1, <1>2 DEF a
<1>4. DOMAIN stack' = DOMAIN stack /\ stack'[Running] = a
  BY <1>2 DEF a
<1>5. \A i \in DOMAIN stack : i # Running => stack'[i] = stack[i]
  BY <1>2
<1>6. stack' # <<>>
  BY <1>2, <1>3
<1> QED
  BY <1>3, <1>4, <1>5, <1>6 DEF Becomes, a

\* A move within its code.
LEMMA GotoBecomes ==
  ASSUME TypeOK, NEW from, NEW to \in PCs, Goto(from, to)
  PROVE  Top.pc = from /\ Becomes(to, Top.msg)
<1>1. stack' = [stack EXCEPT ![Running] = [kind |-> Top.kind, pc |-> to, msg |-> Top.msg]]
  <2>1. [Top EXCEPT !.pc = to] = [kind |-> Top.kind, pc |-> to, msg |-> Top.msg]
    BY TopType DEF Activations
  <2>2. stack' = [stack EXCEPT ![Running] = [Top EXCEPT !.pc = to]]
    BY DEF Goto, Top
  <2> QED
    BY <2>1, <2>2
<1>2. Top.msg \in Messages
  BY TopType DEF Activations
<1> QED
  BY <1>1, <1>2, ReplaceTop DEF Goto

\* A call of panic.
LEMMA CallBecomes ==
  ASSUME TypeOK, NEW msg \in Messages, Call(msg)
  PROVE  Becomes("lock", msg)
<1>1. stack' = [stack EXCEPT ![Running] = [kind |-> Top.kind, pc |-> "lock", msg |-> msg]]
  BY DEF Call
<1>2. "lock" \in PCs
  BY DEF PCs, Panicking
<1> QED
  BY <1>1, <1>2, ReplaceTop

\* The initial states satisfy the inductive invariant.
LEMMA InitIInv == Init => IInv
<1> SUFFICES ASSUME Init PROVE IInv
  OBVIOUS
<1> DEFINE kernel == [kind |-> "kernel", pc |-> "run", msg |-> "none"]
<1>1. kernel \in Activations
  BY DEF Activations, PCs, Messages
<1>2. stack = <<kernel>> /\ kernel.pc = "run" /\ kernel.kind = "kernel"
  BY DEF Init
<1> HIDE DEF kernel
<1>3. /\ stack \in Seq(Activations) /\ stack # <<>> /\ DOMAIN stack = {1}
      /\ stack[1] = kernel
  BY <1>1, <1>2
<1>4. TypeOK
  <2>1. inFault \in BOOLEAN /\ gConsole \in BOOLEAN /\ count \in {0, 1}
    BY DEF Init
  <2>2. serial \in Seq(Reports \X (1 .. Pieces)) /\ console \in Seq(Reports \X (1 .. Pieces))
    BY DEF Init
  <2> QED
    BY <1>3, <2>1, <2>2 DEF Init, TypeOK, Activations, Reports
<1>5. \A i \in DOMAIN stack : stack[i].pc = "run" /\ stack[i].kind = "kernel"
  BY <1>2, <1>3
<1> QED
  BY <1>4, <1>5, PiecesAssumption DEF Init, IInv, OneReporter, Progressing, Flagged, PageFaultOnce, Reporting

\* A failure or a handler moves on, no later than to panic's lock.
LEMMA BeforePanic ==
  ASSUME IInv, NEW p \in {"format", "lock", "spin"}, NEW m \in Messages, Becomes(p, m),
         UNCHANGED <<count, panicBuf, out, gConsole>>, inFault' \in BOOLEAN,
         inFault => inFault',
         Top.kind = "pagefault" => inFault',
         p = "format" => Top.kind \in Kinds /\ (Top.kind = "pagefault" => ~inFault)
  PROVE  IInv'
<1> USE DEF IInv
<1>1. TypeOK'
  BY DEF TypeOK, Becomes, Activations, out
<1>2. \A i \in DOMAIN stack' :
        stack'[i] = stack[i] \/ (i = Running /\ stack'[i].pc = p /\ stack'[i].kind = Top.kind)
  BY DEF Becomes
<1>3. OneReporter' /\ Progressing'
  BY <1>2 DEF OneReporter, Progressing, Becomes, Reporting, out
<1>4. Flagged'
  BY <1>2 DEF Flagged, Becomes
<1>5. PageFaultOnce'
  <2> SUFFICES ASSUME NEW i \in DOMAIN stack', NEW j \in DOMAIN stack', j < i,
                      stack'[i].kind = "pagefault", stack'[i].pc = "format",
                      stack'[j].kind = "pagefault"
               PROVE  stack'[j].pc = "entered"
    BY DEF PageFaultOnce
  <2>1. j # Running /\ stack'[j] = stack[j] /\ j \in DOMAIN stack
    BY TopType DEF Becomes
  <2>2. CASE i = Running
    BY <2>1, <2>2 DEF Becomes, Flagged
  <2>3. CASE i # Running
    BY <2>1, <2>3 DEF Becomes, PageFaultOnce
  <2> QED
    BY <2>2, <2>3
<1> QED
  BY <1>1, <1>3, <1>4, <1>5

\* A failure pushes an activation, which has done nothing yet.
LEMMA EnterIInv ==
  ASSUME IInv, NEW kind \in Kinds, Enter(kind)
  PROVE  IInv'
<1> USE DEF IInv
<1> DEFINE a == Activation(kind)
<1>1. a \in Activations /\ a.pc = "entered" /\ a.kind \in Kinds
  BY DEF Activation, Activations, PCs, Messages
<1>2. stack \in Seq(Activations) /\ Len(stack) \in Nat
  BY DEF TypeOK, Activations
<1> HIDE DEF a
<1>3. /\ stack' = Append(stack, a)
      /\ UNCHANGED <<count, inFault, panicBuf, serial, console, gConsole>>
  BY DEF Enter, out, a
<1>4. stack' \in Seq(Activations) /\ stack' # <<>>
  BY <1>1, <1>2, <1>3, AppendProperties
<1>5. \A i \in DOMAIN stack' : (i \in DOMAIN stack /\ stack'[i] = stack[i]) \/ stack'[i] = a
  BY <1>1, <1>2, <1>3
<1>6. TypeOK'
  BY <1>3, <1>4 DEF TypeOK, Activations
<1>7. OneReporter'
  BY <1>1, <1>3, <1>5 DEF OneReporter, Reporting
<1>8. Progressing'
  BY <1>1, <1>3, <1>5 DEF Progressing
<1>9. Flagged'
  BY <1>1, <1>3, <1>5 DEF Flagged
<1>10. PageFaultOnce'
  BY <1>1, <1>3, <1>5 DEF PageFaultOnce
<1> QED
  BY <1>6, <1>7, <1>8, <1>9, <1>10

\* Past the lock, the running activation is the only one that is: what its
\* step leaves to check is its own place and what it has put out.
LEMMA InPanic ==
  ASSUME IInv, NEW p \in Reporting, Becomes(p, Top.msg), TypeOK',
         UNCHANGED <<inFault, gConsole>>,
         Top.pc # "entered", count' = 1,
         \A i \in DOMAIN stack : stack[i].pc \in Reporting => i = Running,
         panicBuf' = NoReport => serial' = <<>> /\ console' = <<>>,
         Len(serial') <= Pieces,
         p = "fill" <=> panicBuf' = NoReport,
         p = "serial" /\ gConsole => Len(console') = Len(serial'),
         p = "console" /\ gConsole => Len(console') + 1 = Len(serial')
  PROVE  IInv'
<1> USE DEF IInv
<1>1. \A i \in DOMAIN stack' :
        \/ i # Running /\ stack'[i] = stack[i] /\ stack'[i].pc \notin Reporting
        \/ i = Running /\ stack'[i].pc = p /\ stack'[i].kind = Top.kind
  BY DEF Becomes
<1>2. OneReporter'
  BY <1>1 DEF OneReporter
<1>3. Progressing'
  BY <1>1 DEF Progressing, Reporting
<1>4. Flagged'
  <2>1. Top.kind = "pagefault" => inFault
    BY TopType DEF Flagged, Top
  <2> QED
    BY <1>1, <2>1 DEF Flagged, Becomes, Reporting
<1>5. PageFaultOnce'
  BY <1>1, TopType DEF PageFaultOnce, Becomes, Reporting
<1> QED
  BY <1>2, <1>3, <1>4, <1>5

\* Nobody but the running activation is past the lock when it is.
LEMMA OnlyTop ==
  ASSUME IInv, Top.pc \in Reporting
  PROVE  count = 1 /\ \A i \in DOMAIN stack : stack[i].pc \in Reporting => i = Running
BY TopType DEF IInv, OneReporter, Top

\* The state changes of panic's steps, one by one.
LEMMA PanicIInv ==
  ASSUME IInv, panic
  PROVE  IInv'
<1> USE DEF IInv
<1>p. {"lock", "spin", "fill", "serial", "console", "halt"} \subseteq PCs
  BY DEF PCs, Panicking
<1>m. Top.msg \in Messages
  BY TopType DEF Activations
<1>l. Len(serial) \in Nat /\ Len(serial) <= Pieces /\ Pieces \in Nat
  BY PiecesAssumption DEF Progressing, TypeOK
<1>1. CASE SpinLock
  <2>1. /\ Top.pc = "lock" /\ count' = 1
        /\ Becomes(IF count = 0 THEN "fill" ELSE "spin", Top.msg)
        /\ UNCHANGED <<inFault, panicBuf, out, gConsole>>
    BY <1>1, <1>p, GotoBecomes DEF SpinLock
  <2>2. TypeOK'
    BY <2>1 DEF TypeOK, Becomes, Activations, out
  <2>3. CASE count = 0
    <3>1. \A i \in DOMAIN stack : stack[i].pc \notin Reporting
      BY <2>3 DEF OneReporter
    <3>2. panicBuf' = NoReport /\ serial' = <<>> /\ console' = <<>>
      BY <2>1, <2>3 DEF Progressing, out
    <3>3. Len(serial') <= Pieces
      BY <1>l, <2>1 DEF out
    <3> QED
      BY <3>3, <2>1, <2>2, <2>3, <3>1, <3>2, <1>l, InPanic DEF Reporting
  <2>4. CASE count = 1
    <3>1. Becomes("spin", Top.msg) /\ UNCHANGED count
      BY <2>1, <2>4
    <3>2. Top.kind = "pagefault" => inFault
      BY <2>1, TopType DEF Flagged, Top
    <3> QED
      BY <1>m, <2>1, <3>1, <3>2, BeforePanic DEF TypeOK
  <2> QED
    BY <2>3, <2>4 DEF TypeOK
<1>2. CASE FillBuffer
  <2>1. /\ Top.pc = "fill" /\ Becomes("serial", Top.msg)
        /\ panicBuf' = [act |-> Running, msg |-> Top.msg]
        /\ UNCHANGED <<count, inFault, serial, console, gConsole>>
    BY <1>2, <1>p, GotoBecomes DEF FillBuffer, out
  <2>2. panicBuf' \in Reports /\ panicBuf' # NoReport
    BY <1>m, <2>1, TopType, NoReportAssumption DEF Reports
  <2>3. TypeOK'
    BY <2>1, <2>2 DEF TypeOK, Becomes, Activations, Reports
  <2>4. Top.pc \in Reporting /\ serial = <<>> /\ console = <<>>
    BY <2>1, TopType DEF Progressing, Reporting, Top
  <2> QED
    BY <2>1, <2>2, <2>3, <2>4, OnlyTop, <1>l, InPanic DEF Reporting
<1>3. CASE _outchar_serial
  <2>1. /\ Top.pc = "serial" /\ Becomes("console", Top.msg)
        /\ Len(serial) < Pieces /\ serial' = Append(serial, Piece(serial))
        /\ UNCHANGED <<count, inFault, panicBuf, console, gConsole>>
    BY <1>3, <1>p, GotoBecomes DEF _outchar_serial
  <2>2. panicBuf # NoReport /\ (gConsole => Len(console) = Len(serial))
    BY <2>1, TopType DEF Progressing, Top
  <2>3. Piece(serial) \in Reports \X (1 .. Pieces)
    BY <2>1, <2>2, PiecesAssumption DEF TypeOK, Piece, Reports
  <2>4. serial \in Seq(Reports \X (1 .. Pieces))
    BY DEF TypeOK, Reports
  <2>5. serial' \in Seq(Reports \X (1 .. Pieces)) /\ Len(serial') = Len(serial) + 1
    BY <2>1, <2>3, <2>4, AppendProperties
  <2>6. TypeOK'
    BY <2>1, <2>5 DEF TypeOK, Becomes, Activations, Reports
  <2>7. Top.pc \in Reporting
    BY <2>1 DEF Reporting
  <2> QED
    BY <2>1, <2>2, <2>5, <2>6, <2>7, OnlyTop, <1>l, InPanic DEF Reporting
<1>4. CASE _outchar_console
  <2>1. /\ Top.pc = "console" /\ Becomes("serial", Top.msg)
        /\ console' = IF gConsole THEN Append(console, Piece(console)) ELSE console
        /\ UNCHANGED <<count, inFault, panicBuf, serial, gConsole>>
    BY <1>4, <1>p, GotoBecomes DEF _outchar_console
  <2>2. panicBuf # NoReport /\ (gConsole => Len(console) + 1 = Len(serial))
    BY <2>1, TopType DEF Progressing, Top
  <2>3. /\ console \in Seq(Reports \X (1 .. Pieces)) /\ Len(console) \in Nat
        /\ console' \in Seq(Reports \X (1 .. Pieces))
        /\ gConsole => Len(console') = Len(console) + 1
    <3>1. console \in Seq(Reports \X (1 .. Pieces)) /\ Len(console) \in Nat
      BY DEF TypeOK, Reports
    <3>2. CASE gConsole
      <4>1. Len(console) + 1 \in 1 .. Pieces
        BY <2>2, <3>1, <3>2, PiecesAssumption DEF Progressing, TypeOK
      <4>2. Piece(console) \in Reports \X (1 .. Pieces)
        BY <2>2, <4>1 DEF TypeOK, Piece, Reports
      <4> QED
        BY <2>1, <3>1, <3>2, <4>2, AppendProperties
    <3>3. CASE ~gConsole
      BY <2>1, <3>1, <3>3
    <3> QED
      BY <3>1, <3>2, <3>3
  <2>4. TypeOK'
    BY <2>1, <2>3 DEF TypeOK, Becomes, Activations, Reports
  <2>5. Top.pc \in Reporting
    BY <2>1 DEF Reporting
  <2> QED
    BY <2>1, <2>2, <2>3, <2>4, <2>5, OnlyTop, <1>l, InPanic DEF Reporting
<1>5. CASE Halt
  <2>1. /\ Top.pc = "serial" /\ Becomes("halt", Top.msg)
        /\ UNCHANGED <<count, inFault, panicBuf, serial, console, gConsole>>
    BY <1>5, <1>p, GotoBecomes DEF Halt, out
  <2>2. panicBuf # NoReport
    BY <2>1, TopType DEF Progressing, Top
  <2>3. TypeOK'
    BY <2>1 DEF TypeOK, Becomes, Activations
  <2>4. Top.pc \in Reporting
    BY <2>1 DEF Reporting
  <2> QED
    BY <2>1, <2>2, <2>3, <2>4, OnlyTop, <1>l, InPanic DEF Reporting
<1> QED
  BY <1>1, <1>2, <1>3, <1>4, <1>5 DEF panic

\* Every step preserves the inductive invariant.
LEMMA NextIInv == IInv /\ [Next]_vars => IInv'
<1> SUFFICES ASSUME IInv, [Next]_vars PROVE IInv'
  OBVIOUS
<1>t. TypeOK /\ Top.msg \in Messages /\ inFault \in BOOLEAN
  BY TopType DEF IInv, Activations, TypeOK
<1>1. CASE Failure
  <2>1. ASSUME NEW kind \in Kinds, Enter(kind)
        PROVE  IInv'
    BY <2>1, EnterIInv
  <2>2. ASSUME NEW msg \in {"require", "smashed"}, Call(msg), Top.pc # "entered",
               UNCHANGED <<count, inFault, panicBuf, out, gConsole>>
        PROVE  IInv'
    <3>1. msg \in Messages
      BY DEF Messages
    <3>2. Becomes("lock", msg)
      BY <1>t, <2>2, <3>1, CallBecomes
    <3>3. Top.kind = "pagefault" => inFault
      BY <1>t, <2>2, TopType DEF IInv, Flagged, Top
    <3> QED
      BY <1>t, <2>2, <3>1, <3>2, <3>3, BeforePanic
  <2>3. Require => IInv'
    BY <2>2 DEF Require
  <2>4. StackCheckFail => IInv'
    BY <2>2 DEF StackCheckFail, Faulting
  <2> QED
    BY <1>1, <2>1, <2>3, <2>4 DEF Failure, Fault, NMI, Kinds
<1>2. CASE HandlePageFault
  <2>1. /\ Top.pc = "entered" /\ Top.kind = "pagefault" /\ inFault' = TRUE
        /\ UNCHANGED <<count, panicBuf, out, gConsole>>
    BY <1>2 DEF HandlePageFault
  <2>2. CASE inFault
    <3>1. "nested" \in Messages
      BY DEF Messages
    <3>2. Becomes("lock", "nested")
      BY <1>2, <1>t, <2>2, <3>1, CallBecomes DEF HandlePageFault
    <3> QED
      BY <2>1, <3>1, <3>2, BeforePanic
  <2>3. CASE ~inFault
    <3>1. Becomes("format", Top.msg)
      BY <1>2, <1>t, <2>3, GotoBecomes DEF HandlePageFault, PCs
    <3> QED
      BY <1>t, <2>1, <2>3, <3>1, BeforePanic DEF Kinds
  <2> QED
    BY <2>2, <2>3
<1>3. CASE HandleException
  <2>1. Top.kind # "pagefault" /\ Becomes("format", Top.msg)
    BY <1>3, <1>t, GotoBecomes DEF HandleException, PCs
  <2>2. Top.kind \in Kinds
    BY <1>3, <1>t, TopType DEF HandleException, Goto, IInv, Flagged, Top
  <2> QED
    BY <1>3, <1>t, <2>1, <2>2, BeforePanic DEF HandleException
<1>4. CASE FormatInfo
  <2>1. Top.kind \in Messages
    BY <1>4, <1>t, TopType DEF FormatInfo, IInv, Flagged, Top, Messages
  <2>2. Becomes("lock", Top.kind)
    BY <1>4, <1>t, <2>1, CallBecomes DEF FormatInfo
  <2>3. Top.pc = "format" /\ UNCHANGED <<count, inFault, panicBuf, out, gConsole>>
    BY <1>4 DEF FormatInfo
  <2>4. Top.kind = "pagefault" => inFault
    BY <1>t, <2>3, TopType DEF IInv, Flagged, Top
  <2> QED
    BY <1>t, <2>1, <2>2, <2>3, <2>4, BeforePanic
<1>5. CASE panic
  BY <1>5, PanicIInv
<1>6. CASE UNCHANGED vars
  BY <1>6 DEF vars, IInv, TypeOK, OneReporter, Progressing, Flagged, PageFaultOnce
<1> QED
  BY <1>1, <1>2, <1>3, <1>4, <1>5, <1>6 DEF Next, Handle

\* The inductive invariant holds throughout.
LEMMA Invariance == Spec => []IInv
<1>1. Init /\ [][Next]_vars => []IInv
  BY InitIInv, NextIInv, PTL
<1> QED
  BY <1>1, PTL DEF Spec, Safety

\* The activations, messages and pieces of a report stay what they are declared
\* to be, however deep failures nest: no report runs past its last piece.
THEOREM TypeCorrect == Spec => []TypeOK
<1>1. IInv => TypeOK
  BY DEF IInv
<1> QED
  BY <1>1, Invariance, PTL

-----------------------------------------------------------------------------
\* A page fault inside the page fault handler does not recurse.
THEOREM PageFaultDoesNotRecurse == Spec => []PageFaultOnce
<1>1. IInv => PageFaultOnce
  BY DEF IInv
<1> QED
  BY <1>1, Invariance, PTL

\* Every step of a failing machine is a step of the one report, or nothing
\* that the serial line and the console show.
LEMMA StepRefines ==
  IInv /\ [Next]_vars => [Report!Next]_<<panicBuf, serial, console, gConsole>>
<1> SUFFICES ASSUME IInv, [Next]_vars
             PROVE  [Report!Next]_<<panicBuf, serial, console, gConsole>>
  OBVIOUS
<1>t. TypeOK
  BY DEF IInv
<1>1. CASE Failure \/ Handle \/ SpinLock \/ Halt \/ UNCHANGED vars
  BY <1>1 DEF Failure, Handle, Fault, NMI, Enter, Require, StackCheckFail, HandlePageFault,
              HandleException, FormatInfo, SpinLock, Halt, vars, out
<1>2. CASE FillBuffer
  <2>1. Top.pc = "fill" /\ panicBuf' = [act |-> Running, msg |-> Top.msg]
        /\ UNCHANGED <<serial, console, gConsole>>
    BY <1>2 DEF FillBuffer, Goto, out
  <2>2. panicBuf' # NoReport
    BY <1>t, <2>1, TopType, NoReportAssumption DEF Activations
  <2>3. panicBuf = NoReport
    BY <1>t, <2>1, TopType DEF IInv, Progressing, Top
  <2> QED
    BY <2>1, <2>2, <2>3 DEF Report!Next, Report!Claim
<1>3. CASE _outchar_serial
  <2>1. /\ Top.pc = "serial" /\ Len(serial) < Pieces
        /\ serial' = Append(serial, <<panicBuf, Len(serial) + 1>>)
        /\ UNCHANGED <<panicBuf, console, gConsole>>
    BY <1>3 DEF _outchar_serial, Goto, Piece
  <2>2. panicBuf # NoReport /\ (gConsole => Len(console) = Len(serial))
    BY <1>t, <2>1, TopType DEF IInv, Progressing, Top
  <2> QED
    BY <2>1, <2>2 DEF Report!Next, Report!EmitSerial
<1>4. CASE _outchar_console
  <2>1. /\ Top.pc = "console"
        /\ console' = IF gConsole THEN Append(console, <<panicBuf, Len(console) + 1>>)
                      ELSE console
        /\ UNCHANGED <<panicBuf, serial, gConsole>>
    BY <1>4 DEF _outchar_console, Goto, Piece
  <2>2. gConsole => Len(console) + 1 = Len(serial)
    BY <1>t, <2>1, TopType DEF IInv, Progressing, Top
  <2>3. Len(console) \in Nat
    BY <1>t DEF TypeOK
  <2>4. gConsole => Len(console) < Len(serial)
    BY <2>2, <2>3
  <2> QED
    BY <2>1, <2>4 DEF Report!Next, Report!EmitConsole
<1> QED
  BY <1>1, <1>2, <1>3, <1>4 DEF Next, panic

\* One report, untorn, on both devices, whatever fails on the way.
THEOREM PanicImplementsOneReport == Spec => ImplementsOneReport
<1>1. Init => Report!Init
  BY DEF Init, Report!Init
<1>2. []IInv /\ [][Next]_vars => [][Report!Next]_<<panicBuf, serial, console, gConsole>>
  BY StepRefines, PTL
<1> QED
  BY <1>1, <1>2, Invariance, PTL DEF Spec, Safety, ImplementsOneReport, Report!Spec

-----------------------------------------------------------------------------
(* Printf: texts, of whatever length *)

\* A sequence, of whatever
IsText(s) == \E S : s \in Seq(S)

LEMMA TextLength == ASSUME NEW s, IsText(s) PROVE Len(s) \in Nat
BY DEF IsText

LEMMA MappedText ==
  ASSUME NEW n \in Int, NEW f, f = [k \in 1 .. n |-> f[k]] PROVE IsText(f)
<1> DEFINE S == {f[k] : k \in 1 .. n}  m == IF n < 0 THEN 0 ELSE n
<1>1. m \in Nat /\ 1 .. n = 1 .. m
  OBVIOUS
<1>2. \A k \in 1 .. m : f[k] \in S
  BY <1>1
<1> HIDE DEF S
<1>3. f \in [1 .. m -> S]
  BY <1>1, <1>2
<1>4. f \in Seq(S)
  BY <1>1, <1>3
<1> QED  BY <1>4 DEF IsText

LEMMA ShortTexts == IsText(<<>>) /\ \A x : IsText(<<x>>)
<1>1. IsText(<<>>)
  <2>1. <<>> \in Seq(Int)
    OBVIOUS
  <2> QED  BY <2>1 DEF IsText
<1>2. ASSUME NEW x PROVE IsText(<<x>>)
  <2>1. <<x>> \in Seq({x})
    OBVIOUS
  <2> QED  BY <2>1 DEF IsText
<1> QED  BY <1>1, <1>2

LEMMA ConcatText ==
  ASSUME NEW s, NEW t, IsText(s), IsText(t) PROVE IsText(s \o t)
<1>1. PICK S : s \in Seq(S)
  BY DEF IsText
<1>2. PICK T : t \in Seq(T)
  BY DEF IsText
<1>3. s \in Seq(S \cup T) /\ t \in Seq(S \cup T)
  BY <1>1, <1>2
<1>4. s \o t \in Seq(S \cup T)
  BY <1>3, ConcatProperties
<1> QED  BY <1>4 DEF IsText

LEMMA FrontText ==
  ASSUME NEW s, IsText(s), NEW n \in Nat, n <= Len(s) PROVE IsText(SubSeq(s, 1, n))
<1>1. PICK S : s \in Seq(S)
  BY DEF IsText
<1>2. SubSeq(s, 1, n) \in Seq(S)
  BY <1>1, SubSeqProperties
<1> QED  BY <1>2 DEF IsText

LEMMA ReverseText == ASSUME NEW s, IsText(s) PROVE IsText(Reverse(s))
<1>1. Len(s) \in Int
  BY TextLength
<1>2. Reverse(s) = [k \in 1 .. Len(s) |-> Reverse(s)[k]]
  BY DEF Reverse
<1> QED  BY <1>1, <1>2, MappedText

LEMMA FillText == ASSUME NEW c, NEW n \in Int PROVE IsText(Fill(c, n))
<1>1. Fill(c, n) = [k \in 1 .. n |-> Fill(c, n)[k]]
  BY DEF Fill
<1> QED  BY <1>1, MappedText

LEMMA MinType == ASSUME NEW m \in Int, NEW n \in Int PROVE Min2(m, n) \in Int /\ Min2(m, n) \in {m, n}
BY DEF Min2

LEMMA PadText == ASSUME NEW s, IsText(s), NEW c, NEW n \in Int PROVE IsText(Pad(s, c, n))
<1>1. n - Len(s) \in Int
  BY TextLength
<1>2. IsText(Fill(c, n - Len(s)))
  BY <1>1, FillText
<1> QED  BY <1>2, ConcatText DEF Pad

LEMMA CutText == ASSUME NEW s, IsText(s) PROVE IsText(Cut(s))
<1>1. Len(s) \in Nat /\ B \in Nat
  BY TextLength, SizesAssumption
<1>2. Min2(Len(s), B) \in Nat /\ Min2(Len(s), B) <= Len(s)
  BY <1>1 DEF Min2
<1> QED  BY <1>2, FrontText DEF Cut

LEMMA JustifyText ==
  ASSUME NEW s, IsText(s), NEW f, NEW w \in Int PROVE IsText(Justify(s, f, w))
<1>1. w - Len(s) \in Int
  BY TextLength
<1>2. IsText(Fill(" ", w - Len(s)))
  BY <1>1, FillText
<1>3. IsText(Fill(" ", w - Len(s)) \o s) /\ IsText(Pad(s, " ", w))
  BY <1>2, ConcatText, PadText
<1> QED  BY <1>3 DEF Justify

LEMMA OutRevText ==
  ASSUME NEW s, IsText(s), NEW f, NEW w \in Int PROVE IsText(_out_rev(s, f, w))
<1>1. IsText(Reverse(s))
  BY ReverseText
<1> QED  BY <1>1, JustifyText DEF _out_rev

\* What becomes of a number's digits is a text, whatever its sign, flags, precision and width
LEMMA FormatText ==
  ASSUME NEW s, IsText(s), NEW negative, NEW base, NEW prec \in Int, NEW w \in Int, NEW f
  PROVE  IsText(_ntoa_format(s, negative, base, prec, w, f))
<1> DEFINE left   == "LEFT" \in f
           signs  == (IF negative THEN <<"-">> ELSE <<>>) \o (IF "PLUS" \in f THEN <<"+">> ELSE <<>>)
                       \o (IF "SPACE" \in f THEN <<" ">> ELSE <<>>)
           sign   == SubSeq(signs, 1, Min2(Len(signs), 1))
           for    == IF ~left /\ w > 0 /\ "ZEROPAD" \in f /\ sign # <<>> THEN w - 1 ELSE w
           zeros  == IF left THEN s
                     ELSE Pad(Pad(s, "0", Min2(prec, B)), "0", IF "ZEROPAD" \in f THEN Min2(for, B) ELSE 0)
           drop   == IF "PRECISION" \notin f /\ Len(zeros) \in {prec, for}
                       THEN Min2(Len(zeros), IF base = 16 THEN 2 ELSE 1) ELSE 0
           letter == CASE base = 16 -> <<IF "UPPERCASE" \in f THEN "X" ELSE "x">>
                       [] base = 2  -> <<"b">>
                       [] OTHER     -> <<>>
           hashed == IF "HASH" \in f THEN Cut(SubSeq(zeros, 1, Len(zeros) - drop) \o letter \o <<"0">>)
                     ELSE zeros
<1>1. IsText(sign)
  <2>1. IsText(signs)
    <3>1. /\ IsText(IF negative THEN <<"-">> ELSE <<>>)
          /\ IsText(IF "PLUS" \in f THEN <<"+">> ELSE <<>>)
          /\ IsText(IF "SPACE" \in f THEN <<" ">> ELSE <<>>)
      BY ShortTexts
    <3> QED  BY <3>1, ConcatText
  <2> HIDE DEF signs
  <2>2. Min2(Len(signs), 1) \in Nat /\ Min2(Len(signs), 1) <= Len(signs)
    BY <2>1, TextLength DEF Min2
  <2> QED  BY <2>1, <2>2, FrontText
<1> HIDE DEF sign
<1>2. for \in Int /\ B \in Int
  BY SizesAssumption
<1> HIDE DEF for
<1>3. IsText(zeros)
  <2> DEFINE inner == Pad(s, "0", Min2(prec, B))
             n == IF "ZEROPAD" \in f THEN Min2(for, B) ELSE 0
  <2>1. IsText(inner)
    BY <1>2, MinType, PadText
  <2>2. n \in Int
    BY <1>2, MinType
  <2> HIDE DEF inner, n
  <2>3. IsText(Pad(inner, "0", n))
    BY <2>1, <2>2, PadText
  <2> QED  BY <2>3 DEF inner, n
<1> HIDE DEF zeros
<1>4. IsText(hashed)
  <2>1. Len(zeros) \in Nat
    BY <1>3, TextLength
  <2>2. drop \in Nat /\ drop <= Len(zeros)
    BY <2>1 DEF Min2
  <2>3. IsText(letter)
    BY ShortTexts
  <2> HIDE DEF drop, letter
  <2>4. Len(zeros) - drop \in Nat /\ Len(zeros) - drop <= Len(zeros)
    BY <2>1, <2>2
  <2>5. IsText(SubSeq(zeros, 1, Len(zeros) - drop))
    BY <1>3, <2>4, FrontText
  <2>6. IsText(SubSeq(zeros, 1, Len(zeros) - drop) \o letter)
    BY <2>3, <2>5, ConcatText
  <2>7. IsText(SubSeq(zeros, 1, Len(zeros) - drop) \o letter \o <<"0">>)
    BY <2>6, ShortTexts, ConcatText
  <2> QED  BY <1>3, <2>7, CutText
<1> HIDE DEF hashed
<1>5. IsText(_out_rev(Cut(hashed \o sign), f, for))
  <2>1. IsText(Cut(hashed \o sign))
    BY <1>1, <1>4, ConcatText, CutText
  <2> QED  BY <1>2, <2>1, OutRevText
<1> QED  BY <1>5, Zenon DEF _ntoa_format, hashed, zeros, drop, letter, for, sign

LEMMA DigitsText == ASSUME NEW v, NEW base, NEW f PROVE IsText(Digits(v, base, f))
<1> DEFINE left == CHOOSE left : left = [k \in 0 .. B |-> IF k = 0 THEN v ELSE left[k - 1] \div base]
           ends == {k \in 1 .. B : left[k] = 0 \/ k = B}
           n == CHOOSE k \in ends : \A l \in ends : k <= l
           digit(d) == (IF "UPPERCASE" \in f THEN Capitals ELSE Numerals)[d + 1]
<1>1. B \in ends /\ ends \in SUBSET Nat
  BY SizesAssumption
<1>2. n \in Int
  <2> HIDE DEF ends
  <2>1. \E k \in ends : \A l \in ends : k <= l
    BY <1>1, Least
  <2>2. n \in ends
    BY <2>1
  <2> HIDE DEF n
  <2>3. n \in Nat
    BY <1>1, <2>2
  <2> QED  BY <2>3
<1>3. Digits(v, base, f) = [k \in 1 .. n |-> digit(left[k - 1] % base)]
  BY Zenon DEF Digits
<1> HIDE DEF n, left, digit
<1>4. Digits(v, base, f) = [k \in 1 .. n |-> Digits(v, base, f)[k]]
  BY <1>3
<1> QED  BY <1>2, <1>4, MappedText

LEMMA NtoaText ==
  ASSUME NEW v, NEW negative, NEW base, NEW prec \in Int, NEW w \in Int, NEW f
  PROVE  IsText(_ntoa(v, negative, base, prec, w, f))
<1> DEFINE s == IF "PRECISION" \notin f \/ v # 0 THEN Digits(v, base, f) ELSE <<>>
<1>1. IsText(s)
  BY DigitsText, ShortTexts
<1> HIDE DEF s
<1>2. IsText(_ntoa_format(s, negative, base, prec, w, IF v = 0 THEN f \ {"HASH"} ELSE f))
  BY <1>1, FormatText
<1> QED  BY <1>2, Zenon DEF _ntoa, s

-----------------------------------------------------------------------------
(* The fields *)

LEMMA CallType ==
  ASSUME call \in Calls
  PROVE  /\ call.maxlen \in Nat /\ call.maxlen <= SizeMax
         /\ call.format \in Seq(STRING \ {NUL}) /\ Len(call.format) \in Nat
         /\ call.args \in Seq([n : Int, text : Seq(STRING)]) /\ Len(call.args) \in Nat
<1>1. call \in [sink : {"buffer", "fct", "null"}, maxlen : 0 .. SizeMax,
               format : Seq(STRING \ {NUL}),
               args : Seq([n : Int, text : Seq(STRING)]), means : Seq(STRING)]
  BY CallsAssumption
<1>2. call.maxlen \in 0 .. SizeMax /\ call.format \in Seq(STRING \ {NUL})
      /\ call.args \in Seq([n : Int, text : Seq(STRING)])
  BY <1>1
<1> HIDE DEF NUL
<1> QED  BY <1>2, SizesAssumption

\* A character that is one is not behind the end
LEMMA CharInside ==
  ASSUME call \in Calls, NEW p \in Nat \ {0}, Char(p) # NUL PROVE p <= Len(call.format)
BY DEF Char

\* The digits from p on: all of them are, and they do not go beyond the format
LEMMA DigitsFrom ==
  ASSUME call \in Calls, NEW p \in 1 .. Len(call.format) + 1
  PROVE  /\ Len(_is_digits(p)) \in Nat /\ p + Len(_is_digits(p)) <= Len(call.format) + 1
         /\ \A k \in 1 .. Len(_is_digits(p)) : _is_digits(p)[k] \in DigitChars
<1> DEFINE n == Len(call.format)
           ends == {q \in p .. n + 1 : Char(q) \notin DigitChars}
           end == CHOOSE q \in ends : \A r \in ends : q <= r
<1>1. n \in Nat /\ p \in Nat /\ p >= 1 /\ p <= n + 1
  BY CallType
<1>2. NUL \notin DigitChars
  <2>1. \A d \in 1 .. 10 : Numerals[d] # NUL
    <3>1. \A d \in 1 .. 10 : d = 1 \/ d = 2 \/ d = 3 \/ d = 4 \/ d = 5 \/ d = 6 \/ d = 7 \/ d = 8 \/ d = 9 \/ d = 10
      OBVIOUS
    <3>2. /\ Numerals[1] = "0" /\ Numerals[2] = "1" /\ Numerals[3] = "2" /\ Numerals[4] = "3"
          /\ Numerals[5] = "4" /\ Numerals[6] = "5" /\ Numerals[7] = "6" /\ Numerals[8] = "7"
          /\ Numerals[9] = "8" /\ Numerals[10] = "9"
      BY DEF Numerals
    <3> QED  BY <3>1, <3>2 DEF NUL
  <2> QED  BY <2>1 DEF DigitChars
<1>3. n + 1 \in ends
  BY <1>1, <1>2 DEF Char
<1>4. ends \in SUBSET Nat
  BY <1>1
<1>5. end \in ends /\ \A r \in ends : end <= r
  <2> HIDE DEF ends
  <2>1. \E q \in ends : \A r \in ends : q <= r
    BY <1>3, <1>4, Least
  <2> QED  BY <2>1
<1>6. _is_digits(p) = SubSeq(call.format, p, end - 1)
  BY DEF _is_digits
<1> HIDE DEF end
<1>7. end \in p .. n + 1
  BY <1>5
<1>8. \A k \in p .. end - 1 : Char(k) \in DigitChars
  BY <1>1, <1>5, <1>7
<1> DEFINE m == end - p
<1>9. m \in Nat /\ Len(SubSeq(call.format, p, end - 1)) = m
      /\ \A k \in 1 .. m : SubSeq(call.format, p, end - 1)[k] = call.format[p + k - 1]
  <2> HIDE DEF NUL
  <2> QED  BY <1>1, <1>7, CallType, SubSeqProperties
<1>10. \A k \in 1 .. m : call.format[p + k - 1] \in DigitChars
  <2> TAKE k \in 1 .. m
  <2>1. p + k - 1 \in p .. end - 1 /\ p + k - 1 <= n
    BY <1>1, <1>7
  <2>2. Char(p + k - 1) = call.format[p + k - 1]
    BY <2>1 DEF Char
  <2> QED  BY <1>8, <2>1, <2>2
<1>11. Len(_is_digits(p)) = m /\ \A k \in 1 .. m : _is_digits(p)[k] \in DigitChars
  BY <1>6, <1>9, <1>10
<1> HIDE DEF m
<1>12. m \in Nat /\ p + m <= n + 1
  BY <1>1, <1>7, <1>9 DEF m
<1> QED  BY <1>11, <1>12

LEMMA DigitType ==
  ASSUME NEW c \in DigitChars PROVE DigitOf[c] \in 0 .. 9
<1>1. PICK d \in 1 .. 10 : c = Numerals[d]
  BY DEF DigitChars
<1>2. d - 1 \in 0 .. 9 /\ Numerals[(d - 1) + 1] = c
  BY <1>1
<1> QED  BY <1>2 DEF DigitOf

\* The recursion _atoi is defined by
IsValue(f, digits) ==
  f = [k \in 0 .. Len(digits) |->
         IF k = 0 THEN 0 ELSE (10 * f[k - 1] + DigitOf[digits[k]]) % Values["int"]]

LEMMA AtoiByRecursion ==
  ASSUME NEW digits, Len(digits) \in Nat, \A k \in 1 .. Len(digits) : digits[k] \in DigitChars
  PROVE  \E value \in [0 .. Len(digits) -> Nat] : IsValue(value, digits) /\ _atoi(digits) = value[Len(digits)]
<1> DEFINE n == Len(digits)
           digit == [k \in 1 .. n |-> DigitOf[digits[k]]]
           step == [k \in 1 .. n |-> [v \in Nat |-> (10 * v + digit[k]) % Values["int"]]]
           value == CHOOSE f : IsValue(f, digits)
<1>1. \A k \in 1 .. n : digit[k] \in 0 .. 9
  BY DigitType
<1>2. \A v \in Nat : \A d \in 0 .. 9 : (10 * v + d) % Values["int"] \in Nat
  <2>1. Values["int"] \in Nat \ {0}
    BY ValuesAssumption
  <2> QED  BY <2>1
<1>3. step \in Steps(n, Nat)
  <2> HIDE DEF digit, n
  <2> QED  BY <1>1, <1>2 DEF Steps
<1>4. PICK g : IsFold(g, n, Nat, 0, step)
  <2> HIDE DEF step, n
  <2> QED  BY <1>3, Recursion DEF n
<1>5. g \in [0 .. n -> Nat] /\ g[0] = 0 /\ \A k \in 1 .. n : g[k] = step[k][g[k - 1]]
  BY <1>4 DEF IsFold
<1>6. \A k \in 1 .. n : g[k] = (10 * g[k - 1] + digit[k]) % Values["int"]
  <2> HIDE DEF digit, n
  <2> TAKE k \in 1 .. n
  <2>1. k - 1 \in 0 .. n
    BY DEF n
  <2>2. g[k - 1] \in Nat
    BY <1>5, <2>1
  <2> QED  BY <1>5, <2>2
<1>7. IsValue(g, digits)
  <2> HIDE DEF step
  <2> QED  BY <1>5, <1>6 DEF IsValue
<1>8. IsValue(value, digits)
  BY <1>7
<1>9. _atoi(digits) = value[n]
  BY Zenon DEF _atoi, IsValue
<1> HIDE DEF value
<1>10. value[0] = 0 /\ \A k \in 1 .. n : value[k] = (10 * value[k - 1] + digit[k]) % Values["int"]
  BY <1>8 DEF IsValue
<1> DEFINE T == {k \in 0 .. n : value[k] \in Nat}
<1>11. 0 \in T
  BY <1>10
<1>12. ASSUME NEW k \in 0 .. n, k # n, k \in T PROVE k + 1 \in T
  <2>1. k + 1 \in 1 .. n /\ (k + 1) - 1 = k /\ k + 1 \in 0 .. n
    BY <1>12
  <2> HIDE DEF digit
  <2>2. value[k + 1] = (10 * value[k] + digit[k + 1]) % Values["int"] /\ digit[k + 1] \in 0 .. 9
    BY <1>1, <1>10, <2>1
  <2>3. value[k + 1] \in Nat
    BY <1>2, <1>12, <2>2
  <2> QED  BY <2>1, <2>3
<1>13. \A k \in 0 .. n : k \in T
  <2> HIDE DEF T, n
  <2> QED  BY <1>11, <1>12, Induction DEF n
<1>14. value \in [0 .. n -> Nat]
  <2>1. \A k \in 0 .. n : value[k] \in Nat
    BY <1>13
  <2> QED  BY <1>8, <2>1 DEF IsValue
<1> QED  BY <1>8, <1>9, <1>14

LEMMA AtoiType ==
  ASSUME NEW digits, Len(digits) \in Nat, \A k \in 1 .. Len(digits) : digits[k] \in DigitChars
  PROVE  _atoi(digits) \in Nat
<1>1. PICK value \in [0 .. Len(digits) -> Nat] : _atoi(digits) = value[Len(digits)]
  BY AtoiByRecursion
<1>2. Len(digits) \in 0 .. Len(digits)
  OBVIOUS
<1> QED  BY <1>1, <1>2

LEMMA SignedType ==
  ASSUME NEW v \in Int, NEW m \in Nat \ {0} PROVE Signed(v, m) \in Int /\ v % m \in Nat
<1>1. m \div 2 \in Int
  OBVIOUS
<1>2. (v + m \div 2) \in Int /\ (v + m \div 2) % m \in Int
  BY <1>1
<1> QED  BY <1>1, <1>2 DEF Signed

-----------------------------------------------------------------------------
(* The invariant *)

PrintfTypes ==
  /\ call \in Calls
  /\ at \in 1 .. Len(call.format) + 1
  /\ arg \in 1 .. Len(call.args) + 1
  /\ width \in Nat /\ precision \in Nat /\ idx \in Nat
  /\ buffer = [k \in 0 .. Extent - 1 |-> buffer[k]]

\* The first place that is still as it was: the NUL is the last store
StoredTo == IF phase = "return" THEN idx + 1 ELSE idx

\* Bounded, but for a NUL that has no place in the memory
BoundedInRoom ==
  call.sink = "buffer" =>
    /\ \A k \in DOMAIN buffer : k >= call.maxlen \/ k >= StoredTo => buffer[k] = Old
    /\ phase = "return" /\ call.maxlen > 0 /\ Min2(idx, call.maxlen - 1) < Extent
         => buffer[Min2(idx, call.maxlen - 1)] = NUL

PrintfInv == PrintfTypes /\ BoundedInRoom

LEMMA PrintfStarts == PrintfInit => PrintfInv
<1> SUFFICES ASSUME PrintfInit PROVE PrintfInv
  OBVIOUS
<1> USE DEF PrintfInit
<1>1. call \in Calls /\ Len(call.format) \in Nat /\ Len(call.args) \in Nat /\ call.maxlen \in Nat
  BY CallType
<1>2. PrintfTypes
  BY <1>1 DEF PrintfTypes
<1>3. BoundedInRoom
  BY DEF BoundedInRoom
<1> QED  BY <1>2, <1>3 DEF PrintfInv

\* A text that goes out, whatever it is, leaves what is at or behind maxlen and
\* what is behind the text.
LEMMA OutKeeps ==
  ASSUME PrintfInv, NEW text, IsText(text), Out(text), UNCHANGED call, phase # "return"
  PROVE  /\ idx' \in Nat /\ buffer' = [k \in 0 .. Extent - 1 |-> buffer'[k]]
         /\ call.sink = "buffer" =>
              \A k \in DOMAIN buffer' : k >= call.maxlen \/ k >= idx' => buffer'[k] = Old
<1> USE DEF PrintfInv, PrintfTypes
<1>1. idx' \in Nat /\ idx' = idx + Len(text) /\ Len(text) \in Nat /\ idx \in Nat
  BY TextLength DEF Out
<1>2. call.maxlen \in Nat
  BY CallType
<1>3. CASE call.sink = "buffer"
  <2>1. buffer' = _out_buffer(text)
    BY <1>3 DEF Out
  <2>2. DOMAIN buffer = 0 .. Extent - 1
    OBVIOUS
  <2>3. \A k \in 0 .. Extent - 1 : k >= call.maxlen \/ k >= idx => buffer[k] = Old
    BY <1>3, <2>2 DEF BoundedInRoom, StoredTo
  <2>4. DOMAIN buffer' = 0 .. Extent - 1 /\ buffer' = [k \in 0 .. Extent - 1 |-> buffer'[k]]
    BY <2>1, <2>2 DEF _out_buffer
  <2>5. ASSUME NEW k \in 0 .. Extent - 1, k >= call.maxlen \/ k >= idx' PROVE buffer'[k] = Old
    <3>1. ~(k \in idx .. idx + Len(text) - 1 /\ k < call.maxlen) /\ k \in DOMAIN buffer
      BY <1>1, <1>2, <2>2, <2>5
    <3>2. buffer'[k] = buffer[k]
      BY <2>1, <3>1 DEF _out_buffer
    <3>3. k >= call.maxlen \/ k >= idx
      BY <1>1, <1>2, <2>5
    <3> QED  BY <2>3, <3>2, <3>3
  <2> QED  BY <1>1, <2>4, <2>5
<1>4. CASE call.sink # "buffer"
  <2>1. buffer' = buffer
    BY <1>4 DEF Out
  <2> QED  BY <1>1, <1>4, <2>1
<1> QED  BY <1>3, <1>4

\* A step that puts out a text and stays in the call.
LEMMA TextStep ==
  ASSUME PrintfInv, NEW text, IsText(text), Out(text), UNCHANGED call, phase # "return", phase' = "text",
         at' \in 1 .. Len(call.format) + 1, arg' \in 1 .. Len(call.args) + 1, UNCHANGED fields
  PROVE  PrintfInv'
<1>1. /\ idx' \in Nat /\ buffer' = [k \in 0 .. Extent - 1 |-> buffer'[k]]
      /\ call.sink = "buffer" =>
           \A k \in DOMAIN buffer' : k >= call.maxlen \/ k >= idx' => buffer'[k] = Old
  BY OutKeeps
<1>2. PrintfTypes'
  BY <1>1 DEF PrintfInv, PrintfTypes, fields
<1>3. BoundedInRoom'
  BY <1>1 DEF BoundedInRoom, StoredTo
<1> QED  BY <1>2, <1>3 DEF PrintfInv

LEMMA ConvertedStep ==
  ASSUME PrintfInv, NEW text, IsText(text), NEW n \in {0, 1}, Char(at) # NUL, phase # "return", Converted(text, n)
  PROVE  PrintfInv'
<1>1. /\ call \in Calls /\ at \in 1 .. Len(call.format) + 1 /\ arg \in 1 .. Len(call.args) + 1
      /\ Len(call.format) \in Nat /\ Len(call.args) \in Nat
  BY CallType DEF PrintfInv, PrintfTypes
<1>2. at <= Len(call.format)
  BY <1>1, CharInside
<1>3. at' = at + 1 /\ arg' = arg + n /\ arg + n <= Len(call.args) + 1
  BY DEF Converted, Passed
<1>4. at' \in 1 .. Len(call.format) + 1 /\ arg' \in 1 .. Len(call.args) + 1
  BY <1>1, <1>2, <1>3
<1>5. Out(text) /\ UNCHANGED call /\ phase' = "text" /\ UNCHANGED fields
  BY DEF Converted
<1> QED  BY <1>4, <1>5, TextStep

\* A step that puts out nothing.
LEMMA FieldStep ==
  ASSUME PrintfInv, UNCHANGED <<call, idx, buffer>>, phase # "return", phase' # "return",
         at' \in 1 .. Len(call.format) + 1, arg' \in 1 .. Len(call.args) + 1,
         width' \in Nat, precision' \in Nat
  PROVE  PrintfInv'
<1>1. PrintfTypes'
  BY DEF PrintfInv, PrintfTypes
<1>2. BoundedInRoom'
  BY DEF PrintfInv, BoundedInRoom, StoredTo
<1> QED  BY <1>1, <1>2 DEF PrintfInv

LEMMA ArgumentType ==
  ASSUME PrintfInv, Passed(1) PROVE Va_arg.n \in Int /\ IsText(Va_arg.text)
<1>1. /\ call.args \in Seq([n : Int, text : Seq(STRING)]) /\ Len(call.args) \in Nat
      /\ arg \in 1 .. Len(call.args) + 1
  BY CallType DEF PrintfInv, PrintfTypes
<1>2. arg \in 1 .. Len(call.args)
  BY <1>1 DEF Passed
<1>3. Va_arg \in [n : Int, text : Seq(STRING)]
  <2> DEFINE T == [n : Int, text : Seq(STRING)]
  <2>1. call.args \in Seq(T)
    BY <1>1
  <2> HIDE DEF T
  <2>2. call.args[arg] \in T
    BY <1>2, <2>1, ElementOfSeq
  <2> QED  BY <2>2 DEF Va_arg, T
<1>4. Va_arg.n \in Int /\ Va_arg.text \in Seq(STRING)
  BY <1>3
<1> QED  BY <1>4 DEF IsText

-----------------------------------------------------------------------------
(* The steps *)

LEMMA SmallMod == ASSUME NEW a \in Int, NEW m \in Nat \ {0} PROVE a % m \in Nat /\ (a \in 0 .. m - 1 => a % m = a)
OBVIOUS

LEMMA TerminateStep == ASSUME PrintfInv, Terminate PROVE PrintfInv'
<1>1. /\ call \in Calls /\ idx \in Nat /\ call.maxlen \in Nat /\ call.maxlen <= SizeMax
      /\ SizeMax \in Nat /\ Extent \in Nat
      /\ buffer = [k \in 0 .. Extent - 1 |-> buffer[k]]
  BY CallType, SizesAssumption DEF PrintfInv, PrintfTypes
<1>2. UNCHANGED <<call, at, width, precision, arg, idx>> /\ phase = "text" /\ phase' = "return"
  BY DEF Terminate, At, fields
<1> DEFINE last == IF idx < call.maxlen THEN idx ELSE (call.maxlen - 1) % (SizeMax + 1)
<1>3. buffer' = IF call.sink = "buffer" /\ last < call.maxlen
                  THEN [buffer EXCEPT ![last] = NUL] ELSE buffer
  BY DEF Terminate
<1>4. last \in Nat /\ (call.maxlen > 0 => last = Min2(idx, call.maxlen - 1) /\ last < call.maxlen)
  <2> DEFINE before == call.maxlen - 1  wrapped == before % (SizeMax + 1)
  <2>1. before \in Int /\ SizeMax + 1 \in Nat \ {0} /\ (call.maxlen > 0 => before \in 0 .. (SizeMax + 1) - 1)
    BY <1>1
  <2>2. wrapped \in Nat /\ (call.maxlen > 0 => wrapped = before)
    <3> HIDE DEF before
    <3> QED  BY <2>1, SmallMod
  <2> HIDE DEF wrapped
  <2>3. last = IF idx < call.maxlen THEN idx ELSE wrapped
    BY DEF last, wrapped
  <2> HIDE DEF last
  <2> QED  BY <1>1, <2>2, <2>3 DEF Min2
<1> HIDE DEF last
<1>5. buffer' = [k \in 0 .. Extent - 1 |-> buffer'[k]]
  BY <1>1, <1>3
<1>6. PrintfTypes'
  BY <1>2, <1>5 DEF PrintfInv, PrintfTypes
<1>7. BoundedInRoom'
  <2> SUFFICES ASSUME call.sink = "buffer"
               PROVE  /\ \A k \in 0 .. Extent - 1 : k >= call.maxlen \/ k >= idx + 1 => buffer'[k] = Old
                      /\ call.maxlen > 0 /\ Min2(idx, call.maxlen - 1) < Extent
                           => buffer'[Min2(idx, call.maxlen - 1)] = NUL
    <3>1. DOMAIN buffer' = 0 .. Extent - 1
      BY <1>5
    <3> QED  BY <1>2, <3>1 DEF BoundedInRoom, StoredTo, Min2
  <2>1. \A k \in 0 .. Extent - 1 : k >= call.maxlen \/ k >= idx => buffer[k] = Old
    <3>1. DOMAIN buffer = 0 .. Extent - 1
      BY <1>1
    <3> QED  BY <1>2, <3>1 DEF PrintfInv, BoundedInRoom, StoredTo
  <2>2. ASSUME NEW k \in 0 .. Extent - 1, k >= call.maxlen \/ k >= idx + 1 PROVE buffer'[k] = Old
    <3>1. last < call.maxlen => k # last
      BY <1>1, <1>4, <2>2 DEF Min2
    <3>2. buffer'[k] = buffer[k]
      BY <1>1, <1>3, <3>1
    <3> QED  BY <1>1, <2>1, <2>2, <3>2
  <2>3. ASSUME call.maxlen > 0, Min2(idx, call.maxlen - 1) < Extent
        PROVE  buffer'[Min2(idx, call.maxlen - 1)] = NUL
    <3>2. last \in 0 .. Extent - 1 /\ last < call.maxlen /\ last = Min2(idx, call.maxlen - 1)
      BY <1>1, <1>4, <2>3
    <3>3. last \in DOMAIN buffer
      BY <1>1, <3>2
    <3>4. buffer' = [buffer EXCEPT ![last] = NUL]
      BY <1>3, <3>2
    <3>5. buffer'[last] = NUL
      BY <3>3, <3>4
    <3> QED  BY <3>2, <3>5
  <2> QED  BY <2>2, <2>3
<1> QED  BY <1>6, <1>7 DEF PrintfInv

\* The phase tells which step is next.
LEMMA PhaseActions ==
  ASSUME PrintfNext
  PROVE  /\ phase = "text" => Text \/ Percent \/ Terminate
         /\ phase = "flags" => Flag
         /\ phase = "width" => Width \/ WidthStar
         /\ phase = "precision" => NoPrecision \/ Precision \/ PrecisionStar
         /\ phase = "length" => Length
         /\ phase = "specifier" => Integer \/ Character \/ String \/ Pointer \/ Other
         /\ phase # "return"
<1>1. Text \/ Percent \/ Terminate => phase = "text"
  BY DEF Text, Percent, Terminate, At
<1>2. Flag => phase = "flags"
  BY DEF Flag
<1>3. Width \/ WidthStar => phase = "width"
  BY DEF Width, WidthStar, At
<1>4. NoPrecision \/ Precision \/ PrecisionStar => phase = "precision"
  BY DEF NoPrecision, Precision, PrecisionStar, At
<1>5. Length => phase = "length"
  BY DEF Length
<1>6. Integer \/ Character \/ String \/ Pointer \/ Other => phase = "specifier"
  BY DEF Integer, Character, String, Pointer, Other, At
<1> QED  BY <1>1, <1>2, <1>3, <1>4, <1>5, <1>6 DEF PrintfNext

LEMMA PrintfStep == ASSUME PrintfInv, [PrintfNext]_printf PROVE PrintfInv'
<1>21. CASE UNCHANGED printf
  BY <1>21 DEF printf, fields, PrintfInv, PrintfTypes, BoundedInRoom, StoredTo
<1> SUFFICES ASSUME PrintfNext PROVE PrintfInv'
  BY <1>21
<1>22. phase # "return"
  BY PhaseActions
<1>1. /\ call \in Calls /\ at \in 1 .. Len(call.format) + 1 /\ arg \in 1 .. Len(call.args) + 1
      /\ Len(call.format) \in Nat /\ Len(call.args) \in Nat
      /\ width \in Nat /\ precision \in Nat /\ idx \in Nat
  BY CallType DEF PrintfInv, PrintfTypes
<1> DEFINE n == Len(call.format)
           Inside == at + 1 \in 1 .. n + 1
<1>2. Char(at) # NUL => Inside
  BY <1>1, CharInside
<1>3. Char(at + 1) # NUL => at + 2 \in 1 .. n + 1
  <2>1. at + 1 \in Nat \ {0}
    BY <1>1
  <2>2. Char(at + 1) # NUL => at + 1 <= n
    BY <1>1, <2>1, CharInside
  <2> QED  BY <1>1, <2>2
<1>4. Values["int"] \in Nat \ {0} /\ Values["long"] \in Nat \ {0} /\ Nibbles \in Int
  BY ValuesAssumption
<1>5. Passed(1) => Va_arg.n \in Int /\ IsText(Va_arg.text) /\ arg + 1 \in 1 .. Len(call.args) + 1
  BY <1>1, ArgumentType DEF Passed
<1>6. CASE Text
  <2>1. IsText(<<Char(at)>>)
    BY ShortTexts
  <2>2. Char(at) # NUL /\ Out(<<Char(at)>>) /\ at' = at + 1 /\ phase' = "text"
        /\ UNCHANGED <<call, fields, arg>>
    BY <1>6 DEF Text
  <2> QED  BY <1>1, <1>2, <2>1, <2>2, <1>22, TextStep
<1>7. CASE Percent
  BY <1>1, <1>2, <1>7, <1>22, FieldStep DEF Percent, At, NUL
<1>8. CASE Flag
  <2>1. Char(at) \in DOMAIN FlagOf => Char(at) # NUL
    BY DEF FlagOf, NUL
  <2> QED  BY <1>1, <1>2, <1>8, <2>1, <1>22, FieldStep DEF Flag
<1>9. CASE Width
  <2>1. Len(_is_digits(at)) \in Nat /\ at + Len(_is_digits(at)) <= n + 1 /\ _atoi(_is_digits(at)) \in Nat
    BY <1>1, DigitsFrom, AtoiType
  <2> QED  BY <1>1, <1>9, <2>1, <1>22, FieldStep DEF Width
<1>10. CASE WidthStar
  <2>1. Passed(1) /\ Char(at) # NUL
    BY <1>10 DEF WidthStar, At, NUL
  <2>2. Signed(Va_arg.n, Values["int"]) \in Int
    BY <1>4, <1>5, <2>1, SignedType
  <2>3. width' \in Nat
    BY <1>10, <2>2 DEF WidthStar
  <2> QED  BY <1>1, <1>2, <1>5, <1>10, <2>1, <2>3, <1>22, FieldStep DEF WidthStar
<1>11. CASE NoPrecision
  BY <1>1, <1>11, <1>22, FieldStep DEF NoPrecision, fields
<1>12. CASE Precision
  <2>1. at + 1 \in 1 .. n + 1
    BY <1>2, <1>12 DEF Precision, At, NUL
  <2> DEFINE digits == _is_digits(at + 1)
  <2>2. Len(digits) \in Nat /\ at + 1 + Len(digits) <= n + 1 /\ _atoi(digits) \in Nat
    BY <1>1, <2>1, DigitsFrom, AtoiType
  <2>3. at' = at + 1 + Len(digits) /\ precision' = _atoi(digits) /\ phase' = "length"
        /\ UNCHANGED <<call, width, arg, idx, buffer>>
    BY <1>12 DEF Precision
  <2> HIDE DEF digits
  <2>4. at' \in 1 .. n + 1
    BY <1>1, <2>2, <2>3
  <2> QED  BY <1>1, <2>2, <2>3, <2>4, <1>22, FieldStep
<1>13. CASE PrecisionStar
  <2>1. Passed(1) /\ Char(at + 1) # NUL
    BY <1>13 DEF PrecisionStar, NUL
  <2>2. Signed(Va_arg.n, Values["int"]) \in Int
    BY <1>4, <1>5, <2>1, SignedType
  <2>3. precision' \in Nat
    BY <1>13, <2>2 DEF PrecisionStar
  <2> QED  BY <1>1, <1>3, <1>5, <1>13, <2>1, <2>3, <1>22, FieldStep DEF PrecisionStar
<1>14. CASE Length
  <2>1. at' \in 1 .. n + 1
    <3>1. Char(at) \in {"l", "h", "t", "j", "z"} => Char(at) # NUL /\ Inside
      BY <1>2 DEF NUL
    <3>2. Char(at) \in {"l", "h"} /\ Char(at + 1) = Char(at) => at + 2 \in 1 .. n + 1
      BY <1>3 DEF NUL
    <3> QED  BY <1>1, <1>14, <3>1, <3>2 DEF Length
  <2> QED  BY <1>1, <1>14, <2>1, <1>22, FieldStep DEF Length
<1>15. CASE Integer
  <2> DEFINE c == Char(at)
             text == IntegerText(c, Va_arg.n, flags, width, precision)
  <2>1. Converted(text, 1) /\ c \in DOMAIN Base
    BY <1>15, Zenon DEF Integer
  <2>2. c # NUL
    BY <2>1 DEF Base, NUL
  <2>3. IsText(text)
    <3> HIDE DEF c
    <3>1. precision \in Int /\ width \in Int
      BY <1>1
    <3> QED  BY <3>1, NtoaText, Zenon DEF IntegerText
  <2> HIDE DEF text
  <2> QED  BY <2>1, <2>2, <2>3, <1>22, ConvertedStep
<1>16. CASE Character
  <2> DEFINE text == Justify(Va_arg.text, flags, width)
  <2>1. Converted(text, 1) /\ Char(at) # NUL
    BY <1>16 DEF Character, At, NUL
  <2>2. IsText(text)
    BY <1>1, <1>5, <2>1, JustifyText DEF Converted
  <2> HIDE DEF text
  <2> QED  BY <2>1, <2>2, <1>22, ConvertedStep
<1>17. CASE String
  <2> DEFINE m == IF "PRECISION" \in flags THEN Min2(Len(Va_arg.text), precision) ELSE Len(Va_arg.text)
             text == StringText(Va_arg.text, flags, width, precision)
  <2>1. Converted(text, 1) /\ Char(at) # NUL
    BY <1>17 DEF String, At, NUL
  <2>2. IsText(Va_arg.text)
    BY <1>5, <2>1 DEF Converted
  <2>3. m \in Nat /\ m <= Len(Va_arg.text)
    BY <1>1, <2>2, TextLength DEF Min2
  <2> HIDE DEF m
  <2>4. IsText(SubSeq(Va_arg.text, 1, m))
    BY <2>2, <2>3, FrontText
  <2>5. IsText(text)
    <3>1. IsText(Justify(SubSeq(Va_arg.text, 1, m), flags, width))
      BY <1>1, <2>4, JustifyText
    <3> QED  BY <3>1, Zenon DEF StringText, m
  <2> HIDE DEF text
  <2> QED  BY <2>1, <2>5, <1>22, ConvertedStep
<1>18. CASE Pointer
  <2> DEFINE value == Va_arg.n % Values["long"]
             text == PointerText(Va_arg.n, flags, precision)
  <2>1. Converted(text, 1) /\ Char(at) # NUL
    BY <1>18 DEF Pointer, At, NUL
  <2>2. IsText(text)
    <3> HIDE DEF value
    <3>1. precision \in Int /\ Nibbles \in Int
      BY <1>1, <1>4
    <3> QED  BY <3>1, NtoaText, Zenon DEF PointerText, value
  <2> HIDE DEF text
  <2> QED  BY <2>1, <2>2, <1>22, ConvertedStep
<1>19. CASE Other
  <2>1. Converted(<<Char(at)>>, 0) /\ Char(at) # NUL
    BY <1>19 DEF Other
  <2>2. IsText(<<Char(at)>>)
    BY ShortTexts
  <2> QED  BY <2>1, <2>2, <1>22, ConvertedStep
<1>20. CASE Terminate
  BY <1>20, TerminateStep
<1> QED  BY <1>6, <1>7, <1>8, <1>9, <1>10, <1>11, <1>12, <1>13, <1>14, <1>15, <1>16, <1>17,
            <1>18, <1>19, <1>20 DEF PrintfNext

LEMMA PrintfInvariance == PrintfSpec => []PrintfInv
<1>1. PrintfInv /\ [PrintfNext]_printf => PrintfInv'
  BY PrintfStep
<1> QED  BY <1>1, PrintfStarts, PTL DEF PrintfSpec

\* What the invariant says of all that is looked at, for a call that stores in
\* the caller's memory only
LEMMA BoundedIf ==
  ASSUME PrintfInv, call.sink = "buffer", call.maxlen <= Room \/ idx < Room
  PROVE  Bounded
<1>1. call.maxlen \in Nat /\ idx \in Nat /\ Room \in Nat /\ Extent \in Nat /\ Room <= Extent
      /\ DOMAIN buffer = 0 .. Extent - 1
  <2>1. buffer = [k \in 0 .. Extent - 1 |-> buffer[k]]
    BY DEF PrintfInv, PrintfTypes
  <2> QED  BY <2>1, CallType, SizesAssumption DEF PrintfInv, PrintfTypes
<1>2. StoredTo \in Nat /\ StoredTo <= idx + 1
  BY <1>1 DEF StoredTo
<1>3. ASSUME NEW k \in DOMAIN buffer, k >= call.maxlen \/ k >= Room \/ k > idx PROVE buffer[k] = Old
  <2>1. k >= call.maxlen \/ k >= StoredTo
    BY <1>1, <1>2, <1>3
  <2> QED  BY <2>1 DEF PrintfInv, BoundedInRoom
<1>4. ASSUME phase = "return", call.maxlen > 0 PROVE buffer[Min2(idx, call.maxlen - 1)] = NUL
  <2>1. Min2(idx, call.maxlen - 1) < Extent
    BY <1>1 DEF Min2
  <2> QED  BY <1>4, <2>1 DEF PrintfInv, BoundedInRoom
<1> QED  BY <1>3, <1>4 DEF Bounded

\* No count is more than its buffer has.
Fits == \A c \in Calls : c.sink = "buffer" => c.maxlen <= Room

\* Whatever the format, its arguments and their values: nothing is stored at or
\* behind the count that snprintf was given, nor behind the buffer, if it is that
\* long, nor behind the NUL of what came out, and what was stored ends in a NUL
\* (printf.cpp, _out_buffer, _vsnprintf).
THEOREM PrintfKeepsBounds == ASSUME Fits PROVE PrintfSpec => []Bounded
<1>1. ASSUME PrintfInv PROVE Bounded
  <2> SUFFICES ASSUME call.sink = "buffer" PROVE Bounded
    BY DEF Bounded
  <2>1. call.maxlen <= Room /\ call.maxlen \in Nat /\ idx \in Nat
    BY <1>1, CallType DEF Fits, PrintfInv, PrintfTypes
  <2> QED  BY <1>1, <2>1, BoundedIf
<1> QED  BY <1>1, PrintfInvariance, PTL

-----------------------------------------------------------------------------
(* How a directive is spelled *)

\* The provers do not know that a literal is in STRING
Signs   == {"%", "*", ".", "-", "+", " ", "#", NUL}
Letters == {"a", "b", "c", "d", "e", "f", "h", "i", "j", "l", "o", "p", "s", "t", "u", "x", "z"}
Uppers  == {"A", "B", "C", "D", "E", "F", "X"}
Figures == {"0", "1", "2", "3", "4", "5", "6", "7", "8", "9"}
Alphabet == STRING \union Signs \union Letters \union Uppers \union Figures

LEMMA Strings ==
  /\ DOMAIN FlagOf = {"0", "-", "+", " ", "#"}
  /\ DOMAIN Base = {"d", "i", "u", "x", "X", "o", "b"}
  /\ DigitChars = Figures
<1>1. DigitChars = {"0", "1", "2", "3", "4", "5", "6", "7", "8", "9"}
  <2>1. \A d : d \in 1 .. 10 <=> (d = 1 \/ d = 2 \/ d = 3 \/ d = 4 \/ d = 5 \/ d = 6 \/ d = 7 \/ d = 8 \/ d = 9 \/ d = 10)
    OBVIOUS
  <2>2. /\ Numerals[1] = "0" /\ Numerals[2] = "1" /\ Numerals[3] = "2" /\ Numerals[4] = "3"
        /\ Numerals[5] = "4" /\ Numerals[6] = "5" /\ Numerals[7] = "6" /\ Numerals[8] = "7"
        /\ Numerals[9] = "8" /\ Numerals[10] = "9"
    BY DEF Numerals
  <2>3. ASSUME NEW c PROVE c \in DigitChars <=> \E d \in 1 .. 10 : c = Numerals[d]
    BY DEF DigitChars
  <2> HIDE DEF DigitChars
  <2>4. ASSUME NEW c PROVE c \in DigitChars <=> c \in {"0", "1", "2", "3", "4", "5", "6", "7", "8", "9"}
    BY <2>1, <2>2, <2>3
  <2> QED  BY <2>4
<1>3. DOMAIN FlagOf = {"0", "-", "+", " ", "#"}
  BY DEF FlagOf
<1>4. DOMAIN Base = {"d", "i", "u", "x", "X", "o", "b"}
  BY DEF Base
<1> QED  BY <1>1, <1>3, <1>4 DEF Figures

Specifiers == DOMAIN Base \union {"c", "s", "p", "%"}

LengthChars == {"h", "l", "j", "z", "t"}

\* The parts of a directive and where each begins: what lies before it
Parts(d) ==
  /\ d.flags \in Seq(Alphabet) /\ d.width.text \in Seq(Alphabet)
  /\ d.precision.text \in Seq(Alphabet) /\ d.length \in Seq(Alphabet) /\ d.specifier \in Alphabet

LEMMA PartsAreTexts ==
  ASSUME NEW d, WellFormed(d), d.specifier # "text" PROVE Parts(d)
<1>1. /\ d.flags \in Seq(DOMAIN FlagOf) /\ d.length \in Lengths /\ IsWidth(d.width) /\ IsPrecision(d.precision)
      /\ d.specifier \in DOMAIN Base \union {"c", "s", "p", "%"}
  BY DEF WellFormed
<1>2. /\ DOMAIN FlagOf \subseteq Alphabet /\ DigitChars \subseteq Alphabet
      /\ LengthChars \subseteq Alphabet /\ STRING \subseteq Alphabet /\ Specifiers \subseteq Alphabet /\ "*" \in Alphabet /\ "." \in Alphabet
  BY Strings DEF Alphabet, Signs, Letters, Uppers, Figures, LengthChars, Specifiers
<1>3. d.flags \in Seq(Alphabet)
  BY <1>1, <1>2, SeqMonotonic
<1>4. ASSUME NEW digits \in Seq(DigitChars) PROVE digits \in Seq(Alphabet)
  BY <1>2, SeqMonotonic
<1>5. d.width.text \in Seq(Alphabet)
  <2>1. CASE d.width = Field(<<>>, 0)
    BY <2>1 DEF Field
  <2>2. CASE d.width.text = <<"*">>
    BY <1>2, <2>2
  <2>3. CASE IsDecimal(d.width.text, d.width.n)
    BY <1>4, <2>3 DEF IsDecimal
  <2> QED  BY <1>1, <2>1, <2>2, <2>3 DEF IsWidth
<1>6. d.precision.text \in Seq(Alphabet)
  <2> DEFINE t == d.precision.text
  <2>1. CASE d.precision = Field(<<>>, -1)
    <3>1. t = <<>>
      BY <2>1 DEF Field
    <3> QED  BY <3>1, EmptySeq
  <2>4. CASE d.precision = Field(<<".">>, 0)
    <3>1. t = <<".">>
      BY <2>4 DEF Field
    <3> QED  BY <1>2, <3>1
  <2>2. CASE t = <<".", "*">>
    BY <1>2, <2>2
  <2>3. CASE t \in Seq(STRING)
    BY <1>2, <2>3, SeqMonotonic
  <2> QED  BY <1>1, <2>1, <2>2, <2>3, <2>4 DEF IsPrecision
<1>7. d.length \in Seq(Alphabet)
  <2>1. "h" \in Alphabet /\ "l" \in Alphabet /\ "j" \in Alphabet /\ "z" \in Alphabet /\ "t" \in Alphabet
    BY DEF Alphabet, Letters
  <2> HIDE DEF Alphabet
  <2> DEFINE l == d.length
  <2>2. l = <<>> \/ l = <<"h", "h">> \/ l = <<"h">> \/ l = <<"l">> \/ l = <<"l", "l">>
          \/ l = <<"j">> \/ l = <<"z">> \/ l = <<"t">>
    BY <1>1, Zenon DEF Lengths
  <2>3. CASE l = <<"h", "h">>
    BY <2>1, <2>3
  <2>4. CASE l = <<"l", "l">>
    BY <2>1, <2>4
  <2>5. CASE l = <<>>
    BY <2>5
  <2>6. ASSUME NEW c \in Alphabet, l = <<c>> PROVE l \in Seq(Alphabet)
    BY <2>6
  <2> QED  BY <2>1, <2>2, <2>3, <2>4, <2>5, <2>6
<1>8. d.specifier \in Alphabet
  BY <1>1, <1>2 DEF Specifiers
<1> QED  BY <1>3, <1>5, <1>6, <1>7, <1>8 DEF Parts

ToWidth(d)     == 1 + Len(d.flags)
ToPrecision(d) == ToWidth(d) + Len(d.width.text)
ToLength(d)    == ToPrecision(d) + Len(d.precision.text)
ToSpecifier(d) == ToLength(d) + Len(d.length)

\* text's characters are those behind k of whole
Behind(k, text, whole) == \A j \in 1 .. Len(text) : whole[k + j] = text[j]

Layout(d) ==
  /\ Len(d.flags) \in Nat /\ Len(d.width.text) \in Nat /\ Len(d.precision.text) \in Nat
  /\ Len(d.length) \in Nat
  /\ Spelled(d) \in Seq(Alphabet) /\ Len(Spelled(d)) = ToSpecifier(d) + 1
  /\ Spelled(d)[1] = "%"
  /\ Behind(1, d.flags, Spelled(d)) /\ Behind(ToWidth(d), d.width.text, Spelled(d))
  /\ Behind(ToPrecision(d), d.precision.text, Spelled(d)) /\ Behind(ToLength(d), d.length, Spelled(d))
  /\ Spelled(d)[ToSpecifier(d) + 1] = d.specifier

\* What lies behind k of a text still does when something is appended.
LEMMA StillBehind ==
  ASSUME NEW s \in Seq(Alphabet), NEW t \in Seq(Alphabet), NEW k \in Nat, NEW part \in Seq(Alphabet),
         Behind(k, part, s), k + Len(part) <= Len(s)
  PROVE  Behind(k, part, s \o t)
<1>1. Joins(Alphabet, s, t)
  BY Joined
<1>2. \A i \in 1 .. Len(s) : (s \o t)[i] = s[i]
  BY <1>1 DEF Joins
<1>3. ASSUME NEW j \in 1 .. Len(part) PROVE (s \o t)[k + j] = part[j]
  <2>1. Len(s) \in Nat /\ Len(part) \in Nat
    OBVIOUS
  <2>2. k + j \in 1 .. Len(s)
    BY <2>1
  <2> QED  BY <1>2, <2>2 DEF Behind
<1> QED  BY <1>3 DEF Behind

\* One part more
LEMMA NextBehind ==
  ASSUME NEW s \in Seq(Alphabet), NEW t \in Seq(Alphabet)
  PROVE  Behind(Len(s), t, s \o t) /\ s \o t \in Seq(Alphabet) /\ Len(s \o t) = Len(s) + Len(t)
<1>1. Joins(Alphabet, s, t)
  BY Joined
<1> QED  BY <1>1 DEF Joins, Behind

LEMMA LayoutOf == ASSUME NEW d, Parts(d), d.specifier # "text" PROVE Layout(d)
<1> DEFINE s1 == <<"%">>
           s2 == s1 \o d.flags
           s3 == s2 \o d.width.text
           s4 == s3 \o d.precision.text
           s5 == s4 \o d.length
           s6 == s5 \o <<d.specifier>>
           f == d.flags  w == d.width.text  p == d.precision.text  l == d.length
           last == <<d.specifier>>
<1>1. Spelled(d) = s6
  BY DEF Spelled
<1>2. f \in Seq(Alphabet) /\ w \in Seq(Alphabet) /\ p \in Seq(Alphabet) /\ l \in Seq(Alphabet)
  BY DEF Parts
<1>3. s1 \in Seq(Alphabet) /\ Len(s1) = 1 /\ s1[1] = "%"
  <2>1. "%" \in Alphabet
    BY DEF Alphabet, Signs
  <2> QED  BY <2>1
<1>4. last \in Seq(Alphabet) /\ Len(last) = 1 /\ last[1] = d.specifier
  BY DEF Parts
<1>5. Len(f) \in Nat /\ Len(w) \in Nat /\ Len(p) \in Nat /\ Len(l) \in Nat
  BY <1>2
<1> HIDE DEF s1, f, w, p, l, last
<1>6. Behind(0, s1, s1) /\ Len(s1) \in Nat
  BY <1>3 DEF Behind
<1>7. s2 \in Seq(Alphabet) /\ Len(s2) = 1 + Len(f) /\ Behind(0, s1, s2) /\ Behind(1, f, s2)
  <2>1. Behind(Len(s1), f, s1 \o f) /\ s1 \o f \in Seq(Alphabet) /\ Len(s1 \o f) = Len(s1) + Len(f)
    BY <1>2, <1>3, NextBehind
  <2>2. Behind(0, s1, s1 \o f)
    BY <1>2, <1>3, <1>6, StillBehind
  <2> QED  BY <1>3, <2>1, <2>2 DEF f
<1> HIDE DEF s2
<1>8. /\ s3 \in Seq(Alphabet) /\ Len(s3) = 1 + Len(f) + Len(w)
      /\ Behind(0, s1, s3) /\ Behind(1, f, s3) /\ Behind(1 + Len(f), w, s3)
  <2>1. Behind(Len(s2), w, s2 \o w) /\ s2 \o w \in Seq(Alphabet) /\ Len(s2 \o w) = Len(s2) + Len(w)
    BY <1>2, <1>7, NextBehind
  <2>2. Behind(0, s1, s2 \o w) /\ Behind(1, f, s2 \o w)
    BY <1>2, <1>3, <1>5, <1>7, StillBehind
  <2> QED  BY <1>7, <2>1, <2>2 DEF w
<1> HIDE DEF s3
<1>9. /\ s4 \in Seq(Alphabet) /\ Len(s4) = 1 + Len(f) + Len(w) + Len(p)
      /\ Behind(0, s1, s4) /\ Behind(1, f, s4) /\ Behind(1 + Len(f), w, s4)
      /\ Behind(1 + Len(f) + Len(w), p, s4)
  <2>1. Behind(Len(s3), p, s3 \o p) /\ s3 \o p \in Seq(Alphabet) /\ Len(s3 \o p) = Len(s3) + Len(p)
    BY <1>2, <1>8, NextBehind
  <2>2. Behind(0, s1, s3 \o p) /\ Behind(1, f, s3 \o p) /\ Behind(1 + Len(f), w, s3 \o p)
    BY <1>2, <1>3, <1>5, <1>8, StillBehind
  <2> QED  BY <1>8, <2>1, <2>2 DEF p
<1> HIDE DEF s4
<1>10. /\ s5 \in Seq(Alphabet) /\ Len(s5) = 1 + Len(f) + Len(w) + Len(p) + Len(l)
       /\ Behind(0, s1, s5) /\ Behind(1, f, s5) /\ Behind(1 + Len(f), w, s5)
       /\ Behind(1 + Len(f) + Len(w), p, s5) /\ Behind(1 + Len(f) + Len(w) + Len(p), l, s5)
  <2>1. Behind(Len(s4), l, s4 \o l) /\ s4 \o l \in Seq(Alphabet) /\ Len(s4 \o l) = Len(s4) + Len(l)
    BY <1>2, <1>9, NextBehind
  <2>2. Behind(1, f, s4 \o l)
    BY <1>2, <1>5, <1>9, StillBehind
  <2>5. Behind(0, s1, s4 \o l)
    <3>1. 0 \in Nat /\ 0 + Len(s1) <= Len(s4) /\ l \in Seq(Alphabet) /\ s4 \in Seq(Alphabet) /\ Behind(0, s1, s4)
      BY <1>2, <1>3, <1>5, <1>9
    <3> QED  BY <1>3, <3>1, StillBehind
  <2>3. Behind(1 + Len(f), w, s4 \o l)
    BY <1>2, <1>5, <1>9, StillBehind
  <2>4. Behind(1 + Len(f) + Len(w), p, s4 \o l)
    BY <1>2, <1>5, <1>9, StillBehind
  <2> QED  BY <1>9, <2>1, <2>2, <2>3, <2>4, <2>5 DEF l
<1> HIDE DEF s5
<1>11. /\ s6 \in Seq(Alphabet) /\ Len(s6) = 1 + Len(f) + Len(w) + Len(p) + Len(l) + 1
       /\ Behind(0, s1, s6) /\ Behind(1, f, s6) /\ Behind(1 + Len(f), w, s6)
       /\ Behind(1 + Len(f) + Len(w), p, s6) /\ Behind(1 + Len(f) + Len(w) + Len(p), l, s6)
       /\ Behind(1 + Len(f) + Len(w) + Len(p) + Len(l), last, s6)
  <2>1. Behind(Len(s5), last, s5 \o last) /\ s5 \o last \in Seq(Alphabet) /\ Len(s5 \o last) = Len(s5) + Len(last)
    BY <1>4, <1>10, NextBehind
  <2>2. Behind(1, f, s5 \o last)
    BY <1>2, <1>4, <1>5, <1>10, StillBehind
  <2>6. Behind(0, s1, s5 \o last)
    <3>1. 0 \in Nat /\ 0 + Len(s1) <= Len(s5) /\ s5 \in Seq(Alphabet) /\ Behind(0, s1, s5)
      BY <1>3, <1>5, <1>10
    <3> QED  BY <1>3, <1>4, <3>1, StillBehind
  <2>3. Behind(1 + Len(f), w, s5 \o last)
    BY <1>2, <1>4, <1>5, <1>10, StillBehind
  <2>4. Behind(1 + Len(f) + Len(w), p, s5 \o last)
    BY <1>2, <1>4, <1>5, <1>10, StillBehind
  <2>5. Behind(1 + Len(f) + Len(w) + Len(p), l, s5 \o last)
    BY <1>2, <1>4, <1>5, <1>10, StillBehind
  <2> QED  BY <1>4, <1>10, <2>1, <2>2, <2>3, <2>4, <2>5, <2>6 DEF last
<1> HIDE DEF s6
<1>12. s6[1] = "%"
  <2>1. 1 \in 1 .. Len(s1) /\ 0 + 1 = 1
    BY <1>3
  <2> QED  BY <1>3, <1>11, <2>1 DEF Behind
<1>13. s6[1 + Len(f) + Len(w) + Len(p) + Len(l) + 1] = d.specifier
  <2>1. 1 \in 1 .. Len(last)
    BY <1>4
  <2> QED  BY <1>4, <1>11, <2>1 DEF Behind
<1>14. /\ ToWidth(d) = 1 + Len(f) /\ ToPrecision(d) = 1 + Len(f) + Len(w)
       /\ ToLength(d) = 1 + Len(f) + Len(w) + Len(p) /\ ToSpecifier(d) = 1 + Len(f) + Len(w) + Len(p) + Len(l)
  BY DEF ToWidth, ToPrecision, ToLength, ToSpecifier, f, w, p, l
<1> QED
  BY <1>1, <1>5, <1>11, <1>12, <1>13, <1>14 DEF Layout, f, w, p, l

\* What a directive ends with, if it has no more width or precision
Ending == LengthChars \union Specifiers

\* The character that ends each field
Borders(d) ==
  /\ Spelled(d)[ToLength(d) + 1] \in Ending
  /\ d.length = <<>> => Spelled(d)[ToLength(d) + 1] \in Specifiers
  /\ d.precision.text = <<>> => Spelled(d)[ToPrecision(d) + 1] \in Ending
  /\ d.precision.text # <<>> => Spelled(d)[ToPrecision(d) + 1] = "."
  /\ d.width.text = <<>> => Spelled(d)[ToWidth(d) + 1] \in Ending \union {"."}
  /\ d.width.text # <<>> => Spelled(d)[ToWidth(d) + 1] \in {"*"} \union (Figures \ {"0"})

LEMMA BordersOf ==
  ASSUME NEW d, WellFormed(d), d.specifier # "text" PROVE Borders(d)
<1> DEFINE s == Spelled(d)  f == d.flags  w == d.width.text  p == d.precision.text  l == d.length
<1>1. Parts(d) /\ Layout(d)
  BY PartsAreTexts, LayoutOf
<1>2. /\ l \in Lengths /\ IsWidth(d.width) /\ IsPrecision(d.precision) /\ d.specifier \in Specifiers
  BY DEF WellFormed, Specifiers
<1>3. /\ ToSpecifier(d) = ToLength(d) + Len(l) /\ ToLength(d) = ToPrecision(d) + Len(p)
      /\ ToPrecision(d) = ToWidth(d) + Len(w) /\ ToWidth(d) = 1 + Len(f)
      /\ Len(f) \in Nat /\ Len(w) \in Nat /\ Len(p) \in Nat /\ Len(l) \in Nat
  BY <1>1 DEF Layout, ToWidth, ToPrecision, ToLength, ToSpecifier
<1>4. \A t \in Seq(Alphabet) : IF t = <<>> THEN Len(t) = 0 ELSE 1 \in 1 .. Len(t)
  BY EmptySeq
<1>5. l # <<>> => 1 \in 1 .. Len(l) /\ l[1] \in LengthChars
  <2>1. l = <<>> \/ l = <<"h", "h">> \/ l = <<"h">> \/ l = <<"l">> \/ l = <<"l", "l">>
          \/ l = <<"j">> \/ l = <<"z">> \/ l = <<"t">>
    BY <1>2, Zenon DEF Lengths
  <2>2. ASSUME NEW c \in LengthChars, l = <<c>> \/ l = <<c, c>> PROVE 1 \in 1 .. Len(l) /\ l[1] \in LengthChars
    <3> HIDE DEF l
    <3>1. CASE l = <<c>>
      BY <2>2, <3>1
    <3>2. CASE l = <<c, c>>
      BY <2>2, <3>2
    <3> QED  BY <2>2, <3>1, <3>2
  <2>3. "h" \in LengthChars /\ "l" \in LengthChars /\ "j" \in LengthChars /\ "z" \in LengthChars /\ "t" \in LengthChars
    BY DEF LengthChars
  <2> QED  BY <2>1, <2>2, <2>3, Zenon
<1>6. s[ToLength(d) + 1] \in Ending /\ (l = <<>> => s[ToLength(d) + 1] \in Specifiers)
  <2>1. CASE l = <<>>
    <3>1. Len(l) = 0 /\ ToSpecifier(d) + 1 = ToLength(d) + 1
      BY <1>3, <2>1
    <3>2. s[ToLength(d) + 1] = d.specifier
      BY <1>1, <3>1 DEF Layout
    <3> QED  BY <1>2, <3>2 DEF Ending
  <2>2. CASE l # <<>>
    <3>1. s[ToLength(d) + 1] = l[1]
      BY <1>1, <1>5, <2>2 DEF Layout, Behind
    <3> QED  BY <1>5, <2>2, <3>1 DEF Ending
  <2> QED  BY <2>1, <2>2
<1>7. p # <<>> => 1 \in 1 .. Len(p) /\ p[1] = "."
  <2>1. CASE d.precision = Field(<<>>, -1)
    BY <2>1 DEF Field
  <2>2. CASE d.precision = Field(<<".">>, 0)
    <3>1. p = <<".">>
      BY <2>2 DEF Field
    <3> QED  BY <3>1
  <2>3. CASE p = <<".", "*">>
    BY <2>3
  <2>4. CASE p \in Seq(STRING) \ {<<>>} /\ p[1] = "."
    BY <2>4, EmptySeq
  <2> QED  BY <1>2, <2>1, <2>2, <2>3, <2>4 DEF IsPrecision
<1>8. /\ p = <<>> => s[ToPrecision(d) + 1] \in Ending
      /\ p # <<>> => s[ToPrecision(d) + 1] = "."
  <2>1. CASE p = <<>>
    <3>1. ToPrecision(d) + 1 = ToLength(d) + 1
      BY <1>3, <2>1
    <3> QED  BY <1>6, <2>1, <3>1
  <2>2. CASE p # <<>>
    <3>1. s[ToPrecision(d) + 1] = p[1]
      BY <1>1, <1>7, <2>2 DEF Layout, Behind
    <3> QED  BY <1>7, <2>2, <3>1
  <2> QED  BY <2>1, <2>2
<1>9. w # <<>> => 1 \in 1 .. Len(w) /\ w[1] \in {"*"} \union (Figures \ {"0"})
  <2>1. CASE d.width = Field(<<>>, 0)
    BY <2>1 DEF Field
  <2>2. CASE w = <<"*">>
    BY <2>2
  <2>3. CASE IsDecimal(w, d.width.n) /\ w[1] # "0"
    <3>1. w \in Seq(Figures) /\ w # <<>>
      BY <2>3, Strings DEF IsDecimal
    <3>2. 1 \in 1 .. Len(w)
      BY <3>1, EmptySeq
    <3>3. w[1] \in Figures
      BY <3>1, <3>2, ElementOfSeq
    <3> QED  BY <2>3, <3>2, <3>3
  <2> QED  BY <1>2, <2>1, <2>2, <2>3 DEF IsWidth
<1>10. /\ w = <<>> => s[ToWidth(d) + 1] \in Ending \union {"."}
       /\ w # <<>> => s[ToWidth(d) + 1] \in {"*"} \union (Figures \ {"0"})
  <2>1. CASE w = <<>>
    <3>1. ToPrecision(d) + 1 = ToWidth(d) + 1
      BY <1>3, <2>1
    <3> QED  BY <1>8, <2>1, <3>1
  <2>2. CASE w # <<>>
    <3>1. s[ToWidth(d) + 1] = w[1]
      BY <1>1, <1>9, <2>2 DEF Layout, Behind
    <3> QED  BY <1>9, <2>2, <3>1
  <2> QED  BY <2>1, <2>2
<1> QED  BY <1>6, <1>8, <1>10 DEF Borders

\* No character means two things
LEMMA Apart ==
  /\ \A c \in Ending : c \notin Figures /\ c \notin DOMAIN FlagOf /\ c # "." /\ c # "*" /\ c # NUL
  /\ \A c \in Specifiers : c \notin LengthChars
  /\ \A c \in Figures \ {"0"} : c \notin DOMAIN FlagOf /\ c # "*" /\ c # "."
  /\ "*" \notin DOMAIN FlagOf /\ "." \notin DOMAIN FlagOf /\ "." \notin Figures /\ "*" \notin Figures
BY Strings DEF Ending, LengthChars, Specifiers, Figures, NUL

-----------------------------------------------------------------------------
(* Decimal numbers in a format *)

\* The recursion Decimal is defined by
IsNumber(f, digits) ==
  f = [k \in 0 .. Len(digits) |-> IF k = 0 THEN 0 ELSE 10 * f[k - 1] + DigitOf[digits[k]]]

LEMMA DecimalByRecursion ==
  ASSUME NEW digits \in Seq(DigitChars)
  PROVE  \E value \in [0 .. Len(digits) -> Nat] :
           IsNumber(value, digits) /\ Decimal(digits) = value[Len(digits)]
<1> DEFINE n == Len(digits)
           digit == [k \in 1 .. n |-> DigitOf[digits[k]]]
           step == [k \in 1 .. n |-> [v \in Nat |-> 10 * v + digit[k]]]
           value == CHOOSE f : IsNumber(f, digits)
<1>1. n \in Nat /\ \A k \in 1 .. n : digit[k] \in 0 .. 9
  BY DigitType
<1>2. step \in Steps(n, Nat)
  <2> HIDE DEF digit, n
  <2> QED  BY <1>1 DEF Steps
<1>3. PICK g : IsFold(g, n, Nat, 0, step)
  <2> HIDE DEF step, n
  <2> QED  BY <1>1, <1>2, Recursion
<1>4. g \in [0 .. n -> Nat] /\ g[0] = 0 /\ \A k \in 1 .. n : g[k] = step[k][g[k - 1]]
  BY <1>3 DEF IsFold
<1>5. \A k \in 1 .. n : g[k] = 10 * g[k - 1] + digit[k]
  <2> HIDE DEF digit, n
  <2> TAKE k \in 1 .. n
  <2>1. k - 1 \in 0 .. n
    BY <1>1
  <2>2. g[k - 1] \in Nat
    BY <1>4, <2>1
  <2> QED  BY <1>4, <2>2
<1>6. IsNumber(g, digits)
  <2> HIDE DEF step
  <2> QED  BY <1>4, <1>5 DEF IsNumber
<1>7. IsNumber(value, digits)
  BY <1>6
<1>8. Decimal(digits) = value[n]
  BY Zenon DEF Decimal, IsNumber
<1> HIDE DEF value
<1>9. value[0] = 0 /\ \A k \in 1 .. n : value[k] = 10 * value[k - 1] + digit[k]
  BY <1>7 DEF IsNumber
<1> DEFINE T == {k \in 0 .. n : value[k] \in Nat}
<1>10. 0 \in T
  BY <1>1, <1>9
<1>11. ASSUME NEW k \in 0 .. n, k # n, k \in T PROVE k + 1 \in T
  <2>1. k + 1 \in 1 .. n /\ (k + 1) - 1 = k /\ k + 1 \in 0 .. n
    BY <1>1, <1>11
  <2> HIDE DEF digit
  <2>2. value[k + 1] = 10 * value[k] + digit[k + 1] /\ digit[k + 1] \in 0 .. 9
    BY <1>1, <1>9, <2>1
  <2>3. value[k] \in Nat
    BY <1>11
  <2> DEFINE a == value[k]  b == value[k + 1]  c == digit[k + 1]
  <2>4. a \in Nat /\ b = 10 * a + c /\ c \in 0 .. 9
    BY <2>2, <2>3
  <2> HIDE DEF a, b, c
  <2>5. b \in Nat
    BY <2>4
  <2> QED  BY <2>1, <2>5 DEF b
<1>12. \A k \in 0 .. n : k \in T
  <2> HIDE DEF T, n
  <2> QED  BY <1>1, <1>10, <1>11, Induction
<1>13. value \in [0 .. n -> Nat]
  <2>1. \A k \in 0 .. n : value[k] \in Nat
    BY <1>12
  <2> QED  BY <1>7, <2>1 DEF IsNumber
<1> QED  BY <1>7, <1>8, <1>13

\* A number that an int holds is what _atoi makes of its digits.
LEMMA AtoiDecimal ==
  ASSUME NEW digits \in Seq(DigitChars), Decimal(digits) < Values["int"]
  PROVE  _atoi(digits) = Decimal(digits) /\ Decimal(digits) \in Nat
<1> DEFINE n == Len(digits)  digit == [k \in 1 .. n |-> DigitOf[digits[k]]]
<1>1. n \in Nat /\ \A k \in 1 .. n : digits[k] \in DigitChars /\ digit[k] \in 0 .. 9
  BY DigitType
<1>2. PICK dec \in [0 .. n -> Nat] : IsNumber(dec, digits) /\ Decimal(digits) = dec[n]
  BY DecimalByRecursion
<1>3. PICK value \in [0 .. n -> Nat] : IsValue(value, digits) /\ _atoi(digits) = value[n]
  BY <1>1, AtoiByRecursion
<1>10. dec[0] = 0 /\ \A k \in 1 .. n : dec[k] = 10 * dec[k - 1] + digit[k]
  <2>1. 0 \in 0 .. n
    BY <1>1
  <2>2. dec[0] = 0
    BY <1>2, <2>1 DEF IsNumber
  <2>3. ASSUME NEW k \in 1 .. n PROVE dec[k] = 10 * dec[k - 1] + digit[k]
    <3>1. k \in 0 .. n /\ k # 0
      BY <1>1
    <3>2. dec[k] = 10 * dec[k - 1] + DigitOf[digits[k]]
      BY <1>2, <3>1 DEF IsNumber
    <3> QED  BY <3>2
  <2> QED  BY <2>2, <2>3
<1>11. value[0] = 0 /\ \A k \in 1 .. n : value[k] = (10 * value[k - 1] + digit[k]) % Values["int"]
  BY <1>1, <1>3 DEF IsValue
<1> HIDE DEF digit, n
<1>4. /\ dec[0] = 0 /\ \A k \in 1 .. n : dec[k] = 10 * dec[k - 1] + digit[k]
      /\ value[0] = 0 /\ \A k \in 1 .. n : value[k] = (10 * value[k - 1] + digit[k]) % Values["int"]
  BY <1>10, <1>11
<1>5. \A k \in 1 .. n : dec[k - 1] <= dec[k] /\ dec[k] \in Nat /\ dec[k - 1] \in Nat
  <2> TAKE k \in 1 .. n
  <2>1. k - 1 \in 0 .. n /\ k \in 0 .. n
    BY <1>1
  <2>2. dec[k - 1] \in Nat /\ dec[k] \in Nat
    BY <2>1
  <2>3. dec[k] = 10 * dec[k - 1] + digit[k] /\ digit[k] \in 0 .. 9
    BY <1>1, <1>4
  <2> DEFINE a == dec[k - 1]  b == dec[k]  c == digit[k]
  <2>4. a \in Nat /\ b \in Nat /\ b = 10 * a + c /\ c \in 0 .. 9
    BY <2>2, <2>3
  <2> HIDE DEF a, b, c
  <2>5. a <= b
    BY <2>4
  <2> QED  BY <2>2, <2>5 DEF a, b
<1>6. \A k \in 0 .. n : dec[k] <= dec[n]
  <2> DEFINE T == {k \in 0 .. n : dec[n - k] <= dec[n]}
  <2>1. 0 \in T
    <3>1. n - 0 = n /\ n \in 0 .. n /\ 0 \in 0 .. n
      BY <1>1
    <3> QED  BY <3>1
  <2>2. ASSUME NEW k \in 0 .. n, k # n, k \in T PROVE k + 1 \in T
    <3>1. n - k \in 1 .. n /\ (n - k) - 1 = n - (k + 1) /\ k + 1 \in 0 .. n /\ n \in 0 .. n
      BY <1>1, <2>2
    <3>2. dec[(n - k) - 1] <= dec[n - k] /\ dec[n - k] \in Nat /\ dec[(n - k) - 1] \in Nat /\ dec[n] \in Nat
      BY <1>5, <3>1
    <3> QED  BY <2>2, <3>1, <3>2
  <2>3. \A k \in 0 .. n : k \in T
    <3> HIDE DEF T
    <3> QED  BY <1>1, <2>1, <2>2, Induction
  <2> TAKE k \in 0 .. n
  <2>4. n - k \in 0 .. n /\ n - (n - k) = k
    BY <1>1
  <2> QED  BY <2>3, <2>4
<1>7. \A k \in 0 .. n : dec[k] \in 0 .. Values["int"] - 1
  <2> TAKE k \in 0 .. n
  <2>1. dec[k] \in Nat /\ dec[n] \in Nat /\ Values["int"] \in Nat
    BY <1>1, ValuesAssumption
  <2>2. dec[k] <= dec[n] /\ dec[n] < Values["int"]
    BY <1>2, <1>6
  <2> QED  BY <2>1, <2>2
<1>8. \A k \in 0 .. n : value[k] = dec[k]
  <2> DEFINE T == {k \in 0 .. n : value[k] = dec[k]}
  <2>1. 0 \in T
    BY <1>1, <1>4
  <2>2. ASSUME NEW k \in 0 .. n, k # n, k \in T PROVE k + 1 \in T
    <3>1. k + 1 \in 1 .. n /\ (k + 1) - 1 = k /\ k + 1 \in 0 .. n
      BY <1>1, <2>2
    <3>2. dec[k + 1] = 10 * dec[k] + digit[k + 1] /\ value[k + 1] = (10 * dec[k] + digit[k + 1]) % Values["int"]
      BY <1>4, <2>2, <3>1
    <3>3. dec[k + 1] \in 0 .. Values["int"] - 1 /\ Values["int"] \in Nat \ {0} /\ dec[k + 1] \in Int
      BY <1>7, <3>1, ValuesAssumption
    <3>4. dec[k + 1] % Values["int"] = dec[k + 1]
      BY <3>3, SmallMod
    <3> QED  BY <3>1, <3>2, <3>4
  <2>3. \A k \in 0 .. n : k \in T
    <3> HIDE DEF T
    <3> QED  BY <1>1, <2>1, <2>2, Induction
  <2> QED  BY <2>3
<1>9. n \in 0 .. n
  BY <1>1
<1> QED  BY <1>2, <1>3, <1>8, <1>9

\* The digits from a place on are those that stand there, if no digit follows them.
LEMMA DigitsAre ==
  ASSUME call \in Calls, NEW p \in Nat, NEW digits \in Seq(Figures), Behind(p, digits, call.format),
         p + Len(digits) + 1 <= Len(call.format), call.format[p + Len(digits) + 1] \notin Figures
  PROVE  _is_digits(p + 1) = digits
<1> DEFINE n == Len(call.format)  m == Len(digits)  first == p + 1
           ends == {q \in first .. n + 1 : Char(q) \notin DigitChars}
           end == CHOOSE q \in ends : \A r \in ends : q <= r
           run == SubSeq(call.format, first, end - 1)
<1>1. /\ n \in Nat /\ m \in Nat /\ p + m + 1 <= n /\ first \in Nat /\ first + m \in Nat
      /\ \A k \in 1 .. m : digits[k] \in Figures
      /\ \A k \in 1 .. n : call.format[k] \in STRING \ {NUL}
  BY CallType
<1>2. \A k \in 1 .. n : Char(k) = call.format[k]
  BY DEF Char
<1>3. \A k \in 1 .. m : Char(p + k) = digits[k]
  <2> TAKE k \in 1 .. m
  <2>1. p + k \in 1 .. n
    BY <1>1
  <2> QED  BY <1>2, <2>1 DEF Behind
<1>4. first + m \in ends
  <2>1. first + m \in 1 .. n /\ first + m = p + m + 1
    BY <1>1
  <2>2. Char(first + m) \notin DigitChars
    <3>1. Char(first + m) = call.format[p + m + 1]
      BY <1>2, <2>1
    <3> QED  BY <3>1, Strings
  <2> QED  BY <1>1, <2>1, <2>2
<1>5. \A q \in ends : first + m <= q
  <2> SUFFICES ASSUME NEW q \in ends, ~(first + m <= q) PROVE FALSE
    OBVIOUS
  <2>1. q - p \in 1 .. m /\ p + (q - p) = q
    BY <1>1
  <2>2. Char(q) \in Figures
    BY <1>1, <1>3, <2>1
  <2> QED  BY <2>2, Strings
<1>6. end = first + m
  <2>1. \A q \in ends : q \in Nat
    BY <1>1
  <2> HIDE DEF ends
  <2>2. end \in ends /\ \A r \in ends : end <= r
    BY <1>4, <1>5
  <2>3. end <= first + m /\ first + m <= end /\ end \in Nat
    BY <1>4, <1>5, <2>1, <2>2
  <2> HIDE DEF end
  <2> QED  BY <1>1, <2>3
<1>7. _is_digits(p + 1) = run
  BY DEF _is_digits
<1> HIDE DEF end
<1>8. first \in Int /\ end - 1 \in Int /\ (end - 1) - first + 1 = m
  BY <1>1, <1>6
<1>9. \A k \in first .. end - 1 : call.format[k] \in STRING
  <2> TAKE k \in first .. end - 1
  <2>1. k \in 1 .. n
    BY <1>1, <1>6
  <2> QED  BY <1>1, <2>1
<1>10. run \in Seq(STRING) /\ Len(run) = m /\ \A k \in 1 .. m : run[k] = call.format[p + k]
  <2> DEFINE last == end - 1
  <2>1. first \in Int /\ last \in Int /\ last - first + 1 = m /\ \A k \in first .. last : call.format[k] \in STRING
    BY <1>8, <1>9
  <2> HIDE DEF last
  <2>2. /\ SubSeq(call.format, first, last) \in Seq(STRING)
        /\ Len(SubSeq(call.format, first, last)) = (IF first <= last THEN last - first + 1 ELSE 0)
        /\ \A k \in 1 .. last - first + 1 : SubSeq(call.format, first, last)[k] = call.format[first + k - 1]
    BY <2>1, SubSeqProperties
  <2>3. \A k \in 1 .. m : first + k - 1 = p + k
    BY <1>1
  <2>4. Len(run) = m
    BY <1>1, <2>1, <2>2 DEF last
  <2> QED  BY <2>1, <2>2, <2>3, <2>4 DEF last
<1>11. \A k \in 1 .. m : run[k] = digits[k]
  BY <1>10 DEF Behind
<1>12. run \in Seq(Alphabet) /\ digits \in Seq(Alphabet)
  <2>1. STRING \subseteq Alphabet /\ Figures \subseteq Alphabet
    BY DEF Alphabet
  <2> HIDE DEF run
  <2> QED  BY <1>10, <2>1, SeqMonotonic
<1> HIDE DEF run
<1>13. run = digits
  BY <1>10, <1>11, <1>12, SeqEqual
<1> QED  BY <1>7, <1>13

-----------------------------------------------------------------------------
(* The directives of a call, one behind the other *)

ArgumentType1 == [n : Int, text : Seq(STRING)]

Spelling == [d \in Directives |-> Spelled(d)]
Passing  == [d \in Directives |-> Arguments(d)]
Meaning  == [d \in Directives |-> Means(d)]

\* All that is printed for a directive
Printed == UNION {{Means(d)[k] : k \in DOMAIN Means(d)} : d \in Directives}

ListOf(c) == CHOOSE ds \in Seq(Directives) : c = CallOf(c.sink, c.maxlen, ds)

\* What m makes of the first n directives of a call
Upto(c, m, n) == FlattenSeq(Each(m, SubSeq(ListOf(c), 1, n)))

IsListed(c, ds) ==
  /\ ds \in Seq(Directives)
  /\ c.format = FlattenSeq(Each(Spelling, ds))
  /\ c.args = FlattenSeq(Each(Passing, ds))
  /\ c.means = FlattenSeq(Each(Meaning, ds))

LEMMA Listed == ASSUME NEW c \in Calls PROVE IsListed(c, ListOf(c))
<1> DEFINE ds == ListOf(c)
<1>1. PICK r \in Requests : c = CallOf(r.sink, r.maxlen, r.directives)
  BY RequestsAssumption
<1>2. r.directives \in Seq(Directives) /\ c.sink = r.sink /\ c.maxlen = r.maxlen
  <2>1. r.directives \in Seq(Directives)
    BY RequestsAssumption
  <2>2. c.sink = r.sink /\ c.maxlen = r.maxlen
    BY <1>1 DEF CallOf
  <2> QED  BY <2>1, <2>2
<1>3. ds \in Seq(Directives) /\ c = CallOf(c.sink, c.maxlen, ds)
  <2>1. \E e \in Seq(Directives) : c = CallOf(c.sink, c.maxlen, e)
    BY <1>1, <1>2, Zenon
  <2> QED  BY <2>1, Zenon DEF ListOf
<1> HIDE DEF ds
<1>4. /\ c.format = FlattenSeq([k \in DOMAIN ds |-> Spelled(ds[k])])
      /\ c.args = FlattenSeq([k \in DOMAIN ds |-> Arguments(ds[k])])
      /\ c.means = FlattenSeq([k \in DOMAIN ds |-> Means(ds[k])])
  <2> DEFINE a == FlattenSeq([k \in DOMAIN ds |-> Spelled(ds[k])])
             b == FlattenSeq([k \in DOMAIN ds |-> Arguments(ds[k])])
             e == FlattenSeq([k \in DOMAIN ds |-> Means(ds[k])])
             s == c.sink  m == c.maxlen
  <2>1. c = [sink |-> s, maxlen |-> m, format |-> a, args |-> b, means |-> e]
    BY <1>3, Zenon DEF CallOf
  <2> HIDE DEF a, b, e, s, m
  <2>2. c.format = a /\ c.args = b /\ c.means = e
    BY <2>1
  <2> QED  BY <2>2 DEF a, b, e
<1>5. DOMAIN ds = 1 .. Len(ds) /\ \A k \in 1 .. Len(ds) : ds[k] \in Directives
  BY <1>3
<1>6. [k \in DOMAIN ds |-> Spelled(ds[k])] = Each(Spelling, ds)
  BY <1>5 DEF Each, Spelling
<1>7. [k \in DOMAIN ds |-> Arguments(ds[k])] = Each(Passing, ds)
  BY <1>5 DEF Each, Passing
<1>8. [k \in DOMAIN ds |-> Means(ds[k])] = Each(Meaning, ds)
  BY <1>5 DEF Each, Meaning
<1>9. IsListed(c, ds)
  BY <1>3, <1>4, <1>6, <1>7, <1>8 DEF IsListed
<1> QED  BY <1>9 DEF ds

LEMMA SpellingType == Spelling \in [Directives -> Seq(Alphabet)]
<1> SUFFICES ASSUME NEW d \in Directives PROVE Spelled(d) \in Seq(Alphabet)
  BY DEF Spelling
<1>1. WellFormed(d)
  BY DirectivesAssumption
<1>2. CASE d.specifier = "text"
  <2>1. d.arg.text \in Seq(STRING) /\ STRING \subseteq Alphabet
    BY <1>1 DEF WellFormed, Alphabet
  <2>2. d.arg.text \in Seq(Alphabet)
    BY <2>1, SeqMonotonic
  <2> QED  BY <1>2, <2>2 DEF Spelled
<1>3. CASE d.specifier # "text"
  BY <1>1, <1>3, PartsAreTexts, LayoutOf DEF Layout
<1> QED  BY <1>2, <1>3

\* A star takes an argument, if the number it stands for is one.
LEMMA StarType ==
  ASSUME NEW f, f.n \in Int
  PROVE  StarArgument(f) \in Seq(ArgumentType1)
<1> DEFINE a == [n |-> f.n, text |-> <<>>]
<1>1. a \in ArgumentType1
  <2>1. <<>> \in Seq(STRING)
    BY EmptySeq
  <2> QED  BY <2>1 DEF ArgumentType1
<1> HIDE DEF a
<1>2. <<a>> \in Seq(ArgumentType1)
  BY <1>1
<1>3. <<>> \in Seq(ArgumentType1)
  BY EmptySeq
<1> QED  BY <1>2, <1>3, Zenon DEF StarArgument, a

\* How many arguments a star, and the number itself, take
StarCount(f)  == IF Star(f) THEN 1 ELSE 0
OwnCount(d)   == IF d.specifier = "%" THEN 0 ELSE 1

\* The arguments of a directive that is not text
Takes(d) ==
  /\ Arguments(d) \in Seq(ArgumentType1)
  /\ Len(Arguments(d)) = StarCount(d.width) + StarCount(d.precision) + OwnCount(d)
  /\ Star(d.width) => Arguments(d)[1].n = d.width.n
  /\ Star(d.precision) => Arguments(d)[StarCount(d.width) + 1].n = d.precision.n
  /\ d.specifier # "%" => Arguments(d)[StarCount(d.width) + StarCount(d.precision) + 1] = d.arg

LEMMA StarArguments ==
  ASSUME NEW f, f.n \in Int
  PROVE  /\ StarArgument(f) \in Seq(ArgumentType1) /\ Len(StarArgument(f)) = StarCount(f)
         /\ Star(f) => StarArgument(f)[1].n = f.n
<1> DEFINE a == [n |-> f.n, text |-> <<>>]
<1>1. StarArgument(f) \in Seq(ArgumentType1)
  BY StarType
<1>2. CASE Star(f)
  <2>1. StarArgument(f) = <<a>> /\ a.n = f.n
    BY <1>2 DEF StarArgument
  <2> HIDE DEF a
  <2>2. Len(<<a>>) = 1 /\ <<a>>[1] = a
    OBVIOUS
  <2> QED  BY <1>1, <1>2, <2>1, <2>2 DEF StarCount
<1>3. CASE ~Star(f)
  <2>1. StarArgument(f) = <<>>
    BY <1>3 DEF StarArgument
  <2> QED  BY <1>1, <1>3, <2>1, EmptySeq DEF StarCount
<1> QED  BY <1>2, <1>3

LEMMA TakesOf ==
  ASSUME NEW d, d.width.n \in Int, d.precision.n \in Int, d.arg \in ArgumentType1, d.specifier # "text"
  PROVE  Takes(d)
<1> DEFINE a == StarArgument(d.width)  b == StarArgument(d.precision)
           c == IF d.specifier = "%" THEN <<>> ELSE <<d.arg>>
           A == ArgumentType1  ab == a \o b
<1>1. a \in Seq(A) /\ Len(a) = StarCount(d.width) /\ (Star(d.width) => a[1].n = d.width.n)
  BY StarArguments
<1>2. b \in Seq(A) /\ Len(b) = StarCount(d.precision) /\ (Star(d.precision) => b[1].n = d.precision.n)
  BY StarArguments
<1>3. c \in Seq(A) /\ Len(c) = OwnCount(d) /\ (d.specifier # "%" => c[1] = d.arg)
  <2>1. <<d.arg>> \in Seq(A) /\ Len(<<d.arg>>) = 1 /\ <<d.arg>>[1] = d.arg /\ <<>> \in Seq(A) /\ Len(<<>>) = 0
    <3> HIDE DEF A
    <3>1. d.arg \in A
      BY DEF A
    <3> QED  BY <3>1, EmptySeq
  <2> QED  BY <2>1 DEF OwnCount
<1>4. Arguments(d) = ab \o c
  BY DEF Arguments
<1> HIDE DEF a, b, c, A
<1>5. Joins(A, a, b)
  BY <1>1, <1>2, Joined
<1>6. ab \in Seq(A)
  BY <1>5 DEF Joins
<1>7. Joins(A, ab, c)
  <2> HIDE DEF ab
  <2> QED  BY <1>3, <1>6, Joined
<1>8. /\ Len(a) \in Nat /\ Len(b) \in Nat /\ Len(c) \in Nat
      /\ ab \o c \in Seq(A) /\ Len(ab \o c) = Len(a) + Len(b) + Len(c)
  <2>1. Len(ab) = Len(a) + Len(b)
    BY <1>5 DEF Joins
  <2> HIDE DEF ab
  <2> QED  BY <1>5, <1>7, <2>1 DEF Joins
<1>9. ASSUME Star(d.width) PROVE (ab \o c)[1] = a[1]
  <2>1. Len(a) = 1 /\ Len(ab) = Len(a) + Len(b) /\ Len(b) \in Nat
    BY <1>1, <1>5, <1>9 DEF Joins, StarCount
  <2>2. ab[1] = a[1]
    BY <1>5, <2>1 DEF Joins
  <2> HIDE DEF ab
  <2>3. 1 \in 1 .. Len(ab)
    BY <2>1
  <2>4. (ab \o c)[1] = ab[1]
    BY <1>7, <2>3 DEF Joins
  <2> QED  BY <2>2, <2>4
<1>10. ASSUME Star(d.precision) PROVE (ab \o c)[Len(a) + 1] = b[1]
  <2>1. Len(b) = 1 /\ Len(ab) = Len(a) + Len(b) /\ Len(a) \in Nat
    BY <1>2, <1>5, <1>10 DEF Joins, StarCount
  <2>2. ab[Len(a) + 1] = b[1]
    BY <1>5, <2>1 DEF Joins
  <2> HIDE DEF ab
  <2>3. Len(a) + 1 \in 1 .. Len(ab)
    BY <2>1
  <2>4. (ab \o c)[Len(a) + 1] = ab[Len(a) + 1]
    BY <1>7, <2>3 DEF Joins
  <2> QED  BY <2>2, <2>4
<1>11. ASSUME d.specifier # "%" PROVE (ab \o c)[Len(a) + Len(b) + 1] = c[1]
  <2>1. Len(c) = 1 /\ Len(ab) = Len(a) + Len(b) /\ Len(ab) \in Nat
    <3>1. Len(ab) = Len(a) + Len(b)
      BY <1>5 DEF Joins
    <3> HIDE DEF ab
    <3> QED  BY <1>3, <1>7, <1>11, <3>1 DEF Joins, OwnCount
  <2> HIDE DEF ab
  <2>2. (ab \o c)[Len(ab) + 1] = c[1]
    BY <1>7, <2>1 DEF Joins
  <2> QED  BY <2>1, <2>2
<1> HIDE DEF ab
<1>12. Takes(d)
  <2>1. Arguments(d) \in Seq(ArgumentType1)
    BY <1>4, <1>8 DEF A
  <2>2. Len(Arguments(d)) = StarCount(d.width) + StarCount(d.precision) + OwnCount(d)
    BY <1>1, <1>2, <1>3, <1>4, <1>8
  <2>3. Star(d.width) => Arguments(d)[1].n = d.width.n
    BY <1>1, <1>4, <1>9
  <2>4. Star(d.precision) => Arguments(d)[StarCount(d.width) + 1].n = d.precision.n
    BY <1>1, <1>2, <1>4, <1>10
  <2>5. d.specifier # "%" => Arguments(d)[StarCount(d.width) + StarCount(d.precision) + 1] = d.arg
    BY <1>1, <1>2, <1>3, <1>4, <1>11
  <2> QED  BY <2>1, <2>2, <2>3, <2>4, <2>5 DEF Takes
<1> QED  BY <1>12

\* A field is a number, and it has a star only if it is one.
FieldFacts(d) ==
  /\ d.width.n \in Int /\ d.precision.n \in Int
  /\ Star(d.width) <=> d.width.text = <<"*">>
  /\ Star(d.precision) <=> d.precision.text = <<".", "*">>

LEMMA StarIn ==
  ASSUME NEW f, NEW S, f.text \in Seq(S), "*" \notin S PROVE ~Star(f)
<1>1. DOMAIN f.text = 1 .. Len(f.text) /\ \A k \in 1 .. Len(f.text) : f.text[k] \in S
  OBVIOUS
<1> QED  BY <1>1 DEF Star

LEMMA FieldFactsOf ==
  ASSUME NEW d, WellFormed(d), d.specifier # "text" PROVE FieldFacts(d)
<1> DEFINE w == d.width  p == d.precision
<1>1. IsWidth(w) /\ IsPrecision(p)
  BY DEF WellFormed
<1>2. Values["int"] \in Nat \ {0} /\ Ints \subseteq Int
  BY ValuesAssumption DEF Ints
<1>3. "*" \notin DigitChars
  BY Strings DEF Figures
<1>4. w.n \in Int /\ (Star(w) <=> w.text = <<"*">>)
  <2>1. CASE w = Field(<<>>, 0)
    <3>1. w.n = 0 /\ w.text = <<>>
      BY <2>1 DEF Field
    <3>2. w.text \in Seq({})
      BY <3>1, EmptySeq
    <3>3. ~Star(w)
      BY <3>2, StarIn
    <3>4. Len(<<>>) = 0 /\ Len(<<"*">>) = 1
      BY EmptySeq
    <3> QED  BY <3>1, <3>3, <3>4
  <2>2. CASE w.text = <<"*">> /\ w.n \in Ints
    <3>1. 1 \in DOMAIN w.text /\ w.text[1] = "*"
      BY <2>2
    <3> QED  BY <1>2, <2>2, <3>1 DEF Star
  <2>3. CASE IsDecimal(w.text, w.n)
    <3>1. w.text \in Seq(DigitChars) /\ w.n = Decimal(w.text) /\ w.n < Values["int"]
      BY <2>3 DEF IsDecimal
    <3>2. w.n \in Nat
      BY <3>1, AtoiDecimal
    <3>3. ~Star(w)
      BY <1>3, <3>1, StarIn
    <3>4. w.text # <<"*">>
      <4>1. ASSUME w.text = <<"*">> PROVE FALSE
        <5>1. w.text[1] \in DigitChars
          BY <3>1, <4>1
        <5> QED  BY <1>3, <4>1, <5>1
      <4> QED  BY <4>1
    <3> QED  BY <3>2, <3>3, <3>4
  <2> QED  BY <1>1, <2>1, <2>2, <2>3 DEF IsWidth
<1>5. p.n \in Int /\ (Star(p) <=> p.text = <<".", "*">>)
  <2>1. CASE p = Field(<<>>, -1)
    <3>1. p.n = -1 /\ p.text = <<>>
      BY <2>1 DEF Field
    <3>2. p.text \in Seq({})
      BY <3>1, EmptySeq
    <3>3. ~Star(p)
      BY <3>2, StarIn
    <3>4. Len(<<>>) = 0 /\ Len(<<".", "*">>) = 2
      BY EmptySeq
    <3> QED  BY <3>1, <3>3, <3>4
  <2>2. CASE p = Field(<<".">>, 0)
    <3>1. p.n = 0 /\ p.text = <<".">>
      BY <2>2 DEF Field
    <3>2. p.text \in Seq({"."}) /\ "*" \notin {"."}
      BY <3>1
    <3>3. ~Star(p)
      BY <3>2, StarIn
    <3>4. Len(<<".">>) = 1 /\ Len(<<".", "*">>) = 2
      OBVIOUS
    <3> QED  BY <3>1, <3>3, <3>4
  <2>3. CASE p.text = <<".", "*">> /\ p.n \in Ints \cap Nat
    <3>1. 2 \in DOMAIN p.text /\ p.text[2] = "*"
      BY <2>3
    <3> QED  BY <2>3, <3>1 DEF Star
  <2>4. CASE p.text \in Seq(STRING) \ {<<>>} /\ p.text[1] = "." /\ IsDecimal(Tail(p.text), p.n)
    <3> DEFINE t == p.text
    <3>1. Tail(t) \in Seq(DigitChars) /\ p.n = Decimal(Tail(t)) /\ p.n < Values["int"] /\ Tail(t) # <<>>
      BY <2>4 DEF IsDecimal
    <3>2. p.n \in Nat
      BY <3>1, AtoiDecimal
    <3>3. /\ Len(t) \in Nat /\ Len(Tail(t)) = Len(t) - 1 /\ DOMAIN t = 1 .. Len(t)
          /\ \A i \in 1 .. Len(Tail(t)) : Tail(t)[i] = t[i + 1]
      BY <2>4, HeadTailProperties
    <3>4. ASSUME NEW k \in DOMAIN t PROVE t[k] # "*"
      <4>1. CASE k = 1
        BY <2>4, <4>1
      <4>2. CASE k # 1
        <5>1. k - 1 \in 1 .. Len(Tail(t)) /\ (k - 1) + 1 = k
          BY <3>3, <4>2
        <5>2. t[k] = Tail(t)[k - 1] /\ Tail(t)[k - 1] \in DigitChars
          BY <3>1, <3>3, <5>1
        <5> QED  BY <1>3, <5>2
      <4> QED  BY <4>1, <4>2
    <3>5. ~Star(p)
      BY <3>4 DEF Star
    <3>6. t # <<".", "*">>
      <4>1. ASSUME t = <<".", "*">> PROVE FALSE
        <5>1. 2 \in DOMAIN t /\ t[2] = "*"
          BY <4>1
        <5> QED  BY <3>4, <5>1
      <4> QED  BY <4>1
    <3> QED  BY <3>2, <3>5, <3>6
  <2> QED  BY <1>1, <2>1, <2>2, <2>3, <2>4 DEF IsPrecision
<1> QED  BY <1>4, <1>5 DEF FieldFacts

LEMMA PassingType == Passing \in [Directives -> Seq(ArgumentType1)]
<1> SUFFICES ASSUME NEW d \in Directives PROVE Arguments(d) \in Seq(ArgumentType1)
  BY DEF Passing
<1>1. WellFormed(d)
  BY DirectivesAssumption
<1>2. CASE d.specifier = "text"
  BY <1>2, EmptySeq DEF Arguments
<1>3. CASE d.specifier # "text"
  <2>1. d.width.n \in Int /\ d.precision.n \in Int
    BY <1>1, <1>3, FieldFactsOf DEF FieldFacts
  <2>2. d.arg \in ArgumentType1
    BY <1>1 DEF WellFormed, ArgumentType1
  <2> QED  BY <1>3, <2>1, <2>2, TakesOf DEF Takes
<1> QED  BY <1>2, <1>3

\* What the code makes of the fields of a directive
FlagsSpelled(d) == {FlagOf[d.flags[k]] : k \in DOMAIN d.flags}

LengthFlags(length) ==
  CASE length = <<"h", "h">> -> {"SHORT", "CHAR"} [] length = <<"h">> -> {"SHORT"}
    [] length = <<>> -> {} [] OTHER -> {"LONG"}

FlagsOf(d) ==
  FlagsSpelled(d) \union (IF d.width.n < 0 THEN {"LEFT"} ELSE {})
    \union (IF d.precision.text # <<>> THEN {"PRECISION"} ELSE {}) \union LengthFlags(d.length)

PrecisionOf(d) == IF d.precision.n > 0 THEN d.precision.n ELSE 0

\* The code prints the number of a directive as C does
Converts(d) ==
  /\ d.specifier \in DOMAIN Base =>
       IntegerText(d.specifier, d.arg.n, FlagsOf(d), Abs(d.width.n), PrecisionOf(d)) = NumberText(d)
  /\ d.specifier = "p" => PointerText(d.arg.n, FlagsOf(d), PrecisionOf(d)) = PointerMeans(d)

\* What C prints for a directive is a text, if the code prints its number.
LEMMA MeansText ==
  ASSUME NEW d, WellFormed(d), Converts(d) PROVE IsText(Means(d))
<1>1. d.arg.text \in Seq(STRING) /\ IsText(d.arg.text)
  BY DEF WellFormed, IsText
<1>2. CASE d.specifier = "text"
  <2>1. Means(d) = d.arg.text
    BY <1>2 DEF Means, Base
  <2> QED  BY <1>1, <2>1
<1>3. CASE d.specifier # "text"
  <2>1. d.width.n \in Int /\ d.precision.n \in Int
    BY <1>3, FieldFactsOf DEF FieldFacts
  <2>2. Abs(d.width.n) \in Int /\ PrecisionOf(d) \in Int
    BY <2>1 DEF Abs, PrecisionOf
  <2>3. ASSUME NEW t, IsText(t) PROVE IsText(Aligned(d, t))
    <3>1. Abs(d.width.n) - Len(t) \in Int
      BY <2>2, <2>3, TextLength
    <3>2. IsText(Fill(" ", Abs(d.width.n) - Len(t)))
      BY <3>1, FillText
    <3> QED  BY <2>3, <3>2, ConcatText DEF Aligned
  <2>4. CASE d.specifier \in DOMAIN Base
    <3>1. Means(d) = NumberText(d)
      BY <2>4, Strings DEF Means
    <3>2. NumberText(d) = IntegerText(d.specifier, d.arg.n, FlagsOf(d), Abs(d.width.n), PrecisionOf(d))
      BY <2>4 DEF Converts
    <3>3. IsText(IntegerText(d.specifier, d.arg.n, FlagsOf(d), Abs(d.width.n), PrecisionOf(d)))
      BY <2>2, NtoaText, Zenon DEF IntegerText
    <3> QED  BY <3>1, <3>2, <3>3
  <2>5. CASE d.specifier = "c"
    <3>1. Means(d) = Aligned(d, d.arg.text)
      BY <2>5 DEF Means, Base
    <3> QED  BY <1>1, <2>3, <3>1
  <2>6. CASE d.specifier = "s"
    <3> DEFINE m == Min2(Len(d.arg.text), d.precision.n)
               t == IF d.precision.n < 0 THEN d.arg.text ELSE SubSeq(d.arg.text, 1, m)
    <3>1. Means(d) = Aligned(d, t)
      BY <2>6 DEF Means, Base
    <3>2. IsText(t)
      <4>1. CASE d.precision.n < 0
        BY <1>1, <4>1
      <4>2. CASE ~(d.precision.n < 0)
        <5>1. m \in Nat /\ m <= Len(d.arg.text)
          BY <1>1, <2>1, <4>2, TextLength DEF Min2
        <5> HIDE DEF m
        <5>2. IsText(SubSeq(d.arg.text, 1, m))
          BY <1>1, <5>1, FrontText
        <5> QED  BY <4>2, <5>2
      <4> QED  BY <4>1, <4>2
    <3> HIDE DEF t
    <3> QED  BY <2>3, <3>1, <3>2
  <2>7. CASE d.specifier = "p"
    <3>1. Means(d) = PointerMeans(d)
      BY <2>7 DEF Means, Base
    <3>2. PointerMeans(d) = PointerText(d.arg.n, FlagsOf(d), PrecisionOf(d))
      BY <2>7 DEF Converts
    <3>3. Nibbles \in Int
      BY ValuesAssumption
    <3>4. IsText(PointerText(d.arg.n, FlagsOf(d), PrecisionOf(d)))
      BY <2>2, <3>3, NtoaText, Zenon DEF PointerText
    <3> QED  BY <3>1, <3>2, <3>4
  <2>8. CASE d.specifier = "%"
    <3>1. Means(d) = <<"%">>
      BY <2>8 DEF Means, Base
    <3> QED  BY <3>1, ShortTexts
  <2> QED  BY <1>3, <2>4, <2>5, <2>6, <2>7, <2>8 DEF WellFormed
<1> QED  BY <1>2, <1>3

AllConvert == \A d \in Directives : Converts(d)

LEMMA MeaningType == ASSUME AllConvert PROVE Meaning \in [Directives -> Seq(Printed)]
<1> SUFFICES ASSUME NEW d \in Directives PROVE Means(d) \in Seq(Printed)
  BY DEF Meaning
<1>1. IsText(Means(d))
  BY DirectivesAssumption, MeansText DEF AllConvert
<1>2. PICK S : Means(d) \in Seq(S)
  BY <1>1 DEF IsText
<1> DEFINE t == Means(d)
<1>3. DOMAIN t = 1 .. Len(t) /\ Len(t) \in Nat
  BY <1>2
<1>4. \A k \in 1 .. Len(t) : t[k] \in Printed
  BY <1>3 DEF Printed
<1>5. t = [k \in 1 .. Len(t) |-> t[k]]
  BY <1>2
<1>6. t \in [1 .. Len(t) -> Printed]
  BY <1>4, <1>5
<1> HIDE DEF t
<1>7. t \in Seq(Printed)
  BY <1>3, <1>6
<1> QED  BY <1>7 DEF t

\* Directive n + 1 of a call, where it is spelled, its arguments, and what is printed with it
Reading(c, n, d, b, a) ==
  /\ d \in Directives /\ WellFormed(d) /\ d = ListOf(c)[n + 1]
  /\ b = Len(Upto(c, Spelling, n)) /\ a = Len(Upto(c, Passing, n))
  /\ Lies(Alphabet, Spelled(d), b, c.format) /\ Lies(ArgumentType1, Arguments(d), a, c.args)

\* Behind it
Read(c, n, d, b, a) ==
  /\ Len(Upto(c, Spelling, n + 1)) = b + Len(Spelled(d))
  /\ Len(Upto(c, Passing, n + 1)) = a + Len(Arguments(d))
  /\ Upto(c, Meaning, n + 1) = Upto(c, Meaning, n) \o Means(d)

LEMMA EachNext ==
  ASSUME NEW c \in Calls, NEW n \in 0 .. Len(ListOf(c)), n # Len(ListOf(c)),
         NEW S, NEW m \in [Directives -> Seq(S)]
  PROVE  LET d == ListOf(c)[n + 1]  p == Upto(c, m, n)
         IN  /\ d \in Directives /\ m[d] \in Seq(S) /\ p \in Seq(S)
             /\ Upto(c, m, n + 1) = p \o m[d] /\ Len(Upto(c, m, n + 1)) = Len(p) + Len(m[d])
             /\ Lies(S, m[d], Len(p), FlattenSeq(Each(m, ListOf(c))))
<1> DEFINE ds == ListOf(c)  p == Upto(c, m, n)  d == ds[n + 1]
<1>1. ds \in Seq(Directives)
  BY Listed DEF IsListed
<1>2. Follows(S, Directives, m, ds, n)
  BY <1>1, FlattenNext, Zenon
<1>3. d \in Directives /\ m[d] \in Seq(S) /\ Upto(c, m, n + 1) = p \o m[d]
  BY <1>2, Zenon DEF Follows, Upto
<1>4. p \in Seq(S)
  BY <1>1, FlattenTo, Zenon DEF Upto
<1>5. Lies(S, m[d], Len(p), FlattenSeq(Each(m, ds)))
  <2>1. Lies(S, m[ds[n + 1]], Len(FlattenSeq(Each(m, SubSeq(ds, 1, n)))), FlattenSeq(Each(m, ds)))
    BY <1>1, FlattenLies, Zenon
  <2> QED  BY <2>1, Zenon DEF Upto
<1> HIDE DEF p, d, ds
<1>6. Len(p \o m[d]) = Len(p) + Len(m[d])
  BY <1>3, <1>4, ConcatProperties
<1>7. Len(Upto(c, m, n + 1)) = Len(p) + Len(m[d])
  BY <1>3, <1>6, Zenon
<1> QED  BY <1>3, <1>4, <1>5, <1>7, Zenon DEF p, d, ds

LEMMA ReadingOf ==
  ASSUME AllConvert, NEW c \in Calls, NEW n \in 0 .. Len(ListOf(c)), n # Len(ListOf(c))
  PROVE  \E d, b, a : Reading(c, n, d, b, a) /\ Read(c, n, d, b, a)
<1> DEFINE d == ListOf(c)[n + 1]  b == Len(Upto(c, Spelling, n))  a == Len(Upto(c, Passing, n))
<1>1. IsListed(c, ListOf(c))
  BY Listed
<1>2. /\ d \in Directives /\ Len(Upto(c, Spelling, n + 1)) = b + Len(Spelling[d])
      /\ Lies(Alphabet, Spelling[d], b, FlattenSeq(Each(Spelling, ListOf(c))))
  BY EachNext, SpellingType, Zenon
<1>3. /\ Len(Upto(c, Passing, n + 1)) = a + Len(Passing[d])
      /\ Lies(ArgumentType1, Passing[d], a, FlattenSeq(Each(Passing, ListOf(c))))
  BY EachNext, PassingType, Zenon
<1>4. Upto(c, Meaning, n + 1) = Upto(c, Meaning, n) \o Meaning[d]
  BY EachNext, MeaningType, Zenon
<1> HIDE DEF d, b, a
<1>5. Spelling[d] = Spelled(d) /\ Passing[d] = Arguments(d) /\ Meaning[d] = Means(d)
  BY <1>2 DEF Spelling, Passing, Meaning
<1>6. WellFormed(d)
  BY <1>2, DirectivesAssumption
<1>7. Reading(c, n, d, b, a)
  BY <1>1, <1>2, <1>3, <1>5, <1>6, Zenon DEF Reading, IsListed, d, b, a
<1>8. Read(c, n, d, b, a)
  BY <1>2, <1>3, <1>4, <1>5, Zenon DEF Read
<1> QED  BY <1>7, <1>8, Zenon

-----------------------------------------------------------------------------
(* What comes out *)

LEMMA WithoutNulConcat ==
  ASSUME NEW S, NEW s \in Seq(S), NEW t \in Seq(S)
  PROVE  WithoutNul(s \o t) = WithoutNul(s) \o WithoutNul(t)
<1> DEFINE m == [c \in S |-> IF c = NUL THEN <<>> ELSE <<c>>]
<1>1. m \in [S -> Seq(S)]
  <2> SUFFICES ASSUME NEW c \in S PROVE (IF c = NUL THEN <<>> ELSE <<c>>) \in Seq(S)
    OBVIOUS
  <2>1. <<c>> \in Seq(S) /\ <<>> \in Seq(S)
    OBVIOUS
  <2> QED  BY <2>1
<1>2. ASSUME NEW u \in Seq(S) PROVE WithoutNul(u) = FlattenSeq(Each(m, u))
  <2>1. DOMAIN u = 1 .. Len(u) /\ \A k \in 1 .. Len(u) : u[k] \in S
    OBVIOUS
  <2>2. [k \in DOMAIN u |-> IF u[k] = NUL THEN <<>> ELSE <<u[k]>>] = Each(m, u)
    BY <2>1 DEF Each
  <2> QED  BY <2>2 DEF WithoutNul
<1> HIDE DEF m
<1>3. FlattenSeq(Each(m, s \o t)) = FlattenSeq(Each(m, s)) \o FlattenSeq(Each(m, t))
  <2>1. Splits(m, s, t)
    BY <1>1, EachConcat
  <2> QED  BY <2>1, Zenon DEF Splits
<1>4. s \o t \in Seq(S)
  BY ConcatProperties
<1> QED  BY <1>2, <1>3, <1>4, Zenon

\* The text past has come out of call c: what of it fits lies in the buffer
Emitted(c, past) ==
  /\ idx = Len(past)
  /\ DOMAIN buffer = 0 .. Extent - 1
  /\ c.sink = "buffer" => \A k \in 0 .. Extent - 1 : k < idx /\ k < c.maxlen - 1 => buffer[k] = past[k + 1]
  /\ c.sink = "fct" => given = WithoutNul(past)

LEMMA EmittedMore ==
  ASSUME NEW c \in Calls, call = c, NEW S, NEW past \in Seq(S), NEW text \in Seq(S),
         Emitted(c, past), Out(text)
  PROVE  Emitted(c, past \o text)'
<1> DEFINE more == past \o text
<1>1. /\ Len(past) \in Nat /\ Len(text) \in Nat /\ Len(more) = Len(past) + Len(text)
      /\ \A i \in 1 .. Len(past) : more[i] = past[i]
      /\ \A i \in 1 .. Len(text) : more[Len(past) + i] = text[i]
  <2>1. Joins(S, past, text)
    BY Joined
  <2> QED  BY <2>1 DEF Joins
<1>2. WithoutNul(more) = WithoutNul(past) \o WithoutNul(text)
  BY WithoutNulConcat
<1> HIDE DEF more
<1>3. idx = Len(past) /\ DOMAIN buffer = 0 .. Extent - 1 /\ c.maxlen \in Nat /\ Extent \in Nat
  BY CallType, SizesAssumption DEF Emitted
<1>4. idx' = Len(more)
  BY <1>1, <1>3 DEF Out
<1>5. DOMAIN buffer' = 0 .. Extent - 1
  BY <1>3 DEF Out, _out_buffer
<1>6. ASSUME c.sink = "buffer", NEW k \in 0 .. Extent - 1, k < idx', k < c.maxlen - 1
      PROVE  buffer'[k] = more[k + 1]
  <2>1. buffer' = _out_buffer(text) /\ k < c.maxlen /\ k \in Nat
    BY <1>3, <1>6 DEF Out
  <2>2. CASE k < idx
    <3>1. k \notin idx .. idx + Len(text) - 1
      BY <1>1, <1>3, <2>2
    <3>2. buffer'[k] = buffer[k]
      BY <1>3, <2>1, <3>1 DEF _out_buffer
    <3>3. buffer[k] = past[k + 1]
      BY <1>6, <2>2 DEF Emitted
    <3>4. k + 1 \in 1 .. Len(past)
      BY <1>1, <1>3, <2>2
    <3> QED  BY <1>1, <3>2, <3>3, <3>4
  <2>3. CASE ~(k < idx)
    <3>1. k \in idx .. idx + Len(text) - 1
      BY <1>1, <1>3, <1>4, <1>6, <2>3
    <3>2. buffer'[k] = text[k - idx + 1]
      BY <1>3, <2>1, <3>1 DEF _out_buffer
    <3>3. k - idx + 1 \in 1 .. Len(text) /\ Len(past) + (k - idx + 1) = k + 1
      BY <1>1, <1>3, <3>1
    <3>4. more[k + 1] = text[k - idx + 1]
      BY <1>1, <3>3
    <3> QED  BY <3>2, <3>4
  <2> QED  BY <2>2, <2>3
<1>7. ASSUME c.sink = "fct" PROVE given' = WithoutNul(more)
  <2>1. given = WithoutNul(past) /\ given' = given \o WithoutNul(text)
    BY <1>7 DEF Emitted, Out, _out_fct
  <2> QED  BY <1>2, <2>1
<1>8. Emitted(c, more)'
  BY <1>4, <1>5, <1>6, <1>7 DEF Emitted
<1> QED  BY <1>8 DEF more

-----------------------------------------------------------------------------
(* Reading a directive *)

LEMMA CharHere ==
  ASSUME NEW c \in Calls, call = c, NEW n, NEW d, NEW b, NEW a, Reading(c, n, d, b, a),
         NEW j \in 0 .. Len(Spelled(d)) - 1, NEW p, p = b + 1 + j
  PROVE  Char(p) = Spelled(d)[j + 1] /\ c.format[p] = Spelled(d)[j + 1] /\ p \in 1 .. Len(c.format)
<1>1. Lies(Alphabet, Spelled(d), b, c.format) /\ Len(c.format) \in Nat
  BY CallType DEF Reading
<1>2. Len(Spelled(d)) \in Nat /\ b \in Nat /\ b + Len(Spelled(d)) <= Len(c.format)
  BY <1>1 DEF Lies
<1>3. j + 1 \in 1 .. Len(Spelled(d)) /\ b + (j + 1) = b + 1 + j
  BY <1>2
<1>4. c.format[b + 1 + j] = Spelled(d)[j + 1]
  BY <1>1, <1>3 DEF Lies
<1>5. b + 1 + j \in 1 .. Len(c.format)
  BY <1>1, <1>2
<1> QED  BY <1>4, <1>5 DEF Char

LEMMA ArgumentHere ==
  ASSUME NEW c \in Calls, call = c, NEW n, NEW d, NEW b, NEW a, Reading(c, n, d, b, a),
         NEW i \in 0 .. Len(Arguments(d)) - 1, NEW p, p = a + 1 + i
  PROVE  call.args[p] = Arguments(d)[i + 1] /\ p \in 1 .. Len(c.args)
<1>1. Lies(ArgumentType1, Arguments(d), a, c.args) /\ Len(c.args) \in Nat
  BY CallType DEF Reading
<1>2. Len(Arguments(d)) \in Nat /\ a \in Nat /\ a + Len(Arguments(d)) <= Len(c.args)
  BY <1>1 DEF Lies
<1>3. i + 1 \in 1 .. Len(Arguments(d)) /\ a + (i + 1) = a + 1 + i
  BY <1>2
<1>4. c.args[a + 1 + i] = Arguments(d)[i + 1]
  BY <1>1, <1>3 DEF Lies
<1>5. a + 1 + i \in 1 .. Len(c.args)
  BY <1>1, <1>2
<1> QED  BY <1>4, <1>5

FirstFlags(d, k) == {FlagOf[d.flags[i]] : i \in 1 .. k}
WithWidth(d)     == FlagsSpelled(d) \union (IF d.width.n < 0 THEN {"LEFT"} ELSE {})
WithPrecision(d) == WithWidth(d) \union (IF d.precision.text # <<>> THEN {"PRECISION"} ELSE {})
Stars(d)         == StarCount(d.width) + StarCount(d.precision)

\* j characters of a directive and i of its arguments are behind
Placed(b, a, j, i) == at = b + 1 + j /\ arg = a + 1 + i

\* The fields of a directive so far
AtFlags(d, b, a) ==
  /\ phase = "flags" /\ width = 0 /\ precision = 0
  /\ \E k \in 0 .. Len(d.flags) : Placed(b, a, 1 + k, 0) /\ flags = FirstFlags(d, k)

AtWidth(d, b, a) ==
  /\ phase = "width" /\ Placed(b, a, ToWidth(d), 0)
  /\ flags = FlagsSpelled(d) /\ width = 0 /\ precision = 0

AtPrecision(d, b, a) ==
  /\ phase = "precision" /\ Placed(b, a, ToPrecision(d), StarCount(d.width))
  /\ flags = WithWidth(d) /\ width = Abs(d.width.n) /\ precision = 0

AtLength(d, b, a) ==
  /\ phase = "length" /\ Placed(b, a, ToLength(d), Stars(d))
  /\ flags = WithPrecision(d) /\ width = Abs(d.width.n) /\ precision = PrecisionOf(d)

AtSpecifier(d, b, a) ==
  /\ phase = "specifier" /\ Placed(b, a, ToSpecifier(d), Stars(d))
  /\ flags = FlagsOf(d) /\ width = Abs(d.width.n) /\ precision = PrecisionOf(d)

\* What is known of a directive that is being read
Facts(d) == WellFormed(d) /\ d.specifier # "text" /\ Parts(d) /\ Layout(d) /\ Borders(d) /\ FieldFacts(d) /\ Takes(d)

LEMMA FactsOf ==
  ASSUME NEW c, NEW n, NEW d, NEW b, NEW a, Reading(c, n, d, b, a), d.specifier # "text"
  PROVE  Facts(d)
<1>1. WellFormed(d)
  BY DEF Reading
<1>2. Parts(d) /\ Borders(d) /\ FieldFacts(d)
  BY <1>1, PartsAreTexts, BordersOf, FieldFactsOf
<1>3. Layout(d)
  BY <1>2, LayoutOf
<1>4. d.arg \in ArgumentType1
  BY <1>1 DEF WellFormed, ArgumentType1
<1>5. Takes(d)
  BY <1>2, <1>4, TakesOf DEF FieldFacts
<1> QED  BY <1>1, <1>2, <1>3, <1>5 DEF Facts

LEMMA Places ==
  ASSUME NEW d, Facts(d)
  PROVE  /\ ToWidth(d) = 1 + Len(d.flags) /\ ToPrecision(d) = ToWidth(d) + Len(d.width.text)
         /\ ToLength(d) = ToPrecision(d) + Len(d.precision.text) /\ ToSpecifier(d) = ToLength(d) + Len(d.length)
         /\ Len(Spelled(d)) = ToSpecifier(d) + 1
         /\ Len(d.flags) \in Nat /\ Len(d.width.text) \in Nat /\ Len(d.precision.text) \in Nat /\ Len(d.length) \in Nat
         /\ ToWidth(d) \in 1 .. Len(Spelled(d)) - 1 /\ ToPrecision(d) \in 1 .. Len(Spelled(d)) - 1
         /\ ToLength(d) \in 1 .. Len(Spelled(d)) - 1 /\ ToSpecifier(d) \in 1 .. Len(Spelled(d)) - 1
<1>1. /\ Len(d.flags) \in Nat /\ Len(d.width.text) \in Nat /\ Len(d.precision.text) \in Nat /\ Len(d.length) \in Nat
      /\ Len(Spelled(d)) = ToSpecifier(d) + 1
  BY DEF Facts, Layout
<1>2. /\ ToWidth(d) = 1 + Len(d.flags) /\ ToPrecision(d) = ToWidth(d) + Len(d.width.text)
      /\ ToLength(d) = ToPrecision(d) + Len(d.precision.text) /\ ToSpecifier(d) = ToLength(d) + Len(d.length)
  BY DEF ToWidth, ToPrecision, ToLength, ToSpecifier
<1> DEFINE f == Len(d.flags)  w == Len(d.width.text)  p == Len(d.precision.text)  l == Len(d.length)
           tw == ToWidth(d)  tp == ToPrecision(d)  tl == ToLength(d)  ts == ToSpecifier(d)  n == Len(Spelled(d))
<1>3. /\ f \in Nat /\ w \in Nat /\ p \in Nat /\ l \in Nat
      /\ tw = 1 + f /\ tp = tw + w /\ tl = tp + p /\ ts = tl + l /\ n = ts + 1
  BY <1>1, <1>2
<1> HIDE DEF f, w, p, l, tw, tp, tl, ts, n
<1>4. tw \in 1 .. n - 1 /\ tp \in 1 .. n - 1 /\ tl \in 1 .. n - 1 /\ ts \in 1 .. n - 1
  BY <1>3
<1> QED  BY <1>1, <1>2, <1>4 DEF tw, tp, tl, ts, n

LEMMA FlagStep ==
  ASSUME NEW c \in Calls, call = c, NEW n, NEW d, NEW b, NEW a, Reading(c, n, d, b, a), Facts(d),
         AtFlags(d, b, a), Flag
  PROVE  AtFlags(d, b, a)' \/ AtWidth(d, b, a)'
<1>1. PICK k \in 0 .. Len(d.flags) : Placed(b, a, 1 + k, 0) /\ flags = FirstFlags(d, k)
  BY DEF AtFlags
<1>2. at = b + 1 + (1 + k) /\ arg = a + 1 + 0 /\ width = 0 /\ precision = 0
  BY <1>1 DEF AtFlags, Placed
<1>3. 1 + k \in 0 .. Len(Spelled(d)) - 1 /\ b \in Nat
  BY Places DEF Reading, Lies
<1>4. Char(at) = Spelled(d)[(1 + k) + 1]
  <2> DEFINE j == 1 + k
  <2>1. j \in 0 .. Len(Spelled(d)) - 1 /\ at = b + 1 + j
    BY <1>2, <1>3
  <2> HIDE DEF j
  <2>2. Char(at) = Spelled(d)[j + 1]
    BY <2>1, CharHere
  <2> QED  BY <2>2 DEF j
<1>5. CASE k # Len(d.flags)
  <2>1. k + 1 \in 1 .. Len(d.flags) /\ (1 + k) + 1 = 1 + (k + 1)
    BY <1>5, Places
  <2>2. Char(at) = d.flags[k + 1]
    BY <1>4, <2>1 DEF Facts, Layout, Behind
  <2>3. Char(at) \in DOMAIN FlagOf
    <3>1. d.flags \in Seq(DOMAIN FlagOf)
      BY DEF Facts, WellFormed
    <3> QED  BY <2>1, <2>2, <3>1, ElementOfSeq
  <2>4. flags' = flags \union {FlagOf[Char(at)]} /\ at' = at + 1 /\ phase' = "flags"
        /\ UNCHANGED <<width, precision, arg>>
    BY <2>3 DEF Flag
  <2>5. flags' = FirstFlags(d, k + 1)
    <3>1. 1 .. k + 1 = (1 .. k) \union {k + 1}
      BY <2>1
    <3> QED  BY <1>1, <2>2, <2>4, <3>1 DEF FirstFlags
  <2>6. at' = b + 1 + (1 + (k + 1)) /\ k + 1 \in 0 .. Len(d.flags)
    BY <1>2, <1>3, <2>1, <2>4
  <2>7. AtFlags(d, b, a)'
    BY <1>2, <2>4, <2>5, <2>6 DEF AtFlags, Placed
  <2> QED  BY <2>7
<1>6. CASE k = Len(d.flags)
  <2>1. Char(at) = Spelled(d)[ToWidth(d) + 1]
    BY <1>4, <1>6, Places
  <2>2. Char(at) \notin DOMAIN FlagOf
    BY <2>1, Apart DEF Facts, Borders
  <2>3. phase' = "width" /\ UNCHANGED <<flags, at, width, precision, arg>>
    BY <2>2 DEF Flag
  <2>4. flags = FlagsSpelled(d)
    <3>1. DOMAIN d.flags = 1 .. Len(d.flags)
      BY DEF Facts, Parts
    <3> QED  BY <1>1, <1>6, <3>1 DEF FirstFlags, FlagsSpelled
  <2>5. at = b + 1 + ToWidth(d)
    BY <1>2, <1>6, Places
  <2> QED  BY <1>2, <2>3, <2>4, <2>5 DEF AtWidth, Placed
<1> QED  BY <1>5, <1>6

\* No digits are the number 0.
LEMMA NoDigits == Decimal(<<>>) = 0 /\ _atoi(<<>>) = 0
<1>1. <<>> \in Seq(DigitChars) /\ Len(<<>>) = 0
  BY EmptySeq
<1>2. PICK value \in [0 .. 0 -> Nat] : IsNumber(value, <<>>) /\ Decimal(<<>>) = value[0]
  BY <1>1, DecimalByRecursion
<1>3. value[0] = 0
  BY <1>1, <1>2 DEF IsNumber
<1>4. Decimal(<<>>) = 0 /\ Decimal(<<>>) < Values["int"]
  BY <1>2, <1>3, ValuesAssumption
<1> QED  BY <1>1, <1>4, AtoiDecimal

LEMMA SignedInts == ASSUME NEW v \in Ints PROVE Signed(v, Values["int"]) = v
<1> DEFINE m == Values["int"]  h == m \div 2  s == v + h
<1>1. m \in Nat \ {0}
  BY ValuesAssumption
<1>2. h \in Int
  BY <1>1
<1>3. v \in -h .. m - 1 - h
  BY DEF Ints
<1> HIDE DEF m, h
<1>4. s \in 0 .. m - 1 /\ s \in Int /\ v \in Int
  BY <1>1, <1>2, <1>3
<1>5. s % m = s
  <2> HIDE DEF s
  <2> QED  BY <1>1, <1>4, SmallMod
<1>6. Signed(v, m) = (s % m) - h
  BY DEF Signed, s, h
<1>7. s - h = v
  BY <1>2, <1>4
<1> QED  BY <1>5, <1>6, <1>7 DEF m

\* The digits that stand behind j of a directive
LEMMA DigitsHere ==
  ASSUME NEW c \in Calls, call = c, NEW n, NEW d, NEW b, NEW a, Reading(c, n, d, b, a),
         NEW digits \in Seq(Figures), NEW j \in Nat, j + Len(digits) \in 0 .. Len(Spelled(d)) - 1,
         Behind(j, digits, Spelled(d)), Spelled(d)[j + Len(digits) + 1] \notin Figures,
         NEW p, p = b + 1 + j
  PROVE  _is_digits(p) = digits
<1>1. Lies(Alphabet, Spelled(d), b, c.format)
  BY DEF Reading
<1>2. b \in Nat /\ Len(Spelled(d)) \in Nat /\ b + Len(Spelled(d)) <= Len(c.format)
      /\ Len(c.format) \in Nat /\ Len(digits) \in Nat
  BY <1>1, CallType DEF Lies
<1> DEFINE q == b + j  m == Len(digits)
<1>3. q \in Nat /\ p = q + 1 /\ q + m + 1 <= Len(call.format) /\ m \in Nat
  BY <1>2
<1>4. \A k \in 1 .. Len(Spelled(d)) : c.format[b + k] = Spelled(d)[k]
  BY <1>1 DEF Lies
<1>5. ASSUME NEW k \in 1 .. m PROVE call.format[q + k] = digits[k]
  <2>1. j + k \in 1 .. Len(Spelled(d)) /\ b + (j + k) = q + k
    BY <1>2
  <2>2. c.format[q + k] = Spelled(d)[j + k]
    BY <1>4, <2>1
  <2> QED  BY <2>2 DEF Behind
<1>6. call.format[q + m + 1] \notin Figures
  <2>1. j + m + 1 \in 1 .. Len(Spelled(d)) /\ b + (j + m + 1) = q + m + 1
    BY <1>2
  <2>2. c.format[q + m + 1] = Spelled(d)[j + m + 1]
    BY <1>4, <2>1
  <2> QED  BY <2>2
<1>7. Behind(q, digits, call.format)
  BY <1>5 DEF Behind
<1> HIDE DEF q, m
<1>8. _is_digits(q + 1) = digits
  BY <1>3, <1>6, <1>7, DigitsAre DEF m
<1> QED  BY <1>3, <1>8

\* A number spelled in a format is read as it is meant.
LEMMA DecimalRead ==
  ASSUME NEW digits, NEW n, IsDecimal(digits, n)
  PROVE  digits \in Seq(Figures) /\ n \in Nat /\ _atoi(digits) = n
BY AtoiDecimal, Strings DEF IsDecimal

LEMMA WidthStep ==
  ASSUME NEW c \in Calls, call = c, NEW n, NEW d, NEW b, NEW a, Reading(c, n, d, b, a), Facts(d),
         AtWidth(d, b, a), Width \/ WidthStar
  PROVE  AtPrecision(d, b, a)'
<1> DEFINE w == d.width  j == ToWidth(d)
<1>1. /\ at = b + 1 + j /\ arg = a + 1 + 0 /\ flags = FlagsSpelled(d) /\ precision = 0
      /\ b \in Nat /\ a \in Nat
  BY DEF AtWidth, Placed, Reading, Lies
<1>2. /\ j \in Nat /\ j \in 0 .. Len(Spelled(d)) - 1 /\ ToPrecision(d) = j + Len(w.text) /\ Len(w.text) \in Nat
      /\ ToPrecision(d) \in 0 .. Len(Spelled(d)) - 1
  BY Places
<1>3. Char(at) = Spelled(d)[j + 1]
  BY <1>1, <1>2, CharHere
<1>4. IsWidth(w) /\ w.n \in Int /\ (Star(w) <=> w.text = <<"*">>)
  BY DEF Facts, WellFormed, FieldFacts
<1>5. Spelled(d)[ToPrecision(d) + 1] \notin Figures
  <2>1. Spelled(d)[ToPrecision(d) + 1] \in Ending \/ Spelled(d)[ToPrecision(d) + 1] = "."
    BY DEF Facts, Borders
  <2> QED  BY <2>1, Apart
<1>6. Behind(j, w.text, Spelled(d))
  BY DEF Facts, Layout
<1>7. ASSUME w.text \in Seq(Figures), w.n \in Nat, _atoi(w.text) = w.n, Char(at) # "*", ~Star(w)
      PROVE  AtPrecision(d, b, a)'
  <2>1. _is_digits(at) = w.text
    <3> DEFINE t == w.text
    <3>1. t \in Seq(Figures) /\ j + Len(t) \in 0 .. Len(Spelled(d)) - 1 /\ Behind(j, t, Spelled(d))
          /\ Spelled(d)[j + Len(t) + 1] \notin Figures
      BY <1>2, <1>5, <1>6, <1>7
    <3> HIDE DEF t, j
    <3>2. _is_digits(at) = t
      BY <1>1, <1>2, <3>1, DigitsHere
    <3> QED  BY <3>2 DEF t
  <2>2. /\ width' = w.n /\ at' = at + Len(w.text) /\ phase' = "precision"
        /\ UNCHANGED <<flags, precision, arg>>
    BY <1>7, <2>1 DEF Width, WidthStar, At
  <2>3. StarCount(w) = 0 /\ Abs(w.n) = w.n /\ WithWidth(d) = FlagsSpelled(d)
    BY <1>7 DEF StarCount, Abs, WithWidth
  <2>4. at' = b + 1 + ToPrecision(d)
    <3> DEFINE l == Len(w.text)  q == ToPrecision(d)
    <3>1. at = b + 1 + j /\ q = j + l /\ at' = at + l /\ l \in Nat /\ j \in Nat /\ b \in Nat
      BY <1>1, <1>2, <2>2
    <3> HIDE DEF l, q, j
    <3>2. at' = b + 1 + q
      BY <3>1
    <3> QED  BY <3>2 DEF q
  <2> QED  BY <1>1, <2>2, <2>3, <2>4 DEF AtPrecision, Placed
<1>8. CASE w = Field(<<>>, 0)
  <2>1. w.text = <<>> /\ w.n = 0
    BY <1>8 DEF Field
  <2>2. w.text \in Seq(Figures) /\ _atoi(w.text) = w.n /\ w.n \in Nat
    BY <2>1, NoDigits, EmptySeq
  <2>3. Char(at) \in Ending \union {"."}
    BY <1>3, <2>1 DEF Facts, Borders
  <2>4. Char(at) # "*"
    BY <2>3, Apart
  <2>5. ~Star(w)
    BY <2>1 DEF Star
  <2> QED  BY <1>7, <2>2, <2>4, <2>5
<1>9. CASE w.text = <<"*">> /\ w.n \in Ints
  <2>1. Len(w.text) = 1 /\ w.text[1] = "*" /\ Star(w) /\ StarCount(w) = 1
    <3>1. Len(<<"*">>) = 1 /\ <<"*">>[1] = "*"
      OBVIOUS
    <3> QED  BY <1>4, <1>9, <3>1 DEF StarCount
  <2>2. Char(at) = "*"
    BY <1>3, <1>6, <2>1 DEF Behind
  <2>3. WidthStar
    BY <2>2 DEF Width
  <2>4. Va_arg.n = w.n
    <3>1. Len(Arguments(d)) = StarCount(w) + StarCount(d.precision) + OwnCount(d) /\ Arguments(d)[1].n = w.n
      BY <2>1 DEF Facts, Takes
    <3>2. Len(Arguments(d)) - 1 \in Nat
      BY <2>1, <3>1 DEF StarCount, OwnCount
    <3>3. 0 \in 0 .. Len(Arguments(d)) - 1
      BY <3>2
    <3>4. call.args[arg] = Arguments(d)[0 + 1]
      <4> DEFINE i == 0
      <4>1. i \in 0 .. Len(Arguments(d)) - 1 /\ arg = a + 1 + i
        BY <1>1, <3>3
      <4> HIDE DEF i
      <4>2. call.args[arg] = Arguments(d)[i + 1]
        BY <4>1, ArgumentHere
      <4> QED  BY <4>2 DEF i
    <3> QED  BY <3>1, <3>4 DEF Va_arg
  <2>5. Signed(Va_arg.n, Values["int"]) = w.n
    BY <1>9, <2>4, SignedInts
  <2>6. /\ width' = (IF w.n < 0 THEN -w.n ELSE w.n)
        /\ flags' = (IF w.n < 0 THEN flags \union {"LEFT"} ELSE flags)
        /\ at' = at + 1 /\ arg' = arg + 1 /\ phase' = "precision" /\ UNCHANGED precision
    BY <2>3, <2>5 DEF WidthStar
  <2>7. width' = Abs(w.n) /\ flags' = WithWidth(d)
    BY <1>1, <2>6 DEF Abs, WithWidth
  <2>8. at' = b + 1 + ToPrecision(d) /\ arg' = a + 1 + StarCount(w)
    BY <1>1, <1>2, <2>1, <2>6
  <2> QED  BY <1>1, <2>6, <2>7, <2>8 DEF AtPrecision, Placed
<1>10. CASE IsDecimal(w.text, w.n) /\ w.text[1] # "0"
  <2>1. w.text \in Seq(Figures) /\ w.n \in Nat /\ _atoi(w.text) = w.n
    BY <1>10, DecimalRead
  <2>2. w.text # <<>>
    BY <1>10 DEF IsDecimal
  <2>3. Len(w.text) # 0 /\ 1 \in 1 .. Len(w.text)
    BY <2>1, <2>2, EmptySeq
  <2>4. Char(at) = w.text[1] /\ w.text[1] \in Figures
    BY <1>3, <1>6, <2>1, <2>3, ElementOfSeq DEF Behind
  <2>5. Char(at) # "*"
    BY <2>4, Apart
  <2>6. ~Star(w)
    BY <2>1, Apart, StarIn
  <2> QED  BY <1>7, <2>1, <2>5, <2>6
<1> QED  BY <1>4, <1>8, <1>9, <1>10 DEF IsWidth

LEMMA PrecisionStep ==
  ASSUME NEW c \in Calls, call = c, NEW n, NEW d, NEW b, NEW a, Reading(c, n, d, b, a), Facts(d),
         AtPrecision(d, b, a), NoPrecision \/ Precision \/ PrecisionStar
  PROVE  AtLength(d, b, a)'
<1> DEFINE f == d.precision  t == f.text  j == ToPrecision(d)  i == StarCount(d.width)
           len == Len(t)  q == ToLength(d)  size == Len(Spelled(d))
<1>1. /\ at = b + 1 + j /\ arg = a + 1 + i /\ flags = WithWidth(d) /\ width = Abs(d.width.n) /\ precision = 0
      /\ b \in Nat /\ a \in Nat /\ phase = "precision"
  BY DEF AtPrecision, Placed, Reading, Lies
<1>2. /\ j \in Nat /\ j \in 0 .. size - 1 /\ q = j + len /\ len \in Nat /\ q \in 0 .. size - 1 /\ size \in Nat
  <2>1. size \in Nat
    BY DEF Reading, Lies
  <2> QED  BY <2>1, Places
<1>3. Char(at) = Spelled(d)[j + 1]
  <2> HIDE DEF j
  <2> QED  BY <1>1, <1>2, CharHere
<1>4. IsPrecision(f) /\ f.n \in Int /\ (Star(f) <=> t = <<".", "*">>) /\ (Star(d.width) <=> d.width.text = <<"*">>)
  BY DEF Facts, WellFormed, FieldFacts
<1>5. Behind(j, t, Spelled(d)) /\ i \in 0 .. 1
  BY DEF Facts, Layout, StarCount
<1>6. CASE f = Field(<<>>, -1)
  <2>1. t = <<>> /\ f.n = -1 /\ len = 0
    <3>1. t = <<>> /\ f.n = -1
      BY <1>6 DEF Field
    <3> QED  BY <3>1, EmptySeq
  <2>2. Char(at) \in Ending
    BY <1>3, <2>1 DEF Facts, Borders
  <2>3. Char(at) # "."
    BY <2>2, Apart
  <2>4. NoPrecision
    BY <2>3 DEF Precision, PrecisionStar, At
  <2>5. phase' = "length" /\ UNCHANGED <<at, flags, width, precision, arg>>
    BY <2>4 DEF NoPrecision, fields
  <2>6. ~Star(f)
    BY <2>1 DEF Star
  <2>7. WithPrecision(d) = WithWidth(d) /\ PrecisionOf(d) = 0 /\ Stars(d) = i
    <3>1. StarCount(f) = 0
      BY <2>6 DEF StarCount
    <3> QED  BY <1>5, <2>1, <3>1 DEF WithPrecision, PrecisionOf, Stars
  <2>8. q = j
    BY <1>2, <2>1
  <2> QED  BY <1>1, <2>5, <2>7, <2>8 DEF AtLength, Placed
<1>7. ASSUME t # <<>>, len # 0 PROVE Char(at) = "." /\ Char(at + 1) = Spelled(d)[(j + 1) + 1]
  <2>1. Char(at) = "."
    BY <1>3, <1>7 DEF Facts, Borders
  <2> DEFINE k == j + 1  p == at + 1
  <2>2. k \in 0 .. size - 1 /\ p = b + 1 + k
    <3> HIDE DEF j, q, len, size
    <3> QED  BY <1>1, <1>2, <1>7
  <2> HIDE DEF k, p
  <2>3. Char(p) = Spelled(d)[k + 1]
    BY <2>2, CharHere
  <2> QED  BY <2>1, <2>3 DEF k, p
\* Digits, or none
<1>8. ASSUME NEW u \in Seq(Figures), _atoi(u) = f.n, f.n \in Nat, len = 1 + Len(u), t # <<>>, ~Star(f),
             \A k \in 1 .. Len(u) : t[k + 1] = u[k]
      PROVE  AtLength(d, b, a)'
  <2> DEFINE m == Len(u)  k == j + 1
  <2>1. len = 1 + m /\ m \in Nat /\ k \in Nat /\ k + m = q /\ at + 1 = b + 1 + k
    <3>1. m \in Nat /\ len = 1 + m
      BY <1>8
    <3> HIDE DEF j, q, len, m
    <3> QED  BY <1>1, <1>2, <3>1
  <2>2. Spelled(d)[q + 1] \in Ending
    BY DEF Facts, Borders
  <2>3. Behind(k, u, Spelled(d))
    <3> SUFFICES ASSUME NEW l \in 1 .. m PROVE Spelled(d)[k + l] = u[l]
      BY DEF Behind
    <3>1. l + 1 \in 1 .. len /\ j + (l + 1) = k + l
      <4> HIDE DEF j, len
      <4> QED  BY <1>2, <2>1
    <3>2. Spelled(d)[j + (l + 1)] = t[l + 1]
      BY <1>5, <3>1 DEF Behind
    <3> QED  BY <1>8, <3>1, <3>2
  <2>4. _is_digits(at + 1) = u
    <3> DEFINE p == at + 1
    <3>1. /\ k + Len(u) \in 0 .. Len(Spelled(d)) - 1 /\ Spelled(d)[k + Len(u) + 1] \notin Figures /\ p = b + 1 + k
          /\ u \in Seq(Figures) /\ k \in Nat /\ Behind(k, u, Spelled(d))
      <4>1. k + Len(u) = q /\ q \in 0 .. Len(Spelled(d)) - 1
        BY <1>2, <2>1
      <4> HIDE DEF k
      <4> QED  BY <1>8, <2>1, <2>2, <2>3, <4>1, Apart
    <3> HIDE DEF p, k
    <3>2. _is_digits(p) = u
      BY <3>1, DigitsHere
    <3> QED  BY <3>2 DEF p
  <2>5. Char(at) = "." /\ Char(at + 1) = Spelled(d)[k + 1]
    BY <1>7, <1>8, <2>1
  <2>6. Char(at + 1) # "*"
    <3>1. CASE m = 0
      <4>1. k = q
        <5> HIDE DEF k, q, m
        <5> QED  BY <1>2, <2>1, <3>1
      <4> QED  BY <2>2, <2>5, <4>1, Apart
    <3>2. CASE m # 0
      <4>1. 1 \in 1 .. m
        BY <2>1, <3>2
      <4>2. Char(at + 1) = u[1] /\ u[1] \in Figures
        BY <1>8, <2>3, <2>5, <4>1, ElementOfSeq DEF Behind
      <4> QED  BY <4>2, Apart
    <3> QED  BY <3>1, <3>2
  <2>7. Precision
    BY <2>5, <2>6 DEF NoPrecision, PrecisionStar
  <2>8. /\ precision' = f.n /\ at' = at + 1 + m /\ flags' = flags \union {"PRECISION"} /\ phase' = "length"
        /\ UNCHANGED <<width, arg>>
    BY <1>8, <2>4, <2>7 DEF Precision
  <2>9. WithPrecision(d) = WithWidth(d) \union {"PRECISION"} /\ PrecisionOf(d) = f.n /\ Stars(d) = i
    <3>1. StarCount(f) = 0
      BY <1>8 DEF StarCount
    <3> QED  BY <1>5, <1>8, <3>1 DEF WithPrecision, PrecisionOf, Stars
  <2>10. at' = b + 1 + q
    <3> HIDE DEF j, q, k, m, len
    <3> QED  BY <1>1, <1>2, <2>1, <2>8
  <2> QED  BY <1>1, <2>8, <2>9, <2>10 DEF AtLength, Placed
<1>9. CASE f = Field(<<".">>, 0)
  <2>1. t = <<".">> /\ f.n = 0 /\ len = 1
    <3>1. t = <<".">> /\ f.n = 0
      BY <1>9 DEF Field
    <3> QED  BY <3>1
  <2>2. <<>> \in Seq(Figures) /\ Len(<<>>) = 0 /\ _atoi(<<>>) = f.n /\ f.n \in Nat
    BY <2>1, NoDigits, EmptySeq
  <2>3. ~Star(f)
    <3>1. t # <<".", "*">>
      <4>1. Len(<<".", "*">>) = 2
        OBVIOUS
      <4> QED  BY <2>1, <4>1
    <3> QED  BY <1>4, <3>1
  <2>4. t # <<>>
    BY <2>1, EmptySeq
  <2>5. len = 1 + Len(<<>>) /\ \A k \in 1 .. Len(<<>>) : t[k + 1] = <<>>[k]
    BY <2>1, <2>2
  <2> QED  BY <1>8, <2>2, <2>3, <2>4, <2>5
<1>10. CASE t \in Seq(STRING) \ {<<>>} /\ t[1] = "." /\ IsDecimal(Tail(t), f.n)
  <2> DEFINE u == Tail(t)
  <2>1. u \in Seq(Figures) /\ f.n \in Nat /\ _atoi(u) = f.n /\ u # <<>>
    BY <1>10, DecimalRead DEF IsDecimal
  <2>2. Len(u) = len - 1 /\ \A k \in 1 .. Len(u) : u[k] = t[k + 1]
    BY <1>10, HeadTailProperties
  <2>3. len = 1 + Len(u) /\ Len(u) \in Nat /\ t # <<>>
    <3> HIDE DEF u, len
    <3> QED  BY <1>2, <1>10, <2>1, <2>2
  <2>4. Len(u) # 0
    <3> HIDE DEF u
    <3> QED  BY <2>1, EmptySeq
  <2>5. 1 \in 1 .. Len(u)
    <3> HIDE DEF u
    <3> QED  BY <2>3, <2>4
  <2>6. u[1] \in Figures /\ u[1] = t[2]
    <3>1. u[1] \in Figures
      <4> HIDE DEF u
      <4> QED  BY <2>1, <2>5, ElementOfSeq
    <3> QED  BY <2>2, <2>5, <3>1
  <2>7. ~Star(f)
    <3>1. t # <<".", "*">>
      <4>1. <<".", "*">>[2] = "*"
        OBVIOUS
      <4> QED  BY <2>6, <4>1, Apart
    <3> QED  BY <1>4, <3>1
  <2>8. \A k \in 1 .. Len(u) : t[k + 1] = u[k]
    BY <2>2
  <2> HIDE DEF u, t, len, f
  <2> QED  BY <1>8, <2>1, <2>3, <2>7, <2>8
<1>11. CASE t = <<".", "*">> /\ f.n \in Ints \cap Nat
  <2>1. len = 2 /\ t[1] = "." /\ t[2] = "*" /\ Star(f) /\ StarCount(f) = 1 /\ t # <<>>
    <3>1. Len(<<".", "*">>) = 2 /\ <<".", "*">>[1] = "." /\ <<".", "*">>[2] = "*" /\ Len(<<>>) = 0
      BY EmptySeq
    <3>2. Star(f) /\ len = 2
      BY <1>4, <1>11, <3>1
    <3> QED  BY <1>11, <3>1, <3>2 DEF StarCount
  <2>2. Char(at) = "." /\ Char(at + 1) = "*"
    <3>1. Char(at) = "." /\ Char(at + 1) = Spelled(d)[(j + 1) + 1]
      BY <1>7, <2>1
    <3>2. 2 \in 1 .. len /\ (j + 1) + 1 = j + 2
      <4> HIDE DEF j, len
      <4> QED  BY <1>2, <2>1
    <3>3. Spelled(d)[j + 2] = t[2]
      BY <1>5, <3>2 DEF Behind
    <3> QED  BY <2>1, <3>1, <3>2, <3>3
  <2>3. PrecisionStar
    BY <2>2 DEF NoPrecision, Precision
  <2>4. Va_arg.n = f.n
    <3>1. Len(Arguments(d)) = i + 1 + OwnCount(d) /\ Arguments(d)[i + 1].n = f.n
      BY <2>1 DEF Facts, Takes
    <3>2. OwnCount(d) \in Nat
      BY DEF OwnCount
    <3>3. i \in 0 .. Len(Arguments(d)) - 1 /\ arg = a + 1 + i
      <4> HIDE DEF i
      <4> QED  BY <1>1, <1>5, <3>1, <3>2
    <3> HIDE DEF i
    <3>4. call.args[arg] = Arguments(d)[i + 1]
      BY <3>3, ArgumentHere
    <3> QED  BY <3>1, <3>4 DEF Va_arg
  <2>5. Signed(Va_arg.n, Values["int"]) = f.n
    BY <1>11, <2>4, SignedInts
  <2>6. /\ precision' = (IF f.n > 0 THEN f.n ELSE 0) /\ flags' = flags \union {"PRECISION"} /\ phase' = "length"
        /\ at' = at + 2 /\ arg' = arg + 1 /\ UNCHANGED width
    BY <2>3, <2>5 DEF PrecisionStar
  <2>7. WithPrecision(d) = WithWidth(d) \union {"PRECISION"} /\ PrecisionOf(d) = (IF f.n > 0 THEN f.n ELSE 0)
        /\ Stars(d) = i + 1
    BY <2>1 DEF WithPrecision, PrecisionOf, Stars
  <2>8. at' = b + 1 + q /\ arg' = a + 1 + Stars(d)
    <3> HIDE DEF j, q, i, len
    <3>1. at' = b + 1 + q
      BY <1>1, <1>2, <2>1, <2>6
    <3>2. arg' = a + 1 + Stars(d)
      BY <1>1, <1>5, <2>6, <2>7
    <3> QED  BY <3>1, <3>2
  <2> QED  BY <1>1, <2>6, <2>7, <2>8 DEF AtLength, Placed
<1> QED  BY <1>4, <1>6, <1>9, <1>10, <1>11 DEF IsPrecision

\* What a length stands for, by its characters
LEMMA LengthFlagsOf ==
  /\ LengthFlags(<<>>) = {} /\ LengthFlags(<<"h">>) = {"SHORT"}
  /\ LengthFlags(<<"h", "h">>) = {"SHORT", "CHAR"}
  /\ \A c \in LengthChars \ {"h"} : LengthFlags(<<c>>) = {"LONG"} /\ LengthFlags(<<c, c>>) = {"LONG"}
<1>1. Len(<<>>) = 0 /\ Len(<<"h">>) = 1 /\ Len(<<"h", "h">>) = 2
  BY EmptySeq
<1>2. LengthFlags(<<>>) = {}
  BY <1>1 DEF LengthFlags
<1>3. LengthFlags(<<"h">>) = {"SHORT"}
  BY <1>1 DEF LengthFlags
<1>4. LengthFlags(<<"h", "h">>) = {"SHORT", "CHAR"}
  BY DEF LengthFlags
<1>5. ASSUME NEW c, c # "h" PROVE LengthFlags(<<c>>) = {"LONG"} /\ LengthFlags(<<c, c>>) = {"LONG"}
  <2>1. Len(<<c>>) = 1 /\ Len(<<c, c>>) = 2 /\ <<c>>[1] = c /\ <<c, c>>[1] = c /\ <<"h">>[1] = "h" /\ <<"h", "h">>[1] = "h"
    OBVIOUS
  <2>2. <<c>> # <<>> /\ <<c>> # <<"h">> /\ <<c>> # <<"h", "h">>
    BY <1>1, <1>5, <2>1
  <2>3. <<c, c>> # <<>> /\ <<c, c>> # <<"h">> /\ <<c, c>> # <<"h", "h">>
    BY <1>1, <1>5, <2>1
  <2>4. LengthFlags(<<c>>) = {"LONG"}
    BY <2>2 DEF LengthFlags
  <2>5. LengthFlags(<<c, c>>) = {"LONG"}
    BY <2>3 DEF LengthFlags
  <2> QED  BY <2>4, <2>5
<1> QED  BY <1>2, <1>3, <1>4, <1>5

LEMMA LengthStep ==
  ASSUME NEW c \in Calls, call = c, NEW n, NEW d, NEW b, NEW a, Reading(c, n, d, b, a), Facts(d),
         AtLength(d, b, a), Length
  PROVE  AtSpecifier(d, b, a)'
<1> DEFINE l == d.length  j == ToLength(d)  len == Len(l)  q == ToSpecifier(d)  size == Len(Spelled(d))
<1>1. /\ at = b + 1 + j /\ arg = a + 1 + Stars(d) /\ flags = WithPrecision(d)
      /\ width = Abs(d.width.n) /\ precision = PrecisionOf(d) /\ b \in Nat /\ a \in Nat
  BY DEF AtLength, Placed, Reading, Lies
<1>2. /\ j \in Nat /\ j \in 0 .. size - 1 /\ q = j + len /\ len \in Nat /\ q \in 0 .. size - 1 /\ size \in Nat
  <2>1. size \in Nat
    BY DEF Reading, Lies
  <2> QED  BY <2>1, Places
<1>3. Char(at) = Spelled(d)[j + 1]
  <2> HIDE DEF j
  <2> QED  BY <1>1, <1>2, CharHere
<1>4. ASSUME len # 0 PROVE Char(at + 1) = Spelled(d)[(j + 1) + 1]
  <2> DEFINE k == j + 1  p == at + 1
  <2>1. k \in 0 .. size - 1 /\ p = b + 1 + k
    <3> HIDE DEF j, q, len, size
    <3> QED  BY <1>1, <1>2, <1>4
  <2> HIDE DEF k, p
  <2>2. Char(p) = Spelled(d)[k + 1]
    BY <2>1, CharHere
  <2> QED  BY <2>2 DEF k, p
<1>5. /\ \A k \in 1 .. len : Spelled(d)[j + k] = l[k]
      /\ Spelled(d)[q + 1] = d.specifier /\ d.specifier \in Specifiers
  BY DEF Facts, Layout, Behind, WellFormed, Specifiers
<1>6. UNCHANGED <<width, precision, arg>> /\ phase' = "specifier"
  BY DEF Length
<1>7. ASSUME flags' = flags \union LengthFlags(l), at' = at + len PROVE AtSpecifier(d, b, a)'
  <2>1. FlagsOf(d) = WithPrecision(d) \union LengthFlags(l)
    BY DEF FlagsOf, WithPrecision, WithWidth
  <2>2. at' = b + 1 + q
    <3> HIDE DEF j, q, len
    <3> QED  BY <1>1, <1>2, <1>7
  <2> QED  BY <1>1, <1>6, <1>7, <2>1, <2>2 DEF AtSpecifier, Placed
<1>8. \A s \in Specifiers : s \notin {"l", "h", "t", "j", "z"}
  BY Apart DEF LengthChars
<1>9. CASE l = <<>>
  <2>1. len = 0
    BY <1>9, EmptySeq
  <2>2. Char(at) \in Specifiers
    BY <1>3, <1>9 DEF Facts, Borders
  <2>3. flags' = flags /\ at' = at
    BY <1>8, <2>2 DEF Length
  <2>4. at' = at + len
    <3> HIDE DEF j, len
    <3> QED  BY <1>1, <1>2, <2>1, <2>3
  <2> QED  BY <1>7, <1>9, <2>3, <2>4, LengthFlagsOf
\* One character
<1>10. ASSUME NEW x \in LengthChars, l = <<x>>
       PROVE  len = 1 /\ Char(at) = x /\ Char(at + 1) # x
  <2>1. len = 1 /\ l[1] = x
    BY <1>10
  <2>2. Char(at) = x
    BY <1>3, <1>5, <2>1
  <2>3. Char(at + 1) \in Specifiers
    <3>1. (j + 1) + 1 = q + 1
      <4> HIDE DEF j, q, len
      <4> QED  BY <1>2, <2>1
    <3> QED  BY <1>4, <1>5, <2>1, <3>1
  <2> QED  BY <2>1, <2>2, <2>3, Apart
\* The same one twice
<1>11. ASSUME NEW x \in LengthChars, l = <<x, x>>
       PROVE  len = 2 /\ Char(at) = x /\ Char(at + 1) = x
  <2>1. len = 2 /\ l[1] = x /\ l[2] = x
    BY <1>11
  <2>2. Char(at) = x
    BY <1>3, <1>5, <2>1
  <2>3. Char(at + 1) = x
    <3>1. (j + 1) + 1 = j + 2
      <4> HIDE DEF j
      <4> QED  BY <1>2
    <3> QED  BY <1>4, <1>5, <2>1, <3>1
  <2> QED  BY <2>1, <2>2, <2>3
<1>12. "h" # "l" /\ "t" # "l" /\ "j" # "l" /\ "z" # "l" /\ "t" # "h" /\ "j" # "h" /\ "z" # "h"
  OBVIOUS
<1>13. CASE l = <<"h">>
  <2>1. len = 1 /\ Char(at) = "h" /\ Char(at + 1) # "h"
    BY <1>10, <1>13 DEF LengthChars
  <2>2. flags' = flags \union {"SHORT"} /\ at' = at + 1
    BY <2>1 DEF Length
  <2> QED  BY <1>7, <1>13, <2>1, <2>2, LengthFlagsOf
<1>14. CASE l = <<"h", "h">>
  <2>1. len = 2 /\ Char(at) = "h" /\ Char(at + 1) = "h"
    BY <1>11, <1>14 DEF LengthChars
  <2>2. flags' = flags \union {"SHORT", "CHAR"} /\ at' = at + 2
    BY <2>1 DEF Length
  <2> QED  BY <1>7, <1>14, <2>1, <2>2, LengthFlagsOf
<1>15. CASE l = <<"l">>
  <2>1. len = 1 /\ Char(at) = "l" /\ Char(at + 1) # "l"
    BY <1>10, <1>15 DEF LengthChars
  <2>2. flags' = flags \union {"LONG"} /\ at' = at + 1
    BY <2>1 DEF Length
  <2> QED  BY <1>7, <1>15, <2>1, <2>2, LengthFlagsOf DEF LengthChars
<1>16. CASE l = <<"l", "l">>
  <2>1. len = 2 /\ Char(at) = "l" /\ Char(at + 1) = "l"
    BY <1>11, <1>16 DEF LengthChars
  <2>2. flags' = flags \union {"LONG"} /\ at' = at + 2
    BY <2>1 DEF Length
  <2> QED  BY <1>7, <1>16, <2>1, <2>2, LengthFlagsOf DEF LengthChars
<1>17. ASSUME NEW x \in {"j", "z", "t"}, l = <<x>> PROVE AtSpecifier(d, b, a)'
  <2>1. len = 1 /\ Char(at) = x
    BY <1>10, <1>17 DEF LengthChars
  <2>2. flags' = flags \union {"LONG"} /\ at' = at + 1
    BY <1>17, <2>1 DEF Length
  <2>3. LengthFlags(<<x>>) = {"LONG"}
    BY <1>17, LengthFlagsOf DEF LengthChars
  <2> QED  BY <1>7, <1>17, <2>1, <2>2, <2>3
<1>18. l \in Lengths
  BY DEF Facts, WellFormed
<1> HIDE DEF l
<1> QED  BY <1>9, <1>13, <1>14, <1>15, <1>16, <1>17, <1>18 DEF Lengths

-----------------------------------------------------------------------------
(* What a directive puts out *)

LEMMA PrecisionFacts ==
  ASSUME NEW d, Facts(d)
  PROVE  IF d.precision.text = <<>> THEN d.precision.n = -1 ELSE d.precision.n \in Nat
<1> DEFINE f == d.precision  t == f.text
<1>1. IsPrecision(f)
  BY DEF Facts, WellFormed
<1>2. CASE f = Field(<<>>, -1)
  BY <1>2 DEF Field
<1>3. CASE f = Field(<<".">>, 0)
  <2>1. t = <<".">> /\ f.n = 0
    BY <1>3 DEF Field
  <2>2. Len(<<".">>) = 1 /\ Len(<<>>) = 0
    BY EmptySeq
  <2> QED  BY <2>1, <2>2
<1>4. CASE t = <<".", "*">> /\ f.n \in Ints \cap Nat
  <2>1. Len(<<".", "*">>) = 2 /\ Len(<<>>) = 0
    BY EmptySeq
  <2> QED  BY <1>4, <2>1
<1>5. CASE t \in Seq(STRING) \ {<<>>} /\ t[1] = "." /\ IsDecimal(Tail(t), f.n)
  <2>1. f.n \in Nat
    BY <1>5, DecimalRead
  <2> QED  BY <1>5, <2>1
<1> QED  BY <1>1, <1>2, <1>3, <1>4, <1>5 DEF IsPrecision

LEMMA FlagFacts ==
  ASSUME NEW d, Facts(d)
  PROVE  /\ "LEFT" \in FlagsOf(d) <=> OnTheLeft(d)
         /\ "PRECISION" \in FlagsOf(d) <=> d.precision.text # <<>>
<1>1. d.flags \in Seq(DOMAIN FlagOf)
  BY DEF Facts, WellFormed
<1>2. \A k \in DOMAIN d.flags : d.flags[k] \in {"0", "-", "+", " ", "#"}
  <2>1. DOMAIN d.flags = 1 .. Len(d.flags) /\ \A k \in 1 .. Len(d.flags) : d.flags[k] \in DOMAIN FlagOf
    BY <1>1, ElementOfSeq
  <2> QED  BY <2>1, Strings
<1>3. \A x \in {"0", "-", "+", " ", "#"} : /\ FlagOf[x] = "LEFT" <=> x = "-"
                                          /\ FlagOf[x] # "PRECISION"
  BY DEF FlagOf
<1>4. "LEFT" \in FlagsSpelled(d) <=> Has(d, "-")
  BY <1>2, <1>3 DEF FlagsSpelled, Has
<1>5. "PRECISION" \notin FlagsSpelled(d)
  BY <1>2, <1>3 DEF FlagsSpelled
<1>6. LengthFlags(d.length) \subseteq {"SHORT", "CHAR", "LONG"}
  BY DEF LengthFlags
<1>7. "LEFT" \in FlagsOf(d) <=> OnTheLeft(d)
  BY <1>4, <1>6 DEF FlagsOf, OnTheLeft
<1>8. "PRECISION" \in FlagsOf(d) <=> d.precision.text # <<>>
  BY <1>5, <1>6 DEF FlagsOf
<1> QED  BY <1>7, <1>8

LEMMA JustifyAligned ==
  ASSUME NEW d, Facts(d), NEW text
  PROVE  Justify(text, FlagsOf(d), Abs(d.width.n)) = Aligned(d, text)
<1>1. CASE OnTheLeft(d)
  <2>1. "LEFT" \in FlagsOf(d)
    BY <1>1, FlagFacts
  <2> QED  BY <1>1, <2>1, Zenon DEF Justify, Aligned, Pad
<1>2. CASE ~OnTheLeft(d)
  <2>1. "LEFT" \notin FlagsOf(d)
    BY <1>2, FlagFacts
  <2> QED  BY <1>2, <2>1, Zenon DEF Justify, Aligned
<1> QED  BY <1>1, <1>2

LEMMA SpecifierText ==
  ASSUME NEW c \in Calls, call = c, NEW n, NEW d, NEW b, NEW a, Reading(c, n, d, b, a), Facts(d), Converts(d),
         AtSpecifier(d, b, a), Integer \/ Character \/ String \/ Pointer \/ Other
  PROVE  Converted(Means(d), OwnCount(d))
<1> DEFINE q == ToSpecifier(d)  i == Stars(d)  s == d.specifier
<1>1. /\ at = b + 1 + q /\ arg = a + 1 + i /\ flags = FlagsOf(d)
      /\ width = Abs(d.width.n) /\ precision = PrecisionOf(d) /\ phase = "specifier"
  BY DEF AtSpecifier, Placed
<1>2. q \in 0 .. Len(Spelled(d)) - 1 /\ Spelled(d)[q + 1] = s
  <2>1. q \in 1 .. Len(Spelled(d)) - 1
    BY Places
  <2>2. Spelled(d)[q + 1] = s
    BY DEF Facts, Layout
  <2> HIDE DEF q
  <2> QED  BY <2>1, <2>2
<1>3. Char(at) = s
  <2>1. Char(at) = Spelled(d)[q + 1]
    <3> HIDE DEF q
    <3> QED  BY <1>1, <1>2, CharHere
  <2> QED  BY <1>2, <2>1
<1>4. ASSUME s # "%" PROVE Va_arg = d.arg /\ OwnCount(d) = 1
  <2>1. OwnCount(d) = 1
    BY <1>4 DEF OwnCount
  <2>2. /\ Len(Arguments(d)) = i + 1 /\ Arguments(d)[i + 1] = d.arg
    BY <1>4, <2>1 DEF Facts, Takes, Stars
  <2>3. i \in Nat
    BY DEF Stars, StarCount
  <2> HIDE DEF i
  <2>4. i \in 0 .. Len(Arguments(d)) - 1
    BY <2>2, <2>3
  <2>5. call.args[arg] = Arguments(d)[i + 1]
    BY <1>1, <2>4, ArgumentHere
  <2> QED  BY <2>1, <2>2, <2>5 DEF Va_arg
<1>5. s \in DOMAIN Base \union {"c", "s", "p", "%"}
  BY DEF Facts, WellFormed
<1>6. DOMAIN Base = {"d", "i", "u", "x", "X", "o", "b"}
  BY Strings
<1>7. CASE s \in DOMAIN Base
  <2>1. Integer
    BY <1>3, <1>6, <1>7 DEF Character, String, Pointer, Other, At
  <2>2. Va_arg = d.arg /\ OwnCount(d) = 1
    BY <1>4, <1>6, <1>7
  <2>3. Means(d) = NumberText(d)
    BY <1>7, Strings DEF Means
  <2>4. IntegerText(s, d.arg.n, FlagsOf(d), Abs(d.width.n), PrecisionOf(d)) = NumberText(d)
    BY <1>7 DEF Converts
  <2>5. Converted(IntegerText(s, d.arg.n, FlagsOf(d), Abs(d.width.n), PrecisionOf(d)), 1)
    BY <1>1, <1>3, <2>1, <2>2, Zenon DEF Integer
  <2> QED  BY <2>2, <2>3, <2>4, <2>5, Zenon
<1>8. CASE s = "c"
  <2>1. Character
    BY <1>3, <1>6, <1>8 DEF Integer, String, Pointer, Other, At
  <2>2. Va_arg = d.arg /\ OwnCount(d) = 1
    BY <1>4, <1>8
  <2>3. Means(d) = Aligned(d, d.arg.text)
    BY <1>8 DEF Means, Base
  <2>4. Justify(d.arg.text, FlagsOf(d), Abs(d.width.n)) = Aligned(d, d.arg.text)
    BY JustifyAligned, Zenon
  <2>5. Converted(Justify(d.arg.text, FlagsOf(d), Abs(d.width.n)), 1)
    BY <1>1, <2>1, <2>2, Zenon DEF Character
  <2> QED  BY <2>2, <2>3, <2>4, <2>5, Zenon
<1>9. CASE s = "s"
  <2>1. String
    BY <1>3, <1>6, <1>9 DEF Integer, Character, Pointer, Other, At
  <2>2. Va_arg = d.arg /\ OwnCount(d) = 1
    BY <1>4, <1>9
  <2> DEFINE text == d.arg.text  p == d.precision.n
             t == IF p < 0 THEN text ELSE SubSeq(text, 1, Min2(Len(text), p))
  <2>3. Means(d) = Aligned(d, t)
    BY <1>9 DEF Means, Base
  <2>4. Converted(StringText(text, FlagsOf(d), Abs(d.width.n), PrecisionOf(d)), 1)
    BY <1>1, <2>1, <2>2, Zenon DEF String
  <2> DEFINE m == IF "PRECISION" \in FlagsOf(d) THEN Min2(Len(text), PrecisionOf(d)) ELSE Len(text)
  <2>5. SubSeq(text, 1, m) = t
    <3>1. CASE d.precision.text = <<>>
      <4>1. p < 0 /\ "PRECISION" \notin FlagsOf(d)
        BY <3>1, PrecisionFacts, FlagFacts
      <4>2. m = Len(text) /\ t = text
        BY <4>1
      <4>3. text \in Seq(STRING)
        BY DEF Facts, WellFormed
      <4> HIDE DEF m, t, text
      <4>4. SubSeq(text, 1, Len(text)) = text
        BY <4>3, SubSeqFull
      <4> QED  BY <4>2, <4>4
    <3>2. CASE d.precision.text # <<>>
      <4>1. p \in Nat /\ "PRECISION" \in FlagsOf(d)
        BY <3>2, PrecisionFacts, FlagFacts
      <4>2. PrecisionOf(d) = p /\ ~(p < 0)
        BY <4>1 DEF PrecisionOf
      <4> QED  BY <4>1, <4>2, Zenon
    <3> QED  BY <3>1, <3>2
  <2>6. StringText(text, FlagsOf(d), Abs(d.width.n), PrecisionOf(d)) = Justify(t, FlagsOf(d), Abs(d.width.n))
    BY <2>5, Zenon DEF StringText
  <2>7. Justify(t, FlagsOf(d), Abs(d.width.n)) = Aligned(d, t)
    BY JustifyAligned, Zenon
  <2> QED  BY <2>2, <2>3, <2>4, <2>6, <2>7, Zenon
<1>10. CASE s = "p"
  <2>1. Pointer
    BY <1>3, <1>6, <1>10 DEF Integer, Character, String, Other, At
  <2>2. Va_arg = d.arg /\ OwnCount(d) = 1
    BY <1>4, <1>10
  <2>3. Means(d) = PointerMeans(d)
    BY <1>10 DEF Means, Base
  <2>4. PointerText(d.arg.n, FlagsOf(d), PrecisionOf(d)) = PointerMeans(d)
    BY <1>10 DEF Converts
  <2>5. Converted(PointerText(d.arg.n, FlagsOf(d), PrecisionOf(d)), 1)
    BY <1>1, <2>1, <2>2, Zenon DEF Pointer
  <2> QED  BY <2>2, <2>3, <2>4, <2>5, Zenon
<1>11. CASE s = "%"
  <2>1. Other
    BY <1>3, <1>6, <1>11 DEF Integer, Character, String, Pointer, At
  <2>2. OwnCount(d) = 0
    BY <1>11 DEF OwnCount
  <2>3. Means(d) = <<"%">>
    BY <1>11 DEF Means, Base
  <2>4. Converted(<<"%">>, 0)
    BY <1>3, <1>11, <2>1, Zenon DEF Other
  <2> QED  BY <2>2, <2>3, <2>4, Zenon
<1> QED  BY <1>5, <1>7, <1>8, <1>9, <1>10, <1>11

-----------------------------------------------------------------------------
(* The invariant: what n directives print has come out, and the next is read *)

AtText(c, n) == phase = "text" /\ Placed(Len(Upto(c, Spelling, n)), Len(Upto(c, Passing, n)), 0, 0)

InField(d, b, a) ==
  AtFlags(d, b, a) \/ AtWidth(d, b, a) \/ AtPrecision(d, b, a) \/ AtLength(d, b, a) \/ AtSpecifier(d, b, a)

Within(c, n) ==
  n # Len(ListOf(c)) /\ \E d, b, a : Reading(c, n, d, b, a) /\ d.specifier # "text" /\ InField(d, b, a)

Stage(c, n) ==
  \/ AtText(c, n)
  \/ Within(c, n)
  \/ phase = "return" /\ n = Len(ListOf(c))

Traced(c) == \E n \in 0 .. Len(ListOf(c)) : Emitted(c, Upto(c, Meaning, n)) /\ Stage(c, n)

PrintsInv == \E c \in Calls : call = c /\ Traced(c)

\* All of the directives are the call.
LEMMA UptoAll ==
  ASSUME NEW c \in Calls
  PROVE  LET n == Len(ListOf(c))
         IN  n \in Nat /\ Upto(c, Spelling, n) = c.format /\ Upto(c, Passing, n) = c.args
               /\ Upto(c, Meaning, n) = c.means
<1> DEFINE ds == ListOf(c)
<1>1. /\ ds \in Seq(Directives) /\ c.format = FlattenSeq(Each(Spelling, ds))
      /\ c.args = FlattenSeq(Each(Passing, ds)) /\ c.means = FlattenSeq(Each(Meaning, ds))
  BY Listed, Zenon DEF IsListed
<1>2. SubSeq(ds, 1, Len(ds)) = ds /\ Len(ds) \in Nat
  <2> HIDE DEF ds
  <2> QED  BY <1>1, SubSeqFull
<1> QED  BY <1>1, <1>2, Zenon DEF Upto

LEMMA UptoNone ==
  ASSUME NEW c \in Calls, NEW m, NEW S, m \in [Directives -> Seq(S)]
  PROVE  Upto(c, m, 0) = <<>>
<1>1. SubSeq(ListOf(c), 1, 0) = <<>>
  BY SubSeqEmpty
<1>2. FlattenSeq(Each(m, <<>>)) = <<>>
  <2>1. SubSeq(ListOf(c), 1, 0) \in Seq(Directives)
    BY <1>1, EmptySeq
  <2> QED  BY <2>1, FlattenEach
<1> QED  BY <1>1, <1>2 DEF Upto

LEMMA PrintsInit == ASSUME AllConvert, PrintfInit PROVE PrintsInv
<1> DEFINE c == call
<1>1. c \in Calls
  BY DEF PrintfInit
<1> HIDE DEF c
<1>2. /\ Upto(c, Spelling, 0) = <<>> /\ Upto(c, Passing, 0) = <<>> /\ Upto(c, Meaning, 0) = <<>>
  BY <1>1, UptoNone, SpellingType, PassingType, MeaningType
<1>3. Len(<<>>) = 0
  BY EmptySeq
<1>4. AtText(c, 0)
  BY <1>2, <1>3 DEF AtText, Placed, PrintfInit
<1>5. WithoutNul(<<>>) = <<>>
  <2> DEFINE t == [k \in DOMAIN <<>> |-> IF <<>>[k] = NUL THEN <<>> ELSE << <<>>[k]>>]
  <2>1. t = <<>>
    OBVIOUS
  <2> HIDE DEF t
  <2>2. FlattenSeq(<<>>) = <<>>
    <3>1. FlattenSeq(Each(Meaning, <<>>)) = <<>>
      <4>1. ListOf(c) \in Seq(Directives)
        BY <1>1, Listed DEF IsListed
      <4> QED  BY <4>1, FlattenEach, MeaningType
    <3>2. Each(Meaning, <<>>) = <<>>
      BY DEF Each
    <3> QED  BY <3>1, <3>2
  <2> QED  BY <2>1, <2>2, Zenon DEF WithoutNul, t
<1>6. Emitted(c, Upto(c, Meaning, 0))
  <2>1. Extent \in Nat
    BY SizesAssumption
  <2> QED  BY <1>2, <1>3, <1>5, <2>1 DEF Emitted, PrintfInit
<1>7. 0 \in 0 .. Len(ListOf(c))
  BY <1>1, UptoAll
<1>8. Traced(c)
  BY <1>4, <1>6, <1>7, Zenon DEF Traced, Stage
<1> QED  BY <1>1, <1>8, Zenon DEF PrintsInv, c

LEMMA EmittedStill ==
  ASSUME NEW c, NEW past, Emitted(c, past), UNCHANGED <<idx, buffer, given>>
  PROVE  Emitted(c, past)'
BY DEF Emitted

\* A NUL at the end changes nothing that counts.
LEMMA EmittedTerminated ==
  ASSUME NEW c \in Calls, call = c, NEW S, NEW past \in Seq(S), Emitted(c, past), Terminate
  PROVE  Emitted(c, past)'
<1> DEFINE last == IF idx < c.maxlen THEN idx ELSE (c.maxlen - 1) % (SizeMax + 1)
<1>1. idx = Len(past) /\ idx \in Nat /\ c.maxlen \in Nat /\ c.maxlen <= SizeMax /\ SizeMax \in Nat /\ Extent \in Nat
      /\ DOMAIN buffer = 0 .. Extent - 1
  BY CallType, SizesAssumption DEF Emitted
<1>2. /\ UNCHANGED <<idx, given>>
      /\ buffer' = IF c.sink = "buffer" /\ last < c.maxlen THEN [buffer EXCEPT ![last] = NUL] ELSE buffer
  BY DEF Terminate
<1>3. ~(idx < c.maxlen) /\ c.maxlen # 0 => last = c.maxlen - 1
  <2> DEFINE m == c.maxlen - 1  s == SizeMax + 1
  <2>1. ASSUME ~(idx < c.maxlen), c.maxlen # 0 PROVE m % s = m
    <3>1. m \in 0 .. s - 1 /\ s \in Nat \ {0}
      BY <1>1, <2>1
    <3> HIDE DEF m, s
    <3> QED  BY <3>1, SmallMod
  <2> QED  BY <2>1
<1>4. ASSUME NEW k \in 0 .. Extent - 1, k < idx, k < c.maxlen - 1 PROVE k # last
  <2>1. CASE idx < c.maxlen
    BY <1>1, <1>4, <2>1
  <2>2. CASE ~(idx < c.maxlen)
    <3>1. last = c.maxlen - 1
      <4> HIDE DEF last
      <4> QED  BY <1>1, <1>3, <1>4, <2>2
    <3> HIDE DEF last
    <3> QED  BY <1>1, <1>4, <3>1
  <2> QED  BY <2>1, <2>2
<1> HIDE DEF last
<1>5. DOMAIN buffer' = 0 .. Extent - 1
  BY <1>1, <1>2
<1>6. ASSUME NEW k \in 0 .. Extent - 1, k < idx, k < c.maxlen - 1 PROVE buffer'[k] = buffer[k]
  <2>1. k # last /\ k \in DOMAIN buffer
    BY <1>1, <1>4, <1>6
  <2> QED  BY <1>2, <2>1
<1> QED  BY <1>2, <1>5, <1>6 DEF Emitted

\* What text and what is not begins with
LEMMA CharNext ==
  ASSUME NEW c \in Calls, call = c, NEW n, NEW d, NEW b, NEW a, Reading(c, n, d, b, a), at = b + 1
  PROVE  IF d.specifier = "text"
           THEN /\ Char(at) \notin {"%", NUL} /\ Means(d) = <<Char(at)>>
                /\ Len(Spelled(d)) = 1 /\ Len(Arguments(d)) = 0
           ELSE Char(at) = "%"
<1>1. WellFormed(d) /\ b \in Nat
  BY DEF Reading, Lies
<1>2. ASSUME 1 \in 1 .. Len(Spelled(d)) PROVE Char(at) = Spelled(d)[1]
  <2> DEFINE j == 0
  <2>0. Len(Spelled(d)) \in Nat
    BY DEF Reading, Lies
  <2>1. j \in 0 .. Len(Spelled(d)) - 1 /\ at = b + 1 + j /\ j + 1 = 1
    BY <1>1, <1>2, <2>0
  <2> HIDE DEF j
  <2>2. Char(at) = Spelled(d)[j + 1]
    BY <2>1, CharHere
  <2> QED  BY <2>1, <2>2
<1>3. CASE d.specifier = "text"
  <2> DEFINE t == d.arg.text
  <2>1. t \in Seq(STRING) /\ Len(t) = 1 /\ t[1] \notin {"%", NUL}
    <3>1. "text" \notin DOMAIN Base \union {"c", "s", "p", "%"}
      BY Strings
    <3> QED  BY <1>1, <1>3, <3>1 DEF WellFormed
  <2>2. Spelled(d) = t
    BY <1>3 DEF Spelled
  <2>3. Means(d) = t
    BY <1>3 DEF Means, Base
  <2>4. Len(Arguments(d)) = 0
    BY <1>3, EmptySeq DEF Arguments
  <2>5. Char(at) = t[1]
    BY <1>2, <2>1, <2>2
  <2>6. t = <<t[1]>>
    <3> HIDE DEF t
    <3>1. <<t[1]>> \in Seq(STRING) /\ Len(<<t[1]>>) = 1 /\ <<t[1]>>[1] = t[1]
      BY <2>1
    <3> QED  BY <2>1, <3>1, SeqEqual
  <2> QED  BY <1>3, <2>1, <2>2, <2>3, <2>4, <2>5, <2>6
<1>4. CASE d.specifier # "text"
  <2>1. Parts(d) /\ Layout(d)
    BY <1>1, <1>4, PartsAreTexts, LayoutOf
  <2>2. Spelled(d)[1] = "%" /\ 1 \in 1 .. Len(Spelled(d))
    <3>1. Len(Spelled(d)) = ToSpecifier(d) + 1 /\ ToSpecifier(d) \in Nat
      <4> DEFINE f == Len(d.flags)  w == Len(d.width.text)  p == Len(d.precision.text)  l == Len(d.length)
      <4>1. f \in Nat /\ w \in Nat /\ p \in Nat /\ l \in Nat /\ Len(Spelled(d)) = ToSpecifier(d) + 1
        BY <2>1 DEF Layout
      <4>2. ToSpecifier(d) = 1 + f + w + p + l
        BY DEF ToSpecifier, ToLength, ToPrecision, ToWidth
      <4> HIDE DEF f, w, p, l
      <4> QED  BY <4>1, <4>2
    <3> QED  BY <2>1, <3>1 DEF Layout
  <2> QED  BY <1>2, <1>4, <2>2
<1> QED  BY <1>3, <1>4

\* A directive has put out what it means.
LEMMA DirectiveDone ==
  ASSUME AllConvert, NEW c \in Calls, call = c, NEW n \in 0 .. Len(ListOf(c)), n # Len(ListOf(c)),
         NEW d, NEW b, NEW a, Reading(c, n, d, b, a), Read(c, n, d, b, a), Emitted(c, Upto(c, Meaning, n)),
         Out(Means(d)), phase' = "text", call' = call,
         at' = b + 1 + Len(Spelled(d)), arg' = a + 1 + Len(Arguments(d))
  PROVE  call' = c /\ Traced(c)'
<1> DEFINE past == Upto(c, Meaning, n)  text == Means(d)  N == Len(ListOf(c))
<1>1. N \in Nat
  BY UptoAll
<1>2. n + 1 \in 0 .. N
  BY <1>1
<1>3. Upto(c, Meaning, n) \in Seq(Printed) /\ Means(d) \in Seq(Printed)
  <2>1. d \in Directives /\ d = ListOf(c)[n + 1]
    BY DEF Reading
  <2>2. Upto(c, Meaning, n) \in Seq(Printed) /\ Meaning[ListOf(c)[n + 1]] \in Seq(Printed)
    BY EachNext, MeaningType, Zenon
  <2>3. Meaning[d] = Means(d)
    BY <2>1 DEF Meaning
  <2> QED  BY <2>1, <2>2, <2>3
<1>4. Emitted(c, past \o text)'
  <2> HIDE DEF past, text
  <2>1. past \in Seq(Printed) /\ text \in Seq(Printed) /\ Emitted(c, past) /\ Out(text)
    BY <1>3 DEF past, text
  <2> QED  BY <2>1, EmittedMore
<1>5. Upto(c, Meaning, n + 1) = past \o text
  BY Zenon DEF Read
<1>6. Emitted(c, Upto(c, Meaning, n + 1))'
  BY <1>4, <1>5
<1>7. AtText(c, n + 1)'
  <2> DEFINE p == Len(Upto(c, Spelling, n + 1))  q == Len(Upto(c, Passing, n + 1))
             s == Len(Spelled(d))  t == Len(Arguments(d))
  <2>1. p = b + s /\ q = a + t /\ s \in Nat /\ t \in Nat /\ b \in Nat /\ a \in Nat
        /\ at' = b + 1 + s /\ arg' = a + 1 + t
    BY DEF Read, Reading, Lies
  <2> HIDE DEF p, q, s, t
  <2>2. at' = p + 1 + 0 /\ arg' = q + 1 + 0
    BY <2>1
  <2> QED  BY <2>2 DEF AtText, Placed, p, q
<1>8. Stage(c, n + 1)'
  BY <1>7 DEF Stage
<1> QED  BY <1>2, <1>6, <1>8, Zenon DEF Traced

\* No text comes out while the fields of a directive are read.
LEMMA StillRead ==
  ASSUME NEW c, call = c, NEW n \in 0 .. Len(ListOf(c)), n # Len(ListOf(c)),
         NEW d, NEW b, NEW a, Reading(c, n, d, b, a), d.specifier # "text", Emitted(c, Upto(c, Meaning, n)),
         UNCHANGED <<call, idx, buffer, given>>, InField(d, b, a)'
  PROVE  call' = c /\ Traced(c)'
<1>1. Emitted(c, Upto(c, Meaning, n))'
  BY EmittedStill
<1>2. Within(c, n)'
  BY DEF Within
<1> QED  BY <1>1, <1>2, Zenon DEF Traced, Stage

LEMMA PrintsNext == ASSUME AllConvert, PrintsInv, PrintfNext PROVE PrintsInv'
<1>1. PICK c \in Calls : call = c /\ Traced(c)
  BY DEF PrintsInv
<1>2. PICK n \in 0 .. Len(ListOf(c)) : Emitted(c, Upto(c, Meaning, n)) /\ Stage(c, n)
  BY <1>1 DEF Traced
<1> SUFFICES call' = c /\ Traced(c)'
  BY Zenon DEF PrintsInv
<1>3. CASE phase = "return"
  BY <1>3, PhaseActions
<1>4. CASE AtText(c, n) /\ n = Len(ListOf(c))
  <2>1. phase = "text" /\ at = Len(c.format) + 1
    <3>1. Upto(c, Spelling, n) = c.format /\ Len(c.format) \in Nat
      BY <1>1, <1>4, UptoAll, CallType
    <3>2. phase = "text" /\ at = Len(c.format) + 1 + 0
      BY <1>4, <3>1 DEF AtText, Placed
    <3> QED  BY <3>1, <3>2
  <2>2. Char(at) = NUL
    <3>1. Len(c.format) \in Nat
      BY <1>1, CallType
    <3> QED  BY <1>1, <2>1, <3>1 DEF Char
  <2>3. Terminate
    BY <2>1, <2>2, PhaseActions DEF Text, Percent, At, NUL
  <2>4. Emitted(c, Upto(c, Meaning, n))'
    <3> DEFINE past == Upto(c, Meaning, n)
    <3>1. past \in Seq(Printed)
      BY Listed, FlattenTo, MeaningType, Zenon DEF IsListed, Upto
    <3>2. Emitted(c, past)
      BY <1>2
    <3> HIDE DEF past
    <3>3. Emitted(c, past)'
      BY <1>1, <2>3, <3>1, <3>2, EmittedTerminated
    <3> QED  BY <3>3 DEF past
  <2>5. call' = call /\ phase' = "return"
    BY <2>3 DEF Terminate
  <2>6. Stage(c, n)'
    BY <1>4, <2>5 DEF Stage
  <2>7. call' = c
    BY <1>1, <2>5
  <2> QED  BY <1>2, <2>4, <2>6, <2>7, Zenon DEF Traced
<1>5. CASE AtText(c, n) /\ n # Len(ListOf(c))
  <2>1. PICK d, b, a : Reading(c, n, d, b, a) /\ Read(c, n, d, b, a)
    BY <1>5, ReadingOf
  <2>2. phase = "text" /\ at = b + 1 /\ arg = a + 1 /\ b \in Nat /\ a \in Nat
    BY <1>5, <2>1 DEF AtText, Placed, Reading, Lies
  <2>3. CASE d.specifier = "text"
    <3>1. /\ Char(at) \notin {"%", NUL} /\ Means(d) = <<Char(at)>> /\ Len(Spelled(d)) = 1 /\ Len(Arguments(d)) = 0
      BY <1>1, <2>1, <2>2, <2>3, CharNext
    <3>2. Text
      BY <2>2, <3>1, PhaseActions DEF Percent, Terminate, At, NUL
    <3>3. Out(Means(d)) /\ phase' = "text" /\ call' = call /\ at' = at + 1 /\ arg' = arg
      BY <2>2, <3>1, <3>2 DEF Text
    <3>4. at' = b + 1 + Len(Spelled(d)) /\ arg' = a + 1 + Len(Arguments(d))
      BY <2>2, <3>1, <3>3
    <3> QED  BY <1>1, <1>2, <1>5, <2>1, <3>3, <3>4, DirectiveDone
  <2>4. CASE d.specifier # "text"
    <3>1. Char(at) = "%"
      BY <1>1, <2>1, <2>2, <2>4, CharNext
    <3>2. Percent
      BY <2>2, <3>1, PhaseActions DEF Text, Terminate, At, NUL
    <3>3. /\ at' = at + 1 /\ phase' = "flags" /\ flags' = {} /\ width' = 0 /\ precision' = 0
          /\ UNCHANGED <<call, arg, idx, buffer, given>>
      BY <3>2 DEF Percent
    <3>4. FirstFlags(d, 0) = {} /\ 0 \in 0 .. Len(d.flags)
      <4>1. Facts(d)
        BY <2>1, <2>4, FactsOf
      <4>2. Len(d.flags) \in Nat
        BY <4>1, Places
      <4> QED  BY <4>2 DEF FirstFlags
    <3>5. Placed(b, a, 1 + 0, 0)'
      BY <2>2, <3>3 DEF Placed
    <3>6. AtFlags(d, b, a)'
      BY <3>3, <3>4, <3>5 DEF AtFlags
    <3>7. InField(d, b, a)'
      BY <3>6 DEF InField
    <3> QED  BY <1>1, <1>2, <1>5, <2>1, <2>4, <3>3, <3>7, StillRead
  <2> QED  BY <2>3, <2>4
<1>6. CASE Within(c, n)
  <2>1. PICK d, b, a : Reading(c, n, d, b, a) /\ d.specifier # "text" /\ InField(d, b, a)
    BY <1>6 DEF Within
  <2>2. n # Len(ListOf(c)) /\ Facts(d) /\ b \in Nat /\ a \in Nat
    <3>1. n # Len(ListOf(c))
      BY <1>6 DEF Within
    <3>2. Facts(d)
      BY <2>1, FactsOf
    <3>3. b \in Nat /\ a \in Nat
      BY <2>1 DEF Reading, Lies
    <3> QED  BY <3>1, <3>2, <3>3
  <2>3. ASSUME InField(d, b, a)', UNCHANGED <<call, idx, buffer, given>>
        PROVE  call' = c /\ Traced(c)'
    BY <1>1, <1>2, <2>1, <2>2, <2>3, StillRead
  <2>4. CASE AtFlags(d, b, a)
    <3>1. Flag
      BY <2>4, PhaseActions DEF AtFlags
    <3>2. InField(d, b, a)'
      BY <1>1, <2>1, <2>2, <2>4, <3>1, FlagStep DEF InField
    <3>3. UNCHANGED <<call, idx, buffer, given>>
      BY <3>1 DEF Flag
    <3> QED  BY <2>3, <3>2, <3>3
  <2>5. CASE AtWidth(d, b, a)
    <3>1. Width \/ WidthStar
      BY <2>5, PhaseActions DEF AtWidth
    <3>2. InField(d, b, a)'
      BY <1>1, <2>1, <2>2, <2>5, <3>1, WidthStep DEF InField
    <3>3. UNCHANGED <<call, idx, buffer, given>>
      BY <3>1 DEF Width, WidthStar
    <3> QED  BY <2>3, <3>2, <3>3
  <2>6. CASE AtPrecision(d, b, a)
    <3>1. NoPrecision \/ Precision \/ PrecisionStar
      BY <2>6, PhaseActions DEF AtPrecision
    <3>2. InField(d, b, a)'
      BY <1>1, <2>1, <2>2, <2>6, <3>1, PrecisionStep DEF InField
    <3>3. UNCHANGED <<call, idx, buffer, given>>
      BY <3>1 DEF NoPrecision, Precision, PrecisionStar
    <3> QED  BY <2>3, <3>2, <3>3
  <2>7. CASE AtLength(d, b, a)
    <3>1. Length
      BY <2>7, PhaseActions DEF AtLength
    <3>2. InField(d, b, a)'
      BY <1>1, <2>1, <2>2, <2>7, <3>1, LengthStep DEF InField
    <3>3. UNCHANGED <<call, idx, buffer, given>>
      BY <3>1 DEF Length
    <3> QED  BY <2>3, <3>2, <3>3
  <2>8. CASE AtSpecifier(d, b, a)
    <3>1. Integer \/ Character \/ String \/ Pointer \/ Other
      BY <2>8, PhaseActions DEF AtSpecifier
    <3>2. Converts(d)
      BY <2>1 DEF AllConvert, Reading
    <3>3. Converted(Means(d), OwnCount(d))
      BY <1>1, <2>1, <2>2, <2>8, <3>1, <3>2, SpecifierText
    <3>4. Out(Means(d)) /\ phase' = "text" /\ call' = call /\ at' = at + 1 /\ arg' = arg + OwnCount(d)
      BY <3>3 DEF Converted
    <3>5. at' = b + 1 + Len(Spelled(d)) /\ arg' = a + 1 + Len(Arguments(d))
      <4> DEFINE q == ToSpecifier(d)  s == Len(Spelled(d))  i == Stars(d)  t == Len(Arguments(d))  o == OwnCount(d)
      <4>1. at = b + 1 + q /\ arg = a + 1 + i
        BY <2>8 DEF AtSpecifier, Placed
      <4>2. s = q + 1 /\ q \in Nat
        BY <2>2, Places
      <4>3. t = i + o /\ i \in Nat /\ o \in Nat
        BY <2>2 DEF Facts, Takes, Stars, StarCount, OwnCount
      <4> HIDE DEF q, s, i, t, o
      <4>4. at' = b + 1 + s /\ arg' = a + 1 + t
        BY <2>2, <3>4, <4>1, <4>2, <4>3 DEF o
      <4> QED  BY <4>4 DEF s, t
    <3>6. Read(c, n, d, b, a)
      <4>1. PICK e, p, q : Reading(c, n, e, p, q) /\ Read(c, n, e, p, q)
        BY <2>2, ReadingOf
      <4>2. e = d /\ p = b /\ q = a
        BY <2>1, <4>1 DEF Reading
      <4> QED  BY <4>1, <4>2
    <3> QED  BY <1>1, <1>2, <2>1, <2>2, <3>4, <3>5, <3>6, DirectiveDone
  <2> QED  BY <2>1, <2>4, <2>5, <2>6, <2>7, <2>8 DEF InField
<1> QED  BY <1>2, <1>3, <1>4, <1>5, <1>6 DEF Stage

LEMMA PrintsStep == ASSUME AllConvert, PrintsInv, [PrintfNext]_printf PROVE PrintsInv'
<1>1. CASE PrintfNext
  BY <1>1, PrintsNext
<1>2. CASE UNCHANGED printf
  BY <1>2 DEF PrintsInv, Traced, Emitted, Stage, AtText, Within, InField, Placed, AtFlags, AtWidth, AtPrecision,
              AtLength, AtSpecifier, printf
<1> QED  BY <1>1, <1>2

LEMMA PrintsHolds == ASSUME AllConvert, \A c \in Calls : FitsOrEnds(c), PrintsInv PROVE Prints
<1> SUFFICES ASSUME phase = "return"
             PROVE  /\ idx = Len(call.means)
                    /\ call.sink = "buffer" =>
                         \A k \in 0 .. Min2(idx, call.maxlen - 1) - 1 : buffer[k] = call.means[k + 1]
                    /\ call.sink = "fct" => given = WithoutNul(call.means)
  BY DEF Prints
<1>1. PICK c \in Calls : call = c /\ Traced(c)
  BY DEF PrintsInv
<1>2. PICK n \in 0 .. Len(ListOf(c)) : Emitted(c, Upto(c, Meaning, n)) /\ Stage(c, n)
  BY <1>1 DEF Traced
<1>3. n = Len(ListOf(c))
  BY <1>2 DEF Stage, AtText, Within, InField, AtFlags, AtWidth, AtPrecision, AtLength, AtSpecifier
<1>4. Upto(c, Meaning, n) = c.means
  BY <1>3, UptoAll
<1>5. Emitted(c, c.means)
  BY <1>2, <1>4
<1>6. ASSUME c.sink = "buffer", NEW k \in 0 .. Min2(idx, c.maxlen - 1) - 1 PROVE buffer[k] = c.means[k + 1]
  <2>1. idx = Len(c.means) /\ idx \in Nat /\ c.maxlen \in Nat /\ Room \in Nat /\ Extent \in Nat /\ Room <= Extent
    <3>1. c.means \in Seq(Printed)
      <4>1. ListOf(c) \in Seq(Directives) /\ c.means = FlattenSeq(Each(Meaning, ListOf(c)))
        BY Listed, Zenon DEF IsListed
      <4>2. FlattenSeq(Each(Meaning, ListOf(c))) \in Seq(Printed)
        BY <4>1, FlattenEach, MeaningType
      <4> QED  BY <4>1, <4>2
    <3>2. Len(c.means) \in Nat
      BY <3>1
    <3> QED  BY <1>1, <1>5, <3>2, CallType, SizesAssumption DEF Emitted
  <2>2. c.maxlen <= Room \/ Len(c.means) < Room
    BY <1>6 DEF FitsOrEnds
  <2>3. k \in 0 .. Extent - 1 /\ k < idx /\ k < c.maxlen - 1
    BY <1>6, <2>1, <2>2 DEF Min2
  <2> QED  BY <1>5, <1>6, <2>3 DEF Emitted
<1>7. c.sink = "fct" => given = WithoutNul(c.means)
  BY <1>5 DEF Emitted
<1>8. idx = Len(c.means)
  BY <1>5 DEF Emitted
<1> QED  BY <1>1, <1>6, <1>7, <1>8

LEMMA PrintsAlways == ASSUME AllConvert, \A c \in Calls : FitsOrEnds(c) PROVE PrintfSpec => []Prints
<1>1. PrintfInit => PrintsInv
  BY PrintsInit
<1>2. PrintsInv /\ [PrintfNext]_printf => PrintsInv'
  BY PrintsStep
<1>3. PrintsInv => Prints
  BY PrintsHolds
<1> QED  BY <1>1, <1>2, <1>3, PTL DEF PrintfSpec

-----------------------------------------------------------------------------
(* Texts that are turned round, filled up and cut *)

\* At least 0
Pos(n) == IF n > 0 THEN n ELSE 0

LEMMA FillSeq ==
  ASSUME NEW S, NEW c \in S, NEW n \in Int
  PROVE  /\ Fill(c, n) \in Seq(S) /\ Len(Fill(c, n)) = Pos(n)
         /\ \A i \in 1 .. Pos(n) : Fill(c, n)[i] = c
<1> DEFINE m == Pos(n)  f == [k \in 1 .. m |-> c]
<1>1. m \in Nat /\ 1 .. n = 1 .. m
  BY DEF Pos
<1>2. Fill(c, n) = f
  BY <1>1 DEF Fill
<1> HIDE DEF m
<1>3. f \in Seq(S) /\ Len(f) = m /\ \A i \in 1 .. m : f[i] = c
  BY <1>1
<1> QED  BY <1>2, <1>3 DEF m

\* What has the length and the characters of a fill is it.
LEMMA IsFill ==
  ASSUME NEW S, NEW c \in S, NEW n \in Int, NEW s \in Seq(S), Len(s) = Pos(n), \A i \in 1 .. Len(s) : s[i] = c
  PROVE  s = Fill(c, n)
<1>1. Fill(c, n) \in Seq(S) /\ Len(Fill(c, n)) = Pos(n) /\ \A i \in 1 .. Pos(n) : Fill(c, n)[i] = c
  BY FillSeq
<1> QED  BY <1>1, SeqEqual

LEMMA FillNone == ASSUME NEW c, NEW n \in Int, n <= 0 PROVE Fill(c, n) = <<>>
<1>1. Fill(c, n) \in Seq({c}) /\ Len(Fill(c, n)) = Pos(n)
  BY FillSeq
<1>2. Pos(n) = 0
  BY DEF Pos
<1> QED  BY <1>1, <1>2, EmptySeq

LEMMA FillReversed == ASSUME NEW c, NEW n \in Int PROVE Reverse(Fill(c, n)) = Fill(c, n)
<1> DEFINE f == Fill(c, n)  m == Pos(n)
<1>1. f \in Seq({c}) /\ Len(f) = m /\ \A i \in 1 .. m : f[i] = c
  BY FillSeq
<1>2. m \in Nat
  BY DEF Pos
<1>3. Reverse(f) \in Seq({c}) /\ Len(Reverse(f)) = m /\ \A i \in 1 .. m : Reverse(f)[i] = f[m - i + 1]
  <2> HIDE DEF f
  <2> QED  BY <1>1, Reversed
<1>4. \A i \in 1 .. m : Reverse(f)[i] = c
  <2> TAKE i \in 1 .. m
  <2>1. m - i + 1 \in 1 .. m
    BY <1>2
  <2> QED  BY <1>1, <1>3, <2>1
<1>5. Len(Reverse(f)) = Pos(n) /\ \A i \in 1 .. Len(Reverse(f)) : Reverse(f)[i] = c
  BY <1>3, <1>4
<1> QED  BY <1>3, <1>5, IsFill

\* Fills add up.
LEMMA FillMore ==
  ASSUME NEW c, NEW m \in Nat, NEW n \in Nat PROVE Fill(c, m) \o Fill(c, n) = Fill(c, m + n)
<1> DEFINE f == Fill(c, m)  g == Fill(c, n)  fg == f \o g
<1>1. /\ f \in Seq({c}) /\ Len(f) = m /\ \A i \in 1 .. m : f[i] = c
  <2>1. Pos(m) = m
    BY DEF Pos
  <2> QED  BY <2>1, FillSeq
<1>2. /\ g \in Seq({c}) /\ Len(g) = n /\ \A i \in 1 .. n : g[i] = c
  <2>1. Pos(n) = n
    BY DEF Pos
  <2> QED  BY <2>1, FillSeq
<1> HIDE DEF f, g
<1>3. /\ fg \in Seq({c}) /\ Len(fg) = m + n
  <2>1. Joins({c}, f, g)
    BY <1>1, <1>2, Joined
  <2> QED  BY <1>1, <1>2, <2>1 DEF Joins
<1>4. \A i \in 1 .. Len(fg) : fg[i] = c
  <2> HIDE DEF fg
  <2> QED  BY <1>3
<1>5. Len(fg) = Pos(m + n) /\ m + n \in Int
  <2> HIDE DEF fg
  <2> QED  BY <1>3 DEF Pos
<1>6. fg = Fill(c, m + n)
  <2> HIDE DEF fg
  <2> QED  BY <1>3, <1>4, <1>5, IsFill
<1> QED  BY <1>6 DEF fg, f, g

LEMMA FillOne == ASSUME NEW c PROVE Fill(c, 1) = <<c>>
<1>1. <<c>> \in Seq({c}) /\ Len(<<c>>) = 1 /\ \A i \in 1 .. Len(<<c>>) : <<c>>[i] = c
  OBVIOUS
<1>2. Pos(1) = 1
  BY DEF Pos
<1>3. 1 \in Int /\ Len(<<c>>) = Pos(1) /\ c \in {c}
  BY <1>1, <1>2
<1> DEFINE t == <<c>>  n == 1
<1>4. t \in Seq({c}) /\ n \in Int /\ Len(t) = Pos(n) /\ c \in {c} /\ \A i \in 1 .. Len(t) : t[i] = c
  BY <1>1, <1>3
<1> HIDE DEF t, n
<1>5. t = Fill(c, n)
  BY <1>4, IsFill
<1> QED  BY <1>5 DEF t, n

LEMMA CutNothing == ASSUME NEW S, NEW s \in Seq(S), Len(s) <= B PROVE Cut(s) = s
<1>1. Len(s) \in Nat /\ B \in Nat
  BY SizesAssumption
<1>2. Min2(Len(s), B) = Len(s)
  BY <1>1 DEF Min2
<1>3. SubSeq(s, 1, Len(s)) = s
  BY SubSeqFull
<1>4. Cut(s) = SubSeq(s, 1, Min2(Len(s), B))
  BY DEF Cut
<1>5. Cut(s) = SubSeq(s, 1, Len(s))
  BY <1>2, <1>4
<1> QED  BY <1>3, <1>5

\* Digits, zeros and what comes before them, put out the other way round
Writes(S, s, z, t) ==
  LET u == (s \o Fill("0", z)) \o t
  IN  u \in Seq(S) /\ Cut(u) = u /\ Reverse(u) = (Reverse(t) \o Fill("0", z)) \o Reverse(s)

LEMMA Written ==
  ASSUME NEW S, "0" \in S, NEW s \in Seq(S), NEW t \in Seq(S), NEW z \in Int,
         Len(s) + Pos(z) + Len(t) <= B
  PROVE  Writes(S, s, z, t)
<1> DEFINE f == Fill("0", z)  sf == s \o f  u == sf \o t
<1>1. f \in Seq(S) /\ Len(f) = Pos(z) /\ Reverse(f) = f
  BY FillSeq, FillReversed
<1> HIDE DEF f
<1>2. sf \in Seq(S) /\ Len(sf) = Len(s) + Pos(z) /\ Reverse(sf) = f \o Reverse(s)
  <2>1. Joins(S, s, f)
    BY <1>1, Joined
  <2>2. Reverse(sf) = Reverse(f) \o Reverse(s)
    BY <1>1, ReverseJoined
  <2> QED  BY <1>1, <2>1, <2>2 DEF Joins
<1> HIDE DEF sf
<1>3. u \in Seq(S) /\ Len(u) = Len(s) + Pos(z) + Len(t) /\ Reverse(u) = Reverse(t) \o (f \o Reverse(s))
  <2>1. Joins(S, sf, t)
    BY <1>2, Joined
  <2>2. Reverse(u) = Reverse(t) \o Reverse(sf)
    BY <1>2, ReverseJoined
  <2> QED  BY <1>2, <2>1, <2>2 DEF Joins
<1> HIDE DEF u
<1>4. Cut(u) = u
  BY <1>3, CutNothing
<1>5. (Reverse(t) \o f) \o Reverse(s) = Reverse(t) \o (f \o Reverse(s))
  <2> DEFINE x == Reverse(t)  y == Reverse(s)
  <2>1. x \in Seq(S) /\ y \in Seq(S)
    BY Reversed
  <2> HIDE DEF x, y
  <2>2. f \in Seq(S)
    BY <1>1
  <2>3. Regroups(x, f, y)
    BY <2>1, <2>2, Regrouped
  <2>4. (x \o f) \o y = x \o (f \o y)
    BY <2>3, Zenon DEF Regroups
  <2> QED  BY <2>4 DEF x, y
<1> QED  BY <1>3, <1>4, <1>5 DEF Writes, u, sf, f

\* The first characters of a text and the zeros it is filled up with
LEMMA Shortened ==
  ASSUME NEW S, "0" \in S, NEW s \in Seq(S), NEW m \in Nat, NEW k \in Nat, k <= m
  PROVE  SubSeq(s \o Fill("0", m), 1, Len(s) + m - k) = s \o Fill("0", m - k)
<1> DEFINE f == Fill("0", m)  g == Fill("0", m - k)  sf == s \o f  sg == s \o g  n == Len(s)  l == n + m - k
           part == SubSeq(sf, 1, l)
<1>1. f \in Seq(S) /\ Len(f) = m /\ \A i \in 1 .. m : f[i] = "0"
  <2>1. Pos(m) = m
    BY DEF Pos
  <2> QED  BY <2>1, FillSeq
<1>2. g \in Seq(S) /\ Len(g) = m - k /\ \A i \in 1 .. m - k : g[i] = "0"
  <2> DEFINE j == m - k
  <2>1. Pos(j) = j /\ j \in Int
    BY DEF Pos
  <2> HIDE DEF j
  <2>2. Fill("0", j) \in Seq(S) /\ Len(Fill("0", j)) = j /\ \A i \in 1 .. j : Fill("0", j)[i] = "0"
    BY <2>1, FillSeq
  <2> QED  BY <2>2 DEF j
<1> HIDE DEF f, g
<1>3. /\ sf \in Seq(S) /\ Len(sf) = n + m /\ n \in Nat
      /\ \A i \in 1 .. n : sf[i] = s[i]
      /\ \A i \in 1 .. m : sf[n + i] = f[i]
  <2>1. Joins(S, s, f)
    BY <1>1, Joined
  <2> QED  BY <1>1, <2>1 DEF Joins
<1>4. /\ sg \in Seq(S) /\ Len(sg) = l
      /\ \A i \in 1 .. n : sg[i] = s[i]
      /\ \A i \in 1 .. m - k : sg[n + i] = g[i]
  <2>1. Joins(S, s, g)
    BY <1>2, Joined
  <2>2. n + (m - k) = l
    BY <1>3
  <2> QED  BY <1>2, <2>1, <2>2 DEF Joins
<1> HIDE DEF sf, sg
<1>5. l \in Nat /\ l <= n + m
  BY <1>3
<1>6. part \in Seq(S) /\ Len(part) = l /\ \A i \in 1 .. l : part[i] = sf[i]
  <2> HIDE DEF l
  <2>1. \A i \in 1 .. l : sf[i] \in S
    BY <1>3, <1>5
  <2>2. 1 \in Int /\ l \in Int
    BY <1>5
  <2>3. /\ SubSeq(sf, 1, l) \in Seq(S) /\ Len(SubSeq(sf, 1, l)) = (IF 1 <= l THEN l - 1 + 1 ELSE 0)
        /\ \A i \in 1 .. l - 1 + 1 : SubSeq(sf, 1, l)[i] = sf[1 + i - 1]
    BY <2>1, <2>2, SubSeqProperties
  <2> QED  BY <1>5, <2>3
<1>7. ASSUME NEW i \in 1 .. l PROVE part[i] = sg[i]
  <2>1. CASE i <= n
    <3>1. i \in 1 .. n
      BY <2>1
    <3> QED  BY <1>3, <1>4, <1>6, <3>1
  <2>2. CASE ~(i <= n)
    <3> DEFINE j == i - n
    <3>1. j \in 1 .. m - k /\ j \in 1 .. m /\ n + j = i
      BY <1>3, <2>2
    <3> HIDE DEF j
    <3>2. sf[n + j] = "0" /\ sg[n + j] = "0"
      BY <1>1, <1>2, <1>3, <1>4, <3>1
    <3> QED  BY <1>6, <3>1, <3>2
  <2> QED  BY <2>1, <2>2
<1> HIDE DEF part
<1>8. part = sg
  BY <1>4, <1>6, <1>7, SeqEqual
<1> QED  BY <1>8 DEF part, sf, sg, f, g

-----------------------------------------------------------------------------
(* The digits of a number *)

\* q is value \div p
LEMMA Quotient ==
  ASSUME NEW value \in Nat, NEW p \in Nat \ {0}, NEW q \in Nat, q * p <= value, value < (q + 1) * p
  PROVE  value \div p = q
OBVIOUS

LEMMA QuotientOf ==
  ASSUME NEW value \in Nat, NEW p \in Nat \ {0}
  PROVE  /\ value \div p \in Nat /\ (value \div p) * p <= value /\ value < ((value \div p) + 1) * p
OBVIOUS

LEMMA QuotientNext ==
  ASSUME NEW value \in Nat, NEW p \in Nat \ {0}, NEW b \in Nat \ {0}, NEW q \in Nat, q * p <= value, value < (q + 1) * p
  PROVE  LET r == q \div b
         IN r \in Nat /\ r * (b * p) <= value /\ value < (r + 1) * (b * p)
<1> DEFINE r == q \div b
<1>1. r \in Nat /\ r * b <= q /\ q + 1 <= (r + 1) * b
  BY QuotientOf
<1> HIDE DEF r
<1>2. r * b \in Nat /\ (r + 1) * b \in Nat /\ b * p \in Nat
  BY <1>1
<1>3. \A x, y \in Nat : x <= y => x * p <= y * p
  OBVIOUS
<1>4. (r * b) * p <= q * p
  BY <1>1, <1>2, <1>3
<1>5. (q + 1) * p <= ((r + 1) * b) * p
  BY <1>1, <1>2, <1>3
<1>6. (r * b) * p = r * (b * p) /\ ((r + 1) * b) * p = (r + 1) * (b * p)
  BY <1>1
<1>7. q * p \in Nat /\ (q + 1) * p \in Nat
  OBVIOUS
<1>8. r * (b * p) <= value /\ value < (r + 1) * (b * p)
  <2> DEFINE j == (r * b) * p  k == ((r + 1) * b) * p  x == q * p  y == (q + 1) * p
  <2>1. j \in Int /\ k \in Int /\ x \in Int /\ y \in Int
    BY <1>1
  <2>2. j <= x /\ x <= value /\ value < y /\ y <= k
    BY <1>4, <1>5
  <2>3. j <= value /\ value < k
    <3> HIDE DEF j, k, x, y
    <3> QED  BY <2>1, <2>2
  <2> QED  BY <1>6, <2>3
<1> QED  BY <1>1, <1>8 DEF r

IsPower(power, base) ==
  /\ power \in [0 .. B -> Nat \ {0}]
  /\ power[0] = 1 /\ \A k \in 1 .. B : power[k] = base * power[k - 1]

PowerLike(f, base) == f = [k \in 0 .. B |-> IF k = 0 THEN 1 ELSE base * f[k - 1]]

LEMMA PowerIs == ASSUME NEW base \in Nat \ {0} PROVE IsPower(Power(base), base)
<1> DEFINE step == [k \in 1 .. B |-> [v \in Nat \ {0} |-> base * v]]
           power == CHOOSE f : PowerLike(f, base)
<1>1. B \in Nat
  BY SizesAssumption
<1>2. step \in Steps(B, Nat \ {0})
  <2>1. \A v \in Nat \ {0} : base * v \in Nat \ {0}
    OBVIOUS
  <2> QED  BY <2>1 DEF Steps
<1>3. PICK g : IsFold(g, B, Nat \ {0}, 1, step)
  <2>1. 1 \in Nat \ {0}
    OBVIOUS
  <2> HIDE DEF step
  <2> QED  BY <1>1, <1>2, <2>1, Recursion
<1>4. g \in [0 .. B -> Nat \ {0}] /\ g[0] = 1 /\ \A k \in 1 .. B : g[k] = step[k][g[k - 1]]
  BY <1>3 DEF IsFold
<1>5. \A k \in 1 .. B : g[k] = base * g[k - 1]
  <2> TAKE k \in 1 .. B
  <2>1. k - 1 \in 0 .. B
    BY <1>1
  <2>2. g[k - 1] \in Nat \ {0}
    BY <1>4, <2>1
  <2> QED  BY <1>4, <2>2
<1>6. PowerLike(g, base)
  <2> HIDE DEF step
  <2> QED  BY <1>4, <1>5 DEF PowerLike
<1>7. PowerLike(power, base)
  BY <1>6
<1>8. Power(base) = power
  BY Zenon DEF Power, PowerLike
<1> HIDE DEF power
<1>9. power[0] = 1 /\ \A k \in 1 .. B : power[k] = base * power[k - 1]
  <2>1. 0 \in 0 .. B /\ \A k \in 1 .. B : k \in 0 .. B /\ k # 0
    BY <1>1
  <2> QED  BY <1>7, <2>1 DEF PowerLike
<1> DEFINE T == {k \in 0 .. B : power[k] \in Nat \ {0}}
<1>10. 0 \in T
  BY <1>1, <1>9
<1>11. ASSUME NEW k \in 0 .. B, k # B, k \in T PROVE k + 1 \in T
  <2>1. k + 1 \in 1 .. B /\ (k + 1) - 1 = k /\ k + 1 \in 0 .. B
    BY <1>1, <1>11
  <2>2. power[k + 1] = base * power[k] /\ power[k] \in Nat \ {0}
    BY <1>9, <1>11, <2>1
  <2> DEFINE a == power[k]  b == power[k + 1]
  <2> HIDE DEF a, b
  <2>3. a \in Nat \ {0} /\ b = base * a
    BY <2>2 DEF a, b
  <2>4. b \in Nat \ {0}
    BY <2>3
  <2> QED  BY <2>1, <2>4 DEF b
<1>12. \A k \in 0 .. B : k \in T
  <2> HIDE DEF T
  <2> QED  BY <1>1, <1>10, <1>11, Induction
<1>13. power \in [0 .. B -> Nat \ {0}]
  <2>1. \A k \in 0 .. B : power[k] \in Nat \ {0}
    BY <1>12
  <2> QED  BY <1>7, <2>1 DEF PowerLike
<1> QED  BY <1>8, <1>9, <1>13 DEF IsPower

LEMMA PowerGrows ==
  ASSUME NEW base \in Nat \ {0}, NEW power, IsPower(power, base), NEW i \in 0 .. B, NEW j \in i .. B
  PROVE  power[i] <= power[j]
<1> DEFINE N == j - i  T == {k \in 0 .. N : power[i] <= power[i + k]}
<1>1. B \in Nat /\ N \in Nat /\ i + N = j /\ i + 0 = i /\ \A k \in 0 .. N : i + k \in 0 .. B
  BY SizesAssumption
<1>2. power \in [0 .. B -> Nat \ {0}] /\ \A k \in 1 .. B : power[k] = base * power[k - 1]
  BY DEF IsPower
<1>3. 0 \in T
  <2>1. power[i] \in Nat /\ 0 \in 0 .. N
    BY <1>1, <1>2
  <2> QED  BY <1>1, <2>1
<1>4. ASSUME NEW k \in 0 .. N, k # N, k \in T PROVE k + 1 \in T
  <2>1. k + 1 \in 0 .. N /\ i + (k + 1) \in 1 .. B /\ (i + (k + 1)) - 1 = i + k /\ i + k \in 0 .. B
    BY <1>1, <1>4
  <2> DEFINE a == power[i + k]  b == power[i + (k + 1)]  c == power[i]
  <2>2. b = base * a /\ a \in Nat /\ c \in Nat /\ c <= a
    BY <1>2, <1>4, <2>1
  <2> HIDE DEF a, b, c
  <2>3. b \in Nat /\ a <= b
    BY <2>2
  <2>4. c <= b
    BY <2>2, <2>3
  <2> QED  BY <2>1, <2>4 DEF b, c
<1>5. \A k \in 0 .. N : k \in T
  <2> HIDE DEF T, N
  <2> QED  BY <1>1, <1>3, <1>4, Induction
<1>6. N \in 0 .. N
  BY <1>1
<1> QED  BY <1>1, <1>5, <1>6

\* The count of the digits: the least power that is more
LEMMA CountIs ==
  ASSUME NEW v \in Nat, NEW base \in Nat \ {0}, NEW m \in 1 .. B, v < Power(base)[m]
  PROVE  /\ CountOf(v, base) \in 1 .. m /\ v < Power(base)[CountOf(v, base)]
         /\ \A k \in 1 .. CountOf(v, base) - 1 : v >= Power(base)[k]
<1> DEFINE power == Power(base)
           n == CHOOSE n \in 1 .. B : v < power[n] /\ (n = 1 \/ v >= power[n - 1])
<1>1. IsPower(power, base)
  BY PowerIs
<1>2. CountOf(v, base) = n
  BY Zenon DEF CountOf
<1>9. v < power[m]
  OBVIOUS
<1> HIDE DEF power
<1>3. power \in [0 .. B -> Nat \ {0}] /\ B \in Nat
  BY <1>1, SizesAssumption DEF IsPower
<1>4. \E k \in 1 .. B : v < power[k] /\ (k = 1 \/ v >= power[k - 1])
  <2> DEFINE T == {k \in 1 .. B : v < power[k]}
  <2>1. T \in SUBSET Nat /\ m \in T
    BY <1>9
  <2>2. PICK k \in T : \A j \in T : k <= j
    <3> HIDE DEF T
    <3> QED  BY <2>1, Least
  <2>3. k = 1 \/ v >= power[k - 1]
    <3> SUFFICES ASSUME k # 1, ~(v >= power[k - 1]) PROVE FALSE
      OBVIOUS
    <3>1. k - 1 \in 1 .. B /\ power[k - 1] \in Nat
      BY <1>3
    <3>2. k - 1 \in T
      BY <3>1
    <3>3. k <= k - 1
      BY <2>2, <3>2
    <3> QED  BY <1>3, <3>3
  <2> QED  BY <2>3
<1>5. n \in 1 .. B /\ v < power[n] /\ (n = 1 \/ v >= power[n - 1])
  BY <1>4
<1> HIDE DEF n
<1>6. \A k \in 1 .. n - 1 : v >= power[k]
  <2> TAKE k \in 1 .. n - 1
  <2>1. k \in 0 .. B /\ n - 1 \in k .. B /\ n # 1 /\ n - 1 \in 0 .. B
    BY <1>3, <1>5
  <2>2. power[k] <= power[n - 1]
    BY <1>1, <2>1, PowerGrows
  <2>3. power[k] \in Nat /\ power[n - 1] \in Nat
    BY <1>3, <2>1
  <2> QED  BY <1>5, <2>1, <2>2, <2>3
<1>7. n <= m
  <2> SUFFICES ASSUME ~(n <= m) PROVE FALSE
    OBVIOUS
  <2>1. m \in 1 .. n - 1 /\ m \in 0 .. B
    BY <1>3, <1>5
  <2>2. v >= power[m] /\ power[m] \in Nat
    BY <1>3, <1>6, <2>1
  <2> QED  BY <1>9, <2>2
<1>8. n \in 1 .. m
  BY <1>3, <1>5, <1>7
<1> QED  BY <1>2, <1>5, <1>6, <1>8 DEF power

LeftLike(f, value, base) == f = [k \in 0 .. B |-> IF k = 0 THEN value ELSE f[k - 1] \div base]

LEMMA LeftIs ==
  ASSUME NEW value \in Nat, NEW base \in Nat \ {0}
  PROVE  LET left == CHOOSE f : LeftLike(f, value, base)
         IN  \A k \in 0 .. B : left[k] = value \div Power(base)[k]
<1> DEFINE step == [k \in 1 .. B |-> [v \in Nat |-> v \div base]]
           left == CHOOSE f : LeftLike(f, value, base)
           power == Power(base)
<1>1. B \in Nat
  BY SizesAssumption
<1>2. step \in Steps(B, Nat)
  <2>1. \A v \in Nat : v \div base \in Nat
    BY QuotientOf
  <2> QED  BY <2>1 DEF Steps
<1>3. PICK g : IsFold(g, B, Nat, value, step)
  <2> HIDE DEF step
  <2> QED  BY <1>1, <1>2, Recursion
<1>4. g \in [0 .. B -> Nat] /\ g[0] = value /\ \A k \in 1 .. B : g[k] = step[k][g[k - 1]]
  BY <1>3 DEF IsFold
<1>5. \A k \in 1 .. B : g[k] = g[k - 1] \div base
  <2> TAKE k \in 1 .. B
  <2>1. k - 1 \in 0 .. B
    BY <1>1
  <2>2. g[k - 1] \in Nat
    BY <1>4, <2>1
  <2> QED  BY <1>4, <2>2
<1>6. LeftLike(g, value, base)
  <2> HIDE DEF step
  <2> QED  BY <1>4, <1>5 DEF LeftLike
<1>7. LeftLike(left, value, base)
  BY <1>6
<1> HIDE DEF left
<1>9. left[0] = value /\ \A k \in 1 .. B : left[k] = left[k - 1] \div base
  <2>1. 0 \in 0 .. B /\ \A k \in 1 .. B : k \in 0 .. B /\ k # 0
    BY <1>1
  <2> QED  BY <1>7, <2>1 DEF LeftLike
<1>8. power \in [0 .. B -> Nat \ {0}] /\ power[0] = 1 /\ \A k \in 1 .. B : power[k] = base * power[k - 1]
  BY PowerIs DEF IsPower
<1> HIDE DEF power
<1> DEFINE T == {k \in 0 .. B : left[k] \in Nat /\ left[k] * power[k] <= value /\ value < (left[k] + 1) * power[k]}
<1>10. 0 \in T
  <2>1. value * 1 <= value /\ value < (value + 1) * 1
    OBVIOUS
  <2> QED  BY <1>1, <1>8, <1>9, <2>1
<1>11. ASSUME NEW k \in 0 .. B, k # B, k \in T PROVE k + 1 \in T
  <2>1. k + 1 \in 1 .. B /\ (k + 1) - 1 = k /\ k + 1 \in 0 .. B
    BY <1>1, <1>11
  <2> DEFINE p == power[k]  q == left[k]  r == left[k + 1]  o == power[k + 1]
  <2>2. p \in Nat \ {0} /\ q \in Nat /\ q * p <= value /\ value < (q + 1) * p
    BY <1>8, <1>11
  <2>3. r = q \div base /\ o = base * p
    BY <1>8, <1>9, <2>1
  <2> HIDE DEF p, q, r, o
  <2>4. r \in Nat /\ r * (base * p) <= value /\ value < (r + 1) * (base * p)
    BY <2>2, <2>3, QuotientNext
  <2>5. r \in Nat /\ r * o <= value /\ value < (r + 1) * o
    BY <2>3, <2>4
  <2> QED  BY <2>1, <2>5 DEF r, o
<1>12. \A k \in 0 .. B : k \in T
  <2> HIDE DEF T
  <2> QED  BY <1>1, <1>10, <1>11, Induction
<1>13. \A k \in 0 .. B : left[k] = value \div power[k]
  <2> TAKE k \in 0 .. B
  <2> DEFINE p == power[k]  q == left[k]
  <2>1. p \in Nat \ {0} /\ q \in Nat /\ q * p <= value /\ value < (q + 1) * p
    BY <1>8, <1>12
  <2> HIDE DEF p, q
  <2>2. value \div p = q
    BY <2>1, Quotient
  <2> QED  BY <2>2 DEF p, q
<1> QED  BY <1>13 DEF left, power

LEMMA NoneLeft ==
  ASSUME NEW value \in Nat, NEW p \in Nat \ {0} PROVE value \div p = 0 <=> value < p
<1> DEFINE q == value \div p
<1>1. q \in Nat /\ q * p <= value /\ value < (q + 1) * p
  BY QuotientOf
<1> HIDE DEF q
<1>2. q = 0 <=> value < p
  <2>1. CASE q = 0
    BY <1>1, <2>1
  <2>2. CASE q # 0
    <3>1. \A x, y \in Nat : x <= y => x * p <= y * p
      OBVIOUS
    <3>2. 1 * p <= q * p /\ q * p \in Nat
      BY <1>1, <2>2, <3>1
    <3> QED  BY <1>1, <2>2, <3>2
  <2> QED  BY <2>1, <2>2
<1> QED  BY <1>2 DEF q

\* The characters of the digits
FigureOf(f) == IF "UPPERCASE" \in f THEN Capitals ELSE Numerals

LEMMA Figuring ==
  /\ \A i \in 1 .. 16 : Numerals[i] \in Alphabet /\ Capitals[i] \in Alphabet
  /\ \A i \in 1 .. 10 : Capitals[i] = Numerals[i]
  /\ Capitals[11] = "A" /\ Capitals[12] = "B" /\ Capitals[13] = "C"
  /\ Capitals[14] = "D" /\ Capitals[15] = "E" /\ Capitals[16] = "F"
<1>1. \A i : i \in 1 .. 16 <=> (i = 1 \/ i = 2 \/ i = 3 \/ i = 4 \/ i = 5 \/ i = 6 \/ i = 7 \/ i = 8 \/ i = 9 \/ i = 10
                                 \/ i = 11 \/ i = 12 \/ i = 13 \/ i = 14 \/ i = 15 \/ i = 16)
  OBVIOUS
<1>2. Numerals \in Seq(Alphabet) /\ Len(Numerals) = 16
  BY DEF Numerals, Alphabet, Figures, Letters
<1>10. \A i \in 1 .. 16 : Numerals[i] \in Alphabet
  <2> TAKE i \in 1 .. 16
  <2> QED  BY <1>2, ElementOfSeq
<1> DEFINE ten == SubSeq(Numerals, 1, 10)  six == <<"A", "B", "C", "D", "E", "F">>
<1>3. ten \in Seq(Alphabet) /\ Len(ten) = 10 /\ \A i \in 1 .. 10 : ten[i] = Numerals[i]
  <2>1. \A i \in 1 .. 10 : Numerals[i] \in Alphabet
    BY <1>10
  <2> DEFINE m == 1  n == 10
  <2>2. m \in Int /\ n \in Int /\ m = 1 /\ n = 10 /\ \A i \in m .. n : Numerals[i] \in Alphabet
    BY <2>1
  <2> HIDE DEF m, n
  <2>3. /\ SubSeq(Numerals, m, n) \in Seq(Alphabet)
        /\ Len(SubSeq(Numerals, m, n)) = (IF m <= n THEN n - m + 1 ELSE 0)
        /\ \A i \in 1 .. n - m + 1 : SubSeq(Numerals, m, n)[i] = Numerals[m + i - 1]
    BY <2>2, SubSeqProperties
  <2>4. /\ SubSeq(Numerals, 1, 10) \in Seq(Alphabet)
        /\ Len(SubSeq(Numerals, 1, 10)) = 10
        /\ \A i \in 1 .. 10 : SubSeq(Numerals, 1, 10)[i] = Numerals[i]
    BY <2>2, <2>3
  <2> QED  BY <2>4
<1>4. /\ six \in Seq(Alphabet) /\ Len(six) = 6
      /\ six[1] = "A" /\ six[2] = "B" /\ six[3] = "C" /\ six[4] = "D" /\ six[5] = "E" /\ six[6] = "F"
  BY DEF Alphabet, Uppers
<1>5. Capitals = ten \o six
  BY DEF Capitals
<1> HIDE DEF ten, six
<1>6. Joins(Alphabet, ten, six)
  BY <1>3, <1>4, Joined
<1>7. /\ \A i \in 1 .. 10 : Capitals[i] = Numerals[i]
      /\ \A i \in 1 .. 6 : Capitals[10 + i] = six[i]
      /\ Capitals \in Seq(Alphabet) /\ Len(Capitals) = 16
  <2>1. /\ \A i \in 1 .. Len(ten) : (ten \o six)[i] = ten[i]
        /\ \A i \in 1 .. Len(six) : (ten \o six)[Len(ten) + i] = six[i]
        /\ ten \o six \in Seq(Alphabet) /\ Len(ten \o six) = Len(ten) + Len(six)
    BY <1>6, Zenon DEF Joins
  <2>2. Len(ten) = 10 /\ Len(six) = 6 /\ 10 + 6 = 16
    BY <1>3, <1>4
  <2>3. /\ \A i \in 1 .. 10 : Capitals[i] = ten[i]
        /\ \A i \in 1 .. 6 : Capitals[10 + i] = six[i]
        /\ Capitals \in Seq(Alphabet) /\ Len(Capitals) = 16
    BY <1>5, <2>1, <2>2, Zenon
  <2> QED  BY <1>3, <2>3, Zenon
<1>8. /\ Capitals[11] = "A" /\ Capitals[12] = "B" /\ Capitals[13] = "C"
      /\ Capitals[14] = "D" /\ Capitals[15] = "E" /\ Capitals[16] = "F"
  <2>1. /\ Capitals[10 + 1] = six[1] /\ Capitals[10 + 2] = six[2] /\ Capitals[10 + 3] = six[3]
        /\ Capitals[10 + 4] = six[4] /\ Capitals[10 + 5] = six[5] /\ Capitals[10 + 6] = six[6]
    <3>1. 1 \in 1 .. 6 /\ 2 \in 1 .. 6 /\ 3 \in 1 .. 6 /\ 4 \in 1 .. 6 /\ 5 \in 1 .. 6 /\ 6 \in 1 .. 6
      OBVIOUS
    <3>2. \A i \in 1 .. 6 : Capitals[10 + i] = six[i]
      BY <1>7
    <3> QED  BY <3>1, <3>2, Zenon
  <2>2. 10 + 1 = 11 /\ 10 + 2 = 12 /\ 10 + 3 = 13 /\ 10 + 4 = 14 /\ 10 + 5 = 15 /\ 10 + 6 = 16
    OBVIOUS
  <2> QED  BY <1>4, <2>1, <2>2, Zenon
<1>9. \A i \in 1 .. 16 : Capitals[i] \in Alphabet
  <2> TAKE i \in 1 .. 16
  <2> QED  BY <1>7, ElementOfSeq
<1>11. \A i \in 1 .. 16 : Numerals[i] \in Alphabet /\ Capitals[i] \in Alphabet
  BY <1>9, <1>10
<1> QED  BY <1>7, <1>8, <1>11

LEMMA DigitsIs ==
  ASSUME NEW value \in Nat, NEW base \in 2 .. 16, NEW f, NEW m \in 1 .. B, value < Power(base)[m]
  PROVE  LET n == CountOf(value, base)  s == Digits(value, base, f)
         IN  /\ n \in 1 .. m /\ s \in Seq(Alphabet) /\ Len(s) = n
             /\ \A k \in 1 .. n : s[k] = FigureOf(f)[((value \div Power(base)[k - 1]) % base) + 1]
<1> DEFINE digit(x) == FigureOf(f)[x + 1]
           left == CHOOSE g : LeftLike(g, value, base)
           ends == {k \in 1 .. B : left[k] = 0 \/ k = B}
           end == CHOOSE k \in ends : \A l \in ends : k <= l
           power == Power(base)  n == CountOf(value, base)
           s == [k \in 1 .. end |-> digit(left[k - 1] % base)]
<1>1. Digits(value, base, f) = s
  BY Zenon DEF Digits, LeftLike, FigureOf
<1>2. base \in Nat \ {0} /\ B \in Nat
  BY SizesAssumption
<1>3. /\ n \in 1 .. m /\ value < power[n] /\ \A k \in 1 .. n - 1 : value >= power[k]
  BY <1>2, CountIs
<1>4. power \in [0 .. B -> Nat \ {0}]
  BY <1>2, PowerIs DEF IsPower
<1>5. \A k \in 0 .. B : left[k] = value \div power[k]
  BY <1>2, LeftIs
<1> HIDE DEF left, power, n
<1>6. \A k \in 0 .. B : left[k] = 0 <=> value < power[k]
  <2> TAKE k \in 0 .. B
  <2> DEFINE p == power[k]
  <2>1. p \in Nat \ {0}
    BY <1>4
  <2> HIDE DEF p
  <2>2. value \div p = 0 <=> value < p
    BY <2>1, NoneLeft
  <2> QED  BY <1>5, <2>2 DEF p
<1>7. n \in ends /\ \A k \in ends : n <= k
  <2>1. n \in 0 .. B /\ n \in 1 .. B
    BY <1>2, <1>3
  <2>2. left[n] = 0
    BY <1>3, <1>6, <2>1
  <2>3. ASSUME NEW k \in ends, ~(n <= k) PROVE FALSE
    <3>1. k \in 1 .. n - 1 /\ k \in 0 .. B /\ k # B
      BY <1>2, <2>1, <2>3
    <3>2. left[k] = 0
      BY <3>1
    <3>3. value < power[k] /\ value >= power[k] /\ power[k] \in Nat
      BY <1>3, <1>4, <1>6, <3>1, <3>2
    <3> QED  BY <3>3
  <2> QED  BY <2>1, <2>2, <2>3
<1>8. end = n
  <2>1. \A q \in ends : q \in Nat
    BY <1>2
  <2> HIDE DEF ends
  <2>2. end \in ends /\ \A r \in ends : end <= r
    BY <1>7
  <2>3. end <= n /\ n <= end /\ end \in Nat /\ n \in Nat
    BY <1>7, <2>1, <2>2
  <2> HIDE DEF end
  <2> QED  BY <2>3
<1> HIDE DEF end
<1>9. \A k \in 1 .. n : s[k] = FigureOf(f)[((value \div power[k - 1]) % base) + 1] /\ s[k] \in Alphabet
  <2> TAKE k \in 1 .. n
  <2>1. k - 1 \in 0 .. B
    BY <1>2, <1>3
  <2>2. left[k - 1] = value \div power[k - 1]
    BY <1>5, <2>1
  <2>3. s[k] = FigureOf(f)[(left[k - 1] % base) + 1]
    BY <1>8
  <2> DEFINE x == left[k - 1] % base
  <2>4. x \in 0 .. base - 1
    <3> DEFINE p == power[k - 1]
    <3>1. p \in Nat \ {0}
      BY <1>4, <2>1
    <3> HIDE DEF p
    <3>2. value \div p \in Nat
      BY <3>1, QuotientOf
    <3>3. left[k - 1] \in Nat
      BY <2>2, <3>2 DEF p
    <3> QED  BY <1>2, <3>3
  <2>5. x + 1 \in 1 .. 16
    <3> HIDE DEF x
    <3> QED  BY <2>4
  <2>6. FigureOf(f)[x + 1] \in Alphabet
    <3> HIDE DEF x
    <3> QED  BY <2>5, Figuring DEF FigureOf
  <2> QED  BY <2>2, <2>3, <2>6
<1>10. s \in Seq(Alphabet) /\ Len(s) = n
  <2>1. n \in Nat
    BY <1>3
  <2>2. s \in [1 .. n -> Alphabet]
    BY <1>8, <1>9
  <2> HIDE DEF s
  <2> QED  BY <2>1, <2>2
<1> HIDE DEF s
<1> QED  BY <1>1, <1>3, <1>9, <1>10 DEF n, power

LEMMA NumeralsAre ==
  /\ Numerals[1] = "0" /\ Numerals[2] = "1" /\ Numerals[3] = "2" /\ Numerals[4] = "3"
  /\ Numerals[5] = "4" /\ Numerals[6] = "5" /\ Numerals[7] = "6" /\ Numerals[8] = "7"
  /\ Numerals[9] = "8" /\ Numerals[10] = "9" /\ Numerals[11] = "a" /\ Numerals[12] = "b"
  /\ Numerals[13] = "c" /\ Numerals[14] = "d" /\ Numerals[15] = "e" /\ Numerals[16] = "f"
BY DEF Numerals

LEMMA UpperOthers ==
  ASSUME NEW c, c \notin {"a", "b", "c", "d", "e", "f"}
  PROVE  UpperOf(c) = IF c = "x" THEN "X" ELSE c
<1>1. ASSUME NEW d \in 11 .. 16 PROVE c # Numerals[d]
  <2>1. d = 11 \/ d = 12 \/ d = 13 \/ d = 14 \/ d = 15 \/ d = 16
    OBVIOUS
  <2>2. Numerals[d] \in {"a", "b", "c", "d", "e", "f"}
    BY <2>1, NumeralsAre
  <2> QED  BY <2>2
<1> QED  BY <1>1, Zenon DEF UpperOf

LEMMA UpperFigures == \A i \in 1 .. 16 : UpperOf(Numerals[i]) = Capitals[i]
<1> SUFFICES ASSUME NEW i \in 1 .. 16 PROVE UpperOf(Numerals[i]) = Capitals[i]
  OBVIOUS
<1>1. CASE i \in 1 .. 10
  <2>1. i = 1 \/ i = 2 \/ i = 3 \/ i = 4 \/ i = 5 \/ i = 6 \/ i = 7 \/ i = 8 \/ i = 9 \/ i = 10
    BY <1>1
  <2>2. Numerals[i] \in {"0", "1", "2", "3", "4", "5", "6", "7", "8", "9"}
    BY <2>1, NumeralsAre
  <2>3. Numerals[i] \notin {"a", "b", "c", "d", "e", "f"} /\ Numerals[i] # "x"
    BY <2>2
  <2> QED  BY <1>1, <2>3, UpperOthers, Figuring
<1>2. CASE i \notin 1 .. 10
  <2>1. i \in 11 .. 16
    BY <1>2
  <2>2. ASSUME NEW d \in 11 .. 16, Numerals[d] = Numerals[i] PROVE d = i
    <3>1. d = 11 \/ d = 12 \/ d = 13 \/ d = 14 \/ d = 15 \/ d = 16
      OBVIOUS
    <3>2. i = 11 \/ i = 12 \/ i = 13 \/ i = 14 \/ i = 15 \/ i = 16
      BY <2>1
    <3> QED  BY <2>2, <3>1, <3>2, NumeralsAre
  <2>3. (CHOOSE d \in 11 .. 16 : Numerals[i] = Numerals[d]) = i
    BY <2>1, <2>2
  <2>4. \E d \in 11 .. 16 : Numerals[i] = Numerals[d]
    BY <2>1
  <2> QED  BY <2>3, <2>4, Zenon DEF UpperOf
<1> QED  BY <1>1, <1>2

LEMMA UpperType ==
  ASSUME NEW s \in Seq(Alphabet)
  PROVE  Upper(s) \in Seq(Alphabet) /\ Len(Upper(s)) = Len(s) /\ \A k \in 1 .. Len(s) : Upper(s)[k] = UpperOf(s[k])
<1> DEFINE n == Len(s)  u == [k \in 1 .. n |-> UpperOf(s[k])]
<1>1. n \in Nat /\ DOMAIN s = 1 .. n
  OBVIOUS
<1>2. Upper(s) = u
  BY <1>1 DEF Upper
<1>3. ASSUME NEW c \in Alphabet PROVE UpperOf(c) \in Alphabet
  <2>1. CASE c \in {"a", "b", "c", "d", "e", "f"}
    <3>1. \E i \in 1 .. 16 : c = Numerals[i]
      <4>1. c = Numerals[11] \/ c = Numerals[12] \/ c = Numerals[13] \/ c = Numerals[14] \/ c = Numerals[15] \/ c = Numerals[16]
        BY <2>1, NumeralsAre
      <4>2. 11 \in 1 .. 16 /\ 12 \in 1 .. 16 /\ 13 \in 1 .. 16 /\ 14 \in 1 .. 16 /\ 15 \in 1 .. 16 /\ 16 \in 1 .. 16
        OBVIOUS
      <4> QED  BY <4>1, <4>2, Zenon
    <3> QED  BY <3>1, UpperFigures, Figuring
  <2>2. CASE c \notin {"a", "b", "c", "d", "e", "f"}
    <3>1. "X" \in Alphabet
      BY DEF Alphabet, Uppers
    <3> QED  BY <2>2, <3>1, UpperOthers
  <2> QED  BY <2>1, <2>2
<1>4. \A k \in 1 .. n : UpperOf(s[k]) \in Alphabet
  <2> TAKE k \in 1 .. n
  <2>1. s[k] \in Alphabet
    BY ElementOfSeq
  <2> QED  BY <1>3, <2>1
<1>5. u \in [1 .. n -> Alphabet]
  BY <1>4
<1>6. u \in Seq(Alphabet) /\ Len(u) = n /\ \A k \in 1 .. n : u[k] = UpperOf(s[k])
  <2>1. \A k \in 1 .. n : u[k] = UpperOf(s[k])
    OBVIOUS
  <2> HIDE DEF u, n
  <2> QED  BY <1>1, <1>5, <2>1
<1> QED  BY <1>2, <1>6

LEMMA UpperJoined ==
  ASSUME NEW s \in Seq(Alphabet), NEW t \in Seq(Alphabet) PROVE Upper(s \o t) = Upper(s) \o Upper(t)
<1> DEFINE st == s \o t  us == Upper(s)  ut == Upper(t)  ust == Upper(st)  uu == us \o ut  m == Len(s)  n == Len(t)
<1>1. /\ st \in Seq(Alphabet) /\ m \in Nat /\ n \in Nat /\ Len(st) = m + n
      /\ \A i \in 1 .. m : st[i] = s[i]
      /\ \A i \in 1 .. n : st[m + i] = t[i]
  <2>1. Joins(Alphabet, s, t)
    BY Joined
  <2> QED  BY <2>1 DEF Joins
<1> HIDE DEF st
<1>2. us \in Seq(Alphabet) /\ Len(us) = m /\ \A k \in 1 .. m : us[k] = UpperOf(s[k])
  BY UpperType
<1>3. ut \in Seq(Alphabet) /\ Len(ut) = n /\ \A k \in 1 .. n : ut[k] = UpperOf(t[k])
  BY UpperType
<1>4. ust \in Seq(Alphabet) /\ Len(ust) = m + n /\ \A k \in 1 .. m + n : ust[k] = UpperOf(st[k])
  <2>1. ust \in Seq(Alphabet) /\ Len(ust) = Len(st) /\ \A k \in 1 .. Len(st) : ust[k] = UpperOf(st[k])
    BY <1>1, UpperType
  <2> QED  BY <1>1, <2>1
<1> HIDE DEF us, ut, ust, m, n
<1>5. /\ uu \in Seq(Alphabet) /\ Len(uu) = m + n
      /\ \A i \in 1 .. m : uu[i] = us[i]
      /\ \A i \in 1 .. n : uu[m + i] = ut[i]
  <2>1. Joins(Alphabet, us, ut)
    BY <1>2, <1>3, Joined
  <2> QED  BY <1>2, <1>3, <2>1 DEF Joins
<1> HIDE DEF uu
<1>6. ASSUME NEW i \in 1 .. m + n PROVE ust[i] = uu[i]
  <2>1. CASE i <= m
    <3>1. i \in 1 .. m
      BY <2>1
    <3> QED  BY <1>1, <1>2, <1>4, <1>5, <3>1
  <2>2. CASE ~(i <= m)
    <3> DEFINE k == i - m
    <3>1. k \in 1 .. n /\ m + k = i
      BY <1>1, <2>2
    <3> HIDE DEF k
    <3>2. ust[m + k] = UpperOf(st[m + k]) /\ st[m + k] = t[k] /\ uu[m + k] = ut[k] /\ ut[k] = UpperOf(t[k])
      BY <1>1, <1>3, <1>4, <1>5, <3>1
    <3> QED  BY <3>1, <3>2
  <2> QED  BY <2>1, <2>2
<1>7. ust = uu
  BY <1>4, <1>5, <1>6, SeqEqual
<1> QED  BY <1>7 DEF ust, uu, us, ut, st

LEMMA UpperFill ==
  ASSUME NEW c \in {"0", " "}, NEW n \in Int PROVE Upper(Fill(c, n)) = Fill(c, n)
<1> DEFINE f == Fill(c, n)  u == Upper(f)
<1>1. c \in Alphabet /\ UpperOf(c) = c
  <2>1. c \notin {"a", "b", "c", "d", "e", "f"} /\ c # "x"
    OBVIOUS
  <2> QED  BY <2>1, UpperOthers DEF Alphabet, Signs, Figures
<1>2. f \in Seq(Alphabet) /\ Len(f) = Pos(n) /\ \A i \in 1 .. Pos(n) : f[i] = c
  BY <1>1, FillSeq
<1> HIDE DEF f
<1>3. u \in Seq(Alphabet) /\ Len(u) = Len(f) /\ \A k \in 1 .. Len(f) : u[k] = UpperOf(f[k])
  BY <1>2, UpperType
<1>4. u \in Seq(Alphabet) /\ Len(u) = Pos(n) /\ \A k \in 1 .. Len(u) : u[k] = c
  BY <1>1, <1>2, <1>3
<1> HIDE DEF u
<1>5. u = Fill(c, n)
  BY <1>1, <1>4, IsFill
<1> QED  BY <1>5 DEF u, f

\* The digits, last one first, are C's the other way round.
LEMMA DigitsReversed ==
  ASSUME NEW value \in Nat, NEW base \in 2 .. 16, NEW f, NEW m \in 1 .. B, value < Power(base)[m]
  PROVE  /\ DigitsOf(value, base) \in Seq(Alphabet) /\ Len(DigitsOf(value, base)) = CountOf(value, base)
         /\ Reverse(Digits(value, base, f))
              = IF "UPPERCASE" \in f THEN Upper(DigitsOf(value, base)) ELSE DigitsOf(value, base)
<1> DEFINE n == CountOf(value, base)  s == Digits(value, base, f)
           digit(k) == ((value \div Power(base)[k]) % base) + 1
           r == [k \in 1 .. n |-> Numerals[digit(n - k)]]
           rs == Reverse(s)
<1>1. /\ n \in 1 .. m /\ s \in Seq(Alphabet) /\ Len(s) = n
      /\ \A k \in 1 .. n : s[k] = FigureOf(f)[digit(k - 1)]
  BY DigitsIs
<1>2. DigitsOf(value, base) = r
  BY Zenon DEF DigitsOf
<1>3. \A k \in 0 .. B : digit(k) \in 1 .. 16
  <2> TAKE k \in 0 .. B
  <2> DEFINE p == Power(base)[k]  x == value \div p  y == x % base
  <2>1. p \in Nat \ {0}
    <3>1. base \in Nat \ {0}
      OBVIOUS
    <3>2. Power(base) \in [0 .. B -> Nat \ {0}]
      BY <3>1, PowerIs DEF IsPower
    <3> HIDE DEF digit
    <3> QED  BY <3>2
  <2> HIDE DEF p
  <2>2. x \in Nat
    BY <2>1, QuotientOf
  <2> HIDE DEF x
  <2>3. y \in 0 .. base - 1
    BY <2>2
  <2> HIDE DEF y
  <2>4. y + 1 \in 1 .. 16
    BY <2>3
  <2>5. digit(k) = y + 1
    BY DEF y, x, p
  <2> HIDE DEF digit
  <2> QED  BY <2>4, <2>5
<1> HIDE DEF digit, n, s
<1>4. \A k \in 1 .. n : n - k \in 0 .. B /\ n - k + 1 \in 1 .. n /\ (n - k + 1) - 1 = n - k
  BY <1>1, SizesAssumption
<1>5. r \in Seq(Alphabet) /\ Len(r) = n /\ \A k \in 1 .. n : r[k] = Numerals[digit(n - k)]
  <2>1. \A k \in 1 .. n : Numerals[digit(n - k)] \in Alphabet
    BY <1>3, <1>4, Figuring
  <2>2. r \in [1 .. n -> Alphabet] /\ \A k \in 1 .. n : r[k] = Numerals[digit(n - k)]
    BY <2>1
  <2>3. n \in Nat
    BY <1>1
  <2> HIDE DEF r
  <2> QED  BY <2>2, <2>3
<1> HIDE DEF r
<1>6. rs \in Seq(Alphabet) /\ Len(rs) = n /\ \A k \in 1 .. n : rs[k] = FigureOf(f)[digit(n - k)]
  <2>1. rs \in Seq(Alphabet) /\ Len(rs) = Len(s) /\ \A k \in 1 .. Len(s) : rs[k] = s[Len(s) - k + 1]
    BY <1>1, Reversed
  <2>2. \A k \in 1 .. n : s[n - k + 1] = FigureOf(f)[digit(n - k)]
    <3> TAKE k \in 1 .. n
    <3> DEFINE j == n - k + 1
    <3>1. j \in 1 .. n /\ j - 1 = n - k
      BY <1>4
    <3> HIDE DEF j
    <3>2. s[j] = FigureOf(f)[digit(j - 1)]
      BY <1>1, <3>1
    <3> QED  BY <3>1, <3>2 DEF j
  <2> QED  BY <1>1, <2>1, <2>2
<1> HIDE DEF rs
<1>7. CASE "UPPERCASE" \in f
  <2> DEFINE u == Upper(r)
  <2>1. u \in Seq(Alphabet) /\ Len(u) = n /\ \A k \in 1 .. n : u[k] = UpperOf(r[k])
    BY <1>5, UpperType
  <2> HIDE DEF u
  <2>2. \A k \in 1 .. n : u[k] = rs[k]
    <3> TAKE k \in 1 .. n
    <3> DEFINE i == digit(n - k)
    <3>1. i \in 1 .. 16
      BY <1>3, <1>4
    <3>2. u[k] = UpperOf(Numerals[i]) /\ rs[k] = Capitals[i]
      BY <1>5, <1>6, <1>7, <2>1 DEF FigureOf
    <3> HIDE DEF i
    <3> QED  BY <3>1, <3>2, UpperFigures
  <2>3. u = rs
    BY <1>6, <2>1, <2>2, SeqEqual
  <2> QED  BY <1>2, <1>5, <1>7, <2>3 DEF u, rs, s, n
<1>8. CASE "UPPERCASE" \notin f
  <2>1. \A k \in 1 .. n : r[k] = rs[k]
    BY <1>5, <1>6, <1>8 DEF FigureOf
  <2>2. r = rs
    BY <1>5, <1>6, <2>1, SeqEqual
  <2> QED  BY <1>2, <1>5, <1>8, <2>2 DEF rs, s, n
<1> QED  BY <1>7, <1>8

LEMMA FillSame ==
  ASSUME NEW c, NEW m \in Int, NEW n \in Int, Pos(m) = Pos(n) PROVE Fill(c, m) = Fill(c, n)
<1>1. 1 .. m = 1 .. n
  BY DEF Pos
<1> QED  BY <1>1, Zenon DEF Fill

-----------------------------------------------------------------------------
(* A number with what comes before it, last character first *)

LEMMA FirstOf ==
  ASSUME NEW S, NEW c \in S, NEW s \in Seq(S) PROVE SubSeq(<<c>> \o s, 1, Min2(Len(<<c>> \o s), 1)) = <<c>>
<1> DEFINE one == <<c>>  t == one \o s
<1>1. one \in Seq(S) /\ Len(one) = 1 /\ one[1] = c
  OBVIOUS
<1> HIDE DEF one
<1>2. t \in Seq(S) /\ Len(t) >= 1 /\ Len(t) \in Nat /\ t[1] = c
  <2>1. Joins(S, one, s)
    BY <1>1, Joined
  <2>2. 1 \in 1 .. Len(one)
    BY <1>1
  <2> QED  BY <1>1, <2>1, <2>2 DEF Joins
<1> HIDE DEF t
<1>3. Min2(Len(t), 1) = 1
  BY <1>2 DEF Min2
<1> DEFINE m == 1  n == 1  part == SubSeq(t, m, n)
<1>4. m \in Int /\ n \in Int /\ m = 1 /\ n = 1 /\ \A i \in m .. n : t[i] \in S
  BY <1>2
<1> HIDE DEF m, n
<1>5. /\ SubSeq(t, m, n) \in Seq(S) /\ Len(SubSeq(t, m, n)) = (IF m <= n THEN n - m + 1 ELSE 0)
      /\ \A i \in 1 .. n - m + 1 : SubSeq(t, m, n)[i] = t[m + i - 1]
  BY <1>4, SubSeqProperties
<1>6. part \in Seq(S) /\ Len(part) = 1 /\ part[1] = c
  BY <1>2, <1>4, <1>5
<1> HIDE DEF part
<1>7. part = one
  <2>1. \A i \in 1 .. Len(part) : part[i] = one[i]
    BY <1>1, <1>6
  <2> QED  BY <1>1, <1>6, <2>1, SeqEqual
<1>8. SubSeq(t, 1, 1) = one
  BY <1>4, <1>7 DEF part
<1> QED  BY <1>3, <1>8 DEF t, one

First(s) == SubSeq(s, 1, Min2(Len(s), 1))

\* The sign of a number in the code, the first of three
SignText(negative, f) ==
  First((IF negative THEN <<"-">> ELSE <<>>) \o (IF "PLUS" \in f THEN <<"+">> ELSE <<>>)
          \o (IF "SPACE" \in f THEN <<" ">> ELSE <<>>))

LEMMA SignIs ==
  ASSUME NEW negative \in BOOLEAN, NEW f
  PROVE  SignText(negative, f) = IF negative THEN <<"-">> ELSE IF "PLUS" \in f THEN <<"+">>
                                 ELSE IF "SPACE" \in f THEN <<" ">> ELSE <<>>
<1> DEFINE x == IF negative THEN <<"-">> ELSE <<>>  y == IF "PLUS" \in f THEN <<"+">> ELSE <<>>
           z == IF "SPACE" \in f THEN <<" ">> ELSE <<>>
           S == {"-", "+", " "}
<1>1. SignText(negative, f) = First((x \o y) \o z)
  BY Zenon DEF SignText
<1>2. x \in Seq(S) /\ y \in Seq(S) /\ z \in Seq(S)
  <2>1. \A c \in S : <<c>> \in Seq(S)
    <3> HIDE DEF S
    <3> QED  OBVIOUS
  <2>2. <<"-">> \in Seq(S) /\ <<"+">> \in Seq(S) /\ <<" ">> \in Seq(S) /\ <<>> \in Seq(S)
    BY <2>1, EmptySeq
  <2> HIDE DEF S
  <2> QED  BY <2>2
<1>3. \A s \in Seq(S) : <<>> \o s = s
  BY ConcatEmptySeq
<1>4. \A c \in S : \A s \in Seq(S) : First(<<c>> \o s) = <<c>>
  BY FirstOf, Zenon DEF First
<1>5. First(<<>>) = <<>>
  <2>1. Len(<<>>) = 0 /\ Min2(0, 1) = 0
    BY EmptySeq DEF Min2
  <2>2. SubSeq(<<>>, 1, 0) = <<>>
    BY SubSeqEmpty
  <2> QED  BY <2>1, <2>2, Zenon DEF First
<1>6. CASE negative
  <2>1. x = <<"-">> /\ "-" \in S
    BY <1>6
  <2>2. y \o z \in Seq(S)
    <3> HIDE DEF y, z, S
    <3> QED  BY <1>2, ConcatProperties
  <2>3. (x \o y) \o z = x \o (y \o z)
    <3> HIDE DEF x, y, z, S
    <3>1. Regroups(x, y, z)
      BY <1>2, Regrouped
    <3> QED  BY <3>1, Zenon DEF Regroups
  <2>4. First(<<"-">> \o (y \o z)) = <<"-">>
    <3> HIDE DEF y, z, S
    <3> QED  BY <1>4, <2>1, <2>2
  <2>5. (x \o y) \o z = <<"-">> \o (y \o z)
    BY <2>1, <2>3, Zenon
  <2>6. First((x \o y) \o z) = <<"-">>
    <3> HIDE DEF x, y, z
    <3> QED  BY <2>4, <2>5
  <2> QED  BY <1>1, <1>6, <2>6, Zenon
<1>7. CASE ~negative /\ "PLUS" \in f
  <2>1. x = <<>> /\ y = <<"+">> /\ "+" \in S
    BY <1>7
  <2>2. x \o y = y
    <3> HIDE DEF y, S, x
    <3> QED  BY <1>2, <1>3, <2>1
  <2>3. First(<<"+">> \o z) = <<"+">>
    <3> HIDE DEF z, S
    <3> QED  BY <1>2, <1>4, <2>1
  <2>4. First((x \o y) \o z) = <<"+">>
    <3> HIDE DEF x, y, z
    <3> QED  BY <2>1, <2>2, <2>3
  <2> QED  BY <1>1, <1>7, <2>4, Zenon
<1>8. CASE ~negative /\ "PLUS" \notin f
  <2>1. x = <<>> /\ y = <<>>
    BY <1>8
  <2>2. x \o y = <<>>
    <3> HIDE DEF y, S, x
    <3> QED  BY <1>2, <1>3, <2>1
  <2>3. (x \o y) \o z = z
    <3> HIDE DEF x, y, z, S
    <3> QED  BY <1>2, <1>3, <2>2
  <2>4. First(z) = z
    <3>1. CASE "SPACE" \in f
      <4>1. z = <<" ">> /\ " " \in S /\ <<>> \in Seq(S)
        BY <3>1, EmptySeq
      <4>2. First(<<" ">> \o <<>>) = <<" ">>
        <5> HIDE DEF z, S
        <5> QED  BY <1>4, <4>1
      <4>3. z \o <<>> = z
        <5> HIDE DEF z, S
        <5> QED  BY <1>2, ConcatEmptySeq
      <4>4. <<" ">> \o <<>> = <<" ">>
        BY <4>1, <4>3, Zenon
      <4> HIDE DEF z
      <4> QED  BY <4>1, <4>2, <4>4
    <3>2. CASE "SPACE" \notin f
      <4>1. z = <<>>
        BY <3>2
      <4> HIDE DEF z
      <4> QED  BY <1>5, <4>1
    <3> QED  BY <3>1, <3>2
  <2>5. First((x \o y) \o z) = z
    <3> HIDE DEF x, y, z
    <3> QED  BY <2>3, <2>4
  <2> QED  BY <1>1, <1>8, <2>5, Zenon
<1> QED  BY <1>6, <1>7, <1>8

\* The digits with their zeros, last one first
Zeros(buf, prec, for, f) ==
  IF "LEFT" \in f THEN buf
  ELSE Pad(Pad(buf, "0", Min2(prec, B)), "0", IF "ZEROPAD" \in f THEN Min2(for, B) ELSE 0)

Padded(f) == "ZEROPAD" \in f /\ "LEFT" \notin f

LEMMA PadIs ==
  ASSUME NEW S, "0" \in S, NEW s \in Seq(S), NEW n \in Int
  PROVE  /\ Pad(s, "0", n) = s \o Fill("0", n - Len(s))
         /\ Pad(s, "0", n) \in Seq(S) /\ Len(Pad(s, "0", n)) = Len(s) + Pos(n - Len(s))
         /\ n <= Len(s) => Pad(s, "0", n) = s
<1> DEFINE m == n - Len(s)  g == Fill("0", m)
<1>1. m \in Int /\ Len(s) \in Nat
  OBVIOUS
<1>2. Pad(s, "0", n) = s \o g
  BY DEF Pad
<1>7. n <= Len(s) => m <= 0
  OBVIOUS
<1> HIDE DEF m
<1>3. g \in Seq(S) /\ Len(g) = Pos(m)
  BY <1>1, FillSeq
<1>4. m <= 0 => g = <<>>
  BY <1>1, FillNone
<1> HIDE DEF g
<1>5. s \o g \in Seq(S) /\ Len(s \o g) = Len(s) + Pos(m)
  <2>1. Joins(S, s, g)
    BY <1>3, Joined
  <2> QED  BY <1>3, <2>1 DEF Joins
<1>6. s \o <<>> = s
  BY ConcatEmptySeq
<1>8. n <= Len(s) => s \o g = s
  BY <1>4, <1>6, <1>7
<1> QED  BY <1>2, <1>5, <1>8 DEF g, m

LEMMA ZerosAre ==
  ASSUME NEW S, "0" \in S, NEW buf \in Seq(S), NEW prec \in Nat, NEW for \in Nat, NEW f, prec <= B,
         "LEFT" \in f => prec <= Len(buf),
         Padded(f) => prec <= Len(buf) /\ for <= B
  PROVE  Zeros(buf, prec, for, f) = buf \o Fill("0", IF Padded(f) THEN for - Len(buf) ELSE prec - Len(buf))
<1> DEFINE n == Len(buf)  inner == Pad(buf, "0", Min2(prec, B))
<1>1. B \in Nat /\ n \in Nat /\ Min2(prec, B) = prec
  BY SizesAssumption DEF Min2
<1>6. inner = Pad(buf, "0", prec)
  BY <1>1
<1>7. prec \in Int /\ for \in Int
  OBVIOUS
<1>8. /\ Pad(buf, "0", prec) = buf \o Fill("0", prec - n)
      /\ Pad(buf, "0", prec) \in Seq(S) /\ Len(Pad(buf, "0", prec)) = n + Pos(prec - n)
      /\ prec <= n => Pad(buf, "0", prec) = buf
  BY <1>7, PadIs, Zenon
<1> HIDE DEF inner
<1>9. Pos(prec - n) \in Nat
  BY <1>1 DEF Pos
<1>2. /\ Pad(buf, "0", prec) = buf \o Fill("0", prec - n) /\ inner = Pad(buf, "0", prec)
      /\ inner \in Seq(S) /\ Len(inner) = n + Pos(prec - n) /\ Len(inner) \in Nat
      /\ prec <= n => inner = buf
  BY <1>1, <1>6, <1>8, <1>9
<1>3. CASE "LEFT" \in f
  <2>1. Zeros(buf, prec, for, f) = buf /\ ~Padded(f)
    BY <1>3 DEF Zeros, Padded
  <2>2. Pad(buf, "0", prec) = buf
    BY <1>2, <1>3
  <2> QED  BY <1>2, <2>1, <2>2
<1>4. CASE "LEFT" \notin f /\ "ZEROPAD" \notin f
  <2>1. Zeros(buf, prec, for, f) = Pad(inner, "0", 0) /\ ~Padded(f)
    BY <1>4, Zenon DEF Zeros, Padded, inner
  <2>2. 0 \in Int /\ 0 <= Len(inner)
    BY <1>2
  <2>3. Pad(inner, "0", 0) = inner
    BY <1>2, <2>2, PadIs
  <2> QED  BY <1>2, <2>1, <2>3
<1>5. CASE Padded(f)
  <2>1. Min2(for, B) = for /\ prec <= n
    BY <1>1, <1>5 DEF Min2
  <2>2. Zeros(buf, prec, for, f) = Pad(inner, "0", Min2(for, B))
    BY <1>5, Zenon DEF Zeros, Padded, inner
  <2>3. inner = buf
    BY <1>2, <2>1
  <2>4. Pad(buf, "0", for) = buf \o Fill("0", for - n)
    BY <1>7, PadIs, Zenon
  <2>5. Zeros(buf, prec, for, f) = Pad(buf, "0", for)
    BY <2>1, <2>2, <2>3, Zenon
  <2> QED  BY <1>5, <2>4, <2>5
<1> QED  BY <1>3, <1>4, <1>5 DEF Padded

\* Prefix, zeros, digits in a field, which zeros may fill
Laid(f, w, prefix, z, digits) ==
  LET number == (prefix \o Fill("0", z)) \o digits
  IN  IF Padded(f) THEN (prefix \o Fill("0", w - Len(number))) \o digits ELSE Justify(number, f, w)

\* The zeros that are put out: up to the width, or to the precision
ZerosOf(f, w, prefix, z, digits) == IF Padded(f) THEN w - (Len(prefix) + Pos(z) + Len(digits)) ELSE z

\* buf has them the other way round
Turned(buf, f, w, prefix, z, digits, for) ==
  /\ w \in Nat /\ prefix \in Seq(Alphabet) /\ z \in Int /\ digits \in Seq(Alphabet)
  /\ \E y \in Int : /\ Pos(y) = Pos(ZerosOf(f, w, prefix, z, digits))
                   /\ Reverse(buf) = (prefix \o Fill("0", y)) \o digits
  /\ Padded(f) \/ for = w

LEMMA LaidIs ==
  ASSUME NEW buf, NEW f, NEW w, NEW prefix, NEW z, NEW digits, NEW for, Turned(buf, f, w, prefix, z, digits, for)
  PROVE  _out_rev(buf, f, for) = Laid(f, w, prefix, z, digits)
<1>8. /\ w \in Nat /\ prefix \in Seq(Alphabet) /\ z \in Int /\ digits \in Seq(Alphabet)
      /\ Padded(f) \/ for = w
  BY Zenon DEF Turned
<1>9. PICK y \in Int : /\ Pos(y) = Pos(ZerosOf(f, w, prefix, z, digits))
                       /\ Reverse(buf) = (prefix \o Fill("0", y)) \o digits
  BY Zenon DEF Turned
<1> DEFINE zs == Fill("0", z)  pz == prefix \o zs  number == pz \o digits  n == Len(prefix) + Pos(z) + Len(digits)
<1>1. zs \in Seq(Alphabet) /\ Len(zs) = Pos(z)
  <2>1. "0" \in Alphabet
    BY DEF Alphabet, Figures
  <2> QED  BY <1>8, <2>1, FillSeq
<1> HIDE DEF zs
<1>2. pz \in Seq(Alphabet) /\ Len(pz) = Len(prefix) + Pos(z)
  <2>1. Joins(Alphabet, prefix, zs)
    BY <1>1, <1>8, Joined
  <2> QED  BY <1>1, <2>1 DEF Joins
<1> HIDE DEF pz
<1>3. number \in Seq(Alphabet) /\ Len(number) = n /\ n \in Nat
  <2>1. Joins(Alphabet, pz, digits)
    BY <1>2, <1>8, Joined
  <2> QED  BY <1>2, <2>1 DEF Joins, Pos
<1> HIDE DEF number
<1>4. Laid(f, w, prefix, z, digits)
        = IF Padded(f) THEN (prefix \o Fill("0", w - Len(number))) \o digits ELSE Justify(number, f, w)
  BY Zenon DEF Laid, number, pz, zs
<1>5. CASE Padded(f)
  <2>1. ZerosOf(f, w, prefix, z, digits) = w - n
    BY <1>5, Zenon DEF ZerosOf
  <2>2. w - n \in Int
    BY <1>3, <1>8
  <2>3. Fill("0", y) = Fill("0", w - n)
    BY <1>9, <2>1, <2>2, FillSame
  <2>4. _out_rev(buf, f, for) = Reverse(buf)
    BY <1>5, Zenon DEF _out_rev, Padded
  <2> QED  BY <1>3, <1>4, <1>5, <1>9, <2>3, <2>4, Zenon
<1>6. CASE ~Padded(f)
  <2>1. ZerosOf(f, w, prefix, z, digits) = z
    BY <1>6, Zenon DEF ZerosOf
  <2>2. Fill("0", y) = Fill("0", z)
    BY <1>8, <1>9, <2>1, FillSame
  <2>3. Reverse(buf) = number
    BY <1>9, <2>2, Zenon DEF number, pz, zs
  <2>4. _out_rev(buf, f, for) = Justify(Reverse(buf), f, for)
    BY <1>6, Zenon DEF _out_rev, Padded
  <2> QED  BY <1>4, <1>6, <1>8, <2>3, <2>4, Zenon
<1> QED  BY <1>5, <1>6

\* What a number's field has the room for
Roomy(n, prec, w, f, more) ==
  /\ n + more <= B /\ prec + more <= B
  /\ "LEFT" \in f => prec <= n
  /\ Padded(f) => prec <= n /\ w <= B

\* A number without a prefix but a sign
LEMMA FormatPlain ==
  ASSUME NEW buf \in Seq(Alphabet), NEW negative \in BOOLEAN, NEW base, NEW prec \in Nat, NEW w \in Nat, NEW f,
         "HASH" \notin f, Roomy(Len(buf), prec, w, f, 1)
  PROVE  _ntoa_format(buf, negative, base, prec, w, f)
           = Laid(f, w, SignText(negative, f), prec - Len(buf), Reverse(buf))
<1> DEFINE sign   == SignText(negative, f)  n == Len(buf)
           for    == IF "LEFT" \notin f /\ w > 0 /\ "ZEROPAD" \in f /\ sign # <<>> THEN w - 1 ELSE w
           zeros  == Zeros(buf, prec, for, f)
           y      == IF Padded(f) THEN for - n ELSE prec - n
           u      == zeros \o sign
<1>1. _ntoa_format(buf, negative, base, prec, w, f) = _out_rev(Cut(u), f, for)
  BY Zenon DEF _ntoa_format, Zeros, SignText, First
<1>2. sign \in Seq(Alphabet) /\ Len(sign) <= 1 /\ Len(sign) \in Nat /\ (sign = <<>> <=> Len(sign) = 0)
  <2>1. "-" \in Alphabet /\ "+" \in Alphabet /\ " " \in Alphabet
    BY DEF Alphabet, Signs
  <2>2. sign \in {<<>>, <<"-">>, <<"+">>, <<" ">>}
    BY SignIs
  <2>3. \A c \in Alphabet : <<c>> \in Seq(Alphabet) /\ Len(<<c>>) = 1 /\ <<c>> # <<>>
    <3> TAKE c \in Alphabet
    <3>1. Len(<<c>>) = 1 /\ Len(<<>>) = 0
      BY EmptySeq
    <3> QED  BY <3>1
  <2>4. <<>> \in Seq(Alphabet) /\ Len(<<>>) = 0
    BY EmptySeq
  <2> HIDE DEF sign
  <2>5. sign = <<>> \/ \E c \in Alphabet : sign = <<c>>
    BY <2>1, <2>2
  <2>6. CASE sign = <<>>
    BY <2>4, <2>6
  <2>7. ASSUME NEW c \in Alphabet, sign = <<c>>
        PROVE sign \in Seq(Alphabet) /\ Len(sign) <= 1 /\ Len(sign) \in Nat /\ (sign = <<>> <=> Len(sign) = 0)
    BY <2>3, <2>7
  <2> QED  BY <2>5, <2>6, <2>7
<1> HIDE DEF sign
<1>3. for \in Nat /\ for <= w /\ (Padded(f) => (for + Len(sign) = w \/ (for = 0 /\ w = 0))) /\ (Padded(f) \/ for = w)
  BY <1>2 DEF Padded
<1>4. B \in Nat /\ n \in Nat /\ "0" \in Alphabet
  BY SizesAssumption DEF Alphabet, Figures
<1>10. /\ n + 1 <= B /\ prec + 1 <= B /\ ("LEFT" \in f => prec <= n)
       /\ (Padded(f) => prec <= n /\ w <= B)
  BY DEF Roomy
<1> HIDE DEF for
<1>5. zeros = buf \o Fill("0", y)
  <2>1. prec <= B /\ (Padded(f) => for <= B)
    BY <1>3, <1>4, <1>10
  <2> QED  BY <1>3, <1>4, <1>10, <2>1, ZerosAre
<1>6. y \in Int /\ n + Pos(y) + Len(sign) <= B
  BY <1>2, <1>3, <1>4, <1>10 DEF Pos
<1>7. Pos(y) = Pos(ZerosOf(f, w, sign, prec - n, Reverse(buf)))
  <2>1. Len(Reverse(buf)) = n
    BY Reversed
  <2>2. ZerosOf(f, w, sign, prec - n, Reverse(buf)) = IF Padded(f) THEN w - (Len(sign) + Pos(prec - n) + n) ELSE prec - n
    BY <2>1, Zenon DEF ZerosOf
  <2>3. CASE Padded(f)
    <3>1. Pos(prec - n) = 0
      BY <1>4, <1>10, <2>3 DEF Pos
    <3>2. Pos(for - n) = Pos(w - (Len(sign) + 0 + n))
      BY <1>2, <1>3, <1>4, <2>3 DEF Pos
    <3> QED  BY <2>2, <2>3, <3>1, <3>2
  <2>4. CASE ~Padded(f)
    BY <2>2, <2>4
  <2> QED  BY <2>3, <2>4
<1> HIDE DEF y, zeros
<1>8. Cut(u) = u /\ Reverse(u) = (sign \o Fill("0", y)) \o Reverse(buf)
  <2> DEFINE v == (buf \o Fill("0", y)) \o sign
  <2>1. Cut(v) = v /\ Reverse(v) = (Reverse(sign) \o Fill("0", y)) \o Reverse(buf)
    <3>1. Writes(Alphabet, buf, y, sign)
      BY <1>2, <1>4, <1>6, Written
    <3> QED  BY <3>1, Zenon DEF Writes
  <2>2. Reverse(sign) = sign
    BY <1>2, ReverseShort
  <2>3. u = v
    BY <1>5
  <2> QED  BY <2>1, <2>2, <2>3
<1> HIDE DEF u
<1>9. Turned(u, f, w, sign, prec - n, Reverse(buf), for)
  <2>1. Reverse(buf) \in Seq(Alphabet) /\ prec - n \in Int
    BY <1>4, Reversed
  <2> QED  BY <1>2, <1>3, <1>6, <1>7, <1>8, <2>1, Zenon DEF Turned
<1>11. _out_rev(u, f, for) = Laid(f, w, sign, prec - n, Reverse(buf))
  BY <1>9, LaidIs
<1> QED  BY <1>1, <1>8, <1>11, Zenon DEF sign

\* The letter of a prefix in the code, which its 0 follows
LetterText(base, f) ==
  CASE base = 16 -> <<IF "UPPERCASE" \in f THEN "X" ELSE "x">>
    [] base = 2  -> <<"b">>
    [] OTHER     -> <<>>

PrefixText(base, f) ==
  CASE base = 16 -> <<"0", IF "UPPERCASE" \in f THEN "X" ELSE "x">>
    [] base = 2  -> <<"0", "b">>
    [] OTHER     -> <<"0">>

\* How many zeros the prefix takes the place of
DropOf(zeros, base, prec, for, f) ==
  IF "PRECISION" \notin f /\ Len(zeros) \in {prec, for} THEN Min2(Len(zeros), IF base = 16 THEN 2 ELSE 1) ELSE 0

LEMMA PrefixReversed ==
  ASSUME NEW base, NEW f
  PROVE  LET tail == LetterText(base, f) \o <<"0">>  prefix == PrefixText(base, f)
         IN  /\ tail \in Seq(Alphabet) /\ prefix \in Seq(Alphabet) /\ LetterText(base, f) \in Seq(Alphabet)
             /\ Reverse(tail) = prefix /\ Len(tail) = Len(prefix)
             /\ Len(prefix) = IF base = 16 \/ base = 2 THEN 2 ELSE 1
<1> DEFINE l == LetterText(base, f)
<1>1. "0" \in Alphabet /\ "x" \in Alphabet /\ "X" \in Alphabet /\ "b" \in Alphabet
  BY DEF Alphabet, Figures, Letters, Uppers
<1>2. CASE base = 16 \/ base = 2
  <2>1. PICK c \in Alphabet : l = <<c>> /\ PrefixText(base, f) = <<"0", c>>
    <3>1. CASE base = 16 /\ "UPPERCASE" \in f
      BY <1>1, <3>1 DEF LetterText, PrefixText
    <3>2. CASE base = 16 /\ "UPPERCASE" \notin f
      BY <1>1, <3>2 DEF LetterText, PrefixText
    <3>3. CASE base = 2
      BY <1>1, <3>3 DEF LetterText, PrefixText
    <3> QED  BY <1>2, <3>1, <3>2, <3>3
  <2>2. <<c>> \o <<"0">> = <<c, "0">>
    BY <1>1, PairConcat
  <2>3. Reverse(<<c>> \o <<"0">>) = <<"0", c>>
    BY <1>1, PairReversed
  <2>4. <<c, "0">> \in Seq(Alphabet) /\ <<"0", c>> \in Seq(Alphabet) /\ Len(<<c, "0">>) = 2 /\ Len(<<"0", c>>) = 2 /\ <<c>> \in Seq(Alphabet)
    BY <1>1
  <2> HIDE DEF l
  <2>5. /\ l \o <<"0">> = <<c, "0">> /\ PrefixText(base, f) = <<"0", c>> /\ Reverse(l \o <<"0">>) = <<"0", c>> /\ l = <<c>>
    BY <2>1, <2>2, <2>3, Zenon
  <2> QED  BY <1>2, <2>4, <2>5 DEF l
<1>3. CASE ~(base = 16 \/ base = 2)
  <2>1. l = <<>> /\ PrefixText(base, f) = <<"0">>
    BY <1>3 DEF LetterText, PrefixText
  <2>2. <<"0">> \in Seq(Alphabet) /\ Len(<<"0">>) = 1 /\ <<>> \in Seq(Alphabet)
    BY <1>1, EmptySeq
  <2>3. <<>> \o <<"0">> = <<"0">>
    BY <2>2, ConcatEmptySeq
  <2>4. Reverse(<<"0">>) = <<"0">>
    <3> DEFINE s == <<"0">>
    <3>1. s \in Seq(Alphabet) /\ Len(s) <= 1
      BY <2>2
    <3> HIDE DEF s
    <3>2. Reverse(s) = s
      BY <3>1, ReverseShort
    <3> QED  BY <3>2 DEF s
  <2> HIDE DEF l
  <2>5. /\ l \o <<"0">> = <<"0">> /\ PrefixText(base, f) = <<"0">> /\ Reverse(l \o <<"0">>) = <<"0">> /\ l = <<>>
    BY <2>1, <2>3, <2>4, Zenon
  <2> QED  BY <1>3, <2>2, <2>5 DEF l
<1> QED  BY <1>2, <1>3

\* Widths at which the prefix takes the place of padding alone
Hashable(n, base, prec, w, f) ==
  /\ n >= 1 /\ ("PRECISION" \notin f => prec = 0) /\ ("ZEROPAD" \in f => "PRECISION" \notin f)
  /\ "PRECISION" \notin f =>
       /\ w # n
       /\ Padded(f) /\ base = 16 => w # n + 1
       /\ Padded(f) /\ base = 2 => w <= n

\* A number with a prefix
LEMMA FormatHashed ==
  ASSUME NEW buf \in Seq(Alphabet), NEW base, NEW prec \in Nat, NEW w \in Nat, NEW f,
         "HASH" \in f, "PLUS" \notin f, "SPACE" \notin f,
         Roomy(Len(buf), prec, w, f, 2), Hashable(Len(buf), base, prec, w, f)
  PROVE  _ntoa_format(buf, FALSE, base, prec, w, f)
           = Laid(f, w, PrefixText(base, f), prec - Len(buf), Reverse(buf))
<1> DEFINE sign   == SignText(FALSE, f)  n == Len(buf)
           for    == IF "LEFT" \notin f /\ w > 0 /\ "ZEROPAD" \in f /\ sign # <<>> THEN w - 1 ELSE w
           zeros  == Zeros(buf, prec, for, f)
           drop   == DropOf(zeros, base, prec, for, f)
           letter == LetterText(base, f)
           hashed == Cut((SubSeq(zeros, 1, Len(zeros) - drop) \o letter) \o <<"0">>)
           tail   == letter \o <<"0">>
           prefix == PrefixText(base, f)
           z      == IF Padded(f) THEN w - n ELSE prec - n
           m      == Pos(z)
           y      == m - drop
           digits == Reverse(buf)
<1>1. _ntoa_format(buf, FALSE, base, prec, w, f) = _out_rev(Cut(hashed \o sign), f, for)
  BY Zenon DEF _ntoa_format, Zeros, SignText, First, LetterText, DropOf
<1>2. sign = <<>> /\ for = w
  BY SignIs
<1> HIDE DEF sign, for
<1>3. /\ tail \in Seq(Alphabet) /\ prefix \in Seq(Alphabet) /\ letter \in Seq(Alphabet)
      /\ Reverse(tail) = prefix /\ Len(tail) = Len(prefix) /\ Len(prefix) = IF base = 16 \/ base = 2 THEN 2 ELSE 1
  BY PrefixReversed
<1>4. B \in Nat /\ n \in Nat /\ "0" \in Alphabet
  BY SizesAssumption DEF Alphabet, Figures
<1>5. /\ n + 2 <= B /\ prec + 2 <= B /\ ("LEFT" \in f => prec <= n)
      /\ (Padded(f) => prec <= n /\ w <= B)
  BY DEF Roomy
<1>6. z \in Int /\ m \in Nat
  BY <1>4 DEF Pos
<1>7. zeros = buf \o Fill("0", m)
  <2>1. prec <= B /\ (Padded(f) => w <= B)
    BY <1>4, <1>5
  <2>2. zeros = buf \o Fill("0", z)
    BY <1>2, <1>4, <1>5, <2>1, ZerosAre
  <2>3. Pos(z) = Pos(m) /\ m \in Int
    BY <1>6 DEF Pos
  <2> HIDE DEF z, m
  <2>4. Fill("0", z) = Fill("0", m)
    BY <1>6, <2>3, FillSame
  <2> QED  BY <2>2, <2>4
<1>8. Len(zeros) = n + m
  <2>1. m \in Int /\ Pos(m) = m
    BY <1>6 DEF Pos
  <2> DEFINE g == Fill("0", m)
  <2> HIDE DEF m
  <2>2. g \in Seq(Alphabet) /\ Len(g) = m
    BY <1>4, <2>1, FillSeq
  <2> HIDE DEF g
  <2>3. Joins(Alphabet, buf, g)
    BY <2>2, Joined
  <2> QED  BY <1>7, <2>2, <2>3 DEF Joins, g
<1> HIDE DEF tail, prefix, letter, zeros
<1>16. Len(prefix) \in 1 .. 2 /\ Len(tail) \in 1 .. 2
  BY <1>3
<1>9. /\ drop \in Nat /\ drop <= m /\ y \in Nat /\ n + y + Len(prefix) <= B
      /\ Pos(y) = Pos(ZerosOf(f, w, prefix, prec - n, digits))
  <2>1. Len(digits) = n
    BY Reversed
  <2>2. ZerosOf(f, w, prefix, prec - n, digits) = IF Padded(f) THEN w - (Len(prefix) + Pos(prec - n) + n) ELSE prec - n
    BY <2>1, Zenon DEF ZerosOf
  <2>3. /\ n >= 1 /\ ("PRECISION" \notin f => prec = 0) /\ ("ZEROPAD" \in f => "PRECISION" \notin f)
        /\ "PRECISION" \notin f => w # n
        /\ "PRECISION" \notin f /\ Padded(f) /\ base = 16 => w # n + 1
        /\ "PRECISION" \notin f /\ Padded(f) /\ base = 2 => w <= n
    BY DEF Hashable
  <2>4. drop = IF "PRECISION" \notin f /\ (n + m = prec \/ n + m = w)
                 THEN Min2(n + m, IF base = 16 THEN 2 ELSE 1) ELSE 0
    BY <1>2, <1>8 DEF DropOf
  <2>5. CASE ~Padded(f)
    <3>1. m = Pos(prec - n) /\ ZerosOf(f, w, prefix, prec - n, digits) = prec - n
      BY <2>2, <2>5
    <3>2. drop = 0
      BY <1>4, <2>3, <2>4, <3>1 DEF Pos
    <3>3. Pos(m) = m
      BY <1>6 DEF Pos
    <3>4. n + m + Len(prefix) <= B
      <4>1. n + m = n \/ n + m = prec
        BY <1>4, <3>1 DEF Pos
      <4> DEFINE k == Len(prefix)
      <4>2. k \in 1 .. 2 /\ n \in Nat /\ m \in Nat /\ n + 2 <= B /\ prec + 2 <= B /\ B \in Nat
        BY <1>4, <1>5, <1>6, <1>16
      <4> HIDE DEF k, m, n
      <4>3. n + m + k <= B
        BY <4>1, <4>2
      <4> QED  BY <4>3 DEF k
    <3>5. y = m
      BY <1>6, <3>2
    <3> QED  BY <1>6, <3>1, <3>2, <3>3, <3>4, <3>5
  <2>6. CASE Padded(f) /\ w <= n
    <3>1. m = 0 /\ Pos(prec - n) = 0 /\ Pos(w - (Len(prefix) + 0 + n)) = 0
      BY <1>3, <1>4, <1>5, <2>6 DEF Pos
    <3>2. "PRECISION" \notin f
      BY <2>3, <2>6 DEF Padded
    <3>3. drop = 0
      BY <1>4, <2>3, <2>4, <2>6, <3>1, <3>2
    <3>4. y = 0 /\ Pos(y) = 0 /\ n + y + Len(prefix) <= B
      <4>1. y = 0
        BY <3>1, <3>3
      <4> DEFINE k == Len(prefix)
      <4>2. k \in 1 .. 2 /\ n \in Nat /\ n + 2 <= B /\ B \in Nat
        BY <1>4, <1>5, <1>16
      <4> HIDE DEF k, y, n
      <4>3. n + y + k <= B /\ Pos(y) = 0
        BY <4>1, <4>2 DEF Pos
      <4> QED  BY <4>1, <4>3 DEF k
    <3>5. Pos(ZerosOf(f, w, prefix, prec - n, digits)) = 0
      BY <2>2, <2>6, <3>1
    <3> QED  BY <3>1, <3>3, <3>4, <3>5
  <2>7. CASE Padded(f) /\ ~(w <= n)
    <3>1. "PRECISION" \notin f /\ prec = 0
      BY <2>3, <2>7 DEF Padded
    <3>2. m = w - n /\ n + m = w /\ Pos(prec - n) = 0
      BY <1>4, <2>3, <2>7, <3>1 DEF Pos
    <3>3. base # 2 /\ (base = 16 => w >= n + 2)
      BY <1>4, <2>3, <2>7, <3>1
    <3>4. drop = Len(prefix) /\ Len(prefix) \in 1 .. 2 /\ (Len(prefix) = 2 => w >= n + 2)
      BY <1>3, <1>4, <2>3, <2>4, <2>7, <3>1, <3>2, <3>3 DEF Min2
    <3>5. y = w - n - Len(prefix) /\ y >= 0 /\ Pos(y) = y /\ drop <= m /\ n + y + Len(prefix) <= B /\ y \in Nat
      BY <1>4, <1>5, <2>7, <3>2, <3>4 DEF Pos
    <3>6. ZerosOf(f, w, prefix, prec - n, digits) = y
      <4>1. ZerosOf(f, w, prefix, prec - n, digits) = w - (Len(prefix) + 0 + n)
        BY <2>2, <2>7, <3>2
      <4> HIDE DEF y
      <4> QED  BY <1>4, <3>4, <3>5, <4>1
    <3> QED  BY <3>4, <3>5, <3>6
  <2> QED  BY <2>5, <2>6, <2>7
<1> DEFINE v == (buf \o Fill("0", y)) \o tail
<1> HIDE DEF z, m, drop
<1>10. SubSeq(zeros, 1, Len(zeros) - drop) = buf \o Fill("0", y)
  <2>1. SubSeq(buf \o Fill("0", m), 1, Len(buf) + m - drop) = buf \o Fill("0", m - drop)
    BY <1>4, <1>6, <1>9, Shortened
  <2>2. Len(zeros) - drop = Len(buf) + m - drop
    BY <1>4, <1>6, <1>8, <1>9
  <2> QED  BY <1>7, <2>1, <2>2, Zenon DEF y
<1> HIDE DEF y
<1>11. (SubSeq(zeros, 1, Len(zeros) - drop) \o letter) \o <<"0">> = v
  <2> DEFINE x == buf \o Fill("0", y)  o == <<"0">>
  <2>1. x \in Seq(Alphabet) /\ o \in Seq(Alphabet)
    <3>1. Fill("0", y) \in Seq(Alphabet)
      BY <1>4, <1>9, FillSeq
    <3> HIDE DEF y
    <3>2. Joins(Alphabet, buf, Fill("0", y))
      BY <3>1, Joined
    <3> QED  BY <1>4, <3>2 DEF Joins
  <2> HIDE DEF x, o
  <2>2. Regroups(x, letter, o)
    BY <1>3, <2>1, Regrouped
  <2>3. (x \o letter) \o o = x \o (letter \o o)
    BY <2>2, Zenon DEF Regroups
  <2> QED  BY <1>10, <2>3, Zenon DEF x, o, tail
<1>12. Cut(v) = v /\ v \in Seq(Alphabet) /\ Reverse(v) = (prefix \o Fill("0", y)) \o digits
  <2>1. y \in Int /\ Len(buf) + Pos(y) + Len(tail) <= B
    <3>1. y \in Nat /\ Len(tail) = Len(prefix) /\ n + y + Len(prefix) <= B
      BY <1>3, <1>9
    <3>2. Pos(y) = y
      BY <3>1 DEF Pos
    <3> QED  BY <3>1, <3>2
  <2>2. Writes(Alphabet, buf, y, tail)
    BY <1>3, <1>4, <2>1, Written
  <2> QED  BY <1>3, <2>2, Zenon DEF Writes
<1> HIDE DEF v, digits
<1>13. Cut(hashed \o sign) = v
  <2>1. hashed = v
    BY <1>11, <1>12
  <2> HIDE DEF hashed
  <2>2. v \o <<>> = v
    BY <1>12, ConcatEmptySeq
  <2> QED  BY <1>2, <1>12, <2>1, <2>2
<1>14. Turned(v, f, w, prefix, prec - n, digits, for)
  <2>1. digits \in Seq(Alphabet)
    BY Reversed DEF digits
  <2>2. prec - n \in Int /\ y \in Int
    BY <1>4, <1>9
  <2> QED  BY <1>2, <1>3, <1>9, <1>12, <2>1, <2>2, Zenon DEF Turned
<1>15. _out_rev(v, f, for) = Laid(f, w, prefix, prec - n, digits)
  BY <1>14, LaidIs
<1> QED  BY <1>1, <1>13, <1>15, Zenon DEF prefix, digits

-----------------------------------------------------------------------------
(* The flags of a number *)

LEMMA SpelledFlags ==
  ASSUME NEW d, Facts(d)
  PROVE  /\ "ZEROPAD" \in FlagsOf(d) <=> Has(d, "0")
         /\ "PLUS" \in FlagsOf(d) <=> Has(d, "+")
         /\ "SPACE" \in FlagsOf(d) <=> Has(d, " ")
         /\ "HASH" \in FlagsOf(d) <=> Has(d, "#")
         /\ "UPPERCASE" \notin FlagsOf(d)
         /\ \A x \in {"LONG", "CHAR", "SHORT"} : x \in FlagsOf(d) <=> x \in LengthFlags(d.length)
<1>1. d.flags \in Seq(DOMAIN FlagOf)
  BY DEF Facts, WellFormed
<1>2. \A k \in DOMAIN d.flags : d.flags[k] \in {"0", "-", "+", " ", "#"}
  <2>1. DOMAIN d.flags = 1 .. Len(d.flags) /\ \A k \in 1 .. Len(d.flags) : d.flags[k] \in DOMAIN FlagOf
    BY <1>1, ElementOfSeq
  <2> QED  BY <2>1, Strings
<1>3. \A x \in {"0", "-", "+", " ", "#"} :
        /\ FlagOf[x] = "ZEROPAD" <=> x = "0"
        /\ FlagOf[x] = "PLUS" <=> x = "+"
        /\ FlagOf[x] = "SPACE" <=> x = " "
        /\ FlagOf[x] = "HASH" <=> x = "#"
        /\ FlagOf[x] \in {"ZEROPAD", "LEFT", "PLUS", "SPACE", "HASH"}
  BY DEF FlagOf
<1>4. /\ "ZEROPAD" \in FlagsSpelled(d) <=> Has(d, "0")
      /\ "PLUS" \in FlagsSpelled(d) <=> Has(d, "+")
      /\ "SPACE" \in FlagsSpelled(d) <=> Has(d, " ")
      /\ "HASH" \in FlagsSpelled(d) <=> Has(d, "#")
  BY <1>2, <1>3 DEF FlagsSpelled, Has
<1>5. FlagsSpelled(d) \subseteq {"ZEROPAD", "LEFT", "PLUS", "SPACE", "HASH"}
  BY <1>2, <1>3 DEF FlagsSpelled
<1>6. LengthFlags(d.length) \subseteq {"SHORT", "CHAR", "LONG"}
  BY DEF LengthFlags
<1> DEFINE S == FlagsSpelled(d)  L == LengthFlags(d.length)
           A == IF d.width.n < 0 THEN {"LEFT"} ELSE {}  P == IF d.precision.text # <<>> THEN {"PRECISION"} ELSE {}
<1>7. FlagsOf(d) = ((S \union A) \union P) \union L
  BY Zenon DEF FlagsOf
<1>8. A \subseteq {"LEFT"} /\ P \subseteq {"PRECISION"}
  OBVIOUS
<1> HIDE DEF S, L, A, P
<1>9. S \subseteq {"ZEROPAD", "LEFT", "PLUS", "SPACE", "HASH"} /\ L \subseteq {"SHORT", "CHAR", "LONG"}
  BY <1>5, <1>6 DEF S, L
<1>10. \A x : x \in FlagsOf(d) <=> (x \in S \/ x \in A \/ x \in P \/ x \in L)
  BY <1>7
<1>11. /\ "ZEROPAD" \in FlagsOf(d) <=> "ZEROPAD" \in S
       /\ "PLUS" \in FlagsOf(d) <=> "PLUS" \in S
       /\ "SPACE" \in FlagsOf(d) <=> "SPACE" \in S
       /\ "HASH" \in FlagsOf(d) <=> "HASH" \in S
       /\ "UPPERCASE" \notin FlagsOf(d)
  BY <1>8, <1>9, <1>10
<1>12. \A x \in {"LONG", "CHAR", "SHORT"} : x \in FlagsOf(d) <=> x \in L
  BY <1>8, <1>9, <1>10
<1> QED  BY <1>4, <1>11, <1>12 DEF S, L

LEMMA TypeIs == ASSUME NEW d, Facts(d) PROVE TypeValues(FlagsOf(d)) = Values[TypeOf(d)]
<1> DEFINE l == d.length  F == FlagsOf(d)
<1>1. \A x \in {"LONG", "CHAR", "SHORT"} : x \in F <=> x \in LengthFlags(l)
  BY SpelledFlags
<1>2. /\ <<"h", "h">> # <<"h">> /\ <<"h", "h">> # <<>> /\ <<"h">> # <<>>
  <2>1. Len(<<"h", "h">>) = 2 /\ Len(<<"h">>) = 1 /\ Len(<<>>) = 0
    BY EmptySeq
  <2> QED  BY <2>1
<1> HIDE DEF F
<1>3. CASE l = <<"h", "h">>
  <2>1. LengthFlags(l) = {"SHORT", "CHAR"} /\ TypeOf(d) = "char"
    BY <1>2, <1>3 DEF LengthFlags, TypeOf
  <2>2. "LONG" \notin F /\ "CHAR" \in F
    BY <1>1, <2>1
  <2> QED  BY <2>1, <2>2 DEF TypeValues, F
<1>4. CASE l = <<"h">>
  <2>1. LengthFlags(l) = {"SHORT"} /\ TypeOf(d) = "short"
    BY <1>2, <1>4 DEF LengthFlags, TypeOf
  <2>2. "LONG" \notin F /\ "CHAR" \notin F /\ "SHORT" \in F
    BY <1>1, <2>1
  <2> QED  BY <2>1, <2>2 DEF TypeValues, F
<1>5. CASE l = <<>>
  <2>1. LengthFlags(l) = {} /\ TypeOf(d) = "int"
    BY <1>2, <1>5 DEF LengthFlags, TypeOf
  <2>2. "LONG" \notin F /\ "CHAR" \notin F /\ "SHORT" \notin F
    BY <1>1, <2>1
  <2> QED  BY <2>1, <2>2 DEF TypeValues, F
<1>6. CASE l # <<"h", "h">> /\ l # <<"h">> /\ l # <<>>
  <2>1. LengthFlags(l) = {"LONG"} /\ TypeOf(d) = "long"
    BY <1>6 DEF LengthFlags, TypeOf
  <2>2. "LONG" \in F
    BY <1>1, <2>1
  <2> QED  BY <2>1, <2>2 DEF TypeValues, F
<1> QED  BY <1>3, <1>4, <1>5, <1>6

\* A register, read as a signed number
LEMMA SignedIs ==
  ASSUME NEW a \in Int, NEW m \in Nat \ {0}
  PROVE  Signed(a, m) = IF a % m >= m - m \div 2 THEN (a % m) - m ELSE a % m
<1> DEFINE h == m \div 2  r == a % m  q == a \div m
<1>1. h \in Nat /\ 2 * h <= m /\ m <= 2 * h + 1 /\ h < m
  OBVIOUS
<1>2. r \in 0 .. m - 1 /\ q \in Int /\ a = m * q + r
  OBVIOUS
<1> HIDE DEF h, r, q
<1>3. ASSUME NEW c \in Int, NEW e \in 0 .. m - 1, NEW x \in Int, x = m * c + e PROVE x % m = e
  BY <1>3
<1>4. (a + h) % m = IF r >= m - h THEN r + h - m ELSE r + h
  <2>1. CASE r >= m - h
    <3> DEFINE c == q + 1  e == r + h - m  x == a + h
    <3>1. e \in 0 .. m - 1 /\ c \in Int /\ x \in Int
      BY <1>1, <1>2, <2>1
    <3>2. m * (q + 1) = m * q + m
      BY <1>2
    <3>3. x = m * c + e
      BY <1>1, <1>2, <3>2
    <3> HIDE DEF c, e, x
    <3>4. x % m = e
      BY <1>3, <3>1, <3>3
    <3> QED  BY <2>1, <3>4 DEF x, e
  <2>2. CASE ~(r >= m - h)
    <3> DEFINE e == r + h  x == a + h
    <3>1. e \in 0 .. m - 1 /\ x \in Int
      BY <1>1, <1>2, <2>2
    <3>2. x = m * q + e
      BY <1>1, <1>2
    <3> HIDE DEF e, x
    <3>3. x % m = e
      BY <1>2, <1>3, <3>1, <3>2
    <3> QED  BY <2>2, <3>3 DEF x, e
  <2> QED  BY <2>1, <2>2
<1>5. Signed(a, m) = ((a + h) % m) - h
  BY DEF Signed, h
<1>6. Signed(a, m) = IF r >= m - h THEN r - m ELSE r
  BY <1>1, <1>2, <1>4, <1>5
<1> QED  BY <1>6 DEF r, h

LEMMA NumberIs ==
  ASSUME NEW d, Facts(d), d.specifier \in DOMAIN Base
  PROVE  /\ NumberOf(d) \in Int /\ Abs(NumberOf(d)) \in Nat
         /\ d.specifier \notin {"d", "i"} => NumberOf(d) \in Nat
         /\ NumberOf(d) = IF d.specifier \in {"d", "i"} THEN Signed(d.arg.n, TypeValues(FlagsOf(d)))
                          ELSE d.arg.n % TypeValues(FlagsOf(d))
<1> DEFINE m == Values[TypeOf(d)]  a == d.arg.n
<1>1. m \in Nat \ {0} /\ TypeValues(FlagsOf(d)) = m
  <2>1. TypeOf(d) \in {"char", "short", "int", "long"}
    BY DEF TypeOf
  <2> QED  BY <2>1, TypeIs, ValuesAssumption
<1>2. a \in Int
  BY DEF Facts, WellFormed
<1>3. NumberOf(d) = IF d.specifier \in {"d", "i"} /\ a % m >= m - m \div 2 THEN (a % m) - m ELSE a % m
  BY DEF NumberOf
<1> HIDE DEF m, a
<1>4. a % m \in Nat
  BY <1>1, <1>2
<1>5. Signed(a, m) = IF a % m >= m - m \div 2 THEN (a % m) - m ELSE a % m
  BY <1>1, <1>2, SignedIs
<1>6. NumberOf(d) \in Int
  BY <1>1, <1>3, <1>4
<1>7. Abs(NumberOf(d)) \in Nat
  BY <1>6 DEF Abs
<1> QED  BY <1>1, <1>3, <1>4, <1>5, <1>6, <1>7 DEF a

-----------------------------------------------------------------------------
(* Capitals *)

\* Capitals for %X
Cased(d, text) == IF d.specifier = "X" THEN Upper(text) ELSE text

LEMMA CasedJoined ==
  ASSUME NEW d, NEW s \in Seq(Alphabet), NEW t \in Seq(Alphabet) PROVE Cased(d, s \o t) = Cased(d, s) \o Cased(d, t)
BY UpperJoined, Zenon DEF Cased

LEMMA CasedFill ==
  ASSUME NEW d, NEW c \in {"0", " "}, NEW n \in Int PROVE Cased(d, Fill(c, n)) = Fill(c, n)
BY UpperFill, Zenon DEF Cased

LEMMA CasedType ==
  ASSUME NEW d, NEW s \in Seq(Alphabet) PROVE Cased(d, s) \in Seq(Alphabet) /\ Len(Cased(d, s)) = Len(s)
BY UpperType DEF Cased

\* A part with its zeros, or blanks
LEMMA CasedThree ==
  ASSUME NEW d, NEW s \in Seq(Alphabet), NEW n \in Int, NEW t \in Seq(Alphabet)
  PROVE  /\ Cased(d, (s \o Fill("0", n)) \o t) = (Cased(d, s) \o Fill("0", n)) \o Cased(d, t)
         /\ (s \o Fill("0", n)) \o t \in Seq(Alphabet)
         /\ Len((s \o Fill("0", n)) \o t) = Len(s) + Pos(n) + Len(t)
<1> DEFINE f == Fill("0", n)  sf == s \o f
<1>1. f \in Seq(Alphabet) /\ Len(f) = Pos(n)
  <2>1. "0" \in Alphabet
    BY DEF Alphabet, Figures
  <2> QED  BY <2>1, FillSeq
<1>2. Cased(d, f) = f
  <2>1. "0" \in {"0", " "}
    OBVIOUS
  <2> QED  BY <2>1, CasedFill
<1> HIDE DEF f
<1>3. sf \in Seq(Alphabet) /\ Len(sf) = Len(s) + Pos(n)
  <2>1. Joins(Alphabet, s, f)
    BY <1>1, Joined
  <2> QED  BY <1>1, <2>1 DEF Joins
<1>4. Cased(d, sf) = Cased(d, s) \o f
  <2>1. Cased(d, s \o f) = Cased(d, s) \o Cased(d, f)
    BY <1>1, CasedJoined
  <2> QED  BY <1>2, <2>1
<1> HIDE DEF sf
<1>5. Cased(d, sf \o t) = Cased(d, sf) \o Cased(d, t)
  BY <1>3, CasedJoined
<1>6. sf \o t \in Seq(Alphabet) /\ Len(sf \o t) = Len(s) + Pos(n) + Len(t)
  <2>1. Joins(Alphabet, sf, t)
    BY <1>3, Joined
  <2> QED  BY <1>3, <2>1 DEF Joins
<1> QED  BY <1>4, <1>5, <1>6 DEF sf, f

LEMMA CasedJustify ==
  ASSUME NEW d, NEW s \in Seq(Alphabet), NEW f, NEW w \in Nat
  PROVE  Cased(d, Justify(s, f, w)) = Justify(Cased(d, s), f, w)
<1> DEFINE n == w - Len(s)  b == Fill(" ", n)  c == Cased(d, s)
<1>1. n \in Int
  OBVIOUS
<1>2. b \in Seq(Alphabet) /\ Cased(d, b) = b
  <2>1. " " \in Alphabet /\ " " \in {"0", " "}
    BY DEF Alphabet, Signs
  <2> HIDE DEF n
  <2> QED  BY <1>1, <2>1, FillSeq, CasedFill
<1>3. c \in Seq(Alphabet) /\ Len(c) = Len(s)
  BY CasedType
<1>4. Fill(" ", w - Len(c)) = b
  BY <1>3
<1> HIDE DEF b, c
<1>5. CASE "LEFT" \in f
  <2>1. Justify(s, f, w) = s \o b /\ Justify(c, f, w) = c \o Fill(" ", w - Len(c))
    BY <1>5, Zenon DEF Justify, Pad, b, n
  <2>2. Cased(d, s \o b) = Cased(d, s) \o Cased(d, b)
    BY <1>2, CasedJoined
  <2> QED  BY <1>2, <1>4, <2>1, <2>2, Zenon DEF c
<1>6. CASE "LEFT" \notin f
  <2>1. Justify(s, f, w) = b \o s /\ Justify(c, f, w) = Fill(" ", w - Len(c)) \o c
    BY <1>6, Zenon DEF Justify, Pad, b, n
  <2>2. Cased(d, b \o s) = Cased(d, b) \o Cased(d, s)
    BY <1>2, CasedJoined
  <2> QED  BY <1>2, <1>4, <2>1, <2>2, Zenon DEF c
<1> QED  BY <1>5, <1>6

LEMMA CasedLaid ==
  ASSUME NEW d, NEW f, NEW w \in Nat, NEW p \in Seq(Alphabet), NEW z \in Int, NEW t \in Seq(Alphabet)
  PROVE  Cased(d, Laid(f, w, p, z, t)) = Laid(f, w, Cased(d, p), z, Cased(d, t))
<1> DEFINE number == (p \o Fill("0", z)) \o t  other == (Cased(d, p) \o Fill("0", z)) \o Cased(d, t)
           m == w - Len(number)
<1>1. Cased(d, number) = other /\ number \in Seq(Alphabet)
  BY CasedThree
<1>2. Len(other) = Len(number) /\ Len(number) \in Nat
  <2> HIDE DEF number, other
  <2> QED  BY <1>1, CasedType
<1> HIDE DEF number, other
<1>3. Laid(f, w, p, z, t) = IF Padded(f) THEN (p \o Fill("0", m)) \o t ELSE Justify(number, f, w)
  BY Zenon DEF Laid, number, m
<1>4. Laid(f, w, Cased(d, p), z, Cased(d, t))
        = IF Padded(f) THEN (Cased(d, p) \o Fill("0", m)) \o Cased(d, t) ELSE Justify(other, f, w)
  <2>1. w - Len(other) = m
    BY <1>2
  <2> QED  BY <2>1, Zenon DEF Laid, other
<1>5. m \in Int
  BY <1>2
<1> HIDE DEF m
<1>6. Cased(d, (p \o Fill("0", m)) \o t) = (Cased(d, p) \o Fill("0", m)) \o Cased(d, t)
  BY <1>5, CasedThree
<1>7. Cased(d, Justify(number, f, w)) = Justify(other, f, w)
  BY <1>1, CasedJustify
<1> QED  BY <1>3, <1>4, <1>6, <1>7, Zenon

-----------------------------------------------------------------------------
(* A number as C prints it, and as the code does *)

LEMMA FactsIf == ASSUME NEW d, WellFormed(d), d.specifier # "text" PROVE Facts(d)
<1>2. Parts(d) /\ Borders(d) /\ FieldFacts(d)
  BY PartsAreTexts, BordersOf, FieldFactsOf
<1>3. Layout(d)
  BY <1>2, LayoutOf
<1>4. d.arg \in ArgumentType1
  BY DEF WellFormed, ArgumentType1
<1>5. Takes(d)
  BY <1>2, <1>4, TakesOf DEF FieldFacts
<1> QED  BY <1>2, <1>3, <1>5 DEF Facts

\* The flags that a number is put out with
NumberFlags(d) ==
  IF NumberOf(d) = 0 THEN IntegerFlags(d.specifier, FlagsOf(d)) \ {"HASH"} ELSE IntegerFlags(d.specifier, FlagsOf(d))

LEMMA NumberFlagFacts ==
  ASSUME NEW d, Facts(d), d.specifier \in DOMAIN Base
  PROVE  LET f == NumberFlags(d)
         IN  /\ "LEFT" \in f <=> OnTheLeft(d)
             /\ "PRECISION" \in f <=> d.precision.n >= 0
             /\ "ZEROPAD" \in f <=> Has(d, "0") /\ d.precision.n < 0
             /\ "UPPERCASE" \in f <=> d.specifier = "X"
             /\ "HASH" \in f <=> Has(d, "#") /\ Base[d.specifier] # 10 /\ NumberOf(d) # 0
             /\ "PLUS" \in f <=> Has(d, "+") /\ d.specifier \in {"d", "i"}
             /\ "SPACE" \in f <=> Has(d, " ") /\ d.specifier \in {"d", "i"}
             /\ "PRECISION" \in IntegerFlags(d.specifier, FlagsOf(d)) <=> d.precision.n >= 0
             /\ "UPPERCASE" \in IntegerFlags(d.specifier, FlagsOf(d)) <=> d.specifier = "X"
<1> DEFINE f == NumberFlags(d)  s == d.specifier  F == FlagsOf(d)  g == IntegerFlags(s, F)
           up == IF s = "X" THEN {"UPPERCASE"} ELSE {}
           a == IF Base[s] = 10 THEN {"HASH"} ELSE {}
           b == IF s \in {"d", "i"} THEN {} ELSE {"PLUS", "SPACE"}
           c == IF "PRECISION" \in F THEN {"ZEROPAD"} ELSE {}
           h == IF NumberOf(d) = 0 THEN {"HASH"} ELSE {}
<1>1. g = (F \union up) \ ((a \union b) \union c)
  BY Zenon DEF IntegerFlags
<1>2. \A x : x \in up <=> (x = "UPPERCASE" /\ s = "X")
  OBVIOUS
<1>3. \A x : x \in a <=> (x = "HASH" /\ Base[s] = 10)
  OBVIOUS
<1>4. \A x : x \in b <=> ((x = "PLUS" \/ x = "SPACE") /\ s \notin {"d", "i"})
  OBVIOUS
<1>5. \A x : x \in c <=> (x = "ZEROPAD" /\ "PRECISION" \in F)
  OBVIOUS
<1>6. \A x : x \in f <=> (x \in g /\ ~(x = "HASH" /\ NumberOf(d) = 0))
  <2>1. f = IF NumberOf(d) = 0 THEN g \ {"HASH"} ELSE g
    BY Zenon DEF NumberFlags
  <2> HIDE DEF f, g
  <2> QED  BY <2>1
<1>7. /\ "ZEROPAD" \in F <=> Has(d, "0")
      /\ "PLUS" \in F <=> Has(d, "+")
      /\ "SPACE" \in F <=> Has(d, " ")
      /\ "HASH" \in F <=> Has(d, "#")
      /\ "UPPERCASE" \notin F
  BY SpelledFlags
<1>8. /\ "LEFT" \in F <=> OnTheLeft(d)
      /\ "PRECISION" \in F <=> d.precision.text # <<>>
  BY FlagFacts
<1>9. d.precision.text # <<>> <=> d.precision.n >= 0
  BY PrecisionFacts
<1>12. ~(d.precision.n >= 0) <=> d.precision.n < 0
  BY DEF Facts, FieldFacts
<1> HIDE DEF f, g, F, up, a, b, c
<1>10. \A x : x \in g <=> ((x \in F \/ x \in up) /\ x \notin a /\ x \notin b /\ x \notin c)
  BY <1>1
<1>11. /\ "LEFT" \in g <=> OnTheLeft(d)
       /\ "PRECISION" \in g <=> d.precision.n >= 0
       /\ "ZEROPAD" \in g <=> Has(d, "0") /\ d.precision.n < 0
       /\ "UPPERCASE" \in g <=> s = "X"
       /\ "HASH" \in g <=> Has(d, "#") /\ Base[s] # 10
       /\ "PLUS" \in g <=> Has(d, "+") /\ s \in {"d", "i"}
       /\ "SPACE" \in g <=> Has(d, " ") /\ s \in {"d", "i"}
  <2>1. "LEFT" \in g <=> OnTheLeft(d)
    BY <1>2, <1>3, <1>4, <1>5, <1>8, <1>10
  <2>2. "PRECISION" \in g <=> d.precision.n >= 0
    BY <1>2, <1>3, <1>4, <1>5, <1>8, <1>9, <1>10
  <2>3. "ZEROPAD" \in g <=> Has(d, "0") /\ d.precision.n < 0
    <3>1. "ZEROPAD" \in g <=> "ZEROPAD" \in F /\ "PRECISION" \notin F
      BY <1>2, <1>3, <1>4, <1>5, <1>10
    <3>2. "PRECISION" \notin F <=> d.precision.n < 0
      BY <1>8, <1>9, <1>12
    <3> QED  BY <1>7, <3>1, <3>2
  <2>4. "UPPERCASE" \in g <=> s = "X"
    BY <1>2, <1>3, <1>4, <1>5, <1>7, <1>10
  <2>5. "HASH" \in g <=> Has(d, "#") /\ Base[s] # 10
    <3>1. "HASH" \notin up /\ "HASH" \notin b /\ "HASH" \notin c
      BY <1>2, <1>3, <1>4, <1>5
    <3>2. "HASH" \in a <=> Base[s] = 10
      BY <1>3, <1>4
    <3>3. "HASH" \in g <=> "HASH" \in F /\ "HASH" \notin a
      BY <1>10, <3>1
    <3> QED  BY <1>7, <3>2, <3>3
  <2>6. "PLUS" \in g <=> Has(d, "+") /\ s \in {"d", "i"}
    <3>1. "PLUS" \notin up /\ "PLUS" \notin a /\ "PLUS" \notin c
      BY <1>2, <1>3, <1>4, <1>5
    <3>2. "PLUS" \in b <=> s \notin {"d", "i"}
      BY <1>3, <1>4
    <3>3. "PLUS" \in g <=> "PLUS" \in F /\ "PLUS" \notin b
      BY <1>10, <3>1
    <3> QED  BY <1>7, <3>2, <3>3
  <2>7. "SPACE" \in g <=> Has(d, " ") /\ s \in {"d", "i"}
    <3>1. "SPACE" \notin up /\ "SPACE" \notin a /\ "SPACE" \notin c
      BY <1>2, <1>3, <1>4, <1>5
    <3>2. "SPACE" \in b <=> s \notin {"d", "i"}
      BY <1>3, <1>4
    <3>3. "SPACE" \in g <=> "SPACE" \in F /\ "SPACE" \notin b
      BY <1>10, <3>1
    <3> QED  BY <1>7, <3>2, <3>3
  <2> QED  BY <2>1, <2>2, <2>3, <2>4, <2>5, <2>6, <2>7
<1>13. /\ "LEFT" \in f <=> "LEFT" \in g
       /\ "PRECISION" \in f <=> "PRECISION" \in g
       /\ "ZEROPAD" \in f <=> "ZEROPAD" \in g
       /\ "UPPERCASE" \in f <=> "UPPERCASE" \in g
       /\ "HASH" \in f <=> "HASH" \in g /\ NumberOf(d) # 0
       /\ "PLUS" \in f <=> "PLUS" \in g
       /\ "SPACE" \in f <=> "SPACE" \in g
  BY <1>6
<1> QED  BY <1>11, <1>13 DEF f, g, F

\* The digits that C prints, and how many they are
DigitsMeant(d) ==
  IF NumberOf(d) = 0 /\ d.precision.n = 0 THEN <<>> ELSE DigitsOf(Abs(NumberOf(d)), Base[d.specifier])

ZerosMeant(d) == Fill("0", d.precision.n - Len(DigitsMeant(d)))

\* What C prints for a number, in terms of the code's flags
LEMMA NumberMeant ==
  ASSUME NEW d, Facts(d), d.specifier \in DOMAIN Base
  PROVE  NumberText(d) = Cased(d, Laid(NumberFlags(d), Abs(d.width.n), PrefixOf(d, ZerosMeant(d)),
                                       d.precision.n - Len(DigitsMeant(d)), DigitsMeant(d)))
<1> DEFINE prec   == d.precision.n
           digits == DigitsMeant(d)
           zeros  == Fill("0", prec - Len(digits))
           prefix == PrefixOf(d, zeros)
           number == (prefix \o zeros) \o digits
           wide   == (prefix \o Fill("0", Abs(d.width.n) - Len(number))) \o digits
           text   == IF Has(d, "0") /\ prec < 0 /\ ~OnTheLeft(d) THEN wide ELSE Aligned(d, number)
           f      == NumberFlags(d)
<1>1. NumberText(d) = Cased(d, text)
  BY Zenon DEF NumberText, Cased, DigitsMeant
<1>2. /\ "LEFT" \in f <=> OnTheLeft(d)
      /\ Padded(f) <=> Has(d, "0") /\ prec < 0 /\ ~OnTheLeft(d)
  BY NumberFlagFacts DEF Padded
<1>3. Justify(number, f, Abs(d.width.n)) = Aligned(d, number)
  <2> HIDE DEF f, number
  <2> QED  BY <1>2, Zenon DEF Justify, Aligned, Pad
<1>4. Laid(f, Abs(d.width.n), prefix, prec - Len(digits), digits) = text
  <2>1. Laid(f, Abs(d.width.n), prefix, prec - Len(digits), digits)
          = IF Padded(f) THEN wide ELSE Justify(number, f, Abs(d.width.n))
    BY Zenon DEF Laid
  <2> HIDE DEF f, number, wide, prefix, digits
  <2> QED  BY <1>2, <1>3, <2>1
<1>5. zeros = ZerosMeant(d)
  BY Zenon DEF ZerosMeant
<1> QED  BY <1>1, <1>4, <1>5, Zenon

\* What the code prints for it
LEMMA NumberPut ==
  ASSUME NEW d, Facts(d), d.specifier \in DOMAIN Base
  PROVE  \E negative \in BOOLEAN :
           /\ negative <=> NumberOf(d) < 0
           /\ IntegerText(d.specifier, d.arg.n, FlagsOf(d), Abs(d.width.n), PrecisionOf(d))
                = _ntoa_format(IF d.precision.n < 0 \/ NumberOf(d) # 0
                                 THEN Digits(Abs(NumberOf(d)), Base[d.specifier], IntegerFlags(d.specifier, FlagsOf(d)))
                                 ELSE <<>>,
                               negative, Base[d.specifier], PrecisionOf(d), Abs(d.width.n), NumberFlags(d))
<1> DEFINE s == d.specifier  F == FlagsOf(d)  g == IntegerFlags(s, F)  w == Abs(d.width.n)  prec == PrecisionOf(d)
           value == IF s \in {"d", "i"} THEN Signed(d.arg.n, TypeValues(F)) ELSE d.arg.n % TypeValues(F)
           u == IF value < 0 THEN -value ELSE value
           buf == IF "PRECISION" \notin g \/ u # 0 THEN Digits(u, Base[s], g) ELSE <<>>
           negative == value < 0
<1>1. value = NumberOf(d) /\ NumberOf(d) \in Int
  BY NumberIs
<1>2. IntegerText(s, d.arg.n, F, w, prec) = _ntoa(u, negative, Base[s], prec, w, g)
  BY Zenon DEF IntegerText
<1>3. _ntoa(u, negative, Base[s], prec, w, g)
        = _ntoa_format(buf, negative, Base[s], prec, w, IF u = 0 THEN g \ {"HASH"} ELSE g)
  BY Zenon DEF _ntoa
<1> HIDE DEF value
<1>4. u = Abs(NumberOf(d)) /\ (u = 0 <=> NumberOf(d) = 0)
  BY <1>1 DEF Abs
<1>5. (IF u = 0 THEN g \ {"HASH"} ELSE g) = NumberFlags(d)
  <2> HIDE DEF u
  <2> QED  BY <1>4, Zenon DEF NumberFlags
<1>6. "PRECISION" \notin g <=> d.precision.n < 0
  <2>1. "PRECISION" \in g <=> d.precision.n >= 0
    BY NumberFlagFacts
  <2>2. d.precision.n \in Int
    BY DEF Facts, FieldFacts
  <2> HIDE DEF g
  <2> QED  BY <2>1, <2>2
<1>7. buf = IF d.precision.n < 0 \/ NumberOf(d) # 0 THEN Digits(Abs(NumberOf(d)), Base[s], g) ELSE <<>>
  <2> HIDE DEF u, g
  <2> QED  BY <1>4, <1>6
<1>8. negative \in BOOLEAN /\ (negative <=> NumberOf(d) < 0)
  BY <1>1
<1> HIDE DEF negative, buf, u
<1> QED  BY <1>2, <1>3, <1>5, <1>7, <1>8, Zenon

LEMMA BaseFacts ==
  ASSUME NEW s \in DOMAIN Base
  PROVE  /\ Base[s] \in {2, 8, 10, 16}
         /\ s \in {"d", "i"} => Base[s] = 10
         /\ s = "X" => Base[s] = 16
<1>1. s \in {"d", "i", "u", "x", "X", "o", "b"}
  BY Strings
<1>2. Base[s] = CASE s \in {"x", "X"} -> 16 [] s = "o" -> 8 [] s = "b" -> 2 [] OTHER -> 10
  BY <1>1 DEF Base
<1> QED  BY <1>1, <1>2

\* The digits that the code puts out, last one first
BufOf(d) ==
  IF d.precision.n < 0 \/ NumberOf(d) # 0
    THEN Digits(Abs(NumberOf(d)), Base[d.specifier], IntegerFlags(d.specifier, FlagsOf(d)))
    ELSE <<>>

AllDigits(d) == DigitsOf(Abs(NumberOf(d)), Base[d.specifier])
AllCount(d)  == CountOf(Abs(NumberOf(d)), Base[d.specifier])

Counted(d) ==
  /\ AllCount(d) \in 1 .. B - 2 /\ AllDigits(d) \in Seq(Alphabet) /\ Len(AllDigits(d)) = AllCount(d)
  /\ BufOf(d) \in Seq(Alphabet)
  /\ d.precision.n < 0 \/ NumberOf(d) # 0 => Reverse(BufOf(d)) = Cased(d, AllDigits(d)) /\ Len(BufOf(d)) = AllCount(d)
  /\ ~(d.precision.n < 0 \/ NumberOf(d) # 0) => BufOf(d) = <<>>

LEMMA DigitsPut ==
  ASSUME NEW d, Facts(d), d.specifier \in DOMAIN Base, Short(d) PROVE Counted(d)
<1> DEFINE u == Abs(NumberOf(d))  base == Base[d.specifier]  g == IntegerFlags(d.specifier, FlagsOf(d))
           s == Digits(u, base, g)
<1>1. u \in Nat /\ base \in 2 .. 16 /\ B \in Nat
  BY NumberIs, BaseFacts, SizesAssumption
<1>2. PICK m \in 1 .. B - 2 : u < Power(base)[m]
  BY DEF Short
<1>3. m \in 1 .. B /\ base \in Nat \ {0}
  BY <1>1
<1>4. "UPPERCASE" \in g <=> d.specifier = "X"
  BY NumberFlagFacts
<1> HIDE DEF u, base, g
<1>5. CountOf(u, base) \in 1 .. m
  BY <1>1, <1>2, <1>3, CountIs
<1>6. /\ s \in Seq(Alphabet) /\ Len(s) = CountOf(u, base)
  BY <1>1, <1>2, <1>3, DigitsIs
<1>7. /\ DigitsOf(u, base) \in Seq(Alphabet) /\ Len(DigitsOf(u, base)) = CountOf(u, base)
      /\ Reverse(s) = IF "UPPERCASE" \in g THEN Upper(DigitsOf(u, base)) ELSE DigitsOf(u, base)
  BY <1>1, <1>2, <1>3, DigitsReversed
<1> HIDE DEF s
<1>8. CountOf(u, base) \in 1 .. B - 2
  BY <1>1, <1>5
<1>9. Reverse(s) = Cased(d, DigitsOf(u, base))
  BY <1>4, <1>7, Zenon DEF Cased
<1>10. BufOf(d) = IF d.precision.n < 0 \/ NumberOf(d) # 0 THEN s ELSE <<>>
  BY Zenon DEF BufOf, s, u, base, g
<1>11. BufOf(d) \in Seq(Alphabet)
  BY <1>6, <1>10, EmptySeq
<1>12. AllDigits(d) = DigitsOf(u, base) /\ AllCount(d) = CountOf(u, base)
  BY Zenon DEF AllDigits, AllCount, u, base
<1>13. d.precision.n < 0 \/ NumberOf(d) # 0 => Reverse(BufOf(d)) = Cased(d, AllDigits(d)) /\ Len(BufOf(d)) = AllCount(d)
  BY <1>6, <1>9, <1>10, <1>12, Zenon
<1>14. ~(d.precision.n < 0 \/ NumberOf(d) # 0) => BufOf(d) = <<>>
  BY <1>10, Zenon
<1> QED  BY <1>7, <1>8, <1>11, <1>12, <1>13, <1>14 DEF Counted

\* The numbers that a directive consists of
LEMMA NumbersOf ==
  ASSUME NEW d, Facts(d)
  PROVE  /\ Abs(d.width.n) \in Nat /\ d.precision.n \in Int /\ d.precision.n >= -1
         /\ PrecisionOf(d) \in Nat /\ PrecisionOf(d) = Pos(d.precision.n)
<1>1. d.width.n \in Int /\ d.precision.n \in Int
  BY DEF Facts, FieldFacts
<1>2. d.precision.n = -1 \/ d.precision.n \in Nat
  BY PrecisionFacts
<1>3. Abs(d.width.n) \in Nat
  BY <1>1 DEF Abs
<1>4. PrecisionOf(d) = Pos(d.precision.n)
  BY DEF PrecisionOf, Pos
<1>5. Pos(d.precision.n) \in Nat
  BY <1>1 DEF Pos
<1> QED  BY <1>1, <1>2, <1>3, <1>4, <1>5

LEMMA CasedNothing == ASSUME NEW d PROVE Cased(d, <<>>) = <<>>
<1> DEFINE t == Cased(d, <<>>)
<1>1. t \in Seq(Alphabet) /\ Len(t) = 0
  BY CasedType, EmptySeq
<1> HIDE DEF t
<1>2. t = <<>>
  BY <1>1, EmptySeq
<1> QED  BY <1>2 DEF t

\* The prefixes are the same.
LEMMA PrefixSame ==
  ASSUME NEW d, Facts(d), d.specifier \in DOMAIN Base, NEW negative \in BOOLEAN, negative <=> NumberOf(d) < 0,
         NEW zeros, ("HASH" \in NumberFlags(d) /\ Base[d.specifier] = 8) => zeros = <<>>
  PROVE  /\ PrefixOf(d, zeros) \in Seq(Alphabet)
         /\ Cased(d, PrefixOf(d, zeros)) = IF "HASH" \in NumberFlags(d)
                                             THEN PrefixText(Base[d.specifier], NumberFlags(d))
                                             ELSE SignText(negative, NumberFlags(d))
<1> DEFINE s == d.specifier  f == NumberFlags(d)  v == NumberOf(d)  base == Base[s]  prefix == PrefixOf(d, zeros)
<1>1. /\ "HASH" \in f <=> Has(d, "#") /\ base # 10 /\ v # 0
      /\ "UPPERCASE" \in f <=> s = "X"
      /\ "PLUS" \in f <=> Has(d, "+") /\ s \in {"d", "i"}
      /\ "SPACE" \in f <=> Has(d, " ") /\ s \in {"d", "i"}
  BY NumberFlagFacts
<1>2. base \in {2, 8, 10, 16} /\ (s \in {"d", "i"} => base = 10) /\ (s = "X" => base = 16)
  BY BaseFacts
<1>3. "0" \in Alphabet /\ "x" \in Alphabet /\ "b" \in Alphabet /\ "-" \in Alphabet /\ "+" \in Alphabet /\ " " \in Alphabet
  BY DEF Alphabet, Figures, Letters, Signs
<1>4. /\ <<"0", "x">> \in Seq(Alphabet) /\ <<"0", "b">> \in Seq(Alphabet) /\ <<"0">> \in Seq(Alphabet)
      /\ <<"-">> \in Seq(Alphabet) /\ <<"+">> \in Seq(Alphabet) /\ <<" ">> \in Seq(Alphabet) /\ <<>> \in Seq(Alphabet)
  <2>1. /\ \A a \in Alphabet : <<a>> \in Seq(Alphabet)
        /\ \A a, b \in Alphabet : <<a, b>> \in Seq(Alphabet)
    BY ShortSequences
  <2>2. <<>> \in Seq(Alphabet)
    BY EmptySeq
  <2> QED  BY <1>3, <2>1, <2>2, Zenon
<1>5. SignText(negative, f) = IF negative THEN <<"-">> ELSE IF "PLUS" \in f THEN <<"+">>
                              ELSE IF "SPACE" \in f THEN <<" ">> ELSE <<>>
  BY SignIs
<1> HIDE DEF f, base, v
<1>6. CASE "HASH" \in f
  <2>1. s \notin {"d", "i"} /\ Has(d, "#") /\ v # 0 /\ base \in {2, 8, 16} /\ (base = 8 => zeros = <<>>)
    BY <1>1, <1>2, <1>6 DEF f, base
  <2>2. prefix = CASE base = 16 -> <<"0", "x">> [] base = 2 -> <<"0", "b">>
                   [] base = 8 /\ zeros = <<>> -> <<"0">> [] OTHER -> <<>>
    BY <2>1, Zenon DEF PrefixOf, base, v
  <2>3. CASE base = 16
    <3>1. prefix = <<"0", "x">>
      BY <2>2, <2>3
    <3>2. CASE s = "X"
      <4>1. PrefixText(base, f) = <<"0", "X">>
        BY <1>1, <2>3, <3>2 DEF PrefixText
      <4>2. Upper(<<"0", "x">>) = <<"0", "X">>
        <5> DEFINE t == <<"0", "x">>  o == <<"0", "X">>  up == Upper(t)
        <5>1. t \in Seq(Alphabet) /\ Len(t) = 2 /\ t[1] = "0" /\ t[2] = "x"
          BY <1>4
        <5>2. "X" \in Alphabet
          BY DEF Alphabet, Uppers
        <5>3. o \in Seq(Alphabet) /\ Len(o) = 2 /\ o[1] = "0" /\ o[2] = "X"
          <6>1. o \in Seq(Alphabet)
            BY <1>3, <5>2, ShortSequences, Zenon
          <6>2. Len(o) = 2 /\ o[1] = "0" /\ o[2] = "X"
            OBVIOUS
          <6> QED  BY <6>1, <6>2
        <5> HIDE DEF t, o
        <5>4. up \in Seq(Alphabet) /\ Len(up) = Len(t) /\ \A k \in 1 .. Len(t) : up[k] = UpperOf(t[k])
          BY <5>1, UpperType
        <5>5. UpperOf("0") = "0" /\ UpperOf("x") = "X"
          <6>1. "0" \notin {"a", "b", "c", "d", "e", "f"} /\ "x" \notin {"a", "b", "c", "d", "e", "f"} /\ "0" # "x"
            OBVIOUS
          <6> QED  BY <6>1, UpperOthers
        <5> HIDE DEF up
        <5>6. \A k \in 1 .. 2 : up[k] = o[k]
          <6>1. \A k \in 1 .. 2 : k = 1 \/ k = 2
            OBVIOUS
          <6>2. 1 \in 1 .. 2 /\ 2 \in 1 .. 2
            OBVIOUS
          <6> QED  BY <5>1, <5>3, <5>4, <5>5, <6>1, <6>2
        <5>7. up = o
          BY <5>1, <5>3, <5>4, <5>6, SeqEqual
        <5> QED  BY <5>7 DEF up, t, o
      <4>3. Cased(d, <<"0", "x">>) = <<"0", "X">>
        BY <3>2, <4>2, Zenon DEF Cased
      <4> HIDE DEF prefix
      <4>4. prefix \in Seq(Alphabet) /\ Cased(d, prefix) = PrefixText(base, f)
        BY <1>4, <3>1, <4>1, <4>3, Zenon
      <4> QED  BY <1>6, <4>4 DEF prefix, f, base
    <3>3. CASE s # "X"
      <4> HIDE DEF s
      <4>0. "UPPERCASE" \notin f
        BY <1>1, <3>3, Zenon
      <4>1. PrefixText(base, f) = <<"0", "x">>
        BY <2>3, <4>0 DEF PrefixText
      <4>2. Cased(d, <<"0", "x">>) = <<"0", "x">>
        BY <3>3, Zenon DEF Cased, s
      <4> HIDE DEF prefix
      <4>3. prefix \in Seq(Alphabet) /\ Cased(d, prefix) = PrefixText(base, f)
        BY <1>4, <3>1, <4>1, <4>2, Zenon
      <4> QED  BY <1>6, <4>3 DEF prefix, f, base, s
    <3> QED  BY <3>2, <3>3
  <2>4. CASE base # 16
    <3>1. PrefixText(base, f) = IF base = 2 THEN <<"0", "b">> ELSE <<"0">>
      BY <2>4 DEF PrefixText
    <3>2. prefix = IF base = 2 THEN <<"0", "b">> ELSE <<"0">>
      BY <2>1, <2>2, <2>4
    <3> HIDE DEF prefix
    <3>3. Cased(d, prefix) = prefix
      BY <1>2, <2>4, Zenon DEF Cased
    <3>4. prefix \in Seq(Alphabet) /\ Cased(d, prefix) = PrefixText(base, f)
      BY <1>4, <3>1, <3>2, <3>3
    <3> QED  BY <1>6, <3>4 DEF prefix, f, base
  <2> QED  BY <2>3, <2>4
<1>7. CASE "HASH" \notin f /\ s \in {"d", "i"}
  <2>1. prefix = IF v < 0 THEN <<"-">> ELSE IF Has(d, "+") THEN <<"+">> ELSE IF Has(d, " ") THEN <<" ">> ELSE <<>>
    BY <1>7, Zenon DEF PrefixOf, SignOf, v
  <2>2. prefix = SignText(negative, f)
    <3>1. negative <=> v < 0
      BY DEF v
    <3> HIDE DEF prefix
    <3> QED  BY <1>1, <1>5, <1>7, <2>1, <3>1
  <2>3. Cased(d, prefix) = prefix
    <3>1. s # "X"
      BY <1>7
    <3> QED  BY <3>1, Zenon DEF Cased
  <2>4. prefix \in Seq(Alphabet)
    <3> HIDE DEF prefix
    <3> QED  BY <1>4, <2>1
  <2> HIDE DEF prefix
  <2>5. prefix \in Seq(Alphabet) /\ Cased(d, prefix) = SignText(negative, f)
    BY <2>2, <2>3, <2>4
  <2> QED  BY <1>7, <2>5 DEF prefix, f
<1>8. CASE "HASH" \notin f /\ s \notin {"d", "i"}
  <2>1. ~Has(d, "#") \/ v = 0 \/ base = 10
    BY <1>1, <1>8
  <2>2. prefix = IF ~Has(d, "#") \/ v = 0 THEN <<>>
                 ELSE CASE base = 16 -> <<"0", "x">> [] base = 2 -> <<"0", "b">>
                        [] base = 8 /\ zeros = <<>> -> <<"0">> [] OTHER -> <<>>
    BY <1>8, Zenon DEF PrefixOf, base, v
  <2> HIDE DEF prefix
  <2>3. prefix = <<>>
    BY <2>1, <2>2
  <2>4. ~negative
    <3>1. v \in Nat
      BY <1>8, NumberIs DEF v
    <3>2. negative <=> v < 0
      BY DEF v
    <3> QED  BY <3>1, <3>2
  <2>5. SignText(negative, f) = <<>>
    BY <1>1, <1>5, <1>8, <2>4
  <2>6. prefix \in Seq(Alphabet) /\ Cased(d, prefix) = SignText(negative, f)
    BY <1>4, <2>3, <2>5, CasedNothing
  <2> QED  BY <1>8, <2>6 DEF prefix, f
<1> QED  BY <1>6, <1>7, <1>8

\* Whether a prefix is asked for
Hashed(d) == Has(d, "#") /\ Base[d.specifier] # 10 /\ NumberOf(d) # 0

\* What its fields leave of a number that is as in C
LEMMA AsInCBounds ==
  ASSUME NEW d, Facts(d), d.specifier \in DOMAIN Base, Short(d), ~Departs(d)
  PROVE  LET n == AllCount(d)  w == Abs(d.width.n)  prec == d.precision.n
             padded == Has(d, "0") /\ ~OnTheLeft(d)
         IN  /\ prec + 2 <= B
             /\ Has(d, "0") => w <= B
             /\ OnTheLeft(d) => prec <= IF NumberOf(d) = 0 THEN 0 ELSE n
             /\ Hashed(d) /\ prec < 0 => w # n
             /\ Hashed(d) /\ prec < 0 /\ padded /\ Base[d.specifier] = 16 => w # n + 1
             /\ Hashed(d) /\ prec < 0 /\ padded /\ Base[d.specifier] = 2 => w <= n
             /\ Hashed(d) /\ Base[d.specifier] = 8 => prec <= n
<1> DEFINE n == AllCount(d)  w == Abs(d.width.n)  prec == d.precision.n
           hash == Hashed(d)  padded == Has(d, "0") /\ ~OnTheLeft(d)  m == IF NumberOf(d) = 0 THEN 0 ELSE n
<1>1. /\ ~(OnTheLeft(d) /\ prec > m)
      /\ ~(hash /\ prec < 0 /\ w = n)
      /\ ~(hash /\ prec < 0 /\ padded /\ Base[d.specifier] = 16 /\ w = n + 1)
      /\ ~(hash /\ prec < 0 /\ padded /\ Base[d.specifier] = 2 /\ w > n)
      /\ ~(hash /\ Base[d.specifier] = 8 /\ prec > n)
  BY Zenon DEF Departs, AllCount, Hashed
<1>2. prec + 2 <= B /\ (Has(d, "0") => w <= B)
  BY DEF Short
<1>3. n \in 1 .. B - 2 /\ B \in Nat
  BY DigitsPut, SizesAssumption DEF Counted
<1>4. w \in Nat /\ prec \in Int
  BY NumbersOf
<1> HIDE DEF n, w, prec, hash, padded
<1>5. m \in Int
  BY <1>3
<1>6. OnTheLeft(d) => prec <= m
  <2> HIDE DEF m
  <2> QED  BY <1>1, <1>4, <1>5
<1>7. /\ hash /\ prec < 0 /\ padded /\ Base[d.specifier] = 2 => w <= n
      /\ hash /\ Base[d.specifier] = 8 => prec <= n
  BY <1>1, <1>3, <1>4
<1>8. /\ hash /\ prec < 0 => w # n
      /\ hash /\ prec < 0 /\ padded /\ Base[d.specifier] = 16 => w # n + 1
  BY <1>1
<1> QED  BY <1>2, <1>6, <1>7, <1>8 DEF n, w, prec, hash, padded

\* The digits that the code puts out are those that C prints, unless a zero
\* has a precision.
SameDigits(d) ==
  /\ BufOf(d) \in Seq(Alphabet) /\ DigitsMeant(d) \in Seq(Alphabet)
  /\ Reverse(BufOf(d)) = Cased(d, DigitsMeant(d)) /\ Len(BufOf(d)) = Len(DigitsMeant(d))
  /\ Len(BufOf(d)) \in 0 .. AllCount(d)
  /\ NumberOf(d) # 0 => Len(BufOf(d)) = AllCount(d)

LEMMA DigitsSame ==
  ASSUME NEW d, Facts(d), d.specifier \in DOMAIN Base, Short(d), NumberOf(d) # 0 \/ d.precision.n <= 0
  PROVE  SameDigits(d)
<1> DEFINE b == BufOf(d)  m == DigitsMeant(d)  a == AllDigits(d)  v == NumberOf(d)  prec == d.precision.n
           n == AllCount(d)
<1>1. /\ n \in 1 .. B - 2 /\ a \in Seq(Alphabet) /\ Len(a) = n /\ b \in Seq(Alphabet)
      /\ prec < 0 \/ v # 0 => Reverse(b) = Cased(d, a) /\ Len(b) = n
      /\ ~(prec < 0 \/ v # 0) => b = <<>>
  BY DigitsPut DEF Counted
<1>2. m = IF v = 0 /\ prec = 0 THEN <<>> ELSE a
  BY Zenon DEF DigitsMeant, AllDigits
<1>3. prec \in Int /\ v \in Int /\ B \in Nat
  BY NumbersOf, NumberIs, SizesAssumption
<1>4. n \in 0 .. n /\ 0 \in 0 .. n
  <2> HIDE DEF n
  <2> QED  BY <1>1, <1>3
<1> HIDE DEF b, m, a, n
<1>5. CASE prec < 0 \/ v # 0
  <2>1. m = a
    BY <1>2, <1>3, <1>5
  <2>2. Reverse(b) = Cased(d, m) /\ Len(b) = n /\ Len(m) = n
    BY <1>1, <1>5, <2>1
  <2> QED  BY <1>1, <1>4, <2>1, <2>2 DEF SameDigits, b, m, n
<1>6. CASE ~(prec < 0 \/ v # 0)
  <2>1. v = 0 /\ prec = 0
    BY <1>3, <1>6
  <2>2. b = <<>> /\ m = <<>>
    BY <1>1, <1>2, <1>6, <2>1
  <2>3. <<>> \in Seq(Alphabet) /\ Len(<<>>) = 0
    BY EmptySeq
  <2>4. Reverse(<<>>) = <<>>
    <3> DEFINE e == <<>>
    <3>1. e \in Seq(Alphabet) /\ Len(e) <= 1
      BY <2>3
    <3> HIDE DEF e
    <3>2. Reverse(e) = e
      BY <3>1, ReverseShort
    <3> QED  BY <3>2 DEF e
  <2>5. Cased(d, <<>>) = <<>>
    BY CasedNothing
  <2>6. b \in Seq(Alphabet) /\ m \in Seq(Alphabet) /\ Reverse(b) = Cased(d, m) /\ Len(b) = 0 /\ Len(m) = 0
    BY <2>2, <2>3, <2>4, <2>5
  <2> QED  BY <1>4, <2>1, <2>6 DEF SameDigits, b, m, n
<1> QED  BY <1>5, <1>6

\* A number has the room it needs.
LEMMA NumberRoomy ==
  ASSUME NEW d, Facts(d), d.specifier \in DOMAIN Base, Short(d), ~Departs(d), NumberOf(d) # 0 \/ d.precision.n <= 0
  PROVE  LET f == NumberFlags(d)  k == Len(BufOf(d))  w == Abs(d.width.n)  P == PrecisionOf(d)
         IN  /\ Roomy(k, P, w, f, 2) /\ Roomy(k, P, w, f, 1)
             /\ "HASH" \in f => Hashable(k, Base[d.specifier], P, w, f)
             /\ "HASH" \in f /\ Base[d.specifier] = 8 => ZerosMeant(d) = <<>>
             /\ Pos(P - k) = Pos(d.precision.n - k)
<1> DEFINE f == NumberFlags(d)  k == Len(BufOf(d))  w == Abs(d.width.n)  P == PrecisionOf(d)  n == AllCount(d)
           v == NumberOf(d)  prec == d.precision.n  base == Base[d.specifier]  padded == Has(d, "0") /\ ~OnTheLeft(d)
           m == IF v = 0 THEN 0 ELSE n
<1>1. /\ prec + 2 <= B
      /\ Has(d, "0") => w <= B
      /\ OnTheLeft(d) => prec <= m
      /\ Hashed(d) /\ prec < 0 => w # n
      /\ Hashed(d) /\ prec < 0 /\ padded /\ base = 16 => w # n + 1
      /\ Hashed(d) /\ prec < 0 /\ padded /\ base = 2 => w <= n
      /\ Hashed(d) /\ base = 8 => prec <= n
  BY AsInCBounds
<1>2. /\ "LEFT" \in f <=> OnTheLeft(d)
      /\ "PRECISION" \in f <=> prec >= 0
      /\ "ZEROPAD" \in f <=> Has(d, "0") /\ prec < 0
      /\ "HASH" \in f <=> Hashed(d)
  BY NumberFlagFacts DEF Hashed
<1>3. w \in Nat /\ prec \in Int /\ prec >= -1 /\ P \in Nat /\ P = Pos(prec)
  BY NumbersOf
<1>4. n \in 1 .. B - 2 /\ B \in Nat
  BY DigitsPut, SizesAssumption DEF Counted
<1>5. SameDigits(d)
  BY DigitsSame
<1>6. k \in 0 .. n /\ (v # 0 => k = n) /\ k = Len(DigitsMeant(d))
  BY <1>5 DEF SameDigits
<1>7. Hashed(d) => v # 0
  BY DEF Hashed
<1>8. v # 0 \/ prec <= 0
  OBVIOUS
<1>9. Padded(f) <=> padded /\ prec < 0
  BY <1>2, Zenon DEF Padded
<1>10. ZerosMeant(d) = Fill("0", prec - k)
  BY <1>6, Zenon DEF ZerosMeant
<1> HIDE DEF f, k, w, P, n, v, prec, base
<1>11. P = IF prec > 0 THEN prec ELSE 0
  BY <1>3 DEF Pos
<1>12. n \in Nat /\ n >= 1 /\ n + 2 <= B /\ k \in Nat /\ k <= n
  BY <1>4, <1>6
<1>13. k + 2 <= B /\ P + 2 <= B
  BY <1>1, <1>3, <1>4, <1>11, <1>12
<1>14. "LEFT" \in f => P <= k
  <2>1. OnTheLeft(d) => P <= k
    <3>1. CASE v = 0
      <4>1. P = 0
        BY <1>3, <1>8, <1>11, <3>1
      <4> QED  BY <1>12, <4>1
    <3>2. CASE v # 0
      BY <1>1, <1>3, <1>6, <1>11, <1>12, <3>2
    <3> QED  BY <3>1, <3>2
  <2> QED  BY <1>2, <2>1
<1>15. Padded(f) => P <= k /\ w <= B
  <2>1. prec < 0 => P = 0
    BY <1>3, <1>11
  <2> QED  BY <1>1, <1>9, <1>12, <2>1
<1>16. Roomy(k, P, w, f, 2)
  BY <1>13, <1>14, <1>15 DEF Roomy
<1>17. Roomy(k, P, w, f, 1)
  <2>1. k + 1 <= B /\ P + 1 <= B
    BY <1>3, <1>4, <1>12, <1>13
  <2> QED  BY <1>14, <1>15, <2>1 DEF Roomy
<1>18. "PRECISION" \notin f => prec < 0 /\ P = 0
  BY <1>2, <1>3, <1>11
<1>19. "ZEROPAD" \in f => "PRECISION" \notin f
  BY <1>2, <1>3
<1>20. "HASH" \in f => Hashable(k, base, P, w, f)
  <2>1. SUFFICES ASSUME "HASH" \in f PROVE Hashable(k, base, P, w, f)
    OBVIOUS
  <2>2. Hashed(d) /\ k = n
    BY <1>2, <1>6, <1>7, <2>1
  <2>3. k >= 1
    BY <1>12, <2>2
  <2>4. "PRECISION" \notin f => w # k
    BY <1>1, <1>18, <2>2
  <2>5. "PRECISION" \notin f => (Padded(f) /\ base = 16 => w # k + 1) /\ (Padded(f) /\ base = 2 => w <= k)
    BY <1>1, <1>9, <1>18, <2>2
  <2> QED  BY <1>18, <1>19, <2>3, <2>4, <2>5, Zenon DEF Hashable
<1>21. "HASH" \in f /\ base = 8 => ZerosMeant(d) = <<>>
  <2>1. SUFFICES ASSUME "HASH" \in f, base = 8 PROVE ZerosMeant(d) = <<>>
    OBVIOUS
  <2>2. prec <= k
    BY <1>1, <1>2, <1>6, <1>7, <2>1
  <2> DEFINE y == prec - k
  <2>3. y \in Int /\ y <= 0
    BY <1>3, <1>12, <2>2
  <2> HIDE DEF y
  <2>4. Fill("0", y) = <<>>
    BY <2>3, FillNone
  <2> QED  BY <1>10, <2>4 DEF y
<1>22. Pos(P - k) = Pos(prec - k)
  BY <1>3, <1>11, <1>12 DEF Pos
<1> QED  BY <1>16, <1>17, <1>20, <1>21, <1>22 DEF f, k, w, P, prec, base

\* The code puts the sign or the prefix in front.
LEMMA NumberLaid ==
  ASSUME NEW d, Facts(d), d.specifier \in DOMAIN Base, Short(d), ~Departs(d), NumberOf(d) # 0 \/ d.precision.n <= 0
  PROVE  IntegerText(d.specifier, d.arg.n, FlagsOf(d), Abs(d.width.n), PrecisionOf(d)) = NumberText(d)
<1> DEFINE f == NumberFlags(d)  k == Len(BufOf(d))  w == Abs(d.width.n)  P == PrecisionOf(d)
           prec == d.precision.n  base == Base[d.specifier]  b == BufOf(d)  m == DigitsMeant(d)  zeros == ZerosMeant(d)
           prefix == PrefixOf(d, zeros)  text == IntegerText(d.specifier, d.arg.n, FlagsOf(d), w, P)
<1>1. PICK negative \in BOOLEAN :
        (negative <=> NumberOf(d) < 0) /\ text = _ntoa_format(b, negative, base, P, w, f)
  BY NumberPut, Zenon DEF BufOf
<1>2. SameDigits(d)
  BY DigitsSame
<1>3. b \in Seq(Alphabet) /\ m \in Seq(Alphabet) /\ Reverse(b) = Cased(d, m) /\ Len(m) = k /\ k \in Nat
  BY <1>2 DEF SameDigits
<1>4. /\ Roomy(k, P, w, f, 2) /\ Roomy(k, P, w, f, 1)
      /\ "HASH" \in f => Hashable(k, base, P, w, f)
      /\ "HASH" \in f /\ base = 8 => zeros = <<>>
      /\ Pos(P - k) = Pos(prec - k)
  BY NumberRoomy
<1>5. w \in Nat /\ prec \in Int /\ P \in Nat
  BY NumbersOf
<1>6. /\ prefix \in Seq(Alphabet)
      /\ Cased(d, prefix) = IF "HASH" \in f THEN PrefixText(base, f) ELSE SignText(negative, f)
  BY <1>1, <1>4, PrefixSame
<1>7. NumberText(d) = Cased(d, Laid(f, w, prefix, prec - k, m))
  BY <1>3, NumberMeant
<1>8. "HASH" \in f => ~negative /\ "PLUS" \notin f /\ "SPACE" \notin f
  <2>1. /\ "HASH" \in f <=> Has(d, "#") /\ base # 10 /\ NumberOf(d) # 0
        /\ "PLUS" \in f <=> Has(d, "+") /\ d.specifier \in {"d", "i"}
        /\ "SPACE" \in f <=> Has(d, " ") /\ d.specifier \in {"d", "i"}
    BY NumberFlagFacts
  <2>2. d.specifier \in {"d", "i"} => base = 10
    BY BaseFacts
  <2>3. d.specifier \notin {"d", "i"} => NumberOf(d) \in Nat
    BY NumberIs
  <2> HIDE DEF f, base
  <2>4. d.specifier \notin {"d", "i"} => ~negative
    BY <1>1, <2>3
  <2> QED  BY <2>1, <2>2, <2>4
<1> HIDE DEF f, k, w, P, prec, base, b, m, zeros, prefix, text
<1>9. text = Laid(f, w, Cased(d, prefix), P - k, Reverse(b))
  <2>1. CASE "HASH" \notin f
    <3>1. _ntoa_format(b, negative, base, P, w, f) = Laid(f, w, SignText(negative, f), P - Len(b), Reverse(b))
      <4>1. Roomy(Len(b), P, w, f, 1)
        BY <1>4, Zenon DEF k, b
      <4> QED  BY <1>3, <1>5, <2>1, <4>1, FormatPlain
    <3>2. Len(b) = k
      BY DEF b, k
    <3> QED  BY <1>1, <1>6, <2>1, <3>1, <3>2, Zenon
  <2>2. CASE "HASH" \in f
    <3>1. negative = FALSE
      BY <1>8, <2>2
    <3>2. _ntoa_format(b, FALSE, base, P, w, f) = Laid(f, w, PrefixText(base, f), P - Len(b), Reverse(b))
      <4>1. Roomy(Len(b), P, w, f, 2) /\ Hashable(Len(b), base, P, w, f)
        BY <1>4, <2>2, Zenon DEF k, b
      <4> QED  BY <1>3, <1>5, <1>8, <2>2, <4>1, FormatHashed
    <3>3. Len(b) = k
      BY DEF b, k
    <3> QED  BY <1>1, <1>6, <2>2, <3>1, <3>2, <3>3, Zenon
  <2> QED  BY <2>1, <2>2
<1>10. P - k \in Int /\ prec - k \in Int
  BY <1>3, <1>5
<1>11. Laid(f, w, Cased(d, prefix), P - k, Reverse(b)) = Laid(f, w, Cased(d, prefix), prec - k, Reverse(b))
  <2> DEFINE y == P - k  z == prec - k
  <2>1. y \in Int /\ z \in Int /\ Pos(y) = Pos(z)
    BY <1>4, <1>10
  <2> HIDE DEF y, z
  <2>2. Fill("0", y) = Fill("0", z)
    BY <2>1, FillSame
  <2>3. Laid(f, w, Cased(d, prefix), y, Reverse(b)) = Laid(f, w, Cased(d, prefix), z, Reverse(b))
    BY <2>2, Zenon DEF Laid
  <2> QED  BY <2>3 DEF y, z
<1>12. Cased(d, Laid(f, w, prefix, prec - k, m)) = Laid(f, w, Cased(d, prefix), prec - k, Cased(d, m))
  <2> DEFINE z == prec - k
  <2>1. z \in Int
    BY <1>10
  <2> HIDE DEF z
  <2>2. Cased(d, Laid(f, w, prefix, z, m)) = Laid(f, w, Cased(d, prefix), z, Cased(d, m))
    BY <1>3, <1>5, <1>6, <2>1, CasedLaid
  <2> QED  BY <2>2 DEF z
<1>13. text = NumberText(d)
  BY <1>3, <1>7, <1>9, <1>11, <1>12, Zenon
<1> QED  BY <1>13 DEF text, w, P

LEMMA ZeroDigits ==
  ASSUME NEW base \in 2 .. 16, NEW m \in 1 .. B, 0 < Power(base)[m] PROVE DigitsOf(0, base) = <<"0">>
<1> DEFINE n == CountOf(0, base)  p == Power(base)  t == DigitsOf(0, base)
<1>1. B \in Nat /\ base \in Nat \ {0} /\ 0 \in Nat
  BY SizesAssumption
<1>2. IsPower(p, base)
  BY <1>1, PowerIs
<1>3. p \in [0 .. B -> Nat \ {0}] /\ p[0] = 1
  BY <1>2 DEF IsPower
<1>4. n \in 1 .. m /\ \A k \in 1 .. n - 1 : 0 >= p[k]
  BY <1>1, CountIs
<1>5. t \in Seq(Alphabet) /\ Len(t) = n
  BY <1>1, DigitsReversed
<1>6. t = [k \in 1 .. n |-> Numerals[((0 \div p[n - k]) % base) + 1]]
  BY DEF DigitsOf
<1> HIDE DEF n, p, t
<1>7. n = 1
  <2>1. SUFFICES ASSUME n > 1 PROVE FALSE
    BY <1>1, <1>4
  <2>2. 1 \in 1 .. n - 1 /\ 1 \in 0 .. B
    BY <1>1, <1>4, <2>1
  <2>3. 0 >= p[1] /\ p[1] \in Nat \ {0}
    BY <1>3, <1>4, <2>2
  <2> QED  BY <2>3
<1>8. t[1] = "0"
  <2>1. t[1] = Numerals[((0 \div p[n - 1]) % base) + 1]
    BY <1>6, <1>7
  <2>2. p[n - 1] = 1
    BY <1>3, <1>7
  <2>3. 0 \div 1 = 0
    OBVIOUS
  <2>4. 0 % base = 0
    BY <1>1
  <2>5. ((0 \div p[n - 1]) % base) + 1 = 1
    BY <2>2, <2>3, <2>4
  <2> QED  BY <2>1, <2>5, NumeralsAre
<1>9. t = <<t[1]>>
  BY <1>5, <1>7
<1> QED  BY <1>8, <1>9 DEF t

\* Zeros up to a precision are the digits of zero, and zeros.
LEMMA ZeroPut ==
  ASSUME NEW prec \in Nat, prec > 0
  PROVE  Fill("0", prec) \o <<>> = Fill("0", prec - 1) \o <<"0">>
<1> DEFINE m == prec - 1  f == Fill("0", prec)
<1>1. m \in Nat /\ 1 \in Nat /\ m + 1 = prec
  OBVIOUS
<1>2. f \in Seq({"0"})
  BY FillSeq
<1> HIDE DEF m
<1>3. Fill("0", m) \o Fill("0", 1) = Fill("0", m + 1)
  BY <1>1, FillMore
<1>4. Fill("0", 1) = <<"0">>
  BY FillOne
<1>5. f \o <<>> = f
  <2> HIDE DEF f
  <2> QED  BY <1>2, ConcatEmptySeq
<1>6. Fill("0", m) \o <<"0">> = f
  BY <1>1, <1>3, <1>4
<1> QED  BY <1>5, <1>6 DEF f, m

\* Nothing but zeros
LEMMA FormatNone ==
  ASSUME NEW negative \in BOOLEAN, NEW base, NEW prec \in Nat, NEW w \in Nat, NEW f,
         "HASH" \notin f, Roomy(0, prec, w, f, 1)
  PROVE  _ntoa_format(<<>>, negative, base, prec, w, f) = Laid(f, w, SignText(negative, f), prec, <<>>)
<1>1. ASSUME NEW e \in Seq(Alphabet), Len(e) = 0
      PROVE  _ntoa_format(e, negative, base, prec, w, f) = Laid(f, w, SignText(negative, f), prec, e)
  <2>1. Reverse(e) = e
    <3>1. Len(e) <= 1
      BY <1>1
    <3> QED  BY <3>1, ReverseShort
  <2>2. Roomy(Len(e), prec, w, f, 1)
    BY <1>1
  <2>3. _ntoa_format(e, negative, base, prec, w, f) = Laid(f, w, SignText(negative, f), prec - Len(e), Reverse(e))
    BY <2>2, FormatPlain
  <2>4. prec - Len(e) = prec
    BY <1>1
  <2> QED  BY <2>1, <2>3, <2>4
<1> QED  BY <1>1, EmptySeq

\* A zero with a precision: the code puts out zeros alone.
LEMMA ZeroLaid ==
  ASSUME NEW d, Facts(d), d.specifier \in DOMAIN Base, Short(d), ~Departs(d), NumberOf(d) = 0, d.precision.n > 0
  PROVE  IntegerText(d.specifier, d.arg.n, FlagsOf(d), Abs(d.width.n), PrecisionOf(d)) = NumberText(d)
<1> DEFINE f == NumberFlags(d)  w == Abs(d.width.n)  P == PrecisionOf(d)  zero == <<"0">>
           prec == d.precision.n  base == Base[d.specifier]  b == BufOf(d)  m == DigitsMeant(d)  zeros == ZerosMeant(d)
           prefix == PrefixOf(d, zeros)  text == IntegerText(d.specifier, d.arg.n, FlagsOf(d), w, P)
           g == SignText(FALSE, f)
<1>1. PICK negative \in BOOLEAN :
        (negative <=> NumberOf(d) < 0) /\ text = _ntoa_format(b, negative, base, P, w, f)
  BY NumberPut, Zenon DEF BufOf
<1>2. negative = FALSE
  BY <1>1
<1>3. w \in Nat /\ prec \in Int /\ prec > 0 /\ P \in Nat /\ P = Pos(prec)
  BY NumbersOf
<1>4. b = <<>>
  <2>1. ~(prec < 0 \/ NumberOf(d) # 0)
    BY <1>3
  <2>2. b = <<>>
    BY <2>1, DigitsPut DEF Counted
  <2> QED  BY <2>2
<1>5. "HASH" \notin f /\ "LEFT" \notin f /\ ~Padded(f)
  <2>1. /\ "HASH" \in f <=> Has(d, "#") /\ base # 10 /\ NumberOf(d) # 0
        /\ "LEFT" \in f <=> OnTheLeft(d)
        /\ "ZEROPAD" \in f <=> Has(d, "0") /\ prec < 0
    BY NumberFlagFacts
  <2>2. ~OnTheLeft(d)
    BY <1>3, AsInCBounds
  <2>3. ~(prec < 0)
    BY <1>3
  <2> HIDE DEF f, prec
  <2> QED  BY <2>1, <2>2, <2>3 DEF Padded
<1>6. prec + 2 <= B /\ B \in Nat
  BY AsInCBounds, SizesAssumption
<1>7. base \in 2 .. 16
  BY BaseFacts
<1>8. m = zero
  <2>1. m = DigitsOf(Abs(NumberOf(d)), base)
    BY <1>3 DEF DigitsMeant
  <2>2. Abs(NumberOf(d)) = 0
    BY DEF Abs
  <2>3. PICK i \in 1 .. B - 2 : 0 < Power(base)[i]
    BY <2>2 DEF Short
  <2>4. i \in 1 .. B
    BY <1>6
  <2> HIDE DEF base, m
  <2>5. DigitsOf(0, base) = <<"0">>
    BY <1>7, <2>3, <2>4, ZeroDigits
  <2> QED  BY <2>1, <2>2, <2>5
<1>9. prefix \in Seq(Alphabet) /\ Cased(d, prefix) = g
  <2>1. ("HASH" \in f /\ base = 8) => zeros = <<>>
    BY <1>5
  <2>2. /\ prefix \in Seq(Alphabet)
        /\ Cased(d, prefix) = IF "HASH" \in f THEN PrefixText(base, f) ELSE SignText(negative, f)
    BY <1>1, <2>1, PrefixSame
  <2> HIDE DEF prefix, f, base
  <2> QED  BY <1>2, <1>5, <2>2
<1>10. NumberText(d) = Cased(d, Laid(f, w, prefix, prec - Len(m), m))
  BY NumberMeant
<1>11. "0" \in Alphabet /\ zero \in Seq(Alphabet) /\ Len(zero) = 1 /\ <<>> \in Seq(Alphabet) /\ Len(<<>>) = 0
  <2>1. "0" \in Alphabet
    BY DEF Alphabet, Figures
  <2>2. zero \in Seq(Alphabet)
    BY <2>1, ShortSequences, Zenon
  <2>3. Len(zero) = 1
    OBVIOUS
  <2> QED  BY <2>1, <2>2, <2>3, EmptySeq
<1>12. Cased(d, zero) = zero
  <2>1. Fill("0", 1) = zero
    BY FillOne
  <2>2. "0" \in {"0", " "} /\ 1 \in Int
    OBVIOUS
  <2>3. Cased(d, Fill("0", 1)) = Fill("0", 1)
    BY <2>2, CasedFill
  <2> QED  BY <2>1, <2>3
<1>13. g \in Seq(Alphabet)
  BY <1>9, CasedType
<1> HIDE DEF f, w, P, prec, base, b, m, zeros, prefix, text, g, zero
<1>14. P = prec
  BY <1>3 DEF Pos
<1>15. Roomy(0, P, w, f, 1)
  BY <1>3, <1>5, <1>6, <1>14 DEF Roomy
<1>16. text = Laid(f, w, g, P, <<>>)
  <2>1. _ntoa_format(<<>>, negative, base, P, w, f) = Laid(f, w, SignText(negative, f), P, <<>>)
    BY <1>3, <1>5, <1>15, FormatNone
  <2> QED  BY <1>1, <1>2, <1>4, <2>1, Zenon DEF g
<1>17. NumberText(d) = Laid(f, w, g, prec - 1, zero)
  <2> DEFINE z == prec - 1
  <2>1. z \in Int /\ prec - Len(m) = z
    BY <1>3, <1>8, <1>11
  <2> HIDE DEF z
  <2>2. Cased(d, Laid(f, w, prefix, z, zero)) = Laid(f, w, Cased(d, prefix), z, Cased(d, zero))
    BY <1>3, <1>9, <1>11, <2>1, CasedLaid
  <2>3. NumberText(d) = Laid(f, w, g, z, zero)
    BY <1>8, <1>9, <1>10, <1>12, <2>1, <2>2
  <2> QED  BY <2>3 DEF z
<1>18. (g \o Fill("0", P)) \o <<>> = (g \o Fill("0", prec - 1)) \o zero
  <2> DEFINE e == <<>>  x == Fill("0", P)  z == prec - 1  y == Fill("0", z)
  <2>1. z \in Int /\ e \in Seq(Alphabet)
    BY <1>3, <1>11
  <2>2. x \o e = y \o zero
    BY <1>3, <1>14, ZeroPut DEF zero
  <2> HIDE DEF z
  <2>3. x \in Seq(Alphabet) /\ y \in Seq(Alphabet)
    BY <1>3, <1>11, <2>1, FillSeq
  <2> HIDE DEF e, x, y
  <2>4. Regroups(g, x, e) /\ Regroups(g, y, zero)
    BY <1>11, <1>13, <2>1, <2>3, Regrouped
  <2>5. (g \o x) \o e = g \o (x \o e) /\ (g \o y) \o zero = g \o (y \o zero)
    BY <2>4, Zenon DEF Regroups
  <2>6. (g \o x) \o e = (g \o y) \o zero
    BY <2>2, <2>5
  <2> QED  BY <2>6 DEF e, x, y, z
<1>19. Laid(f, w, g, P, <<>>) = Laid(f, w, g, prec - 1, zero)
  BY <1>5, <1>18, Zenon DEF Laid
<1>20. text = NumberText(d)
  BY <1>16, <1>17, <1>19
<1> QED  BY <1>20 DEF text, w, P

LEMMA NumberConverts ==
  ASSUME NEW d, Facts(d), d.specifier \in DOMAIN Base, Short(d), ~Departs(d)
  PROVE  IntegerText(d.specifier, d.arg.n, FlagsOf(d), Abs(d.width.n), PrecisionOf(d)) = NumberText(d)
<1>1. d.precision.n \in Int
  BY NumbersOf
<1>2. CASE NumberOf(d) # 0 \/ d.precision.n <= 0
  BY <1>2, NumberLaid
<1>3. CASE NumberOf(d) = 0 /\ d.precision.n > 0
  BY <1>3, ZeroLaid
<1> QED  BY <1>1, <1>2, <1>3

\* A number that fills its width with zeros
LEMMA LaidWide ==
  ASSUME NEW f, Padded(f), NEW w \in Nat, NEW z \in Int, z <= 0, NEW t \in Seq(Alphabet)
  PROVE  Laid(f, w, <<>>, z, t) = Fill("0", w - Len(t)) \o t
<1>1. Fill("0", z) = <<>>
  BY FillNone
<1>2. <<>> \o t = t
  BY ConcatEmptySeq
<1>3. <<>> \o <<>> = <<>>
  <2> DEFINE e == <<>>
  <2>1. e \in Seq(Alphabet)
    BY EmptySeq
  <2>2. e \o <<>> = e
    <3> HIDE DEF e
    <3> QED  BY <2>1, ConcatEmptySeq
  <2> QED  BY <2>2 DEF e
<1>4. (<<>> \o Fill("0", z)) \o t = t
  BY <1>1, <1>2, <1>3
<1>5. w - Len(t) \in Int
  OBVIOUS
<1> DEFINE y == w - Len(t)  x == Fill("0", y)
<1>6. x \in Seq(Alphabet)
  <2>1. "0" \in Alphabet
    BY DEF Alphabet, Figures
  <2>2. y \in Int
    BY <1>5
  <2> HIDE DEF y
  <2> QED  BY <2>1, <2>2, FillSeq
<1>7. <<>> \o x = x
  <2> HIDE DEF x
  <2> QED  BY <1>6, ConcatEmptySeq
<1>8. Laid(f, w, <<>>, z, t) = (<<>> \o Fill("0", w - Len(t))) \o t
  BY <1>4, Zenon DEF Laid
<1> QED  BY <1>7, <1>8, Zenon DEF x, y

LEMMA PointerConverts ==
  ASSUME NEW d, Facts(d), d.specifier = "p", Nibbles <= B,
         NEW i \in 1 .. B - 2, d.arg.n % Values["long"] < Power(16)[i]
  PROVE  PointerText(d.arg.n, FlagsOf(d), PrecisionOf(d)) = PointerMeans(d)
<1> DEFINE v == d.arg.n % Values["long"]  F == FlagsOf(d)  g == F \union {"ZEROPAD", "UPPERCASE"}
           f == IF v = 0 THEN g \ {"HASH"} ELSE g  s == Digits(v, 16, g)  t == DigitsOf(v, 16)  n == CountOf(v, 16)
           P == PrecisionOf(d)  U == Upper(t)
<1>1. v \in Nat /\ B \in Nat /\ Nibbles \in Nat /\ 16 \in 2 .. 16 /\ 16 \in Nat \ {0} /\ i \in 1 .. B
  <2>1. Values["long"] \in Nat \ {0} /\ Nibbles \in Nat
    BY ValuesAssumption
  <2>2. d.arg.n \in Int
    BY DEF Facts, WellFormed
  <2> HIDE DEF v
  <2>3. v \in Nat
    BY <2>1, <2>2 DEF v
  <2> QED  BY <2>1, <2>3, SizesAssumption
<1>2. d.flags = <<>> /\ d.width.n = 0 /\ d.precision.n < 0 /\ d.precision.n \in Int
  BY DEF Facts, WellFormed, FieldFacts
<1>3. P = 0
  BY <1>2 DEF PrecisionOf
<1>4. ~Has(d, "#") /\ ~Has(d, "+") /\ ~Has(d, " ") /\ ~Has(d, "-")
  <2>1. DOMAIN d.flags = {}
    BY <1>2
  <2> QED  BY <2>1 DEF Has
<1>5. "LEFT" \notin F
  <2>1. ~OnTheLeft(d)
    <3>1. ~(d.width.n < 0)
      BY <1>2
    <3> QED  BY <1>4, <3>1, Zenon DEF OnTheLeft
  <2> QED  BY <2>1, FlagFacts
<1>6. "PRECISION" \notin F
  <2>1. d.precision.text = <<>>
    BY <1>2, PrecisionFacts
  <2> QED  BY <2>1, FlagFacts
<1>7. "HASH" \notin F /\ "PLUS" \notin F /\ "SPACE" \notin F
  BY <1>4, SpelledFlags
<1> HIDE DEF v, F
<1>8. \A x : x \in f => x \in F \/ x = "ZEROPAD" \/ x = "UPPERCASE"
  OBVIOUS
<1>9. "ZEROPAD" \in f /\ "UPPERCASE" \in g /\ "PRECISION" \notin g
  BY <1>6
<1> HIDE DEF f, g
<1>10. "HASH" \notin f /\ "LEFT" \notin f /\ "PLUS" \notin f /\ "SPACE" \notin f /\ Padded(f)
  BY <1>5, <1>7, <1>8, <1>9 DEF Padded
<1>11. PointerText(d.arg.n, F, P) = _ntoa_format(s, FALSE, 16, P, Nibbles, f)
  <2>1. PointerText(d.arg.n, F, P) = _ntoa(v, FALSE, 16, P, Nibbles, g)
    BY Zenon DEF PointerText, v, g
  <2>2. _ntoa(v, FALSE, 16, P, Nibbles, g) = _ntoa_format(s, FALSE, 16, P, Nibbles, f)
    BY <1>9, Zenon DEF _ntoa, f
  <2> QED  BY <2>1, <2>2
<1>12. v < Power(16)[i]
  BY DEF v
<1>13. n \in 1 .. i /\ s \in Seq(Alphabet) /\ Len(s) = n
  <2>1. ASSUME NEW base \in 2 .. 16, v < Power(base)[i]
        PROVE  /\ CountOf(v, base) \in 1 .. i /\ Digits(v, base, g) \in Seq(Alphabet)
               /\ Len(Digits(v, base, g)) = CountOf(v, base)
    BY <1>1, <2>1, DigitsIs
  <2> QED  BY <1>1, <1>12, <2>1, Zenon
<1>14. t \in Seq(Alphabet) /\ Len(t) = n /\ Reverse(s) = U
  BY <1>1, <1>9, <1>12, DigitsReversed
<1>15. U \in Seq(Alphabet)
  <2> HIDE DEF t
  <2> QED  BY <1>14, UpperType
<1> HIDE DEF s, n, P, U, t
<1>16. Roomy(Len(s), P, Nibbles, f, 1)
  <2>1. n + 1 <= B /\ P + 1 <= B /\ P <= n
    BY <1>1, <1>3, <1>13
  <2> QED  BY <1>10, <1>13, <2>1 DEF Roomy
<1>17. ASSUME NEW negative \in BOOLEAN
       PROVE  _ntoa_format(s, negative, 16, P, Nibbles, f)
                = Laid(f, Nibbles, SignText(negative, f), P - Len(s), Reverse(s))
  <2>1. P \in Nat
    BY <1>3
  <2> QED  BY <1>1, <1>10, <1>13, <1>16, <2>1, FormatPlain
<1>18. SignText(FALSE, f) = <<>>
  BY <1>10, SignIs
<1>19. _ntoa_format(s, FALSE, 16, P, Nibbles, f) = Laid(f, Nibbles, <<>>, P - Len(s), U)
  <2>1. FALSE \in BOOLEAN
    OBVIOUS
  <2> QED  BY <1>14, <1>17, <1>18, <2>1, Zenon
<1>20. Laid(f, Nibbles, <<>>, P - Len(s), U) = Fill("0", Nibbles - Len(U)) \o U
  <2> DEFINE z == P - Len(s)
  <2>1. z \in Int /\ z <= 0
    BY <1>1, <1>3, <1>13
  <2> HIDE DEF z
  <2>2. Laid(f, Nibbles, <<>>, z, U) = Fill("0", Nibbles - Len(U)) \o U
    BY <1>1, <1>10, <1>15, <2>1, LaidWide
  <2> QED  BY <2>2 DEF z
<1>21. PointerMeans(d) = Fill("0", Nibbles - Len(U)) \o U
  BY Zenon DEF PointerMeans, U, t, v
<1> QED  BY <1>11, <1>19, <1>20, <1>21 DEF P, F

\* Directives that have the room for it are printed as in C.
LEMMA DirectiveConverts == ASSUME NEW d, WellFormed(d), AsInC(d) PROVE Converts(d)
<1>1. CASE d.specifier = "text"
  <2>1. "text" \notin DOMAIN Base
    BY DEF Base
  <2> QED  BY <1>1, <2>1 DEF Converts
<1>2. CASE d.specifier # "text"
  <2>1. Facts(d)
    BY <1>2, FactsIf
  <2>2. d.specifier \in DOMAIN Base =>
          IntegerText(d.specifier, d.arg.n, FlagsOf(d), Abs(d.width.n), PrecisionOf(d)) = NumberText(d)
    BY <2>1, NumberConverts DEF AsInC
  <2>3. d.specifier = "p" => PointerText(d.arg.n, FlagsOf(d), PrecisionOf(d)) = PointerMeans(d)
    <3>1. SUFFICES ASSUME d.specifier = "p" PROVE PointerText(d.arg.n, FlagsOf(d), PrecisionOf(d)) = PointerMeans(d)
      OBVIOUS
    <3>2. Nibbles <= B /\ \E n \in 1 .. B - 2 : d.arg.n % Values["long"] < Power(16)[n]
      BY <3>1 DEF AsInC
    <3> QED  BY <2>1, <3>1, <3>2, PointerConverts
  <2> QED  BY <2>2, <2>3 DEF Converts
<1> QED  BY <1>1, <1>2

-----------------------------------------------------------------------------
\* What comes out is what C's printf prints, for all formats, arguments and
\* sinks, whatever the sizes: if every directive is one that C gives a meaning
\* and the code the same one, and no call stores behind the memory it has.
THEOREM PrintfPrints ==
  ASSUME \A d \in Directives : AsInC(d), \A c \in Calls : FitsOrEnds(c)
  PROVE  PrintfSpec => []Prints
<1>1. AllConvert
  BY DirectivesAssumption, DirectiveConverts DEF AllConvert
<1> QED  BY <1>1, PrintsAlways


-----------------------------------------------------------------------------
(* How far a call stores that is told no end (sprintf) *)

\* The front of a list makes no more than all of it.
LEMMA FlattenFront ==
  ASSUME NEW S, NEW D, NEW m \in [D -> Seq(S)], NEW s \in Seq(D), NEW n \in 0 .. Len(s)
  PROVE  Len(FlattenSeq(Each(m, SubSeq(s, 1, n)))) <= Len(FlattenSeq(Each(m, s)))
<1> DEFINE p == SubSeq(s, 1, n)  q == SubSeq(s, n + 1, Len(s))
<1>1. p \in Seq(D) /\ q \in Seq(D) /\ p \o q = s
  <2> DEFINE N == Len(s)
  <2>1. N \in Nat /\ n \in Nat /\ n <= N /\ \A i \in 1 .. N : s[i] \in D
    OBVIOUS
  <2>2. /\ p \in Seq(D) /\ Len(p) = n
        /\ \A i \in 1 .. n : p[i] = s[i]
    BY <2>1, SubSeqProperties
  <2>3. /\ q \in Seq(D) /\ Len(q) = N - n
        /\ \A i \in 1 .. N - n : q[i] = s[n + i]
    <3>1. n + 1 \in Int /\ N \in Int /\ \A i \in n + 1 .. N : s[i] \in D
      BY <2>1
    <3> HIDE DEF N
    <3>2. /\ SubSeq(s, n + 1, N) \in Seq(D)
          /\ Len(SubSeq(s, n + 1, N)) = IF n + 1 <= N THEN N - (n + 1) + 1 ELSE 0
          /\ \A i \in 1 .. N - (n + 1) + 1 : SubSeq(s, n + 1, N)[i] = s[n + 1 + i - 1]
      BY <3>1, SubSeqProperties
    <3>3. q = SubSeq(s, n + 1, N)
      BY DEF N
    <3> HIDE DEF q
    <3> QED  BY <2>1, <3>2, <3>3
  <2> HIDE DEF p, q
  <2>4. Joins(D, p, q)
    BY <2>2, <2>3, Joined
  <2>5. p \o q \in Seq(D) /\ Len(p \o q) = N
    BY <2>1, <2>2, <2>3, <2>4 DEF Joins
  <2>6. ASSUME NEW i \in 1 .. N PROVE (p \o q)[i] = s[i]
    <3>1. CASE i <= n
      BY <2>1, <2>2, <2>4, <2>6, <3>1 DEF Joins
    <3>2. CASE i > n
      <4>1. i - n \in 1 .. N - n /\ n + (i - n) = i
        BY <2>1, <2>6, <3>2
      <4>2. (p \o q)[n + (i - n)] = q[i - n]
        BY <2>2, <2>3, <2>4, <4>1 DEF Joins
      <4> QED  BY <2>3, <4>1, <4>2
    <3>3. i <= n \/ i > n
      BY <2>1, <2>6
    <3> QED  BY <3>1, <3>2, <3>3, Zenon
  <2>7. \A i \in 1 .. Len(p \o q) : (p \o q)[i] = s[i]
    BY <2>5, <2>6
  <2>8. p \o q = s
    BY <2>5, <2>7, SeqEqual
  <2> QED  BY <2>2, <2>3, <2>8
<1> HIDE DEF p, q
<1>2. FlattenSeq(Each(m, s)) = FlattenSeq(Each(m, p)) \o FlattenSeq(Each(m, q))
  <2>1. Splits(m, p, q)
    BY <1>1, EachConcat
  <2> QED  BY <1>1, <2>1, Zenon DEF Splits
<1>3. FlattenSeq(Each(m, p)) \in Seq(S) /\ FlattenSeq(Each(m, q)) \in Seq(S)
  BY <1>1, FlattenEach
<1>4. Len(FlattenSeq(Each(m, p))) <= Len(FlattenSeq(Each(m, s)))
  <2> DEFINE a == FlattenSeq(Each(m, p))  b == FlattenSeq(Each(m, q))
  <2> HIDE DEF a, b
  <2>1. a \in Seq(S) /\ b \in Seq(S) => Len(a) <= Len(a \o b)
    OBVIOUS
  <2> QED  BY <1>2, <1>3, <2>1 DEF a, b
<1> QED  BY <1>4 DEF p

\* At no time is more out than the call's directives mean.
LEMMA NoMoreOut == ASSUME AllConvert, PrintsInv PROVE idx <= Len(call.means)
<1>1. PICK c \in Calls : call = c /\ Traced(c)
  BY DEF PrintsInv
<1>2. PICK n \in 0 .. Len(ListOf(c)) : Emitted(c, Upto(c, Meaning, n))
  BY <1>1 DEF Traced
<1>3. ListOf(c) \in Seq(Directives) /\ c.means = FlattenSeq(Each(Meaning, ListOf(c)))
  BY Listed, Zenon DEF IsListed
<1>4. Len(Upto(c, Meaning, n)) <= Len(c.means)
  BY <1>3, MeaningType, FlattenFront DEF Upto
<1> QED  BY <1>1, <1>2, <1>4 DEF Emitted

\* A call that is told no end (sprintf passes the largest count) still stores
\* nothing behind the memory its caller has for it: if that has the room for
\* what C's printf prints for its directives, and a NUL. It puts out no character
\* more than that at any time, stores nothing behind the NUL that follows the
\* last one, and ends in that NUL. A call with a count that its memory has is
\* another such call.
THEOREM SprintfKeepsBounds ==
  ASSUME \A d \in Directives : AsInC(d), \A c \in Calls : FitsOrEnds(c)
  PROVE  PrintfSpec => [](Bounded /\ idx <= Len(call.means))
<1>1. AllConvert
  BY DirectivesAssumption, DirectiveConverts DEF AllConvert
<1>2. ASSUME PrintfInv, PrintsInv PROVE Bounded /\ idx <= Len(call.means)
  <2>1. idx <= Len(call.means)
    BY <1>1, <1>2, NoMoreOut
  <2>2. ASSUME call.sink = "buffer" PROVE Bounded
    <3>1. call \in Calls /\ call.maxlen \in Nat /\ Room \in Nat /\ idx \in Nat
      BY <1>2, CallType, SizesAssumption DEF PrintfInv, PrintfTypes
    <3>2. call.maxlen <= Room \/ Len(call.means) < Room
      BY <2>2, <3>1 DEF FitsOrEnds
    <3>3. Len(call.means) \in Nat
      BY <3>1, CallsAssumption
    <3> QED  BY <1>2, <2>1, <2>2, <3>1, <3>2, <3>3, BoundedIf
  <2>3. ASSUME call.sink # "buffer" PROVE Bounded
    BY <2>3 DEF Bounded
  <2> QED  BY <2>1, <2>2, <2>3
<1>3. PrintfInit => PrintsInv
  BY <1>1, PrintsInit
<1>4. PrintsInv /\ [PrintfNext]_printf => PrintsInv'
  BY <1>1, PrintsStep
<1> QED  BY <1>2, <1>3, <1>4, PrintfInvariance, PTL DEF PrintfSpec
=============================================================================
