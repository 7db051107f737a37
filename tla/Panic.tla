-------------------------------- MODULE Panic -------------------------------
(***************************************************************************)
(* The way from a failure to its report: exceptions enter                  *)
(* amd64_handle_pagefault or amd64_handle_exception, which format the      *)
(* registers and call panic; the kernel calls panic by itself (REQUIRE,    *)
(* __stack_chk_fail); panic takes gPanicLock for good, prints and halts.   *)
(*                                                                         *)
(* One processor runs it, with interrupts off.  What interleaves is a      *)
(* failure inside the code that handles one, and the NMI.  Every           *)
(* activation of a handler ends in panic, which does not return: only the  *)
(* last one on the stack ever runs again.                                  *)
(***************************************************************************)
EXTENDS Naturals, Sequences

CONSTANTS
  Pieces,      \* how many pieces a report is put out in
  MaxNested,   \* bound: exceptions taken on top of one another
  NoReport     \* no failure in panicBuf yet

ASSUME PiecesAssumption == Pieces \in Nat \ {0}
ASSUME NestedAssumption == MaxNested \in Nat

Kinds    == {"pagefault", "exception", "nmi"}
Messages == {"none", "require", "smashed", "nested"} \cup Kinds

ASSUME NoReportAssumption == NoReport \notin [act : Nat, msg : Messages]

VARIABLES
  stack,       \* the activations: the kernel, then the handlers on top of it
  count,       \* gPanicLock.count
  inFault,     \* amd64_handle_pagefault's flag
  panicBuf,    \* panicBuf: which activation's message it holds
  serial,      \* what has gone to the serial line
  console,     \* what has gone to the console
  gConsole     \* gConsole: does the console exist yet?

vars == <<stack, count, inFault, panicBuf, serial, console, gConsole>>
out  == <<serial, console>>

\* Where an activation is.  "run" is the kernel's own code; "entered" to
\* "format" are the handlers, the rest is panic.
Panicking == {"lock", "spin", "fill", "serial", "console", "halt"}
PCs       == {"run", "entered", "format"} \cup Panicking

\* Code that follows pointers it was given, writes the framebuffer or fills a
\* buffer on its stack: it can fault, or be caught by the stack protector.
Faulting == {"run", "format", "fill"} \cup (IF gConsole THEN {"console"} ELSE {})

Activation(kind) == [kind |-> kind, pc |-> "entered", msg |-> "none"]

Running == Len(stack)
Top     == stack[Running]

Init ==
  /\ stack = <<[kind |-> "kernel", pc |-> "run", msg |-> "none"]>>
  /\ count = 0 /\ inFault = FALSE /\ panicBuf = NoReport
  /\ serial = <<>> /\ console = <<>> /\ gConsole \in BOOLEAN

\* The running activation moves on; it calls panic with a message
Goto(from, to) == Top.pc = from /\ stack' = [stack EXCEPT ![Running].pc = to]
Call(msg)      ==
  stack' = [stack EXCEPT ![Running] = [kind |-> Top.kind, pc |-> "lock", msg |-> msg]]

-----------------------------------------------------------------------------
(* Failures *)

\* An exception pushes a frame and enters its stub, which turns interrupts
\* off and calls the handler.
Enter(kind) ==
  /\ Running <= MaxNested
  /\ stack' = Append(stack, Activation(kind))
  /\ UNCHANGED <<count, inFault, panicBuf, out, gConsole>>

Fault(kind) == Top.pc \in Faulting /\ Enter(kind)

\* An NMI comes anywhere, but not before the return from one: never again
NMI == (\A i \in DOMAIN stack : stack[i].kind # "nmi") /\ Enter("nmi")

\* REQUIRE in the kernel's code
Require ==
  /\ Top.pc = "run" /\ Call("require")
  /\ UNCHANGED <<count, inFault, panicBuf, out, gConsole>>

\* __stack_chk_fail, on the return from an overrun function
StackCheckFail ==
  /\ Top.pc \in Faulting /\ Call("smashed")
  /\ UNCHANGED <<count, inFault, panicBuf, out, gConsole>>

-----------------------------------------------------------------------------
(* The handlers *)

\* Mutant of HandlePageFault: the flag set, and not tested
HandlePageFaultUntested ==
  /\ Top.kind = "pagefault" /\ Goto("entered", "format")
  /\ inFault' = TRUE
  /\ UNCHANGED <<count, panicBuf, out, gConsole>>

\* amd64_handle_pagefault: the test-and-set of inFault
HandlePageFault ==
  /\ Top.pc = "entered" /\ Top.kind = "pagefault"
  /\ IF inFault THEN Call("nested") ELSE Goto("entered", "format")
  /\ inFault' = TRUE
  /\ UNCHANGED <<count, panicBuf, out, gConsole>>

\* Mutant of HandleException: no stub for the NMI
HandleExceptionNotNMI ==
  /\ Top.kind = "exception" /\ Goto("entered", "format")
  /\ UNCHANGED <<count, inFault, panicBuf, out, gConsole>>

HandleException ==
  /\ Top.kind # "pagefault" /\ Goto("entered", "format")
  /\ UNCHANGED <<count, inFault, panicBuf, out, gConsole>>

\* amd64_exception_format_info, then panic
FormatInfo ==
  /\ Top.pc = "format" /\ Call(Top.kind)
  /\ UNCHANGED <<count, inFault, panicBuf, out, gConsole>>

-----------------------------------------------------------------------------
(* panic *)

\* Mutant of SpinLock: SPIN_TRY_LOCK, its result unused
TryLockOnly ==
  /\ Goto("lock", "fill")
  /\ count' = 1
  /\ UNCHANGED <<inFault, panicBuf, out, gConsole>>

\* SPIN_LOCK(gPanicLock).  Nothing releases it: a wait that has begun is one
\* forever, and its iterations change nothing.
SpinLock ==
  /\ Goto("lock", IF count = 0 THEN "fill" ELSE "spin")
  /\ count' = 1
  /\ UNCHANGED <<inFault, panicBuf, out, gConsole>>

\* vsnprintf into the static panicBuf
FillBuffer ==
  /\ Goto("fill", "serial")
  /\ panicBuf' = [act |-> Running, msg |-> Top.msg]
  /\ UNCHANGED <<count, inFault, out, gConsole>>

Piece(device) == <<panicBuf, Len(device) + 1>>

\* Mutant of _outchar_serial: one piece too many
_outchar_serialPastEnd ==
  /\ Len(serial) <= Pieces
  /\ Goto("serial", "console")
  /\ serial' = Append(serial, Piece(serial))
  /\ UNCHANGED <<count, inFault, panicBuf, console, gConsole>>

\* fctprintf: each piece to the serial line, then to the console if it exists
_outchar_serial ==
  /\ Len(serial) < Pieces
  /\ Goto("serial", "console")
  /\ serial' = Append(serial, Piece(serial))
  /\ UNCHANGED <<count, inFault, panicBuf, console, gConsole>>

_outchar_console ==
  /\ Goto("console", "serial")
  /\ console' = IF gConsole THEN Append(console, Piece(console)) ELSE console
  /\ UNCHANGED <<count, inFault, panicBuf, serial, gConsole>>

\* for (;;) cli; hlt
Halt ==
  /\ Len(serial) = Pieces /\ Goto("serial", "halt")
  /\ UNCHANGED <<count, inFault, panicBuf, out, gConsole>>

-----------------------------------------------------------------------------
Failure == (\E kind \in {"pagefault", "exception"} : Fault(kind))
             \/ NMI \/ Require \/ StackCheckFail
Handle  == HandlePageFault \/ HandleException \/ FormatInfo
panic   == SpinLock \/ FillBuffer \/ _outchar_serial \/ _outchar_console \/ Halt
Next    == Failure \/ Handle \/ panic

\* The processor executes the handlers and panic; failures are not promised.
Fairness == WF_vars(Handle \/ panic)

Safety == Init /\ [][Next]_vars
Spec   == Safety /\ Fairness

-----------------------------------------------------------------------------
(* Properties *)

TypeOK ==
  /\ stack \in Seq([kind : {"kernel"} \cup Kinds, pc : PCs, msg : Messages])
  /\ stack # <<>>
  /\ count \in {0, 1} /\ inFault \in BOOLEAN /\ gConsole \in BOOLEAN
  /\ panicBuf \in [act : Nat, msg : Messages] \cup {NoReport}
  /\ serial \in Seq([act : Nat, msg : Messages] \X (1 .. Pieces))
  /\ console \in Seq([act : Nat, msg : Messages] \X (1 .. Pieces))

\* A page fault is formatted only if no page fault before it got as far as
\* its handler's flag: a fault inside the handler goes straight to panic, it
\* does not recurse.
PageFaultOnce ==
  \A i, j \in DOMAIN stack :
    /\ stack[i].kind = "pagefault" /\ stack[i].pc = "format"
    /\ stack[j].kind = "pagefault" /\ j < i
    => stack[j].pc = "entered"

\* The report on both devices is of one failure, untorn and in order,
\* whatever fails while it is being made: what panic promises.
Report == INSTANCE OneReport WITH report <- panicBuf
ImplementsOneReport == Report!Spec

\* A failure ends with its report on the serial line and the machine halted,
\* or waiting for the lock of a report that another failure has cut short.
Reported == Top.pc = "halt" /\ Len(serial) = Pieces
CutShort == Top.pc = "spin" /\ count = 1
FailureSettles == (Top.pc # "run") ~> (Reported \/ CutShort)

\* "nested page fault detected!": what amd64_handle_pagefault means to print
\* for a page fault inside a page fault.
NestedIsReported ==
  (\E i \in DOMAIN stack : stack[i].msg = "nested")
    ~> (\E i \in DOMAIN serial : serial[i][1].msg = "nested")
=============================================================================
