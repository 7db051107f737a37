-------------------------------- MODULE Boot --------------------------------
(***************************************************************************)
(* From the boot loader's jump to _start to the final hlt: the serial      *)
(* line, GDT::Init, IDT::Init, the console, the boot message, kinit.  At   *)
(* any point an exception may strike; the processor then looks its handler *)
(* up in whatever tables the kernel has loaded by then, and the stub       *)
(* builds the frame the handler reads.                                     *)
(*                                                                         *)
(* Interrupts are off throughout, so exceptions and the NMI are all there  *)
(* is.  No handler returns (Panic says what becomes of one): only the last *)
(* activation runs, and the boot code never again.                         *)
(***************************************************************************)
EXTENDS Descriptors, ExceptionFrame

CONSTANTS
  StubAddr,     \* the stubs' addresses, by vector
  StackTop,     \* where each of gBspIrqStacks ends, by its index
  TssAddr,      \* &gBspTss
  Failing,      \* the vectors that may be raised
  MaxFailures   \* bound: exceptions and NMIs that strike

ASSUME StubAssumption ==
  /\ StubAddr \in [Vectors -> Address]
  /\ \A v, w \in Vectors : StubAddr[v] = StubAddr[w] => v = w
ASSUME StackAssumption ==
  /\ StackTop \in [0 .. 6 -> Address]
  /\ \A i, j \in 0 .. 6 : StackTop[i] = StackTop[j] => i = j
  /\ \A i \in 0 .. 6 : StackTop[i] # Zero8
ASSUME TssAssumption     == TssAddr \in Address
ASSUME FailingAssumption == Failing \subseteq Vectors /\ MaxFailures \in Nat

VARIABLES
  boot,         \* the step of Program that is next
  cpu,          \* "boot", a step of a stub, or where it all ended
  framebuffer,  \* did the loader pass a framebuffer tag?
  uart,         \* is the serial line set up?
  gdt,          \* gGdt, the first 8 of its 128 descriptors: the rest stays 0
  gdtr,         \* the limit in GDTR, NotLoaded for the loader's table
  tss,          \* gBspTss
  tr,           \* the base and limit the processor keeps for TR
  idt,          \* gBspIdt->storage, for the vectors with a handler
  idtr,         \* the limit in IDTR, NotLoaded for the loader's table
  object,       \* the console object in gSharedConsole
  gConsole,     \* is gConsole set?
  act,          \* the running activation
  frames,       \* what has been pushed onto each interrupt stack
  failures,     \* exceptions and NMIs so far
  nmiBlocked    \* an NMI has been taken

tables  == <<gdt, gdtr, tss, tr, idt, idtr>>
devices == <<framebuffer, uart, object, gConsole>>
entry   == <<act, frames, nmiBlocked>>
vars    == <<boot, cpu, tables, devices, entry, failures>>

NotLoaded == 0
NoTask    == [base |-> Zero8, limit |-> NotLoaded]

\* _start (boot.cpp), with GDT::Init, IDT::Init, PlatformInit and kinit in it
Program ==
  <<"framebuffer", "serial",
    "clearGdt", "kernCode", "kernData", "userCode", "userCode64", "userData",
    "initTss", "ist", "installTss", "lgdt", "flush", "ltr",
    "handlers", "lidt",
    "logSerial", "clearConsole", "construct", "publish", "message",
    "log", "divide", "hang">>

\* The steps that write a log line, to the serial line
Logging ==
  {"kernCode", "kernData", "userCode", "userCode64", "userData", "installTss",
   "lgdt", "ltr", "handlers", "lidt", "logSerial", "publish", "log"}

Init ==
  /\ boot = 1 /\ cpu = "boot"
  /\ framebuffer \in BOOLEAN /\ uart = FALSE
  /\ gdt = [i \in 0 .. 7 |-> Zero8] /\ gdtr = NotLoaded
  /\ tss = [ist |-> [i \in 0 .. 6 |-> Zero8], ioMap |-> 0] /\ tr = NoTask
  /\ idt = [v \in Vectors |-> Zero8 \o Zero8] /\ idtr = NotLoaded
  /\ object = "raw" /\ gConsole = FALSE
  /\ act = [ctx |-> 0, raised |-> 0, stub |-> 0, stack |-> 0]
  /\ frames = [i \in 0 .. 6 |-> <<>>]
  /\ failures = 0 /\ nmiBlocked = FALSE

-----------------------------------------------------------------------------
(* The processor (external) *)

\* A code segment of the loaded table that a gate or a far return may name
CodeSegment(sel) ==
  /\ gdtr # NotLoaded /\ sel + 7 <= gdtr
  /\ LET d == gdt[sel \div 8] IN Present(d) /\ IsCode64(d) /\ Ring(d) = 0

\* One that the stack segment register takes
StackSegment(sel) ==
  /\ gdtr # NotLoaded /\ sel + 7 <= gdtr
  /\ LET d == gdt[sel \div 8] IN Present(d) /\ IsWritable(d) /\ Ring(d) = 0

TaskSegment(sel) ==
  /\ gdtr # NotLoaded /\ sel + 15 <= gdtr
  /\ Present(gdt[sel \div 8]) /\ AvailableTss(gdt[sel \div 8])

Stack(v) == idt[v][5]

\* A vector's gate leads to a stub, on an interrupt stack
Deliverable(v) ==
  /\ idtr # NotLoaded /\ 16 * v + 15 <= idtr
  /\ idt[v][6] >= 128
  /\ CodeSegment(idt[v][3] + 256 * idt[v][4])
  /\ \E w \in Vectors : StubAddr[w] = Target(idt[v])
  /\ Stack(v) \in 1 .. 7
  /\ tr.base = TssAddr /\ 36 + 8 * Stack(v) - 1 <= tr.limit
  /\ \E i \in 0 .. 6 : StackTop[i] = tss.ist[Stack(v) - 1]

\* The processor switches to the stack that the gate of v names, pushes its
\* words and enters the stub; what was raised may be something else
Enter(v, raised) ==
  LET i   == CHOOSE i \in 0 .. 6 : StackTop[i] = tss.ist[Stack(v) - 1]
      ctx == act.ctx + 1
  IN  /\ cpu' = "entered"
      /\ act' = [ctx   |-> ctx, raised |-> raised, stack |-> i,
                 stub  |-> CHOOSE w \in Vectors : StubAddr[w] = Target(idt[v])]
      /\ frames' = [frames EXCEPT ![i] = HardwareWords(v, ctx)]
      /\ nmiBlocked' = (nmiBlocked \/ v = X86_EXC_NMI)

\* What cannot be delivered becomes a double fault, and then a reset
Raise(v) ==
  IF Deliverable(v) THEN Enter(v, v)
  ELSE IF Deliverable(X86_EXC_DOUBLE_FAULT) THEN Enter(X86_EXC_DOUBLE_FAULT, v)
  ELSE cpu' = "reset" /\ UNCHANGED entry

Running == cpu \in {"boot", "entered", "numbered", "saved", "handler"}

\* An exception strikes whatever runs; an NMI, only before the first one
Fail(v) ==
  /\ Running /\ failures < MaxFailures
  /\ v = X86_EXC_NMI => ~nmiBlocked
  /\ failures' = failures + 1
  /\ Raise(v)
  /\ UNCHANGED <<boot, tables, devices>>

-----------------------------------------------------------------------------
(* The boot code.  A step either goes on to the next one or ends it all. *)

At(step) == cpu = "boot" /\ Program[boot] = step

Continue == boot' = boot + 1 /\ UNCHANGED <<cpu, entry, failures>>
End(how) == cpu' = how /\ UNCHANGED <<boot, entry, failures>>
Fault(v) == Raise(v) /\ UNCHANGED <<boot, failures>>

\* No framebuffer tag: for (;;) hlt
FindFramebuffer ==
  /\ At("framebuffer")
  /\ IF framebuffer THEN Continue ELSE End("hung")
  /\ UNCHANGED <<tables, devices>>

SerialInit ==
  /\ At("serial") /\ Continue
  /\ uart' = TRUE
  /\ UNCHANGED <<tables, framebuffer, object, gConsole>>

\* GDT::Init's memset
ClearGdt ==
  /\ At("clearGdt") /\ Continue
  /\ gdt' = [i \in 0 .. 7 |-> Zero8]
  /\ UNCHANGED <<gdtr, tss, tr, idt, idtr, devices>>

\* Mutant of Set32: the index is tested with <
Set32Below(num, flags, gran) ==
  /\ IF num < GDT_USER_CODE64_SEG \div 8
       THEN /\ gdt' = [gdt EXCEPT ![num] =
                         Segment(<<0, 0, 0, 0>>, <<255, 255, 255, 255>>, flags, gran)]
            /\ Continue
       ELSE gdt' = gdt /\ End("panic")
  /\ UNCHANGED <<gdtr, tss, tr, idt, idtr, devices>>

\* GDT::Set32: its REQUIRE, the flat segment, a log line
Set32(num, flags, gran) ==
  /\ IF num <= GDT_USER_CODE64_SEG \div 8
       THEN /\ gdt' = [gdt EXCEPT ![num] =
                         Segment(<<0, 0, 0, 0>>, <<255, 255, 255, 255>>, flags, gran)]
            /\ Continue
       ELSE gdt' = gdt /\ End("panic")
  /\ UNCHANGED <<gdtr, tss, tr, idt, idtr, devices>>

\* GDT::Init's calls of it: access 9A, 96, FA, F2, granularity 20, CF, 0
SetSegments ==
  \/ At("kernCode")   /\ Set32(GDT_KERN_CODE_SEG \div 8, 154, 32)
  \/ At("kernData")   /\ Set32(GDT_KERN_DATA_SEG \div 8, 150, 207)
  \/ At("userCode")   /\ Set32(GDT_USER_CODE_SEG \div 8, 250, 32)
  \/ At("userCode64") /\ Set32(GDT_USER_CODE64_SEG \div 8, 250, 32)
  \/ At("userData")   /\ Set32(GDT_USER_DATA_SEG \div 8, 242, 0)

InitTss ==
  /\ At("initTss") /\ Continue
  /\ tss' = [ist |-> [i \in 0 .. 6 |-> Zero8], ioMap |-> TssBytes - 1]
  /\ UNCHANGED <<gdt, gdtr, tr, idt, idtr, devices>>

\* Mutant of SetStacks: ist[i] holds the high half where the low one belongs
SetStacksSwapped ==
  /\ At("ist") /\ Continue
  /\ tss' = [tss EXCEPT !.ist =
               [i \in 0 .. 6 |-> SubSeq(StackTop[i], 5, 8) \o SubSeq(StackTop[i], 1, 4)]]
  /\ UNCHANGED <<gdt, gdtr, tr, idt, idtr, devices>>

\* The loop over gBspIrqStacks: the low and the high half of each stack's end
SetStacks ==
  /\ At("ist") /\ Continue
  /\ tss' = [tss EXCEPT !.ist = StackTop]
  /\ UNCHANGED <<gdt, gdtr, tr, idt, idtr, devices>>

\* InstallTss(0, &gBspTss), by way of Set64 and its REQUIRE
InstallTss ==
  LET num == GDT_FIRST_TSS \div 8 IN
  /\ At("installTss")
  /\ IF num >= GDT_USER_CODE64_SEG \div 8
       THEN /\ gdt' = [gdt EXCEPT ![num] = Segment(TssAddr, <<TssBytes - 1, 0, 0, 0>>, 137, 0),
                                  ![num + 1] = BaseHigh(TssAddr)]
            /\ Continue
       ELSE gdt' = gdt /\ End("panic")
  /\ UNCHANGED <<gdtr, tss, tr, idt, idtr, devices>>

\* Mutant of Load: the limit is the table's length
LoadPastEnd ==
  /\ At("lgdt") /\ Continue
  /\ gdtr' = GDT_FIRST_TSS + 16
  /\ UNCHANGED <<gdt, tss, tr, idt, idtr, devices>>

\* GDT::Load(1) up to the flush
Load ==
  /\ At("lgdt") /\ Continue
  /\ gdtr' = GDT_FIRST_TSS + 16 - 1
  /\ UNCHANGED <<gdt, tss, tr, idt, idtr, devices>>

\* amd64_gdt_flush: the far return takes CS, the moves the other registers
Flush ==
  /\ At("flush")
  /\ IF CodeSegment(GDT_KERN_CODE_SEG) /\ StackSegment(GDT_KERN_DATA_SEG)
       THEN Continue ELSE Fault(X86_EXC_GPF)
  /\ UNCHANGED <<tables, devices>>

\* ActivateTask(0): ltr reads the descriptor and marks it busy
ActivateTask ==
  LET d == GDT_FIRST_TSS \div 8 IN
  /\ At("ltr")
  /\ IF TaskSegment(GDT_FIRST_TSS)
       THEN /\ tr' = [base |-> Base(gdt[d], gdt[d + 1]), limit |-> gdt[d][1] + 256 * gdt[d][2]]
            /\ gdt' = [gdt EXCEPT ![d][6] = @ + 2]
            /\ Continue
       ELSE UNCHANGED <<tr, gdt>> /\ Fault(X86_EXC_GPF)
  /\ UNCHANGED <<gdtr, tss, idt, idtr, devices>>

-----------------------------------------------------------------------------
\* The interrupt stack InstallExceptionHandlers gives a vector
StackOf(v) ==
  CASE v = X86_EXC_NMI                                       -> 3
    [] v \in {X86_EXC_DEBUG, X86_EXC_BREAKPOINT, X86_EXC_MCE} -> 4
    [] v \in {6, 7, 8, 13, 14, 16, 17}                        -> 2
    [] OTHER                                                  -> 1

FlagsOf(v) == IF v = X86_EXC_NMI THEN IDT_FLAGS_ISR ELSE IDT_FLAGS_TRAP

\* Mutant of InstallExceptionHandlers: the gate of the page fault forgotten
InstallExceptionHandlersButOne ==
  /\ At("handlers") /\ Continue
  /\ idt' = [v \in Vectors |->
               IF v = X86_EXC_PAGING THEN Zero8 \o Zero8
               ELSE Gate(StubAddr[v], GDT_KERN_CODE_SEG, FlagsOf(v), StackOf(v))]
  /\ UNCHANGED <<gdt, gdtr, tss, tr, idtr, devices>>

\* IDT's memclr, then nineteen calls of IDT::set, all for entries below kNumIdt
InstallExceptionHandlers ==
  /\ At("handlers") /\ Continue
  /\ idt' = [v \in Vectors |->
               Gate(StubAddr[v], GDT_KERN_CODE_SEG, FlagsOf(v), StackOf(v))]
  /\ UNCHANGED <<gdt, gdtr, tss, tr, idtr, devices>>

LoadIdt ==
  /\ At("lidt") /\ Continue
  /\ idtr' = 16 * kNumIdt - 1
  /\ UNCHANGED <<gdt, gdtr, tss, tr, idt, devices>>

-----------------------------------------------------------------------------
\* A step that only writes log lines
Log ==
  /\ At("logSerial") \/ At("log")
  /\ Continue
  /\ UNCHANGED <<tables, devices>>

\* FramebufferInit: memclr, the constructor, the assignment; then a log line
ClearConsole ==
  /\ At("clearConsole") /\ Continue
  /\ object' = "cleared"
  /\ UNCHANGED <<tables, framebuffer, uart, gConsole>>

\* Mutant of Construct: gConsole set before the constructor is through
ConstructPublished ==
  /\ At("construct") /\ Continue
  /\ gConsole' = TRUE
  /\ UNCHANGED <<tables, framebuffer, uart, object>>

Construct ==
  /\ At("construct") /\ Continue
  /\ object' = "constructed"
  /\ UNCHANGED <<tables, framebuffer, uart, gConsole>>

Publish ==
  /\ At("publish") /\ Continue
  /\ gConsole' = TRUE
  /\ UNCHANGED <<tables, framebuffer, uart, object>>

PrintBootMessage ==
  /\ At("message")
  /\ IF gConsole THEN Continue ELSE Fault(X86_EXC_PAGING)
  /\ UNCHANGED <<tables, devices>>

\* kinit's 10 / 0: undefined, and its result unused, so there may be no
\* division left; then back to _start's for (;;) hlt
Divide ==
  /\ At("divide")
  /\ Continue \/ Fault(X86_EXC_DIVIDE)
  /\ UNCHANGED <<tables, devices>>

-----------------------------------------------------------------------------
(* The stubs *)

Push(words, from, to) ==
  /\ cpu = from /\ cpu' = to
  /\ frames' = [frames EXCEPT ![act.stack] = @ \o words]
  /\ UNCHANGED <<boot, tables, devices, act, nmiBlocked, failures>>

PushNumber    == Push(StubWords(act.stub), "entered", "numbered")
PushRegisters == Push(RegisterWords(act.ctx), "numbered", "saved")

\* rdi points to the frame; rbp, saved by now, is cleared
CallHandler   ==
  /\ cpu = "saved" /\ cpu' = "handler"
  /\ UNCHANGED <<boot, tables, devices, entry, failures>>

-----------------------------------------------------------------------------
GdtInit == ClearGdt \/ SetSegments \/ InitTss \/ SetStacks \/ InstallTss \/ Load
             \/ Flush \/ ActivateTask
IdtInit == InstallExceptionHandlers \/ LoadIdt
PlatformInit == ClearConsole \/ Construct \/ Publish \/ PrintBootMessage
Stub  == PushNumber \/ PushRegisters \/ CallHandler
_start == FindFramebuffer \/ SerialInit \/ GdtInit \/ IdtInit \/ PlatformInit
             \/ Log \/ Divide
Next  == _start \/ Stub \/ \E v \in Failing : Fail(v)

\* The processor executes what it is given; failures are not promised.
Safety == Init /\ [][Next]_vars
Spec   == Safety /\ WF_vars(_start \/ Stub)

-----------------------------------------------------------------------------
(* Properties *)

TypeOK ==
  /\ boot \in 1 .. Len(Program)
  /\ cpu \in {"boot", "entered", "numbered", "saved", "handler", "panic", "reset", "hung"}
  /\ framebuffer \in BOOLEAN /\ uart \in BOOLEAN /\ gConsole \in BOOLEAN
  /\ object \in {"raw", "cleared", "constructed"}
  /\ gdt \in [0 .. 7 -> Address] /\ gdtr \in {NotLoaded, 8 * 8 - 1}
  /\ tss \in [ist : [0 .. 6 -> Address], ioMap : {0, TssBytes - 1}]
  /\ tr \in [base : Address, limit : {NotLoaded, TssBytes - 1}]
  /\ idt \in [Vectors -> [1 .. 16 -> Byte]] /\ idtr \in {NotLoaded, 16 * kNumIdt - 1}
  /\ act \in [ctx : Nat, raised : Vectors, stub : Vectors, stack : 0 .. 6]
  /\ DOMAIN frames = 0 .. 6
  /\ failures \in 0 .. MaxFailures /\ nmiBlocked \in BOOLEAN

\* Once lidt is done whatever strikes gets to its own handler, never to that of
\* the double fault it would become: a reset means a failure that came before,
\* and the kernel causes none by itself.
Delivered ==
  /\ cpu = "reset" => idtr = NotLoaded /\ failures > 0
  /\ cpu = "entered" => act.stub = act.raised

\* A handler finds in amd64_exception_info the context that was interrupted:
\* every register at its place, the vector's number, the error code or a zero.
FrameIsContext ==
  cpu = "handler" => IsContext(frames[act.stack], act.raised, act.ctx)

\* What logs or reports finds its devices ready: the serial line set up, and a
\* console that is constructed, if gConsole says there is one.
OutputReady ==
  /\ (cpu = "boot" /\ Program[boot] \in Logging) \/ cpu \in {"handler", "panic"} => uart
  /\ gConsole => object = "constructed"

\* With a framebuffer and no failure from outside, boot comes to its end:
\* the final hlt, or the handler for kinit's division.
AtEnd == cpu = "boot" /\ Program[boot] = "hang"
BootCompletes ==
  framebuffer /\ [](failures = 0)
    => <>(AtEnd \/ (cpu = "handler" /\ act.raised = X86_EXC_DIVIDE))
=============================================================================
