----------------------------- MODULE Boot_proofs ----------------------------
(***************************************************************************)
(* Boot, for all addresses of stubs, stacks and TSS, and however many      *)
(* failures strike: once lidt is done every exception reaches its handler, *)
(* the handler finds the interrupted context in its frame, and whatever    *)
(* logs or reports has its devices ready.                                  *)
(***************************************************************************)
EXTENDS Boot, SequenceTheorems, TLAPS

-----------------------------------------------------------------------------
(* Descriptors: what is written is what the processor reads *)

LEMMA AddressParts ==
  ASSUME NEW a \in Address
  PROVE  <<a[1], a[2], a[3], a[4], a[5], a[6], a[7], a[8]>> = a
BY DEF Address

\* A gate leads to the function it was set to, with its selector, stack and flags
LEMMA GateReads ==
  ASSUME NEW a \in Address, NEW sel, NEW flags, NEW stack
  PROVE  LET g == Gate(a, sel, flags, stack)
         IN  Target(g) = a /\ g[3] = sel /\ g[4] = 0 /\ g[5] = stack /\ g[6] = flags
BY AddressParts DEF Gate, Target

\* The base of a TSS comes back from the two halves of its descriptor
LEMMA BaseReads ==
  ASSUME NEW a \in Address, NEW limit, NEW flags, NEW gran
  PROVE  Base(Segment(a, limit, flags, gran), BaseHigh(a)) = a
BY AddressParts DEF Base, Segment, BaseHigh

KernCode == Segment(<<0, 0, 0, 0>>, <<255, 255, 255, 255>>, 154, 32)
KernData == Segment(<<0, 0, 0, 0>>, <<255, 255, 255, 255>>, 150, 207)
TssLow   == Segment(TssAddr, <<TssBytes - 1, 0, 0, 0>>, 137, 0)

LEMMA KernCodeIsCode == Present(KernCode) /\ IsCode64(KernCode) /\ Ring(KernCode) = 0
<1>1. KernCode = <<255, 255, 0, 0, 0, 154, 47, 0>>
  BY DEF KernCode, Segment, Granularity
<1> QED  BY <1>1 DEF Present, IsCode64, Ring

LEMMA KernDataIsData == Present(KernData) /\ IsWritable(KernData) /\ Ring(KernData) = 0
<1>1. KernData = <<255, 255, 0, 0, 0, 150, 207, 0>>
  BY DEF KernData, Segment, Granularity
<1> QED  BY <1>1 DEF Present, IsWritable, Ring

LEMMA TssIsTss ==
  /\ Present(TssLow) /\ AvailableTss(TssLow) /\ TssLow[1] + 256 * TssLow[2] = 103
  /\ Base(TssLow, BaseHigh(TssAddr)) = TssAddr
<1>1. TssLow = <<103, 0, TssAddr[1], TssAddr[2], TssAddr[3], 137, 0, TssAddr[4]>>
  BY DEF TssLow, Segment, Granularity, TssBytes
<1>2. Base(TssLow, BaseHigh(TssAddr)) = TssAddr
  BY BaseReads, TssAssumption DEF TssLow
<1> QED  BY <1>1, <1>2 DEF Present, AvailableTss

-----------------------------------------------------------------------------
(* The program *)

StepAt(step, n) == \A b \in 1 .. 24 : Program[b] = step <=> b = n

LEMMA Steps ==
  /\ Len(Program) = 24
  /\ StepAt("framebuffer", 1) /\ StepAt("serial", 2) /\ StepAt("clearGdt", 3)
  /\ StepAt("kernCode", 4) /\ StepAt("kernData", 5) /\ StepAt("userCode", 6)
  /\ StepAt("userCode64", 7) /\ StepAt("userData", 8) /\ StepAt("initTss", 9)
  /\ StepAt("ist", 10) /\ StepAt("installTss", 11) /\ StepAt("lgdt", 12)
  /\ StepAt("flush", 13) /\ StepAt("ltr", 14) /\ StepAt("handlers", 15)
  /\ StepAt("lidt", 16) /\ StepAt("logSerial", 17) /\ StepAt("clearConsole", 18)
  /\ StepAt("construct", 19) /\ StepAt("publish", 20) /\ StepAt("message", 21)
  /\ StepAt("log", 22) /\ StepAt("divide", 23) /\ StepAt("hang", 24)
<1>1. Len(Program) = 24
  BY DEF Program
<1>2. \A b \in 1 .. 24 :
        \/ b = 1 \/ b = 2 \/ b = 3 \/ b = 4 \/ b = 5 \/ b = 6 \/ b = 7 \/ b = 8
        \/ b = 9 \/ b = 10 \/ b = 11 \/ b = 12 \/ b = 13 \/ b = 14 \/ b = 15 \/ b = 16
        \/ b = 17 \/ b = 18 \/ b = 19 \/ b = 20 \/ b = 21 \/ b = 22 \/ b = 23 \/ b = 24
  OBVIOUS
<1> QED  BY <1>1, <1>2, SMTT(60) DEF Program, StepAt

-----------------------------------------------------------------------------
(* The invariant: what each table holds once its step is done *)

Handlers == [v \in Vectors |->
               Gate(StubAddr[v], GDT_KERN_CODE_SEG, FlagsOf(v), StackOf(v))]

GdtSet ==
  /\ DOMAIN gdt = 0 .. 7
  /\ boot >= 5 => gdt[1] = KernCode
  /\ boot >= 6 => gdt[2] = KernData
  /\ boot \in 12 .. 14 => gdt[6] = TssLow /\ gdt[7] = BaseHigh(TssAddr)

TablesLoaded ==
  /\ boot >= 11 => tss.ist = StackTop
  /\ boot >= 13 => gdtr = 63
  /\ boot >= 15 => tr.base = TssAddr /\ tr.limit = 103
  /\ boot >= 16 => idt = Handlers
  /\ idtr = IF boot >= 17 THEN 4095 ELSE NotLoaded

DevicesUp ==
  /\ boot >= 3 => uart
  /\ boot >= 20 => object = "constructed"
  /\ gConsole <=> boot >= 21

\* The frame the stub of a delivered exception has built so far
Numbered(v, ctx) == HardwareWords(v, ctx) \o StubWords(v)
Saved(v, ctx)    == Numbered(v, ctx) \o RegisterWords(ctx)

Built ==
  CASE cpu = "entered"  -> HardwareWords(act.raised, act.ctx)
    [] cpu = "numbered" -> Numbered(act.raised, act.ctx)
    [] OTHER            -> Saved(act.raised, act.ctx)

Handling == cpu \in {"entered", "numbered", "saved", "handler"}

ActivationSound ==
  /\ DOMAIN frames = 0 .. 6
  /\ act.ctx \in Nat
  /\ Handling => /\ boot >= 17
                 /\ act.raised \in Vectors /\ act.stub = act.raised
                 /\ act.stack \in 0 .. 6
                 /\ frames[act.stack] = Built

Ended ==
  /\ cpu \in {"boot", "entered", "numbered", "saved", "handler", "panic", "reset", "hung"}
  /\ cpu = "reset" => boot < 17 /\ failures > 0
  /\ cpu = "panic" => boot >= 3
  /\ failures \in Nat

IInv == boot \in 1 .. 24 /\ GdtSet /\ TablesLoaded /\ DevicesUp /\ ActivationSound /\ Ended

-----------------------------------------------------------------------------
(* Delivery *)

LEMMA CodeSegmentLoaded ==
  ASSUME GdtSet, TablesLoaded, boot \in 1 .. 24, boot >= 13
  PROVE  CodeSegment(8) /\ StackSegment(16)
<1>1. gdtr = 63 /\ gdt[1] = KernCode /\ gdt[2] = KernData
  BY DEF GdtSet, TablesLoaded
<1>2. 8 \div 8 = 1 /\ 16 \div 8 = 2
  OBVIOUS
<1> QED
  BY <1>1, <1>2, KernCodeIsCode, KernDataIsData DEF CodeSegment, StackSegment, NotLoaded

LEMMA VectorsType == \A v \in Vectors : v \in 0 .. 20
BY DEF Vectors

LEMMA StackOfType == \A v \in Vectors : StackOf(v) \in 1 .. 4
BY DEF StackOf, Vectors, X86_EXC_NMI, X86_EXC_DEBUG, X86_EXC_BREAKPOINT, X86_EXC_MCE

\* With all tables loaded, every vector is deliverable, to its own stub and
\* on the stack its gate names
LEMMA DeliverableWhenLoaded ==
  ASSUME IInv, boot >= 17, NEW v \in Vectors
  PROVE  /\ Deliverable(v)
         /\ Target(idt[v]) = StubAddr[v]
         /\ tss.ist[Stack(v) - 1] = StackTop[StackOf(v) - 1]
         /\ StackOf(v) - 1 \in 0 .. 6
<1>1. /\ idtr = 4095 /\ idt = Handlers /\ gdtr = 63 /\ tss.ist = StackTop
      /\ tr.base = TssAddr /\ tr.limit = 103
  BY DEF IInv, TablesLoaded
<1>2. idt[v] = Gate(StubAddr[v], 8, FlagsOf(v), StackOf(v))
  BY <1>1 DEF Handlers, GDT_KERN_CODE_SEG
<1>3. StubAddr[v] \in Address
  BY StubAssumption
<1>4. /\ Target(idt[v]) = StubAddr[v] /\ idt[v][3] = 8 /\ idt[v][4] = 0
      /\ Stack(v) = StackOf(v) /\ idt[v][6] = FlagsOf(v)
  BY <1>2, <1>3, GateReads DEF Stack
<1>5. FlagsOf(v) >= 128
  BY DEF FlagsOf, IDT_FLAGS_ISR, IDT_FLAGS_TRAP
<1>6. CodeSegment(idt[v][3] + 256 * idt[v][4])
  BY <1>4, CodeSegmentLoaded DEF IInv
<1>7. Stack(v) \in 1 .. 4 /\ StackOf(v) - 1 \in 0 .. 6
  BY <1>4, StackOfType
<1>8. v \in 0 .. 20
  BY VectorsType
<1> QED
  BY <1>1, <1>4, <1>5, <1>6, <1>7, <1>8 DEF Deliverable, NotLoaded

\* Raising an exception: a reset before lidt, the vector's own stub after it
LEMMA RaiseSound ==
  ASSUME IInv, NEW v \in Vectors, Raise(v), boot' = boot, UNCHANGED <<idtr, tables>>,
         failures' \in Nat, boot < 17 => failures' > 0
  PROVE  ActivationSound' /\ Ended'
<1>1. CASE boot < 17
  <2>1. idtr = NotLoaded
    BY <1>1 DEF IInv, TablesLoaded
  <2>2. cpu' = "reset" /\ UNCHANGED entry
    BY <2>1 DEF Raise, Deliverable
  <2> QED
    BY <1>1, <2>2 DEF IInv, ActivationSound, Ended, Handling, entry
<1>2. CASE boot >= 17
  <2>1. /\ Deliverable(v) /\ Target(idt[v]) = StubAddr[v]
        /\ tss.ist[Stack(v) - 1] = StackTop[StackOf(v) - 1]
        /\ StackOf(v) - 1 \in 0 .. 6
    BY <1>2, DeliverableWhenLoaded
  <2>2. Enter(v, v)
    BY <2>1 DEF Raise
  <2>3. (CHOOSE w \in Vectors : StubAddr[w] = Target(idt[v])) = v
    BY <2>1, StubAssumption
  <2> DEFINE i == CHOOSE i \in 0 .. 6 : StackTop[i] = tss.ist[Stack(v) - 1]
  <2>4. i \in 0 .. 6
    BY <2>1
  <2>5. /\ cpu' = "entered"
        /\ act' = [ctx |-> act.ctx + 1, raised |-> v, stack |-> i, stub |-> v]
        /\ frames' = [frames EXCEPT ![i] = HardwareWords(v, act.ctx + 1)]
    BY <2>2, <2>3 DEF Enter
  <2> HIDE DEF i
  <2>6. /\ act'.ctx = act.ctx + 1 /\ act'.raised = v /\ act'.stack = i /\ act'.stub = v
    BY <2>5
  <2>7. act.ctx + 1 \in Nat /\ DOMAIN frames = 0 .. 6
    BY DEF IInv, ActivationSound
  <2>8. frames'[i] = HardwareWords(v, act.ctx + 1) /\ DOMAIN frames' = 0 .. 6
    BY <2>4, <2>5, <2>7
  <2>9. Built' = HardwareWords(v, act.ctx + 1)
    BY <2>5, <2>6 DEF Built
  <2> QED
    BY <1>2, <2>4, <2>5, <2>6, <2>7, <2>8, <2>9 DEF ActivationSound, Ended
<1> QED  BY <1>1, <1>2 DEF IInv

-----------------------------------------------------------------------------
(* Induction *)

LEMMA InitInv == Init => IInv
<1> SUFFICES ASSUME Init PROVE IInv
  OBVIOUS
<1> QED
  BY DEF Init, IInv, GdtSet, TablesLoaded, DevicesUp, ActivationSound, Ended, Handling,
         NotLoaded, NoTask

LEMMA StutterInv == IInv /\ UNCHANGED vars => IInv'
BY DEF vars, tables, devices, entry, IInv, GdtSet, TablesLoaded, DevicesUp,
       ActivationSound, Ended, Handling, Built

\* A boot step that goes on leaves the exceptions' part alone
LEMMA ContinueSound ==
  ASSUME IInv, cpu = "boot", boot \in 1 .. 23, Continue
  PROVE  ActivationSound' /\ Ended' /\ boot' = boot + 1 /\ boot' \in 1 .. 24
BY DEF IInv, Continue, ActivationSound, Ended, Handling, entry

\* A segment set does not disturb those already set
LEMMA Set32Inv ==
  ASSUME IInv, NEW num \in 1 .. 5, NEW flags, NEW gran, cpu = "boot", boot \in 4 .. 8,
         Set32(num, flags, gran),
         num = 1 <=> boot = 4, num = 2 <=> boot = 5,
         boot = 4 => flags = 154 /\ gran = 32,
         boot = 5 => flags = 150 /\ gran = 207
  PROVE  IInv'
<1>1. num <= GDT_USER_CODE64_SEG \div 8
  BY DEF GDT_USER_CODE64_SEG
<1>2. Continue
  BY <1>1 DEF Set32
<1>3. ActivationSound' /\ Ended' /\ boot' = boot + 1 /\ boot' \in 1 .. 24
  BY <1>2, ContinueSound
<1>4. gdt' = [gdt EXCEPT ![num] =
                Segment(<<0, 0, 0, 0>>, <<255, 255, 255, 255>>, flags, gran)]
  BY <1>1 DEF Set32
<1>5. GdtSet'
  BY <1>3, <1>4 DEF IInv, GdtSet, KernCode, KernData
<1>6. TablesLoaded' /\ DevicesUp'
  BY <1>3 DEF Set32, IInv, TablesLoaded, DevicesUp, devices, NotLoaded
<1> QED  BY <1>3, <1>5, <1>6 DEF IInv

LEMMA SetSegmentsInv == ASSUME IInv, SetSegments PROVE IInv'
<1>1. cpu = "boot"
  BY DEF SetSegments, At
<1>2. \/ boot = 4 /\ Set32(1, 154, 32)
      \/ boot = 5 /\ Set32(2, 150, 207)
      \/ boot = 6 /\ Set32(3, 250, 32)
      \/ boot = 7 /\ Set32(5, 250, 32)
      \/ boot = 8 /\ Set32(4, 242, 0)
  <2>1. boot \in 1 .. 24 /\ 8 \div 8 = 1 /\ 16 \div 8 = 2 /\ 24 \div 8 = 3
          /\ 32 \div 8 = 4 /\ 40 \div 8 = 5
    BY DEF IInv
  <2> QED
    BY <2>1, Steps DEF SetSegments, At, StepAt, GDT_KERN_CODE_SEG, GDT_KERN_DATA_SEG,
       GDT_USER_CODE_SEG, GDT_USER_CODE64_SEG, GDT_USER_DATA_SEG
<1> QED  BY <1>1, <1>2, Set32Inv

LEMMA GdtInitInv == ASSUME IInv, GdtInit PROVE IInv'
<1> USE DEF IInv
<1>1. CASE ClearGdt
  <2>1. boot = 3 /\ cpu = "boot" /\ Continue
    BY <1>1, Steps DEF ClearGdt, At, StepAt
  <2>2. ActivationSound' /\ Ended' /\ boot' = 4
    BY <2>1, ContinueSound
  <2> QED
    BY <1>1, <2>1, <2>2
    DEF ClearGdt, GdtSet, TablesLoaded, DevicesUp, devices, NotLoaded
<1>2. CASE SetSegments
  BY <1>2, SetSegmentsInv
<1>3. CASE InitTss
  <2>1. boot = 9 /\ cpu = "boot" /\ Continue
    BY <1>3, Steps DEF InitTss, At, StepAt
  <2>2. ActivationSound' /\ Ended' /\ boot' = 10
    BY <2>1, ContinueSound
  <2> QED
    BY <1>3, <2>1, <2>2
    DEF InitTss, GdtSet, TablesLoaded, DevicesUp, devices, NotLoaded
<1>4. CASE SetStacks
  <2>1. boot = 10 /\ cpu = "boot" /\ Continue
    BY <1>4, Steps DEF SetStacks, At, StepAt
  <2>2. ActivationSound' /\ Ended' /\ boot' = 11
    BY <2>1, ContinueSound
  <2>3. tss'.ist = StackTop
    BY <1>4 DEF SetStacks
  <2> QED
    BY <1>4, <2>1, <2>2, <2>3
    DEF SetStacks, GdtSet, TablesLoaded, DevicesUp, devices, NotLoaded
<1>5. CASE InstallTss
  <2>1. boot = 11 /\ cpu = "boot" /\ GDT_FIRST_TSS \div 8 = 6 /\ GDT_USER_CODE64_SEG \div 8 = 5
    BY <1>5, Steps DEF InstallTss, At, StepAt, GDT_FIRST_TSS, GDT_USER_CODE64_SEG
  <2>2. /\ gdt' = [gdt EXCEPT ![6] = TssLow, ![7] = BaseHigh(TssAddr)]
        /\ Continue
    BY <1>5, <2>1 DEF InstallTss, TssLow
  <2>3. ActivationSound' /\ Ended' /\ boot' = 12
    BY <2>1, <2>2, ContinueSound
  <2>4. GdtSet'
    BY <2>1, <2>2, <2>3 DEF GdtSet
  <2> QED
    BY <1>5, <2>1, <2>3, <2>4 DEF InstallTss, TablesLoaded, DevicesUp, devices, NotLoaded
<1>6. CASE Load
  <2>1. boot = 12 /\ cpu = "boot" /\ Continue
    BY <1>6, Steps DEF Load, At, StepAt
  <2>2. ActivationSound' /\ Ended' /\ boot' = 13
    BY <2>1, ContinueSound
  <2> QED
    BY <1>6, <2>1, <2>2
    DEF Load, GdtSet, TablesLoaded, DevicesUp, devices, NotLoaded, GDT_FIRST_TSS
<1>7. CASE Flush
  <2>1. boot = 13 /\ cpu = "boot"
    BY <1>7, Steps DEF Flush, At, StepAt
  <2>2. Continue
    BY <1>7, <2>1, CodeSegmentLoaded DEF Flush, GDT_KERN_CODE_SEG, GDT_KERN_DATA_SEG
  <2>3. ActivationSound' /\ Ended' /\ boot' = 14
    BY <2>1, <2>2, ContinueSound
  <2> QED
    BY <1>7, <2>1, <2>3
    DEF Flush, GdtSet, TablesLoaded, DevicesUp, devices, tables, NotLoaded
<1>8. CASE ActivateTask
  <2>1. boot = 14 /\ cpu = "boot" /\ GDT_FIRST_TSS = 48 /\ 48 \div 8 = 6
    BY <1>8, Steps DEF ActivateTask, At, StepAt, GDT_FIRST_TSS
  <2>2. gdt[6] = TssLow /\ gdt[7] = BaseHigh(TssAddr) /\ gdtr = 63 /\ DOMAIN gdt = 0 .. 7
    BY <2>1 DEF GdtSet, TablesLoaded
  <2>3. TaskSegment(GDT_FIRST_TSS)
    BY <2>1, <2>2, TssIsTss DEF TaskSegment, NotLoaded
  <2>4. /\ tr' = [base |-> Base(gdt[6], gdt[7]), limit |-> gdt[6][1] + 256 * gdt[6][2]]
        /\ gdt' = [gdt EXCEPT ![6][6] = @ + 2]
        /\ Continue
    BY <1>8, <2>1, <2>3 DEF ActivateTask
  <2>5. ActivationSound' /\ Ended' /\ boot' = 15
    BY <2>1, <2>4, ContinueSound
  <2>6. tr'.base = TssAddr /\ tr'.limit = 103
    BY <2>2, <2>4, TssIsTss
  <2>7. GdtSet'
    BY <2>1, <2>2, <2>4, <2>5 DEF GdtSet
  <2> QED
    BY <1>8, <2>1, <2>5, <2>6, <2>7
    DEF ActivateTask, TablesLoaded, DevicesUp, devices, NotLoaded
<1> QED
  BY <1>1, <1>2, <1>3, <1>4, <1>5, <1>6, <1>7, <1>8 DEF GdtInit

LEMMA IdtInitInv == ASSUME IInv, IdtInit PROVE IInv'
<1> USE DEF IInv
<1>1. CASE InstallExceptionHandlers
  <2>1. boot = 15 /\ cpu = "boot" /\ Continue
    BY <1>1, Steps DEF InstallExceptionHandlers, At, StepAt
  <2>2. ActivationSound' /\ Ended' /\ boot' = 16
    BY <2>1, ContinueSound
  <2>3. idt' = Handlers
    BY <1>1 DEF InstallExceptionHandlers, Handlers
  <2> QED
    BY <1>1, <2>1, <2>2, <2>3
    DEF InstallExceptionHandlers, GdtSet, TablesLoaded, DevicesUp, devices, NotLoaded
<1>2. CASE LoadIdt
  <2>1. boot = 16 /\ cpu = "boot" /\ Continue
    BY <1>2, Steps DEF LoadIdt, At, StepAt
  <2>2. ActivationSound' /\ Ended' /\ boot' = 17
    BY <2>1, ContinueSound
  <2> QED
    BY <1>2, <2>1, <2>2
    DEF LoadIdt, GdtSet, TablesLoaded, DevicesUp, devices, NotLoaded, kNumIdt
<1> QED  BY <1>1, <1>2 DEF IdtInit

\* Steps outside of the tables
LEMMA DeviceStepInv ==
  ASSUME IInv, FindFramebuffer \/ SerialInit \/ Log \/ ClearConsole \/ Construct \/ Publish
  PROVE  IInv'
<1> USE DEF IInv
<1>1. CASE FindFramebuffer
  <2>1. boot = 1 /\ cpu = "boot"
    BY <1>1, Steps DEF FindFramebuffer, At, StepAt
  <2>2. CASE Continue
    <3>1. ActivationSound' /\ Ended' /\ boot' = 2
      BY <2>1, <2>2, ContinueSound
    <3> QED
      BY <1>1, <2>1, <3>1
      DEF FindFramebuffer, GdtSet, TablesLoaded, DevicesUp, tables, devices, NotLoaded
  <2>3. CASE End("hung")
    BY <1>1, <2>1, <2>3
    DEF FindFramebuffer, End, GdtSet, TablesLoaded, DevicesUp, ActivationSound, Ended,
        Handling, tables, devices, entry, NotLoaded
  <2> QED  BY <1>1, <2>2, <2>3 DEF FindFramebuffer
<1>2. CASE SerialInit
  <2>1. boot = 2 /\ cpu = "boot" /\ Continue
    BY <1>2, Steps DEF SerialInit, At, StepAt
  <2>2. ActivationSound' /\ Ended' /\ boot' = 3
    BY <2>1, ContinueSound
  <2> QED
    BY <1>2, <2>1, <2>2 DEF SerialInit, GdtSet, TablesLoaded, DevicesUp, tables, NotLoaded
<1>3. CASE Log
  <2>1. (boot = 17 \/ boot = 22) /\ cpu = "boot" /\ Continue
    BY <1>3, Steps DEF Log, At, StepAt
  <2>2. ActivationSound' /\ Ended' /\ boot' = boot + 1
    BY <2>1, ContinueSound
  <2> QED
    BY <1>3, <2>1, <2>2 DEF Log, GdtSet, TablesLoaded, DevicesUp, tables, devices, NotLoaded
<1>4. CASE ClearConsole
  <2>1. boot = 18 /\ cpu = "boot" /\ Continue
    BY <1>4, Steps DEF ClearConsole, At, StepAt
  <2>2. ActivationSound' /\ Ended' /\ boot' = 19
    BY <2>1, ContinueSound
  <2> QED
    BY <1>4, <2>1, <2>2 DEF ClearConsole, GdtSet, TablesLoaded, DevicesUp, tables, NotLoaded
<1>5. CASE Construct
  <2>1. boot = 19 /\ cpu = "boot" /\ Continue
    BY <1>5, Steps DEF Construct, At, StepAt
  <2>2. ActivationSound' /\ Ended' /\ boot' = 20
    BY <2>1, ContinueSound
  <2> QED
    BY <1>5, <2>1, <2>2 DEF Construct, GdtSet, TablesLoaded, DevicesUp, tables, NotLoaded
<1>6. CASE Publish
  <2>1. boot = 20 /\ cpu = "boot" /\ Continue
    BY <1>6, Steps DEF Publish, At, StepAt
  <2>2. ActivationSound' /\ Ended' /\ boot' = 21
    BY <2>1, ContinueSound
  <2> QED
    BY <1>6, <2>1, <2>2 DEF Publish, GdtSet, TablesLoaded, DevicesUp, tables, NotLoaded
<1> QED  BY <1>1, <1>2, <1>3, <1>4, <1>5, <1>6

\* Tables and devices depend on the boot step alone
LEMMA KeptInv ==
  ASSUME IInv, UNCHANGED <<boot, tables, devices>>, ActivationSound', Ended'
  PROVE  IInv'
BY DEF IInv, GdtSet, TablesLoaded, DevicesUp, tables, devices

LEMMA MessageInv == ASSUME IInv, PrintBootMessage PROVE IInv'
<1>1. boot = 21 /\ cpu = "boot"
  BY Steps DEF IInv, PrintBootMessage, At, StepAt
<1>2. Continue
  BY <1>1 DEF IInv, DevicesUp, PrintBootMessage
<1>3. ActivationSound' /\ Ended' /\ boot' = 22
  BY <1>1, <1>2, ContinueSound
<1> QED
  BY <1>1, <1>3
  DEF IInv, PrintBootMessage, GdtSet, TablesLoaded, DevicesUp, tables, devices, NotLoaded

LEMMA DivideInv == ASSUME IInv, Divide PROVE IInv'
<1>1. boot = 23 /\ cpu = "boot"
  BY Steps DEF IInv, Divide, At, StepAt
<1>2. CASE Continue
  <2>1. ActivationSound' /\ Ended' /\ boot' = 24
    BY <1>1, <1>2, ContinueSound
  <2> QED
    BY <1>1, <2>1
    DEF IInv, Divide, GdtSet, TablesLoaded, DevicesUp, tables, devices, NotLoaded
<1>3. CASE Fault(X86_EXC_DIVIDE)
  <2>1. /\ Raise(X86_EXC_DIVIDE) /\ UNCHANGED <<boot, tables, devices, idtr>>
        /\ failures' \in Nat
    BY <1>3 DEF Divide, Fault, IInv, Ended, tables
  <2>2. X86_EXC_DIVIDE \in Vectors
    BY DEF X86_EXC_DIVIDE, Vectors
  <2> QED  BY <1>1, <2>1, <2>2, RaiseSound, KeptInv
<1> QED  BY <1>2, <1>3 DEF Divide

LEMMA FailInv == ASSUME IInv, NEW v \in Failing, Fail(v) PROVE IInv'
<1>1. v \in Vectors
  BY FailingAssumption
<1>2. /\ Raise(v) /\ UNCHANGED <<boot, tables, devices, idtr>>
      /\ failures' \in Nat /\ failures' > 0
  BY DEF Fail, IInv, Ended, tables
<1> QED  BY <1>1, <1>2, RaiseSound, KeptInv

LEMMA StubInv == ASSUME IInv, Stub PROVE IInv'
<1>1. /\ UNCHANGED <<boot, tables, devices, act, nmiBlocked, failures>>
      /\ cpu \in {"entered", "numbered", "saved"}
  BY DEF Stub, PushNumber, PushRegisters, CallHandler, Push, entry
<1>2. /\ act.stack \in 0 .. 6 /\ DOMAIN frames = 0 .. 6 /\ act.stub = act.raised
      /\ frames[act.stack] = Built
  BY <1>1 DEF IInv, ActivationSound, Handling
<1>3. ASSUME NEW words, NEW from, NEW to, Push(words, from, to)
      PROVE  /\ frames'[act.stack] = frames[act.stack] \o words
             /\ DOMAIN frames' = 0 .. 6 /\ cpu = from /\ cpu' = to
  BY <1>2, <1>3 DEF Push
<1>4. frames'[act.stack] = Built' /\ DOMAIN frames' = 0 .. 6
        /\ cpu' \in {"numbered", "saved", "handler"}
  <2>1. CASE PushNumber
    <3>1. /\ cpu = "entered" /\ cpu' = "numbered" /\ DOMAIN frames' = 0 .. 6
          /\ frames'[act.stack] = frames[act.stack] \o StubWords(act.raised)
      BY <1>2, <1>3, <2>1 DEF PushNumber
    <3>2. frames[act.stack] = HardwareWords(act.raised, act.ctx)
      BY <1>2, <3>1 DEF Built
    <3>3. Built' = Numbered(act.raised, act.ctx)
      BY <1>1, <3>1 DEF Built
    <3> QED  BY <3>1, <3>2, <3>3 DEF Numbered
  <2>2. CASE PushRegisters
    <3>1. /\ cpu = "numbered" /\ cpu' = "saved" /\ DOMAIN frames' = 0 .. 6
          /\ frames'[act.stack] = frames[act.stack] \o RegisterWords(act.ctx)
      BY <1>2, <1>3, <2>2 DEF PushRegisters
    <3>2. frames[act.stack] = Numbered(act.raised, act.ctx)
      BY <1>2, <3>1 DEF Built
    <3>3. Built' = Saved(act.raised, act.ctx)
      BY <1>1, <3>1 DEF Built
    <3> QED  BY <3>1, <3>2, <3>3 DEF Saved
  <2>3. CASE CallHandler
    BY <1>1, <1>2, <2>3 DEF CallHandler, Built, entry
  <2> QED  BY <2>1, <2>2, <2>3 DEF Stub
<1>5. ActivationSound' /\ Ended'
  BY <1>1, <1>4 DEF IInv, ActivationSound, Ended, Handling
<1> QED  BY <1>1, <1>5, KeptInv

LEMMA NextInv == IInv /\ [Next]_vars => IInv'
<1> SUFFICES ASSUME IInv, [Next]_vars PROVE IInv'
  OBVIOUS
<1>1. CASE GdtInit
  BY <1>1, GdtInitInv
<1>2. CASE IdtInit
  BY <1>2, IdtInitInv
<1>3. CASE FindFramebuffer \/ SerialInit \/ Log \/ ClearConsole \/ Construct \/ Publish
  BY <1>3, DeviceStepInv
<1>4. CASE PrintBootMessage
  BY <1>4, MessageInv
<1>5. CASE Divide
  BY <1>5, DivideInv
<1>6. CASE Stub
  BY <1>6, StubInv
<1>7. ASSUME NEW v \in Failing, Fail(v) PROVE IInv'
  BY <1>7, FailInv
<1>8. CASE UNCHANGED vars
  BY <1>8, StutterInv
<1> QED
  BY <1>1, <1>2, <1>3, <1>4, <1>5, <1>6, <1>7, <1>8 DEF Next, _start, PlatformInit

THEOREM Invariance == Safety => []IInv
<1> QED  BY InitInv, NextInv, PTL DEF Safety

-----------------------------------------------------------------------------
(* The frame *)

\* The words of a whole frame, one by one
Words(error, v, ctx) ==
  <<<<"ss", ctx>>, <<"rsp", ctx>>, <<"rflags", ctx>>, <<"cs", ctx>>, <<"rip", ctx>>,
    error, imm(v),
    <<"rax", ctx>>, <<"rcx", ctx>>, <<"rdx", ctx>>, <<"rbx", ctx>>, <<"rbp", ctx>>,
    <<"rsi", ctx>>, <<"rdi", ctx>>, <<"r8", ctx>>, <<"r9", ctx>>, <<"r10", ctx>>,
    <<"r11", ctx>>, <<"r12", ctx>>, <<"r13", ctx>>, <<"r14", ctx>>, <<"r15", ctx>>>>

Error(v, ctx) == IF v \in HasErrorCode THEN <<"errCode", ctx>> ELSE imm(0)

\* A stub pushes a zero exactly where the processor pushes nothing
LEMMA ZeroOrCode == \A v \in Vectors : v \in PushesZero <=> v \notin HasErrorCode
BY DEF Vectors, PushesZero, HasErrorCode

Names ==
  {"ss", "rsp", "rflags", "cs", "rip", "errCode", "imm", "rax", "rcx", "rdx", "rbx", "rbp",
   "rsi", "rdi", "r8", "r9", "r10", "r11", "r12", "r13", "r14", "r15"}
Word  == Names \X Nat

\* A concatenation is known by its elements
LEMMA Concat ==
  ASSUME NEW s \in Seq(Word), NEW t \in Seq(Word), NEW r \in Seq(Word),
         Len(r) = Len(s) + Len(t),
         \A i \in 1 .. Len(s) : r[i] = s[i],
         \A i \in 1 .. Len(t) : r[Len(s) + i] = t[i]
  PROVE  s \o t = r
<1>1. s \o t \in Seq(Word) /\ Len(s \o t) = Len(s) + Len(t)
  OBVIOUS
<1>2. ASSUME NEW i \in 1 .. Len(s) + Len(t) PROVE (s \o t)[i] = r[i]
  <2>1. CASE i \in 1 .. Len(s)
    BY <2>1
  <2>2. CASE i \notin 1 .. Len(s)
    <3>1. i - Len(s) \in 1 .. Len(t) /\ i = Len(s) + (i - Len(s))
      BY <2>2
    <3> QED  BY <2>2, <3>1
  <2> QED  BY <2>1, <2>2
<1> QED  BY <1>1, <1>2, SeqEqual

\* The words of a context, by the register
LEMMA WordType == ASSUME NEW ctx \in Nat PROVE [f \in Names |-> <<f, ctx>>] \in [Names -> Word]
BY DEF Word

LEMMA ImmType == ASSUME NEW n \in Nat PROVE imm(n) \in Word
BY DEF Word, imm, Names

LEMMA ErrorType ==
  ASSUME NEW v \in Vectors, NEW ctx \in Nat PROVE Error(v, ctx) \in Word /\ imm(v) \in Word
<1>1. v \in Nat /\ 0 \in Nat /\ <<"errCode", ctx>> \in Word
  BY DEF Vectors, Word, Names
<1> QED  BY <1>1, ImmType DEF Error

\* The processor's words with an error code, and the stub's without a zero
LEMMA JoinCode ==
  ASSUME NEW a \in Word, NEW b \in Word, NEW c \in Word, NEW d \in Word, NEW e \in Word,
         NEW error \in Word, NEW num \in Word
  PROVE  (<<a, b, c, d, e>> \o <<error>>) \o (<<>> \o <<num>>)
         = <<a, b, c, d, e, error, num>>
<1> DEFINE s == <<a, b, c, d, e, error>>
           t == <<num>>
           r == <<a, b, c, d, e, error, num>>
<1>1. s \in Seq(Word) /\ t \in Seq(Word) /\ r \in Seq(Word) /\ Len(r) = Len(s) + Len(t)
  OBVIOUS
<1>2. \A i \in 1 .. Len(s) : r[i] = s[i]
  OBVIOUS
<1>3. \A i \in 1 .. Len(t) : r[Len(s) + i] = t[i]
  OBVIOUS
<1>4. <<a, b, c, d, e>> \o <<error>> = s
  <2> DEFINE u == <<a, b, c, d, e>>
             w == <<error>>
  <2>1. u \in Seq(Word) /\ w \in Seq(Word) /\ Len(s) = Len(u) + Len(w)
    OBVIOUS
  <2>2. (\A i \in 1 .. Len(u) : s[i] = u[i]) /\ (\A i \in 1 .. Len(w) : s[Len(u) + i] = w[i])
    OBVIOUS
  <2> HIDE DEF s, t, r, u, w
  <2>3. u \o w = s
    BY <1>1, <2>1, <2>2, Concat
  <2> QED  BY <2>3 DEF u, w
<1>5. <<>> \o <<num>> = t
  BY <1>1, ConcatEmptySeq
<1> HIDE DEF s, t, r
<1>6. s \o t = r
  BY <1>1, <1>2, <1>3, Concat
<1> QED  BY <1>4, <1>5, <1>6 DEF s, t, r

\* The processor's words without an error code, and the stub's with a zero
LEMMA JoinZero ==
  ASSUME NEW a \in Word, NEW b \in Word, NEW c \in Word, NEW d \in Word, NEW e \in Word,
         NEW error \in Word, NEW num \in Word
  PROVE  (<<a, b, c, d, e>> \o <<>>) \o (<<error>> \o <<num>>)
         = <<a, b, c, d, e, error, num>>
<1> DEFINE s == <<a, b, c, d, e>>
           t == <<error, num>>
           r == <<a, b, c, d, e, error, num>>
<1>1. s \in Seq(Word) /\ t \in Seq(Word) /\ r \in Seq(Word) /\ Len(r) = Len(s) + Len(t)
  OBVIOUS
<1>2. \A i \in 1 .. Len(s) : r[i] = s[i]
  OBVIOUS
<1>3. \A i \in 1 .. Len(t) : r[Len(s) + i] = t[i]
  OBVIOUS
<1>4. <<a, b, c, d, e>> \o <<>> = s
  BY <1>1, ConcatEmptySeq
<1>5. <<error>> \o <<num>> = t
  <2> DEFINE u == <<error>>
             w == <<num>>
  <2>1. u \in Seq(Word) /\ w \in Seq(Word) /\ Len(t) = Len(u) + Len(w)
    OBVIOUS
  <2>2. \A i \in 1 .. Len(u) : t[i] = u[i]
    OBVIOUS
  <2>3. \A i \in 1 .. Len(w) : t[Len(u) + i] = w[i]
    OBVIOUS
  <2> HIDE DEF s, t, r, u, w
  <2>4. u \o w = t
    BY <1>1, <2>1, <2>2, <2>3, Concat
  <2> QED  BY <2>4 DEF u, w
<1> HIDE DEF s, t, r
<1>6. s \o t = r
  BY <1>1, <1>2, <1>3, Concat
<1> QED  BY <1>4, <1>5, <1>6 DEF s, t, r

\* Seven words below the fifteen of the registers
LEMMA JoinAll ==
  ASSUME NEW W \in [Names -> Word], NEW error \in Word, NEW num \in Word
  PROVE  <<W["ss"], W["rsp"], W["rflags"], W["cs"], W["rip"], error, num>>
           \o <<W["rax"], W["rcx"], W["rdx"], W["rbx"], W["rbp"], W["rsi"], W["rdi"], W["r8"],
                W["r9"], W["r10"], W["r11"], W["r12"], W["r13"], W["r14"], W["r15"]>>
         = <<W["ss"], W["rsp"], W["rflags"], W["cs"], W["rip"], error, num,
             W["rax"], W["rcx"], W["rdx"], W["rbx"], W["rbp"], W["rsi"], W["rdi"], W["r8"],
             W["r9"], W["r10"], W["r11"], W["r12"], W["r13"], W["r14"], W["r15"]>>
<1> DEFINE s == <<W["ss"], W["rsp"], W["rflags"], W["cs"], W["rip"], error, num>>
           t == <<W["rax"], W["rcx"], W["rdx"], W["rbx"], W["rbp"], W["rsi"], W["rdi"],
                  W["r8"], W["r9"], W["r10"], W["r11"], W["r12"], W["r13"], W["r14"], W["r15"]>>
           r == <<W["ss"], W["rsp"], W["rflags"], W["cs"], W["rip"], error, num,
                  W["rax"], W["rcx"], W["rdx"], W["rbx"], W["rbp"], W["rsi"], W["rdi"],
                  W["r8"], W["r9"], W["r10"], W["r11"], W["r12"], W["r13"], W["r14"], W["r15"]>>
<1>0. W["ss"] \in Word /\ W["rsp"] \in Word /\ W["rflags"] \in Word /\ W["cs"] \in Word
  /\ W["rip"] \in Word /\ W["rax"] \in Word /\ W["rcx"] \in Word /\ W["rdx"] \in Word
  /\ W["rbx"] \in Word /\ W["rbp"] \in Word /\ W["rsi"] \in Word /\ W["rdi"] \in Word
  /\ W["r8"] \in Word /\ W["r9"] \in Word /\ W["r10"] \in Word /\ W["r11"] \in Word
  /\ W["r12"] \in Word /\ W["r13"] \in Word /\ W["r14"] \in Word /\ W["r15"] \in Word
  BY DEF Names
<1>1. s \in Seq(Word) /\ t \in Seq(Word) /\ r \in Seq(Word) /\ Len(r) = Len(s) + Len(t)
  BY <1>0
<1>2. \A i \in 1 .. Len(s) : r[i] = s[i]
  OBVIOUS
<1>3. \A i \in 1 .. Len(t) : r[Len(s) + i] = t[i]
  OBVIOUS
<1> HIDE DEF s, t, r
<1>4. s \o t = r
  BY <1>1, <1>2, <1>3, Concat
<1> QED  BY <1>4 DEF s, t, r


LEMMA NumberedWords ==
  ASSUME NEW v \in Vectors, NEW ctx \in Nat
  PROVE  Numbered(v, ctx) = <<<<"ss", ctx>>, <<"rsp", ctx>>, <<"rflags", ctx>>, <<"cs", ctx>>,
                              <<"rip", ctx>>, Error(v, ctx), imm(v)>>
<1> DEFINE a == <<"ss", ctx>>
           b == <<"rsp", ctx>>
           c == <<"rflags", ctx>>
           d == <<"cs", ctx>>
           e == <<"rip", ctx>>
           error == Error(v, ctx)
           num   == imm(v)
<1>1. a \in Word /\ b \in Word /\ c \in Word /\ d \in Word /\ e \in Word
  BY DEF Word, Names
<1>2. error \in Word /\ num \in Word
  BY ErrorType
<1>3. v \in HasErrorCode =>
        Numbered(v, ctx) = (<<a, b, c, d, e>> \o <<error>>) \o (<<>> \o <<num>>)
  BY ZeroOrCode DEF Numbered, HardwareWords, StubWords, Error
<1>4. v \notin HasErrorCode =>
        Numbered(v, ctx) = (<<a, b, c, d, e>> \o <<>>) \o (<<error>> \o <<num>>)
  BY ZeroOrCode DEF Numbered, HardwareWords, StubWords, Error
<1> HIDE DEF a, b, c, d, e, error, num
<1>5. (<<a, b, c, d, e>> \o <<error>>) \o (<<>> \o <<num>>) = <<a, b, c, d, e, error, num>>
  BY <1>1, <1>2, JoinCode
<1>6. (<<a, b, c, d, e>> \o <<>>) \o (<<error>> \o <<num>>) = <<a, b, c, d, e, error, num>>
  BY <1>1, <1>2, JoinZero
<1>7. Numbered(v, ctx) = <<a, b, c, d, e, error, num>>
  BY <1>3, <1>4, <1>5, <1>6
<1> QED  BY <1>7 DEF a, b, c, d, e, error, num

LEMMA SavedWords ==
  ASSUME NEW v \in Vectors, NEW ctx \in Nat
  PROVE  Saved(v, ctx) = Words(Error(v, ctx), v, ctx)
<1> DEFINE W == [f \in Names |-> <<f, ctx>>]
<1>1. W \in [Names -> Word]
  BY WordType
<1>2. Error(v, ctx) \in Word /\ imm(v) \in Word
  BY ErrorType
<1>3. <<W["ss"], W["rsp"], W["rflags"], W["cs"], W["rip"], Error(v, ctx), imm(v)>>
           \o <<W["rax"], W["rcx"], W["rdx"], W["rbx"], W["rbp"], W["rsi"], W["rdi"], W["r8"],
                W["r9"], W["r10"], W["r11"], W["r12"], W["r13"], W["r14"], W["r15"]>>
         = <<W["ss"], W["rsp"], W["rflags"], W["cs"], W["rip"], Error(v, ctx), imm(v),
             W["rax"], W["rcx"], W["rdx"], W["rbx"], W["rbp"], W["rsi"], W["rdi"], W["r8"],
             W["r9"], W["r10"], W["r11"], W["r12"], W["r13"], W["r14"], W["r15"]>>
  <2> HIDE DEF W
  <2> QED  BY <1>1, <1>2, JoinAll
<1>4. \A f \in Names : W[f] = <<f, ctx>>
  OBVIOUS
<1> HIDE DEF W
<1> QED  BY <1>3, <1>4, NumberedWords DEF Saved, RegisterWords, Words, Names

LEMMA WordsAreContext ==
  ASSUME NEW v \in Vectors, NEW ctx
  PROVE  IsContext(Words(Error(v, ctx), v, ctx), v, ctx)
<1> DEFINE w == Words(Error(v, ctx), v, ctx)
<1>1. Len(w) = 22 /\ DOMAIN w = 1 .. 22 /\ Len(Fields) = 22 /\ DOMAIN Fields = 1 .. 22
  BY DEF Words, Fields
<1>2. ASSUME NEW k \in 1 .. 22 PROVE Field(w, k) = w[23 - k]
  BY <1>1, <1>2 DEF Field
<1>3. ASSUME NEW k \in 1 .. 22 PROVE w[23 - k] = Expected(Fields[k], v, ctx)
  <2>1. CASE k \in 1 .. 5
    BY <2>1 DEF Words, Fields, Expected
  <2>2. CASE k \in 6 .. 10
    BY <2>2 DEF Words, Fields, Expected
  <2>3. CASE k \in 11 .. 15
    BY <2>3 DEF Words, Fields, Expected
  <2>4. CASE k \in 16 .. 17
    BY <2>4 DEF Words, Fields, Expected, Error
  <2>5. CASE k \in 18 .. 22
    BY <2>5 DEF Words, Fields, Expected
  <2> QED  BY <2>1, <2>2, <2>3, <2>4, <2>5
<1> QED  BY <1>1, <1>2, <1>3 DEF IsContext

-----------------------------------------------------------------------------
(* Results *)

\* Every exception after lidt gets to its own handler; a reset means a failure
\* before it (GDT::Init, IDT::Init and the gates of InstallExceptionHandlers).
THEOREM DeliveredHolds == Safety => []Delivered
<1>1. IInv => Delivered
  BY DEF IInv, TablesLoaded, Ended, ActivationSound, Handling, Delivered
<1> QED  BY <1>1, Invariance, PTL

\* For every vector the frame of the stub and the struct of the handler agree
\* (exceptions.S, amd64_exception_info).
THEOREM FrameHolds == Safety => []FrameIsContext
<1>1. ASSUME IInv, cpu = "handler"
      PROVE  IsContext(frames[act.stack], act.raised, act.ctx)
  <2>1. /\ act.raised \in Vectors /\ act.ctx \in Nat
        /\ frames[act.stack] = Saved(act.raised, act.ctx)
    BY <1>1 DEF IInv, ActivationSound, Handling, Built
  <2> QED  BY <2>1, SavedWords, WordsAreContext
<1>2. IInv => FrameIsContext
  BY <1>1 DEF FrameIsContext
<1> QED  BY <1>2, Invariance, PTL

\* log and panic find the serial line set up, and _outchar_console a console
\* that is constructed, if it finds one.
THEOREM OutputReadyHolds == Safety => []OutputReady
<1>1. ASSUME IInv, cpu = "boot", Program[boot] \in Logging PROVE boot >= 3
  BY <1>1, Steps DEF IInv, StepAt, Logging
<1>2. ASSUME IInv PROVE OutputReady
  BY <1>1, <1>2 DEF IInv, DevicesUp, ActivationSound, Handling, Ended, OutputReady
<1>3. IInv => OutputReady
  BY <1>2
<1> QED  BY <1>3, Invariance, PTL

-----------------------------------------------------------------------------
(* Types *)

TablesType ==
  /\ gdt \in [0 .. 7 -> Address] /\ gdtr \in {NotLoaded, 8 * 8 - 1}
  /\ tss \in [ist : [0 .. 6 -> Address], ioMap : {0, TssBytes - 1}]
  /\ tr \in [base : Address, limit : {NotLoaded, TssBytes - 1}]
  /\ idt \in [Vectors -> [1 .. 16 -> Byte]] /\ idtr \in {NotLoaded, 16 * kNumIdt - 1}

DevicesType ==
  /\ framebuffer \in BOOLEAN /\ uart \in BOOLEAN /\ gConsole \in BOOLEAN
  /\ object \in {"raw", "cleared", "constructed"}

EntryType ==
  /\ act \in [ctx : Nat, raised : Vectors, stub : Vectors, stack : 0 .. 6]
  /\ DOMAIN frames = 0 .. 6 /\ nmiBlocked \in BOOLEAN

LEMMA ZeroType == Zero8 \in Address /\ Zero8 \o Zero8 \in [1 .. 16 -> Byte]
<1>1. Zero8 \in Address
  BY DEF Zero8, Address, Byte
<1>2. Zero8 \in Seq(Byte) /\ Len(Zero8) = 8
  BY DEF Zero8, Byte
<1>3. ASSUME NEW s \in Seq(Byte), Len(s) = 8 PROVE s \o s \in [1 .. 16 -> Byte]
  <2> DEFINE t == s \o s
  <2>1. t \in Seq(Byte) /\ Len(t) = Len(s) + Len(s)
    BY ConcatProperties, Zenon
  <2>2. 8 + 8 = 16
    OBVIOUS
  <2> HIDE DEF t
  <2>3. t \in [1 .. Len(t) -> Byte] /\ Len(t) = 16
    BY <1>3, <2>1, <2>2, LenProperties
  <2> QED  BY <2>3 DEF t
<1> QED  BY <1>1, <1>2, <1>3, Zenon

LEMMA SegmentType ==
  ASSUME NEW base \in [1 .. 4 -> Byte] \cup Address, NEW limit \in [1 .. 4 -> Byte],
         NEW flags \in Byte, NEW gran \in Byte
  PROVE  Segment(base, limit, flags, gran) \in Address
<1>1. /\ base[1] \in Byte /\ base[2] \in Byte /\ base[3] \in Byte /\ base[4] \in Byte
      /\ limit[1] \in Byte /\ limit[2] \in Byte /\ limit[3] \in Byte
  BY DEF Address
<1>2. Granularity(limit, gran) \in Byte
  BY <1>1 DEF Granularity, Byte
<1> QED  BY <1>1, <1>2 DEF Segment, Address

LEMMA BaseHighType == ASSUME NEW a \in Address PROVE BaseHigh(a) \in Address
<1>1. a[5] \in Byte /\ a[6] \in Byte /\ a[7] \in Byte /\ a[8] \in Byte /\ 0 \in Byte
  BY DEF Address, Byte
<1> QED  BY <1>1 DEF BaseHigh, Address

LEMMA GateType ==
  ASSUME NEW a \in Address, NEW sel \in Byte, NEW flags \in Byte, NEW stack \in Byte
  PROVE  Gate(a, sel, flags, stack) \in [1 .. 16 -> Byte]
<1>1. /\ a[1] \in Byte /\ a[2] \in Byte /\ a[3] \in Byte /\ a[4] \in Byte
      /\ a[5] \in Byte /\ a[6] \in Byte /\ a[7] \in Byte /\ a[8] \in Byte /\ 0 \in Byte
  BY DEF Address, Byte
<1> QED  BY <1>1 DEF Gate

LEMMA HandlersType == Handlers \in [Vectors -> [1 .. 16 -> Byte]]
<1>1. ASSUME NEW v \in Vectors
      PROVE  Gate(StubAddr[v], GDT_KERN_CODE_SEG, FlagsOf(v), StackOf(v)) \in [1 .. 16 -> Byte]
  <2>1. StubAddr[v] \in Address
    BY StubAssumption
  <2>2. GDT_KERN_CODE_SEG \in Byte /\ FlagsOf(v) \in Byte
    BY DEF GDT_KERN_CODE_SEG, FlagsOf, IDT_FLAGS_ISR, IDT_FLAGS_TRAP, Byte
  <2>3. StackOf(v) \in Byte
    BY StackOfType DEF Byte
  <2> QED  BY <2>1, <2>2, <2>3, GateType
<1> QED  BY <1>1 DEF Handlers

LEMMA TypesInit == Init => TablesType /\ DevicesType /\ EntryType
<1> SUFFICES ASSUME Init PROVE TablesType /\ DevicesType /\ EntryType
  OBVIOUS
<1>1. TablesType
  BY ZeroType DEF Init, TablesType, NoTask
<1>2. EntryType
  <2>1. 0 \in Vectors /\ 0 \in 0 .. 6
    BY DEF Vectors
  <2>2. act = [ctx |-> 0, raised |-> 0, stub |-> 0, stack |-> 0]
    BY DEF Init
  <2>3. act \in [ctx : Nat, raised : Vectors, stub : Vectors, stack : 0 .. 6]
    BY <2>1, <2>2
  <2> QED  BY <2>3 DEF Init, EntryType
<1> QED  BY <1>1, <1>2 DEF Init, DevicesType

\* An exception that is delivered is one of the handled ones, on one of the stacks
LEMMA RaiseType ==
  ASSUME IInv, EntryType, NEW v \in Vectors, Raise(v) PROVE EntryType'
<1>1. CASE boot < 17
  <2>1. idtr = NotLoaded
    BY <1>1 DEF IInv, TablesLoaded
  <2>2. UNCHANGED entry
    BY <2>1 DEF Raise, Deliverable
  <2> QED  BY <2>2 DEF entry, EntryType
<1>2. CASE boot >= 17
  <2>1. /\ Deliverable(v) /\ Target(idt[v]) = StubAddr[v]
        /\ tss.ist[Stack(v) - 1] = StackTop[StackOf(v) - 1]
        /\ StackOf(v) - 1 \in 0 .. 6
    BY <1>2, DeliverableWhenLoaded
  <2>2. Enter(v, v)
    BY <2>1 DEF Raise
  <2>3. (CHOOSE w \in Vectors : StubAddr[w] = Target(idt[v])) = v
    BY <2>1, StubAssumption
  <2> DEFINE i == CHOOSE i \in 0 .. 6 : StackTop[i] = tss.ist[Stack(v) - 1]
  <2>4. i \in 0 .. 6
    BY <2>1
  <2>5. /\ act' = [ctx |-> act.ctx + 1, raised |-> v, stack |-> i, stub |-> v]
        /\ frames' = [frames EXCEPT ![i] = HardwareWords(v, act.ctx + 1)]
        /\ nmiBlocked' \in BOOLEAN
    BY <2>2, <2>3 DEF Enter
  <2> HIDE DEF i
  <2>6. act.ctx + 1 \in Nat
    BY DEF EntryType
  <2> QED  BY <2>4, <2>5, <2>6 DEF EntryType
<1> QED  BY <1>1, <1>2 DEF IInv

LEMMA EntryNext == IInv /\ EntryType /\ [Next]_vars => EntryType'
<1> SUFFICES ASSUME IInv, EntryType, [Next]_vars PROVE EntryType'
  OBVIOUS
<1>1. ASSUME UNCHANGED entry PROVE EntryType'
  BY <1>1 DEF entry, EntryType
<1>2. ASSUME NEW v \in {X86_EXC_GPF, X86_EXC_PAGING, X86_EXC_DIVIDE}, Fault(v) PROVE EntryType'
  <2>1. v \in Vectors
    BY DEF X86_EXC_GPF, X86_EXC_PAGING, X86_EXC_DIVIDE, Vectors
  <2> QED  BY <1>2, <2>1, RaiseType DEF Fault
<1>3. CASE Continue
  BY <1>1, <1>3 DEF Continue
<1>4. ASSUME NEW how, End(how) PROVE EntryType'
  BY <1>1, <1>4 DEF End
<1>5. CASE FindFramebuffer \/ SerialInit \/ ClearGdt \/ InitTss \/ SetStacks \/ InstallTss \/ Load
  BY <1>3, <1>4, <1>5
  DEF FindFramebuffer, SerialInit, ClearGdt, InitTss, SetStacks, InstallTss, Load
<1>6. CASE SetSegments
  BY <1>3, <1>4, <1>6 DEF SetSegments, Set32
<1>7. CASE Flush \/ ActivateTask \/ PrintBootMessage \/ Divide
  BY <1>2, <1>3, <1>7 DEF Flush, ActivateTask, PrintBootMessage, Divide
<1>8. CASE IdtInit \/ Log \/ ClearConsole \/ Construct \/ Publish
  BY <1>3, <1>8
  DEF IdtInit, InstallExceptionHandlers, LoadIdt, Log, ClearConsole, Construct, Publish
<1>9. CASE Stub
  <2>1. CASE CallHandler
    BY <1>1, <2>1 DEF CallHandler
  <2>2. ASSUME NEW words, NEW from, NEW to, Push(words, from, to) PROVE EntryType'
    BY <2>2 DEF Push, EntryType
  <2> QED  BY <1>9, <2>1, <2>2 DEF Stub, PushNumber, PushRegisters
<1>10. ASSUME NEW v \in Failing, Fail(v) PROVE EntryType'
  BY <1>10, FailingAssumption, RaiseType DEF Fail
<1>11. CASE UNCHANGED vars
  BY <1>1, <1>11 DEF vars
<1> QED
  BY <1>5, <1>6, <1>7, <1>8, <1>9, <1>10, <1>11 DEF Next, _start, GdtInit, PlatformInit

LEMMA DevicesNext == DevicesType /\ [Next]_vars => DevicesType'
<1> SUFFICES ASSUME DevicesType, [Next]_vars PROVE DevicesType'
  OBVIOUS
<1>1. ASSUME UNCHANGED devices PROVE DevicesType'
  BY <1>1 DEF devices, DevicesType
<1>2. CASE SerialInit \/ ClearConsole \/ Construct \/ Publish
  BY <1>2 DEF SerialInit, ClearConsole, Construct, Publish, DevicesType
<1>3. CASE FindFramebuffer \/ Log \/ PrintBootMessage \/ Divide
  BY <1>1, <1>3 DEF FindFramebuffer, Log, PrintBootMessage, Divide
<1>4. CASE GdtInit
  BY <1>1, <1>4 DEF GdtInit, ClearGdt, SetSegments, Set32, InitTss, SetStacks, InstallTss, Load,
                    Flush, ActivateTask
<1>5. CASE IdtInit
  BY <1>1, <1>5 DEF IdtInit, InstallExceptionHandlers, LoadIdt
<1>6. CASE Stub
  BY <1>1, <1>6 DEF Stub, PushNumber, PushRegisters, Push, CallHandler
<1>7. ASSUME NEW v \in Failing, Fail(v) PROVE DevicesType'
  BY <1>1, <1>7 DEF Fail
<1>8. CASE UNCHANGED vars
  BY <1>1, <1>8 DEF vars
<1> QED
  BY <1>2, <1>3, <1>4, <1>5, <1>6, <1>7, <1>8 DEF Next, _start, PlatformInit

\* A segment, flat as those of GDT::Init are
LEMMA FlatType ==
  ASSUME NEW flags \in Byte, NEW gran \in Byte
  PROVE  Segment(<<0, 0, 0, 0>>, <<255, 255, 255, 255>>, flags, gran) \in Address
<1>1. <<0, 0, 0, 0>> \in [1 .. 4 -> Byte] /\ <<255, 255, 255, 255>> \in [1 .. 4 -> Byte]
  BY DEF Byte
<1> QED  BY <1>1, SegmentType

LEMMA GdtNext == ASSUME IInv, TablesType, GdtInit PROVE TablesType'
<1>1. ASSUME UNCHANGED tables PROVE TablesType'
  BY <1>1 DEF tables, TablesType
<1>2. CASE ClearGdt
  BY <1>2, ZeroType DEF ClearGdt, TablesType
<1>3. CASE SetSegments
  <2>1. ASSUME NEW num, NEW flags \in Byte, NEW gran \in Byte, Set32(num, flags, gran)
        PROVE  TablesType'
    BY <2>1, FlatType DEF Set32, TablesType
  <2>2. 154 \in Byte /\ 150 \in Byte /\ 250 \in Byte /\ 242 \in Byte
          /\ 32 \in Byte /\ 207 \in Byte /\ 0 \in Byte
    BY DEF Byte
  <2> QED  BY <1>3, <2>1, <2>2 DEF SetSegments
<1>4. CASE InitTss
  BY <1>4, ZeroType DEF InitTss, TablesType
<1>5. CASE SetStacks
  BY <1>5, StackAssumption DEF SetStacks, TablesType
<1>6. CASE InstallTss
  <2>1. <<TssBytes - 1, 0, 0, 0>> \in [1 .. 4 -> Byte] /\ 137 \in Byte /\ 0 \in Byte
    BY DEF TssBytes, Byte
  <2>2. /\ Segment(TssAddr, <<TssBytes - 1, 0, 0, 0>>, 137, 0) \in Address
        /\ BaseHigh(TssAddr) \in Address
    BY <2>1, TssAssumption, SegmentType, BaseHighType
  <2> QED  BY <1>6, <2>2 DEF InstallTss, TablesType
<1>7. CASE Load
  BY <1>7 DEF Load, TablesType, GDT_FIRST_TSS
<1>8. CASE Flush
  BY <1>1, <1>8 DEF Flush
<1>9. CASE ActivateTask
  <2>1. boot = 14 /\ GDT_FIRST_TSS \div 8 = 6
    BY <1>9, Steps DEF ActivateTask, At, StepAt, IInv, GDT_FIRST_TSS
  <2>2. gdt[6] = TssLow /\ gdt[7] = BaseHigh(TssAddr)
    BY <2>1 DEF IInv, GdtSet
  <2>3. CASE TaskSegment(GDT_FIRST_TSS)
    <3>1. /\ tr' = [base |-> Base(gdt[6], gdt[7]), limit |-> gdt[6][1] + 256 * gdt[6][2]]
          /\ gdt' = [gdt EXCEPT ![6][6] = @ + 2] /\ UNCHANGED <<gdtr, tss, idt, idtr>>
      BY <1>9, <2>1, <2>3 DEF ActivateTask
    <3>2. tr' = [base |-> TssAddr, limit |-> 103]
      BY <2>2, <3>1, TssIsTss
    <3>3. gdt[6] \in Address /\ gdt[6][6] = 137
      BY <2>2 DEF TablesType, TssLow, Segment
    <3>4. [gdt[6] EXCEPT ![6] = @ + 2] \in Address
      BY <3>3 DEF Address, Byte
    <3>5. gdt' = [gdt EXCEPT ![6] = [gdt[6] EXCEPT ![6] = @ + 2]]
      BY <3>1
    <3> QED  BY <3>1, <3>2, <3>4, <3>5, TssAssumption DEF TablesType, TssBytes
  <2>4. CASE ~TaskSegment(GDT_FIRST_TSS)
    BY <1>1, <1>9, <2>4 DEF ActivateTask, tables
  <2> QED  BY <2>3, <2>4
<1> QED  BY <1>2, <1>3, <1>4, <1>5, <1>6, <1>7, <1>8, <1>9 DEF GdtInit

LEMMA TablesNext == IInv /\ TablesType /\ [Next]_vars => TablesType'
<1> SUFFICES ASSUME IInv, TablesType, [Next]_vars PROVE TablesType'
  OBVIOUS
<1>1. ASSUME UNCHANGED tables PROVE TablesType'
  BY <1>1 DEF tables, TablesType
<1>2. CASE GdtInit
  BY <1>2, GdtNext
<1>3. CASE InstallExceptionHandlers
  BY <1>3, HandlersType DEF InstallExceptionHandlers, Handlers, TablesType
<1>4. CASE LoadIdt
  BY <1>4 DEF LoadIdt, TablesType
<1>5. CASE FindFramebuffer \/ SerialInit \/ Log \/ PlatformInit \/ Divide
  BY <1>1, <1>5 DEF FindFramebuffer, SerialInit, Log, PlatformInit, ClearConsole, Construct,
                    Publish, PrintBootMessage, Divide
<1>6. CASE Stub
  BY <1>1, <1>6 DEF Stub, PushNumber, PushRegisters, Push, CallHandler
<1>7. ASSUME NEW v \in Failing, Fail(v) PROVE TablesType'
  BY <1>1, <1>7 DEF Fail
<1>8. CASE UNCHANGED vars
  BY <1>1, <1>8 DEF vars
<1> QED  BY <1>2, <1>3, <1>4, <1>5, <1>6, <1>7, <1>8 DEF Next, _start, IdtInit

\* Failures are counted up to the bound
LEMMA FailuresNext ==
  failures \in 0 .. MaxFailures /\ [Next]_vars => failures' \in 0 .. MaxFailures
<1> SUFFICES ASSUME failures \in 0 .. MaxFailures, [Next]_vars
             PROVE  failures' \in 0 .. MaxFailures
  OBVIOUS
<1>1. CASE _start
  <2>1. failures' = failures
    BY <1>1
    DEF _start, GdtInit, IdtInit, PlatformInit, FindFramebuffer, SerialInit, ClearGdt, SetSegments,
        Set32, InitTss, SetStacks, InstallTss, Load, Flush, ActivateTask, InstallExceptionHandlers,
        LoadIdt, Log, ClearConsole, Construct, Publish, PrintBootMessage, Divide, Continue, End, Fault
  <2> QED  BY <2>1
<1>2. CASE Stub
  BY <1>2 DEF Stub, PushNumber, PushRegisters, Push, CallHandler
<1>3. ASSUME NEW v \in Failing, Fail(v) PROVE failures' \in 0 .. MaxFailures
  BY <1>3, FailingAssumption DEF Fail
<1>4. CASE UNCHANGED vars
  BY <1>4 DEF vars
<1> QED  BY <1>1, <1>2, <1>3, <1>4 DEF Next

\* The tables stay what the processor can read, byte by byte, whatever the
\* addresses are: no byte of a descriptor overflows (Set32, Set64, IDT::set).
THEOREM TypesHold == Safety => []TypeOK
<1> DEFINE Types == TablesType /\ DevicesType /\ EntryType /\ failures \in 0 .. MaxFailures
<1>1. Init => Types
  BY TypesInit, FailingAssumption DEF Init
<1>2. IInv /\ Types /\ [Next]_vars => Types'
  BY EntryNext, DevicesNext, TablesNext, FailuresNext
<1>3. IInv /\ Types => TypeOK
  BY Steps DEF IInv, Ended, TypeOK, TablesType, DevicesType, EntryType
<1> HIDE DEF Types
<1> QED  BY <1>1, <1>2, <1>3, Invariance, PTL DEF Safety
=============================================================================
