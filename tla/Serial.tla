------------------------------- MODULE Serial -------------------------------
(***************************************************************************)
(* Serial::Init access by access, then WaitTxRdy and Tx, against a 16550   *)
(* UART (external) that sends in its own time: bytes the boot loader left  *)
(* in it, that of the loopback test, and then the text.                    *)
(*                                                                         *)
(* Registers 0 and 1 are two each, DLAB says which; a byte goes out with   *)
(* the divisor and the format of that moment.                              *)
(*                                                                         *)
(* Names differ from those of Log, which is above it: the proofs about     *)
(* what comes out on the line are about both.                              *)
(***************************************************************************)
EXTENDS Naturals, SequencesExt

CONSTANTS
  FifoSize,   \* the bytes the transmitter's FIFO holds
  Left,       \* what the boot loader may have left in the registers
  Text        \* what is written once Init has returned

\* The byte the loopback test sends, and that of all the loader's text: they are
\* not in the kernel's, so that on the line all three can be told apart
Test == 174   Loader == 200   CR == 13   LF == 10

Byte  == 0 .. 255
Noise == {Loader, Test}

ASSUME FifoAssumption == FifoSize \in Nat \ {0}
ASSUME LeftAssumption == Left \subseteq [ier : Byte, lcr : Byte, mcr : Byte, dll : Byte, dlm : Byte]
ASSUME TextAssumption == Text \in Seq(Byte \ Noise)

VARIABLES
  made,      \* how many of its accesses Init has made
  at,        \* "init", and then where platform_debug_spew is
  text,      \* what it still has to write
  reg,       \* IER, LCR, MCR, and the divisor
  fifo,      \* the transmitter's FIFO
  shift,     \* the byte it is sending, none or one
  received,  \* the receiver's FIFO
  sent       \* what was sent, each byte with its divisor and format

uart == <<made, at, text, reg, fifo, shift, received, sent>>

Out(port, value) == [op |-> "outb", port |-> port, value |-> value]
In(port)         == [op |-> "inb", port |-> port, value |-> 0]

\* Mutant of Program: the format, and with it DLAB, ahead of the divisor's high byte
ProgramEarly ==
  <<Out(1, 0), Out(3, 128), Out(0, 1), Out(3, 3), Out(1, 0), Out(2, 199), Out(4, 11),
    Out(4, 30), Out(0, Test), In(0), Out(4, 15)>>

\* Mutant of Program: the loopback mode is not left
ProgramLoopback ==
  <<Out(1, 0), Out(3, 128), Out(0, 1), Out(1, 0), Out(3, 3), Out(2, 199), Out(4, 11),
    Out(4, 30), Out(0, Test), In(0), Out(4, 31)>>

\* Serial::Init
Program ==
  <<Out(1, 0), Out(3, 128), Out(0, 1), Out(1, 0), Out(3, 3), Out(2, 199), Out(4, 11),
    Out(4, 30), Out(0, Test), In(0), Out(4, 15)>>

\* The loader has used the line in its own way, and may still have text to send
UartInit ==
  /\ made = 0 /\ at = "init" /\ text = Text
  /\ reg \in Left
  /\ fifo \in {[k \in 1 .. n |-> Loader] : n \in 0 .. FifoSize} /\ shift \in {<<>>, <<Loader>>}
  /\ received = <<>> /\ sent = <<>>

-----------------------------------------------------------------------------
(* The UART (external) *)

Dlab     == reg.lcr >= 128
Loopback == (reg.mcr \div 16) % 2 = 1
Bit(b, value) == (value \div 2 ^ b) % 2 = 1

WriteRegister(port, value) ==
  /\ reg' = CASE port = 0 /\ Dlab  -> [reg EXCEPT !.dll = value]
              [] port = 1 /\ Dlab  -> [reg EXCEPT !.dlm = value]
              [] port = 1 /\ ~Dlab -> [reg EXCEPT !.ier = value]
              [] port = 3          -> [reg EXCEPT !.lcr = value]
              [] port = 4          -> [reg EXCEPT !.mcr = value]
              [] OTHER             -> reg
  /\ fifo' = CASE port = 0 /\ ~Dlab         -> IF Len(fifo) < FifoSize THEN Append(fifo, value) ELSE fifo
               [] port = 2 /\ Bit(2, value) -> <<>>
               [] OTHER                     -> fifo
  /\ received' = IF port = 2 /\ Bit(1, value) THEN <<>> ELSE received
  /\ UNCHANGED <<shift, sent>>

Take ==
  /\ fifo # <<>> /\ shift = <<>>
  /\ shift' = <<Head(fifo)>> /\ fifo' = Tail(fifo)
  /\ UNCHANGED <<made, at, text, reg, received, sent>>

\* The byte is out: on the line, or back in the receiver
Send ==
  /\ shift # <<>> /\ shift' = <<>>
  /\ IF Loopback
       THEN received' = Append(received, Head(shift)) /\ UNCHANGED sent
       ELSE /\ sent' = Append(sent, [byte |-> Head(shift), format |-> reg.lcr,
                                     divisor |-> reg.dll + 256 * reg.dlm])
            /\ UNCHANGED received
  /\ UNCHANGED <<made, at, text, reg, fifo>>

-----------------------------------------------------------------------------
(* The driver *)

Access == Program[made + 1]
Made   == made' = made + 1 /\ at' = IF made + 1 = Len(Program) THEN "spew" ELSE "init"

Write ==
  /\ at = "init" /\ Access.op = "outb"
  /\ WriteRegister(Access.port, Access.value) /\ Made
  /\ UNCHANGED text

\* io_inb, whether the test byte is back or not: of the answer nothing comes,
\* the panic behind the comparison is commented out
LoopbackTest ==
  /\ at = "init" /\ Access.op = "inb" /\ Made
  /\ received' = IF received = <<>> THEN <<>> ELSE Tail(received)
  /\ UNCHANGED <<text, reg, fifo, shift, sent>>

\* WaitTxRdy: bit 5 of LSR is set when the FIFO is empty
Ready(from, to) ==
  /\ at = from /\ text # <<>> /\ fifo = <<>> /\ at' = to
  /\ UNCHANGED <<made, text, reg, fifo, shift, received, sent>>

\* Tx: \r ahead of a newline, and a wait; then the character
TxCr ==
  /\ at = "tx" /\ Head(text) = LF
  /\ WriteRegister(0, CR) /\ at' = "wait"
  /\ UNCHANGED <<made, text>>

TxChar ==
  /\ at = "lf" \/ (at = "tx" /\ Head(text) # LF)
  /\ WriteRegister(0, Head(text)) /\ at' = "spew"
  /\ text' = Tail(text) /\ UNCHANGED made

platform_debug_spew == Ready("spew", "tx")
TxReady             == Ready("wait", "lf")

Driver   == Write \/ LoopbackTest \/ platform_debug_spew \/ TxCr \/ TxReady \/ TxChar
UartNext == Driver \/ Take \/ Send
UartSpec == UartInit /\ [][UartNext]_uart
              /\ WF_uart(Driver) /\ WF_uart(Take) /\ WF_uart(Send)

-----------------------------------------------------------------------------
(* Properties *)

\* What the kernel has sent, and what its text should look like
Kernel(s)  == FlattenSeq([k \in DOMAIN s |-> IF s[k].byte \in Noise THEN <<>> ELSE <<s[k]>>])
Item(b)    == [byte |-> b, format |-> 3, divisor |-> 1]
Legible(s) == FlattenSeq([k \in DOMAIN s |-> IF s[k] = LF THEN <<Item(CR), Item(LF)>>
                                                          ELSE <<Item(s[k])>>])

\* What has come out of the line is a beginning of the text, at 115200 baud,
\* eight bits and one stop bit, whenever the UART sends and whatever it was
\* set to before. Only the loader's bytes and that of the loopback test, which
\* Init does not wait for, may come out too, and only ahead of it.
TextLegible ==
  /\ IsPrefix(Kernel(sent), Legible(Text))
  /\ \A k \in DOMAIN sent : sent[k].byte \in Noise => \A l \in 1 .. k : sent[l].byte \in Noise

\* All of the text gets out.
TextSent == <>[](Kernel(sent) = Legible(Text))
=============================================================================
