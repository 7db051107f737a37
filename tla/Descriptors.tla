----------------------------- MODULE Descriptors ----------------------------
(***************************************************************************)
(* The descriptors of gdt.h and idt.h, byte by byte as GDT::Set32, Set64   *)
(* and IDT::set lay them out, and what the processor reads back from them. *)
(* An address is its eight bytes, the least significant one first; sizes,  *)
(* limits and bases of 32 bits are four bytes.                             *)
(***************************************************************************)
EXTENDS Naturals, Sequences

Byte    == 0 .. 255
Address == [1 .. 8 -> Byte]

\* The selectors of gdt.h
GDT_KERN_CODE_SEG   == 8
GDT_KERN_DATA_SEG   == 16
GDT_USER_CODE_SEG   == 24
GDT_USER_DATA_SEG   == 32
GDT_USER_CODE64_SEG == 40
GDT_FIRST_TSS       == 48

IDT_FLAGS_ISR  == 142
IDT_FLAGS_TRAP == 143

TssBytes == 104        \* sizeof(amd64_tss_t)
kNumIdt  == 256

-----------------------------------------------------------------------------
(* As the kernel lays them out *)

Zero8 == <<0, 0, 0, 0, 0, 0, 0, 0>>

\* The limit's bits 19..16 and the upper half of the granularity argument
Granularity(limit, gran) == (limit[3] % 16) + 16 * (gran \div 16)

\* The eight bytes Set32 fills in, and the first eight of Set64
Segment(base, limit, flags, gran) ==
  <<limit[1], limit[2], base[1], base[2], base[3], flags,
    Granularity(limit, gran), base[4]>>

\* The second eight bytes of Set64: base3, reserved
BaseHigh(base) == <<base[5], base[6], base[7], base[8], 0, 0, 0, 0>>

\* IDT::set: offset1, selector, ist, flags, offset2, offset3, reserved
Gate(function, segment, flags, stack) ==
  <<function[1], function[2], segment, 0, stack, flags, function[3], function[4],
    function[5], function[6], function[7], function[8], 0, 0, 0, 0>>

-----------------------------------------------------------------------------
(* As the processor reads them (external) *)

Present(d)      == d[6] >= 128
Ring(d)         == (d[6] \div 32) % 4
IsCode64(d)     == (d[6] \div 8) % 4 = 3 /\ (d[7] \div 32) % 4 = 1
IsWritable(d)   == (d[6] \div 8) % 4 = 2 /\ (d[6] \div 2) % 2 = 1
AvailableTss(d) == d[6] % 32 = 9

Base(low, high) ==
  <<low[3], low[4], low[5], low[8], high[1], high[2], high[3], high[4]>>

Target(gate) ==
  <<gate[1], gate[2], gate[7], gate[8], gate[9], gate[10], gate[11], gate[12]>>
=============================================================================
