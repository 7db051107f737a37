------------------------------- MODULE Memory -------------------------------
(***************************************************************************)
(* The functions of string.cpp that write memory, one store a step:        *)
(* memcpy by words and then by bytes, memmove by way of a buffer on its    *)
(* stack, memset, memclr, strncpy; and strncmp, which compares a byte of   *)
(* either string a step.                                                   *)
(*                                                                         *)
(* FramebufferConsole::newline calls memcpy on ranges that overlap, so it  *)
(* matters in which order the stores come.                                 *)
(***************************************************************************)
EXTENDS Integers, Sequences

CONSTANTS
  Size,        \* the callers' memory: addresses 0 .. Size - 1
  WordSize,    \* sizeof(u32)
  Contents,    \* what it may hold at a call
  Functions    \* the functions called

Byte  == 0 .. 255
Space == 0 .. Size - 1
Tmp   == Size                  \* memmove's tmp, behind the callers' memory
All   == 0 .. 2 * Size - 1

ASSUME SizeAssumption     == Size \in Nat /\ WordSize \in Nat \ {0}
ASSUME ContentsAssumption == Contents \subseteq [All -> Byte]
ASSUME FunctionAssumption ==
  Functions \subseteq {"memcpy", "memmove", "memset", "memclr", "strncpy", "strncmp"}

VARIABLES
  mem,      \* the memory
  call,     \* the call that is made, and its arguments
  loops,    \* the loops it still has to run, the first one running
  i,        \* how many bytes that one has done
  result,   \* what strncmp returns
  before    \* the memory at the call

vars == <<mem, call, loops, i, result, before>>

\* strncmp's s1 and s2 are dst and src
Calls ==
  {c \in [fn : Functions, dst : Space, src : Space, num : 0 .. Size, val : {0, 255}] :
     c.dst + c.num <= Size /\ c.src + c.num <= Size}

Loop(kind, dst, src) == [kind |-> kind, dst |-> dst, src |-> src]

\* Mutant of memmove: straight to dst
memmoveStraight(dst, src) == <<Loop("copy", dst, src)>>

memcpy(dst, src) == <<Loop("copy", dst, src)>>
memmove(dst, src) == <<Loop("copy", Tmp, src), Loop("copy", dst, Tmp)>>

\* The loops of a call
Loops(c) ==
  CASE c.fn = "memcpy"  -> memcpy(c.dst, c.src)
    [] c.fn = "memmove" -> memmove(c.dst, c.src)
    [] c.fn = "strncpy" -> <<Loop("string", c.dst, c.src)>>
    [] c.fn = "strncmp" -> <<Loop("compare", c.dst, c.src)>>
    [] OTHER            -> <<Loop("fill", c.dst, c.src)>>

\* memclr has no value; memset leaves the 0 to it
Value(c) == IF c.fn = "memset" THEN c.val ELSE 0

Init ==
  /\ mem \in Contents /\ before = mem
  /\ call \in Calls /\ loops = Loops(call) /\ i = 0 /\ result = 0

-----------------------------------------------------------------------------
Busy(kind) == loops # <<>> /\ loops[1].kind = kind

\* k bytes at dst + i, read before they are written
Copy(k) ==
  LET to == loops[1].dst + i  from == loops[1].src + i
  IN  /\ mem' = [a \in All |-> IF a \in to .. to + k - 1 THEN mem[from + (a - to)] ELSE mem[a]]
      /\ i' = i + k
      /\ UNCHANGED <<call, result, before>>

Store(byte) ==
  /\ mem' = [mem EXCEPT ![loops[1].dst + i] = byte]
  /\ i' = i + 1
  /\ UNCHANGED <<call, loops, result, before>>

\* Mutant of CopyWord: from the end down, as a memmove may have to
CopyWordDown ==
  LET k  == call.num \div WordSize
      to == loops[1].dst + (k - 1) * WordSize - i
      from == loops[1].src + (k - 1) * WordSize - i
  IN  /\ Busy("copy") /\ i + WordSize <= call.num
      /\ mem' = [a \in All |-> IF a \in to .. to + WordSize - 1 THEN mem[from + (a - to)] ELSE mem[a]]
      /\ i' = i + WordSize
      /\ UNCHANGED <<call, loops, result, before>>

\* Mutant of CopyWord: words to the end, and over it
CopyWordPast ==
  Busy("copy") /\ i < call.num /\ Copy(WordSize) /\ UNCHANGED loops

\* *dst++ = *src++, num / 4 times
CopyWord ==
  Busy("copy") /\ i + WordSize <= call.num /\ Copy(WordSize) /\ UNCHANGED loops

\* What is left, byte by byte
CopyByte ==
  /\ Busy("copy") /\ i < call.num /\ call.num < i + WordSize
  /\ Copy(1) /\ UNCHANGED loops

Fill == Busy("fill") /\ i < call.num /\ Store(Value(call))

\* Mutant of StringByte: what is behind the NUL is copied too
StringByteOn ==
  Busy("string") /\ i < call.num /\ Store(mem[loops[1].src + i])

\* strncpy: a byte, and after a NUL the loop that pads
StringByte ==
  LET byte == mem[loops[1].src + i]
  IN  /\ Busy("string") /\ i < call.num
      /\ mem' = [mem EXCEPT ![loops[1].dst + i] = byte]
      /\ loops' = IF byte = 0 THEN <<[loops[1] EXCEPT !.kind = "pad"]>> ELSE loops
      /\ i' = i + 1
      /\ UNCHANGED <<call, result, before>>

Pad == Busy("pad") /\ i < call.num /\ Store(0)

\* Mutant of Difference: the bytes compared as signed characters
DifferenceSigned(a, b) ==
  LET Signed(x) == IF x > 127 THEN x - 256 ELSE x IN Signed(mem[a]) - Signed(mem[b])

\* Of two bytes, taken as unsigned
Difference(a, b) == mem[a] - mem[b]

\* strncmp: the first bytes that differ are the answer.  Two NULs are equal
\* bytes like any others: it goes on behind them.
CompareByte ==
  LET s1 == loops[1].dst + i  s2 == loops[1].src + i
  IN  /\ Busy("compare") /\ i < call.num
      /\ \/ mem[s1] = mem[s2] /\ i' = i + 1 /\ UNCHANGED <<loops, result>>
         \/ mem[s1] # mem[s2] /\ result' = Difference(s1, s2) /\ loops' = <<>> /\ i' = 0
      /\ UNCHANGED <<mem, call, before>>

\* A loop is through; the next one, or the return
NextLoop ==
  /\ loops # <<>> /\ i = call.num
  /\ loops' = SubSeq(loops, 2, Len(loops)) /\ i' = 0
  /\ UNCHANGED <<mem, call, result, before>>

Next == CopyWord \/ CopyByte \/ Fill \/ StringByte \/ Pad \/ CompareByte \/ NextLoop
Spec == Init /\ [][Next]_vars

-----------------------------------------------------------------------------
(* Properties *)

TypeOK ==
  /\ mem \in [All -> Byte] /\ before \in [All -> Byte] /\ call \in Calls
  /\ loops \in Seq([kind : {"copy", "fill", "string", "pad", "compare"}, dst : All, src : All])
  /\ i \in 0 .. call.num /\ result \in -255 .. 255

Disjoint(c) == c.dst + c.num <= c.src \/ c.src + c.num <= c.dst

\* What the functions may be called with: memcpy's ranges may overlap if the
\* bytes move down, as those of a scrolled screen do
Legal(c) ==
  CASE c.fn = "memcpy"  -> Disjoint(c) \/ c.dst <= c.src
    [] c.fn = "strncpy" -> Disjoint(c)
    [] OTHER            -> TRUE

\* The byte at dst + k when the call returns
Result(c, m, k) ==
  CASE c.fn \in {"memcpy", "memmove"} -> m[c.src + k]
    [] c.fn = "strncpy" -> IF \E j \in 0 .. k : m[c.src + j] = 0 THEN 0 ELSE m[c.src + k]
    [] c.fn = "strncmp" -> m[c.dst + k]
    [] OTHER            -> Value(c)

\* At the return the destination holds what it should, taken from the source
\* as it was at the call, and no other byte has changed (strncmp changes none):
\* for memcpy on ranges that overlap too, if the bytes move down (FramebufferConsole::newline).
Written ==
  loops = <<>> /\ Legal(call) =>
    \A a \in Space :
      mem[a] = IF a \in call.dst .. call.dst + call.num - 1
                 THEN Result(call, before, a - call.dst) ELSE before[a]

\* A byte that the copy still has to read is the one of the call, however far
\* the stores have come: nothing is read after it was overwritten.
SourceAhead ==
  call.fn = "memcpy" /\ Legal(call) /\ loops # <<>> =>
    \A k \in i .. call.num - 1 : mem[call.src + k] = before[call.src + k]

\* C's order of the strings at a and b, n bytes of them at most: the one with the
\* smaller byte where they first differ comes first, and a NUL ends both at once
\* or, being the smallest byte, the one that comes first.
Precedes(a, b, n) ==
  \E k \in 0 .. n - 1 :
    mem[a + k] < mem[b + k] /\ \A j \in 0 .. k - 1 : mem[a + j] = mem[b + j] /\ mem[a + j] # 0

Same(a, b, n) ==
  \A k \in 0 .. n - 1 : mem[a + k] # mem[b + k] => \E j \in 0 .. k - 1 : mem[a + j] = 0

\* What strncmp returns has the sign of C's order wherever that tells the strings
\* apart.  Two that are the same are equal to strncmp only if the bytes behind
\* their NULs are the same too: there C's strncmp has stopped, and this has not.
OrdersStrings ==
  call.fn = "strncmp" /\ loops = <<>> =>
    LET a == call.dst  b == call.src  n == call.num
    IN  /\ Precedes(a, b, n) => result < 0
        /\ Precedes(b, a, n) => result > 0
        /\ Same(a, b, n) => (result = 0 <=> \A k \in 0 .. n - 1 : mem[a + k] = mem[b + k])
=============================================================================
