--------------------------- MODULE Memory_proofs ----------------------------
(***************************************************************************)
(* What the functions of string.cpp leave in memory, for memories and      *)
(* words of any size.                                                      *)
(*                                                                         *)
(* The invariant says of each function which loops it may still have to    *)
(* run, and that the bytes behind i are as the call found them and those   *)
(* before it as it will leave them.  A copy reads what it has not written: *)
(* that is why the bytes may only move down.                               *)
(***************************************************************************)
EXTENDS Memory, SequenceTheorems, TLAPS

L(kind)  == Loop(kind, call.dst, call.src)
ToTmp    == Loop("copy", Tmp, call.src)
FromTmp  == Loop("copy", call.dst, Tmp)

\* n bytes of the destination are as the function leaves them
Stored(n) ==
  \A a \in Space :
    mem[a] = IF a \in call.dst .. call.dst + n - 1
               THEN Result(call, before, a - call.dst) ELSE before[a]

\* n bytes of the source are in tmp
Kept(n) == \A k \in 0 .. n - 1 : mem[Tmp + k] = before[call.src + k]

NoNul(n) == \A j \in 0 .. n - 1 : before[call.src + j] # 0

CopyInv ==
  \/ loops = <<L("copy")>> /\ (Legal(call) => Stored(i))
  \/ loops = <<>> /\ (Legal(call) => Stored(call.num))

MoveInv ==
  \/ loops = <<ToTmp, FromTmp>> /\ Stored(0) /\ Kept(i)
  \/ loops = <<FromTmp>> /\ Stored(i) /\ Kept(call.num)
  \/ loops = <<>> /\ Stored(call.num)

FillInv ==
  \/ loops = <<L("fill")>> /\ Stored(i)
  \/ loops = <<>> /\ Stored(call.num)

StringInv ==
  \/ loops = <<L("string")>> /\ (Legal(call) => Stored(i) /\ NoNul(i))
  \/ loops = <<L("pad")>> /\ (Legal(call) => Stored(i) /\ ~NoNul(i))
  \/ loops = <<>> /\ (Legal(call) => Stored(call.num))

\* n bytes of the two strings are the same
Alike(n) == \A k \in 0 .. n - 1 : mem[call.dst + k] = mem[call.src + k]

\* The answer is that of the first bytes that differ
Answered ==
  \/ result = 0 /\ Alike(call.num)
  \/ \E k \in 0 .. call.num - 1 :
       /\ Alike(k) /\ mem[call.dst + k] # mem[call.src + k]
       /\ result = mem[call.dst + k] - mem[call.src + k]

CompareInv ==
  /\ mem = before
  /\ \/ loops = <<L("compare")>> /\ result = 0 /\ Alike(i)
     \/ loops = <<>> /\ Answered

Types ==
  /\ mem \in [All -> Byte] /\ before \in [All -> Byte] /\ call \in Calls
  /\ i \in 0 .. call.num /\ result \in -255 .. 255

IInv ==
  /\ Types
  /\ call.fn = "memcpy" => CopyInv
  /\ call.fn = "memmove" => MoveInv
  /\ call.fn \in {"memset", "memclr"} => FillInv
  /\ call.fn = "strncpy" => StringInv
  /\ call.fn = "strncmp" => CompareInv

-----------------------------------------------------------------------------
\* The rest of a sequence of one or two loops.
LEMMA RestOfOne ==
  ASSUME NEW S, NEW s \in Seq(S), Len(s) = 1
  PROVE  SubSeq(s, 2, Len(s)) = <<>> /\ s # <<>>
BY SubSeqEmpty

LEMMA RestOfTwo ==
  ASSUME NEW S, NEW s \in Seq(S), Len(s) = 2
  PROVE  SubSeq(s, 2, Len(s)) = <<s[2]>> /\ s # <<>>
<1>1. \A k \in 2 .. 2 : s[k] \in S
  OBVIOUS
<1>2. /\ SubSeq(s, 2, 2) \in Seq(S) /\ Len(SubSeq(s, 2, 2)) = 1
      /\ \A k \in 1 .. 1 : SubSeq(s, 2, 2)[k] = s[2 + k - 1]
  BY <1>1, SubSeqProperties
<1>3. SubSeq(s, 2, 2)[1] = s[2]
  BY <1>2
<1>4. <<s[2]>> \in Seq(S) /\ Len(<<s[2]>>) = 1 /\ <<s[2]>>[1] = s[2]
  BY <1>1
<1>5. SubSeq(s, 2, 2) = <<s[2]>>
  <2>1. \A k \in 1 .. Len(SubSeq(s, 2, 2)) : SubSeq(s, 2, 2)[k] = <<s[2]>>[k]
    BY <1>2, <1>3, <1>4
  <2>2. QED
    BY <1>2, <1>4, <2>1, SeqEqual
<1>6. QED
  BY <1>5

\* A call's fields
LEMMA CallFields ==
  ASSUME call \in Calls
  PROVE  /\ call.fn \in {"memcpy", "memmove", "memset", "memclr", "strncpy", "strncmp"}
         /\ call.dst \in Nat /\ call.src \in Nat /\ call.num \in Nat /\ call.val \in {0, 255}
         /\ call.dst + call.num <= Size /\ call.src + call.num <= Size
         /\ Size \in Nat /\ Tmp = Size /\ WordSize \in Nat \ {0}
<1>1. Size \in Nat /\ WordSize \in Nat \ {0}
  BY SizeAssumption
<1>2. call \in [fn : Functions, dst : 0 .. Size - 1, src : 0 .. Size - 1, num : 0 .. Size, val : {0, 255}]
  BY DEF Calls, Space
<1>3. call.dst + call.num <= Size /\ call.src + call.num <= Size
  BY DEF Calls
<1>4. call.fn \in Functions
  BY <1>2
<1>5. call.fn \in {"memcpy", "memmove", "memset", "memclr", "strncpy", "strncmp"}
  BY <1>4, FunctionAssumption
<1>6. /\ call.dst \in 0 .. Size - 1 /\ call.src \in 0 .. Size - 1 /\ call.num \in 0 .. Size
      /\ call.val \in {0, 255}
  BY <1>2
<1>7. QED
  BY <1>1, <1>3, <1>5, <1>6 DEF Tmp

LEMMA InitInv == Init => IInv
<1> SUFFICES ASSUME Init PROVE IInv
  OBVIOUS
<1>1. Types
  BY ContentsAssumption, CallFields DEF Init, Types
<1>2. Stored(0) /\ Kept(0) /\ NoNul(0) /\ Alike(0)
  BY CallFields DEF Init, Stored, Kept, NoNul, Alike, Space
<1>3. QED
  BY <1>1, <1>2, CallFields
  DEF Init, IInv, Loops, memcpy, memmove, CopyInv, MoveInv, FillInv, StringInv, CompareInv,
      L, ToTmp, FromTmp

-----------------------------------------------------------------------------
\* What a copy of k bytes to d + i from s + i does
LEMMA CopyStep ==
  ASSUME Types, NEW d \in Nat, NEW s \in Nat, NEW k \in Nat, i + k <= call.num,
         d + call.num <= 2 * Size, s + call.num <= 2 * Size,
         loops[1].dst = d, loops[1].src = s, Copy(k)
  PROVE  /\ Types' /\ i' = i + k /\ call' = call /\ before' = before
         /\ \A a \in All : mem'[a] = IF a \in d + i .. d + i + k - 1 THEN mem[s + (a - d)] ELSE mem[a]
<1>1. /\ call.num \in Nat /\ Size \in Nat /\ i \in Nat /\ result \in -255 .. 255
      /\ mem \in [All -> Byte] /\ before \in [All -> Byte] /\ call \in Calls
  BY CallFields DEF Types
<1>2. /\ mem' = [a \in All |-> IF a \in (d + i) .. (d + i) + k - 1
                                THEN mem[(s + i) + (a - (d + i))] ELSE mem[a]]
      /\ i' = i + k /\ call' = call /\ before' = before /\ result' = result
  BY DEF Copy
<1>3. \A a \in All : mem'[a] = IF a \in d + i .. d + i + k - 1 THEN mem[s + (a - d)] ELSE mem[a]
  <2>1. TAKE a \in All
  <2>2. a \in Int /\ (s + i) + (a - (d + i)) = s + (a - d)
    BY <1>1 DEF All
  <2>3. QED
    BY <1>2, <2>2
<1>4. mem' \in [All -> Byte]
  <2>1. SUFFICES ASSUME NEW a \in All PROVE mem'[a] \in Byte
    BY <1>2
  <2>2. a \in d + i .. d + i + k - 1 => s + (a - d) \in All
    BY <1>1 DEF All
  <2>3. QED
    BY <1>1, <1>3, <2>2
<1>5. i' \in 0 .. call'.num
  BY <1>1, <1>2
<1>6. QED
  BY <1>1, <1>2, <1>3, <1>4, <1>5 DEF Types

\* The other stores, one byte at d + i
LEMMA StoreStep ==
  ASSUME Types, NEW d \in Nat, NEW byte \in Byte, i < call.num, d + call.num <= 2 * Size,
         mem' = [mem EXCEPT ![d + i] = byte], i' = i + 1, call' = call, before' = before, result' = result
  PROVE  /\ Types'
         /\ \A a \in All : mem'[a] = IF a = d + i THEN byte ELSE mem[a]
<1>1. /\ call.num \in Nat /\ Size \in Nat /\ i \in Nat
      /\ mem \in [All -> Byte] /\ before \in [All -> Byte] /\ call \in Calls
  BY CallFields DEF Types
<1>2. d + i \in All
  BY <1>1 DEF All
<1>3. mem' \in [All -> Byte] /\ \A a \in All : mem'[a] = IF a = d + i THEN byte ELSE mem[a]
  BY <1>1, <1>2
<1>4. i' \in 0 .. call'.num
  BY <1>1
<1>5. QED
  BY <1>1, <1>3, <1>4 DEF Types

\* Which loop runs decides which of the actions is taken
LEMMA Steps ==
  ASSUME Types, Next
  PROVE  \/ Busy("copy") /\ UNCHANGED loops
            /\ \E k \in Nat : i + k <= call.num /\ Copy(k)
         \/ Busy("fill") /\ Fill
         \/ Busy("string") /\ StringByte
         \/ Busy("pad") /\ Pad
         \/ Busy("compare") /\ CompareByte
         \/ i = call.num /\ NextLoop
<1>1. call.num \in Nat /\ i \in Nat /\ WordSize \in Nat
  BY CallFields DEF Types
<1>2. CASE CopyWord
  BY <1>1, <1>2 DEF CopyWord
<1>3. CASE CopyByte
  BY <1>1, <1>3 DEF CopyByte
<1>4. QED
  BY <1>2, <1>3 DEF Next, Fill, StringByte, Pad, CompareByte, NextLoop

LEMMA NextLoopStep ==
  ASSUME Types, NextLoop
  PROVE  /\ Types' /\ i' = 0 /\ i = call.num /\ loops # <<>>
         /\ loops' = SubSeq(loops, 2, Len(loops))
         /\ mem' = mem /\ before' = before /\ call' = call /\ result' = result
BY CallFields DEF Types, NextLoop

LEMMA MemcpyStep ==
  ASSUME IInv, call.fn = "memcpy", Next
  PROVE  Types' /\ call' = call /\ CopyInv'
<1>1. Types /\ CopyInv
  BY DEF IInv
<1>2. /\ call.dst \in Nat /\ call.src \in Nat /\ call.num \in Nat /\ i \in Nat /\ Size \in Nat
      /\ call.dst + call.num <= Size /\ call.src + call.num <= Size
      /\ call.dst + call.num <= 2 * Size /\ call.src + call.num <= 2 * Size
  BY <1>1, CallFields DEF Types
<1>3. loops # <<>> => loops = <<L("copy")>>
  BY <1>1 DEF CopyInv
<1>4. CASE Busy("copy") /\ UNCHANGED loops /\ \E k \in Nat : i + k <= call.num /\ Copy(k)
  <2>1. PICK k \in Nat : i + k <= call.num /\ Copy(k)
    BY <1>4
  <2>2. loops = <<L("copy")>> /\ loops' = loops
    BY <1>3, <1>4 DEF Busy
  <2>3. loops[1].dst = call.dst /\ loops[1].src = call.src
    BY <2>2 DEF L, Loop
  <2>4. /\ Types' /\ i' = i + k /\ call' = call /\ before' = before
        /\ \A a \in All : mem'[a] = IF a \in call.dst + i .. call.dst + i + k - 1
                                      THEN mem[call.src + (a - call.dst)] ELSE mem[a]
    BY <1>1, <1>2, <2>1, <2>3, CopyStep
  <2>5. ASSUME Legal(call) PROVE Stored(i)'
    <3>1. \A a \in Space : mem[a] = IF a \in call.dst .. call.dst + i - 1
                                     THEN before[call.src + (a - call.dst)] ELSE before[a]
      <4>1. Stored(i)
        BY <1>1, <2>2, <2>5, <1>3 DEF CopyInv
      <4>2. QED
        BY <4>1 DEF Stored, Result
    <3>2. call.dst + call.num <= call.src \/ call.src + call.num <= call.dst \/ call.dst <= call.src
      BY <2>5 DEF Legal, Disjoint
    <3>3. \A a \in Space : mem'[a] = IF a \in call.dst .. call.dst + (i + k) - 1
                                      THEN before[call.src + (a - call.dst)] ELSE before[a]
      <4>1. TAKE a \in Space
      <4>2. a \in All /\ a \in Nat
        BY <1>2 DEF Space, All
      <4>3. CASE a \in call.dst + i .. call.dst + i + k - 1
        <5>1. mem'[a] = mem[call.src + (a - call.dst)]
          BY <2>4, <4>2, <4>3
        <5>2. /\ call.src + (a - call.dst) \in Space
              /\ call.src + (a - call.dst) \notin call.dst .. call.dst + i - 1
          BY <1>2, <2>1, <3>2, <4>2, <4>3 DEF Space
        <5>3. mem'[a] = before[call.src + (a - call.dst)]
          BY <3>1, <5>1, <5>2
        <5>4. a \in call.dst .. call.dst + (i + k) - 1
          BY <1>2, <4>2, <4>3
        <5>5. QED
          BY <5>3, <5>4
      <4>4. CASE a \notin call.dst + i .. call.dst + i + k - 1
        <5>1. mem'[a] = mem[a]
          BY <2>4, <4>2, <4>4
        <5>2. a \in call.dst .. call.dst + (i + k) - 1 <=> a \in call.dst .. call.dst + i - 1
          BY <1>2, <2>1, <4>2, <4>4
        <5>3. QED
          BY <3>1, <5>1, <5>2
      <4>5. QED
        BY <4>3, <4>4
    <3>4. QED
      BY <2>4, <3>3 DEF Stored, Result
  <2>6. QED
    BY <2>2, <2>4, <2>5 DEF CopyInv, L
<1>5. CASE i = call.num /\ NextLoop
  <2>1. /\ Types' /\ i = call.num /\ loops # <<>> /\ loops' = SubSeq(loops, 2, Len(loops))
        /\ mem' = mem /\ before' = before /\ call' = call
    BY <1>1, <1>5, NextLoopStep
  <2>2. loops' = <<>>
    <3>1. loops = <<L("copy")>>
      BY <1>3, <2>1
    <3>2. loops \in Seq({L("copy")}) /\ Len(loops) = 1
      BY <3>1
    <3>3. QED
      BY <2>1, <3>2, RestOfOne
  <2>3. Legal(call) => Stored(call.num)
    BY <1>1, <2>1, <1>3 DEF CopyInv
  <2>4. QED
    BY <2>1, <2>2, <2>3 DEF CopyInv, Stored
<1>6. Busy("fill") \/ Busy("string") \/ Busy("pad") \/ Busy("compare") => FALSE
  BY <1>3 DEF Busy, L, Loop
<1>7. QED
  BY <1>1, <1>4, <1>5, <1>6, Steps

LEMMA MemmoveStep ==
  ASSUME IInv, call.fn = "memmove", Next
  PROVE  Types' /\ call' = call /\ MoveInv'
<1>1. Types /\ MoveInv
  BY DEF IInv
<1>2. /\ call.dst \in Nat /\ call.src \in Nat /\ call.num \in Nat /\ i \in Nat /\ Size \in Nat
      /\ call.dst + call.num <= Size /\ call.src + call.num <= Size
      /\ call.dst + call.num <= 2 * Size /\ call.src + call.num <= 2 * Size
      /\ Tmp = Size /\ Tmp \in Nat /\ Tmp + call.num <= 2 * Size /\ i <= call.num
  BY <1>1, CallFields DEF Types
<1>3. \A a \in Space : a \in All /\ a \in Nat /\ a < Tmp
  BY <1>2 DEF Space, All
<1>4. \A k \in 0 .. call.num - 1 : Tmp + k \in All /\ call.src + k \in Space
  BY <1>2 DEF Space, All
<1>5. loops = <<ToTmp, FromTmp>> => loops[1] = ToTmp /\ loops[2] = FromTmp /\ loops # <<>>
  OBVIOUS
<1>6. loops = <<FromTmp>> => loops[1] = FromTmp /\ loops # <<>>
  OBVIOUS
<1>7. \A n \in 0 .. call.num :
        Stored(n) <=> \A a \in Space : mem[a] = IF a \in call.dst .. call.dst + n - 1
                                               THEN before[call.src + (a - call.dst)] ELSE before[a]
  BY DEF Stored, Result
<1>8. CASE Busy("copy") /\ UNCHANGED loops /\ \E k \in Nat : i + k <= call.num /\ Copy(k)
  <2>1. PICK k \in Nat : i + k <= call.num /\ Copy(k)
    BY <1>8
  <2>2. CASE loops = <<ToTmp, FromTmp>> /\ Stored(0) /\ Kept(i)
    <3>1. loops[1].dst = Tmp /\ loops[1].src = call.src
      BY <1>5, <2>2 DEF ToTmp, Loop
    <3>2. /\ Types' /\ i' = i + k /\ call' = call /\ before' = before
          /\ \A a \in All : mem'[a] = IF a \in Tmp + i .. Tmp + i + k - 1
                                        THEN mem[call.src + (a - Tmp)] ELSE mem[a]
      BY <1>1, <1>2, <2>1, <3>1, CopyStep
    <3>3. \A a \in Space : mem'[a] = mem[a]
      BY <1>2, <1>3, <3>2
    <3>4. \A a \in Space : mem[a] = before[a]
      BY <1>2, <1>3, <2>2 DEF Stored
    <3>5. Stored(0)'
      BY <1>2, <3>2, <3>3, <3>4, <1>3 DEF Stored
    <3>6. ASSUME NEW j \in 0 .. (i + k) - 1 PROVE mem'[Tmp + j] = before[call.src + j]
      <4>1. Tmp + j \in All /\ call.src + j \in Space /\ (Tmp + j) - Tmp = j /\ j \in Nat
        BY <1>2, <1>4, <2>1
      <4>2. CASE j < i
        <5>1. mem'[Tmp + j] = mem[Tmp + j]
          BY <1>2, <3>2, <4>1, <4>2
        <5>2. QED
          BY <1>2, <2>2, <4>1, <4>2, <5>1 DEF Kept
      <4>3. CASE i <= j
        <5>1. mem'[Tmp + j] = mem[call.src + j]
          BY <1>2, <2>1, <3>2, <4>1, <4>3
        <5>2. QED
          BY <3>4, <4>1, <5>1
      <4>4. QED
        BY <1>2, <4>1, <4>2, <4>3
    <3>7. Kept(i)'
      BY <3>2, <3>6 DEF Kept
    <3>8. (loops = <<ToTmp, FromTmp>>)'
      BY <1>8, <2>2, <3>2 DEF ToTmp, FromTmp
    <3>9. QED
      BY <3>2, <3>5, <3>7, <3>8 DEF MoveInv
  <2>3. CASE loops = <<FromTmp>> /\ Stored(i) /\ Kept(call.num)
    <3>1. loops[1].dst = call.dst /\ loops[1].src = Tmp
      BY <1>6, <2>3 DEF FromTmp, Loop
    <3>2. /\ Types' /\ i' = i + k /\ call' = call /\ before' = before
          /\ \A a \in All : mem'[a] = IF a \in call.dst + i .. call.dst + i + k - 1
                                        THEN mem[Tmp + (a - call.dst)] ELSE mem[a]
      BY <1>1, <1>2, <2>1, <3>1, CopyStep
    <3>3. ASSUME NEW a \in Space
          PROVE  mem'[a] = IF a \in call.dst .. call.dst + (i + k) - 1
                             THEN before[call.src + (a - call.dst)] ELSE before[a]
      <4>1. i \in 0 .. call.num
        BY <1>2
      <4>2. mem[a] = IF a \in call.dst .. call.dst + i - 1
                       THEN before[call.src + (a - call.dst)] ELSE before[a]
        BY <1>7, <2>3, <4>1
      <4>3. CASE a \in call.dst + i .. call.dst + i + k - 1
        <5>1. a - call.dst \in 0 .. call.num - 1
          BY <1>2, <1>3, <2>1, <4>3
        <5>2. mem'[a] = before[call.src + (a - call.dst)]
          BY <1>3, <2>3, <3>2, <4>3, <5>1 DEF Kept
        <5>3. a \in call.dst .. call.dst + (i + k) - 1
          BY <1>2, <1>3, <4>3
        <5>4. QED
          BY <5>2, <5>3
      <4>4. CASE a \notin call.dst + i .. call.dst + i + k - 1
        <5>1. mem'[a] = mem[a]
          BY <1>3, <3>2, <4>4
        <5>2. a \in call.dst .. call.dst + (i + k) - 1 <=> a \in call.dst .. call.dst + i - 1
          BY <1>2, <1>3, <2>1, <4>4
        <5>3. QED
          BY <4>2, <5>1, <5>2
      <4>5. QED
        BY <4>3, <4>4
    <3>4. Stored(i)'
      BY <3>2, <3>3 DEF Stored, Result
    <3>5. \A j \in 0 .. call.num - 1 : mem'[Tmp + j] = mem[Tmp + j]
      BY <1>2, <1>4, <2>1, <3>2
    <3>6. Kept(call.num)'
      BY <2>3, <3>2, <3>5 DEF Kept
    <3>7. (loops = <<FromTmp>>)'
      BY <1>8, <2>3, <3>2 DEF FromTmp
    <3>8. QED
      BY <3>2, <3>4, <3>6, <3>7 DEF MoveInv
  <2>4. QED
    BY <1>1, <1>8, <2>2, <2>3 DEF MoveInv, Busy
<1>9. CASE i = call.num /\ NextLoop
  <2>1. /\ Types' /\ i' = 0 /\ i = call.num /\ loops # <<>> /\ loops' = SubSeq(loops, 2, Len(loops))
        /\ mem' = mem /\ before' = before /\ call' = call
    BY <1>1, <1>9, NextLoopStep
  <2>2. CASE loops = <<ToTmp, FromTmp>> /\ Stored(0) /\ Kept(i)
    <3>1. loops \in Seq({ToTmp, FromTmp}) /\ Len(loops) = 2
      BY <2>2
    <3>2. loops' = <<FromTmp>>
      BY <1>5, <2>1, <2>2, <3>1, RestOfTwo
    <3>3. (loops = <<FromTmp>>)'
      BY <2>1, <3>2 DEF FromTmp
    <3>4. Stored(i)' /\ Kept(call.num)'
      BY <2>1, <2>2 DEF Stored, Kept
    <3>5. QED
      BY <2>1, <3>3, <3>4 DEF MoveInv
  <2>3. CASE loops = <<FromTmp>> /\ Stored(i) /\ Kept(call.num)
    <3>1. loops \in Seq({FromTmp}) /\ Len(loops) = 1
      BY <2>3
    <3>2. loops' = <<>>
      BY <2>1, <3>1, RestOfOne
    <3>3. Stored(call.num)'
      BY <2>1, <2>3 DEF Stored
    <3>4. QED
      BY <2>1, <3>2, <3>3 DEF MoveInv
  <2>4. QED
    BY <1>1, <2>1, <2>2, <2>3 DEF MoveInv
<1>10. Busy("fill") \/ Busy("string") \/ Busy("pad") \/ Busy("compare") => FALSE
  BY <1>1, <1>5, <1>6 DEF MoveInv, Busy, ToTmp, FromTmp, Loop
<1>11. QED
  BY <1>1, <1>8, <1>9, <1>10, Steps

\* One byte more is stored
LEMMA OneMore ==
  ASSUME Types, i < call.num, Stored(i), NEW byte \in Byte, byte = Result(call, before, i),
         i' = i + 1, call' = call, before' = before,
         \A a \in All : mem'[a] = IF a = call.dst + i THEN byte ELSE mem[a]
  PROVE  Stored(i)'
<1>1. /\ call.dst \in Nat /\ call.num \in Nat /\ i \in Nat /\ Size \in Nat
      /\ call.dst + call.num <= Size
  BY CallFields DEF Types
<1>2. ASSUME NEW a \in Space
      PROVE  mem'[a] = IF a \in call.dst .. call.dst + (i + 1) - 1
                         THEN Result(call, before, a - call.dst) ELSE before[a]
  <2>1. a \in All /\ a \in Nat
    BY <1>1 DEF Space, All
  <2>2. CASE a = call.dst + i
    <3>1. a - call.dst = i /\ a \in call.dst .. call.dst + (i + 1) - 1
      BY <1>1, <2>2
    <3>2. QED
      BY <2>1, <2>2, <3>1
  <2>3. CASE a # call.dst + i
    <3>1. a \in call.dst .. call.dst + (i + 1) - 1 <=> a \in call.dst .. call.dst + i - 1
      BY <1>1, <2>1, <2>3
    <3>2. mem'[a] = mem[a]
      BY <2>1, <2>3
    <3>3. mem[a] = IF a \in call.dst .. call.dst + i - 1
                     THEN Result(call, before, a - call.dst) ELSE before[a]
      BY DEF Stored
    <3>4. QED
      BY <3>1, <3>2, <3>3
  <2>4. QED
    BY <2>2, <2>3
<1>3. QED
  BY <1>2 DEF Stored

\* The one loop of a call comes to its end
LEMMA LastLoop ==
  ASSUME NEW kind, loops = <<L(kind)>>, Types, NextLoop
  PROVE  /\ Types' /\ i = call.num /\ loops' = <<>> /\ call' = call
         /\ (Legal(call) => Stored(i)) => (Legal(call) => Stored(call.num))'
<1>1. /\ Types' /\ i = call.num /\ loops' = SubSeq(loops, 2, Len(loops))
      /\ mem' = mem /\ before' = before /\ call' = call
  BY NextLoopStep
<1>2. loops \in Seq({L(kind)}) /\ Len(loops) = 1
  OBVIOUS
<1>3. loops' = <<>>
  BY <1>1, <1>2, RestOfOne
<1>4. QED
  BY <1>1, <1>3 DEF Stored

LEMMA FillStep ==
  ASSUME IInv, call.fn \in {"memset", "memclr"}, Next
  PROVE  Types' /\ call' = call /\ FillInv'
<1>1. Types /\ FillInv
  BY DEF IInv
<1>2. /\ call.dst \in Nat /\ call.num \in Nat /\ i \in Nat /\ Size \in Nat
      /\ call.dst + call.num <= 2 * Size /\ Value(call) \in Byte
  <2>1. call.val \in {0, 255}
    BY <1>1, CallFields DEF Types
  <2>2. QED
    BY <1>1, <2>1, CallFields DEF Types, Value, Byte
<1>3. loops # <<>> => loops = <<L("fill")>> /\ Stored(i)
  BY <1>1 DEF FillInv
<1>4. Legal(call)
  BY DEF Legal
<1>5. CASE Busy("fill") /\ Fill
  <2>1. loops = <<L("fill")>> /\ Stored(i)
    BY <1>3, <1>5 DEF Busy
  <2>2. loops[1].dst = call.dst
    BY <2>1 DEF L, Loop
  <2>3. PICK byte \in Byte : byte = Value(call)
    BY <1>2
  <2>4. /\ mem' = [mem EXCEPT ![call.dst + i] = byte] /\ i < call.num
        /\ i' = i + 1 /\ call' = call /\ before' = before /\ loops' = loops /\ result' = result
    BY <1>5, <2>2, <2>3 DEF Fill, Store
  <2>5. Types' /\ \A a \in All : mem'[a] = IF a = call.dst + i THEN byte ELSE mem[a]
    BY <1>1, <1>2, <2>4, StoreStep
  <2>6. byte = Result(call, before, i)
    BY <2>3 DEF Result
  <2>7. Stored(i)'
    BY <1>1, <2>1, <2>4, <2>5, <2>6, OneMore
  <2>8. QED
    BY <2>1, <2>4, <2>5, <2>7 DEF FillInv, L
<1>6. CASE i = call.num /\ NextLoop
  <2>1. loops = <<L("fill")>> /\ Stored(i)
    BY <1>3, <1>6 DEF NextLoop
  <2>2. Types' /\ loops' = <<>> /\ call' = call /\ (Legal(call) => Stored(call.num))'
    BY <1>1, <1>6, <2>1, LastLoop
  <2>3. Legal(call)'
    BY <1>4, <2>2
  <2>4. QED
    BY <2>2, <2>3 DEF FillInv
<1>7. Busy("copy") \/ Busy("string") \/ Busy("pad") \/ Busy("compare") => FALSE
  BY <1>3 DEF Busy, L, Loop
<1>8. QED
  BY <1>1, <1>5, <1>6, <1>7, Steps

LEMMA StringStep ==
  ASSUME IInv, call.fn = "strncpy", Next
  PROVE  Types' /\ call' = call /\ StringInv'
<1>1. Types /\ StringInv
  BY DEF IInv
<1>2. /\ call.dst \in Nat /\ call.src \in Nat /\ call.num \in Nat /\ i \in Nat /\ Size \in Nat
      /\ call.dst + call.num <= Size /\ call.src + call.num <= Size
      /\ call.dst + call.num <= 2 * Size /\ 0 \in Byte
      /\ mem \in [All -> Byte] /\ before \in [All -> Byte]
  BY <1>1, CallFields DEF Types, Byte
<1>3. CASE Busy("string") /\ StringByte
  <2>1. loops = <<L("string")>> /\ (Legal(call) => Stored(i) /\ NoNul(i)) /\ i < call.num
    BY <1>1, <1>3 DEF Busy, StringInv, StringByte, L, Loop
  <2>2. loops[1].dst = call.dst /\ loops[1].src = call.src
    BY <2>1 DEF L, Loop
  <2> DEFINE byte == mem[call.src + i]
  <2>3. /\ mem' = [mem EXCEPT ![call.dst + i] = byte]
        /\ i' = i + 1 /\ call' = call /\ before' = before /\ result' = result
        /\ loops' = IF byte = 0 THEN <<[loops[1] EXCEPT !.kind = "pad"]>> ELSE loops
    BY <1>3, <2>2 DEF StringByte
  <2>4. call.src + i \in Space /\ call.src + i \in All
    BY <1>2, <2>1 DEF Space, All
  <2>5. byte \in Byte
    BY <1>2, <2>4
  <2>6. Types' /\ \A a \in All : mem'[a] = IF a = call.dst + i THEN byte ELSE mem[a]
    BY <1>1, <1>2, <2>1, <2>3, <2>5, StoreStep
  <2>7. loops' = IF byte = 0 THEN <<L("pad")>> ELSE <<L("string")>>
    <3>1. loops[1] = L("string")
      BY <2>1
    <3>2. [L("string") EXCEPT !.kind = "pad"] = L("pad")
      BY DEF L, Loop
    <3>3. QED
      BY <2>1, <2>3, <3>1, <3>2
  <2>8. ASSUME Legal(call)
        PROVE  Stored(i)' /\ (byte = 0 => ~NoNul(i)') /\ (byte # 0 => NoNul(i)')
    <3>1. Stored(i) /\ NoNul(i)
      BY <2>1, <2>8
    <3>2. call.dst + call.num <= call.src \/ call.src + call.num <= call.dst
      BY <2>8 DEF Legal, Disjoint
    <3>3. byte = before[call.src + i]
      <4>1. call.src + i \notin call.dst .. call.dst + i - 1
        BY <1>2, <2>1, <3>2
      <4>2. QED
        BY <2>4, <3>1, <4>1 DEF Stored
    <3>4. byte = Result(call, before, i)
      <4>1. CASE byte = 0
        <5>1. i \in 0 .. i /\ before[call.src + i] = 0
          BY <1>2, <3>3, <4>1
        <5>2. QED
          BY <4>1, <5>1 DEF Result
      <4>2. CASE byte # 0
        <5>1. \A j \in 0 .. i : before[call.src + j] # 0
          BY <1>2, <3>1, <3>3, <4>2 DEF NoNul
        <5>2. QED
          BY <3>3, <5>1 DEF Result
      <4>3. QED
        BY <4>1, <4>2
    <3>5. Stored(i)'
      BY <1>1, <2>1, <2>3, <2>5, <2>6, <3>1, <3>4, OneMore
    <3>6. ASSUME byte = 0 PROVE ~NoNul(i)'
      <4>1. before'[call'.src + i] = 0
        BY <2>3, <3>3, <3>6
      <4>2. i \in 0 .. i' - 1
        BY <1>2, <2>3
      <4>3. QED
        BY <4>1, <4>2 DEF NoNul
    <3>7. byte # 0 => NoNul(i)'
      BY <1>2, <2>3, <3>1, <3>3 DEF NoNul
    <3>8. QED
      BY <3>5, <3>6, <3>7
  <2>9. CASE byte = 0
    <3>1. (loops = <<L("pad")>>)' /\ (Legal(call) => Stored(i) /\ ~NoNul(i))'
      BY <2>3, <2>7, <2>8, <2>9 DEF L
    <3>2. QED
      BY <2>3, <2>6, <3>1 DEF StringInv
  <2>10. CASE byte # 0
    <3>1. (loops = <<L("string")>>)' /\ (Legal(call) => Stored(i) /\ NoNul(i))'
      BY <2>3, <2>7, <2>8, <2>10 DEF L
    <3>2. QED
      BY <2>3, <2>6, <3>1 DEF StringInv
  <2>11. QED
    BY <2>9, <2>10
<1>4. CASE Busy("pad") /\ Pad
  <2>1. loops = <<L("pad")>> /\ (Legal(call) => Stored(i) /\ ~NoNul(i)) /\ i < call.num
    BY <1>1, <1>4 DEF Busy, StringInv, Pad, L, Loop
  <2>2. loops[1].dst = call.dst
    BY <2>1 DEF L, Loop
  <2>3. /\ mem' = [mem EXCEPT ![call.dst + i] = 0]
        /\ i' = i + 1 /\ call' = call /\ before' = before /\ loops' = loops /\ result' = result
    BY <1>4, <2>2 DEF Pad, Store
  <2>4. Types' /\ \A a \in All : mem'[a] = IF a = call.dst + i THEN 0 ELSE mem[a]
    BY <1>1, <1>2, <2>1, <2>3, StoreStep
  <2>5. ASSUME Legal(call) PROVE Stored(i)' /\ ~NoNul(i)'
    <3>1. PICK j \in 0 .. i - 1 : before[call.src + j] = 0
      BY <2>1, <2>5 DEF NoNul
    <3>2. j \in 0 .. i /\ j \in 0 .. (i + 1) - 1
      BY <1>2, <3>1
    <3>3. 0 = Result(call, before, i)
      BY <3>1, <3>2 DEF Result
    <3>4. Stored(i)'
      BY <1>1, <1>2, <2>1, <2>3, <2>4, <2>5, <3>3, OneMore
    <3>5. QED
      BY <2>3, <3>1, <3>2, <3>4 DEF NoNul
  <2>6. QED
    BY <2>1, <2>3, <2>4, <2>5 DEF StringInv, L
<1>5. CASE i = call.num /\ NextLoop
  <2>1. PICK kind \in {"string", "pad"} : loops = <<L(kind)>> /\ (Legal(call) => Stored(i))
    BY <1>1, <1>5 DEF StringInv, NextLoop
  <2>2. Types' /\ loops' = <<>> /\ call' = call /\ (Legal(call) => Stored(call.num))'
    BY <1>1, <1>5, <2>1, LastLoop
  <2>3. QED
    BY <2>2 DEF StringInv
<1>6. Busy("copy") \/ Busy("fill") \/ Busy("compare") => FALSE
  BY <1>1 DEF StringInv, Busy, L, Loop
<1>7. QED
  BY <1>1, <1>3, <1>4, <1>5, <1>6, Steps

\* strncmp goes over equal bytes, NULs too, up to the first that differ
LEMMA CompareStep ==
  ASSUME IInv, call.fn = "strncmp", Next
  PROVE  Types' /\ call' = call /\ CompareInv'
<1>1. Types /\ CompareInv
  BY DEF IInv
<1>2. /\ call.dst \in Nat /\ call.src \in Nat /\ call.num \in Nat /\ i \in Nat /\ Size \in Nat
      /\ call.dst + call.num <= Size /\ call.src + call.num <= Size /\ i <= call.num
  BY <1>1, CallFields DEF Types
<1>3. loops # <<>> => loops = <<L("compare")>> /\ result = 0 /\ Alike(i)
  BY <1>1 DEF CompareInv
<1>4. CASE Busy("compare") /\ CompareByte
  <2>1. loops = <<L("compare")>> /\ result = 0 /\ Alike(i)
    BY <1>3, <1>4 DEF Busy
  <2>2. loops[1].dst = call.dst /\ loops[1].src = call.src
    BY <2>1 DEF L, Loop
  <2> DEFINE x == mem[call.dst + i]  y == mem[call.src + i]
  <2>3. /\ i < call.num /\ mem' = mem /\ call' = call /\ before' = before
        /\ \/ x = y /\ i' = i + 1 /\ loops' = loops /\ result' = result
           \/ x # y /\ result' = x - y /\ loops' = <<>> /\ i' = 0
    BY <1>4, <2>2 DEF CompareByte, Difference
  <2>4. x \in 0 .. 255 /\ y \in 0 .. 255
    <3>1. call.dst + i \in All /\ call.src + i \in All
      BY <1>2, <2>3 DEF All
    <3> QED  BY <1>1, <3>1 DEF Types, Byte
  <2>5. CASE x = y
    <3>1. i' = i + 1 /\ loops' = loops /\ result' = result
      BY <2>3, <2>5
    <3>2. Alike(i)'
      <4> SUFFICES ASSUME NEW k \in 0 .. (i + 1) - 1 PROVE mem[call.dst + k] = mem[call.src + k]
        BY <2>3, <3>1 DEF Alike
      <4>1. k \in 0 .. i - 1 \/ k = i
        BY <1>2
      <4> QED  BY <2>1, <2>5, <4>1 DEF Alike
    <3>3. CompareInv'
      BY <1>1, <2>1, <2>3, <3>1, <3>2 DEF CompareInv, L
    <3>4. Types'
      BY <1>1, <1>2, <2>3, <3>1 DEF Types
    <3> QED  BY <2>3, <3>3, <3>4
  <2>6. CASE x # y
    <3>1. result' = x - y /\ loops' = <<>> /\ i' = 0
      BY <2>3, <2>6
    <3>2. Answered'
      <4>1. i \in 0 .. call.num - 1
        BY <1>2, <2>3
      <4>2. Alike(i) /\ mem' = mem /\ call' = call
        BY <2>1, <2>3
      <4>3. /\ \A k \in 0 .. i - 1 : mem'[call'.dst + k] = mem'[call'.src + k]
            /\ mem'[call'.dst + i] # mem'[call'.src + i]
            /\ result' = mem'[call'.dst + i] - mem'[call'.src + i] /\ i \in 0 .. call'.num - 1
        BY <2>6, <3>1, <4>1, <4>2 DEF Alike
      <4> QED  BY <4>3 DEF Answered, Alike
    <3>3. CompareInv'
      BY <1>1, <2>3, <3>1, <3>2 DEF CompareInv
    <3>4. result' \in -255 .. 255
      <4> HIDE DEF x, y
      <4> QED  BY <2>4, <3>1
    <3>5. Types'
      <4>1. mem' = mem /\ call' = call /\ before' = before /\ i' = 0
        BY <2>3, <3>1
      <4>2. 0 \in 0 .. call.num
        BY <1>2
      <4> QED  BY <1>1, <3>4, <4>1, <4>2 DEF Types
    <3> QED  BY <2>3, <3>3, <3>5
  <2> QED  BY <2>5, <2>6
<1>5. CASE i = call.num /\ NextLoop
  <2>1. loops = <<L("compare")>> /\ result = 0 /\ Alike(call.num)
    BY <1>3, <1>5 DEF NextLoop
  <2>2. Types' /\ loops' = <<>> /\ call' = call
    BY <1>1, <1>5, <2>1, LastLoop
  <2>3. mem' = mem /\ before' = before /\ result' = result
    BY <1>5 DEF NextLoop
  <2>4. Answered'
    BY <2>1, <2>2, <2>3 DEF Answered, Alike
  <2> QED  BY <1>1, <2>2, <2>3, <2>4 DEF CompareInv
<1>6. Busy("copy") \/ Busy("fill") \/ Busy("string") \/ Busy("pad") => FALSE
  BY <1>3 DEF Busy, L, Loop
<1> QED  BY <1>1, <1>4, <1>5, <1>6, Steps

-----------------------------------------------------------------------------
LEMMA NextInv == IInv /\ [Next]_vars => IInv'
<1> SUFFICES ASSUME IInv, [Next]_vars PROVE IInv'
  OBVIOUS
<1>1. CASE Next
  <2>1. call.fn \in {"memcpy", "memmove", "memset", "memclr", "strncpy", "strncmp"}
    BY CallFields DEF IInv, Types
  <2>2. CASE call.fn = "memcpy"
    BY <1>1, <2>2, MemcpyStep DEF IInv
  <2>3. CASE call.fn = "memmove"
    BY <1>1, <2>3, MemmoveStep DEF IInv
  <2>4. CASE call.fn \in {"memset", "memclr"}
    BY <1>1, <2>4, FillStep DEF IInv
  <2>5. CASE call.fn = "strncpy"
    BY <1>1, <2>5, StringStep DEF IInv
  <2>6. CASE call.fn = "strncmp"
    BY <1>1, <2>6, CompareStep DEF IInv
  <2>7. QED
    BY <2>1, <2>2, <2>3, <2>4, <2>5, <2>6
<1>2. CASE UNCHANGED vars
  BY <1>2 DEF vars, IInv, Types, CopyInv, MoveInv, FillInv, StringInv, CompareInv, Answered,
              Alike, Stored, Kept, NoNul, L, ToTmp, FromTmp
<1>3. QED
  BY <1>1, <1>2

\* A function that returns has stored what it should.
LEMMA InvWritten == IInv => Written
<1> SUFFICES ASSUME IInv, loops = <<>>, Legal(call) PROVE Stored(call.num)
  BY DEF Written, Stored
<1>1. call.fn \in {"memcpy", "memmove", "memset", "memclr", "strncpy", "strncmp"}
  BY CallFields DEF IInv, Types
<1>2. CASE call.fn = "strncmp"
  BY <1>2, CallFields DEF IInv, Types, CompareInv, Stored, Result
<1>3. CASE call.fn # "strncmp"
  BY <1>1, <1>3 DEF IInv, CopyInv, MoveInv, FillInv, StringInv
<1>4. QED
  BY <1>2, <1>3

\* What memcpy has not read yet, it has not written.
LEMMA InvSourceAhead == IInv => SourceAhead
<1> SUFFICES ASSUME IInv, call.fn = "memcpy", Legal(call), loops # <<>>,
                    NEW k \in i .. call.num - 1
             PROVE  mem[call.src + k] = before[call.src + k]
  BY DEF SourceAhead
<1>1. Stored(i)
  BY DEF IInv, CopyInv
<1>2. /\ call.dst \in Nat /\ call.src \in Nat /\ call.num \in Nat /\ i \in Nat /\ Size \in Nat
      /\ call.src + call.num <= Size
  BY CallFields DEF IInv, Types
<1>3. call.dst + call.num <= call.src \/ call.src + call.num <= call.dst \/ call.dst <= call.src
  BY DEF Legal, Disjoint
<1>4. call.src + k \in Space /\ call.src + k \notin call.dst .. call.dst + i - 1
  BY <1>2, <1>3 DEF Space
<1>5. QED
  BY <1>1, <1>4 DEF Stored

LEMMA InvTypeOK == IInv => TypeOK
<1> SUFFICES ASSUME IInv PROVE TypeOK
  OBVIOUS
<1> DEFINE Kinds == [kind : {"copy", "fill", "string", "pad", "compare"}, dst : All, src : All]
<1>1. /\ call.dst \in Nat /\ call.src \in Nat /\ call.num \in Nat /\ Size \in Nat
      /\ call.fn \in {"memcpy", "memmove", "memset", "memclr", "strncpy", "strncmp"} /\ Tmp = Size
  BY CallFields DEF IInv, Types
<1>2. call.dst \in Space /\ call.src \in Space
  BY DEF IInv, Types, Calls
<1>3. call.dst \in All /\ call.src \in All /\ Tmp \in All
  BY <1>1, <1>2 DEF All, Space
<1>4. /\ \A kind \in {"copy", "fill", "string", "pad", "compare"} : L(kind) \in Kinds
      /\ ToTmp \in Kinds /\ FromTmp \in Kinds
  BY <1>3 DEF L, ToTmp, FromTmp, Loop
<1>5. \/ loops = <<>> \/ loops = <<ToTmp, FromTmp>> \/ loops = <<FromTmp>>
      \/ \E kind \in {"copy", "fill", "string", "pad", "compare"} : loops = <<L(kind)>>
  BY <1>1 DEF IInv, CopyInv, MoveInv, FillInv, StringInv, CompareInv
<1> HIDE DEF Kinds
<1>6. loops \in Seq(Kinds)
  <2>1. CASE loops = <<>>
    BY <2>1
  <2>2. CASE loops = <<ToTmp, FromTmp>>
    BY <1>4, <2>2
  <2>3. CASE loops = <<FromTmp>>
    BY <1>4, <2>3
  <2>4. CASE \E kind \in {"copy", "fill", "string", "pad", "compare"} : loops = <<L(kind)>>
    BY <1>4, <2>4
  <2>5. QED
    BY <1>5, <2>1, <2>2, <2>3, <2>4
<1>7. QED
  BY <1>6 DEF TypeOK, IInv, Types, Kinds

-----------------------------------------------------------------------------
\* A call keeps to its loops and stays inside of memory, for any sizes of
\* memory and word (memcpy, memmove, memset, memclr, strncpy, strncmp in string.cpp).
THEOREM TypeCorrect == Spec => []TypeOK
BY InitInv, NextInv, InvTypeOK, PTL DEF Spec

\* Each function leaves in its destination what it should and changes nothing
\* else; memcpy so on ranges that overlap too, if the bytes move down, as they
\* do when FramebufferConsole::newline scrolls.
THEOREM WrittenHolds == Spec => []Written
BY InitInv, NextInv, InvWritten, PTL DEF Spec

\* memcpy reads every byte before it overwrites it, if the bytes move down.
THEOREM SourceAheadHolds == Spec => []SourceAhead
BY InitInv, NextInv, InvSourceAhead, PTL DEF Spec

\* The first bytes that differ decide C's order, if no NUL comes before them
LEMMA OrderOfFirst ==
  ASSUME NEW a, NEW b, NEW n \in Nat, NEW k \in 0 .. n - 1,
         \A l \in 0 .. n - 1 : mem[a + l] \in Int /\ mem[b + l] \in Int,
         \A j \in 0 .. k - 1 : mem[a + j] = mem[b + j], mem[a + k] # mem[b + k],
         Precedes(a, b, n)
  PROVE  mem[a + k] < mem[b + k]
<1>1. PICK l \in 0 .. n - 1 :
        mem[a + l] < mem[b + l] /\ \A j \in 0 .. l - 1 : mem[a + j] = mem[b + j] /\ mem[a + j] # 0
  BY DEF Precedes
<1>2. mem[a + l] # mem[b + l]
  <2>1. mem[a + l] \in Int /\ mem[b + l] \in Int
    OBVIOUS
  <2> QED  BY <1>1, <2>1
<1>3. ~(l < k)
  <2>1. l < k => l \in 0 .. k - 1
    OBVIOUS
  <2> QED  BY <1>2, <2>1
<1>4. ~(k < l)
  <2>1. k < l => k \in 0 .. l - 1
    OBVIOUS
  <2> QED  BY <1>1, <2>1
<1>5. l = k
  BY <1>3, <1>4
<1> QED  BY <1>1, <1>5

\* The same bytes are no two strings that C orders
LEMMA AlikeUnordered ==
  ASSUME NEW a, NEW b, NEW n \in Nat, \A l \in 0 .. n - 1 : mem[a + l] \in Int,
         \A l \in 0 .. n - 1 : mem[a + l] = mem[b + l]
  PROVE  ~Precedes(a, b, n)
<1> SUFFICES ASSUME NEW l \in 0 .. n - 1, mem[a + l] < mem[b + l] PROVE FALSE
  BY DEF Precedes
<1>1. mem[a + l] \in Int /\ mem[b + l] = mem[a + l]
  OBVIOUS
<1> QED  BY <1>1

\* strncmp answers with C's order wherever it tells two strings apart, and calls
\* two that are the same equal only if the bytes behind their NULs are the same
\* too, where C's strncmp does not look: for memories of any size and contents,
\* strings that overlap, and any n.
THEOREM StringsAreOrdered == Spec => []OrdersStrings
<1>1. IInv => OrdersStrings
  <2> SUFFICES ASSUME IInv, call.fn = "strncmp", loops = <<>>
               PROVE  /\ Precedes(call.dst, call.src, call.num) => result < 0
                      /\ Precedes(call.src, call.dst, call.num) => result > 0
                      /\ Same(call.dst, call.src, call.num) =>
                           (result = 0 <=> Alike(call.num))
    BY DEF OrdersStrings, Alike
  <2>1. Answered /\ call \in Calls /\ mem \in [All -> Byte]
    BY DEF IInv, CompareInv, Types
  <2>2. /\ call.dst \in Nat /\ call.src \in Nat /\ call.num \in Nat /\ Size \in Nat
        /\ call.dst + call.num <= Size /\ call.src + call.num <= Size
    BY <2>1, CallFields
  <2>3. ASSUME NEW k \in 0 .. call.num - 1
        PROVE  mem[call.dst + k] \in Int /\ mem[call.src + k] \in Int
    <3>1. call.dst + k \in All /\ call.src + k \in All
      BY <2>2 DEF All
    <3>2. mem[call.dst + k] \in Byte /\ mem[call.src + k] \in Byte
      BY <2>1, <3>1
    <3>3. \A x \in Byte : x \in Int
      BY DEF Byte
    <3> QED  BY <3>2, <3>3
  <2>4. CASE result = 0 /\ Alike(call.num)
    <3>1. ~Precedes(call.dst, call.src, call.num) /\ ~Precedes(call.src, call.dst, call.num)
      BY <2>2, <2>3, <2>4, AlikeUnordered DEF Alike
    <3> QED  BY <2>4, <3>1
  <2>5. CASE \E k \in 0 .. call.num - 1 :
               /\ Alike(k) /\ mem[call.dst + k] # mem[call.src + k]
               /\ result = mem[call.dst + k] - mem[call.src + k]
    <3>1. PICK k \in 0 .. call.num - 1 :
            /\ Alike(k) /\ mem[call.dst + k] # mem[call.src + k]
            /\ result = mem[call.dst + k] - mem[call.src + k]
      BY <2>5
    <3>2. mem[call.dst + k] \in Int /\ mem[call.src + k] \in Int
      BY <2>3
    <3>3. \A j \in 0 .. k - 1 : mem[call.dst + j] = mem[call.src + j]
      BY <3>1 DEF Alike
    <3>4. Precedes(call.dst, call.src, call.num) => mem[call.dst + k] < mem[call.src + k]
      BY <2>2, <2>3, <3>1, <3>3, OrderOfFirst
    <3>5. Precedes(call.src, call.dst, call.num) => mem[call.src + k] < mem[call.dst + k]
      BY <2>2, <2>3, <3>1, <3>3, OrderOfFirst
    <3>6. result # 0 /\ ~Alike(call.num)
      BY <3>1, <3>2 DEF Alike
    <3> QED  BY <3>1, <3>2, <3>4, <3>5, <3>6
  <2> QED  BY <2>1, <2>4, <2>5 DEF Answered
<1> QED  BY InitInv, NextInv, <1>1, PTL DEF Spec
=============================================================================
