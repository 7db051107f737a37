------------------------------- MODULE Printf -------------------------------
(***************************************************************************)
(* _vsnprintf (printf.cpp), all but its floating point conversions, which  *)
(* the kernel, compiled without SSE, cannot pass an argument to: a step is *)
(* a character of text or a field of a directive, in the order             *)
(* %[flags][width][.precision][length]specifier.                           *)
(*                                                                         *)
(* A format is a sequence of characters, an argument a number n (the low   *)
(* bits of the register it comes in) or a text, a string's or one          *)
(* character's.                                                            *)
(*                                                                         *)
(* Names differ from those of Panic, whose message goes through here: the  *)
(* proofs about a report are about both.                                   *)
(***************************************************************************)
EXTENDS Integers, Sequences, SequencesExt

CONSTANTS
  Values,   \* how many "char", "short", "int" and "long" each can hold
  Nibbles,  \* sizeof(void*) * 2
  B,        \* PRINTF_NTOA_BUFFER_SIZE
  SizeMax,  \* (size_t)-1
  Room,     \* how much of the memory at buffer is the caller's: 0 .. Room - 1
  Extent,   \* how much of it is looked at, from buffer on: 0 .. Extent - 1
  Calls     \* [sink, maxlen, format, args], and in "means" what C prints

NUL == ""
Old == "?"      \* what was in memory

ASSUME ValuesAssumption ==
  /\ Values \in [{"char", "short", "int", "long"} -> Nat \ {0}] /\ Nibbles \in Nat
  /\ Values["char"] <= Values["short"] /\ Values["short"] <= Values["int"] /\ Values["int"] <= Values["long"]
ASSUME SizesAssumption ==
  B \in Nat \ {0} /\ SizeMax \in Nat /\ Room \in Nat /\ Extent \in Nat /\ Room <= Extent
ASSUME CallsAssumption ==
  Calls \subseteq [sink : {"buffer", "fct", "null"}, maxlen : 0 .. SizeMax,
                  format : Seq(STRING \ {NUL}),
                  args : Seq([n : Int, text : Seq(STRING)]), means : Seq(STRING)]

VARIABLES
  call,       \* the sink ("buffer", "fct" or "null"), maxlen, format, args
  at,         \* the character of the format that is next
  phase,      \* what it is looked at for
  flags, width, precision,
  arg,        \* the argument that va_arg gives next
  idx,        \* how many characters came out
  buffer,     \* the memory at buffer, the caller's and what lies behind it
  given       \* the characters that fct was called with

printf == <<call, at, phase, flags, width, precision, arg, idx, buffer, given>>
fields == <<flags, width, precision>>

PrintfInit ==
  /\ call \in Calls
  /\ at = 1 /\ phase = "text" /\ arg = 1 /\ idx = 0
  /\ flags = {} /\ width = 0 /\ precision = 0
  /\ buffer = [k \in 0 .. Extent - 1 |-> Old] /\ given = <<>>

Min2(m, n) == IF m < n THEN m ELSE n
Char(p)    == IF p <= Len(call.format) THEN call.format[p] ELSE NUL
Va_arg     == call.args[arg]

-----------------------------------------------------------------------------
(* The sinks *)

\* Mutant of _out_buffer: wherever idx has come to
_out_bufferUntested(text) ==
  [k \in DOMAIN buffer |-> IF k \in idx .. idx + Len(text) - 1 THEN text[k - idx + 1] ELSE buffer[k]]

_out_buffer(text) ==
  [k \in DOMAIN buffer |-> IF k \in idx .. idx + Len(text) - 1 /\ k < call.maxlen
                             THEN text[k - idx + 1] ELSE buffer[k]]

\* A text without its NULs
WithoutNul(text) == FlattenSeq([k \in DOMAIN text |-> IF text[k] = NUL THEN <<>> ELSE <<text[k]>>])

\* Mutant of _out_fct: a NUL is a character like any other
_out_fctNul(text) == given \o text

_out_fct(text) == given \o WithoutNul(text)

\* A text goes out, character by character
Out(text) ==
  /\ idx' = idx + Len(text)
  /\ buffer' = IF call.sink = "buffer" THEN _out_buffer(text) ELSE buffer
  /\ given' = IF call.sink = "fct" THEN _out_fct(text) ELSE given

-----------------------------------------------------------------------------
(* The fields of a directive *)

Numerals == <<"0", "1", "2", "3", "4", "5", "6", "7", "8", "9", "a", "b", "c", "d", "e", "f">>
Capitals == SubSeq(Numerals, 1, 10) \o <<"A", "B", "C", "D", "E", "F">>
DigitChars == {Numerals[d] : d \in 1 .. 10}

FlagOf ==
  [c \in {"0", "-", "+", " ", "#"} |->
     CASE c = "0" -> "ZEROPAD" [] c = "-" -> "LEFT" [] c = "+" -> "PLUS"
       [] c = " " -> "SPACE"   [] c = "#" -> "HASH"]

\* The digits from p on
_is_digits(p) ==
  LET ends == {q \in p .. Len(call.format) + 1 : Char(q) \notin DigitChars}
  IN  SubSeq(call.format, p, (CHOOSE q \in ends : \A r \in ends : q <= r) - 1)

DigitOf == [c \in DigitChars |-> CHOOSE d \in 0 .. 9 : Numerals[d + 1] = c]

_atoi(digits) ==
  LET value[k \in 0 .. Len(digits)] ==
        IF k = 0 THEN 0 ELSE (10 * value[k - 1] + DigitOf[digits[k]]) % Values["int"]
  IN  value[Len(digits)]

\* A register's low bits, as a signed number of so many values
Signed(v, values) == ((v + values \div 2) % values) - values \div 2

\* What va_arg gives behind the last argument is open: no such call is made
Passed(n) == arg + n <= Len(call.args) + 1

At(p, c) == phase = p /\ Char(at) = c

Text ==
  /\ phase = "text" /\ Char(at) \notin {"%", NUL}
  /\ Out(<<Char(at)>>) /\ at' = at + 1
  /\ UNCHANGED <<call, phase, fields, arg>>

Percent ==
  /\ At("text", "%") /\ at' = at + 1 /\ phase' = "flags"
  /\ flags' = {} /\ width' = 0 /\ precision' = 0
  /\ UNCHANGED <<call, arg, idx, buffer, given>>

Flag ==
  /\ phase = "flags"
  /\ IF Char(at) \in DOMAIN FlagOf
       THEN flags' = flags \union {FlagOf[Char(at)]} /\ at' = at + 1 /\ UNCHANGED phase
       ELSE phase' = "width" /\ UNCHANGED <<flags, at>>
  /\ UNCHANGED <<call, width, precision, arg, idx, buffer, given>>

Width ==
  /\ phase = "width" /\ Char(at) # "*"
  /\ width' = _atoi(_is_digits(at)) /\ at' = at + Len(_is_digits(at))
  /\ phase' = "precision"
  /\ UNCHANGED <<call, flags, precision, arg, idx, buffer, given>>

\* A negative width pads on the right
WidthStar ==
  LET w == Signed(Va_arg.n, Values["int"])
  IN  /\ At("width", "*") /\ Passed(1)
      /\ width' = IF w < 0 THEN -w ELSE w
      /\ flags' = IF w < 0 THEN flags \union {"LEFT"} ELSE flags
      /\ at' = at + 1 /\ arg' = arg + 1 /\ phase' = "precision"
      /\ UNCHANGED <<call, precision, idx, buffer, given>>

NoPrecision ==
  /\ phase = "precision" /\ Char(at) # "."
  /\ phase' = "length"
  /\ UNCHANGED <<call, at, fields, arg, idx, buffer, given>>

Precision ==
  /\ At("precision", ".") /\ Char(at + 1) # "*"
  /\ precision' = _atoi(_is_digits(at + 1)) /\ at' = at + 1 + Len(_is_digits(at + 1))
  /\ flags' = flags \union {"PRECISION"} /\ phase' = "length"
  /\ UNCHANGED <<call, width, arg, idx, buffer, given>>

PrecisionStar ==
  LET p == Signed(Va_arg.n, Values["int"])
  IN  /\ At("precision", ".") /\ Char(at + 1) = "*" /\ Passed(1)
      /\ precision' = IF p > 0 THEN p ELSE 0
      /\ flags' = flags \union {"PRECISION"} /\ phase' = "length"
      /\ at' = at + 2 /\ arg' = arg + 1
      /\ UNCHANGED <<call, width, idx, buffer, given>>

\* l, ll, h, hh, t, j, z; long long, ptrdiff_t, intmax_t and size_t are as wide as long
Length ==
  LET double == IF Char(at + 1) = Char(at) THEN 2 ELSE 1
  IN  /\ phase = "length" /\ phase' = "specifier"
      /\ \/ /\ Char(at) = "l"
            /\ flags' = flags \union {"LONG"} /\ at' = at + double
         \/ /\ Char(at) = "h"
            /\ flags' = flags \union (IF double = 2 THEN {"SHORT", "CHAR"} ELSE {"SHORT"})
            /\ at' = at + double
         \/ /\ Char(at) \in {"t", "j", "z"}
            /\ flags' = flags \union {"LONG"} /\ at' = at + 1
         \/ /\ Char(at) \notin {"l", "h", "t", "j", "z"}
            /\ UNCHANGED <<flags, at>>
      /\ UNCHANGED <<call, width, precision, arg, idx, buffer, given>>

-----------------------------------------------------------------------------
(* The conversion of an integer, in a buffer of B characters, last one first *)

\* Mutant of Cut: the last place stays free
CutOneEarly(buf) == SubSeq(buf, 1, Min2(Len(buf), B - 1))

Cut(buf)       == SubSeq(buf, 1, Min2(Len(buf), B))
Fill(c, n)     == [k \in 1 .. n |-> c]
Pad(buf, c, n) == buf \o Fill(c, n - Len(buf))

Justify(text, f, w) ==
  IF "LEFT" \in f THEN Pad(text, " ", w) ELSE Fill(" ", w - Len(text)) \o text

_out_rev(buf, f, w) ==
  IF "ZEROPAD" \in f /\ "LEFT" \notin f THEN Reverse(buf) ELSE Justify(Reverse(buf), f, w)

\* Mutant of _ntoa_format: zeros up to the width, and then the sign
_ntoa_formatSign(buf, negative, base, prec, w, f) ==
  LET zeros == Pad(buf, "0", IF "ZEROPAD" \in f THEN w ELSE prec)
  IN  _out_rev(IF negative THEN Append(zeros, "-") ELSE zeros, f, w)

_ntoa_format(buf, negative, base, prec, w, f) ==
  LET left   == "LEFT" \in f
      signs  == (IF negative THEN <<"-">> ELSE <<>>) \o (IF "PLUS" \in f THEN <<"+">> ELSE <<>>)
                  \o (IF "SPACE" \in f THEN <<" ">> ELSE <<>>)
      sign   == SubSeq(signs, 1, Min2(Len(signs), 1))
      for    == IF ~left /\ w > 0 /\ "ZEROPAD" \in f /\ sign # <<>> THEN w - 1 ELSE w
      zeros  == IF left THEN buf
                ELSE Pad(Pad(buf, "0", Min2(prec, B)), "0", IF "ZEROPAD" \in f THEN Min2(for, B) ELSE 0)
      drop   == IF "PRECISION" \notin f /\ Len(zeros) \in {prec, for}
                  THEN Min2(Len(zeros), IF base = 16 THEN 2 ELSE 1) ELSE 0
      letter == CASE base = 16 -> <<IF "UPPERCASE" \in f THEN "X" ELSE "x">>
                  [] base = 2  -> <<"b">>
                  [] OTHER     -> <<>>
      hashed == IF "HASH" \in f THEN Cut(SubSeq(zeros, 1, Len(zeros) - drop) \o letter \o <<"0">>)
                ELSE zeros
  IN  _out_rev(Cut(hashed \o sign), f, for)

\* The digits of a value, last one first: one at least, until nothing is left
\* or the buffer is full
Digits(value, base, f) ==
  LET digit(d) == (IF "UPPERCASE" \in f THEN Capitals ELSE Numerals)[d + 1]
      left[k \in 0 .. B] == IF k = 0 THEN value ELSE left[k - 1] \div base
      ends == {k \in 1 .. B : left[k] = 0 \/ k = B}
  IN  [k \in 1 .. CHOOSE k \in ends : \A l \in ends : k <= l |-> digit(left[k - 1] % base)]

\* _ntoa_long, and _ntoa_long_long: the same for a wider type
_ntoa(value, negative, base, prec, w, f) ==
  LET buf == IF "PRECISION" \notin f \/ value # 0 THEN Digits(value, base, f) ELSE <<>>
  IN  _ntoa_format(buf, negative, base, prec, w, IF value = 0 THEN f \ {"HASH"} ELSE f)

-----------------------------------------------------------------------------
(* The specifiers *)

Base == [c \in {"d", "i", "u", "x", "X", "o", "b"} |->
           CASE c \in {"x", "X"} -> 16 [] c = "o" -> 8 [] c = "b" -> 2 [] OTHER -> 10]

TypeValues(f) ==
  Values[IF "LONG" \in f THEN "long"
         ELSE IF "CHAR" \in f THEN "char"
         ELSE IF "SHORT" \in f THEN "short" ELSE "int"]

\* The flags that are left for specifier c
IntegerFlags(c, f) ==
  (f \union (IF c = "X" THEN {"UPPERCASE"} ELSE {}))
    \ ((IF Base[c] = 10 THEN {"HASH"} ELSE {})
         \union (IF c \in {"d", "i"} THEN {} ELSE {"PLUS", "SPACE"})
         \union (IF "PRECISION" \in f THEN {"ZEROPAD"} ELSE {}))

\* 0 - value of the smallest value wraps to it, whose unsigned is its absolute value
IntegerText(c, n, f, w, prec) ==
  LET value == IF c \in {"d", "i"} THEN Signed(n, TypeValues(f)) ELSE n % TypeValues(f)
  IN  _ntoa(IF value < 0 THEN -value ELSE value, value < 0, Base[c], prec, w, IntegerFlags(c, f))

PointerText(n, f, prec) ==
  _ntoa(n % Values["long"], FALSE, 16, prec, Nibbles, f \union {"ZEROPAD", "UPPERCASE"})

StringText(text, f, w, prec) ==
  LET n == IF "PRECISION" \in f THEN Min2(Len(text), prec) ELSE Len(text)
  IN  Justify(SubSeq(text, 1, n), f, w)

\* The directive has put out a text, taking n arguments
Converted(text, n) ==
  /\ Passed(n)
  /\ Out(text) /\ at' = at + 1 /\ arg' = arg + n /\ phase' = "text"
  /\ UNCHANGED <<call, fields>>

Integer ==
  /\ phase = "specifier" /\ Char(at) \in DOMAIN Base
  /\ Converted(IntegerText(Char(at), Va_arg.n, flags, width, precision), 1)

Character == At("specifier", "c") /\ Converted(Justify(Va_arg.text, flags, width), 1)

String == At("specifier", "s") /\ Converted(StringText(Va_arg.text, flags, width, precision), 1)

Pointer == At("specifier", "p") /\ Converted(PointerText(Va_arg.n, flags, precision), 1)

\* %% and what is no specifier
Other ==
  /\ phase = "specifier" /\ Char(at) \notin DOMAIN Base \union {"c", "s", "p", NUL}
  /\ Converted(<<Char(at)>>, 0)

\* Mutant of Terminate: at the end of the text, wherever that is
TerminateBehind ==
  /\ At("text", NUL) /\ phase' = "return"
  /\ buffer' = IF call.sink = "buffer" /\ idx < call.maxlen THEN [buffer EXCEPT ![idx] = NUL] ELSE buffer
  /\ UNCHANGED <<call, at, fields, arg, idx, given>>

\* The NUL goes into the last place at the latest; maxlen - 1 wraps for 0
Terminate ==
  LET last == IF idx < call.maxlen THEN idx ELSE (call.maxlen - 1) % (SizeMax + 1)
  IN  /\ At("text", NUL) /\ phase' = "return"
      /\ buffer' = IF call.sink = "buffer" /\ last < call.maxlen
                     THEN [buffer EXCEPT ![last] = NUL] ELSE buffer
      /\ UNCHANGED <<call, at, fields, arg, idx, given>>

PrintfNext ==
  \/ Text \/ Percent \/ Flag \/ Width \/ WidthStar \/ NoPrecision \/ Precision \/ PrecisionStar
  \/ Length \/ Integer \/ Character \/ String \/ Pointer \/ Other \/ Terminate

PrintfSpec == PrintfInit /\ [][PrintfNext]_printf

-----------------------------------------------------------------------------
(* Properties *)

\* What a call was not given the memory for, or has no character for, it leaves
\* alone: all at or behind maxlen, whatever lies behind the caller's memory (of
\* which sprintf, whose maxlen is the largest, is told nothing), and all behind
\* the NUL that follows the last character. At the return what was stored ends
\* in a NUL: it takes every step with idx running on (snprintf).
Bounded ==
  call.sink = "buffer" =>
    /\ \A k \in DOMAIN buffer : k >= call.maxlen \/ k >= Room \/ k > idx => buffer[k] = Old
    /\ phase = "return" /\ call.maxlen > 0 => buffer[Min2(idx, call.maxlen - 1)] = NUL

\* What comes out is what C's printf prints for the format and its arguments,
\* however little of it fits; the returned length is that of all of it, for
\* every sink. fct is not called with a NUL.
Prints ==
  phase = "return" =>
    /\ idx = Len(call.means)
    /\ call.sink = "buffer" =>
         \A k \in 0 .. Min2(idx, call.maxlen - 1) - 1 : buffer[k] = call.means[k + 1]
    /\ call.sink = "fct" => given = WithoutNul(call.means)
=============================================================================
