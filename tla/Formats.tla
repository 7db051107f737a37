------------------------------ MODULE Formats ------------------------------
(***************************************************************************)
(* What Printf is compared with: formats by the directives they consist    *)
(* of, how each of these is spelled, and what C prints for it, by its      *)
(* standard.  A character of plain text is a directive of its own.         *)
(***************************************************************************)
EXTENDS Printf

CONSTANTS
  Directives,  \* [flags, width, precision, length, specifier, arg], see WellFormed
  Requests     \* the calls, by their sequences of directives

\* A width or precision, as it is spelled and as it is meant
Field(text, n) == [text |-> text, n |-> n]
Star(f)        == "*" \in {f.text[k] : k \in DOMAIN f.text}

Directive(f, w, p, l, s, a) ==
  [flags |-> f, width |-> w, precision |-> p, length |-> l, specifier |-> s, arg |-> a]

Plain(c) == Directive(<<>>, Field(<<>>, 0), Field(<<>>, -1), <<>>, "text", [n |-> 0, text |-> <<c>>])

Spelled(d) ==
  IF d.specifier = "text" THEN d.arg.text ELSE
  <<"%">> \o d.flags \o d.width.text \o d.precision.text \o d.length \o <<d.specifier>>

StarArgument(f) == IF Star(f) THEN <<[n |-> f.n, text |-> <<>>]>> ELSE <<>>

Arguments(d) ==
  IF d.specifier = "text" THEN <<>> ELSE
  StarArgument(d.width) \o StarArgument(d.precision) \o (IF d.specifier = "%" THEN <<>> ELSE <<d.arg>>)

-----------------------------------------------------------------------------
(* Which directives C gives a meaning, and the code the same one *)

\* The number that digits spell
Decimal(digits) ==
  LET value[k \in 0 .. Len(digits)] ==
        IF k = 0 THEN 0 ELSE 10 * value[k - 1] + DigitOf[digits[k]]
  IN  value[Len(digits)]

IsDecimal(digits, n) ==
  digits \in Seq(DigitChars) /\ digits # <<>> /\ n = Decimal(digits) /\ n < Values["int"]

Ints == -(Values["int"] \div 2) .. Values["int"] - 1 - Values["int"] \div 2

IsWidth(f) ==
  \/ f = Field(<<>>, 0)
  \/ f.text = <<"*">> /\ f.n \in Ints
  \/ IsDecimal(f.text, f.n) /\ f.text[1] # "0"

\* C takes a negative one from the arguments for none, the code for 0
IsPrecision(f) ==
  \/ f = Field(<<>>, -1) \/ f = Field(<<".">>, 0)
  \/ f.text = <<".", "*">> /\ f.n \in Ints \cap Nat
  \/ f.text \in Seq(STRING) \ {<<>>} /\ f.text[1] = "." /\ IsDecimal(Tail(f.text), f.n)

Lengths == {<<>>, <<"h", "h">>, <<"h">>, <<"l">>, <<"l", "l">>, <<"j">>, <<"z">>, <<"t">>}

WellFormed(d) ==
  /\ d.arg \in [n : Int, text : Seq(STRING)]
  /\ \/ d.specifier = "text" /\ Len(d.arg.text) = 1 /\ d.arg.text[1] \notin {"%", NUL}
     \/ /\ d.specifier \in DOMAIN Base \union {"c", "s", "p", "%"}
        /\ d.flags \in Seq(DOMAIN FlagOf) /\ d.length \in Lengths
        /\ IsWidth(d.width) /\ IsPrecision(d.precision)
        /\ d.specifier = "p" => d.flags = <<>> /\ d.width.n = 0 /\ d.precision.n < 0

ASSUME DirectivesAssumption == \A d \in Directives : WellFormed(d)

-----------------------------------------------------------------------------
(* What C prints *)

TypeOf(d) ==
  CASE d.length = <<"h", "h">> -> "char" [] d.length = <<"h">> -> "short"
    [] d.length = <<>> -> "int" [] OTHER -> "long"

Abs(n) == IF n < 0 THEN -n ELSE n

NumberOf(d) ==
  LET values == Values[TypeOf(d)]
      low    == d.arg.n % values
  IN  IF d.specifier \in {"d", "i"} /\ low >= values - values \div 2 THEN low - values ELSE low

\* base to the power of 0 .. B
Power(base) ==
  LET power[k \in 0 .. B] == IF k = 0 THEN 1 ELSE base * power[k - 1]
  IN  power

\* As many as it takes
CountOf(v, base) == CHOOSE n \in 1 .. B : v < Power(base)[n] /\ (n = 1 \/ v >= Power(base)[n - 1])

DigitsOf(v, base) ==
  LET n == CountOf(v, base)
  IN  [k \in 1 .. n |-> Numerals[((v \div Power(base)[n - k]) % base) + 1]]

UpperOf(c) ==
  IF \E d \in 11 .. 16 : c = Numerals[d] THEN Capitals[CHOOSE d \in 11 .. 16 : c = Numerals[d]]
  ELSE IF c = "x" THEN "X" ELSE c

Upper(text) == [k \in DOMAIN text |-> UpperOf(text[k])]

Has(d, flag) == \E k \in DOMAIN d.flags : d.flags[k] = flag
OnTheLeft(d) == Has(d, "-") \/ d.width.n < 0

Aligned(d, text) ==
  LET blanks == Fill(" ", Abs(d.width.n) - Len(text))
  IN  IF OnTheLeft(d) THEN text \o blanks ELSE blanks \o text

SignOf(d, v) ==
  IF v < 0 THEN <<"-">> ELSE IF Has(d, "+") THEN <<"+">> ELSE IF Has(d, " ") THEN <<" ">> ELSE <<>>

\* Octal has a 0 for its prefix where the precision gives it none
PrefixOf(d, zeros) ==
  IF d.specifier \in {"d", "i"} THEN SignOf(d, NumberOf(d))
  ELSE IF ~Has(d, "#") \/ NumberOf(d) = 0 THEN <<>>
  ELSE CASE Base[d.specifier] = 16 -> <<"0", "x">>
         [] Base[d.specifier] = 2  -> <<"0", "b">>
         [] Base[d.specifier] = 8 /\ zeros = <<>> -> <<"0">>
         [] OTHER -> <<>>

\* Sign or prefix, zeros, digits
NumberText(d) ==
  LET prec   == d.precision.n
      digits == IF NumberOf(d) = 0 /\ prec = 0 THEN <<>>
                ELSE DigitsOf(Abs(NumberOf(d)), Base[d.specifier])
      zeros  == Fill("0", prec - Len(digits))
      prefix == PrefixOf(d, zeros)
      number == prefix \o zeros \o digits
      wide   == prefix \o Fill("0", Abs(d.width.n) - Len(number)) \o digits
      text   == IF Has(d, "0") /\ prec < 0 /\ ~OnTheLeft(d) THEN wide ELSE Aligned(d, number)
  IN  IF d.specifier = "X" THEN Upper(text) ELSE text

PointerMeans(d) ==
  LET digits == Upper(DigitsOf(d.arg.n % Values["long"], 16))
  IN  Fill("0", Nibbles - Len(digits)) \o digits

Means(d) ==
  CASE d.specifier \in DOMAIN Base -> NumberText(d)
    [] d.specifier = "c" -> Aligned(d, d.arg.text)
    [] d.specifier = "s" ->
         Aligned(d, IF d.precision.n < 0 THEN d.arg.text
                    ELSE SubSeq(d.arg.text, 1, Min2(Len(d.arg.text), d.precision.n)))
    [] d.specifier = "p" -> PointerMeans(d)
    [] d.specifier = "%" -> <<"%">>
    [] d.specifier = "text" -> d.arg.text

-----------------------------------------------------------------------------
(* Calls *)

CallOf(sink, maxlen, directives) ==
  [sink |-> sink, maxlen |-> maxlen,
   format |-> FlattenSeq([k \in DOMAIN directives |-> Spelled(directives[k])]),
   args   |-> FlattenSeq([k \in DOMAIN directives |-> Arguments(directives[k])]),
   means  |-> FlattenSeq([k \in DOMAIN directives |-> Means(directives[k])])]

ASSUME RequestsAssumption ==
  /\ Requests \subseteq [sink : {"buffer", "fct", "null"}, maxlen : 0 .. SizeMax,
                         directives : Seq(Directives)]
  /\ Calls = {CallOf(r.sink, r.maxlen, r.directives) : r \in Requests}

-----------------------------------------------------------------------------
(* Where the code does what C does *)

\* Where its text is not C's: zeros of a precision are not put out to a number
\* on the left; a prefix takes the place of digits that are no padding, if the
\* width is that of the digits; octal has its 0 too often; a binary number that
\* is padded with zeros is one too long
Departs(d) ==
  LET n      == CountOf(Abs(NumberOf(d)), Base[d.specifier])
      w      == Abs(d.width.n)
      hash   == Has(d, "#") /\ Base[d.specifier] # 10 /\ NumberOf(d) # 0
      padded == Has(d, "0") /\ ~OnTheLeft(d)
  IN  \/ OnTheLeft(d) /\ d.precision.n > IF NumberOf(d) = 0 THEN 0 ELSE n
      \/ hash /\ d.precision.n < 0
           /\ \/ w = n
              \/ padded /\ Base[d.specifier] = 16 /\ w = n + 1
              \/ padded /\ Base[d.specifier] = 2 /\ w > n
      \/ hash /\ Base[d.specifier] = 8 /\ d.precision.n > n

\* A number with its zeros has its place in the buffer, and a prefix behind it
Short(d) ==
  /\ \E n \in 1 .. B - 2 : Abs(NumberOf(d)) < Power(Base[d.specifier])[n]
  /\ d.precision.n + 2 <= B
  /\ Has(d, "0") => Abs(d.width.n) <= B

\* Directives whose conversion has the room for it
AsInC(d) ==
  /\ d.specifier \in DOMAIN Base => Short(d) /\ ~Departs(d)
  /\ d.specifier = "p" =>
       Nibbles <= B /\ \E n \in 1 .. B - 2 : d.arg.n % Values["long"] < Power(16)[n]

\* A call's memory has its count, or all that the call prints, and a NUL behind it
FitsOrEnds(c) == c.sink = "buffer" => c.maxlen <= Room \/ Len(c.means) < Room
=============================================================================
