------------------------------ MODULE MCPrintf ------------------------------
(***************************************************************************)
(* Instances of Printf and of the formats it is asked for.                 *)
(***************************************************************************)
EXTENDS Formats

\* Types of 4, 6, 8 and 12 bits
MCValues == [t \in {"char", "short", "int", "long"} |->
               CASE t = "char" -> 16 [] t = "short" -> 64 [] t = "int" -> 256 [] t = "long" -> 4096]

Number(n) == [n |-> n, text |-> <<>>]
String1(text) == [n |-> 0, text |-> text]

\* Integer directives: with B = 14 the width takes all of the buffer where it is
\* filled with zeros, and so does the largest precision with a prefix
MCIntegers ==
  LET directives ==
        [flags : {SetToSeq(f) : f \in SUBSET {"0", "-", "+", " ", "#"}},
         width : {Field(<<>>, 0), Field(<<"3">>, 3), Field(<<"1", "4">>, 14), Field(<<"*">>, -4)},
         precision : {Field(<<>>, -1), Field(<<".">>, 0), Field(<<".", "3">>, 3), Field(<<".", "1", "2">>, 12)},
         length : {<<"h", "h">>, <<"h">>, <<>>, <<"l">>},
         specifier : {"d", "u", "x", "X", "o", "b"},
         arg : {Number(n) : n \in {0, 100, -1, -128, -2048}}]
  IN  {d \in directives : ~Departs(d)}

\* What the kernel prints with, and the other fields, several to a format
MCTexts ==
  LET none == Field(<<>>, 0)   all == Field(<<>>, -1)
      U(w, l, n) == Directive(IF w.n = 0 THEN <<>> ELSE <<"0">>, w, all, l, "x", Number(n))
      S(f, w, p, t) == Directive(f, w, p, <<>>, "s", String1(t))
      C(f, w, t) == Directive(f, w, all, <<>>, "c", String1(t))
      two == Field(<<"2">>, 2)  four == Field(<<"*">>, 4)
      I(n) == Directive(<<>>, two, all, <<>>, "u", Number(n))
  IN  {<<Plain("["), I(7), Plain(":"), I(30), Plain("]")>>,
       <<Plain("$"), U(four, <<"l">>, 171), Plain(" "), U(none, <<"z">>, 18)>>,
       <<S(<<>>, none, all, <<"a", "b", "c">>), Directive(<<>>, none, all, <<>>, "p", Number(1234))>>,
       <<S(<<"-">>, four, Field(<<".", "*">>, 2), <<"a", "b", "c">>), Plain(".")>>,
       <<S(<<>>, four, Field(<<".">>, 0), <<"a">>), C(<<>>, two, <<NUL>>), C(<<"-">>, two, <<"x">>)>>,
       <<Directive(<<>>, none, all, <<>>, "%", Number(0)), U(two, <<"j">>, 5), U(two, <<"t">>, 3000)>>}

MCDirectives == MCIntegers \union UNION {{f[k] : k \in DOMAIN f} : f \in MCTexts}

Request(s, m, f) == [sink |-> s, maxlen |-> m, directives |-> f]

\* Numbers do not tell the sinks and their sizes apart, texts do
MCRequests ==
  {Request("fct", SizeMax, <<d>>) : d \in MCIntegers} \union
  {Request(s, m, f) : s \in {"buffer", "fct", "null"}, m \in {0, 1, 2, 5, 9, SizeMax}, f \in MCTexts}

MCCalls == {CallOf(r.sink, r.maxlen, r.directives) : r \in MCRequests}

ASSUME EveryDirective == \A d \in Directives : AsInC(d)
ASSUME EveryCall == \A c \in Calls : FitsOrEnds(c)
=============================================================================
