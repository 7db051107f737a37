--------------------------- MODULE Console_proofs ---------------------------
(***************************************************************************)
(* Proofs about Console: the cursor stays on the screen, for every size of *)
(* screen and every text that sends it to no place outside, and what is    *)
(* written reaches the screen as the abstract terminal says; about         *)
(* Framebuffer: the pixels show the screen, and nothing outside of it is   *)
(* painted; about PanicConsole: a call's stores add up to Console's step,  *)
(* and panic's report can be read.                                         *)
(*                                                                         *)
(* What the parsers compute from a sequence is mostly left open: the       *)
(* proofs hold whatever it is.  Only TypeOK looks inside, at the colours.  *)
(***************************************************************************)
EXTENDS Framebuffer, PanicConsole, SequenceLemmas, FiniteSetTheorems, TLAPS

\* Both are inductive; the refinement rests on the two together.
Inv == CursorOnScreen /\ ColorsUpToDate

USE DEF Rows, Columns, Positions

LEMMA InitInv == Init => Inv
BY ScreenAssumption DEF Init, Inv, CursorOnScreen, ColorsUpToDate

-----------------------------------------------------------------------------
(* newline and print, from a cursor on the screen *)

LEMMA NewlineOnScreen ==
  ASSUME CursorOnScreen, NEW text, newline(text)
  PROVE  CursorOnScreen'
BY ScreenAssumption DEF CursorOnScreen, newline, AtBottom

LEMMA PrintOnScreen ==
  ASSUME CursorOnScreen, NEW ch, print(ch)
  PROVE  CursorOnScreen'
<1>1. CASE ch = LF
  BY <1>1, NewlineOnScreen DEF print
<1>2. CASE ch # LF /\ AtRight
  BY <1>2, NewlineOnScreen DEF print
<1>3. CASE ch # LF /\ ~AtRight
  BY <1>3, ScreenAssumption DEF print, AtRight, CursorOnScreen
<1> QED BY <1>1, <1>2, <1>3

LEMMA StepInv == Inv /\ [Next]_vars => Inv'
<1> SUFFICES ASSUME Inv, [Next]_vars PROVE Inv'
  OBVIOUS
<1> USE DEF Inv
<1>1. ASSUME NEW ch \in Chars, WriteIdle(ch) PROVE Inv'
  <2>1. CursorOnScreen'
    BY <1>1, PrintOnScreen DEF WriteIdle, CursorOnScreen
  <2> QED BY <1>1, <2>1 DEF WriteIdle, ColorsUpToDate
<1>2. ASSUME NEW ch \in Chars, WriteEscape(ch) PROVE Inv'
  BY <1>2 DEF WriteEscape, CursorOnScreen, ColorsUpToDate
<1>3. ASSUME NEW ch \in Chars, Sent(ch), WriteCSI(ch) PROVE Inv'
  <2> DEFINE buf == Append(ansiBuf, ch)
  <2>1. CASE ~IsFinal(ch)
    BY <1>3, <2>1 DEF WriteCSI, CursorOnScreen, ColorsUpToDate
  <2>2. CASE IsFinal(ch)
    <3>1. processAnsi(buf)
      BY <1>3, <2>2 DEF WriteCSI
    <3>2. CASE Last(buf) = 109
      BY <3>1, <3>2 DEF processAnsi, processAnsiSgr, CursorOnScreen, ColorsUpToDate
    <3>3. CASE Last(buf) = 72
      <4>1. StaysOnScreen(buf)
        BY <1>3, <2>2 DEF WriteCSI, Sent
      <4>2. Last(buf) # 109
        BY <3>3
      <4>3. Cup(buf) \in Positions
        BY <3>3, <4>1 DEF StaysOnScreen
      <4> QED  BY <3>1, <3>3, <4>2, <4>3 DEF processAnsi, processAnsiCup, CursorOnScreen, ColorsUpToDate
    <3>4. CASE Last(buf) # 109 /\ Last(buf) # 72
      BY <3>1, <3>4 DEF processAnsi, CursorOnScreen, ColorsUpToDate
    <3> QED BY <3>2, <3>3, <3>4
  <2> QED BY <2>1, <2>2
<1>4. CASE clear
  BY <1>4 DEF clear, CursorOnScreen, ColorsUpToDate
<1>5. CASE UNCHANGED vars
  BY <1>5 DEF vars, CursorOnScreen, ColorsUpToDate
<1> QED BY <1>1, <1>2, <1>3, <1>4, <1>5 DEF Next, write

LEMMA InvHolds == Spec => []Inv
BY InitInv, StepInv, PTL DEF Spec

\* The cursor never leaves the screen, whatever its size and the scroll amount,
\* as long as the text sends it to no place outside: print, newline and the
\* scroll keep it there (FramebufferConsole::print and ::newline).
THEOREM CursorStaysOnScreen == Spec => []CursorOnScreen
<1>1. Inv => CursorOnScreen
  BY DEF Inv
<1> QED BY <1>1, InvHolds, PTL

\* What the text is that sends the cursor anywhere: only its numbers fit
SentAnywhere(ch) ==
  writeState = "AnsiReadingCSI" /\ IsFinal(ch) => NumbersFit(Append(ansiBuf, ch))

Anywhere == Init /\ [][(\E ch \in Chars : SentAnywhere(ch) /\ write(ch)) \/ clear]_vars

\* The end of a CUP, which stores the row and the column it read and nothing else
SentOff ==
  /\ writeState = "AnsiReadingCSI" /\ writeState' = "Idle"
  /\ \E ch \in Chars : Last(Append(ansiBuf, ch)) = 72 /\ cursor' = Cup(Append(ansiBuf, ch))
  /\ UNCHANGED <<screen, colorIndices, colors>>

\* Wherever the text sends the cursor, it leaves the screen by a CUP alone: no
\* character drawn, no newline, no scroll, no other sequence and no clear takes
\* a cursor that is on the screen off it (FramebufferConsole::write).
THEOREM OnlyCupLeavesScreen ==
  Anywhere => [][CursorOnScreen => CursorOnScreen' \/ SentOff]_vars
<1> DEFINE StepAnywhere == (\E ch \in Chars : SentAnywhere(ch) /\ write(ch)) \/ clear
<1>1. ASSUME [StepAnywhere]_vars, CursorOnScreen PROVE CursorOnScreen' \/ SentOff
  <2>1. ASSUME NEW ch \in Chars, WriteIdle(ch) PROVE CursorOnScreen'
    BY <1>1, <2>1, PrintOnScreen DEF WriteIdle, CursorOnScreen
  <2>2. ASSUME NEW ch \in Chars, WriteEscape(ch) PROVE CursorOnScreen'
    BY <1>1, <2>2 DEF WriteEscape, CursorOnScreen
  <2>3. ASSUME NEW ch \in Chars, WriteCSI(ch) PROVE CursorOnScreen' \/ SentOff
    <3> DEFINE buf == Append(ansiBuf, ch)
    <3>1. screen' = screen
      BY <2>3 DEF WriteCSI
    <3>2. CASE ~IsFinal(ch)
      BY <1>1, <2>3, <3>2 DEF WriteCSI, CursorOnScreen
    <3>3. CASE IsFinal(ch)
      <4>1. processAnsi(buf) /\ writeState = "AnsiReadingCSI" /\ writeState' = "Idle"
        BY <2>3, <3>3 DEF WriteCSI
      <4>2. CASE Last(buf) = 72
        <5>1. cursor' = Cup(buf) /\ UNCHANGED <<colorIndices, colors>>
          BY <4>1, <4>2 DEF processAnsi, processAnsiCup
        <5> QED  BY <3>1, <4>1, <4>2, <5>1 DEF SentOff
      <4>3. CASE Last(buf) # 72
        <5>1. cursor' = cursor
          BY <4>1, <4>3 DEF processAnsi, processAnsiSgr
        <5> QED  BY <1>1, <5>1 DEF CursorOnScreen
      <4> QED  BY <4>2, <4>3
    <3> QED  BY <3>2, <3>3
  <2>4. ASSUME clear \/ UNCHANGED vars PROVE CursorOnScreen'
    BY <1>1, <2>4 DEF clear, vars, CursorOnScreen
  <2> QED  BY <1>1, <2>1, <2>2, <2>3, <2>4 DEF write
<1>2. [StepAnywhere]_vars => [CursorOnScreen => CursorOnScreen' \/ SentOff]_vars
  BY <1>1
<1> QED  BY <1>2, PTL DEF Anywhere

\* Whatever sequences come, the colours characters are drawn in are those of
\* the indices set last (FramebufferConsole::updateColors).
THEOREM ColorsFollowIndices == Spec => []ColorsUpToDate
<1>1. Inv => ColorsUpToDate
  BY DEF Inv
<1> QED BY <1>1, InvHolds, PTL

-----------------------------------------------------------------------------
(* Room in ansiBuf *)

\* AnsiBufFits is inductive with the type of ansiBuf.
BufInv == ansiBuf \in Seq(Chars) /\ AnsiBufFits

LEMMA BufStep == BufInv /\ [Next]_vars => BufInv'
<1> SUFFICES ASSUME BufInv, [Next]_vars PROVE BufInv'
  OBVIOUS
<1> USE BufferAssumption DEF BufInv, AnsiBufFits
<1>1. ASSUME NEW ch \in Chars, WriteIdle(ch) PROVE BufInv'
  <2>1. ansiBuf' = ansiBuf /\ writeState' \in {"Idle", "AnsiEscapeStart"}
    BY <1>1 DEF WriteIdle
  <2> QED BY <2>1
<1>2. ASSUME NEW ch \in Chars, WriteEscape(ch) PROVE BufInv'
  BY <1>2 DEF WriteEscape
<1>3. ASSUME NEW ch \in Chars, WriteCSI(ch) PROVE BufInv'
  <2> DEFINE buf == Append(ansiBuf, ch)
  <2>1. buf \in Seq(Chars) /\ Len(buf) = Len(ansiBuf) + 1
    OBVIOUS
  <2>2. CASE IsFinal(ch) \/ Len(buf) = AnsiBufSize
    BY <1>3, <2>2 DEF WriteCSI
  <2>3. CASE ~(IsFinal(ch) \/ Len(buf) = AnsiBufSize)
    <3>1. ansiBuf' = buf /\ writeState = "AnsiReadingCSI"
      BY <1>3, <2>3 DEF WriteCSI
    <3>2. Len(buf) < AnsiBufSize
      BY <2>1, <2>3, <3>1
    <3> QED BY <2>1, <3>1, <3>2
  <2> QED BY <2>2, <2>3
<1>4. CASE clear
  BY <1>4 DEF clear
<1>5. CASE UNCHANGED vars
  BY <1>5 DEF vars
<1> QED BY <1>1, <1>2, <1>3, <1>4, <1>5 DEF Next, write

\* No sequence, however long, is stored past the end of ansiBuf
\* (FramebufferConsole::write, the case AnsiReadingCSI).
THEOREM AnsiBufHolds == Spec => []AnsiBufFits
<1>1. Init => BufInv
  BY BufferAssumption DEF Init, BufInv, AnsiBufFits
<1>2. BufInv => AnsiBufFits
  BY DEF BufInv
<1> QED BY <1>1, <1>2, BufStep, PTL DEF Spec
-----------------------------------------------------------------------------
(* What the parser for SGR computes *)

LEMMA SgrType == ASSUME NEW ink \in Colors, NEW str PROVE Sgr(ink, str) \in Colors
<1> DEFINE cmd == StrToInt(str)
<1>1. ink.fg \in Color /\ ink.bg \in Color /\ 15 \in Color /\ 0 \in Color
  BY DEF Colors, Color
<1>2. /\ cmd \in 30 .. 37 => cmd - 30 \in Color
      /\ cmd \in 40 .. 47 => cmd - 40 \in Color
      /\ cmd \in 90 .. 97 => cmd - 82 \in Color
      /\ cmd \in 100 .. 107 => cmd - 92 \in Color
  BY DEF Color
<1> HIDE DEF cmd
<1>3. DefaultInk \in Colors
  BY <1>1 DEF DefaultInk, Colors
<1> USE DEF cmd
<1> QED  BY <1>1, <1>2, <1>3 DEF Sgr, Colors

\* The recursion Inked is defined by
IsInks(f, ink, numbers) ==
  f = [i \in 0 .. Len(numbers) |-> IF i = 0 THEN ink ELSE Sgr(f[i - 1], numbers[i])]

\* However many numbers a sequence has, and whatever they are, the colours stay
\* colours of the palette.
LEMMA InkedType ==
  ASSUME NEW ink \in Colors, NEW numbers, Len(numbers) \in Nat
  PROVE  Inked(ink, numbers) \in Colors
<1> DEFINE n == Len(numbers)
           step == [i \in 1 .. n |-> [c \in Colors |-> Sgr(c, numbers[i])]]
           inks == CHOOSE f : IsInks(f, ink, numbers)
<1>1. step \in Steps(n, Colors)
  BY SgrType DEF Steps
<1>2. PICK g : IsFold(g, n, Colors, ink, step)
  <2> HIDE DEF step, n
  <2> QED  BY <1>1, Recursion DEF n
<1>3. g \in [0 .. n -> Colors] /\ g[0] = ink /\ \A i \in 1 .. n : g[i] = step[i][g[i - 1]]
  BY <1>2 DEF IsFold
<1>4. \A i \in 1 .. n : g[i] = Sgr(g[i - 1], numbers[i])
  <2> TAKE i \in 1 .. n
  <2>1. i - 1 \in 0 .. n
    OBVIOUS
  <2>2. g[i - 1] \in Colors
    BY <1>3, <2>1
  <2> QED  BY <1>3, <2>2
<1>5. IsInks(g, ink, numbers)
  <2> HIDE DEF step
  <2> QED  BY <1>3, <1>4 DEF IsInks
<1>6. IsInks(inks, ink, numbers)
  BY <1>5
<1>7. Inked(ink, numbers) = inks[n]
  BY Zenon DEF Inked, IsInks
<1> HIDE DEF inks
<1>8. /\ inks[0] = ink
      /\ \A i \in 1 .. n : inks[i] = Sgr(inks[i - 1], numbers[i])
  BY <1>6 DEF IsInks
<1> DEFINE T == {i \in 0 .. n : inks[i] \in Colors}
<1>9. 0 \in T
  BY <1>8
<1>10. ASSUME NEW i \in 0 .. n, i # n, i \in T PROVE i + 1 \in T
  <2>1. i + 1 \in 1 .. n /\ (i + 1) - 1 = i /\ i + 1 \in 0 .. n
    BY <1>10
  <2>2. inks[i + 1] = Sgr(inks[i], numbers[i + 1])
    BY <1>8, <2>1
  <2>3. inks[i + 1] \in Colors
    BY <1>10, <2>2, SgrType
  <2> QED  BY <2>1, <2>3
<1>11. \A i \in 0 .. n : i \in T
  <2> HIDE DEF T, n
  <2> QED  BY <1>9, <1>10, Induction DEF n
<1>12. n \in 0 .. n
  OBVIOUS
<1>13. inks[n] \in Colors
  BY <1>11, <1>12
<1> QED  BY <1>7, <1>13

\* A bounded set of numbers has a largest one.
LEMMA MaxType ==
  ASSUME NEW N \in Nat, NEW T \in SUBSET (0 .. N), T # {}
  PROVE  Max(T) \in T
<1> DEFINE D == {m \in Nat : \E n \in T : n + m = N}
<1>1. D \in SUBSET Nat /\ D # {}
  <2>1. PICK n \in T : TRUE
    OBVIOUS
  <2>2. N - n \in D
    OBVIOUS
  <2> QED  BY <2>2
<1>2. PICK m \in D : \A k \in D : m <= k
  <2> HIDE DEF D
  <2> QED  BY <1>1, Least
<1>3. PICK x \in T : x + m = N
  OBVIOUS
<1>4. ASSUME NEW y \in T PROVE x >= y
  <2>1. N - y \in D
    OBVIOUS
  <2> QED  BY <1>2, <1>3, <2>1
<1> QED  BY <1>4 DEF Max

LEMMA TextType == ASSUME NEW S, NEW buf \in Seq(S) \ {<<>>} PROVE Text(buf) \in Seq(S)
<1> DEFINE s == Front(buf)
           T == {n \in 0 .. Len(s) : \A i \in 1 .. n : s[i] # 0}
<1>1. s \in Seq(S)
  BY DEF Front
<1>2. Text(buf) = SubSeq(s, 1, Max(T))
  BY Zenon DEF Text, While
<1> HIDE DEF s
<1>3. 0 \in T
  BY <1>1
<1>4. Max(T) \in 0 .. Len(s)
  <2> HIDE DEF T
  <2>1. T \in SUBSET (0 .. Len(s))
    BY DEF T
  <2>2. Len(s) \in Nat /\ T # {}
    BY <1>1, <1>3
  <2>3. Max(T) \in T
    BY <2>1, <2>2, MaxType
  <2> QED  BY <2>1, <2>3
<1> HIDE DEF T
<1> QED  BY <1>1, <1>2, <1>4

LEMMA NumbersType ==
  ASSUME NEW S, NEW s \in Seq(S)
  PROVE  \E k \in Nat : \E f : Numbers(s) = [i \in 1 .. k |-> f[i]]
<1> DEFINE cuts    == {0, Len(s) + 1} \cup {i \in DOMAIN s : s[i] = Semicolon}
           cut(n)  == CHOOSE c \in cuts : Cardinality({d \in cuts : d < c}) = n
           part(i) == SubSeq(s, cut(i - 1) + 1, cut(i) - 1)
           k == Cardinality(cuts) - 1
           f == [i \in 1 .. k |-> part(i)]
<1>1. cuts \in SUBSET (0 .. Len(s) + 1) /\ cuts # {}
  OBVIOUS
<1>2. IsFiniteSet(0 .. Len(s) + 1)
  BY FS_Interval
<1>3. Cardinality(cuts) \in Nat \ {0}
  <2> HIDE DEF cuts
  <2> QED  BY <1>1, <1>2, FS_Subset, FS_CardinalityType, FS_EmptySet
<1>4. k \in Nat
  BY <1>3
<1>5. Numbers(s) = f
  BY Zenon DEF Numbers
<1> HIDE DEF k, part
<1>6. f = [i \in 1 .. k |-> f[i]]
  OBVIOUS
<1> HIDE DEF f
<1> QED  BY <1>4, <1>5, <1>6

LEMMA SgrNumbersType ==
  ASSUME NEW S, NEW buf \in Seq(S) \ {<<>>}
  PROVE  Len(SgrNumbers(buf)) \in Nat
<1>1. PICK k \in Nat : \E f : Numbers(Text(buf)) = [i \in 1 .. k |-> f[i]]
  BY TextType, NumbersType
<1> DEFINE n == Numbers(Text(buf))
<1>2. Len(n) = k /\ Len(Front(n)) \in Nat
  BY <1>1 DEF Front
<1>3. Len(<<<<>>>>) = 1
  OBVIOUS
<1> HIDE DEF n
<1> QED  BY <1>2, <1>3 DEF SgrNumbers, n

-----------------------------------------------------------------------------
(* The types *)

Cells   == [glyph : 0 .. 127, fg : Color, bg : Color]
Screens == [Rows -> [Columns -> Cells]]

LEMMA CellType == ASSUME colors \in Colors, NEW ch \in Chars PROVE Cell(ch) \in Cells
<1>1. ch \in 0 .. 255
  BY CharsAssumption
<1>2. Glyph(ch) \in 0 .. 127
  BY <1>1 DEF Glyph
<1> QED  BY <1>2 DEF Cell, Cells, Colors

LEMMA BlankRowType == ASSUME colors \in Colors PROVE BlankRow \in [Columns -> Cells]
<1>1. Blank(colors) \in Cells
  BY DEF Blank, Cells, Colors
<1> QED  BY <1>1 DEF BlankRow

LEMMA NewlineType ==
  ASSUME colors \in Colors, NEW text \in Screens, newline(text)
  PROVE  screen' \in Screens
<1>1. Scrolled(text) \in Screens
  <2> SUFFICES ASSUME NEW y \in Rows
               PROVE  (IF y + ScrollAmount < Height THEN text[y + ScrollAmount] ELSE BlankRow)
                        \in [Columns -> Cells]
    BY DEF Scrolled, Screens
  <2>1. CASE y + ScrollAmount < Height
    <3>1. y + ScrollAmount \in Rows
      BY <2>1, ScreenAssumption
    <3> QED  BY <2>1, <3>1 DEF Screens
  <2>2. CASE ~(y + ScrollAmount < Height)
    BY <2>2, BlankRowType
  <2> QED  BY <2>1, <2>2
<1> QED  BY <1>1 DEF newline

LEMMA PrintType ==
  ASSUME colors \in Colors, CursorOnScreen, screen \in Screens, NEW ch \in Chars, print(ch)
  PROVE  screen' \in Screens
<1> DEFINE drawn == [screen EXCEPT ![cursor.y][cursor.x] = Cell(ch)]
<1>1. drawn \in Screens
  BY CellType DEF CursorOnScreen, Screens
<1> HIDE DEF drawn
<1>2. newline(screen) => screen' \in Screens
  BY NewlineType
<1>3. newline(drawn) => screen' \in Screens
  BY <1>1, NewlineType
<1>4. newline(screen) \/ newline(drawn) \/ screen' = drawn
  BY Zenon DEF print, drawn
<1> QED  BY <1>1, <1>2, <1>3, <1>4

LEMMA InitTypes == Init => TypeOK
<1> SUFFICES ASSUME Init PROVE TypeOK
  OBVIOUS
<1>1. colors \in Colors /\ colorIndices \in Colors
  BY DEF Init, DefaultInk, Colors, Color
<1>2. screen \in Screens
  BY <1>1, BlankRowType DEF Init, Screens
<1> QED  BY <1>1, <1>2 DEF Init, TypeOK, Screens, Cells

LEMMA StepTypes == TypeOK /\ Inv /\ [Next]_vars => TypeOK'
<1> SUFFICES ASSUME TypeOK, Inv, [Next]_vars PROVE TypeOK'
  OBVIOUS
<1> DEFINE States == {"Idle", "AnsiEscapeStart", "AnsiReadingCSI"}
<1>1. /\ screen \in Screens /\ writeState \in States
      /\ ansiBuf \in Seq(Chars) /\ colorIndices \in Colors /\ colors \in Colors
  BY DEF TypeOK, Screens, Cells
<1>2. cursor' \in [x : Nat, y : Nat]
  BY StepInv DEF Inv, CursorOnScreen
<1>3. SUFFICES /\ screen' \in Screens /\ writeState' \in States
               /\ ansiBuf' \in Seq(Chars) /\ colorIndices' \in Colors /\ colors' \in Colors
  BY <1>2 DEF TypeOK, Screens, Cells
<1>4. ASSUME NEW ch \in Chars, WriteIdle(ch) PROVE <1>3!1
  <2>1. screen' \in Screens
    BY <1>1, <1>4, PrintType DEF WriteIdle, Inv
  <2> QED  BY <1>1, <1>4, <2>1 DEF WriteIdle
<1>5. ASSUME NEW ch \in Chars, WriteEscape(ch) PROVE <1>3!1
  BY <1>1, <1>5 DEF WriteEscape
<1>6. ASSUME NEW ch \in Chars, WriteCSI(ch) PROVE <1>3!1
  <2> DEFINE buf == Append(ansiBuf, ch)
  <2>1. buf \in Seq(Chars) \ {<<>>} /\ <<>> \in Seq(Chars)
    <3>1. buf \in Seq(Chars) /\ Len(buf) = Len(ansiBuf) + 1 /\ Len(ansiBuf) \in Nat
      BY <1>1
    <3>2. Len(<<>>) = 0
      OBVIOUS
    <3> HIDE DEF buf
    <3> QED  BY <3>1, <3>2
  <2>2. screen' = screen /\ ansiBuf' \in {<<>>, buf} /\ writeState' \in {"Idle", writeState}
    BY <1>6 DEF WriteCSI
  <2> HIDE DEF buf
  <2>3. Inked(colorIndices, SgrNumbers(buf)) \in Colors
    BY <1>1, <2>1, SgrNumbersType, InkedType
  <2>4. processAnsi(buf) \/ UNCHANGED <<colorIndices, colors>>
    BY <1>6 DEF WriteCSI, buf
  <2>5. colorIndices' \in Colors /\ colors' \in Colors
    BY <1>1, <2>3, <2>4 DEF processAnsi, processAnsiSgr, processAnsiCup
  <2> QED  BY <1>1, <2>1, <2>2, <2>5
<1>7. CASE clear
  BY <1>1, <1>7, BlankRowType DEF clear, Screens
<1>8. CASE UNCHANGED vars
  BY <1>1, <1>8 DEF vars
<1> QED  BY <1>4, <1>5, <1>6, <1>7, <1>8 DEF Next, write

\* The screen shows only glyphs the font has, in colours of the palette,
\* whatever characters are written and whatever numbers a sequence holds
\* (FramebufferConsole::print and ::processAnsiSgr).
THEOREM TypesOfConsole == Spec => []TypeOK
<1>1. Init => TypeOK /\ Inv
  BY InitInv, InitTypes
<1>2. (TypeOK /\ Inv) /\ [Next]_vars => (TypeOK /\ Inv)'
  BY StepInv, StepTypes
<1> QED  BY <1>1, <1>2, PTL DEF Spec

-----------------------------------------------------------------------------
(* Refinement: the console is a terminal *)

LEMMA InitImplements == Init => Abstract!Init
BY DEF Init, Abstract!Init, Abstract!Empty, Abstract!Rows, Abstract!Columns, BlankRow

LEMMA BlankIsEmpty ==
  ASSUME ColorsUpToDate, NEW y \in Rows
  PROVE  BlankRow = Abstract!Empty(colorIndices)[y]
BY DEF ColorsUpToDate, BlankRow, Abstract!Empty, Abstract!Rows, Abstract!Columns

LEMMA NewlineImplements ==
  ASSUME Inv, NEW text, text = [y \in Rows |-> text[y]], newline(text), UNCHANGED colorIndices
  PROVE  Abstract!LineFeed(text)
<1>1. CursorOnScreen'
  BY NewlineOnScreen DEF Inv
<1>2. ColorsUpToDate
  BY DEF Inv
<1> DEFINE k == IF AtBottom THEN ScrollAmount ELSE 0
<1>3. k \in 0 .. Height /\ (k = 0 <=> cursor.y + 1 \in Abstract!Rows)
  BY ScreenAssumption DEF AtBottom, Inv, CursorOnScreen, Abstract!Rows
<1>4. cursor' = [x |-> 0, y |-> cursor.y + 1 - k] /\ cursor' \in Abstract!Positions
  BY <1>1, ScreenAssumption
  DEF newline, AtBottom, Inv, CursorOnScreen, Abstract!Positions, Abstract!Rows, Abstract!Columns
<1>5. screen' = [y \in Abstract!Rows |->
                   IF y + k \in Abstract!Rows THEN text[y + k]
                   ELSE Abstract!Empty(colorIndices)[y]]
  <2>1. CASE AtBottom
    BY <1>2, <2>1, BlankIsEmpty, ScreenAssumption DEF newline, Scrolled, Abstract!Rows
  <2>2. CASE ~AtBottom
    BY <2>2 DEF newline, Abstract!Rows
  <2> QED BY <2>1, <2>2
<1> QED BY <1>3, <1>4, <1>5 DEF Abstract!LineFeed

\* The rows of the screen, which the refinement's rows are compared with
ScreenRows == screen = [y \in Rows |-> screen[y]]

LEMMA PrintImplements ==
  ASSUME Inv, ScreenRows, NEW ch \in Chars, print(ch), UNCHANGED colorIndices
  PROVE  Abstract!Next
<1> DEFINE drawn == [screen EXCEPT ![cursor.y][cursor.x] = Cell(ch)]
<1>1. Cell(ch) \in CellsIn(colorIndices)
  BY DEF Cell, CellsIn, Inv, ColorsUpToDate
<1>2. CASE ch = LF
  BY <1>2, NewlineImplements DEF print, ScreenRows, Abstract!Next
<1>3. CASE ch # LF /\ AtRight
  <2>1. newline(drawn)
    BY <1>3 DEF print
  <2>2. drawn = [y \in Rows |-> drawn[y]]
    BY DEF ScreenRows
  <2>3. Abstract!LineFeed(drawn)
    BY <2>1, <2>2, NewlineImplements
  <2>4. cursor.x + 1 \notin Abstract!Columns
    BY <1>3, ScreenAssumption DEF AtRight, Inv, CursorOnScreen, Abstract!Columns
  <2>5. Abstract!Put(Cell(ch))
    BY <2>3, <2>4 DEF Abstract!Put
  <2> QED BY <1>1, <2>5 DEF Abstract!Next
<1>4. CASE ch # LF /\ ~AtRight
  <2>1. screen' = drawn /\ cursor' = [cursor EXCEPT !.x = @ + 1]
    BY <1>4 DEF print
  <2>2. cursor.x + 1 \in Abstract!Columns
    BY <1>4, ScreenAssumption DEF AtRight, Inv, CursorOnScreen, Abstract!Columns
  <2>3. Abstract!Put(Cell(ch))
    BY <2>1, <2>2 DEF Abstract!Put
  <2> QED BY <1>1, <2>3 DEF Abstract!Next
<1> QED BY <1>2, <1>3, <1>4

RefInv == Inv /\ ScreenRows

LEMMA RowsInit == Init => ScreenRows
BY DEF Init, ScreenRows

LEMMA RowsStep == ScreenRows /\ [Next]_vars => ScreenRows'
<1> SUFFICES ASSUME ScreenRows, [Next]_vars PROVE ScreenRows'
  OBVIOUS
<1> USE DEF ScreenRows
<1>1. ASSUME NEW ch \in Chars, WriteIdle(ch) PROVE ScreenRows'
  <2>1. CASE ch = ESC
    BY <1>1, <2>1 DEF WriteIdle
  <2>2. CASE ch # ESC
    <3> DEFINE drawn == [screen EXCEPT ![cursor.y][cursor.x] = Cell(ch)]
    <3>1. print(ch)
      BY <1>1, <2>2 DEF WriteIdle
    <3>2. drawn = [y \in Rows |-> drawn[y]]
      OBVIOUS
    <3>3. screen' \in {screen, drawn, Scrolled(screen), Scrolled(drawn)}
      BY <3>1 DEF print, newline
    <3>4. ASSUME NEW text PROVE Scrolled(text) = [y \in Rows |-> Scrolled(text)[y]]
      BY DEF Scrolled
    <3> QED BY <3>2, <3>3, <3>4
  <2> QED BY <2>1, <2>2
<1>2. ASSUME NEW ch \in Chars, WriteEscape(ch) PROVE ScreenRows'
  BY <1>2 DEF WriteEscape
<1>3. ASSUME NEW ch \in Chars, WriteCSI(ch) PROVE ScreenRows'
  BY <1>3 DEF WriteCSI
<1>4. CASE clear
  BY <1>4 DEF clear
<1>5. CASE UNCHANGED vars
  BY <1>5 DEF vars
<1> QED BY <1>1, <1>2, <1>3, <1>4, <1>5 DEF Next, write

LEMMA StepImplements ==
  RefInv /\ [Next]_vars => [Abstract!Next]_(<<screen, cursor, colorIndices>>)
<1> SUFFICES ASSUME RefInv, [Next]_vars
             PROVE  [Abstract!Next]_(<<screen, cursor, colorIndices>>)
  OBVIOUS
<1> USE DEF RefInv
<1>1. ASSUME NEW ch \in Chars, WriteIdle(ch), ch # ESC PROVE Abstract!Next
  BY <1>1, PrintImplements DEF WriteIdle
<1>2. ASSUME NEW ch \in Chars, WriteIdle(ch), ch = ESC
      PROVE  UNCHANGED <<screen, cursor, colorIndices>>
  BY <1>2 DEF WriteIdle
<1>3. ASSUME NEW ch \in Chars, WriteEscape(ch)
      PROVE  UNCHANGED <<screen, cursor, colorIndices>>
  BY <1>3 DEF WriteEscape
<1>4. ASSUME NEW ch \in Chars, Sent(ch), WriteCSI(ch)
      PROVE  Abstract!Next \/ UNCHANGED <<screen, cursor, colorIndices>>
  <2> DEFINE buf == Append(ansiBuf, ch)
  <2>1. CASE ~IsFinal(ch)
    BY <1>4, <2>1 DEF WriteCSI
  <2>2. CASE IsFinal(ch)
    <3>1. processAnsi(buf) /\ screen' = screen
      BY <1>4, <2>2 DEF WriteCSI
    <3>2. CASE Last(buf) = 109
      <4>1. Abstract!Dip
        BY <3>1, <3>2 DEF processAnsi, processAnsiSgr, Abstract!Dip
      <4> QED BY <4>1 DEF Abstract!Next
    <3>3. CASE Last(buf) = 72
      <4>0. Cup(buf) \in Positions
        BY <1>4, <2>2, <3>3 DEF WriteCSI, Sent, StaysOnScreen
      <4>1. Abstract!Move
        BY <3>1, <3>3, <4>0
        DEF processAnsi, processAnsiCup, Abstract!Move,
            Abstract!Positions, Abstract!Rows, Abstract!Columns
      <4> QED BY <4>1 DEF Abstract!Next
    <3>4. CASE Last(buf) # 109 /\ Last(buf) # 72
      BY <3>1, <3>4 DEF processAnsi
    <3> QED BY <3>2, <3>3, <3>4
  <2> QED BY <2>1, <2>2
<1>5. ASSUME clear PROVE Abstract!Next
  <2>1. Abstract!Erase
    BY <1>5
    DEF clear, Inv, ColorsUpToDate, BlankRow, Abstract!Erase,
        Abstract!Empty, Abstract!Rows, Abstract!Columns
  <2> QED BY <2>1 DEF Abstract!Next
<1>6. CASE UNCHANGED vars
  BY <1>6 DEF vars
<1> QED BY <1>1, <1>2, <1>3, <1>4, <1>5, <1>6 DEF Next, write

\* The console implements the abstract terminal: cells change one at a time
\* and at the cursor, text is kept and moves only as the cursor leaves at the
\* bottom, and a sequence moves the cursor or changes the ink, never both.
THEOREM ConsoleImplementsTerminal == Spec => ImplementsTerminal
<1>1. Spec => []RefInv
  <2>1. Init => RefInv
    BY InitInv, RowsInit DEF RefInv
  <2>2. RefInv /\ [Next]_vars => RefInv'
    BY StepInv, RowsStep DEF RefInv
  <2> QED BY <2>1, <2>2, PTL DEF Spec
<1> QED BY <1>1, InitImplements, StepImplements, PTL
        DEF Spec, ImplementsTerminal, Abstract!Spec

-----------------------------------------------------------------------------
(* Words, rows and columns of memory *)

LEMMA Distributes == \A a, b, c \in Int : (a + b) * c = a * c + b * c /\ c * (a + b) = c * a + c * b
OBVIOUS

LEMMA ProductType == \A a, b \in Nat : a * b \in Nat
OBVIOUS

\* Cells that do not overlap: the last of them ends where n of them do
LEMMA LastEnds ==
  ASSUME NEW n \in Nat, NEW f \in Nat, NEW i \in 0 .. n - 1
  PROVE  i * f + f <= n * f
<1> DEFINE d == n - (i + 1)
<1>1. d \in Nat /\ n = (i + 1) + d /\ i + 1 \in Int
  OBVIOUS
<1>2. n * f = (i + 1) * f + d * f /\ d * f \in Nat /\ (i + 1) * f = i * f + f
  <2> HIDE DEF d
  <2>1. n * f = (i + 1) * f + d * f
    BY <1>1, Distributes
  <2>2. (i + 1) * f = i * f + 1 * f
    BY Distributes
  <2> QED  BY <1>1, <2>1, <2>2, ProductType
<1> HIDE DEF d
<1>3. i * f \in Nat
  BY ProductType
<1> QED  BY <1>2, <1>3

LEMMA DivMod ==
  ASSUME NEW a \in Nat, NEW s \in Nat \ {0}
  PROVE  a \div s \in Nat /\ a % s \in 0 .. s - 1 /\ a = (a \div s) * s + (a % s)
<1> DEFINE q == a \div s  m == a % s
<1>1. q \in Nat /\ m \in 0 .. s - 1 /\ m = a - s * q
  <2>1. q \in Nat
    OBVIOUS
  <2>2. m \in 0 .. s - 1
    OBVIOUS
  <2>3. m = a - s * q
    OBVIOUS
  <2> QED  BY <2>1, <2>2, <2>3
<1> HIDE DEF q, m
<1>2. s * q = q * s /\ s * q \in Nat
  BY <1>1, ProductType
<1>3. a = q * s + m
  BY <1>1, <1>2
<1> QED  BY <1>1, <1>3, Zenon DEF q, m

\* A word has one row and one column
LEMMA OnePlace ==
  ASSUME NEW s \in Nat \ {0}, NEW p \in Nat, NEW q \in Nat, NEW c \in 0 .. s - 1, NEW d \in 0 .. s - 1,
         p * s + c = q * s + d
  PROVE  p = q /\ c = d
<1>1. ASSUME NEW i \in Nat, NEW j \in Nat, i < j PROVE i * s + s <= j * s
  BY <1>1, LastEnds
<1>2. p * s \in Nat /\ q * s \in Nat
  BY ProductType
<1>3. ~(p < q)
  BY <1>1, <1>2
<1>4. ~(q < p)
  BY <1>1, <1>2
<1> QED  BY <1>2, <1>3, <1>4

LEMMA PlaceOf ==
  ASSUME NEW p \in Nat, NEW c \in 0 .. Stride - 1
  PROVE  Row(p * Stride + c) = p /\ Column(p * Stride + c) = c
<1>1. Stride \in Nat \ {0}
  BY PixelAssumption
<1> DEFINE a == p * Stride + c
<1>2. a \in Nat
  BY <1>1, ProductType
<1>3. Row(a) \in Nat /\ Column(a) \in 0 .. Stride - 1 /\ a = Row(a) * Stride + Column(a)
  <2> HIDE DEF a
  <2> QED  BY <1>1, <1>2, DivMod DEF Row, Column
<1>4. p * Stride + c = Row(a) * Stride + Column(a)
  BY <1>3
<1> HIDE DEF a
<1>5. p = Row(a) /\ c = Column(a)
  BY <1>1, <1>3, <1>4, OnePlace
<1> QED  BY <1>5 DEF a

LEMMA Sizes ==
  /\ Stride \in Nat \ {0} /\ FontWidth \in Nat \ {0} /\ FontHeight \in Nat \ {0}
  /\ PixelWidth \in Nat /\ PixelHeight \in Nat /\ Words \in Nat /\ PixelWidth <= Stride
  /\ Width * FontWidth <= PixelWidth /\ Height * FontHeight <= PixelHeight
  /\ PixelHeight * Stride <= Words
<1>1. /\ PixelWidth \in Nat /\ PixelHeight \in Nat /\ Stride \in Nat /\ Words \in Nat
      /\ FontWidth \in Nat \ {0} /\ FontHeight \in Nat \ {0} /\ PixelWidth <= Stride
      /\ Width = PixelWidth \div FontWidth /\ Height = PixelHeight \div FontHeight
  BY PixelAssumption
<1>2. Width * FontWidth <= PixelWidth
  <2>1. PixelWidth = Width * FontWidth + (PixelWidth % FontWidth) /\ PixelWidth % FontWidth \in Nat
    BY <1>1, DivMod
  <2>2. Width * FontWidth \in Nat
    BY <1>1, ScreenAssumption, ProductType
  <2> DEFINE w == Width * FontWidth
  <2> HIDE DEF w
  <2>3. w <= PixelWidth
    BY <1>1, <2>1, <2>2 DEF w
  <2> QED  BY <2>3 DEF w
<1>3. Height * FontHeight <= PixelHeight
  <2>1. PixelHeight = Height * FontHeight + (PixelHeight % FontHeight) /\ PixelHeight % FontHeight \in Nat
    BY <1>1, DivMod
  <2>2. Height * FontHeight \in Nat
    BY <1>1, ScreenAssumption, ProductType
  <2> DEFINE w == Height * FontHeight
  <2> HIDE DEF w
  <2>3. w <= PixelHeight
    BY <1>1, <2>1, <2>2 DEF w
  <2> QED  BY <2>3 DEF w
<1>4. 0 < PixelWidth
  <2>1. Width * FontWidth \in Nat /\ FontWidth <= Width * FontWidth
    <3>1. Width - 1 \in Nat /\ 0 \in 0 .. Width - 1 /\ 0 * FontWidth = 0
      BY <1>1, ScreenAssumption
    <3>2. 0 * FontWidth + FontWidth <= Width * FontWidth
      BY <1>1, <3>1, ScreenAssumption, LastEnds
    <3> QED  BY <1>1, <3>1, <3>2, ScreenAssumption, ProductType
  <2> QED  BY <1>1, <1>2, <2>1
<1>5. PixelHeight * Stride <= Words
  BY PixelAssumption
<1> QED  BY <1>1, <1>2, <1>3, <1>4, <1>5

\* The word of a pixel of a cell, and where it is
LEMMA PixelPlace ==
  ASSUME NEW y \in Rows, NEW x \in Columns, NEW r \in 0 .. FontHeight - 1, NEW c \in 0 .. FontWidth - 1
  PROVE  /\ At(x, y, c, r) \in Memory
         /\ Row(At(x, y, c, r)) = y * FontHeight + r /\ y * FontHeight + r \in 0 .. PixelHeight - 1
         /\ Column(At(x, y, c, r)) = x * FontWidth + c /\ x * FontWidth + c \in 0 .. PixelWidth - 1
<1> DEFINE p == y * FontHeight + r  q == x * FontWidth + c
<1>0. /\ Stride \in Nat \ {0} /\ FontWidth \in Nat \ {0} /\ FontHeight \in Nat \ {0}
      /\ PixelWidth \in Nat /\ PixelHeight \in Nat /\ Words \in Nat /\ PixelWidth <= Stride
      /\ Width * FontWidth <= PixelWidth /\ Height * FontHeight <= PixelHeight
      /\ Width \in Nat /\ Height \in Nat /\ y \in Nat /\ x \in Nat
  BY Sizes, ScreenAssumption
<1>1. p \in Nat /\ p < PixelHeight
  <2>1. y * FontHeight + FontHeight <= Height * FontHeight
    BY <1>0, LastEnds
  <2>2. y * FontHeight \in Nat /\ Height * FontHeight \in Nat
    BY <1>0, ProductType
  <2> QED  BY <1>0, <2>1, <2>2
<1>2. q \in Nat /\ q < PixelWidth
  <2>1. x * FontWidth + FontWidth <= Width * FontWidth
    BY <1>0, LastEnds
  <2>2. x * FontWidth \in Nat /\ Width * FontWidth \in Nat
    BY <1>0, ProductType
  <2> QED  BY <1>0, <2>1, <2>2
<1>3. At(x, y, c, r) = p * Stride + q
  <2> DEFINE s == p * Stride  t == x * FontWidth
  <2>1. s \in Nat /\ t \in Nat
    BY <1>0, <1>1, ProductType
  <2>2. At(x, y, c, r) = s + t + c
    BY Zenon DEF At
  <2> HIDE DEF s, t
  <2>3. s + t + c = s + (t + c)
    BY <2>1
  <2> QED  BY <2>2, <2>3 DEF s, t
<1> HIDE DEF p, q
<1>4. p * Stride + q \in Memory
  <2>1. p * Stride + Stride <= PixelHeight * Stride
    BY <1>0, <1>1, LastEnds
  <2>2. p * Stride \in Nat /\ PixelHeight * Stride \in Nat
    BY <1>0, <1>1, ProductType
  <2>3. PixelHeight * Stride <= Words
    BY Sizes
  <2> QED  BY <1>0, <1>2, <2>1, <2>2, <2>3 DEF Memory
<1>5. Row(p * Stride + q) = p /\ Column(p * Stride + q) = q
  <2>1. q \in 0 .. Stride - 1
    BY <1>0, <1>2
  <2> QED  BY <1>1, <2>1, PlaceOf
<1>6. p \in 0 .. PixelHeight - 1 /\ q \in 0 .. PixelWidth - 1
  BY <1>0, <1>1, <1>2
<1> QED  BY <1>3, <1>4, <1>5, <1>6 DEF p, q

\* Every word has a place
LEMMA WordPlace ==
  ASSUME NEW a \in Memory
  PROVE  Row(a) \in Nat /\ Column(a) \in 0 .. Stride - 1 /\ a = Row(a) * Stride + Column(a)
<1>1. a \in Nat
  BY Sizes DEF Memory
<1> QED  BY <1>1, Sizes, DivMod DEF Row, Column

-----------------------------------------------------------------------------
(* drawChar: the words of one cell *)

\* The first word of a cell, as drawChar works it out
Base(x, y) == FontHeight * y * Stride + x * FontWidth

LEMMA FromBase ==
  ASSUME NEW x \in Nat, NEW y \in Nat, NEW r \in Nat, NEW c \in Nat
  PROVE  Base(x, y) \in Nat /\ At(x, y, c, r) = Base(x, y) + (r * Stride + c)
<1> DEFINE h == FontHeight * y  k == y * FontHeight  w == x * FontWidth  s == h * Stride  t == r * Stride
           u == (k + r) * Stride
<1>1. h \in Nat /\ k \in Nat /\ w \in Nat /\ h = k /\ r \in Nat /\ Stride \in Nat
  BY Sizes, ProductType
<1>2. Base(x, y) = s + w /\ At(x, y, c, r) = u + w + c
  BY Zenon DEF Base, At
<1> HIDE DEF h, k, w
<1>3. s \in Nat /\ t \in Nat
  BY <1>1, ProductType
<1>4. u = s + t
  BY <1>1, Distributes
<1> HIDE DEF s, t, u
<1>5. s + w \in Nat /\ u + w + c = (s + w) + (t + c)
  BY <1>1, <1>3, <1>4
<1> QED  BY <1>2, <1>5 DEF t

\* The words drawn for a cell are those of its pixels, and no others
LEMMA DrawnWords ==
  ASSUME NEW x \in Columns, NEW y \in Rows, NEW a \in Memory, a >= Base(x, y),
         Row(a - Base(x, y)) < FontHeight, Column(a - Base(x, y)) < FontWidth
  PROVE  /\ Row(a - Base(x, y)) \in 0 .. FontHeight - 1
         /\ Column(a - Base(x, y)) \in 0 .. FontWidth - 1
         /\ a = At(x, y, Column(a - Base(x, y)), Row(a - Base(x, y)))
<1> DEFINE b == Base(x, y)  d == a - b
<1>0. x \in Nat /\ y \in Nat /\ a \in Nat
  BY Sizes, ScreenAssumption DEF Memory
<1>1. b \in Nat
  BY <1>0, FromBase
<1>2. d \in Nat
  BY <1>0, <1>1
<1>3. /\ Row(d) \in Nat /\ Column(d) \in 0 .. Stride - 1 /\ d = Row(d) * Stride + Column(d)
      /\ Row(d) < FontHeight /\ Column(d) < FontWidth
  <2>1. Row(d) < FontHeight /\ Column(d) < FontWidth
    OBVIOUS
  <2> HIDE DEF d
  <2> QED  BY <1>2, <2>1, Sizes, DivMod DEF Row, Column
<1>4. Row(d) \in 0 .. FontHeight - 1 /\ Column(d) \in 0 .. FontWidth - 1
  <2> HIDE DEF d
  <2> QED  BY <1>3, Sizes
<1>5. At(x, y, Column(d), Row(d)) = b + (Row(d) * Stride + Column(d))
  <2> HIDE DEF d
  <2> QED  BY <1>0, <1>3, FromBase
<1>6. a = b + d
  BY <1>0, <1>1
<1>7. a = At(x, y, Column(d), Row(d))
  <2> HIDE DEF d, b
  <2> QED  BY <1>3, <1>5, <1>6
<1> QED  BY <1>4, <1>7

LEMMA PixelWords ==
  ASSUME NEW x \in Columns, NEW y \in Rows, NEW r \in 0 .. FontHeight - 1, NEW c \in 0 .. FontWidth - 1
  PROVE  /\ At(x, y, c, r) >= Base(x, y)
         /\ Row(At(x, y, c, r) - Base(x, y)) = r /\ Column(At(x, y, c, r) - Base(x, y)) = c
<1> DEFINE b == Base(x, y)  d == r * Stride + c
<1>0. x \in Nat /\ y \in Nat /\ r \in Nat /\ c \in Nat
  BY Sizes, ScreenAssumption
<1>1. b \in Nat /\ At(x, y, c, r) = b + d
  BY <1>0, FromBase
<1>2. c \in 0 .. Stride - 1
  <2>1. x * FontWidth + c \in 0 .. PixelWidth - 1 /\ x * FontWidth \in Nat
    BY <1>0, PixelPlace, Sizes, ProductType
  <2> DEFINE w == x * FontWidth
  <2> HIDE DEF w
  <2>2. w \in Nat /\ w + c \in 0 .. PixelWidth - 1
    BY <2>1 DEF w
  <2> QED  BY <1>0, <2>2, Sizes
<1>3. Row(d) = r /\ Column(d) = c
  BY <1>0, <1>2, PlaceOf
<1>4. d \in Nat
  <2>1. r * Stride \in Nat
    BY <1>0, Sizes, ProductType
  <2> QED  BY <1>0, <2>1
<1> HIDE DEF b, d
<1>5. At(x, y, c, r) >= b /\ At(x, y, c, r) - b = d
  BY <1>1, <1>4
<1> QED  BY <1>3, <1>5 DEF b

\* Cells do not share words
LEMMA CellsApart ==
  ASSUME NEW x \in Columns, NEW y \in Rows, NEW r \in 0 .. FontHeight - 1, NEW c \in 0 .. FontWidth - 1,
         NEW v \in Columns, NEW z \in Rows, NEW s \in 0 .. FontHeight - 1, NEW d \in 0 .. FontWidth - 1,
         At(x, y, c, r) = At(v, z, d, s)
  PROVE  x = v /\ y = z
<1>0. x \in Nat /\ y \in Nat /\ v \in Nat /\ z \in Nat
      /\ FontHeight \in Nat \ {0} /\ FontWidth \in Nat \ {0}
  BY Sizes, ScreenAssumption
<1>1. y * FontHeight + r = z * FontHeight + s
  BY PixelPlace
<1>2. x * FontWidth + c = v * FontWidth + d
  BY PixelPlace
<1>3. y = z
  BY <1>0, <1>1, OnePlace
<1>4. x = v
  BY <1>0, <1>2, OnePlace
<1> QED  BY <1>3, <1>4

-----------------------------------------------------------------------------
(* What is outside of the screen *)

\* KeepsInside, of any memory
Outside(from) ==
  /\ \A a \in Memory : Row(a) >= PixelHeight => from[a] = Before[a]
  /\ \A p \in 0 .. PixelHeight - 1 : \E q \in p .. PixelHeight - 1 :
       \A c \in PixelWidth .. Stride - 1 : from[p * Stride + c] = Before[q * Stride + c]

\* A word beyond the last column
LEMMA BesideWord ==
  ASSUME NEW p \in 0 .. PixelHeight - 1, NEW c \in PixelWidth .. Stride - 1
  PROVE  /\ p * Stride + c \in Memory /\ Row(p * Stride + c) = p
         /\ Column(p * Stride + c) >= PixelWidth
<1>1. /\ p \in Nat /\ c \in 0 .. Stride - 1 /\ Stride \in Nat \ {0}
      /\ PixelHeight \in Nat /\ Words \in Nat /\ PixelHeight * Stride <= Words
  BY Sizes
<1>2. Row(p * Stride + c) = p /\ Column(p * Stride + c) = c
  BY <1>1, PlaceOf
<1>3. p * Stride + Stride <= PixelHeight * Stride
  BY <1>1, LastEnds
<1>4. p * Stride \in Nat /\ PixelHeight * Stride \in Nat
  BY <1>1, ProductType
<1>5. p * Stride + c \in Memory
  BY <1>1, <1>3, <1>4 DEF Memory
<1>6. c >= PixelWidth
  BY Sizes
<1> QED  BY <1>2, <1>5, <1>6

LEMMA StillOutside ==
  ASSUME NEW from, NEW to, Outside(from),
         \A a \in Memory : Row(a) >= PixelHeight \/ Column(a) >= PixelWidth => to[a] = from[a]
  PROVE  Outside(to)
<1>1. \A a \in Memory : Row(a) >= PixelHeight => to[a] = Before[a]
  BY DEF Outside
<1>2. ASSUME NEW p \in 0 .. PixelHeight - 1
      PROVE  \E q \in p .. PixelHeight - 1 :
               \A c \in PixelWidth .. Stride - 1 : to[p * Stride + c] = Before[q * Stride + c]
  <2>1. PICK q \in p .. PixelHeight - 1 :
          \A c \in PixelWidth .. Stride - 1 : from[p * Stride + c] = Before[q * Stride + c]
    BY DEF Outside
  <2>2. ASSUME NEW c \in PixelWidth .. Stride - 1 PROVE to[p * Stride + c] = Before[q * Stride + c]
    <3>1. p * Stride + c \in Memory /\ Column(p * Stride + c) >= PixelWidth
      BY BesideWord
    <3>2. to[p * Stride + c] = from[p * Stride + c]
      BY <3>1
    <3> QED  BY <2>1, <3>2
  <2> QED  BY <2>2
<1> QED  BY <1>1, <1>2 DEF Outside

LEMMA DrawnOutside == ASSUME CursorOnScreen, Outside(pixels), NEW ch PROVE Outside(Drawn(ch))
<1>1. ASSUME NEW a \in Memory, Row(a) >= PixelHeight \/ Column(a) >= PixelWidth
      PROVE  Drawn(ch)[a] = pixels[a]
  <2> DEFINE b == Base(cursor.x, cursor.y)
  <2>1. cursor.x \in Columns /\ cursor.y \in Rows
    BY DEF CursorOnScreen
  <2>2. ~(a >= b /\ Row(a - b) < FontHeight /\ Column(a - b) < FontWidth)
    <3> SUFFICES ASSUME a >= b, Row(a - b) < FontHeight, Column(a - b) < FontWidth PROVE FALSE
      OBVIOUS
    <3>1. PICK r \in 0 .. FontHeight - 1, c \in 0 .. FontWidth - 1 : a = At(cursor.x, cursor.y, c, r)
      BY <2>1, DrawnWords
    <3>2. Row(a) \in 0 .. PixelHeight - 1 /\ Column(a) \in 0 .. PixelWidth - 1
      BY <2>1, <3>1, PixelPlace
    <3> QED  BY <1>1, <3>2, Sizes
  <2> QED  BY <2>2, Zenon DEF Drawn, Base
<1> QED  BY <1>1, StillOutside

-----------------------------------------------------------------------------
(* newline: the words that move *)

LEMMA Monotone ==
  ASSUME NEW i \in Nat, NEW j \in Nat, NEW f \in Nat, i <= j PROVE i * f <= j * f
<1> DEFINE d == j - i
<1>1. d \in Nat /\ j = i + d
  OBVIOUS
<1> HIDE DEF d
<1>2. j * f = i * f + d * f /\ d * f \in Nat /\ i * f \in Nat
  BY <1>1, Distributes, ProductType
<1> QED  BY <1>2

\* newline's toMove and yOff, in words, and the first row it uncovers
ToMove   == Stride * (Height - ScrollAmount) * FontHeight
Offset   == FontHeight * ScrollAmount * Stride
ClearPtr == (Height - ScrollAmount) * FontHeight

LEMMA Turn == \A a, b, c \in Nat : a * b * c = (b * c) * a /\ a * b = b * a
OBVIOUS

LEMMA ScrollSizes ==
  /\ ClearPtr \in Nat /\ ToMove = ClearPtr * Stride
  /\ ScrollAmount * FontHeight \in Nat /\ Offset = (ScrollAmount * FontHeight) * Stride
  /\ ClearPtr + ScrollAmount * FontHeight = Height * FontHeight
<1> DEFINE k == Height - ScrollAmount
<1>1. k \in Nat /\ ScrollAmount \in Nat /\ FontHeight \in Nat /\ Stride \in Nat /\ k + ScrollAmount = Height
  BY ScreenAssumption, Sizes
<1>2. ClearPtr = k * FontHeight /\ ToMove = Stride * k * FontHeight
  BY Zenon DEF ClearPtr, ToMove
<1> HIDE DEF k
<1>3. Stride * k * FontHeight = (k * FontHeight) * Stride
  BY <1>1, Turn
<1>4. FontHeight * ScrollAmount = ScrollAmount * FontHeight
  BY <1>1, Turn
<1>5. k * FontHeight \in Nat /\ ScrollAmount * FontHeight \in Nat
  BY <1>1, ProductType
<1>6. k * FontHeight + ScrollAmount * FontHeight = Height * FontHeight
  BY <1>1, Distributes
<1> QED  BY <1>2, <1>3, <1>4, <1>5, <1>6 DEF Offset

LEMMA MovedWord ==
  ASSUME NEW a \in Memory, a < ToMove
  PROVE  /\ a + Offset \in Memory /\ Row(a) < ClearPtr /\ ClearPtr <= PixelHeight
         /\ Column(a + Offset) = Column(a)
<1> DEFINE k == ClearPtr  s == ScrollAmount * FontHeight  p == Row(a)  q == Column(a)
<1>1. /\ k \in Nat /\ s \in Nat /\ ToMove = k * Stride /\ Offset = s * Stride
      /\ k + s = Height * FontHeight
  BY ScrollSizes
<1>2. p \in Nat /\ q \in 0 .. Stride - 1 /\ a = p * Stride + q
  BY WordPlace
<1>3. Stride \in Nat \ {0} /\ PixelHeight \in Nat /\ Words \in Nat
  BY Sizes
<1>4. k + s <= PixelHeight
  BY <1>1, Sizes
<1> HIDE DEF k, s, p, q
<1>5. p < k
  <2> SUFFICES ASSUME k <= p PROVE FALSE
    BY <1>1, <1>2
  <2>1. k * Stride <= p * Stride /\ k * Stride \in Nat /\ p * Stride \in Nat
    BY <1>1, <1>2, <1>3, Monotone, ProductType
  <2> QED  BY <1>1, <1>2, <2>1
<1>6. a + Offset = (p + s) * Stride + q
  <2>1. (p + s) * Stride = p * Stride + s * Stride /\ p * Stride \in Nat /\ s * Stride \in Nat
    BY <1>1, <1>2, <1>3, Distributes, ProductType
  <2> QED  BY <1>1, <1>2, <1>3, <2>1
<1>7. Column(a + Offset) = q
  <2>1. p + s \in Nat
    BY <1>1, <1>2
  <2> QED  BY <1>2, <1>6, <2>1, PlaceOf
<1>8. a + Offset \in Memory
  <2> DEFINE w == (p + s) * Stride
  <2>1. p + s \in 0 .. PixelHeight - 1
    BY <1>1, <1>2, <1>3, <1>4, <1>5
  <2>2. w + Stride <= PixelHeight * Stride
    BY <1>3, <2>1, LastEnds
  <2>3. w \in Nat /\ PixelHeight * Stride \in Nat /\ PixelHeight * Stride <= Words
    BY <1>3, <2>1, ProductType, Sizes
  <2> HIDE DEF w
  <2> QED  BY <1>2, <1>3, <1>6, <2>2, <2>3 DEF Memory, w
<1>9. k <= PixelHeight
  BY <1>1, <1>3, <1>4
<1> QED  BY <1>5, <1>7, <1>8, <1>9 DEF k, p, q

\* Strides move as a whole: what a row has beyond its last column comes from
\* one row of those below
LEMMA MovedOutside == ASSUME NEW from, Outside(from) PROVE Outside(Moved(from))
<1> DEFINE k == ClearPtr  s == ScrollAmount * FontHeight
<1>1. /\ k \in Nat /\ s \in Nat /\ ToMove = k * Stride /\ Offset = s * Stride
      /\ k + s = Height * FontHeight
  BY ScrollSizes
<1>2. /\ Stride \in Nat \ {0} /\ PixelHeight \in Nat /\ PixelWidth \in Nat
      /\ Height * FontHeight <= PixelHeight
  BY Sizes
<1>3. ASSUME NEW a \in Memory PROVE a < ToMove <=> Row(a) < k
  <2>1. Row(a) \in Nat /\ Column(a) \in 0 .. Stride - 1 /\ a = Row(a) * Stride + Column(a)
    BY WordPlace
  <2>2. a < ToMove => Row(a) < k
    BY MovedWord
  <2>3. ASSUME Row(a) < k PROVE a < ToMove
    <3> DEFINE p == Row(a)
    <3>1. p \in 0 .. k - 1
      BY <1>1, <2>1, <2>3
    <3>2. p * Stride + Stride <= k * Stride
      BY <1>1, <1>2, <3>1, LastEnds
    <3>3. p * Stride \in Nat /\ k * Stride \in Nat
      BY <1>1, <1>2, <2>1, ProductType
    <3> HIDE DEF p, k
    <3> QED  BY <1>1, <1>2, <2>1, <3>2, <3>3 DEF p
  <2> QED  BY <2>2, <2>3
<1>4. ASSUME NEW a \in Memory, Row(a) >= PixelHeight PROVE Moved(from)[a] = Before[a]
  <2>1. ~(a < ToMove)
    <3>1. Row(a) \in Nat
      BY WordPlace
    <3> HIDE DEF k, s
    <3> QED  BY <1>1, <1>2, <1>3, <1>4, <3>1
  <2>2. Moved(from)[a] = from[a]
    BY <2>1, Zenon DEF Moved, ToMove
  <2> QED  BY <1>4, <2>2 DEF Outside
<1>5. ASSUME NEW p \in 0 .. PixelHeight - 1
      PROVE  \E q \in p .. PixelHeight - 1 :
               \A c \in PixelWidth .. Stride - 1 : Moved(from)[p * Stride + c] = Before[q * Stride + c]
  <2>1. CASE p < k
    <3>1. p + s \in p .. PixelHeight - 1 /\ p + s \in 0 .. PixelHeight - 1
      <4> HIDE DEF k, s
      <4> QED  BY <1>1, <1>2, <2>1
    <3>2. PICK q \in p + s .. PixelHeight - 1 :
            \A c \in PixelWidth .. Stride - 1 : from[(p + s) * Stride + c] = Before[q * Stride + c]
      BY <3>1 DEF Outside
    <3>3. ASSUME NEW c \in PixelWidth .. Stride - 1
          PROVE  Moved(from)[p * Stride + c] = from[(p + s) * Stride + c]
      <4> DEFINE a == p * Stride + c
      <4>1. a \in Memory /\ Row(a) = p
        BY BesideWord
      <4>2. a < ToMove
        BY <1>3, <2>1, <4>1
      <4>3. Moved(from)[a] = from[a + Offset]
        BY <4>1, <4>2, Zenon DEF Moved, ToMove, Offset
      <4>4. a + Offset = (p + s) * Stride + c
        <5>1. (p + s) * Stride = p * Stride + s * Stride /\ p * Stride \in Nat /\ s * Stride \in Nat
          BY <1>1, <1>2, Distributes, ProductType
        <5> HIDE DEF s
        <5> QED  BY <1>1, <1>2, <5>1
      <4> QED  BY <4>3, <4>4
    <3>4. q \in p .. PixelHeight - 1
      <4> HIDE DEF k, s
      <4> QED  BY <1>1, <1>2
    <3> QED  BY <3>2, <3>3, <3>4
  <2>2. CASE ~(p < k)
    <3>1. PICK q \in p .. PixelHeight - 1 :
            \A c \in PixelWidth .. Stride - 1 : from[p * Stride + c] = Before[q * Stride + c]
      BY DEF Outside
    <3>2. ASSUME NEW c \in PixelWidth .. Stride - 1
          PROVE  Moved(from)[p * Stride + c] = from[p * Stride + c]
      <4>1. p * Stride + c \in Memory /\ Row(p * Stride + c) = p
        BY BesideWord
      <4>2. ~(p * Stride + c < ToMove)
        BY <1>3, <2>2, <4>1
      <4> QED  BY <4>1, <4>2, Zenon DEF Moved, ToMove
    <3> QED  BY <3>1, <3>2
  <2> QED  BY <2>1, <2>2
<1> QED  BY <1>4, <1>5 DEF Outside

LEMMA UncoveredOutside == ASSUME NEW from, Outside(from) PROVE Outside(Uncovered(from))
<1>1. ASSUME NEW a \in Memory, Row(a) >= PixelHeight \/ Column(a) >= PixelWidth
      PROVE  Uncovered(from)[a] = from[a]
  <2>1. Row(a) \in Nat /\ Column(a) \in Nat
    BY WordPlace, Sizes
  <2>2. ~(Row(a) \in ClearPtr .. ClearPtr + ScrollAmount * FontHeight - 1 /\ Column(a) < PixelWidth)
    <3> DEFINE s == ScrollAmount * FontHeight  h == Height * FontHeight
    <3>1. ClearPtr \in Nat /\ s \in Nat /\ ClearPtr + s = h
      BY ScrollSizes
    <3>2. PixelWidth \in Nat /\ PixelHeight \in Nat /\ h <= PixelHeight
      BY Sizes
    <3> HIDE DEF s, h
    <3>3. ~(Row(a) \in ClearPtr .. ClearPtr + s - 1 /\ Column(a) < PixelWidth)
      BY <1>1, <2>1, <3>1, <3>2
    <3> QED  BY <3>3 DEF s
  <2> QED  BY <2>2, Zenon DEF Uncovered, ClearPtr
<1> QED  BY <1>1, StillOutside

LEMMA LinedOutside == ASSUME NEW from, Outside(from) PROVE Outside(Lined(from))
BY MovedOutside, UncoveredOutside DEF Lined

\* The cells' steps are Console's
LEMMA PixelsExtend == [PixelNext]_<<vars, pixels>> => [Next]_vars
BY DEF PixelNext, Write, Clear, Next

OutsideInv == Inv /\ Outside(pixels)

LEMMA OutsideStep == OutsideInv /\ [PixelNext]_<<vars, pixels>> => OutsideInv'
<1> SUFFICES ASSUME OutsideInv, [PixelNext]_<<vars, pixels>> PROVE OutsideInv'
  OBVIOUS
<1>1. Inv' /\ CursorOnScreen /\ Outside(pixels)
  BY PixelsExtend, StepInv DEF OutsideInv, Inv
<1>2. ASSUME NEW ch \in Chars, Write(ch) PROVE Outside(pixels')
  <2>1. Outside(Drawn(ch)) /\ Outside(Lined(pixels)) /\ Outside(Lined(Drawn(ch)))
    BY <1>1, DrawnOutside, LinedOutside
  <2>2. Outside(Printed(ch))
    BY <2>1 DEF Printed
  <2>3. pixels' = Printed(ch) \/ pixels' = pixels
    BY <1>2 DEF Write
  <2> QED  BY <1>1, <2>2, <2>3
<1>3. ASSUME Clear PROVE Outside(pixels')
  <2>1. ASSUME NEW a \in Memory, Row(a) >= PixelHeight \/ Column(a) >= PixelWidth
        PROVE  Cleared[a] = pixels[a]
    <3>1. Row(a) \in Nat /\ Column(a) \in Nat /\ PixelHeight \in Nat /\ PixelWidth \in Nat
      BY WordPlace, Sizes
    <3>2. ~(Row(a) < PixelHeight /\ Column(a) < PixelWidth)
      BY <2>1, <3>1
    <3> QED  BY <3>2, Zenon DEF Cleared
  <2>2. Outside(Cleared)
    BY <1>1, <2>1, StillOutside
  <2> QED  BY <1>3, <2>2 DEF Clear
<1>4. ASSUME UNCHANGED pixels PROVE Outside(pixels')
  BY <1>1, <1>4
<1>5. Outside(pixels')
  BY <1>2, <1>3, <1>4 DEF PixelNext
<1> QED  BY <1>1, <1>5 DEF OutsideInv, Outside

LEMMA OutsideInit == PixelInit => OutsideInv
<1> SUFFICES ASSUME PixelInit PROVE OutsideInv
  OBVIOUS
<1>1. ASSUME NEW a \in Memory, Row(a) >= PixelHeight \/ Column(a) >= PixelWidth
      PROVE  pixels[a] = Before[a]
  <2>1. Row(a) \in Nat /\ Column(a) \in Nat /\ PixelHeight \in Nat /\ PixelWidth \in Nat
    BY WordPlace, Sizes
  <2>2. ~(Row(a) < PixelHeight /\ Column(a) < PixelWidth)
    BY <1>1, <2>1
  <2> QED  BY <2>2 DEF PixelInit
<1>2. ASSUME NEW p \in 0 .. PixelHeight - 1
      PROVE  \E q \in p .. PixelHeight - 1 :
               \A c \in PixelWidth .. Stride - 1 : pixels[p * Stride + c] = Before[q * Stride + c]
  <2>1. ASSUME NEW c \in PixelWidth .. Stride - 1
        PROVE  pixels[p * Stride + c] = Before[p * Stride + c]
    <3>1. p * Stride + c \in Memory /\ Column(p * Stride + c) >= PixelWidth
      BY BesideWord
    <3> QED  BY <1>1, <3>1
  <2>2. p \in p .. PixelHeight - 1
    BY Sizes
  <2> QED  BY <2>1, <2>2
<1>3. Outside(pixels)
  BY <1>1, <1>2 DEF Outside
<1> QED  BY <1>3, InitInv DEF PixelInit, OutsideInv

\* No drawing, no scroll and no clear changes a word behind the framebuffer's last
\* row, nor paints what its rows have beyond their last column; that only moves
\* up, a whole stride at a time, with the rows newline copies.  So it is whatever
\* the sizes of the screen, of the font and of the stride, whatever was in memory,
\* and however often the text scrolls (FramebufferConsole::drawChar, ::newline, ::clear).
THEOREM WritesKeepInside == PixelSpec => []KeepsInside
<1>1. OutsideInv => KeepsInside
  BY DEF OutsideInv, Outside, KeepsInside
<1> QED  BY <1>1, OutsideInit, OutsideStep, PTL DEF PixelSpec

-----------------------------------------------------------------------------
(* The pixels are those of the cells, for fonts of at most eight columns: a    *)
(* wider glyph is read a byte late (Passed), the kernel's is eight wide.       *)

\* The colour a cell gives to a pixel of its own
Shade(cell, r, c) ==
  LET byte == r * ((FontWidth + 7) \div 8) + c \div 8
  IN  IF Bit(Font[cell.glyph][byte + 1], c % 8) = 1 THEN cell.fg ELSE cell.bg

Shows(from, text) ==
  \A y \in Rows, x \in Columns, r \in 0 .. FontHeight - 1, c \in 0 .. FontWidth - 1 :
    from[At(x, y, c, r)] = Shade(text[y][x], r, c)

\* A font of one byte a row, which drawChar and ShowsScreen read alike
LEMMA RowByte ==
  ASSUME FontWidth <= 8, NEW r \in Nat, NEW c \in 0 .. FontWidth - 1
  PROVE  Byte(r, c) = r * ((FontWidth + 7) \div 8) + c \div 8
<1>1. FontWidth \in 1 .. 8 /\ c \in 0 .. 7
  BY Sizes
<1>2. (FontWidth + 7) \div 8 = 1 /\ c \div 8 = 0
  BY <1>1
<1>3. Passed(FontWidth) = 0 /\ Passed(c) = 0
  BY <1>1 DEF Passed
<1> QED  BY <1>2, <1>3 DEF Byte

LEMMA DrawnShows ==
  ASSUME FontWidth <= 8, CursorOnScreen, screen \in Screens, Shows(pixels, screen), NEW ch
  PROVE  Shows(Drawn(ch), [screen EXCEPT ![cursor.y][cursor.x] = Cell(ch)])
<1> DEFINE text == [screen EXCEPT ![cursor.y][cursor.x] = Cell(ch)]
           b == Base(cursor.x, cursor.y)
<1>1. cursor.x \in Columns /\ cursor.y \in Rows
  BY DEF CursorOnScreen
<1> SUFFICES ASSUME NEW y \in Rows, NEW x \in Columns,
                    NEW r \in 0 .. FontHeight - 1, NEW c \in 0 .. FontWidth - 1
             PROVE  Drawn(ch)[At(x, y, c, r)] = Shade(text[y][x], r, c)
  BY Zenon DEF Shows
<1> DEFINE a == At(x, y, c, r)
<1>2. a \in Memory
  BY PixelPlace
<1>3. CASE x = cursor.x /\ y = cursor.y
  <2>1. a >= b /\ Row(a - b) = r /\ Column(a - b) = c
    BY <1>3, PixelWords
  <2>2. r < FontHeight /\ c < FontWidth /\ r \in Nat
    BY Sizes
  <2>3. Drawn(ch)[a] = IF Bit(Font[Glyph(ch)][Byte(r, c) + 1], c % 8) = 1 THEN colors.fg ELSE colors.bg
    <3> HIDE DEF a
    <3> QED  BY <1>2, <2>1, <2>2, Zenon DEF Drawn, Base
  <2>4. text[y][x] = Cell(ch)
    BY <1>1, <1>3 DEF Screens
  <2>5. Shade(Cell(ch), r, c)
          = IF Bit(Font[Glyph(ch)][Byte(r, c) + 1], c % 8) = 1 THEN colors.fg ELSE colors.bg
    <3>1. Byte(r, c) = r * ((FontWidth + 7) \div 8) + c \div 8
      BY <2>2, RowByte
    <3>2. Cell(ch).glyph = Glyph(ch) /\ Cell(ch).fg = colors.fg /\ Cell(ch).bg = colors.bg
      BY DEF Cell
    <3> QED  BY <3>1, <3>2, Zenon DEF Shade
  <2> HIDE DEF text, a
  <2> QED  BY <2>3, <2>4, <2>5 DEF a
<1>4. CASE ~(x = cursor.x /\ y = cursor.y)
  <2>1. ~(a >= b /\ Row(a - b) < FontHeight /\ Column(a - b) < FontWidth)
    <3> SUFFICES ASSUME a >= b, Row(a - b) < FontHeight, Column(a - b) < FontWidth PROVE FALSE
      OBVIOUS
    <3>1. PICK s \in 0 .. FontHeight - 1, d \in 0 .. FontWidth - 1 : a = At(cursor.x, cursor.y, d, s)
      BY <1>1, <1>2, DrawnWords
    <3>2. x = cursor.x /\ y = cursor.y
      BY <1>1, <3>1, CellsApart
    <3> QED  BY <1>4, <3>2
  <2>2. Drawn(ch)[a] = pixels[a]
    <3> HIDE DEF a
    <3> QED  BY <1>2, <2>1, Zenon DEF Drawn, Base
  <2>3. text[y][x] = screen[y][x]
    BY <1>1, <1>4 DEF Screens
  <2>4. pixels[a] = Shade(screen[y][x], r, c)
    BY DEF Shows
  <2> HIDE DEF text
  <2> QED  BY <2>2, <2>3, <2>4
<1> QED  BY <1>3, <1>4

\* Pixels in their cell's background, whatever the glyph
LEMMA BlankShade == ASSUME NEW ink, NEW r, NEW c PROVE Shade(Blank(ink), r, c) = ink.bg
BY DEF Shade, Blank

LEMMA BlankCells == ASSUME NEW x \in Columns, NEW r, NEW c PROVE Shade(BlankRow[x], r, c) = colors.bg
<1>1. BlankRow[x] = Blank(colors)
  BY DEF BlankRow
<1> QED  BY <1>1, BlankShade

LEMMA LinedShows ==
  ASSUME NEW from, NEW text, Shows(from, text)
  PROVE  Shows(Lined(from), IF AtBottom THEN Scrolled(text) ELSE text)
<1>1. CASE ~AtBottom
  BY <1>1 DEF Lined
<1>2. CASE AtBottom
  <2> SUFFICES ASSUME NEW y \in Rows, NEW x \in Columns,
                      NEW r \in 0 .. FontHeight - 1, NEW c \in 0 .. FontWidth - 1
               PROVE  Uncovered(Moved(from))[At(x, y, c, r)] = Shade(Scrolled(text)[y][x], r, c)
    BY <1>2, Zenon DEF Shows, Lined
  <2> DEFINE a == At(x, y, c, r)  p == y * FontHeight + r  q == x * FontWidth + c
             s == ScrollAmount * FontHeight  k == Height - ScrollAmount
  <2>1. a \in Memory /\ Row(a) = p /\ Column(a) = q /\ p \in Nat /\ q \in 0 .. PixelWidth - 1
    BY PixelPlace
  <2>2. /\ y \in Nat /\ k \in Nat /\ k + ScrollAmount = Height /\ y < Height /\ ScrollAmount \in Nat
        /\ FontHeight \in Nat \ {0} /\ Stride \in Nat \ {0} /\ PixelWidth \in Nat /\ PixelWidth <= Stride
    BY ScreenAssumption, Sizes
  <2>3. /\ ClearPtr \in Nat /\ ToMove = ClearPtr * Stride /\ s \in Nat /\ Offset = s * Stride
        /\ ClearPtr + s = Height * FontHeight /\ ClearPtr = k * FontHeight
    BY ScrollSizes, Zenon DEF ClearPtr
  <2>4. p + 1 <= y * FontHeight + FontHeight /\ y * FontHeight <= p /\ y * FontHeight \in Nat
    <3> DEFINE w == y * FontHeight
    <3>1. w \in Nat /\ p = w + r
      BY <2>2, ProductType
    <3> HIDE DEF w, p
    <3> QED  BY <2>2, <3>1 DEF w
  <2>5. a = p * Stride + q
    BY <2>1, WordPlace
  <2>6. Uncovered(Moved(from))[a] =
          IF p \in ClearPtr .. ClearPtr + s - 1 THEN colors.bg ELSE Moved(from)[a]
    <3>1. Column(a) < PixelWidth
      BY <2>1, <2>2
    <3> HIDE DEF a
    <3> QED  BY <2>1, <3>1, Zenon DEF Uncovered, ClearPtr
  <2>7. CASE y + ScrollAmount < Height
    <3>1. y \in 0 .. k - 1
      BY <2>2, <2>7
    <3>2. y * FontHeight + FontHeight <= k * FontHeight
      BY <2>2, <3>1, LastEnds
    <3>3. p < ClearPtr
      BY <2>1, <2>2, <2>3, <2>4, <3>2
    <3>4. a < ToMove
      <4>1. p \in 0 .. ClearPtr - 1
        BY <2>1, <2>3, <3>3
      <4>2. p * Stride + Stride <= ClearPtr * Stride
        BY <2>2, <2>3, <4>1, LastEnds
      <4>3. p * Stride \in Nat /\ ClearPtr * Stride \in Nat
        BY <2>1, <2>2, <2>3, ProductType
      <4> QED  BY <2>1, <2>2, <2>3, <2>5, <4>2, <4>3
    <3>5. Moved(from)[a] = from[a + Offset]
      <4> HIDE DEF a
      <4> QED  BY <2>1, <3>4, Zenon DEF Moved, ToMove, Offset
    <3>6. a + Offset = At(x, y + ScrollAmount, c, r)
      <4> DEFINE t == (y + ScrollAmount) * FontHeight + r
      <4>1. t = p + s
        <5>1. (y + ScrollAmount) * FontHeight = y * FontHeight + s
          BY <2>2, Distributes
        <5> QED  BY <2>3, <2>4, <5>1
      <4>2. At(x, y + ScrollAmount, c, r) = t * Stride + q
        <5>1. y + ScrollAmount \in Rows
          BY <2>2, <2>7
        <5>2. /\ At(x, y + ScrollAmount, c, r) \in Memory
              /\ Row(At(x, y + ScrollAmount, c, r)) = t /\ Column(At(x, y + ScrollAmount, c, r)) = q
          BY <5>1, PixelPlace
        <5> QED  BY <5>2, WordPlace
      <4>3. (p + s) * Stride = p * Stride + s * Stride /\ p * Stride \in Nat /\ s * Stride \in Nat
        BY <2>1, <2>2, <2>3, Distributes, ProductType
      <4> HIDE DEF t, p, s, q, a
      <4> QED  BY <2>1, <2>2, <2>3, <2>5, <4>1, <4>2, <4>3
    <3>7. Scrolled(text)[y] = text[y + ScrollAmount] /\ y + ScrollAmount \in Rows
      BY <2>2, <2>7 DEF Scrolled
    <3>8. from[At(x, y + ScrollAmount, c, r)] = Shade(text[y + ScrollAmount][x], r, c)
      BY <3>7 DEF Shows
    <3>9. ~(p \in ClearPtr .. ClearPtr + s - 1)
      BY <2>1, <2>3, <3>3
    <3> HIDE DEF a, p, s
    <3> QED  BY <2>6, <3>5, <3>6, <3>7, <3>8, <3>9, Zenon DEF a
  <2>8. CASE ~(y + ScrollAmount < Height)
    <3>1. k <= y /\ y \in 0 .. Height - 1
      BY <2>2, <2>8
    <3>2. k * FontHeight <= y * FontHeight
      BY <2>2, <3>1, Monotone
    <3>3. y * FontHeight + FontHeight <= Height * FontHeight
      BY <2>2, <3>1, LastEnds
    <3>4. p \in ClearPtr .. ClearPtr + s - 1
      <4> DEFINE w == y * FontHeight  h == Height * FontHeight
      <4>1. w \in Nat /\ ClearPtr <= w /\ w + FontHeight <= h /\ ClearPtr + s = h
            /\ p + 1 <= w + FontHeight /\ w <= p
        BY <2>3, <2>4, <3>2, <3>3
      <4> HIDE DEF w, h, p, s
      <4> QED  BY <2>1, <2>2, <2>3, <4>1
    <3>5. Scrolled(text)[y] = BlankRow
      BY <2>8 DEF Scrolled
    <3> HIDE DEF a, p, s
    <3> QED  BY <2>6, <3>4, <3>5, BlankCells, Zenon DEF a
  <2> QED  BY <2>7, <2>8
<1> QED  BY <1>1, <1>2

LEMMA ClearedShows ==
  ASSUME NEW from,
         \A a \in Memory : Row(a) < PixelHeight /\ Column(a) < PixelWidth => from[a] = colors.bg
  PROVE  Shows(from, [y \in Rows |-> BlankRow])
<1> SUFFICES ASSUME NEW y \in Rows, NEW x \in Columns,
                    NEW r \in 0 .. FontHeight - 1, NEW c \in 0 .. FontWidth - 1
             PROVE  from[At(x, y, c, r)] = Shade(BlankRow[x], r, c)
  BY DEF Shows
<1>1. /\ At(x, y, c, r) \in Memory
      /\ Row(At(x, y, c, r)) \in 0 .. PixelHeight - 1 /\ Column(At(x, y, c, r)) \in 0 .. PixelWidth - 1
  BY PixelPlace
<1>2. Row(At(x, y, c, r)) < PixelHeight /\ Column(At(x, y, c, r)) < PixelWidth
  BY <1>1, Sizes
<1>3. from[At(x, y, c, r)] = colors.bg
  BY <1>1, <1>2
<1> QED  BY <1>3, BlankCells

ShowsInv == TypeOK /\ Inv /\ Shows(pixels, screen)

LEMMA ShowsStep ==
  ASSUME FontWidth <= 8
  PROVE  ShowsInv /\ [PixelNext]_<<vars, pixels>> => ShowsInv'
<1> SUFFICES ASSUME ShowsInv, [PixelNext]_<<vars, pixels>> PROVE ShowsInv'
  OBVIOUS
<1>1. TypeOK' /\ Inv'
  BY PixelsExtend, StepInv, StepTypes DEF ShowsInv
<1>2. CursorOnScreen /\ screen \in Screens /\ Shows(pixels, screen)
  BY DEF ShowsInv, Inv, TypeOK, Screens, Cells
<1>3. ASSUME NEW ch \in Chars, Write(ch) PROVE Shows(pixels', screen')
  <2>1. CASE writeState = "Idle" /\ ch # ESC
    <3> DEFINE drawn == [screen EXCEPT ![cursor.y][cursor.x] = Cell(ch)]
    <3>1. print(ch) /\ pixels' = Printed(ch)
      BY <1>3, <2>1 DEF Write, write, WriteIdle, WriteEscape, WriteCSI
    <3>2. Shows(Drawn(ch), drawn)
      BY <1>2, DrawnShows
    <3> HIDE DEF drawn
    <3>3. CASE ch = LF
      <4>1. newline(screen) /\ pixels' = Lined(pixels)
        BY <3>1, <3>3, Zenon DEF print, Printed
      <4> QED  BY <1>2, <4>1, LinedShows DEF newline
    <3>4. CASE ch # LF /\ AtRight
      <4>1. newline(drawn) /\ pixels' = Lined(Drawn(ch))
        BY <3>1, <3>4 DEF print, Printed, drawn
      <4> QED  BY <3>2, <4>1, LinedShows DEF newline
    <3>5. CASE ch # LF /\ ~AtRight
      <4>1. screen' = drawn /\ pixels' = Drawn(ch)
        BY <3>1, <3>5 DEF print, Printed, drawn
      <4> QED  BY <3>2, <4>1
    <3> QED  BY <3>3, <3>4, <3>5
  <2>2. CASE ~(writeState = "Idle" /\ ch # ESC)
    <3>1. screen' = screen /\ pixels' = pixels
      BY <1>3, <2>2 DEF Write, write, WriteIdle, WriteEscape, WriteCSI
    <3> QED  BY <1>2, <3>1
  <2> QED  BY <2>1, <2>2
<1>4. ASSUME Clear PROVE Shows(pixels', screen')
  <2>1. pixels' = Cleared /\ screen' = [y \in Rows |-> BlankRow]
    BY <1>4 DEF Clear, clear
  <2>2. \A a \in Memory : Row(a) < PixelHeight /\ Column(a) < PixelWidth => Cleared[a] = colors.bg
    BY DEF Cleared
  <2>3. Shows(Cleared, [y \in Rows |-> BlankRow])
    BY <2>2, ClearedShows
  <2> QED  BY <2>1, <2>3
<1>5. ASSUME UNCHANGED <<vars, pixels>> PROVE Shows(pixels', screen')
  BY <1>2, <1>5 DEF vars
<1>6. Shows(pixels', screen')
  BY <1>3, <1>4, <1>5 DEF PixelNext
<1> QED  BY <1>1, <1>6 DEF ShowsInv, Shows

LEMMA ShowsInit == PixelInit => ShowsInv
<1> SUFFICES ASSUME PixelInit PROVE ShowsInv
  OBVIOUS
<1>1. TypeOK /\ Inv /\ screen = [y \in Rows |-> BlankRow]
  BY InitInv, InitTypes DEF PixelInit, Init
<1>2. \A a \in Memory : Row(a) < PixelHeight /\ Column(a) < PixelWidth => pixels[a] = colors.bg
  BY DEF PixelInit
<1>3. Shows(pixels, screen)
  BY <1>1, <1>2, ClearedShows
<1> QED  BY <1>1, <1>3 DEF ShowsInv

\* The pixels of the screen are those of its cells, with any font that is at
\* most eight columns wide, as the kernel's is, whatever has been drawn,
\* scrolled or cleared (FramebufferConsole::drawChar, ::newline, ::clear).
THEOREM PixelsShowScreen ==
  ASSUME FontWidth <= 8
  PROVE  PixelSpec => []ShowsScreen
<1>1. ShowsInv => ShowsScreen
  BY Zenon DEF ShowsInv, Shows, Shade, ShowsScreen
<1> QED  BY <1>1, ShowsInit, ShowsStep, PTL DEF PixelSpec

-----------------------------------------------------------------------------
(* PanicConsole: a call of write, a store at a time *)

\* The parsers read nothing of the state but, in Cup, the cursor: seen from
\* quiet they are the same.
LEMMA SameParsers ==
  ASSUME NEW buf, NEW ink, NEW numbers
  PROVE  /\ Calls!FitsNumber(buf) = FitsNumber(buf)
         /\ Calls!SgrNumbers(buf) = SgrNumbers(buf)
         /\ Calls!Inked(ink, numbers) = Inked(ink, numbers)
         /\ cursor = quiet.cursor => Calls!Cup(buf) = Cup(buf)
<1>1. ASSUME NEW s PROVE Calls!StrToInt(s) = StrToInt(s)
  BY Zenon DEF Calls!StrToInt, StrToInt, Calls!While, While, Calls!Max, Max, Calls!IsDigit, IsDigit,
               Calls!Zero, Zero
<1>2. ASSUME NEW s PROVE Calls!Numbers(s) = Numbers(s)
  BY Zenon DEF Calls!Cardinality, Cardinality, Calls!Numbers, Numbers, Calls!Semicolon, Semicolon
<1>3. Calls!Text(buf) = Text(buf)
  BY Zenon DEF Calls!Front, Front, Calls!Text, Text, Calls!While, While, Calls!Max, Max
<1>4. Calls!FitsNumber(buf) = FitsNumber(buf)
  BY Zenon, <1>2, <1>3 DEF Calls!FitsNumber, FitsNumber
<1>5. Calls!SgrNumbers(buf) = SgrNumbers(buf)
  BY Zenon, <1>2, <1>3 DEF Calls!Last, Last, Calls!Front, Front, Calls!SgrNumbers, SgrNumbers
<1>6. Calls!Inked(ink, numbers) = Inked(ink, numbers)
  BY Zenon DEF Calls!Inked, Inked, Calls!Sgr, Sgr, Calls!StrToInt, StrToInt, Calls!While, While,
               Calls!Max, Max, Calls!IsDigit, IsDigit, Calls!Zero, Zero, Calls!DefaultInk, DefaultInk
<1>7. ASSUME NEW s PROVE Calls!Origin(s) = Origin(s)
  BY <1>1, Zenon DEF Calls!Origin, Origin
<1>8. cursor = quiet.cursor => Calls!Cup(buf) = Cup(buf)
  BY <1>2, <1>3, <1>7, Zenon DEF Calls!Cup, Cup
<1> QED  BY <1>4, <1>5, <1>6, <1>8

-----------------------------------------------------------------------------
(* The console between two stores *)

Places == {"return", "escape", "draw", "right", "newline", "down", "scroll", "up", "bracket",
           "empty", "reserve", "store", "process", "update", "idle"}

\* A call found it with room: what Console keeps true
QuietFits ==
  /\ quiet.cursor \in Positions /\ quiet.ansiBuf \in Seq(Chars)
  /\ quiet.writeState \in {"Idle", "AnsiEscapeStart", "AnsiReadingCSI"}
  /\ IF quiet.writeState = "AnsiReadingCSI" THEN Len(quiet.ansiBuf) < AnsiBufSize
                                            ELSE quiet.ansiBuf = <<>>

Begun(state) == quiet = Snapshot /\ writeState = state

InkKept == colorIndices = quiet.colorIndices /\ colors = quiet.colors

\* In print: the text with the character in it, the cursor on its way
TextNow ==
  IF char = LF THEN quiet.screen
  ELSE [quiet.screen EXCEPT ![quiet.cursor.y][quiet.cursor.x] = Calls!Cell(char)]

Printing(x, y, text) ==
  /\ writeState = "Idle" /\ quiet.writeState = "Idle" /\ char # ESC /\ InkKept
  /\ cursor = [x |-> x, y |-> y] /\ screen = text

LineFull == char = LF \/ quiet.cursor.x + 1 = Width

\* In the parser: what it has stored, and what the sequence has done
Reading(buf) ==
  /\ writeState = "AnsiReadingCSI" /\ quiet.writeState = "AnsiReadingCSI"
  /\ screen = quiet.screen /\ ansiBuf = buf

Stored == Append(quiet.ansiBuf, char)

Coloured ==
  /\ Last(Stored) = 109 /\ FitsNumber(Stored) /\ cursor = quiet.cursor
  /\ colorIndices = Inked(quiet.colorIndices, SgrNumbers(Stored))

Placed ==
  /\ Last(Stored) = 72 /\ FitsNumber(Stored) /\ InkKept
  /\ cursor = Calls!Cup(Stored) /\ cursor \in Positions

Ignored == Last(Stored) \notin {109, 72} /\ cursor = quiet.cursor /\ InkKept

AtPc ==
  /\ pc = "return"  => quiet = Snapshot
  /\ pc = "escape"  => Begun("Idle") /\ char = ESC
  /\ pc = "draw"    => Begun("Idle") /\ char \notin {ESC, LF}
  /\ pc = "right"   => Printing(quiet.cursor.x, quiet.cursor.y, TextNow) /\ char # LF
  /\ pc = "newline" => \/ Printing(quiet.cursor.x, quiet.cursor.y, TextNow) /\ char = LF
                       \/ Printing(Width, quiet.cursor.y, TextNow) /\ LineFull
  /\ pc = "down"    => Printing(0, quiet.cursor.y, TextNow) /\ LineFull
  /\ pc = "scroll"  => Printing(0, Height, TextNow) /\ LineFull /\ quiet.cursor.y + 1 = Height
  /\ pc = "up"      => /\ Printing(0, Height, Calls!Scrolled(TextNow)) /\ LineFull
                       /\ quiet.cursor.y + 1 = Height
  /\ pc = "bracket" => Begun("AnsiEscapeStart")
  /\ pc = "empty"   => /\ writeState = "AnsiReadingCSI" /\ quiet.writeState = "AnsiEscapeStart"
                       /\ char = Bracket /\ screen = quiet.screen /\ cursor = quiet.cursor /\ InkKept
  /\ pc = "reserve" => Begun("AnsiReadingCSI")
  /\ pc = "store"   => Reading(Append(quiet.ansiBuf, 0)) /\ cursor = quiet.cursor /\ InkKept
  /\ pc = "process" => Reading(Stored) /\ IsFinal(char) /\ cursor = quiet.cursor /\ InkKept
  /\ pc = "update"  => Reading(Stored) /\ IsFinal(char) /\ Coloured /\ colors = quiet.colors
  /\ pc = "idle"    => /\ Reading(Stored)
                       /\ \/ /\ ~IsFinal(char) /\ Len(Stored) = AnsiBufSize
                             /\ cursor = quiet.cursor /\ InkKept
                          \/ IsFinal(char) /\ Coloured /\ colors = colorIndices
                          \/ IsFinal(char) /\ (Placed \/ Ignored)

CallInv ==
  ~struck.yes =>
    /\ QuietFits /\ AtPc /\ pc \in Places
    /\ rest \in Seq(Chars) /\ (pc # "return" => char \in Chars)

USE DEF Rows, Columns, Positions, Calls!Rows, Calls!Columns, Calls!Positions

LEMMA SnapshotFields ==
  quiet = Snapshot =>
    /\ quiet.screen = screen /\ quiet.cursor = cursor /\ quiet.writeState = writeState
    /\ quiet.ansiBuf = IF writeState = "AnsiReadingCSI" THEN ansiBuf ELSE <<>>
    /\ InkKept
BY DEF Snapshot, InkKept

\* A step inside of a call: nothing returns, and Console does nothing
LEMMA InsideCall ==
  ASSUME CallInv, ~struck.yes, pc # "return", NEW next \in Places \ {"return"}, To(next), AtPc'
  PROVE  CallInv' /\ UNCHANGED Calls!vars
<1>1. pc' = next /\ quiet' = quiet /\ char' = char /\ rest' = rest /\ struck' = struck
  BY DEF To
<1> QED  BY <1>1 DEF CallInv, QuietFits, Calls!vars

\* The last step of a call
LEMMA ReturnsFromCall ==
  ASSUME CallInv, ~struck.yes, To("return"), cursor' \in Positions,
         writeState' \in {"Idle", "AnsiEscapeStart", "AnsiReadingCSI"},
         writeState' = "AnsiReadingCSI" => ansiBuf' \in Seq(Chars) /\ Len(ansiBuf') < AnsiBufSize
  PROVE  /\ CallInv'
         /\ quiet'.screen = screen' /\ quiet'.cursor = cursor' /\ quiet'.writeState = writeState'
         /\ quiet'.ansiBuf = IF writeState' = "AnsiReadingCSI" THEN ansiBuf' ELSE <<>>
         /\ quiet'.colorIndices = colorIndices' /\ quiet'.colors = colors'
<1>1. pc' = "return" /\ quiet' = Snapshot' /\ rest' = rest /\ struck' = struck
  BY DEF To
<1>2. /\ quiet'.screen = screen' /\ quiet'.cursor = cursor' /\ quiet'.writeState = writeState'
      /\ quiet'.ansiBuf = IF writeState' = "AnsiReadingCSI" THEN ansiBuf' ELSE <<>>
      /\ quiet'.colorIndices = colorIndices' /\ quiet'.colors = colors'
  BY <1>1 DEF Snapshot
<1>3. QuietFits'
  BY <1>2 DEF QuietFits
<1>4. AtPc' /\ pc' \in Places
  BY <1>1 DEF AtPc, Places
<1> QED  BY <1>1, <1>2, <1>3, <1>4 DEF CallInv

Goal == CallInv' /\ [Calls!Next]_(Calls!vars)

LEMMA CallStep == ASSUME CallInv, ~struck.yes, Call PROVE CallInv' /\ UNCHANGED Calls!vars
<1>1. ASSUME NEW c \in Chars, Begin(c), rest' \in Seq(Chars)
      PROVE  CallInv' /\ UNCHANGED Calls!vars
  <2>1. pc = "return" /\ quiet = Snapshot /\ QuietFits
    BY <1>1 DEF Begin, CallInv, AtPc
  <2>2. writeState \in {"Idle", "AnsiEscapeStart", "AnsiReadingCSI"}
    BY <2>1, SnapshotFields DEF QuietFits
  <2>3. UNCHANGED <<console, struck, quiet>> /\ char' = c
    BY <1>1 DEF Begin
  <2>4. Snapshot' = Snapshot
    BY <2>3 DEF Snapshot, console
  <2>5. \/ pc' = "bracket" /\ writeState = "AnsiEscapeStart"
        \/ pc' = "reserve" /\ writeState = "AnsiReadingCSI"
        \/ pc' = "escape" /\ writeState = "Idle" /\ c = ESC
        \/ pc' = "newline" /\ writeState = "Idle" /\ c = LF
        \/ pc' = "draw" /\ writeState = "Idle" /\ c \notin {ESC, LF}
    BY <1>1, <2>2 DEF Begin, ESC, LF
  <2>6. CASE pc' = "newline"
    <3>1. writeState = "Idle" /\ c = LF
      BY <2>5, <2>6
    <3>2. cursor = [x |-> quiet.cursor.x, y |-> quiet.cursor.y]
      BY <2>1, SnapshotFields DEF QuietFits
    <3>3. Printing(quiet.cursor.x, quiet.cursor.y, TextNow)'
      BY <2>1, <2>3, <3>1, <3>2, SnapshotFields
         DEF Printing, InkKept, TextNow, console, LF, ESC
    <3> QED  BY <1>1, <2>1, <2>3, <2>6, <3>1, <3>3 DEF CallInv, AtPc, Places, QuietFits, Calls!vars
  <2>7. CASE pc' # "newline"
    <3>1. AtPc' /\ pc' \in Places
      BY <2>1, <2>3, <2>4, <2>5, <2>7 DEF AtPc, Places, Begun, console
    <3> QED  BY <1>1, <2>1, <2>3, <3>1 DEF CallInv, QuietFits, Calls!vars
  <2> QED  BY <2>6, <2>7
<1>2. ASSUME rest # <<>>, Begin(Head(rest)), rest' = Tail(rest)
      PROVE  CallInv' /\ UNCHANGED Calls!vars
  <2>1. Head(rest) \in Chars /\ Tail(rest) \in Seq(Chars)
    BY <1>2, HeadTailProperties DEF CallInv
  <2> QED  BY <1>1, <1>2, <2>1
<1>3. ASSUME NEW text \in Texts, Begin(Head(text)), rest' = Tail(text)
      PROVE  CallInv' /\ UNCHANGED Calls!vars
  <2>1. Head(text) \in Chars /\ Tail(text) \in Seq(Chars)
    BY TextsAssumption, HeadTailProperties
  <2> QED  BY <1>1, <1>3, <2>1
<1> QED  BY <1>2, <1>3 DEF Call

-----------------------------------------------------------------------------
(* print, a store at a time *)

LEMMA SameDrawing ==
  /\ Calls!ESC = ESC /\ Calls!LF = LF
  /\ \A c : InkKept => Calls!Cell(c) = Cell(c)
  /\ \A text : InkKept => Calls!Scrolled(text) = Scrolled(text)
BY DEF Calls!ESC, ESC, Calls!LF, LF, InkKept, Calls!Cell, Cell, Calls!Glyph, Glyph,
       Calls!Scrolled, Scrolled, Calls!BlankRow, BlankRow, Calls!Blank, Blank

\* The contract is about the end of a sequence only
LEMMA SentByCalls ==
  ASSUME char \in Chars, Calls!write(char), quiet.writeState # "AnsiReadingCSI" \/ ~IsFinal(char)
  PROVE  Calls!Next
BY DEF Calls!Next, Calls!Sent, Calls!IsFinal, IsFinal

LEMMA EscapeStep == ASSUME CallInv, ~struck.yes, Escape PROVE Goal
<1>1. /\ Begun("Idle") /\ char = ESC /\ char \in Chars /\ QuietFits
      /\ writeState' = "AnsiEscapeStart" /\ To("return")
      /\ UNCHANGED <<screen, cursor, ansiBuf, colorIndices, colors>>
  BY DEF Escape, SetState, CallInv, AtPc
<1>2. quiet.cursor = cursor /\ quiet.writeState = "Idle" /\ quiet.ansiBuf = <<>> /\ quiet.screen = screen
      /\ InkKept
  BY <1>1, SnapshotFields DEF Begun
<1>3. cursor' \in Positions
  BY <1>1, <1>2 DEF QuietFits
<1>4. /\ CallInv'
      /\ quiet'.screen = screen' /\ quiet'.cursor = cursor' /\ quiet'.writeState = writeState'
      /\ quiet'.ansiBuf = <<>>
      /\ quiet'.colorIndices = colorIndices' /\ quiet'.colors = colors'
  BY <1>1, <1>3, ReturnsFromCall
<1>5. Calls!WriteIdle(char)
  BY <1>1, <1>2, <1>4, SameDrawing DEF Calls!WriteIdle, InkKept
<1> QED  BY <1>1, <1>2, <1>4, <1>5, SentByCalls DEF Goal, Calls!write

LEMMA DrawStep == ASSUME CallInv, ~struck.yes, Draw PROVE Goal
<1>1. /\ Begun("Idle") /\ char \notin {ESC, LF} /\ QuietFits /\ pc = "draw"
      /\ To("right") /\ UNCHANGED <<cursor, writeState, ansiBuf, colorIndices, colors>>
  BY DEF Draw, CallInv, AtPc
<1>2. /\ quiet.cursor = cursor /\ quiet.writeState = "Idle" /\ quiet.screen = screen /\ InkKept
      /\ writeState = "Idle"
  BY <1>1, SnapshotFields DEF Begun
<1>3. pc' = "right" /\ UNCHANGED <<quiet, char>>
  BY <1>1 DEF To
<1>4. TextNow' = TextNow
  BY <1>3 DEF TextNow, Calls!Cell
<1>5. screen' = TextNow
  BY <1>1, <1>2, SameDrawing DEF Draw, QuietFits, TextNow
<1>6. cursor' = [x |-> quiet.cursor.x, y |-> quiet.cursor.y]
  BY <1>1, <1>2 DEF QuietFits
<1>7. Printing(quiet.cursor.x, quiet.cursor.y, TextNow)'
  BY <1>1, <1>2, <1>3, <1>4, <1>5, <1>6 DEF Printing, InkKept
<1>8. AtPc'
  BY <1>1, <1>3, <1>7 DEF AtPc, LF, ESC
<1>9. CallInv' /\ UNCHANGED Calls!vars
  BY <1>1, <1>8, InsideCall DEF Places
<1> QED  BY <1>9 DEF Goal

\* What print does to the line a step ends
LEMMA LineDone ==
  ASSUME CallInv, ~struck.yes, pc # "return", LineFull, quiet.writeState = "Idle", char # ESC,
         quiet'.writeState = "Idle", quiet'.ansiBuf = <<>>,
         quiet'.colorIndices = quiet.colorIndices, quiet'.colors = quiet.colors,
         Calls!newline(TextNow)
  PROVE  Calls!Next
<1>1. char \in Chars /\ QuietFits
  BY DEF CallInv
<1>2. Calls!print(char)
  BY <1>1, SameDrawing DEF Calls!print, TextNow, LineFull, Calls!AtRight
<1>3. Calls!WriteIdle(char)
  BY <1>1, <1>2, SameDrawing DEF Calls!WriteIdle, QuietFits
<1> QED  BY <1>1, <1>3, SentByCalls DEF Calls!write

LEMMA RightStep == ASSUME CallInv, ~struck.yes, Right PROVE Goal
<1>1. /\ Printing(quiet.cursor.x, quiet.cursor.y, TextNow) /\ char # LF /\ QuietFits
      /\ pc = "right" /\ char \in Chars
  BY DEF Right, CallInv, AtPc
<1>2. /\ cursor' = [x |-> quiet.cursor.x + 1, y |-> quiet.cursor.y]
      /\ UNCHANGED <<screen, writeState, ansiBuf, colorIndices, colors>>
  BY <1>1 DEF Right, MoveTo, Printing
<1>3. quiet.cursor.x \in Columns /\ quiet.cursor.y \in Rows
      /\ cursor.x = quiet.cursor.x
  BY <1>1 DEF QuietFits, Printing
<1>4. CASE quiet.cursor.x + 1 = Width
  <2>1. To("newline")
    BY <1>3, <1>4 DEF Right
  <2>2. pc' = "newline" /\ UNCHANGED <<quiet, char>>
    BY <2>1 DEF To
  <2>3. TextNow' = TextNow
    BY <2>2 DEF TextNow, Calls!Cell
  <2>4. Printing(Width, quiet.cursor.y, TextNow)' /\ LineFull'
    BY <1>1, <1>2, <1>4, <2>2, <2>3 DEF Printing, InkKept, LineFull
  <2>5. AtPc'
    BY <2>2, <2>4 DEF AtPc
  <2>6. CallInv' /\ UNCHANGED Calls!vars
    BY <1>1, <2>1, <2>5, InsideCall DEF Places
  <2> QED  BY <2>6 DEF Goal
<1>5. CASE quiet.cursor.x + 1 # Width
  <2>1. To("return")
    BY <1>3, <1>5 DEF Right
  <2>2. cursor' \in Positions /\ writeState' = "Idle"
    BY <1>1, <1>2, <1>3, <1>5, ScreenAssumption DEF Printing
  <2>3. /\ CallInv'
        /\ quiet'.screen = screen' /\ quiet'.cursor = cursor' /\ quiet'.writeState = writeState'
        /\ quiet'.ansiBuf = <<>>
        /\ quiet'.colorIndices = colorIndices' /\ quiet'.colors = colors'
    BY <2>1, <2>2, ReturnsFromCall
  <2>4. quiet'.screen = TextNow /\ quiet'.cursor = [quiet.cursor EXCEPT !.x = @ + 1]
    BY <1>1, <1>2, <1>3, <2>3 DEF Printing, QuietFits
  <2>5. Calls!print(char)
    BY <1>1, <1>5, <2>4, SameDrawing DEF Calls!print, Calls!AtRight, TextNow
  <2>6. Calls!WriteIdle(char)
    BY <1>1, <1>2, <2>2, <2>3, <2>5, SameDrawing DEF Calls!WriteIdle, Printing, InkKept, QuietFits
  <2> QED  BY <1>1, <2>3, <2>6, SentByCalls DEF Goal, Calls!write, Printing
<1> QED  BY <1>4, <1>5

LEMMA NewlineStep == ASSUME CallInv, ~struck.yes, Newline PROVE Goal
<1>1. /\ \/ Printing(quiet.cursor.x, quiet.cursor.y, TextNow) /\ char = LF
         \/ Printing(Width, quiet.cursor.y, TextNow) /\ LineFull
      /\ QuietFits /\ pc = "newline"
  BY DEF Newline, CallInv, AtPc
<1>2. LineFull /\ cursor.y = quiet.cursor.y
  BY <1>1 DEF LineFull, Printing
<1>3. /\ cursor' = [x |-> 0, y |-> quiet.cursor.y] /\ To("down")
      /\ UNCHANGED <<screen, writeState, ansiBuf, colorIndices, colors>>
  BY <1>2 DEF Newline, MoveTo
<1>4. pc' = "down" /\ UNCHANGED <<quiet, char>>
  BY <1>3 DEF To
<1>5. TextNow' = TextNow
  BY <1>4 DEF TextNow, Calls!Cell
<1>6. Printing(0, quiet.cursor.y, TextNow)' /\ LineFull'
  BY <1>1, <1>2, <1>3, <1>4, <1>5 DEF Printing, InkKept, LineFull
<1>7. AtPc'
  BY <1>4, <1>6 DEF AtPc
<1>8. CallInv' /\ UNCHANGED Calls!vars
  BY <1>1, <1>3, <1>7, InsideCall DEF Places
<1> QED  BY <1>8 DEF Goal

LEMMA DownStep == ASSUME CallInv, ~struck.yes, Down PROVE Goal
<1>1. Printing(0, quiet.cursor.y, TextNow) /\ LineFull /\ QuietFits /\ pc = "down"
  BY DEF Down, CallInv, AtPc
<1>2. /\ cursor' = [x |-> 0, y |-> quiet.cursor.y + 1]
      /\ UNCHANGED <<screen, writeState, ansiBuf, colorIndices, colors>>
  BY <1>1 DEF Down, MoveTo, Printing
<1>3. quiet.cursor.x \in Columns /\ quiet.cursor.y \in Rows /\ cursor.y = quiet.cursor.y
  BY <1>1 DEF QuietFits, Printing
<1>4. CASE quiet.cursor.y + 1 = Height
  <2>1. To("scroll")
    BY <1>3, <1>4 DEF Down
  <2>2. pc' = "scroll" /\ UNCHANGED <<quiet, char>>
    BY <2>1 DEF To
  <2>3. TextNow' = TextNow
    BY <2>2 DEF TextNow, Calls!Cell
  <2>4. Printing(0, Height, TextNow)' /\ LineFull' /\ (quiet.cursor.y + 1 = Height)'
    BY <1>1, <1>2, <1>4, <2>2, <2>3 DEF Printing, InkKept, LineFull
  <2>5. AtPc'
    BY <2>2, <2>4 DEF AtPc
  <2>6. CallInv' /\ UNCHANGED Calls!vars
    BY <1>1, <2>1, <2>5, InsideCall DEF Places
  <2> QED  BY <2>6 DEF Goal
<1>5. CASE quiet.cursor.y + 1 # Height
  <2>1. To("return")
    BY <1>3, <1>5 DEF Down
  <2>2. cursor' \in Positions /\ writeState' = "Idle"
    BY <1>1, <1>2, <1>3, <1>5, ScreenAssumption DEF Printing
  <2>3. /\ CallInv'
        /\ quiet'.screen = screen' /\ quiet'.cursor = cursor' /\ quiet'.writeState = writeState'
        /\ quiet'.ansiBuf = <<>>
        /\ quiet'.colorIndices = colorIndices' /\ quiet'.colors = colors'
    BY <2>1, <2>2, ReturnsFromCall
  <2>4. Calls!newline(TextNow)
    BY <1>1, <1>2, <1>5, <2>3 DEF Calls!newline, Calls!AtBottom, Printing
  <2>5. Calls!Next
    BY <1>1, <1>2, <2>2, <2>3, <2>4, LineDone DEF Printing, InkKept
  <2> QED  BY <2>3, <2>5 DEF Goal
<1> QED  BY <1>4, <1>5

LEMMA ScrollStep == ASSUME CallInv, ~struck.yes, Scroll PROVE Goal
<1>1. /\ Printing(0, Height, TextNow) /\ LineFull /\ quiet.cursor.y + 1 = Height
      /\ QuietFits /\ pc = "scroll"
  BY DEF Scroll, CallInv, AtPc
<1>2. /\ screen' = Calls!Scrolled(TextNow) /\ To("up")
      /\ UNCHANGED <<cursor, writeState, ansiBuf, colorIndices, colors>>
  BY <1>1, SameDrawing DEF Scroll, Printing
<1>3. pc' = "up" /\ UNCHANGED <<quiet, char>>
  BY <1>2 DEF To
<1>4. Calls!Scrolled(TextNow)' = Calls!Scrolled(TextNow)
  BY <1>3 DEF TextNow, Calls!Cell, Calls!Scrolled, Calls!BlankRow, Calls!Blank
<1>5. Printing(0, Height, Calls!Scrolled(TextNow))' /\ LineFull' /\ (quiet.cursor.y + 1 = Height)'
  BY <1>1, <1>2, <1>3, <1>4 DEF Printing, InkKept, LineFull
<1>6. AtPc'
  BY <1>3, <1>5 DEF AtPc
<1>7. CallInv' /\ UNCHANGED Calls!vars
  BY <1>1, <1>2, <1>6, InsideCall DEF Places
<1> QED  BY <1>7 DEF Goal

LEMMA UpStep == ASSUME CallInv, ~struck.yes, Up PROVE Goal
<1>1. /\ Printing(0, Height, Calls!Scrolled(TextNow)) /\ LineFull /\ quiet.cursor.y + 1 = Height
      /\ QuietFits /\ pc = "up"
  BY DEF Up, CallInv, AtPc
<1>2. /\ cursor' = [x |-> 0, y |-> Height - ScrollAmount] /\ To("return")
      /\ UNCHANGED <<screen, writeState, ansiBuf, colorIndices, colors>>
  BY <1>1 DEF Up, MoveTo, Printing
<1>3. cursor' \in Positions /\ writeState' = "Idle"
  BY <1>1, <1>2, ScreenAssumption DEF Printing
<1>4. /\ CallInv'
      /\ quiet'.screen = screen' /\ quiet'.cursor = cursor' /\ quiet'.writeState = writeState'
      /\ quiet'.ansiBuf = <<>>
      /\ quiet'.colorIndices = colorIndices' /\ quiet'.colors = colors'
  BY <1>2, <1>3, ReturnsFromCall
<1>5. Calls!newline(TextNow)
  <2>1. quiet'.cursor = [x |-> 0, y |-> quiet.cursor.y + 1 - ScrollAmount]
    <3>1. quiet.cursor.y + 1 - ScrollAmount = Height - ScrollAmount
      <4>1. quiet.cursor.y \in Nat
        BY <1>1 DEF QuietFits
      <4>2. quiet.cursor.y + 1 = Height
        BY <1>1
      <4>3. ScrollAmount \in Nat /\ Height \in Nat
        BY ScreenAssumption
      <4> DEFINE row == quiet.cursor.y
      <4> HIDE DEF row
      <4>4. row \in Nat /\ row + 1 = Height
        BY <4>1, <4>2 DEF row
      <4>5. row + 1 - ScrollAmount = Height - ScrollAmount
        BY <4>3, <4>4
      <4> QED  BY <4>5 DEF row
    <3>2. quiet'.cursor = [x |-> 0, y |-> Height - ScrollAmount]
      BY <1>2, <1>4
    <3> QED  BY <3>1, <3>2, Zenon
  <2>2. quiet'.screen = Calls!Scrolled(TextNow)
    BY <1>1, <1>2, <1>4 DEF Printing
  <2> QED  BY <1>1, <2>1, <2>2 DEF Calls!newline, Calls!AtBottom
<1>6. Calls!Next
  BY <1>1, <1>2, <1>3, <1>4, <1>5, LineDone DEF Printing, InkKept
<1> QED  BY <1>4, <1>6 DEF Goal

-----------------------------------------------------------------------------
(* The parser, a store at a time *)

LEMMA FrontOfAppend ==
  ASSUME NEW S, NEW s \in Seq(S), NEW e
  PROVE  Front(Append(s, e)) = s
<1> DEFINE t == Append(s, e)  n == Len(s)
<1>1. n \in Nat /\ t \in Seq(S \cup {e}) /\ Len(t) = n + 1 /\ \A i \in 1 .. n : t[i] = s[i]
  OBVIOUS
<1> HIDE DEF t
<1>2. Front(t) = SubSeq(t, 1, n)
  BY <1>1 DEF Front
<1>3. SubSeq(t, 1, n) = [i \in 1 .. n |-> t[i]]
  BY <1>1
<1>4. s = [i \in 1 .. n |-> s[i]]
  OBVIOUS
<1>5. SubSeq(t, 1, n) = s
  BY <1>1, <1>3, <1>4
<1> QED  BY <1>2, <1>5 DEF t

LEMMA StoredFacts ==
  ASSUME QuietFits, char \in Chars, quiet.writeState = "AnsiReadingCSI"
  PROVE  /\ Stored \in Seq(Chars) /\ Len(Stored) = Len(quiet.ansiBuf) + 1
         /\ Len(Stored) \in 1 .. AnsiBufSize /\ Last(Stored) = char
         /\ (Len(Stored) # AnsiBufSize => Len(Stored) < AnsiBufSize)
<1> DEFINE s == quiet.ansiBuf
<1>1. s \in Seq(Chars) /\ Len(s) < AnsiBufSize /\ AnsiBufSize \in Nat
  BY BufferAssumption DEF QuietFits
<1>2. Stored = Append(s, char)
  BY DEF Stored
<1> HIDE DEF s
<1>3. Stored \in Seq(Chars) /\ Len(Stored) = Len(s) + 1 /\ Stored[Len(s) + 1] = char /\ Len(s) \in Nat
  BY <1>1, <1>2
<1> QED  BY <1>1, <1>3 DEF Last, s

LEMMA BracketedStep == ASSUME CallInv, ~struck.yes, Bracketed PROVE Goal
<1>1. Begun("AnsiEscapeStart") /\ QuietFits /\ pc = "bracket" /\ char \in Chars
  BY DEF Bracketed, CallInv, AtPc
<1>2. /\ quiet.cursor = cursor /\ quiet.writeState = "AnsiEscapeStart" /\ quiet.screen = screen
      /\ InkKept
  BY <1>1, SnapshotFields DEF Begun
<1>3. UNCHANGED <<screen, cursor, ansiBuf, colorIndices, colors>>
  BY DEF Bracketed, SetState
<1>4. CASE char = Bracket
  <2>1. writeState' = "AnsiReadingCSI" /\ To("empty")
    BY <1>4 DEF Bracketed, SetState
  <2>2. pc' = "empty" /\ UNCHANGED <<quiet, char>>
    BY <2>1 DEF To
  <2>3. AtPc'
    BY <1>2, <1>3, <1>4, <2>1, <2>2 DEF AtPc, InkKept
  <2>4. CallInv' /\ UNCHANGED Calls!vars
    BY <1>1, <2>1, <2>3, InsideCall DEF Places
  <2> QED  BY <2>4 DEF Goal
<1>5. CASE char # Bracket
  <2>1. writeState' = "Idle" /\ To("return")
    BY <1>5 DEF Bracketed, SetState
  <2>2. cursor' \in Positions
    BY <1>1, <1>2, <1>3 DEF QuietFits
  <2>3. /\ CallInv'
        /\ quiet'.screen = screen' /\ quiet'.cursor = cursor' /\ quiet'.writeState = writeState'
        /\ quiet'.ansiBuf = <<>>
        /\ quiet'.colorIndices = colorIndices' /\ quiet'.colors = colors'
    BY <2>1, <2>2, ReturnsFromCall
  <2>4. Calls!WriteEscape(char)
    BY <1>2, <1>3, <1>5, <2>1, <2>3 DEF Calls!WriteEscape, InkKept, Calls!Bracket, Bracket
  <2> QED  BY <1>1, <1>2, <2>3, <2>4, SentByCalls DEF Goal, Calls!write
<1> QED  BY <1>4, <1>5

LEMMA EmptyStep == ASSUME CallInv, ~struck.yes, Empty PROVE Goal
<1>1. /\ writeState = "AnsiReadingCSI" /\ quiet.writeState = "AnsiEscapeStart"
      /\ char = Bracket /\ screen = quiet.screen /\ cursor = quiet.cursor /\ InkKept
      /\ QuietFits /\ char \in Chars
  BY DEF Empty, CallInv, AtPc
<1>2. /\ ansiBuf' = <<>> /\ To("return")
      /\ UNCHANGED <<screen, cursor, writeState, colorIndices, colors>>
  BY DEF Empty, Store
<1>3. cursor' \in Positions /\ <<>> \in Seq(Chars) /\ Len(<<>>) < AnsiBufSize
  BY <1>1, <1>2, BufferAssumption DEF QuietFits
<1>4. /\ CallInv'
      /\ quiet'.screen = screen' /\ quiet'.cursor = cursor' /\ quiet'.writeState = writeState'
      /\ quiet'.ansiBuf = <<>>
      /\ quiet'.colorIndices = colorIndices' /\ quiet'.colors = colors'
  BY <1>1, <1>2, <1>3, ReturnsFromCall
<1>5. Calls!WriteEscape(char)
  BY <1>1, <1>2, <1>4 DEF Calls!WriteEscape, InkKept, Calls!Bracket, Bracket
<1> QED  BY <1>1, <1>4, <1>5, SentByCalls DEF Goal, Calls!write

LEMMA ReserveStep == ASSUME CallInv, ~struck.yes, Reserve PROVE Goal
<1>1. Begun("AnsiReadingCSI") /\ QuietFits /\ pc = "reserve"
  BY DEF Reserve, CallInv, AtPc
<1>2. /\ quiet.cursor = cursor /\ quiet.writeState = "AnsiReadingCSI" /\ quiet.screen = screen
      /\ writeState = "AnsiReadingCSI" /\ quiet.ansiBuf = ansiBuf /\ InkKept
  BY <1>1, SnapshotFields DEF Begun
<1>3. /\ ansiBuf' = Append(ansiBuf, 0) /\ To("store")
      /\ UNCHANGED <<screen, cursor, writeState, colorIndices, colors>>
  BY DEF Reserve, Store
<1>4. pc' = "store" /\ UNCHANGED <<quiet, char>>
  BY <1>3 DEF To
<1>5. AtPc'
  BY <1>2, <1>3, <1>4 DEF AtPc, Reading, InkKept
<1>6. CallInv' /\ UNCHANGED Calls!vars
  BY <1>1, <1>3, <1>5, InsideCall DEF Places
<1> QED  BY <1>6 DEF Goal

LEMMA StoreStep == ASSUME CallInv, ~struck.yes, StoreChar PROVE Goal
<1>1. /\ Reading(Append(quiet.ansiBuf, 0)) /\ cursor = quiet.cursor /\ InkKept
      /\ QuietFits /\ pc = "store" /\ char \in Chars
  BY DEF StoreChar, CallInv, AtPc
<1>2. /\ writeState = "AnsiReadingCSI" /\ quiet.writeState = "AnsiReadingCSI" /\ screen = quiet.screen
      /\ UNCHANGED <<screen, cursor, writeState, colorIndices, colors>>
  BY <1>1 DEF Reading, StoreChar, Store
<1>3. ansiBuf' = Stored
  <2>1. quiet.ansiBuf \in Seq(Chars) /\ ansiBuf = Append(quiet.ansiBuf, 0)
    BY <1>1 DEF QuietFits, Reading
  <2>2. Front(ansiBuf) = quiet.ansiBuf
    BY <2>1, FrontOfAppend
  <2> QED  BY <2>2 DEF StoreChar, Store, Stored
<1>4. Len(ansiBuf) = Len(Stored)
  <2>1. quiet.ansiBuf \in Seq(Chars) /\ ansiBuf = Append(quiet.ansiBuf, 0)
    BY <1>1 DEF QuietFits, Reading
  <2>2. Len(ansiBuf) = Len(quiet.ansiBuf) + 1
    BY <2>1
  <2> QED  BY <1>1, <1>2, <2>2, StoredFacts
<1>5. ASSUME NEW next \in {"process", "idle"}, To(next),
             IF next = "process" THEN IsFinal(char) ELSE ~IsFinal(char) /\ Len(Stored) = AnsiBufSize
      PROVE  Goal
  <2>1. pc' = next /\ UNCHANGED <<quiet, char>>
    BY <1>5 DEF To
  <2>2. Stored' = Stored
    BY <2>1 DEF Stored
  <2>3. AtPc'
    BY <1>1, <1>2, <1>3, <1>5, <2>1, <2>2 DEF AtPc, Reading, InkKept
  <2>4. CallInv' /\ UNCHANGED Calls!vars
    BY <1>1, <1>5, <2>3, InsideCall DEF Places
  <2> QED  BY <2>4 DEF Goal
<1>6. ASSUME ~IsFinal(char), Len(Stored) # AnsiBufSize, To("return") PROVE Goal
  <2>1. Stored \in Seq(Chars) /\ Len(Stored) < AnsiBufSize /\ cursor' \in Positions
    BY <1>1, <1>2, <1>6, StoredFacts DEF QuietFits
  <2>2. /\ CallInv'
        /\ quiet'.screen = screen' /\ quiet'.cursor = cursor' /\ quiet'.writeState = writeState'
        /\ quiet'.ansiBuf = Stored
        /\ quiet'.colorIndices = colorIndices' /\ quiet'.colors = colors'
    BY <1>2, <1>3, <1>6, <2>1, ReturnsFromCall
  <2>3. Calls!WriteCSI(char)
    BY <1>1, <1>2, <1>6, <2>2 DEF Calls!WriteCSI, InkKept, Calls!IsFinal, IsFinal, Stored
  <2> QED  BY <1>1, <1>6, <2>2, <2>3, SentByCalls DEF Goal, Calls!write
<1> QED  BY <1>4, <1>5, <1>6 DEF StoreChar

LEMMA ProcessStep ==
  ASSUME CallInv, ~struck.yes, Process, NumbersFit(ansiBuf), StaysOnScreen(ansiBuf) PROVE Goal
<1>1. /\ Reading(Stored) /\ IsFinal(char) /\ cursor = quiet.cursor /\ InkKept
      /\ QuietFits /\ pc = "process" /\ ansiBuf = Stored
  BY DEF Process, CallInv, AtPc, Reading
<1>2. UNCHANGED <<screen, writeState, ansiBuf, colors>>
  BY DEF Process
<1>3. ASSUME NEW next \in {"update", "idle"}, To(next), AtPc' PROVE Goal
  <2>1. CallInv' /\ UNCHANGED Calls!vars
    BY <1>1, <1>3, InsideCall DEF Places
  <2> QED  BY <2>1 DEF Goal
<1>4. ASSUME NEW next, To(next), next # "return"
      PROVE  /\ pc' = next /\ UNCHANGED <<quiet, char>> /\ Stored' = Stored
             /\ Reading(Stored)' /\ IsFinal(char)'
  <2>1. pc' = next /\ UNCHANGED <<quiet, char>>
    BY <1>4 DEF To
  <2>2. Stored' = Stored
    BY <2>1 DEF Stored
  <2> QED  BY <1>1, <1>2, <2>1, <2>2 DEF Reading
<1>5. CASE /\ Last(ansiBuf) = 109
           /\ colorIndices' = Inked(colorIndices, SgrNumbers(ansiBuf))
           /\ UNCHANGED cursor /\ To("update")
  <2>1. /\ pc' = "update" /\ UNCHANGED <<quiet, char>> /\ Stored' = Stored
        /\ Reading(Stored)' /\ IsFinal(char)'
    BY <1>4, <1>5
  <2>0. FitsNumber(ansiBuf)
    BY <1>5 DEF NumbersFit
  <2>2. Coloured' /\ (colors = quiet.colors)'
    BY <1>1, <1>2, <1>5, <2>0, <2>1 DEF Coloured, InkKept
  <2>3. AtPc'
    BY <2>1, <2>2 DEF AtPc
  <2> QED  BY <1>3, <1>5, <2>3
<1>6. CASE /\ Last(ansiBuf) = 72
           /\ cursor' = Cup(ansiBuf)
           /\ UNCHANGED colorIndices /\ To("idle")
  <2>1. /\ pc' = "idle" /\ UNCHANGED <<quiet, char>> /\ Stored' = Stored
        /\ Reading(Stored)' /\ IsFinal(char)'
    BY <1>4, <1>6
  <2>2. cursor' = Calls!Cup(Stored)
    BY <1>1, <1>6, SameParsers
  <2>3. Calls!Cup(Stored)' = Calls!Cup(Stored)
    BY <2>1 DEF Calls!Cup
  <2>0. FitsNumber(ansiBuf) /\ Cup(ansiBuf) \in Positions
    BY <1>6 DEF NumbersFit, StaysOnScreen
  <2>4. Placed'
    BY <1>1, <1>2, <1>6, <2>0, <2>1, <2>2, <2>3 DEF Placed, InkKept
  <2>5. AtPc'
    BY <2>1, <2>4 DEF AtPc
  <2> QED  BY <1>3, <1>6, <2>5
<1>7. CASE Last(ansiBuf) \notin {109, 72} /\ UNCHANGED <<cursor, colorIndices>> /\ To("idle")
  <2>1. /\ pc' = "idle" /\ UNCHANGED <<quiet, char>> /\ Stored' = Stored
        /\ Reading(Stored)' /\ IsFinal(char)'
    BY <1>4, <1>7
  <2>2. Ignored'
    BY <1>1, <1>2, <1>7, <2>1 DEF Ignored, InkKept
  <2>3. AtPc'
    BY <2>1, <2>2 DEF AtPc
  <2> QED  BY <1>3, <1>7, <2>3
<1> QED  BY <1>5, <1>6, <1>7 DEF Process

LEMMA UpdateStep == ASSUME CallInv, ~struck.yes, UpdateColors PROVE Goal
<1>1. Reading(Stored) /\ IsFinal(char) /\ Coloured /\ pc = "update"
  BY DEF UpdateColors, CallInv, AtPc
<1>2. /\ colors' = colorIndices /\ To("idle")
      /\ UNCHANGED <<screen, cursor, writeState, ansiBuf, colorIndices>>
  BY DEF UpdateColors
<1>3. pc' = "idle" /\ UNCHANGED <<quiet, char>>
  BY <1>2 DEF To
<1>4. Stored' = Stored
  BY <1>3 DEF Stored
<1>5. Reading(Stored)' /\ IsFinal(char)' /\ Coloured' /\ (colors = colorIndices)'
  BY <1>1, <1>2, <1>3, <1>4 DEF Reading, Coloured
<1>6. AtPc'
  BY <1>3, <1>5 DEF AtPc
<1>7. CallInv' /\ UNCHANGED Calls!vars
  BY <1>1, <1>2, <1>6, InsideCall DEF Places
<1> QED  BY <1>7 DEF Goal

LEMMA IdleStep == ASSUME CallInv, ~struck.yes, Idle PROVE Goal
<1>1. /\ Reading(Stored) /\ QuietFits /\ pc = "idle" /\ char \in Chars
      /\ \/ ~IsFinal(char) /\ Len(Stored) = AnsiBufSize /\ cursor = quiet.cursor /\ InkKept
         \/ IsFinal(char) /\ Coloured /\ colors = colorIndices
         \/ IsFinal(char) /\ (Placed \/ Ignored)
  BY DEF Idle, CallInv, AtPc
<1>2. /\ writeState' = "Idle" /\ To("return")
      /\ UNCHANGED <<screen, cursor, ansiBuf, colorIndices, colors>>
  BY DEF Idle, SetState
<1>3. cursor' \in Positions
  BY <1>1, <1>2 DEF QuietFits, Coloured, Placed, Ignored
<1>4. /\ CallInv'
      /\ quiet'.screen = screen' /\ quiet'.cursor = cursor' /\ quiet'.writeState = "Idle"
      /\ quiet'.ansiBuf = <<>>
      /\ quiet'.colorIndices = colorIndices' /\ quiet'.colors = colors'
  BY <1>2, <1>3, ReturnsFromCall
<1>5. quiet.writeState = "AnsiReadingCSI" /\ quiet'.screen = quiet.screen
  BY <1>1, <1>2, <1>4 DEF Reading
<1>6. CASE ~IsFinal(char) /\ Len(Stored) = AnsiBufSize /\ cursor = quiet.cursor /\ InkKept
  <2>1. Calls!WriteCSI(char)
    BY <1>2, <1>4, <1>5, <1>6 DEF Calls!WriteCSI, Calls!IsFinal, IsFinal, Stored, InkKept
  <2> QED  BY <1>1, <1>4, <1>6, <2>1, SentByCalls DEF Goal, Calls!write
<1>7. ASSUME IsFinal(char), Calls!processAnsi(Stored), Calls!NumbersFit(Stored),
             Calls!StaysOnScreen(Stored)
      PROVE  Goal
  <2>1. Calls!WriteCSI(char)
    BY <1>4, <1>5, <1>7 DEF Calls!WriteCSI, Calls!IsFinal, IsFinal, Stored
  <2>2. Calls!Sent(char)
    BY <1>7 DEF Calls!Sent, Stored
  <2> QED  BY <1>1, <1>4, <2>1, <2>2 DEF Goal, Calls!Next, Calls!write
<1>8. Calls!Last(Stored) = Last(Stored)
  BY DEF Calls!Last, Last
<1>9. CASE IsFinal(char) /\ Coloured /\ colors = colorIndices
  <2>1. Calls!processAnsiSgr(Stored)
    BY <1>2, <1>4, <1>9, SameParsers DEF Coloured, Calls!processAnsiSgr
  <2>2. Calls!processAnsi(Stored)
    BY <1>8, <1>9, <2>1 DEF Coloured, Calls!processAnsi
  <2>3. Calls!NumbersFit(Stored) /\ Calls!StaysOnScreen(Stored)
    BY <1>8, <1>9, SameParsers DEF Coloured, Calls!NumbersFit, Calls!StaysOnScreen
  <2> QED  BY <1>7, <1>9, <2>2, <2>3
<1>10. CASE IsFinal(char) /\ Placed
  <2>1. Calls!processAnsiCup(Stored)
    BY <1>2, <1>4, <1>10, SameParsers DEF Placed, InkKept, Calls!processAnsiCup
  <2>2. Calls!processAnsi(Stored)
    BY <1>8, <1>10, <2>1 DEF Placed, Calls!processAnsi
  <2>3. Calls!NumbersFit(Stored) /\ Calls!StaysOnScreen(Stored)
    BY <1>8, <1>10, SameParsers DEF Placed, Calls!NumbersFit, Calls!StaysOnScreen
  <2> QED  BY <1>7, <1>10, <2>2, <2>3
<1>11. CASE IsFinal(char) /\ Ignored
  <2>1. Calls!processAnsi(Stored)
    BY <1>2, <1>4, <1>8, <1>11 DEF Ignored, InkKept, Calls!processAnsi
  <2>2. Calls!NumbersFit(Stored) /\ Calls!StaysOnScreen(Stored)
    BY <1>8, <1>11 DEF Ignored, Calls!NumbersFit, Calls!StaysOnScreen
  <2> QED  BY <1>7, <1>11, <2>1, <2>2
<1> QED  BY <1>1, <1>6, <1>9, <1>10, <1>11

LEMMA ClearStep == ASSUME CallInv, ~struck.yes, CallClear PROVE Goal
<1>1. quiet = Snapshot /\ QuietFits /\ To("return") /\ clear
  BY DEF CallClear, CallInv, AtPc
<1>2. UNCHANGED <<cursor, writeState, ansiBuf, colorIndices, colors>> /\ screen' = [y \in Rows |-> BlankRow]
  BY <1>1 DEF clear
<1>3. /\ quiet.screen = screen /\ quiet.cursor = cursor /\ quiet.writeState = writeState
      /\ quiet.ansiBuf = IF writeState = "AnsiReadingCSI" THEN ansiBuf ELSE <<>>
      /\ InkKept
  BY <1>1, SnapshotFields
<1>4. /\ cursor' \in Positions /\ writeState' \in {"Idle", "AnsiEscapeStart", "AnsiReadingCSI"}
      /\ writeState' = "AnsiReadingCSI" => ansiBuf' \in Seq(Chars) /\ Len(ansiBuf') < AnsiBufSize
  BY <1>1, <1>2, <1>3 DEF QuietFits
<1>5. /\ CallInv'
      /\ quiet'.screen = screen' /\ quiet'.cursor = cursor' /\ quiet'.writeState = writeState'
      /\ quiet'.ansiBuf = IF writeState' = "AnsiReadingCSI" THEN ansiBuf' ELSE <<>>
      /\ quiet'.colorIndices = colorIndices' /\ quiet'.colors = colors'
  BY <1>1, <1>4, ReturnsFromCall
<1>6. Calls!BlankRow = BlankRow
  BY <1>3 DEF Calls!BlankRow, BlankRow, Calls!Blank, Blank, InkKept
<1>7. Calls!clear
  BY <1>2, <1>3, <1>5, <1>6 DEF Calls!clear, InkKept
<1> QED  BY <1>5, <1>7 DEF Goal, Calls!Next

-----------------------------------------------------------------------------
(* All of it *)

LEMMA StruckStep == ASSUME struck.yes, StepNext PROVE Goal
<1>1. struck'.yes /\ quiet' = quiet
  BY DEF StepNext, Call, Begin, Escape, Draw, Right, Newline, Down, Scroll, Up, Bracketed, Empty,
         Reserve, StoreChar, Process, UpdateColors, Idle, CallClear, Strike, To
<1> QED  BY <1>1 DEF Goal, CallInv, Calls!vars

LEMMA StrikeStep == ASSUME Strike PROVE Goal
<1>1. struck'.yes /\ quiet' = quiet
  BY DEF Strike
<1> QED  BY <1>1 DEF Goal, CallInv, Calls!vars

LEMMA StoreByStore == CallInv /\ [StepNext]_all => Goal
<1>1. ASSUME CallInv, ~struck.yes, StepNext PROVE Goal
  <2>1. ASSUME Call PROVE Goal
    BY <1>1, <2>1, CallStep DEF Goal
  <2> QED  BY <1>1, <2>1, EscapeStep, DrawStep, RightStep, NewlineStep, DownStep, ScrollStep, UpStep,
              BracketedStep, EmptyStep, ReserveStep, StoreStep, ProcessStep, UpdateStep, IdleStep,
              ClearStep, StrikeStep DEF StepNext
<1>2. ASSUME CallInv, UNCHANGED all PROVE Goal
  <2>1. UNCHANGED <<screen, cursor, writeState, ansiBuf, colorIndices, colors, pc, char, rest, struck, quiet>>
    BY <1>2 DEF all, console
  <2> QED  BY <1>2, <2>1 DEF Goal, CallInv, QuietFits, AtPc, Snapshot, Begun, Printing, LineFull,
              TextNow, Calls!Cell, Calls!Scrolled, Calls!BlankRow, Calls!Blank, Reading, Stored,
              InkKept, Coloured, Placed, Ignored, Calls!Cup, Calls!vars
<1> QED  BY <1>1, <1>2, StruckStep

LEMMA StepInitInv == StepInit => CallInv /\ Calls!Init
<1> SUFFICES ASSUME StepInit PROVE CallInv /\ Calls!Init
  OBVIOUS
<1>1. /\ Init /\ pc = "return" /\ rest = <<>> /\ quiet = Snapshot
  BY DEF StepInit
<1>2. /\ cursor = [x |-> 0, y |-> 0] /\ writeState = "Idle"
      /\ colorIndices = DefaultInk /\ colors = DefaultInk /\ screen = [y \in Rows |-> BlankRow]
  BY <1>1 DEF Init
<1>3. /\ quiet.screen = screen /\ quiet.cursor = cursor /\ quiet.writeState = writeState
      /\ quiet.ansiBuf = <<>> /\ quiet.colorIndices = colorIndices /\ quiet.colors = colors
  BY <1>1, <1>2, SnapshotFields DEF InkKept
<1>4. CallInv
  BY <1>1, <1>2, <1>3, ScreenAssumption DEF CallInv, QuietFits, AtPc, Places
<1>5. Calls!Init
  BY <1>2, <1>3 DEF Calls!Init, Calls!DefaultInk, DefaultInk, Calls!BlankRow, BlankRow, Calls!Blank, Blank
<1> QED  BY <1>4, <1>5

LEMMA CallsHold == StepSpec => []CallInv
<1>1. CallInv /\ [StepNext]_all => CallInv'
  BY StoreByStore DEF Goal
<1> QED  BY <1>1, StepInitInv, PTL DEF StepSpec

\* Between two stores of a call the cursor may be off the screen, and ansiBuf
\* without a place, but only where the next stores put it right: whenever write
\* returns, and whenever a character is drawn, there is room
\* (FramebufferConsole::write, ::print, ::newline).
THEOREM UnsoundOnlyInside == StepSpec => []UnsoundInside
<1>1. CallInv => UnsoundInside
  <2> SUFFICES ASSUME CallInv, ~struck.yes, ~Sound
               PROVE  pc \notin {"return", "escape", "draw", "right", "down", "bracket", "reserve"}
    BY DEF UnsoundInside, CallInv, Places
  <2>1. QuietFits /\ AtPc
    BY DEF CallInv
  <2>2. CASE pc \in {"return", "escape", "draw", "bracket", "reserve"}
    <3>1. quiet = Snapshot
      BY <2>1, <2>2 DEF AtPc, Begun
    <3>2. Sound
      BY <2>1, <3>1, SnapshotFields DEF QuietFits, Sound
    <3> QED  BY <3>2
  <2>3. CASE pc \in {"right", "down"}
    <3>1. Sound
      BY <2>1, <2>3, ScreenAssumption DEF QuietFits, AtPc, Printing, Sound
    <3> QED  BY <3>1
  <2> QED  BY <2>2, <2>3
<1> QED  BY <1>1, CallsHold, PTL

\* Store by store, a call of write does what Console says of the whole call,
\* and until the last store nobody can tell: the console as calls return it is
\* Console's (FramebufferConsole::write).
THEOREM StoresImplementConsole == StepSpec => ImplementsConsole
<1>1. StepInit => Calls!Init
  BY StepInitInv
<1>2. CallInv /\ [StepNext]_all => [Calls!Next]_(Calls!vars)
  BY StoreByStore DEF Goal
<1> QED  BY <1>1, <1>2, CallsHold, PTL DEF StepSpec, ImplementsConsole, Calls!Spec

-----------------------------------------------------------------------------
(* The report, on a console in any state a failure may leave *)

HIDE DEF Rows, Columns, Positions

\* The characters of the report that write has been called with
Said == 13 - Len(rest)

InIdle == writeState = "Idle"
InEsc  == writeState = "AnsiEscapeStart"
InCSI  == writeState = "AnsiReadingCSI"

\* A screen has all its rows, and they all their columns
IsScreen(text) == text = [y \in Rows |-> [x \in Columns |-> text[y][x]]]

Storing ==
  /\ IsScreen(screen)
  /\ InIdle \/ InEsc \/ InCSI
  /\ ansiBuf \in Seq(Int) /\ rest \in Seq(Int) /\ char \in Int

Saying ==
  /\ Said \in 0 .. 13
  /\ \A j \in 1 .. 13 : j > Said => rest[j - Said] = Report[j]
  /\ pc # "return" => Said > 0 /\ char = Report[Said]

\* What the parser makes of what it was told, wherever it was when panic began
Parsing ==
  /\ pc = "return" =>
       /\ Said \in {2, 3, 4} => ~InEsc
       /\ Said \in {5, 6, 7, 8, 12, 13} => InIdle
       /\ Said = 9 => InEsc
       /\ Said \in {10, 11} => InCSI /\ Len(ansiBuf) = Said - 10
       /\ InCSI => Len(ansiBuf) < AnsiBufSize
  /\ pc \in {"draw", "right", "newline", "down", "scroll", "up"} => InIdle /\ Said \in {2, 3, 4, 5, 6, 7, 8, 13}
  /\ pc = "escape" => InIdle /\ Said \in {1, 9}
  /\ pc = "bracket" => InEsc /\ Said \in {1, 2, 10}
  /\ pc = "empty" => InCSI /\ Said \in {2, 10}
  /\ pc \in {"reserve", "store"} => InCSI /\ Said \in {1, 2, 3, 4, 5, 11, 12}
  /\ pc = "reserve" => Len(ansiBuf) < AnsiBufSize /\ (Said \in {11, 12} => Len(ansiBuf) = Said - 11)
  /\ pc = "store" => /\ Len(ansiBuf) \in 1 .. AnsiBufSize
                     /\ Said \in {11, 12} => Len(ansiBuf) = Said - 10
  /\ pc = "process" => InCSI /\ Said \in {2, 5, 12} /\ Last(ansiBuf) = char
  /\ pc = "update" => InCSI /\ Said \in {5, 12}
  /\ pc = "idle" => InCSI /\ Said \in {1, 2, 3, 4, 5, 12}

Placing ==
  /\ pc \in {"return", "escape", "bracket", "empty", "reserve", "store", "process", "update", "idle", "draw", "right"}
       => cursor \in Positions
  /\ pc = "newline" => cursor \in [x : Nat, y : Rows]
  /\ pc = "down" => cursor \in [x : {0}, y : Rows]
  /\ pc \in {"scroll", "up"} => cursor \in [x : {0}, y : {Height}]
  /\ Said = 8 /\ pc = "draw" => cursor.x = 0
  /\ Said = 7 /\ pc = "return" => cursor.x = 0
  /\ Said = 8 /\ pc = "right" => cursor.x = 0

\* The row the cursor is in, or comes back to
Line == IF pc = "up" THEN cursor.y - ScrollAmount ELSE cursor.y

\* First is as far above that
FirstAbove(text, line, lo, hi) ==
  \E y \in Rows : \E x \in Columns :
    text[y][x].glyph = First /\ line - y >= lo /\ line - y <= hi

\* Second is, and First close above it
BothAbove(text, line, n) ==
  \E y \in Rows : \E z \in Rows : \E x \in Columns :
    /\ text[y][x].glyph = First /\ text[z][0].glyph = Second
    /\ y < z /\ z - y <= 2 /\ line - z = n

Showing ==
  /\ Said = 6 => /\ pc \in {"right", "newline", "down"} => FirstAbove(screen, Line, 0, 0)
                 /\ pc \in {"scroll", "up"} => FirstAbove(screen, Line, 1, 1)
                 /\ pc = "return" => FirstAbove(screen, Line, 0, 1)
  /\ Said = 7 => /\ pc \in {"newline", "down"} => FirstAbove(screen, Line, 0, 1)
                 /\ pc \in {"scroll", "up", "return"} => FirstAbove(screen, Line, 1, 2)
                 /\ pc \in {"newline", "down", "scroll", "up", "return"}
  /\ Said = 8 => /\ pc = "draw" => FirstAbove(screen, Line, 1, 2)
                 /\ pc \in {"right", "return"} => BothAbove(screen, Line, 0)
                 /\ pc \in {"draw", "right", "return"}
  /\ Said \in 9 .. 12 => BothAbove(screen, Line, 0)
  /\ Said = 13 => /\ pc \in {"newline", "down"} => BothAbove(screen, Line, 0)
                  /\ pc \in {"scroll", "up", "return"} => BothAbove(screen, Line, 1)
                  /\ pc \in {"newline", "down", "scroll", "up", "return"}

Telling == Saying /\ Parsing /\ Placing /\ Showing

ReportInv == Storing /\ (struck.yes /\ struck.sound => Telling)

-----------------------------------------------------------------------------
(* Texts that move *)

LEMMA LineMoves ==
  ASSUME NEW text, NEW line \in Int, NEW d \in Int, NEW lo \in Int, NEW hi \in Int
  PROVE  /\ FirstAbove(text, line, lo, hi) => FirstAbove(text, line + d, lo + d, hi + d)
         /\ BothAbove(text, line, lo) => BothAbove(text, line + d, lo + d)
<1>1. Rows \in SUBSET Int
  BY ScreenAssumption DEF Rows
<1>2. ASSUME FirstAbove(text, line, lo, hi) PROVE FirstAbove(text, line + d, lo + d, hi + d)
  <2>1. PICK y \in Rows, x \in Columns : text[y][x].glyph = First /\ line - y >= lo /\ line - y <= hi
    BY <1>2 DEF FirstAbove
  <2>2. (line + d) - y >= lo + d /\ (line + d) - y <= hi + d
    BY <1>1, <2>1
  <2> QED  BY <2>1, <2>2 DEF FirstAbove
<1>3. ASSUME BothAbove(text, line, lo) PROVE BothAbove(text, line + d, lo + d)
  <2>1. PICK y \in Rows, z \in Rows, x \in Columns :
          /\ text[y][x].glyph = First /\ text[z][0].glyph = Second
          /\ y < z /\ z - y <= 2 /\ line - z = lo
    BY <1>3 DEF BothAbove
  <2>2. (line + d) - z = lo + d
    BY <1>1, <2>1
  <2> QED  BY <2>1, <2>2 DEF BothAbove
<1> QED  BY <1>2, <1>3

LEMMA Widened ==
  ASSUME NEW text, NEW line \in Int, NEW lo \in Int, NEW hi \in Int, NEW l \in Int, NEW h \in Int,
         l <= lo, hi <= h, FirstAbove(text, line, lo, hi)
  PROVE  FirstAbove(text, line, l, h)
<1>1. PICK y \in Rows, x \in Columns : text[y][x].glyph = First /\ line - y >= lo /\ line - y <= hi
  BY DEF FirstAbove
<1>2. line - y >= l /\ line - y <= h
  BY <1>1, ScreenAssumption DEF Rows
<1> QED  BY <1>1, <1>2 DEF FirstAbove

LEMMA ScrollsUp ==
  ASSUME ReportFits, NEW text, NEW lo \in Int, NEW hi \in Int, hi <= 2, NEW n \in Int, n <= 1
  PROVE  /\ FirstAbove(text, Height, lo, hi) => FirstAbove(Scrolled(text), Height - ScrollAmount, lo, hi)
         /\ BothAbove(text, Height, n) => BothAbove(Scrolled(text), Height - ScrollAmount, n)
<1>1. /\ Height \in Nat /\ ScrollAmount \in Nat \ {0} /\ Height >= ScrollAmount + 3
  BY ScreenAssumption DEF ReportFits
<1>2. ASSUME NEW y \in Rows, y >= ScrollAmount
      PROVE  y - ScrollAmount \in Rows /\ Scrolled(text)[y - ScrollAmount] = text[y]
  <2>1. y - ScrollAmount \in Rows /\ (y - ScrollAmount) + ScrollAmount = y /\ y < Height
    BY <1>1, <1>2 DEF Rows
  <2> QED  BY <2>1 DEF Scrolled
<1>3. ASSUME FirstAbove(text, Height, lo, hi)
      PROVE  FirstAbove(Scrolled(text), Height - ScrollAmount, lo, hi)
  <2>1. PICK y \in Rows, x \in Columns : text[y][x].glyph = First /\ Height - y >= lo /\ Height - y <= hi
    BY <1>3 DEF FirstAbove
  <2>2. y \in Int /\ y >= ScrollAmount
    BY <1>1, <2>1 DEF Rows
  <2>3. (Height - ScrollAmount) - (y - ScrollAmount) = Height - y
    BY <1>1, <2>2
  <2> QED  BY <1>2, <2>1, <2>2, <2>3 DEF FirstAbove
<1>4. ASSUME BothAbove(text, Height, n)
      PROVE  BothAbove(Scrolled(text), Height - ScrollAmount, n)
  <2>1. PICK y \in Rows, z \in Rows, x \in Columns :
          /\ text[y][x].glyph = First /\ text[z][0].glyph = Second
          /\ y < z /\ z - y <= 2 /\ Height - z = n
    BY <1>4 DEF BothAbove
  <2>2. y \in Int /\ y >= ScrollAmount /\ z \in Int /\ z >= ScrollAmount
    BY <1>1, <2>1 DEF Rows
  <2>3. /\ (Height - ScrollAmount) - (z - ScrollAmount) = Height - z
        /\ y - ScrollAmount < z - ScrollAmount /\ (z - ScrollAmount) - (y - ScrollAmount) <= 2
    BY <1>1, <2>1, <2>2
  <2>4. /\ y - ScrollAmount \in Rows /\ Scrolled(text)[y - ScrollAmount] = text[y]
        /\ z - ScrollAmount \in Rows /\ Scrolled(text)[z - ScrollAmount] = text[z]
    BY <1>2, <2>2
  <2> QED  BY <2>1, <2>3, <2>4 DEF BothAbove
<1> QED  BY <1>3, <1>4

LEMMA Draws ==
  ASSUME ReportFits, NEW text, IsScreen(text), NEW x \in Columns, NEW y \in Rows, NEW cell
  PROVE  LET drawn == [text EXCEPT ![y][x] = cell]
         IN  /\ IsScreen(drawn)
             /\ cell.glyph = First => FirstAbove(drawn, y, 0, 0)
             /\ cell.glyph = Second /\ x = 0 /\ FirstAbove(text, y, 1, 2) => BothAbove(drawn, y, 0)
<1> DEFINE drawn == [text EXCEPT ![y][x] = cell]
<1>1. \A r \in Rows : \A c \in Columns : drawn[r][c] = IF r = y /\ c = x THEN cell ELSE text[r][c]
  BY DEF IsScreen
<1>2. IsScreen(drawn)
  BY DEF IsScreen
<1>3. y \in Int /\ y - y = 0
  BY ScreenAssumption DEF Rows
<1> HIDE DEF drawn
<1>4. ASSUME cell.glyph = First PROVE FirstAbove(drawn, y, 0, 0)
  <2>1. drawn[y][x].glyph = First /\ y - y >= 0 /\ y - y <= 0
    BY <1>1, <1>3, <1>4
  <2> QED  BY <2>1 DEF FirstAbove
<1>5. ASSUME cell.glyph = Second, x = 0, FirstAbove(text, y, 1, 2) PROVE BothAbove(drawn, y, 0)
  <2>1. PICK r \in Rows, c \in Columns : text[r][c].glyph = First /\ y - r >= 1 /\ y - r <= 2
    BY <1>5 DEF FirstAbove
  <2>2. r \in Int /\ r < y
    BY <1>3, <2>1 DEF Rows
  <2>3. drawn[r][c].glyph = First /\ drawn[y][0].glyph = Second
    <3>1. drawn[r][c] = text[r][c]
      BY <1>1, <1>3, <2>1, <2>2
    <3>2. drawn[y][x] = cell
      BY <1>1
    <3> QED  BY <1>5, <2>1, <3>1, <3>2
  <2> QED  BY <1>3, <2>1, <2>2, <2>3 DEF BothAbove
<1> QED  BY <1>2, <1>4, <1>5 DEF drawn

-----------------------------------------------------------------------------
(* What the stores leave *)

LEMMA ReportFacts ==
  /\ Report \in Seq(Int) /\ Len(Report) = 13
  /\ Report[1] = 27 /\ Report[2] = 91 /\ Report[3] = 52 /\ Report[4] = 49 /\ Report[5] = 109
  /\ Report[6] = First /\ Report[7] = 10 /\ Report[8] = Second
  /\ Report[9] = 27 /\ Report[10] = 91 /\ Report[11] = 48 /\ Report[12] = 109 /\ Report[13] = 10
BY ReportAssumption DEF Report, ESC, LF, Bracket

LEMMA StoringStep == ASSUME ReportFits, Storing, [StepNext]_all PROVE Storing'
<1> USE DEF Storing, InIdle, InEsc, InCSI
<1>1. ASSUME Call PROVE Storing'
  <2>1. UNCHANGED console
    BY <1>1 DEF Call, Begin
  <2>2. CASE rest # <<>> /\ Begin(Head(rest)) /\ rest' = Tail(rest)
    <3>1. char' \in Int /\ rest' \in Seq(Int)
      BY <2>2 DEF Begin
    <3> QED  BY <2>1, <3>1 DEF console
  <2>3. CASE \E text \in Texts : Begin(Head(text)) /\ rest' = Tail(text)
    <3>1. PICK text \in Texts : Begin(Head(text)) /\ rest' = Tail(text)
      BY <2>3
    <3>2. text \in Seq(Int) /\ text # <<>>
      <4>1. text \in Seq(Chars) /\ text # <<>>
        BY TextsAssumption
      <4>2. \A c \in Chars : c \in Int
        BY CharsAssumption
      <4>3. Len(text) \in Nat /\ text \in [1 .. Len(text) -> Chars]
        BY <4>1
      <4>4. text \in [1 .. Len(text) -> Int]
        BY <4>2, <4>3
      <4>5. text \in Seq(Int)
        <5> DEFINE n == Len(text)
        <5>1. n \in Nat /\ text \in [1 .. n -> Int]
          BY <4>3, <4>4
        <5> HIDE DEF n
        <5>2. text \in UNION {[1 .. k -> Int] : k \in Nat}
          BY <5>1, Zenon
        <5> QED  BY <5>2, SeqDef, Zenon
      <4> QED  BY <4>1, <4>5, Zenon
    <3>3. char' \in Int /\ rest' \in Seq(Int)
      BY <3>1, <3>2 DEF Begin
    <3> QED  BY <2>1, <3>3 DEF console
  <2> QED  BY <1>1, <2>2, <2>3 DEF Call
<1>2. ASSUME NEW next, To(next) PROVE UNCHANGED rest /\ char' \in Int
  BY <1>2 DEF To, LF
<1>3. ASSUME Escape \/ Bracketed \/ Idle PROVE Storing'
  BY <1>2, <1>3 DEF Escape, Bracketed, Idle, SetState
<1>4. ASSUME Right \/ Newline \/ Down \/ Up PROVE Storing'
  BY <1>2, <1>4 DEF Right, Newline, Down, Up, MoveTo
<1>5. ASSUME Draw PROVE Storing'
  <2>1. IsScreen(screen')
    BY <1>5 DEF Draw, IsScreen, Positions
  <2> QED  BY <1>2, <1>5, <2>1 DEF Draw
<1>6. ASSUME Scroll PROVE Storing'
  <2>1. IsScreen(Scrolled(screen))
    <3>1. BlankRow = [x \in Columns |-> BlankRow[x]]
      BY DEF BlankRow
    <3>2. ASSUME NEW y \in Rows
          PROVE  Scrolled(screen)[y] = [x \in Columns |-> Scrolled(screen)[y][x]]
      <4>1. CASE y + ScrollAmount < Height
        <5>1. y + ScrollAmount \in Rows
          BY <4>1, ScreenAssumption DEF Rows
        <5>2. Scrolled(screen)[y] = screen[y + ScrollAmount]
          BY <4>1 DEF Scrolled
        <5>3. screen[y + ScrollAmount] = [x \in Columns |-> screen[y + ScrollAmount][x]]
          BY <5>1 DEF IsScreen
        <5> QED  BY <5>2, <5>3
      <4>2. CASE ~(y + ScrollAmount < Height)
        <5>1. Scrolled(screen)[y] = BlankRow
          BY <4>2 DEF Scrolled
        <5> QED  BY <3>1, <5>1
      <4> QED  BY <4>1, <4>2
    <3>3. Scrolled(screen) = [y \in Rows |-> Scrolled(screen)[y]]
      BY DEF Scrolled
    <3> QED  BY <3>2, <3>3 DEF IsScreen
  <2>2. IsScreen(screen')
    BY <1>6, <2>1 DEF Scroll
  <2> QED  BY <1>2, <1>6, <2>2 DEF Scroll
<1>7. ASSUME Empty \/ Reserve \/ StoreChar PROVE Storing'
  <2>1. ansiBuf' \in Seq(Int)
    <3>1. Front(ansiBuf) \in Seq(Int)
      BY DEF Front
    <3>2. CASE Empty
      BY <3>2 DEF Empty, Store
    <3>3. CASE Reserve
      <4>1. Append(ansiBuf, 0) \in Seq(Int)
        BY AppendProperties
      <4> QED  BY <3>3, <4>1 DEF Reserve, Store
    <3>4. CASE StoreChar
      <4>1. Append(Front(ansiBuf), char) \in Seq(Int)
        BY <3>1, AppendProperties
      <4> QED  BY <3>4, <4>1 DEF StoreChar, Store
    <3> QED  BY <1>7, <3>2, <3>3, <3>4
  <2>2. UNCHANGED <<screen, writeState>>
    BY <1>7 DEF Empty, Reserve, StoreChar, Store
  <2> QED  BY <1>2, <1>7, <2>1, <2>2 DEF Empty, Reserve, StoreChar
<1>8. ASSUME Process \/ UpdateColors PROVE Storing'
  BY <1>2, <1>8 DEF Process, UpdateColors
<1>9. ASSUME CallClear PROVE Storing'
  <2>1. IsScreen(screen')
    BY <1>9 DEF CallClear, clear, IsScreen, BlankRow
  <2> QED  BY <1>2, <1>9, <2>1 DEF CallClear, clear
<1>10. ASSUME Strike PROVE Storing'
  BY <1>10, ReportFacts DEF Strike, console, LF
<1>11. ASSUME UNCHANGED all PROVE Storing'
  BY <1>11 DEF all, console
<1> QED  BY <1>1, <1>3, <1>4, <1>5, <1>6, <1>7, <1>8, <1>9, <1>10, <1>11 DEF StepNext

-----------------------------------------------------------------------------
(* The report, step by step *)

LEMMA SizesOf ==
  ASSUME ReportFits
  PROVE  /\ Width \in Nat /\ Width > 1 /\ AnsiBufSize \in Nat /\ AnsiBufSize > 1
         /\ Height \in Nat /\ ScrollAmount \in Nat \ {0} /\ Height >= ScrollAmount + 3
BY ScreenAssumption, BufferAssumption DEF ReportFits

\* A step that is not the call of write.
LEMMA StillSaid ==
  ASSUME Storing, Saying, pc # "return", NEW next, To(next)
  PROVE  Saying' /\ Said' = Said /\ Said \in 1 .. 13 /\ char = Report[Said] /\ pc' = next
<1>1. Said' = Said /\ pc' = next /\ rest' = rest /\ (next # "return" => char' = char)
  BY DEF To, Said
<1> QED  BY <1>1 DEF Saying

LEMMA SaysNext ==
  ASSUME ReportFits, Storing, Saying, pc = "return", rest # <<>>, Begin(Head(rest)), rest' = Tail(rest)
  PROVE  Saying' /\ Said' = Said + 1 /\ Said \in 0 .. 12 /\ char' = Report[Said + 1]
<1>1. /\ Len(rest) \in Nat /\ Len(rest) > 0 /\ rest \in Seq(Int)
      /\ \A j \in 1 .. 13 : j > Said => rest[j - Said] = Report[j]
      /\ Said = 13 - Len(rest) /\ Said \in 0 .. 13
  BY DEF Storing, Saying, Said
<1>2. Len(rest') = Len(rest) - 1 /\ \A j \in 1 .. Len(rest) - 1 : rest'[j] = rest[j + 1]
  BY <1>1
<1> DEFINE n == Len(rest)  m == Len(rest')
<1>3. Said' = Said + 1 /\ Said \in 0 .. 12
  <2>1. Said' = 13 - m
    BY DEF Said
  <2>2. Said = 13 - n /\ m = n - 1 /\ n \in Nat /\ n > 0
    BY <1>1, <1>2
  <2> HIDE DEF n, m
  <2> QED  BY <1>1, <2>1, <2>2
<1>4. char' = rest[1] /\ rest[1] = Report[Said + 1]
  <2>1. char' = rest[1]
    BY <1>1 DEF Begin
  <2>2. Said + 1 \in 1 .. 13 /\ Said + 1 > Said /\ (Said + 1) - Said = 1
    BY <1>3
  <2>3. rest[(Said + 1) - Said] = Report[Said + 1]
    BY <1>1, <2>2
  <2> QED  BY <2>1, <2>2, <2>3
<1>5. ASSUME NEW j \in 1 .. 13, j > Said' PROVE rest'[j - Said'] = Report[j]
  <2>1. n \in Nat /\ Said = 13 - n
    BY <1>1
  <2> HIDE DEF n
  <2>2. j - Said' \in 1 .. n - 1 /\ (j - Said') + 1 = j - Said /\ j > Said
    BY <1>3, <1>5, <2>1
  <2>3. rest'[j - Said'] = rest[(j - Said') + 1]
    BY <1>2, <2>2 DEF n
  <2> QED  BY <1>1, <2>2, <2>3
<1>6. pc' # "return" => Said' > 0 /\ char' = Report[Said']
  BY <1>3, <1>4
<1>7. Said' \in 0 .. 13
  BY <1>3
<1> HIDE DEF n, m
<1> QED  BY <1>3, <1>4, <1>5, <1>6, <1>7 DEF Saying

\* What the character is
Spells ==
  /\ Said \in {1, 9} => char = 27
  /\ Said \in {2, 10} => char = 91
  /\ Said \in {5, 12} => char = 109
  /\ Said = 3 => char = 52
  /\ Said = 4 => char = 49
  /\ Said = 11 => char = 48

LEMMA CharSaid ==
  ASSUME ReportFits, Said \in 1 .. 13, char = Report[Said]
  PROVE  Spells
BY ReportFacts DEF Spells

LEMMA LineSaid ==
  ASSUME ReportFits, Said \in 1 .. 13, char = Report[Said]
  PROVE  /\ char = ESC <=> Said \in {1, 9}
         /\ char = LF <=> Said \in {7, 13}
         /\ Said = 6 => char = First
         /\ Said = 8 => char = Second
         /\ Said \in {1, 2, 3, 4, 5, 6, 7, 8, 9, 10, 11, 12, 13}
BY ReportFacts, ReportAssumption DEF ESC, LF

\* The parser's steps leave the text and the cursor alone
LEMMA ShowsStill ==
  ASSUME Showing, pc # "up", pc' # "up", UNCHANGED <<screen, cursor>>,
         Said' = Said, Said \notin {6, 7, 8, 13}
  PROVE  Showing'
<1>1. Line' = Line
  BY DEF Line
<1>2. BothAbove(screen, Line, 0)' <=> BothAbove(screen, Line, 0)
  BY <1>1 DEF BothAbove
<1> QED  BY <1>2 DEF Showing

LEMMA EscapeTells == ASSUME ReportFits, Storing, Telling, Escape PROVE Telling'
<1> USE DEF InIdle, InEsc, InCSI
<1>1. pc = "escape" /\ To("return")
  BY DEF Escape
<1>2. Saying' /\ Said' = Said /\ Said \in {1, 9} /\ pc' = "return"
  BY <1>1, StillSaid DEF Telling, Parsing
<1>3. writeState' = "AnsiEscapeStart" /\ UNCHANGED <<screen, cursor>>
  BY DEF Escape, SetState
<1>4. Parsing'
  BY <1>2, <1>3 DEF Parsing
<1>5. Placing'
  BY <1>1, <1>2, <1>3 DEF Placing, Telling
<1>6. Showing'
  BY <1>1, <1>2, <1>3, ShowsStill DEF Telling
<1> QED  BY <1>2, <1>4, <1>5, <1>6 DEF Telling

LEMMA BracketedTells == ASSUME ReportFits, Storing, Telling, Bracketed PROVE Telling'
<1> USE DEF InIdle, InEsc, InCSI
<1>1. pc = "bracket" /\ UNCHANGED <<screen, cursor>>
  BY DEF Bracketed, SetState
<1>2. \/ char = 91 /\ writeState' = "AnsiReadingCSI" /\ To("empty")
      \/ char # 91 /\ writeState' = "Idle" /\ To("return")
  BY DEF Bracketed, SetState, Bracket
<1>3. PICK next \in {"empty", "return"} : To(next)
  BY <1>2
<1>4. Saying' /\ Said' = Said /\ char = Report[Said] /\ Said \in 1 .. 13 /\ Said \in {1, 2, 10} /\ pc' = next
  BY <1>1, <1>3, StillSaid DEF Telling, Parsing
<1>5. Spells
  BY <1>4, CharSaid
<1>6. \/ Said \in {2, 10} /\ writeState' = "AnsiReadingCSI" /\ pc' = "empty"
      \/ Said = 1 /\ writeState' = "Idle" /\ pc' = "return"
  BY <1>2, <1>4, <1>5 DEF To, Spells
<1>7. Parsing'
  BY <1>4, <1>6 DEF Parsing
<1>8. Placing'
  BY <1>1, <1>4, <1>6 DEF Placing, Telling
<1>9. Showing'
  BY <1>1, <1>4, <1>6, ShowsStill DEF Telling
<1> QED  BY <1>4, <1>7, <1>8, <1>9 DEF Telling

LEMMA EmptyTells == ASSUME ReportFits, Storing, Telling, Empty PROVE Telling'
<1> USE DEF InIdle, InEsc, InCSI
<1>1. pc = "empty" /\ To("return") /\ ansiBuf' = <<>> /\ UNCHANGED <<screen, cursor, writeState>>
  BY DEF Empty, Store
<1>2. Saying' /\ Said' = Said /\ Said \in {2, 10} /\ pc' = "return" /\ InCSI
  BY <1>1, StillSaid DEF Telling, Parsing
<1>3. Len(ansiBuf') = 0 /\ 0 < AnsiBufSize
  BY <1>1, SizesOf
<1>4. Parsing'
  BY <1>1, <1>2, <1>3 DEF Parsing
<1>5. Placing'
  BY <1>1, <1>2 DEF Placing, Telling
<1>6. Showing'
  BY <1>1, <1>2, ShowsStill DEF Telling
<1> QED  BY <1>2, <1>4, <1>5, <1>6 DEF Telling

LEMMA ReserveTells == ASSUME ReportFits, Storing, Telling, Reserve PROVE Telling'
<1> USE DEF InIdle, InEsc, InCSI
<1>1. pc = "reserve" /\ To("store") /\ ansiBuf' = Append(ansiBuf, 0) /\ UNCHANGED <<screen, cursor, writeState>>
  BY DEF Reserve, Store
<1>2. /\ Saying' /\ Said' = Said /\ Said \in {1, 2, 3, 4, 5, 11, 12} /\ pc' = "store" /\ InCSI
      /\ Len(ansiBuf) < AnsiBufSize /\ (Said \in {11, 12} => Len(ansiBuf) = Said - 11)
  BY <1>1, StillSaid DEF Telling, Parsing
<1>3. Len(ansiBuf') = Len(ansiBuf) + 1 /\ Len(ansiBuf) \in Nat
  BY <1>1 DEF Storing
<1>4. /\ Len(ansiBuf') \in 1 .. AnsiBufSize
      /\ Said \in {11, 12} => Len(ansiBuf') = Said - 10
  BY <1>2, <1>3, SizesOf
<1>5. Parsing'
  BY <1>1, <1>2, <1>4 DEF Parsing
<1>6. Placing'
  BY <1>1, <1>2 DEF Placing, Telling
<1>7. Showing'
  BY <1>1, <1>2, ShowsStill DEF Telling
<1> QED  BY <1>2, <1>5, <1>6, <1>7 DEF Telling

LEMMA StoreCharTells == ASSUME ReportFits, Storing, Telling, StoreChar PROVE Telling'
<1> USE DEF InIdle, InEsc, InCSI
<1> DEFINE next == IF IsFinal(char) THEN "process" ELSE IF Len(ansiBuf) = AnsiBufSize THEN "idle" ELSE "return"
<1>1. /\ pc = "store" /\ To(next) /\ ansiBuf' = Append(Front(ansiBuf), char)
      /\ UNCHANGED <<screen, cursor, writeState>>
  BY DEF StoreChar, Store
<1>2. /\ Saying' /\ Said' = Said /\ Said \in {1, 2, 3, 4, 5, 11, 12} /\ pc' = next /\ InCSI
      /\ Said \in 1 .. 13 /\ char = Report[Said]
      /\ Len(ansiBuf) \in 1 .. AnsiBufSize /\ (Said \in {11, 12} => Len(ansiBuf) = Said - 10)
  <2>1. /\ Said \in {1, 2, 3, 4, 5, 11, 12} /\ InCSI
        /\ Len(ansiBuf) \in 1 .. AnsiBufSize /\ (Said \in {11, 12} => Len(ansiBuf) = Said - 10)
    BY <1>1 DEF Telling, Parsing
  <2>2. Saying /\ pc # "return"
    BY <1>1 DEF Telling
  <2> HIDE DEF next
  <2> QED  BY <1>1, <2>1, <2>2, StillSaid
<1>3. IsFinal(char) <=> Said \in {2, 5, 12}
  <2>1. Spells
    BY <1>2, CharSaid
  <2>2. Said \in {1, 2, 3, 4, 5, 11, 12}
    BY <1>2
  <2>3. CASE Said \in {2, 5, 12}
    <3>1. char \in {91, 109}
      BY <2>1, <2>3 DEF Spells
    <3> QED  BY <2>3, <3>1 DEF IsFinal
  <2>4. CASE Said \notin {2, 5, 12}
    <3>1. char \in {27, 52, 49, 48}
      BY <2>1, <2>2, <2>4 DEF Spells
    <3> QED  BY <2>4, <3>1 DEF IsFinal
  <2> QED  BY <2>3, <2>4
<1>4. Len(ansiBuf') = Len(ansiBuf) /\ Last(ansiBuf') = char
  <2>1. ansiBuf \in Seq(Int) /\ Len(ansiBuf) \in Nat /\ Len(ansiBuf) > 0
    BY <1>2, SizesOf DEF Storing
  <2>2. Front(ansiBuf) \in Seq(Int) /\ Len(Front(ansiBuf)) = Len(ansiBuf) - 1
    <3> DEFINE n == Len(ansiBuf) - 1  front == SubSeq(ansiBuf, 1, n)
    <3>1. n \in Nat /\ \A i \in 1 .. n : ansiBuf[i] \in Int
      BY <2>1
    <3> HIDE DEF n
    <3>2. front \in Seq(Int) /\ Len(front) = IF 1 <= n THEN n - 1 + 1 ELSE 0
      BY <3>1, SubSeqProperties
    <3>3. Len(front) = n
      BY <3>1, <3>2
    <3> QED  BY <3>2, <3>3 DEF Front, n
  <2> DEFINE front == Front(ansiBuf)
  <2> HIDE DEF front
  <2>3. /\ Len(Append(front, char)) = Len(front) + 1
        /\ Append(front, char)[Len(front) + 1] = char
    BY <2>2, AppendProperties DEF Storing, front
  <2> QED  BY <1>1, <2>1, <2>2, <2>3 DEF Last, front
<1>5. pc' = "process" <=> Said \in {2, 5, 12}
  BY <1>2, <1>3
<1>6. pc' = "return" => Len(ansiBuf) < AnsiBufSize
  BY <1>2, SizesOf
<1>7. Said = 11 => pc' = "return"
  BY <1>2, <1>3, SizesOf
<1>8. pc' \in {"process", "idle", "return"} /\ (pc' # "return" => char' = char)
  BY <1>1, <1>2 DEF To
<1> HIDE DEF next
<1>9. Parsing'
  BY <1>1, <1>2, <1>4, <1>5, <1>6, <1>7, <1>8, SizesOf DEF Parsing
<1>10. Placing'
  BY <1>1, <1>2, <1>8 DEF Placing, Telling
<1>11. Showing'
  BY <1>1, <1>2, <1>8, ShowsStill DEF Telling
<1> QED  BY <1>2, <1>9, <1>10, <1>11 DEF Telling

LEMMA ProcessTells == ASSUME ReportFits, Storing, Telling, Process PROVE Telling'
<1> USE DEF InIdle, InEsc, InCSI
<1>1. pc = "process" /\ UNCHANGED <<screen, writeState, ansiBuf>>
  BY DEF Process
<1>2. PICK next \in {"update", "idle"} : To(next)
  BY DEF Process
<1>3. /\ Saying' /\ Said' = Said /\ Said \in {2, 5, 12} /\ pc' = next /\ InCSI
      /\ Said \in 1 .. 13 /\ char = Report[Said] /\ Last(ansiBuf) = char
  BY <1>1, <1>2, StillSaid DEF Telling, Parsing
<1>4. Spells
  BY <1>3, CharSaid
<1>5. UNCHANGED cursor /\ (Said = 2 => To("idle"))
  BY <1>3, <1>4 DEF Process, Spells
<1>6. next = "update" => Said \in {5, 12}
  BY <1>2, <1>3, <1>5 DEF To
<1>7. Parsing'
  BY <1>1, <1>2, <1>3, <1>6 DEF Parsing
<1>8. Placing'
  BY <1>1, <1>2, <1>3, <1>5 DEF Placing, Telling
<1>9. Showing'
  BY <1>1, <1>2, <1>3, <1>5, ShowsStill DEF Telling
<1> QED  BY <1>3, <1>7, <1>8, <1>9 DEF Telling

LEMMA UpdateTells == ASSUME ReportFits, Storing, Telling, UpdateColors PROVE Telling'
<1> USE DEF InIdle, InEsc, InCSI
<1>1. pc = "update" /\ To("idle") /\ UNCHANGED <<screen, cursor, writeState, ansiBuf>>
  BY DEF UpdateColors
<1>2. Saying' /\ Said' = Said /\ Said \in {5, 12} /\ pc' = "idle" /\ InCSI
  BY <1>1, StillSaid DEF Telling, Parsing
<1>3. Parsing'
  BY <1>1, <1>2 DEF Parsing
<1>4. Placing'
  BY <1>1, <1>2 DEF Placing, Telling
<1>5. Showing'
  BY <1>1, <1>2, ShowsStill DEF Telling
<1> QED  BY <1>2, <1>3, <1>4, <1>5 DEF Telling

LEMMA IdleTells == ASSUME ReportFits, Storing, Telling, Idle PROVE Telling'
<1> USE DEF InIdle, InEsc, InCSI
<1>1. pc = "idle" /\ To("return") /\ writeState' = "Idle" /\ UNCHANGED <<screen, cursor>>
  BY DEF Idle, SetState
<1>2. Saying' /\ Said' = Said /\ Said \in {1, 2, 3, 4, 5, 12} /\ pc' = "return"
  BY <1>1, StillSaid DEF Telling, Parsing
<1>3. Parsing'
  BY <1>1, <1>2 DEF Parsing
<1>4. Placing'
  BY <1>1, <1>2 DEF Placing, Telling
<1>5. Showing'
  BY <1>1, <1>2, ShowsStill DEF Telling
<1> QED  BY <1>2, <1>3, <1>4, <1>5 DEF Telling

\* A sequence begins with ESC, and a line ends with LF
Opens(n, c) ==
  /\ c = ESC <=> n \in {1, 9}
  /\ c = LF <=> n \in {7, 13}

LEMMA OpensAt == ASSUME NEW n \in 1 .. 13, NEW c, c = Report[n] PROVE Opens(n, c)
<1>1. First # 27 /\ First # 10 /\ Second # 27 /\ Second # 10
  BY ReportAssumption DEF ESC, LF
<1> QED  BY <1>1, ReportFacts DEF Opens, ESC, LF

LEMMA CallTells ==
  ASSUME ReportFits, Storing, Telling, struck.yes, Call
  PROVE  Telling'
<1> USE DEF InIdle, InEsc, InCSI
<1>1. pc = "return" /\ rest # <<>> /\ Begin(Head(rest)) /\ rest' = Tail(rest) /\ UNCHANGED console
  BY DEF Call, Begin
<1>2. Saying' /\ Said' = Said + 1 /\ Said \in 0 .. 12 /\ char' = Report[Said + 1] /\ char' = Head(rest)
  BY <1>1, SaysNext DEF Telling, Begin
<1>3. Said \in {0, 1, 2, 3, 4, 5, 6, 7, 8, 9, 10, 11, 12}
  BY <1>2
<1>4. /\ char' = ESC <=> Said \in {0, 8}
      /\ char' = LF <=> Said \in {6, 12}
  <2>1. Said + 1 \in 1 .. 13 /\ char' = Report[Said + 1]
    BY <1>2
  <2>2. Opens(Said + 1, char')
    BY <2>1, OpensAt, Zenon
  <2> QED  BY <1>2, <1>3, <2>2 DEF Opens
<1>5. pc' = CASE InEsc -> "bracket" [] InCSI -> "reserve"
              [] InIdle -> CASE char' = ESC -> "escape" [] char' = LF -> "newline" [] OTHER -> "draw"
  BY <1>1, <1>2 DEF Begin
<1>6. UNCHANGED <<screen, cursor, writeState, ansiBuf>>
  BY <1>1 DEF console
<1>7. /\ Said \in {2, 3, 4} => ~InEsc
      /\ Said \in {5, 6, 7, 8, 12} => InIdle
      /\ Said = 9 => InEsc
      /\ Said \in {10, 11} => InCSI /\ Len(ansiBuf) = Said - 10
      /\ InCSI => Len(ansiBuf) < AnsiBufSize
  BY <1>1 DEF Telling, Parsing
<1>8. InIdle \/ InEsc \/ InCSI
  BY DEF Storing
<1>9. \/ InEsc /\ pc' = "bracket" /\ Said \in {0, 1, 9}
      \/ InCSI /\ pc' = "reserve" /\ Said \in {0, 1, 2, 3, 4, 10, 11}
      \/ InIdle /\ pc' = "escape" /\ Said \in {0, 8}
      \/ InIdle /\ pc' = "newline" /\ Said \in {6, 12}
      \/ InIdle /\ pc' = "draw" /\ Said \in {1, 2, 3, 4, 5, 7}
  <2>1. CASE InEsc
    BY <1>3, <1>5, <1>7, <2>1
  <2>2. CASE InCSI
    BY <1>3, <1>5, <1>7, <2>2
  <2>3. CASE InIdle
    <3>1. Said \in {0, 1, 2, 3, 4, 5, 6, 7, 8, 12}
      BY <1>3, <1>7, <2>3
    <3>2. CASE Said \in {0, 8}
      BY <1>4, <1>5, <2>3, <3>2
    <3>3. CASE Said \in {6, 12}
      BY <1>4, <1>5, <2>3, <3>3 DEF ESC, LF
    <3>4. CASE Said \in {1, 2, 3, 4, 5, 7}
      BY <1>4, <1>5, <2>3, <3>4
    <3> QED  BY <3>1, <3>2, <3>3, <3>4
  <2> QED  BY <1>8, <2>1, <2>2, <2>3
<1>10. Parsing'
  BY <1>2, <1>6, <1>7, <1>9 DEF Parsing
<1>11. Placing'
  <2>1. cursor \in Positions /\ (Said = 7 => cursor.x = 0)
    BY <1>1 DEF Telling, Placing
  <2>2. Positions \in SUBSET [x : Nat, y : Rows]
    BY SizesOf DEF Positions, Columns
  <2> QED  BY <1>2, <1>6, <1>9, <2>1, <2>2 DEF Placing
<1>12. Showing'
  <2>1. Line' = cursor.y /\ Line = cursor.y /\ UNCHANGED screen
    BY <1>1, <1>6, <1>9 DEF Line
  <2>2. /\ Said = 6 => FirstAbove(screen, cursor.y, 0, 1)
        /\ Said = 7 => FirstAbove(screen, cursor.y, 1, 2)
        /\ Said \in {8, 9, 10, 11, 12} => BothAbove(screen, cursor.y, 0)
    BY <1>1, <2>1 DEF Telling, Showing
  <2>3. /\ Said' = 6 => pc' = "draw"
        /\ Said' = 7 => pc' = "newline" /\ Said = 6
        /\ Said' = 8 => pc' = "draw" /\ Said = 7
        /\ Said' \in 9 .. 12 => Said \in {8, 9, 10, 11}
        /\ Said' = 13 => pc' = "newline" /\ Said = 12
    BY <1>2, <1>3, <1>7, <1>9
  <2> QED  BY <2>1, <2>2, <2>3 DEF Showing
<1> QED  BY <1>2, <1>10, <1>11, <1>12 DEF Telling

LEMMA DrawTells == ASSUME ReportFits, Storing, Telling, Draw PROVE Telling'
<1> USE DEF InIdle, InEsc, InCSI
<1>1. pc = "draw" /\ To("right") /\ UNCHANGED <<cursor, writeState, ansiBuf>>
  BY DEF Draw
<1>2. cursor \in Positions /\ (Said = 8 => cursor.x = 0) /\ Said \in {2, 3, 4, 5, 6, 7, 8, 13} /\ InIdle
  BY <1>1 DEF Telling, Parsing, Placing
<1>3. Saying' /\ Said' = Said /\ pc' = "right" /\ Said \in 1 .. 13 /\ char = Report[Said]
  BY <1>1, StillSaid DEF Telling
<1>4. screen' = [screen EXCEPT ![cursor.y][cursor.x] = Cell(char)]
  BY <1>2 DEF Draw
<1>5. /\ Said \in {2, 3, 4, 5, 6, 8}
      /\ Said = 8 => FirstAbove(screen, cursor.y, 1, 2)
  BY <1>1, <1>2 DEF Telling, Showing, Line
<1>6. Parsing'
  BY <1>1, <1>2, <1>3, <1>5 DEF Parsing
<1>7. Placing'
  BY <1>1, <1>2, <1>3 DEF Placing
<1>8. Showing'
  <2>1. Line' = cursor.y
    BY <1>1, <1>3 DEF Line
  <2>2. cursor.x \in Columns /\ cursor.y \in Rows /\ IsScreen(screen)
    BY <1>2 DEF Positions, Storing
  <2>3. /\ Said = 6 => Cell(char).glyph = First
        /\ Said = 8 => Cell(char).glyph = Second
    <3>1. /\ Said = 6 => char = First
          /\ Said = 8 => char = Second
      BY <1>3, LineSaid
    <3>2. ~(First > 127) /\ ~(Second > 127)
      BY ReportAssumption
    <3>3. char > 127 \/ Cell(char).glyph = char
      BY DEF Cell, Glyph
    <3> QED  BY <3>1, <3>2, <3>3
  <2>4. Said = 6 => FirstAbove(screen', cursor.y, 0, 0)
    BY <1>4, <2>2, <2>3, Draws
  <2>5. Said = 8 => BothAbove(screen', cursor.y, 0)
    BY <1>2, <1>4, <1>5, <2>2, <2>3, Draws
  <2> QED  BY <1>3, <1>5, <2>1, <2>4, <2>5 DEF Showing
<1> QED  BY <1>3, <1>6, <1>7, <1>8 DEF Telling

LEMMA RightTells == ASSUME ReportFits, Storing, Telling, Right PROVE Telling'
<1> USE DEF InIdle, InEsc, InCSI
<1>1. /\ pc = "right" /\ cursor' = [x |-> cursor.x + 1, y |-> cursor.y]
      /\ UNCHANGED <<screen, writeState, ansiBuf>>
  BY DEF Right, MoveTo
<1>2. PICK next \in {"newline", "return"} : To(next) /\ (next = "newline" <=> cursor.x + 1 = Width)
  BY DEF Right
<1>3. Saying' /\ Said' = Said /\ pc' = next
  BY <1>1, <1>2, StillSaid DEF Telling
<1>4. /\ cursor \in Positions /\ (Said = 8 => cursor.x = 0) /\ InIdle
      /\ Said \in {2, 3, 4, 5, 6, 8}
      /\ Said = 6 => FirstAbove(screen, cursor.y, 0, 0)
      /\ Said = 8 => BothAbove(screen, cursor.y, 0)
  BY <1>1 DEF Telling, Parsing, Placing, Showing, Line
<1>5. cursor.x \in Columns /\ cursor.y \in Rows /\ cursor.y \in Int
  BY <1>4, SizesOf DEF Positions, Rows
<1>6. Parsing'
  BY <1>1, <1>3, <1>4 DEF Parsing
<1>7. Placing'
  <2>1. cursor.x + 1 \in Nat /\ (next = "return" => cursor.x + 1 \in Columns)
    BY <1>2, <1>5, SizesOf DEF Columns
  <2>2. cursor' \in [x : Nat, y : Rows] /\ (next = "return" => cursor' \in Positions)
    BY <1>1, <1>5, <2>1 DEF Positions
  <2> QED  BY <1>3, <1>4, <2>2 DEF Placing
<1>8. Showing'
  <2>1. Line' = cursor.y
    BY <1>1, <1>3 DEF Line
  <2>2. Said = 6 => FirstAbove(screen, cursor.y, 0, 1)
    BY <1>4, <1>5, Widened
  <2>3. Said = 8 => next = "return"
    BY <1>2, <1>4, SizesOf
  <2> QED  BY <1>1, <1>3, <1>4, <2>1, <2>2, <2>3 DEF Showing
<1> QED  BY <1>3, <1>6, <1>7, <1>8 DEF Telling

LEMMA NewlineTells == ASSUME ReportFits, Storing, Telling, Newline PROVE Telling'
<1> USE DEF InIdle, InEsc, InCSI
<1>1. /\ pc = "newline" /\ To("down") /\ cursor' = [x |-> 0, y |-> cursor.y]
      /\ UNCHANGED <<screen, writeState, ansiBuf>>
  BY DEF Newline, MoveTo
<1>2. Saying' /\ Said' = Said /\ pc' = "down"
  BY <1>1, StillSaid DEF Telling
<1>3. /\ cursor.y \in Rows /\ InIdle
      /\ Said \in {2, 3, 4, 5, 6, 7, 13}
      /\ Said = 6 => FirstAbove(screen, cursor.y, 0, 0)
      /\ Said = 7 => FirstAbove(screen, cursor.y, 0, 1)
      /\ Said = 13 => BothAbove(screen, cursor.y, 0)
  BY <1>1 DEF Telling, Parsing, Placing, Showing, Line
<1>4. Parsing'
  BY <1>1, <1>2, <1>3 DEF Parsing
<1>5. Placing'
  BY <1>1, <1>2, <1>3 DEF Placing
<1>6. Showing'
  <2>1. Line' = cursor.y
    BY <1>1, <1>2 DEF Line
  <2> QED  BY <1>1, <1>2, <1>3, <2>1 DEF Showing
<1> QED  BY <1>2, <1>4, <1>5, <1>6 DEF Telling

LEMMA DownTells == ASSUME ReportFits, Storing, Telling, Down PROVE Telling'
<1> USE DEF InIdle, InEsc, InCSI
<1>1. /\ pc = "down" /\ cursor' = [x |-> cursor.x, y |-> cursor.y + 1]
      /\ UNCHANGED <<screen, writeState, ansiBuf>>
  BY DEF Down, MoveTo
<1>2. PICK next \in {"scroll", "return"} : To(next) /\ (next = "scroll" <=> cursor.y + 1 = Height)
  BY DEF Down
<1>3. Saying' /\ Said' = Said /\ pc' = next
  BY <1>1, <1>2, StillSaid DEF Telling
<1>4. /\ cursor \in [x : {0}, y : Rows] /\ InIdle
      /\ Said \in {2, 3, 4, 5, 6, 7, 13}
      /\ Said = 6 => FirstAbove(screen, cursor.y, 0, 0)
      /\ Said = 7 => FirstAbove(screen, cursor.y, 0, 1)
      /\ Said = 13 => BothAbove(screen, cursor.y, 0)
  BY <1>1 DEF Telling, Parsing, Placing, Showing, Line
<1>5. cursor.x = 0 /\ cursor.y \in Rows /\ cursor.y \in Int /\ cursor.y + 1 \in Int
  BY <1>4, SizesOf DEF Rows
<1>6. Parsing'
  BY <1>1, <1>3, <1>4 DEF Parsing
<1>7. Placing'
  <2>1. 0 \in Columns /\ (next = "return" => cursor.y + 1 \in Rows)
    BY <1>2, <1>5, SizesOf DEF Rows, Columns
  <2>2. /\ next = "scroll" => cursor' \in [x : {0}, y : {Height}]
        /\ next = "return" => cursor' \in Positions
        /\ cursor'.x = 0
    BY <1>1, <1>2, <1>5, <2>1 DEF Positions
  <2> QED  BY <1>3, <1>4, <2>2 DEF Placing
<1>8. Showing'
  <2> DEFINE line == cursor.y + 1
  <2>1. Line' = line
    BY <1>1, <1>3 DEF Line
  <2>2. Said = 6 => FirstAbove(screen, line, 1, 1) /\ FirstAbove(screen, line, 0, 1)
    <3>1. SUFFICES ASSUME Said = 6 PROVE FirstAbove(screen, line, 1, 1) /\ FirstAbove(screen, line, 0, 1)
      OBVIOUS
    <3>2. FirstAbove(screen, line, 0 + 1, 0 + 1)
      BY <1>4, <1>5, <3>1, LineMoves
    <3>3. FirstAbove(screen, line, 1, 1)
      BY <3>2
    <3>4. FirstAbove(screen, line, 0, 1)
      BY <1>5, <3>3, Widened
    <3> QED  BY <3>3, <3>4
  <2>3. Said = 7 => FirstAbove(screen, line, 1, 2)
    <3>1. SUFFICES ASSUME Said = 7 PROVE FirstAbove(screen, line, 1, 2)
      OBVIOUS
    <3>2. FirstAbove(screen, line, 0 + 1, 1 + 1)
      <4>1. 0 \in Int /\ 1 \in Int
        OBVIOUS
      <4> QED  BY <1>4, <1>5, <3>1, <4>1, LineMoves, Zenon
    <3> QED  BY <3>2
  <2>4. Said = 13 => BothAbove(screen, line, 1)
    <3>1. SUFFICES ASSUME Said = 13 PROVE BothAbove(screen, line, 1)
      OBVIOUS
    <3>2. BothAbove(screen, line, 0 + 1)
      <4>1. 0 \in Int /\ 1 \in Int
        OBVIOUS
      <4> QED  BY <1>4, <1>5, <3>1, <4>1, LineMoves, Zenon
    <3> QED  BY <3>2
  <2> HIDE DEF line
  <2> QED  BY <1>1, <1>2, <1>3, <1>4, <2>1, <2>2, <2>3, <2>4 DEF Showing
<1> QED  BY <1>3, <1>6, <1>7, <1>8 DEF Telling

LEMMA ScrollTells == ASSUME ReportFits, Storing, Telling, Scroll PROVE Telling'
<1> USE DEF InIdle, InEsc, InCSI
<1>1. /\ pc = "scroll" /\ To("up") /\ screen' = Scrolled(screen)
      /\ UNCHANGED <<cursor, writeState, ansiBuf>>
  BY DEF Scroll
<1>2. Saying' /\ Said' = Said /\ pc' = "up"
  BY <1>1, StillSaid DEF Telling
<1>3. /\ cursor \in [x : {0}, y : {Height}] /\ InIdle
      /\ Said \in {2, 3, 4, 5, 6, 7, 13}
      /\ Said = 6 => FirstAbove(screen, Height, 1, 1)
      /\ Said = 7 => FirstAbove(screen, Height, 1, 2)
      /\ Said = 13 => BothAbove(screen, Height, 1)
  BY <1>1 DEF Telling, Parsing, Placing, Showing, Line
<1>4. Parsing'
  BY <1>1, <1>2, <1>3 DEF Parsing
<1>5. Placing'
  BY <1>1, <1>2, <1>3 DEF Placing
<1>6. Showing'
  <2>1. Line' = Height - ScrollAmount
    BY <1>1, <1>2, <1>3 DEF Line
  <2>2. /\ Said = 6 => FirstAbove(screen', Height - ScrollAmount, 1, 1)
        /\ Said = 7 => FirstAbove(screen', Height - ScrollAmount, 1, 2)
        /\ Said = 13 => BothAbove(screen', Height - ScrollAmount, 1)
    BY <1>1, <1>3, ScrollsUp
  <2> QED  BY <1>2, <1>3, <2>1, <2>2 DEF Showing
<1> QED  BY <1>2, <1>4, <1>5, <1>6 DEF Telling

LEMMA UpTells == ASSUME ReportFits, Storing, Telling, Up PROVE Telling'
<1> USE DEF InIdle, InEsc, InCSI
<1> DEFINE line == cursor.y - ScrollAmount
<1>1. /\ pc = "up" /\ To("return") /\ cursor' = [x |-> cursor.x, y |-> line]
      /\ UNCHANGED <<screen, writeState, ansiBuf>>
  BY DEF Up, MoveTo
<1>2. Saying' /\ Said' = Said /\ pc' = "return"
  BY <1>1, StillSaid DEF Telling
<1>3. /\ cursor \in [x : {0}, y : {Height}] /\ InIdle
      /\ Said \in {2, 3, 4, 5, 6, 7, 13}
      /\ Said = 6 => FirstAbove(screen, line, 1, 1)
      /\ Said = 7 => FirstAbove(screen, line, 1, 2)
      /\ Said = 13 => BothAbove(screen, line, 1)
  BY <1>1 DEF Telling, Parsing, Placing, Showing, Line
<1>4. line \in Rows /\ line \in Int /\ 0 \in Columns /\ cursor.x = 0
  BY <1>3, SizesOf DEF Rows, Columns
<1>5. Parsing'
  BY <1>1, <1>2, <1>3 DEF Parsing
<1>6. Placing'
  <2>1. cursor' \in Positions /\ cursor'.x = 0
    BY <1>1, <1>4 DEF Positions
  <2> QED  BY <1>2, <1>3, <2>1 DEF Placing
<1>7. Showing'
  <2>1. Line' = line
    BY <1>1, <1>2 DEF Line
  <2> HIDE DEF line
  <2>2. Said = 6 => FirstAbove(screen, line, 0, 1)
    BY <1>3, <1>4, Widened
  <2> QED  BY <1>1, <1>2, <1>3, <2>1, <2>2 DEF Showing
<1> QED  BY <1>2, <1>5, <1>6, <1>7 DEF Telling

-----------------------------------------------------------------------------
(* The failure, and the end *)

\* Panic begins with all of the report to say, and a sound console
LEMMA StrikeTells == ASSUME ReportFits, Storing, Strike, struck'.sound PROVE Telling'
<1> USE DEF InIdle, InEsc, InCSI
<1>1. Sound /\ pc' = "return" /\ rest' = Report /\ UNCHANGED <<screen, cursor, writeState, ansiBuf>>
  BY DEF Strike, console
<1>2. Said' = 0
  BY <1>1, ReportFacts DEF Said
<1>3. Saying'
  <2>1. \A j \in 1 .. 13 : rest'[j - 0] = Report[j]
    BY <1>1
  <2> QED  BY <1>1, <1>2, <2>1 DEF Saying
<1>4. Parsing' /\ Placing'
  BY <1>1, <1>2 DEF Parsing, Placing, Sound
<1>5. Showing'
  BY <1>2 DEF Showing
<1> QED  BY <1>3, <1>4, <1>5 DEF Telling

LEMMA TellingStep ==
  ASSUME ReportFits, Storing, [StepNext]_all, struck.yes, Telling
  PROVE  Telling'
<1>1. ASSUME UNCHANGED all PROVE Telling'
  <2>1. UNCHANGED <<screen, cursor, writeState, ansiBuf, pc, char, rest>>
    BY <1>1 DEF all, console
  <2>2. Said' = Said
    BY <2>1 DEF Said
  <2>3. Line' = Line
    BY <2>1 DEF Line
  <2>4. Saying' /\ Parsing' /\ Placing'
    BY <2>1, <2>2 DEF Telling, Saying, Parsing, Placing, InIdle, InEsc, InCSI
  <2>5. Showing'
    BY <2>1, <2>2, <2>3 DEF Telling, Showing
  <2> QED  BY <2>4, <2>5 DEF Telling
<1>2. ~CallClear /\ ~Strike
  BY DEF CallClear, Strike
<1> QED  BY <1>1, <1>2, CallTells, EscapeTells, DrawTells, RightTells, NewlineTells, DownTells,
            ScrollTells, UpTells, BracketedTells, EmptyTells, ReserveTells, StoreCharTells,
            ProcessTells, UpdateTells, IdleTells DEF StepNext

LEMMA ReportInvInit == ASSUME ReportFits, StepInit PROVE ReportInv
<1>1. IsScreen(screen)
  BY DEF StepInit, Init, IsScreen, BlankRow
<1> QED  BY <1>1 DEF ReportInv, StepInit, Init, Storing, InIdle, LF

LEMMA ReportInvStep == ASSUME ReportFits, ReportInv, [StepNext]_all PROVE ReportInv'
<1>1. Storing /\ Storing'
  BY StoringStep DEF ReportInv
<1>2. ASSUME struck'.yes, struck'.sound PROVE Telling'
  <2>1. CASE Strike
    BY <1>1, <1>2, <2>1, StrikeTells
  <2>2. CASE UNCHANGED struck
    BY <1>1, <1>2, <2>2, TellingStep DEF ReportInv
  <2>3. Strike \/ UNCHANGED struck
    <3>1. ASSUME NEW next, To(next) PROVE UNCHANGED struck
      BY <3>1 DEF To
    <3>2. ASSUME NEW c, Begin(c) PROVE UNCHANGED struck
      BY <3>2 DEF Begin
    <3> QED  BY <3>1, <3>2 DEF StepNext, all, Call, Escape, Draw, Right, Newline, Down, Scroll, Up,
               Bracketed, Empty, Reserve, StoreChar, Process, UpdateColors, Idle, CallClear
  <2> QED  BY <2>1, <2>2, <2>3
<1> QED  BY <1>1, <1>2 DEF ReportInv

LEMMA ReportInvLegible == ASSUME ReportFits, ReportInv PROVE ReportLegible
<1> SUFFICES ASSUME struck.yes, struck.sound, rest = <<>>, pc = "return"
             PROVE  \E y, z \in Rows : \E x \in Columns :
                      y < z /\ screen[y][x].glyph = First /\ screen[z][0].glyph = Second
  BY DEF ReportLegible
<1>1. Said = 13
  BY DEF Said
<1>2. BothAbove(screen, Line, 1)
  BY <1>1 DEF ReportInv, Telling, Showing
<1> QED  BY <1>2 DEF BothAbove

\* Wherever a failure strikes a console that has room for the next character,
\* inside a sequence of any kind or in the middle of a scroll, panic's report
\* can be read on the screen when panic halts (log.cpp's panic; print, newline
\* and the parser of FramebufferConsole).
THEOREM ReportIsLegible == ASSUME ReportFits PROVE StepSpec => []ReportLegible
<1>1. StepInit => ReportInv
  BY ReportInvInit
<1>2. ReportInv /\ [StepNext]_all => ReportInv'
  BY ReportInvStep
<1>3. ReportInv => ReportLegible
  BY ReportInvLegible
<1> QED  BY <1>1, <1>2, <1>3, PTL DEF StepSpec
=============================================================================
