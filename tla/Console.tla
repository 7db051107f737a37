------------------------------ MODULE Console -------------------------------
(***************************************************************************)
(* FramebufferConsole: the character screen on the framebuffer, with its   *)
(* cursor, its scrolling, and its parser for escape sequences.  A step is  *)
(* a call of write(const char), with all it calls.                         *)
(*                                                                         *)
(* The screen is kept in characters; a cell stands for the pixels drawChar *)
(* paints.  Characters are their codes, 0 to 255.                          *)
(***************************************************************************)
EXTENDS Integers, SequencesExt

CONSTANTS
  Width, Height,   \* bufferChars
  ScrollAmount,    \* kScrollAmount
  AnsiBufSize,     \* kAnsiBufSize
  NumberSize,      \* the size of the buffer "number" of the sequences' parsers
  Chars            \* the characters that are written

ASSUME ScreenAssumption ==
  /\ Width \in Nat \ {0} /\ ScrollAmount \in Nat \ {0}
  /\ Height \in Nat /\ Height >= ScrollAmount
ASSUME BufferAssumption == AnsiBufSize \in Nat \ {0} /\ NumberSize \in Nat \ {0}
ASSUME CharsAssumption  == Chars \subseteq 0 .. 255

VARIABLES
  screen,          \* screen[y][x]: the character shown there, and its colours
  cursor,          \* cursorPos
  writeState,      \* writeState
  ansiBuf,         \* ansiBuf, up to ansiBufUsed
  colorIndices,    \* colorIndices: foreground and background
  colors           \* colors: the indices whose colours they are

vars == <<screen, cursor, writeState, ansiBuf, colorIndices, colors>>

Rows      == 0 .. Height - 1
Columns   == 0 .. Width - 1
Positions == [x : Columns, y : Rows]

ESC == 27   LF == 10   Bracket == 91   Semicolon == 59   Zero == 48

IsDigit(ch) == ch \in 48 .. 57
IsFinal(ch) == ch \in 64 .. 126

Color      == 0 .. 15
Colors     == [fg : Color, bg : Color]
DefaultInk == [fg |-> 15, bg |-> 0]

\* A char is signed: one above 127 compares greater than every glyph
Glyph(ch) == IF ch > 127 THEN 63 ELSE ch

\* Mutant of Cell: the colours the wrong way round
CellInverse(ch) == [glyph |-> Glyph(ch), fg |-> colors.bg, bg |-> colors.fg]

Cell(ch)  == [glyph |-> Glyph(ch), fg |-> colors.fg, bg |-> colors.bg]

\* Pixels painted with the background: a space in its own colour
Blank(ink) == [glyph |-> 32, fg |-> ink.bg, bg |-> ink.bg]
BlankRow   == [x \in Columns |-> Blank(colors)]

\* The constructor: updateColors and clear
Init ==
  /\ colorIndices = DefaultInk /\ colors = DefaultInk
  /\ screen = [y \in Rows |-> BlankRow]
  /\ cursor = [x |-> 0, y |-> 0]
  /\ writeState = "Idle" /\ ansiBuf = <<>>

-----------------------------------------------------------------------------
(* print, drawChar, newline *)

\* Mutant of Scrolled: the rows copied from one too far down
ScrolledTooFar(text) ==
  [y \in Rows |-> IF y + ScrollAmount + 1 < Height THEN text[y + ScrollAmount + 1] ELSE BlankRow]

\* The memcpy of the rows below, the rows it uncovers painted
Scrolled(text) ==
  [y \in Rows |-> IF y + ScrollAmount < Height THEN text[y + ScrollAmount] ELSE BlankRow]

\* ++cursorPos[1] == bufferChars[Height]
AtBottom == cursor.y + 1 = Height

\* Mutant of newline: the cursor not moved up with the text
newlineOnly(text) ==
  /\ screen' = IF AtBottom THEN Scrolled(text) ELSE text
  /\ cursor' = [x |-> 0, y |-> cursor.y + 1]

newline(text) ==
  /\ screen' = IF AtBottom THEN Scrolled(text) ELSE text
  /\ cursor' = [x |-> 0, y |-> IF AtBottom THEN cursor.y + 1 - ScrollAmount ELSE cursor.y + 1]

\* ++cursorPos[0] == bufferChars[Width]
AtRight == cursor.x + 1 = Width

print(ch) ==
  LET drawn == [screen EXCEPT ![cursor.y][cursor.x] = Cell(ch)]
  IN  IF ch = LF THEN newline(screen)
      ELSE IF AtRight THEN newline(drawn)
      ELSE screen' = drawn /\ cursor' = [cursor EXCEPT !.x = @ + 1]

-----------------------------------------------------------------------------
(* The escape sequences' parameters *)

\* The longest prefix of characters that pass the test
While(s, Test(_)) ==
  SubSeq(s, 1, Max({n \in 0 .. Len(s) : \A i \in 1 .. n : Test(s[i])}))

StrToInt(s) ==
  LET digits == While(s, IsDigit)
      i[n \in 0 .. Len(digits)] == IF n = 0 THEN 0 ELSE i[n - 1] * 10 + (digits[n] - Zero)
  IN  i[Len(digits)]

\* What the parsers read: the final byte is overwritten by a NUL
Text(buf) == While(Front(buf), LAMBDA ch : ch # 0)

\* The numbers between the semicolons, one after the other in "number"
Numbers(s) ==
  LET cuts   == {0, Len(s) + 1} \cup {i \in DOMAIN s : s[i] = Semicolon}
      cut(k) == CHOOSE c \in cuts : Cardinality({d \in cuts : d < c}) = k
  IN  [i \in 1 .. Cardinality(cuts) - 1 |-> SubSeq(s, cut(i - 1) + 1, cut(i) - 1)]

(* SGR: the colours *)

\* Mutant of Sgr: the command not made an index
SgrRaw(ink, str) ==
  LET cmd == StrToInt(str)
  IN  IF str = <<>> \/ str = <<Zero>> THEN DefaultInk
      ELSE [ink EXCEPT !.bg = IF cmd \in 40 .. 47 THEN cmd ELSE @]

\* processAnsiSgr(str, strlen)
Sgr(ink, str) ==
  LET cmd == StrToInt(str)
  IN  IF str = <<>> \/ str = <<Zero>> THEN DefaultInk
      ELSE [fg |-> CASE cmd \in 30 .. 37 -> cmd - 30
                     [] cmd \in 90 .. 97 -> cmd - 82
                     [] OTHER            -> ink.fg,
            bg |-> CASE cmd \in 40 .. 47   -> cmd - 40
                     [] cmd \in 100 .. 107 -> cmd - 92
                     [] OTHER              -> ink.bg]

\* An empty number counts, except at the end; "m" alone resets
SgrNumbers(buf) ==
  LET n == Numbers(Text(buf))
  IN  IF Len(buf) = 1 THEN <<<<>>>> ELSE IF Last(n) = <<>> THEN Front(n) ELSE n

\* The colours after all of them, one after the other
Inked(ink, numbers) ==
  LET inks[i \in 0 .. Len(numbers)] == IF i = 0 THEN ink ELSE Sgr(inks[i - 1], numbers[i])
  IN  inks[Len(numbers)]

(* CUP: the cursor *)

Origin(n) == IF StrToInt(n) = 0 THEN 0 ELSE StrToInt(n) - 1

\* Row and column in turns, the last of each counts; a sequence of one number,
\* even an empty one, leaves the column alone
Cup(buf) ==
  LET n == Numbers(Text(buf))
      k == Len(n)
  IN  [y |-> Origin(n[IF k % 2 = 1 THEN k ELSE k - 1]),
       x |-> IF k = 1 THEN cursor.x ELSE Origin(n[IF k % 2 = 0 THEN k ELSE k - 1])]

(* What the callers keep to, and the code does not check *)

\* No number fills the buffer "number"
FitsNumber(buf) == \A i \in DOMAIN Numbers(Text(buf)) : Len(Numbers(Text(buf))[i]) < NumberSize
NumbersFit(buf) == Last(buf) \in {109, 72} => FitsNumber(buf)

\* The cursor is sent to a place on the screen
StaysOnScreen(buf) == Last(buf) = 72 => Cup(buf) \in Positions

-----------------------------------------------------------------------------
(* processAnsi, on the sequence received *)

\* Mutant of processAnsiSgr: "m" alone returns without updateColors
processAnsiSgrReturns(buf) ==
  LET ink == Inked(colorIndices, SgrNumbers(buf))
  IN  /\ colorIndices' = ink
      /\ colors' = IF Len(buf) = 1 THEN colors ELSE ink
      /\ UNCHANGED cursor

processAnsiSgr(buf) ==
  LET ink == Inked(colorIndices, SgrNumbers(buf))
  IN  /\ colorIndices' = ink /\ colors' = ink      \* updateColors
      /\ UNCHANGED cursor

\* Any row and any column is stored
processAnsiCup(buf) == cursor' = Cup(buf) /\ UNCHANGED <<colorIndices, colors>>

\* Any other sequence is logged, to the serial line.  (The log's %s takes ansiBuf
\* for a string, which it is not when the sequence fills it: what is then read
\* behind ansiBuf, and put out, is not modelled.)
processAnsi(buf) ==
  CASE Last(buf) = 109 -> processAnsiSgr(buf)
    [] Last(buf) = 72  -> processAnsiCup(buf)
    [] OTHER           -> UNCHANGED <<cursor, colorIndices, colors>>

-----------------------------------------------------------------------------
(* write(ch), a disjunct for each writeState *)

WriteIdle(ch) ==
  /\ writeState = "Idle"
  /\ \/ /\ ch # ESC /\ print(ch)
        /\ UNCHANGED writeState
     \/ /\ ch = ESC /\ writeState' = "AnsiEscapeStart"
        /\ UNCHANGED <<screen, cursor>>
  /\ UNCHANGED <<ansiBuf, colorIndices, colors>>

WriteEscape(ch) ==
  /\ writeState = "AnsiEscapeStart"
  /\ writeState' = IF ch = Bracket THEN "AnsiReadingCSI" ELSE "Idle"
  /\ ansiBuf' = <<>>
  /\ UNCHANGED <<screen, cursor, colorIndices, colors>>

\* Mutant of WriteCSI: the buffer tested for being overfull
WriteCSIOverfull(ch) ==
  LET buf == Append(ansiBuf, ch)
      end == IsFinal(ch) \/ Len(buf) > AnsiBufSize
  IN  /\ writeState = "AnsiReadingCSI"
      /\ IF IsFinal(ch) THEN processAnsi(buf) ELSE UNCHANGED <<cursor, colorIndices, colors>>
      /\ ansiBuf' = IF end THEN <<>> ELSE buf
      /\ writeState' = IF end THEN "Idle" ELSE writeState
      /\ UNCHANGED screen

\* What ansiBuf holds outside a sequence is not read: it is emptied at the end
\* of one, too
WriteCSI(ch) ==
  LET buf == Append(ansiBuf, ch)
      end == IsFinal(ch) \/ Len(buf) = AnsiBufSize
  IN  /\ writeState = "AnsiReadingCSI"
      /\ IF IsFinal(ch) THEN processAnsi(buf) ELSE UNCHANGED <<cursor, colorIndices, colors>>
      /\ ansiBuf' = IF end THEN <<>> ELSE buf
      /\ writeState' = IF end THEN "Idle" ELSE writeState
      /\ UNCHANGED screen

write(ch) == WriteIdle(ch) \/ WriteEscape(ch) \/ WriteCSI(ch)

\* clear, the cursor stays where it is
clear ==
  /\ screen' = [y \in Rows |-> BlankRow]
  /\ UNCHANGED <<cursor, writeState, ansiBuf, colorIndices, colors>>

\* A character the callers write: one that ends a sequence keeps to the above
Sent(ch) ==
  writeState = "AnsiReadingCSI" /\ IsFinal(ch) =>
    NumbersFit(Append(ansiBuf, ch)) /\ StaysOnScreen(Append(ansiBuf, ch))

Next == (\E ch \in Chars : Sent(ch) /\ write(ch)) \/ clear
Spec == Init /\ [][Next]_vars

-----------------------------------------------------------------------------
(* Properties *)

TypeOK ==
  /\ screen \in [Rows -> [Columns -> [glyph : 0 .. 127, fg : Color, bg : Color]]]
  /\ cursor \in [x : Nat, y : Nat]
  /\ writeState \in {"Idle", "AnsiEscapeStart", "AnsiReadingCSI"}
  /\ ansiBuf \in Seq(Chars)
  /\ colorIndices \in Colors /\ colors \in Colors

\* The next character is drawn inside the framebuffer: print and newline look
\* for the right and the lower edge with ==, so neither may ever be passed,
\* and a scroll must not move the cursor above the first row.  It is so for
\* texts that send the cursor to no other place (StaysOnScreen).
CursorOnScreen == cursor \in Positions

\* write stores into ansiBuf before it looks whether the buffer is full: there
\* must be room for one more character whenever a sequence is being read.
AnsiBufFits == writeState = "AnsiReadingCSI" => Len(ansiBuf) < AnsiBufSize

\* Characters are drawn from colors, which is worked out ahead from
\* colorIndices: it is never out of date, whichever way a sequence ends.
ColorsUpToDate == colors = colorIndices

\* All of it is a terminal: a character lands in one cell, in the ink chosen
\* last; text moves up only as the cursor leaves at the bottom, and is kept;
\* a sequence changes the ink or the cursor, never both, and no text.
CellsIn(ink) == {[glyph |-> Glyph(ch), fg |-> ink.fg, bg |-> ink.bg] : ch \in Chars}
Abstract == INSTANCE Terminal WITH ink <- colorIndices, Cells <- CellsIn
ImplementsTerminal == Abstract!Spec
=============================================================================
