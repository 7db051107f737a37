---------------------------- MODULE Framebuffer ----------------------------
(***************************************************************************)
(* The pixels behind the cells of Console: drawChar, newline's scroll and  *)
(* clear, by the words of memory they write, in lockstep with it.  A pixel *)
(* is the index of its colour.                                             *)
(***************************************************************************)
EXTENDS Console

CONSTANTS
  PixelWidth, PixelHeight,   \* bufferSize
  Stride,                    \* bufferStride, in words
  Words,                     \* the words of memory from buffer on
  FontWidth, FontHeight,     \* of a glyph, in pixels
  Font,                      \* Font[g]: the bytes of a glyph, a row after the other
  Before                     \* Before[a]: what is in memory when the console comes

ASSUME PixelAssumption ==
  /\ PixelWidth \in Nat /\ PixelHeight \in Nat /\ Stride \in Nat /\ Words \in Nat
  /\ FontWidth \in Nat \ {0} /\ FontHeight \in Nat \ {0}
  /\ Width = PixelWidth \div FontWidth /\ Height = PixelHeight \div FontHeight
  /\ Stride >= PixelWidth /\ Words >= PixelHeight * Stride

VARIABLE pixels

Memory == 0 .. Words - 1

\* The column and the row of a word
Column(a) == a % Stride
Row(a)    == a \div Stride

\* clear, a row at a time
Cleared == [a \in Memory |-> IF Row(a) < PixelHeight /\ Column(a) < PixelWidth
                               THEN colors.bg ELSE pixels[a]]

\* Bytes of a row that are behind when column c is drawn: fontData++ comes after
\* a column that is a multiple of 8, and not after the first
Passed(c) == IF c = 0 THEN 0 ELSE (c - 1) \div 8

Byte(r, c) == r * (Passed(FontWidth) + 1) + Passed(c)

Bit(byte, n) == (byte \div 2 ^ n) % 2

\* drawChar(ch, x, y) at the cursor
Drawn(ch) ==
  LET base == FontHeight * cursor.y * Stride + cursor.x * FontWidth
  IN  [a \in Memory |->
         LET r == Row(a - base)  c == Column(a - base)
         IN  IF a >= base /\ r < FontHeight /\ c < FontWidth
               THEN IF Bit(Font[Glyph(ch)][Byte(r, c) + 1], c % 8) = 1 THEN colors.fg ELSE colors.bg
               ELSE pixels[a]]

\* Mutant of Moved: as many rows of pixels as of characters
MovedRows(from) ==
  LET toMove == Stride * (Height - ScrollAmount)
      yOff   == FontHeight * ScrollAmount * Stride
  IN  [a \in Memory |-> IF a < toMove THEN from[a + yOff] ELSE from[a]]

\* newline's memcpy, which Memory shows to be right on ranges that overlap so
Moved(from) ==
  LET toMove == Stride * (Height - ScrollAmount) * FontHeight
      yOff   == FontHeight * ScrollAmount * Stride
  IN  [a \in Memory |-> IF a < toMove THEN from[a + yOff] ELSE from[a]]

\* Mutant of Uncovered: the rows painted in all their stride
UncoveredStride(from) ==
  LET clearPtr == (Height - ScrollAmount) * FontHeight
  IN  [a \in Memory |-> IF Row(a) \in clearPtr .. clearPtr + ScrollAmount * FontHeight - 1
                          THEN colors.bg ELSE from[a]]

\* The rows it uncovers are painted
Uncovered(from) ==
  LET clearPtr == (Height - ScrollAmount) * FontHeight
  IN  [a \in Memory |->
         IF Row(a) \in clearPtr .. clearPtr + ScrollAmount * FontHeight - 1 /\ Column(a) < PixelWidth
           THEN colors.bg ELSE from[a]]

\* newline
Lined(from) == IF AtBottom THEN Uncovered(Moved(from)) ELSE from

\* print
Printed(ch) ==
  CASE ch = LF               -> Lined(pixels)
    [] ch # LF /\ AtRight    -> Lined(Drawn(ch))
    [] ch # LF /\ ~AtRight   -> Drawn(ch)

PixelInit ==
  /\ Init
  /\ pixels = [a \in Memory |-> IF Row(a) < PixelHeight /\ Column(a) < PixelWidth
                                  THEN colors.bg ELSE Before[a]]

Write(ch) ==
  write(ch) /\ pixels' = IF writeState = "Idle" /\ ch # ESC THEN Printed(ch) ELSE pixels

Clear == clear /\ pixels' = Cleared

PixelNext == (\E ch \in Chars : Sent(ch) /\ Write(ch)) \/ Clear
PixelSpec == PixelInit /\ [][PixelNext]_<<vars, pixels>>

-----------------------------------------------------------------------------
(* Properties *)

At(x, y, c, r) == (y * FontHeight + r) * Stride + x * FontWidth + c

\* The pixels are those of the cells: each glyph where its cell is, row by row
\* of the font, in the cell's colours, drawn, scrolled or cleared however often.
ShowsScreen ==
  \A y \in Rows, x \in Columns, r \in 0 .. FontHeight - 1, c \in 0 .. FontWidth - 1 :
    LET cell == screen[y][x]
        byte == r * ((FontWidth + 7) \div 8) + c \div 8
    IN  pixels[At(x, y, c, r)] =
          IF Bit(Font[cell.glyph][byte + 1], c % 8) = 1 THEN cell.fg ELSE cell.bg

\* What is outside of the screen stays what it was.  Behind the framebuffer's
\* last row no word changes.  What a row has beyond its last column is never
\* painted; newline's memcpy, which copies whole strides, moves it up with the
\* row: it is, all of it, what this row or one below it had there before.
KeepsInside ==
  /\ \A a \in Memory : Row(a) >= PixelHeight => pixels[a] = Before[a]
  /\ \A p \in 0 .. PixelHeight - 1 : \E q \in p .. PixelHeight - 1 :
       \A c \in PixelWidth .. Stride - 1 : pixels[p * Stride + c] = Before[q * Stride + c]
=============================================================================
