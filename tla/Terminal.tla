------------------------------ MODULE Terminal ------------------------------
(***************************************************************************)
(* What FramebufferConsole promises whoever writes to it: a terminal.  A   *)
(* character is shown at the cursor, in the ink chosen last; what has been *)
(* shown stays, moving up only when the cursor leaves at the bottom; an    *)
(* escape sequence, all of it, moves the cursor or changes the ink.        *)
(***************************************************************************)
EXTENDS Integers

CONSTANTS
  Width, Height,
  Cells(_),     \* Cells(ink): what a cell may show in an ink
  Blank(_)      \* Blank(ink): what an empty cell shows

VARIABLES screen, cursor, ink

Rows      == 0 .. Height - 1
Columns   == 0 .. Width - 1
Positions == [x : Columns, y : Rows]

Empty(i) == [y \in Rows |-> [x \in Columns |-> Blank(i)]]

Init ==
  /\ screen = Empty(ink)
  /\ cursor = [x |-> 0, y |-> 0]

\* The text moves up by k rows, if the line to begin would be off the screen
\* and by as much as it takes to have it on the screen
LineFeed(text) ==
  \E k \in 0 .. Height :
    /\ k = 0 <=> cursor.y + 1 \in Rows
    /\ cursor' = [x |-> 0, y |-> cursor.y + 1 - k] /\ cursor' \in Positions
    /\ screen' = [y \in Rows |-> IF y + k \in Rows THEN text[y + k] ELSE Empty(ink)[y]]
    /\ UNCHANGED ink

Put(cell) ==
  LET text == [screen EXCEPT ![cursor.y][cursor.x] = cell]
  IN  \/ /\ cursor.x + 1 \in Columns
         /\ screen' = text /\ cursor' = [cursor EXCEPT !.x = @ + 1]
         /\ UNCHANGED ink
      \/ cursor.x + 1 \notin Columns /\ LineFeed(text)

Move  == cursor' \in Positions /\ UNCHANGED <<screen, ink>>
Dip   == UNCHANGED <<screen, cursor>>
Erase == screen' = Empty(ink)  /\ UNCHANGED <<cursor, ink>>

Next ==
  \/ \E cell \in Cells(ink) : Put(cell)
  \/ LineFeed(screen) \/ Move \/ Dip \/ Erase

Spec == Init /\ [][Next]_<<screen, cursor, ink>>
=============================================================================
