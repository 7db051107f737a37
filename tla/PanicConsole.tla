---------------------------- MODULE PanicConsole ----------------------------
(***************************************************************************)
(* The console taken apart, a step for each store it makes, and a failure  *)
(* between any two: what was being written is given up where it is, and    *)
(* panic writes its report to the console as it was left.  The report of   *)
(* Panic is here the few characters of Report.                             *)
(*                                                                         *)
(* Without optimisation (-O0) the compiler makes the stores in this order. *)
(* A drawing or a scroll cut short leaves the cursor as one not begun      *)
(* does, so each is a step.                                                *)
(***************************************************************************)
EXTENDS Console

CONSTANTS
  Texts,           \* what the kernel writes until then
  First, Second    \* the text of the report's two lines, a character each

\* There is something to write, and Console can be sent it
ASSUME TextsAssumption == Texts \subseteq Seq(Chars) \ {<<>>}

\* What there is to report is shown as it is
ASSUME ReportAssumption == {First, Second} \subseteq 0 .. 127 \ {ESC, LF}

\* "\033[41mpanic: %s\npc: $%p\033[0m\n"
Report == <<ESC, Bracket, 52, 49, 109, First, LF, Second, ESC, Bracket, 48, 109, LF>>

VARIABLES
  pc,        \* the store that is next
  char,      \* the character that is written
  rest,      \* what is to be written after it
  struck,    \* did a failure strike, and how did it find the console
  quiet      \* the console when a call returned last, before a failure (history)

console == <<screen, cursor, writeState, ansiBuf, colorIndices, colors>>
all     == <<console, pc, char, rest, struck, quiet>>

Snapshot == [screen |-> screen, cursor |-> cursor, writeState |-> writeState,
             ansiBuf |-> IF writeState = "AnsiReadingCSI" THEN ansiBuf ELSE <<>>,
             colorIndices |-> colorIndices, colors |-> colors]

\* A place where the next character can be drawn, and stored
Sound == cursor \in Positions /\ (writeState = "AnsiReadingCSI" => Len(ansiBuf) < AnsiBufSize)

StepInit ==
  /\ Init /\ pc = "return" /\ char = LF /\ rest = <<>>
  /\ struck = [yes |-> FALSE, sound |-> TRUE] /\ quiet = Snapshot

To(next) ==
  /\ pc' = next
  /\ quiet' = IF next = "return" /\ ~struck.yes THEN Snapshot' ELSE quiet
  /\ char' = IF next = "return" THEN LF ELSE char
  /\ UNCHANGED <<rest, struck>>

\* write is called with c
Begin(c) ==
  /\ pc = "return" /\ char' = c
  /\ pc' = CASE writeState = "AnsiEscapeStart" -> "bracket"
             [] writeState = "AnsiReadingCSI"  -> "reserve"
             [] writeState = "Idle" -> CASE c = ESC -> "escape" [] c = LF -> "newline"
                                         [] OTHER -> "draw"
  /\ UNCHANGED <<console, struck, quiet>>

Call ==
  \/ rest # <<>> /\ Begin(Head(rest)) /\ rest' = Tail(rest)
  \/ rest = <<>> /\ ~struck.yes /\ \E text \in Texts : Begin(Head(text)) /\ rest' = Tail(text)

SetState(state) ==
  writeState' = state /\ UNCHANGED <<screen, cursor, ansiBuf, colorIndices, colors>>

Escape == pc = "escape" /\ SetState("AnsiEscapeStart") /\ To("return")

-----------------------------------------------------------------------------
(* print *)

MoveTo(x, y) ==
  cursor' = [x |-> x, y |-> y]
  /\ UNCHANGED <<screen, writeState, ansiBuf, colorIndices, colors>>

\* Outside of the screen it is some other memory that is drawn on
Draw ==
  /\ pc = "draw" /\ To("right")
  /\ screen' = IF cursor \in Positions THEN [screen EXCEPT ![cursor.y][cursor.x] = Cell(char)] ELSE screen
  /\ UNCHANGED <<cursor, writeState, ansiBuf, colorIndices, colors>>

\* Mutant of Right: the edge looked for before the step
RightLate ==
  /\ pc = "right" /\ MoveTo(cursor.x + 1, cursor.y)
  /\ To(IF cursor.x = Width THEN "newline" ELSE "return")

\* ++cursorPos[0] == bufferChars[Width]
Right ==
  /\ pc = "right" /\ MoveTo(cursor.x + 1, cursor.y)
  /\ To(IF cursor.x + 1 = Width THEN "newline" ELSE "return")

Newline == pc = "newline" /\ MoveTo(0, cursor.y) /\ To("down")

\* Mutant of Down: the edge looked for before the step
DownLate ==
  /\ pc = "down" /\ MoveTo(cursor.x, cursor.y + 1)
  /\ To(IF cursor.y = Height THEN "scroll" ELSE "return")

\* ++cursorPos[1] == bufferChars[Height]
Down ==
  /\ pc = "down" /\ MoveTo(cursor.x, cursor.y + 1)
  /\ To(IF cursor.y + 1 = Height THEN "scroll" ELSE "return")

Scroll ==
  /\ pc = "scroll" /\ screen' = Scrolled(screen) /\ To("up")
  /\ UNCHANGED <<cursor, writeState, ansiBuf, colorIndices, colors>>

\* Mutant of Up: the cursor not moved up with the text
UpForgotten == pc = "up" /\ UNCHANGED console /\ To("return")

Up == pc = "up" /\ MoveTo(cursor.x, cursor.y - ScrollAmount) /\ To("return")

-----------------------------------------------------------------------------
(* The parser *)

Bracketed ==
  /\ pc = "bracket"
  /\ IF char = Bracket THEN SetState("AnsiReadingCSI") /\ To("empty")
                     ELSE SetState("Idle") /\ To("return")

Store(buf) ==
  ansiBuf' = buf /\ UNCHANGED <<screen, cursor, writeState, colorIndices, colors>>

\* ansiBufUsed = 0: until then it is that of the last sequence
Empty == pc = "empty" /\ Store(<<>>) /\ To("return")

\* ansiBufUsed++, and the character into the place; one behind the buffer is
\* some other memory
Reserve == pc = "reserve" /\ Store(Append(ansiBuf, 0)) /\ To("store")

StoreChar ==
  /\ pc = "store" /\ Store(Append(Front(ansiBuf), char))
  /\ To(IF IsFinal(char) THEN "process" ELSE IF Len(ansiBuf) = AnsiBufSize THEN "idle" ELSE "return")

\* processAnsi: the indices before the colours
Process ==
  /\ pc = "process"
  /\ \/ /\ Last(ansiBuf) = 109
        /\ colorIndices' = Inked(colorIndices, SgrNumbers(ansiBuf))
        /\ UNCHANGED cursor /\ To("update")
     \/ /\ Last(ansiBuf) = 72
        /\ cursor' = Cup(ansiBuf)
        /\ UNCHANGED colorIndices /\ To("idle")
     \/ /\ Last(ansiBuf) \notin {109, 72}
        /\ UNCHANGED <<cursor, colorIndices>> /\ To("idle")
  /\ UNCHANGED <<screen, writeState, ansiBuf, colors>>

UpdateColors ==
  /\ pc = "update" /\ colors' = colorIndices /\ To("idle")
  /\ UNCHANGED <<screen, cursor, writeState, ansiBuf, colorIndices>>

Idle == pc = "idle" /\ SetState("Idle") /\ To("return")

CallClear ==
  /\ ~struck.yes /\ pc = "return" /\ rest = <<>> /\ clear /\ To("return")

-----------------------------------------------------------------------------
\* A failure anywhere: panic's report is what is written from now on
Strike ==
  /\ ~struck.yes /\ struck' = [yes |-> TRUE, sound |-> Sound]
  /\ pc' = "return" /\ char' = LF /\ rest' = Report
  /\ UNCHANGED <<console, quiet>>

StepNext ==
  \/ Call \/ Escape \/ Draw \/ Right \/ Newline \/ Down \/ Scroll \/ Up
  \/ Bracketed \/ Empty \/ Reserve \/ StoreChar \/ UpdateColors \/ Idle
  \/ Process /\ NumbersFit(ansiBuf) /\ StaysOnScreen(ansiBuf)      \* Console's Sent
  \/ CallClear \/ Strike

StepSpec == StepInit /\ [][StepNext]_all

-----------------------------------------------------------------------------
(* Properties *)

\* A report that found the cursor on the screen and room in ansiBuf can be read
\* when panic halts, whatever escape sequence, line or scroll it broke into:
\* its first line somewhere, the second below it. (It cannot, if the failure
\* struck between the step over an edge and the newline that takes it back.)
ReportLegible ==
  struck.yes /\ struck.sound /\ rest = <<>> /\ pc = "return" =>
    \E y, z \in Rows : \E x \in Columns :
      y < z /\ screen[y][x].glyph = First /\ screen[z][0].glyph = Second

\* The cursor is off the screen, and ansiBuf without a place, in a few steps
\* only: never when write has returned, and not while anything is drawn.
UnsoundInside ==
  ~struck.yes /\ ~Sound => pc \in {"newline", "scroll", "up", "empty", "store", "process", "update", "idle"}

\* The report and its newlines find room on the screen, its sequences in ansiBuf
ReportFits == Width > 1 /\ Height >= ScrollAmount + 3 /\ AnsiBufSize > 1

\* Until a failure, the steps of a call add up to Console's.
Calls == INSTANCE Console WITH
  screen <- quiet.screen, cursor <- quiet.cursor, writeState <- quiet.writeState,
  ansiBuf <- quiet.ansiBuf, colorIndices <- quiet.colorIndices, colors <- quiet.colors
ImplementsConsole == Calls!Spec
=============================================================================
