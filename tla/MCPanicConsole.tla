--------------------------- MODULE MCPanicConsole ---------------------------
(* The kernel writes lines, and sequences of every end: known, as long as    *)
(* ansiBuf, too long, unknown, broken off.                                   *)
EXTENDS PanicConsole

MCChars  == {LF, 48, 49, 52, 59, 72, 80, 81, ESC, Bracket, 109, 120}
MCTexts  == {<<120>>, <<LF>>, <<ESC, Bracket, 59, 59, 109>>, <<ESC, Bracket, 72>>,
             <<ESC, Bracket, 52, 120>>, <<ESC, Bracket, 52, 52, 52>>, <<ESC, 120>>}

\* What the theorem about the report asks for is so here
ASSUME ReportFits
=============================================================================
