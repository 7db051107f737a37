--------------------------- MODULE MCFramebuffer ----------------------------
(* An instance of Framebuffer for TLC.  [ ; 2 4 H m and a newline make up    *)
(* sequences of up to four characters, malformed ones too, with a single     *)
(* colour, 44, as no 2 comes right after a 4; outside of them                *)
(* one character, above 127, in two inks, stands for all text.               *)
EXTENDS Framebuffer

Outside  == {LF, 200, ESC}
Sequence == {LF, Semicolon, 50, 52, 72, Bracket, 109}
MCChars  == Outside \cup Sequence

\* A font whose glyphs differ in every bit of their code, two bytes each
MCFont == [g \in 0 .. 127 |-> <<g, 255 - g>>]

\* No two words had the same in them, nor a colour
MCBefore == [a \in 0 .. Words - 1 |-> -1 - a]

After4 == ansiBuf # <<>> /\ Last(ansiBuf) = 52

MCNext ==
  \/ \E ch \in Outside : writeState = "Idle" /\ Write(ch)
  \/ \E ch \in Sequence : writeState # "Idle" /\ ~(ch = 50 /\ After4) /\ Sent(ch) /\ Write(ch)
  \/ Clear
MCSpec == PixelInit /\ [][MCNext]_<<vars, pixels>>
=============================================================================
