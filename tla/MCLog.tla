-------------------------------- MODULE MCLog -------------------------------
(* Lines for Log: plain text, and a sequence the console does not know with *)
(* text behind it.                                                          *)
EXTENDS Log

MCBodies == {<<"text">>, <<"sequence", "text">>}
=============================================================================
