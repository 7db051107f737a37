------------------------------ MODULE MCSerial ------------------------------
(* Two characters and a newline between them, and how the UART may be left:  *)
(* with parity or without, DLAB or the loopback mode on, and its interrupts   *)
EXTENDS Serial

MCLeft == [ier : {0, 1}, lcr : {3, 27, 131}, mcr : {3, 19}, dll : {12}, dlm : {0, 1}]

MCText == <<65, LF, 66>>
=============================================================================
