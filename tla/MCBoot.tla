------------------------------- MODULE MCBoot -------------------------------
(* Addresses for Boot whose bytes all differ, so that none can be taken for *)
(* another one of the same address.                                         *)
EXTENDS Boot

At8(low) == <<low, 11, 12, 13, 14, 15, 16, 17>>

MCStubAddr == [v \in Vectors |-> At8(100 + v)]
MCStackTop == [i \in 0 .. 6 |-> At8(200 + i)]
MCTssAddr  == At8(250)
=============================================================================
