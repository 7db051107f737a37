------------------------------ MODULE MCMemory ------------------------------
(* Memories for Memory: one whose bytes all differ, and a few of strings of  *)
(* a letter and a byte above 127: those at 3 and at 6 end after a letter,    *)
(* and have behind the NUL the same byte or different ones.                  *)
EXTENDS Memory

MCContents ==
  {[a \in All |-> a + 100]} \cup
  {[a \in All |-> CASE a = 0 -> x [] a = 5 -> y [] a \in {4, 7} -> 0 [] OTHER -> 97] :
     x, y \in {97, 200}}
=============================================================================
