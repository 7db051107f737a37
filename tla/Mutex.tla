------------------------------- MODULE Mutex --------------------------------
(***************************************************************************)
(* What amd64_spin_lock and amd64_spin_unlock promise their callers: one   *)
(* owner at a time, and the owner alone changes the value the lock         *)
(* protects, each change applied to the value the one before it left.      *)
(***************************************************************************)
EXTENDS Integers

CONSTANTS CPUs, Modulus, None

VARIABLES
  owner,      \* the processor that has the lock, or None
  updated,    \* has the owner made its change?
  value       \* the value the lock protects

Init == owner = None /\ updated = FALSE /\ value = 0

Acquire(c) == owner = None /\ owner' = c /\ UNCHANGED <<updated, value>>

Update(c) ==
  /\ owner = c /\ ~updated
  /\ updated' = TRUE /\ value' = (value + 1) % Modulus
  /\ UNCHANGED owner

Release(c) ==
  /\ owner = c /\ updated
  /\ owner' = None /\ updated' = FALSE
  /\ UNCHANGED value

Next == \E c \in CPUs : Acquire(c) \/ Update(c) \/ Release(c)

Spec == Init /\ [][Next]_<<owner, updated, value>>
=============================================================================
