------------------------------ MODULE SpinLock ------------------------------
(***************************************************************************)
(* The amd64 spinlock: amd64_spin_lock, amd64_spin_trylock and             *)
(* amd64_spin_unlock over xchg_32, on processors with store buffers        *)
(* (x86-TSO).                                                              *)
(*                                                                         *)
(* barrier() is a compiler barrier only, and the unlock is a plain store:  *)
(* whether a holder's writes are visible to the next holder rests on the   *)
(* order in which a store buffer drains and on xchg draining it.  The      *)
(* client is the shortest one that can tell: it increments one shared word *)
(* under the lock, with a load and a store.                                *)
(***************************************************************************)
EXTENDS Integers, Sequences, FiniteSetsExt

CONSTANTS
  CPUs,      \* the processors that share the lock
  Modulus,   \* the protected counter is kept modulo this
  None       \* "no processor"

ASSUME ModulusAssumption == Modulus \in Nat \ {0}
ASSUME NoneAssumption == None \notin CPUs

VARIABLES
  mem,       \* shared memory: the lock word "count" and the protected "data"
  buf,       \* buf[c]: the stores c has executed that memory has not seen
  pc,        \* pc[c]: where c is in the lock's code, or in its client's
  reg        \* reg[c]: the register c loaded "data" into

vars == <<mem, buf, pc, reg>>

Addresses == {"count", "data"}
Counter   == 0 .. Modulus - 1
Inside    == {"load", "store", "unlock"}      \* pc values of a lock holder
Waiting   == {"xchg", "spin"}                 \* pc values of amd64_spin_lock

Store(a, v) == [addr |-> a, val |-> v]

Init ==
  /\ mem = [a \in Addresses |-> 0]
  /\ buf = [c \in CPUs |-> <<>>]
  /\ pc  = [c \in CPUs |-> "out"]
  /\ reg = [c \in CPUs |-> 0]

Goto(c, from, to) == pc[c] = from /\ pc' = [pc EXCEPT ![c] = to]

(***************************************************************************)
(* Memory as the processor sees it.  A load is satisfied by the newest     *)
(* store to that address still in the processor's own buffer, else by      *)
(* memory; a store enters the buffer; the buffer drains first in, first    *)
(* out.                                                                    *)
(***************************************************************************)
Pending(c, a) == {i \in DOMAIN buf[c] : buf[c][i].addr = a}

Load(c, a) ==
  IF Pending(c, a) = {} THEN mem[a] ELSE buf[c][Max(Pending(c, a))].val

Drain(c) ==
  /\ buf[c] # <<>>
  /\ mem' = [mem EXCEPT ![Head(buf[c]).addr] = Head(buf[c]).val]
  /\ buf' = [buf EXCEPT ![c] = Tail(@)]
  /\ UNCHANGED <<pc, reg>>

\* Mutant of Exchange: atomic_xadd in place of xchg, the count counts
ExchangeAdds(c, taken, busy) ==
  /\ buf[c] = <<>>
  /\ mem' = [mem EXCEPT !["count"] = @ + 1]
  /\ pc'  = [pc EXCEPT ![c] = IF mem["count"] = 0 THEN taken ELSE busy]
  /\ UNCHANGED <<buf, reg>>

\* xchgl with a memory operand is a locked instruction: it completes only on
\* an empty buffer, and the read and the write are one step.
Exchange(c, taken, busy) ==
  /\ buf[c] = <<>>
  /\ mem' = [mem EXCEPT !["count"] = 1]
  /\ pc'  = [pc EXCEPT ![c] = IF mem["count"] = 0 THEN taken ELSE busy]
  /\ UNCHANGED <<buf, reg>>

-----------------------------------------------------------------------------
(* amd64_spin_lock, also the constructor of SpinLockGuard *)
SpinLock(c) == Goto(c, "out", "xchg") /\ UNCHANGED <<mem, buf, reg>>

LockXchg(c) == pc[c] = "xchg" /\ Exchange(c, "load", "spin")

\* Mutant of SpinRead: the condition of the wait the wrong way round
SpinReadInverted(c) ==
  /\ Load(c, "count") = 1
  /\ Goto(c, "spin", "xchg")
  /\ UNCHANGED <<mem, buf, reg>>

\* while (lock->count) pause: the iterations that read 1 change nothing
SpinRead(c) ==
  /\ Load(c, "count") = 0
  /\ Goto(c, "spin", "xchg")
  /\ UNCHANGED <<mem, buf, reg>>

(* amd64_spin_trylock *)
SpinTryLock(c) == Goto(c, "out", "try") /\ UNCHANGED <<mem, buf, reg>>

\* Mutant of TryXchg: the value xchg returned taken for success
TryInverted(c) == pc[c] = "try" /\ Exchange(c, "out", "load")

TryXchg(c) == pc[c] = "try" /\ Exchange(c, "load", "out")

(* The client's critical section: data = data + 1 *)
\* Mutant of LoadData: no "memory" clobber on xchgl, the compiler keeps the
\* word in a register across the lock
LoadDataCached(c) == Goto(c, "load", "store") /\ UNCHANGED <<mem, buf, reg>>

LoadData(c) ==
  /\ Goto(c, "load", "store")
  /\ reg' = [reg EXCEPT ![c] = Load(c, "data")]
  /\ UNCHANGED <<mem, buf>>

StoreData(c) ==
  /\ Goto(c, "store", "unlock")
  /\ buf' = [buf EXCEPT ![c] = Append(@, Store("data", (reg[c] + 1) % Modulus))]
  /\ UNCHANGED <<mem, reg>>

\* Mutant of SpinUnlock: no barrier(), the compiler moves the store to the
\* lock ahead of the store to the data
SpinUnlockUnordered(c) ==
  /\ Goto(c, "unlock", "out")
  /\ buf' = [buf EXCEPT ![c] =
       IF @ = <<>> THEN <<Store("count", 0)>>
       ELSE SubSeq(@, 1, Len(@) - 1) \o <<Store("count", 0), @[Len(@)]>>]
  /\ UNCHANGED <<mem, reg>>

(* amd64_spin_unlock, also the destructor of SpinLockGuard *)
SpinUnlock(c) ==
  /\ Goto(c, "unlock", "out")
  /\ buf' = [buf EXCEPT ![c] = Append(@, Store("count", 0))]
  /\ UNCHANGED <<mem, reg>>

-----------------------------------------------------------------------------
\* What a processor does once it has called the lock; calling is its choice.
Running(c) ==
  \/ LockXchg(c) \/ SpinRead(c) \/ TryXchg(c)
  \/ LoadData(c) \/ StoreData(c) \/ SpinUnlock(c)

Next == \E c \in CPUs : SpinLock(c) \/ SpinTryLock(c) \/ Running(c) \/ Drain(c)

\* Processors keep executing and store buffers drain by themselves.
Fairness == \A c \in CPUs : WF_vars(Running(c)) /\ WF_vars(Drain(c))

Safety == Init /\ [][Next]_vars
Spec   == Safety /\ Fairness

-----------------------------------------------------------------------------
(* Properties *)

TypeOK ==
  /\ mem \in [Addresses -> Nat]
  /\ mem["count"] \in {0, 1} /\ mem["data"] \in Counter
  /\ buf \in [CPUs -> Seq([addr : Addresses, val : Nat])]
  /\ pc  \in [CPUs -> {"out", "try"} \cup Waiting \cup Inside]
  /\ reg \in [CPUs -> Counter]

\* Two processors are never between a successful lock (or trylock) and the
\* unlock at the same time.
MutualExclusion ==
  \A c, d \in CPUs : pc[c] \in Inside /\ pc[d] \in Inside => c = d

\* A processor that has the lock finds every earlier holder's writes in
\* memory: no other processor has a store still on its way.  This is what
\* barrier() and the plain store of amd64_spin_unlock have to guarantee.
HandOver ==
  \A c, d \in CPUs : pc[c] \in Inside /\ c # d => buf[d] = <<>>

\* While some processor waits in amd64_spin_lock, some processor gets in.
\* (Not that each waiting processor gets in: the lock is not a fair one.)
Progress ==
  (\E c \in CPUs : pc[c] \in Waiting) ~> (\E c \in CPUs : pc[c] \in Inside)

(***************************************************************************)
(* What the lock promises: a mutex around an atomic counter.  A processor  *)
(* owns it from its exchange until memory sees its unlock, and has made    *)
(* its change once it has stored it; the counter is the value the owner    *)
(* would read.                                                             *)
(***************************************************************************)
Holds(c) == pc[c] \in Inside \/ Pending(c, "count") # {}

Owner == IF \E c \in CPUs : Holds(c) THEN CHOOSE c \in CPUs : Holds(c) ELSE None

Value == IF \E c \in CPUs : Holds(c) THEN Load(Owner, "data") ELSE mem["data"]

Updated == \E c \in CPUs : pc[c] = "unlock" \/ Pending(c, "count") # {}

Abstract == INSTANCE Mutex WITH owner <- Owner, updated <- Updated, value <- Value

\* The store-buffer lock implements the abstract mutex: no increment is lost,
\* each starts from the value the one before it left.
ImplementsMutex == Abstract!Spec
=============================================================================
