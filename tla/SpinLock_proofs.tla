--------------------------- MODULE SpinLock_proofs --------------------------
(***************************************************************************)
(* Theorems about SpinLock, for any set of processors and any modulus.     *)
(*                                                                         *)
(* MutualExclusion is not inductive: between the unlock and the moment its *)
(* store drains, nobody is inside and the lock is still taken.  IInv ties  *)
(* the contents of each store buffer to its processor's pc, and the lock   *)
(* word to the one processor that is inside or has an undrained store.     *)
(***************************************************************************)
EXTENDS SpinLock, SequenceTheorems, TLAPS

Outside == {"out", "xchg", "try"}

DataStores == {Store("data", v) : v \in Counter}
Release    == Store("count", 0)

\* What a buffer may hold: nothing while its processor loads or spins, at
\* most the increment before the unlock, and in this order what is left of
\* the increment and the release after it.
Shape(c) ==
  \/ buf[c] = <<>>
  \/ pc[c] = "unlock" /\ \E s \in DataStores : buf[c] = <<s>>
  \/ pc[c] \in Outside /\ buf[c] = <<Release>>
  \/ pc[c] \in Outside /\ \E s \in DataStores : buf[c] = <<s, Release>>

\* c has the lock, or has released it and memory does not know yet.
Owns(c) == pc[c] \in Inside \/ buf[c] # <<>>

\* An owner that has stored its change.
Late(c) == Owns(c) /\ pc[c] \notin {"load", "store"}

\* What c loaded under the lock is still what memory holds.
Fresh(c) == pc[c] = "store" => reg[c] = mem["data"]

IInv ==
  /\ TypeOK
  /\ \A c \in CPUs : Shape(c) /\ Fresh(c)
  /\ \A c, d \in CPUs : Owns(c) /\ Owns(d) => c = d
  /\ \A c \in CPUs : Owns(c) => mem["count"] = 1

-----------------------------------------------------------------------------
Entries == [addr : Addresses, val : Nat]

\* A store has the address and the value it was made from.
LEMMA StoreFields ==
  ASSUME NEW a \in Addresses, NEW v \in Nat
  PROVE  /\ Store(a, v) \in Entries
         /\ Store(a, v).addr = a
         /\ Store(a, v).val = v
BY DEF Store, Entries

\* The stores of the lock and of its client are stores, of both kinds.
LEMMA StoreTypes ==
  /\ Counter \subseteq Nat
  /\ DataStores \subseteq Entries
  /\ Release \in Entries
  /\ \A v \in Counter : Store("data", v).addr = "data" /\ Store("data", v).val = v
  /\ Release.addr = "count" /\ Release.val = 0
<1>1. Counter \subseteq Nat
  BY ModulusAssumption DEF Counter
<1>2. {"data", "count"} \subseteq Addresses
  BY DEF Addresses
<1> QED
  BY <1>1, <1>2, StoreFields DEF DataStores, Release

\* An element appended to a sequence of one element makes the pair of them.
LEMMA AppendOne ==
  ASSUME NEW E, NEW s \in E, NEW r \in E
  PROVE  Append(<<s>>, r) = <<s, r>>
<1>1. ASSUME NEW u \in Seq(E), Len(u) = 1
      PROVE  Append(u, r) \in Seq(E) /\ Len(Append(u, r)) = 2
  BY <1>1
<1>2. ASSUME NEW u \in Seq(E), Len(u) = 1
      PROVE  Append(u, r)[1] = u[1]
  <2>1. 1 \in 1 .. Len(u)
    BY <1>2
  <2> QED
    BY <2>1, AppendProperties
<1>3. ASSUME NEW u \in Seq(E), Len(u) = 1
      PROVE  Append(u, r)[2] = r
  <2>1. Len(u) + 1 = 2
    BY <1>3
  <2> QED
    BY <2>1, AppendProperties
<1>4. <<s>> \in Seq(E) /\ Len(<<s>>) = 1 /\ <<s>>[1] = s
  OBVIOUS
<1>5. ASSUME NEW t \in Seq(E), Len(t) = 2, t[1] = s, t[2] = r
      PROVE  t = <<s, r>>
  BY <1>5
<1> QED
  BY <1>1, <1>2, <1>3, <1>4, <1>5

\* One processor's buffer and pc change: the type of the state is kept.
LEMMA BufferTypes ==
  ASSUME TypeOK, NEW c \in CPUs, NEW b \in Seq(Entries),
         buf' = [buf EXCEPT ![c] = b], UNCHANGED reg,
         mem' \in [Addresses -> Nat], mem'["count"] \in {0, 1},
         mem'["data"] \in Counter,
         pc' \in [CPUs -> {"out", "try"} \cup Waiting \cup Inside]
  PROVE  TypeOK'
<1>1. buf' \in [CPUs -> Seq(Entries)]
  BY DEF TypeOK, Entries
<1> QED
  BY <1>1 DEF TypeOK, Entries

\* The initial states satisfy the inductive invariant.
LEMMA InitIInv == Init => IInv
<1> SUFFICES ASSUME Init PROVE IInv
  OBVIOUS
<1>1. 0 \in Counter
  BY ModulusAssumption DEF Counter
<1>2. TypeOK
  BY <1>1 DEF Init, TypeOK, Addresses, Waiting, Inside
<1>3. \A c \in CPUs : Shape(c) /\ Fresh(c) /\ ~Owns(c)
  BY DEF Init, Shape, Fresh, Owns, Inside
<1> QED
  BY <1>2, <1>3 DEF IInv

\* The oldest store of a well-shaped buffer, and what is left behind it.
LEMMA ShapeDrain ==
  ASSUME NEW c \in CPUs, IInv, buf[c] # <<>>
  PROVE  \/ /\ pc[c] = "unlock"
            /\ \E v \in Counter : Head(buf[c]) = Store("data", v)
            /\ Tail(buf[c]) = <<>>
         \/ /\ pc[c] \in Outside
            /\ Head(buf[c]) = Release
            /\ Tail(buf[c]) = <<>>
         \/ /\ pc[c] \in Outside
            /\ \E v \in Counter : Head(buf[c]) = Store("data", v)
            /\ Tail(buf[c]) = <<Release>>
<1>1. Shape(c)
  BY DEF IInv
<1>2. ASSUME NEW s \in DataStores
      PROVE  \E v \in Counter : s = Store("data", v)
  BY <1>2 DEF DataStores
<1>3. CASE pc[c] = "unlock" /\ \E s \in DataStores : buf[c] = <<s>>
  BY <1>2, <1>3
<1>4. CASE pc[c] \in Outside /\ buf[c] = <<Release>>
  BY <1>4
<1>5. CASE pc[c] \in Outside /\ \E s \in DataStores : buf[c] = <<s, Release>>
  BY <1>2, <1>5
<1> QED
  BY <1>1, <1>3, <1>4, <1>5 DEF Shape

\* Every step preserves it.
LEMMA NextIInv == IInv /\ [Next]_vars => IInv'
<1> SUFFICES ASSUME IInv, [Next]_vars PROVE IInv'
  OBVIOUS
<1> USE DEF IInv
<1>1. ASSUME NEW c \in CPUs, SpinLock(c) \/ SpinTryLock(c) \/ SpinRead(c)
      PROVE  IInv'
  <2>1. /\ pc[c] \in {"out", "spin"} /\ pc' = [pc EXCEPT ![c] = pc'[c]]
        /\ pc'[c] \in {"xchg", "try"} /\ UNCHANGED <<mem, buf, reg>>
    BY <1>1 DEF SpinLock, SpinTryLock, SpinRead, Goto, TypeOK
  <2>2. TypeOK'
    BY <2>1 DEF TypeOK, Waiting
  <2>3. \A d \in CPUs : Shape(d)' /\ Fresh(d)'
    BY <2>1 DEF Shape, Fresh, Outside, TypeOK
  <2>4. \A d \in CPUs : Owns(d)' => Owns(d)
    BY <2>1 DEF Owns, Inside, TypeOK
  <2> QED
    BY <2>1, <2>2, <2>3, <2>4
<1>2. ASSUME NEW c \in CPUs, LockXchg(c) \/ TryXchg(c)
      PROVE  IInv'
  <2>1. /\ pc[c] \in {"xchg", "try"} /\ buf[c] = <<>>
        /\ mem' = [mem EXCEPT !["count"] = 1]
        /\ pc' = [pc EXCEPT ![c] = pc'[c]]
        /\ IF mem["count"] = 0 THEN pc'[c] = "load" ELSE pc'[c] \in {"spin", "out"}
        /\ UNCHANGED <<buf, reg>>
    BY <1>2 DEF LockXchg, TryXchg, Exchange, TypeOK
  <2>2. TypeOK'
    BY <2>1 DEF TypeOK, Waiting, Inside, Addresses
  <2>3. \A d \in CPUs : Shape(d)' /\ Fresh(d)'
    BY <2>1 DEF Shape, Fresh, TypeOK, Addresses
  <2>4. \A d \in CPUs : mem'["count"] = 1 /\ (Owns(d)' => Owns(d) \/ d = c)
    BY <2>1 DEF Owns, TypeOK, Addresses
  <2>5. mem["count"] = 1 => ~Owns(c)'
    BY <2>1 DEF Owns, TypeOK, Inside
  <2>6. mem["count"] = 0 => \A d \in CPUs : ~Owns(d)
    OBVIOUS
  <2> QED
    BY <2>2, <2>3, <2>4, <2>5, <2>6 DEF TypeOK
<1>3. ASSUME NEW c \in CPUs, LoadData(c)
      PROVE  IInv'
  <2>1. /\ pc[c] = "load" /\ pc' = [pc EXCEPT ![c] = "store"]
        /\ reg' = [reg EXCEPT ![c] = mem["data"]] /\ UNCHANGED <<mem, buf>>
    <3>1. pc[c] = "load" /\ Shape(c)
      BY <1>3 DEF LoadData, Goto
    <3>2. buf[c] = <<>>
      BY <3>1 DEF Shape, Outside
    <3>3. Load(c, "data") = mem["data"]
      BY <3>2 DEF Load, Pending
    <3> QED
      BY <1>3, <3>3 DEF LoadData, Goto
  <2>2. TypeOK'
    BY <2>1 DEF TypeOK, Inside
  <2>3. \A d \in CPUs : Shape(d)' /\ Fresh(d)'
    BY <2>1 DEF Shape, Fresh, Outside, TypeOK
  <2>4. \A d \in CPUs : Owns(d)' => Owns(d)
    BY <2>1 DEF Owns, Inside, TypeOK
  <2> QED
    BY <2>1, <2>2, <2>3, <2>4
<1>4. ASSUME NEW c \in CPUs, StoreData(c)
      PROVE  IInv'
  <2> DEFINE s == Store("data", (reg[c] + 1) % Modulus)
  <2>1. /\ pc[c] = "store" /\ pc' = [pc EXCEPT ![c] = "unlock"]
        /\ buf' = [buf EXCEPT ![c] = <<s>>] /\ UNCHANGED <<mem, reg>>
    <3>1. pc[c] = "store" /\ Shape(c)
      BY <1>4 DEF StoreData, Goto
    <3>2. buf[c] = <<>>
      BY <3>1 DEF Shape, Outside
    <3>3. Append(buf[c], s) = <<s>>
      BY <3>2
    <3> QED
      BY <1>4, <3>3 DEF StoreData, Goto
  <2>2. s \in DataStores
    <3>1. reg[c] \in 0 .. Modulus - 1
      BY DEF TypeOK, Counter
    <3>2. (reg[c] + 1) % Modulus \in Counter
      BY <3>1, ModulusAssumption DEF Counter
    <3> QED
      BY <3>2 DEF DataStores
  <2> HIDE DEF s
  <2>3. TypeOK'
    <3>1. pc' \in [CPUs -> {"out", "try"} \cup Waiting \cup Inside]
      BY <2>1 DEF TypeOK, Inside
    <3>2. <<s>> \in Seq(Entries)
      BY <2>2, StoreTypes
    <3> QED
      BY <2>1, <3>1, <3>2, BufferTypes DEF TypeOK
  <2>4. \A d \in CPUs : Shape(d)' /\ Fresh(d)'
    BY <2>1, <2>2 DEF Shape, Fresh, Outside, TypeOK
  <2>5. \A d \in CPUs : Owns(d)' => Owns(d)
    BY <2>1 DEF Owns, Inside, TypeOK
  <2> QED
    BY <2>1, <2>3, <2>4, <2>5
<1>5. ASSUME NEW c \in CPUs, SpinUnlock(c)
      PROVE  IInv'
  <2>1. /\ pc[c] = "unlock" /\ pc' = [pc EXCEPT ![c] = "out"]
        /\ buf' = [buf EXCEPT ![c] = Append(buf[c], Release)]
        /\ UNCHANGED <<mem, reg>>
    BY <1>5 DEF SpinUnlock, Goto, Release
  <2>2. PICK b : /\ b = <<Release>> \/ \E s \in DataStores : b = <<s, Release>>
                 /\ buf' = [buf EXCEPT ![c] = b]
    <3>1. buf[c] = <<>> \/ \E s \in DataStores : buf[c] = <<s>>
      BY <2>1 DEF Shape, Outside
    <3>2. \A s, r \in Entries : Append(<<s>>, r) = <<s, r>>
      BY AppendOne
    <3>3. buf[c] = <<>> => Append(buf[c], Release) = <<Release>>
      OBVIOUS
    <3> QED
      BY <2>1, <3>1, <3>2, <3>3, StoreTypes
  <2>3. TypeOK'
    <3>1. pc' \in [CPUs -> {"out", "try"} \cup Waiting \cup Inside]
      BY <2>1 DEF TypeOK
    <3>2. \A s, r \in Entries : <<s>> \in Seq(Entries) /\ <<s, r>> \in Seq(Entries)
      OBVIOUS
    <3>3. b \in Seq(Entries)
      BY <2>2, <3>2, StoreTypes
    <3> QED
      BY <2>1, <2>2, <3>1, <3>3, BufferTypes DEF TypeOK
  <2>4. \A d \in CPUs : Shape(d)' /\ Fresh(d)'
    <3>1. Shape(c)' /\ Fresh(c)'
      BY <2>1, <2>2 DEF Shape, Fresh, Outside, TypeOK
    <3>2. \A d \in CPUs \ {c} : Shape(d)' /\ Fresh(d)'
      BY <2>1, <2>2 DEF Shape, Fresh, TypeOK
    <3> QED
      BY <3>1, <3>2
  <2>5. \A d \in CPUs : Owns(d)' => Owns(d)
    BY <2>1 DEF Owns, Inside, TypeOK
  <2> QED
    BY <2>1, <2>3, <2>4, <2>5
<1>6. ASSUME NEW c \in CPUs, Drain(c)
      PROVE  IInv'
  <2>1. /\ buf[c] # <<>> /\ UNCHANGED <<pc, reg>>
        /\ mem' = [mem EXCEPT ![Head(buf[c]).addr] = Head(buf[c]).val]
        /\ buf' = [buf EXCEPT ![c] = Tail(buf[c])]
    BY <1>6 DEF Drain
  <2>2. \A d \in CPUs : Owns(d)' => Owns(d)
    BY <2>1 DEF Owns, TypeOK
  <2>3. CASE pc[c] \in Outside /\ Head(buf[c]) = Release /\ Tail(buf[c]) = <<>>
    <3>1. mem' = [mem EXCEPT !["count"] = 0] /\ buf' = [buf EXCEPT ![c] = <<>>]
      BY <2>1, <2>3, StoreTypes
    <3>2. TypeOK'
      <4>1. /\ mem' \in [Addresses -> Nat]
            /\ mem'["count"] = 0 /\ mem'["data"] = mem["data"]
        BY <3>1, StoreTypes DEF TypeOK, Addresses
      <4>2. <<>> \in Seq(Entries)
        OBVIOUS
      <4> QED
        BY <2>1, <3>1, <4>1, <4>2, BufferTypes DEF TypeOK
    <3>3. \A d \in CPUs : Shape(d)' /\ Fresh(d)'
      BY <2>1, <3>1 DEF Shape, Fresh, TypeOK, Addresses
    <3>4. Owns(c) /\ ~Owns(c)'
      BY <2>1, <2>3, <3>1 DEF Owns, Outside, Inside, TypeOK
    <3>5. \A d \in CPUs : ~Owns(d)'
      BY <2>2, <3>4
    <3> QED
      BY <3>2, <3>3, <3>5
  <2>4. CASE \E v \in Counter : Head(buf[c]) = Store("data", v)
    <3>1. PICK v \in Counter : mem' = [mem EXCEPT !["data"] = v]
      BY <2>1, <2>4, StoreTypes
    <3>2. \/ pc[c] = "unlock" /\ Tail(buf[c]) = <<>>
          \/ pc[c] \in Outside /\ Tail(buf[c]) = <<Release>>
      <4>1. Head(buf[c]) # Release
        BY <2>4, StoreTypes
      <4> QED
        BY <2>1, <4>1, ShapeDrain
    <3>3. Tail(buf[c]) \in Seq(Entries)
      <4>1. \A r \in Entries : <<>> \in Seq(Entries) /\ <<r>> \in Seq(Entries)
        OBVIOUS
      <4> QED
        BY <3>2, <4>1, StoreTypes
    <3>4. mem' \in [Addresses -> Nat] /\ mem'["count"] = mem["count"] /\ mem'["data"] = v
      BY <3>1, StoreTypes DEF TypeOK, Addresses
    <3>5. TypeOK'
      BY <2>1, <3>3, <3>4, BufferTypes DEF TypeOK
    <3>6. \A d \in CPUs : Shape(d)'
      BY <2>1, <3>2 DEF Shape, TypeOK
    <3>7. \A d \in CPUs : Fresh(d)'
      <4>1. \A d \in CPUs : pc[d] = "store" => Owns(d) /\ d # c
        BY <3>2 DEF Owns, Inside, Outside
      <4>2. \A d \in CPUs : pc[d] # "store"
        BY <2>1, <4>1 DEF Owns
      <4> QED
        BY <2>1, <4>2 DEF Fresh
    <3> QED
      BY <2>2, <3>4, <3>5, <3>6, <3>7
  <2> QED
    BY <2>1, <2>3, <2>4, ShapeDrain
<1>7. CASE UNCHANGED vars
  BY <1>7 DEF vars, TypeOK, Shape, Fresh, Owns
<1> QED
  BY <1>1, <1>2, <1>3, <1>4, <1>5, <1>6, <1>7 DEF Next, Running

-----------------------------------------------------------------------------
\* The inductive invariant holds throughout.
LEMMA Invariance == Spec => []IInv
<1>1. Init /\ [][Next]_vars => []IInv
  BY InitIInv, NextIInv, PTL
<1> QED
  BY <1>1, PTL DEF Spec, Safety

\* The lock word, the buffers, the registers and the pcs keep their types.
THEOREM TypeCorrect == Spec => []TypeOK
<1>1. IInv => TypeOK
  BY DEF IInv
<1> QED
  BY <1>1, Invariance, PTL

\* The lock and the trylock admit one processor at a time.
THEOREM MutualExclusionHolds == Spec => []MutualExclusion
<1>1. IInv => MutualExclusion
  BY DEF IInv, MutualExclusion, Owns
<1> QED
  BY <1>1, Invariance, PTL

\* The plain store of the unlock publishes everything its holder wrote.
THEOREM HandOverHolds == Spec => []HandOver
<1>1. IInv => HandOver
  BY DEF IInv, HandOver, Owns
<1> QED
  BY <1>1, Invariance, PTL

-----------------------------------------------------------------------------
(***************************************************************************)
(* SpinLock implements Mutex.  A step of the lock maps to one of the       *)
(* mutex when an exchange finds the lock free (Acquire), when the client   *)
(* stores (Update) and when a release drains (Release); every other step   *)
(* leaves the mutex alone, the draining of an increment included: its      *)
(* owner reads the same value from memory as from its buffer.              *)
(***************************************************************************)

\* What a processor reads of "data", and whether its release is under way,
\* by the contents of its buffer.
Views ==
  \A c \in CPUs, s \in DataStores :
    /\ buf[c] = <<>> => Pending(c, "count") = {} /\ Load(c, "data") = mem["data"]
    /\ buf[c] = <<s>> => Pending(c, "count") = {} /\ Load(c, "data") = s.val
    /\ buf[c] = <<Release>> =>
         Pending(c, "count") = {1} /\ Load(c, "data") = mem["data"]
    /\ buf[c] = <<s, Release>> =>
         Pending(c, "count") = {2} /\ Load(c, "data") = s.val

\* Loads see what the contents of the buffer say they see.
LEMMA Loads == Views
<1> SUFFICES ASSUME NEW c \in CPUs, NEW s \in DataStores
             PROVE  Views!(c, s)
  BY DEF Views
<1>1. s.addr = "data" /\ Release.addr = "count"
  BY StoreTypes DEF DataStores
<1>2. \A n \in Int : Max({n}) = n
  BY DEF Max
<1>3. ASSUME buf[c] = <<>>
      PROVE  Pending(c, "count") = {} /\ Load(c, "data") = mem["data"]
  BY <1>3 DEF Load, Pending
<1>4. ASSUME buf[c] = <<s>>
      PROVE  Pending(c, "count") = {} /\ Load(c, "data") = s.val
  <2>1. Pending(c, "count") = {} /\ Pending(c, "data") = {1}
    BY <1>1, <1>4 DEF Pending
  <2>2. Max(Pending(c, "data")) = 1 /\ buf[c][1] = s
    BY <1>2, <1>4, <2>1
  <2> QED
    BY <2>1, <2>2 DEF Load
<1>5. ASSUME buf[c] = <<Release>>
      PROVE  Pending(c, "count") = {1} /\ Load(c, "data") = mem["data"]
  <2>1. Pending(c, "count") = {1} /\ Pending(c, "data") = {}
    BY <1>1, <1>5 DEF Pending
  <2> QED
    BY <2>1 DEF Load
<1>6. ASSUME buf[c] = <<s, Release>>
      PROVE  Pending(c, "count") = {2} /\ Load(c, "data") = s.val
  <2>1. Pending(c, "count") = {2} /\ Pending(c, "data") = {1}
    BY <1>1, <1>6 DEF Pending
  <2>2. Max(Pending(c, "data")) = 1 /\ buf[c][1] = s
    BY <1>2, <1>6, <2>1
  <2> QED
    BY <2>1, <2>2 DEF Load
<1> QED
  BY <1>3, <1>4, <1>5, <1>6

\* The refinement mapping, read off the inductive invariant.
Mapping ==
  /\ \A c \in CPUs : Owns(c) => Owner = c /\ Value = Load(c, "data")
  /\ \A c \in CPUs : Owns(c) => (Updated <=> Late(c))
  /\ (\A c \in CPUs : ~Owns(c)) => ~Updated
  /\ (\A c \in CPUs : ~Owns(c)) => Owner = None /\ Value = mem["data"]

LEMMA MappingHolds == IInv => Mapping
<1> SUFFICES ASSUME IInv PROVE Mapping
  OBVIOUS
<1>1. ASSUME NEW c \in CPUs
      PROVE  /\ Holds(c) <=> Owns(c)
             /\ pc[c] = "unlock" \/ Pending(c, "count") # {} <=> Late(c)
  <2>1. Shape(c)
    BY DEF IInv
  <2>2. 0 \in Counter
    BY ModulusAssumption DEF Counter
  <2>3. \E s : s \in DataStores
    BY <2>2 DEF DataStores
  <2>4. buf[c] = <<>> => Pending(c, "count") = {}
    BY <2>3, Loads DEF Views
  <2>5. pc[c] \notin Inside /\ buf[c] # <<>> => Pending(c, "count") # {}
    BY <2>1, <2>3, Loads DEF Views, Shape, Outside, Inside
  <2>6. Holds(c) <=> Owns(c)
    BY <2>4, <2>5 DEF Holds, Owns
  <2>7. pc[c] \in {"load", "store"} => buf[c] = <<>>
    BY <2>1 DEF Shape, Outside
  <2>8. pc[c] = "unlock" \/ Pending(c, "count") # {} <=> Late(c)
    BY <2>4, <2>5, <2>7 DEF Late, Owns, Inside
  <2> QED
    BY <2>6, <2>8
<1>2. \A c, d \in CPUs : Owns(c) /\ Owns(d) => c = d
  BY DEF IInv
<1>3. ASSUME NEW c \in CPUs, Owns(c)
      PROVE  Owner = c /\ Value = Load(c, "data")
  <2>1. Owner = c
    BY <1>1, <1>2, <1>3 DEF Owner
  <2> QED
    BY <1>1, <1>3, <2>1 DEF Value
<1>4. ASSUME \A c \in CPUs : ~Owns(c)
      PROVE  Owner = None /\ Value = mem["data"]
  BY <1>1, <1>4 DEF Owner, Value
<1>5. Updated <=> \E c \in CPUs : Late(c)
  BY <1>1 DEF Updated
<1>6. \A c \in CPUs : Owns(c) => (Updated <=> Late(c))
  BY <1>2, <1>5 DEF Late
<1>7. (\A c \in CPUs : ~Owns(c)) => ~Updated
  BY <1>5 DEF Late
<1> QED
  BY <1>3, <1>4, <1>6, <1>7 DEF Mapping

\* There is a data store to speak of: a counter has a value.
LEMMA SomeDataStore == \E s : s \in DataStores
<1>1. 0 \in Counter
  BY ModulusAssumption DEF Counter
<1> QED
  BY <1>1 DEF DataStores

\* Every step of the lock is a step of the mutex, or leaves it alone.
LEMMA StepRefines ==
  IInv /\ IInv' /\ [Next]_vars => [Abstract!Next]_<<Owner, Updated, Value>>
<1> SUFFICES ASSUME IInv, IInv', [Next]_vars
             PROVE  [Abstract!Next]_<<Owner, Updated, Value>>
  OBVIOUS
<1>m. Mapping /\ Mapping'
  BY MappingHolds, PTL
<1>v. Views /\ Views'
  BY Loads, PTL
<1>0. ASSUME \A d \in CPUs : Owns(d)' <=> Owns(d),
             \A d \in CPUs : Owns(d) => Load(d, "data")' = Load(d, "data"),
             \A d \in CPUs : Late(d)' <=> Late(d),
             (\A d \in CPUs : ~Owns(d)) => mem'["data"] = mem["data"]
      PROVE  UNCHANGED <<Owner, Updated, Value>>
  <2>1. CASE \E d \in CPUs : Owns(d)
    <3>1. PICK d \in CPUs : Owns(d) /\ Owns(d)'
      BY <1>0, <2>1
    <3>2. UNCHANGED <<Owner, Value>>
      BY <1>0, <1>m, <3>1 DEF Mapping
    <3>3. (Updated <=> Late(d)) /\ (Updated' <=> Late(d)')
      BY <1>m, <3>1 DEF Mapping
    <3>4. Updated' = Updated
      BY <1>0, <3>3 DEF Updated
    <3> QED
      BY <3>2, <3>4
  <2>2. CASE \A d \in CPUs : ~Owns(d)
    <3>1. UNCHANGED <<Owner, Value>>
      BY <1>0, <1>m, <2>2 DEF Mapping
    <3>2. ~Updated /\ ~Updated'
      BY <1>0, <1>m, <2>2 DEF Mapping
    <3>3. Updated' = Updated
      BY <3>2 DEF Updated
    <3> QED
      BY <3>1, <3>3
  <2> QED
    BY <2>1, <2>2
<1>1. ASSUME NEW c \in CPUs, SpinLock(c) \/ SpinTryLock(c) \/ SpinRead(c)
      PROVE  UNCHANGED <<Owner, Updated, Value>>
  <2>1. /\ pc[c] \in {"out", "spin"} /\ pc' = [pc EXCEPT ![c] = pc'[c]]
        /\ pc'[c] \in {"xchg", "try"} /\ UNCHANGED <<mem, buf>>
    BY <1>1 DEF IInv, SpinLock, SpinTryLock, SpinRead, Goto, TypeOK
  <2>2. \A d \in CPUs : Owns(d)' <=> Owns(d)
    BY <2>1 DEF Owns, Inside, IInv, TypeOK
  <2>3. \A d \in CPUs : Load(d, "data")' = Load(d, "data")
    BY <2>1 DEF Load, Pending
  <2>4. \A d \in CPUs : Late(d)' <=> Late(d)
    BY <2>1, <2>2 DEF Late, Owns, Inside, IInv, TypeOK
  <2> QED
    BY <1>0, <2>1, <2>2, <2>3, <2>4
<1>2. ASSUME NEW c \in CPUs, LockXchg(c) \/ TryXchg(c)
      PROVE  Abstract!Acquire(c) \/ UNCHANGED <<Owner, Updated, Value>>
  <2>1. /\ pc[c] \in {"xchg", "try"} /\ buf[c] = <<>> /\ UNCHANGED buf
        /\ mem'["data"] = mem["data"] /\ pc' = [pc EXCEPT ![c] = pc'[c]]
        /\ IF mem["count"] = 0 THEN pc'[c] = "load" ELSE pc'[c] \in {"spin", "out"}
    BY <1>2 DEF LockXchg, TryXchg, Exchange, IInv, TypeOK, Addresses
  <2>2. CASE mem["count"] = 0
    <3>1. \A d \in CPUs : ~Owns(d)
      BY <2>2 DEF IInv
    <3>2. Owns(c)'
      BY <2>1, <2>2 DEF Owns, Inside
    <3>3. Load(c, "data")' = mem'["data"]
      BY <1>v, <2>1, SomeDataStore DEF Views
    <3>4. ~Updated /\ ~Updated'
      <4>1. ~Late(c)'
        BY <2>1, <2>2 DEF Late, IInv, TypeOK
      <4> QED
        BY <1>m, <3>1, <3>2, <4>1 DEF Mapping
    <3>5. Updated' = Updated
      BY <3>4 DEF Updated
    <3> QED
      BY <1>m, <2>1, <3>1, <3>2, <3>3, <3>5 DEF Mapping, Abstract!Acquire
  <2>3. CASE mem["count"] # 0
    <3>1. \A d \in CPUs : Owns(d)' <=> Owns(d)
      BY <2>1, <2>3 DEF Owns, Inside, IInv, TypeOK
    <3>2. \A d \in CPUs : Load(d, "data")' = Load(d, "data")
      BY <2>1 DEF Load, Pending
    <3>3. \A d \in CPUs : Late(d)' <=> Late(d)
      BY <2>1, <2>3, <3>1 DEF Late, Owns, Inside, IInv, TypeOK
    <3> QED
      BY <1>0, <2>1, <3>1, <3>2, <3>3
  <2> QED
    BY <2>2, <2>3
<1>3. ASSUME NEW c \in CPUs, LoadData(c)
      PROVE  UNCHANGED <<Owner, Updated, Value>>
  <2>1. /\ pc[c] = "load" /\ pc' = [pc EXCEPT ![c] = "store"]
        /\ UNCHANGED <<mem, buf>>
    BY <1>3 DEF LoadData, Goto
  <2>2. \A d \in CPUs : Owns(d)' <=> Owns(d)
    BY <2>1 DEF Owns, Inside, IInv, TypeOK
  <2>3. \A d \in CPUs : Load(d, "data")' = Load(d, "data")
    BY <2>1 DEF Load, Pending
  <2>4. \A d \in CPUs : Late(d)' <=> Late(d)
    BY <2>1, <2>2 DEF Late, Owns, Inside, IInv, TypeOK
  <2> QED
    BY <1>0, <2>1, <2>2, <2>3, <2>4
<1>4. ASSUME NEW c \in CPUs, StoreData(c)
      PROVE  Abstract!Update(c)
  <2> DEFINE v == (reg[c] + 1) % Modulus
  <2>1. pc[c] = "store" /\ pc' = [pc EXCEPT ![c] = "unlock"] /\ Shape(c) /\ Fresh(c)
    BY <1>4 DEF StoreData, Goto, IInv
  <2>2. buf[c] = <<>> /\ reg[c] = mem["data"]
    BY <2>1 DEF Shape, Outside, Fresh
  <2>3. Append(buf[c], Store("data", v)) = <<Store("data", v)>>
    BY <2>2
  <2>4. buf'[c] = <<Store("data", v)>>
    BY <1>4, <2>3 DEF StoreData, IInv, TypeOK
  <2>5. v \in Counter
    <3>1. reg[c] \in 0 .. Modulus - 1
      BY DEF IInv, TypeOK, Counter
    <3> QED
      BY <3>1, ModulusAssumption DEF Counter
  <2> HIDE DEF v
  <2>6. Load(c, "data")' = v
    BY <1>v, <2>4, <2>5, StoreTypes DEF Views, DataStores
  <2>7. Load(c, "data") = mem["data"]
    BY <1>v, <2>2, SomeDataStore DEF Views
  <2>8. Owns(c) /\ Owns(c)'
    BY <2>1 DEF Owns, Inside, IInv, TypeOK
  <2>9. ~Late(c) /\ Late(c)'
    BY <2>1, <2>8 DEF Late, IInv, TypeOK
  <2>10. ~Updated /\ Updated' = TRUE
    <3>1. ~Updated /\ Updated'
      BY <1>m, <2>8, <2>9 DEF Mapping
    <3> QED
      BY <3>1 DEF Updated
  <2> QED
    BY <1>m, <2>2, <2>6, <2>7, <2>8, <2>10 DEF Mapping, Abstract!Update, v
<1>5. ASSUME NEW c \in CPUs, SpinUnlock(c)
      PROVE  UNCHANGED <<Owner, Updated, Value>>
  <2>1. /\ pc[c] = "unlock" /\ pc' = [pc EXCEPT ![c] = "out"] /\ UNCHANGED mem
        /\ buf' = [buf EXCEPT ![c] = Append(buf[c], Release)] /\ Shape(c)
    BY <1>5 DEF SpinUnlock, Goto, Release, IInv
  <2>2. Load(c, "data")' = Load(c, "data") /\ buf'[c] # <<>>
    <3>1. CASE buf[c] = <<>>
      <4>1. Append(<<>>, Release) = <<Release>>
        OBVIOUS
      <4>2. buf'[c] = <<Release>>
        BY <2>1, <3>1, <4>1 DEF IInv, TypeOK
      <4> QED
        BY <1>v, <2>1, <3>1, <4>2, SomeDataStore DEF Views
    <3>2. CASE \E s \in DataStores : buf[c] = <<s>>
      <4>1. PICK s \in DataStores : buf[c] = <<s>>
        BY <3>2
      <4>2. Append(<<s>>, Release) = <<s, Release>>
        BY AppendOne, StoreTypes
      <4>3. buf'[c] = <<s, Release>>
        BY <2>1, <4>1, <4>2 DEF IInv, TypeOK
      <4> QED
        BY <1>v, <4>1, <4>3 DEF Views
    <3> QED
      BY <2>1, <3>1, <3>2 DEF Shape, Outside
  <2>3. \A d \in CPUs : Owns(d)' <=> Owns(d)
    BY <2>1, <2>2 DEF Owns, Inside, IInv, TypeOK
  <2>4. \A d \in CPUs : Owns(d) => d = c
    BY <2>1 DEF Owns, Inside, IInv
  <2>5. Owns(c)
    BY <2>1 DEF Owns, Inside
  <2>6. \A d \in CPUs : Late(d)' <=> Late(d)
    BY <2>1, <2>3, <2>4, <2>5 DEF Late, IInv, TypeOK
  <2> QED
    BY <1>0, <2>2, <2>3, <2>4, <2>5, <2>6
<1>6. ASSUME NEW c \in CPUs, Drain(c)
      PROVE  Abstract!Release(c) \/ UNCHANGED <<Owner, Updated, Value>>
  <2>1. /\ buf[c] # <<>> /\ UNCHANGED pc /\ Shape(c)
        /\ mem' = [mem EXCEPT ![Head(buf[c]).addr] = Head(buf[c]).val]
        /\ buf' = [buf EXCEPT ![c] = Tail(buf[c])]
    BY <1>6 DEF Drain, IInv
  <2>2. Owns(c) /\ \A d \in CPUs : Owns(d) => d = c
    BY <2>1 DEF Owns, IInv
  <2>3. \A d \in CPUs : Owns(d)' => Owns(d)
    BY <2>1 DEF Owns, IInv, TypeOK
  <2>4. CASE pc[c] \in Outside /\ buf[c] = <<Release>>
    <3>1. buf'[c] = <<>> /\ mem'["data"] = mem["data"]
      <4>1. Head(buf[c]) = Release /\ Tail(buf[c]) = <<>>
        BY <2>4
      <4> QED
        BY <2>1, <4>1, StoreTypes DEF IInv, TypeOK, Addresses
    <3>2. \A d \in CPUs : ~Owns(d)'
      BY <2>1, <2>2, <2>3, <2>4, <3>1 DEF Owns, Outside, Inside
    <3>3. Load(c, "data") = mem["data"]
      BY <1>v, <2>4, SomeDataStore DEF Views
    <3>4. Late(c)
      BY <2>2, <2>4 DEF Late, Outside
    <3>5. Updated /\ Updated' = FALSE
      <4>1. Updated /\ ~Updated'
        BY <1>m, <2>2, <3>2, <3>4 DEF Mapping
      <4> QED
        BY <4>1 DEF Updated
    <3> QED
      BY <1>m, <2>2, <3>1, <3>2, <3>3, <3>5 DEF Mapping, Abstract!Release
  <2>5. ASSUME NEW s \in DataStores,
               \/ pc[c] = "unlock" /\ buf[c] = <<s>>
               \/ pc[c] \in Outside /\ buf[c] = <<s, Release>>
        PROVE  UNCHANGED <<Owner, Updated, Value>>
    <3>1. Head(buf[c]) = s /\ s.addr = "data"
      BY <2>5, StoreTypes DEF DataStores
    <3>2. mem'["data"] = s.val
      BY <2>1, <3>1 DEF IInv, TypeOK, Addresses
    <3>3. \/ pc[c] = "unlock" /\ buf'[c] = <<>>
          \/ pc[c] \in Outside /\ buf'[c] = <<Release>>
      <4>1. buf'[c] = Tail(buf[c])
        BY <2>1 DEF IInv, TypeOK
      <4>2. Tail(<<s>>) = <<>> /\ Tail(<<s, Release>>) = <<Release>>
        OBVIOUS
      <4> QED
        BY <2>5, <4>1, <4>2
    <3>4. Load(c, "data") = s.val
      BY <1>v, <2>5 DEF Views
    <3>5. Load(c, "data")' = mem'["data"]
      BY <1>v, <3>3 DEF Views
    <3>6. Owns(c)'
      BY <2>1, <3>3 DEF Owns, Inside
    <3>7. \A d \in CPUs : Owns(d)' <=> Owns(d)
      BY <2>2, <2>3, <3>6
    <3>8. \A d \in CPUs : Late(d)' <=> Late(d)
      BY <2>1, <3>7 DEF Late
    <3> QED
      BY <1>0, <2>2, <3>2, <3>4, <3>5, <3>7, <3>8
  <2> QED
    BY <2>1, <2>4, <2>5 DEF Shape
<1>7. CASE UNCHANGED vars
  <2>1. \A d \in CPUs : /\ Owns(d)' <=> Owns(d)
                        /\ Load(d, "data")' = Load(d, "data")
                        /\ Late(d)' <=> Late(d)
    BY <1>7 DEF vars, Owns, Load, Pending, Late
  <2> QED
    BY <1>0, <1>7, <2>1 DEF vars
<1> QED
  BY <1>1, <1>2, <1>3, <1>4, <1>5, <1>6, <1>7 DEF Next, Running, Abstract!Next

\* The store-buffer lock implements the mutex around a counter: one owner at
\* a time, no increment lost, whatever the number of processors.
THEOREM LockImplementsMutex == Spec => ImplementsMutex
<1>1. Init => Abstract!Init
  <2> SUFFICES ASSUME Init PROVE Abstract!Init
    OBVIOUS
  <2>1. IInv /\ \A c \in CPUs : ~Owns(c)
    BY InitIInv DEF Init, Owns, Inside
  <2>2. Mapping
    BY <2>1, MappingHolds
  <2>3. Updated = FALSE
    <3>1. ~Updated
      BY <2>1, <2>2 DEF Mapping
    <3> QED
      BY <3>1 DEF Updated
  <2> QED
    BY <2>1, <2>2, <2>3 DEF Mapping, Init, Addresses, Abstract!Init
<1>2. []IInv /\ [][Next]_vars => [][Abstract!Next]_<<Owner, Updated, Value>>
  BY StepRefines, PTL
<1> QED
  BY <1>1, <1>2, Invariance, PTL DEF Spec, Safety, ImplementsMutex, Abstract!Spec
=============================================================================
