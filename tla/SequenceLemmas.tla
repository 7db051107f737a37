--------------------------- MODULE SequenceLemmas ---------------------------
(***************************************************************************)
(* Induction and recursion along a sequence, for the other proof modules.  *)
(* What the library's theorems say of every operator P(_) is said here of  *)
(* sets and functions, which the provers can instantiate.  What holds of   *)
(* a concatenation is a predicate (Joins, Lies, Splits, Regroups): as such *)
(* it is cited with compound arguments.                                    *)
(***************************************************************************)
EXTENDS Naturals, SequencesExt, SequenceTheorems, WellFoundedInduction, TLAPS

\* A set of natural numbers has a least one.
LEMMA Least ==
  ASSUME NEW T \in SUBSET Nat, T # {}
  PROVE  \E n \in T : \A m \in T : n <= m
<1> DEFINE R == OpToRel(<, Nat)
<1>1. IsWellFoundedOn(R, Nat)
  BY NatLessThanWellFounded
<1>2. \A x, y \in Nat : <<x, y>> \in R <=> x < y
  BY DEF OpToRel
<1> HIDE DEF R
<1>3. PICK n \in T : \A y \in T : ~ (<<y, n>> \in R)
  BY <1>1, WFMin
<1>4. ASSUME NEW m \in T PROVE n <= m
  <2>1. m \in Nat /\ n \in Nat /\ ~(<<m, n>> \in R)
    BY <1>3, <1>4
  <2>2. ~(m < n)
    BY <1>2, <2>1
  <2> QED  BY <2>1, <2>2
<1> QED  BY <1>3, <1>4

\* Induction up to N, with the set of those for which the claim holds.
LEMMA Induction ==
  ASSUME NEW N \in Nat, NEW T, 0 \in T, \A n \in 0 .. N : n # N /\ n \in T => n + 1 \in T
  PROVE  \A n \in 0 .. N : n \in T
<1> DEFINE Out == {n \in 0 .. N : n \notin T}
<1>1. SUFFICES ASSUME Out # {} PROVE FALSE
  OBVIOUS
<1>2. Out \in SUBSET Nat
  OBVIOUS
<1> HIDE DEF Out
<1>3. PICK n \in Out : \A m \in Out : n <= m
  BY <1>1, <1>2, Least
<1> USE DEF Out
<1>4. n \in 0 .. N /\ n # 0
  BY <1>3
<1>5. n - 1 \in 0 .. N /\ n - 1 # N /\ n - 1 \notin Out /\ (n - 1) + 1 = n
  BY <1>3, <1>4
<1> QED  BY <1>3, <1>5

-----------------------------------------------------------------------------
(* Recursion: f[0] is base, f[i] is what step i makes of f[i - 1] *)

Steps(N, V) == [1 .. N -> [V -> V]]

IsFold(f, N, V, base, step) ==
  f \in [0 .. N -> V] /\ f[0] = base /\ \A i \in 1 .. N : f[i] = step[i][f[i - 1]]

\* There is such an f.
LEMMA Recursion ==
  ASSUME NEW N \in Nat, NEW V, NEW base \in V, NEW step \in Steps(N, V)
  PROVE  \E f : IsFold(f, N, V, base, step)
<1> DEFINE Good(n) == \E f : IsFold(f, n, V, base, step)
           T == {n \in Nat : Good(n)}
<1> USE DEF IsFold, Steps
<1>1. Good(0)
  <2> DEFINE f == [i \in 0 .. 0 |-> base]
  <2>1. f \in [0 .. 0 -> V] /\ f[0] = base /\ \A i \in 1 .. 0 : f[i] = step[i][f[i - 1]]
    OBVIOUS
  <2> QED  BY <2>1
<1>2. ASSUME NEW n \in 0 .. N, n # N, Good(n) PROVE Good(n + 1)
  <2>1. PICK g : IsFold(g, n, V, base, step)
    BY <1>2
  <2> DEFINE h == [i \in 0 .. n + 1 |-> IF i = n + 1 THEN step[n + 1][g[n]] ELSE g[i]]
  <2>2. g[n] \in V /\ n + 1 \in 1 .. N
    BY <1>2, <2>1
  <2>3. step[n + 1][g[n]] \in V
    BY <2>2
  <2>4. h \in [0 .. n + 1 -> V] /\ h[0] = base
    BY <2>1, <2>3
  <2>5. ASSUME NEW i \in 1 .. n + 1 PROVE h[i] = step[i][h[i - 1]]
    <3>1. CASE i = n + 1
      BY <3>1
    <3>2. CASE i # n + 1
      <4>1. i \in 1 .. n /\ i - 1 \in 0 .. n /\ i - 1 # n + 1
        BY <3>2
      <4> QED  BY <2>1, <3>2, <4>1
    <3> QED  BY <3>1, <3>2
  <2> QED  BY <2>4, <2>5
<1> HIDE DEF Good
<1>3. 0 \in T /\ \A n \in 0 .. N : n # N /\ n \in T => n + 1 \in T
  BY <1>1, <1>2
<1> HIDE DEF T
<1>4. N \in T
  <2>1. \A n \in 0 .. N : n \in T
    BY <1>3, Induction
  <2> QED  BY <2>1
<1> QED  BY <1>4 DEF Good, T

LEMMA PairConcat ==
  ASSUME NEW S, NEW a \in S, NEW b \in S PROVE <<a>> \o <<b>> = <<a, b>>
<1> DEFINE s == <<a>>  t == <<b>>
<1>1. s \in Seq(S) /\ t \in Seq(S) /\ Len(s) = 1 /\ Len(t) = 1 /\ s[1] = a /\ t[1] = b
  OBVIOUS
<1>2. <<a, b>> \in Seq(S) /\ Len(<<a, b>>) = 2 /\ <<a, b>>[1] = a /\ <<a, b>>[2] = b
  OBVIOUS
<1> HIDE DEF s, t
<1>3. s \o t \in Seq(S) /\ Len(s \o t) = 2 /\ (s \o t)[1] = a /\ (s \o t)[2] = b
  BY <1>1, ConcatProperties
<1>4. \A i \in 1 .. 2 : (s \o t)[i] = <<a, b>>[i]
  <2>1. \A i \in 1 .. 2 : i = 1 \/ i = 2
    OBVIOUS
  <2> QED  BY <1>2, <1>3, <2>1
<1>5. s \o t = <<a, b>>
  BY <1>2, <1>3, <1>4, SeqEqual
<1> QED  BY <1>5 DEF s, t

-----------------------------------------------------------------------------
(* FlattenSeq *)

\* The recursion FlattenSeq is defined by
IsFlat(f, ss) ==
  f = [i \in 1 .. Len(ss) |-> IF i = 1 THEN ss[i] ELSE f[i - 1] \o ss[i]]

LEMMA FlattenByRecursion ==
  ASSUME NEW S, NEW ss \in Seq(Seq(S)), ss # <<>>
  PROVE  \E f : IsFlat(f, ss) /\ f \in [1 .. Len(ss) -> Seq(S)] /\ FlattenSeq(ss) = f[Len(ss)]
<1> DEFINE n == Len(ss)
           V == Seq(S)
           base == <<>>
           step == [i \in 1 .. n |-> [t \in V |-> IF i = 1 THEN ss[1] ELSE t \o ss[i]]]
           flat == CHOOSE f : IsFlat(f, ss)
<1>1. n \in Nat /\ n > 0 /\ \A i \in 1 .. n : ss[i] \in Seq(S)
  BY EmptySeq
<1>2. step \in Steps(n, V) /\ base \in V
  BY <1>1 DEF Steps
<1>3. PICK g : IsFold(g, n, V, base, step)
  <2> HIDE DEF step, n, V, base
  <2> QED  BY <1>1, <1>2, Recursion
<1> DEFINE h == [i \in 1 .. n |-> g[i]]
<1>4. \A i \in 1 .. n : h[i] \in V /\ h[i] = IF i = 1 THEN ss[i] ELSE h[i - 1] \o ss[i]
  <2> TAKE i \in 1 .. n
  <2>1. i - 1 \in 0 .. n /\ (i # 1 => i - 1 \in 1 .. n)
    BY <1>1
  <2>2. g[i - 1] \in V /\ g[i] \in V
    <3> HIDE DEF step, n, V, base
    <3> QED  BY <1>3, <2>1 DEF IsFold
  <2>3. g[i] = step[i][g[i - 1]]
    BY <1>3 DEF IsFold
  <2>4. g[i] = IF i = 1 THEN ss[i] ELSE g[i - 1] \o ss[i]
    BY <2>2, <2>3
  <2> HIDE DEF n, V
  <2> QED  BY <2>1, <2>2, <2>4
<1>5. IsFlat(h, ss)
  BY <1>4 DEF IsFlat
<1>6. IsFlat(flat, ss)
  BY <1>5
<1>7. FlattenSeq(ss) = flat[n]
  <2>1. Len(ss) # 0
    BY <1>1
  <2> QED  BY <2>1, Zenon DEF FlattenSeq, IsFlat
<1> HIDE DEF flat
<1>8. \A i \in 1 .. n : flat[i] = h[i]
  <2> DEFINE T == {0} \cup {i \in 1 .. n : flat[i] = h[i]}
  <2>1. 0 \in T
    OBVIOUS
  <2>2. ASSUME NEW i \in 0 .. n, i # n, i \in T PROVE i + 1 \in T
    <3>1. i + 1 \in 1 .. n /\ (i + 1) - 1 = i
      BY <1>1, <2>2
    <3>2. flat[i + 1] = IF i + 1 = 1 THEN ss[i + 1] ELSE flat[i] \o ss[i + 1]
      BY <1>6, <3>1 DEF IsFlat
    <3>3. h[i + 1] = IF i + 1 = 1 THEN ss[i + 1] ELSE h[i] \o ss[i + 1]
      BY <1>4, <3>1
    <3>4. i # 0 => flat[i] = h[i]
      BY <2>2
    <3> HIDE DEF h, n
    <3> QED  BY <3>1, <3>2, <3>3, <3>4
  <2> HIDE DEF T, n
  <2>3. \A i \in 0 .. n : i \in T
    BY <1>1, <2>1, <2>2, Induction
  <2>4. \A i \in 1 .. n : i \in 0 .. n /\ i # 0
    BY <1>1
  <2> HIDE DEF h
  <2> QED  BY <2>3, <2>4 DEF T
<1>9. flat \in [1 .. n -> V]
  <2>1. \A i \in 1 .. n : flat[i] \in V
    BY <1>4, <1>8
  <2>2. flat = [i \in 1 .. n |-> IF i = 1 THEN ss[i] ELSE flat[i - 1] \o ss[i]]
    BY <1>6 DEF IsFlat
  <2> HIDE DEF n, V
  <2> QED  BY <2>1, <2>2, Zenon
<1> QED  BY <1>6, <1>7, <1>9

LEMMA FlattenType ==
  ASSUME NEW S, NEW ss \in Seq(Seq(S))
  PROVE  FlattenSeq(ss) \in Seq(S)
<1>1. CASE ss = <<>>
  <2>1. FlattenSeq(ss) = <<>>
    BY <1>1 DEF FlattenSeq
  <2> QED  BY <2>1
<1>2. CASE ss # <<>>
  <2>1. PICK f : f \in [1 .. Len(ss) -> Seq(S)] /\ FlattenSeq(ss) = f[Len(ss)]
    BY <1>2, FlattenByRecursion
  <2>2. Len(ss) \in 1 .. Len(ss)
    BY <1>2, EmptySeq
  <2> QED  BY <2>1, <2>2
<1> QED  BY <1>1, <1>2

\* One sequence more is appended to all those before it.
LEMMA FlattenAppend ==
  ASSUME NEW S, NEW ss \in Seq(Seq(S)), NEW e \in Seq(S)
  PROVE  FlattenSeq(Append(ss, e)) = FlattenSeq(ss) \o e
<1> DEFINE tt == Append(ss, e)  n == Len(ss)
<1>1. /\ tt \in Seq(Seq(S)) /\ tt # <<>> /\ Len(tt) = n + 1 /\ n \in Nat
      /\ tt[n + 1] = e /\ \A i \in 1 .. n : tt[i] = ss[i]
  BY AppendProperties
<1> HIDE DEF tt
<1>2. PICK g : IsFlat(g, tt) /\ FlattenSeq(tt) = g[n + 1]
  BY <1>1, FlattenByRecursion
<1>3. \A i \in 1 .. n + 1 : g[i] = IF i = 1 THEN tt[i] ELSE g[i - 1] \o tt[i]
  BY <1>1, <1>2 DEF IsFlat
<1>4. CASE ss = <<>>
  <2>1. n = 0 /\ FlattenSeq(ss) = <<>>
    BY <1>4 DEF FlattenSeq
  <2>2. g[1] = e
    BY <1>1, <1>3, <2>1
  <2> QED  BY <1>2, <2>1, <2>2 DEF tt
<1>5. CASE ss # <<>>
  <2>1. PICK f : IsFlat(f, ss) /\ FlattenSeq(ss) = f[n]
    BY <1>5, FlattenByRecursion
  <2>2. n > 0
    BY <1>5, EmptySeq
  <2>3. \A i \in 1 .. n : f[i] = IF i = 1 THEN ss[i] ELSE f[i - 1] \o ss[i]
    BY <2>1 DEF IsFlat
  <2> DEFINE T == {0} \cup {i \in 1 .. n : f[i] = g[i]}
  <2>4. 0 \in T
    OBVIOUS
  <2>5. ASSUME NEW i \in 0 .. n, i # n, i \in T PROVE i + 1 \in T
    <3>1. i + 1 \in 1 .. n + 1 /\ i + 1 \in 1 .. n /\ (i + 1) - 1 = i
      BY <1>1, <2>5
    <3>2. i + 1 # 1 => f[i] = g[i]
      BY <2>5
    <3>3. f[i + 1] = g[i + 1]
      BY <1>1, <1>3, <2>3, <3>1, <3>2
    <3> QED  BY <3>1, <3>3
  <2>6. \A i \in 0 .. n : i \in T
    <3> HIDE DEF T, n
    <3> QED  BY <1>1, <2>4, <2>5, Induction
  <2>7. f[n] = g[n]
    <3>1. n \in 0 .. n /\ n # 0
      BY <1>1, <2>2
    <3> QED  BY <2>6, <3>1
  <2>8. g[n + 1] = g[n] \o tt[n + 1]
    <3>1. n + 1 \in 1 .. n + 1 /\ n + 1 # 1 /\ (n + 1) - 1 = n
      BY <1>1, <2>2
    <3> QED  BY <1>3, <3>1
  <2> HIDE DEF n
  <2> QED  BY <1>1, <1>2, <2>1, <2>7, <2>8, Zenon DEF tt
<1> QED  BY <1>4, <1>5

\* What m makes of each element, one after the other
Each(m, s) == [i \in 1 .. Len(s) |-> m[s[i]]]

LEMMA FlattenEach ==
  ASSUME NEW S, NEW D, NEW m \in [D -> Seq(S)], NEW s \in Seq(D)
  PROVE  /\ FlattenSeq(Each(m, s)) \in Seq(S)
         /\ FlattenSeq(Each(m, <<>>)) = <<>>
         /\ \A e \in D : FlattenSeq(Each(m, Append(s, e))) = FlattenSeq(Each(m, s)) \o m[e]
<1>1. Each(m, s) \in Seq(Seq(S)) /\ Len(Each(m, s)) = Len(s)
  BY DEF Each
<1>2. FlattenSeq(Each(m, s)) \in Seq(S)
  BY <1>1, FlattenType
<1>3. Each(m, <<>>) = <<>>
  BY DEF Each
<1>4. FlattenSeq(Each(m, <<>>)) = <<>>
  BY <1>3 DEF FlattenSeq
<1>5. ASSUME NEW e \in D
      PROVE  FlattenSeq(Each(m, Append(s, e))) = FlattenSeq(Each(m, s)) \o m[e]
  <2> DEFINE t == Append(s, e)  n == Len(s)  ss == Each(m, s)  tt == Append(ss, m[e])
  <2>1. /\ t \in Seq(D) /\ Len(t) = n + 1 /\ n \in Nat
        /\ t[n + 1] = e /\ \A i \in 1 .. n : t[i] = s[i]
    BY AppendProperties
  <2>2. m[e] \in Seq(S)
    OBVIOUS
  <2>3. /\ tt \in Seq(Seq(S)) /\ Len(tt) = n + 1
        /\ tt[n + 1] = m[e] /\ \A i \in 1 .. n : tt[i] = ss[i]
    BY <1>1, <2>2, AppendProperties
  <2>4. \A i \in 1 .. n : ss[i] = m[s[i]]
    BY DEF Each
  <2> HIDE DEF tt, ss, t
  <2>5. Each(m, t) \in Seq(Seq(S)) /\ Len(Each(m, t)) = n + 1
          /\ \A i \in 1 .. n + 1 : Each(m, t)[i] = m[t[i]]
    BY <2>1 DEF Each
  <2>6. \A i \in 1 .. n + 1 : Each(m, t)[i] = tt[i]
    <3> TAKE i \in 1 .. n + 1
    <3>1. CASE i = n + 1
      BY <2>1, <2>3, <2>5, <3>1
    <3>2. CASE i # n + 1
      <4>1. i \in 1 .. n
        BY <2>1, <3>2
      <4> QED  BY <2>1, <2>3, <2>4, <2>5, <4>1
    <3> QED  BY <3>1, <3>2
  <2>7. Each(m, t) = tt
    BY <2>3, <2>5, <2>6, SeqEqual
  <2> QED  BY <1>1, <2>2, <2>7, FlattenAppend DEF tt, ss, t
<1> QED  BY <1>2, <1>4, <1>5

\* The same as one predicate, to be cited at a given place
EachAppends(S, D, m, s, e) ==
  /\ FlattenSeq(Each(m, s)) \in Seq(S) /\ FlattenSeq(Each(m, <<>>)) = <<>>
  /\ FlattenSeq(Each(m, Append(s, e))) = FlattenSeq(Each(m, s)) \o m[e]

LEMMA FlattenEachAppends ==
  ASSUME NEW S, NEW D, NEW m \in [D -> Seq(S)], NEW s \in Seq(D), NEW e \in D
  PROVE  EachAppends(S, D, m, s, e)
BY FlattenEach DEF EachAppends

-----------------------------------------------------------------------------
(* Beginnings *)

\* p is the beginning of q
Begins(S, p, q) == \E r \in Seq(S) : p \o r = q

LEMMA BeginsIsPrefix ==
  ASSUME NEW S, NEW p \in Seq(S), NEW q \in Seq(S), Begins(S, p, q) PROVE IsPrefix(p, q)
<1>1. PICK r \in Seq(S) : p \o r = q
  BY DEF Begins
<1>2. Len(p) \in Nat /\ Len(r) \in Nat /\ Len(q) = Len(p) + Len(r)
  BY <1>1, ConcatProperties
<1>3. SubSeq(p, 1, Len(p)) = SubSeq(q, 1, Len(p))
  <2>1. CASE Len(p) = 0
    BY <2>1, SubSeqEmpty
  <2>2. CASE Len(p) # 0
    <3>1. 1 \in 1 .. Len(p) /\ Len(p) \in 1 .. Len(p)
      BY <1>2, <2>2
    <3> QED  BY <1>1, <3>1, SubSeqOfConcat1
  <2> QED  BY <2>1, <2>2
<1> QED  BY <1>2, <1>3 DEF IsPrefix

LEMMA BeginsTransitive ==
  ASSUME NEW S, NEW p \in Seq(S), NEW q \in Seq(S), NEW r \in Seq(S),
         Begins(S, p, q), Begins(S, q, r)
  PROVE  Begins(S, p, r)
<1>1. PICK a \in Seq(S) : p \o a = q
  BY DEF Begins
<1>2. PICK b \in Seq(S) : q \o b = r
  BY DEF Begins
<1>3. (p \o a) \o b = p \o (a \o b) /\ a \o b \in Seq(S)
  BY ConcatAssociative, ConcatProperties
<1> QED  BY <1>1, <1>2, <1>3, Zenon DEF Begins

LEMMA FlattenTo ==
  ASSUME NEW S, NEW D, NEW m \in [D -> Seq(S)], NEW s \in Seq(D), NEW n \in 0 .. Len(s)
  PROVE  SubSeq(s, 1, n) \in Seq(D) /\ FlattenSeq(Each(m, SubSeq(s, 1, n))) \in Seq(S)
<1> DEFINE past == SubSeq(s, 1, n)
<1>1. past \in Seq(D)
  <2>1. n \in Int /\ 1 \in Int /\ \A i \in 1 .. n : s[i] \in D
    OBVIOUS
  <2> QED  BY <2>1, SubSeqProperties
<1> HIDE DEF past
<1>2. FlattenSeq(Each(m, past)) \in Seq(S)
  BY <1>1, FlattenEach
<1> QED  BY <1>1, <1>2 DEF past

\* What FlattenNext says of the element at n + 1
Follows(S, D, m, s, n) ==
  /\ s[n + 1] \in D /\ m[s[n + 1]] \in Seq(S)
  /\ FlattenSeq(Each(m, SubSeq(s, 1, n + 1)))
       = FlattenSeq(Each(m, SubSeq(s, 1, n))) \o m[s[n + 1]]

LEMMA FlattenNext ==
  ASSUME NEW S, NEW D, NEW m \in [D -> Seq(S)], NEW s \in Seq(D),
         NEW n \in 0 .. Len(s), n # Len(s)
  PROVE  Follows(S, D, m, s, n)
<1> DEFINE past == SubSeq(s, 1, n)  j == n + 1
<1>1. /\ j \in 1 .. Len(s) /\ 1 \in 1 .. Len(s) /\ j \in 1 .. Len(s) /\ j - 1 = n
      /\ s[j] \in D /\ m[s[j]] \in Seq(S)
  OBVIOUS
<1>2. past \in Seq(D)
  BY FlattenTo
<1>3. SubSeq(s, 1, j) = past \o <<s[j]>>
  <2> HIDE DEF j
  <2>1. SubSeq(s, 1, j) = SubSeq(s, 1, j - 1) \o <<s[j]>>
    BY <1>1, SubSeqRecursiveSecond
  <2> QED  BY <1>1, <2>1
<1> HIDE DEF past, j
<1>4. SubSeq(s, 1, j) = Append(past, s[j])
  BY <1>1, <1>2, <1>3, AppendIsConcat
<1>5. EachAppends(S, D, m, past, s[j])
  BY <1>1, <1>2, FlattenEachAppends, Zenon
<1>6. FlattenSeq(Each(m, SubSeq(s, 1, j))) = FlattenSeq(Each(m, past)) \o m[s[j]]
  BY <1>4, <1>5, Zenon DEF EachAppends
<1> QED  BY <1>1, <1>6 DEF past, j, Follows

LEMMA FlattenBegins ==
  ASSUME NEW S, NEW D, NEW m \in [D -> Seq(S)], NEW s \in Seq(D), NEW k \in 0 .. Len(s)
  PROVE  Begins(S, FlattenSeq(Each(m, SubSeq(s, 1, k))), FlattenSeq(Each(m, s)))
<1> DEFINE N == Len(s) - k
           F(n) == FlattenSeq(Each(m, SubSeq(s, 1, n)))
           T == {n \in 0 .. N : Begins(S, F(k), F(k + n))}
<1>1. N \in Nat /\ k \in Nat /\ Len(s) \in Nat /\ k + N = Len(s)
  OBVIOUS
<1>2. \A n \in 0 .. Len(s) : F(n) \in Seq(S)
  BY FlattenTo
<1>3. 0 \in T
  <2> HIDE DEF F, N
  <2>1. F(k) \in Seq(S) /\ <<>> \in Seq(S) /\ k + 0 = k
    BY <1>2, EmptySeq
  <2>2. F(k) \o <<>> = F(k + 0)
    BY <2>1, ConcatEmptySeq
  <2>3. Begins(S, F(k), F(k + 0))
    BY <2>1, <2>2, Zenon DEF Begins
  <2>4. 0 \in 0 .. N
    BY <1>1
  <2> QED  BY <2>3, <2>4, Zenon
<1>4. ASSUME NEW n \in 0 .. N, n # N, n \in T PROVE n + 1 \in T
  <2> DEFINE i == k + n
  <2>1. i \in 0 .. Len(s) /\ i # Len(s) /\ i + 1 \in 0 .. Len(s) /\ k + (n + 1) = i + 1
        /\ n + 1 \in 0 .. N
    <3> HIDE DEF N, T
    <3> QED  BY <1>1, <1>4
  <2> HIDE DEF i
  <2>2. F(i + 1) = F(i) \o m[s[i + 1]] /\ m[s[i + 1]] \in Seq(S)
    <3>1. Follows(S, D, m, s, i)
      BY <2>1, FlattenNext, Zenon
    <3> QED  BY <3>1, Zenon DEF Follows
  <2>3. /\ F(k) \in Seq(S) /\ F(i) \in Seq(S) /\ F(i + 1) \in Seq(S)
        /\ Begins(S, F(k), F(i))
    BY <1>2, <1>4, <2>1 DEF i
  <2> HIDE DEF F
  <2>4. Begins(S, F(i), F(i + 1))
    BY <2>2, <2>3, Zenon DEF Begins
  <2>5. Begins(S, F(k), F(i + 1))
    BY <2>3, <2>4, BeginsTransitive
  <2>6. Begins(S, F(k), F(k + (n + 1)))
    BY <2>1, <2>5
  <2> QED  BY <2>1, <2>6
<1> HIDE DEF T
<1>5. N \in T
  <2>1. \A n \in 0 .. N : n \in T
    <3> HIDE DEF N
    <3> QED  BY <1>1, <1>3, <1>4, Induction
  <2> QED  BY <1>1, <2>1
<1>6. SubSeq(s, 1, k + N) = s
  BY <1>1, SubSeqFull
<1>7. Begins(S, F(k), F(k + N))
  BY <1>5 DEF T
<1> QED  BY <1>6, <1>7

\* Concatenation is associative, as a predicate
Regroups(s, t, u) == (s \o t) \o u = s \o (t \o u)

LEMMA Regrouped ==
  ASSUME NEW S, NEW s \in Seq(S), NEW t \in Seq(S), NEW u \in Seq(S)
  PROVE  Regroups(s, t, u)
BY ConcatAssociative DEF Regroups

\* The characters of a concatenation, as a predicate
Joins(S, s, t) ==
  /\ s \o t \in Seq(S) /\ Len(s) \in Nat /\ Len(t) \in Nat /\ Len(s \o t) = Len(s) + Len(t)
  /\ \A i \in 1 .. Len(s) : (s \o t)[i] = s[i]
  /\ \A i \in 1 .. Len(t) : (s \o t)[Len(s) + i] = t[i]

LEMMA Joined == ASSUME NEW S, NEW s \in Seq(S), NEW t \in Seq(S) PROVE Joins(S, s, t)
<1>1. /\ s \o t \in Seq(S) /\ Len(s) \in Nat /\ Len(t) \in Nat /\ Len(s \o t) = Len(s) + Len(t)
      /\ \A i \in 1 .. Len(s) + Len(t) : (s \o t)[i] = IF i <= Len(s) THEN s[i] ELSE t[i - Len(s)]
  BY ConcatProperties
<1>2. ASSUME NEW i \in 1 .. Len(s) PROVE (s \o t)[i] = s[i]
  <2>1. i \in 1 .. Len(s) + Len(t) /\ i <= Len(s)
    BY <1>1
  <2> QED  BY <1>1, <2>1
<1>3. ASSUME NEW i \in 1 .. Len(t) PROVE (s \o t)[Len(s) + i] = t[i]
  <2>1. Len(s) + i \in 1 .. Len(s) + Len(t) /\ ~(Len(s) + i <= Len(s)) /\ (Len(s) + i) - Len(s) = i
    BY <1>1
  <2> QED  BY <1>1, <2>1
<1> QED  BY <1>1, <1>2, <1>3 DEF Joins

\* Where an element's part lies in what is made of a whole sequence
Lies(S, part, p, whole) ==
  /\ part \in Seq(S) /\ whole \in Seq(S) /\ Len(part) \in Nat /\ p \in Nat /\ p + Len(part) <= Len(whole)
  /\ \A j \in 1 .. Len(part) : whole[p + j] = part[j]

LEMMA FlattenLies ==
  ASSUME NEW S, NEW D, NEW m \in [D -> Seq(S)], NEW s \in Seq(D),
         NEW n \in 0 .. Len(s), n # Len(s)
  PROVE  Lies(S, m[s[n + 1]], Len(FlattenSeq(Each(m, SubSeq(s, 1, n)))), FlattenSeq(Each(m, s)))
<1> DEFINE F(k) == FlattenSeq(Each(m, SubSeq(s, 1, k)))
           a == F(n)  part == m[s[n + 1]]  b == F(n + 1)  whole == FlattenSeq(Each(m, s))
<1>1. n + 1 \in 0 .. Len(s) /\ n \in Nat
  OBVIOUS
<1>2. Follows(S, D, m, s, n)
  BY FlattenNext, Zenon
<1>3. part \in Seq(S) /\ b = a \o part
  BY <1>2, Zenon DEF Follows
<1>4. a \in Seq(S) /\ b \in Seq(S) /\ whole \in Seq(S)
  BY <1>1, FlattenTo, FlattenEach
<1>5. Begins(S, b, whole)
  <2> HIDE DEF whole
  <2>1. Begins(S, FlattenSeq(Each(m, SubSeq(s, 1, n + 1))), FlattenSeq(Each(m, s)))
    BY <1>1, FlattenBegins, Zenon
  <2> QED  BY <2>1, Zenon DEF whole
<1> HIDE DEF a, b, part, whole
<1>6. PICK r \in Seq(S) : b \o r = whole
  BY <1>5 DEF Begins
<1>7. Joins(S, a, part) /\ Joins(S, b, r)
  BY <1>3, <1>4, Joined
<1>8. Len(a) \in Nat /\ Len(part) \in Nat /\ Len(b) = Len(a) + Len(part)
  BY <1>3, <1>7 DEF Joins
<1>9. Len(whole) = Len(b) + Len(r) /\ Len(r) \in Nat
  BY <1>6, <1>7 DEF Joins
<1>10. ASSUME NEW j \in 1 .. Len(part) PROVE whole[Len(a) + j] = part[j]
  <2>1. b[Len(a) + j] = part[j]
    BY <1>3, <1>7 DEF Joins
  <2>2. Len(a) + j \in 1 .. Len(b)
    BY <1>8
  <2>3. whole[Len(a) + j] = b[Len(a) + j]
    BY <1>6, <1>7, <2>2 DEF Joins
  <2> QED  BY <2>1, <2>3
<1>11. Lies(S, part, Len(a), whole)
  BY <1>3, <1>4, <1>8, <1>9, <1>10 DEF Lies
<1> QED  BY <1>11 DEF a, part, whole

\* What m makes of two sequences, one behind the other
Splits(m, s, t) == FlattenSeq(Each(m, s \o t)) = FlattenSeq(Each(m, s)) \o FlattenSeq(Each(m, t))

LEMMA EachConcat ==
  ASSUME NEW S, NEW D, NEW m \in [D -> Seq(S)], NEW s \in Seq(D), NEW t \in Seq(D)
  PROVE  Splits(m, s, t)
<1> DEFINE st == s \o t  N == Len(t)  M == Len(s)
           G(n) == FlattenSeq(Each(m, SubSeq(st, 1, M + n)))
           H(n) == FlattenSeq(Each(m, SubSeq(t, 1, n)))
           F == FlattenSeq(Each(m, s))
           T == {n \in 0 .. N : G(n) = F \o H(n)}
<1>1. Joins(D, s, t)
  BY Joined
<1>2. st \in Seq(D) /\ M \in Nat /\ N \in Nat /\ Len(st) = M + N
      /\ \A i \in 1 .. M : st[i] = s[i]
  BY <1>1 DEF Joins
<1>3. \A i \in 1 .. N : st[M + i] = t[i]
  BY <1>1 DEF Joins
<1> HIDE DEF st
<1>4. F \in Seq(S) /\ \A n \in 0 .. N : H(n) \in Seq(S)
  BY FlattenEach, FlattenTo
<1>5. 0 \in T
  <2>1. SubSeq(st, 1, M) = s
    <3>1. \A i \in 1 .. M : st[i] \in D
      BY <1>2
    <3>2. /\ SubSeq(st, 1, M) \in Seq(D) /\ Len(SubSeq(st, 1, M)) = (IF 1 <= M THEN M - 1 + 1 ELSE 0)
          /\ \A i \in 1 .. M - 1 + 1 : SubSeq(st, 1, M)[i] = st[1 + i - 1]
      <4> HIDE DEF M
      <4> QED  BY <1>2, <3>1, SubSeqProperties
    <3>3. Len(SubSeq(st, 1, M)) = M /\ \A i \in 1 .. M : SubSeq(st, 1, M)[i] = s[i]
      BY <1>2, <3>2
    <3> QED  BY <3>2, <3>3, SeqEqual
  <2>2. G(0) = F
    <3>1. M + 0 = M
      BY <1>2
    <3> QED  BY <2>1, <3>1
  <2>3. H(0) = <<>>
    <3>1. SubSeq(t, 1, 0) = <<>>
      BY SubSeqEmpty
    <3>2. FlattenSeq(Each(m, <<>>)) = <<>>
      BY FlattenEach
    <3> QED  BY <3>1, <3>2
  <2>4. F \o <<>> = F
    BY <1>4, ConcatEmptySeq
  <2> HIDE DEF F, G, H
  <2>5. G(0) = F \o H(0)
    BY <2>2, <2>3, <2>4, Zenon
  <2>6. 0 \in 0 .. N
    BY <1>2
  <2> QED  BY <2>5, <2>6, Zenon
<1>6. ASSUME NEW n \in 0 .. N, n # N, n \in T PROVE n + 1 \in T
  <2>1. M + n \in 0 .. Len(st) /\ M + n # Len(st) /\ M + (n + 1) = (M + n) + 1 /\ n + 1 \in 1 .. N
        /\ (M + n) + 1 = M + (n + 1) /\ n + 1 \in 0 .. N
    <3> HIDE DEF T, M, N
    <3> QED  BY <1>2, <1>6
  <2>2. Follows(S, D, m, st, M + n) /\ Follows(S, D, m, t, n)
    BY <1>2, <2>1, FlattenNext, Zenon
  <2>3. st[(M + n) + 1] = t[n + 1]
    BY <1>3, <2>1
  <2>4. G(n + 1) = G(n) \o m[t[n + 1]] /\ H(n + 1) = H(n) \o m[t[n + 1]] /\ m[t[n + 1]] \in Seq(S)
    BY <2>1, <2>2, <2>3, Zenon DEF Follows
  <2>5. G(n) = F \o H(n) /\ H(n) \in Seq(S)
    BY <1>4, <1>6
  <2> HIDE DEF F, G, H
  <2>6. Regroups(F, H(n), m[t[n + 1]])
    BY <1>4, <2>4, <2>5, Regrouped
  <2>7. G(n + 1) = F \o H(n + 1)
    BY <2>4, <2>5, <2>6, Zenon DEF Regroups
  <2> QED  BY <2>1, <2>7
<1>7. N \in T
  <2>1. \A n \in 0 .. N : n \in T
    <3> HIDE DEF T, N
    <3> QED  BY <1>2, <1>5, <1>6, Induction
  <2>2. N \in 0 .. N
    BY <1>2
  <2> HIDE DEF T, N
  <2> QED  BY <2>1, <2>2
<1>8. SubSeq(st, 1, M + N) = st /\ SubSeq(t, 1, N) = t
  <2>1. SubSeq(st, 1, Len(st)) = st
    BY <1>2, SubSeqFull
  <2> QED  BY <1>2, <2>1, SubSeqFull
<1>9. G(N) = F \o H(N)
  BY <1>7
<1>10. FlattenSeq(Each(m, st)) = F \o FlattenSeq(Each(m, t))
  BY <1>8, <1>9
<1> QED  BY <1>10 DEF st, Splits

LEMMA Reversed ==
  ASSUME NEW S, NEW s \in Seq(S)
  PROVE  /\ Reverse(s) \in Seq(S) /\ Len(Reverse(s)) = Len(s)
         /\ \A i \in 1 .. Len(s) : Reverse(s)[i] = s[Len(s) - i + 1]
<1> DEFINE n == Len(s)  r == [i \in 1 .. n |-> s[(n - i) + 1]]
<1>1. n \in Nat /\ \A i \in 1 .. n : s[i] \in S
  OBVIOUS
<1>2. \A i \in 1 .. n : (n - i) + 1 \in 1 .. n
  BY <1>1
<1>3. Reverse(s) = r
  BY DEF Reverse
<1>4. r \in [1 .. n -> S]
  BY <1>1, <1>2
<1>5. r \in Seq(S) /\ Len(r) = n /\ \A i \in 1 .. n : r[i] = s[n - i + 1]
  BY <1>1, <1>4
<1> QED  BY <1>3, <1>5

LEMMA ReverseJoined ==
  ASSUME NEW S, NEW s \in Seq(S), NEW t \in Seq(S)
  PROVE  Reverse(s \o t) = Reverse(t) \o Reverse(s)
<1> DEFINE m == Len(s)  n == Len(t)  st == s \o t  rs == Reverse(s)  rt == Reverse(t)
<1>1. /\ st \in Seq(S) /\ m \in Nat /\ n \in Nat /\ Len(st) = m + n
      /\ \A i \in 1 .. m : st[i] = s[i]
      /\ \A i \in 1 .. n : st[m + i] = t[i]
  <2>1. Joins(S, s, t)
    BY Joined
  <2> QED  BY <2>1 DEF Joins
<1>2. rs \in Seq(S) /\ Len(rs) = m /\ \A i \in 1 .. m : rs[i] = s[m - i + 1]
  BY Reversed
<1>3. rt \in Seq(S) /\ Len(rt) = n /\ \A i \in 1 .. n : rt[i] = t[n - i + 1]
  BY Reversed
<1> HIDE DEF st
<1>4. Reverse(st) \in Seq(S) /\ Len(Reverse(st)) = m + n /\ \A i \in 1 .. m + n : Reverse(st)[i] = st[m + n - i + 1]
  <2> DEFINE l == Len(st)
  <2>1. Reverse(st) \in Seq(S) /\ Len(Reverse(st)) = l /\ \A i \in 1 .. l : Reverse(st)[i] = st[l - i + 1]
    BY <1>1, Reversed
  <2>2. l = m + n
    BY <1>1
  <2> HIDE DEF l
  <2> QED  BY <2>1, <2>2
<1> HIDE DEF rs, rt, m, n
<1>5. /\ rt \o rs \in Seq(S) /\ Len(rt \o rs) = n + m
      /\ \A i \in 1 .. n : (rt \o rs)[i] = rt[i]
      /\ \A i \in 1 .. m : (rt \o rs)[n + i] = rs[i]
  <2>1. Joins(S, rt, rs)
    BY <1>2, <1>3, Joined
  <2> QED  BY <1>2, <1>3, <2>1 DEF Joins
<1>6. ASSUME NEW i \in 1 .. m + n PROVE Reverse(st)[i] = (rt \o rs)[i]
  <2>1. CASE i <= n
    <3>1. i \in 1 .. n /\ n - i + 1 \in 1 .. n /\ m + (n - i + 1) = m + n - i + 1
      BY <1>1, <2>1
    <3>2. st[m + (n - i + 1)] = t[n - i + 1]
      BY <1>1, <3>1
    <3>3. Reverse(st)[i] = t[n - i + 1]
      BY <1>4, <3>1, <3>2
    <3> QED  BY <1>3, <1>5, <3>1, <3>3
  <2>2. CASE ~(i <= n)
    <3> DEFINE k == i - n
    <3>1. k \in 1 .. m /\ n + k = i /\ m - k + 1 \in 1 .. m /\ m + n - i + 1 = m - k + 1
      BY <1>1, <2>2
    <3> HIDE DEF k
    <3>2. st[m - k + 1] = s[m - k + 1]
      BY <1>1, <3>1
    <3>3. (rt \o rs)[n + k] = s[m - k + 1]
      BY <1>2, <1>5, <3>1
    <3> QED  BY <1>4, <3>1, <3>2, <3>3
  <2> QED  BY <2>1, <2>2
<1>7. Len(Reverse(st)) = Len(rt \o rs)
  BY <1>1, <1>4, <1>5
<1>8. Reverse(st) = rt \o rs
  BY <1>4, <1>5, <1>6, <1>7, SeqEqual
<1> QED  BY <1>8 DEF st, rt, rs

LEMMA ReverseShort == ASSUME NEW S, NEW s \in Seq(S), Len(s) <= 1 PROVE Reverse(s) = s
<1>1. Reverse(s) \in Seq(S) /\ Len(Reverse(s)) = Len(s) /\ \A i \in 1 .. Len(s) : Reverse(s)[i] = s[Len(s) - i + 1]
  BY Reversed
<1>2. \A i \in 1 .. Len(s) : Len(s) - i + 1 = i
  OBVIOUS
<1>3. \A i \in 1 .. Len(s) : Reverse(s)[i] = s[i]
  BY <1>1, <1>2
<1> QED  BY <1>1, <1>3, SeqEqual

LEMMA ShortSequences ==
  ASSUME NEW S
  PROVE  /\ \A a \in S : <<a>> \in Seq(S)
         /\ \A a, b \in S : <<a, b>> \in Seq(S)
<1>1. \A a \in S : <<a>> \in Seq(S)
  OBVIOUS
<1>2. \A a, b \in S : <<a, b>> \in Seq(S)
  OBVIOUS
<1> QED  BY <1>1, <1>2

LEMMA PairReversed == ASSUME NEW S, NEW a \in S, NEW b \in S PROVE Reverse(<<a>> \o <<b>>) = <<b, a>>
<1> DEFINE s == <<a>>  t == <<b>>
<1>1. s \in Seq(S) /\ t \in Seq(S) /\ Len(s) <= 1 /\ Len(t) <= 1
  OBVIOUS
<1> HIDE DEF s, t
<1>2. Reverse(s \o t) = Reverse(t) \o Reverse(s)
  BY <1>1, ReverseJoined
<1>3. Reverse(s) = s /\ Reverse(t) = t
  BY <1>1, ReverseShort
<1>4. <<b>> \o <<a>> = <<b, a>>
  BY PairConcat
<1>5. t \o s = <<b, a>>
  BY <1>4 DEF s, t
<1> QED  BY <1>2, <1>3, <1>5 DEF s, t
=============================================================================
