----------------------------- MODULE DataLemmas -----------------------------
(***************************************************************************)
(* Facts about data that several proofs need: induction and recursion on   *)
(* the natural numbers, the elements of a sequence, sums, recursion over a *)
(* finite set without cycles, and ranges of numbers cut in slices.         *)
(*                                                                         *)
(* The induction theorems of the library take the predicate as an          *)
(* operator, which the provers cannot instantiate; those here take it as   *)
(* the set of the numbers it holds of, and the body of a recursive         *)
(* definition as a function.                                               *)
(***************************************************************************)
EXTENDS Lists, FiniteSets, SequenceTheorems, FiniteSetTheorems, TLAPS

----------------------------------------------------------------------------
(* Induction and recursion.                                                *)

\* Every non-empty set of naturals has a least element.
LEMMA LeastNatural ==
    ASSUME NEW T, T \subseteq Nat, T # {}
    PROVE  \E n \in T : \A m \in T : n <= m
<1> DEFINE Below == {p \in Nat \X Nat : p[1] < p[2]}
<1>1. IsWellFoundedOn(Below, Nat)
  BY NatLessThanWellFounded, Zenon DEF OpToRel
<1>2. \A m, n \in Nat : m < n => <<m, n>> \in Below
  OBVIOUS
<1> HIDE DEF Below
<1>3. PICK n \in T : \A m \in T : <<m, n>> \notin Below
  BY <1>1, WFMin
<1>4. \A m \in T : ~ (m < n)
  BY <1>2, <1>3
<1> QED BY <1>4

\* A set that holds 0 and the successor of each of its elements holds every
\* natural number.
LEMMA InductionOnNat ==
    ASSUME NEW T, 0 \in T, \A n \in Nat : n \in T => n + 1 \in T
    PROVE  \A n \in Nat : n \in T
<1> DEFINE Out == {n \in Nat : n \notin T}
<1> SUFFICES ASSUME Out # {} PROVE FALSE
  OBVIOUS
<1>1. PICK n \in Out : \A m \in Out : n <= m
  BY LeastNatural
<1>2. n # 0 /\ n - 1 \in Nat /\ n - 1 \notin Out
  BY <1>1
<1> QED BY <1>2

\* The same up to a bound.
LEMMA InductionUpTo ==
    ASSUME NEW T, NEW N \in Nat, 0 \in T,
           \A n \in 0..N : n \in T /\ n < N => n + 1 \in T
    PROVE  \A n \in 0..N : n \in T
<1> DEFINE U == {n \in Nat : n <= N => n \in T}
<1>1. 0 \in U
  OBVIOUS
<1>2. \A n \in Nat : n \in U => n + 1 \in U
  OBVIOUS
<1> HIDE DEF U
<1>3. \A n \in Nat : n \in U
  BY <1>1, <1>2, InductionOnNat
<1> QED BY <1>3 DEF U

\* The numbers from 0 to n, each computed from the one before by the step h.
Iterates(g, a, h, n) ==
    g[0] = a /\ \A k \in 0..n : k < n => g[k + 1] = h[<<k, g[k]>>]

\* Two computations agree as far as both go.
LEMMA IteratesUnique ==
    ASSUME NEW a, NEW h, NEW n \in Nat, NEW m \in Nat, n <= m,
           NEW g, Iterates(g, a, h, n), NEW f, Iterates(f, a, h, m)
    PROVE  \A k \in 0..n : g[k] = f[k]
<1> DEFINE T == {k \in Nat : g[k] = f[k]}
<1>1. 0 \in T
  BY DEF Iterates
<1>2. ASSUME NEW k \in 0..n, k \in T, k < n PROVE k + 1 \in T
  <2>1. g[k + 1] = h[<<k, g[k]>>] /\ f[k + 1] = h[<<k, f[k]>>]
    BY <1>2 DEF Iterates
  <2> QED BY <2>1, <1>2
<1> HIDE DEF T
<1>3. \A k \in 0..n : k \in T
  BY <1>1, <1>2, InductionUpTo
<1> QED BY <1>3 DEF T

\* A computation that never ends, and one up to N in the form in which TLA+
\* writes a recursive function.
Iterated(f, a, h) == f[0] = a /\ \A n \in Nat : f[n + 1] = h[<<n, f[n]>>]
Recursive(f, a, h, N) ==
    f = [n \in 0..N |-> IF n = 0 THEN a ELSE h[<<n, f[n - 1]>>]]

\* A function defined by recursion on the naturals exists.
LEMMA RecursionOnNat ==
    ASSUME NEW V, NEW a \in V, NEW h \in [Nat \X V -> V]
    PROVE  \E f \in [Nat -> V] : Iterated(f, a, h)
<1> DEFINE T == {n \in Nat : \E g \in [0..n -> V] : Iterates(g, a, h, n)}
<1>1. 0 \in T
  <2>1. Iterates([k \in 0..0 |-> a], a, h, 0)
    BY DEF Iterates
  <2> QED BY <2>1
<1>2. ASSUME NEW n \in Nat, n \in T PROVE n + 1 \in T
  <2>1. PICK g \in [0..n -> V] : Iterates(g, a, h, n)
    BY <1>2
  <2> DEFINE e == [k \in 0..(n + 1) |-> IF k <= n THEN g[k] ELSE h[<<n, g[n]>>]]
  <2>2. e \in [0..(n + 1) -> V]
    <3>1. h[<<n, g[n]>>] \in V
      OBVIOUS
    <3> QED BY <3>1
  <2>3. e[0] = a
    BY <2>1 DEF Iterates
  <2>4. ASSUME NEW k \in 0..(n + 1), k < n + 1
        PROVE  e[k + 1] = h[<<k, e[k]>>]
    <3>1. CASE k = n
      BY <3>1
    <3>2. CASE k < n
      BY <3>2, <2>1 DEF Iterates
    <3> QED BY <2>4, <3>1, <3>2
  <2> HIDE DEF e
  <2>5. Iterates(e, a, h, n + 1)
    BY <2>3, <2>4 DEF Iterates
  <2> QED BY <2>2, <2>5
<1> HIDE DEF T
<1>3. \A n \in Nat : n \in T
  BY <1>1, <1>2, InductionOnNat
<1> DEFINE G(n) == CHOOSE g \in [0..n -> V] : Iterates(g, a, h, n)
<1>4. \A n \in Nat : G(n) \in [0..n -> V] /\ Iterates(G(n), a, h, n)
  BY <1>3 DEF T
<1> HIDE DEF G
<1> DEFINE f == [n \in Nat |-> G(n)[n]]
<1>5. f \in [Nat -> V]
  BY <1>4
<1>6. f[0] = a
  BY <1>4 DEF Iterates
<1>7. ASSUME NEW n \in Nat PROVE f[n + 1] = h[<<n, f[n]>>]
  <2>1. G(n + 1)[n + 1] = h[<<n, G(n + 1)[n]>>]
    BY <1>4, n + 1 \in Nat DEF Iterates
  <2>2. Iterates(G(n), a, h, n) /\ Iterates(G(n + 1), a, h, n + 1)
    BY <1>4
  <2>3. \A k \in 0..n : G(n)[k] = G(n + 1)[k]
    BY <2>2, n <= n + 1, n + 1 \in Nat, IteratesUnique
  <2> QED BY <2>1, <2>3
<1> HIDE DEF f
<1>8. Iterated(f, a, h)
  BY <1>6, <1>7 DEF Iterated
<1> QED BY <1>5, <1>8

\* The same on 0..N, in the form in which TLA+ writes such a function.
LEMMA RecursionUpTo ==
    ASSUME NEW V, NEW a \in V, NEW N \in Nat, NEW h \in [(1..N) \X V -> V]
    PROVE  \E f \in [0..N -> V] : Recursive(f, a, h, N)
<1> DEFINE H == [p \in Nat \X V |->
                   IF p[1] < N THEN h[<<p[1] + 1, p[2]>>] ELSE p[2]]
<1>1. \A n \in Nat, v \in V :
         /\ H[<<n, v>>] \in V
         /\ n < N => H[<<n, v>>] = h[<<n + 1, v>>]
  OBVIOUS
<1>2. H \in [Nat \X V -> V]
  OBVIOUS
<1> HIDE DEF H
<1>3. PICK F \in [Nat -> V] : Iterated(F, a, H)
  BY <1>2, RecursionOnNat
<1>4. F[0] = a /\ \A n \in Nat : F[n + 1] = H[<<n, F[n]>>]
  BY <1>3 DEF Iterated
<1> DEFINE f == [n \in 0..N |-> F[n]]
<1>5. f \in [0..N -> V]
  OBVIOUS
<1>6. ASSUME NEW n \in 0..N
      PROVE  f[n] = IF n = 0 THEN a ELSE h[<<n, f[n - 1]>>]
  <2>1. CASE n = 0
    BY <2>1, <1>4
  <2>2. CASE n # 0
    <3>1. n - 1 \in Nat /\ n - 1 < N /\ n - 1 \in 0..N /\ (n - 1) + 1 = n
      BY <2>2
    <3>2. F[(n - 1) + 1] = h[<<(n - 1) + 1, F[n - 1]>>]
      <4>1. F[n - 1] \in V
        BY <3>1, <1>3
      <4>2. F[(n - 1) + 1] = H[<<n - 1, F[n - 1]>>]
        BY <3>1, <1>4
      <4>3. H[<<n - 1, F[n - 1]>>] = h[<<(n - 1) + 1, F[n - 1]>>]
        BY ONLY <3>1, <4>1, <1>1
      <4> QED BY <4>2, <4>3
    <3>3. f[n - 1] = F[n - 1] /\ f[n] = F[n]
      BY <3>1
    <3> HIDE DEF f
    <3> QED BY <3>1, <3>2, <3>3, <2>2
  <2> QED BY <2>1, <2>2
<1> HIDE DEF f
<1>7. Recursive(f, a, h, N)
  BY <1>5, <1>6 DEF Recursive
<1> QED BY <1>5, <1>7

----------------------------------------------------------------------------
(* Sequences and their elements.                                           *)

\* No element occurs twice.
NoRepeat(q) == \A i, j \in DOMAIN q : q[i] = q[j] => i = j

\* The elements of a sequence over S are in S, those of the empty one none.
LEMMA RangeType ==
    /\ \A S : \A q \in Seq(S) : Range(q) \subseteq S
    /\ Range(<<>>) = {} /\ NoRepeat(<<>>)
BY DEF Range, NoRepeat

\* Appending adds one element.
LEMMA RangeAppend ==
    ASSUME NEW S, NEW q \in Seq(S), NEW t \in S
    PROVE  /\ Append(q, t) \in Seq(S)
           /\ Range(Append(q, t)) = Range(q) \cup {t}
<1>1. /\ Append(q, t) \in Seq(S) /\ Len(Append(q, t)) = Len(q) + 1
      /\ \A i \in 1..Len(q) : Append(q, t)[i] = q[i]
      /\ Append(q, t)[Len(q) + 1] = t
  BY AppendProperties
<1>2. DOMAIN Append(q, t) = 1..(Len(q) + 1) /\ DOMAIN q = 1..Len(q)
      /\ Len(q) \in Nat
  BY <1>1
<1> QED BY <1>1, <1>2 DEF Range

\* Appending an element that is not there yet repeats none.
LEMMA NoRepeatAppend ==
    ASSUME NEW S, NEW q \in Seq(S), NEW t \in S, t \notin Range(q), NoRepeat(q)
    PROVE  NoRepeat(Append(q, t))
<1>1. /\ Len(Append(q, t)) = Len(q) + 1 /\ Append(q, t) \in Seq(S)
      /\ \A i \in 1..Len(q) : Append(q, t)[i] = q[i]
      /\ Append(q, t)[Len(q) + 1] = t
  BY AppendProperties
<1>2. DOMAIN Append(q, t) = 1..(Len(q) + 1) /\ DOMAIN q = 1..Len(q)
      /\ Len(q) \in Nat
  BY <1>1
<1>3. \A i \in 1..Len(q) : q[i] # t
  BY <1>2 DEF Range
<1>4. \A i \in 1..(Len(q) + 1) : i \in 1..Len(q) \/ i = Len(q) + 1
  BY <1>2
<1> QED BY <1>1, <1>2, <1>3, <1>4 DEF NoRepeat

\* A concatenation has the elements of both, none twice if they share none
\* and neither repeats one.
LEMMA RangeConcat ==
    ASSUME NEW S, NEW p \in Seq(S), NEW q \in Seq(S)
    PROVE  /\ p \o q \in Seq(S)
           /\ Range(p \o q) = Range(p) \cup Range(q)
           /\ NoRepeat(p) /\ NoRepeat(q) /\ Range(p) \cap Range(q) = {}
                => NoRepeat(p \o q)
<1> DEFINE r == p \o q
<1>1. /\ r \in Seq(S) /\ Len(r) = Len(p) + Len(q)
      /\ \A i \in 1..Len(r) :
            r[i] = IF i <= Len(p) THEN p[i] ELSE q[i - Len(p)]
  BY ConcatProperties
<1>2. /\ DOMAIN r = 1..(Len(p) + Len(q)) /\ DOMAIN p = 1..Len(p)
      /\ DOMAIN q = 1..Len(q) /\ Len(p) \in Nat /\ Len(q) \in Nat
  BY <1>1
<1> HIDE DEF r
<1>3. \A i \in DOMAIN p : i \in DOMAIN r /\ r[i] = p[i]
  BY <1>1, <1>2
<1>4. \A i \in DOMAIN q : i + Len(p) \in DOMAIN r /\ r[i + Len(p)] = q[i]
  BY <1>1, <1>2
<1>5. \A i \in DOMAIN r : \/ i \in DOMAIN p /\ r[i] = p[i]
                          \/ i - Len(p) \in DOMAIN q /\ r[i] = q[i - Len(p)]
  BY <1>1, <1>2
<1>6. Range(r) = Range(p) \cup Range(q)
  BY <1>3, <1>4, <1>5 DEF Range
<1>7. ASSUME NoRepeat(p), NoRepeat(q), Range(p) \cap Range(q) = {},
             NEW i \in DOMAIN r, NEW j \in DOMAIN r, r[i] = r[j]
      PROVE  i = j
  <2>1. \A k \in DOMAIN p : p[k] \in Range(p)
    BY DEF Range
  <2>2. \A k \in DOMAIN q : q[k] \in Range(q)
    BY DEF Range
  <2>3. CASE i \in DOMAIN p /\ r[i] = p[i]
    BY <2>1, <2>2, <2>3, <1>5, <1>7 DEF NoRepeat
  <2>4. CASE i - Len(p) \in DOMAIN q /\ r[i] = q[i - Len(p)]
    <3>1. j - Len(p) \in DOMAIN q /\ r[j] = q[j - Len(p)]
      BY <2>1, <2>2, <2>4, <1>5, <1>7
    <3>2. i - Len(p) = j - Len(p)
      BY <3>1, <2>4, <1>7 DEF NoRepeat
    <3> QED BY <3>2, <1>2
  <2> QED BY <2>3, <2>4, <1>5
<1>8. NoRepeat(p) /\ NoRepeat(q) /\ Range(p) \cap Range(q) = {} => NoRepeat(r)
  BY <1>7 DEF NoRepeat
<1> QED BY <1>1, <1>6, <1>8 DEF r

\* A sequence cut in two keeps its elements, and both parts repeat none and
\* share none if it repeats none.
LEMMA RangeCut ==
    ASSUME NEW S, NEW q \in Seq(S), NEW n \in 0..Len(q)
    PROVE  LET a == SubSeq(q, 1, n)
               b == SubSeq(q, n + 1, Len(q))
           IN  /\ a \in Seq(S) /\ b \in Seq(S)
               /\ Range(a) \cup Range(b) = Range(q)
               /\ NoRepeat(q) => NoRepeat(a) /\ NoRepeat(b)
                                 /\ Range(a) \cap Range(b) = {}
<1> DEFINE a == SubSeq(q, 1, n)
           b == SubSeq(q, n + 1, Len(q))
<1>1. /\ Len(q) \in Nat /\ DOMAIN q = 1..Len(q)
      /\ a \in Seq(S) /\ DOMAIN a = 1..n
      /\ b \in Seq(S) /\ DOMAIN b = 1..(Len(q) - n)
  OBVIOUS
<1>2. \A i \in DOMAIN a : i \in DOMAIN q /\ a[i] = q[i]
  BY <1>1
<1>3. \A i \in DOMAIN b : i + n \in DOMAIN q /\ b[i] = q[i + n]
  BY <1>1
<1> HIDE DEF a, b
<1>4. \A i \in DOMAIN q : i \in DOMAIN a \/ i - n \in DOMAIN b
  BY <1>1
<1>5. Range(a) \cup Range(b) \subseteq Range(q)
  BY <1>2, <1>3 DEF Range
<1>6. ASSUME NEW i \in DOMAIN q PROVE q[i] \in Range(a) \cup Range(b)
  <2>1. CASE i \in DOMAIN a
    BY <2>1, <1>2 DEF Range
  <2>2. CASE i - n \in DOMAIN b
    <3>1. b[i - n] = q[i]
      BY <2>2, <1>3, <1>1
    <3> QED BY <3>1, <2>2 DEF Range
  <2> QED BY <2>1, <2>2, <1>4
<1>7. ASSUME NoRepeat(q) PROVE NoRepeat(a)
  BY <1>2, <1>7 DEF NoRepeat
<1>8. ASSUME NoRepeat(q), NEW i \in DOMAIN b, NEW j \in DOMAIN b, b[i] = b[j]
      PROVE  i = j
  <2>1. i + n = j + n
    BY <1>3, <1>8 DEF NoRepeat
  <2> QED BY <2>1, <1>1
<1>9. ASSUME NoRepeat(q), NEW i \in DOMAIN a, NEW j \in DOMAIN b, a[i] = b[j]
      PROVE  FALSE
  <2>1. i = j + n
    BY <1>2, <1>3, <1>9 DEF NoRepeat
  <2> QED BY <2>1, <1>1
<1>10. NoRepeat(q) => Range(a) \cap Range(b) = {}
  BY <1>9 DEF Range
<1>11. NoRepeat(q) => NoRepeat(b)
  BY <1>8 DEF NoRepeat
<1>12. Range(a) \cup Range(b) = Range(q)
  BY <1>5, <1>6 DEF Range
<1>13. a \in Seq(S) /\ b \in Seq(S)
  BY <1>1
<1> QED BY <1>7, <1>10, <1>11, <1>12, <1>13 DEF a, b

\* The last element, and what is left without it.
LEMMA RangeFront ==
    ASSUME NEW S, NEW q \in Seq(S), q # <<>>
    PROVE  LET front == SubSeq(q, 1, Len(q) - 1)
           IN  /\ front \in Seq(S) /\ q[Len(q)] \in S
               /\ Range(q) = Range(front) \cup {q[Len(q)]}
               /\ NoRepeat(q) => NoRepeat(front) /\ q[Len(q)] \notin Range(front)
<1> DEFINE n == Len(q) - 1
           a == SubSeq(q, 1, n)
           b == SubSeq(q, n + 1, Len(q))
<1>1. n \in 0..Len(q) /\ q[Len(q)] \in S
  OBVIOUS
<1>2. /\ a \in Seq(S)
      /\ Range(a) \cup Range(b) = Range(q)
      /\ NoRepeat(q) => NoRepeat(a) /\ Range(a) \cap Range(b) = {}
  BY <1>1, RangeCut
<1>3. DOMAIN b = {1} /\ b[1] = q[Len(q)]
  OBVIOUS
<1> HIDE DEF b
<1>4. Range(b) = {q[Len(q)]}
  BY <1>3 DEF Range
<1> QED BY <1>1, <1>2, <1>4

\* The first element, and what is left without it.
LEMMA RangeTail ==
    ASSUME NEW S, NEW q \in Seq(S), q # <<>>
    PROVE  /\ Tail(q) \in Seq(S) /\ Head(q) \in S
           /\ Range(q) = Range(Tail(q)) \cup {Head(q)}
<1>1. /\ Tail(q) \in Seq(S) /\ Head(q) \in S /\ Head(q) = q[1]
      /\ DOMAIN q = 1..Len(q) /\ DOMAIN Tail(q) = 1..(Len(q) - 1)
      /\ Len(q) \in Nat /\ Len(q) >= 1
      /\ \A i \in DOMAIN Tail(q) : Tail(q)[i] = q[i + 1]
  BY HeadTailProperties
<1>2. \A i \in DOMAIN Tail(q) : i + 1 \in DOMAIN q
  BY <1>1
<1>3. \A i \in DOMAIN q : \/ i = 1
                          \/ i - 1 \in DOMAIN Tail(q) /\ q[i] = Tail(q)[i - 1]
  BY <1>1
<1>4. 1 \in DOMAIN q
  BY <1>1
<1>5. Range(q) \subseteq Range(Tail(q)) \cup {Head(q)}
  BY <1>1, <1>3 DEF Range
<1>6. Range(Tail(q)) \cup {Head(q)} \subseteq Range(q)
  BY <1>1, <1>2, <1>4 DEF Range
<1> QED BY <1>1, <1>5, <1>6

FilterSteps(kept, q, S) ==
    /\ kept[0] = <<>>
    /\ \A n \in 1..Len(q) :
          kept[n] = IF q[n] \in S THEN Append(kept[n - 1], q[n]) ELSE kept[n - 1]

\* What the recursive definition in Filtered computes, one element at a time.
LEMMA FilteredStep ==
    ASSUME NEW A, NEW q \in Seq(A), NEW S
    PROVE  \E kept \in [0..Len(q) -> Seq(A)] :
              Filtered(q, S) = kept[Len(q)] /\ FilterSteps(kept, q, S)
<1> DEFINE N == Len(q)
           body(f) == [n \in 0..N |->
                         IF n = 0 THEN <<>>
                         ELSE IF q[n] \in S THEN Append(f[n - 1], q[n])
                         ELSE f[n - 1]]
           kept == CHOOSE f : f = body(f)
           h == [p \in (1..N) \X Seq(A) |->
                   IF q[p[1]] \in S THEN Append(p[2], q[p[1]]) ELSE p[2]]
<1>1. Filtered(q, S) = kept[N]
  BY DEF Filtered
<1>2. N \in Nat /\ \A n \in 1..N : q[n] \in A
  OBVIOUS
<1>3. <<>> \in Seq(A)
  OBVIOUS
<1>4. \A n \in 1..N, s \in Seq(A) :
         /\ h[<<n, s>>] = IF q[n] \in S THEN Append(s, q[n]) ELSE s
         /\ h[<<n, s>>] \in Seq(A)
  BY <1>2, AppendProperties
<1>5. h \in [(1..N) \X Seq(A) -> Seq(A)]
  BY <1>2, AppendProperties
<1> HIDE DEF h
<1>6. PICK g \in [0..N -> Seq(A)] : Recursive(g, <<>>, h, N)
  BY <1>2, <1>3, <1>5, RecursionUpTo
<1>7. ASSUME NEW n \in 0..N, n # 0
      PROVE  n \in 1..N /\ n - 1 \in 0..N
  BY <1>7, <1>2
<1>8. ASSUME NEW n \in 0..N
      PROVE  g[n] = IF n = 0 THEN <<>>
                    ELSE IF q[n] \in S THEN Append(g[n - 1], q[n])
                    ELSE g[n - 1]
  <2>1. g[n] = IF n = 0 THEN <<>> ELSE h[<<n, g[n - 1]>>]
    BY <1>6 DEF Recursive
  <2> QED BY <2>1, <1>4, <1>7
<1>9. g = body(g)
  BY <1>6, <1>8
<1>10. kept = body(kept)
  <2> HIDE DEF body
  <2> QED BY <1>9
<1> HIDE DEF kept
<1>11. \A n \in 0..N : kept[n] = g[n]
  <2> DEFINE T == {n \in Nat : kept[n] = g[n]}
  <2>1. \A n \in 0..N :
           kept[n] = IF n = 0 THEN <<>>
                     ELSE IF q[n] \in S THEN Append(kept[n - 1], q[n])
                     ELSE kept[n - 1]
    BY <1>10
  <2>2. 0 \in T
    BY <2>1, <1>8, <1>2
  <2>3. ASSUME NEW n \in 0..N, n \in T, n < N PROVE n + 1 \in T
    <3>1. n + 1 \in 0..N /\ n + 1 # 0 /\ (n + 1) - 1 = n
      BY <2>3, <1>2
    <3>2. kept[n + 1] = IF q[n + 1] \in S THEN Append(kept[n], q[n + 1])
                        ELSE kept[n]
      BY <3>1, <2>1
    <3>3. g[n + 1] = IF q[n + 1] \in S THEN Append(g[n], q[n + 1]) ELSE g[n]
      BY <3>1, <1>8
    <3> QED BY <3>1, <3>2, <3>3, <2>3
  <2> HIDE DEF T
  <2>4. \A n \in 0..N : n \in T
    BY <2>2, <2>3, <1>2, InductionUpTo
  <2> QED BY <2>4 DEF T
<1>12. \A n \in 1..N : n \in 0..N /\ n # 0
  OBVIOUS
<1>13. g[0] = <<>> /\ N \in 0..N
  BY <1>2, <1>8
<1>14. ASSUME NEW n \in 1..N
       PROVE  g[n] = IF q[n] \in S THEN Append(g[n - 1], q[n]) ELSE g[n - 1]
  BY <1>8, <1>12
<1>15. FilterSteps(g, q, S)
  BY <1>13, <1>14 DEF FilterSteps
<1>16. Filtered(q, S) = g[N]
  BY <1>1, <1>11, <1>13
<1> QED BY <1>15, <1>16

\* Filtered keeps exactly the elements that are in S, and repeats none if the
\* sequence it is given repeats none.
LEMMA FilteredRange ==
    ASSUME NEW A, NEW q \in Seq(A), NEW S
    PROVE  /\ Filtered(q, S) \in Seq(A)
           /\ Range(Filtered(q, S)) = Range(q) \cap S
           /\ NoRepeat(q) => NoRepeat(Filtered(q, S))
<1> DEFINE N == Len(q)
           upTo(n) == {q[i] : i \in 1..n}
<1>1. N \in Nat /\ DOMAIN q = 1..N /\ \A n \in 1..N : q[n] \in A
  OBVIOUS
<1>2. PICK kept \in [0..N -> Seq(A)] :
          Filtered(q, S) = kept[N] /\ FilterSteps(kept, q, S)
  BY FilteredStep
<1>3. /\ Filtered(q, S) = kept[N] /\ kept[0] = <<>>
      /\ \A n \in 1..N :
            kept[n] = IF q[n] \in S THEN Append(kept[n - 1], q[n])
                      ELSE kept[n - 1]
  BY <1>2 DEF FilterSteps
<1> DEFINE T == {n \in 0..N : /\ Range(kept[n]) = upTo(n) \cap S
                              /\ NoRepeat(q) => NoRepeat(kept[n])}
<1>4. 0 \in T
  BY <1>1, <1>3, RangeType
<1>5. ASSUME NEW n \in 0..N, n \in T, n < N PROVE n + 1 \in T
  <2>1. n + 1 \in 0..N /\ n + 1 \in 1..N /\ q[n + 1] \in A
        /\ kept[n] \in Seq(A)
    BY <1>1, <1>5
  <2>2. kept[n + 1] = IF q[n + 1] \in S THEN Append(kept[n], q[n + 1])
                      ELSE kept[n]
    <3>1. (n + 1) - 1 = n
      OBVIOUS
    <3> QED BY <2>1, <3>1, <1>3
  <2>3. upTo(n + 1) = upTo(n) \cup {q[n + 1]}
    <3>1. \A i \in 1..(n + 1) : i \in 1..n \/ i = n + 1
      OBVIOUS
    <3>2. n + 1 \in 1..(n + 1) /\ \A i \in 1..n : i \in 1..(n + 1)
      OBVIOUS
    <3> QED BY <3>1, <3>2
  <2>4. Range(kept[n + 1]) = upTo(n + 1) \cap S
    <3>1. CASE q[n + 1] \in S
      BY <3>1, <2>1, <2>2, <2>3, <1>5, RangeAppend
    <3>2. CASE q[n + 1] \notin S
      BY <3>2, <2>2, <2>3, <1>5
    <3> QED BY <3>1, <3>2
  <2>5. ASSUME NoRepeat(q) PROVE NoRepeat(kept[n + 1])
    <3>1. q[n + 1] \notin upTo(n)
      <4>1. \A i \in 1..n : i \in 1..Len(q) /\ n + 1 \in 1..Len(q) /\ i # n + 1
        BY <2>1, <1>1
      <4> QED BY <4>1, <2>5 DEF NoRepeat
    <3>2. q[n + 1] \notin Range(kept[n])
      BY <3>1, <1>5
    <3> QED BY <3>2, <2>1, <2>2, <2>5, <1>5, NoRepeatAppend
  <2> QED BY <2>1, <2>4, <2>5
<1>6. \A n \in 0..N : n \in T
  <2> HIDE DEF T
  <2> QED BY <1>1, <1>4, <1>5, InductionUpTo
<1>7. upTo(N) = Range(q)
  BY <1>1 DEF Range
<1> HIDE DEF upTo
<1> QED BY <1>1, <1>3, <1>6, <1>7

\* An element after two lists in a row is an element after the second one.
AppendsToLast(A) ==
    \A u \in Seq(A), v \in Seq(A), x \in A : Append(u \o v, x) = u \o Append(v, x)

\* Concatenation is associative for a last element.
LEMMA ConcatAppend == ASSUME NEW A PROVE AppendsToLast(A)
BY DEF AppendsToLast

\* The elements of two lists in a row, of one element, and without the first.
LEMMA FilteredConcat ==
    ASSUME NEW A, NEW p \in Seq(A), NEW q \in Seq(A), NEW S
    PROVE  /\ Filtered(p \o q, S) = Filtered(p, S) \o Filtered(q, S)
           /\ Filtered(<<>>, S) = <<>>
<1> DEFINE r == p \o q  m == Len(p)  n == Len(q)
<1>1. /\ r \in Seq(A) /\ Len(r) = m + n /\ m \in Nat /\ n \in Nat
      /\ \A i \in 1..(m + n) : r[i] = IF i <= m THEN p[i] ELSE q[i - m]
  BY ConcatProperties
<1>2. (\A i \in 1..m : p[i] \in A) /\ (\A i \in 1..n : q[i] \in A)
  OBVIOUS
<1> HIDE DEF r
<1>3. PICK a \in [0..m -> Seq(A)] : Filtered(p, S) = a[m] /\ FilterSteps(a, p, S)
  BY FilteredStep
<1>4. PICK b \in [0..n -> Seq(A)] : Filtered(q, S) = b[n] /\ FilterSteps(b, q, S)
  BY FilteredStep
<1>5. PICK c \in [0..(m + n) -> Seq(A)] :
          Filtered(r, S) = c[m + n] /\ FilterSteps(c, r, S)
  BY FilteredStep, <1>1
<1>6. /\ a[0] = <<>>
      /\ \A i \in 1..m : a[i] = IF p[i] \in S THEN Append(a[i - 1], p[i]) ELSE a[i - 1]
  BY <1>3 DEF FilterSteps
<1>7. /\ b[0] = <<>>
      /\ \A i \in 1..n : b[i] = IF q[i] \in S THEN Append(b[i - 1], q[i]) ELSE b[i - 1]
  BY <1>4 DEF FilterSteps
<1>8. /\ c[0] = <<>>
      /\ \A i \in 1..(m + n) :
            c[i] = IF r[i] \in S THEN Append(c[i - 1], r[i]) ELSE c[i - 1]
  BY <1>1, <1>5 DEF FilterSteps
<1>9. m \in Nat /\ n \in Nat
  OBVIOUS
<1> HIDE DEF m, n
<1>10. a[m] \in Seq(A) /\ \A k \in 0..n : b[k] \in Seq(A)
  BY <1>9
<1>11. \A k \in 0..m : c[k] = a[k]
  <2> DEFINE T == {k \in Nat : c[k] = a[k]}
  <2>1. 0 \in T
    BY <1>6, <1>8
  <2>2. ASSUME NEW k \in 0..m, k \in T, k < m PROVE k + 1 \in T
    <3>1. /\ k + 1 \in 1..m /\ k + 1 \in 1..(m + n) /\ (k + 1) - 1 = k
          /\ k + 1 <= m
      BY <2>2, <1>9
    <3>2. r[k + 1] = p[k + 1]
      BY <3>1, <1>1
    <3>3. /\ c[k + 1] = IF r[k + 1] \in S THEN Append(c[k], r[k + 1]) ELSE c[k]
          /\ a[k + 1] = IF p[k + 1] \in S THEN Append(a[k], p[k + 1]) ELSE a[k]
      BY <3>1, <1>6, <1>8
    <3> QED BY <3>1, <3>2, <3>3, <2>2
  <2> HIDE DEF T
  <2>3. \A k \in 0..m : k \in T
    BY <2>1, <2>2, <1>1, InductionUpTo
  <2> QED BY <2>3 DEF T
<1>12. \A k \in 0..n : c[m + k] = a[m] \o b[k]
  <2> DEFINE T == {k \in Nat : c[m + k] = a[m] \o b[k]}
  <2>1. 0 \in T
    <3>1. m \in 0..m /\ m + 0 = m
      BY <1>9
    <3>2. a[m] \o <<>> = a[m]
      BY <1>10, ConcatEmptySeq
    <3> QED BY <3>1, <3>2, <1>7, <1>11
  <2>2. ASSUME NEW k \in 0..n, k \in T, k < n PROVE k + 1 \in T
    <3>1. /\ k + 1 \in 1..n /\ m + (k + 1) \in 1..(m + n)
          /\ (m + (k + 1)) - 1 = m + k /\ (k + 1) - 1 = k
          /\ ~(m + (k + 1) <= m) /\ (m + (k + 1)) - m = k + 1
      BY <2>2, <1>1
    <3>2. r[m + (k + 1)] = q[k + 1] /\ q[k + 1] \in A
      BY <3>1, <1>1, <1>2
    <3>3. c[m + (k + 1)] = IF q[k + 1] \in S THEN Append(c[m + k], q[k + 1])
                           ELSE c[m + k]
      BY <3>1, <3>2, <1>8
    <3>4. b[k + 1] = IF q[k + 1] \in S THEN Append(b[k], q[k + 1]) ELSE b[k]
      BY <3>1, <1>7
    <3>5. c[m + k] = a[m] \o b[k] /\ b[k] \in Seq(A)
      BY <2>2, <1>10
    <3>6. Append(a[m] \o b[k], q[k + 1]) = a[m] \o Append(b[k], q[k + 1])
      <4>1. a[m] \in Seq(A) /\ b[k] \in Seq(A) /\ q[k + 1] \in A
        BY <1>10, <3>2, <3>5
      <4>2. AppendsToLast(A)
        BY ConcatAppend, Zenon
      <4> QED BY <4>1, <4>2, Zenon DEF AppendsToLast
    <3>7. c[m + (k + 1)] = a[m] \o b[k + 1]
      BY <3>3, <3>4, <3>5, <3>6
    <3>8. k + 1 \in Nat
      BY <2>2
    <3> QED BY <3>7, <3>8
  <2> HIDE DEF T
  <2>3. \A k \in 0..n : k \in T
    BY <2>1, <2>2, <1>1, InductionUpTo
  <2> QED BY <2>3 DEF T
<1>13. Filtered(<<>>, S) = <<>>
  <2>1. <<>> \in Seq(A) /\ Len(<<>>) = 0
    OBVIOUS
  <2>2. \E e \in [0..Len(<<>>) -> Seq(A)] :
           Filtered(<<>>, S) = e[Len(<<>>)] /\ FilterSteps(e, <<>>, S)
    BY <2>1, FilteredStep
  <2> QED BY <2>1, <2>2 DEF FilterSteps
<1>14. n \in 0..n /\ m \in 0..m
  BY <1>1
<1> QED BY <1>1, <1>3, <1>4, <1>5, <1>12, <1>13, <1>14 DEF r, m, n

\* Filtering, one element at a time, from either end.
LEMMA FilteredFew ==
    ASSUME NEW A, NEW S
    PROVE  /\ \A x \in A : Filtered(<<x>>, S) = IF x \in S THEN <<x>> ELSE <<>>
           /\ \A q \in Seq(A), x \in A :
                 Filtered(Append(q, x), S) = IF x \in S THEN Append(Filtered(q, S), x)
                                             ELSE Filtered(q, S)
           /\ \A q \in Seq(A) : q # <<>> =>
                 Filtered(q, S) = IF Head(q) \in S
                                  THEN <<Head(q)>> \o Filtered(Tail(q), S)
                                  ELSE Filtered(Tail(q), S)
<1>1. ASSUME NEW x \in A PROVE Filtered(<<x>>, S) = IF x \in S THEN <<x>> ELSE <<>>
  <2>1. <<x>> \in Seq(A) /\ Len(<<x>>) = 1 /\ <<x>>[1] = x
    OBVIOUS
  <2>2. PICK e \in [0..1 -> Seq(A)] : Filtered(<<x>>, S) = e[1] /\ FilterSteps(e, <<x>>, S)
    BY <2>1, FilteredStep
  <2>3. e[0] = <<>> /\ e[1] = IF x \in S THEN Append(e[0], x) ELSE e[0]
    <3>1. 1 \in 1..Len(<<x>>) /\ 1 - 1 = 0
      BY <2>1
    <3> QED BY <2>1, <2>2, <3>1 DEF FilterSteps
  <2>4. Append(<<>>, x) = <<x>>
    OBVIOUS
  <2> QED BY <2>2, <2>3, <2>4
<1>2. ASSUME NEW q \in Seq(A), NEW x \in A
      PROVE  Filtered(Append(q, x), S) = IF x \in S THEN Append(Filtered(q, S), x)
                                         ELSE Filtered(q, S)
  <2>1. Filtered(q, S) \in Seq(A) /\ <<x>> \in Seq(A)
    BY FilteredRange
  <2>2. Append(q, x) = q \o <<x>>
    BY AppendIsConcat
  <2>3. Filtered(q \o <<x>>, S) = Filtered(q, S) \o Filtered(<<x>>, S)
    <3> DEFINE z == <<x>>
    <3>1. z \in Seq(A)
      BY <2>1
    <3> HIDE DEF z
    <3>2. Filtered(q \o z, S) = Filtered(q, S) \o Filtered(z, S)
      BY <3>1, FilteredConcat
    <3> QED BY <3>2 DEF z
  <2>4. Append(Filtered(q, S), x) = Filtered(q, S) \o <<x>>
    BY <2>1, AppendIsConcat
  <2>5. Filtered(q, S) \o <<>> = Filtered(q, S)
    BY <2>1, ConcatEmptySeq
  <2> QED BY <1>1, <2>2, <2>3, <2>4, <2>5
<1>3. ASSUME NEW q \in Seq(A), q # <<>>
      PROVE  Filtered(q, S) = IF Head(q) \in S THEN <<Head(q)>> \o Filtered(Tail(q), S)
                              ELSE Filtered(Tail(q), S)
  <2>1. /\ Head(q) \in A /\ Tail(q) \in Seq(A) /\ <<Head(q)>> \in Seq(A)
        /\ q = <<Head(q)>> \o Tail(q)
    BY <1>3
  <2>2. Filtered(<<Head(q)>> \o Tail(q), S)
          = Filtered(<<Head(q)>>, S) \o Filtered(Tail(q), S)
    <3> DEFINE z == <<Head(q)>>  r == Tail(q)
    <3>1. z \in Seq(A) /\ r \in Seq(A)
      BY <2>1
    <3> HIDE DEF z, r
    <3>2. Filtered(z \o r, S) = Filtered(z, S) \o Filtered(r, S)
      BY <3>1, FilteredConcat
    <3> QED BY <3>2 DEF z, r
  <2>3. Filtered(Tail(q), S) \in Seq(A)
    BY <2>1, FilteredRange
  <2>4. <<>> \o Filtered(Tail(q), S) = Filtered(Tail(q), S)
    BY <2>3, ConcatEmptySeq
  <2> QED BY <1>1, <2>1, <2>2, <2>4
<1> QED BY <1>1, <1>2, <1>3

\* Two sequences with the same elements.
LEMMA SameSequence ==
    ASSUME NEW S, NEW p \in Seq(S), NEW q \in Seq(S), Len(p) = Len(q),
           \A i \in 1..Len(p) : p[i] = q[i]
    PROVE  p = q
OBVIOUS

----------------------------------------------------------------------------
(* Sums.                                                                   *)

SumSteps(sum, q) ==
    /\ sum[0] = 0
    /\ \A n \in 1..Len(q) : sum[n] = sum[n - 1] + q[n]

\* What the recursive definition in SumSeq computes, one element at a time.
LEMMA SumStep ==
    ASSUME NEW q \in Seq(Int)
    PROVE  \E sum \in [0..Len(q) -> Int] :
              SumSeq(q) = sum[Len(q)] /\ SumSteps(sum, q)
<1> DEFINE N == Len(q)
           body(f) == [n \in 0..N |-> IF n = 0 THEN 0 ELSE f[n - 1] + q[n]]
           sum == CHOOSE f : f = body(f)
           h == [p \in (1..N) \X Int |-> p[2] + q[p[1]]]
<1>1. SumSeq(q) = sum[N]
  BY DEF SumSeq
<1>2. N \in Nat /\ \A n \in 1..N : q[n] \in Int
  OBVIOUS
<1>3. h \in [(1..N) \X Int -> Int]
  BY <1>2
<1>4. \A n \in 1..N, s \in Int : h[<<n, s>>] = s + q[n]
  OBVIOUS
<1> HIDE DEF h
<1> HIDE DEF N
<1>5. PICK g \in [0..N -> Int] : Recursive(g, 0, h, N)
  BY <1>2, <1>3, 0 \in Int, RecursionUpTo
<1>6. ASSUME NEW n \in 0..N, n # 0
      PROVE  n \in 1..N /\ n - 1 \in 0..N
  BY <1>6, <1>2
<1>7. ASSUME NEW n \in 0..N
      PROVE  g[n] = IF n = 0 THEN 0 ELSE g[n - 1] + q[n]
  <2>1. g[n] = IF n = 0 THEN 0 ELSE h[<<n, g[n - 1]>>]
    BY <1>5 DEF Recursive
  <2> QED BY <2>1, <1>4, <1>6
<1>8. g = body(g)
  BY <1>5, <1>7
<1>9. sum = body(sum)
  <2> HIDE DEF body
  <2> QED BY <1>8
<1> HIDE DEF sum
<1>10. \A n \in 0..N : sum[n] = g[n]
  <2> DEFINE T == {n \in Nat : sum[n] = g[n]}
  <2>1. \A n \in 0..N : sum[n] = IF n = 0 THEN 0 ELSE sum[n - 1] + q[n]
    BY <1>9
  <2>2. 0 \in T
    BY <2>1, <1>7, <1>2
  <2>3. ASSUME NEW n \in 0..N, n \in T, n < N PROVE n + 1 \in T
    <3>1. n + 1 \in 0..N /\ n + 1 # 0 /\ (n + 1) - 1 = n
      BY <2>3, <1>2
    <3>2. sum[n + 1] = sum[n] + q[n + 1] /\ g[n + 1] = g[n] + q[n + 1]
      BY <3>1, <2>1, <1>7
    <3> QED BY <3>1, <3>2, <2>3
  <2> HIDE DEF T
  <2>4. \A n \in 0..N : n \in T
    BY <2>2, <2>3, <1>2, InductionUpTo
  <2> QED BY <2>4 DEF T
<1>11. \A n \in 1..N : n \in 0..N /\ n # 0
  OBVIOUS
<1>12. g[0] = 0 /\ N \in 0..N
  BY <1>2, <1>7
<1>13. ASSUME NEW n \in 1..N PROVE g[n] = g[n - 1] + q[n]
  BY <1>7, <1>11
<1>14. SumSteps(g, q)
  BY <1>12, <1>13 DEF SumSteps, N
<1>15. SumSeq(q) = g[N]
  BY <1>1, <1>10, <1>12
<1> QED BY <1>14, <1>15 DEF N

\* The sum of an empty sequence, and of one cut in two.
LEMMA SumConcat ==
    ASSUME NEW p \in Seq(Int), NEW q \in Seq(Int)
    PROVE  /\ SumSeq(p \o q) = SumSeq(p) + SumSeq(q)
           /\ SumSeq(p) \in Int /\ SumSeq(<<>>) = 0
<1> DEFINE r == p \o q  m == Len(p)  n == Len(q)
<1>1. /\ r \in Seq(Int) /\ Len(r) = m + n /\ m \in Nat /\ n \in Nat
      /\ \A i \in 1..(m + n) : r[i] = IF i <= m THEN p[i] ELSE q[i - m]
  BY ConcatProperties
<1>8. \A i \in 1..m : p[i] \in Int
  OBVIOUS
<1>9. \A i \in 1..n : q[i] \in Int
  OBVIOUS
<1> HIDE DEF r
<1>2. PICK a \in [0..m -> Int] : SumSeq(p) = a[m] /\ SumSteps(a, p)
  BY SumStep
<1>3. PICK b \in [0..n -> Int] : SumSeq(q) = b[n] /\ SumSteps(b, q)
  BY SumStep
<1>4. PICK c \in [0..(m + n) -> Int] : SumSeq(r) = c[m + n] /\ SumSteps(c, r)
  BY SumStep, <1>1
<1>5. a[0] = 0 /\ \A i \in 1..m : a[i] = a[i - 1] + p[i]
  BY <1>2 DEF SumSteps
<1>6. b[0] = 0 /\ \A i \in 1..n : b[i] = b[i - 1] + q[i]
  BY <1>3 DEF SumSteps
<1>7. c[0] = 0 /\ \A i \in 1..(m + n) : c[i] = c[i - 1] + r[i]
  BY <1>1, <1>4 DEF SumSteps
<1>14. m \in Nat /\ n \in Nat
  OBVIOUS
<1> HIDE DEF m, n
<1>15. a[m] \in Int /\ \A k \in 0..n : b[k] \in Int
  BY <1>14
<1>10. \A k \in 0..m : c[k] = a[k]
  <2> DEFINE T == {k \in Nat : c[k] = a[k]}
  <2>1. 0 \in T
    BY <1>5, <1>7
  <2>2. ASSUME NEW k \in 0..m, k \in T, k < m PROVE k + 1 \in T
    <3>1. /\ k + 1 \in 1..m /\ k + 1 \in 1..(m + n) /\ (k + 1) - 1 = k
          /\ k + 1 <= m
      BY <2>2, <1>14
    <3>2. r[k + 1] = p[k + 1]
      BY <3>1, <1>1
    <3>3. c[k + 1] = c[k] + r[k + 1] /\ a[k + 1] = a[k] + p[k + 1]
      BY <3>1, <1>5, <1>7
    <3> QED BY <3>1, <3>2, <3>3, <2>2
  <2> HIDE DEF T
  <2>3. \A k \in 0..m : k \in T
    BY <2>1, <2>2, <1>1, InductionUpTo
  <2> QED BY <2>3 DEF T
<1>11. \A k \in 0..n : c[m + k] = a[m] + b[k]
  <2> DEFINE T == {k \in Nat : c[m + k] = a[m] + b[k]}
  <2>1. 0 \in T
    <3>1. m \in 0..m /\ m + 0 = m
      BY <1>14
    <3> QED BY <3>1, <1>6, <1>10, <1>15
  <2>2. ASSUME NEW k \in 0..n, k \in T, k < n PROVE k + 1 \in T
    <3>1. /\ k + 1 \in 1..n /\ m + (k + 1) \in 1..(m + n)
          /\ (m + (k + 1)) - 1 = m + k /\ (k + 1) - 1 = k
          /\ ~(m + (k + 1) <= m) /\ (m + (k + 1)) - m = k + 1
      BY <2>2, <1>1
    <3>2. r[m + (k + 1)] = q[k + 1]
      BY <3>1, <1>1
    <3>3. c[m + (k + 1)] = c[m + k] + r[m + (k + 1)]
      BY <3>1, <1>7
    <3>4. b[k + 1] = b[k] + q[k + 1]
      BY <3>1, <1>6
    <3>5. a[m] \in Int /\ b[k] \in Int /\ q[k + 1] \in Int
      BY <3>1, <1>15, <1>9
    <3>6. c[m + (k + 1)] = (a[m] + b[k]) + q[k + 1]
      BY <3>2, <3>3, <2>2
    <3>7. c[m + (k + 1)] = a[m] + b[k + 1]
      BY ONLY <3>4, <3>5, <3>6
    <3>8. k + 1 \in Nat
      BY <2>2
    <3> QED BY <3>7, <3>8
  <2> HIDE DEF T
  <2>3. \A k \in 0..n : k \in T
    BY <2>1, <2>2, <1>1, InductionUpTo
  <2> QED BY <2>3 DEF T
<1>12. SumSeq(<<>>) = 0
  <2>1. <<>> \in Seq(Int) /\ Len(<<>>) = 0
    OBVIOUS
  <2>2. \E e \in [0..Len(<<>>) -> Int] : SumSeq(<<>>) = e[Len(<<>>)] /\ SumSteps(e, <<>>)
    BY <2>1, SumStep
  <2> QED BY <2>1, <2>2 DEF SumSteps
<1>13. n \in 0..n /\ m \in 0..m
  BY <1>1
<1> QED BY <1>1, <1>2, <1>3, <1>4, <1>11, <1>12, <1>13 DEF r, m, n

\* The sum of one element, and of a sequence without its first.
LEMMA SumTail ==
    /\ \A x \in Int : SumSeq(<<x>>) = x
    /\ \A q \in Seq(Int) : q # <<>> => SumSeq(q) = Head(q) + SumSeq(Tail(q))
<1>1. ASSUME NEW x \in Int PROVE SumSeq(<<x>>) = x
  <2>1. <<x>> \in Seq(Int) /\ Len(<<x>>) = 1 /\ <<x>>[1] = x
    OBVIOUS
  <2>2. PICK s \in [0..1 -> Int] : SumSeq(<<x>>) = s[1] /\ SumSteps(s, <<x>>)
    BY <2>1, SumStep
  <2>3. s[0] = 0 /\ s[1] = s[1 - 1] + x
    BY <2>1, <2>2 DEF SumSteps
  <2> QED BY <2>2, <2>3
<1>2. ASSUME NEW q \in Seq(Int), q # <<>>
      PROVE  SumSeq(q) = Head(q) + SumSeq(Tail(q))
  <2>1. /\ Head(q) \in Int /\ Tail(q) \in Seq(Int) /\ <<Head(q)>> \in Seq(Int)
        /\ q = <<Head(q)>> \o Tail(q)
    BY <1>2
  <2>2. SumSeq(<<Head(q)>> \o Tail(q)) = SumSeq(<<Head(q)>>) + SumSeq(Tail(q))
    BY <2>1, SumConcat
  <2> QED BY <1>1, <2>1, <2>2
<1> QED BY <1>1, <1>2

\* A sum of positive numbers.
LEMMA SumPositive ==
    ASSUME NEW q \in Seq(Int), \A i \in DOMAIN q : q[i] >= 1
    PROVE  SumSeq(q) \in Nat /\ SumSeq(q) >= Len(q)
<1> DEFINE N == Len(q)
<1>1. N \in Nat /\ \A n \in 1..N : q[n] \in Int /\ q[n] >= 1
  OBVIOUS
<1>2. PICK s \in [0..N -> Int] : SumSeq(q) = s[N] /\ SumSteps(s, q)
  BY SumStep
<1>3. s[0] = 0 /\ \A n \in 1..N : s[n] = s[n - 1] + q[n]
  BY <1>2 DEF SumSteps
<1> HIDE DEF N
<1> DEFINE T == {n \in Nat : s[n] \in Int /\ s[n] >= n}
<1>4. 0 \in T
  BY <1>3
<1>5. ASSUME NEW n \in 0..N, n \in T, n < N PROVE n + 1 \in T
  <2>1. n + 1 \in 1..N /\ (n + 1) - 1 = n
    BY <1>1, <1>5
  <2>2. s[n + 1] = s[n] + q[n + 1]
    BY <1>3, <2>1
  <2> QED BY <1>1, <1>5, <2>1, <2>2
<1> HIDE DEF T
<1>6. \A n \in 0..N : n \in T
  BY <1>1, <1>4, <1>5, InductionUpTo
<1>7. N \in T
  BY <1>1, <1>6
<1>8. s[N] \in Int /\ s[N] >= N
  BY <1>7 DEF T
<1> QED BY <1>1, <1>2, <1>8 DEF N

\* Induction on the subsets of a finite set.
LEMMA InductionOnSubsets ==
    ASSUME NEW S, IsFiniteSet(S), NEW F, {} \in F,
           \A T \in SUBSET S : \A x \in S \ T : T \in F => T \cup {x} \in F
    PROVE  S \in F
<1> DEFINE U == {n \in Nat : \A T \in SUBSET S : Cardinality(T) = n => T \in F}
<1>1. \A T \in SUBSET S : IsFiniteSet(T) /\ Cardinality(T) \in Nat
  BY FS_Subset, FS_CardinalityType
<1>2. 0 \in U
  <2>1. \A T \in SUBSET S : Cardinality(T) = 0 => T = {}
    BY <1>1, FS_EmptySet
  <2> QED BY <2>1
<1>3. ASSUME NEW n \in Nat, n \in U PROVE n + 1 \in U
  <2>1. ASSUME NEW T \in SUBSET S, Cardinality(T) = n + 1 PROVE T \in F
    <3>1. T # {}
      <4>1. Cardinality({}) = 0
        BY FS_EmptySet
      <4> QED BY <2>1, <4>1
    <3>2. PICK x \in T : TRUE
      BY <3>1
    <3> DEFINE R == T \ {x}
    <3>3. R \in SUBSET S /\ Cardinality(R) = n
      <4>1. Cardinality(T \ {x}) = Cardinality(T) - 1
        BY <1>1, FS_RemoveElement
      <4> QED BY <2>1, <4>1
    <3>4. R \in F
      BY <1>3, <3>3
    <3>5. x \in S \ R /\ R \cup {x} = T
      OBVIOUS
    <3> HIDE DEF R
    <3>6. R \cup {x} \in F
      BY <3>3, <3>4, <3>5
    <3> QED BY <3>5, <3>6
  <2> QED BY <2>1
<1> HIDE DEF U
<1>4. Cardinality(S) \in U
  BY <1>1, <1>2, <1>3, InductionOnNat
<1> QED BY <1>4 DEF U

\* The sums of f over the subsets of S: what the folds of the community modules
\* compute, an element at a time and in whatever order CHOOSE picks them.
SumBody(f, S, it) ==
    [s \in SUBSET S |-> IF s = {} THEN 0
                        ELSE f[CHOOSE x \in s : TRUE] + it[s \ {CHOOSE x \in s : TRUE}]]
Sums(f, S) == CHOOSE it : it = SumBody(f, S, it)

\* There are such sums.
LEMMA SumsExist ==
    ASSUME NEW S, IsFiniteSet(S), NEW f \in [S -> Int]
    PROVE  Sums(f, S) = SumBody(f, S, Sums(f, S))
<1> DEFINE V == [SUBSET S -> Int]
           h == [p \in Nat \X V |-> SumBody(f, S, p[2])]
           zero == [s \in SUBSET S |-> 0]
           pick(s) == CHOOSE x \in s : TRUE
<1>1. \A s \in SUBSET S : s # {} => pick(s) \in s /\ f[pick(s)] \in Int
  OBVIOUS
<1>2. ASSUME NEW v \in V PROVE SumBody(f, S, v) \in V
  <2>1. ASSUME NEW s \in SUBSET S, s # {}
        PROVE  f[pick(s)] + v[s \ {pick(s)}] \in Int
    <3>1. s \ {pick(s)} \in SUBSET S
      OBVIOUS
    <3>2. v[s \ {pick(s)}] \in Int
      BY <3>1
    <3> QED BY <1>1, <2>1, <3>2
  <2> QED BY <2>1 DEF SumBody
<1>3. h \in [Nat \X V -> V] /\ zero \in V
  <2>1. zero \in V
    OBVIOUS
  <2> HIDE DEF V
  <2>2. h \in [Nat \X V -> V]
    BY <1>2
  <2> QED BY <2>1, <2>2
<1>4. \A n \in Nat, v \in V : h[<<n, v>>] = SumBody(f, S, v)
  OBVIOUS
<1> HIDE DEF h, V
<1>5. PICK F \in [Nat -> V] : Iterated(F, zero, h)
  BY <1>3, RecursionOnNat
<1>6. F[0] = zero /\ \A n \in Nat : F[n + 1] = SumBody(f, S, F[n])
  BY <1>4, <1>5 DEF Iterated
<1> DEFINE it == [s \in SUBSET S |-> F[Cardinality(s)][s]]
<1>7. \A s \in SUBSET S : IsFiniteSet(s) /\ Cardinality(s) \in Nat
  BY FS_Subset, FS_CardinalityType
<1>8. ASSUME NEW s \in SUBSET S
      PROVE  it[s] = IF s = {} THEN 0 ELSE f[pick(s)] + it[s \ {pick(s)}]
  <2>1. CASE s = {}
    BY <2>1, <1>6, FS_EmptySet
  <2>2. CASE s # {}
    <3> DEFINE r == s \ {pick(s)}
               k == Cardinality(r)
    <3>1. r \in SUBSET S /\ k \in Nat /\ Cardinality(s) = k + 1
      <4>1. Cardinality(s \ {pick(s)}) = Cardinality(s) - 1
        BY <1>1, <1>7, <2>2, FS_RemoveElement
      <4>2. r \in SUBSET S
        OBVIOUS
      <4> QED BY <1>7, <4>1, <4>2
    <3>2. F[k + 1][s] = f[pick(s)] + F[k][r]
      BY <1>6, <2>2, <3>1 DEF SumBody
    <3> HIDE DEF r, k
    <3>3. it[s] = F[k + 1][s] /\ it[r] = F[k][r]
      BY <3>1 DEF k
    <3> QED BY <2>2, <3>2, <3>3 DEF r
  <2> QED BY <2>1, <2>2
<1>9. it = SumBody(f, S, it)
  BY <1>8 DEF SumBody
<1> HIDE DEF it
<1> QED BY <1>9 DEF Sums

SummedUp(it, f, S) ==
    /\ it \in [SUBSET S -> Int] /\ it[{}] = 0
    /\ \A T \in SUBSET S : \A x \in T : it[T] = f[x] + it[T \ {x}]

\* The sum over a set is that of any one element and of the others.
LEMMA SumsStep ==
    ASSUME NEW S, IsFiniteSet(S), NEW f \in [S -> Int]
    PROVE  SummedUp(Sums(f, S), f, S)
<1> DEFINE it == Sums(f, S)
           pick(s) == CHOOSE x \in s : TRUE
           U == {n \in Nat : \A T \in SUBSET S : Cardinality(T) = n => it[T] \in Int}
           W == {n \in Nat : \A T \in SUBSET S : Cardinality(T) = n =>
                    \A x \in T : it[T] = f[x] + it[T \ {x}]}
<1>1. it = SumBody(f, S, it)
  BY SumsExist
<1> HIDE DEF it
<1>2. \A s \in SUBSET S : it[s] = IF s = {} THEN 0 ELSE f[pick(s)] + it[s \ {pick(s)}]
  BY <1>1 DEF SumBody
<1>3. \A s \in SUBSET S : IsFiniteSet(s) /\ Cardinality(s) \in Nat
  BY FS_Subset, FS_CardinalityType
<1>4. ASSUME NEW s \in SUBSET S, NEW x \in s
      PROVE  s \ {x} \in SUBSET S /\ Cardinality(s \ {x}) = Cardinality(s) - 1
  BY <1>3, FS_RemoveElement
<1>5. \A T \in SUBSET S : Cardinality(T) = 0 => T = {}
  BY <1>3, FS_EmptySet
<1>6. it[{}] = 0
  BY <1>2
<1>7. \A n \in Nat : \A T \in SUBSET S : Cardinality(T) = n + 1 => T # {}
  BY FS_EmptySet
<1>8. \A T \in SUBSET S : T # {} => pick(T) \in T /\ f[pick(T)] \in Int
  OBVIOUS
<1> HIDE DEF pick
<1>9. 0 \in U /\ 0 \in W
  BY <1>5, <1>6
<1>10. ASSUME NEW n \in Nat, n \in U PROVE n + 1 \in U
  <2>1. ASSUME NEW T \in SUBSET S, Cardinality(T) = n + 1 PROVE it[T] \in Int
    <3>1. pick(T) \in T /\ f[pick(T)] \in Int /\ it[T] = f[pick(T)] + it[T \ {pick(T)}]
      BY <1>2, <1>7, <1>8, <2>1
    <3>2. T \ {pick(T)} \in SUBSET S /\ Cardinality(T \ {pick(T)}) = n
      BY <1>4, <2>1, <3>1
    <3>3. it[T \ {pick(T)}] \in Int
      BY <1>10, <3>2
    <3> QED BY <3>1, <3>3
  <2> QED BY <2>1
<1>11. \A T \in SUBSET S : it[T] \in Int
  <2> HIDE DEF U
  <2>1. \A n \in Nat : n \in U
    BY <1>9, <1>10, InductionOnNat
  <2> QED BY <1>3, <2>1 DEF U
<1>12. ASSUME NEW n \in Nat, n \in W PROVE n + 1 \in W
  <2>1. ASSUME NEW T \in SUBSET S, Cardinality(T) = n + 1, NEW x \in T
        PROVE  it[T] = f[x] + it[T \ {x}]
    <3> DEFINE c == pick(T)
    <3>1. c \in T /\ f[c] \in Int /\ it[T] = f[c] + it[T \ {c}]
      BY <1>2, <1>7, <1>8, <2>1
    <3> HIDE DEF c
    <3>2. CASE x = c
      BY <3>1, <3>2
    <3>3. CASE x # c
      <4>1. /\ T \ {x} \in SUBSET S /\ Cardinality(T \ {x}) = n
            /\ T \ {c} \in SUBSET S /\ Cardinality(T \ {c}) = n
        BY <1>4, <2>1, <3>1
      <4>2. it[T \ {c}] = f[x] + it[(T \ {c}) \ {x}]
        BY <1>12, <3>3, <4>1
      <4>3. it[T \ {x}] = f[c] + it[(T \ {x}) \ {c}]
        BY <1>12, <3>1, <3>3, <4>1
      <4> DEFINE r == (T \ {x}) \ {c}
      <4>4. (T \ {c}) \ {x} = r /\ r \in SUBSET S
        OBVIOUS
      <4> HIDE DEF r
      <4>5. it[r] \in Int /\ f[x] \in Int
        BY <1>11, <4>4
      <4>6. it[T \ {c}] = f[x] + it[r] /\ it[T \ {x}] = f[c] + it[r]
        BY <4>2, <4>3, <4>4 DEF r
      <4> QED BY <3>1, <4>5, <4>6
    <3> QED BY <3>2, <3>3
  <2> QED BY <2>1
<1>13. \A T \in SUBSET S : \A x \in T : it[T] = f[x] + it[T \ {x}]
  <2> HIDE DEF W
  <2>1. \A n \in Nat : n \in W
    BY <1>9, <1>12, InductionOnNat
  <2> QED BY <1>3, <2>1 DEF W
<1>14. it \in [SUBSET S -> Int]
  BY <1>1, <1>11 DEF SumBody
<1> QED BY <1>6, <1>13, <1>14 DEF it, SummedUp

\* Changing one term changes the sum by the difference.
LEMMA SumsChange ==
    ASSUME NEW S, IsFiniteSet(S), NEW f \in [S -> Int], NEW g \in [S -> Int],
           NEW c \in S, \A x \in S \ {c} : f[x] = g[x]
    PROVE  /\ Sums(f, S)[S] \in Int
           /\ Sums(g, S)[S] = Sums(f, S)[S] - f[c] + g[c]
<1> DEFINE a == Sums(f, S)
           b == Sums(g, S)
           R == S \ {c}
           F == {T \in SUBSET R : a[T] = b[T]}
<1>1. /\ a \in [SUBSET S -> Int] /\ a[{}] = 0
      /\ \A T \in SUBSET S : \A x \in T : a[T] = f[x] + a[T \ {x}]
  <2>1. SummedUp(Sums(f, S), f, S)
    BY SumsStep
  <2> QED BY <2>1 DEF SummedUp
<1>2. /\ b \in [SUBSET S -> Int] /\ b[{}] = 0
      /\ \A T \in SUBSET S : \A x \in T : b[T] = g[x] + b[T \ {x}]
  <2>1. SummedUp(Sums(g, S), g, S)
    BY SumsStep
  <2> QED BY <2>1 DEF SummedUp
<1>3. IsFiniteSet(R)
  BY FS_RemoveElement
<1> HIDE DEF a, b
<1>4. {} \in F
  BY <1>1, <1>2
<1>5. ASSUME NEW T \in SUBSET R, NEW x \in R \ T, T \in F PROVE T \cup {x} \in F
  <2>1. T \cup {x} \in SUBSET S /\ x \in T \cup {x} /\ (T \cup {x}) \ {x} = T
    BY <1>5
  <2> DEFINE U == T \cup {x}
  <2>2. U \in SUBSET S /\ x \in U /\ U \ {x} = T
    BY <2>1
  <2> HIDE DEF U
  <2>3. a[U] = f[x] + a[T] /\ b[U] = g[x] + b[T]
    BY <1>1, <1>2, <2>2
  <2>4. f[x] = g[x] /\ a[T] = b[T]
    BY <1>5
  <2>5. a[U] = b[U] /\ U \in SUBSET R
    BY <1>5, <2>3, <2>4 DEF U
  <2> QED BY <2>5 DEF U
<1> HIDE DEF F
<1>6. R \in F
  BY <1>3, <1>4, <1>5, InductionOnSubsets
<1>7. a[R] = b[R] /\ R = S \ {c} /\ a[R] \in Int
  BY <1>1, <1>6 DEF F
<1>8. a[S] = f[c] + a[S \ {c}] /\ b[S] = g[c] + b[S \ {c}]
  BY <1>1, <1>2
<1>9. f[c] \in Int /\ g[c] \in Int
  OBVIOUS
<1> HIDE DEF R
<1>10. a[S] = f[c] + a[R] /\ b[S] = g[c] + a[R]
  BY <1>7, <1>8
<1> QED BY <1>7, <1>9, <1>10 DEF a, b

\* A sum of zeroes and ones lies between 0 and the number of terms; one of ones
\* is that number.
LEMMA SumsBounds ==
    ASSUME NEW S, IsFiniteSet(S), NEW f \in [S -> 0..1]
    PROVE  /\ Sums(f, S)[S] \in 0..Cardinality(S)
           /\ (\A x \in S : f[x] = 1) => Sums(f, S)[S] = Cardinality(S)
<1> DEFINE a == Sums(f, S)
           F == {T \in SUBSET S : /\ a[T] \in 0..Cardinality(T)
                                  /\ (\A x \in T : f[x] = 1) => a[T] = Cardinality(T)}
<1>1. /\ a \in [SUBSET S -> Int] /\ a[{}] = 0
      /\ \A T \in SUBSET S : \A x \in T : a[T] = f[x] + a[T \ {x}]
  <2>1. f \in [S -> Int]
    OBVIOUS
  <2>2. SummedUp(Sums(f, S), f, S)
    BY <2>1, SumsStep
  <2> QED BY <2>2 DEF SummedUp
<1> HIDE DEF a
<1>2. {} \in F
  <2>1. Cardinality({}) = 0
    BY FS_EmptySet
  <2> QED BY <1>1, <2>1
<1>3. ASSUME NEW T \in SUBSET S, NEW x \in S \ T, T \in F PROVE T \cup {x} \in F
  <2>1. T \cup {x} \in SUBSET S /\ (T \cup {x}) \ {x} = T
    BY <1>3
  <2>2. a[T \cup {x}] = f[x] + a[T]
    BY <1>1, <2>1
  <2>3. IsFiniteSet(T) /\ Cardinality(T) \in Nat
    BY FS_Subset, FS_CardinalityType
  <2>4. Cardinality(T \cup {x}) = Cardinality(T) + 1
    BY <2>3, FS_AddElement
  <2>5. f[x] \in 0..1 /\ a[T] \in 0..Cardinality(T)
    BY <1>3
  <2>6. a[T \cup {x}] \in 0..Cardinality(T \cup {x})
    BY <2>2, <2>3, <2>4, <2>5
  <2>7. (\A y \in T \cup {x} : f[y] = 1) => a[T \cup {x}] = Cardinality(T \cup {x})
    BY <1>3, <2>2, <2>3, <2>4
  <2> QED BY <2>1, <2>6, <2>7
<1> HIDE DEF F
<1>4. S \in F
  BY <1>2, <1>3, InductionOnSubsets
<1> QED BY <1>4 DEF F, a

\* A sequence without repetitions has as many elements as positions.
LEMMA RangeCardinality ==
    ASSUME NEW S, NEW q \in Seq(S)
    PROVE  /\ IsFiniteSet(Range(q))
           /\ NoRepeat(q) => Cardinality(Range(q)) = Len(q)
<1> DEFINE N == Len(q)
<1>1. N \in Nat /\ DOMAIN q = 1..N /\ q \in [1..N -> Range(q)]
  BY DEF Range
<1>2. \A y \in Range(q) : \E i \in 1..N : q[i] = y
  BY <1>1 DEF Range
<1> HIDE DEF N
<1>3. q \in Surjection(1..N, Range(q))
  BY <1>1, <1>2 DEF Surjection
<1>4. IsFiniteSet(1..N)
  BY <1>1, FS_Interval
<1>5. IsFiniteSet(Range(q))
  BY <1>3, <1>4, FS_Surjection
<1>6. ASSUME NoRepeat(q) PROVE Cardinality(Range(q)) = N
  <2>1. q \in Injection(1..N, Range(q))
    BY <1>1, <1>6 DEF Injection, IsInjective, NoRepeat
  <2>2. ExistsBijection(1..N, Range(q))
    BY <1>3, <2>1 DEF ExistsBijection, Bijection
  <2> QED BY <1>1, <2>2, FS_CountingElements
<1> QED BY <1>5, <1>6 DEF N

----------------------------------------------------------------------------
(* Definitions by recursion over a finite set without cycles.              *)

\* f is a solution on C of the equations that h gives, where the value at n
\* takes those at dep[n].
Solves(f, C, dep, h) ==
    \A n \in C : dep[n] \subseteq C /\ f[n] = h[<<n, f>>]

\* No value depends on itself: every non-empty set of points has one that depends
\* on none of the set.
NoCycle(D, dep) == \A S \in SUBSET D : S # {} => \E n \in S : dep[n] \cap S = {}

\* The equation at n looks at the values at dep[n] only.
Looks(D, V, dep, h) ==
    \A n \in D : \A f, g \in [D -> V] :
        (\A x \in dep[n] : f[x] = g[x]) => h[<<n, f>>] = h[<<n, g>>]

\* The equations have a solution with values in V.
Solved(D, V, h) == \E f \in [D -> V] : \A n \in D : f[n] = h[<<n, f>>]

\* Two solutions agree where both are.
LEMMA SolutionsAgree ==
    ASSUME NEW D, NEW V, NEW dep \in [D -> SUBSET D], NEW h, NoCycle(D, dep), Looks(D, V, dep, h),
           NEW B \in SUBSET D, NEW C \in SUBSET D, NEW f \in [D -> V], NEW g \in [D -> V],
           Solves(f, B, dep, h), Solves(g, C, dep, h)
    PROVE  \A n \in B \cap C : f[n] = g[n]
<1> DEFINE S == {n \in B \cap C : f[n] # g[n]}
<1>1. ASSUME S # {} PROVE FALSE
  <2>1. S \in SUBSET D
    OBVIOUS
  <2>2. PICK n \in S : dep[n] \cap S = {}
    BY <1>1, <2>1 DEF NoCycle
  <2>3. dep[n] \subseteq B \cap C /\ f[n] = h[<<n, f>>] /\ g[n] = h[<<n, g>>]
    BY DEF Solves
  <2>4. \A x \in dep[n] : f[x] = g[x]
    BY <2>2, <2>3
  <2>5. h[<<n, f>>] = h[<<n, g>>]
    BY <2>4 DEF Looks
  <2> QED BY <2>3, <2>5
<1> QED BY <1>1

\* A function defined by recursion along dep, which has no cycle, exists.
LEMMA RecursionOnTree ==
    ASSUME NEW D, NEW V, NEW v0 \in V, NEW dep \in [D -> SUBSET D],
           NEW h \in [D \X [D -> V] -> V], NoCycle(D, dep), Looks(D, V, dep, h)
    PROVE  Solved(D, V, h)
<1> DEFINE G == {C \in SUBSET D : \E f \in [D -> V] : Solves(f, C, dep, h)}
           U == UNION G
           fits(n, v) == \E C \in G : \E f \in [D -> V] : Solves(f, C, dep, h) /\ n \in C /\ v = f[n]
           F == [n \in D |-> IF n \in U THEN CHOOSE v \in V : fits(n, v) ELSE v0]
<1>1. \A n \in U : \E v \in V : fits(n, v)
  <2>1. ASSUME NEW n \in U PROVE \E v \in V : fits(n, v)
    <3>1. PICK C \in G : n \in C
      OBVIOUS
    <3>2. PICK f \in [D -> V] : Solves(f, C, dep, h)
      BY <3>1
    <3>3. f[n] \in V
      BY <3>1
    <3> QED BY <3>1, <3>2, <3>3
  <2> QED BY <2>1
<1>2. \A n \in D, v, y \in V : fits(n, v) /\ fits(n, y) => v = y
  <2>1. ASSUME NEW n \in D, NEW v \in V, NEW y \in V, fits(n, v), fits(n, y) PROVE v = y
    <3>1. PICK C \in G, f \in [D -> V] : Solves(f, C, dep, h) /\ n \in C /\ v = f[n]
      BY <2>1
    <3>2. PICK B \in G, g \in [D -> V] : Solves(g, B, dep, h) /\ n \in B /\ y = g[n]
      BY <2>1
    <3> QED BY <3>1, <3>2, SolutionsAgree
  <2> QED BY <2>1
<1>3. F \in [D -> V] /\ U \subseteq D
  BY <1>1
<1>4. ASSUME NEW C \in G, NEW f \in [D -> V], Solves(f, C, dep, h)
      PROVE  \A n \in C : F[n] = f[n]
  <2>1. ASSUME NEW n \in C PROVE F[n] = f[n]
    <3>1. n \in U /\ n \in D /\ f[n] \in V /\ fits(n, f[n])
      BY <1>4
    <3>2. F[n] \in V /\ fits(n, F[n])
      BY <1>1, <3>1
    <3> QED BY <1>2, <3>1, <3>2
  <2> QED BY <2>1
<1> HIDE DEF F, fits
<1>5. Solves(F, U, dep, h)
  <2>1. ASSUME NEW n \in U PROVE dep[n] \subseteq U /\ F[n] = h[<<n, F>>]
    <3>1. PICK C \in G : n \in C
      OBVIOUS
    <3>2. PICK f \in [D -> V] : Solves(f, C, dep, h)
      BY <3>1
    <3>3. dep[n] \subseteq C /\ f[n] = h[<<n, f>>]
      BY <3>1, <3>2 DEF Solves
    <3>4. (\A x \in dep[n] : F[x] = f[x]) /\ F[n] = f[n]
      BY <1>4, <3>1, <3>2, <3>3
    <3>5. h[<<n, F>>] = h[<<n, f>>]
      BY <1>3, <3>1, <3>4 DEF Looks
    <3> QED BY <3>1, <3>3, <3>4, <3>5
  <2> QED BY <2>1 DEF Solves
<1>6. ASSUME U # D PROVE FALSE
  <2>1. D \ U \in SUBSET D /\ D \ U # {}
    BY <1>3, <1>6
  <2>2. PICK n \in D \ U : dep[n] \cap (D \ U) = {}
    BY <2>1 DEF NoCycle
  <2>3. dep[n] \subseteq U /\ n \in D /\ n \notin U
    BY <2>2
  <2> DEFINE g == [F EXCEPT ![n] = h[<<n, F>>]]
             C == U \cup {n}
  <2>4. g \in [D -> V] /\ g[n] = h[<<n, F>>] /\ \A x \in U : g[x] = F[x]
    <3>1. h[<<n, F>>] \in V
      BY <1>3, <2>3
    <3> QED BY <1>3, <2>3, <3>1
  <2> HIDE DEF g
  <2>5. ASSUME NEW x \in C PROVE dep[x] \subseteq C /\ g[x] = h[<<x, g>>]
    <3>1. dep[x] \subseteq U /\ x \in D
      BY <1>3, <1>5, <2>3 DEF Solves
    <3>2. h[<<x, g>>] = h[<<x, F>>]
      <4>1. \A y \in dep[x] : g[y] = F[y]
        BY <2>4, <3>1
      <4> QED BY <1>3, <2>4, <3>1, <4>1 DEF Looks
    <3>3. g[x] = h[<<x, F>>]
      BY <1>5, <2>4 DEF Solves
    <3> QED BY <3>1, <3>2, <3>3
  <2>6. Solves(g, C, dep, h) /\ C \in SUBSET D
    BY <1>3, <2>3, <2>5 DEF Solves
  <2>7. C \in G
    BY <2>4, <2>6
  <2> QED BY <2>3, <2>7
<1>7. \A n \in D : F[n] = h[<<n, F>>]
  <2>1. U = D
    BY <1>6
  <2> HIDE DEF U
  <2> QED BY <1>5, <2>1 DEF Solves
<1> QED BY <1>3, <1>7 DEF Solved

----------------------------------------------------------------------------
(* The division of a range of numbers into slices of one length.           *)

\* A number between q * d and (q + 1) * d.
LEMMA Quotient ==
    ASSUME NEW a \in Int, NEW d \in Nat \ {0}, NEW q \in Int, q * d <= a, a < q * d + d
    PROVE  a \div d = q
<1>1. a \div d \in Int
  OBVIOUS
<1> DEFINE k == a \div d
<1>2. k * d <= a /\ a < k * d + d
  OBVIOUS
<1> HIDE DEF k
<1>3. k \in Int
  BY <1>1 DEF k
<1>4. ASSUME k < q PROVE FALSE
  <2>1. k + 1 <= q
    BY <1>3, <1>4
  <2>2. (k + 1) * d <= q * d
    BY <1>3, <2>1
  <2>3. (k + 1) * d = k * d + d
    BY <1>3
  <2> QED BY <1>2, <1>3, <2>2, <2>3
<1>5. ASSUME k > q PROVE FALSE
  <2>1. q + 1 <= k
    BY <1>3, <1>5
  <2>2. (q + 1) * d <= k * d
    BY <1>3, <2>1
  <2>3. (q + 1) * d = q * d + d
    BY <1>3
  <2> QED BY <1>2, <1>3, <2>2, <2>3
<1> QED BY <1>3, <1>4, <1>5 DEF k

\* A range of w numbers cut in len slices: the slices lie one after another.
LEMMA Slices ==
    ASSUME NEW w \in Nat, NEW len \in Nat \ {0}, NEW i \in 1..len
    PROVE  LET d == w \div len IN
           /\ d \in Nat /\ len * d <= w /\ (i - 1) * d \in Nat /\ i * d = (i - 1) * d + d
           /\ i * d <= len * d /\ i * d \in Nat
           /\ d >= 1 => w >= 1
           /\ \A j \in 1..len : j < i => j * d <= (i - 1) * d
<1> DEFINE d == w \div len
<1>1. d \in Nat /\ len * d <= w /\ (d >= 1 => w >= 1)
  OBVIOUS
<1> HIDE DEF d
<1>2. (i - 1) * d \in Nat /\ i * d = (i - 1) * d + d /\ i * d <= len * d /\ i * d \in Nat
  BY <1>1
<1>3. ASSUME NEW j \in 1..len, j < i PROVE j * d <= (i - 1) * d
  BY <1>1, <1>3
<1> QED BY <1>1, <1>2, <1>3 DEF d

=============================================================================
