------------------------------ MODULE Induction ------------------------------
(* What the proofs of the components share: induction over the natural      *)
(* numbers, stated of sets (the library's own theorems take an operator,    *)
(* with which no prover here instantiates them, except for the existence of *)
(* minimal elements, from which everything here follows), functions defined *)
(* by recursion, and sequences with one element taken out.                  *)
EXTENDS Integers, SequencesExt, SequenceTheorems, FiniteSetTheorems,
        WellFoundedInduction, TLAPS

LEMMA LeastElement ==
    ASSUME NEW T, T \subseteq Nat, T # {}
    PROVE  \E n \in T : \A m \in T : n <= m
<1> DEFINE R == OpToRel(<, Nat)
<1>1. IsWellFoundedOn(R, Nat)
  BY NatLessThanWellFounded, Zenon
<1>r. R = {ss \in Nat \X Nat : ss[1] < ss[2]}
  BY Zenon DEF OpToRel
<1> HIDE DEF R
<1>2. PICK n \in T : \A m \in T : ~(<<m, n>> \in R)
  BY <1>1, WFMin, Zenon
<1>3. ASSUME NEW m \in T PROVE n <= m
  <2>1. n \in Nat /\ m \in Nat
    OBVIOUS
  <2>2. ~(m < n)
    BY <1>2, <1>r, <2>1
  <2> QED BY <2>1, <2>2
<1> QED BY <1>3

LEMMA InductionOnNat ==
    ASSUME NEW S, 0 \in S, \A n \in Nat : n \in S => n + 1 \in S
    PROVE  Nat \subseteq S
<1> SUFFICES ASSUME Nat \ S # {} PROVE FALSE
  OBVIOUS
<1>1. PICK n \in Nat \ S : \A m \in Nat \ S : n <= m
  BY LeastElement
<1>2. n # 0 /\ n - 1 \in Nat /\ n - 1 \in S
  <2>1. n # 0
    BY <1>1
  <2>2. n - 1 \in Nat /\ ~(n <= n - 1)
    BY <2>1
  <2> QED BY <1>1, <2>1, <2>2
<1>3. (n - 1) + 1 \in S
  BY <1>2
<1> QED BY <1>1, <1>3

LEMMA InductionUpTo ==
    ASSUME NEW n \in Nat, NEW S, 0 \in S, \A i \in 1..n : i - 1 \in S => i \in S
    PROVE  \A i \in 0..n : i \in S
<1> DEFINE T == {i \in Nat : i <= n => i \in S}
<1>1. 0 \in T
  OBVIOUS
<1>2. ASSUME NEW i \in Nat, i \in T PROVE i + 1 \in T
  <2>1. i + 1 <= n => i <= n /\ i + 1 \in 1..n /\ (i + 1) - 1 = i
    OBVIOUS
  <2>2. i + 1 <= n => i + 1 \in S
    BY <1>2, <2>1
  <2> QED BY <2>2
<1> HIDE DEF T
<1>3. Nat \subseteq T
  BY <1>1, <1>2, InductionOnNat
<1>4. ASSUME NEW i \in 0..n PROVE i \in S
  <2>1. i \in T /\ i <= n
    BY <1>3
  <2> QED BY <2>1 DEF T
<1> QED BY <1>4

LEMMA InductionDown ==
    ASSUME NEW n \in Nat, NEW S, n + 1 \in S,
           \A i \in 1..n : (\A j \in i + 1..n + 1 : j \in S) => i \in S
    PROVE  \A i \in 1..n + 1 : i \in S
<1> DEFINE T == {k \in 0..n : \A j \in (n + 1) - k..n + 1 : j \in S}
<1>1. 0 \in T
  OBVIOUS
<1>2. ASSUME NEW k \in 1..n, k - 1 \in T PROVE k \in T
  <2> DEFINE i == (n + 1) - k
  <2>1. i \in 1..n /\ i + 1 = (n + 1) - (k - 1) /\ \A j \in i..n + 1 : j = i \/ j \in i + 1..n + 1
    OBVIOUS
  <2>2. \A j \in i + 1..n + 1 : j \in S
    BY <1>2, <2>1
  <2>3. i \in S
    <3> HIDE DEF i
    <3> QED BY <2>1, <2>2
  <2>4. \A j \in i..n + 1 : j \in S
    <3> HIDE DEF i
    <3> QED BY <2>1, <2>2, <2>3
  <2> QED BY <2>4
<1> HIDE DEF T
<1>3. \A k \in 0..n : k \in T
  BY <1>1, <1>2, InductionUpTo
<1>4. n \in T
  BY <1>3
<1> QED BY <1>4 DEF T

-----------------------------------------------------------------------------
(* Recursion *)

(* Two functions that take the same steps from the same value are the same. *)
StepAlike(f, g, n) == /\ n \in Nat
                      /\ f[0] = g[0]
                      /\ \A i \in 1..n : f[i - 1] = g[i - 1] => f[i] = g[i]

LEMMA SameRecursion ==
    \A f, g, n : StepAlike(f, g, n) => \A i \in 0..n : f[i] = g[i]
<1> SUFFICES ASSUME NEW f, NEW g, NEW n, StepAlike(f, g, n)
             PROVE  \A i \in 0..n : f[i] = g[i]
  OBVIOUS
<1> DEFINE S == {i \in 0..n : f[i] = g[i]}
<1>0. n \in Nat
  BY DEF StepAlike
<1>1. 0 \in S
  BY DEF StepAlike
<1>2. \A i \in 1..n : i - 1 \in S => i \in S
  BY DEF StepAlike
<1> HIDE DEF S
<1>3. \A i \in 0..n : i \in S
  BY <1>0, <1>1, <1>2, InductionUpTo
<1> QED BY <1>3 DEF S

(* f has x at 0, and at i what G[i] makes of its value at i - 1. *)
Iterates(f, n, V, x, G) ==
    /\ f \in [0..n -> V]
    /\ f[0] = x
    /\ \A i \in 1..n : f[i] = G[i][f[i - 1]]

LEMMA RecursionExists ==
    ASSUME NEW n \in Nat, NEW V, NEW x \in V, NEW G \in [1..n -> [V -> V]]
    PROVE  \E f : Iterates(f, n, V, x, G)
<1> DEFINE S == {k \in 0..n : \E f : Iterates(f, k, V, x, G)}
<1>1. 0 \in S
  <2>1. Iterates([i \in 0..0 |-> x], 0, V, x, G)
    BY DEF Iterates
  <2> QED BY <2>1
<1>2. ASSUME NEW k \in 1..n, k - 1 \in S PROVE k \in S
  <2>1. PICK f : Iterates(f, k - 1, V, x, G)
    BY <1>2
  <2> DEFINE g == [i \in 0..k |-> IF i = k THEN G[k][f[k - 1]] ELSE f[i]]
  <2>2. f \in [0..(k - 1) -> V] /\ f[0] = x
    BY <2>1 DEF Iterates
  <2>3. f[k - 1] \in V /\ G[k] \in [V -> V]
    BY <2>2
  <2>4. G[k][f[k - 1]] \in V
    BY <2>3
  <2>5. \A i \in 0..k : i # k => i \in 0..(k - 1)
    OBVIOUS
  <2>6. g \in [0..k -> V]
    BY <2>2, <2>4, <2>5
  <2>7. g[0] = x
    BY <2>2
  <2>8. ASSUME NEW i \in 1..k PROVE g[i] = G[i][g[i - 1]]
    <3>1. i - 1 \in 0..k /\ i - 1 # k /\ g[i - 1] = f[i - 1]
      OBVIOUS
    <3>2. i # k => i \in 1..(k - 1)
      OBVIOUS
    <3>3. i # k => f[i] = G[i][f[i - 1]]
      BY <3>2, <2>1 DEF Iterates
    <3> QED BY <3>1, <3>3
  <2> HIDE DEF g
  <2>9. Iterates(g, k, V, x, G)
    BY <2>6, <2>7, <2>8 DEF Iterates
  <2> QED BY <2>9
<1> HIDE DEF S
<1>3. \A k \in 0..n : k \in S
  BY <1>1, <1>2, InductionUpTo
<1>4. n \in S
  BY <1>3
<1> QED BY <1>4 DEF S

(* A function defined from n + 1 downwards, each of its values by that at   *)
(* some place after it.                                                     *)
Jumps(f, n, V, base, next, G) ==
    /\ f \in [1..n + 1 -> V]
    /\ f[n + 1] = base
    /\ \A i \in 1..n : f[i] = G[i][f[next[i]]]

LEMMA JumpsExist ==
    ASSUME NEW n \in Nat, NEW V, NEW base \in V, NEW G \in [1..n -> [V -> V]],
           NEW next, \A i \in 1..n : next[i] \in i + 1..n + 1
    PROVE  \E f : Jumps(f, n, V, base, next, G)
<1> DEFINE From(f, k) == /\ f \in [1..n + 1 -> V]
                         /\ f[n + 1] = base
                         /\ \A i \in (n + 1) - k..n : f[i] = G[i][f[next[i]]]
           S == {k \in 0..n : \E f : From(f, k)}
<1>1. 0 \in S
  <2> DEFINE f == [i \in 1..n + 1 |-> base]
  <2>1. f \in [1..n + 1 -> V] /\ f[n + 1] = base
    OBVIOUS
  <2>2. From(f, 0)
    BY <2>1
  <2> QED BY <2>2
<1>2. ASSUME NEW k \in 1..n, k - 1 \in S PROVE k \in S
  <2>1. PICK f : From(f, k - 1)
    BY <1>2
  <2> DEFINE a == (n + 1) - k
             v == G[a][f[next[a]]]
             g == [i \in 1..n + 1 |-> IF i = a THEN v ELSE f[i]]
  <2>2. /\ a \in 1..n /\ a # n + 1 /\ next[a] \in a + 1..n + 1
        /\ \A i \in a..n : i = a \/ i \in (n + 1) - (k - 1)..n
        /\ \A i \in a..n : next[i] \in 1..n + 1 /\ next[i] # a /\ i \in 1..n + 1
    OBVIOUS
  <2>3. f \in [1..n + 1 -> V] /\ f[n + 1] = base
        /\ \A i \in (n + 1) - (k - 1)..n : f[i] = G[i][f[next[i]]]
    BY <2>1
  <2> HIDE DEF a, From, S
  <2>4. v \in V
    <3>1. next[a] \in 1..n + 1 /\ G[a] \in [V -> V]
      BY <2>2
    <3>2. f[next[a]] \in V
      BY <2>3, <3>1
    <3> QED BY <3>1, <3>2
  <2> HIDE DEF v
  <2>5. g \in [1..n + 1 -> V] /\ g[n + 1] = base
    BY <2>2, <2>3, <2>4
  <2>6. \A i \in 1..n + 1 : g[i] = IF i = a THEN v ELSE f[i]
    OBVIOUS
  <2> HIDE DEF g
  <2>7. ASSUME NEW i \in a..n PROVE g[i] = G[i][g[next[i]]]
    <3>1. g[next[i]] = f[next[i]]
      BY <2>2, <2>6
    <3>2. CASE i = a
      BY <2>2, <2>6, <3>1, <3>2 DEF v
    <3>3. CASE i # a
      BY <2>2, <2>3, <2>6, <3>1, <3>3
    <3> QED BY <3>2, <3>3
  <2>8. From(g, k)
    BY <2>5, <2>7 DEF From, a
  <2>9. k \in 0..n
    OBVIOUS
  <2> QED BY <2>8, <2>9 DEF S
<1>3. n \in S
  <2> HIDE DEF S
  <2>1. \A k \in 0..n : k \in S
    BY <1>1, <1>2, InductionUpTo
  <2> QED BY <2>1
<1>4. PICK f : From(f, n)
  BY <1>3
<1>5. Jumps(f, n, V, base, next, G)
  BY <1>4 DEF Jumps
<1> QED BY <1>5

(* The same of functions on the subsets of a finite set.                    *)
StepAlikeOnSets(f, g, A) ==
    /\ IsFiniteSet(A)
    /\ f[{}] = g[{}]
    /\ \A S \in SUBSET A : S # {} =>
           \E b \in S : f[S \ {b}] = g[S \ {b}] => f[S] = g[S]

LEMMA SameSetRecursion ==
    \A f, g, A : StepAlikeOnSets(f, g, A) => \A S \in SUBSET A : f[S] = g[S]
<1> SUFFICES ASSUME NEW f, NEW g, NEW A, StepAlikeOnSets(f, g, A),
                    \E S \in SUBSET A : f[S] # g[S]
             PROVE  FALSE
  OBVIOUS
<1> DEFINE Bad == {S \in SUBSET A : f[S] # g[S]}
           T == {Cardinality(S) : S \in Bad}
<1>1. \A S \in SUBSET A : IsFiniteSet(S) /\ Cardinality(S) \in Nat
  BY FS_Subset, FS_CardinalityType DEF StepAlikeOnSets
<1>2. T # {} /\ T \subseteq Nat
  BY <1>1
<1>3. PICK n \in T : \A m \in T : n <= m
  BY <1>2, LeastElement
<1>4. PICK S \in Bad : Cardinality(S) = n
  BY <1>3
<1>5. S # {}
  BY <1>4 DEF StepAlikeOnSets
<1>6. PICK b \in S : f[S \ {b}] = g[S \ {b}] => f[S] = g[S]
  BY <1>4, <1>5 DEF StepAlikeOnSets
<1>7. S \ {b} \in Bad
  BY <1>4, <1>6
<1>8. Cardinality(S \ {b}) = n - 1
  BY <1>1, <1>4, <1>6, FS_RemoveElement
<1>9. n - 1 \in T
  BY <1>7, <1>8
<1> QED BY <1>2, <1>3, <1>9

-----------------------------------------------------------------------------
(* Sequences *)

LEMMA MinIsLeast ==
    ASSUME NEW T, T \subseteq Nat, T # {}
    PROVE  Min(T) \in T /\ \A m \in T : Min(T) <= m
BY LeastElement, Zenon DEF Min

LEMMA MaxIsGreatest ==
    ASSUME NEW n \in Nat, NEW T, T \subseteq 1..n, T # {}
    PROVE  Max(T) \in T /\ \A m \in T : Max(T) >= m
<1> DEFINE U == {n - t : t \in T}
<1>1. U \subseteq Nat /\ U # {}
  <2>1. \A t \in T : n - t \in Nat
    OBVIOUS
  <2>2. U \subseteq Nat
    BY <2>1
  <2>3. PICK t \in T : TRUE
    OBVIOUS
  <2>4. n - t \in U
    OBVIOUS
  <2> QED BY <2>2, <2>4
<1>2. PICK u \in U : \A v \in U : u <= v
  BY <1>1, LeastElement
<1>3. PICK x \in T : u = n - x
  BY <1>2
<1>4. \A m \in T : x >= m
  <2> SUFFICES ASSUME NEW m \in T PROVE x >= m
    OBVIOUS
  <2>1. u <= n - m
    BY <1>2
  <2> QED BY <1>3, <2>1
<1>5. \E y \in T : \A m \in T : y >= m
  BY <1>4
<1> HIDE DEF U
<1> QED BY <1>5, Zenon DEF Max

(* s without its i-th element. *)
LEMMA RemoveAtProperties ==
    ASSUME NEW S, NEW s \in Seq(S), NEW i \in 1..Len(s)
    PROVE  /\ RemoveAt(s, i) \in Seq(S)
           /\ Len(RemoveAt(s, i)) = Len(s) - 1
           /\ \A j \in 1..(Len(s) - 1) :
                  RemoveAt(s, i)[j] = IF j < i THEN s[j] ELSE s[j + 1]
<1> DEFINE a == SubSeq(s, 1, i - 1)
           b == SubSeq(s, i + 1, Len(s))
           t == a \o b
<1>n. Len(s) \in Nat /\ i \in Nat /\ i >= 1 /\ i <= Len(s)
  OBVIOUS
<1>1. a \in Seq(S) /\ Len(a) = i - 1 /\ \A j \in 1..(i - 1) : a[j] = s[j]
  BY <1>n
<1>2. /\ b \in Seq(S) /\ Len(b) = Len(s) - i
      /\ \A j \in 1..(Len(s) - i) : b[j] = s[i + j]
  BY <1>n
<1> HIDE DEF a, b
<1>3. /\ t \in Seq(S) /\ Len(t) = Len(a) + Len(b)
      /\ \A j \in 1..(Len(a) + Len(b)) :
             t[j] = IF j <= Len(a) THEN a[j] ELSE b[j - Len(a)]
  BY <1>1, <1>2, ConcatProperties, Zenon
<1> HIDE DEF t
<1>4. ASSUME NEW j \in 1..(Len(s) - 1)
      PROVE  t[j] = IF j < i THEN s[j] ELSE s[j + 1]
  <2>1. j < i => j \in 1..(i - 1) /\ j <= i - 1
    BY <1>n
  <2>2. ~(j < i) => j - (i - 1) \in 1..(Len(s) - i) /\ i + (j - (i - 1)) = j + 1 /\ ~(j <= i - 1)
    BY <1>n
  <2>3. j \in 1..(Len(a) + Len(b))
    BY <1>1, <1>2, <1>n
  <2> QED BY <2>1, <2>2, <2>3, <1>1, <1>2, <1>3
<1>5. Len(t) = Len(s) - 1
  BY <1>1, <1>2, <1>3, <1>n
<1> QED BY <1>3, <1>4, <1>5, Zenon DEF t, a, b, RemoveAt

(* s with e in the place i, and what was from there on after it. *)
LEMMA InsertAtProperties ==
    ASSUME NEW S, NEW s \in Seq(S), NEW e \in S, NEW i \in 1..Len(s) + 1
    PROVE  /\ InsertAt(s, i, e) \in Seq(S)
           /\ Len(InsertAt(s, i, e)) = Len(s) + 1
           /\ \A j \in 1..Len(s) + 1 :
                  InsertAt(s, i, e)[j] = IF j < i THEN s[j]
                                         ELSE IF j = i THEN e ELSE s[j - 1]
<1> DEFINE a == SubSeq(s, 1, i - 1)
           b == SubSeq(s, i, Len(s))
           c == Append(a, e)
           t == a \o <<e>> \o b
<1>n. Len(s) \in Nat /\ i \in Nat /\ i >= 1 /\ i <= Len(s) + 1
  OBVIOUS
<1>1. a \in Seq(S) /\ Len(a) = i - 1 /\ \A j \in 1..(i - 1) : a[j] = s[j]
  BY <1>n
<1>2. /\ b \in Seq(S) /\ Len(b) = Len(s) - (i - 1)
      /\ \A j \in 1..(Len(s) - (i - 1)) : b[j] = s[(i - 1) + j]
  BY <1>n
<1> HIDE DEF a, b
<1>3. /\ c \in Seq(S) /\ Len(c) = i /\ c[i] = e
      /\ \A j \in 1..(i - 1) : c[j] = s[j]
  BY <1>1, <1>n
<1>4. c = a \o <<e>>
  BY <1>1
<1> HIDE DEF c
<1> DEFINE u == c \o b
<1>5. t = u
  BY <1>4
<1>6. /\ u \in Seq(S) /\ Len(u) = Len(c) + Len(b)
      /\ \A j \in 1..(Len(c) + Len(b)) :
             u[j] = IF j <= Len(c) THEN c[j] ELSE b[j - Len(c)]
  BY <1>2, <1>3, ConcatProperties, Zenon
<1> HIDE DEF t, u
<1>7. ASSUME NEW j \in 1..Len(s) + 1
      PROVE  u[j] = IF j < i THEN s[j] ELSE IF j = i THEN e ELSE s[j - 1]
  <2>1. j < i => j \in 1..(i - 1) /\ j <= i
    BY <1>n
  <2>2. j > i => j - i \in 1..(Len(s) - (i - 1)) /\ (i - 1) + (j - i) = j - 1 /\ ~(j <= i)
    BY <1>n
  <2>3. j \in 1..(Len(c) + Len(b))
    BY <1>2, <1>3, <1>n
  <2>4. j < i \/ j = i \/ j > i
    BY <1>n
  <2> QED BY SMTT(30), <1>n, <2>1, <2>2, <2>3, <2>4, <1>2, <1>3, <1>6
<1>8. Len(u) = Len(s) + 1
  BY <1>2, <1>3, <1>6, <1>n
<1>9. InsertAt(s, i, e) = u
  BY <1>5, Zenon DEF t, a, b, InsertAt
<1> QED BY <1>6, <1>7, <1>8, <1>9

(* s without the first e in it, if there is one. *)
LEMMA RemoveFirstProperties ==
    ASSUME NEW S, NEW s \in Seq(S), NEW e
    PROVE  \/ /\ \A i \in 1..Len(s) : s[i] # e
              /\ RemoveFirst(s, e) = s
           \/ \E i \in 1..Len(s) : s[i] = e /\ RemoveFirst(s, e) = RemoveAt(s, i)
<1> DEFINE I == {i \in 1..Len(s) : s[i] = e}
<1>1. CASE \A i \in 1..Len(s) : s[i] # e
  BY <1>1 DEF RemoveFirst
<1>2. CASE \E i \in 1..Len(s) : s[i] = e
  <2>1. I # {} /\ I \subseteq Nat
    BY <1>2
  <2>2. SelectInSeq(s, LAMBDA v : v = e) = Min(I)
    BY <2>1, Zenon DEF SelectInSeq
  <2>3. Min(I) \in I
    BY <2>1, MinIsLeast, Zenon
  <2>4. RemoveFirst(s, e) = RemoveAt(s, Min(I))
    BY <1>2, <2>2, Zenon DEF RemoveFirst
  <2> QED BY <2>3, <2>4, Zenon
<1> QED BY <1>1, <1>2

(* a in front of t. *)
LEMMA FrontProperties ==
    ASSUME NEW S, NEW t \in Seq(S), NEW a \in S
    PROVE  /\ <<a>> \o t \in Seq(S)
           /\ Len(<<a>> \o t) = Len(t) + 1
           /\ \A j \in 1..Len(t) + 1 : (<<a>> \o t)[j] = IF j = 1 THEN a ELSE t[j - 1]
<1>1. <<a>> \in Seq(S) /\ Len(<<a>>) = 1 /\ <<a>>[1] = a /\ Len(t) \in Nat
  OBVIOUS
<1>2. /\ <<a>> \o t \in Seq(S)
      /\ Len(<<a>> \o t) = Len(<<a>>) + Len(t)
      /\ \A i \in 1..Len(<<a>>) + Len(t) :
             (<<a>> \o t)[i] = IF i <= Len(<<a>>) THEN <<a>>[i] ELSE t[i - Len(<<a>>)]
  BY <1>1, ConcatProperties, Zenon
<1> DEFINE u == <<a>> \o t
           b == <<a>>
<1>3. /\ b[1] = a /\ Len(b) = 1
      /\ u \in Seq(S) /\ Len(u) = 1 + Len(t)
      /\ \A i \in 1..Len(b) + Len(t) : u[i] = IF i <= Len(b) THEN b[i] ELSE t[i - Len(b)]
  BY <1>1, <1>2, Zenon
<1> HIDE DEF u, b
<1>4. /\ u \in Seq(S) /\ Len(u) = Len(t) + 1
      /\ \A j \in 1..Len(t) + 1 : u[j] = IF j = 1 THEN a ELSE t[j - 1]
  BY <1>1, <1>3
<1> QED BY <1>4 DEF u
=============================================================================
