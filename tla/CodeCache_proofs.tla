-------------------------- MODULE CodeCache_proofs --------------------------
(* For any cache size and any code: the dictionary and the list of the      *)
(* cache hold the same entries, CurrentSize is the sum of their sizes and   *)
(* within the limit, what goes was used least recently, and what is executed*)
(* at an address is what was compiled there, with the debugger's checks     *)
(* when it is attached.                                                     *)
EXTENDS CodeCache, Induction

(* The entries of list l: no two with the same key. *)
Keys(l) == {l[i].key : i \in 1..Len(l)}
Distinct(l) == \A i, j \in 1..Len(l) : l[i].key = l[j].key => i = j
Mirrors(d, l) == /\ DOMAIN d = Keys(l)
                 /\ \A i \in 1..Len(l) : d[l[i].key] = l[i]
                 /\ Distinct(l)

(* Add, when i entries had to go. *)
AfterAdd(d1, l1, d, l, e, a, i) ==
    /\ i \in 0..Len(l) /\ e.key = a /\ a \notin DOMAIN d
    /\ l1 = <<e>> \o SubSeq(l, 1, Len(l) - i)
    /\ d1 = [k \in (DOMAIN d \ {l[j].key : j \in (Len(l) - i + 1)..Len(l)})
                      \cup {a} |-> IF k = a THEN e ELSE d[k]]

LEMMA AddMirrors ==
    ASSUME NEW E, NEW d, NEW l, NEW e, NEW a, NEW i, NEW d1, NEW l1,
           l \in Seq(E), e \in E, l1 \in Seq(E),
           Mirrors(d, l), AfterAdd(d1, l1, d, l, e, a, i)
    PROVE  Mirrors(d1, l1)
<1> USE DEF AfterAdd
<1> DEFINE n == Len(l) - i
<1>n. Len(l) \in Nat /\ n \in 0..Len(l) /\ n \in Nat
  OBVIOUS
<1>1. /\ Len(l1) = n + 1
      /\ l1[1] = e
      /\ \A j \in 2..(n + 1) : l1[j] = l[j - 1]
  <2>1. /\ SubSeq(l, 1, n) \in Seq(E) /\ Len(SubSeq(l, 1, n)) = n
        /\ \A j \in 1..n : SubSeq(l, 1, n)[j] = l[j]
    BY <1>n
  <2> DEFINE s == SubSeq(l, 1, n)
  <2>2. l1 = <<e>> \o s
    OBVIOUS
  <2> HIDE DEF s, n
  <2>3. s \in Seq(E) /\ Len(s) = n /\ \A j \in 1..n : s[j] = l[j]
    BY <2>1 DEF s
  <2> QED BY <2>2, <2>3, <1>n
<1> HIDE DEF n
<1>2. DOMAIN d1 = {l[j].key : j \in 1..n} \cup {a}
  <2>1. \A j \in 1..Len(l) : j \in 1..n \/ j \in (n + 1)..Len(l)
    BY <1>n
  <2>2. \A j \in 1..n : j \in 1..Len(l) /\ j \notin (n + 1)..Len(l)
    BY <1>n
  <2>3. \A j \in (n + 1)..Len(l) : j \in 1..Len(l)
    BY <1>n
  <2>4. {l[j].key : j \in 1..Len(l)} \ {l[j].key : j \in (n + 1)..Len(l)}
          = {l[j].key : j \in 1..n}
    BY <2>1, <2>2, <2>3 DEF Mirrors, Distinct
  <2> QED BY <2>4 DEF Mirrors, Keys, n
<1>3. DOMAIN d1 = Keys(l1)
  <2>1. \A j \in 1..n : j + 1 \in 2..(n + 1) /\ l1[j + 1] = l[j]
    BY <1>n, <1>1
  <2>2. \A j \in 1..(n + 1) : j = 1 \/ (j - 1 \in 1..n /\ l1[j] = l[j - 1])
    BY <1>n, <1>1
  <2>3. \A j \in 1..n : j + 1 \in 1..(n + 1)
    BY <1>n
  <2>4. 1 \in 1..(n + 1)
    BY <1>n
  <2>5. Keys(l1) = {l1[j].key : j \in 1..(n + 1)}
    BY <1>1 DEF Keys
  <2>6. ASSUME NEW k \in Keys(l1) PROVE k \in DOMAIN d1
    <3>1. PICK j \in 1..(n + 1) : k = l1[j].key
      BY <2>5
    <3> QED BY <3>1, <2>2, <1>1, <1>2
  <2>7. ASSUME NEW k \in DOMAIN d1 PROVE k \in Keys(l1)
    <3>1. CASE k = a
      BY <3>1, <2>4, <2>5, <1>1
    <3>2. CASE k # a
      <4>1. PICK j \in 1..n : k = l[j].key
        BY <3>2, <1>2
      <4> QED BY <4>1, <2>1, <2>3, <2>5
    <3> QED BY <3>1, <3>2
  <2> QED BY <2>6, <2>7
<1>4. \A j \in 1..n : j \in 1..Len(l) /\ l[j].key \in DOMAIN d /\ l[j].key # a
  <2>1. \A j \in 1..n : j \in 1..Len(l)
    BY <1>n
  <2>2. \A j \in 1..Len(l) : l[j].key \in DOMAIN d
    BY Zenon DEF Mirrors, Keys
  <2> QED BY <2>1, <2>2
<1>5. \A j \in 1..(n + 1) : d1[l1[j].key] = l1[j]
  <2> SUFFICES ASSUME NEW j \in 1..(n + 1) PROVE d1[l1[j].key] = l1[j]
    OBVIOUS
  <2>1. CASE j = 1
    BY <1>1, <1>2, <2>1
  <2>2. CASE j # 1
    <3>1. j - 1 \in 1..n /\ l1[j] = l[j - 1]
      BY SMTT(30), <1>n, <1>1, <2>2
    <3>2. l1[j].key \in DOMAIN d1 /\ l1[j].key # a
      BY <3>1, <1>2, <1>4
    <3>3. d1[l1[j].key] = d[l1[j].key]
      BY <3>2
    <3> QED BY <3>1, <3>3, <1>4 DEF Mirrors
  <2> QED BY <2>1, <2>2
<1>6. Distinct(l1)
  <2> SUFFICES ASSUME NEW j \in 1..(n + 1), NEW k \in 1..(n + 1),
                      l1[j].key = l1[k].key
               PROVE  j = k
    BY <1>1 DEF Distinct
  <2>1. /\ j # 1 => j - 1 \in 1..n /\ l1[j] = l[j - 1]
        /\ k # 1 => k - 1 \in 1..n /\ l1[k] = l[k - 1]
    BY <1>n, <1>1
  <2>2. CASE j = 1 \/ k = 1
    BY <2>1, <2>2, <1>1, <1>4
  <2>3. CASE j # 1 /\ k # 1
    <3>1. j - 1 = k - 1
      BY <2>1, <2>3, <1>4 DEF Mirrors, Distinct
    <3> QED BY <3>1
  <2> QED BY <2>2, <2>3
<1> QED BY <1>1, <1>3, <1>5, <1>6 DEF Mirrors

(* TryGetValue's move to the front of the list. *)
LEMMA MovedEntries ==
    ASSUME NEW E, NEW l \in Seq(E), NEW i \in 1..Len(l)
    PROVE  LET m == <<l[i]>> \o SubSeq(l, 1, i - 1) \o SubSeq(l, i + 1, Len(l)) IN
           /\ m \in Seq(E) /\ Len(m) = Len(l)
           /\ \A j \in 1..Len(l) : m[j] = IF j = 1 THEN l[i]
                                        ELSE IF j <= i THEN l[j - 1] ELSE l[j]
<1> DEFINE s == SubSeq(l, 1, i - 1)
           t == SubSeq(l, i + 1, Len(l))
           u == <<l[i]>> \o s
           m == u \o t
<1>n. Len(l) \in Nat /\ i \in Nat /\ i >= 1 /\ i <= Len(l)
  OBVIOUS
<1>1. s \in Seq(E) /\ Len(s) = i - 1 /\ \A j \in 1..(i - 1) : s[j] = l[j]
  BY <1>n
<1>2. /\ t \in Seq(E) /\ Len(t) = Len(l) - i
      /\ \A j \in 1..(Len(l) - i) : t[j] = l[i + j]
  BY <1>n
<1>3. <<l[i]>> \in Seq(E) /\ Len(<<l[i]>>) = 1 /\ <<l[i]>>[1] = l[i]
  OBVIOUS
<1> HIDE DEF s, t
<1>4. /\ u \in Seq(E) /\ Len(u) = i
      /\ \A j \in 1..i : u[j] = IF j = 1 THEN l[i] ELSE s[j - 1]
  <2>1. /\ u \in Seq(E) /\ Len(u) = 1 + (i - 1)
        /\ \A j \in 1..(1 + (i - 1)) :
               u[j] = IF j <= 1 THEN <<l[i]>>[j] ELSE s[j - 1]
    BY <1>1, <1>3, ConcatProperties
  <2> HIDE DEF u
  <2> QED BY <2>1, <1>3, <1>n
<1> HIDE DEF u
<1>5. /\ m \in Seq(E) /\ Len(m) = Len(l)
      /\ \A j \in 1..Len(l) : m[j] = IF j <= i THEN u[j] ELSE t[j - i]
  <2>1. /\ m \in Seq(E) /\ Len(m) = Len(u) + Len(t)
        /\ \A j \in 1..(Len(u) + Len(t)) :
               m[j] = IF j <= Len(u) THEN u[j] ELSE t[j - Len(u)]
    <3>1. u \in Seq(E) /\ t \in Seq(E)
      BY <1>2, <1>4
    <3> QED BY <3>1, ConcatProperties, Zenon
  <2>2. Len(u) = i /\ Len(u) + Len(t) = Len(l)
    BY <1>2, <1>4, <1>n
  <2> HIDE DEF m
  <2> QED BY <2>1, <2>2
<1> HIDE DEF m
<1>6. ASSUME NEW j \in 1..Len(l)
      PROVE  m[j] = IF j = 1 THEN l[i] ELSE IF j <= i THEN l[j - 1] ELSE l[j]
  <2>1. CASE j <= i
    <3>1. j \in 1..i /\ (j # 1 => j - 1 \in 1..(i - 1))
      BY <2>1, <1>n
    <3> QED BY <3>1, <2>1, <1>1, <1>4, <1>5
  <2>2. CASE j > i
    <3>1. j - i \in 1..(Len(l) - i) /\ i + (j - i) = j /\ ~(j <= i) /\ j # 1
      BY <2>2, <1>n
    <3> QED BY <3>1, <1>2, <1>5
  <2> QED BY <2>1, <2>2, <1>n
<1> QED BY <1>5, <1>6 DEF m, u, s, t

(* Rearranging a list that has every key once. *)
Rearranges(m, l, from, to) ==
    /\ Len(m) = Len(l)
    /\ from \in [1..Len(l) -> 1..Len(l)] /\ to \in [1..Len(l) -> 1..Len(l)]
    /\ \A j \in 1..Len(l) : /\ from[to[j]] = j /\ to[from[j]] = j
                            /\ m[j] = l[from[j]]

LEMMA RearrangedMirrors ==
    ASSUME NEW l, NEW d, NEW m, NEW from, NEW to,
           Mirrors(d, l), Rearranges(m, l, from, to)
    PROVE  Mirrors(d, m)
<1> USE DEF Rearranges
<1>1. /\ DOMAIN d = Keys(l) /\ Distinct(l)
      /\ \A j \in 1..Len(l) : d[l[j].key] = l[j]
  BY DEF Mirrors
<1>2. Keys(m) = Keys(l)
  <2>1. ASSUME NEW k \in Keys(m) PROVE k \in Keys(l)
    <3>1. PICK j \in 1..Len(l) : k = m[j].key
      BY DEF Keys
    <3> QED BY <3>1 DEF Keys
  <2>2. ASSUME NEW k \in Keys(l) PROVE k \in Keys(m)
    <3>1. PICK j \in 1..Len(l) : k = l[j].key
      BY DEF Keys
    <3>2. to[j] \in 1..Len(m) /\ m[to[j]] = l[j]
      BY <3>1
    <3> QED BY <3>1, <3>2 DEF Keys
  <2> QED BY <2>1, <2>2
<1>3. Distinct(m)
  <2> SUFFICES ASSUME NEW j \in 1..Len(l), NEW k \in 1..Len(l),
                      m[j].key = m[k].key
               PROVE  j = k
    BY DEF Distinct
  <2>1. from[j] \in 1..Len(l) /\ from[k] \in 1..Len(l)
    OBVIOUS
  <2>2. l[from[j]].key = l[from[k]].key
    OBVIOUS
  <2>3. from[j] = from[k]
    BY <1>1, <2>1, <2>2, Zenon DEF Distinct
  <2>4. to[from[j]] = j /\ to[from[k]] = k
    OBVIOUS
  <2> QED BY <2>3, <2>4, Zenon
<1>4. \A j \in 1..Len(m) : d[m[j].key] = m[j]
  BY SMTT(30), <1>1
<1> QED BY <1>1, <1>2, <1>3, <1>4 DEF Mirrors

LEMMA TouchMirrors ==
    ASSUME NEW E, NEW l \in Seq(E), NEW d, Mirrors(d, l), NEW i \in 1..Len(l)
    PROVE  Mirrors(d, <<l[i]>> \o SubSeq(l, 1, i - 1) \o SubSeq(l, i + 1, Len(l)))
<1> DEFINE m == <<l[i]>> \o SubSeq(l, 1, i - 1) \o SubSeq(l, i + 1, Len(l))
           from == [j \in 1..Len(l) |->
                       IF j = 1 THEN i ELSE IF j <= i THEN j - 1 ELSE j]
           to == [j \in 1..Len(l) |->
                     IF j = i THEN 1 ELSE IF j < i THEN j + 1 ELSE j]
<1>1. /\ Len(m) = Len(l)
      /\ \A j \in 1..Len(l) : m[j] = IF j = 1 THEN l[i]
                                   ELSE IF j <= i THEN l[j - 1] ELSE l[j]
  BY MovedEntries
<1>2. Len(l) \in Nat
  OBVIOUS
<1> HIDE DEF m
<1>3. /\ from \in [1..Len(l) -> 1..Len(l)] /\ to \in [1..Len(l) -> 1..Len(l)]
      /\ \A j \in 1..Len(l) : from[to[j]] = j /\ to[from[j]] = j
  BY <1>2
<1>4. \A j \in 1..Len(l) : m[j] = l[from[j]]
  BY <1>1, <1>2
<1> HIDE DEF from, to
<1>5. Rearranges(m, l, from, to)
  BY <1>1, <1>3, <1>4 DEF Rearranges
<1>6. Mirrors(d, m)
  BY <1>5, RearrangedMirrors
<1> QED BY <1>6 DEF m

-----------------------------------------------------------------------------
(* Sums along a list of entries *)

(* s[i] is the size of the first i entries of list l. *)
PartialSums(s, l) == /\ s \in [0..Len(l) -> Nat]
                     /\ s[0] = 0
                     /\ \A i \in 1..Len(l) : s[i] = s[i - 1] + l[i].size

Sizes(l) == \A i \in 1..Len(l) : l[i].size \in Nat

LEMMA TotalIsTheLastSum ==
    ASSUME NEW l, Len(l) \in Nat, NEW s, PartialSums(s, l)
    PROVE  LET total[i \in 0..Len(l)] ==
                   IF i = 0 THEN 0 ELSE total[i - 1] + l[i].size
           IN  total[Len(l)] = s[Len(l)]
<1> DEFINE n == Len(l)
           total[i \in 0..n] == IF i = 0 THEN 0 ELSE total[i - 1] + l[i].size
<1>1. s = [i \in 0..n |-> IF i = 0 THEN 0 ELSE s[i - 1] + l[i].size]
  <2>1. s = [i \in 0..n |-> s[i]]
    BY DEF PartialSums
  <2>2. \A i \in 0..n : i # 0 => i \in 1..n
    OBVIOUS
  <2>3. \A i \in 0..n : s[i] = IF i = 0 THEN 0 ELSE s[i - 1] + l[i].size
    BY <2>2 DEF PartialSums
  <2> QED BY <2>1, <2>3
<1>2. total = [i \in 0..n |-> IF i = 0 THEN 0 ELSE total[i - 1] + l[i].size]
  BY <1>1, Zenon
<1> HIDE DEF total
<1>3. total[0] = s[0]
  BY <1>2 DEF PartialSums
<1>4. \A i \in 1..n : total[i - 1] = s[i - 1] => total[i] = s[i]
  <2>1. \A i \in 1..n : i \in 0..n /\ i # 0
    OBVIOUS
  <2>2. \A i \in 1..n : total[i] = total[i - 1] + l[i].size
    BY <1>2, <2>1
  <2> QED BY <2>2 DEF PartialSums
<1>5. \A i \in 0..n : total[i] = s[i]
  <2>1. StepAlike(total, s, n)
    BY <1>3, <1>4 DEF StepAlike
  <2> QED BY <2>1, SameRecursion, Zenon
<1>6. total[n] = s[n]
  BY <1>5
<1> QED BY <1>6 DEF total

LEMMA SumsFromTheEnd ==
    ASSUME NEW l, Len(l) \in Nat, Sizes(l), NEW s, PartialSums(s, l),
           NEW d \in 0..Len(l)
    PROVE  LET left[j \in 0..d] ==
                   IF j = 0 THEN s[Len(l)]
                   ELSE left[j - 1] - l[Len(l) - j + 1].size
           IN  left[d] = s[Len(l) - d]
<1> DEFINE n == Len(l)
           left[j \in 0..d] == IF j = 0 THEN s[Len(l)]
                               ELSE left[j - 1] - l[n - j + 1].size
           g == [j \in 0..d |-> s[n - j]]
<1>0. n \in Nat /\ d \in Nat /\ d <= n
  OBVIOUS
<1> HIDE DEF n
<1>1. ASSUME NEW j \in 1..d
      PROVE  s[n - j] = s[n - (j - 1)] - l[n - j + 1].size
  <2>1. n - j + 1 \in 1..n /\ (n - j + 1) - 1 = n - j /\ n - j + 1 = n - (j - 1)
    BY <1>0
  <2>2. s[n - j + 1] = s[n - j] + l[n - j + 1].size
    BY <2>1 DEF PartialSums, n
  <2>3. s[n - j] \in Nat /\ l[n - j + 1].size \in Nat
    BY SMTT(30), <2>1 DEF PartialSums, Sizes, n
  <2> QED BY <2>1, <2>2, <2>3
<1>2. g = [j \in 0..d |-> IF j = 0 THEN s[Len(l)]
                          ELSE g[j - 1] - l[n - j + 1].size]
  <2>1. \A j \in 0..d : j # 0 => j \in 1..d /\ j - 1 \in 0..d
    BY <1>0
  <2>2. \A j \in 0..d : s[n - j] = IF j = 0 THEN s[Len(l)]
                                   ELSE g[j - 1] - l[n - j + 1].size
    BY <2>1, <1>0, <1>1 DEF n
  <2> QED BY <2>2
<1> HIDE DEF g
<1>3. left = [j \in 0..d |-> IF j = 0 THEN s[Len(l)]
                             ELSE left[j - 1] - l[n - j + 1].size]
  BY <1>2, Zenon
<1> HIDE DEF left
<1>4. left[0] = g[0] /\ \A j \in 1..d : left[j - 1] = g[j - 1] => left[j] = g[j]
  <2>1. \A j \in 1..d : j \in 0..d /\ j # 0
    OBVIOUS
  <2>2. \A j \in 1..d : left[j] = left[j - 1] - l[n - j + 1].size
    BY <1>3, <2>1
  <2>3. \A j \in 1..d : g[j] = g[j - 1] - l[n - j + 1].size
    BY <1>2, <2>1
  <2>4. left[0] = s[Len(l)] /\ g[0] = s[Len(l)]
    BY <1>2, <1>3, <1>0
  <2> QED BY <2>2, <2>3, <2>4
<1>5. \A j \in 0..d : left[j] = g[j]
  <2>1. d \in Nat /\ left[0] = g[0]
    BY <1>0, <1>4
  <2>2. StepAlike(left, g, d)
    BY <2>1, <1>4 DEF StepAlike
  <2> QED BY <2>2, SameRecursion, Zenon
<1>6. left[d] = g[d]
  BY <1>0, <1>5
<1>7. g[d] = s[n - d]
  BY <1>0 DEF g
<1> QED BY <1>6, <1>7 DEF left, n

LEMMA SizeWithoutIsASum ==
    ASSUME Len(llist) \in Nat, Sizes(llist), NEW s, PartialSums(s, llist),
           CurrentSize = s[Len(llist)], NEW i \in 0..Len(llist)
    PROVE  SizeWithout(i) = s[Len(llist) - i]
<1>1. LET left[j \in 0..i] ==
              IF j = 0 THEN s[Len(llist)]
              ELSE left[j - 1] - llist[Len(llist) - j + 1].size
      IN  left[i] = s[Len(llist) - i]
  BY SumsFromTheEnd
<1> QED BY <1>1, Zenon DEF SizeWithout

(* m is e and then the first k entries of l. *)
Added(m, e, l, k) == /\ Len(m) = k + 1 /\ m[1] = e
                     /\ \A j \in 2..(k + 1) : m[j] = l[j - 1]

LEMMA AddedSums ==
    ASSUME NEW l, NEW s, NEW m, NEW e, NEW k \in 0..Len(l),
           Len(l) \in Nat, PartialSums(s, l), Sizes(l),
           e.size \in Nat, Added(m, e, l, k)
    PROVE  \E u : PartialSums(u, m) /\ u[Len(m)] = s[k] + e.size
<1> DEFINE u == [j \in 0..(k + 1) |-> IF j = 0 THEN 0 ELSE s[j - 1] + e.size]
<1>0. /\ k \in Nat /\ k + 1 \in Nat
      /\ \A j \in 1..(k + 1) : j - 1 \in 0..Len(l)
  OBVIOUS
<1> USE DEF Added
<1>s. /\ s \in [0..Len(l) -> Nat] /\ s[0] = 0
      /\ \A i \in 1..Len(l) : s[i] = s[i - 1] + l[i].size
  BY DEF PartialSums
<1>t. \A j \in 1..(k + 1) : s[j - 1] \in Nat
  BY <1>0, <1>s
<1>1. u \in [0..(k + 1) -> Nat] /\ u[0] = 0
  <2>1. \A j \in 0..(k + 1) : j # 0 => j \in 1..(k + 1)
    OBVIOUS
  <2> QED BY <2>1, <1>0, <1>s, <1>t
<1>2. ASSUME NEW j \in 1..(k + 1) PROVE u[j] = u[j - 1] + m[j].size
  <2>1. CASE j = 1
    BY <2>1, <1>0, <1>s, <1>t
  <2>2. CASE j # 1
    <3>1. j \in 2..(k + 1) /\ j - 1 \in 1..Len(l) /\ j - 1 # 0 /\ j - 1 \in 0..(k + 1)
      BY <2>2
    <3>2. s[j - 1] = s[(j - 1) - 1] + m[j].size /\ m[j].size \in Nat
      BY <3>1, <1>s DEF Sizes
    <3>3. s[(j - 1) - 1] \in Nat
      BY <3>1, <1>t
    <3>4. u[j] = s[j - 1] + e.size /\ u[j - 1] = s[(j - 1) - 1] + e.size
      BY <3>1
    <3>5. u[j - 1] + m[j].size = (s[(j - 1) - 1] + m[j].size) + e.size
      BY <3>2, <3>3, <3>4
    <3> QED BY <3>2, <3>4, <3>5
  <2> QED BY <2>1, <2>2
<1>3. u[k + 1] = s[k] + e.size
  BY <1>0
<1> HIDE DEF u
<1>4. PartialSums(u, m) /\ u[Len(m)] = s[k] + e.size
  BY <1>1, <1>2, <1>3 DEF PartialSums
<1> QED BY <1>4

(* Moving an entry to the front changes the sums before its old place only. *)
LEMMA MovedSums ==
    ASSUME NEW l, NEW s, NEW m, NEW i \in 1..Len(l),
           Len(l) \in Nat, PartialSums(s, l), Sizes(l), Len(m) = Len(l),
           \A j \in 1..Len(l) : m[j] = IF j = 1 THEN l[i]
                                       ELSE IF j <= i THEN l[j - 1] ELSE l[j]
    PROVE  \E u : PartialSums(u, m) /\ u[Len(m)] = s[Len(l)]
<1> DEFINE n == Len(l)
           c == l[i].size
           u == [j \in 0..n |-> IF j = 0 THEN 0
                                ELSE IF j <= i THEN s[j - 1] + c ELSE s[j]]
<1>0. n \in Nat /\ i \in 1..n /\ c \in Nat /\ s[0] = 0
  BY DEF PartialSums, Sizes
<1>1. \A j \in 0..n : s[j] \in Nat
  BY DEF PartialSums
<1>2. \A j \in 1..n : s[j] = s[j - 1] + l[j].size /\ l[j].size \in Nat
  BY DEF PartialSums, Sizes
<1>3. \A j \in 1..n : j - 1 \in 0..n /\ s[j - 1] \in Nat
  BY <1>0, <1>1
<1>4. \A j \in 0..n : j # 0 => j \in 1..n
  BY <1>0
<1>5. u \in [0..n -> Nat] /\ u[0] = 0
  <2>1. \A j \in 0..n : j # 0 => s[j - 1] + c \in Nat
    BY <1>0, <1>3, <1>4
  <2>2. \A j \in 0..n : (IF j = 0 THEN 0 ELSE IF j <= i THEN s[j - 1] + c ELSE s[j])
                           \in Nat
    BY <2>1, <1>1
  <2>3. 0 \in 0..n
    BY <1>0
  <2> QED BY <2>2, <2>3
<1>6. u[n] = s[n]
  <2>1. i = n => s[n] = s[n - 1] + c
    BY <1>0, <1>2
  <2> QED BY <1>0, <2>1
<1>7. ASSUME NEW j \in 1..n PROVE u[j] = u[j - 1] + m[j].size
  <2>1. CASE j = 1
    <3>1. m[j].size = c
      BY <2>1
    <3>2. u[j - 1] = 0
      BY <2>1, <1>0
    <3>3. u[j] = s[0] + c
      BY <2>1, <1>0
    <3> QED BY <3>1, <3>2, <3>3, <1>0
  <2>2. CASE j # 1 /\ j <= i
    <3>1. /\ m[j].size = l[j - 1].size /\ j - 1 \in 1..n /\ j - 1 <= i
          /\ j - 1 # 0 /\ j - 1 \in 0..n
      BY <2>2
    <3>2. s[j - 1] = s[(j - 1) - 1] + l[j - 1].size /\ l[j - 1].size \in Nat
      BY <3>1, <1>2
    <3>3. s[(j - 1) - 1] \in Nat
      BY <3>1, <1>3
    <3>4. u[j] = s[j - 1] + c /\ u[j - 1] = s[(j - 1) - 1] + c
      BY <2>2, <3>1
    <3> QED BY <3>1, <3>2, <3>3, <3>4, <1>0
  <2>3. CASE j = i + 1
    <3>1. m[j].size = l[j].size /\ j - 1 = i /\ j # 0 /\ ~(j <= i)
      BY <2>3, <1>0
    <3>2. u[j] = s[j] /\ u[j - 1] = s[i - 1] + c
      BY <3>1, <1>0
    <3>3. s[i] = s[i - 1] + c /\ s[j] = s[i] + l[j].size
      BY <3>1, <1>0, <1>2
    <3> QED BY <3>1, <3>2, <3>3
  <2>4. CASE j > i + 1
    <3>1. /\ m[j].size = l[j].size /\ j # 0 /\ ~(j <= i)
          /\ j - 1 # 0 /\ ~(j - 1 <= i) /\ j - 1 \in 0..n
      BY <2>4, <1>0
    <3>2. u[j] = s[j] /\ u[j - 1] = s[j - 1]
      BY <3>1
    <3> QED BY <3>1, <3>2, <1>2
  <2> QED BY <2>1, <2>2, <2>3, <2>4, <1>0
<1> HIDE DEF u
<1>8. PartialSums(u, m) /\ u[Len(m)] = s[Len(l)]
  BY <1>5, <1>6, <1>7 DEF PartialSums
<1> QED BY <1>8

-----------------------------------------------------------------------------
(* The inductive invariant. *)
CompiledForItsAddress == \A a \in Cached : dict[a].value = Compiled(a)

CacheInv == /\ llist \in Seq(Entry)
            /\ Cached \subseteq Key
            /\ debugging \in BOOLEAN
            /\ Mirrors(dict, llist)
            /\ CompiledForItsAddress

LEMMA Empty == /\ <<>> \in Seq(Entry)
               /\ Mirrors(<<>>, <<>>)
               /\ DOMAIN <<>> = {}
<1>1. 1..Len(<<>>) = {} /\ DOMAIN <<>> = {}
  OBVIOUS
<1> QED BY <1>1 DEF Mirrors, Keys, Distinct

LEMMA InitCacheInv == Init => CacheInv
  BY Empty DEF Init, CacheInit, CacheInv, CompiledForItsAddress, Cached

LEMMA NextCacheInv == CacheInv /\ [Next]_vars => CacheInv'
<1> SUFFICES ASSUME CacheInv, [Next]_vars PROVE CacheInv'
  OBVIOUS
<1> USE DEF vars, cacheVars
<1>k. UNCHANGED <<dict, llist, debugging>> => CacheInv'
  BY Zenon DEF CacheInv, CompiledForItsAddress, Cached, Compiled
<1>c. /\ dict' = <<>> /\ llist' = <<>> /\ debugging' \in BOOLEAN
      => CacheInv'
  BY Empty DEF CacheInv, CompiledForItsAddress, Cached
<1>1. ASSUME NEW a \in Rom \cup Ram, Execute(a)
      PROVE  CacheInv'
  <2>1. CASE ~Cacheable(a)
    BY <1>1, <1>k, <2>1 DEF Execute
  <2>2. CASE Cacheable(a) /\ a \in Cached
    <3>1. PICK i \in 1..Len(llist) :
              llist' = MovedToFront(i) /\ dict' = dict /\ debugging' = debugging
      BY <1>1, <2>2 DEF Execute, Touch
    <3>2. /\ llist \in Seq(Entry) /\ Mirrors(dict, llist)
          /\ Cached \subseteq Key /\ debugging \in BOOLEAN
      BY DEF CacheInv
    <3>3. llist' \in Seq(Entry)
      BY <3>1, <3>2, MovedEntries DEF MovedToFront
    <3>4. Mirrors(dict', llist')
      BY <3>1, <3>2, TouchMirrors DEF MovedToFront
    <3> QED BY <3>1, <3>2, <3>3, <3>4
            DEF CacheInv, CompiledForItsAddress, Cached, Compiled
  <2>3. CASE Cacheable(a) /\ a \notin Cached
    <3> DEFINE e == [key |-> a, value |-> Compiled(a), size |-> Size[a]]
    <3>1. PICK i \in 0..Len(llist) :
              /\ dict' = [k \in KeysWithout(i) \cup {a} |->
                             IF k = a THEN e ELSE dict[k]]
              /\ llist' = <<e>> \o SubSeq(llist, 1, Len(llist) - i)
              /\ debugging' = debugging
      BY <1>1, <2>3 DEF Execute, Add
    <3>2. e \in Entry /\ e.key = a /\ e.value = Compiled(a) /\ a \in Key
      BY <2>3, CodeAssumption, KeyAssumption
         DEF Entry, Compiled, CacheInv, Cacheable
    <3> HIDE DEF e
    <3>3. llist' \in Seq(Entry)
      BY <3>1, <3>2 DEF CacheInv
    <3>4. Mirrors(dict', llist')
      <4>1. dict' = [k \in (DOMAIN dict \ {llist[j].key :
                                  j \in (Len(llist) - i + 1)..Len(llist)})
                            \cup {a} |-> IF k = a THEN e ELSE dict[k]]
        BY <3>1, Zenon DEF KeysWithout, Cached
      <4>2. /\ a \notin DOMAIN dict
            /\ llist \in Seq(Entry) /\ Mirrors(dict, llist)
        BY <2>3 DEF CacheInv, Cached
      <4>3. AfterAdd(dict', llist', dict, llist, e, a, i)
        BY <3>1, <3>2, <4>1, <4>2, Zenon DEF AfterAdd
      <4>4. e \in Entry
        BY <3>2
      <4> QED BY <3>3, <4>2, <4>3, <4>4, AddMirrors
    <3>5. Cached' = KeysWithout(i) \cup {a} /\ KeysWithout(i) \subseteq Cached
      BY <3>1 DEF Cached, KeysWithout
    <3>6. CompiledForItsAddress'
      <4> SUFFICES ASSUME NEW k \in Cached' PROVE dict'[k].value = Compiled(k)'
        BY DEF CompiledForItsAddress
      <4>1. CASE k = a
        BY <4>1, <3>1, <3>2, <3>5 DEF Compiled
      <4>2. CASE k # a
        BY <4>2, <3>1, <3>5 DEF Compiled, CacheInv, CompiledForItsAddress
      <4> QED BY <4>1, <4>2
    <3> QED BY <3>1, <3>2, <3>3, <3>4, <3>5, <3>6 DEF CacheInv
  <2> QED BY <2>1, <2>2, <2>3
<1>2. ASSUME BeginWait \/ EndWait \/ TimerFires \/ TimerRoutineDone
      PROVE  CacheInv'
  BY <1>2, <1>k DEF BeginWait, EndWait, TimerFires, TimerRoutineDone
<1>3. ASSUME ClearCache
      PROVE  CacheInv'
  BY <1>3, <1>c DEF ClearCache, Clear, CacheInv
<1>4. ASSUME Debug
      PROVE  CacheInv'
  BY <1>4, <1>c DEF Debug, Clear
<1>5. ASSUME UNCHANGED vars
      PROVE  CacheInv'
  BY <1>5, <1>k
<1> QED BY <1>1, <1>2, <1>3, <1>4, <1>5 DEF Next

LEMMA CacheInvAlways == Spec => []CacheInv
<1> QED BY InitCacheInv, NextCacheInv, PTL DEF Spec

(* The two data structures of LruCache.cs stay in step. *)
THEOREM DictionaryAlwaysMirrorsList == Spec => []DictionaryMirrorsList
<1>1. CacheInv => DictionaryMirrorsList
  BY DEF CacheInv, Mirrors, Keys, Distinct, DictionaryMirrorsList, Cached
<1> QED BY CacheInvAlways, <1>1, PTL

(* No stale code is executed, before or after Debug() (ZMachine.cs,         *)
(* JitLoopAsync and the debugger's OneStepAsync).                           *)
Executed == \A a \in Rom \cup Ram : Execute(a) => current' = Compiled(a)

THEOREM AlwaysExecutesWhatIsThere == Spec => ExecutesWhatIsThere
<1>1. CacheInv => Executed
  BY DEF CacheInv, CompiledForItsAddress, Executed, Execute
<1>2. CacheInv /\ [Next]_vars => [Executed]_vars
  BY <1>1
<1> QED BY CacheInvAlways, <1>2, PTL DEF Spec, ExecutesWhatIsThere, Executed

-----------------------------------------------------------------------------
(* The size: that CurrentSize is a sum is an invariant because the list has *)
(* one, whose last terms go with the entries that are removed.              *)
SizeInv ==
    /\ \A i \in 1..Len(llist) : llist[i].size = Size[llist[i].key]
    /\ \E s : PartialSums(s, llist) /\ CurrentSize = s[Len(llist)]
    /\ CurrentSize <= MaxSize \/ Len(llist) = 1
    /\ PeakSize \in Nat /\ PeakSize >= CurrentSize

LEMMA CachedSizes ==
    ASSUME CacheInv
    PROVE  Len(llist) \in Nat /\ Sizes(llist)
<1>1. llist \in Seq(Entry)
  BY DEF CacheInv
<1>2. \A i \in 1..Len(llist) : llist[i] \in Entry
  BY <1>1
<1> QED BY <1>1, <1>2 DEF Sizes, Entry

LEMMA NoSums == PartialSums([i \in {0} |-> 0], <<>>) /\ Len(<<>>) = 0
BY DEF PartialSums

LEMMA InitSizeInv == Init => SizeInv
<1> SUFFICES ASSUME Init PROVE SizeInv
  OBVIOUS
<1>1. llist = <<>> /\ CurrentSize = 0 /\ PeakSize = 0
  BY DEF Init, CacheInit
<1>2. \E s : PartialSums(s, llist) /\ CurrentSize = s[Len(llist)]
  <2> DEFINE z == [i \in {0} |-> 0]
  <2>1. PartialSums(z, llist) /\ CurrentSize = z[Len(llist)]
    BY <1>1, NoSums
  <2> HIDE DEF z
  <2> QED BY <2>1
<1> QED BY <1>1, <1>2, MaxSizeAssumption DEF SizeInv

(* Add, when i entries had to go: the sums of the others are as before.     *)
LEMMA AddKeepsSizes ==
    ASSUME CacheInv, SizeInv, NEW a \in Rom, NEW v, NEW i \in 0..Len(llist),
           Fits(i, Size[a]),
           llist' = <<[key |-> a, value |-> v, size |-> Size[a]]>>
                        \o SubSeq(llist, 1, Len(llist) - i),
           v \in Value,
           CurrentSize' = SizeWithout(i) + Size[a],
           PeakSize' = IF CurrentSize' > PeakSize THEN CurrentSize' ELSE PeakSize
    PROVE  SizeInv'
<1> DEFINE e == [key |-> a, value |-> v, size |-> Size[a]]
           k == Len(llist) - i
<1>0. /\ llist \in Seq(Entry) /\ Len(llist) \in Nat /\ Sizes(llist)
      /\ k \in 0..Len(llist) /\ k \in Nat /\ Size[a] \in Nat
      /\ e \in Entry /\ e.key = a /\ e.size = Size[a]
  <2>1. Size[a] \in Nat \ {0}
    BY CodeAssumption
  <2> QED BY <2>1, CachedSizes, KeyAssumption DEF CacheInv, Entry
<1> HIDE DEF e
<1>1. /\ Len(llist') = k + 1 /\ llist'[1] = e
      /\ \A j \in 2..(k + 1) : llist'[j] = llist[j - 1]
  <2> DEFINE t == SubSeq(llist, 1, k)
  <2>1. t \in Seq(Entry) /\ Len(t) = k /\ \A j \in 1..k : t[j] = llist[j]
    BY <1>0
  <2>2. llist' = <<e>> \o t
    BY DEF e
  <2> HIDE DEF t, k
  <2> QED BY <1>0, <2>1, <2>2
<1>2. PICK s : PartialSums(s, llist) /\ CurrentSize = s[Len(llist)]
  BY DEF SizeInv
<1>3. SizeWithout(i) = s[k]
  BY <1>0, <1>2, SizeWithoutIsASum
<1>4. s[k] \in Nat
  BY <1>0, <1>2 DEF PartialSums
<1> HIDE DEF k
<1>5. PICK u : PartialSums(u, llist') /\ u[Len(llist')] = s[k] + e.size
  <2>1. Added(llist', e, llist, k)
    BY <1>1 DEF Added
  <2>2. Len(llist) \in Nat /\ k \in 0..Len(llist) /\ Sizes(llist) /\ e.size \in Nat
    BY <1>0
  <2>3. ASSUME NEW m, Added(m, e, llist, k)
        PROVE  \E u : PartialSums(u, m) /\ u[Len(m)] = s[k] + e.size
    BY <1>2, <2>2, <2>3, AddedSums
  <2> QED BY <2>1, <2>3
<1>6. CurrentSize' = u[Len(llist')] /\ CurrentSize' \in Nat
  BY <1>0, <1>3, <1>4, <1>5
<1>7. ASSUME NEW j \in 1..(k + 1) PROVE llist'[j].size = Size[llist'[j].key]
  <2>1. j # 1 => j \in 2..(k + 1) /\ j - 1 \in 1..Len(llist)
    BY <1>0
  <2> QED BY <2>1, <1>0, <1>1 DEF SizeInv
<1>8. CurrentSize' <= MaxSize \/ Len(llist') = 1
  <2>1. CASE SizeWithout(i) + Size[a] <= MaxSize
    BY <2>1
  <2>2. CASE i = Len(llist)
    BY <2>2, <1>0, <1>1 DEF k
  <2> QED BY <2>1, <2>2 DEF Fits
<1>9. PeakSize' \in Nat /\ PeakSize' >= CurrentSize'
  <2>1. PeakSize \in Nat
    BY DEF SizeInv
  <2> QED BY <2>1, <1>6
<1>10. \E w : PartialSums(w, llist') /\ CurrentSize' = w[Len(llist')]
  BY <1>5, <1>6
<1> QED BY <1>1, <1>7, <1>8, <1>9, <1>10 DEF SizeInv

LEMMA TouchKeepsSizes ==
    ASSUME CacheInv, SizeInv, NEW i \in 1..Len(llist), llist' = MovedToFront(i),
           CurrentSize' = CurrentSize, PeakSize' = PeakSize
    PROVE  SizeInv'
<1>0. llist \in Seq(Entry) /\ Len(llist) \in Nat /\ Sizes(llist)
  BY CachedSizes DEF CacheInv
<1>1. /\ Len(llist') = Len(llist)
      /\ \A j \in 1..Len(llist) :
             llist'[j] = IF j = 1 THEN llist[i]
                         ELSE IF j <= i THEN llist[j - 1] ELSE llist[j]
  BY <1>0, MovedEntries DEF MovedToFront
<1>2. PICK s : PartialSums(s, llist) /\ CurrentSize = s[Len(llist)]
  BY DEF SizeInv
<1>3. PICK u : PartialSums(u, llist') /\ u[Len(llist')] = s[Len(llist)]
  BY <1>0, <1>1, <1>2, MovedSums
<1>4. \A j \in 1..Len(llist) : llist'[j].size = Size[llist'[j].key]
  <2> SUFFICES ASSUME NEW j \in 1..Len(llist)
               PROVE  llist'[j].size = Size[llist'[j].key]
    OBVIOUS
  <2>1. j # 1 => j - 1 \in 1..Len(llist)
    BY <1>0
  <2>2. PICK x \in 1..Len(llist) : llist'[j] = llist[x]
    BY <1>1, <2>1
  <2> QED BY <2>2 DEF SizeInv
<1>5. \E w : PartialSums(w, llist') /\ CurrentSize' = w[Len(llist')]
  BY <1>2, <1>3
<1> QED BY <1>1, <1>4, <1>5 DEF SizeInv

LEMMA NextSizeInv == CacheInv /\ SizeInv /\ [Next]_vars => SizeInv'
<1> SUFFICES ASSUME CacheInv, SizeInv, [Next]_vars PROVE SizeInv'
  OBVIOUS
<1> USE DEF vars, cacheVars
<1>k. UNCHANGED cacheVars => SizeInv'
  BY Zenon DEF SizeInv
<1>c. Clear => SizeInv'
  <2> SUFFICES ASSUME llist' = <<>>, CurrentSize' = 0, PeakSize' = PeakSize
               PROVE  SizeInv'
    BY DEF Clear
  <2>1. \E s : PartialSums(s, llist') /\ CurrentSize' = s[Len(llist')]
    <3> DEFINE z == [i \in {0} |-> 0]
    <3>1. PartialSums(z, llist') /\ CurrentSize' = z[Len(llist')]
      BY NoSums
    <3> HIDE DEF z
    <3> QED BY <3>1
  <2>2. Len(llist') = 0
    BY NoSums
  <2>3. PeakSize' \in Nat /\ PeakSize' >= CurrentSize' /\ CurrentSize' <= MaxSize
    BY MaxSizeAssumption DEF SizeInv
  <2> QED BY <2>1, <2>2, <2>3 DEF SizeInv
<1>1. ASSUME NEW a \in Rom \cup Ram, Execute(a) PROVE SizeInv'
  <2>1. CASE ~Cacheable(a)
    BY <1>1, <1>k, <2>1 DEF Execute
  <2>2. CASE Cacheable(a) /\ a \in Cached
    BY <1>1, <2>2, TouchKeepsSizes DEF Execute, Touch
  <2>3. CASE Cacheable(a) /\ a \notin Cached
    <3>1. PICK i \in 0..Len(llist) :
              /\ Fits(i, Size[a])
              /\ llist' = <<[key |-> a, value |-> Compiled(a), size |-> Size[a]]>>
                              \o SubSeq(llist, 1, Len(llist) - i)
              /\ CurrentSize' = SizeWithout(i) + Size[a]
              /\ PeakSize' = IF CurrentSize' > PeakSize THEN CurrentSize'
                             ELSE PeakSize
      BY <1>1, <2>3, Zenon DEF Execute, Add
    <3>2. a \in Rom /\ Compiled(a) \in Value
      BY <2>3, KeyAssumption DEF Cacheable, Compiled, CacheInv
    <3> QED BY <3>1, <3>2, AddKeepsSizes
  <2> QED BY <2>1, <2>2, <2>3
<1>2. ASSUME BeginWait \/ EndWait \/ TimerFires \/ TimerRoutineDone
      PROVE  SizeInv'
  BY <1>2, <1>k DEF BeginWait, EndWait, TimerFires, TimerRoutineDone
<1>3. ASSUME ClearCache \/ Debug PROVE SizeInv'
  BY <1>3, <1>c DEF ClearCache, Debug
<1>4. ASSUME UNCHANGED vars PROVE SizeInv'
  BY <1>4, <1>k
<1> QED BY <1>1, <1>2, <1>3, <1>4 DEF Next

LEMMA SizeInvAlways == Spec => []SizeInv
BY InitSizeInv, NextSizeInv, CacheInvAlways, PTL DEF Spec

(* LruCache.cs keeps CurrentSize beside the list: it is what the entries    *)
(* take together, and no more than the limit except for one entry alone.    *)
THEOREM SizeIsAlwaysAccountedFor == Spec => []SizeIsAccountedFor
<1>1. ASSUME CacheInv, SizeInv PROVE SizeIsAccountedFor
  <2>1. PICK s : PartialSums(s, llist) /\ CurrentSize = s[Len(llist)]
    BY <1>1 DEF SizeInv
  <2>2. Len(llist) \in Nat
    BY <1>1, CachedSizes
  <2>3. LET total[i \in 0..Len(llist)] ==
                IF i = 0 THEN 0 ELSE total[i - 1] + llist[i].size
        IN  total[Len(llist)] = s[Len(llist)]
    BY <2>1, <2>2, TotalIsTheLastSum
  <2>4. LET total[i \in 0..Len(llist)] ==
                IF i = 0 THEN 0 ELSE total[i - 1] + llist[i].size
        IN  CurrentSize = total[Len(llist)]
    BY <2>1, <2>3, Zenon
  <2>5. CurrentSize <= MaxSize \/ Len(llist) = 1
    BY <1>1 DEF SizeInv
  <2>6. PeakSize >= CurrentSize
    BY <1>1 DEF SizeInv
  <2> QED BY <2>4, <2>5, <2>6, Zenon DEF SizeIsAccountedFor
<1> QED BY <1>1, CacheInvAlways, SizeInvAlways, PTL

-----------------------------------------------------------------------------
(* Sums over sets of addresses *)

(* s[i] is the size of the code at the first i of the addresses h. *)
AddressSums(s, h, k) ==
    /\ s \in [0..k -> Nat]
    /\ s[0] = 0
    /\ \A i \in 1..k : s[i] = s[i - 1] + Size[h[i]]

(* The same of those that are in S. *)
SumsWithin(t, h, k, S) ==
    /\ t \in [0..k -> Nat]
    /\ t[0] = 0
    /\ \A i \in 1..k : t[i] = t[i - 1] + (IF h[i] \in S THEN Size[h[i]] ELSE 0)

Listed(h, k) == /\ k \in Nat
                /\ h \in [1..k -> Rom]
                /\ \A i, j \in 1..k : h[i] = h[j] => i = j

LEMMA SizesOfCode == \A a \in Rom : Size[a] \in Nat
BY CodeAssumption

LEMMA SumsWithinExist ==
    ASSUME NEW h, NEW k, Listed(h, k), NEW S
    PROVE  \E t : SumsWithin(t, h, k, S)
<1> DEFINE G == [i \in 1..k |-> [v \in Nat |-> v + (IF h[i] \in S THEN Size[h[i]] ELSE 0)]]
<1>1. \A i \in 1..k : Size[h[i]] \in Nat
  BY SizesOfCode DEF Listed
<1>2. \A i \in 1..k : [v \in Nat |-> v + (IF h[i] \in S THEN Size[h[i]] ELSE 0)] \in [Nat -> Nat]
  BY <1>1
<1>3. G \in [1..k -> [Nat -> Nat]]
  BY <1>2
<1>4. k \in Nat /\ 0 \in Nat
  BY DEF Listed
<1>5. PICK t : Iterates(t, k, Nat, 0, G)
  <2> HIDE DEF G
  <2> QED BY <1>3, <1>4, RecursionExists
<1>6. ASSUME NEW i \in 1..k
      PROVE  t[i] = t[i - 1] + (IF h[i] \in S THEN Size[h[i]] ELSE 0)
  <2>1. t[i - 1] \in Nat /\ t[i] = G[i][t[i - 1]]
    BY <1>4, <1>5 DEF Iterates
  <2> QED BY <2>1
<1> QED BY <1>5, <1>6 DEF Iterates, SumsWithin

LEMMA OneAddressLess ==
    ASSUME NEW h, NEW k, Listed(h, k), NEW S, NEW m \in 1..k, h[m] \in S,
           NEW t, SumsWithin(t, h, k, S), NEW u, SumsWithin(u, h, k, S \ {h[m]})
    PROVE  t[k] = u[k] + Size[h[m]]
<1> DEFINE g == [i \in 0..k |-> u[i] + (IF i >= m THEN Size[h[m]] ELSE 0)]
<1>0. k \in Nat /\ h[m] \in Rom /\ Size[h[m]] \in Nat
  BY SizesOfCode DEF Listed
<1>1. \A i \in 0..k : u[i] \in Nat
  BY DEF SumsWithin
<1>2. ASSUME NEW i \in 1..k
      PROVE  g[i] = g[i - 1] + (IF h[i] \in S THEN Size[h[i]] ELSE 0)
  <2>1. /\ i \in 0..k /\ i - 1 \in 0..k /\ u[i] \in Nat /\ u[i - 1] \in Nat
        /\ h[i] \in Rom /\ Size[h[i]] \in Nat
    BY <1>0, <1>1, SizesOfCode DEF Listed
  <2>2. u[i] = u[i - 1] + (IF h[i] \in S \ {h[m]} THEN Size[h[i]] ELSE 0)
    BY DEF SumsWithin
  <2>3. CASE i = m
    BY <2>1, <2>2, <2>3
  <2>4. CASE i # m
    <3>1. h[i] # h[m]
      BY <2>4 DEF Listed
    <3>2. i >= m <=> i - 1 >= m
      BY <2>4
    <3>3. h[i] \in S \ {h[m]} <=> h[i] \in S
      BY <3>1
    <3> QED BY <2>1, <2>2, <3>2, <3>3, <1>0
  <2> QED BY <2>3, <2>4
<1>3. g[0] = 0
  BY <1>0 DEF SumsWithin
<1>4. g[k] = u[k] + Size[h[m]]
  BY <1>0
<1> HIDE DEF g
<1>5. StepAlike(t, g, k)
  BY SMTT(30), <1>0, <1>2, <1>3 DEF StepAlike, SumsWithin
<1>6. t[k] = g[k]
  BY <1>0, <1>5, SameRecursion
<1> QED BY <1>4, <1>6

(* What SizeOf adds up over a set, taking its elements in some order, is    *)
(* what one gets going along a list of them.                                *)
LEMMA SizeOfListed ==
    ASSUME NEW h, NEW k, Listed(h, k), NEW s, AddressSums(s, h, k)
    PROVE  SizeOf({h[i] : i \in 1..k}) = s[k]
<1> DEFINE A == {h[i] : i \in 1..k}
           T(S) == CHOOSE t : SumsWithin(t, h, k, S)
           W == [S \in SUBSET A |-> T(S)[k]]
           sizes[S \in SUBSET A] ==
               IF S = {} THEN 0
               ELSE LET b == CHOOSE b \in S : TRUE IN Size[b] + sizes[S \ {b}]
<1>0. k \in Nat /\ \A i \in 1..k : Size[h[i]] \in Nat
  BY SizesOfCode DEF Listed
<1>1. \A S : SumsWithin(T(S), h, k, S)
  BY SumsWithinExist, Zenon
<1> HIDE DEF T
<1>2. IsFiniteSet(A)
  <2> DEFINE f == [i \in 1..k |-> h[i]]
  <2>1. f \in Surjection(1..k, A)
    BY DEF Surjection
  <2>2. IsFiniteSet(1..k)
    BY <1>0, FS_Interval
  <2> HIDE DEF f, A
  <2> QED BY <2>1, <2>2, FS_Surjection
<1>3. W[{}] = 0
  <2> DEFINE z == [i \in 0..k |-> 0]
  <2>1. StepAlike(T({}), z, k)
    <3>1. \A i \in 1..k : T({})[i] = T({})[i - 1] + 0
      BY <1>1 DEF SumsWithin
    <3>2. T({})[0] = 0
      BY <1>1 DEF SumsWithin
    <3> QED BY <1>0, <3>1, <3>2 DEF StepAlike
  <2> HIDE DEF z
  <2>2. \A i \in 0..k : T({})[i] = z[i]
    BY <2>1, SameRecursion, ZenonT(40)
  <2>3. T({})[k] = z[k]
    BY <2>2, <1>0
  <2> QED BY <2>3, <1>0 DEF z
<1>4. ASSUME NEW S \in SUBSET A, NEW b \in S
      PROVE  W[S] = Size[b] + W[S \ {b}]
  <2>1. PICK m \in 1..k : b = h[m]
    OBVIOUS
  <2>2. T(S)[k] = T(S \ {h[m]})[k] + Size[h[m]]
    BY <2>1, <1>1, OneAddressLess
  <2>3. T(S \ {h[m]})[k] \in Nat /\ Size[h[m]] \in Nat
    BY <1>0, <1>1 DEF SumsWithin
  <2>4. S \ {b} \in SUBSET A
    OBVIOUS
  <2> QED BY <2>1, <2>2, <2>3, <2>4
<1>5. W[A] = s[k]
  <2>1. StepAlike(T(A), s, k)
    <3>1. \A i \in 1..k : T(A)[i] = T(A)[i - 1] + Size[h[i]]
      BY <1>1 DEF SumsWithin
    <3>2. T(A)[0] = 0
      BY <1>1 DEF SumsWithin
    <3> QED BY <1>0, <3>1, <3>2 DEF StepAlike, AddressSums
  <2>2. T(A)[k] = s[k]
    BY <1>0, <2>1, SameRecursion
  <2> QED BY <2>2
<1> HIDE DEF A
<1>6. W = [S \in SUBSET A |->
             IF S = {} THEN 0
             ELSE LET b == CHOOSE b \in S : TRUE IN Size[b] + W[S \ {b}]]
  <2>1. \A S \in SUBSET A : W[S] =
             IF S = {} THEN 0
             ELSE LET b == CHOOSE b \in S : TRUE IN Size[b] + W[S \ {b}]
    <3> HIDE DEF W
    <3> SUFFICES ASSUME NEW S \in SUBSET A, S # {}
                 PROVE  LET b == CHOOSE b \in S : TRUE
                        IN  W[S] = Size[b] + W[S \ {b}]
      BY <1>3
    <3>1. (CHOOSE b \in S : TRUE) \in S
      OBVIOUS
    <3> QED BY <3>1, <1>4, Zenon
  <2> QED BY <2>1
<1> HIDE DEF W
<1>7. sizes = [S \in SUBSET A |->
                  IF S = {} THEN 0
                  ELSE LET b == CHOOSE b \in S : TRUE IN Size[b] + sizes[S \ {b}]]
  BY <1>6, Zenon
<1> HIDE DEF sizes
<1>8. StepAlikeOnSets(sizes, W, A)
  <2>1. {} \in SUBSET A
    OBVIOUS
  <2>2. sizes[{}] = W[{}]
    BY <2>1, <1>3, <1>7
  <2>3. ASSUME NEW S \in SUBSET A, S # {}
        PROVE  \E b \in S : sizes[S \ {b}] = W[S \ {b}] => sizes[S] = W[S]
    <3> DEFINE b == CHOOSE b \in S : TRUE
    <3>1. b \in S
      BY <2>3
    <3>2. sizes[S] = Size[b] + sizes[S \ {b}]
      BY <2>3, <1>7, Zenon
    <3>3. W[S] = Size[b] + W[S \ {b}]
      BY <2>3, <1>6, Zenon
    <3> HIDE DEF b
    <3> QED BY <3>1, <3>2, <3>3
  <2> QED BY <1>2, <2>2, <2>3 DEF StepAlikeOnSets
<1>9. sizes[A] = W[A]
  BY <1>8, SameSetRecursion
<1>10. SizeOf(A) = sizes[A]
  BY Zenon DEF SizeOf, sizes
<1> QED BY <1>5, <1>9, <1>10 DEF A

-----------------------------------------------------------------------------
(* The order of use: the history lists the cached addresses in the order in *)
(* which the list has their entries.                                        *)
Unique(r) == \A i, j \in 1..Len(r) : r[i] = r[j] => i = j

(* p[i] is the place in r of the key of the i-th entry of l. *)
Places(p, r, l) ==
    /\ p \in [1..Len(l) -> 1..Len(r)]
    /\ \A i \in 1..Len(l) : r[p[i]] = l[i].key
    /\ \A i, j \in 1..Len(l) : i < j => p[i] < p[j]

UseInv == /\ recency \in Seq(Rom)
          /\ Unique(recency)
          /\ \E p : Places(p, recency, llist)

(* Where Used puts the x-th address, if it is not the one used. *)
Shifts(sh, r1, r, a) ==
    /\ sh \in [1..Len(r) -> Nat]
    /\ \A x \in 1..Len(r) : r[x] # a => sh[x] \in 2..Len(r1) /\ r1[sh[x]] = r[x]
    /\ \A x, y \in 1..Len(r) : x < y /\ r[x] # a /\ r[y] # a => sh[x] < sh[y]

LEMMA PutFirst ==
    ASSUME NEW S, NEW t \in Seq(S), NEW a \in S
    PROVE  /\ <<a>> \o t \in Seq(S) /\ Len(<<a>> \o t) = Len(t) + 1
           /\ (<<a>> \o t)[1] = a
           /\ \A j \in 2..(Len(t) + 1) : (<<a>> \o t)[j] = t[j - 1]
<1>1. <<a>> \in Seq(S) /\ Len(<<a>>) = 1 /\ <<a>>[1] = a
  OBVIOUS
<1> DEFINE u == <<a>> \o t
<1>2. /\ u \in Seq(S) /\ Len(u) = 1 + Len(t)
      /\ \A j \in 1..(1 + Len(t)) : u[j] = IF j <= 1 THEN <<a>>[j] ELSE t[j - 1]
  BY <1>1, ConcatProperties
<1> HIDE DEF u
<1>3. Len(t) \in Nat
  OBVIOUS
<1>4. u[1] = a /\ \A j \in 2..(Len(t) + 1) : u[j] = t[j - 1]
  BY <1>1, <1>2, <1>3
<1>5. Len(u) = Len(t) + 1
  BY <1>2, <1>3
<1> QED BY <1>2, <1>4, <1>5 DEF u

LEMMA UsedShifts ==
    ASSUME NEW S, NEW r \in Seq(S), Unique(r), NEW a \in S
    PROVE  LET r1 == <<a>> \o RemoveFirst(r, a) IN
           /\ r1 \in Seq(S) /\ Len(r1) \in Nat /\ Len(r1) >= 1 /\ r1[1] = a
           /\ Unique(r1)
           /\ \E sh : Shifts(sh, r1, r, a)
<1> DEFINE t == RemoveFirst(r, a)
           r1 == <<a>> \o t
<1>0. Len(r) \in Nat
  OBVIOUS
<1>1. CASE \A i \in 1..Len(r) : r[i] # a
  <2>1. t = r
    BY <1>1, RemoveFirstProperties
  <2>2. /\ r1 \in Seq(S) /\ Len(r1) = Len(r) + 1 /\ r1[1] = a
        /\ \A j \in 2..(Len(r) + 1) : r1[j] = r[j - 1]
    BY <2>1, PutFirst
  <2> HIDE DEF t, r1
  <2>3. \A j \in 1..(Len(r) + 1) : j = 1 \/ (j - 1 \in 1..Len(r) /\ r1[j] = r[j - 1])
    BY <2>2, <1>0
  <2>4. Unique(r1)
    <3> SUFFICES ASSUME NEW j \in 1..(Len(r) + 1), NEW k \in 1..(Len(r) + 1),
                        r1[j] = r1[k]
                 PROVE  j = k
      BY <2>2 DEF Unique
    <3>1. CASE j = 1 \/ k = 1
      BY <3>1, <2>2, <2>3, <1>1
    <3>2. CASE j # 1 /\ k # 1
      <4>1. j - 1 = k - 1
        BY <3>2, <2>3 DEF Unique
      <4> QED BY <4>1
    <3> QED BY <3>1, <3>2
  <2> DEFINE sh == [x \in 1..Len(r) |-> x + 1]
  <2>5. \A x \in 1..Len(r) : x + 1 \in 2..(Len(r) + 1) /\ r1[x + 1] = r[x]
    BY <2>2, <1>0
  <2>6. Shifts(sh, r1, r, a)
    BY <2>2, <2>5, <1>0 DEF Shifts
  <2> QED BY <2>2, <2>4, <2>6, <1>0 DEF r1, t
<1>2. CASE \E i \in 1..Len(r) : r[i] = a
  <2>1. PICK q \in 1..Len(r) : r[q] = a /\ t = RemoveAt(r, q)
    BY <1>2, RemoveFirstProperties
  <2>2. /\ t \in Seq(S) /\ Len(t) = Len(r) - 1
        /\ \A j \in 1..(Len(r) - 1) : t[j] = IF j < q THEN r[j] ELSE r[j + 1]
    BY <2>1, RemoveAtProperties
  <2>3. /\ r1 \in Seq(S) /\ Len(r1) = Len(t) + 1 /\ r1[1] = a
        /\ \A j \in 2..(Len(t) + 1) : r1[j] = t[j - 1]
    BY <2>2, PutFirst
  <2> HIDE DEF t, r1
  <2>4. Len(r1) = Len(r) /\ q \in Nat /\ q >= 1 /\ q <= Len(r)
    BY <2>2, <2>3, <1>0
  <2>5. ASSUME NEW j \in 2..Len(r)
        PROVE  /\ j - 1 \in 1..Len(r)
               /\ r1[j] = IF j <= q THEN r[j - 1] ELSE r[j]
    <3>1. j - 1 \in 1..(Len(r) - 1) /\ (j - 1) + 1 = j /\ (j - 1 < q <=> j <= q)
      BY <1>0, <2>4
    <3>2. r1[j] = t[j - 1]
      BY <2>2, <2>3, <1>0
    <3> QED BY <3>1, <3>2, <2>2
  <2>6. \A j \in 1..Len(r) : r[j] = a => j = q
    BY <2>1 DEF Unique
  <2>7. Unique(r1)
    <3> SUFFICES ASSUME NEW j \in 1..Len(r), NEW k \in 1..Len(r), r1[j] = r1[k]
                 PROVE  j = k
      BY <2>4 DEF Unique
    <3> DEFINE f(x) == IF x = 1 THEN q ELSE IF x <= q THEN x - 1 ELSE x
    <3>1. \A x \in 1..Len(r) : f(x) \in 1..Len(r) /\ r1[x] = r[f(x)]
      <4> SUFFICES ASSUME NEW x \in 1..Len(r)
                   PROVE  f(x) \in 1..Len(r) /\ r1[x] = r[f(x)]
        OBVIOUS
      <4>1. CASE x = 1
        BY <4>1, <2>1, <2>3
      <4>2. CASE x # 1
        <5>1. x \in 2..Len(r)
          BY <4>2
        <5> QED BY <5>1, <4>2, <2>5
      <4> QED BY <4>1, <4>2
    <3>2. f(j) = f(k)
      <4> HIDE DEF f
      <4> QED BY <3>1 DEF Unique
    <3> QED BY <3>2, <2>4
  <2> DEFINE sh == [x \in 1..Len(r) |-> IF x < q THEN x + 1 ELSE x]
  <2>8. ASSUME NEW x \in 1..Len(r), r[x] # a
        PROVE  sh[x] \in 2..Len(r) /\ r1[sh[x]] = r[x]
    <3>1. x # q
      BY <2>8, <2>1
    <3>2. CASE x < q
      <4>1. x + 1 \in 2..Len(r) /\ x + 1 <= q /\ (x + 1) - 1 = x
        BY <3>2, <2>4
      <4> QED BY <4>1, <3>2, <2>5
    <3>3. CASE x > q
      <4>1. x \in 2..Len(r) /\ ~(x <= q) /\ ~(x < q)
        BY <3>3, <2>4
      <4> QED BY <4>1, <2>5
    <3> QED BY <3>1, <3>2, <3>3, <2>4
  <2>9. \A x, y \in 1..Len(r) : x < y /\ r[x] # a /\ r[y] # a => sh[x] < sh[y]
    <3> SUFFICES ASSUME NEW x \in 1..Len(r), NEW y \in 1..Len(r), x < y,
                        x # q, y # q
                 PROVE  sh[x] < sh[y]
      BY <2>1
    <3> QED BY <2>4
  <2>10. sh \in [1..Len(r) -> Nat]
    BY <1>0
  <2> HIDE DEF sh
  <2>11. Shifts(sh, r1, r, a)
    BY <2>4, <2>8, <2>9, <2>10 DEF Shifts
  <2>12. Len(r1) \in Nat /\ Len(r1) >= 1
    BY <2>4, <1>0
  <2> QED BY <2>3, <2>7, <2>11, <2>12 DEF r1, t
<1> QED BY <1>1, <1>2

(* The list after a use: the entry used is first, and the others, which are *)
(* some of those there were, are in their old order.                        *)
FollowsUse(m, l, a) ==
    /\ Len(m) \in Nat /\ Len(m) >= 1 /\ m[1].key = a
    /\ \E from \in [2..Len(m) -> 1..Len(l)] :
          /\ \A j \in 2..Len(m) : m[j].key = l[from[j]].key /\ m[j].key # a
          /\ \A i, j \in 2..Len(m) : i < j => from[i] < from[j]

LEMMA UseKeepsPlaces ==
    ASSUME NEW l, NEW m, NEW r, NEW r1, NEW a, NEW p, NEW sh,
           Len(l) \in Nat, Len(r) \in Nat,
           Len(r1) \in Nat, Len(r1) >= 1, r1[1] = a,
           Shifts(sh, r1, r, a), FollowsUse(m, l, a), Places(p, r, l)
    PROVE  \E u : Places(u, r1, m)
<1>1. PICK from \in [2..Len(m) -> 1..Len(l)] :
          /\ \A j \in 2..Len(m) : m[j].key = l[from[j]].key /\ m[j].key # a
          /\ \A i, j \in 2..Len(m) : i < j => from[i] < from[j]
  BY DEF FollowsUse
<1> DEFINE u == [j \in 1..Len(m) |-> IF j = 1 THEN 1 ELSE sh[p[from[j]]]]
<1>2. ASSUME NEW j \in 2..Len(m)
      PROVE  /\ from[j] \in 1..Len(l) /\ p[from[j]] \in 1..Len(r)
             /\ r[p[from[j]]] = m[j].key /\ r[p[from[j]]] # a
             /\ sh[p[from[j]]] \in 2..Len(r1)
             /\ r1[sh[p[from[j]]]] = m[j].key
  <2>1. from[j] \in 1..Len(l)
    BY <1>1
  <2>2. p[from[j]] \in 1..Len(r) /\ r[p[from[j]]] = l[from[j]].key
    BY <2>1 DEF Places
  <2>3. r[p[from[j]]] = m[j].key /\ r[p[from[j]]] # a
    BY <2>2, <1>1
  <2> QED BY <2>1, <2>2, <2>3 DEF Shifts
<1>3. \A j \in 1..Len(m) : j = 1 \/ j \in 2..Len(m)
  BY DEF FollowsUse
<1>4. \A j \in 2..Len(m) : j \in 1..Len(m) /\ j # 1
  OBVIOUS
<1>5. 1 \in 1..Len(m) /\ 1 \in 1..Len(r1) /\ \A x \in 2..Len(r1) : x \in 1..Len(r1)
  BY DEF FollowsUse
<1>6. u \in [1..Len(m) -> 1..Len(r1)]
  <2>1. \A j \in 1..Len(m) :
            (IF j = 1 THEN 1 ELSE sh[p[from[j]]]) \in 1..Len(r1)
    BY <1>2, <1>3, <1>5
  <2> QED BY <2>1
<1>7. \A j \in 1..Len(m) : r1[u[j]] = m[j].key
  BY <1>2, <1>3 DEF FollowsUse
<1>8. ASSUME NEW i \in 1..Len(m), NEW j \in 1..Len(m), i < j
      PROVE  u[i] < u[j]
  <2>1. j \in 2..Len(m) /\ u[j] = sh[p[from[j]]] /\ u[j] \in 2..Len(r1)
    BY <1>2, <1>3, <1>8
  <2>2. CASE i = 1
    BY <2>1, <2>2
  <2>3. CASE i # 1
    <3>1. i \in 2..Len(m) /\ u[i] = sh[p[from[i]]]
      BY <2>3
    <3>2. from[i] < from[j]
      BY <3>1, <2>1, <1>1, <1>8
    <3>3. p[from[i]] < p[from[j]]
      BY <3>1, <3>2, <2>1, <1>2 DEF Places
    <3> QED BY <3>1, <3>3, <2>1, <1>2 DEF Shifts
  <2> QED BY <2>2, <2>3
<1> HIDE DEF u
<1>9. Places(u, r1, m)
  BY <1>6, <1>7, <1>8 DEF Places
<1> QED BY <1>9

LEMMA InitUseInv == Init => UseInv
<1> SUFFICES ASSUME Init PROVE UseInv
  OBVIOUS
<1>1. recency = <<>> /\ llist = <<>> /\ 1..Len(<<>>) = {} /\ <<>> \in Seq(Rom)
  BY DEF Init, CacheInit
<1>2. Places(<<>>, recency, llist)
  BY <1>1 DEF Places
<1> QED BY <1>1, <1>2 DEF UseInv, Unique

LEMMA FollowedUse ==
    ASSUME CacheInv, UseInv, NEW a \in Rom, recency' = Used(a),
           FollowsUse(llist', llist, a)
    PROVE  UseInv'
<1>0. Len(llist) \in Nat /\ recency \in Seq(Rom) /\ Len(recency) \in Nat
  BY CachedSizes DEF UseInv
<1>1. PICK p : Places(p, recency, llist)
  BY DEF UseInv
<1>2. /\ recency' \in Seq(Rom) /\ Len(recency') \in Nat /\ Len(recency') >= 1
      /\ recency'[1] = a /\ Unique(recency')
      /\ \E sh : Shifts(sh, recency', recency, a)
  BY UsedShifts DEF Used, UseInv
<1>3. PICK sh : Shifts(sh, recency', recency, a)
  BY <1>2
<1>4. \E u : Places(u, recency', llist')
  BY <1>0, <1>1, <1>2, <1>3, UseKeepsPlaces
<1> QED BY <1>2, <1>4 DEF UseInv

LEMMA TouchFollowsUse ==
    ASSUME CacheInv, NEW i \in 1..Len(llist), llist' = MovedToFront(i)
    PROVE  FollowsUse(llist', llist, llist[i].key)
<1>0. llist \in Seq(Entry) /\ Len(llist) \in Nat /\ Distinct(llist)
  BY CachedSizes DEF CacheInv, Mirrors
<1>1. /\ Len(llist') = Len(llist)
      /\ \A j \in 1..Len(llist) :
             llist'[j] = IF j = 1 THEN llist[i]
                         ELSE IF j <= i THEN llist[j - 1] ELSE llist[j]
  BY <1>0, MovedEntries DEF MovedToFront
<1> DEFINE from == [j \in 2..Len(llist) |-> IF j <= i THEN j - 1 ELSE j]
<1>2. ASSUME NEW j \in 2..Len(llist)
      PROVE  /\ from[j] \in 1..Len(llist) /\ from[j] # i
             /\ llist'[j] = llist[from[j]]
  <2>1. j \in 1..Len(llist) /\ j # 1 /\ j - 1 \in 1..Len(llist)
    BY <1>0
  <2> QED BY <2>1, <1>1
<1>3. \A j \in 2..Len(llist) : llist'[j].key # llist[i].key
  BY <1>2 DEF Distinct, CacheInv, Mirrors
<1>4. \A j, k \in 2..Len(llist) : j < k => from[j] < from[k]
  BY <1>0
<1>5. from \in [2..Len(llist) -> 1..Len(llist)]
  BY <1>2
<1>6. llist'[1].key = llist[i].key /\ Len(llist) >= 1
  BY <1>0, <1>1
<1> HIDE DEF from
<1> QED BY <1>0, <1>1, <1>2, <1>3, <1>4, <1>5, <1>6 DEF FollowsUse

LEMMA AddFollowsUse ==
    ASSUME CacheInv, NEW a \in Rom, NEW v \in Value, a \notin Cached,
           NEW i \in 0..Len(llist),
           llist' = <<[key |-> a, value |-> v, size |-> Size[a]]>>
                        \o SubSeq(llist, 1, Len(llist) - i)
    PROVE  FollowsUse(llist', llist, a)
<1> DEFINE e == [key |-> a, value |-> v, size |-> Size[a]]
           k == Len(llist) - i
           t == SubSeq(llist, 1, k)
<1>0. /\ llist \in Seq(Entry) /\ Len(llist) \in Nat
      /\ k \in 0..Len(llist) /\ k \in Nat /\ e \in Entry /\ e.key = a
  <2>1. Size[a] \in Nat \ {0}
    BY CodeAssumption
  <2> QED BY <2>1, CachedSizes, KeyAssumption DEF CacheInv, Entry
<1>1. t \in Seq(Entry) /\ Len(t) = k /\ \A j \in 1..k : t[j] = llist[j]
  BY <1>0
<1> HIDE DEF e, t, k
<1>2. llist' = <<e>> \o t
  BY DEF e, t, k
<1>3. /\ Len(llist') = k + 1 /\ llist'[1] = e
      /\ \A j \in 2..(k + 1) : llist'[j] = t[j - 1]
  BY <1>0, <1>1, <1>2, PutFirst
<1> DEFINE from == [j \in 2..(k + 1) |-> j - 1]
<1>4. ASSUME NEW j \in 2..(k + 1)
      PROVE  /\ from[j] \in 1..Len(llist) /\ llist'[j] = llist[from[j]]
  <2>1. j - 1 \in 1..k /\ j - 1 \in 1..Len(llist)
    BY <1>0
  <2> QED BY <2>1, <1>1, <1>3
<1>5. \A x \in 1..Len(llist) : llist[x].key # a
  BY DEF CacheInv, Mirrors, Keys, Cached
<1>6. \A x, y \in 2..(k + 1) : x < y => from[x] < from[y]
  OBVIOUS
<1>7. from \in [2..(k + 1) -> 1..Len(llist)]
  BY <1>4
<1>8. \A j \in 2..(k + 1) : llist'[j].key # a /\ llist'[j].key = llist[from[j]].key
  BY <1>4, <1>5
<1> HIDE DEF from
<1>9. ASSUME NEW m, NEW n \in Nat, n = k + 1, Len(m) = n, m[1].key = a,
             \A j \in 2..n : m[j].key # a /\ m[j].key = llist[from[j]].key
      PROVE  FollowsUse(m, llist, a)
  <2>1. from \in [2..Len(m) -> 1..Len(llist)]
    BY <1>7, <1>9
  <2>2. \A x, y \in 2..Len(m) : x < y => from[x] < from[y]
    BY <1>6, <1>9
  <2>3. Len(m) \in Nat /\ Len(m) >= 1
    BY <1>0, <1>9
  <2> QED BY <1>9, <2>1, <2>2, <2>3 DEF FollowsUse
<1>10. k + 1 \in Nat /\ llist'[1].key = a
  BY <1>0, <1>3
<1> QED BY <1>3, <1>8, <1>9, <1>10, Zenon

LEMMA NextUseInv == CacheInv /\ UseInv /\ [Next]_vars => UseInv'
<1> SUFFICES ASSUME CacheInv, UseInv, [Next]_vars PROVE UseInv'
  OBVIOUS
<1> USE DEF vars, cacheVars
<1>k. UNCHANGED <<llist, recency>> => UseInv'
  BY Zenon DEF UseInv
<1>c. ASSUME llist' = <<>>, recency' = <<>> PROVE UseInv'
  <2>1. 1..Len(<<>>) = {} /\ <<>> \in Seq(Rom)
    OBVIOUS
  <2>2. Places(<<>>, recency', llist')
    BY <1>c, <2>1 DEF Places
  <2> QED BY <1>c, <2>1, <2>2 DEF UseInv, Unique
<1>1. ASSUME NEW a \in Rom \cup Ram, Execute(a) PROVE UseInv'
  <2>1. CASE ~Cacheable(a)
    BY <1>1, <1>k, <2>1 DEF Execute
  <2>2. CASE Cacheable(a) /\ a \in Cached
    <3>1. PICK i \in 1..Len(llist) : llist[i] = dict[a] /\ llist' = MovedToFront(i)
      BY <1>1, <2>2 DEF Execute, Touch
    <3>2. llist[i].key = a
      <4>1. PICK j \in 1..Len(llist) : llist[j].key = a
        BY <2>2 DEF CacheInv, Mirrors, Keys, Cached
      <4>2. dict[a] = llist[j]
        BY <4>1 DEF CacheInv, Mirrors
      <4> QED BY <3>1, <4>1, <4>2
    <3>3. a \in Rom /\ recency' = Used(a)
      BY <1>1, <2>2 DEF Execute, Cacheable
    <3>4. FollowsUse(llist', llist, a)
      BY <3>1, <3>2, TouchFollowsUse
    <3> QED BY <3>3, <3>4, FollowedUse
  <2>3. CASE Cacheable(a) /\ a \notin Cached
    <3>1. PICK i \in 0..Len(llist) :
              llist' = <<[key |-> a, value |-> Compiled(a), size |-> Size[a]]>>
                              \o SubSeq(llist, 1, Len(llist) - i)
      BY <1>1, <2>3, Zenon DEF Execute, Add
    <3>2. a \in Rom /\ Compiled(a) \in Value /\ recency' = Used(a)
      BY <1>1, <2>3, KeyAssumption DEF Execute, Cacheable, Compiled, CacheInv
    <3>3. FollowsUse(llist', llist, a)
      BY <2>3, <3>1, <3>2, AddFollowsUse
    <3> QED BY <3>2, <3>3, FollowedUse
  <2> QED BY <2>1, <2>2, <2>3
<1>2. ASSUME BeginWait \/ EndWait \/ TimerFires \/ TimerRoutineDone
      PROVE  UseInv'
  BY <1>2, <1>k DEF BeginWait, EndWait, TimerFires, TimerRoutineDone
<1>3. ASSUME ClearCache \/ Debug PROVE UseInv'
  BY <1>3, <1>c DEF ClearCache, Debug, Clear
<1>4. ASSUME UNCHANGED vars PROVE UseInv'
  BY <1>4, <1>k
<1> QED BY <1>1, <1>2, <1>3, <1>4 DEF Next

LEMMA UseInvAlways == Spec => []UseInv
BY InitUseInv, NextUseInv, CacheInvAlways, PTL DEF Spec

-----------------------------------------------------------------------------
(* Eviction *)

(* The first j entries are those that were used no earlier than the j-th.   *)
LEMMA UsedNoEarlier ==
    ASSUME CacheInv, UseInv, NEW j \in 1..Len(llist)
    PROVE  {b \in Cached : b = llist[j].key \/ Before(b, llist[j].key)}
             = {llist[x].key : x \in 1..j}
<1>0. /\ Len(llist) \in Nat /\ Len(recency) \in Nat
      /\ \A x \in 1..j : x \in 1..Len(llist)
  BY CachedSizes DEF UseInv
<1>1. PICK p : Places(p, recency, llist)
  BY DEF UseInv
<1>2. \A x \in 1..Len(llist) : /\ p[x] \in 1..Len(recency)
                               /\ recency[p[x]] = llist[x].key
                               /\ llist[x].key \in Cached
  BY <1>1 DEF Places, CacheInv, Mirrors, Keys, Cached
<1>3. ASSUME NEW x \in 1..j, x # j PROVE Before(llist[x].key, llist[j].key)
  <2>1. x < j
    BY <1>3
  <2>2. p[x] < p[j]
    BY <2>1, <1>0, <1>1 DEF Places
  <2> QED BY <2>2, <1>0, <1>2 DEF Before
<1>4. ASSUME NEW b \in Cached, Before(b, llist[j].key)
      PROVE  \E x \in 1..j : b = llist[x].key
  <2>1. PICK x \in 1..Len(llist) : llist[x].key = b
    BY DEF CacheInv, Mirrors, Keys, Cached
  <2>2. PICK f \in 1..Len(recency), g \in 1..Len(recency) :
            f < g /\ recency[f] = b /\ recency[g] = llist[j].key
    BY <1>4 DEF Before
  <2>3. f = p[x] /\ g = p[j]
    BY SMTT(30), <2>1, <2>2, <1>2 DEF UseInv, Unique
  <2>4. p[x] < p[j] /\ p[x] \in Nat /\ p[j] \in Nat
    BY <2>2, <2>3
  <2>5. ~(j <= x)
    <3> SUFFICES ASSUME j <= x PROVE FALSE
      OBVIOUS
    <3>1. CASE j = x
      BY <3>1, <2>4
    <3>2. CASE j < x
      <4>1. p[j] < p[x]
        BY <3>2, <1>1 DEF Places
      <4> QED BY <4>1, <2>4
    <3> QED BY <3>1, <3>2
  <2>6. x \in 1..j
    BY <2>5
  <2> QED BY <2>1, <2>6
<1>5. \A b : b \in {c \in Cached : c = llist[j].key \/ Before(c, llist[j].key)}
               <=> b \in {llist[x].key : x \in 1..j}
  <2>1. j \in 1..j
    BY <1>0
  <2> QED BY <2>1, <1>0, <1>2, <1>3, <1>4
<1> QED BY <1>5

LEMMA SizeOfTheFirst ==
    ASSUME CacheInv, SizeInv, NEW s, PartialSums(s, llist), NEW j \in 1..Len(llist)
    PROVE  SizeOf({llist[x].key : x \in 1..j}) = s[j]
<1> DEFINE h == [x \in 1..j |-> llist[x].key]
           u == [x \in 0..j |-> s[x]]
<1>0. /\ Len(llist) \in Nat /\ j \in Nat /\ llist \in Seq(Entry)
      /\ \A x \in 1..j : x \in 1..Len(llist)
      /\ \A x \in 0..j : x \in 0..Len(llist)
  BY CachedSizes DEF CacheInv
<1>1. \A x \in 1..j : llist[x].key \in Rom
  <2> SUFFICES ASSUME NEW x \in 1..j PROVE llist[x].key \in Rom
    OBVIOUS
  <2>1. x \in 1..Len(llist)
    BY <1>0
  <2>2. llist[x] \in Entry
    BY <1>0, <2>1
  <2> QED BY <2>2, KeyAssumption DEF Entry
<1>2. Listed(h, j)
  <2>1. h \in [1..j -> Rom]
    BY <1>1
  <2>2. \A x, y \in 1..j : h[x] = h[y] => x = y
    BY <1>0 DEF CacheInv, Mirrors, Distinct
  <2> HIDE DEF h
  <2> QED BY <1>0, <2>1, <2>2 DEF Listed
<1>3. AddressSums(u, h, j)
  <2>1. u \in [0..j -> Nat] /\ u[0] = 0
    BY SMTT(30), <1>0 DEF PartialSums
  <2>2. ASSUME NEW x \in 1..j PROVE u[x] = u[x - 1] + Size[h[x]]
    <3>1. x \in 1..Len(llist) /\ x - 1 \in 0..j /\ x \in 0..j
      BY <1>0
    <3>2. s[x] = s[x - 1] + llist[x].size /\ llist[x].size = Size[llist[x].key]
      BY <3>1 DEF PartialSums, SizeInv
    <3> QED BY <3>1, <3>2
  <2> HIDE DEF h, u
  <2> QED BY <2>1, <2>2 DEF AddressSums
<1>4. SizeOf({h[x] : x \in 1..j}) = u[j]
  <2> HIDE DEF h, u
  <2> QED BY <1>2, <1>3, SizeOfListed
<1>5. {h[x] : x \in 1..j} = {llist[x].key : x \in 1..j}
  OBVIOUS
<1>6. u[j] = s[j]
  BY <1>0
<1> QED BY <1>4, <1>5, <1>6, Zenon

EvictsWell ==
    \A a \in Rom : Execute(a) =>
        \A gone \in Evicted :
            /\ \A kept \in Cached \ Evicted : Before(kept, gone)
            /\ SizeOf({b \in Cached : b = gone \/ Before(b, gone)}) + Size[a] > MaxSize

LEMMA StepEvictsWell == CacheInv /\ SizeInv /\ UseInv => EvictsWell
<1> SUFFICES ASSUME CacheInv, SizeInv, UseInv, NEW a \in Rom, Execute(a),
                    NEW gone \in Evicted
             PROVE  /\ \A kept \in Cached \ Evicted : Before(kept, gone)
                    /\ SizeOf({b \in Cached : b = gone \/ Before(b, gone)}) + Size[a]
                          > MaxSize
  BY DEF EvictsWell
<1>0. /\ llist \in Seq(Entry) /\ Len(llist) \in Nat /\ Sizes(llist)
      /\ gone \in Cached /\ gone \notin Cached'
  BY CachedSizes DEF CacheInv, Evicted
<1>1. a \notin Cached
  <2> SUFFICES ASSUME a \in Cached PROVE FALSE
    OBVIOUS
  <2>1. dict' = dict
    BY DEF Execute, Cacheable, Touch, cacheVars
  <2> QED BY <2>1, <1>0 DEF Cached
<1>2. PICK i \in 0..Len(llist) :
          /\ \A m \in 0..(i - 1) : ~Fits(m, Size[a])
          /\ dict' = [k \in KeysWithout(i) \cup {a} |->
                         IF k = a THEN [key |-> a, value |-> Compiled(a), size |-> Size[a]]
                         ELSE dict[k]]
  BY <1>1, Zenon DEF Execute, Cacheable, Add
<1>3. Cached' = KeysWithout(i) \cup {a}
  BY <1>2 DEF Cached
<1>4. PICK j \in (Len(llist) - i + 1)..Len(llist) : gone = llist[j].key
  BY <1>0, <1>3 DEF KeysWithout
<1>5. /\ j \in 1..Len(llist) /\ Len(llist) - j \in 0..(i - 1)
      /\ Len(llist) - j \in 0..Len(llist) /\ Len(llist) - j # Len(llist)
      /\ Len(llist) - (Len(llist) - j) = j
  BY <1>0, <1>4
<1>6. ASSUME NEW kept \in Cached \ Evicted PROVE Before(kept, gone)
  <2>1. PICK x \in 1..Len(llist) : llist[x].key = kept
    BY <1>6 DEF CacheInv, Mirrors, Keys, Cached
  <2>2. kept \in KeysWithout(i)
    BY <1>1, <1>3, <1>6 DEF Evicted
  <2>3. x \notin (Len(llist) - i + 1)..Len(llist)
    BY <2>1, <2>2 DEF KeysWithout
  <2>4. x < j
    BY <2>3, <1>0, <1>4
  <2>5. PICK p : Places(p, recency, llist)
    BY DEF UseInv
  <2>6. /\ p[x] \in 1..Len(recency) /\ p[j] \in 1..Len(recency)
        /\ recency[p[x]] = kept /\ recency[p[j]] = gone /\ p[x] < p[j]
    BY <2>1, <2>4, <2>5, <1>4, <1>5 DEF Places
  <2> QED BY <2>6 DEF Before
<1>7. PICK s : PartialSums(s, llist) /\ CurrentSize = s[Len(llist)]
  BY DEF SizeInv
<1>8. SizeOf({b \in Cached : b = gone \/ Before(b, gone)}) = s[j]
  BY <1>4, <1>5, <1>7, UsedNoEarlier, SizeOfTheFirst
<1>9. SizeWithout(Len(llist) - j) = s[j]
  <2>1. SizeWithout(Len(llist) - j) = s[Len(llist) - (Len(llist) - j)]
    BY <1>0, <1>5, <1>7, SizeWithoutIsASum
  <2> QED BY <2>1, <1>5
<1>10. ~Fits(Len(llist) - j, Size[a])
  BY <1>2, <1>5
<1>11. ~(s[j] + Size[a] <= MaxSize)
  BY <1>9, <1>10 DEF Fits
<1>12. s[j] \in Nat /\ Size[a] \in Nat
  BY <1>0, <1>5, <1>7, SizesOfCode DEF PartialSums
<1>13. s[j] + Size[a] > MaxSize
  BY <1>11, <1>12, MaxSizeAssumption
<1> QED BY <1>6, <1>8, <1>13

(* Making room takes the least recently used fragments, and no more of them *)
(* than it must (LruCache.cs, Add and TryGetValue).                         *)
THEOREM AlwaysEvictsLeastRecent == Spec => EvictsLeastRecent
<1>1. CacheInv /\ SizeInv /\ UseInv /\ [Next]_vars => [EvictsWell]_vars
  BY StepEvictsWell
<1> QED BY <1>1, CacheInvAlways, SizeInvAlways, UseInvAlways, PTL
        DEF Spec, EvictsLeastRecent, EvictsWell

-----------------------------------------------------------------------------
(* Types *)

IsFunction(f) == f = [k \in DOMAIN f |-> f[k]]

LEMMA EmptyIsFunction == IsFunction(<<>>)
BY DEF IsFunction

ControlOK == /\ IsFunction(dict)
             /\ clearable \in BOOLEAN /\ executing \in BOOLEAN
             /\ waits \in 0..MaxWaits
             /\ current \in Value \cup {Nothing}

LEMMA InitControlOK == Init => ControlOK
<1> SUFFICES ASSUME Init PROVE ControlOK
  OBVIOUS
<1>1. waits \in 0..MaxWaits
  BY BoundAssumption DEF Init
<1>2. /\ IsFunction(dict) /\ current = Nothing
      /\ clearable \in BOOLEAN /\ executing \in BOOLEAN
  BY EmptyIsFunction DEF Init, CacheInit
<1> QED BY <1>1, <1>2, Zenon DEF ControlOK

LEMMA NextControlOK == CacheInv /\ ControlOK /\ [Next]_vars => ControlOK'
<1> SUFFICES ASSUME CacheInv, ControlOK, [Next]_vars PROVE ControlOK'
  OBVIOUS
<1> USE DEF ControlOK, Nothing
<1>k. ASSUME dict' = dict PROVE IsFunction(dict')
  BY <1>k
<1>1. ASSUME NEW a \in Rom \cup Ram, Execute(a) PROVE ControlOK'
  <2>1. Compiled(a) \in Value
    BY KeyAssumption DEF Compiled, CacheInv
  <2>2. current' = Compiled(a)
    BY <1>1, Zenon DEF Execute, CacheInv, CompiledForItsAddress
  <2>3. UNCHANGED <<clearable, waits, executing>>
    BY <1>1 DEF Execute
  <2>4. IsFunction(dict')
    <3>1. CASE dict' = dict
      BY <3>1, <1>k
    <3>2. CASE a \notin Cached /\ Cacheable(a)
      <4>1. PICK i \in 0..Len(llist) :
                dict' = [k \in KeysWithout(i) \cup {a} |->
                            IF k = a
                            THEN [key |-> a, value |-> Compiled(a), size |-> Size[a]]
                            ELSE dict[k]]
        BY <1>1, <3>2, Zenon DEF Execute, Add
      <4> QED BY <4>1 DEF IsFunction
    <3>3. CASE ~Cacheable(a) \/ a \in Cached
      BY <1>1, <3>1, <3>3 DEF Execute, Touch, cacheVars
    <3> QED BY <3>2, <3>3
  <2> QED BY <2>1, <2>2, <2>3, <2>4
<1>2. ASSUME BeginWait PROVE ControlOK'
  <2>1. waits' \in 0..MaxWaits
    BY <1>2, BoundAssumption DEF BeginWait
  <2>2. dict' = dict /\ clearable' = TRUE /\ executing' = FALSE /\ current' = current
    BY <1>2 DEF BeginWait, cacheVars
  <2>3. IsFunction(dict')
    BY <2>2, <1>k
  <2> QED BY <2>1, <2>2, <2>3, Zenon
<1>3. ASSUME EndWait PROVE ControlOK'
  <2>1. waits' \in 0..MaxWaits
    BY <1>3, BoundAssumption DEF EndWait
  <2>2. dict' = dict /\ clearable' = FALSE /\ executing' = TRUE /\ current' = current
    BY <1>3 DEF EndWait, cacheVars
  <2>3. IsFunction(dict')
    BY <2>2, <1>k
  <2> QED BY <2>1, <2>2, <2>3, Zenon
<1>4. ASSUME TimerFires \/ TimerRoutineDone PROVE ControlOK'
  BY <1>4, <1>k DEF TimerFires, TimerRoutineDone, cacheVars
<1>5. ASSUME ClearCache \/ Debug PROVE ControlOK'
  BY <1>5, EmptyIsFunction DEF ClearCache, Debug, Clear
<1>6. ASSUME UNCHANGED vars PROVE ControlOK'
  BY <1>6, <1>k DEF vars, cacheVars
<1> QED BY <1>1, <1>2, <1>3, <1>4, <1>5, <1>6 DEF Next

LEMMA ControlAlwaysOK == Spec => []ControlOK
BY InitControlOK, NextControlOK, CacheInvAlways, PTL DEF Spec

LEMMA CachedEntries ==
    ASSUME CacheInv, SizeInv
    PROVE  CurrentSize \in Nat /\ \A k \in Cached : dict[k] \in Entry
<1>1. llist \in Seq(Entry) /\ Len(llist) \in Nat
  BY DEF CacheInv
<1>2. PICK s : PartialSums(s, llist) /\ CurrentSize = s[Len(llist)]
  BY DEF SizeInv
<1>3. CurrentSize \in Nat
  BY <1>1, <1>2 DEF PartialSums
<1>4. ASSUME NEW k \in Cached PROVE dict[k] \in Entry
  <2>1. PICK j \in 1..Len(llist) : llist[j].key = k
    BY DEF CacheInv, Mirrors, Keys, Cached
  <2>2. dict[k] = llist[j]
    BY <2>1 DEF CacheInv, Mirrors
  <2> QED BY <1>1, <2>1, <2>2
<1> QED BY <1>3, <1>4

(* Every entry is one that Add made, and every counter is within its range. *)
THEOREM CacheAlwaysTyped == Spec => []TypeOK
<1>1. ASSUME CacheInv, SizeInv, ControlOK PROVE TypeOK
  <2>1. dict \in [Cached -> Entry]
    BY <1>1, CachedEntries, Zenon DEF Cached, ControlOK, IsFunction
  <2>2. llist \in Seq(Entry) /\ Cached \subseteq Key /\ debugging \in BOOLEAN
    BY <1>1 DEF CacheInv
  <2>3. CurrentSize \in Nat /\ PeakSize \in Nat
    BY <1>1, CachedEntries DEF SizeInv
  <2> QED BY <1>1, <2>1, <2>2, <2>3 DEF TypeOK, CacheTypeOK, ControlOK
<1> QED BY <1>1, CacheInvAlways, SizeInvAlways, ControlAlwaysOK, PTL
=============================================================================
