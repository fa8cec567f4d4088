-------------------------- MODULE GameState_proofs --------------------------
(* The state of a game: its objects, and the machine that a file brings     *)
(* back.  First ObjectTree: for any number of objects and any sequence of   *)
(* insertions and removals, between two of them the links of the object     *)
(* table agree, every list of children has an end, and the table implements *)
(* ObjectForest's lists.  (That InsertObject's own loop ends follows from   *)
(* the same ranking, but is liveness and left to TLC.)                      *)
(*                                                                          *)
(* Then SavedGames: for every story, machine and set of save instructions,  *)
(* what Quetzal writes is read back whole, and a file that ends early is    *)
(* never taken for a game.                                                  *)
EXTENDS ObjectTree, SavedGames, Induction

-----------------------------------------------------------------------------
(* ObjectTree *)

(* The table without object o: what holds between unlinking and linking it. *)
Loose(o, pa, si, ch) ==
    /\ Linked([pa EXCEPT ![o] = 0], [si EXCEPT ![o] = 0], ch)
    /\ \A q \in Object : q # o => si[q] # o
    /\ \A p \in Object : ch[p] # o

Links == [Object -> Link]

LEMMA LooseWithoutParent ==
    ASSUME NEW pa \in Links, NEW si \in Links, NEW ch \in Links,
           Linked(pa, si, ch), NEW o \in Object, pa[o] = 0
    PROVE  Loose(o, pa, si, ch)
<1>1. si[o] = 0
  BY DEF Linked, Siblings
<1>2. [pa EXCEPT ![o] = 0] = pa /\ [si EXCEPT ![o] = 0] = si
  BY <1>1 DEF Links
<1>3. \A q \in Object : si[q] # o
  BY DEF Linked, Siblings, Object
<1>4. \A p \in Object : ch[p] # o
  BY DEF Linked, FirstChildren, Object
<1> QED BY <1>2, <1>3, <1>4 DEF Loose

(* Unlinking a first child. *)
LEMMA LooseFirst ==
    ASSUME NEW pa \in Links, NEW si \in Links, NEW ch \in Links,
           Linked(pa, si, ch), NEW o \in Object, pa[o] # 0, ch[pa[o]] = o
    PROVE  Loose(o, pa, si, [ch EXCEPT ![pa[o]] = si[o]])
<1> DEFINE pa0 == [pa EXCEPT ![o] = 0]
           si0 == [si EXCEPT ![o] = 0]
           ch1 == [ch EXCEPT ![pa[o]] = si[o]]
<1>f. /\ FirstChildren(pa, si, ch) /\ Siblings(pa, si)
      /\ \A q \in Object : Reached(q, pa, si, ch)
  BY DEF Linked
<1>p. pa[o] \in Object /\ o # 0
  BY DEF Links, Link, Object
<1>s. \A q \in Object : si[q] # o
  BY <1>f, <1>p DEF FirstChildren
<1>c. \A p \in Object : p # pa[o] => ch[p] # o
  BY <1>f, <1>p DEF FirstChildren
<1>d. /\ \A q \in Object : pa0[q] = IF q = o THEN 0 ELSE pa[q]
      /\ \A q \in Object : si0[q] = IF q = o THEN 0 ELSE si[q]
      /\ \A q \in Object : ch1[q] = IF q = pa[o] THEN si[o] ELSE ch[q]
  BY DEF Links
<1>e. \A q \in Object : si[q] # 0 => si[q] \in Object
  BY DEF Links, Link, Object
<1>g. \A q \in Object : ch[q] # 0 => ch[q] \in Object
  BY DEF Links, Link, Object
<1> HIDE DEF pa0, si0, ch1
<1>1. FirstChildren(pa0, si0, ch1)
  BY <1>f, <1>p, <1>s, <1>c, <1>d, <1>e, <1>g DEF FirstChildren, Siblings
<1>2. Siblings(pa0, si0)
  BY <1>f, <1>p, <1>s, <1>d, <1>e DEF Siblings
<1>3. \A q \in Object : Reached(q, pa0, si0, ch1)
  <2> SUFFICES ASSUME NEW q \in Object, pa0[q] # 0
               PROVE  ch1[pa0[q]] = q \/ \E r \in Object : si0[r] = q
    BY DEF Reached
  <2>1. q # o /\ pa0[q] = pa[q] /\ pa[q] \in Object
    BY <1>d DEF Links, Link, Object
  <2>2. ch[pa[q]] = q \/ \E r \in Object : si[r] = q
    BY <1>f, <2>1 DEF Reached
  <2>3. CASE ch[pa[q]] = q
    BY <1>d, <2>1, <2>3
  <2>4. ASSUME NEW r \in Object, si[r] = q, r # o
        PROVE  \E t \in Object : si0[t] = q
    BY <1>d, <2>4
  <2>5. CASE si[o] = q
    <3>1. pa[q] = pa[o]
      BY <1>f, <2>5 DEF Siblings, Object
    <3> QED BY <1>d, <2>1, <2>5, <3>1
  <2> QED BY <2>2, <2>3, <2>4, <2>5
<1>4. \A p \in Object : ch1[p] # o
  BY <1>c, <1>d, <1>s
<1>5. \A q \in Object : q # o => si[q] # o
  BY <1>s
<1>6. Linked(pa0, si0, ch1)
  BY <1>1, <1>2, <1>3 DEF Linked
<1> QED BY <1>4, <1>5, <1>6 DEF Loose, pa0, si0, ch1

(* Unlinking any other child, whose elder sibling is h. *)
LEMMA LooseLater ==
    ASSUME NEW pa \in Links, NEW si \in Links, NEW ch \in Links,
           Linked(pa, si, ch), NEW o \in Object, NEW h \in Object,
           si[h] = o, h # o, si[o] # o
    PROVE  Loose(o, pa, [si EXCEPT ![h] = si[o]], ch)
<1> DEFINE pa0 == [pa EXCEPT ![o] = 0]
           si1 == [si EXCEPT ![h] = si[o]]
           si0 == [si1 EXCEPT ![o] = 0]
<1>f. /\ FirstChildren(pa, si, ch) /\ Siblings(pa, si)
      /\ \A q \in Object : Reached(q, pa, si, ch)
  BY DEF Linked
<1>p. o # 0
  BY DEF Object
<1>c. \A p \in Object : ch[p] # o
  BY <1>f, <1>p DEF FirstChildren
<1>s. \A q \in Object : si[q] = o => q = h
  BY <1>f, <1>p DEF Siblings
<1>d. /\ \A q \in Object : pa0[q] = IF q = o THEN 0 ELSE pa[q]
      /\ \A q \in Object : si1[q] = IF q = h THEN si[o] ELSE si[q]
      /\ \A q \in Object : si0[q] = IF q = o THEN 0 ELSE si1[q]
  BY DEF Links
<1>e. \A q \in Object : si[q] # 0 => si[q] \in Object
  BY DEF Links, Link, Object
<1>g. \A q \in Object : ch[q] # 0 => ch[q] \in Object
  BY DEF Links, Link, Object
<1> HIDE DEF pa0, si0, si1
<1>1. FirstChildren(pa0, si0, ch)
  BY <1>f, <1>p, <1>c, <1>d, <1>g DEF FirstChildren
<1>2. Siblings(pa0, si0)
  BY <1>f, <1>p, <1>s, <1>d, <1>e DEF Siblings
<1>3. \A q \in Object : Reached(q, pa0, si0, ch)
  <2> SUFFICES ASSUME NEW q \in Object, pa0[q] # 0
               PROVE  ch[pa0[q]] = q \/ \E r \in Object : si0[r] = q
    BY DEF Reached
  <2>1. q # o /\ pa0[q] = pa[q]
    BY <1>d
  <2>2. ch[pa[q]] = q \/ \E r \in Object : si[r] = q
    BY <1>f, <2>1 DEF Reached
  <2>3. ASSUME NEW r \in Object, si[r] = q, r # o
        PROVE  \E t \in Object : si0[t] = q
    BY <1>d, <2>1, <2>3
  <2>4. CASE si[o] = q
    BY <1>d, <2>4
  <2> QED BY <2>1, <2>2, <2>3, <2>4
<1>4. \A q \in Object : q # o => si1[q] # o
  BY <1>d, <1>s
<1>5. Linked(pa0, si0, ch)
  BY <1>1, <1>2, <1>3 DEF Linked
<1> QED BY <1>4, <1>5, <1>c DEF Loose, pa0, si0, si1

(* Making a loose object the first child of d. *)
LEMMA LinkedAgain ==
    ASSUME NEW pa \in Links, NEW si \in Links, NEW ch \in Links,
           NEW o \in Object, Loose(o, pa, si, ch), NEW d \in Object
    PROVE  Linked([pa EXCEPT ![o] = d], [si EXCEPT ![o] = ch[d]],
                  [ch EXCEPT ![d] = o])
<1> DEFINE pa0 == [pa EXCEPT ![o] = 0]
           si0 == [si EXCEPT ![o] = 0]
           pa1 == [pa EXCEPT ![o] = d]
           si1 == [si EXCEPT ![o] = ch[d]]
           ch1 == [ch EXCEPT ![d] = o]
<1>f. /\ FirstChildren(pa0, si0, ch) /\ Siblings(pa0, si0)
      /\ \A q \in Object : Reached(q, pa0, si0, ch)
      /\ \A q \in Object : q # o => si[q] # o
      /\ \A p \in Object : ch[p] # o
  BY DEF Loose, Linked
<1>p. o # 0 /\ d # 0
  BY DEF Object
<1>d. /\ \A q \in Object : pa0[q] = IF q = o THEN 0 ELSE pa[q]
      /\ \A q \in Object : si0[q] = IF q = o THEN 0 ELSE si[q]
      /\ \A q \in Object : pa1[q] = IF q = o THEN d ELSE pa[q]
      /\ \A q \in Object : si1[q] = IF q = o THEN ch[d] ELSE si[q]
      /\ \A q \in Object : ch1[q] = IF q = d THEN o ELSE ch[q]
  BY DEF Links
<1>e. \A q \in Object : si[q] # 0 => si[q] \in Object
  BY DEF Links, Link, Object
<1>g. \A q \in Object : ch[q] # 0 => ch[q] \in Object
  BY DEF Links, Link, Object
<1> HIDE DEF pa0, si0, pa1, si1, ch1
<1>1. FirstChildren(pa1, si1, ch1)
  BY <1>f, <1>p, <1>d, <1>g DEF FirstChildren
<1>2. Siblings(pa1, si1)
  <2>1. ASSUME NEW q \in Object, si1[q] # 0
        PROVE  pa1[q] # 0 /\ pa1[si1[q]] = pa1[q]
    <3>1. CASE q = o
      BY <3>1, <2>1, <1>f, <1>p, <1>d, <1>g DEF FirstChildren
    <3>2. CASE q # o
      BY <3>2, <2>1, <1>f, <1>p, <1>d, <1>e DEF Siblings
    <3> QED BY <3>1, <3>2
  <2>2. ASSUME NEW q \in Object, NEW r \in Object, si1[q] # 0, si1[q] = si1[r]
        PROVE  q = r
    <3>1. CASE q # o /\ r # o
      BY <3>1, <2>2, <1>f, <1>d DEF Siblings
    <3>2. CASE q = o \/ r = o
      BY <3>2, <2>2, <1>f, <1>d DEF FirstChildren
    <3> QED BY <3>1, <3>2
  <2> QED BY <2>1, <2>2 DEF Siblings
<1>3. \A q \in Object : Reached(q, pa1, si1, ch1)
  <2> SUFFICES ASSUME NEW q \in Object, pa1[q] # 0
               PROVE  ch1[pa1[q]] = q \/ \E r \in Object : si1[r] = q
    BY DEF Reached
  <2>1. CASE q = o
    BY <2>1, <1>d
  <2>2. CASE q # o
    <3>1. pa0[q] = pa[q] /\ pa1[q] = pa[q] /\ pa[q] \in Object
      BY <2>2, <1>d DEF Links, Link, Object
    <3>2. ch[pa[q]] = q \/ \E r \in Object : si0[r] = q
      BY <1>f, <3>1 DEF Reached, Object
    <3>3. ASSUME NEW r \in Object, si0[r] = q
          PROVE  \E t \in Object : si1[t] = q
      BY <3>3, <1>d DEF Object
    <3>4. CASE ch[pa[q]] = q
      BY <3>1, <3>4, <1>d
    <3> QED BY <3>2, <3>3, <3>4
  <2> QED BY <2>1, <2>2
<1> QED BY <1>1, <1>2, <1>3 DEF Linked, pa1, si1, ch1

-----------------------------------------------------------------------------
(* Following siblings leads to an end; the ranks of a finite table have an  *)
(* upper bound, which leaves room for one more in front.                    *)
RankedBelow(si) ==
    \E rank \in [Object -> Nat], m \in Nat :
        \A q \in Object : /\ rank[q] <= m
                          /\ si[q] # 0 => rank[q] > rank[si[q]]

LEMMA NoOwnSibling ==
    ASSUME NEW si \in Links, RankedBelow(si), NEW q \in Object
    PROVE  si[q] # q
<1>1. PICK rank \in [Object -> Nat] :
          \A r \in Object : si[r] # 0 => rank[r] > rank[si[r]]
  BY DEF RankedBelow
<1>2. q # 0 /\ rank[q] \in Nat
  BY DEF Object
<1> QED BY <1>1, <1>2

LEMMA RankedWithout ==
    ASSUME NEW si \in Links, RankedBelow(si), NEW q \in Object
    PROVE  RankedBelow([si EXCEPT ![q] = 0])
<1> DEFINE si0 == [si EXCEPT ![q] = 0]
<1>1. \A r \in Object : si0[r] = IF r = q THEN 0 ELSE si[r]
  BY DEF Links
<1> HIDE DEF si0
<1>2. RankedBelow(si0)
  BY <1>1 DEF RankedBelow
<1> QED BY <1>2 DEF si0

(* Skipping an object in a list. *)
LEMMA RankedSkipping ==
    ASSUME NEW si \in Links, RankedBelow(si),
           NEW h \in Object, NEW o \in Object, si[h] = o
    PROVE  RankedBelow([[si EXCEPT ![h] = si[o]] EXCEPT ![o] = 0])
<1> DEFINE si1 == [si EXCEPT ![h] = si[o]]
           si0 == [si1 EXCEPT ![o] = 0]
<1>1. \A r \in Object : si1[r] = IF r = h THEN si[o] ELSE si[r]
  BY DEF Links
<1>2. \A r \in Object : si0[r] = IF r = o THEN 0 ELSE si1[r]
  BY DEF Links
<1>3. PICK rank \in [Object -> Nat], m \in Nat :
          \A r \in Object : /\ rank[r] <= m
                            /\ si[r] # 0 => rank[r] > rank[si[r]]
  BY DEF RankedBelow
<1>4. \A r \in Object : r # 0 /\ rank[r] \in Nat
  BY DEF Object
<1>5. \A r \in Object : si[r] # 0 => si[r] \in Object
  BY DEF Links, Link, Object
<1> HIDE DEF si0, si1
<1>6. \A r \in Object : si0[r] # 0 => rank[r] > rank[si0[r]]
  <2> SUFFICES ASSUME NEW r \in Object, si0[r] # 0
               PROVE  rank[r] > rank[si0[r]]
    OBVIOUS
  <2>1. r # o /\ si0[r] = si1[r]
    BY <1>2
  <2>2. CASE r # h
    BY <2>1, <2>2, <1>1, <1>3
  <2>3. CASE r = h
    <3>1. si0[r] = si[o] /\ si[o] # 0 /\ si[o] \in Object
      BY <2>1, <2>3, <1>1, <1>5
    <3>2. rank[h] > rank[o] /\ rank[o] > rank[si[o]]
      BY <3>1, <1>3, <1>4
    <3> QED BY <3>1, <3>2, <2>3, <1>4
  <2> QED BY <2>2, <2>3
<1>7. RankedBelow(si0)
  BY <1>3, <1>6 DEF RankedBelow
<1> QED BY <1>7 DEF si0, si1

(* Putting an object that nothing leads to in front of a list. *)
LEMMA RankedInFront ==
    ASSUME NEW si \in Links, NEW o \in Object, NEW c \in Link, c # o,
           RankedBelow([si EXCEPT ![o] = 0]),
           \A q \in Object : q # o => si[q] # o
    PROVE  RankedBelow([si EXCEPT ![o] = c])
<1> DEFINE si0 == [si EXCEPT ![o] = 0]
           si1 == [si EXCEPT ![o] = c]
<1>1. /\ \A r \in Object : si0[r] = IF r = o THEN 0 ELSE si[r]
      /\ \A r \in Object : si1[r] = IF r = o THEN c ELSE si[r]
  BY DEF Links
<1>2. PICK rank \in [Object -> Nat], m \in Nat :
          \A r \in Object : /\ rank[r] <= m
                            /\ si0[r] # 0 => rank[r] > rank[si0[r]]
  BY DEF RankedBelow
<1> DEFINE new == [rank EXCEPT ![o] = m + 1]
<1>3. /\ new \in [Object -> Nat] /\ m + 1 \in Nat
      /\ \A r \in Object : new[r] = IF r = o THEN m + 1 ELSE rank[r]
  OBVIOUS
<1>4. /\ \A r \in Object : rank[r] \in Nat
      /\ \A r \in Object : si[r] # 0 => si[r] \in Object
      /\ c # 0 => c \in Object
  BY DEF Links, Link, Object
<1> HIDE DEF si0, si1, new
<1>5. \A r \in Object : new[r] <= m + 1
  BY <1>2, <1>3, <1>4
<1>6. \A r \in Object : si1[r] # 0 => new[r] > new[si1[r]]
  <2> SUFFICES ASSUME NEW r \in Object, si1[r] # 0
               PROVE  new[r] > new[si1[r]]
    OBVIOUS
  <2>1. CASE r = o
    <3>1. si1[r] = c /\ new[r] = m + 1 /\ new[c] = rank[c] /\ rank[c] <= m
      BY <2>1, <1>1, <1>2, <1>3, <1>4
    <3> QED BY <3>1, <1>4
  <2>2. CASE r # o
    <3>1. si1[r] = si[r] /\ si0[r] = si[r] /\ si[r] # o /\ si[r] \in Object
      BY <2>2, <1>1, <1>4
    <3>2. new[r] = rank[r] /\ new[si[r]] = rank[si[r]]
      BY <2>2, <3>1, <1>3
    <3> QED BY <3>1, <3>2, <1>2
  <2> QED BY <2>1, <2>2
<1>7. RankedBelow(si1)
  BY <1>3, <1>5, <1>6 DEF RankedBelow
<1> QED BY <1>7 DEF si1

-----------------------------------------------------------------------------
(* The inductive invariant: what InsertObject knows at each of its places.  *)
IInv ==
    /\ TypeOK
    /\ at = "idle" => Linked(parent, sibling, child) /\ RankedBelow(sibling)
    /\ at # "idle" => obj \in Object
    /\ at \in {"first", "walk"} => /\ Linked(parent, sibling, child)
                                 /\ RankedBelow(sibling)
                                 /\ parent[obj] # 0
    /\ at = "first" => child[parent[obj]] = obj
    /\ at = "link" => /\ Loose(obj, parent, sibling, child)
                      /\ RankedBelow([sibling EXCEPT ![obj] = 0])

LEMMA InitIInv == Init => IInv
<1> SUFFICES ASSUME Init PROVE IInv
  OBVIOUS
<1>1. PICK t \in Tables :
          parent = t.parent /\ sibling = t.sibling /\ child = t.child
  BY DEF Init
<1>2. /\ parent \in Links /\ sibling \in Links /\ child \in Links
      /\ Linked(parent, sibling, child) /\ Ranked(sibling, 0..N)
  BY <1>1, TableAssumption DEF Links
<1>3. TypeOK
  BY <1>2, NumberAssumption DEF Init, TypeOK, Links, Link
<1>4. RankedBelow(sibling)
  <2>1. PICK rank \in [Object -> 0..N] :
            \A q \in Object : sibling[q] # 0 => rank[q] > rank[sibling[q]]
    BY <1>2 DEF Ranked
  <2>2. /\ rank \in [Object -> Nat]
        /\ \A q \in Object : rank[q] <= N
    OBVIOUS
  <2> QED BY <2>1, <2>2, NumberAssumption DEF RankedBelow
<1> QED BY <1>2, <1>3, <1>4 DEF Init, IInv

LEMMA NextIInv == IInv /\ [Next]_vars => IInv'
<1> SUFFICES ASSUME IInv, [Next]_vars PROVE IInv'
  OBVIOUS
<1> USE DEF tree, vars
<1>t. /\ parent \in Links /\ sibling \in Links /\ child \in Links
      /\ obj \in Link /\ dest \in Link /\ head \in Link
  BY DEF IInv, TypeOK, Links
<1>z. /\ 0 \in Link /\ Object \subseteq Link
      /\ \A q \in Link : q # 0 => q \in Object
  BY NumberAssumption DEF Link, Object
<1>1. ASSUME NEW o \in Object, NEW d \in Link, InsertObject(o, d)
      PROVE  IInv'
  <2>1. /\ parent' = parent /\ sibling' = sibling /\ child' = child
        /\ obj' = o /\ dest' = d /\ at' = Beginning(o)
        /\ head' = IF parent[o] = 0 THEN 0 ELSE child[parent[o]]
        /\ Linked(parent, sibling, child) /\ RankedBelow(sibling)
    BY <1>1 DEF InsertObject, IInv
  <2>2. TypeOK'
    <3>1. head' \in Link
      BY <2>1, <1>t, <1>z DEF Links
    <3> QED BY <2>1, <3>1, <1>t, <1>z DEF TypeOK, Links, Beginning
  <2>3. CASE parent[o] = 0
    <3>1. Loose(o, parent, sibling, child)
      BY <2>1, <2>3, <1>t, LooseWithoutParent
    <3>2. RankedBelow([sibling EXCEPT ![o] = 0])
      BY <2>1, <1>t, RankedWithout
    <3> QED BY <2>1, <2>2, <2>3, <3>1, <3>2 DEF IInv, Beginning
  <2>4. CASE parent[o] # 0
    BY <2>1, <2>2, <2>4 DEF IInv, Beginning
  <2> QED BY <2>3, <2>4
<1>2. ASSUME UnlinkFirst
      PROVE  IInv'
  <2>1. /\ parent' = parent /\ sibling' = sibling
        /\ child' = [child EXCEPT ![parent[obj]] = sibling[obj]]
        /\ obj' = obj /\ dest' = dest /\ head' = head /\ at' = "link"
    BY <1>2 DEF UnlinkFirst
  <2>2. /\ obj \in Object /\ Linked(parent, sibling, child)
        /\ RankedBelow(sibling)
        /\ parent[obj] # 0 /\ child[parent[obj]] = obj
    BY <1>2 DEF UnlinkFirst, IInv
  <2>3. child' \in Links
    BY <2>1, <2>2, <1>t DEF Links
  <2>4. TypeOK'
    BY <2>1, <2>3, <1>t DEF TypeOK, Links
  <2>5. Loose(obj, parent, sibling, child')
    BY <2>1, <2>2, <1>t, LooseFirst
  <2>6. RankedBelow([sibling EXCEPT ![obj] = 0])
    BY <2>2, <1>t, RankedWithout
  <2> QED BY <2>1, <2>2, <2>4, <2>5, <2>6 DEF IInv
<1>3. ASSUME Walk
      PROVE  IInv'
  <2>1. /\ parent' = parent /\ sibling' = sibling /\ child' = child
        /\ obj' = obj /\ dest' = dest /\ head' = Sibling(head)
        /\ at' = at /\ at = "walk"
    BY <1>3 DEF Walk
  <2>2. head' \in Link
    BY <2>1, <1>t, <1>z DEF Sibling, Links
  <2>3. TypeOK'
    BY <2>1, <2>2, <1>t DEF TypeOK, Links
  <2> QED BY <2>1, <2>3 DEF IInv
<1>4. ASSUME UnlinkLater
      PROVE  IInv'
  <2>1. /\ parent' = parent /\ child' = child
        /\ sibling' = [sibling EXCEPT ![head] = sibling[obj]]
        /\ obj' = obj /\ dest' = dest /\ head' = head /\ at' = "link"
        /\ Sibling(head) = obj
    BY <1>4 DEF UnlinkLater, AfterUnlink
  <2>2. /\ obj \in Object /\ Linked(parent, sibling, child)
        /\ RankedBelow(sibling)
    BY <1>4 DEF UnlinkLater, IInv
  <2>3. head \in Object /\ sibling[head] = obj
    BY <2>1, <2>2, <1>t, <1>z DEF Sibling, Object
  <2>4. head # obj /\ sibling[obj] # obj
    BY <2>2, <2>3, <1>t, NoOwnSibling
  <2>5. sibling' \in Links
    BY <2>1, <2>2, <1>t DEF Links
  <2>6. TypeOK'
    BY <2>1, <2>5, <1>t DEF TypeOK, Links
  <2>7. Loose(obj, parent, sibling', child)
    BY <2>1, <2>2, <2>3, <2>4, <1>t, LooseLater
  <2>8. RankedBelow([sibling' EXCEPT ![obj] = 0])
    BY <2>1, <2>2, <2>3, <1>t, RankedSkipping
  <2> QED BY <2>1, <2>2, <2>6, <2>7, <2>8 DEF IInv
<1>5. ASSUME LinkFirst
      PROVE  IInv'
  <2>1. /\ parent' = [parent EXCEPT ![obj] = dest]
        /\ sibling' = [sibling EXCEPT ![obj] = NewSibling]
        /\ child' = IF dest = 0 THEN child ELSE [child EXCEPT ![dest] = obj]
        /\ obj' = 0 /\ dest' = 0 /\ head' = 0 /\ at' = "idle"
    BY <1>5 DEF LinkFirst
  <2>2. /\ obj \in Object /\ Loose(obj, parent, sibling, child)
        /\ RankedBelow([sibling EXCEPT ![obj] = 0])
    BY <1>5 DEF LinkFirst, IInv
  <2>3. /\ parent' \in Links /\ sibling' \in Links /\ child' \in Links
    <3>1. NewSibling \in Link
      BY <1>t, <1>z DEF NewSibling, Links
    <3> QED BY <2>1, <2>2, <3>1, <1>t, <1>z DEF Links
  <2>4. TypeOK'
    BY <2>1, <2>3, <1>z DEF TypeOK, Links
  <2>5. CASE dest = 0
    <3>1. Linked(parent', sibling', child') /\ RankedBelow(sibling')
      BY <2>1, <2>2, <2>5 DEF NewSibling, Loose
    <3> QED BY <2>1, <2>4, <3>1 DEF IInv
  <2>6. CASE dest # 0
    <3>1. dest \in Object
      BY <2>6, <1>t, <1>z
    <3>2. Linked(parent', sibling', child')
      BY <2>1, <2>2, <2>6, <3>1, <1>t, LinkedAgain DEF NewSibling
    <3>3. /\ child[dest] \in Link /\ child[dest] # obj
          /\ \A q \in Object : q # obj => sibling[q] # obj
      BY <2>2, <3>1, <1>t DEF Links, Loose
    <3>4. RankedBelow(sibling')
      BY <2>1, <2>2, <2>6, <3>3, <1>t, RankedInFront DEF NewSibling
    <3> QED BY <2>1, <2>4, <3>2, <3>4 DEF IInv
  <2> QED BY <2>5, <2>6
<1>6. ASSUME UNCHANGED vars
      PROVE  IInv'
  BY <1>6 DEF IInv, TypeOK, Loose
<1> QED BY <1>1, <1>2, <1>3, <1>4, <1>5, <1>6 DEF Next, Step

LEMMA IInvAlways == Spec => []IInv
<1> QED BY InitIInv, NextIInv, PTL DEF Spec

(* The links of any two objects agree between instructions (Objects.cs,     *)
(* InsertObject), in a table of any size.                                   *)
THEOREM LinksAlwaysAgree == Spec => []LinksAgree
<1>1. IInv => LinksAgree
  BY DEF IInv, LinksAgree
<1> QED BY IInvAlways, <1>1, PTL

(* Every list of children has an end, in which get_sibling loops of the     *)
(* program and InsertObject's own walk rely: insert_obj never makes a cycle *)
(* of siblings, not even of an object inserted in itself.                   *)
ListsHaveAnEnd == at # "link" => Ranked(sibling, Nat)
THEOREM ListsAlwaysEnd == Spec => []ListsHaveAnEnd
<1>1. IInv => ListsHaveAnEnd
  BY DEF IInv, TypeOK, ListsHaveAnEnd, RankedBelow, Ranked
<1> QED BY IInvAlways, <1>1, PTL

-----------------------------------------------------------------------------
(* The lists of siblings                                                    *)

Distinct(s) == \A i, j \in 1..Len(s) : s[i] = s[j] => i = j

(* s is the list that begins with c, which is 0 for the empty list. *)
Lists(s, c, si) ==
    /\ s \in Seq(Object) /\ Distinct(s)
    /\ c = IF Len(s) = 0 THEN 0 ELSE s[1]
    /\ \A i \in 1..Len(s) : si[s[i]] = IF i = Len(s) THEN 0 ELSE s[i + 1]

LEMMA ListIsShort ==
    ASSUME NEW s \in Seq(Object), Distinct(s)
    PROVE  Len(s) <= N
<1> SUFFICES ASSUME N < Len(s) PROVE FALSE
  BY NumberAssumption
<1>1. IsFiniteSet(1..N) /\ Cardinality(1..N) = N
  BY NumberAssumption, FS_Interval
<1>2. IsFiniteSet(1..Len(s)) /\ Cardinality(1..Len(s)) = Len(s)
  <2>1. Len(s) \in Nat /\ 1 \in Int
    OBVIOUS
  <2>2. Len(s) \in Int /\ Len(s) - 1 + 1 = Len(s)
    BY <2>1
  <2>3. /\ IsFiniteSet(1..Len(s))
        /\ Cardinality(1..Len(s)) = IF 1 > Len(s) THEN 0 ELSE Len(s) - 1 + 1
    BY <2>1, <2>2, FS_Interval, Zenon
  <2> QED BY <2>1, <2>3
<1>3. s \in [1..Len(s) -> 1..N]
  <2>1. s = [i \in 1..Len(s) |-> s[i]] /\ \A i \in 1..Len(s) : s[i] \in Object
    OBVIOUS
  <2> HIDE DEF Object
  <2>2. s \in [1..Len(s) -> Object]
    BY <2>1, Zenon
  <2> QED BY <2>2 DEF Object
<1> DEFINE n == Len(s)
<1>4. n \in Nat /\ N < n
  OBVIOUS
<1> HIDE DEF n
<1>5. \E x, y \in 1..n : x # y /\ s[x] = s[y]
  BY <1>1, <1>2, <1>3, <1>4, FS_PigeonHole, Zenon DEF n
<1> QED BY <1>5 DEF Distinct, n

LEMMA AfterPrefix ==
    ASSUME NEW s, NEW c, NEW si, Lists(s, c, si), NEW m \in 0..Len(s)
    PROVE  /\ After(SubSeq(s, 1, m), c, si) = IF m = Len(s) THEN 0 ELSE s[m + 1]
           /\ m # Len(s) => /\ s[m + 1] # 0
                            /\ SubSeq(s, 1, m + 1) = Append(SubSeq(s, 1, m), s[m + 1])
<1> DEFINE t == SubSeq(s, 1, m)
<1>0. s \in Seq(Object) /\ Len(s) \in Nat
  BY DEF Lists
<1>1. t \in Seq(Object) /\ Len(t) = m /\ \A i \in 1..m : t[i] = s[i]
  BY <1>0
<1> HIDE DEF t
<1>4. ASSUME m # Len(s)
      PROVE  s[m + 1] # 0 /\ SubSeq(s, 1, m + 1) = Append(t, s[m + 1])
  <2>1. m + 1 \in 1..Len(s) /\ s[m + 1] \in Object
    BY <1>0, <1>4
  <2>2. SubSeq(s, 1, m + 1) = Append(SubSeq(s, 1, m), s[m + 1])
    BY <1>0, <2>1
  <2> QED BY <2>1, <2>2 DEF Object, t
<1>2. CASE m = 0
  <2>1. t = <<>>
    BY <1>1, <1>2
  <2>2. After(t, c, si) = c
    BY <2>1 DEF After
  <2>3. c = IF Len(s) = 0 THEN 0 ELSE s[1]
    BY DEF Lists
  <2>4. After(t, c, si) = IF m = Len(s) THEN 0 ELSE s[m + 1]
    BY <2>2, <2>3, <1>2
  <2> QED BY <2>4, <1>4 DEF t
<1>3. CASE m # 0
  <2>1. t # <<>> /\ t[Len(t)] = s[m] /\ m \in 1..Len(s)
    BY <1>1, <1>3
  <2>2. After(t, c, si) = si[s[m]]
    BY <2>1 DEF After
  <2>3. si[s[m]] = IF m = Len(s) THEN 0 ELSE s[m + 1]
    BY <2>1 DEF Lists
  <2>4. After(t, c, si) = IF m = Len(s) THEN 0 ELSE s[m + 1]
    BY <2>2, <2>3
  <2> QED BY <2>4, <1>4 DEF t
<1> QED BY <1>2, <1>3

(* The recursion computes the list, whatever its length. *)
LEMMA ListIsComputed ==
    ASSUME NEW s, NEW c, NEW si, Lists(s, c, si), NEW n \in Nat, Len(s) <= n
    PROVE  ListFrom(c, si, n) = s
<1> DEFINE l == Len(s)
           cut(k) == IF k <= l THEN k ELSE l
           g == [k \in 0..n |-> SubSeq(s, 1, cut(k))]
           upTo[k \in 0..n] ==
              IF k = 0 THEN <<>>
              ELSE LET next == After(upTo[k - 1], c, si)
                   IN  IF next = 0 THEN upTo[k - 1] ELSE Append(upTo[k - 1], next)
<1>0. s \in Seq(Object) /\ l \in Nat /\ l <= n
  BY DEF Lists
<1>1. g[0] = <<>>
  <2>1. cut(0) = 0
    BY <1>0
  <2>2. SubSeq(s, 1, 0) = <<>>
    BY <1>0
  <2> QED BY <2>1, <2>2
<1>2. ASSUME NEW k \in 1..n
      PROVE  g[k] = LET next == After(g[k - 1], c, si)
                    IN  IF next = 0 THEN g[k - 1] ELSE Append(g[k - 1], next)
  <2> DEFINE m == cut(k - 1)
             a == After(g[k - 1], c, si)
  <2>1. /\ m \in 0..l /\ k - 1 \in 0..n /\ k \in 0..n
        /\ m = l => cut(k) = m
        /\ m # l => cut(k) = m + 1
    BY <1>0
  <2>2. g[k - 1] = SubSeq(s, 1, m) /\ g[k] = SubSeq(s, 1, cut(k))
    BY <2>1
  <2> HIDE DEF g, m, cut, l
  <2>3. a = IF m = l THEN 0 ELSE s[m + 1]
    BY <2>1, <2>2, AfterPrefix DEF l
  <2>4. m # l => /\ s[m + 1] # 0
                 /\ SubSeq(s, 1, m + 1) = Append(SubSeq(s, 1, m), s[m + 1])
    BY <2>1, AfterPrefix DEF l
  <2> HIDE DEF a
  <2>5. g[k] = IF a = 0 THEN g[k - 1] ELSE Append(g[k - 1], a)
    BY <2>1, <2>2, <2>3, <2>4
  <2> QED BY <2>5 DEF a
<1>3. g = [k \in 0..n |->
              IF k = 0 THEN <<>>
              ELSE LET next == After(g[k - 1], c, si)
                   IN  IF next = 0 THEN g[k - 1] ELSE Append(g[k - 1], next)]
  <2>1. g = [k \in 0..n |-> g[k]]
    OBVIOUS
  <2>2. \A k \in 0..n : k = 0 \/ k \in 1..n
    OBVIOUS
  <2> HIDE DEF g
  <2> QED BY <1>1, <1>2, <2>1, <2>2
<1>4. g[n] = s
  <2>1. cut(n) = l /\ n \in 0..n
    BY <1>0
  <2>2. SubSeq(s, 1, l) = s
    BY <1>0
  <2> QED BY <2>1, <2>2
<1> HIDE DEF g, l, cut
<1>5. upTo = [k \in 0..n |->
              IF k = 0 THEN <<>>
              ELSE LET next == After(upTo[k - 1], c, si)
                   IN  IF next = 0 THEN upTo[k - 1] ELSE Append(upTo[k - 1], next)]
  BY <1>3, Zenon
<1> HIDE DEF upTo
<1>6. upTo[0] = g[0] /\ \A k \in 1..n : upTo[k - 1] = g[k - 1] => upTo[k] = g[k]
  <2>1. 0 \in 0..n /\ \A k \in 1..n : k \in 0..n /\ k # 0
    OBVIOUS
  <2>2. upTo[0] = <<>>
    BY <1>5, <2>1, Zenon
  <2>3. ASSUME NEW k \in 1..n, upTo[k - 1] = g[k - 1] PROVE upTo[k] = g[k]
    <3>1. upTo[k] = LET next == After(upTo[k - 1], c, si)
                    IN  IF next = 0 THEN upTo[k - 1] ELSE Append(upTo[k - 1], next)
      BY <1>5, <2>1, Zenon
    <3> QED BY <1>2, <2>3, <3>1, Zenon
  <2> QED BY <1>1, <2>2, <2>3
<1>7. upTo[n] = g[n]
  <2>1. StepAlike(upTo, g, n)
    BY <1>6 DEF StepAlike
  <2> QED BY <2>1, SameRecursion
<1>8. ListFrom(c, si, n) = upTo[n]
  BY Zenon DEF ListFrom, upTo
<1> QED BY <1>4, <1>7, <1>8

(* The same list of what the links now say. *)
LEMMA ListElsewhere ==
    ASSUME NEW s, NEW c, NEW si, Lists(s, c, si),
           NEW new, \A i \in 1..Len(s) : new[s[i]] = si[s[i]]
    PROVE  Lists(s, c, new)
BY DEF Lists

(* One object more in front of a list. *)
LEMMA ListInFront ==
    ASSUME NEW t, NEW si, NEW o \in Object, Lists(t, si[o], si),
           \A i \in 1..Len(t) : t[i] # o
    PROVE  Lists(<<o>> \o t, o, si)
<1> DEFINE u == <<o>> \o t
<1>1. t \in Seq(Object) /\ Len(t) \in Nat /\ Distinct(t)
      /\ si[o] = (IF Len(t) = 0 THEN 0 ELSE t[1])
      /\ \A i \in 1..Len(t) : si[t[i]] = IF i = Len(t) THEN 0 ELSE t[i + 1]
  BY DEF Lists
<1>2. /\ u \in Seq(Object) /\ Len(u) = Len(t) + 1
      /\ \A j \in 1..Len(t) + 1 : u[j] = IF j = 1 THEN o ELSE t[j - 1]
  <2>1. t \in Seq(Object)
    BY <1>1
  <2> QED BY <2>1, o \in Object, FrontProperties
<1> HIDE DEF u
<1>3. Distinct(u)
  <2> SUFFICES ASSUME NEW i \in 1..Len(u), NEW j \in 1..Len(u), u[i] = u[j]
               PROVE  i = j
    BY DEF Distinct
  <2>1. /\ i = 1 \/ i - 1 \in 1..Len(t)
        /\ j = 1 \/ j - 1 \in 1..Len(t)
    BY <1>1, <1>2
  <2>2. ASSUME i # 1, j # 1 PROVE i - 1 = j - 1
    <3>1. i - 1 \in 1..Len(t) /\ j - 1 \in 1..Len(t)
      BY <2>1, <2>2
    <3>2. u[i] = t[i - 1] /\ u[j] = t[j - 1]
      BY <1>2, <2>2
    <3> QED BY <1>1, <3>1, <3>2 DEF Distinct
  <2>3. i = 1 <=> j = 1
    BY <1>2, <2>1
  <2> QED BY <2>1, <2>2, <2>3
<1>4. ASSUME NEW i \in 1..Len(u)
      PROVE  si[u[i]] = IF i = Len(u) THEN 0 ELSE u[i + 1]
  <2>1. CASE i = 1
    BY <1>1, <1>2, <2>1
  <2>2. CASE i # 1
    <3>1. i - 1 \in 1..Len(t) /\ u[i] = t[i - 1]
      BY <1>1, <1>2, <2>2
    <3>2. i # Len(u) => i - 1 # Len(t) /\ u[i + 1] = t[(i - 1) + 1]
      BY <1>1, <1>2, <2>2
    <3>3. i = Len(u) => i - 1 = Len(t)
      BY <1>1, <1>2
    <3> QED BY <1>1, <3>1, <3>2, <3>3
  <2> QED BY <2>1, <2>2
<1>5. o = IF Len(u) = 0 THEN 0 ELSE u[1]
  BY <1>1, <1>2
<1>6. Lists(u, o, si)
  BY <1>2, <1>3, <1>4, <1>5 DEF Lists
<1> QED BY <1>6 DEF u

(* Following siblings from any object makes a list. *)
LEMMA ListExists ==
    ASSUME NEW si \in Links, RankedBelow(si), NEW c \in Link
    PROVE  \E s : Lists(s, c, si)
<1>z. \A r \in Link : r = 0 \/ r \in Object
  BY DEF Link, Object
<1>n. Lists(<<>>, 0, si)
  BY DEF Lists, Distinct
<1>1. PICK rank \in [Object -> Nat] :
          \A r \in Object : si[r] # 0 => rank[r] > rank[si[r]]
  BY DEF RankedBelow
<1> DEFINE Falls(s, r) == \A i \in 1..Len(s) : rank[s[i]] <= rank[r]
           S == {m \in Nat : \A r \in Object : rank[r] < m =>
                                 \E s : Lists(s, r, si) /\ Falls(s, r)}
<1>2. 0 \in S
  BY <1>1
<1>3. ASSUME NEW m \in Nat, m \in S PROVE m + 1 \in S
  <2> SUFFICES ASSUME NEW r \in Object, rank[r] < m + 1
               PROVE  \E s : Lists(s, r, si) /\ Falls(s, r)
    OBVIOUS
  <2>1. si[r] \in Link /\ rank[r] \in Nat
    BY DEF Links
  <2>2. \E t : Lists(t, si[r], si) /\ \A i \in 1..Len(t) : rank[t[i]] < rank[r]
    <3>1. CASE si[r] = 0
      BY <1>n, <3>1
    <3>2. CASE si[r] # 0
      <4>1. si[r] \in Object /\ rank[si[r]] < rank[r] /\ rank[si[r]] \in Nat
        BY <1>1, <1>z, <2>1, <3>2
      <4>2. rank[si[r]] < m
        BY <2>1, <4>1
      <4>3. PICK t : Lists(t, si[r], si) /\ Falls(t, si[r])
        BY <1>3, <4>1, <4>2
      <4>4. ASSUME NEW i \in 1..Len(t) PROVE rank[t[i]] < rank[r]
        <5>1. t[i] \in Object
          BY <4>3 DEF Lists
        <5>2. rank[t[i]] \in Nat /\ rank[t[i]] <= rank[si[r]]
          BY <4>3, <5>1
        <5> QED BY <2>1, <4>1, <5>2
      <4> QED BY <4>3, <4>4
    <3> QED BY <3>1, <3>2
  <2>3. PICK t : Lists(t, si[r], si) /\ \A i \in 1..Len(t) : rank[t[i]] < rank[r]
    BY <2>2
  <2>4. \A i \in 1..Len(t) : t[i] # r
    BY <2>1, <2>3
  <2>5. Lists(<<r>> \o t, r, si)
    BY <2>3, <2>4, ListInFront
  <2>6. t \in Seq(Object)
    BY <2>3 DEF Lists
  <2>7. /\ Len(<<r>> \o t) = Len(t) + 1 /\ Len(t) \in Nat
        /\ \A j \in 1..Len(t) + 1 : (<<r>> \o t)[j] = IF j = 1 THEN r ELSE t[j - 1]
    BY <2>6, FrontProperties
  <2> DEFINE u == <<r>> \o t
  <2>8. /\ Len(u) = Len(t) + 1
        /\ \A j \in 1..Len(t) + 1 : u[j] = IF j = 1 THEN r ELSE t[j - 1]
    BY <2>7
  <2> HIDE DEF u
  <2>9. ASSUME NEW i \in 1..Len(u) PROVE rank[u[i]] <= rank[r]
    <3>1. i # 1 => i - 1 \in 1..Len(t) /\ u[i] = t[i - 1]
      BY <2>7, <2>8
    <3>2. i # 1 => rank[t[i - 1]] < rank[r] /\ t[i - 1] \in Object
      BY <2>3, <2>6, <3>1
    <3>3. i = 1 => u[i] = r
      BY <2>7, <2>8
    <3>4. i # 1 => rank[u[i]] \in Nat
      BY <3>1, <3>2
    <3> QED BY <2>1, <3>1, <3>2, <3>3, <3>4
  <2> QED BY <2>5, <2>9 DEF u
<1> HIDE DEF S
<1>4. Nat \subseteq S
  BY <1>2, <1>3, InductionOnNat
<1>5. CASE c = 0
  BY <1>n, <1>5
<1>6. CASE c # 0
  <2>1. c \in Object /\ rank[c] \in Nat /\ rank[c] + 1 \in Nat /\ rank[c] < rank[c] + 1
    BY <1>z, <1>6
  <2>2. rank[c] + 1 \in S
    BY <1>4, <2>1
  <2> QED BY <2>1, <2>2 DEF S
<1> QED BY <1>5, <1>6

LEMMA ListFromLists ==
    ASSUME NEW si \in Links, RankedBelow(si), NEW c \in Link
    PROVE  Lists(ListFrom(c, si, N), c, si)
<1>1. PICK s : Lists(s, c, si)
  BY ListExists
<1>2. Len(s) <= N
  BY <1>1, ListIsShort DEF Lists
<1>3. ListFrom(c, si, N) = s
  BY <1>1, <1>2, NumberAssumption, ListIsComputed
<1> QED BY <1>1, <1>3

(* There is no other list. *)
LEMMA ListIsUnique ==
    ASSUME NEW s, NEW c, NEW si, Lists(s, c, si)
    PROVE  ListFrom(c, si, N) = s
<1>1. Len(s) <= N
  BY ListIsShort DEF Lists
<1> QED BY <1>1, NumberAssumption, ListIsComputed

-----------------------------------------------------------------------------
(* What unlinking and linking make of the lists.                            *)

(* A list that an object is not in. *)
Misses(s, o) == \A i \in 1..Len(s) : s[i] # o

LEMMA NothingToRemove ==
    ASSUME NEW s \in Seq(Object), NEW o, Misses(s, o)
    PROVE  RemoveFirst(s, o) = s
BY RemoveFirstProperties DEF Misses

(* Taking an object out of the list it is in. *)
LEMMA TakenOut ==
    ASSUME NEW s \in Seq(Object), Distinct(s), NEW i \in 1..Len(s)
    PROVE  /\ RemoveFirst(s, s[i]) \in Seq(Object)
           /\ Len(RemoveFirst(s, s[i])) = Len(s) - 1
           /\ \A j \in 1..(Len(s) - 1) :
                  RemoveFirst(s, s[i])[j] = IF j < i THEN s[j] ELSE s[j + 1]
<1>1. PICK k \in 1..Len(s) : s[k] = s[i] /\ RemoveFirst(s, s[i]) = RemoveAt(s, k)
  BY RemoveFirstProperties
<1>2. k = i
  BY <1>1 DEF Distinct
<1>3. RemoveFirst(s, s[i]) = RemoveAt(s, i)
  BY <1>1, <1>2
<1> QED BY <1>3, RemoveAtProperties

LEMMA TakenOutDistinct ==
    ASSUME NEW s \in Seq(Object), Distinct(s), NEW i \in 1..Len(s), NEW t,
           Len(t) = Len(s) - 1,
           \A j \in 1..(Len(s) - 1) : t[j] = IF j < i THEN s[j] ELSE s[j + 1]
    PROVE  Distinct(t)
<1> SUFFICES ASSUME NEW j \in 1..Len(t), NEW k \in 1..Len(t), t[j] = t[k]
             PROVE  j = k
  BY DEF Distinct
<1> DEFINE at1(m) == IF m < i THEN m ELSE m + 1
<1>n. Len(s) \in Nat /\ Len(t) = Len(s) - 1
  OBVIOUS
<1>1. /\ at1(j) \in 1..Len(s) /\ t[j] = s[at1(j)]
      /\ at1(k) \in 1..Len(s) /\ t[k] = s[at1(k)]
  <2>1. at1(j) \in 1..Len(s) /\ at1(k) \in 1..Len(s)
    BY <1>n
  <2>2. t[j] = s[at1(j)] /\ t[k] = s[at1(k)]
    BY <1>n
  <2> QED BY <2>1, <2>2
<1>2. at1(j) = at1(k)
  <2> HIDE DEF at1
  <2> QED BY <1>1 DEF Distinct
<1> QED BY <1>2

LEMMA ListWithoutFirst ==
    ASSUME NEW s, NEW o \in Object, NEW si, Lists(s, o, si)
    PROVE  Lists(RemoveFirst(s, o), si[o], si)
<1> DEFINE t == RemoveFirst(s, o)
<1>0. /\ s \in Seq(Object) /\ Distinct(s) /\ Len(s) \in Nat
      /\ o = (IF Len(s) = 0 THEN 0 ELSE s[1])
      /\ \A i \in 1..Len(s) : si[s[i]] = IF i = Len(s) THEN 0 ELSE s[i + 1]
  BY DEF Lists
<1>1. 1 \in 1..Len(s) /\ s[1] = o
  BY <1>0 DEF Object
<1>2. /\ RemoveFirst(s, s[1]) \in Seq(Object) /\ Len(RemoveFirst(s, s[1])) = Len(s) - 1
      /\ \A j \in 1..(Len(s) - 1) :
             RemoveFirst(s, s[1])[j] = IF j < 1 THEN s[j] ELSE s[j + 1]
  BY <1>0, <1>1, TakenOut
<1>3. /\ t \in Seq(Object) /\ Len(t) = Len(s) - 1
      /\ \A j \in 1..(Len(s) - 1) : t[j] = IF j < 1 THEN s[j] ELSE s[j + 1]
  BY <1>1, <1>2
<1> HIDE DEF t
<1>4. Distinct(t)
  BY <1>0, <1>1, <1>3, TakenOutDistinct
<1>5. si[o] = IF Len(t) = 0 THEN 0 ELSE t[1]
  BY <1>0, <1>1, <1>3
<1>6. ASSUME NEW j \in 1..Len(t)
      PROVE  si[t[j]] = IF j = Len(t) THEN 0 ELSE t[j + 1]
  <2>1. j + 1 \in 1..Len(s) /\ t[j] = s[j + 1]
    BY <1>0, <1>3
  <2>2. j # Len(t) => t[j + 1] = s[(j + 1) + 1] /\ j + 1 # Len(s)
    BY <1>0, <1>3
  <2>3. j = Len(t) => j + 1 = Len(s)
    BY <1>0, <1>3
  <2> QED BY <1>0, <2>1, <2>2, <2>3
<1>7. Lists(t, si[o], si)
  BY <1>3, <1>4, <1>5, <1>6 DEF Lists
<1> QED BY <1>7 DEF t

LEMMA ListWithoutLater ==
    ASSUME NEW s, NEW c, NEW si \in Links, Lists(s, c, si),
           NEW o \in Object, c # o, NEW h \in Object, si[h] = o, h # o,
           \A q \in Object : si[q] = o => q = h
    PROVE  Lists(RemoveFirst(s, o), c, [si EXCEPT ![h] = si[o]])
<1> DEFINE t == RemoveFirst(s, o)
           new == [si EXCEPT ![h] = si[o]]
<1>0. /\ s \in Seq(Object) /\ Distinct(s) /\ Len(s) \in Nat
      /\ c = (IF Len(s) = 0 THEN 0 ELSE s[1])
      /\ \A i \in 1..Len(s) : si[s[i]] = IF i = Len(s) THEN 0 ELSE s[i + 1]
  BY DEF Lists
<1>d. \A q \in Object : new[q] = IF q = h THEN si[o] ELSE si[q]
  BY DEF Links
<1>o. o # 0
  BY DEF Object
<1> HIDE DEF new
<1>1. CASE Misses(s, o)
  <2>1. ASSUME NEW i \in 1..Len(s) PROVE new[s[i]] = si[s[i]]
    <3>1. s[i] \in Object
      BY <1>0
    <3>2. i # Len(s) => s[i + 1] # o
      BY <1>0, <1>1 DEF Misses
    <3>3. si[s[i]] # o
      BY <1>0, <1>o, <3>2
    <3> QED BY <1>d, <3>1, <3>3
  <2>2. Lists(s, c, new)
    BY <2>1, ListElsewhere
  <2>3. RemoveFirst(s, o) = s
    BY <1>0, <1>1, NothingToRemove
  <2> QED BY <2>2, <2>3 DEF new
<1>2. CASE ~Misses(s, o)
  <2>1. PICK i \in 1..Len(s) : s[i] = o
    BY <1>2 DEF Misses
  <2>2. /\ RemoveFirst(s, s[i]) \in Seq(Object) /\ Len(RemoveFirst(s, s[i])) = Len(s) - 1
        /\ \A j \in 1..(Len(s) - 1) :
               RemoveFirst(s, s[i])[j] = IF j < i THEN s[j] ELSE s[j + 1]
    BY <1>0, TakenOut
  <2>3. /\ t \in Seq(Object) /\ Len(t) = Len(s) - 1
        /\ \A j \in 1..(Len(s) - 1) : t[j] = IF j < i THEN s[j] ELSE s[j + 1]
    BY <2>1, <2>2
  <2> HIDE DEF t
  <2>4. Distinct(t)
    BY <1>0, <2>3, TakenOutDistinct
  <2>5. i # 1 /\ i - 1 \in 1..Len(s) /\ i - 1 # Len(s) /\ (i - 1) + 1 = i
    BY <1>0, <2>1
  <2>6. s[i - 1] = h
    BY <1>0, <2>1, <2>5
  <2>7. c = IF Len(t) = 0 THEN 0 ELSE t[1]
    BY <1>0, <2>3, <2>5
  <2>8. ASSUME NEW j \in 1..Len(t)
        PROVE  new[t[j]] = IF j = Len(t) THEN 0 ELSE t[j + 1]
    <3>0. j \in 1..(Len(s) - 1) /\ j \in Nat /\ i \in Nat /\ t[j] \in Object
      BY <1>0, <2>3
    <3>1. CASE j < i - 1
      <4>1. /\ t[j] = s[j] /\ j # Len(t) /\ t[j + 1] = s[j + 1]
            /\ j \in 1..Len(s) /\ j # i - 1 /\ j # Len(s)
        BY <1>0, <2>3, <3>0, <3>1
      <4>2. s[j] # h
        BY <1>0, <2>5, <2>6, <4>1 DEF Distinct
      <4> QED BY <1>0, <1>d, <3>0, <4>1, <4>2
    <3>2. CASE j = i - 1
      <4>1. t[j] = h
        BY <2>3, <2>6, <3>0, <3>2
      <4>2. j = Len(t) <=> i = Len(s)
        BY <1>0, <2>3, <3>0, <3>2
      <4>3. j # Len(t) => t[j + 1] = s[i + 1]
        BY <1>0, <2>3, <3>0, <3>2
      <4> QED BY <1>0, <1>d, <2>1, <4>1, <4>2, <4>3
    <3>3. CASE j > i - 1
      <4>1. /\ t[j] = s[j + 1] /\ j + 1 \in 1..Len(s) /\ j + 1 # i - 1
            /\ j = Len(t) <=> j + 1 = Len(s)
        BY <1>0, <2>3, <3>0, <3>3
      <4>2. j # Len(t) => t[j + 1] = s[(j + 1) + 1]
        BY <1>0, <2>3, <3>0, <3>3
      <4>3. s[j + 1] # h
        BY <1>0, <2>5, <2>6, <4>1 DEF Distinct
      <4> QED BY <1>0, <1>d, <3>0, <4>1, <4>2, <4>3
    <3> QED BY <3>0, <3>1, <3>2, <3>3
  <2>9. Lists(t, c, new)
    BY <2>3, <2>4, <2>7, <2>8 DEF Lists
  <2> QED BY <2>9 DEF t, new
<1> QED BY <1>1, <1>2

(* An object that nothing leads to is in no list but one it begins. *)
LEMMA ListMisses ==
    ASSUME NEW s, NEW c, NEW si, Lists(s, c, si), NEW o \in Object, c # o,
           \A q \in Object : q # o => si[q] # o, si[o] # o
    PROVE  Misses(s, o)
<1>0. /\ s \in Seq(Object) /\ Len(s) \in Nat
      /\ c = (IF Len(s) = 0 THEN 0 ELSE s[1])
      /\ \A i \in 1..Len(s) : si[s[i]] = IF i = Len(s) THEN 0 ELSE s[i + 1]
  BY DEF Lists
<1> SUFFICES ASSUME NEW i \in 1..Len(s), s[i] = o PROVE FALSE
  BY DEF Misses
<1>1. i # 1 /\ i - 1 \in 1..Len(s) /\ i - 1 # Len(s) /\ (i - 1) + 1 = i
  BY <1>0
<1>2. si[s[i - 1]] = o /\ s[i - 1] \in Object
  BY <1>0, <1>1
<1> QED BY <1>2

-----------------------------------------------------------------------------
(* The refinement.                                                          *)

ChildLists(si, ch) == [p \in Object |-> ListFrom(ch[p], si, N)]

(* In a table without obj, every list is one without obj. *)
LEMMA LooseLists ==
    ASSUME NEW si \in Links, NEW o \in Object,
           RankedBelow([si EXCEPT ![o] = 0]),
           \A q \in Object : q # o => si[q] # o,
           NEW c \in Link, c # o
    PROVE  /\ Lists(ListFrom(c, si, N), c, si)
           /\ Misses(ListFrom(c, si, N), o)
<1> DEFINE si0 == [si EXCEPT ![o] = 0]
<1>1. si0 \in Links /\ \A q \in Object : si0[q] = IF q = o THEN 0 ELSE si[q]
  BY NumberAssumption DEF Links, Link
<1> HIDE DEF si0
<1>2. PICK s : Lists(s, c, si0)
  BY <1>1, ListExists DEF si0
<1>3. si0[o] # o /\ \A q \in Object : q # o => si0[q] # o
  BY <1>1 DEF Object
<1>4. Misses(s, o)
  BY <1>2, <1>3, ListMisses
<1>5. \A i \in 1..Len(s) : si[s[i]] = si0[s[i]]
  BY <1>1, <1>2, <1>4 DEF Misses, Lists
<1>6. Lists(s, c, si)
  BY <1>2, <1>5, ListElsewhere
<1>7. ListFrom(c, si, N) = s
  BY <1>6, ListIsUnique
<1> QED BY <1>4, <1>6, <1>7

LEMMA UnlinkFirstMoves ==
    ASSUME NEW pa \in Links, NEW si \in Links, NEW ch \in Links,
           Linked(pa, si, ch), RankedBelow(si),
           NEW o \in Object, pa[o] # 0, ch[pa[o]] = o,
           NEW p \in Object
    PROVE  ListFrom([ch EXCEPT ![pa[o]] = si[o]][p], si, N)
               = RemoveFirst(ListFrom(ch[p], si, N), o)
<1> DEFINE s == ListFrom(ch[p], si, N)
           ch1 == [ch EXCEPT ![pa[o]] = si[o]]
<1>1. ch[p] \in Link /\ ch1[p] = IF p = pa[o] THEN si[o] ELSE ch[p]
  BY DEF Links
<1> HIDE DEF ch1
<1>2. Lists(s, ch[p], si)
  BY <1>1, ListFromLists
<1> HIDE DEF s
<1>3. CASE p = pa[o]
  <2>1. Lists(RemoveFirst(s, o), si[o], si)
    BY <1>2, <1>3, ListWithoutFirst
  <2>2. ListFrom(si[o], si, N) = RemoveFirst(s, o)
    BY <2>1, ListIsUnique
  <2> QED BY <1>1, <1>3, <2>2 DEF s, ch1
<1>4. CASE p # pa[o]
  <2>1. FirstChildren(pa, si, ch) /\ pa[o] \in Object /\ o # 0
    BY DEF Linked, Links, Link, Object
  <2>2. ch[p] # o
    BY <1>4, <2>1 DEF FirstChildren
  <2>3. \A q \in Object : si[q] # o
    BY <2>1 DEF FirstChildren
  <2>4. Misses(s, o)
    BY <1>2, <2>2, <2>3, ListMisses
  <2>5. RemoveFirst(s, o) = s
    BY <1>2, <2>4, NothingToRemove DEF Lists
  <2> QED BY <1>1, <1>4, <2>5 DEF s, ch1
<1> QED BY <1>3, <1>4

LEMMA UnlinkLaterMoves ==
    ASSUME NEW pa \in Links, NEW si \in Links, NEW ch \in Links,
           Linked(pa, si, ch), RankedBelow(si),
           NEW o \in Object, NEW h \in Object, si[h] = o, h # o,
           NEW p \in Object
    PROVE  ListFrom(ch[p], [si EXCEPT ![h] = si[o]], N)
               = RemoveFirst(ListFrom(ch[p], si, N), o)
<1>1. ch[p] \in Link /\ o # 0
  BY DEF Links, Object
<1>2. Lists(ListFrom(ch[p], si, N), ch[p], si)
  BY <1>1, ListFromLists
<1>3. ch[p] # o
  BY <1>1 DEF Linked, FirstChildren
<1>4. \A q \in Object : si[q] = o => q = h
  BY <1>1 DEF Linked, Siblings
<1>5. Lists(RemoveFirst(ListFrom(ch[p], si, N), o), ch[p], [si EXCEPT ![h] = si[o]])
  BY <1>2, <1>3, <1>4, ListWithoutLater
<1> QED BY <1>5, ListIsUnique

(* What linking o in front of the children of d makes of those of p. *)
InFrontOf(si, ch, o, d, p) ==
    LET s == ListFrom(ch[p], si, N)
        l == ListFrom([ch EXCEPT ![d] = o][p], [si EXCEPT ![o] = ch[d]], N)
    IN  /\ p = d => l = <<o>> \o RemoveFirst(s, o)
        /\ p # d => l = RemoveFirst(s, o)

LEMMA LinkFirstMoves ==
    ASSUME NEW si \in Links, NEW ch \in Links,
           NEW o \in Object, RankedBelow([si EXCEPT ![o] = 0]),
           \A q \in Object : q # o => si[q] # o,
           \A p \in Object : ch[p] # o,
           NEW d \in Object, NEW p \in Object
    PROVE  InFrontOf(si, ch, o, d, p)
<1> DEFINE s == ListFrom(ch[p], si, N)
           ch1 == [ch EXCEPT ![d] = o]
           si1 == [si EXCEPT ![o] = ch[d]]
<1>1. /\ ch[p] \in Link /\ ch1[p] = IF p = d THEN o ELSE ch[p]
      /\ \A q \in Object : si1[q] = IF q = o THEN ch[d] ELSE si[q]
  BY DEF Links
<1> HIDE DEF ch1, si1
<1>2. Lists(s, ch[p], si) /\ Misses(s, o)
  BY <1>1, LooseLists
<1> HIDE DEF s
<1>3. RemoveFirst(s, o) = s
  BY <1>2, NothingToRemove DEF Lists
<1>4. \A i \in 1..Len(s) : si1[s[i]] = si[s[i]]
  BY <1>1, <1>2 DEF Misses, Lists
<1>5. Lists(s, ch[p], si1)
  BY <1>2, <1>4, ListElsewhere
<1>6. CASE p = d
  <2>1. si1[o] = ch[p]
    BY <1>1, <1>6
  <2>2. Lists(s, si1[o], si1)
    BY <1>5, <2>1
  <2>3. Lists(<<o>> \o s, o, si1)
    BY <1>2, <2>2, ListInFront DEF Misses
  <2>4. ListFrom(o, si1, N) = <<o>> \o s
    BY <2>3, ListIsUnique
  <2> QED BY <1>1, <1>3, <1>6, <2>4 DEF InFrontOf, s, ch1, si1
<1>7. CASE p # d
  <2>1. ListFrom(ch[p], si1, N) = s
    BY <1>5, ListIsUnique
  <2> QED BY <1>1, <1>3, <1>7, <2>1 DEF InFrontOf, s, ch1, si1
<1> QED BY <1>6, <1>7

(* Ending a list that an object is not in leaves that list. *)
LEMMA LinkNowhere ==
    ASSUME NEW si \in Links, NEW ch \in Links,
           NEW o \in Object, RankedBelow([si EXCEPT ![o] = 0]),
           \A q \in Object : q # o => si[q] # o,
           \A p \in Object : ch[p] # o,
           NEW p \in Object
    PROVE  ListFrom(ch[p], [si EXCEPT ![o] = 0], N) = ListFrom(ch[p], si, N)
<1> DEFINE s == ListFrom(ch[p], si, N)
           si1 == [si EXCEPT ![o] = 0]
<1>1. ch[p] \in Link /\ \A q \in Object : si1[q] = IF q = o THEN 0 ELSE si[q]
  BY DEF Links
<1> HIDE DEF si1
<1>2. Lists(s, ch[p], si) /\ Misses(s, o)
  BY <1>1, LooseLists DEF si1
<1> HIDE DEF s
<1>4. \A i \in 1..Len(s) : si1[s[i]] = si[s[i]]
  BY <1>1, <1>2 DEF Misses, Lists
<1>5. Lists(s, ch[p], si1)
  BY <1>2, <1>4, ListElsewhere
<1>6. ListFrom(ch[p], si1, N) = s
  BY <1>5, ListIsUnique
<1> QED BY <1>6 DEF s, si1

(* The objects of a list have the parent whose list it is. *)
LEMMA ListHasOneParent ==
    ASSUME NEW pa \in Links, NEW si \in Links, NEW ch \in Links,
           Linked(pa, si, ch), NEW p \in Object, NEW s, Lists(s, ch[p], si)
    PROVE  \A i \in 1..Len(s) : pa[s[i]] = p
<1> DEFINE S == {i \in 0..Len(s) : i # 0 => pa[s[i]] = p}
<1>0. /\ s \in Seq(Object) /\ Len(s) \in Nat
      /\ ch[p] = (IF Len(s) = 0 THEN 0 ELSE s[1])
      /\ \A i \in 1..Len(s) : si[s[i]] = IF i = Len(s) THEN 0 ELSE s[i + 1]
  BY DEF Lists
<1>1. 0 \in S
  BY <1>0
<1>2. ASSUME NEW i \in 1..Len(s), i - 1 \in S PROVE i \in S
  <2>1. s[i] # 0 /\ s[i] \in Object
    <3>1. s[i] \in Object
      BY <1>0
    <3> QED BY <3>1 DEF Object
  <2>2. CASE i = 1
    <3>1. ch[p] = s[i]
      BY <1>0, <2>2
    <3>2. pa[s[i]] = p
      BY <2>1, <3>1 DEF Linked, FirstChildren
    <3> QED BY <3>2, <1>0
  <2>3. CASE i # 1
    <3>1. /\ i - 1 \in 1..Len(s) /\ i - 1 # Len(s) /\ (i - 1) + 1 = i
          /\ i - 1 # 0
      BY <1>0, <2>3
    <3>2. si[s[i - 1]] = s[i] /\ s[i - 1] \in Object /\ pa[s[i - 1]] = p
      BY <1>0, <1>2, <3>1
    <3>3. pa[s[i]] = p
      BY <2>1, <3>2 DEF Linked, Siblings
    <3> QED BY <3>3, <1>0
  <2> QED BY <2>2, <2>3
<1> HIDE DEF S
<1>3. \A i \in 0..Len(s) : i \in S
  BY <1>0, <1>1, <1>2, InductionUpTo
<1>4. ASSUME NEW i \in 1..Len(s) PROVE pa[s[i]] = p
  <2>1. i \in 0..Len(s) /\ i # 0
    BY <1>0
  <2> QED BY <1>3, <2>1 DEF S
<1> QED BY <1>4

LEMMA InitForest == IInv /\ Init => Forest!Init
<1> SUFFICES ASSUME IInv, Init PROVE Forest!Init
  OBVIOUS
<1>1. /\ parent \in Links /\ sibling \in Links /\ child \in Links
      /\ Linked(parent, sibling, child) /\ RankedBelow(sibling)
  BY DEF IInv, TypeOK, Init, Links
<1> DEFINE c == ChildLists(sibling, child)
<1>2. \A p \in Object : c[p] = ListFrom(child[p], sibling, N)
  BY DEF ChildLists
<1>3. c = [p \in Object |-> ListFrom(child[p], sibling, N)]
  BY DEF ChildLists
<1>d. DOMAIN c = Object /\ c = [p \in Object |-> c[p]]
  BY DEF ChildLists
<1> HIDE DEF c
<1>4. ASSUME NEW p \in Object PROVE Lists(c[p], child[p], sibling)
  <2>1. child[p] \in Link
    BY <1>1 DEF Links
  <2> QED BY <1>1, <1>2, <2>1, ListFromLists
<1>5. c \in [Object -> Seq(Object)]
  <2>1. \A p \in Object : c[p] \in Seq(Object)
    BY <1>4 DEF Lists
  <2> QED BY <1>d, <2>1
<1>6. ASSUME NEW p \in Object, NEW q \in Object,
             NEW i \in 1..Len(c[p]), NEW j \in 1..Len(c[q]), c[p][i] = c[q][j]
      PROVE  p = q /\ i = j
  <2>1. parent[c[p][i]] = p
    BY <1>1, <1>4, ListHasOneParent
  <2>2. parent[c[q][j]] = q
    BY <1>1, <1>4, ListHasOneParent
  <2>3. p = q
    BY <2>1, <2>2, <1>6
  <2> QED BY <2>3, <1>4, <1>6 DEF Lists, Distinct
<1>7. /\ c \in [Object -> Seq(Object)]
      /\ \A p, q \in Object : \A i \in 1..Len(c[p]), j \in 1..Len(c[q]) :
             c[p][i] = c[q][j] => p = q /\ i = j
  BY <1>5, <1>6
<1>8. Forest!Init <=>
        /\ c \in [Object -> Seq(Object)]
        /\ \A p, q \in Object : \A i \in 1..Len(c[p]), j \in 1..Len(c[q]) :
               c[p][i] = c[q][j] => p = q /\ i = j
  BY DEF c, ChildLists, Forest!Init, Forest!Object, Object
<1> QED BY <1>7, <1>8

LEMMA SameRemoveFirst ==
    ASSUME NEW s, NEW e
    PROVE  Forest!RemoveFirst(s, e) = RemoveFirst(s, e)
<1> DEFINE I == {i \in 1..Len(s) : s[i] = e}
<1>1. Forest!SelectInSeq(s, LAMBDA v : v = e) = SelectInSeq(s, LAMBDA v : v = e)
  BY DEF Forest!SelectInSeq, SelectInSeq, Forest!Min, Min
<1>2. \A i : Forest!RemoveAt(s, i) = RemoveAt(s, i)
  BY DEF Forest!RemoveAt, RemoveAt
<1> QED BY <1>1, <1>2, Zenon DEF Forest!RemoveFirst, RemoveFirst

LEMMA StepForest == IInv /\ [Next]_vars => [Forest!Next]_(Forest!vars)
<1> SUFFICES ASSUME IInv, [Next]_vars PROVE [Forest!Next]_(Forest!vars)
  OBVIOUS
<1> DEFINE c == [p \in Object |-> ListFrom(child[p], sibling, N)]
           d == [p \in Object |-> ListFrom(child'[p], sibling', N)]
<1>t. /\ parent \in Links /\ sibling \in Links /\ child \in Links
      /\ dest \in Link /\ (at # "idle" => obj \in Object)
  BY DEF IInv, TypeOK, Links
<1>z. \A q \in Link : q # 0 => q \in Object
  BY DEF Link, Object
<1>o. Forest!Object = Object
  BY DEF Forest!Object, Object
(* What is to be shown of a step. *)
<1>s. d = c => [Forest!Next]_(Forest!vars)
  BY DEF Forest!vars, c, d
<1>m. ASSUME NEW e \in Link, obj \in Object,
             \A p \in Object :
                 d[p] = IF p = e THEN <<obj>> \o RemoveFirst(c[p], obj)
                        ELSE RemoveFirst(c[p], obj)
      PROVE  Forest!Next
  <2>1. DOMAIN d = Object /\ d = [p \in Object |-> d[p]]
    OBVIOUS
  <2> HIDE DEF d, c
  <2>2. d = [p \in Object |-> IF p = e THEN <<obj>> \o RemoveFirst(c[p], obj)
                              ELSE RemoveFirst(c[p], obj)]
    BY <1>m, <2>1
  <2>3. Forest!Move(obj, e) <=>
            d = [p \in Forest!Object |->
                    IF p = e THEN <<obj>> \o Forest!RemoveFirst(c[p], obj)
                    ELSE Forest!RemoveFirst(c[p], obj)]
    BY DEF Forest!Move, c, d
  <2>4. e \in {0} \cup Object
    BY <1>z
  <2>5. Forest!Move(obj, e)
    BY <1>o, <2>2, <2>3, SameRemoveFirst
  <2> QED BY <1>m, <1>o, <2>4, <2>5 DEF Forest!Next
<1>d. /\ \A p \in Object : d[p] = ListFrom(child'[p], sibling', N)
      /\ \A p \in Object : c[p] = ListFrom(child[p], sibling, N)
  OBVIOUS
<1>q. child' = child /\ sibling' = sibling => d = c
  OBVIOUS
<1> HIDE DEF c, d
<1>0. 0 \in Link /\ 0 \notin Object
  BY NumberAssumption DEF Link, Object
<1>1. ASSUME NEW o \in Object, NEW to \in Link, InsertObject(o, to)
      PROVE  [Forest!Next]_(Forest!vars)
  BY <1>1, <1>q, <1>s DEF InsertObject, tree
<1>2. ASSUME UnlinkFirst
      PROVE  [Forest!Next]_(Forest!vars)
  <2>1. /\ child' = [child EXCEPT ![parent[obj]] = sibling[obj]]
        /\ sibling' = sibling /\ obj \in Object
        /\ Linked(parent, sibling, child) /\ RankedBelow(sibling)
        /\ parent[obj] # 0 /\ child[parent[obj]] = obj
    BY <1>2 DEF UnlinkFirst, IInv
  <2>2. ASSUME NEW p \in Object
        PROVE  d[p] = RemoveFirst(c[p], obj)
    <3>1. ListFrom([child EXCEPT ![parent[obj]] = sibling[obj]][p], sibling, N)
              = RemoveFirst(ListFrom(child[p], sibling, N), obj)
      BY <2>1, <1>t, UnlinkFirstMoves
    <3> QED BY <2>1, <3>1, <1>d
  <2>3. Forest!Next
    BY <1>m, <1>0, <2>1, <2>2
  <2> QED BY <2>3
<1>3. ASSUME Walk
      PROVE  [Forest!Next]_(Forest!vars)
  BY <1>3, <1>q, <1>s DEF Walk, tree
<1>4. ASSUME UnlinkLater
      PROVE  [Forest!Next]_(Forest!vars)
  <2>1. /\ sibling' = [sibling EXCEPT ![head] = sibling[obj]]
        /\ child' = child /\ obj \in Object /\ Sibling(head) = obj
        /\ head \in Link
        /\ Linked(parent, sibling, child) /\ RankedBelow(sibling)
    BY <1>4 DEF UnlinkLater, AfterUnlink, IInv, TypeOK
  <2>2. head \in Object /\ sibling[head] = obj
    BY <2>1, <1>0, <1>z DEF Sibling
  <2>3. head # obj
    BY <2>1, <2>2, <1>t, NoOwnSibling
  <2>h. /\ parent \in Links /\ sibling \in Links /\ child \in Links
        /\ Linked(parent, sibling, child) /\ RankedBelow(sibling)
        /\ obj \in Object /\ head \in Object
        /\ sibling[head] = obj /\ head # obj
    BY <2>1, <2>2, <2>3, <1>t
  <2>4. ASSUME NEW p \in Object
        PROVE  d[p] = RemoveFirst(c[p], obj)
    <3>1. ListFrom(child[p], [sibling EXCEPT ![head] = sibling[obj]], N)
              = RemoveFirst(ListFrom(child[p], sibling, N), obj)
      BY <2>h, UnlinkLaterMoves
    <3> QED BY <2>1, <3>1, <1>d
  <2>5. Forest!Next
    BY <1>m, <1>0, <2>1, <2>4
  <2> QED BY <2>5
<1>5. ASSUME LinkFirst
      PROVE  [Forest!Next]_(Forest!vars)
  <2>1. /\ sibling' = [sibling EXCEPT ![obj] = NewSibling]
        /\ child' = IF dest = 0 THEN child ELSE [child EXCEPT ![dest] = obj]
        /\ obj \in Object
        /\ \A q \in Object : q # obj => sibling[q] # obj
        /\ \A p \in Object : child[p] # obj
        /\ RankedBelow([sibling EXCEPT ![obj] = 0])
    BY <1>5 DEF LinkFirst, IInv, Loose
  <2>h. /\ sibling \in Links /\ child \in Links /\ obj \in Object
        /\ \A q \in Object : q # obj => sibling[q] # obj
        /\ \A p \in Object : child[p] # obj
        /\ RankedBelow([sibling EXCEPT ![obj] = 0])
    BY <2>1, <1>t
  <2>2. CASE dest = 0
    <3>1. sibling' = [sibling EXCEPT ![obj] = 0] /\ child' = child
      BY <2>1, <2>2 DEF NewSibling
    <3>2. \A p \in Object : ListFrom(child[p], [sibling EXCEPT ![obj] = 0], N)
                                = ListFrom(child[p], sibling, N)
      BY <2>1, <1>t, LinkNowhere
    <3>3. \A p \in Object : d[p] = c[p]
      BY <3>1, <3>2, <1>d
    <3>4. d = c
      BY <3>3 DEF c, d
    <3> QED BY <3>4, <1>s
  <2>3. CASE dest # 0
    <3>1. /\ sibling' = [sibling EXCEPT ![obj] = child[dest]]
          /\ child' = [child EXCEPT ![dest] = obj] /\ dest \in Object
      BY <2>1, <2>3, <1>t, <1>z DEF NewSibling
    <3>h. dest \in Object
      BY <3>1
    <3>2. ASSUME NEW p \in Object
          PROVE  d[p] = IF p = dest THEN <<obj>> \o RemoveFirst(c[p], obj)
                        ELSE RemoveFirst(c[p], obj)
      <4>1. InFrontOf(sibling, child, obj, dest, p)
        BY <2>h, <3>h, LinkFirstMoves
      <4> QED BY <3>1, <4>1, <1>d DEF InFrontOf
    <3>3. Forest!Next
      BY <1>m, <1>t, <2>1, <3>2
    <3> QED BY <3>3
  <2> QED BY <2>2, <2>3
<1>6. ASSUME UNCHANGED vars
      PROVE  [Forest!Next]_(Forest!vars)
  BY <1>6, <1>q, <1>s DEF vars, tree
<1> QED BY <1>1, <1>2, <1>3, <1>4, <1>5, <1>6 DEF Next, Step

(* insert_obj and remove_obj (Objects.cs, InsertObject) take the object out *)
(* of the list of children it is in, make it the first in the list of its   *)
(* new parent and change no other list or order, whatever is moved where:   *)
(* the links of the object table implement a family of lists.               *)
THEOREM InsertionMovesOneObject == Spec => ImplementsForest
<1>1. Init => Forest!Init
  BY InitIInv, InitForest
<1> QED BY <1>1, IInvAlways, StepForest, PTL DEF Spec, ImplementsForest, Forest!Spec

-----------------------------------------------------------------------------
(* Sequences, one after the other *)

LEMMA Concat ==
    ASSUME NEW S, NEW s \in Seq(S), NEW t \in Seq(S)
    PROVE  /\ s \o t \in Seq(S)
           /\ Len(s) \in Nat /\ Len(t) \in Nat
           /\ Len(s \o t) = Len(s) + Len(t)
           /\ \A i \in 1..Len(s) : (s \o t)[i] = s[i]
           /\ \A i \in 1..Len(t) : (s \o t)[Len(s) + i] = t[i]
OBVIOUS

LEMMA ElementOf ==
    ASSUME NEW S, NEW s \in Seq(S)
    PROVE  Len(s) \in Nat /\ \A i \in 1..Len(s) : s[i] \in S
OBVIOUS

LEMMA SameSeq ==
    ASSUME NEW S, NEW s \in Seq(S), NEW t \in Seq(S), Len(s) = Len(t),
           \A i \in 1..Len(s) : s[i] = t[i]
    PROVE  s = t
OBVIOUS

LEMMA TwoElements ==
    ASSUME NEW S, NEW x \in S, NEW y \in S
    PROVE  <<x>> \o <<y>> = <<x, y>>
<1> DEFINE s == <<x>>
           t == <<y>>
           u == <<x, y>>
<1>1. /\ s \in Seq(S) /\ Len(s) = 1 /\ s[1] = x
      /\ t \in Seq(S) /\ Len(t) = 1 /\ t[1] = y
      /\ u \in Seq(S) /\ Len(u) = 2 /\ u[1] = x /\ u[2] = y
  OBVIOUS
<1> HIDE DEF s, t, u
<1>2. /\ s \o t \in Seq(S) /\ Len(s \o t) = Len(s) + Len(t)
      /\ \A i \in 1..Len(s) : (s \o t)[i] = s[i]
      /\ \A i \in 1..Len(t) : (s \o t)[Len(s) + i] = t[i]
  <2>1. s \in Seq(S) /\ t \in Seq(S)
    BY <1>1
  <2> QED BY <2>1, Concat
<1> DEFINE v == s \o t
<1>3. v \in Seq(S) /\ Len(v) = 2 /\ v[1] = x /\ v[2] = y
  <2>1. (s \o t)[1] = x /\ (s \o t)[2] = y
    BY <1>1, <1>2
  <2> QED BY <1>1, <1>2, <2>1
<1> HIDE DEF v
<1>4. \A i \in 1..Len(v) : v[i] = u[i]
  BY <1>1, <1>3
<1>5. v = u
  BY <1>1, <1>3, <1>4, SameSeq
<1> QED BY <1>5 DEF s, t, u, v

LEMMA PartOf ==
    ASSUME NEW S, NEW s \in Seq(S), NEW a \in Nat, a >= 1, NEW b \in Nat,
           a <= b + 1, b <= Len(s)
    PROVE  /\ SubSeq(s, a, b) \in Seq(S)
           /\ Len(SubSeq(s, a, b)) = b + 1 - a
           /\ \A i \in 1..(b + 1 - a) : SubSeq(s, a, b)[i] = s[a - 1 + i]
OBVIOUS

LEMMA PartIs ==
    ASSUME NEW S, NEW s \in Seq(S), NEW t \in Seq(S), NEW p \in Nat,
           p + Len(t) <= Len(s), \A i \in 1..Len(t) : s[p + i] = t[i]
    PROVE  SubSeq(s, p + 1, p + Len(t)) = t
<1>1. Len(t) \in Nat /\ Len(s) \in Nat
  OBVIOUS
<1>2. /\ SubSeq(s, p + 1, p + Len(t)) \in Seq(S)
      /\ Len(SubSeq(s, p + 1, p + Len(t))) = Len(t)
      /\ \A i \in 1..Len(t) : SubSeq(s, p + 1, p + Len(t))[i] = s[p + i]
  <2> DEFINE a == p + 1
             b == p + Len(t)
  <2>1. a \in Nat /\ a >= 1 /\ b \in Nat /\ a <= b + 1 /\ b <= Len(s)
        /\ b + 1 - a = Len(t) /\ \A i \in 1..Len(t) : a - 1 + i = p + i
    BY <1>1
  <2> HIDE DEF a, b
  <2>2. /\ SubSeq(s, a, b) \in Seq(S)
        /\ Len(SubSeq(s, a, b)) = b + 1 - a
        /\ \A i \in 1..(b + 1 - a) : SubSeq(s, a, b)[i] = s[a - 1 + i]
    BY <2>1, PartOf
  <2> QED BY <2>1, <2>2 DEF a, b
<1> DEFINE u == SubSeq(s, p + 1, p + Len(t))
<1> HIDE DEF u
<1>3. u \in Seq(S) /\ Len(u) = Len(t) /\ \A i \in 1..Len(u) : u[i] = t[i]
  BY <1>2 DEF u
<1>4. u = t
  BY <1>3, SameSeq
<1> QED BY <1>4 DEF u

(* Where the sequences of z are in all of them, one after the other: off[k] *)
(* elements are before the (k + 1)-st.                                      *)
LiesAt(flat, z, n, off, S) ==
    /\ off \in [0..n -> Nat]
    /\ off[0] = 0
    /\ \A k \in 1..n : off[k] = off[k - 1] + Len(z[k])
    /\ flat \in Seq(S)
    /\ Len(flat) = off[n]
    /\ \A k \in 1..n : \A j \in 1..Len(z[k]) : flat[off[k - 1] + j] = z[k][j]

LEMMA LiesAtMore ==
    ASSUME NEW S, NEW z, NEW n \in Nat, n # 0, z[n] \in Seq(S),
           \A k \in 1..(n - 1) : z[k] \in Seq(S),
           NEW flat, NEW off, LiesAt(flat, z, n - 1, off, S)
    PROVE  LiesAt(flat \o z[n], z, n,
                  [k \in 0..n |-> IF k = n THEN off[n - 1] + Len(z[n]) ELSE off[k]], S)
<1> DEFINE more == [k \in 0..n |-> IF k = n THEN off[n - 1] + Len(z[n]) ELSE off[k]]
           new == flat \o z[n]
<1>0. /\ off \in [0..(n - 1) -> Nat] /\ off[0] = 0
      /\ \A k \in 1..(n - 1) : off[k] = off[k - 1] + Len(z[k])
      /\ flat \in Seq(S) /\ Len(flat) = off[n - 1]
      /\ \A k \in 1..(n - 1) : \A j \in 1..Len(z[k]) : flat[off[k - 1] + j] = z[k][j]
  BY DEF LiesAt
<1>n. /\ n \in Nat /\ n >= 1 /\ n - 1 \in 0..(n - 1) /\ Len(z[n]) \in Nat
      /\ \A k \in 0..n : k = n \/ k \in 0..(n - 1)
      /\ \A k \in 1..n : k - 1 \in 0..(n - 1) /\ k - 1 # n /\ (k = n \/ k \in 1..(n - 1))
  OBVIOUS
<1>1. more \in [0..n -> Nat]
  BY <1>0, <1>n
<1>2. \A k \in 0..n : more[k] = IF k = n THEN off[n - 1] + Len(z[n]) ELSE off[k]
  OBVIOUS
<1>3. /\ new \in Seq(S) /\ Len(new) = Len(flat) + Len(z[n])
      /\ \A i \in 1..Len(flat) : new[i] = flat[i]
      /\ \A i \in 1..Len(z[n]) : new[Len(flat) + i] = z[n][i]
  <2> DEFINE t == z[n]
  <2>1. t \in Seq(S) /\ flat \in Seq(S)
    BY <1>0
  <2> HIDE DEF t
  <2>2. /\ flat \o t \in Seq(S) /\ Len(flat \o t) = Len(flat) + Len(t)
        /\ \A i \in 1..Len(flat) : (flat \o t)[i] = flat[i]
        /\ \A i \in 1..Len(t) : (flat \o t)[Len(flat) + i] = t[i]
    BY <2>1, Concat
  <2> QED BY <2>2 DEF t
<1> HIDE DEF more, new
<1>4. more[0] = 0
  BY <1>0, <1>2, <1>n
<1>5. ASSUME NEW k \in 1..n PROVE more[k] = more[k - 1] + Len(z[k])
  <2>1. more[k - 1] = off[k - 1]
    BY <1>2, <1>n
  <2>2. CASE k = n
    BY <1>2, <1>n, <2>1, <2>2
  <2>3. CASE k # n
    BY <1>0, <1>2, <1>n, <2>1, <2>3
  <2> QED BY <2>2, <2>3
<1>6. Len(new) = more[n]
  BY <1>0, <1>2, <1>3, <1>n
<1>7. ASSUME NEW k \in 1..n, NEW j \in 1..Len(z[k]) PROVE new[more[k - 1] + j] = z[k][j]
  <2>1. more[k - 1] = off[k - 1]
    BY <1>2, <1>n
  <2>2. CASE k = n
    BY <1>0, <1>3, <2>1, <2>2
  <2>3. CASE k # n
    <3>1. k \in 1..(n - 1)
      BY <2>3, <1>n
    <3>2. Len(z[k]) \in Nat /\ off[k - 1] \in Nat /\ off[k] \in Nat
          /\ off[k] = off[k - 1] + Len(z[k])
      BY <1>0, <3>1
    <3>3. off[k] <= off[n - 1]
      <4> DEFINE T == {i \in 0..(n - 1 - k) : off[k] <= off[k + i]}
      <4>1. 0 \in T
        BY <3>1, <3>2
      <4>2. ASSUME NEW i \in 1..(n - 1 - k), i - 1 \in T PROVE i \in T
        <5>1. k + i \in 1..(n - 1) /\ k + (i - 1) = (k + i) - 1
              /\ (k + i) - 1 \in 0..(n - 1) /\ k + i \in 0..(n - 1)
          BY <3>1
        <5> DEFINE v == k + i
        <5>5. v \in 1..(n - 1)
          BY <5>1
        <5> HIDE DEF v
        <5>6. z[v] \in Seq(S) /\ off[v] = off[v - 1] + Len(z[v])
          BY <1>0, <5>5
        <5>7. Len(z[v]) \in Nat
          BY <5>6, ElementOf
        <5>2. off[k + i] = off[(k + i) - 1] + Len(z[k + i]) /\ Len(z[k + i]) \in Nat
          BY <5>6, <5>7, Zenon DEF v
        <5>3. off[k + i] \in Nat /\ off[(k + i) - 1] \in Nat
          BY <1>0, <5>1
        <5>4. off[k] <= off[(k + i) - 1]
          BY <4>2, <5>1
        <5> QED BY <5>2, <5>3, <5>4, <3>2
      <4>3. n - 1 - k \in Nat
        BY <3>1
      <4> HIDE DEF T
      <4>4. \A i \in 0..(n - 1 - k) : i \in T
        BY <4>1, <4>2, <4>3, InductionUpTo
      <4>5. n - 1 - k \in T
        BY <4>3, <4>4
      <4>6. k + (n - 1 - k) = n - 1
        BY <3>1
      <4> QED BY <4>5, <4>6 DEF T
    <3>4. off[k - 1] + j \in 1..Len(flat)
      <4>1. /\ off[k - 1] + j \in Nat /\ 1 <= off[k - 1] + j
            /\ off[k - 1] + j <= off[k]
        BY <3>2
      <4>2. off[n - 1] \in Nat /\ Len(flat) = off[n - 1]
        BY <1>0, <1>n
      <4> QED BY <3>2, <3>3, <4>1, <4>2
    <3> QED BY <1>0, <1>3, <2>1, <3>1, <3>4
  <2> QED BY <2>2, <2>3
<1>8. LiesAt(new, z, n, more, S)
  BY <1>1, <1>3, <1>4, <1>5, <1>6, <1>7 DEF LiesAt
<1> QED BY <1>8 DEF new, more

LEMMA FlattenPlaces ==
    ASSUME NEW S, NEW n \in Nat, NEW z \in [1..n -> Seq(S)]
    PROVE  \E off : LiesAt(FlattenSeq(z), z, n, off, S)
<1> DEFINE V == Seq(S)
           joins == [i \in 1..n |-> [v \in V |-> v \o z[i]]]
           flatten[i \in 1..Len(z)] ==
              IF i = 1 THEN z[i] ELSE flatten[i - 1] \o z[i]
<1>0. /\ z \in Seq(V) /\ Len(z) = n /\ <<>> \in V /\ \A i \in 1..n : z[i] \in V
      /\ \A v, w \in V : v \o w \in V
  OBVIOUS
<1>1. joins \in [1..n -> [V -> V]]
  <2> HIDE DEF V
  <2> QED BY <1>0
<1>2. \A i \in 1..n : \A v \in V : joins[i][v] = v \o z[i]
  OBVIOUS
<1> HIDE DEF joins
<1>3. PICK f : Iterates(f, n, V, <<>>, joins)
  <2> HIDE DEF V
  <2> QED BY <1>0, <1>1, RecursionExists
<1>4. /\ f \in [0..n -> V] /\ f[0] = <<>>
      /\ \A i \in 1..n : f[i - 1] \in V /\ f[i] = f[i - 1] \o z[i]
  <2> HIDE DEF V
  <2>1. f \in [0..n -> V] /\ f[0] = <<>> /\ \A i \in 1..n : f[i] = joins[i][f[i - 1]]
    BY <1>3 DEF Iterates
  <2>2. \A i \in 1..n : f[i - 1] \in V
    BY <2>1
  <2> QED BY <1>2, <2>1, <2>2
<1>5. n # 0 => FlattenSeq(z) = f[n]
  <2> SUFFICES ASSUME n # 0 PROVE FlattenSeq(z) = f[n]
    OBVIOUS
  <2> DEFINE g == [i \in 1..Len(z) |-> f[i]]
  <2>1. f[1] = z[1]
    <3>1. 1 \in 1..n /\ 1 - 1 = 0
      OBVIOUS
    <3>2. f[1] = <<>> \o z[1] /\ z[1] \in V
      BY <1>0, <1>4, <3>1
    <3>3. \A w \in V : <<>> \o w = w
      OBVIOUS
    <3> QED BY <3>2, <3>3
  <2>2. ASSUME NEW i \in 1..n PROVE g[i] = IF i = 1 THEN z[i] ELSE g[i - 1] \o z[i]
    <3>1. i # 1 => i - 1 \in 1..n
      OBVIOUS
    <3>2. g[i] = f[i] /\ (i # 1 => g[i - 1] = f[i - 1])
      BY <1>0, <3>1
    <3> HIDE DEF g
    <3>3. f[i] = f[i - 1] \o z[i]
      BY <1>4
    <3> QED BY <2>1, <3>2, <3>3
  <2>3. g = [i \in 1..Len(z) |-> IF i = 1 THEN z[i] ELSE g[i - 1] \o z[i]]
    <3>1. g = [i \in 1..Len(z) |-> g[i]]
      OBVIOUS
    <3> HIDE DEF g
    <3> QED BY <1>0, <2>2, <3>1
  <2>4. flatten = [i \in 1..Len(z) |-> IF i = 1 THEN z[i] ELSE flatten[i - 1] \o z[i]]
    BY <2>3, Zenon
  <2>5. FlattenSeq(z) = flatten[n]
    BY <1>0, Zenon DEF FlattenSeq, flatten
  <2> HIDE DEF flatten, g
  <2> DEFINE T == {i \in 0..n : i = 0 \/ flatten[i] = f[i]}
  <2>6. 0 \in T
    OBVIOUS
  <2>7. ASSUME NEW i \in 1..n, i - 1 \in T PROVE i \in T
    <3>1. flatten[i] = IF i = 1 THEN z[i] ELSE flatten[i - 1] \o z[i]
      BY <1>0, <2>4
    <3>2. CASE i = 1
      BY <2>1, <3>1, <3>2
    <3>3. CASE i # 1
      <4>1. flatten[i - 1] = f[i - 1]
        BY <2>7, <3>3
      <4>2. flatten[i] = f[i]
        BY <1>4, <3>1, <3>3, <4>1
      <4> QED BY <4>2
    <3> QED BY <3>2, <3>3
  <2> HIDE DEF T
  <2>8. \A i \in 0..n : i \in T
    BY <2>6, <2>7, InductionUpTo
  <2>9. flatten[n] = f[n]
    BY <2>8 DEF T
  <2> QED BY <2>5, <2>9
<1>6. n = 0 => FlattenSeq(z) = f[n]
  <2>1. n = 0 => z = <<>>
    OBVIOUS
  <2>2. n = 0 => FlattenSeq(z) = z
    BY <1>0, Zenon DEF FlattenSeq
  <2> QED BY <1>4, <2>1, <2>2
<1>7. \A i \in 0..n : \E off : LiesAt(f[i], z, i, off, S)
  <2> DEFINE T == {i \in 0..n : \E off : LiesAt(f[i], z, i, off, S)}
  <2>1. 0 \in T
    <3>1. LiesAt(<<>>, z, 0, [i \in 0..0 |-> 0], S)
      BY DEF LiesAt
    <3> QED BY <1>4, <3>1
  <2>2. ASSUME NEW i \in 1..n, i - 1 \in T PROVE i \in T
    <3>1. PICK off : LiesAt(f[i - 1], z, i - 1, off, S)
      BY <2>2
    <3>2. i \in Nat /\ i # 0 /\ z[i] \in Seq(S) /\ \A k \in 1..(i - 1) : z[k] \in Seq(S)
      BY <1>0
    <3> DEFINE v == f[i - 1]
               w == v \o z[i]
               r == [k \in 0..i |-> IF k = i THEN off[i - 1] + Len(z[i]) ELSE off[k]]
    <3>3. LiesAt(w, z, i, r, S)
      <4> HIDE DEF v
      <4>1. LiesAt(v, z, i - 1, off, S)
        BY <3>1 DEF v
      <4> QED BY <3>2, <4>1, LiesAtMore
    <3>4. f[i] = w
      BY <1>4
    <3> HIDE DEF r, w
    <3>5. \E o : LiesAt(f[i], z, i, o, S)
      BY <3>3, <3>4
    <3> QED BY <3>5
  <2> HIDE DEF T
  <2>3. \A i \in 0..n : i \in T
    BY <2>1, <2>2, InductionUpTo
  <2> QED BY <2>3 DEF T
<1>8. \E off : LiesAt(f[n], z, n, off, S)
  BY <1>7
<1> QED BY <1>5, <1>6, <1>8

LEMMA LiesBelow ==
    ASSUME NEW S, NEW n \in Nat, NEW z \in [1..n -> Seq(S)], NEW flat, NEW off,
           LiesAt(flat, z, n, off, S)
    PROVE  \A k \in 1..n : off[k] <= Len(flat)
<1>1. /\ off \in [0..n -> Nat] /\ Len(flat) = off[n]
      /\ \A k \in 1..n : off[k] = off[k - 1] + Len(z[k])
  BY DEF LiesAt
<1>2. \A k \in 1..n : Len(z[k]) \in Nat
  OBVIOUS
<1> DEFINE T == {k \in 1..n + 1 : k = n + 1 \/ off[k] <= off[n]}
<1>3. n + 1 \in T
  OBVIOUS
<1>4. ASSUME NEW k \in 1..n, \A j \in k + 1..n + 1 : j \in T PROVE k \in T
  <2>1. CASE k = n
    <3>1. off[n] \in Nat
      BY <1>1
    <3> QED BY <2>1, <3>1
  <2>2. CASE k # n
    <3>1. k + 1 \in 1..n /\ (k + 1) - 1 = k /\ k + 1 \in k + 1..n + 1 /\ k + 1 # n + 1
      BY <2>2
    <3>2. off[k + 1] <= off[n] /\ off[k + 1] = off[k] + Len(z[k + 1]) /\ Len(z[k + 1]) \in Nat
      BY <1>1, <1>2, <1>4, <3>1
    <3>3. off[k] \in Nat /\ off[n] \in Nat
      BY <1>1
    <3>4. off[k] <= off[n]
      BY <3>2, <3>3
    <3> QED BY <3>4
  <2> QED BY <2>1, <2>2
<1> HIDE DEF T
<1>5. \A k \in 1..n + 1 : k \in T
  BY <1>3, <1>4, InductionDown
<1>6. \A k \in 1..n : off[k] <= off[n]
  <2> SUFFICES ASSUME NEW k \in 1..n PROVE off[k] <= off[n]
    OBVIOUS
  <2>1. k \in T /\ k # n + 1
    BY <1>5
  <2> QED BY <2>1 DEF T
<1> QED BY <1>1, <1>6

-----------------------------------------------------------------------------
(* Numbers and words in bytes *)

LEMMA ByteIs == \A b : b \in Byte <=> b \in Int /\ 0 <= b /\ b <= 255
BY DEF Byte

LEMMA LowByte == \A n \in Int : n % 256 \in Byte
BY DEF Byte

LEMMA WordIs == \A n : n \in Word <=> n \in Int /\ -32768 <= n /\ n <= 32767
<1>1. 2^15 = 32768
  OBVIOUS
<1>2. \A n : n \in Word <=> n \in Int /\ -(2^15) <= n /\ n <= 2^15 - 1
  BY DEF Word
<1> QED BY <1>1, <1>2

LEMMA Powers ==
    /\ 2^0 = 1 /\ 2^1 = 2 /\ 2^2 = 4 /\ 2^3 = 8 /\ 2^4 = 16 /\ 2^5 = 32 /\ 2^6 = 64
    /\ 2^7 = 128 /\ 2^8 = 256 /\ 2^16 = 65536 /\ 2^24 = 16777216
    /\ 2^30 = 1073741824
OBVIOUS

(* A number is its last byte and what is before it. *)
LEMMA LastByte ==
    \A n \in Int : /\ n = 256 * (n \div 256) + (n % 256)
                   /\ n \div 256 \in Int /\ n % 256 \in 0..255
                   /\ n >= 0 => n \div 256 >= 0
OBVIOUS

LEMMA HigherBytes ==
    \A n \in Nat : /\ (n \div 256) \div 256 = n \div 65536
                   /\ (n \div 65536) \div 256 = n \div 16777216
OBVIOUS

LEMMA SmallNumber == \A n \in Byte : n % 256 = n
BY DEF Byte

LEMMA FourBytes ==
    ASSUME NEW n \in Nat, n < 128 * 2^24
    PROVE  /\ Bytes4(n) \in Seq(Byte) /\ Len(Bytes4(n)) = 4
           /\ 2^24 * Bytes4(n)[1] + 2^16 * Bytes4(n)[2] + 2^8 * Bytes4(n)[3] + Bytes4(n)[4] = n
           /\ Bytes4(n)[1] < 128
<1> DEFINE a == n \div 256
           b == n \div 65536
           c == n \div 16777216
<1>1. /\ n = 256 * a + (n % 256) /\ a = 256 * b + (a % 256) /\ b = 256 * c + (b % 256)
      /\ a \in Nat /\ b \in Nat /\ c \in Nat
  BY LastByte, HigherBytes
<1>2. n % 256 \in Byte /\ a % 256 \in Byte /\ b % 256 \in Byte
  BY <1>1, LowByte
<1>3. c <= 127
  BY Powers
<1>4. c \in Byte /\ c < 128
  BY <1>1, <1>3, ByteIs
<1>5. Bytes4(n) = <<c, b % 256, a % 256, n % 256>>
  BY Powers DEF Bytes4
<1> HIDE DEF a, b, c
<1>6. n = 16777216 * c + 65536 * (b % 256) + 256 * (a % 256) + (n % 256)
  <2> DEFINE x == n % 256
             y == a % 256
             z == b % 256
  <2>1. x \in Int /\ y \in Int /\ z \in Int
    BY <1>2, ByteIs
  <2>2. n = 256 * a + x /\ a = 256 * b + y /\ b = 256 * c + z
    BY <1>1
  <2> HIDE DEF x, y, z
  <2>3. n = 16777216 * c + 65536 * z + 256 * y + x
    BY <1>1, <2>1, <2>2
  <2> QED BY <2>3 DEF x, y, z
<1> QED BY <1>2, <1>4, <1>5, <1>6, Powers

LEMMA ThreeBytes ==
    ASSUME NEW n \in 0..(2^24 - 1)
    PROVE  /\ Bytes3(n) \in Seq(Byte) /\ Len(Bytes3(n)) = 3
           /\ 2^16 * Bytes3(n)[1] + 2^8 * Bytes3(n)[2] + Bytes3(n)[3] = n
<1> DEFINE a == n \div 256
           b == n \div 65536
<1>0. n \in Nat /\ n < 16777216
  BY Powers
<1>1. /\ n = 256 * a + (n % 256) /\ a = 256 * b + (a % 256)
      /\ a \in Nat /\ b \in Nat
  BY <1>0, LastByte, HigherBytes
<1>2. n % 256 \in Byte /\ a % 256 \in Byte
  BY <1>0, <1>1, LowByte
<1>3. b <= 255
  BY <1>0
<1>4. b \in Byte /\ b % 256 = b
  BY <1>1, <1>3, ByteIs, SmallNumber
<1>5. Bytes3(n) = <<b, a % 256, n % 256>>
  BY <1>4, Powers DEF Bytes3
<1> HIDE DEF a, b
<1>6. n = 65536 * b + 256 * (a % 256) + (n % 256)
  <2> DEFINE x == n % 256
             y == a % 256
  <2>1. x \in Int /\ y \in Int
    BY <1>2, ByteIs
  <2>2. n = 256 * a + x /\ a = 256 * b + y
    BY <1>1
  <2> HIDE DEF x, y
  <2>3. n = 65536 * b + 256 * y + x
    BY <1>1, <2>1, <2>2
  <2> QED BY <2>3 DEF x, y
<1> QED BY <1>2, <1>4, <1>5, <1>6, Powers

LEMMA TwoBytes ==
    ASSUME NEW n \in 0..(2^16 - 1)
    PROVE  /\ Bytes2(n) \in Seq(Byte) /\ Len(Bytes2(n)) = 2
           /\ 2^8 * Bytes2(n)[1] + Bytes2(n)[2] = n
<1> DEFINE a == n \div 256
<1>0. n \in Nat /\ n < 65536
  BY Powers
<1>1. n = 256 * a + (n % 256) /\ a \in Nat /\ a <= 255 /\ n % 256 \in Byte
  BY <1>0, LastByte, LowByte
<1>2. a \in Byte /\ a % 256 = a
  BY <1>1, ByteIs, SmallNumber
<1>3. Bytes2(n) = <<a, n % 256>>
  BY <1>2, Powers DEF Bytes2
<1> HIDE DEF a
<1> QED BY <1>1, <1>2, <1>3, Powers

(* A word of 16 bits is what its two bytes make. *)
LEMMA WordOfBytes ==
    ASSUME NEW w \in Word
    PROVE  /\ (w \div 2^8) % 256 \in Byte /\ w % 256 \in Byte
           /\ Signed(2^8 * ((w \div 2^8) % 256) + (w % 256)) = w
<1> DEFINE a == w \div 256
           x == w % 256
           h == a % 256
<1>1. w \in Int /\ -32768 <= w /\ w <= 32767
  BY WordIs
<1>2. w = 256 * a + x /\ a \in Int /\ x \in Byte /\ h \in Byte
  BY <1>1, LastByte, LowByte
<1>3. -128 <= a /\ a <= 127
  BY <1>1
<1>4. a >= 0 => h = a
  <2> HIDE DEF x
  <2> QED BY <1>2, <1>3
<1>5. a < 0 => h = a + 256
  <2> HIDE DEF x
  <2> QED BY <1>2, <1>3
<1>6. w \div 2^8 = a
  BY Powers
<1>7. x \in Int /\ 0 <= x /\ x <= 255
  BY <1>2, ByteIs
<1> HIDE DEF a, x, h
<1>8. Signed(256 * h + x) = w
  <2>1. CASE a >= 0
    <3>1. 256 * h + x = w
      BY <1>2, <1>4, <2>1
    <3>2. ~(w >= 32768)
      BY <1>1
    <3> QED BY <3>1, <3>2 DEF Signed
  <2>2. CASE a < 0
    <3>1. 256 * h + x = w + 65536
      BY <1>2, <1>5, <1>7, <2>2
    <3>2. w + 65536 >= 32768 /\ (w + 65536) - 65536 = w
      BY <1>1
    <3> QED BY <3>1, <3>2 DEF Signed
  <2> QED BY <1>2, <2>1, <2>2
<1>9. (w \div 2^8) % 256 = h
  BY <1>6 DEF h
<1> QED BY <1>2, <1>8, <1>9, Powers DEF x

LEMMA WordsAgain ==
    ASSUME NEW w \in Seq(Word)
    PROVE  /\ WordBytes(w) \in Seq(Byte) /\ Len(WordBytes(w)) = 2 * Len(w)
           /\ Words(WordBytes(w)) = w
<1> DEFINE n == Len(w)
           b == WordBytes(w)
<1>0. n \in Nat /\ \A i \in 1..n : w[i] \in Word
  OBVIOUS
<1>1. b = [i \in 1..2 * n |-> IF i % 2 = 1 THEN (w[(i + 1) \div 2] \div 2^8) % 256
                              ELSE w[(i + 1) \div 2] % 256]
  BY DEF WordBytes
<1>2. \A i \in 1..2 * n : (i + 1) \div 2 \in 1..n
  BY <1>0
<1>3. \A i \in 1..2 * n : b[i] \in Byte
  <2> SUFFICES ASSUME NEW i \in 1..2 * n PROVE b[i] \in Byte
    OBVIOUS
  <2> DEFINE x == w[(i + 1) \div 2]
  <2>1. x \in Word
    BY <1>0, <1>2
  <2>2. b[i] = IF i % 2 = 1 THEN (x \div 2^8) % 256 ELSE x % 256
    BY <1>1
  <2> HIDE DEF x, b
  <2> QED BY <2>1, <2>2, WordOfBytes
<1>4. b \in Seq(Byte) /\ Len(b) = 2 * n
  <2>1. 2 * n \in Nat /\ DOMAIN b = 1..2 * n
    BY <1>0, <1>1
  <2> HIDE DEF b
  <2>2. b = [i \in 1..2 * n |-> b[i]]
    <3>1. \E g : b = [i \in 1..2 * n |-> g[i]]
      <4> DEFINE byte(i) == IF i % 2 = 1 THEN (w[(i + 1) \div 2] \div 2^8) % 256
                            ELSE w[(i + 1) \div 2] % 256
                 g == [i \in 1..2 * n |-> byte(i)]
      <4>1. b = g
        BY <1>1, Zenon
      <4> HIDE DEF byte
      <4>2. g = [i \in 1..2 * n |-> g[i]]
        OBVIOUS
      <4> HIDE DEF g
      <4> QED BY <4>1, <4>2
    <3> QED BY <3>1
  <2> DEFINE k == 2 * n
  <2>3. \A i \in 1..k : b[i] \in Byte
    BY <1>3 DEF b
  <2> HIDE DEF n, k
  <2>4. k \in Nat /\ b = [i \in 1..k |-> b[i]]
    BY <2>1, <2>2 DEF k
  <2>5. b \in Seq(Byte) /\ Len(b) = k
    BY <2>3, <2>4
  <2> QED BY <2>5 DEF k
<1>5. \A i \in 1..n : Signed(At2(b, 2 * i - 1)) = w[i]
  <2> SUFFICES ASSUME NEW i \in 1..n PROVE Signed(At2(b, 2 * i - 1)) = w[i]
    OBVIOUS
  <2>1. /\ 2 * i - 1 \in 1..2 * n /\ (2 * i - 1) % 2 = 1 /\ ((2 * i - 1) + 1) \div 2 = i
        /\ 2 * i \in 1..2 * n /\ (2 * i) % 2 # 1 /\ (2 * i + 1) \div 2 = i
        /\ (2 * i - 1) + 1 = 2 * i
    BY <1>0
  <2>2. b[2 * i - 1] = (w[i] \div 2^8) % 256
    BY <1>1, <2>1
  <2>3. b[2 * i] = w[i] % 256
    BY <1>1, <2>1
  <2>4. At2(b, 2 * i - 1) = 2^8 * ((w[i] \div 2^8) % 256) + (w[i] % 256)
    <3> DEFINE j == 2 * i - 1
               v == w[i]
    <3>1. At2(b, j) = 2^8 * b[j] + b[j + 1] /\ j + 1 = 2 * i
      BY <2>1 DEF At2
    <3>2. b[j] = (v \div 2^8) % 256 /\ b[2 * i] = v % 256
      BY <2>2, <2>3
    <3> HIDE DEF j, v, b
    <3>3. At2(b, j) = 2^8 * ((v \div 2^8) % 256) + (v % 256)
      BY <3>1, <3>2, Zenon
    <3> QED BY <3>3 DEF j, v
  <2>5. w[i] \in Word
    BY <1>0
  <2> QED BY <2>4, <2>5, WordOfBytes
<1>6. Len(b) \div 2 = n
  <2> HIDE DEF b
  <2> QED BY <1>0, <1>4
<1> HIDE DEF b
<1>7. Words(b) = [i \in 1..n |-> Signed(At2(b, 2 * i - 1))]
  BY <1>6 DEF Words
<1>8. Words(b) = [i \in 1..n |-> w[i]]
  BY <1>5, <1>7
<1>9. Words(b) = w
  BY <1>0, <1>8
<1> QED BY <1>4, <1>9 DEF b

LEMMA ArgumentsAgain ==
    ASSUME NEW n \in 0..7
    PROVE  ArgBits(n) \in Byte /\ ArgCount(ArgBits(n)) = n
<1> DEFINE Low(k) == 2^k \div 2
           High(k) == 2^k - 1
           b == ArgBits(n)
<1>0. /\ High(0) = 0 /\ High(1) = 1 /\ High(2) = 3 /\ High(3) = 7
      /\ High(4) = 15 /\ High(5) = 31 /\ High(6) = 63 /\ High(7) = 127
      /\ Low(0) = 0 /\ Low(1) = 1 /\ Low(2) = 2 /\ Low(3) = 4
      /\ Low(4) = 8 /\ Low(5) = 16 /\ Low(6) = 32 /\ Low(7) = 64
  BY Powers
<1>1. b = High(n)
  <2>1. CASE n \in 1..7
    BY <2>1 DEF ArgBits
  <2>2. CASE n = 0
    BY <2>2, <1>0 DEF ArgBits
  <2> QED BY <2>1, <2>2
<1>2. ArgCount(b) = CHOOSE k \in 0..7 : b % 128 \in Low(k)..High(k)
  BY DEF ArgCount
<1> HIDE DEF Low, High, b
<1>3. n = 0 \/ n = 1 \/ n = 2 \/ n = 3 \/ n = 4 \/ n = 5 \/ n = 6 \/ n = 7
  OBVIOUS
<1>4. b \in 0..127 /\ b \in Low(n)..High(n)
  BY <1>0, <1>1, <1>3
<1>5. b % 128 = b
  BY <1>4
<1>6. ASSUME NEW k \in 0..7, b \in Low(k)..High(k) PROVE k = n
  <2>1. k = 0 \/ k = 1 \/ k = 2 \/ k = 3 \/ k = 4 \/ k = 5 \/ k = 6 \/ k = 7
    OBVIOUS
  <2> QED BY <1>0, <1>3, <1>4, <1>6, <2>1
<1>7. ArgCount(b) = n
  BY <1>2, <1>4, <1>5, <1>6
<1>8. b \in Byte
  BY <1>4 DEF Byte
<1> QED BY <1>7, <1>8 DEF b

-----------------------------------------------------------------------------
(* CMem: what the differences are read as is what they were taken from *)

(* The bits of a byte, the lowest first. *)
LEMMA Bits ==
    ASSUME NEW a \in Byte
    PROVE  a = (a % 2) + 2 * ((a \div 2) % 2) + 4 * ((a \div 4) % 2)
               + 8 * ((a \div 8) % 2) + 16 * ((a \div 16) % 2) + 32 * ((a \div 32) % 2)
               + 64 * ((a \div 64) % 2) + 128 * ((a \div 128) % 2)
BY DEF Byte

LEMMA BitsBelow ==
    ASSUME NEW b \in {0, 1}, NEW n \in Nat
    PROVE  (b + 2 * n) % 2 = b /\ (b + 2 * n) \div 2 = n
OBVIOUS

LEMMA Halves ==
    \A n \in Nat : /\ (n \div 2) \div 2 = n \div 4 /\ (n \div 4) \div 2 = n \div 8
                   /\ (n \div 8) \div 2 = n \div 16 /\ (n \div 16) \div 2 = n \div 32
                   /\ (n \div 32) \div 2 = n \div 64 /\ (n \div 64) \div 2 = n \div 128
OBVIOUS

LEMMA BitsOf ==
    ASSUME NEW a0 \in {0, 1}, NEW a1 \in {0, 1}, NEW a2 \in {0, 1}, NEW a3 \in {0, 1},
           NEW a4 \in {0, 1}, NEW a5 \in {0, 1}, NEW a6 \in {0, 1}, NEW a7 \in {0, 1},
           NEW x, x = a0 + 2 * a1 + 4 * a2 + 8 * a3 + 16 * a4 + 32 * a5 + 64 * a6 + 128 * a7
    PROVE  /\ x \in Byte
           /\ x % 2 = a0 /\ (x \div 2) % 2 = a1 /\ (x \div 4) % 2 = a2
           /\ (x \div 8) % 2 = a3 /\ (x \div 16) % 2 = a4 /\ (x \div 32) % 2 = a5
           /\ (x \div 64) % 2 = a6 /\ (x \div 128) % 2 = a7
<1> DEFINE x7 == a7
           x6 == a6 + 2 * x7
           x5 == a5 + 2 * x6
           x4 == a4 + 2 * x5
           x3 == a3 + 2 * x4
           x2 == a2 + 2 * x3
           x1 == a1 + 2 * x2
<1>1. x7 \in Nat /\ x6 \in Nat /\ x5 \in Nat /\ x4 \in Nat /\ x3 \in Nat /\ x2 \in Nat
      /\ x1 \in Nat
  OBVIOUS
<1>2. x = a0 + 2 * x1
  OBVIOUS
<1>3. x \in Byte
  BY DEF Byte
<1>4. x % 2 = a0 /\ x \div 2 = x1
  <2> HIDE DEF x1
  <2> QED BY <1>1, <1>2, BitsBelow
<1>5. x1 % 2 = a1 /\ x1 \div 2 = x2
  <2> HIDE DEF x2
  <2> QED BY <1>1, BitsBelow
<1>6. x2 % 2 = a2 /\ x2 \div 2 = x3
  <2> HIDE DEF x3
  <2> QED BY <1>1, BitsBelow
<1>7. x3 % 2 = a3 /\ x3 \div 2 = x4
  <2> HIDE DEF x4
  <2> QED BY <1>1, BitsBelow
<1>8. x4 % 2 = a4 /\ x4 \div 2 = x5
  <2> HIDE DEF x5
  <2> QED BY <1>1, BitsBelow
<1>9. x5 % 2 = a5 /\ x5 \div 2 = x6
  <2> HIDE DEF x6
  <2> QED BY <1>1, BitsBelow
<1>10. x6 % 2 = a6 /\ x6 \div 2 = x7
  <2> HIDE DEF x7
  <2> QED BY <1>1, BitsBelow
<1>11. x7 % 2 = a7
  OBVIOUS
<1> HIDE DEF x1, x2, x3, x4, x5, x6, x7
<1>12. x \in Nat
  BY <1>1, <1>2
<1>13. x \div 4 = x2 /\ x \div 8 = x3 /\ x \div 16 = x4 /\ x \div 32 = x5
       /\ x \div 64 = x6 /\ x \div 128 = x7
  BY <1>4, <1>5, <1>6, <1>7, <1>8, <1>9, <1>10, <1>12, Halves
<1> QED BY <1>3, <1>4, <1>5, <1>6, <1>7, <1>8, <1>9, <1>10, <1>11, <1>13

Other(a, b) == IF a = b THEN 0 ELSE 1

LEMMA XorBits ==
    ASSUME NEW a \in Byte, NEW b \in Byte
    PROVE  /\ Xor(a, b) \in Byte
           /\ Xor(a, b) % 2 = Other(a % 2, b % 2)
           /\ (Xor(a, b) \div 2) % 2 = Other((a \div 2) % 2, (b \div 2) % 2)
           /\ (Xor(a, b) \div 4) % 2 = Other((a \div 4) % 2, (b \div 4) % 2)
           /\ (Xor(a, b) \div 8) % 2 = Other((a \div 8) % 2, (b \div 8) % 2)
           /\ (Xor(a, b) \div 16) % 2 = Other((a \div 16) % 2, (b \div 16) % 2)
           /\ (Xor(a, b) \div 32) % 2 = Other((a \div 32) % 2, (b \div 32) % 2)
           /\ (Xor(a, b) \div 64) % 2 = Other((a \div 64) % 2, (b \div 64) % 2)
           /\ (Xor(a, b) \div 128) % 2 = Other((a \div 128) % 2, (b \div 128) % 2)
<1> DEFINE d0 == Other(a % 2, b % 2)
           d1 == Other((a \div 2) % 2, (b \div 2) % 2)
           d2 == Other((a \div 4) % 2, (b \div 4) % 2)
           d3 == Other((a \div 8) % 2, (b \div 8) % 2)
           d4 == Other((a \div 16) % 2, (b \div 16) % 2)
           d5 == Other((a \div 32) % 2, (b \div 32) % 2)
           d6 == Other((a \div 64) % 2, (b \div 64) % 2)
           d7 == Other((a \div 128) % 2, (b \div 128) % 2)
           x == Xor(a, b)
<1>0. a \div 1 = a /\ b \div 1 = b
  BY DEF Byte
<1>1. /\ d0 \in {0, 1} /\ d1 \in {0, 1} /\ d2 \in {0, 1} /\ d3 \in {0, 1}
      /\ d4 \in {0, 1} /\ d5 \in {0, 1} /\ d6 \in {0, 1} /\ d7 \in {0, 1}
  BY DEF Other
<1> DEFINE bit(i) == IF (a \div 2^i) % 2 = (b \div 2^i) % 2 THEN 0 ELSE 2^i
<1>2. /\ bit(0) = d0 /\ bit(1) = 2 * d1 /\ bit(2) = 4 * d2 /\ bit(3) = 8 * d3
      /\ bit(4) = 16 * d4 /\ bit(5) = 32 * d5 /\ bit(6) = 64 * d6 /\ bit(7) = 128 * d7
  BY <1>0, Powers DEF Other
<1>3. x = bit(0) + bit(1) + bit(2) + bit(3) + bit(4) + bit(5) + bit(6) + bit(7)
  BY Zenon DEF Xor
<1> HIDE DEF d0, d1, d2, d3, d4, d5, d6, d7, bit, x
<1>4. x = d0 + 2 * d1 + 4 * d2 + 8 * d3 + 16 * d4 + 32 * d5 + 64 * d6 + 128 * d7
  BY <1>2, <1>3
<1>5. /\ x \in Byte
      /\ x % 2 = d0 /\ (x \div 2) % 2 = d1 /\ (x \div 4) % 2 = d2
      /\ (x \div 8) % 2 = d3 /\ (x \div 16) % 2 = d4 /\ (x \div 32) % 2 = d5
      /\ (x \div 64) % 2 = d6 /\ (x \div 128) % 2 = d7
  BY <1>1, <1>4, BitsOf
<1> QED BY <1>5 DEF d0, d1, d2, d3, d4, d5, d6, d7, x

LEMMA OtherTwice == \A a, b \in {0, 1} : Other(b, Other(a, b)) = a
BY DEF Other

LEMMA XorTwice ==
    ASSUME NEW a \in Byte, NEW b \in Byte
    PROVE  /\ Xor(a, b) \in Byte
           /\ Xor(b, Xor(a, b)) = a
           /\ a # b => Xor(a, b) # 0
<1> DEFINE x == Xor(a, b)
           y == Xor(b, x)
<1> DEFINE Bit(n, k) == (n \div k) % 2
<1>1. x \in Byte /\ y \in Byte
  BY XorBits
<1>2. \A n \in Byte : n % 2 \in {0, 1} /\ \A k \in Nat \ {0} : Bit(n, k) \in {0, 1}
  BY DEF Byte
<1>x. /\ x % 2 = Other(a % 2, b % 2)
      /\ Bit(x, 2) = Other(Bit(a, 2), Bit(b, 2))
      /\ Bit(x, 4) = Other(Bit(a, 4), Bit(b, 4))
      /\ Bit(x, 8) = Other(Bit(a, 8), Bit(b, 8))
      /\ Bit(x, 16) = Other(Bit(a, 16), Bit(b, 16))
      /\ Bit(x, 32) = Other(Bit(a, 32), Bit(b, 32))
      /\ Bit(x, 64) = Other(Bit(a, 64), Bit(b, 64))
      /\ Bit(x, 128) = Other(Bit(a, 128), Bit(b, 128))
  BY XorBits
<1>y. /\ y % 2 = Other(b % 2, x % 2)
      /\ Bit(y, 2) = Other(Bit(b, 2), Bit(x, 2))
      /\ Bit(y, 4) = Other(Bit(b, 4), Bit(x, 4))
      /\ Bit(y, 8) = Other(Bit(b, 8), Bit(x, 8))
      /\ Bit(y, 16) = Other(Bit(b, 16), Bit(x, 16))
      /\ Bit(y, 32) = Other(Bit(b, 32), Bit(x, 32))
      /\ Bit(y, 64) = Other(Bit(b, 64), Bit(x, 64))
      /\ Bit(y, 128) = Other(Bit(b, 128), Bit(x, 128))
  <2> HIDE DEF x
  <2> QED BY <1>1, XorBits
<1>n. \A n \in Byte : n = (n % 2) + 2 * Bit(n, 2) + 4 * Bit(n, 4) + 8 * Bit(n, 8)
                          + 16 * Bit(n, 16) + 32 * Bit(n, 32) + 64 * Bit(n, 64)
                          + 128 * Bit(n, 128)
  BY Bits
<1> HIDE DEF x, y, Bit
<1>3. /\ y % 2 = a % 2 /\ Bit(y, 2) = Bit(a, 2) /\ Bit(y, 4) = Bit(a, 4)
      /\ Bit(y, 8) = Bit(a, 8) /\ Bit(y, 16) = Bit(a, 16) /\ Bit(y, 32) = Bit(a, 32)
      /\ Bit(y, 64) = Bit(a, 64) /\ Bit(y, 128) = Bit(a, 128)
  BY <1>2, <1>x, <1>y, OtherTwice
<1>4. y = a
  <2>1. y = (y % 2) + 2 * Bit(y, 2) + 4 * Bit(y, 4) + 8 * Bit(y, 8)
                          + 16 * Bit(y, 16) + 32 * Bit(y, 32) + 64 * Bit(y, 64)
                          + 128 * Bit(y, 128)
    BY <1>1, <1>n
  <2>2. a = (a % 2) + 2 * Bit(a, 2) + 4 * Bit(a, 4) + 8 * Bit(a, 8)
                          + 16 * Bit(a, 16) + 32 * Bit(a, 32) + 64 * Bit(a, 64)
                          + 128 * Bit(a, 128)
    BY <1>n
  <2> QED BY <1>3, <2>1, <2>2, Zenon
<1>5. x = 0 => a = b
  <2> SUFFICES ASSUME x = 0 PROVE a = b
    OBVIOUS
  <2>1. x % 2 = 0 /\ Bit(x, 2) = 0 /\ Bit(x, 4) = 0 /\ Bit(x, 8) = 0 /\ Bit(x, 16) = 0
        /\ Bit(x, 32) = 0 /\ Bit(x, 64) = 0 /\ Bit(x, 128) = 0
    BY DEF Bit
  <2>2. /\ a % 2 = b % 2 /\ Bit(a, 2) = Bit(b, 2) /\ Bit(a, 4) = Bit(b, 4)
        /\ Bit(a, 8) = Bit(b, 8) /\ Bit(a, 16) = Bit(b, 16) /\ Bit(a, 32) = Bit(b, 32)
        /\ Bit(a, 64) = Bit(b, 64) /\ Bit(a, 128) = Bit(b, 128)
    BY <2>1, <1>x DEF Other
  <2>3. b = (b % 2) + 2 * Bit(b, 2) + 4 * Bit(b, 4) + 8 * Bit(b, 8)
                          + 16 * Bit(b, 16) + 32 * Bit(b, 32) + 64 * Bit(b, 64)
                          + 128 * Bit(b, 128)
    BY <1>n
  <2>4. a = (a % 2) + 2 * Bit(a, 2) + 4 * Bit(a, 4) + 8 * Bit(a, 8)
                          + 16 * Bit(a, 16) + 32 * Bit(a, 32) + 64 * Bit(a, 64)
                          + 128 * Bit(a, 128)
    BY <1>n
  <2> QED BY <2>2, <2>3, <2>4, Zenon
<1> QED BY <1>1, <1>4, <1>5 DEF x, y

Reading == [result : [1..RomStart -> Byte], rp : Nat \ {0}, inRun : BOOLEAN, ok : BOOLEAN]

(* Reading the bytes c leads from s to t. *)
Reads(s, c, t) ==
    \E f : /\ f \in [0..Len(c) -> Reading]
           /\ f[0] = s
           /\ \A i \in 1..Len(c) : f[i] = Uncompressed(f[i - 1], c[i])
           /\ f[Len(c)] = t

LEMMA StoryBytes ==
    /\ Story \in Seq(Byte) /\ RomStart \in Nat /\ RomStart < 65536
    /\ Story \in [1..RomStart -> Byte]
<1>1. Story \in Seq(Byte) /\ RomStart \in Nat /\ RomStart < 65536
  BY StoryAssumption, Powers DEF RomStart, Byte
<1>2. Story \in [1..RomStart -> Byte]
  BY <1>1 DEF RomStart
<1> QED BY <1>1, <1>2

LEMMA ReadsByte ==
    ASSUME NEW s \in Reading, NEW b \in Byte
    PROVE  Uncompressed(s, b) \in Reading
<1>1. /\ s.rp \in Nat \ {0} /\ s.inRun \in BOOLEAN /\ s.ok \in BOOLEAN
      /\ s.result \in [1..RomStart -> Byte]
      /\ s = [result |-> s.result, rp |-> s.rp, inRun |-> s.inRun, ok |-> s.ok]
  BY DEF Reading
<1>2. s.rp + b + 1 \in Nat \ {0} /\ s.rp + 1 \in Nat \ {0}
  BY <1>1, ByteIs
<1>3. CASE s.inRun
  <2>1. Uncompressed(s, b) = [s EXCEPT !.rp = @ + b + 1, !.inRun = FALSE]
    BY <1>3 DEF Uncompressed
  <2> QED BY <1>1, <1>2, <2>1 DEF Reading
<1>4. CASE ~s.inRun /\ b = 0
  <2>1. Uncompressed(s, b) = [s EXCEPT !.inRun = TRUE]
    BY <1>4 DEF Uncompressed
  <2> QED BY <1>1, <2>1 DEF Reading
<1>5. CASE ~s.inRun /\ b # 0 /\ s.rp > RomStart
  <2>1. Uncompressed(s, b) = [s EXCEPT !.ok = FALSE]
    BY <1>5 DEF Uncompressed
  <2> QED BY <1>1, <2>1 DEF Reading
<1>6. CASE ~s.inRun /\ b # 0 /\ ~(s.rp > RomStart)
  <2>1. Uncompressed(s, b) = [s EXCEPT !.result[s.rp] = Xor(@, b), !.rp = @ + 1]
    BY <1>6 DEF Uncompressed
  <2>2. s.rp \in 1..RomStart
    BY <1>1, <1>6, StoryBytes
  <2>3. Xor(s.result[s.rp], b) \in Byte
    <3>1. s.result[s.rp] \in Byte
      BY <1>1, <2>2
    <3> QED BY <3>1, XorTwice
  <2>4. [s.result EXCEPT ![s.rp] = Xor(@, b)] \in [1..RomStart -> Byte]
    BY <1>1, <2>2, <2>3
  <2>5. Uncompressed(s, b) = [result |-> [s.result EXCEPT ![s.rp] = Xor(@, b)], rp |-> s.rp + 1,
                              inRun |-> s.inRun, ok |-> s.ok]
    BY <1>1, <2>1
  <2> QED BY <1>1, <1>2, <2>4, <2>5 DEF Reading
<1> QED BY <1>1, <1>3, <1>4, <1>5, <1>6

LEMMA ReadsNothing == \A s \in Reading : Reads(s, <<>>, s)
<1> SUFFICES ASSUME NEW s \in Reading PROVE Reads(s, <<>>, s)
  OBVIOUS
<1> DEFINE f == [i \in 0..0 |-> s]
<1>1. f \in [0..Len(<<>>) -> Reading] /\ f[0] = s /\ f[Len(<<>>)] = s
      /\ \A i \in 1..Len(<<>>) : f[i] = Uncompressed(f[i - 1], <<>>[i])
  OBVIOUS
<1> QED BY <1>1 DEF Reads

LEMMA ReadsOne == \A s \in Reading : \A b \in Byte : Reads(s, <<b>>, Uncompressed(s, b))
<1> SUFFICES ASSUME NEW s \in Reading, NEW b \in Byte PROVE Reads(s, <<b>>, Uncompressed(s, b))
  OBVIOUS
<1> DEFINE t == Uncompressed(s, b)
           f == [i \in 0..1 |-> IF i = 0 THEN s ELSE t]
           c == <<b>>
<1>1. t \in Reading
  BY ReadsByte
<1>2. f[0] = s /\ f[1] = t /\ Len(c) = 1 /\ c[1] = b
  OBVIOUS
<1>3. f \in [0..1 -> Reading]
  <2> HIDE DEF t
  <2> QED BY <1>1
<1> HIDE DEF f, c
<1>4. \A i \in 1..Len(c) : f[i] = Uncompressed(f[i - 1], c[i])
  BY <1>2
<1>5. Reads(s, c, t)
  BY <1>2, <1>3, <1>4 DEF Reads
<1> QED BY <1>5 DEF c

LEMMA ReadsOn ==
    ASSUME NEW s, NEW c \in Seq(Byte), NEW t, NEW d \in Seq(Byte), NEW u,
           Reads(s, c, t), Reads(t, d, u)
    PROVE  Reads(s, c \o d, u)
<1> DEFINE m == Len(c)
           n == Len(d)
           e == c \o d
<1>1. PICK f : /\ f \in [0..m -> Reading] /\ f[0] = s /\ f[m] = t
               /\ \A i \in 1..m : f[i] = Uncompressed(f[i - 1], c[i])
  BY DEF Reads
<1>2. PICK g : /\ g \in [0..n -> Reading] /\ g[0] = t /\ g[n] = u
               /\ \A i \in 1..n : g[i] = Uncompressed(g[i - 1], d[i])
  BY DEF Reads
<1>3. /\ m \in Nat /\ n \in Nat /\ Len(e) = m + n
      /\ \A i \in 1..m : e[i] = c[i]
      /\ \A i \in 1..n : e[m + i] = d[i]
  BY Concat
<1> HIDE DEF m, n, e
<1> DEFINE h == [i \in 0..(m + n) |-> IF i <= m THEN f[i] ELSE g[i - m]]
<1>4. \A i \in 0..(m + n) : /\ i <= m => i \in 0..m
                            /\ ~(i <= m) => i - m \in 1..n /\ i - m \in 0..n
  BY <1>3
<1>5. h \in [0..(m + n) -> Reading]
  BY <1>1, <1>2, <1>4
<1>6. \A i \in 0..(m + n) : h[i] = IF i <= m THEN f[i] ELSE g[i - m]
  OBVIOUS
<1> HIDE DEF h
<1>7. h[0] = s
  <2>1. 0 \in 0..(m + n) /\ 0 <= m
    BY <1>3
  <2>2. h[0] = f[0]
    BY <1>6, <2>1
  <2> QED BY <1>1, <2>2
<1>8. h[m + n] = u
  <2>1. CASE n = 0
    BY <1>1, <1>2, <1>3, <1>6, <2>1
  <2>2. CASE n # 0
    <3>1. ~(m + n <= m) /\ (m + n) - m = n /\ m + n \in 0..(m + n)
      BY <1>3, <2>2
    <3> QED BY <1>2, <1>6, <3>1
  <2> QED BY <2>1, <2>2
<1>9. ASSUME NEW i \in 1..(m + n) PROVE h[i] = Uncompressed(h[i - 1], e[i])
  <2>1. CASE i <= m
    <3>1. i \in 1..m /\ i - 1 <= m /\ i - 1 \in 0..(m + n) /\ i \in 0..(m + n)
      BY <1>3, <2>1
    <3>2. h[i] = f[i] /\ h[i - 1] = f[i - 1]
      BY <1>6, <2>1, <3>1
    <3> QED BY <1>1, <1>3, <3>1, <3>2
  <2>2. CASE ~(i <= m)
    <3>1. i - m \in 1..n /\ m + (i - m) = i /\ i - 1 \in 0..(m + n) /\ i \in 0..(m + n)
      BY <1>3, <2>2
    <3>2. h[i] = g[i - m] /\ e[i] = d[i - m]
      BY <1>3, <1>6, <2>2, <3>1
    <3>3. h[i - 1] = g[(i - m) - 1]
      <4>1. CASE i - 1 <= m
        <5>1. i - 1 = m /\ (i - m) - 1 = 0
          BY <1>3, <2>2, <4>1
        <5>2. h[i - 1] = f[m]
          BY <1>6, <3>1, <4>1, <5>1
        <5> QED BY <1>1, <1>2, <5>1, <5>2
      <4>2. CASE ~(i - 1 <= m)
        <5>1. (i - 1) - m = (i - m) - 1
          BY <1>3
        <5> QED BY <1>6, <3>1, <4>2, <5>1
      <4> QED BY <4>1, <4>2
    <3> QED BY <1>2, <3>1, <3>2, <3>3
  <2> QED BY <2>1, <2>2
<1>10. Reads(s, e, u)
  BY <1>3, <1>5, <1>7, <1>8, <1>9 DEF Reads
<1> QED BY <1>10 DEF e

At(result, rp) == [result |-> result, rp |-> rp, inRun |-> FALSE, ok |-> TRUE]

LEMMA UncompressedIs ==
    ASSUME NEW c \in Seq(Byte), NEW t, Reads(At(Story, 1), c, t)
    PROVE  UncompressRAM(c) = IF t.ok /\ ~t.inRun THEN t.result ELSE <<>>
<1> DEFINE n == Len(c)
           start == [result |-> Story, rp |-> 1, inRun |-> FALSE, ok |-> TRUE]
           read[i \in 0..Len(c)] ==
               IF i = 0 THEN start ELSE Uncompressed(read[i - 1], c[i])
<1>1. PICK f : /\ f \in [0..n -> Reading] /\ f[0] = start /\ f[n] = t
               /\ \A i \in 1..n : f[i] = Uncompressed(f[i - 1], c[i])
  BY DEF Reads, At
<1>2. n \in Nat
  OBVIOUS
<1> HIDE DEF start
<1>3. \A i \in 0..n : f[i] = IF i = 0 THEN start ELSE Uncompressed(f[i - 1], c[i])
  BY <1>1, <1>2
<1>4. f = [i \in 0..Len(c) |-> IF i = 0 THEN start ELSE Uncompressed(f[i - 1], c[i])]
  <2>1. f = [i \in 0..n |-> f[i]]
    BY <1>1
  <2> QED BY <1>3, <2>1
<1>5. read = [i \in 0..Len(c) |-> IF i = 0 THEN start ELSE Uncompressed(read[i - 1], c[i])]
  BY <1>4, Zenon
<1>6. UncompressRAM(c) = IF read[n].ok /\ ~read[n].inRun THEN read[n].result ELSE <<>>
  BY Zenon DEF UncompressRAM, read, start
<1> HIDE DEF read
<1>7. StepAlike(read, f, n)
  <2>1. read[0] = f[0]
    BY <1>1, <1>2, <1>5
  <2>2. \A i \in 1..n : read[i] = Uncompressed(read[i - 1], c[i])
    BY <1>2, <1>5
  <2> HIDE DEF n
  <2> QED BY <1>1, <1>2, <2>1, <2>2 DEF StepAlike
<1>8. read[n] = f[n]
  <2> HIDE DEF n
  <2>1. n \in 0..n
    BY <1>2
  <2> QED BY <1>7, <2>1, SameRecursion
<1> QED BY <1>1, <1>6, <1>8

LEMMA RunRead ==
    ASSUME NEW r \in [1..RomStart -> Byte], NEW p \in Nat \ {0}, NEW b \in Byte
    PROVE  /\ At(r, p) \in Reading
           /\ Reads(At(r, p), <<0, b>>, At(r, p + b + 1))
<1> DEFINE s == At(r, p)
           t == Uncompressed(s, 0)
           u == Uncompressed(t, b)
<1>0. 0 \in Byte /\ b \in Int /\ 0 <= b
  BY ByteIs
<1>1. s \in Reading
  BY DEF At, Reading
<1>2. t = [result |-> r, rp |-> p, inRun |-> TRUE, ok |-> TRUE]
  BY DEF At, Uncompressed
<1>3. t \in Reading
  BY <1>0, <1>1, ReadsByte
<1>4. u = At(r, p + b + 1)
  <2> HIDE DEF t
  <2> QED BY <1>2 DEF At, Uncompressed
<1>5. Reads(s, <<0>>, t)
  <2> HIDE DEF s
  <2> QED BY <1>0, <1>1, ReadsOne
<1>6. Reads(t, <<b>>, u)
  <2> HIDE DEF t
  <2> QED BY <1>3, ReadsOne
<1>7. <<0>> \in Seq(Byte) /\ <<b>> \in Seq(Byte) /\ <<0>> \o <<b>> = <<0, b>>
  <2>1. <<0>> \in Seq(Byte)
    BY <1>0
  <2>2. <<b>> \in Seq(Byte)
    OBVIOUS
  <2>3. <<0>> \o <<b>> = <<0, b>>
    BY <1>0, TwoElements
  <2> QED BY <2>1, <2>2, <2>3
<1>8. Reads(s, <<0>> \o <<b>>, u)
  <2> HIDE DEF s, t, u
  <2> QED BY <1>5, <1>6, <1>7, ReadsOn
<1>9. Reads(s, <<0, b>>, At(r, p + b + 1))
  BY <1>4, <1>7, <1>8
<1> QED BY <1>1, <1>9

LEMMA ChangeRead ==
    ASSUME NEW r \in [1..RomStart -> Byte], NEW p \in 1..RomStart, NEW b \in Byte, b # 0
    PROVE  Reads(At(r, p), <<b>>, At([r EXCEPT ![p] = Xor(r[p], b)], p + 1))
<1>1. p \in Nat \ {0} /\ ~(p > RomStart)
  BY StoryBytes
<1>2. At(r, p) \in Reading
  BY <1>1 DEF At, Reading
<1>3. Uncompressed(At(r, p), b) = At([r EXCEPT ![p] = Xor(r[p], b)], p + 1)
  BY <1>1 DEF At, Uncompressed
<1>4. Reads(At(r, p), <<b>>, Uncompressed(At(r, p), b))
  BY <1>2, ReadsOne
<1> QED BY <1>3, <1>4

(* The codes of k runs of the greatest length. *)
Full(k) == [i \in 1..2 * k |-> IF i % 2 = 1 THEN 0 ELSE 255]

LEMMA FullRuns ==
    /\ Full(0) = <<>>
    /\ \A k \in Nat : /\ Full(k) \in Seq(Byte) /\ Len(Full(k)) = 2 * k
                      /\ Full(k + 1) = Full(k) \o <<0, 255>>
<1>1. Full(0) = <<>>
  BY DEF Full
<1>2. ASSUME NEW k \in Nat PROVE Full(k) \in Seq(Byte) /\ Len(Full(k)) = 2 * k
  <2>1. 0 \in Byte /\ 255 \in Byte /\ 2 * k \in Nat
    BY ByteIs
  <2> QED BY <2>1 DEF Full
<1>3. ASSUME NEW k \in Nat PROVE Full(k + 1) = Full(k) \o <<0, 255>>
  <2> DEFINE s == Full(k + 1)
             a == Full(k)
             b == <<0, 255>>
             t == a \o b
  <2>1. /\ s \in Seq(Byte) /\ Len(s) = 2 * k + 2
        /\ a \in Seq(Byte) /\ Len(a) = 2 * k
    BY <1>2
  <2>2. b \in Seq(Byte) /\ Len(b) = 2 /\ b[1] = 0 /\ b[2] = 255
    BY ByteIs
  <2>3. \A i \in 1..2 * k : a[i] = IF i % 2 = 1 THEN 0 ELSE 255
    BY DEF Full
  <2>4. \A i \in 1..2 * k + 2 : s[i] = IF i % 2 = 1 THEN 0 ELSE 255
    BY DEF Full
  <2> HIDE DEF s, a, b
  <2>5. /\ t \in Seq(Byte) /\ Len(t) = 2 * k + 2
        /\ \A i \in 1..2 * k : t[i] = a[i]
        /\ t[2 * k + 1] = b[1] /\ t[2 * k + 2] = b[2]
    <3>1. /\ t \in Seq(Byte) /\ Len(t) = Len(a) + Len(b)
          /\ \A i \in 1..Len(a) : t[i] = a[i]
          /\ \A i \in 1..Len(b) : t[Len(a) + i] = b[i]
      <4>1. a \in Seq(Byte) /\ b \in Seq(Byte)
        BY <2>1, <2>2
      <4> QED BY <4>1, Concat
    <3> HIDE DEF t
    <3> QED BY <2>1, <2>2, <3>1
  <2> HIDE DEF t
  <2>6. (2 * k + 1) % 2 = 1 /\ (2 * k + 2) % 2 = 0
    OBVIOUS
  <2>7. \A i \in 1..2 * k + 2 : i \in 1..2 * k \/ i = 2 * k + 1 \/ i = 2 * k + 2
    OBVIOUS
  <2>8. ASSUME NEW i \in 1..Len(s) PROVE s[i] = t[i]
    <3>1. i \in 1..2 * k + 2
      BY <2>1
    <3>2. CASE i \in 1..2 * k
      BY <2>3, <2>4, <2>5, <3>1, <3>2
    <3>3. CASE i = 2 * k + 1
      BY <2>2, <2>4, <2>5, <2>6, <3>1, <3>3
    <3>4. CASE i = 2 * k + 2
      BY <2>2, <2>4, <2>5, <2>6, <3>1, <3>4
    <3> QED BY <2>7, <3>1, <3>2, <3>3, <3>4
  <2>9. s = t
    BY <2>1, <2>5, <2>8, SameSeq
  <2> QED BY <2>9 DEF s, t, a, b
<1> QED BY <1>1, <1>2, <1>3

LEMMA FullRead ==
    ASSUME NEW r \in [1..RomStart -> Byte], NEW p \in Nat \ {0}
    PROVE  \A k \in Nat : Reads(At(r, p), Full(k), At(r, p + 256 * k))
<1> DEFINE T == {k \in Nat : Reads(At(r, p), Full(k), At(r, p + 256 * k))}
<1>1. 0 \in T
  <2>1. At(r, p) \in Reading
    BY DEF At, Reading
  <2>2. Reads(At(r, p), <<>>, At(r, p))
    BY <2>1, ReadsNothing
  <2>3. p + 256 * 0 = p
    OBVIOUS
  <2> QED BY <2>2, <2>3, FullRuns
<1>2. ASSUME NEW k \in Nat, k \in T PROVE k + 1 \in T
  <2> DEFINE q == p + 256 * k
             s == At(r, p)
             t == At(r, q)
             u == At(r, q + 255 + 1)
             c == Full(k)
             d == <<0, 255>>
  <2>1. Reads(s, c, t)
    BY <1>2
  <2>2. q \in Nat \ {0} /\ 255 \in Byte /\ 0 \in Byte
    BY ByteIs
  <2>3. Reads(t, d, u)
    <3> HIDE DEF q
    <3> QED BY <2>2, RunRead
  <2>4. c \in Seq(Byte)
    BY FullRuns
  <2>5. d \in Seq(Byte)
    BY <2>2
  <2>6. Reads(s, c \o d, u)
    <3> HIDE DEF s, t, u, c, d
    <3> QED BY <2>1, <2>3, <2>4, <2>5, ReadsOn
  <2>7. Full(k + 1) = c \o d
    BY FullRuns
  <2>8. q + 255 + 1 = p + 256 * (k + 1)
    OBVIOUS
  <2>9. Reads(At(r, p), Full(k + 1), At(r, p + 256 * (k + 1)))
    BY <2>6, <2>7, <2>8, Zenon
  <2> QED BY <2>9
<1> HIDE DEF T
<1>3. Nat \subseteq T
  BY <1>1, <1>2, InductionOnNat
<1> QED BY <1>3 DEF T

LEMMA RunsRead ==
    ASSUME NEW r \in [1..RomStart -> Byte], NEW p \in Nat \ {0}, NEW n \in Nat
    PROVE  /\ Runs(n) \in Seq(Byte) /\ Len(Runs(n)) <= 2 * n
           /\ Reads(At(r, p), Runs(n), At(r, p + n))
<1> DEFINE k == n \div 256
           m == n % 256
           last == IF m = 0 THEN <<>> ELSE <<0, m - 1>>
           c == Full(k)
<1>1. n = 256 * k + m /\ k \in Nat /\ m \in 0..255
  BY LastByte
<1>2. Runs(n) = c \o last
  BY DEF Runs, LongestRun, Full
<1>3. c \in Seq(Byte) /\ Len(c) = 2 * k
  <2>1. k \in Nat
    BY <1>1
  <2> HIDE DEF k
  <2> QED BY <2>1, FullRuns
<1>4. Reads(At(r, p), c, At(r, p + 256 * k))
  <2>1. k \in Nat
    BY <1>1
  <2> HIDE DEF k
  <2> QED BY <2>1, FullRead
<1> HIDE DEF k, m, c
<1>5. CASE m = 0
  <2>1. last = <<>>
    BY <1>5
  <2>2. c \o <<>> = c
    BY <1>3
  <2>3. Runs(n) = c
    BY <1>2, <2>1, <2>2
  <2>4. p + 256 * k = p + n /\ 2 * k <= 2 * n
    BY <1>1, <1>5
  <2> QED BY <1>3, <1>4, <2>3, <2>4
<1>6. CASE m # 0
  <2>0. m - 1 \in Byte /\ 0 \in Byte
    BY <1>1, <1>6, ByteIs
  <2>1. last = <<0, m - 1>> /\ last \in Seq(Byte) /\ Len(last) = 2
    BY <1>6, <2>0
  <2> DEFINE q == p + 256 * k
             t == At(r, q)
             u == At(r, q + (m - 1) + 1)
             s == At(r, p)
  <2>2. q \in Nat \ {0}
    BY <1>1
  <2>3. Reads(t, last, u)
    <3> HIDE DEF q
    <3> QED BY <2>0, <2>1, <2>2, RunRead
  <2>4. Reads(s, c, t)
    BY <1>4
  <2> HIDE DEF last
  <2>5. Reads(s, c \o last, u)
    <3> HIDE DEF s, t, u
    <3> QED BY <1>3, <2>1, <2>3, <2>4, ReadsOn
  <2>6. q + (m - 1) + 1 = p + n
    BY <1>1
  <2>7. c \o last \in Seq(Byte) /\ Len(c \o last) = 2 * k + 2
    BY <1>3, <2>1, Concat
  <2>8. 2 * k + 2 <= 2 * n
    BY <1>1, <1>6
  <2> QED BY <1>2, <2>5, <2>6, <2>7, <2>8
<1> QED BY <1>5, <1>6

(* The memory that is read so far: up to the address a it is ram's. *)
Mixed(ram, a) == [i \in 1..RomStart |-> IF i < a THEN ram[i] ELSE Story[i]]

Changed(ram, a) == {c \in a..RomStart : ram[c] # Story[c]}
NextChange(ram, a) == Min(Changed(ram, a))

LEMMA NextChangeIs ==
    ASSUME NEW ram, NEW a \in 1..RomStart, Changed(ram, a) # {}
    PROVE  /\ NextChange(ram, a) \in a..RomStart
           /\ ram[NextChange(ram, a)] # Story[NextChange(ram, a)]
           /\ \A i \in a..(NextChange(ram, a) - 1) : ram[i] = Story[i]
<1> DEFINE T == Changed(ram, a)
           c == NextChange(ram, a)
<1>1. T \subseteq Nat /\ T # {}
  BY StoryBytes DEF Changed
<1>2. c \in T /\ \A m \in T : c <= m
  <2> HIDE DEF T
  <2>1. c = Min(T)
    BY DEF NextChange, T
  <2> QED BY <1>1, <2>1, MinIsLeast
<1>3. c \in a..RomStart /\ ram[c] # Story[c]
  BY <1>2 DEF Changed
<1> HIDE DEF c
<1>4. ASSUME NEW i \in a..(c - 1) PROVE ram[i] = Story[i]
  <2>1. i \in a..RomStart /\ ~(c <= i)
    BY <1>3, StoryBytes
  <2>2. i \notin T
    BY <1>2, <2>1
  <2> QED BY <2>1, <2>2 DEF Changed
<1> QED BY <1>3, <1>4 DEF c

(* The code of what follows the address a. *)
CodeOf(from, ram) ==
    /\ from[RomStart + 1] = <<>>
    /\ \A a \in 1..RomStart :
           from[a] = IF Changed(ram, a) = {} THEN <<>>
                     ELSE Runs(NextChange(ram, a) - a)
                          \o <<Xor(ram[NextChange(ram, a)], Story[NextChange(ram, a)])>>
                          \o from[NextChange(ram, a) + 1]

LEMMA CompressedIs ==
    ASSUME NEW ram \in [1..RomStart -> Byte]
    PROVE  \E from : CodeOf(from, ram) /\ CompressRAM(ram) = from[1]
<1> DEFINE n == RomStart
           V == Seq(Byte)
           fixed(a) == Runs(NextChange(ram, a) - a)
                          \o <<Xor(ram[NextChange(ram, a)], Story[NextChange(ram, a)])>>
           next == [a \in 1..n |-> IF Changed(ram, a) = {} THEN n + 1 ELSE NextChange(ram, a) + 1]
           G == [a \in 1..n |-> [v \in V |-> IF Changed(ram, a) = {} THEN <<>> ELSE fixed(a) \o v]]
           from[a \in 1..(RomStart + 1)] ==
               LET changed == {c \in a..RomStart : ram[c] # Story[c]}
                   next_ == Min(changed)
               IN  IF changed = {} THEN <<>>
                   ELSE Runs(next_ - a) \o <<Xor(ram[next_], Story[next_])>> \o from[next_ + 1]
<1>0. n \in Nat
  BY StoryBytes
<1>1. ASSUME NEW a \in 1..n, Changed(ram, a) # {}
      PROVE  NextChange(ram, a) \in a..n /\ fixed(a) \in V
  <2> DEFINE c == NextChange(ram, a)
  <2>1. c \in a..n
    BY <1>1, NextChangeIs
  <2> HIDE DEF c
  <2>2. c \in 1..n /\ c - a \in Nat
    BY <1>0, <2>1
  <2>3. Xor(ram[c], Story[c]) \in Byte
    BY <2>2, StoryBytes, XorTwice
  <2>4. Runs(c - a) \in Seq(Byte)
    <3> DEFINE m == c - a
    <3>1. m \in Nat
      BY <2>2
    <3> HIDE DEF m
    <3>2. Runs(m) \in Seq(Byte)
      <4>1. Story \in [1..RomStart -> Byte] /\ 1 \in Nat \ {0}
        BY StoryBytes
      <4> QED BY <3>1, <4>1, RunsRead
    <3> QED BY <3>2 DEF m
  <2>5. Runs(c - a) \o <<Xor(ram[c], Story[c])>> \in Seq(Byte)
    <3> DEFINE s == Runs(c - a)
               t == <<Xor(ram[c], Story[c])>>
    <3>1. s \in Seq(Byte)
      BY <2>4
    <3>2. t \in Seq(Byte)
      BY <2>3
    <3> HIDE DEF s, t
    <3>3. s \o t \in Seq(Byte)
      BY <3>1, <3>2, Concat
    <3> QED BY <3>3 DEF s, t
  <2> QED BY <2>1, <2>5 DEF c
<1>2. \A a \in 1..n : next[a] \in (a + 1)..(n + 1)
  BY <1>0, <1>1
<1>3. \A a \in 1..n : \A v \in V : Changed(ram, a) # {} => fixed(a) \o v \in V
  <2> SUFFICES ASSUME NEW a \in 1..n, NEW v \in V, Changed(ram, a) # {} PROVE fixed(a) \o v \in V
    OBVIOUS
  <2> DEFINE s == fixed(a)
  <2>1. s \in Seq(Byte) /\ v \in Seq(Byte)
    BY <1>1
  <2> HIDE DEF s
  <2>2. s \o v \in Seq(Byte)
    BY <2>1, Concat
  <2> QED BY <2>2 DEF s
<1>4. <<>> \in V
  OBVIOUS
<1>e. \A a \in 1..n : \A v \in V :
          G[a][v] = IF Changed(ram, a) = {} THEN <<>> ELSE fixed(a) \o v
  <2> HIDE DEF fixed, V
  <2> QED OBVIOUS
<1> HIDE DEF fixed, V, n
<1>5. G \in [1..n -> [V -> V]]
  BY <1>3, <1>4
<1> HIDE DEF G
<1>6. PICK f : Jumps(f, n, V, <<>>, next, G)
  <2> HIDE DEF next
  <2> QED BY <1>0, <1>2, <1>4, <1>5, JumpsExist
<1>7. f \in [1..n + 1 -> V] /\ f[n + 1] = <<>> /\ \A a \in 1..n : f[a] = G[a][f[next[a]]]
  BY <1>6 DEF Jumps
<1>8. ASSUME NEW a \in 1..n
      PROVE  f[a] = IF Changed(ram, a) = {} THEN <<>>
                    ELSE fixed(a) \o f[NextChange(ram, a) + 1]
  <2>1. next[a] \in 1..n + 1
    BY <1>0, <1>2
  <2>2. f[next[a]] \in V
    BY <1>7, <2>1
  <2>3. f[a] = IF Changed(ram, a) = {} THEN <<>> ELSE fixed(a) \o f[next[a]]
    BY <1>7, <1>e, <2>2
  <2>4. Changed(ram, a) # {} => next[a] = NextChange(ram, a) + 1
    OBVIOUS
  <2> QED BY <2>3, <2>4
<1>9. Changed(ram, n + 1) = {}
  BY <1>0 DEF Changed, n
<1>10. \A a \in 1..n + 1 : f[a] = IF Changed(ram, a) = {} THEN <<>>
                                  ELSE fixed(a) \o f[NextChange(ram, a) + 1]
  <2>1. \A a \in 1..n + 1 : a = n + 1 \/ a \in 1..n
    BY <1>0
  <2> QED BY <1>7, <1>8, <1>9, <2>1
<1>11. f = [a \in 1..(RomStart + 1) |->
               LET changed == {c \in a..RomStart : ram[c] # Story[c]}
                   next_ == Min(changed)
               IN  IF changed = {} THEN <<>>
                   ELSE Runs(next_ - a) \o <<Xor(ram[next_], Story[next_])>> \o f[next_ + 1]]
  <2>1. f = [a \in 1..(RomStart + 1) |-> f[a]]
    BY <1>7 DEF n
  <2>2. f = [a \in 1..(RomStart + 1) |->
               IF Changed(ram, a) = {} THEN <<>>
               ELSE fixed(a) \o f[NextChange(ram, a) + 1]]
    BY <1>10, <2>1 DEF n
  <2> QED BY <2>2, Zenon DEF fixed, NextChange, Changed
<1>12. from = [a \in 1..(RomStart + 1) |->
               LET changed == {c \in a..RomStart : ram[c] # Story[c]}
                   next_ == Min(changed)
               IN  IF changed = {} THEN <<>>
                   ELSE Runs(next_ - a) \o <<Xor(ram[next_], Story[next_])>> \o from[next_ + 1]]
  BY <1>11, Zenon
<1>13. CompressRAM(ram) = from[1]
  BY Zenon DEF CompressRAM, from
<1> HIDE DEF from
<1>14. from = [a \in 1..(n + 1) |->
               IF Changed(ram, a) = {} THEN <<>>
               ELSE fixed(a) \o from[NextChange(ram, a) + 1]]
  BY <1>12, Zenon DEF fixed, NextChange, Changed, n
<1>15. from[n + 1] = <<>>
  BY <1>0, <1>9, <1>14
<1>16. \A a \in 1..n : from[a] = IF Changed(ram, a) = {} THEN <<>>
                                 ELSE fixed(a) \o from[NextChange(ram, a) + 1]
  <2>1. \A a \in 1..n : a \in 1..(n + 1)
    BY <1>0
  <2> QED BY <1>14, <2>1, Zenon
<1>17. CodeOf(from, ram)
  BY <1>15, <1>16, Zenon DEF CodeOf, fixed, n
<1> QED BY <1>13, <1>17, Zenon

LEMMA MixedIs ==
    ASSUME NEW ram \in [1..RomStart -> Byte]
    PROVE  /\ Mixed(ram, 1) = Story
           /\ Mixed(ram, RomStart + 1) = ram
           /\ \A a \in 1..RomStart + 1 : Mixed(ram, a) \in [1..RomStart -> Byte]
<1>1. Story \in [1..RomStart -> Byte] /\ RomStart \in Nat
  BY StoryBytes
<1>2. Mixed(ram, 1) = Story
  BY <1>1 DEF Mixed
<1>3. Mixed(ram, RomStart + 1) = ram
  BY <1>1 DEF Mixed
<1>4. \A a \in 1..RomStart + 1 : Mixed(ram, a) \in [1..RomStart -> Byte]
  BY <1>1 DEF Mixed
<1> QED BY <1>2, <1>3, <1>4

(* The code of what follows a, read after what is before it, makes ram. *)
RestRead(from, ram, a) ==
    /\ from[a] \in Seq(Byte)
    /\ Len(from[a]) <= 3 * (RomStart + 1 - a)
    /\ \E t : Reads(At(Mixed(ram, a), a), from[a], t) /\ t.result = ram /\ t.ok /\ ~t.inRun

LEMMA RestReadAt ==
    ASSUME NEW ram \in [1..RomStart -> Byte], NEW from, CodeOf(from, ram),
           NEW a \in 1..RomStart, \A c \in a + 1..RomStart + 1 : RestRead(from, ram, c)
    PROVE  RestRead(from, ram, a)
<1>0. RomStart \in Nat /\ Story \in [1..RomStart -> Byte] /\ a \in Nat \ {0}
  BY StoryBytes
<1>m. Mixed(ram, a) \in [1..RomStart -> Byte]
  BY <1>0, MixedIs
<1>1. CASE Changed(ram, a) = {}
  <2>1. from[a] = <<>>
    BY <1>1 DEF CodeOf
  <2> DEFINE s == At(Mixed(ram, a), a)
  <2>2. s \in Reading
    BY <1>0, <1>m DEF At, Reading
  <2>3. Reads(s, <<>>, s)
    BY <2>2, ReadsNothing
  <2>4. \A i \in a..RomStart : ram[i] = Story[i]
    BY <1>1 DEF Changed
  <2>5. Mixed(ram, a) = ram
    <3>1. \A i \in 1..RomStart : i < a \/ i \in a..RomStart
      BY <1>0
    <3> QED BY <2>4, <3>1 DEF Mixed
  <2>6. s.result = ram /\ s.ok /\ ~s.inRun
    BY <2>5 DEF At
  <2>7. Len(from[a]) <= 3 * (RomStart + 1 - a) /\ from[a] \in Seq(Byte)
    BY <1>0, <2>1
  <2> HIDE DEF s
  <2>8. \E t : Reads(s, from[a], t) /\ t.result = ram /\ t.ok /\ ~t.inRun
    BY <2>1, <2>3, <2>6
  <2> QED BY <2>7, <2>8 DEF RestRead, s
<1>2. CASE Changed(ram, a) # {}
  <2> DEFINE c == NextChange(ram, a)
             x == Xor(ram[c], Story[c])
             runs == Runs(c - a)
             one == <<x>>
             rest == from[c + 1]
             r == Mixed(ram, a)
             s == At(r, a)
             u == At(r, c)
             v == At(Mixed(ram, c + 1), c + 1)
  <2>1. c \in a..RomStart /\ ram[c] # Story[c] /\ \A i \in a..(c - 1) : ram[i] = Story[i]
    BY <1>2, NextChangeIs
  <2>2. from[a] = runs \o one \o rest
    BY <1>2 DEF CodeOf
  <2> HIDE DEF c, rest
  <2>3. /\ c \in 1..RomStart /\ c - a \in Nat /\ c + 1 \in a + 1..RomStart + 1
        /\ a + (c - a) = c /\ c \in Nat \ {0}
    BY <1>0, <2>1
  <2>4. ram[c] \in Byte /\ Story[c] \in Byte
    BY <1>0, <2>3
  <2>5. x \in Byte /\ x # 0 /\ Xor(Story[c], x) = ram[c]
    BY <2>1, <2>4, XorTwice
  <2>6. runs \in Seq(Byte) /\ Len(runs) <= 2 * (c - a) /\ Reads(s, runs, u)
    <3> DEFINE m == c - a
    <3>1. m \in Nat /\ a + m = c
      BY <2>3
    <3> HIDE DEF m
    <3>2. Runs(m) \in Seq(Byte) /\ Len(Runs(m)) <= 2 * m /\ Reads(At(r, a), Runs(m), At(r, a + m))
      <4> HIDE DEF r
      <4>1. r \in [1..RomStart -> Byte]
        BY <1>m DEF r
      <4> QED BY <1>0, <3>1, <4>1, RunsRead
    <3> QED BY <3>1, <3>2 DEF m
  <2>7. one \in Seq(Byte) /\ Len(one) = 1
    <3> HIDE DEF x
    <3> QED BY <2>5
  <2>8. r[c] = Story[c]
    BY <1>0, <2>1, <2>3 DEF Mixed
  <2>9. [r EXCEPT ![c] = Xor(r[c], x)] = Mixed(ram, c + 1)
    <3>1. [r EXCEPT ![c] = Xor(r[c], x)] = [r EXCEPT ![c] = ram[c]]
      BY <2>5, <2>8
    <3>2. ASSUME NEW i \in 1..RomStart
          PROVE  [r EXCEPT ![c] = ram[c]][i] = Mixed(ram, c + 1)[i]
      <4>1. CASE i = c
        BY <1>0, <2>3, <4>1 DEF Mixed
      <4>2. CASE i < c
        <5>1. i < a \/ i \in a..(c - 1)
          BY <1>0, <2>3, <4>2
        <5>2. i < c + 1 /\ i # c
          BY <2>3, <4>2
        <5> QED BY <1>0, <2>1, <2>3, <5>1, <5>2 DEF Mixed
      <4>3. CASE i > c
        <5>1. ~(i < a) /\ ~(i < c + 1) /\ i # c
          BY <1>0, <2>1, <2>3, <4>3
        <5> QED BY <1>0, <2>1, <5>1 DEF Mixed
      <4> QED BY <2>3, <4>1, <4>2, <4>3
    <3>3. [r EXCEPT ![c] = ram[c]] = Mixed(ram, c + 1)
      <4>1. DOMAIN r = 1..RomStart /\ DOMAIN Mixed(ram, c + 1) = 1..RomStart
        BY DEF Mixed
      <4> DEFINE f == [r EXCEPT ![c] = ram[c]]
                 g == Mixed(ram, c + 1)
      <4>2. f = [i \in 1..RomStart |-> f[i]] /\ g = [i \in 1..RomStart |-> g[i]]
        BY DEF Mixed
      <4>3. \A i \in 1..RomStart : f[i] = g[i]
        BY <3>2
      <4> HIDE DEF f, g
      <4> QED BY <4>2, <4>3 DEF f, g
    <3> QED BY <3>1, <3>3
  <2>10. Reads(u, one, v)
    <3>1. Reads(At(r, c), <<x>>, At([r EXCEPT ![c] = Xor(r[c], x)], c + 1))
      <4> HIDE DEF r, x
      <4>1. r \in [1..RomStart -> Byte]
        BY <1>m DEF r
      <4> QED BY <2>3, <2>5, <4>1, ChangeRead
    <3> QED BY <2>9, <3>1
  <2>11. /\ rest \in Seq(Byte) /\ Len(rest) <= 3 * (RomStart - c)
         /\ \E t : Reads(v, rest, t) /\ t.result = ram /\ t.ok /\ ~t.inRun
    <3>1. RestRead(from, ram, c + 1)
      BY <2>3
    <3>2. RomStart + 1 - (c + 1) = RomStart - c
      BY <1>0, <2>3
    <3> QED BY <3>1, <3>2 DEF RestRead, rest
  <2> HIDE DEF runs, one, s, u, v, x, r
  <2>12. PICK t : Reads(v, rest, t) /\ t.result = ram /\ t.ok /\ ~t.inRun
    BY <2>11
  <2> DEFINE both == runs \o one
             all == both \o rest
  <2>13. both \in Seq(Byte) /\ Len(both) = Len(runs) + 1 /\ Reads(s, both, v)
    <3>1. runs \in Seq(Byte) /\ one \in Seq(Byte)
      BY <2>6, <2>7
    <3>2. both \in Seq(Byte) /\ Len(both) = Len(runs) + Len(one)
      BY <3>1, Concat
    <3>3. Reads(s, both, v)
      BY <2>6, <2>10, <3>1, ReadsOn
    <3> HIDE DEF both
    <3> QED BY <2>7, <3>2, <3>3
  <2> HIDE DEF both
  <2>14. all \in Seq(Byte) /\ Len(all) = Len(both) + Len(rest) /\ Reads(s, all, t)
    <3>1. both \in Seq(Byte) /\ rest \in Seq(Byte)
      BY <2>11, <2>13
    <3>2. all \in Seq(Byte) /\ Len(all) = Len(both) + Len(rest)
      BY <3>1, Concat
    <3>3. Reads(s, all, t)
      BY <2>12, <2>13, <3>1, ReadsOn
    <3> QED BY <3>2, <3>3
  <2>15. Len(all) <= 3 * (RomStart + 1 - a)
    <3>1. Len(runs) \in Nat /\ Len(rest) \in Nat
      BY <2>6, <2>11
    <3> QED BY <1>0, <2>3, <2>6, <2>11, <2>13, <2>14, <3>1
  <2>16. from[a] = all
    BY <2>2 DEF both
  <2> HIDE DEF all
  <2> QED BY <2>12, <2>14, <2>15, <2>16 DEF RestRead, s, r
<1> QED BY <1>1, <1>2

LEMMA RestReadAnywhere ==
    ASSUME NEW ram \in [1..RomStart -> Byte], NEW from, CodeOf(from, ram)
    PROVE  RestRead(from, ram, 1)
<1> DEFINE n == RomStart
           T == {a \in 1..n + 1 : RestRead(from, ram, a)}
<1>0. n \in Nat
  BY StoryBytes
<1>1. n + 1 \in T
  <2>1. from[n + 1] = <<>>
    BY DEF CodeOf
  <2> DEFINE s == At(Mixed(ram, n + 1), n + 1)
  <2>2. Mixed(ram, n + 1) = ram
    BY MixedIs
  <2>3. s \in Reading
    BY <1>0, <2>2 DEF At, Reading
  <2>4. Reads(s, <<>>, s)
    BY <2>3, ReadsNothing
  <2>5. s.result = ram /\ s.ok /\ ~s.inRun
    BY <2>2 DEF At
  <2>6. Len(from[n + 1]) <= 3 * (n + 1 - (n + 1)) /\ from[n + 1] \in Seq(Byte)
    BY <1>0, <2>1
  <2> HIDE DEF s
  <2>7. \E t : Reads(s, from[n + 1], t) /\ t.result = ram /\ t.ok /\ ~t.inRun
    BY <2>1, <2>4, <2>5
  <2>8. n + 1 \in 1..n + 1
    BY <1>0
  <2> QED BY <2>6, <2>7, <2>8 DEF RestRead, s
<1>2. ASSUME NEW a \in 1..n, \A c \in a + 1..n + 1 : c \in T PROVE a \in T
  <2>1. \A c \in a + 1..n + 1 : RestRead(from, ram, c)
    BY <1>2
  <2>2. RestRead(from, ram, a)
    BY <2>1, RestReadAt
  <2>3. a \in 1..n + 1
    BY <1>0
  <2> QED BY <2>2, <2>3
<1> HIDE DEF T, n
<1>3. \A a \in 1..n + 1 : a \in T
  BY <1>0, <1>1, <1>2, InductionDown
<1>4. 1 \in T
  BY <1>0, <1>3
<1> QED BY <1>4 DEF T

(* UncompressRAM undoes CompressRAM. *)
LEMMA MemoryAgain ==
    ASSUME NEW ram \in [1..RomStart -> Byte]
    PROVE  /\ CompressRAM(ram) \in Seq(Byte)
           /\ Len(CompressRAM(ram)) <= 3 * RomStart
           /\ UncompressRAM(CompressRAM(ram)) = ram
<1>1. PICK from : CodeOf(from, ram) /\ CompressRAM(ram) = from[1]
  BY CompressedIs
<1> DEFINE c == CompressRAM(ram)
<1>2. RestRead(from, ram, 1)
  BY <1>1, RestReadAnywhere
<1>3. /\ c \in Seq(Byte) /\ Len(c) <= 3 * (RomStart + 1 - 1)
      /\ \E t : Reads(At(Mixed(ram, 1), 1), c, t) /\ t.result = ram /\ t.ok /\ ~t.inRun
  BY <1>1, <1>2 DEF RestRead
<1>4. Mixed(ram, 1) = Story /\ RomStart + 1 - 1 = RomStart
  BY StoryBytes, MixedIs
<1> HIDE DEF c
<1>5. PICK t : Reads(At(Story, 1), c, t) /\ t.result = ram /\ t.ok /\ ~t.inRun
  BY <1>3, <1>4
<1>6. UncompressRAM(c) = ram
  BY <1>3, <1>5, UncompressedIs
<1> QED BY <1>3, <1>4, <1>6 DEF c

-----------------------------------------------------------------------------
(* Stks: the frames that are read are those that were written *)

LEMMA FrameWritten ==
    ASSUME NEW f \in CallFrame, Len(f.locals) <= 15,
           NEW w \in Seq(Word), Len(w) < 2^16
    PROVE  LET b == FrameBytes(f, w)
               n == Len(f.locals)
           IN  /\ b \in Seq(Byte) /\ Len(b) = 8 + 2 * n + 2 * Len(w)
               /\ b[1] = Bytes3(f.returnPC)[1] /\ b[2] = Bytes3(f.returnPC)[2]
               /\ b[3] = Bytes3(f.returnPC)[3]
               /\ b[4] = n + (IF f.resultStorage = -1 THEN 16 ELSE 0)
               /\ b[5] = IF f.resultStorage = -1 THEN 0 ELSE f.resultStorage
               /\ b[6] = ArgBits(f.argCount)
               /\ b[7] = Bytes2(Len(w))[1] /\ b[8] = Bytes2(Len(w))[2]
               /\ \A i \in 1..2 * n : b[8 + i] = WordBytes(f.locals)[i]
               /\ \A i \in 1..2 * Len(w) : b[(8 + 2 * n) + i] = WordBytes(w)[i]
<1> DEFINE n == Len(f.locals)
           m == Len(w)
           s3 == n + (IF f.resultStorage = -1 THEN 16 ELSE 0)
           s4 == IF f.resultStorage = -1 THEN 0 ELSE f.resultStorage
           s5 == ArgBits(f.argCount)
           c1 == Bytes3(f.returnPC)
           c2 == <<s3, s4, s5>>
           c3 == Bytes2(m)
           c4 == WordBytes(f.locals)
           c5 == WordBytes(w)
           d2 == c1 \o c2
           d3 == d2 \o c3
           d4 == d3 \o c4
           d5 == d4 \o c5
<1>1. /\ f.returnPC \in 0..(2^24 - 1) /\ f.locals \in Seq(Word) /\ f.argCount \in 0..7
      /\ f.resultStorage \in Byte \cup {-1}
  BY DEF CallFrame
<1>2. n \in 0..15 /\ m \in 0..(2^16 - 1)
  <2>1. n \in Nat /\ m \in Nat
    BY <1>1, ElementOf
  <2>2. n <= 15 /\ m < 65536
    BY Powers
  <2> HIDE DEF n, m
  <2> QED BY <2>1, <2>2, Powers
<1>3. s3 \in Byte /\ s4 \in Byte /\ s5 \in Byte
  <2>1. s3 \in Byte
    <3> HIDE DEF n
    <3> QED BY <1>2, ByteIs
  <2>2. s4 \in Byte
    BY <1>1, ByteIs
  <2>3. s5 \in Byte
    BY <1>1, ArgumentsAgain
  <2> QED BY <2>1, <2>2, <2>3
<1>4. c1 \in Seq(Byte) /\ Len(c1) = 3
  BY <1>1, ThreeBytes
<1>5. c2 \in Seq(Byte) /\ Len(c2) = 3 /\ c2[1] = s3 /\ c2[2] = s4 /\ c2[3] = s5
  <2> HIDE DEF s3, s4, s5
  <2> QED BY <1>3
<1>6. c3 \in Seq(Byte) /\ Len(c3) = 2
  <2> HIDE DEF m
  <2> QED BY <1>2, TwoBytes
<1>7. c4 \in Seq(Byte) /\ Len(c4) = 2 * n
  BY <1>1, WordsAgain
<1>8. c5 \in Seq(Byte) /\ Len(c5) = 2 * m
  BY WordsAgain
<1>9. FrameBytes(f, w) = d5
  BY Zenon DEF FrameBytes
<1> HIDE DEF n, m, c1, c2, c3, c4, c5
<1>10. d2 \in Seq(Byte) /\ Len(d2) = 6 /\ \A i \in 1..3 : d2[i] = c1[i] /\ d2[3 + i] = c2[i]
  <2>1. c1 \in Seq(Byte) /\ c2 \in Seq(Byte)
    BY <1>4, <1>5
  <2>2. /\ d2 \in Seq(Byte) /\ Len(d2) = Len(c1) + Len(c2)
        /\ \A i \in 1..Len(c1) : d2[i] = c1[i]
        /\ \A i \in 1..Len(c2) : d2[Len(c1) + i] = c2[i]
    BY <2>1, Concat
  <2> QED BY <1>4, <1>5, <2>2
<1> HIDE DEF d2
<1>11. /\ d3 \in Seq(Byte) /\ Len(d3) = 8 /\ \A i \in 1..6 : d3[i] = d2[i]
       /\ \A i \in 1..2 : d3[6 + i] = c3[i]
  <2>1. d2 \in Seq(Byte) /\ c3 \in Seq(Byte)
    BY <1>6, <1>10
  <2>2. /\ d3 \in Seq(Byte) /\ Len(d3) = Len(d2) + Len(c3)
        /\ \A i \in 1..Len(d2) : d3[i] = d2[i]
        /\ \A i \in 1..Len(c3) : d3[Len(d2) + i] = c3[i]
    BY <2>1, Concat
  <2>3. d3 \in Seq(Byte) /\ Len(d3) = 8
    BY <1>6, <1>10, <2>2
  <2>4. \A i \in 1..6 : d3[i] = d2[i]
    BY <1>10, <2>2
  <2>5. \A i \in 1..2 : d3[6 + i] = c3[i]
    BY <1>6, <1>10, <2>2
  <2> QED BY <2>3, <2>4, <2>5
<1> HIDE DEF d3
<1>12. /\ d4 \in Seq(Byte) /\ Len(d4) = 8 + 2 * n /\ \A i \in 1..8 : d4[i] = d3[i]
       /\ \A i \in 1..2 * n : d4[8 + i] = c4[i]
  <2>1. d3 \in Seq(Byte) /\ c4 \in Seq(Byte)
    BY <1>7, <1>11
  <2>2. /\ d4 \in Seq(Byte) /\ Len(d4) = Len(d3) + Len(c4)
        /\ \A i \in 1..Len(d3) : d4[i] = d3[i]
        /\ \A i \in 1..Len(c4) : d4[Len(d3) + i] = c4[i]
    BY <2>1, Concat
  <2> QED BY <1>2, <1>7, <1>11, <2>2
<1> HIDE DEF d4
<1>13. /\ d5 \in Seq(Byte) /\ Len(d5) = 8 + 2 * n + 2 * m
       /\ \A i \in 1..8 + 2 * n : d5[i] = d4[i]
       /\ \A i \in 1..2 * m : d5[(8 + 2 * n) + i] = c5[i]
  <2>1. d4 \in Seq(Byte) /\ c5 \in Seq(Byte)
    BY <1>8, <1>12
  <2>2. /\ d5 \in Seq(Byte) /\ Len(d5) = Len(d4) + Len(c5)
        /\ \A i \in 1..Len(d4) : d5[i] = d4[i]
        /\ \A i \in 1..Len(c5) : d5[Len(d4) + i] = c5[i]
    BY <2>1, Concat
  <2> QED BY <1>2, <1>8, <1>12, <2>2
<1> HIDE DEF d5, s3, s4, s5
<1>14. \A i \in 1..8 : d5[i] = d3[i]
  <2>1. \A i \in 1..8 : i \in 1..8 + 2 * n
    BY <1>2
  <2> QED BY <1>12, <1>13, <2>1
<1>15. /\ d5[1] = c1[1] /\ d5[2] = c1[2] /\ d5[3] = c1[3]
       /\ d5[4] = s3 /\ d5[5] = s4 /\ d5[6] = s5
       /\ d5[7] = c3[1] /\ d5[8] = c3[2]
  <2>1. d3[1] = c1[1] /\ d3[2] = c1[2] /\ d3[3] = c1[3]
        /\ d3[4] = c2[1] /\ d3[5] = c2[2] /\ d3[6] = c2[3] /\ d3[7] = c3[1] /\ d3[8] = c3[2]
    <3>1. /\ d3[1] = d2[1] /\ d3[2] = d2[2] /\ d3[3] = d2[3] /\ d3[4] = d2[4] /\ d3[5] = d2[5]
          /\ d3[6] = d2[6] /\ d3[6 + 1] = c3[1] /\ d3[6 + 2] = c3[2]
      BY <1>11
    <3>2. /\ d2[1] = c1[1] /\ d2[2] = c1[2] /\ d2[3] = c1[3]
          /\ d2[3 + 1] = c2[1] /\ d2[3 + 2] = c2[2] /\ d2[3 + 3] = c2[3]
      BY <1>10
    <3> QED BY <3>1, <3>2
  <2> QED BY <1>5, <1>14, <2>1
<1>16. \A i \in 1..2 * n : d5[8 + i] = c4[i]
  <2>1. \A i \in 1..2 * n : 8 + i \in 1..8 + 2 * n
    BY <1>2
  <2> QED BY <1>12, <1>13, <2>1
<1> DEFINE b == FrameBytes(f, w)
<1>17. b = d5
  BY <1>9
<1> HIDE DEF b
<1>18. /\ b \in Seq(Byte) /\ Len(b) = 8 + 2 * n + 2 * m
       /\ b[1] = c1[1] /\ b[2] = c1[2] /\ b[3] = c1[3]
       /\ b[4] = s3 /\ b[5] = s4 /\ b[6] = s5
       /\ b[7] = c3[1] /\ b[8] = c3[2]
       /\ \A i \in 1..2 * n : b[8 + i] = c4[i]
       /\ \A i \in 1..2 * m : b[(8 + 2 * n) + i] = c5[i]
  BY <1>13, <1>15, <1>16, <1>17
<1> QED BY <1>18, Zenon DEF b, n, m, s3, s4, s5, c1, c3, c4, c5

LocalsAt(bytes, p) == bytes[p + 3] % 16
WordsAt(bytes, p) == p + 8 + 2 * LocalsAt(bytes, p)
EndAt(bytes, p) == WordsAt(bytes, p) + 2 * At2(bytes, p + 6)
FitsAt(bytes, p) == p + 7 <= Len(bytes) /\ EndAt(bytes, p) <= Len(bytes) + 1
PartAt(bytes, p) ==
    [returnPC |-> At3(bytes, p),
     resultStorage |-> IF (bytes[p + 3] \div 16) % 2 = 1 THEN -1 ELSE bytes[p + 4],
     argCount |-> ArgCount(bytes[p + 5]),
     locals |-> Words(SubSeq(bytes, p + 8, WordsAt(bytes, p) - 1)),
     words |-> Words(SubSeq(bytes, WordsAt(bytes, p), EndAt(bytes, p) - 1))]

PartOfFrame(f, w) ==
    [returnPC |-> f.returnPC, resultStorage |-> f.resultStorage, argCount |-> f.argCount,
     locals |-> f.locals, words |-> w]

(* What is read where the bytes of a frame lie, after the first o bytes. *)
LEMMA FrameRead ==
    ASSUME NEW f \in CallFrame, Len(f.locals) <= 15,
           NEW w \in Seq(Word), Len(w) < 2^16,
           NEW bytes \in Seq(Byte), NEW o \in Nat,
           o + Len(FrameBytes(f, w)) <= Len(bytes),
           \A j \in 1..Len(FrameBytes(f, w)) : bytes[o + j] = FrameBytes(f, w)[j]
    PROVE  /\ FitsAt(bytes, o + 1)
           /\ EndAt(bytes, o + 1) = (o + Len(FrameBytes(f, w))) + 1
           /\ PartAt(bytes, o + 1) = PartOfFrame(f, w)
<1> DEFINE b == FrameBytes(f, w)
           n == Len(f.locals)
           m == Len(w)
           p == o + 1
<1>1. /\ f.returnPC \in 0..(2^24 - 1) /\ f.locals \in Seq(Word) /\ f.argCount \in 0..7
      /\ f.resultStorage \in Byte \cup {-1}
      /\ f = [returnPC |-> f.returnPC, prevStackDepth |-> f.prevStackDepth,
              locals |-> f.locals, argCount |-> f.argCount, resultStorage |-> f.resultStorage]
  BY DEF CallFrame
<1>2. n \in 0..15 /\ m \in 0..(2^16 - 1)
  <2>1. n \in Nat /\ m \in Nat
    BY <1>1, ElementOf
  <2>2. n <= 15 /\ m < 65536
    BY Powers
  <2> HIDE DEF n, m
  <2>3. n \in 0..15
    BY <2>1, <2>2
  <2>4. m \in 0..(2^16 - 1)
    <3> DEFINE top == 2^16
    <3>1. top \in Nat
      BY Powers
    <3>2. m < top
      BY Zenon DEF m
    <3> HIDE DEF top, m
    <3>3. m \in 0..(top - 1)
      BY <2>1, <3>1, <3>2
    <3> QED BY <3>3 DEF top
  <2> QED BY <2>3, <2>4
<1>3. /\ b \in Seq(Byte) /\ Len(b) = 8 + 2 * n + 2 * m
      /\ b[1] = Bytes3(f.returnPC)[1] /\ b[2] = Bytes3(f.returnPC)[2]
      /\ b[3] = Bytes3(f.returnPC)[3]
      /\ b[4] = n + (IF f.resultStorage = -1 THEN 16 ELSE 0)
      /\ b[5] = IF f.resultStorage = -1 THEN 0 ELSE f.resultStorage
      /\ b[6] = ArgBits(f.argCount)
      /\ b[7] = Bytes2(m)[1] /\ b[8] = Bytes2(m)[2]
      /\ \A i \in 1..2 * n : b[8 + i] = WordBytes(f.locals)[i]
      /\ \A i \in 1..2 * m : b[(8 + 2 * n) + i] = WordBytes(w)[i]
  BY FrameWritten, Zenon
<1>4. /\ o + Len(b) <= Len(bytes) /\ \A j \in 1..Len(b) : bytes[o + j] = b[j]
      /\ Len(bytes) \in Nat
  OBVIOUS
<1>t. f.returnPC = 2^16 * Bytes3(f.returnPC)[1] + 2^8 * Bytes3(f.returnPC)[2] + Bytes3(f.returnPC)[3]
  BY <1>1, ThreeBytes
<1>u. m = 2^8 * Bytes2(m)[1] + Bytes2(m)[2]
  <2> HIDE DEF m
  <2> QED BY <1>2, TwoBytes
<1> HIDE DEF b, n, m
<1>5. /\ bytes[p] = b[1] /\ bytes[p + 1] = b[2] /\ bytes[p + 2] = b[3] /\ bytes[p + 3] = b[4]
      /\ bytes[p + 4] = b[5] /\ bytes[p + 5] = b[6] /\ bytes[p + 6] = b[7] /\ bytes[p + 7] = b[8]
  <2>1. /\ 1 \in 1..Len(b) /\ 2 \in 1..Len(b) /\ 3 \in 1..Len(b) /\ 4 \in 1..Len(b)
        /\ 5 \in 1..Len(b) /\ 6 \in 1..Len(b) /\ 7 \in 1..Len(b) /\ 8 \in 1..Len(b)
    <3>1. Len(b) = 8 + 2 * n + 2 * m
      BY <1>3
    <3>2. Len(b) \in Nat /\ Len(b) >= 8
      BY <1>2, <3>1
    <3> QED BY <3>2
  <2>2. /\ bytes[o + 1] = b[1] /\ bytes[o + 2] = b[2] /\ bytes[o + 3] = b[3]
        /\ bytes[o + 4] = b[4] /\ bytes[o + 5] = b[5] /\ bytes[o + 6] = b[6]
        /\ bytes[o + 7] = b[7] /\ bytes[o + 8] = b[8]
    BY <1>4, <2>1
  <2>3. /\ p = o + 1 /\ p + 1 = o + 2 /\ p + 2 = o + 3 /\ p + 3 = o + 4 /\ p + 4 = o + 5
        /\ p + 5 = o + 6 /\ p + 6 = o + 7 /\ p + 7 = o + 8
    OBVIOUS
  <2> QED BY <2>2, <2>3
<1>6. LocalsAt(bytes, p) = n /\ ((bytes[p + 3] \div 16) % 2 = 1 <=> f.resultStorage = -1)
  <2>1. bytes[p + 3] = n + (IF f.resultStorage = -1 THEN 16 ELSE 0)
    BY <1>3, <1>5
  <2>2. n % 16 = n /\ (n + 16) % 16 = n /\ (n \div 16) % 2 = 0 /\ ((n + 16) \div 16) % 2 = 1
    <3>1. \A k \in 0..15 : /\ k % 16 = k /\ (k + 16) % 16 = k
                           /\ k \div 16 = 0 /\ (k + 16) \div 16 = 1
      OBVIOUS
    <3>2. 0 % 2 = 0 /\ 1 % 2 = 1
      OBVIOUS
    <3> QED BY <1>2, <3>1, <3>2, Zenon
  <2>3. CASE f.resultStorage = -1
    <3>1. bytes[p + 3] = n + 16
      BY <2>1, <2>3
    <3> QED BY <2>2, <2>3, <3>1 DEF LocalsAt
  <2>4. CASE f.resultStorage # -1
    <3>1. bytes[p + 3] = n
      BY <1>2, <2>1, <2>4
    <3> QED BY <2>2, <2>4, <3>1 DEF LocalsAt
  <2> QED BY <2>3, <2>4
<1>7. At3(bytes, p) = f.returnPC
  BY <1>3, <1>5, <1>t DEF At3
<1>8. At2(bytes, p + 6) = m
  <2>1. (p + 6) + 1 = p + 7
    OBVIOUS
  <2>2. bytes[p + 6] = Bytes2(m)[1] /\ bytes[p + 7] = Bytes2(m)[2]
    BY <1>3, <1>5
  <2>3. bytes[(p + 6) + 1] = Bytes2(m)[2]
    BY <2>1, <2>2, Zenon
  <2> QED BY <1>u, <2>2, <2>3, Zenon DEF At2
<1>9. (IF (bytes[p + 3] \div 16) % 2 = 1 THEN -1 ELSE bytes[p + 4]) = f.resultStorage
  BY <1>3, <1>5, <1>6
<1>10. ArgCount(bytes[p + 5]) = f.argCount
  <2>1. bytes[p + 5] = ArgBits(f.argCount)
    BY <1>3, <1>5, Zenon
  <2> QED BY <1>1, <2>1, ArgumentsAgain
<1>11. WordsAt(bytes, p) = p + 8 + 2 * n
  BY <1>6 DEF WordsAt
<1>12. EndAt(bytes, p) = p + 8 + 2 * n + 2 * m
  BY <1>8, <1>11 DEF EndAt
<1>13. EndAt(bytes, p) = (o + Len(b)) + 1
  <2> DEFINE l == Len(b)
             e == EndAt(bytes, p)
  <2>1. l = 8 + 2 * n + 2 * m /\ e = p + 8 + 2 * n + 2 * m
    BY <1>3, <1>12
  <2>2. n \in Int /\ m \in Int /\ p \in Int
    BY <1>2
  <2> HIDE DEF l, e
  <2>3. e = (o + l) + 1
    BY <2>1, <2>2
  <2> QED BY <2>3 DEF l, e
<1>14. FitsAt(bytes, p)
  <2>1. p + 7 <= Len(bytes)
    <3>1. p + 7 = o + 8
      OBVIOUS
    <3>2. Len(b) \in Nat /\ 8 <= Len(b)
      <4>1. Len(b) = 8 + 2 * n + 2 * m
        BY <1>3
      <4> QED BY <1>2, <4>1
    <3> HIDE DEF p
    <3> QED BY <1>4, <3>1, <3>2
  <2>2. EndAt(bytes, p) <= Len(bytes) + 1
    BY <1>2, <1>3, <1>4, <1>13
  <2> QED BY <2>1, <2>2 DEF FitsAt
<1>15. Words(SubSeq(bytes, p + 8, WordsAt(bytes, p) - 1)) = f.locals
  <2> DEFINE c == WordBytes(f.locals)
             q == o + 8
  <2>1. c \in Seq(Byte) /\ Len(c) = 2 * n /\ Words(c) = f.locals
    BY <1>1, WordsAgain DEF n
  <2>2. \A i \in 1..2 * n : b[8 + i] = c[i]
    BY <1>3
  <2> HIDE DEF c
  <2>3. q \in Nat /\ q + Len(c) <= Len(bytes)
    BY <1>2, <1>3, <1>4, <2>1
  <2>4. ASSUME NEW i \in 1..Len(c) PROVE bytes[q + i] = c[i]
    <3>1. i \in 1..2 * n /\ 8 + i \in 1..Len(b) /\ q + i = o + (8 + i)
      BY <1>2, <1>3, <2>1
    <3> QED BY <1>4, <2>2, <3>1
  <2> HIDE DEF q
  <2>5. SubSeq(bytes, q + 1, q + Len(c)) = c
    BY <2>1, <2>3, <2>4, PartIs
  <2>6. q + 1 = p + 8 /\ q + Len(c) = WordsAt(bytes, p) - 1
    BY <1>2, <1>11, <2>1 DEF q
  <2> QED BY <2>1, <2>5, <2>6
<1>16. Words(SubSeq(bytes, WordsAt(bytes, p), EndAt(bytes, p) - 1)) = w
  <2> DEFINE c == WordBytes(w)
             q == o + 8 + 2 * n
  <2>1. c \in Seq(Byte) /\ Len(c) = 2 * m /\ Words(c) = w
    BY WordsAgain DEF m
  <2>2. \A i \in 1..2 * m : b[(8 + 2 * n) + i] = c[i]
    BY <1>3
  <2> HIDE DEF c
  <2>3. q \in Nat /\ q + Len(c) <= Len(bytes)
    BY <1>2, <1>3, <1>4, <2>1
  <2>4. ASSUME NEW i \in 1..Len(c) PROVE bytes[q + i] = c[i]
    <3>1. i \in 1..2 * m /\ (8 + 2 * n) + i \in 1..Len(b) /\ q + i = o + ((8 + 2 * n) + i)
      <4> DEFINE l == Len(b)
                 d == Len(c)
      <4>1. l = 8 + 2 * n + 2 * m /\ d = 2 * m /\ i \in 1..d
        BY <1>3, <2>1
      <4>2. n \in Nat /\ m \in Nat
        BY <1>2
      <4> HIDE DEF l, d
      <4>3. i \in 1..2 * m /\ (8 + 2 * n) + i \in 1..l /\ q + i = o + ((8 + 2 * n) + i)
        BY <4>1, <4>2
      <4> QED BY <4>3 DEF l
    <3> QED BY <1>4, <2>2, <3>1
  <2> HIDE DEF q
  <2>5. SubSeq(bytes, q + 1, q + Len(c)) = c
    BY <2>1, <2>3, <2>4, PartIs
  <2>6. q + 1 = WordsAt(bytes, p) /\ q + Len(c) = EndAt(bytes, p) - 1
    <3>1. m \in Nat /\ n \in Nat
      BY <1>2
    <3>2. q + 1 = p + 8 + 2 * n
      BY <3>1 DEF q
    <3>3. q + 2 * m = (p + 8 + 2 * n + 2 * m) - 1
      BY <3>1 DEF q
    <3> QED BY <1>11, <1>12, <2>1, <3>2, <3>3
  <2> QED BY <2>1, <2>5, <2>6
<1>17. PartAt(bytes, p) = PartOfFrame(f, w)
  BY <1>7, <1>9, <1>10, <1>15, <1>16, Zenon DEF PartAt, PartOfFrame
<1> QED BY <1>13, <1>14, <1>17 DEF b

Added(part, read) == [read EXCEPT !.parts = <<part>> \o @]

FramesFrom(from, bytes) ==
    \A p \in 1..Len(bytes) + 1 :
        from[p] = IF p > Len(bytes) THEN [ok |-> TRUE, parts |-> <<>>]
                  ELSE IF ~FitsAt(bytes, p) THEN [ok |-> FALSE, parts |-> <<>>]
                  ELSE Added(PartAt(bytes, p), from[EndAt(bytes, p)])

LEMMA NumberInBytes ==
    ASSUME NEW bytes \in Seq(Byte)
    PROVE  /\ \A p \in Nat : p >= 1 /\ p + 1 <= Len(bytes) => At2(bytes, p) \in Nat
           /\ \A p \in Nat : p >= 1 /\ p + 3 <= Len(bytes) => At4(bytes, p) \in Int
<1>1. Len(bytes) \in Nat /\ \A i \in 1..Len(bytes) : bytes[i] \in Nat
  BY ElementOf, ByteIs
<1>2. ASSUME NEW p \in Nat, p >= 1, p + 1 <= Len(bytes) PROVE At2(bytes, p) \in Nat
  <2>1. p \in 1..Len(bytes) /\ p + 1 \in 1..Len(bytes)
    BY <1>1, <1>2
  <2> QED BY <1>1, <2>1, Powers DEF At2
<1>3. ASSUME NEW p \in Nat, p >= 1, p + 3 <= Len(bytes) PROVE At4(bytes, p) \in Int
  <2>1. p \in 1..Len(bytes) /\ p + 1 \in 1..Len(bytes) /\ p + 2 \in 1..Len(bytes)
        /\ p + 3 \in 1..Len(bytes)
    BY <1>1, <1>3
  <2> DEFINE a == IF bytes[p] < 128 THEN bytes[p] ELSE bytes[p] - 256
             b == bytes[p + 1]
             c == bytes[p + 2]
             d == bytes[p + 3]
  <2>2. a \in Int /\ b \in Int /\ c \in Int /\ d \in Int
    BY <1>1, <2>1
  <2>3. At4(bytes, p) = 2^24 * a + 2^16 * b + 2^8 * c + d
    BY Zenon DEF At4
  <2> HIDE DEF a, b, c, d
  <2>4. 16777216 * a \in Int /\ 65536 * b \in Int /\ 256 * c \in Int
    BY <2>2
  <2>5. 2^24 * a + 2^16 * b + 2^8 * c + d = 16777216 * a + 65536 * b + 256 * c + d
    BY Powers
  <2>6. 16777216 * a + 65536 * b + 256 * c + d \in Int
    BY <2>2, <2>4
  <2> QED BY <2>3, <2>5, <2>6
<1> QED BY <1>2, <1>3

LEMMA EndsAfter ==
    ASSUME NEW bytes \in Seq(Byte), NEW p \in 1..Len(bytes), FitsAt(bytes, p)
    PROVE  EndAt(bytes, p) \in p + 1..Len(bytes) + 1
<1>1. p + 7 <= Len(bytes) /\ EndAt(bytes, p) <= Len(bytes) + 1 /\ Len(bytes) \in Nat
  BY ElementOf DEF FitsAt
<1>2. p + 3 \in 1..Len(bytes) /\ p + 6 \in Nat /\ p + 6 >= 1 /\ (p + 6) + 1 <= Len(bytes)
  BY <1>1
<1>3. At2(bytes, p + 6) \in Nat
  BY <1>2, NumberInBytes
<1>4. LocalsAt(bytes, p) \in Nat
  <2> DEFINE x == bytes[p + 3]
  <2>1. x \in Byte
    BY <1>2, ElementOf
  <2>2. LocalsAt(bytes, p) = x % 16
    BY Zenon DEF LocalsAt
  <2> HIDE DEF x
  <2>3. x \in Nat
    BY <2>1, ByteIs
  <2>4. x % 16 \in Nat
    BY <2>3
  <2> QED BY <2>2, <2>4
<1> QED BY <1>1, <1>3, <1>4 DEF EndAt, WordsAt

LEMMA WholeFramesIs ==
    ASSUME NEW bytes \in Seq(Byte)
    PROVE  \E from : FramesFrom(from, bytes) /\ WholeFrames(bytes) = from[1]
<1> DEFINE n == Len(bytes)
           Parts == {PartAt(bytes, p) : p \in 1..n}
           V == [ok : BOOLEAN, parts : Seq(Parts)]
           good == [ok |-> TRUE, parts |-> <<>>]
           bad == [ok |-> FALSE, parts |-> <<>>]
           next == [p \in 1..n |-> IF FitsAt(bytes, p) THEN EndAt(bytes, p) ELSE n + 1]
           G == [p \in 1..n |-> [v \in V |-> IF FitsAt(bytes, p) THEN Added(PartAt(bytes, p), v)
                                             ELSE bad]]
           Is(from) == from = [p \in 1..(Len(bytes) + 1) |->
                          IF p > Len(bytes) THEN good
                          ELSE IF ~FitsAt(bytes, p) THEN bad
                          ELSE Added(PartAt(bytes, p), from[EndAt(bytes, p)])]
<1>0. n \in Nat
  BY ElementOf
<1>1. good \in V /\ bad \in V
  OBVIOUS
<1>2. \A p \in 1..n : \A v \in V : Added(PartAt(bytes, p), v) \in V
  <2> SUFFICES ASSUME NEW p \in 1..n, NEW v \in V PROVE Added(PartAt(bytes, p), v) \in V
    OBVIOUS
  <2> DEFINE x == PartAt(bytes, p)
             one == <<x>>
  <2>1. x \in Parts
    OBVIOUS
  <2>2. v.parts \in Seq(Parts) /\ v.ok \in BOOLEAN /\ v = [ok |-> v.ok, parts |-> v.parts]
    OBVIOUS
  <2> HIDE DEF x, Parts
  <2>3. one \in Seq(Parts)
    BY <2>1
  <2> HIDE DEF one
  <2>4. one \o v.parts \in Seq(Parts)
    BY <2>2, <2>3, Concat
  <2>5. Added(x, v) = [ok |-> v.ok, parts |-> one \o v.parts]
    <3> DEFINE w == one \o v.parts
    <3>1. Added(x, v) = [v EXCEPT !.parts = w]
      BY Zenon DEF Added, one
    <3> HIDE DEF w
    <3>2. [v EXCEPT !.parts = w] = [ok |-> v.ok, parts |-> w]
      OBVIOUS
    <3> QED BY <3>1, <3>2 DEF w
  <2>6. [ok |-> v.ok, parts |-> one \o v.parts] \in V
    <3> DEFINE w == one \o v.parts
    <3>1. w \in Seq(Parts) /\ v.ok \in BOOLEAN
      BY <2>2, <2>4
    <3> HIDE DEF w, one
    <3>2. [ok |-> v.ok, parts |-> w] \in V
      BY <3>1
    <3> QED BY <3>2, Zenon DEF w
  <2>7. Added(x, v) \in V
    BY <2>5, <2>6, Zenon
  <2> QED BY <2>7, Zenon DEF x
<1>3. \A p \in 1..n : next[p] \in p + 1..n + 1
  <2> SUFFICES ASSUME NEW p \in 1..n PROVE next[p] \in p + 1..n + 1
    OBVIOUS
  <2>1. CASE FitsAt(bytes, p)
    BY <2>1, EndsAfter
  <2>2. CASE ~FitsAt(bytes, p)
    BY <1>0, <2>2
  <2> QED BY <2>1, <2>2
<1>4. \A p \in 1..n : \A v \in V :
          G[p][v] = IF FitsAt(bytes, p) THEN Added(PartAt(bytes, p), v) ELSE bad
  <2> HIDE DEF V, bad
  <2> QED OBVIOUS
<1>n. \A p \in 1..n : next[p] = IF FitsAt(bytes, p) THEN EndAt(bytes, p) ELSE n + 1
  OBVIOUS
<1> HIDE DEF V, good, bad, next
<1>5. G \in [1..n -> [V -> V]]
  BY <1>1, <1>2
<1> HIDE DEF G, n
<1>6. PICK f : Jumps(f, n, V, good, next, G)
  BY <1>0, <1>1, <1>3, <1>5, JumpsExist
<1>7. f \in [1..n + 1 -> V] /\ f[n + 1] = good /\ \A p \in 1..n : f[p] = G[p][f[next[p]]]
  BY <1>6 DEF Jumps
<1>8. ASSUME NEW p \in 1..n + 1
      PROVE  f[p] = IF p > n THEN good
                    ELSE IF ~FitsAt(bytes, p) THEN bad
                    ELSE Added(PartAt(bytes, p), f[EndAt(bytes, p)])
  <2>1. CASE p > n
    <3>1. p = n + 1
      BY <1>0, <2>1
    <3> QED BY <1>7, <2>1, <3>1
  <2>2. CASE ~(p > n)
    <3>1. p \in 1..n
      BY <1>0, <2>2
    <3>2. next[p] \in 1..n + 1
      BY <1>0, <1>3, <3>1
    <3>3. f[next[p]] \in V
      BY <1>7, <3>2
    <3>4. f[p] = IF FitsAt(bytes, p) THEN Added(PartAt(bytes, p), f[next[p]]) ELSE bad
      BY <1>4, <1>7, <3>1, <3>3
    <3> QED BY <1>n, <2>2, <3>1, <3>4
  <2> QED BY <2>1, <2>2
<1>9. Is(f)
  <2>1. f = [p \in 1..(n + 1) |-> f[p]]
    BY <1>7
  <2>2. f = [p \in 1..(n + 1) |-> IF p > n THEN good
                    ELSE IF ~FitsAt(bytes, p) THEN bad
                    ELSE Added(PartAt(bytes, p), f[EndAt(bytes, p)])]
    BY <1>8, <2>1
  <2> QED BY <2>2 DEF n
<1>10. \E from : Is(from) /\ WholeFrames(bytes) = from[1]
  <2> DEFINE locals(p) == bytes[p + 3] % 16
             words(p) == p + 8 + 2 * locals(p)
             end(p) == words(p) + 2 * At2(bytes, p + 6)
             fits(p) == p + 7 <= Len(bytes) /\ end(p) <= Len(bytes) + 1
             part(p) ==
                [returnPC |-> At3(bytes, p),
                 resultStorage |-> IF (bytes[p + 3] \div 16) % 2 = 1 THEN -1 ELSE bytes[p + 4],
                 argCount |-> ArgCount(bytes[p + 5]),
                 locals |-> Words(SubSeq(bytes, p + 8, words(p) - 1)),
                 words |-> Words(SubSeq(bytes, words(p), end(p) - 1))]
             from[p \in 1..(Len(bytes) + 1)] ==
                IF p > Len(bytes) THEN [ok |-> TRUE, parts |-> <<>>]
                ELSE IF ~fits(p) THEN [ok |-> FALSE, parts |-> <<>>]
                ELSE [from[end(p)] EXCEPT !.parts = <<part(p)>> \o @]
  <2>1. WholeFrames(bytes) = from[1]
    BY Zenon DEF WholeFrames
  <2>2. f = [p \in 1..(Len(bytes) + 1) |->
                IF p > Len(bytes) THEN [ok |-> TRUE, parts |-> <<>>]
                ELSE IF ~fits(p) THEN [ok |-> FALSE, parts |-> <<>>]
                ELSE [f[end(p)] EXCEPT !.parts = <<part(p)>> \o @]]
    BY <1>9, Zenon DEF Added, PartAt, EndAt, WordsAt, LocalsAt, FitsAt, good, bad
  <2>3. from = [p \in 1..(Len(bytes) + 1) |->
                IF p > Len(bytes) THEN [ok |-> TRUE, parts |-> <<>>]
                ELSE IF ~fits(p) THEN [ok |-> FALSE, parts |-> <<>>]
                ELSE [from[end(p)] EXCEPT !.parts = <<part(p)>> \o @]]
    BY <2>2, Zenon
  <2> HIDE DEF from
  <2>4. Is(from)
    BY <2>3, Zenon DEF Added, PartAt, EndAt, WordsAt, LocalsAt, FitsAt, good, bad
  <2> QED BY <2>1, <2>4, Zenon
<1>11. PICK from : Is(from) /\ WholeFrames(bytes) = from[1]
  BY <1>10
<1>12. \A p \in 1..n + 1 :
          from[p] = IF p > n THEN good
                    ELSE IF ~FitsAt(bytes, p) THEN bad
                    ELSE Added(PartAt(bytes, p), from[EndAt(bytes, p)])
  BY <1>11, Zenon DEF n
<1>13. FramesFrom(from, bytes)
  BY <1>12, Zenon DEF FramesFrom, good, bad, n
<1> QED BY <1>11, <1>13, Zenon

(* The frames that are written, and what is read of them. *)
WrittenFrames(fs, ws, n) == [i \in 1..n |-> FrameBytes(fs[i], ws[i])]
ReadFrames(fs, ws, n) == [i \in 1..n |-> PartOfFrame(fs[i], ws[i])]

LEMMA WithParts ==
    ASSUME NEW b \in BOOLEAN, NEW s, NEW t
    PROVE  [[ok |-> b, parts |-> s] EXCEPT !.parts = t] = [ok |-> b, parts |-> t]
OBVIOUS

LEMMA AddedInFront ==
    ASSUME NEW n \in Nat, NEW g, NEW k \in 1..n
    PROVE  Added(g[k], [ok |-> TRUE, parts |-> [i \in 1..(n - k) |-> g[k + i]]])
               = [ok |-> TRUE, parts |-> [i \in 1..(n - (k - 1)) |-> g[(k - 1) + i]]]
<1> DEFINE S == {g[i] : i \in 1..n}
           t == [i \in 1..(n - k) |-> g[k + i]]
           u == [i \in 1..(n - (k - 1)) |-> g[(k - 1) + i]]
           one == <<g[k]>>
           v == one \o t
<1>1. /\ n - k \in Nat /\ n - (k - 1) = (n - k) + 1 /\ n - (k - 1) \in Nat
      /\ \A i \in 1..(n - k) : k + i \in 1..n
      /\ \A i \in 1..(n - (k - 1)) : (k - 1) + i \in 1..n
  OBVIOUS
<1>2. g[k] \in S /\ (\A i \in 1..(n - k) : g[k + i] \in S)
      /\ \A i \in 1..(n - (k - 1)) : g[(k - 1) + i] \in S
  BY <1>1
<1> HIDE DEF S
<1>3. t \in Seq(S) /\ Len(t) = n - k
  BY <1>1, <1>2
<1>4. u \in Seq(S) /\ Len(u) = n - (k - 1)
  BY <1>1, <1>2
<1>5. \A i \in 1..(n - k) : t[i] = g[k + i]
  OBVIOUS
<1>6. \A i \in 1..(n - (k - 1)) : u[i] = g[(k - 1) + i]
  OBVIOUS
<1> HIDE DEF t, u
<1>7. /\ one \o t \in Seq(S) /\ Len(one \o t) = Len(t) + 1
      /\ \A j \in 1..Len(t) + 1 : (one \o t)[j] = IF j = 1 THEN g[k] ELSE t[j - 1]
  BY <1>2, <1>3, FrontProperties
<1> HIDE DEF one
<1>8. v \in Seq(S) /\ Len(v) = Len(u)
  BY <1>1, <1>3, <1>4, <1>7
<1>9. ASSUME NEW j \in 1..Len(v) PROVE v[j] = u[j]
  <2>1. j \in 1..Len(t) + 1 /\ j \in 1..(n - (k - 1))
    BY <1>1, <1>3, <1>4, <1>8
  <2>2. CASE j = 1
    <3>1. (k - 1) + j = k
      BY <2>2
    <3> QED BY <1>6, <1>7, <2>1, <2>2, <3>1
  <2>3. CASE j # 1
    <3>1. j - 1 \in 1..(n - k) /\ k + (j - 1) = (k - 1) + j
      BY <1>1, <2>1, <2>3
    <3> QED BY <1>5, <1>6, <1>7, <2>1, <2>3, <3>1
  <2> QED BY <2>2, <2>3
<1> HIDE DEF v
<1>10. v = u
  BY <1>4, <1>8, <1>9, SameSeq
<1>11. Added(g[k], [ok |-> TRUE, parts |-> t]) = [ok |-> TRUE, parts |-> v]
  <2>1. Added(g[k], [ok |-> TRUE, parts |-> t])
            = [[ok |-> TRUE, parts |-> t] EXCEPT !.parts = <<g[k]>> \o @]
    BY Zenon DEF Added
  <2> DEFINE r == [ok |-> TRUE, parts |-> t]
  <2>2. r.parts = t
    OBVIOUS
  <2>3. [r EXCEPT !.parts = <<g[k]>> \o @] = [r EXCEPT !.parts = v]
    BY <2>2, Zenon DEF v, one
  <2>4. [[ok |-> TRUE, parts |-> t] EXCEPT !.parts = v] = [ok |-> TRUE, parts |-> v]
    BY WithParts
  <2> QED BY <2>1, <2>3, <2>4, Zenon DEF r
<1> QED BY <1>10, <1>11, Zenon DEF t, u

LEMMA FramesAgain ==
    ASSUME NEW n \in Nat, NEW fs \in [1..n -> CallFrame], NEW ws \in [1..n -> Seq(Word)],
           \A i \in 1..n : Len(fs[i].locals) <= 15 /\ Len(ws[i]) < 2^16
    PROVE  /\ FlattenSeq(WrittenFrames(fs, ws, n)) \in Seq(Byte)
           /\ WholeFrames(FlattenSeq(WrittenFrames(fs, ws, n)))
                  = [ok |-> TRUE, parts |-> ReadFrames(fs, ws, n)]
<1> DEFINE z == WrittenFrames(fs, ws, n)
           g == ReadFrames(fs, ws, n)
           bytes == FlattenSeq(z)
           Tail1(k) == [ok |-> TRUE, parts |-> [i \in 1..(n - k) |-> g[k + i]]]
<1>1. \A i \in 1..n : z[i] = FrameBytes(fs[i], ws[i]) /\ g[i] = PartOfFrame(fs[i], ws[i])
  BY Zenon DEF WrittenFrames, ReadFrames
<1>2. z \in [1..n -> Seq(Byte)]
  <2>1. \A i \in 1..n : FrameBytes(fs[i], ws[i]) \in Seq(Byte)
    <3> SUFFICES ASSUME NEW i \in 1..n PROVE FrameBytes(fs[i], ws[i]) \in Seq(Byte)
      OBVIOUS
    <3>1. fs[i] \in CallFrame /\ ws[i] \in Seq(Word)
      OBVIOUS
    <3> QED BY <3>1, FrameWritten
  <2> QED BY <2>1 DEF WrittenFrames
<1>3. g = [i \in 1..n |-> g[i]]
  BY Zenon DEF ReadFrames
<1> HIDE DEF z, g
<1>4. PICK off : LiesAt(bytes, z, n, off, Byte)
  BY <1>2, FlattenPlaces
<1> HIDE DEF bytes
<1>5. /\ off \in [0..n -> Nat] /\ off[0] = 0
      /\ \A k \in 1..n : off[k] = off[k - 1] + Len(z[k])
      /\ bytes \in Seq(Byte)
      /\ Len(bytes) = off[n]
      /\ \A k \in 1..n : \A j \in 1..Len(z[k]) : bytes[off[k - 1] + j] = z[k][j]
  BY <1>4 DEF LiesAt
<1>6. \A k \in 1..n : off[k] <= Len(bytes)
  BY <1>2, <1>4, LiesBelow
<1>7. PICK from : FramesFrom(from, bytes) /\ WholeFrames(bytes) = from[1]
  BY <1>5, WholeFramesIs
<1> DEFINE T == {k \in 1..n + 1 : from[off[k - 1] + 1] = Tail1(k - 1)}
<1>8. n + 1 \in T
  <2>1. from[Len(bytes) + 1] = [ok |-> TRUE, parts |-> <<>>]
    <3>1. Len(bytes) \in Nat
      BY <1>5
    <3>2. Len(bytes) + 1 \in 1..Len(bytes) + 1 /\ Len(bytes) + 1 > Len(bytes)
      BY <3>1
    <3> QED BY <1>7, <3>2, Zenon DEF FramesFrom
  <2>2. (n + 1) - 1 = n /\ n - n = 0 /\ n + 1 \in 1..n + 1
    OBVIOUS
  <2>3. [i \in 1..(n - n) |-> g[n + i]] = <<>>
    BY <2>2
  <2>4. Tail1(n) = [ok |-> TRUE, parts |-> <<>>]
    BY <2>3, Zenon
  <2> HIDE DEF Tail1
  <2>5. from[off[n] + 1] = Tail1(n)
    BY <1>5, <2>1, <2>4
  <2> QED BY <2>2, <2>5
<1>9. ASSUME NEW k \in 1..n, \A j \in k + 1..n + 1 : j \in T PROVE k \in T
  <2> DEFINE o == off[k - 1]
             b == FrameBytes(fs[k], ws[k])
  <2>1. k + 1 \in k + 1..n + 1 /\ (k + 1) - 1 = k /\ k - 1 \in 0..n /\ k \in 1..n + 1
    OBVIOUS
  <2>2. from[off[k] + 1] = Tail1(k)
    BY <1>9, <2>1
  <2> HIDE DEF Tail1
  <2>3. z[k] = b /\ g[k] = PartOfFrame(fs[k], ws[k])
    BY <1>1
  <2>4. o \in Nat /\ off[k] = o + Len(b) /\ o + Len(b) <= Len(bytes)
    BY <1>5, <1>6, <2>1, <2>3
  <2>5. \A j \in 1..Len(b) : bytes[o + j] = b[j]
    BY <1>5, <2>3
  <2>6. fs[k] \in CallFrame /\ Len(fs[k].locals) <= 15 /\ ws[k] \in Seq(Word) /\ Len(ws[k]) < 2^16
    OBVIOUS
  <2>7. /\ FitsAt(bytes, o + 1)
        /\ EndAt(bytes, o + 1) = (o + Len(b)) + 1
        /\ PartAt(bytes, o + 1) = PartOfFrame(fs[k], ws[k])
    <3> DEFINE f == fs[k]
               w == ws[k]
    <3>1. /\ f \in CallFrame /\ Len(f.locals) <= 15 /\ w \in Seq(Word) /\ Len(w) < 2^16
          /\ bytes \in Seq(Byte) /\ o \in Nat /\ o + Len(FrameBytes(f, w)) <= Len(bytes)
          /\ \A j \in 1..Len(FrameBytes(f, w)) : bytes[o + j] = FrameBytes(f, w)[j]
      BY <1>5, <2>4, <2>5, <2>6
    <3> HIDE DEF f, w, o
    <3>2. /\ FitsAt(bytes, o + 1)
          /\ EndAt(bytes, o + 1) = (o + Len(FrameBytes(f, w))) + 1
          /\ PartAt(bytes, o + 1) = PartOfFrame(f, w)
      BY <3>1, FrameRead
    <3> QED BY <3>2 DEF f, w
  <2>8. o + 1 \in 1..Len(bytes) + 1 /\ ~(o + 1 > Len(bytes))
    <3>1. (o + 1) + 7 <= Len(bytes) /\ Len(bytes) \in Nat
      BY <1>5, <2>7 DEF FitsAt
    <3> HIDE DEF o
    <3> QED BY <2>4, <3>1
  <2>9. from[o + 1] = Added(g[k], from[off[k] + 1])
    <3>1. from[o + 1] = Added(PartAt(bytes, o + 1), from[EndAt(bytes, o + 1)])
      BY <1>7, <2>7, <2>8, Zenon DEF FramesFrom
    <3>2. EndAt(bytes, o + 1) = off[k] + 1
      BY <2>4, <2>7
    <3> QED BY <2>3, <2>7, <3>1, <3>2
  <2>10. Added(g[k], Tail1(k)) = Tail1(k - 1)
    BY AddedInFront DEF Tail1
  <2>11. from[o + 1] = Tail1(k - 1)
    BY <2>2, <2>9, <2>10
  <2> QED BY <2>1, <2>11
<1> HIDE DEF T, Tail1
<1>10. \A k \in 1..n + 1 : k \in T
  BY <1>8, <1>9, InductionDown
<1>11. from[1] = Tail1(0)
  <2>1. 1 \in T
    BY <1>10
  <2>2. from[off[1 - 1] + 1] = Tail1(1 - 1)
    BY <2>1 DEF T
  <2>3. off[1 - 1] + 1 = 1 /\ 1 - 1 = 0
    BY <1>5
  <2> QED BY <2>2, <2>3
<1>12. Tail1(0) = [ok |-> TRUE, parts |-> g]
  <2>1. n - 0 = n /\ \A i \in 1..n : 0 + i = i
    OBVIOUS
  <2>2. [i \in 1..(n - 0) |-> g[0 + i]] = [i \in 1..n |-> g[i]]
    BY <2>1
  <2> QED BY <1>3, <2>2, Zenon DEF Tail1
<1> QED BY <1>5, <1>7, <1>11, <1>12 DEF bytes, z, g

(* A stack that is cut at the places E, each part of it less than 2^16      *)
(* words, is its parts, one after the other.                                *)
CutAt(E, stack, n) ==
    /\ n \in Nat
    /\ E \in [0..n -> Nat] /\ E[0] = 0 /\ E[n] = Len(stack)
    /\ \A i \in 1..n : E[i] - E[i - 1] \in 0..(2^16 - 1)

PartsOf(E, stack, n) == [i \in 1..n |-> SubSeq(stack, E[i - 1] + 1, E[i])]

LEMMA ShortLength ==
    ASSUME NEW x \in Nat, NEW y \in Nat, x - y \in 0..(2^16 - 1)
    PROVE  y <= x /\ x - y < 2^16
OBVIOUS

APartOf(E, stack, i) ==
    /\ SubSeq(stack, E[i - 1] + 1, E[i]) \in Seq(Word)
    /\ Len(SubSeq(stack, E[i - 1] + 1, E[i])) = E[i] - E[i - 1]
    /\ \A j \in 1..(E[i] - E[i - 1]) :
           SubSeq(stack, E[i - 1] + 1, E[i])[j] = stack[E[i - 1] + j]
    /\ E[i - 1] \in Nat /\ E[i] \in Nat /\ E[i - 1] <= E[i] /\ E[i] <= Len(stack)
    /\ E[i] - E[i - 1] < 2^16

Begins(flat, stack, l) ==
    flat \in Seq(Word) /\ Len(flat) = l /\ \A j \in 1..l : flat[j] = stack[j]

LEMMA CutParts ==
    \A stack, E, n, i : stack \in Seq(Word) /\ CutAt(E, stack, n) /\ i \in 1..n
                          => APartOf(E, stack, i)
<1> SUFFICES ASSUME NEW n, NEW stack \in Seq(Word), NEW E, CutAt(E, stack, n), NEW i \in 1..n
             PROVE  APartOf(E, stack, i)
  OBVIOUS
<1>1. /\ n \in Nat /\ E \in [0..n -> Nat] /\ E[0] = 0 /\ E[n] = Len(stack)
      /\ \A k \in 1..n : E[k] - E[k - 1] \in 0..(2^16 - 1)
  BY DEF CutAt
<1>2. ASSUME NEW k \in 1..n
      PROVE  E[k - 1] \in Nat /\ E[k] \in Nat /\ E[k - 1] <= E[k] /\ E[k] - E[k - 1] < 2^16
  <2>1. k - 1 \in 0..n /\ k \in 0..n
    BY <1>1
  <2>2. E[k - 1] \in Nat /\ E[k] \in Nat
    BY <1>1, <2>1
  <2>3. E[k] - E[k - 1] \in 0..(2^16 - 1)
    BY <1>1
  <2> QED BY <2>2, <2>3, ShortLength
<1> DEFINE T == {k \in 1..n + 1 : k = n + 1 \/ E[k] <= E[n]}
<1>3. n + 1 \in T
  BY <1>1
<1>4. ASSUME NEW k \in 1..n, \A j \in k + 1..n + 1 : j \in T PROVE k \in T
  <2>1. CASE k = n
    BY <1>2, <2>1
  <2>2. CASE k # n
    <3>1. k + 1 \in 1..n /\ (k + 1) - 1 = k /\ k + 1 \in k + 1..n + 1 /\ k + 1 # n + 1
      BY <1>1, <2>2
    <3>2. E[k + 1] <= E[n] /\ E[k] <= E[k + 1]
      BY <1>2, <1>4, <3>1
    <3>3. E[k] \in Nat /\ E[k + 1] \in Nat /\ E[n] \in Nat
      <4>1. n \in 1..n
        BY <1>1
      <4> QED BY <1>2, <3>1, <4>1
    <3>4. E[k] <= E[n]
      BY <3>2, <3>3
    <3>5. k \in 1..n + 1
      BY <1>1
    <3> QED BY <3>4, <3>5
  <2> QED BY <2>1, <2>2
<1> HIDE DEF T
<1>5. \A k \in 1..n + 1 : k \in T
  BY <1>1, <1>3, <1>4, InductionDown
<1>6. E[i] <= Len(stack)
  <2>1. i \in T /\ i # n + 1
    BY <1>1, <1>5
  <2> QED BY <1>1, <2>1 DEF T
<1> DEFINE a == E[i - 1] + 1
           b == E[i]
<1>7. a \in Nat /\ a >= 1 /\ b \in Nat /\ a <= b + 1 /\ b <= Len(stack)
      /\ b + 1 - a = E[i] - E[i - 1] /\ a - 1 = E[i - 1]
  <2> DEFINE x == E[i]
             y == E[i - 1]
  <2>1. x \in Nat /\ y \in Nat /\ y <= x /\ x <= Len(stack)
    BY <1>2, <1>6
  <2> HIDE DEF x, y
  <2>2. /\ y + 1 \in Nat /\ y + 1 >= 1 /\ y + 1 <= x + 1
        /\ x + 1 - (y + 1) = x - y /\ (y + 1) - 1 = y
    BY <2>1
  <2> QED BY <2>1, <2>2 DEF x, y
<1> HIDE DEF a, b
<1>8. /\ SubSeq(stack, a, b) \in Seq(Word)
      /\ Len(SubSeq(stack, a, b)) = b + 1 - a
      /\ \A j \in 1..(b + 1 - a) : SubSeq(stack, a, b)[j] = stack[a - 1 + j]
  BY <1>7, PartOf
<1> QED BY <1>2, <1>6, <1>7, <1>8 DEF a, b, APartOf

LEMMA CutTogether ==
    \A stack, E, n, k : stack \in Seq(Word) /\ CutAt(E, stack, n) /\ k \in 0..n
                          => Begins(FlattenSeq(PartsOf(E, stack, k)), stack, E[k])
<1> SUFFICES ASSUME NEW n, NEW stack \in Seq(Word), NEW E, CutAt(E, stack, n), NEW k \in 0..n
             PROVE  Begins(FlattenSeq(PartsOf(E, stack, k)), stack, E[k])
  OBVIOUS
<1> DEFINE z == PartsOf(E, stack, k)
           flat == FlattenSeq(z)
<1>1. n \in Nat /\ E \in [0..n -> Nat] /\ E[0] = 0 /\ k \in Nat
  BY DEF CutAt
<1>2. ASSUME NEW i \in 1..k
      PROVE  /\ z[i] \in Seq(Word) /\ Len(z[i]) = E[i] - E[i - 1]
             /\ \A j \in 1..(E[i] - E[i - 1]) : z[i][j] = stack[E[i - 1] + j]
             /\ E[i - 1] \in Nat /\ E[i] \in Nat /\ E[i - 1] <= E[i]
  <2>1. i \in 1..n
    BY <1>1
  <2>2. z[i] = SubSeq(stack, E[i - 1] + 1, E[i])
    BY Zenon DEF PartsOf
  <2>3. APartOf(E, stack, i)
    BY <2>1, CutParts, Zenon
  <2> QED BY <2>2, <2>3, Zenon DEF APartOf
<1>3. z = [i \in 1..k |-> z[i]]
  BY Zenon DEF PartsOf
<1> HIDE DEF z
<1>4. z \in [1..k -> Seq(Word)]
  BY <1>2, <1>3
<1>5. PICK off : LiesAt(flat, z, k, off, Word)
  BY <1>1, <1>4, FlattenPlaces
<1> HIDE DEF flat
<1>6. /\ off \in [0..k -> Nat]
      /\ off[0] = 0
      /\ \A i \in 1..k : off[i] = off[i - 1] + Len(z[i])
      /\ flat \in Seq(Word)
      /\ Len(flat) = off[k]
      /\ \A i \in 1..k : \A j \in 1..Len(z[i]) : flat[off[i - 1] + j] = z[i][j]
  BY <1>5 DEF LiesAt
<1> DEFINE T == {i \in 0..k : off[i] = E[i] /\ \A j \in 1..E[i] : flat[j] = stack[j]}
<1>7. 0 \in T
  BY <1>1, <1>6
<1>8. ASSUME NEW i \in 1..k, i - 1 \in T PROVE i \in T
  <2>1. off[i - 1] = E[i - 1] /\ \A j \in 1..E[i - 1] : flat[j] = stack[j]
    BY <1>8
  <2>2. off[i] = E[i]
    <3>1. off[i] = E[i - 1] + (E[i] - E[i - 1])
      BY <1>2, <1>6, <2>1
    <3> QED BY <1>2, <3>1
  <2>3. ASSUME NEW j \in 1..E[i] PROVE flat[j] = stack[j]
    <3>1. CASE j <= E[i - 1]
      <4>1. j \in 1..E[i - 1]
        BY <1>2, <3>1
      <4> QED BY <2>1, <4>1
    <3>2. CASE ~(j <= E[i - 1])
      <4> DEFINE l == j - E[i - 1]
      <4>1. l \in 1..(E[i] - E[i - 1]) /\ E[i - 1] + l = j
        BY <1>2, <3>2
      <4> HIDE DEF l
      <4>2. flat[off[i - 1] + l] = z[i][l] /\ z[i][l] = stack[E[i - 1] + l]
        BY <1>2, <1>6, <4>1
      <4> QED BY <2>1, <4>1, <4>2
    <3> QED BY <3>1, <3>2
  <2> QED BY <2>2, <2>3
<1> HIDE DEF T
<1>9. \A i \in 0..k : i \in T
  BY <1>1, <1>7, <1>8, InductionUpTo
<1>10. off[k] = E[k] /\ \A j \in 1..E[k] : flat[j] = stack[j]
  <2>1. k \in T
    BY <1>1, <1>9
  <2> QED BY <2>1 DEF T
<1> QED BY <1>6, <1>10 DEF flat, z, Begins

LEMMA CutWhole ==
    ASSUME NEW n, NEW stack \in Seq(Word), NEW E, CutAt(E, stack, n)
    PROVE  FlattenSeq(PartsOf(E, stack, n)) = stack
<1> DEFINE flat == FlattenSeq(PartsOf(E, stack, n))
<1>1. n \in 0..n /\ E[n] = Len(stack)
  BY DEF CutAt
<1>2. flat \in Seq(Word) /\ Len(flat) = Len(stack) /\ \A j \in 1..Len(stack) : flat[j] = stack[j]
  <2>1. flat \in Seq(Word) /\ Len(flat) = E[n] /\ \A j \in 1..E[n] : flat[j] = stack[j]
    <3>1. stack \in Seq(Word) /\ CutAt(E, stack, n) /\ n \in 0..n
      BY <1>1
    <3>2. Begins(FlattenSeq(PartsOf(E, stack, n)), stack, E[n])
      BY <3>1, CutTogether, Zenon
    <3> QED BY <3>2, Zenon DEF Begins
  <2> HIDE DEF flat
  <2> QED BY <1>1, <2>1
<1> HIDE DEF flat
<1>3. flat = stack
  BY <1>2, SameSeq
<1> QED BY <1>3 DEF flat

(* Where the frames of m cut its stack: the dummy's part ends at the first  *)
(* frame's beginning.                                                       *)
Ends(m) == [i \in 0..(Len(m.callStack) + 1) |->
               IF i = 0 THEN 0 ELSE PartEnd(m.stack, m.callStack, i - 1)]
FramesOf(m) == [i \in 1..(Len(m.callStack) + 1) |->
                   IF i = 1 THEN DummyFrame ELSE m.callStack[i - 1]]

LEMMA SavableIs ==
    ASSUME NEW m, Savable(m)
    PROVE  /\ m.ram \in [1..RomStart -> Byte] /\ m.stack \in Seq(Word)
           /\ m.callStack \in Seq(CallFrame) /\ m.pc \in Int
           /\ m = [ram |-> m.ram, stack |-> m.stack, callStack |-> m.callStack, pc |-> m.pc]
           /\ Len(m.callStack) \in Nat /\ Len(m.stack) \in Nat
           /\ \A i \in 1..Len(m.callStack) :
                  /\ m.callStack[i] \in CallFrame
                  /\ m.callStack[i].prevStackDepth \in Nat
                  /\ Len(m.callStack[i].locals) <= 15
<1>1. m \in ZMachine /\ \A i \in 1..Len(m.callStack) : Len(m.callStack[i].locals) <= 15
  BY DEF Savable
<1>2. /\ m.ram \in [1..RomStart -> Byte] /\ m.stack \in Seq(Word)
      /\ m.callStack \in Seq(CallFrame) /\ m.pc \in Int
      /\ m = [ram |-> m.ram, stack |-> m.stack, callStack |-> m.callStack, pc |-> m.pc]
  BY <1>1 DEF ZMachine
<1>3. Len(m.callStack) \in Nat /\ \A i \in 1..Len(m.callStack) : m.callStack[i] \in CallFrame
  BY <1>2, ElementOf
<1>4. Len(m.stack) \in Nat
  BY <1>2, ElementOf
<1>5. \A f \in CallFrame : f.prevStackDepth \in Nat
  BY DEF CallFrame
<1> QED BY <1>1, <1>2, <1>3, <1>4, <1>5

LEMMA EndsCut ==
    ASSUME NEW m, Savable(m)
    PROVE  /\ CutAt(Ends(m), m.stack, Len(m.callStack) + 1)
           /\ \A i \in 1..(Len(m.callStack) + 1) :
                  /\ Ends(m)[i - 1] = PartStart(m.callStack, i - 1)
                  /\ Ends(m)[i] = PartEnd(m.stack, m.callStack, i - 1)
<1> DEFINE cs == m.callStack
           st == m.stack
           top == Len(cs)
           E == Ends(m)
<1>1. /\ top \in Nat /\ Len(st) \in Nat
      /\ \A i \in 1..top : cs[i].prevStackDepth \in Nat
  BY SavableIs
<1>2. \A i \in 0..top : PartEnd(st, cs, i) - PartStart(cs, i) \in 0..(2^16 - 1)
  BY DEF Savable
<1>3. \A i \in 0..(top + 1) : E[i] = IF i = 0 THEN 0 ELSE PartEnd(st, cs, i - 1)
  BY DEF Ends
<1>d. E = [i \in 0..(top + 1) |-> E[i]]
  BY DEF Ends
<1> HIDE DEF cs, st, E, top
<1>4. ASSUME NEW i \in 0..top PROVE PartEnd(st, cs, i) \in Nat /\ (i = top => PartEnd(st, cs, i) = Len(st))
  <2>1. CASE i = top
    BY <1>1, <2>1 DEF PartEnd, top
  <2>2. CASE i # top
    <3>1. i + 1 \in 1..top /\ i + 1 # 0
      BY <1>1, <2>2
    <3> QED BY <1>1, <2>2, <3>1 DEF PartEnd, PartStart, top
  <2> QED BY <2>1, <2>2
<1>5. E \in [0..(top + 1) -> Nat] /\ E[0] = 0 /\ E[top + 1] = Len(st)
  <2>1. ASSUME NEW i \in 0..(top + 1) PROVE E[i] \in Nat
    <3>1. i # 0 => i - 1 \in 0..top
      BY <1>1
    <3> QED BY <1>3, <1>4, <3>1
  <2>2. top + 1 \in 0..(top + 1) /\ top + 1 # 0 /\ (top + 1) - 1 = top /\ top \in 0..top /\ 0 \in 0..(top + 1)
    BY <1>1
  <2> QED BY <1>3, <1>4, <1>d, <2>1, <2>2
<1>6. ASSUME NEW i \in 1..(top + 1)
      PROVE  E[i - 1] = PartStart(cs, i - 1) /\ E[i] = PartEnd(st, cs, i - 1)
  <2>1. i \in 0..(top + 1) /\ i # 0 /\ i - 1 \in 0..(top + 1) /\ i - 1 \in 0..top
    BY <1>1
  <2>2. E[i] = PartEnd(st, cs, i - 1)
    BY <1>3, <2>1
  <2>3. CASE i = 1
    <3>1. i - 1 = 0
      BY <2>3
    <3>2. PartStart(cs, 0) = 0
      BY DEF PartStart
    <3> QED BY <1>5, <2>2, <3>1, <3>2
  <2>4. CASE i # 1
    <3>1. i - 1 # 0 /\ (i - 1) - 1 # top /\ ((i - 1) - 1) + 1 = i - 1
      BY <1>1, <2>4
    <3>2. E[i - 1] = PartEnd(st, cs, (i - 1) - 1)
      BY <1>3, <2>1, <3>1
    <3> QED BY <2>2, <3>1, <3>2 DEF PartEnd, top
  <2> QED BY <2>2, <2>3, <2>4
<1>7. \A i \in 1..(top + 1) : E[i] - E[i - 1] \in 0..(2^16 - 1)
  <2> SUFFICES ASSUME NEW i \in 1..(top + 1) PROVE E[i] - E[i - 1] \in 0..(2^16 - 1)
    OBVIOUS
  <2>1. i - 1 \in 0..top
    BY <1>1
  <2>2. PartEnd(st, cs, i - 1) - PartStart(cs, i - 1) \in 0..(2^16 - 1)
    BY <1>2, <2>1
  <2> QED BY <1>6, <2>2
<1>8. CutAt(E, st, top + 1)
  <2>1. top + 1 \in Nat
    BY <1>1
  <2> QED BY <1>5, <1>7, <2>1 DEF CutAt
<1> QED BY <1>6, <1>8 DEF E, st, top, cs

LEMMA StacksWritten ==
    ASSUME NEW m, Savable(m)
    PROVE  LET n == Len(m.callStack) + 1
               ws == PartsOf(Ends(m), m.stack, n)
           IN  /\ n \in Nat /\ FramesOf(m) \in [1..n -> CallFrame] /\ ws \in [1..n -> Seq(Word)]
               /\ \A i \in 1..n : Len(FramesOf(m)[i].locals) <= 15 /\ Len(ws[i]) < 2^16
               /\ SerializeStacks(m.stack, m.callStack)
                      = FlattenSeq(WrittenFrames(FramesOf(m), ws, n))
<1> DEFINE cs == m.callStack
           st == m.stack
           n == Len(cs) + 1
           E == Ends(m)
           ws == PartsOf(E, st, n)
           fs == FramesOf(m)
<1>1. /\ n \in Nat /\ st \in Seq(Word)
      /\ \A i \in 1..n : i # 1 => /\ cs[i - 1] \in CallFrame /\ Len(cs[i - 1].locals) <= 15
  <2>1. /\ Len(cs) \in Nat /\ st \in Seq(Word)
        /\ \A i \in 1..Len(cs) : cs[i] \in CallFrame /\ Len(cs[i].locals) <= 15
    BY SavableIs
  <2> HIDE DEF cs, st
  <2>2. \A i \in 1..n : i # 1 => i - 1 \in 1..Len(cs)
    BY <2>1
  <2> QED BY <2>1, <2>2
<1>2. DummyFrame \in CallFrame /\ Len(DummyFrame.locals) = 0
  <2>1. <<>> \in Seq(Word) /\ 0 \in 0..(2^24 - 1) /\ 0 \in 0..7 /\ 0 \in Byte \cup {-1} /\ Len(<<>>) = 0
    BY Powers DEF Byte
  <2> QED BY <2>1 DEF DummyFrame, CallFrame
<1>3. /\ CutAt(E, st, n)
      /\ \A i \in 1..n : E[i - 1] = PartStart(cs, i - 1) /\ E[i] = PartEnd(st, cs, i - 1)
  BY EndsCut
<1>4. \A i \in 1..n : fs[i] = IF i = 1 THEN DummyFrame ELSE cs[i - 1]
  BY DEF FramesOf
<1>5. fs = [i \in 1..n |-> fs[i]]
  BY DEF FramesOf
<1>6. \A i \in 1..n : ws[i] = SubSeq(st, E[i - 1] + 1, E[i])
  BY Zenon DEF PartsOf
<1>7. ws = [i \in 1..n |-> ws[i]]
  BY Zenon DEF PartsOf
<1>8. SerializeStacks(st, cs) = FlattenSeq(WrittenFrames(fs, ws, n))
  <2> DEFINE F(i) == FrameBytes(IF i = 1 THEN DummyFrame ELSE cs[i - 1],
                                SubSeq(st, PartStart(cs, i - 1) + 1, PartEnd(st, cs, i - 1)))
  <2>1. SerializeStacks(st, cs) = FlattenSeq([i \in 1..n |-> F(i)])
    BY Zenon DEF SerializeStacks
  <2>2. \A i \in 1..n : F(i) = FrameBytes(fs[i], ws[i])
    <3> HIDE DEF cs, st, n, E, ws, fs
    <3> QED BY <1>3, <1>4, <1>6
  <2> HIDE DEF F, cs, st, n, ws, fs
  <2>3. [i \in 1..n |-> F(i)] = [i \in 1..n |-> FrameBytes(fs[i], ws[i])]
    BY <2>2
  <2> QED BY <2>1, <2>3, Zenon DEF WrittenFrames
<1> HIDE DEF cs, st, n, E, ws, fs
<1>9. fs \in [1..n -> CallFrame] /\ \A i \in 1..n : Len(fs[i].locals) <= 15
  <2>1. \A i \in 1..n : fs[i] \in CallFrame /\ Len(fs[i].locals) <= 15
    <3> SUFFICES ASSUME NEW i \in 1..n PROVE fs[i] \in CallFrame /\ Len(fs[i].locals) <= 15
      OBVIOUS
    <3>1. CASE i = 1
      BY <1>2, <1>4, <3>1
    <3>2. CASE i # 1
      BY <1>1, <1>4, <3>2
    <3> QED BY <3>1, <3>2
  <2> QED BY <1>5, <2>1
<1>10. ws \in [1..n -> Seq(Word)] /\ \A i \in 1..n : Len(ws[i]) < 2^16
  <2>1. \A i \in 1..n : ws[i] \in Seq(Word) /\ Len(ws[i]) < 2^16
    <3> SUFFICES ASSUME NEW i \in 1..n PROVE ws[i] \in Seq(Word) /\ Len(ws[i]) < 2^16
      OBVIOUS
    <3>1. APartOf(E, st, i)
      BY <1>1, <1>3, CutParts, Zenon
    <3>2. /\ SubSeq(st, E[i - 1] + 1, E[i]) \in Seq(Word)
          /\ Len(SubSeq(st, E[i - 1] + 1, E[i])) < 2^16
      BY <3>1, Zenon DEF APartOf
    <3> QED BY <1>6, <3>2, Zenon
  <2> QED BY <1>7, <2>1
<1> QED BY <1>1, <1>8, <1>9, <1>10, Zenon DEF cs, st, n, E, ws, fs

LEMMA PartIsFrame ==
    ASSUME NEW f \in CallFrame, NEW w
    PROVE  [returnPC |-> PartOfFrame(f, w).returnPC,
            prevStackDepth |-> f.prevStackDepth,
            locals |-> PartOfFrame(f, w).locals,
            argCount |-> PartOfFrame(f, w).argCount,
            resultStorage |-> PartOfFrame(f, w).resultStorage] = f
<1>1. f = [returnPC |-> f.returnPC, prevStackDepth |-> f.prevStackDepth,
           locals |-> f.locals, argCount |-> f.argCount, resultStorage |-> f.resultStorage]
  BY DEF CallFrame
<1>2. /\ PartOfFrame(f, w).returnPC = f.returnPC /\ PartOfFrame(f, w).locals = f.locals
      /\ PartOfFrame(f, w).argCount = f.argCount
      /\ PartOfFrame(f, w).resultStorage = f.resultStorage
  BY DEF PartOfFrame
<1> QED BY <1>1, <1>2, Zenon

LEMMA StacksAgain ==
    ASSUME NEW m, Savable(m)
    PROVE  LET b == SerializeStacks(m.stack, m.callStack)
           IN  /\ b \in Seq(Byte)
               /\ DeserializeStacks(b).ok
               /\ DeserializeStacks(b).stack = m.stack
               /\ DeserializeStacks(b).callStack = m.callStack
<1> DEFINE cs == m.callStack
           st == m.stack
           n == Len(cs) + 1
           E == Ends(m)
           ws == PartsOf(E, st, n)
           fs == FramesOf(m)
           g == ReadFrames(fs, ws, n)
           b == SerializeStacks(st, cs)
           r == DeserializeStacks(b)
           words(k) == FlattenSeq([i \in 1..k |-> g[i].words])
           frame(k) == [returnPC |-> g[k].returnPC,
                        prevStackDepth |-> Len(words(k - 1)),
                        locals |-> g[k].locals,
                        argCount |-> g[k].argCount,
                        resultStorage |-> g[k].resultStorage]
<1>1. /\ n \in Nat /\ fs \in [1..n -> CallFrame] /\ ws \in [1..n -> Seq(Word)]
      /\ \A i \in 1..n : Len(fs[i].locals) <= 15 /\ Len(ws[i]) < 2^16
      /\ b = FlattenSeq(WrittenFrames(fs, ws, n))
  BY StacksWritten, Zenon
<1>2. /\ CutAt(E, st, n)
      /\ \A i \in 1..n : E[i - 1] = PartStart(cs, i - 1)
  BY EndsCut, Zenon
<1>3. /\ Len(cs) \in Nat /\ st \in Seq(Word) /\ cs \in Seq(CallFrame)
      /\ \A i \in 1..Len(cs) : cs[i] \in CallFrame
  BY SavableIs
<1>4. \A i \in 1..Len(cs) : fs[i + 1] = cs[i]
  <2>1. \A i \in 1..n : fs[i] = IF i = 1 THEN DummyFrame ELSE cs[i - 1]
    BY DEF FramesOf
  <2> HIDE DEF fs, cs
  <2>2. \A i \in 1..Len(cs) : i + 1 \in 1..n /\ i + 1 # 1 /\ (i + 1) - 1 = i
    BY <1>3
  <2> QED BY <2>1, <2>2
<1>5. g = [i \in 1..n |-> PartOfFrame(fs[i], ws[i])]
  BY Zenon DEF ReadFrames
<1>6. \A i \in 1..n : ws[i] = SubSeq(st, E[i - 1] + 1, E[i])
  BY Zenon DEF PartsOf
<1>7. b \in Seq(Byte) /\ WholeFrames(b) = [ok |-> TRUE, parts |-> g]
  <2> HIDE DEF n, fs, ws, b
  <2>1. /\ FlattenSeq(WrittenFrames(fs, ws, n)) \in Seq(Byte)
        /\ WholeFrames(FlattenSeq(WrittenFrames(fs, ws, n)))
               = [ok |-> TRUE, parts |-> ReadFrames(fs, ws, n)]
    BY <1>1, FramesAgain
  <2> QED BY <1>1, <2>1, Zenon
<1> HIDE DEF n, fs, ws, b, g, E, cs, st
<1>8. WholeFrames(b).ok = TRUE /\ WholeFrames(b).parts = g
  BY <1>7
<1>9. Len(g) = n /\ \A i \in 1..n : g[i] = PartOfFrame(fs[i], ws[i]) /\ g[i].words = ws[i]
  <2>1. Len(g) = n
    BY <1>1, <1>5
  <2>2. \A i \in 1..n : g[i] = PartOfFrame(fs[i], ws[i])
    BY <1>5
  <2>3. \A i \in 1..n : PartOfFrame(fs[i], ws[i]).words = ws[i]
    BY DEF PartOfFrame
  <2> QED BY <2>1, <2>2, <2>3
<1>10. \A k \in 0..n : words(k) = FlattenSeq(PartsOf(E, st, k))
  <2> SUFFICES ASSUME NEW k \in 0..n PROVE words(k) = FlattenSeq(PartsOf(E, st, k))
    OBVIOUS
  <2>1. \A i \in 1..k : g[i].words = SubSeq(st, E[i - 1] + 1, E[i])
    <3>1. \A i \in 1..k : i \in 1..n
      BY <1>1
    <3> QED BY <1>6, <1>9, <3>1
  <2>2. [i \in 1..k |-> g[i].words] = [i \in 1..k |-> SubSeq(st, E[i - 1] + 1, E[i])]
    BY <2>1, Zenon
  <2> QED BY <2>2, Zenon DEF PartsOf
<1>11. words(n) = st
  <2>1. n \in 0..n
    BY <1>1
  <2> QED BY <1>2, <1>3, <1>10, <2>1, CutWhole, Zenon
<1>12. \A k \in 0..n : Len(words(k)) = E[k]
  <2> SUFFICES ASSUME NEW k \in 0..n PROVE Len(words(k)) = E[k]
    OBVIOUS
  <2>1. Begins(FlattenSeq(PartsOf(E, st, k)), st, E[k])
    BY <1>2, <1>3, CutTogether, Zenon
  <2> QED BY <1>10, <2>1, Zenon DEF Begins
<1>13. /\ r.ok = WholeFrames(b).ok
       /\ r.stack = words(Len(g))
       /\ r.callStack = [k \in 1..(Len(g) - 1) |-> frame(k + 1)]
  <2>1. r = [ok |-> WholeFrames(b).ok, stack |-> words(Len(g)),
             callStack |-> [k \in 1..(Len(g) - 1) |-> frame(k + 1)]]
    BY <1>8, Zenon DEF DeserializeStacks
  <2> HIDE DEF words, frame, r
  <2> DEFINE u == words(Len(g))
             v == [k \in 1..(Len(g) - 1) |-> frame(k + 1)]
             o == WholeFrames(b).ok
  <2>2. r = [ok |-> o, stack |-> u, callStack |-> v]
    BY <2>1
  <2> HIDE DEF u, v, o
  <2>3. r.ok = o /\ r.stack = u /\ r.callStack = v
    BY <2>2
  <2> QED BY <2>3 DEF u, v, o
<1>14. Len(g) - 1 = Len(cs)
  BY <1>3, <1>9 DEF n
<1>15. ASSUME NEW k \in 1..Len(cs) PROVE frame(k + 1) = cs[k]
  <2>1. k + 1 \in 1..n /\ k \in 0..n /\ (k + 1) - 1 = k /\ k # 0
    BY <1>3 DEF n
  <2>2. Len(words((k + 1) - 1)) = cs[k].prevStackDepth
    <3>1. E[k] = PartStart(cs, k)
      BY <1>2, <2>1
    <3>2. PartStart(cs, k) = cs[k].prevStackDepth
      BY <2>1 DEF PartStart
    <3> QED BY <1>12, <2>1, <3>1, <3>2
  <2>3. g[k + 1] = PartOfFrame(cs[k], ws[k + 1]) /\ cs[k] \in CallFrame
    BY <1>3, <1>4, <1>9, <2>1
  <2> DEFINE d == Len(words((k + 1) - 1))
  <2>4. frame(k + 1) = [returnPC |-> g[k + 1].returnPC,
                        prevStackDepth |-> d,
                        locals |-> g[k + 1].locals,
                        argCount |-> g[k + 1].argCount,
                        resultStorage |-> g[k + 1].resultStorage]
    BY Zenon
  <2>5. d = cs[k].prevStackDepth
    BY <2>2
  <2> HIDE DEF d, words, frame
  <2> QED BY <2>3, <2>4, <2>5, PartIsFrame, Zenon
<1>16. r.callStack = cs
  <2>1. cs = [k \in 1..Len(cs) |-> cs[k]]
    BY <1>3
  <2> HIDE DEF frame, r
  <2>2. [k \in 1..Len(cs) |-> frame(k + 1)] = [k \in 1..Len(cs) |-> cs[k]]
    BY <1>15, Zenon
  <2> QED BY <1>13, <1>14, <2>1, <2>2, Zenon
<1>17. r.stack = st
  <2> HIDE DEF words, r
  <2> QED BY <1>9, <1>11, <1>13, Zenon
<1>18. r.ok
  BY <1>8, <1>13, Zenon
<1> QED BY <1>7, <1>16, <1>17, <1>18, Zenon DEF b, cs, st

-----------------------------------------------------------------------------
(* The container: the blocks that are read are those that were written *)

DataEndAt(bytes, p) ==
    IF p + 7 + At4(bytes, p + 4) <= Len(bytes) THEN p + 7 + At4(bytes, p + 4) ELSE Len(bytes)
AfterAt(bytes, p) == DataEndAt(bytes, p) + 1 + (At4(bytes, p + 4) % 2)
BlockFits(bytes, p) ==
    p + 7 <= Len(bytes) /\ At4(bytes, p + 4) >= 0 /\ AfterAt(bytes, p) <= Len(bytes) + 1
BlockAt(bytes, p) == Block(At4(bytes, p), SubSeq(bytes, p + 8, DataEndAt(bytes, p)))
FileEnd(bytes) == IF At4(bytes, 5) > 2^30 + (2^30 - 9) THEN 0 ELSE 8 + At4(bytes, 5)
HeaderFits(bytes) == Len(bytes) >= 12 /\ At4(bytes, 1) = FORM /\ At4(bytes, 9) = IFZS

AllRead == [ok |-> TRUE, blocks |-> <<>>]
NotRead == [ok |-> FALSE, blocks |-> <<>>]
WithBlock(block, read) == [read EXCEPT !.blocks = <<block>> \o @]

BlocksFrom(from, bytes) ==
    \A p \in 1..Len(bytes) + 1 :
        from[p] = IF p > FileEnd(bytes) THEN AllRead
                  ELSE IF ~BlockFits(bytes, p) THEN NotRead
                  ELSE WithBlock(BlockAt(bytes, p), from[AfterAt(bytes, p)])

LEMMA BlockEndsAfter ==
    ASSUME NEW bytes \in Seq(Byte), NEW p \in 1..Len(bytes), BlockFits(bytes, p)
    PROVE  AfterAt(bytes, p) \in p + 1..Len(bytes) + 1
<1>1. p + 7 <= Len(bytes) /\ AfterAt(bytes, p) <= Len(bytes) + 1 /\ Len(bytes) \in Nat
  BY ElementOf DEF BlockFits
<1>2. p + 4 \in Nat /\ p + 4 >= 1 /\ (p + 4) + 3 <= Len(bytes)
  BY <1>1
<1>3. At4(bytes, p + 4) \in Nat
  <2>1. At4(bytes, p + 4) \in Int
    BY <1>2, NumberInBytes
  <2>2. At4(bytes, p + 4) >= 0
    BY DEF BlockFits
  <2> QED BY <2>1, <2>2
<1> DEFINE l == At4(bytes, p + 4)
<1>4. l \in Nat /\ AfterAt(bytes, p) = (IF p + 7 + l <= Len(bytes) THEN p + 7 + l ELSE Len(bytes)) + 1 + (l % 2)
  BY <1>3 DEF AfterAt, DataEndAt
<1> HIDE DEF l
<1> DEFINE x == AfterAt(bytes, p)
           r == l % 2
<1>5. r \in 0..1
  BY <1>4
<1>6. x = (IF p + 7 + l <= Len(bytes) THEN p + 7 + l ELSE Len(bytes)) + 1 + r /\ x <= Len(bytes) + 1
  BY <1>1, <1>4
<1> HIDE DEF x, r
<1>7. x \in p + 1..Len(bytes) + 1
  <2> DEFINE n == Len(bytes)
  <2>1. n \in Nat /\ p + 7 <= n /\ x <= n + 1 /\ l \in Nat /\ r \in 0..1
        /\ x = (IF p + 7 + l <= n THEN p + 7 + l ELSE n) + 1 + r
    BY <1>1, <1>4, <1>5, <1>6
  <2> HIDE DEF n
  <2>2. x \in Int /\ x >= p + 1
    BY <2>1
  <2>3. x \in p + 1..n + 1
    BY <2>1, <2>2
  <2> QED BY <2>3 DEF n
<1> QED BY <1>7 DEF x

LEMMA BlocksInIs ==
    ASSUME NEW bytes \in Seq(Byte)
    PROVE  \E from : /\ BlocksFrom(from, bytes)
                     /\ BlocksIn(bytes) = IF HeaderFits(bytes) THEN from[13] ELSE NotRead
<1> DEFINE n == Len(bytes)
           Blocks == {BlockAt(bytes, p) : p \in 1..n}
           V == [ok : BOOLEAN, blocks : Seq(Blocks)]
           base == IF n + 1 > FileEnd(bytes) THEN AllRead ELSE NotRead
           next == [p \in 1..n |-> IF BlockFits(bytes, p) THEN AfterAt(bytes, p) ELSE n + 1]
           step(p, v) == IF p > FileEnd(bytes) THEN AllRead
                         ELSE IF ~BlockFits(bytes, p) THEN NotRead
                         ELSE WithBlock(BlockAt(bytes, p), v)
           G == [p \in 1..n |-> [v \in V |-> step(p, v)]]
           Is(from) == from = [p \in 1..(Len(bytes) + 1) |-> step(p, from[AfterAt(bytes, p)])]
<1>0. n \in Nat
  BY ElementOf
<1>1. AllRead \in V /\ NotRead \in V /\ base \in V
  BY DEF AllRead, NotRead
<1>2. \A p \in 1..n : \A v \in V : WithBlock(BlockAt(bytes, p), v) \in V
  <2> SUFFICES ASSUME NEW p \in 1..n, NEW v \in V PROVE WithBlock(BlockAt(bytes, p), v) \in V
    OBVIOUS
  <2> DEFINE x == BlockAt(bytes, p)
             one == <<x>>
  <2>1. x \in Blocks
    OBVIOUS
  <2>2. v.blocks \in Seq(Blocks) /\ v.ok \in BOOLEAN /\ v = [ok |-> v.ok, blocks |-> v.blocks]
    OBVIOUS
  <2> HIDE DEF x, Blocks
  <2>3. one \in Seq(Blocks)
    BY <2>1
  <2> HIDE DEF one
  <2>4. one \o v.blocks \in Seq(Blocks)
    BY <2>2, <2>3, Concat
  <2>5. WithBlock(x, v) = [ok |-> v.ok, blocks |-> one \o v.blocks]
    <3> DEFINE w == one \o v.blocks
    <3>1. WithBlock(x, v) = [v EXCEPT !.blocks = w]
      BY Zenon DEF WithBlock, one
    <3> HIDE DEF w
    <3>2. [v EXCEPT !.blocks = w] = [ok |-> v.ok, blocks |-> w]
      OBVIOUS
    <3> QED BY <3>1, <3>2 DEF w
  <2>6. [ok |-> v.ok, blocks |-> one \o v.blocks] \in V
    <3> DEFINE w == one \o v.blocks
    <3>1. w \in Seq(Blocks) /\ v.ok \in BOOLEAN
      BY <2>2, <2>4
    <3> HIDE DEF w, one
    <3>2. [ok |-> v.ok, blocks |-> w] \in V
      BY <3>1
    <3> QED BY <3>2, Zenon DEF w
  <2>7. WithBlock(x, v) \in V
    BY <2>5, <2>6, Zenon
  <2> QED BY <2>7, Zenon DEF x
<1>3. \A p \in 1..n : next[p] \in p + 1..n + 1
  <2> SUFFICES ASSUME NEW p \in 1..n PROVE next[p] \in p + 1..n + 1
    OBVIOUS
  <2>1. CASE BlockFits(bytes, p)
    BY <2>1, BlockEndsAfter
  <2>2. CASE ~BlockFits(bytes, p)
    BY <1>0, <2>2
  <2> QED BY <2>1, <2>2
<1>4. \A p \in 1..n : \A v \in V : G[p][v] = step(p, v)
  <2> HIDE DEF V, step
  <2> QED OBVIOUS
<1>n. \A p \in 1..n : BlockFits(bytes, p) => next[p] = AfterAt(bytes, p)
  OBVIOUS
<1>s. \A p \in 1..n : \A v \in V : step(p, v) \in V
  <2> HIDE DEF V
  <2> QED BY <1>1, <1>2
<1> HIDE DEF V, base, next
<1>5. G \in [1..n -> [V -> V]]
  <2> HIDE DEF step
  <2> QED BY <1>s
<1> HIDE DEF G, n
<1>6. PICK f : Jumps(f, n, V, base, next, G)
  BY <1>0, <1>1, <1>3, <1>5, JumpsExist
<1>7. f \in [1..n + 1 -> V] /\ f[n + 1] = base /\ \A p \in 1..n : f[p] = G[p][f[next[p]]]
  BY <1>6 DEF Jumps
<1>8. ASSUME NEW p \in 1..n + 1
      PROVE  f[p] = step(p, f[AfterAt(bytes, p)])
  <2>1. CASE p = n + 1
    <3>1. ~(p + 7 <= n)
      BY <1>0, <2>1
    <3>2. ~BlockFits(bytes, p)
      BY <3>1 DEF BlockFits, n
    <3> QED BY <1>7, <2>1, <3>2, Zenon DEF base
  <2>2. CASE p # n + 1
    <3>1. p \in 1..n
      BY <1>0, <2>2
    <3>2. next[p] \in 1..n + 1
      BY <1>0, <1>3, <3>1
    <3>3. f[next[p]] \in V
      BY <1>7, <3>2
    <3>4. f[p] = step(p, f[next[p]])
      <4> HIDE DEF step
      <4> QED BY <1>4, <1>7, <3>1, <3>3
    <3> QED BY <1>n, <3>1, <3>4, Zenon
  <2> QED BY <2>1, <2>2
<1>9. Is(f)
  <2> HIDE DEF step
  <2>1. f = [p \in 1..(n + 1) |-> f[p]]
    BY <1>7
  <2>2. f = [p \in 1..(n + 1) |-> step(p, f[AfterAt(bytes, p)])]
    BY <1>8, <2>1
  <2> QED BY <2>2 DEF n
<1>10. \E from : Is(from) /\ BlocksIn(bytes) = IF HeaderFits(bytes) THEN from[13] ELSE NotRead
  <2> DEFINE end == IF At4(bytes, 5) > 2^30 + (2^30 - 9) THEN 0 ELSE 8 + At4(bytes, 5)
             length(p) == At4(bytes, p + 4)
             dataEnd(p) == IF p + 7 + length(p) <= Len(bytes) THEN p + 7 + length(p) ELSE Len(bytes)
             after(p) == dataEnd(p) + 1 + (length(p) % 2)
             fits(p) == p + 7 <= Len(bytes) /\ length(p) >= 0 /\ after(p) <= Len(bytes) + 1
             from[p \in 1..(Len(bytes) + 1)] ==
                IF p > end THEN [ok |-> TRUE, blocks |-> <<>>]
                ELSE IF ~fits(p) THEN [ok |-> FALSE, blocks |-> <<>>]
                ELSE LET block == Block(At4(bytes, p), SubSeq(bytes, p + 8, dataEnd(p)))
                     IN  [from[after(p)] EXCEPT !.blocks = <<block>> \o @]
  <2>1. BlocksIn(bytes) = IF HeaderFits(bytes) THEN from[13] ELSE NotRead
    BY Zenon DEF BlocksIn, HeaderFits, NotRead
  <2>2. f = [p \in 1..(Len(bytes) + 1) |->
                IF p > end THEN [ok |-> TRUE, blocks |-> <<>>]
                ELSE IF ~fits(p) THEN [ok |-> FALSE, blocks |-> <<>>]
                ELSE LET block == Block(At4(bytes, p), SubSeq(bytes, p + 8, dataEnd(p)))
                     IN  [f[after(p)] EXCEPT !.blocks = <<block>> \o @]]
    BY <1>9, Zenon DEF WithBlock, BlockAt, AfterAt, DataEndAt, FileEnd, BlockFits, AllRead, NotRead
  <2>3. from = [p \in 1..(Len(bytes) + 1) |->
                IF p > end THEN [ok |-> TRUE, blocks |-> <<>>]
                ELSE IF ~fits(p) THEN [ok |-> FALSE, blocks |-> <<>>]
                ELSE LET block == Block(At4(bytes, p), SubSeq(bytes, p + 8, dataEnd(p)))
                     IN  [from[after(p)] EXCEPT !.blocks = <<block>> \o @]]
    BY <2>2, Zenon
  <2> HIDE DEF from
  <2>4. Is(from)
    BY <2>3, Zenon DEF WithBlock, BlockAt, AfterAt, DataEndAt, FileEnd, BlockFits, AllRead, NotRead
  <2> QED BY <2>1, <2>4, Zenon
<1>11. PICK from : Is(from) /\ BlocksIn(bytes) = IF HeaderFits(bytes) THEN from[13] ELSE NotRead
  BY <1>10
<1>12. \A p \in 1..Len(bytes) + 1 : from[p] = step(p, from[AfterAt(bytes, p)])
  <2> HIDE DEF step
  <2> QED BY <1>11, Zenon
<1>13. BlocksFrom(from, bytes)
  BY <1>12, Zenon DEF BlocksFrom
<1> QED BY <1>11, <1>13, Zenon

(* part lies in bytes after the first o of them. *)
LiesIn(bytes, o, part) ==
    o + Len(part) <= Len(bytes) /\ \A j \in 1..Len(part) : bytes[o + j] = part[j]

LEMMA FourAt ==
    ASSUME NEW bytes, NEW o \in Nat, NEW x \in Nat, x < 128 * 2^24,
           LiesIn(bytes, o, Bytes4(x))
    PROVE  At4(bytes, o + 1) = x
<1> DEFINE b == Bytes4(x)
<1>1. /\ b \in Seq(Byte) /\ Len(b) = 4 /\ b[1] < 128
      /\ 2^24 * b[1] + 2^16 * b[2] + 2^8 * b[3] + b[4] = x
  BY FourBytes
<1>2. \A j \in 1..Len(b) : bytes[o + j] = b[j]
  BY DEF LiesIn
<1> HIDE DEF b
<1>3. bytes[o + 1] = b[1] /\ bytes[o + 2] = b[2] /\ bytes[o + 3] = b[3] /\ bytes[o + 4] = b[4]
  BY <1>1, <1>2
<1>4. (o + 1) + 1 = o + 2 /\ (o + 1) + 2 = o + 3 /\ (o + 1) + 3 = o + 4
  OBVIOUS
<1>5. At4(bytes, o + 1) = 2^24 * bytes[o + 1] + 2^16 * bytes[(o + 1) + 1]
                              + 2^8 * bytes[(o + 1) + 2] + bytes[(o + 1) + 3]
  <2>1. bytes[o + 1] < 128
    BY <1>1, <1>3
  <2> QED BY <2>1, Zenon DEF At4
<1>6. At4(bytes, o + 1) = 2^24 * b[1] + 2^16 * b[2] + 2^8 * b[3] + b[4]
  BY <1>3, <1>4, <1>5, Zenon
<1> QED BY <1>1, <1>6

LEMMA PaddingIs ==
    ASSUME NEW data \in Seq(Byte)
    PROVE  Padding(data) \in Seq(Byte) /\ Len(Padding(data)) = Len(data) % 2
<1>1. Len(data) \in Nat
  BY ElementOf
<1>2. 0 \in Byte
  BY ByteIs
<1>3. CASE Len(data) % 2 = 1
  <2>1. <<0>> \in Seq(Byte) /\ Len(<<0>>) = 1
    BY <1>2
  <2> QED BY <1>3, <2>1 DEF Padding
<1>4. CASE Len(data) % 2 # 1
  <2>1. Len(data) % 2 = 0
    BY <1>1, <1>4
  <2>2. <<>> \in Seq(Byte) /\ Len(<<>>) = 0
    OBVIOUS
  <2> QED BY <1>4, <2>1, <2>2 DEF Padding
<1> QED BY <1>3, <1>4

(* A block that a file can hold. *)
FileBlock == [type : {n \in Nat : n < 128 * 2^24},
              data : {data \in Seq(Byte) : Len(data) < 128 * 2^24}]

LEMMA BlockWritten ==
    ASSUME NEW block \in FileBlock
    PROVE  LET b == BlockBytes(block)
               l == Len(block.data)
           IN  /\ b \in Seq(Byte) /\ l \in Nat /\ Len(b) = 8 + l + (l % 2)
               /\ LiesIn(b, 0, Bytes4(block.type)) /\ LiesIn(b, 4, Bytes4(l))
               /\ LiesIn(b, 8, block.data)
<1> DEFINE l == Len(block.data)
           c1 == Bytes4(block.type)
           c2 == Bytes4(l)
           c3 == block.data
           c4 == Padding(c3)
           d2 == c1 \o c2
           d3 == d2 \o c3
           d4 == d3 \o c4
           b == BlockBytes(block)
<1>1. block.type \in Nat /\ block.type < 128 * 2^24 /\ c3 \in Seq(Byte) /\ l < 128 * 2^24
  BY DEF FileBlock
<1>2. l \in Nat
  BY <1>1, ElementOf
<1>3. c1 \in Seq(Byte) /\ Len(c1) = 4
  BY <1>1, FourBytes
<1>4. c2 \in Seq(Byte) /\ Len(c2) = 4
  <2> HIDE DEF l
  <2> QED BY <1>1, <1>2, FourBytes
<1>5. c4 \in Seq(Byte) /\ Len(c4) = l % 2
  BY <1>1, PaddingIs
<1>6. b = d4
  BY Zenon DEF BlockBytes
<1>l. l = Len(c3)
  OBVIOUS
<1> HIDE DEF c1, c2, c3, c4, l, b
<1>7. d2 \in Seq(Byte) /\ Len(d2) = 8 /\ LiesIn(d2, 0, c1) /\ LiesIn(d2, 4, c2)
  <2>1. /\ c1 \o c2 \in Seq(Byte) /\ Len(c1 \o c2) = Len(c1) + Len(c2)
        /\ \A i \in 1..Len(c1) : (c1 \o c2)[i] = c1[i]
        /\ \A i \in 1..Len(c2) : (c1 \o c2)[Len(c1) + i] = c2[i]
    <3>1. c1 \in Seq(Byte) /\ c2 \in Seq(Byte)
      BY <1>3, <1>4
    <3> QED BY <3>1, Concat
  <2> HIDE DEF d2
  <2>2. /\ d2 \in Seq(Byte) /\ Len(d2) = 8
        /\ \A i \in 1..4 : d2[i] = c1[i] /\ d2[4 + i] = c2[i]
    BY <1>3, <1>4, <2>1 DEF d2
  <2>3. \A i \in 1..4 : 0 + i = i
    OBVIOUS
  <2> QED BY <1>3, <1>4, <2>2, <2>3 DEF LiesIn
<1> HIDE DEF d2
<1>8. /\ d3 \in Seq(Byte) /\ Len(d3) = 8 + l /\ \A i \in 1..8 : d3[i] = d2[i]
      /\ \A i \in 1..l : d3[8 + i] = c3[i]
  <2>1. /\ d2 \o c3 \in Seq(Byte) /\ Len(d2 \o c3) = Len(d2) + Len(c3)
        /\ \A i \in 1..Len(d2) : (d2 \o c3)[i] = d2[i]
        /\ \A i \in 1..Len(c3) : (d2 \o c3)[Len(d2) + i] = c3[i]
    <3>1. d2 \in Seq(Byte) /\ c3 \in Seq(Byte)
      BY <1>1, <1>7 DEF c3
    <3> QED BY <3>1, Concat
  <2> QED BY <1>7, <1>l, <2>1
<1> HIDE DEF d3
<1>9. /\ d4 \in Seq(Byte) /\ Len(d4) = 8 + l + (l % 2)
      /\ \A i \in 1..8 + l : d4[i] = d3[i]
  <2>1. /\ d3 \o c4 \in Seq(Byte) /\ Len(d3 \o c4) = Len(d3) + Len(c4)
        /\ \A i \in 1..Len(d3) : (d3 \o c4)[i] = d3[i]
    <3>1. d3 \in Seq(Byte) /\ c4 \in Seq(Byte)
      BY <1>5, <1>8
    <3> QED BY <3>1, Concat
  <2> DEFINE r == l % 2
  <2>2. Len(c4) = r /\ r \in Nat
    BY <1>2, <1>5
  <2> HIDE DEF r
  <2> QED BY <1>2, <1>8, <2>1, <2>2 DEF r
<1> HIDE DEF d4
<1>10. b \in Seq(Byte) /\ Len(b) = 8 + l + (l % 2) /\ Len(b) \in Nat /\ 8 + l <= Len(b)
  <2>1. l % 2 \in Nat
    BY <1>2
  <2> DEFINE r == l % 2
  <2>2. Len(b) = 8 + l + r /\ r \in Nat
    BY <1>6, <1>9, <2>1
  <2> HIDE DEF r
  <2>3. Len(b) \in Nat /\ 8 + l <= Len(b)
    BY <1>2, <2>2
  <2> QED BY <1>6, <1>9, <2>3
<1>11. \A i \in 1..8 : b[i] = d2[i]
  <2>1. \A i \in 1..8 : i \in 1..8 + l
    BY <1>2
  <2> QED BY <1>6, <1>8, <1>9, <2>1
<1>12. \A i \in 1..l : b[8 + i] = c3[i]
  <2>1. \A i \in 1..l : 8 + i \in 1..8 + l
    BY <1>2
  <2> QED BY <1>6, <1>8, <1>9, <2>1
<1>13. LiesIn(b, 0, c1)
  <2>1. \A i \in 1..4 : d2[0 + i] = c1[i]
    BY <1>3, <1>7 DEF LiesIn
  <2>2. \A i \in 1..4 : 0 + i = i /\ i \in 1..8
    OBVIOUS
  <2>3. 0 + 4 <= Len(b)
    BY <1>2, <1>10
  <2> QED BY <1>3, <1>11, <2>1, <2>2, <2>3 DEF LiesIn
<1>14. LiesIn(b, 4, c2)
  <2>1. \A i \in 1..4 : d2[4 + i] = c2[i]
    BY <1>4, <1>7 DEF LiesIn
  <2>2. \A i \in 1..4 : 4 + i \in 1..8
    OBVIOUS
  <2>3. 4 + 4 <= Len(b)
    BY <1>2, <1>10
  <2> QED BY <1>4, <1>11, <2>1, <2>2, <2>3 DEF LiesIn
<1>15. LiesIn(b, 8, c3)
  BY <1>10, <1>12, <1>l DEF LiesIn
<1> QED BY <1>2, <1>10, <1>13, <1>14, <1>15, Zenon DEF b, l, c1, c2, c3

LEMMA LiesInLying ==
    ASSUME NEW bytes \in Seq(Byte), NEW o \in Nat, NEW b \in Seq(Byte), NEW q \in Nat,
           NEW part \in Seq(Byte), LiesIn(bytes, o, b), LiesIn(b, q, part)
    PROVE  LiesIn(bytes, o + q, part)
<1>1. /\ Len(bytes) \in Nat /\ Len(b) \in Nat /\ Len(part) \in Nat
      /\ o + Len(b) <= Len(bytes) /\ q + Len(part) <= Len(b)
      /\ \A j \in 1..Len(b) : bytes[o + j] = b[j]
      /\ \A j \in 1..Len(part) : b[q + j] = part[j]
  BY ElementOf DEF LiesIn
<1>2. (o + q) + Len(part) <= Len(bytes)
  BY <1>1
<1>3. ASSUME NEW j \in 1..Len(part) PROVE bytes[(o + q) + j] = part[j]
  <2>1. q + j \in 1..Len(b) /\ o + (q + j) = (o + q) + j
    BY <1>1
  <2> QED BY <1>1, <2>1
<1> QED BY <1>2, <1>3 DEF LiesIn

LEMMA BlockRead ==
    ASSUME NEW block \in FileBlock, NEW bytes \in Seq(Byte), NEW o \in Nat,
           LiesIn(bytes, o, BlockBytes(block))
    PROVE  /\ BlockFits(bytes, o + 1)
           /\ AfterAt(bytes, o + 1) = (o + Len(BlockBytes(block))) + 1
           /\ BlockAt(bytes, o + 1) = block
<1> DEFINE b == BlockBytes(block)
           l == Len(block.data)
           t == block.type
           data == block.data
           c1 == Bytes4(t)
           c2 == Bytes4(l)
<1>1. /\ t \in Nat /\ t < 128 * 2^24 /\ l < 128 * 2^24 /\ data \in Seq(Byte)
      /\ block = [type |-> t, data |-> data]
  BY DEF FileBlock
<1>2. /\ b \in Seq(Byte) /\ l \in Nat /\ Len(b) = 8 + l + (l % 2)
      /\ LiesIn(b, 0, c1) /\ LiesIn(b, 4, c2) /\ LiesIn(b, 8, data)
  BY BlockWritten, Zenon
<1>3. LiesIn(bytes, o, b)
  OBVIOUS
<1>l. l = Len(data)
  OBVIOUS
<1>c. c1 \in Seq(Byte) /\ c2 \in Seq(Byte)
  <2>1. c1 \in Seq(Byte)
    BY <1>1, FourBytes
  <2> HIDE DEF l
  <2>2. c2 \in Seq(Byte)
    BY <1>1, <1>2, FourBytes
  <2> QED BY <2>1, <2>2
<1> HIDE DEF b, l, t, data
<1>4. At4(bytes, o + 1) = t
  <2>1. LiesIn(bytes, o + 0, c1)
    <3>1. 0 \in Nat
      OBVIOUS
    <3> HIDE DEF c1
    <3> QED BY <1>2, <1>3, <1>c, <3>1, LiesInLying
  <2>2. o + 0 = o
    OBVIOUS
  <2> QED BY <1>1, <2>1, <2>2, FourAt
<1>5. At4(bytes, (o + 1) + 4) = l
  <2>1. LiesIn(bytes, o + 4, c2)
    <3>1. 4 \in Nat
      OBVIOUS
    <3> HIDE DEF c2
    <3> QED BY <1>2, <1>3, <1>c, <3>1, LiesInLying
  <2>2. o + 4 \in Nat /\ (o + 4) + 1 = (o + 1) + 4
    OBVIOUS
  <2>3. At4(bytes, (o + 4) + 1) = l
    BY <1>1, <1>2, <2>1, <2>2, FourAt
  <2> QED BY <2>2, <2>3
<1>6. /\ LiesIn(bytes, o + 8, data) /\ o + 8 \in Nat
      /\ (o + 8) + l <= Len(bytes) /\ Len(bytes) \in Nat
      /\ \A j \in 1..l : bytes[(o + 8) + j] = data[j]
  <2>1. 8 \in Nat /\ o + 8 \in Nat
    OBVIOUS
  <2>2. LiesIn(bytes, o + 8, data)
    BY <1>1, <1>2, <1>3, <2>1, LiesInLying
  <2>3. Len(bytes) \in Nat
    BY ElementOf
  <2> QED BY <1>l, <2>1, <2>2, <2>3 DEF LiesIn
<1>7. DataEndAt(bytes, o + 1) = o + 8 + l
  <2>1. (o + 1) + 7 + l = o + 8 + l /\ o + 8 + l <= Len(bytes)
    BY <1>2, <1>6
  <2> QED BY <1>5, <2>1 DEF DataEndAt
<1> DEFINE r == l % 2
<1>8. r \in Nat /\ Len(b) = 8 + l + r
  BY <1>2
<1>9. AfterAt(bytes, o + 1) = (o + 8 + l) + 1 + r
  BY <1>5, <1>7 DEF AfterAt
<1> HIDE DEF r
<1>10. AfterAt(bytes, o + 1) = (o + Len(b)) + 1
  BY <1>2, <1>8, <1>9
<1>11. o + Len(b) <= Len(bytes)
  BY <1>3 DEF LiesIn
<1>12. BlockFits(bytes, o + 1)
  <2> DEFINE n == Len(bytes)
             m == Len(b)
             x == AfterAt(bytes, o + 1)
  <2>1. n \in Nat /\ m = 8 + l + r /\ x = (o + m) + 1 /\ o + m <= n
    BY <1>6, <1>8, <1>10, <1>11
  <2> HIDE DEF n, m, x
  <2>2. (o + 1) + 7 <= n /\ x <= n + 1
    BY <1>2, <1>8, <2>1
  <2>3. At4(bytes, (o + 1) + 4) >= 0
    BY <1>2, <1>5
  <2> QED BY <2>2, <2>3 DEF n, x, BlockFits
<1>13. SubSeq(bytes, (o + 1) + 8, DataEndAt(bytes, o + 1)) = data
  <2> DEFINE q == o + 8
  <2>1. q \in Nat /\ q + Len(data) <= Len(bytes) /\ \A j \in 1..Len(data) : bytes[q + j] = data[j]
    BY <1>6, <1>l
  <2> HIDE DEF q
  <2>2. SubSeq(bytes, q + 1, q + Len(data)) = data
    BY <1>1, <2>1, PartIs
  <2>3. q + 1 = (o + 1) + 8 /\ q + Len(data) = DataEndAt(bytes, o + 1)
    BY <1>2, <1>7, <1>l DEF q
  <2> QED BY <2>2, <2>3
<1>14. BlockAt(bytes, o + 1) = block
  BY <1>1, <1>4, <1>13, Zenon DEF BlockAt, Block
<1> QED BY <1>10, <1>12, <1>14 DEF b

LEMMA WithBlocks ==
    ASSUME NEW b \in BOOLEAN, NEW s, NEW t
    PROVE  [[ok |-> b, blocks |-> s] EXCEPT !.blocks = t] = [ok |-> b, blocks |-> t]
OBVIOUS

LEMMA BlockInFront ==
    ASSUME NEW n \in Nat, NEW g, NEW k \in 1..n
    PROVE  WithBlock(g[k], [ok |-> TRUE, blocks |-> [i \in 1..(n - k) |-> g[k + i]]])
               = [ok |-> TRUE, blocks |-> [i \in 1..(n - (k - 1)) |-> g[(k - 1) + i]]]
<1> DEFINE t == [i \in 1..(n - k) |-> g[k + i]]
           u == [i \in 1..(n - (k - 1)) |-> g[(k - 1) + i]]
           v == <<g[k]>> \o t
<1>1. v = u
  <2> DEFINE one == Added(g[k], [ok |-> TRUE, parts |-> t])
             more == [ok |-> TRUE, parts |-> u]
  <2>1. one = more
    BY AddedInFront
  <2>2. one.parts = v
    BY DEF Added
  <2>3. more.parts = u
    OBVIOUS
  <2> HIDE DEF one, more, t, u, v
  <2> QED BY <2>1, <2>2, <2>3
<1>2. WithBlock(g[k], [ok |-> TRUE, blocks |-> t]) = [ok |-> TRUE, blocks |-> v]
  <2> DEFINE r == [ok |-> TRUE, blocks |-> t]
  <2>1. r.blocks = t
    OBVIOUS
  <2>2. WithBlock(g[k], r) = [r EXCEPT !.blocks = v]
    BY <2>1, Zenon DEF WithBlock
  <2>3. [[ok |-> TRUE, blocks |-> t] EXCEPT !.blocks = v] = [ok |-> TRUE, blocks |-> v]
    BY WithBlocks
  <2> QED BY <2>2, <2>3, Zenon
<1> QED BY <1>1, <1>2, Zenon

LEMMA TypeIds ==
    /\ FORM \in Nat /\ FORM < 128 * 2^24 /\ IFZS \in Nat /\ IFZS < 128 * 2^24
    /\ IFhd \in Nat /\ IFhd < 128 * 2^24 /\ CMem \in Nat /\ CMem < 128 * 2^24
    /\ UMem \in Nat /\ UMem < 128 * 2^24 /\ Stks \in Nat /\ Stks < 128 * 2^24
    /\ CMem # IFhd /\ Stks # IFhd /\ Stks # CMem
<1>1. /\ FORM = 16777216 * 70 + 65536 * 79 + 256 * 82 + 77
      /\ IFZS = 16777216 * 73 + 65536 * 70 + 256 * 90 + 83
  BY Powers DEF FORM, IFZS, StringToTypeID, At4
<1>2. /\ IFhd = 16777216 * 73 + 65536 * 70 + 256 * 104 + 100
      /\ CMem = 16777216 * 67 + 65536 * 77 + 256 * 101 + 109
  BY Powers DEF IFhd, CMem, StringToTypeID, At4
<1>3. /\ UMem = 16777216 * 85 + 65536 * 77 + 256 * 101 + 109
      /\ Stks = 16777216 * 83 + 65536 * 116 + 256 * 107 + 115
  BY Powers DEF UMem, Stks, StringToTypeID, At4
<1> QED BY <1>1, <1>2, <1>3, Powers

(* A file with these bytes after its header. *)
FileOf(flat) == Bytes4(FORM) \o Bytes4(4 + Len(flat)) \o Bytes4(IFZS) \o flat

LEMMA FileOfIs ==
    ASSUME NEW flat \in Seq(Byte), 4 + Len(flat) < 127 * 2^24
    PROVE  LET bytes == FileOf(flat)
           IN  /\ bytes \in Seq(Byte) /\ Len(bytes) = 12 + Len(flat)
               /\ At4(bytes, 5) = 4 + Len(flat)
               /\ HeaderFits(bytes) /\ FileEnd(bytes) = Len(bytes)
               /\ LiesIn(bytes, 12, flat)
<1> DEFINE x == 4 + Len(flat)
           c1 == Bytes4(FORM)
           c2 == Bytes4(x)
           c3 == Bytes4(IFZS)
           d2 == c1 \o c2
           d3 == d2 \o c3
           bytes == d3 \o flat
<1>1. Len(flat) \in Nat /\ x \in Nat /\ x < 128 * 2^24
  BY ElementOf
<1>2. c1 \in Seq(Byte) /\ Len(c1) = 4
  BY TypeIds, FourBytes
<1>3. c3 \in Seq(Byte) /\ Len(c3) = 4
  BY TypeIds, FourBytes
<1>4. c2 \in Seq(Byte) /\ Len(c2) = 4
  <2> HIDE DEF x
  <2> QED BY <1>1, FourBytes
<1> HIDE DEF c1, c2, c3
<1>5. /\ d2 \in Seq(Byte) /\ Len(d2) = 8
      /\ \A i \in 1..4 : d2[i] = c1[i] /\ d2[4 + i] = c2[i]
  <2>1. c1 \in Seq(Byte) /\ c2 \in Seq(Byte)
    BY <1>2, <1>4
  <2>2. /\ c1 \o c2 \in Seq(Byte) /\ Len(c1 \o c2) = Len(c1) + Len(c2)
        /\ \A i \in 1..Len(c1) : (c1 \o c2)[i] = c1[i]
        /\ \A i \in 1..Len(c2) : (c1 \o c2)[Len(c1) + i] = c2[i]
    BY <2>1, Concat
  <2> HIDE DEF d2
  <2> QED BY <1>2, <1>4, <2>2 DEF d2
<1> HIDE DEF d2
<1>6. /\ d3 \in Seq(Byte) /\ Len(d3) = 12 /\ \A i \in 1..8 : d3[i] = d2[i]
      /\ \A i \in 1..4 : d3[8 + i] = c3[i]
  <2>1. d2 \in Seq(Byte) /\ c3 \in Seq(Byte)
    BY <1>3, <1>5
  <2>2. /\ d2 \o c3 \in Seq(Byte) /\ Len(d2 \o c3) = Len(d2) + Len(c3)
        /\ \A i \in 1..Len(d2) : (d2 \o c3)[i] = d2[i]
        /\ \A i \in 1..Len(c3) : (d2 \o c3)[Len(d2) + i] = c3[i]
    BY <2>1, Concat
  <2>3. d3 \in Seq(Byte) /\ Len(d3) = Len(d2) + Len(c3)
    BY <2>2
  <2>4. \A i \in 1..8 : d3[i] = d2[i]
    BY <1>5, <2>2
  <2>5. \A i \in 1..4 : d3[8 + i] = c3[i]
    BY <1>3, <1>5, <2>2
  <2> HIDE DEF d3
  <2> QED BY <1>3, <1>5, <2>3, <2>4, <2>5
<1> HIDE DEF d3
<1>7. /\ bytes \in Seq(Byte) /\ Len(bytes) = 12 + Len(flat) /\ \A i \in 1..12 : bytes[i] = d3[i]
      /\ \A i \in 1..Len(flat) : bytes[12 + i] = flat[i]
  <2>1. d3 \in Seq(Byte) /\ flat \in Seq(Byte)
    BY <1>6
  <2>2. /\ d3 \o flat \in Seq(Byte) /\ Len(d3 \o flat) = Len(d3) + Len(flat)
        /\ \A i \in 1..Len(d3) : (d3 \o flat)[i] = d3[i]
        /\ \A i \in 1..Len(flat) : (d3 \o flat)[Len(d3) + i] = flat[i]
    BY <2>1, Concat
  <2> QED BY <1>6, <2>2
<1>8. bytes = FileOf(flat)
  BY Zenon DEF FileOf, bytes, d3, d2, c1, c2, c3
<1> HIDE DEF bytes
<1>9. Len(bytes) \in Nat /\ Len(bytes) >= 12
  BY <1>1, <1>7
<1>10. LiesIn(bytes, 0, c1)
  <2>1. \A i \in 1..4 : 0 + i = i /\ i \in 1..8 /\ i \in 1..12
    OBVIOUS
  <2>2. ASSUME NEW i \in 1..4 PROVE bytes[0 + i] = c1[i]
    <3>1. bytes[i] = d3[i]
      BY <1>7, <2>1
    <3>2. d3[i] = d2[i]
      BY <1>6, <2>1
    <3>3. d2[i] = c1[i]
      BY <1>5
    <3>4. 0 + i = i
      BY <2>1
    <3> QED BY <3>1, <3>2, <3>3, <3>4, Zenon
  <2>3. 0 + 4 <= Len(bytes)
    BY <1>9
  <2> QED BY <1>2, <2>2, <2>3 DEF LiesIn
<1>11. LiesIn(bytes, 4, c2)
  <2>1. \A i \in 1..4 : 4 + i \in 1..8 /\ 4 + i \in 1..12
    OBVIOUS
  <2>2. \A i \in 1..4 : bytes[4 + i] = c2[i]
    BY <1>5, <1>6, <1>7, <2>1
  <2>3. 4 + 4 <= Len(bytes)
    BY <1>9
  <2> QED BY <1>4, <2>2, <2>3 DEF LiesIn
<1>12. LiesIn(bytes, 8, c3)
  <2>1. \A i \in 1..4 : 8 + i \in 1..12
    OBVIOUS
  <2>2. \A i \in 1..4 : bytes[8 + i] = c3[i]
    BY <1>6, <1>7, <2>1
  <2>3. 8 + 4 <= Len(bytes)
    BY <1>9
  <2> QED BY <1>3, <2>2, <2>3 DEF LiesIn
<1>13. At4(bytes, 1) = FORM
  <2>1. 0 \in Nat /\ 0 + 1 = 1
    OBVIOUS
  <2>2. At4(bytes, 0 + 1) = FORM
    BY <1>10, <2>1, TypeIds, FourAt DEF c1
  <2> QED BY <2>1, <2>2
<1>14. At4(bytes, 9) = IFZS
  <2>1. 8 \in Nat /\ 8 + 1 = 9
    OBVIOUS
  <2>2. At4(bytes, 8 + 1) = IFZS
    BY <1>12, <2>1, TypeIds, FourAt DEF c3
  <2> QED BY <2>1, <2>2
<1>15. At4(bytes, 5) = 4 + Len(flat)
  <2>1. 4 \in Nat /\ 4 + 1 = 5
    OBVIOUS
  <2>2. At4(bytes, 4 + 1) = x
    <3> HIDE DEF x
    <3> QED BY <1>1, <1>11, <2>1, FourAt DEF c2
  <2> QED BY <2>1, <2>2
<1>16. HeaderFits(bytes)
  BY <1>9, <1>13, <1>14 DEF HeaderFits
<1>17. FileEnd(bytes) = Len(bytes)
  <2>1. 8 + (4 + Len(flat)) = 12 + Len(flat)
    BY <1>1
  <2>2. 127 * 2^24 <= 2^30 + (2^30 - 9)
    BY Powers
  <2>3. ~(4 + Len(flat) > 2^30 + (2^30 - 9))
    BY <1>1, <2>2
  <2> QED BY <1>7, <1>15, <2>1, <2>3 DEF FileEnd
<1>18. LiesIn(bytes, 12, flat)
  BY <1>1, <1>7 DEF LiesIn
<1> QED BY <1>7, <1>8, <1>15, <1>16, <1>17, <1>18

WrittenBlocks(bs, n) == [i \in 1..n |-> BlockBytes(bs[i])]

LEMMA BlocksAgain ==
    ASSUME NEW n \in Nat, NEW bs \in [1..n -> FileBlock],
           4 + Len(FlattenSeq(WrittenBlocks(bs, n))) < 127 * 2^24
    PROVE  /\ FlattenSeq(WrittenBlocks(bs, n)) \in Seq(Byte)
           /\ BlocksIn(FileOf(FlattenSeq(WrittenBlocks(bs, n)))) = [ok |-> TRUE, blocks |-> bs]
<1> DEFINE z == WrittenBlocks(bs, n)
           flat == FlattenSeq(z)
           bytes == FileOf(flat)
           Tail1(k) == [ok |-> TRUE, blocks |-> [i \in 1..(n - k) |-> bs[k + i]]]
<1>1. \A i \in 1..n : z[i] = BlockBytes(bs[i])
  BY Zenon DEF WrittenBlocks
<1>2. z \in [1..n -> Seq(Byte)]
  <2>1. \A i \in 1..n : BlockBytes(bs[i]) \in Seq(Byte)
    <3> SUFFICES ASSUME NEW i \in 1..n PROVE BlockBytes(bs[i]) \in Seq(Byte)
      OBVIOUS
    <3>1. bs[i] \in FileBlock
      OBVIOUS
    <3> QED BY <3>1, BlockWritten, Zenon
  <2> QED BY <2>1 DEF WrittenBlocks
<1>3. 4 + Len(flat) < 127 * 2^24
  OBVIOUS
<1> HIDE DEF z
<1>4. PICK off : LiesAt(flat, z, n, off, Byte)
  BY <1>2, FlattenPlaces
<1> HIDE DEF flat
<1>5. /\ off \in [0..n -> Nat] /\ off[0] = 0
      /\ \A k \in 1..n : off[k] = off[k - 1] + Len(z[k])
      /\ flat \in Seq(Byte)
      /\ Len(flat) = off[n]
      /\ \A k \in 1..n : \A j \in 1..Len(z[k]) : flat[off[k - 1] + j] = z[k][j]
  BY <1>4 DEF LiesAt
<1>6. \A k \in 1..n : off[k] <= Len(flat)
  BY <1>2, <1>4, LiesBelow
<1>7. /\ bytes \in Seq(Byte) /\ Len(bytes) = 12 + Len(flat)
      /\ HeaderFits(bytes) /\ FileEnd(bytes) = Len(bytes)
      /\ LiesIn(bytes, 12, flat)
  BY <1>3, <1>5, FileOfIs
<1> HIDE DEF bytes
<1>8. PICK from : /\ BlocksFrom(from, bytes)
                  /\ BlocksIn(bytes) = IF HeaderFits(bytes) THEN from[13] ELSE NotRead
  BY <1>7, BlocksInIs
<1> DEFINE T == {k \in 1..n + 1 : from[(12 + off[k - 1]) + 1] = Tail1(k - 1)}
<1>9. n + 1 \in T
  <2>1. from[Len(bytes) + 1] = AllRead
    <3>1. Len(bytes) \in Nat
      BY <1>5, <1>7
    <3>2. Len(bytes) + 1 \in 1..Len(bytes) + 1 /\ Len(bytes) + 1 > Len(bytes)
      BY <3>1
    <3>3. Len(bytes) + 1 > FileEnd(bytes)
      BY <1>7, <3>2
    <3> QED BY <1>8, <3>2, <3>3, Zenon DEF BlocksFrom
  <2>2. (n + 1) - 1 = n /\ n - n = 0 /\ n + 1 \in 1..n + 1
    OBVIOUS
  <2>3. [i \in 1..(n - n) |-> bs[n + i]] = <<>>
    BY <2>2
  <2>4. Tail1(n) = AllRead
    BY <2>3, Zenon DEF AllRead
  <2> HIDE DEF Tail1
  <2>5. from[(12 + off[n]) + 1] = Tail1(n)
    BY <1>5, <1>7, <2>1, <2>4
  <2> QED BY <2>2, <2>5
<1>10. ASSUME NEW k \in 1..n, \A j \in k + 1..n + 1 : j \in T PROVE k \in T
  <2> DEFINE q == off[k - 1]
             o == 12 + q
             b == BlockBytes(bs[k])
  <2>1. k + 1 \in k + 1..n + 1 /\ (k + 1) - 1 = k /\ k - 1 \in 0..n /\ k \in 1..n + 1
    OBVIOUS
  <2>2. from[(12 + off[k]) + 1] = Tail1(k)
    BY <1>10, <2>1
  <2> HIDE DEF Tail1
  <2>3. z[k] = b /\ bs[k] \in FileBlock
    BY <1>1
  <2>b. b \in Seq(Byte)
    BY <1>2, <2>3
  <2> HIDE DEF b
  <2>4. q \in Nat /\ off[k] = q + Len(b) /\ q + Len(b) <= Len(flat)
    BY <1>5, <1>6, <2>1, <2>3
  <2>5. \A j \in 1..Len(b) : flat[q + j] = b[j]
    BY <1>5, <2>3
  <2> HIDE DEF q
  <2>6. LiesIn(flat, q, b)
    BY <2>4, <2>5 DEF LiesIn
  <2>7. LiesIn(bytes, 12 + q, b)
    <3>1. 12 \in Nat
      OBVIOUS
    <3> QED BY <1>5, <1>7, <2>4, <2>6, <2>b, <3>1, LiesInLying
  <2>8. /\ BlockFits(bytes, o + 1) /\ AfterAt(bytes, o + 1) = (o + Len(b)) + 1
        /\ BlockAt(bytes, o + 1) = bs[k]
    <3>1. o \in Nat /\ LiesIn(bytes, o, b)
      BY <2>4, <2>7
    <3> HIDE DEF o
    <3> QED BY <1>7, <2>3, <3>1, BlockRead DEF b
  <2>9. o + 1 \in 1..Len(bytes) + 1 /\ ~(o + 1 > FileEnd(bytes))
    <3>1. (o + 1) + 7 <= Len(bytes) /\ Len(bytes) \in Nat
      BY <1>5, <1>7, <2>8 DEF BlockFits
    <3>2. o \in Nat
      BY <2>4
    <3> HIDE DEF o
    <3>3. ~(o + 1 > Len(bytes)) /\ o + 1 \in 1..Len(bytes) + 1
      BY <3>1, <3>2
    <3> QED BY <1>7, <3>3
  <2>10. from[o + 1] = WithBlock(bs[k], from[(12 + off[k]) + 1])
    <3>1. from[o + 1] = WithBlock(BlockAt(bytes, o + 1), from[AfterAt(bytes, o + 1)])
      BY <1>8, <2>8, <2>9, Zenon DEF BlocksFrom
    <3>2. Len(b) \in Nat
      BY <2>b, ElementOf
    <3>3. AfterAt(bytes, o + 1) = (12 + off[k]) + 1
      BY <2>4, <2>8, <3>2
    <3> QED BY <2>8, <3>1, <3>3
  <2>11. WithBlock(bs[k], Tail1(k)) = Tail1(k - 1)
    BY BlockInFront DEF Tail1
  <2>12. from[(12 + off[k - 1]) + 1] = Tail1(k - 1)
    BY <2>2, <2>10, <2>11 DEF q
  <2> QED BY <2>1, <2>12
<1> HIDE DEF T, Tail1
<1>11. \A k \in 1..n + 1 : k \in T
  BY <1>9, <1>10, InductionDown
<1>12. from[13] = Tail1(0)
  <2>1. 1 \in T
    BY <1>11
  <2>2. from[(12 + off[1 - 1]) + 1] = Tail1(1 - 1)
    BY <2>1 DEF T
  <2>3. (12 + off[1 - 1]) + 1 = 13 /\ 1 - 1 = 0
    BY <1>5
  <2> QED BY <2>2, <2>3
<1>13. Tail1(0) = [ok |-> TRUE, blocks |-> bs]
  <2>1. n - 0 = n /\ \A i \in 1..n : 0 + i = i
    OBVIOUS
  <2>2. [i \in 1..(n - 0) |-> bs[0 + i]] = [i \in 1..n |-> bs[i]]
    BY <2>1
  <2>3. [i \in 1..n |-> bs[i]] = bs
    OBVIOUS
  <2> QED BY <2>2, <2>3, Zenon DEF Tail1
<1> QED BY <1>5, <1>7, <1>8, <1>12, <1>13 DEF bytes, flat, z

(* A file that has been cut off is not read to its end. *)
LEMMA CutOff ==
    ASSUME NEW bytes \in Seq(Byte), NEW c \in Nat, c < Len(bytes),
           HeaderFits(bytes), FileEnd(bytes) = Len(bytes)
    PROVE  SubSeq(bytes, 1, c) \in Seq(Byte) /\ ~BlocksIn(SubSeq(bytes, 1, c)).ok
<1> DEFINE cut == SubSeq(bytes, 1, c)
<1>0. Len(bytes) \in Nat
  BY ElementOf
<1>1. cut \in Seq(Byte) /\ Len(cut) = c /\ \A i \in 1..c : cut[i] = bytes[i]
  <2>1. 1 \in Nat /\ 1 >= 1 /\ 1 <= c + 1 /\ c <= Len(bytes) /\ c + 1 - 1 = c
    BY <1>0
  <2>2. /\ SubSeq(bytes, 1, c) \in Seq(Byte)
        /\ Len(SubSeq(bytes, 1, c)) = c + 1 - 1
        /\ \A i \in 1..(c + 1 - 1) : SubSeq(bytes, 1, c)[i] = bytes[1 - 1 + i]
    BY <2>1, PartOf
  <2>3. \A i \in 1..c : 1 - 1 + i = i
    OBVIOUS
  <2> HIDE DEF cut
  <2> QED BY <2>1, <2>2, <2>3 DEF cut
<1> HIDE DEF cut
<1>2. PICK from : /\ BlocksFrom(from, cut)
                  /\ BlocksIn(cut) = IF HeaderFits(cut) THEN from[13] ELSE NotRead
  BY <1>1, BlocksInIs
<1>3. ~NotRead.ok
  BY DEF NotRead
<1>4. CASE ~HeaderFits(cut)
  BY <1>1, <1>2, <1>3, <1>4 DEF cut
<1>5. CASE HeaderFits(cut)
  <2>1. c >= 12
    BY <1>1, <1>5 DEF HeaderFits
  <2>2. At4(cut, 5) = At4(bytes, 5)
    <3>1. 5 \in 1..c /\ 5 + 1 \in 1..c /\ 5 + 2 \in 1..c /\ 5 + 3 \in 1..c
      BY <2>1
    <3>2. cut[5] = bytes[5] /\ cut[5 + 1] = bytes[5 + 1] /\ cut[5 + 2] = bytes[5 + 2]
          /\ cut[5 + 3] = bytes[5 + 3]
      BY <1>1, <3>1
    <3> QED BY <3>2, Zenon DEF At4
  <2>3. FileEnd(cut) = Len(bytes)
    BY <2>2 DEF FileEnd
  <2> DEFINE T == {p \in 1..c + 1 : \E s : from[p] = [ok |-> FALSE, blocks |-> s]}
  <2>4. ASSUME NEW p \in 1..c + 1
        PROVE  from[p] = IF ~BlockFits(cut, p) THEN NotRead
                         ELSE WithBlock(BlockAt(cut, p), from[AfterAt(cut, p)])
    <3>1. p \in 1..Len(cut) + 1
      BY <1>1
    <3>2. ~(p > FileEnd(cut))
      BY <1>0, <2>3
    <3> QED BY <1>2, <3>1, <3>2, Zenon DEF BlocksFrom
  <2>5. c + 1 \in T
    <3>1. c + 1 \in 1..c + 1 /\ ~((c + 1) + 7 <= c)
      OBVIOUS
    <3>2. ~BlockFits(cut, c + 1)
      BY <1>1, <3>1 DEF BlockFits
    <3>3. from[c + 1] = [ok |-> FALSE, blocks |-> <<>>]
      BY <2>4, <3>1, <3>2, Zenon DEF NotRead
    <3> QED BY <3>1, <3>3
  <2>6. ASSUME NEW p \in 1..c, \A j \in p + 1..c + 1 : j \in T PROVE p \in T
    <3>1. p \in 1..c + 1
      OBVIOUS
    <3>2. CASE ~BlockFits(cut, p)
      <4>1. from[p] = [ok |-> FALSE, blocks |-> <<>>]
        BY <2>4, <3>1, <3>2, Zenon DEF NotRead
      <4> QED BY <3>1, <4>1
    <3>3. CASE BlockFits(cut, p)
      <4>1. AfterAt(cut, p) \in p + 1..c + 1
        <5>1. p \in 1..Len(cut)
          BY <1>1
        <5> QED BY <1>1, <3>3, <5>1, BlockEndsAfter
      <4>2. PICK s : from[AfterAt(cut, p)] = [ok |-> FALSE, blocks |-> s]
        BY <2>6, <4>1
      <4> DEFINE r == [ok |-> FALSE, blocks |-> s]
                 v == <<BlockAt(cut, p)>> \o s
      <4>3. from[p] = WithBlock(BlockAt(cut, p), r)
        BY <2>4, <3>1, <3>3, <4>2, Zenon
      <4>4. r.blocks = s
        OBVIOUS
      <4>5. WithBlock(BlockAt(cut, p), r) = [r EXCEPT !.blocks = v]
        BY <4>4, Zenon DEF WithBlock
      <4>6. FALSE \in BOOLEAN
        OBVIOUS
      <4>7. [[ok |-> FALSE, blocks |-> s] EXCEPT !.blocks = v] = [ok |-> FALSE, blocks |-> v]
        BY <4>6, WithBlocks
      <4>8. from[p] = [ok |-> FALSE, blocks |-> v]
        BY <4>3, <4>5, <4>7, Zenon
      <4> HIDE DEF v
      <4> QED BY <3>1, <4>8
    <3> QED BY <3>2, <3>3
  <2> HIDE DEF T
  <2>7. \A p \in 1..c + 1 : p \in T
    BY <2>5, <2>6, InductionDown
  <2>8. 13 \in T
    BY <2>1, <2>7
  <2>9. PICK s : from[13] = [ok |-> FALSE, blocks |-> s]
    BY <2>8 DEF T
  <2>10. ~from[13].ok
    BY <2>9
  <2>11. BlocksIn(cut) = from[13]
    BY <1>2, <1>5
  <2> QED BY <1>1, <2>10, <2>11 DEF cut
<1> QED BY <1>4, <1>5

(* The first of three blocks is IFhd, so they are written in their order. *)
LEMMA ThreeInOrder ==
    ASSUME NEW bs, Len(bs) = 3, bs[1].type = IFhd, bs[2].type # IFhd, bs[3].type # IFhd
    PROVE  FileBytes(bs) = FileOf(FlattenSeq(WrittenBlocks(bs, 3)))
<1> DEFINE places == 1..Len(bs)
           IsFirst(i) == bs[i].type = IFhd
           Before(i, j) == IF IsFirst(i) = IsFirst(j) THEN i < j ELSE IsFirst(i)
           Sorted(s) == \A i, j \in places : i < j => Before(s[i], s[j])
           sorted == CHOOSE s \in [places -> places] : Sorted(s)
           data == FlattenSeq([i \in places |-> BlockBytes(bs[sorted[i]])])
           same == [i \in places |-> i]
<1>1. FileBytes(bs) = FileOf(data)
  BY Zenon DEF FileBytes, FileOf
<1>2. places = 1..3 /\ places = {1, 2, 3}
  OBVIOUS
<1>3. IsFirst(1) = TRUE /\ IsFirst(2) = FALSE /\ IsFirst(3) = FALSE
  OBVIOUS
<1> HIDE DEF places, IsFirst
<1>4. \A i, j \in places : Before(i, j) <=> i < j
  <2>1. ~(1 < 1) /\ 1 < 2 /\ 1 < 3 /\ ~(2 < 1) /\ ~(2 < 2) /\ 2 < 3
        /\ ~(3 < 1) /\ ~(3 < 2) /\ ~(3 < 3)
    OBVIOUS
  <2>2. /\ ~Before(1, 1) /\ Before(1, 2) /\ Before(1, 3)
        /\ ~Before(2, 1) /\ ~Before(2, 2) /\ Before(2, 3)
        /\ ~Before(3, 1) /\ ~Before(3, 2) /\ ~Before(3, 3)
    BY <1>3, <2>1
  <2> HIDE DEF Before
  <2> QED BY <1>2, <2>1, <2>2
<1> HIDE DEF Before
<1>5. same \in [places -> places] /\ \A i \in places : same[i] = i
  OBVIOUS
<1> HIDE DEF same
<1>6. Sorted(same)
  BY <1>4, <1>5
<1>7. sorted \in [places -> places] /\ Sorted(sorted)
  <2> HIDE DEF Sorted
  <2> QED BY <1>5, <1>6, Zenon
<1> HIDE DEF sorted
<1>8. sorted[1] = 1 /\ sorted[2] = 2 /\ sorted[3] = 3
  <2>1. sorted[1] \in 1..3 /\ sorted[2] \in 1..3 /\ sorted[3] \in 1..3
    BY <1>2, <1>7
  <2>2. sorted[1] < sorted[2] /\ sorted[2] < sorted[3]
    <3>1. 1 \in places /\ 2 \in places /\ 3 \in places /\ 1 < 2 /\ 2 < 3
      BY <1>2
    <3>2. Before(sorted[1], sorted[2]) /\ Before(sorted[2], sorted[3])
      BY <1>7, <3>1
    <3>3. sorted[1] \in places /\ sorted[2] \in places /\ sorted[3] \in places
      BY <1>7, <3>1
    <3> QED BY <1>4, <3>2, <3>3
  <2> QED BY <2>1, <2>2
<1>9. \A i \in places : sorted[i] = i
  BY <1>2, <1>8
<1> HIDE DEF Sorted
<1>10. [i \in places |-> BlockBytes(bs[sorted[i]])] = [i \in places |-> BlockBytes(bs[i])]
  BY <1>9, Zenon
<1>11. data = FlattenSeq(WrittenBlocks(bs, 3))
  BY <1>2, <1>10, Zenon DEF WrittenBlocks
<1> QED BY <1>1, <1>11, Zenon

LEMMA ThreeTogether ==
    ASSUME NEW bs \in [1..3 -> FileBlock]
    PROVE  /\ FlattenSeq(WrittenBlocks(bs, 3)) \in Seq(Byte)
           /\ Len(FlattenSeq(WrittenBlocks(bs, 3)))
                  = Len(BlockBytes(bs[1])) + Len(BlockBytes(bs[2])) + Len(BlockBytes(bs[3]))
<1> DEFINE z == WrittenBlocks(bs, 3)
           flat == FlattenSeq(z)
<1>1. \A i \in 1..3 : z[i] = BlockBytes(bs[i])
  BY Zenon DEF WrittenBlocks
<1>2. \A i \in 1..3 : BlockBytes(bs[i]) \in Seq(Byte)
  <2> SUFFICES ASSUME NEW i \in 1..3 PROVE BlockBytes(bs[i]) \in Seq(Byte)
    OBVIOUS
  <2>1. bs[i] \in FileBlock
    OBVIOUS
  <2> QED BY <2>1, BlockWritten, Zenon
<1>3. z \in [1..3 -> Seq(Byte)]
  BY <1>2 DEF WrittenBlocks
<1> HIDE DEF z
<1>4. PICK off : LiesAt(flat, z, 3, off, Byte)
  <2>1. 3 \in Nat
    OBVIOUS
  <2> QED BY <1>3, <2>1, FlattenPlaces
<1> HIDE DEF flat
<1>5. /\ off[0] = 0 /\ \A k \in 1..3 : off[k] = off[k - 1] + Len(z[k])
      /\ flat \in Seq(Byte) /\ Len(flat) = off[3]
  BY <1>4 DEF LiesAt
<1>6. off[1] = off[0] + Len(z[1]) /\ off[2] = off[1] + Len(z[2]) /\ off[3] = off[2] + Len(z[3])
  <2>1. 1 - 1 = 0 /\ 2 - 1 = 1 /\ 3 - 1 = 2 /\ 1 \in 1..3 /\ 2 \in 1..3 /\ 3 \in 1..3
    OBVIOUS
  <2>2. off[1] = off[1 - 1] + Len(z[1]) /\ off[2] = off[2 - 1] + Len(z[2])
        /\ off[3] = off[3 - 1] + Len(z[3])
    BY <1>5, <2>1, Zenon
  <2> QED BY <2>1, <2>2
<1>7. Len(z[1]) \in Nat /\ Len(z[2]) \in Nat /\ Len(z[3]) \in Nat
  BY <1>3
<1>8. Len(flat) = Len(z[1]) + Len(z[2]) + Len(z[3])
  BY <1>5, <1>6, <1>7
<1>9. z[1] = BlockBytes(bs[1]) /\ z[2] = BlockBytes(bs[2]) /\ z[3] = BlockBytes(bs[3])
  BY <1>1
<1> QED BY <1>5, <1>8, <1>9 DEF flat, z

LEMMA HeaderAgain ==
    ASSUME NEW savedPC \in 0..(2^24 - 1)
    PROVE  LET h == MakeIFHD(savedPC)
           IN  h \in Seq(Byte) /\ Len(h) = 13 /\ VerifyIFHD(h) /\ SavedPC(h) = savedPC
<1> DEFINE c == Bytes3(savedPC)
           h == MakeIFHD(savedPC)
<1>1. /\ c \in Seq(Byte) /\ Len(c) = 3
      /\ 2^16 * c[1] + 2^8 * c[2] + c[3] = savedPC
  BY ThreeBytes
<1>2. GameId \in Seq(Byte) /\ Len(GameId) = 10
  BY GameIdAssumption DEF Byte
<1> HIDE DEF c
<1>3. h = GameId \o c
  BY DEF MakeIFHD, c
<1> HIDE DEF h
<1>4. /\ h \in Seq(Byte) /\ Len(h) = 13
      /\ \A i \in 1..10 : h[i] = GameId[i]
      /\ \A i \in 1..3 : h[10 + i] = c[i]
  <2>1. GameId \in Seq(Byte) /\ c \in Seq(Byte)
    BY <1>1, <1>2
  <2>2. /\ GameId \o c \in Seq(Byte) /\ Len(GameId \o c) = Len(GameId) + Len(c)
        /\ \A i \in 1..Len(GameId) : (GameId \o c)[i] = GameId[i]
        /\ \A i \in 1..Len(c) : (GameId \o c)[Len(GameId) + i] = c[i]
    BY <2>1, Concat
  <2>3. Len(h) = 10 + 3
    BY <1>1, <1>2, <1>3, <2>2
  <2>4. \A i \in 1..10 : h[i] = GameId[i]
    BY <1>2, <1>3, <2>2
  <2>5. \A i \in 1..3 : h[10 + i] = c[i]
    BY <1>1, <1>2, <1>3, <2>2
  <2>6. h \in Seq(Byte)
    BY <1>3, <2>2, Zenon
  <2>7. Len(h) = 13
    BY <2>3
  <2> QED BY <2>4, <2>5, <2>6, <2>7, Zenon
<1>5. SubSeq(h, 1, 10) = GameId
  <2>1. 0 \in Nat /\ 0 + Len(GameId) <= Len(h) /\ \A i \in 1..Len(GameId) : h[0 + i] = GameId[i]
    BY <1>2, <1>4
  <2>2. SubSeq(h, 0 + 1, 0 + Len(GameId)) = GameId
    BY <1>2, <1>4, <2>1, PartIs
  <2>3. 0 + 1 = 1 /\ 0 + Len(GameId) = 10
    BY <1>2
  <2> QED BY <2>2, <2>3
<1>6. VerifyIFHD(h)
  <2>1. Len(h) >= 13
    BY <1>4
  <2> QED BY <1>5, <2>1 DEF VerifyIFHD
<1>7. SavedPC(h) = savedPC
  <2>1. h[11] = c[1] /\ h[11 + 1] = c[2] /\ h[11 + 2] = c[3]
    <3>1. h[10 + 1] = c[1] /\ h[10 + 2] = c[2] /\ h[10 + 3] = c[3]
      BY <1>4
    <3> QED BY <3>1
  <2>2. SavedPC(h) = 2^16 * h[11] + 2^8 * h[11 + 1] + h[11 + 2]
    BY Zenon DEF SavedPC, At3
  <2> QED BY <1>1, <2>1, <2>2, Zenon
<1> QED BY <1>4, <1>6, <1>7 DEF h

ImageBlocks(m, savedPC) ==
    <<Block(IFhd, MakeIFHD(savedPC)),
      Block(CMem, CompressRAM(m.ram)),
      Block(Stks, SerializeStacks(m.stack, m.callStack))>>

LEMMA ImageBlocksAre ==
    ASSUME NEW m, Savable(m), NEW savedPC \in 0..(2^24 - 1)
    PROVE  LET bs == ImageBlocks(m, savedPC)
           IN  /\ bs \in [1..3 -> FileBlock] /\ Len(bs) = 3
               /\ bs[1].type = IFhd /\ bs[1].data = MakeIFHD(savedPC)
               /\ bs[2].type = CMem /\ bs[2].data = CompressRAM(m.ram)
               /\ bs[3].type = Stks /\ bs[3].data = SerializeStacks(m.stack, m.callStack)
               /\ 4 + Len(FlattenSeq(WrittenBlocks(bs, 3))) < 127 * 2^24
<1> DEFINE bs == ImageBlocks(m, savedPC)
           h == MakeIFHD(savedPC)
           c == CompressRAM(m.ram)
           s == SerializeStacks(m.stack, m.callStack)
           b1 == Block(IFhd, h)
           b2 == Block(CMem, c)
           b3 == Block(Stks, s)
<1>1. h \in Seq(Byte) /\ Len(h) = 13
  BY HeaderAgain, Zenon
<1>2. c \in Seq(Byte) /\ Len(c) <= 3 * RomStart
  <2>1. m.ram \in [1..RomStart -> Byte]
    BY SavableIs
  <2> QED BY <2>1, MemoryAgain
<1>3. s \in Seq(Byte) /\ Len(s) < 2^30
  <2>1. s \in Seq(Byte)
    BY StacksAgain, Zenon
  <2>2. Len(s) < 2^30
    BY Zenon DEF Savable
  <2> QED BY <2>1, <2>2
<1>4. bs = <<b1, b2, b3>>
  BY Zenon DEF ImageBlocks
<1> HIDE DEF bs, h, c, s
<1>5. Len(h) \in Nat /\ Len(c) \in Nat /\ Len(s) \in Nat /\ Len(c) < 3 * 65536
      /\ Len(s) < 1073741824
  <2>1. Len(h) \in Nat /\ Len(c) \in Nat /\ Len(s) \in Nat
    BY <1>1, <1>2, <1>3, ElementOf
  <2>2. RomStart \in Nat /\ RomStart < 65536
    BY StoryAssumption, Powers DEF RomStart
  <2>3. Len(c) < 3 * 65536
    BY <1>2, <2>1, <2>2
  <2>4. Len(s) < 1073741824
    BY <1>3, Powers
  <2> QED BY <2>1, <2>3, <2>4
<1>6. /\ b1.type = IFhd /\ b1.data = h /\ b2.type = CMem /\ b2.data = c
      /\ b3.type = Stks /\ b3.data = s
  BY DEF Block
<1>7. b1 \in FileBlock /\ b2 \in FileBlock /\ b3 \in FileBlock
  <2>1. 128 * 2^24 = 2147483648
    BY Powers
  <2>2. Len(h) < 128 * 2^24 /\ Len(c) < 128 * 2^24 /\ Len(s) < 128 * 2^24
    BY <1>1, <1>5, <2>1
  <2> QED BY <1>1, <1>2, <1>3, <2>2, TypeIds DEF FileBlock, Block
<1> HIDE DEF b1, b2, b3
<1>8. Len(bs) = 3 /\ bs[1] = b1 /\ bs[2] = b2 /\ bs[3] = b3 /\ bs \in [1..3 -> FileBlock]
  BY <1>4, <1>7
<1>9. /\ Len(BlockBytes(b1)) = 8 + Len(h) + (Len(h) % 2)
      /\ Len(BlockBytes(b2)) = 8 + Len(c) + (Len(c) % 2)
      /\ Len(BlockBytes(b3)) = 8 + Len(s) + (Len(s) % 2)
  <2>1. \A block \in FileBlock :
            Len(BlockBytes(block)) = 8 + Len(block.data) + (Len(block.data) % 2)
    <3> SUFFICES ASSUME NEW block \in FileBlock
                 PROVE  Len(BlockBytes(block)) = 8 + Len(block.data) + (Len(block.data) % 2)
      OBVIOUS
    <3> QED BY BlockWritten, Zenon
  <2> QED BY <1>6, <1>7, <2>1, Zenon
<1>10. \A x \in Nat : x % 2 \in 0..1
  OBVIOUS
<1> DEFINE x1 == Len(h) % 2
           x2 == Len(c) % 2
           x3 == Len(s) % 2
           y1 == Len(BlockBytes(b1))
           y2 == Len(BlockBytes(b2))
           y3 == Len(BlockBytes(b3))
           flat == FlattenSeq(WrittenBlocks(bs, 3))
<1>11. Len(flat) = y1 + y2 + y3
  BY <1>8, ThreeTogether, Zenon
<1>12. x1 \in 0..1 /\ x2 \in 0..1 /\ x3 \in 0..1
  <2>1. Len(h) \in Nat /\ Len(c) \in Nat /\ Len(s) \in Nat
    BY <1>5
  <2> QED BY <1>10, <2>1
<1>13. y1 = 8 + Len(h) + x1 /\ y2 = 8 + Len(c) + x2 /\ y3 = 8 + Len(s) + x3
  BY <1>9
<1> HIDE DEF x1, x2, x3, y1, y2, y3, flat
<1>14. 4 + Len(flat) < 127 * 16777216
  BY <1>1, <1>5, <1>11, <1>12, <1>13
<1>15. 4 + Len(flat) < 127 * 2^24
  BY <1>14, Powers
<1> QED BY <1>6, <1>8, <1>15 DEF bs, h, c, s, flat

LEMMA ImageIs ==
    ASSUME NEW m, Savable(m), NEW savedPC \in 0..(2^24 - 1)
    PROVE  LET bytes == Image(m, savedPC)
           IN  /\ bytes \in Seq(Byte)
               /\ HeaderFits(bytes) /\ FileEnd(bytes) = Len(bytes)
               /\ BlocksIn(bytes) = [ok |-> TRUE, blocks |-> ImageBlocks(m, savedPC)]
<1> DEFINE bs == ImageBlocks(m, savedPC)
           flat == FlattenSeq(WrittenBlocks(bs, 3))
           bytes == Image(m, savedPC)
<1>1. /\ bs \in [1..3 -> FileBlock] /\ Len(bs) = 3
      /\ bs[1].type = IFhd /\ bs[2].type = CMem /\ bs[3].type = Stks
      /\ 4 + Len(flat) < 127 * 2^24
  BY ImageBlocksAre, Zenon
<1>2. bytes = FileBytes(bs)
  BY Zenon DEF Image, ImageBlocks
<1> HIDE DEF bs, bytes
<1>3. bs[2].type # IFhd /\ bs[3].type # IFhd
  BY <1>1, TypeIds, Zenon
<1>4. bytes = FileOf(flat)
  BY <1>1, <1>2, <1>3, ThreeInOrder, Zenon
<1>5. flat \in Seq(Byte) /\ BlocksIn(FileOf(flat)) = [ok |-> TRUE, blocks |-> bs]
  <2>1. 3 \in Nat
    OBVIOUS
  <2> QED BY <1>1, <2>1, BlocksAgain
<1> HIDE DEF flat
<1>6. FileOf(flat) \in Seq(Byte) /\ HeaderFits(FileOf(flat)) /\ FileEnd(FileOf(flat)) = Len(FileOf(flat))
  BY <1>1, <1>5, FileOfIs
<1> QED BY <1>4, <1>5, <1>6 DEF bs, bytes

-----------------------------------------------------------------------------
(* What a file holds *)

(* The only block of its type. *)
LEMMA BlockIs ==
    ASSUME NEW bs, NEW k \in 1..Len(bs), NEW type, Len(bs) \in Nat,
           \A i \in 1..Len(bs) : bs[i].type = type <=> i = k
    PROVE  HasBlock(bs, type) /\ GetBlock(bs, type) = bs[k].data
<1> DEFINE T == {i \in 1..Len(bs) : bs[i].type = type}
<1>1. T = {k}
  OBVIOUS
<1>2. T \subseteq Nat /\ T # {}
  BY <1>1
<1>3. Min(T) = k
  <2> HIDE DEF T
  <2>1. Min(T) \in T
    BY <1>2, MinIsLeast
  <2> QED BY <1>1, <2>1
<1>4. GetBlock(bs, type) = bs[k].data
  BY <1>3, Zenon DEF GetBlock
<1>5. HasBlock(bs, type)
  BY DEF HasBlock
<1> QED BY <1>4, <1>5

LEMMA GameAgain ==
    ASSUME NEW m, Savable(m), NEW savedPC \in 0..(2^24 - 1)
    PROVE  GameIn(Image(m, savedPC)) = [m EXCEPT !.pc = savedPC]
<1> DEFINE bytes == Image(m, savedPC)
           bs == ImageBlocks(m, savedPC)
           h == MakeIFHD(savedPC)
           c == CompressRAM(m.ram)
           s == SerializeStacks(m.stack, m.callStack)
<1>1. /\ Len(bs) = 3
      /\ bs[1].type = IFhd /\ bs[1].data = h
      /\ bs[2].type = CMem /\ bs[2].data = c
      /\ bs[3].type = Stks /\ bs[3].data = s
  BY ImageBlocksAre, Zenon
<1>2. BlocksIn(bytes) = [ok |-> TRUE, blocks |-> bs]
  BY ImageIs, Zenon
<1>3. VerifyIFHD(h) /\ SavedPC(h) = savedPC
  BY HeaderAgain, Zenon
<1>4. UncompressRAM(c) = m.ram /\ Len(m.ram) = RomStart /\ m.ram \in [1..RomStart -> Byte]
  <2>1. m.ram \in [1..RomStart -> Byte]
    BY SavableIs
  <2>2. UncompressRAM(c) = m.ram
    BY <2>1, MemoryAgain
  <2>3. RomStart \in Nat
    BY StoryAssumption DEF RomStart
  <2>4. Len(m.ram) = RomStart
    <3> DEFINE ram == m.ram
    <3>1. ram \in [1..RomStart -> Byte]
      BY <2>1
    <3> HIDE DEF ram
    <3>2. Len(ram) = RomStart
      BY <2>3, <3>1
    <3> QED BY <3>2 DEF ram
  <2> QED BY <2>1, <2>2, <2>4
<1>5. /\ DeserializeStacks(s).ok
      /\ DeserializeStacks(s).stack = m.stack
      /\ DeserializeStacks(s).callStack = m.callStack
  BY StacksAgain, Zenon
<1>6. m = [ram |-> m.ram, stack |-> m.stack, callStack |-> m.callStack, pc |-> m.pc]
  BY SavableIs
<1> HIDE DEF bytes, bs, h, c, s
<1>7. 1 \in 1..Len(bs) /\ 2 \in 1..Len(bs) /\ 3 \in 1..Len(bs) /\ Len(bs) \in Nat
      /\ \A i \in 1..Len(bs) : i = 1 \/ i = 2 \/ i = 3
  BY <1>1
<1>8. IFhd # CMem /\ IFhd # Stks /\ CMem # Stks
  BY TypeIds
<1>9. HasBlock(bs, IFhd) /\ GetBlock(bs, IFhd) = h
  <2>1. \A i \in 1..Len(bs) : bs[i].type = IFhd <=> i = 1
    BY <1>1, <1>7, <1>8
  <2> QED BY <1>1, <1>7, <2>1, BlockIs
<1>10. HasBlock(bs, CMem) /\ GetBlock(bs, CMem) = c
  <2>1. \A i \in 1..Len(bs) : bs[i].type = CMem <=> i = 2
    BY <1>1, <1>7, <1>8
  <2> QED BY <1>1, <1>7, <2>1, BlockIs
<1>11. HasBlock(bs, Stks) /\ GetBlock(bs, Stks) = s
  <2>1. \A i \in 1..Len(bs) : bs[i].type = Stks <=> i = 3
    BY <1>1, <1>7, <1>8
  <2> QED BY <1>1, <1>7, <2>1, BlockIs
<1>12. BlocksIn(bytes).ok = TRUE /\ BlocksIn(bytes).blocks = bs
  BY <1>2
<1> DEFINE d == DeserializeStacks(s)
<1>13. GameIn(bytes) = [ram |-> m.ram, stack |-> d.stack, callStack |-> d.callStack, pc |-> savedPC]
  BY <1>3, <1>4, <1>5, <1>9, <1>10, <1>11, <1>12, Zenon DEF GameIn
<1>14. GameIn(bytes) = [ram |-> m.ram, stack |-> m.stack, callStack |-> m.callStack, pc |-> savedPC]
  BY <1>5, <1>13, Zenon
<1>15. [m EXCEPT !.pc = savedPC]
           = [ram |-> m.ram, stack |-> m.stack, callStack |-> m.callStack, pc |-> savedPC]
  <2> DEFINE a == m.ram
             b == m.stack
             e == m.callStack
             p == m.pc
  <2>1. m = [ram |-> a, stack |-> b, callStack |-> e, pc |-> p]
    BY <1>6
  <2> HIDE DEF a, b, e, p
  <2>2. [m EXCEPT !.pc = savedPC] = [[ram |-> a, stack |-> b, callStack |-> e, pc |-> p] EXCEPT !.pc = savedPC]
    BY <2>1
  <2>3. [[ram |-> a, stack |-> b, callStack |-> e, pc |-> p] EXCEPT !.pc = savedPC]
            = [ram |-> a, stack |-> b, callStack |-> e, pc |-> savedPC]
    OBVIOUS
  <2> QED BY <2>2, <2>3 DEF a, b, e
<1> QED BY <1>14, <1>15 DEF bytes

(* A file that ends early is not a saved game. *)
LEMMA NoGameInPart ==
    ASSUME NEW m, Savable(m), NEW savedPC \in 0..(2^24 - 1),
           NEW n \in Nat, n < Len(Image(m, savedPC))
    PROVE  /\ SubSeq(Image(m, savedPC), 1, n) \in Seq(Byte)
           /\ GameIn(SubSeq(Image(m, savedPC), 1, n)) = None
<1> DEFINE bytes == Image(m, savedPC)
           cut == SubSeq(bytes, 1, n)
<1>1. bytes \in Seq(Byte) /\ HeaderFits(bytes) /\ FileEnd(bytes) = Len(bytes) /\ n < Len(bytes)
  BY ImageIs, Zenon
<1> HIDE DEF bytes
<1>2. cut \in Seq(Byte) /\ ~BlocksIn(cut).ok
  BY <1>1, CutOff
<1> HIDE DEF cut
<1>3. GameIn(cut) = None
  BY <1>2, Zenon DEF GameIn
<1> QED BY <1>2, <1>3 DEF cut, bytes

-----------------------------------------------------------------------------
(* What any file holds has the shape of a machine *)

LEMMA UncompressTyped ==
    ASSUME NEW c \in Seq(Byte)
    PROVE  UncompressRAM(c) \in Seq(Byte)
<1> DEFINE n == Len(c)
           G == [i \in 1..n |-> [s \in Reading |-> Uncompressed(s, c[i])]]
           start == At(Story, 1)
<1>0. n \in Nat /\ \A i \in 1..n : c[i] \in Byte
  BY ElementOf
<1>1. start \in Reading
  BY StoryBytes DEF At, Reading
<1>2. \A i \in 1..n : \A s \in Reading : Uncompressed(s, c[i]) \in Reading
  BY <1>0, ReadsByte
<1>3. G \in [1..n -> [Reading -> Reading]]
  BY <1>2
<1>4. \A i \in 1..n : \A s \in Reading : G[i][s] = Uncompressed(s, c[i])
  OBVIOUS
<1> HIDE DEF G, start, n
<1>5. PICK f : Iterates(f, n, Reading, start, G)
  BY <1>0, <1>1, <1>3, RecursionExists
<1>6. /\ f \in [0..n -> Reading] /\ f[0] = start
      /\ \A i \in 1..n : f[i] = G[i][f[i - 1]]
  BY <1>5 DEF Iterates
<1>7. \A i \in 1..n : f[i] = Uncompressed(f[i - 1], c[i])
  <2> SUFFICES ASSUME NEW i \in 1..n PROVE f[i] = Uncompressed(f[i - 1], c[i])
    OBVIOUS
  <2>1. f[i - 1] \in Reading
    BY <1>0, <1>6
  <2> QED BY <1>4, <1>6, <2>1
<1>8. Reads(start, c, f[n])
  BY <1>6, <1>7, Zenon DEF Reads, n
<1>9. f[n] \in Reading
  BY <1>0, <1>6
<1>10. UncompressRAM(c) = IF f[n].ok /\ ~f[n].inRun THEN f[n].result ELSE <<>>
  BY <1>8, UncompressedIs DEF start
<1>11. f[n].result \in Seq(Byte)
  <2> DEFINE r == f[n].result
             k == RomStart
  <2>1. r \in [1..k -> Byte]
    BY <1>9 DEF Reading
  <2>2. k \in Nat
    BY StoryBytes
  <2> HIDE DEF r, k
  <2>3. r \in Seq(Byte)
    BY <2>1, <2>2
  <2> QED BY <2>3 DEF r
<1> QED BY <1>10, <1>11

LEMMA WordsTyped ==
    ASSUME NEW b \in Seq(Byte)
    PROVE  Words(b) \in Seq(Word) /\ Len(Words(b)) = Len(b) \div 2
<1> DEFINE n == Len(b) \div 2
<1>0. Len(b) \in Nat /\ n \in Nat /\ 2 * n <= Len(b)
  BY ElementOf
<1>1. ASSUME NEW i \in 1..n PROVE Signed(At2(b, 2 * i - 1)) \in Word
  <2> DEFINE x == b[2 * i - 1]
             y == b[2 * i - 1 + 1]
             v == 256 * x + y
  <2>1. 2 * i - 1 \in 1..Len(b) /\ 2 * i - 1 + 1 \in 1..Len(b)
    <3> HIDE DEF n
    <3> QED BY <1>0
  <2>2. x \in Byte /\ y \in Byte
    BY <2>1, ElementOf
  <2>3. At2(b, 2 * i - 1) = v
    BY Powers DEF At2
  <2> HIDE DEF x, y
  <2>4. v \in Int /\ 0 <= v /\ v <= 65535
    BY <2>2, ByteIs
  <2> HIDE DEF v
  <2>5. Signed(v) = IF v >= 32768 THEN v - 65536 ELSE v
    BY DEF Signed
  <2>6. Signed(v) \in Int /\ -32768 <= Signed(v) /\ Signed(v) <= 32767
    BY <2>4, <2>5
  <2> QED BY <2>3, <2>6, WordIs
<1>2. Words(b) = [i \in 1..n |-> Signed(At2(b, 2 * i - 1))]
  BY Zenon DEF Words
<1> HIDE DEF n
<1>3. Words(b) \in [1..n -> Word]
  BY <1>1, <1>2
<1>4. Words(b) \in Seq(Word) /\ Len(Words(b)) = n
  BY <1>0, <1>3
<1> QED BY <1>4 DEF n

LEMMA ArgumentsTyped == \A b \in Byte : ArgCount(b) \in 0..7
<1> SUFFICES ASSUME NEW b \in Byte PROVE ArgCount(b) \in 0..7
  OBVIOUS
<1> DEFINE Low(k) == 2^k \div 2
           High(k) == 2^k - 1
           x == b % 128
<1>0. /\ High(0) = 0 /\ High(1) = 1 /\ High(2) = 3 /\ High(3) = 7
      /\ High(4) = 15 /\ High(5) = 31 /\ High(6) = 63 /\ High(7) = 127
      /\ Low(0) = 0 /\ Low(1) = 1 /\ Low(2) = 2 /\ Low(3) = 4
      /\ Low(4) = 8 /\ Low(5) = 16 /\ Low(6) = 32 /\ Low(7) = 64
  BY Powers
<1>1. x \in Int /\ 0 <= x /\ x <= 127
  BY ByteIs
<1>2. ArgCount(b) = CHOOSE k \in 0..7 : x \in Low(k)..High(k)
  BY DEF ArgCount
<1> HIDE DEF Low, High, x
<1>3. \/ x \in Low(0)..High(0) \/ x \in Low(1)..High(1) \/ x \in Low(2)..High(2)
      \/ x \in Low(3)..High(3) \/ x \in Low(4)..High(4) \/ x \in Low(5)..High(5)
      \/ x \in Low(6)..High(6) \/ x \in Low(7)..High(7)
  BY <1>0, <1>1
<1>4. \E k \in 0..7 : x \in Low(k)..High(k)
  <2>1. /\ 0 \in 0..7 /\ 1 \in 0..7 /\ 2 \in 0..7 /\ 3 \in 0..7
        /\ 4 \in 0..7 /\ 5 \in 0..7 /\ 6 \in 0..7 /\ 7 \in 0..7
    OBVIOUS
  <2> QED BY <1>3, <2>1, Zenon
<1> QED BY <1>2, <1>4, Zenon

LEMMA ThreeTyped ==
    ASSUME NEW bytes \in Seq(Byte), NEW p \in Nat, p >= 1, p + 2 <= Len(bytes)
    PROVE  At3(bytes, p) \in Nat /\ At3(bytes, p) < 2^24
<1> DEFINE x == bytes[p]
           y == bytes[p + 1]
           z == bytes[p + 2]
<1>1. p \in 1..Len(bytes) /\ p + 1 \in 1..Len(bytes) /\ p + 2 \in 1..Len(bytes)
  BY ElementOf
<1>2. x \in Byte /\ y \in Byte /\ z \in Byte
  BY <1>1, ElementOf
<1>3. At3(bytes, p) = 65536 * x + 256 * y + z
  BY Powers DEF At3
<1> HIDE DEF x, y, z
<1> QED BY <1>2, <1>3, ByteIs, Powers

(* A frame that is read, with its words. *)
FramePart == {f \in [returnPC : 0..(2^24 - 1), resultStorage : Byte \cup {-1}, argCount : 0..7,
                     locals : Seq(Word), words : Seq(Word)] : Len(f.locals) <= 15}

LEMMA PartTyped ==
    ASSUME NEW bytes \in Seq(Byte), NEW p \in 1..Len(bytes), FitsAt(bytes, p)
    PROVE  PartAt(bytes, p) \in FramePart
<1> DEFINE l == LocalsAt(bytes, p)
           m == At2(bytes, p + 6)
           ls == SubSeq(bytes, p + 8, WordsAt(bytes, p) - 1)
           ws == SubSeq(bytes, WordsAt(bytes, p), EndAt(bytes, p) - 1)
           a == At3(bytes, p)
           b == IF (bytes[p + 3] \div 16) % 2 = 1 THEN -1 ELSE bytes[p + 4]
           c == ArgCount(bytes[p + 5])
<1>1. /\ p + 7 <= Len(bytes) /\ EndAt(bytes, p) <= Len(bytes) + 1
      /\ Len(bytes) \in Nat /\ p \in Nat /\ p >= 1
  BY ElementOf DEF FitsAt
<1>2. /\ p + 3 \in 1..Len(bytes) /\ p + 4 \in 1..Len(bytes) /\ p + 5 \in 1..Len(bytes)
      /\ p + 6 \in Nat /\ p + 6 >= 1 /\ (p + 6) + 1 <= Len(bytes) /\ p + 2 <= Len(bytes)
  BY <1>1
<1>3. bytes[p + 3] \in Byte /\ bytes[p + 4] \in Byte /\ bytes[p + 5] \in Byte
  BY <1>2, ElementOf
<1>4. m \in Nat
  BY <1>2, NumberInBytes
<1>5. l \in 0..15
  <2> DEFINE x == bytes[p + 3]
  <2>1. x \in Nat
    BY <1>3, ByteIs
  <2>2. l = x % 16
    BY DEF LocalsAt
  <2> HIDE DEF x, l
  <2> QED BY <2>1, <2>2
<1>6. WordsAt(bytes, p) = p + 8 + 2 * l /\ EndAt(bytes, p) = p + 8 + 2 * l + 2 * m
  BY DEF WordsAt, EndAt
<1>l. l \in Nat /\ l <= 15
  BY <1>5
<1> HIDE DEF l, m
<1>7. ls \in Seq(Byte) /\ Len(ls) = 2 * l
  <2> DEFINE x == p + 8
             y == p + 7 + 2 * l
  <2>1. x \in Nat /\ x >= 1 /\ y \in Nat /\ x <= y + 1 /\ y <= Len(bytes) /\ y + 1 - x = 2 * l
    BY <1>1, <1>4, <1>l, <1>6
  <2>2. WordsAt(bytes, p) - 1 = y
    BY <1>1, <1>l, <1>6
  <2> HIDE DEF x, y
  <2>3. SubSeq(bytes, x, y) \in Seq(Byte) /\ Len(SubSeq(bytes, x, y)) = y + 1 - x
    BY <2>1, PartOf
  <2> QED BY <2>1, <2>2, <2>3 DEF x
<1>8. ws \in Seq(Byte)
  <2> DEFINE x == p + 8 + 2 * l
             y == p + 7 + 2 * l + 2 * m
  <2>1. x \in Nat /\ x >= 1 /\ y \in Nat /\ x <= y + 1 /\ y <= Len(bytes)
    BY <1>1, <1>4, <1>l, <1>6
  <2>2. WordsAt(bytes, p) = x /\ EndAt(bytes, p) - 1 = y
    BY <1>1, <1>4, <1>l, <1>6
  <2> HIDE DEF x, y
  <2>3. SubSeq(bytes, x, y) \in Seq(Byte)
    BY <2>1, PartOf
  <2> QED BY <2>2, <2>3
<1>9. Words(ls) \in Seq(Word) /\ Words(ws) \in Seq(Word) /\ Len(Words(ls)) = Len(ls) \div 2
  <2> HIDE DEF ls, ws
  <2> QED BY <1>7, <1>8, WordsTyped
<1>10. Len(Words(ls)) <= 15
  <2>1. Len(Words(ls)) = (2 * l) \div 2
    BY <1>7, <1>9
  <2>2. \A k \in 0..15 : (2 * k) \div 2 <= 15
    OBVIOUS
  <2> QED BY <1>5, <2>1, <2>2
<1>11. a \in 0..(2^24 - 1)
  <2>1. a \in Nat /\ a < 2^24
    BY <1>1, <1>2, ThreeTyped
  <2> HIDE DEF a
  <2> QED BY <2>1, Powers
<1>12. b \in Byte \cup {-1} /\ c \in 0..7
  BY <1>3, ArgumentsTyped
<1>13. PartAt(bytes, p) = [returnPC |-> a, resultStorage |-> b, argCount |-> c,
                           locals |-> Words(ls), words |-> Words(ws)]
  BY Zenon DEF PartAt
<1> DEFINE u == Words(ls)
           v == Words(ws)
<1> HIDE DEF a, b, c, u, v
<1>14. [returnPC |-> a, resultStorage |-> b, argCount |-> c, locals |-> u, words |-> v]
           \in FramePart
  <2>1. u \in Seq(Word) /\ v \in Seq(Word) /\ Len(u) <= 15
    BY <1>9, <1>10 DEF u, v
  <2> HIDE DEF u, v
  <2> QED BY <1>11, <1>12, <2>1 DEF FramePart
<1> QED BY <1>13, <1>14 DEF u, v

LEMMA FramePartsTyped ==
    ASSUME NEW bytes \in Seq(Byte)
    PROVE  WholeFrames(bytes).parts \in Seq(FramePart)
<1> DEFINE n == Len(bytes)
           V == [ok : BOOLEAN, parts : Seq(FramePart)]
           good == [ok |-> TRUE, parts |-> <<>>]
           bad == [ok |-> FALSE, parts |-> <<>>]
<1>0. n \in Nat
  BY ElementOf
<1>1. PICK from : FramesFrom(from, bytes) /\ WholeFrames(bytes) = from[1]
  BY WholeFramesIs
<1>2. \A p \in 1..n + 1 :
          from[p] = IF p > n THEN good
                    ELSE IF ~FitsAt(bytes, p) THEN bad
                    ELSE Added(PartAt(bytes, p), from[EndAt(bytes, p)])
  BY <1>1, Zenon DEF FramesFrom
<1>3. good \in V /\ bad \in V
  OBVIOUS
<1>4. \A x \in FramePart : \A v \in V : Added(x, v) \in V
  <2> SUFFICES ASSUME NEW x \in FramePart, NEW v \in V PROVE Added(x, v) \in V
    OBVIOUS
  <2> DEFINE one == <<x>>
             w == one \o v.parts
  <2>1. v.parts \in Seq(FramePart) /\ v.ok \in BOOLEAN /\ v = [ok |-> v.ok, parts |-> v.parts]
    OBVIOUS
  <2>2. one \in Seq(FramePart)
    OBVIOUS
  <2>3. Added(x, v) = [v EXCEPT !.parts = w]
    BY Zenon DEF Added
  <2> HIDE DEF one
  <2>4. w \in Seq(FramePart)
    BY <2>1, <2>2, Concat
  <2> HIDE DEF w
  <2>5. [v EXCEPT !.parts = w] \in V
    BY <2>1, <2>4
  <2> QED BY <2>3, <2>5
<1> DEFINE T == {p \in 1..n + 1 : from[p] \in V}
<1> HIDE DEF V, good, bad
<1>5. n + 1 \in T
  <2>1. n + 1 \in 1..n + 1 /\ n + 1 > n
    BY <1>0
  <2> QED BY <1>2, <1>3, <2>1
<1>6. ASSUME NEW p \in 1..n, \A j \in p + 1..n + 1 : j \in T PROVE p \in T
  <2>1. p \in 1..n + 1 /\ ~(p > n)
    BY <1>0
  <2>2. CASE FitsAt(bytes, p)
    <3>1. EndAt(bytes, p) \in p + 1..n + 1 /\ PartAt(bytes, p) \in FramePart
      BY <2>2, EndsAfter, PartTyped
    <3>2. from[EndAt(bytes, p)] \in V
      BY <1>6, <3>1
    <3>3. from[p] \in V
      BY <1>2, <1>4, <2>1, <2>2, <3>1, <3>2
    <3> QED BY <2>1, <3>3
  <2>3. CASE ~FitsAt(bytes, p)
    BY <1>2, <1>3, <2>1, <2>3
  <2> QED BY <2>2, <2>3
<1> HIDE DEF T
<1>7. \A p \in 1..n + 1 : p \in T
  BY <1>0, <1>5, <1>6, InductionDown
<1>8. from[1] \in V
  <2>1. 1 \in 1..n + 1
    BY <1>0
  <2> QED BY <1>7, <2>1 DEF T
<1> QED BY <1>1, <1>8 DEF V

(* One sequence more: the places of the others stay. *)
LEMMA FlattenOneMore ==
    ASSUME NEW S, NEW n \in Nat, NEW z \in [1..n + 1 -> Seq(S)]
    PROVE  LET some == FlattenSeq([i \in 1..n |-> z[i]])
               more == FlattenSeq([i \in 1..n + 1 |-> z[i]])
           IN  /\ some \in Seq(S) /\ more \in Seq(S)
               /\ Len(some) \in Nat /\ Len(more) \in Nat /\ Len(some) <= Len(more)
<1> DEFINE y == [i \in 1..n |-> z[i]]
           x == [i \in 1..n + 1 |-> z[i]]
<1>0. /\ n + 1 \in Nat /\ \A i \in 1..n + 1 : z[i] \in Seq(S)
      /\ \A i \in 1..n : i \in 1..n + 1
  OBVIOUS
<1>1. y \in [1..n -> Seq(S)] /\ x \in [1..n + 1 -> Seq(S)]
      /\ \A i \in 1..n : y[i] = x[i]
  BY <1>0
<1> HIDE DEF x, y
<1>2. PICK f : LiesAt(FlattenSeq(y), y, n, f, S)
  BY <1>1, FlattenPlaces
<1>3. PICK g : LiesAt(FlattenSeq(x), x, n + 1, g, S)
  BY <1>0, <1>1, FlattenPlaces
<1>4. /\ f[0] = 0 /\ \A k \in 1..n : f[k] = f[k - 1] + Len(y[k])
      /\ FlattenSeq(y) \in Seq(S) /\ Len(FlattenSeq(y)) = f[n]
  BY <1>2 DEF LiesAt
<1>5. /\ g \in [0..(n + 1) -> Nat]
      /\ g[0] = 0 /\ \A k \in 1..n + 1 : g[k] = g[k - 1] + Len(x[k])
      /\ FlattenSeq(x) \in Seq(S) /\ Len(FlattenSeq(x)) = g[n + 1]
  BY <1>3 DEF LiesAt
<1>6. StepAlike(f, g, n)
  BY <1>0, <1>1, <1>4, <1>5 DEF StepAlike
<1>7. f[n] = g[n]
  BY <1>6, SameRecursion
<1>8. g[n] \in Nat /\ g[n + 1] = g[n] + Len(x[n + 1]) /\ Len(x[n + 1]) \in Nat
  <2>1. n + 1 \in 1..n + 1 /\ (n + 1) - 1 = n /\ n \in 0..n + 1
    OBVIOUS
  <2>2. Len(x[n + 1]) \in Nat
    <3>1. x[n + 1] \in Seq(S)
      BY <1>1, <2>1
    <3> QED BY <3>1, ElementOf
  <2> QED BY <1>5, <2>1, <2>2
<1>9. Len(FlattenSeq(y)) \in Nat /\ Len(FlattenSeq(x)) \in Nat
      /\ Len(FlattenSeq(y)) <= Len(FlattenSeq(x))
  BY <1>4, <1>5, <1>7, <1>8
<1> QED BY <1>4, <1>5, <1>9 DEF x, y

LEMMA FrameTyped ==
    ASSUME NEW a \in 0..(2^24 - 1), NEW b \in Nat, NEW c \in Seq(Word),
           NEW d \in 0..7, NEW e \in Byte \cup {-1}
    PROVE  [returnPC |-> a, prevStackDepth |-> b, locals |-> c,
            argCount |-> d, resultStorage |-> e] \in CallFrame
BY DEF CallFrame

LEMMA StacksTyped ==
    ASSUME NEW bytes \in Seq(Byte)
    PROVE  LET d == DeserializeStacks(bytes)
           IN  /\ d.stack \in Seq(Word) /\ d.callStack \in Seq(CallFrame)
               /\ \A i \in 1..Len(d.callStack) :
                      /\ Len(d.callStack[i].locals) <= 15
                      /\ d.callStack[i].prevStackDepth <= PartEnd(d.stack, d.callStack, i)
<1> DEFINE parts == WholeFrames(bytes).parts
           n == Len(parts)
           words(k) == FlattenSeq([i \in 1..k |-> parts[i].words])
           frame(k) == [returnPC |-> parts[k].returnPC,
                        prevStackDepth |-> Len(words(k - 1)),
                        locals |-> parts[k].locals,
                        argCount |-> parts[k].argCount,
                        resultStorage |-> parts[k].resultStorage]
           st == words(n)
           cs == [k \in 1..(n - 1) |-> frame(k + 1)]
           d == DeserializeStacks(bytes)
<1>1. d.stack = st /\ d.callStack = cs
  <2>1. d = [ok |-> WholeFrames(bytes).ok, stack |-> st, callStack |-> cs]
    BY Zenon DEF DeserializeStacks
  <2> HIDE DEF d, st, cs
  <2> QED BY <2>1
<1> HIDE DEF d
<1>2. parts \in Seq(FramePart)
  BY FramePartsTyped
<1> HIDE DEF parts
<1>3. n \in Nat /\ \A i \in 1..n : parts[i] \in FramePart
  BY <1>2, ElementOf
<1>4. \A f \in FramePart : /\ f.returnPC \in 0..(2^24 - 1) /\ f.resultStorage \in Byte \cup {-1}
                           /\ f.argCount \in 0..7 /\ f.locals \in Seq(Word)
                           /\ f.words \in Seq(Word) /\ Len(f.locals) <= 15
  BY DEF FramePart
<1> HIDE DEF n
<1>5. ASSUME NEW k \in 0..(n - 1)
      PROVE  /\ words(k) \in Seq(Word) /\ words(k + 1) \in Seq(Word)
             /\ Len(words(k)) \in Nat /\ Len(words(k + 1)) \in Nat
             /\ Len(words(k)) <= Len(words(k + 1))
  <2> DEFINE z == [i \in 1..k + 1 |-> parts[i].words]
  <2>1. k \in Nat /\ \A i \in 1..k + 1 : i \in 1..n
    BY <1>3
  <2>2. z \in [1..k + 1 -> Seq(Word)]
    BY <1>3, <1>4, <2>1
  <2>3. \A i \in 1..k + 1 : z[i] = parts[i].words
    OBVIOUS
  <2>4. \A i \in 1..k : i \in 1..k + 1
    BY <2>1
  <2> HIDE DEF z
  <2>5. [i \in 1..k |-> z[i]] = [i \in 1..k |-> parts[i].words]
    BY <2>3, <2>4
  <2>6. [i \in 1..k + 1 |-> z[i]] = [i \in 1..k + 1 |-> parts[i].words]
    BY <2>3
  <2> DEFINE a == FlattenSeq([i \in 1..k |-> z[i]])
             b == FlattenSeq([i \in 1..k + 1 |-> z[i]])
  <2>7. a \in Seq(Word) /\ b \in Seq(Word) /\ Len(a) \in Nat /\ Len(b) \in Nat /\ Len(a) <= Len(b)
    BY <2>1, <2>2, FlattenOneMore
  <2>8. a = words(k) /\ b = words(k + 1)
    BY <2>5, <2>6, Zenon
  <2> HIDE DEF a, b, words
  <2> QED BY <2>7, <2>8
<1>6. st \in Seq(Word)
  <2>1. CASE n = 0
    <3> DEFINE z == [i \in 1..0 |-> parts[i].words]
    <3>1. z \in [1..0 -> Seq(Word)] /\ 0 \in Nat
      OBVIOUS
    <3>2. st = FlattenSeq(z)
      BY <2>1, Zenon
    <3> HIDE DEF z, st
    <3>3. PICK off : LiesAt(FlattenSeq(z), z, 0, off, Word)
      BY <3>1, FlattenPlaces
    <3> QED BY <3>2, <3>3 DEF LiesAt
  <2>2. CASE n # 0
    <3>1. n - 1 \in 0..(n - 1) /\ (n - 1) + 1 = n
      BY <1>3, <2>2
    <3> HIDE DEF words
    <3>2. words((n - 1) + 1) \in Seq(Word)
      BY <1>5, <3>1
    <3> QED BY <3>1, <3>2
  <2> QED BY <2>1, <2>2
<1> HIDE DEF words
<1>7. ASSUME NEW k \in 1..(n - 1)
      PROVE  /\ frame(k + 1) \in CallFrame /\ Len(frame(k + 1).locals) <= 15
             /\ frame(k + 1).prevStackDepth = Len(words(k))
  <2>1. k + 1 \in 1..n /\ (k + 1) - 1 = k /\ k \in 0..(n - 1)
    BY <1>3
  <2> DEFINE f == parts[k + 1]
             w == Len(words(k))
  <2>2. /\ f.returnPC \in 0..(2^24 - 1) /\ f.resultStorage \in Byte \cup {-1}
        /\ f.argCount \in 0..7 /\ f.locals \in Seq(Word) /\ Len(f.locals) <= 15
    BY <1>3, <1>4, <2>1
  <2>3. w \in Nat
    BY <1>5, <2>1
  <2>4. frame(k + 1) = [returnPC |-> f.returnPC, prevStackDepth |-> w, locals |-> f.locals,
                        argCount |-> f.argCount, resultStorage |-> f.resultStorage]
    BY <2>1, Zenon
  <2> HIDE DEF f, frame
  <2>5. frame(k + 1).locals = f.locals /\ frame(k + 1).prevStackDepth = w
    BY <2>4
  <2> HIDE DEF w
  <2>6. frame(k + 1) \in CallFrame
    BY <2>2, <2>3, <2>4, FrameTyped, Zenon
  <2> QED BY <2>2, <2>5, <2>6 DEF w
<1>8. \A k \in 1..(n - 1) : cs[k] = frame(k + 1)
  BY Zenon
<1> HIDE DEF frame
<1>9. cs \in Seq(CallFrame) /\ \A k \in 1..Len(cs) : k \in 1..(n - 1)
  <2>1. \A k \in 1..(n - 1) : frame(k + 1) \in CallFrame
    BY <1>7
  <2>2. cs \in [1..(n - 1) -> CallFrame]
    BY <2>1
  <2> HIDE DEF cs
  <2>3. CASE n = 0
    <3>1. 1..(n - 1) = 1..0
      BY <2>3
    <3>2. cs \in [1..0 -> CallFrame]
      BY <2>2, <3>1, Zenon
    <3>3. cs \in Seq(CallFrame) /\ Len(cs) = 0
      BY <3>2
    <3> QED BY <3>3
  <2>4. CASE n # 0
    <3>1. n - 1 \in Nat
      BY <1>3, <2>4
    <3>2. cs \in Seq(CallFrame) /\ Len(cs) = n - 1
      BY <2>2, <3>1
    <3> QED BY <3>2
  <2> QED BY <2>3, <2>4
<1>10. n # 0 => Len(cs) = n - 1
  <2>1. ASSUME n # 0 PROVE Len(cs) = n - 1
    <3>1. n - 1 \in Nat
      BY <1>3, <2>1
    <3> QED BY <3>1
  <2> QED BY <2>1
<1>s. st = words(n)
  OBVIOUS
<1> HIDE DEF cs, st
<1>11. ASSUME NEW i \in 1..Len(cs)
       PROVE  Len(cs[i].locals) <= 15 /\ cs[i].prevStackDepth <= PartEnd(st, cs, i)
  <2>1. i \in 1..(n - 1) /\ i \in 0..(n - 1) /\ n # 0 /\ Len(cs) = n - 1
    BY <1>3, <1>9, <1>10
  <2>2. Len(cs[i].locals) <= 15 /\ cs[i].prevStackDepth = Len(words(i))
    BY <1>7, <1>8, <2>1
  <2>3. Len(words(i)) <= Len(words(i + 1))
    BY <1>5, <2>1
  <2>4. PartEnd(st, cs, i) = Len(words(i + 1))
    <3>1. CASE i = Len(cs)
      <4>1. i + 1 = n
        BY <1>3, <2>1, <3>1
      <4> QED BY <1>s, <3>1, <4>1 DEF PartEnd
    <3>2. CASE i # Len(cs)
      <4>1. i + 1 \in 1..(n - 1) /\ i + 1 # 0
        BY <1>3, <2>1, <3>2
      <4>2. cs[i + 1].prevStackDepth = Len(words(i + 1))
        BY <1>7, <1>8, <4>1
      <4> QED BY <3>2, <4>1, <4>2 DEF PartEnd, PartStart
    <3> QED BY <3>1, <3>2
  <2> QED BY <2>2, <2>3, <2>4
<1> QED BY <1>1, <1>6, <1>9, <1>11, Zenon DEF d

(* A block whose data are bytes. *)
ReadBlock == [type : Int, data : Seq(Byte)]

LEMMA BlockTyped ==
    ASSUME NEW bytes \in Seq(Byte), NEW p \in 1..Len(bytes), BlockFits(bytes, p)
    PROVE  BlockAt(bytes, p) \in ReadBlock
<1> DEFINE l == At4(bytes, p + 4)
           e == DataEndAt(bytes, p)
           t == At4(bytes, p)
           data == SubSeq(bytes, p + 8, e)
<1>1. p + 7 <= Len(bytes) /\ l >= 0 /\ Len(bytes) \in Nat /\ p \in Nat /\ p >= 1
  BY ElementOf DEF BlockFits
<1>2. t \in Int /\ l \in Int
  <2>1. p + 4 \in Nat /\ p + 4 >= 1 /\ (p + 4) + 3 <= Len(bytes) /\ p + 3 <= Len(bytes)
    BY <1>1
  <2> QED BY <1>1, <2>1, NumberInBytes
<1>3. e = IF p + 7 + l <= Len(bytes) THEN p + 7 + l ELSE Len(bytes)
  BY DEF DataEndAt
<1> HIDE DEF l, e
<1>4. e \in Nat /\ p + 8 <= e + 1 /\ e <= Len(bytes)
  BY <1>1, <1>2, <1>3
<1>5. data \in Seq(Byte)
  <2> DEFINE a == p + 8
  <2>1. a \in Nat /\ a >= 1 /\ a <= e + 1
    BY <1>1, <1>4
  <2> HIDE DEF a
  <2>2. SubSeq(bytes, a, e) \in Seq(Byte)
    BY <1>4, <2>1, PartOf
  <2> QED BY <2>2 DEF a
<1>6. BlockAt(bytes, p) = [type |-> t, data |-> data]
  BY Zenon DEF BlockAt, Block, e
<1> HIDE DEF t, data
<1>7. [type |-> t, data |-> data] \in ReadBlock
  BY <1>2, <1>5 DEF ReadBlock
<1> QED BY <1>6, <1>7

LEMMA BlocksTyped ==
    ASSUME NEW bytes \in Seq(Byte)
    PROVE  BlocksIn(bytes).blocks \in Seq(ReadBlock)
<1> DEFINE n == Len(bytes)
           V == [ok : BOOLEAN, blocks : Seq(ReadBlock)]
<1>0. n \in Nat
  BY ElementOf
<1>1. PICK from : /\ BlocksFrom(from, bytes)
                  /\ BlocksIn(bytes) = IF HeaderFits(bytes) THEN from[13] ELSE NotRead
  BY BlocksInIs
<1>2. \A p \in 1..n + 1 :
          from[p] = IF p > FileEnd(bytes) THEN AllRead
                    ELSE IF ~BlockFits(bytes, p) THEN NotRead
                    ELSE WithBlock(BlockAt(bytes, p), from[AfterAt(bytes, p)])
  BY <1>1, Zenon DEF BlocksFrom
<1>3. AllRead \in V /\ NotRead \in V
  BY DEF AllRead, NotRead
<1>4. \A x \in ReadBlock : \A v \in V : WithBlock(x, v) \in V
  <2> SUFFICES ASSUME NEW x \in ReadBlock, NEW v \in V PROVE WithBlock(x, v) \in V
    OBVIOUS
  <2> DEFINE one == <<x>>
             w == one \o v.blocks
  <2>1. v.blocks \in Seq(ReadBlock) /\ v.ok \in BOOLEAN /\ v = [ok |-> v.ok, blocks |-> v.blocks]
    OBVIOUS
  <2>2. one \in Seq(ReadBlock)
    OBVIOUS
  <2>3. WithBlock(x, v) = [v EXCEPT !.blocks = w]
    BY Zenon DEF WithBlock
  <2> HIDE DEF one
  <2>4. w \in Seq(ReadBlock)
    BY <2>1, <2>2, Concat
  <2> HIDE DEF w
  <2>5. [v EXCEPT !.blocks = w] \in V
    BY <2>1, <2>4
  <2> QED BY <2>3, <2>5
<1> DEFINE T == {p \in 1..n + 1 : from[p] \in V}
<1> HIDE DEF V
<1>5. n + 1 \in T
  <2>1. n + 1 \in 1..n + 1 /\ ~((n + 1) + 7 <= n)
    BY <1>0
  <2>2. ~BlockFits(bytes, n + 1)
    BY <2>1 DEF BlockFits
  <2>3. from[n + 1] \in V
    BY <1>2, <1>3, <2>1, <2>2
  <2> QED BY <2>1, <2>3
<1>6. ASSUME NEW p \in 1..n, \A j \in p + 1..n + 1 : j \in T PROVE p \in T
  <2>1. p \in 1..n + 1
    BY <1>0
  <2>2. CASE BlockFits(bytes, p)
    <3>1. AfterAt(bytes, p) \in p + 1..n + 1 /\ BlockAt(bytes, p) \in ReadBlock
      BY <2>2, BlockEndsAfter, BlockTyped
    <3>2. from[AfterAt(bytes, p)] \in V
      BY <1>6, <3>1
    <3>3. from[p] \in V
      BY <1>2, <1>3, <1>4, <2>1, <2>2, <3>1, <3>2
    <3> QED BY <2>1, <3>3
  <2>3. CASE ~BlockFits(bytes, p)
    <3>1. from[p] \in V
      BY <1>2, <1>3, <2>1, <2>3
    <3> QED BY <2>1, <3>1
  <2> QED BY <2>2, <2>3
<1> HIDE DEF T
<1>7. \A p \in 1..n + 1 : p \in T
  BY <1>0, <1>5, <1>6, InductionDown
<1>8. BlocksIn(bytes) \in V
  <2>1. CASE HeaderFits(bytes)
    <3>1. 13 \in 1..n + 1
      BY <1>0, <2>1 DEF HeaderFits
    <3>2. from[13] \in V
      BY <1>7, <3>1 DEF T
    <3> QED BY <1>1, <2>1, <3>2
  <2>2. CASE ~HeaderFits(bytes)
    BY <1>1, <1>3, <2>2
  <2> QED BY <2>1, <2>2
<1> QED BY <1>8 DEF V

LEMMA BlockFound ==
    ASSUME NEW blocks \in Seq(ReadBlock), NEW type, HasBlock(blocks, type)
    PROVE  GetBlock(blocks, type) \in Seq(Byte)
<1> DEFINE T == {i \in 1..Len(blocks) : blocks[i].type = type}
<1>1. T \subseteq Nat /\ T # {}
  BY DEF HasBlock
<1>2. Min(T) \in T
  <2> HIDE DEF T
  <2> QED BY <1>1, MinIsLeast
<1> DEFINE k == Min(T)
<1>3. k \in 1..Len(blocks)
  BY <1>2
<1>4. GetBlock(blocks, type) = blocks[k].data
  BY Zenon DEF GetBlock
<1> HIDE DEF k, T
<1>5. blocks[k] \in ReadBlock
  BY <1>3, ElementOf
<1>6. \A b \in ReadBlock : b.data \in Seq(Byte)
  BY DEF ReadBlock
<1> QED BY <1>4, <1>5, <1>6

(* A machine is one of the code's, and its frames cut its stack. *)
Holds(m) ==
    /\ m \in ZMachine
    /\ \A i \in 1..Len(m.callStack) :
           /\ Len(m.callStack[i].locals) <= 15
           /\ m.callStack[i].prevStackDepth <= PartEnd(m.stack, m.callStack, i)

LEMMA GameTyped ==
    ASSUME NEW bytes \in Seq(Byte), GameIn(bytes) # None
    PROVE  Holds(GameIn(bytes))
<1> DEFINE blocks == BlocksIn(bytes).blocks
           Has(type) == HasBlock(blocks, type)
           ram == IF Has(CMem) THEN UncompressRAM(GetBlock(blocks, CMem))
                  ELSE IF Has(UMem) THEN GetBlock(blocks, UMem)
                  ELSE <<>>
           h == GetBlock(blocks, IFhd)
           d == DeserializeStacks(GetBlock(blocks, Stks))
           st == d.stack
           cs == d.callStack
           p == SavedPC(h)
           game == [ram |-> ram, stack |-> st, callStack |-> cs, pc |-> p]
<1>1. blocks \in Seq(ReadBlock)
  BY BlocksTyped
<1>2. GameIn(bytes) = IF \/ ~BlocksIn(bytes).ok
                         \/ ~Has(IFhd) \/ ~VerifyIFHD(h)
                         \/ Len(ram) # RomStart
                         \/ ~Has(Stks) \/ ~d.ok
                      THEN None ELSE game
  BY Zenon DEF GameIn
<1> HIDE DEF game
<1>3. GameIn(bytes) = game /\ Has(IFhd) /\ VerifyIFHD(h) /\ Len(ram) = RomStart /\ Has(Stks)
  BY <1>2, Zenon
<1> HIDE DEF blocks
<1>4. /\ ram \in [1..RomStart -> Byte]
  <2>1. ram \in Seq(Byte)
    <3>1. CASE Has(CMem)
      <4>1. GetBlock(blocks, CMem) \in Seq(Byte)
        BY <1>1, <3>1, BlockFound
      <4>2. UncompressRAM(GetBlock(blocks, CMem)) \in Seq(Byte)
        BY <4>1, UncompressTyped
      <4> QED BY <3>1, <4>2
    <3>2. CASE ~Has(CMem) /\ Has(UMem)
      <4>1. GetBlock(blocks, UMem) \in Seq(Byte)
        BY <1>1, <3>2, BlockFound
      <4> QED BY <3>2, <4>1
    <3>3. CASE ~Has(CMem) /\ ~Has(UMem)
      <4>1. ram = <<>>
        BY <3>3, Zenon
      <4> HIDE DEF ram
      <4> QED BY <4>1
    <3> QED BY <3>1, <3>2, <3>3
  <2> HIDE DEF ram
  <2>2. Len(ram) = RomStart
    BY <1>3
  <2> QED BY <2>1, <2>2
<1>5. /\ st \in Seq(Word) /\ cs \in Seq(CallFrame)
      /\ \A i \in 1..Len(cs) : /\ Len(cs[i].locals) <= 15
                               /\ cs[i].prevStackDepth <= PartEnd(st, cs, i)
  <2> DEFINE s == GetBlock(blocks, Stks)
  <2>1. s \in Seq(Byte)
    BY <1>1, <1>3, BlockFound
  <2> HIDE DEF s
  <2>2. LET r == DeserializeStacks(s)
        IN  /\ r.stack \in Seq(Word) /\ r.callStack \in Seq(CallFrame)
            /\ \A i \in 1..Len(r.callStack) :
                   /\ Len(r.callStack[i].locals) <= 15
                   /\ r.callStack[i].prevStackDepth <= PartEnd(r.stack, r.callStack, i)
    BY <2>1, StacksTyped
  <2> QED BY <2>2, Zenon DEF s
<1>6. p \in Int
  <2>1. h \in Seq(Byte)
    BY <1>1, <1>3, BlockFound
  <2>2. Len(h) >= 13
    BY <1>3 DEF VerifyIFHD
  <2> HIDE DEF h
  <2>3. 11 \in Nat /\ 11 >= 1 /\ 11 + 2 <= Len(h)
    <3>1. Len(h) \in Nat
      BY <2>1, ElementOf
    <3> QED BY <2>2, <3>1
  <2>4. At3(h, 11) \in Nat
    BY <2>1, <2>3, ThreeTyped
  <2> QED BY <2>4 DEF SavedPC
<1> HIDE DEF ram, st, cs, p, d
<1>7. game \in ZMachine /\ game.stack = st /\ game.callStack = cs
  BY <1>4, <1>5, <1>6 DEF ZMachine, game
<1> HIDE DEF game
<1>8. Holds(game)
  BY <1>5, <1>7, Zenon DEF Holds
<1> QED BY <1>3, <1>8, Zenon

-----------------------------------------------------------------------------
(* The machine, whatever an instruction makes of it *)

LEMMA MachineIs ==
    ASSUME NEW m, m \in ZMachine
    PROVE  /\ m.ram \in [1..RomStart -> Byte] /\ m.stack \in Seq(Word)
           /\ m.callStack \in Seq(CallFrame) /\ m.pc \in Int
           /\ m = [ram |-> m.ram, stack |-> m.stack, callStack |-> m.callStack, pc |-> m.pc]
           /\ Len(m.callStack) \in Nat /\ Len(m.stack) \in Nat
           /\ \A i \in 1..Len(m.callStack) :
                  /\ m.callStack[i] \in CallFrame
                  /\ m.callStack[i].prevStackDepth \in Nat
<1>1. /\ m.ram \in [1..RomStart -> Byte] /\ m.stack \in Seq(Word)
      /\ m.callStack \in Seq(CallFrame) /\ m.pc \in Int
      /\ m = [ram |-> m.ram, stack |-> m.stack, callStack |-> m.callStack, pc |-> m.pc]
  BY DEF ZMachine
<1>2. Len(m.callStack) \in Nat /\ \A i \in 1..Len(m.callStack) : m.callStack[i] \in CallFrame
  BY <1>1, ElementOf
<1>3. Len(m.stack) \in Nat
  BY <1>1, ElementOf
<1>4. \A f \in CallFrame : f.prevStackDepth \in Nat
  BY DEF CallFrame
<1> QED BY <1>1, <1>2, <1>3, <1>4

LEMMA SavableHolds ==
    ASSUME NEW m, Savable(m)
    PROVE  Holds(m)
<1> DEFINE cs == m.callStack
           st == m.stack
<1>1. m \in ZMachine /\ \A i \in 1..Len(cs) : Len(cs[i].locals) <= 15
  BY DEF Savable
<1>2. /\ CutAt(Ends(m), st, Len(cs) + 1)
      /\ \A i \in 1..(Len(cs) + 1) :
             /\ Ends(m)[i - 1] = PartStart(cs, i - 1)
             /\ Ends(m)[i] = PartEnd(st, cs, i - 1)
  BY EndsCut, Zenon
<1>3. st \in Seq(Word) /\ Len(cs) \in Nat
  BY SavableIs
<1>4. ASSUME NEW i \in 1..Len(cs) PROVE cs[i].prevStackDepth <= PartEnd(st, cs, i)
  <2> DEFINE E == Ends(m)
             n == Len(cs) + 1
             k == i + 1
  <2>1. k \in 1..n /\ k - 1 = i /\ i # 0
    BY <1>3
  <2>2. E[i] = PartStart(cs, i) /\ E[k] = PartEnd(st, cs, i)
    BY <1>2, <2>1
  <2>3. CutAt(E, st, n)
    BY <1>2
  <2> HIDE DEF E, n, k
  <2>4. APartOf(E, st, k)
    BY <1>3, <2>1, <2>3, CutParts, Zenon
  <2>5. E[k - 1] <= E[k]
    BY <2>4, Zenon DEF APartOf
  <2>6. E[i] = cs[i].prevStackDepth
    BY <2>1, <2>2 DEF PartStart
  <2> QED BY <2>1, <2>2, <2>5, <2>6
<1> QED BY <1>1, <1>4 DEF Holds

LEMMA WithPC ==
    ASSUME NEW m, m \in ZMachine, NEW p
    PROVE  LET u == [m EXCEPT !.pc = p]
           IN  /\ u.ram = m.ram /\ u.stack = m.stack /\ u.callStack = m.callStack /\ u.pc = p
               /\ p \in Int => u \in ZMachine
<1> DEFINE u == [m EXCEPT !.pc = p]
<1>1. u.ram = m.ram /\ u.stack = m.stack /\ u.callStack = m.callStack /\ u.pc = p
  BY DEF ZMachine
<1>2. ASSUME p \in Int PROVE u \in ZMachine
  BY <1>2 DEF ZMachine
<1> QED BY <1>1, <1>2

LEMMA HoldsWithPC ==
    ASSUME NEW m, Holds(m), NEW p \in Int
    PROVE  Holds([m EXCEPT !.pc = p])
<1> DEFINE u == [m EXCEPT !.pc = p]
<1>1. m \in ZMachine
  BY DEF Holds
<1>2. u \in ZMachine /\ u.stack = m.stack /\ u.callStack = m.callStack
  BY <1>1, WithPC, Zenon
<1> HIDE DEF u
<1>3. Holds(u)
  BY <1>2, Zenon DEF Holds
<1> QED BY <1>3 DEF u

LEMMA HoldsWithRam ==
    ASSUME NEW m, Holds(m), NEW r \in [1..RomStart -> Byte]
    PROVE  Holds([m EXCEPT !.ram = r])
<1> DEFINE u == [m EXCEPT !.ram = r]
<1>1. m \in ZMachine
  BY DEF Holds
<1>2. u \in ZMachine
  BY <1>1 DEF ZMachine
<1>3. u.stack = m.stack /\ u.callStack = m.callStack
  BY <1>1 DEF ZMachine
<1> HIDE DEF u
<1>4. Holds(u)
  BY <1>2, <1>3, Zenon DEF Holds
<1> QED BY <1>4 DEF u

LEMMA HeaderHolds ==
    ASSUME NEW m, Holds(m)
    PROVE  Holds(ResetHeaderFields(m))
<1> DEFINE r == [a \in DOMAIN m.ram |-> IF a - 1 \in DOMAIN Header THEN Header[a - 1] ELSE m.ram[a]]
<1>1. m.ram \in [1..RomStart -> Byte]
  BY MachineIs DEF Holds
<1>2. r \in [1..RomStart -> Byte]
  BY <1>1, HeaderAssumption
<1>3. ResetHeaderFields(m) = [m EXCEPT !.ram = r]
  BY Zenon DEF ResetHeaderFields
<1> HIDE DEF r
<1> QED BY <1>2, <1>3, HoldsWithRam

LEMMA HoldsPushed ==
    ASSUME NEW m, Holds(m), NEW w \in Word
    PROVE  Holds([m EXCEPT !.stack = Append(@, w)])
<1> DEFINE s == Append(m.stack, w)
           u == [m EXCEPT !.stack = s]
           cs == m.callStack
<1>1. m \in ZMachine /\ \A i \in 1..Len(cs) :
          Len(cs[i].locals) <= 15 /\ cs[i].prevStackDepth <= PartEnd(m.stack, cs, i)
  BY DEF Holds
<1>2. /\ m.stack \in Seq(Word) /\ Len(m.stack) \in Nat /\ Len(cs) \in Nat
      /\ \A i \in 1..Len(cs) : cs[i].prevStackDepth \in Nat
  BY <1>1, MachineIs
<1>3. s \in Seq(Word) /\ Len(s) = Len(m.stack) + 1
  BY <1>2
<1> HIDE DEF s
<1>4. u \in ZMachine
  BY <1>1, <1>3 DEF ZMachine
<1>5. u.stack = s /\ u.callStack = cs
  BY <1>1 DEF ZMachine
<1>6. ASSUME NEW i \in 1..Len(cs) PROVE cs[i].prevStackDepth <= PartEnd(s, cs, i)
  <2>1. cs[i].prevStackDepth <= PartEnd(m.stack, cs, i)
    BY <1>1
  <2> HIDE DEF cs
  <2>2. CASE i = Len(cs)
    <3>1. PartEnd(m.stack, cs, i) = Len(m.stack) /\ PartEnd(s, cs, i) = Len(s)
      BY <2>2 DEF PartEnd
    <3> QED BY <1>2, <1>3, <2>1, <3>1
  <2>3. CASE i # Len(cs)
    <3>1. PartEnd(m.stack, cs, i) = PartEnd(s, cs, i)
      BY <2>3 DEF PartEnd
    <3> QED BY <2>1, <3>1
  <2> QED BY <2>2, <2>3
<1> HIDE DEF u
<1>7. Holds(u)
  BY <1>1, <1>4, <1>5, <1>6, Zenon DEF Holds
<1>8. [m EXCEPT !.stack = Append(@, w)] = u
  BY Zenon DEF u, s
<1> QED BY <1>7, <1>8

LEMMA HoldsWithLocal ==
    ASSUME NEW m, Holds(m), NEW w \in Word, Len(m.callStack) > 0,
           NEW d \in 1..15, d <= Len(m.callStack[Len(m.callStack)].locals)
    PROVE  Holds([m EXCEPT !.callStack[TopFrame(m)].locals[d] = w])
<1> DEFINE cs == m.callStack
           k == Len(cs)
           f == cs[k]
           ls == f.locals
           newLs == [ls EXCEPT ![d] = w]
           newF == [f EXCEPT !.locals = newLs]
           newCs == [cs EXCEPT ![k] = newF]
           u == [m EXCEPT !.callStack = newCs]
<1>1. m \in ZMachine /\ \A i \in 1..Len(cs) :
          Len(cs[i].locals) <= 15 /\ cs[i].prevStackDepth <= PartEnd(m.stack, cs, i)
  BY DEF Holds
<1>2. cs \in Seq(CallFrame) /\ k \in Nat /\ \A i \in 1..Len(cs) : cs[i] \in CallFrame
  BY <1>1, MachineIs
<1>3. k \in 1..Len(cs) /\ k > 0
  BY <1>2
<1>4. f \in CallFrame
  BY <1>2, <1>3
<1>5. u = [m EXCEPT !.callStack[TopFrame(m)].locals[d] = w]
  BY Zenon DEF TopFrame
<1> HIDE DEF u, newCs, newF, cs, k
<1>6. ls \in Seq(Word) /\ Len(ls) \in Nat
  <2>1. ls \in Seq(Word)
    BY <1>4 DEF CallFrame
  <2> QED BY <2>1, ElementOf
<1>7. newLs \in Seq(Word) /\ Len(newLs) = Len(ls)
  <2>1. d <= Len(ls)
    BY DEF k, cs
  <2> HIDE DEF ls
  <2>2. d \in 1..Len(ls)
    BY <1>6, <2>1
  <2> QED BY <1>6, <2>2
<1> HIDE DEF ls, newLs
<1>8. newF \in CallFrame /\ newF.locals = newLs /\ newF.prevStackDepth = f.prevStackDepth
  <2> HIDE DEF f
  <2> QED BY <1>4, <1>7 DEF CallFrame, newF
<1>9. /\ newCs \in Seq(CallFrame) /\ Len(newCs) = Len(cs)
      /\ \A i \in 1..Len(cs) : newCs[i] = IF i = k THEN newF ELSE cs[i]
  BY <1>2, <1>3, <1>8 DEF newCs
<1>10. \A i \in 1..Len(cs) : newCs[i].prevStackDepth = cs[i].prevStackDepth
  BY <1>8, <1>9
<1>11. \A i \in 1..Len(cs) : Len(newCs[i].locals) <= 15
  <2> SUFFICES ASSUME NEW i \in 1..Len(cs) PROVE Len(newCs[i].locals) <= 15
    OBVIOUS
  <2>1. CASE i = k
    <3>1. newCs[i].locals = newLs /\ Len(cs[k].locals) <= 15
      BY <1>1, <1>3, <1>8, <1>9, <2>1
    <3> QED BY <1>7, <3>1 DEF ls
  <2>2. CASE i # k
    BY <1>1, <1>9, <2>2
  <2> QED BY <2>1, <2>2
<1>12. \A i \in 1..Len(cs) : PartEnd(m.stack, newCs, i) = PartEnd(m.stack, cs, i)
  <2> SUFFICES ASSUME NEW i \in 1..Len(cs)
               PROVE  PartEnd(m.stack, newCs, i) = PartEnd(m.stack, cs, i)
    OBVIOUS
  <2>1. CASE i = Len(cs)
    BY <1>9, <2>1 DEF PartEnd
  <2>2. CASE i # Len(cs)
    <3>1. i + 1 \in 1..Len(cs) /\ i + 1 # 0
      BY <1>2, <2>2 DEF k
    <3> QED BY <1>9, <1>10, <2>2, <3>1 DEF PartEnd, PartStart
  <2> QED BY <2>1, <2>2
<1>13. u \in ZMachine
  BY <1>1, <1>9 DEF ZMachine, u
<1>14. u.stack = m.stack /\ u.callStack = newCs
  BY <1>1 DEF ZMachine, u
<1>15. Holds(u)
  BY <1>1, <1>9, <1>10, <1>11, <1>12, <1>13, <1>14, Zenon DEF Holds
<1> QED BY <1>5, <1>15

LEMMA SmallWords == \A r \in {0, 1, 2} : r \in Word
BY WordIs

LEMMA HoldsWithGlobal ==
    ASSUME NEW m, Holds(m), NEW a, NEW b, NEW x \in Byte, NEW y \in Byte
    PROVE  Holds([m EXCEPT !.ram[a] = x, !.ram[b] = y])
<1> DEFINE r == [m.ram EXCEPT ![a] = x]
           t == [r EXCEPT ![b] = y]
<1>1. m \in ZMachine
  BY DEF Holds
<1>2. m.ram \in [1..RomStart -> Byte]
  BY <1>1, MachineIs
<1>3. t \in [1..RomStart -> Byte]
  BY <1>2
<1>4. [m EXCEPT !.ram[a] = x, !.ram[b] = y] = [m EXCEPT !.ram = t]
  <2> DEFINE c == m.ram
             d == m.stack
             e == m.callStack
             p == m.pc
             n == [ram |-> c, stack |-> d, callStack |-> e, pc |-> p]
  <2>1. m = n
    BY <1>1, MachineIs
  <2>2. t = [[c EXCEPT ![a] = x] EXCEPT ![b] = y]
    OBVIOUS
  <2> HIDE DEF t, r, c, d, e, p
  <2>3. [n EXCEPT !.ram[a] = x, !.ram[b] = y] = [n EXCEPT !.ram = t]
    BY <2>2
  <2> HIDE DEF n
  <2> QED BY <2>1, <2>3
<1> HIDE DEF t
<1>5. Holds([m EXCEPT !.ram = t])
  BY <1>3, HoldsWithRam
<1> QED BY <1>4, <1>5

(* What an instruction stores goes to the stack, a local or memory. *)
LEMMA StoreHolds ==
    ASSUME NEW m, Holds(m), NEW d \in Byte, HasVariable(m, d), NEW r \in {0, 1, 2}
    PROVE  Holds(StoreResult(m, d, r))
<1>1. r \in Word /\ r \in Int
  BY SmallWords
<1>2. CASE d = 0
  <2>1. StoreResult(m, d, r) = [m EXCEPT !.stack = Append(@, r)]
    BY <1>2 DEF StoreResult
  <2>2. Holds([m EXCEPT !.stack = Append(@, r)])
    BY <1>1, HoldsPushed, Zenon
  <2> QED BY <2>1, <2>2, Zenon
<1>3. CASE d \in 1..15
  <2>1. StoreResult(m, d, r) = [m EXCEPT !.callStack[TopFrame(m)].locals[d] = r]
    BY <1>3 DEF StoreResult
  <2>2. Len(m.callStack) > 0 /\ d <= Len(m.callStack[Len(m.callStack)].locals)
    BY <1>3 DEF HasVariable
  <2>3. Holds([m EXCEPT !.callStack[TopFrame(m)].locals[d] = r])
    BY <1>1, <1>3, <2>2, HoldsWithLocal, Zenon
  <2> QED BY <2>1, <2>3, Zenon
<1>4. CASE d # 0 /\ d \notin 1..15
  <2> DEFINE a == Globals + 2 * (d - 16)
             bytes == Bytes2(r % 65536)
             b == a + 1
             c == a + 2
             x == bytes[1]
             y == bytes[2]
             v == r % 65536
             p == v \div 2^8
  <2>1. v \in Int /\ p \in Int
    BY <1>1
  <2>2. x \in Byte /\ y \in Byte
    <3>1. x = p % 256 /\ y = v % 256
      BY DEF Bytes2
    <3> HIDE DEF x, y, p, v
    <3> QED BY <2>1, <3>1, LowByte
  <2>3. StoreResult(m, d, r) = [m EXCEPT !.ram[b] = x, !.ram[c] = y]
    <3> QED BY <1>4 DEF StoreResult, a, b, c, x, y, bytes
  <2> HIDE DEF a, b, c, x, y, bytes
  <2>4. Holds([m EXCEPT !.ram[b] = x, !.ram[c] = y])
    BY <2>2, HoldsWithGlobal
  <2> QED BY <2>3, <2>4
<1> QED BY <1>2, <1>3, <1>4

(* A byte that can be read is one. *)
LEMMA GetByteIs ==
    ASSUME NEW m, Holds(m), NEW a, InMemory(a)
    PROVE  GetByte(m, a) \in Byte
<1>1. m.ram \in [1..RomStart -> Byte]
  BY MachineIs DEF Holds
<1>2. HighMemory \in Seq(Byte) /\ RomStart \in Nat /\ Len(HighMemory) \in Nat
  <2>1. HighMemory \in Seq(Byte)
    BY MemoryAssumption
  <2>2. RomStart \in Nat
    BY StoryBytes
  <2> QED BY <2>1, <2>2, ElementOf
<1>3. a \in Int /\ 0 <= a /\ a < RomStart + Len(HighMemory)
  BY <1>2 DEF InMemory, MemorySize
<1>4. CASE a < RomStart
  <2>1. a + 1 \in 1..RomStart
    BY <1>2, <1>3, <1>4
  <2>2. GetByte(m, a) = m.ram[a + 1]
    BY <1>4 DEF GetByte
  <2> QED BY <1>1, <2>1, <2>2
<1>5. CASE ~(a < RomStart)
  <2>1. a - RomStart + 1 \in 1..Len(HighMemory)
    BY <1>2, <1>3, <1>5
  <2>2. GetByte(m, a) = HighMemory[a - RomStart + 1]
    BY <1>5 DEF GetByte
  <2>3. \A i \in 1..Len(HighMemory) : HighMemory[i] \in Byte
    BY <1>2, ElementOf
  <2> QED BY <2>1, <2>2, <2>3
<1> QED BY <1>4, <1>5

(* A branch that can be read. *)
Readable(m) == InMemory(m.pc) /\ (IsShort(m) \/ InMemory(m.pc + 1))

LEMMA FarPower == 2^14 \in Int
OBVIOUS

LEMMA BranchHolds ==
    ASSUME NEW m, Holds(m), Readable(m), NEW true \in BOOLEAN
    PROVE  Holds(BranchOn(m, true))
<1> DEFINE p == m.pc
           x == GetByte(m, p)
           y == GetByte(m, p + 1)
           short == IsShort(m)
           far == 256 * (x % 64) + y
           offset == IF short THEN x % 64 ELSE IF far >= 2^13 THEN far - 2^14 ELSE far
           end == p + (IF short THEN 1 ELSE 2)
           branch == DecodeBranch(m)
<1>1. p \in Int
  BY MachineIs DEF Holds
<1>2. x \in Byte /\ (~short => y \in Byte)
  BY GetByteIs, Zenon DEF Readable
<1>3. branch.offset = offset /\ branch.end = end
  BY DEF DecodeBranch
<1> HIDE DEF p, x, y, short
<1>4. offset \in Int /\ end \in Int
  <2>1. x \in Int /\ (~short => y \in Int) /\ x % 64 \in Int
    BY <1>2, ByteIs
  <2>2. ~short => far \in Int
    BY <2>1
  <2>3. 2^14 \in Int
    BY FarPower
  <2>5. ~short => far - 2^14 \in Int
    BY <2>2, <2>3
  <2> HIDE DEF far
  <2>6. offset \in {x % 64, far, far - 2^14} /\ (short => offset = x % 64)
        /\ (~short => offset \in {far, far - 2^14})
    BY Zenon
  <2> HIDE DEF offset
  <2>4. offset \in Int
    BY <2>1, <2>2, <2>5, <2>6, Zenon
  <2>7. end = p + 1 \/ end = p + 2
    BY Zenon
  <2> HIDE DEF offset, end
  <2> QED BY <1>1, <2>4, <2>7
<1> DEFINE q == IF branch.ifTrue = true THEN branch.end + branch.offset - 2 ELSE branch.end
<1>5. BranchOn(m, true) = [m EXCEPT !.pc = q]
  BY Zenon DEF BranchOn
<1> HIDE DEF offset, end, branch
<1>6. q \in Int
  <2>1. q = branch.end + branch.offset - 2 \/ q = branch.end
    BY Zenon
  <2> HIDE DEF q
  <2> QED BY <1>3, <1>4, <2>1
<1> HIDE DEF q
<1> QED BY <1>5, <1>6, HoldsWithPC

LEMMA StoreHereHolds ==
    ASSUME NEW m, Holds(m), InMemory(m.pc), HasVariable(m, GetByte(m, m.pc)),
           NEW r \in {0, 1, 2}
    PROVE  Holds(StoreHere(m, r))
<1> DEFINE d == GetByte(m, m.pc)
           u == StoreResult(m, d, r)
           p == m.pc + 1
<1>1. d \in Byte
  BY GetByteIs
<1>2. HasVariable(m, d)
  OBVIOUS
<1>3. p \in Int
  <2>1. m.pc \in Int
    BY MachineIs DEF Holds
  <2> QED BY <2>1
<1>4. StoreHere(m, r) = [u EXCEPT !.pc = p]
  BY Zenon DEF StoreHere
<1> HIDE DEF d, p
<1>5. Holds(u)
  BY <1>1, <1>2, StoreHolds
<1> HIDE DEF u
<1> QED BY <1>3, <1>4, <1>5, HoldsWithPC

LEMMA ContinuedHolds ==
    ASSUME NEW g, Holds(g), CanGoOn(g)
    PROVE  Holds(Continued(g))
<1>1. CASE Branching
  <2>1. Readable(g)
    BY <1>1 DEF CanGoOn, Readable
  <2>2. Holds(BranchOn(g, TRUE))
    BY <2>1, BranchHolds
  <2> QED BY <1>1, <2>2 DEF Continued
<1>2. CASE ~Branching
  <2>1. InMemory(g.pc) /\ HasVariable(g, GetByte(g, g.pc))
    BY <1>2 DEF CanGoOn
  <2>2. Holds(StoreHere(g, 2))
    <3>1. 2 \in {0, 1, 2}
      OBVIOUS
    <3> QED BY <2>1, <3>1, StoreHereHolds
  <2> QED BY <1>2, <2>2 DEF Continued
<1> QED BY <1>1, <1>2

LEMMA StrandedHolds ==
    ASSUME NEW g, Holds(g)
    PROVE  Holds(Stranded(g))
<1> DEFINE p == g.pc + (IF Branching /\ InMemory(g.pc) THEN 2 ELSE 1)
<1>1. g.pc \in Int
  BY MachineIs DEF Holds
<1>2. p \in Int
  BY <1>1
<1>3. Stranded(g) = [g EXCEPT !.pc = p]
  BY Zenon DEF Stranded
<1> HIDE DEF p
<1> QED BY <1>2, <1>3, HoldsWithPC

LEMMA SiteIs ==
    ASSUME version \in Versions, NEW site \in Sites
    PROVE  /\ SavedPlace(site) \in 0..(2^24 - 1) /\ SavedPlace(site) \in Int
           /\ InMemory(SavedPlace(site)) /\ InMemory(SavedPlace(site) + 1)
           /\ RetryPC(site) \in Int
<1> DEFINE p == SavedPlace(site)
           top == 2^24
           size == MemorySize
<1>1. site \in RomStart..(top - 4) /\ InMemory(p + 1) /\ RomStart \in Nat /\ top \in Nat
  BY SitesAssumption, StoryBytes, Powers DEF SavedPlace
<1>2. p = site + 1 \/ p = site + 3
  BY DEF SavedPlace, PlaceIn
<1> HIDE DEF p, top
<1>3. site \in Nat /\ site <= top - 4
  BY <1>1
<1>4. p \in Nat /\ p <= top - 1
  BY <1>1, <1>2, <1>3
<1>5. p \in 0..(top - 1)
  BY <1>1, <1>4
<1>6. InMemory(p)
  <2>1. size \in Int
    <3>1. Len(HighMemory) \in Nat
      BY MemoryAssumption, ElementOf
    <3> QED BY <1>1, <3>1 DEF MemorySize
  <2>2. \A a : InMemory(a) <=> a \in 0..(size - 1)
    BY DEF InMemory
  <2> HIDE DEF size
  <2>3. p + 1 \in 0..(size - 1)
    BY <1>1, <2>2
  <2>4. p \in 0..(size - 1)
    BY <1>4, <2>1, <2>3
  <2> QED BY <2>2, <2>4
<1>7. RetryPC(site) \in Int
  BY <1>3 DEF RetryPC
<1> QED BY <1>1, <1>4, <1>5, <1>6, <1>7 DEF p, top

LEMMA AtPlaceIs ==
    ASSUME version \in Versions, NEW m, Holds(m), NEW site \in Sites
    PROVE  LET u == AtPlace(m, site)
           IN  /\ Holds(u) /\ u.ram = m.ram /\ u.callStack = m.callStack
               /\ u.pc = SavedPlace(site) /\ Readable(u)
               /\ \A a : GetByte(u, a) = GetByte(m, a)
               /\ \A d : HasVariable(u, d) <=> HasVariable(m, d)
<1> DEFINE p == SavedPlace(site)
           u == AtPlace(m, site)
<1>1. p \in Int /\ InMemory(p) /\ InMemory(p + 1)
  BY SiteIs
<1>2. u = [m EXCEPT !.pc = p]
  BY Zenon DEF AtPlace
<1> HIDE DEF p, u
<1>3. m \in ZMachine
  BY DEF Holds
<1>4. u.ram = m.ram /\ u.callStack = m.callStack /\ u.pc = p
  BY <1>2, <1>3, WithPC, Zenon
<1>5. Holds(u)
  BY <1>1, <1>2, HoldsWithPC
<1>6. \A a : GetByte(u, a) = GetByte(m, a)
  BY <1>4, Zenon DEF GetByte
<1>7. \A d : HasVariable(u, d) <=> HasVariable(m, d)
  BY <1>4, Zenon DEF HasVariable
<1>8. Readable(u)
  BY <1>1, <1>4, Zenon DEF Readable
<1> QED BY <1>4, <1>5, <1>6, <1>7, <1>8 DEF p, u

(* What the program saves can go on. *)
LEMMA SavedGoesOn ==
    ASSUME version \in Versions, NEW m, Holds(m), NEW site \in Sites, Saves(m, site)
    PROVE  CanGoOn(AtPlace(m, site))
<1> DEFINE u == AtPlace(m, site)
<1>1. /\ u.pc = SavedPlace(site) /\ Readable(u)
      /\ \A a : GetByte(u, a) = GetByte(m, a)
      /\ \A d : HasVariable(u, d) <=> HasVariable(m, d)
  BY AtPlaceIs, Zenon
<1> HIDE DEF u
<1>2. ASSUME Branching PROVE CanGoOn(u)
  BY <1>1, <1>2, Zenon DEF CanGoOn, Readable
<1>3. ASSUME ~Branching PROVE CanGoOn(u)
  <2>1. HasVariable(m, GetByte(m, SavedPlace(site)))
    BY <1>3 DEF Saves
  <2>2. HasVariable(u, GetByte(u, u.pc)) /\ InMemory(u.pc)
    BY <1>1, <2>1, Zenon DEF Readable
  <2> QED BY <1>3, <2>2, Zenon DEF CanGoOn
<1> QED BY <1>2, <1>3 DEF u

LEMMA AnsweredHolds ==
    ASSUME version \in Versions, NEW m, Holds(m), NEW site \in Sites, Saves(m, site),
           NEW ok \in BOOLEAN
    PROVE  Holds(Answered(m, site, ok))
<1> DEFINE u == AtPlace(m, site)
           r == IF ok THEN 1 ELSE 0
<1>1. Holds(u) /\ Readable(u) /\ CanGoOn(u)
  BY AtPlaceIs, SavedGoesOn, Zenon
<1>2. r \in {0, 1, 2}
  OBVIOUS
<1>3. Answered(m, site, ok) = IF Branching THEN BranchOn(u, ok) ELSE StoreHere(u, r)
  BY Zenon DEF Answered
<1> HIDE DEF u, r
<1>4. CASE Branching
  BY <1>1, <1>3, <1>4, BranchHolds
<1>5. CASE ~Branching
  <2>1. InMemory(u.pc) /\ HasVariable(u, GetByte(u, u.pc))
    BY <1>1, <1>5 DEF CanGoOn
  <2> QED BY <1>1, <1>2, <1>3, <1>5, <2>1, StoreHereHolds
<1> QED BY <1>4, <1>5

-----------------------------------------------------------------------------
(* The system: the machine, the file, and what was saved in it *)

MachineInv == Holds(machine)

(* History says what reading the file finds. *)
FileInv == file \in Seq(Byte) /\ saved = GameIn(file)

GamesInv == MachineInv /\ FileInv /\ answer \in BOOLEAN

LEMMA MachinesHold == \A m \in Machines : Savable(m) /\ Holds(m)
<1> SUFFICES ASSUME NEW m \in Machines PROVE Savable(m) /\ Holds(m)
  OBVIOUS
<1>1. Savable(m)
  BY MachinesAssumption
<1> QED BY <1>1, SavableHolds

LEMMA InitInv ==
    ASSUME OtherFilesHold, GamesInit
    PROVE  GamesInv
<1>1. Holds(machine) /\ answer = FALSE
  BY MachinesHold DEF GamesInit
<1>2. PICK other \in OtherFiles : file = other.bytes /\ saved = other.saved
  BY DEF GamesInit
<1>3. other.saved = GameIn(other.bytes)
  BY DEF OtherFilesHold
<1>4. file \in Seq(Byte)
  BY <1>2, OtherFilesAssumption
<1>5. saved = GameIn(file)
  BY <1>2, <1>3, Zenon
<1> QED BY <1>1, <1>4, <1>5 DEF GamesInv, MachineInv, FileInv

(* An answer leaves a machine to go on with. *)
LEMMA AnswersInv ==
    ASSUME version \in Versions, NEW site \in Sites, Saves(machine, site),
           NEW ok \in BOOLEAN, Answers(site, ok)
    PROVE  MachineInv' /\ answer' \in BOOLEAN
<1>1. Holds(machine)
  BY MachinesHold DEF Saves
<1>2. Holds(Answered(machine, site, ok))
  BY <1>1, AnsweredHolds
<1>3. machine' = Answered(machine, site, ok) /\ answer' = ok
  BY DEF Answers
<1> QED BY <1>2, <1>3 DEF MachineInv

LEMMA SaveInv ==
    ASSUME version \in Versions, NEW site \in Sites, Save(site)
    PROVE  GamesInv'
<1> DEFINE p == SavedPlace(site)
           u == AtPlace(machine, site)
<1>1. /\ Saves(machine, site) /\ Answers(site, TRUE)
      /\ file' = Image(machine, p) /\ saved' = u
  BY DEF Save
<1>2. MachineInv' /\ answer' \in BOOLEAN
  BY <1>1, AnswersInv
<1>3. Savable(machine)
  BY <1>1, MachinesHold DEF Saves
<1>4. p \in 0..(2^24 - 1)
  BY SiteIs
<1>5. u = [machine EXCEPT !.pc = p]
  BY Zenon DEF AtPlace
<1>6. GameIn(Image(machine, p)) = u
  BY <1>3, <1>4, <1>5, GameAgain, Zenon
<1>7. Image(machine, p) \in Seq(Byte)
  BY <1>3, <1>4, ImageIs, Zenon
<1>8. FileInv'
  BY <1>1, <1>6, <1>7, Zenon DEF FileInv
<1> QED BY <1>2, <1>8 DEF GamesInv

(* A file that is cut short is no game. *)
LEMMA CutShortInv ==
    ASSUME version \in Versions, NEW site \in Sites, CutShort(site)
    PROVE  FileInv'
<1> DEFINE p == SavedPlace(site)
           image == Image(machine, p)
           cuts == Cuts \cup {Len(image) - n : n \in Cuts}
<1>1. Saves(machine, site) /\ saved' = None
  BY DEF CutShort
<1>2. PICK n \in cuts \cap 0..(Len(image) - 1) : file' = SubSeq(image, 1, n)
  BY Zenon DEF CutShort
<1>3. Savable(machine)
  BY <1>1, MachinesHold DEF Saves
<1>4. p \in 0..(2^24 - 1)
  BY SiteIs
<1>5. image \in Seq(Byte)
  BY <1>3, <1>4, ImageIs, Zenon
<1>6. n \in Nat /\ n < Len(image)
  <2> HIDE DEF image, cuts
  <2>1. Len(image) \in Nat
    BY <1>5, ElementOf
  <2> QED BY <2>1
<1>7. file' \in Seq(Byte) /\ GameIn(file') = None
  BY <1>2, <1>3, <1>4, <1>6, NoGameInPart, Zenon
<1> QED BY <1>1, <1>7, Zenon DEF FileInv

(* What leaves the file alone keeps what is said of it. *)
LEMMA FileStays ==
    ASSUME FileInv, UNCHANGED <<file, saved>>
    PROVE  FileInv'
<1>1. file' = file /\ saved' = saved
  OBVIOUS
<1> QED BY <1>1, Zenon DEF FileInv

LEMMA PCInv ==
    ASSUME MachineInv, NEW p \in Int, machine' = [machine EXCEPT !.pc = p]
    PROVE  MachineInv'
BY HoldsWithPC DEF MachineInv

LEMMA FailurePlaces == \A p \in RestoreSites : p \in Int
BY SitesAssumption

LEMMA RestoreInv ==
    ASSUME GamesInv, NEW p \in RestoreSites, RestoreQuetzal(p)
    PROVE  GamesInv'
<1> DEFINE game == GameIn(file)
           next == Continued(game)
<1>1. UNCHANGED <<file, saved>> /\ Restores(game, p)
  BY DEF RestoreQuetzal
<1>2. FileInv'
  BY <1>1, FileStays DEF GamesInv
<1>3. file \in Seq(Byte) /\ MachineInv
  BY DEF GamesInv, FileInv
<1>4. game # None => Holds(game)
  BY <1>3, GameTyped
<1> HIDE DEF game
<1>5. CASE game = None
  <2>1. machine' = [machine EXCEPT !.pc = p] /\ answer' = FALSE
    BY <1>1, <1>5, Zenon DEF Restores, RestoreFails
  <2>2. MachineInv'
    BY <1>3, <2>1, FailurePlaces, PCInv
  <2> QED BY <1>2, <2>1, <2>2 DEF GamesInv
<1>6. CASE game # None /\ ~CanGoOn(game)
  <2>1. machine' = Stranded(game) /\ answer' = FALSE
    BY <1>1, <1>6, Zenon DEF Restores
  <2>2. MachineInv'
    BY <1>4, <1>6, <2>1, StrandedHolds DEF MachineInv
  <2> QED BY <1>2, <2>1, <2>2 DEF GamesInv
<1>7. CASE game # None /\ CanGoOn(game)
  <2>1. Holds(next)
    BY <1>4, <1>7, ContinuedHolds
  <2>2. Holds(ResetHeaderFields(next))
    <3> HIDE DEF next
    <3> QED BY <2>1, HeaderHolds
  <2>3. \/ machine' = next /\ answer' = FALSE
        \/ machine' = ResetHeaderFields(next) /\ answer' = TRUE
    BY <1>1, <1>7, Zenon DEF Restores
  <2> HIDE DEF next
  <2>4. MachineInv' /\ answer' \in BOOLEAN
    BY <2>1, <2>2, <2>3, Zenon DEF MachineInv
  <2> QED BY <1>2, <2>4 DEF GamesInv
<1> QED BY <1>5, <1>6, <1>7

LEMMA StepInv ==
    ASSUME version \in Versions, GamesInv, [GamesNext]_gamesVars
    PROVE  GamesInv'
<1>1. CASE Play
  <2>1. MachineInv'
    BY <1>1, MachinesHold DEF Play, MachineInv
  <2>2. FileInv' /\ answer' = answer
    BY <1>1, FileStays DEF Play, GamesInv
  <2> QED BY <2>1, <2>2 DEF GamesInv
<1>2. ASSUME NEW site \in Sites, Save(site) PROVE GamesInv'
  BY <1>2, SaveInv
<1>3. ASSUME NEW site \in Sites, SaveFails(site) PROVE GamesInv'
  <2>1. CutShort(site) /\ Answers(site, FALSE)
    BY <1>3 DEF SaveFails
  <2>2. Saves(machine, site)
    BY <2>1 DEF CutShort
  <2>3. MachineInv' /\ answer' \in BOOLEAN
    BY <2>1, <2>2, AnswersInv
  <2> QED BY <2>1, <2>3, CutShortInv DEF GamesInv
<1>4. ASSUME NEW site \in Sites, SaveThrows(site) PROVE GamesInv'
  <2>1. CutShort(site) /\ machine' = machine /\ answer' = answer
    BY <1>4 DEF SaveThrows
  <2>2. MachineInv'
    BY <2>1 DEF GamesInv, MachineInv
  <2> QED BY <2>1, <2>2, CutShortInv DEF GamesInv
<1>5. ASSUME NEW site \in Sites, SaveDeclined(site) PROVE GamesInv'
  <2>1. MachineInv' /\ answer' \in BOOLEAN
    BY <1>5, AnswersInv DEF SaveDeclined
  <2>2. FileInv'
    BY <1>5, FileStays DEF SaveDeclined, GamesInv
  <2> QED BY <2>1, <2>2 DEF GamesInv
<1>6. ASSUME NEW site \in Sites, SaveInterrupted(site) PROVE GamesInv'
  <2>1. machine' = [machine EXCEPT !.pc = RetryPC(site)] /\ answer' = answer
    BY <1>6 DEF SaveInterrupted
  <2>2. RetryPC(site) \in Int
    BY SiteIs
  <2>3. MachineInv'
    BY <2>1, <2>2, PCInv DEF GamesInv
  <2>4. FileInv'
    BY <1>6, FileStays DEF SaveInterrupted, GamesInv
  <2> QED BY <2>1, <2>3, <2>4 DEF GamesInv
<1>7. ASSUME NEW p \in RestoreSites, RestoreQuetzal(p) PROVE GamesInv'
  BY <1>7, RestoreInv
<1>8. ASSUME NEW p \in RestoreSites, RestoreDeclined(p) PROVE GamesInv'
  <2>1. machine' = [machine EXCEPT !.pc = p] /\ answer' = FALSE
    BY <1>8 DEF RestoreDeclined, RestoreFails
  <2>2. MachineInv'
    BY <2>1, FailurePlaces, PCInv DEF GamesInv
  <2>3. FileInv'
    BY <1>8, FileStays DEF RestoreDeclined, GamesInv
  <2> QED BY <2>1, <2>2, <2>3 DEF GamesInv
<1>9. CASE UNCHANGED gamesVars
  <2>1. UNCHANGED <<file, saved>> /\ machine' = machine /\ answer' = answer
    BY <1>9 DEF gamesVars
  <2>2. FileInv'
    BY <2>1, FileStays DEF GamesInv
  <2>3. MachineInv'
    BY <2>1 DEF GamesInv, MachineInv
  <2> QED BY <2>1, <2>2, <2>3 DEF GamesInv
<1> QED BY <1>1, <1>2, <1>3, <1>4, <1>5, <1>6, <1>7, <1>8, <1>9 DEF GamesNext

LEMMA HoldsIsTyped ==
    ASSUME MachineInv
    PROVE  /\ machine.ram \in [1..RomStart -> Byte]
           /\ machine.stack \in Seq(Word)
           /\ machine.pc \in Int
           /\ \A i \in 1..Len(machine.callStack) :
                  LET frame == machine.callStack[i]
                      above == IF i = Len(machine.callStack) THEN Len(machine.stack)
                               ELSE machine.callStack[i + 1].prevStackDepth
                  IN  /\ frame.prevStackDepth \in 0..above
                      /\ frame.argCount \in 0..7
                      /\ Len(frame.locals) \in 0..15
                      /\ frame.resultStorage \in Byte \cup {-1}
<1> DEFINE cs == machine.callStack
           st == machine.stack
           above(i) == IF i = Len(cs) THEN Len(st) ELSE cs[i + 1].prevStackDepth
<1>1. machine \in ZMachine
  BY DEF MachineInv, Holds
<1>2. /\ machine.ram \in [1..RomStart -> Byte] /\ machine.stack \in Seq(Word)
      /\ machine.pc \in Int /\ Len(cs) \in Nat /\ Len(st) \in Nat
      /\ \A i \in 1..Len(cs) : cs[i] \in CallFrame /\ cs[i].prevStackDepth \in Nat
  BY <1>1, MachineIs
<1>3. \A i \in 1..Len(cs) :
          Len(cs[i].locals) <= 15 /\ cs[i].prevStackDepth <= PartEnd(st, cs, i)
  BY DEF MachineInv, Holds
<1> HIDE DEF cs, st
<1>4. ASSUME NEW i \in 1..Len(cs)
      PROVE  /\ cs[i].prevStackDepth \in 0..above(i)
             /\ cs[i].argCount \in 0..7
             /\ Len(cs[i].locals) \in 0..15
             /\ cs[i].resultStorage \in Byte \cup {-1}
  <2> DEFINE f == cs[i]
  <2>1. f \in CallFrame
    BY <1>2
  <2>2. f.argCount \in 0..7 /\ f.resultStorage \in Byte \cup {-1} /\ f.locals \in Seq(Word)
    BY <2>1 DEF CallFrame
  <2>3. Len(f.locals) \in Nat
    BY <2>2, ElementOf
  <2>4. PartEnd(st, cs, i) = above(i)
    <3>1. CASE i = Len(cs)
      BY <3>1 DEF PartEnd
    <3>2. CASE i # Len(cs)
      <4>1. i + 1 # 0
        BY <1>2
      <4> QED BY <3>2, <4>1 DEF PartEnd, PartStart
    <3> QED BY <3>1, <3>2
  <2>5. above(i) \in Nat
    <3>1. CASE i = Len(cs)
      BY <1>2, <3>1
    <3>2. CASE i # Len(cs)
      <4>1. i + 1 \in 1..Len(cs)
        BY <1>2, <3>2
      <4> QED BY <1>2, <3>2, <4>1
    <3> QED BY <3>1, <3>2
  <2> HIDE DEF f, above
  <2>6. f.prevStackDepth \in 0..above(i)
    BY <1>2, <1>3, <2>4, <2>5 DEF f
  <2>7. Len(f.locals) \in 0..15
    <3>1. Len(f.locals) <= 15
      BY <1>3 DEF f
    <3>2. \A n \in Nat : n <= 15 => n \in 0..15
      OBVIOUS
    <3> QED BY <2>3, <3>1, <3>2, Zenon
  <2> QED BY <2>2, <2>6, <2>7 DEF f
<1> QED BY <1>2, <1>4, Zenon DEF cs, st

(* The story's version stays. *)
VersionInv == version \in Versions /\ GamesInv

LEMMA AlwaysInv == OtherFilesHold /\ GamesSpec => []VersionInv
<1>1. OtherFilesHold /\ GamesInit => VersionInv
  BY InitInv DEF GamesInit, VersionInv
<1>2. VersionInv /\ [GamesNext]_gamesVars => VersionInv'
  BY StepInv DEF GamesNext, gamesVars, VersionInv
<1> QED BY <1>1, <1>2, PTL DEF GamesSpec

(* Whatever the program plays, saves and restores, from its own files or    *)
(* from any other, the machine and the file keep their shape, also where    *)
(* restoring fails halfway, and the frames cut the stack: the depths that   *)
(* DeserializeStacks adds up lie above one another as those of the calls do. *)
THEOREM GamesTyped == OtherFilesHold /\ GamesSpec => []GamesTypeOK
<1>1. VersionInv => GamesTypeOK
  <2> SUFFICES ASSUME VersionInv PROVE GamesTypeOK
    OBVIOUS
  <2>1. version \in Versions /\ MachineInv /\ file \in Seq(Byte) /\ answer \in BOOLEAN
    BY DEF VersionInv, GamesInv, FileInv
  <2> QED BY <2>1, HoldsIsTyped, Zenon DEF GamesTypeOK
<1> QED BY <1>1, AlwaysInv, PTL

LEMMA SavedIsAGame ==
    ASSUME version \in Versions, NEW g, OfTheProgram(g)
    PROVE  CanGoOn(g) /\ g # None
<1>1. PICK m \in Machines, site \in Sites : Saves(m, site) /\ g = AtPlace(m, site)
  BY DEF OfTheProgram
<1>2. Holds(m)
  BY MachinesHold
<1>3. CanGoOn(AtPlace(m, site))
  BY <1>1, <1>2, SavedGoesOn
<1>4. g.pc = SavedPlace(site)
  BY <1>1, <1>2, AtPlaceIs, Zenon
<1>5. SavedPlace(site) # -1
  <2> DEFINE p == SavedPlace(site)
             top == 2^24 - 1
  <2>1. p \in 0..top /\ top \in Int
    BY SiteIs, Powers
  <2> HIDE DEF p, top
  <2>2. p # -1
    BY <2>1
  <2> QED BY <2>2 DEF p
<1>6. None.pc = -1
  BY DEF None
<1> QED BY <1>1, <1>3, <1>4, <1>5, <1>6, Zenon

(* For every machine that a file can hold, every story and every point at   *)
(* which a stream can fail: restoring what the program saved brings back    *)
(* all of it, at the instruction that saved it, and succeeds if its tables  *)
(* can be read; what is left of a file that was cut short changes only      *)
(* where the program goes on; and any other file in which a game is found   *)
(* brings back all of that, also when the restore then fails.               *)
THEOREM WholeGames == OtherFilesHold /\ GamesSpec => WholeGamesComeBack
<1> DEFINE Back == \A pc \in RestoreSites :
              RestoreQuetzal(pc) =>
                  /\ saved = None => ~answer' /\ machine' = [machine EXCEPT !.pc = pc]
                  /\ OfTheProgram(saved) => (answer' <=> LoadsTables(Continued(saved).ram))
                  /\ saved # None =>
                         IF answer' THEN machine' = ResetHeaderFields(Continued(saved))
                         ELSE machine' = IF CanGoOn(saved) THEN Continued(saved)
                                         ELSE Stranded(saved)
<1>1. VersionInv => Back
  <2> SUFFICES ASSUME VersionInv, NEW pc \in RestoreSites, RestoreQuetzal(pc)
               PROVE  /\ saved = None => ~answer' /\ machine' = [machine EXCEPT !.pc = pc]
                      /\ OfTheProgram(saved) => (answer' <=> LoadsTables(Continued(saved).ram))
                      /\ saved # None =>
                             IF answer' THEN machine' = ResetHeaderFields(Continued(saved))
                             ELSE machine' = IF CanGoOn(saved) THEN Continued(saved)
                                             ELSE Stranded(saved)
    OBVIOUS
  <2>1. Restores(GameIn(file), pc) /\ saved = GameIn(file)
    BY DEF RestoreQuetzal, VersionInv, GamesInv, FileInv
  <2>2. Restores(saved, pc)
    BY <2>1, Zenon
  <2>3. CASE saved = None
    <3>1. machine' = [machine EXCEPT !.pc = pc] /\ answer' = FALSE
      BY <2>2, <2>3, Zenon DEF Restores, RestoreFails
    <3>2. ~OfTheProgram(saved)
      BY <2>3, SavedIsAGame DEF VersionInv
    <3> QED BY <2>3, <3>1, <3>2
  <2>4. CASE saved # None /\ ~CanGoOn(saved)
    <3>1. machine' = Stranded(saved) /\ answer' = FALSE
      BY <2>2, <2>4, Zenon DEF Restores
    <3>2. ~OfTheProgram(saved)
      BY <2>4, SavedIsAGame DEF VersionInv
    <3> QED BY <2>4, <3>1, <3>2, Zenon
  <2>5. CASE saved # None /\ CanGoOn(saved)
    <3> DEFINE next == Continued(saved)
    <3>1. IF LoadsTables(next.ram) THEN machine' = ResetHeaderFields(next) /\ answer' = TRUE
          ELSE machine' = next /\ answer' = FALSE
      BY <2>2, <2>5, Zenon DEF Restores
    <3> HIDE DEF next
    <3>2. answer' <=> LoadsTables(next.ram)
      BY <3>1, Zenon
    <3>3. IF answer' THEN machine' = ResetHeaderFields(next) ELSE machine' = next
      BY <3>1, Zenon
    <3> QED BY <2>5, <3>2, <3>3, Zenon DEF next
  <2> QED BY <2>3, <2>4, <2>5
<1>2. VersionInv /\ [GamesNext]_gamesVars => [Back]_gamesVars
  BY <1>1
<1> QED BY <1>2, AlwaysInv, PTL DEF GamesSpec, WholeGamesComeBack
=============================================================================
