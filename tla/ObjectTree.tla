----------------------------- MODULE ObjectTree -----------------------------
(* The object table: every object has a parent, a sibling and a child, 0 for*)
(* none.  InsertObject finds the elder sibling of the object by walking the *)
(* list of its parent's children, a loop with no other end than finding it. *)
(* The intermediate steps are modelled because that loop may not end, not   *)
(* because anything else runs meanwhile.                                    *)
EXTENDS Integers, Sequences

CONSTANTS
    N,             \* number of objects
    Tables         \* object tables of story files

ASSUME NumberAssumption == N \in Nat

Object == 1..N
Link == 0..N

VARIABLES
    parent, sibling, child,
    obj, dest,     \* InsertObject's arguments,
    head,          \* its local variable,
    at             \* and where it is

tree == <<parent, sibling, child>>
vars == <<tree, obj, dest, head, at>>

(* What comes after the objects of s in a list that begins with first. *)
After(s, first, si) == IF s = <<>> THEN first ELSE si[s[Len(s)]]

(* The list of siblings from first on, as far as n of them. *)
ListFrom(first, si, n) ==
    LET upTo[k \in 0..n] ==
            IF k = 0 THEN <<>>
            ELSE LET next == After(upTo[k - 1], first, si)
                 IN  IF next = 0 THEN upTo[k - 1] ELSE Append(upTo[k - 1], next)
    IN  upTo[n]

-----------------------------------------------------------------------------
(* What the links say, one link at a time. *)

(* A first child has that parent, and nobody's sibling is a first child.    *)
FirstChildren(pa, si, ch) ==
    \A p \in Object : ch[p] # 0 =>
        pa[ch[p]] = p /\ \A o \in Object : si[o] # ch[p]

(* Siblings have one parent, and a sibling comes after one object only.     *)
Siblings(pa, si) ==
    /\ \A o \in Object : si[o] # 0 => pa[o] # 0 /\ pa[si[o]] = pa[o]
    /\ \A o, q \in Object : si[o] # 0 /\ si[o] = si[q] => o = q

(* An object with a parent is in the list of that parent's children.        *)
Reached(o, pa, si, ch) ==
    pa[o] # 0 => ch[pa[o]] = o \/ \E q \in Object : si[q] = o

(* Following siblings leads to an end: they can be ranked.                  *)
Ranked(si, bound) ==
    \E rank \in [Object -> bound] :
        \A o \in Object : si[o] # 0 => rank[o] > rank[si[o]]

Linked(pa, si, ch) == /\ FirstChildren(pa, si, ch)
                      /\ Siblings(pa, si)
                      /\ \A o \in Object : Reached(o, pa, si, ch)

ASSUME TableAssumption ==
    \A t \in Tables :
        /\ t.parent \in [Object -> Link]
        /\ t.sibling \in [Object -> Link]
        /\ t.child \in [Object -> Link]
        /\ Linked(t.parent, t.sibling, t.child)
        /\ Ranked(t.sibling, 0..N)

Init == /\ \E t \in Tables :
              parent = t.parent /\ sibling = t.sibling /\ child = t.child
        /\ obj = 0 /\ dest = 0 /\ head = 0
        /\ at = "idle"

-----------------------------------------------------------------------------
(* InsertObject(o, d); op_remove_obj inserts in 0. *)

(* Where InsertObject goes after reading the first child of the old parent. *)
Beginning_AlwaysWalks(o) == IF parent[o] = 0 THEN "link" ELSE "walk"
Beginning(o) == IF parent[o] = 0 THEN "link"
                ELSE IF child[parent[o]] = o THEN "first"
                ELSE "walk"

InsertObject(o, d) ==
    /\ at = "idle"
    /\ obj' = o
    /\ dest' = d
    /\ head' = IF parent[o] = 0 THEN 0 ELSE child[parent[o]]
    /\ at' = Beginning(o)
    /\ UNCHANGED tree

UnlinkFirst ==
    /\ at = "first"
    /\ child' = [child EXCEPT ![parent[obj]] = sibling[obj]]
    /\ at' = "link"
    /\ UNCHANGED <<parent, sibling, obj, dest, head>>

(* The loop's body; a walk that runs off the list goes on at object 0,      *)
(* whose sibling is 0.                                                      *)
Sibling(o) == IF o = 0 THEN 0 ELSE sibling[o]
Walk == /\ at = "walk" /\ Sibling(head) # obj
        /\ head' = Sibling(head)
        /\ UNCHANGED <<tree, obj, dest, at>>

AfterUnlink_CutsTheRest == [sibling EXCEPT ![head] = 0]
AfterUnlink == [sibling EXCEPT ![head] = sibling[obj]]

UnlinkLater ==
    /\ at = "walk" /\ Sibling(head) = obj
    /\ sibling' = AfterUnlink
    /\ at' = "link"
    /\ UNCHANGED <<parent, child, obj, dest, head>>

(* The sibling that the object gets. *)
NewSibling_KeepsOld == IF dest = 0 THEN sibling[obj] ELSE child[dest]
NewSibling == IF dest = 0 THEN 0 ELSE child[dest]

LinkFirst ==
    /\ at = "link"
    /\ sibling' = [sibling EXCEPT ![obj] = NewSibling]
    /\ parent' = [parent EXCEPT ![obj] = dest]
    /\ child' = IF dest = 0 THEN child ELSE [child EXCEPT ![dest] = obj]
    /\ at' = "idle"
    /\ obj' = 0 /\ dest' = 0 /\ head' = 0

Step == UnlinkFirst \/ Walk \/ UnlinkLater \/ LinkFirst

Next == \/ \E o \in Object, d \in Link : InsertObject(o, d)
        \/ Step

Spec == Init /\ [][Next]_vars

(* The loop is not interrupted. *)
FairSpec == Spec /\ WF_vars(Step)

(* Unlinking an object that has a parent removes it, and linking it moves   *)
(* it in front of the children of its new parent.                           *)
Forest == INSTANCE ObjectForest WITH
    children <- [p \in Object |-> ListFrom(child[p], sibling, N)]

-----------------------------------------------------------------------------
(* Properties *)

TypeOK == /\ parent \in [Object -> Link]
          /\ sibling \in [Object -> Link]
          /\ child \in [Object -> Link]
          /\ obj \in Link /\ dest \in Link /\ head \in Link
          /\ at \in {"idle", "first", "walk", "link"}

(* Between instructions the links of any two objects agree, whatever was    *)
(* moved where before, into itself or its own descendants included.         *)
LinksAgree == at = "idle" => Linked(parent, sibling, child)

(* Moving an object changes no list but those it leaves and enters.         *)
ImplementsForest == Forest!Spec

(* Every walk along the siblings finds the object.                          *)
InsertionEnds == at # "idle" ~> at = "idle"
=============================================================================
