------------------------------ MODULE LruCache ------------------------------
(* The cache of compiled fragments, LruCache<TKey, TValue>: a dictionary    *)
(* whose nodes are those of a list kept in the order of use, latest first.  *)
(* The dictionary and the list are two data structures that every operation *)
(* must keep in step, and the size is a third thing to keep.                *)
EXTENDS Integers, Sequences

CONSTANTS
    Key,
    Value,
    MaxSize        \* the cache size that the constructor is given

ASSUME MaxSizeAssumption == MaxSize \in Nat

VARIABLES
    dict,          \* the dictionary: each key's node, that is its entry
    llist,         \* the list of entries
    CurrentSize,
    PeakSize

cacheVars == <<dict, llist, CurrentSize, PeakSize>>

Entry == [key : Key, value : Value, size : Nat \ {0}]

CacheInit == /\ dict = <<>>
             /\ llist = <<>>
             /\ CurrentSize = 0
             /\ PeakSize = 0

Cached == DOMAIN dict

-----------------------------------------------------------------------------
(* CurrentSize once the last i entries have been removed. *)
SizeWithout(i) ==
    LET left[j \in 0..i] ==
            IF j = 0 THEN CurrentSize
            ELSE left[j - 1] - llist[Len(llist) - j + 1].size
    IN  left[i]

(* Does Add's loop stop when i entries have been removed? *)
Fits_NotExactly(i, size) == SizeWithout(i) + size < MaxSize \/ i = Len(llist)
Fits(i, size) == SizeWithout(i) + size <= MaxSize \/ i = Len(llist)

(* The keys that stay in the dictionary when the last i entries are removed.*)
KeysWithout_AllStay(i) == Cached
KeysWithout(i) ==
    Cached \ {llist[j].key : j \in (Len(llist) - i + 1)..Len(llist)}

(* Adding a key that is there already is an error of the caller. *)
Add(key, value, size) ==
    LET entry == [key |-> key, value |-> value, size |-> size]
    IN  /\ key \notin Cached
        /\ \E i \in 0..Len(llist) :
              /\ Fits(i, size) /\ \A j \in 0..(i - 1) : ~Fits(j, size)
              /\ dict' = [k \in KeysWithout(i) \cup {key} |->
                             IF k = key THEN entry ELSE dict[k]]
              /\ llist' = <<entry>> \o SubSeq(llist, 1, Len(llist) - i)
              /\ CurrentSize' = SizeWithout(i) + size
        /\ PeakSize' = IF CurrentSize' > PeakSize THEN CurrentSize' ELSE PeakSize

Clear_KeepsSize == /\ dict' = <<>>
                   /\ llist' = <<>>
                   /\ UNCHANGED <<CurrentSize, PeakSize>>
Clear == /\ dict' = <<>>
         /\ llist' = <<>>
         /\ CurrentSize' = 0
         /\ UNCHANGED PeakSize

(* The list with the i-th entry moved to its front. *)
MovedToFront_Swapped(i) == [llist EXCEPT ![1] = llist[i], ![i] = llist[1]]
MovedToFront(i) ==
    <<llist[i]>> \o SubSeq(llist, 1, i - 1) \o SubSeq(llist, i + 1, Len(llist))

(* A successful TryGetValue; the value is dict[key].value. *)
Touch(key) ==
    /\ key \in Cached
    /\ \E i \in 1..Len(llist) : llist[i] = dict[key] /\ llist' = MovedToFront(i)
    /\ UNCHANGED <<dict, CurrentSize, PeakSize>>

-----------------------------------------------------------------------------
CacheTypeOK ==
    /\ Cached \subseteq Key
    /\ dict \in [Cached -> Entry]
    /\ llist \in Seq(Entry)
    /\ CurrentSize \in Nat
    /\ PeakSize \in Nat

(* The dictionary and the list hold the same entries, each once.            *)
DictionaryMirrorsList ==
    /\ Cached = {llist[i].key : i \in 1..Len(llist)}
    /\ \A i \in 1..Len(llist) : dict[llist[i].key] = llist[i]
    /\ \A i, j \in 1..Len(llist) : llist[i].key = llist[j].key => i = j

(* CurrentSize is the size of what is cached; it is more than MaxSize only  *)
(* when one entry is, which is then alone.                                  *)
SizeIsAccountedFor ==
    LET total[i \in 0..Len(llist)] ==
            IF i = 0 THEN 0 ELSE total[i - 1] + llist[i].size
    IN  /\ CurrentSize = total[Len(llist)]
        /\ CurrentSize <= MaxSize \/ Len(llist) = 1
        /\ PeakSize >= CurrentSize
=============================================================================
