------------------------------- MODULE Words -------------------------------
(* From the player's text to the parse table: SplitTokens, EncodeText,      *)
(* LookUpWord.  Text is a sequence of ZSCII codes; an encoded word is the   *)
(* sequence of its Z-characters, three of which the code packs in two bytes *)
(* in order, so that words compare as their Z-characters do.                *)
EXTENDS Integers, FiniteSets, SequencesExt

CONSTANTS
    Alphabet0,      \* the characters of alphabets 0 and 2, each a sequence of
    Alphabet2,      \*   ZSCII codes (typed text has no capitals)
    DictWordSize    \* DictWordSizeInZchars

ASSUME SizeAssumption == DictWordSize \in Nat \ {0}
ASSUME AlphabetAssumption == Alphabet0 \in Seq(Nat) /\ Alphabet2 \in Seq(Nat)

Space == 32
IsTokenSpace(c) == c \in {9, Space}

-----------------------------------------------------------------------------
(* SplitTokens *)

(* The end of the word at i: the first separator or space from there on.    *)
WordEnd_AtSpace(text, seps, i) ==
    LET end == SelectInSubSeq(text, i, Len(text), IsTokenSpace)
    IN  IF end = 0 THEN Len(text) + 1 ELSE end
WordEnd(text, seps, i) ==
    LET end == SelectInSubSeq(text, i, Len(text),
                              LAMBDA c : IsTokenSpace(c) \/ c \in seps)
    IN  IF end = 0 THEN Len(text) + 1 ELSE end

(* A token has the place of its first character, counted from 0, and its    *)
(* length.                                                                  *)
Token(first, end) == [start |-> first - 1, length |-> end - first]

SplitTokens(text, seps) ==
    LET from[i \in 1..Len(text) + 1] ==
          IF i > Len(text) THEN <<>>
          ELSE IF IsTokenSpace(text[i]) THEN from[i + 1]
          ELSE IF text[i] \in seps THEN <<Token(i, i + 1)>> \o from[i + 1]
          ELSE <<Token(i, WordEnd(text, seps, i))>> \o from[WordEnd(text, seps, i)]
    IN  from[1]

-----------------------------------------------------------------------------
(* EncodeText *)

IndexIn(alphabet, c) == SelectInSeq(alphabet, LAMBDA d : d = c) - 1

ZChars(c) ==
    IF c = Space THEN <<0>>
    ELSE IF Contains(Alphabet0, c) THEN <<IndexIn(Alphabet0, c) + 6>>
    ELSE IF Contains(Alphabet2, c) THEN <<5, IndexIn(Alphabet2, c) + 6>>
    ELSE <<5, 6, c \div 32, c % 32>>

Padding == [i \in 1..DictWordSize |-> 5]

(* Characters are taken while there is room, and the last one is cut off    *)
(* where the word ends.                                                     *)
EncodeText_WholeCharacters(text) ==
    LET taken[i \in 0..Len(text)] ==
            IF i = 0 THEN <<>>
            ELSE IF Len(taken[i - 1]) + Len(ZChars(text[i])) <= DictWordSize
            THEN taken[i - 1] \o ZChars(text[i]) ELSE taken[i - 1]
    IN  SubSeq(taken[Len(text)] \o Padding, 1, DictWordSize)
EncodeText(text) ==
    LET taken[i \in 0..Len(text)] ==
            IF i = 0 THEN <<>>
            ELSE IF Len(taken[i - 1]) < DictWordSize
            THEN taken[i - 1] \o ZChars(text[i]) ELSE taken[i - 1]
    IN  SubSeq(taken[Len(text)] \o Padding, 1, DictWordSize)

-----------------------------------------------------------------------------
(* LookUpWord *)

(* SequenceCompareTo for two words of one size. *)
Precedes(v, w) ==
    \E i \in DOMAIN v : v[i] < w[i] /\ \A j \in 1..i - 1 : v[j] = w[j]

(* The binary search, among the entries start+1 to end; 0 for none.  It has *)
(* no more rounds than there are entries.                                   *)
Middle(range) == (range.start + range.end) \div 2
Ended(range, words, word) ==
    range.start >= range.end \/ word = words[Middle(range) + 1]

Narrowed_SkipsOne(range, words, word) ==
    IF Precedes(word, words[Middle(range) + 1])
    THEN [range EXCEPT !.end = IF Middle(range) = 0 THEN 0 ELSE Middle(range) - 1]
    ELSE [range EXCEPT !.start = Middle(range) + 1]
Narrowed(range, words, word) ==
    IF Precedes(word, words[Middle(range) + 1])
    THEN [range EXCEPT !.end = Middle(range)]
    ELSE [range EXCEPT !.start = Middle(range) + 1]

Search(words, word) ==
    LET after[k \in 0..Len(words)] ==
            IF k = 0 THEN [start |-> 0, end |-> Len(words)]
            ELSE IF Ended(after[k - 1], words, word) THEN after[k - 1]
            ELSE Narrowed(after[k - 1], words, word)
        range == after[Len(words)]
    IN  IF range.start >= range.end THEN 0 ELSE Middle(range) + 1

(* A dictionary has its separators, its entries and whether they are sorted *)
(* (a negative number of entries says that they are not).  The loop over    *)
(* unsorted entries ends before the first.                                  *)
LookUpWord(dictionary, text) ==
    IF dictionary.sorted THEN Search(dictionary.words, EncodeText(text)) ELSE 0

-----------------------------------------------------------------------------
(* What these algorithms should compute *)

(* A token is a separator, or as many characters as there are between       *)
(* spaces, separators and the ends of the text.                             *)
IsToken(text, seps, t) ==
    LET IsInWord(i) == i \in DOMAIN text /\ ~IsTokenSpace(text[i]) /\ text[i] \notin seps
    IN  \/ t.length = 1 /\ text[t.start + 1] \in seps
        \/ /\ \A i \in t.start + 1..t.start + t.length : IsInWord(i)
           /\ ~IsInWord(t.start) /\ ~IsInWord(t.start + t.length + 1)

TokensOf(text, seps) ==
    {t \in [start : 0..Len(text), length : 1..Len(text)] :
        t.start + t.length <= Len(text) /\ IsToken(text, seps, t)}

(* The tokens in the order of the text, as many as there is room for.       *)
FirstTokens(text, seps, max) ==
    LET all == TokensOf(text, seps)
        Place(t) == Cardinality({s \in all : s.start <= t.start})
    IN  [k \in 1..(IF Cardinality(all) < max THEN Cardinality(all) ELSE max) |->
            CHOOSE t \in all : Place(t) = k]

(* A word is found under every entry that it cannot be told from: by its    *)
(* first DictWordSize Z-characters.                                         *)
SameWord(text, entry) ==
    LET zchars == FlattenSeq([i \in DOMAIN text |-> ZChars(text[i])])
    IN  entry = SubSeq(zchars \o Padding, 1, DictWordSize)
=============================================================================
