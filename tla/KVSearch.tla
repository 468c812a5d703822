------------------------------ MODULE KVSearch ------------------------------
(***************************************************************************)
(* Full-text search of the stores: the searcher that looks for a pattern   *)
(* in a content (eventstore/searcher), and the signatures with which       *)
(* pebbledb2 passes over contents that cannot hold it (bloom.go).          *)
(*                                                                         *)
(* Texts are sequences of letters, which stand for bytes.                  *)
(***************************************************************************)
EXTENDS Integers, Sequences, FiniteSets

CONSTANTS
    Lower,          \* letter -> its lower case (asciiLowerTable)
    ToLower,        \* pattern -> its lower case (strings.ToLower), which may have another length
    BitsOf,         \* trigram -> the bits of the signature that stand for it
    MaxSearchGrams  \* how many trigrams of a pattern are looked up

LowerCase(text) == [i \in DOMAIN text |-> Lower[text[i]]]

-----------------------------------------------------------------------------
(* The searcher, after Horspool.  The pattern is lower-cased by the rules  *)
(* of Unicode, the text byte by byte, and the length is that of the        *)
(* pattern as it was given.                                                *)

\* The table of skips is filled for all letters but the last: one too few is not noticed yet.
NewSearcherPanics(substr) == Len(ToLower[substr]) < Len(substr) - 1

\* The letter at the end of the pattern is missing when the window is compared.
ContainsPanics(text, substr) ==
    Len(substr) >= 1 /\ Len(text) >= Len(substr) /\ Len(ToLower[substr]) < Len(substr)

\* How far the window moves when letter c is under its end: as far as the last
\* place of c in the first n letters, the end itself left out.
NewSearcher(pattern, n, c) ==
    LET at == {i \in 1..(n - 1) : pattern[i] = c}
    IN  IF at = {} THEN n ELSE n - (CHOOSE i \in at : \A j \in at : j <= i)

\* SearchFrom[i]: is the pattern found by a window that ends at i or later?
SearcherContains(text, substr) ==
    LET pattern == ToLower[substr]
        lowered == LowerCase(text)
        n == Len(substr)
        SearchFrom[i \in 0..(Len(text) + n)] ==
            /\ i <= Len(text)
            /\ \/ SubSeq(lowered, i - n + 1, i) = SubSeq(pattern, 1, n)
               \/ SearchFrom[i + NewSearcher(pattern, n, lowered[i])]
    IN  n >= 1 /\ Len(text) >= n /\ SearchFrom[n]

-----------------------------------------------------------------------------
(* Signatures *)

\* Content and pattern are lower-cased byte by byte.
GramAt(text, i) == SubSeq(LowerCase(text), i, i + 2)

\* A content of less than three bytes has no signature: NoBloom.
NoBloom == {"none"}

ContentBloom(content) ==
    IF Len(content) < 3 THEN NoBloom
    ELSE UNION {BitsOf[GramAt(content, i)] : i \in 1..(Len(content) - 2)}

\* The first trigrams of the pattern; none of a pattern of less than three bytes.
BuildSearchGrams(pattern) ==
    LET grams(k) == {GramAt(pattern, i) : i \in 1..k}
        enough == {k \in 0..(Len(pattern) - 2) : Cardinality(grams(k)) <= MaxSearchGrams}
    IN  IF Len(pattern) < 3 THEN {} ELSE grams(CHOOSE k \in enough : \A j \in enough : j <= k)

\* Without a signature the body is read.
BloomMaybeContains(bloom, grams) ==
    bloom = NoBloom \/ \A g \in grams : BitsOf[g] \subseteq bloom
=============================================================================
