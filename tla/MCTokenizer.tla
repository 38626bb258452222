----------------------------- MODULE MCTokenizer -----------------------------
(* Instances of Tokenizer for TLC: every text of up to MaxLen bytes of an    *)
(* alphabet of letters, bytes that are not printable and the bytes of the    *)
(* special tokens, and three vocabularies.                                   *)
EXTENDS Tokenizer

CONSTANTS Alphabet, MaxLen

MCTexts == UNION {[1..n -> Alphabet] : n \in 0..MaxLen}

\* "a", the mapped space and line feed, "<", ">".
a  == ByteToUnicode[97]
sp == ByteToUnicode[32]
nl == ByteToUnicode[10]
lt == ByteToUnicode[60]
gt == ByteToUnicode[62]

\* The first vocabulary is complete and its special tokens overlap; the second
\* has competing merges of the same bytes; the third lacks a merged token.
MCVocabs == {
  [tokens  |-> <<a, sp, nl, lt, gt, a \o a, sp \o a, <<60>> \o <<62>>, <<60>>, <<60, 62, 97>> >>,
   special |-> {7, 8, 9},
   merges  |-> << <<a, a>>, <<sp, a>> >>],
  [tokens  |-> <<nl, gt, lt, sp, a, a \o sp, a \o a, a \o sp \o a \o a, <<62, 62>> >>,
   special |-> {8},
   merges  |-> << <<a, a>>, <<a, sp>>, <<a \o sp, a \o a>> >>],
  [tokens  |-> <<lt, gt, sp, nl, a, <<60>> >>,
   special |-> {5},
   merges  |-> << <<a, sp>> >>] }

=============================================================================
