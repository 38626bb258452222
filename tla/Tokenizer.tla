------------------------------ MODULE Tokenizer ------------------------------
(***************************************************************************)
(* TokenizerImpl::tokenize and decode (src/src/tokenizer): special tokens   *)
(* are cut out of the text with a trie, what lies between them is split by  *)
(* the regex of the model and each chunk is merged by byte-pair encoding.   *)
(* One step is one iteration of a loop of the code.                         *)
(*                                                                         *)
(* A string is a sequence of bytes.  A vocabulary is what for_model() takes *)
(* from the model: tokens (id i is tokens[i + 1]), the ids that are not of  *)
(* type NORMAL, and the merges by rank.  A merge is a pair; the code joins  *)
(* it with a space, which no mapped byte contains.                          *)
(*                                                                         *)
(* PCRE2 is external.  Both regexes match at every position of a text, so a *)
(* match is some non-empty prefix of what is left (the branch of NOMATCH    *)
(* takes one byte, which is such a prefix); the empty regex of an unknown   *)
(* "pre" matches without taking anything.                                   *)
(***************************************************************************)
EXTENDS Integers, Sequences, FiniteSets, SequencesExt, FiniteSetsExt

CONSTANTS Texts,           \* the texts that are tokenized
          Vocabs,          \* the vocabularies
          MaxEmptyChunks   \* how many empty chunks fit into memory

VARIABLES text, vocab, pre,   \* the input, info_ and pre_
          pc,                 \* the loop that is running
          start, pretext,     \* of tokenize()
          spl,                \* the special token to push after bpe_, or -1
          rest,               \* the text that pretokenize() has not split yet
          chunks,             \* chunks that are not merged yet
          piece,              \* tokens of split_and_merge_
          finalTokens,        \* final_tokens
          ids                 \* token_list

input == <<text, vocab, pre>>
vars == <<input, pc, start, pretext, spl, rest, chunks, piece, finalTokens, ids>>

Byte == 0..255

-----------------------------------------------------------------------------
\* build_byte_to_unicode_map_: printable bytes keep their code point, the
\* others are shifted above U+0100 in their order.

Printable == 33..126 \cup 161..172 \cup 174..255

\* Mutant: shifted_code_point is not incremented.
CodePointFixed(b) == IF b \in Printable THEN b ELSE 256

CodePoint(b) ==
  IF b \in Printable THEN b
  ELSE 256 + Cardinality({x \in 0..(b - 1) : x \notin Printable})

Utf8(cp) == IF cp <= 127 THEN <<cp>> ELSE <<192 + (cp \div 64), 128 + (cp % 64)>>

ByteToUnicode == [b \in Byte |-> Utf8(CodePoint(b))]

\* unicode_to_byte_map_ (the last writer wins); a piece that is not in it is
\* kept as it is.
PieceChars(p) ==
  LET bytes == {b \in Byte : ByteToUnicode[b] = p}
  IN  IF bytes = {} THEN p ELSE <<Max(bytes)>>

\* The length of a UTF-8 sequence, from its first byte.
LeadLength(c) ==
  CASE c \in 192..223 -> 2
    [] c \in 224..239 -> 3
    [] c \in 240..247 -> 4
    [] OTHER -> 1

\* unicode_to_chars_
UnicodeToChars(token) ==
  LET end == Len(token) + 1
      After(i) == LET next == i + LeadLength(token[i]) IN IF next <= end THEN next ELSE end
      from[i \in 1..end] ==
        IF i = end THEN <<>>
        ELSE PieceChars(SubSeq(token, i, After(i) - 1)) \o from[After(i)]
  IN  from[1]

-----------------------------------------------------------------------------
\* The maps built by for_model().

Ids(v) == 0..(Len(v.tokens) - 1)
TokenOf(v, id) == v.tokens[id + 1]

\* token_to_id_map_[token]: the last of equal tokens; an unknown token is
\* inserted as 0.
IdOf(v, token) ==
  LET named == {i \in Ids(v) : TokenOf(v, i) = token}
  IN  IF named = {} THEN 0 ELSE Max(named)

\* The ranks of a pair in merges_map_ (the last of equal merges).
Ranks(v, a, b) == {r \in 1..Len(v.merges) : v.merges[r] = <<a, b>>}
HasRank(v, a, b) == Ranks(v, a, b) # {}
Rank(v, a, b) == Max(Ranks(v, a, b))

\* decode()
Decode(v, id) == IF id \in Ids(v) THEN UnicodeToChars(TokenOf(v, id)) ELSE <<>>

\* build_from_tokens: a node of the trie for every prefix of a special token,
\* with the id of the last special token that ends there, or -1.
IsNode(v, prefix) == \E i \in v.special : IsPrefix(prefix, TokenOf(v, i))
NodeId(v, prefix) ==
  LET here == {i \in v.special : TokenOf(v, i) = prefix}
  IN  IF here = {} THEN -1 ELSE Max(here)

\* Mutant: the shortest token wins.
BestShortest(here, below) == IF here >= 0 THEN here ELSE below

Best(here, below) == IF below >= 0 THEN below ELSE here

\* match(): walk as far as there are nodes, and keep the last id on the way.
Match(v, t, from) ==
  LET left == Len(t) - from
      walk[d \in 1..(left + 1)] ==
        LET prefix == SubSeq(t, from + 1, from + d)
        IN  IF d > left \/ ~IsNode(v, prefix) THEN -1
            ELSE Best(NodeId(v, prefix), walk[d + 1])
  IN  walk[1]

-----------------------------------------------------------------------------
\* A merge joins bytes and results of earlier merges, and no two merges have
\* the same result, as when a table is what training chose, round by round.
\* Published tables that list several merges for one token are outside.
WellFormedMerges(v) ==
  LET result(r) == v.merges[r][1] \o v.merges[r][2]
      known(r) == {ByteToUnicode[b] : b \in Byte} \cup {result(q) : q \in 1..(r - 1)}
  IN  \A r \in 1..Len(v.merges) :
        /\ v.merges[r][1] \in known(r) /\ v.merges[r][2] \in known(r)
        /\ result(r) \notin known(r)

ASSUME TokenizerAssumption ==
  /\ \A t \in Texts : t \in Seq(Byte)
  /\ \A v \in Vocabs :
       /\ v.tokens \in Seq(Seq(Byte)) /\ v.tokens # <<>>
       /\ v.merges \in Seq(Seq(Byte) \X Seq(Byte))
       /\ v.special \subseteq Ids(v)
       /\ \A i \in v.special : \A j \in DOMAIN TokenOf(v, i) : TokenOf(v, i)[j] \in 0..127
       /\ WellFormedMerges(v)
  /\ MaxEmptyChunks \in Nat

TypeOK ==
  /\ text \in Texts /\ vocab \in Vocabs /\ pre \in {"known", "unknown"}
  /\ pc \in {"scan", "pretokenize", "bpe", "merge", "lookup", "done", "threw"}
  /\ start \in 0..Len(text)
  /\ pretext \in Seq(Byte) /\ rest \in Seq(Byte)
  /\ spl \in {-1} \cup vocab.special
  /\ chunks \in Seq(Seq(Byte))
  /\ piece \in Seq(Seq(Byte)) /\ finalTokens \in Seq(Seq(Byte))
  /\ ids \in Seq(Ids(vocab))

\* for_model(), and the locals of tokenize().
Init ==
  /\ text \in Texts /\ vocab \in Vocabs /\ pre \in {"known", "unknown"}
  /\ pc = "scan"
  /\ start = 0 /\ pretext = <<>> /\ spl = -1
  /\ rest = <<>> /\ chunks = <<>> /\ piece = <<>>
  /\ finalTokens = <<>> /\ ids = <<>>

\* One position of tokenize(): a special token ends the text before it.
Scan ==
  /\ pc = "scan"
  /\ start < Len(text)
  /\ spl' = Match(vocab, text, start)
  /\ \/ /\ spl' >= 0
        /\ rest' = pretext /\ pretext' = <<>>
        /\ pc' = "pretokenize"
        /\ UNCHANGED start
     \/ /\ spl' < 0
        /\ pretext' = Append(pretext, text[start + 1])
        /\ start' = start + 1
        /\ UNCHANGED <<rest, pc>>
  /\ UNCHANGED <<input, chunks, piece, finalTokens, ids>>

ScanEnd ==
  /\ pc = "scan"
  /\ start >= Len(text)
  /\ rest' = pretext
  /\ pc' = IF pretext # <<>> THEN "pretokenize" ELSE "lookup"
  /\ UNCHANGED <<input, start, pretext, spl, chunks, piece, finalTokens, ids>>

\* One iteration of pretokenize(): a chunk, an error of PCRE2, or, with the
\* empty regex, empty chunks until there is no memory for more.
Pretokenize ==
  /\ pc = "pretokenize"
  /\ rest # <<>>
  /\ \/ \E n \in 1..Len(rest) :
          /\ pre = "known"
          /\ chunks' = Append(chunks, SubSeq(rest, 1, n))
          /\ rest' = SubSeq(rest, n + 1, Len(rest))
          /\ UNCHANGED pc
     \/ /\ pre = "unknown" /\ Len(chunks) < MaxEmptyChunks
        /\ chunks' = Append(chunks, <<>>)
        /\ UNCHANGED <<rest, pc>>
     \/ /\ pre = "known" \/ Len(chunks) = MaxEmptyChunks
        /\ pc' = "threw"
        /\ UNCHANGED <<rest, chunks>>
  /\ UNCHANGED <<input, start, pretext, spl, piece, finalTokens, ids>>

PretokenizeEnd ==
  /\ pc = "pretokenize"
  /\ rest = <<>>
  /\ pc' = "bpe"
  /\ UNCHANGED <<input, start, pretext, spl, rest, chunks, piece, finalTokens, ids>>

\* split_and_merge_ begins with the bytes of the chunk.
Chars(chunk) == [j \in 1..Len(chunk) |-> ByteToUnicode[chunk[j]]]

Split ==
  /\ pc = "bpe"
  /\ chunks # <<>>
  /\ piece' = Chars(Head(chunks))
  /\ pc' = "merge"
  /\ UNCHANGED <<input, start, pretext, spl, rest, chunks, finalTokens, ids>>

\* The positions in w whose pair has a rank.
Pairs(v, w) == {j \in 1..(Len(w) - 1) : HasRank(v, w[j], w[j + 1])}
RankAt(v, w, j) == Rank(v, w[j], w[j + 1])

\* Mutant: of equal ranks the last one.
MinElementLast(indexes) == Max(indexes)

MinElement(indexes) == Min(indexes)

\* std::min_element over rank_pairs: the first of the pairs of least rank.
MergeIndex(v, w) ==
  LET least == Min({RankAt(v, w, j) : j \in Pairs(v, w)})
  IN  MinElement({j \in Pairs(v, w) : RankAt(v, w, j) = least})

Merge ==
  /\ pc = "merge"
  /\ Pairs(vocab, piece) # {}
  /\ LET j == MergeIndex(vocab, piece)
     IN  piece' = SubSeq(piece, 1, j - 1) \o <<piece[j] \o piece[j + 1]>>
                  \o SubSeq(piece, j + 2, Len(piece))
  /\ UNCHANGED <<input, pc, start, pretext, spl, rest, chunks, finalTokens, ids>>

\* Mutant: the loop is left only when one token remains.
NoRankPairsSingle == Len(piece) = 1

NoRankPairs == Pairs(vocab, piece) = {}

MergeEnd ==
  /\ pc = "merge"
  /\ NoRankPairs
  /\ finalTokens' = finalTokens \o piece
  /\ chunks' = Tail(chunks)
  /\ pc' = "bpe"
  /\ UNCHANGED <<input, start, pretext, spl, rest, piece, ids>>

\* bpe_ returns to the scan, which pushes the special token, or to the end of
\* tokenize().
BpeEnd ==
  /\ pc = "bpe"
  /\ chunks = <<>>
  /\ \/ /\ spl >= 0
        /\ finalTokens' = Append(finalTokens, TokenOf(vocab, spl))
        /\ start' = start + Len(TokenOf(vocab, spl))
        /\ pc' = "scan"
     \/ /\ spl < 0
        /\ pc' = "lookup"
        /\ UNCHANGED <<finalTokens, start>>
  /\ UNCHANGED <<input, pretext, spl, rest, chunks, piece, ids>>

Lookup ==
  /\ pc = "lookup"
  /\ ids' = [j \in 1..Len(finalTokens) |-> IdOf(vocab, finalTokens[j])]
  /\ pc' = "done"
  /\ UNCHANGED <<input, start, pretext, spl, rest, chunks, piece, finalTokens>>

Next ==
  \/ Scan \/ ScanEnd \/ Pretokenize \/ PretokenizeEnd \/ Split \/ Merge \/ MergeEnd
  \/ BpeEnd \/ Lookup

\* The thread that calls tokenize() keeps running.
Spec == Init /\ [][Next]_vars
FairSpec == Spec /\ WF_vars(Next)

-----------------------------------------------------------------------------
\* What is decoded from the ids, one after the other as the server streams
\* them, is the text, when every token is in the vocabulary: no byte is lost
\* between special tokens, chunks and merges, and the two maps of
\* build_byte_to_unicode_map_ are inverse to each other.
RoundTrip ==
  pc = "done" /\ (\A j \in 1..Len(finalTokens) : \E i \in Ids(vocab) : TokenOf(vocab, i) = finalTokens[j])
    => FlattenSeq([j \in 1..Len(ids) |-> Decode(vocab, ids[j])]) = text

\* "This is the classic greedy BPE merge identical to GPT-2" (README.md:153).
\* GPT-2 takes the pair of least rank and merges all of its occurrences from
\* the left, round by round; the code merges one occurrence per round.
MergeAll(w, a, b) ==
  LET from[j \in 1..(Len(w) + 1)] ==
        IF j > Len(w) THEN <<>>
        ELSE IF j < Len(w) /\ w[j] = a /\ w[j + 1] = b THEN <<a \o b>> \o from[j + 2]
        ELSE <<w[j]>> \o from[j + 1]
  IN  from[1]

GPT2(v, word) ==
  LET round[k \in 0..Len(word)] ==
        IF k = 0 THEN word
        ELSE LET w == round[k - 1]
             IN  IF Pairs(v, w) = {} THEN w
                 ELSE LET least == Min({RankAt(v, w, j) : j \in Pairs(v, w)})
                      IN  MergeAll(w, v.merges[least][1], v.merges[least][2])
  IN  round[Len(word)]

MergesLikeGPT2 ==
  pc = "merge" /\ Pairs(vocab, piece) = {} => piece = GPT2(vocab, Chars(Head(chunks)))

\* Special tokens win over everything else: the text between them contains
\* none, and the one that is pushed is the longest at its position.  (The trie
\* does not look for an empty token.)
SpecialsWin ==
  /\ \A i \in vocab.special : \A from \in 0..Len(pretext) :
       TokenOf(vocab, i) # <<>>
         => ~IsPrefix(TokenOf(vocab, i), SubSeq(pretext, from + 1, Len(pretext)))
  /\ spl >= 0 /\ pc = "pretokenize" =>
       \A i \in vocab.special :
         IsPrefix(TokenOf(vocab, i), SubSeq(text, start + 1, Len(text)))
           => Len(TokenOf(vocab, i)) <= Len(TokenOf(vocab, spl))

\* tokenize() returns or throws for every text and every vocabulary.
TokenizeEnds == <>(pc \in {"done", "threw"})

=============================================================================
