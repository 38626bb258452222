-------------------------- MODULE TokenizerProofs --------------------------
(***************************************************************************)
(* Proofs about Tokenizer, for every text and every vocabulary that the     *)
(* assumption allows.                                                       *)
(***************************************************************************)
EXTENDS Tokenizer, SequenceTheorems, DataLemmas

-----------------------------------------------------------------------------
\* Numbers and sequences.

\* Max is the greatest element of a bounded set.
LEMMA MaxOf ==
  ASSUME NEW S \in SUBSET Nat, S # {}, NEW b \in Nat, \A x \in S : x <= b
  PROVE  Max(S) \in S /\ \A y \in S : y <= Max(S)
<1>1. \E x \in S : \A y \in S : x >= y
  BY GreatestOf
<1> QED BY <1>1 DEF Max

\* The part of t from p to q (offsets, as in C++).
Part(t, p, q) == SubSeq(t, p + 1, q)

\* y is that part, element by element.
IsPart(y, S, t, p, q) ==
  y \in Seq(S) /\ Len(y) = q - p /\ \A j \in 1..(q - p) : y[j] = t[p + j]

\* What a part is made of.
LEMMA PartOf ==
  ASSUME NEW S, NEW t \in Seq(S), NEW p \in Nat, NEW q \in Nat, p <= q, q <= Len(t)
  PROVE  IsPart(Part(t, p, q), S, t, p, q)
<1>1. p + 1 \in Int /\ q \in Int /\ Len(t) \in Nat
  OBVIOUS
<1>2. \A i \in (p + 1)..q : t[i] \in S
  BY <1>1
<1>3. Part(t, p, q) = [i \in 1..(q - p) |-> t[i + p]]
  BY <1>1 DEF Part
<1> QED BY <1>1, <1>2, <1>3 DEF IsPart

\* Two sequences are equal when they have the same length and elements.
LEMMA SameSeq ==
  ASSUME NEW S, NEW R, NEW s \in Seq(S), NEW t \in Seq(R), Len(s) = Len(t),
         \A j \in 1..Len(s) : s[j] = t[j]
  PROVE  s = t
OBVIOUS

\* x stands in t at offset p.
At(x, t, p) == p + Len(x) <= Len(t) /\ x = Part(t, p, p + Len(x))

\* A sequence is a part of itself.
LEMMA WholePart ==
  ASSUME NEW S, NEW t \in Seq(S)
  PROVE  Part(t, 0, Len(t)) = t
<1>1. IsPart(Part(t, 0, Len(t)), S, t, 0, Len(t))
  BY PartOf
<1> QED BY <1>1, SameSeq DEF IsPart

\* A part of a part.
LEMMA PartOfPart ==
  ASSUME NEW S, NEW t \in Seq(S), NEW p \in Nat, NEW q \in Nat, NEW k \in Nat, NEW l \in Nat,
         k <= l, p + l <= q, q <= Len(t)
  PROVE  Part(Part(t, p, q), k, l) = Part(t, p + k, p + l)
<1> DEFINE u == Part(t, p, q)
<1>1. IsPart(u, S, t, p, q)
  BY PartOf
<1> HIDE DEF u
<1>2. u \in Seq(S) /\ Len(u) = q - p
  BY <1>1 DEF IsPart
<1>3. IsPart(Part(u, k, l), S, u, k, l)
  BY <1>2, PartOf
<1>4. p + k \in Nat /\ p + l \in Nat /\ p + k <= p + l
  OBVIOUS
<1>5. IsPart(Part(t, p + k, p + l), S, t, p + k, p + l)
  BY <1>4, PartOf
<1>6. Len(Part(u, k, l)) = Len(Part(t, p + k, p + l))
  BY <1>3, <1>5 DEF IsPart
<1>7. ASSUME NEW j \in 1..(l - k) PROVE Part(u, k, l)[j] = Part(t, p + k, p + l)[j]
  <2>1. Part(u, k, l)[j] = u[k + j]
    BY <1>3 DEF IsPart
  <2>2. u[k + j] = t[p + (k + j)]
    BY <1>1 DEF IsPart
  <2>3. Part(t, p + k, p + l)[j] = t[(p + k) + j]
    BY <1>5 DEF IsPart
  <2> QED BY <2>1, <2>2, <2>3
<1>8. Part(u, k, l) = Part(t, p + k, p + l)
  BY <1>3, <1>5, <1>6, <1>7, SameSeq DEF IsPart
<1> QED BY <1>8 DEF u

\* A string of one more element.
LEMMA PartGrows ==
  ASSUME NEW S, NEW t \in Seq(S), NEW p \in Nat, NEW q \in Nat, p <= q, q < Len(t)
  PROVE  Part(t, p, q + 1) = Append(Part(t, p, q), t[q + 1])
<1> DEFINE u == Part(t, p, q)
           w == Part(t, p, q + 1)
<1>1. IsPart(u, S, t, p, q) /\ IsPart(w, S, t, p, q + 1)
  BY PartOf
<1>2. t[q + 1] \in S
  OBVIOUS
<1> HIDE DEF u, w
<1>3. u \in Seq(S) /\ Len(u) = q - p /\ w \in Seq(S) /\ Len(w) = (q + 1) - p
  BY <1>1 DEF IsPart
<1> DEFINE x == Append(u, t[q + 1])
<1>4. x \in Seq(S) /\ Len(x) = Len(w)
  BY <1>2, <1>3
<1>5. ASSUME NEW j \in 1..Len(w) PROVE w[j] = x[j]
  <2>1. w[j] = t[p + j]
    BY <1>1, <1>3 DEF IsPart
  <2>2. CASE j = (q + 1) - p
    BY <1>3, <2>1, <2>2
  <2>3. CASE j # (q + 1) - p
    <3>1. j \in 1..(q - p)
      BY <1>3, <2>3
    <3>2. u[j] = t[p + j]
      BY <1>1, <3>1 DEF IsPart
    <3>3. x[j] = u[j]
      BY <1>3, <3>1
    <3> QED BY <2>1, <3>2, <3>3
  <2> QED BY <2>2, <2>3
<1>6. w = x
  <2> HIDE DEF x
  <2> QED BY <1>3, <1>4, <1>5, SameSeq
<1> QED BY <1>6 DEF u, w

\* Two parts that meet make one.
LEMMA PartsMeet ==
  ASSUME NEW S, NEW t \in Seq(S), NEW p \in Nat, NEW q \in Nat, NEW r \in Nat,
         p <= q, q <= r, r <= Len(t)
  PROVE  Part(t, p, q) \o Part(t, q, r) = Part(t, p, r)
<1> DEFINE u == Part(t, p, q)
           w == Part(t, q, r)
           y == Part(t, p, r)
           x == u \o w
<1>1. IsPart(u, S, t, p, q) /\ IsPart(w, S, t, q, r) /\ IsPart(y, S, t, p, r)
  BY PartOf
<1> HIDE DEF u, w, y
<1>2. /\ u \in Seq(S) /\ Len(u) = q - p /\ w \in Seq(S) /\ Len(w) = r - q
      /\ y \in Seq(S) /\ Len(y) = r - p
  BY <1>1 DEF IsPart
<1>3. x \in Seq(S) /\ Len(x) = Len(y)
  <2>1. x \in Seq(S) /\ Len(x) = Len(u) + Len(w)
    <3>1. u \in Seq(S) /\ w \in Seq(S)
      BY <1>2
    <3> QED BY <3>1, ConcatProperties
  <2>2. Len(u) + Len(w) = Len(y)
    BY <1>2
  <2> QED BY <2>1, <2>2
<1>4. ASSUME NEW j \in 1..Len(x) PROVE x[j] = y[j]
  <2>1. y[j] = t[p + j]
    BY <1>1, <1>2, <1>3 DEF IsPart
  <2>2. CASE j <= q - p
    <3>1. j \in 1..(q - p)
      BY <1>2, <1>3, <2>2
    <3>2. u[j] = t[p + j]
      BY <1>1, <3>1 DEF IsPart
    <3>3. x[j] = u[j]
      BY <1>2, <3>1
    <3> QED BY <2>1, <3>2, <3>3
  <2>3. CASE j > q - p
    <3> DEFINE i == j - (q - p)
    <3>1. i \in 1..(r - q) /\ q + i = p + j /\ j = Len(u) + i
      BY <1>2, <1>3, <2>3
    <3> HIDE DEF i
    <3>2. w[i] = t[q + i]
      BY <1>1, <3>1 DEF IsPart
    <3>3. x[j] = w[i]
      BY <1>2, <3>1
    <3> QED BY <2>1, <3>1, <3>2, <3>3
  <2> QED BY <1>2, <1>3, <2>2, <2>3
<1>5. x = y
  <2> HIDE DEF x
  <2> QED BY <1>2, <1>3, <1>4, SameSeq
<1> QED BY <1>5 DEF u, w, y

\* To stand at an offset is to be a prefix of what is left there.
LEMMA AtIsPrefix ==
  ASSUME NEW S, NEW t \in Seq(S), NEW x \in Seq(S), NEW p \in 0..Len(t)
  PROVE  IsPrefix(x, Part(t, p, Len(t))) <=> At(x, t, p)
<1> DEFINE u == Part(t, p, Len(t))
           n == Len(x)
<1>1. Len(t) \in Nat /\ p \in Nat /\ p <= Len(t) /\ n \in Nat
  OBVIOUS
<1>2. Len(u) = Len(t) - p
  <2>1. IsPart(u, S, t, p, Len(t))
    BY <1>1, PartOf
  <2> QED BY <2>1 DEF IsPart
<1>3. IsPrefix(x, u) <=> n <= Len(u) /\ Part(x, 0, n) = Part(u, 0, n)
  BY DEF IsPrefix, Part
<1>4. Part(x, 0, n) = x
  BY WholePart
<1>5. ASSUME n <= Len(u) PROVE Part(u, 0, n) = Part(t, p, p + n)
  <2>1. 0 <= n /\ p + n <= Len(t) /\ 0 \in Nat
    BY <1>1, <1>2, <1>5
  <2>2. Part(u, 0, n) = Part(t, p + 0, p + n)
    BY <1>1, <2>1, PartOfPart
  <2> QED BY <1>1, <2>2
<1>6. n <= Len(u) <=> p + n <= Len(t)
  BY <1>1, <1>2
<1> QED BY <1>3, <1>4, <1>5, <1>6 DEF At

\* The part up to d is a prefix of the part up to l.
LEMMA PartIsPrefix ==
  ASSUME NEW S, NEW t \in Seq(S), NEW p \in Nat, NEW d \in Nat, NEW l \in Nat,
         d <= l, p + l <= Len(t)
  PROVE  IsPrefix(Part(t, p, p + d), Part(t, p, p + l))
<1> DEFINE x == Part(t, p, p + d)
           u == Part(t, p, p + l)
<1>1. IsPart(x, S, t, p, p + d) /\ IsPart(u, S, t, p, p + l)
  BY PartOf
<1>2. Len(x) = d /\ Len(u) = l /\ x \in Seq(S)
  BY <1>1 DEF IsPart
<1>3. IsPrefix(x, u) <=> Len(x) <= Len(u) /\ Part(x, 0, Len(x)) = Part(u, 0, Len(x))
  BY DEF IsPrefix, Part
<1>4. Part(x, 0, Len(x)) = x
  BY <1>2, WholePart
<1>5. Part(u, 0, d) = Part(t, p + 0, p + d)
  <2>1. 0 <= d /\ p + d <= p + l /\ 0 \in Nat /\ p + l \in Nat
    OBVIOUS
  <2> QED BY <2>1, PartOfPart
<1> QED BY <1>2, <1>3, <1>4, <1>5

-----------------------------------------------------------------------------
\* The trie.

\* What for_model() may take from the model.
IsVocab(v) ==
  /\ v.tokens \in Seq(Seq(Byte)) /\ v.tokens # <<>>
  /\ v.merges \in Seq(Seq(Byte) \X Seq(Byte))
  /\ v.special \subseteq Ids(v)
  /\ \A i \in v.special : \A j \in DOMAIN TokenOf(v, i) : TokenOf(v, i)[j] \in 0..127

\* w is the special token that the walk from depth d has to find: the longest
\* of those that stand at the offset, or none.
Longest(v, t, p, d, w) ==
  /\ w \in {-1} \cup v.special
  /\ w >= 0 => At(TokenOf(v, w), t, p) /\ Len(TokenOf(v, w)) >= d
  /\ \A i \in v.special :
       At(TokenOf(v, i), t, p) /\ Len(TokenOf(v, i)) >= d
         => w >= 0 /\ Len(TokenOf(v, i)) <= Len(TokenOf(v, w))

\* The tokens of a vocabulary are strings.
LEMMA TokenType ==
  ASSUME NEW v, IsVocab(v), NEW i \in Ids(v)
  PROVE  TokenOf(v, i) \in Seq(Byte) /\ Len(TokenOf(v, i)) \in Nat /\ i \in Nat
BY DEF IsVocab, Ids, TokenOf

\* NodeId is the last special token that ends at a node.
LEMMA NodeIdOf ==
  ASSUME NEW v, IsVocab(v), NEW x
  PROVE  /\ NodeId(v, x) \in {-1} \cup v.special
         /\ NodeId(v, x) >= 0 => TokenOf(v, NodeId(v, x)) = x
         /\ NodeId(v, x) < 0 => \A i \in v.special : TokenOf(v, i) # x
<1> DEFINE here == {i \in v.special : TokenOf(v, i) = x}
           n == Len(v.tokens)
<1>1. n \in Nat /\ here \subseteq Nat /\ \A i \in here : i <= n
  BY DEF IsVocab, Ids
<1>2. CASE here = {}
  BY <1>2 DEF NodeId
<1>3. CASE here # {}
  <2>1. Max(here) \in here
    <3> HIDE DEF here, n
    <3> QED BY <1>1, <1>3, MaxOf
  <2>2. NodeId(v, x) = Max(here)
    BY <1>3 DEF NodeId
  <2>3. Max(here) \in Nat
    BY <1>1, <2>1
  <2>4. PICK k : k = Max(here)
    OBVIOUS
  <2>5. k \in v.special /\ TokenOf(v, k) = x /\ k \in Nat /\ NodeId(v, x) = k
    BY <2>1, <2>2, <2>3, <2>4
  <2> QED BY <2>5
<1> QED BY <1>2, <1>3

\* A step of the walk that finds the longest token from the next depth on finds
\* it from this depth on.
LEMMA LongestStep ==
  ASSUME NEW v, IsVocab(v), NEW t \in Seq(Byte), NEW p \in Nat, NEW d \in Nat,
         d >= 1, p + d <= Len(t), NEW w, Longest(v, t, p, d + 1, w)
  PROVE  Longest(v, t, p, d, IF IsNode(v, Part(t, p, p + d))
                               THEN Best(NodeId(v, Part(t, p, p + d)), w) ELSE -1)
<1> DEFINE x == Part(t, p, p + d)
           k == NodeId(v, x)
<1>1. \A i \in v.special : TokenOf(v, i) \in Seq(Byte) /\ Len(TokenOf(v, i)) \in Nat /\ i \in Nat
  BY TokenType DEF IsVocab
<1>2. Len(x) = d
  <2>1. IsPart(x, Byte, t, p, p + d)
    BY PartOf
  <2> QED BY <2>1 DEF IsPart
<1>3. ASSUME NEW i \in v.special, At(TokenOf(v, i), t, p), Len(TokenOf(v, i)) >= d
      PROVE  IsNode(v, x)
  <2> DEFINE l == Len(TokenOf(v, i))
  <2>1. l \in Nat /\ p + l <= Len(t) /\ TokenOf(v, i) = Part(t, p, p + l) /\ d <= l
    BY <1>1, <1>3 DEF At
  <2>2. IsPrefix(x, Part(t, p, p + l))
    BY <2>1, PartIsPrefix
  <2> QED BY <2>1, <2>2 DEF IsNode
<1>4. \A i \in v.special : TokenOf(v, i) = x <=> At(TokenOf(v, i), t, p) /\ Len(TokenOf(v, i)) = d
  BY <1>1, <1>2 DEF At
<1>5. /\ k \in {-1} \cup v.special
      /\ k >= 0 => TokenOf(v, k) = x
      /\ k < 0 => \A i \in v.special : TokenOf(v, i) # x
  BY NodeIdOf
<1>6. /\ w \in {-1} \cup v.special
      /\ w >= 0 => At(TokenOf(v, w), t, p) /\ Len(TokenOf(v, w)) >= d + 1
      /\ \A i \in v.special :
           At(TokenOf(v, i), t, p) /\ Len(TokenOf(v, i)) >= d + 1
             => w >= 0 /\ Len(TokenOf(v, i)) <= Len(TokenOf(v, w))
  BY DEF Longest
<1> HIDE DEF k
<1>7. CASE ~IsNode(v, x)
  BY <1>3, <1>7 DEF Longest
<1>8. CASE IsNode(v, x) /\ w >= 0
  <2>1. Best(k, w) = w
    BY <1>8 DEF Best
  <2>2. w \in v.special /\ Len(TokenOf(v, w)) >= d
    BY <1>1, <1>6, <1>8
  <2>3. ASSUME NEW i \in v.special, At(TokenOf(v, i), t, p), Len(TokenOf(v, i)) >= d
        PROVE  Len(TokenOf(v, i)) <= Len(TokenOf(v, w))
    BY <1>1, <1>6, <1>8, <2>2, <2>3
  <2>4. Longest(v, t, p, d, w)
    BY <1>6, <1>8, <2>2, <2>3 DEF Longest
  <2> QED BY <1>8, <2>1, <2>4 DEF k
<1>9. CASE IsNode(v, x) /\ ~(w >= 0)
  <2>1. Best(k, w) = k
    BY <1>9 DEF Best
  <2>2. ASSUME NEW i \in v.special, At(TokenOf(v, i), t, p), Len(TokenOf(v, i)) >= d
        PROVE  TokenOf(v, i) = x /\ k >= 0 /\ TokenOf(v, k) = x
    <3>1. Len(TokenOf(v, i)) = d
      BY <1>1, <1>6, <1>9, <2>2
    <3>2. TokenOf(v, i) = x
      BY <1>4, <2>2, <3>1
    <3>3. k >= 0
      BY <1>1, <1>5, <3>2
    <3> QED BY <1>5, <3>2, <3>3
  <2>3. k >= 0 => At(TokenOf(v, k), t, p) /\ Len(TokenOf(v, k)) >= d
    BY <1>1, <1>4, <1>5
  <2>4. Longest(v, t, p, d, k)
    BY <1>2, <1>5, <2>2, <2>3 DEF Longest
  <2> QED BY <1>9, <2>1, <2>4 DEF k
<1> QED BY <1>7, <1>8, <1>9

\* match() finds the longest special token that stands at the offset.
LEMMA MatchLongest ==
  ASSUME NEW v, IsVocab(v), NEW t \in Seq(Byte), NEW p \in Nat, p < Len(t)
  PROVE  Longest(v, t, p, 1, Match(v, t, p))
<1> DEFINE n == Len(t) - p
           V == {-1} \cup v.special
           x(d) == Part(t, p, p + d)
           D == [1..(n + 1) -> V]
           G(c) == [d \in 1..(n + 1) |->
                     IF d > n \/ ~IsNode(v, SubSeq(t, p + 1, p + d)) THEN -1
                     ELSE Best(NodeId(v, SubSeq(t, p + 1, p + d)), c[d + 1])]
           E(d, w) == IF IsNode(v, x(d)) THEN Best(NodeId(v, x(d)), w) ELSE -1
           f == CHOOSE f : f = G(f)
<1>1. n \in Nat /\ n >= 1
  OBVIOUS
<1>2. Match(v, t, p) = f[1]
  BY DEF Match
<1>3. \A c : G(c) = [d \in 1..(n + 1) |-> IF d > n THEN -1 ELSE E(d, c[d + 1])]
  BY <1>1 DEF Part
<1>4. \A d \in 1..n : \A w \in V : E(d, w) \in V
  <2>1. \A d \in 1..n : NodeId(v, x(d)) \in V
    BY NodeIdOf
  <2> QED BY <2>1 DEF Best
<1> HIDE DEF n, V, G, E
<1>5. PICK c : c \in D /\ c[n + 1] = -1 /\ \A d \in 1..n : c[d] = E(d, c[d + 1])
  <2> DEFINE F == [d \in 1..n |-> [g \in D |-> E(d, g[d + 1])]]
  <2>1. \A d \in 1..n : d + 1 \in 1..(n + 1) /\ d + 1 \in (d + 1)..(n + 1)
    BY <1>1
  <2>2. \A d \in 1..n : \A g \in D : g[d + 1] \in V /\ E(d, g[d + 1]) \in V
    BY <1>4, <2>1
  <2>3. F \in [1..n -> [D -> V]]
    BY <2>2
  <2>4. \A d \in 1..n : \A g \in D : F[d][g] = E(d, g[d + 1])
    OBVIOUS
  <2>5. \A d \in 1..n : \A g, h \in D :
          (\A k \in (d + 1)..(n + 1) : g[k] = h[k]) => F[d][g] = F[d][h]
    BY <2>1, <2>4
  <2> DEFINE b == -1
  <2> HIDE DEF F
  <2>6. b \in V
    BY DEF V
  <2> HIDE DEF b
  <2>7. IsBackwardRule(V, b, n, F)
    BY <1>1, <2>3, <2>5, <2>6 DEF IsBackwardRule
  <2>8. PICK c : ObeysBackward(c, V, b, n, F)
    BY <2>7, BackwardFunction
  <2>9. c \in D /\ c[n + 1] = b /\ \A d \in 1..n : c[d] = F[d][c]
    BY <2>8 DEF ObeysBackward
  <2> QED BY <2>4, <2>9 DEF b
<1>6. c = G(c)
  <2>1. \A d \in 1..(n + 1) : c[d] = IF d > n THEN -1 ELSE E(d, c[d + 1])
    BY <1>1, <1>5
  <2> QED BY <1>3, <1>5, <2>1
<1>7. f = G(f)
  BY <1>6
<1> HIDE DEF f
<1>8. \A d \in 1..n : f[d] = E(d, f[d + 1])
  BY <1>1, <1>3, <1>7
<1>9. f[n + 1] = -1
  BY <1>1, <1>3, <1>7
<1>10. \A i \in v.special : Len(TokenOf(v, i)) \in Nat
  BY TokenType DEF IsVocab
<1> DEFINE T == {j \in Nat : j <= n => Longest(v, t, p, n + 1 - j, f[n + 1 - j])}
<1>11. 0 \in T
  <2>1. Longest(v, t, p, n + 1, -1)
    BY <1>1, <1>10 DEF Longest, At, n
  <2>2. n + 1 - 0 = n + 1
    BY <1>1
  <2> QED BY <1>9, <2>1, <2>2
<1>12. ASSUME NEW j \in Nat, j \in T PROVE j + 1 \in T
  <2> SUFFICES ASSUME j + 1 <= n PROVE Longest(v, t, p, n + 1 - (j + 1), f[n + 1 - (j + 1)])
    OBVIOUS
  <2> DEFINE d == n - j
  <2>1. d \in 1..n /\ d + 1 = n + 1 - j /\ n + 1 - (j + 1) = d /\ j <= n
    BY <1>1
  <2>2. Longest(v, t, p, d + 1, f[d + 1])
    BY <1>12, <2>1
  <2>3. p + d <= Len(t) /\ d \in Nat /\ d >= 1
    BY <2>1 DEF n
  <2> HIDE DEF d
  <2>4. Longest(v, t, p, d, E(d, f[d + 1]))
    BY <2>2, <2>3, LongestStep DEF E
  <2> QED BY <1>8, <2>1, <2>4
<1>13. n \in T
  <2> HIDE DEF T
  <2> QED BY <1>1, <1>11, <1>12, NatSetInduction
<1> QED BY <1>1, <1>2, <1>13

-----------------------------------------------------------------------------
\* A sequence of strings that covers a part of the text: its elements are
\* related by R to the parts between p, some cuts, and q.

Cuts(cut, R, s, t, p, q) ==
  /\ cut \in [0..Len(s) -> p..q] /\ cut[0] = p /\ cut[Len(s)] = q
  /\ \A j \in 1..Len(s) : cut[j - 1] <= cut[j] /\ <<s[j], Part(t, cut[j - 1], cut[j])>> \in R
Span(R, s, t, p, q) == \E cut : Cuts(cut, R, s, t, p, q)

\* No string covers nothing.
LEMMA SpanEmpty ==
  ASSUME NEW R, NEW t, NEW p \in Nat
  PROVE  Span(R, <<>>, t, p, p)
<1>1. Len(<<>>) = 0
  OBVIOUS
<1>2. Cuts([j \in 0..0 |-> p], R, <<>>, t, p, p)
  BY <1>1 DEF Cuts
<1> QED BY <1>2 DEF Span

\* A span has its ends in order, and those of no string are equal.
LEMMA SpanEnds ==
  ASSUME NEW R, NEW W, NEW s \in Seq(W), NEW t, NEW p \in Nat, NEW q \in Nat, Span(R, s, t, p, q)
  PROVE  p <= q /\ (s = <<>> => p = q)
<1>1. PICK cut : Cuts(cut, R, s, t, p, q)
  BY DEF Span
<1>2. cut \in [0..Len(s) -> p..q] /\ cut[0] = p /\ cut[Len(s)] = q /\ Len(s) \in Nat
  BY <1>1 DEF Cuts
<1>3. cut[0] \in p..q
  BY <1>2
<1>4. s = <<>> => Len(s) = 0
  OBVIOUS
<1> QED BY <1>2, <1>3, <1>4

\* One string covers the part that it is related to.
LEMMA SpanOne ==
  ASSUME NEW R, NEW x, NEW t, NEW p \in Nat, NEW q \in Nat
  PROVE  Span(R, <<x>>, t, p, q) <=> p <= q /\ <<x, Part(t, p, q)>> \in R
<1> DEFINE s == <<x>>
<1>1. Len(s) = 1 /\ s[1] = x /\ s \in Seq({x})
  OBVIOUS
<1> HIDE DEF s
<1>2. ASSUME Span(R, s, t, p, q) PROVE p <= q /\ <<x, Part(t, p, q)>> \in R
  <2>1. PICK cut : Cuts(cut, R, s, t, p, q)
    BY <1>2 DEF Span
  <2>2. cut[0] = p /\ cut[1] = q /\ 1 \in 1..Len(s) /\ 1 - 1 = 0
    BY <1>1, <2>1 DEF Cuts
  <2>3. cut[1 - 1] <= cut[1] /\ <<s[1], Part(t, cut[1 - 1], cut[1])>> \in R
    BY <2>1, <2>2 DEF Cuts
  <2> QED BY <1>1, <2>2, <2>3
<1>3. ASSUME p <= q, <<x, Part(t, p, q)>> \in R PROVE Span(R, s, t, p, q)
  <2> DEFINE cut == [j \in 0..1 |-> IF j = 0 THEN p ELSE q]
  <2>1. cut \in [0..1 -> p..q] /\ cut[0] = p /\ cut[1] = q
    BY <1>3
  <2> HIDE DEF cut
  <2>2. \A j \in 1..1 : cut[j - 1] <= cut[j] /\ <<s[j], Part(t, cut[j - 1], cut[j])>> \in R
    <3>1. \A j \in 1..1 : j = 1 /\ j - 1 = 0
      OBVIOUS
    <3> QED BY <1>1, <1>3, <2>1, <3>1
  <2> QED BY <1>1, <2>1, <2>2 DEF Cuts, Span
<1> QED BY <1>2, <1>3 DEF s

\* Two spans that meet make one.
LEMMA SpanConcat ==
  ASSUME NEW R, NEW W, NEW s \in Seq(W), NEW u \in Seq(W), NEW t,
         NEW p \in Nat, NEW q \in Nat, NEW r \in Nat,
         Span(R, s, t, p, q), Span(R, u, t, q, r)
  PROVE  Span(R, s \o u, t, p, r)
<1>1. PICK c : Cuts(c, R, s, t, p, q)
  BY DEF Span
<1>2. PICK d : Cuts(d, R, u, t, q, r)
  BY DEF Span
<1> DEFINE m == Len(s)
           k == Len(u)
           e == [j \in 0..(m + k) |-> IF j <= m THEN c[j] ELSE d[j - m]]
           x == s \o u
<1>3. m \in Nat /\ k \in Nat /\ p <= q /\ q <= r
  BY SpanEnds
<1>4. Len(x) = m + k /\ (\A j \in 1..m : x[j] = s[j]) /\ (\A j \in 1..k : x[m + j] = u[j])
  OBVIOUS
<1>5. /\ c \in [0..m -> p..q] /\ c[0] = p /\ c[m] = q
      /\ \A j \in 1..m : c[j - 1] <= c[j] /\ <<s[j], Part(t, c[j - 1], c[j])>> \in R
  BY <1>1 DEF Cuts
<1>6. /\ d \in [0..k -> q..r] /\ d[0] = q /\ d[k] = r
      /\ \A j \in 1..k : d[j - 1] <= d[j] /\ <<u[j], Part(t, d[j - 1], d[j])>> \in R
  BY <1>2 DEF Cuts
<1> HIDE DEF m, k, x
<1>7. (\A j \in 0..m : e[j] = c[j]) /\ (\A j \in 0..k : e[m + j] = d[j])
  <2>1. \A j \in 0..m : e[j] = c[j]
    BY <1>3
  <2>2. ASSUME NEW j \in 0..k PROVE e[m + j] = d[j]
    <3>1. CASE j = 0
      BY <1>3, <1>5, <1>6, <2>1, <3>1
    <3>2. CASE j # 0
      BY <1>3, <3>2
    <3> QED BY <3>1, <3>2
  <2> QED BY <2>1, <2>2
<1>8. e \in [0..(m + k) -> p..r]
  <2>1. ASSUME NEW j \in 0..(m + k) PROVE e[j] \in p..r
    <3>1. CASE j <= m
      BY <1>3, <1>5, <1>7, <3>1
    <3>2. CASE j > m
      <4>1. j - m \in 0..k /\ m + (j - m) = j
        BY <1>3, <3>2
      <4>2. d[j - m] \in q..r
        BY <1>6, <4>1
      <4>3. e[j] = d[j - m]
        <5> HIDE DEF e
        <5> QED BY <1>7, <4>1
      <4> QED BY <1>3, <4>2, <4>3
    <3> QED BY <1>3, <3>1, <3>2
  <2> QED BY <2>1
<1> HIDE DEF e
<1>9. e[0] = p /\ e[m + k] = r
  BY <1>3, <1>5, <1>6, <1>7
<1>10. ASSUME NEW j \in 1..(m + k)
       PROVE  e[j - 1] <= e[j] /\ <<x[j], Part(t, e[j - 1], e[j])>> \in R
  <2>1. CASE j <= m
    <3>1. j \in 1..m /\ j \in 0..m /\ j - 1 \in 0..m
      BY <1>3, <2>1
    <3> QED BY <1>4, <1>5, <1>7, <3>1
  <2>2. CASE j > m
    <3> DEFINE i == j - m
    <3>1. i \in 1..k /\ i \in 0..k /\ i - 1 \in 0..k /\ m + i = j /\ m + (i - 1) = j - 1
      BY <1>3, <2>2
    <3> HIDE DEF i
    <3>2. e[j] = d[i] /\ e[j - 1] = d[i - 1] /\ x[j] = u[i]
      BY <1>4, <1>7, <3>1
    <3> QED BY <1>6, <3>1, <3>2
  <2> QED BY <1>3, <2>1, <2>2
<1>11. Cuts(e, R, x, t, p, r)
  BY <1>4, <1>8, <1>9, <1>10 DEF Cuts
<1> QED BY <1>11 DEF Span, x

\* A span can be cut between any two of its strings.
LEMMA SpanSplit ==
  ASSUME NEW R, NEW W, NEW s \in Seq(W), NEW t, NEW p \in Nat, NEW r \in Nat,
         Span(R, s, t, p, r), NEW k \in 0..Len(s)
  PROVE  \E q \in p..r : /\ Span(R, Part(s, 0, k), t, p, q)
                          /\ Span(R, Part(s, k, Len(s)), t, q, r)
<1>1. PICK c : Cuts(c, R, s, t, p, r)
  BY DEF Span
<1> DEFINE n == Len(s)
           x == Part(s, 0, k)
           y == Part(s, k, n)
           d == [j \in 0..(n - k) |-> c[k + j]]
           e == [j \in 0..k |-> c[j]]
           q == c[k]
<1>2. n \in Nat /\ k \in Nat /\ k <= n /\ n - k \in Nat
  OBVIOUS
<1>3. Len(x) = k /\ \A j \in 1..k : x[j] = s[j]
  <2>1. IsPart(x, W, s, 0, k)
    BY <1>2, PartOf
  <2> QED BY <1>2, <2>1 DEF IsPart
<1>4. Len(y) = n - k /\ \A j \in 1..(n - k) : y[j] = s[k + j]
  <2>1. IsPart(y, W, s, k, n)
    BY <1>2, PartOf
  <2> QED BY <1>2, <2>1 DEF IsPart
<1>5. /\ c \in [0..n -> p..r] /\ c[0] = p /\ c[n] = r
      /\ \A j \in 1..n : c[j - 1] <= c[j] /\ <<s[j], Part(t, c[j - 1], c[j])>> \in R
  BY <1>1 DEF Cuts
<1> HIDE DEF n, x, y
<1>6. q \in p..r
  BY <1>2, <1>5
<1> DEFINE T == {j \in Nat : j <= n => \A i \in 0..j : c[i] <= c[j]}
<1>7. 0 \in T
  BY <1>5
<1>8. ASSUME NEW j \in Nat, j \in T PROVE j + 1 \in T
  <2> SUFFICES ASSUME j + 1 <= n, NEW i \in 0..(j + 1) PROVE c[i] <= c[j + 1]
    OBVIOUS
  <2>1. j + 1 \in 1..n /\ (j + 1) - 1 = j /\ j \in 0..n /\ j + 1 \in 0..n /\ i \in 0..n
    BY <1>2
  <2>2. c[j] <= c[j + 1]
    BY <1>5, <2>1
  <2>3. c[i] \in Int /\ c[j] \in Int /\ c[j + 1] \in Int
    BY <1>5, <2>1
  <2>4. CASE i = j + 1
    BY <2>3, <2>4
  <2>5. CASE i \in 0..j
    BY <1>2, <1>8, <2>1, <2>2, <2>3, <2>5
  <2> QED BY <2>4, <2>5
<1>9. \A j \in 0..n : \A i \in 0..j : c[i] <= c[j]
  <2> HIDE DEF T
  <2>1. Nat \subseteq T
    BY <1>7, <1>8, NatSetInduction
  <2>2. \A j \in 0..n : j \in T /\ j <= n
    BY <1>2, <2>1
  <2> QED BY <2>2 DEF T
<1>10. Cuts(e, R, x, t, p, q)
  <2>1. \A j \in 0..k : e[j] = c[j] /\ c[j] \in p..q
    <3>1. \A j \in 0..k : c[j] <= c[k] /\ c[j] \in p..r
      BY <1>2, <1>5, <1>9
    <3> QED BY <1>6, <3>1
  <2>2. e \in [0..k -> p..q]
    BY <2>1
  <2>3. 0 \in 0..k /\ k \in 0..k /\ \A j \in 1..k : j \in 1..n /\ j \in 0..k /\ j - 1 \in 0..k
    BY <1>2
  <2> HIDE DEF e
  <2>4. e[0] = p /\ e[k] = q
    BY <1>5, <2>1, <2>3
  <2>5. \A j \in 1..k : e[j - 1] <= e[j] /\ <<x[j], Part(t, e[j - 1], e[j])>> \in R
    BY <1>3, <1>5, <2>1, <2>3
  <2> QED BY <1>3, <2>2, <2>4, <2>5 DEF Cuts
<1>11. Cuts(d, R, y, t, q, r)
  <2>1. \A j \in 0..(n - k) : k + j \in 0..n /\ k \in 0..(k + j)
    BY <1>2
  <2>2. \A j \in 0..(n - k) : d[j] = c[k + j] /\ c[k + j] \in q..r
    <3>1. \A j \in 0..(n - k) : c[k] <= c[k + j] /\ c[k + j] \in p..r
      BY <1>5, <1>9, <2>1
    <3> QED BY <1>6, <3>1
  <2>3. d \in [0..(n - k) -> q..r]
    BY <2>2
  <2>4. 0 \in 0..(n - k) /\ n - k \in 0..(n - k) /\ k + 0 = k /\ k + (n - k) = n
    BY <1>2
  <2> HIDE DEF d
  <2>5. d[0] = q /\ d[n - k] = r
    BY <1>5, <2>2, <2>4
  <2>6. ASSUME NEW j \in 1..(n - k)
        PROVE  d[j - 1] <= d[j] /\ <<y[j], Part(t, d[j - 1], d[j])>> \in R
    <3>1. j \in 0..(n - k) /\ j - 1 \in 0..(n - k) /\ k + j \in 1..n /\ k + (j - 1) = (k + j) - 1
      BY <1>2
    <3>2. d[j] = c[k + j] /\ d[j - 1] = c[(k + j) - 1] /\ y[j] = s[k + j]
      BY <1>4, <2>2, <3>1
    <3> QED BY <1>5, <3>1, <3>2
  <2> QED BY <1>4, <2>3, <2>5, <2>6 DEF Cuts
<1> QED BY <1>6, <1>10, <1>11 DEF Span, x, y, n

-----------------------------------------------------------------------------
\* The two maps between bytes and characters.

Shifted(b) == {x \in 0..(b - 1) : x \notin Printable}

\* The bytes that are shifted before a byte are finitely many.
LEMMA ShiftedCount ==
  ASSUME NEW b \in Byte
  PROVE  IsFiniteSet(Shifted(b)) /\ Cardinality(Shifted(b)) \in 0..255
<1>1. IsFiniteSet(0..(b - 1)) /\ Cardinality(0..(b - 1)) = b
  <2>1. IsFiniteSet(0..(b - 1)) /\ Cardinality(0..(b - 1)) = IF 0 > b - 1 THEN 0 ELSE (b - 1) - 0 + 1
    BY FS_Interval DEF Byte
  <2> QED BY <2>1 DEF Byte
<1>2. Shifted(b) \subseteq 0..(b - 1)
  BY DEF Shifted
<1>3. IsFiniteSet(Shifted(b)) /\ Cardinality(Shifted(b)) <= Cardinality(0..(b - 1))
  BY <1>1, <1>2, FS_Subset
<1>4. Cardinality(Shifted(b)) \in Nat
  BY <1>3, FS_CardinalityType
<1> DEFINE k == Cardinality(Shifted(b))
<1>5. k \in Nat /\ k <= b
  BY <1>1, <1>3, <1>4
<1>6. b \in 0..255
  BY DEF Byte
<1> HIDE DEF k
<1>7. k \in 0..255
  BY <1>5, <1>6
<1> QED BY <1>3, <1>7 DEF k

\* No two bytes have the same code point.
LEMMA CodePointInjective ==
  ASSUME NEW b \in Byte, NEW c \in Byte, CodePoint(b) = CodePoint(c)
  PROVE  b = c
<1>1. ASSUME NEW x \in Byte, NEW y \in Byte, x \notin Printable, x < y
      PROVE  Cardinality(Shifted(x)) < Cardinality(Shifted(y))
  <2>1. IsFiniteSet(Shifted(x)) /\ Cardinality(Shifted(x)) \in 0..255
    BY ShiftedCount
  <2>2. IsFiniteSet(Shifted(y)) /\ Cardinality(Shifted(y)) \in 0..255
    BY ShiftedCount
  <2>3. x \notin Shifted(x)
    BY DEF Shifted, Byte
  <2>4. Shifted(x) \cup {x} \subseteq Shifted(y)
    BY <1>1 DEF Shifted, Byte
  <2>5. Cardinality(Shifted(x) \cup {x}) = Cardinality(Shifted(x)) + 1
    BY <2>1, <2>3, FS_AddElement
  <2>6. Cardinality(Shifted(x) \cup {x}) <= Cardinality(Shifted(y))
    BY <2>2, <2>4, FS_Subset
  <2>7. \A k, l : k \in 0..255 /\ l \in 0..255 /\ k + 1 <= l => k < l
    OBVIOUS
  <2> QED BY <2>1, <2>2, <2>5, <2>6, <2>7
<1> DEFINE n(x) == Cardinality(Shifted(x))
<1>2. \A x \in Byte : CodePoint(x) = IF x \in Printable THEN x ELSE 256 + Cardinality(Shifted(x))
  BY DEF CodePoint, Shifted
<1>3. \A x \in Byte : Cardinality(Shifted(x)) \in 0..255 /\ x \in 0..255
  BY ShiftedCount DEF Byte
<1>4. PICK i, k : i = n(b) /\ k = n(c)
  OBVIOUS
<1>5. i \in 0..255 /\ k \in 0..255 /\ b \in 0..255 /\ c \in 0..255
  BY <1>3, <1>4
<1>6. (IF b \in Printable THEN b ELSE 256 + i) = (IF c \in Printable THEN c ELSE 256 + k)
  <2>1. CodePoint(b) = IF b \in Printable THEN b ELSE 256 + n(b)
    BY <1>2
  <2>2. CodePoint(c) = IF c \in Printable THEN c ELSE 256 + n(c)
    BY <1>2
  <2> HIDE DEF n
  <2> QED BY <1>4, <2>1, <2>2
<1> DEFINE P == Printable
<1> HIDE DEF P
<1>7. CASE b \in P \/ c \in P
  BY <1>5, <1>6, <1>7 DEF P
<1>8. CASE b \notin P /\ c \notin P
  <2>1. i = k
    BY <1>5, <1>6, <1>8 DEF P
  <2>2. (b < c => i < k) /\ (c < b => k < i)
    BY <1>1, <1>4, <1>8 DEF P
  <2> QED BY <1>5, <2>1, <2>2
<1> QED BY <1>7, <1>8

\* A character of one byte or two whose first byte tells its length.
WellFormed(x, short) ==
  /\ x \in Seq(Byte)
  /\ Len(x) = LeadLength(x[1])
  /\ Len(x) = IF short THEN 1 ELSE 2

\* A code point is one byte or two, and the first byte tells which.
LEMMA Utf8Form ==
  ASSUME NEW cp \in 0..511
  PROVE  WellFormed(Utf8(cp), cp <= 127)
<1> USE DEF WellFormed
<1>1. CASE cp <= 127
  <2>1. Utf8(cp) = <<cp>>
    BY <1>1 DEF Utf8
  <2>2. LeadLength(cp) = 1
    BY <1>1 DEF LeadLength
  <2> QED BY <1>1, <2>1, <2>2 DEF Byte
<1>2. CASE cp > 127
  <2> DEFINE x == 192 + (cp \div 64)
             y == 128 + (cp % 64)
  <2>1. x \in 192..199 /\ y \in 128..191
    BY <1>2
  <2>2. Utf8(cp) = <<x, y>>
    BY <1>2 DEF Utf8
  <2> HIDE DEF x, y
  <2>3. LeadLength(x) = 2
    BY <2>1 DEF LeadLength
  <2>4. x \in Byte /\ y \in Byte
    BY <2>1 DEF Byte
  <2> QED BY <1>2, <2>2, <2>3, <2>4
<1> QED BY <1>1, <1>2

\* Different code points have different encodings.
LEMMA Utf8Injective ==
  ASSUME NEW cp \in 0..511, NEW cq \in 0..511, Utf8(cp) = Utf8(cq)
  PROVE  cp = cq
<1>1. CASE cp <= 127 /\ cq <= 127
  BY <1>1 DEF Utf8
<1>2. CASE cp > 127 /\ cq > 127
  <2>1. cp \div 64 = cq \div 64 /\ cp % 64 = cq % 64
    <3> DEFINE x == 192 + (cp \div 64)
               y == 128 + (cp % 64)
               u == 192 + (cq \div 64)
               w == 128 + (cq % 64)
    <3>1. <<x, y>> = <<u, w>>
      BY <1>2 DEF Utf8
    <3>2. x = u /\ y = w
      <4> HIDE DEF x, y, u, w
      <4> QED BY <3>1
    <3> QED BY <3>2
  <2> QED BY <2>1
<1>3. CASE ~(cp <= 127 <=> cq <= 127)
  <2>1. WellFormed(Utf8(cp), cp <= 127) /\ WellFormed(Utf8(cq), cq <= 127)
    BY Utf8Form
  <2>2. Len(Utf8(cp)) = (IF cp <= 127 THEN 1 ELSE 2) /\ Len(Utf8(cq)) = (IF cq <= 127 THEN 1 ELSE 2)
    BY <2>1 DEF WellFormed
  <2> QED BY <1>3, <2>2
<1> QED BY <1>1, <1>2, <1>3

\* The code points are below 512.
LEMMA CodePointType ==
  ASSUME NEW b \in Byte
  PROVE  CodePoint(b) \in 0..511 /\ (CodePoint(b) <= 127 => CodePoint(b) = b)
<1>1. PICK k : k = Cardinality(Shifted(b))
  OBVIOUS
<1>2. k \in 0..255 /\ b \in 0..255
  BY <1>1, ShiftedCount DEF Byte
<1>3. CodePoint(b) = IF b \in Printable THEN b ELSE 256 + k
  BY <1>1 DEF CodePoint, Shifted
<1> QED BY <1>2, <1>3

\* The character of a byte is decoded to that byte, and its first byte tells
\* its length.
LEMMA ByteDecodes ==
  ASSUME NEW b \in Byte
  PROVE  /\ ByteToUnicode[b] \in Seq(Byte)
         /\ Len(ByteToUnicode[b]) = LeadLength(ByteToUnicode[b][1])
         /\ Len(ByteToUnicode[b]) \in 1..2
         /\ PieceChars(ByteToUnicode[b]) = <<b>>
<1>1. \A x \in Byte : ByteToUnicode[x] = Utf8(CodePoint(x))
  BY DEF ByteToUnicode
<1>2. \A x \in Byte : CodePoint(x) \in 0..511
  BY CodePointType
<1>3. WellFormed(ByteToUnicode[b], CodePoint(b) <= 127)
  BY <1>1, <1>2, Utf8Form
<1>4. /\ ByteToUnicode[b] \in Seq(Byte)
      /\ Len(ByteToUnicode[b]) = LeadLength(ByteToUnicode[b][1])
      /\ Len(ByteToUnicode[b]) \in 1..2
  BY <1>3 DEF WellFormed
<1>5. {x \in Byte : ByteToUnicode[x] = ByteToUnicode[b]} = {b}
  <2>1. ASSUME NEW x \in Byte, ByteToUnicode[x] = ByteToUnicode[b] PROVE x = b
    <3>1. CodePoint(x) = CodePoint(b)
      BY <1>1, <1>2, <2>1, Utf8Injective
    <3> QED BY <3>1, CodePointInjective
  <2> QED BY <2>1
<1>6. Max({b}) = b
  BY DEF Max, Byte
<1>7. PieceChars(ByteToUnicode[b]) = <<Max({b})>>
  BY <1>5 DEF PieceChars
<1> QED BY <1>4, <1>6, <1>7

\* A byte of ASCII is decoded to itself, mapped or not.
LEMMA AsciiDecodes ==
  ASSUME NEW c \in 0..127
  PROVE  PieceChars(<<c>>) = <<c>> /\ LeadLength(c) = 1
<1> DEFINE bytes == {x \in Byte : ByteToUnicode[x] = <<c>>}
<1>1. ASSUME NEW x \in bytes PROVE x = c
  <2>1. x \in Byte /\ Utf8(CodePoint(x)) = <<c>>
    BY DEF ByteToUnicode
  <2>2. CodePoint(x) \in 0..511 /\ (CodePoint(x) <= 127 => CodePoint(x) = x)
    BY <2>1, CodePointType
  <2>3. WellFormed(<<c>>, CodePoint(x) <= 127)
    BY <2>1, <2>2, Utf8Form
  <2>4. CodePoint(x) <= 127
    BY <2>2, <2>3 DEF WellFormed
  <2>5. <<CodePoint(x)>> = <<c>>
    BY <2>1, <2>4 DEF Utf8
  <2> QED BY <2>2, <2>4, <2>5
<1>2. bytes = {} \/ bytes = {c}
  BY <1>1
<1>3. Max({c}) = c
  BY DEF Max
<1>4. PieceChars(<<c>>) = IF bytes = {} THEN <<c>> ELSE <<Max(bytes)>>
  BY DEF PieceChars
<1>5. LeadLength(c) = 1
  BY DEF LeadLength
<1> QED BY <1>2, <1>3, <1>4, <1>5

\* n elements of x behind i are those of z behind e.
Agree(x, i, z, e, n) == \A l \in 1..n : x[i + l] = z[e + l]

\* Parts with the same elements are equal.
LEMMA SameParts ==
  ASSUME NEW S, NEW x \in Seq(S), NEW z \in Seq(S), NEW i \in Nat, NEW j \in Nat,
         NEW e \in Nat, NEW g \in Nat, NEW n \in Nat, j = i + n, j <= Len(x), g = e + n, g <= Len(z),
         Agree(x, i, z, e, n)
  PROVE  Part(x, i, j) = Part(z, e, g)
<1> DEFINE u == Part(x, i, j)
           w == Part(z, e, g)
<1>1. IsPart(u, S, x, i, j)
  BY PartOf
<1>2. IsPart(w, S, z, e, g)
  BY PartOf
<1>3. j - i = n /\ g - e = n
  OBVIOUS
<1> HIDE DEF u, w
<1>4. u \in Seq(S) /\ w \in Seq(S) /\ Len(u) = n /\ Len(w) = n
  BY <1>1, <1>2, <1>3 DEF IsPart
<1>5. \A l \in 1..n : u[l] = x[i + l] /\ w[l] = z[e + l]
  BY <1>1, <1>2, <1>3 DEF IsPart
<1>6. \A l \in 1..Len(u) : u[l] = w[l]
  BY <1>4, <1>5 DEF Agree
<1>7. u = w
  BY <1>4, <1>6, SameSeq
<1> QED BY <1>7 DEF u, w

\* A part of one element.
LEMMA PartOne ==
  ASSUME NEW S, NEW t \in Seq(S), NEW k \in 1..Len(t)
  PROVE  Part(t, k - 1, k) = <<t[k]>>
<1>1. k - 1 \in Nat /\ k \in Nat /\ k - 1 <= k /\ k <= Len(t) /\ k - (k - 1) = 1 /\ (k - 1) + 1 = k
  OBVIOUS
<1>2. IsPart(Part(t, k - 1, k), S, t, k - 1, k)
  BY <1>1, PartOf
<1>3. Part(t, k - 1, k) \in Seq(S) /\ Len(Part(t, k - 1, k)) = 1 /\ Part(t, k - 1, k)[1] = t[k]
  BY <1>1, <1>2 DEF IsPart
<1> QED BY <1>3

\* A span is the same in another text that has the same parts, moved by d.
LEMMA SpanMoved ==
  ASSUME NEW R, NEW W, NEW s \in Seq(W), NEW t, NEW u, NEW p \in Nat, NEW q \in Nat, NEW d \in Nat,
         Span(R, s, t, p, q),
         \A i, j \in p..q : i <= j => Part(t, i, j) = Part(u, d + i, d + j)
  PROVE  Span(R, s, u, d + p, d + q)
<1>1. PICK c : Cuts(c, R, s, t, p, q)
  BY DEF Span
<1> DEFINE n == Len(s)
           e == [j \in 0..n |-> d + c[j]]
<1>2. n \in Nat
  OBVIOUS
<1>3. /\ c \in [0..n -> p..q] /\ c[0] = p /\ c[n] = q
      /\ \A j \in 1..n : c[j - 1] <= c[j] /\ <<s[j], Part(t, c[j - 1], c[j])>> \in R
  BY <1>1 DEF Cuts
<1> HIDE DEF n
<1>4. \A j \in 0..n : e[j] = d + c[j] /\ e[j] \in (d + p)..(d + q)
  BY <1>2, <1>3
<1>5. e \in [0..n -> (d + p)..(d + q)]
  BY <1>4
<1> HIDE DEF e
<1>6. ASSUME NEW j \in 1..n PROVE e[j - 1] <= e[j] /\ <<s[j], Part(u, e[j - 1], e[j])>> \in R
  <2>1. j \in 0..n /\ j - 1 \in 0..n
    BY <1>2
  <2>2. c[j - 1] \in p..q /\ c[j] \in p..q /\ c[j - 1] <= c[j] /\ <<s[j], Part(t, c[j - 1], c[j])>> \in R
    BY <1>3, <2>1
  <2>3. Part(t, c[j - 1], c[j]) = Part(u, d + c[j - 1], d + c[j])
    BY <2>2
  <2>4. d + c[j - 1] <= d + c[j]
    BY <2>2
  <2> QED BY <1>4, <2>1, <2>2, <2>3, <2>4
<1>7. e[0] = d + p /\ e[n] = d + q
  BY <1>2, <1>3, <1>4
<1> QED BY <1>5, <1>6, <1>7 DEF Cuts, Span, n

-----------------------------------------------------------------------------
\* A token and the bytes that it is decoded to.

\* A byte and a character that is decoded to it.
Char == {z \in Byte \X Seq(Byte) : Len(z[2]) = LeadLength(z[2][1]) /\ PieceChars(z[2]) = <<z[1]>>}
Token == {z \in Seq(Byte) \X Seq(Byte) : Span(Char, z[2], z[1], 0, Len(z[1]))}

\* The character of a byte is a token of that byte.
LEMMA TokenOfByte ==
  ASSUME NEW b \in Byte
  PROVE  <<ByteToUnicode[b], <<b>> >> \in Token
<1> DEFINE x == ByteToUnicode[b]
<1>1. x \in Seq(Byte) /\ Len(x) = LeadLength(x[1]) /\ Len(x) \in 1..2 /\ PieceChars(x) = <<b>>
  BY ByteDecodes
<1> HIDE DEF x
<1>2. <<b, x>> \in Char
  BY <1>1 DEF Char
<1>3. Part(x, 0, Len(x)) = x
  BY <1>1, WholePart
<1>4. Span(Char, <<b>>, x, 0, Len(x))
  <2>1. 0 <= Len(x) /\ Len(x) \in Nat /\ 0 \in Nat
    BY <1>1
  <2> QED BY <1>2, <1>3, <2>1, SpanOne
<1>5. <<b>> \in Seq(Byte)
  OBVIOUS
<1> QED BY <1>1, <1>4, <1>5 DEF Token, x

\* A string of ASCII is a token of itself.
LEMMA TokenOfAscii ==
  ASSUME NEW x \in Seq(Byte), \A j \in 1..Len(x) : x[j] \in 0..127
  PROVE  <<x, x>> \in Token
<1> DEFINE n == Len(x)
           c == [j \in 0..n |-> j]
<1>1. n \in Nat
  OBVIOUS
<1>2. ASSUME NEW j \in 1..n PROVE <<x[j], Part(x, j - 1, j)>> \in Char
  <2>1. Part(x, j - 1, j) = <<x[j]>>
    BY PartOne
  <2>2. PieceChars(<<x[j]>>) = <<x[j]>> /\ LeadLength(x[j]) = 1
    BY AsciiDecodes
  <2>3. x[j] \in Byte /\ <<x[j]>> \in Seq(Byte) /\ Len(<<x[j]>>) = 1 /\ <<x[j]>>[1] = x[j]
    OBVIOUS
  <2> QED BY <2>1, <2>2, <2>3 DEF Char
<1> HIDE DEF n
<1>3. \A j \in 1..n : c[j] = j /\ c[j - 1] = j - 1
  BY <1>1
<1>4. c \in [0..n -> 0..n] /\ c[0] = 0 /\ c[n] = n
  BY <1>1
<1> HIDE DEF c
<1>5. \A j \in 1..n : c[j - 1] <= c[j] /\ <<x[j], Part(x, c[j - 1], c[j])>> \in Char
  BY <1>1, <1>2, <1>3
<1>6. Cuts(c, Char, x, x, 0, n)
  BY <1>4, <1>5 DEF Cuts, n
<1> QED BY <1>6 DEF Span, Token, n

\* Tokens that are joined are decoded to what each is decoded to.
LEMMA TokenConcat ==
  ASSUME NEW x, NEW y, NEW w, NEW u, <<x, w>> \in Token, <<y, u>> \in Token
  PROVE  <<x \o y, w \o u>> \in Token
<1>1. /\ x \in Seq(Byte) /\ w \in Seq(Byte) /\ Span(Char, w, x, 0, Len(x))
      /\ y \in Seq(Byte) /\ u \in Seq(Byte) /\ Span(Char, u, y, 0, Len(y))
  BY DEF Token
<1> DEFINE m == Len(x)
           k == Len(y)
           z == x \o y
<1>2. m \in Nat /\ k \in Nat /\ z \in Seq(Byte) /\ Len(z) = m + k
  BY <1>1, ConcatProperties
<1>3. /\ \A j \in 1..m : z[j] = x[j]
      /\ \A j \in 1..k : z[m + j] = y[j]
  BY <1>1
<1>11. m = Len(x) /\ k = Len(y) /\ x \in Seq(Byte) /\ y \in Seq(Byte) /\ z \in Seq(Byte)
  BY <1>1, <1>2
<1> HIDE DEF z, m, k
<1>4. ASSUME NEW i \in 0..m, NEW j \in 0..m, i <= j PROVE Part(x, i, j) = Part(z, 0 + i, 0 + j)
  <2>1. PICK n : n = j - i
    OBVIOUS
  <2>2. /\ i \in Nat /\ j \in Nat /\ n \in Nat /\ j = i + n /\ j <= Len(x) /\ j <= Len(z)
        /\ 0 + i = i /\ 0 + j = j
    BY <1>2, <1>4, <1>11, <2>1
  <2>3. \A l \in 1..n : i + l \in 1..m
    BY <1>2, <2>2
  <2>4. Agree(x, i, z, i, n)
    BY <1>3, <2>3 DEF Agree
  <2>5. Part(x, i, j) = Part(z, i, j)
    BY <1>11, <2>2, <2>4, SameParts
  <2> QED BY <2>2, <2>5
<1>5. ASSUME NEW i \in 0..k, NEW j \in 0..k, i <= j PROVE Part(y, i, j) = Part(z, m + i, m + j)
  <2>1. PICK e, g, n : e = m + i /\ g = m + j /\ n = j - i
    OBVIOUS
  <2>2. /\ i \in Nat /\ j \in Nat /\ e \in Nat /\ g \in Nat /\ n \in Nat
        /\ j = i + n /\ j <= Len(y) /\ g = e + n /\ g <= Len(z)
    BY <1>2, <1>5, <1>11, <2>1
  <2>3. \A l \in 1..n : i + l \in 1..k /\ e + l = m + (i + l)
    BY <1>2, <2>1, <2>2
  <2>4. Agree(y, i, z, e, n)
    BY <1>3, <2>3 DEF Agree
  <2>5. Part(y, i, j) = Part(z, e, g)
    BY <1>11, <2>2, <2>4, SameParts
  <2> QED BY <2>1, <2>5
<1>6. Span(Char, w, z, 0 + 0, 0 + m)
  <2>1. Span(Char, w, x, 0, m) /\ 0 \in Nat
    BY <1>1 DEF m
  <2> QED BY <1>1, <1>2, <1>4, <2>1, SpanMoved
<1>7. Span(Char, u, z, m + 0, m + k)
  <2>1. Span(Char, u, y, 0, k) /\ 0 \in Nat
    BY <1>1 DEF k
  <2> QED BY <1>1, <1>2, <1>5, <2>1, SpanMoved
<1>8. 0 + 0 = 0 /\ 0 + m = m /\ m + 0 = m /\ m + k \in Nat /\ 0 \in Nat
  BY <1>2
<1>9. Span(Char, w \o u, z, 0, m + k)
  BY <1>1, <1>2, <1>6, <1>7, <1>8, SpanConcat
<1>10. w \o u \in Seq(Byte)
  BY <1>1
<1> QED BY <1>2, <1>9, <1>10 DEF Token, z

\* unicode_to_chars_ on the characters from i on.
Rest(x, i, c) ==
  LET next == i + LeadLength(x[i])
      to == IF next <= Len(x) + 1 THEN next ELSE Len(x) + 1
  IN  PieceChars(SubSeq(x, i, to - 1)) \o c[to]
From(x) ==
  CHOOSE from : from = [i \in 1..(Len(x) + 1) |-> IF i = Len(x) + 1 THEN <<>> ELSE Rest(x, i, from)]

\* What a piece is decoded to is a string.
LEMMA PieceType ==
  ASSUME NEW y \in Seq(Byte)
  PROVE  PieceChars(y) \in Seq(Byte)
<1> DEFINE bytes == {b \in Byte : ByteToUnicode[b] = y}
<1>1. PieceChars(y) = IF bytes = {} THEN y ELSE <<Max(bytes)>>
  BY DEF PieceChars
<1>2. CASE bytes = {}
  BY <1>1, <1>2
<1>3. CASE bytes # {}
  <2>3. bytes \subseteq Byte
    OBVIOUS
  <2> HIDE DEF bytes
  <2>1. bytes \subseteq Nat /\ 255 \in Nat /\ \A b \in bytes : b <= 255
    BY <2>3 DEF Byte
  <2>2. Max(bytes) \in bytes
    BY <1>3, <2>1, MaxOf
  <2>4. PieceChars(y) = <<Max(bytes)>> /\ Max(bytes) \in Byte
    BY <1>1, <1>3, <2>3, <2>2
  <2> QED BY <2>4
<1> QED BY <1>2, <1>3

\* The first byte of a character announces one to four bytes.
LEMMA LeadLengthType ==
  ASSUME NEW c
  PROVE  LeadLength(c) \in 1..4
BY DEF LeadLength

\* The loop of unicode_to_chars_ takes one character after the other.
LEMMA FromSteps ==
  ASSUME NEW x \in Seq(Byte)
  PROVE  /\ UnicodeToChars(x) = From(x)[1]
         /\ From(x)[Len(x) + 1] = <<>>
         /\ \A i \in 1..Len(x) : From(x)[i] = Rest(x, i, From(x))
<1> DEFINE n == Len(x)
           V == Seq(Byte)
           D == [1..(n + 1) -> V]
           to(i) == IF i + LeadLength(x[i]) <= n + 1 THEN i + LeadLength(x[i]) ELSE n + 1
           G(c) == [i \in 1..(n + 1) |-> IF i = n + 1 THEN <<>> ELSE Rest(x, i, c)]
           f == CHOOSE f : f = G(f)
<1>1. n \in Nat
  OBVIOUS
<1>2. UnicodeToChars(x) = f[1]
  BY DEF UnicodeToChars, Rest
<1>3. From(x) = f
  BY DEF From
<1>4. \A i \in 1..n : \A c : Rest(x, i, c) = PieceChars(SubSeq(x, i, to(i) - 1)) \o c[to(i)]
  BY DEF Rest
<1>5. \A i \in 1..n : to(i) \in (i + 1)..(n + 1)
  BY <1>1, LeadLengthType
<1>6. ASSUME NEW i \in 1..n PROVE PieceChars(SubSeq(x, i, to(i) - 1)) \in V
  <2> DEFINE k == to(i) - 1
  <2>1. k \in i..n
    BY <1>1, <1>5
  <2> HIDE DEF k
  <2>2. i - 1 \in Nat /\ k \in Nat /\ i - 1 <= k /\ k <= Len(x) /\ (i - 1) + 1 = i
    BY <1>1, <2>1
  <2>3. IsPart(Part(x, i - 1, k), Byte, x, i - 1, k)
    BY <2>2, PartOf
  <2>4. SubSeq(x, i, k) \in Seq(Byte)
    BY <2>2, <2>3 DEF IsPart, Part
  <2> QED BY <2>4, PieceType DEF k
<1> HIDE DEF n, to, V
<1>7. PICK c : c \in D /\ c[n + 1] = <<>> /\ \A i \in 1..n : c[i] = Rest(x, i, c)
  <2> DEFINE F == [i \in 1..n |-> [g \in D |-> Rest(x, i, g)]]
             b == <<>>
  <2>1. \A i \in 1..n : to(i) \in 1..(n + 1) /\ to(i) \in (i + 1)..(n + 1)
    BY <1>1, <1>5
  <2>2. ASSUME NEW i \in 1..n, NEW g \in D PROVE Rest(x, i, g) \in V
    <3>1. g[to(i)] \in V
      BY <2>1
    <3>2. PieceChars(SubSeq(x, i, to(i) - 1)) \o g[to(i)] \in V
      BY <1>6, <3>1 DEF V
    <3> QED BY <1>4, <3>2
  <2>3. F \in [1..n -> [D -> V]]
    BY <2>2
  <2>4. \A i \in 1..n : \A g \in D : F[i][g] = Rest(x, i, g)
    OBVIOUS
  <2>5. ASSUME NEW i \in 1..n, NEW g \in D, NEW h \in D, \A k \in (i + 1)..(n + 1) : g[k] = h[k]
        PROVE  F[i][g] = F[i][h]
    <3>1. g[to(i)] = h[to(i)]
      BY <2>1, <2>5
    <3>2. Rest(x, i, g) = Rest(x, i, h)
      BY <1>4, <3>1
    <3> QED BY <2>4, <3>2
  <2> HIDE DEF F
  <2>6. b \in V
    BY DEF V
  <2> HIDE DEF b
  <2>7. IsBackwardRule(V, b, n, F)
    BY <1>1, <2>3, <2>5, <2>6 DEF IsBackwardRule
  <2>8. PICK c : ObeysBackward(c, V, b, n, F)
    BY <2>7, BackwardFunction
  <2>9. c \in D /\ c[n + 1] = b /\ \A i \in 1..n : c[i] = F[i][c]
    BY <2>8 DEF ObeysBackward
  <2> QED BY <2>4, <2>9 DEF b
<1>8. c = G(c)
  <2>1. \A i \in 1..(n + 1) : c[i] = IF i = n + 1 THEN <<>> ELSE Rest(x, i, c)
    BY <1>1, <1>7
  <2> QED BY <1>7, <2>1
<1>9. f = G(f)
  <2> HIDE DEF G
  <2> QED BY <1>8
<1> HIDE DEF f
<1>10. f[n + 1] = <<>> /\ \A i \in 1..n : f[i] = Rest(x, i, f)
  BY <1>1, <1>9
<1> QED BY <1>2, <1>3, <1>10 DEF n

\* A token is decoded to its bytes.
LEMMA TokenDecoded ==
  ASSUME NEW x, NEW w, <<x, w>> \in Token
  PROVE  UnicodeToChars(x) = w
<1>1. x \in Seq(Byte) /\ w \in Seq(Byte) /\ Span(Char, w, x, 0, Len(x))
  BY DEF Token
<1> DEFINE n == Len(x)
           m == Len(w)
           f == From(x)
<1>2. PICK c : Cuts(c, Char, w, x, 0, n)
  BY <1>1 DEF Span
<1>3. n \in Nat /\ m \in Nat
  BY <1>1
<1>4. /\ c \in [0..m -> 0..n] /\ c[0] = 0 /\ c[m] = n
      /\ \A k \in 1..m : c[k - 1] <= c[k] /\ <<w[k], Part(x, c[k - 1], c[k])>> \in Char
  BY <1>2 DEF Cuts
<1>5. UnicodeToChars(x) = f[1] /\ f[n + 1] = <<>> /\ \A i \in 1..n : f[i] = Rest(x, i, f)
  BY <1>1, FromSteps
<1>6. n = Len(x) /\ m = Len(w)
  OBVIOUS
<1> HIDE DEF f, n, m
<1> DEFINE T == {j \in Nat : j <= m => f[c[m - j] + 1] = Part(w, m - j, m)}
<1>7. 0 \in T
  <2>1. m - 0 = m
    BY <1>3
  <2>2. Part(w, m, m) = <<>>
    <3>1. IsPart(Part(w, m, m), Byte, w, m, m)
      BY <1>1, <1>3, <1>6, PartOf
    <3>2. Part(w, m, m) \in Seq(Byte) /\ Len(Part(w, m, m)) = 0
      BY <1>3, <3>1 DEF IsPart
    <3> QED BY <3>2
  <2> QED BY <1>4, <1>5, <2>1, <2>2
<1>8. ASSUME NEW j \in Nat, j \in T PROVE j + 1 \in T
  <2> SUFFICES ASSUME j + 1 <= m PROVE f[c[m - (j + 1)] + 1] = Part(w, m - (j + 1), m)
    OBVIOUS
  <2>1. PICK k : k = m - j
    OBVIOUS
  <2>2. /\ k \in 1..m /\ k - 1 \in 0..m /\ k \in 0..m /\ m - (j + 1) = k - 1 /\ j <= m
        /\ k \in Nat /\ k - 1 \in Nat /\ k <= m /\ k - 1 <= k
    BY <1>3, <2>1
  <2>3. f[c[k] + 1] = Part(w, k, m)
    BY <1>8, <2>1, <2>2
  <2>4. PICK a, b : a = c[k - 1] /\ b = c[k]
    OBVIOUS
  <2>5. a \in 0..n /\ b \in 0..n /\ a <= b
    BY <1>4, <2>2, <2>4
  <2> DEFINE y == Part(x, a, b)
  <2>6. <<w[k], y>> \in Char
    BY <1>4, <2>2, <2>4
  <2>7. y \in Seq(Byte) /\ Len(y) = LeadLength(y[1]) /\ PieceChars(y) = <<w[k]>>
    BY <2>6 DEF Char
  <2>8. LeadLength(y[1]) \in 1..4
    BY LeadLengthType
  <2>9. IsPart(y, Byte, x, a, b)
    BY <1>1, <1>3, <1>6, <2>5, PartOf
  <2>10. Len(y) = b - a /\ b - a >= 1 /\ y[1] = x[a + 1]
    BY <2>5, <2>7, <2>8, <2>9 DEF IsPart
  <2>11. (a + 1) + LeadLength(x[a + 1]) = b + 1 /\ b + 1 <= Len(x) + 1 /\ (b + 1) - 1 = b /\ a + 1 \in 1..n
    <3>1. LeadLength(x[a + 1]) = b - a
      BY <2>7, <2>10
    <3>2. (a + 1) + (b - a) = b + 1 /\ b + 1 <= n + 1 /\ (b + 1) - 1 = b /\ a + 1 \in 1..n
      BY <1>3, <2>5, <2>10
    <3> QED BY <1>6, <3>1, <3>2
  <2>12. Rest(x, a + 1, f) = PieceChars(SubSeq(x, a + 1, b)) \o f[b + 1]
    BY <2>11 DEF Rest
  <2>13. SubSeq(x, a + 1, b) = y
    BY DEF Part
  <2>14. f[a + 1] = <<w[k]>> \o Part(w, k, m)
    BY <1>5, <2>3, <2>4, <2>7, <2>11, <2>12, <2>13
  <2>15. <<w[k]>> = Part(w, k - 1, k)
    BY <1>1, <1>6, <2>2, PartOne
  <2>16. Part(w, k - 1, k) \o Part(w, k, m) = Part(w, k - 1, m)
    <3>1. m <= Len(w)
      BY <1>3, <1>6
    <3> QED BY <1>1, <1>3, <2>2, <3>1, PartsMeet
  <2> QED BY <2>2, <2>4, <2>14, <2>15, <2>16
<1>9. m \in T
  <2> HIDE DEF T
  <2> QED BY <1>3, <1>7, <1>8, NatSetInduction
<1>10. f[1] = Part(w, 0, m)
  <2>1. m - m = 0 /\ m <= m /\ 0 + 1 = 1
    BY <1>3
  <2> QED BY <1>4, <1>9, <2>1
<1>11. Part(w, 0, m) = w
  BY <1>1, <1>6, WholePart
<1> QED BY <1>5, <1>10, <1>11

\* Strings that are the parts of a text, one after the other, flatten to it.
LEMMA FlattenParts ==
  ASSUME NEW t \in Seq(Byte), NEW s \in Seq(Seq(Byte)), NEW c,
         c \in [0..Len(s) -> 0..Len(t)], c[0] = 0, c[Len(s)] = Len(t),
         \A j \in 1..Len(s) : c[j - 1] <= c[j] /\ s[j] = Part(t, c[j - 1], c[j])
  PROVE  FlattenSeq(s) = t
<1> DEFINE n == Len(s)
           E(g, i) == IF i = 1 THEN s[i] ELSE g[i - 1] \o s[i]
           G(g) == [i \in 1..n |-> E(g, i)]
           f == CHOOSE f : f = G(f)
           h == [i \in 1..n |-> Part(t, 0, c[i])]
<1>1. n \in Nat /\ Len(t) \in Nat
  OBVIOUS
<1>2. CASE n = 0
  <2>1. FlattenSeq(s) = s
    BY <1>2 DEF FlattenSeq
  <2>2. s = <<>> /\ Len(t) = 0
    BY <1>2
  <2>3. t = <<>>
    BY <2>2
  <2> QED BY <2>1, <2>2, <2>3
<1>3. CASE n # 0
  <2>1. FlattenSeq(s) = f[n]
    BY <1>3 DEF FlattenSeq
  <2>2. ASSUME NEW i \in 2..n PROVE Part(t, 0, c[i - 1]) \o s[i] = Part(t, 0, c[i])
    <3>1. PICK a, b : a = c[i - 1] /\ b = c[i]
      OBVIOUS
    <3>2. i \in 1..n /\ i - 1 \in 0..n /\ i \in 0..n
      BY <1>1
    <3>3. a \in 0..Len(t) /\ b \in 0..Len(t) /\ a <= b /\ s[i] = Part(t, a, b)
      BY <3>1, <3>2
    <3>4. a \in Nat /\ b \in Nat /\ 0 \in Nat /\ 0 <= a /\ b <= Len(t)
      BY <1>1, <3>3
    <3>5. Part(t, 0, a) \o Part(t, a, b) = Part(t, 0, b)
      BY <3>3, <3>4, PartsMeet
    <3> QED BY <3>1, <3>3, <3>5
  <2>3. s[1] = Part(t, 0, c[1])
    <3>1. 1 \in 1..n /\ 1 - 1 = 0
      BY <1>1, <1>3
    <3> QED BY <3>1
  <2> HIDE DEF n
  <2>4. h = G(h)
    <3>1. ASSUME NEW i \in 1..n PROVE h[i] = E(h, i)
      <4>1. CASE i = 1
        BY <2>3, <4>1
      <4>2. CASE i # 1
        <5>1. i \in 2..n /\ i - 1 \in 1..n
          BY <1>1, <4>2
        <5>2. h[i - 1] = Part(t, 0, c[i - 1]) /\ h[i] = Part(t, 0, c[i])
          BY <5>1
        <5> HIDE DEF h
        <5> QED BY <2>2, <4>2, <5>1, <5>2
      <4> QED BY <4>1, <4>2
    <3> HIDE DEF E
    <3>2. h = [i \in 1..n |-> h[i]]
      OBVIOUS
    <3> HIDE DEF h
    <3> QED BY <3>1, <3>2
  <2>5. f = G(f)
    <3> HIDE DEF G, h
    <3> QED BY <2>4
  <2> HIDE DEF f
  <2>6. \A i \in 1..n : f[i] = E(f, i)
    BY <2>5
  <2> DEFINE T == {j \in Nat : j + 1 <= n => f[j + 1] = Part(t, 0, c[j + 1])}
  <2>7. 0 \in T
    <3>1. 0 + 1 = 1 /\ 1 \in 1..n
      BY <1>1, <1>3
    <3>2. f[1] = s[1]
      BY <2>6, <3>1
    <3> QED BY <2>3, <3>1, <3>2
  <2>8. ASSUME NEW j \in Nat, j \in T PROVE j + 1 \in T
    <3> SUFFICES ASSUME (j + 1) + 1 <= n PROVE f[(j + 1) + 1] = Part(t, 0, c[(j + 1) + 1])
      OBVIOUS
    <3>1. PICK i : i = (j + 1) + 1
      OBVIOUS
    <3>2. i \in 2..n /\ i \in 1..n /\ i - 1 = j + 1 /\ j + 1 <= n /\ i # 1
      BY <1>1, <3>1
    <3>3. f[i] = f[i - 1] \o s[i]
      BY <2>6, <3>2
    <3>4. f[i - 1] = Part(t, 0, c[i - 1])
      BY <2>8, <3>2
    <3> QED BY <2>2, <3>1, <3>2, <3>3, <3>4
  <2>9. f[n] = Part(t, 0, c[n])
    <3>1. n - 1 \in Nat /\ (n - 1) + 1 = n
      BY <1>1, <1>3
    <3>2. n - 1 \in T
      <4> HIDE DEF T
      <4> QED BY <2>7, <2>8, <3>1, NatSetInduction
    <3> QED BY <3>1, <3>2
  <2>10. Part(t, 0, Len(t)) = t
    BY WholePart
  <2> QED BY <2>1, <2>9, <2>10 DEF n
<1> QED BY <1>2, <1>3

-----------------------------------------------------------------------------
\* The scan.

\* pretext is the text before start, no special token stands at any of its
\* offsets, and the one that was found stands at start.
Scanned ==
  /\ text \in Seq(Byte) /\ IsVocab(vocab)
  /\ start \in 0..Len(text)
  /\ spl \in {-1} \cup vocab.special
  /\ pretext \in Seq(Byte) /\ Len(pretext) <= start
  /\ pretext = Part(text, start - Len(pretext), start)
  /\ \A p \in (start - Len(pretext))..(start - 1) : Match(vocab, text, p) < 0
  /\ pc = "scan" /\ pretext # <<>> => spl < 0
  /\ pc \in {"pretokenize", "bpe", "merge"} =>
       IF spl >= 0 THEN pretext = <<>> /\ start < Len(text) /\ spl = Match(vocab, text, start)
       ELSE start = Len(text)
  /\ pc \in {"lookup", "done"} => start = Len(text)

\* A part of no element.
LEMMA PartNone ==
  ASSUME NEW S, NEW t \in Seq(S), NEW p \in 0..Len(t)
  PROVE  Part(t, p, p) = <<>>
<1>1. p \in Nat /\ p <= p /\ p <= Len(t) /\ p - p = 0
  OBVIOUS
<1>2. IsPart(Part(t, p, p), S, t, p, p)
  BY <1>1, PartOf
<1>3. Part(t, p, p) \in Seq(S) /\ Len(Part(t, p, p)) = 0
  BY <1>1, <1>2 DEF IsPart
<1> QED BY <1>3

\* tokenize() begins with an empty pretext.
LEMMA ScannedInit == Init => Scanned
<1> SUFFICES ASSUME Init PROVE Scanned
  OBVIOUS
<1>1. text \in Seq(Byte) /\ IsVocab(vocab)
  BY TokenizerAssumption DEF Init, IsVocab
<1>2. start = 0 /\ pretext = <<>> /\ spl = -1 /\ pc = "scan"
  BY DEF Init
<1>3. Len(<<>>) = 0 /\ <<>> \in Seq(Byte) /\ 0 \in 0..Len(text) /\ 0 - 0 = 0 /\ 0 <= 0
  BY <1>1
<1>4. Part(text, 0, 0) = <<>>
  BY <1>1, <1>3, PartNone
<1>5. \A p \in 0..(0 - 1) : FALSE
  OBVIOUS
<1> QED BY <1>1, <1>2, <1>3, <1>4, <1>5 DEF Scanned

\* Every step of tokenize() keeps it.
LEMMA ScannedStep == Scanned /\ [Next]_vars => Scanned'
<1> SUFFICES ASSUME Scanned, [Next]_vars PROVE Scanned'
  OBVIOUS
<1>0. Len(text) \in Nat /\ Len(pretext) \in Nat /\ start \in Nat /\ start <= Len(text)
  BY DEF Scanned
<1>11. spl \in Int /\ \A m \in {-1} \cup vocab.special : m \in Int
  BY DEF Scanned, IsVocab, Ids
<1>1. CASE Scan
  <2>1. /\ pc = "scan" /\ start < Len(text) /\ spl' = Match(vocab, text, start)
        /\ text' = text /\ vocab' = vocab
    BY <1>1 DEF Scan, input
  <2>2. Longest(vocab, text, start, 1, spl')
    BY <1>0, <2>1, MatchLongest DEF Scanned
  <2>3. spl' \in {-1} \cup vocab.special
    BY <2>2 DEF Longest
  <2>4. CASE spl' >= 0
    <3>1. pretext' = <<>> /\ start' = start /\ pc' = "pretokenize"
      BY <1>1, <1>11, <2>3, <2>4 DEF Scan
    <3>2. Len(<<>>) = 0 /\ <<>> \in Seq(Byte) /\ start - 0 = start /\ start \in 0..Len(text)
      BY <1>0
    <3>3. Part(text, start, start) = <<>>
      BY <3>2, PartNone DEF Scanned
    <3>4. \A p \in start..(start - 1) : FALSE
      BY <1>0
    <3> QED BY <1>0, <2>1, <2>3, <2>4, <3>1, <3>2, <3>3, <3>4 DEF Scanned
  <2>5. CASE spl' < 0
    <3> DEFINE s0 == start - Len(pretext)
               c == text[start + 1]
    <3>1. pretext' = Append(pretext, c) /\ start' = start + 1 /\ pc' = "scan"
      <4>1. spl' \in Int
        BY <1>11, <2>3
      <4>2. ~(spl' >= 0)
        BY <2>5, <4>1
      <4> QED BY <1>1, <2>1, <4>2 DEF Scan
    <3>2. s0 \in Nat /\ s0 <= start /\ start + 1 \in 0..Len(text)
      BY <1>0, <2>1 DEF Scanned
    <3>3. c \in Byte
      BY <1>0, <2>1 DEF Scanned
    <3>4. pretext' \in Seq(Byte) /\ Len(pretext') = Len(pretext) + 1 /\ pretext' # <<>>
      BY <3>1, <3>3 DEF Scanned
    <3>5. start' - Len(pretext') = s0 /\ Len(pretext') <= start'
      BY <1>0, <3>1, <3>4 DEF Scanned
    <3>6. Part(text, s0, start + 1) = Append(Part(text, s0, start), c)
      <4> HIDE DEF s0
      <4> QED BY <1>0, <2>1, <3>2, PartGrows DEF Scanned
    <3>7. pretext' = Part(text', start' - Len(pretext'), start')
      BY <2>1, <3>1, <3>5, <3>6 DEF Scanned
    <3>8. ASSUME NEW p \in (start' - Len(pretext'))..(start' - 1) PROVE Match(vocab', text', p) < 0
      <4>1. p \in s0..start
        BY <1>0, <3>1, <3>5
      <4>2. CASE p = start
        BY <2>1, <2>5, <4>2
      <4>3. CASE p # start
        <5>1. p \in s0..(start - 1)
          BY <1>0, <3>2, <4>1, <4>3
        <5> QED BY <2>1, <5>1 DEF Scanned
      <4> QED BY <4>2, <4>3
    <3> HIDE DEF s0, c
    <3>9. pc' \notin {"pretokenize", "bpe", "merge", "lookup", "done"}
      BY <3>1
    <3>10. start' \in 0..Len(text') /\ text' \in Seq(Byte) /\ IsVocab(vocab)'
      BY <2>1, <3>1, <3>2 DEF Scanned, IsVocab, Ids, TokenOf
    <3> QED BY <2>1, <2>3, <2>5, <3>4, <3>5, <3>7, <3>8, <3>9, <3>10 DEF Scanned
  <2> QED BY <2>3, <2>4, <2>5, <1>1 DEF Scan
<1>2. CASE ScanEnd
  <2>1. /\ pc = "scan" /\ start = Len(text) /\ spl' = spl /\ pretext' = pretext /\ start' = start
        /\ text' = text /\ vocab' = vocab
    BY <1>0, <1>2 DEF ScanEnd, input
  <2>2. CASE pretext # <<>>
    <3>1. pc' = "pretokenize" /\ spl < 0
      BY <1>2, <2>1, <2>2 DEF ScanEnd, Scanned
    <3>2. ~(spl >= 0)
      BY <1>11, <3>1
    <3> QED BY <2>1, <3>1, <3>2 DEF Scanned
  <2>3. CASE pretext = <<>>
    <3>1. pc' = "lookup"
      BY <1>2, <2>3 DEF ScanEnd
    <3> QED BY <2>1, <3>1 DEF Scanned
  <2> QED BY <2>2, <2>3
<1>3. CASE Pretokenize
  BY <1>3 DEF Pretokenize, Scanned, input
<1>4. CASE PretokenizeEnd
  BY <1>4 DEF PretokenizeEnd, Scanned, input
<1>5. CASE Split
  BY <1>5 DEF Split, Scanned, input
<1>6. CASE Merge
  BY <1>6 DEF Merge, Scanned, input
<1>7. CASE MergeEnd
  BY <1>7 DEF MergeEnd, Scanned, input
<1>8. CASE BpeEnd
  <2>1. pc = "bpe" /\ text' = text /\ vocab' = vocab /\ pretext' = pretext /\ spl' = spl
    BY <1>8 DEF BpeEnd, input
  <2>2. CASE spl >= 0
    <3> DEFINE x == TokenOf(vocab, spl)
    <3>1. pc' = "scan" /\ start' = start + Len(x)
      BY <1>8, <1>11, <2>2 DEF BpeEnd
    <3>2. pretext = <<>> /\ start < Len(text) /\ spl = Match(vocab, text, start)
      BY <2>1, <2>2 DEF Scanned
    <3>3. Longest(vocab, text, start, 1, spl)
      BY <1>0, <3>2, MatchLongest DEF Scanned
    <3>4. At(x, text, start) /\ Len(x) \in Nat
      <4>1. spl \in Ids(vocab)
        BY <2>2 DEF Scanned, IsVocab
      <4> QED BY <2>2, <3>3, <4>1, TokenType DEF Longest, Scanned
    <3> HIDE DEF x
    <3>9. PICK q : q = start'
      OBVIOUS
    <3>5. q \in 0..Len(text)
      BY <1>0, <3>1, <3>4, <3>9 DEF At
    <3>6. Len(<<>>) = 0 /\ q - 0 = q /\ 0 <= q
      BY <3>5
    <3>7. Part(text, q, q) = <<>>
      BY <3>5, PartNone DEF Scanned
    <3>8. \A p \in q..(q - 1) : FALSE
      BY <3>5
    <3> QED BY <2>1, <3>1, <3>2, <3>5, <3>6, <3>7, <3>8, <3>9 DEF Scanned
  <2>3. CASE ~(spl >= 0)
    BY <1>8, <2>1, <2>3 DEF BpeEnd, Scanned
  <2> QED BY <2>2, <2>3
<1>9. CASE Lookup
  BY <1>9 DEF Lookup, Scanned, input
<1>10. CASE UNCHANGED vars
  BY <1>10 DEF vars, Scanned, input
<1> QED BY <1>1, <1>2, <1>3, <1>4, <1>5, <1>6, <1>7, <1>8, <1>9, <1>10 DEF Next

\* What the scan has passed over holds no special token.
LEMMA ScannedWins == Scanned => SpecialsWin
<1> SUFFICES ASSUME Scanned PROVE SpecialsWin
  OBVIOUS
<1>0. /\ Len(text) \in Nat /\ Len(pretext) \in Nat /\ start \in Nat /\ start <= Len(text)
      /\ text \in Seq(Byte) /\ pretext \in Seq(Byte) /\ IsVocab(vocab)
  BY DEF Scanned
<1>1. ASSUME NEW i \in vocab.special, NEW from \in 0..Len(pretext), TokenOf(vocab, i) # <<>>,
             IsPrefix(TokenOf(vocab, i), SubSeq(pretext, from + 1, Len(pretext)))
      PROVE  FALSE
  <2> DEFINE x == TokenOf(vocab, i)
             s0 == start - Len(pretext)
             n == Len(x)
  <2>1. x \in Seq(Byte) /\ n \in Nat
    BY <1>0, TokenType DEF IsVocab
  <2>2. n >= 1
    BY <1>1, <2>1
  <2>3. At(x, pretext, from)
    <3> HIDE DEF x
    <3>1. IsPrefix(x, Part(pretext, from, Len(pretext)))
      BY <1>1 DEF Part, x
    <3> QED BY <1>0, <2>1, <3>1, AtIsPrefix
  <2> HIDE DEF x, n
  <2>4. from + n <= Len(pretext) /\ x = Part(pretext, from, from + n)
    BY <2>3 DEF At, n
  <2>5. /\ s0 \in Nat /\ from \in Nat /\ from + n \in Nat /\ from <= from + n
        /\ s0 + (from + n) <= start /\ s0 + from \in s0..(start - 1)
        /\ s0 + (from + n) = (s0 + from) + n /\ s0 + from \in Nat /\ s0 + from < Len(text)
    BY <1>0, <2>1, <2>2, <2>4 DEF Scanned
  <2>6. pretext = Part(text, s0, start)
    BY DEF Scanned
  <2>7. Part(Part(text, s0, start), from, from + n) = Part(text, s0 + from, s0 + (from + n))
    <3> HIDE DEF s0
    <3> QED BY <1>0, <2>5, PartOfPart
  <2>8. At(x, text, s0 + from)
    <3>1. x = Part(text, s0 + from, (s0 + from) + n)
      BY <2>4, <2>5, <2>6, <2>7
    <3>2. (s0 + from) + n <= Len(text)
      BY <1>0, <2>5
    <3> HIDE DEF s0
    <3> QED BY <3>1, <3>2 DEF At, n
  <2>9. Match(vocab, text, s0 + from) < 0
    BY <2>5 DEF Scanned
  <2> HIDE DEF s0
  <2>10. Longest(vocab, text, s0 + from, 1, Match(vocab, text, s0 + from))
    BY <1>0, <2>5, MatchLongest
  <2>11. Match(vocab, text, s0 + from) >= 0 /\ Match(vocab, text, s0 + from) \in {-1} \cup vocab.special
    BY <1>1, <2>2, <2>8, <2>10 DEF Longest, x, n
  <2>12. \A m : m \in {-1} \cup vocab.special => m \in Int
    BY <1>0 DEF IsVocab, Ids
  <2> QED BY <2>9, <2>11, <2>12
<1>2. ASSUME spl >= 0, pc = "pretokenize", NEW i \in vocab.special,
             IsPrefix(TokenOf(vocab, i), SubSeq(text, start + 1, Len(text)))
      PROVE  Len(TokenOf(vocab, i)) <= Len(TokenOf(vocab, spl))
  <2> DEFINE x == TokenOf(vocab, i)
  <2>1. x \in Seq(Byte) /\ Len(x) \in Nat
    BY <1>0, TokenType DEF IsVocab
  <2>2. At(x, text, start)
    <3> HIDE DEF x
    <3>1. IsPrefix(x, Part(text, start, Len(text)))
      BY <1>2 DEF Part, x
    <3>2. start \in 0..Len(text)
      BY <1>0
    <3> QED BY <1>0, <2>1, <3>1, <3>2, AtIsPrefix
  <2>3. start < Len(text) /\ spl = Match(vocab, text, start)
    BY <1>2 DEF Scanned
  <2>4. Longest(vocab, text, start, 1, spl)
    BY <1>0, <2>3, MatchLongest
  <2>5. Len(TokenOf(vocab, spl)) \in Nat /\ Len(TokenOf(vocab, spl)) >= 1
    <3>1. spl \in Ids(vocab)
      BY <1>0, <1>2 DEF Scanned, IsVocab
    <3> QED BY <1>0, <1>2, <2>4, <3>1, TokenType DEF Longest
  <2>6. CASE Len(x) >= 1
    BY <2>2, <2>4, <2>6 DEF Longest
  <2>7. CASE Len(x) < 1
    BY <2>1, <2>5, <2>7
  <2> QED BY <2>1, <2>6, <2>7
<1> QED BY <1>1, <1>2 DEF SpecialsWin

\* For every text and vocabulary: the text between special tokens contains none
\* of them, and the one that tokenize() pushes is the longest at its place.
THEOREM SpecialsCorrect == Spec => []SpecialsWin
<1>1. Init => Scanned
  BY ScannedInit
<1>2. Scanned /\ [Next]_vars => Scanned'
  BY ScannedStep
<1>3. Scanned => SpecialsWin
  BY ScannedWins
<1> QED BY <1>1, <1>2, <1>3, PTL DEF Spec

-----------------------------------------------------------------------------
\* What covers the text: final_tokens up to p, then what bpe_ works on.

Same == {z \in Seq(Byte) \X Seq(Byte) : z[1] = z[2]}

Tiled(p, q) ==
  /\ Span(Token, finalTokens, text, 0, p)
  /\ pc = "scan" => p = start - Len(pretext) /\ chunks = <<>>
  /\ pc = "pretokenize" => Span(Same, chunks, text, p, q) /\ q <= start /\ rest = Part(text, q, start)
  /\ pc = "bpe" => Span(Same, chunks, text, p, start)
  /\ pc = "merge" => /\ chunks # <<>> /\ Span(Token, piece, text, p, q)
                     /\ Span(Same, Tail(chunks), text, q, start)
  /\ pc \in {"lookup", "done"} => p = Len(text)

Strings == Seq(Seq(Byte))
Covered ==
  /\ finalTokens \in Strings /\ chunks \in Strings /\ piece \in Strings /\ rest \in Seq(Byte)
  /\ \E p, q \in 0..Len(text) : Tiled(p, q)
  /\ pc = "done" => ids = [j \in 1..Len(finalTokens) |-> IdOf(vocab, finalTokens[j])]

\* The first string of a span, and the others.
LEMMA SpanHead ==
  ASSUME NEW R, NEW W, NEW s \in Seq(W), s # <<>>, NEW t, NEW p \in Nat, NEW r \in Nat,
         Span(R, s, t, p, r)
  PROVE  \E q \in p..r : <<Head(s), Part(t, p, q)>> \in R /\ Span(R, Tail(s), t, q, r)
<1>1. Len(s) \in Nat /\ Len(s) >= 1 /\ 1 \in 0..Len(s) /\ 1 \in 1..Len(s) /\ 1 - 1 = 0
  OBVIOUS
<1>2. PICK q \in p..r : Span(R, Part(s, 0, 1), t, p, q) /\ Span(R, Part(s, 1, Len(s)), t, q, r)
  BY <1>1, SpanSplit
<1>3. Part(s, 0, 1) = <<Head(s)>>
  <2>1. Part(s, 1 - 1, 1) = <<s[1]>>
    BY <1>1, PartOne
  <2> QED BY <1>1, <2>1
<1>4. Part(s, 1, Len(s)) = Tail(s)
  <2>1. Part(s, 1, Len(s)) = SubSeq(s, 2, Len(s))
    BY DEF Part
  <2>2. Tail(s) = SubSeq(s, 2, Len(s))
    BY TailIsSubSeq
  <2> QED BY <2>1, <2>2
<1>5. q \in Nat
  OBVIOUS
<1>6. <<Head(s), Part(t, p, q)>> \in R
  <2>1. Span(R, <<Head(s)>>, t, p, q)
    BY <1>2, <1>3
  <2> QED BY <1>5, <2>1, SpanOne
<1> QED BY <1>2, <1>4, <1>6

\* One string more at the end.
LEMMA SpanAppend ==
  ASSUME NEW R, NEW W, NEW s \in Seq(W), NEW x \in W, NEW t, NEW p \in Nat, NEW q \in Nat, NEW r \in Nat,
         Span(R, s, t, p, q), q <= r, <<x, Part(t, q, r)>> \in R
  PROVE  Span(R, Append(s, x), t, p, r)
<1>1. Span(R, <<x>>, t, q, r)
  BY SpanOne
<1>2. <<x>> \in Seq(W)
  OBVIOUS
<1>3. Span(R, s \o <<x>>, t, p, r)
  BY <1>1, <1>2, SpanConcat
<1>4. Append(s, x) = s \o <<x>>
  BY AppendIsConcat
<1> QED BY <1>3, <1>4

\* split_and_merge_ begins with the characters of the bytes of the chunk.
LEMMA CharsSpan ==
  ASSUME NEW t \in Seq(Byte), NEW p \in Nat, NEW q \in Nat, p <= q, q <= Len(t)
  PROVE  /\ Chars(Part(t, p, q)) \in Strings
         /\ Span(Token, Chars(Part(t, p, q)), t, p, q)
<1> DEFINE w == Part(t, p, q)
           n == q - p
           y == Chars(w)
           c == [j \in 0..n |-> p + j]
<1>1. IsPart(w, Byte, t, p, q)
  BY PartOf
<1>2. n \in Nat /\ p + n = q
  OBVIOUS
<1> HIDE DEF w
<1>3. w \in Seq(Byte) /\ Len(w) = n /\ \A j \in 1..n : w[j] = t[p + j] /\ w[j] \in Byte
  BY <1>1 DEF IsPart
<1> HIDE DEF n
<1>4. y = [j \in 1..n |-> ByteToUnicode[w[j]]]
  BY <1>3 DEF Chars
<1>5. \A j \in 1..n : ByteToUnicode[w[j]] \in Seq(Byte)
  BY <1>3, ByteDecodes
<1> HIDE DEF y
<1>6. y \in Strings /\ Len(y) = n
  BY <1>2, <1>4, <1>5 DEF Strings
<1>7. ASSUME NEW j \in 1..n PROVE <<y[j], Part(t, p + (j - 1), p + j)>> \in Token
  <2>1. y[j] = ByteToUnicode[w[j]]
    BY <1>4
  <2>2. <<ByteToUnicode[w[j]], <<w[j]>> >> \in Token
    BY <1>3, TokenOfByte
  <2>3. p + j \in 1..Len(t) /\ p + (j - 1) = (p + j) - 1
    BY <1>2
  <2>4. Part(t, (p + j) - 1, p + j) = <<t[p + j]>>
    BY <2>3, PartOne
  <2> QED BY <1>3, <2>1, <2>2, <2>3, <2>4
<1>8. \A j \in 1..n : c[j] = p + j /\ c[j - 1] = p + (j - 1)
  BY <1>2
<1>9. c \in [0..n -> p..q] /\ c[0] = p /\ c[n] = q
  BY <1>2
<1> HIDE DEF c
<1>10. \A j \in 1..n : c[j - 1] <= c[j] /\ <<y[j], Part(t, c[j - 1], c[j])>> \in Token
  BY <1>2, <1>7, <1>8
<1>11. Cuts(c, Token, y, t, p, q)
  BY <1>6, <1>9, <1>10 DEF Cuts
<1> QED BY <1>6, <1>11 DEF Span, y, w

\* The pair that is merged is one of those that have a rank.
LEMMA MergeIndexType ==
  ASSUME NEW v, IsVocab(v), NEW w \in Strings, Pairs(v, w) # {}
  PROVE  MergeIndex(v, w) \in Pairs(v, w)
<1> DEFINE P == Pairs(v, w)
           K == {RankAt(v, w, j) : j \in P}
           least == Min(K)
           J == {j \in P : RankAt(v, w, j) = least}
<1>1. P \subseteq 1..(Len(w) - 1) /\ \A j \in P : HasRank(v, w[j], w[j + 1])
  BY DEF Pairs
<1>2. P \subseteq Nat
  BY <1>1 DEF Strings
<1>3. ASSUME NEW j \in P PROVE RankAt(v, w, j) \in Nat
  <2> DEFINE r == Ranks(v, w[j], w[j + 1])
  <2>1. r # {}
    BY <1>1 DEF HasRank
  <2>2. Len(v.merges) \in Nat
    BY DEF IsVocab
  <2>3. r \subseteq 1..Len(v.merges)
    BY DEF Ranks
  <2>4. r \subseteq Nat /\ \A x \in r : x <= Len(v.merges)
    BY <2>2, <2>3
  <2> HIDE DEF r
  <2>5. Max(r) \in r
    BY <2>1, <2>2, <2>4, MaxOf
  <2>6. Max(r) \in Nat
    BY <2>4, <2>5
  <2> QED BY <2>6 DEF RankAt, Rank, r
<1>4. K \subseteq Nat /\ K # {}
  BY <1>3
<1>5. least \in K
  <2> HIDE DEF K
  <2>1. \E x \in K : \A y \in K : x <= y
    BY <1>4, LeastOf
  <2> QED BY <2>1 DEF Min
<1>6. J \subseteq Nat /\ J # {} /\ J \subseteq P
  BY <1>2, <1>5
<1>7. Min(J) \in J
  <2> HIDE DEF J
  <2>1. \E x \in J : \A y \in J : x <= y
    BY <1>6, LeastOf
  <2> QED BY <2>1 DEF Min
<1>8. MergeIndex(v, w) = Min(J)
  BY DEF MergeIndex, MinElement
<1> QED BY <1>6, <1>7, <1>8

\* The string with the j-th and the next element joined.
Joined(w, j) == SubSeq(w, 1, j - 1) \o <<w[j] \o w[j + 1]>> \o SubSeq(w, j + 2, Len(w))

\* The first element of a part, and the others.
LEMMA PartHead ==
  ASSUME NEW S, NEW s \in Seq(S), NEW k \in Nat, k < Len(s)
  PROVE  /\ Part(s, k, Len(s)) \in Seq(S) /\ Part(s, k, Len(s)) # <<>>
         /\ Head(Part(s, k, Len(s))) = s[k + 1]
         /\ Tail(Part(s, k, Len(s))) = Part(s, k + 1, Len(s))
<1>1. k + 1 \in 1..Len(s) /\ Len(s) \in Nat /\ Len(s) \in (k + 1)..Len(s) /\ k <= Len(s)
  OBVIOUS
<1>2. IsPart(Part(s, k, Len(s)), S, s, k, Len(s))
  BY <1>1, PartOf
<1>3. Part(s, k, Len(s)) \in Seq(S) /\ Len(Part(s, k, Len(s))) = Len(s) - k
  BY <1>2 DEF IsPart
<1>4. Part(s, k, Len(s)) # <<>>
  BY <1>1, <1>3
<1>5. Head(SubSeq(s, k + 1, Len(s))) = s[k + 1] /\ Tail(SubSeq(s, k + 1, Len(s))) = SubSeq(s, (k + 1) + 1, Len(s))
  BY <1>1, HeadTailOfSubSeq
<1> QED BY <1>3, <1>4, <1>5 DEF Part

\* A merge covers what its two tokens covered.
LEMMA MergedSpan ==
  ASSUME NEW s \in Strings, NEW j \in 1..(Len(s) - 1), NEW t \in Seq(Byte), NEW p \in Nat, NEW q \in Nat,
         q <= Len(t), Span(Token, s, t, p, q)
  PROVE  Joined(s, j) \in Strings /\ Span(Token, Joined(s, j), t, p, q)
<1> DEFINE n == Len(s)
           W == Seq(Byte)
           x == Part(s, 0, j - 1)
           y == s[j] \o s[j + 1]
           z == Part(s, j + 1, n)
<1>1. n \in Nat /\ s \in Seq(W) /\ j - 1 \in 0..n /\ j - 1 \in Nat /\ j \in Nat /\ j < n /\ j - 1 < n /\ j + 1 \in Nat /\ j + 1 <= n
      /\ (j - 1) + 1 = j /\ (j + 1) + 1 = j + 2 /\ j \in 1..n /\ j + 1 \in 1..n /\ j - 1 <= n /\ 0 + 1 = 1
  BY DEF Strings
<1>2. PICK a \in p..q : Span(Token, x, t, p, a) /\ Span(Token, Part(s, j - 1, n), t, a, q)
  BY <1>1, SpanSplit
<1>3. PICK b \in a..q : <<s[j], Part(t, a, b)>> \in Token /\ Span(Token, Part(s, j, n), t, b, q)
  <2> DEFINE u == Part(s, j - 1, n)
  <2>1. u \in Seq(W) /\ u # <<>> /\ Head(u) = s[j] /\ Tail(u) = Part(s, j, n)
    BY <1>1, PartHead
  <2> HIDE DEF u
  <2>2. Span(Token, u, t, a, q) /\ a \in Nat
    BY <1>2 DEF u
  <2> QED BY <2>1, <2>2, SpanHead
<1>4. PICK c \in b..q : <<s[j + 1], Part(t, b, c)>> \in Token /\ Span(Token, z, t, c, q)
  <2> DEFINE u == Part(s, j, n)
  <2>1. u \in Seq(W) /\ u # <<>> /\ Head(u) = s[j + 1] /\ Tail(u) = z
    BY <1>1, PartHead
  <2> HIDE DEF u, z
  <2>2. Span(Token, u, t, b, q) /\ b \in Nat
    BY <1>3 DEF u
  <2> QED BY <2>1, <2>2, SpanHead
<1>5. a \in Nat /\ b \in Nat /\ c \in Nat /\ a <= b /\ b <= c /\ c <= Len(t) /\ a <= c
  OBVIOUS
<1>6. <<y, Part(t, a, c)>> \in Token
  <2>1. <<y, Part(t, a, b) \o Part(t, b, c)>> \in Token
    BY <1>3, <1>4, TokenConcat
  <2>2. Part(t, a, b) \o Part(t, b, c) = Part(t, a, c)
    BY <1>5, PartsMeet
  <2> QED BY <2>1, <2>2
<1>7. x \in Seq(W) /\ z \in Seq(W)
  <2>1. IsPart(x, W, s, 0, j - 1) /\ IsPart(z, W, s, j + 1, n)
    BY <1>1, PartOf
  <2> QED BY <2>1 DEF IsPart
<1>8. y \in W
  <2>1. s[j] \in Seq(Byte) /\ s[j + 1] \in Seq(Byte)
    BY <1>1
  <2> QED BY <2>1
<1>9. Joined(s, j) = Append(x, y) \o z
  <2>1. Joined(s, j) = x \o <<y>> \o z
    BY <1>1 DEF Joined, Part
  <2>2. Append(x, y) = x \o <<y>>
    <3> HIDE DEF x, y, W
    <3> QED BY <1>7, <1>8, AppendIsConcat
  <2> QED BY <2>1, <2>2
<1> HIDE DEF x, y, z, W
<1>10. Span(Token, Append(x, y), t, p, c)
  BY <1>2, <1>5, <1>6, <1>7, <1>8, SpanAppend
<1>11. Append(x, y) \in Seq(W)
  BY <1>7, <1>8
<1>12. Span(Token, Append(x, y) \o z, t, p, q)
  BY <1>4, <1>5, <1>7, <1>10, <1>11, SpanConcat
<1>13. Append(x, y) \o z \in Seq(W)
  BY <1>7, <1>11
<1> QED BY <1>9, <1>12, <1>13 DEF Strings, W

\* tokenize() begins with nothing covered.
LEMMA CoveredInit == Init => Covered
<1> SUFFICES ASSUME Init PROVE Covered
  OBVIOUS
<1>1. text \in Seq(Byte)
  BY TokenizerAssumption DEF Init
<1>2. /\ start = 0 /\ pretext = <<>> /\ pc = "scan" /\ rest = <<>> /\ chunks = <<>> /\ piece = <<>>
      /\ finalTokens = <<>>
  BY DEF Init
<1>3. 0 \in 0..Len(text) /\ 0 - 0 = 0 /\ 0 \in Nat /\ Len(<<>>) = 0
  BY <1>1
<1>4. Span(Token, <<>>, text, 0, 0)
  BY <1>3, SpanEmpty
<1>5. Tiled(0, 0)
  BY <1>2, <1>3, <1>4 DEF Tiled
<1>6. <<>> \in Strings /\ <<>> \in Seq(Byte)
  BY DEF Strings
<1> QED BY <1>2, <1>3, <1>5, <1>6 DEF Covered

\* Equal strings.
LEMMA SamePair ==
  ASSUME NEW x \in Seq(Byte)
  PROVE  <<x, x>> \in Same
BY DEF Same

\* A chunk of the regex is cut off the text that is left.
LEMMA CoveredPretokenize == Scanned /\ Covered /\ Pretokenize => Covered'
<1> SUFFICES ASSUME Scanned, Covered, Pretokenize PROVE Covered'
  OBVIOUS
<1>1. PICK p \in 0..Len(text), q \in 0..Len(text) : Tiled(p, q)
  BY DEF Covered
<1>2. /\ pc = "pretokenize" /\ text' = text /\ start' = start /\ pretext' = pretext
      /\ piece' = piece /\ finalTokens' = finalTokens
  BY DEF Pretokenize, input
<1>3. /\ Span(Token, finalTokens, text, 0, p) /\ Span(Same, chunks, text, p, q) /\ q <= start
      /\ rest = Part(text, q, start)
  BY <1>1, <1>2 DEF Tiled
<1>4. /\ text \in Seq(Byte) /\ Len(text) \in Nat /\ start \in 0..Len(text) /\ start \in Nat
      /\ start <= Len(text) /\ p \in Nat /\ q \in Nat /\ chunks \in Seq(Seq(Byte)) /\ rest \in Seq(Byte)
      /\ finalTokens \in Strings /\ piece \in Strings
  BY DEF Scanned, Covered, Strings
<1>5. ASSUME NEW r \in q..start, NEW x \in Seq(Byte), x = Part(text, q, r),
             chunks' = Append(chunks, x), rest' = Part(text, r, start), pc' = pc
      PROVE  Covered'
  <2>1. r \in Nat /\ q <= r /\ r <= start /\ r \in 0..Len(text)
    BY <1>4
  <2>2. <<x, Part(text, q, r)>> \in Same
    BY <1>5, SamePair
  <2>3. Span(Same, Append(chunks, x), text, p, r)
    BY <1>3, <1>4, <2>1, <2>2, SpanAppend
  <2>4. Tiled(p, r)'
    BY <1>2, <1>3, <1>5, <2>1, <2>3 DEF Tiled
  <2>5. rest' \in Seq(Byte)
    <3>1. IsPart(Part(text, r, start), Byte, text, r, start)
      BY <1>4, <2>1, PartOf
    <3> QED BY <1>5, <3>1 DEF IsPart
  <2>6. chunks' \in Strings
    BY <1>4, <1>5 DEF Strings
  <2>7. pc' # "done"
    BY <1>2, <1>5
  <2> QED BY <1>2, <1>4, <2>1, <2>4, <2>5, <2>6, <2>7 DEF Covered
<1>6. ASSUME NEW n \in 1..Len(rest), chunks' = Append(chunks, SubSeq(rest, 1, n)),
             rest' = SubSeq(rest, n + 1, Len(rest)), pc' = pc
      PROVE  Covered'
  <2>1. Len(rest) = start - q
    <3>1. IsPart(rest, Byte, text, q, start)
      BY <1>3, <1>4, PartOf
    <3> QED BY <3>1 DEF IsPart
  <2>2. /\ n \in Nat /\ n <= Len(rest) /\ Len(rest) \in Nat /\ 0 \in Nat /\ 0 <= n /\ 0 + 1 = 1
        /\ q + 0 = q /\ q + n \in q..start /\ q + n <= start /\ q + Len(rest) = start /\ q + Len(rest) <= start
    BY <1>4, <2>1
  <2>3. Part(Part(text, q, start), 0, n) = Part(text, q + 0, q + n)
    BY <1>4, <2>2, PartOfPart
  <2>4. Part(Part(text, q, start), n, Len(rest)) = Part(text, q + n, q + Len(rest))
    BY <1>4, <2>2, PartOfPart
  <2>5. SubSeq(rest, 1, n) = Part(text, q, q + n)
    BY <1>3, <2>2, <2>3 DEF Part
  <2>6. SubSeq(rest, n + 1, Len(rest)) = Part(text, q + n, start)
    <3>1. SubSeq(rest, n + 1, Len(rest)) = Part(rest, n, Len(rest))
      BY DEF Part
    <3> QED BY <1>3, <2>2, <2>4, <3>1
  <2>7. Part(text, q, q + n) \in Seq(Byte)
    <3>1. IsPart(Part(text, q, q + n), Byte, text, q, q + n)
      <4>1. q + n \in Nat /\ q <= q + n /\ q + n <= Len(text)
        BY <1>4, <2>2
      <4> QED BY <1>4, <4>1, PartOf
    <3> QED BY <3>1 DEF IsPart
  <2>8. PICK r \in q..start : r = q + n
    BY <2>2
  <2>9. PICK x \in Seq(Byte) : x = Part(text, q, r)
    BY <2>7, <2>8
  <2> QED BY <1>5, <1>6, <2>5, <2>6, <2>8, <2>9
<1>7. ASSUME chunks' = Append(chunks, <<>>), rest' = rest, pc' = pc PROVE Covered'
  <2>1. q \in q..start
    BY <1>3, <1>4
  <2>2. Part(text, q, q) = <<>> /\ <<>> \in Seq(Byte)
    BY <1>4, PartNone
  <2>3. PICK x \in Seq(Byte) : x = <<>>
    BY <2>2
  <2> QED BY <1>3, <1>5, <1>7, <2>1, <2>2, <2>3
<1>8. ASSUME pc' = "threw", rest' = rest, chunks' = chunks PROVE Covered'
  <2>1. Tiled(p, q)'
    BY <1>2, <1>3, <1>8 DEF Tiled
  <2> QED BY <1>2, <1>4, <1>8, <2>1 DEF Covered, Strings
<1> QED BY <1>6, <1>7, <1>8 DEF Pretokenize

\* Splitting a chunk into the characters of its bytes.
LEMMA CoveredSplit == Scanned /\ Covered /\ Split => Covered'
<1> SUFFICES ASSUME Scanned, Covered, Split PROVE Covered'
  OBVIOUS
<1>1. PICK p \in 0..Len(text), q \in 0..Len(text) : Tiled(p, q)
  BY DEF Covered
<1>2. /\ pc = "bpe" /\ text' = text /\ start' = start /\ pretext' = pretext /\ chunks # <<>>
      /\ piece' = Chars(Head(chunks)) /\ pc' = "merge"
      /\ finalTokens' = finalTokens /\ chunks' = chunks /\ rest' = rest
  BY DEF Split, input
<1>3. Span(Token, finalTokens, text, 0, p) /\ Span(Same, chunks, text, p, start)
  BY <1>1, <1>2 DEF Tiled
<1>4. /\ text \in Seq(Byte) /\ Len(text) \in Nat /\ start \in 0..Len(text) /\ start \in Nat
      /\ start <= Len(text) /\ p \in Nat /\ chunks \in Seq(Seq(Byte)) /\ rest \in Seq(Byte)
      /\ finalTokens \in Strings /\ chunks \in Strings
  BY DEF Scanned, Covered, Strings
<1>5. PICK r \in p..start : <<Head(chunks), Part(text, p, r)>> \in Same /\ Span(Same, Tail(chunks), text, r, start)
  BY <1>2, <1>3, <1>4, SpanHead
<1>6. r \in Nat /\ p <= r /\ r <= Len(text) /\ r \in 0..Len(text) /\ Head(chunks) = Part(text, p, r)
  BY <1>4, <1>5 DEF Same
<1>7. piece' \in Strings /\ Span(Token, piece', text, p, r)
  BY <1>2, <1>4, <1>6, CharsSpan
<1>8. Tiled(p, r)'
  BY <1>2, <1>3, <1>5, <1>7 DEF Tiled
<1> QED BY <1>2, <1>4, <1>6, <1>7, <1>8 DEF Covered

\* A merge.
LEMMA CoveredMerge == Scanned /\ Covered /\ Merge => Covered'
<1> SUFFICES ASSUME Scanned, Covered, Merge PROVE Covered'
  OBVIOUS
<1>1. PICK p \in 0..Len(text), q \in 0..Len(text) : Tiled(p, q)
  BY DEF Covered
<1> DEFINE j == MergeIndex(vocab, piece)
<1>2. /\ pc = "merge" /\ text' = text /\ start' = start /\ pretext' = pretext /\ pc' = pc
      /\ finalTokens' = finalTokens /\ chunks' = chunks /\ rest' = rest /\ Pairs(vocab, piece) # {}
  BY DEF Merge, input
<1>3. piece' = Joined(piece, j)
  BY DEF Merge, Joined
<1>4. /\ Span(Token, finalTokens, text, 0, p) /\ chunks # <<>> /\ Span(Token, piece, text, p, q)
      /\ Span(Same, Tail(chunks), text, q, start)
  BY <1>1, <1>2 DEF Tiled
<1>5. /\ text \in Seq(Byte) /\ Len(text) \in Nat /\ p \in Nat /\ q \in Nat /\ q <= Len(text)
      /\ piece \in Strings /\ finalTokens \in Strings /\ chunks \in Strings /\ rest \in Seq(Byte)
  BY DEF Scanned, Covered
<1>6. j \in 1..(Len(piece) - 1)
  <2>1. j \in Pairs(vocab, piece)
    BY <1>2, <1>5, MergeIndexType DEF Scanned
  <2> QED BY <2>1 DEF Pairs
<1> HIDE DEF j
<1>7. piece' \in Strings /\ Span(Token, piece', text, p, q)
  BY <1>3, <1>4, <1>5, <1>6, MergedSpan
<1>8. Tiled(p, q)'
  BY <1>2, <1>4, <1>7 DEF Tiled
<1> QED BY <1>2, <1>5, <1>7, <1>8 DEF Covered

\* The tokens of a chunk go behind those of the ones before it.
LEMMA CoveredMergeEnd == Scanned /\ Covered /\ MergeEnd => Covered'
<1> SUFFICES ASSUME Scanned, Covered, MergeEnd PROVE Covered'
  OBVIOUS
<1>1. PICK p \in 0..Len(text), q \in 0..Len(text) : Tiled(p, q)
  BY DEF Covered
<1>2. /\ pc = "merge" /\ text' = text /\ start' = start /\ pretext' = pretext /\ pc' = "bpe"
      /\ finalTokens' = finalTokens \o piece /\ chunks' = Tail(chunks) /\ rest' = rest /\ piece' = piece
  BY DEF MergeEnd, input
<1>3. /\ Span(Token, finalTokens, text, 0, p) /\ chunks # <<>> /\ Span(Token, piece, text, p, q)
      /\ Span(Same, Tail(chunks), text, q, start)
  BY <1>1, <1>2 DEF Tiled
<1>4. /\ text \in Seq(Byte) /\ Len(text) \in Nat /\ p \in Nat /\ q \in Nat /\ 0 \in Nat
      /\ piece \in Seq(Seq(Byte)) /\ finalTokens \in Seq(Seq(Byte)) /\ chunks \in Seq(Seq(Byte)) /\ rest \in Seq(Byte)
  BY DEF Scanned, Covered, Strings
<1>5. Span(Token, finalTokens \o piece, text, 0, q)
  BY <1>3, <1>4, SpanConcat
<1>6. Tiled(q, q)'
  BY <1>2, <1>3, <1>5 DEF Tiled
<1>7. finalTokens' \in Strings /\ chunks' \in Strings /\ piece' \in Strings
  BY <1>2, <1>3, <1>4 DEF Strings
<1> QED BY <1>2, <1>4, <1>6, <1>7 DEF Covered

\* The special token goes behind the text before it, or the scan is over.
LEMMA CoveredBpeEnd == Scanned /\ Covered /\ BpeEnd => Covered'
<1> SUFFICES ASSUME Scanned, Covered, BpeEnd PROVE Covered'
  OBVIOUS
<1>1. PICK p \in 0..Len(text), q \in 0..Len(text) : Tiled(p, q)
  BY DEF Covered
<1>2. /\ pc = "bpe" /\ chunks = <<>> /\ text' = text /\ pretext' = pretext /\ chunks' = chunks
      /\ rest' = rest /\ piece' = piece
  BY DEF BpeEnd, input
<1>3. Span(Token, finalTokens, text, 0, p) /\ Span(Same, chunks, text, p, start)
  BY <1>1, <1>2 DEF Tiled
<1>4. /\ text \in Seq(Byte) /\ Len(text) \in Nat /\ start \in 0..Len(text) /\ start \in Nat /\ p \in Nat /\ 0 \in Nat
      /\ piece \in Strings /\ finalTokens \in Seq(Seq(Byte)) /\ chunks \in Seq(Seq(Byte)) /\ rest \in Seq(Byte)
      /\ spl \in Int
  BY DEF Scanned, Covered, Strings, IsVocab, Ids
<1>5. p = start
  BY <1>2, <1>3, <1>4, SpanEnds
<1>6. CASE spl >= 0
  <2> DEFINE x == TokenOf(vocab, spl)
  <2>13. PICK r : r = start + Len(x)
    OBVIOUS
  <2>1. finalTokens' = Append(finalTokens, x) /\ start' = r /\ pc' = "scan"
    BY <1>4, <1>6, <2>13 DEF BpeEnd
  <2>2. pretext = <<>> /\ start < Len(text) /\ spl = Match(vocab, text, start) /\ spl \in vocab.special
    BY <1>2, <1>6 DEF Scanned
  <2>3. Longest(vocab, text, start, 1, spl)
    BY <1>4, <2>2, MatchLongest DEF Scanned
  <2>4. x \in Seq(Byte) /\ Len(x) \in Nat
    BY <2>2, TokenType DEF Scanned, IsVocab
  <2>5. At(x, text, start)
    BY <1>6, <2>3 DEF Longest
  <2>6. <<x, x>> \in Token
    <3>1. \A j \in DOMAIN x : x[j] \in 0..127
      BY <2>2 DEF Scanned, IsVocab
    <3> HIDE DEF x
    <3>2. DOMAIN x = 1..Len(x)
      BY <2>4
    <3>3. \A j \in 1..Len(x) : x[j] \in 0..127
      BY <3>1, <3>2
    <3> QED BY <2>4, <3>3, TokenOfAscii
  <2> HIDE DEF x
  <2>7. r \in Nat /\ start <= r /\ r \in 0..Len(text) /\ r - 0 = r /\ x = Part(text, start, r)
    BY <1>4, <2>4, <2>5, <2>13 DEF At
  <2>8. Span(Token, finalTokens, text, 0, start) /\ <<x, Part(text, start, r)>> \in Token
    BY <1>3, <1>5, <2>6, <2>7
  <2>9. Span(Token, Append(finalTokens, x), text, 0, r)
    BY <1>4, <2>4, <2>7, <2>8, SpanAppend
  <2>10. Len(<<>>) = 0
    OBVIOUS
  <2>11. Tiled(r, r)'
    BY <1>2, <2>1, <2>2, <2>7, <2>9, <2>10 DEF Tiled
  <2>12. finalTokens' \in Strings /\ chunks' \in Strings
    BY <1>2, <1>4, <2>1, <2>4 DEF Strings
  <2> QED BY <1>2, <1>4, <2>1, <2>7, <2>11, <2>12 DEF Covered
<1>7. CASE ~(spl >= 0)
  <2>1. finalTokens' = finalTokens /\ start' = start /\ pc' = "lookup"
    BY <1>7 DEF BpeEnd
  <2>2. p = Len(text)
    BY <1>2, <1>5, <1>7 DEF Scanned
  <2>3. Tiled(p, q)'
    BY <1>2, <1>3, <2>1, <2>2 DEF Tiled
  <2> QED BY <1>2, <1>4, <2>1, <2>3 DEF Covered, Strings
<1> QED BY <1>6, <1>7

\* Every step of tokenize() keeps the text covered.
LEMMA CoveredStep == Scanned /\ Covered /\ [Next]_vars => Covered'
<1> SUFFICES ASSUME Scanned, Covered, [Next]_vars PROVE Covered'
  OBVIOUS
<1>0. PICK p \in 0..Len(text), q \in 0..Len(text) : Tiled(p, q)
  BY DEF Covered
<1>10. /\ text \in Seq(Byte) /\ Len(text) \in Nat /\ start \in 0..Len(text) /\ start \in Nat /\ p \in Nat
       /\ Len(pretext) \in Nat /\ pretext \in Seq(Byte) /\ Len(pretext) <= start
       /\ pretext = Part(text, start - Len(pretext), start)
  BY DEF Scanned
<1>1. CASE Scan
  <2>1. /\ pc = "scan" /\ start < Len(text) /\ text' = text /\ chunks' = chunks /\ piece' = piece
        /\ finalTokens' = finalTokens
    BY <1>1 DEF Scan, input
  <2>2. p = start - Len(pretext) /\ chunks = <<>> /\ Span(Token, finalTokens, text, 0, p)
    BY <1>0, <2>1 DEF Tiled
  <2>3. CASE pretext' = <<>> /\ start' = start /\ pc' = "pretokenize" /\ rest' = pretext
    <3>1. Span(Same, <<>>, text, p, p)
      BY <1>10, SpanEmpty
    <3>2. p <= start
      BY <1>10, <2>2
    <3>3. Tiled(p, p)'
      BY <1>10, <2>1, <2>2, <2>3, <3>1, <3>2 DEF Tiled
    <3> QED BY <1>10, <2>1, <2>3, <3>3 DEF Covered
  <2>4. CASE pretext' = Append(pretext, text[start + 1]) /\ start' = start + 1 /\ pc' = "scan" /\ rest' = rest
    <3>1. Len(pretext') = Len(pretext) + 1
      <4>1. text[start + 1] \in Byte
        BY <1>10, <2>1
      <4> QED BY <1>10, <2>4, <4>1
    <3>2. start' - Len(pretext') = p
      BY <1>10, <2>2, <2>4, <3>1
    <3>3. Tiled(p, q)'
      BY <2>1, <2>2, <2>4, <3>2 DEF Tiled
    <3> QED BY <2>1, <2>4, <3>3 DEF Covered
  <2> QED BY <1>1, <2>1, <2>3, <2>4 DEF Scan
<1>2. CASE ScanEnd
  <2>1. /\ pc = "scan" /\ start = Len(text) /\ text' = text /\ chunks' = chunks /\ piece' = piece
        /\ finalTokens' = finalTokens /\ rest' = pretext /\ start' = start /\ pretext' = pretext
        /\ pc' = IF pretext # <<>> THEN "pretokenize" ELSE "lookup"
    BY <1>2, <1>10 DEF ScanEnd, input
  <2>2. p = start - Len(pretext) /\ chunks = <<>> /\ Span(Token, finalTokens, text, 0, p)
    BY <1>0, <2>1 DEF Tiled
  <2>3. Span(Same, <<>>, text, p, p) /\ p <= start
    BY <1>10, <2>2, SpanEmpty
  <2>4. pretext = <<>> => p = Len(text)
    BY <1>10, <2>1, <2>2
  <2>5. Tiled(p, p)'
    BY <1>10, <2>1, <2>2, <2>3, <2>4 DEF Tiled
  <2> QED BY <1>10, <2>1, <2>5 DEF Covered
<1>3. CASE Pretokenize
  BY <1>3, CoveredPretokenize
<1>4. CASE PretokenizeEnd
  <2>1. /\ pc = "pretokenize" /\ rest = <<>> /\ pc' = "bpe" /\ text' = text /\ chunks' = chunks
        /\ piece' = piece /\ finalTokens' = finalTokens /\ rest' = rest /\ start' = start /\ pretext' = pretext
    BY <1>4 DEF PretokenizeEnd, input
  <2>2. /\ Span(Token, finalTokens, text, 0, p) /\ Span(Same, chunks, text, p, q) /\ q <= start
        /\ rest = Part(text, q, start)
    BY <1>0, <2>1 DEF Tiled
  <2>3. q = start
    <3>1. IsPart(rest, Byte, text, q, start)
      BY <1>10, <2>2, PartOf
    <3>2. Len(rest) = start - q
      BY <3>1 DEF IsPart
    <3>3. Len(rest) = 0
      BY <2>1
    <3> QED BY <1>10, <2>2, <3>2, <3>3
  <2>4. Tiled(p, q)'
    BY <2>1, <2>2, <2>3 DEF Tiled
  <2> QED BY <2>1, <2>4 DEF Covered
<1>5. CASE Split
  BY <1>5, CoveredSplit
<1>6. CASE Merge
  BY <1>6, CoveredMerge
<1>7. CASE MergeEnd
  BY <1>7, CoveredMergeEnd
<1>8. CASE BpeEnd
  BY <1>8, CoveredBpeEnd
<1>9. CASE Lookup
  <2>1. /\ pc = "lookup" /\ pc' = "done" /\ text' = text /\ chunks' = chunks /\ vocab' = vocab
        /\ piece' = piece /\ finalTokens' = finalTokens /\ rest' = rest /\ start' = start /\ pretext' = pretext
        /\ ids' = [j \in 1..Len(finalTokens) |-> IdOf(vocab, finalTokens[j])]
    BY <1>9 DEF Lookup, input
  <2>2. Tiled(p, q)'
    BY <1>0, <2>1 DEF Tiled
  <2> QED BY <2>1, <2>2 DEF Covered
<1>11. CASE UNCHANGED vars
  <2>1. /\ pc' = pc /\ text' = text /\ chunks' = chunks /\ vocab' = vocab /\ ids' = ids
        /\ piece' = piece /\ finalTokens' = finalTokens /\ rest' = rest /\ start' = start /\ pretext' = pretext
    BY <1>11 DEF vars, input
  <2>2. Tiled(p, q)'
    BY <1>0, <2>1 DEF Tiled
  <2> QED BY <2>1, <2>2 DEF Covered
<1> QED BY <1>1, <1>2, <1>3, <1>4, <1>5, <1>6, <1>7, <1>8, <1>9, <1>11 DEF Next

\* What covers the text is decoded to it.
LEMMA CoveredRoundTrip == Scanned /\ Covered => RoundTrip
<1> SUFFICES ASSUME Scanned, Covered, pc = "done",
                    \A j \in 1..Len(finalTokens) : \E i \in Ids(vocab) : TokenOf(vocab, i) = finalTokens[j]
             PROVE  FlattenSeq([j \in 1..Len(ids) |-> Decode(vocab, ids[j])]) = text
  BY DEF RoundTrip
<1> DEFINE n == Len(finalTokens)
           s == [j \in 1..Len(ids) |-> Decode(vocab, ids[j])]
<1>1. PICK p \in 0..Len(text), q \in 0..Len(text) : Tiled(p, q)
  BY DEF Covered
<1>2. Span(Token, finalTokens, text, 0, Len(text))
  BY <1>1 DEF Tiled
<1>3. /\ text \in Seq(Byte) /\ IsVocab(vocab) /\ n \in Nat
      /\ ids = [j \in 1..n |-> IdOf(vocab, finalTokens[j])]
  BY DEF Scanned, Covered, Strings
<1>4. PICK c : Cuts(c, Token, finalTokens, text, 0, Len(text))
  BY <1>2 DEF Span
<1>5. /\ c \in [0..n -> 0..Len(text)] /\ c[0] = 0 /\ c[n] = Len(text)
      /\ \A j \in 1..n : c[j - 1] <= c[j] /\ <<finalTokens[j], Part(text, c[j - 1], c[j])>> \in Token
  BY <1>4 DEF Cuts
<1>6. ASSUME NEW j \in 1..n PROVE Decode(vocab, IdOf(vocab, finalTokens[j])) = UnicodeToChars(finalTokens[j])
  <2> DEFINE named == {i \in Ids(vocab) : TokenOf(vocab, i) = finalTokens[j]}
  <2>1. named # {} /\ named \subseteq Ids(vocab)
    OBVIOUS
  <2>2. named \subseteq Nat /\ Len(vocab.tokens) \in Nat /\ \A i \in named : i <= Len(vocab.tokens)
    BY <1>3, <2>1 DEF IsVocab, Ids
  <2>3. IdOf(vocab, finalTokens[j]) = Max(named)
    BY <2>1 DEF IdOf
  <2>4. Max(named) \in named
    <3> HIDE DEF named
    <3> QED BY <2>1, <2>2, MaxOf
  <2>5. Max(named) \in Ids(vocab) /\ TokenOf(vocab, Max(named)) = finalTokens[j]
    BY <2>4
  <2> HIDE DEF named
  <2> QED BY <2>3, <2>5 DEF Decode
<1>7. Len(ids) = n /\ \A j \in 1..n : ids[j] = IdOf(vocab, finalTokens[j])
  BY <1>3
<1>8. ASSUME NEW j \in 1..n PROVE Decode(vocab, ids[j]) = Part(text, c[j - 1], c[j])
  <2>1. UnicodeToChars(finalTokens[j]) = Part(text, c[j - 1], c[j])
    BY <1>5, TokenDecoded
  <2> QED BY <1>6, <1>7, <2>1
<1> HIDE DEF n
<1>9. s = [j \in 1..n |-> Part(text, c[j - 1], c[j])]
  BY <1>7, <1>8
<1>10. \A j \in 1..n : Part(text, c[j - 1], c[j]) \in Seq(Byte)
  BY <1>5 DEF Token
<1> HIDE DEF s
<1>11. s \in Seq(Seq(Byte)) /\ Len(s) = n /\ \A j \in 1..n : s[j] = Part(text, c[j - 1], c[j])
  BY <1>3, <1>9, <1>10
<1>12. FlattenSeq(s) = text
  BY <1>3, <1>5, <1>11, FlattenParts
<1> QED BY <1>12 DEF s

\* For every text, every vocabulary and every way the regex may split: when
\* tokenize() has returned and every token is in the vocabulary, decode() of
\* the ids gives the text back, byte for byte.
THEOREM RoundTripCorrect == Spec => []RoundTrip
<1> DEFINE Inv == Scanned /\ Covered
<1>1. Init => Inv
  BY ScannedInit, CoveredInit
<1>2. Inv /\ [Next]_vars => Inv'
  BY ScannedStep, CoveredStep
<1>3. Inv => RoundTrip
  BY CoveredRoundTrip
<1> QED BY <1>1, <1>2, <1>3, PTL DEF Spec

-----------------------------------------------------------------------------
\* A round of GPT-2: all occurrences of a pair, from the left.

Occurs(w, a, b, j) == j < Len(w) /\ w[j] = a /\ w[j + 1] = b
Next1(w, a, b, j, c) == IF Occurs(w, a, b, j) THEN <<a \o b>> \o c[j + 2] ELSE <<w[j]>> \o c[j + 1]
Walk(w, a, b) ==
  CHOOSE c : c = [j \in 1..(Len(w) + 1) |-> IF j > Len(w) THEN <<>> ELSE Next1(w, a, b, j, c)]

\* c is that walk: what it makes of the elements from j on.
IsWalk(c, w, a, b) ==
  /\ c \in [1..(Len(w) + 1) -> Strings]
  /\ c[Len(w) + 1] = <<>>
  /\ \A j \in 1..Len(w) : c[j] = Next1(w, a, b, j, c)

\* MergeAll walks along the string.
LEMMA WalkSteps ==
  ASSUME NEW w \in Strings, NEW a \in Seq(Byte), NEW b \in Seq(Byte)
  PROVE  IsWalk(Walk(w, a, b), w, a, b) /\ MergeAll(w, a, b) = Walk(w, a, b)[1]
<1> DEFINE n == Len(w)
           V == Strings
           D == [1..(n + 1) -> V]
           N(j, c) == Next1(w, a, b, j, c)
           G(c) == [j \in 1..(n + 1) |-> IF j > n THEN <<>> ELSE N(j, c)]
           f == CHOOSE f : f = G(f)
<1>1. n \in Nat /\ w \in Seq(Seq(Byte))
  BY DEF Strings
<1>2. MergeAll(w, a, b) = f[1]
  BY DEF MergeAll, Next1, Occurs
<1>3. Walk(w, a, b) = f
  BY DEF Walk
<1>4. <<a \o b>> \in V /\ (\A j \in 1..n : <<w[j]>> \in V) /\ <<>> \in V
  <2>1. a \o b \in Seq(Byte)
    OBVIOUS
  <2>2. \A j \in 1..n : w[j] \in Seq(Byte)
    BY <1>1
  <2> QED BY <2>1, <2>2 DEF Strings
<1>5. \A x, y \in V : x \o y \in V
  BY DEF Strings
<1>6. \A j \in 1..n : /\ j + 1 \in (j + 1)..(n + 1) /\ j + 1 \in 1..(n + 1)
                      /\ Occurs(w, a, b, j) => j + 2 \in (j + 1)..(n + 1) /\ j + 2 \in 1..(n + 1)
  BY <1>1 DEF Occurs
<1> HIDE DEF n, V
<1>7. PICK c : c \in D /\ c[n + 1] = <<>> /\ \A j \in 1..n : c[j] = N(j, c)
  <2> DEFINE F == [j \in 1..n |-> [g \in D |-> N(j, g)]]
             e == <<>>
  <2>1. ASSUME NEW j \in 1..n, NEW g \in D PROVE N(j, g) \in V
    <3>1. CASE Occurs(w, a, b, j)
      <4>1. g[j + 2] \in V
        BY <1>6, <3>1
      <4> QED BY <1>4, <1>5, <3>1, <4>1 DEF Next1
    <3>2. CASE ~Occurs(w, a, b, j)
      <4>1. g[j + 1] \in V
        BY <1>6
      <4> QED BY <1>4, <1>5, <3>2, <4>1 DEF Next1
    <3> QED BY <3>1, <3>2
  <2>2. ASSUME NEW j \in 1..n, NEW g \in D, NEW h \in D, \A k \in (j + 1)..(n + 1) : g[k] = h[k]
        PROVE  N(j, g) = N(j, h)
    BY <1>6, <2>2 DEF Next1
  <2> HIDE DEF N
  <2>3. F \in [1..n -> [D -> V]]
    BY <2>1
  <2>4. \A j \in 1..n : \A g \in D : F[j][g] = N(j, g)
    OBVIOUS
  <2>5. ASSUME NEW j \in 1..n, NEW g \in D, NEW h \in D, \A k \in (j + 1)..(n + 1) : g[k] = h[k]
        PROVE  F[j][g] = F[j][h]
    BY <2>2, <2>4, <2>5
  <2> HIDE DEF F, e
  <2>6. e \in V
    BY <1>4 DEF e
  <2>7. IsBackwardRule(V, e, n, F)
    BY <1>1, <2>3, <2>5, <2>6 DEF IsBackwardRule
  <2>8. PICK c : ObeysBackward(c, V, e, n, F)
    BY <2>7, BackwardFunction
  <2>9. c \in D /\ c[n + 1] = e /\ \A j \in 1..n : c[j] = F[j][c]
    BY <2>8 DEF ObeysBackward
  <2> QED BY <2>4, <2>9 DEF e
<1> HIDE DEF N
<1>8. c = G(c)
  <2>1. \A j \in 1..(n + 1) : c[j] = IF j > n THEN <<>> ELSE N(j, c)
    BY <1>1, <1>7
  <2> QED BY <1>7, <2>1
<1>9. f = G(f)
  <2> HIDE DEF G
  <2> QED BY <1>8
<1> HIDE DEF f
<1>10. f[n + 1] = <<>> /\ \A j \in 1..n : f[j] = N(j, f)
  <2>1. PICK g : g = f
    OBVIOUS
  <2>2. g = [j \in 1..(n + 1) |-> IF j > n THEN <<>> ELSE N(j, g)]
    BY <1>9, <2>1
  <2>3. g[n + 1] = <<>>
    <3>1. n + 1 \in 1..(n + 1) /\ n + 1 > n
      BY <1>1
    <3> QED BY <2>2, <3>1
  <2>4. \A j \in 1..n : g[j] = N(j, g)
    <3> SUFFICES ASSUME NEW j \in 1..n PROVE g[j] = N(j, g)
      OBVIOUS
    <3>1. j \in 1..(n + 1) /\ ~(j > n)
      BY <1>1
    <3> QED BY <2>2, <3>1
  <2> QED BY <2>1, <2>3, <2>4
<1> DEFINE T == {k \in Nat : k <= n => \A j \in 1..(n + 1) : j >= n + 1 - k => f[j] \in V}
<1>11. 0 \in T
  <2>1. \A j \in 1..(n + 1) : j >= n + 1 - 0 => j = n + 1
    BY <1>1
  <2> QED BY <1>4, <1>10, <2>1
<1>12. ASSUME NEW k \in Nat, k \in T PROVE k + 1 \in T
  <2> SUFFICES ASSUME k + 1 <= n, NEW j \in 1..(n + 1), j >= n + 1 - (k + 1) PROVE f[j] \in V
    OBVIOUS
  <2>1. \A l \in 1..(n + 1) : l >= n + 1 - k => f[l] \in V
    BY <1>1, <1>12
  <2>2. CASE j >= n + 1 - k
    BY <2>1, <2>2
  <2>3. CASE j < n + 1 - k
    <3>1. j \in 1..n /\ j + 1 >= n + 1 - k /\ j + 2 >= n + 1 - k
      BY <1>1, <2>3
    <3>2. CASE Occurs(w, a, b, j)
      <4>1. f[j + 2] \in V
        BY <1>6, <2>1, <3>1, <3>2
      <4> QED BY <1>4, <1>5, <1>10, <3>1, <3>2, <4>1 DEF N, Next1
    <3>3. CASE ~Occurs(w, a, b, j)
      <4>1. f[j + 1] \in V
        BY <1>6, <2>1, <3>1
      <4> QED BY <1>4, <1>5, <1>10, <3>1, <3>3, <4>1 DEF N, Next1
    <3> QED BY <3>2, <3>3
  <2> QED BY <1>1, <2>2, <2>3
<1>13. f \in D
  <2>1. n \in T
    <3> HIDE DEF T
    <3> QED BY <1>1, <1>11, <1>12, NatSetInduction
  <2>2. \A j \in 1..(n + 1) : f[j] \in V
    BY <1>1, <2>1
  <2>3. f = [j \in 1..(n + 1) |-> f[j]]
    BY <1>9
  <2> QED BY <2>2, <2>3
<1> QED BY <1>2, <1>3, <1>10, <1>13 DEF IsWalk, n, N, V

\* A set that holds n, and a number whenever it holds the ones above it, holds
\* them all from n down to m.
LEMMA Downwards ==
  ASSUME NEW T, NEW m \in Nat, NEW n \in Nat, n \in T,
         \A i \in m..n : i < n /\ (\A k \in (i + 1)..n : k \in T) => i \in T
  PROVE  m..n \subseteq T
<1> DEFINE U == {i \in m..n : i \notin T}
<1>1. SUFFICES ASSUME U # {} PROVE FALSE
  OBVIOUS
<1>2. U \in SUBSET Nat /\ \A x \in U : x <= n
  OBVIOUS
<1>3. PICK x \in U : \A y \in U : x >= y
  <2> HIDE DEF U
  <2> QED BY <1>1, <1>2, GreatestOf
<1>4. x \in m..n /\ x \notin T /\ x < n
  OBVIOUS
<1>5. ASSUME NEW k \in (x + 1)..n PROVE k \in T
  <2>1. k \in m..n /\ ~(x >= k)
    BY <1>4
  <2> QED BY <1>3, <2>1
<1> QED BY <1>4, <1>5

\* y is x with the j-th and the next element joined.
IsJoined(y, x, j) ==
  /\ y \in Strings /\ Len(y) = Len(x) - 1
  /\ \A i \in 1..(j - 1) : y[i] = x[i]
  /\ y[j] = x[j] \o x[j + 1]
  /\ \A i \in (j + 1)..Len(y) : y[i] = x[i + 1]

\* What a merge makes of the string, element by element.
LEMMA JoinedIs ==
  ASSUME NEW x \in Strings, NEW j \in 1..(Len(x) - 1)
  PROVE  IsJoined(Joined(x, j), x, j)
<1> DEFINE W == Seq(Byte)
           n == Len(x)
           u == Part(x, 0, j - 1)
           m == x[j] \o x[j + 1]
           z == Part(x, j + 1, n)
<1>1. n \in Nat /\ x \in Seq(W) /\ j - 1 \in Nat /\ j \in Nat /\ j < n /\ j - 1 <= n /\ j + 1 \in Nat /\ j + 1 <= n
      /\ (j + 1) + 1 = j + 2 /\ 0 + 1 = 1 /\ 0 <= j - 1 /\ j \in 1..n /\ j + 1 \in 1..n /\ (j - 1) - 0 = j - 1
  BY DEF Strings
<1>2. IsPart(u, W, x, 0, j - 1) /\ IsPart(z, W, x, j + 1, n)
  BY <1>1, PartOf
<1>3. u \in Seq(W) /\ Len(u) = j - 1 /\ (\A i \in 1..(j - 1) : u[i] = x[i])
  BY <1>1, <1>2 DEF IsPart
<1>4. z \in Seq(W) /\ Len(z) = n - (j + 1) /\ (\A i \in 1..(n - (j + 1)) : z[i] = x[j + 1 + i])
  BY <1>1, <1>2 DEF IsPart
<1>5. m \in W
  <2>1. x[j] \in Seq(Byte) /\ x[j + 1] \in Seq(Byte)
    BY <1>1
  <2> QED BY <2>1
<1>6. Joined(x, j) = u \o <<m>> \o z
  BY <1>1 DEF Joined, Part
<1> HIDE DEF u, m, z, n, W
<1> DEFINE h == u \o <<m>>
<1>7. h \in Seq(W) /\ Len(h) = j /\ (\A i \in 1..(j - 1) : h[i] = u[i]) /\ h[j] = m
  BY <1>1, <1>3, <1>5
<1> HIDE DEF h
<1> DEFINE y == h \o z
<1>7a. /\ y \in Seq(W) /\ Len(y) = Len(h) + Len(z)
       /\ \A i \in 1..(Len(h) + Len(z)) : y[i] = IF i <= Len(h) THEN h[i] ELSE z[i - Len(h)]
  BY <1>4, <1>7, ConcatProperties
<1>8. y \in Seq(W) /\ Len(y) = n - 1
  <2>1. j + (n - (j + 1)) = n - 1
    BY <1>1
  <2> QED BY <1>4, <1>7, <1>7a, <2>1
<1>9. \A i \in 1..j : y[i] = h[i]
  BY <1>1, <1>4, <1>7
<1>10. ASSUME NEW i \in (j + 1)..(n - 1) PROVE y[i] = x[i + 1]
  <2>1. i \in 1..(Len(h) + Len(z)) /\ ~(i <= Len(h)) /\ i - j \in 1..(n - (j + 1)) /\ j + 1 + (i - j) = i + 1
    BY <1>1, <1>4, <1>7
  <2>2. y[i] = z[i - j]
    BY <1>7, <1>7a, <2>1
  <2> QED BY <1>4, <2>1, <2>2
<1> HIDE DEF y
<1>11. Joined(x, j) = y
  BY <1>6 DEF y, h
<1>12. \A i \in 1..(j - 1) : y[i] = x[i]
  BY <1>1, <1>3, <1>7, <1>9
<1>13. y[j] = x[j] \o x[j + 1]
  <2>1. y[j] = h[j]
    BY <1>1, <1>9
  <2> QED BY <1>7, <2>1 DEF m
<1> QED BY <1>8, <1>10, <1>11, <1>12, <1>13 DEF IsJoined, Strings, W, n

\* A pair of tokens that is merged: the result is neither of them.
IsPair(a, b) == a \in Seq(Byte) /\ b \in Seq(Byte) /\ a \o b # a /\ a \o b # b
\* The pair stands at j and nowhere before.
First(x, a, b, j) ==
  j \in 1..(Len(x) - 1) /\ x[j] = a /\ x[j + 1] = b /\ \A i \in 1..(j - 1) : ~Occurs(x, a, b, i)

\* Joined at the first occurrence, the string has no occurrence up to there.
LEMMA JoinedFirst ==
  ASSUME NEW x \in Strings, NEW a, NEW b, NEW j, NEW y, IsPair(a, b), First(x, a, b, j), IsJoined(y, x, j)
  PROVE  \A i \in 1..j : ~Occurs(y, a, b, i)
<1>1. Len(x) \in Nat /\ j \in Nat /\ j \in 1..(Len(x) - 1) /\ Len(y) = Len(x) - 1
  BY DEF First, IsJoined, Strings
<1>2. y[j] = a \o b
  BY DEF First, IsJoined
<1>3. y[j] # a /\ y[j] # b
  BY <1>2 DEF IsPair
<1> SUFFICES ASSUME NEW i \in 1..j PROVE ~Occurs(y, a, b, i)
  OBVIOUS
<1>4. CASE i = j
  BY <1>3, <1>4 DEF Occurs
<1>5. CASE i = j - 1
  <2>1. i + 1 = j
    BY <1>1, <1>5
  <2> QED BY <1>3, <2>1 DEF Occurs
<1>6. CASE i < j - 1
  <2>1. i \in 1..(j - 1) /\ i + 1 \in 1..(j - 1) /\ i < Len(x)
    BY <1>1, <1>6
  <2>2. y[i] = x[i] /\ y[i + 1] = x[i + 1]
    BY <2>1 DEF IsJoined
  <2>3. ~Occurs(x, a, b, i)
    BY <2>1 DEF First
  <2> QED BY <2>1, <2>2, <2>3 DEF Occurs
<1> QED BY <1>1, <1>4, <1>5, <1>6

\* The walk along the tail does not see what is before it.
LEMMA WalkTail ==
  ASSUME NEW x \in Strings, NEW a, NEW b, NEW j \in Nat, NEW y, NEW c, NEW d,
         IsJoined(y, x, j), IsWalk(c, x, a, b), IsWalk(d, y, a, b)
  PROVE  \A i \in (j + 1)..(Len(y) + 1) : d[i] = c[i + 1]
<1> DEFINE n == Len(y) + 1
<1>1. n \in Nat /\ Len(y) = n - 1 /\ Len(x) = n /\ Len(y) \in Nat
  BY DEF IsJoined, Strings
<1>2. d[n] = <<>> /\ c[n + 1] = <<>>
  BY <1>1 DEF IsWalk
<1> HIDE DEF n
<1> DEFINE T == {i \in Nat : d[i] = c[i + 1]}
<1>3. n \in T
  BY <1>1, <1>2
<1>4. ASSUME NEW i \in (j + 1)..n, i < n, \A k \in (i + 1)..n : k \in T PROVE i \in T
  <2>1. i \in 1..(n - 1) /\ i + 1 \in 1..n /\ i + 1 \in (i + 1)..n /\ (i + 1) + 1 = i + 2 /\ (i + 2) + 1 = i + 3
        /\ i \in Nat /\ i \in (j + 1)..(n - 1) /\ (i + 1) + 2 = i + 3
    BY <1>1, <1>4
  <2>2. d[i] = Next1(y, a, b, i, d) /\ c[i + 1] = Next1(x, a, b, i + 1, c)
    BY <1>1, <2>1 DEF IsWalk
  <2>3. y[i] = x[i + 1]
    BY <1>1, <2>1 DEF IsJoined
  <2>4. d[i + 1] = c[i + 2]
    BY <1>4, <2>1
  <2>5. CASE i < n - 1
    <3>1. i + 1 \in (j + 1)..(n - 1) /\ i + 2 \in (i + 1)..n /\ i + 1 < n
      BY <1>1, <2>1, <2>5
    <3>2. y[i + 1] = x[i + 2]
      BY <1>1, <2>1, <3>1 DEF IsJoined
    <3>3. d[i + 2] = c[i + 3]
      BY <1>4, <2>1, <3>1
    <3>4. Occurs(y, a, b, i) <=> Occurs(x, a, b, i + 1)
      BY <1>1, <2>1, <2>3, <2>5, <3>1, <3>2 DEF Occurs
    <3>5. CASE Occurs(y, a, b, i)
      <4>1. d[i] = <<a \o b>> \o d[i + 2] /\ c[i + 1] = <<a \o b>> \o c[i + 3]
        BY <2>1, <2>2, <3>4, <3>5 DEF Next1
      <4> QED BY <2>1, <3>3, <4>1
    <3>6. CASE ~Occurs(y, a, b, i)
      <4>1. d[i] = <<y[i]>> \o d[i + 1] /\ c[i + 1] = <<x[i + 1]>> \o c[i + 2]
        BY <2>1, <2>2, <3>4, <3>6 DEF Next1
      <4> QED BY <2>1, <2>3, <2>4, <4>1
    <3> QED BY <3>5, <3>6
  <2>6. CASE i = n - 1
    <3>1. ~Occurs(y, a, b, i) /\ ~Occurs(x, a, b, i + 1)
      BY <1>1, <2>1, <2>6 DEF Occurs
    <3>2. d[i] = <<y[i]>> \o d[i + 1] /\ c[i + 1] = <<x[i + 1]>> \o c[i + 2]
      BY <2>1, <2>2, <3>1 DEF Next1
    <3> QED BY <2>1, <2>3, <2>4, <3>2
  <2> QED BY <1>1, <2>1, <2>5, <2>6
<1> SUFFICES (j + 1)..n \subseteq T
  BY DEF n
<1> HIDE DEF T
<1>5. j + 1 \in Nat
  OBVIOUS
<1> QED BY <1>1, <1>3, <1>4, <1>5, Downwards

\* To join the first occurrence before the round changes nothing.
LEMMA MergeAllJoined ==
  ASSUME NEW x \in Strings, NEW a, NEW b, NEW j, IsPair(a, b), First(x, a, b, j)
  PROVE  MergeAll(Joined(x, j), a, b) = MergeAll(x, a, b)
<1> DEFINE y == Joined(x, j)
           c == Walk(x, a, b)
           d == Walk(y, a, b)
           n == Len(x)
<1>1. n \in Nat /\ j \in Nat /\ j \in 1..(n - 1) /\ j + 1 \in Nat
  BY DEF First, Strings
<1>2. IsJoined(y, x, j)
  BY <1>1, JoinedIs
<1>3. y \in Strings /\ Len(y) = n - 1
  BY <1>2 DEF IsJoined
<1>4. IsWalk(c, x, a, b) /\ MergeAll(x, a, b) = c[1]
  BY WalkSteps DEF IsPair
<1> HIDE DEF y
<1>5. IsWalk(d, y, a, b) /\ MergeAll(y, a, b) = d[1]
  BY <1>3, WalkSteps DEF IsPair
<1> HIDE DEF c, d, n
<1>6. \A i \in 1..j : ~Occurs(y, a, b, i)
  BY <1>2, JoinedFirst
<1>7. \A i \in 1..(n - 1) : d[i] = Next1(y, a, b, i, d)
  BY <1>3, <1>5 DEF IsWalk
<1>8. \A i \in 1..n : c[i] = Next1(x, a, b, i, c)
  BY <1>4 DEF IsWalk, n
<1>9. \A i \in 1..j : d[i] = <<y[i]>> \o d[i + 1]
  <2> SUFFICES ASSUME NEW i \in 1..j PROVE d[i] = <<y[i]>> \o d[i + 1]
    OBVIOUS
  <2>1. i \in 1..(n - 1)
    BY <1>1
  <2>2. d[i] = Next1(y, a, b, i, d) /\ ~Occurs(y, a, b, i)
    BY <1>6, <1>7, <2>1
  <2> QED BY <2>2 DEF Next1
<1>10. c[j] = d[j]
  <2>1. Occurs(x, a, b, j) /\ j \in 1..n
    BY <1>1 DEF First, Occurs, n
  <2>2. c[j] = <<a \o b>> \o c[j + 2]
    BY <1>8, <2>1 DEF Next1
  <2>3. y[j] = a \o b
    BY <1>2 DEF IsJoined, First
  <2>4. d[j + 1] = c[j + 2]
    <3>1. \A i \in (j + 1)..(Len(y) + 1) : d[i] = c[i + 1]
      BY <1>1, <1>2, <1>4, <1>5, WalkTail
    <3>2. j + 1 \in (j + 1)..(Len(y) + 1) /\ (j + 1) + 1 = j + 2
      BY <1>1, <1>3
    <3> QED BY <3>1, <3>2
  <2>5. j \in 1..j
    BY <1>1
  <2> QED BY <1>9, <2>2, <2>3, <2>4, <2>5
<1> DEFINE T == {i \in Nat : c[i] = d[i]}
<1>11. j \in T
  BY <1>1, <1>10
<1>12. ASSUME NEW i \in 1..j, i < j, \A k \in (i + 1)..j : k \in T PROVE i \in T
  <2>1. i \in 1..(j - 1) /\ i \in 1..n /\ i + 1 \in (i + 1)..j /\ i \in Nat
    BY <1>1, <1>12
  <2>2. ~Occurs(x, a, b, i) /\ y[i] = x[i]
    BY <1>2, <2>1 DEF First, IsJoined
  <2>3. c[i] = <<x[i]>> \o c[i + 1]
    BY <1>8, <2>1, <2>2 DEF Next1
  <2>4. c[i + 1] = d[i + 1]
    BY <1>12, <2>1
  <2> QED BY <1>9, <2>1, <2>2, <2>3, <2>4
<1>13. 1 \in T
  <2> HIDE DEF T
  <2>1. 1 \in 1..j /\ 1 \in Nat
    BY <1>1
  <2>2. 1..j \subseteq T
    BY <1>1, <1>11, <1>12, <2>1, Downwards
  <2> QED BY <2>1, <2>2
<1> QED BY <1>4, <1>5, <1>13 DEF y

\* A part is its first element and the others.
LEMMA PartCons ==
  ASSUME NEW S, NEW t \in Seq(S), NEW i \in 1..Len(t)
  PROVE  Part(t, i - 1, Len(t)) = <<t[i]>> \o Part(t, i, Len(t))
<1>1. Len(t) \in Nat /\ i - 1 \in Nat /\ i \in Nat /\ i - 1 <= i /\ i <= Len(t) /\ Len(t) <= Len(t)
  OBVIOUS
<1>2. Part(t, i - 1, i) \o Part(t, i, Len(t)) = Part(t, i - 1, Len(t))
  BY <1>1, PartsMeet
<1>3. Part(t, i - 1, i) = <<t[i]>>
  BY PartOne
<1> QED BY <1>2, <1>3

\* A round over a string without the pair changes nothing.
LEMMA MergeAllNone ==
  ASSUME NEW x \in Strings, NEW a \in Seq(Byte), NEW b \in Seq(Byte), \A i \in 1..Len(x) : ~Occurs(x, a, b, i)
  PROVE  MergeAll(x, a, b) = x
<1> DEFINE c == Walk(x, a, b)
           n == Len(x)
           T == {i \in Nat : c[i] = Part(x, i - 1, n)}
<1>1. n \in Nat /\ n + 1 \in Nat /\ x \in Seq(Seq(Byte)) /\ 1 \in 1..(n + 1) /\ 1 \in Nat
  BY DEF Strings
<1>2. IsWalk(c, x, a, b) /\ MergeAll(x, a, b) = c[1]
  BY WalkSteps
<1> HIDE DEF c
<1>3. c[n + 1] = <<>> /\ \A i \in 1..n : c[i] = Next1(x, a, b, i, c)
  BY <1>2 DEF IsWalk
<1>4. n + 1 \in T
  <2>1. (n + 1) - 1 = n /\ n <= n
    BY <1>1
  <2>2. IsPart(Part(x, n, n), Seq(Byte), x, n, n)
    BY <1>1, <2>1, PartOf
  <2>3. Part(x, n, n) \in Seq(Seq(Byte)) /\ Len(Part(x, n, n)) = 0
    BY <1>1, <2>2 DEF IsPart
  <2>4. Part(x, n, n) = <<>>
    BY <2>3
  <2> QED BY <1>1, <1>3, <2>1, <2>4
<1>5. ASSUME NEW i \in 1..(n + 1), i < n + 1, \A k \in (i + 1)..(n + 1) : k \in T PROVE i \in T
  <2>1. i \in 1..n /\ i \in Nat /\ i + 1 \in (i + 1)..(n + 1) /\ (i + 1) - 1 = i
    BY <1>1, <1>5
  <2>2. c[i] = <<x[i]>> \o c[i + 1]
    BY <1>3, <2>1 DEF Next1
  <2>3. c[i + 1] = Part(x, i, n)
    BY <1>5, <2>1
  <2>4. Part(x, i - 1, n) = <<x[i]>> \o Part(x, i, n)
    BY <1>1, <2>1, PartCons
  <2> QED BY <2>1, <2>2, <2>3, <2>4
<1>6. 1 \in T
  <2> HIDE DEF T
  <2> QED BY <1>1, <1>4, <1>5, Downwards
<1>7. c[1] = Part(x, 0, n)
  <2>1. 1 - 1 = 0
    OBVIOUS
  <2> QED BY <1>6, <2>1
<1> QED BY <1>1, <1>2, <1>7, WholePart

\* A round does not make the string longer.
LEMMA MergeAllLength ==
  ASSUME NEW x \in Strings, NEW a \in Seq(Byte), NEW b \in Seq(Byte)
  PROVE  MergeAll(x, a, b) \in Strings /\ Len(MergeAll(x, a, b)) <= Len(x)
<1> DEFINE c == Walk(x, a, b)
           n == Len(x)
           T == {i \in Nat : Len(c[i]) <= n + 1 - i}
<1>1. n \in Nat /\ n + 1 \in Nat /\ x \in Seq(Seq(Byte)) /\ 1 \in 1..(n + 1) /\ 1 \in Nat
  BY DEF Strings
<1>2. IsWalk(c, x, a, b) /\ MergeAll(x, a, b) = c[1]
  BY WalkSteps
<1> HIDE DEF c
<1>3. c[n + 1] = <<>> /\ \A i \in 1..n : c[i] = Next1(x, a, b, i, c)
  BY <1>2 DEF IsWalk
<1>4. \A i \in 1..(n + 1) : c[i] \in Strings /\ Len(c[i]) \in Nat
  <2>1. \A i \in 1..(n + 1) : c[i] \in Strings
    BY <1>2 DEF IsWalk
  <2>2. \A y \in Strings : Len(y) \in Nat
    BY DEF Strings
  <2> QED BY <2>1, <2>2
<1>5. n + 1 \in T
  <2>1. Len(<<>>) = 0
    OBVIOUS
  <2>2. Len(c[n + 1]) = 0
    BY <1>3, <2>1
  <2> QED BY <1>1, <2>2
<1>6. ASSUME NEW i \in 1..(n + 1), i < n + 1, \A k \in (i + 1)..(n + 1) : k \in T PROVE i \in T
  <2>1. i \in 1..n /\ i \in Nat /\ i + 1 \in (i + 1)..(n + 1) /\ i + 1 \in 1..(n + 1)
    BY <1>1, <1>6
  <2>2. \A m, s : m \in Seq(Byte) /\ s \in Strings => Len(<<m>> \o s) = 1 + Len(s)
    BY DEF Strings
  <2>3. CASE Occurs(x, a, b, i)
    <3>1. i + 2 \in (i + 1)..(n + 1) /\ i + 2 \in 1..(n + 1)
      BY <1>1, <2>1, <2>3 DEF Occurs
    <3>2. c[i] = <<a \o b>> \o c[i + 2]
      BY <1>3, <2>1, <2>3 DEF Next1
    <3>3. a \o b \in Seq(Byte)
      OBVIOUS
    <3>4. Len(c[i]) = 1 + Len(c[i + 2])
      BY <1>4, <2>2, <3>1, <3>2, <3>3
    <3>5. Len(c[i + 2]) <= n + 1 - (i + 2) /\ Len(c[i + 2]) \in Nat
      BY <1>4, <1>6, <3>1
    <3>6. Len(c[i]) <= n + 1 - i
      <4> HIDE DEF n
      <4>1. \A l \in Nat : l <= n + 1 - (i + 2) => 1 + l <= n + 1 - i
        BY <1>1, <2>1
      <4> QED BY <3>4, <3>5, <4>1
    <3> QED BY <2>1, <3>6
  <2>4. CASE ~Occurs(x, a, b, i)
    <3>1. c[i] = <<x[i]>> \o c[i + 1]
      BY <1>3, <2>1, <2>4 DEF Next1
    <3>2. x[i] \in Seq(Byte)
      BY <1>1, <2>1
    <3>3. Len(c[i]) = 1 + Len(c[i + 1])
      BY <1>4, <2>1, <2>2, <3>1, <3>2
    <3>4. Len(c[i + 1]) <= n + 1 - (i + 1) /\ Len(c[i + 1]) \in Nat
      BY <1>4, <1>6, <2>1
    <3> QED BY <1>1, <2>1, <3>3, <3>4
  <2> QED BY <2>3, <2>4
<1>7. 1 \in T
  <2> HIDE DEF T
  <2> QED BY <1>1, <1>5, <1>6, Downwards
<1>8. Len(c[1]) <= n
  BY <1>1, <1>7
<1> QED BY <1>1, <1>2, <1>4, <1>8

-----------------------------------------------------------------------------
\* The code against GPT-2, round by round.

\* The least element is the one that Min chooses.
LEMMA MinOf ==
  ASSUME NEW S \in SUBSET Nat, NEW m \in S, \A y \in S : m <= y
  PROVE  Min(S) = m
<1>1. Min(S) \in S /\ \A y \in S : Min(S) <= y
  BY DEF Min
<1>2. Min(S) \in Nat /\ m \in Nat /\ Min(S) <= m /\ m <= Min(S)
  BY <1>1
<1> QED BY <1>2

\* The vocabularies in which each merged token is the result of one merge.
IsUnambiguous(v) == IsVocab(v) /\ WellFormedMerges(v)
\* The rank r belongs to the pair.
IsRank(v, a, b, r) == r \in 1..Len(v.merges) /\ v.merges[r] = <<a, b>> /\ a \in Seq(Byte) /\ b \in Seq(Byte)

\* A pair that has a rank has the one that the map gives.
LEMMA RankOf ==
  ASSUME NEW v, IsUnambiguous(v), NEW a, NEW b, HasRank(v, a, b)
  PROVE  IsRank(v, a, b, Rank(v, a, b))
<1> DEFINE R == Ranks(v, a, b)
           n == Len(v.merges)
<1>1. n \in Nat /\ v.merges \in Seq(Seq(Byte) \X Seq(Byte))
  BY DEF IsUnambiguous, IsVocab
<1>2. R # {} /\ R \subseteq 1..n
  BY DEF HasRank, Ranks
<1>3. R \in SUBSET Nat /\ \A x \in R : x <= n
  BY <1>1, <1>2
<1>4. Max(R) \in R
  <2> HIDE DEF R, n
  <2> QED BY <1>1, <1>2, <1>3, MaxOf
<1>5. Max(R) \in 1..n /\ v.merges[Max(R)] = <<a, b>>
  BY <1>4 DEF Ranks
<1>6. v.merges[Max(R)] \in Seq(Byte) \X Seq(Byte)
  BY <1>1, <1>5
<1> QED BY <1>5, <1>6 DEF IsRank, Rank

\* No pair has two ranks, its result is new, and a pair with the result in it
\* has a greater rank.
LEMMA RankOrder ==
  ASSUME NEW v, IsUnambiguous(v), NEW a, NEW b, NEW r, IsRank(v, a, b, r)
  PROVE  /\ IsPair(a, b)
         /\ \A s, c, d : IsRank(v, c, d, s) =>
              /\ (c = a /\ d = b) => s = r
              /\ (c = a \o b \/ d = a \o b) => s > r
<1> DEFINE n == Len(v.merges)
           result(q) == v.merges[q][1] \o v.merges[q][2]
           bytes == {ByteToUnicode[x] : x \in Byte}
           known(q) == bytes \cup {result(p) : p \in 1..(q - 1)}
<1>1. n \in Nat
  BY DEF IsUnambiguous, IsVocab
<1>2. \A q \in 1..n : v.merges[q][1] \in known(q) /\ v.merges[q][2] \in known(q) /\ result(q) \notin known(q)
  BY DEF IsUnambiguous, WellFormedMerges
<1>3. \A q, c, d : IsRank(v, c, d, q) => q \in 1..n /\ v.merges[q][1] = c /\ v.merges[q][2] = d /\ result(q) = c \o d
  BY DEF IsRank
<1> HIDE DEF n, bytes, result
<1>4. IsPair(a, b)
  <2>0. r \in 1..n /\ v.merges[r][1] = a /\ v.merges[r][2] = b /\ result(r) = a \o b
    BY <1>3
  <2>1. a \in known(r) /\ b \in known(r) /\ a \o b \notin known(r)
    <3> HIDE DEF known
    <3> QED BY <1>2, <2>0
  <2>2. a \in Seq(Byte) /\ b \in Seq(Byte)
    BY DEF IsRank
  <2>3. a \o b # a /\ a \o b # b
    <3> HIDE DEF known
    <3> QED BY <2>1
  <2> QED BY <2>2, <2>3 DEF IsPair
<1>5. ASSUME NEW p \in 1..n, NEW q \in 1..n, result(p) = result(q) PROVE p = q
  <2>1. ~(p < q)
    <3> SUFFICES ASSUME p < q PROVE FALSE
      OBVIOUS
    <3>1. p \in 1..(q - 1)
      BY <1>1
    <3> QED BY <1>2, <1>5, <3>1
  <2>2. ~(q < p)
    <3> SUFFICES ASSUME q < p PROVE FALSE
      OBVIOUS
    <3>1. q \in 1..(p - 1)
      BY <1>1
    <3> QED BY <1>2, <1>5, <3>1
  <2> QED BY <1>1, <2>1, <2>2
<1>6. ASSUME NEW s, NEW c, NEW d, IsRank(v, c, d, s), c = a, d = b PROVE s = r
  <2>1. s \in 1..n /\ r \in 1..n /\ result(s) = c \o d /\ result(r) = a \o b
    BY <1>3, <1>6
  <2> QED BY <1>5, <1>6, <2>1
<1>7. ASSUME NEW s, NEW c, NEW d, IsRank(v, c, d, s), c = a \o b \/ d = a \o b PROVE s > r
  <2>1. r \in 1..n /\ s \in 1..n /\ result(r) = a \o b
    BY <1>3, <1>7
  <2>2. result(r) \in known(s)
    <3> HIDE DEF known
    <3>1. v.merges[s][1] = c /\ v.merges[s][2] = d
      BY <1>3, <1>7
    <3>2. c \in known(s) /\ d \in known(s)
      BY <1>2, <2>1, <3>1
    <3> QED BY <1>7, <2>1, <3>2
  <2>3. result(r) \notin bytes
    BY <1>2, <2>1
  <2>4. PICK p \in 1..(s - 1) : result(r) = result(p)
    BY <2>2, <2>3
  <2>5. p \in 1..n
    BY <1>1, <2>1
  <2>6. p = r
    BY <1>5, <2>1, <2>4, <2>5
  <2> QED BY <1>1, <2>1, <2>4, <2>6
<1> QED BY <1>4, <1>6, <1>7

\* The least rank in a string.
Least(v, w) == Min({RankAt(v, w, j) : j \in Pairs(v, w)})
\* Of all pairs in w, (a, b) has the least rank r.
IsLeast(v, w, a, b, r) ==
  /\ IsRank(v, a, b, r)
  /\ Pairs(v, w) # {}
  /\ \A i \in Pairs(v, w) : IsRank(v, w[i], w[i + 1], RankAt(v, w, i)) /\ RankAt(v, w, i) >= r
  /\ \E i \in Pairs(v, w) : w[i] = a /\ w[i + 1] = b

\* It is the one that the code finds.
LEMMA LeastIs ==
  ASSUME NEW v, IsUnambiguous(v), NEW w \in Strings, NEW a, NEW b, NEW r, IsLeast(v, w, a, b, r)
  PROVE  Least(v, w) = r
<1> DEFINE K == {RankAt(v, w, j) : j \in Pairs(v, w)}
<1>1. \A i \in Pairs(v, w) : RankAt(v, w, i) \in Nat /\ RankAt(v, w, i) >= r
  BY DEF IsLeast, IsRank, IsUnambiguous, IsVocab
<1>2. PICK i \in Pairs(v, w) : w[i] = a /\ w[i + 1] = b
  BY DEF IsLeast
<1>3. RankAt(v, w, i) = r
  <2>1. IsRank(v, a, b, RankAt(v, w, i)) /\ IsRank(v, a, b, r)
    BY <1>2 DEF IsLeast
  <2> QED BY <2>1, RankOrder
<1>4. K \in SUBSET Nat /\ r \in K /\ \A y \in K : r <= y
  <2>1. r \in Nat
    BY DEF IsLeast, IsRank
  <2> QED BY <1>1, <1>3, <2>1
<1>5. Min(K) = r
  <2> HIDE DEF K
  <2> QED BY <1>4, MinOf
<1> QED BY <1>5 DEF Least

\* The code merges the first occurrence of the pair of least rank.
LEMMA MergeIndexFirst ==
  ASSUME NEW v, IsUnambiguous(v), NEW w \in Strings, Pairs(v, w) # {}
  PROVE  \E a, b, r : IsLeast(v, w, a, b, r) /\ First(w, a, b, MergeIndex(v, w))
<1> DEFINE P == Pairs(v, w)
           K == {RankAt(v, w, j) : j \in P}
           r == Min(K)
           J == {j \in P : RankAt(v, w, j) = r}
           m == Min(J)
<1>1. P \subseteq 1..(Len(w) - 1) /\ \A j \in P : HasRank(v, w[j], w[j + 1])
  BY DEF Pairs
<1>2. P \subseteq Nat /\ Len(w) \in Nat
  BY <1>1 DEF Strings
<1>3. \A j \in P : IsRank(v, w[j], w[j + 1], RankAt(v, w, j))
  <2> SUFFICES ASSUME NEW j \in P PROVE IsRank(v, w[j], w[j + 1], RankAt(v, w, j))
    OBVIOUS
  <2>1. IsRank(v, w[j], w[j + 1], Rank(v, w[j], w[j + 1]))
    BY <1>1, RankOf
  <2> QED BY <2>1 DEF RankAt
<1>4. K \in SUBSET Nat /\ K # {}
  <2>1. \A j \in P : RankAt(v, w, j) \in Nat
    BY <1>3 DEF IsRank
  <2> QED BY <2>1
<1>5. r \in K /\ \A y \in K : r <= y
  <2> HIDE DEF K
  <2>1. \E x \in K : \A y \in K : x <= y
    BY <1>4, LeastOf
  <2> QED BY <2>1 DEF Min
<1> HIDE DEF r
<1>6. J \in SUBSET Nat /\ J # {} /\ J \subseteq P
  BY <1>2, <1>5
<1>7. m \in J /\ \A y \in J : m <= y
  <2> HIDE DEF J
  <2>1. \E x \in J : \A y \in J : x <= y
    BY <1>6, LeastOf
  <2> QED BY <2>1 DEF Min
<1>8. MergeIndex(v, w) = m
  BY DEF MergeIndex, MinElement, r
<1> HIDE DEF m
<1> DEFINE a == w[m]
           b == w[m + 1]
<1>9. m \in P /\ IsRank(v, a, b, r)
  BY <1>3, <1>7
<1>10. \A i \in P : RankAt(v, w, i) >= r
  <2>1. r \in Nat /\ \A i \in P : RankAt(v, w, i) \in Nat /\ RankAt(v, w, i) \in K
    BY <1>4, <1>5
  <2> HIDE DEF K
  <2> QED BY <1>5, <2>1
<1>11. IsLeast(v, w, a, b, r)
  <2>1. \E i \in P : w[i] = a /\ w[i + 1] = b
    BY <1>9
  <2> HIDE DEF a, b
  <2> QED BY <1>3, <1>9, <1>10, <2>1 DEF IsLeast
<1>12. ASSUME NEW i \in 1..(m - 1), Occurs(w, a, b, i) PROVE FALSE
  <2>1. i \in 1..(Len(w) - 1) /\ i < m /\ i \in Nat /\ m \in Nat
    BY <1>1, <1>2, <1>9
  <2>2. w[i] = a /\ w[i + 1] = b
    BY <1>12 DEF Occurs
  <2>3. HasRank(v, a, b) /\ RankAt(v, w, m) = Rank(v, a, b)
    BY <1>1, <1>9 DEF RankAt
  <2>4. i \in P /\ RankAt(v, w, i) = RankAt(v, w, m)
    BY <2>1, <2>2, <2>3 DEF Pairs, RankAt
  <2>5. i \in J
    BY <1>7, <2>4
  <2> QED BY <1>7, <2>1, <2>5
<1>13. First(w, a, b, m)
  BY <1>1, <1>9, <1>12 DEF First
<1> QED BY <1>8, <1>11, <1>13

\* A round of GPT-2.
Round(v, w) ==
  IF Pairs(v, w) = {} THEN w
  ELSE MergeAll(w, v.merges[Least(v, w)][1], v.merges[Least(v, w)][2])

\* A round merges the pair of least rank.
LEMMA RoundIs ==
  ASSUME NEW v, IsUnambiguous(v), NEW w \in Strings, NEW a, NEW b, NEW r, IsLeast(v, w, a, b, r)
  PROVE  Round(v, w) = MergeAll(w, a, b)
<1>1. Least(v, w) = r /\ Pairs(v, w) # {}
  BY LeastIs DEF IsLeast
<1>2. v.merges[r][1] = a /\ v.merges[r][2] = b
  BY DEF IsLeast, IsRank
<1> QED BY <1>1, <1>2 DEF Round

\* After a merge no pair has a rank below the one that was merged.
LEMMA JoinedRanks ==
  ASSUME NEW v, IsUnambiguous(v), NEW x \in Strings, NEW a, NEW b, NEW r, NEW j, NEW y,
         IsLeast(v, x, a, b, r), First(x, a, b, j), IsJoined(y, x, j),
         NEW i \in Pairs(v, y)
  PROVE  IsRank(v, y[i], y[i + 1], RankAt(v, y, i)) /\ RankAt(v, y, i) >= r
<1> DEFINE s == RankAt(v, y, i)
<1>1. Len(x) \in Nat /\ j \in Nat /\ j \in 1..(Len(x) - 1) /\ Len(y) = Len(x) - 1
  BY DEF First, IsJoined, Strings
<1>2. i \in 1..(Len(y) - 1) /\ HasRank(v, y[i], y[i + 1]) /\ i \in Nat /\ i + 1 \in 1..Len(y)
  BY <1>1 DEF Pairs
<1>3. IsRank(v, y[i], y[i + 1], s)
  BY <1>2, RankOf DEF RankAt
<1>4. y[j] = a \o b
  BY DEF IsJoined, First
<1>5. s \in Int /\ r \in Int /\ IsRank(v, a, b, r)
  BY <1>3 DEF IsLeast, IsRank
<1> HIDE DEF s
<1>6. ASSUME y[i] = a \o b \/ y[i + 1] = a \o b PROVE s >= r
  <2>0. \A q, c, d : IsRank(v, c, d, q) => ((c = a \o b \/ d = a \o b) => q > r)
    BY <1>5, RankOrder
  <2>1. s > r
    BY <1>3, <1>6, <2>0
  <2> QED BY <1>5, <2>1
<1>7. ASSUME NEW k \in 1..(Len(x) - 1), y[i] = x[k], y[i + 1] = x[k + 1] PROVE s >= r
  <2>1. k \in Pairs(v, x) /\ RankAt(v, x, k) = s
    BY <1>2, <1>7 DEF Pairs, RankAt, s
  <2> QED BY <2>1 DEF IsLeast
<1>8. CASE i < j - 1
  <2>1. i \in 1..(j - 1) /\ i + 1 \in 1..(j - 1) /\ i \in 1..(Len(x) - 1)
    BY <1>1, <1>2, <1>8
  <2>2. y[i] = x[i] /\ y[i + 1] = x[i + 1]
    BY <2>1 DEF IsJoined
  <2> QED BY <1>3, <1>7, <2>1, <2>2 DEF s
<1>9. CASE i = j - 1
  <2>1. i + 1 = j
    BY <1>1, <1>9
  <2> QED BY <1>3, <1>4, <1>6, <2>1 DEF s
<1>10. CASE i = j
  BY <1>3, <1>4, <1>6, <1>10 DEF s
<1>11. CASE i > j
  <2>1. i \in (j + 1)..Len(y) /\ i + 1 \in (j + 1)..Len(y) /\ i + 1 \in 1..(Len(x) - 1)
    BY <1>1, <1>2, <1>11
  <2>2. y[i] = x[i + 1] /\ y[i + 1] = x[(i + 1) + 1]
    BY <2>1 DEF IsJoined
  <2> QED BY <1>3, <1>7, <2>1, <2>2 DEF s
<1> QED BY <1>1, <1>2, <1>8, <1>9, <1>10, <1>11

\* One merge of the code is a round of GPT-2, or does not change what the round
\* gives; and a round makes the string shorter.
LEMMA RoundJoined ==
  ASSUME NEW v, IsUnambiguous(v), NEW x \in Strings, Pairs(v, x) # {}, NEW y, y = Joined(x, MergeIndex(v, x))
  PROVE  /\ y \in Strings /\ Len(y) = Len(x) - 1
         /\ Round(v, x) \in Strings /\ Len(Round(v, x)) <= Len(x) - 1
         /\ Round(v, x) = y \/ Round(v, x) = Round(v, y)
<1> DEFINE j == MergeIndex(v, x)
<1>1. PICK a, b, r : IsLeast(v, x, a, b, r) /\ First(x, a, b, j)
  BY MergeIndexFirst
<1> HIDE DEF j
<1>2. IsRank(v, a, b, r) /\ j \in 1..(Len(x) - 1)
  BY <1>1 DEF IsLeast, First
<1>3. IsPair(a, b)
  BY <1>2, RankOrder
<1>4. IsJoined(y, x, j)
  BY <1>2, JoinedIs DEF j
<1>5. y \in Strings /\ Len(y) = Len(x) - 1
  BY <1>4 DEF IsJoined
<1>6. Round(v, x) = MergeAll(x, a, b)
  BY <1>1, RoundIs
<1>7. MergeAll(y, a, b) = MergeAll(x, a, b)
  <2>1. MergeAll(Joined(x, j), a, b) = MergeAll(x, a, b)
    BY <1>1, <1>3, MergeAllJoined
  <2> QED BY <2>1 DEF j
<1>8. a \in Seq(Byte) /\ b \in Seq(Byte)
  BY <1>3 DEF IsPair
<1>9. MergeAll(y, a, b) \in Strings /\ Len(MergeAll(y, a, b)) <= Len(y)
  BY <1>5, <1>8, MergeAllLength
<1>10. Round(v, x) \in Strings /\ Len(Round(v, x)) <= Len(x) - 1
  BY <1>5, <1>6, <1>7, <1>9
<1>11. CASE \A i \in 1..Len(y) : ~Occurs(y, a, b, i)
  <2>1. MergeAll(y, a, b) = y
    BY <1>5, <1>8, <1>11, MergeAllNone
  <2> QED BY <1>5, <1>6, <1>7, <1>10, <2>1
<1>12. CASE \E i \in 1..Len(y) : Occurs(y, a, b, i)
  <2>1. PICK i \in 1..Len(y) : Occurs(y, a, b, i)
    BY <1>12
  <2>2. i < Len(y) /\ y[i] = a /\ y[i + 1] = b
    BY <2>1 DEF Occurs
  <2>3. Len(y) \in Nat
    BY <1>5 DEF Strings
  <2>4. i \in 1..(Len(y) - 1)
    BY <2>2, <2>3
  <2>5. HasRank(v, a, b)
    <3>1. r \in Ranks(v, a, b)
      BY <1>2 DEF IsRank, Ranks
    <3> QED BY <3>1 DEF HasRank
  <2>6. i \in Pairs(v, y)
    BY <2>2, <2>4, <2>5 DEF Pairs
  <2>7. \A k \in Pairs(v, y) : IsRank(v, y[k], y[k + 1], RankAt(v, y, k)) /\ RankAt(v, y, k) >= r
    BY <1>1, <1>4, JoinedRanks
  <2>8. IsLeast(v, y, a, b, r)
    BY <1>2, <2>2, <2>6, <2>7 DEF IsLeast
  <2>9. Round(v, y) = MergeAll(y, a, b)
    BY <1>5, <2>8, RoundIs
  <2> QED BY <1>5, <1>6, <1>7, <1>10, <2>9
<1> QED BY <1>11, <1>12

\* R holds the rounds of GPT-2 over x.
IsRounds(R, v, x) ==
  R \in [0..Len(x) -> Strings] /\ R[0] = x /\ \A k \in 1..Len(x) : R[k] = Round(v, R[k - 1])

\* A round gives a string.
LEMMA RoundType ==
  ASSUME NEW v, IsUnambiguous(v), NEW w \in Strings
  PROVE  Round(v, w) \in Strings
<1>1. CASE Pairs(v, w) = {}
  BY <1>1 DEF Round
<1>2. CASE Pairs(v, w) # {}
  BY <1>2, RoundJoined
<1> QED BY <1>1, <1>2

\* GPT2 is the last of the rounds.
LEMMA GPT2Rounds ==
  ASSUME NEW v, IsUnambiguous(v), NEW x \in Strings
  PROVE  \E R : IsRounds(R, v, x) /\ GPT2(v, x) = R[Len(x)]
<1> DEFINE n == Len(x)
           N(w) == Round(v, w)
           G(c) == [k \in 0..n |-> IF k = 0 THEN x ELSE N(c[k - 1])]
           f == CHOOSE f : f = G(f)
           D == [0..n -> Strings]
<1>1. n \in Nat
  BY DEF Strings
<1>2. GPT2(v, x) = f[n]
  BY DEF GPT2, Round, Least
<1>3. \A w \in Strings : N(w) \in Strings
  BY RoundType
<1> HIDE DEF n, N
<1>4. PICK c : c \in D /\ c[0] = x /\ \A k \in 1..n : c[k] = N(c[k - 1])
  <2> DEFINE F == [k \in 1..n |-> [w \in Strings |-> N(w)]]
  <2>1. F \in [1..n -> [Strings -> Strings]]
    BY <1>3
  <2>2. \A k \in 1..n : \A w \in Strings : F[k][w] = N(w)
    OBVIOUS
  <2> HIDE DEF F
  <2>3. IsRule(Strings, x, n, F)
    BY <1>1, <2>1 DEF IsRule
  <2>4. PICK c : Obeys(c, Strings, x, n, F)
    BY <2>3, RecursiveFunction
  <2>5. c \in D /\ c[0] = x /\ \A k \in 1..n : c[k] = F[k][c[k - 1]]
    BY <2>4 DEF Obeys
  <2>6. \A k \in 1..n : c[k - 1] \in Strings
    BY <1>1, <2>5
  <2>7. \A k \in 1..n : c[k] = N(c[k - 1])
    <3> SUFFICES ASSUME NEW k \in 1..n PROVE c[k] = N(c[k - 1])
      OBVIOUS
    <3>1. c[k] = F[k][c[k - 1]] /\ c[k - 1] \in Strings
      BY <2>5, <2>6
    <3> QED BY <2>2, <3>1
  <2> QED BY <2>5, <2>7
<1>5. c = G(c)
  <2>1. \A k \in 0..n : c[k] = IF k = 0 THEN x ELSE N(c[k - 1])
    BY <1>1, <1>4
  <2> QED BY <1>4, <2>1
<1>6. f = G(f)
  <2> HIDE DEF G
  <2> QED BY <1>5
<1> HIDE DEF f
<1>7. f[0] = x /\ \A k \in 1..n : f[k] = N(f[k - 1])
  <2>1. PICK g : g = f
    OBVIOUS
  <2>2. g = [k \in 0..n |-> IF k = 0 THEN x ELSE N(g[k - 1])]
    BY <1>6, <2>1
  <2>3. g[0] = x
    <3>1. 0 \in 0..n
      BY <1>1
    <3> QED BY <2>2, <3>1
  <2>4. \A k \in 1..n : g[k] = N(g[k - 1])
    <3> SUFFICES ASSUME NEW k \in 1..n PROVE g[k] = N(g[k - 1])
      OBVIOUS
    <3>1. k \in 0..n /\ k # 0
      BY <1>1
    <3> QED BY <2>2, <3>1
  <2> QED BY <2>1, <2>3, <2>4
<1> DEFINE T == {k \in Nat : k <= n => f[k] \in Strings}
<1>8. 0 \in T
  BY <1>7
<1>9. ASSUME NEW k \in Nat, k \in T PROVE k + 1 \in T
  <2> SUFFICES ASSUME k + 1 <= n PROVE f[k + 1] \in Strings
    OBVIOUS
  <2>1. k + 1 \in 1..n /\ k <= n /\ (k + 1) - 1 = k
    BY <1>1
  <2>2. f[k] \in Strings
    BY <1>9, <2>1
  <2> QED BY <1>3, <1>7, <2>1, <2>2
<1>10. f \in D
  <2>1. Nat \subseteq T
    <3> HIDE DEF T
    <3> QED BY <1>8, <1>9, NatSetInduction
  <2>2. \A k \in 0..n : f[k] \in Strings
    BY <1>1, <2>1
  <2>3. f = [k \in 0..n |-> f[k]]
    BY <1>6
  <2> QED BY <2>2, <2>3
<1>11. IsRounds(f, v, x)
  BY <1>7, <1>10 DEF IsRounds, n, N
<1> QED BY <1>2, <1>11 DEF n

\* When no pair has a rank, the rounds change nothing.
LEMMA GPT2Done ==
  ASSUME NEW v, IsUnambiguous(v), NEW x \in Strings, Pairs(v, x) = {}
  PROVE  GPT2(v, x) = x
<1> DEFINE n == Len(x)
<1>1. n \in Nat
  BY DEF Strings
<1>2. PICK R : IsRounds(R, v, x) /\ GPT2(v, x) = R[n]
  BY GPT2Rounds
<1>3. R[0] = x /\ \A k \in 1..n : R[k] = Round(v, R[k - 1])
  BY <1>2 DEF IsRounds
<1>4. Round(v, x) = x
  BY DEF Round
<1> HIDE DEF n
<1> DEFINE T == {k \in Nat : k <= n => R[k] = x}
<1>5. 0 \in T
  BY <1>3
<1>6. ASSUME NEW k \in Nat, k \in T PROVE k + 1 \in T
  <2> SUFFICES ASSUME k + 1 <= n PROVE R[k + 1] = x
    OBVIOUS
  <2>1. k + 1 \in 1..n /\ k <= n /\ (k + 1) - 1 = k
    BY <1>1
  <2>2. R[k] = x
    BY <1>6, <2>1
  <2> QED BY <1>3, <1>4, <2>1, <2>2
<1>7. Nat \subseteq T
  <2> HIDE DEF T
  <2> QED BY <1>5, <1>6, NatSetInduction
<1>8. R[n] = x
  BY <1>1, <1>7
<1> QED BY <1>2, <1>8

\* While there are pairs, every round makes the string shorter.
LEMMA RoundsShrink ==
  ASSUME NEW v, IsUnambiguous(v), NEW x \in Strings, NEW R, IsRounds(R, v, x)
  PROVE  \A k \in 0..Len(x) : Pairs(v, R[k]) = {} \/ Len(R[k]) + k <= Len(x)
<1> DEFINE n == Len(x)
<1>1. n \in Nat
  BY DEF Strings
<1>2. R \in [0..n -> Strings] /\ R[0] = x /\ \A k \in 1..n : R[k] = Round(v, R[k - 1])
  BY DEF IsRounds
<1> DEFINE L(k) == Pairs(v, R[k]) = {} \/ Len(R[k]) + k <= n
           T == {k \in Nat : k <= n => L(k)}
<1>3. 0 \in T
  BY <1>1, <1>2
<1>4. ASSUME NEW k \in Nat, k \in T PROVE k + 1 \in T
  <2> SUFFICES ASSUME k + 1 <= n PROVE L(k + 1)
    <3> HIDE DEF L, n
    <3> QED OBVIOUS
  <2>1. k + 1 \in 1..n /\ k <= n /\ k \in 0..n /\ (k + 1) - 1 = k
    BY <1>1
  <2>2. R[k + 1] = Round(v, R[k]) /\ R[k] \in Strings
    BY <1>2, <2>1
  <2>3. CASE Pairs(v, R[k]) = {}
    <3>1. Round(v, R[k]) = R[k]
      BY <2>3 DEF Round
    <3> QED BY <2>2, <2>3, <3>1
  <2>4. CASE Pairs(v, R[k]) # {}
    <3>1. Round(v, R[k]) \in Strings /\ Len(Round(v, R[k])) <= Len(R[k]) - 1
      BY <2>2, <2>4, RoundJoined
    <3>2. Len(R[k]) + k <= n
      BY <1>4, <2>1, <2>4
    <3>3. Len(Round(v, R[k])) \in Nat /\ Len(R[k]) \in Nat
      BY <2>2, <3>1 DEF Strings
    <3>4. Len(Round(v, R[k])) + (k + 1) <= n
      BY <1>1, <3>1, <3>2, <3>3
    <3> QED BY <2>2, <3>4
  <2> QED BY <2>3, <2>4
<1>5. Nat \subseteq T
  <2> HIDE DEF T
  <2> QED BY <1>3, <1>4, NatSetInduction
<1>6. ASSUME NEW k \in 0..n PROVE Pairs(v, R[k]) = {} \/ Len(R[k]) + k <= n
  <2>1. k \in Nat /\ k <= n
    BY <1>1
  <2> QED BY <1>5, <2>1
<1> QED BY <1>6

\* GPT-2 gives the same before and after a merge of the code.
LEMMA GPT2Joined ==
  ASSUME NEW v, IsUnambiguous(v), NEW x \in Strings, Pairs(v, x) # {}, NEW y, y = Joined(x, MergeIndex(v, x))
  PROVE  GPT2(v, y) = GPT2(v, x)
<1> DEFINE n == Len(x)
<1>1. n \in Nat /\ n >= 2
  <2>1. n \in Nat
    BY DEF Strings
  <2>2. PICK j : j \in 1..(n - 1)
    BY DEF Pairs
  <2> QED BY <2>1, <2>2
<1>2. y \in Strings /\ Len(y) = n - 1
  BY RoundJoined
<1>3. Round(v, x) = y \/ Round(v, x) = Round(v, y)
  BY RoundJoined
<1>4. PICK P : IsRounds(P, v, x) /\ GPT2(v, x) = P[n]
  BY GPT2Rounds
<1>5. PICK Q : IsRounds(Q, v, y) /\ GPT2(v, y) = Q[n - 1]
  BY <1>2, GPT2Rounds
<1>6. P \in [0..n -> Strings] /\ P[0] = x /\ \A k \in 1..n : P[k] = Round(v, P[k - 1])
  BY <1>4 DEF IsRounds
<1>7. Q[0] = y /\ \A k \in 1..(n - 1) : Q[k] = Round(v, Q[k - 1])
  BY <1>2, <1>5 DEF IsRounds
<1>8. \A k \in 0..n : Pairs(v, P[k]) = {} \/ Len(P[k]) + k <= n
  BY <1>4, RoundsShrink
<1> HIDE DEF n
<1>9. P[1] = Round(v, x) /\ Q[1] = Round(v, y)
  <2>1. 1 \in 1..n /\ 1 \in 1..(n - 1) /\ 1 - 1 = 0
    BY <1>1
  <2> QED BY <1>6, <1>7, <2>1
<1>10. CASE Round(v, x) = y
  <2> DEFINE T == {k \in Nat : k <= n - 1 => P[k + 1] = Q[k]}
  <2>1. 0 \in T
    BY <1>7, <1>9, <1>10
  <2>2. ASSUME NEW k \in Nat, k \in T PROVE k + 1 \in T
    <3> SUFFICES ASSUME k + 1 <= n - 1 PROVE P[(k + 1) + 1] = Q[k + 1]
      OBVIOUS
    <3>1. k + 1 \in 1..(n - 1) /\ (k + 1) + 1 \in 1..n /\ k <= n - 1 /\ (k + 1) - 1 = k /\ ((k + 1) + 1) - 1 = k + 1
      BY <1>1
    <3>2. P[k + 1] = Q[k]
      BY <2>2, <3>1
    <3>3. P[(k + 1) + 1] = Round(v, P[k + 1]) /\ Q[k + 1] = Round(v, Q[k])
      BY <1>6, <1>7, <3>1
    <3> QED BY <3>2, <3>3
  <2>3. Nat \subseteq T
    <3> HIDE DEF T
    <3> QED BY <2>1, <2>2, NatSetInduction
  <2>4. n - 1 \in Nat /\ (n - 1) + 1 = n /\ n - 1 <= n - 1
    BY <1>1
  <2>5. P[(n - 1) + 1] = Q[n - 1]
    BY <2>3, <2>4
  <2> QED BY <1>4, <1>5, <2>4, <2>5
<1>11. CASE Round(v, x) = Round(v, y)
  <2> DEFINE T == {k \in Nat : k + 1 <= n - 1 => P[k + 1] = Q[k + 1]}
  <2>1. 0 \in T
    BY <1>9, <1>11
  <2>2. ASSUME NEW k \in Nat, k \in T PROVE k + 1 \in T
    <3> SUFFICES ASSUME (k + 1) + 1 <= n - 1 PROVE P[(k + 1) + 1] = Q[(k + 1) + 1]
      OBVIOUS
    <3>1. (k + 1) + 1 \in 1..(n - 1) /\ (k + 1) + 1 \in 1..n /\ k + 1 <= n - 1 /\ ((k + 1) + 1) - 1 = k + 1
      BY <1>1
    <3>2. P[k + 1] = Q[k + 1]
      BY <2>2, <3>1
    <3>3. P[(k + 1) + 1] = Round(v, P[k + 1]) /\ Q[(k + 1) + 1] = Round(v, Q[k + 1])
      BY <1>6, <1>7, <3>1
    <3> QED BY <3>2, <3>3
  <2>3. Nat \subseteq T
    <3> HIDE DEF T
    <3> QED BY <2>1, <2>2, NatSetInduction
  <2>4. n - 2 \in Nat /\ (n - 2) + 1 = n - 1 /\ n - 1 <= n - 1 /\ n - 1 \in 0..n /\ n \in 1..n
    BY <1>1
  <2>5. P[n - 1] = Q[n - 1]
    <3>1. (n - 2) + 1 <= n - 1 => P[(n - 2) + 1] = Q[(n - 2) + 1]
      BY <2>3, <2>4
    <3> QED BY <2>4, <3>1
  <2>6. Pairs(v, P[n - 1]) = {}
    <3> SUFFICES ASSUME Pairs(v, P[n - 1]) # {} PROVE FALSE
      OBVIOUS
    <3>1. P[n - 1] \in Strings /\ Len(P[n - 1]) + (n - 1) <= n
      BY <1>6, <1>8, <2>4
    <3>2. Len(P[n - 1]) \in Nat
      BY <3>1 DEF Strings
    <3>3. PICK j : j \in 1..(Len(P[n - 1]) - 1)
      BY DEF Pairs
    <3> QED BY <1>1, <3>1, <3>2, <3>3
  <2>7. P[n] = Round(v, P[n - 1])
    BY <1>6, <2>4
  <2>8. P[n] = P[n - 1]
    BY <2>6, <2>7 DEF Round
  <2> QED BY <1>4, <1>5, <2>5, <2>8
<1> QED BY <1>3, <1>10, <1>11

\* While a chunk is merged, GPT-2 makes of what there is what it makes of the
\* bytes of the chunk.
Merging ==
  /\ IsUnambiguous(vocab)
  /\ pc = "merge" => GPT2(vocab, piece) = GPT2(vocab, Chars(Head(chunks)))

\* for_model() has built the maps, and nothing is merged yet.
LEMMA MergingInit == Init => Merging
<1> SUFFICES ASSUME Init PROVE Merging
  OBVIOUS
<1>1. IsUnambiguous(vocab)
  BY TokenizerAssumption DEF Init, IsVocab, IsUnambiguous
<1> QED BY <1>1 DEF Init, Merging

\* Every step of tokenize() keeps it.
LEMMA MergingStep == Covered /\ Merging /\ [Next]_vars => Merging'
<1> SUFFICES ASSUME Covered, Merging, [Next]_vars PROVE Merging'
  OBVIOUS
<1>0. vocab' = vocab
  BY DEF Next, vars, input, Scan, ScanEnd, Pretokenize, PretokenizeEnd, Split, Merge, MergeEnd, BpeEnd, Lookup
<1>1. IsUnambiguous(vocab')
  BY <1>0 DEF Merging
<1>2. CASE Split
  <2>1. piece' = Chars(Head(chunks)) /\ chunks' = chunks
    BY <1>2 DEF Split
  <2>2. GPT2(vocab', piece') = GPT2(vocab', Chars(Head(chunks')))
    BY <2>1
  <2> QED BY <1>1, <2>2 DEF Merging
<1>3. CASE Merge
  <2> DEFINE j == MergeIndex(vocab, piece)
  <2>1. pc = "merge" /\ Pairs(vocab, piece) # {} /\ chunks' = chunks
    BY <1>3 DEF Merge
  <2>2. piece' = Joined(piece, j)
    BY <1>3 DEF Merge, Joined
  <2>3. piece \in Strings /\ IsUnambiguous(vocab)
    BY DEF Covered, Merging
  <2>4. GPT2(vocab, piece') = GPT2(vocab, piece)
    BY <2>1, <2>2, <2>3, GPT2Joined
  <2>5. GPT2(vocab, piece) = GPT2(vocab, Chars(Head(chunks)))
    BY <2>1 DEF Merging
  <2>6. GPT2(vocab', piece') = GPT2(vocab', Chars(Head(chunks')))
    BY <1>0, <2>1, <2>4, <2>5
  <2> QED BY <1>1, <2>6 DEF Merging
<1>4. CASE Scan \/ ScanEnd \/ Pretokenize \/ PretokenizeEnd \/ MergeEnd \/ BpeEnd \/ Lookup
  <2>1. pc' # "merge"
    BY <1>4 DEF Scan, ScanEnd, Pretokenize, PretokenizeEnd, MergeEnd, BpeEnd, Lookup
  <2> QED BY <1>1, <2>1 DEF Merging
<1>5. CASE UNCHANGED vars
  BY <1>5 DEF vars, input, Merging
<1> QED BY <1>2, <1>3, <1>4, <1>5 DEF Next

\* "This is the classic greedy BPE merge identical to GPT-2": for every
\* vocabulary in which each merge makes a new token, and every chunk,
\* split_and_merge_, which merges one occurrence at a time, ends with the tokens
\* of GPT-2, which merges all occurrences of the pair in a round.
THEOREM MergesCorrect == Spec => []MergesLikeGPT2
<1> DEFINE Inv == Scanned /\ Covered /\ Merging
<1>1. Init => Inv
  BY ScannedInit, CoveredInit, MergingInit
<1>2. Inv /\ [Next]_vars => Inv'
  BY ScannedStep, CoveredStep, MergingStep
<1>3. Inv => MergesLikeGPT2
  <2> SUFFICES ASSUME Covered, Merging, pc = "merge", Pairs(vocab, piece) = {}
               PROVE  piece = GPT2(vocab, Chars(Head(chunks)))
    BY DEF MergesLikeGPT2
  <2>1. piece \in Strings /\ IsUnambiguous(vocab)
    BY DEF Covered, Merging
  <2>2. GPT2(vocab, piece) = piece
    BY <2>1, GPT2Done
  <2> QED BY <2>2 DEF Merging
<1> QED BY <1>1, <1>2, <1>3, PTL DEF Spec

=============================================================================
