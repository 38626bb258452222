------------------------------- MODULE Sampler -------------------------------
(***************************************************************************)
(* Which tokens Sampler::sample may answer (src/src/sampling/samplers.cpp).  *)
(*                                                                         *)
(* Logits are a sequence of numbers; token j has its logit at j + 1.  Only   *)
(* their order counts: dividing by a temperature above zero keeps it, as     *)
(* long as nothing overflows, and every token whose probability is above     *)
(* zero may be drawn.                                                       *)
(***************************************************************************)
EXTENDS Naturals, Sequences, FiniteSets, Functions

\* std::max_element answers the first of the greatest.
Greedy(logits) ==
  CHOOSE t \in 0..(Len(logits) - 1) :
    /\ \A u \in 0..(Len(logits) - 1) : logits[u + 1] <= logits[t + 1]
    /\ \A u \in 0..(t - 1) : logits[u + 1] < logits[t + 1]

\* What std::partial_sort may leave in vals: the first k in descending order,
\* and none of the others greater (external: the order of these is open).
PartialSort(logits, k) ==
  LET Sorts(p) == \A j \in 1..k, l \in 1..Len(logits) : j < l => logits[p[j]] >= logits[p[l]]
  IN  {[j \in 1..Len(logits) |-> logits[p[j]]] :
         p \in {q \in Bijection(1..Len(logits), 1..Len(logits)) : Sorts(q)}}

\* Mutant: the element behind the k first ones is the threshold.
ThresholdBehind(logits, topK) ==
  LET k == IF topK < Len(logits) THEN topK ELSE Len(logits)
  IN  {vals[IF k < Len(logits) THEN k + 1 ELSE k] : vals \in PartialSort(logits, k)}

\* vals[k - 1] after the partial sort.
Threshold(logits, topK) ==
  LET k == IF topK < Len(logits) THEN topK ELSE Len(logits)
  IN  {vals[k] : vals \in PartialSort(logits, k)}

\* What is not set to minus infinity: ties with the last of the k stay.
Kept(logits, threshold) == {t \in 0..(Len(logits) - 1) : logits[t + 1] >= threshold}

\* The draw of top_k_sample_ is [token, rounded].  The probabilities of several
\* tokens, rounded to float, may add up to less than the number drawn; the loop
\* then ends without an answer and the last token of the vocabulary is taken.
DrawFrom(kept, last) ==
  [token : kept, rounded : {FALSE}]
    \cup IF Cardinality(kept) > 1 THEN {[token |-> last, rounded |-> TRUE]} ELSE {}
TopKSample(logits, topK) ==
  UNION {DrawFrom(Kept(logits, threshold), Len(logits) - 1) : threshold \in Threshold(logits, topK)}

Draws(logits, topK) ==
  IF logits = <<>> THEN {[token |-> 0, rounded |-> FALSE]}
  ELSE IF topK > 0 THEN TopKSample(logits, topK)
  ELSE {[token |-> Greedy(logits), rounded |-> FALSE]}

=============================================================================
