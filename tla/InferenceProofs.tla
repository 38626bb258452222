--------------------------- MODULE InferenceProofs ---------------------------
(***************************************************************************)
(* Proofs about Inference, for every length of the prompt, every limit of   *)
(* tokens, every context length, vocabulary and sampler setting.            *)
(***************************************************************************)
EXTENDS Inference, DataLemmas

-----------------------------------------------------------------------------
\* The inductive invariant.

Predicting == {"predict", "compute", "logits"}
Generating == {"loop", "sample"} \cup Predicting
Completing == {"return", "done", "reported"}
LastEvent == log[Len(log)]

\* The batch is one token from the first token on; past_tokens stays at 0 for
\* longer than one iteration only when the prompt was empty.
BatchInv ==
  /\ pc \in {"new", "tokenize"} => i = 0 /\ past = 0
  /\ pc \in Generating => (i = 0 => past = 0) /\ (i > 0 => n = 1) /\ (past = 0 => i <= 1)
  /\ pc \in Predicting \cup {"sample"} => i < MaxTokens

\* Which event was the last one at each point of invoke().
LogInv ==
  /\ pc = "new" => log = <<>>
  /\ pc \in (Working \ {"new"}) \cup Completing => log # <<>>
  /\ pc = "tokenize" => LastEvent = Run!Event("tokenizer_started", 0)
  /\ pc = "loop" => LastEvent = IF i = 0 THEN Run!Event("tokenizer_completed", 0)
                                ELSE Run!Event("token", i - 1)
  /\ pc \in Predicting => LastEvent = IF past = 0 THEN Run!Event("prefill_started", 0)
                                      ELSE Run!Event("token", i - 1)
  /\ pc = "sample" => LastEvent = IF past = 0 THEN Run!Event("prefill_completed", 0)
                                  ELSE Run!Event("token", i - 1)
  /\ pc \in Completing => LastEvent = Run!Event("eos", i) \/ LastEvent = Run!Event("max_ctx_reached", 0)
  /\ pc \in Working \cup Completing => Run!Tokens = i

\* A run has no completion event before the last event, and the promise is
\* settled when it is over.
OutcomeInv ==
  /\ pc \in Working \ {"return"} => Completions = {}
  /\ Completions \subseteq {Len(log)}
  /\ pc \in Completing => Completions = {Len(log)}
  /\ promise = "value" <=> pc \in {"done", "reported"}
  /\ promise = "error" <=> pc = "threw"

\* The graph fits the batch it was built for, whether or not it is ready for
\* another one.
GraphInv ==
  /\ graphReady => graphN = cachedN
  /\ GraphFitsBatch

\* The positions computed so far are those of the past, and of the batch once
\* it is computed.
FilledInv ==
  ~degraded =>
    /\ pc \in {"new", "tokenize", "loop", "predict", "compute"} => filled = 0..(past - 1)
    /\ pc \in {"logits", "sample"} => filled = 0..(past + n - 1)

\* What the collector has of the events so far.
Counts == [fresh : BOOLEAN, num : Nat]
Collectors ==
  [prefill_start : Nat, prefill_end : Nat, first_token : Nat, tokenizer_start : Nat,
   completed : Nat, inp_tokens : Counts, out_tokens : Counts]
Prefilled == 0 < metrics.prefill_start /\ metrics.prefill_start < metrics.prefill_end
MetricsInv ==
  /\ metrics \in Collectors
  /\ metrics.prefill_start \in 0..Len(log) /\ metrics.prefill_end \in 0..Len(log)
  /\ metrics.first_token \in 0..Len(log) /\ metrics.tokenizer_start \in 0..Len(log)
  /\ metrics.completed \in 0..Len(log)
  /\ pc \in (Generating \cup {"return", "done"}) =>
       0 < metrics.tokenizer_start /\ metrics.inp_tokens.fresh
  /\ pc \in (Generating \cup {"return", "done"}) /\ i > 0 =>
       metrics.tokenizer_start < metrics.first_token
  /\ pc \in Predicting => 0 < metrics.prefill_start
  /\ pc \in Predicting /\ past > 0 => Prefilled
  /\ pc = "sample" => Prefilled
  /\ pc \in {"loop", "return", "done"} /\ i > 0 => Prefilled
  /\ pc \in {"return", "done"} =>
       /\ metrics.completed = Len(log)
       /\ metrics.prefill_end < Len(log) /\ metrics.tokenizer_start < Len(log)
       /\ metrics.out_tokens.fresh
       /\ LastEvent.kind = "eos" => metrics.out_tokens.num = i

IInv == TypeOK /\ BatchInv /\ LogInv /\ OutcomeInv /\ GraphInv /\ FilledInv /\ MetricsInv

-----------------------------------------------------------------------------
\* What one more event does to the log.

TokensOf(s) == {j \in 1..Len(s) : s[j].kind = "token"}
CompletionsOf(s) == {j \in 1..Len(s) : s[j].kind \in {"eos", "max_ctx_reached"}}

\* The event goes to the end; what was there stays.
LEMMA AppendEvent ==
  ASSUME NEW S, NEW s \in Seq(S), NEW e \in S
  PROVE  /\ Append(s, e) \in Seq(S)
         /\ Append(s, e) # <<>>
         /\ Len(s) \in Nat
         /\ Len(Append(s, e)) = Len(s) + 1
         /\ Append(s, e)[Len(s) + 1] = e
         /\ \A j \in 1..Len(s) : Append(s, e)[j] = s[j]
OBVIOUS

\* A token is counted once, any other event not at all.
LEMMA AppendTokens ==
  ASSUME NEW S, NEW s \in Seq(S), NEW e \in S
  PROVE  /\ Cardinality(TokensOf(s)) \in Nat
         /\ e.kind = "token" => Cardinality(TokensOf(Append(s, e))) = Cardinality(TokensOf(s)) + 1
         /\ e.kind # "token" => Cardinality(TokensOf(Append(s, e))) = Cardinality(TokensOf(s))
<1> DEFINE a == Append(s, e)
           m == Len(s)
           P == TokensOf(s)
<1>1. m \in Nat /\ Len(a) = m + 1 /\ a[m + 1] = e /\ \A j \in 1..m : a[j] = s[j]
  BY AppendEvent
<1>2. P \subseteq 1..m
  BY DEF TokensOf
<1> HIDE DEF a, m
<1>3. IsFiniteSet(P) /\ m + 1 \notin P
  <2>1. IsFiniteSet(1..m)
    BY <1>1, FS_Interval
  <2> HIDE DEF P
  <2>2. IsFiniteSet(P)
    BY <1>2, <2>1, FS_Subset
  <2> QED BY <1>1, <1>2, <2>2
<1>4. Cardinality(P) \in Nat
  BY <1>3, FS_CardinalityType
<1>5. ASSUME e.kind = "token" PROVE TokensOf(a) = P \cup {m + 1}
  BY <1>1, <1>5 DEF TokensOf, m
<1>6. ASSUME e.kind # "token" PROVE TokensOf(a) = P
  BY <1>1, <1>6 DEF TokensOf, m
<1> HIDE DEF P
<1>7. Cardinality(P \cup {m + 1}) = Cardinality(P) + 1
  BY <1>3, FS_AddElement
<1> QED BY <1>4, <1>5, <1>6, <1>7 DEF P, a

\* A completion is added as the last one, any other event leaves them.
LEMMA AppendCompletions ==
  ASSUME NEW S, NEW s \in Seq(S), NEW e \in S
  PROVE  CompletionsOf(Append(s, e)) =
           CompletionsOf(s) \cup IF e.kind \in {"eos", "max_ctx_reached"} THEN {Len(s) + 1} ELSE {}
<1> DEFINE a == Append(s, e)
           m == Len(s)
<1>1. m \in Nat /\ Len(a) = m + 1 /\ a[m + 1] = e /\ \A j \in 1..m : a[j] = s[j]
  BY AppendEvent
<1> HIDE DEF a, m
<1> QED BY <1>1 DEF CompletionsOf, m, a

\* RunProtocol counts with the Cardinality of its own instance.
LEMMA SameCardinality == \A S : Run!Cardinality(S) = Cardinality(S)
BY DEF Run!Cardinality, Cardinality

\* A new time and a new count are what a collector may hold.
LEMMA CollectorUpdate ==
  ASSUME NEW c \in Collectors, NEW t \in Nat, NEW k \in Counts
  PROVE  /\ [c EXCEPT !.tokenizer_start = t, !.inp_tokens = k] \in Collectors
         /\ [c EXCEPT !.completed = t, !.out_tokens = k] \in Collectors
BY DEF Collectors

-----------------------------------------------------------------------------
\* What the sampler answers.

\* A row of logits has a first greatest element, which max_element finds.
LEMMA GreedyIsToken ==
  ASSUME NEW s \in Seq(Nat), s # <<>>
  PROVE  /\ Greedy(s) \in 0..(Len(s) - 1)
         /\ \A u \in 0..(Len(s) - 1) : s[u + 1] <= s[Greedy(s) + 1]
<1> DEFINE Best(k, t) == /\ t \in 0..(k - 1)
                         /\ \A u \in 0..(k - 1) : s[u + 1] <= s[t + 1]
                         /\ \A u \in 0..(t - 1) : s[u + 1] < s[t + 1]
           T == {k \in Nat : k + 1 <= Len(s) => \E t : Best(k + 1, t)}
<1>1. Len(s) \in Nat /\ Len(s) > 0 /\ \A j \in 1..Len(s) : s[j] \in Nat
  OBVIOUS
<1>2. 0 \in T
  <2>1. 0..(1 - 1) = {0} /\ 0..(0 - 1) = {} /\ 1 \in 1..Len(s)
    BY <1>1
  <2>2. Best(1, 0)
    BY <1>1, <2>1
  <2>3. 0 + 1 = 1
    OBVIOUS
  <2> HIDE DEF Best
  <2> QED BY <2>2, <2>3
<1>3. ASSUME NEW k \in Nat, k \in T PROVE k + 1 \in T
  <2> SUFFICES ASSUME (k + 1) + 1 <= Len(s) PROVE \E t : Best((k + 1) + 1, t)
    OBVIOUS
  <2>1. PICK t : Best(k + 1, t)
    BY <1>1, <1>3
  <2>2. t \in Nat /\ t <= k
    BY <2>1
  <2>3. CASE s[k + 2] <= s[t + 1]
    <3>1. \A u \in 0..(k + 1) : s[u + 1] <= s[t + 1]
      <4> SUFFICES ASSUME NEW u \in 0..(k + 1) PROVE s[u + 1] <= s[t + 1]
        OBVIOUS
      <4>1. CASE u = k + 1
        BY <2>3, <4>1
      <4>2. CASE u \in 0..k
        BY <2>1, <4>2
      <4> QED BY <4>1, <4>2
    <3>2. Best((k + 1) + 1, t)
      BY <2>1, <2>2, <3>1
    <3> QED BY <3>2
  <2>4. CASE ~(s[k + 2] <= s[t + 1])
    <3>1. s[k + 2] \in Nat /\ s[t + 1] \in Nat
      BY <1>1, <2>2
    <3>2. \A u \in 0..k : s[u + 1] < s[k + 2]
      <4> SUFFICES ASSUME NEW u \in 0..k PROVE s[u + 1] < s[k + 2]
        OBVIOUS
      <4>1. s[u + 1] \in Nat
        BY <1>1
      <4>2. s[u + 1] <= s[t + 1]
        BY <2>1
      <4> QED BY <2>4, <3>1, <4>1, <4>2
    <3>3. (k + 1) + 1 = k + 2 /\ ((k + 1) + 1) - 1 = k + 1 /\ (k + 1) - 1 = k
      OBVIOUS
    <3>4. \A u \in 0..(k + 1) : s[u + 1] <= s[(k + 1) + 1]
      <4> SUFFICES ASSUME NEW u \in 0..(k + 1) PROVE s[u + 1] <= s[k + 2]
        BY <3>3
      <4>1. CASE u = k + 1
        BY <3>1, <3>3, <4>1
      <4>2. CASE u \in 0..k
        <5>1. s[u + 1] \in Nat
          BY <1>1, <4>2
        <5> QED BY <3>1, <3>2, <4>2, <5>1
      <4> QED BY <4>1, <4>2
    <3>5. Best((k + 1) + 1, k + 1)
      BY <3>2, <3>3, <3>4
    <3> QED BY <3>5
  <2> QED BY <2>3, <2>4
<1>4. Len(s) - 1 \in T
  <2> HIDE DEF T
  <2>1. Nat \subseteq T
    BY <1>2, <1>3, NatSetInduction
  <2>2. Len(s) - 1 \in Nat
    BY <1>1
  <2> QED BY <2>1, <2>2
<1>5. \E t : Best(Len(s), t)
  <2>1. (Len(s) - 1) + 1 = Len(s) /\ Len(s) - 1 \in Nat
    BY <1>1
  <2> HIDE DEF Best
  <2>2. (Len(s) - 1) + 1 <= Len(s) => \E t : Best((Len(s) - 1) + 1, t)
    BY <1>4
  <2> QED BY <1>1, <2>1, <2>2
<1>6. \E t \in 0..(Len(s) - 1) :
        /\ \A u \in 0..(Len(s) - 1) : s[u + 1] <= s[t + 1]
        /\ \A u \in 0..(t - 1) : s[u + 1] < s[t + 1]
  BY <1>5
<1> QED BY <1>6 DEF Greedy

\* Every draw is a token.
LEMMA DrawsType ==
  ASSUME NEW s \in Seq(Nat), NEW topK \in Nat
  PROVE  Draws(s, topK) \subseteq [token : Nat, rounded : BOOLEAN]
<1>1. CASE s = <<>>
  <2>1. Draws(s, topK) = {[token |-> 0, rounded |-> FALSE]}
    BY <1>1 DEF Draws
  <2>2. [token |-> 0, rounded |-> FALSE] \in [token : Nat, rounded : BOOLEAN]
    OBVIOUS
  <2> QED BY <2>1, <2>2
<1>2. CASE s # <<>> /\ topK > 0
  <2>1. Len(s) \in Nat /\ Len(s) > 0
    BY <1>2
  <2>2. Len(s) - 1 \in Nat
    BY <2>1
  <2>3. ASSUME NEW d \in TopKSample(s, topK) PROVE d \in [token : Nat, rounded : BOOLEAN]
    <3>1. PICK threshold : d \in DrawFrom(Kept(s, threshold), Len(s) - 1)
      BY <2>3 DEF TopKSample
    <3>2. \/ d \in [token : Kept(s, threshold), rounded : {FALSE}]
          \/ d = [token |-> Len(s) - 1, rounded |-> TRUE]
      BY <3>1 DEF DrawFrom
    <3>3. Kept(s, threshold) \subseteq Nat
      BY <2>1 DEF Kept
    <3>4. CASE d \in [token : Kept(s, threshold), rounded : {FALSE}]
      BY <3>3, <3>4
    <3>5. CASE d = [token |-> Len(s) - 1, rounded |-> TRUE]
      BY <2>2, <3>5
    <3> QED BY <3>2, <3>4, <3>5
  <2> QED BY <1>2, <2>3 DEF Draws
<1>3. CASE s # <<>> /\ ~(topK > 0)
  <2>1. Greedy(s) \in Nat
    BY <1>3, GreedyIsToken
  <2> QED BY <1>3, <2>1 DEF Draws
<1> QED BY <1>1, <1>2, <1>3

\* Fewer than k tokens have a greater logit than the last of the k that the
\* partial sort has put in front.
LEMMA BeforeThreshold ==
  ASSUME NEW s \in Seq(Nat), NEW k \in 1..Len(s), NEW vals \in PartialSort(s, k),
         NEW token \in 0..(Len(s) - 1), s[token + 1] >= vals[k]
  PROVE  Cardinality(Better(s, token)) < k
<1> DEFINE N == 1..Len(s)
<1>1. Len(s) \in Nat /\ k \in N /\ \A j \in N : s[j] \in Nat
  OBVIOUS
<1>2. PICK p \in Bijection(N, N) :
        /\ vals = [j \in N |-> s[p[j]]]
        /\ \A j \in 1..k, l \in N : j < l => s[p[j]] >= s[p[l]]
  BY DEF PartialSort
<1>3. p \in [N -> N] /\ \A u \in N : \E j \in N : p[j] = u
  BY <1>2 DEF Bijection, Surjection
<1> DEFINE Front == 1..(k - 1)
           Seen == {p[j] - 1 : j \in Front}
<1>4. Better(s, token) \subseteq Seen
  <2> SUFFICES ASSUME NEW t \in 0..(Len(s) - 1), s[t + 1] > s[token + 1]
               PROVE  \E j \in Front : t = p[j] - 1
    BY DEF Better
  <2>1. PICK j \in N : p[j] = t + 1
    BY <1>1, <1>3
  <2>2. vals[k] = s[p[k]] /\ p[k] \in N /\ s[p[k]] \in Nat
    BY <1>1, <1>2, <1>3
  <2>3. s[t + 1] \in Nat /\ s[token + 1] \in Nat
    BY <1>1
  <2>4. s[p[j]] \in Nat /\ s[p[j]] > s[p[k]]
    <3>1. s[p[j]] = s[t + 1] /\ s[token + 1] >= s[p[k]]
      BY <2>1, <2>2
    <3> HIDE DEF N
    <3> QED BY <2>2, <2>3, <3>1
  <2>5. j # k /\ ~(k < j)
    <3>1. k \in 1..k /\ j \in Int /\ k \in Int
      BY <1>1
    <3>2. k < j => s[p[k]] >= s[p[j]]
      BY <1>2, <3>1
    <3>3. ~(s[p[k]] >= s[p[j]])
      <4> HIDE DEF N
      <4> QED BY <2>2, <2>4
    <3>4. s[p[k]] >= s[p[k]]
      <4> HIDE DEF N
      <4> QED BY <2>2
    <3> QED BY <3>2, <3>3, <3>4
  <2>6. j \in Front /\ t = p[j] - 1
    BY <1>1, <2>1, <2>5
  <2> QED BY <2>6
<1>5. IsFiniteSet(Front) /\ Cardinality(Front) = k - 1
  <2>1. 1 \in Int /\ k - 1 \in Int /\ k >= 1
    BY <1>1
  <2>2. /\ IsFiniteSet(1..(k - 1))
        /\ Cardinality(1..(k - 1)) = IF 1 > k - 1 THEN 0 ELSE (k - 1) - 1 + 1
    BY <2>1, FS_Interval
  <2> QED BY <1>1, <2>1, <2>2
<1>6. IsFiniteSet(Seen) /\ Cardinality(Seen) <= Cardinality(Front)
  <2>1. [j \in Front |-> p[j] - 1] \in Surjection(Front, Seen)
    BY DEF Surjection
  <2> HIDE DEF Front, Seen
  <2> QED BY <1>5, <2>1, FS_Surjection DEF ExistsSurjection
<1>7. IsFiniteSet(Better(s, token)) /\ Cardinality(Better(s, token)) <= Cardinality(Seen)
  BY <1>4, <1>6, FS_Subset
<1>8. Cardinality(Better(s, token)) \in Nat /\ Cardinality(Seen) \in Nat
  BY <1>6, <1>7, FS_CardinalityType
<1> QED BY <1>1, <1>5, <1>6, <1>7, <1>8

\* A draw from a row of logits that was not lost to rounding is among the best.
LEMMA DrawAmongBest ==
  ASSUME NEW s \in Seq(Nat), s # <<>>, NEW topK \in Nat,
         NEW d \in Draws(s, topK), ~d.rounded
  PROVE  Cardinality(Better(s, d.token)) < (IF topK > 0 THEN topK ELSE 1)
<1>1. Len(s) \in Nat /\ Len(s) > 0 /\ \A j \in 1..Len(s) : s[j] \in Nat
  OBVIOUS
<1>2. CASE topK > 0
  <2> DEFINE k == IF topK < Len(s) THEN topK ELSE Len(s)
  <2>1. k \in 1..Len(s) /\ k <= topK /\ k \in Nat
    BY <1>1, <1>2
  <2>2. PICK threshold \in Threshold(s, topK) : d \in DrawFrom(Kept(s, threshold), Len(s) - 1)
    BY <1>2 DEF Draws, TopKSample
  <2>3. PICK vals \in PartialSort(s, k) : threshold = vals[k]
    BY <2>2 DEF Threshold
  <2>4. d.token \in Kept(s, threshold)
    <3>1. \/ d \in [token : Kept(s, threshold), rounded : {FALSE}]
          \/ d = [token |-> Len(s) - 1, rounded |-> TRUE]
      BY <2>2 DEF DrawFrom
    <3>2. d # [token |-> Len(s) - 1, rounded |-> TRUE]
      OBVIOUS
    <3> QED BY <3>1, <3>2
  <2>5. d.token \in 0..(Len(s) - 1) /\ s[d.token + 1] >= vals[k]
    BY <2>3, <2>4 DEF Kept
  <2> HIDE DEF k
  <2>6. Cardinality(Better(s, d.token)) < k
    BY <2>1, <2>3, <2>5, BeforeThreshold
  <2>7. Cardinality(Better(s, d.token)) \in Nat
    <3>1. IsFiniteSet(0..(Len(s) - 1))
      BY <1>1, FS_Interval
    <3> QED BY <3>1, FS_Subset, FS_CardinalityType DEF Better
  <2> QED BY <1>2, <2>1, <2>6, <2>7
<1>3. CASE ~(topK > 0)
  <2>1. d.token = Greedy(s)
    BY <1>3 DEF Draws
  <2>2. Better(s, d.token) = {}
    BY <1>1, <2>1, GreedyIsToken DEF Better
  <2> QED BY <1>3, <2>2, FS_EmptySet
<1> QED BY <1>2, <1>3

-----------------------------------------------------------------------------
\* Every step keeps the invariant, part by part.

EventRecords == [kind : Run!Kinds, num : 0..MaxTokens]

\* The log has one event more, which the collector has seen.
Logged(kind, num, size) ==
  /\ log' \in Seq(EventRecords)
  /\ log' # <<>>
  /\ Len(log) \in Nat
  /\ Len(log') = Len(log) + 1
  /\ LastEvent' = Run!Event(kind, num)
  /\ Run!Tokens \in Nat
  /\ kind = "token" => Run!Tokens' = Run!Tokens + 1
  /\ kind # "token" => Run!Tokens' = Run!Tokens
  /\ Completions' = Completions \cup
       IF kind \in {"eos", "max_ctx_reached"} THEN {Len(log')} ELSE {}
  /\ metrics' = Collect(metrics, Run!Event(kind, num), Len(log'), size)

\* dispatch() adds one event to the log and hands it to the collector.
LEMMA DispatchEffect ==
  ASSUME TypeOK, NEW kind \in Run!Kinds, NEW num \in 0..MaxTokens, NEW size, Dispatch(kind, num, size)
  PROVE  Logged(kind, num, size)
<1> DEFINE e == Run!Event(kind, num)
<1>1. e \in EventRecords /\ e.kind = kind
  BY DEF Run!Event, EventRecords
<1>2. log \in Seq(EventRecords)
  BY DEF TypeOK, EventRecords
<1>3. log' = Append(log, e) /\ metrics' = Collect(metrics, e, Len(log'), size)
  BY DEF Dispatch
<1> HIDE DEF e, EventRecords
<1>4. /\ log' \in Seq(EventRecords)
      /\ log' # <<>>
      /\ Len(log) \in Nat
      /\ Len(log') = Len(log) + 1
      /\ log'[Len(log) + 1] = e
  BY <1>1, <1>2, <1>3, AppendEvent
<1>5. /\ Run!Tokens \in Nat
      /\ kind = "token" => Run!Tokens' = Run!Tokens + 1
      /\ kind # "token" => Run!Tokens' = Run!Tokens
  <2>1. Run!Tokens = Cardinality(TokensOf(log)) /\ Run!Tokens' = Cardinality(TokensOf(log'))
    <3>1. Run!Tokens = Cardinality(TokensOf(log))
      BY SameCardinality DEF Run!Tokens, TokensOf
    <3>2. Run!Tokens' = Cardinality(TokensOf(log'))
      BY SameCardinality DEF Run!Tokens, TokensOf
    <3> QED BY <3>1, <3>2
  <2>2. /\ Cardinality(TokensOf(log)) \in Nat
        /\ e.kind = "token" =>
             Cardinality(TokensOf(Append(log, e))) = Cardinality(TokensOf(log)) + 1
        /\ e.kind # "token" => Cardinality(TokensOf(Append(log, e))) = Cardinality(TokensOf(log))
    BY <1>1, <1>2, AppendTokens
  <2> QED BY <1>1, <1>3, <2>1, <2>2
<1>6. Completions' = Completions \cup
        IF kind \in {"eos", "max_ctx_reached"} THEN {Len(log')} ELSE {}
  <2>1. Completions = CompletionsOf(log) /\ Completions' = CompletionsOf(log')
    BY DEF Completions, CompletionsOf
  <2>2. CompletionsOf(Append(log, e)) =
          CompletionsOf(log) \cup IF e.kind \in {"eos", "max_ctx_reached"} THEN {Len(log) + 1} ELSE {}
    BY <1>1, <1>2, AppendCompletions
  <2> QED BY <1>1, <1>3, <1>4, <2>1, <2>2
<1> QED BY <1>3, <1>4, <1>5, <1>6 DEF Logged, LastEvent, e

\* The two ends of the loop body: a stop token leaves the loop.
LEMMA SampleCases ==
  ASSUME Sample
  PROVE  \/ Dispatch("eos", i, 0) /\ pc' = "return" /\ i' = i
         \/ Dispatch("token", i, 0) /\ pc' = "loop" /\ i' = i + 1
<1>1. CASE IsStopToken(drawn'.token)
  BY <1>1 DEF Sample, AfterStopToken
<1>2. CASE ~IsStopToken(drawn'.token)
  BY <1>2 DEF Sample, SeqId
<1> QED BY <1>1, <1>2

\* Every step keeps the types of the state.
LEMMA TypeStep == ASSUME IInv, [Next]_vars PROVE TypeOK'
<1> USE InferenceAssumption DEF Run!Kinds
<1>0. TypeOK /\ BatchInv /\ DOMAIN metrics = DOMAIN BeforeRun
  BY DEF IInv, TypeOK
<1> DEFINE Domain == DOMAIN BeforeRun
<1>d. \A kind, num, t, size :
        kind \in Run!Kinds =>
        DOMAIN Collect(metrics, Run!Event(kind, num), t, size) = DOMAIN metrics
  BY DEF Collect, Run!Event, IsFirstToken
<1>1. CASE Construct
  <2>1. Dispatch("tokenizer_started", 0, 0)
    BY <1>1 DEF Construct
  <2>2. log' \in Seq(EventRecords) /\ DOMAIN metrics' = DOMAIN BeforeRun
    <3>1. Logged("tokenizer_started", 0, 0)
      BY <1>0, <2>1, DispatchEffect
    <3> QED BY <1>0, <1>d, <3>1 DEF Logged
  <2> QED BY <1>0, <1>1, <2>2 DEF Construct, TypeOK, EventRecords, Working, samplerVars,
             graphVars, batchVars
<1>2. CASE Tokenize
  <2>1. Dispatch("tokenizer_completed", 0, n')
    BY <1>2 DEF Tokenize
  <2>2. log' \in Seq(EventRecords) /\ DOMAIN metrics' = DOMAIN BeforeRun
    <3>1. Logged("tokenizer_completed", 0, n')
      BY <1>0, <2>1, DispatchEffect
    <3> QED BY <1>0, <1>d, <3>1 DEF Logged
  <2> QED BY <1>0, <1>2, <2>2 DEF Tokenize, PromptTokens, TypeOK, EventRecords, Working,
             samplerVars, graphVars
<1>3. CASE Iterate
  <2>1. log' \in Seq(EventRecords) /\ DOMAIN metrics' = DOMAIN BeforeRun
    <3>1. CASE past = 0
      <4>1. Dispatch("prefill_started", 0, n)
        BY <1>3, <3>1 DEF Iterate
      <4>2. Logged("prefill_started", 0, n)
        BY <1>0, <4>1, DispatchEffect
      <4> QED BY <1>0, <1>d, <4>2 DEF Logged
    <3>2. CASE past # 0
      BY <1>0, <1>3, <3>2 DEF Iterate, eventVars, TypeOK, EventRecords
    <3> QED BY <3>1, <3>2
  <2> QED BY <1>0, <1>3, <2>1 DEF Iterate, TypeOK, EventRecords, Working, samplerVars,
             graphVars, batchVars
<1>4. CASE Predict
  BY <1>0, <1>4 DEF Predict, TypeOK, Working, samplerVars, graphVars, batchVars, eventVars
<1>5. CASE Compute
  <2>1. filled' \in SUBSET Nat
    <3>1. filled \in SUBSET Nat /\ past \in Nat /\ n \in Nat
      BY <1>0 DEF TypeOK
    <3>2. \A q \in 0..(n - 1) : Position(q) \in Nat
      BY <3>1 DEF Position
    <3>3. {Position(q) : q \in 0..(n - 1)} \subseteq Nat
      BY <3>2
    <3>4. filled' = filled \/ filled' = filled \cup {Position(q) : q \in 0..(n - 1)}
      BY <1>5 DEF Compute
    <3> QED BY <3>1, <3>3, <3>4
  <2> QED BY <1>0, <1>5, <2>1 DEF Compute, OnComputeFailure, TypeOK, Working, Ended,
             graphVars, batchVars, eventVars
<1>6. CASE AfterPredict
  <2>1. log' \in Seq(EventRecords) /\ DOMAIN metrics' = DOMAIN BeforeRun
    <3>1. CASE past = 0
      <4>1. Dispatch("prefill_completed", 0, n)
        BY <1>6, <3>1 DEF AfterPredict
      <4>2. Logged("prefill_completed", 0, n)
        BY <1>0, <4>1, DispatchEffect
      <4> QED BY <1>0, <1>d, <4>2 DEF Logged
    <3>2. CASE past # 0
      BY <1>0, <1>6, <3>2 DEF AfterPredict, eventVars, TypeOK, EventRecords
    <3> QED BY <3>1, <3>2
  <2> QED BY <1>0, <1>6, <2>1 DEF AfterPredict, TypeOK, EventRecords, Working, samplerVars,
             graphVars, batchVars
<1>7. CASE Sample
  <2>1. drawn' \in [token : Nat, rounded : BOOLEAN]
    <3>1. logits \in Seq(Nat) /\ params.topK \in Nat
      <4>1. logits \in Rows \cup {<<>>} /\ params \in [topK : TopKs, stops : StopSets]
        BY <1>0 DEF TypeOK
      <4>2. <<>> \in Seq(Nat) /\ Rows \subseteq Seq(Nat) /\ TopKs \subseteq Nat
        BY DEF InferenceAssumption
      <4>3. params.topK \in TopKs
        BY <4>1
      <4> QED BY <4>1, <4>2, <4>3, Zenon
    <3>2. Draws(logits, params.topK) \subseteq [token : Nat, rounded : BOOLEAN]
      BY <3>1, DrawsType
    <3> QED BY <1>7, <3>2 DEF Sample, Draw
  <2>2. n' = 1 /\ logits' = <<>> /\ params' = params /\ past' = past + n
        /\ UNCHANGED <<graphVars, promise, filled>>
    BY <1>7 DEF Sample, Draw, NextPast
  <2>3. i \in 0..MaxTokens /\ i < MaxTokens
    BY <1>0, <1>7 DEF Sample, BatchInv, TypeOK, Predicting
  <2>4. /\ log' \in Seq(EventRecords) /\ DOMAIN metrics' = DOMAIN BeforeRun
        /\ i' \in 0..MaxTokens
        /\ pc' \in {"return", "loop"}
    <3>1. CASE Dispatch("eos", i, 0) /\ pc' = "return" /\ i' = i
      <4>1. Logged("eos", i, 0)
        BY <1>0, <2>3, <3>1, DispatchEffect
      <4> QED BY <1>0, <1>d, <2>3, <3>1, <4>1 DEF Logged
    <3>2. CASE Dispatch("token", i, 0) /\ pc' = "loop" /\ i' = i + 1
      <4>1. Logged("token", i, 0)
        BY <1>0, <2>3, <3>2, DispatchEffect
      <4> QED BY <1>0, <1>d, <2>3, <3>2, <4>1 DEF Logged
    <3> QED BY <1>7, <3>1, <3>2, SampleCases
  <2> QED BY <1>0, <2>1, <2>2, <2>4 DEF TypeOK, EventRecords, Working, graphVars
<1>8. CASE LoopEnd
  <2>1. Dispatch("max_ctx_reached", 0, 0)
    BY <1>8 DEF LoopEnd
  <2>2. log' \in Seq(EventRecords) /\ DOMAIN metrics' = DOMAIN BeforeRun
    <3>1. Logged("max_ctx_reached", 0, 0)
      BY <1>0, <2>1, DispatchEffect
    <3> QED BY <1>0, <1>d, <3>1 DEF Logged
  <2> QED BY <1>0, <1>8, <2>2 DEF LoopEnd, TypeOK, EventRecords, Working, samplerVars,
             graphVars, batchVars
<1>9. CASE Return \/ Throw
  BY <1>0, <1>9 DEF Return, Throw, TypeOK, Working, Ended, samplerVars, graphVars, batchVars,
     eventVars
<1>10. CASE Report
  BY <1>0, <1>10 DEF Report, Reset, TypeOK, Working, Ended, samplerVars, graphVars, batchVars
<1>11. CASE UNCHANGED vars
  BY <1>0, <1>11 DEF vars, TypeOK, samplerVars, graphVars, batchVars, eventVars
<1> QED BY <1>1, <1>2, <1>3, <1>4, <1>5, <1>6, <1>7, <1>8, <1>9, <1>10, <1>11 DEF Next

\* Every step keeps what is known of the batch, the graph and the positions.
LEMMA BatchStep == ASSUME IInv, [Next]_vars PROVE BatchInv' /\ GraphInv' /\ FilledInv'
<1> USE InferenceAssumption
<1>0. TypeOK /\ BatchInv /\ GraphInv /\ FilledInv
  BY DEF IInv
<1> USE DEF BatchInv, GraphInv, GraphFitsBatch, FilledInv, Generating, Predicting
<1>1. CASE Construct
  BY <1>0, <1>1 DEF Construct, graphVars, batchVars
<1>2. CASE Tokenize
  BY <1>0, <1>2 DEF Tokenize, graphVars
<1>3. CASE Iterate
  BY <1>0, <1>3 DEF Iterate, MoreToGenerate, graphVars, batchVars
<1>4. CASE Predict
  BY <1>0, <1>4 DEF Predict, GraphUsable, graphVars, batchVars
<1>5. CASE Compute
  <2>1. pc = "compute" /\ UNCHANGED <<n, past, i, graphReady, cachedN, graphN, degraded>>
    BY <1>5 DEF Compute, graphVars, batchVars
  <2>2. CASE filled' = filled \cup {Position(q) : q \in 0..(n - 1)} /\ pc' = "logits"
    <3>1. ASSUME ~degraded PROVE filled' = 0..(past + n - 1)
      <4>1. n \in Nat /\ past \in Nat /\ filled = 0..(past - 1)
        BY <1>0, <2>1, <3>1 DEF TypeOK
      <4>2. {past + q : q \in 0..(n - 1)} = past..(past + n - 1)
        <5>1. ASSUME NEW x \in past..(past + n - 1) PROVE x \in {past + q : q \in 0..(n - 1)}
          <6>1. x - past \in 0..(n - 1) /\ x = past + (x - past)
            BY <4>1
          <6> QED BY <6>1
        <5>2. \A q \in 0..(n - 1) : past + q \in past..(past + n - 1)
          BY <4>1
        <5> QED BY <5>1, <5>2
      <4>3. 0..(past + n - 1) = (0..(past - 1)) \cup (past..(past + n - 1))
        BY <4>1
      <4> QED BY <2>2, <4>1, <4>2, <4>3 DEF Position
    <3> QED BY <1>0, <2>1, <2>2, <3>1
  <2>3. CASE pc' = "crashed"
    BY <1>0, <2>1, <2>3
  <2> QED BY <1>5, <2>2, <2>3 DEF Compute, OnComputeFailure
<1>6. CASE AfterPredict
  BY <1>0, <1>6 DEF AfterPredict, graphVars, batchVars
<1>7. CASE Sample
  <2>1. pc = "sample" /\ n' = 1 /\ past' = past + n /\ UNCHANGED <<graphVars, filled>>
    BY <1>7 DEF Sample, Draw, NextPast
  <2>2. (pc' = "return" /\ i' = i) \/ (pc' = "loop" /\ i' = i + 1)
    BY <1>7, SampleCases
  <2>3. i \in Nat /\ n \in Nat /\ past \in Nat
    BY <1>0 DEF TypeOK
  <2> QED BY <1>0, <2>1, <2>2, <2>3 DEF graphVars
<1>8. CASE LoopEnd \/ Return \/ Throw
  BY <1>0, <1>8 DEF LoopEnd, Return, Throw, graphVars, batchVars
<1>9. CASE Report
  BY <1>0, <1>9 DEF Report, graphVars, batchVars
<1>10. CASE UNCHANGED vars
  BY <1>0, <1>10 DEF vars, graphVars, batchVars
<1> QED BY <1>1, <1>2, <1>3, <1>4, <1>5, <1>6, <1>7, <1>8, <1>9, <1>10 DEF Next

\* A step without an event leaves all that is read from the log.
LEMMA SameLog ==
  ASSUME UNCHANGED log
  PROVE  /\ LastEvent' = LastEvent
         /\ Run!Tokens' = Run!Tokens
         /\ Completions' = Completions
         /\ Len(log') = Len(log)
BY DEF LastEvent, Run!Tokens, Completions

\* Every step keeps what is known of the events.
LEMMA LogStep == ASSUME IInv, [Next]_vars PROVE LogInv' /\ OutcomeInv'
<1> USE InferenceAssumption
<1>0. TypeOK /\ BatchInv /\ LogInv /\ OutcomeInv
  BY DEF IInv
<1>i. i \in Nat /\ past \in Nat /\ MaxTokens \in Nat /\ i <= MaxTokens
  BY <1>0 DEF TypeOK
<1> USE DEF LogInv, OutcomeInv, Generating, Predicting, Completing, Working
<1>1. CASE Construct
  <2>1. Logged("tokenizer_started", 0, 0)
    BY <1>0, <1>1, DispatchEffect DEF Construct, Run!Kinds
  <2>2. pc = "new" /\ pc' = "tokenize" /\ UNCHANGED <<i, past, promise>>
    BY <1>1 DEF Construct, batchVars
  <2> QED BY <1>0, <1>i, <2>1, <2>2 DEF Logged
<1>2. CASE Tokenize
  <2>1. Logged("tokenizer_completed", 0, n')
    BY <1>0, <1>2, DispatchEffect DEF Tokenize, Run!Kinds
  <2>2. pc = "tokenize" /\ pc' = "loop" /\ i = 0 /\ UNCHANGED <<i, past, promise>>
    BY <1>0, <1>2 DEF Tokenize, BatchInv
  <2> QED BY <1>0, <1>i, <2>1, <2>2 DEF Logged
<1>3. CASE Iterate
  <2>1. pc = "loop" /\ pc' = "predict" /\ UNCHANGED <<i, past, promise>>
    BY <1>3 DEF Iterate, batchVars
  <2>2. CASE past = 0
    <3>1. Logged("prefill_started", 0, n)
      BY <1>0, <1>3, <2>2, DispatchEffect DEF Iterate, Run!Kinds
    <3> QED BY <1>0, <1>i, <2>1, <2>2, <3>1 DEF Logged
  <2>3. CASE past # 0
    <3>1. UNCHANGED log
      BY <1>3, <2>3 DEF Iterate, eventVars
    <3>2. i # 0
      BY <1>0, <2>1, <2>3 DEF BatchInv
    <3> QED BY <1>0, <1>i, <2>1, <2>3, <3>1, <3>2, SameLog
  <2> QED BY <2>2, <2>3
<1>4. CASE Predict \/ Compute
  <2>1. /\ pc \in {"predict", "compute"} /\ pc' \in {"compute", "logits", "crashed"}
        /\ UNCHANGED <<i, past, promise, log>>
    BY <1>4 DEF Predict, Compute, OnComputeFailure, batchVars, eventVars
  <2> QED BY <1>0, <1>i, <2>1, SameLog
<1>5. CASE AfterPredict
  <2>1. pc = "logits" /\ pc' = "sample" /\ UNCHANGED <<i, past, promise>>
    BY <1>5 DEF AfterPredict, batchVars
  <2>2. CASE past = 0
    <3>1. Logged("prefill_completed", 0, n)
      BY <1>0, <1>5, <2>2, DispatchEffect DEF AfterPredict, Run!Kinds
    <3> QED BY <1>0, <1>i, <2>1, <2>2, <3>1 DEF Logged
  <2>3. CASE past # 0
    <3>1. UNCHANGED log
      BY <1>5, <2>3 DEF AfterPredict, eventVars
    <3> QED BY <1>0, <1>i, <2>1, <2>3, <3>1, SameLog
  <2> QED BY <2>2, <2>3
<1>6. CASE Sample
  <2>1. pc = "sample" /\ UNCHANGED promise
    BY <1>6 DEF Sample
  <2>2. CASE Dispatch("eos", i, 0) /\ pc' = "return" /\ i' = i
    <3>1. Logged("eos", i, 0)
      BY <1>0, <1>i, <2>2, DispatchEffect DEF Run!Kinds
    <3> QED BY <1>0, <1>i, <2>1, <2>2, <3>1 DEF Logged
  <2>3. CASE Dispatch("token", i, 0) /\ pc' = "loop" /\ i' = i + 1
    <3>1. Logged("token", i, 0)
      BY <1>0, <1>i, <2>3, DispatchEffect DEF Run!Kinds
    <3>2. i' # 0 /\ i' - 1 = i /\ i' \in Nat
      BY <1>i, <2>3
    <3> QED BY <1>0, <1>i, <2>1, <2>3, <3>1, <3>2 DEF Logged
  <2> QED BY <1>6, <2>2, <2>3, SampleCases
<1>7. CASE LoopEnd
  <2>1. Logged("max_ctx_reached", 0, 0)
    BY <1>0, <1>7, DispatchEffect DEF LoopEnd, Run!Kinds
  <2>2. pc = "loop" /\ pc' = "return" /\ UNCHANGED <<i, past, promise>>
    BY <1>7 DEF LoopEnd, batchVars
  <2> QED BY <1>0, <1>i, <2>1, <2>2 DEF Logged
<1>8. CASE Return
  <2>1. pc = "return" /\ pc' = "done" /\ promise' = "value" /\ UNCHANGED <<i, past, log>>
    BY <1>8 DEF Return, batchVars, eventVars
  <2> QED BY <1>0, <1>i, <2>1, SameLog
<1>9. CASE Throw
  <2>1. pc \in Working /\ pc' = "threw" /\ promise' = "error" /\ UNCHANGED <<i, past, log>>
    BY <1>9 DEF Throw, batchVars, eventVars
  <2> QED BY <1>0, <1>i, <2>1, SameLog
<1>10. CASE Report
  <2>1. pc = "done" /\ pc' = "reported" /\ UNCHANGED <<i, past, promise, log>>
    BY <1>10 DEF Report, batchVars
  <2> QED BY <1>0, <1>i, <2>1, SameLog
<1>11. CASE UNCHANGED vars
  <2>1. UNCHANGED <<pc, i, past, promise, log>>
    BY <1>11 DEF vars, batchVars, eventVars
  <2> QED BY <1>0, <2>1, SameLog
<1> QED BY <1>1, <1>2, <1>3, <1>4, <1>5, <1>6, <1>7, <1>8, <1>9, <1>10, <1>11 DEF Next

\* Every step keeps what is known of the collector.
LEMMA MetricsStep == ASSUME IInv, [Next]_vars PROVE MetricsInv'
<1> USE InferenceAssumption
<1>0. TypeOK /\ BatchInv /\ LogInv /\ MetricsInv
  BY DEF IInv
<1>i. i \in Nat /\ past \in Nat /\ n \in Nat /\ MaxTokens \in Nat
  BY <1>0 DEF TypeOK
<1>c. metrics \in Collectors
  BY <1>0 DEF MetricsInv
<1> USE DEF MetricsInv, Prefilled, Generating, Predicting
<1>1. CASE Construct
  <2>1. Logged("tokenizer_started", 0, 0)
    BY <1>0, <1>1, DispatchEffect DEF Construct, Run!Kinds
  <2>2. pc = "new" /\ pc' = "tokenize"
    BY <1>1 DEF Construct
  <2>3. metrics' = [metrics EXCEPT !.tokenizer_start = Len(log')]
    BY <2>1 DEF Logged, Collect, Run!Event, IsFirstToken
  <2>4. Len(log) \in Nat /\ Len(log') = Len(log) + 1
    BY <2>1 DEF Logged
  <2>5. metrics' \in Collectors
    BY <1>c, <2>3, <2>4 DEF Collectors
  <2> QED BY <1>0, <1>c, <2>2, <2>3, <2>4, <2>5 DEF Collectors
<1>2. CASE Tokenize
  <2>1. Logged("tokenizer_completed", 0, n')
    BY <1>0, <1>2, DispatchEffect DEF Tokenize, Run!Kinds
  <2>2. pc = "tokenize" /\ pc' = "loop" /\ i = 0 /\ i' = i 
    BY <1>0, <1>2 DEF Tokenize, BatchInv
  <2>9. n' \in Nat
    BY <1>2, InferenceAssumption DEF Tokenize, PromptTokens
  <2>3. metrics' = [metrics EXCEPT !.tokenizer_start = Len(log'), !.inp_tokens = Fresh(n')]
    BY <2>1 DEF Logged, Collect, Run!Event, IsFirstToken
  <2>4. Len(log) \in Nat /\ Len(log') = Len(log) + 1
    BY <2>1 DEF Logged
  <2>5. Fresh(n') \in Counts /\ Fresh(n').fresh
    BY <2>9 DEF Counts, Fresh
  <2>6. metrics' \in Collectors
    <3>1. Len(log') \in Nat
      BY <2>4
    <3> QED BY <1>c, <2>3, <2>5, <3>1, CollectorUpdate, Zenon
  <2>7. metrics'.inp_tokens = Fresh(n')
    BY <1>c, <2>3 DEF Collectors
  <2>8. metrics'.inp_tokens.fresh
    BY <2>5, <2>7, Zenon
  <2> QED BY <1>0, <1>c, <2>2, <2>3, <2>4, <2>6, <2>8 DEF Collectors
<1>3. CASE Iterate
  <2>1. pc = "loop" /\ pc' = "predict" /\ UNCHANGED <<i, past>>
    BY <1>3 DEF Iterate, batchVars
  <2>2. CASE past = 0
    <3>1. Logged("prefill_started", 0, n)
      BY <1>0, <1>3, <2>2, DispatchEffect DEF Iterate, Run!Kinds
    <3>2. metrics' = [metrics EXCEPT !.prefill_start = Len(log')]
      BY <3>1 DEF Logged, Collect, Run!Event, IsFirstToken
    <3>3. Len(log) \in Nat /\ Len(log') = Len(log) + 1
      BY <3>1 DEF Logged
    <3>4. metrics' \in Collectors
      BY <1>c, <3>2, <3>3 DEF Collectors
    <3>5. metrics'.inp_tokens = metrics.inp_tokens
      BY <1>c, <3>2 DEF Collectors
    <3>6. metrics'.inp_tokens.fresh
      BY <1>0, <2>1, <3>5, Zenon
    <3> QED BY <1>0, <1>c, <1>i, <2>1, <2>2, <3>2, <3>3, <3>4, <3>6 DEF Collectors
  <2>3. CASE past # 0
    <3>1. UNCHANGED <<log, metrics>>
      BY <1>3, <2>3 DEF Iterate, eventVars
    <3>2. i > 0
      BY <1>0, <1>i, <2>1, <2>3 DEF BatchInv
    <3> QED BY <1>0, <1>c, <1>i, <2>1, <2>3, <3>1, <3>2 DEF Collectors
  <2> QED BY <2>2, <2>3
<1>4. CASE Predict \/ Compute
  <2>1. /\ pc \in {"predict", "compute"} /\ pc' \in {"compute", "logits", "crashed"}
        /\ UNCHANGED <<i, past, log, metrics>>
    BY <1>4 DEF Predict, Compute, OnComputeFailure, batchVars, eventVars
  <2> QED BY <1>0, <1>i, <2>1
<1>5. CASE AfterPredict
  <2>1. pc = "logits" /\ pc' = "sample" /\ UNCHANGED <<i, past>>
    BY <1>5 DEF AfterPredict, batchVars
  <2>2. CASE past = 0
    <3>1. Logged("prefill_completed", 0, n)
      BY <1>0, <1>5, <2>2, DispatchEffect DEF AfterPredict, Run!Kinds
    <3>2. metrics' = [metrics EXCEPT !.prefill_end = Len(log')]
      BY <3>1 DEF Logged, Collect, Run!Event, IsFirstToken
    <3>3. Len(log) \in Nat /\ Len(log') = Len(log) + 1
      BY <3>1 DEF Logged
    <3>4. metrics' \in Collectors
      BY <1>c, <3>2, <3>3 DEF Collectors
    <3>5. metrics'.inp_tokens = metrics.inp_tokens
      BY <1>c, <3>2 DEF Collectors
    <3>6. metrics'.inp_tokens.fresh
      BY <1>0, <2>1, <3>5, Zenon
    <3> QED BY <1>0, <1>c, <1>i, <2>1, <2>2, <3>2, <3>3, <3>4, <3>6 DEF Collectors
  <2>3. CASE past # 0
    <3>1. UNCHANGED <<log, metrics>>
      BY <1>5, <2>3 DEF AfterPredict, eventVars
    <3> QED BY <1>0, <1>i, <2>1, <2>3, <3>1
  <2> QED BY <2>2, <2>3
<1>6. CASE Sample
  <2>1. pc = "sample"
    BY <1>6 DEF Sample
  <2>2. CASE Dispatch("eos", i, 0) /\ pc' = "return" /\ i' = i
    <3>1. Logged("eos", i, 0)
      BY <1>0, <2>2, DispatchEffect DEF Run!Kinds, TypeOK
    <3>2. metrics' = [metrics EXCEPT !.completed = Len(log'), !.out_tokens = Fresh(i)]
      BY <3>1 DEF Logged, Collect, Run!Event, IsFirstToken
    <3>3. Len(log) \in Nat /\ Len(log') = Len(log) + 1
      BY <3>1 DEF Logged
    <3>4. Fresh(i) \in Counts /\ Fresh(i).fresh /\ Fresh(i).num = i
      BY <1>i DEF Counts, Fresh
    <3>5. metrics' \in Collectors
      <4>1. Len(log') \in Nat
        BY <3>3
      <4> QED BY <1>c, <3>2, <3>4, <4>1, CollectorUpdate, Zenon
    <3>6. metrics'.inp_tokens = metrics.inp_tokens /\ metrics'.out_tokens = Fresh(i)
      BY <1>c, <3>2 DEF Collectors
    <3>7. metrics'.inp_tokens.fresh /\ metrics'.out_tokens.fresh /\ metrics'.out_tokens.num = i
      BY <1>0, <2>1, <3>4, <3>6, Zenon
    <3> QED BY <1>0, <1>c, <1>i, <2>1, <2>2, <3>2, <3>3, <3>5, <3>7 DEF Collectors
  <2>3. CASE Dispatch("token", i, 0) /\ pc' = "loop" /\ i' = i + 1
    <3>1. Logged("token", i, 0)
      BY <1>0, <2>3, DispatchEffect DEF Run!Kinds, TypeOK
    <3>2. metrics' = IF i = 0 THEN [metrics EXCEPT !.first_token = Len(log')] ELSE metrics
      BY <3>1 DEF Logged, Collect, Run!Event, IsFirstToken
    <3>3. Len(log) \in Nat /\ Len(log') = Len(log) + 1
      BY <3>1 DEF Logged
    <3>5. metrics' \in Collectors
      BY <1>c, <3>2, <3>3 DEF Collectors
    <3>6. metrics'.inp_tokens = metrics.inp_tokens
      BY <1>c, <3>2 DEF Collectors
    <3>7. metrics'.inp_tokens.fresh
      BY <1>0, <2>1, <3>6, Zenon
    <3> QED BY <1>0, <1>c, <1>i, <2>1, <2>3, <3>2, <3>3, <3>5, <3>7 DEF Collectors
  <2> QED BY <1>6, <2>2, <2>3, SampleCases
<1>7. CASE LoopEnd
  <2>1. Logged("max_ctx_reached", 0, 0)
    BY <1>0, <1>7, <1>i, DispatchEffect DEF LoopEnd, Run!Kinds
  <2>2. pc = "loop" /\ pc' = "return" /\ i' = i
    BY <1>7 DEF LoopEnd, batchVars
  <2>3. metrics' = [metrics EXCEPT !.completed = Len(log'), !.out_tokens = Fresh(0)]
    BY <2>1 DEF Logged, Collect, Run!Event, IsFirstToken
  <2>4. /\ Len(log) \in Nat /\ Len(log') = Len(log) + 1
        /\ LastEvent'.kind = "max_ctx_reached"
    BY <2>1 DEF Logged, Run!Event
  <2>5. Fresh(0) \in Counts /\ Fresh(0).fresh
    BY DEF Counts, Fresh
  <2>6. metrics' \in Collectors
    <3>1. Len(log') \in Nat
      BY <2>4
    <3> QED BY <1>c, <2>3, <2>5, <3>1, CollectorUpdate, Zenon
  <2>7. metrics'.inp_tokens = metrics.inp_tokens /\ metrics'.out_tokens = Fresh(0)
    BY <1>c, <2>3 DEF Collectors
  <2>8. metrics'.inp_tokens.fresh /\ metrics'.out_tokens.fresh
    BY <1>0, <2>2, <2>5, <2>7, Zenon
  <2> QED BY <1>0, <1>c, <1>i, <2>2, <2>3, <2>4, <2>6, <2>8 DEF Collectors
<1>8. CASE Return
  <2>1. pc = "return" /\ pc' = "done" /\ UNCHANGED <<i, past, log, metrics>>
    BY <1>8 DEF Return, batchVars, eventVars
  <2> QED BY <1>0, <1>i, <2>1, SameLog
<1>9. CASE Throw
  <2>1. pc' = "threw" /\ UNCHANGED <<log, metrics>>
    BY <1>9 DEF Throw, eventVars
  <2> QED BY <1>0, <2>1
<1>10. CASE Report
  <2>1. pc' = "reported" /\ UNCHANGED log
    BY <1>10 DEF Report
  <2>2. metrics' = [metrics EXCEPT !.prefill_start = 0, !.prefill_end = 0]
    BY <1>10 DEF Report, Reset
  <2>3. metrics' \in Collectors
    BY <1>c, <2>2 DEF Collectors
  <2>4. Len(log) \in Nat
    BY <1>0 DEF TypeOK
  <2> QED BY <1>0, <1>c, <2>1, <2>2, <2>3, <2>4 DEF Collectors
<1>11. CASE UNCHANGED vars
  <2>1. UNCHANGED <<pc, i, past, log, metrics>>
    BY <1>11 DEF vars, batchVars, eventVars
  <2> QED BY <1>0, <2>1, SameLog
<1> QED BY <1>1, <1>2, <1>3, <1>4, <1>5, <1>6, <1>7, <1>8, <1>9, <1>10, <1>11 DEF Next

\* The invariant holds when the worker takes the task.
LEMMA InitIInv == Init => IInv
<1> SUFFICES ASSUME Init PROVE IInv
  OBVIOUS
<1> USE InferenceAssumption DEF Init
<1>1. log = <<>> /\ Len(log) = 0 /\ Run!Tokens = 0 /\ Completions = {}
  <2>1. log = <<>> /\ Len(log) = 0 /\ 1..Len(log) = {}
    OBVIOUS
  <2>2. {j \in 1..Len(log) : log[j].kind = "token"} = {} /\ Completions = {}
    BY <2>1 DEF Completions
  <2>3. Cardinality({}) = 0
    BY FS_EmptySet
  <2>4. Run!Tokens = Cardinality({})
    BY <2>2, SameCardinality DEF Run!Tokens
  <2> QED BY <2>1, <2>2, <2>3, <2>4
<1>2. TypeOK
  <2>1. log \in Seq(EventRecords)
    BY <1>1
  <2>2. drawn \in [token : Nat, rounded : BOOLEAN] /\ i \in 0..MaxTokens
    OBVIOUS
  <2> QED BY <2>1, <2>2 DEF TypeOK, Working, EventRecords
<1>3. BatchInv /\ GraphInv /\ FilledInv
  BY DEF BatchInv, GraphInv, GraphFitsBatch, FilledInv, Generating, Predicting
<1>4. LogInv /\ OutcomeInv
  BY <1>1 DEF LogInv, OutcomeInv, Predicting, Completing, Working
<1>5. MetricsInv
  <2>1. Stale \in Counts
    BY DEF Stale, Counts
  <2>2. metrics \in Collectors
    BY <2>1 DEF BeforeRun, Collectors
  <2> QED BY <1>1, <2>2 DEF MetricsInv, BeforeRun, Generating, Predicting
<1> QED BY <1>2, <1>3, <1>4, <1>5 DEF IInv

\* The invariant of a run: what is known, at each point of invoke(), of the
\* batch, the graph, the positions computed, the last event, the promise and
\* the collector.
THEOREM Invariant == Spec => []IInv
<1>1. IInv /\ [Next]_vars => IInv'
  BY TypeStep, BatchStep, LogStep, MetricsStep DEF IInv
<1> QED BY <1>1, InitIInv, PTL DEF Spec

\* invoke() keeps the types of its state.
THEOREM TypeCorrect == Spec => []TypeOK
<1>1. IInv => TypeOK
  BY DEF IInv
<1> QED BY <1>1, Invariant, PTL

\* predict() never computes a graph that was built, or given memory, for a
\* batch of another size than the inputs.
THEOREM GraphCorrect == Spec => []GraphFitsBatch
<1>1. IInv => GraphFitsBatch
  BY DEF IInv, GraphInv
<1> QED BY <1>1, Invariant, PTL

\* The mask and the positions that set_inputs() writes let each query see
\* exactly what was computed before it, at positions not computed before.
THEOREM AttentionCorrect == Spec => []AttentionSeesPast
<1>1. ASSUME IInv PROVE AttentionSeesPast
  <2> SUFFICES ASSUME pc = "compute", ~degraded, past + n <= MaxContext,
                      NEW q \in 0..(n - 1)
               PROVE  /\ Position(q) \notin filled
                      /\ Mask(q) = filled \cup {Position(r) : r \in 0..q}
    BY DEF AttentionSeesPast
  <2>1. past \in Nat /\ n \in Nat /\ MaxContext \in Nat /\ q \in Nat /\ q < n
    BY <1>1, InferenceAssumption DEF IInv, TypeOK
  <2>2. filled = 0..(past - 1)
    BY <1>1 DEF IInv, FilledInv
  <2>3. Mask(q) = 0..(past + q)
    BY <2>1 DEF Mask, Position
  <2>4. {past + r : r \in 0..q} = past..(past + q)
    <3>1. ASSUME NEW x \in past..(past + q) PROVE x \in {past + r : r \in 0..q}
      <4>1. x - past \in 0..q /\ x = past + (x - past)
        BY <2>1
      <4> QED BY <4>1
    <3>2. \A r \in 0..q : past + r \in past..(past + q)
      BY <2>1
    <3> QED BY <3>1, <3>2
  <2>5. 0..(past + q) = (0..(past - 1)) \cup (past..(past + q))
    BY <2>1
  <2>6. Position(q) \notin filled
    BY <2>1, <2>2 DEF Position
  <2>7. {Position(r) : r \in 0..q} = past..(past + q)
    BY <2>4, Zenon DEF Position
  <2> QED BY <2>2, <2>3, <2>5, <2>6, <2>7, Zenon
<1> QED BY <1>1, Invariant, PTL

\* The promise of the task tells whether the run completed.
THEOREM OutcomeCorrect == Spec => []OutcomeMatchesEvents
<1>1. IInv => OutcomeMatchesEvents
  BY DEF IInv, OutcomeInv, OutcomeMatchesEvents, Completing
<1> QED BY <1>1, Invariant, PTL

\* What goes out is among the best: fewer than top_k tokens have a greater logit
\* than the one drawn, whatever the partial sort does with ties.
THEOREM TopKCorrect == Spec => TopKHonoured
<1> DEFINE Honoured ==
      pc = "sample" /\ pc' # "threw" /\ logits # <<>> /\ ~drawn'.rounded
        => Cardinality(Better(logits, drawn'.token)) < (IF params.topK > 0 THEN params.topK ELSE 1)
<1>1. ASSUME IInv, [Next]_vars PROVE [Honoured]_vars
  <2> SUFFICES ASSUME Next, pc = "sample", pc' # "threw", logits # <<>>, ~drawn'.rounded
               PROVE  Cardinality(Better(logits, drawn'.token))
                        < (IF params.topK > 0 THEN params.topK ELSE 1)
    BY <1>1
  <2>1. Sample
    BY DEF Next, Construct, Tokenize, Iterate, Predict, Compute, AfterPredict, LoopEnd, Return,
           Throw, Report
  <2>2. drawn' \in Draws(logits, params.topK)
    BY <2>1 DEF Sample, Draw
  <2>3. logits \in Seq(Nat) /\ params.topK \in Nat
    BY <1>1, InferenceAssumption DEF IInv, TypeOK
  <2> QED BY <2>2, <2>3, DrawAmongBest
<1> QED BY <1>1, Invariant, PTL DEF Spec, TopKHonoured

\* The figures of a run that answered are taken from that run's events only.
THEOREM FiguresCorrect == Spec => []FiguresOfThisRun
<1>1. ASSUME IInv PROVE FiguresOfThisRun
  <2> SUFFICES ASSUME pc = "done", Run!Tokens > 0
               PROVE  /\ \A f \in DOMAIN Figures(metrics) :
                           LET times == Figures(metrics)[f] IN 0 < times[1] /\ times[1] < times[2]
                      /\ metrics.inp_tokens.fresh /\ metrics.out_tokens.fresh
                      /\ log[Len(log)].kind = "eos" => metrics.out_tokens.num = Run!Tokens
    BY DEF FiguresOfThisRun
  <2>1. Run!Tokens = i /\ i > 0
    BY <1>1 DEF IInv, LogInv, Completing
  <2>2. MetricsInv
    BY <1>1 DEF IInv
  <2>3. metrics.inp_tokens.fresh /\ metrics.out_tokens.fresh
    BY <2>2, Zenon DEF MetricsInv
  <2>4. log[Len(log)].kind = "eos" => metrics.out_tokens.num = Run!Tokens
    BY <2>1, <2>2 DEF MetricsInv, LastEvent
  <2>5. /\ 0 < metrics.prefill_start /\ metrics.prefill_start < metrics.prefill_end
        /\ 0 < metrics.tokenizer_start /\ metrics.tokenizer_start < metrics.first_token
        /\ 0 < metrics.prefill_end /\ metrics.prefill_end < metrics.completed
        /\ metrics.tokenizer_start < metrics.completed
    BY <2>1, <2>2 DEF MetricsInv, Prefilled, Collectors
  <2>6. ASSUME NEW f \in DOMAIN Figures(metrics)
        PROVE  0 < Figures(metrics)[f][1] /\ Figures(metrics)[f][1] < Figures(metrics)[f][2]
    BY <2>5 DEF Figures
  <2> QED BY <2>3, <2>4, <2>6
<1> QED BY <1>1, Invariant, PTL

-----------------------------------------------------------------------------
\* The events keep the protocol that RunProtocol states.

\* An event that may follow the last one is a step of the protocol.
LEMMA EmitStep ==
  ASSUME TypeOK, NEW kind \in Run!Kinds, NEW num \in 0..MaxTokens, NEW size,
         Dispatch(kind, num, size), log # <<>>, Run!Follows(LastEvent, Run!Event(kind, num))
  PROVE  Run!Next
<1>1. Run!Emit(Run!Event(kind, num))
  BY DEF Dispatch, Run!Emit, LastEvent
<1> QED BY <1>1 DEF Run!Next

\* Every step of a run emits an event the protocol allows, or none.
LEMMA ProtocolStep == ASSUME IInv, [Next]_vars PROVE [Run!Next]_log
<1>0. TypeOK /\ BatchInv /\ LogInv
  BY DEF IInv
<1>i. i \in Nat /\ past \in Nat /\ MaxTokens \in Nat /\ i <= MaxTokens /\ i \in 0..MaxTokens
      /\ 0 \in 0..MaxTokens
  BY <1>0, InferenceAssumption DEF TypeOK
<1>k. {"tokenizer_started", "tokenizer_completed", "prefill_started", "prefill_completed",
       "token", "eos", "max_ctx_reached"} \subseteq Run!Kinds
  BY DEF Run!Kinds
<1> USE DEF Generating, Predicting, Completing, Working
<1>1. CASE Construct
  <2>1. log = <<>> /\ log' = Append(log, Run!Event("tokenizer_started", 0))
    BY <1>0, <1>1 DEF Construct, Dispatch, LogInv
  <2>2. Run!Emit(Run!Event("tokenizer_started", 0))
    BY <2>1 DEF Run!Emit
  <2> QED BY <1>i, <1>k, <2>2 DEF Run!Next
<1>2. CASE Tokenize
  <2>1. log # <<>> /\ LastEvent = Run!Event("tokenizer_started", 0)
    BY <1>0, <1>2 DEF Tokenize, LogInv
  <2>2. Dispatch("tokenizer_completed", 0, n')
    BY <1>2 DEF Tokenize
  <2>3. Run!Follows(LastEvent, Run!Event("tokenizer_completed", 0))
    BY <2>1 DEF Run!Follows, Run!Event
  <2> QED BY <1>0, <1>i, <1>k, <2>1, <2>2, <2>3, EmitStep
<1>3. CASE Iterate
  <2>1. /\ log # <<>> /\ i < MaxTokens
        /\ LastEvent = IF i = 0 THEN Run!Event("tokenizer_completed", 0)
                       ELSE Run!Event("token", i - 1)
    BY <1>0, <1>3 DEF Iterate, MoreToGenerate, LogInv
  <2>2. CASE past = 0
    <3>1. i <= 1
      BY <1>0, <1>3, <2>2 DEF Iterate, BatchInv
    <3>2. Dispatch("prefill_started", 0, n)
      BY <1>3, <2>2 DEF Iterate
    <3>3. Run!Follows(LastEvent, Run!Event("prefill_started", 0))
      <4>1. CASE i = 0
        BY <1>i, <2>1, <4>1 DEF Run!Follows, Run!Event
      <4>2. CASE i = 1
        BY <1>i, <2>1, <4>2 DEF Run!Follows, Run!Event
      <4> QED BY <1>i, <3>1, <4>1, <4>2
    <3> QED BY <1>0, <1>i, <1>k, <2>1, <3>2, <3>3, EmitStep
  <2>3. CASE past # 0
    BY <1>3, <2>3 DEF Iterate, eventVars
  <2> QED BY <2>2, <2>3
<1>4. CASE AfterPredict
  <2>1. CASE past = 0
    <3>1. log # <<>> /\ LastEvent = Run!Event("prefill_started", 0)
      BY <1>0, <1>4, <2>1 DEF AfterPredict, LogInv
    <3>2. Dispatch("prefill_completed", 0, n)
      BY <1>4, <2>1 DEF AfterPredict
    <3>3. Run!Follows(LastEvent, Run!Event("prefill_completed", 0))
      BY <3>1 DEF Run!Follows, Run!Event
    <3> QED BY <1>0, <1>i, <1>k, <3>1, <3>2, <3>3, EmitStep
  <2>2. CASE past # 0
    BY <1>4, <2>2 DEF AfterPredict, eventVars
  <2> QED BY <2>1, <2>2
<1>5. CASE Sample
  <2>1. /\ log # <<>> /\ i < MaxTokens /\ Run!Tokens = i
        /\ i = 0 => past = 0
        /\ LastEvent = IF past = 0 THEN Run!Event("prefill_completed", 0)
                       ELSE Run!Event("token", i - 1)
    BY <1>0, <1>5 DEF Sample, LogInv, BatchInv
  <2>2. /\ Run!Follows(LastEvent, Run!Event("token", i))
        /\ Run!Follows(LastEvent, Run!Event("eos", i))
    <3>1. CASE past = 0
      BY <2>1, <3>1 DEF Run!Follows, Run!Event
    <3>2. CASE past # 0
      <4>1. (i - 1) + 1 = i
        BY <1>i
      <4>2. LastEvent.kind = "token" /\ LastEvent.num = i - 1
        BY <2>1, <3>2 DEF Run!Event
      <4> QED BY <2>1, <4>1, <4>2 DEF Run!Follows
    <3> QED BY <3>1, <3>2
  <2>3. CASE Dispatch("eos", i, 0)
    BY <1>0, <1>i, <1>k, <2>1, <2>2, <2>3, EmitStep
  <2>4. CASE Dispatch("token", i, 0)
    BY <1>0, <1>i, <1>k, <2>1, <2>2, <2>4, EmitStep
  <2> QED BY <1>5, <2>3, <2>4, SampleCases
<1>6. CASE LoopEnd
  <2>1. /\ log # <<>> /\ i = MaxTokens
        /\ LastEvent = IF i = 0 THEN Run!Event("tokenizer_completed", 0)
                       ELSE Run!Event("token", i - 1)
    BY <1>0, <1>i, <1>6 DEF LoopEnd, LogInv
  <2>2. Dispatch("max_ctx_reached", 0, 0)
    BY <1>6 DEF LoopEnd
  <2>3. Run!Follows(LastEvent, Run!Event("max_ctx_reached", 0))
    <3>1. CASE i = 0
      BY <2>1, <3>1 DEF Run!Follows, Run!Event
    <3>2. CASE i # 0
      <4>1. (i - 1) + 1 = MaxTokens
        BY <1>i, <2>1
      <4>2. LastEvent.kind = "token" /\ LastEvent.num = i - 1
        BY <2>1, <3>2 DEF Run!Event
      <4> QED BY <4>1, <4>2 DEF Run!Follows
    <3> QED BY <3>1, <3>2
  <2> QED BY <1>0, <1>i, <1>k, <2>1, <2>2, <2>3, EmitStep
<1>7. CASE Predict \/ Compute \/ Return \/ Throw \/ Report \/ UNCHANGED vars
  BY <1>7 DEF Predict, Compute, Return, Throw, Report, vars, eventVars
<1> QED BY <1>1, <1>2, <1>3, <1>4, <1>5, <1>6, <1>7 DEF Next

\* Inference::invoke implements the protocol of events: whatever the prompt,
\* the logits, the sampler and the failures, a listener sees one of the
\* sequences of events that RunProtocol allows.
THEOREM ProtocolKept == Spec => ImplementsRunProtocol
<1>1. Init => Run!Init
  BY DEF Init, Run!Init
<1>2. IInv /\ [Next]_vars => [Run!Next]_log
  BY ProtocolStep
<1> QED BY <1>1, <1>2, Invariant, PTL DEF Spec, ImplementsRunProtocol, Run!Spec

=============================================================================
