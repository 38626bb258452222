------------------------------ MODULE Inference ------------------------------
(***************************************************************************)
(* One task of InferenceWorker::execute_task_ (src/src/inference): the      *)
(* generation loop of Inference::invoke with predict(), prepare() and       *)
(* compute(), the compute graph that predict() keeps between iterations,    *)
(* the events it dispatches, the metrics collector that listens to them, and *)
(* the promise that execute_task_ settles.                                   *)
(*                                                                         *)
(* The logits are a row over a small vocabulary, or empty.  ggml is          *)
(* external: it computes any row, and reserving memory and computing may     *)
(* each fail.                                                               *)
(***************************************************************************)
EXTENDS Sampler, Metrics

CONSTANTS PromptLens,   \* the numbers of tokens a rendered prompt may have
          MaxTokens,    \* max_tokens
          MaxContext,   \* max_context_len_ of the model
          Rows,         \* the logits a computation may give
          TopKs,        \* the values of top_k
          StopSets      \* the sets of ids that a vocabulary may have for stop tokens

ASSUME InferenceAssumption ==
  /\ PromptLens \subseteq Nat
  /\ MaxTokens \in Nat /\ MaxContext \in Nat
  /\ Rows \subseteq Seq(Nat) \ {<<>>}
  /\ TopKs \subseteq Nat
  /\ \A stops \in StopSets : stops \subseteq Nat

VARIABLES pc,            \* where execute_task_ is
          params,        \* top_k of the task's sampler, and the model's stop tokens
          logits,        \* logits, empty until predict() returns
          drawn,         \* the last token and how it was drawn
          n,             \* tokens.size()
          past,          \* past_tokens
          i,             \* i
          graphReady,    \* graph_ready_
          cachedN,       \* cached_n_tokens_
          graphN,        \* the batch the graph in gf_ was built for
          promise,       \* the promise of the task
          metrics,       \* the collector that listens to this run
          log,           \* history: the events dispatched
          filled,        \* history: the positions that were computed
          degraded       \* history: prepare() has failed in this run

samplerVars == <<params, logits, drawn>>
graphVars == <<graphReady, cachedN, graphN, degraded>>
batchVars == <<n, past, i>>
eventVars == <<log, metrics>>
vars == <<pc, samplerVars, graphVars, batchVars, eventVars, promise, filled>>

Run == INSTANCE RunProtocol

\* dispatch(), which calls the callback of the collector before it returns.
\* size is the number of tokens that the events of tokenizer and prefill carry.
Dispatch(kind, num, size) ==
  /\ log' = Append(log, Run!Event(kind, num))
  /\ metrics' = Collect(metrics, Run!Event(kind, num), Len(log'), size)

Working == {"new", "tokenize", "loop", "predict", "compute", "logits", "sample", "return"}
Ended == {"done", "reported", "threw", "crashed"}

TypeOK ==
  /\ pc \in Working \cup Ended
  /\ params \in [topK : TopKs, stops : StopSets]
  /\ logits \in Rows \cup {<<>>}
  /\ drawn \in [token : Nat, rounded : BOOLEAN]
  /\ n \in Nat /\ past \in Nat /\ cachedN \in Nat /\ graphN \in Nat
  /\ i \in 0..MaxTokens
  /\ graphReady \in BOOLEAN
  /\ promise \in {"none", "value", "error"}
  /\ log \in Seq([kind : Run!Kinds, num : 0..MaxTokens])
  /\ DOMAIN metrics = DOMAIN BeforeRun
  /\ filled \in SUBSET Nat
  /\ degraded \in BOOLEAN

Init ==
  /\ pc = "new"
  /\ params \in [topK : TopKs, stops : StopSets]
  /\ logits = <<>>
  /\ drawn = [token |-> 0, rounded |-> FALSE]
  /\ n = 0 /\ past = 0 /\ i = 0
  /\ graphReady = FALSE /\ cachedN = 0 /\ graphN = 0
  /\ promise = "none"
  /\ metrics = BeforeRun
  /\ log = <<>>
  /\ filled = {}
  /\ degraded = FALSE

-----------------------------------------------------------------------------
\* Inference::Inference, set_debug, set_sampler, and invoke() up to the first
\* event.
Construct ==
  /\ pc = "new"
  /\ Dispatch("tokenizer_started", 0, 0)
  /\ pc' = "tokenize"
  /\ UNCHANGED <<samplerVars, graphVars, batchVars, promise, filled>>

\* The tokens of what render() gave: it catches every exception of the template
\* and then answers the empty string.
PromptTokens == PromptLens \cup {0}

Tokenize ==
  /\ pc = "tokenize"
  /\ n' \in PromptTokens
  /\ Dispatch("tokenizer_completed", 0, n')
  /\ pc' = "loop"
  /\ UNCHANGED <<samplerVars, graphVars, past, i, promise, filled>>

\* Mutant: one iteration too many.
MoreToGenerateOnce == i <= MaxTokens

MoreToGenerate == i < MaxTokens

\* The loop condition and the event before a prefill.
Iterate ==
  /\ pc = "loop"
  /\ MoreToGenerate
  /\ IF past = 0 THEN Dispatch("prefill_started", 0, n) ELSE UNCHANGED eventVars
  /\ pc' = "predict"
  /\ UNCHANGED <<samplerVars, graphVars, batchVars, promise, filled>>

\* Mutant: a ready graph is reused for any batch.
GraphUsableStale == graphReady

GraphUsable == graphReady /\ n = cachedN

\* predict() as far as compute(): reuse the graph, or free the context and
\* build another one, for which prepare() may find no memory; the logits are
\* then empty.
Predict ==
  /\ pc = "predict"
  /\ \/ /\ GraphUsable
        /\ pc' = "compute"
        /\ UNCHANGED graphVars
     \/ /\ ~GraphUsable
        /\ graphN' = n
        /\ \/ graphReady' = TRUE /\ cachedN' = n /\ pc' = "compute" /\ UNCHANGED degraded
           \/ graphReady' = FALSE /\ pc' = "logits" /\ degraded' = TRUE /\ UNCHANGED cachedN
  /\ UNCHANGED <<samplerVars, batchVars, eventVars, promise, filled>>

\* set_inputs(): the position of the q-th token of the batch, and the keys
\* that its row of the mask lets it see.
Position(q) == past + q
Mask(q) == {k \in 0..(MaxContext - 1) : k <= Position(q)}

\* Mutant: a failed computation is tried again, without a limit.
OnComputeFailureRetry == "predict"

\* predict() dereferences the null pointer that a failed computation gives.
OnComputeFailure == "crashed"

\* set_inputs(), the computation, and the copy of the last row of logits;
\* without tokens the row lies in front of the buffer and may not be readable.
Compute ==
  /\ pc = "compute"
  /\ \/ /\ filled' = filled \cup {Position(q) : q \in 0..(n - 1)}
        /\ logits' \in Rows
        /\ pc' = "logits"
     \/ /\ pc' = OnComputeFailure
        /\ UNCHANGED <<filled, logits>>
  /\ UNCHANGED <<params, drawn, graphVars, batchVars, eventVars, promise>>

AfterPredict ==
  /\ pc = "logits"
  /\ IF past = 0 THEN Dispatch("prefill_completed", 0, n) ELSE UNCHANGED eventVars
  /\ pc' = "sample"
  /\ UNCHANGED <<samplerVars, graphVars, batchVars, promise, filled>>

\* sampler_.sample, whose answer is the next batch.
Draw ==
  /\ drawn' \in Draws(logits, params.topK)
  /\ n' = 1
  /\ logits' = <<>>
  /\ UNCHANGED params

\* is_stop_token of the decoded token.
IsStopToken(token) == token \in params.stops

\* Mutant: past_tokens counts iterations, not tokens.
NextPastByOne == past + 1

NextPast == past + n

\* Mutant: the number of a token is read after it was incremented.
SeqIdFromOne == i + 1

SeqId == i

\* Mutant: the loop goes on after a stop token.
AfterStopTokenLoops == "loop"

\* The break.
AfterStopToken == "return"

\* The rest of the loop body: a stop token ends the loop, any other goes out.
Sample ==
  /\ pc = "sample"
  /\ Draw
  /\ past' = NextPast
  /\ IF IsStopToken(drawn'.token)
     THEN Dispatch("eos", i, 0) /\ pc' = AfterStopToken /\ UNCHANGED i
     ELSE Dispatch("token", SeqId, 0) /\ pc' = "loop" /\ i' = i + 1
  /\ UNCHANGED <<graphVars, promise, filled>>

\* The completion after the loop leaves num_tokens at 0.
LoopEnd ==
  /\ pc = "loop"
  /\ i >= MaxTokens
  /\ Dispatch("max_ctx_reached", 0, 0)
  /\ pc' = "return"
  /\ UNCHANGED <<samplerVars, graphVars, batchVars, promise, filled>>

Return ==
  /\ pc = "return"
  /\ promise' = "value"
  /\ pc' = "done"
  /\ UNCHANGED <<samplerVars, graphVars, batchVars, eventVars, filled>>

\* An exception (PCRE2 in the tokenizer, no memory, a callback that dispatch()
\* called) reaches the catch of execute_task_.
Throw ==
  /\ pc \in Working
  /\ promise' = "error"
  /\ pc' = "threw"
  /\ UNCHANGED <<samplerVars, graphVars, batchVars, eventVars, filled>>

\* The owner of the collector has its answer, reads the figures and resets.
Report ==
  /\ pc = "done"
  /\ metrics' = Reset(metrics)
  /\ pc' = "reported"
  /\ UNCHANGED <<samplerVars, graphVars, batchVars, log, promise, filled>>

Next ==
  \/ Construct \/ Tokenize \/ Iterate \/ Predict \/ Compute \/ AfterPredict
  \/ Sample \/ LoopEnd \/ Return \/ Throw \/ Report

\* The worker thread is never suspended for good.
Spec == Init /\ [][Next]_vars
FairSpec == Spec /\ WF_vars(Next)

-----------------------------------------------------------------------------
\* The graph that is computed was built, and given memory, for exactly the
\* batch whose inputs set_inputs() writes into it (inference.cpp:120-130).
GraphFitsBatch == pc = "compute" => graphReady /\ graphN = n /\ cachedN = n

\* Attention is causal and complete: within the context, every query sees
\* itself and all tokens before it, no key that was not computed by then or in
\* the same batch, and no position is computed twice (model.cpp:45-71), unless
\* prepare() failed in this run.
AttentionSeesPast ==
  pc = "compute" /\ ~degraded /\ past + n <= MaxContext =>
    \A q \in 0..(n - 1) :
      /\ Position(q) \notin filled
      /\ Mask(q) = filled \cup {Position(r) : r \in 0..q}

\* The worker's promise tells how the run went: a value only after the
\* completion event, which is the last one in every case (an error after it is
\* that of a callback).
Completions == {j \in 1..Len(log) : log[j].kind \in {"eos", "max_ctx_reached"}}
OutcomeMatchesEvents ==
  /\ promise = "value" => Completions = {Len(log)}
  /\ promise = "error" => Completions \subseteq {Len(log)}

\* What get_metrics() reports of a run that answered with at least one token
\* is of that run alone, whatever reset() left of an earlier one: each figure
\* is a later event's time minus an earlier one's, and a run that a stop token
\* ended counts the tokens that went out (metrics.cpp:48-69).
FiguresOfThisRun ==
  pc = "done" /\ Run!Tokens > 0 =>
    /\ \A f \in DOMAIN Figures(metrics) :
         LET times == Figures(metrics)[f] IN 0 < times[1] /\ times[1] < times[2]
    /\ metrics.inp_tokens.fresh /\ metrics.out_tokens.fresh
    /\ log[Len(log)].kind = "eos" => metrics.out_tokens.num = Run!Tokens

\* What goes out is among the best: fewer than top_k tokens (fewer than one, for
\* the greedy sampler) have a greater logit than the token drawn, unless the
\* rounding of the probabilities left the draw without an answer
\* (samplers.cpp:40-65).
Better(row, token) == {t \in 0..(Len(row) - 1) : row[t + 1] > row[token + 1]}
TopKHonoured ==
  [][ pc = "sample" /\ pc' # "threw" /\ logits # <<>> /\ ~drawn'.rounded
        => Cardinality(Better(logits, drawn'.token))
             < (IF params.topK > 0 THEN params.topK ELSE 1) ]_vars

\* The events of every run keep the protocol its listeners rely on.
ImplementsRunProtocol == Run!Spec

\* invoke() ends, whatever the sampler answers.
RunEnds == <>(pc \in Ended)

=============================================================================
