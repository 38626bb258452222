------------------------------- MODULE Metrics -------------------------------
(***************************************************************************)
(* LLMMetricsCollector (src/src/metrics/metrics.cpp): what the callback of  *)
(* collect() keeps of the events of a run, and from which of it             *)
(* get_metrics() computes its figures.                                      *)
(*                                                                         *)
(* A time is the number of the event of this run that it was taken from; 0  *)
(* is any time before this run: the one an earlier run of the same run id   *)
(* left behind, or the TimePoint{} of the constructor and of reset().  In   *)
(* the same way a count is [fresh, num].                                    *)
(***************************************************************************)
EXTENDS Naturals

Stale == [fresh |-> FALSE, num |-> 0]
Fresh(num) == [fresh |-> TRUE, num |-> num]

\* A collector when a run of its run id begins.
BeforeRun ==
  [prefill_start |-> 0, prefill_end |-> 0, first_token |-> 0, tokenizer_start |-> 0,
   completed |-> 0, inp_tokens |-> Stale, out_tokens |-> Stale]

\* Mutant: tokens are taken to be numbered from one.
IsFirstTokenFromOne(seq_id) == seq_id = 1

IsFirstToken(seq_id) == seq_id = 0

\* The callback, for event e at time t, which carries a size of the batch.
\* The end of the tokenizer overwrites its start.
Collect(c, e, t, size) ==
  CASE e.kind = "tokenizer_started" -> [c EXCEPT !.tokenizer_start = t]
    [] e.kind = "tokenizer_completed" ->
         [c EXCEPT !.tokenizer_start = t, !.inp_tokens = Fresh(size)]
    [] e.kind = "prefill_started" -> [c EXCEPT !.prefill_start = t]
    [] e.kind = "prefill_completed" -> [c EXCEPT !.prefill_end = t]
    [] e.kind = "token" -> IF IsFirstToken(e.num) THEN [c EXCEPT !.first_token = t] ELSE c
    [] e.kind \in {"eos", "max_ctx_reached"} ->
         [c EXCEPT !.completed = t, !.out_tokens = Fresh(e.num)]

\* The two times whose difference each figure is.
Figures(c) ==
  [prefill_latency |-> <<c.prefill_start, c.prefill_end>>,
   time_to_first_token |-> <<c.tokenizer_start, c.first_token>>,
   decode_time |-> <<c.prefill_end, c.completed>>,
   total_time |-> <<c.tokenizer_start, c.completed>>]

Reset(c) == [c EXCEPT !.prefill_start = 0, !.prefill_end = 0]

=============================================================================
