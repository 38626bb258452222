---------------------------- MODULE RunProtocol ----------------------------
(***************************************************************************)
(* What a listener of EventDispatcher may rely on about the events of one   *)
(* run of Inference::invoke: which event may come first and which may       *)
(* follow which.  An event is a record [kind, num]: num is the seq_id of a  *)
(* token_generated_event_t and the num_tokens of a completion that came     *)
(* from a stop token; the other kinds carry 0.                              *)
(***************************************************************************)
EXTENDS Naturals, Sequences, FiniteSets

CONSTANT MaxTokens   \* max_tokens of the run

VARIABLE log         \* the events dispatched so far, oldest first

Kinds == {"tokenizer_started", "tokenizer_completed", "prefill_started", "prefill_completed",
          "token", "eos", "max_ctx_reached"}
Event(kind, num) == [kind |-> kind, num |-> num]

Tokens == Cardinality({j \in 1..Len(log) : log[j].kind = "token"})

\* Tokens are numbered without a gap, a stop token closes the run with the
\* number of tokens that went out, and only the last allowed token may be
\* followed by the other completion.  A prefill may come back after token 0:
\* an empty prompt leaves past_tokens at 0.
Follows(last, e) ==
  \/ last.kind = "tokenizer_started" /\ e = Event("tokenizer_completed", 0)
  \/ last.kind = "tokenizer_completed"
     /\ e = IF MaxTokens > 0 THEN Event("prefill_started", 0) ELSE Event("max_ctx_reached", 0)
  \/ last.kind = "prefill_started" /\ e = Event("prefill_completed", 0)
  \/ last.kind = "token" /\ last.num + 1 < MaxTokens
     /\ e \in {Event("token", last.num + 1), Event("eos", last.num + 1)}
  \/ last.kind = "token" /\ last.num + 1 = MaxTokens /\ e = Event("max_ctx_reached", 0)
  \/ last.kind = "token" /\ last.num = 0 /\ MaxTokens > 1 /\ e = Event("prefill_started", 0)
  \/ last.kind = "prefill_completed" /\ e \in {Event("token", Tokens), Event("eos", Tokens)}

Init == log = <<>>

Emit(e) ==
  /\ IF log = <<>> THEN e = Event("tokenizer_started", 0) ELSE Follows(log[Len(log)], e)
  /\ log' = Append(log, e)

Next == \E kind \in Kinds, num \in 0..MaxTokens : Emit(Event(kind, num))

Spec == Init /\ [][Next]_log

=============================================================================
