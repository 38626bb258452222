----------------------------- MODULE MCInference -----------------------------
(* Instances of Inference for TLC: rows of logits over three tokens, with    *)
(* and without ties.                                                         *)
EXTENDS Inference

MCRows == [1..3 -> 0..2]
MCStopSets == {{0}, {2}}

=============================================================================
