------------------------------ MODULE MCWorker ------------------------------
(* Instances of Worker for TLC. *)
EXTENDS Worker

CONSTANTS t1, t2, t3, s1, s2, d1

=============================================================================
