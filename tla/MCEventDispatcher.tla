------------------------- MODULE MCEventDispatcher -------------------------
(* Instances of EventDispatcher for TLC. *)
EXTENDS EventDispatcher

CONSTANTS worker, io, g1, g2, c1, c2, token, completed

=============================================================================
