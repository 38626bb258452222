---------------------------- MODULE MCChatServer ----------------------------
(* Instances of ChatServer for TLC. *)
EXTENDS ChatServer, TLC

CONSTANTS c1, c2, c3, unknown

Symmetry == Permutations(Chats)

=============================================================================
