---------------------------- MODULE ListenerMap ----------------------------
(***************************************************************************)
(* The std::map of EventDispatcher (src/include/zinferlm/events.h): group   *)
(* identifiers to vectors of listener_t, as a function whose domain is the  *)
(* set of keys.  A listener is a record [callback, events].                 *)
(***************************************************************************)
EXTENDS Naturals, Sequences, FiniteSets

EmptyMap == [g \in {} |-> <<>>]

\* listeners[g]: reading through operator[] inserts an empty vector.
Subscript(m, g) ==
  [h \in DOMAIN m \cup {g} |-> IF h \in DOMAIN m THEN m[h] ELSE <<>>]

\* push_back to the group's vector, or insert a vector of one.
Listened(m, g, listener) ==
  [Subscript(m, g) EXCEPT ![g] = Append(@, listener)]

\* Mutant: the vector is emptied and its key stays.
Cleared(m, g) == [m EXCEPT ![g] = <<>>]

Erased(m, g) == [h \in DOMAIN m \ {g} |-> m[h]]

\* The loop of dispatch() over the listeners of a group: the callbacks that
\* want the event, in the order of registration.
Wanting(vector, event) ==
  LET callbacks[j \in 0..Len(vector)] ==
        IF j = 0 THEN <<>>
        ELSE IF event \in vector[j].events THEN Append(callbacks[j - 1], vector[j].callback)
        ELSE callbacks[j - 1]
  IN  callbacks[Len(vector)]

Matching(m, g, event) == Wanting(Subscript(m, g)[g], event)

\* The number of registered callbacks: of the places in all the vectors.
Places(m) == UNION {{g} \X (1..Len(m[g])) : g \in DOMAIN m}
Registered(m) == Cardinality(Places(m))

=============================================================================
