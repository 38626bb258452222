------------------------ MODULE EventDispatcherProofs ------------------------
(***************************************************************************)
(* Proofs about EventDispatcher, for every set of threads, groups,          *)
(* callbacks and events, and every number of calls.                         *)
(***************************************************************************)
EXTENDS EventDispatcher, DataLemmas

-----------------------------------------------------------------------------
\* The inductive invariant.  SnapshotDelivered speaks of the end of a dispatch
\* only; what each point of the call says about the mutex and the callbacks
\* made so far is needed to get there.

\* What a thread at each point of its call holds and has been told to do.
ControlInv ==
  \A th \in Threads :
    /\ pc[th] = "idle" => arg[th] = {}
    /\ pc[th] \in {"snapshot", "calling"} => arg[th] # {}
    /\ pc[th] = "snapshot" => mutex = {th}
    /\ pc[th] = "snapshot" => \E g \in Groups, e \in Events : arg[th] = {<<g, e>>}
    /\ pc[th] = "unlisten" => \E g \in Groups : target[th] = {g}

\* Until the copy the map is the one dispatch() found; from then on what was
\* made and what is left add up to what was due.
DeliveryInv ==
  \A th \in Threads :
    /\ pc[th] = "snapshot" =>
         /\ got[th] = <<>>
         /\ \A a \in arg[th] : due[th] = Matching(listeners, a[1], a[2])
    /\ arg[th] # {} /\ pc[th] # "snapshot" => due[th] = got[th] \o snapshot[th]

IInv == TypeOK /\ IsFiniteSet(Places(listeners)) /\ CountMatches /\ ControlInv /\ DeliveryInv

Listener == [callback : Callbacks, events : SUBSET Events]

\* The part of the invariant that is about the map and the count.
RegistryInv ==
  /\ DOMAIN listeners \subseteq Groups
  /\ IsMap(listeners, Listener)
  /\ callbacksCount \in Nat
  /\ IsFiniteSet(Places(listeners))
  /\ CountMatches

\* The invariant holds of the registry when it does of the whole.
LEMMA RegistryOfIInv == IInv => RegistryInv
BY DEF IInv, TypeOK, RegistryInv, IsMap, Listener

\* What dispatch() copies is callbacks.
LEMMA MatchingType ==
  ASSUME RegistryInv, NEW g, NEW e
  PROVE  Matching(listeners, g, e) \in Seq(Callbacks)
<1>1. Subscript(listeners, g)[g] \in Seq(Listener)
  BY SubscriptPlaces DEF RegistryInv
<1>2. \A l \in Listener : l.callback \in Callbacks
  BY DEF Listener
<1> HIDE DEF Listener
<1>3. Wanting(Subscript(listeners, g)[g], e) \in Seq(Callbacks)
  BY <1>1, <1>2, WantingType
<1> QED BY <1>3 DEF Matching

\* Every step is a call of one of the operations by one thread.
LEMMA NextCases ==
  ASSUME Next
  PROVE  \E th \in Threads :
           \/ Unlisten(th) \/ DispatchSnapshot(th) \/ InvokeCallback(th)
           \/ DispatchReturn(th) \/ CallbackThrows(th)
           \/ \E g \in Groups : CallUnlisten(th, g)
           \/ \E g \in Groups, e \in Events : DispatchLock(th, g, e)
           \/ \E g \in Groups, c \in Callbacks, es \in SUBSET Events : Listen(th, g, c, es)
BY DEF Next, Progress

\* listen(), unlisten() and dispatch() keep the map a map of listeners and the
\* count the number of its places.
LEMMA RegistryStep == ASSUME IInv, [Next]_vars PROVE RegistryInv'
<1>0. RegistryInv
  BY RegistryOfIInv
<1>1. CASE UNCHANGED registry
  BY <1>0, <1>1 DEF RegistryInv, registry, CountMatches, IsMap
<1>2. ASSUME NEW th \in Threads, Unlisten(th) PROVE RegistryInv'
  <2>1. PICK g \in target[th] : /\ listeners' = Erased(Subscript(listeners, g), g)
                               /\ callbacksCount' = callbacksCount - Removed(g)
    BY <1>2 DEF Unlisten
  <2>2. /\ IsMap(listeners', Listener)
        /\ DOMAIN listeners' = DOMAIN listeners \ {g}
        /\ IsFiniteSet(Places(listeners'))
        /\ Registered(listeners') = Registered(listeners) - Removed(g)
        /\ Registered(listeners') \in Nat
    BY <1>0, <2>1, ErasedPlaces DEF RegistryInv, Removed
  <2> QED BY <1>0, <2>1, <2>2 DEF RegistryInv, CountMatches
<1>3. ASSUME NEW th \in Threads, DispatchSnapshot(th) PROVE RegistryInv'
  <2>1. PICK g \in Groups : listeners' = Subscript(listeners, g)
    BY <1>3 DEF DispatchSnapshot, IInv, TypeOK
  <2>2. callbacksCount' = callbacksCount
    BY <1>3 DEF DispatchSnapshot
  <2>3. /\ Places(listeners') = Places(listeners)
        /\ IsMap(listeners', Listener)
        /\ DOMAIN listeners' = DOMAIN listeners \cup {g}
    BY <1>0, <2>1, SubscriptPlaces DEF RegistryInv
  <2> QED BY <1>0, <2>2, <2>3 DEF RegistryInv, CountMatches, Registered
<1>4. ASSUME NEW th \in Threads, NEW g \in Groups, NEW c \in Callbacks,
             NEW es \in SUBSET Events, Listen(th, g, c, es)
      PROVE  RegistryInv'
  <2>1. PICK l \in Listener : listeners' = Listened(listeners, g, l)
    BY <1>4 DEF Listen, Listener
  <2>2. callbacksCount' = callbacksCount + 1
    BY <1>4 DEF Listen
  <2>3. IsMap(listeners', Listener) /\ DOMAIN listeners' = DOMAIN listeners \cup {g}
    <3>1. OneMore(listeners, Listened(listeners, g, l), g, Listener)
      BY <1>0, ListenedPlaces DEF RegistryInv
    <3> QED BY <2>1, <3>1 DEF OneMore
  <2>4. PICK k \in Nat : /\ IsFiniteSet(Places(listeners'))
                        /\ Registered(listeners) = k
                        /\ Registered(listeners') = k + 1
    BY <1>0, <2>1, ListenedCount DEF RegistryInv
  <2> QED BY <1>0, <2>2, <2>3, <2>4 DEF RegistryInv, CountMatches
<1>5. CASE \E th \in Threads :
             \/ InvokeCallback(th) \/ DispatchReturn(th) \/ CallbackThrows(th)
             \/ \E g \in Groups : CallUnlisten(th, g)
             \/ \E g \in Groups, e \in Events : DispatchLock(th, g, e)
  BY <1>1, <1>5 DEF InvokeCallback, DispatchReturn, CallbackThrows, CallUnlisten, DispatchLock
<1>6. CASE UNCHANGED vars
  BY <1>1, <1>6 DEF vars
<1> QED BY <1>2, <1>3, <1>4, <1>5, <1>6, NextCases

\* Every step keeps the types of the state.
LEMMA TypeStep == ASSUME IInv, [Next]_vars PROVE TypeOK'
<1> USE BoundsAssumption
<1>0. TypeOK /\ RegistryInv /\ RegistryInv'
  BY RegistryOfIInv, RegistryStep DEF IInv
<1> DEFINE Rest ==
      /\ mutex \in SUBSET Threads
      /\ pc \in [Threads -> {"idle", "snapshot", "calling", "unlisten"}]
      /\ arg \in [Threads -> SUBSET (Groups \X Events)]
      /\ snapshot \in [Threads -> Seq(Callbacks)]
      /\ target \in [Threads -> SUBSET Groups]
      /\ due \in [Threads -> Seq(Callbacks)]
      /\ got \in [Threads -> Seq(Callbacks)]
      /\ dispatches \in 0..MaxDispatches
      /\ unlistens \in 0..MaxUnlistens
      /\ used \in SUBSET Callbacks
<1>1. SUFFICES Rest'
  BY <1>0 DEF RegistryInv, TypeOK, IsMap, Listener
<1>2. Rest
  BY <1>0 DEF TypeOK
<1>3. ASSUME NEW th \in Threads, Unlisten(th) PROVE Rest'
  BY <1>2, <1>3 DEF Unlisten, history, calls
<1>4. ASSUME NEW th \in Threads, DispatchSnapshot(th) PROVE Rest'
  <2>1. PICK a \in arg[th] : snapshot' = [snapshot EXCEPT ![th] = Matching(listeners, a[1], a[2])]
    BY <1>4 DEF DispatchSnapshot
  <2>2. Matching(listeners, a[1], a[2]) \in Seq(Callbacks)
    BY <1>0, MatchingType
  <2> QED BY <1>2, <1>4, <2>1, <2>2 DEF DispatchSnapshot, MutexAfterCopy, history, calls
<1>5. ASSUME NEW th \in Threads, InvokeCallback(th) PROVE Rest'
  <2>1. snapshot[th] \in Seq(Callbacks) /\ snapshot[th] # <<>> /\ got[th] \in Seq(Callbacks)
    BY <1>2, <1>5 DEF InvokeCallback
  <2>2. Tail(snapshot[th]) \in Seq(Callbacks) /\ got[th] \o Invoked(th) \in Seq(Callbacks)
    BY <2>1 DEF Invoked
  <2>3. got' \in [Threads -> Seq(Callbacks)] /\ snapshot' \in [Threads -> Seq(Callbacks)]
    BY <1>2, <1>5, <2>2 DEF InvokeCallback
  <2>4. UNCHANGED <<mutex, arg, due, dispatches, used>>
    BY <1>5 DEF InvokeCallback
  <2>5. CASE UNCHANGED <<pc, target, unlistens>>
    BY <1>2, <2>3, <2>4, <2>5
  <2>6. CASE /\ unlistens < MaxUnlistens
             /\ unlistens' = unlistens + 1
             /\ pc' = [pc EXCEPT ![th] = "unlisten"]
             /\ \E g \in Groups : target' = [target EXCEPT ![th] = {g}]
    BY <1>2, <2>3, <2>4, <2>6
  <2> QED BY <1>5, <2>5, <2>6 DEF InvokeCallback
<1>6. ASSUME NEW th \in Threads, DispatchReturn(th) PROVE Rest'
  BY <1>2, <1>6 DEF DispatchReturn, history, calls
<1>11. ASSUME NEW th \in Threads, CallbackThrows(th) PROVE Rest'
  BY <1>2, <1>11 DEF CallbackThrows, history, calls
<1>7. ASSUME NEW th \in Threads, NEW g \in Groups, CallUnlisten(th, g) PROVE Rest'
  BY <1>2, <1>7 DEF CallUnlisten, history
<1>8. ASSUME NEW th \in Threads, NEW g \in Groups, NEW e \in Events, DispatchLock(th, g, e) PROVE Rest'
  <2>1. Matching(listeners, g, e) \in Seq(Callbacks)
    BY <1>0, MatchingType
  <2> QED BY <1>2, <1>8, <2>1 DEF DispatchLock
<1>9. ASSUME NEW th \in Threads, NEW g \in Groups, NEW c \in Callbacks,
             NEW es \in SUBSET Events, Listen(th, g, c, es)
      PROVE  Rest'
  BY <1>2, <1>9 DEF Listen, history
<1>10. CASE UNCHANGED vars
  BY <1>2, <1>10 DEF vars, history, calls
<1> QED BY <1>3, <1>4, <1>5, <1>6, <1>7, <1>8, <1>9, <1>10, <1>11, NextCases

\* Every step keeps what the points of the calls say.
LEMMA ControlStep == ASSUME IInv, [Next]_vars PROVE ControlInv'
<1> USE DEF IInv, TypeOK, ControlInv
<1>1. ASSUME NEW th \in Threads, Unlisten(th) PROVE ControlInv'
  <2>1. /\ pc' = [pc EXCEPT ![th] = IF arg[th] # {} THEN "calling" ELSE "idle"]
        /\ target' = [target EXCEPT ![th] = {}]
        /\ UNCHANGED <<mutex, arg>>
    BY <1>1 DEF Unlisten, Dispatching
  <2> QED BY <2>1
<1>2. ASSUME NEW th \in Threads, DispatchSnapshot(th) PROVE ControlInv'
  <2>1. pc[th] = "snapshot" /\ pc' = [pc EXCEPT ![th] = "calling"] /\ UNCHANGED <<arg, target>>
    BY <1>2 DEF DispatchSnapshot
  <2>2. \A u \in Threads : pc[u] = "snapshot" => u = th
    BY <2>1
  <2> QED BY <2>1, <2>2
<1>3. ASSUME NEW th \in Threads, InvokeCallback(th) PROVE ControlInv'
  <2>1. pc[th] = "calling" /\ UNCHANGED <<mutex, arg>>
    BY <1>3 DEF InvokeCallback
  <2>2. CASE UNCHANGED <<pc, target>>
    BY <2>1, <2>2
  <2>3. CASE /\ pc' = [pc EXCEPT ![th] = "unlisten"]
             /\ \E g \in Groups : target' = [target EXCEPT ![th] = {g}]
    BY <2>1, <2>3
  <2> QED BY <1>3, <2>2, <2>3 DEF InvokeCallback
<1>4. ASSUME NEW th \in Threads, DispatchReturn(th) PROVE ControlInv'
  BY <1>4 DEF DispatchReturn
<1>9. ASSUME NEW th \in Threads, CallbackThrows(th) PROVE ControlInv'
  BY <1>9 DEF CallbackThrows
<1>5. ASSUME NEW th \in Threads, NEW g \in Groups, CallUnlisten(th, g) PROVE ControlInv'
  BY <1>5 DEF CallUnlisten
<1>6. ASSUME NEW th \in Threads, NEW g \in Groups, NEW e \in Events, DispatchLock(th, g, e)
      PROVE  ControlInv'
  BY <1>6 DEF DispatchLock, MutexFree
<1>7. ASSUME NEW th \in Threads, NEW g \in Groups, NEW c \in Callbacks,
             NEW es \in SUBSET Events, Listen(th, g, c, es)
      PROVE  ControlInv'
  BY <1>7 DEF Listen
<1>8. CASE UNCHANGED vars
  BY <1>8 DEF vars
<1> QED BY <1>1, <1>2, <1>3, <1>4, <1>5, <1>6, <1>7, <1>8, <1>9, NextCases

\* got \o <<Head(s)>> \o Tail(s) is got \o s.
LEMMA MoveOne ==
  ASSUME NEW S, NEW a \in Seq(S), NEW s \in Seq(S), s # <<>>
  PROVE  a \o s = (a \o <<Head(s)>>) \o Tail(s)
OBVIOUS

\* Every step keeps the account of the callbacks made and left.
LEMMA DeliveryStep == ASSUME IInv, [Next]_vars PROVE DeliveryInv'
<1>0. TypeOK /\ ControlInv /\ DeliveryInv
  BY DEF IInv
<1> DEFINE Delivers(th) ==
      /\ pc[th] = "snapshot" =>
           /\ got[th] = <<>>
           /\ \A a \in arg[th] : due[th] = Matching(listeners, a[1], a[2])
      /\ arg[th] # {} /\ pc[th] # "snapshot" => due[th] = got[th] \o snapshot[th]
<1>1. SUFFICES ASSUME NEW u \in Threads PROVE Delivers(u)'
  BY DEF DeliveryInv
<1>2. Delivers(u)
  BY <1>0 DEF DeliveryInv
<1>3. ASSUME NEW th \in Threads, Unlisten(th) PROVE Delivers(u)'
  <2>1. pc[u] # "snapshot"
    BY <1>0, <1>3 DEF Unlisten, MutexFree, ControlInv
  <2>2. pc'[u] # "snapshot"
    BY <1>0, <1>3, <2>1 DEF Unlisten, TypeOK
  <2>3. UNCHANGED <<arg, snapshot, due, got>>
    BY <1>3 DEF Unlisten, history
  <2> QED BY <1>2, <2>1, <2>2, <2>3
<1>4. ASSUME NEW th \in Threads, DispatchSnapshot(th) PROVE Delivers(u)'
  <2>1. pc[th] = "snapshot" /\ pc' = [pc EXCEPT ![th] = "calling"] /\ UNCHANGED <<arg, due, got>>
    BY <1>4 DEF DispatchSnapshot, history
  <2>2. PICK a \in arg[th] : snapshot' = [snapshot EXCEPT ![th] = Matching(listeners, a[1], a[2])]
    BY <1>4 DEF DispatchSnapshot
  <2>3. CASE u = th
    <3>1. got[u] = <<>> /\ due[u] = snapshot'[u]
      BY <1>0, <1>2, <2>1, <2>2, <2>3 DEF TypeOK
    <3>2. due[u] \in Seq(Callbacks)
      BY <1>0 DEF TypeOK
    <3>3. due'[u] = got'[u] \o snapshot'[u]
      BY <2>1, <3>1, <3>2
    <3>4. pc'[u] # "snapshot"
      BY <1>0, <2>1, <2>3 DEF TypeOK
    <3> QED BY <3>3, <3>4
  <2>4. CASE u # th
    <3>1. pc[u] # "snapshot" /\ pc'[u] = pc[u] /\ snapshot'[u] = snapshot[u]
      BY <1>0, <2>1, <2>2, <2>4 DEF TypeOK, ControlInv
    <3> QED BY <1>2, <2>1, <3>1
  <2> QED BY <2>3, <2>4
<1>5. ASSUME NEW th \in Threads, InvokeCallback(th) PROVE Delivers(u)'
  <2>1. /\ pc[th] = "calling" /\ snapshot[th] # <<>>
        /\ got' = [got EXCEPT ![th] = @ \o Invoked(th)]
        /\ snapshot' = [snapshot EXCEPT ![th] = Tail(@)]
        /\ UNCHANGED <<arg, due, listeners>>
    BY <1>5 DEF InvokeCallback, registry
  <2>2. pc'[u] = "snapshot" <=> pc[u] = "snapshot"
    BY <1>0, <1>5, <2>1 DEF InvokeCallback, TypeOK
  <2>3. CASE u = th
    <3>1. got[u] \in Seq(Callbacks) /\ snapshot[u] \in Seq(Callbacks)
      BY <1>0 DEF TypeOK
    <3>2. arg[u] # {} => due[u] = (got[u] \o <<Head(snapshot[u])>>) \o Tail(snapshot[u])
      BY <1>2, <2>1, <2>3, <3>1, MoveOne
    <3>3. got'[u] = got[u] \o <<Head(snapshot[u])>> /\ snapshot'[u] = Tail(snapshot[u])
      BY <1>0, <2>1, <2>3 DEF TypeOK, Invoked
    <3> QED BY <2>1, <2>2, <2>3, <3>2, <3>3
  <2>4. CASE u # th
    <3>1. got'[u] = got[u] /\ snapshot'[u] = snapshot[u]
      BY <1>0, <2>1, <2>4 DEF TypeOK
    <3> QED BY <1>2, <2>1, <2>2, <3>1
  <2> QED BY <2>3, <2>4
<1>6. ASSUME NEW th \in Threads, DispatchReturn(th) PROVE Delivers(u)'
  <2>1. /\ pc' = [pc EXCEPT ![th] = "idle"]
        /\ arg' = [arg EXCEPT ![th] = {}]
        /\ UNCHANGED <<snapshot, due, got, listeners>>
    BY <1>6 DEF DispatchReturn, history, registry
  <2>2. CASE u = th
    BY <1>0, <2>1, <2>2 DEF TypeOK
  <2>3. CASE u # th
    <3>1. pc'[u] = pc[u] /\ arg'[u] = arg[u]
      BY <1>0, <2>1, <2>3 DEF TypeOK
    <3> QED BY <1>2, <2>1, <3>1
  <2> QED BY <2>2, <2>3
<1>11. ASSUME NEW th \in Threads, CallbackThrows(th) PROVE Delivers(u)'
  <2>1. /\ pc' = [pc EXCEPT ![th] = "idle"]
        /\ arg' = [arg EXCEPT ![th] = {}]
        /\ snapshot' = [snapshot EXCEPT ![th] = <<>>]
        /\ UNCHANGED <<due, got, listeners>>
    BY <1>11 DEF CallbackThrows, history, registry
  <2>2. CASE u = th
    BY <1>0, <2>1, <2>2 DEF TypeOK
  <2>3. CASE u # th
    <3>1. pc'[u] = pc[u] /\ arg'[u] = arg[u] /\ snapshot'[u] = snapshot[u]
      BY <1>0, <2>1, <2>3 DEF TypeOK
    <3> QED BY <1>2, <2>1, <3>1
  <2> QED BY <2>2, <2>3
<1>7. ASSUME NEW th \in Threads, NEW g \in Groups, CallUnlisten(th, g) PROVE Delivers(u)'
  <2>1. /\ pc[th] = "idle"
        /\ pc' = [pc EXCEPT ![th] = "unlisten"]
        /\ UNCHANGED <<arg, snapshot, due, got, listeners>>
    BY <1>7 DEF CallUnlisten, history, registry
  <2>2. pc'[u] = "snapshot" <=> pc[u] = "snapshot"
    BY <1>0, <2>1 DEF TypeOK
  <2> QED BY <1>2, <2>1, <2>2
<1>8. ASSUME NEW th \in Threads, NEW g \in Groups, NEW e \in Events, DispatchLock(th, g, e)
      PROVE  Delivers(u)'
  <2>1. /\ pc' = [pc EXCEPT ![th] = "snapshot"]
        /\ arg' = [arg EXCEPT ![th] = {<<g, e>>}]
        /\ due' = [due EXCEPT ![th] = Matching(listeners, g, e)]
        /\ got' = [got EXCEPT ![th] = <<>>]
        /\ UNCHANGED <<snapshot, listeners>>
    BY <1>8 DEF DispatchLock, registry
  <2>2. CASE u = th
    <3>1. pc'[u] = "snapshot" /\ arg'[u] = {<<g, e>>} /\ got'[u] = <<>>
      BY <1>0, <2>1, <2>2 DEF TypeOK
    <3>2. due'[u] = Matching(listeners', g, e)
      BY <1>0, <2>1, <2>2 DEF TypeOK
    <3>3. \A a \in arg'[u] : a[1] = g /\ a[2] = e
      BY <3>1
    <3> QED BY <3>1, <3>2, <3>3
  <2>3. CASE u # th
    <3>1. pc'[u] = pc[u] /\ arg'[u] = arg[u] /\ due'[u] = due[u] /\ got'[u] = got[u]
      BY <1>0, <2>1, <2>3 DEF TypeOK
    <3> QED BY <1>2, <2>1, <3>1
  <2> QED BY <2>2, <2>3
<1>9. ASSUME NEW th \in Threads, NEW g \in Groups, NEW c \in Callbacks,
             NEW es \in SUBSET Events, Listen(th, g, c, es)
      PROVE  Delivers(u)'
  <2>1. UNCHANGED <<pc, arg, snapshot, due, got>>
    BY <1>9 DEF Listen, history
  <2>2. pc[u] # "snapshot"
    BY <1>0, <1>9 DEF Listen, MutexFree, ControlInv
  <2> QED BY <1>2, <2>1, <2>2
<1>10. CASE UNCHANGED vars
  <2>1. UNCHANGED <<pc, arg, snapshot, due, got, listeners>>
    BY <1>10 DEF vars, history, registry
  <2> QED BY <1>2, <2>1
<1> QED BY <1>3, <1>4, <1>5, <1>6, <1>7, <1>8, <1>9, <1>10, <1>11, NextCases

\* The registry of a process that starts satisfies the invariant.
LEMMA InitIInv == Init => IInv
<1> SUFFICES ASSUME Init PROVE IInv
  OBVIOUS
<1>1. DOMAIN listeners = {} /\ Places(listeners) = {}
  BY DEF Init, EmptyMap, Places
<1>2. IsFiniteSet(Places(listeners)) /\ CountMatches
  BY <1>1, FS_EmptySet DEF Init, CountMatches, Registered
<1>3. TypeOK
  BY <1>1, BoundsAssumption DEF Init, TypeOK
<1>4. ControlInv /\ DeliveryInv
  BY DEF Init, ControlInv, DeliveryInv
<1> QED BY <1>2, <1>3, <1>4 DEF IInv

\* Every step keeps the invariant.
LEMMA StepIInv == IInv /\ [Next]_vars => IInv'
BY TypeStep, RegistryStep, ControlStep, DeliveryStep DEF IInv, RegistryInv

-----------------------------------------------------------------------------
\* The invariant holds always: in particular, a thread between the lock and the
\* copy of dispatch() is the owner of mutex_.
THEOREM Invariant == Spec => []IInv
BY InitIInv, StepIInv, PTL DEF Spec

\* The state keeps its types; callbacks_count_ never falls below zero
\* (events.cpp:30-32).
THEOREM TypeCorrect == Spec => []TypeOK
<1>1. IInv => TypeOK
  BY DEF IInv
<1> QED BY <1>1, Invariant, PTL

\* callbacks_count_ is the number of callbacks in the map, through any mix of
\* listen(), unlisten() and dispatch() (events.cpp:25 and 30-32).
THEOREM CountCorrect == Spec => []CountMatches
<1>1. IInv => CountMatches
  BY DEF IInv
<1> QED BY <1>1, Invariant, PTL

\* The beginning of a \o b is a.
LEMMA Beginning ==
  ASSUME NEW S, NEW a \in Seq(S), NEW b \in Seq(S)
  PROVE  a = SubSeq(a \o b, 1, Len(a))
OBVIOUS

\* A dispatch() that returns has invoked, in order and once each, the callbacks
\* that were registered when it took the lock, whoever has listened or
\* unlistened since; one that a callback's exception ends has invoked the first
\* of them (events.cpp:38-53).
THEOREM DeliveryCorrect == Spec => SnapshotDelivered
<1> DEFINE Delivered ==
      \A th \in Threads :
        pc[th] = "calling" /\ pc'[th] = "idle" =>
          /\ snapshot[th] = <<>> => got[th] = due[th]
          /\ got[th] = SubSeq(due[th], 1, Len(got[th]))
<1>1. IInv /\ [Next]_vars => [Delivered]_vars
  <2> SUFFICES ASSUME IInv, NEW th \in Threads, pc[th] = "calling"
               PROVE  /\ snapshot[th] = <<>> => got[th] = due[th]
                      /\ got[th] = SubSeq(due[th], 1, Len(got[th]))
    OBVIOUS
  <2>1. due[th] = got[th] \o snapshot[th]
    BY DEF IInv, ControlInv, DeliveryInv
  <2>2. got[th] \in Seq(Callbacks) /\ snapshot[th] \in Seq(Callbacks)
    BY DEF IInv, TypeOK
  <2>3. got[th] = SubSeq(got[th] \o snapshot[th], 1, Len(got[th]))
    BY <2>2, Beginning
  <2>4. snapshot[th] = <<>> => got[th] \o snapshot[th] = got[th]
    BY <2>2
  <2> QED BY <2>1, <2>3, <2>4
<1> QED BY <1>1, Invariant, PTL DEF Spec, SnapshotDelivered

=============================================================================
