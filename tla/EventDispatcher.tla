--------------------------- MODULE EventDispatcher ---------------------------
(***************************************************************************)
(* EventDispatcher of src/src/events/events.cpp: the process-wide registry  *)
(* through which Inference tells the server and the metrics what a run is   *)
(* doing.  Any thread may call listen(), unlisten() and dispatch(), and a   *)
(* callback that dispatch() invokes may itself call unlisten().             *)
(*                                                                         *)
(* mutex_ is not recursive.  listen() and unlisten() hold it for their      *)
(* whole body and are one step each; dispatch() holds it only while it      *)
(* copies the matching callbacks.                                           *)
(***************************************************************************)
EXTENDS ListenerMap, Functions

CONSTANTS Threads, Groups, Callbacks, Events,
          MaxDispatches,   \* bound on the calls of dispatch()
          MaxUnlistens     \* bound on the calls of unlisten()

ASSUME BoundsAssumption == MaxDispatches \in Nat /\ MaxUnlistens \in Nat

VARIABLES listeners,        \* listeners
          callbacksCount,   \* callbacks_count_
          mutex,            \* the set holding the owner of mutex_, if any
          pc,               \* what each thread is doing
          arg,              \* the group and event of its dispatch()
          snapshot,         \* callbacks left to invoke in its dispatch()
          target,           \* the group its unlisten() is about
          due, got,         \* history: callbacks owed to, and made by, its dispatch()
          dispatches, unlistens, used

registry == <<listeners, callbacksCount>>
history == <<due, got>>
calls == <<dispatches, unlistens, used>>
vars == <<registry, mutex, pc, arg, snapshot, target, history, calls>>

MutexFree == mutex = {}
Dispatching(th) == arg[th] # {}

TypeOK ==
  /\ DOMAIN listeners \subseteq Groups
  /\ \A g \in DOMAIN listeners :
       listeners[g] \in Seq([callback : Callbacks, events : SUBSET Events])
  /\ callbacksCount \in Nat
  /\ mutex \in SUBSET Threads
  /\ pc \in [Threads -> {"idle", "snapshot", "calling", "unlisten"}]
  /\ arg \in [Threads -> SUBSET (Groups \X Events)]
  /\ snapshot \in [Threads -> Seq(Callbacks)]
  /\ target \in [Threads -> SUBSET Groups]
  /\ due \in [Threads -> Seq(Callbacks)]
  /\ got \in [Threads -> Seq(Callbacks)]
  /\ dispatches \in 0..MaxDispatches
  /\ unlistens \in 0..MaxUnlistens
  /\ used \in SUBSET Callbacks

Init ==
  /\ listeners = EmptyMap
  /\ callbacksCount = 0
  /\ mutex = {}
  /\ pc = [th \in Threads |-> "idle"]
  /\ arg = [th \in Threads |-> {}]
  /\ snapshot = [th \in Threads |-> <<>>]
  /\ target = [th \in Threads |-> {}]
  /\ due = [th \in Threads |-> <<>>]
  /\ got = [th \in Threads |-> <<>>]
  /\ dispatches = 0
  /\ unlistens = 0
  /\ used = {}

-----------------------------------------------------------------------------
Listen(th, g, callback, events) ==
  /\ pc[th] = "idle"
  /\ callback \notin used
  /\ MutexFree
  /\ listeners' = Listened(listeners, g, [callback |-> callback, events |-> events])
  /\ callbacksCount' = callbacksCount + 1
  /\ used' = used \cup {callback}
  /\ UNCHANGED <<mutex, pc, arg, snapshot, target, history, dispatches, unlistens>>

\* unlisten() is called, by a thread of its own accord.
CallUnlisten(th, g) ==
  /\ pc[th] = "idle"
  /\ unlistens < MaxUnlistens
  /\ unlistens' = unlistens + 1
  /\ target' = [target EXCEPT ![th] = {g}]
  /\ pc' = [pc EXCEPT ![th] = "unlisten"]
  /\ UNCHANGED <<registry, mutex, arg, snapshot, history, dispatches, used>>

\* Mutant: one is subtracted for a group, whatever it holds.
RemovedOne(g) == 1

Removed(g) == Len(Subscript(listeners, g)[g])

\* The body of unlisten(), under the mutex, and its return to the callback
\* that called it or to the thread's own code.
Unlisten(th) ==
  /\ pc[th] = "unlisten"
  /\ MutexFree
  /\ \E g \in target[th] :
       /\ listeners' = Erased(Subscript(listeners, g), g)
       /\ callbacksCount' = callbacksCount - Removed(g)
  /\ target' = [target EXCEPT ![th] = {}]
  /\ pc' = [pc EXCEPT ![th] = IF Dispatching(th) THEN "calling" ELSE "idle"]
  /\ UNCHANGED <<mutex, arg, snapshot, history, calls>>

-----------------------------------------------------------------------------
\* dispatch(), in three parts.

DispatchLock(th, g, event) ==
  /\ pc[th] = "idle"
  /\ dispatches < MaxDispatches
  /\ MutexFree
  /\ mutex' = {th}
  /\ arg' = [arg EXCEPT ![th] = {<<g, event>>}]
  /\ due' = [due EXCEPT ![th] = Matching(listeners, g, event)]
  /\ got' = [got EXCEPT ![th] = <<>>]
  /\ pc' = [pc EXCEPT ![th] = "snapshot"]
  /\ dispatches' = dispatches + 1
  /\ UNCHANGED <<registry, snapshot, target, unlistens, used>>

\* Mutant: the mutex stays locked while the callbacks run.
MutexAfterCopyHeld == mutex

MutexAfterCopy == {}

\* The copy of the matching callbacks; leaving the block unlocks the mutex.
DispatchSnapshot(th) ==
  /\ pc[th] = "snapshot"
  /\ \E a \in arg[th] :
       /\ listeners' = Subscript(listeners, a[1])
       /\ snapshot' = [snapshot EXCEPT ![th] = Matching(listeners, a[1], a[2])]
  /\ mutex' = MutexAfterCopy
  /\ pc' = [pc EXCEPT ![th] = "calling"]
  /\ UNCHANGED <<callbacksCount, arg, target, history, calls>>

\* Mutant: the loop runs over the map, where the callback may be gone.
InvokedLive(th) ==
  SelectSeq(<<Head(snapshot[th])>>,
            LAMBDA c : \E g \in DOMAIN listeners : c \in {l.callback : l \in Range(listeners[g])})

Invoked(th) == <<Head(snapshot[th])>>

\* cb(event): the callback returns, or goes into unlisten() first.
InvokeCallback(th) ==
  /\ pc[th] = "calling"
  /\ snapshot[th] # <<>>
  /\ got' = [got EXCEPT ![th] = @ \o Invoked(th)]
  /\ snapshot' = [snapshot EXCEPT ![th] = Tail(@)]
  /\ \/ UNCHANGED <<pc, target, unlistens>>
     \/ /\ unlistens < MaxUnlistens
        /\ unlistens' = unlistens + 1
        /\ pc' = [pc EXCEPT ![th] = "unlisten"]
        /\ \E g \in Groups : target' = [target EXCEPT ![th] = {g}]
  /\ UNCHANGED <<registry, mutex, arg, due, dispatches, used>>

DispatchReturn(th) ==
  /\ pc[th] = "calling"
  /\ snapshot[th] = <<>>
  /\ arg' = [arg EXCEPT ![th] = {}]
  /\ pc' = [pc EXCEPT ![th] = "idle"]
  /\ UNCHANGED <<registry, mutex, snapshot, target, history, calls>>

\* The callback invoked last throws, from its own code or after its unlisten().
\* Nothing catches it in dispatch(): the copy is dropped with the callbacks
\* that are left in it.
CallbackThrows(th) ==
  /\ pc[th] = "calling"
  /\ got[th] # <<>>
  /\ snapshot' = [snapshot EXCEPT ![th] = <<>>]
  /\ arg' = [arg EXCEPT ![th] = {}]
  /\ pc' = [pc EXCEPT ![th] = "idle"]
  /\ UNCHANGED <<registry, mutex, target, history, calls>>

-----------------------------------------------------------------------------
Progress(th) ==
  \/ Unlisten(th) \/ DispatchSnapshot(th) \/ InvokeCallback(th)
  \/ DispatchReturn(th) \/ CallbackThrows(th)

Next ==
  \E th \in Threads :
    \/ Progress(th)
    \/ \E g \in Groups : CallUnlisten(th, g)
    \/ \E g \in Groups, e \in Events : DispatchLock(th, g, e)
    \/ \E g \in Groups, c \in Callbacks, es \in SUBSET Events : Listen(th, g, c, es)

\* A thread inside a call goes on.  With the calls bounded, the mutex is not
\* taken for ever by others.
Fairness == \A th \in Threads : WF_vars(Progress(th))

Spec == Init /\ [][Next]_vars
FairSpec == Spec /\ Fairness

-----------------------------------------------------------------------------
\* callbacks_count_ is the number of callbacks the map holds, whatever mix of
\* calls reached it (events.cpp:25 and 30-32).
CountMatches == callbacksCount = Registered(listeners)

\* dispatch() invokes, once each and in the order of registration, exactly the
\* callbacks that were registered for the event when it took the lock, even
\* when a callback or another thread removes the group under way
\* (events.cpp:38-40).  One that a callback's exception cuts short, with
\* callbacks left, has invoked the first of them and no other.
SnapshotDelivered ==
  [][\A th \in Threads :
       pc[th] = "calling" /\ pc'[th] = "idle" =>
         /\ snapshot[th] = <<>> => got[th] = due[th]
         /\ got[th] = SubSeq(due[th], 1, Len(got[th]))]_vars

\* A call that has begun returns: a callback may unlisten from inside
\* dispatch() without waiting for a mutex its own thread holds.
CallsReturn == \A th \in Threads : pc[th] # "idle" ~> pc[th] = "idle"

=============================================================================
