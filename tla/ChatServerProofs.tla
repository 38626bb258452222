-------------------------- MODULE ChatServerProofs --------------------------
(***************************************************************************)
(* Proofs about ChatServer, for every set of chats and every number of      *)
(* tokens: what the sessions are handed, and what stays in the dispatcher.  *)
(***************************************************************************)
EXTENDS ChatServer, DataLemmas

-----------------------------------------------------------------------------
\* The inductive invariant.

Before == {"idle", "waiting", "connected"}    \* the handler has not listened yet
Sent == {"submitted", "returned"}             \* it has submitted its task
Own(c) == [callback |-> c, events |-> Events]

TypeInv ==
  /\ handler \in [Chats -> Before \cup {"listening"} \cup Sent]
  /\ pending \in Seq(Chats)
  /\ active \subseteq Chats /\ \A c, d \in active : c = d
  /\ outcome \in [Chats -> {"unsent", "waiting", "value", "error", "stopped"}]
  /\ emitted \in [Chats -> Seq(Events)]
  /\ delivered \in [Chats -> Seq(Chats \X Nat)]
  /\ DOMAIN listeners \subseteq Chats

\* The worker has each submitted chat once, and no run has begun that is still
\* queued.
QueueInv ==
  /\ \A c \in Chats : outcome[c] = "unsent" <=> handler[c] \notin Sent
  /\ \A c \in Chats : outcome[c] = "unsent" => emitted[c] = <<>>
  /\ \A c \in active : outcome[c] = "waiting"
  /\ \A j \in 1..Len(pending) :
       pending[j] \notin active /\ outcome[pending[j]] = "waiting" /\ emitted[pending[j]] = <<>>
  /\ \A j, k \in 1..Len(pending) : pending[j] = pending[k] => j = k

\* Every chat has its own callback in the dispatcher from listen() until its
\* completion, unless another chat cut it off, and then no callback.
MapInv ==
  /\ \A c \in DOMAIN listeners : handler[c] \notin Before /\ listeners[c] \in {<<>>, <<Own(c)>>}
  /\ \A c \in cut : c \in Chats /\ handler[c] \notin Before
  /\ \A c \in DOMAIN listeners \cap cut : listeners[c] = <<>>
  /\ \A c \in Chats \ cut :
       handler[c] \notin Before /\ ~Completed(c) =>
         c \in DOMAIN listeners /\ listeners[c] = <<Own(c)>>

\* A dispatch() calls at most the callback of the run's own chat.
DispatchInv ==
  /\ calls = <<>> \/ \E c \in active : calls = <<c>>
  /\ callback \subseteq active
  /\ calls # <<>> => callback = {}
  /\ \A c \in callback : Completed(c)

\* The events of a chat are delivered but for the one being dispatched.
Missing(c) == IF calls = <<c>> THEN 1 ELSE 0
DeliveryInv ==
  /\ OwnEventsInOrder
  /\ calls # <<>> => \A c \in active : Len(emitted[c]) = Len(delivered[c]) + 1
  /\ \A c \in Chats \ cut : Len(emitted[c]) = Len(delivered[c]) + Missing(c)

\* A run whose completion was dispatched has left nothing in the dispatcher.
CleanInv ==
  /\ NothingLeftListening
  /\ process = "up" /\ ~InDispatch =>
       \A c \in active \ (cut \cup strayed) : Completed(c) => c \notin DOMAIN listeners

IInv == TypeInv /\ QueueInv /\ MapInv /\ DispatchInv /\ DeliveryInv /\ CleanInv

-----------------------------------------------------------------------------
\* What the dispatcher does to its map.

\* operator[] finds the vector of the group, or makes an empty one.
LEMMA SubscriptMap ==
  ASSUME NEW m, NEW g
  PROVE  /\ DOMAIN Subscript(m, g) = DOMAIN m \cup {g}
         /\ \A h \in DOMAIN m : Subscript(m, g)[h] = m[h]
         /\ g \notin DOMAIN m => Subscript(m, g)[g] = <<>>
BY DEF Subscript

\* unlisten() takes one group away and leaves the others.
LEMMA ErasedMap ==
  ASSUME NEW m, NEW g
  PROVE  /\ DOMAIN Erased(Subscript(m, g), g) = DOMAIN m \ {g}
         /\ \A h \in DOMAIN m \ {g} : Erased(Subscript(m, g), g)[h] = m[h]
<1>1. DOMAIN Subscript(m, g) = DOMAIN m \cup {g} /\ \A h \in DOMAIN m : Subscript(m, g)[h] = m[h]
  BY SubscriptMap
<1> QED BY <1>1 DEF Erased

\* The snapshot that dispatch() takes for a chat: its own callback, or none.
LEMMA MatchingOwn ==
  ASSUME NEW m, NEW c, NEW e \in Events
  PROVE  /\ c \notin DOMAIN m \/ m[c] = <<>> => Matching(m, c, e) = <<>>
         /\ c \in DOMAIN m /\ m[c] = <<Own(c)>> => Matching(m, c, e) = <<c>>
<1> DEFINE R == {Own(c)}
           v == Subscript(m, c)[c]
<1>1. ASSUME c \notin DOMAIN m \/ m[c] = <<>> PROVE Matching(m, c, e) = <<>>
  <2>1. v = <<>>
    BY <1>1, SubscriptMap
  <2>2. <<>> \in Seq(R) /\ Len(<<>>) = 0
    OBVIOUS
  <2>3. Wanting(<<>>, e) = <<>>
    <3> HIDE DEF R
    <3> QED BY <2>2, WantingSmall
  <2> QED BY <2>1, <2>3 DEF Matching
<1>2. ASSUME c \in DOMAIN m, m[c] = <<Own(c)>> PROVE Matching(m, c, e) = <<c>>
  <2>1. v = <<Own(c)>>
    BY <1>2, SubscriptMap
  <2> DEFINE w == <<Own(c)>>
  <2>2. w \in Seq(R) /\ Len(w) = 1 /\ w[1] = Own(c)
    OBVIOUS
  <2>3. e \in w[1].events /\ w[1].callback = c
    BY <2>2 DEF Own
  <2>4. Wanting(w, e) = <<w[1].callback>>
    <3> HIDE DEF R, w
    <3> QED BY <2>2, <2>3, WantingSmall
  <2> QED BY <2>1, <2>3, <2>4 DEF Matching
<1> QED BY <1>1, <1>2

-----------------------------------------------------------------------------
\* The steps, told apart by what they do to the chats.

\* Nothing but the way of a handler, the acceptor or main().
Quiet ==
  /\ UNCHANGED <<listeners, pending, active, outcome, emitted, calls, callback, delivered, cut, strayed>>
  /\ handler' \in [Chats -> Before \cup {"listening"} \cup Sent]
  /\ \A c \in Chats : /\ handler'[c] \in Before <=> handler[c] \in Before
                      /\ handler'[c] \in Sent <=> handler[c] \in Sent
  /\ process' = "up" => process = "up"

\* Every step is quiet or one of listen(), the worker's and the callbacks'.
LEMMA NextCases ==
  ASSUME TypeInv, [Next]_vars
  PROVE  \/ Quiet
         \/ /\ process = "up"
            /\ \/ StartRun \/ Deliver \/ Unlisten \/ UnlistenThrows \/ CancelQueued
               \/ \E c \in Chats : Listen(c) \/ Submit(c) \/ FinishRun(c) \/ \E e \in Events : Emit(c, e)
<1>1. CASE UNCHANGED vars
  BY <1>1 DEF vars, workerVars, runVars, history, Quiet, TypeInv
<1>2. ASSUME process = "up", NEW c \in Chats, Connect(c) \/ Accept(c) \/ Return(c) \/ InvokeThrows(c)
      PROVE  Quiet
  BY <1>2 DEF Connect, Accept, Return, InvokeThrows, Moves, workerVars, runVars, history, Quiet,
     TypeInv, Before, Sent
<1>3. ASSUME process = "up", DoAccept \/ AcceptFails \/ Signal \/ Main
      PROVE  Quiet
  BY <1>3 DEF DoAccept, AcceptFails, Signal, Main, OutOfWork, TearDown, Unload, StopWorker, Exit,
     Worker!Shut, workerVars, runVars, history, Quiet, TypeInv
<1> QED BY <1>1, <1>2, <1>3 DEF Next, WorkerThread, Acceptor, Handler

\* What an Emit changes.
LEMMA EmitFacts ==
  ASSUME IInv, NEW c \in Chats, NEW e \in Events, Emit(c, e)
  PROVE  /\ active = {c} /\ ~InDispatch /\ ~Completed(c)
         /\ emitted' = [emitted EXCEPT ![c] = Append(emitted[c], e)]
         /\ emitted[c] \in Seq(Events)
         /\ Len(emitted'[c]) = Len(emitted[c]) + 1
         /\ emitted'[c] # <<>>
         /\ Completed(c)' <=> e = "completed"
         /\ \A d \in Chats : d # c => emitted'[d] = emitted[d] /\ (Completed(d)' <=> Completed(d))
         /\ UNCHANGED <<handler, pending, active, outcome, callback, delivered, cut, strayed>>
<1>1. /\ active = {c} /\ ~InDispatch /\ ~Completed(c)
      /\ emitted' = [emitted EXCEPT ![c] = Append(emitted[c], e)]
      /\ UNCHANGED <<handler, pending, active, outcome, callback, delivered, cut, strayed>>
  BY DEF Emit, workerVars, history
<1>2. emitted \in [Chats -> Seq(Events)]
  BY DEF IInv, TypeInv
<1>3. emitted[c] \in Seq(Events) /\ emitted'[c] = Append(emitted[c], e)
  BY <1>1, <1>2
<1> DEFINE s == emitted[c]
<1>4. /\ Len(Append(s, e)) = Len(s) + 1 /\ Append(s, e) # <<>>
      /\ Append(s, e)[Len(Append(s, e))] = e
  <2> HIDE DEF s
  <2>1. s \in Seq(Events)
    BY <1>3 DEF s
  <2> QED BY <2>1
<1>5. \A d \in Chats : d # c => emitted'[d] = emitted[d]
  BY <1>1, <1>2
<1> QED BY <1>1, <1>3, <1>4, <1>5 DEF Completed

\* Every step keeps the types.
LEMMA TypeStep == ASSUME IInv, [Next]_vars PROVE TypeInv'
<1>0. TypeInv /\ DispatchInv
  BY DEF IInv
<1>1. CASE Quiet
  BY <1>0, <1>1 DEF Quiet, TypeInv
<1>2. ASSUME NEW c \in Chats, Listen(c) PROVE TypeInv'
  <2>1. DOMAIN listeners' \subseteq Chats
    <3>1. DOMAIN Listened(listeners, c, [callback |-> c, events |-> ListenedEvents]) = DOMAIN listeners \cup {c}
      BY DEF Listened, Subscript
    <3> QED BY <1>0, <1>2, <3>1 DEF Listen, TypeInv
  <2> QED BY <1>0, <1>2, <2>1 DEF Listen, Moves, TypeInv, workerVars, runVars
<1>3. ASSUME NEW c \in Chats, Submit(c) PROVE TypeInv'
  BY <1>0, <1>3 DEF Submit, Moves, Worker!Accept, TypeInv, runVars, Sent
<1>4. CASE StartRun
  <2>1. Head(pending) \in Chats /\ Tail(pending) \in Seq(Chats)
    BY <1>0, <1>4 DEF StartRun, Worker!Start, TypeInv
  <2> QED BY <1>0, <1>4, <2>1 DEF StartRun, Worker!Start, TypeInv, runVars
<1>5. ASSUME NEW c \in Chats, NEW e \in Events, Emit(c, e) PROVE TypeInv'
  <2>1. emitted' \in [Chats -> Seq(Events)]
    BY <1>0, <1>5 DEF Emit, TypeInv
  <2>2. DOMAIN listeners' \subseteq Chats
    <3>1. listeners' = Subscript(listeners, c) /\ DOMAIN Subscript(listeners, c) = DOMAIN listeners \cup {c}
      BY <1>5 DEF Emit, Subscript
    <3> QED BY <1>0, <3>1 DEF TypeInv
  <2> QED BY <1>0, <1>5, <2>1, <2>2 DEF Emit, TypeInv, workerVars
<1>6. CASE Deliver
  <2>1. PICK c \in active : delivered' = [delivered EXCEPT ![Head(calls)] = Append(@, <<c, Len(emitted[c])>>)]
    BY <1>6 DEF Deliver
  <2>2. c \in Chats /\ Len(emitted[c]) \in Nat
    BY <1>0, <2>1 DEF TypeInv
  <2>3. <<c, Len(emitted[c])>> \in Chats \X Nat
    BY <2>2
  <2>4. \A s \in Seq(Chats \X Nat) : Append(s, <<c, Len(emitted[c])>>) \in Seq(Chats \X Nat)
    BY <2>3
  <2>5. delivered' \in [Chats -> Seq(Chats \X Nat)]
    BY <1>0, <2>1, <2>4 DEF TypeInv
  <2> QED BY <1>0, <1>6, <2>5 DEF Deliver, TypeInv, workerVars
<1>7. CASE Unlisten
  <2>1. DOMAIN listeners' \subseteq DOMAIN listeners
    <3>1. listeners' = listeners \/ \E g : listeners' = Erased(Subscript(listeners, g), g)
      BY <1>7 DEF Unlisten
    <3> QED BY <3>1, ErasedMap
  <2> QED BY <1>0, <1>7, <2>1 DEF Unlisten, TypeInv, workerVars
<1>8. CASE UnlistenThrows \/ \E c \in Chats : FinishRun(c)
  <2>1. \E c \in Chats : Worker!Finish(c)
    BY <1>0, <1>8 DEF UnlistenThrows, FinishRun, TypeInv
  <2>2. UNCHANGED <<handler, emitted, delivered, listeners>>
    BY <1>8 DEF UnlistenThrows, FinishRun, runVars
  <2> QED BY <1>0, <2>1, <2>2 DEF Worker!Finish, TypeInv
<1>9. CASE CancelQueued
  <2>1. Tail(pending) \in Seq(Chats)
    BY <1>0, <1>9 DEF CancelQueued, Worker!Cancel, TypeInv
  <2> QED BY <1>0, <1>9, <2>1 DEF CancelQueued, Worker!Cancel, TypeInv, runVars
<1> QED BY <1>0, <1>1, <1>2, <1>3, <1>4, <1>5, <1>6, <1>7, <1>8, <1>9, NextCases

\* Every step keeps what is known of the worker's queue.
LEMMA QueueStep == ASSUME IInv, [Next]_vars PROVE QueueInv'
<1>0. TypeInv /\ QueueInv
  BY DEF IInv
<1>1. CASE Quiet
  BY <1>0, <1>1 DEF Quiet, QueueInv, TypeInv
<1>2. ASSUME NEW c \in Chats, Listen(c) PROVE QueueInv'
  <2>1. handler' = [handler EXCEPT ![c] = "listening"] /\ handler[c] = "connected"
        /\ UNCHANGED <<pending, active, outcome, emitted>>
    BY <1>2 DEF Listen, Moves, workerVars, runVars
  <2>2. \A d \in Chats : handler'[d] \in Sent <=> handler[d] \in Sent
    BY <1>0, <2>1 DEF TypeInv, Sent
  <2> QED BY <1>0, <2>1, <2>2 DEF QueueInv
<1>3. ASSUME NEW c \in Chats, Submit(c) PROVE QueueInv'
  <2>1. /\ handler' = [handler EXCEPT ![c] = "submitted"]
        /\ outcome[c] = "unsent" /\ outcome' = [outcome EXCEPT ![c] = "waiting"]
        /\ pending' = Append(pending, c) /\ UNCHANGED <<active, emitted>>
    BY <1>3 DEF Submit, Moves, Worker!Accept, runVars
  <2>2. /\ pending \in Seq(Chats) /\ Len(pending') = Len(pending) + 1 /\ Len(pending) \in Nat
        /\ pending'[Len(pending) + 1] = c
        /\ \A j \in 1..Len(pending) : pending'[j] = pending[j] /\ pending[j] \in Chats
    BY <1>0, <2>1 DEF TypeInv
  <2>3. /\ \A d \in Chats : d # c => outcome'[d] = outcome[d] /\ handler'[d] = handler[d]
        /\ outcome'[c] = "waiting" /\ handler'[c] \in Sent
    BY <1>0, <2>1 DEF TypeInv, Sent
  <2>4. \A j \in 1..Len(pending) : pending[j] # c
    BY <1>0, <2>1, <2>2 DEF QueueInv
  <2>5. c \notin active /\ emitted[c] = <<>>
    BY <1>0, <2>1 DEF QueueInv
  <2>6. \A j \in 1..Len(pending') : j \in 1..Len(pending) \/ j = Len(pending) + 1
    BY <2>2
  <2>7. \A j \in 1..Len(pending') :
          pending'[j] \notin active' /\ outcome'[pending'[j]] = "waiting" /\ emitted'[pending'[j]] = <<>>
    BY <1>0, <2>1, <2>2, <2>3, <2>4, <2>5, <2>6 DEF QueueInv
  <2>8. \A j, k \in 1..Len(pending') : pending'[j] = pending'[k] => j = k
    BY <1>0, <2>2, <2>4, <2>6 DEF QueueInv
  <2>9. \A d \in active' : outcome'[d] = "waiting"
    BY <1>0, <2>1, <2>3, <2>5 DEF QueueInv, TypeInv
  <2>10. \A d \in Chats : /\ outcome'[d] = "unsent" <=> handler'[d] \notin Sent
                          /\ outcome'[d] = "unsent" => emitted'[d] = <<>>
    BY <1>0, <2>1, <2>3 DEF QueueInv
  <2> QED BY <2>7, <2>8, <2>9, <2>10 DEF QueueInv
<1>4. ASSUME Tail(pending) = pending', pending # <<>>
      PROVE  /\ Len(pending') = Len(pending) - 1 /\ Len(pending) \in Nat
             /\ \A j \in 1..Len(pending') : /\ pending'[j] = pending[j + 1]
                                            /\ j + 1 \in 1..Len(pending)
                                            /\ pending[j + 1] # Head(pending)
             /\ 1 \in 1..Len(pending) /\ pending[1] = Head(pending) /\ Head(pending) \in Chats
             /\ \A j, k \in 1..Len(pending') : pending'[j] = pending'[k] => j = k
  <2>1. pending \in Seq(Chats)
    BY <1>0 DEF TypeInv
  <2>2. /\ Len(pending') = Len(pending) - 1 /\ Len(pending) \in Nat
        /\ \A j \in 1..Len(pending') : pending'[j] = pending[j + 1] /\ j + 1 \in 1..Len(pending)
        /\ 1 \in 1..Len(pending) /\ pending[1] = Head(pending) /\ Head(pending) \in Chats
    BY <1>4, <2>1
  <2>3. \A j \in 1..Len(pending') : pending[j + 1] # Head(pending)
    BY <1>0, <2>2 DEF QueueInv
  <2>4. \A j, k \in 1..Len(pending') : pending'[j] = pending'[k] => j = k
    <3> SUFFICES ASSUME NEW j \in 1..Len(pending'), NEW k \in 1..Len(pending'), pending'[j] = pending'[k]
                 PROVE  j = k
      OBVIOUS
    <3>1. pending[j + 1] = pending[k + 1] /\ j + 1 \in 1..Len(pending) /\ k + 1 \in 1..Len(pending)
      BY <2>2
    <3>2. j + 1 = k + 1
      BY <1>0, <3>1 DEF QueueInv
    <3> QED BY <2>2, <3>2
  <2> QED BY <2>2, <2>3, <2>4
<1>5. CASE StartRun
  <2>1. /\ active' = {Head(pending)} /\ Tail(pending) = pending' /\ pending # <<>>
        /\ UNCHANGED <<handler, outcome, emitted>>
    BY <1>5 DEF StartRun, Worker!Start, runVars
  <2>2. \A d \in active' : outcome'[d] = "waiting"
    BY <1>0, <1>4, <2>1 DEF QueueInv
  <2>3. \A j \in 1..Len(pending') :
          pending'[j] \notin active' /\ outcome'[pending'[j]] = "waiting" /\ emitted'[pending'[j]] = <<>>
    BY <1>0, <1>4, <2>1 DEF QueueInv
  <2>4. \A j, k \in 1..Len(pending') : pending'[j] = pending'[k] => j = k
    BY <1>4, <2>1
  <2> QED BY <1>0, <2>1, <2>2, <2>3, <2>4 DEF QueueInv
<1>6. ASSUME NEW c \in Chats, NEW e \in Events, Emit(c, e) PROVE QueueInv'
  <2>1. /\ active = {c} /\ UNCHANGED <<handler, pending, active, outcome>>
        /\ \A d \in Chats : d # c => emitted'[d] = emitted[d]
    BY <1>6, EmitFacts
  <2>2. \A j \in 1..Len(pending) : pending[j] \in Chats
    BY <1>0 DEF TypeInv
  <2>3. outcome[c] = "waiting"
    BY <1>0, <2>1 DEF QueueInv
  <2> QED BY <1>0, <2>1, <2>2, <2>3 DEF QueueInv
<1>7. CASE Deliver \/ Unlisten
  BY <1>0, <1>7 DEF Deliver, Unlisten, QueueInv, workerVars
<1>8. CASE UnlistenThrows \/ \E c \in Chats : FinishRun(c)
  <2>1. PICK c \in Chats : Worker!Finish(c)
    BY <1>0, <1>8 DEF UnlistenThrows, FinishRun, TypeInv
  <2>2. UNCHANGED <<handler, emitted>>
    BY <1>8 DEF UnlistenThrows, FinishRun, runVars
  <2>3. PICK r \in {"value", "error"} : outcome' = [outcome EXCEPT ![c] = r]
    BY <2>1 DEF Worker!Finish
  <2>4. active = {c} /\ active' = {} /\ outcome[c] = "waiting" /\ UNCHANGED pending
    BY <2>1 DEF Worker!Finish
  <2>5. \A j \in 1..Len(pending) : pending[j] \in Chats /\ pending[j] # c
    BY <1>0, <2>4 DEF TypeInv, QueueInv
  <2>6. outcome'[c] = r /\ \A d \in Chats : d # c => outcome'[d] = outcome[d]
    BY <1>0, <2>3 DEF TypeInv
  <2> QED BY <1>0, <2>2, <2>4, <2>5, <2>6 DEF QueueInv
<1>9. CASE CancelQueued
  <2>1. /\ active = {} /\ Tail(pending) = pending' /\ pending # <<>>
        /\ outcome[Head(pending)] = "waiting"
        /\ outcome' = [outcome EXCEPT ![Head(pending)] = "stopped"]
        /\ UNCHANGED <<handler, emitted, active>>
    BY <1>9 DEF CancelQueued, Worker!Cancel, runVars
  <2>2. \A j \in 1..Len(pending) : pending[j] \in Chats
    BY <1>0 DEF TypeInv
  <2>3. Head(pending) \in Chats
    BY <1>4, <2>1
  <2>4. /\ outcome'[Head(pending)] = "stopped"
        /\ \A d \in Chats : d # Head(pending) => outcome'[d] = outcome[d]
    BY <1>0, <2>1, <2>3 DEF TypeInv
  <2> QED BY <1>0, <1>4, <2>1, <2>2, <2>4 DEF QueueInv
<1> QED BY <1>0, <1>1, <1>2, <1>3, <1>5, <1>6, <1>7, <1>8, <1>9, NextCases

\* The snapshot of a dispatch() is the callback of the chat, or empty once
\* another chat has cut it off.
LEMMA EmitCalls ==
  ASSUME IInv, NEW c \in Chats, NEW e \in Events, Emit(c, e)
  PROVE  /\ c \in cut => calls' = <<>>
         /\ c \notin cut => calls' = <<c>> /\ c \in DOMAIN listeners
         /\ DOMAIN listeners' = DOMAIN listeners \cup {c}
         /\ \A d \in DOMAIN listeners : listeners'[d] = listeners[d]
         /\ c \notin DOMAIN listeners => listeners'[c] = <<>>
         /\ handler[c] \in Sent
<1>1. active = {c} /\ ~Completed(c)
  BY DEF Emit
<1>2. calls' = Matching(listeners, c, e) /\ listeners' = Subscript(listeners, c)
  BY DEF Emit
<1>3. handler[c] \in Sent
  BY <1>1 DEF IInv, QueueInv
<1>4. handler[c] \notin Before
  BY <1>3 DEF Sent, Before
<1>5. c \notin cut => c \in DOMAIN listeners /\ listeners[c] = <<Own(c)>>
  BY <1>1, <1>4 DEF IInv, MapInv
<1>6. c \in cut => c \notin DOMAIN listeners \/ listeners[c] = <<>>
  BY DEF IInv, MapInv
<1>7. c \notin cut => calls' = <<c>>
  BY <1>2, <1>5, MatchingOwn
<1>8. c \in cut => calls' = <<>>
  BY <1>2, <1>6, MatchingOwn
<1>9. /\ DOMAIN listeners' = DOMAIN listeners \cup {c}
      /\ \A d \in DOMAIN listeners : listeners'[d] = listeners[d]
      /\ c \notin DOMAIN listeners => listeners'[c] = <<>>
  BY <1>2 DEF Subscript
<1> QED BY <1>3, <1>5, <1>7, <1>8, <1>9

\* What listen() changes: the chat had no entry and has its own callback now.
LEMMA ListenFacts ==
  ASSUME IInv, NEW c \in Chats, Listen(c)
  PROVE  /\ handler[c] = "connected" /\ c \notin DOMAIN listeners
         /\ handler'[c] = "listening"
         /\ \A d \in Chats : d # c => handler'[d] = handler[d]
         /\ DOMAIN listeners' = DOMAIN listeners \cup {c}
         /\ listeners'[c] = <<Own(c)>>
         /\ \A d \in DOMAIN listeners : listeners'[d] = listeners[d]
         /\ UNCHANGED <<pending, active, outcome, emitted, calls, callback, delivered, cut, strayed, process>>
<1>1. /\ handler[c] = "connected" /\ handler' = [handler EXCEPT ![c] = "listening"]
      /\ listeners' = Listened(listeners, c, Own(c))
      /\ UNCHANGED <<pending, active, outcome, emitted, calls, callback, delivered, cut, strayed, process>>
  BY DEF Listen, Moves, ListenedEvents, Own, workerVars, runVars, history
<1>2. c \notin DOMAIN listeners
  BY <1>1 DEF IInv, MapInv, Before
<1>3. handler'[c] = "listening" /\ \A d \in Chats : d # c => handler'[d] = handler[d]
  BY <1>1 DEF IInv, TypeInv
<1>4. /\ DOMAIN Listened(listeners, c, Own(c)) = DOMAIN listeners \cup {c}
      /\ Listened(listeners, c, Own(c))[c] = <<Own(c)>>
      /\ \A d \in DOMAIN listeners : Listened(listeners, c, Own(c))[d] = listeners[d]
  <2> DEFINE own == Own(c)
  <2>1. DOMAIN Subscript(listeners, c) = DOMAIN listeners \cup {c} /\ Subscript(listeners, c)[c] = <<>>
    BY <1>2 DEF Subscript
  <2>2. \A d \in DOMAIN listeners : Subscript(listeners, c)[d] = listeners[d]
    BY DEF Subscript
  <2>3. Append(<<>>, own) = <<own>>
    OBVIOUS
  <2> HIDE DEF own
  <2> QED BY <1>2, <2>1, <2>2, <2>3 DEF Listened, own
<1> QED BY <1>1, <1>2, <1>3, <1>4

\* What a callback that has finished its chat does: it takes the entry of its
\* own chat, or of another one, which is then cut off, or it crashes.
LEMMA UnlistenFacts ==
  ASSUME IInv, Unlisten
  PROVE  /\ UNCHANGED <<handler, pending, active, outcome, emitted, calls, delivered>>
         /\ callback' = {}
         /\ \E d \in callback :
              \/ \E g : /\ DOMAIN listeners' = DOMAIN listeners \ {g}
                        /\ \A h \in DOMAIN listeners \ {g} : listeners'[h] = listeners[h]
                        /\ cut' = cut \cup ((DOMAIN listeners \cap {g}) \ {d})
                        /\ strayed' = strayed \cup ({d} \ {g})
              \/ UNCHANGED <<listeners, cut, strayed>> /\ process' = "crashed"
<1>1. /\ UNCHANGED <<handler, pending, active, outcome, emitted, calls, delivered>>
      /\ callback' = {}
  BY DEF Unlisten, workerVars
<1>2. PICK d \in callback :
        \/ \E g : /\ listeners' = Erased(Subscript(listeners, g), g)
                  /\ cut' = cut \cup ((DOMAIN listeners \cap {g}) \ {d})
                  /\ strayed' = strayed \cup ({d} \ {g})
        \/ UNCHANGED <<listeners, cut, strayed>> /\ process' = "crashed"
  BY DEF Unlisten, history
<1>3. ASSUME NEW g, listeners' = Erased(Subscript(listeners, g), g)
      PROVE  /\ DOMAIN listeners' = DOMAIN listeners \ {g}
             /\ \A h \in DOMAIN listeners \ {g} : listeners'[h] = listeners[h]
  BY <1>3, ErasedMap
<1> QED BY <1>1, <1>2, <1>3

\* What Deliver changes: the event of the run goes to its own session.
LEMMA DeliverFacts ==
  ASSUME IInv, Deliver
  PROVE  \E c \in Chats :
           /\ active = {c} /\ calls = <<c>> /\ calls' = <<>> /\ callback = {}
           /\ callback' = IF Completed(c) THEN {c} ELSE {}
           /\ delivered'[c] = Append(delivered[c], <<c, Len(emitted[c])>>)
           /\ \A d \in Chats : d # c => delivered'[d] = delivered[d]
           /\ UNCHANGED <<handler, listeners, pending, active, outcome, emitted, cut, strayed>>
<1>1. PICK c \in active : calls = <<c>>
  BY DEF IInv, DispatchInv, Deliver
<1>2. c \in Chats /\ active = {c}
  BY <1>1 DEF IInv, TypeInv
<1>3. Head(calls) = c /\ Tail(calls) = <<>>
  BY <1>1
<1>4. /\ callback = {} /\ calls' = Tail(calls)
      /\ delivered' = [delivered EXCEPT ![c] = Append(delivered[c], <<c, Len(emitted[c])>>)]
      /\ callback' = IF Completed(c) THEN {c} ELSE {}
      /\ UNCHANGED <<handler, listeners, pending, active, outcome, emitted, cut, strayed>>
  BY <1>2, <1>3 DEF Deliver, workerVars, history
<1>5. /\ delivered'[c] = Append(delivered[c], <<c, Len(emitted[c])>>)
      /\ \A d \in Chats : d # c => delivered'[d] = delivered[d]
  BY <1>2, <1>4 DEF IInv, TypeInv
<1> QED BY <1>1, <1>2, <1>3, <1>4, <1>5

\* What the end of a run changes.
LEMMA FinishFacts ==
  ASSUME IInv, UnlistenThrows \/ \E c \in Chats : FinishRun(c)
  PROVE  \E c \in Chats :
           /\ active = {c} /\ active' = {} /\ calls' = <<>> /\ callback' = {}
           /\ \A d \in Chats : d # c => outcome'[d] = outcome[d]
           /\ outcome'[c] = "value" => Completed(c) /\ ~InDispatch
           /\ calls = <<>>
           /\ UNCHANGED <<handler, listeners, emitted, delivered, cut, strayed, process>>
<1>1. CASE UnlistenThrows
  <2>1. PICK c \in active : Worker!Finish(c) /\ outcome'[c] = "error"
    BY <1>1 DEF UnlistenThrows
  <2>2. c \in Chats
    BY <2>1 DEF IInv, TypeInv
  <2>3. /\ active = {c} /\ active' = {}
        /\ \A d \in Chats : d # c => outcome'[d] = outcome[d]
    BY <2>1 DEF Worker!Finish, IInv, TypeInv
  <2>4. calls = <<>>
    BY <1>1 DEF UnlistenThrows, IInv, DispatchInv
  <2> QED BY <1>1, <2>1, <2>2, <2>3, <2>4 DEF UnlistenThrows, history
<1>2. ASSUME NEW c \in Chats, FinishRun(c)
      PROVE  /\ active = {c} /\ active' = {} /\ calls' = <<>> /\ callback' = {}
             /\ \A d \in Chats : d # c => outcome'[d] = outcome[d]
             /\ outcome'[c] = "value" => Completed(c) /\ ~InDispatch
             /\ calls = <<>>
             /\ UNCHANGED <<handler, listeners, emitted, delivered, cut, strayed, process>>
  <2>1. Worker!Finish(c) /\ outcome'[c] = (IF Completed(c) THEN "value" ELSE "error") /\ ~InDispatch
        /\ UNCHANGED <<handler, listeners, emitted, calls, callback, delivered, cut, strayed, process>>
    BY <1>2 DEF FinishRun, runVars, history
  <2>2. /\ active = {c} /\ active' = {}
        /\ \A d \in Chats : d # c => outcome'[d] = outcome[d]
    BY <2>1 DEF Worker!Finish, IInv, TypeInv
  <2> QED BY <2>1, <2>2 DEF InDispatch
<1> QED BY <1>1, <1>2

\* Every step keeps what is known of the map of the dispatcher.
LEMMA MapStep == ASSUME IInv, [Next]_vars PROVE MapInv'
<1>0. TypeInv /\ MapInv
  BY DEF IInv
<1>1. CASE Quiet
  BY <1>0, <1>1 DEF Quiet, MapInv, TypeInv, Completed
<1>2. ASSUME NEW c \in Chats, Listen(c) PROVE MapInv'
  <2>1. /\ c \notin DOMAIN listeners
        /\ handler'[c] = "listening"
        /\ \A d \in Chats : d # c => handler'[d] = handler[d]
        /\ DOMAIN listeners' = DOMAIN listeners \cup {c}
        /\ listeners'[c] = <<Own(c)>>
        /\ \A d \in DOMAIN listeners : listeners'[d] = listeners[d]
        /\ handler[c] = "connected"
        /\ UNCHANGED <<emitted, cut>>
    BY <1>2, ListenFacts
  <2>2. \A d \in Chats : Completed(d)' <=> Completed(d)
    BY <2>1 DEF Completed
  <2>3. \A d \in DOMAIN listeners' : handler'[d] \notin Before /\ listeners'[d] \in {<<>>, <<Own(d)>>}
    <3>1. handler'[c] \notin Before
      BY <2>1 DEF Before
    <3> QED BY <1>0, <2>1, <3>1 DEF MapInv, TypeInv
  <2>4. c \notin cut'
    BY <1>0, <2>1 DEF MapInv, Before
  <2>5. \A d \in DOMAIN listeners' \cap cut' : listeners'[d] = <<>>
    BY <1>0, <2>1, <2>4 DEF MapInv
  <2>6. \A d \in Chats \ cut' : handler'[d] \notin Before /\ ~Completed(d)' =>
          d \in DOMAIN listeners' /\ listeners'[d] = <<Own(d)>>
    BY <1>0, <2>1, <2>2 DEF MapInv
  <2>7. \A d \in cut' : d \in Chats /\ handler'[d] \notin Before
    BY <1>0, <2>1, <2>4 DEF MapInv
  <2> QED BY <2>3, <2>5, <2>6, <2>7 DEF MapInv
<1>3. ASSUME NEW c \in Chats, Submit(c) PROVE MapInv'
  <2>1. /\ handler[c] = "listening" /\ handler' = [handler EXCEPT ![c] = "submitted"]
        /\ UNCHANGED <<listeners, emitted, cut>>
    BY <1>3 DEF Submit, Moves, runVars, history
  <2>2. \A d \in Chats : handler'[d] \in Before <=> handler[d] \in Before
    BY <1>0, <2>1 DEF TypeInv, Before
  <2> QED BY <1>0, <2>1, <2>2 DEF MapInv, TypeInv, Completed
<1>4. CASE StartRun \/ CancelQueued
  BY <1>0, <1>4 DEF StartRun, CancelQueued, MapInv, runVars, history, Completed
<1>5. ASSUME NEW c \in Chats, NEW e \in Events, Emit(c, e) PROVE MapInv'
  <2>1. /\ ~Completed(c)
        /\ \A d \in Chats : d # c => (Completed(d)' <=> Completed(d))
        /\ UNCHANGED <<handler, cut>>
    BY <1>5, EmitFacts
  <2>2. /\ c \notin cut => c \in DOMAIN listeners
        /\ DOMAIN listeners' = DOMAIN listeners \cup {c}
        /\ \A d \in DOMAIN listeners : listeners'[d] = listeners[d]
        /\ c \notin DOMAIN listeners => listeners'[c] = <<>>
        /\ handler[c] \in Sent
    BY <1>5, EmitCalls
  <2>3. handler[c] \notin Before
    BY <2>2 DEF Sent, Before
  <2> QED BY <1>0, <2>1, <2>2, <2>3 DEF MapInv
<1>6. CASE Deliver
  BY <1>0, <1>6 DEF Deliver, MapInv, history, Completed
<1>7. CASE Unlisten
  <2>1. UNCHANGED <<handler, emitted>>
    BY <1>7, UnlistenFacts
  <2>2. PICK d \in callback :
          \/ \E g : /\ DOMAIN listeners' = DOMAIN listeners \ {g}
                    /\ \A h \in DOMAIN listeners \ {g} : listeners'[h] = listeners[h]
                    /\ cut' = cut \cup ((DOMAIN listeners \cap {g}) \ {d})
          \/ UNCHANGED <<listeners, cut>>
    BY <1>7, UnlistenFacts
  <2>3. Completed(d)
    BY <2>2 DEF IInv, DispatchInv
  <2>4. \A h \in Chats : Completed(h)' <=> Completed(h)
    BY <2>1 DEF Completed
  <2>5. ASSUME NEW g, DOMAIN listeners' = DOMAIN listeners \ {g},
               \A h \in DOMAIN listeners \ {g} : listeners'[h] = listeners[h],
               cut' = cut \cup ((DOMAIN listeners \cap {g}) \ {d})
        PROVE  MapInv'
    <3>1. \A c \in DOMAIN listeners' : handler'[c] \notin Before /\ listeners'[c] \in {<<>>, <<Own(c)>>}
      BY <1>0, <2>1, <2>5 DEF MapInv
    <3>2. \A c \in DOMAIN listeners' \cap cut' : listeners'[c] = <<>>
      BY <1>0, <2>5 DEF MapInv
    <3>3. \A c \in Chats \ cut' : handler'[c] \notin Before /\ ~Completed(c)' =>
             c \in DOMAIN listeners' /\ listeners'[c] = <<Own(c)>>
      BY <1>0, <2>1, <2>3, <2>4, <2>5 DEF MapInv
    <3>4. \A c \in cut' : c \in Chats /\ handler'[c] \notin Before
      BY <1>0, <2>1, <2>5 DEF MapInv, TypeInv
    <3> QED BY <3>1, <3>2, <3>3, <3>4 DEF MapInv
  <2>6. CASE UNCHANGED <<listeners, cut>>
    BY <1>0, <2>1, <2>4, <2>6 DEF MapInv
  <2> QED BY <2>2, <2>5, <2>6
<1>8. CASE UnlistenThrows \/ \E c \in Chats : FinishRun(c)
  <2>1. UNCHANGED <<handler, listeners, emitted, cut>>
    BY <1>8, FinishFacts
  <2> QED BY <1>0, <2>1 DEF MapInv, Completed
<1> QED BY <1>0, <1>1, <1>2, <1>3, <1>4, <1>5, <1>6, <1>7, <1>8, NextCases

\* Every step keeps what is known of the callbacks that are to be called.
LEMMA DispatchStep == ASSUME IInv, [Next]_vars PROVE DispatchInv'
<1>0. TypeInv /\ DispatchInv
  BY DEF IInv
<1>1. CASE Quiet
  BY <1>0, <1>1 DEF Quiet, DispatchInv, Completed
<1>2. ASSUME NEW c \in Chats, Listen(c) \/ Submit(c) PROVE DispatchInv'
  BY <1>0, <1>2 DEF Listen, Submit, Worker!Accept, workerVars, runVars, DispatchInv, Completed
<1>3. CASE StartRun \/ CancelQueued
  BY <1>0, <1>3 DEF StartRun, CancelQueued, Worker!Start, Worker!Cancel, runVars, DispatchInv, Completed
<1>4. ASSUME NEW c \in Chats, NEW e \in Events, Emit(c, e) PROVE DispatchInv'
  <2>1. active = {c} /\ ~InDispatch /\ UNCHANGED <<active, callback>>
    BY <1>4, EmitFacts
  <2>2. calls' = <<>> \/ calls' = <<c>>
    BY <1>4, EmitCalls
  <2> QED BY <2>1, <2>2 DEF DispatchInv, InDispatch
<1>5. CASE Deliver
  <2>1. PICK c \in Chats : /\ active = {c} /\ calls' = <<>>
                           /\ callback' = IF Completed(c) THEN {c} ELSE {}
                           /\ UNCHANGED <<active, emitted>>
    BY <1>5, DeliverFacts
  <2> QED BY <2>1 DEF DispatchInv, Completed
<1>6. CASE Unlisten
  <2>1. UNCHANGED <<active, calls>> /\ callback' = {}
    BY <1>6, UnlistenFacts
  <2> QED BY <1>0, <2>1 DEF DispatchInv
<1>7. CASE UnlistenThrows \/ \E c \in Chats : FinishRun(c)
  <2>1. calls' = <<>> /\ callback' = {}
    BY <1>7, FinishFacts
  <2> QED BY <2>1 DEF DispatchInv
<1> QED BY <1>0, <1>1, <1>2, <1>3, <1>4, <1>5, <1>6, <1>7, NextCases

\* Every step keeps what is known of the events delivered.
LEMMA DeliveryStep == ASSUME IInv, [Next]_vars PROVE DeliveryInv'
<1>0. TypeInv /\ DispatchInv /\ DeliveryInv
  BY DEF IInv
<1> USE DEF DeliveryInv, OwnEventsInOrder, Missing
<1>1. CASE Quiet
  BY <1>0, <1>1 DEF Quiet
<1>2. ASSUME NEW c \in Chats, Listen(c) \/ Submit(c) PROVE DeliveryInv'
  BY <1>0, <1>2 DEF Listen, Submit, Worker!Accept, workerVars, runVars, history
<1>3. CASE StartRun \/ CancelQueued
  <2>1. UNCHANGED <<emitted, calls, delivered, cut>>
    BY <1>3 DEF StartRun, CancelQueued, runVars, history
  <2>2. active = {}
    BY <1>3 DEF StartRun, CancelQueued, Worker!Start, Worker!Cancel
  <2>3. calls = <<>>
    BY <1>0, <2>2 DEF DispatchInv
  <2> QED BY <1>0, <2>1, <2>3
<1>4. ASSUME NEW c \in Chats, NEW e \in Events, Emit(c, e) PROVE DeliveryInv'
  <2>1. /\ active = {c} /\ ~InDispatch
        /\ emitted[c] \in Seq(Events)
        /\ Len(emitted'[c]) = Len(emitted[c]) + 1
        /\ \A d \in Chats : d # c => emitted'[d] = emitted[d]
        /\ UNCHANGED <<active, delivered, cut>>
    BY <1>4, EmitFacts
  <2>2. (c \in cut => calls' = <<>>) /\ (c \notin cut => calls' = <<c>>)
    BY <1>4, EmitCalls
  <2>3. calls = <<>>
    BY <2>1 DEF InDispatch
  <2>4. \A d \in Chats : Len(delivered[d]) \in Nat /\ Len(emitted[d]) \in Nat
    BY <1>0 DEF TypeInv
  <2>5. \A d : <<>> # <<d>>
    OBVIOUS
  <2>6. \A d : <<c>> = <<d>> => c = d
    OBVIOUS
  <2>7. \A d \in Chats \ cut : Len(emitted[d]) = Len(delivered[d])
    BY <1>0, <2>3, <2>4, <2>5
  <2>8. OwnEventsInOrder'
    <3>1. \A d \in Chats : Len(delivered'[d]) <= Len(emitted'[d])
      BY <1>0, <2>1, <2>4
    <3>2. \A d \in Chats : \A j \in 1..Len(delivered'[d]) : delivered'[d][j] = <<d, j>>
      BY <1>0, <2>1
    <3> QED BY <3>1, <3>2
  <2>9. calls' # <<>> => \A d \in active' : Len(emitted'[d]) = Len(delivered'[d]) + 1
    BY <2>1, <2>2, <2>7
  <2>10. ASSUME NEW d \in Chats \ cut'
         PROVE  Len(emitted'[d]) = Len(delivered'[d]) + Missing(d)'
    <3>1. CASE d = c
      BY <2>1, <2>2, <2>7, <2>10, <3>1
    <3>2. CASE d # c
      <4>1. calls' # <<d>>
        BY <2>2, <2>5, <2>6, <3>2
      <4>2. Missing(d)' = 0
        BY <4>1
      <4>3. Len(emitted'[d]) = Len(delivered'[d]) /\ Len(delivered'[d]) \in Nat
        BY <2>1, <2>4, <2>7, <2>10, <3>2
      <4> HIDE DEF Missing
      <4> QED BY <4>2, <4>3
    <3> QED BY <3>1, <3>2
  <2> QED BY <2>8, <2>9, <2>10
<1>5. CASE Deliver
  <2>1. PICK c \in Chats :
           /\ active = {c} /\ calls = <<c>> /\ calls' = <<>>
           /\ delivered'[c] = Append(delivered[c], <<c, Len(emitted[c])>>)
           /\ \A d \in Chats : d # c => delivered'[d] = delivered[d]
           /\ UNCHANGED <<active, emitted, cut>>
    BY <1>5, DeliverFacts
  <2>2. \A d \in Chats : Len(delivered[d]) \in Nat /\ Len(emitted[d]) \in Nat
    BY <1>0 DEF TypeInv
  <2>3. Len(emitted[c]) = Len(delivered[c]) + 1
    BY <1>0, <2>1
  <2> DEFINE s == delivered[c]
             x == <<c, Len(emitted[c])>>
  <2>4. s \in Seq(Chats \X Nat) /\ x \in Chats \X Nat
    BY <1>0, <2>2 DEF TypeInv
  <2>5. /\ Len(Append(s, x)) = Len(s) + 1 /\ Append(s, x)[Len(s) + 1] = x
        /\ \A j \in 1..Len(s) : Append(s, x)[j] = s[j]
    <3> HIDE DEF s, x
    <3> QED BY <2>4
  <2>6. \A j \in 1..Len(delivered'[c]) : delivered'[c][j] = <<c, j>>
    <3> SUFFICES ASSUME NEW j \in 1..Len(delivered'[c]) PROVE delivered'[c][j] = <<c, j>>
      OBVIOUS
    <3>1. CASE j = Len(s) + 1
      BY <2>1, <2>3, <2>5, <3>1
    <3>2. CASE j \in 1..Len(s)
      BY <1>0, <2>1, <2>5, <3>2
    <3>3. Len(delivered'[c]) = Len(s) + 1 /\ Len(s) \in Nat
      BY <2>1, <2>2, <2>5
    <3> QED BY <3>1, <3>2, <3>3
  <2>7. Len(delivered'[c]) = Len(emitted[c])
    BY <2>1, <2>3, <2>5
  <2>8. \A d : <<>> # <<d>>
    OBVIOUS
  <2>9. OwnEventsInOrder'
    <3>1. \A d \in Chats : Len(delivered'[d]) <= Len(emitted'[d])
      BY <1>0, <2>1, <2>2, <2>7
    <3>2. \A d \in Chats : \A j \in 1..Len(delivered'[d]) : delivered'[d][j] = <<d, j>>
      BY <1>0, <2>1, <2>6
    <3> QED BY <3>1, <3>2
  <2>10. ASSUME NEW d \in Chats \ cut'
         PROVE  Len(emitted'[d]) = Len(delivered'[d]) + Missing(d)'
    <3>1. CASE d = c
      BY <2>1, <2>2, <2>7, <2>8, <3>1
    <3>2. CASE d # c
      <4>1. calls # <<d>>
        BY <2>1, <3>2
      <4> QED BY <1>0, <2>1, <2>8, <2>10, <3>2, <4>1
    <3> QED BY <3>1, <3>2
  <2> QED BY <2>1, <2>9, <2>10
<1>6. CASE Unlisten
  <2>1. UNCHANGED <<active, emitted, calls, delivered>> /\ cut \subseteq cut'
    BY <1>6, UnlistenFacts
  <2> QED BY <1>0, <2>1
<1>7. CASE UnlistenThrows \/ \E c \in Chats : FinishRun(c)
  <2>1. active' = {} /\ calls = <<>> /\ calls' = <<>> /\ UNCHANGED <<emitted, delivered, cut>>
    BY <1>7, FinishFacts
  <2> QED BY <1>0, <2>1
<1> QED BY <1>0, <1>1, <1>2, <1>3, <1>4, <1>5, <1>6, <1>7, NextCases

\* Every step keeps the dispatcher clean of the runs that are over.
LEMMA CleanStep == ASSUME IInv, [Next]_vars PROVE CleanInv'
<1>0. TypeInv /\ QueueInv /\ DispatchInv /\ CleanInv
  BY DEF IInv
<1> USE DEF CleanInv, NothingLeftListening
<1>1. CASE Quiet
  BY <1>0, <1>1 DEF Quiet, InDispatch, Completed
<1>2. ASSUME NEW c \in Chats, Listen(c) PROVE CleanInv'
  <2>1. /\ handler[c] = "connected"
        /\ DOMAIN listeners' = DOMAIN listeners \cup {c}
        /\ UNCHANGED <<active, outcome, emitted, calls, callback, cut, strayed, process>>
    BY <1>2, ListenFacts
  <2>2. outcome[c] = "unsent" /\ c \notin active
    BY <1>0, <2>1 DEF QueueInv, Sent
  <2>3. (InDispatch' <=> InDispatch) /\ \A d \in Chats : Completed(d)' <=> Completed(d)
    BY <2>1 DEF InDispatch, Completed
  <2> QED BY <1>0, <2>1, <2>2, <2>3 DEF TypeInv
<1>3. ASSUME NEW c \in Chats, Submit(c) PROVE CleanInv'
  <2>1. /\ outcome' = [outcome EXCEPT ![c] = "waiting"]
        /\ UNCHANGED <<active, listeners, emitted, calls, callback, cut, strayed, process>>
    BY <1>3 DEF Submit, Worker!Accept, runVars, history
  <2>2. \A d \in Chats : outcome'[d] = "value" => outcome[d] = "value"
    BY <1>0, <2>1 DEF TypeInv
  <2> QED BY <1>0, <2>1, <2>2 DEF InDispatch, Completed
<1>4. CASE StartRun
  <2>1. /\ pending # <<>> /\ active' = {Head(pending)}
        /\ UNCHANGED <<outcome, listeners, emitted, calls, callback, cut, strayed, process>>
    BY <1>4 DEF StartRun, Worker!Start, runVars, history
  <2>2. 1 \in 1..Len(pending) /\ Head(pending) = pending[1]
    BY <1>0, <2>1 DEF TypeInv
  <2>3. emitted[Head(pending)] = <<>>
    BY <1>0, <2>2 DEF QueueInv
  <2> QED BY <1>0, <2>1, <2>3 DEF Completed
<1>5. CASE CancelQueued
  <2>1. /\ pending # <<>> /\ outcome' = [outcome EXCEPT ![Head(pending)] = "stopped"]
        /\ UNCHANGED <<active, listeners, emitted, calls, callback, cut, strayed, process>>
    BY <1>5 DEF CancelQueued, Worker!Cancel, runVars, history
  <2>2. \A d \in Chats : outcome'[d] = "value" => outcome[d] = "value"
    BY <1>0, <2>1 DEF TypeInv
  <2> QED BY <1>0, <2>1, <2>2 DEF InDispatch, Completed
<1>6. ASSUME NEW c \in Chats, NEW e \in Events, Emit(c, e) PROVE CleanInv'
  <2>1. active = {c} /\ UNCHANGED <<active, outcome, callback, cut, strayed>>
    BY <1>6, EmitFacts
  <2>2. /\ c \notin cut => calls' = <<c>>
        /\ DOMAIN listeners' = DOMAIN listeners \cup {c}
    BY <1>6, EmitCalls
  <2>3. outcome[c] = "waiting"
    BY <1>0, <2>1 DEF QueueInv
  <2>4. c \notin cut => InDispatch'
    <3>1. <<c>> # <<>>
      OBVIOUS
    <3> QED BY <2>2, <3>1 DEF InDispatch
  <2> QED BY <1>0, <2>1, <2>2, <2>3, <2>4
<1>7. CASE Deliver
  <2>1. PICK c \in Chats : /\ active = {c}
                           /\ callback' = IF Completed(c) THEN {c} ELSE {}
                           /\ UNCHANGED <<active, listeners, outcome, emitted, cut, strayed>>
    BY <1>7, DeliverFacts
  <2>2. Completed(c)' <=> Completed(c)
    BY <2>1 DEF Completed
  <2>3. Completed(c) => InDispatch'
    BY <2>1 DEF InDispatch
  <2> QED BY <1>0, <2>1, <2>2, <2>3
<1>8. CASE Unlisten
  <2>1. UNCHANGED <<active, outcome, emitted, calls>>
    BY <1>8, UnlistenFacts
  <2>2. PICK d \in callback :
          \/ \E g : /\ DOMAIN listeners' = DOMAIN listeners \ {g}
                    /\ cut' = cut \cup ((DOMAIN listeners \cap {g}) \ {d})
                    /\ strayed' = strayed \cup ({d} \ {g})
          \/ UNCHANGED <<listeners, cut, strayed>> /\ process' = "crashed"
    BY <1>8, UnlistenFacts
  <2>3. active = {d}
    BY <1>0, <2>2 DEF DispatchInv, TypeInv
  <2>4. ASSUME NEW g, DOMAIN listeners' = DOMAIN listeners \ {g},
               cut' = cut \cup ((DOMAIN listeners \cap {g}) \ {d}),
               strayed' = strayed \cup ({d} \ {g})
        PROVE  CleanInv'
    <3>1. NothingLeftListening'
      BY <1>0, <2>1, <2>4
    <3>2. d \notin strayed' => d \notin DOMAIN listeners'
      BY <2>4
    <3> QED BY <2>1, <2>3, <3>1, <3>2
  <2>5. CASE UNCHANGED <<listeners, cut, strayed>> /\ process' = "crashed"
    BY <1>0, <2>1, <2>5
  <2> QED BY <2>2, <2>4, <2>5
<1>9. CASE process = "up" /\ (UnlistenThrows \/ \E c \in Chats : FinishRun(c))
  <2>1. PICK c \in Chats :
           /\ active = {c} /\ active' = {}
           /\ \A d \in Chats : d # c => outcome'[d] = outcome[d]
           /\ outcome'[c] = "value" => Completed(c) /\ ~InDispatch
           /\ UNCHANGED <<listeners, cut, strayed, process>>
    BY <1>9, FinishFacts
  <2>2. outcome'[c] = "value" /\ c \notin cut \cup strayed => c \notin DOMAIN listeners
    BY <1>0, <1>9, <2>1
  <2> QED BY <1>0, <2>1, <2>2
<1> QED BY <1>0, <1>1, <1>2, <1>3, <1>4, <1>5, <1>6, <1>7, <1>8, <1>9, NextCases

\* The invariant holds before the first connection.
LEMMA InitIInv == Init => IInv
<1> SUFFICES ASSUME Init PROVE IInv
  OBVIOUS
<1>1. /\ DOMAIN listeners = {} /\ cut = {} /\ strayed = {} /\ active = {} /\ callback = {}
      /\ calls = <<>> /\ pending = <<>> /\ Len(pending) = 0
      /\ handler = [c \in Chats |-> "idle"] /\ outcome = [c \in Chats |-> "unsent"]
      /\ emitted = [c \in Chats |-> <<>>] /\ delivered = [c \in Chats |-> <<>>]
  BY DEF Init, EmptyMap, Worker!Init
<1>2. <<>> \in Seq(Events) /\ <<>> \in Seq(Chats) /\ <<>> \in Seq(Chats \X Nat) /\ Len(<<>>) = 0
  OBVIOUS
<1>3. TypeInv
  BY <1>1, <1>2 DEF TypeInv, Before
<1>4. QueueInv
  BY <1>1 DEF QueueInv, Sent
<1>5. MapInv
  BY <1>1 DEF MapInv, Before
<1>6. DispatchInv
  BY <1>1 DEF DispatchInv
<1>7. DeliveryInv
  <2>1. \A c \in Chats : emitted[c] = <<>> /\ delivered[c] = <<>>
    BY <1>1
  <2>2. \A c : <<>> # <<c>>
    OBVIOUS
  <2> QED BY <1>1, <1>2, <2>1, <2>2 DEF DeliveryInv, OwnEventsInOrder, Missing
<1>8. CleanInv
  BY <1>1 DEF CleanInv, NothingLeftListening
<1> QED BY <1>3, <1>4, <1>5, <1>6, <1>7, <1>8 DEF IInv

\* The invariant of the chat path: where each chat's callback is, and which of
\* its events have gone out.
THEOREM Invariant == Spec => []IInv
<1>1. IInv /\ [Next]_vars => IInv'
  BY TypeStep, QueueStep, MapStep, DispatchStep, DeliveryStep, CleanStep DEF IInv
<1> QED BY <1>1, InitIInv, PTL DEF Spec

\* A session is handed the events of its own run, in order and without a gap,
\* with any number of chats and whatever the callbacks of others remove.
THEOREM EventsInOrder == Spec => []OwnEventsInOrder
<1>1. IInv => OwnEventsInOrder
  BY DEF IInv, DeliveryInv
<1> QED BY <1>1, Invariant, PTL

\* A run that returned its text has delivered every event, unless its callback
\* was cut off by another chat.
THEOREM DeliveryComplete == Spec => []CompleteDelivery
<1>1. ASSUME IInv PROVE CompleteDelivery
  <2> SUFFICES ASSUME NEW c \in Chats, outcome[c] = "value", c \notin cut
               PROVE  Len(delivered[c]) = Len(emitted[c])
    BY DEF CompleteDelivery
  <2>1. c \notin active
    BY <1>1 DEF IInv, QueueInv
  <2>2. calls # <<c>>
    BY <1>1, <2>1 DEF IInv, DispatchInv
  <2>3. Len(delivered[c]) \in Nat /\ Len(emitted[c]) = Len(delivered[c]) + 0
    BY <1>1, <2>2 DEF IInv, TypeInv, DeliveryInv, Missing
  <2> QED BY <2>3
<1> QED BY <1>1, Invariant, PTL

\* A run that returned its text leaves no callback and no entry behind, unless
\* a callback read a wrong chat id.
THEOREM DispatcherClean == Spec => []NothingLeftListening
<1>1. IInv => NothingLeftListening
  BY DEF IInv, CleanInv
<1> QED BY <1>1, Invariant, PTL

=============================================================================
