----------------------------- MODULE ChatServer -----------------------------
(***************************************************************************)
(* The chat path through the whole server: the Listener that accepts        *)
(* connections (src/tools/serve/server.cpp), chat_completion on the threads *)
(* of the io_context (src/tools/serve/handlers.cpp), Chat::invoke and the   *)
(* inference worker, the events of its runs through EventDispatcher, the    *)
(* callback that hands them to the session, and the shutdown of main().     *)
(*                                                                         *)
(* The worker is the TaskService that Worker implements, the dispatcher the *)
(* ListenerMap of EventDispatcher, a session the events handed to it (what  *)
(* it does with them is in Session).  A chat is one request: its client's   *)
(* connection, its handler, its chat_id, its session and its run.           *)
(***************************************************************************)
EXTENDS ListenerMap

CONSTANTS Chats,       \* the chat requests
          Unknown,     \* a group id that belongs to no chat
          MaxTokens    \* bound on the tokens of a run

ASSUME ChatAssumption == Unknown \notin Chats /\ MaxTokens \in Nat

VARIABLES acceptor,    \* what the Listener is doing
          handler,     \* where the connection and chat_completion are, for each chat
          listeners,   \* the map of EventDispatcher
          pending, active, outcome, open,   \* the worker: see TaskService
          emitted,     \* the events of each run, oldest first
          calls,       \* the callbacks the current dispatch() has still to make
          callback,    \* the callback that is in unlisten(), if any
          delivered,   \* the events each session was handed
          server,      \* how far main() is
          process,     \* "up", or "crashed" by undefined behaviour or terminate()
          cut,         \* history: chats whose callback another chat removed
          strayed      \* history: chats whose completion left their own callback

workerVars == <<pending, active, outcome, open>>
runVars == <<emitted, calls, callback, delivered>>
history == <<cut, strayed>>
vars == <<acceptor, handler, listeners, workerVars, runVars, server, process, history>>

Worker == INSTANCE TaskService WITH Tasks <- Chats

\* main(): Server::run serves; ioc.stop() was called; the threads are joined
\* and the io_context is gone; the model is unloaded; static destructors run.
ServerStates == {"serving", "stopping", "torn_down", "unloaded", "exiting", "exited"}
IocAlive == server \in {"serving", "stopping"}
ModelLoaded == server \in {"serving", "stopping", "torn_down"}

Events == {"token", "completed"}

TypeOK ==
  /\ acceptor \in {"unopened", "accepting", "accepted", "deaf", "closed"}
  /\ handler \in [Chats -> {"idle", "waiting", "connected", "listening", "submitted", "returned"}]
  /\ DOMAIN listeners \subseteq Chats \cup {Unknown}
  /\ pending \in Seq(Chats)
  /\ active \in SUBSET Chats
  /\ outcome \in [Chats -> {"unsent", "waiting", "rejected", "value", "error", "stopped"}]
  /\ open \in BOOLEAN
  /\ emitted \in [Chats -> Seq(Events)]
  /\ calls \in Seq(Chats)
  /\ callback \in SUBSET Chats
  /\ delivered \in [Chats -> Seq(Chats \X (1..(MaxTokens + 1)))]
  /\ server \in ServerStates
  /\ process \in {"up", "crashed"}
  /\ cut \in SUBSET Chats /\ strayed \in SUBSET Chats

\* The constructor of Listener gives up when the endpoint is not to be had.
Init ==
  /\ acceptor \in {"accepting", "unopened"}
  /\ handler = [c \in Chats |-> "idle"]
  /\ listeners = EmptyMap
  /\ Worker!Init
  /\ emitted = [c \in Chats |-> <<>>]
  /\ calls = <<>>
  /\ callback = {}
  /\ delivered = [c \in Chats |-> <<>>]
  /\ server = "serving"
  /\ process = "up"
  /\ cut = {} /\ strayed = {}

-----------------------------------------------------------------------------
\* The Listener.  A client's connection waits in the backlog of the socket,
\* whatever the acceptor is doing.

Moves(c, step) == handler' = [handler EXCEPT ![c] = step]

Connect(c) ==
  /\ handler[c] = "idle"
  /\ acceptor \in {"accepting", "accepted", "deaf"}
  /\ Moves(c, "waiting")
  /\ UNCHANGED <<acceptor, listeners, workerVars, runVars, server, process, history>>

\* The handler of async_accept, as far as the new Session.
Accept(c) ==
  /\ acceptor = "accepting" /\ server = "serving"
  /\ handler[c] = "waiting"
  /\ acceptor' = "accepted"
  /\ Moves(c, "connected")
  /\ UNCHANGED <<listeners, workerVars, runVars, server, process, history>>

\* Mutant: one connection is accepted and no other.
AcceptingOnce == acceptor

Accepting == IF server = "serving" THEN "accepting" ELSE "closed"

\* do_accept() at the end of the handler.
DoAccept ==
  /\ acceptor = "accepted"
  /\ acceptor' = Accepting
  /\ UNCHANGED <<handler, listeners, workerVars, runVars, server, process, history>>

\* An error (no descriptor is left) ends the accepting for good; the sessions
\* and the signal handler go on.
AcceptFails ==
  /\ acceptor = "accepting" /\ server = "serving"
  /\ acceptor' = "deaf"
  /\ UNCHANGED <<handler, listeners, workerVars, runVars, server, process, history>>

-----------------------------------------------------------------------------
\* chat_completion, on a thread of the io_context.  One that has begun goes on
\* after ioc.stop(); none begins.

\* Mutant: the completion is not listened for.
ListenedEventsTokens == {"token"}

ListenedEvents == Events

\* initiate_streaming(), which only posts to the session, and listen().
Listen(c) ==
  /\ handler[c] = "connected" /\ server = "serving"
  /\ listeners' = Listened(listeners, c, [callback |-> c, events |-> ListenedEvents])
  /\ Moves(c, "listening")
  /\ UNCHANGED <<acceptor, workerVars, runVars, server, process, history>>

\* Mutant: the task is submitted before listen().
SubmitEarly(c) ==
  /\ handler[c] \in {"connected", "listening"}
  /\ Worker!Accept(c)
  /\ UNCHANGED <<acceptor, handler, listeners, runVars, server, process, history>>

\* Chat::invoke, as far as add_task().
Submit(c) ==
  /\ handler[c] = "listening"
  /\ Worker!Accept(c)
  /\ Moves(c, "submitted")
  /\ UNCHANGED <<acceptor, listeners, runVars, server, process, history>>

\* The handler returns: its locals, chat_id and the future, are gone.
Return(c) ==
  /\ handler[c] = "submitted"
  /\ Moves(c, "returned")
  /\ UNCHANGED <<acceptor, listeners, workerVars, runVars, server, process, history>>

\* Chat::invoke throws (the template, the tokenizer): nothing catches it on
\* the way out of ioc.run().
InvokeThrows(c) ==
  /\ handler[c] = "listening"
  /\ process' = "crashed"
  /\ UNCHANGED <<acceptor, handler, listeners, workerVars, runVars, server, history>>

-----------------------------------------------------------------------------
\* The worker thread.

StartRun ==
  /\ Worker!Start
  /\ UNCHANGED <<acceptor, handler, listeners, runVars, server, process, history>>

InDispatch == calls # <<>> \/ callback # {}
Completed(c) == emitted[c] # <<>> /\ emitted[c][Len(emitted[c])] = "completed"

\* A run uses the model; when the model is gone, anything may happen.
UsesModel == process' \in IF ModelLoaded THEN {"up"} ELSE {"up", "crashed"}

\* dispatch() as far as its snapshot.
Emit(c, event) ==
  /\ active = {c}
  /\ ~InDispatch /\ ~Completed(c)
  /\ event = "token" => Len(emitted[c]) < MaxTokens
  /\ UsesModel
  /\ emitted' = [emitted EXCEPT ![c] = Append(@, event)]
  /\ calls' = Matching(listeners, c, event)
  /\ listeners' = Subscript(listeners, c)
  /\ UNCHANGED <<acceptor, handler, workerVars, callback, delivered, server, history>>

\* The callback of chat_completion: stream_json_message, which posts to the
\* strand of the session, and for the completion also unlisten().
Deliver ==
  /\ calls # <<>> /\ callback = {}
  /\ process' \in IF IocAlive THEN {"up"} ELSE {"up", "crashed"}
  /\ LET d == Head(calls)
     IN \E c \in active :
          /\ delivered' = [delivered EXCEPT ![d] = Append(@, <<c, Len(emitted[c])>>)]
          /\ callback' = IF Completed(c) THEN {d} ELSE {}
  /\ calls' = Tail(calls)
  /\ UNCHANGED <<acceptor, handler, listeners, workerVars, emitted, server, history>>

\* What the callback of d reads as chat_id, captured by reference: the id
\* while the handler has not returned; later whatever lies in the dead frame,
\* the id still, that of a later chat on the same thread, or none.
ReadChatId(d) ==
  IF handler[d] = "returned"
  THEN {c \in Chats : handler[c] \notin {"idle", "waiting", "connected"}} \cup {Unknown}
  ELSE {d}

Unlisten ==
  /\ \E d \in callback :
       \/ \E g \in ReadChatId(d) :
            /\ listeners' = Erased(Subscript(listeners, g), g)
            /\ cut' = cut \cup ((DOMAIN listeners \cap {g}) \ {d})
            /\ strayed' = strayed \cup ({d} \ {g})
            /\ UNCHANGED process
       \/ /\ handler[d] = "returned"
          /\ process' = "crashed"
          /\ UNCHANGED <<listeners, history>>
  /\ callback' = {}
  /\ UNCHANGED <<acceptor, handler, workerVars, emitted, calls, delivered, server>>

\* The copy of what was a string throws: execute_task_ catches it, and the
\* promise gets an exception although the run has completed.
UnlistenThrows ==
  /\ \E d \in callback : handler[d] = "returned"
  /\ \E c \in active : Worker!Finish(c) /\ outcome'[c] = "error"
  /\ callback' = {}
  /\ calls' = <<>>
  /\ UNCHANGED <<acceptor, handler, listeners, emitted, delivered, server, process, history>>

\* Mutant: an exception is swallowed and the promise kept.
FinishSilently(c) ==
  /\ ~InDispatch
  /\ active = {c}
  /\ active' = {}
  /\ outcome' = [outcome EXCEPT ![c] = IF Completed(c) THEN "value" ELSE @]
  /\ UNCHANGED <<acceptor, pending, open, handler, listeners, runVars, server,
                 process, history>>

\* execute_task_ returns: set_value after the completion, set_exception when
\* the run throws before it.
FinishRun(c) ==
  /\ ~InDispatch
  /\ Worker!Finish(c)
  /\ outcome'[c] = IF Completed(c) THEN "value" ELSE "error"
  /\ UNCHANGED <<acceptor, handler, listeners, runVars, server, process, history>>

CancelQueued ==
  /\ Worker!Cancel
  /\ UNCHANGED <<acceptor, handler, listeners, runVars, server, process, history>>

-----------------------------------------------------------------------------
\* The shutdown: SIGINT or SIGTERM, Listener::stop, the end of Server::run,
\* Model::unload, and ~InferenceWorker among the static destructors.

\* stop() runs outside of the acceptor's strand: its close() may meet the
\* do_accept() of another thread, a data race.
Signal ==
  /\ server = "serving" /\ acceptor # "unopened"
  /\ server' = "stopping"
  /\ acceptor' = IF acceptor = "accepted" THEN acceptor ELSE "closed"
  /\ process' \in IF acceptor = "accepted" THEN {"up", "crashed"} ELSE {"up"}
  /\ UNCHANGED <<handler, listeners, workerVars, runVars, history>>

\* Without a socket there is no signal handler either and nothing to wait for:
\* ioc.run() returns at once.
OutOfWork ==
  /\ server = "serving" /\ acceptor = "unopened"
  /\ server' = "stopping"
  /\ UNCHANGED <<acceptor, handler, listeners, workerVars, runVars, process, history>>

\* Every ioc.run() returns once its thread has left its handler.
TearDown ==
  /\ server = "stopping"
  /\ acceptor # "accepted"
  /\ \A c \in Chats : handler[c] \notin {"listening", "submitted"}
  /\ server' = "torn_down"
  /\ UNCHANGED <<acceptor, handler, listeners, workerVars, runVars, process, history>>

Unload ==
  /\ server = "torn_down"
  /\ server' = "unloaded"
  /\ UNCHANGED <<acceptor, handler, listeners, workerVars, runVars, process, history>>

\* Mutant: stop() does not clear running_.
StopWorkerOpen ==
  /\ server = "unloaded"
  /\ server' = "exiting"
  /\ UNCHANGED <<acceptor, handler, listeners, workerVars, runVars, process, history>>

StopWorker ==
  /\ server = "unloaded"
  /\ server' = "exiting"
  /\ Worker!Shut
  /\ UNCHANGED <<acceptor, handler, listeners, runVars, process, history>>

\* join() returns when the worker thread has ended.
Exit ==
  /\ server = "exiting"
  /\ ~open /\ active = {} /\ pending = <<>>
  /\ server' = "exited"
  /\ UNCHANGED <<acceptor, handler, listeners, workerVars, runVars, process, history>>

-----------------------------------------------------------------------------
Handler(c) == Submit(c) \/ Return(c) \/ InvokeThrows(c)

Acceptor == DoAccept \/ \E c \in Chats : Accept(c)

WorkerThread ==
  \/ StartRun \/ Deliver \/ Unlisten \/ UnlistenThrows \/ CancelQueued
  \/ \E c \in Chats : FinishRun(c) \/ \E e \in Events : Emit(c, e)

Main == OutOfWork \/ TearDown \/ Unload \/ StopWorker \/ Exit

Next ==
  /\ process = "up"
  /\ \/ WorkerThread \/ Main \/ Signal \/ Acceptor \/ AcceptFails
     \/ \E c \in Chats : Connect(c) \/ Listen(c) \/ Handler(c)

\* Handlers that have begun, the handler of async_accept, the worker thread and
\* main() go on; no signal need come, no client connect and no request arrive.
Fairness ==
  /\ WF_vars(process = "up" /\ WorkerThread)
  /\ WF_vars(process = "up" /\ Main)
  /\ \A c \in Chats : WF_vars(process = "up" /\ Handler(c))
  /\ WF_vars(process = "up" /\ Acceptor)

Spec == Init /\ [][Next]_vars
FairSpec == Spec /\ Fairness

-----------------------------------------------------------------------------
\* A session is handed the events of its own run only, from the first one on,
\* in order and without a gap: listen() comes before the run can start
\* (handlers.cpp:124 and 128) and no other run has its chat_id.
OwnEventsInOrder ==
  \A c \in Chats :
    /\ Len(delivered[c]) <= Len(emitted[c])
    /\ \A j \in 1..Len(delivered[c]) : delivered[c][j] = <<c, j>>

\* A run that returned its text has handed all its events to its session,
\* unless the completion of another chat took its callback away.
CompleteDelivery ==
  \A c \in Chats :
    outcome[c] = "value" /\ c \notin cut => Len(delivered[c]) = Len(emitted[c])

\* Nothing is left in the dispatcher of a run that returned its text, so that
\* listeners does not grow with every chat: neither its callback nor the empty
\* entry that operator[] makes; unless one of the callbacks read a wrong id
\* (events.cpp:28-33).
NothingLeftListening ==
  \A c \in Chats : outcome[c] = "value" /\ c \notin cut \cup strayed => c \notin DOMAIN listeners

\* Every connection that waits is accepted, unless an accept has failed before
\* or the server is stopped (server.cpp:97-106).
Backlog == {c \in Chats : handler[c] = "waiting"}
EveryConnectionAccepted ==
  Backlog # {} ~> (Backlog = {} \/ acceptor \in {"deaf", "closed"} \/ process = "crashed")

\* Every submitted chat is answered through its promise in the end.
Unanswered == {c \in Chats : outcome[c] = "waiting"}
EveryChatAnswered == Unanswered # {} ~> (Unanswered = {} \/ process = "crashed")

\* After a signal the process ends.
ShutdownEnds == server = "stopping" ~> (server = "exited" \/ process = "crashed")

\* "Invoke them outside the lock so a callback may safely unlisten"
\* (events.cpp:38-40): the completion of a chat removes the callbacks of that
\* chat and of no other.
UnlistensItself == cut = {}

\* "Initiating graceful shutdown" and "Server Stopped with graceful shutdown"
\* (server.cpp:89 and 354): no run is cut from the io_context or the model it
\* is still using.
GracefulShutdown == server \in {"torn_down", "unloaded"} => active = {}

=============================================================================
