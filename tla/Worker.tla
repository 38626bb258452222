------------------------------- MODULE Worker -------------------------------
(***************************************************************************)
(* Worker<T, R> of src/src/worker/worker.hpp: one thread that drains a      *)
(* queue of tasks, each with its promise, under task_lock_ and cv_.         *)
(*                                                                         *)
(* task_lock_ is held by run() from the moment it acquires it until it      *)
(* blocks in cv_.wait, has popped a task, or has cancelled the queue: the   *)
(* points in LockedPoints.  The critical sections of add_task() and stop()  *)
(* touch only what the lock protects, so each is one step that needs        *)
(* LockFree; the notifications that follow them are steps of their own.     *)
(***************************************************************************)
EXTENDS Naturals, Sequences

CONSTANTS Tasks,       \* the calls of add_task: each a task and its promise
          Stoppers,    \* the threads that call stop()
          Destroyers   \* those of them that call it from ~Worker()

ASSUME DestroyersStop == Destroyers \subseteq Stoppers
ASSUME NoTaskIsNone == "none" \notin Tasks

VARIABLES running,   \* running_
          tasks,     \* tasks_, oldest first
          promise,   \* what each task's promise holds
          runPc,     \* where the worker thread is in run()
          current,   \* the pair run() has moved out of the queue
          callPc,    \* where each caller is in add_task()
          stopPc,    \* where each stopper is in stop()
          vptr       \* the class whose execute_task_ a virtual call reaches

vars == <<running, tasks, promise, runPc, current, callPc, stopPc, vptr>>

LockedPoints == {"wait", "block", "take", "drain"}
LockFree == runPc \notin LockedPoints

TypeOK ==
  /\ running \in BOOLEAN
  /\ tasks \in Seq(Tasks)
  /\ promise \in [Tasks -> {"none", "value", "error", "stopped"}]
  /\ runPc \in LockedPoints \cup {"lock", "blocked", "call", "exec", "done", "aborted"}
  /\ current \in Tasks \cup {"none"}
  /\ callPc \in [Tasks -> {"idle", "notify", "accepted", "rejected"}]
  /\ stopPc \in [Stoppers -> {"idle", "dtor", "notify", "join", "joined", "early"}]
  /\ vptr \in {"derived", "base"}

\* The constructor: running_ is set, then the thread is started.
Init ==
  /\ running = TRUE
  /\ tasks = <<>>
  /\ promise = [t \in Tasks |-> "none"]
  /\ runPc = "lock"
  /\ current = "none"
  /\ callPc = [t \in Tasks |-> "idle"]
  /\ stopPc = [s \in Stoppers |-> "idle"]
  /\ vptr = "derived"

-----------------------------------------------------------------------------
\* add_task(), in the thread of the caller.  Nobody calls it on an object
\* whose destructor has begun.

\* The critical section: throw worker_stopped, or emplace the pair.
AddTask(t) ==
  /\ callPc[t] = "idle"
  /\ vptr = "derived"
  /\ LockFree
  /\ \/ /\ ~running
        /\ callPc' = [callPc EXCEPT ![t] = "rejected"]
        /\ UNCHANGED tasks
     \/ /\ running
        /\ tasks' = Append(tasks, t)
        /\ callPc' = [callPc EXCEPT ![t] = "notify"]
  /\ UNCHANGED <<running, promise, runPc, current, stopPc, vptr>>

\* Both notify_one and notify_all wake the worker thread if it is blocked.
Woken == IF runPc = "blocked" THEN "lock" ELSE runPc

\* Mutant: the notification of add_task() is lost.
NotifyOneLost(t) ==
  /\ callPc[t] = "notify"
  /\ callPc' = [callPc EXCEPT ![t] = "accepted"]
  /\ UNCHANGED <<running, tasks, promise, runPc, current, stopPc, vptr>>

NotifyOne(t) ==
  /\ callPc[t] = "notify"
  /\ callPc' = [callPc EXCEPT ![t] = "accepted"]
  /\ runPc' = Woken
  /\ UNCHANGED <<running, tasks, promise, current, stopPc, vptr>>

-----------------------------------------------------------------------------
\* stop() and the destructor.

\* ~Worker() is entered: the derived part is gone, virtual calls now reach
\* Worker itself.  No other call is under way: destroying an object while a
\* thread is in one of its functions is undefined, and the owner does not do it.
\* Tasks may be queued or in hand.
BeginDestroy(s) ==
  /\ s \in Destroyers
  /\ stopPc[s] = "idle"
  /\ vptr = "derived"
  /\ \A t \in Tasks : callPc[t] # "notify"
  /\ \A r \in Stoppers : stopPc[r] \in {"idle", "joined", "early"}
  /\ vptr' = "base"
  /\ stopPc' = [stopPc EXCEPT ![s] = "dtor"]
  /\ UNCHANGED <<running, tasks, promise, runPc, current, callPc>>

\* The critical section of stop().
Stop(s) ==
  /\ \/ stopPc[s] = "idle" /\ s \notin Destroyers /\ vptr = "derived"
     \/ stopPc[s] = "dtor"
  /\ LockFree
  /\ \/ /\ ~running
        /\ stopPc' = [stopPc EXCEPT ![s] = "early"]
        /\ UNCHANGED running
     \/ /\ running
        /\ running' = FALSE
        /\ stopPc' = [stopPc EXCEPT ![s] = "notify"]
  /\ UNCHANGED <<tasks, promise, runPc, current, callPc, vptr>>

\* Mutant: stop() joins without waking the thread.
NotifyAllLost(s) ==
  /\ stopPc[s] = "notify"
  /\ stopPc' = [stopPc EXCEPT ![s] = "join"]
  /\ UNCHANGED <<running, tasks, promise, runPc, current, callPc, vptr>>

NotifyAll(s) ==
  /\ stopPc[s] = "notify"
  /\ stopPc' = [stopPc EXCEPT ![s] = "join"]
  /\ runPc' = Woken
  /\ UNCHANGED <<running, tasks, promise, current, callPc, vptr>>

Join(s) ==
  /\ stopPc[s] = "join"
  /\ runPc = "done"
  /\ stopPc' = [stopPc EXCEPT ![s] = "joined"]
  /\ UNCHANGED <<running, tasks, promise, runPc, current, callPc, vptr>>

-----------------------------------------------------------------------------
\* run(), in the worker thread.

RunLock ==
  /\ runPc = "lock"
  /\ runPc' = "wait"
  /\ UNCHANGED <<running, tasks, promise, current, callPc, stopPc, vptr>>

\* Mutant: a stopped worker first serves what is queued.
RunWaitServes ==
  /\ runPc = "wait"
  /\ runPc' = IF tasks = <<>> /\ running THEN "block"
              ELSE IF tasks # <<>> THEN "take" ELSE "drain"
  /\ UNCHANGED <<running, tasks, promise, current, callPc, stopPc, vptr>>

\* The predicate of cv_.wait, then the test of running_, all under the lock.
RunWait ==
  /\ runPc = "wait"
  /\ runPc' = IF tasks = <<>> /\ running THEN "block"
              ELSE IF running THEN "take" ELSE "drain"
  /\ UNCHANGED <<running, tasks, promise, current, callPc, stopPc, vptr>>

\* cv_.wait releases the lock and blocks in one step.
RunBlock ==
  /\ runPc = "block"
  /\ runPc' = "blocked"
  /\ UNCHANGED <<running, tasks, promise, current, callPc, stopPc, vptr>>

SpuriousWakeup ==
  /\ runPc = "blocked"
  /\ runPc' = "lock"
  /\ UNCHANGED <<running, tasks, promise, current, callPc, stopPc, vptr>>

\* Mutant: the pair is copied and not popped.
RunTakeNoPop ==
  /\ runPc = "take"
  /\ current' = Head(tasks)
  /\ runPc' = "call"
  /\ UNCHANGED <<running, tasks, promise, callPc, stopPc, vptr>>

RunTake ==
  /\ runPc = "take"
  /\ current' = Head(tasks)
  /\ tasks' = Tail(tasks)
  /\ runPc' = "call"
  /\ UNCHANGED <<running, promise, callPc, stopPc, vptr>>

\* The virtual call of execute_task_.  While ~Worker() runs, the thread reads
\* the vptr in a race: it may still reach InferenceWorker::execute_task_, or
\* it reaches the pure virtual function, which ends the process.
RunCall ==
  /\ runPc = "call"
  /\ \/ runPc' = "exec"
     \/ vptr = "base" /\ runPc' = "aborted"
  /\ UNCHANGED <<running, tasks, promise, current, callPc, stopPc, vptr>>

\* InferenceWorker::execute_task_ returns: the promise has the output or the
\* exception that escaped from Inference.
ExecuteTask ==
  /\ runPc = "exec"
  /\ \E r \in {"value", "error"} : promise' = [promise EXCEPT ![current] = r]
  /\ current' = "none"
  /\ runPc' = "lock"
  /\ UNCHANGED <<running, tasks, callPc, stopPc, vptr>>

\* Mutant: the pair is popped without set_exception, which breaks its promise.
RunCancelBroken ==
  /\ runPc = "drain"
  /\ tasks # <<>>
  /\ promise' = [promise EXCEPT ![Head(tasks)] = "broken"]
  /\ tasks' = Tail(tasks)
  /\ UNCHANGED <<running, runPc, current, callPc, stopPc, vptr>>

RunCancel ==
  /\ runPc = "drain"
  /\ tasks # <<>>
  /\ promise' = [promise EXCEPT ![Head(tasks)] = "stopped"]
  /\ tasks' = Tail(tasks)
  /\ UNCHANGED <<running, runPc, current, callPc, stopPc, vptr>>

\* Mutant: the thread ends with tasks in the queue.
RunExitEarly ==
  /\ runPc = "drain"
  /\ runPc' = "done"
  /\ UNCHANGED <<running, tasks, promise, current, callPc, stopPc, vptr>>

RunExit ==
  /\ runPc = "drain"
  /\ tasks = <<>>
  /\ runPc' = "done"
  /\ UNCHANGED <<running, tasks, promise, current, callPc, stopPc, vptr>>

-----------------------------------------------------------------------------
Run ==
  \/ RunLock \/ RunWait \/ RunBlock \/ RunTake \/ RunCall
  \/ ExecuteTask \/ RunCancel \/ RunExit

\* Nothing moves once the process has been ended.
Alive == runPc # "aborted"
Next ==
  /\ Alive
  /\ \/ Run
     \/ SpuriousWakeup
     \/ \E t \in Tasks : AddTask(t) \/ NotifyOne(t)
     \/ \E s \in Stoppers : BeginDestroy(s) \/ Stop(s) \/ NotifyAll(s) \/ Join(s)

\* The operating system runs every thread that can run, while there is a
\* process; nobody has to call add_task() or stop(), and a wakeup without a
\* reason need never come.
Fairness ==
  /\ WF_vars(Run)
  /\ \A t \in Tasks : WF_vars(Alive /\ NotifyOne(t))
  /\ \A s \in Stoppers : /\ WF_vars(Alive /\ stopPc[s] = "dtor" /\ Stop(s))
                         /\ WF_vars(Alive /\ (NotifyAll(s) \/ Join(s)))

Spec == Init /\ [][Next]_vars
FairSpec == Spec /\ Fairness

-----------------------------------------------------------------------------
Queued(t) == \E i \in 1..Len(tasks) : tasks[i] = t
Accepted(t) == callPc[t] \in {"notify", "accepted"}
Answered(t) == promise[t] # "none"
InHand(t) == runPc \in {"call", "exec", "aborted"} /\ current = t

\* The life of an accepted task: it is in the queue once, or in the worker's
\* hands, or answered, and in exactly one of the three; no task that was never
\* accepted is in any.  A pop without a push, a promise answered twice or a
\* task dropped by run() or by the shutdown loop breaks it.
TaskAccounting ==
  /\ \A t \in Tasks : Accepted(t) <=> (Queued(t) \/ InHand(t) \/ Answered(t))
  /\ \A t \in Tasks : Queued(t) => ~InHand(t) /\ ~Answered(t)
  /\ \A t \in Tasks : InHand(t) => ~Answered(t)
  /\ \A i, j \in 1..Len(tasks) : tasks[i] = tasks[j] => i = j

\* stop() that went as far as join() returns to an idle worker: the queue is
\* empty and no caller of add_task() holds a future that will never be ready
\* (the loop of worker.hpp:53-59).
JoinedMeansAnswered ==
  (\E s \in Stoppers : stopPc[s] = "joined") =>
    /\ tasks = <<>>
    /\ \A t \in Tasks : Accepted(t) => Answered(t)

\* std::promise may be satisfied once: no step changes an answered promise.
PromiseSetOnce ==
  [][\A t \in Tasks : Answered(t) => promise'[t] = promise[t]]_vars

\* The service the callers see: its order, its refusals, its cancellations.
Service == INSTANCE TaskService WITH
  pending <- tasks,
  active  <- IF runPc \in {"call", "exec", "aborted"} THEN {current} ELSE {},
  outcome <- [t \in Tasks |-> IF callPc[t] = "idle" THEN "unsent"
                              ELSE IF callPc[t] = "rejected" THEN "rejected"
                              ELSE IF promise[t] = "none" THEN "waiting"
                              ELSE promise[t]],
  open    <- running

\* Worker implements TaskService: tasks start one at a time and in the order
\* add_task() accepted them, none starts after stop(), the queued ones are
\* then cancelled in order, and add_task() refuses exactly from then on.
ImplementsTaskService == Service!Spec

\* No wakeup is lost: every accepted task is answered in the end, unless the
\* process is ended by the pure virtual call.
EveryTaskAnswered ==
  \A t \in Tasks : Accepted(t) ~> (Answered(t) \/ runPc = "aborted")

\* Every stop() returns: the worker thread always reaches its end and join()
\* never waits for a thread that sleeps in cv_.wait.
StopReturns ==
  \A s \in Stoppers :
    stopPc[s] \in {"notify", "join"} ~> (stopPc[s] = "joined" \/ runPc = "aborted")

\* "Shutdown: cancel every queued task so no caller's future.get() hangs"
\* (worker.hpp:53; the same of worker_stopped in worker.hpp:17-19): a task that
\* is still in the queue when ~Worker() has begun is answered through its future.
ShutdownCancelsQueued ==
  \A t \in Tasks : (vptr = "base" /\ Queued(t)) ~> Answered(t)

=============================================================================
