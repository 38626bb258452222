---------------------------- MODULE TaskService ----------------------------
(***************************************************************************)
(* What Worker<T, R> (src/src/worker/worker.hpp) promises to the callers of *)
(* add_task(), without its thread, mutex or condition variable: a service   *)
(* that runs one task at a time, in the order the tasks were accepted,      *)
(* answers every task at most once, and, once shut, refuses new tasks,      *)
(* starts none of the queued ones and cancels them in order.                *)
(***************************************************************************)
EXTENDS Sequences

CONSTANT Tasks   \* one element per call of add_task: a task and its promise

VARIABLES pending,   \* accepted tasks that have not started, oldest first
          active,    \* the set holding the task being executed, if any
          outcome,   \* what the submitter of each task knows
          open       \* tasks are still accepted and started

vars == <<pending, active, outcome, open>>

Init ==
  /\ pending = <<>>
  /\ active = {}
  /\ outcome = [t \in Tasks |-> "unsent"]
  /\ open = TRUE

Accept(t) ==
  /\ open
  /\ outcome[t] = "unsent"
  /\ pending' = Append(pending, t)
  /\ outcome' = [outcome EXCEPT ![t] = "waiting"]
  /\ UNCHANGED <<active, open>>

Reject(t) ==
  /\ ~open
  /\ outcome[t] = "unsent"
  /\ outcome' = [outcome EXCEPT ![t] = "rejected"]
  /\ UNCHANGED <<pending, active, open>>

Start ==
  /\ open
  /\ active = {}
  /\ pending # <<>>
  /\ active' = {Head(pending)}
  /\ pending' = Tail(pending)
  /\ UNCHANGED <<outcome, open>>

Finish(t) ==
  /\ active = {t}
  /\ outcome[t] = "waiting"
  /\ active' = {}
  /\ \E r \in {"value", "error"} : outcome' = [outcome EXCEPT ![t] = r]
  /\ UNCHANGED <<pending, open>>

Shut ==
  /\ open
  /\ open' = FALSE
  /\ UNCHANGED <<pending, active, outcome>>

Cancel ==
  /\ ~open
  /\ active = {}
  /\ pending # <<>>
  /\ outcome[Head(pending)] = "waiting"
  /\ outcome' = [outcome EXCEPT ![Head(pending)] = "stopped"]
  /\ pending' = Tail(pending)
  /\ UNCHANGED <<active, open>>

Next ==
  \/ \E t \in Tasks : Accept(t) \/ Reject(t) \/ Finish(t)
  \/ Start
  \/ Shut
  \/ Cancel

Spec == Init /\ [][Next]_vars

=============================================================================
