---------------------------- MODULE WorkerProofs ----------------------------
(***************************************************************************)
(* Proofs about Worker, for every set of tasks and of callers of stop().    *)
(***************************************************************************)
EXTENDS Worker, TLAPS

-----------------------------------------------------------------------------
\* What the queue operations do to the tasks a queue holds.

In(x, s) == \E i \in 1..Len(s) : s[i] = x
Distinct(s) == \A i, j \in 1..Len(s) : s[i] = s[j] => i = j

\* emplace() adds one task and keeps the others.
LEMMA AppendIn ==
  ASSUME NEW S, NEW s \in Seq(S), NEW e \in S
  PROVE  /\ Append(s, e) \in Seq(S)
         /\ \A x : In(x, Append(s, e)) <=> (In(x, s) \/ x = e)
<1> DEFINE a == Append(s, e)
<1>1. /\ a \in Seq(S)
      /\ Len(a) = Len(s) + 1
      /\ \A i \in 1..Len(s) : a[i] = s[i]
      /\ a[Len(s) + 1] = e
  OBVIOUS
<1>2. Len(s) \in Nat
  OBVIOUS
<1>3. ASSUME NEW x PROVE In(x, a) <=> (In(x, s) \/ x = e)
  <2> HIDE DEF a
  <2>1. ASSUME In(x, a) PROVE In(x, s) \/ x = e
    <3>1. PICK i \in 1..Len(a) : a[i] = x
      BY <2>1 DEF In
    <3>2. CASE i = Len(s) + 1
      BY <1>1, <3>1, <3>2
    <3>3. CASE i \in 1..Len(s)
      BY <1>1, <3>1, <3>3 DEF In
    <3> QED BY <1>1, <1>2, <3>2, <3>3
  <2>2. ASSUME In(x, s) PROVE In(x, a)
    BY <1>1, <1>2, <2>2 DEF In
  <2>3. ASSUME x = e PROVE In(x, a)
    BY <1>1, <1>2, <2>3 DEF In
  <2> QED BY <2>1, <2>2, <2>3
<1> QED BY <1>1, <1>3

\* A task that is not yet queued may be added without a duplicate.
LEMMA AppendDistinct ==
  ASSUME NEW S, NEW s \in Seq(S), NEW e \in S, Distinct(s), ~In(e, s)
  PROVE  Distinct(Append(s, e))
<1> DEFINE a == Append(s, e)
<1>1. /\ Len(a) = Len(s) + 1
      /\ \A i \in 1..Len(s) : a[i] = s[i]
      /\ a[Len(s) + 1] = e
  OBVIOUS
<1>2. Len(s) \in Nat
  OBVIOUS
<1> HIDE DEF a
<1> QED BY <1>1, <1>2 DEF Distinct, In

\* front() and pop() remove the first task and keep the others.
LEMMA TailIn ==
  ASSUME NEW S, NEW s \in Seq(S), s # <<>>, Distinct(s)
  PROVE  /\ Head(s) \in S
         /\ In(Head(s), s)
         /\ Tail(s) \in Seq(S)
         /\ Distinct(Tail(s))
         /\ \A x : In(x, Tail(s)) <=> (In(x, s) /\ x # Head(s))
<1> DEFINE r == Tail(s)
<1>1. /\ Len(s) \in Nat
      /\ Len(s) > 0
      /\ Len(r) = Len(s) - 1
      /\ r \in Seq(S)
      /\ Head(s) = s[1]
      /\ s[1] \in S
      /\ \A i \in 1..Len(r) : r[i] = s[i + 1]
  OBVIOUS
<1> HIDE DEF r
<1>2. In(Head(s), s)
  BY <1>1 DEF In
<1>3. Distinct(r)
  BY <1>1 DEF Distinct
<1>4. ASSUME NEW x PROVE In(x, r) <=> (In(x, s) /\ x # Head(s))
  <2>1. ASSUME In(x, r) PROVE In(x, s) /\ x # Head(s)
    <3>1. PICK i \in 1..Len(r) : r[i] = x
      BY <2>1 DEF In
    <3>2. i + 1 \in 1..Len(s) /\ s[i + 1] = x /\ 1 \in 1..Len(s) /\ i + 1 # 1
      BY <1>1, <3>1
    <3> QED BY <1>1, <3>2 DEF In, Distinct
  <2>2. ASSUME In(x, s), x # Head(s) PROVE In(x, r)
    <3>1. PICK i \in 1..Len(s) : s[i] = x
      BY <2>2 DEF In
    <3>2. i - 1 \in 1..Len(r) /\ r[i - 1] = s[(i - 1) + 1] /\ (i - 1) + 1 = i
      BY <1>1, <2>2, <3>1
    <3> QED BY <3>1, <3>2 DEF In
  <2> QED BY <2>1, <2>2
<1> QED BY <1>1, <1>2, <1>3, <1>4 DEF r

-----------------------------------------------------------------------------
\* The inductive invariant.  TaskAccounting alone is not inductive: a step of
\* run() keeps it only because the point run() has reached says what the queue
\* and running_ are.

InHandPoints == {"call", "exec", "aborted"}

\* What each point of run(), stop() and add_task() implies about the state.
ControlInv ==
  /\ runPc = "take" => running /\ tasks # <<>>
  /\ runPc \in {"drain", "done"} => ~running
  /\ runPc = "done" => tasks = <<>>
  /\ runPc \in InHandPoints <=> current # "none"
  /\ \A s \in Stoppers : stopPc[s] \in {"notify", "join", "joined"} => ~running
  /\ \A s \in Stoppers : stopPc[s] = "joined" => runPc = "done"
  /\ \A t \in Tasks : callPc[t] = "rejected" => ~running

IInv == TypeOK /\ ControlInv /\ TaskAccounting

\* Every constructed worker satisfies the invariant.
LEMMA InitIInv == Init => IInv
<1> SUFFICES ASSUME Init PROVE IInv
  OBVIOUS
<1>1. TypeOK
  BY NoTaskIsNone DEF Init, TypeOK, LockedPoints
<1>2. ControlInv
  BY DEF Init, ControlInv, InHandPoints
<1>3. TaskAccounting
  BY DEF Init, TaskAccounting, Accepted, Queued, InHand, Answered
<1> QED BY <1>1, <1>2, <1>3 DEF IInv

\* Every step keeps the types of the state.
LEMMA TypeStep == ASSUME IInv, [Next]_vars PROVE TypeOK'
<1> USE DEF IInv, TypeOK, LockedPoints
<1>1. CASE Run
  <2>1. CASE RunTake
    <3>1. tasks # <<>>
      BY <2>1 DEF RunTake, ControlInv
    <3>2. Head(tasks) \in Tasks /\ Tail(tasks) \in Seq(Tasks)
      BY <3>1
    <3> QED BY <2>1, <3>2 DEF RunTake
  <2>2. CASE RunCancel
    <3>1. Head(tasks) \in Tasks /\ Tail(tasks) \in Seq(Tasks)
      BY <2>2 DEF RunCancel
    <3> QED BY <2>2, <3>1 DEF RunCancel
  <2>3. CASE RunLock \/ RunBlock \/ RunExit
    BY <2>3 DEF RunLock, RunBlock, RunExit
  <2>4. CASE RunWait
    BY <2>4 DEF RunWait
  <2>5. CASE RunCall
    BY <2>5 DEF RunCall
  <2>6. CASE ExecuteTask
    BY <2>6 DEF ExecuteTask
  <2> QED BY <1>1, <2>1, <2>2, <2>3, <2>4, <2>5, <2>6 DEF Run
<1>2. CASE SpuriousWakeup
  BY <1>2 DEF SpuriousWakeup
<1>3. ASSUME NEW t \in Tasks, AddTask(t) PROVE TypeOK'
  <2>1. Append(tasks, t) \in Seq(Tasks)
    BY <1>3, AppendIn
  <2>2. tasks' \in Seq(Tasks) /\ UNCHANGED <<running, promise, runPc, current, stopPc, vptr>>
    BY <1>3, <2>1 DEF AddTask
  <2>3. callPc' \in [Tasks -> {"idle", "notify", "accepted", "rejected"}]
    BY <1>3 DEF AddTask
  <2> QED BY <2>2, <2>3
<1>4. ASSUME NEW t \in Tasks, NotifyOne(t) PROVE TypeOK'
  BY <1>4 DEF NotifyOne, Woken
<1>5. ASSUME NEW s \in Stoppers, BeginDestroy(s) PROVE TypeOK'
  BY <1>5 DEF BeginDestroy
<1>6. ASSUME NEW s \in Stoppers, Stop(s) PROVE TypeOK'
  BY <1>6 DEF Stop
<1>7. ASSUME NEW s \in Stoppers, NotifyAll(s) PROVE TypeOK'
  BY <1>7 DEF NotifyAll, Woken
<1>8. ASSUME NEW s \in Stoppers, Join(s) PROVE TypeOK'
  BY <1>8 DEF Join
<1>9. CASE UNCHANGED vars
  BY <1>9 DEF vars
<1> QED
  BY <1>1, <1>2, <1>3, <1>4, <1>5, <1>6, <1>7, <1>8, <1>9 DEF Next

\* Every step keeps what the control points say.
LEMMA ControlStep == ASSUME IInv, [Next]_vars PROVE ControlInv'
<1> USE DEF IInv, ControlInv, InHandPoints
<1>0. TypeOK
  OBVIOUS
<1>1. CASE Run
  <2>1. CASE RunTake
    <3>1. tasks # <<>> /\ Head(tasks) \in Tasks
      BY <1>0, <2>1 DEF RunTake, TypeOK
    <3>2. current' # "none" /\ runPc' = "call" /\ UNCHANGED <<running, stopPc, callPc>>
      BY <2>1, <3>1, NoTaskIsNone DEF RunTake
    <3>3. \A s \in Stoppers : stopPc[s] # "joined"
      BY <2>1 DEF RunTake
    <3> QED BY <3>2, <3>3
  <2>2. CASE RunCancel
    BY <2>2 DEF RunCancel
  <2>3. CASE RunLock \/ RunBlock
    BY <2>3 DEF RunLock, RunBlock
  <2>4. CASE RunWait
    BY <2>4 DEF RunWait
  <2>5. CASE RunCall
    BY <2>5 DEF RunCall
  <2>6. CASE ExecuteTask
    BY <2>6 DEF ExecuteTask
  <2>7. CASE RunExit
    BY <2>7 DEF RunExit
  <2> QED BY <1>1, <2>1, <2>2, <2>3, <2>4, <2>5, <2>6, <2>7 DEF Run
<1>2. CASE SpuriousWakeup
  BY <1>2 DEF SpuriousWakeup
<1>3. ASSUME NEW t \in Tasks, AddTask(t) PROVE ControlInv'
  <2>1. runPc # "take" /\ UNCHANGED <<running, runPc, current, stopPc>>
    BY <1>3 DEF AddTask, LockFree, LockedPoints
  <2>2. CASE ~running
    BY <1>0, <1>3, <2>1, <2>2 DEF AddTask, TypeOK
  <2>3. CASE running
    BY <1>0, <1>3, <2>1, <2>3 DEF AddTask, TypeOK
  <2> QED BY <2>2, <2>3
<1>4. ASSUME NEW t \in Tasks, NotifyOne(t) PROVE ControlInv'
  BY <1>0, <1>4 DEF NotifyOne, Woken, TypeOK
<1>5. ASSUME NEW s \in Stoppers, BeginDestroy(s) PROVE ControlInv'
  BY <1>0, <1>5 DEF BeginDestroy, TypeOK
<1>6. ASSUME NEW s \in Stoppers, Stop(s) PROVE ControlInv'
  BY <1>0, <1>6 DEF Stop, LockFree, LockedPoints, TypeOK
<1>7. ASSUME NEW s \in Stoppers, NotifyAll(s) PROVE ControlInv'
  BY <1>0, <1>7 DEF NotifyAll, Woken, TypeOK
<1>8. ASSUME NEW s \in Stoppers, Join(s) PROVE ControlInv'
  BY <1>0, <1>8 DEF Join, TypeOK
<1>9. CASE UNCHANGED vars
  BY <1>9 DEF vars
<1> QED
  BY <1>1, <1>2, <1>3, <1>4, <1>5, <1>6, <1>7, <1>8, <1>9 DEF Next

\* The accounting, with the queue seen through In and Distinct.
LEMMA AccountingForm ==
  TaskAccounting <=>
    /\ \A t \in Tasks : Accepted(t) <=> (In(t, tasks) \/ InHand(t) \/ Answered(t))
    /\ \A t \in Tasks : In(t, tasks) => ~InHand(t) /\ ~Answered(t)
    /\ \A t \in Tasks : InHand(t) => ~Answered(t)
    /\ Distinct(tasks)
BY DEF TaskAccounting, Queued, In, Distinct

\* Steps that leave the queue, the promises and the task in hand alone.
LEMMA AccountingFrame ==
  ASSUME TaskAccounting,
         UNCHANGED <<tasks, promise>>,
         \A t \in Tasks : Accepted(t)' <=> Accepted(t),
         \A t \in Tasks : InHand(t)' <=> InHand(t)
  PROVE  TaskAccounting'
BY DEF TaskAccounting, Queued, Answered

\* Every step keeps the accounting of the tasks.
LEMMA AccountingStep == ASSUME IInv, [Next]_vars PROVE TaskAccounting'
<1> USE DEF IInv
<1>0. TypeOK /\ TaskAccounting /\ ControlInv /\ Distinct(tasks) /\ tasks \in Seq(Tasks)
  BY AccountingForm DEF TypeOK
<1>1. CASE Run
  <2>1. CASE RunTake
    <3>1. tasks # <<>>
      BY <2>1 DEF RunTake, ControlInv
    <3> DEFINE h == Head(tasks)
    <3>2. /\ h \in Tasks /\ In(h, tasks) /\ Distinct(Tail(tasks))
          /\ \A x : In(x, Tail(tasks)) <=> (In(x, tasks) /\ x # h)
      BY <1>0, <3>1, TailIn
    <3>3. /\ tasks' = Tail(tasks) /\ current' = h /\ runPc' = "call"
          /\ UNCHANGED <<promise, callPc>>
      BY <2>1 DEF RunTake
    <3>4. \A t \in Tasks : ~InHand(t)
      BY <2>1 DEF RunTake, InHand
    <3>5. \A t \in Tasks : InHand(t)' <=> t = h
      BY <3>3 DEF InHand
    <3>6. \A t \in Tasks : (Accepted(t)' <=> Accepted(t)) /\ (Answered(t)' <=> Answered(t))
      BY <3>3 DEF Accepted, Answered
    <3> HIDE DEF h
    <3>7. \A t \in Tasks : In(t, tasks)' <=> (In(t, tasks) /\ t # h)
      BY <3>2, <3>3
    <3>8. Distinct(tasks)'
      BY <3>2, <3>3
    <3>9. /\ \A t \in Tasks : Accepted(t)' <=> (In(t, tasks)' \/ InHand(t)' \/ Answered(t)')
          /\ \A t \in Tasks : In(t, tasks)' => ~InHand(t)' /\ ~Answered(t)'
          /\ \A t \in Tasks : InHand(t)' => ~Answered(t)'
      BY <1>0, <3>2, <3>4, <3>5, <3>6, <3>7, AccountingForm
    <3> QED BY <3>8, <3>9 DEF TaskAccounting, Queued, In, Distinct
  <2>2. CASE RunCancel
    <3> DEFINE h == Head(tasks)
    <3>1. tasks # <<>> /\ \A t \in Tasks : ~InHand(t) /\ ~InHand(t)'
      BY <2>2 DEF RunCancel, InHand
    <3>2. /\ h \in Tasks /\ In(h, tasks) /\ Distinct(Tail(tasks))
          /\ \A x : In(x, Tail(tasks)) <=> (In(x, tasks) /\ x # h)
      BY <1>0, <3>1, TailIn
    <3>3. /\ tasks' = Tail(tasks) /\ promise' = [promise EXCEPT ![h] = "stopped"]
          /\ UNCHANGED callPc
      BY <2>2 DEF RunCancel
    <3> HIDE DEF h
    <3>4. \A t \in Tasks : Answered(t)' <=> (Answered(t) \/ t = h)
      BY <1>0, <3>2, <3>3 DEF Answered, TypeOK
    <3>5. \A t \in Tasks : Accepted(t)' <=> Accepted(t)
      BY <3>3 DEF Accepted
    <3>6. \A t \in Tasks : In(t, tasks)' <=> (In(t, tasks) /\ t # h)
      BY <3>2, <3>3
    <3>7. Distinct(tasks)'
      BY <3>2, <3>3
    <3>8. /\ \A t \in Tasks : Accepted(t)' <=> (In(t, tasks)' \/ InHand(t)' \/ Answered(t)')
          /\ \A t \in Tasks : In(t, tasks)' => ~InHand(t)' /\ ~Answered(t)'
          /\ \A t \in Tasks : InHand(t)' => ~Answered(t)'
      BY <1>0, <3>1, <3>2, <3>4, <3>5, <3>6, AccountingForm
    <3> QED BY <3>7, <3>8 DEF TaskAccounting, Queued, In, Distinct
  <2>3. CASE ExecuteTask
    <3>1. /\ current \in Tasks /\ tasks' = tasks /\ callPc' = callPc
          /\ \A t \in Tasks : InHand(t) <=> t = current
          /\ \A t \in Tasks : ~InHand(t)'
      BY <1>0, <2>3 DEF ExecuteTask, InHand, ControlInv, InHandPoints, TypeOK
    <3>2. \A t \in Tasks : Answered(t)' <=> (Answered(t) \/ t = current)
      BY <1>0, <2>3, <3>1 DEF ExecuteTask, Answered, TypeOK
    <3>3. \A t \in Tasks : Accepted(t)' <=> Accepted(t)
      BY <3>1 DEF Accepted
    <3>4. \A t \in Tasks : In(t, tasks)' <=> In(t, tasks)
      BY <3>1
    <3>5. Distinct(tasks)'
      BY <1>0, <3>1
    <3>6. /\ \A t \in Tasks : Accepted(t)' <=> (In(t, tasks)' \/ InHand(t)' \/ Answered(t)')
          /\ \A t \in Tasks : In(t, tasks)' => ~InHand(t)' /\ ~Answered(t)'
          /\ \A t \in Tasks : InHand(t)' => ~Answered(t)'
      BY <1>0, <3>1, <3>2, <3>3, <3>4, AccountingForm
    <3> QED BY <3>5, <3>6 DEF TaskAccounting, Queued, In, Distinct
  <2>4. CASE RunLock \/ RunBlock \/ RunWait \/ RunCall \/ RunExit
    <3>1. UNCHANGED <<tasks, promise, callPc>>
      BY <2>4 DEF RunLock, RunBlock, RunWait, RunCall, RunExit
    <3>2. \A t \in Tasks : InHand(t)' <=> InHand(t)
      BY <2>4 DEF RunLock, RunBlock, RunWait, RunCall, RunExit, InHand
    <3> QED BY <1>0, <3>1, <3>2, AccountingFrame DEF Accepted
  <2> QED BY <1>1, <2>1, <2>2, <2>3, <2>4 DEF Run
<1>2. CASE SpuriousWakeup
  BY <1>0, <1>2, AccountingFrame DEF SpuriousWakeup, Accepted, InHand
<1>3. ASSUME NEW t \in Tasks, AddTask(t) PROVE TaskAccounting'
  <2>0. /\ callPc[t] = "idle" /\ UNCHANGED <<promise, runPc, current>>
        /\ \A u \in Tasks : (InHand(u)' <=> InHand(u)) /\ (Answered(u)' <=> Answered(u))
    BY <1>3 DEF AddTask, InHand, Answered
  <2>1. ~Accepted(t)
    BY <2>0 DEF Accepted
  <2>2. CASE ~running
    <3>1. tasks' = tasks /\ \A u \in Tasks : Accepted(u)' <=> Accepted(u)
      BY <1>0, <1>3, <2>0, <2>2 DEF AddTask, Accepted, TypeOK
    <3> QED BY <1>0, <2>0, <3>1, AccountingFrame
  <2>3. CASE running
    <3>1. /\ tasks' = Append(tasks, t)
          /\ \A u \in Tasks : Accepted(u)' <=> (Accepted(u) \/ u = t)
      BY <1>0, <1>3, <2>3 DEF AddTask, Accepted, TypeOK
    <3>2. ~In(t, tasks) /\ ~InHand(t) /\ ~Answered(t)
      BY <1>0, <2>1, AccountingForm
    <3>3. Distinct(tasks)'
      BY <1>0, <3>1, <3>2, AppendDistinct
    <3>4. \A u \in Tasks : In(u, tasks)' <=> (In(u, tasks) \/ u = t)
      BY <1>0, <3>1, AppendIn
    <3>5. /\ \A u \in Tasks : Accepted(u)' <=> (In(u, tasks)' \/ InHand(u)' \/ Answered(u)')
          /\ \A u \in Tasks : In(u, tasks)' => ~InHand(u)' /\ ~Answered(u)'
          /\ \A u \in Tasks : InHand(u)' => ~Answered(u)'
      BY <1>0, <2>0, <3>1, <3>2, <3>4, AccountingForm
    <3> QED BY <3>3, <3>5 DEF TaskAccounting, Queued, In, Distinct
  <2> QED BY <2>2, <2>3
<1>4. ASSUME NEW t \in Tasks, NotifyOne(t) PROVE TaskAccounting'
  <2>1. \A u \in Tasks : Accepted(u)' <=> Accepted(u)
    BY <1>0, <1>4 DEF NotifyOne, Accepted, TypeOK
  <2>2. UNCHANGED <<tasks, promise>> /\ \A u \in Tasks : InHand(u)' <=> InHand(u)
    BY <1>4 DEF NotifyOne, InHand, Woken
  <2> QED BY <1>0, <2>1, <2>2, AccountingFrame
<1>5. ASSUME NEW s \in Stoppers, BeginDestroy(s) \/ Stop(s) \/ NotifyAll(s) \/ Join(s)
      PROVE  TaskAccounting'
  <2>1. UNCHANGED <<tasks, promise, callPc>> /\ \A u \in Tasks : InHand(u)' <=> InHand(u)
    BY <1>5 DEF BeginDestroy, Stop, NotifyAll, Join, InHand, Woken
  <2> QED BY <1>0, <2>1, AccountingFrame DEF Accepted
<1>6. CASE UNCHANGED vars
  BY <1>0, <1>6, AccountingFrame DEF vars, Accepted, InHand
<1> QED
  BY <1>1, <1>2, <1>3, <1>4, <1>5, <1>6 DEF Next

\* The invariant holds in every state of every behaviour of the worker.
THEOREM Invariance == Spec => []IInv
<1>1. IInv /\ [Next]_vars => IInv'
  BY TypeStep, ControlStep, AccountingStep DEF IInv
<1> QED BY <1>1, InitIInv, PTL DEF Spec

-----------------------------------------------------------------------------
\* The state of the worker keeps its types.
THEOREM TypeCorrect == Spec => []TypeOK
<1>1. IInv => TypeOK
  BY DEF IInv
<1> QED BY <1>1, Invariance, PTL

\* Every accepted task is queued once, in hand, or answered, and exactly one
\* of these: run() and stop() lose no task and answer none twice.
THEOREM AccountingCorrect == Spec => []TaskAccounting
<1>1. IInv => TaskAccounting
  BY DEF IInv
<1> QED BY <1>1, Invariance, PTL

\* When a stop() has joined the thread, every accepted task has its answer.
THEOREM JoinedCorrect == Spec => []JoinedMeansAnswered
<1>1. IInv => JoinedMeansAnswered
  <2> SUFFICES ASSUME IInv, NEW s \in Stoppers, stopPc[s] = "joined"
               PROVE  tasks = <<>> /\ \A t \in Tasks : Accepted(t) => Answered(t)
    BY DEF JoinedMeansAnswered
  <2>1. runPc = "done" /\ tasks = <<>>
    BY DEF IInv, ControlInv
  <2>2. \A t \in Tasks : ~Queued(t) /\ ~InHand(t)
    BY <2>1 DEF Queued, InHand
  <2> QED BY <2>1, <2>2 DEF IInv, TaskAccounting
<1> QED BY <1>1, Invariance, PTL

\* No step sets a promise that already has its answer: neither execute_task_
\* nor the cancellation loop can make set_value or set_exception throw.
THEOREM PromiseOnceCorrect == Spec => PromiseSetOnce
<1>1. ASSUME IInv, [Next]_vars
      PROVE  [\A t \in Tasks : Answered(t) => promise'[t] = promise[t]]_vars
  <2> SUFFICES ASSUME NEW t \in Tasks, Answered(t), Next PROVE promise'[t] = promise[t]
    BY <1>1
  <2>0. TypeOK /\ ControlInv /\ TaskAccounting
    BY <1>1 DEF IInv
  <2>1. CASE ExecuteTask
    <3>1. InHand(current) /\ current \in Tasks
      BY <2>0, <2>1 DEF ExecuteTask, InHand, ControlInv, InHandPoints, TypeOK
    <3>2. t # current
      BY <2>0, <3>1 DEF TaskAccounting
    <3> QED BY <2>0, <2>1, <3>2 DEF ExecuteTask, TypeOK
  <2>2. CASE RunCancel
    <3>1. In(Head(tasks), tasks) /\ Head(tasks) \in Tasks
      BY <2>0, <2>2, TailIn, AccountingForm DEF RunCancel, TypeOK
    <3>2. t # Head(tasks)
      BY <2>0, <3>1, AccountingForm
    <3> QED BY <2>0, <2>2, <3>2 DEF RunCancel, TypeOK
  <2>3. CASE UNCHANGED promise
    BY <2>3
  <2> QED
    BY <2>1, <2>2, <2>3 DEF Next, Run, RunLock, RunWait, RunBlock, RunTake, RunCall,
       RunExit, SpuriousWakeup, AddTask, NotifyOne, BeginDestroy, Stop, NotifyAll, Join
<1> QED BY <1>1, Invariance, PTL DEF Spec, PromiseSetOnce

-----------------------------------------------------------------------------
\* The refinement: what each step of the worker is to its callers.

\* The worker's initial state is the service's.
LEMMA RefinesInit == Init => Service!Init
BY DEF Init, Service!Init

\* Every step of the worker is a step of the service or leaves it unchanged.
LEMMA RefinesStep == ASSUME IInv, [Next]_vars PROVE [Service!Next]_Service!vars
<1>0. TypeOK /\ ControlInv /\ TaskAccounting
  BY DEF IInv
<1>1. CASE Run
  <2>1. CASE RunTake
    <3>1. Service!Start
      BY <1>0, <2>1 DEF RunTake, ControlInv, Service!Start
    <3> QED BY <3>1 DEF Service!Next
  <2>2. CASE RunCancel
    <3>1. Head(tasks) \in Tasks /\ In(Head(tasks), tasks)
      BY <1>0, <2>2, TailIn, AccountingForm DEF RunCancel, TypeOK
    <3>2. Accepted(Head(tasks)) /\ ~Answered(Head(tasks))
      BY <1>0, <3>1, AccountingForm
    <3>3. Service!Cancel
      BY <1>0, <2>2, <3>1, <3>2
         DEF RunCancel, Service!Cancel, ControlInv, Accepted, Answered, TypeOK
    <3> QED BY <3>3 DEF Service!Next
  <2>3. CASE ExecuteTask
    <3>1. current \in Tasks /\ InHand(current)
      BY <1>0, <2>3 DEF ExecuteTask, InHand, ControlInv, InHandPoints, TypeOK
    <3>2. PICK t \in Tasks : t = current
      BY <3>1
    <3>3. Accepted(t) /\ ~Answered(t)
      BY <1>0, <3>1, <3>2 DEF TaskAccounting
    <3>4. PICK r \in {"value", "error"} : promise' = [promise EXCEPT ![t] = r]
      BY <2>3, <3>2 DEF ExecuteTask
    <3>5. Service!Finish(t)
      BY <1>0, <2>3, <3>2, <3>3, <3>4
         DEF ExecuteTask, Service!Finish, Accepted, Answered, TypeOK
    <3> QED BY <3>5 DEF Service!Next
  <2>4. CASE RunLock \/ RunBlock \/ RunWait \/ RunCall \/ RunExit
    BY <2>4 DEF RunLock, RunBlock, RunWait, RunCall, RunExit, Service!vars
  <2> QED BY <1>1, <2>1, <2>2, <2>3, <2>4 DEF Run
<1>2. CASE SpuriousWakeup
  BY <1>2 DEF SpuriousWakeup, Service!vars
<1>3. ASSUME NEW t \in Tasks, AddTask(t) PROVE [Service!Next]_Service!vars
  <2>1. ~Accepted(t) /\ ~Answered(t)
    BY <1>0, <1>3 DEF AddTask, Accepted, TaskAccounting
  <2>2. CASE ~running
    <3>1. Service!Reject(t)
      BY <1>0, <1>3, <2>2 DEF AddTask, Service!Reject, TypeOK
    <3> QED BY <3>1 DEF Service!Next
  <2>3. CASE running
    <3>1. Service!Accept(t)
      BY <1>0, <1>3, <2>1, <2>3 DEF AddTask, Service!Accept, Answered, TypeOK
    <3> QED BY <3>1 DEF Service!Next
  <2> QED BY <2>2, <2>3
<1>4. ASSUME NEW t \in Tasks, NotifyOne(t) PROVE [Service!Next]_Service!vars
  BY <1>0, <1>4 DEF NotifyOne, Woken, Service!vars, TypeOK
<1>5. ASSUME NEW s \in Stoppers, BeginDestroy(s) \/ NotifyAll(s) \/ Join(s)
      PROVE  [Service!Next]_Service!vars
  BY <1>5 DEF BeginDestroy, NotifyAll, Join, Woken, Service!vars
<1>6. ASSUME NEW s \in Stoppers, Stop(s) PROVE [Service!Next]_Service!vars
  <2>1. CASE running
    <3>1. Service!Shut
      BY <1>6, <2>1 DEF Stop, Service!Shut
    <3> QED BY <3>1 DEF Service!Next
  <2>2. CASE ~running
    BY <1>6, <2>2 DEF Stop, Service!vars
  <2> QED BY <2>1, <2>2
<1>7. CASE UNCHANGED vars
  BY <1>7 DEF vars, Service!vars
<1> QED
  BY <1>1, <1>2, <1>3, <1>4, <1>5, <1>6, <1>7 DEF Next

\* The worker implements the task service its callers rely on.
THEOREM Refinement == Spec => ImplementsTaskService
BY Invariance, RefinesInit, RefinesStep, PTL DEF Spec, ImplementsTaskService, Service!Spec

=============================================================================
