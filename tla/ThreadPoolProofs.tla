-------------------------- MODULE ThreadPoolProofs --------------------------
(***************************************************************************)
(* Theorems about ThreadPool, for every number of threads, callers and     *)
(* tasks and every set of operations that the callers use.                 *)
(***************************************************************************)
EXTENDS ThreadPool, FiniteSetTheorems, TLAPS

\* The next task at the end of the queue.
LEMMA AppendFacts ==
  ASSUME NEW n \in Nat, NEW q \in Seq(1..n)
  PROVE  /\ Append(q, n + 1) \in Seq(1..(n + 1))
         /\ Len(Append(q, n + 1)) = Len(q) + 1
         /\ \A i \in 1..Len(q) : Append(q, n + 1)[i] = q[i]
         /\ Append(q, n + 1)[Len(q) + 1] = n + 1
  <1>1. q \in Seq(1..(n + 1))
    <2>1. \A i \in 1..Len(q) : q[i] \in 1..(n + 1)
      OBVIOUS
    <2> QED
      BY <2>1
  <1> QED
    BY <1>1

\* The queue without its first task.
LEMMA TailFacts ==
  ASSUME NEW n \in Nat, NEW q \in Seq(1..n), q # <<>>
  PROVE  /\ Tail(q) \in Seq(1..n)
         /\ Len(q) \in Nat \ {0}
         /\ Len(Tail(q)) = Len(q) - 1
         /\ \A i \in 1..Len(Tail(q)) : Tail(q)[i] = q[i + 1]
         /\ Head(q) = q[1]
         /\ Head(q) \in 1..n
  OBVIOUS

\* Notifying and creating workers change places of workers only.
LEMMA NotificationTypes ==
  ASSUME TypeOK
  PROVE  /\ \A pc \in NotifyOne : pc \in [Workers -> WorkerStates]
         /\ NotifyAll \in [Workers -> WorkerStates]
         /\ \A b \in Batches \cup {{}} : Created(b) \in [Workers -> WorkerStates]
  BY DEF TypeOK, NotifyOne, NotifyAll, Created, Waiters, WorkerStates

---------------------------------------------------------------------------
(***************************************************************************)
(* Type correctness.                                                       *)
(***************************************************************************)

\* The constructor leaves well-typed variables.
LEMMA InitTypeOK == Init => TypeOK
  <1> SUFFICES ASSUME Init PROVE TypeOK
    OBVIOUS
  <1>1. task_queue \in Seq(1..submitted)
    BY DEF Init
  <1>2. wpc \in [Workers -> {"unborn", "lock"}]
    BY DEF Init
  <1>3. wpc \in [Workers -> WorkerStates]
    BY <1>2 DEF WorkerStates
  <1>4. /\ isAllRunning = TRUE /\ joinable = {} /\ mtx = None
        /\ task = [w \in Workers |-> 0] /\ cpc = [c \in Callers |-> "idle"]
        /\ submitted = 0 /\ destroyed = FALSE /\ undefined = FALSE
    BY DEF Init
  <1>5. task \in [Workers -> 0..submitted] /\ cpc \in [Callers -> CallerStates]
    BY <1>4 DEF CallerStates
  <1>6. joinable \subseteq Workers /\ mtx \in Workers \cup Callers \cup {None}
    BY <1>4
  <1> QED
    BY <1>1, <1>3, <1>4, <1>5, <1>6 DEF TypeOK

\* So does every step.
LEMMA NextTypeOK ==
  ASSUME TypeOK, [Next]_vars
  PROVE  TypeOK'
  <1> USE NotificationTypes DEF TypeOK
  <1>1. ASSUME NEW c \in Callers, Enqueue(c)
        PROVE  TypeOK'
    <2>1. task_queue' \in Seq(1..submitted')
      BY <1>1, AppendFacts DEF Enqueue, PushBack
    <2>2. task \in [Workers -> 0..submitted']
      BY <1>1 DEF Enqueue
    <2> QED
      BY <1>1, <2>1, <2>2 DEF Enqueue
  <1>2. ASSUME NEW c \in Callers, Dequeue(c)
        PROVE  TypeOK'
    BY <1>2, TailFacts DEF Dequeue, PopFront
  <1>3. ASSUME NEW c \in Callers, CancelBegin(c)
        PROVE  TypeOK'
    BY <1>3 DEF CancelBegin, HeldDuringJoin, CallerStates
  <1>4. ASSUME NEW c \in Callers, CancelEnd(c)
        PROVE  TypeOK'
    <2>1. task_queue' \in Seq(1..submitted')
      BY <1>4 DEF CancelEnd
    <2>2. wpc' \in [Workers -> WorkerStates] /\ joinable' = joinable
      BY <1>4 DEF CancelEnd, JoinableAfterCreating
    <2> QED
      BY <1>4, <2>1, <2>2 DEF CancelEnd, CallerStates
  <1>5. ASSUME NEW c \in Callers, DestroyBegin(c)
        PROVE  TypeOK'
    BY <1>5 DEF DestroyBegin, HeldDuringJoin, CallerStates
  <1>6. ASSUME NEW c \in Callers, DestroyEnd(c)
        PROVE  TypeOK'
    BY <1>6 DEF DestroyEnd, CallerStates
  <1>7. ASSUME NEW w \in Workers, Take(w)
        PROVE  TypeOK'
    <2>1. CASE task_queue = <<>>
      BY <1>7, <2>1 DEF Take
    <2>2. CASE task_queue # <<>>
      <3>1. /\ Tail(task_queue) \in Seq(1..submitted)
            /\ Head(task_queue) \in 1..submitted
        BY <2>2, TailFacts
      <3>2. /\ task_queue' = Tail(task_queue)
            /\ task' = [task EXCEPT ![w] = Head(task_queue)]
            /\ wpc' = [wpc EXCEPT ![w] = "run"]
            /\ mtx' = None
            /\ UNCHANGED <<isAllRunning, joinable, cpc, submitted, destroyed,
                           undefined>>
        BY <1>7, <2>2 DEF Take, PopFront
      <3> QED
        BY <3>1, <3>2 DEF WorkerStates
    <2> QED
      BY <2>1, <2>2
  <1>8. ASSUME NEW w \in Workers,
               \/ Lock(w) \/ Wait(w) \/ Return(w)
               \/ Finish(w) \/ SpuriousWake(w) \/ UseAfterDestroy(w)
        PROVE  TypeOK'
    BY <1>8
       DEF Lock, Wait, Return, Finish, SpuriousWake, UseAfterDestroy,
           WorkerStates
  <1>9. CASE UNCHANGED vars
    BY <1>9 DEF vars
  <1> QED
    BY <1>1, <1>2, <1>3, <1>4, <1>5, <1>6, <1>7, <1>8, <1>9
       DEF Next, CallerStep, WorkerStep

\* Every variable keeps its type, and no task is queued or executed that no
\* enqueue() call submitted.
THEOREM TypeCorrectness == Safety => []TypeOK
  BY InitTypeOK, NextTypeOK, PTL DEF Safety

---------------------------------------------------------------------------
(***************************************************************************)
(* The mutex.                                                              *)
(***************************************************************************)

\* A step takes the mutex when nobody has it and every way out releases it.
LEMMA NextMutexOwner ==
  ASSUME TypeOK, MutexOwner, [Next]_vars
  PROVE  MutexOwner'
  <1> USE CallersAssumption DEF TypeOK, MutexOwner, MayLock
  <1>1. ASSUME NEW c \in Callers, Enqueue(c)
        PROVE  MutexOwner'
    <2>1. \A w \in Workers : wpc'[w] = "test" <=> wpc[w] = "test"
      BY <1>1 DEF Enqueue, NotifyOne, Waiters
    <2> QED
      BY <1>1, <2>1 DEF Enqueue
  <1>2. ASSUME NEW c \in Callers, Dequeue(c)
        PROVE  MutexOwner'
    BY <1>2 DEF Dequeue, NotifyAll
  <1>3. ASSUME NEW c \in Callers, CancelBegin(c) \/ DestroyBegin(c)
        PROVE  MutexOwner'
    BY <1>3 DEF CancelBegin, DestroyBegin, HeldDuringJoin, NotifyAll, MayCall
  <1>4. ASSUME NEW c \in Callers, CancelEnd(c)
        PROVE  MutexOwner'
    <2>1. mtx = c
      BY <1>4 DEF CancelEnd
    <2>2. \A w \in Workers : wpc'[w] # "test"
      BY <1>4, <2>1 DEF CancelEnd, Created
    <2> QED
      BY <1>4, <2>1, <2>2 DEF CancelEnd
  <1>5. ASSUME NEW c \in Callers, DestroyEnd(c)
        PROVE  MutexOwner'
    BY <1>5 DEF DestroyEnd
  <1>6. ASSUME NEW w \in Workers,
               \/ Lock(w) \/ Wait(w) \/ Return(w) \/ Take(w)
               \/ Finish(w) \/ SpuriousWake(w) \/ UseAfterDestroy(w)
        PROVE  MutexOwner'
    BY <1>6
       DEF Lock, Wait, Return, Take, Finish, SpuriousWake, UseAfterDestroy
  <1>7. CASE UNCHANGED vars
    BY <1>7 DEF vars
  <1> QED
    BY <1>1, <1>2, <1>3, <1>4, <1>5, <1>6, <1>7
       DEF Next, CallerStep, WorkerStep

\* The critical sections of all operations and workers exclude one another and
\* every path out of them releases mtx.
THEOREM MutualExclusion == Safety => []MutexOwner
  <1>1. Init => MutexOwner
    BY CallersAssumption DEF Init, MutexOwner
  <1> QED
    BY <1>1, NextMutexOwner, TypeCorrectness, PTL DEF Safety

---------------------------------------------------------------------------
(***************************************************************************)
(* The queue.                                                              *)
(***************************************************************************)

\* What is left of the queue is still the last of what was submitted.
LEMMA SuffixAfterPop ==
  ASSUME TypeOK, QueueOrder, task_queue # <<>>
  PROVE  LET q == Tail(task_queue)
         IN  /\ Len(q) <= submitted
             /\ \A i \in 1..Len(q) : q[i] = submitted - Len(q) + i
  <1>1. /\ Len(task_queue) \in Nat \ {0}
        /\ Len(Tail(task_queue)) = Len(task_queue) - 1
        /\ \A i \in 1..Len(Tail(task_queue)) :
              Tail(task_queue)[i] = task_queue[i + 1]
    BY TailFacts DEF TypeOK
  <1>2. ASSUME NEW i \in 1..Len(Tail(task_queue))
        PROVE  task_queue[i + 1] = submitted - Len(Tail(task_queue)) + i
    <2>1. i + 1 \in 1..Len(task_queue)
      BY <1>1
    <2>2. task_queue[i + 1] = submitted - Len(task_queue) + (i + 1)
      BY <2>1 DEF QueueOrder
    <2> QED
      BY <1>1, <2>2 DEF TypeOK
  <1> QED
    BY <1>1, <1>2 DEF QueueOrder, TypeOK

\* Submitting adds the next number; a worker takes the least.
LEMMA NextQueueOrder ==
  ASSUME TypeOK, QueueOrder, [Next]_vars
  PROVE  QueueOrder'
  <1> USE DEF TypeOK, QueueOrder, Running
  <1>1. ASSUME NEW c \in Callers, Enqueue(c)
        PROVE  QueueOrder'
    <2>1. \A w \in Workers : wpc'[w] = "run" <=> wpc[w] = "run"
      BY <1>1 DEF Enqueue, NotifyOne, Waiters
    <2>2. /\ Len(task_queue') = Len(task_queue) + 1
          /\ submitted' = submitted + 1
          /\ task' = task
          /\ \A i \in 1..Len(task_queue) : task_queue'[i] = task_queue[i]
          /\ task_queue'[Len(task_queue) + 1] = submitted + 1
      BY <1>1, AppendFacts DEF Enqueue, PushBack
    <2>3. Len(task_queue) \in Nat
      OBVIOUS
    <2>4. ASSUME NEW i \in 1..Len(task_queue')
          PROVE  task_queue'[i] = submitted' - Len(task_queue') + i
      <3>1. CASE i = Len(task_queue) + 1
        BY <2>2, <2>3, <3>1
      <3>2. CASE i # Len(task_queue) + 1
        <4>1. i \in 1..Len(task_queue)
          BY <2>2, <2>3, <3>2
        <4>2. task_queue[i] = submitted - Len(task_queue) + i
          BY <4>1
        <4>3. task_queue'[i] = task_queue[i]
          BY <4>1, <2>2
        <4> QED
          BY <2>2, <2>3, <4>2, <4>3
      <3> QED
        BY <3>1, <3>2
    <2> QED
      BY <2>1, <2>2, <2>3, <2>4
  <1>2. ASSUME NEW c \in Callers, Dequeue(c)
        PROVE  QueueOrder'
    <2>1. CASE task_queue = <<>>
      BY <1>2, <2>1 DEF Dequeue
    <2>2. CASE task_queue # <<>>
      <3>1. \A w \in Workers : wpc'[w] = "run" <=> wpc[w] = "run"
        BY <1>2, <2>2 DEF Dequeue, NotifyAll
      <3>2. /\ task_queue' = Tail(task_queue)
            /\ submitted' = submitted
            /\ task' = task
        BY <1>2, <2>2 DEF Dequeue, PopFront
      <3>3. /\ Len(task_queue) \in Nat \ {0}
            /\ Len(task_queue') = Len(task_queue) - 1
            /\ \A i \in 1..Len(task_queue') : task_queue'[i] = task_queue[i + 1]
        BY <2>2, <3>2, TailFacts
      <3> QED
        BY <3>1, <3>2, <3>3, SuffixAfterPop
    <2> QED
      BY <2>1, <2>2
  <1>3. ASSUME NEW c \in Callers, CancelBegin(c) \/ DestroyBegin(c)
        PROVE  QueueOrder'
    BY <1>3 DEF CancelBegin, DestroyBegin, NotifyAll
  <1>4. ASSUME NEW c \in Callers, CancelEnd(c)
        PROVE  QueueOrder'
    <2>1. \A w \in Workers : wpc'[w] = "run" => wpc[w] = "run"
      BY <1>4 DEF CancelEnd, Created
    <2>2. /\ task_queue' = <<>>
          /\ submitted' = submitted
          /\ task' = task
      BY <1>4 DEF CancelEnd
    <2>3. Len(task_queue') = 0 /\ Len(task_queue) \in Nat
      BY <2>2
    <2> QED
      BY <2>1, <2>2, <2>3
  <1>5. ASSUME NEW w \in Workers, Take(w)
        PROVE  QueueOrder'
    <2>1. CASE task_queue = <<>>
      BY <1>5, <2>1 DEF Take
    <2>2. CASE task_queue # <<>>
      <3>1. /\ task_queue' = Tail(task_queue)
            /\ submitted' = submitted
            /\ task' = [task EXCEPT ![w] = Head(task_queue)]
            /\ wpc' = [wpc EXCEPT ![w] = "run"]
        BY <1>5, <2>2 DEF Take, PopFront
      <3>2. /\ Len(task_queue) \in Nat \ {0}
            /\ Len(task_queue') = Len(task_queue) - 1
            /\ Head(task_queue) = task_queue[1]
        BY <2>2, <3>1, TailFacts
      <3>3. task_queue[1] = submitted - Len(task_queue')
        BY <3>2
      <3>4. \A v \in Workers : wpc[v] = "run" =>
              task[v] \in 1..(submitted - Len(task_queue))
        OBVIOUS
      <3>5. \A v \in Workers : wpc'[v] = "run" =>
              \/ v = w /\ task'[v] = submitted - Len(task_queue')
              \/ v # w /\ wpc[v] = "run" /\ task'[v] = task[v]
        BY <3>1, <3>2, <3>3
      <3>6. Len(task_queue) <= submitted
        OBVIOUS
      <3>7. \A v \in Workers : wpc'[v] = "run" =>
               /\ task'[v] \in 1..(submitted - Len(task_queue'))
               /\ task'[v] = submitted - Len(task_queue') <=> v = w
        BY <3>2, <3>4, <3>5, <3>6
      <3>8. \A u, v \in Workers :
               wpc'[u] = "run" /\ wpc'[v] = "run" /\ task'[u] = task'[v]
                 => u = v
        BY <3>5, <3>7
      <3> QED
        BY <2>2, <3>1, <3>2, <3>7, <3>8, SuffixAfterPop
    <2> QED
      BY <2>1, <2>2
  <1>6. ASSUME NEW c \in Callers, DestroyEnd(c)
        PROVE  QueueOrder'
    BY <1>6 DEF DestroyEnd
  <1>7. ASSUME NEW w \in Workers,
               \/ Lock(w) \/ Wait(w) \/ Return(w)
               \/ Finish(w) \/ SpuriousWake(w) \/ UseAfterDestroy(w)
        PROVE  QueueOrder'
    BY <1>7 DEF Lock, Wait, Return, Finish, SpuriousWake, UseAfterDestroy
  <1>8. CASE UNCHANGED vars
    BY <1>8 DEF vars
  <1> QED
    BY <1>1, <1>2, <1>3, <1>4, <1>5, <1>6, <1>7, <1>8
       DEF Next, CallerStep, WorkerStep

\* Tasks start in the order of their enqueue() calls and each at most once.
THEOREM QueueOrderCorrectness == Safety => []QueueOrder
  <1>1. Init => QueueOrder
    BY DEF Init, QueueOrder, Running
  <1> QED
    BY <1>1, NextQueueOrder, TypeCorrectness, PTL DEF Safety

---------------------------------------------------------------------------
(***************************************************************************)
(* The stop flag.                                                          *)
(***************************************************************************)

\* isAllRunning is false exactly from the start of the destructor on and while
\* cancel_all holds mtx, and then no worker sleeps on cv.
StopFlag ==
  /\ ~isAllRunning <=> destroyed \/ \E c \in Callers : cpc[c] # "idle"
  /\ destroyed => \A c \in Callers : cpc[c] = "idle"
  /\ ~isAllRunning => Waiters = {}

\* Who resets isAllRunning wakes everybody and holds the mutex until it is set.
LEMMA NextStopFlag ==
  ASSUME TypeOK, MutexOwner, StopFlag, [Next]_vars
  PROVE  StopFlag'
  <1> USE DEF TypeOK, StopFlag, Waiters
  <1>1. ASSUME NEW c \in Callers, Enqueue(c)
        PROVE  StopFlag'
    BY <1>1 DEF Enqueue, NotifyOne
  <1>2. ASSUME NEW c \in Callers, Dequeue(c)
        PROVE  StopFlag'
    BY <1>2 DEF Dequeue, NotifyAll
  <1>3. ASSUME NEW c \in Callers, CancelBegin(c) \/ DestroyBegin(c)
        PROVE  StopFlag'
    BY <1>3 DEF CancelBegin, DestroyBegin, NotifyAll, MayCall
  <1>4. ASSUME NEW c \in Callers, CancelEnd(c) \/ DestroyEnd(c)
        PROVE  StopFlag'
    <2>1. \A d \in Callers : d # c => cpc[d] = "idle"
      BY <1>4 DEF CancelEnd, DestroyEnd, MutexOwner
    <2>2. CASE CancelEnd(c)
      BY <2>1, <2>2 DEF CancelEnd
    <2>3. CASE DestroyEnd(c)
      BY <2>1, <2>3 DEF DestroyEnd
    <2> QED
      BY <1>4, <2>2, <2>3
  <1>5. ASSUME NEW w \in Workers, Wait(w)
        PROVE  StopFlag'
    BY <1>5 DEF Wait, WaitPredicate
  <1>6. ASSUME NEW w \in Workers,
               \/ Lock(w) \/ Return(w) \/ Take(w)
               \/ Finish(w) \/ SpuriousWake(w) \/ UseAfterDestroy(w)
        PROVE  StopFlag'
    BY <1>6 DEF Lock, Return, Take, Finish, SpuriousWake, UseAfterDestroy
  <1>7. CASE UNCHANGED vars
    BY <1>7 DEF vars
  <1> QED
    BY <1>1, <1>2, <1>3, <1>4, <1>5, <1>6, <1>7
       DEF Next, CallerStep, WorkerStep

\* StopFlag holds in every behaviour.
LEMMA StopFlagInvariant == Safety => []StopFlag
  <1>1. Init => StopFlag
    <2> SUFFICES ASSUME Init PROVE StopFlag
      OBVIOUS
    <2>1. /\ isAllRunning = TRUE /\ destroyed = FALSE
          /\ cpc = [c \in Callers |-> "idle"]
      BY DEF Init
    <2> QED
      BY <2>1 DEF StopFlag
  <1> QED
    BY <1>1, NextStopFlag, TypeCorrectness, MutualExclusion, PTL DEF Safety

\* No worker leaves the pool before the destructor begins, whatever the callers
\* cancel: cancel_all resets isAllRunning before it releases mtx.
THEOREM WorkersStay == Safety => []PoolNeverShrinks
  <1>1. Init => PoolNeverShrinks
    <2> SUFFICES ASSUME Init PROVE PoolNeverShrinks
      OBVIOUS
    <2>1. wpc \in [Workers -> {"unborn", "lock"}]
      BY DEF Init
    <2> QED
      BY <2>1 DEF PoolNeverShrinks
  <1>2. ASSUME TypeOK, MutexOwner, StopFlag, PoolNeverShrinks, [Next]_vars
        PROVE  PoolNeverShrinks'
    <2> USE <1>2 DEF TypeOK, PoolNeverShrinks
    <2>1. ASSUME NEW c \in Callers, Enqueue(c) \/ Dequeue(c)
          PROVE  PoolNeverShrinks'
      BY <2>1 DEF Enqueue, Dequeue, NotifyOne, NotifyAll
    <2>2. ASSUME NEW c \in Callers, CancelBegin(c) \/ DestroyBegin(c)
          PROVE  PoolNeverShrinks'
      BY <2>2 DEF CancelBegin, DestroyBegin, NotifyAll, MayCall
    <2>3. ASSUME NEW c \in Callers, CancelEnd(c)
          PROVE  PoolNeverShrinks'
      <3>1. \A d \in Callers : d # c => cpc[d] = "idle"
        BY <2>3 DEF CancelEnd, MutexOwner
      <3>2. \A w \in Workers : wpc[w] # "exit"
        BY <2>3, <3>1 DEF CancelEnd, StopFlag
      <3> QED
        BY <2>3, <3>2 DEF CancelEnd, Created
    <2>4. ASSUME NEW c \in Callers, DestroyEnd(c)
          PROVE  PoolNeverShrinks'
      BY <2>4 DEF DestroyEnd
    <2>5. ASSUME NEW w \in Workers, Return(w)
          PROVE  PoolNeverShrinks'
      BY <2>5, CallersAssumption
         DEF Return, StopRequested, StopFlag, MutexOwner
    <2>6. ASSUME NEW w \in Workers,
                 \/ Lock(w) \/ Wait(w) \/ Take(w)
                 \/ Finish(w) \/ SpuriousWake(w) \/ UseAfterDestroy(w)
          PROVE  PoolNeverShrinks'
      BY <2>6 DEF Lock, Wait, Take, Finish, SpuriousWake, UseAfterDestroy
    <2>7. CASE UNCHANGED vars
      BY <2>7 DEF vars
    <2> QED
      BY <2>1, <2>2, <2>3, <2>4, <2>5, <2>6, <2>7
         DEF Next, CallerStep, WorkerStep
  <1> QED
    BY <1>1, <1>2, TypeCorrectness, MutualExclusion, StopFlagInvariant, PTL
       DEF Safety

\* After the destructor has begun no further task is started.
THEOREM DestructorStopsStarts == Safety => NoStartAfterDestroy
  <1> DEFINE Step ==
        (destroyed \/ \E c \in Callers : cpc[c] = "destroy")
          => \A w \in Workers : wpc'[w] = "run" => wpc[w] = "run"
  <1>1. ASSUME TypeOK, StopFlag, [Next]_vars
        PROVE  [Step]_vars
    <2> SUFFICES ASSUME destroyed \/ \E c \in Callers : cpc[c] = "destroy",
                        NEW v \in Workers, wpc'[v] = "run"
                 PROVE  wpc[v] = "run"
      OBVIOUS
    <2> USE <1>1 DEF TypeOK
    <2>1. ~isAllRunning
      BY DEF StopFlag
    <2>2. ASSUME NEW c \in Callers, CallerStep(c)
          PROVE  wpc[v] = "run"
      BY <2>2
         DEF CallerStep, Enqueue, Dequeue, CancelBegin, CancelEnd, DestroyBegin,
             DestroyEnd, NotifyOne, NotifyAll, Created
    <2>3. ASSUME NEW w \in Workers,
                 \/ WorkerStep(w) \/ Finish(w)
                 \/ SpuriousWake(w) \/ UseAfterDestroy(w)
          PROVE  wpc[v] = "run"
      BY <2>1, <2>3
         DEF WorkerStep, Lock, Wait, Return, Take, StopRequested, Finish,
             SpuriousWake, UseAfterDestroy
    <2>4. CASE UNCHANGED vars
      BY <2>4 DEF vars
    <2> QED
      BY <2>2, <2>3, <2>4 DEF Next
  <1> QED
    BY <1>1, TypeCorrectness, StopFlagInvariant, PTL
       DEF Safety, NoStartAfterDestroy

\* The only undefined behaviour of the pool comes from dequeue() on an empty
\* queue and from workers that outlive it; front() in thread_in_pool is safe.
THEOREM WorkersAreDefined == Safety => NoUndefined
  <1> DEFINE Step == undefined' /\ ~undefined
                       => destroyed \/ \E c \in Callers : Dequeue(c)
  <1>1. [Next]_vars => [Step]_vars
    BY DEF Next, vars, CallerStep, WorkerStep, Enqueue, CancelBegin, CancelEnd,
           DestroyBegin, DestroyEnd, Lock, Wait, Return, Take, Finish,
           SpuriousWake, UseAfterDestroy, WaitPredicate, StopRequested
  <1> QED
    BY <1>1, PTL DEF Safety, NoUndefined

---------------------------------------------------------------------------
(***************************************************************************)
(* Wake-ups: the number of queued tasks against the number of workers on   *)
(* their way to the queue.                                                 *)
(***************************************************************************)

\* Awake workers can be counted.
LEMMA AwakeFinite ==
  /\ IsFiniteSet(Awake)
  /\ Cardinality(Awake) \in Nat
  <1>1. Awake \subseteq Workers
    BY DEF Awake
  <1> QED
    BY <1>1, FS_Subset, FS_CardinalityType, WorkersAssumption

\* One worker more is awake.
LEMMA AwakeGrows ==
  ASSUME NEW w \in Workers, w \notin Awake, Awake' = Awake \cup {w}
  PROVE  Cardinality(Awake') = Cardinality(Awake) + 1
  BY AwakeFinite, FS_AddElement

\* One worker less is awake.
LEMMA AwakeShrinks ==
  ASSUME NEW w \in Awake, Awake' = Awake \ {w}
  PROVE  Cardinality(Awake') = Cardinality(Awake) - 1
  BY AwakeFinite, FS_RemoveElement

\* A task more wakes a worker more; a worker that returns to the queue takes a task.
LEMMA NextNoLostWakeup ==
  ASSUME TypeOK, StopFlag, NoLostWakeup, [Next]_vars
  PROVE  NoLostWakeup'
  <1> USE DEF TypeOK, NoLostWakeup
  <1>1. ASSUME NEW c \in Callers, Enqueue(c)
        PROVE  NoLostWakeup'
    <2>1. CASE Waiters = {}
      BY <1>1, <2>1 DEF Enqueue, NotifyOne, Waiters
    <2>2. CASE Waiters # {}
      <3>1. PICK u \in Waiters : wpc' = [wpc EXCEPT ![u] = "wake"]
        BY <1>1, <2>2 DEF Enqueue, NotifyOne
      <3>2. u \in Workers /\ u \notin Awake /\ Awake' = Awake \cup {u}
        BY <3>1 DEF Awake, Waiters
      <3>3. Cardinality(Awake') = Cardinality(Awake) + 1
        BY <3>2, AwakeGrows
      <3>4. Len(task_queue') = Len(task_queue) + 1
        BY <1>1, AppendFacts DEF Enqueue, PushBack
      <3>5. Len(task_queue) <= Cardinality(Awake)
        BY <2>2
      <3>6. Len(task_queue) \in Nat /\ Cardinality(Awake) \in Nat
        BY AwakeFinite
      <3> QED
        BY <3>3, <3>4, <3>5, <3>6
    <2> QED
      BY <2>1, <2>2
  <1>2. ASSUME NEW c \in Callers,
               Dequeue(c) \/ CancelBegin(c) \/ DestroyBegin(c)
        PROVE  NoLostWakeup'
    <2>1. CASE wpc' = NotifyAll
      BY <2>1 DEF NotifyAll, Waiters
    <2>2. CASE Dequeue(c) /\ UNCHANGED <<task_queue, wpc>>
      BY <2>2 DEF Waiters, Awake
    <2> QED
      BY <1>2, <2>1, <2>2 DEF Dequeue, CancelBegin, DestroyBegin
  <1>3. ASSUME NEW c \in Callers, CancelEnd(c)
        PROVE  NoLostWakeup'
    <2>1. Waiters = {}
      BY <1>3 DEF CancelEnd, StopFlag
    <2>2. Waiters' = {}
      BY <1>3, <2>1 DEF CancelEnd, Created, Waiters
    <2> QED
      BY <2>2
  <1>4. ASSUME NEW w \in Workers, Take(w)
        PROVE  NoLostWakeup'
    <2>1. CASE task_queue = <<>>
      BY <1>4, <2>1 DEF Take, Waiters, Awake
    <2>2. CASE task_queue # <<>>
      <3>1. wpc[w] = "test" /\ wpc' = [wpc EXCEPT ![w] = "run"]
        BY <1>4, <2>2 DEF Take
      <3>2. w \in Awake /\ Awake' = Awake \ {w} /\ Waiters' = Waiters
        BY <3>1 DEF Awake, Waiters
      <3>3. Cardinality(Awake') = Cardinality(Awake) - 1
        BY <3>2, AwakeShrinks
      <3>4. task_queue' = Tail(task_queue)
        BY <1>4, <2>2 DEF Take, PopFront
      <3>5. Len(task_queue) \in Nat /\ Len(task_queue') = Len(task_queue) - 1
        BY <2>2, <3>4, TailFacts
      <3> QED
        BY <3>2, <3>3, <3>5, AwakeFinite
    <2> QED
      BY <2>1, <2>2
  <1>5. ASSUME NEW w \in Workers, Wait(w)
        PROVE  NoLostWakeup'
    <2>1. task_queue' = <<>>
      BY <1>5 DEF Wait, WaitPredicate
    <2>2. Awake' \subseteq Workers
      BY DEF Awake
    <2>3. Cardinality(Awake') \in Nat
      BY <2>2, FS_Subset, FS_CardinalityType, WorkersAssumption
    <2>4. Len(task_queue') = 0
      BY <2>1
    <2> QED
      BY <2>3, <2>4
  <1>6. ASSUME NEW w \in Workers, Return(w)
        PROVE  NoLostWakeup'
    <2>1. Waiters' = {}
      BY <1>6 DEF Return, StopRequested, StopFlag, Waiters
    <2> QED
      BY <2>1
  <1>7. ASSUME NEW w \in Workers, Finish(w) \/ SpuriousWake(w)
        PROVE  NoLostWakeup'
    <2>1. w \notin Awake /\ Awake' = Awake \cup {w} /\ Waiters' \subseteq Waiters
      BY <1>7 DEF Finish, SpuriousWake, Awake, Waiters
    <2>2. Cardinality(Awake') = Cardinality(Awake) + 1
      BY <2>1, AwakeGrows
    <2>3. task_queue' = task_queue
      BY <1>7 DEF Finish, SpuriousWake
    <2>4. Len(task_queue) \in Nat
      OBVIOUS
    <2> QED
      BY <2>1, <2>2, <2>3, <2>4, AwakeFinite
  <1>8. ASSUME NEW w \in Workers, Lock(w)
        PROVE  NoLostWakeup'
    <2>1. Awake' = Awake /\ Waiters' = Waiters
      BY <1>8 DEF Lock, Awake, Waiters
    <2>2. task_queue' = task_queue
      BY <1>8 DEF Lock
    <2> QED
      BY <2>1, <2>2
  <1>9. CASE UNCHANGED <<task_queue, wpc>>
    <2>1. Awake' = Awake /\ Waiters' = Waiters
      BY <1>9 DEF Awake, Waiters
    <2> QED
      BY <1>9, <2>1
  <1>10. ASSUME NEW c \in Callers, DestroyEnd(c)
         PROVE  UNCHANGED <<task_queue, wpc>>
    BY <1>10 DEF DestroyEnd
  <1>11. ASSUME NEW w \in Workers, UseAfterDestroy(w)
         PROVE  UNCHANGED <<task_queue, wpc>>
    BY <1>11 DEF UseAfterDestroy
  <1>12. UNCHANGED vars => UNCHANGED <<task_queue, wpc>>
    BY DEF vars
  <1> QED
    BY <1>1, <1>2, <1>3, <1>4, <1>5, <1>6, <1>7, <1>8, <1>9, <1>10, <1>11,
       <1>12
       DEF Next, CallerStep, WorkerStep

\* enqueue()'s notify_one never loses a task: while a worker sleeps, as many
\* others as there are queued tasks are on their way to the queue.
THEOREM WakeupsCorrectness == Safety => []NoLostWakeup
  <1>1. Init => NoLostWakeup
    <2> SUFFICES ASSUME Init PROVE NoLostWakeup
      OBVIOUS
    <2>1. wpc \in [Workers -> {"unborn", "lock"}]
      BY DEF Init
    <2>2. Waiters = {}
      BY <2>1 DEF Waiters
    <2> QED
      BY <2>2 DEF NoLostWakeup
  <1> QED
    BY <1>1, NextNoLostWakeup, TypeCorrectness, StopFlagInvariant, PTL
       DEF Safety

\* The queue keeps its discipline through every operation: its mutex excludes, its
\* order is that of the enqueue calls, and no task is left to sleeping workers.
THEOREM QueueDisciplineCorrectness == Safety => []QueueDiscipline
  <1>1. MutexOwner /\ QueueOrder /\ NoLostWakeup => QueueDiscipline
    BY DEF QueueDiscipline
  <1> QED
    BY <1>1, MutualExclusion, QueueOrderCorrectness, WakeupsCorrectness, PTL

---------------------------------------------------------------------------
(***************************************************************************)
(* The pool implements TaskExecutor.                                       *)
(***************************************************************************)

\* Neither destroyed nor misused.
Open == ~destroyed /\ ~undefined /\ \A c \in Callers : cpc[c] # "destroy"

\* What begins the destructor, or misuses dequeue(), closes the executor; nothing
\* opens it again.
LEMMA OpenedOrClosed ==
  ASSUME TypeOK, MutexOwner, StopFlag, [Next]_vars
  PROVE  /\ \A c \in Callers :
              /\ Enqueue(c) \/ CancelBegin(c) \/ CancelEnd(c) => Open /\ Open'
              /\ Dequeue(c) => Open /\ (Open' <=> task_queue # <<>>)
              /\ DestroyBegin(c) => Open /\ ~Open'
              /\ DestroyEnd(c) => ~Open /\ ~Open'
         /\ \A w \in Workers :
              /\ Take(w) => task_queue # <<>> /\ Open /\ Open'
              /\ Lock(w) \/ Wait(w) \/ Return(w) \/ Finish(w) \/ SpuriousWake(w)
                   => Open' = Open
              /\ UseAfterDestroy(w) => ~Open /\ ~Open'
  <1> USE DEF TypeOK, Open
  <1>1. ASSUME NEW c \in Callers, Enqueue(c) PROVE Open /\ Open'
    BY <1>1 DEF Enqueue, MayCall
  <1>2. ASSUME NEW c \in Callers, CancelBegin(c) PROVE Open /\ Open'
    BY <1>2 DEF CancelBegin, MayCall
  <1>3. ASSUME NEW c \in Callers, CancelEnd(c) PROVE Open /\ Open'
    <2>1. cpc[c] = "cancel_all" /\ ~undefined
      BY <1>3 DEF CancelEnd
    <2>2. ~destroyed
      BY <2>1 DEF StopFlag
    <2>3. \A d \in Callers : d # c => cpc[d] = "idle"
      BY <2>1 DEF MutexOwner
    <2> QED
      BY <1>3, <2>1, <2>2, <2>3 DEF CancelEnd
  <1>4. ASSUME NEW c \in Callers, Dequeue(c)
        PROVE  Open /\ (Open' <=> task_queue # <<>>)
    BY <1>4 DEF Dequeue, MayCall
  <1>5. ASSUME NEW c \in Callers, DestroyBegin(c) PROVE Open /\ ~Open'
    BY <1>5 DEF DestroyBegin, MayCall
  <1>6. ASSUME NEW c \in Callers, DestroyEnd(c) PROVE ~Open /\ ~Open'
    BY <1>6 DEF DestroyEnd
  <1>7. ASSUME NEW w \in Workers, Take(w)
        PROVE  task_queue # <<>> /\ Open /\ Open'
    <2>1. isAllRunning /\ task_queue # <<>> /\ ~undefined
      BY <1>7 DEF Take, WaitPredicate, StopRequested
    <2>2. Open
      BY <2>1 DEF StopFlag
    <2> QED
      BY <1>7, <2>1, <2>2 DEF Take
  <1>8. ASSUME NEW w \in Workers,
               Lock(w) \/ Wait(w) \/ Return(w) \/ Finish(w) \/ SpuriousWake(w)
        PROVE  Open' = Open
    BY <1>8 DEF Lock, Wait, Return, Finish, SpuriousWake
  <1>9. ASSUME NEW w \in Workers, UseAfterDestroy(w) PROVE ~Open /\ ~Open'
    BY <1>9 DEF UseAfterDestroy
  <1> QED
    BY <1>1, <1>2, <1>3, <1>4, <1>5, <1>6, <1>7, <1>8, <1>9

\* Every step of the pool is a step of TaskExecutor or changes nothing of it.
LEMMA NextImplementsExecutor ==
  ASSUME TypeOK, QueueOrder, MutexOwner, StopFlag, [Next]_vars
  PROVE  [Executor!Next]_(Executor!executorVars)
  <1> DEFINE taken  == submitted - Len(task_queue)
             active == {task[w] : w \in Running}
  <1> USE DEF TypeOK
  <1>1. Len(task_queue) \in Nat /\ taken \in Nat /\ taken <= submitted
    BY DEF QueueOrder
  <1> HIDE DEF TypeOK
  <1>0. /\ \A c \in Callers :
              /\ Enqueue(c) \/ CancelBegin(c) \/ CancelEnd(c) => Open /\ Open'
              /\ Dequeue(c) => Open /\ (Open' <=> task_queue # <<>>)
              /\ DestroyBegin(c) => Open /\ ~Open'
              /\ DestroyEnd(c) => ~Open /\ ~Open'
        /\ \A w \in Workers :
              /\ Take(w) => task_queue # <<>> /\ Open /\ Open'
              /\ Lock(w) \/ Wait(w) \/ Return(w) \/ Finish(w) \/ SpuriousWake(w)
                   => Open' = Open
              /\ UseAfterDestroy(w) => ~Open /\ ~Open'
    BY OpenedOrClosed
  <1> USE DEF TypeOK, Open
  <1>2. CASE UNCHANGED <<submitted, task_queue, task>> /\ Running' = Running
    <2>1. active' = active
      BY <1>2
    <2>2. CASE Open' = Open
      BY <1>2, <2>1, <2>2 DEF Executor!executorVars
    <2>3. CASE Open /\ ~Open'
      BY <1>2, <2>1, <2>3 DEF Executor!Next, Executor!Close
    <2>4. Open' => Open
      BY <1>0 DEF Next, CallerStep, WorkerStep, vars
    <2> QED
      BY <2>2, <2>3, <2>4
  <1>3. ASSUME NEW c \in Callers, Enqueue(c)
        PROVE  Executor!Submit
    <2>1. Running' = Running
      BY <1>3 DEF Enqueue, NotifyOne, Waiters, Running
    <2>2. /\ submitted' = submitted + 1
          /\ task' = task
          /\ Len(task_queue') = Len(task_queue) + 1
      BY <1>3, AppendFacts DEF Enqueue, PushBack
    <2> QED
      BY <1>0, <1>1, <1>3, <2>1, <2>2 DEF Executor!Submit
  <1>4. ASSUME NEW c \in Callers, Dequeue(c), task_queue # <<>>
        PROVE  Executor!Discard
    <2>1. Running' = Running
      BY <1>4 DEF Dequeue, NotifyAll, Running
    <2>2. /\ submitted' = submitted
          /\ task' = task
          /\ task_queue' = Tail(task_queue)
      BY <1>4 DEF Dequeue, PopFront
    <2>3. Len(task_queue) # 0 /\ Len(task_queue') = Len(task_queue) - 1
      BY <1>4, <2>2, TailFacts
    <2> QED
      BY <1>0, <1>1, <1>4, <2>1, <2>2, <2>3 DEF Executor!Discard
  <1>5. ASSUME NEW c \in Callers, CancelEnd(c)
        PROVE  [Executor!Next]_(Executor!executorVars)
    <2>1. Running' = Running
      BY <1>5 DEF CancelEnd, Created, Batches, Unborn, Running
    <2>2. submitted' = submitted /\ task' = task /\ task_queue' = <<>>
      BY <1>5 DEF CancelEnd
    <2>3. CASE task_queue = <<>>
      BY <1>2, <2>1, <2>2, <2>3
    <2>4. CASE task_queue # <<>>
      <3>1. Len(task_queue) # 0 /\ Len(task_queue') = 0
        BY <2>2, <2>4
      <3>2. Executor!Discard
        BY <1>0, <1>1, <1>5, <2>1, <2>2, <3>1 DEF Executor!Discard
      <3> QED
        BY <3>2 DEF Executor!Next
    <2> QED
      BY <2>3, <2>4
  <1>6. ASSUME NEW w \in Workers, Take(w), task_queue # <<>>
        PROVE  Executor!Start
    <2>1. /\ task_queue' = Tail(task_queue)
          /\ submitted' = submitted
          /\ task' = [task EXCEPT ![w] = Head(task_queue)]
          /\ wpc' = [wpc EXCEPT ![w] = "run"]
          /\ wpc[w] = "test"
      BY <1>6 DEF Take, PopFront
    <2>2. /\ Len(task_queue) \in Nat \ {0}
          /\ Len(task_queue') = Len(task_queue) - 1
          /\ Head(task_queue) = task_queue[1]
      BY <1>6, <2>1, TailFacts
    <2>3. Head(task_queue) = taken + 1
      BY <2>2 DEF QueueOrder
    <2>4. Running' = Running \cup {w} /\ w \notin Running
      BY <2>1 DEF Running
    <2>5. active' = active \cup {taken + 1}
      BY <2>1, <2>3, <2>4 DEF Running
    <2>6. taken' = taken + 1 /\ taken < submitted
      BY <1>1, <2>1, <2>2
    <2> QED
      BY <1>0, <1>6, <2>1, <2>5, <2>6 DEF Executor!Start
  <1>7. ASSUME NEW w \in Workers, Finish(w)
        PROVE  Executor!Complete
    <2>1. /\ UNCHANGED <<submitted, task_queue, task>>
          /\ w \in Running
          /\ Running' = Running \ {w}
      BY <1>7 DEF Finish, Running
    <2>2. active' = active \ {task[w]}
      BY <2>1 DEF QueueOrder
    <2>3. task[w] \in active
      BY <2>1
    <2> QED
      BY <1>0, <1>7, <2>1, <2>2, <2>3 DEF Executor!Complete
  <1>8. ASSUME NEW c \in Callers,
               \/ Dequeue(c) /\ task_queue = <<>>
               \/ CancelBegin(c) \/ DestroyBegin(c) \/ DestroyEnd(c)
        PROVE  UNCHANGED <<submitted, task_queue, task>> /\ Running' = Running
    BY <1>8
       DEF Dequeue, CancelBegin, DestroyBegin, DestroyEnd, NotifyAll, Running
  <1>9. ASSUME NEW w \in Workers,
               \/ Take(w) /\ task_queue = <<>>
               \/ Lock(w) \/ Wait(w) \/ Return(w)
               \/ SpuriousWake(w) \/ UseAfterDestroy(w)
        PROVE  UNCHANGED <<submitted, task_queue, task>> /\ Running' = Running
    BY <1>9
       DEF Take, Lock, Wait, Return, SpuriousWake, UseAfterDestroy, Running
  <1>10. UNCHANGED vars
           => UNCHANGED <<submitted, task_queue, task>> /\ Running' = Running
    BY DEF vars, Running
  <1> QED
    BY <1>2, <1>3, <1>4, <1>5, <1>6, <1>7, <1>8, <1>9, <1>10
       DEF Next, CallerStep, WorkerStep, Executor!Next

\* Every behaviour of the pool is one of the executor its callers were promised:
\* exactly the submitted tasks start, in order, each once, unless discarded.
THEOREM ExecutorRefinement == Safety => Executor!Safety
  <1>1. Init => Executor!Init
    <2> SUFFICES ASSUME Init PROVE Executor!Init
      OBVIOUS
    <2>1. task_queue = <<>> /\ submitted = 0
      BY DEF Init
    <2>2. wpc \in [Workers -> {"unborn", "lock"}]
      BY DEF Init
    <2>3. Running = {}
      BY <2>2 DEF Running
    <2>4. submitted - Len(task_queue) = 0
      <3>1. Len(task_queue) = 0
        BY <2>1
      <3>2. submitted = 0
        BY <2>1
      <3> QED
        BY <3>1, <3>2
    <2>5. {task[w] : w \in Running} = {}
      BY <2>3
    <2> QED
      BY <2>1, <2>4, <2>5 DEF Init, Executor!Init
  <1> QED
    BY <1>1, NextImplementsExecutor, TypeCorrectness, QueueOrderCorrectness,
       MutualExclusion, StopFlagInvariant, PTL
       DEF Safety, Executor!Safety
=============================================================================
