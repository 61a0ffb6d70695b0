---------------------------- MODULE ThreadPool ----------------------------
(***************************************************************************)
(* class threadpool (threadpool.h, threadpool.cpp): a deque of tasks, one  *)
(* mutex, one condition variable and max_thread_count worker threads.      *)
(*                                                                         *)
(* A task is the number of the enqueue() call that submitted it: what the  *)
(* pool does never depends on the function or on the argument.  Everything *)
(* the code does while it holds mtx without waiting is one step; the two   *)
(* operations that keep mtx while they wait for threads (cancel_all and    *)
(* the destructor) take two.  A worker's program counter wpc[w] is         *)
(*   "unborn"  not yet created                                             *)
(*   "lock"    about to lock mtx at the head of its loop                   *)
(*   "test"    holds mtx and evaluates the predicate of cv.wait            *)
(*   "wait"    blocked in cv.wait, mtx released                            *)
(*   "wake"    notified (or woken spuriously), about to re-lock mtx        *)
(*   "run"     executes a task without mtx                                 *)
(*   "exit"    thread_in_pool has returned                                 *)
(***************************************************************************)
EXTENDS Integers, Sequences, FiniteSets

CONSTANTS
  Workers,          \* identities threads can have: bounds cancel_all calls
  MaxThreadCount,   \* the constructor's argument max_thread_count
  Callers,          \* threads that call the pool's public operations
  Operations,       \* which of them they call
  MaxTasks,         \* bound on the number of enqueue calls
  None              \* mtx is free

ASSUME WorkersAssumption ==
  /\ IsFiniteSet(Workers)
  /\ MaxThreadCount \in Nat
  /\ MaxThreadCount <= Cardinality(Workers)

ASSUME CallersAssumption ==
  /\ Callers \cap Workers = {}
  /\ None \notin Workers \cup Callers

ASSUME OperationsAssumption ==
  /\ Operations \subseteq {"enqueue", "dequeue", "cancel_all", "destroy"}
  /\ MaxTasks \in Nat

VARIABLES
  isAllRunning,     \* the flag workers read after cv.wait
  joinable,         \* the members of `threads` for which joinable() holds
  task_queue,       \* the deque, oldest task first
  mtx,              \* the thread that holds the mutex, or None
  wpc,              \* wpc[w]: where worker w is
  task,             \* task[w]: the last task worker w took, 0 at first
  cpc,              \* cpc[c]: "idle", or inside "cancel_all" / "destroy"
  submitted,        \* how many tasks have been submitted
  destroyed,        \* the destructor has returned
  undefined         \* undefined behaviour has happened

vars == <<isAllRunning, joinable, task_queue, mtx, wpc, task, cpc,
          submitted, destroyed, undefined>>

WorkerStates == {"unborn", "lock", "test", "wait", "wake", "run", "exit"}
CallerStates == {"idle", "cancel_all", "destroy"}

TypeOK ==
  /\ isAllRunning \in BOOLEAN
  /\ joinable \subseteq Workers
  /\ task_queue \in Seq(1..submitted)
  /\ mtx \in Workers \cup Callers \cup {None}
  /\ wpc \in [Workers -> WorkerStates]
  /\ task \in [Workers -> 0..submitted]
  /\ cpc \in [Callers -> CallerStates]
  /\ submitted \in Nat
  /\ destroyed \in BOOLEAN
  /\ undefined \in BOOLEAN

---------------------------------------------------------------------------
\* Helpers.

Waiters == {w \in Workers : wpc[w] = "wait"}
Awake   == {w \in Workers : wpc[w] \in {"lock", "wake", "test"}}
Running == {w \in Workers : wpc[w] = "run"}
Unborn  == {w \in Workers : wpc[w] = "unborn"}

\* Mutant of NotifyOne: the notification is forgotten.
NotifyNobody == {wpc}

\* The states cv.notify_one() may leave the workers in.
NotifyOne ==
  IF Waiters = {} THEN {wpc} ELSE {[wpc EXCEPT ![w] = "wake"] : w \in Waiters}

\* The state cv.notify_all() leaves the workers in.
NotifyAll == [w \in Workers |-> IF wpc[w] = "wait" THEN "wake" ELSE wpc[w]]

\* Mutants of the deque operations: a stack, a call that counts for two, a
\* front() without its pop_front().
PushFront(t) == <<t>> \o task_queue
PushTwice(t) == task_queue \o <<t, t + 1>>
FrontOnly == task_queue

\* emplace_back, pop_front.
PushBack(t) == Append(task_queue, t)
PopFront == Tail(task_queue)

\* Mutant of WaitPredicate: cv.wait without a predicate.
NoPredicate == TRUE

\* The predicate given to cv.wait.
WaitPredicate == ~isAllRunning \/ task_queue # <<>>

\* Mutant of StopRequested: a worker leaves only when nothing is queued.
StopWhenDrained == ~isAllRunning /\ task_queue = <<>>

\* What a worker reads after cv.wait.
StopRequested == ~isAllRunning

\* Mutant of MayLock: the unique_lock is left deferred.
LockDeferred(t) == TRUE

\* Thread t may lock mtx.
MayLock(t) == mtx = None

\* Mutant of HeldDuringJoin: mtx is released around the joins.
ReleasedDuringJoin(c) == None

\* Who holds mtx while c joins the workers.
HeldDuringJoin(c) == c

\* The sets of threads a loop that creates max_thread_count threads may create.
Batches == {b \in SUBSET Unborn : Cardinality(b) = MaxThreadCount}

Created(b) == [w \in Workers |-> IF w \in b THEN "lock" ELSE wpc[w]]

\* Mutant of JoinableAfterCreating: detach() is forgotten.
NotDetached(b) == joinable \cup b

\* The std::thread objects put into `threads` have been detached before.
JoinableAfterCreating(b) == joinable

\* The loop `if (worker.joinable()) worker.join()` is over.
AllJoined == \A w \in joinable : wpc[w] = "exit"

\* A public operation may be called: the object is alive and the caller idle.
MayCall(c, op) ==
  /\ op \in Operations
  /\ cpc[c] = "idle"
  /\ \A d \in Callers : cpc[d] # "destroy"
  /\ ~destroyed
  /\ ~undefined

---------------------------------------------------------------------------
\* Public operations, called by c.

Init ==
  /\ isAllRunning = TRUE
  /\ joinable = {}
  /\ task_queue = <<>>
  /\ mtx = None
  /\ wpc \in {pc \in [Workers -> {"unborn", "lock"}] :
                Cardinality({w \in Workers : pc[w] = "lock"}) = MaxThreadCount}
  /\ task = [w \in Workers |-> 0]
  /\ cpc = [c \in Callers |-> "idle"]
  /\ submitted = 0
  /\ destroyed = FALSE
  /\ undefined = FALSE

Enqueue(c) ==
  /\ MayCall(c, "enqueue")
  /\ MayLock(c)
  /\ submitted < MaxTasks
  /\ submitted' = submitted + 1
  /\ task_queue' = PushBack(submitted + 1)
  /\ wpc' \in NotifyOne
  /\ UNCHANGED <<isAllRunning, joinable, mtx, task, cpc, destroyed, undefined>>

\* front() and pop_front() of an empty deque are undefined behaviour.
Dequeue(c) ==
  /\ MayCall(c, "dequeue")
  /\ MayLock(c)
  /\ IF task_queue = <<>>
     THEN /\ undefined' = TRUE
          /\ UNCHANGED <<task_queue, wpc>>
     ELSE /\ task_queue' = PopFront
          /\ wpc' = NotifyAll
          /\ UNCHANGED undefined
  /\ UNCHANGED <<isAllRunning, joinable, mtx, task, cpc, submitted, destroyed>>

\* cancel_all() up to the loop that joins, mtx stays locked.
CancelBegin(c) ==
  /\ MayCall(c, "cancel_all")
  /\ MayLock(c)
  /\ mtx' = HeldDuringJoin(c)
  /\ cpc' = [cpc EXCEPT ![c] = "cancel_all"]
  /\ isAllRunning' = FALSE
  /\ wpc' = NotifyAll
  /\ UNCHANGED <<joinable, task_queue, task, submitted, destroyed, undefined>>

\* The loop is over: the rest of cancel_all() and the release of mtx.  When no
\* identity is left (the bound Workers) the pool only stops growing.
CancelEnd(c) ==
  /\ cpc[c] = "cancel_all"
  /\ ~undefined
  /\ AllJoined
  /\ mtx' = None
  /\ cpc' = [cpc EXCEPT ![c] = "idle"]
  /\ isAllRunning' = TRUE
  /\ task_queue' = <<>>
  /\ \E b \in IF Batches = {} THEN {{}} ELSE Batches :
        /\ wpc' = Created(b)
        /\ joinable' = JoinableAfterCreating(b)
  /\ UNCHANGED <<task, submitted, destroyed, undefined>>

\* ~threadpool(): no other operation is in progress, the caller's duty.
DestroyBegin(c) ==
  /\ MayCall(c, "destroy")
  /\ \A d \in Callers : cpc[d] = "idle"
  /\ MayLock(c)
  /\ mtx' = HeldDuringJoin(c)
  /\ cpc' = [cpc EXCEPT ![c] = "destroy"]
  /\ isAllRunning' = FALSE
  /\ wpc' = NotifyAll
  /\ UNCHANGED <<joinable, task_queue, task, submitted, destroyed, undefined>>

\* The lock is released and the members (mtx, cv, task_queue) are destroyed.
DestroyEnd(c) ==
  /\ cpc[c] = "destroy"
  /\ ~undefined
  /\ AllJoined
  /\ mtx' = None
  /\ cpc' = [cpc EXCEPT ![c] = "idle"]
  /\ destroyed' = TRUE
  /\ UNCHANGED <<isAllRunning, joinable, task_queue, wpc, task, submitted,
                 undefined>>

---------------------------------------------------------------------------
\* thread_in_pool, executed by worker w.

\* uniq_lock.lock(), or the re-lock inside cv.wait.
Lock(w) ==
  /\ ~undefined
  /\ wpc[w] \in {"lock", "wake"}
  /\ MayLock(w)
  /\ mtx' = w
  /\ wpc' = [wpc EXCEPT ![w] = "test"]
  /\ UNCHANGED <<isAllRunning, joinable, task_queue, task, cpc, submitted,
                 destroyed, undefined>>

\* The predicate is false: release mtx and block.
Wait(w) ==
  /\ ~undefined
  /\ wpc[w] = "test"
  /\ ~WaitPredicate
  /\ mtx' = None
  /\ wpc' = [wpc EXCEPT ![w] = "wait"]
  /\ UNCHANGED <<isAllRunning, joinable, task_queue, task, cpc, submitted,
                 destroyed, undefined>>

\* `if (!isAllRunning) return;`
Return(w) ==
  /\ ~undefined
  /\ wpc[w] = "test"
  /\ WaitPredicate
  /\ StopRequested
  /\ mtx' = None
  /\ wpc' = [wpc EXCEPT ![w] = "exit"]
  /\ UNCHANGED <<isAllRunning, joinable, task_queue, task, cpc, submitted,
                 destroyed, undefined>>

\* Take the oldest task, release mtx and call it.
Take(w) ==
  /\ ~undefined
  /\ wpc[w] = "test"
  /\ WaitPredicate
  /\ ~StopRequested
  /\ IF task_queue = <<>>
     THEN /\ undefined' = TRUE
          /\ UNCHANGED <<task_queue, mtx, wpc, task>>
     ELSE /\ task' = [task EXCEPT ![w] = Head(task_queue)]
          /\ task_queue' = PopFront
          /\ mtx' = None
          /\ wpc' = [wpc EXCEPT ![w] = "run"]
          /\ UNCHANGED undefined
  /\ UNCHANGED <<isAllRunning, joinable, cpc, submitted, destroyed>>

\* The task returns, the loop starts again.
Finish(w) ==
  /\ ~undefined
  /\ wpc[w] = "run"
  /\ wpc' = [wpc EXCEPT ![w] = "lock"]
  /\ UNCHANGED <<isAllRunning, joinable, task_queue, mtx, task, cpc,
                 submitted, destroyed, undefined>>

\* cv.wait may wake without a notification.
SpuriousWake(w) ==
  /\ ~undefined
  /\ wpc[w] = "wait"
  /\ wpc' = [wpc EXCEPT ![w] = "wake"]
  /\ UNCHANGED <<isAllRunning, joinable, task_queue, mtx, task, cpc,
                 submitted, destroyed, undefined>>

\* A detached worker that is still inside the pool touches destroyed members:
\* the step it was about to take is one outcome, this is any other.
UseAfterDestroy(w) ==
  /\ ~undefined
  /\ destroyed
  /\ w \in Awake
  /\ undefined' = TRUE
  /\ UNCHANGED <<isAllRunning, joinable, task_queue, mtx, wpc, task, cpc,
                 submitted, destroyed>>

---------------------------------------------------------------------------
CallerStep(c) ==
  \/ Enqueue(c) \/ Dequeue(c)
  \/ CancelBegin(c) \/ CancelEnd(c)
  \/ DestroyBegin(c) \/ DestroyEnd(c)

\* The part of thread_in_pool that runs inside the pool.
WorkerStep(w) == Lock(w) \/ Wait(w) \/ Return(w) \/ Take(w)

Next ==
  \/ \E c \in Callers : CallerStep(c)
  \/ \E w \in Workers :
        WorkerStep(w) \/ Finish(w) \/ SpuriousWake(w) \/ UseAfterDestroy(w)

Safety == Init /\ [][Next]_vars

\* Threads are scheduled and a mutex that is released again and again is
\* obtained by somebody: weak fairness per thread.
Scheduling ==
  /\ \A w \in Workers : WF_vars(WorkerStep(w))
  /\ \A c \in Callers : WF_vars(CancelEnd(c)) /\ WF_vars(DestroyEnd(c))

\* What the users of the pool owe it: every task returns.
TasksReturn == \A w \in Workers : WF_vars(Finish(w))

Spec == Safety /\ Scheduling /\ TasksReturn

---------------------------------------------------------------------------
\* Properties.

\* mtx has exactly the owner the program counters say, so the sections of
\* enqueue, dequeue, cancel_all and thread_in_pool exclude one another, and no
\* path (return at line 63, blocking in cv.wait) leaves it locked.
MutexOwner ==
  /\ \A w \in Workers : wpc[w] = "test" <=> mtx = w
  /\ \A c \in Callers : cpc[c] # "idle" <=> mtx = c

\* The tasks still queued are the youngest ones, in submission order, and each
\* task that left the queue was given to at most one worker: tasks start in
\* submission order and never twice, across enqueue, dequeue, cancel_all and
\* the workers.
QueueOrder ==
  /\ Len(task_queue) <= submitted
  /\ \A i \in 1..Len(task_queue) :
        task_queue[i] = submitted - Len(task_queue) + i
  /\ \A w \in Running : task[w] \in 1..(submitted - Len(task_queue))
  /\ \A v, w \in Running : task[v] = task[w] => v = w

\* While a worker sleeps on cv, every queued task has another worker on its way
\* to it: enqueue's single notify_one (line 26) never loses a task, not even
\* when it is sent while nobody waits, when a woken worker finds the task taken
\* by one that had just returned, or around cancel_all.
NoLostWakeup ==
  Waiters = {} \/ Len(task_queue) <= Cardinality(Awake)

\* The queue through every operation: guarded by mtx, first come first served, and
\* never left to sleeping workers.
QueueDiscipline == MutexOwner /\ QueueOrder /\ NoLostWakeup

\* Until the object is destroyed, no front() or pop_front() but that of a caller's
\* dequeue() meets an empty deque: the queue can be emptied between the notification
\* of a worker and its re-lock, and the predicate is tested again.
NoUndefined ==
  [][undefined' /\ ~undefined
       => destroyed \/ \E c \in Callers : Dequeue(c)]_vars

\* A worker never leaves the pool unless the destructor has begun: cancel_all
\* clears isAllRunning, but sets it again before it lets go of mtx, so no worker
\* ever sees it; a pool of n workers keeps at least n.
PoolNeverShrinks ==
  (\A c \in Callers : cpc[c] # "destroy") /\ ~destroyed
    => \A w \in Workers : wpc[w] # "exit"

\* Once the destructor has begun no worker starts another task, although the
\* deque may still hold some.
NoStartAfterDestroy ==
  [][(destroyed \/ \E c \in Callers : cpc[c] = "destroy")
       => \A w \in Workers : wpc'[w] = "run" => wpc[w] = "run"]_vars

\* cancel_all returns: it holds mtx while it joins, which would wait for ever
\* for a worker that needs mtx to see isAllRunning, or for a task that never
\* ends, were any thread joinable.
CancelReturns ==
  \A c \in Callers : cpc[c] = "cancel_all" ~> cpc[c] = "idle"

Executor == INSTANCE TaskExecutor WITH
  submitted <- submitted,
  taken     <- submitted - Len(task_queue),
  active    <- {task[w] : w \in Running},
  opened    <- ~destroyed /\ ~undefined /\ \A c \in Callers : cpc[c] # "destroy"

\* The pool implements the executor its callers are promised, liveness
\* included: a queued task is eventually started or discarded, unless the
\* destructor begins.
ImplementsExecutor == Executor!Spec
===========================================================================
