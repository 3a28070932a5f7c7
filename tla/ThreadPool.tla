----------------------------- MODULE ThreadPool -----------------------------
(***************************************************************************)
(* The worker pool of ThreadPool/ThreadPool.cpp (the chat server and the   *)
(* dictionary server carry identical copies): a queue of tasks under       *)
(* task_mutex, a condition variable, and a stop flag.                      *)
(*                                                                         *)
(* One thread, the owner, builds the pool, calls addTask and runs the      *)
(* destructor.  A step is what a thread does between two points where      *)
(* another can run: taking the mutex, each access made while holding it,   *)
(* and the notifications, which the code sends after unlocking.  Waiting   *)
(* on the condition variable releases the mutex and goes to sleep in one   *)
(* step; a sleeping worker may also wake up spuriously.                    *)
(***************************************************************************)
EXTENDS Naturals, Sequences, FiniteSets

CONSTANTS
    Workers,        \* the threads of `workers'
    Owner,          \* the thread that owns the pool
    Free,           \* the mutex's holder when nobody holds it
    MaxTasks,       \* bound: tasks the owner adds
    MaxSpurious     \* bound: spurious wakeups

ASSUME PoolAssumption ==
    /\ IsFiniteSet(Workers)
    /\ Workers # {}
    /\ Owner \notin Workers
    /\ Free \notin Workers \cup {Owner}
    /\ MaxTasks \in Nat
    /\ MaxSpurious \in Nat

VARIABLES
    mutex,          \* holder of task_mutex
    tasks,          \* the queue; tasks are numbered in the order they are added
    isStop,
    opc,            \* where the owner is
    wpc,            \* where each worker is
    task,           \* the task each worker has copied out of the queue
    added,          \* tasks added so far
    taken,          \* tasks popped so far, in order
    finished,       \* tasks that have returned
    spurious        \* spurious wakeups so far

vars == <<mutex, tasks, isStop, opc, wpc, task, added, taken, finished,
          spurious>>

OwnerStates == {"idle", "add", "push", "notify", "destroy", "setStop",
                "notifyAll", "join", "done"}
WorkerStates == {"contend", "locked", "popping", "waiting", "running",
                 "exited"}

\* The constructor has started every worker; none has run yet.
Init ==
    /\ mutex = Free
    /\ tasks = <<>>
    /\ isStop = FALSE
    /\ opc = "idle"
    /\ wpc = [w \in Workers |-> "contend"]
    /\ task = [w \in Workers |-> 0]
    /\ added = 0 /\ taken = <<>> /\ finished = {} /\ spurious = 0

Waiting == {w \in Workers : wpc[w] = "waiting"}

-----------------------------------------------------------------------------
(* The owner: addTask and the destructor. *)

CallAddTask ==
    /\ opc = "idle"
    /\ added < MaxTasks
    /\ opc' = "add"
    /\ UNCHANGED <<mutex, tasks, isStop, wpc, task, added, taken, finished,
                   spurious>>

CallDestructor ==
    /\ opc = "idle"
    /\ opc' = "destroy"
    /\ UNCHANGED <<mutex, tasks, isStop, wpc, task, added, taken, finished,
                   spurious>>

OwnerLock ==
    /\ mutex = Free
    /\ \/ opc = "add" /\ opc' = "push"
       \/ opc = "destroy" /\ opc' = "setStop"
    /\ mutex' = Owner
    /\ UNCHANGED <<tasks, isStop, wpc, task, added, taken, finished, spurious>>

Push ==
    /\ opc = "push"
    /\ tasks' = Append(tasks, added + 1)
    /\ added' = added + 1
    /\ mutex' = Free
    /\ opc' = "notify"
    /\ UNCHANGED <<isStop, wpc, task, taken, finished, spurious>>

\* Mutants: notify only when the queue was empty; do not notify at all.
NotifyIfFirst ==
    /\ opc = "notify"
    /\ \/ Waiting = {} /\ UNCHANGED wpc
       \/ Len(tasks) # 1 /\ UNCHANGED wpc
       \/ \E w \in Waiting : /\ Len(tasks) = 1
                             /\ wpc' = [wpc EXCEPT ![w] = "contend"]
    /\ opc' = "idle"
    /\ UNCHANGED <<mutex, tasks, isStop, task, added, taken, finished,
                   spurious>>

NotifyNobody ==
    /\ opc = "notify"
    /\ opc' = "idle"
    /\ UNCHANGED <<mutex, tasks, isStop, wpc, task, added, taken, finished,
                   spurious>>

NotifyOne ==
    /\ opc = "notify"
    /\ \/ Waiting = {} /\ UNCHANGED wpc
       \/ \E w \in Waiting : wpc' = [wpc EXCEPT ![w] = "contend"]
    /\ opc' = "idle"
    /\ UNCHANGED <<mutex, tasks, isStop, task, added, taken, finished,
                   spurious>>

SetStop ==
    /\ opc = "setStop"
    /\ isStop' = TRUE
    /\ mutex' = Free
    /\ opc' = "notifyAll"
    /\ UNCHANGED <<tasks, wpc, task, added, taken, finished, spurious>>

\* Mutant: notify_one instead of notify_all.
NotifyAllWakesOne ==
    /\ opc = "notifyAll"
    /\ \/ Waiting = {} /\ UNCHANGED wpc
       \/ \E w \in Waiting : wpc' = [wpc EXCEPT ![w] = "contend"]
    /\ opc' = "join"
    /\ UNCHANGED <<mutex, tasks, isStop, task, added, taken, finished,
                   spurious>>

NotifyAll ==
    /\ opc = "notifyAll"
    /\ wpc' = [w \in Workers |-> IF w \in Waiting THEN "contend" ELSE wpc[w]]
    /\ opc' = "join"
    /\ UNCHANGED <<mutex, tasks, isStop, task, added, taken, finished,
                   spurious>>

\* join() on every worker, in any order they end.
\* Mutant: only one worker is joined.
JoinOnce ==
    /\ opc = "join"
    /\ \E w \in Workers : wpc[w] = "exited"
    /\ opc' = "done"
    /\ UNCHANGED <<mutex, tasks, isStop, wpc, task, added, taken, finished,
                   spurious>>

Join ==
    /\ opc = "join"
    /\ \A w \in Workers : wpc[w] = "exited"
    /\ opc' = "done"
    /\ UNCHANGED <<mutex, tasks, isStop, wpc, task, added, taken, finished,
                   spurious>>

-----------------------------------------------------------------------------
(* A worker. *)

\* The lock of the critical section, or the one wait() takes again.
Lock(w) ==
    /\ wpc[w] = "contend"
    /\ mutex = Free
    /\ mutex' = w
    /\ wpc' = [wpc EXCEPT ![w] = "locked"]
    /\ UNCHANGED <<tasks, isStop, opc, task, added, taken, finished, spurious>>

\* Mutant: the predicate of wait() tests the queue only.
WaitIgnoringStop(w) ==
    /\ wpc[w] = "locked"
    /\ tasks = <<>>
    /\ mutex' = Free
    /\ wpc' = [wpc EXCEPT ![w] = "waiting"]
    /\ UNCHANGED <<tasks, isStop, opc, task, added, taken, finished, spurious>>

\* Neither stopped nor anything to do: unlock and sleep.
Wait(w) ==
    /\ wpc[w] = "locked"
    /\ ~ isStop /\ tasks = <<>>
    /\ mutex' = Free
    /\ wpc' = [wpc EXCEPT ![w] = "waiting"]
    /\ UNCHANGED <<tasks, isStop, opc, task, added, taken, finished, spurious>>

\* Mutant: leave as soon as the pool is stopped.
ExitUndrained(w) ==
    /\ wpc[w] = "locked"
    /\ isStop
    /\ mutex' = Free
    /\ wpc' = [wpc EXCEPT ![w] = "exited"]
    /\ UNCHANGED <<tasks, isStop, opc, task, added, taken, finished, spurious>>

Exit(w) ==
    /\ wpc[w] = "locked"
    /\ isStop /\ tasks = <<>>
    /\ mutex' = Free
    /\ wpc' = [wpc EXCEPT ![w] = "exited"]
    /\ UNCHANGED <<tasks, isStop, opc, task, added, taken, finished, spurious>>

\* Mutants: the newest task is read where the oldest is popped; a task is
\* popped without having been read.
FrontNewest(w) ==
    /\ wpc[w] = "locked"
    /\ tasks # <<>>
    /\ task' = [task EXCEPT ![w] = tasks[Len(tasks)]]
    /\ wpc' = [wpc EXCEPT ![w] = "popping"]
    /\ UNCHANGED <<mutex, tasks, isStop, opc, added, taken, finished, spurious>>

FrontSkipped(w) ==
    /\ wpc[w] = "locked"
    /\ tasks # <<>>
    /\ wpc' = [wpc EXCEPT ![w] = "popping"]
    /\ UNCHANGED <<mutex, tasks, isStop, opc, task, added, taken, finished,
                   spurious>>

\* The task is moved out of the queue in two accesses, front() and pop().
Front(w) ==
    /\ wpc[w] = "locked"
    /\ tasks # <<>>
    /\ task' = [task EXCEPT ![w] = Head(tasks)]
    /\ wpc' = [wpc EXCEPT ![w] = "popping"]
    /\ UNCHANGED <<mutex, tasks, isStop, opc, added, taken, finished, spurious>>

Pop(w) ==
    /\ wpc[w] = "popping"
    /\ tasks' = Tail(tasks)
    /\ taken' = Append(taken, task[w])
    /\ mutex' = Free
    /\ wpc' = [wpc EXCEPT ![w] = "running"]
    /\ UNCHANGED <<isStop, opc, task, added, finished, spurious>>

\* task() returns.
Finish(w) ==
    /\ wpc[w] = "running"
    /\ finished' = finished \cup {task[w]}
    /\ wpc' = [wpc EXCEPT ![w] = "contend"]
    /\ UNCHANGED <<mutex, tasks, isStop, opc, task, added, taken, spurious>>

SpuriousWakeup(w) ==
    /\ wpc[w] = "waiting"
    /\ spurious < MaxSpurious
    /\ spurious' = spurious + 1
    /\ wpc' = [wpc EXCEPT ![w] = "contend"]
    /\ UNCHANGED <<mutex, tasks, isStop, opc, task, added, taken, finished>>

-----------------------------------------------------------------------------
OwnerStep == OwnerLock \/ Push \/ NotifyOne \/ SetStop \/ NotifyAll \/ Join

WorkerStep(w) ==
    Lock(w) \/ Wait(w) \/ Exit(w) \/ Front(w) \/ Pop(w) \/ Finish(w)

\* The pool is gone and so are its threads.
Terminated == opc = "done" /\ UNCHANGED vars

Next ==
    \/ CallAddTask \/ CallDestructor \/ OwnerStep
    \/ \E w \in Workers : WorkerStep(w) \/ SpuriousWakeup(w)
    \/ Terminated

\* Threads run and tasks return; nothing makes the owner add a task or destroy
\* the pool, and nothing wakes a sleeping worker but a notification.
Fairness == WF_vars(OwnerStep) /\ \A w \in Workers : WF_vars(WorkerStep(w))

Spec == Init /\ [][Next]_vars
FairSpec == Spec /\ Fairness

-----------------------------------------------------------------------------
(* Properties. *)

\* The types of the pool's variables and of the threads' positions.
TypeOK ==
    /\ mutex \in Workers \cup {Owner, Free}
    /\ tasks \in Seq(1..MaxTasks)
    /\ isStop \in BOOLEAN
    /\ opc \in OwnerStates
    /\ wpc \in [Workers -> WorkerStates]
    /\ task \in [Workers -> 0..MaxTasks]
    /\ added \in 0..MaxTasks
    /\ taken \in Seq(1..MaxTasks)
    /\ finished \subseteq 1..MaxTasks
    /\ spurious \in 0..MaxSpurious

\* No task is lost, run twice or overtaken: what the workers have popped,
\* followed by what is still queued, is every task added, in order.
ExactlyOnceInOrder == taken \o tasks = [i \in 1..added |-> i]

\* No wakeup is lost.  While any worker sleeps, there is for each queued task a
\* worker that is awake and about to look at the queue, or a notification the
\* owner has still to send: a queued task never waits on a busy pool that has
\* sleeping workers.
Awake == {w \in Workers : wpc[w] \in {"contend", "locked", "popping"}}

WakeupPerTask ==
    Waiting # {} =>
        Len(tasks) <= Cardinality(Awake) + (IF opc = "notify" THEN 1 ELSE 0)

\* A worker that still sleeps after is_stop was set will be woken: the owner
\* has not yet called notify_all.
StopReachesAll == isStop /\ Waiting # {} => opc = "notifyAll"

\* Workers leave only when the pool is stopped and drained, and once the
\* destructor returns every task ever added has returned.
DrainedBeforeExit ==
    /\ (\E w \in Workers : wpc[w] = "exited") => isStop /\ tasks = <<>>
    /\ opc = "done" => finished = 1..added

\* The pool keeps the promise of TaskPool: tasks start in the order they were
\* added, once and on one worker each, and the destructor returns when nothing
\* is queued or running.
Running == [w \in Workers |-> IF wpc[w] = "running" THEN task[w] ELSE 0]

Promise == INSTANCE TaskPool
    WITH Tasks <- 1..MaxTasks, NoTask <- 0, given <- 1..added,
         queue <- tasks, running <- Running, closed <- (opc = "done")

ImplementsTaskPool == Promise!Spec

\* Every task that is added runs to its end, even if the pool is never stopped.
EveryTaskRuns == \A i \in 1..MaxTasks : added >= i ~> i \in finished

\* The destructor returns: no worker stays asleep or blocked.
DestructorReturns == opc = "destroy" ~> opc = "done"

=============================================================================
