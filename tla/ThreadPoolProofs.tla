-------------------------- MODULE ThreadPoolProofs --------------------------
(***************************************************************************)
(* Proofs about ThreadPool, for any number of workers, tasks and spurious  *)
(* wakeups.                                                                *)
(***************************************************************************)
EXTENDS ThreadPool, FiniteSetTheorems, SequenceTheorems, TLAPS

-----------------------------------------------------------------------------
(* Mutual exclusion and types. *)

\* The mutex is held by the thread inside a critical section, if there is one.
LockInv ==
    /\ \A w \in Workers : wpc[w] \in {"locked", "popping"} <=> mutex = w
    /\ mutex = Owner <=> opc \in {"push", "setStop"}

\* The worker between front() and pop() holds the head of the queue; one that
\* runs a task has one.
HeadInv ==
    \A w \in Workers :
        /\ wpc[w] = "popping" => tasks # <<>> /\ task[w] = Head(tasks)
        /\ wpc[w] = "running" => task[w] \in 1..MaxTasks

\* addTask is called while there is room under the bound.
AddInv == opc \in {"add", "push"} => added < MaxTasks

SafeInv == TypeOK /\ LockInv /\ HeadInv /\ AddInv

LEMMA SafeInit == Init => SafeInv
<1> SUFFICES ASSUME Init PROVE SafeInv
  OBVIOUS
<1>1. TypeOK
  <2>1. tasks \in Seq(1..MaxTasks) /\ taken \in Seq(1..MaxTasks)
    BY DEF Init
  <2>2. task \in [Workers -> 0..MaxTasks] /\ added \in 0..MaxTasks
        /\ spurious \in 0..MaxSpurious
    BY PoolAssumption DEF Init
  <2> QED
    BY <2>1, <2>2 DEF Init, TypeOK, OwnerStates, WorkerStates
<1>2. LockInv /\ HeadInv /\ AddInv
  BY PoolAssumption DEF Init, LockInv, HeadInv, AddInv
<1> QED
  BY <1>1, <1>2 DEF SafeInv

LEMMA SafeNext == SafeInv /\ [Next]_vars => SafeInv'
<1> SUFFICES ASSUME SafeInv, [Next]_vars PROVE SafeInv'
  OBVIOUS
<1> USE PoolAssumption DEF SafeInv, TypeOK, LockInv, HeadInv, AddInv,
                           OwnerStates, WorkerStates
<1>1. CASE CallAddTask \/ CallDestructor
  BY <1>1 DEF CallAddTask, CallDestructor
<1>2. CASE OwnerLock
  BY <1>2 DEF OwnerLock
<1>3. CASE Push
  BY <1>3 DEF Push
<1>4. CASE NotifyOne
  BY <1>4 DEF NotifyOne, Waiting
<1>5. CASE SetStop
  BY <1>5 DEF SetStop
<1>6. CASE NotifyAll
  BY <1>6 DEF NotifyAll, Waiting
<1>7. CASE Join
  BY <1>7 DEF Join
<1>8. ASSUME NEW w \in Workers, Lock(w) PROVE SafeInv'
  BY <1>8 DEF Lock
<1>9. ASSUME NEW w \in Workers, Wait(w) PROVE SafeInv'
  BY <1>9 DEF Wait
<1>10. ASSUME NEW w \in Workers, Exit(w) PROVE SafeInv'
  BY <1>10 DEF Exit
<1>11. ASSUME NEW w \in Workers, Front(w) PROVE SafeInv'
  BY <1>11 DEF Front
<1>12. ASSUME NEW w \in Workers, Pop(w) PROVE SafeInv'
  <2>1. tasks # <<>> /\ task[w] = Head(tasks) /\ mutex = w
    BY <1>12 DEF Pop
  <2>2. task[w] \in 1..MaxTasks
    BY <2>1
  <2>3. tasks' \in Seq(1..MaxTasks) /\ taken' \in Seq(1..MaxTasks)
    BY <1>12, <2>1, <2>2 DEF Pop
  <2>4. TypeOK'
    BY <1>12, <2>3 DEF Pop
  <2>5. LockInv' /\ AddInv'
    BY <1>12, <2>1 DEF Pop
  <2>6. HeadInv'
    BY <1>12, <2>1, <2>2 DEF Pop
  <2> QED
    BY <2>4, <2>5, <2>6
<1>13. ASSUME NEW w \in Workers, Finish(w) PROVE SafeInv'
  BY <1>13 DEF Finish
<1>14. ASSUME NEW w \in Workers, SpuriousWakeup(w) PROVE SafeInv'
  BY <1>14 DEF SpuriousWakeup
<1>15. CASE UNCHANGED vars
  BY <1>15 DEF vars
<1> QED
  BY <1>1, <1>2, <1>3, <1>4, <1>5, <1>6, <1>7, <1>8, <1>9, <1>10, <1>11,
     <1>12, <1>13, <1>14, <1>15
  DEF Next, OwnerStep, WorkerStep, Terminated

\* The variables of the pool keep their types, whatever the threads do.
THEOREM TypeCorrect == Spec => []TypeOK
<1>1. SafeInv => TypeOK
  BY DEF SafeInv
<1> QED
  BY <1>1, SafeInit, SafeNext, PTL DEF Spec

-----------------------------------------------------------------------------
(* The queue. *)

QueueInv == SafeInv /\ ExactlyOnceInOrder

LEMMA PushKeepsOrder ==
    ASSUME NEW s \in Seq(Nat), NEW t \in Seq(Nat), NEW e \in Nat
    PROVE  s \o Append(t, e) = Append(s \o t, e)
<1>1. Len(s \o Append(t, e)) = Len(Append(s \o t, e))
  OBVIOUS
<1>2. ASSUME NEW i \in 1..(Len(s) + Len(t) + 1)
      PROVE  (s \o Append(t, e))[i] = Append(s \o t, e)[i]
  <2>1. CASE i \in 1..Len(s)
    BY <2>1
  <2>2. CASE i \in (Len(s) + 1)..(Len(s) + Len(t))
    BY <2>2
  <2>3. CASE i = Len(s) + Len(t) + 1
    BY <2>3
  <2> QED
    BY <2>1, <2>2, <2>3
<1> QED
  BY <1>1, <1>2

LEMMA CountingAppend ==
    ASSUME NEW s, NEW n \in Nat, s = [i \in 1..n |-> i]
    PROVE  Append(s, n + 1) = [i \in 1..(n + 1) |-> i]
<1>1. s \in Seq(Nat) /\ Len(s) = n
  OBVIOUS
<1>2. Len(Append(s, n + 1)) = n + 1
  BY <1>1
<1>3. \A i \in 1..(n + 1) : Append(s, n + 1)[i] = i
  BY <1>1
<1> QED
  BY <1>1, <1>2, <1>3

LEMMA PopKeepsOrder ==
    ASSUME NEW s \in Seq(Nat), NEW t \in Seq(Nat), t # <<>>
    PROVE  Append(s, Head(t)) \o Tail(t) = s \o t
<1>1. Len(Append(s, Head(t)) \o Tail(t)) = Len(s \o t)
  OBVIOUS
<1>2. ASSUME NEW i \in 1..Len(s \o t)
      PROVE  (Append(s, Head(t)) \o Tail(t))[i] = (s \o t)[i]
  <2>1. CASE i \in 1..Len(s)
    BY <2>1
  <2>2. CASE i = Len(s) + 1
    BY <2>2
  <2>3. CASE i \in (Len(s) + 2)..(Len(s) + Len(t))
    BY <2>3
  <2> QED
    BY <2>1, <2>2, <2>3
<1> QED
  BY <1>1, <1>2

LEMMA QueueNext == QueueInv /\ [Next]_vars => QueueInv'
<1> SUFFICES ASSUME QueueInv, [Next]_vars PROVE ExactlyOnceInOrder'
  BY SafeNext DEF QueueInv
<1>1. /\ TypeOK /\ HeadInv /\ ExactlyOnceInOrder
      /\ tasks \in Seq(Nat) /\ taken \in Seq(Nat) /\ added \in Nat
  BY PoolAssumption DEF QueueInv, SafeInv, TypeOK
<1>2. CASE Push
  <2> DEFINE q == taken \o tasks
  <2>1. q = [i \in 1..added |-> i]
    BY <1>1 DEF ExactlyOnceInOrder
  <2>2. taken' \o tasks' = Append(q, added + 1) /\ added' = added + 1
    BY <1>1, <1>2, PushKeepsOrder DEF Push
  <2> HIDE DEF q
  <2>3. Append(q, added + 1) = [i \in 1..(added + 1) |-> i]
    BY <1>1, <2>1, CountingAppend
  <2> QED
    BY <2>2, <2>3 DEF ExactlyOnceInOrder
<1>3. ASSUME NEW w \in Workers, Pop(w) PROVE ExactlyOnceInOrder'
  <2>1. tasks # <<>> /\ task[w] = Head(tasks)
    BY <1>1, <1>3 DEF Pop, HeadInv
  <2>2. taken' \o tasks' = taken \o tasks
    BY <1>1, <1>3, <2>1, PopKeepsOrder DEF Pop
  <2> QED
    BY <1>1, <1>3, <2>2 DEF Pop, ExactlyOnceInOrder
<1>4. CASE UNCHANGED <<taken, tasks, added>>
  BY <1>1, <1>4 DEF ExactlyOnceInOrder
<1> QED
  BY <1>2, <1>3, <1>4
  DEF Next, OwnerStep, WorkerStep, Terminated, vars, CallAddTask,
      CallDestructor, OwnerLock, NotifyOne, SetStop, NotifyAll, Join, Lock,
      Wait, Exit, Front, Finish, SpuriousWakeup

\* Every task added is popped exactly once and in the order of addition.
THEOREM TasksExactlyOnce == Spec => []ExactlyOnceInOrder
<1>1. Init => QueueInv
  <2> SUFFICES ASSUME Init PROVE ExactlyOnceInOrder
    BY SafeInit DEF QueueInv
  <2> QED
    BY DEF Init, ExactlyOnceInOrder
<1>2. QueueInv => ExactlyOnceInOrder
  BY DEF QueueInv
<1> QED
  BY <1>1, <1>2, QueueNext, PTL DEF Spec

-----------------------------------------------------------------------------
(* Wakeups. *)

WakeInv == SafeInv /\ WakeupPerTask

\* The owner's pending notification, counted as a worker about to be awake.
Pending == IF opc = "notify" THEN 1 ELSE 0

LEMMA WakeNext == WakeInv /\ [Next]_vars => WakeInv'
<1> SUFFICES ASSUME WakeInv, [Next]_vars PROVE WakeupPerTask'
  BY SafeNext DEF WakeInv
<1> USE PoolAssumption
<1>1. /\ TypeOK /\ HeadInv /\ WakeupPerTask
      /\ Len(tasks) \in Nat
  BY DEF WakeInv, SafeInv, TypeOK
<1>2. IsFiniteSet(Awake) /\ Cardinality(Awake) \in Nat
  BY FS_Subset, FS_CardinalityType DEF Awake
<1>3. CASE CallAddTask \/ CallDestructor \/ OwnerLock \/ SetStop \/ Join
  BY <1>1, <1>3 DEF CallAddTask, CallDestructor, OwnerLock, SetStop, Join,
                    WakeupPerTask, Waiting, Awake
<1>4. CASE Push
  <2>1. Waiting' = Waiting /\ Awake' = Awake /\ opc = "push"
        /\ opc' = "notify" /\ Len(tasks') = Len(tasks) + 1
    BY <1>1, <1>4 DEF Push, Waiting, Awake, TypeOK
  <2> QED
    BY <1>1, <1>2, <2>1 DEF WakeupPerTask
<1>5. CASE NotifyOne
  <2>1. CASE Waiting = {} /\ UNCHANGED wpc
    BY <2>1 DEF WakeupPerTask, Waiting
  <2>2. ASSUME NEW w \in Waiting, wpc' = [wpc EXCEPT ![w] = "contend"]
        PROVE  WakeupPerTask'
    <3>1. w \notin Awake /\ Awake' = Awake \cup {w}
      BY <1>1, <2>2 DEF Waiting, Awake, TypeOK
    <3>2. Cardinality(Awake') = Cardinality(Awake) + 1
      BY <1>2, <3>1, FS_AddElement
    <3>3. UNCHANGED tasks /\ opc = "notify" /\ opc' = "idle"
      BY <1>5 DEF NotifyOne
    <3> QED
      BY <1>1, <1>2, <2>2, <3>2, <3>3 DEF WakeupPerTask
  <2> QED
    BY <1>5, <2>1, <2>2 DEF NotifyOne
<1>6. CASE NotifyAll
  BY <1>6 DEF NotifyAll, WakeupPerTask, Waiting
\* A worker that becomes awake.
<1>7. ASSUME NEW w \in Workers, wpc[w] \notin {"contend", "locked", "popping"},
             wpc' = [wpc EXCEPT ![w] = "contend"], UNCHANGED <<tasks, opc>>
      PROVE  WakeupPerTask'
  <2>1. w \notin Awake /\ Awake' = Awake \cup {w} /\ Waiting' \subseteq Waiting
    BY <1>1, <1>7 DEF Waiting, Awake, TypeOK
  <2>2. Cardinality(Awake') = Cardinality(Awake) + 1
    BY <1>2, <2>1, FS_AddElement
  <2> QED
    BY <1>1, <1>2, <1>7, <2>1, <2>2 DEF WakeupPerTask
<1>8. ASSUME NEW w \in Workers, Lock(w) \/ Front(w) PROVE WakeupPerTask'
  <2>1. Waiting' = Waiting /\ Awake' = Awake /\ UNCHANGED <<tasks, opc>>
    BY <1>1, <1>8 DEF Lock, Front, Waiting, Awake, TypeOK
  <2> QED
    BY <1>1, <2>1 DEF WakeupPerTask
<1>9. ASSUME NEW w \in Workers, Wait(w) \/ Exit(w) PROVE WakeupPerTask'
  <2>1. Len(tasks') = 0 /\ opc' = opc
    BY <1>9 DEF Wait, Exit
  <2>2. IsFiniteSet(Awake')
    BY FS_Subset DEF Awake
  <2>3. Cardinality(Awake') \in Nat
    BY <2>2, FS_CardinalityType
  <2> QED
    BY <2>1, <2>3 DEF WakeupPerTask
<1>10. ASSUME NEW w \in Workers, Pop(w) PROVE WakeupPerTask'
  <2>1. w \in Awake /\ Awake' = Awake \ {w} /\ Waiting' = Waiting
        /\ opc' = opc
    BY <1>1, <1>10 DEF Pop, Waiting, Awake, TypeOK
  <2>2. Cardinality(Awake') = Cardinality(Awake) - 1
    BY <1>2, <2>1, FS_RemoveElement
  <2>3. Len(tasks') = Len(tasks) - 1
    BY <1>1, <1>10 DEF Pop, HeadInv, TypeOK
  <2> QED
    BY <1>1, <1>2, <2>1, <2>2, <2>3 DEF WakeupPerTask
<1>11. ASSUME NEW w \in Workers, Finish(w) \/ SpuriousWakeup(w)
       PROVE  WakeupPerTask'
  BY <1>7, <1>11 DEF Finish, SpuriousWakeup
<1>12. CASE UNCHANGED vars
  BY <1>1, <1>12 DEF vars, WakeupPerTask, Waiting, Awake
<1> QED
  BY <1>3, <1>4, <1>5, <1>6, <1>8, <1>9, <1>10, <1>11, <1>12
  DEF Next, OwnerStep, WorkerStep, Terminated

\* While a worker sleeps every queued task has an awake worker or a pending
\* notification, for any number of workers.
THEOREM NoLostWakeup == Spec => []WakeupPerTask
<1>1. Init => WakeInv
  <2> SUFFICES ASSUME Init PROVE WakeupPerTask
    BY SafeInit DEF WakeInv
  <2> QED
    BY DEF Init, WakeupPerTask, Waiting
<1>2. WakeInv => WakeupPerTask
  BY DEF WakeInv
<1> QED
  BY <1>1, <1>2, WakeNext, PTL DEF Spec

-----------------------------------------------------------------------------
(* Stopping. *)

\* What the destructor's position says of the flag and of the workers.
StopInv ==
    /\ isStop <=> opc \in {"notifyAll", "join", "done"}
    /\ StopReachesAll
    /\ \A w \in Workers : wpc[w] = "exited" => isStop /\ tasks = <<>>
    /\ opc = "done" => \A w \in Workers : wpc[w] = "exited"

\* A popped task has returned or is being run.
RunInv ==
    /\ finished \subseteq 1..added
    /\ \A w \in Workers : wpc[w] = "running" => task[w] \in 1..added
    /\ \A i \in 1..Len(taken) :
          \/ taken[i] \in finished
          \/ \E w \in Workers : wpc[w] = "running" /\ task[w] = taken[i]

DrainInv == QueueInv /\ StopInv /\ RunInv

LEMMA StopNext == SafeInv /\ StopInv /\ [Next]_vars => StopInv'
<1> SUFFICES ASSUME SafeInv, StopInv, [Next]_vars PROVE StopInv'
  OBVIOUS
<1> USE PoolAssumption DEF StopInv, StopReachesAll, Waiting
<1>1. TypeOK /\ LockInv
  BY DEF SafeInv
<1>2. CASE CallAddTask \/ CallDestructor \/ OwnerLock \/ Push \/ Join
  BY <1>1, <1>2 DEF CallAddTask, CallDestructor, OwnerLock, Push, Join
<1>3. CASE NotifyOne
  BY <1>1, <1>3 DEF NotifyOne, TypeOK
<1>4. CASE SetStop
  BY <1>1, <1>4 DEF SetStop, TypeOK
<1>5. CASE NotifyAll
  BY <1>1, <1>5 DEF NotifyAll, TypeOK
<1>6. ASSUME NEW w \in Workers, WorkerStep(w) \/ SpuriousWakeup(w)
      PROVE  StopInv'
  <2>1. CASE Lock(w)
    BY <1>1, <2>1 DEF Lock, TypeOK
  <2>2. CASE Wait(w)
    BY <1>1, <2>2 DEF Wait, TypeOK
  <2>3. CASE Exit(w)
    BY <1>1, <2>3 DEF Exit, TypeOK
  <2>4. CASE Front(w)
    BY <1>1, <2>4 DEF Front, TypeOK
  <2>5. CASE Pop(w)
    <3>1. tasks # <<>>
      BY <2>5 DEF Pop, SafeInv, HeadInv
    <3> QED
      BY <1>1, <2>5, <3>1 DEF Pop, TypeOK
  <2>6. CASE Finish(w)
    BY <1>1, <2>6 DEF Finish, TypeOK
  <2>7. CASE SpuriousWakeup(w)
    BY <1>1, <2>7 DEF SpuriousWakeup, TypeOK
  <2> QED
    BY <1>6, <2>1, <2>2, <2>3, <2>4, <2>5, <2>6, <2>7 DEF WorkerStep
<1>7. CASE UNCHANGED vars
  BY <1>7 DEF vars
<1> QED
  BY <1>2, <1>3, <1>4, <1>5, <1>6, <1>7 DEF Next, OwnerStep, Terminated

LEMMA RunNext == QueueInv /\ RunInv /\ [Next]_vars => RunInv'
<1> SUFFICES ASSUME QueueInv, RunInv, [Next]_vars PROVE RunInv'
  OBVIOUS
<1> USE PoolAssumption
<1>1. TypeOK /\ HeadInv /\ RunInv /\ ExactlyOnceInOrder
  BY DEF QueueInv, SafeInv
<1>2. CASE UNCHANGED <<finished, added, task, taken>> /\
           \A w \in Workers : wpc'[w] = "running" <=> wpc[w] = "running"
  BY <1>1, <1>2 DEF RunInv
<1>3. CASE Push
  BY <1>1, <1>3 DEF Push, RunInv, TypeOK
<1>4. ASSUME NEW w \in Workers, Front(w) PROVE RunInv'
  BY <1>1, <1>4 DEF Front, RunInv, TypeOK
<1>5. ASSUME NEW w \in Workers, Pop(w) PROVE RunInv'
  <2>1. /\ taken \in Seq(Nat) /\ tasks \in Seq(Nat) /\ added \in Nat
        /\ tasks # <<>> /\ task[w] = Head(tasks) /\ wpc[w] = "popping"
    BY <1>1, <1>5 DEF Pop, HeadInv, TypeOK
  <2>2. task[w] \in 1..added
    <3> DEFINE i == Len(taken) + 1
    <3>1. /\ i \in 1..Len(taken \o tasks)
          /\ Len(taken \o tasks) = added
          /\ (taken \o tasks)[i] = i
      <4>1. i \in 1..Len(taken \o tasks)
        BY <2>1
      <4>2. Len(taken \o tasks) = added
        BY <1>1, <2>1 DEF ExactlyOnceInOrder
      <4> QED
        BY <1>1, <2>1, <4>1, <4>2 DEF ExactlyOnceInOrder
    <3>2. (taken \o tasks)[i] = tasks[1]
      BY <2>1
    <3> QED
      BY <2>1, <3>1, <3>2
  <2>3. /\ taken' = Append(taken, task[w])
        /\ wpc' = [wpc EXCEPT ![w] = "running"]
        /\ UNCHANGED <<finished, added, task>>
    BY <1>5 DEF Pop
  <2>4. \A v \in Workers : wpc[v] = "running" => wpc'[v] = "running"
    BY <1>1, <2>3 DEF TypeOK
  <2>5. wpc'[w] = "running"
    BY <1>1, <2>3 DEF TypeOK
  <2>6. ASSUME NEW v \in Workers, wpc'[v] = "running"
        PROVE  task'[v] \in 1..added'
    BY <1>1, <2>2, <2>3, <2>6 DEF RunInv, TypeOK
  <2>7. ASSUME NEW i \in 1..Len(taken')
        PROVE  \/ taken'[i] \in finished'
               \/ \E v \in Workers : wpc'[v] = "running" /\ task'[v] = taken'[i]
    <3>1. CASE i \in 1..Len(taken)
      <4>1. taken'[i] = taken[i]
        BY <2>1, <2>3, <3>1
      <4> QED
        BY <1>1, <2>3, <2>4, <3>1, <4>1 DEF RunInv
    <3>2. CASE i = Len(taken) + 1
      <4>1. taken'[i] = task[w]
        BY <2>1, <2>3, <3>2
      <4> QED
        BY <2>3, <2>5, <4>1
    <3> QED
      BY <2>1, <2>3, <2>7, <3>1, <3>2
  <2> QED
    BY <1>1, <2>3, <2>6, <2>7 DEF RunInv
<1>6. ASSUME NEW w \in Workers, Finish(w) PROVE RunInv'
  <2>1. /\ finished' = finished \cup {task[w]}
        /\ wpc' = [wpc EXCEPT ![w] = "contend"]
        /\ wpc[w] = "running"
        /\ UNCHANGED <<taken, added, task>>
    BY <1>6 DEF Finish
  <2>2. \A v \in Workers : /\ wpc'[v] = "running" => wpc[v] = "running"
                           /\ v # w => wpc'[v] = wpc[v]
    BY <1>1, <2>1 DEF TypeOK
  <2>3. task[w] \in 1..added
    BY <1>1, <2>1 DEF RunInv
  <2>4. finished' \subseteq 1..added'
    BY <1>1, <2>1, <2>3 DEF RunInv
  <2>5. ASSUME NEW v \in Workers, wpc'[v] = "running"
        PROVE  task'[v] \in 1..added'
    BY <1>1, <2>1, <2>2, <2>5 DEF RunInv
  <2>6. ASSUME NEW i \in 1..Len(taken'), taken'[i] \notin finished'
        PROVE  \E v \in Workers : wpc'[v] = "running" /\ task'[v] = taken'[i]
    <3>1. taken[i] \notin finished /\ taken[i] # task[w]
      BY <2>1, <2>6
    <3>2. PICK v \in Workers : wpc[v] = "running" /\ task[v] = taken[i]
      BY <1>1, <2>1, <2>6, <3>1 DEF RunInv
    <3> QED
      BY <2>1, <2>2, <3>1, <3>2
  <2> QED
    BY <2>4, <2>5, <2>6 DEF RunInv
<1>7. CASE CallAddTask \/ CallDestructor \/ OwnerLock \/ NotifyOne \/ SetStop
           \/ NotifyAll \/ Join \/ UNCHANGED vars
  BY <1>1, <1>2, <1>7 DEF CallAddTask, CallDestructor, OwnerLock, NotifyOne,
     SetStop, NotifyAll, Join, vars, Waiting, TypeOK
<1>8. ASSUME NEW w \in Workers,
             Lock(w) \/ Wait(w) \/ Exit(w) \/ SpuriousWakeup(w)
      PROVE  RunInv'
  BY <1>1, <1>2, <1>8 DEF Lock, Wait, Exit, SpuriousWakeup, TypeOK
<1> QED
  BY <1>3, <1>4, <1>5, <1>6, <1>7, <1>8
  DEF Next, OwnerStep, WorkerStep, Terminated

\* No worker is left asleep by a stop: until notify_all, the owner is about to
\* call it.
THEOREM StopWakesAll == Spec => []StopReachesAll
<1>1. Init => SafeInv /\ StopInv
  <2> SUFFICES ASSUME Init PROVE StopInv
    BY SafeInit
  <2> QED
    BY DEF Init, StopInv, StopReachesAll, Waiting
<1>2. SafeInv /\ StopInv /\ [Next]_vars => (SafeInv /\ StopInv)'
  BY SafeNext, StopNext
<1>3. StopInv => StopReachesAll
  BY DEF StopInv
<1> QED
  BY <1>1, <1>2, <1>3, PTL DEF Spec

LEMMA DrainInit == Init => DrainInv
<1> SUFFICES ASSUME Init PROVE ExactlyOnceInOrder /\ StopInv /\ RunInv
  BY SafeInit DEF DrainInv, QueueInv
<1> QED
  BY DEF Init, ExactlyOnceInOrder, StopInv, StopReachesAll, Waiting, RunInv

LEMMA DrainNext == DrainInv /\ [Next]_vars => DrainInv'
BY QueueNext, StopNext, RunNext DEF DrainInv, QueueInv

\* Workers leave a drained pool, and when the destructor returns every task
\* ever added has returned.
THEOREM DestructorDrains == Spec => []DrainedBeforeExit
<1>1. DrainInv => DrainedBeforeExit
  <2> SUFFICES ASSUME DrainInv PROVE DrainedBeforeExit
    OBVIOUS
  <2>1. StopInv /\ RunInv /\ ExactlyOnceInOrder /\ TypeOK
    BY DEF DrainInv, QueueInv, SafeInv
  <2>2. ASSUME opc = "done" PROVE finished = 1..added
    <3>1. PICK w \in Workers : wpc[w] = "exited"
      BY <2>1, <2>2, PoolAssumption DEF StopInv
    <3>2. tasks = <<>>
      BY <2>1, <3>1 DEF StopInv
    <3>3. taken = [i \in 1..added |-> i]
      BY <2>1, <3>2, PoolAssumption DEF ExactlyOnceInOrder, TypeOK
    <3>4. ASSUME NEW i \in 1..added PROVE i \in finished
      <4>1. added \in Nat /\ Len(taken) = added /\ taken[i] = i
        BY <2>1, <3>3, PoolAssumption DEF TypeOK
      <4>2. \A v \in Workers : wpc[v] # "running"
        BY <2>1, <2>2 DEF StopInv
      <4> QED
        BY <2>1, <4>1, <4>2 DEF RunInv
    <3> QED
      BY <2>1, <3>4 DEF RunInv
  <2> QED
    BY <2>1, <2>2 DEF StopInv, DrainedBeforeExit
<1> QED
  BY <1>1, DrainInit, DrainNext, PTL DEF Spec

-----------------------------------------------------------------------------
(* The pool as an implementation of TaskPool. *)

LEMMA StepIsPromised ==
    DrainInv /\ [Next]_vars => [Promise!Next]_(Promise!vars)
<1> SUFFICES ASSUME DrainInv, [Next]_vars
             PROVE  Promise!Next \/ UNCHANGED Promise!vars
  OBVIOUS
<1> USE PoolAssumption
<1>1. TypeOK /\ LockInv /\ HeadInv /\ AddInv /\ StopInv
  BY DEF DrainInv, QueueInv, SafeInv
<1>2. Running \in [Workers -> 0..MaxTasks]
  BY <1>1 DEF Running, TypeOK
<1>3. CASE UNCHANGED <<added, tasks, task, wpc>> /\ (opc' = "done" <=> opc = "done")
  <2>1. UNCHANGED <<1..added, tasks, Running, opc = "done">>
    BY <1>3 DEF Running
  <2> QED
    BY <2>1 DEF Promise!vars
<1>4. CASE Push
  <2>1. /\ added + 1 \in 1..MaxTasks /\ added + 1 \notin 1..added
        /\ 1..(added + 1) = (1..added) \cup {added + 1}
    BY <1>1, <1>4 DEF Push, TypeOK, AddInv
  <2>2. /\ opc # "done" /\ opc' # "done"
        /\ tasks' = Append(tasks, added + 1)
        /\ added' = added + 1
        /\ Running' = Running
    BY <1>4 DEF Push, Running
  <2>3. Promise!Add(added + 1)
    BY <2>1, <2>2 DEF Promise!Add
  <2> QED
    BY <2>1, <2>3 DEF Promise!Next
<1>5. CASE NotifyOne \/ NotifyAll
  <2>1. Running' = Running
    BY <1>1, <1>5 DEF NotifyOne, NotifyAll, Running, Waiting, TypeOK
  <2>2. UNCHANGED <<added, tasks>> /\ opc # "done" /\ opc' # "done"
    BY <1>5 DEF NotifyOne, NotifyAll
  <2> QED
    BY <2>1, <2>2 DEF Promise!vars
<1>6. CASE Join
  <2>1. \A w \in Workers : wpc[w] = "exited"
    BY <1>6 DEF Join
  <2>2. tasks = <<>>
    BY <1>1, <2>1 DEF StopInv
  <2>3. Running' = Running /\ \A w \in Workers : Running[w] = 0
    BY <1>6, <2>1 DEF Join, Running
  <2>4. Promise!Close
    BY <1>6, <2>2, <2>3 DEF Join, Promise!Close
  <2> QED
    BY <2>4 DEF Promise!Next
<1>7. ASSUME NEW w \in Workers,
             Lock(w) \/ Wait(w) \/ Exit(w) \/ Front(w) \/ SpuriousWakeup(w)
      PROVE  UNCHANGED Promise!vars
  <2>1. Running' = Running
    BY <1>1, <1>7 DEF Lock, Wait, Exit, Front, SpuriousWakeup, Running, TypeOK
  <2>2. UNCHANGED <<added, tasks, opc>>
    BY <1>7 DEF Lock, Wait, Exit, Front, SpuriousWakeup
  <2> QED
    BY <2>1, <2>2 DEF Promise!vars
<1>8. ASSUME NEW w \in Workers, Pop(w) PROVE Promise!Start(w)
  <2>1. tasks # <<>> /\ task[w] = Head(tasks) /\ Running[w] = 0
    BY <1>1, <1>8 DEF Pop, HeadInv, Running
  <2>2. Running' = [Running EXCEPT ![w] = Head(tasks)]
    BY <1>1, <1>2, <1>8, <2>1 DEF Pop, Running, TypeOK
  <2> QED
    BY <1>8, <2>1, <2>2 DEF Pop, Promise!Start
<1>9. ASSUME NEW w \in Workers, Finish(w) PROVE Promise!End(w)
  <2>1. Running[w] # 0
    BY <1>1, <1>9 DEF Finish, HeadInv, Running
  <2>2. Running' = [Running EXCEPT ![w] = 0]
    BY <1>1, <1>2, <1>9 DEF Finish, Running, TypeOK
  <2> QED
    BY <1>9, <2>1, <2>2 DEF Finish, Promise!End
<1> QED
  BY <1>3, <1>4, <1>5, <1>6, <1>7, <1>8, <1>9
  DEF Next, OwnerStep, WorkerStep, Terminated, vars, CallAddTask,
      CallDestructor, OwnerLock, SetStop, Promise!Next

\* The pool implements the promise its owners rely on: tasks start in order,
\* each once, and the destructor returns when none is queued or running.
THEOREM PoolKeepsPromise == Spec => ImplementsTaskPool
<1>1. Init => Promise!Init
  <2> SUFFICES ASSUME Init PROVE Promise!Init
    OBVIOUS
  <2>1. 1..added = {} /\ tasks = <<>> /\ opc # "done"
    BY DEF Init
  <2>2. Running = [w \in Workers |-> 0]
    BY DEF Init, Running
  <2> QED
    BY <2>1, <2>2 DEF Promise!Init
<1>2. Spec => []DrainInv
  BY DrainInit, DrainNext, PTL DEF Spec
<1> QED
  BY <1>1, <1>2, StepIsPromised, PTL DEF Spec, ImplementsTaskPool, Promise!Spec

=============================================================================
