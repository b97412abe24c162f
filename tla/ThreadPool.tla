----------------------------- MODULE ThreadPool -----------------------------
(***************************************************************************)
(* The thread pool of the power engine (util/ThreadPool.hh): a queue of    *)
(* packaged tasks, one mutex, one condition variable; every task has a     *)
(* future its owner may wait for, and the destructor lets the workers      *)
(* empty the queue before it joins them.                                   *)
(*                                                                         *)
(* As in DispatchQueue, a stretch of code that holds the mutex is one      *)
(* action.  The module is used alone, with an owner that enqueues tasks    *)
(* and destroys the pool at any time, and under FsdbReader.                *)
(***************************************************************************)
EXTENDS Integers, Sequences, FiniteSets

CONSTANTS
  PoolThreads,   \* number of workers
  Tasks          \* tasks the owner may enqueue, each once

ASSUME PoolAssumption == PoolThreads \in Nat \ {0} /\ 0 \notin Tasks

VARIABLES
  tasks,     \* tasks not yet taken
  stop,      \* the destructor has begun
  wpc,       \* where each worker is
  task,      \* the task each worker holds (0: none)
  opc,       \* the pool call the owner is in
  enqueued,  \* history: tasks enqueued
  settled    \* tasks whose future is ready

poolVars == <<tasks, stop, wpc, task, opc, enqueued, settled>>

Workers == 1 .. PoolThreads

PoolInit ==
  /\ tasks = <<>>
  /\ stop = FALSE
  /\ wpc = [w \in Workers |-> "lock"]
  /\ task = [w \in Workers |-> 0]
  /\ opc = "open"
  /\ enqueued = {}
  /\ settled = {}

Blocked == {w \in Workers : wpc[w] = "wait"}
NotifiedAll == [w \in Workers |-> IF w \in Blocked THEN "lock" ELSE wpc[w]]

-----------------------------------------------------------------------------
(* The owner. *)

EnqueuePush(t) ==
  /\ opc = "open"
  /\ t \notin enqueued
  /\ tasks' = Append(tasks, t)
  /\ enqueued' = enqueued \cup {t}
  /\ opc' = "notify"
  /\ UNCHANGED <<stop, wpc, task, settled>>

(* Mutant: no notification after the push.                                 *)
EnqueueNoNotify ==
  /\ opc = "notify"
  /\ opc' = "open"
  /\ UNCHANGED <<tasks, stop, wpc, task, enqueued, settled>>

(* notify_one, after the mutex has been released, wakes one blocked worker *)
(* if there is one.                                                        *)
EnqueueNotify ==
  /\ opc = "notify"
  /\ \/ Blocked = {} /\ UNCHANGED wpc
     \/ \E w \in Blocked : wpc' = [wpc EXCEPT ![w] = "lock"]
  /\ opc' = "open"
  /\ UNCHANGED <<tasks, stop, task, enqueued, settled>>

DestroyStop ==
  /\ opc = "open"
  /\ stop' = TRUE
  /\ opc' = "stop"
  /\ UNCHANGED <<tasks, wpc, task, enqueued, settled>>

(* Mutant: the destructor wakes one worker instead of all.                 *)
DestroyNotifyOne ==
  /\ opc = "stop"
  /\ \/ Blocked = {} /\ UNCHANGED wpc
     \/ \E w \in Blocked : wpc' = [wpc EXCEPT ![w] = "lock"]
  /\ opc' = "join"
  /\ UNCHANGED <<tasks, stop, task, enqueued, settled>>

DestroyNotify ==
  /\ opc = "stop"
  /\ wpc' = NotifiedAll
  /\ opc' = "join"
  /\ UNCHANGED <<tasks, stop, task, enqueued, settled>>

DestroyJoin ==
  /\ opc = "join"
  /\ \A w \in Workers : wpc[w] = "exit"
  /\ opc' = "gone"
  /\ UNCHANGED <<tasks, stop, wpc, task, enqueued, settled>>

-----------------------------------------------------------------------------
(* A worker, with the mutex held: leave only when there is nothing left to *)
(* do, block, or take the front task and unlock.                           *)

(* Mutant: leave as soon as the pool is stopped.                           *)
LeaveEarly(w) ==
  /\ stop
  /\ wpc' = [wpc EXCEPT ![w] = "exit"]
  /\ UNCHANGED <<tasks, task>>

Leave(w) ==
  /\ stop /\ tasks = <<>>
  /\ wpc' = [wpc EXCEPT ![w] = "exit"]
  /\ UNCHANGED <<tasks, task>>

Block(w) ==
  /\ ~stop /\ tasks = <<>>
  /\ wpc' = [wpc EXCEPT ![w] = "wait"]
  /\ UNCHANGED <<tasks, task>>

(* Mutant: the front task stays in the queue.                              *)
TakeWithoutPop(w) ==
  /\ tasks # <<>>
  /\ task' = [task EXCEPT ![w] = Head(tasks)]
  /\ tasks' = IF Len(tasks) > 1 THEN Tail(tasks) ELSE tasks
  /\ wpc' = [wpc EXCEPT ![w] = "run"]

Take(w) ==
  /\ tasks # <<>>
  /\ task' = [task EXCEPT ![w] = Head(tasks)]
  /\ tasks' = Tail(tasks)
  /\ wpc' = [wpc EXCEPT ![w] = "run"]

Acquire(w) ==
  /\ wpc[w] = "lock"
  /\ Leave(w) \/ Block(w) \/ Take(w)
  /\ UNCHANGED <<stop, opc, enqueued, settled>>

SpuriousWake(w) ==
  /\ w \in Blocked
  /\ wpc' = [wpc EXCEPT ![w] = "lock"]
  /\ UNCHANGED <<tasks, stop, task, opc, enqueued, settled>>

(* The task returns or throws: its future becomes ready either way.        *)
TaskReturn(w) ==
  /\ wpc[w] = "run"
  /\ settled' = settled \cup {task[w]}
  /\ task' = [task EXCEPT ![w] = 0]
  /\ wpc' = [wpc EXCEPT ![w] = "lock"]
  /\ UNCHANGED <<tasks, stop, opc, enqueued>>

PoolNext ==
  \/ \E t \in Tasks : EnqueuePush(t)
  \/ EnqueueNotify \/ DestroyStop \/ DestroyNotify \/ DestroyJoin
  \/ \E w \in Workers : Acquire(w) \/ TaskReturn(w) \/ SpuriousWake(w)

PoolSpec == PoolInit /\ [][PoolNext]_poolVars

(* Workers are scheduled and tasks return; the owner finishes the call it  *)
(* is in.                                                                  *)
PoolFairSpec ==
  /\ PoolSpec
  /\ \A w \in Workers : WF_poolVars(Acquire(w) \/ TaskReturn(w))
  /\ WF_poolVars(EnqueueNotify)
  /\ WF_poolVars(DestroyNotify \/ DestroyJoin)
-----------------------------------------------------------------------------
PoolTypeOK ==
  /\ tasks \in Seq(Tasks)
  /\ stop \in BOOLEAN
  /\ wpc \in [Workers -> {"lock", "wait", "run", "exit"}]
  /\ task \in [Workers -> Tasks \cup {0}]
  /\ opc \in {"open", "notify", "stop", "join", "gone"}
  /\ enqueued \subseteq Tasks
  /\ settled \subseteq Tasks

Queued == {tasks[i] : i \in DOMAIN tasks}
Held == {task[w] : w \in Workers} \ {0}

(* A task is queued once, or held by one worker, or its future is ready:   *)
(* nothing is run twice and nothing a worker saw is lost.                  *)
TaskHeldOnce ==
  /\ \A i, j \in DOMAIN tasks : tasks[i] = tasks[j] => i = j
  /\ \A v, w \in Workers : task[v] = task[w] /\ task[v] # 0 => v = w
  /\ enqueued = Queued \cup Held \cup settled
  /\ Queued \cap Held = {} /\ Queued \cap settled = {} /\ Held \cap settled = {}

(* Destroying the pool abandons no task: jobs that hold references into    *)
(* the caller's frame have all returned when the frame goes.               *)
DrainedWhenGone == opc = "gone" => enqueued = settled

(* Every future becomes ready, whenever the pool is destroyed: no wakeup   *)
(* is lost between the push, the unlocked notify_one and the wait.         *)
FuturesSettle == \A t \in Tasks : t \in enqueued ~> t \in settled

(* The destructor returns. *)
PoolJoins == opc = "join" ~> opc = "gone"
=============================================================================
