-------------------------- MODULE ThreadPoolProofs --------------------------
(***************************************************************************)
(* Proofs about the thread pool of the power engine, for every number of   *)
(* workers and every set of tasks.                                         *)
(*                                                                         *)
(* TaskHeldOnce is nearly inductive: it says where a task may be (queued,  *)
(* held, settled) but not which workers hold one, nor what a worker that   *)
(* has left implies.  PoolInv adds both: a worker holds a task exactly     *)
(* while it runs it, and once a worker has left, the pool is stopped and   *)
(* the queue is empty for good, since nothing is enqueued after stop.      *)
(***************************************************************************)
EXTENDS ThreadPool, TLAPS

HoldsWhileRunning == \A w \in Workers : task[w] # 0 <=> wpc[w] = "run"

StopMatchesCall == stop <=> opc \in {"stop", "join", "gone"}

LeftMeansDrained == (\E w \in Workers : wpc[w] = "exit") => stop /\ tasks = <<>>

GoneMeansLeft == opc = "gone" => \A w \in Workers : wpc[w] = "exit"

PoolInv ==
  /\ PoolTypeOK
  /\ TaskHeldOnce
  /\ HoldsWhileRunning
  /\ StopMatchesCall
  /\ LeftMeansDrained
  /\ GoneMeansLeft

-----------------------------------------------------------------------------
(* A new pool satisfies the invariant: its workers hold nothing.           *)
LEMMA InitPoolInv == PoolInit => PoolInv
<1> SUFFICES ASSUME PoolInit PROVE PoolInv
  OBVIOUS
<1>1. PoolTypeOK
  <2>1. tasks \in Seq(Tasks) /\ enqueued \subseteq Tasks /\ settled \subseteq Tasks
    BY DEF PoolInit
  <2>2. stop \in BOOLEAN /\ opc \in {"open", "notify", "stop", "join", "gone"}
    BY DEF PoolInit
  <2>3. wpc \in [Workers -> {"lock", "wait", "run", "exit"}] /\ task \in [Workers -> Tasks \cup {0}]
    BY DEF PoolInit
  <2> QED
    BY <2>1, <2>2, <2>3 DEF PoolTypeOK
<1>2. Queued = {} /\ Held = {}
  BY DEF PoolInit, Queued, Held
<1>3. TaskHeldOnce
  BY <1>2 DEF TaskHeldOnce, PoolInit
<1>4. HoldsWhileRunning /\ StopMatchesCall /\ LeftMeansDrained /\ GoneMeansLeft
  BY DEF PoolInit, HoldsWhileRunning, StopMatchesCall, LeftMeansDrained, GoneMeansLeft
<1> QED
  BY <1>1, <1>3, <1>4 DEF PoolInv

(* Appending a task that was never enqueued.                               *)
LEMMA PushStep ==
  ASSUME PoolInv, NEW t \in Tasks, EnqueuePush(t)
  PROVE  PoolInv'
<1> USE DEF PoolInv
<1>1. /\ tasks \in Seq(Tasks) /\ tasks' = Append(tasks, t) /\ t \notin enqueued
      /\ enqueued' = enqueued \cup {t} /\ opc = "open" /\ opc' = "notify"
      /\ UNCHANGED <<stop, wpc, task, settled>>
  BY DEF EnqueuePush, PoolTypeOK
<1>2. PoolTypeOK'
  BY <1>1 DEF PoolTypeOK
<1>3. Queued' = Queued \cup {t} /\ Held' = Held /\ t \notin Queued \cup Held \cup settled
  <2>1. Queued' = Queued \cup {t}
    BY <1>1 DEF Queued
  <2> QED
    BY <2>1, <1>1 DEF TaskHeldOnce, Held
<1>4. \A i, j \in DOMAIN tasks' : tasks'[i] = tasks'[j] => i = j
  <2>1. \A i \in DOMAIN tasks : tasks[i] # t
    BY <1>3 DEF Queued
  <2> QED
    BY <2>1, <1>1 DEF TaskHeldOnce
<1>5. TaskHeldOnce'
  BY <1>1, <1>3, <1>4 DEF TaskHeldOnce
<1>6. (HoldsWhileRunning /\ StopMatchesCall /\ LeftMeansDrained /\ GoneMeansLeft)'
  BY <1>1 DEF HoldsWhileRunning, StopMatchesCall, LeftMeansDrained, GoneMeansLeft
<1> QED
  BY <1>2, <1>5, <1>6

(* A worker takes the front task.                                          *)
LEMMA TakeStep ==
  ASSUME PoolInv, NEW w \in Workers, wpc[w] = "lock", Take(w),
         UNCHANGED <<stop, opc, enqueued, settled>>
  PROVE  PoolInv'
<1> USE DEF PoolInv
<1> DEFINE t == tasks[1]
<1>1. /\ tasks \in Seq(Tasks) /\ tasks # <<>> /\ t \in Tasks /\ tasks' = Tail(tasks)
      /\ task \in [Workers -> Tasks \cup {0}] /\ task' = [task EXCEPT ![w] = t]
      /\ wpc \in [Workers -> {"lock", "wait", "run", "exit"}] /\ wpc' = [wpc EXCEPT ![w] = "run"]
  BY DEF Take, PoolTypeOK
<1>2. t # 0 /\ task[w] = 0 /\ \A v \in Workers : wpc[v] # "exit"
  BY <1>1, PoolAssumption DEF HoldsWhileRunning, LeftMeansDrained
<1>3. PoolTypeOK'
  BY <1>1 DEF PoolTypeOK
<1>4. /\ Queued = Queued' \cup {t} /\ t \notin Queued'
      /\ \A i, j \in DOMAIN tasks' : tasks'[i] = tasks'[j] => i = j
  <2>1. /\ Len(tasks) \in Nat /\ Len(tasks) > 0 /\ DOMAIN tasks = 1 .. Len(tasks)
        /\ DOMAIN tasks' = 1 .. Len(tasks) - 1
        /\ \A i \in DOMAIN tasks' : tasks'[i] = tasks[i + 1]
    BY <1>1
  <2>2. \A i, j \in DOMAIN tasks : tasks[i] = tasks[j] => i = j
    BY DEF TaskHeldOnce
  <2>3. \A i \in DOMAIN tasks' : tasks'[i] # t
    BY <2>1, <2>2
  <2>4. \A i \in DOMAIN tasks : i = 1 \/ (i - 1 \in DOMAIN tasks' /\ tasks[i] = tasks'[i - 1])
    BY <2>1
  <2>5. Queued = Queued' \cup {t}
    BY <2>1, <2>4 DEF Queued
  <2>6. t \notin Queued'
    BY <2>3 DEF Queued
  <2> QED
    BY <2>1, <2>2, <2>5, <2>6
<1>5. Held' = Held \cup {t}
  BY <1>1, <1>2 DEF Held
<1>6. \A u, v \in Workers : task'[u] = task'[v] /\ task'[u] # 0 => u = v
  <2>1. \A v \in Workers : task[v] # t
    BY <1>2, <1>4 DEF TaskHeldOnce, Held
  <2> QED
    BY <1>1, <2>1 DEF TaskHeldOnce
<1>7. TaskHeldOnce'
  BY <1>4, <1>5, <1>6 DEF TaskHeldOnce
<1>8. HoldsWhileRunning'
  BY <1>1, <1>2 DEF HoldsWhileRunning
<1>9. (StopMatchesCall /\ LeftMeansDrained /\ GoneMeansLeft)'
  BY <1>1, <1>2 DEF StopMatchesCall, LeftMeansDrained, GoneMeansLeft
<1> QED
  BY <1>3, <1>7, <1>8, <1>9

(* A task returns and its future becomes ready.                            *)
LEMMA ReturnStep ==
  ASSUME PoolInv, NEW w \in Workers, TaskReturn(w)
  PROVE  PoolInv'
<1> USE DEF PoolInv
<1>1. /\ task \in [Workers -> Tasks \cup {0}] /\ task' = [task EXCEPT ![w] = 0]
      /\ wpc \in [Workers -> {"lock", "wait", "run", "exit"}] /\ wpc' = [wpc EXCEPT ![w] = "lock"]
      /\ wpc[w] = "run" /\ settled' = settled \cup {task[w]}
      /\ UNCHANGED <<tasks, stop, opc, enqueued>>
  BY DEF TaskReturn, PoolTypeOK
<1>2. task[w] # 0 /\ task[w] \in Tasks
  BY <1>1 DEF HoldsWhileRunning
<1>3. PoolTypeOK'
  BY <1>1, <1>2 DEF PoolTypeOK
<1>4. Queued' = Queued /\ Held = Held' \cup {task[w]} /\ task[w] \notin Held'
  <2>1. \A v \in Workers : v # w => task[v] # task[w] /\ task'[v] = task[v]
    BY <1>1, <1>2 DEF TaskHeldOnce
  <2>2. task'[w] = 0
    BY <1>1
  <2> QED
    BY <1>1, <1>2, <2>1, <2>2 DEF Queued, Held
<1>5. \A u, v \in Workers : task'[u] = task'[v] /\ task'[u] # 0 => u = v
  BY <1>1 DEF TaskHeldOnce
<1>6. TaskHeldOnce'
  BY <1>1, <1>4, <1>5 DEF TaskHeldOnce
<1>7. HoldsWhileRunning'
  BY <1>1 DEF HoldsWhileRunning
<1>8. (StopMatchesCall /\ LeftMeansDrained /\ GoneMeansLeft)'
  BY <1>1 DEF StopMatchesCall, LeftMeansDrained, GoneMeansLeft
<1> QED
  BY <1>3, <1>6, <1>7, <1>8

(* A step that moves threads and the owner but no task.                    *)
LEMMA QuietStep ==
  ASSUME PoolInv, UNCHANGED <<tasks, task, enqueued, settled>>,
         stop' \in BOOLEAN, StopMatchesCall',
         opc' \in {"open", "notify", "stop", "join", "gone"},
         wpc' \in [Workers -> {"lock", "wait", "run", "exit"}],
         \A w \in Workers : wpc'[w] = "run" <=> wpc[w] = "run",
         LeftMeansDrained', GoneMeansLeft'
  PROVE  PoolInv'
<1> USE DEF PoolInv
<1>1. PoolTypeOK'
  BY DEF PoolTypeOK
<1>2. TaskHeldOnce'
  <2>1. Queued' = Queued /\ Held' = Held
    BY DEF Queued, Held
  <2> QED
    BY <2>1 DEF TaskHeldOnce
<1>3. HoldsWhileRunning'
  BY DEF HoldsWhileRunning
<1> QED
  BY <1>1, <1>2, <1>3

(* Every call of the owner and every step of a worker keeps it.            *)
LEMMA NextPoolInv == PoolInv /\ [PoolNext]_poolVars => PoolInv'
<1> SUFFICES ASSUME PoolInv, [PoolNext]_poolVars PROVE PoolInv'
  OBVIOUS
<1>0. /\ wpc \in [Workers -> {"lock", "wait", "run", "exit"}] /\ stop \in BOOLEAN
      /\ opc \in {"open", "notify", "stop", "join", "gone"}
  BY DEF PoolInv, PoolTypeOK
<1> USE DEF StopMatchesCall, LeftMeansDrained, GoneMeansLeft
<1>1. ASSUME NEW t \in Tasks, EnqueuePush(t) PROVE PoolInv'
  BY <1>1, PushStep
<1>2. CASE EnqueueNotify
  <2>1. CASE Blocked = {} /\ UNCHANGED wpc
    BY <1>0, <1>2, <2>1, QuietStep DEF EnqueueNotify, PoolInv
  <2>2. ASSUME NEW w \in Blocked, wpc' = [wpc EXCEPT ![w] = "lock"] PROVE PoolInv'
    BY <1>0, <1>2, <2>2, QuietStep DEF EnqueueNotify, Blocked, PoolInv
  <2> QED
    BY <1>2, <2>1, <2>2 DEF EnqueueNotify
<1>3. CASE DestroyStop
  BY <1>0, <1>3, QuietStep DEF DestroyStop, PoolInv
<1>4. CASE DestroyNotify
  <2>1. /\ wpc' \in [Workers -> {"lock", "wait", "run", "exit"}]
        /\ \A w \in Workers : (wpc'[w] = "run" <=> wpc[w] = "run") /\ (wpc'[w] = "exit" <=> wpc[w] = "exit")
    BY <1>0, <1>4 DEF DestroyNotify, NotifiedAll, Blocked
  <2> QED
    BY <1>0, <1>4, <2>1, QuietStep DEF DestroyNotify, PoolInv
<1>5. CASE DestroyJoin
  BY <1>0, <1>5, QuietStep DEF DestroyJoin, PoolInv
<1>6. ASSUME NEW w \in Workers, Acquire(w) PROVE PoolInv'
  <2>0. wpc[w] = "lock" /\ UNCHANGED <<stop, opc, enqueued, settled>>
    BY <1>6 DEF Acquire
  <2>1. CASE Leave(w)
    <3>1. /\ stop /\ tasks = <<>> /\ wpc' = [wpc EXCEPT ![w] = "exit"]
          /\ UNCHANGED <<tasks, task, stop, opc, enqueued, settled>>
      BY <2>0, <2>1 DEF Leave
    <3>2. GoneMeansLeft'
      BY <1>0, <3>1 DEF PoolInv
    <3> QED
      BY <1>0, <2>0, <3>1, <3>2, QuietStep DEF PoolInv
  <2>2. CASE Block(w)
    <3>1. /\ ~stop /\ wpc' = [wpc EXCEPT ![w] = "wait"]
          /\ UNCHANGED <<tasks, task, stop, opc, enqueued, settled>>
      BY <2>0, <2>2 DEF Block
    <3> QED
      BY <1>0, <2>0, <3>1, QuietStep DEF PoolInv
  <2>3. CASE Take(w)
    BY <2>0, <2>3, TakeStep
  <2> QED
    BY <1>6, <2>1, <2>2, <2>3 DEF Acquire
<1>7. ASSUME NEW w \in Workers, TaskReturn(w) PROVE PoolInv'
  BY <1>7, ReturnStep
<1>8. ASSUME NEW w \in Workers, SpuriousWake(w) PROVE PoolInv'
  BY <1>0, <1>8, QuietStep DEF SpuriousWake, Blocked, PoolInv
<1>9. CASE UNCHANGED poolVars
  BY <1>0, <1>9, QuietStep DEF poolVars, PoolInv
<1> QED
  BY <1>1, <1>2, <1>3, <1>4, <1>5, <1>6, <1>7, <1>8, <1>9 DEF PoolNext

(* PoolInv is an inductive invariant of the pool.                          *)
THEOREM PoolInvariance == PoolSpec => []PoolInv
BY InitPoolInv, NextPoolInv, PTL DEF PoolSpec

-----------------------------------------------------------------------------
(* The state has the declared types: no worker runs anything but a task    *)
(* that was enqueued.                                                      *)
THEOREM PoolTypeCorrect == PoolSpec => []PoolTypeOK
<1>1. PoolInv => PoolTypeOK
  BY DEF PoolInv
<1> QED BY <1>1, PoolInvariance, PTL

(* A task enqueued is queued once, or held by one worker, or its future is *)
(* ready (ThreadPool.hh:51-55): none is lost and none runs twice.          *)
THEOREM TasksHeldOnce == PoolSpec => []TaskHeldOnce
<1>1. PoolInv => TaskHeldOnce
  BY DEF PoolInv
<1> QED BY <1>1, PoolInvariance, PTL

(* When the destructor has returned (ThreadPool.hh:86-96) every task that  *)
(* was ever enqueued has run and its future is ready.                      *)
THEOREM DestructorDrains == PoolSpec => []DrainedWhenGone
<1>1. PoolInv => DrainedWhenGone
  <2> SUFFICES ASSUME PoolInv, opc = "gone" PROVE enqueued = settled
    BY DEF DrainedWhenGone
  <2>1. \A w \in Workers : wpc[w] = "exit" /\ task[w] = 0
    BY DEF PoolInv, GoneMeansLeft, HoldsWhileRunning
  <2>2. 1 \in Workers
    BY PoolAssumption DEF Workers
  <2>3. tasks = <<>>
    BY <2>1, <2>2 DEF PoolInv, LeftMeansDrained
  <2>4. Queued = {} /\ Held = {}
    BY <2>1, <2>3 DEF Queued, Held
  <2> QED
    BY <2>4 DEF TaskHeldOnce, PoolInv
<1> QED BY <1>1, PoolInvariance, PTL
=============================================================================
