--------------------------- MODULE DispatchQueue ---------------------------
(***************************************************************************)
(* The worker threads of the timing analyser (util/DispatchQueue.cc): one  *)
(* queue of operations, one mutex, one condition variable, and an atomic   *)
(* counter the owner spins on.  Bfs.cc, ClkSkew.cc and PathGroup.cc        *)
(* dispatch a batch of operations and call finishTasks before they read    *)
(* what the operations wrote; Sta.cc changes the number of threads.        *)
(*                                                                         *)
(* A stretch of code that holds lock_ is one action: no other stretch that *)
(* holds it can interleave.  What the code does outside the lock           *)
(* (notify_all, running the operation, decrementing the counter, the       *)
(* spinning load, the joins) is an action of its own.                      *)
(*                                                                         *)
(* Operations are numbered in the order they are dispatched.               *)
(***************************************************************************)
EXTENDS Integers, Sequences, FiniteSets

CONSTANTS
  MaxThreads,   \* largest number of threads ever asked for
  MaxTasks,     \* bound: operations the owner dispatches in a run
  MaxResizes    \* bound: calls of setThreadCount in a run

ASSUME ThreadsAssumption == MaxThreads \in Nat \ {0}
ASSUME TasksAssumption == MaxTasks \in Nat
ASSUME ResizesAssumption == MaxResizes \in Nat

VARIABLES
  q,          \* q_: operations not yet taken by a thread
  pending,    \* pending_task_count_
  quit,       \* quit_
  nThreads,   \* threads_.size(); the live threads are 0 .. nThreads - 1
  wpc,        \* where each thread is in dispatch_thread_handler
  op,         \* the operation each thread holds in its local op (0: none)
  cpc,        \* where the owner is
  resizeTo,   \* argument of setThreadCount; 0 stands for the destructor
  dispatched, \* number of operations dispatched so far
  done,       \* how many times each operation has run to completion
  resizes     \* bound: setThreadCount calls so far

vars == <<q, pending, quit, nThreads, wpc, op, cpc, resizeTo, dispatched, done, resizes>>

Threads == 0 .. MaxThreads - 1
Tasks == 1 .. MaxTasks
Live == 0 .. nThreads - 1

(* none: no such thread; lock: about to acquire lock_; wait: blocked in    *)
(* cv_.wait; run: lock released, the operation is executing; ran: it       *)
(* returned, the counter is not yet decremented; exit: the handler has     *)
(* returned, not yet joined.                                               *)
WorkerStates == {"none", "lock", "wait", "run", "ran", "exit"}

OwnerStates == {"idle", "notify", "finish", "quit", "join", "gone"}

Spawned(n) == [w \in Threads |-> IF w < n THEN "lock" ELSE "none"]

Init ==
  /\ q = <<>>
  /\ pending = 0
  /\ quit = FALSE
  /\ nThreads \in 1 .. MaxThreads
  /\ wpc = Spawned(nThreads)
  /\ op = [w \in Threads |-> 0]
  /\ cpc = "idle"
  /\ resizeTo = 0
  /\ dispatched = 0
  /\ done = [t \in Tasks |-> 0]
  /\ resizes = 0

(* notify_all: every thread blocked in the wait must reacquire the lock.   *)
NotifiedAll == [w \in Threads |-> IF wpc[w] = "wait" THEN "lock" ELSE wpc[w]]

-----------------------------------------------------------------------------
(* The owner: the thread that calls the public operations.                 *)

(* Mutant: the counter is not incremented.                                 *)
DispatchPushUncounted ==
  /\ cpc = "idle"
  /\ dispatched < MaxTasks
  /\ dispatched' = dispatched + 1
  /\ q' = Append(q, dispatched + 1)
  /\ cpc' = "notify"
  /\ UNCHANGED <<pending, quit, nThreads, wpc, op, resizeTo, done, resizes>>

DispatchPush ==
  /\ cpc = "idle"
  /\ dispatched < MaxTasks
  /\ dispatched' = dispatched + 1
  /\ q' = Append(q, dispatched + 1)
  /\ pending' = pending + 1
  /\ cpc' = "notify"
  /\ UNCHANGED <<quit, nThreads, wpc, op, resizeTo, done, resizes>>

(* Mutant: no notification after the push.                                 *)
DispatchNoNotify ==
  /\ cpc = "notify"
  /\ cpc' = "idle"
  /\ UNCHANGED <<q, pending, quit, nThreads, wpc, op, resizeTo, dispatched, done, resizes>>

DispatchNotify ==
  /\ cpc = "notify"
  /\ wpc' = NotifiedAll
  /\ cpc' = "idle"
  /\ UNCHANGED <<q, pending, quit, nThreads, op, resizeTo, dispatched, done, resizes>>

FinishCall ==
  /\ cpc = "idle"
  /\ cpc' = "finish"
  /\ UNCHANGED <<q, pending, quit, nThreads, wpc, op, resizeTo, dispatched, done, resizes>>

(* Mutant: wait for an empty queue instead of a zero counter.              *)
FinishReturnOnEmptyQueue ==
  /\ cpc = "finish"
  /\ q = <<>>
  /\ cpc' = "idle"
  /\ UNCHANGED <<q, pending, quit, nThreads, wpc, op, resizeTo, dispatched, done, resizes>>

FinishReturn ==
  /\ cpc = "finish"
  /\ pending = 0
  /\ cpc' = "idle"
  /\ UNCHANGED <<q, pending, quit, nThreads, wpc, op, resizeTo, dispatched, done, resizes>>

(* The first lines of terminateThreads, reached from setThreadCount(n) or  *)
(* (n = 0) from the destructor.                                            *)
SetQuit(n) ==
  /\ cpc = "idle"
  /\ quit' = TRUE
  /\ resizeTo' = n
  /\ cpc' = "quit"
  /\ UNCHANGED <<q, pending, nThreads, wpc, op, dispatched, done>>

SetThreadCountCall ==
  /\ resizes < MaxResizes
  /\ resizes' = resizes + 1
  /\ \E n \in 1 .. MaxThreads : SetQuit(n)

DestroyCall ==
  /\ SetQuit(0)
  /\ UNCHANGED resizes

(* Mutant: quit_ set without waking the threads.                           *)
QuitNoNotify ==
  /\ cpc = "quit"
  /\ cpc' = "join"
  /\ UNCHANGED <<q, pending, quit, nThreads, wpc, op, resizeTo, dispatched, done, resizes>>

QuitNotify ==
  /\ cpc = "quit"
  /\ wpc' = NotifiedAll
  /\ cpc' = "join"
  /\ UNCHANGED <<q, pending, quit, nThreads, op, resizeTo, dispatched, done, resizes>>

(* All threads joined, quit_ reset; setThreadCount starts the new threads  *)
(* on whatever the queue still holds.  A thread not yet started cannot be  *)
(* told from one not yet scheduled, so the spawning loop is one step.      *)
JoinAndRespawn ==
  /\ cpc = "join"
  /\ \A w \in Live : wpc[w] = "exit"
  /\ quit' = FALSE
  /\ nThreads' = resizeTo
  /\ wpc' = Spawned(resizeTo)
  /\ cpc' = IF resizeTo = 0 THEN "gone" ELSE "idle"
  /\ UNCHANGED <<q, pending, op, resizeTo, dispatched, done, resizes>>

-----------------------------------------------------------------------------
(* dispatch_thread_handler.                                                *)

(* With the lock held, at the top of the loop or after an operation: leave *)
(* the loop, block in the wait, or take the front operation and unlock.    *)
LeaveLoop(w) ==
  /\ quit
  /\ wpc' = [wpc EXCEPT ![w] = "exit"]
  /\ UNCHANGED <<q, op>>

Block(w) ==
  /\ ~quit
  /\ q = <<>>
  /\ wpc' = [wpc EXCEPT ![w] = "wait"]
  /\ UNCHANGED <<q, op>>

(* Mutant: the last operation is taken without being popped.               *)
TakeWithoutPop(w) ==
  /\ ~quit
  /\ q # <<>>
  /\ op' = [op EXCEPT ![w] = Head(q)]
  /\ q' = IF Len(q) > 1 THEN Tail(q) ELSE q
  /\ wpc' = [wpc EXCEPT ![w] = "run"]

Take(w) ==
  /\ ~quit
  /\ q # <<>>
  /\ op' = [op EXCEPT ![w] = Head(q)]
  /\ q' = Tail(q)
  /\ wpc' = [wpc EXCEPT ![w] = "run"]

Acquire(w) ==
  /\ wpc[w] = "lock"
  /\ LeaveLoop(w) \/ Block(w) \/ Take(w)
  /\ UNCHANGED <<pending, quit, nThreads, cpc, resizeTo, dispatched, done, resizes>>

(* A condition variable may wake a thread nobody notified; the predicate   *)
(* of the wait is then evaluated again.                                    *)
SpuriousWake(w) ==
  /\ wpc[w] = "wait"
  /\ wpc' = [wpc EXCEPT ![w] = "lock"]
  /\ UNCHANGED <<q, pending, quit, nThreads, op, cpc, resizeTo, dispatched, done, resizes>>

(* op(i) returns. *)
RunOp(w) ==
  /\ wpc[w] = "run"
  /\ done' = [done EXCEPT ![op[w]] = @ + 1]
  /\ wpc' = [wpc EXCEPT ![w] = "ran"]
  /\ UNCHANGED <<q, pending, quit, nThreads, op, cpc, resizeTo, dispatched, resizes>>

(* The atomic decrement, outside the lock. *)
CountDown(w) ==
  /\ wpc[w] = "ran"
  /\ pending' = pending - 1
  /\ op' = [op EXCEPT ![w] = 0]
  /\ wpc' = [wpc EXCEPT ![w] = "lock"]
  /\ UNCHANGED <<q, quit, nThreads, cpc, resizeTo, dispatched, done, resizes>>

Owner ==
  \/ DispatchPush \/ DispatchNotify
  \/ FinishCall \/ FinishReturn
  \/ SetThreadCountCall \/ DestroyCall
  \/ QuitNotify \/ JoinAndRespawn

Worker(w) == Acquire(w) \/ RunOp(w) \/ CountDown(w)

Next == Owner \/ \E w \in Threads : Worker(w) \/ SpuriousWake(w)

(* A thread that can run is eventually scheduled, the lock is eventually   *)
(* granted and an operation returns; the owner, once inside a call, goes   *)
(* on.  Nothing makes the owner call anything, and nothing relies on       *)
(* spurious wakeups.                                                       *)
Fairness ==
  /\ \A w \in Threads : WF_vars(Worker(w))
  /\ WF_vars(DispatchNotify)
  /\ WF_vars(FinishReturn)
  /\ WF_vars(QuitNotify)
  /\ WF_vars(JoinAndRespawn)

Spec == Init /\ [][Next]_vars
FairSpec == Spec /\ Fairness

-----------------------------------------------------------------------------
Busy == {w \in Threads : wpc[w] \in {"run", "ran"}}
Outstanding == {q[i] : i \in 1 .. Len(q)} \cup {op[w] : w \in {v \in Threads : wpc[v] = "run"}}

TypeOK ==
  /\ q \in Seq(Nat \ {0})
  /\ pending \in Nat
  /\ quit \in BOOLEAN
  /\ nThreads \in 0 .. MaxThreads
  /\ wpc \in [Threads -> WorkerStates]
  /\ op \in [Threads -> Nat]
  /\ cpc \in OwnerStates
  /\ resizeTo \in 0 .. MaxThreads
  /\ dispatched \in 0 .. MaxTasks
  /\ done \in [Tasks -> Nat]
  /\ resizes \in 0 .. MaxResizes

(* The counter the owner spins on is the number of operations queued plus  *)
(* the number held by threads, at every instant, across thread restarts:   *)
(* push and increment are under the lock, the decrement is not.            *)
CountExact == pending = Len(q) + Cardinality(Busy)

(* No operation runs twice, is lost while queued or taken by two threads:  *)
(* each one dispatched is queued, in a thread, or has run exactly once     *)
(* (also the ones a terminateThreads left in the queue).                   *)
EachOnce ==
  \A t \in Tasks :
    done[t] = IF t <= dispatched /\ t \notin Outstanding THEN 1 ELSE 0

(* A caller that captured per-thread partial results (ClkSkew, PathGroup,  *)
(* one visitor per index) relies on finishTasks as a barrier: when it      *)
(* returns every operation dispatched so far has run and none is running.  *)
FinishIsBarrier ==
  [][cpc = "finish" /\ cpc' = "idle" =>
       /\ \A t \in 1 .. dispatched : done[t] = 1
       /\ \A w \in Threads : wpc[w] # "run"]_vars

(* finishTasks returns: no wakeup between the push and the wait is lost,   *)
(* and none of the operations left by an earlier terminateThreads is       *)
(* stranded.                                                               *)
FinishReturns == (cpc = "finish") ~> (cpc = "idle")

(* terminateThreads returns: every thread sees quit_, wherever it was when *)
(* the flag was set.                                                       *)
ThreadsJoin == (cpc = "join") ~> (cpc \in {"idle", "gone"})
=============================================================================
