------------------------ MODULE DispatchQueueProofs ------------------------
(***************************************************************************)
(* Proofs about DispatchQueue for any number of threads, operations and    *)
(* restarts.  CountExact and EachOnce are not inductive alone: they need   *)
(* that a thread index at or past nThreads runs nothing, that the queue    *)
(* holds a contiguous suffix of the operations dispatched, and that what   *)
(* threads run lies before that suffix and is never shared.                *)
(***************************************************************************)
EXTENDS DispatchQueue, FiniteSetTheorems, TLAPS

OnlyLiveRun == \A w \in Threads : w >= nThreads => wpc[w] = "none"

QueueIsSuffix ==
  /\ Len(q) <= dispatched
  /\ \A i \in 1 .. Len(q) : q[i] = dispatched - Len(q) + i

RunningDistinct ==
  \A w \in Threads : wpc[w] = "run" =>
    /\ op[w] \in 1 .. (dispatched - Len(q))
    /\ \A v \in Threads : wpc[v] = "run" /\ op[v] = op[w] => v = w

Running(t) == \E w \in Threads : wpc[w] = "run" /\ op[w] = t

(* EachOnce, with "queued" replaced by "past what the queue has released". *)
RunOnce ==
  \A t \in Tasks :
    done[t] = IF t <= dispatched - Len(q) /\ ~Running(t) THEN 1 ELSE 0

IInv ==
  /\ TypeOK
  /\ CountExact
  /\ OnlyLiveRun
  /\ QueueIsSuffix
  /\ RunningDistinct
  /\ RunOnce

-----------------------------------------------------------------------------
(* Busy is finite, so its cardinality is a number.                         *)
LEMMA BusyFinite == IsFiniteSet(Busy) /\ Cardinality(Busy) \in Nat
<1>1. IsFiniteSet(Threads)
  BY FS_Interval, ThreadsAssumption DEF Threads
<1>2. Busy \in SUBSET Threads
  BY DEF Busy
<1> QED
  BY <1>1, <1>2, FS_Subset, FS_CardinalityType

(* The counter is zero exactly when nothing is queued and no thread holds  *)
(* an operation: what finishTasks concludes from the load.                 *)
LEMMA ZeroMeansIdle ==
  ASSUME TypeOK, CountExact, pending = 0
  PROVE  q = <<>> /\ Busy = {}
<1>1. Len(q) \in Nat /\ (Len(q) = 0 => q = <<>>)
  BY DEF TypeOK
<1>2. Cardinality(Busy) = 0 /\ Len(q) = 0
  BY <1>1, BusyFinite DEF CountExact
<1> QED
  BY <1>1, <1>2, BusyFinite, FS_EmptySet

(* Under the order of the queue, RunOnce and EachOnce say the same.        *)
LEMMA RunOnceIsEachOnce ==
  ASSUME TypeOK, QueueIsSuffix, RunningDistinct, RunOnce
  PROVE  EachOnce
<1> SUFFICES ASSUME NEW t \in Tasks
             PROVE  done[t] = IF t <= dispatched /\ t \notin Outstanding THEN 1 ELSE 0
  BY DEF EachOnce
<1>1. /\ Len(q) \in Nat /\ dispatched \in Nat /\ t \in Nat /\ t > 0
      /\ \A i \in 1 .. Len(q) : q[i] = dispatched - Len(q) + i
  BY TasksAssumption DEF TypeOK, Tasks, QueueIsSuffix
<1>2. (\E i \in 1 .. Len(q) : q[i] = t) <=> (t > dispatched - Len(q) /\ t <= dispatched)
  <2>1. ASSUME t > dispatched - Len(q), t <= dispatched
        PROVE  \E i \in 1 .. Len(q) : q[i] = t
    <3>1. t - (dispatched - Len(q)) \in 1 .. Len(q)
      BY <1>1, <2>1
    <3>2. q[t - (dispatched - Len(q))] = t
      BY <1>1, <3>1
    <3> QED BY <3>1, <3>2
  <2>2. ASSUME NEW i \in 1 .. Len(q), q[i] = t
        PROVE  t > dispatched - Len(q) /\ t <= dispatched
    BY <1>1, <2>2
  <2> QED BY <2>1, <2>2
<1>3. t \in Outstanding <=> (\E i \in 1 .. Len(q) : q[i] = t) \/ Running(t)
  BY DEF Outstanding, Running
<1>4. Running(t) => t <= dispatched - Len(q)
  BY DEF Running, RunningDistinct
<1> QED
  BY <1>1, <1>2, <1>3, <1>4 DEF RunOnce

-----------------------------------------------------------------------------
(* A new queue satisfies the invariant: its workers exist, none holds a    *)
(* task and nothing is counted.                                            *)
LEMMA InitIInv == Init => IInv
<1> SUFFICES ASSUME Init PROVE IInv
  OBVIOUS
<1> USE ThreadsAssumption, TasksAssumption, ResizesAssumption DEF Init
<1>1. TypeOK
  <2>1. wpc \in [Threads -> WorkerStates]
    BY DEF Spawned, WorkerStates
  <2>2. op \in [Threads -> Nat] /\ done \in [Tasks -> Nat]
    OBVIOUS
  <2>3. q \in Seq(Nat \ {0})
    OBVIOUS
  <2>4. cpc \in OwnerStates
    BY DEF OwnerStates
  <2>5. /\ pending \in Nat /\ nThreads \in 0 .. MaxThreads
        /\ resizeTo \in 0 .. MaxThreads /\ dispatched \in 0 .. MaxTasks
        /\ resizes \in 0 .. MaxResizes
    BY ThreadsAssumption, TasksAssumption, ResizesAssumption
  <2>6. quit \in BOOLEAN
    OBVIOUS
  <2> HIDE DEF Init
  <2> QED BY <2>1, <2>2, <2>3, <2>4, <2>5, <2>6 DEF TypeOK
<1>2. \A w \in Threads : wpc[w] \in {"lock", "none"} /\ (w >= nThreads => wpc[w] = "none")
  BY DEF Spawned, Threads
<1>3. Busy = {}
  BY <1>2 DEF Busy
<1>4. CountExact
  BY <1>3, FS_EmptySet DEF CountExact
<1> QED
  BY <1>1, <1>2, <1>4
     DEF IInv, OnlyLiveRun, QueueIsSuffix, RunningDistinct, RunOnce, Running, Tasks

(* What a step that only moves threads between states that hold no         *)
(* operation, or changes only the owner, leaves alone.                     *)
LEMMA NotRunningStep ==
  ASSUME IInv, UNCHANGED <<q, pending, op, dispatched, done>>,
         wpc' \in [Threads -> WorkerStates],
         \A w \in Threads : (wpc[w] \in {"run", "ran"} \/ wpc'[w] \in {"run", "ran"})
                              => wpc'[w] = wpc[w]
  PROVE  CountExact' /\ QueueIsSuffix' /\ RunningDistinct' /\ RunOnce'
<1> USE DEF IInv
<1>1. Busy' = Busy
  BY DEF Busy
<1>2. CountExact'
  BY <1>1 DEF CountExact
<1>3. QueueIsSuffix'
  BY DEF QueueIsSuffix
<1>4. \A w \in Threads : wpc'[w] = "run" <=> wpc[w] = "run"
  OBVIOUS
<1>5. RunningDistinct'
  BY <1>4 DEF RunningDistinct
<1>6. \A t : Running(t)' <=> Running(t)
  BY <1>4 DEF Running
<1>7. RunOnce'
  BY <1>6 DEF RunOnce
<1> QED BY <1>2, <1>3, <1>5, <1>7

(* Every stretch of code under the queue's lock, and every task that       *)
(* returns, keeps the invariant.                                           *)
LEMMA NextIInv == IInv /\ [Next]_vars => IInv'
<1> SUFFICES ASSUME IInv, [Next]_vars PROVE IInv'
  OBVIOUS
<1> USE ThreadsAssumption, TasksAssumption, ResizesAssumption DEF IInv
<1>1. CASE DispatchPush
  <2> USE <1>1 DEF DispatchPush
  <2>1. TypeOK'
    BY DEF TypeOK, WorkerStates, OwnerStates
  <2>2. /\ Len(q) \in Nat /\ Len(q') = Len(q) + 1 /\ dispatched \in Nat
        /\ \A i \in 1 .. Len(q) : q'[i] = q[i]
        /\ q'[Len(q) + 1] = dispatched + 1
    BY DEF TypeOK
  <2>3. CountExact'
    <3>1. Busy' = Busy
      BY DEF Busy
    <3> QED BY <2>2, <3>1, BusyFinite DEF CountExact, TypeOK
  <2>4. QueueIsSuffix'
    <3>1. Len(q') <= dispatched'
      BY <2>2 DEF QueueIsSuffix
    <3>2. ASSUME NEW i \in 1 .. Len(q')
          PROVE  q'[i] = dispatched' - Len(q') + i
      <4>1. CASE i = Len(q) + 1
        BY <2>2, <4>1
      <4>2. CASE i \in 1 .. Len(q)
        BY <2>2, <4>2 DEF QueueIsSuffix
      <4> QED BY <2>2, <4>1, <4>2
    <3> QED BY <3>1, <3>2 DEF QueueIsSuffix
  <2>5. dispatched' - Len(q') = dispatched - Len(q)
    BY <2>2
  <2>6. RunningDistinct'
    BY <2>5 DEF RunningDistinct
  <2>7. RunOnce'
    BY <2>5 DEF RunOnce, Running
  <2>8. OnlyLiveRun'
    BY DEF OnlyLiveRun
  <2> QED BY <2>1, <2>3, <2>4, <2>6, <2>7, <2>8
<1>2. ASSUME NEW w \in Threads, wpc[w] = "lock", Take(w), 
             UNCHANGED <<pending, quit, nThreads, cpc, resizeTo, dispatched, done, resizes>>
      PROVE  IInv'
  <2> USE <1>2 DEF Take
  <2>1. /\ Len(q) \in Nat /\ Len(q) > 0 /\ Len(q') = Len(q) - 1 /\ dispatched \in Nat
        /\ \A i \in 1 .. Len(q') : q'[i] = q[i + 1]
        /\ Head(q) = q[1]
        /\ Head(q) \in Nat \ {0}
        /\ q' \in Seq(Nat \ {0})
    BY DEF TypeOK
  <2>2. TypeOK'
    BY <2>1 DEF TypeOK, WorkerStates
  <2>3. /\ wpc' \in [Threads -> WorkerStates]
        /\ wpc'[w] = "run" /\ op'[w] = Head(q)
        /\ \A v \in Threads \ {w} : wpc'[v] = wpc[v] /\ op'[v] = op[v]
    BY <2>2 DEF TypeOK
  <2>4. CountExact'
    <3>1. Busy' = Busy \cup {w} /\ w \notin Busy
      BY <2>3 DEF Busy
    <3>2. Cardinality(Busy') = Cardinality(Busy) + 1
      BY <3>1, BusyFinite, FS_AddElement
    <3> QED BY <2>1, <3>2, BusyFinite DEF CountExact, TypeOK
  <2>5. Head(q) = dispatched - Len(q) + 1 /\ Len(q) <= dispatched
    BY <2>1 DEF QueueIsSuffix
  <2>6. QueueIsSuffix'
    BY <2>1, <2>5 DEF QueueIsSuffix
  <2>7. dispatched' - Len(q') = dispatched - Len(q) + 1
    BY <2>1
  <2>8. RunningDistinct'
    <3>1. ASSUME NEW v \in Threads, v # w, wpc'[v] = "run"
          PROVE  /\ op'[v] \in 1 .. (dispatched - Len(q))
                 /\ \A u \in Threads : u # w /\ wpc'[u] = "run" /\ op'[u] = op'[v] => u = v
      BY <2>3, <3>1 DEF RunningDistinct
    <3>2. op'[w] \in 1 .. (dispatched - Len(q) + 1) /\ op'[w] \notin 1 .. (dispatched - Len(q))
      BY <2>1, <2>3, <2>5
    <3>3. \A v \in Threads : wpc'[v] = "run" =>
            /\ op'[v] \in 1 .. (dispatched - Len(q) + 1)
            /\ \A u \in Threads : wpc'[u] = "run" /\ op'[u] = op'[v] => u = v
      BY <2>1, <3>1, <3>2
    <3> QED BY <2>7, <3>3 DEF RunningDistinct
  <2>9. RunOnce'
    <3> SUFFICES ASSUME NEW t \in Tasks
                 PROVE  done[t] = IF t <= dispatched - Len(q) + 1 /\ ~Running(t)' THEN 1 ELSE 0
      BY <2>7 DEF RunOnce
    <3>1. Running(t)' <=> Running(t) \/ t = Head(q)
      BY <2>3 DEF Running
    <3>2. t \in Nat /\ dispatched - Len(q) \in Int
      BY <2>1 DEF Tasks
    <3>3. Running(t) => t <= dispatched - Len(q)
      BY DEF Running, RunningDistinct
    <3> QED BY <2>5, <3>1, <3>2, <3>3 DEF RunOnce
  <2>10. OnlyLiveRun'
    BY <2>3 DEF OnlyLiveRun
  <2> QED BY <2>2, <2>4, <2>6, <2>8, <2>9, <2>10
<1>3. ASSUME NEW w \in Threads, RunOp(w)
      PROVE  IInv'
  <2> USE <1>3 DEF RunOp
  <2>1. TypeOK'
    <3>1. wpc' \in [Threads -> WorkerStates]
      BY DEF TypeOK, WorkerStates
    <3>2. done' \in [Tasks -> Nat]
      <4>1. op[w] \in Tasks
        BY DEF RunningDistinct, Tasks, TypeOK
      <4> QED BY <4>1 DEF TypeOK
    <3> QED BY <3>1, <3>2 DEF TypeOK
  <2>2. /\ wpc'[w] = "ran" /\ op' = op
        /\ \A v \in Threads \ {w} : wpc'[v] = wpc[v]
    BY DEF TypeOK
  <2>3. CountExact'
    <3>1. Busy' = Busy
      BY <2>2 DEF Busy
    <3> QED BY <3>1 DEF CountExact
  <2>4. QueueIsSuffix'
    BY DEF QueueIsSuffix
  <2>5. RunningDistinct'
    BY <2>2 DEF RunningDistinct
  <2>6. RunOnce'
    <3> SUFFICES ASSUME NEW t \in Tasks
                 PROVE  done'[t] = IF t <= dispatched - Len(q) /\ ~Running(t)' THEN 1 ELSE 0
      BY DEF RunOnce
    <3>1. Running(t)' <=> Running(t) /\ t # op[w]
      BY <2>2 DEF Running, RunningDistinct
    <3>2. done'[t] = IF t = op[w] THEN done[t] + 1 ELSE done[t]
      BY DEF TypeOK
    <3>3. CASE t = op[w]
      <4>1. Running(t) /\ t <= dispatched - Len(q)
        BY <3>3 DEF Running, RunningDistinct
      <4>2. done[t] = 0
        BY <4>1 DEF RunOnce
      <4> QED BY <3>1, <3>2, <3>3, <4>1, <4>2
    <3>4. CASE t # op[w]
      BY <3>1, <3>2, <3>4 DEF RunOnce
    <3> QED BY <3>3, <3>4
  <2>7. OnlyLiveRun'
    BY <2>2 DEF OnlyLiveRun
  <2> QED BY <2>1, <2>3, <2>4, <2>5, <2>6, <2>7
<1>4. ASSUME NEW w \in Threads, CountDown(w)
      PROVE  IInv'
  <2> USE <1>4 DEF CountDown
  <2>1. /\ wpc'[w] = "lock" /\ wpc' \in [Threads -> WorkerStates]
        /\ \A v \in Threads \ {w} : wpc'[v] = wpc[v] /\ op'[v] = op[v]
    BY DEF TypeOK, WorkerStates
  <2>2. /\ Cardinality(Busy') = Cardinality(Busy) - 1
        /\ Cardinality(Busy) > 0
    <3>1. Busy' = Busy \ {w} /\ w \in Busy
      BY <2>1 DEF Busy
    <3>2. Cardinality(Busy') = Cardinality(Busy) - 1 
      BY <3>1, BusyFinite, FS_RemoveElement
    <3>3. Cardinality(Busy) # 0
      BY <3>1, BusyFinite, FS_EmptySet
    <3> QED BY <3>2, <3>3, BusyFinite
  <2>3. pending - 1 \in Nat
    <3>1. Len(q) \in Nat
      BY DEF TypeOK
    <3> QED BY <2>2, <3>1, BusyFinite DEF CountExact, TypeOK
  <2>4. TypeOK'
    BY <2>1, <2>3 DEF TypeOK
  <2>5. CountExact'
    <3>1. Len(q) \in Nat
      BY DEF TypeOK
    <3> QED BY <2>2, <3>1, BusyFinite DEF CountExact, TypeOK
  <2>6. QueueIsSuffix'
    BY DEF QueueIsSuffix
  <2>7. RunningDistinct'
    BY <2>1 DEF RunningDistinct
  <2>8. \A t : Running(t)' <=> Running(t)
    BY <2>1 DEF Running
  <2>9. RunOnce'
    BY <2>8 DEF RunOnce
  <2>10. OnlyLiveRun'
    BY <2>1 DEF OnlyLiveRun
  <2> QED BY <2>4, <2>5, <2>6, <2>7, <2>9, <2>10
<1>5. CASE JoinAndRespawn
  <2> USE <1>5 DEF JoinAndRespawn
  <2>1. TypeOK'
    BY DEF TypeOK, Spawned, WorkerStates, OwnerStates, Threads
  <2>2. \A w \in Threads : wpc[w] \in {"exit", "none"} /\ wpc'[w] \in {"lock", "none"}
    BY DEF OnlyLiveRun, Live, Threads, Spawned, TypeOK
  <2>3. OnlyLiveRun'
    <3> SUFFICES ASSUME NEW w \in Threads, w >= nThreads'
                 PROVE  wpc'[w] = "none"
      BY DEF OnlyLiveRun
    <3>1. w \in Int /\ resizeTo \in Int /\ ~(w < resizeTo)
      BY DEF Threads, TypeOK
    <3> QED BY <3>1 DEF Spawned
  <2>4. wpc' \in [Threads -> WorkerStates]
    BY <2>1 DEF TypeOK
  <2> QED BY <2>1, <2>2, <2>3, <2>4, NotRunningStep
<1>6. ASSUME wpc' = NotifiedAll,
             UNCHANGED <<q, pending, quit, nThreads, op, resizeTo, dispatched, done, resizes>>,
             cpc' \in OwnerStates
      PROVE  IInv'
  <2>1. TypeOK' /\ wpc' \in [Threads -> WorkerStates]
    BY <1>6 DEF TypeOK, NotifiedAll, WorkerStates
  <2>2. \A w \in Threads : wpc'[w] = IF wpc[w] = "wait" THEN "lock" ELSE wpc[w]
    BY <1>6 DEF NotifiedAll
  <2>3. OnlyLiveRun'
    BY <1>6, <2>2 DEF OnlyLiveRun
  <2>4. CountExact' /\ QueueIsSuffix' /\ RunningDistinct' /\ RunOnce'
    BY <1>6, <2>1, <2>2, NotRunningStep
  <2> QED BY <2>1, <2>3, <2>4
<1>7. ASSUME UNCHANGED <<q, pending, nThreads, wpc, op, dispatched, done>>,
             quit' \in BOOLEAN, cpc' \in OwnerStates, resizeTo' \in 0 .. MaxThreads,
             resizes' \in 0 .. MaxResizes
      PROVE  IInv'
  <2>1. TypeOK' /\ wpc' \in [Threads -> WorkerStates]
    BY <1>7 DEF TypeOK
  <2>2. OnlyLiveRun'
    BY <1>7 DEF OnlyLiveRun
  <2>3. CountExact' /\ QueueIsSuffix' /\ RunningDistinct' /\ RunOnce'
    BY <1>7, <2>1, NotRunningStep
  <2> QED BY <2>1, <2>2, <2>3
<1>8. ASSUME NEW w \in Threads, wpc[w] \in {"lock", "wait"},
             NEW s \in {"lock", "wait", "exit"}, wpc' = [wpc EXCEPT ![w] = s],
             UNCHANGED <<q, pending, quit, nThreads, op, cpc, resizeTo, dispatched, done, resizes>>
      PROVE  IInv'
  <2>1. TypeOK' /\ wpc' \in [Threads -> WorkerStates]
    BY <1>8 DEF TypeOK, WorkerStates
  <2>2. wpc'[w] = s /\ \A v \in Threads \ {w} : wpc'[v] = wpc[v]
    BY <1>8 DEF TypeOK
  <2>3. OnlyLiveRun'
    BY <1>8, <2>2 DEF OnlyLiveRun
  <2>4. CountExact' /\ QueueIsSuffix' /\ RunningDistinct' /\ RunOnce'
    BY <1>8, <2>1, <2>2, NotRunningStep
  <2> QED BY <2>1, <2>3, <2>4
<1>9. CASE DispatchNotify \/ QuitNotify
  BY <1>6, <1>9 DEF DispatchNotify, QuitNotify, OwnerStates
<1>10. CASE FinishCall \/ FinishReturn \/ UNCHANGED vars
  BY <1>7, <1>10 DEF FinishCall, FinishReturn, vars, OwnerStates, TypeOK
<1>11. CASE SetThreadCountCall \/ DestroyCall
  <2>1. PICK n \in 0 .. MaxThreads : SetQuit(n) /\ (resizes' = resizes \/ (resizes' = resizes + 1 /\ resizes < MaxResizes))
    <3>1. CASE SetThreadCountCall
      BY <3>1 DEF SetThreadCountCall
    <3>2. CASE DestroyCall
      BY <3>2, ThreadsAssumption DEF DestroyCall
    <3> QED BY <1>11, <3>1, <3>2
  <2>2. /\ UNCHANGED <<q, pending, nThreads, wpc, op, dispatched, done>>
        /\ quit' \in BOOLEAN /\ cpc' \in OwnerStates
        /\ resizeTo' \in 0 .. MaxThreads /\ resizes' \in 0 .. MaxResizes
    BY <2>1 DEF SetQuit, OwnerStates, TypeOK
  <2> QED BY <1>7, <2>2
<1>12. ASSUME NEW w \in Threads, Acquire(w)
       PROVE  IInv'
  <2>1. CASE LeaveLoop(w)
    BY <1>8, <1>12, <2>1 DEF Acquire, LeaveLoop
  <2>2. CASE Block(w)
    BY <1>8, <1>12, <2>2 DEF Acquire, Block
  <2>3. CASE Take(w)
    BY <1>2, <1>12, <2>3 DEF Acquire
  <2> QED BY <1>12, <2>1, <2>2, <2>3 DEF Acquire
<1>13. ASSUME NEW w \in Threads, SpuriousWake(w)
       PROVE  IInv'
  BY <1>8, <1>13 DEF SpuriousWake
<1> QED
  BY <1>1, <1>3, <1>4, <1>5, <1>9, <1>10, <1>11, <1>12, <1>13 DEF Next, Owner, Worker

(* IInv is an inductive invariant of DispatchQueue.cc: where each task is, *)
(* what unfinished counts, and what finishTasks waits for.                 *)
THEOREM Invariance == Spec => []IInv
BY InitIInv, NextIInv, PTL DEF Spec

-----------------------------------------------------------------------------
(* The state has the declared types; in particular the unsigned counter    *)
(* pending_task_count_ never goes below zero.                              *)
THEOREM TypeCorrect == Spec => []TypeOK
<1>1. IInv => TypeOK
  BY DEF IInv
<1> QED BY <1>1, Invariance, PTL

(* pending_task_count_ counts the operations queued and in threads.        *)
THEOREM CounterCorrect == Spec => []CountExact
<1>1. IInv => CountExact
  BY DEF IInv
<1> QED BY <1>1, Invariance, PTL

(* Every operation dispatched runs exactly once or is still outstanding.   *)
THEOREM TasksRunOnce == Spec => []EachOnce
<1>1. IInv => EachOnce
  BY RunOnceIsEachOnce DEF IInv
<1> QED BY <1>1, Invariance, PTL

(* When finishTasks returns, everything dispatched has run.                *)
THEOREM BarrierCorrect == Spec => FinishIsBarrier
<1> DEFINE Barrier ==
      cpc = "finish" /\ cpc' = "idle" =>
        /\ \A t \in 1 .. dispatched : done[t] = 1
        /\ \A w \in Threads : wpc[w] # "run"
<1>1. ASSUME IInv, [Next]_vars PROVE [Barrier]_vars
  <2> SUFFICES ASSUME cpc = "finish", cpc' = "idle"
               PROVE  /\ \A t \in 1 .. dispatched : done[t] = 1
                      /\ \A w \in Threads : wpc[w] # "run"
    OBVIOUS
  <2>1. pending = 0
    BY <1>1 DEF Next, Owner, Worker, vars, DispatchPush, DispatchNotify, FinishCall,
       FinishReturn, SetThreadCountCall, DestroyCall, SetQuit, QuitNotify, JoinAndRespawn,
       Acquire, LeaveLoop, Block, Take, RunOp, CountDown, SpuriousWake
  <2>2. q = <<>> /\ Busy = {}
    BY <1>1, <2>1, ZeroMeansIdle DEF IInv
  <2>3. \A w \in Threads : wpc[w] # "run"
    BY <2>2 DEF Busy
  <2>4. Len(q) = 0 /\ dispatched \in Nat /\ dispatched <= MaxTasks
    BY <1>1, <2>2, TasksAssumption DEF IInv, TypeOK
  <2>5. ASSUME NEW t \in 1 .. dispatched PROVE done[t] = 1
    <3>1. t \in Tasks /\ t <= dispatched - Len(q)
      BY <2>4, TasksAssumption DEF Tasks
    <3>2. ~Running(t)
      BY <2>3 DEF Running
    <3> QED BY <1>1, <3>1, <3>2 DEF IInv, RunOnce
  <2> QED BY <2>3, <2>5
<1> QED BY <1>1, Invariance, PTL DEF Spec, FinishIsBarrier
=============================================================================
