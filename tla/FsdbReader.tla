----------------------------- MODULE FsdbReader -----------------------------
(***************************************************************************)
(* The multi-threaded waveform reader (power/FsdbReader.cc): one job per   *)
(* thread of a ThreadPool, each with a range of the variables and a file   *)
(* handle of its own.  A job makes its variables under make_var_mtx_,      *)
(* reports ready, waits for all_threads_make_var_ready_, and only then     *)
(* reads the value changes, counting them per clock cycle in a vector of   *)
(* its own.  The main thread polls the ready count, raises the flag, sorts *)
(* the variables, notifies, waits for the futures, adds the counts up,     *)
(* lets the pool go and cuts the time into intervals for the GPU rounds.   *)
(***************************************************************************)
EXTENDS ThreadPool, SequencesExt

CONSTANTS
  NVars,       \* n_var_: unique variables, numbered from 1
  Named,       \* variables var_id_to_names_map_ has a name for
  Workloads,   \* the files considered: change times of each variable
  RawMax,      \* last time in the file
  Period,      \* vcd_time_unit_per_cycle_
  MaxEvents    \* max_event_num, the event budget of an interval

Vars == 1 .. NVars
Jobs == 1 .. PoolThreads

ASSUME ReaderAssumption ==
  /\ Tasks = Jobs
  /\ NVars \in Nat /\ Named \subseteq Vars
  /\ RawMax \in Nat \ {0} /\ Period \in Nat \ {0} /\ MaxEvents \in Nat \ {0}
  /\ \A wl \in Workloads : wl \in [Vars -> SUBSET (0 .. RawMax)]

VARIABLES
  changes,    \* the file read: the times each variable changes at
  main,       \* where the main thread is
  made,       \* variables in vcd_
  sorted,     \* sortVarsById has returned
  nReady,     \* n_make_var_ready_thread_
  allReady,   \* all_threads_make_var_ready_
  jpc,        \* where each job is in readVarChanges
  nextVar,    \* var_id of each job's loop
  counts,     \* per_threads_cyc_idx_to_n_event
  merged,     \* t_id of the merge loop: the jobs added up so far
  total,      \* cyc_idx_to_n_event
  cycle,      \* timeSlicing's loop: the next cycle,
  startCycle, \* the cycle the open interval starts with,
  acc,        \* and the events in it so far
  intervals   \* what is passed to setTimeIntervals

jobVars == <<made, nReady, jpc, nextVar, counts>>
mergeVars == <<merged, total>>
sliceVars == <<cycle, startCycle, acc, intervals>>
vars == <<poolVars, changes, main, sorted, allReady, jobVars, mergeVars, sliceVars>>

(* setMaxTime(): an incomplete last cycle is ignored, unless there is no   *)
(* complete one.                                                           *)
TimeMax == IF RawMax \div Period > 0 THEN (RawMax \div Period) * Period ELSE RawMax
NCycle == (TimeMax + Period - 1) \div Period
Cycles == 0 .. NCycle - 1

(* The range of variables job j handles: the first n_var_ % threads jobs   *)
(* get one more.                                                           *)
Base == NVars \div PoolThreads
Remainder == NVars % PoolThreads

(* Mutant: every job gets one more.                                        *)
StartVarWide(j) == (j - 1) * (Base + 1) + 1
StartVar(j) == (j - 1) * Base + (IF j - 1 < Remainder THEN j - 1 ELSE Remainder) + 1
EndVar(j) == StartVar(j + 1) - 1

NoCounts == [c \in Cycles |-> 0]

Init ==
  /\ PoolInit
  /\ changes \in Workloads
  /\ main = "launch"
  /\ made = {}
  /\ sorted = FALSE
  /\ nReady = 0
  /\ allReady = FALSE
  /\ jpc = [j \in Jobs |-> "make"]
  /\ nextVar = [j \in Jobs |-> StartVar(j)]
  /\ counts = [j \in Jobs |-> NoCounts]
  /\ merged = 0
  /\ total = NoCounts
  /\ cycle = 0 /\ startCycle = 0 /\ acc = 0
  /\ intervals = <<>>

-----------------------------------------------------------------------------
(* A job, run by the worker that took it. *)

Runs(w, j) == wpc[w] = "run" /\ task[w] = j

MakeVar(j) ==
  /\ jpc[j] = "make"
  /\ nextVar[j] <= EndVar(j)
  /\ made' = made \cup ({nextVar[j]} \cap Named)
  /\ nextVar' = [nextVar EXCEPT ![j] = @ + 1]
  /\ UNCHANGED <<nReady, jpc, counts>>

(* Mutant: the job reports ready before it has made its last variable.     *)
ReportReadyEarly(j) ==
  /\ jpc[j] = "make"
  /\ nextVar[j] >= EndVar(j)
  /\ nReady' = nReady + 1
  /\ jpc' = [jpc EXCEPT ![j] = "barrier"]
  /\ UNCHANGED <<made, nextVar, counts>>

ReportReady(j) ==
  /\ jpc[j] = "make"
  /\ nextVar[j] > EndVar(j)
  /\ nReady' = nReady + 1
  /\ jpc' = [jpc EXCEPT ![j] = "barrier"]
  /\ UNCHANGED <<made, nextVar, counts>>

(* make_var_cv_.wait evaluates its predicate with the lock held: the flag  *)
(* alone decides, not a notification.                                      *)
Barrier(j) ==
  /\ jpc[j] = "barrier"
  /\ jpc' = [jpc EXCEPT ![j] = IF allReady THEN "read" ELSE "blocked"]
  /\ nextVar' = [nextVar EXCEPT ![j] = IF allReady THEN StartVar(j) ELSE @]
  /\ UNCHANGED <<made, nReady, counts>>

WakeUp(j) ==
  /\ jpc[j] = "blocked"
  /\ jpc' = [jpc EXCEPT ![j] = "barrier"]
  /\ UNCHANGED <<made, nReady, nextVar, counts>>

(* The changes of one variable, up to timeMax, each counted in its cycle:  *)
(* as one, where the code counts the bits of a bus.                        *)
ReadVar(j) ==
  /\ jpc[j] = "read"
  /\ nextVar[j] <= EndVar(j)
  /\ LET v == nextVar[j]
         read == IF v \in Named THEN {t \in changes[v] : t < TimeMax} ELSE {}
     IN  counts' = [counts EXCEPT ![j] =
                      [c \in Cycles |-> @[c] + Cardinality({t \in read : t \div Period = c})]]
  /\ nextVar' = [nextVar EXCEPT ![j] = @ + 1]
  /\ UNCHANGED <<made, nReady, jpc>>

JobStep(w) ==
  \E j \in Jobs :
    /\ Runs(w, j)
    /\ MakeVar(j) \/ ReportReady(j) \/ Barrier(j) \/ ReadVar(j)
    /\ UNCHANGED <<poolVars, changes, main, sorted, allReady, mergeVars, sliceVars>>

SpuriousWakeUp(w) ==
  \E j \in Jobs :
    /\ Runs(w, j)
    /\ WakeUp(j)
    /\ UNCHANGED <<poolVars, changes, main, sorted, allReady, mergeVars, sliceVars>>

JobReturn(w) ==
  \E j \in Jobs :
    /\ Runs(w, j)
    /\ jpc[j] = "read" /\ nextVar[j] > EndVar(j)
    /\ TaskReturn(w)
    /\ UNCHANGED <<changes, main, sorted, allReady, jobVars, mergeVars, sliceVars>>

PoolStep(w) ==
  /\ Acquire(w)
  /\ UNCHANGED <<changes, main, sorted, allReady, jobVars, mergeVars, sliceVars>>

SpuriousPoolWake(w) ==
  /\ SpuriousWake(w)
  /\ UNCHANGED <<changes, main, sorted, allReady, jobVars, mergeVars, sliceVars>>

-----------------------------------------------------------------------------
(* The main thread, read(). *)

Launch ==
  /\ main = "launch"
  /\ \E j \in Jobs : enqueued = 1 .. j - 1 /\ EnqueuePush(j)
  /\ UNCHANGED <<changes, main, sorted, allReady, jobVars, mergeVars, sliceVars>>

LaunchNotify ==
  /\ main = "launch"
  /\ EnqueueNotify
  /\ main' = IF enqueued = Jobs THEN "poll" ELSE "launch"
  /\ UNCHANGED <<changes, sorted, allReady, jobVars, mergeVars, sliceVars>>

(* One turn of the polling loop that finds every job ready. *)
Poll ==
  /\ main = "poll"
  /\ nReady = PoolThreads
  /\ allReady' = TRUE
  /\ main' = "sort"
  /\ UNCHANGED <<poolVars, changes, sorted, jobVars, mergeVars, sliceVars>>

Sort ==
  /\ main = "sort"
  /\ sorted' = TRUE
  /\ main' = "notify"
  /\ UNCHANGED <<poolVars, changes, allReady, jobVars, mergeVars, sliceVars>>

(* Mutant: no notify_all after the sort.                                   *)
ReleaseNoNotify ==
  /\ main = "notify"
  /\ main' = "wait"
  /\ UNCHANGED <<poolVars, changes, sorted, allReady, jobVars, mergeVars, sliceVars>>

Release ==
  /\ main = "notify"
  /\ jpc' = [j \in Jobs |-> IF jpc[j] = "blocked" THEN "barrier" ELSE jpc[j]]
  /\ main' = "wait"
  /\ UNCHANGED <<poolVars, changes, sorted, allReady, made, nReady, nextVar, counts, mergeVars, sliceVars>>

AddCounts(j) == total' = [c \in Cycles |-> total[c] + counts[j][c]]

(* Mutant: one future is waited for.                                       *)
MergeEarly ==
  /\ main = "wait"
  /\ PoolThreads \in settled
  /\ merged' = merged + 1
  /\ AddCounts(merged + 1)
  /\ main' = IF merged + 1 = PoolThreads THEN "destroy" ELSE "wait"
  /\ UNCHANGED <<poolVars, changes, sorted, allReady, jobVars, sliceVars>>

(* All futures ready; the counts of the next job are added up. *)
Merge ==
  /\ main = "wait"
  /\ settled = Jobs
  /\ merged' = merged + 1
  /\ AddCounts(merged + 1)
  /\ main' = IF merged + 1 = PoolThreads THEN "destroy" ELSE "wait"
  /\ UNCHANGED <<poolVars, changes, sorted, allReady, jobVars, sliceVars>>

Destroy ==
  /\ main = "destroy"
  /\ DestroyStop \/ DestroyNotify \/ DestroyJoin
  /\ UNCHANGED <<changes, main, sorted, allReady, jobVars, mergeVars, sliceVars>>

(* timeSlicing(), after the pool has gone: an interval is closed after the *)
(* cycle that brings its events to the budget.                             *)
SliceCycle ==
  /\ main = "destroy" /\ opc = "gone"
  /\ cycle < NCycle
  /\ LET n == acc + total[cycle]
     IN  IF n >= MaxEvents
           THEN /\ intervals' = Append(intervals, <<startCycle * Period, (cycle + 1) * Period>>)
                /\ startCycle' = cycle + 1
                /\ acc' = 0
           ELSE /\ acc' = n
                /\ UNCHANGED <<startCycle, intervals>>
  /\ cycle' = cycle + 1
  /\ UNCHANGED <<poolVars, changes, main, sorted, allReady, jobVars, mergeVars>>

(* Mutant: no last interval.                                               *)
SliceNoTail ==
  /\ main = "destroy" /\ opc = "gone"
  /\ cycle = NCycle
  /\ main' = "done"
  /\ UNCHANGED <<poolVars, changes, sorted, allReady, jobVars, mergeVars, sliceVars>>

(* The cycles left over are the last interval.                             *)
SliceTail ==
  /\ main = "destroy" /\ opc = "gone"
  /\ cycle = NCycle
  /\ intervals' = IF startCycle < NCycle
                     THEN Append(intervals, <<startCycle * Period, NCycle * Period>>)
                     ELSE intervals
  /\ main' = "done"
  /\ UNCHANGED <<poolVars, changes, sorted, allReady, jobVars, mergeVars,
                 cycle, startCycle, acc>>

Main ==
  \/ Launch \/ LaunchNotify \/ Poll \/ Sort \/ Release \/ Merge \/ Destroy
  \/ SliceCycle \/ SliceTail

Next ==
  \/ Main
  \/ \E w \in Workers :
       PoolStep(w) \/ SpuriousPoolWake(w) \/ JobStep(w) \/ SpuriousWakeUp(w) \/ JobReturn(w)

Spec == Init /\ [][Next]_vars

(* Every thread that can run is eventually scheduled, the main thread      *)
(* included; nothing relies on spurious wakeups.                           *)
FairSpec ==
  /\ Spec
  /\ WF_vars(Main)
  /\ \A w \in Workers : WF_vars(PoolStep(w) \/ JobStep(w) \/ JobReturn(w))
-----------------------------------------------------------------------------
TypeOK ==
  /\ PoolTypeOK
  /\ main \in {"launch", "poll", "sort", "notify", "wait", "destroy", "done"}
  /\ made \subseteq Named
  /\ sorted \in BOOLEAN
  /\ nReady \in 0 .. PoolThreads
  /\ allReady \in BOOLEAN
  /\ jpc \in [Jobs -> {"make", "barrier", "blocked", "read"}]
  /\ nextVar \in [Jobs -> 1 .. NVars + 1]
  /\ counts \in [Jobs -> [Cycles -> Nat]]
  /\ merged \in 0 .. PoolThreads
  /\ total \in [Cycles -> Nat]
  /\ cycle \in 0 .. NCycle /\ startCycle \in 0 .. cycle /\ acc \in 0 .. MaxEvents - 1
  /\ intervals \in Seq(Nat \X Nat)

(* "make var first to avoid conflicts in map": no job appends a value to   *)
(* id_values_map_ while another may still insert into it.                  *)
MadeBeforeRead == (\E j \in Jobs : jpc[j] = "read") => made = Named

Changes(c) ==
  {p \in Named \X (0 .. TimeMax - 1) : p[2] \in changes[p[1]] /\ p[2] \div Period = c}

(* Whatever the interleaving, when the counts have been merged every       *)
(* change of a named variable before timeMax is counted once, in its cycle.*)
CountsComplete ==
  main \in {"destroy", "done"} => \A c \in Cycles : total[c] = Cardinality(Changes(c))

EventsIn(i) ==
  Cardinality(UNION {Changes(c) : c \in (intervals[i][1] \div Period) .. (intervals[i][2] \div Period - 1)})

(* The intervals follow one another from 0 to the last cycle's end without *)
(* gap or overlap, none is empty, and each but the last reaches the budget *)
(* only with its last cycle.                                               *)
IntervalsTile ==
  main = "done" =>
    /\ intervals # <<>>
    /\ intervals[1][1] = 0 /\ intervals[Len(intervals)][2] = NCycle * Period
    /\ \A i \in DOMAIN intervals :
         /\ intervals[i][1] < intervals[i][2]
         /\ i > 1 => intervals[i][1] = intervals[i - 1][2]
         /\ i < Len(intervals) => EventsIn(i) >= MaxEvents
         /\ EventsIn(i) - Cardinality(Changes(intervals[i][2] \div Period - 1)) < MaxEvents

(* The reader finishes: every job gets a worker of its own, so the barrier *)
(* fills, and no job sleeps through the flag.                              *)
ReadReturns == <>(main = "done")

(* "All vars have been created by worker threads and they are waiting on   *)
(* make_var_cv_.  Sort deterministically before releasing them."           *)
SortBeforeRelease == (\E j \in Jobs : jpc[j] = "read") => sorted
=============================================================================
