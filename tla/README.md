# GTPower: specifications, model checking and proofs

GTPower computes time-based power of a gate-level netlist from a waveform file
(VCD or FSDB), on CPU threads or on a GPU, inside a static timing analyser. This
directory holds TLA+ modules of its concurrent and boundary-ridden parts, the
TLC runs that check them and TLAPS proofs about them. Line numbers refer to the
files under `src/`.

## 1. Inventory

| component | source | state it keeps | operations | where it is hard |
|---|---|---|---|---|
| dispatch queue | `util/DispatchQueue.cc` | queue, counter, quit flag, threads | dispatch, finishTasks, setThreadCount, destructor, thread handler | counter changed outside the lock, spinning barrier, threads leaving with work queued |
| thread pool | `util/ThreadPool.hh` | task queue, stop flag, workers, futures | enqueue, worker loop, destructor | notify after unlock, destruction with tasks queued |
| breadth-first iterator | `search/Bfs.cc` | a vector per level, a flag per vertex, the window of levels | enqueue, visit, visitParallel, next, remove, clear | flag tested without the lock, levels handed to threads as copies, levels edited while queued |
| FSDB reader | `power/FsdbReader.cc` | variables, ready count and flag, counts per cycle and thread | read: make variables, barrier, read changes, merge, cut into intervals | barrier inside pool tasks, flag raised before the sort |
| VCD reader, store | `power/VcdReader.cc`, `power/Vcd.cc` | time, event count, waveforms, intervals | one step per token | cut at an event, repeated and late-starting values, several changes at one time |
| GPU rounds | `power/cuda/CudaPower.cu` | host and device event buffers, pin ranges, tiles, results | slice, load, schedule, copy, kernel, prefetch, renew, merge | prefetch during the kernel, ranges meeting at cuts, capacity |
| CPU time-based power | `power/Power.cc`, `power/TimeBasedPower.cc` | per-thread results | partition, jobs, merge; toggle, glitch, leakage of a gate | merge, boundaries of glitches and cycles |
| activities | `power/Power.cc`, `power/ReadVcdActivities.cc` | activity of each pin | ensureActivities, PropActivityVisitor | fixpoint over registers |
| levelization | `search/Levelize.cc` | levels, roots, loops, edges cut, vertices to relevelize | levelize, relevelize, invalidate | loops that close and open, levels repaired locally |
| delay calculation | `dcalc/GraphDelayCalc.cc` | delays, slews, invalid set, iterator | seed, visit a driver, annotate, tell the search | incremental: stops where nothing changed |
| search | `search/Search.cc` | arrivals, required times, invalid sets, endpoint slacks | find up to a level, invalidate, seed, total slack | incremental, partial up to a level, three stores that must agree |
| timing engine facade | `search/Sta.cc` | the above | edits and queries, in any order | every edit must invalidate what it affects |
| clock skew, path groups | `search/ClkSkew.cc`, `search/PathGroup.cc` | partial results per thread index | parallel collection, reduction | barrier before the reduction, fuzzy ties |
| constant propagation | `search/Sim.cc` | values of pins, sense of arcs, instances with constants, touched pins and instances, evaluation queue | propagate, from nothing or from what edits touched; annotate arcs | two records of what an edit touched, one for values and one for arcs |
| clocks, tags, paths, calculators | `dcalc/`, `search/*` | - | sequential algorithms | mostly arithmetic |
| libraries, netlist, constraints, parasitics, SDF, Spice, Tcl | `liberty/`, `network/`, `verilog/`, `sdc/`, `parasitics/`, `sdf/`, `spice/`, `tcl/` | stores | parse, write | none of the above |

How they interact. The file readers fill the waveform store and leave a list of
time intervals, each meant to fit the GPU's event buffers. The power engine
propagates activities with a breadth-first iterator, then either cuts the
instances into jobs for a thread pool or runs one GPU round per interval. The
FSDB reader uses the same kind of thread pool. The timing engine (arrivals,
requireds, delays) visits the graph through the iterator, whose threads are
those of the dispatch queue; an edit marks in the levelization, the delay
calculation and the search what it makes stale, and a query brings the constants
and then those three up to date in that order, no further than the level it needs; clock skew and path groups use that queue
directly: they dispatch closures that write to the element of a vector with the
thread's index, call finishTasks, and read the vector.

`PROJECT.json` lists the components with what is modelled of each, and the
hazards at their lines with the property that covers each or the reason none
does.

## 2. Modules

**DispatchQueue.** One action per stretch of code that holds the lock, and one
for each thing done outside it: the notification, the operation, the decrement,
the spinning load, the joins. Spurious wakeups are allowed. The owner may
dispatch, finish, change the number of threads or destroy the queue in any
order; that is more than `Main.cc` does (it sets the number once), and it
includes a resize with operations still queued, which the interface permits.

**ThreadPool.** The same for the pool: push, then notify_one outside the lock,
worker loop, the three phases of the destructor. A task settles its future
whether it returns or throws. The owner destroys the pool at any time.

**WorkList** is the abstract promise of the iterator: vertices wait, a vertex
begins only if none before it (by level) waits or is being visited.
**BfsIterator** is the iterator itself: queue of vectors, flag, window, the
double check of the flag in `enqueue` as two steps (`CheckQueued`,
`LockAndPush`), chunks for the threads, the drained vector of the one-thread
visit, `hasNext`/`next`, `remove` leaving an empty entry, `clear`, and
`Levelize::setLevel`, which removes a vertex before moving it. A visit may or
may not enqueue the adjacent vertices (arrivals changed or not); it always
enqueues what a reference pin's input delay leads to. `LevelOrder` states that
BfsIterator implements WorkList, with `pending` the flagged vertices and
`visiting` the vertices in the threads' hands. **MCBfsIterator** holds the
graph.

**FsdbReader** extends ThreadPool: a job is the task of a worker, its steps
happen only while a worker runs it. **MCFsdbReader** holds the files.

**VcdReader** is one module for the value change section and the store, one
action per kind of token; the file is whatever tokens TLC chooses. A history
records the changes read, each with the number of events before it, so that the
events of an interval are a difference of two totals.

**CudaRounds** follows one gate through the rounds. Slices of waveforms are sets
of event times, because a waveform has one event per time and starts at 0, and
the offsets of a pin in the flat buffer follow from the slices. A kernel thread
is one step that charges the toggles and the time units of its range, and
records whether the state it charged them from is the right one. The kernel's
threads, the prefetching CPU thread and the main thread interleave.
**MCCudaRounds** holds the waveforms.

**GatePower** is one gate's time-based power as pure operators: the sweep over
the events of its pins in time order, glitch flags, pulse widths and scaling, the
leakage of each stretch cut into cycles, and both accounts of the result (the
gate's, and the thread's per-cycle waveform). The sweep is a recursive function of
the number of turns of the loop, at most one per event. Amounts are integers:
halves of time units, halves of toggles, and the glitch scaling ratio in parts of
`FullCharge` (the square of the slew, which makes it whole). **CpuPower** extends
ThreadPool and GatePower: the gates are shuffled and sliced, a job evaluates one
gate per step while a worker runs it, the main thread waits, merges thread by
thread and leaves the block, the vectors first and then the pool. A job may
throw, and its list of results stays short. The process may exit: at the merge of
a list that is too short, or in a job at a glitch of a pin with an infinite slew.
`LOG_ERROR` calls `exit()` (`util/Log.hh:59`), so nothing is unwound, the vectors
stay and the pool is not joined; no thread takes a further step. **MCCpuPower**
holds the gates.

**Levelize**, **Search**, **DelayCalc**, **Sim** and **Sta** are the incremental
timing analyser, each extending the one before. The first four are operators on
the state of the whole analyser, a record with the parts `graph`, `sdc`, `lv`,
`se`, `dc` and `sim`, because that is how the components call one another: an
invalidation in one runs through the observers of the others. Sim is constant
propagation: pins held by case analysis, the evaluation queue over nets and
gates (every gate is an AND), the arcs that lose their timing sense, and its
observer, through which a value that changes invalidates delays, arrivals,
required times and levels. Sta has the actions: 17 edits, each the whole of
the `Sta` method with everything it invalidates, and 5 queries, each bringing
constants, levels, delays, arrivals, required times or slacks up to date. The iterators are
their abstract selves, sets visited in level order, which is what
BfsIterator!LevelOrder establishes. The levels are those of the depth-first visit
of `Levelize::visit`, with the loops it records and the edges it cuts. Paths are
one arrival per clock, unclocked or clocked; delays are a sum of load and slew.
**MCSta** holds the design: a port, two gates, a register's pins and an output,
one free pin whose connection closes a loop. A session starts from the design as
read (`Fresh`), from its full analysis, or from the analysis of a second design
(`Held`) in which the loop is closed and broken by a constant on it.

The theorems about a module are in the module of that name with **Proofs**
appended: DispatchQueue, ThreadPool, BfsIterator, FsdbReader, VcdReader,
CudaRounds and CpuPower have one; GatePower's are in CpuPowerProofs. **NatLemmas**
holds the facts about numbers, finite sets and sums that several of them need.

The operators marked "Mutant" are alternative bodies of the definition that
follows them, each a plausible bug; `PROJECT.json` names for every property one
that violates it. No specification uses them.

## 3. Runs

| run | bounds | question | result |
|---|---|---|---|
| dispatch_queue | 3 threads, 3 operations, 1 resize, destruction | exact counter, each operation once, barrier, no lost wakeup | holds |
| bfs_iterator | 6 vertices on 3 levels, 3 enqueues, 1 edit; backward with 2 threads and edits, forward with 1 thread, a same-level reference pin and `next` | flag equals queue, no visit lost, drained, level order, returns | holds |
| bfs_parallel_ref_pin | forward, 2 threads, the same reference pin | nothing lost | violated: finding 1 |
| thread_pool | 3 workers, 4 tasks, destruction at any time | tasks run once, futures settle, destructor returns | holds |
| fsdb_reader | 3 jobs, 5 variables (one unnamed), 9 files, 3 cycles and an incomplete one | phases separated, counts complete, intervals tile, no hang | holds |
| fsdb_sort | the same | variables sorted before any job reads | violated: finding 2 |
| vcd_reader | a scalar and a bus, 4 changes, times 0..3, budget 2 | waveform kept, cuts tile the file within the budget | holds |
| cuda_rounds | 2 pins, 7 or 8 time units, cycles of 2, up to 3 cuts, both formats, both ways to cut threads, 1 or 3 cycles per thread | buffers apart, toggles once, leakage covered, overlap bounded, ends | holds |
| cuda_leakage | the same | no leakage charged twice | violated: finding 3 |
| cpu_power | 2 threads, 3 gates in any order, 36 sets of waveforms over 6 time units, periods of 3 and of 1.5 units | every gate once in cells and cycles, throwing jobs noticed, glitches cancel, vectors exist and are not merged while jobs are queued or running, the exits included | holds |
| incremental | 8 pins, 3 initial states, 4 edits or queries | constants, levels, delays, arrivals, required times and slacks are those of a new analysis | holds, with the exceptions named |
| total_slack | the same, 2 calls | the total slack is exact | violated: finding 4 |

Why the bounds suffice. The interesting interactions are pairwise: two threads
racing for one flag, a worker against the notifying owner. With three threads a
third can take what the first two leave (notify_one waking the wrong one, uneven
left overs). The graph of MCBfsIterator has levels of three, one and two
vertices: an uneven chunk, a level too short to cut, two visits that enqueue the
same vertex, and a vertex that may sit on two levels. Backward the levels are
visited in the order two, one, three, so both kinds of level are fed by
visits. Three cuts give a first, a middle and a last round and two cuts in one
cycle; three cycles per thread do not divide an interval of one, two or four
cycles. Four changes allow a value repeated after another one, changes at one
time, and two cuts. Six time units hold cycles of three, the shortest in which a
pin can toggle an odd number of times greater than one after the initial
condition, and with a period of 1.5 units (rounded up to two) the drift that
makes a cycle's leakage negative. The 8 pins of MCSta have a loop that can be
closed and opened, an endpoint with and one without fanout, and a pin that moves
between levels; two of the three initial states are after a full analysis, so that
four calls are four calls of a session under way, and the third has a constant
that travels over a net to a gate, which edits then take away. `MaxCalls`, `MaxEdits`, `MaxTasks`, `MaxResizes`, `MaxCuts`,
`MaxTime` and `MaxChanges` are bounds on the environment, not on the code.

Deadlock is not checked where the system may stop: a destroyed queue or pool, a
reader that has returned, a GPU analysis that has ended or exited, a session of
`MaxCalls` calls. It is checked in cpu_power, where the analysis that is over
stutters, as does a process that has exited: so there everyone gets to the end.

The properties that pass are of five sorts: conservation (every operation, task,
enqueue, change or toggle is accounted for once: EachOnce, TaskHeldOnce,
NoVisitLost, CountsComplete, TogglesOnce); separation of phases (FinishIsBarrier,
LevelOrder, MadeBeforeRead, KernelReadsItsRound, DrainedWhenGone); tiling of time
and ranges (IntervalsTile, CutsTile, LeakageCovered,
OverlapOnlyAfterCut, WaveformKept); agreement of what is kept incrementally, or
twice, with its definition (ConstantsCurrent, DelaysCurrent, ArrivalsCurrent, RequiredsCurrent,
TnsCurrent, LevelsOrdered, OnlyLoopsCut, PowerExact, GlitchesCancel); and progress (FinishReturns, ThreadsJoin,
VisitReturns, FuturesSettle, PoolJoins, ReadReturns, RoundsEnd).

Some of them state what the code does rather than what a reader might hope for,
because that is the strongest statement that holds. CutsTile bounds the
events of an interval after its first time unit only: the event that makes the
cut has been counted in the interval that ends, but its time belongs to the next
one, so an interval may exceed `max_event_num`, the "event budget per batch" of
the main README and `GlobalConfig.hh:33`. LeakageCovered excepts, for
`-cuda_thread_partition_basis event`, the time after an interval's last event.
PowerExact and GlitchesCancel name three exceptions (below, under findings), and
the five Current properties the vertices or arcs an edit or a visit fails to invalidate:
each exception is a variable or an operator of its own, with the reason.

### Fairness

Weak fairness of each thread as a whole (a runnable thread is scheduled, a mutex
is eventually granted, an operation returns), and of the owner's steps inside a
call. Nothing makes an owner call anything, and no run relies on spurious
wakeups. The operating system's scheduler and `std::mutex` justify no more and
the code needs no more. In FsdbReader fairness of the job's worker is enough
because a blocked job is not runnable: it is woken by the owner. In CudaRounds
the device is fair to its grid as a whole.

### Findings

1. `search/Bfs.cc:210`: with several threads a vertex enqueued on the level being
   visited is dropped with its flag set, so it is never visited again. The
   serial visit provides for the case (comment at 146), the parallel one does not.
2. `power/FsdbReader.cc:81`: the flag is raised before the variables are sorted;
   a job that has reported ready but not reached its wait goes on reading during
   the sort. The values read do not depend on the order, so results are not
   affected today, but the comment at 87 is not what happens.
3. `power/cuda/CudaPower.cu:350`: leakage after each cut is charged by two
   rounds.
4. `search/Sta.cc:1879`: removing an output delay invalidates the arrival of the
   port, not its required time, and the total slack keeps the old constraint.

What the exceptions of the passing properties stand for, each confirmed in the
code. In the search: `setVertexArrivals` does not invalidate the required time of
a vertex that newly gets constrained paths; `requiredsInvalid` (clock groups)
leaves the old required times stored and `requiredInvalid` has no effect until
the next search; `wnsTnsPreamble` looks only in `invalid_requireds_` for what an
earlier query may have moved to `required_iter_`; `updateInvalidTns` keeps the
slack of a vertex that is no endpoint any more. In the delay calculation:
`disconnectPinBefore` does not invalidate the driver that loses the load; a
connected pin stays in `roots_`; the iterator is not told of changed levels, so
that a vertex may wait at a level higher than its own. In the levelization:
`relevelize` may cut an edge and nothing around it is invalidated. In constant
propagation: `removePropagatedValue` (`Sim.cc:473`) makes a disconnected pin
unknown and has its instance evaluated again, but the arcs are annotated only for
the instances `setPinValue` saw a change in; when the gate's output does not
change, the arc keeps the sense `none`. In the design of MCSta: pin 6 is held at 1
and drives pin 3; pin 3 is disconnected and connected to port 1; the arc from 3 to
the gate's output stays disabled, and the path from the port through it is missing
from every later analysis until something else annotates the gate.
In the power engine: a glitch of no width has the scaling ratio 0, which
`TimeBasedPower.cc:860` takes for "no glitch" and charges in full; a toggle at the
last time, on a cycle line, is written one past the per-cycle waveform; with a
period that is no whole number of time units `calculatePerCycleLeakagePower`
finds the first cycle in one way and the others in another, so that cycles are
charged too much and too little (the sum is exact).

Noticed on the way and not the subject of a run: a value change token at the
very end of a file without a final newline is dropped (`VcdReader.cc:351`); the
token that makes `read()` call `parseVarValues` is skipped (121);
`min_delta_time_` stays 0 (260); the asserts of `Vcd.cc:210` and `226` demand
growing times where a file may change a value twice at one time, and are
compiled out in the default release build.

## 4. Proofs

TLAPS checks the theorems below for every value of the constants. Each component
has an inductive invariant (`IInv`, `PoolInv`, or in CpuPower `PoolInv`,
`ResultsInv` and `AccountInv`), with a lemma per step or group of steps, and its safety properties
follow from the invariant. `PROJECT.json` lists the theorems and the property of
the runs each one states.

**DispatchQueueProofs**, for any number of threads, operations and resizes:
`TypeCorrect`, `CounterCorrect` (the counter is exact), `TasksRunOnce`,
`BarrierCorrect` (finishTasks is a barrier). CountExact alone is not inductive:
the decrement needs that a thread past its operation is counted as busy, and a
respawn that no thread index beyond the live ones is. EachOnce alone is not
either: taking the front operation preserves it only if no other copy of it is
queued or running. `IInv` adds that indices past `nThreads` run nothing
(OnlyLiveRun), that the queue is the contiguous suffix of the numbers dispatched
(QueueIsSuffix), and that running operations are distinct and come before that
suffix (RunningDistinct); RunOnce restates EachOnce relative to the suffix. The
barrier follows from ZeroMeansIdle: a zero counter means an empty queue and no
busy thread.

**ThreadPoolProofs**, for any number of workers and any set of tasks:
`PoolTypeCorrect`, `TasksHeldOnce`, `DestructorDrains`. `PoolInv` adds to
TaskHeldOnce that a worker holds a task exactly while it runs it, that the stop
flag agrees with the call the owner is in, that a worker that has left implies a
stopped pool with an empty queue, and that after the destructor all have left.
Steps that move only threads share the lemma QuietStep; the three that move a
task (PushStep, TakeStep, ReturnStep) have a lemma each.

**BfsIteratorProofs**, for any graph, levels, number of threads and sequence of
calls and edits: `TypeCorrect` (no index outside `queue_`), `FlagsExact`,
`NothingLost`, `VisitDrains`, and `ImplementsWorkList`, the refinement.
FlagMatchesQueue is not inductive: a level visited from copies is still in its
vector while the copies are visited, so `IInv` says where an entry counts (`Left`:
nothing, in that level), that such a level gets no new entry (CopiesPushAhead),
that every entry lies in the window or in the level being drained (WindowCovers),
and that nobody visits between calls. The check of the flag outside the lock needs
nothing of its own: between it and the push another thread may set the flag, and
the second check finds it set. The theorems assume `RefsGoOn`: with several threads,
the vertex a reference pin's input delay leads to is after the pin along an edge.
The code does not ensure it, and without it NoVisitLost is false; that is
finding 1, whose run is the counterexample. The refinement assumes `RefsNotBack`,
which adds that with one thread such a vertex is at least not at a lower level,
since `visit` would otherwise go back. `NothingBehind` is the strengthening it
needs: no vertex waits, or is about to be pushed, behind the level being visited.
The iterators of the run bfs_iterator satisfy both hypotheses.

**FsdbReaderProofs**, for any number of threads and variables, any changes, cycle
and event budget: `ReaderUsesPool` (every behaviour of the reader is one of
ThreadPool, so PoolInv holds), `TypeCorrect`, `MadeFirst`, `NoChangeMissed`,
`SlicesTile`. The invariant follows the protocol: the ready count is the number of
jobs past making their variables, the flag is up only when all are, a job reads
only when it is up, and each has made and counted the variables of its range up to
its loop index; a settled job is at the end of its range. The merged totals are
those of the ranges merged so far, and `acc` and the intervals are the counts of
the cycles passed. The counts are cardinalities of sets of changes; that the
ranges partition the variables, and the cycles the time, makes them add up.

**VcdReaderProofs**, for any variables, values, event budget and file:
`StoreKeepsWaveforms`, `CutsTileFile`. WaveformKept needs that nothing stored or
read is dated ahead of the current time and that a waveform is empty exactly while
its variable has not been read (otherwise an initial condition could hide a value).
CutsTile needs that the events after the last cut are all in the counter.

**CudaRoundsProofs**, for any activity, buffer limit, way to cut threads, cycles per
thread and interleaving of the prefetching thread with the kernel's: `TypeCorrect`,
`KernelReads`, `EachToggleOnce`, `AllLeakageCharged`, `OverlapAfterCut`. `IInv` has
four parts. DataInv: which round's slice each host and device buffer holds at each
place of the main thread and the prefetch, from which the kernel's reads follow.
CutsInv: intervals follow one another, on cycle lines, to the last time or past it.
TogglesInv and LeakInv: of a round under way, what is charged is what the threads
that are through cover, and of the rounds recorded, what their intervals hold. That
the ranges of a round's threads, cut by cycles or by events, meet without gap or
overlap, and that an event at the end of a range is taken by one of them, is
arithmetic on cycles and ranges, in lemmas of its own. The gate's slices begin with
the last event before the interval, which is what keeps the state right across
a cut.

**CpuPowerProofs**, for any gates and waveforms, pins, slews, threads, shuffle and
period: `PowerUsesPool`, `FrameOutlivesJobs` (JobsWithinFrame),
`ReportCountsEachGate` (a report has exactly one result for each gate, from a sweep
that did not throw), `ReportIsExact` (PowerExact) and `GlitchesLeaveNoTrace`
(GlitchesCancel). The argument has three levels.

One gate. `SweepInv` says that before each turn of the loop the events taken are
those that have happened and the state of the pins is what they make of it, and
`ChargedInv` that the leakage so far is that of those states, unit of time by unit
of time, in the sum and in the cycles, and that the waveform has grown by what is in
the sums. The parts of a stretch of time in the cycles add up to the whole of it for
any period (OverlapSum), although with a period that is no whole number of units
single cycles get too much or too little. A turn takes an event, so the last has
nothing left to take. For GlitchesCancel the toggles of a cycle are consecutive
events and of an odd number of them the last is the one that is no glitch, and a
glitch next to another one, at another time, has a positive width.

The threads. A job that runs is not settled (TaskHeldOnce), so once the main thread
has waited the lists are final; a list has the powers of the first gates of its slice
and is then shorter exactly if the job threw (`ResultsInv`). The vectors exist from
the shuffle to the end of the block, which comes after the wait, and where the
process exits (`FrameInv`); with the pool's invariant this is FrameOutlivesJobs.

The accounts. `AccountInv` says that the waveform of a job that has not thrown adds
up to its list of results and holds the leakage of those gates, and that the totals
are those of the threads merged. The slices partition the shuffled gates
(SlicesPartition), the shuffle is a bijection, and sums of sums may be exchanged.
PowerExact alone says nothing before the merge is over; `AccountInv` was stated
for that, checked by TLC on the instance of cpu_power, and then proved inductive.

Induction. The library's induction theorems have an operator as a parameter, which
the provers cannot instantiate. **NatLemmas** has induction for sets instead: the
least number outside a set (NatMin, from the well-foundedness of the naturals) or
the smallest subset outside a family of sets (NumberInduction, SubsetInduction) is
preceded by one inside. On it rest the facts about `SumFunction`, which folds a set
in an order of CHOOSE: that the order does not matter, that sums add, scale, split
and may be reindexed and exchanged; and the turns of the sweep, a recursive function.

Assumptions: those named in the modules. Each states what the code fixes or checks,
such as at least one thread, a positive period and event budget, edges that rise in
level at the start, or events of a waveform in the order of time; the bounds are
naturals. 0, the mark of an idle worker, is not a task.

Only model-checked:

- All liveness (FinishReturns, ThreadsJoin, VisitReturns, FuturesSettle, PoolJoins,
  ReadReturns, RoundsEnd): out of the prover's reach.
- The analyser (Levelize, Search, DelayCalc, Sim, Sta): every query is a chain of
  RECURSIVE operators that end only when nothing changes any more. tlapm has no SMT
  backend in a module that reaches one. As recursive functions they would need a
  bound on their length: the searches end because what a visit enqueues is at
  another level, which rests on the depth-first visit of the levelization, loops
  cut and levels repaired included, being right in the first place (LevelsOrdered).

ReaderUsesPool, PowerUsesPool and ReportCountsEachGate are proved and not run: they
have no bound to choose.

## 5. What the models leave out

- Data races in the sense of the language: the chunk closures copy the level's
  vector when they are dispatched, while earlier chunks may already push into
  it; `bfs_in_queue_` shares a word with other bit fields; a vector that grows
  under the owner's walk of a short level. The model takes the mildest outcome.
- Exceptions in the jobs of FsdbReader; `wait()` would swallow them (hazards).
- What `exit()` does on its way out, such as destroying static objects while other
  threads still run: the models end all threads at once. Which pins have an
  infinite slew is left open in CpuPower.
- Whether the events of an interval fit the buffer: they may not, and the check of
  `CudaPower.cu:1982` then ends the program before anything is written. The run
  shows that such an analysis ends, not that it does not happen.
- In CudaRounds: several events at one time on a pin, power values, the unfused
  kernels, per-cycle waveforms, more than one gate. The options the code holds
  constant (several rounds, slicing by the reader, overlap, cycles as unit) are
  taken as they are. How many cycles a thread gets is chosen freely from a set,
  which covers the automatic choice.
- In FsdbReader: the single-threaded path and the values themselves. A change
  counts one in its cycle, where the code adds the width of the bus
  (`FsdbReader.cc:414`). A file has a positive last time.
- In VcdReader: the header, and files whose times go back.
- In GatePower: the look-up of energies, leakages and when-conditions, the
  related input of an output toggle, and floating point. In CpuPower: the groups
  (sequential, clock, macro, pad), the single-threaded loop.
- In Sta and below: tags, corners, rise and fall, min and max, exceptions,
  latches, generated clocks, the clock network search, multi-driver nets,
  bidirectional pins, the connection and disconnection of drivers, and most of the facade's commands, which delegate to the
  same invalidations. The threads of the searches are in BfsIterator.
- In Sim: gates other than ANDs, tristates, tie cells, set_logic, conditional,
  mode, test and sequential arcs, hierarchical pins, edits of driver pins
  (`invalid_drvr_pins_`), `findLogicConstants`.
- Everything marked not_modelled in `PROJECT.json`, with its reason there.

## 6. Plan

Order: first the concurrency everything rests on (done: DispatchQueue,
ThreadPool, BfsIterator), then the data path of the power engine (done:
FsdbReader, VcdReader, CudaRounds, GatePower, CpuPower), then the incremental
analyser (done: Levelize, Search, DelayCalc, Sim, Sta). What is left:

1. Proofs: the safety properties of every module but those of the analyser are
   proved (section 4). Next are single steps of the analyser that need no induction,
   stated of its operators: what an edit leaves alone, and that an invalidation only
   grows the invalid sets. Its modules declare RECURSIVE operators, so what is to be
   proved must move to a module of its own.
2. Activities (`ensureActivities`: passes over registers until nothing changes
   or the limit), and edits of driver pins in Sim and Sta. The project is to stay at a dozen
   runs and forty properties, which it has reached: a property or a run gives way
   if a deeper one needs its place.

## 7. Running

    tlc -workers 2 -config BfsIterator.cfg MCBfsIterator
    tlapm DispatchQueueProofs.tla

The longest runs (cuda_rounds, incremental) take one to two minutes on two workers;
the longest proofs (CpuPowerProofs, BfsIteratorProofs, CudaRoundsProofs) up to some
ten minutes each.
