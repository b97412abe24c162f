------------------------------ MODULE CudaRounds ------------------------------
(***************************************************************************)
(* The rounds of the GPU power analysis of one gate                        *)
(* (power/cuda/CudaPower.cu): the file's time is taken interval by         *)
(* interval, the events of an interval are put in a buffer and copied to   *)
(* the device, a kernel with a thread per range of cycles charges every    *)
(* event and every leakage stretch, and while it runs a CPU thread         *)
(* overwrites the host buffer with the events of the next interval.        *)
(*                                                                         *)
(* An event is its time and a slice of a waveform the set of its events:   *)
(* a waveform starts at 0 and has one event at a time, and offsets into    *)
(* the flat buffer are the same for its content and the pins' ranges.      *)
(* Power is counted, not computed: how often each toggle and each time     *)
(* unit of leakage is charged, and whether from the right state.           *)
(***************************************************************************)
EXTENDS Integers, FiniteSetsExt, SequencesExt

CONSTANTS
  Pins,             \* the gate's pins with a waveform
  Inputs,           \* activities: each pin's waveform, the last time, the
                    \* file's format ("vcd" or "fsdb") and the unit threads
                    \* are cut by ("cycle" or "event")
  Period,           \* vcd_time_unit_per_cycle_
  MaxCuts,          \* bound: cuts the reader made
  MaxEventNum,      \* max_event_num, the capacity of the event buffers
  PerThread,        \* values of n_cycle_per_thread
  EventsPerThread   \* n_event_per_thread_for_all_pins

ASSUME CudaAssumption ==
  /\ Pins # {} /\ IsFiniteSet(Pins)
  /\ Period \in Nat \ {0} /\ MaxEventNum \in Nat /\ MaxCuts \in Nat
  /\ PerThread \subseteq Nat \ {0} /\ EventsPerThread \in Nat \ {0}
  /\ \A f \in Inputs :
       /\ f.format \in {"vcd", "fsdb"} /\ f.basis \in {"cycle", "event"}
       /\ f.max \in Nat \ {0}
       /\ f.wave \in [Pins -> SUBSET (0 .. f.max)]
       /\ \A p \in Pins : 0 \in f.wave[p]

VARIABLES
  file,        \* the activity read, and the options
  intervals,   \* time_intervals
  round,       \* time_interval_idx, from 1
  pc,          \* where the main thread is
  before,      \* events under each pin's prev_right_bound
  events,      \* events_: the slice of each pin in the host buffer
  ranges,      \* the host gate's pin ranges, and the device arrays of them
  fetched,     \* the ranges the prefetching thread returns
  fetch,       \* the prefetching thread
  perThread,   \* n_cycle_per_thread
  dEvents,     \* d_events_
  dGate,       \* d_multiple_output_gates_: sizes, pointers into the arrays
  todo,        \* threads of the kernel still to run
  tile,        \* charged in this round
  total        \* recorded

data == <<before, events, ranges, fetched>>
device == <<dEvents, dGate>>
vars == <<file, intervals, round, pc, data, fetch, perThread, device, todo, tile, total>>

CeilDiv(a, b) == (a + b - 1) \div b
MaxTime == file.max
Format == file.format   \* activity_file_format
Basis == file.basis     \* cuda_thread_partition_basis
Nothing ==
  [toggle |-> [p \in Pins |-> [e \in file.wave[p] |-> 0]],
   leak |-> [u \in 0 .. MaxTime - 1 |-> 0],
   right |-> [u \in 0 .. MaxTime - 1 |-> 0],
   stale |-> {}]
Empty == [p \in Pins |-> {}]

(* The cuts a reader leaves: any times in a VCD, any cycle lines but the   *)
(* first and the last in an FSDB, from 0 to past the last event.           *)
RawCuts ==
  IF Format = "vcd"
    THEN {c \in UNION {[1 .. n -> 0 .. MaxTime] : n \in 0 .. MaxCuts} :
            \A i \in 1 .. Len(c) - 1 : c[i] <= c[i + 1]}
    ELSE {c \in UNION {[1 .. n -> {k * Period : k \in 1 .. MaxTime \div Period - 1}] : n \in 0 .. MaxCuts} :
            \A i \in 1 .. Len(c) - 1 : c[i] < c[i + 1]}

LastEnd == IF Format = "vcd" THEN MaxTime + 1 ELSE CeilDiv(MaxTime, Period) * Period

(* In an FSDB the last time is a cycle line (or there is no complete       *)
(* cycle) and the events are before it.                                    *)
ReadAs(f) ==
  f.format = "fsdb" =>
    /\ f.max % Period = 0 \/ f.max < Period
    /\ \A p \in Pins : f.max \notin f.wave[p]

Init ==
  /\ file \in {f \in Inputs : ReadAs(f)}
  /\ \E cuts \in RawCuts :
       LET ends == Append(cuts, LastEnd)
       IN  intervals = [i \in 1 .. Len(ends) |-> <<IF i = 1 THEN 0 ELSE ends[i - 1], ends[i]>>]
  /\ round = 1
  /\ pc = "slice"
  /\ before = Empty /\ events = Empty /\ ranges = Empty /\ fetched = Empty
  /\ fetch = "none"
  /\ perThread = 1
  /\ dEvents = Empty /\ dGate = "none"
  /\ todo = {}
  /\ tile = Nothing /\ total = Nothing
-----------------------------------------------------------------------------
(* runCudaTimeBasedPowerAnalysis() *)

(* A VCD's intervals are moved up to cycle lines; two cuts in one cycle    *)
(* end the program.                                                        *)
RoundUp(t) == CeilDiv(t, Period) * Period

SliceTime ==
  /\ pc = "slice"
  /\ LET rounded == [i \in DOMAIN intervals |-> <<RoundUp(intervals[i][1]), RoundUp(intervals[i][2])>>]
         sliced == IF Format = "vcd" THEN rounded ELSE intervals
     IN  /\ intervals' = sliced
         /\ pc' = IF Format = "vcd" /\ \E i \in DOMAIN sliced : sliced[i][1] = sliced[i][2]
                    THEN "failed" ELSE "init"
  /\ UNCHANGED <<file, round, data, fetch, perThread, device, todo, tile, total>>

(* getGateWaveformRangeMultiThread: the events below the end, from the     *)
(* last one of the previous interval on.                                   *)
Below(p, end) ==
  IF end >= MaxTime THEN file.wave[p] ELSE before[p] \cup {e \in file.wave[p] : e < end}

Fetched(p, i) ==
  IF i[1] = 0
    THEN Below(p, i[2])
    ELSE {e \in Below(p, i[2]) : ~\E x \in before[p] : e < x}

GetRange(i) ==
  /\ events' = [p \in Pins |-> Fetched(p, i)]
  /\ before' = [p \in Pins |-> Below(p, i[2])]

SizeOf(slices) == Cardinality(UNION {{p} \X slices[p] : p \in Pins})

InitGateData ==
  /\ pc = "init"
  /\ GetRange(intervals[1])
  /\ ranges' = events'
  /\ pc' = IF SizeOf(events') > MaxEventNum THEN "failed" ELSE "schedule"
  /\ UNCHANGED <<file, intervals, round, fetched, fetch, perThread, device, todo, tile, total>>

StartCycle == intervals[round][1] \div Period
EndCycle == intervals[round][2] \div Period

(* Mutant: the tile results of the previous round stay.                    *)
ScheduleKernelNoReset ==
  /\ pc = "schedule"
  /\ \E n \in PerThread : perThread' = n
  /\ pc' = "copyWaveform"
  /\ UNCHANGED <<file, intervals, round, data, fetch, device, todo, tile, total>>

ScheduleKernel ==
  /\ pc = "schedule"
  /\ \E n \in PerThread : perThread' = n
  /\ tile' = Nothing
  /\ pc' = "copyWaveform"
  /\ UNCHANGED <<file, intervals, round, data, fetch, device, todo, total>>

CopyWaveformToDeviceSide ==
  /\ pc = "copyWaveform"
  /\ dEvents' = events
  /\ pc' = "copyGate"
  /\ UNCHANGED <<file, intervals, round, data, fetch, perThread, dGate, todo, tile, total>>

CopyGateDataToDeviceSide ==
  /\ pc = "copyGate"
  /\ dGate' = "valid"
  /\ pc' = "run"
  /\ UNCHANGED <<file, intervals, round, data, fetch, perThread, dEvents, todo, tile, total>>

NThread ==
  IF Basis = "cycle"
    THEN CeilDiv(EndCycle - StartCycle, perThread)
    ELSE CeilDiv(SizeOf(ranges), EventsPerThread)

(* The kernel is launched, and the CPU thread started for the next round.  *)
RunCudaPowerAnalysis ==
  /\ pc = "run"
  /\ todo' = 0 .. NThread - 1
  /\ fetch' = IF round < Len(intervals) THEN "running" ELSE "none"
  /\ pc' = "sync"
  /\ UNCHANGED <<file, intervals, round, data, perThread, device, tile, total>>

(* The CPU thread. *)
Prefetch ==
  /\ fetch = "running"
  /\ pc # "failed"
  /\ GetRange(intervals[round + 1])
  /\ fetched' = events'
  /\ fetch' = "done"
  /\ pc' = IF SizeOf(events') > MaxEventNum THEN "failed" ELSE pc
  /\ UNCHANGED <<file, intervals, round, ranges, perThread, device, todo, tile, total>>

-----------------------------------------------------------------------------
(* kernel1AllPowerCalculationTimeRangePartitionedByCycleUnit, thread t. *)

Accumulated(c) == SizeOf([p \in Pins |-> {e \in dEvents[p] : e < c * Period}])

(* The first cycle line with n events before it, or the interval's end. *)
CycleByEventCount(n) ==
  LET reached == {c \in StartCycle .. EndCycle - 1 : Accumulated(c) >= n}
  IN  IF reached = {} THEN EndCycle ELSE Min(reached)

(* Mutant: the first cycle of a range is left out.                         *)
FirstCycleLate(t) ==
  IF Basis = "cycle" THEN StartCycle + t * perThread + 1 ELSE CycleByEventCount(t * EventsPerThread + 1)

FirstCycle(t) ==
  IF Basis = "cycle" THEN StartCycle + t * perThread ELSE CycleByEventCount(t * EventsPerThread)

StartTime(t) == FirstCycle(t) * Period

(* One more time unit when the range ends with the interval. *)
EndTime(t) == FirstCycle(t + 1) * Period + (IF FirstCycle(t + 1) = EndCycle THEN 1 ELSE 0)

(* The event whose value is the state before the range: the last one       *)
(* before it, or the first of the slice.                                   *)
PrevEvent(p, t) == Max({Min(dEvents[p])} \cup {e \in dEvents[p] : e < StartTime(t)})

(* Mutant: the first event of every range is skipped like an initial one.  *)
TakenSkipping(p, t) ==
  LET range == {e \in dEvents[p] : StartTime(t) <= e /\ e < EndTime(t)}
  IN  {e \in range : \E x \in range : x < e}

(* The events of the range, in which the slice's first is not a toggle. *)
Taken(p, t) ==
  {e \in dEvents[p] : StartTime(t) <= e /\ e < EndTime(t)} \ {Min(dEvents[p])}

StateBefore(p, t, e) == Max({PrevEvent(p, t)} \cup {x \in Taken(p, t) : x < e})

(* What the waveform itself says.                                          *)
LastEventBefore(p, e) == Max({x \in file.wave[p] : x < e})

LeakageTimes(t) == StartTime(t) .. (IF EndTime(t) < MaxTime THEN EndTime(t) ELSE MaxTime) - 1

Charged(t) ==
  LET rightAt(u) == \A p \in Pins : StateBefore(p, t, u + 1) = LastEventBefore(p, u + 1)
  IN  [toggle |-> [p \in Pins |->
                    [e \in file.wave[p] |-> tile.toggle[p][e] + (IF e \in Taken(p, t) THEN 1 ELSE 0)]],
       leak |-> [u \in 0 .. MaxTime - 1 |->
                    tile.leak[u] + (IF u \in LeakageTimes(t) THEN 1 ELSE 0)],
       right |-> [u \in 0 .. MaxTime - 1 |->
                    tile.right[u] + (IF u \in LeakageTimes(t) /\ rightAt(u) THEN 1 ELSE 0)],
       stale |-> tile.stale \cup
                   UNION {{p} \X {e \in Taken(p, t) : StateBefore(p, t, e) # LastEventBefore(p, e)} :
                            p \in Pins}]

KernelThread(t) ==
  /\ pc # "failed"
  /\ todo' = todo \ {t}
  /\ tile' = IF FirstCycle(t) = FirstCycle(t + 1) THEN tile ELSE Charged(t)
  /\ UNCHANGED <<file, intervals, round, pc, data, fetch, perThread, device, total>>

-----------------------------------------------------------------------------
(* Mutant: the pointers are renewed while the kernel runs.                 *)
SynchronizeNot ==
  /\ pc = "sync"
  /\ pc' = IF fetch = "none" THEN "record" ELSE "join"
  /\ UNCHANGED <<file, intervals, round, data, fetch, perThread, device, todo, tile, total>>

(* Mutant: the last round waits for a CPU thread too.                      *)
SynchronizeJoin ==
  /\ pc = "sync"
  /\ todo = {}
  /\ pc' = "join"
  /\ UNCHANGED <<file, intervals, round, data, fetch, perThread, device, todo, tile, total>>

(* cudaEventSynchronize, then cpu_thread.join and renewGateWaveform. *)
Synchronize ==
  /\ pc = "sync"
  /\ todo = {}
  /\ pc' = IF fetch = "none" THEN "record" ELSE "join"
  /\ UNCHANGED <<file, intervals, round, data, fetch, perThread, device, todo, tile, total>>

(* The device arrays are freed and allocated anew: the pointers of the     *)
(* device's copy of the gate are dead until it is copied again.            *)
RenewGateWaveform ==
  /\ pc = "join"
  /\ fetch = "done"
  /\ ranges' = fetched
  /\ dGate' = "dead"
  /\ fetch' = "none"
  /\ pc' = "record"
  /\ UNCHANGED <<file, intervals, round, before, events, fetched, perThread, dEvents, todo, tile, total>>

(* Mutant: the interval index passes the last interval.                    *)
NextRoundPast == round + 1

NextRound == IF round < Len(intervals) THEN round + 1 ELSE round

(* mergeResult and recordResult: the tiles of the round are added up and   *)
(* to the result.                                                          *)
MergeAndRecordResult ==
  /\ pc = "record"
  /\ total' = [toggle |-> [p \in Pins |->
                            [e \in file.wave[p] |-> total.toggle[p][e] + tile.toggle[p][e]]],
               leak |-> [u \in 0 .. MaxTime - 1 |-> total.leak[u] + tile.leak[u]],
               right |-> [u \in 0 .. MaxTime - 1 |-> total.right[u] + tile.right[u]],
               stale |-> total.stale \cup tile.stale]
  /\ round' = NextRound
  /\ pc' = IF round < Len(intervals) THEN "schedule" ELSE "done"
  /\ UNCHANGED <<file, intervals, data, fetch, perThread, device, todo, tile>>

Main ==
  \/ SliceTime \/ InitGateData \/ ScheduleKernel
  \/ CopyWaveformToDeviceSide \/ CopyGateDataToDeviceSide \/ RunCudaPowerAnalysis
  \/ Synchronize \/ RenewGateWaveform \/ MergeAndRecordResult

Next == Main \/ Prefetch \/ \E t \in todo : KernelThread(t)

Spec == Init /\ [][Next]_vars

(* The main thread, the CPU thread and the device all keep going.          *)
FairSpec == Spec /\ WF_vars(Main) /\ WF_vars(Prefetch) /\ WF_vars(\E t \in todo : KernelThread(t))
-----------------------------------------------------------------------------
Rounds == 1 .. Len(intervals)

TypeOK ==
  /\ round \in Rounds
  /\ pc \in {"slice", "init", "schedule", "copyWaveform", "copyGate", "run", "sync", "join",
             "record", "done", "failed"}
  /\ \A p \in Pins :
       /\ before[p] \subseteq file.wave[p] /\ events[p] \subseteq file.wave[p]
       /\ ranges[p] \subseteq file.wave[p] /\ fetched[p] \subseteq file.wave[p]
       /\ dEvents[p] \subseteq file.wave[p]
  /\ fetch \in {"none", "running", "done"}
  /\ perThread \in PerThread \cup {1}
  /\ dGate \in {"none", "valid", "dead"}
  /\ todo \subseteq Nat

(* What the kernel of round i must find on the device: the events before   *)
(* its end (all of them, past the last time) from the last one of the      *)
(* rounds before on.                                                       *)
UpTo(p, i) ==
  {e \in file.wave[p] : i > 0 /\ (e < intervals[i][2] \/ intervals[i][2] >= MaxTime)}

SliceOf(p, i) == {e \in UpTo(p, i) : ~\E x \in UpTo(p, i - 1) : e < x}

(* Filling the host buffer for the next round and renewing the ranges      *)
(* (CudaPower.cu:2924-2935) never reaches a kernel that is still running:  *)
(* every thread reads the events and ranges of its own round.              *)
KernelReadsItsRound ==
  todo # {} =>
    /\ dGate = "valid"
    /\ \A p \in Pins : dEvents[p] = SliceOf(p, round) /\ ranges[p] = SliceOf(p, round)

(* Across rounds, threads and cuts every event but a waveform's first is   *)
(* charged exactly once, as a change from the event before it: nothing is  *)
(* lost or counted twice where two ranges or two rounds meet.              *)
TogglesOnce ==
  /\ total.stale \cup tile.stale = {}
  /\ \A p \in Pins : \A e \in file.wave[p] : tile.toggle[p][e] <= 1 /\ total.toggle[p][e] <= 1
  /\ pc = "done" =>
       \A p \in Pins : \A e \in file.wave[p] :
         total.toggle[p][e] = IF e = Min(file.wave[p]) THEN 0 ELSE 1

(* With ranges of events the threads may end early in an interval.         *)
IdleTail(u) ==
  \E i \in Rounds :
    /\ intervals[i][1] <= u /\ u < intervals[i][2]
    /\ \A p \in Pins, e \in (u \div Period) * Period .. intervals[i][2] - 1 : e \notin file.wave[p]

(* Every time unit's leakage is charged from the states the pins have then;*)
(* with ranges of events instead of cycles, but for an interval's last     *)
(* cycles, after its last event.                                           *)
LeakageCovered ==
  pc = "done" =>
    \A u \in 0 .. MaxTime - 1 : total.right[u] >= 1 \/ (Basis = "event" /\ IdleTail(u))

(* Leakage is charged twice only where an interval other than the last     *)
(* ended: in the unit added there, or in the whole cycles by which the     *)
(* last thread's range passes the end.                                     *)
OverlapOnlyAfterCut ==
  pc = "done" =>
    \A u \in 0 .. MaxTime - 1 :
      total.leak[u] > 1 =>
        \E i \in 1 .. Len(intervals) - 1, n \in PerThread :
          intervals[i][2] <= u /\ u < intervals[i][2] + (IF n = 1 THEN 1 ELSE (n - 1) * Period)

(* CudaPower.cu:350 on the extra unit: "add 1 to cover the event occurs on *)
(* the last time", the range being "[cur_thread_start_time,                *)
(* cur_thread_end_time)": no leakage is charged twice.                     *)
LeakageOnce == \A u \in 0 .. MaxTime - 1 : total.leak[u] <= 1

(* The analysis ends: the main thread waits for nothing that does not come.*)
RoundsEnd == <>(pc \in {"done", "failed"})
=============================================================================
