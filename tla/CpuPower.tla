------------------------------ MODULE CpuPower ------------------------------
(***************************************************************************)
(* The multi-threaded time-based power analysis (Power::power,             *)
(* power/Power.cc): the gates are shuffled and cut into one slice per      *)
(* thread, one job per slice goes to a ThreadPool, every job sweeps its    *)
(* gates (GatePower) into a per-cycle waveform and a list of results of    *)
(* its own, and the main thread waits for the futures and merges both.     *)
(*                                                                         *)
(* A job that throws (an event value vcd_value_to_int_map_ lacks) settles  *)
(* its future like any other: the main thread waits and does not get, so   *)
(* it learns of it only from a list of results of the wrong length.  It    *)
(* reports that with LOG_ERROR, whose destructor calls exit(): the process *)
(* ends there, nothing is unwound and the pool is not joined.  A job can   *)
(* end the process in the same way, at a glitch of a pin that has an       *)
(* infinite slew; which slews are infinite is left open.  The vectors the  *)
(* jobs refer to are declared after the pool and so are gone before its    *)
(* destructor joins the workers.                                           *)
(***************************************************************************)
EXTENDS ThreadPool, GatePower

CONSTANTS
  NGates,     \* leaf instances with a Liberty cell
  Periods,    \* clock periods considered, in half time units
  Netlists    \* the gates considered: each a sequence of NGates gates

Jobs == 1 .. PoolThreads
Gates == 1 .. NGates

ASSUME PowerAssumption ==
  /\ Tasks = Jobs
  /\ NGates \in Nat
  /\ Periods \subseteq Nat \ {0}
  /\ \A n \in Netlists : \A g \in Gates : WellFormed(n[g])

VARIABLES
  gates,      \* the gates, with the waveforms of their pins
  period,     \* clk_period_
  main,       \* where the main thread is
  order,      \* instances: the gates after the shuffle
  waveform,   \* per_thread_total_results
  results,    \* per_thread_gate_results
  frame,      \* the vectors the jobs refer to exist
  total,      \* total, its clocked waveforms
  sum,        \* total, its sums
  merged      \* threads merged

jobVars == <<waveform, results>>
mainVars == <<main, order, frame, total, sum, merged>>
inputs == <<gates, period>>
vars == <<poolVars, inputs, mainVars, jobVars>>

(* The gates of thread j: slices of equal size, the first ones one longer. *)
Base == NGates \div PoolThreads
Remainder == NGates % PoolThreads

(* Mutant: the slices do not move on by the longer ones before.            *)
StartOfEven(j) == (j - 1) * Base

StartOf(j) == (j - 1) * Base + (IF j - 1 < Remainder THEN j - 1 ELSE Remainder)
EndOf(j) == StartOf(j) + Base + (IF j - 1 < Remainder THEN 1 ELSE 0)
Slice(j) == SubSeq(order, StartOf(j) + 1, EndOf(j))

Init ==
  /\ PoolInit
  /\ gates \in Netlists
  /\ period \in Periods
  /\ main = "shuffle"
  /\ order = <<>>
  /\ waveform = [j \in Jobs |-> NoWaveform(period)]
  /\ results = [j \in Jobs |-> <<>>]
  /\ frame = FALSE
  /\ total = NoWaveform(period)
  /\ sum = NoPower
  /\ merged = {}

-----------------------------------------------------------------------------
(* A job, run by the worker that took it. *)

Runs(w, j) == wpc[w] = "run" /\ task[w] = j

(* The next gate of the slice; a gate that throws ends the job, and what   *)
(* it had added to the waveform stays.                                     *)
EvaluateGate(w) ==
  \E j \in Jobs :
    /\ Runs(w, j)
    /\ Len(results[j]) < Len(Slice(j))
    /\ LET r == TimeBasedPower(gates[Slice(j)[Len(results[j]) + 1]], waveform[j], period)
       IN  /\ waveform' = [waveform EXCEPT ![j] = r.waveform]
           /\ IF r.threw
                THEN TaskReturn(w) /\ UNCHANGED results
                ELSE /\ results' = [results EXCEPT ![j] = Append(@, r.power)]
                     /\ UNCHANGED poolVars
    /\ UNCHANGED <<inputs, mainVars>>

(* LOG_ERROR in a job: exit() is called by the worker, whatever the other  *)
(* threads are doing.                                                      *)
ExitInGate(w) ==
  /\ \E j \in Jobs :
       /\ Runs(w, j)
       /\ Len(results[j]) < Len(Slice(j))
       /\ LET g == gates[Slice(j)[Len(results[j]) + 1]]
          IN  TookGlitch(g, TimeBasedPower(g, waveform[j], period), period)
  /\ main' = "exited"
  /\ UNCHANGED <<poolVars, inputs, order, frame, total, sum, merged, jobVars>>

JobReturn(w) ==
  /\ \E j \in Jobs : Runs(w, j) /\ Len(results[j]) = Len(Slice(j))
  /\ TaskReturn(w)
  /\ UNCHANGED <<inputs, mainVars, jobVars>>

PoolStep(w) ==
  /\ Acquire(w) \/ SpuriousWake(w)
  /\ UNCHANGED <<inputs, mainVars, jobVars>>

-----------------------------------------------------------------------------
(* The main thread. *)

Shuffle ==
  /\ main = "shuffle"
  /\ order' \in SetToSeqs(Gates)
  /\ frame' = TRUE
  /\ main' = "launch"
  /\ UNCHANGED <<poolVars, inputs, total, sum, merged, jobVars>>

Launch ==
  /\ main = "launch"
  /\ \E j \in Jobs : enqueued = 1 .. j - 1 /\ EnqueuePush(j)
  /\ UNCHANGED <<inputs, mainVars, jobVars>>

LaunchNotify ==
  /\ main = "launch"
  /\ EnqueueNotify
  /\ main' = IF enqueued = Jobs THEN "wait" ELSE "launch"
  /\ UNCHANGED <<inputs, order, frame, total, sum, merged, jobVars>>

(* Mutant: the last future is waited for.                                  *)
WaitLast ==
  /\ main = "wait"
  /\ PoolThreads \in settled
  /\ main' = "merge"
  /\ UNCHANGED <<poolVars, inputs, order, frame, total, sum, merged, jobVars>>

Wait ==
  /\ main = "wait"
  /\ settled = Jobs
  /\ main' = "merge"
  /\ UNCHANGED <<poolVars, inputs, order, frame, total, sum, merged, jobVars>>

PowerOf(j, k) == SumFunction([i \in DOMAIN results[j] |-> results[j][i][k]])

(* Mutant: a list that is too short is merged as it is.                    *)
MergeShort ==
  /\ main = "merge"
  /\ \E j \in Jobs :
       /\ merged = 1 .. j - 1
       /\ total' = [k \in Kinds |-> [c \in Slots(period) |->
                      total[k][c] + IF c \in Cycles(period) THEN waveform[j][k][c] ELSE 0]]
       /\ sum' = [k \in Kinds |-> sum[k] + PowerOf(j, k)]
       /\ merged' = merged \cup {j}
  /\ main' = IF merged' = Jobs THEN "merged" ELSE "merge"
  /\ UNCHANGED <<poolVars, inputs, order, frame, jobVars>>

(* The results of one thread: the cycles of its waveform, and its gates if *)
(* there are as many results as the slice has gates.  If not, LOG_ERROR    *)
(* ends the process.                                                       *)
MergeThread ==
  /\ main = "merge"
  /\ \E j \in Jobs :
       /\ merged = 1 .. j - 1
       /\ total' = [k \in Kinds |-> [c \in Slots(period) |->
                      total[k][c] + IF c \in Cycles(period) THEN waveform[j][k][c] ELSE 0]]
       /\ IF Len(results[j]) # Len(Slice(j))
            THEN main' = "exited" /\ UNCHANGED <<sum, merged>>
            ELSE /\ sum' = [k \in Kinds |-> sum[k] + PowerOf(j, k)]
                 /\ merged' = merged \cup {j}
                 /\ main' = IF merged' = Jobs THEN "merged" ELSE "merge"
  /\ UNCHANGED <<poolVars, inputs, order, frame, jobVars>>

(* The end of the block: the vectors go, then the pool. *)
LeaveFrame ==
  /\ main = "merged"
  /\ frame
  /\ frame' = FALSE
  /\ UNCHANGED <<poolVars, inputs, main, order, total, sum, merged, jobVars>>

Destroy ==
  /\ main = "merged"
  /\ ~frame
  /\ DestroyStop \/ DestroyNotify \/ DestroyJoin
  /\ UNCHANGED <<inputs, mainVars, jobVars>>

(* The analysis is over, or the process is. *)
Return ==
  /\ opc = "gone" \/ main = "exited"
  /\ UNCHANGED vars

(* exit() ends the process: no thread of it takes another step.            *)
Next ==
  \/ Shuffle \/ Launch \/ LaunchNotify \/ Wait \/ MergeThread \/ LeaveFrame \/ Destroy
  \/ Return
  \/ /\ main # "exited"
     /\ \E w \in Workers : EvaluateGate(w) \/ ExitInGate(w) \/ JobReturn(w) \/ PoolStep(w)

Spec == Init /\ [][Next]_vars
-----------------------------------------------------------------------------
SumGates(f(_)) == SumFunction([g \in Gates |-> f(gates[g])])

(* As long as a job is queued or running the vectors it refers to exist,   *)
(* though the pool that runs it outlives them, and the main thread has not *)
(* begun to merge what the job writes.  Where a job ends the process       *)
(* others may be queued or running: nothing has been destroyed then.       *)
JobsWithinFrame ==
  enqueued # settled => frame /\ main \in {"launch", "wait", "exited"}

(* A power that is reported counts every gate once, whatever the shuffle   *)
(* and the slices, and no job that threw goes unnoticed.  Per kind, the    *)
(* sums over the cells equal the sums over the cycles, but for toggles at  *)
(* the last time on a cycle line, which are in no cycle; the leakage is    *)
(* that of the states the pins go through and, when a period is a whole    *)
(* number of time units, it is in the cycles it belongs to.                *)
PowerExact ==
  main = "merged" =>
    LET lost(k) == SumFunction([j \in Jobs |-> waveform[j][k][NPeriod(period)]])
        perCycle(k) == SumFunction([c \in Cycles(period) |-> total[k][c]])
    IN  /\ \A k \in Kinds : sum[k] = perCycle(k) + lost(k)
        /\ \A k \in Kinds : lost(k) # 0 =>
             k # "leakage" /\ TimeMax % UnitsPerCycle(period) = 0
        /\ sum["leakage"] = SumGates(LAMBDA g : LeakageOver(g, 0 .. TimeMax - 1))
        /\ period % 2 = 0 =>
             \A c \in Cycles(period) :
               total["leakage"][c] = SumGates(LAMBDA g : LeakageOver(g, UnitsOf(c, period)))

(* Glitches cancel: what a pin that is never X costs as regular power in a *)
(* cycle is one toggle if the cycle leaves it changed and nothing if not.  *)
(* Pulses of no width are the exception, being charged in full.            *)
GlitchesCancel ==
  \A g \in Gates : \A pin \in Pins \ gates[g].clocks :
    LET w == gates[g].waves[pin]
    IN  TwoValued(w) /\ Apart(w) /\ Alternates(w) =>
          \A c \in Slots(period) :
            RegularIn(gates[g], pin, c, period) =
              IF Changed(w, TogglesIn(w, c, period)) THEN 2 * FullCharge ELSE 0
=============================================================================
