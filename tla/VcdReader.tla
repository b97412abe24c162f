------------------------------ MODULE VcdReader ------------------------------
(***************************************************************************)
(* The value change section of the VCD reader (parseVarValues of           *)
(* power/VcdReader.cc) and the store it fills (power/Vcd.cc): every token  *)
(* moves the time, appends a value to a variable's waveform, or is the end *)
(* of the file, and the events read so far are cut into the intervals the  *)
(* GPU analysis later takes one per round.                                 *)
(*                                                                         *)
(* The file is the sequence of tokens TLC chooses.  Its time tokens grow,  *)
(* and it starts at time 0: read() hands the section over after having     *)
(* consumed its first token.  The release build, without asserts.          *)
(***************************************************************************)
EXTENDS Naturals, SequencesExt

CONSTANTS
  Scalars,       \* ids of the one-bit variables
  Buses,         \* ids of the others
  Values,        \* scalar values, "X" among them
  BusValues,     \* bus values, 0 among them
  Widths,        \* digits a bus value may be written with
  MaxEventNum,   \* max_event_num, the event budget
  MaxTime,       \* bound: the last time of a file
  MaxChanges     \* bound: the value changes in a file

Ids == Scalars \cup Buses

ASSUME VcdAssumption ==
  /\ Scalars \cap Buses = {}
  /\ "X" \in Values
  /\ 0 \in BusValues
  /\ Widths \subseteq Nat \ {0}
  /\ MaxEventNum \in Nat \ {0} /\ MaxTime \in Nat /\ MaxChanges \in Nat

VARIABLES
  eof,         \* the section has been read
  time,        \* time_
  nCur,        \* n_cur_interval_event
  values,      \* id_values_map_: a sequence of events per id
  intervals,   \* time_intervals
  timeMax,     \* time_max_
  file         \* history: the changes read, in the order of the file, each
               \* with the number of events before it

vars == <<eof, time, nCur, values, intervals, timeMax, file>>

Event(t, v) == [time |-> t, value |-> v]

Init ==
  /\ eof = FALSE
  /\ time = 0
  /\ nCur = 0
  /\ values = [id \in Ids |-> <<>>]
  /\ intervals = <<>>
  /\ timeMax = 0
  /\ file = <<>>
-----------------------------------------------------------------------------
(* varAppendValue, varAppendBusValue: a value equal to the last one is not *)
(* stored, and a waveform that starts late gets an initial condition.      *)
Initial(id) == IF id \in Scalars THEN "X" ELSE 0

(* Mutant: the first value decides what is redundant.                      *)
AppendedFirst(id, v) ==
  IF values[id] # <<>> /\ Head(values[id]).value = v
    THEN values[id]
    ELSE (IF values[id] = <<>> /\ time # 0 THEN <<Event(0, Initial(id))>> ELSE values[id])
           \o <<Event(time, v)>>

Appended(id, v) ==
  IF values[id] # <<>> /\ Last(values[id]).value = v
    THEN values[id]
    ELSE (IF values[id] = <<>> /\ time # 0 THEN <<Event(0, Initial(id))>> ELSE values[id])
           \o <<Event(time, v)>>

PrevEnd == IF intervals = <<>> THEN 0 ELSE Last(intervals)[2]

(* Mutant: the cut is made one event late.                                 *)
AccumulateLate(n) ==
  IF nCur > MaxEventNum
    THEN /\ intervals' = Append(intervals, <<PrevEnd, time>>)
         /\ nCur' = 0
    ELSE /\ nCur' = nCur + n
         /\ UNCHANGED intervals

(* Mutant: an interval starts one unit after the end of the previous one.  *)
AccumulateGap(n) ==
  IF nCur + n > MaxEventNum
    THEN /\ intervals' = Append(intervals, <<IF PrevEnd = 0 THEN 0 ELSE PrevEnd + 1, time>>)
         /\ nCur' = 0
    ELSE /\ nCur' = nCur + n
         /\ UNCHANGED intervals

(* Counting n more events: past the budget, the interval ends here and now. *)
Accumulate(n) ==
  IF nCur + n > MaxEventNum
    THEN /\ intervals' = Append(intervals, <<PrevEnd, time>>)
         /\ nCur' = 0
    ELSE /\ nCur' = nCur + n
         /\ UNCHANGED intervals

(* "#t" *)
TimeToken ==
  /\ ~eof
  /\ \E t \in time + 1 .. MaxTime : time' = t
  /\ UNCHANGED <<eof, nCur, values, intervals, timeMax, file>>

(* The history: a change of n events is read. *)
EventsRead == IF file = <<>> THEN 0 ELSE Last(file).before + Last(file).n

Read(id, v, n) ==
  file' = Append(file, [id |-> id, time |-> time, value |-> v,
                        n |-> n, before |-> EventsRead])

(* A value change of a scalar, one event. *)
ScalarToken ==
  /\ ~eof
  /\ Len(file) < MaxChanges
  /\ \E id \in Scalars, v \in Values :
       /\ values' = [values EXCEPT ![id] = Appended(id, v)]
       /\ Read(id, v, 1)
  /\ Accumulate(1)
  /\ UNCHANGED <<eof, time, timeMax>>

(* A value change of a bus, an event per digit; an unknown value is 0. *)
BusToken ==
  /\ ~eof
  /\ Len(file) < MaxChanges
  /\ \E id \in Buses, v \in BusValues, unknown \in BOOLEAN, w \in Widths :
       LET value == IF unknown THEN 0 ELSE v
       IN  /\ values' = [values EXCEPT ![id] = Appended(id, value)]
           /\ Read(id, value, w)
           /\ Accumulate(w)
  /\ UNCHANGED <<eof, time, timeMax>>

EndOfFile ==
  /\ ~eof
  /\ eof' = TRUE
  /\ timeMax' = time
  /\ intervals' = Append(intervals, <<PrevEnd, time + 1>>)
  /\ UNCHANGED <<time, nCur, values, file>>

Next == TimeToken \/ ScalarToken \/ BusToken \/ EndOfFile

Spec == Init /\ [][Next]_vars
-----------------------------------------------------------------------------
(* What the file says, and what was stored, of a variable at time t. *)
FileAt(id, t) ==
  LET past == {k \in DOMAIN file : file[k].id = id /\ file[k].time <= t}
  IN  IF past = {} THEN Initial(id) ELSE file[Max(past)].value

StoredAt(id, t) ==
  values[id][Max({k \in DOMAIN values[id] : values[id][k].time <= t})].value

(* Dropping repeated values and adding initial conditions (Vcd.cc:208-214) *)
(* loses nothing: a waveform starts at 0, and at every time has the value  *)
(* the file gives it.                                                      *)
WaveformKept ==
  \A id \in Ids : values[id] # <<>> =>
    /\ values[id][1].time = 0
    /\ \A t \in 0 .. time : StoredAt(id, t) = FileAt(id, t)

(* The events from the j-th change to the k-th. *)
EventsFromTo(j, k) == (file[k].before + file[k].n) - file[j].before

Within(i, k) == intervals[i][1] <= file[k].time /\ file[k].time < intervals[i][2]

(* The intervals follow one another from 0, and those of a whole file      *)
(* cover it: every event falls in exactly one round, and a round holds no  *)
(* more than the budget after its first time unit, the events at the cut   *)
(* having been counted in the interval before (VcdReader.cc:292-300).      *)
CutsTile ==
  /\ \A i \in DOMAIN intervals :
       /\ intervals[i][1] = IF i = 1 THEN 0 ELSE intervals[i - 1][2]
       /\ intervals[i][1] <= intervals[i][2]
       /\ \A j, k \in DOMAIN file :
            /\ Within(i, j) /\ Within(i, k)
            /\ file[j].time # intervals[i][1]
            => EventsFromTo(j, k) <= MaxEventNum
  /\ eof =>
       \A k \in DOMAIN file :
         \E i \in DOMAIN intervals :
           /\ Within(i, k)
           /\ \A j \in DOMAIN intervals \ {i} : ~Within(j, k)
=============================================================================
