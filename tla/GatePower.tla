------------------------------ MODULE GatePower ------------------------------
(***************************************************************************)
(* The time-based power of one gate (Power::findTimeBasedAllPower,         *)
(* power/TimeBasedPower.cc), as operators on the waveforms of its pins:    *)
(* the pins' events are swept in time order, leakage is charged over the   *)
(* time between two instants by the state before, and every event is a     *)
(* toggle, charged to the clock cycle it falls in and either as regular    *)
(* power or, scaled by the width of its pulse, as glitch power.  The same  *)
(* amounts are kept twice: in the gate's own result and, per cycle, in a   *)
(* waveform shared by the gates of a thread.                               *)
(*                                                                         *)
(* Amounts are integers: time in half time units, so that a clock period   *)
(* need not be a whole number of units; a toggle in halves (to or from X); *)
(* the glitch scaling ratio in parts of FullCharge.  The Liberty tables    *)
(* are reduced to one unit of energy per toggle and a leakage that tells   *)
(* the states of the gate apart; the divisions by the period and by the    *)
(* length of the simulation are left out.                                  *)
(***************************************************************************)
EXTENDS Integers, Sequences, FiniteSets, SequencesExt

CONSTANTS
  TimeMax,   \* vcd_.timeMax(), in time units
  SumSlew,   \* rise slew plus fall slew of a pin, in time units
  NPins,     \* pins of a gate, the inputs first
  NInputs    \* n_input_pin

ASSUME GateAssumption ==
  /\ TimeMax \in Nat \ {0} /\ SumSlew \in Nat
  /\ NPins \in Nat /\ NInputs \in 0 .. NPins

Pins == 1 .. NPins

(* vcd_value_to_int_map_, and the value U that it lacks. *)
X == 2
Z == 3
Unmapped == 4
Values == {0, 1, X, Z, Unmapped}

(* A gate is a record of the waveform of each pin, a sequence of           *)
(* [time, value] in time order, the set of its clock pins and the value of *)
(* a pin without events.                                                   *)
WellFormed(g) ==
  /\ g.waves \in [Pins -> Seq([time : 0 .. TimeMax, value : Values])]
  /\ g.clocks \subseteq Pins /\ g.default \in Values
  /\ \A pin \in Pins : \A i \in 2 .. Len(g.waves[pin]) :
       g.waves[pin][i - 1].time <= g.waves[pin][i].time

-----------------------------------------------------------------------------
(* Clock cycles.  A period of p half units has UnitsPerCycle(p) units in   *)
(* it, rounded up; the waveforms have NPeriod(p) entries.                  *)

UnitsPerCycle(p) == (p + 1) \div 2
CycleOf(t, p) == t \div UnitsPerCycle(p)
NPeriod(p) == (2 * TimeMax + p - 1) \div p
Cycles(p) == 0 .. NPeriod(p) - 1

(* One past the end of the waveform: an event at the last time is charged  *)
(* there when a cycle ends with the simulation (undefined behaviour; what  *)
(* is written is in no cycle).                                             *)
Slots(p) == 0 .. NPeriod(p)

-----------------------------------------------------------------------------
(* Toggles and glitches. *)

HalfToggles(a, b) ==
  CASE a = b -> 0
    [] a # b /\ X \in {a, b} -> 1
    [] OTHER -> 2

HalfRises(a, b) ==
  CASE <<a, b>> \in {<<0, X>>, <<X, 1>>} -> 1
    [] <<a, b>> = <<0, 1>> -> 2
    [] OTHER -> 0

(* The first event is the initial condition, the others toggle. *)
TogglesIn(w, c, p) == {i \in 2 .. Len(w) : CycleOf(w[i].time, p) = c}

(* Mutant: the last toggle of an odd number of them is a glitch too.       *)
IsGlitchAll(w, i, p) ==
  i > 1 /\ Cardinality(TogglesIn(w, CycleOf(w[i].time, p), p)) >= 2

(* Of the toggles in one cycle the first even number of them are glitches: *)
(* they leave the pin as it was.                                           *)
IsGlitch(w, i, p) ==
  i > 1 /\ LET S == TogglesIn(w, CycleOf(w[i].time, p), p)
           IN  Cardinality({k \in S : k <= i}) <= 2 * (Cardinality(S) \div 2)

Longest(S) == CHOOSE n \in S : \A m \in S : m <= n

(* The wider of the pulses before and after it, of those that end in       *)
(* another glitch.                                                         *)
PulseWidth(w, i, p) ==
  Longest({w[i].time - w[k].time : k \in {k \in {i - 1} : IsGlitch(w, k, p)}}
          \cup {w[k].time - w[i].time :
                  k \in {k \in {i + 1} \cap DOMAIN w : IsGlitch(w, k, p)}})

(* The ratio is (2 * width / SumSlew) squared, at most 1; in parts of      *)
(* FullCharge it is a whole number.                                        *)
FullCharge == IF SumSlew = 0 THEN 1 ELSE SumSlew * SumSlew

Ratio(width) ==
  IF SumSlew = 0 \/ 2 * width >= SumSlew THEN FullCharge ELSE 4 * width * width

(* What event i of a pin costs as regular and as glitch power, per half    *)
(* toggle.  A glitch whose ratio is not positive (a pulse of no width) is  *)
(* charged in full, as a regular toggle.                                   *)
Charge(g, pin, i, p) ==
  LET w == g.waves[pin]
      ratio == IF pin \notin g.clocks /\ IsGlitch(w, i, p) THEN Ratio(PulseWidth(w, i, p)) ELSE 0
  IN  IF ratio > 0 THEN [regular |-> 0, glitch |-> ratio] ELSE [regular |-> FullCharge, glitch |-> 0]

-----------------------------------------------------------------------------
(* The sweep. *)

(* The index into the leakage table: only 1 counts as high. *)
Leakage(state) == 1 + SumFunction([pin \in Pins |-> IF state[pin] = 1 THEN 2 ^ (pin - 1) ELSE 0])

(* Mutant: the cycle is found with the period, the first part with the     *)
(* start of the cycle.                                                     *)
OverlapFromLine(from, to, c, p) ==
  IF CycleOf(from, p) <= c /\ c * p <= 2 * to
    THEN (IF (c + 1) * p < 2 * to THEN (c + 1) * p ELSE 2 * to) - c * p
    ELSE 0

(* calculatePerCycleLeakagePower: the part of [from, to] in cycle c, in    *)
(* half units.  The first cycle is found in whole units per cycle, the     *)
(* others by the period itself.                                            *)
Overlap(from, to, c, p) ==
  IF CycleOf(from, p) <= c /\ c * p <= 2 * to
    THEN (IF (c + 1) * p < 2 * to THEN (c + 1) * p ELSE 2 * to)
         - (IF c = CycleOf(from, p) THEN 2 * from ELSE c * p)
    ELSE 0

Kinds == {"leakage", "internal", "glitchInternal", "switching", "glitchSwitching"}
NoPower == [k \in Kinds |-> 0]
NoWaveform(p) == [k \in Kinds |-> [c \in Slots(p) |-> 0]]

(* A pin without events keeps the default state, and one whose first event *)
(* is not at time 0 begins as X.                                           *)
Initially(g, pin) ==
  LET w == g.waves[pin] IN
  CASE w = <<>> -> g.default
    [] w # <<>> /\ w[1].time = 0 -> w[1].value
    [] OTHER -> X

SweepBegin(g, waveform) ==
  [state    |-> [pin \in Pins |-> Initially(g, pin)],
   next     |-> [pin \in Pins |->
                   IF g.waves[pin] # <<>> /\ g.waves[pin][1].time = 0 THEN 2 ELSE 1],
   time     |-> 0,
   power    |-> NoPower,
   waveform |-> waveform,
   threw    |-> \E pin \in Pins : Initially(g, pin) = Unmapped]

Unswept(g, s) == {pin \in Pins : s.next[pin] <= Len(g.waves[pin])}

(* Charge the leakage of the time up to t by the state until then. *)
ChargeLeakage(s, t, p) ==
  [s EXCEPT
     !.power["leakage"] = @ + Leakage(s.state) * 2 * (t - s.time),
     !.waveform["leakage"] =
        [c \in DOMAIN @ |-> @[c] + Leakage(s.state) * Overlap(s.time, t, c, p)],
     !.time = t]

(* In the waveforms, and in what timeBasedPower returns, glitch power is   *)
(* part of the internal and of the switching power.                        *)
AllOf(power) ==
  [power EXCEPT !["internal"] = @ + power["glitchInternal"],
                !["switching"] = @ + power["glitchSwitching"]]

(* Charge the events of the pins in T, one each, at the time of s. *)
ChargeToggles(g, s, T, after, p) ==
  LET cost(pin) == Charge(g, pin, s.next[pin], p)
      toggles(pin) == HalfToggles(s.state[pin], after[pin])
      rises(pin) == IF pin > NInputs THEN HalfRises(s.state[pin], after[pin]) ELSE 0
      sum(f(_)) == SumFunction([pin \in T |-> f(pin)])
      amount == [leakage |-> 0,
                 internal |-> sum(LAMBDA pin : toggles(pin) * cost(pin).regular),
                 glitchInternal |-> sum(LAMBDA pin : toggles(pin) * cost(pin).glitch),
                 switching |-> sum(LAMBDA pin : rises(pin) * cost(pin).regular),
                 glitchSwitching |-> sum(LAMBDA pin : rises(pin) * cost(pin).glitch)]
      here == CycleOf(s.time, p)
  IN  [s EXCEPT
         !.power = [k \in Kinds |-> @[k] + amount[k]],
         !.waveform = [k \in Kinds |-> [c \in Slots(p) |->
                         @[k][c] + IF c = here THEN AllOf(amount)[k] ELSE 0]]]

(* One instant: every pin whose next event is at the earliest time left    *)
(* takes that one event, a second event at the same time waiting for the   *)
(* next turn of the loop.                                                  *)
SweepInstant(g, s, p) ==
  LET at(pin) == g.waves[pin][s.next[pin]]
      t == CHOOSE t \in {at(pin).time : pin \in Unswept(g, s)} :
             \A pin \in Unswept(g, s) : t <= at(pin).time
      T == {pin \in Unswept(g, s) : at(pin).time = t}
      after == [pin \in Pins |-> IF pin \in T THEN at(pin).value ELSE s.state[pin]]
      charged == ChargeToggles(g, ChargeLeakage(s, t, p), T, after, p)
  IN  IF \E pin \in T : after[pin] = Unmapped
        THEN [s EXCEPT !.threw = TRUE]
        ELSE [charged EXCEPT
                !.state = after,
                !.next = [pin \in Pins |-> IF pin \in T THEN @[pin] + 1 ELSE @[pin]]]

Events(g) == SumFunction([pin \in Pins |-> Len(g.waves[pin])])

(* One turn of the loop, and what follows its last. *)
Turn(g, s, p) == IF s.threw \/ Unswept(g, s) = {} THEN s ELSE SweepInstant(g, s, p)
ChargeRest(s, p) == IF s.threw THEN s ELSE ChargeLeakage(s, TimeMax, p)

(* Every turn takes an event, so that there are at most as many.           *)
Sweep(g, waveform, p) ==
  LET after[n \in 0 .. Events(g)] ==
        IF n = 0 THEN SweepBegin(g, waveform) ELSE Turn(g, after[n - 1], p)
  IN  ChargeRest(after[Events(g)], p)

TimeBasedPower(g, waveform, p) == [Sweep(g, waveform, p) EXCEPT !.power = AllOf(@)]

(* The sweep that ended as s has taken a glitch, whose ratio needs the     *)
(* slews of the pin: where one is infinite, LOG_ERROR ends the process.    *)
TookGlitch(g, s, p) ==
  \E pin \in Pins \ g.clocks : \E i \in 1 .. s.next[pin] - 1 : IsGlitch(g.waves[pin], i, p)

-----------------------------------------------------------------------------
(* What the sweep computes, said without it. *)

(* The value of a pin once all events up to time t have happened. *)
ValueAt(g, pin, t) ==
  LET past == {i \in DOMAIN g.waves[pin] : g.waves[pin][i].time <= t}
  IN  IF past = {} THEN Initially(g, pin) ELSE g.waves[pin][Longest(past)].value

(* Leakage of the whole simulation, unit of time by unit of time. *)
LeakageOver(g, units) ==
  SumFunction([t \in units |-> 2 * Leakage([pin \in Pins |-> ValueAt(g, pin, t)])])

UnitsOf(c, p) == {t \in 0 .. TimeMax - 1 : p * c <= 2 * t /\ 2 * t < p * (c + 1)}

(* Half toggles of a pin charged as regular in a cycle, in FullCharges.    *)
RegularIn(g, pin, c, p) ==
  LET w == g.waves[pin]
  IN  SumFunction([i \in TogglesIn(w, c, p) |->
               HalfToggles(w[i - 1].value, w[i].value) * Charge(g, pin, i, p).regular])

(* A pin that is never X nor Z, with events apart from each other and each *)
(* a change.                                                               *)
TwoValued(w) == \A i \in 1 .. Len(w) : w[i].value \in {0, 1}
Apart(w) == \A i \in 2 .. Len(w) : w[i - 1].time < w[i].time
Alternates(w) == \A i \in 2 .. Len(w) : w[i - 1].value # w[i].value

(* The first to the last of the toggles in S leave the pin changed.        *)
Changed(w, S) ==
  \E i, k \in S : /\ \A m \in S : i <= m /\ m <= k
                  /\ w[i - 1].value # w[k].value
=============================================================================
