---------------------------- MODULE CpuPowerProofs ----------------------------
(***************************************************************************)
(* Proofs about CpuPower and the sweep of one gate, for any gates, number  *)
(* of threads, shuffle and interleaving.                                   *)
(*                                                                         *)
(* One gate.  The turns of the sweep keep an invariant: the events taken   *)
(* so far are those that have happened, the state is what they make of it, *)
(* and the waveform has grown by what is in the sums.  Every turn takes an *)
(* event, so that the last of as many turns as there are events has        *)
(* nothing left, and the result is exact.                                  *)
(*                                                                         *)
(* The threads.  The analysis is an owner of the pool (Spec => PoolSpec),  *)
(* so the pool's invariant holds: a job that runs is not settled, and a    *)
(* settled one no longer runs.  Hence nothing runs once the futures have   *)
(* been waited for, and the lists the main thread merges are final.        *)
(*                                                                         *)
(* The accounts.  The waveform of a job that has not thrown adds up to its *)
(* list of results, the totals are those of the threads merged, and the    *)
(* slices partition the gates: what is reported is exact.                  *)
(***************************************************************************)
EXTENDS CpuPower, ThreadPoolProofs, NatLemmas

-----------------------------------------------------------------------------
(* One gate.                                                               *)

(* The waveform of a pin: events in time order.                            *)
Wave(w) ==
  /\ w \in Seq([time : 0 .. TimeMax, value : Values])
  /\ \A i \in 2 .. Len(w) : w[i - 1].time <= w[i].time

(* The waveforms of a gate are.                                            *)
LEMMA GateWave ==
  ASSUME NEW g, WellFormed(g), NEW pin \in Pins
  PROVE  Wave(g.waves[pin])
BY DEF WellFormed, Wave

(* Times are those of the simulation, values those there are.              *)
LEMMA WaveType ==
  ASSUME NEW w, Wave(w)
  PROVE  /\ Len(w) \in Nat /\ DOMAIN w = 1 .. Len(w)
         /\ \A i \in 1 .. Len(w) : w[i].time \in 0 .. TimeMax /\ w[i].value \in Values
         /\ TimeMax \in Nat \ {0}
<1> DEFINE R == [time : 0 .. TimeMax, value : Values]
<1>1. w \in Seq(R)
  BY DEF Wave
<1>2. \A r \in R : r.time \in 0 .. TimeMax /\ r.value \in Values
  OBVIOUS
<1> HIDE DEF R
<1>3. Len(w) \in Nat /\ DOMAIN w = 1 .. Len(w)
  BY <1>1
<1>4. \A i \in 1 .. Len(w) : w[i] \in R
  BY <1>1
<1>5. \A i \in 1 .. Len(w) : w[i].time \in 0 .. TimeMax /\ w[i].value \in Values
  BY <1>2, <1>4
<1> QED BY <1>3, <1>5, GateAssumption

(* Later events have later times, or the same.                             *)
LEMMA WaveOrdered ==
  ASSUME NEW w, Wave(w), NEW i \in 1 .. Len(w), NEW k \in 1 .. Len(w), i <= k
  PROVE  w[i].time <= w[k].time
<1> DEFINE P == {m \in Nat : w[i].time <= w[i + m].time}
<1>1. /\ Len(w) \in Nat
      /\ \A m \in 1 .. Len(w) : w[m].time \in Nat
  BY WaveType
<1>2. 0 \in P
  BY <1>1
<1>3. ASSUME NEW m \in 0 .. (k - i) - 1, m \in P
      PROVE  m + 1 \in P
  <2>1. /\ m \in Nat /\ i + m \in 1 .. Len(w) /\ i + (m + 1) \in 2 .. Len(w)
        /\ (i + (m + 1)) - 1 = i + m
    BY <1>1
  <2>2. w[i + m].time <= w[i + (m + 1)].time
    BY <2>1 DEF Wave
  <2> QED BY <1>1, <1>3, <2>1, <2>2
<1>4. \A m \in 0 .. k - i : m \in P
  <2>1. k - i \in Nat
    BY <1>1
  <2> HIDE DEF P
  <2> QED BY <1>2, <1>3, <2>1, NumberInduction
<1>5. k - i \in P
  BY <1>1, <1>4
<1> QED BY <1>1, <1>5

-----------------------------------------------------------------------------
(* A cycle has the times from its line, in whole units, to the next.       *)
LEMMA CycleBounds ==
  ASSUME NEW p \in Nat \ {0}
  PROVE  /\ UnitsPerCycle(p) \in Nat \ {0}
         /\ \A t \in Nat : /\ CycleOf(t, p) \in Nat
                           /\ CycleOf(t, p) * UnitsPerCycle(p) <= t
                           /\ t < (CycleOf(t, p) + 1) * UnitsPerCycle(p)
                           /\ t % UnitsPerCycle(p) = t - CycleOf(t, p) * UnitsPerCycle(p)
<1>1. UnitsPerCycle(p) \in Nat \ {0}
  BY DEF UnitsPerCycle
<1> DEFINE U == UnitsPerCycle(p)
<1>2. U \in Nat \ {0}
  BY <1>1
<1> SUFFICES ASSUME NEW t \in Nat
             PROVE  /\ CycleOf(t, p) \in Nat
                    /\ CycleOf(t, p) * U <= t /\ t < (CycleOf(t, p) + 1) * U
                    /\ t % U = t - CycleOf(t, p) * U
  BY <1>1
<1> HIDE DEF U
<1> DEFINE q == t \div U
<1>3. q \in Nat /\ t % U \in 0 .. U - 1 /\ t = U * q + (t % U)
  BY <1>2, DivMod
<1>4. CycleOf(t, p) = q
  BY DEF CycleOf, U
<1> HIDE DEF q
<1>5. (q + 1) * U = q * U + U /\ q * U \in Nat /\ U * q = q * U
  BY <1>2, <1>3, MulSucc
<1>6. q * U <= t /\ t < (q + 1) * U /\ t % U = t - q * U
  <2>1. PICK r : r = t % U
    OBVIOUS
  <2>2. PICK x : x = q * U
    OBVIOUS
  <2>3. r \in Nat /\ r < U /\ x \in Nat /\ t = x + r
    BY <1>2, <1>3, <1>5, <2>1, <2>2
  <2>4. x <= t /\ t < x + U /\ r = t - x
    BY <1>2, <2>3
  <2> QED BY <1>5, <2>1, <2>2, <2>4
<1> QED BY <1>3, <1>4, <1>6

(* Cycles follow one another.                                              *)
LEMMA CycleMonotone ==
  ASSUME NEW p \in Nat \ {0}, NEW s \in Nat, NEW t \in Nat, s <= t
  PROVE  CycleOf(s, p) <= CycleOf(t, p)
<1> DEFINE U == UnitsPerCycle(p)
           a == CycleOf(s, p)
           b == CycleOf(t, p)
<1>1. U \in Nat \ {0} /\ a \in Nat /\ b \in Nat /\ a * U <= s /\ t < (b + 1) * U
  BY CycleBounds
<1> HIDE DEF U, a, b
<1>2. CASE b < a
  <2>1. (b + 1) * U <= a * U
    BY <1>1, <1>2, MulLeq
  <2>2. (b + 1) * U \in Nat /\ a * U \in Nat
    BY <1>1, MulSucc
  <2> QED BY <1>1, <2>1, <2>2
<1>3. CASE ~(b < a)
  BY <1>1, <1>3 DEF a, b
<1> QED BY <1>2, <1>3

(* The toggles of a cycle are consecutive events.                          *)
LEMMA TogglesConsecutive ==
  ASSUME NEW w, Wave(w), NEW p \in Nat \ {0}, NEW c, TogglesIn(w, c, p) # {}
  PROVE  \E a, b \in 2 .. Len(w) : a <= b /\ TogglesIn(w, c, p) = a .. b
<1> DEFINE S == TogglesIn(w, c, p)
<1>1. /\ Len(w) \in Nat
      /\ \A m \in 1 .. Len(w) : w[m].time \in Nat
  BY WaveType
<1>2. S \subseteq 2 .. Len(w) /\ \A i \in 2 .. Len(w) : i \in S <=> CycleOf(w[i].time, p) = c
  BY DEF TogglesIn
<1>3. S # {}
  OBVIOUS
<1> HIDE DEF S
<1>4. PICK a \in S : \A k \in S : a <= k
  <2>1. S \in SUBSET Nat
    BY <1>1, <1>2
  <2> QED BY <1>3, <2>1, NatMin
<1>5. PICK b \in S : \A k \in S : b >= k
  <2>1. S \in SUBSET (1 .. Len(w))
    BY <1>1, <1>2
  <2> QED BY <1>1, <1>3, <2>1, NatMax
<1>6. ASSUME NEW k \in a .. b
      PROVE  k \in S
  <2>1. /\ a \in 2 .. Len(w) /\ b \in 2 .. Len(w) /\ k \in 2 .. Len(w) /\ a <= k /\ k <= b
    BY <1>1, <1>2
  <2>2. w[a].time <= w[k].time /\ w[k].time <= w[b].time
    BY <1>1, <2>1, WaveOrdered
  <2>3. CycleOf(w[a].time, p) <= CycleOf(w[k].time, p) /\ CycleOf(w[k].time, p) <= CycleOf(w[b].time, p)
    BY <1>1, <2>1, <2>2, CycleMonotone
  <2>4. CycleOf(w[a].time, p) = c /\ CycleOf(w[b].time, p) = c
    BY <1>2
  <2>5. CycleOf(w[k].time, p) \in Nat /\ CycleOf(w[a].time, p) \in Nat
    <3>1. w[k].time \in Nat /\ w[a].time \in Nat
      BY <1>1, <2>1
    <3> QED BY <3>1, CycleBounds
  <2> QED BY <1>2, <2>1, <2>3, <2>4, <2>5
<1>7. S = a .. b
  <2>1. ASSUME NEW k \in S
        PROVE  k \in a .. b
    <3>1. k \in Nat /\ a \in Nat /\ b \in Nat
      BY <1>1, <1>2
    <3>2. a <= k /\ b >= k
      BY <1>4, <1>5
    <3> QED BY <3>1, <3>2
  <2> QED BY <1>6, <2>1
<1> QED BY <1>1, <1>2, <1>4, <1>5, <1>7 DEF S

(* Of the toggles of a cycle all are glitches but, of an odd number, the   *)
(* last.                                                                   *)
LEMMA GlitchRank ==
  ASSUME NEW w, Wave(w), NEW p \in Nat \ {0}, NEW c, NEW a \in 2 .. Len(w), NEW b \in 2 .. Len(w),
         TogglesIn(w, c, p) = a .. b, NEW i \in a .. b
  PROVE  IsGlitch(w, i, p) <=> ((b - a) % 2 = 1 \/ i < b)
<1>1. Len(w) \in Nat
  BY WaveType
<1>2. CycleOf(w[i].time, p) = c /\ i \in Nat /\ i > 1
  BY <1>1 DEF TogglesIn
<1>3. {k \in a .. b : k <= i} = a .. i
  BY <1>1
<1>4. a \in Int /\ i \in Int /\ b \in Int /\ a <= i /\ a <= b
  BY <1>1
<1>5. Cardinality(a .. i) = i - a + 1 /\ Cardinality(a .. b) = b - a + 1
  BY <1>4, FS_Interval
<1>6. IsGlitch(w, i, p) <=> i - a + 1 <= 2 * ((b - a + 1) \div 2)
  BY <1>2, <1>3, <1>5 DEF IsGlitch
<1>7. 2 * ((b - a + 1) \div 2) = IF (b - a) % 2 = 1 THEN b - a + 1 ELSE b - a
  BY <1>4
<1> QED BY <1>4, <1>6, <1>7

(* An event after the first is in its own cycle's toggles.                 *)
LEMMA GlitchCycle ==
  ASSUME NEW w, Wave(w), NEW p \in Nat \ {0}, NEW i \in 2 .. Len(w)
  PROVE  \E a, b \in 2 .. Len(w) :
           /\ a <= i /\ i <= b
           /\ TogglesIn(w, CycleOf(w[i].time, p), p) = a .. b
<1> DEFINE S == TogglesIn(w, CycleOf(w[i].time, p), p)
<1>1. i \in S
  BY DEF TogglesIn
<1>2. PICK a, b \in 2 .. Len(w) : a <= b /\ S = a .. b
  BY <1>1, TogglesConsecutive
<1> QED BY <1>1, <1>2

(* A glitch has another one next to it, in the same cycle.                 *)
LEMMA GlitchNeighbour ==
  ASSUME NEW w, Wave(w), NEW p \in Nat \ {0}, NEW i \in 1 .. Len(w), IsGlitch(w, i, p)
  PROVE  /\ i \in 2 .. Len(w)
         /\ \/ IsGlitch(w, i - 1, p)
            \/ i + 1 \in 1 .. Len(w) /\ IsGlitch(w, i + 1, p)
<1>1. Len(w) \in Nat
  BY WaveType
<1>2. i \in 2 .. Len(w)
  BY <1>1 DEF IsGlitch
<1>3. PICK a, b \in 2 .. Len(w) :
        /\ a <= i /\ i <= b
        /\ TogglesIn(w, CycleOf(w[i].time, p), p) = a .. b
  BY <1>2, GlitchCycle
<1>4. \A k \in a .. b : IsGlitch(w, k, p) <=> ((b - a) % 2 = 1 \/ k < b)
  BY <1>3, GlitchRank
<1>5. (b - a) % 2 = 1 \/ i < b
  BY <1>1, <1>3, <1>4
<1>6. CASE i + 1 \in a .. b /\ ((b - a) % 2 = 1 \/ i + 1 < b)
  <2>1. i + 1 \in 1 .. Len(w)
    BY <1>1, <1>6
  <2> QED BY <1>2, <1>4, <1>6, <2>1
<1>7. CASE ~(i + 1 \in a .. b /\ ((b - a) % 2 = 1 \/ i + 1 < b))
  <2>1. i = b \/ i + 1 = b
    BY <1>1, <1>3, <1>7
  <2>2. a # i
    BY <1>1, <1>3, <1>5, <1>7, <2>1
  <2>3. i - 1 \in a .. b /\ ((b - a) % 2 = 1 \/ i - 1 < b)
    BY <1>1, <1>3, <2>2
  <2> QED BY <1>2, <1>4, <2>3
<1> QED BY <1>6, <1>7

(* The width of a glitch is the time to an event next to it.               *)
LEMMA PulseBetween ==
  ASSUME NEW w, Wave(w), NEW p \in Nat \ {0}, NEW i \in 1 .. Len(w), IsGlitch(w, i, p)
  PROVE  /\ i \in 2 .. Len(w)
         /\ \/ PulseWidth(w, i, p) = w[i].time - w[i - 1].time
            \/ i + 1 \in 2 .. Len(w) /\ PulseWidth(w, i, p) = w[i + 1].time - w[i].time
<1>1. Len(w) \in Nat /\ \A m \in 1 .. Len(w) : w[m].time \in Nat
  BY WaveType
<1>2. DOMAIN w = 1 .. Len(w) /\ i \in 2 .. Len(w)
  BY GlitchNeighbour, WaveType
<1>3. /\ i - 1 \in 1 .. Len(w)
      /\ i + 1 \in 1 .. Len(w) => i + 1 \in 2 .. Len(w)
  BY <1>1, <1>2
<1> DEFINE before == w[i].time - w[i - 1].time
           after == w[i + 1].time - w[i].time
           L == {w[i].time - w[k].time : k \in {k \in {i - 1} : IsGlitch(w, k, p)}}
           R == {w[k].time - w[i].time : k \in {k \in {i + 1} \cap DOMAIN w : IsGlitch(w, k, p)}}
           V == L \cup R
<1>4. PulseWidth(w, i, p) = Longest(V)
  BY DEF PulseWidth
<1>5. L = IF IsGlitch(w, i - 1, p) THEN {before} ELSE {}
  OBVIOUS
<1>6. R = IF i + 1 \in 1 .. Len(w) /\ IsGlitch(w, i + 1, p) THEN {after} ELSE {}
  BY <1>2
<1>7. /\ V # {}
      /\ \A v \in V : v = before \/ (i + 1 \in 1 .. Len(w) /\ v = after)
  BY <1>5, <1>6, GlitchNeighbour
<1>8. before \in Int /\ (i + 1 \in 1 .. Len(w) => after \in Int)
  BY <1>1, <1>2, <1>3
<1> HIDE DEF V, before, after
<1>9. \E n \in V : \A m \in V : m <= n
  BY <1>7, <1>8
<1>10. Longest(V) \in V
  BY <1>9 DEF Longest
<1> QED BY <1>2, <1>3, <1>4, <1>7, <1>10 DEF before, after

-----------------------------------------------------------------------------
(* A square is positive.                                                   *)
LEMMA SquarePositive ==
  ASSUME NEW n \in Nat \ {0}
  PROVE  n * n \in Nat \ {0} /\ 4 * n * n \in Nat \ {0}
OBVIOUS

(* The full charge is positive, and so is the ratio of a width that is.    *)
LEMMA RatioType ==
  ASSUME NEW width \in Nat
  PROVE  /\ FullCharge \in Nat \ {0}
         /\ Ratio(width) \in Nat
         /\ width > 0 => Ratio(width) > 0
<1>1. FullCharge \in Nat \ {0}
  BY GateAssumption, SquarePositive DEF FullCharge
<1>2. 4 * width * width \in Nat /\ (width > 0 => 4 * width * width > 0)
  <2>1. CASE width = 0
    BY <2>1
  <2>2. CASE width # 0
    BY <2>2, SquarePositive
  <2> QED BY <2>1, <2>2
<1> QED BY <1>1, <1>2 DEF Ratio

(* The width of a glitch is a time; it is positive when no two events of   *)
(* the pin have the same time.                                             *)
LEMMA PulseType ==
  ASSUME NEW w, Wave(w), NEW p \in Nat \ {0}, NEW i \in 1 .. Len(w), IsGlitch(w, i, p)
  PROVE  /\ PulseWidth(w, i, p) \in Nat
         /\ (\A k \in 2 .. Len(w) : w[k - 1].time < w[k].time) => PulseWidth(w, i, p) > 0
<1>1. Len(w) \in Nat /\ \A m \in 1 .. Len(w) : w[m].time \in Nat
  BY WaveType
<1>2. \A k \in 2 .. Len(w) : w[k - 1].time <= w[k].time
  BY DEF Wave
<1>3. /\ i \in 2 .. Len(w)
      /\ \/ PulseWidth(w, i, p) = w[i].time - w[i - 1].time
         \/ i + 1 \in 2 .. Len(w) /\ PulseWidth(w, i, p) = w[i + 1].time - w[i].time
  BY PulseBetween
<1>4. PICK k \in 2 .. Len(w) : PulseWidth(w, i, p) = w[k].time - w[k - 1].time
  <2>1. CASE PulseWidth(w, i, p) = w[i].time - w[i - 1].time
    BY <1>3, <2>1
  <2>2. CASE i + 1 \in 2 .. Len(w) /\ PulseWidth(w, i, p) = w[i + 1].time - w[i].time
    <3>1. (i + 1) - 1 = i
      BY <1>1
    <3> QED BY <2>2, <3>1
  <2> QED BY <1>3, <2>1, <2>2
<1>5. k \in 1 .. Len(w) /\ k - 1 \in 1 .. Len(w)
  BY <1>1
<1>6. w[k].time \in Nat /\ w[k - 1].time \in Nat /\ w[k - 1].time <= w[k].time
  BY <1>1, <1>2, <1>5
<1> QED BY <1>4, <1>6

(* What an event is charged per half toggle.                               *)
LEMMA ChargeType ==
  ASSUME NEW g, WellFormed(g), NEW pin \in Pins, NEW p \in Nat \ {0},
         NEW i \in 1 .. Len(g.waves[pin])
  PROVE  /\ Charge(g, pin, i, p).regular \in Nat /\ Charge(g, pin, i, p).glitch \in Nat
         /\ ~IsGlitch(g.waves[pin], i, p) => Charge(g, pin, i, p).regular = FullCharge
         /\ pin \notin g.clocks /\ IsGlitch(g.waves[pin], i, p)
            /\ PulseWidth(g.waves[pin], i, p) > 0 => Charge(g, pin, i, p).regular = 0
<1> DEFINE w == g.waves[pin]
           ratio == IF pin \notin g.clocks /\ IsGlitch(w, i, p)
                      THEN Ratio(PulseWidth(w, i, p)) ELSE 0
<1>1. Wave(w)
  BY GateWave
<1>2. Charge(g, pin, i, p) =
        IF ratio > 0 THEN [regular |-> 0, glitch |-> ratio]
                     ELSE [regular |-> FullCharge, glitch |-> 0]
  BY DEF Charge
<1>3. IsGlitch(w, i, p) => PulseWidth(w, i, p) \in Nat
  BY <1>1, PulseType
<1>4. FullCharge \in Nat
  <2>1. 0 \in Nat
    OBVIOUS
  <2> QED BY <2>1, RatioType
<1>5. IsGlitch(w, i, p) => /\ Ratio(PulseWidth(w, i, p)) \in Nat
                           /\ PulseWidth(w, i, p) > 0 => Ratio(PulseWidth(w, i, p)) > 0
  BY <1>3, RatioType
<1>6. /\ ratio \in Nat
      /\ ~IsGlitch(w, i, p) => ratio = 0
      /\ pin \notin g.clocks /\ IsGlitch(w, i, p) /\ PulseWidth(w, i, p) > 0 => ratio > 0
  BY <1>5
<1> HIDE DEF ratio
<1> QED BY <1>2, <1>4, <1>6

-----------------------------------------------------------------------------

(* Even and odd numbers alternate.                                         *)
LEMMA Parity ==
  ASSUME NEW n \in Nat
  PROVE  n % 2 \in {0, 1} /\ ((n + 1) % 2 = 1 <=> n % 2 = 0)
OBVIOUS

(* A pin that alternates between two values has, an odd number of events   *)
(* on, the other one.                                                      *)
LEMMA Alternation ==
  ASSUME NEW w, Wave(w), TwoValued(w), Alternates(w),
         NEW i \in 1 .. Len(w), NEW k \in 1 .. Len(w), i <= k
  PROVE  (w[i].value # w[k].value) <=> ((k - i) % 2 = 1)
<1> DEFINE P == {m \in Nat : (w[i].value # w[i + m].value) <=> (m % 2 = 1)}
<1>1. Len(w) \in Nat
  BY WaveType
<1>2. 0 \in P
  BY <1>1
<1>3. ASSUME NEW m \in 0 .. (k - i) - 1, m \in P
      PROVE  m + 1 \in P
  <2>1. /\ m \in Nat /\ i + m \in 1 .. Len(w) /\ i + (m + 1) \in 2 .. Len(w)
        /\ (i + (m + 1)) - 1 = i + m /\ i + (m + 1) \in 1 .. Len(w)
    BY <1>1
  <2>2. w[i + m].value # w[i + (m + 1)].value
    BY <2>1 DEF Alternates
  <2>3. w[i].value \in {0, 1} /\ w[i + m].value \in {0, 1} /\ w[i + (m + 1)].value \in {0, 1}
    BY <2>1 DEF TwoValued
  <2>4. (w[i].value # w[i + m].value) <=> (m % 2 = 1)
    BY <1>3
  <2>5. ((m + 1) % 2 = 1) <=> ~(m % 2 = 1)
    BY <2>1, Parity
  <2> QED BY <2>1, <2>2, <2>3, <2>4, <2>5
<1>4. \A m \in 0 .. k - i : m \in P
  <2>1. k - i \in Nat
    BY <1>1
  <2> HIDE DEF P
  <2> QED BY <1>2, <1>3, <2>1, NumberInduction
<1>5. k - i \in P
  <2>1. k - i \in 0 .. k - i
    BY <1>1
  <2> QED BY <1>4, <2>1
<1>6. i + (k - i) = k
  BY <1>1
<1> QED BY <1>5, <1>6

(* What a pin that is never X, with no two events at one time, is charged  *)
(* as regular power in a cycle: one toggle if the cycle leaves it changed, *)
(* nothing if not.                                                         *)
LEMMA GateGlitchesCancel ==
  ASSUME NEW g, WellFormed(g), NEW pin \in Pins \ g.clocks, NEW p \in Nat \ {0}, NEW c,
         NEW w, w = g.waves[pin], NEW S, S = TogglesIn(w, c, p),
         TwoValued(w), Apart(w), Alternates(w)
  PROVE  RegularIn(g, pin, c, p) = IF Changed(w, S) THEN 2 * FullCharge ELSE 0
<1> DEFINE cost == [i \in S |-> HalfToggles(w[i - 1].value, w[i].value) * Charge(g, pin, i, p).regular]
<1>1. RegularIn(g, pin, c, p) = SumFunction(cost)
  BY DEF RegularIn
<1>2. DOMAIN cost = S
  OBVIOUS
<1>3. Wave(w) /\ Len(w) \in Nat /\ S \subseteq 2 .. Len(w)
  <2>1. Wave(w)
    BY GateWave
  <2> QED BY <2>1, WaveType DEF TogglesIn
<1>4. FullCharge \in Nat
  <2>1. 0 \in Nat
    OBVIOUS
  <2> QED BY <2>1, RatioType
<1>5. \A i \in S : cost[i] = 2 * Charge(g, pin, i, p).regular
  <2> SUFFICES ASSUME NEW i \in S PROVE HalfToggles(w[i - 1].value, w[i].value) = 2
    OBVIOUS
  <2>1. i \in 1 .. Len(w) /\ i - 1 \in 1 .. Len(w) /\ i \in 2 .. Len(w)
    BY <1>3
  <2>2. w[i].value \in {0, 1} /\ w[i - 1].value \in {0, 1} /\ w[i - 1].value # w[i].value
    BY <2>1 DEF TwoValued, Alternates
  <2> QED BY <2>2 DEF HalfToggles, X
<1> HIDE DEF cost
<1>6. CASE S = {}
  <2>1. SumFunction(cost) = 0
    BY <1>2, <1>6, SumEmpty
  <2> QED BY <1>1, <1>6, <2>1 DEF Changed
<1>7. CASE S # {}
  <2>1. PICK a, b \in 2 .. Len(w) : a <= b /\ S = a .. b
    BY <1>3, <1>7, TogglesConsecutive
  <2>2. ASSUME NEW i \in S
        PROVE  /\ ((b - a) % 2 = 1 \/ i < b) => cost[i] = 0
               /\ ~((b - a) % 2 = 1 \/ i < b) => cost[i] = 2 * FullCharge
    <3>1. i \in 1 .. Len(w)
      BY <1>3
    <3>2. IsGlitch(w, i, p) <=> ((b - a) % 2 = 1 \/ i < b)
      BY <1>3, <2>1, GlitchRank
    <3>3. IsGlitch(w, i, p) => PulseWidth(w, i, p) > 0
      BY <1>3, <3>1, PulseType DEF Apart
    <3>4. /\ ~IsGlitch(w, i, p) => Charge(g, pin, i, p).regular = FullCharge
          /\ IsGlitch(w, i, p) /\ PulseWidth(w, i, p) > 0 => Charge(g, pin, i, p).regular = 0
      BY <3>1, ChargeType
    <3>5. cost[i] = 2 * Charge(g, pin, i, p).regular
      BY <1>5
    <3>6. IsGlitch(w, i, p) => cost[i] = 0
      BY <3>3, <3>4, <3>5
    <3>7. ~IsGlitch(w, i, p) => cost[i] = 2 * FullCharge
      BY <3>4, <3>5
    <3> QED BY <3>2, <3>6, <3>7, Zenon
  <2>3. Changed(w, S) <=> (b - a) % 2 = 0
    <3>1. a - 1 \in 1 .. Len(w) /\ b \in 1 .. Len(w) /\ a - 1 <= b
      BY <1>3, <2>1
    <3>2. (w[a - 1].value # w[b].value) <=> ((b - (a - 1)) % 2 = 1)
      BY <1>3, <3>1, Alternation
    <3>3. ((b - (a - 1)) % 2 = 1) <=> ((b - a) % 2 = 0)
      <4>1. b - a \in Nat /\ b - (a - 1) = (b - a) + 1
        BY <1>3, <2>1
      <4> QED BY <4>1, Parity
    <3>4. ASSUME NEW i \in S, NEW k \in S, \A m \in S : i <= m /\ m <= k
          PROVE  i = a /\ k = b
      <4>1. a \in S /\ b \in S /\ a \in Nat /\ b \in Nat /\ i \in Nat /\ k \in Nat
        BY <1>3, <2>1
      <4>2. i <= a /\ b <= k /\ a <= i /\ k <= b
        BY <2>1, <3>4, <4>1
      <4> QED BY <4>1, <4>2
    <3>5. \A m \in S : a <= m /\ m <= b
      BY <2>1
    <3>6. a \in S /\ b \in S
      BY <1>3, <2>1
    <3>7. Changed(w, S) <=> (w[a - 1].value # w[b].value)
      <4>1. ASSUME Changed(w, S)
            PROVE  w[a - 1].value # w[b].value
        <5>1. PICK i, k \in S : /\ \A m \in S : i <= m /\ m <= k
                               /\ w[i - 1].value # w[k].value
          BY <4>1 DEF Changed
        <5>2. i = a /\ k = b
          BY <3>4, <5>1
        <5> QED BY <5>1, <5>2
      <4>2. ASSUME w[a - 1].value # w[b].value
            PROVE  Changed(w, S)
        BY <3>5, <3>6, <4>2 DEF Changed
      <4> QED BY <4>1, <4>2
    <3> QED BY <3>2, <3>3, <3>7
  <2>4. IsFiniteSet(S) /\ a \in Nat /\ b \in Nat
    BY <1>3, <2>1, FS_Interval
  <2>5. CASE (b - a) % 2 = 1
    <3>1. \A i \in DOMAIN cost : cost[i] = 0
      BY <1>2, <2>2, <2>5
    <3>2. SumFunction(cost) = 0
      BY <1>2, <2>4, <3>1, SumZero
    <3>3. ~Changed(w, S)
      BY <2>3, <2>5
    <3> QED BY <1>1, <3>2, <3>3
  <2>6. CASE (b - a) % 2 # 1
    <3>1. (b - a) % 2 = 0
      BY <2>4, <2>6, <2>1
    <3> DEFINE rest == [i \in S \ {b} |-> 0]
    <3>2. \A i \in S : cost[i] = IF i = b THEN 2 * FullCharge ELSE 0
      BY <2>1, <2>2, <2>4, <2>6
    <3>3. DOMAIN rest = S \ {b} /\ \A i \in DOMAIN rest : rest[i] = 0 /\ rest[i] = cost[i]
      BY <3>2
    <3>4. b \in S /\ IsFiniteSet(S \ {b})
      <4>1. b \in S
        BY <2>1, <2>4
      <4> QED BY <2>4, <4>1, FS_RemoveElement
    <3> HIDE DEF rest
    <3>5. SumFunction(rest) = 0
      BY <3>3, <3>4, SumZero
    <3>6. \A i \in DOMAIN cost : cost[i] \in Int
      BY <1>2, <1>4, <3>2
    <3>7. SumFunction(cost) = cost[b] + SumFunction(rest)
      <4>1. IsFiniteSet(DOMAIN cost) /\ b \in DOMAIN cost /\ DOMAIN rest = DOMAIN cost \ {b}
        BY <1>2, <2>4, <3>3, <3>4
      <4>2. \A i \in DOMAIN rest : rest[i] = cost[i]
        BY <3>3
      <4> QED BY <3>6, <4>1, <4>2, SumRemove
    <3>8. Changed(w, S)
      BY <2>3, <3>1
    <3> QED BY <1>1, <1>4, <3>2, <3>4, <3>5, <3>7, <3>8
  <2> QED BY <2>5, <2>6
<1> QED BY <1>6, <1>7

-----------------------------------------------------------------------------
(* A power of two is a number.                                             *)
LEMMA PowerOfTwo ==
  ASSUME NEW n \in Nat
  PROVE  2 ^ n \in Nat
<1>1. IsFiniteSet(1 .. n) /\ Cardinality(1 .. n) = n
  <2>1. 1 \in Int /\ n \in Int
    OBVIOUS
  <2>2. IsFiniteSet(1 .. n) /\ Cardinality(1 .. n) = IF 1 > n THEN 0 ELSE n - 1 + 1
    BY <2>1, FS_Interval
  <2> QED BY <2>2
<1>2. IsFiniteSet(SUBSET (1 .. n)) /\ Cardinality(SUBSET (1 .. n)) = 2 ^ n
  <2>1. IsFiniteSet(SUBSET (1 .. n)) /\ Cardinality(SUBSET (1 .. n)) = 2 ^ Cardinality(1 .. n)
    BY <1>1, FS_SUBSET
  <2> QED BY <1>1, <2>1
<1> QED BY <1>2, FS_CardinalityType

(* The pins are finitely many numbers.                                     *)
LEMMA PinsFinite == IsFiniteSet(Pins) /\ Pins \subseteq Nat
<1>1. 1 \in Int /\ NPins \in Int
  BY GateAssumption
<1>2. IsFiniteSet(1 .. NPins)
  BY <1>1, FS_Interval
<1> QED BY <1>1, <1>2 DEF Pins

(* The index of a state is a number, and that of the values of the pins.   *)
LEMMA LeakageType ==
  ASSUME NEW state
  PROVE  Leakage(state) \in Int
<1> DEFINE f == [pin \in Pins |-> IF state[pin] = 1 THEN 2 ^ (pin - 1) ELSE 0]
<1>1. DOMAIN f = Pins
  OBVIOUS
<1>2. \A pin \in Pins : f[pin] \in Int
  <2> SUFFICES ASSUME NEW pin \in Pins PROVE 2 ^ (pin - 1) \in Nat
    OBVIOUS
  <2>1. pin - 1 \in Nat
    BY GateAssumption DEF Pins
  <2> QED BY <2>1, PowerOfTwo
<1>3. Leakage(state) = 1 + SumFunction(f)
  BY DEF Leakage
<1> HIDE DEF f
<1>4. SumFunction(f) \in Int
  BY <1>1, <1>2, PinsFinite, SumType
<1> QED BY <1>3, <1>4

(* Leakage depends on the values of the pins only.                         *)
LEMMA LeakageEqual ==
  ASSUME NEW a, NEW b, \A pin \in Pins : a[pin] = b[pin]
  PROVE  Leakage(a) = Leakage(b)
<1> DEFINE f == [pin \in Pins |-> IF a[pin] = 1 THEN 2 ^ (pin - 1) ELSE 0]
           h == [pin \in Pins |-> IF b[pin] = 1 THEN 2 ^ (pin - 1) ELSE 0]
<1>1. f = h
  OBVIOUS
<1> QED BY <1>1 DEF Leakage

-----------------------------------------------------------------------------
(* The entries of the waveforms cover the simulation.                      *)
LEMMA PeriodsCover ==
  ASSUME NEW p \in Nat \ {0}
  PROVE  /\ NPeriod(p) \in Nat /\ NPeriod(p) * p \in Nat
         /\ 2 * TimeMax <= NPeriod(p) * p
         /\ p <= 2 * UnitsPerCycle(p)
         /\ p % 2 = 0 => p = 2 * UnitsPerCycle(p)
<1> DEFINE n == 2 * TimeMax + p - 1
           q == n \div p
<1>1. n \in Nat /\ TimeMax \in Nat
  BY GateAssumption
<1>2. NPeriod(p) = q
  BY DEF NPeriod
<1>3. q \in Nat /\ n % p \in 0 .. p - 1 /\ n = p * q + (n % p)
  <2> HIDE DEF n
  <2> QED BY <1>1, DivMod
<1>4. q * p \in Nat /\ p * q = q * p
  <2> HIDE DEF q
  <2> QED BY <1>3, MulSucc
<1>5. 2 * TimeMax <= q * p
  <2>1. PICK r : r = n % p
    OBVIOUS
  <2>2. PICK x : x = q * p
    OBVIOUS
  <2>3. n = x + r /\ r \in Nat /\ r <= p - 1 /\ x \in Nat
    <3> HIDE DEF n, q
    <3> QED BY <1>3, <1>4, <2>1, <2>2
  <2>4. 2 * TimeMax <= x
    BY <1>1, <2>3
  <2> QED BY <2>2, <2>4
<1>6. p <= 2 * UnitsPerCycle(p) /\ (p % 2 = 0 => p = 2 * UnitsPerCycle(p))
  BY DEF UnitsPerCycle
<1> HIDE DEF q
<1> QED BY <1>2, <1>3, <1>4, <1>5, <1>6

(* The cycle of a time, found in whole units, begins no later by the       *)
(* period; it has an entry, past the cycles only at the very end.          *)
LEMMA CycleSlot ==
  ASSUME NEW p \in Nat \ {0}, NEW t \in 0 .. TimeMax
  PROVE  /\ CycleOf(t, p) \in Slots(p)
         /\ CycleOf(t, p) * p \in Nat
         /\ CycleOf(t, p) * p <= 2 * t
         /\ CycleOf(t, p) = NPeriod(p) => t = TimeMax /\ TimeMax % UnitsPerCycle(p) = 0
<1> DEFINE U == UnitsPerCycle(p)
           c == CycleOf(t, p)
           n == NPeriod(p)
<1>1. t \in Nat /\ TimeMax \in Nat /\ t <= TimeMax
  BY GateAssumption
<1>2. U \in Nat \ {0} /\ c \in Nat /\ c * U <= t /\ t % U = t - c * U
  BY <1>1, CycleBounds
<1>3. n \in Nat /\ 2 * TimeMax <= n * p /\ p <= 2 * U
  BY PeriodsCover
<1> HIDE DEF U, c, n
<1>4. \A k \in Nat : k * p \in Nat /\ k * U \in Nat /\ k * p <= 2 * (k * U)
  <2> SUFFICES ASSUME NEW k \in Nat
               PROVE  k * p \in Nat /\ k * U \in Nat /\ k * p <= 2 * (k * U)
    OBVIOUS
  <2>1. p * k <= (2 * U) * k
    <3>1. 2 * U \in Nat
      BY <1>2
    <3>2. PICK V : V = 2 * U
      OBVIOUS
    <3> QED BY <1>3, <3>1, <3>2, MulLeq
  <2>2. k * p \in Nat /\ k * U \in Nat
    BY <1>2, MulSucc
  <2>3. p * k = k * p /\ (2 * U) * k = 2 * (k * U)
    BY <1>2
  <2> QED BY <2>1, <2>2, <2>3
<1>5. c * p \in Nat /\ c * p <= 2 * t
  BY <1>1, <1>2, <1>4
<1>6. c <= n
  <2>1. CASE n < c
    <3>1. n * p < c * p
      BY <1>2, <1>3, <2>1, MulLess
    <3> QED BY <1>1, <1>3, <1>4, <1>5, <3>1
  <2> QED BY <1>2, <1>3, <2>1
<1>7. c = n => t = TimeMax /\ TimeMax % U = 0
  <2> SUFFICES ASSUME c = n PROVE t = TimeMax /\ t - c * U = 0
    BY <1>2
  <2>1. c * U \in Nat /\ 2 * TimeMax <= 2 * (c * U)
    BY <1>2, <1>3, <1>4, <1>1, <1>5
  <2> QED BY <1>1, <1>2, <2>1
<1>8. c \in Slots(p)
  BY <1>2, <1>3, <1>6 DEF Slots, n
<1> QED BY <1>5, <1>7, <1>8 DEF U, c, n

(* The part of a time in a cycle is a number, and past the cycles nothing. *)
LEMMA OverlapType ==
  ASSUME NEW p \in Nat \ {0}, NEW to \in 0 .. TimeMax, NEW from \in 0 .. to, NEW c \in Nat
  PROVE  /\ Overlap(from, to, c, p) \in Int
         /\ c = NPeriod(p) => Overlap(from, to, c, p) = 0
<1>1. /\ TimeMax \in Nat /\ to \in Nat /\ from \in Nat /\ from <= to /\ to <= TimeMax
      /\ from \in 0 .. TimeMax
  BY GateAssumption
<1>2. c * p \in Nat /\ (c + 1) * p = c * p + p
  BY MulSucc
<1>3. Overlap(from, to, c, p) \in Int
  BY <1>1, <1>2 DEF Overlap
<1>4. ASSUME c = NPeriod(p)
      PROVE  Overlap(from, to, c, p) = 0
  <2>1. 2 * TimeMax <= c * p
    BY <1>4, PeriodsCover
  <2>2. CASE CycleOf(from, p) <= c /\ c * p <= 2 * to
    <3>1. /\ c * p = 2 * to /\ to = TimeMax
          /\ (IF (c + 1) * p < 2 * to THEN (c + 1) * p ELSE 2 * to) = 2 * to
      BY <1>1, <1>2, <2>1, <2>2
    <3>2. c = CycleOf(from, p) => from = to
      <4>1. CycleOf(from, p) = NPeriod(p) => from = TimeMax
        BY <1>1, CycleSlot
      <4> QED BY <1>4, <3>1, <4>1
    <3> QED BY <1>1, <1>2, <2>2, <3>1, <3>2 DEF Overlap
  <2>3. CASE ~(CycleOf(from, p) <= c /\ c * p <= 2 * to)
    BY <2>3 DEF Overlap
  <2> QED BY <2>2, <2>3
<1> QED BY <1>3, <1>4

(* The parts of a time in the cycles are the whole of it.                  *)
LEMMA OverlapSum ==
  ASSUME NEW p \in Nat \ {0}, NEW to \in 0 .. TimeMax, NEW from \in 0 .. to,
         NEW f, DOMAIN f = Slots(p), \A c \in Slots(p) : f[c] = Overlap(from, to, c, p)
  PROVE  SumFunction(f) = 2 * (to - from)
<1> DEFINE c0 == CycleOf(from, p)
           Line(c) == c * p
           Upto(m) == IF Line(m + 1) < 2 * to THEN Line(m + 1) ELSE 2 * to
           F(m) == [c \in 0 .. m |-> Overlap(from, to, c, p)]
           P == {m \in Nat : SumFunction(F(m)) = IF m < c0 THEN 0 ELSE Upto(m) - 2 * from}
<1>1. /\ TimeMax \in Nat /\ to \in Nat /\ from \in Nat /\ from <= to /\ to <= TimeMax
      /\ from \in 0 .. TimeMax
  BY GateAssumption
<1>2. /\ \A c \in Nat : Line(c) \in Nat /\ Line(c + 1) = Line(c) + p
      /\ Line(0) = 0
  BY MulSucc
<1>3. c0 \in Nat /\ c0 \in Slots(p) /\ Line(c0) <= 2 * from
  BY <1>1, CycleSlot, CycleBounds
<1>4. \A c \in Nat : Overlap(from, to, c, p) \in Int
  BY OverlapType
<1>5. \A c \in Nat :
        Overlap(from, to, c, p) =
          IF c0 <= c /\ Line(c) <= 2 * to
            THEN Upto(c) - (IF c = c0 THEN 2 * from ELSE Line(c)) ELSE 0
  BY DEF Overlap
<1> HIDE DEF c0, Line
<1>6. 0 \in P
  <2> DEFINE h == F(0)
             e == [c \in {} |-> Overlap(from, to, c, p)]
  <2>1. DOMAIN h = {} \cup {0} /\ DOMAIN e = {} /\ h[0] = Overlap(from, to, 0, p)
    OBVIOUS
  <2>2. IsFiniteSet({}) /\ SumFunction(e) = 0
    BY <2>1, FS_EmptySet, SumEmpty
  <2> HIDE DEF h, e
  <2>3. SumFunction(h) = h[0] + SumFunction(e)
    <3>1. PICK T : T = {}
      OBVIOUS
    <3>2. /\ IsFiniteSet(T) /\ 0 \notin T /\ DOMAIN e = T /\ DOMAIN h = T \cup {0}
          /\ h[0] \in Int /\ \A z \in T : e[z] = h[z] /\ h[z] \in Int
      BY <1>4, <2>1, <2>2, <3>1
    <3> HIDE DEF P, F, Upto
    <3> QED BY <3>2, SumAdd
  <2>4. SumFunction(h) = Overlap(from, to, 0, p)
    BY <1>4, <2>1, <2>2, <2>3
  <2>5. Overlap(from, to, 0, p) = IF 0 < c0 THEN 0 ELSE Upto(0) - 2 * from
    BY <1>1, <1>2, <1>3, <1>5
  <2> QED BY <2>4, <2>5 DEF h
<1>7. ASSUME NEW m \in Nat, m \in P
      PROVE  m + 1 \in P
  <2> DEFINE T == 0 .. m
             x == m + 1
             c == F(m)
             d == F(m + 1)
  <2>1. /\ x \in Nat /\ x \notin T /\ DOMAIN c = T /\ DOMAIN d = T \cup {x}
        /\ d[x] = Overlap(from, to, x, p)
        /\ \A z \in T : c[z] = d[z] /\ d[z] = Overlap(from, to, z, p) /\ z \in Nat
    OBVIOUS
  <2>2. IsFiniteSet(T)
    BY FS_Interval
  <2>3. SumFunction(c) = IF m < c0 THEN 0 ELSE Upto(m) - 2 * from
    BY <1>7
  <2>4. Overlap(from, to, x, p) =
          IF c0 <= x /\ Line(x) <= 2 * to
            THEN Upto(x) - (IF x = c0 THEN 2 * from ELSE Line(x)) ELSE 0
    BY <1>5
  <2>5. /\ Line(x) \in Nat /\ Line(x + 1) \in Nat /\ Line(x + 1) = Line(x) + p
        /\ Upto(m) = IF Line(x) < 2 * to THEN Line(x) ELSE 2 * to
    BY <1>2
  <2>6. Upto(x) = IF Line(x + 1) < 2 * to THEN Line(x + 1) ELSE 2 * to
    OBVIOUS
  <2>7. x = c0 => Line(x) <= 2 * from
    BY <1>3
  <2>8. m < c0 <=> (x <= c0)
    BY <1>3
  <2> HIDE DEF T, x, c, d, P, F, Upto
  <2>9. SumFunction(d) = d[x] + SumFunction(c)
    <3>1. d[x] \in Int /\ \A z \in T : c[z] = d[z] /\ d[z] \in Int
      BY <1>4, <2>1
    <3> QED BY <2>1, <2>2, <3>1, SumAdd
  <2>10. SumFunction(d) = IF x < c0 THEN 0 ELSE Upto(x) - 2 * from
    <3>1. CASE x < c0
      <4>1. m < c0 /\ ~(c0 <= x)
        BY <1>3, <2>1, <2>8, <3>1
      <4> QED BY <2>1, <2>3, <2>4, <2>9, <3>1, <4>1
    <3>2. CASE x = c0
      <4>1. m < c0 /\ c0 <= x /\ ~(x < c0)
        BY <1>3, <2>1, <2>8, <3>2
      <4>2. Line(x) <= 2 * to
        BY <1>1, <2>5, <2>7, <3>2
      <4>3. Overlap(from, to, x, p) = Upto(x) - 2 * from
        BY <2>4, <3>2, <4>1, <4>2
      <4>4. SumFunction(c) = 0
        BY <2>3, <4>1
      <4>5. Upto(x) - 2 * from \in Int
        BY <1>1, <2>5, <2>6
      <4> QED BY <2>1, <2>9, <4>1, <4>3, <4>4, <4>5
    <3>3. CASE c0 < x
      <4>1. ~(m < c0) /\ c0 <= x /\ x # c0 /\ ~(x < c0)
        BY <1>3, <2>1, <2>8, <3>3
      <4>2. SumFunction(c) = Upto(m) - 2 * from
        BY <2>3, <4>1
      <4>3. Overlap(from, to, x, p) = IF Line(x) <= 2 * to THEN Upto(x) - Line(x) ELSE 0
        BY <2>4, <4>1
      <4>4. Overlap(from, to, x, p) + (Upto(m) - 2 * from) = Upto(x) - 2 * from
        BY <1>1, <2>5, <2>6, <4>3
      <4> QED BY <2>1, <2>9, <4>1, <4>2, <4>4
    <3> QED BY <1>3, <2>1, <3>1, <3>2, <3>3
  <2> USE DEF P
  <2> QED BY <2>1, <2>10 DEF x, d
<1>8. NPeriod(p) \in Nat /\ 2 * TimeMax <= Line(NPeriod(p))
  BY PeriodsCover DEF Line
<1> DEFINE n == NPeriod(p)
<1>9. \A m \in 0 .. n : m \in P
  <2>1. n \in Nat
    BY <1>8
  <2>2. \A m \in 0 .. n - 1 : m \in P => m + 1 \in P
    BY <1>7, <2>1
  <2> HIDE DEF P, n
  <2> QED BY <1>6, <2>1, <2>2, NumberInduction
<1>10. n \in P
  BY <1>8, <1>9
<1>11. ~(n < c0) /\ n \in Nat
  BY <1>3, <1>8 DEF Slots
<1>12. Upto(n) = 2 * to
  BY <1>1, <1>2, <1>8
<1> DEFINE h == F(n)
<1>13. SumFunction(h) = 2 * to - 2 * from
  BY <1>10, <1>11, <1>12
<1>14. DOMAIN h = Slots(p) /\ \A c \in Slots(p) : h[c] = Overlap(from, to, c, p)
  BY DEF Slots
<1>15. IsFiniteSet(Slots(p))
  BY <1>8, FS_Interval DEF Slots
<1> HIDE DEF h
<1>16. SumFunction(h) = SumFunction(f)
  BY <1>14, <1>15, SumEqual
<1> QED BY <1>1, <1>13, <1>16

(* A period of a whole number of units: the part in a cycle is as long as  *)
(* there are units in it.                                                  *)
LEMMA OverlapUnits ==
  ASSUME NEW p \in Nat \ {0}, p % 2 = 0, NEW to \in 0 .. TimeMax, NEW from \in 0 .. to,
         NEW c \in Nat
  PROVE  /\ IsFiniteSet(UnitsOf(c, p) \cap (from .. to - 1))
         /\ Overlap(from, to, c, p) = 2 * Cardinality(UnitsOf(c, p) \cap (from .. to - 1))
<1> DEFINE U == UnitsPerCycle(p)
           c0 == CycleOf(from, p)
           Line(k) == k * U
           S == UnitsOf(c, p) \cap (from .. to - 1)
           lo == IF c = c0 THEN from ELSE Line(c)
           hi == IF Line(c + 1) < to THEN Line(c + 1) ELSE to
<1>1. /\ TimeMax \in Nat /\ to \in Nat /\ from \in Nat /\ from <= to /\ to <= TimeMax
  BY GateAssumption
<1>2. U \in Nat \ {0} /\ c0 \in Nat /\ Line(c0) <= from /\ from < Line(c0 + 1)
  BY <1>1, CycleBounds
<1>3. p = 2 * U
  BY PeriodsCover
<1>4. /\ \A k \in Nat : Line(k) \in Nat /\ Line(k + 1) = Line(k) + U
      /\ \A a, b \in Nat : a <= b => Line(a) <= Line(b)
  <2> HIDE DEF U
  <2> QED BY <1>2, MulSucc, MulLeq
<1>5. \A k \in Nat : k * p = 2 * Line(k) /\ p * k = 2 * Line(k)
  <2> HIDE DEF U
  <2> QED BY <1>2, <1>3
<1>6. \A t : t \in UnitsOf(c, p) <=> /\ t \in 0 .. TimeMax - 1
                                     /\ 2 * Line(c) <= 2 * t /\ 2 * t < 2 * Line(c + 1)
  <2>1. p * c = 2 * Line(c) /\ p * (c + 1) = 2 * Line(c + 1)
    BY <1>5
  <2> HIDE DEF Line, U
  <2> QED BY <2>1 DEF UnitsOf
<1>7. Overlap(from, to, c, p) =
        IF c0 <= c /\ 2 * Line(c) <= 2 * to
          THEN (IF 2 * Line(c + 1) < 2 * to THEN 2 * Line(c + 1) ELSE 2 * to)
               - (IF c = c0 THEN 2 * from ELSE 2 * Line(c))
          ELSE 0
  <2>1. c * p = 2 * Line(c) /\ (c + 1) * p = 2 * Line(c + 1)
    BY <1>5
  <2> HIDE DEF Line, U
  <2> QED BY <2>1 DEF Overlap
<1> HIDE DEF Line, U, c0
<1>8. Line(c) \in Nat /\ Line(c + 1) \in Nat /\ Line(c + 1) = Line(c) + U
  BY <1>4
<1>9. /\ c0 < c => from < Line(c)
      /\ c < c0 => Line(c + 1) <= from
      /\ c = c0 => Line(c) <= from /\ from < Line(c + 1)
  <2>1. c0 < c => Line(c0 + 1) <= Line(c)
    BY <1>2, <1>4
  <2>2. c < c0 => Line(c + 1) <= Line(c0)
    BY <1>2, <1>4
  <2>3. Line(c0) \in Nat /\ Line(c0 + 1) \in Nat
    BY <1>2, <1>4
  <2> QED BY <1>1, <1>2, <1>8, <2>1, <2>2, <2>3
<1>10. CASE c0 <= c /\ Line(c) <= to
  <2>1. lo \in Nat /\ hi \in Nat /\ lo <= hi
    BY <1>1, <1>2, <1>8, <1>9, <1>10
  <2>2. S = lo .. hi - 1
    <3>1. ASSUME NEW t \in Int
          PROVE  t \in S <=> t \in lo .. hi - 1
      BY <1>1, <1>2, <1>6, <1>8, <1>9, <1>10
    <3>2. S \subseteq Int /\ lo .. hi - 1 \subseteq Int
      BY <1>1, <2>1
    <3> HIDE DEF S, lo, hi
    <3> QED BY <3>1, <3>2
  <2>3. Overlap(from, to, c, p) = 2 * (hi - lo)
    BY <1>1, <1>7, <1>8, <1>10
  <2> HIDE DEF S, lo, hi
  <2>4. IsFiniteSet(S) /\ Cardinality(S) = hi - lo
    <3>1. lo \in Int /\ hi - 1 \in Int
      BY <2>1
    <3>2. IsFiniteSet(lo .. hi - 1) /\ Cardinality(lo .. hi - 1) = IF lo > hi - 1 THEN 0 ELSE hi - 1 - lo + 1
      BY <3>1, FS_Interval
    <3> QED BY <2>1, <2>2, <3>2
  <2> QED BY <2>3, <2>4 DEF S
<1>11. CASE ~(c0 <= c /\ Line(c) <= to)
  <2>1. S = {}
    BY <1>1, <1>2, <1>6, <1>8, <1>9, <1>11
  <2>2. Overlap(from, to, c, p) = 0
    BY <1>1, <1>7, <1>8, <1>11
  <2> QED BY <2>1, <2>2, FS_EmptySet
<1> QED BY <1>10, <1>11

-----------------------------------------------------------------------------
(* Leakage over units of time. *)

(* It is a number.                                                         *)
LEMMA LeakageOverType ==
  ASSUME NEW g, NEW A, IsFiniteSet(A)
  PROVE  LeakageOver(g, A) \in Int
<1> DEFINE f == [t \in A |-> 2 * Leakage([pin \in Pins |-> ValueAt(g, pin, t)])]
<1>1. DOMAIN f = A /\ LeakageOver(g, A) = SumFunction(f)
  BY DEF LeakageOver
<1>2. \A t \in DOMAIN f : f[t] \in Int
  BY LeakageType
<1> HIDE DEF f
<1> QED BY <1>1, <1>2, SumType

(* Over units apart from each other: the sum.                              *)
LEMMA LeakageOverUnion ==
  ASSUME NEW g, NEW A, NEW B, NEW C, C = A \cup B, A \cap B = {}, IsFiniteSet(A), IsFiniteSet(B)
  PROVE  LeakageOver(g, C) = LeakageOver(g, A) + LeakageOver(g, B)
<1> DEFINE a == [t \in A |-> 2 * Leakage([pin \in Pins |-> ValueAt(g, pin, t)])]
           b == [t \in B |-> 2 * Leakage([pin \in Pins |-> ValueAt(g, pin, t)])]
           f == [t \in C |-> 2 * Leakage([pin \in Pins |-> ValueAt(g, pin, t)])]
<1>1. /\ DOMAIN a = A /\ DOMAIN b = B /\ DOMAIN f = C
      /\ LeakageOver(g, A) = SumFunction(a)
      /\ LeakageOver(g, B) = SumFunction(b)
      /\ LeakageOver(g, C) = SumFunction(f)
  BY DEF LeakageOver
<1>2. \A t \in DOMAIN f : f[t] \in Int
  BY LeakageType
<1>3. (\A t \in A : a[t] = f[t]) /\ (\A t \in B : b[t] = f[t])
  OBVIOUS
<1> HIDE DEF a, b, f
<1>4. IsFiniteSet(C)
  BY FS_Union
<1>5. SumFunction(f) = SumFunction(a) + SumFunction(b)
  <2>1. DOMAIN f = DOMAIN a \cup DOMAIN b /\ DOMAIN a \cap DOMAIN b = {} /\ IsFiniteSet(DOMAIN f)
    BY <1>1, <1>4
  <2>2. \A t \in DOMAIN a : a[t] = f[t]
    BY <1>1, <1>3
  <2>3. \A t \in DOMAIN b : b[t] = f[t]
    BY <1>1, <1>3
  <2> QED BY <1>2, <2>1, <2>2, <2>3, SumUnion
<1> QED BY <1>1, <1>5

(* While the state stays the same, its leakage times the time.             *)
LEMMA LeakageOverConst ==
  ASSUME NEW g, NEW A, IsFiniteSet(A), NEW state,
         \A t \in A : \A pin \in Pins : ValueAt(g, pin, t) = state[pin]
  PROVE  LeakageOver(g, A) = 2 * Leakage(state) * Cardinality(A)
<1> DEFINE f == [t \in A |-> 2 * Leakage([pin \in Pins |-> ValueAt(g, pin, t)])]
<1>1. DOMAIN f = A /\ LeakageOver(g, A) = SumFunction(f)
  BY DEF LeakageOver
<1>2. \A t \in DOMAIN f : f[t] = 2 * Leakage(state)
  <2> SUFFICES ASSUME NEW t \in A
               PROVE  Leakage([pin \in Pins |-> ValueAt(g, pin, t)]) = Leakage(state)
    OBVIOUS
  <2> DEFINE s == [pin \in Pins |-> ValueAt(g, pin, t)]
  <2>1. \A pin \in Pins : s[pin] = state[pin]
    OBVIOUS
  <2> HIDE DEF s
  <2>2. Leakage(s) = Leakage(state)
    BY <2>1, LeakageEqual
  <2> QED BY <2>2 DEF s
<1> HIDE DEF f
<1>3. 2 * Leakage(state) \in Int
  BY LeakageType
<1> QED BY <1>1, <1>2, <1>3, SumConst

-----------------------------------------------------------------------------
(* What the sweep of a gate works on. *)
Waveforms(p) == [Kinds -> [Slots(p) -> Int]]

SweepStates(p) ==
  [state : [Pins -> Values], next : [Pins -> Nat], time : 0 .. TimeMax,
   power : [Kinds -> Int], waveform : Waveforms(p), threw : BOOLEAN]

(* There are as many entries as cycles, and one more.                      *)
LEMMA SlotsFinite ==
  ASSUME NEW p \in Nat \ {0}
  PROVE  IsFiniteSet(Slots(p)) /\ Slots(p) \subseteq Nat /\ NPeriod(p) \in Slots(p)
<1>1. NPeriod(p) \in Nat
  BY PeriodsCover
<1>2. IsFiniteSet(0 .. NPeriod(p))
  BY <1>1, FS_Interval
<1> QED BY <1>1, <1>2 DEF Slots

(* Leakage is charged to the sum and to the cycles the time falls in.      *)
LEMMA ChargeLeakageDoes ==
  ASSUME NEW p \in Nat \ {0}, NEW s \in SweepStates(p), NEW t \in 0 .. TimeMax, s.time <= t,
         NEW r, r = ChargeLeakage(s, t, p)
  PROVE  /\ r \in SweepStates(p)
         /\ r.state = s.state /\ r.next = s.next /\ r.threw = s.threw /\ r.time = t
         /\ r.power["leakage"] = s.power["leakage"] + Leakage(s.state) * 2 * (t - s.time)
         /\ \A c \in Slots(p) : r.waveform["leakage"][c] =
              s.waveform["leakage"][c] + Leakage(s.state) * Overlap(s.time, t, c, p)
         /\ \A k \in Kinds \ {"leakage"} :
              r.power[k] = s.power[k] /\ r.waveform[k] = s.waveform[k]
<1> DEFINE L == Leakage(s.state)
           old == s.waveform["leakage"]
           more == L * 2 * (t - s.time)
           new == [c \in DOMAIN old |-> old[c] + L * Overlap(s.time, t, c, p)]
           power == [s.power EXCEPT !["leakage"] = @ + more]
           wf == [s.waveform EXCEPT !["leakage"] = new]
<1>1. /\ s.power \in [Kinds -> Int] /\ s.waveform \in [Kinds -> [Slots(p) -> Int]]
      /\ s.time \in 0 .. TimeMax /\ TimeMax \in Nat
      /\ s.state \in [Pins -> Values] /\ s.next \in [Pins -> Nat] /\ s.threw \in BOOLEAN
  BY GateAssumption DEF SweepStates, Waveforms
<1>2. r = [s EXCEPT !.power = power, !.waveform = wf, !.time = t]
  BY DEF ChargeLeakage
<1>3. L \in Int
  BY LeakageType
<1>4. \A c \in Slots(p) : Overlap(s.time, t, c, p) \in Int
  <2>1. s.time \in 0 .. t
    BY <1>1
  <2> QED BY <2>1, OverlapType, SlotsFinite
<1>5. "leakage" \in Kinds
  BY DEF Kinds
<1>6. old \in [Slots(p) -> Int] /\ DOMAIN old = Slots(p)
  BY <1>1, <1>5
<1> HIDE DEF L, old
<1>7. new \in [Slots(p) -> Int]
  <2>1. \A c \in Slots(p) : old[c] + L * Overlap(s.time, t, c, p) \in Int
    BY <1>3, <1>4, <1>6
  <2> QED BY <1>6, <2>1
<1>8. \A c \in Slots(p) : new[c] = old[c] + L * Overlap(s.time, t, c, p)
  BY <1>6
<1>9. more \in Int
  BY <1>1, <1>3
<1> HIDE DEF more, new
<1>10. /\ power \in [Kinds -> Int] /\ power["leakage"] = s.power["leakage"] + more
       /\ \A k \in Kinds \ {"leakage"} : power[k] = s.power[k]
  BY <1>1, <1>5, <1>9
<1>11. /\ wf \in [Kinds -> [Slots(p) -> Int]] /\ wf["leakage"] = new
       /\ \A k \in Kinds \ {"leakage"} : wf[k] = s.waveform[k]
  BY <1>1, <1>5, <1>7
<1> HIDE DEF power, wf
<1>12. /\ r.power = power /\ r.waveform = wf /\ r.time = t
       /\ r.state = s.state /\ r.next = s.next /\ r.threw = s.threw
       /\ r = [state |-> s.state, next |-> s.next, time |-> t,
               power |-> power, waveform |-> wf, threw |-> s.threw]
  BY <1>2 DEF SweepStates
<1>13. r \in SweepStates(p)
  BY <1>1, <1>10, <1>11, <1>12 DEF SweepStates, Waveforms
<1> QED BY <1>8, <1>10, <1>11, <1>12, <1>13 DEF L, old, more

(* An event is two half toggles at most.                                   *)
LEMMA TogglesType ==
  ASSUME NEW a, NEW b
  PROVE  HalfToggles(a, b) \in 0 .. 2 /\ HalfRises(a, b) \in 0 .. 2
<1>1. HalfToggles(a, b) \in 0 .. 2
  <2>1. CASE a = b
    BY <2>1 DEF HalfToggles
  <2>2. CASE a # b /\ X \in {a, b}
    BY <2>2 DEF HalfToggles
  <2>3. CASE a # b /\ X \notin {a, b}
    BY <2>3 DEF HalfToggles
  <2> QED BY <2>1, <2>2, <2>3
<1>2. HalfRises(a, b) \in 0 .. 2
  <2>1. CASE <<a, b>> \in {<<0, X>>, <<X, 1>>}
    <3>1. <<a, b>> # <<0, 1>>
      BY <2>1 DEF X
    <3> QED BY <2>1, <3>1 DEF HalfRises
  <2>2. CASE <<a, b>> \notin {<<0, X>>, <<X, 1>>} /\ <<a, b>> = <<0, 1>>
    <3>1. HalfRises(a, b) = 2
      BY <2>2 DEF HalfRises
    <3> QED BY <3>1
  <2>3. CASE <<a, b>> \notin {<<0, X>>, <<X, 1>>} /\ <<a, b>> # <<0, 1>>
    <3>1. HalfRises(a, b) = 0
      BY <2>3 DEF HalfRises
    <3> QED BY <3>1
  <2> QED BY <2>1, <2>2, <2>3
<1> QED BY <1>1, <1>2

(* The kinds of power, one by one.                                         *)
LEMMA AllOfType ==
  ASSUME NEW power \in [Kinds -> Int]
  PROVE  /\ AllOf(power) \in [Kinds -> Int]
         /\ AllOf(power)["leakage"] = power["leakage"]
         /\ AllOf(power)["internal"] = power["internal"] + power["glitchInternal"]
         /\ AllOf(power)["glitchInternal"] = power["glitchInternal"]
         /\ AllOf(power)["switching"] = power["switching"] + power["glitchSwitching"]
         /\ AllOf(power)["glitchSwitching"] = power["glitchSwitching"]
<1> DEFINE a == power["internal"] + power["glitchInternal"]
           b == power["switching"] + power["glitchSwitching"]
<1>1. AllOf(power) = [power EXCEPT !["internal"] = a, !["switching"] = b]
  BY DEF AllOf
<1>2. a \in Int /\ b \in Int
  BY DEF Kinds
<1> HIDE DEF a, b
<1>3. AllOf(power) \in [Kinds -> Int]
  BY <1>1, <1>2
<1>4. /\ AllOf(power)["leakage"] = power["leakage"]
      /\ AllOf(power)["internal"] = a
      /\ AllOf(power)["glitchInternal"] = power["glitchInternal"]
      /\ AllOf(power)["switching"] = b
      /\ AllOf(power)["glitchSwitching"] = power["glitchSwitching"]
  BY <1>1 DEF Kinds
<1> QED BY <1>3, <1>4 DEF a, b

(* c is a and b together. *)
Together(a, b, c) == \A k \in Kinds : c[k] = a[k] + b[k]

(* Glitch power is added alike before and after adding up.                 *)
LEMMA AllOfPlus ==
  ASSUME NEW a \in [Kinds -> Int], NEW b \in [Kinds -> Int], NEW c \in [Kinds -> Int],
         Together(a, b, c)
  PROVE  Together(AllOf(a), AllOf(b), AllOf(c))
<1>1. /\ c["leakage"] = a["leakage"] + b["leakage"]
      /\ c["internal"] = a["internal"] + b["internal"]
      /\ c["glitchInternal"] = a["glitchInternal"] + b["glitchInternal"]
      /\ c["switching"] = a["switching"] + b["switching"]
      /\ c["glitchSwitching"] = a["glitchSwitching"] + b["glitchSwitching"]
  BY DEF Kinds, Together
<1>2. \A k \in Kinds : a[k] \in Int /\ b[k] \in Int /\ c[k] \in Int
  OBVIOUS
<1>3. AllOf(c)["leakage"] = AllOf(a)["leakage"] + AllOf(b)["leakage"]
  BY <1>1, AllOfType
<1>4. AllOf(c)["internal"] = AllOf(a)["internal"] + AllOf(b)["internal"]
  <2>1. /\ AllOf(c)["internal"] = c["internal"] + c["glitchInternal"]
        /\ AllOf(a)["internal"] = a["internal"] + a["glitchInternal"]
        /\ AllOf(b)["internal"] = b["internal"] + b["glitchInternal"]
    BY AllOfType
  <2> QED BY <1>1, <1>2, <2>1 DEF Kinds
<1>5. AllOf(c)["glitchInternal"] = AllOf(a)["glitchInternal"] + AllOf(b)["glitchInternal"]
  BY <1>1, AllOfType
<1>6. AllOf(c)["switching"] = AllOf(a)["switching"] + AllOf(b)["switching"]
  <2>1. /\ AllOf(c)["switching"] = c["switching"] + c["glitchSwitching"]
        /\ AllOf(a)["switching"] = a["switching"] + a["glitchSwitching"]
        /\ AllOf(b)["switching"] = b["switching"] + b["glitchSwitching"]
    BY AllOfType
  <2> QED BY <1>1, <1>2, <2>1 DEF Kinds
<1>7. AllOf(c)["glitchSwitching"] = AllOf(a)["glitchSwitching"] + AllOf(b)["glitchSwitching"]
  BY <1>1, AllOfType
<1> QED BY <1>3, <1>4, <1>5, <1>6, <1>7 DEF Kinds, Together

(* d is what r has been charged for toggles, from s. *)
TogglesCharged(d, s, r, p) ==
  /\ d["leakage"] = 0
  /\ Together(s.power, d, r.power)
  /\ \A k \in Kinds : \A c \in Slots(p) : r.waveform[k][c] =
       s.waveform[k][c] + (IF c = CycleOf(s.time, p) THEN AllOf(d)[k] ELSE 0)

(* The pins in T have an event left to take.                               *)
HaveNext(g, s, T) ==
  T \in SUBSET Pins /\ \A pin \in T : s.next[pin] \in 1 .. Len(g.waves[pin])

(* Charging toggles moves no pin and no time.                              *)
LEMMA ChargeTogglesFrame ==
  ASSUME NEW g, NEW p, NEW s \in SweepStates(p), NEW T, NEW after,
         NEW r, r = ChargeToggles(g, s, T, after, p)
  PROVE  r.state = s.state /\ r.next = s.next /\ r.threw = s.threw /\ r.time = s.time
BY DEF ChargeToggles, SweepStates

(* Toggles are charged to the sum and, the glitches with the others, to    *)
(* the cycle of the time.                                                  *)
LEMMA ChargeTogglesDoes ==
  ASSUME NEW g, WellFormed(g), NEW p \in Nat \ {0}, NEW s \in SweepStates(p),
         NEW T, HaveNext(g, s, T), NEW after, NEW r, r = ChargeToggles(g, s, T, after, p)
  PROVE  /\ r \in SweepStates(p)
         /\ \E d \in [Kinds -> Int] : TogglesCharged(d, s, r, p)
<1> USE DEF HaveNext
<1> DEFINE Cost(pin) == Charge(g, pin, s.next[pin], p)
           Toggles(pin) == HalfToggles(s.state[pin], after[pin])
           Rises(pin) == IF pin > NInputs THEN HalfRises(s.state[pin], after[pin]) ELSE 0
           ri == SumFunction([pin \in T |-> Toggles(pin) * Cost(pin).regular])
           rs == SumFunction([pin \in T |-> Rises(pin) * Cost(pin).regular])
           gi == SumFunction([pin \in T |-> Toggles(pin) * Cost(pin).glitch])
           gs == SumFunction([pin \in T |-> Rises(pin) * Cost(pin).glitch])
           here == CycleOf(s.time, p)
           d == [leakage |-> 0, internal |-> ri, glitchInternal |-> gi,
                 switching |-> rs, glitchSwitching |-> gs]
           power == [k \in Kinds |-> s.power[k] + d[k]]
           wf == [k \in Kinds |-> [c \in Slots(p) |->
                          s.waveform[k][c] + IF c = here THEN AllOf(d)[k] ELSE 0]]
<1>1. r = [s EXCEPT !.power = power, !.waveform = wf]
  BY DEF ChargeToggles
<1>2. IsFiniteSet(T)
  BY PinsFinite, FS_Subset
<1>3. ASSUME NEW pin \in T
      PROVE  /\ Toggles(pin) \in Int /\ Rises(pin) \in Int
             /\ Cost(pin).regular \in Int /\ Cost(pin).glitch \in Int
  <2>1. Cost(pin).regular \in Nat /\ Cost(pin).glitch \in Nat
    BY ChargeType
  <2>2. Toggles(pin) \in Int /\ Rises(pin) \in Int
    BY TogglesType
  <2> QED BY <2>1, <2>2
<1>4. ri \in Int /\ rs \in Int /\ gi \in Int /\ gs \in Int
  <2> HIDE DEF Cost, Toggles, Rises
  <2> DEFINE a == [pin \in T |-> Toggles(pin) * Cost(pin).regular]
             b == [pin \in T |-> Rises(pin) * Cost(pin).regular]
             c == [pin \in T |-> Toggles(pin) * Cost(pin).glitch]
             e == [pin \in T |-> Rises(pin) * Cost(pin).glitch]
  <2>1. DOMAIN a = T /\ DOMAIN b = T /\ DOMAIN c = T /\ DOMAIN e = T
    OBVIOUS
  <2>2. \A pin \in T : a[pin] \in Int
    BY <1>3
  <2>3. \A pin \in T : b[pin] \in Int
    BY <1>3
  <2>4. \A pin \in T : c[pin] \in Int
    BY <1>3
  <2>5. \A pin \in T : e[pin] \in Int
    BY <1>3
  <2> HIDE DEF a, b, c, e
  <2>6. SumFunction(a) \in Int
    BY <1>2, <2>1, <2>2, SumType
  <2>7. SumFunction(b) \in Int
    BY <1>2, <2>1, <2>3, SumType
  <2>8. SumFunction(c) \in Int
    BY <1>2, <2>1, <2>4, SumType
  <2>9. SumFunction(e) \in Int
    BY <1>2, <2>1, <2>5, SumType
  <2> QED BY <2>6, <2>7, <2>8, <2>9 DEF a, b, c, e
<1> HIDE DEF ri, rs, gi, gs
<1>5. /\ s.power \in [Kinds -> Int] /\ s.waveform \in [Kinds -> [Slots(p) -> Int]]
      /\ s.time \in 0 .. TimeMax
      /\ s.state \in [Pins -> Values] /\ s.next \in [Pins -> Nat] /\ s.threw \in BOOLEAN
  BY DEF SweepStates, Waveforms
<1>6. here \in Slots(p)
  BY <1>5, CycleSlot
<1> HIDE DEF here
<1>7. d["leakage"] = 0 /\ d \in [Kinds -> Int]
  <2>1. /\ d["leakage"] = 0 /\ d["internal"] = ri /\ d["glitchInternal"] = gi
        /\ d["switching"] = rs /\ d["glitchSwitching"] = gs
    OBVIOUS
  <2>2. DOMAIN d = Kinds
    BY DEF Kinds
  <2>3. d = [k \in DOMAIN d |-> d[k]]
    OBVIOUS
  <2> HIDE DEF d
  <2>4. \A k \in Kinds : d[k] \in Int
    BY <1>4, <2>1 DEF Kinds
  <2> QED BY <2>1, <2>2, <2>3, <2>4
<1> HIDE DEF d
<1>8. AllOf(d) \in [Kinds -> Int]
  BY <1>7, AllOfType
<1>9. power \in [Kinds -> Int] /\ \A k \in Kinds : power[k] = s.power[k] + d[k]
  BY <1>5, <1>7
<1>10. ASSUME NEW k \in Kinds
       PROVE  /\ wf[k] \in [Slots(p) -> Int]
              /\ \A c \in Slots(p) : wf[k][c] =
                   s.waveform[k][c] + (IF c = here THEN AllOf(d)[k] ELSE 0)
  <2>1. PICK f : f = s.waveform[k]
    OBVIOUS
  <2>2. PICK n : n = AllOf(d)[k]
    OBVIOUS
  <2>3. f \in [Slots(p) -> Int] /\ n \in Int
    BY <1>5, <1>8, <2>1, <2>2
  <2>4. wf[k] = [c \in Slots(p) |-> f[c] + IF c = here THEN n ELSE 0]
    BY <2>1, <2>2
  <2> HIDE DEF wf
  <2>5. wf[k] \in [Slots(p) -> Int]
    BY <1>6, <2>3, <2>4
  <2>6. \A c \in Slots(p) : wf[k][c] = f[c] + (IF c = here THEN n ELSE 0)
    BY <1>6, <2>3, <2>4
  <2> QED BY <2>1, <2>2, <2>5, <2>6
<1>11. wf \in [Kinds -> [Slots(p) -> Int]]
  <2>1. \A k \in Kinds : wf[k] \in [Slots(p) -> Int]
    BY <1>10
  <2>2. wf = [k \in Kinds |-> wf[k]]
    OBVIOUS
  <2> HIDE DEF wf
  <2> QED BY <2>1, <2>2
<1> HIDE DEF power, wf
<1>12. /\ r.power = power /\ r.waveform = wf /\ r.time = s.time
       /\ r.state = s.state /\ r.next = s.next /\ r.threw = s.threw
       /\ r = [state |-> s.state, next |-> s.next, time |-> s.time,
               power |-> power, waveform |-> wf, threw |-> s.threw]
  BY <1>1 DEF SweepStates
<1>13. r \in SweepStates(p)
  BY <1>5, <1>9, <1>11, <1>12 DEF SweepStates, Waveforms
<1>14. /\ \A k \in Kinds : r.power[k] = s.power[k] + d[k]
       /\ \A k \in Kinds : \A c \in Slots(p) : r.waveform[k][c] =
            s.waveform[k][c] + (IF c = CycleOf(s.time, p) THEN AllOf(d)[k] ELSE 0)
  BY <1>9, <1>10, <1>12 DEF here
<1>15. TogglesCharged(d, s, r, p)
  BY <1>7, <1>14 DEF TogglesCharged, Together
<1> QED BY <1>7, <1>12, <1>13, <1>15

-----------------------------------------------------------------------------
(* Before instant s of the sweep: the events taken so far are those that   *)
(* have happened, and the state is what they make of it.                   *)
SweptInv(g, s) ==
  \A pin \in Pins :
    /\ s.next[pin] \in 1 .. Len(g.waves[pin]) + 1
    /\ \A i \in 1 .. Len(g.waves[pin]) :
         IF i < s.next[pin] THEN g.waves[pin][i].time <= s.time
                            ELSE s.time <= g.waves[pin][i].time
    /\ s.state[pin] = IF s.next[pin] = 1 THEN Initially(g, pin)
                                         ELSE g.waves[pin][s.next[pin] - 1].value

(* What has been charged up to then, to the sums and to the waveform.      *)
ChargedInv(g, wf, p, s) ==
  /\ s.power["leakage"] = LeakageOver(g, 0 .. s.time - 1)
  /\ p % 2 = 0 => \A c \in Cycles(p) :
       s.waveform["leakage"][c] =
         wf["leakage"][c] + LeakageOver(g, UnitsOf(c, p) \cap (0 .. s.time - 1))
  /\ \A k \in Kinds :
       SumFunction(s.waveform[k]) = SumFunction(wf[k]) + AllOf(s.power)[k]
  /\ \A k \in Kinds : s.waveform[k][NPeriod(p)] # wf[k][NPeriod(p)] =>
       k # "leakage" /\ TimeMax % UnitsPerCycle(p) = 0

(* Until the next event of a pin its value is that of the state.           *)
LEMMA ValueUntilNext ==
  ASSUME NEW g, WellFormed(g), NEW s, SweptInv(g, s), NEW pin \in Pins,
         NEW t \in Nat, s.time \in Nat, s.time <= t,
         \A i \in 1 .. Len(g.waves[pin]) : s.next[pin] <= i => t < g.waves[pin][i].time
  PROVE  ValueAt(g, pin, t) = s.state[pin]
<1> DEFINE w == g.waves[pin]
           n == s.next[pin]
           past == {i \in DOMAIN w : w[i].time <= t}
<1>1. Wave(w)
  BY GateWave
<1>2. Len(w) \in Nat /\ DOMAIN w = 1 .. Len(w) /\ \A i \in 1 .. Len(w) : w[i].time \in Nat
  BY <1>1, WaveType
<1>3. /\ n \in 1 .. Len(w) + 1
      /\ \A i \in 1 .. Len(w) : i < n => w[i].time <= s.time
      /\ s.state[pin] = IF n = 1 THEN Initially(g, pin) ELSE w[n - 1].value
  BY DEF SweptInv
<1>4. \A i \in 1 .. Len(w) : n <= i => t < w[i].time
  OBVIOUS
<1>5. ValueAt(g, pin, t) = IF past = {} THEN Initially(g, pin) ELSE w[Longest(past)].value
  BY DEF ValueAt
<1> HIDE DEF w, n
<1>6. past = 1 .. n - 1
  <2>1. ASSUME NEW i \in 1 .. Len(w)
        PROVE  w[i].time <= t <=> i < n
    <3>1. CASE i < n
      BY <1>2, <1>3, <3>1
    <3>2. CASE ~(i < n)
      <4>1. n <= i
        BY <1>2, <1>3, <3>2
      <4> QED BY <1>2, <1>4, <3>2, <4>1
    <3> QED BY <3>1, <3>2
  <2> QED BY <1>2, <1>3, <2>1
<1> HIDE DEF past
<1>7. CASE n = 1
  BY <1>3, <1>5, <1>6, <1>7
<1>8. CASE n # 1
  <2>1. n - 1 \in past /\ \A m \in past : m <= n - 1
    BY <1>2, <1>3, <1>6, <1>8
  <2>2. Longest(past) \in past /\ \A m \in past : m <= Longest(past)
    BY <2>1 DEF Longest
  <2>3. Longest(past) = n - 1
    BY <1>2, <1>3, <1>6, <2>1, <2>2
  <2> QED BY <1>3, <1>5, <1>8, <2>1, <2>3
<1> QED BY <1>7, <1>8

(* Leakage of the time up to the next event, or to the end, is what the    *)
(* states the pins go through leak.                                        *)
LEMMA ChargeLeakageKeeps ==
  ASSUME NEW g, WellFormed(g), NEW p \in Nat \ {0}, NEW wf \in Waveforms(p),
         NEW s \in SweepStates(p), SweptInv(g, s), ChargedInv(g, wf, p, s),
         NEW t \in 0 .. TimeMax, s.time <= t,
         \A pin \in Pins : \A i \in 1 .. Len(g.waves[pin]) :
           s.next[pin] <= i => t <= g.waves[pin][i].time,
         NEW r, r = ChargeLeakage(s, t, p)
  PROVE  ChargedInv(g, wf, p, r)
<1> DEFINE L == Leakage(s.state)
           U == s.time .. t - 1
           V == 0 .. s.time - 1
<1>1. /\ r \in SweepStates(p) /\ r.time = t
      /\ r.power["leakage"] = s.power["leakage"] + L * 2 * (t - s.time)
      /\ \A c \in Slots(p) : r.waveform["leakage"][c] =
           s.waveform["leakage"][c] + L * Overlap(s.time, t, c, p)
      /\ \A k \in Kinds \ {"leakage"} : r.power[k] = s.power[k] /\ r.waveform[k] = s.waveform[k]
  BY ChargeLeakageDoes
<1>2. s.time \in 0 .. t /\ TimeMax \in Nat /\ s.time \in Nat /\ t \in Nat /\ t <= TimeMax
  BY GateAssumption DEF SweepStates
<1>3. L \in Int
  BY LeakageType
<1>4. IsFiniteSet(U) /\ IsFiniteSet(V) /\ Cardinality(U) = t - s.time
  <2>1. s.time \in Int /\ t - 1 \in Int /\ 0 \in Int /\ s.time - 1 \in Int
    BY <1>2
  <2>2. IsFiniteSet(U) /\ IsFiniteSet(V) /\ Cardinality(U) = IF s.time > t - 1 THEN 0 ELSE t - 1 - s.time + 1
    BY <2>1, FS_Interval
  <2> QED BY <1>2, <2>2
<1>5. \A u \in U : \A pin \in Pins : ValueAt(g, pin, u) = s.state[pin]
  <2> SUFFICES ASSUME NEW u \in U, NEW pin \in Pins PROVE ValueAt(g, pin, u) = s.state[pin]
    OBVIOUS
  <2>1. u \in Nat /\ s.time <= u /\ u < t
    BY <1>2
  <2>2. \A i \in 1 .. Len(g.waves[pin]) : s.next[pin] <= i => u < g.waves[pin][i].time
    <3> SUFFICES ASSUME NEW i \in 1 .. Len(g.waves[pin]), s.next[pin] <= i
                 PROVE  u < g.waves[pin][i].time
      OBVIOUS
    <3>1. t <= g.waves[pin][i].time
      OBVIOUS
    <3>2. g.waves[pin][i].time \in Nat
      <4>1. Wave(g.waves[pin])
        BY GateWave
      <4> QED BY <4>1, WaveType
    <3> QED BY <1>2, <2>1, <3>1, <3>2
  <2> QED BY <1>2, <2>1, <2>2, ValueUntilNext
<1>6. r.power["leakage"] = LeakageOver(g, 0 .. r.time - 1)
  <2>1. LeakageOver(g, U) = 2 * L * (t - s.time)
    BY <1>4, <1>5, LeakageOverConst
  <2>2. 0 .. t - 1 = V \cup U /\ V \cap U = {}
    BY <1>2
  <2>3. s.power["leakage"] = LeakageOver(g, V)
    BY DEF ChargedInv
  <2> HIDE DEF L, U, V
  <2>4. LeakageOver(g, 0 .. t - 1) = LeakageOver(g, V) + LeakageOver(g, U)
    BY <1>4, <2>2, LeakageOverUnion
  <2> QED BY <1>1, <1>2, <1>3, <2>1, <2>3, <2>4
<1>7. ASSUME p % 2 = 0, NEW c \in Cycles(p)
      PROVE  r.waveform["leakage"][c] =
               wf["leakage"][c] + LeakageOver(g, UnitsOf(c, p) \cap (0 .. r.time - 1))
  <2> DEFINE A == UnitsOf(c, p) \cap V
             B == UnitsOf(c, p) \cap U
  <2>1. c \in Nat /\ c \in Slots(p)
    <3>1. NPeriod(p) \in Nat
      BY PeriodsCover
    <3> QED BY <3>1 DEF Cycles, Slots
  <2>2. UnitsOf(c, p) \cap (0 .. t - 1) = A \cup B /\ A \cap B = {}
    <3>1. 0 .. t - 1 = V \cup U /\ V \cap U = {}
      BY <1>2
    <3> HIDE DEF U, V
    <3> QED BY <3>1
  <2>3. IsFiniteSet(A) /\ IsFiniteSet(B)
    <3>1. A \in SUBSET V /\ B \in SUBSET U
      OBVIOUS
    <3> QED BY <1>4, <3>1, FS_Subset
  <2>4. Overlap(s.time, t, c, p) = 2 * Cardinality(B)
    BY <1>2, <1>7, <2>1, OverlapUnits
  <2>5. LeakageOver(g, B) = 2 * L * Cardinality(B)
    <3>1. \A u \in B : \A pin \in Pins : ValueAt(g, pin, u) = s.state[pin]
      BY <1>5
    <3> HIDE DEF B
    <3> QED BY <2>3, <3>1, LeakageOverConst
  <2>6. s.waveform["leakage"][c] = wf["leakage"][c] + LeakageOver(g, A)
    BY <1>7 DEF ChargedInv
  <2>7. wf["leakage"][c] \in Int
    BY <2>1 DEF Waveforms, Kinds
  <2> HIDE DEF L, U, V, A, B
  <2>8. LeakageOver(g, UnitsOf(c, p) \cap (0 .. t - 1)) = LeakageOver(g, A) + LeakageOver(g, B)
    BY <2>2, <2>3, LeakageOverUnion
  <2>9. Cardinality(B) \in Nat /\ LeakageOver(g, A) \in Int
    BY <2>3, FS_CardinalityType, LeakageOverType
  <2>10. r.waveform["leakage"][c] = s.waveform["leakage"][c] + L * (2 * Cardinality(B))
    BY <1>1, <2>1, <2>4
  <2>11. L * (2 * Cardinality(B)) = LeakageOver(g, B)
    BY <1>3, <2>5, <2>9
  <2>12. r.time = t /\ L * (2 * Cardinality(B)) \in Int
    BY <1>1, <1>3, <2>9
  <2> QED BY <2>6, <2>7, <2>8, <2>9, <2>10, <2>11, <2>12
<1>8. /\ s.power \in [Kinds -> Int] /\ r.power \in [Kinds -> Int]
      /\ s.waveform \in [Kinds -> [Slots(p) -> Int]] /\ r.waveform \in [Kinds -> [Slots(p) -> Int]]
  BY <1>1 DEF SweepStates, Waveforms
<1>9. SumFunction(r.waveform["leakage"]) = SumFunction(s.waveform["leakage"]) + L * 2 * (t - s.time)
  <2> DEFINE f == s.waveform["leakage"]
             h == r.waveform["leakage"]
             o == [c \in Slots(p) |-> Overlap(s.time, t, c, p)]
             m == [c \in Slots(p) |-> L * o[c]]
  <2>1. f \in [Slots(p) -> Int] /\ h \in [Slots(p) -> Int]
    BY <1>8 DEF Kinds
  <2>2. \A c \in Slots(p) : o[c] \in Int
    BY <1>2, OverlapType, SlotsFinite
  <2>3. DOMAIN o = Slots(p) /\ \A c \in Slots(p) : o[c] = Overlap(s.time, t, c, p)
    OBVIOUS
  <2>4. DOMAIN m = Slots(p) /\ \A c \in Slots(p) : m[c] = L * o[c]
    OBVIOUS
  <2>5. \A c \in Slots(p) : h[c] = f[c] + m[c]
    BY <1>1
  <2> HIDE DEF f, h, o, m, L
  <2>6. \A c \in Slots(p) : m[c] \in Int
    BY <1>3, <2>2, <2>4
  <2>7. SumFunction(o) = 2 * (t - s.time)
    BY <1>2, <2>3, OverlapSum
  <2>8. SumFunction(m) = L * SumFunction(o)
    <3>1. \A c \in DOMAIN o : o[c] \in Int /\ m[c] = L * o[c]
      BY <2>2, <2>3, <2>4
    <3>2. IsFiniteSet(DOMAIN o) /\ DOMAIN m = DOMAIN o
      BY <2>3, <2>4, SlotsFinite
    <3> QED BY <1>3, <3>1, <3>2, SumScale
  <2>9. SumFunction(h) = SumFunction(f) + SumFunction(m)
    <3>1. \A c \in DOMAIN h : f[c] \in Int /\ m[c] \in Int /\ h[c] = f[c] + m[c]
      BY <2>1, <2>5, <2>6
    <3>2. IsFiniteSet(DOMAIN h) /\ DOMAIN f = DOMAIN h /\ DOMAIN m = DOMAIN h
      BY <2>1, <2>4, SlotsFinite
    <3> QED BY <3>1, <3>2, SumPlus
  <2>10. L * (2 * (t - s.time)) = L * 2 * (t - s.time)
    BY <1>2, <1>3
  <2> QED BY <2>7, <2>8, <2>9, <2>10 DEF f, h
<1>10. ASSUME NEW k \in Kinds
       PROVE  SumFunction(r.waveform[k]) = SumFunction(wf[k]) + AllOf(r.power)[k]
  <2>1. SumFunction(s.waveform[k]) = SumFunction(wf[k]) + AllOf(s.power)[k]
    BY DEF ChargedInv
  <2>2. CASE k = "leakage"
    <3>1. AllOf(r.power)[k] = r.power[k] /\ AllOf(s.power)[k] = s.power[k]
      BY <1>8, <2>2, AllOfType
    <3>2. SumFunction(wf[k]) \in Int
      <4>1. wf[k] \in [Slots(p) -> Int]
        BY DEF Waveforms
      <4>2. PICK f : f = wf[k]
        OBVIOUS
      <4>3. IsFiniteSet(DOMAIN f) /\ \A c \in DOMAIN f : f[c] \in Int
        BY <4>1, <4>2, SlotsFinite
      <4>4. SumFunction(f) \in Int
        BY <4>3, SumType
      <4> QED BY <4>2, <4>4
    <3>3. s.power[k] \in Int /\ L * 2 * (t - s.time) \in Int
      BY <1>2, <1>3, <1>8
    <3> HIDE DEF L
    <3>4. SumFunction(r.waveform[k]) = SumFunction(s.waveform[k]) + L * 2 * (t - s.time)
      BY <1>9, <2>2
    <3>5. r.power[k] = s.power[k] + L * 2 * (t - s.time)
      BY <1>1, <2>2
    <3> QED BY <2>1, <3>1, <3>2, <3>3, <3>4, <3>5
  <2>3. CASE k # "leakage"
    <3>1. r.waveform[k] = s.waveform[k]
      BY <1>1, <2>3
    <3>2. AllOf(r.power)[k] = AllOf(s.power)[k]
      <4>1. /\ r.power["internal"] = s.power["internal"]
            /\ r.power["glitchInternal"] = s.power["glitchInternal"]
            /\ r.power["switching"] = s.power["switching"]
            /\ r.power["glitchSwitching"] = s.power["glitchSwitching"]
        BY <1>1 DEF Kinds
      <4>2. k \in {"internal", "glitchInternal", "switching", "glitchSwitching"}
        BY <2>3 DEF Kinds
      <4> HIDE DEF L, U, V
      <4> QED BY <1>8, <4>1, <4>2, AllOfType
    <3> QED BY <2>1, <3>1, <3>2
  <2> QED BY <2>2, <2>3
<1>11. ASSUME NEW k \in Kinds, r.waveform[k][NPeriod(p)] # wf[k][NPeriod(p)]
       PROVE  k # "leakage" /\ TimeMax % UnitsPerCycle(p) = 0
  <2>1. r.waveform[k][NPeriod(p)] = s.waveform[k][NPeriod(p)]
    <3>1. CASE k = "leakage"
      <4>1. NPeriod(p) \in Slots(p) /\ NPeriod(p) \in Nat
        BY SlotsFinite
      <4>2. Overlap(s.time, t, NPeriod(p), p) = 0
        BY <1>2, <4>1, OverlapType
      <4>3. s.waveform["leakage"][NPeriod(p)] \in Int
        BY <1>8, <4>1 DEF Kinds
      <4> HIDE DEF L
      <4> QED BY <1>1, <1>3, <3>1, <4>1, <4>2, <4>3
    <3>2. CASE k # "leakage"
      BY <1>1, <3>2
    <3> QED BY <3>1, <3>2
  <2> QED BY <1>11, <2>1 DEF ChargedInv
<1> QED BY <1>6, <1>7, <1>10, <1>11 DEF ChargedInv

(* Toggles are charged alike to the sums and to the waveform.              *)
LEMMA ChargeTogglesKeeps ==
  ASSUME NEW g, WellFormed(g), NEW p \in Nat \ {0}, NEW wf \in Waveforms(p),
         NEW s \in SweepStates(p), ChargedInv(g, wf, p, s),
         NEW T, HaveNext(g, s, T), NEW after, NEW r, r = ChargeToggles(g, s, T, after, p)
  PROVE  ChargedInv(g, wf, p, r)
<1>1. r \in SweepStates(p) /\ r.time = s.time
  BY ChargeTogglesDoes, ChargeTogglesFrame
<1> DEFINE here == CycleOf(s.time, p)
<1>b. PICK d \in [Kinds -> Int] : TogglesCharged(d, s, r, p)
  <2> HIDE DEF here
  <2> QED BY ChargeTogglesDoes
<1>2. /\ d["leakage"] = 0 /\ Together(s.power, d, r.power)
      /\ \A k \in Kinds : \A c \in Slots(p) : r.waveform[k][c] =
           s.waveform[k][c] + (IF c = here THEN AllOf(d)[k] ELSE 0)
  BY <1>b DEF TogglesCharged
<1>3. /\ s.power \in [Kinds -> Int] /\ r.power \in [Kinds -> Int]
      /\ s.waveform \in [Kinds -> [Slots(p) -> Int]] /\ r.waveform \in [Kinds -> [Slots(p) -> Int]]
      /\ s.time \in 0 .. TimeMax /\ wf \in [Kinds -> [Slots(p) -> Int]]
  BY <1>1 DEF SweepStates, Waveforms
<1>4. AllOf(d) \in [Kinds -> Int] /\ AllOf(d)["leakage"] = 0
  BY <1>2, AllOfType
<1>5. here \in Slots(p) /\ (here = NPeriod(p) => TimeMax % UnitsPerCycle(p) = 0)
  BY <1>3, CycleSlot
<1>6. "leakage" \in Kinds /\ \A c \in Cycles(p) : c \in Slots(p)
  <2>1. NPeriod(p) \in Nat
    BY PeriodsCover
  <2> QED BY <2>1 DEF Kinds, Cycles, Slots
<1> HIDE DEF here
<1>7. \A c \in Slots(p) : r.waveform["leakage"][c] = s.waveform["leakage"][c]
  <2> SUFFICES ASSUME NEW c \in Slots(p)
               PROVE  r.waveform["leakage"][c] = s.waveform["leakage"][c]
    OBVIOUS
  <2>1. s.waveform["leakage"][c] \in Int
    BY <1>3, <1>6
  <2>2. r.waveform["leakage"][c] =
          s.waveform["leakage"][c] + (IF c = here THEN AllOf(d)["leakage"] ELSE 0)
    BY <1>2, <1>6 DEF here
  <2> QED BY <1>4, <2>1, <2>2
<1>8. r.power["leakage"] = s.power["leakage"]
  <2>1. r.power["leakage"] = s.power["leakage"] + d["leakage"]
    BY <1>2, <1>6 DEF Together
  <2>2. s.power["leakage"] \in Int
    BY <1>3, <1>6
  <2> QED BY <1>2, <2>1, <2>2
<1>9. ASSUME NEW k \in Kinds
      PROVE  SumFunction(r.waveform[k]) = SumFunction(wf[k]) + AllOf(r.power)[k]
  <2>1. SumFunction(s.waveform[k]) = SumFunction(wf[k]) + AllOf(s.power)[k]
    BY DEF ChargedInv
  <2>2. AllOf(r.power)[k] = AllOf(s.power)[k] + AllOf(d)[k]
    <3>1. Together(AllOf(s.power), AllOf(d), AllOf(r.power))
      BY <1>2, <1>3, AllOfPlus
    <3> QED BY <3>1 DEF Together
  <2>3. PICK f : f = s.waveform[k]
    OBVIOUS
  <2>4. PICK h : h = r.waveform[k]
    OBVIOUS
  <2>5. PICK n : n = AllOf(d)[k]
    OBVIOUS
  <2>6. /\ f \in [Slots(p) -> Int] /\ h \in [Slots(p) -> Int] /\ n \in Int
        /\ \A c \in Slots(p) : h[c] = f[c] + (IF c = here THEN n ELSE 0)
    BY <1>2, <1>3, <1>4, <2>3, <2>4, <2>5 DEF here
  <2>7. SumFunction(h) = SumFunction(f) + n
    <3>1. IsFiniteSet(DOMAIN f) /\ DOMAIN h = DOMAIN f /\ here \in DOMAIN f
      BY <1>5, <2>6, SlotsFinite
    <3>2. \A c \in DOMAIN f : f[c] \in Int
      BY <2>6
    <3>3. h[here] = f[here] + n
      BY <1>5, <2>6
    <3>4. \A c \in DOMAIN f \ {here} : h[c] = f[c]
      BY <2>6
    <3> QED BY <2>6, <3>1, <3>2, <3>3, <3>4, SumUpdate
  <2>8. AllOf(s.power)[k] \in Int
    BY <1>3, AllOfType
  <2>9. SumFunction(wf[k]) \in Int
    <3>1. PICK e : e = wf[k]
      OBVIOUS
    <3>2. e \in [Slots(p) -> Int]
      BY <1>3, <3>1
    <3>3. IsFiniteSet(DOMAIN e) /\ \A c \in DOMAIN e : e[c] \in Int
      BY <3>2, SlotsFinite
    <3>4. SumFunction(e) \in Int
      BY <3>3, SumType
    <3> QED BY <3>1, <3>4
  <2> QED BY <2>1, <2>2, <2>3, <2>4, <2>5, <2>6, <2>7, <2>8, <2>9
<1>10. ASSUME NEW k \in Kinds, r.waveform[k][NPeriod(p)] # wf[k][NPeriod(p)]
       PROVE  k # "leakage" /\ TimeMax % UnitsPerCycle(p) = 0
  <2>1. NPeriod(p) \in Slots(p)
    BY SlotsFinite
  <2>2. CASE k # "leakage" /\ here = NPeriod(p)
    BY <1>5, <2>2
  <2>3. CASE k = "leakage" \/ here # NPeriod(p)
    <3>1. s.waveform[k][NPeriod(p)] \in Int
      BY <1>3, <2>1
    <3>2. r.waveform[k][NPeriod(p)] = s.waveform[k][NPeriod(p)]
      <4>1. CASE k = "leakage"
        BY <1>7, <2>1, <4>1
      <4>2. CASE here # NPeriod(p)
        <5>1. r.waveform[k][NPeriod(p)] =
                s.waveform[k][NPeriod(p)] + (IF NPeriod(p) = here THEN AllOf(d)[k] ELSE 0)
          BY <1>2, <2>1
        <5> QED BY <3>1, <4>2, <5>1
      <4> QED BY <2>3, <4>1, <4>2
    <3> QED BY <1>10, <3>2 DEF ChargedInv
  <2> QED BY <2>2, <2>3
<1>11. r.power["leakage"] = LeakageOver(g, 0 .. r.time - 1)
  BY <1>1, <1>8 DEF ChargedInv
<1>12. p % 2 = 0 => \A c \in Cycles(p) :
         r.waveform["leakage"][c] =
           wf["leakage"][c] + LeakageOver(g, UnitsOf(c, p) \cap (0 .. r.time - 1))
  BY <1>1, <1>6, <1>7 DEF ChargedInv
<1> QED BY <1>9, <1>10, <1>11, <1>12 DEF ChargedInv

-----------------------------------------------------------------------------
SweepInv(g, wf, p, s) ==
  s \in SweepStates(p) /\ SweptInv(g, s) /\ ChargedInv(g, wf, p, s)

(* A pin begins with a value the map knows, or with the one it lacks.      *)
LEMMA InitiallyType ==
  ASSUME NEW g, WellFormed(g), NEW pin \in Pins
  PROVE  Initially(g, pin) \in Values
<1> DEFINE w == g.waves[pin]
<1>1. Wave(w)
  BY GateWave
<1>2. /\ w \in Seq([time : 0 .. TimeMax, value : Values])
      /\ Len(w) \in Nat /\ \A i \in 1 .. Len(w) : w[i].value \in Values
  BY <1>1, WaveType DEF Wave
<1> HIDE DEF w
<1>3. CASE w = <<>>
  BY <1>3 DEF Initially, w, WellFormed
<1>4. CASE w # <<>> /\ w[1].time = 0
  <2>1. 1 \in 1 .. Len(w)
    BY <1>2, <1>4
  <2>2. Initially(g, pin) = w[1].value
    BY <1>4 DEF Initially, w
  <2> QED BY <1>2, <2>1, <2>2
<1>5. CASE w # <<>> /\ w[1].time # 0
  <2>1. Initially(g, pin) = X
    BY <1>5 DEF Initially, w
  <2> QED BY <2>1 DEF Values
<1> QED BY <1>3, <1>4, <1>5

(* The sweep begins with the first events that are at time 0.              *)
LEMMA SweepBegins ==
  ASSUME NEW g, WellFormed(g), NEW p \in Nat \ {0}, NEW wf \in Waveforms(p)
  PROVE  SweepInv(g, wf, p, SweepBegin(g, wf))
<1> DEFINE s == SweepBegin(g, wf)
           First(pin) == g.waves[pin] # <<>> /\ g.waves[pin][1].time = 0
<1>1. /\ s.state = [pin \in Pins |-> Initially(g, pin)]
      /\ s.next = [pin \in Pins |-> IF First(pin) THEN 2 ELSE 1]
      /\ s.time = 0 /\ s.power = NoPower /\ s.waveform = wf
  BY DEF SweepBegin
<1>2. s.threw \in BOOLEAN
  BY Zenon DEF SweepBegin
<1>3. s = [state |-> s.state, next |-> s.next, time |-> s.time, power |-> s.power,
           waveform |-> s.waveform, threw |-> s.threw]
  BY DEF SweepBegin
<1> HIDE DEF s
<1>4. NoPower \in [Kinds -> Int] /\ \A k \in Kinds : NoPower[k] = 0
  BY DEF NoPower
<1>5. s \in SweepStates(p)
  <2>1. s.state \in [Pins -> Values]
    BY <1>1, InitiallyType
  <2>2. s.next \in [Pins -> Nat]
    BY <1>1
  <2>3. s.time \in 0 .. TimeMax
    BY <1>1, GateAssumption
  <2> QED BY <1>1, <1>2, <1>3, <1>4, <2>1, <2>2, <2>3 DEF SweepStates
<1>6. SweptInv(g, s)
  <2> SUFFICES ASSUME NEW pin \in Pins
               PROVE  /\ s.next[pin] \in 1 .. Len(g.waves[pin]) + 1
                      /\ \A i \in 1 .. Len(g.waves[pin]) :
                           IF i < s.next[pin] THEN g.waves[pin][i].time <= s.time
                                              ELSE s.time <= g.waves[pin][i].time
                      /\ s.state[pin] = IF s.next[pin] = 1 THEN Initially(g, pin)
                                          ELSE g.waves[pin][s.next[pin] - 1].value
    BY DEF SweptInv
  <2>1. PICK w : w = g.waves[pin]
    OBVIOUS
  <2>2. Wave(w)
    BY <2>1, GateWave
  <2>3. /\ w \in Seq([time : 0 .. TimeMax, value : Values])
        /\ Len(w) \in Nat /\ \A i \in 1 .. Len(w) : w[i].time \in Nat
    <3>1. w \in Seq([time : 0 .. TimeMax, value : Values])
      BY <2>2 DEF Wave
    <3>2. Len(w) \in Nat /\ \A i \in 1 .. Len(w) : w[i].time \in Nat
      BY <2>2, WaveType
    <3> QED BY <3>1, <3>2
  <2>4. s.state[pin] = Initially(g, pin) /\ s.time = 0
    BY <1>1
  <2>5. s.next[pin] = IF w # <<>> /\ w[1].time = 0 THEN 2 ELSE 1
    BY <1>1, <2>1
  <2>6. CASE w # <<>> /\ w[1].time = 0
    <3>1. Len(w) > 0 /\ s.next[pin] = 2
      BY <2>3, <2>5, <2>6
    <3>2. Initially(g, pin) = w[1].value
      BY <2>1, <2>6 DEF Initially
    <3>3. s.next[pin] \in 1 .. Len(w) + 1
      BY <2>3, <3>1
    <3>4. s.state[pin] = w[s.next[pin] - 1].value /\ s.next[pin] # 1
      BY <2>4, <3>1, <3>2
    <3>5. \A i \in 1 .. Len(w) : IF i < s.next[pin] THEN w[i].time <= s.time ELSE s.time <= w[i].time
      BY <2>3, <2>4, <2>6, <3>1
    <3> QED BY <2>1, <3>3, <3>4, <3>5
  <2>7. CASE ~(w # <<>> /\ w[1].time = 0)
    <3>1. s.next[pin] = 1
      BY <2>5, <2>7
    <3> QED BY <2>1, <2>3, <2>4, <3>1
  <2> QED BY <2>6, <2>7
<1>7. \A A : LeakageOver(g, A \cap {}) = 0 /\ LeakageOver(g, {}) = 0
  <2> DEFINE f == [t \in {} |-> 2 * Leakage([pin \in Pins |-> ValueAt(g, pin, t)])]
  <2>1. LeakageOver(g, {}) = SumFunction(f)
    BY DEF LeakageOver
  <2>2. DOMAIN f = {}
    OBVIOUS
  <2> HIDE DEF f
  <2>3. SumFunction(f) = 0
    BY <2>2, SumEmpty
  <2>4. \A A : A \cap {} = {}
    OBVIOUS
  <2> QED BY <2>1, <2>3, <2>4
<1>8. 0 .. s.time - 1 = {}
  BY <1>1
<1>9. s.power["leakage"] = LeakageOver(g, 0 .. s.time - 1)
  BY <1>1, <1>4, <1>7, <1>8 DEF Kinds
<1>10. \A c \in Cycles(p) :
         s.waveform["leakage"][c] =
           wf["leakage"][c] + LeakageOver(g, UnitsOf(c, p) \cap (0 .. s.time - 1))
  <2> SUFFICES ASSUME NEW c \in Cycles(p)
               PROVE  wf["leakage"][c] = wf["leakage"][c] + 0
    BY <1>1, <1>7, <1>8
  <2>1. c \in Slots(p) /\ "leakage" \in Kinds
    <3>1. NPeriod(p) \in Nat
      BY PeriodsCover
    <3> QED BY <3>1 DEF Cycles, Slots, Kinds
  <2>2. wf["leakage"][c] \in Int
    BY <2>1 DEF Waveforms
  <2> QED BY <2>2
<1>11. \A k \in Kinds : SumFunction(s.waveform[k]) = SumFunction(wf[k]) + AllOf(s.power)[k]
  <2> SUFFICES ASSUME NEW k \in Kinds
               PROVE  SumFunction(wf[k]) = SumFunction(wf[k]) + AllOf(NoPower)[k]
    BY <1>1
  <2>1. AllOf(NoPower)[k] = 0
    <3>1. /\ NoPower["leakage"] = 0 /\ NoPower["internal"] = 0 /\ NoPower["glitchInternal"] = 0
          /\ NoPower["switching"] = 0 /\ NoPower["glitchSwitching"] = 0
      BY <1>4 DEF Kinds
    <3> QED BY <1>4, <3>1, AllOfType DEF Kinds
  <2>2. SumFunction(wf[k]) \in Int
    <3>1. PICK e : e = wf[k]
      OBVIOUS
    <3>2. e \in [Slots(p) -> Int]
      BY <3>1 DEF Waveforms
    <3>3. IsFiniteSet(DOMAIN e) /\ \A c \in DOMAIN e : e[c] \in Int
      BY <3>2, SlotsFinite
    <3>4. SumFunction(e) \in Int
      BY <3>3, SumType
    <3> QED BY <3>1, <3>4
  <2> QED BY <2>1, <2>2
<1>12. ChargedInv(g, wf, p, s)
  BY <1>1, <1>9, <1>10, <1>11 DEF ChargedInv
<1> QED BY <1>5, <1>6, <1>12 DEF SweepInv, s

(* r has taken an event more than s. *)
Further(s, r) ==
  /\ \A pin \in Pins : s.next[pin] <= r.next[pin]
  /\ \E pin \in Pins : s.next[pin] < r.next[pin]

(* An instant takes the earliest events left, and charges the leakage      *)
(* until then and their toggles; one that throws changes nothing else.     *)
LEMMA SweepInstantKeeps ==
  ASSUME NEW g, WellFormed(g), NEW p \in Nat \ {0}, NEW wf \in Waveforms(p),
         NEW s, SweepInv(g, wf, p, s), Unswept(g, s) # {},
         NEW r, r = SweepInstant(g, s, p)
  PROVE  SweepInv(g, wf, p, r) /\ (r.threw \/ Further(s, r))
<1> DEFINE At(pin) == g.waves[pin][s.next[pin]]
           Left == Unswept(g, s)
           t == CHOOSE t \in {At(pin).time : pin \in Left} :
                  \A pin \in Left : t <= At(pin).time
           T == {pin \in Left : At(pin).time = t}
           after == [pin \in Pins |-> IF pin \in T THEN At(pin).value ELSE s.state[pin]]
           c1 == ChargeLeakage(s, t, p)
           c2 == ChargeToggles(g, c1, T, after, p)
           next == [pin \in Pins |-> IF pin \in T THEN c2.next[pin] + 1 ELSE c2.next[pin]]
<1>1. r = IF \E pin \in T : after[pin] = Unmapped
            THEN [s EXCEPT !.threw = TRUE] ELSE [c2 EXCEPT !.state = after, !.next = next]
  BY DEF SweepInstant
<1>2. /\ s \in SweepStates(p) /\ SweptInv(g, s) /\ ChargedInv(g, wf, p, s)
  BY DEF SweepInv
<1>3. /\ s.time \in 0 .. TimeMax /\ TimeMax \in Nat /\ s.threw \in BOOLEAN
      /\ s.state \in [Pins -> Values] /\ s.next \in [Pins -> Nat]
  BY <1>2, GateAssumption DEF SweepStates
<1>4. ASSUME NEW pin \in Pins
      PROVE  /\ Len(g.waves[pin]) \in Nat
             /\ \A i \in 1 .. Len(g.waves[pin]) :
                  g.waves[pin][i].time \in 0 .. TimeMax /\ g.waves[pin][i].value \in Values
  <2>1. Wave(g.waves[pin])
    BY GateWave
  <2> QED BY <2>1, WaveType
<1>5. ASSUME NEW pin \in Left
      PROVE  /\ pin \in Pins /\ s.next[pin] \in 1 .. Len(g.waves[pin])
             /\ At(pin).time \in 0 .. TimeMax /\ At(pin).value \in Values
             /\ s.time <= At(pin).time
             /\ \A i \in 1 .. Len(g.waves[pin]) : s.next[pin] <= i => At(pin).time <= g.waves[pin][i].time
  <2>1. pin \in Pins /\ s.next[pin] <= Len(g.waves[pin])
    BY DEF Unswept
  <2>2. PICK w : w = g.waves[pin]
    OBVIOUS
  <2>3. PICK n : n = s.next[pin]
    OBVIOUS
  <2>4. Wave(w) /\ Len(w) \in Nat
    BY <2>1, <2>2, GateWave, WaveType
  <2>5. n \in 1 .. Len(w)
    BY <1>2, <2>1, <2>2, <2>3, <2>4 DEF SweptInv
  <2>6. w[n].time \in 0 .. TimeMax /\ w[n].value \in Values
    BY <2>4, <2>5, WaveType
  <2>7. s.time <= w[n].time
    <3>1. IF n < s.next[pin] THEN w[n].time <= s.time ELSE s.time <= w[n].time
      BY <1>2, <2>1, <2>2, <2>5 DEF SweptInv
    <3>2. ~(n < s.next[pin])
      BY <2>3, <2>4, <2>5
    <3> QED BY <3>1, <3>2
  <2>8. \A i \in 1 .. Len(w) : n <= i => w[n].time <= w[i].time
    BY <2>4, <2>5, WaveOrdered
  <2> QED BY <2>1, <2>2, <2>3, <2>5, <2>6, <2>7, <2>8
<1> HIDE DEF At
<1>6. t \in {At(pin).time : pin \in Left} /\ \A pin \in Left : t <= At(pin).time
  <2> DEFINE S == {At(pin).time : pin \in Left}
  <2>1. S \in SUBSET Nat /\ S # {}
    BY <1>3, <1>5
  <2>2. PICK m \in S : \A k \in S : m <= k
    <3> HIDE DEF S
    <3> QED BY <2>1, NatMin
  <2>3. \E u \in S : \A pin \in Left : u <= At(pin).time
    BY <2>2
  <2> QED BY <2>3
<1> HIDE DEF t
<1>7. /\ t \in 0 .. TimeMax /\ s.time <= t /\ T # {} /\ T \in SUBSET Pins /\ T \subseteq Left
  BY <1>5, <1>6
<1>8. ASSUME NEW pin \in Pins, NEW i \in 1 .. Len(g.waves[pin]), s.next[pin] <= i
      PROVE  /\ pin \in Left /\ t <= g.waves[pin][i].time
  <2>1. pin \in Left
    <3>1. s.next[pin] \in Nat
      BY <1>3
    <3>2. s.next[pin] <= Len(g.waves[pin])
      BY <1>4, <1>8, <3>1
    <3> QED BY <3>2 DEF Unswept
  <2>2. At(pin).time \in Nat /\ g.waves[pin][i].time \in Nat /\ t \in Nat
    BY <1>4, <1>5, <1>7, <2>1
  <2>3. At(pin).time <= g.waves[pin][i].time /\ t <= At(pin).time
    BY <1>5, <1>6, <1>8, <2>1
  <2> QED BY <2>1, <2>2, <2>3
<1> HIDE DEF Left
<1>9. /\ c1 \in SweepStates(p) /\ c1.next = s.next /\ c1.time = t
      /\ c1.state = s.state /\ c1.threw = s.threw
  BY <1>2, <1>7, ChargeLeakageDoes
<1>10. ChargedInv(g, wf, p, c1)
  BY <1>2, <1>7, <1>8, ChargeLeakageKeeps
<1> HIDE DEF c1
<1>11. HaveNext(g, c1, T)
  BY <1>5, <1>7, <1>9 DEF HaveNext
<1> HIDE DEF T, after
<1>12. /\ c2 \in SweepStates(p) /\ c2.next = c1.next /\ c2.time = c1.time
       /\ c2.state = c1.state /\ c2.threw = c1.threw
  <2>1. c2 = ChargeToggles(g, c1, T, after, p)
    OBVIOUS
  <2> HIDE DEF c2, next
  <2>2. c2 \in SweepStates(p)
    BY <1>9, <1>11, <2>1, ChargeTogglesDoes
  <2> QED BY <1>9, <2>1, <2>2, ChargeTogglesFrame
<1>13. ChargedInv(g, wf, p, c2)
  BY <1>9, <1>10, <1>11, ChargeTogglesKeeps
<1> HIDE DEF c2
<1>14. CASE \E pin \in T : after[pin] = Unmapped
  <2>1. r = [s EXCEPT !.threw = TRUE]
    BY <1>1, <1>14
  <2>2. /\ r.state = s.state /\ r.next = s.next /\ r.time = s.time /\ r.power = s.power
        /\ r.waveform = s.waveform /\ r.threw = TRUE
        /\ r = [state |-> s.state, next |-> s.next, time |-> s.time, power |-> s.power,
                waveform |-> s.waveform, threw |-> TRUE]
    BY <1>2, <2>1 DEF SweepStates
  <2>3. r \in SweepStates(p)
    BY <1>2, <2>2 DEF SweepStates
  <2>4. SweptInv(g, r)
    BY <1>2, <2>2 DEF SweptInv
  <2>5. ChargedInv(g, wf, p, r)
    BY <1>2, <2>2 DEF ChargedInv
  <2> QED BY <2>2, <2>3, <2>4, <2>5 DEF SweepInv
<1>15. CASE ~(\E pin \in T : after[pin] = Unmapped)
  <2>1. r = [c2 EXCEPT !.state = after, !.next = next]
    BY <1>1, <1>15
  <2> HIDE DEF next
  <2>2. /\ r.state = after /\ r.next = next /\ r.time = c2.time /\ r.power = c2.power
        /\ r.waveform = c2.waveform /\ r.threw = c2.threw
        /\ r = [state |-> after, next |-> next, time |-> c2.time, power |-> c2.power,
                waveform |-> c2.waveform, threw |-> c2.threw]
    BY <1>12, <2>1 DEF SweepStates
  <2>3. /\ next \in [Pins -> Nat]
        /\ \A pin \in Pins : next[pin] = IF pin \in T THEN s.next[pin] + 1 ELSE s.next[pin]
    BY <1>3, <1>9, <1>12 DEF next
  <2>4. \A pin \in T : At(pin).value \in Values /\ pin \in Pins
    BY <1>5, <1>7
  <2>5. /\ after \in [Pins -> Values]
        /\ \A pin \in Pins : after[pin] = IF pin \in T THEN At(pin).value ELSE s.state[pin]
    BY <1>3, <2>4 DEF after
  <2>6. r \in SweepStates(p)
    BY <1>12, <2>2, <2>3, <2>5 DEF SweepStates
  <2>7. ChargedInv(g, wf, p, r)
    BY <1>13, <2>2 DEF ChargedInv
  <2>8. r.time = t /\ t \in Nat
    BY <1>7, <1>9, <1>12, <2>2
  <2>9. SweptInv(g, r)
    <3> SUFFICES ASSUME NEW pin \in Pins
                 PROVE  /\ r.next[pin] \in 1 .. Len(g.waves[pin]) + 1
                        /\ \A i \in 1 .. Len(g.waves[pin]) :
                             IF i < r.next[pin] THEN g.waves[pin][i].time <= r.time
                                                ELSE r.time <= g.waves[pin][i].time
                        /\ r.state[pin] = IF r.next[pin] = 1 THEN Initially(g, pin)
                                            ELSE g.waves[pin][r.next[pin] - 1].value
      BY DEF SweptInv
    <3>1. PICK w : w = g.waves[pin]
      OBVIOUS
    <3>2. PICK n : n = s.next[pin]
      OBVIOUS
    <3>3. /\ n \in 1 .. Len(w) + 1 /\ Len(w) \in Nat
          /\ \A i \in 1 .. Len(w) : w[i].time \in Nat
          /\ \A i \in 1 .. Len(w) : i < n => w[i].time <= s.time
          /\ \A i \in 1 .. Len(w) : n <= i => t <= w[i].time
          /\ s.state[pin] = IF n = 1 THEN Initially(g, pin) ELSE w[n - 1].value
      <4>1. n \in 1 .. Len(w) + 1
        BY <1>2, <3>1, <3>2 DEF SweptInv
      <4>2. Len(w) \in Nat /\ \A i \in 1 .. Len(w) : w[i].time \in Nat
        BY <1>4, <3>1
      <4>3. \A i \in 1 .. Len(w) : i < n => w[i].time <= s.time
        BY <1>2, <3>1, <3>2 DEF SweptInv
      <4>4. \A i \in 1 .. Len(w) : n <= i => t <= w[i].time
        BY <1>8, <3>1, <3>2
      <4>5. s.state[pin] = IF n = 1 THEN Initially(g, pin) ELSE w[n - 1].value
        BY <1>2, <3>1, <3>2 DEF SweptInv
      <4> QED BY <4>1, <4>2, <4>3, <4>4, <4>5
    <3>4. CASE pin \in T
      <4>1. n \in 1 .. Len(w) /\ w[n].time = t /\ r.next[pin] = n + 1 /\ r.state[pin] = w[n].value
        <5>1. At(pin) = w[n]
          BY <3>1, <3>2 DEF At
        <5>2. At(pin).time = t
          BY <3>4 DEF T
        <5> QED BY <1>5, <1>7, <2>2, <2>3, <2>5, <3>1, <3>2, <3>4, <5>1, <5>2
      <4>2. \A i \in 1 .. Len(w) : IF i < n + 1 THEN w[i].time <= t ELSE t <= w[i].time
        <5> SUFFICES ASSUME NEW i \in 1 .. Len(w)
                     PROVE  IF i < n + 1 THEN w[i].time <= t ELSE t <= w[i].time
          OBVIOUS
        <5>1. CASE i < n
          <6>1. w[i].time <= s.time /\ w[i].time \in Nat /\ s.time \in Nat
            BY <1>3, <3>3, <5>1
          <6>2. w[i].time <= t
            BY <1>7, <2>8, <6>1
          <6> QED BY <3>3, <5>1, <6>2
        <5>2. CASE i = n
          BY <2>8, <4>1, <5>2
        <5>3. CASE i > n
          <6>1. t <= w[i].time /\ ~(i < n + 1)
            BY <3>3, <5>3
          <6> QED BY <6>1
        <5> QED BY <3>3, <5>1, <5>2, <5>3
      <4>3. n + 1 # 1 /\ (n + 1) - 1 = n /\ n + 1 \in 1 .. Len(w) + 1
        BY <3>3, <4>1
      <4> QED BY <2>8, <3>1, <4>1, <4>2, <4>3
    <3>5. CASE pin \notin T
      <4>1. r.next[pin] = n /\ r.state[pin] = s.state[pin]
        BY <2>2, <2>3, <2>5, <3>2, <3>5
      <4>2. \A i \in 1 .. Len(w) : IF i < n THEN w[i].time <= t ELSE t <= w[i].time
        <5> SUFFICES ASSUME NEW i \in 1 .. Len(w)
                     PROVE  IF i < n THEN w[i].time <= t ELSE t <= w[i].time
          OBVIOUS
        <5>1. CASE i < n
          <6>1. w[i].time <= s.time /\ w[i].time \in Nat /\ s.time \in Nat
            BY <1>3, <3>3, <5>1
          <6>2. w[i].time <= t
            BY <1>7, <2>8, <6>1
          <6> QED BY <5>1, <6>2
        <5>2. CASE ~(i < n)
          BY <3>3, <5>2
        <5> QED BY <5>1, <5>2
      <4> QED BY <2>8, <3>1, <3>3, <4>1, <4>2
    <3> QED BY <3>4, <3>5
  <2>10. Further(s, r)
    <3>1. \A pin \in Pins : s.next[pin] \in Nat
      BY <1>3
    <3>2. \A pin \in Pins : s.next[pin] <= r.next[pin]
      BY <2>2, <2>3, <3>1
    <3>3. PICK pin \in T : pin \in Pins
      BY <1>7
    <3>4. s.next[pin] < r.next[pin]
      BY <2>2, <2>3, <3>1, <3>3
    <3> QED BY <3>2, <3>3, <3>4 DEF Further
  <2> QED BY <2>6, <2>7, <2>9, <2>10 DEF SweepInv
<1> QED BY <1>14, <1>15

(* The states after each turn of the loop. *)
Turns(g, wf, p) ==
  CHOOSE after : after = [n \in 0 .. Events(g) |->
    IF n = 0 THEN SweepBegin(g, wf) ELSE Turn(g, after[n - 1], p)]

(* The sweep is its last turn and what follows it.                         *)
LEMMA SweepTurns ==
  ASSUME NEW g, NEW p, NEW wf
  PROVE  Sweep(g, wf, p) = ChargeRest(Turns(g, wf, p)[Events(g)], p)
BY DEF Sweep, Turns

(* There are such states: those of the first n turns give the next.        *)
LEMMA TurnsDefined ==
  ASSUME NEW g, NEW p, NEW wf, Events(g) \in Nat
  PROVE  /\ Turns(g, wf, p)[0] = SweepBegin(g, wf)
         /\ \A n \in 1 .. Events(g) :
              Turns(g, wf, p)[n] = Turn(g, Turns(g, wf, p)[n - 1], p)
<1> DEFINE N == Events(g)
           b == SweepBegin(g, wf)
           Good(f, n) == /\ f = [i \in 0 .. n |-> f[i]] /\ f[0] = b
                         /\ \A i \in 1 .. n : f[i] = Turn(g, f[i - 1], p)
           P == {n \in Nat : \E f : Good(f, n)}
<1> HIDE DEF N, b
<1>1. N \in Nat
  BY DEF N
<1>2. 0 \in P
  <2> DEFINE f == [i \in 0 .. 0 |-> b]
  <2>1. Good(f, 0)
    OBVIOUS
  <2> QED BY <2>1
<1>3. ASSUME NEW n \in 0 .. N - 1, n \in P
      PROVE  n + 1 \in P
  <2>1. PICK f : Good(f, n)
    BY <1>3
  <2> DEFINE h == [i \in 0 .. n + 1 |-> IF i = n + 1 THEN Turn(g, f[n], p) ELSE f[i]]
  <2>2. n \in Nat
    BY <1>1
  <2>3. h[0] = b /\ h = [i \in 0 .. n + 1 |-> h[i]]
    BY <2>1, <2>2
  <2>4. \A i \in 1 .. n + 1 : h[i] = Turn(g, h[i - 1], p)
    <3> SUFFICES ASSUME NEW i \in 1 .. n + 1 PROVE h[i] = Turn(g, h[i - 1], p)
      OBVIOUS
    <3>1. CASE i = n + 1
      <4>1. h[i] = Turn(g, f[n], p) /\ h[i - 1] = f[n]
        BY <2>2, <3>1
      <4> QED BY <4>1
    <3>2. CASE i # n + 1
      <4>1. i \in 1 .. n
        BY <2>2, <3>2
      <4>2. h[i] = f[i] /\ h[i - 1] = f[i - 1]
        BY <2>2, <4>1
      <4> QED BY <2>1, <4>1, <4>2
    <3> QED BY <3>1, <3>2
  <2> HIDE DEF h
  <2>5. Good(h, n + 1)
    BY <2>3, <2>4
  <2>6. n + 1 \in Nat
    BY <2>2
  <2> HIDE DEF Good
  <2> QED BY <2>5, <2>6
<1>4. \A n \in 0 .. N : n \in P
  <2> HIDE DEF P
  <2> QED BY <1>1, <1>2, <1>3, NumberInduction
<1>5. PICK f : Good(f, N)
  BY <1>1, <1>4
<1> DEFINE Is(h) == h = [n \in 0 .. N |-> IF n = 0 THEN b ELSE Turn(g, h[n - 1], p)]
<1>6. Is(f)
  <2> DEFINE e == [n \in 0 .. N |-> IF n = 0 THEN b ELSE Turn(g, f[n - 1], p)]
  <2>1. f = [n \in 0 .. N |-> f[n]]
    BY <1>5
  <2>2. \A n \in 0 .. N : f[n] = IF n = 0 THEN b ELSE Turn(g, f[n - 1], p)
    <3> SUFFICES ASSUME NEW n \in 0 .. N
                 PROVE  f[n] = IF n = 0 THEN b ELSE Turn(g, f[n - 1], p)
      OBVIOUS
    <3>1. n = 0 => f[n] = b
      BY <1>5
    <3>2. n # 0 => n \in 1 .. N
      BY <1>1
    <3>3. n # 0 => f[n] = Turn(g, f[n - 1], p)
      BY <1>5, <3>2
    <3> HIDE DEF Good
    <3> QED BY <3>1, <3>3
  <2>3. e = [n \in 0 .. N |-> f[n]]
    BY <2>2
  <2> QED BY <2>1, <2>3
<1> DEFINE h == Turns(g, wf, p)
<1>7. Is(h)
  <2>1. h = CHOOSE e : Is(e)
    BY DEF Turns, N, b
  <2> QED BY <1>6, <2>1
<1> HIDE DEF h
<1>8. h[0] = b
  BY <1>1, <1>7
<1>9. \A n \in 1 .. N : h[n] = Turn(g, h[n - 1], p)
  <2> SUFFICES ASSUME NEW n \in 1 .. N PROVE h[n] = Turn(g, h[n - 1], p)
    OBVIOUS
  <2>1. n \in 0 .. N /\ n # 0
    BY <1>1
  <2> QED BY <1>7, <2>1
<1> QED BY <1>8, <1>9 DEF h, N, b

(* The events taken before instant s.                                      *)
Taken(s) == SumFunction([pin \in Pins |-> s.next[pin] - 1])

(* The events of a gate are finitely many.                                 *)
LEMMA EventsType ==
  ASSUME NEW g, WellFormed(g)
  PROVE  Events(g) \in Nat
<1> DEFINE f == [pin \in Pins |-> Len(g.waves[pin])]
<1>1. \A pin \in Pins : f[pin] \in Nat
  BY GateWave, WaveType
<1>2. DOMAIN f = Pins /\ IsFiniteSet(Pins)
  BY PinsFinite
<1> HIDE DEF f
<1>3. SumFunction(f) \in Nat
  BY <1>1, <1>2, SumNat
<1> QED BY <1>3 DEF Events, f

(* While a pin has an event left, not all are taken.                       *)
LEMMA TakenLess ==
  ASSUME NEW g, WellFormed(g), NEW p \in Nat \ {0}, NEW wf,
         NEW s, SweepInv(g, wf, p, s)
  PROVE  /\ Taken(s) \in Nat
         /\ Unswept(g, s) # {} => Taken(s) < Events(g)
<1> DEFINE f == [pin \in Pins |-> s.next[pin] - 1]
           h == [pin \in Pins |-> Len(g.waves[pin])]
<1>1. ASSUME NEW pin \in Pins
      PROVE  f[pin] \in Nat /\ h[pin] \in Nat /\ f[pin] <= h[pin]
  <2>1. Len(g.waves[pin]) \in Nat
    BY GateWave, WaveType
  <2>2. s.next[pin] \in 1 .. Len(g.waves[pin]) + 1
    BY DEF SweepInv, SweptInv
  <2> QED BY <2>1, <2>2
<1>2. DOMAIN f = Pins /\ DOMAIN h = Pins /\ IsFiniteSet(Pins)
  BY PinsFinite
<1>3. \A pin \in Unswept(g, s) : pin \in Pins /\ f[pin] < h[pin]
  <2> SUFFICES ASSUME NEW pin \in Unswept(g, s) PROVE pin \in Pins /\ f[pin] < h[pin]
    OBVIOUS
  <2>1. pin \in Pins /\ s.next[pin] <= Len(g.waves[pin])
    BY DEF Unswept
  <2>2. f[pin] = s.next[pin] - 1 /\ h[pin] = Len(g.waves[pin])
    BY <2>1
  <2>3. s.next[pin] \in 1 .. Len(g.waves[pin]) + 1 /\ h[pin] \in Nat
    BY <1>1, <2>1 DEF SweepInv, SweptInv
  <2> HIDE DEF f, h
  <2> QED BY <2>1, <2>2, <2>3
<1> HIDE DEF f, h
<1>4. SumFunction(f) \in Nat
  BY <1>1, <1>2, SumNat
<1>5. ASSUME NEW pin \in Unswept(g, s)
      PROVE  SumFunction(f) < SumFunction(h)
  <2>1. pin \in DOMAIN f /\ f[pin] < h[pin]
    BY <1>2, <1>3
  <2>2. \A x \in DOMAIN f : f[x] \in Int /\ h[x] \in Int /\ f[x] <= h[x]
    BY <1>1, <1>2
  <2> QED BY <1>2, <2>1, <2>2, SumLess
<1> QED BY <1>4, <1>5 DEF Taken, Events, f, h

(* A state further on has taken more of them.                              *)
LEMMA TakenFurther ==
  ASSUME NEW g, WellFormed(g), NEW p \in Nat \ {0}, NEW wf,
         NEW s, SweepInv(g, wf, p, s), NEW r, SweepInv(g, wf, p, r),
         Further(s, r)
  PROVE  Taken(s) < Taken(r)
<1> DEFINE f == [pin \in Pins |-> s.next[pin] - 1]
           h == [pin \in Pins |-> r.next[pin] - 1]
<1>1. ASSUME NEW pin \in Pins
      PROVE  s.next[pin] \in Nat /\ r.next[pin] \in Nat
  BY DEF SweepInv, SweepStates
<1>2. PICK pin \in Pins : s.next[pin] < r.next[pin]
  BY DEF Further
<1>3. \A x \in Pins : f[x] \in Int /\ h[x] \in Int /\ f[x] <= h[x]
  BY <1>1 DEF Further
<1>4. f[pin] < h[pin]
  BY <1>1, <1>2
<1>5. DOMAIN f = Pins /\ DOMAIN h = Pins /\ IsFiniteSet(Pins)
  BY PinsFinite
<1> HIDE DEF f, h
<1>6. SumFunction(f) < SumFunction(h)
  BY <1>3, <1>4, <1>5, SumLess
<1> QED BY <1>6 DEF Taken, f, h

(* The turns keep the invariant, and the last has nothing left to take.    *)
LEMMA SweptAll ==
  ASSUME NEW g, WellFormed(g), NEW p \in Nat \ {0}, NEW wf \in Waveforms(p),
         NEW s, s = Turns(g, wf, p)[Events(g)]
  PROVE  SweepInv(g, wf, p, s) /\ (s.threw \/ Unswept(g, s) = {})
<1> DEFINE N == Events(g)
           A == Turns(g, wf, p)
           Ok(m, u) == /\ SweepInv(g, wf, p, u)
                       /\ u.threw \/ Unswept(g, u) = {} \/ Taken(u) >= m
           P == {m \in Nat : Ok(m, A[m])}
<1>1. N \in Nat
  BY EventsType
<1>2. A[0] = SweepBegin(g, wf) /\ \A n \in 1 .. N : A[n] = Turn(g, A[n - 1], p)
  BY <1>1, TurnsDefined
<1> HIDE DEF A, N
<1>3. 0 \in P
  <2>1. SweepInv(g, wf, p, A[0])
    BY <1>2, SweepBegins
  <2>2. Taken(A[0]) >= 0
    BY <2>1, TakenLess
  <2> QED BY <2>1, <2>2
<1>4. ASSUME NEW n \in 0 .. N - 1, n \in P
      PROVE  n + 1 \in P
  <2> SUFFICES Ok(n + 1, A[n + 1])
    BY <1>1
  <2>1. PICK u : u = A[n]
    OBVIOUS
  <2>2. PICK r : r = A[n + 1]
    OBVIOUS
  <2>3. n \in Nat /\ r = Turn(g, u, p)
    <3>1. n + 1 \in 1 .. N /\ (n + 1) - 1 = n /\ n \in Nat
      BY <1>1
    <3> QED BY <1>2, <2>1, <2>2, <3>1
  <2>4. SweepInv(g, wf, p, u) /\ (u.threw \/ Unswept(g, u) = {} \/ Taken(u) >= n)
    BY <1>4, <2>1
  <2>5. CASE u.threw \/ Unswept(g, u) = {}
    <3>1. r = u
      BY <2>3, <2>5 DEF Turn
    <3> QED BY <2>2, <2>3, <2>4, <2>5, <3>1
  <2>6. CASE ~(u.threw \/ Unswept(g, u) = {})
    <3>1. r = SweepInstant(g, u, p)
      BY <2>3, <2>6 DEF Turn
    <3>2. SweepInv(g, wf, p, r) /\ (r.threw \/ Further(u, r))
      BY <2>4, <2>6, <3>1, SweepInstantKeeps
    <3>3. CASE r.threw
      BY <2>2, <2>3, <3>2, <3>3
    <3>4. CASE Further(u, r)
      <4>1. Taken(u) < Taken(r) /\ Taken(u) \in Nat /\ Taken(r) \in Nat
        BY <2>4, <3>2, <3>4, TakenFurther, TakenLess
      <4>2. Taken(r) >= n + 1
        BY <2>3, <2>4, <2>6, <4>1
      <4> QED BY <2>2, <2>3, <3>2, <4>2
    <3> QED BY <3>2, <3>3, <3>4
  <2> QED BY <2>5, <2>6
<1>5. \A n \in 0 .. N : n \in P
  <2> HIDE DEF P
  <2> QED BY <1>1, <1>3, <1>4, NumberInduction
<1>6. /\ SweepInv(g, wf, p, A[N])
      /\ A[N].threw \/ Unswept(g, A[N]) = {} \/ Taken(A[N]) >= N
  BY <1>1, <1>5
<1>7. s = A[N]
  BY DEF A, N
<1>8. Taken(s) \in Nat /\ (Unswept(g, s) # {} => Taken(s) < N)
  BY <1>6, <1>7, TakenLess DEF N
<1> QED BY <1>1, <1>6, <1>7, <1>8

(* What the result of a gate, and the waveform it leaves, add up to.       *)
Accounted(g, wf, p, r) ==
  /\ r.power["leakage"] = LeakageOver(g, 0 .. TimeMax - 1)
  /\ p % 2 = 0 => \A c \in Cycles(p) :
       r.waveform["leakage"][c] = wf["leakage"][c] + LeakageOver(g, UnitsOf(c, p))
  /\ \A k \in Kinds : SumFunction(r.waveform[k]) = SumFunction(wf[k]) + r.power[k]

(* A gate adds to its result what it adds to the waveform, and the leakage *)
(* of the states its pins go through to both; only a toggle at the last    *)
(* time on a cycle line is in no cycle.  One that throws may leave         *)
(* anything in the waveform but that.                                      *)
LEMMA GateAccount ==
  ASSUME NEW g, WellFormed(g), NEW p \in Nat \ {0}, NEW wf \in Waveforms(p),
         NEW r, r = TimeBasedPower(g, wf, p)
  PROVE  /\ r.waveform \in Waveforms(p) /\ r.power \in [Kinds -> Int] /\ r.threw \in BOOLEAN
         /\ ~r.threw => Accounted(g, wf, p, r)
         /\ \A k \in Kinds : r.waveform[k][NPeriod(p)] # wf[k][NPeriod(p)] =>
              k # "leakage" /\ TimeMax % UnitsPerCycle(p) = 0
<1>1. PICK s : s = Turns(g, wf, p)[Events(g)]
  OBVIOUS
<1>2. PICK e : e = ChargeRest(s, p)
  OBVIOUS
<1>3. r = [e EXCEPT !.power = AllOf(@)]
  <2>1. e = Sweep(g, wf, p)
    BY <1>1, <1>2, SweepTurns
  <2> QED BY <2>1 DEF TimeBasedPower
<1>4. SweepInv(g, wf, p, s) /\ (s.threw \/ Unswept(g, s) = {})
  BY <1>1, SweptAll
<1>5. s \in SweepStates(p) /\ SweptInv(g, s) /\ ChargedInv(g, wf, p, s)
  BY <1>4 DEF SweepInv
<1>6. s.time \in 0 .. TimeMax /\ TimeMax \in Nat /\ s.threw \in BOOLEAN
  BY <1>5, GateAssumption DEF SweepStates
<1>7. /\ e \in SweepStates(p) /\ ChargedInv(g, wf, p, e) /\ e.threw = s.threw
      /\ ~e.threw => e.time = TimeMax
  <2>1. CASE s.threw
    <3>1. e = s
      BY <1>2, <2>1 DEF ChargeRest
    <3> QED BY <1>5, <2>1, <3>1
  <2>2. CASE ~s.threw
    <3>1. e = ChargeLeakage(s, TimeMax, p)
      BY <1>2, <2>2 DEF ChargeRest
    <3>2. TimeMax \in 0 .. TimeMax /\ s.time <= TimeMax
      BY <1>6
    <3>3. \A pin \in Pins : \A i \in 1 .. Len(g.waves[pin]) :
            s.next[pin] <= i => TimeMax <= g.waves[pin][i].time
      <4> SUFFICES ASSUME NEW pin \in Pins, NEW i \in 1 .. Len(g.waves[pin]), s.next[pin] <= i
                   PROVE  FALSE
        OBVIOUS
      <4>1. Len(g.waves[pin]) \in Nat
        BY GateWave, WaveType
      <4>2. s.next[pin] \in Nat
        BY <1>5 DEF SweepStates
      <4>3. s.next[pin] <= Len(g.waves[pin])
        BY <4>1, <4>2
      <4>4. pin \in Unswept(g, s)
        BY <4>3 DEF Unswept
      <4> QED BY <1>4, <2>2, <4>4
    <3>4. e \in SweepStates(p) /\ e.time = TimeMax /\ e.threw = s.threw
      BY <1>5, <3>1, <3>2, ChargeLeakageDoes
    <3>5. ChargedInv(g, wf, p, e)
      BY <1>5, <3>1, <3>2, <3>3, ChargeLeakageKeeps
    <3> QED BY <3>4, <3>5
  <2> QED BY <1>6, <2>1, <2>2
<1>8. e.power \in [Kinds -> Int] /\ e.waveform \in Waveforms(p) /\ e.threw \in BOOLEAN
  BY <1>7 DEF SweepStates
<1>9. r.power = AllOf(e.power) /\ r.waveform = e.waveform /\ r.threw = e.threw
  BY <1>3, <1>7 DEF SweepStates
<1>10. r.power \in [Kinds -> Int] /\ r.power["leakage"] = e.power["leakage"]
  BY <1>8, <1>9, AllOfType
<1>11. \A k \in Kinds : r.waveform[k][NPeriod(p)] # wf[k][NPeriod(p)] =>
         k # "leakage" /\ TimeMax % UnitsPerCycle(p) = 0
  BY <1>7, <1>9 DEF ChargedInv
<1>12. ASSUME ~r.threw
       PROVE  Accounted(g, wf, p, r)
  <2>1. e.time = TimeMax
    BY <1>7, <1>9, <1>12
  <2>2. r.power["leakage"] = LeakageOver(g, 0 .. TimeMax - 1)
    BY <1>7, <1>10, <2>1 DEF ChargedInv
  <2>3. ASSUME p % 2 = 0, NEW c \in Cycles(p)
        PROVE  r.waveform["leakage"][c] = wf["leakage"][c] + LeakageOver(g, UnitsOf(c, p))
    <3>1. UnitsOf(c, p) \cap (0 .. TimeMax - 1) = UnitsOf(c, p)
      BY DEF UnitsOf
    <3>2. e.waveform["leakage"][c] =
            wf["leakage"][c] + LeakageOver(g, UnitsOf(c, p) \cap (0 .. e.time - 1))
      BY <1>7, <2>3 DEF ChargedInv
    <3> QED BY <1>9, <2>1, <3>1, <3>2
  <2>4. ASSUME NEW k \in Kinds
        PROVE  SumFunction(r.waveform[k]) = SumFunction(wf[k]) + r.power[k]
    BY <1>7, <1>9 DEF ChargedInv
  <2> QED BY <2>2, <2>3, <2>4 DEF Accounted
<1> QED BY <1>8, <1>9, <1>10, <1>11, <1>12

-----------------------------------------------------------------------------
(* The threads.                                                            *)

(* A step of the analysis is a step of the pool, or leaves it alone.       *)
LEMMA PoolOrNot ==
  ASSUME [Next]_vars
  PROVE  [PoolNext]_poolVars
<1>1. CASE Launch
  BY <1>1, PowerAssumption DEF Launch, PoolNext
<1>2. CASE LaunchNotify \/ Destroy
  BY <1>2 DEF LaunchNotify, Destroy, PoolNext
<1>3. ASSUME NEW w \in Workers, EvaluateGate(w) \/ ExitInGate(w) \/ JobReturn(w) \/ PoolStep(w)
      PROVE  [PoolNext]_poolVars
  BY <1>3 DEF EvaluateGate, ExitInGate, JobReturn, PoolStep, PoolNext
<1>4. CASE Shuffle \/ Wait \/ MergeThread \/ LeaveFrame \/ Return \/ UNCHANGED vars
  BY <1>4 DEF Shuffle, Wait, MergeThread, LeaveFrame, Return, vars
<1> QED BY <1>1, <1>2, <1>3, <1>4 DEF Next

(* Power::power uses the thread pool as ThreadPool allows an owner to.     *)
THEOREM PowerUsesPool == Spec => PoolSpec
<1>1. Init => PoolInit
  BY DEF Init
<1>2. [Next]_vars => [PoolNext]_poolVars
  BY PoolOrNot
<1> QED BY <1>1, <1>2, PTL DEF Spec, PoolSpec

-----------------------------------------------------------------------------
(* The slices: they begin with the first gate, follow one another and end  *)
(* with the last.                                                          *)
LEMMA SliceBounds ==
  /\ StartOf(1) = 0 /\ EndOf(PoolThreads) = NGates
  /\ \A j \in Jobs : /\ StartOf(j) \in Nat /\ EndOf(j) \in Nat /\ StartOf(j) <= EndOf(j)
                     /\ j + 1 \in Jobs => StartOf(j + 1) = EndOf(j)
<1>1. /\ PoolThreads \in Nat \ {0} /\ NGates \in Nat
      /\ Base \in Nat /\ Remainder \in 0 .. PoolThreads - 1
      /\ NGates = PoolThreads * Base + Remainder
  BY PoolAssumption, PowerAssumption, DivMod DEF Base, Remainder
<1>2. ASSUME NEW j \in Jobs
      PROVE  /\ StartOf(j) \in Nat /\ EndOf(j) \in Nat /\ StartOf(j) <= EndOf(j)
             /\ EndOf(j) = j * Base + (IF j < Remainder THEN j ELSE Remainder)
             /\ StartOf(j) = (j - 1) * Base + (IF j - 1 < Remainder THEN j - 1 ELSE Remainder)
  <2> DEFINE k == j - 1
  <2>1. k \in Nat /\ j = k + 1 /\ j \in Nat
    BY <1>1 DEF Jobs
  <2>2. k * Base \in Nat /\ (k + 1) * Base = k * Base + Base
    BY <1>1, <2>1, MulSucc
  <2>3. /\ StartOf(j) = k * Base + (IF k < Remainder THEN k ELSE Remainder)
        /\ EndOf(j) = StartOf(j) + Base + (IF k < Remainder THEN 1 ELSE 0)
    BY DEF StartOf, EndOf
  <2> HIDE DEF k
  <2>4. EndOf(j) = (k * Base + Base) + (IF k + 1 < Remainder THEN k + 1 ELSE Remainder)
    BY <1>1, <2>1, <2>2, <2>3
  <2>5. StartOf(j) \in Nat /\ EndOf(j) \in Nat /\ StartOf(j) <= EndOf(j)
    BY <1>1, <2>1, <2>2, <2>3
  <2>6. EndOf(j) = j * Base + (IF j < Remainder THEN j ELSE Remainder)
    BY <2>1, <2>2, <2>4
  <2> QED BY <2>3, <2>5, <2>6 DEF k
<1>3. StartOf(1) = 0
  <2>1. 1 \in Jobs /\ 1 - 1 = 0 /\ 0 * Base = 0
    BY <1>1 DEF Jobs
  <2>2. StartOf(1) = 0 * Base + (IF 0 < Remainder THEN 0 ELSE Remainder)
    BY <1>2, <2>1
  <2> QED BY <1>1, <2>1, <2>2
<1>4. EndOf(PoolThreads) = NGates
  <2>1. PoolThreads \in Jobs /\ ~(PoolThreads < Remainder)
    BY <1>1 DEF Jobs
  <2>2. EndOf(PoolThreads) = PoolThreads * Base + Remainder
    BY <1>2, <2>1
  <2> QED BY <1>1, <2>2
<1>5. ASSUME NEW j \in Jobs, j + 1 \in Jobs PROVE StartOf(j + 1) = EndOf(j)
  <2>1. (j + 1) - 1 = j
    BY <1>1 DEF Jobs
  <2>2. StartOf(j + 1) = j * Base + (IF j < Remainder THEN j ELSE Remainder)
    BY <1>2, <1>5, <2>1
  <2> QED BY <1>2, <2>2
<1> QED BY <1>2, <1>3, <1>4, <1>5

(* Each slice ends before the later ones begin.                            *)
LEMMA SlicesInOrder ==
  ASSUME NEW j \in Jobs, NEW k \in Jobs, j < k
  PROVE  EndOf(j) <= StartOf(k)
<1> DEFINE Bad == {m \in Jobs : j < m /\ StartOf(m) < EndOf(j)}
<1>1. PoolThreads \in Nat /\ j \in Nat /\ Jobs \subseteq Nat
  BY PoolAssumption DEF Jobs
<1>2. \A m \in Jobs : StartOf(m) \in Nat /\ EndOf(m) \in Nat /\ StartOf(m) <= EndOf(m)
  BY SliceBounds
<1>3. CASE Bad = {}
  BY <1>2, <1>3
<1>4. CASE Bad # {}
  <2>1. PICK m \in Bad : \A n \in Bad : m <= n
    <3>1. Bad \in SUBSET Nat
      BY <1>1
    <3> HIDE DEF Bad
    <3> QED BY <1>4, <3>1, NatMin
  <2>2. m - 1 \in Jobs /\ (m - 1) + 1 = m /\ ~(m <= m - 1) /\ (m - 1 = j \/ j < m - 1)
    BY <1>1 DEF Jobs
  <2>3. StartOf(m) = EndOf(m - 1)
    BY <2>2, SliceBounds
  <2>4. m - 1 \notin Bad
    BY <2>1, <2>2
  <2>5. CASE m - 1 = j
    BY <1>2, <2>1, <2>3, <2>5
  <2>6. CASE j < m - 1
    BY <1>2, <2>1, <2>2, <2>3, <2>4, <2>6
  <2> QED BY <2>2, <2>5, <2>6
<1> QED BY <1>3, <1>4

(* Every position of the shuffled gates is in exactly one slice.           *)
LEMMA SlicesPartition ==
  ASSUME NEW i \in Gates
  PROVE  /\ \E j \in Jobs : StartOf(j) < i /\ i <= EndOf(j)
         /\ \A j, k \in Jobs : /\ StartOf(j) < i /\ i <= EndOf(j)
                               /\ StartOf(k) < i /\ i <= EndOf(k)
                               => j = k
<1>1. /\ PoolThreads \in Nat \ {0} /\ Jobs \subseteq Nat /\ NGates \in Nat /\ i \in Nat /\ i > 0
      /\ i <= NGates /\ PoolThreads \in Jobs
  BY PoolAssumption, PowerAssumption DEF Jobs, Gates
<1>2. \A m \in Jobs : StartOf(m) \in Nat /\ EndOf(m) \in Nat
  BY SliceBounds
<1> DEFINE T == {j \in Jobs : i <= EndOf(j)}
<1>3. \E j \in Jobs : StartOf(j) < i /\ i <= EndOf(j)
  <2>1. PICK j \in T : \A k \in T : j <= k
    <3>1. T \in SUBSET Nat /\ PoolThreads \in T
      BY <1>1, SliceBounds
    <3> HIDE DEF T
    <3> QED BY <3>1, NatMin
  <2>2. CASE j = 1
    BY <1>1, <2>1, <2>2, SliceBounds
  <2>3. CASE j # 1
    <3>1. j - 1 \in Jobs /\ (j - 1) + 1 = j /\ ~(j <= j - 1)
      BY <1>1, <2>3 DEF Jobs
    <3>2. j - 1 \notin T /\ StartOf(j) = EndOf(j - 1)
      BY <2>1, <3>1, SliceBounds
    <3> QED BY <1>1, <1>2, <2>1, <3>1, <3>2
  <2> QED BY <2>2, <2>3
<1>4. ASSUME NEW j \in Jobs, NEW k \in Jobs, StartOf(j) < i, i <= EndOf(j), StartOf(k) < i,
             i <= EndOf(k), j < k
      PROVE  FALSE
  <2>1. EndOf(j) <= StartOf(k)
    BY <1>4, SlicesInOrder
  <2> QED BY <1>1, <1>2, <1>4, <2>1
<1> QED BY <1>1, <1>3, <1>4

(* The gates of a slice are those at its positions.                        *)
LEMMA SliceHas ==
  ASSUME order \in SetToSeqs(Gates), NEW j \in Jobs
  PROVE  /\ Len(Slice(j)) = EndOf(j) - StartOf(j) /\ Len(Slice(j)) \in Nat
         /\ \A i \in 1 .. Len(Slice(j)) : /\ Slice(j)[i] = order[StartOf(j) + i]
                                          /\ StartOf(j) + i \in Gates
<1>1. NGates \in Nat /\ IsFiniteSet(Gates) /\ Cardinality(Gates) = NGates
  <2>1. NGates \in Nat
    BY PowerAssumption
  <2>2. IsFiniteSet(1 .. NGates) /\ Cardinality(1 .. NGates) = IF 1 > NGates THEN 0 ELSE NGates - 1 + 1
    BY <2>1, FS_Interval
  <2> QED BY <2>1, <2>2 DEF Gates
<1>2. order \in [1 .. NGates -> Gates]
  BY <1>1 DEF SetToSeqs
<1>3. order \in Seq(Gates) /\ Len(order) = NGates
  BY <1>1, <1>2
<1>4. /\ StartOf(j) \in Nat /\ EndOf(j) \in Nat /\ StartOf(j) <= EndOf(j) /\ EndOf(j) <= NGates
  <2>1. StartOf(j) \in Nat /\ EndOf(j) \in Nat /\ StartOf(j) <= EndOf(j)
    BY SliceBounds
  <2>2. PoolThreads \in Jobs /\ PoolThreads \in Nat /\ j \in Nat /\ j <= PoolThreads
    BY PoolAssumption DEF Jobs
  <2>3. CASE j = PoolThreads
    BY <1>1, <2>1, <2>3, SliceBounds
  <2>4. CASE j # PoolThreads
    <3>1. EndOf(j) <= StartOf(PoolThreads)
      BY <2>2, <2>4, SlicesInOrder
    <3>2. /\ StartOf(PoolThreads) \in Nat /\ EndOf(PoolThreads) \in Nat
          /\ StartOf(PoolThreads) <= EndOf(PoolThreads) /\ EndOf(PoolThreads) = NGates
      BY <2>2, SliceBounds
    <3> QED BY <2>1, <3>1, <3>2
  <2> QED BY <2>1, <2>3, <2>4
<1> DEFINE a == StartOf(j)
           b == EndOf(j)
<1>5. Slice(j) = SubSeq(order, a + 1, b)
  BY DEF Slice
<1>6. a \in Nat /\ b \in Nat /\ a <= b /\ b <= Len(order)
  BY <1>3, <1>4
<1> HIDE DEF a, b
<1>7. /\ Len(SubSeq(order, a + 1, b)) = b - a
      /\ \A i \in 1 .. b - a : SubSeq(order, a + 1, b)[i] = order[a + i]
  BY <1>3, <1>6
<1>8. \A i \in 1 .. b - a : a + i \in Gates
  BY <1>3, <1>6 DEF Gates
<1> QED BY <1>5, <1>6, <1>7, <1>8 DEF a, b

-----------------------------------------------------------------------------
(* The results.  A list grows only while its job runs, and a job that runs *)
(* is not settled: once the main thread has waited for all of them, every  *)
(* list is final.                                                          *)

(* The vectors exist from the shuffle to the end of the block, and where   *)
(* the process exits; the main thread merges when all futures are ready.   *)
FrameInv ==
  /\ main \in {"shuffle", "launch", "wait", "merge", "merged", "exited"}
  /\ main \in {"launch", "wait", "merge", "exited"} => frame
  /\ main \in {"merge", "merged"} => settled = Jobs
  /\ main = "shuffle" => enqueued = {}

(* p is the power of gate g, whose sweep did not throw.                    *)
PowerOfGate(p, g) ==
  \E v : ~TimeBasedPower(gates[g], v, period).threw /\ p = TimeBasedPower(gates[g], v, period).power

(* A list of results is the powers of the first gates of its slice.        *)
ListInv ==
  /\ main # "shuffle" => order \in SetToSeqs(Gates)
  /\ \A j \in Jobs :
       /\ \E S : results[j] \in Seq(S)
       /\ main = "shuffle" => results[j] = <<>>
       /\ main # "shuffle" => Len(results[j]) <= Len(Slice(j))
       /\ main # "shuffle" => \A i \in 1 .. Len(results[j]) : PowerOfGate(results[j][i], Slice(j)[i])

(* What has been merged is complete.                                       *)
MergeInv ==
  /\ merged \subseteq Jobs
  /\ merged # {} => main \in {"merge", "merged", "exited"}
  /\ \A j \in merged : Len(results[j]) = Len(Slice(j))
  /\ main = "merged" => merged = Jobs

ResultsInv == DOMAIN results = Jobs /\ FrameInv /\ ListInv /\ MergeInv

-----------------------------------------------------------------------------
(* Before the shuffle there are no results.                                *)
LEMMA InitResults == Init => ResultsInv
<1> SUFFICES ASSUME Init PROVE ResultsInv
  OBVIOUS
<1>1. FrameInv
  BY DEF Init, PoolInit, FrameInv
<1>2. results = [j \in Jobs |-> <<>>] /\ main = "shuffle" /\ merged = {}
  BY DEF Init
<1>3. \A j \in Jobs : results[j] = <<>> /\ <<>> \in Seq({})
  BY <1>2
<1>4. ListInv
  BY <1>2, <1>3 DEF ListInv
<1> QED BY <1>1, <1>2, <1>4 DEF ResultsInv, MergeInv

(* A worker that runs a job while the process lasts: the job has been      *)
(* enqueued and is not settled.                                            *)
LEMMA RunningJob ==
  ASSUME PoolInv, FrameInv, NEW w \in Workers, NEW j \in Jobs, Runs(w, j),
         main # "exited"
  PROVE  main \in {"launch", "wait"}
<1>1. j # 0
  BY PoolAssumption, PowerAssumption
<1>2. j \in Held
  BY <1>1 DEF Runs, Held
<1>3. j \in enqueued /\ j \notin settled
  BY <1>2 DEF PoolInv, TaskHeldOnce
<1> QED BY <1>3 DEF FrameInv

(* A job, whatever it does, does not end the frame: neither does one that  *)
(* ends the process.                                                       *)
LEMMA NextFrame ==
  ASSUME PoolInv, FrameInv, [Next]_vars
  PROVE  FrameInv'
<1>1. PoolInv'
  BY PoolOrNot, NextPoolInv
<1>2. settled' \subseteq Jobs /\ Tasks = Jobs /\ 0 \notin Jobs
  BY <1>1, PoolAssumption, PowerAssumption DEF PoolInv, PoolTypeOK
<1>3. CASE Shuffle
  BY <1>3 DEF Shuffle, FrameInv, poolVars
<1>4. CASE Launch
  BY <1>4 DEF Launch, EnqueuePush, FrameInv, mainVars
<1>5. CASE LaunchNotify
  BY <1>5 DEF LaunchNotify, EnqueueNotify, FrameInv
<1>6. CASE Wait
  BY <1>6 DEF Wait, FrameInv, poolVars
<1>7. CASE MergeThread
  <2>1. main = "merge" /\ main' \in {"exited", "merged", "merge"} /\ UNCHANGED <<settled, enqueued, frame>>
    BY <1>7 DEF MergeThread, poolVars
  <2> QED BY <2>1 DEF FrameInv
<1>8. CASE LeaveFrame
  BY <1>8 DEF LeaveFrame, FrameInv, poolVars
<1>9. CASE Destroy
  <2>1. UNCHANGED <<settled, enqueued, main, frame>>
    BY <1>9 DEF Destroy, DestroyStop, DestroyNotify, DestroyJoin, mainVars
  <2> QED BY <2>1 DEF FrameInv
<1>10. CASE Return \/ UNCHANGED vars
  BY <1>10 DEF Return, vars, poolVars, mainVars, FrameInv
<1>11. ASSUME NEW w \in Workers, EvaluateGate(w) \/ JobReturn(w) \/ PoolStep(w)
       PROVE  FrameInv'
  <2>1. UNCHANGED <<main, frame, enqueued>> /\ settled \subseteq settled'
    BY <1>11 DEF EvaluateGate, JobReturn, PoolStep, Acquire, SpuriousWake, TaskReturn,
                 mainVars, poolVars
  <2> QED BY <1>2, <2>1 DEF FrameInv
<1>12. ASSUME NEW w \in Workers, ExitInGate(w), main # "exited"
       PROVE  FrameInv'
  <2>1. PICK j \in Jobs : Runs(w, j)
    BY <1>12 DEF ExitInGate
  <2>2. main \in {"launch", "wait"}
    BY <1>12, <2>1, RunningJob
  <2>3. main' = "exited" /\ UNCHANGED frame
    BY <1>12 DEF ExitInGate
  <2> QED BY <2>2, <2>3 DEF FrameInv
<1> QED BY <1>3, <1>4, <1>5, <1>6, <1>7, <1>8, <1>9, <1>10, <1>11, <1>12 DEF Next

(* The lists keep their meaning when neither they nor the order change.    *)
LEMMA ListsKept ==
  ASSUME ListInv, UNCHANGED <<results, order, gates, period>>,
         (main' = "shuffle") <=> (main = "shuffle")
  PROVE  ListInv'
<1>1. \A j \in Jobs : Slice(j)' = Slice(j)
  BY DEF Slice
<1>3. (main' # "shuffle" => order' \in SetToSeqs(Gates))
  BY DEF ListInv
<1>4. ASSUME NEW j \in Jobs
      PROVE  /\ (\E S : results[j] \in Seq(S))'
             /\ (main = "shuffle" => results[j] = <<>>)'
             /\ (main # "shuffle" => Len(results[j]) <= Len(Slice(j)))'
             /\ (main # "shuffle" =>
                   \A i \in 1 .. Len(results[j]) : PowerOfGate(results[j][i], Slice(j)[i]))'
  <2>1. /\ (\E S : results[j] \in Seq(S))'
        /\ (main = "shuffle" => results[j] = <<>>)'
    BY DEF ListInv
  <2>2. (main # "shuffle" => Len(results[j]) <= Len(Slice(j)))'
    BY <1>1 DEF ListInv
  <2>3. (main # "shuffle" =>
           \A i \in 1 .. Len(results[j]) : PowerOfGate(results[j][i], Slice(j)[i]))'
    BY <1>1 DEF ListInv, PowerOfGate
  <2> QED BY <2>1, <2>2, <2>3
<1> QED BY <1>3, <1>4 DEF ListInv

(* Another result: that of the gate at the next position of the slice.     *)
LEMMA AppendResult ==
  ASSUME NEW s, NEW S, s \in Seq(S), NEW p
  PROVE  /\ \E T : Append(s, p) \in Seq(T)
         /\ Len(Append(s, p)) = Len(s) + 1 /\ Len(s) \in Nat
         /\ \A i \in 1 .. Len(s) + 1 :
              Append(s, p)[i] = IF i = Len(s) + 1 THEN p ELSE s[i]
<1>1. s \in Seq(S \cup {p}) /\ Append(s, p) \in Seq(S \cup {p})
  OBVIOUS
<1>2. \E T : Append(s, p) \in Seq(T)
  BY <1>1
<1>3. /\ Len(Append(s, p)) = Len(s) + 1 /\ Len(s) \in Nat
      /\ \A i \in 1 .. Len(s) + 1 : Append(s, p)[i] = IF i = Len(s) + 1 THEN p ELSE s[i]
  BY <1>1
<1> QED BY <1>2, <1>3

(* The sweep of one gate by a job adds its result to the job's list, or    *)
(* throws and leaves the list short; the main thread does not merge yet.   *)
LEMMA EvaluateStep ==
  ASSUME PoolInv, ResultsInv, NEW w \in Workers, EvaluateGate(w), main # "exited"
  PROVE  ListInv' /\ MergeInv' /\ DOMAIN results' = Jobs
<1>1. PICK j \in Jobs :
        /\ Runs(w, j) /\ Len(results[j]) < Len(Slice(j))
        /\ LET r == TimeBasedPower(gates[Slice(j)[Len(results[j]) + 1]], waveform[j], period)
           IN  IF r.threw
                 THEN UNCHANGED results
                 ELSE results' = [results EXCEPT ![j] = Append(@, r.power)]
        /\ UNCHANGED <<inputs, mainVars>>
  BY DEF EvaluateGate
<1>2. main \in {"launch", "wait"} /\ UNCHANGED <<gates, period, main, order, merged>>
  BY <1>1, RunningJob DEF ResultsInv, inputs, mainVars
<1>3. merged = {} /\ MergeInv'
  BY <1>2 DEF ResultsInv, MergeInv
<1>4. \A k \in Jobs : Slice(k)' = Slice(k)
  BY <1>2 DEF Slice
<1> DEFINE g == Slice(j)[Len(results[j]) + 1]
           r == TimeBasedPower(gates[g], waveform[j], period)
<1>5. CASE r.threw
  <2>1. UNCHANGED results
    BY <1>1, <1>5
  <2> QED BY <1>2, <1>3, <2>1, ListsKept DEF ResultsInv
<1>6. CASE ~r.threw
  <2>1. results' = [results EXCEPT ![j] = Append(results[j], r.power)] /\ DOMAIN results = Jobs
    BY <1>1, <1>6 DEF ResultsInv
  <2>2. DOMAIN results' = Jobs /\ results'[j] = Append(results[j], r.power)
        /\ \A k \in Jobs \ {j} : results'[k] = results[k]
    BY <2>1
  <2>3. PowerOfGate(r.power, g)
    BY <1>6 DEF PowerOfGate
  <2> HIDE DEF r
  <2>4. PICK S : results[j] \in Seq(S)
    BY DEF ResultsInv, ListInv
  <2>5. /\ \E T : results'[j] \in Seq(T)
        /\ Len(results'[j]) = Len(results[j]) + 1 /\ Len(results[j]) \in Nat
        /\ \A i \in 1 .. Len(results[j]) + 1 :
             results'[j][i] = IF i = Len(results[j]) + 1 THEN r.power ELSE results[j][i]
    <3>1. PICK p : p = r.power
      OBVIOUS
    <3>2. PICK s : s = results[j]
      OBVIOUS
    <3>3. s \in Seq(S)
      BY <2>4, <3>2
    <3>4. /\ \E T : Append(s, p) \in Seq(T)
          /\ Len(Append(s, p)) = Len(s) + 1 /\ Len(s) \in Nat
          /\ \A i \in 1 .. Len(s) + 1 :
               Append(s, p)[i] = IF i = Len(s) + 1 THEN p ELSE s[i]
      BY <3>3, AppendResult
    <3>5. results'[j] = Append(s, p)
      BY <2>2, <3>1, <3>2
    <3> QED BY <3>1, <3>2, <3>4, <3>5
  <2>6. Len(Slice(j)) \in Nat /\ order \in SetToSeqs(Gates)
    BY <1>2, SliceHas DEF ResultsInv, ListInv
  <2>7. Len(results'[j]) <= Len(Slice(j))
    BY <1>1, <2>5, <2>6
  <2>8. \A i \in 1 .. Len(results'[j]) : PowerOfGate(results'[j][i], Slice(j)[i])
    <3> TAKE i \in 1 .. Len(results'[j])
    <3>1. CASE i = Len(results[j]) + 1
      BY <2>3, <2>5, <3>1
    <3>2. CASE i # Len(results[j]) + 1
      <4>1. i \in 1 .. Len(results[j]) /\ results'[j][i] = results[j][i]
        BY <2>5, <3>2
      <4> QED BY <1>2, <4>1 DEF ResultsInv, ListInv
    <3> QED BY <3>1, <3>2
  <2>9. ASSUME NEW k \in Jobs
        PROVE  /\ (\E T : results[k] \in Seq(T))'
               /\ (main # "shuffle" => Len(results[k]) <= Len(Slice(k)))'
               /\ (main # "shuffle" =>
                     \A i \in 1 .. Len(results[k]) : PowerOfGate(results[k][i], Slice(k)[i]))'
    <3>1. CASE k = j
      <4>1. (\E T : results[k] \in Seq(T))'
        BY <2>5, <3>1
      <4>2. (main # "shuffle" => Len(results[k]) <= Len(Slice(k)))'
        BY <1>4, <2>7, <3>1
      <4>3. (main # "shuffle" =>
               \A i \in 1 .. Len(results[k]) : PowerOfGate(results[k][i], Slice(k)[i]))'
        BY <1>2, <1>4, <2>8, <3>1 DEF PowerOfGate
      <4> QED BY <4>1, <4>2, <4>3
    <3>2. CASE k # j
      <4>1. results'[k] = results[k]
        BY <2>2, <3>2
      <4>2. (\E T : results[k] \in Seq(T))'
        BY <4>1 DEF ResultsInv, ListInv
      <4>3. (main # "shuffle" => Len(results[k]) <= Len(Slice(k)))'
        BY <1>2, <1>4, <4>1 DEF ResultsInv, ListInv
      <4>4. (main # "shuffle" =>
               \A i \in 1 .. Len(results[k]) : PowerOfGate(results[k][i], Slice(k)[i]))'
        BY <1>2, <1>4, <4>1 DEF PowerOfGate, ResultsInv, ListInv
      <4> QED BY <4>2, <4>3, <4>4
    <3> QED BY <3>1, <3>2
  <2> QED BY <1>2, <1>3, <2>2, <2>6, <2>9 DEF ListInv
<1> QED BY <1>5, <1>6

(* Every step of the analysis keeps the meaning of the lists and of what   *)
(* has been merged of them.                                                *)
LEMMA NextResults ==
  ASSUME PoolInv, ResultsInv, [Next]_vars
  PROVE  ResultsInv'
<1>1. FrameInv'
  BY NextFrame DEF ResultsInv
<1>2. CASE Shuffle
  <2>1. /\ main = "shuffle" /\ main' = "launch" /\ order' \in SetToSeqs(Gates)
        /\ UNCHANGED <<results, merged>>
    BY <1>2 DEF Shuffle, jobVars
  <2>2. merged = {} /\ \A j \in Jobs : results[j] = <<>>
    BY <2>1 DEF ResultsInv, MergeInv, ListInv
  <2>3. \A j \in Jobs : Len(Slice(j))' \in Nat
    BY <2>1, SliceHas
  <2>4. MergeInv' /\ DOMAIN results' = Jobs
    BY <2>1, <2>2 DEF ResultsInv, MergeInv
  <2>5. ASSUME NEW j \in Jobs
        PROVE  /\ (\E T : results[j] \in Seq(T))'
               /\ (main = "shuffle" => results[j] = <<>>)'
               /\ (main # "shuffle" => Len(results[j]) <= Len(Slice(j)))'
               /\ (main # "shuffle" =>
                     \A i \in 1 .. Len(results[j]) : PowerOfGate(results[j][i], Slice(j)[i]))'
    <3>1. results'[j] = <<>> /\ Len(results'[j]) = 0
      BY <2>1, <2>2
    <3>2. results'[j] \in Seq({})
      BY <3>1
    <3>3. (main # "shuffle" => Len(results[j]) <= Len(Slice(j)))'
      BY <2>3, <3>1
    <3>4. (main # "shuffle" =>
             \A i \in 1 .. Len(results[j]) : PowerOfGate(results[j][i], Slice(j)[i]))'
      BY <3>1
    <3> QED BY <2>1, <3>2, <3>3, <3>4
  <2> QED BY <1>1, <2>1, <2>4, <2>5 DEF ResultsInv, ListInv
<1>3. CASE MergeThread
  <2>1. PICK j \in Jobs :
          /\ merged = 1 .. j - 1 /\ main = "merge"
          /\ IF Len(results[j]) # Len(Slice(j))
               THEN main' = "exited" /\ UNCHANGED merged
               ELSE /\ merged' = merged \cup {j}
                    /\ main' = IF merged' = Jobs THEN "merged" ELSE "merge"
    BY <1>3 DEF MergeThread
  <2>2. UNCHANGED <<gates, period, order, results>>
    BY <1>3 DEF MergeThread, inputs, jobVars
  <2>3. ListInv'
    BY <2>1, <2>2, ListsKept DEF ResultsInv
  <2>4. \A k \in Jobs : Slice(k)' = Slice(k)
    BY <2>2 DEF Slice
  <2>5. CASE Len(results[j]) # Len(Slice(j))
    <3>1. main' = "exited" /\ merged' = merged
      BY <2>1, <2>5
    <3>2. MergeInv'
      BY <2>2, <2>4, <3>1 DEF ResultsInv, MergeInv
    <3> QED BY <1>1, <2>2, <2>3, <3>2 DEF ResultsInv
  <2>6. CASE Len(results[j]) = Len(Slice(j))
    <3>1. /\ merged' = merged \cup {j}
          /\ main' = IF merged' = Jobs THEN "merged" ELSE "merge"
      BY <2>1, <2>6
    <3>2. MergeInv'
      BY <2>2, <2>4, <2>6, <3>1 DEF ResultsInv, MergeInv
    <3> QED BY <1>1, <2>2, <2>3, <3>2 DEF ResultsInv
  <2> QED BY <2>5, <2>6
<1>4. ASSUME NEW w \in Workers, EvaluateGate(w), main # "exited"
      PROVE  ResultsInv'
  BY <1>1, <1>4, EvaluateStep DEF ResultsInv
<1>5. ASSUME UNCHANGED <<gates, period, order, results, merged>>,
             main' # main => main \in {"launch", "wait"} /\ main' \in {"wait", "merge", "exited"}
      PROVE  ResultsInv'
  <2>1. (main' = "shuffle") <=> (main = "shuffle")
    BY <1>5
  <2>2. ListInv'
    BY <1>5, <2>1, ListsKept DEF ResultsInv
  <2>3. \A k \in Jobs : Slice(k)' = Slice(k)
    BY <1>5 DEF Slice
  <2>4. main' # main => merged = {}
    BY <1>5 DEF ResultsInv, MergeInv
  <2>5. MergeInv'
    BY <1>5, <2>3, <2>4 DEF ResultsInv, MergeInv
  <2> QED BY <1>1, <1>5, <2>2, <2>5 DEF ResultsInv
<1>6. CASE Launch \/ LaunchNotify \/ Wait \/ LeaveFrame \/ Destroy
  BY <1>5, <1>6 DEF Launch, LaunchNotify, Wait, LeaveFrame, Destroy, inputs, mainVars, jobVars
<1>7. CASE Return \/ UNCHANGED vars
  BY <1>5, <1>7 DEF Return, vars, inputs, mainVars, jobVars
<1>8. ASSUME NEW w \in Workers, JobReturn(w) \/ PoolStep(w)
      PROVE  ResultsInv'
  BY <1>5, <1>8 DEF JobReturn, PoolStep, inputs, mainVars, jobVars
<1>9. ASSUME NEW w \in Workers, ExitInGate(w), main # "exited"
      PROVE  ResultsInv'
  <2>1. PICK j \in Jobs : Runs(w, j)
    BY <1>9 DEF ExitInGate
  <2>2. main \in {"launch", "wait"}
    BY <1>9, <2>1, RunningJob DEF ResultsInv
  <2>3. main' = "exited" /\ UNCHANGED <<gates, period, order, results, merged>>
    BY <1>9 DEF ExitInGate, inputs, jobVars
  <2> QED BY <1>5, <2>2, <2>3
<1> QED BY <1>2, <1>3, <1>4, <1>6, <1>7, <1>8, <1>9 DEF Next

(* The invariant of the analysis, on that of the pool it owns.             *)
THEOREM Invariance == Spec => [](PoolInv /\ ResultsInv)
<1>1. Init => PoolInv /\ ResultsInv
  BY InitResults, InitPoolInv DEF Init
<1>2. PoolInv /\ ResultsInv /\ [Next]_vars => PoolInv' /\ ResultsInv'
  BY NextResults, PoolOrNot, NextPoolInv
<1> QED BY <1>1, <1>2, PTL DEF Spec

(* While a job is queued or runs, the vectors it refers to exist, though   *)
(* they are declared after the pool in Power::power and go before it, and  *)
(* the main thread has not begun to merge them: it waits for every future  *)
(* first, and an exit of the process destroys none of them.                *)
THEOREM FrameOutlivesJobs == Spec => []JobsWithinFrame
<1>1. ASSUME PoolInv, ResultsInv, enqueued # settled
      PROVE  frame /\ main \in {"launch", "wait", "exited"}
  <2>1. settled \subseteq enqueued
    BY <1>1 DEF PoolInv, TaskHeldOnce
  <2>2. enqueued \subseteq Jobs
    BY <1>1, PowerAssumption DEF PoolInv, PoolTypeOK
  <2>3. main \notin {"shuffle", "merge", "merged"}
    BY <1>1, <2>1, <2>2 DEF ResultsInv, FrameInv
  <2> QED BY <1>1, <2>3 DEF ResultsInv, FrameInv
<1>2. PoolInv /\ ResultsInv => JobsWithinFrame
  BY <1>1 DEF JobsWithinFrame
<1> QED BY <1>2, Invariance, PTL

(* A report has exactly one result for every gate, at the place in the     *)
(* merged lists where the main thread looks for that gate, and it is the   *)
(* result of a sweep of that gate that did not throw: whatever the shuffle *)
(* and the slices, no gate is left out or counted twice, and no job that   *)
(* threw goes unnoticed though its future is only waited for.              *)
EachGateOnce ==
  main = "merged" =>
    \A g \in Gates :
      \E j \in Jobs : \E i \in 1 .. Len(results[j]) :
        /\ Slice(j)[i] = g /\ PowerOfGate(results[j][i], g)
        /\ \A k \in Jobs : \A m \in 1 .. Len(results[k]) :
             Slice(k)[m] = g => k = j /\ m = i

(* The merge loop reads results of the gates it names.                     *)
THEOREM ReportCountsEachGate == Spec => []EachGateOnce
<1>1. ASSUME PoolInv, ResultsInv, main = "merged", NEW g \in Gates
      PROVE  \E j \in Jobs : \E i \in 1 .. Len(results[j]) :
               /\ Slice(j)[i] = g /\ PowerOfGate(results[j][i], g)
               /\ \A k \in Jobs : \A m \in 1 .. Len(results[k]) :
                    Slice(k)[m] = g => k = j /\ m = i
  <2>1. order \in SetToSeqs(Gates) /\ \A j \in Jobs : Len(results[j]) = Len(Slice(j))
    BY <1>1 DEF ResultsInv, ListInv, MergeInv
  <2>2. IsFiniteSet(Gates) /\ Cardinality(Gates) = NGates /\ NGates \in Nat
    <3>1. NGates \in Nat
      BY PowerAssumption
    <3>2. IsFiniteSet(1 .. NGates) /\ Cardinality(1 .. NGates) = IF 1 > NGates THEN 0 ELSE NGates - 1 + 1
      BY <3>1, FS_Interval
    <3> QED BY <3>1, <3>2 DEF Gates
  <2>3. order \in Injection(Gates, Gates)
    BY <2>1, <2>2 DEF SetToSeqs, Injection, IsInjective, Gates
  <2>4. order \in Surjection(Gates, Gates)
    BY <2>2, <2>3, FS_Injection
  <2>5. PICK n \in Gates : order[n] = g
    BY <2>4 DEF Surjection
  <2>6. PICK j \in Jobs : StartOf(j) < n /\ n <= EndOf(j)
    BY SlicesPartition
  <2>7. /\ \A k \in Jobs : StartOf(k) \in Nat /\ EndOf(k) \in Nat
        /\ Gates \subseteq Nat
    BY <2>2, SliceBounds DEF Gates
  <2>8. \A k \in Jobs : /\ Len(Slice(k)) = EndOf(k) - StartOf(k)
                        /\ \A m \in 1 .. Len(Slice(k)) :
                             Slice(k)[m] = order[StartOf(k) + m] /\ StartOf(k) + m \in Gates
    BY <2>1, SliceHas
  <2> DEFINE i == n - StartOf(j)
  <2>9. i \in 1 .. Len(results[j]) /\ StartOf(j) + i = n
    BY <2>1, <2>6, <2>7, <2>8
  <2>10. Slice(j)[i] = g
    BY <2>1, <2>5, <2>8, <2>9
  <2>11. PowerOfGate(results[j][i], g)
    <3>1. PowerOfGate(results[j][i], Slice(j)[i])
      BY <1>1, <2>9 DEF ResultsInv, ListInv
    <3> QED BY <2>10, <3>1
  <2>12. ASSUME NEW k \in Jobs, NEW m \in 1 .. Len(results[k]), Slice(k)[m] = g
         PROVE  k = j /\ m = i
    <3>1. m \in 1 .. Len(Slice(k)) /\ order[StartOf(k) + m] = g /\ StartOf(k) + m \in Gates
      BY <2>1, <2>8, <2>12
    <3>2. StartOf(k) + m = n
      BY <2>3, <2>5, <3>1 DEF Injection, IsInjective
    <3>3. StartOf(k) < n /\ n <= EndOf(k)
      BY <2>7, <2>8, <3>1, <3>2
    <3>4. k = j
      BY <2>6, <3>3, SlicesPartition
    <3> QED BY <2>7, <3>1, <3>2, <3>4
  <2> HIDE DEF i
  <2> QED BY <2>9, <2>10, <2>11, <2>12
<1>2. PoolInv /\ ResultsInv => EachGateOnce
  BY <1>1 DEF EachGateOnce
<1> QED BY <1>2, Invariance, PTL

-----------------------------------------------------------------------------
(* The account of a job. *)

(* Leakage over units of time of the gates job j has a result for.         *)
LeakageBy(j, units) ==
  SumFunction([i \in 1 .. Len(results[j]) |-> LeakageOver(gates[Slice(j)[i]], units)])

(* The waveform of job j holds what its results add up to.                 *)
JobAccounted(j) ==
  /\ \A k \in Kinds : SumFunction(waveform[j][k]) = PowerOf(j, k)
  /\ PowerOf(j, "leakage") = LeakageBy(j, 0 .. TimeMax - 1)
  /\ period % 2 = 0 => \A c \in Cycles(period) :
       waveform[j]["leakage"][c] = LeakageBy(j, UnitsOf(c, period))

(* Job j has not thrown: it still runs, or has a result for every gate.    *)
Whole(j) == j \notin settled \/ Len(results[j]) = Len(Slice(j))

InputInv == gates \in Netlists /\ period \in Periods

JobsInv ==
  /\ waveform \in [Jobs -> Waveforms(period)]
  /\ \A j \in Jobs : \A i \in 1 .. Len(results[j]) : results[j][i] \in [Kinds -> Int]
  /\ \A j \in Jobs : \A k \in Kinds : waveform[j][k][NPeriod(period)] # 0 =>
       k # "leakage" /\ TimeMax % UnitsPerCycle(period) = 0
  /\ \A j \in Jobs : Whole(j) => JobAccounted(j)

(* The totals are those of the threads merged so far, until a list proves  *)
(* to be too short or a job ends the process.                              *)
TotalsInv ==
  main # "exited" => \A k \in Kinds :
    /\ sum[k] = SumFunction([j \in merged |-> PowerOf(j, k)])
    /\ \A c \in Cycles(period) : total[k][c] = SumFunction([j \in merged |-> waveform[j][k][c]])

AccountInv == InputInv /\ JobsInv /\ TotalsInv

(* A sum over a list that grows by one.                                    *)
LEMMA SumAppend ==
  ASSUME NEW n \in Nat, NEW c, NEW d, DOMAIN c = 1 .. n, DOMAIN d = 1 .. n + 1,
         \A i \in 1 .. n : c[i] = d[i] /\ d[i] \in Int, d[n + 1] \in Int
  PROVE  SumFunction(d) = SumFunction(c) + d[n + 1] /\ SumFunction(c) \in Int
<1>1. IsFiniteSet(1 .. n) /\ n + 1 \notin 1 .. n /\ 1 .. n + 1 = (1 .. n) \cup {n + 1}
  <2>1. IsFiniteSet(1 .. n)
    BY FS_Interval
  <2> QED BY <2>1
<1>2. PICK x : x = n + 1
  OBVIOUS
<1>3. SumFunction(d) = d[x] + SumFunction(c) /\ SumFunction(c) \in Int
  <2>1. x \notin 1 .. n /\ DOMAIN d = (1 .. n) \cup {x} /\ d[x] \in Int
    BY <1>1, <1>2
  <2> QED BY <1>1, <2>1, SumAdd
<1> QED BY <1>2, <1>3

(* Units of time are finitely many.                                        *)
LEMMA UnitsFinite ==
  /\ IsFiniteSet(0 .. TimeMax - 1)
  /\ \A c, p : IsFiniteSet(UnitsOf(c, p))
<1>1. IsFiniteSet(0 .. TimeMax - 1)
  <2>1. 0 \in Int /\ TimeMax - 1 \in Int
    BY GateAssumption
  <2> QED BY <2>1, FS_Interval
<1>2. \A c, p : UnitsOf(c, p) \in SUBSET (0 .. TimeMax - 1)
  BY DEF UnitsOf
<1> QED BY <1>1, <1>2, FS_Subset

(* A job without results has an empty account.                             *)
LEMMA EmptyAccount ==
  ASSUME period \in Nat \ {0}, NEW j \in Jobs, waveform[j] = NoWaveform(period), results[j] = <<>>
  PROVE  JobAccounted(j)
<1>1. ASSUME NEW k \in Kinds
      PROVE  SumFunction(waveform[j][k]) = 0 /\ PowerOf(j, k) = 0
             /\ \A c \in Slots(period) : waveform[j][k][c] = 0
  <2>1. PICK f : f = [c \in Slots(period) |-> 0]
    OBVIOUS
  <2>2. PICK h : h = [i \in DOMAIN results[j] |-> results[j][i][k]]
    OBVIOUS
  <2>3. DOMAIN f = Slots(period) /\ \A c \in DOMAIN f : f[c] = 0
    BY <2>1
  <2>4. DOMAIN h = {}
    BY <2>2
  <2>5. SumFunction(f) = 0
    BY <2>3, SlotsFinite, SumZero
  <2>6. SumFunction(h) = 0
    BY <2>4, SumEmpty
  <2>7. waveform[j][k] = f
    BY <2>1 DEF NoWaveform
  <2> QED BY <2>2, <2>3, <2>5, <2>6, <2>7 DEF PowerOf
<1>2. \A U : LeakageBy(j, U) = 0
  <2> SUFFICES ASSUME NEW U PROVE LeakageBy(j, U) = 0
    OBVIOUS
  <2>1. PICK f : f = [i \in 1 .. Len(results[j]) |-> LeakageOver(gates[Slice(j)[i]], U)]
    OBVIOUS
  <2>2. DOMAIN f = {}
    BY <2>1
  <2>3. SumFunction(f) = 0
    BY <2>2, SumEmpty
  <2> QED BY <2>1, <2>3 DEF LeakageBy
<1>3. \A c \in Cycles(period) : c \in Slots(period)
  <2>1. NPeriod(period) \in Nat
    BY PeriodsCover
  <2> QED BY <2>1 DEF Cycles, Slots
<1>4. "leakage" \in Kinds
  BY DEF Kinds
<1>5. \A k \in Kinds : SumFunction(waveform[j][k]) = PowerOf(j, k)
  BY <1>1
<1>6. PowerOf(j, "leakage") = LeakageBy(j, 0 .. TimeMax - 1)
  BY <1>1, <1>2, <1>4
<1>7. \A c \in Cycles(period) : waveform[j]["leakage"][c] = LeakageBy(j, UnitsOf(c, period))
  BY <1>1, <1>2, <1>3, <1>4
<1> QED BY <1>5, <1>6, <1>7 DEF JobAccounted

(* Nothing merged: no totals.                                              *)
LEMMA NothingMerged ==
  ASSUME period \in Nat \ {0}, sum = NoPower, total = NoWaveform(period), merged = {}
  PROVE  TotalsInv
<1>1. \A f : DOMAIN f = {} => SumFunction(f) = 0
  BY SumEmpty
<1>2. ASSUME NEW k \in Kinds
      PROVE  sum[k] = SumFunction([j \in merged |-> PowerOf(j, k)])
  <2>1. PICK f : f = [j \in merged |-> PowerOf(j, k)]
    OBVIOUS
  <2>2. DOMAIN f = {}
    BY <2>1
  <2> QED BY <1>1, <2>1, <2>2 DEF NoPower
<1>3. ASSUME NEW k \in Kinds, NEW c \in Cycles(period)
      PROVE  total[k][c] = SumFunction([j \in merged |-> waveform[j][k][c]])
  <2>1. PICK f : f = [j \in merged |-> waveform[j][k][c]]
    OBVIOUS
  <2>2. DOMAIN f = {}
    BY <2>1
  <2>3. c \in Slots(period)
    <3>1. NPeriod(period) \in Nat
      BY PeriodsCover
    <3> QED BY <3>1 DEF Cycles, Slots
  <2> QED BY <1>1, <2>1, <2>2, <2>3 DEF NoWaveform
<1> QED BY <1>2, <1>3 DEF TotalsInv

(* Before the shuffle nothing is charged and nothing merged.               *)
LEMMA InitAccount == Init => AccountInv
<1> SUFFICES ASSUME Init PROVE AccountInv
  OBVIOUS
<1>1. /\ InputInv /\ period \in Nat \ {0} /\ main = "shuffle" /\ settled = {} /\ merged = {}
      /\ waveform = [j \in Jobs |-> NoWaveform(period)] /\ results = [j \in Jobs |-> <<>>]
      /\ total = NoWaveform(period) /\ sum = NoPower
  BY PowerAssumption DEF Init, PoolInit, InputInv
<1>2. NoWaveform(period) \in Waveforms(period)
  BY DEF NoWaveform, Waveforms
<1>3. \A k \in Kinds : NoWaveform(period)[k][NPeriod(period)] = 0
  BY <1>1, SlotsFinite DEF NoWaveform
<1>4. \A j \in Jobs : waveform[j] = NoWaveform(period) /\ results[j] = <<>>
  BY <1>1
<1>5. \A j \in Jobs : JobAccounted(j)
  BY <1>1, <1>4, EmptyAccount
<1>6. waveform \in [Jobs -> Waveforms(period)]
  BY <1>1, <1>2
<1>7. JobsInv
  BY <1>3, <1>4, <1>5, <1>6 DEF JobsInv
<1>8. TotalsInv
  BY <1>1, NothingMerged
<1> QED BY <1>1, <1>7, <1>8 DEF AccountInv

(* The account of a job depends on its own waveform and list only.         *)
LEMMA JobKept ==
  ASSUME NEW j \in Jobs, JobAccounted(j), waveform'[j] = waveform[j], results'[j] = results[j],
         UNCHANGED <<gates, period>>, Slice(j)' = Slice(j)
  PROVE  JobAccounted(j)'
<1>1. \A k : PowerOf(j, k)' = PowerOf(j, k)
  BY DEF PowerOf
<1>2. \A U : LeakageBy(j, U)' = LeakageBy(j, U)
  BY DEF LeakageBy
<1>3. (\A k \in Kinds : SumFunction(waveform[j][k]) = PowerOf(j, k))'
  BY <1>1 DEF JobAccounted
<1>4. (PowerOf(j, "leakage") = LeakageBy(j, 0 .. TimeMax - 1))'
  BY <1>1, <1>2 DEF JobAccounted
<1>5. (period % 2 = 0 => \A c \in Cycles(period) :
         waveform[j]["leakage"][c] = LeakageBy(j, UnitsOf(c, period)))'
  BY <1>2 DEF JobAccounted
<1> QED BY <1>3, <1>4, <1>5 DEF JobAccounted

(* Steps that leave the waveforms and the lists alone.                     *)
LEMMA JobsKept ==
  ASSUME JobsInv, UNCHANGED <<gates, period, waveform, results>>,
         \A j \in Jobs : Slice(j)' = Slice(j),
         \A j \in Jobs : Whole(j)' => Whole(j)
  PROVE  JobsInv'
<1>1. ASSUME NEW j \in Jobs, Whole(j)'
      PROVE  JobAccounted(j)'
  <2>1. JobAccounted(j)
    BY <1>1 DEF JobsInv
  <2> QED BY <2>1, JobKept
<1> QED BY <1>1 DEF JobsInv

(* Steps that leave the totals alone: nothing is merged yet, or nothing    *)
(* else changes.                                                           *)
LEMMA TotalsKept ==
  ASSUME TotalsInv, UNCHANGED <<period, sum, total, merged>>,
         main' # "exited" => main # "exited",
         merged = {} \/ UNCHANGED <<waveform, results>>
  PROVE  TotalsInv'
<1>1. \A j \in merged : \A k : PowerOf(j, k)' = PowerOf(j, k)
  BY DEF PowerOf
<1>2. \A j \in merged : waveform'[j] = waveform[j]
  OBVIOUS
<1>3. ASSUME main' # "exited", NEW k \in Kinds
      PROVE  /\ sum'[k] = SumFunction([j \in merged' |-> PowerOf(j, k)'])
             /\ \A c \in Cycles(period') :
                  total'[k][c] = SumFunction([j \in merged' |-> waveform'[j][k][c]])
  <2>1. [j \in merged' |-> PowerOf(j, k)'] = [j \in merged |-> PowerOf(j, k)]
    BY <1>1
  <2>2. ASSUME NEW c \in Cycles(period)
        PROVE  [j \in merged' |-> waveform'[j][k][c]] = [j \in merged |-> waveform[j][k][c]]
    BY <1>2
  <2> QED BY <1>3, <2>1, <2>2 DEF TotalsInv
<1> QED BY <1>3 DEF TotalsInv

(* The shuffle: no job has been given out.                                 *)
LEMMA ShuffleAccount ==
  ASSUME PoolInv, ResultsInv, AccountInv, Shuffle
  PROVE  AccountInv'
<1>1. /\ main = "shuffle" /\ main' = "launch"
      /\ UNCHANGED <<settled, enqueued, gates, period, total, sum, merged, waveform, results>>
  BY DEF Shuffle, poolVars, inputs, jobVars
<1>2. settled = {} /\ merged = {} /\ period \in Nat \ {0}
  BY <1>1, PowerAssumption DEF ResultsInv, FrameInv, MergeInv, PoolInv, TaskHeldOnce, AccountInv, InputInv
<1>3. \A j \in Jobs : results[j] = <<>> /\ Whole(j)
  BY <1>1, <1>2 DEF ResultsInv, ListInv, Whole
<1>4. ASSUME NEW j \in Jobs
      PROVE  JobAccounted(j)'
  <2>1. JobAccounted(j) /\ results[j] = <<>>
    BY <1>3 DEF AccountInv, JobsInv
  <2>2. \A k : PowerOf(j, k)' = PowerOf(j, k)
    BY <1>1 DEF PowerOf
  <2>3. \A U : LeakageBy(j, U)' = LeakageBy(j, U)
    <3> SUFFICES ASSUME NEW U
                 PROVE  [i \in 1 .. Len(results'[j]) |-> LeakageOver(gates'[Slice(j)'[i]], U)]
                        = [i \in 1 .. Len(results[j]) |-> LeakageOver(gates[Slice(j)[i]], U)]
      BY DEF LeakageBy
    <3>1. 1 .. Len(results[j]) = {} /\ 1 .. Len(results'[j]) = {}
      BY <1>1, <2>1
    <3> QED BY <3>1
  <2>4. (\A k \in Kinds : SumFunction(waveform[j][k]) = PowerOf(j, k))'
    BY <1>1, <2>1, <2>2 DEF JobAccounted
  <2>5. (PowerOf(j, "leakage") = LeakageBy(j, 0 .. TimeMax - 1))'
    BY <1>1, <2>1, <2>2, <2>3 DEF JobAccounted
  <2>6. (period % 2 = 0 => \A c \in Cycles(period) :
           waveform[j]["leakage"][c] = LeakageBy(j, UnitsOf(c, period)))'
    BY <1>1, <2>1, <2>3 DEF JobAccounted
  <2> QED BY <2>4, <2>5, <2>6 DEF JobAccounted
<1>5. JobsInv'
  BY <1>1, <1>4 DEF AccountInv, JobsInv
<1>6. TotalsInv'
  BY <1>1, TotalsKept DEF AccountInv
<1> QED BY <1>1, <1>5, <1>6 DEF AccountInv, InputInv

(* The waveform and the list of a thread are added to the totals.          *)
LEMMA MergeAccount ==
  ASSUME PoolInv, ResultsInv, AccountInv, MergeThread
  PROVE  AccountInv'
<1>1. PICK j \in Jobs :
        /\ merged = 1 .. j - 1 /\ main = "merge"
        /\ total' = [k \in Kinds |-> [c \in Slots(period) |->
                       total[k][c] + IF c \in Cycles(period) THEN waveform[j][k][c] ELSE 0]]
        /\ IF Len(results[j]) # Len(Slice(j))
             THEN main' = "exited"
             ELSE /\ sum' = [k \in Kinds |-> sum[k] + PowerOf(j, k)]
                  /\ merged' = merged \cup {j}
  BY DEF MergeThread
<1>2. UNCHANGED <<gates, period, order, waveform, results, settled>>
  BY DEF MergeThread, inputs, jobVars, poolVars
<1>3. InputInv' /\ JobsInv'
  <2>1. \A i \in Jobs : Slice(i)' = Slice(i)
    BY <1>2 DEF Slice
  <2>2. \A i \in Jobs : Whole(i)' => Whole(i)
    BY <1>2, <2>1 DEF Whole
  <2> QED BY <1>2, <2>1, <2>2, JobsKept DEF AccountInv, InputInv
<1>4. ASSUME main' # "exited", NEW k \in Kinds
      PROVE  /\ sum'[k] = SumFunction([i \in merged' |-> PowerOf(i, k)'])
             /\ \A c \in Cycles(period') :
                  total'[k][c] = SumFunction([i \in merged' |-> waveform'[i][k][c]])
  <2>1. merged' = merged \cup {j} /\ j \notin merged /\ merged \subseteq Jobs /\ IsFiniteSet(merged)
    <3>1. j \in Nat
      BY PoolAssumption DEF Jobs
    <3>2. IsFiniteSet(1 .. j - 1)
      BY <3>1, FS_Interval
    <3> QED BY <1>1, <1>4, <3>1, <3>2 DEF ResultsInv, MergeInv
  <2>2. sum[k] = SumFunction([i \in merged |-> PowerOf(i, k)])
    BY <1>1 DEF AccountInv, TotalsInv
  <2>3. \A i \in Jobs : PowerOf(i, k) \in Int /\ PowerOf(i, k)' = PowerOf(i, k)
    <3> SUFFICES ASSUME NEW i \in Jobs PROVE PowerOf(i, k) \in Int
      BY <1>2 DEF PowerOf
    <3>1. PICK f : f = [m \in DOMAIN results[i] |-> results[i][m][k]]
      OBVIOUS
    <3>2. DOMAIN results[i] = 1 .. Len(results[i]) /\ Len(results[i]) \in Nat
      BY DEF ResultsInv, ListInv
    <3>3. IsFiniteSet(DOMAIN f)
      BY <3>1, <3>2, FS_Interval
    <3>4. \A m \in DOMAIN f : f[m] \in Int
      BY <3>1, <3>2 DEF AccountInv, JobsInv
    <3>5. SumFunction(f) \in Int
      BY <3>3, <3>4, SumType
    <3> QED BY <3>1, <3>5 DEF PowerOf
  <2>4. sum'[k] = SumFunction([i \in merged' |-> PowerOf(i, k)'])
    <3>1. PICK f : f = [i \in merged |-> PowerOf(i, k)]
      OBVIOUS
    <3>2. PICK h : h = [i \in merged' |-> PowerOf(i, k)']
      OBVIOUS
    <3>3. DOMAIN f = merged /\ DOMAIN h = merged \cup {j} /\ h[j] = PowerOf(j, k) /\ h[j] \in Int
      BY <2>1, <2>3, <3>1, <3>2
    <3>4. \A i \in merged : f[i] = h[i] /\ h[i] \in Int
      BY <2>1, <2>3, <3>1, <3>2
    <3>5. SumFunction(h) = h[j] + SumFunction(f) /\ SumFunction(f) \in Int
      BY <2>1, <3>3, <3>4, SumAdd
    <3>6. sum'[k] = sum[k] + PowerOf(j, k)
      BY <1>1, <1>4
    <3> QED BY <2>2, <3>1, <3>2, <3>3, <3>5, <3>6
  <2>5. ASSUME NEW c \in Cycles(period)
        PROVE  total'[k][c] = SumFunction([i \in merged' |-> waveform'[i][k][c]])
    <3>1. PICK f : f = [i \in merged |-> waveform[i][k][c]]
      OBVIOUS
    <3>2. PICK h : h = [i \in merged' |-> waveform'[i][k][c]]
      OBVIOUS
    <3>3. c \in Slots(period)
      <4>1. NPeriod(period) \in Nat
        BY PeriodsCover, PowerAssumption DEF AccountInv, InputInv
      <4> QED BY <4>1 DEF Cycles, Slots
    <3>4. \A i \in Jobs : waveform[i][k][c] \in Int
      BY <3>3 DEF AccountInv, JobsInv, Waveforms
    <3>5. DOMAIN f = merged /\ DOMAIN h = merged \cup {j} /\ h[j] = waveform[j][k][c] /\ h[j] \in Int
      BY <1>2, <2>1, <3>1, <3>2, <3>4
    <3>6. \A i \in merged : f[i] = h[i] /\ h[i] \in Int
      BY <1>2, <2>1, <3>1, <3>2, <3>4
    <3>7. SumFunction(h) = h[j] + SumFunction(f) /\ SumFunction(f) \in Int
      BY <2>1, <3>5, <3>6, SumAdd
    <3>8. total[k][c] = SumFunction(f)
      BY <1>1, <3>1 DEF AccountInv, TotalsInv
    <3>9. total'[k][c] = total[k][c] + waveform[j][k][c]
      BY <1>1, <3>3
    <3> QED BY <3>2, <3>5, <3>7, <3>8, <3>9
  <2> QED BY <1>2, <2>4, <2>5
<1>5. TotalsInv'
  BY <1>4 DEF TotalsInv
<1> QED BY <1>3, <1>5 DEF AccountInv

(* One more result: what its sweep charges goes to the list and to the     *)
(* waveform alike.                                                         *)
LEMMA JobCharged ==
  ASSUME ResultsInv, AccountInv, NEW j \in Jobs, JobAccounted(j), main # "shuffle",
         NEW n, n = Len(results[j]), n < Len(Slice(j)),
         NEW g, g = gates[Slice(j)[n + 1]], WellFormed(g), UNCHANGED <<gates, period, order>>,
         NEW r, r.power \in [Kinds -> Int], r.waveform \in Waveforms(period),
         Accounted(g, waveform[j], period, r),
         waveform'[j] = r.waveform, results'[j] = Append(results[j], r.power)
  PROVE  JobAccounted(j)'
<1>1. /\ n \in Nat /\ DOMAIN results[j] = 1 .. n
      /\ DOMAIN results'[j] = 1 .. n + 1 /\ Len(results'[j]) = n + 1
      /\ \A i \in 1 .. n : results'[j][i] = results[j][i]
      /\ results'[j][n + 1] = r.power
  <2>1. PICK S : results[j] \in Seq(S)
    BY DEF ResultsInv, ListInv
  <2>2. PICK s : s = results[j]
    OBVIOUS
  <2>3. PICK q : q = r.power
    OBVIOUS
  <2>4. s \in Seq(S \cup {q}) /\ q \in S \cup {q} /\ n = Len(s) /\ results'[j] = Append(s, q)
    BY <2>1, <2>2, <2>3
  <2>5. /\ Len(s) \in Nat /\ DOMAIN s = 1 .. Len(s)
        /\ Len(Append(s, q)) = Len(s) + 1 /\ DOMAIN Append(s, q) = 1 .. Len(s) + 1
        /\ \A i \in 1 .. Len(s) : Append(s, q)[i] = s[i]
        /\ Append(s, q)[Len(s) + 1] = q
    BY <2>4
  <2> QED BY <2>2, <2>3, <2>4, <2>5
<1>2. /\ waveform[j] \in Waveforms(period) /\ period \in Nat \ {0}
      /\ \A i \in 1 .. n : results[j][i] \in [Kinds -> Int]
  BY PowerAssumption DEF AccountInv, InputInv, JobsInv
<1>3. Slice(j)' = Slice(j)
  BY DEF Slice
<1>4. ASSUME NEW k \in Kinds
      PROVE  PowerOf(j, k)' = PowerOf(j, k) + r.power[k]
  <2>1. PICK c : c = [i \in DOMAIN results[j] |-> results[j][i][k]]
    OBVIOUS
  <2>2. PICK d : d = [i \in DOMAIN results'[j] |-> results'[j][i][k]]
    OBVIOUS
  <2>3. DOMAIN c = 1 .. n /\ DOMAIN d = 1 .. n + 1
    BY <1>1, <2>1, <2>2
  <2>4. \A i \in 1 .. n : c[i] = d[i] /\ d[i] \in Int
    BY <1>1, <1>2, <2>1, <2>2
  <2>5. d[n + 1] = r.power[k] /\ d[n + 1] \in Int
    BY <1>1, <2>2
  <2>6. SumFunction(d) = SumFunction(c) + d[n + 1]
    BY <1>1, <2>3, <2>4, <2>5, SumAppend
  <2> QED BY <2>1, <2>2, <2>5, <2>6 DEF PowerOf
<1>5. ASSUME NEW U, IsFiniteSet(U)
      PROVE  LeakageBy(j, U)' = LeakageBy(j, U) + LeakageOver(g, U)
  <2>1. PICK c : c = [i \in 1 .. Len(results[j]) |-> LeakageOver(gates[Slice(j)[i]], U)]
    OBVIOUS
  <2>2. PICK d : d = [i \in 1 .. Len(results'[j]) |-> LeakageOver(gates'[Slice(j)'[i]], U)]
    OBVIOUS
  <2>3. \A h : LeakageOver(h, U) \in Int
    BY <1>5, LeakageOverType
  <2>4. DOMAIN c = 1 .. n /\ DOMAIN d = 1 .. n + 1
    BY <1>1, <2>1, <2>2
  <2>5. \A i \in 1 .. n : c[i] = d[i] /\ d[i] \in Int
    BY <1>1, <1>3, <2>1, <2>2, <2>3
  <2>6. d[n + 1] = LeakageOver(g, U) /\ d[n + 1] \in Int
    BY <1>1, <1>3, <2>2, <2>3
  <2>7. SumFunction(d) = SumFunction(c) + d[n + 1]
    BY <1>1, <2>4, <2>5, <2>6, SumAppend
  <2> QED BY <2>1, <2>2, <2>6, <2>7 DEF LeakageBy
<1>6. (\A k \in Kinds : SumFunction(waveform[j][k]) = PowerOf(j, k))'
  <2> SUFFICES ASSUME NEW k \in Kinds PROVE SumFunction(waveform'[j][k]) = PowerOf(j, k)'
    OBVIOUS
  <2>1. SumFunction(r.waveform[k]) = SumFunction(waveform[j][k]) + r.power[k]
    BY DEF Accounted
  <2>2. SumFunction(waveform[j][k]) = PowerOf(j, k)
    BY DEF JobAccounted
  <2> QED BY <1>4, <2>1, <2>2
<1>7. (PowerOf(j, "leakage") = LeakageBy(j, 0 .. TimeMax - 1))'
  <2>1. PowerOf(j, "leakage")' = PowerOf(j, "leakage") + r.power["leakage"]
    BY <1>4 DEF Kinds
  <2>2. LeakageBy(j, 0 .. TimeMax - 1)' = LeakageBy(j, 0 .. TimeMax - 1) + LeakageOver(g, 0 .. TimeMax - 1)
    BY <1>5, UnitsFinite
  <2>3. PowerOf(j, "leakage") = LeakageBy(j, 0 .. TimeMax - 1)
    BY DEF JobAccounted
  <2>4. r.power["leakage"] = LeakageOver(g, 0 .. TimeMax - 1)
    BY DEF Accounted
  <2> QED BY <2>1, <2>2, <2>3, <2>4
<1>8. (period % 2 = 0 => \A c \in Cycles(period) :
         waveform[j]["leakage"][c] = LeakageBy(j, UnitsOf(c, period)))'
  <2> SUFFICES ASSUME period % 2 = 0, NEW c \in Cycles(period)
               PROVE  waveform'[j]["leakage"][c] = LeakageBy(j, UnitsOf(c, period))'
    OBVIOUS
  <2>1. LeakageBy(j, UnitsOf(c, period))' =
          LeakageBy(j, UnitsOf(c, period)) + LeakageOver(g, UnitsOf(c, period))
    BY <1>5, UnitsFinite
  <2>2. waveform[j]["leakage"][c] = LeakageBy(j, UnitsOf(c, period))
    BY DEF JobAccounted
  <2>3. r.waveform["leakage"][c] = waveform[j]["leakage"][c] + LeakageOver(g, UnitsOf(c, period))
    BY DEF Accounted
  <2> QED BY <2>1, <2>2, <2>3
<1> QED BY <1>6, <1>7, <1>8 DEF JobAccounted

(* The sweep of a gate charges its job, or throws and ends it.             *)
LEMMA EvaluateAccount ==
  ASSUME PoolInv, ResultsInv, AccountInv, NEW w \in Workers, EvaluateGate(w), main # "exited"
  PROVE  AccountInv'
<1>1. PICK j \in Jobs :
        /\ Runs(w, j) /\ Len(results[j]) < Len(Slice(j))
        /\ LET r == TimeBasedPower(gates[Slice(j)[Len(results[j]) + 1]], waveform[j], period)
           IN  /\ waveform' = [waveform EXCEPT ![j] = r.waveform]
               /\ IF r.threw
                    THEN TaskReturn(w) /\ UNCHANGED results
                    ELSE /\ results' = [results EXCEPT ![j] = Append(@, r.power)]
                         /\ UNCHANGED poolVars
        /\ UNCHANGED <<inputs, mainVars>>
  BY DEF EvaluateGate
<1>2. PICK n : n = Len(results[j])
  OBVIOUS
<1>3. PICK g : g = gates[Slice(j)[n + 1]]
  OBVIOUS
<1>4. PICK r : r = TimeBasedPower(g, waveform[j], period)
  OBVIOUS
<1>5. /\ waveform' = [waveform EXCEPT ![j] = r.waveform]
      /\ r.threw => TaskReturn(w) /\ UNCHANGED results
      /\ ~r.threw => results' = [results EXCEPT ![j] = Append(results[j], r.power)] /\ UNCHANGED poolVars
      /\ UNCHANGED <<gates, period, main, order, total, sum, merged>>
  BY <1>1, <1>2, <1>3, <1>4 DEF inputs, mainVars
<1>6. main \in {"launch", "wait"} /\ order \in SetToSeqs(Gates) /\ merged = {}
  BY <1>1, RunningJob DEF ResultsInv, ListInv, MergeInv
<1>7. /\ n \in Nat /\ n + 1 \in 1 .. Len(Slice(j)) /\ Len(Slice(j)) \in Nat
      /\ Slice(j)[n + 1] \in Gates
  <2>1. n \in Nat
    BY <1>2 DEF ResultsInv, ListInv
  <2>2. /\ Len(Slice(j)) \in Nat
        /\ \A i \in 1 .. Len(Slice(j)) : Slice(j)[i] = order[StartOf(j) + i] /\ StartOf(j) + i \in Gates
    BY <1>6, SliceHas
  <2>3. n + 1 \in 1 .. Len(Slice(j))
    BY <1>1, <1>2, <2>1, <2>2
  <2>4. \A i \in Gates : order[i] \in Gates
    <3>1. NGates \in Nat /\ IsFiniteSet(1 .. NGates) /\ Cardinality(1 .. NGates) = NGates
      <4>1. NGates \in Nat
        BY PowerAssumption
      <4>2. IsFiniteSet(1 .. NGates) /\ Cardinality(1 .. NGates) = IF 1 > NGates THEN 0 ELSE NGates - 1 + 1
        BY <4>1, FS_Interval
      <4> QED BY <4>1, <4>2
    <3> QED BY <1>6, <3>1 DEF SetToSeqs, Gates
  <2> QED BY <2>1, <2>2, <2>3, <2>4
<1>8. WellFormed(g) /\ period \in Nat \ {0} /\ waveform[j] \in Waveforms(period)
  BY <1>3, <1>7, PowerAssumption DEF AccountInv, InputInv, JobsInv
<1>9. /\ r.waveform \in Waveforms(period) /\ r.power \in [Kinds -> Int] /\ r.threw \in BOOLEAN
      /\ ~r.threw => Accounted(g, waveform[j], period, r)
      /\ \A k \in Kinds : r.waveform[k][NPeriod(period)] # waveform[j][k][NPeriod(period)] =>
           k # "leakage" /\ TimeMax % UnitsPerCycle(period) = 0
  BY <1>4, <1>8, GateAccount
<1>10. \A i \in Jobs : Slice(i)' = Slice(i)
  BY <1>5 DEF Slice
<1>11. /\ waveform' \in [Jobs -> Waveforms(period)] /\ waveform'[j] = r.waveform
       /\ \A i \in Jobs \ {j} : waveform'[i] = waveform[i]
  BY <1>5, <1>9 DEF AccountInv, JobsInv
<1>12. /\ \A i \in Jobs \ {j} : results'[i] = results[i]
       /\ r.threw => results'[j] = results[j]
       /\ ~r.threw => results'[j] = Append(results[j], r.power)
  BY <1>5, <1>9 DEF ResultsInv
<1>13. ASSUME NEW i \in Jobs, NEW k \in Kinds, waveform'[i][k][NPeriod(period)] # 0
       PROVE  k # "leakage" /\ TimeMax % UnitsPerCycle(period) = 0
  <2>1. waveform[i][k][NPeriod(period)] # 0 \/ (i = j /\ r.waveform[k][NPeriod(period)] # waveform[j][k][NPeriod(period)])
    BY <1>11, <1>13
  <2> QED BY <1>9, <2>1 DEF AccountInv, JobsInv
<1>14. ASSUME NEW i \in Jobs, NEW m \in 1 .. Len(results'[i])
       PROVE  results'[i][m] \in [Kinds -> Int]
  <2>1. CASE results'[i] = results[i]
    BY <1>14, <2>1 DEF AccountInv, JobsInv
  <2>2. CASE results'[i] # results[i]
    <3>1. i = j /\ results'[j] = Append(results[j], r.power)
      BY <1>9, <1>12, <2>2
    <3>2. PICK S : results[j] \in Seq(S)
      BY DEF ResultsInv, ListInv
    <3>3. PICK s : s = results[j]
      OBVIOUS
    <3>4. PICK p : p = r.power
      OBVIOUS
    <3>5. s \in Seq(S)
      BY <3>2, <3>3
    <3>6. /\ Len(Append(s, p)) = Len(s) + 1 /\ Len(s) \in Nat
          /\ \A x \in 1 .. Len(s) + 1 : Append(s, p)[x] = IF x = Len(s) + 1 THEN p ELSE s[x]
      BY <3>5, AppendResult
    <3>7. \A x \in 1 .. Len(s) : s[x] \in [Kinds -> Int]
      BY <3>3 DEF AccountInv, JobsInv
    <3>8. m \in 1 .. Len(s) + 1 /\ results'[i][m] = Append(s, p)[m]
      BY <3>1, <3>3, <3>4, <3>6
    <3>9. m # Len(s) + 1 => m \in 1 .. Len(s)
      BY <3>6, <3>8
    <3> QED BY <1>9, <3>4, <3>6, <3>7, <3>8, <3>9
  <2> QED BY <2>1, <2>2
<1>15. j \notin settled
  <2>1. j # 0 /\ task[w] = j
    BY <1>1, PoolAssumption, PowerAssumption DEF Runs
  <2>2. j \in Held
    BY <2>1 DEF Held
  <2> QED BY <2>2 DEF PoolInv, TaskHeldOnce
<1>16. JobAccounted(j)
  BY <1>15 DEF AccountInv, JobsInv, Whole
<1>17. ASSUME NEW i \in Jobs, Whole(i)'
       PROVE  JobAccounted(i)'
  <2>1. CASE i # j
    <3>1. settled \subseteq settled' /\ waveform'[i] = waveform[i] /\ results'[i] = results[i]
      <4>1. CASE r.threw
        BY <1>5, <4>1, <1>11, <1>12, <2>1 DEF TaskReturn
      <4>2. CASE ~r.threw
        BY <1>5, <4>2, <1>11, <1>12, <2>1 DEF poolVars
      <4> QED BY <4>1, <4>2
    <3>2. Whole(i)
      BY <1>10, <1>17, <3>1 DEF Whole
    <3>3. JobAccounted(i)
      BY <3>2 DEF AccountInv, JobsInv
    <3> QED BY <1>5, <1>10, <3>1, <3>3, JobKept
  <2>2. CASE i = j /\ r.threw
    <3>1. j \in settled' /\ results'[j] = results[j] /\ Slice(j)' = Slice(j)
      BY <1>1, <1>5, <1>10, <1>12, <2>2 DEF TaskReturn, Runs
    <3>2. Len(results[j]) # Len(Slice(j))
      BY <1>2, <1>7
    <3> QED BY <1>17, <2>2, <3>1, <3>2 DEF Whole
  <2>3. CASE i = j /\ ~r.threw
    <3>1. main # "shuffle" /\ n < Len(Slice(j))
      BY <1>6, <1>7
    <3>2. waveform'[j] = r.waveform /\ results'[j] = Append(results[j], r.power)
      BY <1>11, <1>12, <2>3
    <3>3. Accounted(g, waveform[j], period, r)
      BY <1>9, <2>3
    <3> QED BY <1>2, <1>3, <1>5, <1>8, <1>9, <1>16, <2>3, <3>1, <3>2, <3>3, JobCharged
  <2> QED BY <1>9, <2>1, <2>2, <2>3
<1>18. JobsInv'
  <2>1. (waveform \in [Jobs -> Waveforms(period)])'
    BY <1>5, <1>11
  <2>2. (\A i \in Jobs : \A k \in Kinds : waveform[i][k][NPeriod(period)] # 0 =>
           k # "leakage" /\ TimeMax % UnitsPerCycle(period) = 0)'
    BY <1>5, <1>13
  <2> QED BY <1>14, <1>17, <2>1, <2>2 DEF JobsInv
<1>19. TotalsInv'
  BY <1>5, <1>6, TotalsKept DEF AccountInv
<1> QED BY <1>5, <1>18, <1>19 DEF AccountInv, InputInv

(* Every step keeps the accounts.                                          *)
LEMMA NextAccount ==
  ASSUME PoolInv, ResultsInv, AccountInv, [Next]_vars
  PROVE  AccountInv'
<1>1. ASSUME UNCHANGED <<gates, period, order, waveform, results, total, sum, merged>>,
             main' # "exited" => main # "exited",
             \A j \in Jobs : Whole(j)' => Whole(j)
      PROVE  AccountInv'
  <2>1. \A j \in Jobs : Slice(j)' = Slice(j)
    BY <1>1 DEF Slice
  <2>2. JobsInv'
    BY <1>1, <2>1, JobsKept DEF AccountInv
  <2>3. TotalsInv'
    BY <1>1, TotalsKept DEF AccountInv
  <2> QED BY <1>1, <2>2, <2>3 DEF AccountInv, InputInv
<1>2. ASSUME UNCHANGED <<order, results>>, settled \subseteq settled'
      PROVE  \A j \in Jobs : Whole(j)' => Whole(j)
  <2>1. \A j \in Jobs : Slice(j)' = Slice(j)
    BY <1>2 DEF Slice
  <2> QED BY <1>2, <2>1 DEF Whole
<1>3. CASE Shuffle
  BY <1>3, ShuffleAccount
<1>4. CASE MergeThread
  BY <1>4, MergeAccount
<1>5. CASE Launch \/ LaunchNotify \/ Wait \/ LeaveFrame \/ Destroy
  <2>1. /\ UNCHANGED <<gates, period, order, waveform, results, total, sum, merged, settled>>
        /\ main' # "exited" => main # "exited"
    BY <1>5 DEF Launch, LaunchNotify, Wait, LeaveFrame, Destroy, EnqueuePush, EnqueueNotify,
                DestroyStop, DestroyNotify, DestroyJoin, inputs, mainVars, jobVars, poolVars
  <2> QED BY <1>1, <1>2, <2>1
<1>6. CASE Return \/ UNCHANGED vars
  <2>1. UNCHANGED <<gates, period, order, waveform, results, total, sum, merged, settled, main>>
    BY <1>6 DEF Return, vars, inputs, mainVars, jobVars, poolVars
  <2> QED BY <1>1, <1>2, <2>1
<1>7. ASSUME NEW w \in Workers, EvaluateGate(w), main # "exited"
      PROVE  AccountInv'
  BY <1>7, EvaluateAccount
<1>8. ASSUME NEW w \in Workers, JobReturn(w) \/ PoolStep(w)
      PROVE  AccountInv'
  <2>1. /\ UNCHANGED <<gates, period, order, waveform, results, total, sum, merged, main>>
        /\ settled \subseteq settled'
    BY <1>8 DEF JobReturn, PoolStep, Acquire, SpuriousWake, TaskReturn, inputs, mainVars, jobVars
  <2> QED BY <1>1, <1>2, <2>1
<1>9. ASSUME NEW w \in Workers, ExitInGate(w)
      PROVE  AccountInv'
  <2>1. /\ UNCHANGED <<gates, period, order, waveform, results, total, sum, merged, settled>>
        /\ main' = "exited"
    BY <1>9 DEF ExitInGate, inputs, jobVars, poolVars
  <2> QED BY <1>1, <1>2, <2>1
<1> QED BY <1>3, <1>4, <1>5, <1>6, <1>7, <1>8, <1>9 DEF Next

(* The gates are finitely many, and the shuffle is a permutation of them.  *)
LEMMA ShuffledGates ==
  ASSUME order \in SetToSeqs(Gates)
  PROVE  /\ IsFiniteSet(Gates) /\ Gates \subseteq Nat
         /\ \A n \in Gates : order[n] \in Gates
         /\ \A m, n \in Gates : order[m] = order[n] => m = n
         /\ \A g \in Gates : \E n \in Gates : order[n] = g
<1>1. IsFiniteSet(Gates) /\ Cardinality(Gates) = NGates /\ NGates \in Nat
  <2>1. NGates \in Nat
    BY PowerAssumption
  <2>2. IsFiniteSet(1 .. NGates) /\ Cardinality(1 .. NGates) = IF 1 > NGates THEN 0 ELSE NGates - 1 + 1
    BY <2>1, FS_Interval
  <2> QED BY <2>1, <2>2 DEF Gates
<1>2. order \in Injection(Gates, Gates)
  BY <1>1 DEF SetToSeqs, Injection, IsInjective, Gates
<1>3. order \in Surjection(Gates, Gates)
  BY <1>1, <1>2, FS_Injection
<1>4. \A g \in Gates : \E n \in Gates : order[n] = g
  BY <1>3 DEF Surjection
<1>5. \A m, n \in Gates : order[m] = order[n] => m = n
  BY <1>2 DEF Injection, IsInjective
<1>6. \A n \in Gates : order[n] \in Gates
  BY <1>2 DEF Injection
<1> QED BY <1>1, <1>4, <1>5, <1>6 DEF Gates

(* Slice by slice the gates add up to what they do one by one.             *)
LEMMA SumOverSlices ==
  ASSUME order \in SetToSeqs(Gates), NEW f, DOMAIN f = Gates, \A g \in Gates : f[g] \in Int,
         NEW F, DOMAIN F = Jobs,
         \A j \in Jobs : F[j] = SumFunction([i \in 1 .. Len(Slice(j)) |-> f[Slice(j)[i]]])
  PROVE  SumFunction(F) = SumFunction(f)
<1>1. /\ IsFiniteSet(Gates) /\ Gates \subseteq Nat
      /\ \A n \in Gates : order[n] \in Gates
      /\ \A m, n \in Gates : order[m] = order[n] => m = n
      /\ \A g \in Gates : \E n \in Gates : order[n] = g
  BY ShuffledGates
<1>2. IsFiniteSet(Jobs)
  <2>1. PoolThreads \in Nat
    BY PoolAssumption
  <2> QED BY <2>1, FS_Interval DEF Jobs
<1> DEFINE In(j, n) == StartOf(j) < n /\ n <= EndOf(j)
<1>3. PICK h : h = [n \in Gates |-> f[order[n]]]
  OBVIOUS
<1>4. DOMAIN h = Gates /\ \A n \in Gates : h[n] = f[order[n]] /\ h[n] \in Int
  BY <1>1, <1>3
<1>5. SumFunction(h) = SumFunction(f)
  <2>1. \A n \in DOMAIN h : order[n] \in DOMAIN f /\ f[order[n]] = h[n]
    BY <1>1, <1>4
  <2>2. \A m, n \in DOMAIN h : order[m] = order[n] => m = n
    BY <1>1, <1>4
  <2>3. \A g \in DOMAIN f : \E n \in DOMAIN h : order[n] = g
    BY <1>1, <1>4
  <2>4. Reindexes(order, h, f)
    BY <2>1, <2>2, <2>3 DEF Reindexes
  <2>5. /\ IsFiniteSet(DOMAIN h) /\ IsFiniteSet(DOMAIN f)
        /\ \A n \in DOMAIN h : h[n] \in Int
    BY <1>1, <1>4
  <2> QED BY <2>4, <2>5, SumReindex
<1>6. PICK t : t = [j \in Jobs |-> [n \in Gates |-> IF In(j, n) THEN h[n] ELSE 0]]
  OBVIOUS
<1>7. \A j \in Jobs : \A n \in Gates : t[j][n] = (IF In(j, n) THEN h[n] ELSE 0) /\ t[j][n] \in Int
  BY <1>4, <1>6
<1> HIDE DEF In
<1>8. ASSUME NEW j \in Jobs
      PROVE  F[j] = SumFunction([n \in Gates |-> t[j][n]])
  <2>1. PICK row : row = [n \in Gates |-> t[j][n]]
    OBVIOUS
  <2>2. PICK part : part = [n \in {m \in Gates : In(j, m)} |-> t[j][n]]
    OBVIOUS
  <2>3. PICK list : list = [i \in 1 .. Len(Slice(j)) |-> f[Slice(j)[i]]]
    OBVIOUS
  <2>4. PICK at : at = [i \in 1 .. Len(Slice(j)) |-> StartOf(j) + i]
    OBVIOUS
  <2>5. SumFunction(part) = SumFunction(row)
    <3>1. DOMAIN part \in SUBSET (DOMAIN row) /\ DOMAIN row = Gates
      BY <2>1, <2>2
    <3>2. \A n \in DOMAIN row : row[n] \in Int
      BY <1>7, <2>1
    <3>3. \A n \in DOMAIN part : part[n] = row[n]
      BY <2>1, <2>2
    <3>4. \A n \in DOMAIN row \ DOMAIN part : row[n] = 0
      BY <1>7, <2>1, <2>2
    <3> QED BY <1>1, <3>1, <3>2, <3>3, <3>4, SumSupport
  <2>6. /\ Len(Slice(j)) = EndOf(j) - StartOf(j) /\ Len(Slice(j)) \in Nat
        /\ \A i \in 1 .. Len(Slice(j)) : Slice(j)[i] = order[StartOf(j) + i] /\ StartOf(j) + i \in Gates
        /\ StartOf(j) \in Nat /\ EndOf(j) \in Nat
    BY SliceHas, SliceBounds
  <2>7. \A i \in 1 .. Len(Slice(j)) : In(j, StartOf(j) + i)
    BY <2>6 DEF In
  <2>8. \A i \in 1 .. Len(Slice(j)) :
          /\ at[i] = StartOf(j) + i /\ at[i] \in Gates /\ In(j, at[i])
          /\ list[i] = h[at[i]]
    BY <1>4, <2>3, <2>4, <2>6, <2>7
  <2>9. SumFunction(list) = SumFunction(part)
    <3>1. DOMAIN list = 1 .. Len(Slice(j)) /\ IsFiniteSet(DOMAIN list)
      BY <2>3, <2>6, FS_Interval
    <3>2. DOMAIN part \in SUBSET Gates /\ IsFiniteSet(DOMAIN part)
      BY <1>1, <2>2, FS_Subset
    <3>3. \A i \in DOMAIN list : list[i] \in Int
      BY <1>4, <2>8, <3>1
    <3>4. \A i \in DOMAIN list : at[i] \in DOMAIN part /\ part[at[i]] = list[i]
      BY <1>7, <2>2, <2>8, <3>1
    <3>5. \A i, k \in DOMAIN list : at[i] = at[k] => i = k
      <4> SUFFICES ASSUME NEW i \in DOMAIN list, NEW k \in DOMAIN list, at[i] = at[k] PROVE i = k
        OBVIOUS
      <4>1. StartOf(j) + i = StartOf(j) + k
        BY <2>8, <3>1
      <4> QED BY <2>6, <3>1, <4>1
    <3>6. \A n \in DOMAIN part : \E i \in DOMAIN list : at[i] = n
      <4> SUFFICES ASSUME NEW n \in Gates, In(j, n) PROVE \E i \in DOMAIN list : at[i] = n
        BY <2>2
      <4>1. n \in Nat /\ StartOf(j) < n /\ n <= EndOf(j)
        BY <1>1 DEF In
      <4>2. n - StartOf(j) \in 1 .. Len(Slice(j)) /\ StartOf(j) + (n - StartOf(j)) = n
        BY <2>6, <4>1
      <4>3. at[n - StartOf(j)] = n
        BY <2>8, <4>2
      <4> QED BY <3>1, <4>2, <4>3
    <3>7. Reindexes(at, list, part)
      BY <3>4, <3>5, <3>6 DEF Reindexes
    <3> QED BY <3>1, <3>2, <3>3, <3>7, SumReindex
  <2> QED BY <2>1, <2>3, <2>5, <2>9
<1>9. ASSUME NEW n \in Gates
      PROVE  h[n] = SumFunction([j \in Jobs |-> t[j][n]])
  <2>1. PICK j \in Jobs : In(j, n)
    BY SlicesPartition DEF In
  <2>2. \A k \in Jobs : In(k, n) => k = j
    BY <2>1, SlicesPartition DEF In
  <2>3. PICK col : col = [k \in Jobs |-> t[k][n]]
    OBVIOUS
  <2>4. PICK zero : zero = [k \in Jobs |-> 0]
    OBVIOUS
  <2>5. SumFunction(zero) = 0
    <3>1. DOMAIN zero = Jobs /\ \A k \in DOMAIN zero : zero[k] = 0
      BY <2>4
    <3> QED BY <1>2, <3>1, SumZero
  <2>6. SumFunction(col) = SumFunction(zero) + h[n]
    <3>1. DOMAIN zero = Jobs /\ DOMAIN col = Jobs /\ \A k \in Jobs : zero[k] \in Int
      BY <2>3, <2>4
    <3>2. col[j] = zero[j] + h[n] /\ h[n] \in Int
      BY <1>4, <1>7, <2>1, <2>3, <2>4
    <3>3. \A k \in Jobs \ {j} : col[k] = zero[k]
      BY <1>7, <2>2, <2>3, <2>4
    <3> QED BY <1>2, <3>1, <3>2, <3>3, SumUpdate
  <2> QED BY <1>4, <2>3, <2>5, <2>6
<1>10. SumFunction(F) = SumFunction(h)
  <2>1. IsTable(t, Jobs, Gates)
    BY <1>7 DEF IsTable
  <2>2. SumsRows(F, t, Jobs, Gates)
    BY <1>8 DEF SumsRows
  <2>3. SumsColumns(h, t, Jobs, Gates)
    BY <1>4, <1>9 DEF SumsColumns
  <2> QED BY <1>1, <1>2, <2>1, <2>2, <2>3, SumExchange
<1> QED BY <1>5, <1>10

(* Over all jobs, the leakage of the gates they have a result for is that  *)
(* of all gates.                                                           *)
LEMMA LeakageOfAll ==
  ASSUME order \in SetToSeqs(Gates), \A j \in Jobs : Len(results[j]) = Len(Slice(j)),
         NEW U, IsFiniteSet(U), NEW F, DOMAIN F = Jobs, \A j \in Jobs : F[j] = LeakageBy(j, U)
  PROVE  SumFunction(F) = SumFunction([g \in Gates |-> LeakageOver(gates[g], U)])
<1>1. PICK f : f = [g \in Gates |-> LeakageOver(gates[g], U)]
  OBVIOUS
<1>2. DOMAIN f = Gates /\ \A g \in Gates : f[g] \in Int
  BY <1>1, LeakageOverType
<1>3. ASSUME NEW j \in Jobs
      PROVE  F[j] = SumFunction([i \in 1 .. Len(Slice(j)) |-> f[Slice(j)[i]]])
  <2>1. \A i \in 1 .. Len(Slice(j)) : Slice(j)[i] \in Gates
    BY SliceHas, ShuffledGates
  <2>2. [i \in 1 .. Len(Slice(j)) |-> f[Slice(j)[i]]]
        = [i \in 1 .. Len(results[j]) |-> LeakageOver(gates[Slice(j)[i]], U)]
    BY <1>1, <2>1
  <2> QED BY <2>2 DEF LeakageBy
<1>4. SumFunction(F) = SumFunction(f)
  BY <1>2, <1>3, SumOverSlices
<1> QED BY <1>1, <1>4

(* The entries of a waveform: those of the cycles, and one past the end.   *)
LEMMA SlotsSplit ==
  ASSUME NEW p \in Nat \ {0}
  PROVE  /\ Slots(p) = Cycles(p) \cup {NPeriod(p)} /\ NPeriod(p) \notin Cycles(p)
         /\ IsFiniteSet(Cycles(p))
<1>1. NPeriod(p) \in Nat
  BY PeriodsCover
<1>2. IsFiniteSet(0 .. NPeriod(p) - 1)
  BY <1>1, FS_Interval
<1> QED BY <1>1, <1>2 DEF Slots, Cycles

(* The accounts of all jobs, merged, are exact.                            *)
LEMMA MergedExact ==
  ASSUME ResultsInv, AccountInv, main = "merged"
  PROVE  PowerExact
<1> DEFINE Lost(k) == SumFunction([j \in Jobs |-> waveform[j][k][NPeriod(period)]])
           PerCycle(k) == SumFunction([c \in Cycles(period) |-> total[k][c]])
<1>1. /\ merged = Jobs /\ order \in SetToSeqs(Gates)
      /\ \A j \in Jobs : Len(results[j]) = Len(Slice(j))
  BY DEF ResultsInv, MergeInv, ListInv
<1>2. period \in Nat \ {0} /\ waveform \in [Jobs -> Waveforms(period)]
  BY PowerAssumption DEF AccountInv, InputInv, JobsInv
<1>3. \A j \in Jobs : JobAccounted(j)
  BY <1>1 DEF AccountInv, JobsInv, Whole
<1>4. IsFiniteSet(Jobs)
  <2>1. PoolThreads \in Nat
    BY PoolAssumption
  <2> QED BY <2>1, FS_Interval DEF Jobs
<1>5. /\ Slots(period) = Cycles(period) \cup {NPeriod(period)}
      /\ NPeriod(period) \notin Cycles(period) /\ IsFiniteSet(Cycles(period))
  BY <1>2, SlotsSplit
<1>6. ASSUME NEW k \in Kinds
      PROVE  /\ sum[k] = SumFunction([j \in Jobs |-> PowerOf(j, k)])
             /\ \A c \in Cycles(period) : total[k][c] = SumFunction([j \in Jobs |-> waveform[j][k][c]])
  <2>1. /\ sum[k] = SumFunction([j \in merged |-> PowerOf(j, k)])
        /\ \A c \in Cycles(period) : total[k][c] = SumFunction([j \in merged |-> waveform[j][k][c]])
    BY DEF AccountInv, TotalsInv
  <2> QED BY <1>1, <2>1
<1>7. ASSUME NEW k \in Kinds
      PROVE  sum[k] = PerCycle(k) + Lost(k)
  <2>1. PICK h : h = [j \in Jobs |-> waveform[j][k]]
    OBVIOUS
  <2>2. \A j \in Jobs : h[j] = waveform[j][k] /\ h[j] \in [Slots(period) -> Int]
    BY <1>2, <2>1 DEF Waveforms
  <2>3. PICK F : F = [j \in Jobs |-> SumFunction([c \in Cycles(period) |-> h[j][c]])]
    OBVIOUS
  <2>4. PICK G : G = [c \in Cycles(period) |-> total[k][c]]
    OBVIOUS
  <2>5. PICK L : L = [j \in Jobs |-> waveform[j][k][NPeriod(period)]]
    OBVIOUS
  <2>6. PICK P : P = [j \in Jobs |-> PowerOf(j, k)]
    OBVIOUS
  <2>7. IsTable(h, Jobs, Cycles(period))
    BY <1>5, <2>2 DEF IsTable
  <2>8. SumsRows(F, h, Jobs, Cycles(period))
    BY <2>3 DEF SumsRows
  <2>9. SumsColumns(G, h, Jobs, Cycles(period))
    <3>1. \A c \in Cycles(period) : G[c] = SumFunction([j \in Jobs |-> h[j][c]])
      <4> SUFFICES ASSUME NEW c \in Cycles(period)
                   PROVE  G[c] = SumFunction([j \in Jobs |-> h[j][c]])
        OBVIOUS
      <4>1. [j \in Jobs |-> h[j][c]] = [j \in Jobs |-> waveform[j][k][c]]
        BY <2>2
      <4>2. G[c] = SumFunction([j \in Jobs |-> waveform[j][k][c]])
        BY <1>6, <2>4
      <4> QED BY <4>1, <4>2
    <3> QED BY <2>4, <3>1 DEF SumsColumns
  <2>10. SumFunction(F) = SumFunction(G)
    BY <1>4, <1>5, <2>7, <2>8, <2>9, SumExchange
  <2>11. ASSUME NEW j \in Jobs
         PROVE  P[j] = F[j] + L[j] /\ F[j] \in Int /\ L[j] \in Int
    <3>1. PICK d : d = waveform[j][k]
      OBVIOUS
    <3>2. PICK c : c = [x \in Cycles(period) |-> h[j][x]]
      OBVIOUS
    <3>3. PICK n : n = NPeriod(period)
      OBVIOUS
    <3>4. /\ n \notin Cycles(period) /\ DOMAIN c = Cycles(period)
          /\ DOMAIN d = Cycles(period) \cup {n} /\ d[n] \in Int
      BY <1>5, <2>2, <3>1, <3>2, <3>3
    <3>5. \A x \in Cycles(period) : c[x] = d[x] /\ d[x] \in Int
      BY <1>5, <2>2, <3>1, <3>2
    <3>6. SumFunction(d) = d[n] + SumFunction(c) /\ SumFunction(c) \in Int
      BY <1>5, <3>4, <3>5, SumAdd
    <3>7. F[j] = SumFunction(c) /\ L[j] = d[n]
      BY <2>3, <2>5, <3>1, <3>2, <3>3
    <3>8. P[j] = SumFunction(d)
      BY <1>3, <2>6, <3>1 DEF JobAccounted
    <3> QED BY <3>4, <3>6, <3>7, <3>8
  <2>12. SumFunction(P) = SumFunction(F) + SumFunction(L)
    <3>1. DOMAIN P = Jobs /\ DOMAIN F = Jobs /\ DOMAIN L = Jobs
      BY <2>3, <2>5, <2>6
    <3>2. \A j \in DOMAIN P : F[j] \in Int /\ L[j] \in Int /\ P[j] = F[j] + L[j]
      BY <2>11, <3>1
    <3> QED BY <1>4, <3>1, <3>2, SumPlus
  <2> QED BY <1>6, <2>4, <2>5, <2>6, <2>10, <2>12
<1>8. ASSUME NEW k \in Kinds, Lost(k) # 0
      PROVE  k # "leakage" /\ TimeMax % UnitsPerCycle(period) = 0
  <2>1. PICK L : L = [j \in Jobs |-> waveform[j][k][NPeriod(period)]]
    OBVIOUS
  <2>2. DOMAIN L = Jobs /\ \A j \in Jobs : L[j] = waveform[j][k][NPeriod(period)]
    BY <2>1
  <2>3. SumFunction(L) # 0
    BY <1>8, <2>1
  <2>4. \E j \in Jobs : L[j] # 0
    BY <1>4, <2>2, <2>3, SumZero
  <2> QED BY <2>2, <2>4 DEF AccountInv, JobsInv
<1>9. sum["leakage"] = SumFunction([g \in Gates |-> LeakageOver(gates[g], 0 .. TimeMax - 1)])
  <2>1. PICK F : F = [j \in Jobs |-> PowerOf(j, "leakage")]
    OBVIOUS
  <2>2. DOMAIN F = Jobs /\ \A j \in Jobs : F[j] = LeakageBy(j, 0 .. TimeMax - 1)
    BY <1>3, <2>1 DEF JobAccounted
  <2>3. sum["leakage"] = SumFunction(F)
    BY <1>6, <2>1 DEF Kinds
  <2>4. IsFiniteSet(0 .. TimeMax - 1)
    BY UnitsFinite
  <2>5. SumFunction(F) = SumFunction([g \in Gates |-> LeakageOver(gates[g], 0 .. TimeMax - 1)])
    BY <1>1, <2>2, <2>4, LeakageOfAll
  <2> QED BY <2>3, <2>5
<1>10. ASSUME period % 2 = 0, NEW c \in Cycles(period)
       PROVE  total["leakage"][c] =
                SumFunction([g \in Gates |-> LeakageOver(gates[g], UnitsOf(c, period))])
  <2>1. PICK F : F = [j \in Jobs |-> waveform[j]["leakage"][c]]
    OBVIOUS
  <2>2. PICK U : U = UnitsOf(c, period)
    OBVIOUS
  <2>3. DOMAIN F = Jobs /\ \A j \in Jobs : F[j] = LeakageBy(j, U)
    BY <1>3, <1>10, <2>1, <2>2 DEF JobAccounted
  <2>4. total["leakage"][c] = SumFunction(F)
    BY <1>6, <2>1 DEF Kinds
  <2>5. IsFiniteSet(U)
    BY <2>2, UnitsFinite
  <2>6. SumFunction(F) = SumFunction([g \in Gates |-> LeakageOver(gates[g], U)])
    BY <1>1, <2>3, <2>5, LeakageOfAll
  <2> QED BY <2>2, <2>4, <2>6
<1> HIDE DEF Lost, PerCycle
<1>11. /\ \A k \in Kinds : sum[k] = PerCycle(k) + Lost(k)
       /\ \A k \in Kinds : Lost(k) # 0 =>
            k # "leakage" /\ TimeMax % UnitsPerCycle(period) = 0
  BY <1>7, <1>8
<1> QED BY <1>9, <1>10, <1>11 DEF PowerExact, SumGates, Lost, PerCycle

(* The accounts, on the invariants of the lists and of the pool.           *)
THEOREM AccountInvariance == Spec => [](PoolInv /\ ResultsInv /\ AccountInv)
<1>1. Init => PoolInv /\ ResultsInv /\ AccountInv
  BY InitResults, InitPoolInv, InitAccount DEF Init
<1>2. PoolInv /\ ResultsInv /\ AccountInv /\ [Next]_vars => PoolInv' /\ ResultsInv' /\ AccountInv'
  BY NextResults, NextAccount, PoolOrNot, NextPoolInv
<1> QED BY <1>1, <1>2, PTL DEF Spec

(* What Power::power reports is exact, whatever the gates and their        *)
(* waveforms, the number of threads, the shuffle and the interleaving: the *)
(* sums over the cells are those over the cycles and what fell past the    *)
(* last one, and the leakage is that of the states of the pins.            *)
THEOREM ReportIsExact == Spec => []PowerExact
<1>1. ResultsInv /\ AccountInv => PowerExact
  <2>1. CASE main = "merged"
    BY <2>1, MergedExact
  <2>2. CASE main # "merged"
    BY <2>2 DEF PowerExact
  <2> QED BY <2>1, <2>2
<1> QED BY <1>1, AccountInvariance, PTL

(* The glitches of a cycle cancel: what a pin of a gate is charged as      *)
(* regular power in it is one toggle or none.                              *)
THEOREM GlitchesLeaveNoTrace == Spec => []GlitchesCancel
<1>1. ASSUME InputInv
      PROVE  GlitchesCancel
  <2>1. period \in Nat \ {0} /\ \A g \in Gates : WellFormed(gates[g])
    BY <1>1, PowerAssumption DEF InputInv
  <2>2. ASSUME NEW g \in Gates, NEW pin \in Pins \ gates[g].clocks, NEW w, w = gates[g].waves[pin],
               TwoValued(w), Apart(w), Alternates(w), NEW c \in Slots(period)
        PROVE  RegularIn(gates[g], pin, c, period) =
                 IF Changed(w, TogglesIn(w, c, period)) THEN 2 * FullCharge ELSE 0
    BY <2>1, <2>2, GateGlitchesCancel
  <2> QED BY <2>2 DEF GlitchesCancel
<1>2. AccountInv => GlitchesCancel
  BY <1>1 DEF AccountInv
<1> QED BY <1>2, AccountInvariance, PTL
===============================================================================
