-------------------------- MODULE CudaRoundsProofs --------------------------
(***************************************************************************)
(* Proofs about CudaRounds, for any activity, buffer limit, partition of   *)
(* the time of a round between threads and interleaving of the CPU thread  *)
(* with the kernel.  The inductive invariant has four parts: what the host *)
(* and device buffers hold in each round (DataInv), where the intervals    *)
(* are cut (CutsInv), which toggles the threads have charged so far        *)
(* (TogglesInv), and which time units' leakage (LeakInv).  The last two    *)
(* say of a round under way that what is charged is what the threads that  *)
(* have run cover; that these cover the interval, without overlap, is      *)
(* arithmetic on the cycles and on the ranges.                             *)
(***************************************************************************)
EXTENDS CudaRounds, NatLemmas

(* The activity read is one of the inputs.                                 *)
FileRead == file \in Inputs /\ ReadAs(file)

(* The intervals of the file's time follow one another from 0.             *)
IntervalsFollow ==
  /\ intervals \in Seq(Nat \X Nat) /\ Len(intervals) \in Nat \ {0}
  /\ intervals[1][1] = 0
  /\ \A i \in Rounds : /\ intervals[i][1] \in Nat /\ intervals[i][2] \in Nat
                       /\ intervals[i][1] <= intervals[i][2]
                       /\ i + 1 \in Rounds => intervals[i + 1][1] = intervals[i][2]

(* They reach the last time.                                               *)
EndReached == MaxTime <= intervals[Len(intervals)][2]

(* When the CPU thread runs and when the kernel does.                      *)
CallsInOrder ==
  /\ todo # {} => pc \in {"sync", "failed"}
  /\ fetch = "running" => pc \in {"sync", "join"} /\ round < Len(intervals)
  /\ fetch = "done" => pc \in {"sync", "join", "failed"} /\ round < Len(intervals)
  /\ pc = "join" => fetch # "none"
  /\ pc = "sync" /\ fetch = "none" => round = Len(intervals)
  /\ pc \in {"slice", "init"} => round = 1
  /\ pc = "done" => round = Len(intervals)

(* The round whose events getGateWaveformRange found last, and the round   *)
(* of the pins' ranges.                                                    *)
Loaded ==
  IF pc \in {"slice", "init"} THEN 0
    ELSE IF fetch = "done" THEN round + 1
    ELSE IF pc = "record" THEN NextRound ELSE round
Ranged == IF pc = "record" THEN NextRound ELSE round

RoundsData ==
  /\ pc # "failed" => \A p \in Pins : \A i :
       /\ i = Loaded => /\ before[p] = UpTo(p, i)
                        /\ pc \notin {"slice", "init"} => events[p] = SliceOf(p, i)
                        /\ fetch = "done" => fetched[p] = SliceOf(p, i)
       /\ i = Ranged /\ pc \notin {"slice", "init"} => ranges[p] = SliceOf(p, i)
       /\ i = round /\ pc \in {"copyGate", "run", "sync", "join"} => dEvents[p] = SliceOf(p, i)
  /\ pc \in {"run", "sync", "join"} \/ todo # {} => dGate = "valid"
  /\ todo # {} => \A p \in Pins : \A i :
       i = round => dEvents[p] = SliceOf(p, i) /\ ranges[p] = SliceOf(p, i)

DataInv == TypeOK /\ FileRead /\ IntervalsFollow /\ CallsInOrder /\ RoundsData

-----------------------------------------------------------------------------
(* The waveforms, and the numbers of the options.                          *)
LEMMA FileFacts ==
  ASSUME FileRead
  PROVE  /\ Period \in Nat \ {0} /\ MaxTime \in Nat \ {0} /\ PerThread \subseteq Nat \ {0}
         /\ EventsPerThread \in Nat \ {0} /\ MaxCuts \in Nat
         /\ Format \in {"vcd", "fsdb"} /\ Basis \in {"cycle", "event"}
         /\ \A p \in Pins : file.wave[p] \subseteq 0 .. MaxTime /\ 0 \in file.wave[p]
BY CudaAssumption DEF FileRead, MaxTime, Format, Basis

(* There is a round before each but the first.                             *)
LEMMA RoundBefore ==
  ASSUME IntervalsFollow, NEW i \in Rounds, i # 1
  PROVE  i - 1 \in Rounds /\ (i - 1) + 1 = i
<1>1. Len(intervals) \in Nat /\ i \in 1 .. Len(intervals)
  BY DEF IntervalsFollow, Rounds
<1>2. i - 1 \in 1 .. Len(intervals) /\ (i - 1) + 1 = i
  BY <1>1
<1> QED BY <1>2 DEF Rounds

(* getGateWaveformRange finds the next round's events from what it kept of *)
(* the round before.                                                       *)
LEMMA NextSlice ==
  ASSUME FileRead, IntervalsFollow, NEW i \in Rounds, GetRange(intervals[i]),
         NEW p \in Pins, before[p] = UpTo(p, i - 1)
  PROVE  events'[p] = SliceOf(p, i) /\ before'[p] = UpTo(p, i)
<1>1. /\ i \in Nat /\ i > 0 /\ MaxTime \in Nat /\ MaxTime > 0
      /\ \A e \in file.wave[p] : e \in Nat
      /\ intervals[i][1] \in Nat /\ intervals[i][2] \in Nat /\ intervals[i][1] <= intervals[i][2]
  <2>1. i \in Nat /\ i > 0
    BY DEF Rounds, IntervalsFollow
  <2>2. /\ intervals[i][1] \in Nat /\ intervals[i][2] \in Nat
        /\ intervals[i][1] <= intervals[i][2]
    BY DEF IntervalsFollow
  <2>3. MaxTime \in Nat /\ MaxTime > 0 /\ \A e \in file.wave[p] : e \in Nat
    BY FileFacts
  <2> QED BY <2>1, <2>2, <2>3
<1>2. \A e \in UpTo(p, i - 1) : e \in file.wave[p] /\ (e < intervals[i][2] \/ intervals[i][2] >= MaxTime)
  <2>1. CASE i = 1
    BY <2>1 DEF UpTo
  <2>2. CASE i # 1
    <3>1. i - 1 \in Rounds /\ (i - 1) + 1 = i
      BY <2>2, RoundBefore
    <3>2. intervals[i][1] = intervals[i - 1][2] /\ intervals[i - 1][2] \in Nat
      BY <3>1 DEF IntervalsFollow
    <3> QED BY <1>1, <3>2 DEF UpTo
  <2> QED BY <2>1, <2>2
<1>3. Below(p, intervals[i][2]) = UpTo(p, i)
  <2>1. CASE intervals[i][2] >= MaxTime
    BY <1>1, <2>1 DEF Below, UpTo
  <2>2. CASE ~(intervals[i][2] >= MaxTime)
    BY <1>1, <1>2, <2>2 DEF Below, UpTo
  <2> QED BY <2>1, <2>2
<1>4. intervals[i][1] = 0 => UpTo(p, i - 1) = {}
  <2>1. CASE i = 1
    BY <2>1 DEF UpTo
  <2>2. CASE i # 1
    <3>1. i - 1 \in Rounds /\ (i - 1) + 1 = i
      BY <2>2, RoundBefore
    <3>2. intervals[i][1] = intervals[i - 1][2]
      BY <3>1 DEF IntervalsFollow
    <3> QED BY <1>1, <3>2 DEF UpTo
  <2> QED BY <2>1, <2>2
<1>5. Fetched(p, intervals[i]) = SliceOf(p, i)
  <2>1. CASE intervals[i][1] = 0
    BY <1>3, <1>4, <2>1 DEF Fetched, SliceOf
  <2>2. CASE intervals[i][1] # 0
    BY <1>3, <2>2 DEF Fetched, SliceOf
  <2> QED BY <2>1, <2>2
<1> QED BY <1>3, <1>5 DEF GetRange

(* ... and nothing that is not in the waveform.                            *)
LEMMA RangeInWave ==
  ASSUME NEW i, GetRange(i), \A p \in Pins : before[p] \subseteq file.wave[p]
  PROVE  \A p \in Pins : events'[p] \subseteq file.wave[p] /\ before'[p] \subseteq file.wave[p]
BY DEF GetRange, Fetched, Below

(* A function over an initial segment is a sequence, and so is it with one *)
(* more element.                                                           *)
LEMMA SegmentSeq ==
  ASSUME NEW S, NEW m \in Nat, NEW f \in [1 .. m -> S]
  PROVE  f \in Seq(S) /\ Len(f) = m
OBVIOUS

(* An interval or an event appended becomes the last, and the others keep  *)
(* their places.                                                           *)
LEMMA AppendEnds ==
  ASSUME NEW S, NEW s \in Seq(S), NEW x
  PROVE  /\ Len(s) \in Nat /\ Len(Append(s, x)) = Len(s) + 1 /\ Append(s, x)[Len(s) + 1] = x
         /\ \A i \in 1 .. Len(s) : Append(s, x)[i] = s[i] /\ s[i] \in S
OBVIOUS

(* Whole periods that cover a time.                                        *)
LEMMA CeilDivFacts ==
  ASSUME NEW a \in Nat, NEW p \in Nat \ {0}
  PROVE  /\ CeilDiv(a, p) \in Nat /\ CeilDiv(a, p) * p \in Nat
         /\ a <= CeilDiv(a, p) * p /\ CeilDiv(a, p) * p < a + p
         /\ \A b \in Nat : a <= b => CeilDiv(a, p) <= CeilDiv(b, p)
<1>1. \A b \in Nat :
        /\ b + p - 1 \in Nat /\ (b + p - 1) \div p \in Nat /\ (b + p - 1) % p \in 0 .. p - 1
        /\ b + p - 1 = p * ((b + p - 1) \div p) + ((b + p - 1) % p)
        /\ ((b + p - 1) \div p) * p \in Nat
        /\ ((b + p - 1) \div p) * p = p * ((b + p - 1) \div p)
  <2> TAKE b \in Nat
  <2> DEFINE c == b + p - 1
  <2>1. c \in Nat
    OBVIOUS
  <2> HIDE DEF c
  <2>2. c \div p \in Nat /\ c % p \in 0 .. p - 1 /\ c = p * (c \div p) + (c % p)
    BY <2>1, DivMod
  <2>3. (c \div p) * p \in Nat /\ (c \div p) * p = p * (c \div p)
    BY <2>2
  <2> QED BY <2>1, <2>2, <2>3 DEF c
<1>2. /\ CeilDiv(a, p) \in Nat /\ CeilDiv(a, p) * p \in Nat
      /\ a <= CeilDiv(a, p) * p /\ CeilDiv(a, p) * p < a + p
  BY <1>1 DEF CeilDiv
<1>3. ASSUME NEW b \in Nat, a <= b PROVE CeilDiv(a, p) <= CeilDiv(b, p)
  <2> DEFINE c == CeilDiv(a, p)
             d == CeilDiv(b, p)
  <2>1. /\ c \in Nat /\ c * p \in Nat /\ c * p < a + p
        /\ d \in Nat /\ d * p \in Nat /\ b <= d * p
    BY <1>1 DEF CeilDiv
  <2> HIDE DEF c, d
  <2>2. ASSUME ~(c <= d) PROVE FALSE
    <3>1. d + 1 <= c
      BY <2>1, <2>2
    <3>2. (d + 1) * p <= c * p /\ (d + 1) * p = d * p + p
      BY <2>1, <3>1, MulLeq, MulSucc
    <3> QED BY <1>3, <2>1, <3>2
  <2> QED BY <2>2 DEF c, d
<1> QED BY <1>2, <1>3

(* The ends a reader leaves do not decrease.                               *)
LEMMA InitFollow ==
  ASSUME Init
  PROVE  FileRead /\ IntervalsFollow /\ EndReached
<1>1. FileRead
  BY DEF Init, FileRead
<1>2. PICK cuts \in RawCuts :
        intervals = [i \in 1 .. Len(Append(cuts, LastEnd)) |->
                       <<IF i = 1 THEN 0 ELSE Append(cuts, LastEnd)[i - 1], Append(cuts, LastEnd)[i]>>]
  BY DEF Init
<1> DEFINE ends == Append(cuts, LastEnd)
           n == Len(ends)
<1>3. /\ Period \in Nat \ {0} /\ MaxTime \in Nat \ {0} /\ MaxCuts \in Nat
      /\ Format \in {"vcd", "fsdb"}
  BY <1>1, FileFacts
<1>4. CeilDiv(MaxTime, Period) * Period \in Nat /\ CeilDiv(MaxTime, Period) * Period >= MaxTime
  BY <1>3, CeilDivFacts
<1>5. LastEnd \in Nat /\ LastEnd >= MaxTime
  BY <1>3, <1>4 DEF LastEnd
<1>6. /\ cuts \in Seq(0 .. MaxTime)
      /\ \A i \in 1 .. Len(cuts) - 1 : cuts[i] <= cuts[i + 1]
  <2>1. CASE Format = "vcd"
    <3>1. PICK m \in 0 .. MaxCuts : cuts \in [1 .. m -> 0 .. MaxTime]
      BY <2>1 DEF RawCuts
    <3> QED BY <1>3, <2>1, <3>1 DEF RawCuts
  <2>2. CASE Format # "vcd"
    <3>1. PICK m \in 0 .. MaxCuts : cuts \in [1 .. m -> {k * Period : k \in 1 .. MaxTime \div Period - 1}]
      BY <2>2 DEF RawCuts
    <3>2. ASSUME NEW k \in 1 .. MaxTime \div Period - 1 PROVE k * Period \in 0 .. MaxTime
      <4>1. /\ MaxTime \div Period \in Nat /\ MaxTime % Period \in Nat
            /\ MaxTime = Period * (MaxTime \div Period) + (MaxTime % Period)
        BY <1>3, DivMod
      <4>2. k \in Nat /\ k <= MaxTime \div Period
        BY <4>1
      <4>3. k * Period <= (MaxTime \div Period) * Period /\ k * Period \in Nat
        BY <1>3, <4>1, <4>2, MulLeq
      <4>4. (MaxTime \div Period) * Period = Period * (MaxTime \div Period)
            /\ (MaxTime \div Period) * Period \in Nat
        BY <1>3, <4>1
      <4> QED BY <1>3, <4>1, <4>3, <4>4
    <3>3. cuts \in [1 .. m -> 0 .. MaxTime] /\ m \in Nat
      BY <1>3, <3>1, <3>2
    <3>4. \A i \in 1 .. Len(cuts) - 1 : cuts[i] < cuts[i + 1]
      BY <2>2 DEF RawCuts
    <3>5. cuts \in Seq(0 .. MaxTime) /\ Len(cuts) = m
      BY <3>3, SegmentSeq
    <3>6. \A i \in 1 .. m : cuts[i] \in 0 .. MaxTime
      BY <3>3
    <3>7. \A i \in 1 .. m - 1 : cuts[i] <= cuts[i + 1]
      <4> TAKE i \in 1 .. m - 1
      <4>1. i \in 1 .. m /\ i + 1 \in 1 .. m
        BY <3>3
      <4> QED BY <1>3, <3>4, <3>5, <3>6, <4>1
    <3> QED BY <3>5, <3>7
  <2> QED BY <2>1, <2>2
<1>7. /\ Len(cuts) \in Nat /\ n = Len(cuts) + 1
      /\ \A i \in 1 .. Len(cuts) : ends[i] = cuts[i] /\ cuts[i] \in 0 .. MaxTime
      /\ ends[n] = LastEnd
  <2>1. /\ Len(cuts) \in Nat /\ n = Len(cuts) + 1 /\ ends[Len(cuts) + 1] = LastEnd
        /\ \A i \in 1 .. Len(cuts) : ends[i] = cuts[i] /\ cuts[i] \in 0 .. MaxTime
    <3> DEFINE D == 0 .. MaxTime
    <3>1. cuts \in Seq(D)
      BY <1>6
    <3> HIDE DEF D
    <3>2. /\ Len(cuts) \in Nat /\ Len(Append(cuts, LastEnd)) = Len(cuts) + 1
          /\ Append(cuts, LastEnd)[Len(cuts) + 1] = LastEnd
          /\ \A i \in 1 .. Len(cuts) : Append(cuts, LastEnd)[i] = cuts[i] /\ cuts[i] \in D
      BY <3>1, AppendEnds
    <3> QED BY <3>2 DEF D
  <2> QED BY <2>1
<1> HIDE DEF ends, n
<1>8. \A i \in 1 .. n : ends[i] \in Nat
  BY <1>3, <1>5, <1>7
<1>9. ASSUME NEW i \in 1 .. n, i # 1 PROVE i - 1 \in 1 .. n /\ ends[i - 1] <= ends[i]
  <2>1. i - 1 \in 1 .. Len(cuts)
    BY <1>7, <1>9
  <2>2. ends[i - 1] <= ends[i] \/ i # n
    BY <1>3, <1>5, <1>7, <2>1
  <2>3. ASSUME i # n PROVE ends[i - 1] <= ends[i]
    <3>1. i \in 1 .. Len(cuts) /\ i - 1 \in 1 .. Len(cuts) - 1 /\ (i - 1) + 1 = i
      BY <1>7, <1>9, <2>3
    <3>2. ends[i] = cuts[i] /\ ends[i - 1] = cuts[i - 1]
      BY <1>7, <2>1, <3>1
    <3>3. cuts[i - 1] <= cuts[i]
      BY <1>6, <3>1
    <3>4. cuts[i] \in Nat /\ cuts[i - 1] \in Nat
      BY <1>3, <1>7, <2>1, <3>1
    <3> QED BY <3>2, <3>3, <3>4
  <2>4. i - 1 \in 1 .. n
    BY <1>7, <2>1
  <2> QED BY <2>2, <2>3, <2>4
<1>10. intervals = [i \in 1 .. n |-> <<IF i = 1 THEN 0 ELSE ends[i - 1], ends[i]>>]
  BY <1>2 DEF ends, n
<1>11. Len(intervals) = n /\ intervals \in Seq(Nat \X Nat)
  <2>1. \A i \in 1 .. n : <<IF i = 1 THEN 0 ELSE ends[i - 1], ends[i]>> \in Nat \X Nat
    BY <1>8, <1>9
  <2>2. intervals \in [1 .. n -> Nat \X Nat] /\ n \in Nat
    BY <1>7, <1>10, <2>1
  <2> QED BY <2>2, SegmentSeq
<1>12. IntervalsFollow
  <2>1. n \in Nat \ {0} /\ 1 \in 1 .. n /\ intervals[1][1] = 0
    BY <1>7, <1>10
  <2>2. ASSUME NEW i \in 1 .. n
        PROVE  /\ intervals[i][1] \in Nat /\ intervals[i][2] \in Nat
               /\ intervals[i][1] <= intervals[i][2]
               /\ i + 1 \in 1 .. n => intervals[i + 1][1] = intervals[i][2]
    <3>1. intervals[i] = <<IF i = 1 THEN 0 ELSE ends[i - 1], ends[i]>>
      BY <1>10
    <3>2. i + 1 \in 1 .. n => intervals[i + 1] = <<ends[i], ends[i + 1]>>
      BY <1>10
    <3>3. ends[i] \in Nat /\ ends[i] >= 0
      BY <1>8
    <3>4. i # 1 => ends[i - 1] \in Nat /\ ends[i - 1] <= ends[i]
      BY <1>8, <1>9
    <3> QED BY <3>1, <3>2, <3>3, <3>4
  <2> QED BY <1>11, <2>1, <2>2 DEF IntervalsFollow, Rounds
<1>13. EndReached
  <2>1. n \in 1 .. n /\ intervals[n][2] = ends[n]
    BY <1>7, <1>10
  <2> QED BY <1>5, <1>7, <1>11, <2>1 DEF EndReached
<1> QED BY <1>1, <1>12, <1>13

(* The first state: nothing is loaded.                                     *)
LEMMA InitData == Init => DataInv
<1> SUFFICES ASSUME Init PROVE DataInv
  OBVIOUS
<1>1. FileRead /\ IntervalsFollow
  BY InitFollow
<1>2. /\ round = 1 /\ pc = "slice" /\ before = Empty /\ events = Empty /\ ranges = Empty
      /\ fetched = Empty /\ fetch = "none" /\ perThread = 1 /\ dEvents = Empty /\ dGate = "none"
      /\ todo = {}
  BY DEF Init
<1>3. 1 \in Rounds
  BY <1>1 DEF IntervalsFollow, Rounds
<1>4. TypeOK
  BY <1>2, <1>3 DEF TypeOK, Empty
<1>5. CallsInOrder
  BY <1>2 DEF CallsInOrder
<1>6. RoundsData
  <2>1. Loaded = 0
    BY <1>2 DEF Loaded
  <2>2. \A p \in Pins : UpTo(p, 0) = {}
    BY DEF UpTo
  <2> QED BY <1>2, <2>1, <2>2 DEF RoundsData, Empty
<1> QED BY <1>1, <1>4, <1>5, <1>6 DEF DataInv

(* The intervals of a VCD are moved up to cycle lines.                     *)
LEMMA SliceTimeFollow ==
  ASSUME FileRead, IntervalsFollow, SliceTime
  PROVE  FileRead' /\ IntervalsFollow' /\ Rounds' = Rounds /\ (EndReached => EndReached')
<1>1. file' = file /\ FileRead'
  BY DEF SliceTime, FileRead, ReadAs
<1> DEFINE rounded == [i \in DOMAIN intervals |-> <<RoundUp(intervals[i][1]), RoundUp(intervals[i][2])>>]
<1>2. intervals' = intervals \/ intervals' = rounded
  BY DEF SliceTime
<1>3. CASE intervals' = intervals
  BY <1>1, <1>3 DEF IntervalsFollow, Rounds, EndReached, MaxTime
<1>4. CASE intervals' = rounded /\ intervals' # intervals
  <2>1. Period \in Nat \ {0}
    BY FileFacts
  <2>2. \A t \in Nat : RoundUp(t) \in Nat /\ \A u \in Nat : t <= u => RoundUp(t) <= RoundUp(u)
    <3> TAKE t \in Nat
    <3>1. CeilDiv(t, Period) \in Nat /\ RoundUp(t) \in Nat
      BY <2>1, CeilDivFacts DEF RoundUp
    <3>2. ASSUME NEW u \in Nat, t <= u PROVE RoundUp(t) <= RoundUp(u)
      <4>1. CeilDiv(t, Period) <= CeilDiv(u, Period) /\ CeilDiv(u, Period) \in Nat
        BY <2>1, <3>2, CeilDivFacts
      <4> QED BY <2>1, <3>1, <4>1, MulLeq DEF RoundUp
    <3> QED BY <3>1, <3>2
  <2>3. RoundUp(0) = 0
    <3>1. CeilDiv(0, Period) * Period \in Nat /\ CeilDiv(0, Period) * Period < 0 + Period
          /\ CeilDiv(0, Period) \in Nat
      BY <2>1, CeilDivFacts
    <3>2. CeilDiv(0, Period) = 0
      <4>1. ASSUME CeilDiv(0, Period) >= 1 PROVE FALSE
        <5>1. 1 * Period <= CeilDiv(0, Period) * Period
          BY <2>1, <3>1, <4>1, MulLeq
        <5> QED BY <2>1, <3>1, <5>1
      <4> QED BY <3>1, <4>1
    <3> QED BY <2>1, <3>2 DEF RoundUp
  <2>4. DOMAIN intervals = Rounds /\ Len(intervals) \in Nat \ {0}
    BY DEF IntervalsFollow, Rounds
  <2>5. \A i \in Rounds : rounded[i] = <<RoundUp(intervals[i][1]), RoundUp(intervals[i][2])>>
    BY <2>4
  <2>6. rounded \in [1 .. Len(intervals) -> Nat \X Nat]
    <3>1. \A i \in Rounds : <<RoundUp(intervals[i][1]), RoundUp(intervals[i][2])>> \in Nat \X Nat
      BY <2>2 DEF IntervalsFollow
    <3> QED BY <2>4, <3>1 DEF Rounds
  <2>7. rounded \in Seq(Nat \X Nat) /\ Len(rounded) = Len(intervals)
    <3> HIDE DEF rounded
    <3> QED BY <2>4, <2>6, SegmentSeq
  <2>8. Rounds' = Rounds /\ Len(intervals') \in Nat \ {0}
    BY <1>4, <2>4, <2>7 DEF Rounds
  <2>9. 1 \in Rounds /\ rounded[1][1] = 0
    BY <2>3, <2>4, <2>5 DEF IntervalsFollow, Rounds
  <2> HIDE DEF rounded
  <2>10. ASSUME NEW i \in Rounds
         PROVE  /\ rounded[i][1] \in Nat /\ rounded[i][2] \in Nat /\ rounded[i][1] <= rounded[i][2]
                /\ i + 1 \in Rounds => rounded[i + 1][1] = rounded[i][2]
    <3>1. /\ intervals[i][1] \in Nat /\ intervals[i][2] \in Nat /\ intervals[i][1] <= intervals[i][2]
          /\ i + 1 \in Rounds => intervals[i + 1][1] = intervals[i][2]
      BY DEF IntervalsFollow
    <3>2. rounded[i] = <<RoundUp(intervals[i][1]), RoundUp(intervals[i][2])>>
      BY <2>5
    <3>3. i + 1 \in Rounds =>
            rounded[i + 1] = <<RoundUp(intervals[i + 1][1]), RoundUp(intervals[i + 1][2])>>
      BY <2>5
    <3> QED BY <2>2, <3>1, <3>2, <3>3
  <2>11. IntervalsFollow'
    BY <1>4, <2>7, <2>8, <2>9, <2>10 DEF IntervalsFollow
  <2>12. EndReached => EndReached'
    <3>1. Len(intervals) \in Rounds /\ Len(intervals') = Len(intervals) /\ MaxTime' = MaxTime
      BY <1>1, <1>4, <2>4, <2>7 DEF Rounds, MaxTime
    <3> DEFINE m == Len(intervals)
               end == intervals[m][2]
    <3>2. end \in Nat /\ intervals'[m][2] = RoundUp(end)
      BY <1>4, <2>5, <3>1 DEF IntervalsFollow
    <3>3. RoundUp(end) \in Nat /\ end <= RoundUp(end) /\ MaxTime \in Nat
      <4> HIDE DEF end
      <4> QED BY <2>1, <3>2, CeilDivFacts, FileFacts DEF RoundUp
    <3> QED BY <3>1, <3>2, <3>3 DEF EndReached
  <2> QED BY <1>1, <2>8, <2>11, <2>12
<1> QED BY <1>1, <1>2, <1>3, <1>4

(* What the waveforms and the intervals say is the same when both are.     *)
LEMMA SlicesStay ==
  ASSUME UNCHANGED <<file, intervals>>, FileRead, IntervalsFollow
  PROVE  /\ FileRead' /\ IntervalsFollow' /\ Rounds' = Rounds
         /\ \A p, i : UpTo(p, i)' = UpTo(p, i) /\ SliceOf(p, i)' = SliceOf(p, i)
<1>1. file' = file /\ intervals' = intervals
  OBVIOUS
<1>2. FileRead'
  BY <1>1 DEF FileRead, ReadAs
<1>3. IntervalsFollow' /\ Rounds' = Rounds
  BY <1>1 DEF IntervalsFollow, Rounds
<1>4. \A p, i : UpTo(p, i)' = UpTo(p, i)
  BY <1>1 DEF UpTo, MaxTime
<1>5. \A p, i : SliceOf(p, i)' = SliceOf(p, i)
  BY <1>1 DEF SliceOf, UpTo, MaxTime
<1> QED BY <1>2, <1>3, <1>4, <1>5

(* runCudaTimeBasedPowerAnalysis up to the first round.                    *)
LEMMA PrepareData ==
  ASSUME DataInv, SliceTime \/ InitGateData
  PROVE  DataInv'
<1>1. CASE SliceTime
  <2>1. /\ pc = "slice" /\ pc' \in {"init", "failed"} /\ round' = round /\ before' = before
        /\ events' = events /\ ranges' = ranges /\ fetched' = fetched /\ fetch' = fetch
        /\ perThread' = perThread /\ dEvents' = dEvents /\ dGate' = dGate /\ todo' = todo
        /\ file' = file
    BY <1>1 DEF SliceTime, data, device
  <2>2. FileRead' /\ IntervalsFollow' /\ Rounds' = Rounds
    BY <1>1, SliceTimeFollow DEF DataInv
  <2>3. TypeOK'
    BY <2>1, <2>2 DEF DataInv, TypeOK
  <2>4. fetch = "none" /\ todo = {} /\ round = 1
    BY <2>1 DEF DataInv, CallsInOrder, TypeOK
  <2>5. CallsInOrder'
    BY <2>1, <2>4 DEF CallsInOrder
  <2>6. \A p \in Pins : before[p] = {}
    <3>1. Loaded = 0
      BY <2>1 DEF Loaded
    <3> QED BY <2>1, <3>1 DEF DataInv, RoundsData, UpTo
  <2>7. RoundsData'
    <3>1. pc' = "init" => Loaded' = 0
      BY DEF Loaded
    <3>2. \A p : UpTo(p, 0)' = {}
      BY DEF UpTo
    <3>3. \A p, i : i = 0 => UpTo(p, i)' = {}
      BY DEF UpTo
    <3> QED BY <2>1, <2>4, <2>6, <3>1, <3>3 DEF RoundsData
  <2> QED BY <2>2, <2>3, <2>5, <2>7 DEF DataInv
<1>2. CASE InitGateData
  <2>1. /\ pc = "init" /\ pc' \in {"schedule", "failed"} /\ GetRange(intervals[1])
        /\ ranges' = events' /\ round' = round /\ file' = file /\ intervals' = intervals
        /\ fetched' = fetched /\ fetch' = fetch /\ perThread' = perThread
        /\ dEvents' = dEvents /\ dGate' = dGate /\ todo' = todo
    BY <1>2 DEF InitGateData, device
  <2>2. /\ FileRead' /\ IntervalsFollow' /\ Rounds' = Rounds
        /\ \A p, i : UpTo(p, i)' = UpTo(p, i) /\ SliceOf(p, i)' = SliceOf(p, i)
    BY <2>1, SlicesStay DEF DataInv
  <2>3. round = 1 /\ fetch = "none" /\ todo = {} /\ 1 \in Rounds
    BY <2>1 DEF DataInv, CallsInOrder, TypeOK
  <2>4. \A p \in Pins : before[p] = UpTo(p, 1 - 1)
    <3>1. Loaded = 0
      BY <2>1 DEF Loaded
    <3>2. 1 - 1 = 0
      OBVIOUS
    <3> QED BY <2>1, <3>1, <3>2 DEF DataInv, RoundsData
  <2>5. \A p \in Pins : events'[p] = SliceOf(p, 1) /\ before'[p] = UpTo(p, 1)
    BY <2>1, <2>3, <2>4, NextSlice DEF DataInv
  <2>6. \A p \in Pins : events'[p] \subseteq file.wave[p] /\ before'[p] \subseteq file.wave[p]
    BY <2>1, RangeInWave DEF DataInv, TypeOK
  <2>7. TypeOK'
    BY <2>1, <2>2, <2>6 DEF DataInv, TypeOK
  <2>8. CallsInOrder'
    BY <2>1, <2>3 DEF CallsInOrder
  <2>9. RoundsData'
    <3>1. pc' = "schedule" => Loaded' = 1 /\ Ranged' = 1
      BY <2>1, <2>3 DEF Loaded, Ranged
    <3> QED BY <2>1, <2>2, <2>3, <2>5, <3>1 DEF RoundsData
  <2> QED BY <2>2, <2>7, <2>8, <2>9 DEF DataInv
<1> QED BY <1>1, <1>2

(* One round: the kernel is scheduled, fed and launched.                   *)
LEMMA LaunchData ==
  ASSUME DataInv,
         ScheduleKernel \/ CopyWaveformToDeviceSide \/ CopyGateDataToDeviceSide \/ RunCudaPowerAnalysis
  PROVE  DataInv'
<1>1. /\ file' = file /\ intervals' = intervals /\ round' = round /\ before' = before
      /\ events' = events /\ ranges' = ranges /\ fetched' = fetched
      /\ pc \in {"schedule", "copyWaveform", "copyGate", "run"}
      /\ pc' \in {"copyWaveform", "copyGate", "run", "sync"}
  BY DEF ScheduleKernel, CopyWaveformToDeviceSide, CopyGateDataToDeviceSide, RunCudaPowerAnalysis, data
<1>2. /\ FileRead' /\ IntervalsFollow' /\ Rounds' = Rounds
      /\ \A p, i : UpTo(p, i)' = UpTo(p, i) /\ SliceOf(p, i)' = SliceOf(p, i)
  BY <1>1, SlicesStay DEF DataInv
<1>3. fetch = "none" /\ todo = {} /\ Loaded = round /\ Ranged = round /\ round \in Rounds
  BY <1>1 DEF DataInv, CallsInOrder, TypeOK, Loaded, Ranged
<1>4. /\ fetch' \in {"none", "running"} /\ (pc' # "sync" => fetch' = "none" /\ todo' = {})
      /\ pc' = "sync" => fetch' = IF round < Len(intervals) THEN "running" ELSE "none"
  BY <1>1, <1>3
     DEF ScheduleKernel, CopyWaveformToDeviceSide, CopyGateDataToDeviceSide, RunCudaPowerAnalysis, device
<1>5. /\ perThread' \in PerThread \cup {1} /\ todo' \subseteq Nat
      /\ dGate' \in {"none", "valid", "dead"}
      /\ \A p \in Pins : dEvents'[p] = dEvents[p] \/ dEvents'[p] = events[p]
  <2>1. /\ perThread \in PerThread \cup {1} /\ todo \subseteq Nat
        /\ dGate \in {"none", "valid", "dead"}
    BY DEF DataInv, TypeOK
  <2>2. CASE ScheduleKernel
    BY <2>1, <2>2 DEF ScheduleKernel, device
  <2>3. CASE CopyWaveformToDeviceSide
    BY <2>1, <2>3 DEF CopyWaveformToDeviceSide
  <2>4. CASE CopyGateDataToDeviceSide
    BY <2>1, <2>4 DEF CopyGateDataToDeviceSide
  <2>5. CASE RunCudaPowerAnalysis
    <3>1. todo' = 0 .. NThread - 1
      BY <2>5 DEF RunCudaPowerAnalysis
    <3>2. todo' \subseteq Nat
      <4> DEFINE n == NThread - 1
      <4> HIDE DEF n
      <4>1. 0 .. n \subseteq Nat
        OBVIOUS
      <4> QED BY <3>1, <4>1 DEF n
    <3> QED BY <2>1, <2>5, <3>2 DEF RunCudaPowerAnalysis, device
  <2> QED BY <2>2, <2>3, <2>4, <2>5
<1>6. TypeOK'
  BY <1>1, <1>2, <1>4, <1>5 DEF DataInv, TypeOK
<1>7. CallsInOrder'
  <2>1. round \in Nat /\ Len(intervals) \in Nat /\ round <= Len(intervals)
    BY <1>3 DEF DataInv, IntervalsFollow, Rounds
  <2> QED BY <1>1, <1>4, <2>1 DEF CallsInOrder
<1>8. Loaded' = round /\ Ranged' = round
  BY <1>1, <1>4 DEF Loaded, Ranged
<1>9. /\ \A p \in Pins : /\ before[p] = UpTo(p, round) /\ events[p] = SliceOf(p, round)
                         /\ ranges[p] = SliceOf(p, round)
                         /\ pc \in {"copyGate", "run"} => dEvents[p] = SliceOf(p, round)
      /\ pc = "run" => dGate = "valid"
  BY <1>1, <1>3 DEF DataInv, RoundsData
<1>10. \A p \in Pins : pc' \in {"copyGate", "run", "sync"} => dEvents'[p] = SliceOf(p, round)
  BY <1>9 DEF ScheduleKernel, CopyWaveformToDeviceSide, CopyGateDataToDeviceSide, RunCudaPowerAnalysis,
              device
<1>11. pc' \in {"run", "sync"} => dGate' = "valid"
  BY <1>9 DEF ScheduleKernel, CopyWaveformToDeviceSide, CopyGateDataToDeviceSide, RunCudaPowerAnalysis,
              device
<1>12. RoundsData'
  BY <1>1, <1>2, <1>4, <1>8, <1>9, <1>10, <1>11 DEF RoundsData
<1> QED BY <1>2, <1>6, <1>7, <1>12 DEF DataInv

(* While the kernel runs: its threads, and the CPU thread that fills the   *)
(* host buffer for the next round.                                         *)
LEMMA OverlapData ==
  ASSUME DataInv, Prefetch \/ Synchronize \/ \E t \in todo : KernelThread(t)
  PROVE  DataInv'
<1>1. /\ file' = file /\ intervals' = intervals /\ round' = round /\ ranges' = ranges
      /\ perThread' = perThread /\ dEvents' = dEvents /\ dGate' = dGate /\ todo' \subseteq todo
  BY DEF Prefetch, Synchronize, KernelThread, data, device
<1>2. /\ FileRead' /\ IntervalsFollow' /\ Rounds' = Rounds
      /\ \A p, i : UpTo(p, i)' = UpTo(p, i) /\ SliceOf(p, i)' = SliceOf(p, i)
  BY <1>1, SlicesStay DEF DataInv
<1>3. /\ round \in Nat /\ Len(intervals) \in Nat /\ round >= 1 /\ round <= Len(intervals)
      /\ round \in Rounds
  BY DEF DataInv, TypeOK, IntervalsFollow, Rounds
<1>4. ASSUME NEW t \in todo, KernelThread(t) PROVE DataInv'
  <2>1. /\ pc' = pc /\ fetch' = fetch /\ before' = before /\ events' = events /\ fetched' = fetched
        /\ pc = "sync" /\ todo # {}
    BY <1>4 DEF KernelThread, data, DataInv, CallsInOrder
  <2>2. TypeOK'
    BY <1>1, <1>2, <2>1 DEF DataInv, TypeOK
  <2>3. CallsInOrder'
    BY <1>1, <2>1 DEF DataInv, CallsInOrder
  <2>4. Loaded' = Loaded /\ Ranged' = Ranged
    BY <1>1, <2>1 DEF Loaded, Ranged
  <2>5. RoundsData'
    BY <1>1, <1>2, <2>1, <2>4 DEF DataInv, RoundsData
  <2> QED BY <1>2, <2>2, <2>3, <2>5 DEF DataInv
<1>5. CASE Prefetch
  <2>1. /\ fetch = "running" /\ fetch' = "done" /\ pc # "failed" /\ GetRange(intervals[round + 1])
        /\ fetched' = events' /\ todo' = todo /\ pc' \in {pc, "failed"}
    BY <1>5 DEF Prefetch, device
  <2>2. pc \in {"sync", "join"} /\ round < Len(intervals)
    BY <2>1 DEF DataInv, CallsInOrder
  <2>3. round + 1 \in Rounds /\ (round + 1) - 1 = round /\ Loaded = round /\ Ranged = round
    BY <1>3, <2>1, <2>2 DEF Rounds, Loaded, Ranged
  <2>4. \A p \in Pins : before[p] = UpTo(p, round) /\ dEvents[p] = SliceOf(p, round)
                        /\ ranges[p] = SliceOf(p, round)
    BY <2>1, <2>2, <2>3 DEF DataInv, RoundsData
  <2>5. \A p \in Pins : events'[p] = SliceOf(p, round + 1) /\ before'[p] = UpTo(p, round + 1)
    BY <2>1, <2>3, <2>4, NextSlice DEF DataInv
  <2>6. \A p \in Pins : events'[p] \subseteq file.wave[p] /\ before'[p] \subseteq file.wave[p]
    BY <2>1, RangeInWave DEF DataInv, TypeOK
  <2>7. TypeOK'
    BY <1>1, <1>2, <2>1, <2>6 DEF DataInv, TypeOK
  <2>8. CallsInOrder'
    BY <1>1, <2>1, <2>2 DEF DataInv, CallsInOrder
  <2>9. pc' # "failed" => pc' = pc /\ Loaded' = round + 1 /\ Ranged' = round
    BY <1>1, <2>1, <2>2 DEF Loaded, Ranged
  <2>10. dGate = "valid"
    BY <2>2 DEF DataInv, RoundsData
  <2>11. RoundsData'
    BY <1>1, <1>2, <2>1, <2>2, <2>4, <2>5, <2>9, <2>10 DEF RoundsData
  <2> QED BY <1>2, <2>7, <2>8, <2>11 DEF DataInv
<1>6. CASE Synchronize
  <2>1. /\ pc = "sync" /\ todo = {} /\ todo' = todo /\ fetch' = fetch /\ before' = before
        /\ events' = events /\ fetched' = fetched
        /\ pc' = IF fetch = "none" THEN "record" ELSE "join"
    BY <1>6 DEF Synchronize, data
  <2>2. fetch = "none" => round = Len(intervals)
    BY <2>1 DEF DataInv, CallsInOrder
  <2>3. TypeOK'
    BY <1>1, <1>2, <2>1 DEF DataInv, TypeOK
  <2>4. CallsInOrder'
    BY <1>1, <2>1 DEF DataInv, CallsInOrder
  <2>5. Loaded' = Loaded /\ Ranged' = Ranged
    BY <1>1, <1>3, <2>1, <2>2 DEF Loaded, Ranged, NextRound
  <2>6. RoundsData'
    BY <1>1, <1>2, <2>1, <2>5 DEF DataInv, RoundsData
  <2> QED BY <1>2, <2>3, <2>4, <2>6 DEF DataInv
<1> QED BY <1>4, <1>5, <1>6

(* The end of a round: the ranges the CPU thread found become the next's.  *)
LEMMA EndRoundData ==
  ASSUME DataInv, RenewGateWaveform \/ MergeAndRecordResult
  PROVE  DataInv'
<1>1. /\ file' = file /\ intervals' = intervals /\ before' = before /\ events' = events
      /\ fetched' = fetched /\ perThread' = perThread /\ dEvents' = dEvents /\ todo' = todo
      /\ dGate' \in {dGate, "dead"} /\ fetch' \in {fetch, "none"}
      /\ round' \in {round, NextRound}
  BY DEF RenewGateWaveform, MergeAndRecordResult, data, device
<1>2. /\ FileRead' /\ IntervalsFollow' /\ Rounds' = Rounds
      /\ \A p, i : UpTo(p, i)' = UpTo(p, i) /\ SliceOf(p, i)' = SliceOf(p, i)
  BY <1>1, SlicesStay DEF DataInv
<1>3. /\ round \in Nat /\ Len(intervals) \in Nat /\ round >= 1 /\ round <= Len(intervals)
      /\ round \in Rounds /\ NextRound \in Rounds
  BY DEF DataInv, TypeOK, IntervalsFollow, Rounds, NextRound
<1>4. CASE RenewGateWaveform
  <2>1. /\ pc = "join" /\ pc' = "record" /\ fetch = "done" /\ fetch' = "none" /\ ranges' = fetched
        /\ round' = round
    BY <1>4 DEF RenewGateWaveform
  <2>2. todo = {} /\ round < Len(intervals)
    BY <2>1 DEF DataInv, CallsInOrder
  <2>3. TypeOK'
    BY <1>1, <1>2, <1>3, <2>1 DEF DataInv, TypeOK
  <2>4. CallsInOrder'
    BY <1>1, <2>1, <2>2 DEF CallsInOrder
  <2>5. Loaded = round + 1 /\ Loaded' = round + 1 /\ Ranged' = round + 1
    BY <1>1, <2>1, <2>2 DEF Loaded, Ranged, NextRound
  <2>6. RoundsData'
    BY <1>1, <1>2, <2>1, <2>2, <2>5 DEF DataInv, RoundsData
  <2> QED BY <1>2, <2>3, <2>4, <2>6 DEF DataInv
<1>5. CASE MergeAndRecordResult
  <2>1. /\ pc = "record" /\ round' = NextRound /\ fetch' = fetch /\ ranges' = ranges /\ dGate' = dGate
        /\ pc' = IF round < Len(intervals) THEN "schedule" ELSE "done"
    BY <1>5 DEF MergeAndRecordResult, data, device
  <2>2. todo = {} /\ fetch = "none"
    BY <2>1 DEF DataInv, CallsInOrder, TypeOK
  <2>3. TypeOK'
    BY <1>1, <1>2, <1>3, <2>1 DEF DataInv, TypeOK
  <2>4. pc' = "done" => round' = Len(intervals)
    BY <1>3, <2>1 DEF NextRound
  <2>5. CallsInOrder'
    BY <1>1, <2>1, <2>2, <2>4 DEF CallsInOrder
  <2>6. Loaded = NextRound /\ Loaded' = NextRound /\ Ranged = NextRound /\ Ranged' = NextRound
    BY <2>1, <2>2 DEF Loaded, Ranged
  <2>7. RoundsData'
    BY <1>1, <1>2, <2>1, <2>2, <2>6 DEF DataInv, RoundsData
  <2> QED BY <1>2, <2>3, <2>5, <2>7 DEF DataInv
<1> QED BY <1>4, <1>5

(* Every step keeps the rounds' data in order.                             *)
LEMMA NextData ==
  ASSUME DataInv, [Next]_vars
  PROVE  DataInv'
<1>1. CASE UNCHANGED vars
  <2>1. /\ file' = file /\ intervals' = intervals /\ round' = round /\ before' = before
        /\ events' = events /\ ranges' = ranges /\ fetched' = fetched /\ fetch' = fetch /\ pc' = pc
        /\ perThread' = perThread /\ dEvents' = dEvents /\ dGate' = dGate /\ todo' = todo
    BY <1>1 DEF vars, data, device
  <2>2. /\ FileRead' /\ IntervalsFollow' /\ Rounds' = Rounds
        /\ \A p, i : UpTo(p, i)' = UpTo(p, i) /\ SliceOf(p, i)' = SliceOf(p, i)
    BY <2>1, SlicesStay DEF DataInv
  <2>3. TypeOK'
    BY <2>1, <2>2 DEF DataInv, TypeOK
  <2>4. CallsInOrder'
    BY <2>1 DEF DataInv, CallsInOrder
  <2>5. Loaded' = Loaded /\ Ranged' = Ranged
    BY <2>1 DEF Loaded, Ranged, NextRound
  <2>6. RoundsData'
    BY <2>1, <2>2, <2>5 DEF DataInv, RoundsData
  <2> QED BY <2>2, <2>3, <2>4, <2>6 DEF DataInv
<1> QED BY <1>1, PrepareData, LaunchData, OverlapData, EndRoundData DEF Next, Main

-----------------------------------------------------------------------------
(* A time on a cycle line.                                                 *)
OnLine(t) == t = (t \div Period) * Period

CutsOnLines ==
  \A i \in Rounds : /\ OnLine(intervals[i][1]) /\ OnLine(intervals[i][2])
                    /\ intervals[i][1] < intervals[i][2]

EndsAfterAll == \A p \in Pins : \A e \in file.wave[p] : e < intervals[Len(intervals)][2]

(* An FSDB is cut on cycle lines, a VCD is moved to them.                  *)
CutsInv ==
  /\ EndsAfterAll
  /\ pc \notin {"slice", "failed"} \/ Format = "fsdb" => CutsOnLines

(* A whole number of periods is on a line.                                 *)
LEMMA PeriodsOnLine ==
  ASSUME FileRead, NEW k \in Nat
  PROVE  OnLine(k * Period)
<1>1. (k * Period) \div Period = k
  BY FileFacts, MulDiv
<1> QED BY <1>1 DEF OnLine

(* The cuts the readers leave, with the end past the last event.           *)
LEMMA InitCuts == Init => CutsInv
<1> SUFFICES ASSUME Init PROVE CutsInv
  OBVIOUS
<1>1. FileRead /\ IntervalsFollow /\ pc = "slice"
  BY InitFollow DEF Init
<1>2. /\ Period \in Nat \ {0} /\ MaxTime \in Nat \ {0} /\ MaxCuts \in Nat
      /\ Format \in {"vcd", "fsdb"}
      /\ \A p \in Pins : file.wave[p] \subseteq 0 .. MaxTime
  BY <1>1, FileFacts
<1>3. PICK cuts \in RawCuts :
        intervals = [i \in 1 .. Len(Append(cuts, LastEnd)) |->
                       <<IF i = 1 THEN 0 ELSE Append(cuts, LastEnd)[i - 1], Append(cuts, LastEnd)[i]>>]
  BY DEF Init
<1>4. \E S : cuts \in Seq(S)
  <2>1. CASE Format = "vcd"
    <3>1. PICK m \in 0 .. MaxCuts : cuts \in [1 .. m -> 0 .. MaxTime]
      BY <2>1 DEF RawCuts
    <3>2. m \in Nat
      BY <1>2
    <3> QED BY <3>1, <3>2, SegmentSeq
  <2>2. CASE Format # "vcd"
    <3>1. PICK m \in 0 .. MaxCuts : cuts \in [1 .. m -> {k * Period : k \in 1 .. MaxTime \div Period - 1}]
      BY <2>2 DEF RawCuts
    <3>2. m \in Nat
      BY <1>2
    <3> QED BY <3>1, <3>2, SegmentSeq
  <2> QED BY <2>1, <2>2
<1> DEFINE ends == Append(cuts, LastEnd)
           n == Len(cuts)
<1>5. /\ n \in Nat /\ Len(ends) = n + 1 /\ ends[n + 1] = LastEnd
      /\ \A i \in 1 .. n : ends[i] = cuts[i]
  BY <1>4, AppendEnds
<1>6. /\ DOMAIN intervals = 1 .. n + 1 /\ Len(intervals) = n + 1 /\ Rounds = 1 .. n + 1
      /\ \A i \in 1 .. n + 1 : intervals[i] = <<IF i = 1 THEN 0 ELSE ends[i - 1], ends[i]>>
  <2>1. /\ DOMAIN intervals = 1 .. n + 1
        /\ \A i \in 1 .. n + 1 : intervals[i] = <<IF i = 1 THEN 0 ELSE ends[i - 1], ends[i]>>
    BY <1>3, <1>5
  <2>2. Len(intervals) \in Nat /\ DOMAIN intervals = 1 .. Len(intervals)
    BY <1>1 DEF IntervalsFollow
  <2>3. Len(intervals) = n + 1
    BY <1>5, <2>1, <2>2
  <2> QED BY <2>1, <2>3 DEF Rounds
<1> HIDE DEF ends, n
<1>7. intervals[Len(intervals)][2] = LastEnd
  BY <1>5, <1>6
<1>8. /\ CeilDiv(MaxTime, Period) \in Nat /\ MaxTime <= CeilDiv(MaxTime, Period) * Period
      /\ CeilDiv(MaxTime, Period) * Period \in Nat
  BY <1>2, CeilDivFacts
<1>9. EndsAfterAll
  <2>1. CASE Format = "vcd"
    <3>1. LastEnd = MaxTime + 1
      BY <2>1 DEF LastEnd
    <3> QED BY <1>2, <1>7, <3>1 DEF EndsAfterAll
  <2>2. CASE Format = "fsdb"
    <3>1. LastEnd >= MaxTime /\ LastEnd \in Nat
      BY <1>8, <2>2 DEF LastEnd
    <3>2. \A p \in Pins : MaxTime \notin file.wave[p]
      BY <1>1, <2>2 DEF FileRead, ReadAs, MaxTime, Format
    <3>3. \A p \in Pins : \A e \in file.wave[p] : e \in 0 .. MaxTime /\ e # MaxTime
      BY <1>2, <3>2
    <3> QED BY <1>2, <1>7, <3>1, <3>3 DEF EndsAfterAll
  <2> QED BY <1>2, <2>1, <2>2
<1>10. CASE Format = "fsdb"
  <2>1. PICK m \in 0 .. MaxCuts : cuts \in [1 .. m -> {k * Period : k \in 1 .. MaxTime \div Period - 1}]
    BY <1>10 DEF RawCuts
  <2>2. m = n
    <3>1. m \in Nat /\ Len(cuts) = m
      BY <1>2, <2>1, SegmentSeq
    <3> QED BY <3>1 DEF n
  <2>3. \A i \in 1 .. n - 1 : cuts[i] < cuts[i + 1]
    BY <1>10 DEF RawCuts, n
  <2>4. /\ MaxTime \div Period \in Nat /\ MaxTime % Period \in Nat
        /\ MaxTime = Period * (MaxTime \div Period) + (MaxTime % Period)
    BY <1>2, DivMod
  <2>5. ASSUME NEW i \in 1 .. n
        PROVE  OnLine(cuts[i]) /\ cuts[i] \in Nat /\ 0 < cuts[i] /\ cuts[i] < MaxTime
    <3>1. PICK k \in 1 .. MaxTime \div Period - 1 : cuts[i] = k * Period
      BY <2>1, <2>2
    <3>2. k \in Nat /\ k >= 1 /\ k < MaxTime \div Period
      BY <2>4
    <3>3. /\ 1 * Period <= k * Period /\ k * Period < (MaxTime \div Period) * Period
          /\ k * Period \in Nat /\ (MaxTime \div Period) * Period = Period * (MaxTime \div Period)
          /\ (MaxTime \div Period) * Period \in Nat
      BY <1>2, <2>4, <3>2, MulLeq, MulLess
    <3>4. OnLine(k * Period)
      BY <1>1, <3>2, PeriodsOnLine
    <3> QED BY <1>2, <2>4, <3>1, <3>3, <3>4
  <2>6. LastEnd = CeilDiv(MaxTime, Period) * Period /\ OnLine(LastEnd)
    BY <1>1, <1>8, <1>10, PeriodsOnLine DEF LastEnd
  <2>7. OnLine(0)
    <3>1. OnLine(0 * Period) /\ 0 * Period = 0
      BY <1>1, <1>2, PeriodsOnLine
    <3> QED BY <3>1
  <2>8. ASSUME NEW i \in 1 .. n + 1
        PROVE  OnLine(intervals[i][1]) /\ OnLine(intervals[i][2]) /\ intervals[i][1] < intervals[i][2]
    <3>1. intervals[i] = <<IF i = 1 THEN 0 ELSE ends[i - 1], ends[i]>>
      BY <1>6
    <3>2. OnLine(ends[i]) /\ ends[i] > 0
      <4>1. CASE i = n + 1
        BY <1>2, <1>5, <1>8, <2>6, <4>1
      <4>2. CASE i # n + 1
        <5>1. i \in 1 .. n
          BY <1>5, <4>2
        <5> QED BY <1>5, <2>5, <5>1
      <4> QED BY <4>1, <4>2
    <3>3. ASSUME i # 1 PROVE OnLine(ends[i - 1]) /\ ends[i - 1] < ends[i]
      <4>1. i - 1 \in 1 .. n /\ (i - 1) + 1 = i
        BY <1>5, <3>3
      <4>2. OnLine(ends[i - 1]) /\ ends[i - 1] = cuts[i - 1] /\ ends[i - 1] \in Nat /\ ends[i - 1] < MaxTime
        BY <1>5, <2>5, <4>1
      <4>3. CASE i = n + 1
        BY <1>2, <1>5, <1>8, <2>6, <4>2, <4>3
      <4>4. CASE i # n + 1
        <5>1. i \in 1 .. n /\ i - 1 \in 1 .. n - 1
          BY <1>5, <4>1, <4>4
        <5> QED BY <1>5, <2>3, <4>1, <4>2, <5>1
      <4> QED BY <4>2, <4>3, <4>4
    <3> QED BY <2>7, <3>1, <3>2, <3>3
  <2> QED BY <1>6, <1>9, <2>8 DEF CutsInv, CutsOnLines
<1> QED BY <1>1, <1>2, <1>9, <1>10 DEF CutsInv

(* ... and the intervals the rounds are taken by.                          *)
LEMMA NextCuts ==
  ASSUME DataInv, CutsInv, [Next]_vars
  PROVE  CutsInv'
<1>1. FileRead /\ IntervalsFollow
  BY DEF DataInv
<1>2. /\ Period \in Nat \ {0} /\ Format \in {"vcd", "fsdb"}
      /\ \A p \in Pins : file.wave[p] \subseteq 0 .. MaxTime
      /\ MaxTime \in Nat
  BY <1>1, FileFacts
<1>3. CASE SliceTime
  <2> DEFINE rounded == [i \in DOMAIN intervals |-> <<RoundUp(intervals[i][1]), RoundUp(intervals[i][2])>>]
  <2>1. /\ file' = file /\ pc = "slice"
        /\ intervals' = IF Format = "vcd" THEN rounded ELSE intervals
        /\ pc' # "failed" =>
             (Format = "vcd" => \A i \in DOMAIN intervals' : intervals'[i][1] # intervals'[i][2])
    BY <1>3 DEF SliceTime
  <2>2. Format' = Format
    BY <2>1 DEF Format
  <2>3. IntervalsFollow' /\ Rounds' = Rounds
    BY <1>1, <1>3, SliceTimeFollow
  <2>4. DOMAIN intervals = Rounds /\ DOMAIN intervals' = Rounds /\ Len(intervals') = Len(intervals)
        /\ Len(intervals) \in Rounds
    <3>1. DOMAIN intervals = Rounds /\ Len(intervals) \in Rounds /\ Len(intervals) \in Nat \ {0}
      BY <1>1 DEF IntervalsFollow, Rounds
    <3>2. DOMAIN intervals' = 1 .. Len(intervals') /\ Len(intervals') \in Nat \ {0}
      BY <2>3 DEF IntervalsFollow
    <3>3. 1 .. Len(intervals') = 1 .. Len(intervals)
      BY <2>3 DEF Rounds
    <3>4. Len(intervals') = Len(intervals)
      BY <3>1, <3>2, <3>3
    <3> QED BY <3>1, <3>2, <3>3, <3>4 DEF Rounds
  <2>5. CASE Format = "fsdb"
    <3>1. intervals' = intervals
      BY <2>1, <2>5
    <3> QED BY <2>1, <2>2, <2>3, <2>5, <3>1 DEF CutsInv, EndsAfterAll, CutsOnLines, OnLine
  <2>6. CASE Format = "vcd"
    <3>1. \A i \in Rounds : /\ intervals'[i] = <<RoundUp(intervals[i][1]), RoundUp(intervals[i][2])>>
                            /\ intervals[i][1] \in Nat /\ intervals[i][2] \in Nat
      <4>1. intervals' = rounded
        BY <2>1, <2>6
      <4> QED BY <1>1, <2>4, <4>1 DEF IntervalsFollow
    <3>2. \A t \in Nat : OnLine(RoundUp(t)) /\ RoundUp(t) \in Nat /\ t <= RoundUp(t)
      <4> TAKE t \in Nat
      <4>1. /\ CeilDiv(t, Period) \in Nat /\ t <= CeilDiv(t, Period) * Period
            /\ CeilDiv(t, Period) * Period \in Nat
        BY <1>2, CeilDivFacts
      <4> QED BY <1>1, <4>1, PeriodsOnLine DEF RoundUp
    <3>3. EndsAfterAll'
      <4>1. \A p \in Pins : \A e \in file.wave[p] : e \in Nat /\ e < intervals[Len(intervals)][2]
        BY <1>2 DEF CutsInv, EndsAfterAll
      <4>2. /\ intervals'[Len(intervals')][2] = RoundUp(intervals[Len(intervals)][2])
            /\ intervals[Len(intervals)][2] \in Nat
        BY <2>4, <3>1
      <4> DEFINE end == intervals[Len(intervals)][2]
      <4>3. \A p \in Pins : \A e \in file.wave[p] : e < RoundUp(end)
        <5>1. end \in Nat /\ end <= RoundUp(end) /\ RoundUp(end) \in Nat
          BY <3>2, <4>2
        <5>2. \A p \in Pins : \A e \in file.wave[p] : e \in Nat /\ e < end
          BY <4>1
        <5> HIDE DEF end
        <5> QED BY <5>1, <5>2
      <4>4. \A p \in Pins : \A e \in file.wave[p] : e < intervals'[Len(intervals')][2]
        BY <4>2, <4>3
      <4> QED BY <2>1, <4>4 DEF EndsAfterAll
    <3>4. ASSUME pc' # "failed" PROVE CutsOnLines'
      <4>1. \A i \in Rounds : /\ OnLine(intervals'[i][1]) /\ OnLine(intervals'[i][2])
                              /\ intervals'[i][1] \in Nat /\ intervals'[i][2] \in Nat
                              /\ intervals'[i][1] # intervals'[i][2]
        BY <2>1, <2>4, <2>6, <3>1, <3>2, <3>4
      <4>2. \A i \in Rounds : intervals'[i][1] <= intervals'[i][2]
        BY <2>3 DEF IntervalsFollow
      <4>3. \A i \in Rounds : intervals'[i][1] < intervals'[i][2]
        BY <4>1, <4>2
      <4> QED BY <2>3, <4>1, <4>3 DEF CutsOnLines, OnLine
    <3> QED BY <2>2, <2>6, <3>3, <3>4 DEF CutsInv
  <2> QED BY <1>2, <2>5, <2>6
<1>4. CASE ~SliceTime
  <2>1. /\ file' = file /\ intervals' = intervals
        /\ pc' \notin {"slice", "failed"} => pc \notin {"slice", "failed"}
    BY <1>4 DEF Next, Main, vars, InitGateData, ScheduleKernel, CopyWaveformToDeviceSide,
                CopyGateDataToDeviceSide, RunCudaPowerAnalysis, Synchronize, RenewGateWaveform,
                MergeAndRecordResult, Prefetch, KernelThread
  <2>2. Format' = Format /\ Rounds' = Rounds
    BY <2>1 DEF Format, Rounds
  <2> QED BY <2>1, <2>2 DEF CutsInv, EndsAfterAll, CutsOnLines, OnLine
<1> QED BY <1>3, <1>4

-----------------------------------------------------------------------------
(* The first event of a waveform.                                          *)
LEMMA FirstEvent ==
  ASSUME FileRead, NEW p \in Pins
  PROVE  Min(file.wave[p]) = 0
<1>1. file.wave[p] \in SUBSET Nat /\ 0 \in file.wave[p] /\ \A e \in file.wave[p] : 0 <= e
  BY FileFacts
<1> QED BY <1>1, MinIs

(* The events a round adds are those of its interval, or on its end when   *)
(* that is the last time.                                                  *)
LEMMA UpToFacts ==
  ASSUME FileRead, IntervalsFollow, CutsOnLines, NEW p \in Pins, NEW i \in Rounds
  PROVE  /\ UpTo(p, i - 1) \subseteq UpTo(p, i)
         /\ 0 \in UpTo(p, i)
         /\ \A e \in UpTo(p, i) : e \in Nat /\ e <= intervals[i][2]
         /\ \A e \in UpTo(p, i) \ UpTo(p, i - 1) : intervals[i][1] <= e
         /\ i = 1 => UpTo(p, i - 1) = {}
         /\ i # 1 => 0 \in UpTo(p, i - 1)
         /\ \A e \in UpTo(p, i), x \in file.wave[p] : x <= e => x \in UpTo(p, i)
<1>1. /\ i \in Nat /\ i > 0 /\ MaxTime \in Nat /\ MaxTime > 0
      /\ \A e \in file.wave[p] : e \in Nat /\ e <= MaxTime
      /\ 0 \in file.wave[p]
      /\ intervals[i][1] \in Nat /\ intervals[i][2] \in Nat /\ intervals[i][1] < intervals[i][2]
  <2>1. i \in Nat /\ i > 0
    BY DEF Rounds, IntervalsFollow
  <2>2. intervals[i][1] \in Nat /\ intervals[i][2] \in Nat
    BY DEF IntervalsFollow
  <2>3. intervals[i][1] < intervals[i][2]
    BY DEF CutsOnLines
  <2>4. /\ MaxTime \in Nat /\ MaxTime > 0 /\ 0 \in file.wave[p]
        /\ \A e \in file.wave[p] : e \in Nat /\ e <= MaxTime
    BY FileFacts
  <2> QED BY <2>1, <2>2, <2>3, <2>4
<1>2. i # 1 => /\ i - 1 > 0 /\ intervals[i - 1][2] = intervals[i][1]
               /\ intervals[i - 1][1] \in Nat /\ intervals[i - 1][1] < intervals[i - 1][2]
  <2>1. i # 1 => i - 1 \in Rounds /\ (i - 1) + 1 = i
    BY RoundBefore
  <2>2. i # 1 => /\ intervals[i - 1][2] = intervals[i][1]
                 /\ intervals[i - 1][1] \in Nat
    BY <2>1 DEF IntervalsFollow
  <2>3. i # 1 => intervals[i - 1][1] < intervals[i - 1][2]
    BY <2>1 DEF CutsOnLines
  <2>4. i # 1 => i - 1 > 0
    BY <1>1
  <2> QED BY <2>2, <2>3, <2>4
<1>3. i = 1 => intervals[i][1] = 0
  BY DEF IntervalsFollow
<1>4. UpTo(p, i) = {e \in file.wave[p] : e < intervals[i][2] \/ intervals[i][2] >= MaxTime}
  BY <1>1 DEF UpTo
<1>5. i # 1 => UpTo(p, i - 1) = {e \in file.wave[p] : e < intervals[i][1] \/ intervals[i][1] >= MaxTime}
  BY <1>2 DEF UpTo
<1>6. i = 1 => UpTo(p, i - 1) = {}
  BY DEF UpTo
<1>7. UpTo(p, i - 1) \subseteq UpTo(p, i)
  BY <1>1, <1>4, <1>5, <1>6
<1>8. \A e \in UpTo(p, i) : e \in Nat /\ e <= intervals[i][2]
  BY <1>1, <1>4
<1>9. \A e \in UpTo(p, i) \ UpTo(p, i - 1) : intervals[i][1] <= e
  BY <1>1, <1>3, <1>4, <1>5
<1>10. 0 \in UpTo(p, i) /\ (i # 1 => 0 \in UpTo(p, i - 1))
  BY <1>1, <1>2, <1>4, <1>5
<1>11. \A e \in UpTo(p, i), x \in file.wave[p] : x <= e => x \in UpTo(p, i)
  BY <1>1, <1>4
<1> QED BY <1>6, <1>7, <1>8, <1>9, <1>10, <1>11

(* The slice of a round begins with the last event of the rounds before,   *)
(* which is not a toggle of this one, or with the waveform's first.        *)
LEMMA SliceFacts ==
  ASSUME FileRead, IntervalsFollow, CutsOnLines, NEW p \in Pins, NEW i \in Rounds
  PROVE  /\ Min(SliceOf(p, i)) \in SliceOf(p, i)
         /\ SliceOf(p, i) \subseteq UpTo(p, i)
         /\ \A e \in UpTo(p, i) : Min(SliceOf(p, i)) <= e => e \in SliceOf(p, i)
         /\ \A e \in SliceOf(p, i) : Min(SliceOf(p, i)) <= e
         /\ \A e \in file.wave[p] :
              e \in SliceOf(p, i) \ {Min(SliceOf(p, i))} <=> e \in UpTo(p, i) \ UpTo(p, i - 1) /\ e # 0
         /\ Min(SliceOf(p, i)) = 0 \/ Min(SliceOf(p, i)) \in UpTo(p, i - 1)
<1> DEFINE S == SliceOf(p, i)
           U == UpTo(p, i)
           B == UpTo(p, i - 1)
<1>1. /\ B \subseteq U /\ 0 \in U /\ \A e \in U : e \in Nat
      /\ i = 1 => B = {}
      /\ i # 1 => 0 \in B
  BY UpToFacts
<1>2. S = {e \in U : ~\E x \in B : e < x} /\ U \subseteq file.wave[p]
  BY DEF SliceOf, UpTo
<1>3. U \subseteq 0 .. MaxTime /\ MaxTime \in Nat
  BY <1>2, FileFacts
<1> HIDE DEF S, U, B
<1>4. PICK m \in S : /\ \A e \in S : m <= e
                     /\ \A e \in U : m <= e => e \in S
                     /\ \A e \in U : e \in S \ {m} <=> e \notin B /\ e # 0
                     /\ m = 0 \/ m \in B
  <2>1. CASE i = 1
    <3>1. S = U
      BY <1>1, <1>2, <2>1
    <3> QED BY <1>1, <2>1, <3>1
  <2>2. CASE i # 1
    <3>1. Max(B) \in B /\ \A k \in B : k <= Max(B)
      BY <1>1, <1>3, <2>2, BoundedMax
    <3>2. \A e \in U : e \in S <=> Max(B) <= e
      BY <1>1, <1>2, <3>1
    <3>3. \A e \in U : Max(B) < e <=> e \notin B /\ e # 0 /\ Max(B) <= e
      BY <1>1, <2>2, <3>1
    <3>4. \A e \in U : e \notin B /\ e # 0 => Max(B) <= e
      <4> SUFFICES ASSUME NEW e \in U, e \notin B, e < Max(B) PROVE FALSE
        BY <1>1, <3>1
      <4>1. Max(B) \in UpTo(p, i - 1) /\ e \in file.wave[p] /\ e <= Max(B)
        BY <1>1, <1>2, <3>1 DEF B
      <4>2. i - 1 \in Rounds
        BY <2>2, RoundBefore
      <4>3. e \in UpTo(p, i - 1)
        BY <4>1, <4>2, UpToFacts
      <4> QED BY <4>3 DEF B
    <3>5. Max(B) \in S /\ Max(B) \in B /\ Max(B) \in Nat
      BY <1>1, <3>1, <3>2
    <3>6. \A e \in S : Max(B) <= e
      BY <1>2, <3>2
    <3>7. \A e \in U : e \in S \ {Max(B)} <=> Max(B) < e
      BY <1>1, <3>2, <3>5
    <3>8. \A e \in U : e \in S \ {Max(B)} <=> e \notin B /\ e # 0
      BY <3>3, <3>4, <3>7
    <3> QED BY <3>2, <3>5, <3>6, <3>8
  <2> QED BY <2>1, <2>2
<1>5. Min(S) = m
  BY <1>1, <1>2, <1>4, MinIs
<1>6. \A e \in file.wave[p] : e \in S \ {m} <=> e \in U \ B /\ e # 0
  BY <1>2, <1>4
<1> QED BY <1>2, <1>4, <1>5, <1>6 DEF S, U, B

-----------------------------------------------------------------------------
(* The kernel of a round has been launched.                                *)
KernelReady ==
  /\ FileRead /\ IntervalsFollow /\ CutsOnLines /\ EndsAfterAll
  /\ round \in Rounds /\ perThread \in PerThread
  /\ \A p \in Pins : dEvents[p] = SliceOf(p, round) /\ ranges[p] = SliceOf(p, round)

(* Sizes of slices: finite, and equal only for equal slices.               *)
LEMMA SizeFacts ==
  ASSUME FileRead, NEW r, NEW s,
         \A p \in Pins : r[p] \subseteq s[p] /\ s[p] \subseteq 0 .. MaxTime
  PROVE  /\ SizeOf(s) \in Nat /\ SizeOf(r) \in Nat /\ SizeOf(r) <= SizeOf(s)
         /\ SizeOf(r) >= SizeOf(s) => \A p \in Pins : r[p] = s[p]
         /\ (\E p \in Pins : s[p] # {}) => SizeOf(s) > 0
<1> DEFINE PR == UNION {{p} \X r[p] : p \in Pins}
           PS == UNION {{p} \X s[p] : p \in Pins}
<1>1. IsFiniteSet(Pins \X (0 .. MaxTime))
  <2>1. IsFiniteSet(Pins) /\ IsFiniteSet(0 .. MaxTime)
    BY CudaAssumption, FileFacts, FS_Interval
  <2> QED BY <2>1, FS_Product
<1>2. PR \subseteq PS /\ PS \subseteq Pins \X (0 .. MaxTime)
  OBVIOUS
<1>3. (\E p \in Pins : s[p] # {}) => PS # {}
  <2> SUFFICES ASSUME NEW p \in Pins, s[p] # {} PROVE PS # {}
    OBVIOUS
  <2>1. PICK e \in s[p] : TRUE
    OBVIOUS
  <2>2. <<p, e>> \in PS
    OBVIOUS
  <2> QED BY <2>2
<1>4. \A p \in Pins : PR = PS => r[p] = s[p]
  <2> SUFFICES ASSUME NEW p \in Pins, PR = PS, NEW e \in s[p] PROVE e \in r[p]
    OBVIOUS
  <2>1. <<p, e>> \in PR
    OBVIOUS
  <2>2. PICK q \in Pins : <<p, e>> \in {q} \X r[q]
    BY <2>1
  <2> QED BY <2>2
<1>5. SizeOf(r) = Cardinality(PR) /\ SizeOf(s) = Cardinality(PS)
  BY DEF SizeOf
<1> HIDE DEF PR, PS
<1>6. IsFiniteSet(PS)
  BY <1>1, <1>2, FS_Subset
<1>7. /\ IsFiniteSet(PR) /\ Cardinality(PR) <= Cardinality(PS)
      /\ Cardinality(PS) = Cardinality(PR) => PS = PR
  BY <1>2, <1>6, FS_Subset
<1>8. Cardinality(PR) \in Nat /\ Cardinality(PS) \in Nat
  BY <1>6, <1>7, FS_CardinalityType
<1>9. PS # {} => Cardinality(PS) # 0
  BY <1>6, FS_EmptySet
<1> QED BY <1>3, <1>4, <1>5, <1>7, <1>8, <1>9

(* The interval of the round, in cycles.                                   *)
LEMMA CycleFacts ==
  ASSUME KernelReady
  PROVE  /\ StartCycle \in Nat /\ EndCycle \in Nat /\ StartCycle < EndCycle
         /\ StartCycle * Period = intervals[round][1] /\ EndCycle * Period = intervals[round][2]
         /\ Period \in Nat \ {0} /\ perThread \in Nat \ {0} /\ EventsPerThread \in Nat \ {0}
         /\ \A p \in Pins : \A e \in dEvents[p] : e \in 0 .. MaxTime /\ e <= EndCycle * Period
<1>1. /\ intervals[round][1] \in Nat /\ intervals[round][2] \in Nat
      /\ intervals[round][1] < intervals[round][2]
      /\ OnLine(intervals[round][1]) /\ OnLine(intervals[round][2])
      /\ Period \in Nat \ {0} /\ perThread \in Nat \ {0} /\ EventsPerThread \in Nat \ {0}
  BY FileFacts DEF KernelReady, IntervalsFollow, CutsOnLines
<1>2. /\ StartCycle \in Nat /\ EndCycle \in Nat
      /\ StartCycle * Period = intervals[round][1] /\ EndCycle * Period = intervals[round][2]
  BY <1>1, DivMod DEF StartCycle, EndCycle, OnLine
<1>3. StartCycle < EndCycle
  <2>1. ASSUME EndCycle <= StartCycle PROVE FALSE
    <3>1. EndCycle * Period <= StartCycle * Period
      BY <1>1, <1>2, <2>1, MulLeq
    <3> QED BY <1>1, <1>2, <3>1
  <2> QED BY <1>2, <2>1
<1>4. ASSUME NEW p \in Pins, NEW e \in dEvents[p] PROVE e \in 0 .. MaxTime /\ e <= EndCycle * Period
  <2>1. e \in UpTo(p, round)
    BY SliceFacts DEF KernelReady
  <2>2. e \in file.wave[p] /\ e <= intervals[round][2]
    BY <2>1, UpToFacts DEF KernelReady, UpTo
  <2> QED BY <1>2, <2>2, FileFacts DEF KernelReady
<1> QED BY <1>1, <1>2, <1>3, <1>4

(* getCycleByEventCount finds the first cycle line with enough events      *)
(* before it.                                                              *)
LEMMA ByEventCount ==
  ASSUME KernelReady, NEW n \in Nat
  PROVE  /\ CycleByEventCount(n) \in StartCycle .. EndCycle
         /\ CycleByEventCount(n) < EndCycle => Accumulated(CycleByEventCount(n)) >= n
         /\ \A c \in StartCycle .. EndCycle - 1 : Accumulated(c) >= n => CycleByEventCount(n) <= c
<1> DEFINE R == {c \in StartCycle .. EndCycle - 1 : Accumulated(c) >= n}
<1>1. StartCycle \in Nat /\ EndCycle \in Nat /\ StartCycle < EndCycle
  BY CycleFacts
<1>2. CASE R = {}
  BY <1>1, <1>2 DEF CycleByEventCount
<1>3. CASE R # {}
  <2>1. R \in SUBSET Nat
    BY <1>1
  <2>2. PICK m \in R : \A k \in R : m <= k
    <3> HIDE DEF R
    <3> QED BY <1>3, <2>1, NatMin
  <2>3. Min(R) = m
    <3> HIDE DEF R
    <3> QED BY <2>1, <2>2, MinIs
  <2>4. CycleByEventCount(n) = m
    BY <1>3, <2>3 DEF CycleByEventCount
  <2> QED BY <1>1, <2>2, <2>4
<1> QED BY <1>2, <1>3

(* A pin always has an event on the device, and the slices of the ranges   *)
(* are the device's.                                                       *)
LEMMA DeviceSizes ==
  ASSUME KernelReady
  PROVE  /\ SizeOf(ranges) = SizeOf(dEvents) /\ SizeOf(dEvents) \in Nat \ {0}
         /\ \A c \in Nat : Accumulated(c) \in Nat
         /\ \A c \in Nat : Accumulated(c) >= SizeOf(dEvents) =>
              \A p \in Pins : \A e \in dEvents[p] : e < c * Period
<1>1. FileRead /\ \A p \in Pins : dEvents[p] = ranges[p]
  BY DEF KernelReady
<1>2. \A p \in Pins : dEvents[p] \subseteq 0 .. MaxTime /\ ranges[p] \subseteq 0 .. MaxTime
  BY <1>1, CycleFacts
<1>3. \E p \in Pins : dEvents[p] # {}
  <2>1. PICK p \in Pins : TRUE
    BY CudaAssumption
  <2>2. Min(SliceOf(p, round)) \in SliceOf(p, round)
    BY SliceFacts DEF KernelReady
  <2> QED BY <2>2 DEF KernelReady
<1>4. SizeOf(dEvents) \in Nat /\ SizeOf(ranges) \in Nat /\ SizeOf(ranges) <= SizeOf(dEvents)
      /\ SizeOf(dEvents) > 0
  BY <1>1, <1>2, <1>3, SizeFacts
<1>5. SizeOf(dEvents) <= SizeOf(ranges)
  BY <1>1, <1>2, SizeFacts
<1>6. ASSUME NEW c \in Nat
      PROVE  /\ Accumulated(c) \in Nat
             /\ Accumulated(c) >= SizeOf(dEvents) =>
                  \A p \in Pins : \A e \in dEvents[p] : e < c * Period
  <2> DEFINE r == [p \in Pins |-> {e \in dEvents[p] : e < c * Period}]
  <2>1. \A p \in Pins : r[p] \subseteq dEvents[p] /\ r[p] = {e \in dEvents[p] : e < c * Period}
    OBVIOUS
  <2>2. Accumulated(c) = SizeOf(r)
    BY DEF Accumulated
  <2> HIDE DEF r
  <2>3. SizeOf(r) \in Nat /\ (SizeOf(r) >= SizeOf(dEvents) => \A p \in Pins : r[p] = dEvents[p])
    BY <1>1, <1>2, <2>1, SizeFacts
  <2> QED BY <2>1, <2>2, <2>3
<1> QED BY <1>4, <1>5, <1>6

(* The ranges of the threads, cut by cycles: from the interval's start in  *)
(* equal steps to its end or past it.                                      *)
LEMMA CycleRanges ==
  ASSUME KernelReady, Basis = "cycle"
  PROVE  /\ NThread \in Nat \ {0}
         /\ \A t \in Nat : FirstCycle(t) \in Nat /\ \A s \in Nat : t <= s => FirstCycle(t) <= FirstCycle(s)
         /\ FirstCycle(0) = StartCycle
         /\ \A t \in 0 .. NThread - 1 : FirstCycle(t) < EndCycle
         /\ FirstCycle(NThread) >= EndCycle
         /\ FirstCycle(NThread) <= EndCycle + (perThread - 1)
<1> DEFINE d == EndCycle - StartCycle
           N == NThread
<1>1. /\ StartCycle \in Nat /\ EndCycle \in Nat /\ StartCycle < EndCycle
      /\ perThread \in Nat \ {0} /\ d \in Nat /\ d > 0
  BY CycleFacts
<1>2. N = CeilDiv(d, perThread)
  BY DEF NThread
<1>3. \A t : FirstCycle(t) = StartCycle + t * perThread
  BY DEF FirstCycle
<1>4. EndCycle = StartCycle + d
  BY <1>1
<1> HIDE DEF d, N
<1>5. N \in Nat /\ N * perThread \in Nat /\ d <= N * perThread /\ N * perThread < d + perThread
  BY <1>1, <1>2, CeilDivFacts
<1>6. N # 0
  BY <1>1, <1>5
<1>7. \A t \in Nat : t * perThread \in Nat /\ \A s \in Nat : t <= s => t * perThread <= s * perThread
  BY <1>1, MulLeq, MulSucc
<1>8. \A t \in Nat : FirstCycle(t) \in Nat /\ \A s \in Nat : t <= s => FirstCycle(t) <= FirstCycle(s)
  <2> TAKE t \in Nat
  <2>1. t * perThread \in Nat /\ \A s \in Nat : t <= s => t * perThread <= s * perThread /\ s * perThread \in Nat
    BY <1>7
  <2> QED BY <1>1, <1>3, <2>1
<1>9. ASSUME NEW t \in 0 .. N - 1 PROVE FirstCycle(t) < EndCycle
  <2>1. t \in Nat /\ t + 1 <= N /\ t + 1 \in Nat
    BY <1>5, <1>9
  <2>2. (t + 1) * perThread <= N * perThread /\ (t + 1) * perThread = t * perThread + perThread
        /\ t * perThread \in Nat
    BY <1>1, <1>5, <2>1, MulLeq, MulSucc
  <2>3. t * perThread < d
    BY <1>1, <1>5, <2>2
  <2> QED BY <1>1, <1>3, <1>4, <2>2, <2>3
<1>10. FirstCycle(0) = StartCycle
  BY <1>1, <1>3
<1>11. FirstCycle(N) >= EndCycle /\ FirstCycle(N) <= EndCycle + (perThread - 1)
  <2> DEFINE m == N * perThread
  <2>1. m \in Nat /\ d <= m /\ m < d + perThread /\ FirstCycle(N) = StartCycle + m
    BY <1>3, <1>5
  <2> HIDE DEF m
  <2> QED BY <1>1, <1>4, <2>1
<1> QED BY <1>5, <1>6, <1>8, <1>9, <1>10, <1>11 DEF N

(* ... and cut by events: from line to line, up to the end or to the first *)
(* line after the last event.                                              *)
LEMMA EventRanges ==
  ASSUME KernelReady, Basis = "event"
  PROVE  /\ NThread \in Nat \ {0}
         /\ \A t \in Nat : FirstCycle(t) \in StartCycle .. EndCycle
         /\ \A t \in Nat : \A s \in Nat : t <= s => FirstCycle(t) <= FirstCycle(s)
         /\ FirstCycle(0) = StartCycle
         /\ FirstCycle(NThread) < EndCycle =>
              \A p \in Pins : \A e \in dEvents[p] : e < FirstCycle(NThread) * Period
<1> DEFINE N == NThread
           C(n) == CycleByEventCount(n)
           size == SizeOf(dEvents)
<1>1. /\ StartCycle \in Nat /\ EndCycle \in Nat /\ StartCycle < EndCycle
      /\ EventsPerThread \in Nat \ {0}
  BY CycleFacts
<1>2. N = CeilDiv(SizeOf(ranges), EventsPerThread)
  BY DEF NThread
<1>3. \A t : FirstCycle(t) = C(t * EventsPerThread)
  BY DEF FirstCycle
<1>4. /\ SizeOf(ranges) = size /\ size \in Nat /\ size > 0
      /\ \A c \in Nat : Accumulated(c) \in Nat
      /\ \A c \in Nat : Accumulated(c) >= size => \A p \in Pins : \A e \in dEvents[p] : e < c * Period
  BY DeviceSizes
<1>5. \A n \in Nat : /\ C(n) \in StartCycle .. EndCycle
                     /\ C(n) < EndCycle => Accumulated(C(n)) >= n
                     /\ \A c \in StartCycle .. EndCycle - 1 : Accumulated(c) >= n => C(n) <= c
  BY ByEventCount
<1> HIDE DEF N, C, size
<1>6. N \in Nat /\ N * EventsPerThread \in Nat /\ size <= N * EventsPerThread
  BY <1>1, <1>2, <1>4, CeilDivFacts
<1>7. N # 0
  <2>1. N = 0 => N * EventsPerThread = 0
    BY <1>1
  <2> QED BY <1>4, <1>6, <2>1
<1>8. \A t \in Nat : /\ t * EventsPerThread \in Nat
                     /\ \A s \in Nat : t <= s => t * EventsPerThread <= s * EventsPerThread
  BY <1>1, MulLeq, MulSucc
<1>9. \A n, m \in Nat : n <= m => C(n) <= C(m)
  <2> SUFFICES ASSUME NEW n \in Nat, NEW m \in Nat, n <= m, C(m) < C(n) PROVE FALSE
    BY <1>1, <1>5
  <2>1. C(n) \in Nat /\ C(m) \in Nat /\ C(m) \in StartCycle .. EndCycle - 1 /\ Accumulated(C(m)) >= m
    BY <1>1, <1>5
  <2>2. Accumulated(C(m)) >= n
    BY <1>4, <2>1
  <2>3. C(n) <= C(m)
    BY <1>5, <2>1, <2>2
  <2> QED BY <2>1, <2>3
<1>10. C(0) = StartCycle
  <2>1. Accumulated(StartCycle) >= 0 /\ StartCycle \in StartCycle .. EndCycle - 1
    BY <1>1, <1>4
  <2>2. C(0) <= StartCycle /\ C(0) \in StartCycle .. EndCycle
    BY <1>5, <2>1
  <2> QED BY <1>1, <2>2
<1>11. FirstCycle(0) = StartCycle
  BY <1>1, <1>3, <1>10
<1>12. FirstCycle(N) < EndCycle => \A p \in Pins : \A e \in dEvents[p] : e < FirstCycle(N) * Period
  <2> SUFFICES ASSUME FirstCycle(N) < EndCycle
               PROVE  \A p \in Pins : \A e \in dEvents[p] : e < FirstCycle(N) * Period
    OBVIOUS
  <2> DEFINE k == N * EventsPerThread
  <2>1. k \in Nat /\ size <= k /\ FirstCycle(N) = C(k)
    BY <1>3, <1>6
  <2> HIDE DEF k
  <2>2. C(k) \in Nat /\ Accumulated(C(k)) >= k /\ Accumulated(C(k)) \in Nat
    BY <1>1, <1>4, <1>5, <2>1
  <2>3. Accumulated(C(k)) >= size
    BY <1>4, <2>1, <2>2
  <2> QED BY <1>4, <2>1, <2>2, <2>3
<1>13. \A t \in Nat : FirstCycle(t) \in StartCycle .. EndCycle
  BY <1>3, <1>5, <1>8
<1>14. \A t \in Nat : \A s \in Nat : t <= s => FirstCycle(t) <= FirstCycle(s)
  BY <1>3, <1>8, <1>9
<1> QED BY <1>6, <1>7, <1>11, <1>12, <1>13, <1>14 DEF N

(* Thread t does not return at once, and a time of its range.              *)
Runs(t) == FirstCycle(t) # FirstCycle(t + 1)
Covers(t, x) == Runs(t) /\ StartTime(t) <= x /\ x < EndTime(t)

(* What the two ways to cut an interval have in common.                    *)
LEMMA RangeFacts ==
  ASSUME KernelReady
  PROVE  /\ NThread \in Nat \ {0}
         /\ \A t \in Nat : FirstCycle(t) \in Nat /\ \A s \in Nat : t <= s => FirstCycle(t) <= FirstCycle(s)
         /\ FirstCycle(0) = StartCycle
         /\ \A t \in 0 .. NThread - 1 : Runs(t) => FirstCycle(t) < EndCycle
         /\ FirstCycle(NThread) <= EndCycle + (perThread - 1)
         /\ FirstCycle(NThread) < EndCycle =>
              /\ Basis = "event"
              /\ \A p \in Pins : \A e \in dEvents[p] : e < FirstCycle(NThread) * Period
<1>1. /\ StartCycle \in Nat /\ EndCycle \in Nat /\ perThread \in Nat \ {0}
      /\ Basis \in {"cycle", "event"}
  BY CycleFacts, FileFacts DEF KernelReady
<1>2. CASE Basis = "cycle"
  <2>1. /\ NThread \in Nat \ {0}
        /\ \A t \in Nat : FirstCycle(t) \in Nat /\ \A s \in Nat : t <= s => FirstCycle(t) <= FirstCycle(s)
        /\ FirstCycle(0) = StartCycle
        /\ \A t \in 0 .. NThread - 1 : FirstCycle(t) < EndCycle
        /\ FirstCycle(NThread) >= EndCycle
        /\ FirstCycle(NThread) <= EndCycle + (perThread - 1)
    BY <1>2, CycleRanges
  <2>2. FirstCycle(NThread) \in Nat
    BY <2>1
  <2>3. ~(FirstCycle(NThread) < EndCycle)
    BY <1>1, <2>1, <2>2
  <2> QED BY <2>1, <2>3
<1>3. CASE Basis = "event"
  <2>1. /\ NThread \in Nat \ {0}
        /\ \A t \in Nat : FirstCycle(t) \in StartCycle .. EndCycle
        /\ \A t \in Nat : \A s \in Nat : t <= s => FirstCycle(t) <= FirstCycle(s)
        /\ FirstCycle(0) = StartCycle
        /\ FirstCycle(NThread) < EndCycle =>
              \A p \in Pins : \A e \in dEvents[p] : e < FirstCycle(NThread) * Period
    BY <1>3, EventRanges
  <2>2. \A t \in 0 .. NThread - 1 : Runs(t) => FirstCycle(t) < EndCycle
    <3> TAKE t \in 0 .. NThread - 1
    <3>1. t \in Nat /\ t + 1 \in Nat /\ t <= t + 1
      BY <2>1
    <3>2. FirstCycle(t) \in StartCycle .. EndCycle /\ FirstCycle(t + 1) \in StartCycle .. EndCycle
          /\ FirstCycle(t) <= FirstCycle(t + 1)
      BY <2>1, <3>1
    <3> QED BY <1>1, <3>2 DEF Runs
  <2>3. FirstCycle(NThread) <= EndCycle + (perThread - 1)
    <3>1. FirstCycle(NThread) \in StartCycle .. EndCycle
      BY <2>1
    <3> QED BY <1>1, <3>1
  <2>4. \A t \in Nat : FirstCycle(t) \in Nat
    BY <1>1, <2>1
  <2> QED BY <1>3, <2>1, <2>2, <2>3, <2>4
<1> QED BY <1>1, <1>2, <1>3

(* The times of the ranges.                                                *)
LEMMA TimeFacts ==
  ASSUME KernelReady, NEW t \in Nat
  PROVE  /\ StartTime(t) \in Nat /\ EndTime(t) \in Nat /\ StartTime(t + 1) \in Nat
         /\ StartTime(t) <= StartTime(t + 1)
         /\ StartTime(t + 1) <= EndTime(t) /\ EndTime(t) <= StartTime(t + 1) + 1
         /\ FirstCycle(t + 1) # EndCycle => EndTime(t) = StartTime(t + 1)
         /\ FirstCycle(t + 1) = EndCycle => EndTime(t) = EndCycle * Period + 1
         /\ \A s \in Nat : t <= s => StartTime(t) <= StartTime(s)
         /\ StartTime(0) = StartCycle * Period
<1>1. /\ t + 1 \in Nat /\ t <= t + 1 /\ Period \in Nat /\ EndCycle \in Nat
      /\ \A s \in Nat : FirstCycle(s) \in Nat
      /\ \A s \in Nat : t <= s => FirstCycle(t) <= FirstCycle(s)
      /\ FirstCycle(0) = StartCycle
  BY RangeFacts, CycleFacts
<1>2. \A s \in Nat : StartTime(s) \in Nat /\ (t <= s => StartTime(t) <= StartTime(s))
  <2> TAKE s \in Nat
  <2>1. FirstCycle(s) \in Nat /\ FirstCycle(t) \in Nat /\ (t <= s => FirstCycle(t) <= FirstCycle(s))
    BY <1>1
  <2>2. FirstCycle(s) * Period \in Nat
    BY <1>1, <2>1
  <2>3. t <= s => FirstCycle(t) * Period <= FirstCycle(s) * Period
    BY <1>1, <2>1, MulLeq
  <2> QED BY <2>2, <2>3 DEF StartTime
<1>3. EndTime(t) = StartTime(t + 1) + (IF FirstCycle(t + 1) = EndCycle THEN 1 ELSE 0)
  BY DEF EndTime, StartTime
<1>4. FirstCycle(t + 1) = EndCycle => StartTime(t + 1) = EndCycle * Period
  BY DEF StartTime
<1>5. StartTime(0) = StartCycle * Period
  BY <1>1 DEF StartTime
<1> QED BY <1>1, <1>2, <1>3, <1>4, <1>5

(* No time is in the ranges of two threads.                                *)
LEMMA OneThread ==
  ASSUME KernelReady, NEW t \in 0 .. NThread - 1, NEW s \in 0 .. NThread - 1, NEW x \in Nat,
         Covers(t, x), Covers(s, x)
  PROVE  t = s
<1>1. NThread \in Nat /\ EndCycle \in Nat
  BY RangeFacts, CycleFacts
<1>2. ASSUME NEW a \in 0 .. NThread - 1, NEW b \in 0 .. NThread - 1, Covers(a, x), Covers(b, x), a < b
      PROVE  FALSE
  <2>1. a \in Nat /\ b \in Nat /\ a + 1 \in Nat /\ a + 1 <= b
    BY <1>1, <1>2
  <2>2. /\ StartTime(a + 1) \in Nat /\ EndTime(a) \in Nat
        /\ FirstCycle(a + 1) # EndCycle => EndTime(a) = StartTime(a + 1)
    BY <2>1, TimeFacts
  <2>3. StartTime(b) \in Nat /\ StartTime(a + 1) <= StartTime(b)
    BY <2>1, TimeFacts
  <2>4. x < EndTime(a) /\ StartTime(b) <= x /\ Runs(b)
    BY <1>2 DEF Covers
  <2>5. FirstCycle(a + 1) = EndCycle
    BY <2>2, <2>3, <2>4
  <2>6. FirstCycle(a + 1) <= FirstCycle(b) /\ FirstCycle(b) < EndCycle /\ FirstCycle(b) \in Nat
    BY <2>1, <2>4, RangeFacts
  <2> QED BY <1>1, <2>5, <2>6
<1>3. t \in Nat /\ s \in Nat
  BY <1>1
<1> QED BY <1>2, <1>3

(* Every time from the interval's start to the end of the last thread's    *)
(* range is in the range of a thread that runs.                            *)
LEMMA ThreadOf ==
  ASSUME KernelReady, NEW x \in Nat, StartCycle * Period <= x, x < EndTime(NThread - 1)
  PROVE  \E t \in 0 .. NThread - 1 : Covers(t, x)
<1> DEFINE T == {t \in 0 .. NThread - 1 : x < EndTime(t)}
<1>1. NThread \in Nat \ {0} /\ NThread - 1 \in 0 .. NThread - 1
      /\ EndCycle \in Nat /\ StartCycle \in Nat /\ StartCycle < EndCycle
  BY RangeFacts, CycleFacts
<1>2. PICK t \in T : \A s \in T : t <= s
  <2>1. T \in SUBSET Nat /\ T # {}
    BY <1>1
  <2> HIDE DEF T
  <2> QED BY <2>1, NatMin
<1>3. t \in Nat /\ t \in 0 .. NThread - 1 /\ x < EndTime(t)
  BY <1>1
<1>4. /\ StartTime(t) \in Nat /\ EndTime(t) \in Nat /\ StartTime(t + 1) \in Nat
      /\ FirstCycle(t + 1) # EndCycle => EndTime(t) = StartTime(t + 1)
      /\ FirstCycle(t + 1) = EndCycle => EndTime(t) = EndCycle * Period + 1
  BY <1>3, TimeFacts
<1>5. CASE t = 0
  <2>1. StartTime(t) <= x
    BY <1>5, TimeFacts
  <2>2. Runs(t)
    <3> SUFFICES ASSUME FirstCycle(t) = FirstCycle(t + 1) PROVE FALSE
      BY DEF Runs
    <3>1. FirstCycle(t + 1) = StartCycle
      BY <1>5, RangeFacts
    <3>2. EndTime(t) = StartTime(t + 1)
      BY <1>1, <1>4, <3>1
    <3>3. StartTime(t + 1) = StartCycle * Period
      BY <3>1 DEF StartTime
    <3>4. x < StartCycle * Period /\ StartCycle * Period \in Nat
      BY <1>3, <1>4, <3>2, <3>3
    <3> QED BY <3>4
  <2> QED BY <1>3, <2>1, <2>2 DEF Covers
<1>6. CASE t # 0
  <2>1. t - 1 \in 0 .. NThread - 1 /\ t - 1 \in Nat /\ (t - 1) + 1 = t /\ ~(t <= t - 1)
    BY <1>1, <1>3, <1>6
  <2>2. ~(x < EndTime(t - 1))
    BY <1>2, <2>1
  <2>3. /\ EndTime(t - 1) \in Nat /\ StartTime(t) <= EndTime(t - 1)
        /\ FirstCycle(t) = EndCycle => EndTime(t - 1) = EndCycle * Period + 1
    BY <2>1, TimeFacts
  <2>4. StartTime(t) <= x
    BY <1>4, <2>2, <2>3
  <2>5. Runs(t)
    <3> SUFFICES ASSUME FirstCycle(t) = FirstCycle(t + 1) PROVE FALSE
      BY DEF Runs
    <3>1. StartTime(t) = StartTime(t + 1)
      BY DEF StartTime
    <3>2. FirstCycle(t + 1) = EndCycle
      BY <1>3, <1>4, <2>4, <3>1
    <3> QED BY <1>3, <1>4, <2>2, <2>3, <3>2
  <2> QED BY <1>3, <2>4, <2>5 DEF Covers
<1> QED BY <1>5, <1>6

(* How far a range may pass the interval's end.                            *)
Slack(n) == IF n = 1 THEN 1 ELSE (n - 1) * Period

(* The ranges begin with the interval, reach its end, or with events all   *)
(* of them, and pass it by the slack at most.                              *)
LEMMA ReachFacts ==
  ASSUME KernelReady
  PROVE  /\ \A t \in 0 .. NThread - 1 : \A x \in Nat : Covers(t, x) =>
              StartCycle * Period <= x /\ x < EndCycle * Period + Slack(perThread)
         /\ FirstCycle(NThread) >= EndCycle => EndCycle * Period < EndTime(NThread - 1)
         /\ FirstCycle(NThread) < EndCycle => EndTime(NThread - 1) = FirstCycle(NThread) * Period
<1>1. /\ NThread \in Nat \ {0} /\ NThread - 1 \in Nat /\ (NThread - 1) + 1 = NThread
      /\ EndCycle \in Nat /\ StartCycle \in Nat /\ perThread \in Nat \ {0} /\ Period \in Nat \ {0}
      /\ FirstCycle(NThread) \in Nat
      /\ EndCycle * Period \in Nat /\ StartCycle * Period \in Nat
  BY RangeFacts, CycleFacts, MulSucc
<1> DEFINE m == NThread - 1
<1>2. /\ EndTime(m) \in Nat /\ StartTime(NThread) \in Nat
      /\ EndTime(m) <= StartTime(NThread) + 1
      /\ FirstCycle(NThread) # EndCycle => EndTime(m) = StartTime(NThread)
      /\ FirstCycle(NThread) = EndCycle => EndTime(m) = EndCycle * Period + 1
  BY <1>1, TimeFacts
<1>3. FirstCycle(NThread) > EndCycle => EndCycle * Period < StartTime(NThread)
  BY <1>1, MulLess DEF StartTime
<1>4. EndTime(m) <= EndCycle * Period + Slack(perThread) /\ Slack(perThread) \in Nat
      /\ Slack(perThread) >= 1
  <2>1. Slack(perThread) \in Nat /\ Slack(perThread) >= 1
    <3>1. perThread # 1 => (perThread - 1) * Period >= 1 * Period /\ (perThread - 1) * Period \in Nat
      <4>1. perThread # 1 => perThread - 1 \in Nat /\ 1 <= perThread - 1
        BY <1>1
      <4> QED BY <1>1, <4>1, MulLeq, MulSucc
    <3> QED BY <1>1, <3>1 DEF Slack
  <2>2. CASE FirstCycle(NThread) = EndCycle
    BY <1>1, <1>2, <2>1, <2>2
  <2>3. CASE FirstCycle(NThread) < EndCycle
    <3>1. FirstCycle(NThread) * Period <= EndCycle * Period
      BY <1>1, <2>3, MulLeq
    <3> QED BY <1>1, <1>2, <2>1, <2>3, <3>1 DEF StartTime
  <2>4. CASE FirstCycle(NThread) > EndCycle
    <3>1. FirstCycle(NThread) <= EndCycle + (perThread - 1)
      BY RangeFacts
    <3>2. perThread # 1 /\ perThread - 1 \in Nat /\ EndCycle + (perThread - 1) \in Nat
      BY <1>1, <2>4, <3>1
    <3>3. FirstCycle(NThread) * Period <= (EndCycle + (perThread - 1)) * Period
      BY <1>1, <3>1, <3>2, MulLeq
    <3>4. (EndCycle + (perThread - 1)) * Period = EndCycle * Period + (perThread - 1) * Period
      <4> DEFINE k == perThread - 1
      <4>1. k \in Nat
        BY <3>2
      <4> HIDE DEF k
      <4>2. (EndCycle + k) * Period = EndCycle * Period + k * Period
        BY <1>1, <4>1
      <4> QED BY <4>2 DEF k
    <3>5. (perThread - 1) * Period = Slack(perThread)
      BY <3>2 DEF Slack
    <3>6. EndTime(m) = FirstCycle(NThread) * Period
      BY <1>1, <1>2, <2>4 DEF StartTime
    <3> QED BY <1>1, <2>1, <3>3, <3>4, <3>5, <3>6
  <2> QED BY <1>1, <2>2, <2>3, <2>4
<1>5. ASSUME NEW t \in 0 .. NThread - 1, NEW x \in Nat, Covers(t, x)
      PROVE  StartCycle * Period <= x /\ x < EndCycle * Period + Slack(perThread)
  <2>1. t \in Nat /\ t + 1 \in Nat /\ 0 <= t /\ (t = m \/ t + 1 <= m)
    BY <1>1
  <2>2. StartTime(t) <= x /\ x < EndTime(t)
    BY <1>5 DEF Covers
  <2>3. StartTime(0) <= StartTime(t) /\ StartTime(0) = StartCycle * Period /\ StartTime(t) \in Nat
    BY <2>1, TimeFacts
  <2>4. EndTime(t) <= EndTime(m) /\ EndTime(t) \in Nat
    <3>1. CASE t = m
      BY <1>2, <3>1
    <3>2. CASE t + 1 <= m
      <4>1. /\ StartTime(t + 1) \in Nat /\ EndTime(t) \in Nat
            /\ EndTime(t) <= StartTime(t + 1) + 1
            /\ FirstCycle(t + 1) # EndCycle => EndTime(t) = StartTime(t + 1)
            /\ FirstCycle(t + 1) = EndCycle => EndTime(t) = EndCycle * Period + 1
        BY <2>1, TimeFacts
      <4>2. StartTime(t + 1) <= StartTime(NThread)
        BY <1>1, <2>1, <3>2, TimeFacts
      <4>3. CASE FirstCycle(t + 1) # EndCycle
        <5>1. StartTime(NThread) <= EndTime(m)
          BY <1>1, TimeFacts
        <5> QED BY <1>2, <4>1, <4>2, <4>3, <5>1
      <4>4. CASE FirstCycle(t + 1) = EndCycle
        <5>1. FirstCycle(NThread) >= EndCycle
          BY <1>1, <2>1, <3>2, <4>4, RangeFacts
        <5>2. EndCycle * Period < EndTime(m)
          BY <1>1, <1>2, <1>3, <5>1
        <5> QED BY <1>1, <1>2, <4>1, <4>4, <5>2
      <4> QED BY <4>3, <4>4
    <3> QED BY <2>1, <3>1, <3>2
  <2> QED BY <1>1, <1>2, <1>4, <2>2, <2>3, <2>4
<1> QED BY <1>1, <1>2, <1>3, <1>5 DEF StartTime

-----------------------------------------------------------------------------
(* Thread t charges event e of pin p.                                      *)
Takes(p, t, e) == Runs(t) /\ e \in Taken(p, t)

(* A thread charges the events in its range but the slice's first.         *)
LEMMA TakesFacts ==
  ASSUME KernelReady, NEW p \in Pins, NEW t, NEW e
  PROVE  Takes(p, t, e) <=> e \in dEvents[p] /\ e # Min(dEvents[p]) /\ Covers(t, e)
BY DEF Takes, Taken, Covers

(* The threads of a round charge the events the round adds, each one once. *)
LEMMA RoundToggles ==
  ASSUME KernelReady, NEW p \in Pins, NEW e \in file.wave[p]
  PROVE  /\ (\E t \in 0 .. NThread - 1 : Takes(p, t, e))
              <=> e \in UpTo(p, round) \ UpTo(p, round - 1) /\ e # 0
         /\ \A t, s \in 0 .. NThread - 1 : Takes(p, t, e) /\ Takes(p, s, e) => t = s
<1>1. /\ FileRead /\ IntervalsFollow /\ CutsOnLines /\ round \in Rounds
      /\ dEvents[p] = SliceOf(p, round) /\ e \in Nat
  BY FileFacts DEF KernelReady
<1>2. e \in dEvents[p] /\ e # Min(dEvents[p]) <=> e \in UpTo(p, round) \ UpTo(p, round - 1) /\ e # 0
  BY <1>1, SliceFacts
<1>3. ASSUME e \in UpTo(p, round) \ UpTo(p, round - 1), e # 0
      PROVE  \E t \in 0 .. NThread - 1 : Takes(p, t, e)
  <2>1. e \in dEvents[p] /\ e # Min(dEvents[p])
    BY <1>2, <1>3
  <2>2. StartCycle * Period <= e
    BY <1>1, <1>3, UpToFacts, CycleFacts
  <2>3. e < EndTime(NThread - 1)
    <3>1. EndCycle \in Nat /\ FirstCycle(NThread) \in Nat /\ NThread - 1 \in Nat
          /\ EndTime(NThread - 1) \in Nat /\ EndCycle * Period \in Nat
      <4>1. EndCycle \in Nat /\ Period \in Nat /\ NThread \in Nat \ {0}
        BY CycleFacts, RangeFacts
      <4>2. NThread - 1 \in Nat
        BY <4>1
      <4> QED BY <4>1, <4>2, RangeFacts, TimeFacts, MulSucc
    <3>2. CASE FirstCycle(NThread) >= EndCycle
      <4>1. EndCycle * Period < EndTime(NThread - 1)
        BY <3>2, ReachFacts
      <4>2. e <= EndCycle * Period
        BY <2>1, CycleFacts
      <4> QED BY <1>1, <3>1, <4>1, <4>2
    <3>3. CASE FirstCycle(NThread) < EndCycle
      BY <2>1, <3>3, RangeFacts, ReachFacts
    <3> QED BY <3>1, <3>2, <3>3
  <2>4. PICK t \in 0 .. NThread - 1 : Covers(t, e)
    BY <1>1, <2>2, <2>3, ThreadOf
  <2> QED BY <2>1, <2>4, TakesFacts
<1>4. \A t, s \in 0 .. NThread - 1 : Takes(p, t, e) /\ Takes(p, s, e) => t = s
  BY <1>1, TakesFacts, OneThread
<1>5. ASSUME NEW t \in 0 .. NThread - 1, Takes(p, t, e)
      PROVE  e \in UpTo(p, round) \ UpTo(p, round - 1) /\ e # 0
  BY <1>2, <1>5, TakesFacts
<1> QED BY <1>3, <1>4, <1>5

(* A thread knows the state before a time of its range, or its end: the    *)
(* state the waveform has there, when the round holds all events before.   *)
LEMMA StateRight ==
  ASSUME KernelReady, NEW p \in Pins, NEW t \in Nat, NEW x \in Nat,
         StartTime(t) <= x, x <= EndTime(t), Min(dEvents[p]) < x,
         \A y \in file.wave[p] : y < x => y \in UpTo(p, round)
  PROVE  StateBefore(p, t, x) = LastEventBefore(p, x)
<1> DEFINE D == dEvents[p]
           m == Min(D)
           W == {y \in file.wave[p] : y < x}
           L == Max(W)
<1>1. /\ FileRead /\ IntervalsFollow /\ CutsOnLines /\ round \in Rounds
      /\ D = SliceOf(p, round)
      /\ MaxTime \in Nat /\ file.wave[p] \subseteq 0 .. MaxTime
      /\ StartTime(t) \in Nat /\ EndTime(t) \in Nat
  BY FileFacts, TimeFacts DEF KernelReady
<1>2. /\ m \in D /\ D \subseteq UpTo(p, round) /\ D \subseteq file.wave[p]
      /\ \A e \in UpTo(p, round) : m <= e => e \in D
      /\ \A e \in D : m <= e
  BY <1>1, SliceFacts DEF UpTo
<1>3. m \in W /\ m < x
  BY <1>2
<1>4. L \in W /\ \A k \in W : k <= L
  <2>1. W \in SUBSET (0 .. MaxTime) /\ W # {}
    BY <1>1, <1>3
  <2> HIDE DEF W
  <2> QED BY <1>1, <2>1, BoundedMax
<1>5. L \in D /\ L < x /\ m <= L /\ L \in Nat
  <2>1. L \in file.wave[p] /\ L < x /\ L \in Nat
    BY <1>1, <1>4
  <2>2. m <= L
    BY <1>3, <1>4
  <2> QED BY <1>2, <2>1, <2>2
<1>6. \A k \in D : k < x => k <= L /\ k \in Nat
  BY <1>1, <1>2, <1>4
<1>7. LastEventBefore(p, x) = L
  BY DEF LastEventBefore
<1> HIDE DEF W, L
<1> DEFINE A == {m} \cup {e \in D : e < StartTime(t)}
           v == PrevEvent(p, t)
           B == {v} \cup {y \in Taken(p, t) : y < x}
<1>8. v = Max(A) /\ StateBefore(p, t, x) = Max(B)
  BY DEF PrevEvent, StateBefore
<1>9. v \in A /\ \A k \in A : k <= v
  <2>1. A \in SUBSET (0 .. MaxTime) /\ A # {}
    BY <1>1, <1>2
  <2> HIDE DEF A
  <2> QED BY <1>1, <1>8, <2>1, BoundedMax
<1>10. v \in D /\ v < x /\ v <= L /\ v \in Nat
  <2>1. v \in D /\ v < x
    BY <1>1, <1>2, <1>3, <1>9
  <2> QED BY <1>6, <2>1
<1>11. \A y \in Taken(p, t) : y \in D
  BY DEF Taken
<1>12. L \in B
  <2>1. CASE L < StartTime(t)
    <3>1. L \in A
      BY <1>5, <2>1
    <3>2. L <= v
      BY <1>9, <3>1
    <3>3. L = v
      BY <1>5, <1>10, <3>2
    <3> QED BY <3>3
  <2>2. CASE L = m
    <3>1. L <= v
      BY <1>9, <2>2
    <3>2. L = v
      BY <1>5, <1>10, <3>1
    <3> QED BY <3>2
  <2>3. CASE ~(L < StartTime(t)) /\ L # m
    <3>1. L \in Taken(p, t)
      BY <1>1, <1>5, <2>3 DEF Taken
    <3> QED BY <1>5, <3>1
  <2> QED BY <2>1, <2>2, <2>3
<1>13. B \in SUBSET Nat /\ \A k \in B : k <= L
  BY <1>6, <1>10, <1>11
<1> HIDE DEF B, v, A
<1>14. Max(B) = L
  BY <1>12, <1>13, MaxIs
<1> QED BY <1>7, <1>8, <1>14

(* So every toggle is charged as a change from the event before it.        *)
LEMMA TakenRight ==
  ASSUME KernelReady, NEW p \in Pins, NEW t \in Nat, NEW e \in Taken(p, t)
  PROVE  StateBefore(p, t, e) = LastEventBefore(p, e)
<1>1. /\ FileRead /\ IntervalsFollow /\ CutsOnLines /\ round \in Rounds
      /\ dEvents[p] = SliceOf(p, round)
      /\ file.wave[p] \subseteq 0 .. MaxTime
      /\ EndTime(t) \in Nat
  BY FileFacts, TimeFacts DEF KernelReady
<1>2. e \in dEvents[p] /\ StartTime(t) <= e /\ e < EndTime(t) /\ e # Min(dEvents[p])
  BY DEF Taken
<1>3. e \in UpTo(p, round) /\ Min(dEvents[p]) <= e /\ Min(dEvents[p]) \in dEvents[p]
      /\ dEvents[p] \subseteq UpTo(p, round)
  BY <1>1, <1>2, SliceFacts
<1>4. \A y \in UpTo(p, round) : y \in Nat
  BY <1>1 DEF UpTo
<1>5. Min(dEvents[p]) < e /\ e \in Nat /\ e <= EndTime(t)
  BY <1>1, <1>2, <1>3, <1>4
<1>6. \A y \in file.wave[p] : y < e => y \in UpTo(p, round)
  <2> TAKE y \in file.wave[p]
  <2>1. y \in Nat
    BY <1>1
  <2> QED BY <1>1, <1>3, <1>5, <2>1, UpToFacts
<1> QED BY <1>2, <1>5, <1>6, StateRight

-----------------------------------------------------------------------------
(* The last round whose tiles mergeResult added.                           *)
Recorded == IF pc = "done" THEN round ELSE round - 1

(* What is charged of each event: in the result, an event of the rounds    *)
(* recorded; in the tiles, those of the threads that are through, and with *)
(* the kernel at its end those the round added.                            *)
TogglesInv ==
  /\ total.stale = {} /\ tile.stale = {}
  /\ pc \in {"copyWaveform", "copyGate", "run", "sync"} => perThread \in PerThread
  /\ pc = "sync" => \A n : n = NThread => todo \subseteq 0 .. n - 1
  /\ \A p \in Pins : \A e \in file.wave[p] :
       /\ tile.toggle[p][e] \in {0, 1} /\ total.toggle[p][e] \in {0, 1}
       /\ pc # "failed" => \A i : i = Recorded =>
            total.toggle[p][e] = IF e \in UpTo(p, i) /\ e # 0 THEN 1 ELSE 0
       /\ pc \in {"copyWaveform", "copyGate", "run"} => tile.toggle[p][e] = 0
       /\ pc = "sync" => \A n : n = NThread =>
            tile.toggle[p][e] = IF \E t \in (0 .. n - 1) \ todo : Takes(p, t, e) THEN 1 ELSE 0
       /\ pc \in {"join", "record"} => \A i : i = round =>
            tile.toggle[p][e] = IF e \in UpTo(p, i) \ UpTo(p, i - 1) /\ e # 0 THEN 1 ELSE 0

(* While the kernel runs it has the round's data.                          *)
LEMMA ReadyInSync ==
  ASSUME DataInv, CutsInv, TogglesInv, pc = "sync"
  PROVE  KernelReady
<1>1. Ranged = round
  BY DEF Ranged
<1>2. \A p \in Pins : dEvents[p] = SliceOf(p, round) /\ ranges[p] = SliceOf(p, round)
  BY <1>1 DEF DataInv, RoundsData
<1> QED BY <1>2 DEF KernelReady, DataInv, CutsInv, TogglesInv, TypeOK

(* What the threads of a kernel are given.                                 *)
kernel == <<file, intervals, round, perThread, dEvents, ranges>>

(* A step that leaves it alone leaves the threads' ranges alone ...        *)
LEMMA RangesStay ==
  ASSUME UNCHANGED kernel
  PROVE  /\ NThread' = NThread /\ Basis' = Basis
         /\ StartCycle' = StartCycle /\ EndCycle' = EndCycle
         /\ \A t : /\ FirstCycle(t)' = FirstCycle(t) /\ StartTime(t)' = StartTime(t)
                   /\ EndTime(t)' = EndTime(t) /\ Runs(t)' = Runs(t)
         /\ \A p : \A t : Taken(p, t)' = Taken(p, t)
         /\ \A p, t, e : Takes(p, t, e)' = Takes(p, t, e)
         /\ \A t, x : Covers(t, x)' = Covers(t, x)
<1>1. /\ file' = file /\ intervals' = intervals /\ round' = round /\ perThread' = perThread
      /\ dEvents' = dEvents /\ ranges' = ranges
  BY DEF kernel
<1>2. StartCycle' = StartCycle /\ EndCycle' = EndCycle /\ Basis' = Basis /\ MaxTime' = MaxTime
  BY <1>1 DEF StartCycle, EndCycle, Basis, MaxTime
<1>3. \A c : Accumulated(c)' = Accumulated(c)
  BY <1>1 DEF Accumulated, SizeOf
<1>4. SizeOf(ranges)' = SizeOf(ranges)
  BY <1>1 DEF SizeOf
<1>5. NThread' = NThread
  BY <1>1, <1>2, <1>4 DEF NThread
<1>6. \A n : CycleByEventCount(n)' = CycleByEventCount(n)
  BY <1>2, <1>3 DEF CycleByEventCount
<1>7. \A t : FirstCycle(t)' = FirstCycle(t)
  BY <1>1, <1>2, <1>6 DEF FirstCycle
<1>8. \A t : StartTime(t)' = StartTime(t) /\ EndTime(t)' = EndTime(t) /\ Runs(t)' = Runs(t)
  BY <1>2, <1>7 DEF StartTime, EndTime, Runs
<1>9. \A p : \A t : Taken(p, t)' = Taken(p, t)
  BY <1>1, <1>8 DEF Taken
<1>10. \A p, t, e : Takes(p, t, e)' = Takes(p, t, e)
  BY <1>8, <1>9 DEF Takes
<1>11. \A t, x : Covers(t, x)' = Covers(t, x)
  BY <1>8 DEF Covers
<1> QED BY <1>2, <1>5, <1>7, <1>8, <1>9, <1>10, <1>11

(* ... and what they ran over of the waveforms.                            *)
LEMMA UpToStay ==
  ASSUME file' = file, intervals' = intervals
  PROVE  /\ \A p, i : UpTo(p, i)' = UpTo(p, i)
         /\ Rounds' = Rounds /\ Basis' = Basis /\ MaxTime' = MaxTime
BY DEF UpTo, Rounds, Basis, MaxTime

(* The first state: nothing is charged.                                    *)
LEMMA InitToggles == Init => TogglesInv
<1> SUFFICES ASSUME Init PROVE TogglesInv
  OBVIOUS
<1>1. pc = "slice" /\ round = 1 /\ tile = Nothing /\ total = Nothing
  BY DEF Init
<1>2. Recorded = 0 /\ \A p : UpTo(p, 0) = {}
  BY <1>1 DEF Recorded, UpTo
<1>3. \A p \in Pins : \A e \in file.wave[p] : tile.toggle[p][e] = 0 /\ total.toggle[p][e] = 0
  BY <1>1 DEF Nothing
<1>4. tile.stale = {} /\ total.stale = {}
  BY <1>1 DEF Nothing
<1> QED BY <1>1, <1>2, <1>3, <1>4 DEF TogglesInv

(* Up to the launch nothing of the round is charged.                       *)
LEMMA PrepareToggles ==
  ASSUME DataInv, TogglesInv,
         \/ SliceTime \/ InitGateData \/ ScheduleKernel \/ CopyWaveformToDeviceSide
         \/ CopyGateDataToDeviceSide
  PROVE  TogglesInv'
<1>1. CASE SliceTime
  <2>1. /\ pc = "slice" /\ pc' \in {"failed", "init"} /\ file' = file /\ round' = round
        /\ tile' = tile /\ total' = total
    BY <1>1 DEF SliceTime
  <2>2. round = 1 /\ Recorded = 0 /\ Recorded' = 0
    BY <2>1 DEF DataInv, CallsInOrder, Recorded
  <2>3. \A p : UpTo(p, 0) = {} /\ UpTo(p, 0)' = {}
    BY DEF UpTo
  <2> QED BY <2>1, <2>2, <2>3 DEF TogglesInv
<1>2. CASE InitGateData
  <2>1. /\ pc = "init" /\ pc' \in {"failed", "schedule"} /\ file' = file /\ round' = round
        /\ intervals' = intervals /\ tile' = tile /\ total' = total
    BY <1>2 DEF InitGateData
  <2>2. Recorded' = Recorded /\ \A p, i : UpTo(p, i)' = UpTo(p, i)
    BY <2>1, UpToStay DEF Recorded
  <2> QED BY <2>1, <2>2 DEF TogglesInv
<1>3. CASE ScheduleKernel
  <2>1. /\ pc = "schedule" /\ pc' = "copyWaveform" /\ file' = file /\ round' = round
        /\ intervals' = intervals /\ tile' = Nothing /\ total' = total /\ perThread' \in PerThread
    BY <1>3 DEF ScheduleKernel
  <2>2. Recorded' = Recorded /\ \A p, i : UpTo(p, i)' = UpTo(p, i)
    BY <2>1, UpToStay DEF Recorded
  <2>3. tile'.stale = {} /\ \A p \in Pins : \A e \in file.wave[p] : tile'.toggle[p][e] = 0
    BY <2>1 DEF Nothing
  <2> QED BY <2>1, <2>2, <2>3 DEF TogglesInv
<1>4. CASE CopyWaveformToDeviceSide \/ CopyGateDataToDeviceSide
  <2>1. /\ pc \in {"copyWaveform", "copyGate"} /\ pc' \in {"copyGate", "run"} /\ file' = file
        /\ round' = round /\ intervals' = intervals /\ tile' = tile /\ total' = total
        /\ perThread' = perThread
    BY <1>4 DEF CopyWaveformToDeviceSide, CopyGateDataToDeviceSide
  <2>2. Recorded' = Recorded /\ \A p, i : UpTo(p, i)' = UpTo(p, i)
    BY <2>1, UpToStay DEF Recorded
  <2> QED BY <2>1, <2>2 DEF TogglesInv
<1> QED BY <1>1, <1>2, <1>3, <1>4

(* The launch, the thread that fetches ahead, and the end of the kernel.   *)
LEMMA LaunchToggles ==
  ASSUME DataInv, CutsInv, TogglesInv,
         RunCudaPowerAnalysis \/ Prefetch \/ Synchronize \/ RenewGateWaveform
  PROVE  TogglesInv'
<1>1. CASE RunCudaPowerAnalysis
  <2>1. /\ pc = "run" /\ pc' = "sync" /\ file' = file /\ round' = round /\ todo' = 0 .. NThread - 1
        /\ intervals' = intervals /\ tile' = tile /\ total' = total /\ perThread' = perThread
        /\ dEvents' = dEvents /\ ranges' = ranges
    BY <1>1 DEF RunCudaPowerAnalysis, data, device
  <2>2. Recorded' = Recorded /\ \A p, i : UpTo(p, i)' = UpTo(p, i)
    BY <2>1, UpToStay DEF Recorded
  <2>3. NThread' = NThread
    BY <2>1, RangesStay DEF kernel
  <2>4. todo' = 0 .. NThread' - 1
    BY <2>1, <2>3
  <2>5. (0 .. NThread' - 1) \ todo' = {}
    BY <2>4
  <2>6. ASSUME NEW p \in Pins, NEW e \in file.wave[p]
        PROVE  tile'.toggle[p][e] =
                 IF \E t \in (0 .. NThread' - 1) \ todo' : Takes(p, t, e)' THEN 1 ELSE 0
    <3>1. tile.toggle[p][e] = 0
      BY <2>1 DEF TogglesInv
    <3>2. ~\E t \in (0 .. NThread' - 1) \ todo' : Takes(p, t, e)'
      BY <2>5
    <3> QED BY <2>1, <3>1, <3>2
  <2>7. todo' \subseteq 0 .. NThread' - 1
    BY <2>4
  <2> QED BY <2>1, <2>2, <2>6, <2>7 DEF TogglesInv
<1>2. CASE Prefetch
  <2>1. /\ pc # "failed" /\ pc' \in {pc, "failed"} /\ file' = file /\ round' = round
        /\ todo' = todo /\ dEvents' = dEvents /\ ranges' = ranges
        /\ intervals' = intervals /\ tile' = tile /\ total' = total /\ perThread' = perThread
    BY <1>2 DEF Prefetch, device
  <2>2. (pc' # "failed" => pc' = pc /\ Recorded' = Recorded) /\ \A p, i : UpTo(p, i)' = UpTo(p, i)
    BY <2>1, UpToStay DEF Recorded
  <2>3. NThread' = NThread /\ \A p, t, e : Takes(p, t, e)' = Takes(p, t, e)
    BY <2>1, RangesStay DEF kernel
  <2>4. CASE pc' = "failed"
    BY <2>1, <2>4 DEF TogglesInv
  <2>5. CASE pc' # "failed"
    <3>1. ASSUME pc' = "sync", NEW p \in Pins, NEW e \in file.wave[p]
          PROVE  tile'.toggle[p][e] =
                   IF \E t \in (0 .. NThread' - 1) \ todo' : Takes(p, t, e)' THEN 1 ELSE 0
      <4>1. tile.toggle[p][e] = IF \E t \in (0 .. NThread - 1) \ todo : Takes(p, t, e) THEN 1 ELSE 0
        BY <2>2, <2>5, <3>1 DEF TogglesInv
      <4>2. (\E t \in (0 .. NThread' - 1) \ todo' : Takes(p, t, e)')
              <=> \E t \in (0 .. NThread - 1) \ todo : Takes(p, t, e)
        BY <2>1, <2>3
      <4> QED BY <2>1, <4>1, <4>2
    <3>2. pc' = "sync" => todo' \subseteq 0 .. NThread' - 1
      BY <2>1, <2>2, <2>3, <2>5 DEF TogglesInv
    <3> QED BY <2>1, <2>2, <2>5, <3>1, <3>2 DEF TogglesInv
  <2> QED BY <2>4, <2>5
<1>3. CASE Synchronize
  <2>1. /\ pc = "sync" /\ todo = {} /\ pc' \in {"join", "record"} /\ file' = file /\ round' = round
        /\ intervals' = intervals /\ tile' = tile /\ total' = total /\ perThread' = perThread
    BY <1>3 DEF Synchronize
  <2>2. Recorded' = Recorded /\ \A p, i : UpTo(p, i)' = UpTo(p, i)
    BY <2>1, UpToStay DEF Recorded
  <2>3. KernelReady
    BY <2>1, ReadyInSync
  <2>4. ASSUME NEW p \in Pins, NEW e \in file.wave[p]
        PROVE  tile.toggle[p][e] = IF e \in UpTo(p, round) \ UpTo(p, round - 1) /\ e # 0 THEN 1 ELSE 0
    <3>1. tile.toggle[p][e] = IF \E t \in (0 .. NThread - 1) \ todo : Takes(p, t, e) THEN 1 ELSE 0
      BY <2>1 DEF TogglesInv
    <3>2. (\E t \in (0 .. NThread - 1) \ todo : Takes(p, t, e))
            <=> \E t \in 0 .. NThread - 1 : Takes(p, t, e)
      BY <2>1
    <3> QED BY <2>3, <3>1, <3>2, RoundToggles
  <2> QED BY <2>1, <2>2, <2>4 DEF TogglesInv
<1>4. CASE RenewGateWaveform
  <2>1. /\ pc = "join" /\ pc' = "record" /\ file' = file /\ round' = round
        /\ intervals' = intervals /\ tile' = tile /\ total' = total
    BY <1>4 DEF RenewGateWaveform
  <2>2. Recorded' = Recorded /\ \A p, i : UpTo(p, i)' = UpTo(p, i)
    BY <2>1, UpToStay DEF Recorded
  <2> QED BY <2>1, <2>2 DEF TogglesInv
<1> QED BY <1>1, <1>2, <1>3, <1>4

(* A thread of the kernel charges the events of its range.                 *)
LEMMA ThreadToggles ==
  ASSUME DataInv, CutsInv, TogglesInv, NEW t \in todo, KernelThread(t)
  PROVE  TogglesInv'
<1>1. /\ pc = "sync" /\ pc' = pc /\ file' = file /\ round' = round /\ intervals' = intervals
      /\ total' = total /\ perThread' = perThread /\ dEvents' = dEvents /\ ranges' = ranges
      /\ todo' = todo \ {t}
      /\ tile' = IF FirstCycle(t) = FirstCycle(t + 1) THEN tile ELSE Charged(t)
  BY DEF KernelThread, DataInv, CallsInOrder, data, device
<1>2. KernelReady
  BY <1>1, ReadyInSync
<1>3. Recorded' = Recorded /\ \A p, i : UpTo(p, i)' = UpTo(p, i)
  BY <1>1, UpToStay DEF Recorded
<1>4. NThread' = NThread /\ \A p, s, e : Takes(p, s, e)' = Takes(p, s, e)
  BY <1>1, RangesStay DEF kernel
<1>5. todo \subseteq 0 .. NThread - 1 /\ NThread \in Nat /\ t \in Nat
  BY <1>1, <1>2, RangeFacts DEF TogglesInv
<1>6. tile'.stale = {}
  <2>1. CASE ~Runs(t)
    BY <1>1, <2>1 DEF Runs, TogglesInv
  <2>2. CASE Runs(t)
    <3>1. tile'.stale = tile.stale \cup
            UNION {{p} \X {e \in Taken(p, t) : StateBefore(p, t, e) # LastEventBefore(p, e)} : p \in Pins}
      BY <1>1, <2>2 DEF Runs, Charged
    <3>2. \A p \in Pins : {e \in Taken(p, t) : StateBefore(p, t, e) # LastEventBefore(p, e)} = {}
      BY <1>2, <1>5, TakenRight
    <3> QED BY <3>1, <3>2 DEF TogglesInv
  <2> QED BY <2>1, <2>2
<1>7. ASSUME NEW p \in Pins, NEW e \in file.wave[p]
      PROVE  tile'.toggle[p][e] =
               IF \E s \in (0 .. NThread - 1) \ todo' : Takes(p, s, e) THEN 1 ELSE 0
  <2>1. tile.toggle[p][e] = IF \E s \in (0 .. NThread - 1) \ todo : Takes(p, s, e) THEN 1 ELSE 0
    BY <1>1 DEF TogglesInv
  <2>2. (0 .. NThread - 1) \ todo' = ((0 .. NThread - 1) \ todo) \cup {t}
    BY <1>1, <1>5
  <2>3. CASE ~Takes(p, t, e)
    <3>1. tile'.toggle[p][e] = tile.toggle[p][e]
      <4>1. CASE ~Runs(t)
        BY <1>1, <4>1 DEF Runs
      <4>2. CASE Runs(t)
        <5>1. e \notin Taken(p, t) /\ tile.toggle[p][e] + 0 = tile.toggle[p][e]
          BY <2>1, <2>3, <4>2 DEF Takes
        <5> QED BY <1>1, <4>2, <5>1 DEF Runs, Charged
      <4> QED BY <4>1, <4>2
    <3> QED BY <2>1, <2>2, <2>3, <3>1
  <2>4. CASE Takes(p, t, e)
    <3>1. Runs(t) /\ e \in Taken(p, t)
      BY <2>4 DEF Takes
    <3>2. tile'.toggle[p][e] = tile.toggle[p][e] + 1
      BY <1>1, <3>1 DEF Runs, Charged
    <3>3. ~\E s \in (0 .. NThread - 1) \ todo : Takes(p, s, e)
      <4> SUFFICES ASSUME NEW s \in (0 .. NThread - 1) \ todo, Takes(p, s, e) PROVE FALSE
        OBVIOUS
      <4>1. s \in 0 .. NThread - 1 /\ t \in 0 .. NThread - 1
        BY <1>5
      <4>2. s = t
        BY <1>2, <2>4, <4>1, RoundToggles
      <4> QED BY <4>2
    <3>4. tile.toggle[p][e] = 0
      BY <2>1, <3>3
    <3> QED BY <2>2, <2>4, <3>2, <3>4
  <2> QED BY <2>3, <2>4
<1>8. todo' \subseteq 0 .. NThread' - 1
  BY <1>1, <1>4, <1>5
<1>9. ASSUME NEW p \in Pins, NEW e \in file.wave[p]
      PROVE  tile'.toggle[p][e] =
               IF \E s \in (0 .. NThread' - 1) \ todo' : Takes(p, s, e)' THEN 1 ELSE 0
  <2>1. (\E s \in (0 .. NThread' - 1) \ todo' : Takes(p, s, e)')
          <=> \E s \in (0 .. NThread - 1) \ todo' : Takes(p, s, e)
    BY <1>4
  <2> QED BY <1>7, <2>1
<1>10. \A p \in Pins : \A e \in file.wave[p] : tile'.toggle[p][e] \in {0, 1}
  BY <1>7
<1> QED BY <1>1, <1>3, <1>6, <1>8, <1>9, <1>10 DEF TogglesInv

(* The round's charges are added to those of the rounds before.            *)
LEMMA RecordToggles ==
  ASSUME DataInv, CutsInv, TogglesInv, MergeAndRecordResult
  PROVE  TogglesInv'
<1>1. /\ pc = "record" /\ pc' = (IF round < Len(intervals) THEN "schedule" ELSE "done")
      /\ file' = file /\ intervals' = intervals /\ tile' = tile /\ round' = NextRound
      /\ total'.stale = total.stale \cup tile.stale
      /\ \A p \in Pins : \A e \in file.wave[p] :
           total'.toggle[p][e] = total.toggle[p][e] + tile.toggle[p][e]
  BY DEF MergeAndRecordResult
<1>2. /\ FileRead /\ IntervalsFollow /\ CutsOnLines /\ round \in Rounds /\ Len(intervals) \in Nat
      /\ round \in Nat
  BY <1>1 DEF DataInv, TypeOK, CutsInv, IntervalsFollow, Rounds
<1>3. Recorded = round - 1 /\ Recorded' = round /\ pc' \in {"schedule", "done"}
  BY <1>1, <1>2 DEF Recorded, NextRound
<1>4. \A p, i : UpTo(p, i)' = UpTo(p, i)
  BY <1>1, UpToStay
<1>5. ASSUME NEW p \in Pins, NEW e \in file.wave[p]
      PROVE  /\ total'.toggle[p][e] = IF e \in UpTo(p, round) /\ e # 0 THEN 1 ELSE 0
             /\ tile.toggle[p][e] \in {0, 1}
  <2>1. /\ total.toggle[p][e] = IF e \in UpTo(p, round - 1) /\ e # 0 THEN 1 ELSE 0
        /\ tile.toggle[p][e] = IF e \in UpTo(p, round) \ UpTo(p, round - 1) /\ e # 0 THEN 1 ELSE 0
    BY <1>1, <1>3 DEF TogglesInv
  <2>2. UpTo(p, round - 1) \subseteq UpTo(p, round)
    BY <1>2, UpToFacts
  <2> QED BY <1>1, <2>1, <2>2
<1> QED BY <1>1, <1>3, <1>4, <1>5 DEF TogglesInv

(* Every step keeps the account of the toggles.                            *)
LEMMA NextToggles ==
  ASSUME DataInv, CutsInv, TogglesInv, [Next]_vars
  PROVE  TogglesInv'
<1>1. CASE \/ SliceTime \/ InitGateData \/ ScheduleKernel \/ CopyWaveformToDeviceSide
           \/ CopyGateDataToDeviceSide
  BY <1>1, PrepareToggles
<1>2. CASE RunCudaPowerAnalysis \/ Prefetch \/ Synchronize \/ RenewGateWaveform
  BY <1>2, LaunchToggles
<1>3. CASE \E t \in todo : KernelThread(t)
  BY <1>3, ThreadToggles
<1>4. CASE MergeAndRecordResult
  BY <1>4, RecordToggles
<1>5. CASE UNCHANGED vars
  <2>1. /\ pc' = pc /\ file' = file /\ round' = round /\ intervals' = intervals /\ tile' = tile
        /\ total' = total /\ perThread' = perThread /\ dEvents' = dEvents /\ ranges' = ranges
        /\ todo' = todo
    BY <1>5 DEF vars, data, device
  <2>2. Recorded' = Recorded /\ \A p, i : UpTo(p, i)' = UpTo(p, i)
    BY <2>1, UpToStay DEF Recorded
  <2>3. NThread' = NThread /\ \A p, t, e : Takes(p, t, e)' = Takes(p, t, e)
    BY <2>1, RangesStay DEF kernel
  <2>4. ASSUME pc = "sync", NEW p \in Pins, NEW e \in file.wave[p]
        PROVE  tile'.toggle[p][e] =
                 IF \E t \in (0 .. NThread' - 1) \ todo' : Takes(p, t, e)' THEN 1 ELSE 0
    <3>1. tile.toggle[p][e] = IF \E t \in (0 .. NThread - 1) \ todo : Takes(p, t, e) THEN 1 ELSE 0
      BY <2>4 DEF TogglesInv
    <3>2. (\E t \in (0 .. NThread' - 1) \ todo' : Takes(p, t, e)')
            <=> \E t \in (0 .. NThread - 1) \ todo : Takes(p, t, e)
      BY <2>1, <2>3
    <3> QED BY <2>1, <3>1, <3>2
  <2> QED BY <2>1, <2>2, <2>3, <2>4 DEF TogglesInv
<1> QED BY <1>1, <1>2, <1>3, <1>4, <1>5 DEF Next, Main

-----------------------------------------------------------------------------
(* A unit of the round's interval no thread charges lies in the interval's *)
(* tail, where ranges of events end early.                                 *)
Idle(u) == Basis = "event" /\ IdleTail(u)

(* A time unit of the interval that no kernel thread covers is idle: only  *)
(* the tail of an interval cut by events is.                               *)
LEMMA UncoveredIdle ==
  ASSUME KernelReady, NEW u \in Nat, intervals[round][1] <= u, u < intervals[round][2],
         ~\E t \in 0 .. NThread - 1 : Covers(t, u)
  PROVE  Idle(u)
<1> DEFINE F == FirstCycle(NThread)
<1>1. /\ FileRead /\ IntervalsFollow /\ CutsOnLines /\ round \in Rounds
      /\ \A p \in Pins : dEvents[p] = SliceOf(p, round) /\ file.wave[p] \subseteq 0 .. MaxTime
      /\ MaxTime \in Nat
      /\ NThread \in Nat \ {0} /\ F \in Nat
      /\ StartCycle \in Nat /\ EndCycle \in Nat /\ Period \in Nat \ {0}
      /\ StartCycle * Period = intervals[round][1] /\ EndCycle * Period = intervals[round][2]
      /\ intervals[round][2] \in Nat
  BY FileFacts, RangeFacts, CycleFacts DEF KernelReady, IntervalsFollow
<1>2. NThread - 1 \in Nat /\ EndTime(NThread - 1) \in Nat
  <2>1. NThread - 1 \in Nat
    BY <1>1
  <2> QED BY <2>1, TimeFacts
<1>3. EndTime(NThread - 1) <= u
  <2> SUFFICES ASSUME u < EndTime(NThread - 1) PROVE FALSE
    BY <1>2
  <2> QED BY <1>1, ThreadOf
<1>4. F < EndCycle
  <2> SUFFICES ASSUME F >= EndCycle PROVE FALSE
    BY <1>1
  <2>1. EndCycle * Period < EndTime(NThread - 1)
    BY ReachFacts
  <2> QED BY <1>1, <1>2, <1>3, <2>1
<1>5. /\ EndTime(NThread - 1) = F * Period /\ Basis = "event" /\ F * Period \in Nat
      /\ \A p \in Pins : \A e \in dEvents[p] : e < F * Period
  BY <1>1, <1>4, RangeFacts, ReachFacts, MulSucc
<1> HIDE DEF F
<1>6. F * Period <= (u \div Period) * Period /\ (u \div Period) * Period \in Nat
  <2> DEFINE q == u \div Period
  <2>1. q \in Nat /\ u % Period \in 0 .. Period - 1 /\ u = Period * q + (u % Period)
    BY <1>1, DivMod
  <2> HIDE DEF q
  <2>2. q * Period \in Nat /\ (q + 1) * Period = q * Period + Period /\ Period * q = q * Period
    BY <1>1, <2>1, MulSucc
  <2>3. u < (q + 1) * Period
    <3>1. u % Period \in Nat /\ u % Period < Period
      BY <1>1, <2>1
    <3> QED BY <1>1, <2>1, <2>2, <3>1
  <2>4. F <= q
    <3> SUFFICES ASSUME q + 1 <= F PROVE FALSE
      BY <1>1, <2>1
    <3>1. (q + 1) * Period <= F * Period
      BY <1>1, <2>1, MulLeq
    <3> QED BY <1>1, <1>3, <1>5, <2>2, <2>3, <3>1
  <2>5. F * Period <= q * Period
    BY <1>1, <2>1, <2>4, MulLeq
  <2> QED BY <2>2, <2>5 DEF q
<1>7. ASSUME NEW p \in Pins,
             NEW e \in (u \div Period) * Period .. intervals[round][2] - 1, e \in file.wave[p]
      PROVE  FALSE
  <2>1. e \in Nat /\ F * Period <= e /\ e < intervals[round][2]
    BY <1>1, <1>5, <1>6, <1>7
  <2>2. e \in UpTo(p, round)
    <3>1. round > 0
      BY <1>1 DEF Rounds
    <3> QED BY <1>7, <2>1, <3>1 DEF UpTo
  <2>3. Min(dEvents[p]) \in dEvents[p] /\ Min(dEvents[p]) \in Nat
    <3>1. Min(dEvents[p]) \in dEvents[p] /\ dEvents[p] \subseteq UpTo(p, round)
      BY <1>1, SliceFacts
    <3> QED BY <1>1, <3>1 DEF UpTo
  <2>4. Min(dEvents[p]) <= e
    BY <1>5, <2>1, <2>3
  <2>5. e \in dEvents[p]
    BY <1>1, <2>2, <2>4, SliceFacts
  <2> QED BY <1>5, <2>1, <2>5
<1>8. IdleTail(u)
  BY <1>1, <1>7 DEF IdleTail
<1> QED BY <1>5, <1>8 DEF Idle

(* Within the round's interval a thread charges leakage from the states    *)
(* the pins have.                                                          *)
LEMMA LeakRight ==
  ASSUME KernelReady, NEW t \in Nat, NEW u \in Nat, Covers(t, u), u < intervals[round][2],
         NEW p \in Pins
  PROVE  StateBefore(p, t, u + 1) = LastEventBefore(p, u + 1)
<1>1. /\ FileRead /\ IntervalsFollow /\ CutsOnLines /\ round \in Rounds
      /\ dEvents[p] = SliceOf(p, round) /\ file.wave[p] \subseteq 0 .. MaxTime
      /\ StartTime(t) \in Nat /\ EndTime(t) \in Nat /\ StartTime(0) \in Nat
      /\ StartTime(0) <= StartTime(t) /\ StartTime(0) = intervals[round][1]
      /\ intervals[round][2] \in Nat
  <2>1. /\ FileRead /\ IntervalsFollow /\ CutsOnLines /\ round \in Rounds
        /\ dEvents[p] = SliceOf(p, round)
    BY DEF KernelReady
  <2>2. file.wave[p] \subseteq 0 .. MaxTime /\ intervals[round][2] \in Nat
    BY <2>1, FileFacts DEF IntervalsFollow
  <2>3. StartTime(t) \in Nat /\ EndTime(t) \in Nat
    BY TimeFacts
  <2>4. StartTime(0) \in Nat /\ StartTime(0) <= StartTime(t) /\ StartTime(0) = StartCycle * Period
    BY TimeFacts
  <2> QED BY <2>1, <2>2, <2>3, <2>4, CycleFacts
<1>2. StartTime(t) <= u /\ u < EndTime(t)
  BY DEF Covers
<1>3. Min(dEvents[p]) <= u /\ Min(dEvents[p]) \in Nat
  <2>1. Min(dEvents[p]) = 0 \/ Min(dEvents[p]) \in UpTo(p, round - 1)
    BY <1>1, SliceFacts
  <2>2. CASE Min(dEvents[p]) = 0
    BY <2>2
  <2>3. CASE Min(dEvents[p]) # 0
    <3>1. round # 1
      BY <1>1, <2>1, <2>3, UpToFacts
    <3>2. round - 1 \in Rounds /\ (round - 1) + 1 = round
      BY <1>1, <3>1, RoundBefore
    <3>3. /\ intervals[round - 1][2] = intervals[round][1]
          /\ intervals[round - 1][2] \in Nat
      BY <1>1, <3>2 DEF IntervalsFollow
    <3>4. Min(dEvents[p]) \in Nat /\ Min(dEvents[p]) <= intervals[round - 1][2]
      BY <1>1, <2>1, <2>3, <3>2, UpToFacts
    <3> QED BY <1>1, <1>2, <3>3, <3>4
  <2> QED BY <2>2, <2>3
<1>4. \A y \in file.wave[p] : y < u + 1 => y \in UpTo(p, round)
  <2> TAKE y \in file.wave[p]
  <2>1. y \in Nat /\ round > 0
    BY <1>1 DEF Rounds
  <2>2. y < u + 1 => y < intervals[round][2]
    BY <1>1, <2>1
  <2> QED BY <2>1, <2>2 DEF UpTo
<1> DEFINE x == u + 1
<1>5. x \in Nat /\ StartTime(t) <= x /\ x <= EndTime(t) /\ Min(dEvents[p]) < x
  BY <1>1, <1>2, <1>3
<1>6. \A y \in file.wave[p] : y < x => y \in UpTo(p, round)
  BY <1>4
<1> HIDE DEF x
<1>7. StateBefore(p, t, x) = LastEventBefore(p, x)
  BY <1>5, <1>6, StateRight
<1> QED BY <1>7 DEF x

(* What a thread that runs adds to the leakage of a unit.                  *)
LEMMA ChargedLeak ==
  ASSUME KernelReady, NEW t \in Nat, Runs(t), NEW u \in 0 .. MaxTime - 1,
         tile.leak[u] \in Nat, tile.right[u] \in Nat
  PROVE  /\ Charged(t).leak[u] = tile.leak[u] + (IF Covers(t, u) THEN 1 ELSE 0)
         /\ Charged(t).right[u] \in Nat /\ Charged(t).right[u] >= tile.right[u]
         /\ Covers(t, u) /\ u < intervals[round][2] => Charged(t).right[u] >= 1
<1>1. StartTime(t) \in Nat /\ EndTime(t) \in Nat /\ MaxTime \in Nat
  BY TimeFacts, FileFacts DEF KernelReady
<1>2. u \in LeakageTimes(t) <=> Covers(t, u)
  BY <1>1 DEF LeakageTimes, Covers
<1>3. Charged(t).leak[u] = tile.leak[u] + (IF u \in LeakageTimes(t) THEN 1 ELSE 0)
  BY DEF Charged
<1> DEFINE right == \A p \in Pins : StateBefore(p, t, u + 1) = LastEventBefore(p, u + 1)
<1>4. Charged(t).right[u] = tile.right[u] + (IF u \in LeakageTimes(t) /\ right THEN 1 ELSE 0)
  BY DEF Charged
<1>5. Covers(t, u) /\ u < intervals[round][2] => right
  BY <1>1, LeakRight
<1> HIDE DEF right
<1>6. Charged(t).leak[u] = tile.leak[u] + (IF Covers(t, u) THEN 1 ELSE 0)
  BY <1>2, <1>3
<1>7. /\ Charged(t).right[u] \in Nat /\ Charged(t).right[u] >= tile.right[u]
      /\ Covers(t, u) /\ u < intervals[round][2] => Charged(t).right[u] >= 1
  BY <1>2, <1>4, <1>5
<1> QED BY <1>6, <1>7

(* The unit is in what interval i spills over its end.                     *)
Spills(i, u) ==
  \E n \in PerThread : intervals[i][2] <= u /\ u < intervals[i][2] + Slack(n)

(* What is charged of each unit's leakage, in the tiles and in the result. *)
LeakInv ==
  /\ EndReached
  /\ \A u \in 0 .. MaxTime - 1 :
       /\ tile.leak[u] \in Nat /\ total.leak[u] \in Nat
       /\ tile.right[u] \in Nat /\ total.right[u] \in Nat
       /\ pc \in {"copyWaveform", "copyGate", "run"} => tile.leak[u] = 0
       /\ pc = "sync" => \A n : n = NThread =>
            /\ tile.leak[u] = IF \E t \in (0 .. n - 1) \ todo : Covers(t, u) THEN 1 ELSE 0
            /\ \A t \in (0 .. n - 1) \ todo : \A i :
                 i = round /\ Covers(t, u) /\ u < intervals[i][2] => tile.right[u] >= 1
       /\ pc \in {"join", "record"} => \A i : i = round =>
            /\ tile.leak[u] <= 1
            /\ tile.leak[u] >= 1 => intervals[i][1] <= u /\ (u < intervals[i][2] \/ Spills(i, u))
            /\ intervals[i][1] <= u /\ u < intervals[i][2] => tile.right[u] >= 1 \/ Idle(u)
       /\ pc # "failed" => \A i : i = Recorded =>
            /\ total.leak[u] >= 1 =>
                 i > 0 /\ (u < intervals[i][2] \/ \E j \in 1 .. i : Spills(j, u))
            /\ total.leak[u] > 1 => \E j \in 1 .. Len(intervals) - 1 : Spills(j, u)
            /\ i > 0 /\ u < intervals[i][2] => total.right[u] >= 1 \/ Idle(u)

(* Where the ranges may spill and be idle is the same when the waveforms   *)
(* and the intervals are.                                                  *)
LEMMA SpillsStay ==
  ASSUME file' = file, intervals' = intervals
  PROVE  /\ EndReached' = EndReached /\ MaxTime' = MaxTime
         /\ \A u : Idle(u)' = Idle(u)
         /\ \A i, u : Spills(i, u)' = Spills(i, u)
<1>1. MaxTime' = MaxTime /\ Basis' = Basis /\ Rounds' = Rounds
  BY DEF MaxTime, Basis, Rounds
<1>2. EndReached' = EndReached
  BY <1>1 DEF EndReached
<1>3. \A u : IdleTail(u)' = IdleTail(u)
  BY <1>1 DEF IdleTail
<1>4. \A u : Idle(u)' = Idle(u)
  BY <1>1, <1>3 DEF Idle
<1>5. \A i, u : Spills(i, u)' = Spills(i, u)
  BY DEF Spills, Slack
<1> QED BY <1>1, <1>2, <1>4, <1>5

(* The first state: no leakage is charged.                                 *)
LEMMA InitLeak == Init => LeakInv
<1> SUFFICES ASSUME Init PROVE LeakInv
  OBVIOUS
<1>1. pc = "slice" /\ round = 1 /\ tile = Nothing /\ total = Nothing /\ EndReached
  BY InitFollow DEF Init
<1>2. Recorded = 0
  BY <1>1 DEF Recorded
<1>3. \A u \in 0 .. MaxTime - 1 :
        tile.leak[u] = 0 /\ total.leak[u] = 0 /\ tile.right[u] = 0 /\ total.right[u] = 0
  BY <1>1 DEF Nothing
<1> QED BY <1>1, <1>2, <1>3 DEF LeakInv

(* Up to the launch nothing of the round is charged.                       *)
LEMMA PrepareLeak ==
  ASSUME DataInv, LeakInv,
         \/ SliceTime \/ InitGateData \/ ScheduleKernel \/ CopyWaveformToDeviceSide
         \/ CopyGateDataToDeviceSide
  PROVE  LeakInv'
<1>1. CASE SliceTime
  <2>1. /\ pc = "slice" /\ pc' \in {"failed", "init"} /\ file' = file /\ round' = round
        /\ tile' = tile /\ total' = total
    BY <1>1 DEF SliceTime
  <2>2. round = 1 /\ Recorded = 0 /\ Recorded' = 0 /\ MaxTime' = MaxTime
    BY <2>1 DEF DataInv, CallsInOrder, Recorded, MaxTime
  <2>3. EndReached'
    BY <1>1, SliceTimeFollow DEF DataInv, LeakInv
  <2>4. \A u \in 0 .. MaxTime - 1 : total.leak[u] \in Nat /\ ~(total.leak[u] >= 1) /\ ~(total.leak[u] > 1)
    <3> TAKE u \in 0 .. MaxTime - 1
    <3>1. total.leak[u] \in Nat /\ ~(total.leak[u] >= 1)
      BY <2>1, <2>2 DEF LeakInv
    <3> QED BY <3>1
  <2> QED BY <2>1, <2>2, <2>3, <2>4 DEF LeakInv
<1>2. CASE \/ InitGateData \/ ScheduleKernel \/ CopyWaveformToDeviceSide
           \/ CopyGateDataToDeviceSide
  <2>1. /\ pc \in {"init", "schedule", "copyWaveform", "copyGate"}
        /\ pc' \in {"failed", "schedule", "copyWaveform", "copyGate", "run"}
        /\ file' = file /\ round' = round /\ intervals' = intervals /\ total' = total
        /\ tile' = tile \/ tile' = Nothing
        /\ pc' \in {"copyWaveform", "copyGate", "run"} =>
             tile' = Nothing \/ (tile' = tile /\ pc \in {"copyWaveform", "copyGate"})
    BY <1>2 DEF InitGateData, ScheduleKernel, CopyWaveformToDeviceSide, CopyGateDataToDeviceSide
  <2>2. /\ EndReached' = EndReached /\ MaxTime' = MaxTime
        /\ Recorded' = Recorded
        /\ \A u : Idle(u)' = Idle(u)
        /\ \A i, u : Spills(i, u)' = Spills(i, u)
    BY <2>1, SpillsStay DEF Recorded
  <2>3. ASSUME NEW u \in 0 .. MaxTime - 1
        PROVE  /\ tile'.leak[u] \in Nat /\ tile'.right[u] \in Nat
               /\ pc' \in {"copyWaveform", "copyGate", "run"} => tile'.leak[u] = 0
    <3>1. tile' = Nothing => tile'.leak[u] = 0 /\ tile'.right[u] = 0
      BY DEF Nothing
    <3>2. /\ tile.leak[u] \in Nat /\ tile.right[u] \in Nat
          /\ pc \in {"copyWaveform", "copyGate"} => tile.leak[u] = 0
      BY DEF LeakInv
    <3> QED BY <2>1, <3>1, <3>2
  <2> QED BY <2>1, <2>2, <2>3 DEF LeakInv
<1> QED BY <1>1, <1>2

(* The launch, the thread that fetches ahead, and the end of the kernel.   *)
LEMMA LaunchLeak ==
  ASSUME DataInv, CutsInv, TogglesInv, LeakInv,
         RunCudaPowerAnalysis \/ Prefetch \/ Synchronize \/ RenewGateWaveform
  PROVE  LeakInv'
<1>1. /\ file' = file /\ round' = round /\ intervals' = intervals /\ total' = total /\ tile' = tile
      /\ perThread' = perThread /\ pc # "failed" /\ pc # "done" /\ pc' # "done"
      /\ dEvents' = dEvents
  BY DEF RunCudaPowerAnalysis, Prefetch, Synchronize, RenewGateWaveform, data, device, DataInv,
         CallsInOrder
<1>2. /\ EndReached' = EndReached /\ MaxTime' = MaxTime
      /\ Recorded' = Recorded
      /\ \A u : Idle(u)' = Idle(u)
      /\ \A i, u : Spills(i, u)' = Spills(i, u)
  BY <1>1, SpillsStay DEF Recorded
<1>3. CASE RunCudaPowerAnalysis
  <2>1. pc = "run" /\ pc' = "sync" /\ todo' = 0 .. NThread - 1 /\ ranges' = ranges
    BY <1>3 DEF RunCudaPowerAnalysis, data
  <2>2. NThread' = NThread
    BY <1>1, <2>1, RangesStay DEF kernel
  <2>3. (0 .. NThread' - 1) \ todo' = {}
    BY <2>1, <2>2
  <2>4. ASSUME NEW u \in 0 .. MaxTime - 1
        PROVE  tile'.leak[u] = IF \E t \in (0 .. NThread' - 1) \ todo' : Covers(t, u)' THEN 1 ELSE 0
    <3>1. tile.leak[u] = 0
      BY <2>1 DEF LeakInv
    <3>2. ~\E t \in (0 .. NThread' - 1) \ todo' : Covers(t, u)'
      BY <2>3
    <3> QED BY <1>1, <3>1, <3>2
  <2> QED BY <1>1, <1>2, <2>1, <2>3, <2>4 DEF LeakInv
<1>4. CASE Prefetch
  <2>1. pc' \in {pc, "failed"} /\ todo' = todo /\ ranges' = ranges
    BY <1>4 DEF Prefetch
  <2>2. NThread' = NThread /\ \A t, u : Covers(t, u)' = Covers(t, u)
    BY <1>1, <2>1, RangesStay DEF kernel
  <2>3. CASE pc' = "failed"
    BY <1>1, <1>2, <2>3 DEF LeakInv
  <2>4. CASE pc' # "failed"
    <3>1. ASSUME pc' = "sync", NEW u \in 0 .. MaxTime - 1
          PROVE  /\ tile'.leak[u] =
                      IF \E t \in (0 .. NThread' - 1) \ todo' : Covers(t, u)' THEN 1 ELSE 0
                 /\ \A t \in (0 .. NThread' - 1) \ todo' :
                      Covers(t, u)' /\ u < intervals'[round'][2] => tile'.right[u] >= 1
      <4>1. /\ tile.leak[u] = IF \E t \in (0 .. NThread - 1) \ todo : Covers(t, u) THEN 1 ELSE 0
            /\ \A t \in (0 .. NThread - 1) \ todo :
                 Covers(t, u) /\ u < intervals[round][2] => tile.right[u] >= 1
        BY <2>1, <2>4, <3>1 DEF LeakInv
      <4>2. (\E t \in (0 .. NThread' - 1) \ todo' : Covers(t, u)')
              <=> \E t \in (0 .. NThread - 1) \ todo : Covers(t, u)
        BY <2>1, <2>2
      <4> QED BY <1>1, <2>1, <2>2, <4>1, <4>2
    <3> QED BY <1>1, <1>2, <2>1, <2>4, <3>1 DEF LeakInv
  <2> QED BY <2>3, <2>4
<1>5. CASE Synchronize
  <2>1. pc = "sync" /\ todo = {} /\ pc' \in {"join", "record"}
    BY <1>5 DEF Synchronize
  <2>2. KernelReady
    BY <2>1, ReadyInSync
  <2>3. /\ StartCycle * Period = intervals[round][1] /\ EndCycle * Period = intervals[round][2]
        /\ perThread \in PerThread
    BY <2>2, CycleFacts DEF KernelReady
  <2>4. ASSUME NEW u \in 0 .. MaxTime - 1
        PROVE  /\ tile.leak[u] <= 1
               /\ tile.leak[u] >= 1 =>
                    intervals[round][1] <= u /\ (u < intervals[round][2] \/ Spills(round, u))
               /\ intervals[round][1] <= u /\ u < intervals[round][2] => tile.right[u] >= 1 \/ Idle(u)
    <3>1. /\ tile.leak[u] = IF \E t \in 0 .. NThread - 1 : Covers(t, u) THEN 1 ELSE 0
          /\ \A t \in 0 .. NThread - 1 :
               Covers(t, u) /\ u < intervals[round][2] => tile.right[u] >= 1
      <4>1. (0 .. NThread - 1) \ todo = 0 .. NThread - 1
        BY <2>1
      <4> QED BY <2>1, <4>1 DEF LeakInv
    <3>2. u \in Nat /\ intervals[round][2] \in Nat
      BY <2>2 DEF KernelReady, IntervalsFollow
    <3>3. ASSUME NEW t \in 0 .. NThread - 1, Covers(t, u)
          PROVE  intervals[round][1] <= u /\ (u < intervals[round][2] \/ Spills(round, u))
      <4>1. intervals[round][1] <= u /\ u < intervals[round][2] + Slack(perThread)
        BY <2>2, <2>3, <3>2, <3>3, ReachFacts
      <4> QED BY <2>3, <3>2, <4>1 DEF Spills
    <3>4. intervals[round][1] <= u /\ u < intervals[round][2] =>
            (\E t \in 0 .. NThread - 1 : Covers(t, u)) \/ Idle(u)
      BY <2>2, <3>2, UncoveredIdle
    <3>5. tile.leak[u] >= 1 => \E t \in 0 .. NThread - 1 : Covers(t, u)
      BY <3>1
    <3>6. tile.leak[u] <= 1
      BY <3>1
    <3> QED BY <3>1, <3>3, <3>4, <3>5, <3>6
  <2> QED BY <1>1, <1>2, <2>1, <2>4 DEF LeakInv
<1>6. CASE RenewGateWaveform
  <2>1. pc = "join" /\ pc' = "record"
    BY <1>6 DEF RenewGateWaveform
  <2> QED BY <1>1, <1>2, <2>1 DEF LeakInv
<1> QED BY <1>3, <1>4, <1>5, <1>6

(* A thread of the kernel charges the units of its range.                  *)
LEMMA ThreadLeak ==
  ASSUME DataInv, CutsInv, TogglesInv, LeakInv, NEW t \in todo, KernelThread(t)
  PROVE  LeakInv'
<1>1. /\ pc = "sync" /\ pc' = pc /\ file' = file /\ round' = round /\ intervals' = intervals
      /\ total' = total /\ perThread' = perThread /\ dEvents' = dEvents /\ ranges' = ranges
      /\ todo' = todo \ {t}
      /\ tile' = IF FirstCycle(t) = FirstCycle(t + 1) THEN tile ELSE Charged(t)
  BY DEF KernelThread, DataInv, CallsInOrder, data, device
<1>2. KernelReady
  BY <1>1, ReadyInSync
<1>3. /\ EndReached' = EndReached /\ MaxTime' = MaxTime /\ Recorded' = Recorded
      /\ \A u : Idle(u)' = Idle(u)
      /\ \A i, u : Spills(i, u)' = Spills(i, u)
  BY <1>1, SpillsStay DEF Recorded
<1>4. NThread' = NThread /\ \A s, u : Covers(s, u)' = Covers(s, u)
  BY <1>1, RangesStay DEF kernel
<1>5. todo \subseteq 0 .. NThread - 1 /\ NThread \in Nat /\ t \in Nat /\ t \in 0 .. NThread - 1
  BY <1>1, <1>2, RangeFacts DEF TogglesInv
<1>6. (0 .. NThread - 1) \ todo' = ((0 .. NThread - 1) \ todo) \cup {t}
  BY <1>1, <1>5
<1>7. ASSUME NEW u \in 0 .. MaxTime - 1
      PROVE  /\ tile'.leak[u] = IF \E s \in (0 .. NThread - 1) \ todo' : Covers(s, u) THEN 1 ELSE 0
             /\ \A s \in (0 .. NThread - 1) \ todo' :
                  Covers(s, u) /\ u < intervals[round][2] => tile'.right[u] >= 1
             /\ tile'.right[u] \in Nat
  <2>1. /\ tile.leak[u] = IF \E s \in (0 .. NThread - 1) \ todo : Covers(s, u) THEN 1 ELSE 0
        /\ \A s \in (0 .. NThread - 1) \ todo :
             Covers(s, u) /\ u < intervals[round][2] => tile.right[u] >= 1
        /\ tile.right[u] \in Nat /\ tile.leak[u] \in Nat
    BY <1>1 DEF LeakInv
  <2>2. CASE ~Runs(t)
    <3>1. tile' = tile /\ ~Covers(t, u)
      BY <1>1, <2>2 DEF Runs, Covers
    <3> QED BY <1>6, <2>1, <3>1
  <2>3. CASE Runs(t)
    <3>1. tile' = Charged(t)
      BY <1>1, <2>3 DEF Runs
    <3>2. /\ tile'.leak[u] = tile.leak[u] + (IF Covers(t, u) THEN 1 ELSE 0)
          /\ tile'.right[u] \in Nat /\ tile'.right[u] >= tile.right[u]
          /\ Covers(t, u) /\ u < intervals[round][2] => tile'.right[u] >= 1
      BY <1>2, <1>5, <2>1, <2>3, <3>1, ChargedLeak
    <3>3. Covers(t, u) => ~\E s \in (0 .. NThread - 1) \ todo : Covers(s, u)
      <4> SUFFICES ASSUME Covers(t, u), NEW s \in (0 .. NThread - 1) \ todo, Covers(s, u) PROVE FALSE
        OBVIOUS
      <4>1. u \in Nat /\ s \in 0 .. NThread - 1
        OBVIOUS
      <4>2. s = t
        BY <1>2, <1>5, <4>1, OneThread
      <4> QED BY <4>2
    <3>4. tile'.leak[u] = IF \E s \in (0 .. NThread - 1) \ todo' : Covers(s, u) THEN 1 ELSE 0
      <4>1. CASE Covers(t, u)
        BY <1>6, <2>1, <3>2, <3>3, <4>1
      <4>2. CASE ~Covers(t, u)
        BY <1>6, <2>1, <3>2, <4>2
      <4> QED BY <4>1, <4>2
    <3>5. ASSUME NEW s \in (0 .. NThread - 1) \ todo', Covers(s, u), u < intervals[round][2]
          PROVE  tile'.right[u] >= 1
      BY <1>6, <2>1, <3>2, <3>5
    <3> QED BY <3>2, <3>4, <3>5
  <2> QED BY <2>2, <2>3
<1>8. ASSUME NEW u \in 0 .. MaxTime - 1
      PROVE  /\ tile'.leak[u] =
                  IF \E s \in (0 .. NThread' - 1) \ todo' : Covers(s, u)' THEN 1 ELSE 0
             /\ \A s \in (0 .. NThread' - 1) \ todo' : \A i :
                  i = round' /\ Covers(s, u)' /\ u < intervals'[i][2] => tile'.right[u] >= 1
             /\ tile'.leak[u] \in Nat /\ tile'.right[u] \in Nat
  <2>1. (\E s \in (0 .. NThread' - 1) \ todo' : Covers(s, u)')
          <=> \E s \in (0 .. NThread - 1) \ todo' : Covers(s, u)
    BY <1>4
  <2>2. tile'.leak[u] \in Nat
    BY <1>7
  <2> QED BY <1>1, <1>4, <1>7, <2>1, <2>2
<1> QED BY <1>1, <1>3, <1>8 DEF LeakInv

(* The round's charges are added to those of the rounds before.            *)
LEMMA RecordLeak ==
  ASSUME DataInv, CutsInv, LeakInv, MergeAndRecordResult
  PROVE  LeakInv'
<1>1. /\ pc = "record" /\ pc' = (IF round < Len(intervals) THEN "schedule" ELSE "done")
      /\ file' = file /\ intervals' = intervals /\ tile' = tile /\ round' = NextRound
      /\ \A u \in 0 .. MaxTime - 1 : /\ total'.leak[u] = total.leak[u] + tile.leak[u]
                                     /\ total'.right[u] = total.right[u] + tile.right[u]
  BY DEF MergeAndRecordResult
<1>2. /\ FileRead /\ IntervalsFollow /\ CutsOnLines /\ round \in Rounds /\ Len(intervals) \in Nat
      /\ round \in Nat /\ round > 0 /\ round <= Len(intervals)
      /\ intervals[round][1] \in Nat /\ intervals[round][2] \in Nat
      /\ intervals[round][1] < intervals[round][2]
  BY <1>1 DEF DataInv, TypeOK, CutsInv, IntervalsFollow, CutsOnLines, Rounds
<1>3. Recorded = round - 1 /\ Recorded' = round /\ pc' \in {"schedule", "done"}
  BY <1>1, <1>2 DEF Recorded, NextRound
<1>4. /\ EndReached' = EndReached /\ MaxTime' = MaxTime
      /\ \A u : Idle(u)' = Idle(u)
      /\ \A i, u : Spills(i, u)' = Spills(i, u)
  BY <1>1, SpillsStay
<1>5. /\ round = 1 => intervals[round][1] = 0
      /\ round # 1 => /\ round - 1 \in Rounds /\ round - 1 > 0
                      /\ intervals[round - 1][2] = intervals[round][1]
  <2>1. round # 1 => round - 1 \in Rounds /\ (round - 1) + 1 = round /\ round - 1 > 0
    BY <1>2, RoundBefore
  <2>2. round = 1 => intervals[round][1] = 0
    BY <1>2 DEF IntervalsFollow
  <2>3. round # 1 => intervals[round - 1][2] = intervals[round][1]
    BY <1>2, <2>1 DEF IntervalsFollow
  <2> QED BY <2>1, <2>2, <2>3
<1>6. ASSUME NEW u \in 0 .. MaxTime - 1
      PROVE  /\ total'.leak[u] \in Nat /\ total'.right[u] \in Nat
             /\ tile.leak[u] \in Nat /\ tile.right[u] \in Nat
             /\ total'.leak[u] >= 1 => u < intervals[round][2] \/ \E j \in 1 .. round : Spills(j, u)
             /\ total'.leak[u] > 1 => \E j \in 1 .. Len(intervals) - 1 : Spills(j, u)
             /\ u < intervals[round][2] => total'.right[u] >= 1 \/ Idle(u)
  <2>1. /\ tile.leak[u] \in Nat /\ total.leak[u] \in Nat
        /\ tile.right[u] \in Nat /\ total.right[u] \in Nat
        /\ tile.leak[u] <= 1
        /\ tile.leak[u] >= 1 =>
             intervals[round][1] <= u /\ (u < intervals[round][2] \/ Spills(round, u))
        /\ intervals[round][1] <= u /\ u < intervals[round][2] => tile.right[u] >= 1 \/ Idle(u)
    BY <1>1 DEF LeakInv
  <2>2. /\ total.leak[u] >= 1 => /\ round - 1 > 0
                                 /\ \/ u < intervals[round - 1][2]
                                    \/ \E j \in 1 .. round - 1 : Spills(j, u)
        /\ total.leak[u] > 1 => \E j \in 1 .. Len(intervals) - 1 : Spills(j, u)
        /\ round - 1 > 0 /\ u < intervals[round - 1][2] => total.right[u] >= 1 \/ Idle(u)
    BY <1>1, <1>3 DEF LeakInv
  <2>3. /\ total'.leak[u] = total.leak[u] + tile.leak[u]
        /\ total'.right[u] = total.right[u] + tile.right[u]
    BY <1>1
  <2>4. ASSUME total'.leak[u] >= 1
        PROVE  u < intervals[round][2] \/ \E j \in 1 .. round : Spills(j, u)
    <3>1. CASE tile.leak[u] >= 1
      <4>1. round \in 1 .. round
        BY <1>2
      <4> QED BY <2>1, <3>1, <4>1
    <3>2. CASE ~(tile.leak[u] >= 1)
      <4>1. total.leak[u] >= 1
        BY <2>1, <2>3, <2>4, <3>2
      <4>2. CASE u < intervals[round - 1][2]
        <5>1. round # 1 /\ u \in Nat
          BY <1>2, <2>2, <4>1
        <5> QED BY <1>2, <1>5, <4>2, <5>1
      <4>3. CASE \E j \in 1 .. round - 1 : Spills(j, u)
        <5>1. \A j \in 1 .. round - 1 : j \in 1 .. round
          BY <1>2
        <5> QED BY <4>3, <5>1
      <4> QED BY <2>2, <4>1, <4>2, <4>3
    <3> QED BY <3>1, <3>2
  <2>5. ASSUME total'.leak[u] > 1
        PROVE  \E j \in 1 .. Len(intervals) - 1 : Spills(j, u)
    <3>1. CASE total.leak[u] > 1
      BY <2>2, <3>1
    <3>2. CASE ~(total.leak[u] > 1)
      <4>1. total.leak[u] >= 1 /\ tile.leak[u] >= 1
        BY <2>1, <2>3, <2>5, <3>2
      <4>2. round # 1 /\ u \in Nat /\ intervals[round][1] <= u
        BY <1>2, <2>1, <2>2, <4>1
      <4>3. ~(u < intervals[round - 1][2])
        BY <1>2, <1>5, <4>2
      <4>4. PICK j \in 1 .. round - 1 : Spills(j, u)
        BY <2>2, <4>1, <4>3
      <4>5. j \in 1 .. Len(intervals) - 1
        BY <1>2
      <4> QED BY <4>4, <4>5
    <3> QED BY <3>1, <3>2
  <2>6. ASSUME u < intervals[round][2]
        PROVE  total'.right[u] >= 1 \/ Idle(u)
    <3>1. u \in Nat
      OBVIOUS
    <3>2. CASE intervals[round][1] <= u
      BY <2>1, <2>3, <2>6, <3>2
    <3>3. CASE ~(intervals[round][1] <= u)
      <4>1. round # 1 /\ round - 1 > 0 /\ u < intervals[round - 1][2]
        BY <1>2, <1>5, <3>1, <3>3
      <4>2. total.right[u] >= 1 \/ Idle(u)
        BY <2>2, <4>1
      <4>3. total.right[u] >= 1 => total'.right[u] >= 1
        BY <2>1, <2>3
      <4> QED BY <4>2, <4>3
    <3> QED BY <3>2, <3>3
  <2>7. total'.leak[u] \in Nat /\ total'.right[u] \in Nat
    BY <2>1, <2>3
  <2>8. /\ tile.leak[u] \in Nat /\ tile.right[u] \in Nat
    BY <2>1
  <2> QED BY <2>4, <2>5, <2>6, <2>7, <2>8
<1>7. ASSUME NEW u \in 0 .. MaxTime - 1
      PROVE  /\ total'.leak[u] >= 1 =>
                  u < intervals'[round][2] \/ \E j \in 1 .. round : Spills(j, u)'
             /\ total'.leak[u] > 1 => \E j \in 1 .. Len(intervals') - 1 : Spills(j, u)'
             /\ u < intervals'[round][2] => total'.right[u] >= 1 \/ Idle(u)'
  BY <1>1, <1>4, <1>6
<1> QED BY <1>1, <1>2, <1>3, <1>4, <1>6, <1>7 DEF LeakInv

(* Every step keeps the account of the leakage.                            *)
LEMMA NextLeak ==
  ASSUME DataInv, CutsInv, TogglesInv, LeakInv, [Next]_vars
  PROVE  LeakInv'
<1>1. CASE \/ SliceTime \/ InitGateData \/ ScheduleKernel \/ CopyWaveformToDeviceSide
           \/ CopyGateDataToDeviceSide
  BY <1>1, PrepareLeak
<1>2. CASE RunCudaPowerAnalysis \/ Prefetch \/ Synchronize \/ RenewGateWaveform
  BY <1>2, LaunchLeak
<1>3. CASE \E t \in todo : KernelThread(t)
  BY <1>3, ThreadLeak
<1>4. CASE MergeAndRecordResult
  BY <1>4, RecordLeak
<1>5. CASE UNCHANGED vars
  <2>1. /\ pc' = pc /\ file' = file /\ round' = round /\ intervals' = intervals /\ tile' = tile
        /\ total' = total /\ perThread' = perThread /\ dEvents' = dEvents /\ ranges' = ranges
        /\ todo' = todo
    BY <1>5 DEF vars, data, device
  <2>2. /\ EndReached' = EndReached /\ MaxTime' = MaxTime /\ Recorded' = Recorded
        /\ \A u : Idle(u)' = Idle(u)
        /\ \A i, u : Spills(i, u)' = Spills(i, u)
    BY <2>1, SpillsStay DEF Recorded
  <2>3. NThread' = NThread /\ \A t, u : Covers(t, u)' = Covers(t, u)
    BY <2>1, RangesStay DEF kernel
  <2>4. ASSUME pc = "sync", NEW u \in 0 .. MaxTime - 1
        PROVE  /\ tile'.leak[u] =
                    IF \E t \in (0 .. NThread' - 1) \ todo' : Covers(t, u)' THEN 1 ELSE 0
               /\ \A t \in (0 .. NThread' - 1) \ todo' :
                    Covers(t, u)' /\ u < intervals'[round'][2] => tile'.right[u] >= 1
    <3>1. /\ tile.leak[u] = IF \E t \in (0 .. NThread - 1) \ todo : Covers(t, u) THEN 1 ELSE 0
          /\ \A t \in (0 .. NThread - 1) \ todo :
               Covers(t, u) /\ u < intervals[round][2] => tile.right[u] >= 1
      BY <2>4 DEF LeakInv
    <3>2. (\E t \in (0 .. NThread' - 1) \ todo' : Covers(t, u)')
            <=> \E t \in (0 .. NThread - 1) \ todo : Covers(t, u)
      BY <2>1, <2>3
    <3> QED BY <2>1, <2>3, <3>1, <3>2
  <2>5. ASSUME NEW u \in 0 .. MaxTime - 1
        PROVE  /\ tile'.leak[u] \in Nat /\ total'.leak[u] \in Nat
               /\ tile'.right[u] \in Nat /\ total'.right[u] \in Nat
               /\ pc' \in {"copyWaveform", "copyGate", "run"} => tile'.leak[u] = 0
    BY <2>1 DEF LeakInv
  <2>6. ASSUME NEW u \in 0 .. MaxTime - 1, pc' \in {"join", "record"}
        PROVE  /\ tile'.leak[u] <= 1
               /\ tile'.leak[u] >= 1 => intervals'[round'][1] <= u
                                        /\ (u < intervals'[round'][2] \/ Spills(round, u)')
               /\ intervals'[round'][1] <= u /\ u < intervals'[round'][2] =>
                    tile'.right[u] >= 1 \/ Idle(u)'
    BY <2>1, <2>2, <2>6 DEF LeakInv
  <2>7. ASSUME NEW u \in 0 .. MaxTime - 1, pc' # "failed", NEW i, i = Recorded
        PROVE  /\ total'.leak[u] >= 1 =>
                    i > 0 /\ (u < intervals'[i][2] \/ \E j \in 1 .. i : Spills(j, u)')
               /\ total'.leak[u] > 1 => \E j \in 1 .. Len(intervals') - 1 : Spills(j, u)'
               /\ i > 0 /\ u < intervals'[i][2] => total'.right[u] >= 1 \/ Idle(u)'
    BY <2>1, <2>2, <2>7 DEF LeakInv
  <2>8. EndReached'
    BY <2>2 DEF LeakInv
  <2> QED BY <2>1, <2>2, <2>4, <2>5, <2>6, <2>7, <2>8 DEF LeakInv
<1> QED BY <1>1, <1>2, <1>3, <1>4, <1>5 DEF Next, Main

-----------------------------------------------------------------------------
IInv == DataInv /\ CutsInv /\ TogglesInv /\ LeakInv

(* IInv is an invariant of the rounds: where the data of each round is,    *)
(* where the intervals are cut, and what the threads have charged so far.  *)
THEOREM Invariance == Spec => []IInv
<1>1. Init => IInv
  BY InitData, InitCuts, InitToggles, InitLeak DEF IInv
<1>2. IInv /\ [Next]_vars => IInv'
  BY NextData, NextCuts, NextToggles, NextLeak DEF IInv
<1> QED BY <1>1, <1>2, PTL DEF Spec

(* Indices, program counters and slices are in their domains through all   *)
(* the rounds of runCudaTimeBasedPowerAnalysis.                            *)
THEOREM TypeCorrect == Spec => []TypeOK
<1>1. IInv => TypeOK
  BY DEF IInv, DataInv
<1> QED BY <1>1, Invariance, PTL

(* While a kernel runs the device holds a valid gate and the events of its *)
(* own round, whatever the CPU thread has put in the host buffer since     *)
(* (CudaPower.cu:2924-2935).                                               *)
THEOREM KernelReads == Spec => []KernelReadsItsRound
<1>1. IInv => KernelReadsItsRound
  BY DEF IInv, DataInv, RoundsData, KernelReadsItsRound
<1> QED BY <1>1, Invariance, PTL

(* However the file is cut in intervals, the intervals in ranges and the   *)
(* threads interleaved, every event but a first is charged exactly once,   *)
(* as a change from the event before it.                                   *)
THEOREM EachToggleOnce == Spec => []TogglesOnce
<1>1. ASSUME IInv PROVE TogglesOnce
  <2>1. \A p \in Pins : \A e \in file.wave[p] : tile.toggle[p][e] <= 1 /\ total.toggle[p][e] <= 1
    BY <1>1 DEF IInv, TogglesInv
  <2>2. total.stale \cup tile.stale = {}
    BY <1>1 DEF IInv, TogglesInv
  <2>3. ASSUME pc = "done", NEW p \in Pins, NEW e \in file.wave[p]
        PROVE  total.toggle[p][e] = IF e = Min(file.wave[p]) THEN 0 ELSE 1
    <3>1. /\ FileRead /\ IntervalsFollow /\ EndsAfterAll
          /\ round = Len(intervals) /\ Recorded = round
      BY <1>1, <2>3 DEF IInv, DataInv, CutsInv, CallsInOrder, Recorded
    <3>2. round > 0
      BY <3>1 DEF IntervalsFollow
    <3>3. e \in UpTo(p, round)
      BY <3>1, <3>2 DEF EndsAfterAll, UpTo
    <3>4. total.toggle[p][e] = IF e \in UpTo(p, round) /\ e # 0 THEN 1 ELSE 0
      BY <1>1, <2>3, <3>1 DEF IInv, TogglesInv
    <3> QED BY <3>1, <3>3, <3>4, FirstEvent
  <2> QED BY <2>1, <2>2, <2>3 DEF TogglesOnce
<1> QED BY <1>1, Invariance, PTL

(* In the end every time unit's leakage is charged from the states the     *)
(* pins have then, but for the tail of an interval cut by events.          *)
THEOREM AllLeakageCharged == Spec => []LeakageCovered
<1>1. ASSUME IInv PROVE LeakageCovered
  <2> SUFFICES ASSUME pc = "done", NEW u \in 0 .. MaxTime - 1
               PROVE  total.right[u] >= 1 \/ (Basis = "event" /\ IdleTail(u))
    BY DEF LeakageCovered
  <2>1. /\ FileRead /\ IntervalsFollow /\ EndReached
        /\ round = Len(intervals) /\ Recorded = round
    BY <1>1 DEF IInv, DataInv, CallsInOrder, Recorded, LeakInv
  <2>2. /\ round > 0 /\ MaxTime \in Nat /\ MaxTime <= intervals[round][2]
        /\ intervals[round][2] \in Nat
    <3>1. Len(intervals) \in Rounds
      BY <2>1 DEF IntervalsFollow, Rounds
    <3> QED BY <2>1, <3>1, FileFacts DEF IntervalsFollow, EndReached
  <2>3. u < intervals[round][2]
    BY <2>2
  <2> QED BY <1>1, <2>1, <2>2, <2>3 DEF IInv, LeakInv, Idle
<1> QED BY <1>1, Invariance, PTL

(* Leakage is charged twice only past the end of an interval other than    *)
(* the last, in the unit added there or in the cycles of the last range.   *)
THEOREM OverlapAfterCut == Spec => []OverlapOnlyAfterCut
<1>1. ASSUME IInv PROVE OverlapOnlyAfterCut
  <2> SUFFICES ASSUME pc = "done", NEW u \in 0 .. MaxTime - 1, total.leak[u] > 1
               PROVE  \E i \in 1 .. Len(intervals) - 1, n \in PerThread :
                        /\ intervals[i][2] <= u
                        /\ u < intervals[i][2] + (IF n = 1 THEN 1 ELSE (n - 1) * Period)
    BY DEF OverlapOnlyAfterCut
  <2>1. PICK i \in 1 .. Len(intervals) - 1 : Spills(i, u)
    BY <1>1 DEF IInv, LeakInv
  <2> QED BY <2>1 DEF Spills, Slack
<1> QED BY <1>1, Invariance, PTL
=============================================================================
