-------------------------- MODULE FsdbReaderProofs --------------------------
(***************************************************************************)
(* Proofs about FsdbReader, for any number of threads and variables, any   *)
(* file, clock period and event budget.  The inductive invariant follows   *)
(* the protocol: the ready count is the number of jobs past making their   *)
(* variables, the flag is only up once all are, nobody reads before it is, *)
(* a settled job has read its whole range, and what has been merged or     *)
(* sliced is the count of the variables or cycles passed so far.           *)
(***************************************************************************)
EXTENDS FsdbReader, ThreadPoolProofs, NatLemmas

(* Each job is within its own range of variables.                          *)
InRange == \A j \in Jobs : StartVar(j) <= nextVar[j] /\ nextVar[j] <= EndVar(j) + 1

PastMake == {j \in Jobs : jpc[j] # "make"}

ReadyCounted == nReady = Cardinality(PastMake)

(* The flag is up only once every job is ready, and must be up to read.    *)
FlagMeansReady ==
  /\ allReady => PastMake = Jobs
  /\ \A j \in Jobs : jpc[j] = "read" => allReady

(* What job j has made: up to its loop's variable, then its whole range.   *)
MadeTo(j) == IF jpc[j] = "make" THEN nextVar[j] ELSE EndVar(j) + 1

MadeSoFar ==
  \A j \in Jobs : \A v \in Named : StartVar(j) <= v /\ v < MadeTo(j) => v \in made

SettledRead == \A j \in settled : jpc[j] = "read" /\ nextVar[j] = EndVar(j) + 1

(* The changes of cycle c of the variables from a to b - 1.                *)
Among(c, a, b) == {p \in Changes(c) : a <= p[1] /\ p[1] < b}

ReadTo(j) == IF jpc[j] = "read" THEN nextVar[j] ELSE StartVar(j)

CountsSoFar ==
  \A j \in Jobs : \A c \in Cycles :
    counts[j][c] = Cardinality(Among(c, StartVar(j), ReadTo(j)))

MergedSoFar ==
  /\ main \in {"launch", "poll", "sort", "notify"} => merged = 0
  /\ main = "wait" => merged < PoolThreads
  /\ main \in {"destroy", "done"} => merged = PoolThreads
  /\ \A c \in Cycles : total[c] = Cardinality(Among(c, 1, StartVar(merged + 1)))

(* The changes of the cycles from a to b - 1.                              *)
Span(a, b) == UNION {Changes(c) : c \in a .. b - 1}

SlicedSoFar ==
  /\ main \notin {"destroy", "done"} => cycle = 0 /\ startCycle = 0 /\ acc = 0 /\ intervals = <<>>
  /\ main # "done" =>
       /\ acc = Cardinality(Span(startCycle, cycle))
       /\ startCycle * Period = IF intervals = <<>> THEN 0 ELSE intervals[Len(intervals)][2]
       /\ \A i \in DOMAIN intervals :
            /\ intervals[i][1] = IF i = 1 THEN 0 ELSE intervals[i - 1][2]
            /\ intervals[i][1] < intervals[i][2]
            /\ EventsIn(i) >= MaxEvents
            /\ EventsIn(i) - Cardinality(Changes(intervals[i][2] \div Period - 1)) < MaxEvents

JobInv ==
  /\ made \subseteq Named
  /\ nReady \in 0 .. PoolThreads
  /\ allReady \in BOOLEAN
  /\ jpc \in [Jobs -> {"make", "barrier", "blocked", "read"}]
  /\ nextVar \in [Jobs -> 1 .. NVars + 1]
  /\ counts \in [Jobs -> [Cycles -> Nat]]
  /\ changes \in Workloads
  /\ settled \subseteq Jobs
  /\ InRange
  /\ ReadyCounted
  /\ FlagMeansReady
  /\ MadeSoFar
  /\ SettledRead
  /\ CountsSoFar

MainInv ==
  /\ main \in {"launch", "poll", "sort", "notify", "wait", "destroy", "done"}
  /\ sorted \in BOOLEAN
  /\ merged \in 0 .. PoolThreads
  /\ total \in [Cycles -> Nat]
  /\ cycle \in 0 .. NCycle /\ startCycle \in 0 .. cycle /\ acc \in 0 .. MaxEvents - 1
  /\ intervals \in Seq(Nat \X Nat)
  /\ MergedSoFar
  /\ SlicedSoFar
  /\ IntervalsTile

IInv == PoolInv /\ JobInv /\ MainInv

-----------------------------------------------------------------------------
(* The reader uses the pool as its owner may: every step is a step of the  *)
(* pool or leaves it alone.                                                *)
LEMMA NextIsPoolNext == [Next]_vars => [PoolNext]_poolVars
<1> SUFFICES ASSUME [Next]_vars PROVE [PoolNext]_poolVars
  OBVIOUS
<1>1. CASE Launch
  <2>1. PICK j \in Jobs : EnqueuePush(j)
    BY <1>1 DEF Launch
  <2> QED BY <2>1, ReaderAssumption DEF PoolNext
<1>2. CASE LaunchNotify
  BY <1>2 DEF LaunchNotify, PoolNext
<1>3. CASE Destroy
  BY <1>3 DEF Destroy, PoolNext
<1>4. CASE Poll \/ Sort \/ Release \/ Merge \/ SliceCycle \/ SliceTail
  BY <1>4 DEF Poll, Sort, Release, Merge, SliceCycle, SliceTail
<1>5. ASSUME NEW w \in Workers,
             PoolStep(w) \/ SpuriousPoolWake(w) \/ JobReturn(w)
      PROVE  PoolNext
  BY <1>5 DEF PoolStep, SpuriousPoolWake, JobReturn, PoolNext
<1>6. ASSUME NEW w \in Workers, JobStep(w) \/ SpuriousWakeUp(w)
      PROVE  UNCHANGED poolVars
  BY <1>6 DEF JobStep, SpuriousWakeUp
<1>7. CASE UNCHANGED vars
  BY <1>7 DEF vars
<1> QED BY <1>1, <1>2, <1>3, <1>4, <1>5, <1>6, <1>7 DEF Next, Main

(* The ranges follow one another and end with the last variable.           *)
LEMMA RangeFacts ==
  /\ StartVar(1) = 1 /\ StartVar(PoolThreads + 1) = NVars + 1
  /\ \A j \in 1 .. PoolThreads + 1 : StartVar(j) \in 1 .. NVars + 1
  /\ \A j \in Jobs : /\ EndVar(j) + 1 = StartVar(j + 1)
                     /\ EndVar(j) \in Int
                     /\ StartVar(j) <= StartVar(j + 1)
<1>1. PoolThreads \in Nat \ {0} /\ NVars \in Nat
  BY PoolAssumption, ReaderAssumption
<1>2. /\ Base \in Nat /\ Remainder \in 0 .. PoolThreads - 1
      /\ NVars = PoolThreads * Base + Remainder
  BY <1>1, DivMod DEF Base, Remainder
<1>3. ASSUME NEW k \in 0 .. PoolThreads
      PROVE  /\ k * Base \in Nat /\ k * Base <= PoolThreads * Base
             /\ k < PoolThreads => (k + 1) * Base = k * Base + Base
             /\ PoolThreads * Base \in Nat
  BY <1>1, <1>2, MulLeq, MulSucc
<1>4. ASSUME NEW j \in 1 .. PoolThreads + 1
      PROVE  StartVar(j) \in 1 .. NVars + 1
  <2>1. j - 1 \in 0 .. PoolThreads
    BY <1>1
  <2>2. /\ (j - 1) * Base \in Nat /\ (j - 1) * Base <= PoolThreads * Base
        /\ PoolThreads * Base \in Nat
    BY <1>3, <2>1
  <2> HIDE DEF Base, Remainder
  <2> QED BY <1>1, <1>2, <2>1, <2>2 DEF StartVar
<1>5. ASSUME NEW j \in Jobs
      PROVE  EndVar(j) + 1 = StartVar(j + 1) /\ EndVar(j) \in Int /\ StartVar(j) <= StartVar(j + 1)
  <2>1. j - 1 \in 0 .. PoolThreads /\ j - 1 < PoolThreads /\ j \in Nat
        /\ j + 1 \in 1 .. PoolThreads + 1 /\ (j + 1) - 1 = j /\ (j - 1) + 1 = j
    BY <1>1 DEF Jobs
  <2>2. (j - 1) * Base \in Nat /\ j * Base = (j - 1) * Base + Base
    BY <1>3, <2>1
  <2>3. StartVar(j + 1) \in Nat
    BY <1>1, <1>4, <2>1
  <2>4. StartVar(j + 1) = j * Base + (IF j < Remainder THEN j ELSE Remainder) + 1
    BY <2>1 DEF StartVar
  <2>5. StartVar(j) <= StartVar(j + 1)
    BY <1>1, <1>2, <2>1, <2>2, <2>4 DEF StartVar
  <2> QED BY <2>3, <2>5 DEF EndVar
<1>6. StartVar(1) = 1
  BY <1>1, <1>2, <1>3 DEF StartVar
<1>7. StartVar(PoolThreads + 1) = NVars + 1
  <2>1. (PoolThreads + 1) - 1 = PoolThreads
    BY <1>1
  <2> QED BY <1>1, <1>2, <1>3, <2>1 DEF StartVar
<1> QED BY <1>4, <1>5, <1>6, <1>7

(* Every variable is in the range of a job.                                *)
LEMMA RangesCover ==
  ASSUME NEW v \in Vars
  PROVE  \E j \in Jobs : StartVar(j) <= v /\ v <= EndVar(j)
<1> DEFINE S == {j \in 1 .. PoolThreads + 1 : v < StartVar(j)}
<1>1. PoolThreads \in Nat \ {0} /\ NVars \in Nat /\ v \in 1 .. NVars
  BY PoolAssumption, ReaderAssumption DEF Vars
<1>2. PoolThreads + 1 \in S
  BY <1>1, RangeFacts
<1>3. S \in SUBSET Nat
  BY <1>1
<1>4. PICK m \in S : \A k \in S : m <= k
  <2> HIDE DEF S
  <2> QED BY <1>2, <1>3, NatMin
<1>5. m # 1
  BY <1>1, RangeFacts
<1>6. m - 1 \in Jobs /\ (m - 1) + 1 = m /\ m - 1 \in 1 .. PoolThreads + 1
  BY <1>1, <1>5 DEF Jobs
<1>7. m - 1 \notin S
  <2> HIDE DEF S
  <2> QED BY <1>1, <1>3, <1>4, <1>6
<1>8. ~(v < StartVar(m - 1))
  BY <1>6, <1>7
<1>9. v < StartVar(m) /\ StartVar(m) = EndVar(m - 1) + 1
  BY <1>6, RangeFacts
<1> QED BY <1>1, <1>6, <1>8, <1>9, RangeFacts

-----------------------------------------------------------------------------
(* The cycles partition the time read, and each holds finitely many        *)
(* changes.                                                                *)
LEMMA TimeFacts == TimeMax \in Nat \ {0} /\ NCycle \in Nat \ {0}
<1>1. RawMax \in Nat \ {0} /\ Period \in Nat \ {0}
  BY ReaderAssumption
<1>2. RawMax \div Period \in Nat
  BY <1>1, DivMod
<1>3. RawMax \div Period > 0 => (RawMax \div Period) * Period \in Nat \ {0}
  BY <1>1, <1>2
<1>4. TimeMax \in Nat \ {0}
  BY <1>1, <1>2, <1>3 DEF TimeMax
<1>5. TimeMax + Period - 1 \in Nat
  BY <1>1, <1>4
<1>6. NCycle \in Nat \ {0}
  <2>1. TimeMax + Period - 1 >= Period
    <3> HIDE DEF TimeMax
    <3> QED BY <1>1, <1>4
  <2>2. NCycle \in Nat /\ (TimeMax + Period - 1) % Period \in 0 .. Period - 1
        /\ TimeMax + Period - 1 = Period * NCycle + ((TimeMax + Period - 1) % Period)
    <3> HIDE DEF TimeMax
    <3> QED BY <1>1, <1>5, DivMod DEF NCycle
  <2>3. NCycle # 0
    <3> HIDE DEF TimeMax, NCycle
    <3> QED BY <1>1, <2>1, <2>2
  <2> QED BY <2>2, <2>3
<1> QED BY <1>4, <1>6

AllChanges == Named \X (0 .. TimeMax - 1)

(* The changes of a file are finitely many, so the event counts of cycles  *)
(* and intervals are numbers.                                              *)
LEMMA ChangesFinite ==
  /\ IsFiniteSet(Named)
  /\ \A S \in SUBSET AllChanges : IsFiniteSet(S) /\ Cardinality(S) \in Nat
  /\ \A c : Changes(c) \in SUBSET AllChanges
  /\ \A c, a, b : Among(c, a, b) \in SUBSET AllChanges
  /\ \A a, b : Span(a, b) \in SUBSET AllChanges
<1>1. NVars \in Nat /\ Named \subseteq 1 .. NVars
  BY ReaderAssumption DEF Vars
<1>2. IsFiniteSet(Named)
  <2>1. IsFiniteSet(1 .. NVars)
    BY <1>1, FS_Interval
  <2> QED BY <1>1, <2>1, FS_Subset
<1>3. IsFiniteSet(0 .. TimeMax - 1)
  BY TimeFacts, FS_Interval
<1>4. IsFiniteSet(AllChanges)
  BY <1>2, <1>3, FS_Product DEF AllChanges
<1>5. \A S \in SUBSET AllChanges : IsFiniteSet(S) /\ Cardinality(S) \in Nat
  BY <1>4, FS_Subset, FS_CardinalityType
<1>6. \A c : Changes(c) \in SUBSET AllChanges
  BY DEF Changes, AllChanges
<1>7. \A c, a, b : Among(c, a, b) \in SUBSET AllChanges
  BY <1>6 DEF Among
<1>8. \A a, b : Span(a, b) \in SUBSET AllChanges
  BY <1>6 DEF Span
<1> QED BY <1>2, <1>5, <1>6, <1>7, <1>8

(* A change of a cycle is a named variable and a time of that cycle before *)
(* timeMax.                                                                *)
LEMMA ChangeIsPair ==
  ASSUME NEW c, NEW p \in Changes(c)
  PROVE  /\ p[1] \in Named /\ p[1] \in 1 .. NVars /\ p[2] \in 0 .. TimeMax - 1
         /\ p = <<p[1], p[2]>> /\ p[2] \in changes[p[1]] /\ p[2] \div Period = c
<1>1. p \in Named \X (0 .. TimeMax - 1)
  BY DEF Changes
<1>2. p[1] \in Named /\ p[2] \in 0 .. TimeMax - 1 /\ p = <<p[1], p[2]>>
  BY <1>1
<1>3. p[2] \in changes[p[1]] /\ p[2] \div Period = c
  BY DEF Changes
<1> QED BY <1>2, <1>3, ReaderAssumption DEF Vars

(* Two ranges of variables that follow one another.                        *)
LEMMA AmongSplit ==
  ASSUME NEW c, NEW a \in Nat, NEW b \in Nat, NEW d \in Nat, a <= b, b <= d
  PROVE  Cardinality(Among(c, a, d)) = Cardinality(Among(c, a, b)) + Cardinality(Among(c, b, d))
<1>1. \A p \in Changes(c) : p[1] \in Nat
  BY ChangeIsPair, ReaderAssumption
<1>2. Among(c, a, d) = Among(c, a, b) \cup Among(c, b, d)
  BY <1>1 DEF Among
<1>3. Among(c, a, b) \cap Among(c, b, d) = {}
  BY <1>1 DEF Among
<1> QED BY <1>2, <1>3, ChangesFinite, DisjointUnion

(* No variables have no changes, and all variables have all changes of a   *)
(* cycle.                                                                  *)
LEMMA AmongEnds ==
  ASSUME NEW c
  PROVE  /\ \A a \in Nat : Cardinality(Among(c, a, a)) = 0
         /\ Among(c, 1, NVars + 1) = Changes(c)
<1>1. NVars \in Nat /\ \A p \in Changes(c) : p[1] \in 1 .. NVars
  BY ChangeIsPair, ReaderAssumption
<1>2. \A a \in Nat : Among(c, a, a) = {}
  BY <1>1 DEF Among
<1>3. Among(c, 1, NVars + 1) = Changes(c)
  BY <1>1 DEF Among
<1> QED BY <1>2, <1>3, FS_EmptySet

(* One cycle after another.                                                *)
LEMMA SpanSplit ==
  ASSUME NEW a \in Nat, NEW b \in Nat, a <= b
  PROVE  /\ Cardinality(Span(a, b + 1)) = Cardinality(Span(a, b)) + Cardinality(Changes(b))
         /\ Cardinality(Span(b, b)) = 0
<1>1. a .. (b + 1) - 1 = (a .. b - 1) \cup {b}
  OBVIOUS
<1>2. Span(a, b + 1) = Span(a, b) \cup Changes(b)
  BY <1>1 DEF Span
<1>3. Span(a, b) \cap Changes(b) = {}
  <2>1. ASSUME NEW c \in a .. b - 1, NEW p \in Changes(c), p \in Changes(b)
        PROVE  FALSE
    BY <2>1, ChangeIsPair
  <2> QED BY <2>1 DEF Span
<1>4. Span(b, b) = {}
  <2>1. b .. b - 1 = {}
    OBVIOUS
  <2> QED BY <2>1 DEF Span
<1> QED BY <1>2, <1>3, <1>4, ChangesFinite, DisjointUnion, FS_EmptySet

-----------------------------------------------------------------------------
(* The bounds of each job's range, and that the jobs are finitely many.    *)
LEMMA JobRange ==
  ASSUME NEW j \in Jobs
  PROVE  /\ StartVar(j) \in 1 .. NVars + 1 /\ EndVar(j) + 1 \in 1 .. NVars + 1
         /\ EndVar(j) \in Int /\ StartVar(j) <= EndVar(j) + 1
         /\ NVars \in Nat /\ PoolThreads \in Nat \ {0}
<1>1. PoolThreads \in Nat \ {0} /\ NVars \in Nat
  BY PoolAssumption, ReaderAssumption
<1>2. j \in 1 .. PoolThreads + 1 /\ j + 1 \in 1 .. PoolThreads + 1
  BY <1>1 DEF Jobs
<1> QED BY <1>1, <1>2, RangeFacts

(* The ready count reaches the number of threads only when every job has   *)
(* made its variables.                                                     *)
LEMMA JobsFinite ==
  /\ IsFiniteSet(Jobs) /\ Cardinality(Jobs) = PoolThreads
  /\ IsFiniteSet(PastMake) /\ Cardinality(PastMake) \in 0 .. PoolThreads
  /\ Cardinality(PastMake) = PoolThreads => PastMake = Jobs
<1>1. PoolThreads \in Nat \ {0}
  BY PoolAssumption
<1>2. IsFiniteSet(Jobs) /\ Cardinality(Jobs) = PoolThreads
  BY <1>1, FS_Interval DEF Jobs
<1>3. PastMake \in SUBSET Jobs
  BY DEF PastMake
<1>4. /\ IsFiniteSet(PastMake) /\ Cardinality(PastMake) <= Cardinality(Jobs)
      /\ Cardinality(Jobs) = Cardinality(PastMake) => Jobs = PastMake
  BY <1>2, <1>3, FS_Subset
<1>5. Cardinality(PastMake) \in Nat
  BY <1>4, FS_CardinalityType
<1> QED BY <1>1, <1>2, <1>4, <1>5

(* A variable is made.                                                     *)
LEMMA MakeVarStep ==
  ASSUME JobInv, NEW j \in Jobs, MakeVar(j), UNCHANGED <<settled, allReady, changes>>
  PROVE  JobInv'
<1> USE DEF JobInv
<1>1. /\ jpc[j] = "make" /\ nextVar[j] <= EndVar(j)
      /\ made' = made \cup ({nextVar[j]} \cap Named)
      /\ nextVar' = [nextVar EXCEPT ![j] = nextVar[j] + 1]
      /\ nReady' = nReady /\ jpc' = jpc /\ counts' = counts
      /\ settled' = settled /\ allReady' = allReady /\ changes' = changes
  BY DEF MakeVar
<1>2. /\ nextVar[j] \in 1 .. NVars + 1 /\ EndVar(j) + 1 \in 1 .. NVars + 1
      /\ EndVar(j) \in Int /\ NVars \in Nat /\ StartVar(j) \in Nat
  BY JobRange
<1>3. nextVar' \in [Jobs -> 1 .. NVars + 1] /\ nextVar'[j] = nextVar[j] + 1
      /\ \A i \in Jobs \ {j} : nextVar'[i] = nextVar[i]
  BY <1>1, <1>2
<1>4. InRange'
  BY <1>1, <1>2, <1>3 DEF InRange
<1>5. ReadyCounted' /\ FlagMeansReady'
  BY <1>1 DEF ReadyCounted, FlagMeansReady, PastMake
<1>6. MadeSoFar'
  <2>0. \A x, y \in Nat : x < y + 1 => x = y \/ x < y
    OBVIOUS
  <2> SUFFICES ASSUME NEW i \in Jobs, NEW v \in Named, StartVar(i) <= v, v < MadeTo(i)'
               PROVE  v \in made'
    BY DEF MadeSoFar
  <2>1. v \in Nat
    BY ReaderAssumption DEF Vars
  <2>2. CASE i = j
    <3>1. MadeTo(i)' = nextVar[j] + 1 /\ MadeTo(i) = nextVar[j]
      BY <1>1, <1>3, <2>2 DEF MadeTo
    <3>2. v = nextVar[j] \/ v < nextVar[j]
      <4>1. v < nextVar[j] + 1 /\ nextVar[j] \in Nat
        BY <1>2, <2>2, <3>1
      <4> QED BY <2>0, <2>1, <4>1, Zenon
    <3> QED BY <1>1, <2>2, <3>1, <3>2 DEF MadeSoFar
  <2>3. CASE i # j
    <3>1. MadeTo(i)' = MadeTo(i)
      BY <1>1, <1>3, <2>3 DEF MadeTo
    <3> QED BY <1>1, <3>1 DEF MadeSoFar
  <2> QED BY <2>2, <2>3
<1>7. SettledRead'
  BY <1>1, <1>3 DEF SettledRead
<1>8. CountsSoFar'
  <2>1. \A i \in Jobs : ReadTo(i)' = ReadTo(i)
    BY <1>1, <1>3 DEF ReadTo
  <2>2. \A c, x, y : Among(c, x, y)' = Among(c, x, y)
    BY <1>1 DEF Among, Changes
  <2> QED BY <1>1, <2>1, <2>2 DEF CountsSoFar
<1> QED BY <1>1, <1>3, <1>4, <1>5, <1>6, <1>7, <1>8

(* A job reports ready, having made its whole range.                       *)
LEMMA ReportStep ==
  ASSUME JobInv, NEW j \in Jobs, ReportReady(j), UNCHANGED <<settled, allReady, changes>>
  PROVE  JobInv'
<1> USE DEF JobInv
<1>1. /\ jpc[j] = "make" /\ nextVar[j] > EndVar(j)
      /\ nReady' = nReady + 1
      /\ jpc' = [jpc EXCEPT ![j] = "barrier"]
      /\ made' = made /\ nextVar' = nextVar /\ counts' = counts
      /\ settled' = settled /\ allReady' = allReady /\ changes' = changes
  BY DEF ReportReady
<1>2. /\ jpc' \in [Jobs -> {"make", "barrier", "blocked", "read"}] /\ jpc'[j] = "barrier"
      /\ \A i \in Jobs \ {j} : jpc'[i] = jpc[i]
  BY <1>1
<1>3. nextVar[j] = EndVar(j) + 1
  BY <1>1, JobRange DEF InRange
<1>4. PastMake' = PastMake \cup {j} /\ j \notin PastMake
  BY <1>1, <1>2 DEF PastMake
<1>5. Cardinality(PastMake') = Cardinality(PastMake) + 1
  BY <1>4, JobsFinite, FS_AddElement
<1>6. PastMake' \in SUBSET Jobs
  BY DEF PastMake
<1>7. Cardinality(PastMake') <= PoolThreads
  BY <1>6, JobsFinite, FS_Subset
<1>8. nReady' \in 0 .. PoolThreads /\ ReadyCounted'
  BY <1>1, <1>5, <1>7, JobsFinite, PoolAssumption DEF ReadyCounted
<1>9. FlagMeansReady'
  BY <1>1, <1>2, <1>4 DEF FlagMeansReady
<1>10. MadeSoFar'
  <2>1. \A i \in Jobs : MadeTo(i)' = MadeTo(i)
    BY <1>1, <1>2, <1>3 DEF MadeTo
  <2> QED BY <1>1, <2>1 DEF MadeSoFar
<1>11. SettledRead' /\ InRange'
  BY <1>1, <1>2 DEF SettledRead, InRange
<1>12. CountsSoFar'
  <2>1. \A i \in Jobs : ReadTo(i)' = ReadTo(i)
    BY <1>1, <1>2 DEF ReadTo
  <2>2. \A c, x, y : Among(c, x, y)' = Among(c, x, y)
    BY <1>1 DEF Among, Changes
  <2> QED BY <1>1, <2>1, <2>2 DEF CountsSoFar
<1> QED BY <1>1, <1>2, <1>8, <1>9, <1>10, <1>11, <1>12

(* A job past making its variables moves on: to sleep, awake, or through   *)
(* the barrier, and then starts reading at the start of its range.         *)
LEMMA BarrierStep ==
  ASSUME JobInv, NEW j \in Jobs, Barrier(j) \/ WakeUp(j),
         UNCHANGED <<settled, allReady, changes>>
  PROVE  JobInv'
<1> USE DEF JobInv
<1>1. /\ jpc[j] \in {"barrier", "blocked"}
      /\ jpc' \in [Jobs -> {"make", "barrier", "blocked", "read"}]
      /\ nextVar' \in [Jobs -> 1 .. NVars + 1]
      /\ jpc'[j] \in {"barrier", "blocked", "read"}
      /\ jpc'[j] = "read" => allReady /\ nextVar'[j] = StartVar(j)
      /\ jpc'[j] # "read" => nextVar'[j] = nextVar[j]
      /\ \A i \in Jobs \ {j} : jpc'[i] = jpc[i] /\ nextVar'[i] = nextVar[i]
      /\ made' = made /\ nReady' = nReady /\ counts' = counts
      /\ settled' = settled /\ allReady' = allReady /\ changes' = changes
  <2>1. StartVar(j) \in 1 .. NVars + 1
    BY JobRange
  <2> QED BY <2>1 DEF Barrier, WakeUp
<1>2. PastMake' = PastMake
  BY <1>1 DEF PastMake
<1>3. ReadyCounted' /\ FlagMeansReady'
  BY <1>1, <1>2 DEF ReadyCounted, FlagMeansReady
<1>4. InRange'
  BY <1>1, JobRange DEF InRange
<1>5. MadeSoFar'
  <2>1. \A i \in Jobs : MadeTo(i)' = MadeTo(i)
    BY <1>1 DEF MadeTo
  <2> QED BY <1>1, <2>1 DEF MadeSoFar
<1>6. SettledRead'
  BY <1>1 DEF SettledRead
<1>7. CountsSoFar'
  <2>1. \A i \in Jobs : ReadTo(i)' = ReadTo(i)
    BY <1>1 DEF ReadTo
  <2>2. \A c, x, y : Among(c, x, y)' = Among(c, x, y)
    BY <1>1 DEF Among, Changes
  <2> QED BY <1>1, <2>1, <2>2 DEF CountsSoFar
<1> QED BY <1>1, <1>3, <1>4, <1>5, <1>6, <1>7

(* What a job reads of its variable in a cycle is what the file holds.     *)
LEMMA ReadOfVar ==
  ASSUME changes \in Workloads, NEW v \in 1 .. NVars, NEW c \in Cycles, NEW read,
         read = IF v \in Named THEN {t \in changes[v] : t < TimeMax} ELSE {}
  PROVE  Cardinality({t \in read : t \div Period = c}) = Cardinality(Among(c, v, v + 1))
<1> DEFINE S == {t \in read : t \div Period = c}
<1>1. /\ v \in Nat /\ TimeMax \in Nat \ {0} /\ RawMax \in Nat
      /\ changes[v] \subseteq 0 .. RawMax
  BY TimeFacts, ReaderAssumption DEF Vars
<1>2. CASE v \notin Named
  <2>1. S = {}
    BY <1>2
  <2>2. Among(c, v, v + 1) = {}
    <3>1. \A p \in Changes(c) : p[1] \in Named /\ p[1] \in Nat
      BY ChangeIsPair, ReaderAssumption
    <3> QED BY <1>1, <1>2, <3>1 DEF Among
  <2> QED BY <2>1, <2>2
<1>3. CASE v \in Named
  <2>1. S = {t \in changes[v] : t < TimeMax /\ t \div Period = c}
    BY <1>3
  <2>2. ASSUME NEW p \in Among(c, v, v + 1)
        PROVE  p \in {v} \X S
    <3>1. p \in Changes(c) /\ v <= p[1] /\ p[1] < v + 1
      BY DEF Among
    <3>2. /\ p[1] \in 1 .. NVars /\ p[2] \in 0 .. TimeMax - 1 /\ p = <<p[1], p[2]>>
          /\ p[2] \in changes[p[1]] /\ p[2] \div Period = c
      BY <3>1, ChangeIsPair
    <3>3. p[1] = v
      BY <1>1, <3>1, <3>2, ReaderAssumption
    <3>4. p[2] \in S
      BY <1>1, <2>1, <3>2, <3>3
    <3> HIDE DEF S
    <3> QED BY <3>2, <3>3, <3>4
  <2>3. ASSUME NEW p \in {v} \X S
        PROVE  p \in Among(c, v, v + 1)
    <3>1. p[1] = v /\ p[2] \in S /\ p = <<v, p[2]>>
      OBVIOUS
    <3>2. p[2] \in 0 .. TimeMax - 1 /\ p[2] \in changes[p[1]] /\ p[2] \div Period = c
      BY <1>1, <2>1, <3>1
    <3>3. p \in Named \X (0 .. TimeMax - 1)
      BY <1>3, <3>1, <3>2
    <3> QED BY <1>1, <3>1, <3>2, <3>3 DEF Among, Changes
  <2>4. IsFiniteSet(S)
    <3>1. S \in SUBSET (0 .. RawMax)
      BY <1>1, <2>1
    <3> HIDE DEF S
    <3>2. IsFiniteSet(0 .. RawMax)
      BY <1>1, FS_Interval
    <3> QED BY <3>1, <3>2, FS_Subset
  <2> HIDE DEF S
  <2>5. Among(c, v, v + 1) = {v} \X S
    BY <2>2, <2>3
  <2>6. Cardinality({v} \X S) = Cardinality(S)
    BY <2>4, PairsWith
  <2> QED BY <2>5, <2>6 DEF S
<1> QED BY <1>2, <1>3

(* A variable is read: the job has counted its range up to the next one.   *)
LEMMA ReadVarStep ==
  ASSUME JobInv, NEW j \in Jobs, ReadVar(j), UNCHANGED <<settled, allReady, changes>>
  PROVE  JobInv'
<1> USE DEF JobInv
<1> DEFINE v == nextVar[j]
           read == IF v \in Named THEN {t \in changes[v] : t < TimeMax} ELSE {}
           n(c) == Cardinality({t \in read : t \div Period = c})
<1>1. /\ jpc[j] = "read" /\ v <= EndVar(j)
      /\ nextVar' = [nextVar EXCEPT ![j] = v + 1]
      /\ counts' = [counts EXCEPT ![j] = [c \in Cycles |-> counts[j][c] + n(c)]]
      /\ made' = made /\ nReady' = nReady /\ jpc' = jpc
      /\ settled' = settled /\ allReady' = allReady /\ changes' = changes
  BY DEF ReadVar
<1>2. /\ v \in 1 .. NVars + 1 /\ EndVar(j) + 1 \in 1 .. NVars + 1
      /\ EndVar(j) \in Int /\ NVars \in Nat /\ StartVar(j) \in Nat /\ StartVar(j) <= v
  BY JobRange DEF InRange
<1>3. v \in 1 .. NVars /\ v \in Nat
  BY <1>1, <1>2
<1>4. \A c \in Cycles : n(c) = Cardinality(Among(c, v, v + 1))
  BY <1>3, ReadOfVar
<1>5. \A c \in Cycles : n(c) \in Nat
  BY <1>4, ChangesFinite
<1> HIDE DEF n
<1>6. nextVar' \in [Jobs -> 1 .. NVars + 1] /\ nextVar'[j] = v + 1
      /\ \A i \in Jobs \ {j} : nextVar'[i] = nextVar[i]
  <2>1. v + 1 \in 1 .. NVars + 1
    BY <1>2, <1>3
  <2> QED BY <1>1, <2>1
<1>7. /\ counts' \in [Jobs -> [Cycles -> Nat]]
      /\ \A c \in Cycles : counts'[j][c] = counts[j][c] + n(c)
      /\ \A i \in Jobs \ {j} : counts'[i] = counts[i]
  <2>1. [c \in Cycles |-> counts[j][c] + n(c)] \in [Cycles -> Nat]
    BY <1>5
  <2> QED BY <1>1, <2>1
<1>8. InRange'
  BY <1>1, <1>2, <1>6 DEF InRange
<1>9. ReadyCounted' /\ FlagMeansReady'
  BY <1>1 DEF ReadyCounted, FlagMeansReady, PastMake
<1>10. MadeSoFar'
  <2>1. \A i \in Jobs : MadeTo(i)' = MadeTo(i)
    BY <1>1, <1>6 DEF MadeTo
  <2> QED BY <1>1, <2>1 DEF MadeSoFar
<1>11. SettledRead'
  <2>1. j \notin settled
    BY <1>1, <1>2 DEF SettledRead
  <2> QED BY <1>1, <1>6, <2>1 DEF SettledRead
<1>12. CountsSoFar'
  <2>1. \A c, x, y : Among(c, x, y)' = Among(c, x, y)
    BY <1>1 DEF Among, Changes
  <2>2. ASSUME NEW i \in Jobs, NEW c \in Cycles
        PROVE  counts'[i][c] = Cardinality(Among(c, StartVar(i), ReadTo(i)'))
    <3>1. CASE i = j
      <4>1. ReadTo(j) = v /\ ReadTo(j)' = v + 1
        BY <1>1, <1>6 DEF ReadTo
      <4>2. counts[j][c] = Cardinality(Among(c, StartVar(j), v))
        BY <4>1 DEF CountsSoFar
      <4>3. Cardinality(Among(c, StartVar(j), v + 1))
              = Cardinality(Among(c, StartVar(j), v)) + Cardinality(Among(c, v, v + 1))
        BY <1>2, <1>3, AmongSplit
      <4> QED BY <1>4, <1>7, <3>1, <4>1, <4>2, <4>3
    <3>2. CASE i # j
      <4>1. ReadTo(i)' = ReadTo(i)
        BY <1>1, <1>6, <3>2 DEF ReadTo
      <4> QED BY <1>7, <3>2, <4>1 DEF CountsSoFar
    <3> QED BY <3>1, <3>2
  <2> QED BY <2>1, <2>2 DEF CountsSoFar
<1> QED BY <1>1, <1>6, <1>7, <1>8, <1>9, <1>10, <1>11, <1>12

(* A job returns, its range read.                                          *)
LEMMA JobReturnStep ==
  ASSUME JobInv, NEW w \in Workers, JobReturn(w)
  PROVE  JobInv'
<1> USE DEF JobInv
<1>1. PICK j \in Jobs : Runs(w, j) /\ jpc[j] = "read" /\ nextVar[j] > EndVar(j)
  BY DEF JobReturn
<1>2. /\ settled' = settled \cup {j}
      /\ changes' = changes /\ allReady' = allReady
      /\ made' = made /\ nReady' = nReady /\ jpc' = jpc /\ nextVar' = nextVar /\ counts' = counts
  BY <1>1 DEF JobReturn, Runs, TaskReturn, jobVars
<1>3. nextVar[j] = EndVar(j) + 1
  BY <1>1, JobRange DEF InRange
<1>4. SettledRead'
  BY <1>1, <1>2, <1>3 DEF SettledRead
<1>5. ReadyCounted' /\ FlagMeansReady' /\ InRange'
  BY <1>2 DEF ReadyCounted, FlagMeansReady, PastMake, InRange
<1>6. MadeSoFar'
  BY <1>2 DEF MadeSoFar, MadeTo
<1>7. CountsSoFar'
  BY <1>2 DEF CountsSoFar, ReadTo, Among, Changes
<1> QED BY <1>2, <1>4, <1>5, <1>6, <1>7

(* Steps that leave the jobs alone.                                        *)
LEMMA JobFrame ==
  ASSUME JobInv, UNCHANGED <<jobVars, settled, changes>>,
         allReady' = allReady \/ (allReady' = TRUE /\ nReady = PoolThreads)
  PROVE  JobInv'
<1> USE DEF JobInv
<1>1. /\ settled' = settled /\ changes' = changes /\ made' = made /\ nReady' = nReady
      /\ jpc' = jpc /\ nextVar' = nextVar /\ counts' = counts
  BY DEF jobVars
<1>2. allReady' => PastMake = Jobs
  BY JobsFinite DEF ReadyCounted, FlagMeansReady
<1>3. allReady' \in BOOLEAN /\ \A j \in Jobs : jpc[j] = "read" => allReady'
  BY DEF FlagMeansReady
<1>4. ReadyCounted' /\ FlagMeansReady' /\ InRange' /\ SettledRead'
  BY <1>1, <1>2, <1>3 DEF ReadyCounted, FlagMeansReady, PastMake, InRange, SettledRead
<1>5. MadeSoFar'
  BY <1>1 DEF MadeSoFar, MadeTo
<1>6. CountsSoFar'
  BY <1>1 DEF CountsSoFar, ReadTo, Among, Changes
<1> QED BY <1>1, <1>3, <1>4, <1>5, <1>6

(* The jobs that sleep are woken.                                          *)
LEMMA ReleaseStep ==
  ASSUME JobInv, Release
  PROVE  JobInv'
<1> USE DEF JobInv
<1>1. /\ jpc' = [j \in Jobs |-> IF jpc[j] = "blocked" THEN "barrier" ELSE jpc[j]]
      /\ settled' = settled /\ changes' = changes /\ made' = made /\ nReady' = nReady
      /\ nextVar' = nextVar /\ counts' = counts /\ allReady' = allReady
  BY DEF Release, poolVars
<1>2. /\ jpc' \in [Jobs -> {"make", "barrier", "blocked", "read"}]
      /\ \A j \in Jobs : /\ jpc'[j] = "make" <=> jpc[j] = "make"
                         /\ jpc'[j] = "read" <=> jpc[j] = "read"
  BY <1>1
<1>3. PastMake' = PastMake
  BY <1>2 DEF PastMake
<1>4. ReadyCounted' /\ FlagMeansReady' /\ InRange' /\ SettledRead'
  BY <1>1, <1>2, <1>3 DEF ReadyCounted, FlagMeansReady, InRange, SettledRead
<1>5. MadeSoFar'
  <2>1. \A j \in Jobs : MadeTo(j)' = MadeTo(j)
    BY <1>1, <1>2 DEF MadeTo
  <2> QED BY <1>1, <2>1 DEF MadeSoFar
<1>6. CountsSoFar'
  <2>1. \A j \in Jobs : ReadTo(j)' = ReadTo(j)
    BY <1>1, <1>2 DEF ReadTo
  <2>2. \A c, x, y : Among(c, x, y)' = Among(c, x, y)
    BY <1>1 DEF Among, Changes
  <2> QED BY <1>1, <2>1, <2>2 DEF CountsSoFar
<1> QED BY <1>1, <1>2, <1>4, <1>5, <1>6

(* Every step keeps what the jobs rely on.                                 *)
LEMMA NextJobInv ==
  ASSUME JobInv, [Next]_vars
  PROVE  JobInv'
<1>2. CASE Launch \/ LaunchNotify \/ Poll \/ Sort \/ Merge \/ Destroy \/ SliceCycle \/ SliceTail
  <2>2. settled' = settled
    BY <1>2 DEF Launch, EnqueuePush, LaunchNotify, EnqueueNotify, Poll, Sort, Merge, Destroy,
                DestroyStop, DestroyNotify, DestroyJoin, SliceCycle, SliceTail, poolVars
  <2>3. UNCHANGED <<jobVars, changes>>
    BY <1>2 DEF Launch, LaunchNotify, Poll, Sort, Merge, Destroy, SliceCycle, SliceTail
  <2>4. allReady' = allReady \/ (allReady' = TRUE /\ nReady = PoolThreads)
    BY <1>2 DEF Launch, LaunchNotify, Poll, Sort, Merge, Destroy, SliceCycle, SliceTail
  <2> QED BY <2>2, <2>3, <2>4, JobFrame
<1>3. CASE Release
  BY <1>3, ReleaseStep
<1>4. ASSUME NEW w \in Workers, PoolStep(w) \/ SpuriousPoolWake(w)
      PROVE  JobInv'
  <2>1. UNCHANGED <<jobVars, settled, changes, allReady>>
    BY <1>4 DEF PoolStep, Acquire, SpuriousPoolWake, SpuriousWake
  <2> QED BY <2>1, JobFrame
<1>5. ASSUME NEW w \in Workers, JobStep(w)
      PROVE  JobInv'
  <2>1. PICK j \in Jobs : MakeVar(j) \/ ReportReady(j) \/ Barrier(j) \/ ReadVar(j)
    BY <1>5 DEF JobStep
  <2>2. UNCHANGED <<settled, allReady, changes>>
    BY <1>5 DEF JobStep, poolVars
  <2> QED BY <2>1, <2>2, MakeVarStep, ReportStep, BarrierStep, ReadVarStep
<1>6. ASSUME NEW w \in Workers, SpuriousWakeUp(w)
      PROVE  JobInv'
  <2>1. PICK j \in Jobs : WakeUp(j)
    BY <1>6 DEF SpuriousWakeUp
  <2>2. UNCHANGED <<settled, allReady, changes>>
    BY <1>6 DEF SpuriousWakeUp, poolVars
  <2> QED BY <2>1, <2>2, BarrierStep
<1>7. ASSUME NEW w \in Workers, JobReturn(w)
      PROVE  JobInv'
  BY <1>7, JobReturnStep
<1>8. CASE UNCHANGED vars
  <2>1. UNCHANGED <<jobVars, settled, changes, allReady>>
    BY <1>8 DEF vars, poolVars
  <2> QED BY <2>1, JobFrame
<1> QED BY <1>2, <1>3, <1>4, <1>5, <1>6, <1>7, <1>8 DEF Next, Main

-----------------------------------------------------------------------------
(* The main thread.  Where it only moves on, what it has merged and sliced *)
(* stays.                                                                  *)
Moves ==
  \/ main' = main
  \/ /\ main \in {"launch", "poll", "sort"}
     /\ main' \in {"launch", "poll", "sort", "notify"}
  \/ main = "notify" /\ main' = "wait"

(* Steps of the main thread outside the merge and the slicing loops leave  *)
(* their invariant alone.                                                  *)
LEMMA MainFrame ==
  ASSUME MainInv, Moves, sorted' \in BOOLEAN, UNCHANGED <<mergeVars, sliceVars, changes>>
  PROVE  MainInv'
<1> USE DEF MainInv
<1>1. /\ merged' = merged /\ total' = total /\ changes' = changes
      /\ cycle' = cycle /\ startCycle' = startCycle /\ acc' = acc /\ intervals' = intervals
  BY DEF mergeVars, sliceVars
<1>2. \A c : Changes(c)' = Changes(c)
  BY <1>1 DEF Changes
<1>3. \A c, a, b : Among(c, a, b)' = Among(c, a, b)
  BY <1>2 DEF Among
<1>4. \A a, b : Span(a, b)' = Span(a, b)
  BY <1>2 DEF Span
<1>5. \A i : EventsIn(i)' = EventsIn(i)
  BY <1>1, <1>2 DEF EventsIn
<1>6. MergedSoFar'
  BY <1>1, <1>3, PoolAssumption DEF MergedSoFar, Moves
<1>7. SlicedSoFar'
  BY <1>1, <1>2, <1>4, <1>5 DEF SlicedSoFar, Moves
<1>8. IntervalsTile'
  BY <1>1, <1>2, <1>5 DEF IntervalsTile, Moves
<1> QED BY <1>1, <1>6, <1>7, <1>8 DEF Moves

(* The counts of one more job are added: all of its range, since every     *)
(* future has settled.                                                     *)
LEMMA MergeStep ==
  ASSUME JobInv, MainInv, Merge
  PROVE  MainInv'
<1> USE DEF MainInv
<1> DEFINE j == merged + 1
<1>1. /\ main = "wait" /\ settled = Jobs /\ merged' = merged + 1
      /\ total' = [c \in Cycles |-> total[c] + counts[j][c]]
      /\ main' = IF j = PoolThreads THEN "destroy" ELSE "wait"
      /\ sorted' = sorted /\ changes' = changes
      /\ cycle' = cycle /\ startCycle' = startCycle /\ acc' = acc /\ intervals' = intervals
  BY DEF Merge, AddCounts, sliceVars
<1>2. /\ merged \in Nat /\ merged < PoolThreads /\ PoolThreads \in Nat
      /\ j \in Jobs /\ j \in 1 .. PoolThreads + 1 /\ j + 1 \in 1 .. PoolThreads + 1
  BY <1>1, PoolAssumption DEF MergedSoFar, Jobs
<1>3. /\ StartVar(j) \in Nat /\ StartVar(j + 1) \in Nat /\ StartVar(j) <= StartVar(j + 1)
      /\ EndVar(j) + 1 = StartVar(j + 1) /\ 1 <= StartVar(j)
  BY <1>2, RangeFacts, ReaderAssumption
<1>4. \A c \in Cycles : counts[j][c] = Cardinality(Among(c, StartVar(j), StartVar(j + 1)))
  <2>1. ReadTo(j) = StartVar(j + 1)
    BY <1>1, <1>2, <1>3 DEF JobInv, SettledRead, ReadTo
  <2> QED BY <1>2, <2>1 DEF JobInv, CountsSoFar
<1>5. ASSUME NEW c \in Cycles
      PROVE  total'[c] = Cardinality(Among(c, 1, StartVar(j + 1))) /\ total'[c] \in Nat
  <2>1. total[c] = Cardinality(Among(c, 1, StartVar(j)))
    BY DEF MergedSoFar
  <2>2. Cardinality(Among(c, 1, StartVar(j + 1)))
          = Cardinality(Among(c, 1, StartVar(j))) + Cardinality(Among(c, StartVar(j), StartVar(j + 1)))
    BY <1>3, AmongSplit
  <2>3. Cardinality(Among(c, 1, StartVar(j + 1))) \in Nat
    BY ChangesFinite
  <2>4. total'[c] = total[c] + counts[j][c]
    BY <1>1
  <2> QED BY <1>4, <2>1, <2>2, <2>3, <2>4
<1>6. \A c : Changes(c)' = Changes(c)
  BY <1>1 DEF Changes
<1>7. \A c, a, b : Among(c, a, b)' = Among(c, a, b)
  BY <1>6 DEF Among
<1>8. total' \in [Cycles -> Nat]
  BY <1>1, <1>5
<1>9. MergedSoFar'
  <2>1. StartVar(merged + 1)' = StartVar(j + 1)
    BY <1>1 DEF StartVar
  <2>2. \A c : Among(c, 1, StartVar(merged + 1))' = Among(c, 1, StartVar(j + 1))
    BY <1>6, <2>1 DEF Among
  <2>3. \A c \in Cycles : total'[c] = Cardinality(Among(c, 1, StartVar(merged + 1)))'
    BY <1>5, <2>2
  <2>4. /\ main' = "wait" => merged' < PoolThreads
        /\ main' = "destroy" => merged' = PoolThreads
        /\ main' \in {"wait", "destroy"}
    BY <1>1, <1>2
  <2> QED BY <2>3, <2>4 DEF MergedSoFar
<1>10. SlicedSoFar'
  <2>1. cycle = 0 /\ startCycle = 0 /\ acc = 0 /\ intervals = <<>>
    BY <1>1 DEF SlicedSoFar
  <2>2. Span(0, 0)' = {}
    BY DEF Span
  <2>3. startCycle * Period = 0
    BY <2>1, ReaderAssumption
  <2>4. acc' = Cardinality(Span(startCycle, cycle)')
    BY <1>1, <2>1, <2>2, FS_EmptySet
  <2> QED BY <1>1, <2>1, <2>3, <2>4 DEF SlicedSoFar
<1>11. IntervalsTile'
  BY <1>1 DEF IntervalsTile
<1> QED BY <1>1, <1>2, <1>8, <1>9, <1>10, <1>11

(* Once all counts are merged, a cycle's total is the changes in it.       *)
LEMMA TotalIsChanges ==
  ASSUME MainInv, main \in {"destroy", "done"}, NEW c \in Cycles
  PROVE  total[c] = Cardinality(Changes(c))
<1>1. merged + 1 = PoolThreads + 1
  BY DEF MainInv, MergedSoFar
<1>2. total[c] = Cardinality(Among(c, 1, NVars + 1))
  BY <1>1, RangeFacts DEF MainInv, MergedSoFar
<1> QED BY <1>2, AmongEnds

(* The open interval is closed before cycle e.                             *)
LEMMA CloseFacts ==
  ASSUME MainInv, main # "done", NEW e \in Nat, startCycle < e, changes' = changes,
         intervals' = Append(intervals, <<startCycle * Period, e * Period>>)
  PROVE  /\ intervals' \in Seq(Nat \X Nat) /\ intervals' # <<>>
         /\ Len(intervals') = Len(intervals) + 1 /\ Len(intervals) \in Nat
         /\ DOMAIN intervals' = 1 .. Len(intervals) + 1
         /\ \A i \in 1 .. Len(intervals) :
              /\ intervals'[i] = intervals[i] /\ EventsIn(i)' = EventsIn(i)
              /\ intervals'[i][2] \div Period = intervals[i][2] \div Period
         /\ \A i \in DOMAIN intervals' :
              /\ intervals'[i][1] = IF i = 1 THEN 0 ELSE intervals'[i - 1][2]
              /\ intervals'[i][1] < intervals'[i][2]
         /\ intervals'[Len(intervals) + 1][2] = e * Period
         /\ \A i : i = Len(intervals) + 1 => EventsIn(i)' = Cardinality(Span(startCycle, e))
<1> DEFINE new == Len(intervals) + 1
           last == <<startCycle * Period, e * Period>>
<1>1. Period \in Nat \ {0} /\ startCycle \in Nat
  BY ReaderAssumption, TimeFacts DEF MainInv
<1>2. /\ startCycle * Period \in Nat /\ e * Period \in Nat
      /\ startCycle * Period < e * Period
      /\ (startCycle * Period) \div Period = startCycle
      /\ (e * Period) \div Period = e
  BY <1>1, MulLess, MulDiv, MulSucc
<1>3. last \in Nat \X Nat /\ last[1] = startCycle * Period /\ last[2] = e * Period
  BY <1>2
<1>4. intervals' = Append(intervals, last) /\ intervals \in Seq(Nat \X Nat)
  BY DEF MainInv
<1> HIDE DEF last
<1>5. /\ intervals' \in Seq(Nat \X Nat) /\ intervals' # <<>>
      /\ Len(intervals') = new /\ Len(intervals) \in Nat
      /\ DOMAIN intervals' = 1 .. new
      /\ DOMAIN intervals = 1 .. Len(intervals)
      /\ \A i \in 1 .. Len(intervals) : intervals'[i] = intervals[i]
      /\ intervals'[new] = last
  BY <1>3, <1>4
<1>6. \A c : Changes(c)' = Changes(c)
  BY DEF Changes
<1>7. \A i : EventsIn(i)' = Cardinality(UNION {Changes(c) :
        c \in (intervals'[i][1] \div Period) .. (intervals'[i][2] \div Period - 1)})
  BY <1>6 DEF EventsIn
<1>8. ASSUME NEW i, i = new
      PROVE  EventsIn(i)' = Cardinality(Span(startCycle, e))
  <2>1. intervals'[i][1] \div Period = startCycle /\ intervals'[i][2] \div Period = e
    BY <1>2, <1>3, <1>5, <1>8
  <2> QED BY <1>7, <2>1 DEF Span
<1>9. \A i \in 1 .. Len(intervals) : EventsIn(i)' = EventsIn(i)
  BY <1>5, <1>7 DEF EventsIn
<1>10. startCycle * Period = IF intervals = <<>> THEN 0 ELSE intervals[Len(intervals)][2]
  BY DEF MainInv, SlicedSoFar
<1>11. ASSUME NEW i \in DOMAIN intervals'
       PROVE  /\ intervals'[i][1] = IF i = 1 THEN 0 ELSE intervals'[i - 1][2]
              /\ intervals'[i][1] < intervals'[i][2]
  <2>1. CASE i = new
    <3>1. intervals = <<>> => new = 1
      BY <1>4
    <3>2. intervals # <<>> => new # 1 /\ new - 1 = Len(intervals) /\ Len(intervals) \in 1 .. Len(intervals)
      BY <1>4
    <3>3. intervals'[i][1] = startCycle * Period /\ intervals'[i][2] = e * Period
      BY <1>3, <1>5, <2>1
    <3>4. intervals # <<>> => intervals'[new - 1] = intervals[Len(intervals)]
      BY <1>5, <3>2
    <3> HIDE DEF new
    <3> QED BY <1>2, <1>10, <2>1, <3>1, <3>2, <3>3, <3>4
  <2>2. CASE i # new
    <3>1. i \in 1 .. Len(intervals) /\ (i = 1 \/ i - 1 \in 1 .. Len(intervals))
      BY <1>5, <2>2
    <3>2. intervals'[i] = intervals[i] /\ (i # 1 => intervals'[i - 1] = intervals[i - 1])
      BY <1>5, <3>1
    <3>3. /\ intervals[i][1] = IF i = 1 THEN 0 ELSE intervals[i - 1][2]
          /\ intervals[i][1] < intervals[i][2]
      BY <1>5, <3>1 DEF MainInv, SlicedSoFar
    <3> QED BY <3>2, <3>3
  <2> QED BY <2>1, <2>2
<1> QED BY <1>3, <1>5, <1>8, <1>9, <1>11

(* One more cycle is sliced.                                               *)
LEMMA SliceCycleStep ==
  ASSUME MainInv, SliceCycle
  PROVE  MainInv'
<1> USE DEF MainInv
<1> DEFINE n == acc + total[cycle]
<1>1. /\ main = "destroy" /\ main' = main /\ cycle < NCycle /\ cycle' = cycle + 1
      /\ merged' = merged /\ total' = total /\ sorted' = sorted /\ changes' = changes
  BY DEF SliceCycle, mergeVars
<1>2. /\ cycle \in Nat /\ cycle' \in 0 .. NCycle /\ cycle \in Cycles /\ startCycle \in Nat
      /\ startCycle <= cycle /\ acc \in Nat /\ acc < MaxEvents /\ MaxEvents \in Nat \ {0}
      /\ NCycle \in Nat
  BY <1>1, TimeFacts, ReaderAssumption DEF Cycles
<1>3. /\ total[cycle] = Cardinality(Changes(cycle)) /\ total[cycle] \in Nat
      /\ n = Cardinality(Span(startCycle, cycle + 1)) /\ n \in Nat
  <2>1. total[cycle] = Cardinality(Changes(cycle)) /\ total[cycle] \in Nat
    BY <1>1, <1>2, TotalIsChanges
  <2>2. acc = Cardinality(Span(startCycle, cycle))
    BY <1>1 DEF SlicedSoFar
  <2>3. Cardinality(Span(startCycle, cycle + 1))
          = Cardinality(Span(startCycle, cycle)) + Cardinality(Changes(cycle))
    BY <1>2, SpanSplit
  <2> QED BY <1>2, <2>1, <2>2, <2>3
<1>4. \A c : Changes(c)' = Changes(c)
  BY <1>1 DEF Changes
<1>5. MergedSoFar'
  <2>1. \A c, a, b : Among(c, a, b)' = Among(c, a, b)
    BY <1>4 DEF Among
  <2> QED BY <1>1, <2>1 DEF MergedSoFar
<1>6. IntervalsTile'
  BY <1>1 DEF IntervalsTile
<1>7. CASE n >= MaxEvents
  <2>1. /\ intervals' = Append(intervals, <<startCycle * Period, (cycle + 1) * Period>>)
        /\ startCycle' = cycle + 1 /\ acc' = 0
    BY <1>7 DEF SliceCycle
  <2>2. cycle + 1 \in Nat /\ startCycle < cycle + 1
    BY <1>2
  <2>3. /\ intervals' \in Seq(Nat \X Nat) /\ intervals' # <<>>
        /\ Len(intervals') = Len(intervals) + 1 /\ Len(intervals) \in Nat
        /\ DOMAIN intervals' = 1 .. Len(intervals) + 1
        /\ \A i \in 1 .. Len(intervals) :
              /\ intervals'[i] = intervals[i] /\ EventsIn(i)' = EventsIn(i)
        /\ \A i \in DOMAIN intervals' :
              /\ intervals'[i][1] = IF i = 1 THEN 0 ELSE intervals'[i - 1][2]
              /\ intervals'[i][1] < intervals'[i][2]
        /\ intervals'[Len(intervals) + 1][2] = (cycle + 1) * Period
        /\ \A i : i = Len(intervals) + 1 =>
             EventsIn(i)' = Cardinality(Span(startCycle, cycle + 1))
    BY <1>1, <2>1, <2>2, CloseFacts
  <2>4. ((cycle + 1) * Period) \div Period = cycle + 1
    BY <2>2, MulDiv, ReaderAssumption
  <2>5. ASSUME NEW i \in DOMAIN intervals'
        PROVE  /\ EventsIn(i)' >= MaxEvents
               /\ EventsIn(i)' - Cardinality(Changes(intervals'[i][2] \div Period - 1)) < MaxEvents
    <3>1. CASE i = Len(intervals) + 1
      <4>1. EventsIn(i)' = n
        BY <1>3, <2>3, <3>1
      <4>2. intervals'[i][2] \div Period - 1 = cycle
        BY <1>2, <2>3, <2>4, <3>1
      <4> HIDE DEF n
      <4>3. n - total[cycle] = acc
        BY <1>2, <1>3 DEF n
      <4> QED BY <1>2, <1>3, <1>7, <4>1, <4>2, <4>3
    <3>2. CASE i \in 1 .. Len(intervals)
      <4>1. i \in DOMAIN intervals
        BY <3>2
      <4>2. /\ EventsIn(i) >= MaxEvents
            /\ EventsIn(i) - Cardinality(Changes(intervals[i][2] \div Period - 1)) < MaxEvents
        BY <1>1, <4>1 DEF SlicedSoFar
      <4> QED BY <2>3, <3>2, <4>2
    <3> QED BY <2>3, <3>1, <3>2
  <2>6. SlicedSoFar'
    <3>1. \A i : Cardinality(Changes(intervals[i][2] \div Period - 1))'
                   = Cardinality(Changes(intervals'[i][2] \div Period - 1))
      BY <1>1 DEF Changes
    <3>2. \A i \in DOMAIN intervals' :
            /\ EventsIn(i)' >= MaxEvents
            /\ EventsIn(i)' - Cardinality(Changes(intervals[i][2] \div Period - 1))' < MaxEvents
      BY <2>5, <3>1
    <3>3. acc' = Cardinality(Span(startCycle, cycle))'
      <4>1. Span(startCycle, cycle)' = Span(cycle + 1, cycle + 1)
        BY <1>1, <1>4, <2>1 DEF Span
      <4> QED BY <2>1, <2>2, <4>1, SpanSplit
    <3>4. startCycle' * Period = intervals'[Len(intervals')][2]
      BY <2>1, <2>3
    <3> QED BY <1>1, <2>3, <3>2, <3>3, <3>4 DEF SlicedSoFar
  <2> QED BY <1>1, <1>2, <1>5, <1>6, <2>1, <2>3, <2>6
<1>8. CASE ~(n >= MaxEvents)
  <2>1. intervals' = intervals /\ startCycle' = startCycle /\ acc' = n
    BY <1>8 DEF SliceCycle
  <2>2. acc' \in 0 .. MaxEvents - 1
    BY <1>2, <1>3, <1>8, <2>1
  <2>3. \A i : EventsIn(i)' = EventsIn(i)
    BY <1>4, <2>1 DEF EventsIn
  <2>4. \A i : Cardinality(Changes(intervals[i][2] \div Period - 1))'
                 = Cardinality(Changes(intervals[i][2] \div Period - 1))
    BY <1>1, <2>1 DEF Changes
  <2>5. acc' = Cardinality(Span(startCycle, cycle))'
    <3>1. Span(startCycle, cycle)' = Span(startCycle, cycle + 1)
      BY <1>1, <1>4, <2>1 DEF Span
    <3> QED BY <1>3, <2>1, <3>1
  <2>6. SlicedSoFar'
    BY <1>1, <2>1, <2>3, <2>4, <2>5 DEF SlicedSoFar
  <2>7. startCycle' \in 0 .. cycle'
    BY <1>1, <1>2, <2>1
  <2> QED BY <1>1, <1>2, <1>5, <1>6, <2>1, <2>2, <2>6, <2>7
<1> QED BY <1>7, <1>8

(* The cycles left over close the last interval, or none is left and the   *)
(* last interval closed ends with the last cycle.                          *)
LEMMA SliceTailStep ==
  ASSUME MainInv, SliceTail
  PROVE  MainInv'
<1> USE DEF MainInv
<1>1. /\ main = "destroy" /\ main' = "done" /\ cycle = NCycle /\ cycle' = cycle
      /\ startCycle' = startCycle /\ acc' = acc
      /\ merged' = merged /\ total' = total /\ sorted' = sorted /\ changes' = changes
  BY DEF SliceTail, mergeVars
<1>2. /\ NCycle \in Nat \ {0} /\ startCycle \in 0 .. NCycle /\ startCycle \in Nat
      /\ acc \in Nat /\ acc < MaxEvents /\ MaxEvents \in Nat \ {0} /\ Period \in Nat \ {0}
  BY <1>1, TimeFacts, ReaderAssumption
<1>3. MergedSoFar'
  <2>1. \A c : Changes(c)' = Changes(c)
    BY <1>1 DEF Changes
  <2>2. \A c, a, b : Among(c, a, b)' = Among(c, a, b)
    BY <2>1 DEF Among
  <2> QED BY <1>1, <2>2 DEF MergedSoFar
<1>4. SlicedSoFar'
  BY <1>1 DEF SlicedSoFar
<1>5. intervals' \in Seq(Nat \X Nat) /\ IntervalsTile'
  <2>1. CASE startCycle < NCycle
    <3>1. intervals' = Append(intervals, <<startCycle * Period, NCycle * Period>>)
      BY <2>1 DEF SliceTail
    <3>2. /\ intervals' \in Seq(Nat \X Nat) /\ intervals' # <<>>
          /\ Len(intervals') = Len(intervals) + 1 /\ Len(intervals) \in Nat
          /\ DOMAIN intervals' = 1 .. Len(intervals) + 1
          /\ \A i \in 1 .. Len(intervals) :
                /\ intervals'[i] = intervals[i] /\ EventsIn(i)' = EventsIn(i)
          /\ \A i \in DOMAIN intervals' :
                /\ intervals'[i][1] = IF i = 1 THEN 0 ELSE intervals'[i - 1][2]
                /\ intervals'[i][1] < intervals'[i][2]
          /\ intervals'[Len(intervals) + 1][2] = NCycle * Period
          /\ \A i : i = Len(intervals) + 1 =>
               EventsIn(i)' = Cardinality(Span(startCycle, NCycle))
      BY <1>1, <1>2, <2>1, <3>1, CloseFacts
    <3>3. acc = Cardinality(Span(startCycle, NCycle))
      BY <1>1 DEF SlicedSoFar
    <3>4. ASSUME NEW i \in DOMAIN intervals'
          PROVE  /\ i < Len(intervals') => EventsIn(i)' >= MaxEvents
                 /\ EventsIn(i)' - Cardinality(Changes(intervals'[i][2] \div Period - 1)) < MaxEvents
      <4>1. CASE i = Len(intervals) + 1
        <5>1. EventsIn(i)' = acc
          BY <3>2, <3>3, <4>1
        <5>2. Cardinality(Changes(intervals'[i][2] \div Period - 1)) \in Nat
          BY ChangesFinite
        <5>3. ~(i < Len(intervals'))
          BY <3>2, <4>1
        <5> QED BY <1>2, <5>1, <5>2, <5>3
      <4>2. CASE i \in 1 .. Len(intervals)
        <5>1. i \in DOMAIN intervals
          BY <4>2
        <5>2. /\ EventsIn(i) >= MaxEvents
              /\ EventsIn(i) - Cardinality(Changes(intervals[i][2] \div Period - 1)) < MaxEvents
          BY <1>1, <5>1 DEF SlicedSoFar
        <5> QED BY <3>2, <4>2, <5>2
      <4> QED BY <3>2, <4>1, <4>2
    <3>5. \A i : Cardinality(Changes(intervals[i][2] \div Period - 1))'
                   = Cardinality(Changes(intervals'[i][2] \div Period - 1))
      BY <1>1 DEF Changes
    <3>6. \A i \in DOMAIN intervals' :
            /\ i < Len(intervals') => EventsIn(i)' >= MaxEvents
            /\ EventsIn(i)' - Cardinality(Changes(intervals[i][2] \div Period - 1))' < MaxEvents
      BY <3>4, <3>5
    <3>7. ASSUME NEW i \in DOMAIN intervals'
          PROVE  /\ intervals'[i][1] < intervals'[i][2]
                 /\ i > 1 => intervals'[i][1] = intervals'[i - 1][2]
      <4>1. intervals'[i][1] = IF i = 1 THEN 0 ELSE intervals'[i - 1][2]
        BY <3>2
      <4>2. i > 1 => i # 1
        BY <3>2
      <4> QED BY <3>2, <4>1, <4>2
    <3>8. intervals'[1][1] = 0 /\ intervals'[Len(intervals')][2] = NCycle * Period
      <4>1. 1 \in DOMAIN intervals'
        BY <3>2
      <4>2. intervals'[1][1] = 0
        BY <3>2, <4>1
      <4> QED BY <3>2, <4>2
    <3> QED BY <3>2, <3>6, <3>7, <3>8 DEF IntervalsTile
  <2>2. CASE ~(startCycle < NCycle)
    <3>1. intervals' = intervals /\ startCycle = NCycle
      BY <1>2, <2>2 DEF SliceTail
    <3>2. NCycle * Period # 0
      BY <1>2
    <3>3. intervals # <<>> /\ intervals[Len(intervals)][2] = NCycle * Period
      BY <1>1, <3>1, <3>2 DEF SlicedSoFar
    <3>4. \A i \in DOMAIN intervals :
            /\ intervals[i][1] = IF i = 1 THEN 0 ELSE intervals[i - 1][2]
            /\ intervals[i][1] < intervals[i][2]
            /\ EventsIn(i) >= MaxEvents
            /\ EventsIn(i) - Cardinality(Changes(intervals[i][2] \div Period - 1)) < MaxEvents
      BY <1>1 DEF SlicedSoFar
    <3>5. /\ \A i : EventsIn(i)' = EventsIn(i)
          /\ \A i : Cardinality(Changes(intervals[i][2] \div Period - 1))'
                       = Cardinality(Changes(intervals[i][2] \div Period - 1))
      <4>1. \A c : Changes(c)' = Changes(c)
        BY <1>1 DEF Changes
      <4>2. \A i : EventsIn(i)' = EventsIn(i)
        BY <3>1, <4>1 DEF EventsIn
      <4>3. \A i : Changes(intervals[i][2] \div Period - 1)'
                     = Changes(intervals[i][2] \div Period - 1)
        BY <1>1, <3>1 DEF Changes
      <4> QED BY <4>2, <4>3
    <3>6. 1 \in DOMAIN intervals /\ intervals[1][1] = 0
      BY <3>3, <3>4
    <3>7. \A i \in DOMAIN intervals : i > 1 => intervals[i][1] = intervals[i - 1][2]
      BY <3>4
    <3> QED BY <3>1, <3>3, <3>4, <3>5, <3>6, <3>7 DEF IntervalsTile
  <2> QED BY <2>1, <2>2
<1> QED BY <1>1, <1>3, <1>4, <1>5

(* The merge and slicing loops keep their invariant, and no step of a job  *)
(* disturbs what they rely on once its future has been waited for.         *)
LEMMA NextMainInv ==
  ASSUME JobInv, MainInv, [Next]_vars
  PROVE  MainInv'
<1> USE DEF Moves
<1>1. sorted \in BOOLEAN
  BY DEF MainInv
<1>2. CASE Launch \/ LaunchNotify \/ Poll \/ Sort \/ Release \/ Destroy
  <2>1. UNCHANGED <<mergeVars, sliceVars, changes>>
    BY <1>2 DEF Launch, LaunchNotify, Poll, Sort, Release, Destroy
  <2>2. sorted' \in BOOLEAN /\ Moves
    BY <1>1, <1>2 DEF Launch, LaunchNotify, Poll, Sort, Release, Destroy
  <2> QED BY <2>1, <2>2, MainFrame
<1>3. CASE Merge
  BY <1>3, MergeStep
<1>4. CASE SliceCycle
  BY <1>4, SliceCycleStep
<1>5. CASE SliceTail
  BY <1>5, SliceTailStep
<1>6. ASSUME NEW w \in Workers,
             PoolStep(w) \/ SpuriousPoolWake(w) \/ JobStep(w) \/ SpuriousWakeUp(w) \/ JobReturn(w)
      PROVE  MainInv'
  <2>1. UNCHANGED <<mergeVars, sliceVars, changes, main, sorted>>
    BY <1>6 DEF PoolStep, SpuriousPoolWake, JobStep, SpuriousWakeUp, JobReturn
  <2> QED BY <1>1, <2>1, MainFrame
<1>7. CASE UNCHANGED vars
  <2>1. UNCHANGED <<mergeVars, sliceVars, changes, main, sorted>>
    BY <1>7 DEF vars
  <2> QED BY <1>1, <2>1, MainFrame
<1> QED BY <1>2, <1>3, <1>4, <1>5, <1>6, <1>7 DEF Next, Main

-----------------------------------------------------------------------------
(* Nothing is made, counted, merged or sliced at the start.                *)
LEMMA InitIInv == Init => IInv
<1> SUFFICES ASSUME Init PROVE IInv
  OBVIOUS
<1> USE DEF Init
<1>1. PoolInv
  BY InitPoolInv
<1>2. ASSUME NEW c, NEW a \in Nat PROVE Among(c, a, a) = {}
  <2>1. \A p \in Changes(c) : p[1] \in Nat
    BY ChangeIsPair, ReaderAssumption DEF Vars
  <2> HIDE DEF Init
  <2> QED BY <2>1 DEF Among
<1>3. /\ NCycle \in Nat /\ PoolThreads \in Nat \ {0} /\ NVars \in Nat
      /\ MaxEvents \in Nat \ {0} /\ Period \in Nat \ {0}
  BY TimeFacts, PoolAssumption, ReaderAssumption
<1>4. JobInv
  <2>1. /\ made \subseteq Named /\ allReady \in BOOLEAN /\ changes \in Workloads
        /\ jpc \in [Jobs -> {"make", "barrier", "blocked", "read"}]
    OBVIOUS
  <2>11. nReady \in 0 .. PoolThreads
    BY <1>3
  <2>2. nextVar \in [Jobs -> 1 .. NVars + 1]
    BY JobRange
  <2>3. counts \in [Jobs -> [Cycles -> Nat]]
    BY DEF NoCounts
  <2>4. settled = {}
    BY DEF PoolInit
  <2>5. InRange
    BY JobRange DEF InRange
  <2>6. PastMake = {}
    BY DEF PastMake
  <2>7. ReadyCounted
    BY <2>6, FS_EmptySet DEF ReadyCounted
  <2>8. FlagMeansReady
    BY DEF FlagMeansReady
  <2>9. MadeSoFar
    <3>1. \A j \in Jobs : MadeTo(j) = StartVar(j)
      BY DEF MadeTo
    <3>2. ASSUME NEW j \in Jobs, NEW v \in Named, StartVar(j) <= v, v < MadeTo(j)
          PROVE  FALSE
      <4>1. v \in Nat /\ StartVar(j) \in Nat
        BY JobRange, ReaderAssumption DEF Vars
      <4> HIDE DEF Init
      <4> QED BY <3>1, <3>2, <4>1
    <3> QED BY <3>2 DEF MadeSoFar
  <2>10. CountsSoFar
    <3>1. ASSUME NEW j \in Jobs, NEW c \in Cycles
          PROVE  counts[j][c] = Cardinality(Among(c, StartVar(j), ReadTo(j)))
      <4>1. ReadTo(j) = StartVar(j) /\ StartVar(j) \in Nat
        BY JobRange DEF ReadTo
      <4>2. Among(c, StartVar(j), ReadTo(j)) = {}
        BY <1>2, <4>1
      <4> QED BY <4>2, FS_EmptySet DEF NoCounts
    <3> QED BY <3>1 DEF CountsSoFar
  <2> QED BY <2>1, <2>2, <2>3, <2>4, <2>5, <2>7, <2>8, <2>9, <2>10, <2>11 DEF JobInv, SettledRead
<1>5. MainInv
  <2>1. MergedSoFar
    <3>1. ASSUME NEW c \in Cycles
          PROVE  total[c] = Cardinality(Among(c, 1, StartVar(merged + 1)))
      <4>1. StartVar(merged + 1) = 1
        BY RangeFacts
      <4>2. Among(c, 1, StartVar(merged + 1)) = {}
        BY <1>2, <4>1
      <4> QED BY <4>2, FS_EmptySet DEF NoCounts
    <3> QED BY <3>1 DEF MergedSoFar
  <2>2. SlicedSoFar
    <3>1. startCycle * Period = 0
      BY <1>3
    <3>2. Span(startCycle, cycle) = {} /\ acc = 0
      BY DEF Span
    <3>3. acc = Cardinality(Span(startCycle, cycle))
      BY <3>2, FS_EmptySet
    <3> QED BY <3>1, <3>3 DEF SlicedSoFar
  <2>3. IntervalsTile
    BY DEF IntervalsTile
  <2>4. total \in [Cycles -> Nat]
    BY DEF NoCounts
  <2>6. intervals \in Seq(Nat \X Nat)
    OBVIOUS
  <2>5. /\ merged \in 0 .. PoolThreads /\ cycle \in 0 .. NCycle
        /\ startCycle \in 0 .. cycle /\ acc \in 0 .. MaxEvents - 1
    BY <1>3
  <2> QED BY <2>1, <2>2, <2>3, <2>4, <2>5, <2>6 DEF MainInv
<1> QED BY <1>1, <1>4, <1>5 DEF IInv

(* IInv is an inductive invariant of the reader.                           *)
THEOREM Invariance == Spec => []IInv
<1>1. IInv /\ [Next]_vars => IInv'
  BY NextIsPoolNext, NextPoolInv, NextJobInv, NextMainInv DEF IInv
<1> QED BY InitIInv, <1>1, PTL DEF Spec

(* The reader only does to its pool what the pool's owner may: every       *)
(* behaviour of read() (FsdbReader.cc:58-111) is one of ThreadPool, so     *)
(* whatever is proved of the pool holds of the reader's.                   *)
THEOREM ReaderUsesPool == Spec => PoolSpec
<1>1. Init => PoolInit
  BY DEF Init
<1> QED BY <1>1, NextIsPoolNext, PTL DEF Spec, PoolSpec

-----------------------------------------------------------------------------
(* The state has the declared types: in particular the ready count never   *)
(* exceeds the number of threads, and no loop leaves its job's range.      *)
THEOREM TypeCorrect == Spec => []TypeOK
<1>1. IInv => TypeOK
  BY DEF IInv, PoolInv, JobInv, MainInv, TypeOK
<1> QED BY <1>1, Invariance, PTL

(* "make var first to avoid conflicts in map" (FsdbReader.cc:308): when a  *)
(* job reads its first value change, every named variable has been made by *)
(* some job, whatever the number of threads.                               *)
THEOREM MadeFirst == Spec => []MadeBeforeRead
<1>1. IInv => MadeBeforeRead
  <2> SUFFICES ASSUME IInv, NEW k \in Jobs, jpc[k] = "read" PROVE made = Named
    BY DEF MadeBeforeRead
  <2>1. PastMake = Jobs
    BY DEF IInv, JobInv, FlagMeansReady
  <2>2. ASSUME NEW v \in Named PROVE v \in made
    <3>1. v \in Vars /\ v \in Nat
      BY ReaderAssumption DEF Vars
    <3>2. PICK j \in Jobs : StartVar(j) <= v /\ v <= EndVar(j)
      BY <3>1, RangesCover
    <3>3. MadeTo(j) = EndVar(j) + 1
      BY <2>1 DEF PastMake, MadeTo
    <3>4. v < EndVar(j) + 1
      BY <3>1, <3>2, JobRange
    <3> QED BY <3>2, <3>3, <3>4 DEF IInv, JobInv, MadeSoFar
  <2> QED BY <2>2 DEF IInv, JobInv
<1> QED BY <1>1, Invariance, PTL

(* The per-thread counts added up (FsdbReader.cc:100-104) count each       *)
(* change of a named variable before timeMax once, in its cycle.           *)
THEOREM NoChangeMissed == Spec => []CountsComplete
<1>1. IInv => CountsComplete
  BY TotalIsChanges DEF IInv, CountsComplete
<1> QED BY <1>1, Invariance, PTL

(* The intervals timeSlicing() makes (FsdbReader.cc:423) tile the time     *)
(* read, and each but the last is closed by the first cycle that reaches   *)
(* the event budget.                                                       *)
THEOREM SlicesTile == Spec => []IntervalsTile
<1>1. IInv => IntervalsTile
  BY DEF IInv, MainInv
<1> QED BY <1>1, Invariance, PTL
=============================================================================
