------------------------- MODULE BfsIteratorProofs -------------------------
(***************************************************************************)
(* Proofs about BfsIterator, for any graph, levels, number of threads and  *)
(* sequence of calls.  With several threads they assume that a reference   *)
(* pin's vertex lies ahead of it (RefsGoOn): without that, NoVisitLost is  *)
(* false (run bfs_parallel_ref_pin).  The inductive invariant adds to the  *)
(* flags that every entry lies in the window of levels or in the level     *)
(* under way, that a level being visited from copies gets no new entry,    *)
(* and that no visit is under way between calls.                           *)
(*                                                                         *)
(* The second part shows that the iterator implements WorkList, when no    *)
(* reference pin's vertex lies behind the pin (RefsNotBack): nothing waits *)
(* behind the level being visited, so a visit that begins is of a vertex   *)
(* no other one has to precede.                                            *)
(***************************************************************************)
EXTENDS BfsIterator, NatLemmas

(* With several threads the vertex of a reference pin follows it in the    *)
(* direction of the search.                                                *)
RefsGoOn ==
  \A m \in Modes : m.threads > 1 =>
    \A r \in m.refs : IF m.forward THEN r \in Edges ELSE <<r[2], r[1]>> \in Edges

(* The window lies within the levels, or is empty.                         *)
WindowInLevels ==
  IF Forward THEN first \in 0 .. MaxLevel + 1 /\ last \in 0 .. MaxLevel
             ELSE first \in -1 .. MaxLevel /\ last \in 0 .. MaxLevel + 1

LevelsOrdered == \A e \in Edges : level[e[1]] < level[e[2]]

(* Who may be visiting, and what is left of a visit that is over.          *)
VisitsMatchCall ==
  /\ \A a \in Agents : cur[a] = Null => todo[a] = {} /\ want[a] = Null
  /\ pc \in {"idle", "level"} => \A a \in Agents : cur[a] = Null
  /\ pc # "copies" => \A a \in Agents : chunk[a] = <<>> /\ (a # 0 => cur[a] = Null)
  /\ pc = "copies" => Threads > 1

(* Visits from copies push only ahead: the vector they were copied from    *)
(* does not grow, and no vertex of the level gets its flag back.           *)
CopiesPushAhead ==
  pc = "copies" =>
    /\ Len(queue[lvl]) = snap
    /\ \A a \in Agents :
         /\ cur[a] # Null => level[cur[a]] = lvl /\ ~flag[cur[a]]
         /\ \A u \in todo[a] : Before(lvl, level[u])
         /\ want[a] # Null => Before(lvl, level[want[a]])
         /\ \A v \in Vertices : Holds(chunk[a], v) => level[v] = lvl

(* What waits in the queue of a level: nothing in the one visited from     *)
(* copies.                                                                 *)
Left(l) == IF pc = "copies" /\ l = lvl THEN <<>> ELSE queue[l]

(* FlagMatchesQueue, place by place.                                       *)
PlacesMatch ==
  \A v \in Vertices :
    /\ flag[v] => (\E l \in Levels : Holds(Left(l), v)) \/ \E a \in Agents : Holds(chunk[a], v)
    /\ \A l \in Levels : Holds(Left(l), v) =>
         flag[v] /\ l = level[v] /\ HoldsOnce(Left(l), v) /\ \A a \in Agents : ~Holds(chunk[a], v)
    /\ \A a \in Agents : Holds(chunk[a], v) =>
         flag[v] /\ HoldsOnce(chunk[a], v) /\ \A b \in Agents : Holds(chunk[b], v) => a = b

(* No vertex waits outside the window, but in the level being drained.     *)
WindowCovers ==
  \A l \in Levels, v \in Vertices : Holds(Left(l), v) =>
    (pc = "drain" /\ l = lvl) \/ (NotAfter(first, l) /\ NotAfter(l, last))

OwedFlagged == \A v \in Vertices : owed[v] => flag[v]

-----------------------------------------------------------------------------
(* What a vector holds after each operation on it.                         *)
LEMMA AppendHolds ==
  ASSUME NEW E, NEW s \in Seq(E), NEW x \in E, NEW v
  PROVE  /\ Append(s, x) \in Seq(E)
         /\ Holds(Append(s, x), v) <=> Holds(s, v) \/ v = x
         /\ HoldsOnce(s, v) /\ (v = x => ~Holds(s, x)) => HoldsOnce(Append(s, x), v)
<1> DEFINE t == Append(s, x)
<1>1. /\ t \in Seq(E) /\ Len(s) \in Nat /\ DOMAIN s = 1 .. Len(s) /\ DOMAIN t = 1 .. Len(s) + 1
      /\ \A i \in 1 .. Len(s) : t[i] = s[i]
      /\ t[Len(s) + 1] = x
  OBVIOUS
<1> HIDE DEF t
<1>2. \A i \in DOMAIN t : i = Len(s) + 1 \/ i \in DOMAIN s
  BY <1>1
<1>3. DOMAIN s \subseteq DOMAIN t /\ Len(s) + 1 \in DOMAIN t
  BY <1>1
<1>4. Holds(t, v) <=> Holds(s, v) \/ v = x
  BY <1>1, <1>2, <1>3 DEF Holds
<1>5. ASSUME HoldsOnce(s, v), v = x => ~Holds(s, x) PROVE HoldsOnce(t, v)
  BY <1>1, <1>2, <1>5 DEF HoldsOnce, Holds
<1> QED BY <1>1, <1>4, <1>5 DEF t

(* visit() takes the last entry (back, pop_back): the others keep theirs,  *)
(* and an entry held once is no longer held.                               *)
LEMMA FrontHolds ==
  ASSUME NEW E, NEW s \in Seq(E), s # <<>>, NEW v
  PROVE  /\ Front(s) \in Seq(E) /\ Last(s) \in E /\ Holds(s, Last(s))
         /\ Holds(Front(s), v) => Holds(s, v)
         /\ Holds(s, v) => Holds(Front(s), v) \/ v = Last(s)
         /\ HoldsOnce(s, v) => HoldsOnce(Front(s), v)
         /\ HoldsOnce(s, Last(s)) => ~Holds(Front(s), Last(s))
<1> DEFINE n == Len(s)
           t == Front(s)
<1>1. n \in Nat /\ n >= 1 /\ DOMAIN s = 1 .. n /\ n \in DOMAIN s /\ n - 1 \in Nat
  OBVIOUS
<1>2. Last(s) = s[n] /\ s[n] \in E
  BY <1>1 DEF Last
<1>3. /\ t \in Seq(E) /\ DOMAIN t = 1 .. n - 1 /\ \A i \in 1 .. n - 1 : t[i] = s[i]
  BY <1>1 DEF Front
<1> HIDE DEF n, t
<1>4. \A i \in DOMAIN s : i = n \/ (i \in DOMAIN t /\ i # n)
  BY <1>1, <1>3
<1>5. \A i \in DOMAIN t : i \in DOMAIN s /\ i # n
  BY <1>1, <1>3
<1>6. /\ Holds(s, Last(s))
      /\ Holds(t, v) => Holds(s, v)
      /\ Holds(s, v) => Holds(t, v) \/ v = Last(s)
  BY <1>1, <1>2, <1>3, <1>4, <1>5 DEF Holds
<1>7. HoldsOnce(s, v) => HoldsOnce(t, v)
  BY <1>3, <1>5 DEF HoldsOnce
<1>8. HoldsOnce(s, Last(s)) => ~Holds(t, Last(s))
  BY <1>1, <1>2, <1>3, <1>5 DEF HoldsOnce, Holds
<1> QED BY <1>2, <1>3, <1>6, <1>7, <1>8 DEF t

(* A thread goes through its chunk from the front.                         *)
LEMMA TailHolds ==
  ASSUME NEW E, NEW s \in Seq(E), s # <<>>, NEW v
  PROVE  /\ Tail(s) \in Seq(E) /\ Head(s) \in E /\ Holds(s, Head(s))
         /\ Holds(Tail(s), v) => Holds(s, v)
         /\ Holds(s, v) => Holds(Tail(s), v) \/ v = Head(s)
         /\ HoldsOnce(s, v) => HoldsOnce(Tail(s), v)
         /\ HoldsOnce(s, Head(s)) => ~Holds(Tail(s), Head(s))
<1> DEFINE n == Len(s)
           t == Tail(s)
<1>1. n \in Nat /\ n >= 1 /\ DOMAIN s = 1 .. n /\ 1 \in DOMAIN s /\ n - 1 \in Nat
  OBVIOUS
<1>2. Head(s) = s[1] /\ s[1] \in E
  BY <1>1
<1>3. /\ t \in Seq(E) /\ DOMAIN t = 1 .. n - 1 /\ \A i \in 1 .. n - 1 : t[i] = s[i + 1]
  BY <1>1
<1> HIDE DEF n, t
<1>4. \A i \in DOMAIN s : i = 1 \/ (i - 1 \in DOMAIN t /\ t[i - 1] = s[i])
  BY <1>1, <1>3
<1>5. \A i \in DOMAIN t : i \in Int /\ i + 1 \in DOMAIN s /\ i + 1 # 1 /\ t[i] = s[i + 1]
  BY <1>1, <1>3
<1>6. /\ Holds(s, Head(s))
      /\ Holds(t, v) => Holds(s, v)
      /\ Holds(s, v) => Holds(t, v) \/ v = Head(s)
  BY <1>1, <1>2, <1>4, <1>5 DEF Holds
<1>7. ASSUME HoldsOnce(s, v), NEW i \in DOMAIN t, NEW j \in DOMAIN t, t[i] = v, t[j] = v
      PROVE  i = j
  <2>1. i + 1 = j + 1
    BY <1>5, <1>7 DEF HoldsOnce
  <2> QED BY <1>5, <2>1
<1>8. HoldsOnce(s, Head(s)) => ~Holds(t, Head(s))
  BY <1>1, <1>2, <1>5 DEF HoldsOnce, Holds
<1> QED BY <1>2, <1>3, <1>6, <1>7, <1>8 DEF t, HoldsOnce

(* remove() overwrites a vertex's entries of its level with null: the      *)
(* other vertices keep theirs.                                             *)
LEMMA NullHolds ==
  ASSUME NEW s \in Seq(Entries), NEW x \in Vertices, NEW v \in Vertices, NEW t,
         t = [i \in DOMAIN s |-> IF s[i] = x THEN Null ELSE s[i]]
  PROVE  /\ t \in Seq(Entries)
         /\ Holds(t, v) <=> Holds(s, v) /\ v # x
         /\ HoldsOnce(s, v) => HoldsOnce(t, v)
<1>1. Null # v
  BY GraphAssumption
<1>2. Len(s) \in Nat /\ DOMAIN s = 1 .. Len(s) /\ \A i \in DOMAIN s : s[i] \in Entries
  OBVIOUS
<1>3. \A i \in 1 .. Len(s) : (IF s[i] = x THEN Null ELSE s[i]) \in Entries
  BY <1>2 DEF Entries
<1>4. t \in Seq(Entries)
  BY <1>2, <1>3
<1>5. DOMAIN t = DOMAIN s /\ \A i \in DOMAIN s : t[i] = v <=> s[i] = v /\ v # x
  BY <1>1
<1> QED BY <1>4, <1>5 DEF Holds, HoldsOnce

(* A cleared vector holds nothing.                                         *)
LEMMA EmptyHolds == \A v : ~Holds(<<>>, v)
BY DEF Holds

(* A chunk is a stretch of the vector of its level, by positions.          *)
LEMMA SubSeqHolds ==
  ASSUME NEW E, NEW s \in Seq(E), NEW m \in Nat, NEW n \in Nat, m <= n, n <= Len(s), NEW v
  PROVE  /\ SubSeq(s, m + 1, n) \in Seq(E)
         /\ Holds(SubSeq(s, m + 1, n), v) <=> \E i \in m + 1 .. n : s[i] = v
         /\ HoldsOnce(s, v) => HoldsOnce(SubSeq(s, m + 1, n), v)
<1> DEFINE t == SubSeq(s, m + 1, n)
<1>1. Len(s) \in Nat /\ DOMAIN s = 1 .. Len(s)
  OBVIOUS
<1>2. t \in Seq(E) /\ DOMAIN t = 1 .. n - m /\ \A i \in 1 .. n - m : t[i] = s[m + i]
  BY <1>1
<1> HIDE DEF t
<1>3. \A i \in DOMAIN t : i \in Int /\ m + i \in m + 1 .. n /\ m + i \in DOMAIN s /\ t[i] = s[m + i]
  BY <1>1, <1>2
<1>4. \A i \in m + 1 .. n : i - m \in DOMAIN t /\ t[i - m] = s[i]
  BY <1>1, <1>2
<1>5. Holds(t, v) <=> \E i \in m + 1 .. n : s[i] = v
  BY <1>3, <1>4 DEF Holds
<1>6. ASSUME HoldsOnce(s, v), NEW i \in DOMAIN t, NEW j \in DOMAIN t, t[i] = v, t[j] = v
      PROVE  i = j
  <2>1. m + i = m + j
    BY <1>3, <1>6 DEF HoldsOnce
  <2> QED BY <1>3, <2>1
<1> QED BY <1>2, <1>5, <1>6 DEF t, HoldsOnce

(* Where the chunk of thread k begins and ends in the level's vector.      *)
ChunkFrom(s, k) == (k - 1) * (Len(s) \div Threads)
ChunkTo(s, k) == IF k = Threads THEN Len(s) ELSE k * (Len(s) \div Threads)

(* The chunks of visitParallel follow one another from the first entry of  *)
(* the level to its last.                                                  *)
LEMMA ChunkBounds ==
  ASSUME NEW s \in Seq(Entries), Threads \in Nat, Threads >= 1
  PROVE  /\ ChunkFrom(s, 1) = 0 /\ ChunkTo(s, Threads) = Len(s)
         /\ \A k \in 1 .. Threads :
              /\ ChunkFrom(s, k) \in Nat /\ ChunkTo(s, k) \in Nat
              /\ ChunkFrom(s, k) <= ChunkTo(s, k) /\ ChunkTo(s, k) <= Len(s)
              /\ k < Threads => ChunkFrom(s, k + 1) = ChunkTo(s, k)
              /\ \A j \in 1 .. Threads : k < j => ChunkTo(s, k) <= ChunkFrom(s, j)
              /\ Chunk(s, k) = SubSeq(s, ChunkFrom(s, k) + 1, ChunkTo(s, k))
<1> DEFINE size == Len(s) \div Threads
<1>1. Len(s) \in Nat /\ Threads \in Nat \ {0}
  OBVIOUS
<1>2. size \in Nat /\ Len(s) % Threads \in 0 .. Threads - 1
      /\ Len(s) = Threads * size + (Len(s) % Threads)
  BY <1>1, DivMod
<1>3. /\ \A k \in 1 .. Threads : ChunkFrom(s, k) = (k - 1) * size
      /\ \A k \in 1 .. Threads : ChunkTo(s, k) = IF k = Threads THEN Len(s) ELSE k * size
      /\ \A k \in 1 .. Threads : Chunk(s, k) = SubSeq(s, ChunkFrom(s, k) + 1, ChunkTo(s, k))
  BY DEF ChunkFrom, ChunkTo, Chunk
<1> HIDE DEF size
<1>4. Threads * size \in Nat /\ Threads * size <= Len(s)
  BY <1>1, <1>2, MulSucc
<1>5. ASSUME NEW k \in 1 .. Threads
      PROVE  /\ (k - 1) * size \in Nat /\ k * size \in Nat
             /\ (k - 1) * size <= k * size /\ k * size <= Threads * size
             /\ (k + 1) - 1 = k
             /\ \A j \in 1 .. Threads : k < j => k * size <= (j - 1) * size
  <2>1. k \in Nat /\ k - 1 \in Nat /\ k <= Threads /\ k - 1 <= k /\ (k + 1) - 1 = k
    BY <1>1
  <2>2. \A j \in 1 .. Threads : k < j => j - 1 \in Nat /\ k <= j - 1
    BY <1>1, <2>1
  <2> QED BY <1>1, <1>2, <2>1, <2>2, MulLeq, MulSucc
<1>6. (1 - 1) * size = 0
  BY <1>2
<1>7. 1 \in 1 .. Threads /\ Threads \in 1 .. Threads
  BY <1>1
<1>8. ASSUME NEW k \in 1 .. Threads
      PROVE  /\ ChunkFrom(s, k) \in Nat /\ ChunkTo(s, k) \in Nat
             /\ ChunkFrom(s, k) <= ChunkTo(s, k) /\ ChunkTo(s, k) <= Len(s)
             /\ k < Threads => ChunkFrom(s, k + 1) = ChunkTo(s, k)
             /\ \A j \in 1 .. Threads : k < j => ChunkTo(s, k) <= ChunkFrom(s, j)
  <2>1. k < Threads => k + 1 \in 1 .. Threads /\ k # Threads
    BY <1>1
  <2>2. \A j \in 1 .. Threads : k < j => k # Threads
    BY <1>1
  <2>3. /\ ChunkFrom(s, k) = (k - 1) * size
        /\ ChunkTo(s, k) = IF k = Threads THEN Len(s) ELSE k * size
        /\ k < Threads => ChunkFrom(s, k + 1) = k * size
        /\ \A j \in 1 .. Threads : ChunkFrom(s, j) = (j - 1) * size
    BY <1>3, <1>5, <2>1
  <2>4. ChunkFrom(s, k) <= Threads * size
    BY <1>5, <2>3
  <2>5. /\ ChunkFrom(s, k) \in Nat /\ ChunkTo(s, k) \in Nat
        /\ ChunkFrom(s, k) <= ChunkTo(s, k) /\ ChunkTo(s, k) <= Len(s)
    <3>1. ChunkFrom(s, k) \in Nat /\ ChunkFrom(s, k) <= k * size /\ k * size \in Nat
      BY <1>5, <2>3
    <3>2. k * size <= Len(s) /\ ChunkFrom(s, k) <= Len(s)
      BY <1>1, <1>4, <1>5, <2>4, <3>1
    <3>3. ChunkTo(s, k) = Len(s) \/ ChunkTo(s, k) = k * size
      BY <2>3
    <3> QED BY <1>1, <3>1, <3>2, <3>3
  <2>6. ASSUME NEW j \in 1 .. Threads, k < j
        PROVE  ChunkTo(s, k) <= ChunkFrom(s, j)
    BY <1>5, <2>2, <2>3, <2>6
  <2> QED BY <2>1, <2>3, <2>5, <2>6
<1> QED BY <1>3, <1>6, <1>7, <1>8

(* The chunks handed out partition the entries of the level (Bfs.cc:       *)
(* visitParallel): none is left out and none is in two chunks.             *)
LEMMA ChunksPartition ==
  ASSUME NEW s \in Seq(Entries), Threads \in Nat, Threads >= 1, Len(s) >= Threads
  PROVE  \A k \in 1 .. Threads :
           /\ Chunk(s, k) \in Seq(Entries)
           /\ \A v : /\ Holds(Chunk(s, k), v) => Holds(s, v)
                     /\ HoldsOnce(s, v) => HoldsOnce(Chunk(s, k), v)
                     /\ HoldsOnce(s, v) /\ Holds(Chunk(s, k), v) =>
                          \A j \in 1 .. Threads : Holds(Chunk(s, j), v) => j = k
<1>1. Len(s) \in Nat /\ DOMAIN s = 1 .. Len(s)
  OBVIOUS
<1>2. ASSUME NEW k \in 1 .. Threads
      PROVE  /\ Chunk(s, k) \in Seq(Entries)
             /\ \A v : /\ Holds(Chunk(s, k), v) <=> \E i \in ChunkFrom(s, k) + 1 .. ChunkTo(s, k) : s[i] = v
                       /\ HoldsOnce(s, v) => HoldsOnce(Chunk(s, k), v)
  <2> DEFINE m == ChunkFrom(s, k)
             n == ChunkTo(s, k)
  <2>1. m \in Nat /\ n \in Nat /\ m <= n /\ n <= Len(s) /\ Chunk(s, k) = SubSeq(s, m + 1, n)
    BY ChunkBounds
  <2> HIDE DEF m, n
  <2>2. ASSUME NEW v
        PROVE  /\ SubSeq(s, m + 1, n) \in Seq(Entries)
               /\ Holds(SubSeq(s, m + 1, n), v) <=> \E i \in m + 1 .. n : s[i] = v
               /\ HoldsOnce(s, v) => HoldsOnce(SubSeq(s, m + 1, n), v)
    BY <2>1, SubSeqHolds
  <2> QED BY <2>1, <2>2 DEF m, n
<1>3. ASSUME NEW k \in 1 .. Threads, NEW i \in ChunkFrom(s, k) + 1 .. ChunkTo(s, k)
      PROVE  i \in DOMAIN s
  <2>1. ChunkFrom(s, k) \in Nat /\ ChunkTo(s, k) \in Nat /\ ChunkTo(s, k) <= Len(s)
    BY ChunkBounds
  <2> QED BY <1>1, <2>1
<1>4. ASSUME NEW k \in 1 .. Threads, NEW j \in 1 .. Threads,
             NEW i \in ChunkFrom(s, k) + 1 .. ChunkTo(s, k), i \in ChunkFrom(s, j) + 1 .. ChunkTo(s, j)
      PROVE  j = k
  <2>1. /\ ChunkFrom(s, k) \in Nat /\ ChunkTo(s, k) \in Nat
        /\ ChunkFrom(s, j) \in Nat /\ ChunkTo(s, j) \in Nat
        /\ k < j => ChunkTo(s, k) <= ChunkFrom(s, j)
        /\ j < k => ChunkTo(s, j) <= ChunkFrom(s, k)
    BY ChunkBounds
  <2>2. k \in Int /\ j \in Int /\ i \in Int
    BY <2>1
  <2> QED BY <1>4, <2>1, <2>2
<1>5. ASSUME NEW k \in 1 .. Threads, NEW v
      PROVE  /\ Holds(Chunk(s, k), v) => Holds(s, v)
             /\ HoldsOnce(s, v) /\ Holds(Chunk(s, k), v) =>
                  \A j \in 1 .. Threads : Holds(Chunk(s, j), v) => j = k
  <2>1. Holds(Chunk(s, k), v) => Holds(s, v)
    <3> SUFFICES ASSUME Holds(Chunk(s, k), v) PROVE Holds(s, v)
      OBVIOUS
    <3>1. PICK i \in ChunkFrom(s, k) + 1 .. ChunkTo(s, k) : s[i] = v
      BY <1>2
    <3>2. i \in DOMAIN s
      BY <1>3
    <3> QED BY <3>1, <3>2 DEF Holds
  <2>2. ASSUME HoldsOnce(s, v), Holds(Chunk(s, k), v),
               NEW j \in 1 .. Threads, Holds(Chunk(s, j), v)
        PROVE  j = k
    <3>1. PICK i \in ChunkFrom(s, k) + 1 .. ChunkTo(s, k) : s[i] = v
      BY <1>2, <2>2
    <3>2. PICK h \in ChunkFrom(s, j) + 1 .. ChunkTo(s, j) : s[h] = v
      BY <1>2, <2>2
    <3>3. i = h
      BY <1>3, <2>2, <3>1, <3>2 DEF HoldsOnce
    <3> QED BY <1>4, <3>3
  <2> QED BY <2>1, <2>2
<1> QED BY <1>2, <1>5

(* No entry is left over between chunks: the last thread of visitParallel  *)
(* gets the remainder.                                                     *)
LEMMA ChunksCover ==
  ASSUME NEW s \in Seq(Entries), Threads \in Nat, Threads >= 1, Len(s) >= Threads,
         NEW v, Holds(s, v)
  PROVE  \E k \in 1 .. Threads : Holds(Chunk(s, k), v)
<1>1. PICK i \in 1 .. Len(s) : s[i] = v
  BY DEF Holds
<1> DEFINE S == {k \in 1 .. Threads : i <= ChunkTo(s, k)}
<1>2. Threads \in S /\ S \in SUBSET Nat
  <2>1. ChunkTo(s, Threads) = Len(s)
    BY ChunkBounds
  <2> QED BY <1>1, <2>1
<1>3. PICK m \in S : \A k \in S : m <= k
  <2> HIDE DEF S
  <2> QED BY <1>2, NatMin
<1>4. m \in 1 .. Threads /\ i <= ChunkTo(s, m)
  BY <1>3
<1>5. ChunkFrom(s, m) < i
  <2>1. CASE m = 1
    BY <2>1, ChunkBounds
  <2>2. CASE m # 1
    <3>1. m - 1 \in 1 .. Threads /\ (m - 1) + 1 = m /\ m - 1 < Threads /\ ~(m <= m - 1)
      BY <1>4, <2>2
    <3>2. m - 1 \notin S
      <4> HIDE DEF S
      <4> QED BY <1>3, <3>1
    <3>3. ~(i <= ChunkTo(s, m - 1))
      BY <3>1, <3>2
    <3>4. ChunkFrom(s, m) = ChunkTo(s, m - 1) /\ ChunkTo(s, m - 1) \in Nat
      BY <3>1, ChunkBounds
    <3> QED BY <3>3, <3>4
  <2> QED BY <2>1, <2>2
<1>6. ChunkFrom(s, m) \in Nat /\ ChunkTo(s, m) \in Nat /\ ChunkFrom(s, m) <= ChunkTo(s, m)
      /\ ChunkTo(s, m) <= Len(s)
      /\ Chunk(s, m) = SubSeq(s, ChunkFrom(s, m) + 1, ChunkTo(s, m))
  BY <1>4, ChunkBounds
<1>7. i \in ChunkFrom(s, m) + 1 .. ChunkTo(s, m)
  BY <1>4, <1>5, <1>6
<1>8. Holds(SubSeq(s, ChunkFrom(s, m) + 1, ChunkTo(s, m)), v)
  BY <1>1, <1>6, <1>7, SubSeqHolds
<1> QED BY <1>4, <1>6, <1>8

-----------------------------------------------------------------------------
(* The queue, the flags and the window, apart from who visits.             *)
StoreInv ==
  /\ queue \in [Levels -> Seq(Entries)]
  /\ flag \in [Vertices -> BOOLEAN]
  /\ owed \in [Vertices -> BOOLEAN]
  /\ WindowInLevels
  /\ PlacesMatch
  /\ WindowCovers
  /\ OwedFlagged
  /\ pc = "copies" => Len(queue[lvl]) = snap

(* The call under way and the agents' visits.                              *)
CallInv ==
  /\ mode \in Modes
  /\ level \in [Vertices -> Levels]
  /\ pc \in {"idle", "level", "drain", "copies", "next"}
  /\ toLevel \in Levels
  /\ lvl \in Levels
  /\ snap \in Nat
  /\ chunk \in [Agents -> Seq(Entries)]
  /\ cur \in [Agents -> Entries]
  /\ todo \in [Agents -> SUBSET Vertices]
  /\ want \in [Agents -> Entries]
  /\ LevelsOrdered
  /\ VisitsMatchCall
  /\ CopiesPushAhead

IInv == StoreInv /\ CallInv

(* What the constants say of the iterator in use.                          *)
LEMMA ModeFacts ==
  ASSUME mode \in Modes
  PROVE  /\ mode.forward \in BOOLEAN /\ mode.removals \in BOOLEAN
         /\ Threads \in Nat /\ Threads >= 1 /\ Threads <= MaxThreads
         /\ mode.refs \subseteq Vertices \X Vertices
         /\ MaxLevel \in Nat /\ Null \notin Vertices /\ MaxThreads \in Nat
BY GraphAssumption, IteratorAssumption DEF Threads

(* The window after v has been pushed covers what it covered, and v.       *)
LEMMA WidenWindow ==
  ASSUME mode \in Modes, WindowInLevels, NEW k \in Levels, NEW f, NEW t,
         t = IF Before(last, k) THEN k ELSE last,
         f = IF Before(k, first) THEN k ELSE first
  PROVE  /\ IF Forward THEN f \in 0 .. MaxLevel + 1 /\ t \in 0 .. MaxLevel
                       ELSE f \in -1 .. MaxLevel /\ t \in 0 .. MaxLevel + 1
         /\ NotAfter(f, k) /\ NotAfter(k, t)
         /\ \A l \in Levels : /\ NotAfter(first, l) => NotAfter(f, l)
                              /\ NotAfter(l, last) => NotAfter(l, t)
<1>1. /\ MaxLevel \in Nat /\ k \in 0 .. MaxLevel
      /\ first \in Int /\ last \in Int
  BY ModeFacts DEF WindowInLevels, Levels
<1>2. CASE Forward
  <2> USE <1>2 DEF NotAfter, Before
  <2>1. first \in 0 .. MaxLevel + 1 /\ last \in 0 .. MaxLevel
    BY DEF WindowInLevels
  <2>2. /\ t = IF last < k THEN k ELSE last
        /\ f = IF k < first THEN k ELSE first
    OBVIOUS
  <2> QED BY <1>1, <2>1, <2>2 DEF Levels
<1>3. CASE ~Forward
  <2> USE <1>3 DEF NotAfter, Before
  <2>1. first \in -1 .. MaxLevel /\ last \in 0 .. MaxLevel + 1
    BY DEF WindowInLevels
  <2>2. /\ t = IF last > k THEN k ELSE last
        /\ f = IF k > first THEN k ELSE first
    OBVIOUS
  <2> QED BY <1>1, <2>1, <2>2 DEF Levels
<1> QED BY <1>2, <1>3

(* Whether one level is before another depends on the mode alone.          *)
LEMMA OrderStays ==
  ASSUME mode' = mode
  PROVE  /\ Forward' = Forward /\ Threads' = Threads
         /\ \A i, j : /\ Before(i, j)' <=> Before(i, j)
                      /\ NotAfter(i, j)' <=> NotAfter(i, j)
BY DEF Forward, Threads, Before, NotAfter

(* Holding queue_lock_, a visit or the owner enqueues v: on no level       *)
(* visited from copies.                                                    *)
LEMMA PushStep ==
  ASSUME StoreInv, CallInv, NEW v \in Vertices, Push(v),
         UNCHANGED <<mode, level, pc, lvl, snap, chunk>>,
         pc = "copies" => Before(lvl, level[v])
  PROVE  /\ StoreInv'
         /\ \A u \in Vertices : flag'[u] => flag[u] \/ u = v
<1> DEFINE l0 == level[v]
<1>1. /\ mode' = mode /\ level' = level /\ pc' = pc /\ lvl' = lvl /\ snap' = snap /\ chunk' = chunk
      /\ owed' = [owed EXCEPT ![v] = TRUE]
  BY DEF Push
<1>2. /\ queue \in [Levels -> Seq(Entries)] /\ flag \in [Vertices -> BOOLEAN]
      /\ owed \in [Vertices -> BOOLEAN] /\ v \in Entries /\ l0 \in Levels /\ lvl \in Levels
  BY DEF StoreInv, CallInv, Entries
<1>3. owed' \in [Vertices -> BOOLEAN]
  BY <1>1, <1>2
<1>4. CASE flag[v]
  <2>1. queue' = queue /\ flag' = flag /\ first' = first /\ last' = last
    BY <1>4 DEF Push
  <2>2. \A l : Left(l)' = Left(l)
    BY <1>1, <2>1 DEF Left
  <2>3. PlacesMatch'
    BY <1>1, <2>1, <2>2 DEF StoreInv, PlacesMatch
  <2>4. WindowCovers' /\ WindowInLevels'
    BY <1>1, <2>1, <2>2 DEF StoreInv, WindowCovers, WindowInLevels, NotAfter, Before, Forward
  <2>5. OwedFlagged'
    BY <1>1, <1>2, <1>4, <2>1 DEF StoreInv, OwedFlagged
  <2> QED BY <1>1, <1>3, <2>1, <2>3, <2>4, <2>5 DEF StoreInv
<1>5. CASE ~flag[v]
  <2>1. /\ flag' = [flag EXCEPT ![v] = TRUE]
        /\ queue' = [queue EXCEPT ![l0] = Append(queue[l0], v)]
        /\ last' = IF Before(last, l0) THEN l0 ELSE last
        /\ first' = IF Before(l0, first) THEN l0 ELSE first
    BY <1>5 DEF Push
  <2>2. ~(pc = "copies" /\ l0 = lvl)
    BY <1>2 DEF Before, Levels
  <2>3. \A l \in Levels : Left(l)' = IF l = l0 THEN Append(Left(l0), v) ELSE Left(l)
    BY <1>1, <1>2, <2>1, <2>2 DEF Left
  <2>4. Left(l0) \in Seq(Entries)
    BY <1>2, <2>2 DEF Left
  <2>5. queue' \in [Levels -> Seq(Entries)]
    BY <1>2, <2>1
  <2>6. flag' \in [Vertices -> BOOLEAN] /\ \A u \in Vertices : flag'[u] <=> flag[u] \/ u = v
    BY <1>2, <2>1
  <2>7. \A l \in Levels : ~Holds(Left(l), v)
    BY <1>5 DEF StoreInv, PlacesMatch
  <2>8. \A a \in Agents : ~Holds(chunk[a], v)
    BY <1>5 DEF StoreInv, PlacesMatch
  <2>9. ASSUME NEW l \in Levels, NEW u
        PROVE  /\ Holds(Left(l)', u) <=> Holds(Left(l), u) \/ (l = l0 /\ u = v)
               /\ HoldsOnce(Left(l), u) => HoldsOnce(Left(l)', u)
    <3>1. CASE l = l0
      <4>1. Left(l)' = Append(Left(l0), v)
        BY <1>2, <2>3, <3>1
      <4>2. /\ Holds(Append(Left(l0), v), u) <=> Holds(Left(l0), u) \/ u = v
            /\ HoldsOnce(Left(l0), u) /\ (u = v => ~Holds(Left(l0), v)) => HoldsOnce(Append(Left(l0), v), u)
        BY <1>2, <2>4, AppendHolds
      <4> QED BY <1>2, <2>7, <3>1, <4>1, <4>2
    <3>2. CASE l # l0
      BY <2>3, <3>2
    <3> QED BY <3>1, <3>2
  <2>10. \A l \in Levels : HoldsOnce(Left(l)', v)
    BY <2>7, <2>9 DEF Holds, HoldsOnce
  <2> HIDE DEF l0
  <2>11. PlacesMatch'
    <3> SUFFICES ASSUME NEW u \in Vertices
                 PROVE  /\ flag'[u] => (\E l \in Levels : Holds(Left(l)', u)) \/ \E a \in Agents : Holds(chunk[a], u)
                        /\ \A l \in Levels : Holds(Left(l)', u) =>
                             flag'[u] /\ l = level[u] /\ HoldsOnce(Left(l)', u) /\ \A a \in Agents : ~Holds(chunk[a], u)
                        /\ \A a \in Agents : Holds(chunk[a], u) =>
                             flag'[u] /\ HoldsOnce(chunk[a], u) /\ \A b \in Agents : Holds(chunk[b], u) => a = b
      BY <1>1 DEF PlacesMatch
    <3>1. CASE u = v
      <4>1. Holds(Left(l0)', v) /\ l0 = level[v]
        BY <1>2, <2>9 DEF l0
      <4> QED BY <1>2, <2>6, <2>7, <2>8, <2>9, <2>10, <3>1, <4>1
    <3>2. CASE u # v
      BY <2>6, <2>9, <3>2 DEF StoreInv, PlacesMatch
    <3> QED BY <3>1, <3>2
  <2>12. /\ IF Forward THEN first' \in 0 .. MaxLevel + 1 /\ last' \in 0 .. MaxLevel
                      ELSE first' \in -1 .. MaxLevel /\ last' \in 0 .. MaxLevel + 1
         /\ NotAfter(first', l0) /\ NotAfter(l0, last')
         /\ \A l \in Levels : /\ NotAfter(first, l) => NotAfter(first', l)
                              /\ NotAfter(l, last) => NotAfter(l, last')
    BY <1>2, <2>1, WidenWindow DEF CallInv, StoreInv
  <2>13. WindowCovers' /\ WindowInLevels'
    <3>1. WindowInLevels'
      BY <1>1, <2>12, OrderStays DEF WindowInLevels
    <3>2. ASSUME NEW l \in Levels, NEW u \in Vertices, Holds(Left(l)', u)
          PROVE  (pc' = "drain" /\ l = lvl') \/ (NotAfter(first', l) /\ NotAfter(l, last'))
      <4>1. CASE l = l0 /\ u = v
        BY <2>12, <4>1
      <4>2. CASE Holds(Left(l), u)
        BY <1>1, <2>12, <4>2 DEF StoreInv, WindowCovers
      <4> QED BY <2>9, <3>2, <4>1, <4>2
    <3>3. \A l : NotAfter(first, l)' <=> NotAfter(first', l)
      BY <1>1 DEF NotAfter, Before, Forward
    <3>4. \A l : NotAfter(l, last)' <=> NotAfter(l, last')
      BY <1>1 DEF NotAfter, Before, Forward
    <3> QED BY <3>1, <3>2, <3>3, <3>4 DEF WindowCovers
  <2>14. OwedFlagged'
    BY <1>1, <1>2, <2>6 DEF StoreInv, OwedFlagged
  <2>15. pc' = "copies" => Len(queue'[lvl']) = snap'
    BY <1>1, <1>2, <2>1, <2>2 DEF StoreInv
  <2> QED BY <1>3, <2>5, <2>6, <2>11, <2>13, <2>14, <2>15 DEF StoreInv
<1> QED BY <1>4, <1>5

(* Only the call moves on: nothing enters or leaves the queue.             *)
LEMMA StoreFrame ==
  ASSUME StoreInv, UNCHANGED <<mode, queue, flag, level, first, last, chunk>>,
         owed' \in [Vertices -> BOOLEAN], \A v \in Vertices : owed'[v] => flag[v],
         \/ pc' = pc /\ lvl' = lvl /\ snap' = snap
         \/ /\ pc # "copies" /\ pc' # "copies"
            /\ pc = "drain" => queue[lvl] = <<>>
  PROVE  StoreInv'
<1>1. /\ mode' = mode /\ queue' = queue /\ flag' = flag /\ level' = level
      /\ first' = first /\ last' = last /\ chunk' = chunk
  OBVIOUS
<1>2. \A l : Left(l)' = Left(l)
  BY <1>1 DEF Left
<1>3. PlacesMatch'
  BY <1>1, <1>2 DEF StoreInv, PlacesMatch
<1>4. WindowInLevels'
  BY <1>1, OrderStays DEF StoreInv, WindowInLevels
<1>5. OwedFlagged'
  BY <1>1 DEF OwedFlagged
<1>6. pc = "drain" /\ queue[lvl] = <<>> => \A v : ~Holds(Left(lvl), v)
  BY EmptyHolds DEF Left
<1>7. WindowCovers'
  <2>1. \A l : /\ NotAfter(first, l)' <=> NotAfter(first, l)
               /\ NotAfter(l, last)' <=> NotAfter(l, last)
    BY <1>1 DEF NotAfter, Before, Forward
  <2> QED BY <1>1, <1>2, <1>6, <2>1 DEF StoreInv, WindowCovers
<1>8. pc' = "copies" => Len(queue'[lvl']) = snap'
  BY <1>1 DEF StoreInv
<1> QED BY <1>1, <1>3, <1>4, <1>5, <1>7, <1>8 DEF StoreInv

(* The entries of the vertices of G leave the queue and the chunks, with   *)
(* their flags.                                                            *)
LEMMA PlacesRemoved ==
  ASSUME PlacesMatch, NEW G,
         \A u \in Vertices : flag'[u] <=> flag[u] /\ u \notin G,
         \A u \in Vertices \ G : level'[u] = level[u],
         \A u \in Vertices : \A l \in Levels :
           /\ Holds(Left(l)', u) <=> Holds(Left(l), u) /\ u \notin G
           /\ HoldsOnce(Left(l), u) => HoldsOnce(Left(l)', u),
         \A u \in Vertices : \A a \in Agents :
           /\ Holds(chunk'[a], u) <=> Holds(chunk[a], u) /\ u \notin G
           /\ HoldsOnce(chunk[a], u) => HoldsOnce(chunk'[a], u)
  PROVE  PlacesMatch'
<1> SUFFICES ASSUME NEW u \in Vertices
             PROVE  /\ flag'[u] => (\E l \in Levels : Holds(Left(l)', u)) \/ \E a \in Agents : Holds(chunk'[a], u)
                    /\ \A l \in Levels : Holds(Left(l)', u) =>
                         flag'[u] /\ l = level'[u] /\ HoldsOnce(Left(l)', u) /\ \A a \in Agents : ~Holds(chunk'[a], u)
                    /\ \A a \in Agents : Holds(chunk'[a], u) =>
                         flag'[u] /\ HoldsOnce(chunk'[a], u) /\ \A b \in Agents : Holds(chunk'[b], u) => a = b
  BY DEF PlacesMatch
<1> QED BY DEF PlacesMatch

(* remove(): the vertex and its flag go together.                          *)
LEMMA RemoveStep ==
  ASSUME StoreInv, CallInv, pc = "idle", NEW v \in Vertices, RemoveEntry(v),
         UNCHANGED <<mode, first, last, pc, lvl, chunk>>,
         \A u \in Vertices \ {v} : level'[u] = level[u]
  PROVE  StoreInv'
<1>1. /\ mode' = mode /\ first' = first /\ last' = last /\ pc' = pc /\ lvl' = lvl /\ chunk' = chunk
      /\ flag' = [flag EXCEPT ![v] = FALSE] /\ owed' = [owed EXCEPT ![v] = FALSE]
      /\ flag \in [Vertices -> BOOLEAN] /\ owed \in [Vertices -> BOOLEAN]
      /\ queue \in [Levels -> Seq(Entries)] /\ level[v] \in Levels
  BY DEF RemoveEntry, StoreInv, CallInv
<1>2. \A l : Left(l) = queue[l] /\ Left(l)' = queue'[l]
  BY <1>1 DEF Left
<1>3. ~flag[v] => \A l \in Levels : ~Holds(queue[l], v)
  BY <1>2 DEF StoreInv, PlacesMatch
<1>4. \A l \in Levels : Holds(queue[l], v) => l = level[v]
  BY <1>2 DEF StoreInv, PlacesMatch
<1>5. ASSUME NEW u \in Vertices, NEW l \in Levels
      PROVE  /\ queue'[l] \in Seq(Entries)
             /\ Holds(queue'[l], u) <=> Holds(queue[l], u) /\ u # v
             /\ HoldsOnce(queue[l], u) => HoldsOnce(queue'[l], u)
  <2>1. CASE flag[v] /\ l = level[v]
    <3>1. queue'[l] = [i \in DOMAIN queue[l] |-> IF queue[l][i] = v THEN Null ELSE queue[l][i]]
      BY <1>1, <2>1 DEF RemoveEntry
    <3> QED BY <1>1, <3>1, NullHolds
  <2>2. CASE ~(flag[v] /\ l = level[v])
    <3>1. queue'[l] = queue[l]
      BY <1>1, <2>2 DEF RemoveEntry
    <3> QED BY <1>1, <1>3, <1>4, <2>2, <3>1
  <2> QED BY <2>1, <2>2
<1>6. queue' \in [Levels -> Seq(Entries)]
  <2>1. \A l \in Levels : queue'[l] \in Seq(Entries)
    BY <1>5
  <2>2. queue' = [l \in Levels |-> queue'[l]]
    BY <1>1 DEF RemoveEntry
  <2> QED BY <2>1, <2>2
<1>7. \A u : \A a \in Agents : chunk'[a] = <<>> /\ chunk[a] = <<>> /\ ~Holds(<<>>, u)
  BY <1>1, EmptyHolds DEF CallInv, VisitsMatchCall
<1>8. PlacesMatch'
  <2>1. \A u \in Vertices : flag'[u] <=> flag[u] /\ u \notin {v}
    BY <1>1
  <2> QED BY <1>2, <1>5, <1>7, <2>1, PlacesRemoved DEF StoreInv
<1>9. WindowInLevels'
  BY <1>1, OrderStays DEF StoreInv, WindowInLevels
<1>10. WindowCovers'
  <2>1. \A l : /\ NotAfter(first, l)' <=> NotAfter(first, l)
               /\ NotAfter(l, last)' <=> NotAfter(l, last)
    BY <1>1 DEF NotAfter, Before, Forward
  <2> QED BY <1>1, <1>2, <1>5, <2>1 DEF StoreInv, WindowCovers
<1>11. OwedFlagged' /\ flag' \in [Vertices -> BOOLEAN] /\ owed' \in [Vertices -> BOOLEAN]
  BY <1>1 DEF StoreInv, OwedFlagged
<1> QED BY <1>1, <1>6, <1>8, <1>9, <1>10, <1>11 DEF StoreInv

(* clear(): what waits lies in the window, so everything goes.             *)
LEMMA ClearStep ==
  ASSUME StoreInv, CallInv, Clear, UNCHANGED mode
  PROVE  StoreInv'
<1> DEFINE window == {l \in Levels : NotAfter(first, l) /\ NotAfter(l, last)}
           gone == UNION {ToSet(queue[l]) : l \in window}
<1>1. /\ mode' = mode /\ pc = "idle" /\ pc' = pc /\ lvl' = lvl /\ chunk' = chunk /\ level' = level
      /\ first' = NoFirst /\ last' = NoLast
      /\ queue' = [l \in Levels |-> IF l \in window THEN <<>> ELSE queue[l]]
      /\ flag' = [v \in Vertices |-> flag[v] /\ v \notin gone]
      /\ owed' = [v \in Vertices |-> owed[v] /\ v \notin gone]
      /\ flag \in [Vertices -> BOOLEAN] /\ owed \in [Vertices -> BOOLEAN]
      /\ queue \in [Levels -> Seq(Entries)]
  BY DEF Clear, owner, agents, StoreInv, CallInv
<1>2. \A l : Left(l) = queue[l] /\ Left(l)' = queue'[l]
  BY <1>1 DEF Left
<1>3. \A u \in Vertices : \A l \in Levels : Holds(queue[l], u) => l \in window
  BY <1>1, <1>2 DEF StoreInv, WindowCovers
<1>4. \A u : \A l \in window : Holds(queue[l], u) => u \in gone
  <2>1. \A u : \A l : Holds(queue[l], u) => u \in ToSet(queue[l])
    BY DEF Holds, ToSet
  <2> QED BY <2>1
<1> HIDE DEF window, gone
<1>5. \A u \in Vertices : \A l \in Levels : ~Holds(queue'[l], u)
  BY <1>1, <1>3, EmptyHolds
<1>6. \A u \in Vertices : \A l \in Levels : HoldsOnce(queue'[l], u)
  BY <1>5 DEF Holds, HoldsOnce
<1>7. \A u : \A a \in Agents : chunk'[a] = <<>> /\ chunk[a] = <<>> /\ ~Holds(<<>>, u)
  BY <1>1, EmptyHolds DEF CallInv, VisitsMatchCall
<1>8. PlacesMatch'
  <2>1. \A u \in Vertices : flag'[u] <=> flag[u] /\ u \notin gone
    BY <1>1
  <2>2. \A u \in Vertices : \A l \in Levels :
          /\ Holds(Left(l)', u) <=> Holds(Left(l), u) /\ u \notin gone
          /\ HoldsOnce(Left(l), u) => HoldsOnce(Left(l)', u)
    BY <1>2, <1>3, <1>4, <1>5, <1>6
  <2> QED BY <1>1, <1>7, <2>1, <2>2, PlacesRemoved DEF StoreInv
<1>9. WindowInLevels'
  BY <1>1, OrderStays, ModeFacts DEF CallInv, WindowInLevels, NoFirst, NoLast
<1>10. WindowCovers'
  BY <1>2, <1>5 DEF WindowCovers
<1>11. OwedFlagged' /\ flag' \in [Vertices -> BOOLEAN] /\ owed' \in [Vertices -> BOOLEAN]
  BY <1>1 DEF StoreInv, OwedFlagged
<1>12. queue' \in [Levels -> Seq(Entries)]
  BY <1>1
<1> QED BY <1>1, <1>8, <1>9, <1>10, <1>11, <1>12 DEF StoreInv

(* Taking an entry for a visit resets the vertex's flag first.             *)
LEMMA FlagTaken ==
  ASSUME flag \in [Vertices -> BOOLEAN], owed \in [Vertices -> BOOLEAN], OwedFlagged,
         NEW a, NEW e \in Entries, TakeEntry(a, e) \/ BeginVertex(a, e)
  PROVE  /\ flag' \in [Vertices -> BOOLEAN] /\ owed' \in [Vertices -> BOOLEAN] /\ OwedFlagged'
         /\ \A u \in Vertices : flag'[u] <=> flag[u] /\ u \notin {e}
<1>1. Null \notin Vertices
  BY GraphAssumption
<1>2. CASE e = Null /\ flag' = flag /\ owed' = owed
  BY <1>1, <1>2 DEF OwedFlagged
<1>3. CASE BeginVertex(a, e)
  <2>1. flag' = [flag EXCEPT ![e] = FALSE] /\ owed' = [owed EXCEPT ![e] = FALSE]
    BY <1>3 DEF BeginVertex
  <2>2. \A u \in Vertices : /\ flag'[u] = IF u = e THEN FALSE ELSE flag[u]
                            /\ owed'[u] = IF u = e THEN FALSE ELSE owed[u]
    BY <2>1
  <2>3. flag' \in [Vertices -> BOOLEAN] /\ owed' \in [Vertices -> BOOLEAN]
    BY <2>1
  <2> QED BY <2>2, <2>3 DEF OwedFlagged
<1> QED BY <1>2, <1>3 DEF TakeEntry

(* The last entry of a level's live vector is taken.                       *)
LEMMA TakeLast ==
  ASSUME StoreInv, CallInv, pc # "copies", pc' # "copies",
         NEW l \in Levels, queue[l] # <<>>, queue' = [queue EXCEPT ![l] = Front(queue[l])],
         TakeEntry(0, Last(queue[l])) \/ BeginVertex(0, Last(queue[l])),
         UNCHANGED <<mode, level, chunk>>
  PROVE  /\ queue' \in [Levels -> Seq(Entries)] /\ PlacesMatch' /\ OwedFlagged'
         /\ flag' \in [Vertices -> BOOLEAN] /\ owed' \in [Vertices -> BOOLEAN]
         /\ \A k \in Levels, u \in Vertices : Holds(Left(k)', u) => Holds(queue[k], u) /\ Holds(Left(k), u)
<1> DEFINE e == Last(queue[l])
<1>1. /\ queue \in [Levels -> Seq(Entries)] /\ queue[l] \in Seq(Entries)
      /\ flag \in [Vertices -> BOOLEAN] /\ owed \in [Vertices -> BOOLEAN] /\ OwedFlagged
  BY DEF StoreInv
<1>2. \A k : Left(k) = queue[k] /\ Left(k)' = queue'[k]
  BY DEF Left
<1>3. /\ queue'[l] = Front(queue[l]) /\ \A k \in Levels : k # l => queue'[k] = queue[k]
      /\ DOMAIN queue' = Levels
  BY <1>1
<1>4. \A u : /\ Front(queue[l]) \in Seq(Entries) /\ e \in Entries /\ Holds(queue[l], e)
             /\ Holds(Front(queue[l]), u) => Holds(queue[l], u)
             /\ Holds(queue[l], u) => Holds(Front(queue[l]), u) \/ u = e
             /\ HoldsOnce(queue[l], u) => HoldsOnce(Front(queue[l]), u)
             /\ HoldsOnce(queue[l], e) => ~Holds(Front(queue[l]), e)
  BY <1>1, FrontHolds
<1>5. /\ flag' \in [Vertices -> BOOLEAN] /\ owed' \in [Vertices -> BOOLEAN] /\ OwedFlagged'
      /\ \A u \in Vertices : flag'[u] <=> flag[u] /\ u \notin {e}
  BY <1>1, <1>4, FlagTaken
<1> HIDE DEF e
<1>6. queue' \in [Levels -> Seq(Entries)]
  BY <1>1, <1>4
<1>7. e \in Vertices => /\ HoldsOnce(queue[l], e)
                        /\ \A k \in Levels : Holds(queue[k], e) => k = l
  BY <1>2, <1>4 DEF StoreInv, PlacesMatch
<1>8. ASSUME NEW u \in Vertices, NEW k \in Levels
      PROVE  /\ Holds(queue'[k], u) <=> Holds(queue[k], u) /\ u \notin {e}
             /\ HoldsOnce(queue[k], u) => HoldsOnce(queue'[k], u)
  <2>1. CASE k = l
    BY <1>3, <1>4, <1>7, <2>1
  <2>2. CASE k # l
    BY <1>3, <1>7, <2>2
  <2> QED BY <2>1, <2>2
<1>9. \A u : \A a \in Agents : chunk'[a] = <<>> /\ chunk[a] = <<>> /\ ~Holds(<<>>, u)
  BY EmptyHolds DEF CallInv, VisitsMatchCall
<1>10. PlacesMatch'
  <2>1. \A u \in Vertices : \A k \in Levels :
          /\ Holds(Left(k)', u) <=> Holds(Left(k), u) /\ u \notin {e}
          /\ HoldsOnce(Left(k), u) => HoldsOnce(Left(k)', u)
    BY <1>2, <1>8
  <2>2. \A u \in Vertices : \A a \in Agents :
          /\ Holds(chunk'[a], u) <=> Holds(chunk[a], u) /\ u \notin {e}
          /\ HoldsOnce(chunk[a], u) => HoldsOnce(chunk'[a], u)
    BY <1>9
  <2> QED BY <1>5, <2>1, <2>2, PlacesRemoved DEF StoreInv
<1> QED BY <1>2, <1>5, <1>6, <1>8, <1>10

(* visit() pops a vertex and clears its flag, on the owner's thread: the   *)
(* flags stay exact and what is owed keeps an entry.                       *)
LEMMA DrainTakeStep ==
  ASSUME StoreInv, CallInv, DrainTake, UNCHANGED mode
  PROVE  StoreInv'
<1>1. /\ mode' = mode /\ pc = "drain" /\ pc' = pc /\ lvl' = lvl /\ first' = first /\ last' = last
      /\ lvl \in Levels
  BY DEF DrainTake, owner, CallInv
<1>2. /\ queue' \in [Levels -> Seq(Entries)] /\ PlacesMatch' /\ OwedFlagged'
      /\ flag' \in [Vertices -> BOOLEAN] /\ owed' \in [Vertices -> BOOLEAN]
      /\ \A k \in Levels, u \in Vertices : Holds(Left(k)', u) => Holds(Left(k), u)
  BY <1>1, TakeLast DEF DrainTake
<1>3. WindowInLevels'
  BY <1>1, OrderStays DEF StoreInv, WindowInLevels
<1>4. WindowCovers'
  <2>1. \A l : /\ NotAfter(first, l)' <=> NotAfter(first, l)
               /\ NotAfter(l, last)' <=> NotAfter(l, last)
    BY <1>1 DEF NotAfter, Before, Forward
  <2> QED BY <1>1, <1>2, <2>1 DEF StoreInv, WindowCovers
<1> QED BY <1>1, <1>2, <1>3, <1>4 DEF StoreInv

(* next(): hasNext() has skipped only empty levels.                        *)
LEMMA NextVertexStep ==
  ASSUME StoreInv, CallInv, NextVertex, UNCHANGED mode
  PROVE  StoreInv'
<1>1. PICK l \in Levels :
        /\ NotAfter(first, l) /\ NotAfter(l, last)
        /\ queue[l] # <<>>
        /\ \A k \in Levels : NotAfter(first, k) /\ Before(k, l) => queue[k] = <<>>
        /\ first' = l
        /\ queue' = [queue EXCEPT ![l] = Front(queue[l])]
        /\ BeginVertex(0, Last(queue[l]))
  BY DEF NextVertex
<1>2. mode' = mode /\ pc = "idle" /\ pc' = "next" /\ last' = last /\ level' = level /\ chunk' = chunk
  BY DEF NextVertex
<1>3. /\ queue' \in [Levels -> Seq(Entries)] /\ PlacesMatch' /\ OwedFlagged'
      /\ flag' \in [Vertices -> BOOLEAN] /\ owed' \in [Vertices -> BOOLEAN]
      /\ \A k \in Levels, u \in Vertices : Holds(Left(k)', u) => Holds(queue[k], u) /\ Holds(Left(k), u)
  BY <1>1, <1>2, TakeLast
<1>4. WindowInLevels'
  BY <1>1, <1>2, OrderStays, ModeFacts DEF StoreInv, CallInv, WindowInLevels, Levels
<1>5. WindowCovers'
  <2>1. \A k : /\ NotAfter(first, k)' <=> NotAfter(l, k)
               /\ NotAfter(k, last)' <=> NotAfter(k, last)
    BY <1>1, <1>2 DEF NotAfter, Before, Forward
  <2>2. ASSUME NEW k \in Levels, NEW u \in Vertices, Holds(Left(k)', u)
        PROVE  NotAfter(l, k) /\ NotAfter(k, last)
    <3>1. Holds(queue[k], u) /\ NotAfter(first, k) /\ NotAfter(k, last)
      BY <1>2, <1>3, <2>2 DEF StoreInv, WindowCovers
    <3>2. queue[k] # <<>>
      BY <3>1, EmptyHolds
    <3> QED BY <1>1, <3>1, <3>2 DEF NotAfter
  <2> QED BY <2>1, <2>2 DEF WindowCovers
<1> QED BY <1>2, <1>3, <1>4, <1>5 DEF StoreInv

(* A thread takes the next entry of its chunk.                             *)
LEMMA ChunkTakeStep ==
  ASSUME StoreInv, CallInv, NEW a \in Agents, ChunkTake(a), UNCHANGED mode
  PROVE  StoreInv'
<1> DEFINE s == chunk[a]
           e == Head(s)
<1>1. /\ mode' = mode /\ pc' = pc /\ lvl' = lvl /\ snap' = snap /\ first' = first /\ last' = last
      /\ queue' = queue /\ level' = level /\ s # <<>> /\ s \in Seq(Entries)
      /\ chunk' = [chunk EXCEPT ![a] = Tail(s)] /\ chunk \in [Agents -> Seq(Entries)]
      /\ TakeEntry(a, e)
  BY DEF ChunkTake, owner, CallInv
<1>2. \A l : Left(l)' = Left(l)
  BY <1>1 DEF Left
<1>3. \A u : /\ Tail(s) \in Seq(Entries) /\ e \in Entries /\ Holds(s, e)
             /\ Holds(Tail(s), u) => Holds(s, u)
             /\ Holds(s, u) => Holds(Tail(s), u) \/ u = e
             /\ HoldsOnce(s, u) => HoldsOnce(Tail(s), u)
             /\ HoldsOnce(s, e) => ~Holds(Tail(s), e)
  BY <1>1, TailHolds
<1>4. /\ flag' \in [Vertices -> BOOLEAN] /\ owed' \in [Vertices -> BOOLEAN] /\ OwedFlagged'
      /\ \A u \in Vertices : flag'[u] <=> flag[u] /\ u \notin {e}
  BY <1>1, <1>3, FlagTaken DEF StoreInv
<1>5. chunk'[a] = Tail(s) /\ \A b \in Agents : b # a => chunk'[b] = chunk[b]
  BY <1>1
<1> HIDE DEF e
<1>6. e \in Vertices => /\ HoldsOnce(s, e)
                        /\ \A b \in Agents : Holds(chunk[b], e) => b = a
                        /\ \A l \in Levels : ~Holds(Left(l), e)
  BY <1>3 DEF StoreInv, PlacesMatch
<1>7. ASSUME NEW u \in Vertices, NEW b \in Agents
      PROVE  /\ Holds(chunk'[b], u) <=> Holds(chunk[b], u) /\ u \notin {e}
             /\ HoldsOnce(chunk[b], u) => HoldsOnce(chunk'[b], u)
  <2>1. CASE b = a
    BY <1>3, <1>5, <1>6, <2>1
  <2>2. CASE b # a
    BY <1>5, <1>6, <2>2
  <2> QED BY <2>1, <2>2
<1>8. PlacesMatch'
  <2>1. \A u \in Vertices : \A l \in Levels :
          /\ Holds(Left(l)', u) <=> Holds(Left(l), u) /\ u \notin {e}
          /\ HoldsOnce(Left(l), u) => HoldsOnce(Left(l)', u)
    BY <1>2, <1>6
  <2> QED BY <1>1, <1>4, <1>7, <2>1, PlacesRemoved DEF StoreInv
<1>9. WindowInLevels'
  BY <1>1, OrderStays DEF StoreInv, WindowInLevels
<1>10. WindowCovers'
  <2>1. \A l : /\ NotAfter(first, l)' <=> NotAfter(first, l)
               /\ NotAfter(l, last)' <=> NotAfter(l, last)
    BY <1>1 DEF NotAfter, Before, Forward
  <2> QED BY <1>1, <1>2, <2>1 DEF StoreInv, WindowCovers
<1> QED BY <1>1, <1>4, <1>8, <1>9, <1>10 DEF StoreInv

(* A level begun lies in the window, which then ends before it.            *)
LEMMA BeginsInWindow ==
  ASSUME mode \in Modes, WindowInLevels, MoreLevels, toLevel \in Levels
  PROVE  /\ first \in Levels /\ NotAfter(first, last)
         /\ IF Forward THEN Incr(first) \in 0 .. MaxLevel + 1 ELSE Incr(first) \in -1 .. MaxLevel
         /\ \A l \in Levels : NotAfter(first, l) /\ l # first => NotAfter(Incr(first), l)
<1>1. MaxLevel \in Nat /\ toLevel \in 0 .. MaxLevel
  BY ModeFacts DEF Levels
<1>2. CASE Forward
  <2> USE <1>2 DEF NotAfter, Before, Incr
  <2>1. first \in 0 .. MaxLevel + 1 /\ ~(toLevel < first)
    BY DEF WindowInLevels, MoreLevels
  <2> QED BY <1>1, <2>1 DEF Levels, MoreLevels
<1>3. CASE ~Forward
  <2> USE <1>3 DEF NotAfter, Before, Incr
  <2>1. first \in -1 .. MaxLevel /\ ~(toLevel > first)
    BY DEF WindowInLevels, MoreLevels
  <2> QED BY <1>1, <2>1 DEF Levels, MoreLevels
<1> QED BY <1>2, <1>3

(* What each agent is given of the entries s of a level.                   *)
LEMMA HandOut ==
  ASSUME mode \in Modes, NEW s \in Seq(Entries), s # <<>>, NEW f,
         f = [a \in Agents |->
                IF Len(s) < Threads
                  THEN IF a = 0 THEN s ELSE <<>>
                  ELSE IF a \in 1 .. Threads THEN Chunk(s, a) ELSE <<>>]
  PROVE  /\ f \in [Agents -> Seq(Entries)]
         /\ \A v : Holds(s, v) => \E a \in Agents : Holds(f[a], v)
         /\ \A v : \A a \in Agents :
              /\ Holds(f[a], v) => Holds(s, v)
              /\ HoldsOnce(s, v) => HoldsOnce(f[a], v)
              /\ HoldsOnce(s, v) /\ Holds(f[a], v) => \A b \in Agents : Holds(f[b], v) => a = b
<1>1. /\ Threads \in Nat /\ Threads >= 1 /\ Agents = 0 .. MaxThreads
      /\ 0 \in Agents /\ 1 .. Threads \subseteq Agents /\ <<>> \in Seq(Entries) /\ Len(s) \in Nat
  BY ModeFacts DEF Agents
<1>2. \A v : ~Holds(<<>>, v) /\ HoldsOnce(<<>>, v)
  BY DEF Holds, HoldsOnce
<1>3. CASE Len(s) < Threads
  <2>1. /\ f = [a \in Agents |-> IF a = 0 THEN s ELSE <<>>]
        /\ \A a \in Agents : f[a] = IF a = 0 THEN s ELSE <<>>
    BY <1>3
  <2>2. f \in [Agents -> Seq(Entries)]
    BY <1>1, <2>1
  <2> QED BY <1>1, <1>2, <2>1, <2>2
<1>4. CASE ~(Len(s) < Threads)
  <2>1. /\ f = [a \in Agents |-> IF a \in 1 .. Threads THEN Chunk(s, a) ELSE <<>>]
        /\ \A a \in Agents : f[a] = IF a \in 1 .. Threads THEN Chunk(s, a) ELSE <<>>
    BY <1>4
  <2>2. Len(s) >= Threads
    BY <1>1, <1>4
  <2>3. \A k \in 1 .. Threads : Chunk(s, k) \in Seq(Entries)
    BY <1>1, <2>2, ChunksPartition
  <2>4. f \in [Agents -> Seq(Entries)]
    BY <1>1, <2>1, <2>3
  <2>5. ASSUME NEW v, Holds(s, v) PROVE \E a \in Agents : Holds(f[a], v)
    <3>1. PICK k \in 1 .. Threads : Holds(Chunk(s, k), v)
      BY <1>1, <2>2, <2>5, ChunksCover
    <3> QED BY <1>1, <2>1, <3>1
  <2>6. ASSUME NEW v, NEW a \in Agents
        PROVE  /\ Holds(f[a], v) => Holds(s, v)
               /\ HoldsOnce(s, v) => HoldsOnce(f[a], v)
               /\ HoldsOnce(s, v) /\ Holds(f[a], v) => \A b \in Agents : Holds(f[b], v) => a = b
    <3>1. CASE a \in 1 .. Threads
      <4>1. /\ Holds(Chunk(s, a), v) => Holds(s, v)
            /\ HoldsOnce(s, v) => HoldsOnce(Chunk(s, a), v)
            /\ HoldsOnce(s, v) /\ Holds(Chunk(s, a), v) =>
                 \A j \in 1 .. Threads : Holds(Chunk(s, j), v) => j = a
        BY <1>1, <2>2, <3>1, ChunksPartition
      <4> QED BY <1>2, <2>1, <3>1, <4>1
    <3>2. CASE a \notin 1 .. Threads
      BY <1>2, <2>1, <3>2
    <3> QED BY <3>1, <3>2
  <2> QED BY <2>4, <2>5, <2>6
<1> QED BY <1>3, <1>4

(* A level begun: its entries stay, or move to the chunks.                 *)
LEMMA BeginLevelStep ==
  ASSUME StoreInv, CallInv, BeginLevel, UNCHANGED mode
  PROVE  StoreInv'
<1> DEFINE s == queue[first]
<1>1. /\ mode' = mode /\ pc = "level" /\ lvl' = first /\ first' = Incr(first) /\ last' = last
      /\ queue' = queue /\ flag' = flag /\ level' = level /\ owed' = owed
      /\ queue \in [Levels -> Seq(Entries)] /\ mode \in Modes
  BY DEF BeginLevel, StoreInv, CallInv
<1>2. /\ first \in Levels /\ NotAfter(first, last)
      /\ IF Forward THEN Incr(first) \in 0 .. MaxLevel + 1 ELSE Incr(first) \in -1 .. MaxLevel
      /\ \A l \in Levels : NotAfter(first, l) /\ l # first => NotAfter(Incr(first), l)
  BY <1>1, BeginsInWindow DEF BeginLevel, StoreInv, CallInv
<1>3. WindowInLevels'
  BY <1>1, <1>2, OrderStays DEF WindowInLevels, StoreInv
<1>4. \A l : Left(l) = queue[l]
  BY <1>1 DEF Left
<1>5. \A l \in Levels, v \in Vertices : Holds(queue[l], v) => NotAfter(first, l) /\ NotAfter(l, last)
  BY <1>1, <1>4 DEF StoreInv, WindowCovers
<1>6. \A l : /\ NotAfter(first, l)' <=> NotAfter(Incr(first), l)
             /\ NotAfter(l, last)' <=> NotAfter(l, last)
  BY <1>1 DEF NotAfter, Before, Forward
<1>7. OwedFlagged'
  BY <1>1 DEF StoreInv, OwedFlagged
<1> HIDE DEF s
<1>8. CASE pc' # "copies" /\ chunk' = chunk /\ (s = <<>> \/ pc' = "drain")
  <2>1. \A l : Left(l)' = Left(l)
    BY <1>1, <1>4, <1>8 DEF Left
  <2>2. PlacesMatch'
    BY <1>1, <1>8, <2>1 DEF StoreInv, PlacesMatch
  <2>3. WindowCovers'
    <3> SUFFICES ASSUME NEW l \in Levels, NEW v \in Vertices, Holds(Left(l)', v)
                 PROVE  \/ pc' = "drain" /\ l = lvl'
                        \/ NotAfter(Incr(first), l) /\ NotAfter(l, last)
      BY <1>6 DEF WindowCovers
    <3>1. Holds(queue[l], v)
      BY <1>4, <2>1
    <3>2. l = first => pc' = "drain"
      BY <1>8, <3>1, EmptyHolds DEF s
    <3> QED BY <1>1, <1>2, <1>5, <3>1, <3>2
  <2> QED BY <1>1, <1>3, <1>7, <1>8, <2>2, <2>3 DEF StoreInv
<1>9. CASE /\ pc' = "copies" /\ s # <<>> /\ snap' = Len(s)
           /\ chunk' = [a \in Agents |->
                          IF Len(s) < Threads
                            THEN IF a = 0 THEN s ELSE <<>>
                            ELSE IF a \in 1 .. Threads THEN Chunk(s, a) ELSE <<>>]
  <2>1. s \in Seq(Entries)
    BY <1>1, <1>2 DEF s
  <2>2. /\ \A v : Holds(s, v) => \E a \in Agents : Holds(chunk'[a], v)
        /\ \A v : \A a \in Agents :
             /\ Holds(chunk'[a], v) => Holds(s, v)
             /\ HoldsOnce(s, v) => HoldsOnce(chunk'[a], v)
             /\ HoldsOnce(s, v) /\ Holds(chunk'[a], v) =>
                  \A b \in Agents : Holds(chunk'[b], v) => a = b
    BY <1>1, <1>9, <2>1, HandOut
  <2>3. \A l \in Levels : Left(l)' = IF l = first THEN <<>> ELSE queue[l]
    BY <1>1, <1>9 DEF Left
  <2>4. ASSUME NEW l \in Levels, NEW v
        PROVE  Holds(Left(l)', v) => l # first /\ Holds(queue[l], v)
    BY <2>3, EmptyHolds
  <2>5. \A v \in Vertices : /\ flag[v] => \E l \in Levels : Holds(queue[l], v)
                            /\ \A l \in Levels : Holds(queue[l], v) =>
                                 flag[v] /\ l = level[v] /\ HoldsOnce(queue[l], v)
    <3>1. \A v : \A a \in Agents : ~Holds(chunk[a], v)
      BY <1>1, EmptyHolds DEF CallInv, VisitsMatchCall
    <3> QED BY <1>4, <3>1 DEF StoreInv, PlacesMatch
  <2>6. PlacesMatch'
    <3> SUFFICES ASSUME NEW v \in Vertices
                 PROVE  /\ flag[v] => (\E l \in Levels : Holds(Left(l)', v)) \/ \E a \in Agents : Holds(chunk'[a], v)
                        /\ \A l \in Levels : Holds(Left(l)', v) =>
                             flag[v] /\ l = level[v] /\ HoldsOnce(Left(l)', v) /\ \A a \in Agents : ~Holds(chunk'[a], v)
                        /\ \A a \in Agents : Holds(chunk'[a], v) =>
                             flag[v] /\ HoldsOnce(chunk'[a], v) /\ \A b \in Agents : Holds(chunk'[b], v) => a = b
      BY <1>1 DEF PlacesMatch
    <3>1. ASSUME NEW l \in Levels, Holds(Left(l)', v)
          PROVE  flag[v] /\ l = level[v] /\ HoldsOnce(Left(l)', v) /\ \A a \in Agents : ~Holds(chunk'[a], v)
      <4>1. l # first /\ Holds(queue[l], v) /\ Left(l)' = queue[l]
        BY <2>3, <2>4, <3>1
      <4>2. ~Holds(s, v)
        BY <1>2, <2>5, <4>1 DEF s
      <4> QED BY <2>2, <2>5, <4>1, <4>2
    <3>2. ASSUME NEW a \in Agents, Holds(chunk'[a], v)
          PROVE  flag[v] /\ HoldsOnce(chunk'[a], v) /\ \A b \in Agents : Holds(chunk'[b], v) => a = b
      <4>1. Holds(s, v)
        BY <2>2, <3>2
      <4>2. flag[v] /\ HoldsOnce(s, v)
        BY <1>2, <2>5, <4>1 DEF s
      <4> QED BY <2>2, <3>2, <4>2
    <3>3. ASSUME flag[v]
          PROVE  (\E l \in Levels : Holds(Left(l)', v)) \/ \E a \in Agents : Holds(chunk'[a], v)
      <4>1. PICK l \in Levels : Holds(queue[l], v)
        BY <2>5, <3>3
      <4>2. CASE l = first
        BY <2>2, <4>1, <4>2 DEF s
      <4>3. CASE l # first
        <5>1. Left(l)' = queue[l]
          BY <2>3, <4>3
        <5> QED BY <4>1, <5>1
      <4> QED BY <4>2, <4>3
    <3> QED BY <3>1, <3>2, <3>3
  <2>7. WindowCovers'
    <3> SUFFICES ASSUME NEW l \in Levels, NEW v \in Vertices, Holds(Left(l)', v)
                 PROVE  NotAfter(Incr(first), l) /\ NotAfter(l, last)
      BY <1>6 DEF WindowCovers
    <3> QED BY <1>2, <1>5, <2>4
  <2>8. Len(queue'[lvl']) = snap'
    BY <1>1, <1>9 DEF s
  <2> QED BY <1>1, <1>3, <1>7, <2>6, <2>7, <2>8 DEF StoreInv
<1> QED BY <1>1, <1>8, <1>9 DEF BeginLevel, s

(* The vector of a level visited from copies is emptied: nothing in it     *)
(* still waits.                                                            *)
LEMMA EndCopiesStep ==
  ASSUME StoreInv, CallInv, EndCopies, UNCHANGED mode
  PROVE  StoreInv'
<1>1. /\ mode' = mode /\ pc = "copies" /\ pc' = "level" /\ lvl' = lvl /\ first' = first /\ last' = last
      /\ queue' = [queue EXCEPT ![lvl] = <<>>] /\ flag' = flag /\ level' = level /\ owed' = owed
      /\ chunk' = chunk /\ lvl \in Levels /\ queue \in [Levels -> Seq(Entries)]
  BY DEF EndCopies, agents, StoreInv, CallInv
<1>2. \A l \in Levels : Left(l)' = Left(l)
  BY <1>1 DEF Left
<1>3. queue' \in [Levels -> Seq(Entries)]
  BY <1>1
<1>4. PlacesMatch'
  BY <1>1, <1>2 DEF StoreInv, PlacesMatch
<1>5. WindowInLevels' /\ OwedFlagged'
  BY <1>1, OrderStays DEF StoreInv, WindowInLevels, OwedFlagged
<1>6. WindowCovers'
  <2>1. \A l : /\ NotAfter(first, l)' <=> NotAfter(first, l)
               /\ NotAfter(l, last)' <=> NotAfter(l, last)
    BY <1>1 DEF NotAfter, Before, Forward
  <2> QED BY <1>1, <1>2, <2>1 DEF StoreInv, WindowCovers
<1> QED BY <1>1, <1>3, <1>4, <1>5, <1>6 DEF StoreInv

-----------------------------------------------------------------------------
(* Between the visits, whatever the call does next.                        *)
LEMMA RestStep ==
  ASSUME CallInv, UNCHANGED <<mode, chunk, cur, todo, want>>,
         \A a \in Agents : cur[a] = Null /\ chunk[a] = <<>>,
         pc' \in {"idle", "level", "drain", "next"},
         toLevel' \in Levels, lvl' \in Levels, snap' \in Nat,
         level' \in [Vertices -> Levels], LevelsOrdered'
  PROVE  CallInv'
<1>1. mode' = mode /\ chunk' = chunk /\ cur' = cur /\ todo' = todo /\ want' = want
  OBVIOUS
<1>2. VisitsMatchCall'
  BY <1>1 DEF CallInv, VisitsMatchCall
<1>3. CopiesPushAhead'
  BY DEF CopiesPushAhead
<1> QED BY <1>1, <1>2, <1>3 DEF CallInv

(* No visit is under way when one of these actions is taken.               *)
LEMMA QuietSteps ==
  ASSUME CallInv, UNCHANGED mode,
         \/ \E v \in Vertices : Enqueue(v) \/ DeleteVertexBefore(v) \/ \E l \in Levels : SetLevel(v, l)
         \/ Clear
         \/ \E l \in Levels : Visit(l)
         \/ EndCopies \/ EndDrain \/ VisitReturn \/ NextReturn
         \/ BeginLevel /\ pc' # "copies" /\ first \in Levels
  PROVE  CallInv'
<1>1. /\ toLevel \in Levels /\ lvl \in Levels /\ snap \in Nat
      /\ level \in [Vertices -> Levels] /\ LevelsOrdered
  BY DEF CallInv
<1>2. (level' = level) => LevelsOrdered'
  BY <1>1 DEF LevelsOrdered
<1>3. pc \in {"idle", "level"} => \A a \in Agents : cur[a] = Null /\ chunk[a] = <<>>
  BY DEF CallInv, VisitsMatchCall
<1>4. ASSUME NEW v \in Vertices, Enqueue(v) \/ DeleteVertexBefore(v)
      PROVE  CallInv'
  <2>1. /\ pc = "idle" /\ pc' = pc /\ toLevel' = toLevel /\ lvl' = lvl /\ snap' = snap
        /\ level' = level /\ UNCHANGED <<chunk, cur, todo, want>>
    BY <1>4 DEF Enqueue, DeleteVertexBefore, Editing, owner, agents
  <2> QED BY <1>1, <1>2, <1>3, <2>1, RestStep
<1>5. ASSUME NEW v \in Vertices, NEW l \in Levels, SetLevel(v, l)
      PROVE  CallInv'
  <2>1. /\ pc = "idle" /\ pc' = pc /\ toLevel' = toLevel /\ lvl' = lvl /\ snap' = snap
        /\ level' = [level EXCEPT ![v] = l] /\ UNCHANGED <<chunk, cur, todo, want>>
    BY <1>5 DEF SetLevel, Editing, owner, agents
  <2>2. level' \in [Vertices -> Levels]
    BY <1>1, <2>1
  <2>3. LevelsOrdered'
    BY <1>5 DEF SetLevel, LevelsOrdered
  <2> QED BY <1>1, <1>3, <2>1, <2>2, <2>3, RestStep
<1>6. CASE Clear
  <2>1. /\ pc = "idle" /\ pc' = pc /\ toLevel' = toLevel /\ lvl' = lvl /\ snap' = snap
        /\ level' = level /\ UNCHANGED <<chunk, cur, todo, want>>
    BY <1>6 DEF Clear, owner, agents
  <2> QED BY <1>1, <1>2, <1>3, <2>1, RestStep
<1>7. ASSUME NEW l \in Levels, Visit(l)
      PROVE  CallInv'
  <2>1. /\ pc = "idle" /\ pc' = "level" /\ toLevel' \in Levels /\ lvl' = lvl /\ snap' = snap
        /\ level' = level /\ UNCHANGED <<chunk, cur, todo, want>>
    BY <1>7 DEF Visit, agents
  <2> QED BY <1>1, <1>2, <1>3, <2>1, RestStep
<1>8. CASE EndCopies
  <2>1. /\ pc' = "level" /\ toLevel' = toLevel /\ lvl' = lvl /\ snap' \in Nat
        /\ level' = level /\ UNCHANGED <<chunk, cur, todo, want>>
        /\ \A a \in Agents : cur[a] = Null /\ chunk[a] = <<>>
    BY <1>8 DEF EndCopies, agents
  <2> QED BY <1>1, <1>2, <2>1, RestStep
<1>9. CASE EndDrain \/ NextReturn
  <2>1. /\ pc \in {"drain", "next"} /\ cur[0] = Null /\ pc' \in {"idle", "level"}
        /\ toLevel' = toLevel /\ lvl' = lvl /\ snap' = snap
        /\ level' = level /\ UNCHANGED <<chunk, cur, todo, want>>
    BY <1>9 DEF EndDrain, NextReturn, agents
  <2>2. \A a \in Agents : cur[a] = Null /\ chunk[a] = <<>>
    BY <2>1 DEF CallInv, VisitsMatchCall
  <2> QED BY <1>1, <1>2, <2>1, <2>2, RestStep
<1>10. CASE VisitReturn
  <2>1. /\ pc = "level" /\ pc' = "idle" /\ toLevel' = toLevel /\ lvl' = lvl /\ snap' = snap
        /\ level' = level /\ UNCHANGED <<chunk, cur, todo, want>>
    BY <1>10 DEF VisitReturn, agents
  <2> QED BY <1>1, <1>2, <1>3, <2>1, RestStep
<1>11. CASE BeginLevel /\ pc' # "copies" /\ first \in Levels
  <2>1. /\ pc = "level" /\ pc' \in {"drain", "level"} /\ toLevel' = toLevel /\ lvl' \in Levels
        /\ snap' = snap /\ level' = level /\ UNCHANGED <<chunk, cur, todo, want>>
    BY <1>11 DEF BeginLevel
  <2> QED BY <1>1, <1>2, <1>3, <2>1, RestStep
<1> QED BY <1>4, <1>5, <1>6, <1>7, <1>8, <1>9, <1>10, <1>11

(* A level handed out in chunks: the copies are of vertices of this level. *)
LEMMA HandOutStep ==
  ASSUME StoreInv, CallInv, UNCHANGED mode, BeginLevel, pc' = "copies"
  PROVE  CallInv'
<1> DEFINE s == queue[first]
<1>1. /\ pc = "level" /\ mode' = mode /\ toLevel' = toLevel /\ lvl' = first /\ level' = level
      /\ cur' = cur /\ todo' = todo /\ want' = want /\ queue' = queue
      /\ Threads > 1 /\ s # <<>> /\ snap' = Len(s)
      /\ chunk' = [a \in Agents |->
                     IF Len(s) < Threads
                       THEN IF a = 0 THEN s ELSE <<>>
                       ELSE IF a \in 1 .. Threads THEN Chunk(s, a) ELSE <<>>]
  BY DEF BeginLevel
<1>2. first \in Levels
  BY BeginsInWindow DEF BeginLevel, StoreInv, CallInv
<1>3. s \in Seq(Entries) /\ Len(s) \in Nat
  BY <1>2 DEF StoreInv
<1>4. Left(first) = s
  BY <1>1 DEF Left
<1>5. \A v \in Vertices : Holds(s, v) => level[v] = first
  BY <1>2, <1>4 DEF StoreInv, PlacesMatch
<1> HIDE DEF s
<1>6. /\ chunk' \in [Agents -> Seq(Entries)]
      /\ \A v : \A a \in Agents : Holds(chunk'[a], v) => Holds(s, v)
  BY <1>1, <1>3, HandOut DEF CallInv
<1>7. \A a \in Agents : cur[a] = Null /\ todo[a] = {} /\ want[a] = Null
  BY <1>1 DEF CallInv, VisitsMatchCall
<1>8. VisitsMatchCall'
  BY <1>1, <1>7, OrderStays DEF VisitsMatchCall
<1>9. CopiesPushAhead'
  BY <1>1, <1>5, <1>6, <1>7 DEF CopiesPushAhead, s
<1>10. LevelsOrdered'
  BY <1>1 DEF CallInv, LevelsOrdered
<1> QED BY <1>1, <1>2, <1>3, <1>6, <1>8, <1>9, <1>10 DEF CallInv

(* What the visit of v has to enqueue.                                     *)
LEMMA VisitEnqueues ==
  ASSUME CallInv, NEW a \in Agents, NEW e \in Entries, BeginVertex(a, e)
  PROVE  /\ cur' = [cur EXCEPT ![a] = e]
         /\ \E U \in SUBSET Vertices :
              /\ todo' = [todo EXCEPT ![a] = U]
              /\ U \subseteq Adjacent(e) \cup RefVertices(e)
              /\ e = Null => U = {}
<1>1. PICK S \in {{}, Adjacent(e)} : todo' = [todo EXCEPT ![a] = S \cup RefVertices(e)]
  BY DEF BeginVertex
<1>2. e = Null => Adjacent(e) = {} /\ RefVertices(e) = {}
  BY GraphAssumption, ModeFacts DEF CallInv, Adjacent, RefVertices
<1>3. /\ S \cup RefVertices(e) \in SUBSET Vertices
      /\ S \cup RefVertices(e) \subseteq Adjacent(e) \cup RefVertices(e)
      /\ e = Null => S \cup RefVertices(e) = {}
  BY <1>2 DEF Adjacent, RefVertices
<1> QED BY <1>1, <1>3 DEF BeginVertex

(* One thread's visits outside copies: from the live vector, or by next(). *)
LEMMA SerialTakeStep ==
  ASSUME StoreInv, CallInv, UNCHANGED mode, DrainTake \/ NextVertex
  PROVE  CallInv'
<1>1. /\ pc \in {"drain", "idle"} /\ pc' \in {"drain", "next"}
      /\ mode' = mode /\ toLevel' = toLevel /\ lvl' = lvl /\ snap' = snap /\ level' = level
      /\ chunk' = chunk /\ want' = want /\ 0 \in Agents
  BY ModeFacts DEF DrainTake, NextVertex, owner, Agents, CallInv
<1>2. PICK e \in Entries : TakeEntry(0, e) \/ BeginVertex(0, e)
  <2>1. CASE DrainTake
    <3>1. queue[lvl] \in Seq(Entries) /\ queue[lvl] # <<>> /\ TakeEntry(0, Last(queue[lvl]))
      BY <2>1 DEF DrainTake, StoreInv, CallInv
    <3> QED BY <3>1, FrontHolds
  <2>2. CASE NextVertex
    <3>1. PICK l \in Levels : queue[l] # <<>> /\ BeginVertex(0, Last(queue[l]))
      BY <2>2 DEF NextVertex
    <3>2. queue[l] \in Seq(Entries)
      BY DEF StoreInv
    <3> QED BY <3>1, <3>2, FrontHolds
  <2> QED BY <2>1, <2>2
<1>3. \A a \in Agents : a # 0 => cur[a] = Null
  BY <1>1 DEF CallInv, VisitsMatchCall
<1>4. cur[0] = Null
  BY <1>1 DEF DrainTake, CallInv, VisitsMatchCall
<1>5. \A a \in Agents : todo[a] = {} /\ want[a] = Null
  BY <1>3, <1>4 DEF CallInv, VisitsMatchCall
<1>6. cur \in [Agents -> Entries] /\ todo \in [Agents -> SUBSET Vertices]
  BY DEF CallInv
<1>7. /\ cur' \in [Agents -> Entries] /\ todo' \in [Agents -> SUBSET Vertices]
      /\ \A a \in Agents : /\ a # 0 => cur'[a] = Null
                           /\ cur'[a] = Null => todo'[a] = {}
  <2>1. CASE cur' = cur /\ todo' = todo
    BY <1>3, <1>5, <1>6, <2>1
  <2>2. CASE BeginVertex(0, e)
    <3>1. PICK U \in SUBSET Vertices : todo' = [todo EXCEPT ![0] = U] /\ (e = Null => U = {})
      BY <1>1, <2>2, VisitEnqueues
    <3>2. cur' = [cur EXCEPT ![0] = e]
      BY <2>2 DEF BeginVertex
    <3>3. cur' \in [Agents -> Entries] /\ todo' \in [Agents -> SUBSET Vertices]
      BY <1>6, <3>1, <3>2
    <3>4. \A a \in Agents : /\ cur'[a] = IF a = 0 THEN e ELSE cur[a]
                            /\ todo'[a] = IF a = 0 THEN U ELSE todo[a]
      BY <1>6, <3>1, <3>2
    <3> QED BY <1>3, <1>5, <3>1, <3>3, <3>4
  <2> QED BY <1>2, <2>1, <2>2 DEF TakeEntry
<1>8. VisitsMatchCall'
  BY <1>1, <1>5, <1>7 DEF CallInv, VisitsMatchCall
<1>9. CopiesPushAhead' /\ LevelsOrdered'
  BY <1>1 DEF CallInv, CopiesPushAhead, LevelsOrdered
<1> QED BY <1>1, <1>7, <1>8, <1>9 DEF CallInv

(* With several threads a visit enqueues only ahead of its own level.      *)
LEMMA EnqueuesAhead ==
  ASSUME RefsGoOn, mode \in Modes, Threads > 1, LevelsOrdered, level \in [Vertices -> Levels],
         NEW v \in Vertices, NEW u \in Adjacent(v) \cup RefVertices(v)
  PROVE  u \in Vertices /\ Before(level[v], level[u])
<1>1. u \in Vertices
  BY DEF Adjacent, RefVertices
<1>2. IF Forward THEN <<v, u>> \in Edges ELSE <<u, v>> \in Edges
  <2>1. CASE u \in Adjacent(v)
    BY <2>1 DEF Adjacent
  <2>2. CASE u \in RefVertices(v)
    <3>1. <<v, u>> \in mode.refs
      BY <2>2 DEF RefVertices
    <3> QED BY <3>1 DEF RefsGoOn, Threads, Forward
  <2> QED BY <2>1, <2>2
<1>3. level[v] \in Int /\ level[u] \in Int
  BY <1>1, ModeFacts DEF Levels
<1>4. CASE Forward
  BY <1>1, <1>2, <1>3, <1>4 DEF LevelsOrdered, Before
<1>5. CASE ~Forward
  BY <1>1, <1>2, <1>3, <1>5 DEF LevelsOrdered, Before
<1> QED BY <1>1, <1>4, <1>5

(* A thread visits the next vertex of its chunk.                           *)
LEMMA ParallelTakeStep ==
  ASSUME RefsGoOn, StoreInv, CallInv, UNCHANGED mode, NEW a \in Agents, ChunkTake(a)
  PROVE  CallInv'
<1> DEFINE e == Head(chunk[a])
<1>1. /\ mode' = mode /\ pc' = pc /\ toLevel' = toLevel /\ lvl' = lvl /\ snap' = snap
      /\ level' = level /\ queue' = queue /\ want' = want
      /\ cur[a] = Null /\ chunk[a] # <<>> /\ chunk[a] \in Seq(Entries)
      /\ chunk' = [chunk EXCEPT ![a] = Tail(chunk[a])] /\ TakeEntry(a, e)
  BY DEF ChunkTake, owner, CallInv
<1>2. pc = "copies" /\ Threads > 1
  BY <1>1 DEF CallInv, VisitsMatchCall
<1>3. /\ chunk \in [Agents -> Seq(Entries)] /\ cur \in [Agents -> Entries]
      /\ todo \in [Agents -> SUBSET Vertices] /\ want \in [Agents -> Entries]
      /\ flag \in [Vertices -> BOOLEAN] /\ OwedFlagged /\ owed \in [Vertices -> BOOLEAN]
  BY DEF CallInv, StoreInv
<1>4. \A u : /\ Tail(chunk[a]) \in Seq(Entries) /\ e \in Entries /\ Holds(chunk[a], e)
             /\ Holds(Tail(chunk[a]), u) => Holds(chunk[a], u)
  BY <1>1, TailHolds
<1>5. \A u \in Vertices : flag'[u] <=> flag[u] /\ u \notin {e}
  BY <1>1, <1>3, <1>4, FlagTaken
<1>6. chunk' \in [Agents -> Seq(Entries)]
  BY <1>1, <1>3, <1>4
<1>7. \A b \in Agents, u \in Vertices : Holds(chunk'[b], u) => Holds(chunk[b], u)
  BY <1>1, <1>3, <1>4
<1>8. todo[a] = {} /\ want[a] = Null
  BY <1>1 DEF CallInv, VisitsMatchCall
<1>9. Null \notin Vertices /\ (e # Null => e \in Vertices)
  BY <1>4, GraphAssumption DEF Entries
<1>10. e # Null => level[e] = lvl
  BY <1>2, <1>4, <1>9 DEF CallInv, CopiesPushAhead
<1> HIDE DEF e
<1>11. PICK U \in SUBSET Vertices :
         /\ todo' = [todo EXCEPT ![a] = U]
         /\ (e = Null => U = {})
         /\ \A u \in U : Before(lvl, level[u])
  <2>1. CASE e = Null
    <3>1. todo' = todo
      BY <1>1, <2>1 DEF TakeEntry
    <3>2. todo' = [todo EXCEPT ![a] = {}]
      BY <1>3, <1>8, <3>1
    <3> WITNESS {} \in SUBSET Vertices
    <3> QED BY <3>2
  <2>2. CASE e # Null
    <3>1. PICK U \in SUBSET Vertices :
            /\ todo' = [todo EXCEPT ![a] = U]
            /\ U \subseteq Adjacent(e) \cup RefVertices(e)
      <4>1. BeginVertex(a, e)
        BY <1>1, <2>2 DEF TakeEntry
      <4>2. e \in Entries
        BY <1>4
      <4> QED BY <4>1, <4>2, VisitEnqueues
    <3>2. \A u \in U : Before(lvl, level[u])
      BY <1>2, <1>9, <1>10, <2>2, <3>1, EnqueuesAhead DEF CallInv
    <3> QED BY <2>2, <3>1, <3>2
  <2> QED BY <2>1, <2>2
<1>12. cur' = [cur EXCEPT ![a] = e]
  <2>1. CASE e = Null
    <3>1. cur' = cur
      BY <1>1, <2>1 DEF TakeEntry
    <3> QED BY <1>1, <1>3, <2>1, <3>1
  <2>2. CASE e # Null
    BY <1>1, <2>2 DEF TakeEntry, BeginVertex
  <2> QED BY <2>1, <2>2
<1>13. /\ cur' \in [Agents -> Entries] /\ todo' \in [Agents -> SUBSET Vertices]
       /\ \A b \in Agents : /\ cur'[b] = IF b = a THEN e ELSE cur[b]
                            /\ todo'[b] = IF b = a THEN U ELSE todo[b]
  BY <1>3, <1>4, <1>11, <1>12
<1>14. VisitsMatchCall'
  <2>1. \A b \in Agents : cur'[b] = Null => todo'[b] = {} /\ want[b] = Null
    BY <1>8, <1>11, <1>13 DEF CallInv, VisitsMatchCall
  <2> QED BY <1>1, <1>2, <2>1, OrderStays DEF VisitsMatchCall
<1>15. CopiesPushAhead'
  <2>1. \A b \in Agents :
          /\ cur[b] # Null => level[cur[b]] = lvl /\ ~flag[cur[b]]
          /\ \A u \in todo[b] : Before(lvl, level[u])
          /\ want[b] # Null => Before(lvl, level[want[b]])
          /\ \A v \in Vertices : Holds(chunk[b], v) => level[v] = lvl
    BY <1>2 DEF CallInv, CopiesPushAhead
  <2>2. ASSUME NEW b \in Agents
        PROVE  /\ cur'[b] # Null => level[cur'[b]] = lvl /\ ~flag'[cur'[b]]
               /\ \A u \in todo'[b] : Before(lvl, level[u])
               /\ \A v \in Vertices : Holds(chunk'[b], v) => level[v] = lvl
    <3>1. CASE b = a
      BY <1>5, <1>7, <1>9, <1>10, <1>11, <1>13, <2>1, <3>1
    <3>2. CASE b # a
      <4>1. cur[b] # Null => cur[b] \in Vertices
        BY <1>3 DEF Entries
      <4> QED BY <1>5, <1>7, <1>13, <2>1, <3>2, <4>1
    <3> QED BY <3>1, <3>2
  <2>3. Len(queue[lvl]) = snap
    BY <1>2 DEF CallInv, CopiesPushAhead
  <2>4. \A u : Before(lvl, level[u])' <=> Before(lvl, level[u])
    BY <1>1 DEF Before, Forward
  <2>5. \A b \in Agents : want[b] # Null => Before(lvl, level[want[b]])'
    BY <1>1, <2>1 DEF Before, Forward
  <2> QED BY <1>1, <2>2, <2>3, <2>4, <2>5 DEF CopiesPushAhead
<1>16. LevelsOrdered'
  BY <1>1 DEF CallInv, LevelsOrdered
<1> QED BY <1>1, <1>6, <1>13, <1>14, <1>15, <1>16 DEF CallInv

(* enqueue() in a visit: the check outside the lock, the push under it,    *)
(* and the end of the visit.                                               *)
LEMMA VisitSteps ==
  ASSUME StoreInv, CallInv, UNCHANGED mode, NEW a \in Agents,
         CheckQueued(a) \/ LockAndPush(a) \/ EndVertex(a)
  PROVE  StoreInv' /\ CallInv'
<1>1. /\ mode' = mode /\ pc' = pc /\ toLevel' = toLevel /\ lvl' = lvl /\ snap' = snap
      /\ level' = level /\ chunk' = chunk
  BY DEF CheckQueued, LockAndPush, EndVertex, owner
<1>2. /\ todo \in [Agents -> SUBSET Vertices] /\ want \in [Agents -> Entries]
      /\ cur \in [Agents -> Entries] /\ chunk \in [Agents -> Seq(Entries)]
      /\ flag \in [Vertices -> BOOLEAN] /\ owed \in [Vertices -> BOOLEAN] /\ OwedFlagged
  BY DEF StoreInv, CallInv
<1>3. Null \notin Vertices /\ Vertices \subseteq Entries /\ Null \in Entries
  BY GraphAssumption DEF Entries
<1>4. LevelsOrdered'
  BY <1>1 DEF CallInv, LevelsOrdered
<1>5. \A b \in Agents : cur[b] # Null => cur[b] \in Vertices
  BY <1>2 DEF Entries
<1>6. pc = "copies" =>
        /\ Len(queue[lvl]) = snap
        /\ \A b \in Agents :
             /\ cur[b] # Null => level[cur[b]] = lvl /\ ~flag[cur[b]]
             /\ \A u \in todo[b] : Before(lvl, level[u])
             /\ want[b] # Null => Before(lvl, level[want[b]])
             /\ \A v \in Vertices : Holds(chunk[b], v) => level[v] = lvl
  BY DEF CallInv, CopiesPushAhead
<1>7. /\ \A u : Before(lvl, level[u])' <=> Before(lvl, level[u])
      /\ \A b : Before(lvl, level[want[b]])' <=> Before(lvl, level[want'[b]])
  BY <1>1 DEF Before, Forward
<1>8. CASE CheckQueued(a)
  <2>1. PICK v \in todo[a] :
          /\ todo' = [todo EXCEPT ![a] = todo[a] \ {v}]
          /\ want' = IF flag[v] THEN want ELSE [want EXCEPT ![a] = v]
          /\ owed' = IF flag[v] THEN [owed EXCEPT ![v] = TRUE] ELSE owed
    BY <1>8 DEF CheckQueued
  <2>2. queue' = queue /\ flag' = flag /\ first' = first /\ last' = last /\ cur' = cur /\ v \in Vertices
    BY <1>2, <1>8, <2>1 DEF CheckQueued
  <2>3. owed' \in [Vertices -> BOOLEAN] /\ \A u \in Vertices : owed'[u] => flag[u]
    BY <1>2, <2>1, <2>2 DEF OwedFlagged
  <2>4. StoreInv'
    BY <1>1, <2>2, <2>3, StoreFrame
  <2>5. /\ todo' \in [Agents -> SUBSET Vertices] /\ want' \in [Agents -> Entries]
        /\ \A b \in Agents : /\ todo'[b] = IF b = a THEN todo[a] \ {v} ELSE todo[b]
                             /\ want'[b] = want[b] \/ (b = a /\ want'[b] = v)
    BY <1>2, <1>3, <2>1, <2>2
  <2>6. cur[a] # Null
    BY <2>1 DEF CallInv, VisitsMatchCall
  <2>7. VisitsMatchCall'
    <3>1. \A b \in Agents : cur[b] = Null => todo'[b] = {} /\ want'[b] = Null
      BY <2>5, <2>6 DEF CallInv, VisitsMatchCall
    <3> QED BY <1>1, <2>2, <3>1, OrderStays DEF CallInv, VisitsMatchCall
  <2>8. CopiesPushAhead'
    <3>1. ASSUME pc = "copies", NEW b \in Agents
          PROVE  /\ \A u \in todo'[b] : Before(lvl, level[u])
                 /\ want'[b] # Null => Before(lvl, level[want'[b]])
      BY <1>6, <2>1, <2>5, <3>1
    <3> QED BY <1>1, <1>6, <1>7, <2>2, <3>1 DEF CopiesPushAhead
  <2> QED BY <1>1, <1>4, <2>2, <2>4, <2>5, <2>7, <2>8 DEF CallInv
<1>9. CASE LockAndPush(a)
  <2> DEFINE v == want[a]
  <2>1. v \in Vertices /\ v # Null /\ Push(v) /\ want' = [want EXCEPT ![a] = Null] /\ cur' = cur /\ todo' = todo
    BY <1>2, <1>9 DEF LockAndPush, Entries
  <2>2. pc = "copies" => Before(lvl, level[v])
    BY <1>6, <2>1
  <2> HIDE DEF v
  <2>3. StoreInv' /\ \A u \in Vertices : flag'[u] => flag[u] \/ u = v
    BY <1>1, <2>1, <2>2, PushStep
  <2>4. /\ want' \in [Agents -> Entries]
        /\ \A b \in Agents : want'[b] = IF b = a THEN Null ELSE want[b]
    BY <1>2, <1>3, <2>1
  <2>5. VisitsMatchCall'
    <3>1. \A b \in Agents : cur[b] = Null => todo[b] = {} /\ want'[b] = Null
      BY <2>4 DEF CallInv, VisitsMatchCall
    <3> QED BY <1>1, <2>1, <3>1, OrderStays DEF CallInv, VisitsMatchCall
  <2>6. CopiesPushAhead'
    <3>1. ASSUME pc = "copies" PROVE Len(queue'[lvl]) = snap
      BY <1>1, <2>3, <3>1 DEF StoreInv
    <3>2. ASSUME pc = "copies", NEW b \in Agents, cur[b] # Null PROVE ~flag'[cur[b]]
      <4>1. level[cur[b]] = lvl /\ ~flag[cur[b]] /\ cur[b] \in Vertices
        BY <1>5, <1>6, <3>2
      <4>2. lvl \in Int
        BY ModeFacts DEF CallInv, Levels
      <4>3. cur[b] # v
        BY <2>2, <3>2, <4>1, <4>2 DEF Before
      <4> QED BY <2>3, <4>1, <4>3
    <3>3. ASSUME pc = "copies", NEW b \in Agents
          PROVE  want'[b] # Null => Before(lvl, level[want'[b]])
      BY <1>6, <2>4, <3>3
    <3> QED BY <1>1, <1>6, <1>7, <2>1, <3>1, <3>2, <3>3 DEF CopiesPushAhead
  <2> QED BY <1>1, <1>4, <2>1, <2>3, <2>4, <2>5, <2>6 DEF CallInv
<1>10. CASE EndVertex(a)
  <2>1. /\ todo[a] = {} /\ want[a] = Null /\ cur' = [cur EXCEPT ![a] = Null]
        /\ queue' = queue /\ flag' = flag /\ first' = first /\ last' = last /\ owed' = owed
        /\ todo' = todo /\ want' = want
    BY <1>10 DEF EndVertex
  <2>2. StoreInv'
    BY <1>1, <1>2, <2>1, StoreFrame DEF OwedFlagged
  <2>3. /\ cur' \in [Agents -> Entries]
        /\ \A b \in Agents : cur'[b] = IF b = a THEN Null ELSE cur[b]
    BY <1>2, <1>3, <2>1
  <2>4. VisitsMatchCall'
    <3>1. \A b \in Agents : cur'[b] = Null => todo[b] = {} /\ want[b] = Null
      BY <2>1, <2>3 DEF CallInv, VisitsMatchCall
    <3>2. \A b \in Agents : cur[b] = Null => cur'[b] = Null
      BY <2>3
    <3> QED BY <1>1, <2>1, <3>1, <3>2, OrderStays DEF CallInv, VisitsMatchCall
  <2>5. CopiesPushAhead'
    <3>1. ASSUME pc = "copies", NEW b \in Agents, cur'[b] # Null
          PROVE  level[cur'[b]] = lvl /\ ~flag[cur'[b]]
      BY <1>6, <2>3, <3>1
    <3> QED BY <1>1, <1>6, <1>7, <2>1, <3>1 DEF CopiesPushAhead
  <2> QED BY <1>1, <1>4, <2>1, <2>2, <2>3, <2>4, <2>5 DEF CallInv
<1> QED BY <1>8, <1>9, <1>10

-----------------------------------------------------------------------------
(* The iterator starts empty.                                              *)
LEMMA InitIInv == Init => IInv
<1> SUFFICES ASSUME Init PROVE IInv
  OBVIOUS
<1> USE DEF Init
<1>1. mode \in Modes /\ MaxLevel \in Nat /\ Level0 \in [Vertices -> Levels] /\ 0 \in Levels
  BY GraphAssumption DEF Levels
<1>2. <<>> \in Seq(Entries) /\ Null \in Entries
  BY DEF Entries
<1>3. \A l \in Levels : Left(l) = <<>>
  BY DEF Left
<1>4. \A a \in Agents : chunk[a] = <<>> /\ cur[a] = Null /\ todo[a] = {} /\ want[a] = Null
  BY DEF Idle
<1>5. StoreInv
  <2>1. /\ queue \in [Levels -> Seq(Entries)] /\ flag \in [Vertices -> BOOLEAN]
        /\ owed \in [Vertices -> BOOLEAN]
    BY <1>2
  <2>2. WindowInLevels
    BY <1>1, ModeFacts DEF WindowInLevels, NoFirst, NoLast
  <2>3. PlacesMatch
    BY <1>3, <1>4, EmptyHolds DEF PlacesMatch
  <2>4. WindowCovers
    BY <1>3, EmptyHolds DEF WindowCovers
  <2> QED BY <2>1, <2>2, <2>3, <2>4 DEF StoreInv, OwedFlagged
<1>6. CallInv
  <2>1. VisitsMatchCall /\ CopiesPushAhead
    BY <1>4 DEF VisitsMatchCall, CopiesPushAhead
  <2>2. LevelsOrdered
    BY GraphAssumption DEF LevelsOrdered
  <2>3. chunk \in [Agents -> Seq(Entries)]
    BY <1>2
  <2>4. cur \in [Agents -> Entries] /\ want \in [Agents -> Entries]
    BY <1>2 DEF Idle
  <2>5. todo \in [Agents -> SUBSET Vertices]
    OBVIOUS
  <2> QED BY <1>1, <2>1, <2>2, <2>3, <2>4, <2>5 DEF CallInv
<1> QED BY <1>5, <1>6 DEF IInv

(* Every step keeps the invariant, if the reference pins go on.            *)
LEMMA NextIInv ==
  ASSUME RefsGoOn, IInv, [Next]_vars
  PROVE  IInv'
<1> USE DEF IInv
<1>1. \A v \in Vertices : owed[v] => flag[v]
  BY DEF StoreInv, OwedFlagged
<1>2. owed \in [Vertices -> BOOLEAN]
  BY DEF StoreInv
<1>3. ASSUME NEW v \in Vertices, Enqueue(v), UNCHANGED mode
      PROVE  IInv'
  <2>1. Push(v) /\ pc = "idle" /\ UNCHANGED <<mode, level, pc, lvl, snap, chunk>>
    BY <1>3 DEF Enqueue, owner, agents
  <2> QED BY <1>3, <2>1, PushStep, QuietSteps
<1>4. ASSUME NEW v \in Vertices, DeleteVertexBefore(v), UNCHANGED mode
      PROVE  IInv'
  <2>1. RemoveEntry(v) /\ pc = "idle" /\ UNCHANGED <<mode, first, last, pc, lvl, chunk, level>>
    BY <1>4 DEF DeleteVertexBefore, Editing, owner, agents
  <2> QED BY <1>4, <2>1, RemoveStep, QuietSteps
<1>5. ASSUME NEW v \in Vertices, NEW l \in Levels, SetLevel(v, l), UNCHANGED mode
      PROVE  IInv'
  <2>1. RemoveEntry(v) /\ pc = "idle" /\ UNCHANGED <<mode, first, last, pc, lvl, chunk>>
    BY <1>5 DEF SetLevel, Editing, owner, agents
  <2>2. \A u \in Vertices \ {v} : level'[u] = level[u]
    BY <1>5 DEF SetLevel, CallInv
  <2> QED BY <1>5, <2>1, <2>2, RemoveStep, QuietSteps
<1>6. CASE Clear /\ UNCHANGED mode
  BY <1>6, ClearStep, QuietSteps
<1>7. ASSUME \/ \E l \in Levels : Visit(l)
             \/ EndDrain \/ VisitReturn \/ NextReturn,
             UNCHANGED mode
      PROVE  IInv'
  <2>1. /\ UNCHANGED <<queue, flag, level, first, last, owed, chunk>>
        /\ pc # "copies" /\ pc' # "copies" /\ (pc = "drain" => queue[lvl] = <<>>)
    BY <1>7 DEF Visit, EndDrain, VisitReturn, NextReturn, agents
  <2> QED BY <1>1, <1>2, <1>7, <2>1, StoreFrame, QuietSteps
<1>8. CASE BeginLevel /\ UNCHANGED mode
  <2>1. first \in Levels
    BY <1>8, BeginsInWindow DEF BeginLevel, StoreInv, CallInv
  <2> QED BY <1>8, <2>1, BeginLevelStep, HandOutStep, QuietSteps
<1>9. CASE EndCopies /\ UNCHANGED mode
  BY <1>9, EndCopiesStep, QuietSteps
<1>10. CASE NextVertex /\ UNCHANGED mode
  BY <1>10, NextVertexStep, SerialTakeStep
<1>11. CASE DrainTake /\ UNCHANGED mode
  BY <1>11, DrainTakeStep, SerialTakeStep
<1>12. ASSUME NEW a \in Agents, Agent(a), UNCHANGED mode
       PROVE  IInv'
  BY <1>12, ChunkTakeStep, ParallelTakeStep, VisitSteps DEF Agent
<1>13. CASE UNCHANGED vars
  <2>1. /\ UNCHANGED <<mode, queue, flag, level, first, last, owed, chunk, pc, lvl, snap>>
        /\ toLevel' = toLevel /\ cur' = cur /\ todo' = todo /\ want' = want
    BY <1>13 DEF vars, owner, agents
  <2>2. StoreInv'
    BY <1>1, <1>2, <2>1, StoreFrame
  <2>3. VisitsMatchCall' /\ LevelsOrdered'
    BY <2>1, OrderStays DEF CallInv, VisitsMatchCall, LevelsOrdered
  <2>4. CopiesPushAhead'
    BY <2>1 DEF CallInv, CopiesPushAhead, Before, Forward
  <2> QED BY <2>1, <2>2, <2>3, <2>4 DEF CallInv
<1> QED
  BY <1>3, <1>4, <1>5, <1>6, <1>7, <1>8, <1>9, <1>10, <1>11, <1>12, <1>13 DEF Next, Step, InCall

(* IInv is an inductive invariant of the iterator.                         *)
THEOREM Invariance == RefsGoOn => (Spec => []IInv)
<1> SUFFICES ASSUME RefsGoOn PROVE Spec => []IInv
  OBVIOUS
<1>1. IInv /\ [Next]_vars => IInv'
  BY NextIInv
<1> QED BY InitIInv, <1>1, PTL DEF Spec

(* In every state of the invariant Left is what FlagMatchesQueue says      *)
(* waits.                                                                  *)
LEMMA WaitingIsLeft ==
  ASSUME IInv, NEW l \in Levels
  PROVE  Waiting(l) = Left(l)
<1>1. queue[l] \in Seq(Entries) /\ Len(queue[l]) \in Nat
  BY DEF IInv, StoreInv
<1>2. SubSeq(queue[l], Len(queue[l]) + 1, Len(queue[l])) = <<>>
  BY <1>1
<1> QED BY <1>1, <1>2 DEF Waiting, Left, IInv, CallInv, CopiesPushAhead

-----------------------------------------------------------------------------
(* The state has the declared types: in particular visit() never indexes   *)
(* queue_ outside its levels (Bfs.cc:138).                                 *)
THEOREM TypeCorrect == RefsGoOn => (Spec => []TypeOK)
<1>1. IInv => TypeOK
  <2>1. ASSUME IInv PROVE first \in -1 .. MaxLevel + 1 /\ last \in 0 .. MaxLevel + 1
    BY <2>1, ModeFacts DEF IInv, StoreInv, CallInv, WindowInLevels
  <2> QED BY <2>1 DEF IInv, StoreInv, CallInv, TypeOK
<1> QED BY <1>1, Invariance, PTL

(* bfs_in_queue_ says exactly which vertices have an entry, and each has   *)
(* one, on its own level or in one thread's chunk: the check outside       *)
(* queue_lock_ (Bfs.cc enqueue) never makes two.                           *)
THEOREM FlagsExact == RefsGoOn => (Spec => []FlagMatchesQueue)
<1>1. IInv => FlagMatchesQueue
  <2> SUFFICES ASSUME IInv PROVE FlagMatchesQueue
    OBVIOUS
  <2>1. \A l \in Levels : Waiting(l) = Left(l)
    BY WaitingIsLeft
  <2>2. PlacesMatch
    BY DEF IInv, StoreInv
  <2>3. ASSUME NEW v \in Vertices
        PROVE  /\ flag[v] <=> InQueue(v) \/ InChunk(v)
               /\ ~(InQueue(v) /\ InChunk(v))
               /\ \A l \in Levels : Holds(Waiting(l), v) => l = level[v] /\ HoldsOnce(Waiting(l), v)
               /\ \A a \in Agents : Holds(chunk[a], v) =>
                    HoldsOnce(chunk[a], v) /\ \A b \in Agents \ {a} : ~Holds(chunk[b], v)
    BY <2>1, <2>2 DEF PlacesMatch, InQueue, InChunk
  <2> QED BY <2>3 DEF FlagMatchesQueue
<1> QED BY <1>1, Invariance, PTL

(* A vertex enqueued and not visited since has an entry, so it will be     *)
(* visited: an enqueue that found the flag set relied on a visit to come.  *)
THEOREM NothingLost == RefsGoOn => (Spec => []NoVisitLost)
<1>1. IInv => NoVisitLost
  <2> SUFFICES ASSUME IInv, NEW v \in Vertices, owed[v] PROVE InQueue(v) \/ InChunk(v)
    BY DEF NoVisitLost
  <2>1. \A l \in Levels : Waiting(l) = Left(l)
    BY WaitingIsLeft
  <2>2. flag[v]
    BY DEF IInv, StoreInv, OwedFlagged
  <2> QED BY <2>1, <2>2 DEF IInv, StoreInv, PlacesMatch, InQueue, InChunk
<1> QED BY <1>1, Invariance, PTL

(* When visit() returns, no vertex at or before the level asked for is     *)
(* queued, those its own visits enqueued included.                         *)
THEOREM VisitDrains == RefsGoOn => (Spec => DrainedOnReturn)
<1> SUFFICES ASSUME RefsGoOn PROVE Spec => DrainedOnReturn
  OBVIOUS
<1>1. ASSUME IInv, [Next]_vars
      PROVE  [pc = "level" /\ pc' = "idle" =>
               \A v \in Vertices : flag[v] => Before(toLevel, level[v])]_vars
  <2> SUFFICES ASSUME pc = "level", pc' = "idle", NEW v \in Vertices, flag[v]
               PROVE  Before(toLevel, level[v])
    OBVIOUS
  <2>1. ~MoreLevels
    BY <1>1 DEF Next, Step, InCall, Enqueue, DeleteVertexBefore, SetLevel, Editing, Clear, Visit,
                NextVertex, BeginLevel, EndCopies, EndDrain, VisitReturn, NextReturn, DrainTake,
                Agent, ChunkTake, CheckQueued, LockAndPush, EndVertex, owner, vars
  <2>2. \A a \in Agents : ~Holds(chunk[a], v)
    BY <1>1, EmptyHolds DEF IInv, CallInv, VisitsMatchCall
  <2>3. PICK l \in Levels : Holds(Left(l), v)
    BY <1>1, <2>2 DEF IInv, StoreInv, PlacesMatch
  <2>4. l = level[v]
    BY <1>1, <2>3 DEF IInv, StoreInv, PlacesMatch
  <2>5. NotAfter(first, l) /\ NotAfter(l, last)
    BY <1>1, <2>3 DEF IInv, StoreInv, WindowCovers
  <2>6. /\ first \in Int /\ last \in Int /\ l \in Int /\ toLevel \in Int
    BY <1>1, ModeFacts DEF IInv, StoreInv, CallInv, WindowInLevels, Levels
  <2>7. CASE Forward
    BY <2>1, <2>4, <2>5, <2>6, <2>7 DEF MoreLevels, NotAfter, Before
  <2>8. CASE ~Forward
    BY <2>1, <2>4, <2>5, <2>6, <2>8 DEF MoreLevels, NotAfter, Before
  <2> QED BY <2>7, <2>8
<1> QED BY <1>1, Invariance, PTL DEF Spec, DrainedOnReturn

-----------------------------------------------------------------------------
(* No reference pin's vertex lies behind the pin: it follows an edge, or   *)
(* there is one thread, the graph is not edited and it is not before.      *)
RefsNotBack ==
  \A m \in Modes : \A r \in m.refs :
    \/ IF m.forward THEN r \in Edges ELSE <<r[2], r[1]>> \in Edges
    \/ /\ m.threads = 1 /\ ~m.removals
       /\ IF m.forward THEN Level0[r[1]] <= Level0[r[2]] ELSE Level0[r[1]] >= Level0[r[2]]

(* Nothing waits or is about to be pushed behind the level being visited.  *)
NothingBehind ==
  /\ ~mode.removals => level = Level0
  /\ pc \in {"drain", "copies"} =>
       /\ \A v \in Vertices : flag[v] => NotAfter(lvl, level[v])
       /\ \A a \in Agents :
            /\ cur[a] # Null => level[cur[a]] = lvl
            /\ \A u \in todo[a] : NotAfter(lvl, level[u])
            /\ want[a] # Null => NotAfter(lvl, level[want[a]])

(* Where the adjacent vertices and those of reference pins lie.            *)
LEMMA VisitsAhead ==
  ASSUME RefsNotBack, CallInv, NothingBehind,
         NEW v \in Vertices, NEW u \in Adjacent(v) \cup RefVertices(v)
  PROVE  u \in Vertices /\ NotAfter(level[v], level[u])
<1>1. u \in Vertices /\ mode \in Modes
  BY DEF Adjacent, RefVertices, CallInv
<1>2. level[v] \in Int /\ level[u] \in Int
  BY <1>1, ModeFacts DEF Levels, CallInv
<1>3. CASE IF Forward THEN <<v, u>> \in Edges ELSE <<u, v>> \in Edges
  <2>1. IF Forward THEN level[v] < level[u] ELSE level[u] < level[v]
    BY <1>3 DEF CallInv, LevelsOrdered
  <2> QED BY <1>1, <1>2, <2>1 DEF NotAfter, Before
<1>4. CASE ~mode.removals /\ IF Forward THEN Level0[v] <= Level0[u] ELSE Level0[v] >= Level0[u]
  <2>1. level = Level0
    BY <1>4 DEF NothingBehind
  <2> QED BY <1>1, <1>2, <1>4, <2>1 DEF NotAfter, Before
<1>5. CASE u \in Adjacent(v)
  BY <1>3, <1>5 DEF Adjacent
<1>6. CASE u \in RefVertices(v)
  <2>1. <<v, u>> \in mode.refs
    BY <1>6 DEF RefVertices
  <2> QED BY <1>1, <1>3, <1>4, <2>1 DEF RefsNotBack, Forward
<1> QED BY <1>5, <1>6

(* Between the visits of a call there is nothing to keep in order.         *)
LEMMA BehindRest ==
  ASSUME NothingBehind, UNCHANGED mode, pc' \notin {"drain", "copies"},
         level' = level \/ mode.removals
  PROVE  NothingBehind'
BY DEF NothingBehind

(* A vertex of the level being visited is taken.                           *)
LEMMA BehindTake ==
  ASSUME RefsNotBack, CallInv, NothingBehind, OwedFlagged,
         flag \in [Vertices -> BOOLEAN], owed \in [Vertices -> BOOLEAN],
         UNCHANGED <<mode, level, pc, lvl, want>>, pc \in {"drain", "copies"},
         NEW a \in Agents, NEW e \in Entries, TakeEntry(a, e),
         e # Null => level[e] = lvl
  PROVE  NothingBehind'
<1>1. mode' = mode /\ level' = level /\ pc' = pc /\ lvl' = lvl /\ want' = want
  OBVIOUS
<1>2. /\ \A v \in Vertices : flag[v] => NotAfter(lvl, level[v])
      /\ \A b \in Agents :
           /\ cur[b] # Null => level[cur[b]] = lvl
           /\ \A u \in todo[b] : NotAfter(lvl, level[u])
           /\ want[b] # Null => NotAfter(lvl, level[want[b]])
  BY DEF NothingBehind
<1>3. \A u \in Vertices : flag'[u] => flag[u]
  BY FlagTaken
<1>4. /\ \A u : NotAfter(lvl, level[u])' <=> NotAfter(lvl, level[u])
      /\ \A b : NotAfter(lvl, level[want[b]])' <=> NotAfter(lvl, level[want[b]])
  BY <1>1 DEF NotAfter, Before, Forward
<1>5. \A b \in Agents : /\ cur'[b] # Null => level[cur'[b]] = lvl
                        /\ \A u \in todo'[b] : NotAfter(lvl, level[u])
  <2>1. CASE e = Null
    BY <1>2, <2>1 DEF TakeEntry
  <2>2. CASE e # Null
    <3>1. PICK U \in SUBSET Vertices :
            /\ todo' = [todo EXCEPT ![a] = U]
            /\ U \subseteq Adjacent(e) \cup RefVertices(e)
      BY <2>2, VisitEnqueues DEF TakeEntry
    <3>2. cur' = [cur EXCEPT ![a] = e]
      BY <2>2 DEF TakeEntry, BeginVertex
    <3>3. \A u \in U : NotAfter(lvl, level[u])
      BY <2>2, <3>1, VisitsAhead DEF Entries
    <3>4. \A b \in Agents : /\ cur'[b] = IF b = a THEN e ELSE cur[b]
                            /\ todo'[b] = IF b = a THEN U ELSE todo[b]
      BY <3>1, <3>2 DEF CallInv
    <3> QED BY <1>2, <2>2, <3>3, <3>4
  <2> QED BY <2>1, <2>2
<1> QED BY <1>1, <1>2, <1>3, <1>4, <1>5 DEF NothingBehind

(* A level begun: what waits lies in the window.                           *)
LEMMA BehindBegin ==
  ASSUME StoreInv, CallInv, NothingBehind, BeginLevel, UNCHANGED mode
  PROVE  NothingBehind'
<1>1. /\ pc = "level" /\ lvl' = first /\ mode' = mode /\ flag' = flag /\ level' = level
      /\ cur' = cur /\ todo' = todo /\ want' = want
  BY DEF BeginLevel
<1>2. \A a \in Agents : cur[a] = Null /\ todo[a] = {} /\ want[a] = Null /\ chunk[a] = <<>>
  BY <1>1 DEF CallInv, VisitsMatchCall
<1>3. ASSUME NEW v \in Vertices, flag[v] PROVE NotAfter(first, level[v])
  <2>1. \A a \in Agents : ~Holds(chunk[a], v)
    BY <1>2, EmptyHolds
  <2>2. PICK l \in Levels : Holds(Left(l), v)
    BY <1>3, <2>1 DEF StoreInv, PlacesMatch
  <2>3. l = level[v]
    BY <2>2 DEF StoreInv, PlacesMatch
  <2> QED BY <1>1, <2>2, <2>3 DEF StoreInv, WindowCovers
<1>4. \A v \in Vertices : NotAfter(lvl, level[v])' <=> NotAfter(first, level[v])
  BY <1>1 DEF NotAfter, Before, Forward
<1> QED BY <1>1, <1>2, <1>3, <1>4 DEF NothingBehind

(* enqueue() in a visit, and the end of the visit.                         *)
LEMMA BehindVisit ==
  ASSUME CallInv, NothingBehind, UNCHANGED mode, NEW a \in Agents,
         flag \in [Vertices -> BOOLEAN],
         CheckQueued(a) \/ LockAndPush(a) \/ EndVertex(a)
  PROVE  NothingBehind'
<1>1. mode' = mode /\ level' = level /\ pc' = pc /\ lvl' = lvl
  BY DEF CheckQueued, LockAndPush, EndVertex, owner
<1>2. CASE pc \notin {"drain", "copies"}
  BY <1>1, <1>2, BehindRest
<1>3. CASE pc \in {"drain", "copies"}
  <2>1. /\ \A v \in Vertices : flag[v] => NotAfter(lvl, level[v])
        /\ \A b \in Agents :
             /\ cur[b] # Null => level[cur[b]] = lvl
             /\ \A u \in todo[b] : NotAfter(lvl, level[u])
             /\ want[b] # Null => NotAfter(lvl, level[want[b]])
    BY <1>3 DEF NothingBehind
  <2>2. /\ todo \in [Agents -> SUBSET Vertices] /\ want \in [Agents -> Entries]
        /\ cur \in [Agents -> Entries] /\ Null \in Entries /\ Vertices \subseteq Entries
    BY DEF CallInv, Entries
  <2>3. /\ \A v \in Vertices : flag'[v] => NotAfter(lvl, level[v])
        /\ \A b \in Agents :
             /\ cur'[b] # Null => level[cur'[b]] = lvl
             /\ \A u \in todo'[b] : NotAfter(lvl, level[u])
             /\ want'[b] # Null => NotAfter(lvl, level[want'[b]])
    <3>1. CASE CheckQueued(a)
      <4>1. PICK v \in todo[a] :
              /\ todo' = [todo EXCEPT ![a] = todo[a] \ {v}]
              /\ want' = IF flag[v] THEN want ELSE [want EXCEPT ![a] = v]
        BY <3>1 DEF CheckQueued
      <4>2. flag' = flag /\ cur' = cur
        BY <3>1 DEF CheckQueued
      <4>3. \A b \in Agents : /\ todo'[b] \subseteq todo[b]
                              /\ want'[b] = want[b] \/ (b = a /\ want'[b] = v)
        BY <2>2, <4>1
      <4> QED BY <2>1, <4>1, <4>2, <4>3
    <3>2. CASE LockAndPush(a)
      <4>1. /\ Push(want[a]) /\ want' = [want EXCEPT ![a] = Null] /\ cur' = cur /\ todo' = todo
            /\ want[a] # Null /\ want[a] \in Vertices
        BY <2>2, <3>2 DEF LockAndPush, Entries
      <4>2. \A v \in Vertices : flag'[v] => flag[v] \/ v = want[a]
        BY <4>1 DEF Push
      <4>3. \A b \in Agents : want'[b] = want[b] \/ want'[b] = Null
        BY <2>2, <4>1
      <4> QED BY <2>1, <4>1, <4>2, <4>3
    <3>3. CASE EndVertex(a)
      <4>1. cur' = [cur EXCEPT ![a] = Null] /\ flag' = flag /\ todo' = todo /\ want' = want
        BY <3>3 DEF EndVertex
      <4>2. \A b \in Agents : cur'[b] = cur[b] \/ cur'[b] = Null
        BY <2>2, <4>1
      <4> QED BY <2>1, <4>1, <4>2
    <3> QED BY <3>1, <3>2, <3>3
  <2>4. /\ \A u : NotAfter(lvl, level[u])' <=> NotAfter(lvl, level[u])
        /\ \A b : NotAfter(lvl, level[want[b]])' <=> NotAfter(lvl, level[want'[b]])
    BY <1>1 DEF NotAfter, Before, Forward
  <2> QED BY <1>1, <2>3, <2>4 DEF NothingBehind
<1> QED BY <1>2, <1>3

(* Every step keeps the order, if no reference pin's vertex lies behind it.*)
LEMMA NextBehind ==
  ASSUME RefsNotBack, IInv, NothingBehind, [Next]_vars
  PROVE  NothingBehind'
<1> USE DEF IInv
<1>1. /\ flag \in [Vertices -> BOOLEAN] /\ owed \in [Vertices -> BOOLEAN] /\ OwedFlagged
      /\ queue \in [Levels -> Seq(Entries)] /\ chunk \in [Agents -> Seq(Entries)] /\ lvl \in Levels
  BY DEF StoreInv, CallInv
<1>2. ASSUME NEW v \in Vertices, Enqueue(v) \/ DeleteVertexBefore(v) \/ \E l \in Levels : SetLevel(v, l),
             UNCHANGED mode
      PROVE  NothingBehind'
  BY <1>2, BehindRest DEF Enqueue, DeleteVertexBefore, SetLevel, Editing, owner
<1>3. ASSUME \/ Clear \/ EndCopies \/ EndDrain \/ VisitReturn \/ NextReturn \/ NextVertex
             \/ \E l \in Levels : Visit(l),
             UNCHANGED mode
      PROVE  NothingBehind'
  BY <1>3, BehindRest DEF Clear, EndCopies, EndDrain, VisitReturn, NextReturn, NextVertex, Visit, owner
<1>4. CASE BeginLevel /\ UNCHANGED mode
  BY <1>4, BehindBegin
<1>5. CASE DrainTake /\ UNCHANGED mode
  <2>1. /\ pc = "drain" /\ 0 \in Agents /\ queue[lvl] \in Seq(Entries) /\ queue[lvl] # <<>>
        /\ TakeEntry(0, Last(queue[lvl]))
        /\ UNCHANGED <<mode, level, pc, lvl, want>>
    BY <1>1, <1>5, ModeFacts DEF DrainTake, owner, Agents, CallInv
  <2>2. Last(queue[lvl]) \in Entries /\ Holds(queue[lvl], Last(queue[lvl]))
    BY <2>1, FrontHolds
  <2>3. Last(queue[lvl]) # Null => level[Last(queue[lvl])] = lvl
    <3> DEFINE e == Last(queue[lvl])
    <3>1. Left(lvl) = queue[lvl]
      BY <2>1 DEF Left
    <3>2. e # Null => e \in Vertices
      BY <2>2 DEF Entries
    <3> HIDE DEF e
    <3> QED BY <1>1, <2>2, <3>1, <3>2 DEF StoreInv, PlacesMatch, e
  <2> QED BY <1>1, <2>1, <2>2, <2>3, BehindTake
<1>6. ASSUME NEW a \in Agents, ChunkTake(a), UNCHANGED mode
      PROVE  NothingBehind'
  <2>1. /\ chunk[a] # <<>> /\ chunk[a] \in Seq(Entries) /\ TakeEntry(a, Head(chunk[a]))
        /\ UNCHANGED <<mode, level, pc, lvl, want>>
    BY <1>1, <1>6 DEF ChunkTake, owner
  <2>2. pc = "copies"
    BY <2>1 DEF CallInv, VisitsMatchCall
  <2>3. Head(chunk[a]) \in Entries /\ Holds(chunk[a], Head(chunk[a]))
    BY <2>1, TailHolds
  <2>4. Head(chunk[a]) # Null => level[Head(chunk[a])] = lvl
    BY <2>2, <2>3 DEF CallInv, CopiesPushAhead, Entries
  <2> QED BY <1>1, <2>1, <2>2, <2>3, <2>4, BehindTake
<1>7. ASSUME NEW a \in Agents, CheckQueued(a) \/ LockAndPush(a) \/ EndVertex(a), UNCHANGED mode
      PROVE  NothingBehind'
  BY <1>1, <1>7, BehindVisit
<1>8. CASE UNCHANGED vars
  <2>1. mode' = mode /\ level' = level /\ pc' = pc /\ lvl' = lvl /\ flag' = flag
        /\ cur' = cur /\ todo' = todo /\ want' = want
    BY <1>8 DEF vars, owner, agents
  <2> QED BY <2>1 DEF NothingBehind, NotAfter, Before, Forward
<1> QED
  BY <1>2, <1>3, <1>4, <1>5, <1>6, <1>7, <1>8 DEF Next, Step, InCall, Agent

-----------------------------------------------------------------------------
(* What the work list sees of the iterator.                                *)
Pending == {v \in Vertices : flag[v]}
Visiting == {cur[a] : a \in Agents} \ {Null}
Depth == [v \in Vertices |-> IF Forward THEN level[v] ELSE MaxLevel - level[v]]

(* How an iterator step that shows there is a step of the work list.       *)
LEMMA WorkListSteps ==
  /\ Visiting' = Visiting /\ Depth' = Depth =>
       /\ \A v \in Vertices : Pending' = Pending \cup {v} => WL!Next
       /\ \A S \in SUBSET Vertices : Visiting = {} /\ Pending' = Pending \ S => WL!Next
       /\ Pending' = Pending => UNCHANGED WL!vars
  /\ \A v \in Vertices, d \in Levels :
       /\ Visiting = {} /\ Visiting' = Visiting
       /\ Pending' = Pending \ {v} /\ Depth' = [Depth EXCEPT ![v] = d]
       => WL!Next
  /\ \A v \in Vertices :
       /\ v \in Pending \ Visiting /\ \A u \in Pending \cup Visiting : Depth[v] <= Depth[u]
       /\ Pending' = Pending \ {v} /\ Visiting' = Visiting \cup {v} /\ Depth' = Depth
       => WL!Next
  /\ \A v \in Vertices :
       Visiting' = Visiting \ {v} /\ Pending' = Pending /\ Depth' = Depth => WL!Next
<1> USE DEF Pending, Visiting, Depth
<1>1. ASSUME Visiting' = Visiting, Depth' = Depth
      PROVE  /\ \A v \in Vertices : Pending' = Pending \cup {v} => WL!Next
             /\ \A S \in SUBSET Vertices : Visiting = {} /\ Pending' = Pending \ S => WL!Next
             /\ Pending' = Pending => UNCHANGED WL!vars
  <2>1. ASSUME NEW v \in Vertices, Pending' = Pending \cup {v} PROVE WL!Next
    <3>1. WL!Add(v)
      BY <1>1, <2>1 DEF WL!Add
    <3> QED BY <3>1 DEF WL!Next
  <2>2. ASSUME NEW S \in SUBSET Vertices, Visiting = {}, Pending' = Pending \ S PROVE WL!Next
    <3>1. WL!Drop(S)
      BY <1>1, <2>2 DEF WL!Drop
    <3> QED BY <3>1 DEF WL!Next
  <2>3. Pending' = Pending => UNCHANGED WL!vars
    BY <1>1 DEF WL!vars
  <2> QED BY <2>1, <2>2, <2>3
<1>2. ASSUME NEW v \in Vertices, NEW d \in Levels, Visiting = {}, Visiting' = Visiting,
             Pending' = Pending \ {v}, Depth' = [Depth EXCEPT ![v] = d]
      PROVE  WL!Next
  <2>1. WL!Relevel(v, d)
    BY <1>2 DEF WL!Relevel
  <2> QED BY <2>1 DEF WL!Next
<1>3. ASSUME NEW v \in Vertices, v \in Pending \ Visiting,
             \A u \in Pending \cup Visiting : Depth[v] <= Depth[u],
             Pending' = Pending \ {v}, Visiting' = Visiting \cup {v}, Depth' = Depth
      PROVE  WL!Next
  <2>1. WL!Begin(v)
    BY <1>3 DEF WL!Begin
  <2> QED BY <2>1 DEF WL!Next
<1>4. ASSUME NEW v \in Vertices, Visiting' = Visiting \ {v}, Pending' = Pending, Depth' = Depth
      PROVE  WL!Next
  <2>1. WL!End(v)
    BY <1>4 DEF WL!End
  <2> QED BY <2>1 DEF WL!Next
<1> QED
  <2> HIDE DEF Pending, Visiting, Depth
  <2> QED BY <1>1, <1>2, <1>3, <1>4

(* Levels in the direction of the search.                                  *)
LEMMA DepthOrder ==
  ASSUME CallInv, NEW v \in Vertices, NEW u \in Vertices, NotAfter(level[v], level[u])
  PROVE  Depth[v] <= Depth[u]
<1>1. level[v] \in Int /\ level[u] \in Int /\ MaxLevel \in Int
  BY ModeFacts DEF CallInv, Levels
<1>2. CASE Forward
  BY <1>1, <1>2 DEF Depth, NotAfter, Before
<1>3. CASE ~Forward
  BY <1>1, <1>3 DEF Depth, NotAfter, Before
<1> QED BY <1>2, <1>3

(* A step that leaves flags, visits and levels alone is none.              *)
LEMMA HiddenStep ==
  ASSUME UNCHANGED <<mode, level, flag, cur>>
  PROVE  UNCHANGED WL!vars
<1>1. Pending' = Pending /\ Visiting' = Visiting /\ Depth' = Depth
  BY DEF Pending, Visiting, Depth, Forward
<1> QED BY <1>1, WorkListSteps

(* enqueue() adds a vertex to the list, queued already or not.             *)
LEMMA PushAdds ==
  ASSUME NEW v \in Vertices, Push(v), UNCHANGED <<mode, level, cur>>,
         flag \in [Vertices -> BOOLEAN]
  PROVE  WL!Next
<1>1. Visiting' = Visiting /\ Depth' = Depth
  BY DEF Visiting, Depth, Forward
<1>2. \A u \in Vertices : flag'[u] <=> flag[u] \/ u = v
  BY DEF Push
<1>3. Pending' = Pending \cup {v}
  BY <1>2 DEF Pending
<1> QED BY <1>1, <1>3, WorkListSteps

(* An edit or clear() finds no visit under way.                            *)
LEMMA EditDrops ==
  ASSUME IInv, UNCHANGED mode,
         Clear \/ \E v \in Vertices : DeleteVertexBefore(v) \/ \E l \in Levels : SetLevel(v, l)
  PROVE  WL!Next
<1>1. /\ \A a \in Agents : cur[a] = Null
      /\ flag \in [Vertices -> BOOLEAN] /\ level \in [Vertices -> Levels]
  BY DEF IInv, StoreInv, CallInv, VisitsMatchCall, Clear, DeleteVertexBefore, SetLevel, Editing
<1>2. Visiting = {} /\ Visiting' = Visiting
  BY <1>1 DEF Visiting, Clear, DeleteVertexBefore, SetLevel, Editing, agents
<1>3. CASE Clear
  <2>1. PICK gone : flag' = [v \in Vertices |-> flag[v] /\ v \notin gone]
    BY <1>3 DEF Clear
  <2>2. Pending' = Pending \ (gone \cap Vertices) /\ gone \cap Vertices \in SUBSET Vertices
    BY <2>1 DEF Pending
  <2>3. Depth' = Depth
    BY <1>3 DEF Clear, Depth, Forward
  <2> QED BY <1>2, <2>2, <2>3, WorkListSteps
<1>4. ASSUME NEW v \in Vertices, RemoveEntry(v) PROVE Pending' = Pending \ {v}
  BY <1>1, <1>4 DEF RemoveEntry, Pending
<1>5. ASSUME NEW v \in Vertices, DeleteVertexBefore(v) PROVE WL!Next
  <2>1. Pending' = Pending \ {v} /\ {v} \in SUBSET Vertices
    BY <1>4, <1>5 DEF DeleteVertexBefore
  <2>2. Depth' = Depth
    BY <1>5 DEF DeleteVertexBefore, Depth, Forward
  <2> QED BY <1>2, <2>1, <2>2, WorkListSteps
<1>6. ASSUME NEW v \in Vertices, NEW l \in Levels, SetLevel(v, l) PROVE WL!Next
  <2> DEFINE d == IF Forward THEN l ELSE MaxLevel - l
  <2>1. Pending' = Pending \ {v}
    BY <1>4, <1>6 DEF SetLevel
  <2>2. d \in Levels
    BY ModeFacts DEF Levels, IInv, CallInv
  <2>3. level' = [level EXCEPT ![v] = l] /\ Forward' = Forward
    BY <1>6 DEF SetLevel, Forward
  <2>4. Depth' = [Depth EXCEPT ![v] = d]
    BY <1>1, <2>3 DEF Depth
  <2> QED BY <1>2, <2>1, <2>2, <2>4, WorkListSteps
<1> QED BY <1>3, <1>5, <1>6

(* A visit begins with a queued vertex none of the others comes before.    *)
LEMMA TakeBegins ==
  ASSUME IInv, UNCHANGED <<mode, level>>, NEW a \in Agents, NEW e \in Vertices,
         cur[a] = Null, BeginVertex(a, e), flag[e],
         \A b \in Agents : cur[b] # e,
         \A u \in Pending \cup Visiting : NotAfter(level[e], level[u])
  PROVE  WL!Next
<1>1. /\ flag \in [Vertices -> BOOLEAN] /\ cur \in [Agents -> Entries] /\ Null \notin Vertices
      /\ flag' = [flag EXCEPT ![e] = FALSE] /\ cur' = [cur EXCEPT ![a] = e]
  BY GraphAssumption DEF IInv, StoreInv, CallInv, BeginVertex
<1>2. Pending' = Pending \ {e}
  BY <1>1 DEF Pending
<1>3. \A b \in Agents : cur'[b] = IF b = a THEN e ELSE cur[b]
  BY <1>1
<1>4. Visiting' = Visiting \cup {e}
  BY <1>1, <1>3 DEF Visiting
<1>5. Depth' = Depth
  BY DEF Depth, Forward
<1>6. e \in Pending \ Visiting
  BY DEF Pending, Visiting
<1>7. Pending \cup Visiting \subseteq Vertices
  BY <1>1 DEF Pending, Visiting, Entries
<1>8. \A u \in Pending \cup Visiting : Depth[e] <= Depth[u]
  BY <1>7, DepthOrder DEF IInv
<1> QED BY <1>2, <1>4, <1>5, <1>6, <1>8, WorkListSteps

(* The end of a visit, unless another thread visits the same vertex.       *)
LEMMA EndEnds ==
  ASSUME IInv, UNCHANGED mode, NEW a \in Agents, EndVertex(a)
  PROVE  [WL!Next]_WL!vars
<1>1. /\ cur \in [Agents -> Entries] /\ cur[a] \in Vertices
      /\ cur' = [cur EXCEPT ![a] = Null] /\ UNCHANGED <<mode, level, flag>>
  BY DEF EndVertex, IInv, CallInv, Entries
<1>2. Pending' = Pending /\ Depth' = Depth
  BY <1>1 DEF Pending, Depth, Forward
<1>3. \A b \in Agents : cur'[b] = IF b = a THEN Null ELSE cur[b]
  BY <1>1
<1>4. Visiting' = Visiting \/ Visiting' = Visiting \ {cur[a]}
  BY <1>1, <1>3 DEF Visiting
<1> QED BY <1>1, <1>2, <1>4, WorkListSteps

(* DrainTake and ChunkTake: in the level being visited, behind which       *)
(* nothing waits and at which everything under way is.                     *)
LEMMA LevelTakes ==
  ASSUME IInv, NothingBehind, UNCHANGED mode, NEW a \in Agents,
         ChunkTake(a) \/ (a = 0 /\ DrainTake)
  PROVE  [WL!Next]_WL!vars
<1>1. /\ UNCHANGED <<mode, level>> /\ cur[a] = Null /\ cur \in [Agents -> Entries]
      /\ queue \in [Levels -> Seq(Entries)] /\ chunk \in [Agents -> Seq(Entries)]
      /\ lvl \in Levels /\ level \in [Vertices -> Levels] /\ Null \notin Vertices
  BY GraphAssumption DEF IInv, StoreInv, CallInv, ChunkTake, DrainTake
<1>2. PICK e \in Entries :
        /\ TakeEntry(a, e)
        /\ e # Null => flag[e] /\ level[e] = lvl /\ \A b \in Agents : cur[b] # e
        /\ pc \in {"drain", "copies"}
  <2>1. CASE DrainTake /\ a = 0
    <3> DEFINE e == Last(queue[lvl])
    <3>1. /\ pc = "drain" /\ queue[lvl] \in Seq(Entries) /\ queue[lvl] # <<>> /\ TakeEntry(a, e)
      BY <1>1, <2>1 DEF DrainTake
    <3>2. e \in Entries /\ Holds(queue[lvl], e)
      BY <3>1, FrontHolds
    <3>3. Left(lvl) = queue[lvl]
      BY <3>1 DEF Left
    <3>4. \A b \in Agents : cur[b] = Null
      BY <1>1, <2>1, <3>1 DEF IInv, CallInv, VisitsMatchCall
    <3> HIDE DEF e
    <3>5. e # Null => flag[e] /\ level[e] = lvl
      BY <1>1, <3>2, <3>3 DEF IInv, StoreInv, PlacesMatch, Entries
    <3> QED BY <3>1, <3>2, <3>4, <3>5
  <2>2. CASE ChunkTake(a)
    <3> DEFINE e == Head(chunk[a])
    <3>1. chunk[a] \in Seq(Entries) /\ chunk[a] # <<>> /\ TakeEntry(a, e)
      BY <1>1, <2>2 DEF ChunkTake
    <3>2. e \in Entries /\ Holds(chunk[a], e)
      BY <3>1, TailHolds
    <3>3. pc = "copies"
      BY <3>1 DEF IInv, CallInv, VisitsMatchCall
    <3> HIDE DEF e
    <3>4. e # Null => flag[e] /\ level[e] = lvl
      BY <3>2, <3>3 DEF IInv, StoreInv, PlacesMatch, CallInv, CopiesPushAhead, Entries
    <3>5. e # Null => \A b \in Agents : cur[b] # e
      BY <3>3, <3>4 DEF IInv, CallInv, CopiesPushAhead
    <3> QED BY <3>1, <3>2, <3>3, <3>4, <3>5
  <2> QED BY <2>1, <2>2
<1>3. CASE e = Null
  <2>1. UNCHANGED <<mode, level, flag, cur>>
    BY <1>1, <1>2, <1>3 DEF TakeEntry
  <2> QED BY <2>1, HiddenStep
<1>4. CASE e # Null
  <2>1. e \in Vertices /\ BeginVertex(a, e)
    BY <1>2, <1>4 DEF TakeEntry, Entries
  <2>2. \A u \in Vertices : flag[u] => NotAfter(level[e], level[u])
    BY <1>2, <1>4 DEF NothingBehind
  <2>3. \A b \in Agents : cur[b] # Null => level[cur[b]] = level[e]
    BY <1>2, <1>4 DEF NothingBehind
  <2>4. NotAfter(level[e], level[e])
    <3>1. level[e] \in Int
      BY <1>1, <2>1, ModeFacts DEF Levels, IInv, CallInv
    <3> QED BY <3>1 DEF NotAfter, Before
  <2>5. \A u \in Pending \cup Visiting : NotAfter(level[e], level[u])
    BY <2>2, <2>3, <2>4 DEF Pending, Visiting
  <2> QED BY <1>1, <1>2, <1>4, <2>1, <2>5, TakeBegins
<1> QED BY <1>3, <1>4

(* next(): hasNext() has left only empty levels behind.                    *)
LEMMA NextTakes ==
  ASSUME IInv, UNCHANGED mode, NextVertex
  PROVE  [WL!Next]_WL!vars
<1>1. PICK l \in Levels :
        /\ NotAfter(first, l) /\ NotAfter(l, last)
        /\ queue[l] # <<>>
        /\ \A k \in Levels : NotAfter(first, k) /\ Before(k, l) => queue[k] = <<>>
        /\ BeginVertex(0, Last(queue[l]))
  BY DEF NextVertex
<1> DEFINE e == Last(queue[l])
<1>2. /\ pc = "idle" /\ UNCHANGED <<mode, level>> /\ 0 \in Agents /\ Null \notin Vertices
      /\ cur \in [Agents -> Entries] /\ flag \in [Vertices -> BOOLEAN]
      /\ queue \in [Levels -> Seq(Entries)] /\ level \in [Vertices -> Levels]
  BY GraphAssumption, ModeFacts DEF NextVertex, IInv, StoreInv, CallInv, Agents
<1>3. \A a \in Agents : cur[a] = Null /\ chunk[a] = <<>>
  BY <1>2 DEF IInv, CallInv, VisitsMatchCall
<1>4. \A k : Left(k) = queue[k]
  BY <1>2 DEF Left
<1>5. queue[l] \in Seq(Entries)
  BY <1>2
<1>6. e \in Entries /\ Holds(queue[l], e)
  BY <1>1, <1>5, FrontHolds
<1> HIDE DEF e
<1>7. CASE e = Null
  <2>1. /\ flag' = [flag EXCEPT ![Null] = FALSE] /\ cur' = [cur EXCEPT ![0] = Null]
    BY <1>1, <1>7 DEF BeginVertex, e
  <2>2. flag' = flag /\ cur' = cur
    BY <1>2, <1>3, <2>1
  <2> QED BY <1>2, <2>2, HiddenStep
<1>8. CASE e # Null
  <2>1. e \in Vertices /\ flag[e] /\ level[e] = l
    BY <1>4, <1>6, <1>8 DEF IInv, StoreInv, PlacesMatch, Entries
  <2>2. ASSUME NEW u \in Vertices, flag[u] PROVE NotAfter(level[e], level[u])
    <3>1. \A a \in Agents : ~Holds(chunk[a], u)
      BY <1>3, EmptyHolds
    <3>2. PICK k \in Levels : Holds(queue[k], u)
      BY <1>4, <2>2, <3>1 DEF IInv, StoreInv, PlacesMatch
    <3>3. k = level[u] /\ NotAfter(first, k)
      BY <1>2, <1>4, <3>2 DEF IInv, StoreInv, PlacesMatch, WindowCovers
    <3>4. queue[k] # <<>>
      BY <3>2, EmptyHolds
    <3> QED BY <1>1, <2>1, <3>3, <3>4 DEF NotAfter
  <2>3. Visiting = {}
    BY <1>3 DEF Visiting
  <2>4. \A u \in Pending \cup Visiting : NotAfter(level[e], level[u])
    BY <2>2, <2>3 DEF Pending
  <2>5. \A b \in Agents : cur[b] # e
    BY <1>3, <1>8
  <2> QED BY <1>1, <1>2, <1>3, <2>1, <2>4, <2>5, TakeBegins DEF e
<1> QED BY <1>7, <1>8

(* Every step of the iterator is one of the work list, or none.            *)
LEMMA NextWorkList ==
  ASSUME IInv, NothingBehind, [Next]_vars
  PROVE  [WL!Next]_WL!vars
<1>1. flag \in [Vertices -> BOOLEAN] /\ cur \in [Agents -> Entries] /\ want \in [Agents -> Entries]
  BY DEF IInv, StoreInv, CallInv
<1>2. ASSUME NEW v \in Vertices, Enqueue(v), UNCHANGED mode PROVE WL!Next
  <2>1. Push(v) /\ UNCHANGED <<mode, level, cur>>
    BY <1>2 DEF Enqueue, agents
  <2> QED BY <1>1, <2>1, PushAdds
<1>3. ASSUME NEW a \in Agents, LockAndPush(a), UNCHANGED mode PROVE WL!Next
  <2>1. want[a] \in Vertices /\ Push(want[a]) /\ UNCHANGED <<mode, level, cur>>
    BY <1>1, <1>3 DEF LockAndPush, Entries
  <2> QED BY <1>1, <2>1, PushAdds
<1>4. ASSUME \/ BeginLevel \/ EndCopies \/ EndDrain \/ VisitReturn \/ NextReturn
             \/ \E l \in Levels : Visit(l)
             \/ \E a \in Agents : CheckQueued(a),
             UNCHANGED mode
      PROVE  UNCHANGED WL!vars
  <2>1. UNCHANGED <<mode, level, flag, cur>>
    BY <1>4 DEF BeginLevel, EndCopies, EndDrain, VisitReturn, NextReturn, Visit, CheckQueued, agents
  <2> QED BY <2>1, HiddenStep
<1>5. CASE UNCHANGED vars
  <2>1. UNCHANGED <<mode, level, flag, cur>>
    BY <1>5 DEF vars, agents
  <2> QED BY <2>1, HiddenStep
<1>6. 0 \in Agents
  BY IteratorAssumption DEF Agents
<1>7. ASSUME UNCHANGED mode, DrainTake PROVE [WL!Next]_WL!vars
  BY <1>6, <1>7, LevelTakes
<1>8. ASSUME UNCHANGED mode, NEW a \in Agents, ChunkTake(a) \/ EndVertex(a) PROVE [WL!Next]_WL!vars
  BY <1>8, LevelTakes, EndEnds
<1>9. ASSUME UNCHANGED mode, NextVertex PROVE [WL!Next]_WL!vars
  BY <1>9, NextTakes
<1>10. ASSUME UNCHANGED mode,
              Clear \/ \E v \in Vertices : DeleteVertexBefore(v) \/ \E l \in Levels : SetLevel(v, l)
       PROVE  WL!Next
  BY <1>10, EditDrops
<1> QED
  BY <1>2, <1>3, <1>4, <1>5, <1>7, <1>8, <1>9, <1>10 DEF Next, Step, InCall, Agent

(* It starts as the empty work list.                                       *)
LEMMA InitWorkList == Init => NothingBehind /\ WL!Init
<1> SUFFICES ASSUME Init PROVE NothingBehind /\ WL!Init
  OBVIOUS
<1>1. NothingBehind
  BY DEF Init, NothingBehind
<1>2. mode \in Modes /\ level \in [Vertices -> Levels] /\ MaxLevel \in Nat
  BY GraphAssumption DEF Init, Levels
<1>3. Pending = {} /\ Visiting = {}
  BY DEF Init, Pending, Visiting, Idle
<1>4. Depth \in [Vertices -> Levels]
  <2>1. ASSUME NEW v \in Vertices PROVE (IF Forward THEN level[v] ELSE MaxLevel - level[v]) \in Levels
    BY <1>2 DEF Levels
  <2> QED BY <2>1 DEF Depth
<1>5. WL!Init
  BY <1>3, <1>4 DEF WL!Init, Pending, Visiting, Depth
<1> QED BY <1>1, <1>5

(* With several threads RefsNotBack is RefsGoOn.                           *)
LEMMA RefsNotBackGoOn == RefsNotBack => RefsGoOn
<1> SUFFICES ASSUME RefsNotBack, NEW m \in Modes, m.threads > 1, NEW r \in m.refs
             PROVE  IF m.forward THEN r \in Edges ELSE <<r[2], r[1]>> \in Edges
  BY DEF RefsGoOn
<1>1. m.threads # 1
  BY IteratorAssumption
<1> QED BY <1>1 DEF RefsNotBack

(* The iterator implements the work list that arrival, required, delay and *)
(* clock searches rely on: whatever the interleaving of the threads of     *)
(* visitParallel, a visit begins only when nothing earlier in the search's *)
(* direction waits or is visited, and no vertex is visited by two threads. *)
THEOREM ImplementsWorkList == RefsNotBack => (Spec => LevelOrder)
<1> SUFFICES ASSUME RefsNotBack PROVE Spec => LevelOrder
  OBVIOUS
<1>1. Spec => []IInv
  BY RefsNotBackGoOn, Invariance
<1>2. IInv /\ NothingBehind /\ [Next]_vars => NothingBehind'
  BY NextBehind
<1>3. IInv /\ NothingBehind /\ [Next]_vars => [WL!Next]_WL!vars
  BY NextWorkList
<1> QED BY <1>1, <1>2, <1>3, InitWorkList, PTL DEF Spec, LevelOrder, WL!Spec
=============================================================================
