---------------------------- MODULE BfsIterator ----------------------------
(***************************************************************************)
(* The levelised breadth-first iterator (search/Bfs.cc) that the arrival,  *)
(* required, delay and clock searches walk the timing graph with: one      *)
(* queue per level, a flag in each vertex saying it is queued, and the     *)
(* window first_level_ .. last_level_ of levels that may hold a vertex.    *)
(*                                                                         *)
(* visitParallel hands each thread a chunk of a level; the visits enqueue  *)
(* later vertices concurrently, with a check of the flag outside the lock  *)
(* and a second one inside.  The chunks go through DispatchQueue, whose    *)
(* finishTasks is a barrier (DispatchQueue!FinishIsBarrier).               *)
(*                                                                         *)
(* A visit may or may not enqueue the adjacent vertices (arrivals changed  *)
(* or not) and always enqueues those mode.refs leads to, the fanout of the *)
(* input ports whose delay refers to the visited pin                       *)
(* (ArrivalVisitor::enqueueRefPinInputDelays).                             *)
(***************************************************************************)
EXTENDS Integers, Sequences, SequencesExt

CONSTANTS
  Vertices,    \* vertices of the timing graph
  Null,        \* the entry remove() leaves behind
  Edges,       \* edges the search predicate passes
  MaxLevel,    \* levelize_->maxLevel()
  Level0,      \* initial level of each vertex
  Modes,       \* the iterators considered, records of four fields:
               \*   forward   TRUE: BfsFwdIterator; FALSE: BfsBkwdIterator
               \*   threads   thread_count_
               \*   removals  TRUE: the graph is edited; FALSE: next() is used
               \*   refs      <<reference pin, vertex enqueued by its visit>>
  MaxThreads,  \* the most threads of a mode
  MaxCalls,    \* bound: calls of enqueue by the owner
  MaxEdits     \* bound: calls of remove and clear

ASSUME GraphAssumption ==
  /\ Null \notin Vertices
  /\ Edges \subseteq Vertices \X Vertices
  /\ MaxLevel \in Nat
  /\ Level0 \in [Vertices -> 0 .. MaxLevel]
  /\ \A e \in Edges : Level0[e[1]] < Level0[e[2]]
ASSUME IteratorAssumption ==
  /\ MaxThreads \in Nat \ {0}
  /\ \A m \in Modes :
       /\ m.forward \in BOOLEAN /\ m.removals \in BOOLEAN
       /\ m.threads \in 1 .. MaxThreads
       /\ m.refs \subseteq Vertices \X Vertices
  /\ MaxCalls \in Nat /\ MaxEdits \in Nat

VARIABLES
  mode,     \* the iterator, chosen once
  queue,    \* queue_: a sequence of vertices and Nulls per level
  flag,     \* bfs_in_queue_ of each vertex, for this iterator
  level,    \* level of each vertex
  first,    \* first_level_
  last,     \* last_level_
  pc,       \* where the owner is
  toLevel,  \* argument of the visit under way
  lvl,      \* the level being visited
  snap,     \* length of that level's vector when its visits were handed out
  chunk,    \* vertices each agent has still to visit
  cur,      \* the vertex each agent is visiting
  todo,     \* vertices that visit has still to enqueue
  want,     \* vertex found not queued by the check outside the lock
  owed,     \* history: enqueued and not visited since
  calls,    \* bound
  edits     \* bound

owner == <<pc, toLevel, lvl, snap>>
agents == <<chunk, cur, todo, want>>
bounds == <<calls, edits>>
vars == <<mode, queue, flag, level, first, last, owner, agents, owed, bounds>>

Levels == 0 .. MaxLevel

Forward == mode.forward
Threads == mode.threads

(* Agent 0 is the owner's thread; 1 .. Threads run the dispatched chunks.  *)
Agents == 0 .. MaxThreads

Entries == Vertices \cup {Null}

Before(l1, l2) == IF Forward THEN l1 < l2 ELSE l1 > l2
NotAfter(l1, l2) == ~Before(l2, l1)

(* Mutants: the level is incremented twice; it is not incremented.         *)
IncrTwice(l) == IF Forward THEN l + 2 ELSE l - 2
IncrNever(l) == l

Incr(l) == IF Forward THEN l + 1 ELSE l - 1

(* init(): an empty window.  Forward, first_level_ is the largest level;   *)
(* MaxLevel + 1 stands for it.                                             *)
NoFirst == IF Forward THEN MaxLevel + 1 ELSE 0
NoLast == IF Forward THEN 0 ELSE MaxLevel + 1

(* Fanout (forward) or fanin (backward). *)
Adjacent(v) ==
  {u \in Vertices : IF Forward THEN <<v, u>> \in Edges ELSE <<u, v>> \in Edges}
RefVertices(v) == {u \in Vertices : <<v, u>> \in mode.refs}

Idle == [a \in Agents |-> Null]

Init ==
  /\ mode \in Modes
  /\ queue = [l \in Levels |-> <<>>]
  /\ flag = [v \in Vertices |-> FALSE]
  /\ level = Level0
  /\ first = NoFirst
  /\ last = NoLast
  /\ pc = "idle"
  /\ toLevel = 0
  /\ lvl = 0
  /\ snap = 0
  /\ chunk = [a \in Agents |-> <<>>]
  /\ cur = Idle
  /\ todo = [a \in Agents |-> {}]
  /\ want = Idle
  /\ owed = [v \in Vertices |-> FALSE]
  /\ calls = 0
  /\ edits = 0

-----------------------------------------------------------------------------
(* Mutant: the flag is not checked again once the lock is held.            *)
PushUnchecked(v) ==
  /\ owed' = [owed EXCEPT ![v] = TRUE]
  /\ flag' = [flag EXCEPT ![v] = TRUE]
  /\ queue' = [queue EXCEPT ![level[v]] = Append(@, v)]
  /\ last' = IF Before(last, level[v]) THEN level[v] ELSE last
  /\ first' = IF Before(level[v], first) THEN level[v] ELSE first

(* enqueue(), the part that holds queue_lock_. *)
Push(v) ==
  /\ owed' = [owed EXCEPT ![v] = TRUE]
  /\ IF flag[v]
       THEN UNCHANGED <<queue, flag, first, last>>
       ELSE /\ flag' = [flag EXCEPT ![v] = TRUE]
            /\ queue' = [queue EXCEPT ![level[v]] = Append(@, v)]
            /\ last' = IF Before(last, level[v]) THEN level[v] ELSE last
            /\ first' = IF Before(level[v], first) THEN level[v] ELSE first

(* The owner enqueues between visits; no other thread is running. *)
Enqueue(v) ==
  /\ pc = "idle"
  /\ calls < MaxCalls
  /\ calls' = calls + 1
  /\ Push(v)
  /\ UNCHANGED <<level, owner, agents, edits>>

(* remove(): a Null takes the place of the vertex. *)
RemoveEntry(v) ==
  /\ queue' = IF flag[v]
                THEN [queue EXCEPT ![level[v]] =
                        [i \in DOMAIN @ |-> IF @[i] = v THEN Null ELSE @[i]]]
                ELSE queue
  /\ flag' = [flag EXCEPT ![v] = FALSE]
  /\ owed' = [owed EXCEPT ![v] = FALSE]

Editing ==
  /\ pc = "idle"
  /\ mode.removals
  /\ edits < MaxEdits
  /\ edits' = edits + 1
  /\ UNCHANGED <<first, last, owner, agents, calls>>

DeleteVertexBefore(v) ==
  /\ Editing
  /\ RemoveEntry(v)
  /\ UNCHANGED level

(* Levelize::setLevel tells the search before it changes a level. *)
SetLevel(v, l) ==
  /\ Editing
  /\ level' = [level EXCEPT ![v] = l]
  /\ level' # level
  /\ \A e \in Edges : level'[e[1]] < level'[e[2]]
  /\ RemoveEntry(v)

(* clear(): only the levels of the window are emptied. *)
Clear ==
  /\ pc = "idle"
  /\ edits < MaxEdits
  /\ edits' = edits + 1
  /\ LET window == {l \in Levels : NotAfter(first, l) /\ NotAfter(l, last)}
         gone == UNION {ToSet(queue[l]) : l \in window}
     IN  /\ queue' = [l \in Levels |-> IF l \in window THEN <<>> ELSE queue[l]]
         /\ flag' = [v \in Vertices |-> flag[v] /\ v \notin gone]
         /\ owed' = [v \in Vertices |-> owed[v] /\ v \notin gone]
  /\ first' = NoFirst
  /\ last' = NoLast
  /\ UNCHANGED <<level, owner, agents, calls>>

-----------------------------------------------------------------------------
(* visit() and visitParallel(). *)

Visit(l) ==
  /\ pc = "idle"
  /\ toLevel' = l
  /\ pc' = "level"
  /\ UNCHANGED <<queue, flag, level, first, last, lvl, snap, agents, owed, bounds>>

(* Mutant: the level asked for is left out. *)
MoreLevelsStrict == NotAfter(first, last) /\ Before(first, toLevel)

MoreLevels == NotAfter(first, last) /\ NotAfter(first, toLevel)

(* Mutant: the left overs are dropped. *)
ChunkEven(s, k) ==
  LET size == Len(s) \div Threads
  IN  SubSeq(s, (k - 1) * size + 1, k * size)

(* The last thread gets the left overs. *)
Chunk(s, k) ==
  LET size == Len(s) \div Threads
  IN  SubSeq(s, (k - 1) * size + 1, IF k = Threads THEN Len(s) ELSE k * size)

(* The window moves past the level before its vertices are visited.  With  *)
(* one thread the level is drained from the back of the live vector; with  *)
(* several, the owner walks a short level itself, and a longer one is cut  *)
(* into chunks, each holding a copy of the vector.  The owner's walk is    *)
(* over the entries the vector had when it began (a vector that grows      *)
(* under it is undefined behaviour; not seeing the new entries is the      *)
(* mildest outcome).                                                       *)
BeginLevel ==
  /\ pc = "level"
  /\ MoreLevels
  /\ lvl' = first
  /\ first' = Incr(first)
  /\ LET s == queue[first]
     IN  \/ /\ Threads = 1
            /\ pc' = "drain"
            /\ UNCHANGED <<snap, chunk>>
         \/ /\ Threads > 1 /\ s = <<>>
            /\ UNCHANGED <<pc, snap, chunk>>
         \/ /\ Threads > 1 /\ s # <<>>
            /\ pc' = "copies"
            /\ snap' = Len(s)
            /\ chunk' = [a \in Agents |->
                           IF Len(s) < Threads
                             THEN IF a = 0 THEN s ELSE <<>>
                             ELSE IF a \in 1 .. Threads THEN Chunk(s, a) ELSE <<>>]
  /\ UNCHANGED <<queue, flag, level, last, toLevel, cur, todo, want, owed, bounds>>

(* Mutant: no finishTasks. *)
EndCopiesEarly ==
  /\ pc = "copies"
  /\ queue' = [queue EXCEPT ![lvl] = <<>>]
  /\ snap' = 0
  /\ pc' = "level"
  /\ UNCHANGED <<flag, level, first, last, toLevel, lvl, agents, owed, bounds>>

(* finishTasks has returned, or the owner's walk is over: the vector is    *)
(* emptied, whatever it holds by now.                                      *)
EndCopies ==
  /\ pc = "copies"
  /\ \A a \in Agents : chunk[a] = <<>> /\ cur[a] = Null
  /\ queue' = [queue EXCEPT ![lvl] = <<>>]
  /\ snap' = 0
  /\ pc' = "level"
  /\ UNCHANGED <<flag, level, first, last, toLevel, lvl, agents, owed, bounds>>

(* Mutant: the level is cleared after the visits it was begun with. *)
EndDrainOnce ==
  /\ pc = "drain"
  /\ cur[0] = Null
  /\ queue' = [queue EXCEPT ![lvl] = <<>>]
  /\ pc' = "level"
  /\ UNCHANGED <<flag, level, first, last, toLevel, lvl, snap, agents, owed, bounds>>

EndDrain ==
  /\ pc = "drain"
  /\ cur[0] = Null
  /\ queue[lvl] = <<>>
  /\ pc' = "level"
  /\ UNCHANGED <<queue, flag, level, first, last, toLevel, lvl, snap, agents, owed, bounds>>

VisitReturn ==
  /\ pc = "level"
  /\ ~MoreLevels
  /\ pc' = "idle"
  /\ UNCHANGED <<queue, flag, level, first, last, toLevel, lvl, snap, agents, owed, bounds>>

(* The flag is reset before the visit, which then either finds the arrival *)
(* changed and enqueues the adjacent vertices or does not.                 *)
BeginVertex(a, v) ==
  /\ flag' = [flag EXCEPT ![v] = FALSE]
  /\ owed' = [owed EXCEPT ![v] = FALSE]
  /\ cur' = [cur EXCEPT ![a] = v]
  /\ \E S \in {{}, Adjacent(v)} : todo' = [todo EXCEPT ![a] = S \cup RefVertices(v)]

(* hasNext() moves the window to the first level that holds a vertex;      *)
(* next() takes the last vertex of that level, which the caller visits.    *)
NextVertex ==
  /\ pc = "idle"
  /\ ~mode.removals
  /\ \E l \in Levels :
       /\ NotAfter(first, l) /\ NotAfter(l, last)
       /\ queue[l] # <<>>
       /\ \A k \in Levels : NotAfter(first, k) /\ Before(k, l) => queue[k] = <<>>
       /\ first' = l
       /\ queue' = [queue EXCEPT ![l] = Front(@)]
       /\ BeginVertex(0, Last(queue[l]))
  /\ pc' = "next"
  /\ UNCHANGED <<level, last, toLevel, lvl, snap, chunk, want, bounds>>

NextReturn ==
  /\ pc = "next"
  /\ cur[0] = Null
  /\ pc' = "idle"
  /\ UNCHANGED <<queue, flag, level, first, last, toLevel, lvl, snap, agents, owed, bounds>>

-----------------------------------------------------------------------------
(* What the threads do inside a level. *)

(* The Null remove() left is skipped. *)
TakeEntry(a, e) ==
  IF e = Null THEN UNCHANGED <<flag, owed, cur, todo>> ELSE BeginVertex(a, e)

DrainTake ==
  /\ pc = "drain"
  /\ cur[0] = Null
  /\ queue[lvl] # <<>>
  /\ queue' = [queue EXCEPT ![lvl] = Front(@)]
  /\ TakeEntry(0, Last(queue[lvl]))
  /\ UNCHANGED <<level, first, last, owner, chunk, want, bounds>>

ChunkTake(a) ==
  /\ cur[a] = Null
  /\ chunk[a] # <<>>
  /\ chunk' = [chunk EXCEPT ![a] = Tail(@)]
  /\ TakeEntry(a, Head(chunk[a]))
  /\ UNCHANGED <<queue, level, first, last, owner, want, bounds>>

(* enqueue() in a visit: the check outside the lock, then the lock. *)
CheckQueued(a) ==
  /\ want[a] = Null
  /\ \E v \in todo[a] :
       /\ todo' = [todo EXCEPT ![a] = @ \ {v}]
       /\ want' = IF flag[v] THEN want ELSE [want EXCEPT ![a] = v]
       /\ owed' = IF flag[v] THEN [owed EXCEPT ![v] = TRUE] ELSE owed
  /\ UNCHANGED <<queue, flag, level, first, last, owner, chunk, cur, bounds>>

LockAndPush(a) ==
  /\ want[a] # Null
  /\ Push(want[a])
  /\ want' = [want EXCEPT ![a] = Null]
  /\ UNCHANGED <<level, owner, chunk, cur, todo, bounds>>

EndVertex(a) ==
  /\ cur[a] # Null
  /\ todo[a] = {}
  /\ want[a] = Null
  /\ cur' = [cur EXCEPT ![a] = Null]
  /\ UNCHANGED <<queue, flag, level, first, last, owner, chunk, todo, want, owed, bounds>>

Agent(a) == ChunkTake(a) \/ CheckQueued(a) \/ LockAndPush(a) \/ EndVertex(a)

InCall == BeginLevel \/ EndCopies \/ EndDrain \/ VisitReturn \/ NextReturn \/ DrainTake

Step ==
  \/ \E v \in Vertices :
       Enqueue(v) \/ DeleteVertexBefore(v) \/ \E l \in Levels : SetLevel(v, l)
  \/ Clear
  \/ \E l \in Levels : Visit(l)
  \/ NextVertex
  \/ InCall
  \/ \E a \in Agents : Agent(a)

Next == Step /\ UNCHANGED mode

Spec == Init /\ [][Next]_vars

(* A thread inside a visit keeps going; nothing makes the owner call.      *)
FairSpec ==
  /\ Spec
  /\ WF_vars(InCall /\ UNCHANGED mode)
  /\ \A a \in Agents : WF_vars(Agent(a) /\ UNCHANGED mode)
-----------------------------------------------------------------------------
TypeOK ==
  /\ mode \in Modes
  /\ queue \in [Levels -> Seq(Entries)]
  /\ flag \in [Vertices -> BOOLEAN]
  /\ level \in [Vertices -> Levels]
  /\ first \in -1 .. MaxLevel + 1
  /\ last \in 0 .. MaxLevel + 1
  /\ pc \in {"idle", "level", "drain", "copies", "next"}
  /\ toLevel \in Levels
  /\ lvl \in Levels
  /\ snap \in Nat
  /\ chunk \in [Agents -> Seq(Entries)]
  /\ cur \in [Agents -> Entries]
  /\ todo \in [Agents -> SUBSET Vertices]
  /\ want \in [Agents -> Entries]
  /\ owed \in [Vertices -> BOOLEAN]

(* Copies still to be visited count, the entries they were copied from do  *)
(* not: those are thrown away with the vector.                             *)
Waiting(l) == IF pc = "copies" /\ l = lvl THEN SubSeq(queue[l], snap + 1, Len(queue[l])) ELSE queue[l]

Holds(s, v) == \E i \in DOMAIN s : s[i] = v
HoldsOnce(s, v) == \A i, j \in DOMAIN s : s[i] = v /\ s[j] = v => i = j

InQueue(v) == \E l \in Levels : Holds(Waiting(l), v)
InChunk(v) == \E a \in Agents : Holds(chunk[a], v)

(* A vertex's flag says exactly whether one entry for it waits in the      *)
(* queue of its own level or in a chunk; two threads that both saw it not  *)
(* queued do not both push it, and an edited level strands no entry.       *)
FlagMatchesQueue ==
  \A v \in Vertices :
    /\ flag[v] <=> InQueue(v) \/ InChunk(v)
    /\ ~(InQueue(v) /\ InChunk(v))
    /\ \A l \in Levels : Holds(Waiting(l), v) => l = level[v] /\ HoldsOnce(Waiting(l), v)
    /\ \A a \in Agents : Holds(chunk[a], v) =>
         HoldsOnce(chunk[a], v) /\ \A b \in Agents \ {a} : ~Holds(chunk[b], v)

(* A vertex enqueued and not visited since is still going to be visited:   *)
(* an enqueue that found the flag set, and so did nothing, did not rely on *)
(* a visit that was already over.                                          *)
NoVisitLost == \A v \in Vertices : owed[v] => InQueue(v) \/ InChunk(v)

(* When a visit returns nothing is left at or before the level it was      *)
(* asked for, including what the visits themselves enqueued.               *)
DrainedOnReturn ==
  [][pc = "level" /\ pc' = "idle" =>
       \A v \in Vertices : flag[v] => Before(toLevel, level[v])]_vars

(* The iterator implements the work list: vertices in level order, none    *)
(* visited by two threads or while one it depends on waits or is visited.  *)
WL == INSTANCE WorkList WITH
        pending <- {v \in Vertices : flag[v]},
        visiting <- {cur[a] : a \in Agents} \ {Null},
        level <- [v \in Vertices |-> IF Forward THEN level[v] ELSE MaxLevel - level[v]]
LevelOrder == WL!Spec

(* A visit returns. *)
VisitReturns == (pc # "idle") ~> (pc = "idle")
=============================================================================
