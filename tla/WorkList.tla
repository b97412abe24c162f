------------------------------ MODULE WorkList ------------------------------
(***************************************************************************)
(* What a breadth-first iterator (include/sta/Bfs.hh) promises its users,  *)
(* without queues, flags or threads: vertices wait to be visited, visits   *)
(* happen in level order, and a vertex is never visited twice at once.     *)
(* The arrival, required and delay searches depend on nothing else: a      *)
(* visit reads what the visits of the vertices before it wrote.            *)
(***************************************************************************)
EXTENDS Integers

CONSTANTS
  Vertices,
  Levels

VARIABLES
  pending,   \* vertices waiting to be visited
  visiting,  \* vertices being visited
  level      \* level of each vertex, counted in the direction of the search

vars == <<pending, visiting, level>>

Init ==
  /\ pending = {}
  /\ visiting = {}
  /\ level \in [Vertices -> Levels]

Add(v) ==
  /\ pending' = pending \cup {v}
  /\ UNCHANGED <<visiting, level>>

(* A vertex leaves the list unvisited only when nothing is being visited:  *)
(* it is deleted, or its level changes, or the whole list is dropped.      *)
Drop(S) ==
  /\ visiting = {}
  /\ pending' = pending \ S
  /\ UNCHANGED <<visiting, level>>

Relevel(v, l) ==
  /\ visiting = {}
  /\ pending' = pending \ {v}
  /\ level' = [level EXCEPT ![v] = l]
  /\ UNCHANGED visiting

Begin(v) ==
  /\ v \in pending \ visiting
  /\ \A u \in pending \cup visiting : level[v] <= level[u]
  /\ pending' = pending \ {v}
  /\ visiting' = visiting \cup {v}
  /\ UNCHANGED level

End(v) ==
  /\ visiting' = visiting \ {v}
  /\ UNCHANGED <<pending, level>>

Next ==
  \/ \E v \in Vertices : Add(v) \/ Begin(v) \/ End(v) \/ \E l \in Levels : Relevel(v, l)
  \/ \E S \in SUBSET Vertices : Drop(S)

Spec == Init /\ [][Next]_vars
=============================================================================
