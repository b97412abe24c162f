------------------------------ MODULE Levelize ------------------------------
(***************************************************************************)
(* Levelization of the timing graph (search/Levelize.cc).  Every search of *)
(* the analyser walks the graph in level order, so each edge that is       *)
(* searched has to rise in level; edges that close a loop are cut, that    *)
(* is, disabled for every search.  A first levelization is a depth first   *)
(* search from the roots; after an edit, relevelization repeats it from    *)
(* the vertices the edit touched, pushing up only the vertices whose level *)
(* is too low.                                                             *)
(*                                                                         *)
(* A world w is the state of the analyser, one record per component:       *)
(* w.graph (network and timing graph), w.sdc (constraints), w.lv (this     *)
(* component), w.se (Search), w.dc (DelayCalc), w.sim (Sim).  A handler is *)
(* an operator from worlds to worlds, as the methods call each other.      *)
(*                                                                         *)
(* Vertices are numbered in the order of their ids, the order VertexSet    *)
(* and the edge iterators follow here.  No pin is bidirect or disabled as  *)
(* a whole, and latch D to Q edges are left out.                           *)
(***************************************************************************)
EXTENDS Integers, Sequences, FiniteSets, SequencesExt, FiniteSetsExt

CONSTANTS
  Vertices,    \* ids of the vertices
  None,        \* no net, no value
  GateEdges,   \* timing arcs of the gates, <<input pin, output pin>>
  Ports,       \* top level input ports
  OutPorts,    \* top level output ports
  LevelSpace   \* level_space_

ASSUME GraphAssumption ==
  /\ Vertices \subseteq Nat \ {0}
  /\ None \notin Int
  /\ GateEdges \subseteq Vertices \X Vertices
  /\ Ports \subseteq Vertices /\ OutPorts \subseteq Vertices
  /\ LevelSpace \in Nat \ {0}

VARIABLES
  graph,   \* the network and what is annotated on the timing graph
  levels   \* the Levelize object

Outputs == {e[2] : e \in GateEdges}
Drivers == Ports \cup Outputs
Loads == Vertices \ Drivers

(* The vertices of a set as the code iterates over it. *)
InOrder(S) == SelectSeq([i \in 1 .. Max(Vertices) |-> i], LAMBDA v : v \in S)

(* graph.conn: the driver of the net each load is connected to. *)
WireEdges(w) == {<<w.graph.conn[l], l>> : l \in {k \in Loads : w.graph.conn[k] # None}}

(* Pins held at a logic value, "x" is unknown: no search goes from or to   *)
(* them (SearchPred0::searchFrom and searchTo).                            *)
Constants(w) == {v \in Vertices : w.graph.value[v] # "x"}

Senseless(w) == {e \in GateEdges : w.graph.sense[e] = "none"}

(* SearchPred0::searchThru: edges disabled by a constraint are marked on   *)
(* the graph only between ensureGraphSdcAnnotated and sdcChangedGraph.     *)
Thru(w) ==
  (GateEdges \cup WireEdges(w)) \
    (Senseless(w) \cup IF w.graph.annotated THEN w.sdc.disabled ELSE {})

Enabled(w) == {e \in Thru(w) : {e[1], e[2]} \cap Constants(w) = {}}

(* SearchPred1::searchThru: and not cut to break a loop. *)
Searched(w) == Enabled(w) \ w.lv.cut

Fanin(w, v) == {e[1] : e \in {f \in Searched(w) : f[2] = v}}
Fanout(w, v) == {e[2] : e \in {f \in Searched(w) : f[1] = v}}

LevelizeInit ==
  [level |-> [v \in Vertices |-> 0],
   color |-> [v \in Vertices |-> "white"],
   roots |-> {},         \* roots_
   from |-> {},          \* relevelize_from_
   cut |-> {},           \* disabled_loop_edges_
   loopEdges |-> {},     \* loop_edges_
   max |-> 0,            \* max_level_
   levelized |-> FALSE,  \* levelized_
   valid |-> FALSE,      \* levels_valid_
   changed |-> {}]       \* vertices the observer is told about
-----------------------------------------------------------------------------
(* invalid() and clear(). *)
LevelsInvalid(w) ==
  [w EXCEPT !.lv.levelized = FALSE, !.lv.valid = FALSE, !.lv.roots = {},
            !.lv.from = {}, !.lv.cut = {}, !.lv.loopEdges = {}]

(* Mutant: the vertices that drive v are forgotten. *)
LevelsInvalidAt(w, v) == [w EXCEPT !.lv.from = @ \cup {v}, !.lv.valid = FALSE]

(* invalidFrom() *)
LevelsInvalidFrom(w, v) ==
  [w EXCEPT !.lv.from = @ \cup {v} \cup {e[1] : e \in {f \in GateEdges \cup WireEdges(w) : f[2] = v}},
            !.lv.valid = FALSE]

(* relevelizeFrom() *)
RelevelizeFrom(w, v) == [w EXCEPT !.lv.from = @ \cup {v}, !.lv.valid = FALSE]

(* Mutant: the loop that was broken stays recorded. *)
KeepLoops(w, e) == w

(* An edge of a recorded loop is deleted: the search is done again.        *)
DeleteEdgeBefore(w, e) == IF e \in w.lv.loopEdges THEN LevelsInvalid(w) ELSE w

IsRoot(w, v) == v \notin Constants(w) /\ Fanin(w, v) = {}

SetLevel(w, v, l) ==
  IF w.lv.level[v] = l
    THEN w
    ELSE [w EXCEPT !.lv.level[v] = l, !.lv.changed = @ \cup {v}]

(* Mutant: the edge that closes the loop is not one of its edges. *)
RecordPath(w, e, path) ==
  [w EXCEPT !.lv.cut = @ \cup {e}, !.lv.loopEdges = @ \cup {path[i] : i \in DOMAIN path}]

(* recordLoop(): the loop is the path from where the edge e leads to, and  *)
(* e itself, which is cut.                                                 *)
RecordLoop(w, e, path) ==
  LET starts == {i \in DOMAIN path : path[i][1] = e[2]}
      loop == IF starts = {} THEN {} ELSE {path[i] : i \in Min(starts) .. Len(path)}
  IN  [w EXCEPT !.lv.cut = @ \cup {e}, !.lv.loopEdges = @ \cup loop \cup {e}]

RECURSIVE Visit(_, _, _, _, _)

(* visit(): depth first; a gray vertex is on the path to v, so the edge to *)
(* it closes a loop.                                                       *)
Visit(w, v, l, space, path) ==
  LET Step(s, u) ==
        CASE <<v, u>> \notin Searched(s) -> s
          [] s.lv.color[u] = "gray" -> RecordLoop(s, <<v, u>>, path)
          [] s.lv.color[u] = "white" \/ s.lv.level[u] < l + space ->
               Visit(s, u, l + space, space, Append(path, <<v, u>>))
          [] OTHER -> s
      entered == [SetLevel(w, v, l) EXCEPT !.lv.color[v] = "gray", !.lv.max = IF l > @ THEN l ELSE @]
  IN  [FoldLeft(Step, entered, InOrder(Fanout(w, v))) EXCEPT !.lv.color[v] = "black"]

(* findRoots(): every level restarts at 0. *)
FindRoots(w) ==
  LET Restart(s, v) ==
        LET t == SetLevel(s, v, 0)
        IN  IF IsRoot(t, v)
              THEN [t EXCEPT !.lv.roots = @ \cup {v},
                             !.lv.color[v] = IF Fanout(t, v) # {} THEN "black" ELSE @]
              ELSE [t EXCEPT !.lv.color[v] = "white"]
  IN  FoldLeft(Restart, w, InOrder(Vertices))

VisitRoot(w, v) == Visit(w, v, 0, LevelSpace, <<>>)

(* levelizeCycles(): what no root leads to is searched from its first      *)
(* vertex, which becomes a root.                                           *)
LevelizeCycles(w) ==
  LET Cycle(s, v) ==
        IF s.lv.color[v] = "white" /\ v \notin Constants(s)
          THEN VisitRoot([s EXCEPT !.lv.roots = @ \cup {v}], v)
          ELSE s
  IN  FoldLeft(Cycle, w, InOrder(Vertices))

VisitRoots(w) == FoldLeft(VisitRoot, w, InOrder(w.lv.roots))

(* levelize() *)
LevelizeAll(w) ==
  LET cleared == [w EXCEPT !.lv.max = 0, !.lv.cut = {}, !.lv.loopEdges = {}]
  IN  [LevelizeCycles(VisitRoots(FindRoots(cleared))) EXCEPT !.lv.levelized = TRUE, !.lv.valid = TRUE]

VisitAgain(w, v) == Visit(w, v, w.lv.level[v], 1, <<>>)

(* relevelize(): levels go up by one at a time, and never down, except     *)
(* that of a vertex that has become a root.                                *)
Relevelize(w) ==
  LET Again(s, v) ==
        VisitAgain(IF IsRoot(s, v) THEN [SetLevel(s, v, 0) EXCEPT !.lv.roots = @ \cup {v}] ELSE s, v)
  IN  [FoldLeft(Again, w, InOrder(w.lv.from \ Constants(w))) EXCEPT !.lv.valid = TRUE, !.lv.from = {}]

EnsureLevels(w) ==
  IF w.lv.valid THEN w ELSE IF w.lv.levelized THEN Relevelize(w) ELSE LevelizeAll(w)
=============================================================================
