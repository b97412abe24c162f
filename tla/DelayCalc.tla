----------------------------- MODULE DelayCalc ------------------------------
(***************************************************************************)
(* Incremental delay calculation (dcalc/GraphDelayCalc.cc).  Slews travel  *)
(* from the roots through the gates in level order; every delay that       *)
(* changes is reported to the observer, which invalidates the arrival      *)
(* after it and the required times before it.                              *)
(*                                                                         *)
(* The delay model is kept to what couples the vertices: a driver's load   *)
(* is the number of its loads plus what its parasitics add, its slew is    *)
(* its load, and the delay of a gate is its load plus the slew at its      *)
(* input, plus one.  Wires have no delay, unless the port that drives them *)
(* has a drive resistance.                                                 *)
(***************************************************************************)
EXTENDS Search

VARIABLE delays   \* the GraphDelayCalc object

NotQueued == -1

(* slew_min_max->initValue(): less than any slew. *)
InitSlew == -1

DelayCalcInit ==
  [seeded |-> FALSE,        \* delays_seeded_
   incremental |-> FALSE,   \* incremental_
   invalid |-> {},          \* invalid_delays_
   queue |-> [v \in Vertices |-> NotQueued],   \* iter_: the level a vertex was enqueued at
   checks |-> {},           \* ends of invalid_check_edges_
   untold |-> {}]           \* history: drivers whose load changed, not invalidated

Wired(w, d) == {l \in Loads : w.graph.conn[l] = d}
LoadCap(w, d) == Cardinality(Wired(w, d)) + (IF d \in w.graph.heavy THEN 1 ELSE 0)

(* The arcs that the slew of a driver comes from. *)
ArcsTo(w, z) ==
  {e \in (GateEdges \cap Thru(w)) \ w.lv.cut : e[2] = z /\ e[1] \notin Constants(w)}
-----------------------------------------------------------------------------
DelayInvalid(w, v) ==
  IF w.dc.incremental THEN [w EXCEPT !.dc.invalid = @ \cup {v}] ELSE w

DelaysInvalid(w) == [w EXCEPT !.dc = [DelayCalcInit EXCEPT !.untold = w.dc.untold]]

(* iter_->enqueueAdjacentVertices: a vertex already in the queue stays in  *)
(* the level it was put in.                                                *)
EnqueueDelays(w, v) ==
  [w EXCEPT !.dc.queue =
     [u \in Vertices |-> IF u \in Fanout(w, v) /\ @[u] = NotQueued THEN w.lv.level[u] ELSE @[u]]]

(* The driver's slew reaches its loads, over wires of the given delay. *)
SetLoads(w, d, slew, wire) ==
  [w EXCEPT !.graph.slew = [v \in Vertices |-> IF v = d \/ v \in Wired(w, d) THEN slew ELSE @[v]],
            !.graph.delay = [e \in DOMAIN @ |-> IF e \in WireEdges(w) /\ e[1] = d THEN wire ELSE @[e]],
            !.dc.untold = @ \ {d}]

(* annotateLoadDelays: every load is reported as well. *)
AnnotateLoads(w, d, slew, wire) ==
  FoldLeft(ArrivalInvalid, SetLoads(w, d, slew, wire), InOrder(Wired(w, d)))

(* seedRootSlew(): an input port's drive resistance sees its load; the     *)
(* required time of the port itself is not invalidated.                    *)
SeedRootSlew(w, v) ==
  LET resistive == IF v \in w.sdc.drive THEN LoadCap(w, v) ELSE 0
  IN  EnqueueDelays(IF v \in Drivers THEN AnnotateLoads(w, v, resistive, resistive)
                                     ELSE [w EXCEPT !.graph.slew[v] = 0], v)

(* Mutant: only the arrival after a changed delay is invalidated.          *)
ArcChangedTo(w, e) == w

(* The observer's delayChangedFrom at both ends of a gate's arc. *)
ArcChanged(w, e) == RequiredInvalid(RequiredInvalid(w, e[1]), e[2])

(* findDriverDelays(): an annotated arc keeps its delay; the first arc     *)
(* found sets the loads, which counts as a change.  Without an arc the     *)
(* driver's slew is none, its loads' become zero and nobody is told.       *)
DriverDelaysFound(w, z, arcs, slew) ==
  LET Delay(e) == IF e \in w.graph.annotatedArcs THEN w.graph.delay[e]
                                                  ELSE 1 + w.graph.slew[e[1]] + slew
      merged == IF Wired(w, z) = {} THEN {} ELSE {e \in arcs : e[1] = Min({f[1] : f \in arcs})}
      changed == {e \in arcs : Delay(e) # w.graph.delay[e]} \cup merged
      set == AnnotateLoads([w EXCEPT !.graph.delay =
                              [e \in DOMAIN @ |-> IF e \in arcs THEN Delay(e) ELSE @[e]]], z, slew, 0)
      told == FoldLeft(ArcChanged, set, SetToSeq(changed))
      zeroed == [SetLoads(w, z, 0, 0) EXCEPT !.graph.slew[z] = InitSlew]
  IN  CASE arcs = {} /\ w.dc.incremental -> zeroed
        [] arcs = {} /\ ~w.dc.incremental -> EnqueueDelays(zeroed, z)
        [] changed # {} -> EnqueueDelays(ArrivalInvalid(told, z), z)
        [] OTHER -> told

FindDriverDelays(w, z) == DriverDelaysFound(w, z, ArcsTo(w, z), LoadCap(w, z))

(* findVertexDelay() *)
FindVertexDelay(w, v) ==
  LET s == [w EXCEPT !.dc.queue[v] = NotQueued]
  IN  CASE w.lv.level[v] = 0 -> SeedRootSlew(s, v)
        [] w.lv.level[v] > 0 /\ v \in Outputs -> FindDriverDelays(s, v)
        [] w.lv.level[v] > 0 /\ v \in Loads \ OutPorts ->
             EnqueueDelays([s EXCEPT !.dc.checks = @ \cup ({v} \cap Checked)], v)
        [] OTHER -> s

RECURSIVE FindVertexDelays(_, _)

(* iter_->visitParallel *)
FindVertexDelays(w, l) ==
  LET S == {v \in Vertices : w.dc.queue[v] \in 0 .. l}
  IN  IF S = {}
        THEN w
        ELSE LET first == {v \in S : \A u \in S : w.dc.queue[v] <= w.dc.queue[u]}
             IN  FindVertexDelays(FindVertexDelay(w, Min(first)), l)

SeedInvalidDelay(w, v) ==
  CASE w.lv.level[v] = 0 -> SeedRootSlew(w, v)
    [] w.lv.level[v] > 0 /\ v \notin Constants(w) ->
         [w EXCEPT !.dc.queue[v] = IF @ = NotQueued THEN w.lv.level[v] ELSE @]
    [] OTHER -> w

(* findCheckEdgeDelays(), whose result follows the slew at the data pin.   *)
FindCheckDelay(w, v) == RequiredInvalid([w EXCEPT !.graph.check[v] = w.graph.slew[v]], v)

FindCheckDelays(w) ==
  [FoldLeft(FindCheckDelay, w, InOrder(w.dc.checks)) EXCEPT !.dc.checks = {}, !.dc.incremental = TRUE]

(* seedRootSlews() *)
SeedRootSlews(w) ==
  IF w.dc.seeded
    THEN w
    ELSE FoldLeft(SeedRootSlew, [w EXCEPT !.dc.queue = DelayCalcInit.queue, !.dc.seeded = TRUE],
                  InOrder(w.lv.roots))

(* seedInvalidDelays() *)
SeedInvalidDelays(w) ==
  IF w.dc.incremental
    THEN FoldLeft(SeedInvalidDelay, [w EXCEPT !.dc.invalid = {}], InOrder(w.dc.invalid))
    ELSE w

(* findDelays(level) *)
FindDelays(w, l) == FindCheckDelays(FindVertexDelays(SeedInvalidDelays(SeedRootSlews(w)), l))
=============================================================================
