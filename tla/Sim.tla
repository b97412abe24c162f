-------------------------------- MODULE Sim ---------------------------------
(***************************************************************************)
(* Constant propagation (search/Sim.cc): pins held at a logic value by     *)
(* set_case_analysis hold others, through nets and gates, and arcs whose   *)
(* gate no longer follows its input lose their timing sense.  Searches     *)
(* avoid both.  After an edit of the netlist only the pins and instances   *)
(* it touched are evaluated again; the observer tells the other components *)
(* of every value and every arc that changes.                              *)
(*                                                                         *)
(* Every gate is an AND of its inputs and has one output pin, which stands *)
(* for the instance.  Tie cells, set_logic values, conditional and         *)
(* sequential arcs are left out; so are driver pins that are edited.       *)
(***************************************************************************)
EXTENDS DelayCalc

VARIABLE sim   \* the Sim object

SimInit ==
  [valid |-> FALSE,         \* valid_
   incremental |-> FALSE,   \* incremental_
   insts |-> {},            \* instances_with_const_pins_
   annotate |-> {},         \* instances_to_annotate_
   invalidInsts |-> {},     \* invalid_insts_
   invalidLoads |-> {},     \* invalid_load_pins_
   evals |-> <<>>,          \* eval_queue_
   untold |-> {}]           \* history: instances that lost a constant and are not annotated again

Top == 0   \* the instance the ports belong to

Inst(v) ==
  CASE v \in Ports \cup OutPorts -> Top
    [] \E e \in GateEdges : e[1] = v -> (CHOOSE e \in GateEdges : e[1] = v)[2]
    [] OTHER -> v

PinsOf(i) == {v \in Vertices : Inst(v) = i}
ArcsOf(i) == {e \in GateEdges : e[2] = i}
-----------------------------------------------------------------------------
(* Values *)

(* The observer's valueChangeAfter. *)
ValueChanged(w, v) ==
  LevelsInvalidFrom(EndpointInvalid(RequiredInvalid(ArrivalInvalid(DelayInvalid(w, v), v), v), v), v)

SetSimValue(w, v, value) ==
  IF value = w.graph.value[v] THEN w ELSE ValueChanged([w EXCEPT !.graph.value[v] = value], v)

Unknown(w, v) == SetSimValue(w, v, "x")

(* What setPinValue() does at the pin itself. *)
SetHere(w, v, value) ==
  [SetSimValue(w, v, value) EXCEPT
     !.sim.insts = IF value = "x" THEN @ ELSE @ \cup {Inst(v)},
     !.sim.annotate = @ \cup {Inst(v)},
     !.sim.evals = IF Inst(v) = Top \/ v \in Drivers \/ (@ # <<>> /\ Last(@) = Inst(v))
                     THEN @ ELSE Append(@, Inst(v))]

(* A pin keeps the value of its own constraint. *)
Settable(w, v, value) == w.sdc.case[v] \in {None, value} /\ w.graph.value[v] # value

SetLoadValue(w, l, value) == IF Settable(w, l, value) THEN SetHere(w, l, value) ELSE w

(* setPinValue() *)
SetPinValue(w, v, value) ==
  LET ToLoad(s, l) == SetLoadValue(s, l, value)
  IN  IF Settable(w, v, value)
        THEN FoldLeft(ToLoad, SetHere(w, v, value), InOrder(Wired(w, v)))
        ELSE w

(* evalExpr(): what the constants among the inputs make of the output. *)
GateValue(w, i) ==
  LET inputs == {w.graph.value[e[1]] : e \in ArcsOf(i)}
  IN  CASE "0" \in inputs -> "0"
        [] inputs = {"1"} -> "1"
        [] OTHER -> "x"

EvalInstance(w, i) == IF i \in Outputs THEN SetPinValue(w, i, GateValue(w, i)) ELSE w

RECURSIVE PropagateConstants(_)
PropagateConstants(w) ==
  IF w.sim.evals = <<>>
    THEN w
    ELSE PropagateConstants(EvalInstance([w EXCEPT !.sim.evals = Tail(@)], Head(w.sim.evals)))
-----------------------------------------------------------------------------
(* Timing sense of the arcs *)

(* functionSense(): none if the input is constant, or another decides. *)
FunctionSense(w, e) ==
  IF w.graph.value[e[1]] # "x" \/ \E f \in ArcsOf(e[2]) \ {e} : w.graph.value[f[1]] = "0"
    THEN "none"
    ELSE "positive"

FaninEdgesChanged(w, v) == EndpointInvalid(ArrivalInvalid(DelayInvalid(w, v), v), v)
FanoutEdgesChanged(w, v) == EndpointInvalid(RequiredInvalid(w, v), v)

(* annotateVertexEdges(): the arcs of i are to have these senses. *)
AnnotateArcs(w, i, sense) ==
  LET Turn(s, e) ==
        FanoutEdgesChanged([s EXCEPT !.graph.sense[e] = sense[e]], e[1])
      turned == {e \in ArcsOf(i) : sense[e] # w.graph.sense[e]}
      told == [w EXCEPT !.sim.untold = @ \ {i}]
  IN  IF turned = {} THEN told ELSE FaninEdgesChanged(FoldLeft(Turn, told, SetToSeq(turned)), i)

AnnotateInst(w, i) == AnnotateArcs(w, i, [e \in ArcsOf(i) |-> FunctionSense(w, e)])

AnnotateGraphEdges(w) == FoldLeft(AnnotateInst, w, SetToSeq(w.sim.annotate))
-----------------------------------------------------------------------------
(* Invalidation *)

ConstantsInvalid(w) == [w EXCEPT !.sim.valid = FALSE, !.sim.incremental = FALSE]

(* Mutant: the values are propagated again, but not to the new load. *)
ConstantsRetry(w, l) == [w EXCEPT !.sim.valid = ~w.sim.incremental /\ @]

ConstantsConnect(w, l) ==
  IF w.sim.incremental
    THEN [w EXCEPT !.sim.invalidLoads = @ \cup {l}, !.sim.valid = FALSE]
    ELSE w

(* removePropagatedValue(): the pin becomes unknown at once, without being *)
(* recorded in instances_to_annotate_.                                     *)
RemovePropagatedValue(w, l) ==
  LET again == [w EXCEPT !.sim.invalidInsts = @ \cup {Inst(l)}, !.sim.valid = FALSE]
  IN  CASE Inst(l) \notin w.sim.insts -> w
        [] Inst(l) \in w.sim.insts /\ w.sdc.case[l] # None -> again
        [] OTHER ->
             Unknown([again EXCEPT !.sim.untold = IF w.graph.value[l] = "x" THEN @ ELSE @ \cup {Inst(l)}], l)

ConstantsDisconnect(w, l) ==
  IF w.sim.incremental
    THEN RemovePropagatedValue([w EXCEPT !.sim.invalidLoads = @ \cup {l}], l)
    ELSE w
-----------------------------------------------------------------------------
(* clearSimValues() *)
ClearInst(w, i) == AnnotateArcs(FoldLeft(Unknown, w, InOrder(PinsOf(i))), i, [e \in ArcsOf(i) |-> "unknown"])

ClearSimValues(w) == [FoldLeft(ClearInst, w, SetToSeq(w.sim.insts)) EXCEPT !.sim.insts = {}]

(* seedConstants() *)
SeedConstants(w) ==
  LET Seed(s, v) == SetPinValue(s, v, s.sdc.case[v])
  IN  FoldLeft(Seed, w, InOrder({v \in Vertices : w.sdc.case[v] # None}))

(* seedInvalidConstants() *)
SeedInvalidConstants(w) == [w EXCEPT !.sim.evals = @ \o SetToSeq(w.sim.invalidInsts)]

(* propagateToInvalidLoads() *)
PropagateToInvalidLoads(w) ==
  LET FromDriver(s, l) ==
        IF s.graph.conn[l] = None THEN s ELSE SetPinValue(s, l, s.graph.value[s.graph.conn[l]])
  IN  [FoldLeft(FromDriver, w, InOrder(w.sim.invalidLoads)) EXCEPT !.sim.invalidLoads = {}]

SeedPropagation(w) ==
  IF w.sim.incremental
    THEN PropagateToInvalidLoads(SeedInvalidConstants(w))
    ELSE SeedConstants(ClearSimValues(w))

(* ensureConstantsPropagated() *)
EnsureConstantsPropagated(w) ==
  LET seeded == [SeedPropagation([w EXCEPT !.sim.annotate = {}]) EXCEPT !.sim.invalidInsts = {}]
  IN  IF w.sim.valid
        THEN w
        ELSE [AnnotateGraphEdges(PropagateConstants(seeded)) EXCEPT !.sim.valid = TRUE,
                                                                    !.sim.incremental = TRUE]
=============================================================================
