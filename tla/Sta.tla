-------------------------------- MODULE Sta ---------------------------------
(***************************************************************************)
(* The timing analyser as its user sees it (search/Sta.cc): a sequence of  *)
(* edits of the design and its constraints, each of which invalidates      *)
(* something in Levelize, GraphDelayCalc and Search, and of queries, each  *)
(* of which brings up to date what it needs, at most up to the level of    *)
(* the vertex it is about.  The point of the design is that a query after  *)
(* any edits answers what a new analysis would.                            *)
(***************************************************************************)
EXTENDS Sim

CONSTANTS
  InitialConn,   \* the driver each load is connected to at first
  Moves,         \* the connections edits may make, <<driver, load>>
  Arcs,          \* the arcs edits are made to
  HeldConn,      \* the same in a design that has constants from the start
  HeldCase,      \* their case analysis, <<pin, value>>
  Cases,         \* the case analysis edits may set, <<pin, value>>
  Resized,       \* the drivers whose parasitics edits change
  Asked,         \* the vertices whose delays and arrivals are asked for
  AskedSlack,    \* those whose slack is
  MaxCalls       \* bound on the calls of a session

ASSUME StaAssumption ==
  /\ {InitialConn, HeldConn} \subseteq [Loads -> Drivers \cup {None}]
  /\ HeldCase \in Vertices \X {"0", "1"}
  /\ Moves \subseteq Drivers \X Loads
  /\ Arcs \subseteq GateEdges /\ Resized \subseteq Drivers
  /\ Cases \subseteq Vertices \X {"0", "1"}
  /\ Asked \cup AskedSlack \subseteq Vertices
  /\ MaxCalls \in Nat

VARIABLES
  asked,   \* what the last call has brought up to date
  calls    \* number of calls made

vars == <<graph, sdc, levels, search, delays, sim, asked, calls>>

World == [graph |-> graph, sdc |-> sdc, lv |-> levels, se |-> search, dc |-> delays, sim |-> sim]

(* The design as it is read in. *)
Fresh ==
  [graph |-> [conn |-> InitialConn,
              annotated |-> FALSE,          \* graph_sdc_annotated_
              delay |-> [e \in GateEdges \cup (Drivers \X Loads) |-> 0],
              annotatedArcs |-> {},         \* arcs whose delay is not calculated
              slew |-> [v \in Vertices |-> 0],
              check |-> [v \in Vertices |-> 0],   \* delay of the setup check at the pin
              heavy |-> {},                 \* drivers whose parasitics add load
              value |-> [v \in Vertices |-> "x"],   \* simValue: "0", "1" or unknown
              sense |-> [e \in GateEdges |-> "unknown"]],   \* simTimingSense: positive, none or unknown
   sdc |-> [inDelay |-> [p \in Ports |-> 0],
            outDelay |-> [p \in OutPorts |-> 1],
            disabled |-> {},                \* disabled gate arcs
            case |-> [v \in Vertices |-> None],   \* case analysis
            grouped |-> FALSE,              \* makeClockGroups was called
            uncertainty |-> 0,
            drive |-> {}],                  \* ports with a drive resistance
   lv |-> LevelizeInit,
   se |-> SearchInit,
   dc |-> DelayCalcInit,
   sim |-> SimInit]

Nothing == [kind |-> "nothing", level |-> 0]

(* ensureLevelized() *)
EnsureLevelized(w) == FindLevels(EnsureConstantsPropagated([w EXCEPT !.graph.annotated = TRUE]))

(* searchPreamble(): levels, then delays up to the highest level. *)
FindAllDelays(w) == FindDelays(w, w.lv.max)
SearchPreamble(w) == FindAllDelays(EnsureLevelized(w))

FindAllArrivals(w) == FindArrivals(w, w.lv.max)
AllRequireds(w) == FindRequireds(FindAllArrivals(SearchPreamble(w)), 0)

Held == [Fresh EXCEPT !.graph.conn = HeldConn, !.sdc.case[HeldCase[1]] = HeldCase[2]]

Analysed(w) == TnsPreamble(AllRequireds(w))

(* A session starts at the design as read or, to go deeper in as many      *)
(* calls, after findRequireds() and a totalNegativeSlack().                *)
Init ==
  /\ \E w \in {Fresh, Analysed(Fresh), Analysed(Held)} :
       /\ graph = w.graph
       /\ sdc = w.sdc
       /\ levels = w.lv
       /\ search = w.se
       /\ delays = w.dc
       /\ sim = w.sim
  /\ asked = Nothing
  /\ calls = 0

Become(w, answer) ==
  /\ calls < MaxCalls
  /\ calls' = calls + 1
  /\ graph' = w.graph
  /\ sdc' = w.sdc
  /\ levels' = w.lv
  /\ search' = w.se
  /\ delays' = w.dc
  /\ sim' = w.sim
  /\ asked' = answer

Edit(w) == Become(w, Nothing)
-----------------------------------------------------------------------------
(* Edits *)

(* sdcChangedGraph() *)
GraphSdcRemoved(w) == [w EXCEPT !.graph.annotated = FALSE]

(* Mutant: the delays from the vertex on are kept. *)
SearchInvalidFrom(w, v) == RequiredInvalid(ArrivalInvalid(w, v), v)

DelaysInvalidFrom(w, v) == DelayInvalid(RequiredInvalid(ArrivalInvalid(w, v), v), v)

SetInputDelay ==
  \E p \in Ports, t \in {0, 3} :
    /\ sdc.inDelay[p] # t
    /\ Edit(ArrivalInvalid([World EXCEPT !.sdc.inDelay[p] = t], p))

RemoveInputDelay ==
  \E p \in Ports :
    /\ sdc.inDelay[p] # None
    /\ Edit(ArrivalInvalid([World EXCEPT !.sdc.inDelay[p] = None], p))

SetOutputDelay ==
  \E p \in OutPorts, t \in {1, 4} :
    /\ sdc.outDelay[p] # t
    /\ Edit(RequiredInvalid(GraphSdcRemoved([World EXCEPT !.sdc.outDelay[p] = t]), p))

(* removeOutputDelay() invalidates the arrival, not the required time. *)
RemoveOutputDelay ==
  \E p \in OutPorts :
    /\ sdc.outDelay[p] # None
    /\ Edit(ArrivalInvalid(GraphSdcRemoved([World EXCEPT !.sdc.outDelay[p] = None,
                                                         !.se.untold = @ \cup {p}]), p))

(* setArcDelay() *)
SetArcDelay ==
  \E e \in Arcs :
    /\ e \notin graph.annotatedArcs
    /\ Edit(RequiredInvalid(ArrivalInvalid([World EXCEPT !.graph.delay[e] = 5,
                                                         !.graph.annotatedArcs = @ \cup {e}], e[2]), e[1]))

(* setArcDelayAnnotated() with annotated false *)
RemoveArcDelay ==
  \E e \in graph.annotatedArcs :
    Edit(DelayInvalid(RequiredInvalid(ArrivalInvalid(
           [World EXCEPT !.graph.annotatedArcs = @ \ {e}], e[2]), e[1]), e[2]))

SetDriveResistance ==
  \E p \in Ports \ sdc.drive : Edit(DelaysInvalidFrom([World EXCEPT !.sdc.drive = @ \cup {p}], p))

(* A change of a driver's parasitics, as by setElmore(). *)
SetParasitic ==
  \E d \in Resized \ graph.heavy : Edit(DelaysInvalidFrom([World EXCEPT !.graph.heavy = @ \cup {d}], d))

(* disable() and removeDisable() of the timing arc of an instance *)
DisableChanged(w, e) ==
  ArrivalsInvalid(LevelsInvalid(DelayInvalid(DelayInvalid(GraphSdcRemoved(w), e[1]), e[2])))

Disable ==
  \E e \in Arcs \ sdc.disabled : Edit(DisableChanged([World EXCEPT !.sdc.disabled = @ \cup {e}], e))

RemoveDisable ==
  \E e \in sdc.disabled : Edit(DisableChanged([World EXCEPT !.sdc.disabled = @ \ {e}], e))

(* connectPin() of a load: connectPinAfter() and connectLoadPinAfter(). *)
ConnectPin ==
  \E <<d, l>> \in Moves :
    /\ graph.conn[l] = None
    /\ LET told == RequiredInvalid(ArrivalInvalid(World, l), l)
           made == [told EXCEPT !.graph.conn[l] = d, !.graph.delay[<<d, l>>] = 0]
           from == RequiredInvalid(DelayInvalid(made, d), d)
           to == EndpointInvalid(ArrivalInvalid(LevelsInvalidFrom(DelayInvalid(from, l), l), l), l)
       IN  Edit(ConstantsConnect(to, l))

(* disconnectPin() of a load: disconnectPinBefore() and deleteEdge().  The *)
(* delays of the driver, whose load is lighter now, are not invalidated.   *)
DisconnectPin ==
  \E l \in Loads :
    /\ graph.conn[l] # None
    /\ <<graph.conn[l], l>> \in Moves
    /\ LET e == <<graph.conn[l], l>>
           told == DelayInvalid(RequiredInvalid(ArrivalInvalid(ConstantsDisconnect(World, l), l), e[1]), l)
           before == DeleteEdgeBefore(RelevelizeFrom(told, l), e)
       IN  Edit([before EXCEPT !.graph.conn[l] = None, !.dc.untold = @ \cup {e[1]}])

(* setCaseAnalysis() and removeCaseAnalysis() *)
CaseChanged(w) == ArrivalsInvalid(DelaysInvalid(ConstantsInvalid(LevelsInvalid(w))))

SetCaseAnalysis ==
  \E <<v, value>> \in Cases :
    /\ sdc.case[v] # value
    /\ Edit(CaseChanged([World EXCEPT !.sdc.case[v] = value]))

RemoveCaseAnalysis ==
  \E v \in Vertices :
    /\ sdc.case[v] # None
    /\ Edit(CaseChanged([World EXCEPT !.sdc.case[v] = None]))

(* makeClockGroups() and removeClockGroups() *)
SetClockGroups == Edit(RequiredsInvalid([World EXCEPT !.sdc.grouped = ~@]))

SetClockUncertainty == Edit(ArrivalsInvalid([World EXCEPT !.sdc.uncertainty = 2 - @]))

(* setArcDelayCalc(): delaysInvalid() *)
SetArcDelayCalc == Edit(ArrivalsInvalid(DelaysInvalid(World)))
-----------------------------------------------------------------------------
(* Queries *)

(* No search changes a level, so the level asked for can be read after it. *)
Answer(w, kind, v) == Become(w, [kind |-> kind, level |-> w.lv.level[v]])
AnswerAll(w, kind) == Become(w, [kind |-> kind, level |-> w.lv.max])

(* findDelays(vertex): vertexSlew() and arcDelay() *)
DelaysTo(w, v) == FindDelays(w, w.lv.level[v])
QueryDelays == \E v \in Asked : Answer(DelaysTo(EnsureLevelized(World), v), "delays", v)

(* vertexArrival() *)
ArrivalsTo(w, v) == FindArrivals(w, w.lv.level[v])
QueryArrival == \E v \in Asked : Answer(ArrivalsTo(SearchPreamble(World), v), "arrivals", v)

(* updateTiming(); full discards the arrivals first. *)
UpdateTiming == AnswerAll(FindAllArrivals(ArrivalsInvalid(SearchPreamble(World))), "arrivals")

(* vertexSlack(): findRequired() *)
RequiredsTo(w, v) == FindRequireds(FindAllArrivals(w), w.lv.level[v])
QuerySlack == \E v \in AskedSlack : Answer(RequiredsTo(SearchPreamble(World), v), "slack", v)

QueryTns == AnswerAll(TnsPreamble(SearchPreamble(World)), "tns")

EditStep ==
  \/ SetInputDelay \/ RemoveInputDelay \/ SetOutputDelay \/ RemoveOutputDelay
  \/ SetArcDelay \/ RemoveArcDelay \/ SetDriveResistance \/ SetParasitic
  \/ Disable \/ RemoveDisable \/ ConnectPin \/ DisconnectPin
  \/ SetCaseAnalysis \/ RemoveCaseAnalysis
  \/ SetClockGroups \/ SetClockUncertainty \/ SetArcDelayCalc

Query == QueryDelays \/ QueryArrival \/ UpdateTiming \/ QuerySlack \/ QueryTns

Next == EditStep \/ Query

Spec == Init /\ [][Next]_vars
-----------------------------------------------------------------------------
(* Properties.  What a query answers is a solution of the equations        *)
(* between neighbouring vertices; as every searched edge rises in level,   *)
(* the equations have a single solution, that of a new analysis.  The      *)
(* exceptions the code makes are named and subtracted.                     *)

(* Every component keeps values of its type; an edge that Levelize cuts is *)
(* one of a recorded loop, so that deleteEdgeBefore() finds it when the    *)
(* loop is opened, and no slack in tns_slacks_ is positive.                *)
TypeOK ==
  /\ graph.conn \in [Loads -> Drivers \cup {None}]
  /\ \A e \in DOMAIN graph.delay : graph.delay[e] \in Nat
  /\ \A v \in Vertices : graph.slew[v] \in Nat \cup {InitSlew} /\ levels.level[v] \in Nat
  /\ levels.cut \subseteq levels.loopEdges
  /\ search.tnsInvalid \subseteq Vertices
  /\ search.invalid \cup search.queue \cup search.reqInvalid \cup search.reqQueue \subseteq Vertices
  /\ \A v \in Vertices : search.tnsSlacks[v] <= 0
  /\ asked.kind \in {"nothing", "delays", "arrivals", "slack", "tns"}

(* The constants and the arcs without timing sense that Sim has kept up to *)
(* date through connections and disconnections are those of a propagation  *)
(* from nothing.  Excepted: the arcs of an instance that lost a constant   *)
(* by a disconnection and was not annotated again (untold).                *)
ConstantsCurrent ==
  LET w == World
      new == EnsureConstantsPropagated([w EXCEPT !.graph.value = [v \in Vertices |-> "x"],
                                                 !.graph.sense = Fresh.graph.sense,
                                                 !.sim = SimInit])
      known == {e \in GateEdges : e[2] \notin sim.untold}
  IN  asked # Nothing =>
        /\ graph.value = new.graph.value
        /\ Senseless(w) \cap known = Senseless(new) \cap known

(* After a query the levels rise along every edge that is searched,        *)
(* whatever was connected, disconnected or disabled and relevelized from   *)
(* relevelize_from_: the order in which BfsIterator visits depends on it.  *)
LevelsOrdered ==
  asked # Nothing => \A e \in Searched(World) : levels.level[e[1]] < levels.level[e[2]]

(* A path of edges leads from u to v. *)
Reaches(edges, u, v) ==
  LET RECURSIVE From(_)
      From(S) == LET T == S \cup {e[2] : e \in {f \in edges : f[1] \in S}} IN IF T = S THEN S ELSE From(T)
  IN  v \in From({u})

(* recordLoop() cuts an edge only to break a loop: when a query is         *)
(* answered each cut edge still closes a loop of enabled edges, so no      *)
(* timing path is lost once the loop it was cut for has been opened.       *)
OnlyLoopsCut ==
  asked # Nothing => \A e \in levels.cut : Reaches(Enabled(World), e[2], e[1])

(* Relevelization may cut an edge of a loop anywhere, and tells nobody. *)
CutFrom == {e[1] : e \in levels.cut}
CutTo == {e[2] : e \in levels.cut}

(* A pin that was a root once stays in roots_ when it is connected, and    *)
(* seedRootSlews() treats it as one.                                       *)
StaleRoots == {v \in levels.roots : Fanin(World, v) # {}}

(* The slew and the delays at a driver follow from its load and from the   *)
(* slews before it; a driver without arcs has no slew, unless it is a root.*)
DelaysCurrentAt(w, d) ==
  LET resistive == IF d \in w.sdc.drive THEN LoadCap(w, d) ELSE 0
      arcs == ArcsTo(w, d)
      slew == IF d \in Ports THEN resistive ELSE IF arcs = {} THEN 0 ELSE LoadCap(w, d)
      wire == IF d \in Ports THEN resistive ELSE 0
  IN  /\ w.graph.slew[d] = IF arcs = {} /\ w.lv.level[d] > 0 THEN InitSlew ELSE slew
      /\ \A e \in arcs \ w.graph.annotatedArcs :
           \/ \E f \in w.lv.cut : f[2] = e[1]
           \/ w.graph.delay[e] = 1 + w.graph.slew[e[1]] + slew
      /\ \A l \in Wired(w, d) \ StaleRoots : w.graph.slew[l] = slew
      /\ \A l \in Wired(w, d) : w.graph.delay[<<d, l>>] = wire

(* Vertices that wait in the delay iterator at a level they had before the *)
(* last levelization: a search up to their present level passes them by.   *)
Misfiled == {v \in Vertices : delays.queue[v] > levels.level[v]}

(* After a query that runs findDelays(level), slews and delays up to that  *)
(* level are those of a new delay calculation, although it has only        *)
(* visited what invalid_delays_ led to; disconnected loads have no slew.   *)
(* Excepted: drivers disconnectPin() did not invalidate, Misfiled vertices *)
(* and what follows them, and the targets of cut edges.                    *)
DelaysCurrent ==
  LET w == World
      missed == Misfiled \cup {e[2] : e \in {f \in GateEdges : f[1] \in Misfiled}}
  IN  asked # Nothing =>
        /\ \A d \in Drivers \ (delays.untold \cup missed \cup CutTo \cup Constants(w)) : levels.level[d] <= asked.level => DelaysCurrentAt(w, d)
        /\ \A l \in Loads : graph.conn[l] = None => graph.slew[l] = 0

(* After a query that runs findArrivals(level), the arrivals up to that    *)
(* level are the latest over the fanin, or the seed's, although only       *)
(* vertices in invalid_arrivals_ and those after a change were visited.    *)
(* Excepted: the targets of cut edges, which nobody invalidates.           *)
ArrivalsCurrent ==
  LET w == World
      Seed(v) == IF v \in Ports THEN PortPaths(w, v) ELSE NoPaths
  IN  asked.kind \in {"arrivals", "slack", "tns"} =>
        \A v \in Vertices \ CutTo : levels.level[v] <= asked.level =>
           search.path[v] = IF Fanin(w, v) = {} THEN Seed(v) ELSE FaninPaths(w, v)

(* After findRequired() the required times down to the vertex's level are  *)
(* the least over the fanout and the vertex's own constraint.  Excepted:   *)
(* vertices the code never told to look again (untold) and the sources of  *)
(* cut edges.                                                              *)
RequiredsCurrent ==
  LET w == World
  IN  asked.kind = "slack" =>
        \A v \in Vertices \ (search.untold \cup CutFrom) :
           levels.level[v] >= asked.level => search.req[v] = VertexRequired(w, v)

(* An endpoint whose required time a query for a higher level has left in  *)
(* required_iter_ is no longer in invalid_requireds_, where wnsTnsPreamble *)
(* looks; it matters where the stored required time is used.               *)
Overlooked == {v \in search.untold \cup search.reqQueue : Fanout(World, v) = {}}

(* totalNegativeSlack() sums for every endpoint the slack its constraint   *)
(* has now, although only the endpoints in invalid_tns_ were updated.      *)
TnsCurrent ==
  LET w == World
  IN  asked.kind = "tns" =>
        \A v \in Vertices \ Overlooked :
           IsEndpoint(w, v) => search.tnsSlacks[v] = Negative(OwnSlack(w, v))

(* "The sum of all negative endpoints slacks", incrementally updated       *)
(* (Sta.hh): tns_slacks_ holds the slack of every endpoint as constrained  *)
(* now and of nothing else.  removeOutputDelay() invalidates the arrival   *)
(* of the port instead of its required time, so this does not hold.        *)
TnsExact ==
  LET w == World
  IN  asked.kind = "tns" =>
        \A v \in Vertices : search.tnsSlacks[v] = IF IsEndpoint(w, v) THEN Negative(OwnSlack(w, v)) ELSE 0
=============================================================================
