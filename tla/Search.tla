------------------------------- MODULE Search -------------------------------
(***************************************************************************)
(* Arrivals, required times and total negative slack of the timing         *)
(* analyser (search/Search.cc), kept up to date incrementally: an edit     *)
(* puts the vertices it affects in invalid_arrivals_ or invalid_requireds_ *)
(* and the next query walks the graph from them, in level order, only as   *)
(* far as values change.                                                   *)
(*                                                                         *)
(* A vertex holds the latest arrival of each kind of path that reaches it: *)
(* "clk" paths start at an input with an input delay, "unclk" paths at one *)
(* without; only the former have required times.  Setup analysis at one    *)
(* corner is modelled; the order of the visits inside a level is that of   *)
(* BfsIterator, and here the vertices of a level are taken in order.       *)
(***************************************************************************)
EXTENDS Levelize

CONSTANTS
  Period,      \* time of the capturing clock edge
  Checked,     \* data pins with a setup check
  AsyncChecked \* those whose clock makeClockGroups makes asynchronous

VARIABLES
  sdc,     \* the constraints
  search   \* the Search object

Tags == {"clk", "unclk"}
NoPaths == [t \in Tags |-> None]

SearchInit ==
  [path |-> [v \in Vertices |-> NoPaths],   \* arrivals of the vertex, per tag
   req |-> [v \in Vertices |-> None],       \* required time; None: hasRequireds() is false
   exist |-> FALSE,         \* arrivals_exist_
   seeded |-> FALSE,        \* arrivals_seeded_
   atEnds |-> FALSE,        \* arrivals_at_endpoints_exist_
   invalid |-> {},          \* invalid_arrivals_
   queue |-> {},            \* the vertices in arrival_iter_
   reqExist |-> FALSE,      \* requireds_exist_
   reqSeeded |-> FALSE,     \* requireds_seeded_
   reqInvalid |-> {},       \* invalid_requireds_
   reqQueue |-> {},         \* the vertices in required_iter_
   endsMade |-> FALSE,      \* endpoints_ # nullptr
   ends |-> {},             \* endpoints_
   endsInvalid |-> {},      \* invalid_endpoints_
   tnsExists |-> FALSE,     \* tns_exists_
   tnsSlacks |-> [v \in Vertices |-> 0],   \* tns_slacks_, 0: no entry
   tnsInvalid |-> {},       \* invalid_tns_
   untold |-> {}]           \* history: required time to be found again, nobody told

HasPaths(w, v) == w.se.path[v] # NoPaths

(* Search::isEndpoint; an output delay only matters at an output port.     *)
IsEndpoint(w, v) ==
  /\ Fanin(w, v) # {}
  /\ v \in Checked \/ Fanout(w, v) = {}
-----------------------------------------------------------------------------
(* Invalidation, called by edits and by the observers of the levelization  *)
(* and of the delay calculation.                                           *)

TnsInvalid(w, v) ==
  IF w.se.tnsExists /\ IsEndpoint(w, v) THEN [w EXCEPT !.se.tnsInvalid = @ \cup {v}] ELSE w

ArrivalInvalid(w, v) ==
  IF w.se.exist
    THEN TnsInvalid([w EXCEPT !.se.invalid = @ \cup ({v} \ w.se.queue)], v)
    ELSE w

(* Mutant: the slack of the endpoint is not summed again. *)
RequiredInvalidOnly(w, v) ==
  IF w.se.reqExist THEN [w EXCEPT !.se.reqInvalid = @ \cup ({v} \ w.se.reqQueue)] ELSE w

(* Without effect before the first search for required times, and also     *)
(* after requiredsInvalid(), although the old ones are still stored then.  *)
RequiredInvalid(w, v) ==
  IF w.se.reqExist
    THEN TnsInvalid([w EXCEPT !.se.reqInvalid = @ \cup ({v} \ w.se.reqQueue)], v)
    ELSE [w EXCEPT !.se.untold = IF \E u \in Vertices : w.se.req[u] # None THEN @ \cup {v} ELSE @]

EndpointInvalid(w, v) ==
  IF w.se.endsMade THEN [w EXCEPT !.se.endsInvalid = @ \cup {v}] ELSE w

LevelChangedBefore(w, v) ==
  IF w.se.exist
    THEN RequiredInvalid(ArrivalInvalid(
           [w EXCEPT !.se.queue = @ \ {v}, !.se.reqQueue = @ \ {v}], v), v)
    ELSE w

(* requiredsInvalid(): the required times themselves stay. *)
RequiredsInvalid(w) ==
  [w EXCEPT !.se.reqExist = FALSE, !.se.reqSeeded = FALSE, !.se.reqInvalid = {},
            !.se.tnsExists = FALSE, !.se.tnsInvalid = {},
            !.se.untold = @ \cup w.se.reqInvalid]

ArrivalsInvalid(w) ==
  IF w.se.exist
    THEN [w EXCEPT !.se = [SearchInit EXCEPT !.endsMade = w.se.endsMade,
                                             !.ends = w.se.ends,
                                             !.endsInvalid = w.se.endsInvalid]]
    ELSE w

(* Levelize::ensureLevelized, and what its observer does: the code calls   *)
(* it before each level is set, this after the last and in vertex order.   *)
(* Nothing the observer reads or writes here depends on a level.           *)
LevelsChanged(w) == [FoldLeft(LevelChangedBefore, w, InOrder(w.lv.changed)) EXCEPT !.lv.changed = {}]
FindLevels(w) == LevelsChanged(EnsureLevels(w))
-----------------------------------------------------------------------------
(* Arrivals *)

(* deletePaths of a vertex, tnsNotifyBefore included. *)
DeletePaths(w, v) ==
  [w EXCEPT !.se.path[v] = NoPaths,
            !.se.req[v] = None,
            !.se.tnsSlacks[v] = IF w.se.tnsExists /\ IsEndpoint(w, v) THEN 0 ELSE @]

Reached(paths) == {t \in Tags : paths[t] # None}

(* setVertexArrivals(): required times already stored are invalidated, and *)
(* deleted when the set of tags changes; a vertex that has none stored is  *)
(* not invalidated even when its new paths call for some.                  *)
SetVertexArrivals(w, v, paths) ==
  IF paths = NoPaths
    THEN DeletePaths(w, v)
    ELSE LET set == [w EXCEPT !.se.path[v] = paths]
             sameTags == Reached(paths) = Reached(w.se.path[v])
         IN  IF w.se.req[v] # None
               THEN [RequiredInvalid(set, v) EXCEPT !.se.req[v] = IF sameTags THEN @ ELSE None]
               ELSE [set EXCEPT !.se.untold = IF w.se.reqExist /\ ~sameTags THEN @ \cup {v} ELSE @]

(* The paths that start at an input port. *)
PortPaths(w, p) ==
  IF w.sdc.inDelay[p] = None
    THEN [NoPaths EXCEPT !["unclk"] = 0]
    ELSE [NoPaths EXCEPT !["clk"] = w.sdc.inDelay[p]]

EnqueueFanout(w, v) == [w EXCEPT !.se.queue = @ \cup Fanout(w, v)]

(* seedArrival() *)
SeedArrival(w, v) ==
  CASE v \in Ports -> EnqueueFanout(SetVertexArrivals(w, v, PortPaths(w, v)), v)
    [] v \notin Ports /\ IsRoot(w, v) -> EnqueueFanout(DeletePaths(w, v), v)
    [] OTHER -> [w EXCEPT !.se.queue = @ \cup {v}]

(* What visitFaninPaths finds. *)
FaninPaths(w, v) ==
  [t \in Tags |->
     LET times == {w.se.path[u][t] + w.graph.delay[<<u, v>>] :
                     u \in {x \in Fanin(w, v) : w.se.path[x][t] # None}}
     IN  IF times = {} THEN None ELSE Max(times)]

(* ArrivalVisitor::visit, for the paths found at v. *)
ArrivalFound(w, v, paths) ==
  LET s == [w EXCEPT !.se.queue = @ \ {v}]
  IN  CASE ~HasPaths(w, v) \/ paths # w.se.path[v] ->
             TnsInvalid(SetVertexArrivals(EnqueueFanout(s, v), v, paths), v)
        [] HasPaths(w, v) /\ paths = w.se.path[v] ->
             IF w.se.atEnds THEN s ELSE EnqueueFanout(s, v)

VisitArrival(w, v) == ArrivalFound(w, v, FaninPaths(w, v))

RECURSIVE VisitArrivals(_, _)

(* arrival_iter_->visitParallel: the lowest level first, up to level l.    *)
VisitArrivals(w, l) ==
  LET S == {v \in w.se.queue : w.lv.level[v] <= l}
  IN  IF S = {}
        THEN w
        ELSE LET first == {v \in S : \A u \in S : w.lv.level[v] <= w.lv.level[u]}
             IN  VisitArrivals(VisitArrival(w, Min(first)), l)

(* findArrivals1(): the roots and the input ports are the seeds. *)
SeedArrivals(w) ==
  IF w.se.seeded
    THEN w
    ELSE FoldLeft(SeedArrival, [w EXCEPT !.se.queue = {}, !.se.reqQueue = {}, !.se.seeded = TRUE],
                  InOrder((w.lv.roots \ Constants(w)) \cup Ports))

SeedInvalidArrivals(w) == [FoldLeft(SeedArrival, w, InOrder(w.se.invalid)) EXCEPT !.se.invalid = {}]

ArrivalsFound(w) == [w EXCEPT !.se.atEnds = @ \/ w.se.queue = {}, !.se.exist = TRUE]

FindArrivals(w, l) == ArrivalsFound(VisitArrivals(SeedInvalidArrivals(SeedArrivals(w)), l))
-----------------------------------------------------------------------------
(* Required times *)

(* What visitPathEnds finds to constrain an endpoint: an output delay, or  *)
(* else a setup check, but for one between asynchronous clock groups.      *)
Margin(w, v) ==
  CASE v \in OutPorts /\ w.sdc.outDelay[v] # None -> w.sdc.outDelay[v]
    [] v \in Checked /\ ~(w.sdc.grouped /\ v \in AsyncChecked) -> w.graph.check[v]
    [] OTHER -> None

(* The required time at the end of the paths that have a clock. *)
EndRequired(w, v) ==
  IF w.se.path[v]["clk"] = None \/ Margin(w, v) = None
    THEN None
    ELSE Period - w.sdc.uncertainty - Margin(w, v)

(* requiredsSave(), and the fanin enqueued when it reports a change.       *)
SaveRequired(w, v, required) ==
  IF required # w.se.req[v]
    THEN [w EXCEPT !.se.req[v] = required, !.se.reqQueue = @ \cup Fanin(w, v)]
    ELSE w

(* seedRequired() looks at the endpoint's own constraint only, and leaves  *)
(* what is downstream to a visit; it does not enqueue the endpoint.        *)
SeedRequired(w, v) ==
  [SaveRequired(w, v, EndRequired(w, v)) EXCEPT
     !.se.untold = IF Fanout(w, v) = {} THEN @ \ {v} ELSE @ \cup {v}]

(* visitFanoutPaths(), and the constraint of the vertex itself. *)
VertexRequired(w, v) ==
  LET back == IF w.se.path[v]["clk"] = None
                THEN {}
                ELSE {w.se.req[u] - w.graph.delay[<<v, u>>] :
                        u \in {x \in Fanout(w, v) : w.se.req[x] # None}}
      own == IF IsEndpoint(w, v) THEN {EndRequired(w, v)} \ {None} ELSE {}
  IN  IF back \cup own = {} THEN None ELSE Min(back \cup own)

(* RequiredVisitor::visit *)
VisitRequired(w, v) ==
  TnsInvalid(SaveRequired([w EXCEPT !.se.reqQueue = @ \ {v}, !.se.untold = @ \ {v}], v, VertexRequired(w, v)), v)

RECURSIVE VisitRequireds(_, _)

(* required_iter_->visitParallel: the highest level first, down to l.      *)
VisitRequireds(w, l) ==
  LET S == {v \in w.se.reqQueue : w.lv.level[v] >= l}
  IN  IF S = {}
        THEN w
        ELSE LET first == {v \in S : \A u \in S : w.lv.level[v] >= w.lv.level[u]}
             IN  VisitRequireds(VisitRequired(w, Min(first)), l)

(* endpoints(): found once, then kept from invalid_endpoints_. *)
EnsureEndpoints(w) ==
  [w EXCEPT !.se.ends = {v \in IF w.se.endsMade THEN @ \cup w.se.endsInvalid ELSE Vertices :
                           v \in w.se.endsInvalid \/ ~w.se.endsMade => IsEndpoint(w, v)},
            !.se.endsInvalid = {},
            !.se.endsMade = TRUE]

SeedEnds(w) ==
  [FoldLeft(SeedRequired, w, InOrder(w.se.ends)) EXCEPT !.se.reqSeeded = TRUE, !.se.reqExist = TRUE]
SeedRequireds(w) == SeedEnds(EnsureEndpoints(w))

SeedInvalidRequireds(w) == [w EXCEPT !.se.reqQueue = @ \cup w.se.reqInvalid, !.se.reqInvalid = {}]

FindRequireds(w, l) ==
  LET seeded == SeedInvalidRequireds(IF w.se.reqSeeded THEN w ELSE SeedRequireds(w))
  IN  [VisitRequireds(seeded, l) EXCEPT !.se.reqExist = TRUE]
-----------------------------------------------------------------------------
(* Total negative slack *)

Slack(w, v) ==
  IF w.se.req[v] = None \/ w.se.path[v]["clk"] = None THEN None ELSE w.se.req[v] - w.se.path[v]["clk"]

(* The slack of the endpoint's own constraint. *)
OwnSlack(w, v) ==
  IF EndRequired(w, v) = None THEN None ELSE EndRequired(w, v) - w.se.path[v]["clk"]

(* wnsSlacks(): a stored required time of an endpoint with fanout includes *)
(* what is downstream.                                                     *)
EndSlack(w, v) == IF Fanout(w, v) = {} THEN Slack(w, v) ELSE OwnSlack(w, v)

Negative(slack) == IF slack # None /\ slack < 0 THEN slack ELSE 0

(* wnsTnsPreamble(): of the invalid required times only those of endpoints *)
(* are needed.                                                             *)
WnsTnsPreamble(w) ==
  LET Reseed(s, v) ==
        [SeedRequired(s, v) EXCEPT !.se.reqQueue = IF Fanout(s, v) # {} THEN @ \cup {v} ELSE @]
      invalidEnds == {v \in w.se.reqInvalid : IsEndpoint(w, v)}
  IN  IF w.se.reqSeeded
        THEN [FoldLeft(Reseed, w, InOrder(invalidEnds)) EXCEPT !.se.reqInvalid = @ \ invalidEnds]
        ELSE SeedRequireds(w)

(* findTotalNegativeSlacks() *)
FindTns(w) ==
  [w EXCEPT !.se.tnsSlacks = [v \in Vertices |-> IF v \in w.se.ends THEN Negative(EndSlack(w, v)) ELSE 0],
            !.se.tnsExists = TRUE]

(* updateInvalidTns(): a vertex that is no longer an endpoint is skipped.  *)
UpdateInvalidTns(w) ==
  [w EXCEPT !.se.tnsSlacks = [v \in Vertices |-> IF v \in w.se.tnsInvalid /\ IsEndpoint(w, v)
                                                   THEN Negative(EndSlack(w, v))
                                                   ELSE @[v]],
            !.se.tnsInvalid = {}]

UpdateTns(w) == IF w.se.tnsExists THEN UpdateInvalidTns(w) ELSE FindTns(EnsureEndpoints(w))

TnsPreamble(w) == UpdateTns(WnsTnsPreamble(FindArrivals(w, w.lv.max)))
=============================================================================
