--------------------------- MODULE MCBfsIterator ---------------------------
(***************************************************************************)
(* Instances of BfsIterator: a small reconvergent graph on three levels.   *)
(***************************************************************************)
EXTENDS BfsIterator

(* The inputs a and b meet in c, which feeds d and f; a also reaches d and *)
(* e reaches f directly: levels of three, one and two vertices, so that    *)
(* two threads get an uneven chunk each, a level is too short to be cut,   *)
(* two visits enqueue the same vertex, and e may sit on level 0 or 1.      *)
MCVertices == {"a", "b", "c", "d", "e", "f"}
MCLevel0 == [v \in MCVertices |-> CASE v \in {"a", "b", "e"} -> 0 [] v = "c" -> 1 [] OTHER -> 2]
MCEdges == {<<"a", "c">>, <<"b", "c">>, <<"e", "f">>, <<"c", "d">>, <<"c", "f">>, <<"a", "d">>}

(* Visits in parallel, while the graph is edited between them. *)
Parallel == [forward |-> FALSE, threads |-> 2, removals |-> TRUE, refs |-> {}]

(* The clock reference pin b belongs to an input delay whose port drives a *)
(* vertex of b's own level.                                                *)
SameLevelRefs == {<<"b", "a">>}

(* One thread, also used through hasNext() and next(). *)
Serial == [forward |-> TRUE, threads |-> 1, removals |-> FALSE, refs |-> SameLevelRefs]

MCModes == {Parallel, Serial}
ParallelRefModes == {[Parallel EXCEPT !.forward = TRUE, !.refs = SameLevelRefs]}
=============================================================================
