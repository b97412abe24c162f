---------------------------- MODULE MCFsdbReader ----------------------------
(***************************************************************************)
(* Instances of FsdbReader: five variables on three threads (uneven        *)
(* ranges), one of them without a name; a file of three complete cycles of *)
(* two time units and an incomplete one.                                   *)
(***************************************************************************)
EXTENDS FsdbReader

MCTasks == 1 .. 3
MCNamed == {1, 2, 4, 5}
MCWorkloads ==
  {[v \in 1 .. 5 |-> IF v \in {1, 4} THEN A ELSE IF v = 2 THEN B ELSE {3, 6}] :
     A, B \in {{}, {0, 1}, {2, 5, 7}}}
=============================================================================
