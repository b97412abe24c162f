---------------------------- MODULE MCCudaRounds ----------------------------
(***************************************************************************)
(* Instances of CudaRounds: two pins over seven or eight time units, four  *)
(* cycles of two; events on cycle lines and between them, on the last time *)
(* and not, several in a cycle and none, and pins that never toggle.       *)
(***************************************************************************)
EXTENDS CudaRounds

MCInputs ==
  {[wave |-> [p \in Pins |-> {0} \cup (IF p = "a" THEN a ELSE b)],
    max |-> max, format |-> format, basis |-> basis] :
     a \in {{2, 3, 4, 7}, {5, 6}}, b \in {{}, {1, 6, 7}}, max \in {7, 8},
     format \in {"vcd", "fsdb"}, basis \in {"cycle", "event"}}
=============================================================================
