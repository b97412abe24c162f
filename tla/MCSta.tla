------------------------------- MODULE MCSta --------------------------------
(* Port 1 drives pin 2 of gate A and the register's pin 8; gate A (2, 3) has *)
(* output 4, which drives pin 5 of gate B; output 6 of B drives port 7.  Pin *)
(* 3 is free at first, and connected to 6 it closes a loop.                  *)
EXTENDS Sta

mcGateEdges == {<<2, 4>>, <<3, 4>>, <<5, 6>>}
mcConn == (2 :> 1) @@ (3 :> None) @@ (5 :> 4) @@ (7 :> 6) @@ (8 :> 1)
mcHeldConn == [mcConn EXCEPT ![3] = 6]
mcHeldCase == <<6, "1">>
mcMoves == {<<1, 3>>, <<6, 3>>, <<1, 8>>, <<4, 8>>}
mcCases == {<<3, "0">>}
mcArcs == {<<5, 6>>}
=============================================================================
