----------------------------- MODULE MCCpuPower -----------------------------
(***************************************************************************)
(* Instances of CpuPower: three gates of one input and one output each.    *)
(***************************************************************************)
EXTENDS CpuPower

At(t, v) == [time |-> t, value |-> v]
Gate(in, out) == [waves |-> <<in, out>>, clocks |-> {}, default |-> X]
ClockGate(in, out) == [Gate(in, out) EXCEPT !.clocks = {1}]

(* A pin that starts at 0 and changes at the times of a set. *)
Alternating(S) ==
  LET times == SetToSortSeq(S, LAMBDA s, t : s < t)
  IN  <<At(0, 0)>> \o [i \in 1 .. Len(times) |-> At(times[i], i % 2)]

(* A clock, a pin with an X, one that is late and one without events; two  *)
(* changes at one time, also at time 0; a change at the last time.         *)
Clocked == ClockGate(Alternating(1 .. TimeMax), Alternating({1, 3, 5}))
Unknown == Gate(<<At(0, X), At(2, 1), At(3, X), At(5, 0)>>, <<>>)
Late == Gate(<<At(2, 1), At(4, 0)>>, Alternating({TimeMax}))
Instant == Gate(<<At(0, 0), At(0, 1), At(3, 0), At(3, 1)>>, Alternating({3}))
Floating == Gate(<<At(0, Z), At(1, 1)>>, <<At(0, 1), At(4, Z), At(5, 0)>>)

(* U, which the map of values lacks, in the middle of a waveform. *)
Throwing == Gate(<<At(0, 0), At(1, 1), At(3, Unmapped)>>, Alternating({2}))

MCNetlists ==
  {<<Gate(Alternating(S), Alternating({4})), Late, Instant>> : S \in SUBSET (1 .. TimeMax - 1)}
  \cup {<<Clocked, Unknown, Late>>, <<Instant, Floating, Clocked>>,
        <<Throwing, Clocked, Late>>, <<Throwing, Throwing, Late>>}
=============================================================================
