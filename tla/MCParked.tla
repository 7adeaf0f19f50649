------------------------------- MODULE MCParked -------------------------------
(***************************************************************************)
(* Instances of Parked for TLC.  The unit is about half a millisecond: a   *)
(* source of 60 frames a second has a period of 32, and the band of 1 ms   *)
(* is 2 units.                                                             *)
(***************************************************************************)
EXTENDS Parked

\* Unlocked: any phase, jitter as wide as the band.
Unlocked(present) ==
    [present |-> present, sink |-> 32, phases |-> 0 .. 31, offsets |-> 0 .. 2,
     holes |-> FALSE, reach |-> 1]

\* Locked on the source's grid, with frames missing, some stamped a sixth of a period late.
Holed == [present |-> 32, sink |-> 32, phases |-> {0}, offsets |-> {0, 5},
          holes |-> TRUE, reach |-> 2]

\* Locked, at three halves of the present rate.
ThreeHalves == [present |-> 48, sink |-> 48, phases |-> {0, 16}, offsets |-> 0 .. 3,
                holes |-> FALSE, reach |-> 1]

MCRegimes == {Unlocked(r) : r \in {8, 16, 32, 64}} \cup {Holed, ThreeHalves}
===============================================================================
