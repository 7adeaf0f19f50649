------------------------------ MODULE FrameStore ------------------------------
(***************************************************************************)
(* What the capture ring promises the present thread, without slots,       *)
(* buffers or copies: a store of the newest frames.  A frame is entered    *)
(* once, under the next number.  It is then shown (its picture may be      *)
(* used), waiting (its stamp is final and its picture is still on its way) *)
(* or neither.  A waiting frame may become shown.  A frame is taken back   *)
(* only in favour of the frame entered right after it, and brought back    *)
(* only as the newest frame of all.  Otherwise a frame leaves the store    *)
(* only by age.                                                            *)
(***************************************************************************)
EXTENDS Integers

CONSTANT Depth     \* how many of the newest frames the store holds, at least one

VARIABLES count,   \* frames entered so far
          shown,   \* numbers of the frames whose pictures may be used
          waiting  \* numbers of the frames whose pictures are on their way

vars == <<count, shown, waiting>>

Held(n) == {i \in 0 .. (n - 1) : i >= n - Depth}

TypeOK ==
    /\ count \in Nat
    /\ shown \subseteq Held(count)
    /\ waiting \subseteq Held(count)
    /\ shown \cap waiting = {}

Init == count = 0 /\ shown = {} /\ waiting = {}

Enter ==
    /\ count' = count + 1
    /\ \/ shown' = (shown \cup {count}) \cap Held(count') /\ waiting' = waiting \cap Held(count')
       \/ shown' = shown \cap Held(count') /\ waiting' = (waiting \cup {count}) \cap Held(count')
       \/ shown' = shown \cap Held(count') /\ waiting' = waiting \cap Held(count')

Arrive ==
    \E S \in SUBSET waiting :
        /\ S # {}
        /\ shown' = shown \cup S
        /\ waiting' = waiting \ S
        /\ UNCHANGED count

TakeBack ==
    /\ count - 1 \in shown \cup waiting
    /\ shown' = shown \ {count - 2}
    /\ waiting' = waiting \ {count - 2}
    /\ UNCHANGED count

BringBack ==
    /\ count > 0
    /\ shown' = shown \cup {count - 1}
    /\ waiting' = waiting \ {count - 1}
    /\ UNCHANGED count

Next == Enter \/ Arrive \/ TakeBack \/ BringBack

Spec == Init /\ [][Next]_vars
===============================================================================
