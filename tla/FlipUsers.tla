------------------------------ MODULE FlipUsers ------------------------------
(***************************************************************************)
(* The two users of the driver's flips side by side: the dejitter walk of  *)
(* the present thread and the rotation vote of the capture thread.  They   *)
(* only read the flips and share no state of their own, so a behaviour     *)
(* follows the one or the other.                                           *)
(***************************************************************************)
EXTENDS Dejitter, PhaseKeep

VARIABLE user    \* whose steps this behaviour follows

allVars == <<vars, keepVars, user>>

UsersInit ==
    /\ Init /\ KeepInit
    /\ user \in {"walk", "vote"}
    /\ user = "walk" => regime.members = 1 /\ place = 0

WalkSteps == user = "walk" /\ Next /\ UNCHANGED keepVars
VoteSteps == user = "vote" /\ KeepNext /\ UNCHANGED vars

UsersNext == (WalkSteps \/ VoteSteps) /\ UNCHANGED user

UsersSpec ==
    /\ UsersInit /\ [][UsersNext]_allVars
    /\ []<><<Presents \/ user = "vote">>_allVars /\ []<>(~outage)
==============================================================================
