------------------------------ MODULE RingReader ------------------------------
(***************************************************************************)
(* The present thread reading the ring while the capture thread fills it:  *)
(* CaptureRing::FindBracket, which picks the frames around a target time   *)
(* for drawing, and CaptureRing::ReadRecentFrames, which lists the frames  *)
(* the phase lookahead works on.  Both load m_published once and then walk *)
(* the slots from the newest frame down, one field at a time and without a *)
(* lock, so the capture thread may store, count, turn on, take back or     *)
(* recycle a frame between any two reads.                                  *)
(*                                                                         *)
(* The dejitter's corrections are not part of this module: stamps are read *)
(* as the ring holds them.                                                 *)
(***************************************************************************)
EXTENDS CaptureRing

CONSTANT MaxAt     \* kMaxAt, the frames listed at or before the target

ASSUME MaxAtAssumption == MaxAt \in Nat \ {0}

VARIABLES
    look,     \* the walk in hand: what for, m_published as loaded, the frame
              \* looked at, the target time and the field read next
    before,   \* the bracket's sides so far
    after,
    recent,   \* the frames listed so far
    steady    \* history: frames that have counted ever since the walk began

readerVars == <<look, before, after, recent, steady>>
allVars == <<vars, readerVars>>

\* idx is the frame the walk stood at, named the one the slot's fields named.
NoPick == [has |-> FALSE, idx |-> 0, ts |-> 0, named |-> 0]

Idle == [for |-> "idle", p |-> 0, i |-> 0, target |-> 0, at |-> "done"]

\* The frames a walk is to find: those shown, and for the lookahead those
\* waiting for their picture too.
Counts(R, i, for) ==
    \/ R[SlotOf(i)].valid
    \/ for = "recent" /\ R[SlotOf(i)].awaitingCopy

\* Mutant: the walk takes in the slot the next wake writes.
OldestOfRing(p) == IF p - N < 0 THEN 0 ELSE p - N

\* The slot the next wake writes is left out.
Oldest(p) == IF p - (N - 1) < 0 THEN 0 ELSE p - (N - 1)

ReaderInit == look = Idle /\ before = NoPick /\ after = NoPick /\ recent = {} /\ steady = {}

InitR == Init /\ ReaderInit

\* A present begins a walk for its target time.
Begin ==
    /\ look.for = "idle" /\ ~asked
    /\ \E for \in {"bracket", "recent"}, target \in 0 .. MaxFrames :
          /\ look' = [for |-> for, p |-> published, i |-> published - 1, target |-> target,
                      at |-> IF published - 1 >= Oldest(published) THEN "valid" ELSE "done"]
          /\ steady' = {i \in Window : Counts(ring, i, for)}
    /\ before' = NoPick /\ after' = NoPick /\ recent' = {}
    /\ UNCHANGED vars

\* The walk moves to the next older frame, or ends.
Onward(l) ==
    IF l.i - 1 >= Oldest(l.p) THEN [l EXCEPT !.i = @ - 1, !.at = "valid"]
                              ELSE [l EXCEPT !.at = "done"]

ReadValid ==
    /\ look.at = "valid"
    /\ look' = IF ring[SlotOf(look.i)].valid THEN [look EXCEPT !.at = "stamp"]
               ELSE IF look.for = "recent" THEN [look EXCEPT !.at = "awaiting"]
               ELSE Onward(look)
    /\ UNCHANGED <<vars, before, after, recent, steady>>

ReadAwaiting ==
    /\ look.at = "awaiting"
    /\ look' = IF ring[SlotOf(look.i)].awaitingCopy THEN [look EXCEPT !.at = "stamp"]
               ELSE Onward(look)
    /\ UNCHANGED <<vars, before, after, recent, steady>>

\* Mutant: the last frame seen of several at one distance wins.
NearerOrEqual(dist, best, target) ==
    ~best.has \/ dist <= (IF best.ts <= target THEN target - best.ts ELSE best.ts - target)

\* A frame replaces a side of the bracket only when it is nearer to the target.
Nearer(dist, best, target) ==
    ~best.has \/ dist < (IF best.ts <= target THEN target - best.ts ELSE best.ts - target)

\* The slot's stamp is read, and the frame is put where it belongs.
ReadStamp ==
    /\ look.at = "stamp"
    /\ LET S == ring[SlotOf(look.i)]
           pick == [has |-> TRUE, idx |-> look.i, ts |-> S.timestamp,
                    named |-> S.batchStart + S.member]
       IN
       \/ /\ look.for = "bracket"
          /\ \/ /\ S.timestamp <= look.target
                /\ before' = IF Nearer(look.target - S.timestamp, before, look.target)
                             THEN pick ELSE before
                /\ UNCHANGED after
             \/ /\ S.timestamp > look.target
                /\ after' = IF Nearer(S.timestamp - look.target, after, look.target)
                            THEN pick ELSE after
                /\ UNCHANGED before
          /\ look' = Onward(look)
          /\ UNCHANGED recent
       \/ /\ look.for = "recent"
          /\ recent' = recent \cup {[idx |-> look.i, ahead |-> S.timestamp > look.target]}
          /\ look' = IF Cardinality({r \in recent' : ~r.ahead}) = MaxAt
                     THEN [look EXCEPT !.at = "done"] ELSE Onward(look)
          /\ UNCHANGED <<before, after>>
    /\ UNCHANGED <<vars, steady>>

\* The frames picked are drawn, or the list is used, and the present goes on.
Finish ==
    /\ look.for # "idle" /\ look.at = "done"
    /\ look' = Idle /\ before' = NoPick /\ after' = NoPick /\ recent' = {} /\ steady' = {}
    /\ UNCHANGED vars

\* Stop() is called by the present thread, never within a walk.
StopCapture == look.for = "idle" /\ AskStop /\ UNCHANGED readerVars

Capture ==
    /\ Wake \/ GpuDone
    /\ steady' = {i \in steady : i > published' - N /\ Counts(ring', i, look.for)}
    /\ UNCHANGED <<look, before, after, recent>>

Ended == Joined /\ UNCHANGED readerVars

NextR ==
    \/ Begin \/ ReadValid \/ ReadAwaiting \/ ReadStamp \/ Finish
    \/ StopCapture \/ Capture \/ Ended

SpecR == InitR /\ [][NextR]_allVars

-----------------------------------------------------------------------------
Picks == [has : BOOLEAN, idx : Nat, ts : Nat, named : Nat]

\* The reader's own state has its type, and a walk stands at a frame that had
\* been counted when it began.
ReaderTypeOK ==
    /\ look \in [for : {"idle", "bracket", "recent"}, p : Nat, i : Int, target : Nat,
                 at : {"valid", "awaiting", "stamp", "done"}]
    /\ look.at # "done" => look.i \in Oldest(look.p) .. (look.p - 1)
    /\ before \in Picks /\ after \in Picks
    /\ recent \subseteq [idx : Nat, ahead : BOOLEAN]
    /\ steady \subseteq Nat

\* A side of the bracket stays good to draw until the ring has come round to
\* its slot, and at the least until the next frame is counted: its slot holds
\* the picture of the frame its fields named when they were read.
Intact(pick) ==
    pick.has /\ (published < pick.idx + N \/ published = look.p) =>
        pick.named = pick.idx /\ px[SlotOf(pick.idx)] = pick.idx

BracketIntact == ~asked => Intact(before) /\ Intact(after)

\* The inductive invariant behind BracketIntact: what the walk stands at and what
\* it has picked had been counted when it began, and holds its own picture for as
\* long as the ring has not come round to it.
Held(i) == i \in Window => px[SlotOf(i)] = i

PickInv(pick) ==
    pick.has => /\ pick.idx \in Oldest(look.p) .. (look.p - 1)
                /\ Held(pick.idx)
                /\ pick.idx \in Window => pick.named = pick.idx

WalkInv ==
    /\ look.p <= published
    /\ look.for = "bracket" => /\ look.at # "awaiting"
                               /\ look.at = "stamp" => Held(look.i)
    /\ PickInv(before) /\ PickInv(after)

RInv == IInv /\ ReaderTypeOK /\ (~asked => WalkInv)

\* However the capture thread moved meanwhile, a frame that was shown during
\* all of the walk is no nearer to the target than the bracket's side, and at
\* equal stamps the newer frame wins: a real frame hides the generated one it
\* shares its stamp with.
NearestBracket ==
    look.for = "bracket" /\ look.at = "done" => \A f \in steady :
        LET ts == At(f).timestamp
        IN IF ts <= look.target
           THEN before.has /\ (before.ts > ts \/ (before.ts = ts /\ before.idx >= f))
           ELSE after.has /\ (after.ts < ts \/ (after.ts = ts /\ after.idx >= f))

\* ReadRecentFrames says that "a frame still waiting to be copied counts".  So a
\* frame that is either waiting or shown at every moment of the walk is listed
\* (but for those older than the last one asked for).
RecentComplete ==
    look.for = "recent" /\ look.at = "done" => \A f \in steady :
        \/ \E r \in recent : r.idx = f
        \/ Cardinality({r \in recent : ~r.ahead}) = MaxAt
===============================================================================
