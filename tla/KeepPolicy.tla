------------------------------ MODULE KeepPolicy ------------------------------
(***************************************************************************)
(* The capture-side decisions of src/core/TemporalPolicy.cpp: how a wake   *)
(* joins a batch (UpdateBatch), whether its picture may wait in its        *)
(* capture buffer (DecideDefer, DeferOnTimeout) and which member of a      *)
(* batch is kept (DecideKeep).  They are pure functions of their arguments *)
(* and are called by CaptureRing.                                          *)
(*                                                                         *)
(* A wake's arrival time is abstracted to its capture number: wake i       *)
(* arrives at instant i.  Whether two arrivals are closer than the batch   *)
(* window, and whether the gap before a batch exceeds the deferral's gap   *)
(* limit, are inputs.                                                      *)
(***************************************************************************)
EXTENDS Integers

\* The average batch size, in Q8, from which frames count as coming in pairs.
PairedQ8 == 410

\* A batch: the capture number of the wake that opened it, the index of its
\* newest member, and whether the gap before it exceeded the deferral's limit.
Batches == [start : Nat, member : Nat, longGap : BOOLEAN]

FirstBatch == [start |-> 0, member |-> 0, longGap |-> FALSE]

\* Fold the wake with capture number i into the batch timeline.
UpdateBatch(batch, i, intra, longGap) ==
    IF intra THEN [batch EXCEPT !.member = @ + 1]
             ELSE [start |-> i, member |-> 0, longGap |-> longGap]

\* Running average of members per batch; zero means nothing folded in yet.
FoldMembers(ema, members) ==
    IF ema = 0 THEN members * 256 ELSE (ema * 7 + members * 256) \div 8

DeferStates == [ema : Nat, last : Nat, pending : BOOLEAN]

NoDefer == [ema |-> 0, last |-> 0, pending |-> FALSE]

\* The average once this wake is counted: a batch has closed when a wake opens
\* the next one, except before the very first batch.
DeferEma(s, batch) ==
    IF batch.member = 0 /\ batch.start > 0
    THEN FoldMembers(s.ema, s.last + 1) ELSE s.ema

\* Whether this wake's frame waits uncopied in its capture buffer.
DeferThis(s, batch) ==
    /\ batch.member = 0
    /\ DeferEma(s, batch) >= PairedQ8
    /\ ~batch.longGap

\* The deferral's state once this wake is folded in.
DecideDefer(s, batch) ==
    [ema |-> DeferEma(s, batch), last |-> batch.member, pending |-> DeferThis(s, batch)]

\* A frame left waiting is copied now: the wake opens a batch, so the waiting
\* frame was a batch of one.
CopyPending(s, batch) == s.pending /\ batch.member = 0

\* keeper is the member the rotation names, negative without guidance.
KeepThis(batch, keeper) == keeper < 0 \/ batch.member = keeper

\* Mutant: only the second member takes back the first.
RetractFirst(batch, keeper) == KeepThis(batch, keeper) /\ batch.member = 1

\* Mutant: a member that is not kept itself takes the member before it back.
RetractUnkept(batch, keeper) == batch.member > 0

\* An intra-batch wake that is kept takes back the member before it.
RetractPrev(batch, keeper) == KeepThis(batch, keeper) /\ batch.member > 0

\* Mutant: members are stamped back from batch start.
StampBack(batch, spacing) == batch.start - batch.member * spacing

\* Members are stamped at their own flip where the rotation is armed (spacing
\* is one flip step) and at batch start everywhere else (spacing is 0).
StampOf(batch, spacing) == batch.start + batch.member * spacing
===============================================================================
