------------------------------- MODULE Dejitter -------------------------------
(***************************************************************************)
(* The dejitter walk of TemporalCaptureMode.  The capture thread leaves    *)
(* the start of every batch in a history; the driver's flips reach the     *)
(* relay some time after they happened; and once a present the walk        *)
(* measures the batches it has not seen against the flips and puts what a  *)
(* batch came late by in an overlay, through which the ring's stamps are   *)
(* read.                                                                   *)
(*                                                                         *)
(* Times are relative to the flip the newest batch was to be shown on, and *)
(* move back by a batch period with every batch.                           *)
(***************************************************************************)
EXTENDS FlipAnchor, SequencesExt

CONSTANTS
    Step,         \* the flip grid's step
    Strides,      \* flips from one batch to the next, in the regimes considered
    Latenesses,   \* how late, or early, a batch may come
    Gaps,         \* after how many periods a batch may follow another, when not after one
    Targets,      \* the presents' targets
    History,      \* CaptureRing::kBatchHistory
    Margin,       \* what the walk leaves of a history that came round
    Entries,      \* StampOverlay::kEntries
    RingBatches,  \* batches in the ring
    Window,       \* m_flipCadenceWindowQpc
    MaxBehind,    \* bound on batches opened from one present to the next
    MaxRun,       \* bound on batches late one after the other
    MaxFaults     \* bound on late batches, gaps, lost flips and outages, for TLC

\* The code has 64 batch starts with a margin of 8, and an overlay of 16 marks, "twice the ring's
\* batch capacity" (TemporalPolicy.h:473): a ring has 32 slots at most, and batches are of two
\* members or more where a generator runs.
ASSUME DejitterAssumption ==
    /\ {Step, History, Margin, Entries, RingBatches, Window, MaxBehind, MaxRun} \subseteq Nat \ {0}
    /\ Strides \subseteq Nat \ {0} /\ Gaps \subseteq Nat \ {0} /\ MaxFaults \in Nat
    /\ Latenesses \union Targets \subseteq Int /\ Warmup \in Nat
    /\ Margin < History /\ 2 * Margin <= History + 1
    /\ RingBatches <= Entries

VARIABLES
    stride,    \* the regime of this run
    batches,   \* m_batchStarts, newest first, each with the flip it belongs to
    flips,     \* FlipHistory: the flips known
    due,       \* the oldest flip not handed over yet
    outage,    \* flips stopped reaching the relay
    behind,    \* m_batchOpens - m_nextBatch
    fresh,     \* batches opened since the last present
    chain,     \* m_anchorChain
    overlay,   \* m_overlay, oldest first
    consumed,  \* m_maxTargetQpc
    faults     \* faults so far

vars == <<stride, batches, flips, due, outage, behind, fresh, chain, overlay, consumed, faults>>

Period == stride * Step

\* What is further back takes no part any more: no walk is that far behind, no window that wide.
Floor == -(History * Period) - Window

Init ==
    /\ stride \in Strides
    /\ batches = <<>> /\ behind = 0 /\ fresh = 0
    /\ flips = {} /\ due = 0 /\ outage = FALSE
    /\ chain = FreshChain /\ overlay = <<>>
    /\ consumed = Floor /\ faults = 0

-----------------------------------------------------------------------------
\* Time goes on by d: everything that has a time is that much further back.
Later(t, d) == IF t - d < Floor THEN Floor ELSE t - d

Pass(d) ==
    /\ flips' = {t - d : t \in {f \in flips : f - d > Floor}}
    /\ due' = Later(due, d)
    /\ consumed' = Later(consumed, d)
    /\ chain' = [chain EXCEPT !.anchor = IF chain.valid THEN Later(@, d) ELSE 0,
                              !.anchorBatch = IF chain.valid THEN Later(@, d) ELSE 0,
                              !.seen = IF chain.any THEN Later(@, d) ELSE 0]
    /\ overlay' = [i \in DOMAIN overlay |-> [overlay[i] EXCEPT !.key = Later(@, d)]]

\* The session is flushed about once a batch, unless flips stopped coming.
Flushed == outage \/ due = Period

\* CaptureLoop opens a batch: late or early, or after a longer gap.
OpenBatch(late, gap) ==
    /\ Flushed
    /\ fresh < MaxBehind
    /\ LET d == gap * Period
           old == [i \in DOMAIN batches |-> [start |-> batches[i].start - d,
                                             own |-> batches[i].own - d]]
       IN /\ old # <<>> => late > old[1].start
          /\ batches' = SubSeq(<<[start |-> late, own |-> 0]>> \o old, 1,
                               IF Len(old) < History THEN Len(old) + 1 ELSE History)
          /\ Pass(d)
    /\ behind' = behind + 1
    /\ fresh' = fresh + 1
    /\ UNCHANGED <<stride, outage>>

BatchOpens == OpenBatch(0, 1) /\ UNCHANGED faults

BatchDisturbed ==
    /\ faults < MaxFaults
    /\ \/ \E late \in Latenesses : OpenBatch(late, 1)
       \/ \E gap \in Gaps : OpenBatch(0, gap)
    /\ faults' = faults + 1

\* Late batches come in runs, while a backlog drains.
LateRun == \E n \in 1 .. MaxRun - 1 :
              /\ n < Len(batches)
              /\ \A i \in 1 .. n : batches[i].start > batches[i].own
              /\ batches[n + 1].start <= batches[n + 1].own

BacklogDrains ==
    /\ LateRun
    /\ \E late \in Latenesses : late > 0 /\ OpenBatch(late, 1)
    /\ UNCHANGED faults

\* A flush hands the consumer's callback the flips since the last one, up to the last before the
\* next batch; one may be lost.
FlipsArrive ==
    /\ ~outage /\ due < Period
    /\ LET new == {due + k * Step : k \in 0 .. (Period - Step - due) \div Step}
       IN \/ flips' = flips \union new /\ UNCHANGED faults
          \/ /\ faults < MaxFaults /\ faults' = faults + 1
             /\ \E lost \in new : flips' = flips \union (new \ {lost})
    /\ due' = Period
    /\ UNCHANGED <<stride, batches, outage, behind, fresh, chain, overlay, consumed>>

\* Flips stop reaching the relay, and do so again; those of the outage come late or never.  The
\* bound on faults lets an outage be the last of them.
OutageBegins ==
    /\ ~outage /\ faults = MaxFaults - 1
    /\ outage' = TRUE /\ faults' = MaxFaults
    /\ UNCHANGED <<stride, batches, flips, due, behind, fresh, chain, overlay, consumed>>

OutageEnds ==
    /\ outage /\ outage' = FALSE
    /\ due' \in {due, 0}
    /\ UNCHANGED <<stride, batches, flips, behind, fresh, chain, overlay, consumed, faults>>

-----------------------------------------------------------------------------
\* BatchStartAt reads the history where the batch was put, which a newer one may have taken.
Entry(b) == batches[IF b <= History THEN b ELSE b - History]

\* StampOverlay::CorrectionFor
Correction(over, start) ==
    LET at == SelectInSeq(over, LAMBDA e : e.key = start)
    IN IF at = 0 THEN 0 ELSE over[at].late

Insert(over, start, late) ==
    LET o == Append(over, [key |-> start, late |-> late])
    IN IF Len(o) > Entries THEN Tail(o) ELSE o

\* Mutant: a correction is taken wherever the targets are by now.
TakenUnfenced(start, late, calm, target) == calm /\ late # 0

\* A correction is taken while the lock is calm and only ahead of every target consumed.
Taken(start, late, calm, target) == calm /\ late # 0 /\ start > target /\ start - late > target

\* One batch of the walk, which stops at a batch whose flip is not known yet.
Offer(w, calm, target) ==
    LET start == Entry(w.behind).start
        m == MeasureLateness(flips, w.chain, start, Window)
    IN IF m.pending THEN [w EXCEPT !.chain = m.chain, !.stopped = TRUE]
       ELSE [w EXCEPT !.chain = m.chain, !.behind = @ - 1,
                      !.over = IF Taken(start, m.late, calm, target)
                               THEN Insert(@, start, m.late) ELSE @]

\* A walk left so far behind that the history may come round skips ahead, and its chain does not
\* span the gap.
Lapped == behind > History - Margin

Started ==
    [behind |-> IF Lapped THEN Margin ELSE behind,
     chain |-> IF Lapped THEN FreshChain ELSE chain,
     over |-> overlay, stopped |-> FALSE]

\* The walk of one present, from the oldest batch not walked to the newest.
Walked(calm, target) ==
    LET first == Started
        walk[n \in 0 .. first.behind] ==
            IF n = 0 THEN first
            ELSE LET w == walk[n - 1] IN IF w.stopped THEN w ELSE Offer(w, calm, target)
    IN walk[first.behind]

Present ==
    /\ fresh > 0
    /\ \E t \in Targets, calm \in BOOLEAN :
          LET target == IF t > consumed THEN t ELSE consumed
              w == Walked(calm, target)
          IN /\ consumed' = target
             /\ behind' = w.behind /\ chain' = w.chain /\ overlay' = w.over
    /\ fresh' = 0
    /\ UNCHANGED <<stride, batches, flips, due, outage, faults>>

Next ==
    \/ BatchOpens \/ BatchDisturbed \/ BacklogDrains \/ FlipsArrive \/ OutageBegins \/ OutageEnds
    \/ Present

\* Only a present takes batches off fresh, which tells its steps from all others.
Presents == fresh' < fresh

\* The presents and the flips go on.
Spec == Init /\ [][Next]_vars /\ []<><<Presents>>_vars /\ []<>(~outage)

-----------------------------------------------------------------------------
InRing == 1 .. Min({RingBatches, Len(batches)})

Corrected(i) == batches[i].start - Correction(overlay, batches[i].start)

\* The batch is corrected by something else than what it came late by.
Fiction(i) ==
    Correction(overlay, batches[i].start) \notin {0, batches[i].start - batches[i].own}

\* A chain that slipped a flip reads late batch after batch; it makes up two corrections at most
\* before the run of late readings drops it.  A batch at Floor may stand for one further back.
FictionEnds ==
    \A i \in InRing :
        i > 2 /\ batches[i].start > Floor => \E k \in i - 2 .. i : ~Fiction(k)

\* Whatever the walk does to the stamps, no frame changes sides of a target consumed before.
FenceHolds ==
    [][Presents => \A i \in InRing : (Corrected(i) <= consumed) = (Corrected(i)' <= consumed)]_vars

Trusted ==
    /\ chain.valid /\ chain.warmup = 0 /\ chain.anchor = chain.anchorBatch
    /\ behind <= fresh + 2

\* The flip of the newest batch is known.
Met == batches # <<>> /\ batches[1].own \in flips

\* After late batches, gaps, lost flips and outages the walk catches up, and its chain is on the
\* batches' own flips and trusted again, if time and again a present comes when the newest batch's
\* flip is known already: without a chain a batch is not offered again.
ChainHeals == []<><<Presents /\ Met>>_vars => <>[]Trusted
=============================================================================
