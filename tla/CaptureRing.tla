----------------------------- MODULE CaptureRing -----------------------------
(***************************************************************************)
(* The capture thread of src/relay/CaptureRing.cpp: CaptureLoop, and       *)
(* NvfbcCaptureSource beneath it, filling the ring of shared slots that    *)
(* the present thread reads.                                               *)
(*                                                                         *)
(* One wake of the loop is BeginGrab, a grab result, Place, Store,         *)
(* OpenBatch, Publish and Settle; between any two of them the GPU may land *)
(* a copy (GpuDone) and the present thread may read the slots or stop the  *)
(* capture (AskStop).  A frame is named by its capture number, and a       *)
(* picture by the frame it shows.                                          *)
(***************************************************************************)
EXTENDS KeepPolicy, FiniteSets

CONSTANTS
    N,           \* m_ringSlots, the slots in use
    Modes,       \* the launch options under which the loop runs, see Mode
    MaxFrames,   \* bound: wakes stored
    MaxMembers   \* bound: members in a batch

\* The code clamps the slots in use to 16 .. 32; three are enough for what is
\* shown here.
ASSUME RingAssumption == N \in Nat /\ N >= 3

\* deferCopy: -defer and two NvFBC buffers granted.  queries: an event query
\* was made for each buffer.  phaseKeep, fgPhase: -phasekeep, -fgphase.  wgc: -wgc.
Mode == [deferCopy : BOOLEAN, queries : BOOLEAN, phaseKeep : BOOLEAN,
         fgPhase : BOOLEAN, wgc : BOOLEAN]

ASSUME ModesAssumption == Modes \subseteq Mode
ASSUME BoundsAssumption == MaxFrames \in Nat /\ MaxMembers \in Nat \ {0}

Slots == 0 .. (N - 1)
Buffers == {0, 1}
NoSlot == -1
Torn == -1       \* a picture that is no frame's: undefined or half written

SlotOf(i) == i % N

VARIABLES
    mode,          \* the launch options, fixed for the run
    \* Shared with the present thread.
    ring,          \* m_ring: the slots' fields
    px,            \* the picture in each slot's shared texture
    published,     \* m_published (and m_writeCount, its capture-side twin)
    stop,          \* m_stop
    asked,         \* the present thread has left its loop and called Stop
    \* Batch, deferral and keep decisions.
    batch,         \* BatchState with the gap before the batch (m_batchGap)
    defer,         \* DeferState
    rot,           \* the batch the keep rule runs under, and its last member
    \* The NvFBC source and the GPU.
    bufferIdx,     \* m_bufferIdx, the buffer the next grab writes
    buf,           \* the picture in each NvFBC buffer
    pendingSlot,   \* m_pendingSlot
    pendingBuf,    \* m_pendingSource
    inFlightSlot,  \* m_inFlightSlot, by buffer
    copying,       \* buffers whose handed-over copy the GPU has not done
    \* The loop.
    source,        \* which source captures: "nvfbc" or "wgc"
    wgcPending,    \* m_wgcRequested and not yet tried
    wake,          \* the wake in hand: its placement and whether it is ready
    pc

sharedVars == <<ring, px, published>>
stopVars   == <<stop, asked>>
policyVars == <<batch, defer, rot>>
sourceVars == <<bufferIdx, pendingSlot, pendingBuf, inFlightSlot>>
gpuVars    == <<buf, copying>>
loopVars   == <<source, wgcPending, wake>>
vars == <<mode, sharedVars, stopVars, policyVars, sourceVars, gpuVars, loopVars, pc>>

-----------------------------------------------------------------------------
\* Mutant: the deferral stays on under phase-aware keep-real.
DeferAnyway == mode.deferCopy /\ ~mode.fgPhase

\* TemporalCaptureMode turns the deferral on only without phase-aware
\* keep-real and without the content-phase instrument.
DeferOn == mode.deferCopy /\ ~mode.fgPhase /\ ~mode.phaseKeep

\* Copies are waited for at once unless both buffers have an event query.
NoWait == DeferOn /\ mode.queries

\* Mutant: every grab writes the first buffer.
GrabFirstBuffer == 0

GrabBuffer == IF DeferOn THEN bufferIdx ELSE 0

EmptySlot == [timestamp |-> 0, batchStart |-> 0, member |-> 0,
              valid |-> FALSE, awaitingCopy |-> FALSE, copyInFlight |-> FALSE]

NoWake == [waits |-> FALSE, replaced |-> NoSlot, ready |-> FALSE]

\* A wait for the copies out of the buffers in B ends once the GPU has done
\* them, or early, with any of them not done, when the loop is stopping.
WaitFor(B) == IF stop THEN SUBSET (copying \cap B) ELSE {copying \cap B}

\* The slots' pictures once the copies out of the buffers in fin have landed.
Landed(fin) ==
    [s \in Slots |-> IF \E b \in fin : inFlightSlot[b] = s
                     THEN buf[CHOOSE b \in fin : inFlightSlot[b] = s]
                     ELSE px[s]]

\* Mutant: a copy found done turns its slot on although its frame was taken back.
ConfirmedAlways(R, busy) ==
    [s \in Slots |->
        IF \E b \in Buffers \ busy : inFlightSlot[b] = s
        THEN [R[s] EXCEPT !.copyInFlight = FALSE, !.valid = TRUE, !.awaitingCopy = FALSE]
        ELSE R[s]]

\* Confirm, for every buffer at once: a copy found done turns its slot on,
\* unless keep-real took the frame back meanwhile.
Confirmed(R, busy) ==
    [s \in Slots |->
        IF \E b \in Buffers \ busy : inFlightSlot[b] = s
        THEN [R[s] EXCEPT !.copyInFlight = FALSE,
                          !.valid = @ \/ R[s].awaitingCopy,
                          !.awaitingCopy = FALSE]
        ELSE R[s]]

\* Mutant: a look at the queries forgets the copies that are not done yet.
NoneInFlight(busy) == [b \in Buffers |-> NoSlot]

StillInFlight(busy) == [b \in Buffers |-> IF b \in busy THEN inFlightSlot[b] ELSE NoSlot]

TurnOn(R, s) == [R EXCEPT ![s].valid = TRUE, ![s].awaitingCopy = FALSE]

\* A slot stops counting for the lookahead.
NotAwaited(R, s) == [R EXCEPT ![s].awaitingCopy = FALSE]

\* Keep-real takes a frame back: its slot is off, and no copy turns it on later.
TakenBack(R, s) == [R EXCEPT ![s].valid = FALSE, ![s].awaitingCopy = FALSE]

\* A frame is brought back, at once or when its copy is done.
BroughtBack(R, s, stamp) ==
    IF R[s].copyInFlight THEN [R EXCEPT ![s].timestamp = stamp, ![s].awaitingCopy = TRUE]
                         ELSE [R EXCEPT ![s].timestamp = stamp, ![s].valid = TRUE]

\* CopyAndWait: the frame in buffer b reaches slot s.  The GPU works in order,
\* so the copies handed over before it have landed too.  done is FALSE when
\* the loop was stopped while waiting.
CopyAndWait(b, s, done) ==
    /\ done \/ stop
    /\ px' = IF done THEN [Landed(copying) EXCEPT ![s] = buf[b]] ELSE [px EXCEPT ![s] = Torn]
    /\ copying' = IF done THEN {} ELSE copying

-----------------------------------------------------------------------------
Init ==
    /\ mode \in Modes
    /\ ring = [s \in Slots |-> EmptySlot]
    /\ px = [s \in Slots |-> Torn]
    /\ published = 0
    /\ stop = FALSE /\ asked = FALSE
    /\ batch = FirstBatch /\ defer = NoDefer
    /\ rot = [keeper |-> -1, spacing |-> 0, start |-> 0, last |-> 0]
    /\ bufferIdx = 0
    /\ buf = [b \in Buffers |-> Torn]
    /\ pendingSlot = NoSlot /\ pendingBuf = 0
    /\ inFlightSlot = [b \in Buffers |-> NoSlot]
    /\ copying = {}
    /\ source = "nvfbc" /\ wgcPending = mode.wgc /\ wake = NoWake
    /\ pc = "wait"

\* The loop's head: the D3D11 present has offered its device and a WGC session
\* opens on it, or does not.  NvFBC is let go only once WGC captures (Finish).
OpenWgc ==
    /\ pc = "wait" /\ ~stop /\ wgcPending
    /\ wgcPending' = FALSE
    /\ \/ UNCHANGED <<sharedVars, sourceVars, gpuVars, source>>
       \/ /\ source' = "wgc"
          /\ \/ /\ pendingSlot = NoSlot
                /\ \E fin \in WaitFor(Buffers) :
                      px' = Landed(fin) /\ copying' = copying \ fin
                /\ ring' = Confirmed(ring, copying')
             \/ /\ pendingSlot # NoSlot
                /\ \E done \in BOOLEAN : CopyAndWait(pendingBuf, pendingSlot, done)
                /\ ring' = TurnOn(Confirmed(ring, copying'), pendingSlot)
          /\ inFlightSlot' = StillInFlight(copying')
          /\ pendingSlot' = NoSlot
          /\ UNCHANGED <<published, bufferIdx, pendingBuf, buf>>
    /\ UNCHANGED <<mode, stopVars, policyVars, wake, pc>>

\* NvfbcCaptureSource::Wait up to the grab: copies found done turn their slots
\* on, and the copy out of the buffer the grab is about to write is waited for.
BeginGrab ==
    /\ pc = "wait" /\ ~stop
    /\ \E fin \in WaitFor({bufferIdx}) : px' = Landed(fin) /\ copying' = copying \ fin
    /\ ring' = Confirmed(ring, copying')
    /\ inFlightSlot' = StillInFlight(copying')
    /\ buf' = IF source = "nvfbc" THEN [buf EXCEPT ![GrabBuffer] = Torn] ELSE buf
    /\ pc' = "grab"
    /\ UNCHANGED <<mode, published, stopVars, policyVars, bufferIdx, pendingSlot, pendingBuf,
                   loopVars>>

\* The grab brings a frame, and the ring folds it into the batch timeline.
GrabFrame ==
    /\ pc = "grab" /\ published < MaxFrames
    /\ \E intra, long \in BOOLEAN :
          /\ intra => published > 0 /\ batch.member + 1 < MaxMembers /\ ~long
          /\ long => published > 0
          /\ batch' = UpdateBatch(batch, published, intra, long)
    /\ buf' = IF source = "nvfbc" THEN [buf EXCEPT ![GrabBuffer] = published] ELSE buf
    /\ ring' = Confirmed(ring, copying)
    /\ inFlightSlot' = StillInFlight(copying)
    /\ wake' = NoWake
    /\ pc' = "place"
    /\ UNCHANGED <<mode, px, published, stopVars, defer, rot, bufferIdx, pendingSlot,
                   pendingBuf, copying, source, wgcPending>>

\* The grab waited out its limit: a frame waiting in its buffer was the last
\* before a pause and is copied now, and copies on their way are waited for.
GrabTimeout ==
    /\ pc = "grab"
    /\ \/ /\ defer.pending /\ pendingSlot # NoSlot /\ DeferOn
          /\ \E done \in BOOLEAN : CopyAndWait(pendingBuf, pendingSlot, done)
          /\ ring' = TurnOn(Confirmed(ring, copying'), pendingSlot)
          /\ pendingSlot' = NoSlot
       \/ /\ ~(defer.pending /\ pendingSlot # NoSlot /\ DeferOn)
          /\ \E fin \in WaitFor(Buffers) : px' = Landed(fin) /\ copying' = copying \ fin
          /\ ring' = Confirmed(ring, copying')
          /\ UNCHANGED pendingSlot
    /\ defer' = IF DeferOn /\ source = "nvfbc" THEN [defer EXCEPT !.pending = FALSE] ELSE defer
    /\ inFlightSlot' = StillInFlight(copying')
    /\ pc' = "wait"
    /\ UNCHANGED <<mode, published, stopVars, batch, rot, bufferIdx, pendingBuf, buf, loopVars>>

\* A failed wait is tried again.
GrabFailed ==
    /\ pc = "grab"
    /\ pc' = "wait"
    /\ UNCHANGED <<mode, sharedVars, stopVars, policyVars, sourceVars, gpuVars, loopVars>>

\* The NvFBC session was invalidated: capture stops.
GrabLost ==
    /\ pc = "grab" /\ source = "nvfbc"
    /\ stop' = TRUE
    /\ pc' = "done"
    /\ UNCHANGED <<mode, sharedVars, asked, policyVars, sourceVars, gpuVars, loopVars>>

\* NvfbcCaptureSource::Place: a frame left waiting is copied, if this wake
\* opens a batch, or given up for this one; and this frame may wait in turn.
Place ==
    /\ pc = "place"
    /\ IF source = "nvfbc" /\ DeferOn
       THEN /\ defer' = DecideDefer(defer, batch)
            /\ \/ /\ defer.pending /\ pendingSlot # NoSlot /\ CopyPending(defer, batch)
                  /\ \E done \in BOOLEAN : CopyAndWait(pendingBuf, pendingSlot, done)
                  /\ ring' = TurnOn(ring, pendingSlot)
                  /\ wake' = [NoWake EXCEPT !.waits = DeferThis(defer, batch)]
                  /\ pendingSlot' = NoSlot
               \/ /\ defer.pending /\ pendingSlot # NoSlot /\ ~CopyPending(defer, batch)
                  /\ wake' = [NoWake EXCEPT !.waits = DeferThis(defer, batch),
                                            !.replaced = pendingSlot]
                  /\ pendingSlot' = NoSlot
                  /\ UNCHANGED <<ring, px, copying>>
               \/ /\ ~(defer.pending /\ pendingSlot # NoSlot)
                  /\ wake' = [NoWake EXCEPT !.waits = DeferThis(defer, batch)]
                  /\ UNCHANGED <<ring, px, copying, pendingSlot>>
       ELSE UNCHANGED <<defer, ring, px, copying, wake, pendingSlot>>
    /\ pc' = IF wake'.waits THEN "open" ELSE "store"
    /\ UNCHANGED <<mode, published, stopVars, batch, rot, bufferIdx, pendingBuf, inFlightSlot,
                   buf, source, wgcPending>>

\* The frame's picture goes into its slot: named there (WGC), copied and
\* waited for, or handed to the GPU, which may be done at once.
Store ==
    /\ pc = "store"
    /\ LET s == SlotOf(published) IN
       \/ /\ source = "wgc"
          /\ px' = [px EXCEPT ![s] = published]
          /\ wake' = [wake EXCEPT !.ready = TRUE]
          /\ UNCHANGED <<ring, copying, inFlightSlot>>
       \/ /\ source = "nvfbc" /\ (~NoWait \/ batch.longGap)
          /\ \E done \in BOOLEAN : CopyAndWait(GrabBuffer, s, done)
          /\ wake' = [wake EXCEPT !.ready = TRUE]
          /\ UNCHANGED <<ring, inFlightSlot>>
       \/ /\ source = "nvfbc" /\ NoWait /\ ~batch.longGap
          /\ px' = [Landed(copying) EXCEPT ![s] = buf[GrabBuffer]]
          /\ copying' = {}
          /\ wake' = [wake EXCEPT !.ready = TRUE]
          /\ UNCHANGED <<ring, inFlightSlot>>
       \/ /\ source = "nvfbc" /\ NoWait /\ ~batch.longGap
          /\ px' = [px EXCEPT ![s] = Torn]
          /\ copying' = copying \cup {bufferIdx}
          /\ inFlightSlot' = [inFlightSlot EXCEPT ![bufferIdx] = s]
          /\ ring' = [ring EXCEPT ![s].copyInFlight = TRUE]
          /\ UNCHANGED wake
    /\ pc' = "open"
    /\ UNCHANGED <<mode, published, stopVars, policyVars, bufferIdx, pendingSlot, pendingBuf, buf,
                   source, wgcPending>>

\* A batch opens under phase-aware keep-real: the member to keep comes from the
\* rotation vote (an input here), and the previous batch's frame is brought
\* back when it was the only one of a batch told to keep member 1.
OpenBatch ==
    /\ pc = "open"
    /\ IF batch.member = 0 /\ mode.phaseKeep
       THEN LET prev == SlotOf(published - 1)
                reclaim == rot.keeper = 1 /\ rot.last = 0 /\ published >= 1
            IN
            /\ ring' = IF reclaim THEN BroughtBack(ring, prev, rot.start + rot.spacing)
                                  ELSE ring
            /\ \E keeper \in -1 .. MaxMembers, spacing \in {0, 1} :
                  /\ keeper >= 0 => spacing = 1
                  /\ rot' = [rot EXCEPT !.keeper = keeper, !.spacing = spacing,
                                        !.start = batch.start]
       ELSE UNCHANGED <<ring, rot>>
    /\ pc' = "publish"
    /\ UNCHANGED <<mode, px, published, stopVars, batch, defer, sourceVars, gpuVars, loopVars>>

\* The slot's fields are written and the frame counted.
Publish ==
    /\ pc = "publish"
    /\ LET s == SlotOf(published)
           kept == KeepThis(batch, rot.keeper)
       IN ring' = [ring EXCEPT ![s] =
                     [timestamp |-> StampOf(batch, rot.spacing),
                      batchStart |-> batch.start,
                      member |-> batch.member,
                      valid |-> kept /\ wake.ready,
                      awaitingCopy |-> kept /\ ~wake.ready,
                      copyInFlight |-> ring[s].copyInFlight]]
    /\ published' = published + 1
    /\ rot' = [rot EXCEPT !.last = batch.member]
    /\ pc' = "settle"
    /\ UNCHANGED <<mode, px, stopVars, batch, defer, sourceVars, gpuVars, loopVars>>

\* After the count: a frame this one replaced stops counting, the source notes
\* what waits and takes the other buffer, and the member before is taken back.
Settle ==
    /\ pc = "settle"
    /\ LET s == SlotOf(published - 1)
           prev == SlotOf(published - 2)
           retract == RetractPrev(batch, rot.keeper) /\ published >= 2
           dropped == IF wake.replaced # NoSlot THEN NotAwaited(ring, wake.replaced) ELSE ring
       IN
       /\ ring' = IF retract THEN TakenBack(dropped, prev) ELSE dropped
       /\ IF wake.waits /\ KeepThis(batch, rot.keeper)
          THEN pendingSlot' = s /\ pendingBuf' = GrabBuffer
          ELSE UNCHANGED <<pendingSlot, pendingBuf>>
    /\ bufferIdx' = IF source = "nvfbc" /\ DeferOn THEN 1 - bufferIdx ELSE bufferIdx
    /\ pc' = "wait"
    /\ UNCHANGED <<mode, px, published, stopVars, policyVars, inFlightSlot, gpuVars, loopVars>>

LoopExit ==
    /\ pc = "wait" /\ stop
    /\ pc' = "done"
    /\ UNCHANGED <<mode, sharedVars, stopVars, policyVars, sourceVars, gpuVars, loopVars>>

\* The GPU lands a copy handed over earlier.
GpuDone ==
    \E b \in copying :
        /\ px' = Landed({b})
        /\ copying' = copying \ {b}
        /\ UNCHANGED <<mode, ring, published, stopVars, policyVars, sourceVars, buf, loopVars, pc>>

\* CaptureRing::Stop, called by the present thread once its loop is over.
AskStop ==
    /\ ~asked
    /\ asked' = TRUE /\ stop' = TRUE
    /\ UNCHANGED <<mode, sharedVars, policyVars, sourceVars, gpuVars, loopVars, pc>>

Joined ==
    /\ pc = "done" /\ asked
    /\ UNCHANGED vars

Wake ==
    \/ OpenWgc \/ BeginGrab \/ GrabFrame \/ GrabTimeout \/ GrabFailed \/ GrabLost
    \/ Place \/ Store \/ OpenBatch \/ Publish \/ Settle \/ LoopExit

Next == Wake \/ GpuDone \/ AskStop \/ Joined

Spec == Init /\ [][Next]_vars

-----------------------------------------------------------------------------
Slot == [timestamp : Nat, batchStart : Nat, member : Nat,
         valid : BOOLEAN, awaitingCopy : BOOLEAN, copyInFlight : BOOLEAN]

Pictures == Nat \cup {Torn}

Points == {"wait", "grab", "place", "store", "open", "publish", "settle", "done"}

\* Every variable has its type: the slots' fields, the pictures in slots and
\* buffers, and the loop's and the source's own state.
TypeOK ==
    /\ mode \in Mode
    /\ ring \in [Slots -> Slot]
    /\ px \in [Slots -> Pictures]
    /\ published \in Nat
    /\ stop \in BOOLEAN /\ asked \in BOOLEAN
    /\ batch \in Batches
    /\ defer \in DeferStates
    /\ rot \in [keeper : Int, spacing : {0, 1}, start : Nat, last : Nat]
    /\ bufferIdx \in Buffers
    /\ buf \in [Buffers -> Pictures]
    /\ pendingSlot \in Slots \cup {NoSlot}
    /\ pendingBuf \in Buffers
    /\ inFlightSlot \in [Buffers -> Slots \cup {NoSlot}]
    /\ copying \in SUBSET Buffers
    /\ source \in {"nvfbc", "wgc"}
    /\ wgcPending \in BOOLEAN
    /\ wake \in [waits : BOOLEAN, replaced : Slots \cup {NoSlot}, ready : BOOLEAN]
    /\ pc \in Points

\* The frames FindBracket and ReadRecentFrames search: the N - 1 newest.  The
\* slot left over is the one the next wake writes.
Window == {i \in 0 .. (published - 1) : i > published - N}

At(i) == ring[SlotOf(i)]

Kept(i) == At(i).valid \/ At(i).awaitingCopy

\* A slot the present thread may pick holds the picture of the very frame its
\* stamp and member name: no copy still on its way, given up, or overtaken by
\* the next grab into its buffer is ever shown.  (After Stop() nobody reads.)
ShownIsCaptured ==
    ~asked => \A i \in Window :
        At(i).valid => /\ px[SlotOf(i)] = i
                       /\ At(i).batchStart + At(i).member = i

\* A frame published ahead of its picture can still get it: its picture is in
\* a buffer no grab has written since and is noted for copying (or about to
\* be), or is on its way.  The one exception is the frame that the wake in hand
\* has replaced, until the loop takes it back.
AwaitedIsRecoverable ==
    ~asked => \A i \in Window :
        At(i).awaitingCopy =>
            \/ pendingSlot = SlotOf(i) /\ buf[pendingBuf] = i
            \/ pc = "settle" /\ wake.waits /\ i = published - 1 /\ buf[GrabBuffer] = i
            \/ \E b \in Buffers :
                  /\ inFlightSlot[b] = SlotOf(i)
                  /\ IF b \in copying THEN buf[b] = i ELSE px[SlotOf(i)] = i
            \/ pc # "wait" /\ wake.replaced = SlotOf(i)

\* Plain keep-real, between wakes: exactly the last member of every batch is
\* kept.  No real frame is lost to the deferral, no generated frame survives.
KeepReal ==
    pc = "wait" /\ ~mode.phaseKeep => \A i \in Window :
        Kept(i) <=> (i = published - 1 \/ At(i + 1).member = 0)

\* Whatever the keep rule, between wakes no batch has two frames kept, so a
\* bracket cannot span a generated frame and its own real twin.
OneKeptPerBatch ==
    pc = "wait" => \A i, j \in Window :
        Kept(i) /\ Kept(j) /\ At(i).batchStart = At(j).batchStart => i = j

\* The inductive invariant behind ShownIsCaptured, in parts.

\* m_stop is only ever on after Stop() or once the loop has ended.
StopInv == stop => asked \/ pc = "done"

\* The wake being counted, or the last one counted, is its batch's newest member.
BatchInv ==
    IF pc \in {"place", "store", "open", "publish"}
    THEN batch.start + batch.member = published
    ELSE /\ published > 0 => batch.start + batch.member = published - 1
         /\ pc = "settle" => published > 0

\* Slots in the window are the frames they name; a shown one has its picture,
\* and every one has where no copy is ever put off.
WindowInv ==
    \A i \in Window :
        /\ At(i).batchStart + At(i).member = i
        /\ At(i).valid \/ ~DeferOn => px[SlotOf(i)] = i

\* The frame in hand is in the grab's buffer until it is stored or noted, and
\* in its slot once it is ready.
HandInv ==
    /\ source = "nvfbc" /\ pc \in {"place", "store"} => buf[GrabBuffer] = published
    /\ pc \in {"place", "store"} => ~wake.ready /\ wake.waits = FALSE
    /\ wake.waits /\ pc \in {"open", "publish", "settle"} =>
          /\ DeferOn /\ source = "nvfbc" /\ defer.pending /\ ~wake.ready
          /\ inFlightSlot[bufferIdx] = NoSlot
          /\ buf[bufferIdx] = IF pc = "settle" THEN published - 1 ELSE published
          /\ pc = "settle" => ~At(published - 1).valid
    /\ pc \in {"open", "publish"} =>
          /\ wake.ready => px[SlotOf(published)] = published
          /\ ~DeferOn => wake.ready

\* The frame whose copy out of buffer b may be on its way, by the loop's position.
Flying(b) ==
    CASE pc \in {"open", "publish"} -> IF b = bufferIdx THEN published ELSE published - 1
      [] pc = "settle"              -> IF b = bufferIdx THEN published - 1 ELSE published - 2
      [] OTHER                      -> IF b = bufferIdx THEN published - 2 ELSE published - 1

\* A copy on its way has the picture of that frame still in its buffer, then in
\* its slot, and the slot is off; no grab writes that buffer meanwhile.
FlightInv ==
    /\ copying \subseteq {b \in Buffers : inFlightSlot[b] # NoSlot}
    /\ pc \in {"grab", "place", "store"} => inFlightSlot[bufferIdx] = NoSlot
    /\ \A b \in Buffers : inFlightSlot[b] # NoSlot =>
          /\ DeferOn /\ source = "nvfbc"
          /\ Flying(b) >= 0
          /\ inFlightSlot[b] = SlotOf(Flying(b))
          /\ IF b \in copying THEN buf[b] = Flying(b) ELSE px[inFlightSlot[b]] = Flying(b)
          /\ IF Flying(b) = published THEN ~wake.ready ELSE ~ring[inFlightSlot[b]].valid

\* A frame left waiting is the newest one, in the buffer the next grab does not write.
PendingInv ==
    pendingSlot # NoSlot =>
        /\ DeferOn /\ source = "nvfbc" /\ defer.pending
        /\ pc \in {"wait", "grab", "place", "done"}
        /\ published > 0
        /\ pendingSlot = SlotOf(published - 1)
        /\ pendingBuf = 1 - bufferIdx
        /\ buf[pendingBuf] = published - 1
        /\ inFlightSlot[pendingBuf] = NoSlot
        /\ ~ring[pendingSlot].valid

CaptureInv == BatchInv /\ WindowInv /\ HandInv /\ FlightInv /\ PendingInv

IInv == TypeOK /\ StopInv /\ (~asked => CaptureInv)

\* Refinement: the ring implements the store of frames.
shownFrames == {i \in Window : At(i).valid}
waitingFrames == {i \in Window : At(i).awaitingCopy}

Store_ == INSTANCE FrameStore
            WITH Depth <- N - 1, count <- published,
                 shown <- shownFrames, waiting <- waitingFrames

ImplementsFrameStore == Store_!Spec

-----------------------------------------------------------------------------
\* The capture thread runs, the GPU finishes what it is given, and grabs
\* neither fail nor bring frames for ever without ever timing out or bringing
\* one (the grab's wait is bounded).
Fairness ==
    /\ WF_vars(BeginGrab) /\ WF_vars(Place) /\ WF_vars(Store) /\ WF_vars(OpenBatch)
    /\ WF_vars(Publish) /\ WF_vars(Settle) /\ WF_vars(LoopExit)
    /\ WF_vars(GpuDone)
    /\ SF_vars(GrabFrame \/ GrabTimeout)

FairSpec == Spec /\ Fairness

\* A frame published ahead of its picture is shown or taken back in the end,
\* also when no other frame follows it, unless capture stops.
AwaitedSettles ==
    \A i \in 0 .. (MaxFrames - 1) :
        (i \in Window /\ At(i).awaitingCopy) ~> (i \notin Window \/ ~At(i).awaitingCopy \/ stop)
===============================================================================
