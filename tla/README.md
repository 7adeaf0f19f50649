# NvFBC Relay: verification project

TLA+ models of NvFBC Relay, the TLC runs that check them and the proofs of
their main results. Paths are relative to the repository root as it is mounted
at `src/`; most of what follows is about `src/relay/` and `src/core/` there.

## 1. The system

The relay captures one display and presents it on another. Two threads matter.
The **capture thread** grabs frames and enters them in a ring of shared
surfaces. The **present thread** runs once per output frame: it picks the two
ring frames around a target time in the recent past and draws one of them, or a
blend. A driver-level frame generator makes the captured frames come in pairs,
a generated frame and its real twin a fraction of a millisecond later; most of
the program's rules serve to show the real ones at an even pace.

### 1.1 Inventory

| Component | State it keeps | Operations | What makes it correct |
|---|---|---|---|
| `CaptureRing`, capture loop | slots (stamp, batch start, member, `valid`, `awaitingCopy`, `copyInFlight`), `m_published`, `m_stop`, batch state, previous keeper | one wake: wait, fold into batch, place, store, open batch, publish, settle; move to WGC; stop | a slot that may be picked holds the frame it names; one frame per batch; real frames are not lost |
| `NvfbcCaptureSource` | two grab buffers taken in turn, the frame left waiting, the copies on their way, event queries | `Wait`, `Place`, `Store`, `Published`, `Finish`, `Confirm`, `CopyAndWait` | no buffer is overwritten while its picture is still needed; a frame put off is copied in the end |
| Ring readers | one load of `m_published`, the walk's best frames | `FindBracket`, `ReadRecentFrames` | the picks stay good to draw; nothing nearer was overlooked |
| Capture-side policy | `BatchState`, `DeferState` | `UpdateBatch`, `DecideDefer`, `DeferOnTimeout`, `DecideKeep` | see the loop |
| Batch history and dejitter | 64 batch starts, `AnchorChain`, `StampOverlay`, newest target consumed | walk, measure, insert, lapped skip | a correction never crosses the target; it is what the batch came late by; the chain recovers |
| Rotation vote | votes per grid residue, grid position, batch period, members per batch | reset, advance, observe, real member | what is steered to is the real frame; nothing is steered where nothing rotates |
| Selection and composition | gate state, last shown instant, comb state | `SelectFrame`, `DecideComposite` | the picture keeps up with the target; jitter does not make it go back and forth; blends cover missing frames only |
| Phase lock and lookahead | pull, ease, stall run, recover run, guard exemption, planned step | `UpdateStallRun`, `UpdatePhaseLock`, `ApplyLookahead`, `UpdateLookahead` | pull stays in its band; a resume lands on the source; the target ends on the frames |
| `TemporalCaptureMode` | lock, overlay, telemetry | set-up, the present loop and its exits | a lost capture or a stalled output ends the run |
| `D3D11PresentBackend`, `CopyEngineTarget`, D3D9 path | last slots drawn, wait timeouts, fences, two buffers | wait, compose, mark, present | a present shows its own frame and marker; a buffer is not written while shown |
| `WgcCaptureSource` | pool of N + 2 buffers, frame by slot | open, wait, store, close | no frame is given back while its slot names it; Windows never runs out of buffers |
| `EtwFlipConsumer` | session, two threads, history | start, stop, callback | nothing runs after stop |
| Launch options, prompts | the choice of displays, mode and options | parse, resolve, format | a relaunch is the same launch |
| Shell (`Main`, `NvFBCSession`, windows) | single-instance lock, startup session, the wish to relaunch | choose, set up, run, tear down, relaunch | one relay at a time; nothing is left behind |
| Displays, logging, marker, GPU stages, tools | | | user interface, pixels |

**Interactions.** The capture thread owns every slot field; the present thread
only reads them, without a lock, behind an atomic count. The present thread
starts and stops the capture thread and offers it a device for WGC. ETW
callbacks fill the flip history under a mutex that both threads take. The GPU
finishes copies in its own time, seen through event queries and fences.

**Hard parts.** Flags of one slot written by the capture thread between two
loads of the present thread; copies landing after their frame was taken back;
grabs into a buffer whose picture is still needed; a pause right after a frame
was put off; the move from NvFBC to WGC with work outstanding; a walk that
lasts longer than the ring; flips that come late or not at all; one buffer
written by two devices; set-ups that fail half-way; long sequences of presents
in the lock and composition state machines. Every one is listed with its line
under `hazards` in `PROJECT.json`, with the properties that cover it.

### 1.2 Plan

In order of importance.

1. *(done)* `KeepPolicy`, `CaptureRing`, `FrameStore`, `RingReader` with their
   MC modules and proofs.
2. *(done)* `Composite` (`SelectFrame`, `DecideComposite`), `PresentPath` (the
   three present paths and their holds against a ring that moves on, with
   proofs) and `Parked` (both policies against a steady source for ever).
3. *(done)* `PhaseLock` (stall run, lock with wrap and ease, lookahead, guard
   exemption) and `PhaseLoop`, its loop over a ring and a source that hitches.
4. *(done)* `FlipAnchor` and `Dejitter` (batch history, walk, fence, overlay),
   `RotationVote` and `PhaseKeep` (the vote and what the capture loop feeds
   it), put side by side in `FlipUsers`.
5. *(done)* `CopyEngine` and `Output` (a turn of the present thread beside two
   queues and the display), `LaunchOptions`, `WgcSource` and `Session` (a launch
   from command line to end, with the move to WGC and the relaunch).
6. *(done)* Proofs about the capture loop, its reader and its refinement, the
   present path, the settling of `Parked`, the lock's band and its smooth moves,
   the fence and the end of a chain's fictions, the output and the launch
   (section 4).
7. Proofs still wanted: `OneWrapAtATime` from a bound on how soon planned moves
   follow one another, and `MoveStays` and `SnapLands` for combs, lags and clocks
   in stated proportions with hitches far enough apart.

## 2. The modules

| Module | Models |
|---|---|
| `KeepPolicy` | the capture-side decisions of `TemporalPolicy.cpp`, as operators |
| `CaptureRing` | `CaptureLoop` with `NvfbcCaptureSource` and the GPU; properties and the inductive invariant |
| `FrameStore` | what the ring promises its reader, without slots, buffers and copies |
| `RingReader` | `FindBracket` and `ReadRecentFrames`, one field at a time, against `CaptureRing` |
| `Composite` | `SelectFrame`, `DecideComposite`, the tooth guard and the thresholds, as operators |
| `PresentPath` | present after present: bracket, decision, and what each present path draws and remembers |
| `Parked` | both policies against a steady source whose phase does not move |
| `PhaseLock` | the comb lock and its lookahead, as operators |
| `PhaseLoop` | the lock in its loop: source, ring, target, present |
| `FlipAnchor` | the flip grid, the chain of batches on it and the lateness read off it, as operators |
| `Dejitter` | batch history, flips on their way, the walk, the overlay of corrections |
| `RotationVote` | `RotationReset`, `Advance`, `Observe`, `PositionAt`, `RealMember`, as operators |
| `PhaseKeep` | what `CaptureLoop` measures at every batch and feeds the vote |
| `FlipUsers` | `Dejitter` and `PhaseKeep` side by side |
| `CopyEngine` | `CopyEngineTarget`: two buffers, copy queue, draw device, presentation manager |
| `Output` | a turn of the present thread over `CopyEngine`: wait, compose, marker, present |
| `LaunchOptions` | options, modes, command lines, prompts and the relaunch's arguments, as operators on tokens |
| `WgcSource` | `WgcCaptureSource` and the pool Windows paints |
| `Session` | main thread, capture thread, flip timing, display, user and another relay, from launch to exit |
| `MCCaptureRing`, `MCRingReader`, `MCPresentPath`, `MCParked`, `MCPhaseLoop`, `MCPhaseKeep`, `MCFlips`, `MCSession` | instances for TLC |
| `CaptureRingProofs`, `RingReaderProofs`, `PresentPathProofs`, `ParkedProofs`, `PhaseLoopProofs`, `DejitterProofs`, `OutputProofs`, `SessionProofs` | the theorems |

### 2.1 CaptureRing

A frame is named by its capture number (`count` in the code) and a picture by
the frame it shows. `px[s]` is the picture in slot s's texture, `buf[b]` the one
in NvFBC buffer b, `Torn` anything half written or undefined. `copying` are the
buffers whose copy has been handed to the GPU and is not done; `inFlightSlot`
is the source's own record of them, which lags behind.

One pass of the loop is these actions; the GPU (`GpuDone`) and `Stop`
(`AskStop`) come in between any two.

| Action | Code |
|---|---|
| `OpenWgc` | the loop's head with `-wgc`: open, `Finish`, change source |
| `BeginGrab` | `Wait` up to the grab: confirm copies, wait for the buffer about to be written |
| `GrabFrame`, `GrabTimeout`, `GrabFailed`, `GrabLost` | the grab's four results; `GrabFrame` also folds the wake into the batch |
| `Place` | `DecideDefer`; copy the waiting frame, or give it up |
| `Store` | copy and wait, or hand the copy over (done at once or later), or name the WGC texture |
| `OpenBatch` | the rotation's keeper and spacing, reclaim of the last batch's single |
| `Publish` | `DecideKeep`, the slot's fields, the count |
| `Settle` | after the count: replaced frame, `Published`, retract, next buffer |
| `LoopExit` | the loop ends on `m_stop` |

`OpenWgc` and `BeginGrab` take the check of `m_stop` and the wait that follows
as one step; a stop in between changes only what nobody reads any more.

**Inputs.** Wakes arrive at instants equal to their numbers. Whether two are
closer than the batch window, and whether a gap exceeds the deferral's limit,
are free choices; so are the rotation's keeper and spacing, whatever
`PhaseKeep` makes of them. The average of members per batch is the code's own fixed-point
arithmetic. Of the log counters, the source-period estimate, the batch history
and the content-phase instrument nothing is kept but that `-fgphase` turns the
deferral off.

**External behaviour.** The GPU executes in order and finishes what it is given
(the code treats a query that fails as done; the model has no failing query
after creation). A grab leaves its buffer undefined from its start to its end.
The WGC source appears only as the ring sees it: `Store` names the picture.

### 2.2 FrameStore and the refinement

`FrameStore` holds the newest `Depth` frames, each *shown*, *waiting* or
neither. A frame is entered once under the next number; a waiting frame may
arrive; a frame is taken back only in favour of the one entered right after it,
and brought back only as the newest. `CaptureRing` implements it
(`ImplementsFrameStore`) with `Depth = N - 1`, since the slot the next wake
writes is never searched: shown are the frames in the window whose slot is
`valid`, waiting those whose slot is `awaitingCopy`. So all the machinery of
buffers, queries and half-finished copies is invisible to the reader, stop and
source changes included.

### 2.3 RingReader

`look` is the walk in hand: which of the two functions, `m_published` as loaded,
the frame it stands at, the target, and the field read next. Each read is a
step, and `Capture` lets the capture thread or the GPU move in between. The
history variable `steady` holds the frames that have counted at every moment
since the walk began. The dejitter's overlay and the cap of 16 on frames ahead
(more than a ring of the model's size holds) are left out. The fields of a slot
are written in one step: only a reader whole rings behind could tell, and
nothing is claimed for it.

### 2.4 Composite and PresentPath

`Composite` holds the present side's decisions as functions of the bracket, the
memory and the settings. The weight of a blend is left out; `INT64_MIN`, before
anything was shown, is `Never`.

`PresentPath` runs them. `cfg` is the run's setting: which of the three present
paths (`d3d11`; `synth9`, the D3D9 compositors that blend; `nearest`), the band,
the threshold, the tooth guard's period, and whether draws may fail.

| Action | Code |
|---|---|
| `CaptureFrame` | a wake that opens a batch: the slot written next is stamped, kept or not, and counted |
| `CaptureTwin` | a wake in the batch just opened: it takes the frame before it back |
| `Present` | target, `FindBracket`, decision, drawing, and what is remembered of it |

The target moves by a present period, less what the lock takes off or adds:
`Steps` holds these moves, one of them backwards. The exemption from the tooth
guard, which `PhaseLock` computes, is free where the guard is armed. `last` is what a hold draws: slot
numbers (`m_lastSlotA`/`B`, or the surface of a slot under D3D9), or the
snapshot a D3D9 blend leaves in `m_holdSurface`. A failing D3D11 draw leaves
`last` alone although the policy has moved on; a failing D3D9 blend shows the
nearer real frame. A frame is published and found in one step here, since
sections 2.1 to 2.3 cover what lies between.

### 2.5 Parked

The policies' bands are for a target that stays where it is: a source in step
with the present clock, unlocked, parks it at some phase, and its stamps jitter
about that phase for ever. `Parked` has frames on a grid of period S, stamped
late by up to a few units, a present clock of any period, and everything
measured from the target, so that the state space is finite and the properties
hold for runs of any length. A regime may have missing frames, never two in a
row. `settled` remembers for each phase what was shown there last and counts how
often that changed.

`ParkedAssumption` states the proportions the code lives in: a period of many
ticks of the clock, a band of a millisecond that is at most a quarter of it,
stamps late by at most 3/16 of it, which is inside the threshold of a quarter,
presents at least half as often as the source, and missing frames where the
lock holds the target on the grid. A period of 32 is the least for which the
threshold, the 7/8 and the sixteenths, all integer divisions, keep their order.

### 2.6 PhaseLock and PhaseLoop

`PhaseLock` has one operator per function of the policy, with C++'s division.
`PhaseLoop` closes the loop that makes it interesting: the lock moves the
target, the target decides the bracket, and the bracket is all the lock sees.
Time is relative to the present: a frame has an age. `SourceDraws` enters a
frame and sets when the next one comes, a comb later or after one of `Hitches`;
`Present` is `TemporalCaptureMode`'s turn in the code's order: `ApplyLookahead`,
target, bracket, stall run, `UpdatePhaseLock`, exemption, `UpdateLookahead`.
`moved` remembers whether the lookahead moved the pull since the last hitch.
Counters that only have to reach a threshold stop there.

### 2.7 FlipAnchor, Dejitter, RotationVote, PhaseKeep

Two parts use the flips the driver reports. The **dejitter walk** is on the
present thread: `Dejitter` has the history of batch starts as the capture thread
leaves it, the flips known so far, and the walk of `Present` over the batches it
has not seen, with the retry of a batch whose flip is still on its way, the
skip of a lapped walk, and the fence. `FlipsArrive` is the event session's flush
with the callback; flips stop coming in an outage (`OutageBegins`, `OutageEnds`)
and one may be lost. Times are relative to the flip of the newest batch, so
the state space is finite without a bound on time.

The **rotation vote** is on the capture thread: `PhaseKeep` opens a batch a step
and models everything `CaptureLoop` and `Grid` do with it: the average of
members, the batch period with its clamp, the grid, the reset, the batch two
back placed and fed, the keeper of the new one. `place` is where in the source
period the batch truly is, which the code cannot see.

Both read one history of flips and share no state of their own, so `FlipUsers`
lets a behaviour follow the one or the other; TLC checks both in one run.

### 2.8 CopyEngine and Output

A present is named by its number modulo 4. `copies` and `draws` are what the two
queues have still to do, `queue` the presents handed to the presentation
manager, each with the number of works of either queue it waits for, which is
what the fences say; `content` is what the buffers hold. `CopyDone`, `DrawDone`
and `Show` come at any time. `Output` is the present thread's turn:

| Action | Code |
|---|---|
| `BufferBack`, `WaitTimesOut` | `WaitForFrame` on the buffer's event |
| `ComposeCopy`, `ComposeDraw`, `ComposeNothing` | `Compose`: one frame as it is, any other, none |
| `BurnMarker`, `MarkerNotDrawn` | `BurnMarker`, its draw failing, and the end of `-mark N` |
| `PresentFrame`, `PresentUnready`, `PresentNotCopied` | `Present` with its three ways through `PresentCopy` |

### 2.9 LaunchOptions, WgcSource, Session

`LaunchOptions` reads a command line as a sequence of tokens: each option is a
row of fields it sets, and what gives way to what is `ResolveDependencies`,
`ResolveDeferCopy` and `FitToMode`. A numeral is one of a small set, spelt as
Windows would. `WgcSource` has the textures of the pool, each free, painted and
waiting, in hand, or named by a slot.

`Session` is the whole process. `step` is where the main thread is:
`start`, `choose`, `resolve`, `status`, then `solo` or `etw`, `ring`, `present`
and the turns `wait`, `compose`, `check`, then `join`, `teardown`, `etwWait`,
`dispose`, `end` and `relaunch` or `exit`. Each step has an action for its
success and one for its failure, with the return the code makes. Beside it run
the capture thread (`TryWgc`, `GoOnOpening`, `TakeOver`, `TakeFrame`,
`StoreFrame`, `CaptureLost`, `ThreadEnds`), the flip timing's callback, and what
comes from outside: the window closed, NvFBC's session invalidated, a display
that freezes or whose presentation manager is lost, another relay. A relaunch
is `LetGo` and `Relaunched`, after which the same process is the new one. In a
`calm` behaviour nothing fails and Windows paints for ever; in any other a few
frames are painted (`FewFrames`).

## 3. Runs

| Run | Bounds | Question |
|---|---|---|
| `ring` | N = 3, 5 wakes, batches up to 3, 8 launch modes | is what may be shown there, is the right frame of a batch kept, is the store of frames implemented, and does a frame published ahead of its picture get it |
| `reader` | N = 3, 4 wakes, batches up to 2, 3 modes | is the bracket intact and nearest |
| `recent` | as `reader` | *(violated)* does the lookahead list every frame that counts |
| `present` | N = 4, stamps up to 76 (unit 1 ms), source period 16, target moves -4, 8 and 16, 4 settings | does the picture keep up with the target |
| `parked` | S = 32 (unit 1/2 ms), band 2, jitter up to 2, all phases, present periods 8, 16, 32 and 64; locked with missing frames; locked at three halves | do the decisions settle, and are the right frames blended |
| `tooth` | N = 4, first frame off the present's grid | *(violated)* is a blend a full tooth on from the last target |
| `lock` | comb 4800, slew 20, lag 5 1/4 combs; presents at the source's rate, near it and at twice it; one hitch of four kinds at any moment | does the target find the frames and stay on them |
| `flips` | step 8, two flips a batch; two faults; four regimes of generator for the vote | are corrections and keepers true, and do both users recover |
| `truncated` | x3, a stall of 26 flips | *(violated)* is what is steered to the real frame |
| `latch` | x3, a stall of 9 flips first | *(violated)* does the batch period follow the batches |
| `output` | two buffers, 4 numbers, 3 presents queued, one fault | does every present show its own frame and marker |
| `session` | 3 slots, 2 displays, 156 command lines, 2 waits to a stall | does every launch end clean, relaunch alike and keep the picture going |

Properties, each with a mutant of the code that breaks it:

- `ShownIsCaptured`: a slot that may be picked holds the picture of the frame
  its fields name. Broken, among others, when the deferral stays on under
  `-phasekeep`: reclaim then turns on a slot that was never copied. The code
  avoids that by one conjunct in `TemporalCaptureMode`'s constructor.
- `AwaitedIsRecoverable`: a frame published ahead of its picture can still get
  it. Broken when the two buffers are not taken in turn.
- `KeepReal`, `OneKeptPerBatch`: between wakes exactly the last member of each
  batch is kept (plain keep-real), and never two of one batch (any rule).
  Broken when a finished copy turns on a slot that was taken back, or when
  only the first retract of a batch happens. `KeepReal` is not stated under
  `-phasekeep`, where the vote may drop a batch on purpose.
- `ImplementsFrameStore`: section 2.2.
- `AwaitedSettles`: every waiting frame is shown, taken back or aged out in the
  end. Broken when a copy on its way is never looked at again.
- `BracketIntact`: a side of the bracket is the frame it names, at the least
  until the next frame is counted, and on until the ring comes round to its
  slot. Broken when the walk takes in one slot more.
- `NearestBracket`: no frame shown all along is nearer than the side picked,
  and of equal stamps the newer wins (a real frame hides its generated twin).
- `Fresh`: with a frame on each side of the target, the instant a blend mode
  shows, held or not, trails the target by at most 7/8 of a source period and
  the passthrough gate. So the tooth guard, the guard against going back and the
  memory left by failed draws together never hold for ever. Broken when the
  guard's cut is at twice its place.
- `NearTarget`: the nearest mode shows no frame the target has left while the
  next one is nearer by more than the band. Broken when the advance gate's
  comparison is the wrong way round.
- `NearestSettles`, `BlendSettles`: at a parked phase, with jitter as wide as
  the band, the nearest mode changes once per phase at most and a blend mode
  once at all (present clock at the source's rate or half of it). Broken when a band has one edge only.
- `NoParityBlend`: at twice and four times the source's rate nothing is blended
  after a real frame was passed, while none is missing. Broken when the cut is
  at half its place. At rates in between (a present period of 3/4 S, say) it
  does not hold: the comments derive the cut for twice and four times only.
- `HoleCovered`: a missing frame is blended over, also right after a frame
  stamped late. Broken when the guard measures from the instant shown instead of
  the target, which is the mistake its comment tells of.
- `EvenOutput`: a source at twice the present rate passes through free; at three
  halves, locked, passing and blending alternate strictly. Broken when the
  threshold is a quarter of the present period for every faster source, as
  `PassthroughThreshold`'s comment says it once was.
- `PathInv`, `ParkedInv`: types, and how far the memory may be from the target.
- `TypeOK`: types. (`ReaderTypeOK`, that the walk stays inside the window it
  loaded, is proved and not run.)
- `LockInv`: the pull stays in its band around one comb whatever snaps, slews,
  wraps and planned moves made it; while a stall holds the lock's next step up it
  may be half a comb outside, where a planned move has left it. Broken when only
  one edge wraps.
- `SmoothTarget`: the lock moves the target by a slew and a step of easing at
  most, but on a resume, a planned move or a wrap between frames. Broken when
  the easing adds the wrap instead of taking it back.
- `OneWrapAtATime`: no wrap comes while the easing of one the same way is not over,
  whose step the easing, clamped at a comb, could not take back. Broken when the
  easing takes a wrap back and never decays.
- `SnapLands`: after a resume the very next target is on the source's frames,
  and the tooth guard stands aside for it. Broken when a resume only slews.
- `MoveStays`: a move planned ahead is not pulled back by the lock's own, older
  estimate. Broken when it is applied like a late one.
- `Converges`: near the source's rate the target ends on the frames for good.
  Broken when the lock engages on a deviation above its threshold.
- `FictionEnds`: of three batches in a row that came after the start at least one
  is corrected by what it came late by, or not at all. Broken when a chain accepts any run of late
  readings.
- `FenceHolds`: no correction moves a frame across a target already consumed,
  from either side. Broken when it is taken without the fence.
- `ChainHeals`: after late batches, gaps, losses and outages the walk catches up
  and its chain is trusted again. Broken when a flip that is not there yet is
  taken for one that never was.
- `SteersTrue`: the member kept is the real frame, or none is, after stalls,
  dropped, odd and unplaceable batches. Broken when a position the stride cannot
  come to is believed.
- `NoFalseSteering`: a stream that does not rotate is never steered. Broken when
  pairs are not asked for: a desktop then looks like x4.
- `VoteRecovers`: in the end the vote steers, and to the real frame. Broken when
  no sample is taken once there are enough.
- `ShownOwn`, `MarkOwn`: a few presents after the last fault, what the display
  holds is the frame, and the marker, of the present that put it there. Broken
  when a drawn buffer is shown without its fence, or the marker of a drawn
  frame is left to the copy list.
- `ReadsDone`: when a buffer is back, all but the last present's work is done:
  the ring frames read for it may be written over. Broken when a buffer counts
  as back while it is queued.
- `SourceStays`: a texture the present reads is not given back to Windows before
  its slot is given another frame. Broken when `Store` gives all frames back.
- `PoolHasRoom`: Windows has a buffer to paint or has painted one. Broken when a
  frame left out is kept.
- `OneCapture`: a thread that captures holds what it captures from, one session
  at a time, under the lock. Broken when NvFBC is let go before WGC is open.
- `LeavesNothing`: nothing captures at teardown; at the exit and before a
  relaunch no session, trace or callback is left. Broken when a refused present
  path does not stop the ring.
- `RelaunchSame`: the process a launch has relaunched carries the mark of one, is
  not relaunched again, and comes to the displays, the mode and every option of
  the launch it repeats. Broken when a late-batch correction that was typed
  is written like the default.
- `DejitterBacked`: late-batch correction runs only with flip timing, join and
  lock. Broken when a trace that fails to start is not heeded.
- `FaultEnds`: a closed window, a lost capture or a display that takes no frames
  ends the process. Broken when each timed-out wait counts anew.

**Bounds.** The ring has 16 to 32 slots; three are the fewest that give a slot
being written, one being looked at and one in front, and five wakes go round
and come back to slots that were taken back. The average of members passes the deferral's threshold (1.6 per batch) at
the first closed pair and falls back under it with single batches, so both
regimes and the change between them occur. Two buffers bound the copies
outstanding. Batches of three cover a generator with two frames per real one.

On the present side N = 4 leaves three frames to search, so a target can have
frames on both sides, fall off the old end, or wait for a frame, and 76 units
are four source periods after the first target. `Fresh` and `NearTarget` are
proved without these bounds. `parked` is exhaustive in time; S = 32 is the
smallest period in which the threshold (8), the band (2) and the jitter keep the
proportions they have at 60 frames a second and a 1 ms band. All of its
properties are proved for every period, band, set of phases and jitter under
`ParkedAssumption`.

`lock`: a comb of 4800 ticks keeps the lock's sixteenths from being rounded
away. The ring holds eleven frames for a lag of five combs. Hitches are a quarter and half a comb, and freezes of four and eight frames, one
to a run. That is enough for each transition, and `SnapLands` and `MoveStays` are
about the time until a next hitch: with two TLC finds both violated, by a second
hitch whose frames are in the bracket when the first is resumed from. `LockInv` is
proved for any number, and `SmoothTarget` as long as `OneWrapAtATime` holds.

`flips`: sizes are scaled with their relations kept: the history has 5 entries
(64), the skip leaves 2 (8), the overlay 3 (16) for a ring of 3 batches, a chain
warms up in 3 predictions (8), the vote asks 3 samples of 6 (24 of 256). Because
3 scaled samples stand for 24, a batch off the beat or odd is allowed once and
last: a single one would outvote what takes eight in the program. An outage is
the last of the faults. `FenceHolds` is proved without these bounds. The vote's first place is one of each class the lattice
does not connect.

`output`: more than two buffers are never in play; numbers modulo 4 and three
queued presents tell all of them apart. Four presents after a fault its effects
are gone (`Settled`); with three they are not. The three properties are proved
for every `Settled` from 4 on and any queue of two presents or more.

`session`: the display is counted out after 2 timed-out waits (20 in the
program), which differ only in how often a recovery may come between. The
command lines are every option alone, the pairs and triples of options that bear
on one another, each with and without WGC, every mode, and wrong ones. Three
slots with five textures let a frame be taken, left out, named and read at once.
Windows paints the lowest free buffer, since they are alike.

`CHECK_DEADLOCK FALSE` stands where the system or its bound may stop: stamps
and targets at their bound in `present` and `tooth`; in `output` a wait that
would run out once more than the bound on faults lets it; in `session` the
process that has ended.

**Fairness.** `ring`: the capture thread is scheduled (weak fairness of its
steps) and the GPU finishes copies. Grabs: strong fairness of "a frame or a
timeout", since each wait is bounded by `dwWaitTime` and the loop tries again.
That excludes only grabs that fail for ever; in that case the code does leave
a waiting frame uncopied (a hazard in the list).

`lock`: steps go on for ever, which is all that is needed, as the present is
only kept back by a frame that is due. `flips`: presents go on and outages end;
`ChainHeals` asks in addition that time and again a present finds the newest
batch's flip known. These are written `[]<><<A>>_v`, a step of A time and again,
since A is always possible where it matters. `session`: each wait of the main
thread is bounded (frames by a quarter of a second, the consumer by three
seconds, the capture thread by its own exit), so its run is weakly fair, and so
are the openings and the end of the capture thread and the second half of a
store. Nothing is asked of Windows, the user, the flip timing or the steps of a
launch, where the prompts may wait for ever.

**Findings.**

`recent`: `ReadRecentFrames` tests `valid` and then
`awaitingCopy`. When `Confirm` turns the slot on between the two loads, both
read FALSE and the frame is skipped, though the comment above the test says a
frame still waiting counts. The effect is one lookahead update with a frame
missing from the middle of its list. TLC's trace: the frame is published
waiting, the reader loads `valid`, the GPU finishes and the loop confirms, the
reader loads `awaitingCopy` and moves on.

`tooth`: the target remembered by a decision is `beforeTs + beforeDiff`. With an
after-frame alone both are zero, so the tooth guard takes the next present for
one that is far ahead and lets it blend. In the trace the first frame is passed
at 36, two units before its stamp, and the present 8 later blends it with
the next one, though a source period is 16.

`truncated`: `CountFlipsBetween` lists at most 24 records, and its comment says
the caller treats more as unusable; `RotationAdvance` refuses only more than 24,
so a list cut off at 24 is taken for an advance of exactly 24. After a stall of
26 flips the position is off and the vote steers to a generated frame.

`latch`: the clamp that keeps stall gaps out of the batch period compares with
the period so far, and the first gap is taken unchecked up to an eighth of a
second. When it is a stall's, more than twice the true one, no true gap is ever
folded in.

**Observations**, met while modelling, with no run of their own:

- Holds follow one another while the target has fallen off a ring shorter than
  the lag; the slots drawn again can have been written anew by then, although
  `D3D11Present.h:212` calls them live. The ring is sized to three times the
  lag, up to 32 slots, which makes this rare.
- At half the output rate (30 frames a second on 60 Hz) the nearest mode's
  advance gate is asked between two frames too, and opens; at a phase within
  jitter of the band the picture then goes back and forth, although
  `TemporalPolicy.cpp:1051` says the gate is inert outside a crossing.
  `NearestSettles` is stated for presents at the source's rate and half of it.
- A late move of the lookahead can be pulled back by up to a slew a present
  while the estimate settles under slow drift (`TemporalPolicy.cpp:915`).
- A batch that meets the walk without a valid chain and before its flip is known
  is given up, not retried (`TemporalCaptureMode.cpp:484`); hence the condition
  of `ChainHeals`. A chain that slips a flip after its warm-up makes up to two
  wrong corrections before it is dropped (`FictionEnds`).
- A copy list that cannot be reset on the last present of `-mark N` leaves its
  marker pending, and a later copy carries it. `MarkOwn` says nothing of
  unmarked presents.
- A presentation manager that refuses every present gives one buffer back for
  each wait that runs out, so the count of consecutive timeouts never reaches
  its limit (`D3D11Present.cpp:752-799`). `Session` has displays that stop.
- `-lag abc` reads as 0, and `-lag -wgc` eats the flag.
- Between the lock let go for a relaunch and a `CreateProcess` that fails, a
  third relay may take the lock, and the failure is written to a log that is
  its now (`NvFBCSession.cpp:53`).
- A capture through WGC never reports a loss: a source display that goes away
  leaves the last picture standing. `FaultEnds` has losses of NvFBC only.
- The consumer is waited for three seconds; a callback that takes longer goes
  on in an object that is gone (`gaveUp` in `LeavesNothing`).

## 4. Proofs

Each theorem is for every value of the constants that the assumptions named in
the modules allow, which the code's own values satisfy: the ring for every N >= 3,
every set of launch modes and any number of wakes; the present path for every N >= 2
and every set of settings, gaps and target moves; the steady source for every
period, band, clock, phase and jitter in the proportions of section 2.5; the lock for every comb of at
least 32 ticks and any number of hitches; the walk for every history, overlay and
lateness; the output for any number of faults; the launch for every set of command
lines and any number of slots.

| Module | Inductive invariant | Properties proved of the specification |
|---|---|---|
| `CaptureRingProofs` | `IInv` (`CaptureInvariant`) | `TypeOK` (`TypeCorrect`), `ShownIsCaptured` (`ShownPicture`) |
| `CaptureRingProofs` | `KeepInv` (`KeepInvariant`) | `KeepReal` (`RealKept`), `OneKeptPerBatch` (`OneKept`), `AwaitedIsRecoverable` (`AwaitedRecoverable`), `ImplementsFrameStore` (`RingImplementsStore`) |
| `RingReaderProofs` | `RInv` (`ReaderInvariant`) | `BracketIntact` (`BracketStaysIntact`), `ReaderTypeOK` (`ReaderTypeCorrect`), `NearestBracket` (`BracketIsNearest`) |
| `PresentPathProofs` | `PathInv` (`PathInvariant`) | `Fresh` (`NeverBehind`), `NearTarget` (`KeepsNear`) |
| `ParkedProofs` | `SteadyInv` (`SteadyInvariant`) | `ParkedInv` (`KeepsUp`), `NearestSettles` (`NearestStays`), `BlendSettles` (`BlendStays`), `HoleCovered` (`HolesCovered`), `EvenOutput` (`StepsAreEven`), `NoParityBlend` (`NothingMade`) |
| `PhaseLoopProofs` | `LoopInv` (`LoopInvariant`) | `LockInv` (`LockInBand`), `SmoothTarget` given `OneWrapAtATime` (`SmoothMoves`) |
| `DejitterProofs` | `FenceInv` (`FenceInvariant`) | `FenceHolds` (`FenceStands`), `FictionEnds` (`FictionStops`) |
| `OutputProofs` | `OutputInv` (`OutputInvariant`) | `ShownOwn` (`OwnPictureShown`), `MarkOwn` (`OwnMarkShown`), `ReadsDone` (`NothingUndone`) |
| `SessionProofs` | `SessionInv` (`SessionInvariant`) | `SourceStays` (`ReadStays`), `PoolHasRoom` (`PoolNeverDry`), `OneCapture` (`CaptureIsOne`), `LeavesNothing` (`NothingLeft`), `DejitterBacked` (`DejitterStands`) |

**Pictures in the ring.** `ShownIsCaptured` is not inductive: that a slot is on says nothing about copies
that may still land in it. `IInv` adds where every picture is, by the loop's
position:

- `BatchInv`: the wake in hand is its batch's newest member, so the fields
  written by `Publish` name the frame;
- `WindowInv`: slots in the window name their frames; shown ones have their
  pictures, and where no copy is ever put off all of them have;
- `HandInv`: the frame in hand is in the grab's buffer until it is stored, and
  in its slot once ready;
- `FlightInv`: the copy out of buffer b, if any, is that of frame `Flying(b)`,
  one or two frames back depending on the buffer's turn; its picture is in the
  buffer until the GPU is done and in the slot after, and the slot is off;
- `PendingInv`: a frame left waiting is the newest one, in the buffer the next
  grab does not write.

The parts need each other: `FlightInv` survives `BeginGrab` because the wait
there empties exactly the buffer about to be written, `WindowInv` survives
`GpuDone` because distinct frames in the window and in flight have distinct
slots (`SlotDistinct`, `WindowApart`, `FlightApart`; the arithmetic of `% N` is
`DivMod` and what follows it). The proof has one lemma per action. After
`Stop()` the invariant is given up (`~asked`): `Confirm` and `CopyAndWait` then
leave their waits early, and nobody reads.

**What is kept.** `KeepInv` is settled by the loop alone, so it holds after
`Stop()` too. `NameInv` says that slots in the window are the frames they name
and that the newest is the member the keep rule saw last; `OpenInv` and `PairInv`
that in the open batch, and in any closed one, at most one frame is on or
waiting; `RealInv` that under plain keep-real it is the last; `WakeInv` and
`WaitingInv` say what the wake in hand still has to publish, take back or bring
back. A finished copy turns its slot on only if the slot waits, which is why
`Confirm` disturbs none of it. `AwaitedInv`, on top of `IInv` and `KeepInv`,
says where the picture of a waiting frame is to come from: it is the frame pending
or just published, the one the wake in hand replaces, or the source has its copy on
record.

**The refinement.** `RingImplementsStore` maps the initial state to
`FrameStore`'s, and each action to one of its steps or to a stutter: `Publish`
enters a frame, `Settle` takes back the one before, `OpenBatch` brings back the
newest, and where the source looks at its copies (`OpenWgc`, `BeginGrab`,
`Place`, `Store`) waiting frames arrive or nothing changes for the reader. `KeepInv`
says which frame it is that `Settle` and `OpenBatch` touch.

**The reader.** `RInv` adds for the reader that what the walk stands at, and what it has
picked, was counted when the walk began and holds its own picture for as long
as the ring has not come round to it (`WalkInv`). For `NearestBracket` two more
invariants stand on it: frames that counted throughout are in the window still
(`SteadyInv`), and those the walk has passed are covered by a side of the bracket
at least as near (`NearInv`). Both need that a stamp does not change while its
frame counts (`StampStays`), and so that keep-real restamps only what it had left
out.

**The present path.** `Fresh` needs to know of the memory it starts from: a comb hold leaves it alone,
so the instant shown stays where it was while the target has moved by less than
7/8 of a period since *the last target*. `CompOK`, the part of `PathInv` that is
not types, closes the gap: the last target is ahead of the instant shown by less
than the passthrough gate. The other hold, against going back, cannot leave the
picture behind, since the instant shown is then later than one within the gate. A target
recorded as zero (finding `tooth`) makes the guard too weak, never too strong,
which is why the theorem stands next to that finding. `ShownInvariant` carries
both to the state after each present; capture steps disturb none of it.

**The steady source.** With no frame missing (`Whole`) a bracket is two stamps,
`Bef` and `Aft`, one period apart but for the jitter. `SteadyInv` says of the
memory what the next decision needs: the nearest mode is within its bracket
(`NearBracket`); the blend modes' last target is less than 7/8 of a period back,
a blend was shown at it with nothing near, and a frame passed is within the wide
gate of it, and is found before the next target, or still after it (`Composed`).
So of the four outcomes of a decision the hold against going back never occurs.
With frames missing the target is on the grid: where there is a frame both modes
show it, and where there is none the blend modes blend (`Covered`), since then the
target remembered is a whole period back and outside the guard's 7/8. The
settling theorems stand on that, each with an invariant of its own. `NearSettled`:
a mode that shows the later tooth has a target past the middle by more than the
band, so jitter within the band cannot bring it back. `BlendSettled`: at the
source's rate a phase that blends once is out of reach of either frame, jitter and
all; at half of it nothing blends. `EvenTurns`: at three halves the target is on
the grid and in the middle by turns. `FastSettled`: since a frame was passed the
presents on the comb are past the gate on either side, and there is room for two
of them at the most before a frame is near again. All of it is by induction over
presents, for runs of any length.

**The lock's band.** `LockInv` alone is not inductive: a planned move may push the
pull half a comb out of its band, and it is the lock's next step that brings it
back, a step which a stall holds up. `LoopInv` adds that nothing is planned while
the source is stalled, so that the band is left by one move at most, and that
errors, easing and estimates are within the comb, from which one wrap is
always enough. The proof rests on lemmas about C++'s division, the wrap and the
median of the phases.

`SmoothTarget` follows step by step: the pull moves by the slew and maybe a wrap
(`UpdateMoves`), and the easing, where it is not dropped, takes the wrap back and
decays by one step (`EaseMoves`), unless the clamp at a comb cuts it short. That
happens exactly when a wrap comes over an easing the same way, hence
`OneWrapAtATime` as hypothesis, which the run checks. Two more hypotheses are on
constants: the steady slew is no faster than the recovering one, whose step the
property allows, and easing is over some number of presents, 12 in the code. The
only invariant needed beyond `LoopInv` is that with easing off there is none to
take back (`Eased`).

**The fence.** `FenceHolds` relates the stamps before and after a walk. `FenceInv`
says that the starts of the history fall from the newest on, that the
overlay's keys rise and are starts of batches in the history or of older ones, and
that no batch still to be walked has a mark. So a walk changes the stamp of a
batch at most once, and only while both stamps are ahead of the target; and a
mark that falls out of the overlay is that of a batch that has left the ring,
since `Entries` newer marks are of as many newer batches. This last step needs
`RingBatches <= Entries`, which the code claims with room to spare
(`TemporalPolicy.h:473`) and a ring of 32 frames keeps with batches of two. With
single frames it holds 32 batches; a mark dropped then is sixteen corrections old
and behind the target by far, an argument on times the theorem does not make.
The skip of a lapped history needs `2 * Margin <= History + 1`, 8 and 64 in the
code. The walk is a recursive function; that it is one, and that `Ordered`
holds at each of its steps, is shown with a least counterexample.

**The chain's fictions.** `Runs`, the third part of `FenceInv`, says that no three
batches in a row behind the walk are corrected, and that a chain in force has
counted the corrected ones just behind the walk among its late readings. A third
late reading drops the chain before it corrects. What threatens this is everything
else that moves the walk or the overlay: the skip of a lapped history starts a new
chain, a batch without its flip keeps its place in the walk, and a mark pushed out
of the overlay can only take corrections away. `FictionEnds` is weaker, since a
correction may be true; batches at Floor, where the history may hold one start
for several, are left out.

**The output.** After a fault the queues, the fences and the two buffers come back
in step in stages, which `OutputInv` counts by `steady`. One present on, the buffer
being filled is neither shown nor queued, and the newest present waits for all the
work there is (`TurnOne`); two on, the other buffer is shown, or queued where nothing
has been yet (`TurnTwo`); three on, nothing is queued while a buffer is filled, and
the work still to be done is exactly that of the turn (`TurnThree`); from the fourth
the display has what its present put there (`TurnFour`). A stage is preserved
given those before it, and each present of a later turn leads to the next.

**The launch.** `SessionInv` has two parts. For the pool, each texture is in one
place, free, painted, in hand or in one slot, and the slot the present reads from
names the texture it took; `PoolHasRoom` then follows by counting, N slots and one
hand against N + 2 textures. For the rest, it says of each step of the main thread
what session, trace, callback, mutex and thread it holds, which is what
every failing step has to give back.

**Only model-checked**, and why:

- Liveness (`AwaitedSettles`, `Converges`, `ChainHeals`, `VoteRecovers`,
  `FaultEnds`) is beyond the prover.
- `RelaunchSame` is about strings of tokens and folds over them: an induction over
  data the provers cannot make.
- `SnapLands` and `MoveStays` hold until the next hitch (see the bounds), and
  depend on how the present interval, the lag and the lock's averages lie to the
  comb: with an interval far from the comb they are false, and the proportions
  under which they are true are not stated anywhere in the code.
- `OneWrapAtATime` depends on how soon moves are planned again: a longer easing, or
  a source that steps by half a comb every few frames, would break it.
- `SteersTrue` and `NoFalseSteering` depend on the proportion of disturbed to good
  samples in the vote's window, and on arithmetic modulo a stride that varies.

## 5. Not modelled

See the components with status `not_modelled` in `PROJECT.json`, and the notes
of those modelled in part.

- The composition of the ring's pictures with the lock and the overlay in one
  state space: each module takes the others' effect as an input or a free
  choice (the keeper in `CaptureRing`, the exemption in `PresentPath`, calm and
  target in `Dejitter`).
- `PresentScheduler`, which paces the present thread where no vsync does: when
  presents fall is an input of the models.
- The plain flip-model swapchain's buffers (`Output` has the copy engine's; in
  `Session` both are a display that gives buffers back or does not).
- Resource creation: devices, windows, surfaces, shaders. Its failures and the
  order of its clean-up are in `Session`, what is created is not.
- GPU stages, marker cells, flip decoding, logging, displays' enumeration and
  tools, which keep no state that two actors share.
