------------------------------ MODULE CopyEngine ------------------------------
(***************************************************************************)
(* CopyEngineTarget: two buffers on the display, filled by the GPU's copy  *)
(* queue or by the drawing device, in the order fences give them.  The     *)
(* present thread hands work over and goes on; the GPU does it some time   *)
(* later, and the presentation manager shows a buffer once the fence it    *)
(* waits for is reached.                                                   *)
(*                                                                         *)
(* Presents are told apart by a number modulo Numbers.  What a present     *)
(* waits for is kept as the number of works of either queue still to be    *)
(* done: the device it is presented on waits for one fence after another.  *)
(***************************************************************************)
EXTENDS Integers, Sequences, FiniteSets, SequencesExt

CONSTANTS
    Numbers,      \* presents told apart at a time
    MostQueued    \* bound on the presents not shown yet: the oldest is skipped

ASSUME CopyEngineAssumption == Numbers \in Nat \ {0} /\ MostQueued \in Nat /\ MostQueued >= 2

Buffer == {0, 1}    \* kBuffers
Unmarked == -1

VARIABLES
    number,      \* of the present being made
    next,        \* m_next
    pendingMark, \* m_markCells while m_markPending, otherwise Unmarked
    strip,       \* m_stripUpload: the cells the CPU wrote last for a buffer's copies
    copies,      \* the copy queue
    draws,       \* the drawing device's commands
    content,     \* what is in a buffer
    queue,       \* the presents the manager has not shown yet
    shown        \* the present on the display

copyVars == <<number, next, pendingMark, strip, copies, draws, content, queue, shown>>

Blank == [of |-> -1, mark |-> Unmarked]

CopyInit ==
    /\ number = 0 /\ next = 0 /\ pendingMark = Unmarked
    /\ strip = [b \in Buffer |-> Unmarked] /\ content = [b \in Buffer |-> Blank]
    /\ copies = <<>> /\ draws = <<>> /\ queue = <<>>
    /\ shown = [of |-> -1, buffer |-> -1, marked |-> FALSE]

\* Mutant: a buffer that waits to be shown is taken for free.
AvailableUnlessShown(b) == shown.buffer # b

\* The display has done with a buffer.
Available(b) == shown.buffer # b /\ \A i \in DOMAIN queue : queue[i].buffer # b

\* The copy queue has work on a buffer, and with it the buffer's allocator and strip.
CopyBusy(b) == \E i \in DOMAIN copies : copies[i].buffer = b
DrawBusy(b) == \E i \in DOMAIN draws : draws[i].buffer = b

-----------------------------------------------------------------------------
\* The GPU.  A work that is done takes every present one nearer.
Nearer(works) ==
    [i \in DOMAIN queue |-> [queue[i] EXCEPT !.waits[works] = IF @ > 0 THEN @ - 1 ELSE 0]]

\* A copy takes the whole frame, and the strip as the CPU left it.
CopyDone ==
    /\ copies # <<>>
    /\ LET c == Head(copies)
       IN content' = [content EXCEPT ![c.buffer] =
              [of |-> c.of, mark |-> IF c.marked THEN strip[c.buffer] ELSE Unmarked]]
    /\ copies' = Tail(copies) /\ queue' = Nearer("copies")
    /\ UNCHANGED <<number, next, pendingMark, strip, draws, shown>>

\* A frame is drawn over the whole buffer, a marker over its strip.
DrawDone ==
    /\ draws # <<>>
    /\ LET d == Head(draws)
       IN content' = [content EXCEPT ![d.buffer] =
              IF d.marker THEN [@ EXCEPT !.mark = d.of]
              ELSE [of |-> d.of, mark |-> Unmarked]]
    /\ draws' = Tail(draws) /\ queue' = Nearer("draws")
    /\ UNCHANGED <<number, next, pendingMark, strip, copies, shown>>

\* The display takes a present that has nothing more to wait for, and skips the ones before.
Show ==
    /\ \E i \in DOMAIN queue :
          /\ queue[i].waits = [copies |-> 0, draws |-> 0]
          /\ shown' = [of |-> queue[i].of, buffer |-> queue[i].buffer, marked |-> queue[i].marked]
          /\ queue' = SubSeq(queue, i + 1, Len(queue))
    /\ UNCHANGED <<number, next, pendingMark, strip, copies, draws, content>>

-----------------------------------------------------------------------------
\* What the present thread hands over.
Copy == [buffer |-> next, of |-> number, marked |-> pendingMark # Unmarked]
Draw(marker) == [buffer |-> next, of |-> number, marker |-> marker]

Recent(presents) == IF Len(presents) > MostQueued THEN Tail(presents) ELSE presents

\* Present: the next buffer is the other one, also when the manager refuses this one.
Present(waits, marked) ==
    /\ \/ queue' = Recent(Append(queue, [of |-> number, buffer |-> next, waits |-> waits,
                                            marked |-> marked]))
       \/ UNCHANGED queue
    /\ next' = 1 - next
    /\ number' = (number + 1) % Numbers
    /\ UNCHANGED <<content, shown>>

\* Mutant: the present does not wait for the drawing device.
PresentDrawnUnfenced(marked) ==
    /\ Present([copies |-> Len(copies), draws |-> 0], marked)
    /\ UNCHANGED <<pendingMark, strip, copies, draws>>

PresentDrawn(marked) ==
    /\ Present([copies |-> Len(copies), draws |-> Len(draws)], marked)
    /\ UNCHANGED <<pendingMark, strip, copies, draws>>

\* PresentCopy, once the allocator is free or was not waited out: the strip is written and the
\* copy handed over.
PresentCopy(marked) ==
    /\ strip' = IF pendingMark # Unmarked THEN [strip EXCEPT ![next] = pendingMark] ELSE strip
    /\ copies' = Append(copies, Copy)
    /\ pendingMark' = Unmarked
    /\ Present([copies |-> Len(copies) + 1, draws |-> Len(draws)], marked)
    /\ UNCHANGED draws

\* The copy list cannot be reset, and nothing is presented.
CopyNotReset ==
    /\ number' = (number + 1) % Numbers
    /\ UNCHANGED <<next, pendingMark, strip, copies, draws, content, queue, shown>>
=============================================================================
