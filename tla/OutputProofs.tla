---------------------------- MODULE OutputProofs ----------------------------
(***************************************************************************)
(* What is proved of module Output, for any numbering of presents, any     *)
(* depth of the manager's queue and any number of faults: three turns      *)
(* after the last fault the two buffers are back in step, and from the     *)
(* fourth on the display holds what its present put there.                 *)
(***************************************************************************)
EXTENDS Output, SequenceTheorems, TLAPS

Work == [buffer : Buffer, of : Int, marked : BOOLEAN]
Drawing == [buffer : Buffer, of : Int, marker : BOOLEAN]
Waits == [copies : Nat, draws : Nat]
Queued == [of : Int, buffer : Buffer, waits : Waits, marked : BOOLEAN]

OutputType ==
    /\ number \in Nat /\ next \in Buffer /\ pendingMark \in Int
    /\ strip \in [Buffer -> Int] /\ content \in [Buffer -> [of : Int, mark : Int]]
    /\ copies \in Seq(Work) /\ draws \in Seq(Drawing) /\ queue \in Seq(Queued)
    /\ shown \in [of : Int, buffer : Buffer \union {-1}, marked : BOOLEAN]
    /\ loop \in {"wait", "compose", "mark", "present"}
    /\ copying \in BOOLEAN /\ marking \in BOOLEAN /\ marked \in BOOLEAN /\ steady \in Nat
    /\ loop \in {"wait", "compose"} => ~copying /\ ~marked

\* The present thread has a buffer, and is filling it.
InTurn == loop \in {"compose", "mark", "present"}
Other == 1 - next

AllDone == copies = <<>> /\ draws = <<>>
Idle == queue = <<>> /\ shown.buffer = Other

\* The last present waits for all that is still to be done, and no other is on its buffer.
Newest == queue[Len(queue)]
Waiting ==
    /\ queue # <<>> /\ shown.buffer # Other
    /\ Newest.buffer = Other /\ Newest.waits = [copies |-> Len(copies), draws |-> Len(draws)]
    /\ \A i \in DOMAIN queue : i # Len(queue) => queue[i].buffer = next

\* A buffer holds the picture of a present, and its marker if it is to have one.
Holds(b, of, mark) == content[b].of = of /\ (mark => content[b].mark = of)

\* One turn after a fault: nothing is shown or queued on the buffer that is filled.
TurnOne ==
    /\ InTurn => shown.buffer # next /\ \A i \in DOMAIN queue : queue[i].buffer # next
    /\ loop = "wait" => (Idle /\ AllDone) \/ Waiting

\* Two turns: the other buffer is shown or, where nothing has been yet, queued.
TurnTwo ==
    /\ InTurn => Idle \/ (Len(queue) = 1 /\ shown.buffer = -1)
    /\ loop = "wait" => \/ Idle
                        \/ Len(queue) = 1 /\ shown.buffer = next
                        \/ Len(queue) = 2 /\ shown.buffer = -1

\* What is still to be done of the picture of a present, from its composing on.
Drawn(b, of) ==
    \/ Len(draws) = 1 /\ draws[1] = [buffer |-> b, of |-> of, marker |-> FALSE]
    \/ draws = <<>> /\ content[b].of = of

DrawnMarked(b, of) ==
    \/ /\ Len(draws) = 2 /\ draws[1] = [buffer |-> b, of |-> of, marker |-> FALSE]
       /\ draws[2] = [buffer |-> b, of |-> of, marker |-> TRUE]
    \/ /\ Len(draws) = 1 /\ draws[1] = [buffer |-> b, of |-> of, marker |-> TRUE]
       /\ content[b].of = of
    \/ draws = <<>> /\ Holds(b, of, TRUE)

Copied(b, of, mark) ==
    /\ Len(copies) = 1 /\ draws = <<>>
    /\ copies[1].buffer = b /\ copies[1].of = of
    /\ mark => copies[1].marked /\ strip[b] = of

\* Three turns: nothing is queued and all that is still to be done is this turn's.
TurnThree ==
    /\ InTurn => Idle /\ copies = <<>>
    /\ loop = "compose" \/ (InTurn /\ copying) => draws = <<>>
    /\ loop = "mark" /\ ~copying => Drawn(next, number)
    /\ loop = "present" /\ copying /\ marked => pendingMark = number
    /\ loop = "present" /\ ~copying =>
           IF marked THEN DrawnMarked(next, number) ELSE Drawn(next, number)
    /\ loop = "wait" /\ Idle => Holds(Other, shown.of, shown.marked)
    /\ loop = "wait" /\ ~Idle =>
           /\ Len(queue) = 1 /\ shown.buffer = next
           /\ \/ Copied(Other, Newest.of, Newest.marked)
              \/ /\ copies = <<>>
                 /\ IF Newest.marked THEN DrawnMarked(Other, Newest.of) ELSE Drawn(Other, Newest.of)
              \/ AllDone /\ Holds(Other, Newest.of, Newest.marked)

\* Four turns: what is shown is what its present put there.
TurnFour == shown.buffer # -1 /\ Holds(shown.buffer, shown.of, shown.marked)

Stages ==
    /\ steady >= 1 => TurnOne
    /\ steady >= 2 => TurnTwo
    /\ steady >= 3 => TurnThree
    /\ steady >= 4 => TurnFour

OutputInv == OutputType /\ Stages

-----------------------------------------------------------------------------
\* The queues.

LEMMA Constants ==
    /\ Settled \in Nat /\ Settled >= 4 /\ MaxFaults \in Nat
    /\ Numbers \in Nat \ {0} /\ MostQueued \in Nat /\ MostQueued >= 2
    /\ Buffer = {0, 1} /\ Unmarked = -1
BY CopyEngineAssumption, OutputAssumption DEF Buffer, Unmarked

\* A sequence is empty where its length is zero.
LEMMA NoneLeft ==
    ASSUME NEW S, NEW s \in Seq(S)
    PROVE  Len(s) \in Nat /\ DOMAIN s = 1 .. Len(s) /\ (Len(s) = 0 <=> s = <<>>)
BY EmptySeq, LenProperties

\* The oldest work is done, and the others stay in order.
LEMMA OldestDone ==
    ASSUME NEW S, NEW s \in Seq(S), s # <<>>
    PROVE  /\ Head(s) = s[1] /\ Head(s) \in S /\ Tail(s) \in Seq(S)
           /\ Len(Tail(s)) = Len(s) - 1
           /\ \A i \in 1 .. Len(s) - 1 : Tail(s)[i] = s[i + 1]
BY HeadTailProperties

\* A work that is handed over is the newest.
LEMMA NewestAdded ==
    ASSUME NEW S, NEW s \in Seq(S), NEW e \in S
    PROVE  /\ Append(s, e) \in Seq(S) /\ Len(Append(s, e)) = Len(s) + 1
           /\ \A i \in 1 .. Len(s) : Append(s, e)[i] = s[i]
           /\ Append(s, e)[Len(s) + 1] = e
BY AppendProperties

\* A present shown leaves those made after it.
LEMMA ShownTaken ==
    ASSUME queue \in Seq(Queued), NEW i \in DOMAIN queue
    PROVE  LET rest == SubSeq(queue, i + 1, Len(queue))
           IN /\ rest \in Seq(Queued) /\ Len(rest) = Len(queue) - i
              /\ \A j \in 1 .. Len(queue) - i : rest[j] = queue[i + j]
<1>1. Len(queue) \in Nat /\ i \in 1 .. Len(queue)
  BY NoneLeft
<1> QED BY <1>1, SubSeqProperties

\* A present put in the queue is the newest, and all others there were in it.
LEMMA PresentQueued ==
    ASSUME queue \in Seq(Queued), NEW e \in Queued
    PROVE  LET q == Recent(Append(queue, e))
           IN /\ q \in Seq(Queued) /\ q # <<>> /\ q[Len(q)] = e
              /\ \A i \in DOMAIN q : i # Len(q) => \E j \in DOMAIN queue : q[i] = queue[j]
              /\ Len(queue) <= 1 => Len(q) = Len(queue) + 1
<1> DEFINE a == Append(queue, e)
<1>1. /\ a \in Seq(Queued) /\ Len(a) = Len(queue) + 1 /\ Len(queue) \in Nat
      /\ \A i \in 1 .. Len(queue) : a[i] = queue[i]
      /\ a[Len(queue) + 1] = e /\ DOMAIN queue = 1 .. Len(queue)
  BY NewestAdded, NoneLeft
<1> HIDE DEF a
<1>2. CASE Len(a) <= MostQueued
  <2>1. Recent(a) = a
    BY <1>1, <1>2, Constants DEF Recent
  <2>2. a # <<>> /\ DOMAIN a = 1 .. Len(a)
    BY <1>1, NoneLeft
  <2> QED BY <1>1, <2>1, <2>2 DEF a
<1>3. CASE Len(a) > MostQueued
  <2>1. Recent(a) = Tail(a) /\ Len(queue) > 1
    BY <1>1, <1>3, Constants DEF Recent
  <2>2. a # <<>>
    BY <1>1, NoneLeft
  <2>3. /\ Tail(a) \in Seq(Queued) /\ Len(Tail(a)) = Len(queue)
        /\ \A i \in 1 .. Len(queue) : Tail(a)[i] = a[i + 1]
    BY <1>1, <2>2, OldestDone
  <2>4. Tail(a) # <<>> /\ DOMAIN Tail(a) = 1 .. Len(queue)
    BY <2>1, <2>3, NoneLeft
  <2>5. Tail(a)[Len(queue)] = e
    BY <1>1, <2>1, <2>3
  <2>6. ASSUME NEW i \in 1 .. Len(queue), i # Len(queue)
        PROVE  i + 1 \in DOMAIN queue /\ Tail(a)[i] = queue[i + 1]
    <3>0. Len(queue) \in Nat
      BY <1>1
    <3>1. i + 1 \in 1 .. Len(queue)
      BY <3>0, <2>6
    <3>2. Tail(a)[i] = a[i + 1]
      BY <2>3
    <3> QED BY <1>1, <3>1, <3>2
  <2>7. Recent(a) \in Seq(Queued) /\ Recent(a) # <<>> /\ Recent(a)[Len(Recent(a))] = e
    BY <2>1, <2>3, <2>4, <2>5
  <2>8. \A i \in DOMAIN Recent(a) : i # Len(Recent(a)) => \E j \in DOMAIN queue : Recent(a)[i] = queue[j]
    BY <2>1, <2>3, <2>4, <2>6
  <2>9. Len(queue) <= 1 => Len(Recent(a)) = Len(queue) + 1
    BY <2>1, <1>1
  <2> QED BY <2>7, <2>8, <2>9 DEF a
<1> QED BY <1>1, <1>2, <1>3, Constants

\* A work that is done changes no present but what it still waits for.
LEMMA NearerKeeps ==
    ASSUME queue \in Seq(Queued), NEW works \in {"copies", "draws"}, queue' = Nearer(works)
    PROVE  /\ queue' \in Seq(Queued) /\ Len(queue') = Len(queue)
           /\ \A i \in DOMAIN queue :
                 /\ queue'[i].of = queue[i].of /\ queue'[i].buffer = queue[i].buffer
                 /\ queue'[i].marked = queue[i].marked
                 /\ queue'[i].waits = [queue[i].waits EXCEPT ![works] =
                                           IF queue[i].waits[works] > 0
                                           THEN queue[i].waits[works] - 1 ELSE 0]
<1>1. DOMAIN queue = 1 .. Len(queue) /\ Len(queue) \in Nat
  BY NoneLeft
<1>2. /\ DOMAIN queue' = 1 .. Len(queue)
      /\ queue' = [i \in 1 .. Len(queue) |-> queue'[i]]
      /\ \A i \in 1 .. Len(queue) :
            queue'[i] = [queue[i] EXCEPT !.waits[works] = IF queue[i].waits[works] > 0
                                                          THEN queue[i].waits[works] - 1 ELSE 0]
  BY <1>1 DEF Nearer
<1>3. ASSUME NEW i \in 1 .. Len(queue)
      PROVE  /\ queue'[i] \in Queued
             /\ queue'[i].of = queue[i].of /\ queue'[i].buffer = queue[i].buffer
             /\ queue'[i].marked = queue[i].marked
             /\ queue'[i].waits = [queue[i].waits EXCEPT ![works] = IF queue[i].waits[works] > 0
                                       THEN queue[i].waits[works] - 1 ELSE 0]
  <2>1. queue[i] \in Queued
    BY <1>1, ElementOfSeq
  <2> DEFINE w == [queue[i].waits EXCEPT ![works] = IF queue[i].waits[works] > 0
                                                    THEN queue[i].waits[works] - 1 ELSE 0]
  <2>2. w \in Waits
    BY <2>1 DEF Queued, Waits
  <2>3. queue'[i] = [queue[i] EXCEPT !.waits = w]
    BY <1>2
  <2> HIDE DEF w
  <2>4. /\ queue'[i] \in Queued /\ queue'[i].waits = w
        /\ queue'[i].of = queue[i].of /\ queue'[i].buffer = queue[i].buffer
        /\ queue'[i].marked = queue[i].marked
    BY <2>1, <2>2, <2>3 DEF Queued
  <2> QED BY <2>4 DEF w
<1>4. queue' \in Seq(Queued) /\ Len(queue') = Len(queue)
  <2>1. queue' \in [1 .. Len(queue) -> Queued]
    BY <1>2, <1>3
  <2>2. queue' \in Seq(Queued)
    BY <1>1, <2>1, SeqDef
  <2> QED BY <1>1, <1>2, <2>2, LenProperties
<1> QED BY <1>1, <1>3, <1>4

-----------------------------------------------------------------------------
\* The steps.

\* A present has the shape it is to have, whatever it waits for.
LEMMA PresentType ==
    ASSUME OutputType, NEW waits \in Waits, NEW mark \in BOOLEAN, Present(waits, mark)
    PROVE  /\ queue' \in Seq(Queued) /\ next' \in Buffer /\ number' \in Nat
           /\ next' = 1 - next /\ content' = content /\ shown' = shown
<1>1. [of |-> number, buffer |-> next, waits |-> waits, marked |-> mark] \in Queued
  BY DEF OutputType, Queued
<1>2. queue' \in Seq(Queued)
  BY <1>1, PresentQueued DEF Present, OutputType
<1>3. number' \in Nat /\ next' \in Buffer
  BY Constants DEF Present, OutputType
<1> QED BY <1>2, <1>3 DEF Present

LEMMA CopyType ==
    ASSUME OutputType
    PROVE  Copy \in Work /\ \A marker \in BOOLEAN : Draw(marker) \in Drawing
BY DEF OutputType, Copy, Draw, Work, Drawing

\* PresentCopy and PresentDrawn keep their shapes.
LEMMA CopyPresented ==
    ASSUME OutputType, PresentCopy(marked)
    PROVE  /\ queue' \in Seq(Queued) /\ next' \in Buffer /\ number' \in Nat
           /\ next' = 1 - next /\ content' = content /\ shown' = shown /\ draws' = draws
           /\ copies' \in Seq(Work) /\ strip' \in [Buffer -> Int] /\ pendingMark' \in Int
           /\ copies' = Append(copies, Copy)
           /\ Present([copies |-> Len(copies'), draws |-> Len(draws)], marked)
<1>1. Copy \in Work /\ copies' = Append(copies, Copy)
  BY CopyType DEF PresentCopy
<1>2. copies' \in Seq(Work) /\ Len(copies') = Len(copies) + 1 /\ Len(copies) \in Nat /\ Len(draws) \in Nat
  BY <1>1, NewestAdded, NoneLeft DEF OutputType
<1>3. Present([copies |-> Len(copies'), draws |-> Len(draws)], marked)
  BY <1>2 DEF PresentCopy
<1>4. [copies |-> Len(copies'), draws |-> Len(draws)] \in Waits /\ marked \in BOOLEAN
  BY <1>2 DEF Waits, OutputType
<1>5. strip' \in [Buffer -> Int] /\ pendingMark' \in Int /\ draws' = draws
  BY Constants DEF PresentCopy, OutputType
<1> QED BY <1>1, <1>2, <1>3, <1>4, <1>5, PresentType

LEMMA DrawnPresented ==
    ASSUME OutputType, PresentDrawn(marked)
    PROVE  /\ queue' \in Seq(Queued) /\ next' \in Buffer /\ number' \in Nat
           /\ next' = 1 - next /\ content' = content /\ shown' = shown /\ draws' = draws
           /\ copies' = copies /\ strip' = strip /\ pendingMark' = pendingMark
           /\ Present([copies |-> Len(copies), draws |-> Len(draws)], marked)
<1>1. [copies |-> Len(copies), draws |-> Len(draws)] \in Waits /\ marked \in BOOLEAN
  BY NoneLeft DEF Waits, OutputType
<1> QED BY <1>1, PresentType DEF PresentDrawn

\* Every step keeps the shapes.
LEMMA TypeKept ==
    ASSUME OutputType, Next
    PROVE  OutputType'
<1> USE Constants
<1>1. CASE BufferBack
  BY <1>1 DEF BufferBack, Steadier, copyVars, OutputType
<1>2. CASE WaitTimesOut
  BY <1>2 DEF WaitTimesOut, Fault, copyVars, OutputType
<1>3. CASE ComposeCopy
  BY <1>3 DEF ComposeCopy, copyVars, OutputType
<1>4. CASE ComposeDraw
  <2>1. draws' \in Seq(Drawing)
    BY <1>4, CopyType, NewestAdded DEF ComposeDraw, OutputType
  <2> QED BY <1>4, <2>1 DEF ComposeDraw, OutputType
<1>5. CASE ComposeNothing
  BY <1>5 DEF ComposeNothing, Fault, copyVars, OutputType
<1>6. CASE BurnMarker
  <2>1. draws' \in Seq(Drawing)
    <3>1. Append(draws, Draw(TRUE)) \in Seq(Drawing) /\ draws \in Seq(Drawing)
      BY CopyType, NewestAdded DEF OutputType
    <3>2. draws' = Append(draws, Draw(TRUE)) \/ draws' = draws
      BY <1>6 DEF BurnMarker
    <3> QED BY <3>1, <3>2
  <2>2. pendingMark' \in Int
    BY <1>6 DEF BurnMarker, OutputType
  <2> QED BY <1>6, <2>1, <2>2 DEF BurnMarker, OutputType
<1>6a. CASE MarkerNotDrawn
  BY <1>6a DEF MarkerNotDrawn, Fault, copyVars, OutputType
<1>7. CASE PresentFrame
  <2>1. /\ steady' \in Nat /\ loop' = "wait" /\ copying' = FALSE /\ marked' = FALSE
        /\ marking' = marking
    BY <1>7 DEF PresentFrame, Fault, Presented, OutputType
  <2>2. CASE copying
    <3>1. PresentCopy(marked)
      BY <1>7, <2>2 DEF PresentFrame
    <3>2. /\ queue' \in Seq(Queued) /\ next' \in Buffer /\ number' \in Nat
          /\ content' = content /\ shown' = shown /\ draws' = draws
          /\ copies' \in Seq(Work) /\ strip' \in [Buffer -> Int] /\ pendingMark' \in Int
      BY <3>1, CopyPresented
    <3> QED BY <2>1, <3>2 DEF OutputType
  <2>3. CASE ~copying
    <3>1. PresentDrawn(marked)
      BY <1>7, <2>3 DEF PresentFrame
    <3>2. /\ queue' \in Seq(Queued) /\ next' \in Buffer /\ number' \in Nat
          /\ content' = content /\ shown' = shown /\ draws' = draws
          /\ copies' = copies /\ strip' = strip /\ pendingMark' = pendingMark
      BY <3>1, DrawnPresented
    <3> QED BY <2>1, <3>2 DEF OutputType
  <2> QED BY <2>2, <2>3
<1>8. CASE PresentUnready
  <2>1. /\ steady' \in Nat /\ loop' = "wait" /\ copying' = FALSE /\ marked' = FALSE
        /\ marking' = marking
    BY <1>8 DEF PresentUnready, Presented
  <2>0. PresentCopy(marked)
    BY <1>8 DEF PresentUnready
  <2>2. /\ queue' \in Seq(Queued) /\ next' \in Buffer /\ number' \in Nat
        /\ content' = content /\ shown' = shown /\ draws' = draws
        /\ copies' \in Seq(Work) /\ strip' \in [Buffer -> Int] /\ pendingMark' \in Int
    BY <2>0, CopyPresented
  <2> QED BY <2>1, <2>2 DEF OutputType
<1>9. CASE PresentNotCopied
  <2>1. number' \in Nat
    BY <1>9 DEF PresentNotCopied, CopyNotReset, OutputType
  <2>2. /\ steady' = 0 /\ loop' = "wait" /\ copying' = FALSE /\ marked' = FALSE
        /\ UNCHANGED <<marking, next, pendingMark, strip, copies, draws, content, queue, shown>>
    BY <1>9 DEF PresentNotCopied, Presented, CopyNotReset, Fault
  <2> QED BY <2>1, <2>2 DEF OutputType
<1>10. CASE CopyDone /\ UNCHANGED outputVars
  <2>1. /\ Head(copies) \in Work /\ copies' \in Seq(Work)
        /\ queue' \in Seq(Queued)
    BY <1>10, OldestDone, NearerKeeps DEF CopyDone, OutputType
  <2>2. content' \in [Buffer -> [of : Int, mark : Int]]
    BY <1>10, <2>1 DEF CopyDone, OutputType, Work
  <2> QED BY <1>10, <2>1, <2>2 DEF CopyDone, outputVars, OutputType
<1>11. CASE DrawDone /\ UNCHANGED outputVars
  <2>1. /\ Head(draws) \in Drawing /\ draws' \in Seq(Drawing)
        /\ queue' \in Seq(Queued)
    BY <1>11, OldestDone, NearerKeeps DEF DrawDone, OutputType
  <2>2. content' \in [Buffer -> [of : Int, mark : Int]]
    <3> DEFINE d == Head(draws)
    <3>1. d.of \in Int /\ d.buffer \in Buffer
      BY <2>1 DEF Drawing
    <3>2. CASE d.marker
      <4>1. content' = [content EXCEPT ![d.buffer] = [content[d.buffer] EXCEPT !.mark = d.of]]
        BY <1>11, <3>2 DEF DrawDone
      <4> QED BY <3>1, <4>1 DEF OutputType
    <3>3. CASE ~d.marker
      <4>1. content' = [content EXCEPT ![d.buffer] = [of |-> d.of, mark |-> Unmarked]]
        BY <1>11, <3>3 DEF DrawDone
      <4> QED BY <3>1, <4>1 DEF OutputType
    <3> QED BY <3>2, <3>3
  <2> QED BY <1>11, <2>1, <2>2 DEF DrawDone, outputVars, OutputType
<1>12. CASE Show /\ UNCHANGED outputVars
  <2>1. PICK i \in DOMAIN queue :
           /\ shown' = [of |-> queue[i].of, buffer |-> queue[i].buffer, marked |-> queue[i].marked]
           /\ queue' = SubSeq(queue, i + 1, Len(queue))
    BY <1>12 DEF Show
  <2>2. queue' \in Seq(Queued) /\ queue[i] \in Queued
    BY <2>1, ShownTaken, NoneLeft, ElementOfSeq DEF OutputType
  <2>3. shown' \in [of : Int, buffer : Buffer \union {-1}, marked : BOOLEAN]
    BY <2>1, <2>2 DEF Queued
  <2> QED BY <1>12, <2>2, <2>3 DEF Show, outputVars, OutputType
<1> QED
  BY <1>1, <1>2, <1>3, <1>4, <1>5, <1>6, <1>6a, <1>7, <1>8, <1>9, <1>10, <1>11, <1>12
     DEF Next, PresentThread, Gpu

-----------------------------------------------------------------------------
\* The stages. A fault starts them anew.
LEMMA FaultRestarts ==
    ASSUME steady' = 0
    PROVE  Stages'
BY DEF Stages

\* The buffer is back: one stage further.
LEMMA BufferBackKeeps ==
    ASSUME OutputInv, BufferBack
    PROVE  Stages'
<1>1. /\ loop = "wait" /\ loop' = "compose" /\ OutputType /\ Stages
      /\ UNCHANGED <<number, next, pendingMark, strip, copies, draws, content, queue, shown,
                     copying, marked>>
      /\ ~copying /\ ~marked
  BY DEF BufferBack, copyVars, OutputInv, OutputType
<1>2. /\ steady' >= 2 => steady >= 1
      /\ steady' >= 3 => steady >= 2
      /\ steady' >= 4 => steady >= 3
  BY <1>1 DEF BufferBack, Steadier, OutputType
<1>3. /\ next \in {0, 1} /\ Other \in {0, 1} /\ Other # next /\ shown.buffer \in {-1, 0, 1}
      /\ Len(queue) \in Nat /\ DOMAIN queue = 1 .. Len(queue) /\ (Len(queue) = 0 <=> queue = <<>>)
  BY <1>1, NoneLeft, Constants DEF OutputType, Other
<1>4. shown.buffer # next /\ \A i \in DOMAIN queue : queue[i].buffer # next
  BY DEF BufferBack, Available
<1>5. TurnOne'
  BY <1>1, <1>4 DEF TurnOne, InTurn
<1>6. Other' = Other /\ (Idle' <=> Idle)
  BY <1>1 DEF Other, Idle
<1>7. ASSUME steady >= 1 PROVE TurnTwo'
  <2>1. (Idle /\ AllDone) \/ Waiting
    BY <1>1, <1>7 DEF Stages, TurnOne
  <2>2. CASE Idle
    BY <2>2, <1>1, <1>6 DEF TurnTwo, InTurn
  <2>3. CASE Waiting
    <3>1. shown.buffer = -1
      BY <2>3, <1>3, <1>4 DEF Waiting
    <3>2. Len(queue) = 1
      <4>1. Len(queue) # 0
        BY <2>3, <1>3 DEF Waiting
      <4>2. ~(Len(queue) > 1)
        <5> SUFFICES ASSUME Len(queue) > 1 PROVE FALSE
          OBVIOUS
        <5>1. 1 \in DOMAIN queue /\ 1 # Len(queue)
          BY <1>3
        <5> QED BY <5>1, <2>3, <1>4 DEF Waiting
      <4> QED BY <4>1, <4>2, <1>3
    <3> QED BY <3>1, <3>2, <1>1 DEF TurnTwo, InTurn
  <2> QED BY <2>1, <2>2, <2>3
<1>8. ASSUME steady >= 2 PROVE Idle
  <2>1. TurnTwo /\ TurnOne
    BY <1>8, <1>1 DEF Stages, OutputType
  <2>2. CASE Len(queue) = 1 /\ shown.buffer = next
    BY <2>2, <1>4
  <2>3. CASE Len(queue) = 2 /\ shown.buffer = -1
    <3>1. Waiting /\ 1 \in DOMAIN queue /\ 1 # Len(queue)
      BY <2>1, <2>3, <1>1, <1>3 DEF TurnOne, Idle
    <3> QED BY <3>1, <1>4 DEF Waiting
  <2> QED BY <2>1, <2>2, <2>3, <1>1 DEF TurnTwo
<1>9. ASSUME steady >= 2 PROVE TurnThree' /\ AllDone
  <2>1. TurnOne
    BY <1>9, <1>1 DEF Stages, OutputType
  <2>2. AllDone
    BY <2>1, <1>8, <1>9, <1>1 DEF TurnOne, Idle, Waiting
  <2> QED BY <2>2, <1>8, <1>9, <1>1, <1>6 DEF TurnThree, InTurn, AllDone
<1>10. ASSUME steady >= 3 PROVE TurnFour'
  <2>1. TurnThree /\ Idle
    BY <1>8, <1>10, <1>1 DEF Stages, OutputType
  <2>2. Holds(Other, shown.of, shown.marked) /\ shown.buffer = Other
    BY <2>1, <1>1 DEF TurnThree, Idle
  <2> QED BY <2>2, <1>1, <1>3 DEF TurnFour, Holds
<1> QED BY <1>2, <1>5, <1>7, <1>9, <1>10, <1>1 DEF Stages

\* The frame is given to the copy engine later, or drawn now,
LEMMA ComposeKeeps ==
    ASSUME OutputInv, ComposeCopy \/ ComposeDraw
    PROVE  Stages'
<1>1. /\ loop = "compose" /\ loop' = "mark" /\ OutputType /\ Stages
      /\ UNCHANGED <<number, next, pendingMark, strip, copies, content, queue, shown, steady>>
  BY DEF ComposeCopy, ComposeDraw, copyVars, OutputInv
<1>2. Other' = Other /\ (Idle' <=> Idle)
  BY <1>1 DEF Other, Idle
<1>3. steady' >= 1 => TurnOne'
  BY <1>1 DEF Stages, TurnOne, InTurn
<1>4. steady' >= 2 => TurnTwo'
  BY <1>1, <1>2 DEF Stages, TurnTwo, InTurn
<1>5. ASSUME steady >= 3 PROVE TurnThree'
  <2>1. Idle /\ copies = <<>> /\ draws = <<>>
    BY <1>1, <1>5 DEF Stages, TurnThree, InTurn
  <2>2. CASE ComposeCopy
    <3>1. copying' /\ draws' = draws
      BY <2>2 DEF ComposeCopy, copyVars
    <3> QED BY <1>1, <1>2, <2>1, <3>1 DEF TurnThree, InTurn
  <2>3. CASE ComposeDraw
    <3>1. draws' = Append(draws, Draw(FALSE)) /\ ~copying'
      BY <2>3, <1>1 DEF ComposeDraw, OutputType
    <3>2. Drawn(next, number)'
      <4>1. Len(draws') = 1 /\ draws'[1] = Draw(FALSE)
        BY <2>1, <3>1
      <4> QED BY <1>1, <4>1 DEF Drawn, Draw
    <3> QED BY <1>1, <1>2, <2>1, <3>1, <3>2 DEF TurnThree, InTurn
  <2> QED BY <2>2, <2>3
<1>6. steady' >= 4 => TurnFour'
  BY <1>1 DEF Stages, TurnFour, Holds
<1> QED BY <1>1, <1>3, <1>4, <1>5, <1>6 DEF Stages

\* with its marker.
LEMMA BurnMarkerKeeps ==
    ASSUME OutputInv, BurnMarker
    PROVE  Stages'
<1>1. /\ loop = "mark" /\ loop' = "present" /\ OutputType /\ Stages
      /\ UNCHANGED <<number, next, strip, copies, content, queue, shown, copying, steady>>
      /\ marked' = marking
  BY DEF BurnMarker, OutputInv
<1>2. Other' = Other /\ (Idle' <=> Idle)
  BY <1>1 DEF Other, Idle
<1>3. steady' >= 1 => TurnOne'
  BY <1>1 DEF Stages, TurnOne, InTurn
<1>4. steady' >= 2 => TurnTwo'
  BY <1>1, <1>2 DEF Stages, TurnTwo, InTurn
<1>5. ASSUME steady >= 3 PROVE TurnThree'
  <2>1. /\ Idle /\ copies = <<>> /\ (copying => draws = <<>>)
        /\ ~copying => Drawn(next, number)
    BY <1>1, <1>5 DEF Stages, TurnThree, InTurn
  <2>2. CASE copying
    <3>1. draws' = draws /\ (marked' => pendingMark' = number)
      BY <2>2, <1>1 DEF BurnMarker
    <3> QED BY <1>1, <1>2, <2>1, <2>2, <3>1 DEF TurnThree, InTurn
  <2>3. CASE ~copying /\ ~marking
    <3>1. draws' = draws /\ ~marked'
      BY <2>3, <1>1 DEF BurnMarker
    <3>2. Drawn(next, number)'
      BY <1>1, <2>1, <2>3, <3>1 DEF Drawn
    <3> QED BY <1>1, <1>2, <2>1, <2>3, <3>1, <3>2 DEF TurnThree, InTurn
  <2>4. CASE ~copying /\ marking
    <3>1. draws' = Append(draws, Draw(TRUE))
      BY <2>4 DEF BurnMarker
    <3>0. marked'
      BY <1>1, <2>4, Zenon
    <3>a. draws \in Seq(Drawing)
      BY <1>1 DEF OutputType
    <3> DEFINE d == Draw(TRUE)
    <3>b. d \in Drawing /\ draws' = Append(draws, d)
      BY <1>1, <3>1, CopyType
    <3> HIDE DEF d
    <3>2. /\ Len(draws') = Len(draws) + 1 /\ Len(draws) \in Nat
          /\ \A i \in 1 .. Len(draws) : draws'[i] = draws[i]
          /\ draws'[Len(draws) + 1] = d
      BY <3>a, <3>b, NewestAdded, NoneLeft
    <3>3. Len(draws) = 0 <=> draws = <<>>
      BY <1>1, NoneLeft DEF OutputType
    <3>4. DrawnMarked(next, number)'
      <4>1. CASE Len(draws) = 1 /\ draws[1] = [buffer |-> next, of |-> number, marker |-> FALSE]
        <5>1. Len(draws') = 2 /\ draws'[1] = draws[1] /\ draws'[2] = d
          BY <3>2, <4>1
        <5> QED BY <1>1, <4>1, <5>1 DEF DrawnMarked, Draw, d
      <4>2. CASE draws = <<>> /\ content[next].of = number
        <5>1. Len(draws') = 1 /\ draws'[1] = d
          BY <3>2, <3>3, <4>2
        <5> QED BY <1>1, <4>2, <5>1 DEF DrawnMarked, Draw, d
      <4> QED BY <2>1, <2>4, <4>1, <4>2 DEF Drawn
    <3> QED BY <1>1, <1>2, <2>1, <2>4, <3>0, <3>4 DEF TurnThree, InTurn
  <2> QED BY <2>2, <2>3, <2>4
<1>6. steady' >= 4 => TurnFour'
  BY <1>1 DEF Stages, TurnFour, Holds
<1> QED BY <1>1, <1>3, <1>4, <1>5, <1>6 DEF Stages

\* A present that is queued is the newest, on the buffer that was filled, and waits for all.
LEMMA QueuedLast ==
    ASSUME OutputType, NEW waits \in Waits, Present(waits, marked), queue' # queue
    PROVE  /\ queue' # <<>> /\ Len(queue') \in Nat /\ DOMAIN queue' = 1 .. Len(queue')
           /\ queue'[Len(queue')] = [of |-> number, buffer |-> next, waits |-> waits,
                                     marked |-> marked]
           /\ \A i \in DOMAIN queue' : i # Len(queue') => \E j \in DOMAIN queue : queue'[i] = queue[j]
           /\ Len(queue) <= 1 => Len(queue') = Len(queue) + 1
<1> DEFINE e == [of |-> number, buffer |-> next, waits |-> waits, marked |-> marked]
<1>1. e \in Queued /\ queue \in Seq(Queued)
  BY DEF OutputType, Queued
<1>2. queue' = Recent(Append(queue, e))
  BY DEF Present
<1> HIDE DEF e
<1>3. /\ queue' \in Seq(Queued) /\ queue' # <<>> /\ queue'[Len(queue')] = e
      /\ \A i \in DOMAIN queue' : i # Len(queue') => \E j \in DOMAIN queue : queue'[i] = queue[j]
      /\ Len(queue) <= 1 => Len(queue') = Len(queue) + 1
  BY <1>1, <1>2, PresentQueued
<1> QED BY <1>3, NoneLeft DEF e

LEMMA PresentFrameKeeps ==
    ASSUME OutputInv, PresentFrame
    PROVE  Stages'
<1>1. /\ loop = "present" /\ loop' = "wait" /\ OutputType /\ Stages
  BY DEF PresentFrame, Presented, OutputInv
<1>2. CASE queue' = queue
  <2>1. steady' = 0
    BY <1>2 DEF PresentFrame, Fault
  <2> QED BY <2>1, FaultRestarts
<1>3. CASE queue' # queue
  <2>1. steady' = steady
    BY <1>3 DEF PresentFrame
  <2>2. /\ copying => PresentCopy(marked)
        /\ ~copying => PresentDrawn(marked)
    BY DEF PresentFrame
  <2>3. /\ next' = 1 - next /\ content' = content /\ shown' = shown /\ draws' = draws
        /\ Present([copies |-> Len(copies'), draws |-> Len(draws)], marked)
        /\ copying => copies' = Append(copies, Copy)
        /\ ~copying => copies' = copies
        /\ copies' \in Seq(Work)
    <3>1. CASE copying
      BY <2>2, <3>1, <1>1, CopyPresented
    <3>2. CASE ~copying
      <4>1. PresentDrawn(marked) /\ copies \in Seq(Work)
        BY <2>2, <3>2, <1>1 DEF OutputType
      <4> QED BY <4>1, <3>2, <1>1, DrawnPresented
    <3> QED BY <3>1, <3>2
  <2> DEFINE waits == [copies |-> Len(copies'), draws |-> Len(draws)]
  <2>4. waits \in Waits
    <3>1. draws \in Seq(Drawing)
      BY <1>1 DEF OutputType
    <3> QED BY <2>3, <3>1, NoneLeft DEF Waits
  <2>5. /\ queue' # <<>> /\ Len(queue') \in Nat /\ DOMAIN queue' = 1 .. Len(queue')
        /\ queue'[Len(queue')] = [of |-> number, buffer |-> next, waits |-> waits,
                                  marked |-> marked]
        /\ \A i \in DOMAIN queue' : i # Len(queue') => \E j \in DOMAIN queue : queue'[i] = queue[j]
        /\ Len(queue) <= 1 => Len(queue') = Len(queue) + 1
    BY <1>1, <1>3, <2>3, <2>4, QueuedLast
  <2>6. /\ next \in {0, 1} /\ Other' = next /\ Other = 1 - next /\ Other = next' /\ next' # next
        /\ \A i \in DOMAIN queue : queue[i].buffer \in {0, 1}
    <3>1. queue \in Seq(Queued) /\ next \in {0, 1}
      BY <1>1, Constants DEF OutputType
    <3>2. \A i \in DOMAIN queue : queue[i] \in Queued
      BY <3>1, NoneLeft, ElementOfSeq
    <3> QED BY <3>1, <3>2, <2>3, Constants DEF Other, Queued
  <2>7. Newest' = [of |-> number, buffer |-> next, waits |-> waits, marked |-> marked] /\ ~Idle'
    BY <2>5 DEF Newest, Idle
  <2>8. ASSUME steady >= 1 PROVE TurnOne'
    <3>1. shown.buffer # next /\ \A i \in DOMAIN queue : queue[i].buffer # next
      BY <1>1, <2>8 DEF Stages, TurnOne, InTurn
    <3>2. Newest'.buffer = Other' /\ Newest'.waits = [copies |-> Len(copies'), draws |-> Len(draws')]
      BY <2>3, <2>6, <2>7
    <3>3. \A i \in DOMAIN queue' : i # Len(queue') => queue'[i].buffer = next'
      <4> SUFFICES ASSUME NEW i \in DOMAIN queue', i # Len(queue') PROVE queue'[i].buffer = next'
        OBVIOUS
      <4>1. PICK j \in DOMAIN queue : queue'[i] = queue[j]
        BY <2>5
      <4>2. queue[j].buffer \in {0, 1} /\ queue[j].buffer # next
        BY <2>6, <3>1
      <4> QED BY <2>3, <2>6, <4>1, <4>2
    <3>4. Waiting'
      BY <2>3, <2>5, <2>6, <3>1, <3>2, <3>3 DEF Waiting
    <3> QED BY <1>1, <3>4 DEF TurnOne, InTurn
  <2>9. ASSUME steady >= 2
        PROVE  \/ Idle /\ Len(queue') = 1 /\ shown'.buffer = next'
               \/ Len(queue') = 2 /\ shown'.buffer = -1
    <3>1. TurnTwo
      BY <1>1, <2>9 DEF Stages
    <3>2. Idle => Len(queue) = 0
      BY DEF Idle
    <3>3. Idle \/ (Len(queue) = 1 /\ shown.buffer = -1)
      BY <1>1, <3>1 DEF TurnTwo, InTurn
    <3>4. CASE Idle
      <4>1. Len(queue') = 1
        BY <2>5, <3>2, <3>4
      <4>2. shown'.buffer = next'
        BY <2>3, <2>6, <3>4 DEF Idle
      <4> QED BY <3>4, <4>1, <4>2
    <3>5. CASE Len(queue) = 1 /\ shown.buffer = -1
      <4>1. Len(queue') = 2
        BY <2>5, <3>5
      <4> QED BY <2>3, <3>5, <4>1
    <3> QED BY <3>3, <3>4, <3>5
  <2>10. steady >= 2 => TurnTwo'
    BY <1>1, <2>9 DEF TurnTwo, InTurn
  <2>11. ASSUME steady >= 3 PROVE TurnThree'
    <3>1. /\ Idle /\ copies = <<>> /\ (copying => draws = <<>>)
          /\ copying /\ marked => pendingMark = number
          /\ ~copying => IF marked THEN DrawnMarked(next, number) ELSE Drawn(next, number)
      BY <1>1, <2>11 DEF Stages, TurnThree, InTurn
    <3>2. Len(queue') = 1 /\ shown'.buffer = next'
      <4>1. steady >= 2 /\ shown'.buffer # -1
        BY <1>1, <2>3, <2>6, <2>11, <3>1 DEF OutputType, Idle
      <4> QED BY <2>9, <4>1
    <3>3. CASE copying
      <4> DEFINE c == Copy
      <4>1. copies' = Append(<<>>, c)
        BY <2>3, <3>1, <3>3
      <4>2. c.buffer = next /\ c.of = number /\ (c.marked <=> pendingMark # Unmarked)
        BY DEF Copy
      <4> HIDE DEF c
      <4>3. Len(copies') = 1 /\ copies'[1] = c
        BY <4>1
      <4>4. marked => c.marked /\ strip'[next] = number
        <5> SUFFICES ASSUME marked PROVE c.marked /\ strip'[next] = number
          OBVIOUS
        <5>1. pendingMark = number /\ number # Unmarked
          BY <3>1, <3>3, <1>1, Constants DEF OutputType
        <5>2. strip' = [strip EXCEPT ![next] = number]
          BY <5>1, <2>2, <3>3 DEF PresentCopy
        <5>3. strip \in [Buffer -> Int] /\ next \in Buffer
          BY <1>1 DEF OutputType
        <5> QED BY <4>2, <5>1, <5>2, <5>3
      <4>5. Copied(Other, Newest.of, Newest.marked)'
        BY <2>3, <2>6, <2>7, <3>1, <3>3, <4>2, <4>3, <4>4 DEF Copied
      <4> QED BY <1>1, <2>7, <3>2, <4>5 DEF TurnThree, InTurn
    <3>4. CASE ~copying
      <4>1. copies' = <<>> /\ draws' = draws /\ content' = content
        BY <2>3, <3>1, <3>4
      <4>2. CASE marked
        <5>1. DrawnMarked(next, number)
          BY <3>1, <3>4, <4>2
        <5>2. DrawnMarked(Other, Newest.of)'
          BY <2>6, <2>7, <4>1, <5>1 DEF DrawnMarked, Holds
        <5> QED BY <1>1, <2>7, <3>2, <4>1, <4>2, <5>2 DEF TurnThree, InTurn
      <4>3. CASE ~marked
        <5>1. Drawn(next, number)
          BY <3>1, <3>4, <4>3
        <5>2. Drawn(Other, Newest.of)'
          BY <2>6, <2>7, <4>1, <5>1 DEF Drawn
        <5> QED BY <1>1, <2>7, <3>2, <4>1, <4>3, <5>2 DEF TurnThree, InTurn
      <4> QED BY <4>2, <4>3
    <3> QED BY <3>3, <3>4
  <2>12. steady >= 4 => TurnFour'
    BY <1>1, <2>3 DEF Stages, TurnFour, Holds
  <2> QED BY <2>1, <2>8, <2>10, <2>11, <2>12 DEF Stages
<1> QED BY <1>2, <1>3

\* A work that is done brings what is queued one nearer, and no further.
LEMMA WorkDone ==
    ASSUME OutputInv, NEW works \in {"copies", "draws"}, queue' = Nearer(works),
           works = "copies" => copies # <<>> /\ copies' = Tail(copies) /\ draws' = draws,
           works = "draws" => draws # <<>> /\ draws' = Tail(draws) /\ copies' = copies,
           UNCHANGED <<next, shown, loop, steady>>
    PROVE  /\ steady' >= 1 => TurnOne'
           /\ steady' >= 2 => TurnTwo'
           /\ Other' = Other /\ (Idle' <=> Idle) /\ Len(queue') = Len(queue)
           /\ queue # <<>> => Newest'.of = Newest.of /\ Newest'.marked = Newest.marked
<1>1. OutputType /\ Stages /\ Other' = Other
  BY DEF OutputInv, Other
<1>2. queue \in Seq(Queued) /\ copies \in Seq(Work) /\ draws \in Seq(Drawing)
  BY <1>1 DEF OutputType
<1>3. /\ queue' \in Seq(Queued) /\ Len(queue') = Len(queue)
      /\ \A i \in DOMAIN queue :
            /\ queue'[i].of = queue[i].of /\ queue'[i].buffer = queue[i].buffer
            /\ queue'[i].marked = queue[i].marked
            /\ queue'[i].waits = [queue[i].waits EXCEPT ![works] = IF queue[i].waits[works] > 0
                                                          THEN queue[i].waits[works] - 1 ELSE 0]
  BY <1>2, NearerKeeps
<1>4. /\ DOMAIN queue' = 1 .. Len(queue) /\ DOMAIN queue = 1 .. Len(queue) /\ Len(queue) \in Nat
      /\ (Len(queue) = 0 <=> queue = <<>>) /\ (queue' = <<>> <=> queue = <<>>)
  <2>1. /\ DOMAIN queue = 1 .. Len(queue) /\ Len(queue) \in Nat /\ (Len(queue) = 0 <=> queue = <<>>)
    BY <1>2, NoneLeft
  <2>2. /\ DOMAIN queue' = 1 .. Len(queue') /\ (Len(queue') = 0 <=> queue' = <<>>)
    BY <1>3, NoneLeft
  <2> QED BY <1>3, <2>1, <2>2
<1>5. Idle' <=> Idle
  BY <1>1, <1>4 DEF Idle
<1>6. queue # <<>> => /\ Newest'.of = Newest.of /\ Newest'.marked = Newest.marked
                      /\ Newest'.buffer = Newest.buffer /\ Len(queue) \in DOMAIN queue
  <2> SUFFICES ASSUME queue # <<>>
               PROVE  /\ Newest'.of = Newest.of /\ Newest'.marked = Newest.marked
                      /\ Newest'.buffer = Newest.buffer /\ Len(queue) \in DOMAIN queue
    OBVIOUS
  <2>1. Len(queue) \in DOMAIN queue
    BY <1>4
  <2>2. Newest' = queue'[Len(queue)] /\ Newest = queue[Len(queue)]
    BY <1>3 DEF Newest
  <2> QED BY <1>3, <2>1, <2>2
<1>7. ASSUME steady >= 1 PROVE TurnOne'
  <2>1. CASE InTurn
    <3>1. shown.buffer # next /\ \A i \in DOMAIN queue : queue[i].buffer # next
      BY <1>1, <1>7, <2>1 DEF Stages, TurnOne
    <3> QED BY <1>3, <1>4, <2>1, <3>1 DEF TurnOne, InTurn
  <2>2. CASE loop = "wait"
    <3>1. ~(Idle /\ AllDone)
      BY DEF AllDone
    <3>2. Waiting
      BY <1>1, <1>7, <2>2, <3>1 DEF Stages, TurnOne
    <3>3. Newest'.waits = [copies |-> Len(copies'), draws |-> Len(draws')]
      <4>1. Newest'.waits = [Newest.waits EXCEPT ![works] = IF Newest.waits[works] > 0
                                                           THEN Newest.waits[works] - 1 ELSE 0]
        BY <1>3, <1>6, <3>2 DEF Newest, Waiting
      <4>2. Newest.waits = [copies |-> Len(copies), draws |-> Len(draws)]
        BY <3>2 DEF Waiting
      <4>3. CASE works = "copies"
        <5>1. Len(copies') = Len(copies) - 1 /\ Len(copies) \in Nat /\ Len(copies) > 0 /\ draws' = draws
          <6>1. copies # <<>>
            BY <4>3
          <6> QED BY <4>3, <6>1, <1>2, OldestDone, NoneLeft
        <5> QED BY <4>1, <4>2, <4>3, <5>1
      <4>4. CASE works = "draws"
        <5>1. Len(draws') = Len(draws) - 1 /\ Len(draws) \in Nat /\ Len(draws) > 0 /\ copies' = copies
          <6>1. draws # <<>>
            BY <4>4
          <6> QED BY <4>4, <6>1, <1>2, OldestDone, NoneLeft
        <5> QED BY <4>1, <4>2, <4>4, <5>1
      <4> QED BY <4>3, <4>4
    <3>4. \A i \in DOMAIN queue' : i # Len(queue') => queue'[i].buffer = next'
      BY <1>3, <1>4, <3>2 DEF Waiting
    <3>5. Waiting'
      BY <1>1, <1>4, <1>6, <3>2, <3>3, <3>4 DEF Waiting
    <3> QED BY <2>2, <3>5 DEF TurnOne, InTurn
  <2> QED BY <2>1, <2>2, <1>1 DEF OutputType, InTurn
<1>8. steady' >= 2 => TurnTwo'
  BY <1>1, <1>3, <1>5 DEF Stages, TurnTwo, InTurn
<1> QED BY <1>1, <1>3, <1>5, <1>6, <1>7, <1>8

\* A copy is done.
LEMMA CopyDoneKeeps ==
    ASSUME OutputInv, CopyDone, UNCHANGED outputVars
    PROVE  Stages'
<1>1. /\ OutputType /\ Stages /\ copies # <<>> /\ copies' = Tail(copies)
      /\ UNCHANGED <<number, next, pendingMark, strip, draws, shown, loop, copying, marking, marked,
                     steady>>
  BY DEF CopyDone, outputVars, OutputInv
<1>2. /\ steady' >= 1 => TurnOne'
      /\ steady' >= 2 => TurnTwo'
      /\ Other' = Other /\ (Idle' <=> Idle) /\ Len(queue') = Len(queue)
      /\ queue # <<>> => Newest'.of = Newest.of /\ Newest'.marked = Newest.marked
  BY <1>1, WorkDone DEF CopyDone
<1>3. /\ content \in [Buffer -> [of : Int, mark : Int]] /\ copies \in Seq(Work)
      /\ next \in {0, 1} /\ Other = 1 - next /\ Other \in Buffer
  BY <1>1, Constants DEF OutputType, Other
<1>4. ASSUME steady >= 3
      PROVE  TurnThree' /\ \A b \in Buffer : b # Other => content'[b] = content[b]
  <2>1. TurnThree /\ TurnOne
    BY <1>1, <1>4 DEF Stages, OutputType
  <2>2. loop = "wait"
    BY <1>1, <2>1 DEF TurnThree, OutputType, InTurn
  <2>3. ~Idle /\ queue # <<>>
    BY <1>1, <2>1, <2>2 DEF TurnOne, AllDone, Waiting, Idle
  <2>4. Len(queue) = 1 /\ shown.buffer = next /\ Copied(Other, Newest.of, Newest.marked)
    BY <1>1, <2>1, <2>2, <2>3 DEF TurnThree, AllDone
  <2> DEFINE c == Head(copies)
  <2>5. c = copies[1] /\ copies' = <<>>
    <3>1. c = copies[1] /\ copies' \in Seq(Work) /\ Len(copies') = Len(copies) - 1
      BY <1>1, <1>3, OldestDone
    <3>2. Len(copies') = 0
      BY <2>4, <3>1 DEF Copied
    <3> QED BY <3>1, <3>2, NoneLeft
  <2>6. content' = [content EXCEPT ![c.buffer] =
                       [of |-> c.of, mark |-> IF c.marked THEN strip[c.buffer] ELSE Unmarked]]
    BY DEF CopyDone
  <2> HIDE DEF c
  <2>7. /\ c.buffer = Other /\ c.of = Newest.of
        /\ Newest.marked => c.marked /\ strip[Other] = Newest.of
    BY <2>4, <2>5 DEF Copied
  <2>8. content'[Other].of = Newest.of /\ (Newest.marked => content'[Other].mark = Newest.of)
    BY <1>3, <2>6, <2>7
  <2>9. Holds(Other, Newest.of, Newest.marked)' /\ AllDone'
    BY <1>1, <1>2, <2>3, <2>4, <2>5, <2>8 DEF Holds, AllDone, Copied
  <2>10. TurnThree'
    BY <1>1, <1>2, <2>2, <2>3, <2>4, <2>9 DEF TurnThree, InTurn
  <2> QED BY <1>3, <2>6, <2>7, <2>10
<1>5. ASSUME steady >= 4 PROVE TurnFour'
  <2>1. TurnThree /\ TurnOne /\ TurnFour /\ steady >= 3
    BY <1>1, <1>5 DEF Stages, OutputType
  <2>2. shown.buffer # Other /\ shown.buffer \in Buffer
    <3>1. loop = "wait" /\ ~Idle
      BY <1>1, <2>1 DEF TurnThree, OutputType, InTurn, TurnOne, AllDone, Waiting, Idle
    <3> QED BY <1>3, <2>1, <3>1, Constants DEF TurnThree
  <2> QED BY <1>1, <1>4, <2>1, <2>2 DEF TurnFour, Holds
<1> QED BY <1>1, <1>2, <1>4, <1>5 DEF Stages

\* A picture or a marker is drawn: what was still to be drawn on the buffer is, by so much.
LEMMA DrawnFurther ==
    ASSUME OutputType, DrawDone, NEW b \in Buffer, NEW of \in Int,
           Drawn(b, of) \/ DrawnMarked(b, of)
    PROVE  /\ \A z \in Buffer : z # b => content'[z] = content[z]
           /\ Drawn(b, of) =>
                  draws' = <<>> /\ content'[b].of = of
           /\ DrawnMarked(b, of) =>
                 \/ /\ Len(draws') = 1 /\ content'[b].of = of
                    /\ draws'[1] = [buffer |-> b, of |-> of, marker |-> TRUE]
                 \/ draws' = <<>> /\ content'[b].of = of /\ content'[b].mark = of
<1> DEFINE d == Head(draws)
<1>1. /\ draws # <<>> /\ draws' = Tail(draws) /\ draws \in Seq(Drawing)
      /\ content \in [Buffer -> [of : Int, mark : Int]]
  BY DEF DrawDone, OutputType
<1>2. /\ d = draws[1] /\ d \in Drawing /\ draws' \in Seq(Drawing) /\ Len(draws') = Len(draws) - 1
      /\ \A i \in 1 .. Len(draws) - 1 : draws'[i] = draws[i + 1]
      /\ (Len(draws') = 0 <=> draws' = <<>>)
  BY <1>1, OldestDone, NoneLeft
<1>3. content' = [content EXCEPT ![d.buffer] =
                     IF d.marker THEN [content[d.buffer] EXCEPT !.mark = d.of]
                     ELSE [of |-> d.of, mark |-> Unmarked]]
  BY DEF DrawDone
<1> HIDE DEF d
<1>4. CASE d = [buffer |-> b, of |-> of, marker |-> FALSE]
  <2>1. content' = [content EXCEPT ![b] = [of |-> of, mark |-> Unmarked]]
    BY <1>3, <1>4
  <2>2. content'[b].of = of /\ \A z \in Buffer : z # b => content'[z] = content[z]
    BY <1>1, <2>1
  <2>3. Drawn(b, of) => draws' = <<>>
    BY <1>1, <1>2 DEF Drawn
  <2>4. DrawnMarked(b, of) =>
            Len(draws') = 1 /\ draws'[1] = [buffer |-> b, of |-> of, marker |-> TRUE]
    <3> SUFFICES ASSUME DrawnMarked(b, of)
                 PROVE  Len(draws') = 1 /\ draws'[1] = [buffer |-> b, of |-> of, marker |-> TRUE]
      OBVIOUS
    <3>1. draws[1].marker = FALSE
      BY <1>2, <1>4
    <3>2. Len(draws) = 2 /\ draws[2] = [buffer |-> b, of |-> of, marker |-> TRUE]
      <4>1. ~(draws[1] = [buffer |-> b, of |-> of, marker |-> TRUE]) /\ draws # <<>>
        BY <1>1, <3>1
      <4> QED BY <4>1 DEF DrawnMarked
    <3> QED BY <1>2, <3>2
  <2> QED BY <2>2, <2>3, <2>4
<1>5. CASE d = [buffer |-> b, of |-> of, marker |-> TRUE]
  <2>1. content' = [content EXCEPT ![b] = [content[b] EXCEPT !.mark = of]]
    BY <1>3, <1>5
  <2>2. /\ content'[b].of = content[b].of /\ content'[b].mark = of
        /\ \A z \in Buffer : z # b => content'[z] = content[z]
    BY <1>1, <2>1
  <2>3. draws[1].marker = TRUE
    BY <1>2, <1>5
  <2>4. ~Drawn(b, of)
    BY <1>1, <2>3 DEF Drawn
  <2>5. Len(draws) = 1 /\ content[b].of = of
    <3>1. ~(draws[1] = [buffer |-> b, of |-> of, marker |-> FALSE]) /\ draws # <<>>
      BY <1>1, <2>3
    <3> QED BY <2>4, <3>1 DEF DrawnMarked
  <2> QED BY <1>2, <2>2, <2>4, <2>5
<1> QED BY <1>1, <1>2, <1>4, <1>5 DEF Drawn, DrawnMarked

LEMMA DrawDoneKeeps ==
    ASSUME OutputInv, DrawDone, UNCHANGED outputVars
    PROVE  Stages'
<1>1. /\ OutputType /\ Stages /\ draws # <<>> /\ draws' = Tail(draws)
      /\ UNCHANGED <<number, next, pendingMark, strip, copies, shown, loop, copying, marking, marked,
                     steady>>
  BY DEF DrawDone, outputVars, OutputInv
<1>2. /\ steady' >= 1 => TurnOne'
      /\ steady' >= 2 => TurnTwo'
      /\ Other' = Other /\ (Idle' <=> Idle) /\ Len(queue') = Len(queue)
      /\ queue # <<>> => Newest'.of = Newest.of /\ Newest'.marked = Newest.marked
  BY <1>1, WorkDone DEF DrawDone
<1>3. next \in {0, 1} /\ Other = 1 - next /\ Other \in Buffer /\ next \in Buffer /\ number \in Int
  BY <1>1, Constants DEF OutputType, Other
<1>4. ASSUME steady >= 3, InTurn
      PROVE  TurnThree' /\ content'[Other] = content[Other] /\ shown.buffer = Other
  <2>1. /\ Idle /\ copies = <<>> /\ ~copying /\ loop # "compose"
        /\ loop = "mark" => Drawn(next, number)
        /\ loop = "present" => IF marked THEN DrawnMarked(next, number) ELSE Drawn(next, number)
    BY <1>1, <1>4 DEF Stages, TurnThree, InTurn
  <2>2. Drawn(next, number) \/ DrawnMarked(next, number)
    BY <1>4, <2>1 DEF InTurn
  <2>3. /\ content'[Other] = content[Other]
        /\ Drawn(next, number) => draws' = <<>> /\ content'[next].of = number
        /\ DrawnMarked(next, number) =>
              \/ /\ Len(draws') = 1 /\ content'[next].of = number
                 /\ draws'[1] = [buffer |-> next, of |-> number, marker |-> TRUE]
              \/ draws' = <<>> /\ content'[next].of = number /\ content'[next].mark = number
    BY <1>1, <1>3, <2>2, DrawnFurther
  <2>4. Drawn(next, number) => Drawn(next, number)'
    BY <1>1, <2>3 DEF Drawn
  <2>5. DrawnMarked(next, number) => DrawnMarked(next, number)'
    BY <1>1, <2>3 DEF DrawnMarked, Holds
  <2>6. TurnThree'
    BY <1>1, <1>2, <1>4, <2>1, <2>4, <2>5 DEF TurnThree, InTurn
  <2> QED BY <2>1, <2>3, <2>6 DEF Idle
<1>5. ASSUME steady >= 3, loop = "wait"
      PROVE  TurnThree' /\ content'[next] = content[next] /\ shown.buffer = next
  <2>1. TurnThree /\ TurnOne
    BY <1>1, <1>5 DEF Stages, OutputType
  <2>2. ~Idle /\ queue # <<>>
    BY <1>1, <1>5, <2>1 DEF TurnOne, AllDone, Waiting, Idle
  <2>3. /\ Len(queue) = 1 /\ shown.buffer = next /\ copies = <<>>
        /\ IF Newest.marked THEN DrawnMarked(Other, Newest.of) ELSE Drawn(Other, Newest.of)
    BY <1>1, <1>5, <2>1, <2>2 DEF TurnThree, Copied, AllDone
  <2>4. Newest.of \in Int
    <3>1. queue \in Seq(Queued) /\ 1 \in 1 .. Len(queue)
      BY <1>1, <2>3 DEF OutputType
    <3>2. queue[1] \in Queued
      BY <3>1, ElementOfSeq
    <3> QED BY <2>3, <3>2 DEF Newest, Queued
  <2> DEFINE of == Newest.of
  <2> HIDE DEF of
  <2>5. of \in Int /\ Newest'.of = of /\ (Drawn(Other, of) \/ DrawnMarked(Other, of))
    BY <1>2, <2>2, <2>3, <2>4 DEF of
  <2>6. /\ content'[next] = content[next]
        /\ Drawn(Other, of) => draws' = <<>> /\ content'[Other].of = of
        /\ DrawnMarked(Other, of) =>
              \/ /\ Len(draws') = 1 /\ content'[Other].of = of
                 /\ draws'[1] = [buffer |-> Other, of |-> of, marker |-> TRUE]
              \/ draws' = <<>> /\ content'[Other].of = of /\ content'[Other].mark = of
    BY <1>1, <1>3, <2>5, DrawnFurther
  <2>7. Drawn(Other, of) => Drawn(Other, Newest.of)'
    BY <1>2, <2>5, <2>6 DEF Drawn
  <2>8. DrawnMarked(Other, of) => DrawnMarked(Other, Newest.of)'
    BY <1>2, <2>5, <2>6 DEF DrawnMarked, Holds
  <2>9. Newest'.marked = Newest.marked /\ copies' = <<>>
    BY <1>1, <1>2, <2>2, <2>3
  <2>10. CASE Newest.marked
    <3>1. DrawnMarked(Other, Newest.of)' /\ Newest'.marked
      BY <2>3, <2>8, <2>9, <2>10 DEF of
    <3> QED BY <1>1, <1>2, <1>5, <2>2, <2>3, <2>6, <2>9, <3>1 DEF TurnThree, InTurn
  <2>11. CASE ~Newest.marked
    <3>1. Drawn(Other, Newest.of)' /\ ~Newest'.marked
      BY <2>3, <2>7, <2>9, <2>11 DEF of
    <3> QED BY <1>1, <1>2, <1>5, <2>2, <2>3, <2>6, <2>9, <3>1 DEF TurnThree, InTurn
  <2> QED BY <2>10, <2>11
<1>6. ASSUME steady >= 4 PROVE TurnFour'
  <2>1. TurnFour /\ steady >= 3 /\ (InTurn \/ loop = "wait")
    BY <1>1, <1>6 DEF Stages, OutputType, InTurn
  <2>2. content'[shown.buffer] = content[shown.buffer]
    BY <1>4, <1>5, <2>1
  <2> QED BY <1>1, <2>1, <2>2 DEF TurnFour, Holds
<1>7. steady >= 3 => TurnThree'
  BY <1>1, <1>4, <1>5 DEF OutputType, InTurn
<1> QED BY <1>1, <1>2, <1>6, <1>7 DEF Stages

\* The display takes a present: after a turn without faults it is one whose work is done, or one
\* that the newest follows on the other buffer.
LEMMA ShowKeeps ==
    ASSUME OutputInv, Show, UNCHANGED outputVars
    PROVE  Stages'
<1>1. /\ OutputType /\ Stages
      /\ UNCHANGED <<number, next, pendingMark, strip, copies, draws, content, loop, copying, marking,
                     marked, steady>>
  BY DEF Show, outputVars, OutputInv
<1>2. PICK i \in DOMAIN queue :
          /\ queue[i].waits = [copies |-> 0, draws |-> 0]
          /\ shown' = [of |-> queue[i].of, buffer |-> queue[i].buffer, marked |-> queue[i].marked]
          /\ queue' = SubSeq(queue, i + 1, Len(queue))
  BY DEF Show
<1>3. /\ queue \in Seq(Queued) /\ copies \in Seq(Work) /\ draws \in Seq(Drawing)
      /\ next \in {0, 1} /\ Other = 1 - next /\ Other' = Other /\ steady \in Nat
  BY <1>1, Constants DEF OutputType, Other
<1>4. /\ Len(queue) \in Nat /\ DOMAIN queue = 1 .. Len(queue) /\ i \in 1 .. Len(queue)
      /\ queue # <<>> /\ ~Idle
  <2>1. Len(queue) \in Nat /\ DOMAIN queue = 1 .. Len(queue) /\ (Len(queue) = 0 <=> queue = <<>>)
    BY <1>3, NoneLeft
  <2> QED BY <1>2, <2>1 DEF Idle
<1>5. /\ queue' \in Seq(Queued) /\ Len(queue') = Len(queue) - i
      /\ \A j \in 1 .. Len(queue) - i : queue'[j] = queue[i + j]
  BY <1>2, <1>3, ShownTaken
<1>6. DOMAIN queue' = 1 .. Len(queue) - i /\ (queue' = <<>> <=> i = Len(queue))
  <2>1. DOMAIN queue' = 1 .. Len(queue') /\ (Len(queue') = 0 <=> queue' = <<>>)
    BY <1>5, NoneLeft
  <2> QED BY <1>4, <1>5, <2>1
<1>7. /\ shown'.of = queue[i].of /\ shown'.buffer = queue[i].buffer
      /\ shown'.marked = queue[i].marked /\ queue[i].buffer \in {0, 1}
  <2>1. queue[i] \in Queued
    BY <1>3, <1>4, ElementOfSeq
  <2> QED BY <1>2, <2>1, Constants DEF Queued
<1>8. i = Len(queue) => queue[i] = Newest
  BY DEF Newest
<1>9. ASSUME Waiting, i = Len(queue)
      PROVE  AllDone /\ Idle'
  <2>1. Len(copies) = 0 /\ Len(draws) = 0
    <3>1. [copies |-> Len(copies), draws |-> Len(draws)] = [copies |-> 0, draws |-> 0]
      BY <1>2, <1>8, <1>9 DEF Waiting
    <3>2. /\ [copies |-> Len(copies), draws |-> Len(draws)].copies = 0
          /\ [copies |-> Len(copies), draws |-> Len(draws)].draws = 0
      BY <3>1
    <3> QED BY <3>2
  <2>2. AllDone
    BY <1>3, <2>1, NoneLeft DEF AllDone
  <2>3. shown'.buffer = Other
    BY <1>7, <1>8, <1>9 DEF Waiting
  <2> QED BY <1>3, <1>6, <1>9, <2>2, <2>3 DEF Idle
<1>10. ASSUME Waiting, i # Len(queue)
       PROVE  Waiting' /\ shown'.buffer = next
  <2>1. queue[i].buffer = next
    BY <1>4, <1>10 DEF Waiting
  <2>2. queue' # <<>> /\ shown'.buffer = next /\ shown'.buffer # Other
    BY <1>3, <1>6, <1>7, <1>10, <2>1
  <2>3. Newest' = Newest
    <3>1. Len(queue) - i \in 1 .. Len(queue) - i /\ i + (Len(queue) - i) = Len(queue)
      BY <1>4, <1>10
    <3>2. queue'[Len(queue) - i] = queue[Len(queue)]
      BY <1>5, <3>1
    <3> QED BY <1>5, <3>2 DEF Newest
  <2>4. Newest'.buffer = Other /\ Newest'.waits = [copies |-> Len(copies), draws |-> Len(draws)]
    BY <1>10, <2>3 DEF Waiting
  <2>5. ASSUME NEW j \in DOMAIN queue', j # Len(queue')
        PROVE  queue'[j].buffer = next
    <3>1. j \in 1 .. Len(queue) - i /\ j # Len(queue) - i
      BY <1>5, <1>6, <2>5
    <3>2. i + j \in 1 .. Len(queue) /\ i + j # Len(queue)
      BY <1>4, <3>1
    <3>3. queue'[j] = queue[i + j]
      BY <1>5, <3>1
    <3> QED BY <1>4, <1>10, <3>2, <3>3 DEF Waiting
  <2> QED BY <1>1, <1>3, <2>2, <2>4, <2>5 DEF Waiting
<1>11. ASSUME loop = "wait", steady >= 1
       PROVE  Waiting
  BY <1>1, <1>4, <1>11 DEF Stages, TurnOne
<1>12. ASSUME InTurn, steady >= 1
       PROVE  \A k \in 1 .. Len(queue) : queue[k].buffer # next
  BY <1>1, <1>4, <1>12 DEF Stages, TurnOne
<1>13. ASSUME steady >= 1 PROVE TurnOne'
  <2>1. CASE InTurn
    <3>1. shown'.buffer # next
      BY <1>4, <1>7, <1>12, <1>13, <2>1
    <3>2. ASSUME NEW j \in DOMAIN queue'
          PROVE  queue'[j].buffer # next
      <4>1. j \in 1 .. Len(queue) - i
        BY <1>6
      <4>2. i + j \in 1 .. Len(queue)
        BY <1>4, <4>1
      <4> QED BY <1>5, <1>12, <1>13, <2>1, <4>1, <4>2
    <3> QED BY <1>1, <2>1, <3>1, <3>2 DEF TurnOne, InTurn
  <2>2. CASE loop = "wait"
    <3>1. (Idle /\ AllDone)' \/ Waiting'
      <4>1. CASE i = Len(queue)
        BY <1>1, <1>9, <1>11, <1>13, <2>2, <4>1 DEF AllDone
      <4>2. CASE i # Len(queue)
        BY <1>10, <1>11, <1>13, <2>2, <4>2
      <4> QED BY <4>1, <4>2
    <3> QED BY <1>1, <2>2, <3>1 DEF TurnOne, InTurn
  <2> QED BY <1>1, <2>1, <2>2 DEF OutputType, InTurn
<1>14. ASSUME steady >= 2 PROVE TurnTwo'
  <2>0. TurnTwo /\ steady >= 1
    BY <1>1, <1>3, <1>14 DEF Stages
  <2>1. CASE InTurn
    <3>1. i = Len(queue)
      BY <1>4, <2>0, <2>1 DEF TurnTwo
    <3>2. shown'.buffer = Other
      BY <1>3, <1>4, <1>7, <1>12, <2>0, <2>1
    <3>3. Idle'
      BY <1>3, <1>6, <3>1, <3>2 DEF Idle
    <3> QED BY <1>1, <2>1, <3>3 DEF TurnTwo, InTurn
  <2>2. CASE loop = "wait"
    <3>1. Waiting
      BY <1>11, <2>0, <2>2
    <3>2. CASE i = Len(queue)
      BY <1>1, <1>9, <2>2, <3>1, <3>2 DEF TurnTwo, InTurn
    <3>3. CASE i # Len(queue)
      <4>0. Len(queue) \in {1, 2}
        BY <1>4, <2>0, <2>2 DEF TurnTwo
      <4>1. Len(queue) = 2 /\ i = 1
        <5>1. i \in 1 .. Len(queue) /\ i # Len(queue)
          BY <1>4, <3>3
        <5>2. CASE Len(queue) = 1
          <6>1. i \in 1 .. 1
            BY <5>1, <5>2
          <6> QED BY <5>1, <5>2, <6>1
        <5>3. CASE Len(queue) = 2
          <6>1. i \in 1 .. 2
            BY <5>1, <5>3
          <6> QED BY <5>1, <5>3, <6>1
        <5> QED BY <4>0, <5>2, <5>3
      <4>2. Len(queue') = 1 /\ shown'.buffer = next'
        BY <1>1, <1>5, <1>10, <3>1, <3>3, <4>1
      <4> QED BY <1>1, <2>2, <4>2 DEF TurnTwo, InTurn
    <3> QED BY <3>2, <3>3
  <2> QED BY <1>1, <2>1, <2>2 DEF OutputType, InTurn
<1>15. ASSUME steady >= 3 PROVE TurnThree' /\ TurnFour'
  <2>1. TurnThree /\ steady >= 1
    BY <1>1, <1>3, <1>15 DEF Stages
  <2>2. loop = "wait" /\ ~InTurn
    BY <1>1, <1>4, <2>1 DEF TurnThree, OutputType, InTurn
  <2>3. Len(queue) = 1 /\ i = Len(queue)
    <3>1. Len(queue) = 1
      BY <1>4, <2>1, <2>2 DEF TurnThree
    <3> QED BY <1>4, <3>1
  <2>4. AllDone /\ Idle' /\ shown'.of = Newest.of /\ shown'.marked = Newest.marked
    BY <1>7, <1>8, <1>9, <1>11, <2>1, <2>2, <2>3
  <2>5. Len(copies) # 1
    BY <1>3, <2>4, NoneLeft DEF AllDone
  <2>6. Len(draws) # 1 /\ Len(draws) # 2
    BY <1>3, <2>4, NoneLeft DEF AllDone
  <2>7. Holds(Other, Newest.of, Newest.marked)
    <3>1. \/ copies = <<>> /\ IF Newest.marked THEN DrawnMarked(Other, Newest.of) ELSE Drawn(Other, Newest.of)
          \/ AllDone /\ Holds(Other, Newest.of, Newest.marked)
      BY <1>4, <2>1, <2>2, <2>5 DEF TurnThree, Copied
    <3>2. CASE Newest.marked /\ DrawnMarked(Other, Newest.of)
      BY <2>6, <3>2 DEF DrawnMarked, Holds
    <3>3. CASE ~Newest.marked /\ Drawn(Other, Newest.of)
      BY <2>6, <3>3 DEF Drawn, Holds
    <3> QED BY <3>1, <3>2, <3>3
  <2>8. Holds(Other, shown.of, shown.marked)'
    BY <1>1, <1>3, <2>4, <2>7 DEF Holds
  <2>9. TurnThree'
    BY <1>1, <2>2, <2>4, <2>8 DEF TurnThree, InTurn
  <2>10. shown'.buffer = Other /\ Other # -1
    BY <1>3, <2>4 DEF Idle
  <2> QED BY <1>3, <2>8, <2>9, <2>10 DEF TurnFour, Holds
<1> QED BY <1>1, <1>3, <1>13, <1>14, <1>15 DEF Stages

-----------------------------------------------------------------------------
\* The theorems.

LEMMA Begins ==
    ASSUME Init
    PROVE  OutputInv
<1>1. /\ <<>> \in Seq(Work) /\ <<>> \in Seq(Drawing) /\ <<>> \in Seq(Queued)
  BY EmptySeq
<1>2. OutputType
  <2>1. strip \in [Buffer -> Int] /\ content \in [Buffer -> [of : Int, mark : Int]]
    BY Constants DEF Init, CopyInit, Blank
  <2>2. shown \in [of : Int, buffer : Buffer \union {-1}, marked : BOOLEAN]
    BY Constants DEF Init, CopyInit
  <2>3. copies \in Seq(Work) /\ draws \in Seq(Drawing) /\ queue \in Seq(Queued)
    BY <1>1 DEF Init, CopyInit
  <2>4. number \in Nat /\ next \in Buffer /\ pendingMark \in Int
    BY Constants DEF Init, CopyInit
  <2>5. /\ loop = "wait" /\ ~copying /\ ~marked /\ steady \in Nat
        /\ copying \in BOOLEAN /\ marking \in BOOLEAN /\ marked \in BOOLEAN
    BY DEF Init
  <2> QED BY <2>1, <2>2, <2>3, <2>4, <2>5 DEF OutputType
<1>3. steady = 0
  BY DEF Init
<1> QED BY <1>2, <1>3 DEF OutputInv, Stages

LEMMA Keeps ==
    ASSUME OutputInv, [Next]_vars
    PROVE  OutputInv'
<1>1. OutputType /\ Stages
  BY DEF OutputInv
<1>2. CASE Next
  <2>1. OutputType'
    BY <1>1, <1>2, TypeKept
  <2>2. CASE BufferBack
    BY <2>1, <2>2, BufferBackKeeps DEF OutputInv
  <2>3. CASE \/ WaitTimesOut \/ ComposeNothing \/ MarkerNotDrawn
             \/ PresentUnready \/ PresentNotCopied
    <3>1. steady' = 0
      BY <2>3 DEF WaitTimesOut, ComposeNothing, MarkerNotDrawn, PresentUnready,
                  PresentNotCopied, Fault
    <3> QED BY <2>1, <3>1, FaultRestarts DEF OutputInv
  <2>4. CASE ComposeCopy \/ ComposeDraw
    BY <2>1, <2>4, ComposeKeeps DEF OutputInv
  <2>6. CASE BurnMarker
    BY <2>1, <2>6, BurnMarkerKeeps DEF OutputInv
  <2>7. CASE PresentFrame
    BY <2>1, <2>7, PresentFrameKeeps DEF OutputInv
  <2>8. CASE CopyDone /\ UNCHANGED outputVars
    BY <2>1, <2>8, CopyDoneKeeps DEF OutputInv
  <2>9. CASE DrawDone /\ UNCHANGED outputVars
    BY <2>1, <2>9, DrawDoneKeeps DEF OutputInv
  <2>10. CASE Show /\ UNCHANGED outputVars
    BY <2>1, <2>10, ShowKeeps DEF OutputInv
  <2> QED BY <1>2, <2>2, <2>3, <2>4, <2>6, <2>7, <2>8, <2>9, <2>10
          DEF Next, PresentThread, Gpu
<1>3. CASE UNCHANGED vars
  <2> USE <1>3 DEF vars, copyVars, outputVars
  <2>1. OutputType'
    BY <1>1 DEF OutputType
  <2>2. Other' = Other /\ (Idle' <=> Idle) /\ (InTurn' <=> InTurn) /\ (AllDone' <=> AllDone)
    BY DEF Other, Idle, InTurn, AllDone
  <2>3. (TurnOne' <=> TurnOne) /\ (TurnTwo' <=> TurnTwo)
    BY <2>2 DEF TurnOne, TurnTwo, Waiting, Newest
  <2>4. (TurnThree' <=> TurnThree) /\ (TurnFour' <=> TurnFour)
    BY <2>2 DEF TurnThree, TurnFour, Drawn, DrawnMarked, Copied, Holds, Newest
  <2> QED BY <1>1, <2>1, <2>3, <2>4 DEF OutputInv, Stages
<1> QED BY <1>2, <1>3

\* After every step of the present thread, the GPU and the display the two buffers are as far back
\* in step as there have been turns since the last fault.
THEOREM OutputInvariant == Spec => []OutputInv
<1>1. Init => OutputInv
  BY Begins
<1>2. OutputInv /\ [Next]_vars => OutputInv'
  BY Keeps
<1> QED BY <1>1, <1>2, PTL DEF Spec

\* Four presents after the last fault, and ever after, the buffer on the display holds the picture
\* of the present that put it there, whatever the GPU and the display are late with.
THEOREM OwnPictureShown == Spec => []ShownOwn
<1>1. OutputInv => ShownOwn
  BY Constants DEF OutputInv, OutputType, Stages, TurnFour, Holds, ShownOwn, Judged, OnDisplay
<1> QED BY <1>1, OutputInvariant, PTL

\* It has that present's own marker, if it was to have one, also where the marker was copied from
\* the strip that the CPU writes.
THEOREM OwnMarkShown == Spec => []MarkOwn
<1>1. OutputInv => MarkOwn
  BY Constants DEF OutputInv, OutputType, Stages, TurnFour, Holds, MarkOwn, Judged, OnDisplay
<1> QED BY <1>1, OutputInvariant, PTL

\* Once a buffer has come back, nothing of an earlier present is still to be read or drawn.
THEOREM NothingUndone == Spec => []ReadsDone
<1>1. OutputInv => ReadsDone
  <2> SUFFICES ASSUME OutputInv, steady >= Settled, loop = "compose"
               PROVE  \A w \in ToSet(copies) \union ToSet(draws) : w.of = (number - 1) % Numbers
    BY DEF ReadsDone
  <2>1. copies = <<>> /\ draws = <<>>
    BY Constants DEF OutputInv, OutputType, Stages, TurnThree, InTurn
  <2>2. ToSet(copies) \union ToSet(draws) = {}
    BY <2>1 DEF ToSet
  <2> QED BY <2>2
<1> QED BY <1>1, OutputInvariant, PTL
=============================================================================
