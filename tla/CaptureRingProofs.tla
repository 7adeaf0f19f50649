--------------------------- MODULE CaptureRingProofs ---------------------------
(***************************************************************************)
(* Proofs about CaptureRing, for every number of slots, every set of       *)
(* launch options and every bound: first which picture a slot shows, then  *)
(* which frames are kept (KeepReal, OneKeptPerBatch, AwaitedIsRecoverable) *)
(* and the refinement of FrameStore.                                       *)
(*                                                                         *)
(* Unlike the picture a slot shows, what is kept is settled by the loop    *)
(* alone, so KeepInv holds after Stop() too.                               *)
(***************************************************************************)
EXTENDS CaptureRing, TLAPS

-----------------------------------------------------------------------------
(* Slots.                                                                  *)

\* A frame's slot is one of the ring's slots.
LEMMA SlotType == ASSUME NEW i \in Int PROVE SlotOf(i) \in Slots
BY RingAssumption DEF SlotOf, Slots

LEMMA DivMod == ASSUME NEW i \in Int
                PROVE  i \div N \in Int /\ i = N * (i \div N) + (i % N)
BY RingAssumption

LEMMA Distribute == ASSUME NEW a \in Int, NEW b \in Int PROVE N * a - N * b = N * (a - b)
BY RingAssumption

LEMMA AtLeastOnce == ASSUME NEW k \in Int, k >= 1 PROVE N * k >= N
BY RingAssumption

LEMMA AtMostZero == ASSUME NEW k \in Int, k <= 0 PROVE N * k <= 0
BY RingAssumption

\* Frames fewer than N apart are in different slots.
LEMMA SlotDistinct == ASSUME NEW i \in Int, NEW j \in Int, i < j, j < i + N
                      PROVE  SlotOf(i) # SlotOf(j)
<1>1. SUFFICES ASSUME i % N = j % N PROVE FALSE
  BY DEF SlotOf
<1> DEFINE k == (j \div N) - (i \div N)
<1>2. i \div N \in Int /\ j \div N \in Int /\ k \in Int /\ N \in Int
  BY DivMod, RingAssumption
<1>3. j - i = N * (j \div N) - N * (i \div N)
  <2>1. i = N * (i \div N) + (i % N)
    BY DivMod
  <2>2. j = N * (j \div N) + (j % N)
    BY DivMod
  <2>3. N * (i \div N) \in Int /\ N * (j \div N) \in Int /\ i % N \in Int
    BY <1>2, RingAssumption
  <2> QED
    BY <1>1, <2>1, <2>2, <2>3
<1>4. j - i = N * k
  BY <1>2, <1>3, Distribute
<1> HIDE DEF k
<1>5. N * k \in Int
  BY <1>2
<1>6. CASE k >= 1
  BY <1>2, <1>4, <1>5, <1>6, AtLeastOnce
<1>7. CASE k <= 0
  BY <1>2, <1>4, <1>5, <1>7, AtMostZero
<1> QED
  BY <1>2, <1>6, <1>7

-----------------------------------------------------------------------------
(* Types.                                                                  *)

\* Landing copies puts pictures into slots.
LEMMA LandedType == ASSUME TypeOK, NEW fin \in SUBSET Buffers
                    PROVE  Landed(fin) \in [Slots -> Pictures]
<1> SUFFICES ASSUME NEW s \in Slots, NEW b \in fin, inFlightSlot[b] = s
             PROVE  buf[CHOOSE c \in fin : inFlightSlot[c] = s] \in Pictures
  BY DEF Landed, TypeOK
<1>1. (CHOOSE c \in fin : inFlightSlot[c] = s) \in fin
  OBVIOUS
<1> QED
  BY <1>1 DEF TypeOK

LEMMA ConfirmedType == ASSUME NEW R \in [Slots -> Slot], NEW busy
                       PROVE  Confirmed(R, busy) \in [Slots -> Slot]
BY DEF Confirmed, Slot

LEMMA TurnOnType == ASSUME NEW R \in [Slots -> Slot], NEW s
                    PROVE  TurnOn(R, s) \in [Slots -> Slot]
BY DEF TurnOn, Slot

LEMMA NotAwaitedType == ASSUME NEW R \in [Slots -> Slot], NEW s
                        PROVE  NotAwaited(R, s) \in [Slots -> Slot]
BY DEF NotAwaited, Slot

LEMMA TakenBackType == ASSUME NEW R \in [Slots -> Slot], NEW s
                       PROVE  TakenBack(R, s) \in [Slots -> Slot]
BY DEF TakenBack, Slot

LEMMA BroughtBackType == ASSUME NEW R \in [Slots -> Slot], NEW s \in Slots, NEW stamp \in Nat
                         PROVE  BroughtBack(R, s, stamp) \in [Slots -> Slot]
BY DEF BroughtBack, Slot

LEMMA StillInFlightType == ASSUME TypeOK, NEW busy
                           PROVE  StillInFlight(busy) \in [Buffers -> Slots \cup {NoSlot}]
BY DEF StillInFlight, TypeOK

LEMMA WaitForType == ASSUME TypeOK, NEW B, NEW fin \in WaitFor(B)
                     PROVE  fin \in SUBSET Buffers /\ fin \subseteq copying
BY DEF WaitFor, TypeOK

LEMMA CopyType == ASSUME TypeOK, NEW b \in Buffers, NEW s \in Slots, NEW done \in BOOLEAN,
                         CopyAndWait(b, s, done)
                  PROVE  px' \in [Slots -> Pictures] /\ copying' \in SUBSET Buffers
<1>1. Landed(copying) \in [Slots -> Pictures]
  BY LandedType DEF TypeOK
<1> QED
  BY <1>1 DEF CopyAndWait, TypeOK, Pictures

LEMMA GrabBufferType == ASSUME TypeOK PROVE GrabBuffer \in Buffers
BY DEF TypeOK, GrabBuffer, Buffers

LEMMA DecideDeferType == ASSUME NEW s \in DeferStates, NEW b \in Batches
                         PROVE  DecideDefer(s, b) \in DeferStates
<1>1. DeferEma(s, b) \in Nat
  BY DEF DeferEma, FoldMembers, DeferStates, Batches
<1>2. DeferThis(s, b) \in BOOLEAN
  BY DEF DeferThis
<1> QED
  BY <1>1, <1>2 DEF DecideDefer, DeferStates, Batches

LEMMA InitType == Init => TypeOK
<1> SUFFICES ASSUME Init PROVE TypeOK
  OBVIOUS
<1>1. mode \in Mode
  BY ModesAssumption DEF Init
<1>2. EmptySlot \in Slot /\ Torn \in Pictures
  BY DEF EmptySlot, Slot, Pictures
<1>3. batch \in Batches /\ defer \in DeferStates
  BY DEF Init, FirstBatch, Batches, NoDefer, DeferStates
<1>4. rot \in [keeper : Int, spacing : {0, 1}, start : Nat, last : Nat]
  BY DEF Init
<1>5. wake \in [waits : BOOLEAN, replaced : Slots \cup {NoSlot}, ready : BOOLEAN]
  BY DEF Init, NoWake
<1>6. ring \in [Slots -> Slot] /\ px \in [Slots -> Pictures]
  BY <1>2 DEF Init
<1>7. bufferIdx \in Buffers /\ pendingBuf \in Buffers /\ copying \in SUBSET Buffers
  BY DEF Init, Buffers
<1>8. buf \in [Buffers -> Pictures] /\ inFlightSlot \in [Buffers -> Slots \cup {NoSlot}]
  BY <1>2 DEF Init
<1>9. wgcPending \in BOOLEAN
  BY <1>1 DEF Init, Mode
<1>10. pc \in Points /\ source \in {"nvfbc", "wgc"}
  BY DEF Init, Points
<1> QED
  BY <1>1, <1>3, <1>4, <1>5, <1>6, <1>7, <1>8, <1>9, <1>10 DEF Init, TypeOK

\* Every step keeps the types.
LEMMA TypeStep == TypeOK /\ [Next]_vars => TypeOK'
<1> SUFFICES ASSUME TypeOK, [Next]_vars PROVE TypeOK'
  OBVIOUS
<1> USE DEF sharedVars, stopVars, policyVars, sourceVars, gpuVars, loopVars
<1>slot. published \in Int /\ SlotOf(published) \in Slots
         /\ SlotOf(published - 1) \in Slots /\ SlotOf(published - 2) \in Slots
  BY SlotType DEF TypeOK
<1>gb. GrabBuffer \in Buffers
  BY GrabBufferType
<1>still. StillInFlight(copying') \in [Buffers -> Slots \cup {NoSlot}]
  BY StillInFlightType
<1>conf. Confirmed(ring, copying') \in [Slots -> Slot]
  BY ConfirmedType DEF TypeOK
<1>1. CASE OpenWgc
  <2>1. CASE UNCHANGED <<sharedVars, sourceVars, gpuVars, source>>
    BY <1>1, <2>1 DEF OpenWgc, TypeOK
  <2>2. CASE /\ pendingSlot = NoSlot
             /\ \E fin \in WaitFor(Buffers) :
                      px' = Landed(fin) /\ copying' = copying \ fin
             /\ ring' = Confirmed(ring, copying')
             /\ inFlightSlot' = StillInFlight(copying')
             /\ source' = "wgc" /\ pendingSlot' = NoSlot
             /\ UNCHANGED <<published, bufferIdx, pendingBuf, buf>>
    <3>1. px' \in [Slots -> Pictures] /\ copying' \in SUBSET Buffers
      BY <2>2, WaitForType, LandedType DEF TypeOK
    <3> QED
      BY <1>1, <2>2, <3>1, <1>still, <1>conf DEF OpenWgc, TypeOK
  <2>3. CASE /\ pendingSlot # NoSlot
             /\ \E done \in BOOLEAN : CopyAndWait(pendingBuf, pendingSlot, done)
             /\ ring' = TurnOn(Confirmed(ring, copying'), pendingSlot)
             /\ inFlightSlot' = StillInFlight(copying')
             /\ source' = "wgc" /\ pendingSlot' = NoSlot
             /\ UNCHANGED <<published, bufferIdx, pendingBuf, buf>>
    <3>1. px' \in [Slots -> Pictures] /\ copying' \in SUBSET Buffers
      BY <2>3, CopyType DEF TypeOK
    <3>2. ring' \in [Slots -> Slot]
      BY <2>3, <1>conf, TurnOnType
    <3> QED
      BY <1>1, <2>3, <3>1, <3>2, <1>still DEF OpenWgc, TypeOK
  <2> QED
    BY <1>1, <2>1, <2>2, <2>3 DEF OpenWgc
<1>2. CASE BeginGrab
  <2>1. px' \in [Slots -> Pictures] /\ copying' \in SUBSET Buffers
    BY <1>2, WaitForType, LandedType DEF BeginGrab, TypeOK
  <2> QED
    BY <1>2, <2>1, <1>still, <1>conf, <1>gb DEF BeginGrab, TypeOK, Pictures, Points
<1>3. CASE GrabFrame
  <2>1. batch' \in Batches
    BY <1>3 DEF GrabFrame, UpdateBatch, Batches, TypeOK
  <2>2. ring' \in [Slots -> Slot] /\ inFlightSlot' \in [Buffers -> Slots \cup {NoSlot}]
    BY <1>3, ConfirmedType, StillInFlightType DEF GrabFrame, TypeOK
  <2> QED
    BY <1>3, <2>1, <2>2, <1>gb DEF GrabFrame, TypeOK, Pictures, Points, NoWake
<1>4. CASE GrabTimeout
  <2>1. /\ px' \in [Slots -> Pictures] /\ copying' \in SUBSET Buffers
        /\ ring' \in [Slots -> Slot] /\ pendingSlot' \in Slots \cup {NoSlot}
    <3>1. CASE defer.pending /\ pendingSlot # NoSlot /\ DeferOn
      BY <1>4, <3>1, CopyType, TurnOnType, <1>conf DEF GrabTimeout, TypeOK
    <3>2. CASE ~(defer.pending /\ pendingSlot # NoSlot /\ DeferOn)
      BY <1>4, <3>2, WaitForType, LandedType, <1>conf DEF GrabTimeout, TypeOK
    <3> QED
      BY <3>1, <3>2
  <2>2. defer' \in DeferStates
    BY <1>4 DEF GrabTimeout, TypeOK, DeferStates
  <2> QED
    BY <1>4, <2>1, <2>2, <1>still DEF GrabTimeout, TypeOK, Points
<1>5. CASE GrabFailed \/ GrabLost \/ LoopExit
  BY <1>5 DEF GrabFailed, GrabLost, LoopExit, TypeOK, Points
<1>6. CASE Place
  <2>0. \A x \in Slots \cup {NoSlot} :
            /\ [NoWake EXCEPT !.waits = DeferThis(defer, batch)]
                  \in [waits : BOOLEAN, replaced : Slots \cup {NoSlot}, ready : BOOLEAN]
            /\ [NoWake EXCEPT !.waits = DeferThis(defer, batch), !.replaced = x]
                  \in [waits : BOOLEAN, replaced : Slots \cup {NoSlot}, ready : BOOLEAN]
    BY DEF DeferThis, NoWake
  <2>1. /\ ring' \in [Slots -> Slot] /\ px' \in [Slots -> Pictures]
        /\ copying' \in SUBSET Buffers /\ pendingSlot' \in Slots \cup {NoSlot}
        /\ wake' \in [waits : BOOLEAN, replaced : Slots \cup {NoSlot}, ready : BOOLEAN]
        /\ defer' \in DeferStates
    <3>1. CASE ~(source = "nvfbc" /\ DeferOn)
      BY <1>6, <3>1 DEF Place, TypeOK
    <3>2. CASE source = "nvfbc" /\ DeferOn
      <4>1. defer' \in DeferStates
        BY <1>6, <3>2, DecideDeferType DEF Place, TypeOK
      <4>2. CASE defer.pending /\ pendingSlot # NoSlot /\ CopyPending(defer, batch)
        <5>1. px' \in [Slots -> Pictures] /\ copying' \in SUBSET Buffers
          BY <1>6, <3>2, <4>2, CopyType DEF Place, TypeOK
        <5>2. ring' \in [Slots -> Slot]
          BY <1>6, <3>2, <4>2, TurnOnType DEF Place, TypeOK
        <5> QED
          BY <1>6, <3>2, <4>1, <4>2, <2>0, <5>1, <5>2 DEF Place, TypeOK
      <4>3. CASE ~(defer.pending /\ pendingSlot # NoSlot /\ CopyPending(defer, batch))
        BY <1>6, <3>2, <4>1, <4>3, <2>0 DEF Place, TypeOK
      <4> QED
        BY <4>2, <4>3
    <3> QED
      BY <3>1, <3>2
  <2> QED
    BY <1>6, <2>1 DEF Place, TypeOK, Points
<1>7. CASE Store
  <2>1. Landed(copying) \in [Slots -> Pictures]
    BY LandedType DEF TypeOK
  <2>2. px' \in [Slots -> Pictures] /\ copying' \in SUBSET Buffers
    <3>1. CASE \E done \in BOOLEAN : CopyAndWait(GrabBuffer, SlotOf(published), done)
      BY <3>1, CopyType, <1>gb, <1>slot
    <3>2. CASE px' = [px EXCEPT ![SlotOf(published)] = published] /\ UNCHANGED copying
      BY <3>2, <1>slot DEF TypeOK, Pictures
    <3>3. CASE px' = [Landed(copying) EXCEPT ![SlotOf(published)] = buf[GrabBuffer]]
               /\ copying' = {}
      BY <3>3, <1>slot, <1>gb, <2>1 DEF TypeOK
    <3>4. CASE px' = [px EXCEPT ![SlotOf(published)] = Torn]
               /\ copying' = copying \cup {bufferIdx}
      BY <3>4, <1>slot DEF TypeOK, Pictures
    <3> QED
      BY <1>7, <3>1, <3>2, <3>3, <3>4 DEF Store
  <2>3. ring' \in [Slots -> Slot]
    <3>1. [ring EXCEPT ![SlotOf(published)].copyInFlight = TRUE] \in [Slots -> Slot]
      BY DEF TypeOK, Slot
    <3> QED
      BY <1>7, <3>1 DEF Store, TypeOK
  <2>4. inFlightSlot' \in [Buffers -> Slots \cup {NoSlot}]
    BY <1>7, <1>slot DEF Store, TypeOK
  <2>5. wake' \in [waits : BOOLEAN, replaced : Slots \cup {NoSlot}, ready : BOOLEAN]
    BY <1>7 DEF Store, TypeOK
  <2> QED
    BY <1>7, <2>2, <2>3, <2>4, <2>5 DEF Store, TypeOK, Points
<1>8. CASE OpenBatch
  <2>1. /\ ring' \in [Slots -> Slot]
        /\ rot' \in [keeper : Int, spacing : {0, 1}, start : Nat, last : Nat]
    <3>1. CASE ~(batch.member = 0 /\ mode.phaseKeep)
      BY <1>8, <3>1 DEF OpenBatch, TypeOK
    <3>2. CASE batch.member = 0 /\ mode.phaseKeep
      <4>1. rot.start + rot.spacing \in Nat /\ batch.start \in Nat
        BY DEF TypeOK, Batches
      <4>2. ring' \in [Slots -> Slot]
        <5>1. BroughtBack(ring, SlotOf(published - 1), rot.start + rot.spacing)
                  \in [Slots -> Slot]
          BY <4>1, <1>slot, BroughtBackType DEF TypeOK
        <5> QED
          BY <1>8, <3>2, <5>1 DEF OpenBatch, TypeOK
      <4>3. -1 .. MaxMembers \subseteq Int
        OBVIOUS
      <4> QED
        BY <1>8, <3>2, <4>1, <4>2, <4>3 DEF OpenBatch, TypeOK
    <3> QED
      BY <3>1, <3>2
  <2> QED
    BY <1>8, <2>1 DEF OpenBatch, TypeOK, Points
<1>9. CASE Publish
  <2>1. StampOf(batch, rot.spacing) \in Nat /\ KeepThis(batch, rot.keeper) \in BOOLEAN
    <3>1. rot.spacing = 0 \/ rot.spacing = 1
      BY DEF TypeOK
    <3> QED
      BY <3>1 DEF TypeOK, Batches, StampOf, KeepThis
  <2>2. ring' \in [Slots -> Slot]
    BY <1>9, <2>1, <1>slot DEF Publish, TypeOK, Slot, Batches
  <2> QED
    BY <1>9, <2>2 DEF Publish, TypeOK, Points, Batches
<1>10. CASE Settle
  <2>1. ring' \in [Slots -> Slot]
    BY <1>10, NotAwaitedType, TakenBackType DEF Settle, TypeOK
  <2>2. pendingSlot' \in Slots \cup {NoSlot} /\ pendingBuf' \in Buffers
    BY <1>10, <1>slot, <1>gb DEF Settle, TypeOK
  <2>3. bufferIdx' \in Buffers
    BY <1>10 DEF Settle, TypeOK, Buffers
  <2> QED
    BY <1>10, <2>1, <2>2, <2>3 DEF Settle, TypeOK, Points
<1>11. CASE GpuDone
  BY <1>11, LandedType DEF GpuDone, TypeOK
<1>12. CASE AskStop \/ Joined \/ UNCHANGED vars
  BY <1>12 DEF AskStop, Joined, vars, TypeOK
<1> QED
  BY <1>1, <1>2, <1>3, <1>4, <1>5, <1>6, <1>7, <1>8, <1>9, <1>10, <1>11, <1>12 DEF Next, Wake

\* TypeOK holds in every reachable state: no slot field, picture or source
\* index ever leaves its range.
THEOREM TypeCorrect == Spec => []TypeOK
<1>1. Init => TypeOK
  BY InitType
<1>2. TypeOK /\ [Next]_vars => TypeOK'
  BY TypeStep
<1> QED
  BY <1>1, <1>2, PTL DEF Spec

-----------------------------------------------------------------------------
(* What a picture's way into its slot does to the window.                  *)

\* The frames of the window and the one in hand are in different slots.
LEMMA WindowApart ==
    ASSUME TypeOK
    PROVE  /\ Window \subseteq Int
           /\ \A i \in Window \cup {published} : SlotOf(i) \in Slots
           /\ \A i, j \in Window \cup {published} : SlotOf(i) = SlotOf(j) => i = j
<1>1. Window \subseteq Int /\ published \in Int
  BY DEF Window, TypeOK
<1>2. ASSUME NEW i \in Window \cup {published}, NEW j \in Window \cup {published},
             SlotOf(i) = SlotOf(j)
      PROVE  i = j
  <2>1. i \in Int /\ j \in Int /\ i < j + N /\ j < i + N
    BY <1>1, RingAssumption DEF Window
  <2> QED
    BY <1>2, <2>1, SlotDistinct
<1> QED
  BY <1>1, <1>2, SlotType

\* The two newest frames are in the window.
LEMMA NewestInWindow ==
    ASSUME TypeOK
    PROVE  /\ published > 0 => published - 1 \in Window
           /\ published > 1 => published - 2 \in Window
BY RingAssumption DEF TypeOK, Window

\* The two buffers' copies are on their way to different slots.
LEMMA FlightApart ==
    ASSUME TypeOK, FlightInv
    PROVE  /\ \A b \in Buffers : inFlightSlot[b] # NoSlot =>
                 Flying(b) \in Window \cup {published}
           /\ \A b, c \in Buffers :
                 inFlightSlot[b] # NoSlot /\ inFlightSlot[b] = inFlightSlot[c] => b = c
<1>1. \A b \in Buffers : inFlightSlot[b] # NoSlot =>
          Flying(b) \in {published, published - 1, published - 2} /\ Flying(b) >= 0
  BY DEF FlightInv, Flying
<1>2. \A b \in Buffers : inFlightSlot[b] # NoSlot => Flying(b) \in Window \cup {published}
  BY <1>1, NewestInWindow DEF TypeOK
<1>3. ASSUME NEW b \in Buffers, NEW c \in Buffers, inFlightSlot[b] # NoSlot,
             inFlightSlot[b] = inFlightSlot[c]
      PROVE  b = c
  <2>1. Flying(b) = Flying(c)
    BY <1>2, <1>3, WindowApart DEF FlightInv
  <2>2. bufferIdx \in Buffers /\ published \in Int
    BY DEF TypeOK
  <2>3. b # c => Flying(b) # Flying(c)
    BY <2>2 DEF Flying, Buffers
  <2> QED
    BY <2>1, <2>3
<1> QED
  BY <1>2, <1>3

\* A landed copy leaves its buffer's picture in its slot, and no other slot changes.
LEMMA LandedAt ==
    ASSUME TypeOK, FlightInv, NEW fin, fin \subseteq copying, NEW s \in Slots
    PROVE  /\ \A b \in fin : inFlightSlot[b] = s => Landed(fin)[s] = buf[b]
           /\ (\A b \in fin : inFlightSlot[b] # s) => Landed(fin)[s] = px[s]
<1>1. ASSUME NEW b \in fin, inFlightSlot[b] = s PROVE Landed(fin)[s] = buf[b]
  <2>1. s # NoSlot /\ fin \subseteq Buffers
    BY DEF Slots, NoSlot, TypeOK
  <2>2. (CHOOSE c \in fin : inFlightSlot[c] = s) = b
    BY <1>1, <2>1, FlightApart
  <2> QED
    BY <1>1, <2>2 DEF Landed
<1>2. ASSUME \A b \in fin : inFlightSlot[b] # s PROVE Landed(fin)[s] = px[s]
  BY <1>2 DEF Landed
<1> QED
  BY <1>1, <1>2

\* While no frame is being stored or counted, every copy on its way is that of
\* one of the two newest frames.
LEMMA FlyingOld ==
    ASSUME TypeOK, FlightInv, pc \notin {"open", "publish", "settle"},
           NEW b \in Buffers, inFlightSlot[b] # NoSlot
    PROVE  /\ Flying(b) \in Window
           /\ Flying(b) # published
           /\ Flying(b) = IF b = bufferIdx THEN published - 2 ELSE published - 1
<1>1. Flying(b) = IF b = bufferIdx THEN published - 2 ELSE published - 1
  BY DEF Flying
<1> QED
  BY <1>1, FlightApart DEF TypeOK

\* Waiting for copies and turning their slots on keeps the window right.
LEMMA LandShown ==
    ASSUME TypeOK, FlightInv, WindowInv, pc \notin {"open", "publish", "settle"},
           NEW fin, fin \subseteq copying, NEW i \in Window
    PROVE  LET S == Confirmed(ring, copying \ fin)[SlotOf(i)]
           IN /\ S.batchStart + S.member = i
              /\ S.valid \/ ~DeferOn => Landed(fin)[SlotOf(i)] = i
<1> DEFINE s == SlotOf(i)
           S == Confirmed(ring, copying \ fin)[s]
<1>1. s \in Slots /\ ring[s] \in Slot /\ s # NoSlot
  BY WindowApart DEF TypeOK, Slots, NoSlot
<1>2. S.batchStart = ring[s].batchStart /\ S.member = ring[s].member
  BY <1>1 DEF Confirmed, Slot
<1>3. CASE \E b \in Buffers : inFlightSlot[b] = s
  <2>1. PICK b \in Buffers : inFlightSlot[b] = s
    BY <1>3
  <2>2. Flying(b) = i
    BY <1>1, <2>1, FlyingOld, WindowApart DEF FlightInv
  <2>3. b \notin copying \ fin => Landed(fin)[s] = i
    <3>1. CASE b \in fin
      BY <1>1, <2>1, <2>2, <3>1, LandedAt DEF FlightInv
    <3>2. CASE b \notin copying
      <4>1. \A c \in fin : inFlightSlot[c] # s
        BY <1>1, <2>1, <3>2, FlightApart DEF TypeOK
      <4>2. px[s] = i
        BY <1>1, <2>1, <2>2, <3>2 DEF FlightInv
      <4> QED
        BY <1>1, <4>1, <4>2, LandedAt
    <3> QED
      BY <3>1, <3>2
  <2>4. b \in copying \ fin => ~S.valid /\ DeferOn
    <3> SUFFICES ASSUME b \in copying \ fin PROVE ~S.valid /\ DeferOn
      OBVIOUS
    <3>1. ~ring[s].valid /\ DeferOn
      BY <1>1, <2>1, <2>2, FlyingOld DEF FlightInv
    <3>2. ~\E c \in Buffers \ (copying \ fin) : inFlightSlot[c] = s
      BY <1>1, <2>1, FlightApart
    <3>3. S = ring[s]
      BY <1>1, <3>2 DEF Confirmed
    <3> QED
      BY <3>1, <3>3
  <2> QED
    BY <1>2, <2>3, <2>4 DEF WindowInv, At
<1>4. CASE ~\E b \in Buffers : inFlightSlot[b] = s
  <2>1. S = ring[s]
    BY <1>1, <1>4 DEF Confirmed
  <2>2. Landed(fin)[s] = px[s]
    BY <1>1, <1>4, LandedAt DEF TypeOK
  <2> QED
    BY <2>1, <2>2 DEF WindowInv, At
<1> QED
  BY <1>3, <1>4

\* A copy that is still on its way keeps its slot as it was.
LEMMA BusyKept ==
    ASSUME TypeOK, FlightInv, NEW busy, busy \subseteq copying, NEW b \in busy
    PROVE  Confirmed(ring, busy)[inFlightSlot[b]] = ring[inFlightSlot[b]]
<1>1. inFlightSlot[b] \in Slots /\ inFlightSlot[b] # NoSlot /\ b \in Buffers
  BY DEF FlightInv, TypeOK
<1>2. ~\E c \in Buffers \ busy : inFlightSlot[c] = inFlightSlot[b]
  BY <1>1, FlightApart
<1> QED
  BY <1>1, <1>2 DEF Confirmed

-----------------------------------------------------------------------------
(* The inductive invariant, action by action, while the present thread has *)
(* not stopped the capture.  Until then m_stop is off in the loop, so every *)
(* wait for a copy runs to its end.                                        *)

\* Landing copies and turning their slots on keeps FlightInv.
LEMMA LandFlight ==
    ASSUME TypeOK, FlightInv, pc \in {"wait", "grab"}, pc' \in {"wait", "grab", "place"},
           NEW fin, fin \subseteq copying,
           px' = Landed(fin), copying' = copying \ fin, ring' = Confirmed(ring, copying'),
           inFlightSlot' = StillInFlight(copying'),
           UNCHANGED <<mode, published, bufferIdx, source>>,
           \A b \in copying' : buf'[b] = buf[b],
           pc' # "wait" => bufferIdx \notin copying'
    PROVE  FlightInv'
<1>1. \A b \in Buffers : inFlightSlot'[b] # NoSlot =>
          b \in copying' /\ inFlightSlot'[b] = inFlightSlot[b]
  BY DEF StillInFlight
<1>2. \A b \in copying' : inFlightSlot'[b] = inFlightSlot[b] /\ inFlightSlot[b] # NoSlot
  BY DEF StillInFlight, FlightInv, TypeOK
<1>3. \A b \in Buffers : Flying(b)' = Flying(b)
  BY DEF Flying
<1>4. pc' \in {"grab", "place", "store"} => inFlightSlot'[bufferIdx'] = NoSlot
  BY <1>1 DEF TypeOK
<1>5. ASSUME NEW b \in Buffers, inFlightSlot'[b] # NoSlot
      PROVE  /\ DeferOn' /\ source' = "nvfbc"
             /\ Flying(b)' >= 0
             /\ inFlightSlot'[b] = SlotOf(Flying(b))'
             /\ b \in copying' /\ buf'[b] = Flying(b)'
             /\ Flying(b)' # published' /\ ~ring'[inFlightSlot'[b]].valid
  <2>1. b \in copying /\ inFlightSlot[b] # NoSlot /\ inFlightSlot'[b] = inFlightSlot[b]
    BY <1>1, <1>5
  <2>2. ring'[inFlightSlot[b]] = ring[inFlightSlot[b]]
    BY <1>1, <1>5, BusyKept
  <2>3. Flying(b) # published
    BY <2>1, FlyingOld
  <2>4. SlotOf(Flying(b))' = SlotOf(Flying(b))
    BY <1>3 DEF SlotOf
  <2> QED
    BY <1>1, <1>3, <1>5, <2>1, <2>2, <2>3, <2>4 DEF FlightInv, DeferOn
<1>6. copying' \subseteq {b \in Buffers : inFlightSlot'[b] # NoSlot}
  BY <1>2 DEF TypeOK
<1> QED
  BY <1>4, <1>5, <1>6 DEF FlightInv

\* Landing copies keeps WindowInv.
LEMMA LandWindow ==
    ASSUME TypeOK, FlightInv, WindowInv, pc \notin {"open", "publish", "settle"},
           NEW fin, fin \subseteq copying,
           px' = Landed(fin), ring' = Confirmed(ring, copying \ fin), UNCHANGED <<mode, published>>
    PROVE  WindowInv'
<1>1. Window' = Window /\ DeferOn' = DeferOn
  BY DEF Window, DeferOn
<1>2. \A i \in Window : SlotOf(i)' = SlotOf(i)
  BY DEF SlotOf
<1> QED
  BY <1>1, <1>2, LandShown DEF WindowInv, At

\* Waiting for every copy and copying the frame left waiting.
LEMMA CopyWindow ==
    ASSUME TypeOK, FlightInv, WindowInv, PendingInv, pc \notin {"open", "publish", "settle"},
           pendingSlot # NoSlot,
           CopyAndWait(pendingBuf, pendingSlot, TRUE),
           \/ ring' = TurnOn(Confirmed(ring, copying'), pendingSlot)
           \/ ring' = TurnOn(ring, pendingSlot) /\ \A b \in Buffers : inFlightSlot[b] = NoSlot,
           UNCHANGED <<mode, published>>
    PROVE  WindowInv'
<1>1. Window' = Window /\ DeferOn' = DeferOn
  BY DEF Window, DeferOn
<1>2. /\ px' = [Landed(copying) EXCEPT ![pendingSlot] = buf[pendingBuf]]
      /\ copying' = {}
  BY DEF CopyAndWait
<1>3. pendingSlot = SlotOf(published - 1) /\ published - 1 \in Window /\ pendingSlot \in Slots
      /\ buf[pendingBuf] = published - 1
  BY NewestInWindow, WindowApart DEF PendingInv
<1>4. ring' = TurnOn(Confirmed(ring, {}), pendingSlot)
  <2>1. CASE \A b \in Buffers : inFlightSlot[b] = NoSlot
    <3>1. \A s \in Slots : s # NoSlot
      BY DEF Slots, NoSlot
    <3>2. Confirmed(ring, {}) = ring
      BY <2>1, <3>1 DEF Confirmed, TypeOK
    <3> QED
      BY <1>2, <3>2
  <2> QED
    BY <1>2, <2>1
<1>5. ASSUME NEW i \in Window
      PROVE  /\ ring'[SlotOf(i)].batchStart + ring'[SlotOf(i)].member = i
             /\ ring'[SlotOf(i)].valid \/ ~DeferOn => px'[SlotOf(i)] = i
  <2> DEFINE R == Confirmed(ring, {})
  <2>1. SlotOf(i) \in Slots /\ R \in [Slots -> Slot] /\ Landed(copying) \in [Slots -> Pictures]
    BY WindowApart, ConfirmedType, LandedType DEF TypeOK
  <2>2. /\ R[SlotOf(i)].batchStart + R[SlotOf(i)].member = i
        /\ R[SlotOf(i)].valid \/ ~DeferOn => Landed(copying)[SlotOf(i)] = i
    <3>1. copying \ copying = {}
      OBVIOUS
    <3> QED
      BY <3>1, LandShown
  <2> HIDE DEF R
  <2>3. CASE i = published - 1
    <3>1. px'[SlotOf(i)] = i
      BY <1>2, <1>3, <2>1, <2>3
    <3>2. ring'[SlotOf(i)].batchStart = R[SlotOf(i)].batchStart
          /\ ring'[SlotOf(i)].member = R[SlotOf(i)].member
      BY <1>3, <1>4, <2>1, <2>3 DEF TurnOn, R, Slot
    <3> QED
      BY <2>2, <3>1, <3>2
  <2>4. CASE i # published - 1
    <3>1. SlotOf(i) # pendingSlot
      BY <1>3, <2>4, WindowApart
    <3>2. ring'[SlotOf(i)] = R[SlotOf(i)] /\ px'[SlotOf(i)] = Landed(copying)[SlotOf(i)]
      BY <1>2, <1>4, <2>1, <3>1 DEF TurnOn, R
    <3> QED
      BY <2>2, <3>2
  <2> QED
    BY <2>3, <2>4
<1>6. \A i \in Window : SlotOf(i)' = SlotOf(i)
  BY DEF SlotOf
<1> QED
  BY <1>1, <1>5, <1>6 DEF WindowInv, At

\* Before Stop(), a wait for copies has one outcome: they are done.
LEMMA WaitEnds == ASSUME ~stop, NEW B, NEW fin \in WaitFor(B) PROVE fin = copying \cap B
BY DEF WaitFor

LEMMA OpenWgcStep == ASSUME TypeOK, CaptureInv, OpenWgc PROVE CaptureInv'
<1> USE DEF sharedVars, stopVars, policyVars, sourceVars, gpuVars, loopVars
<1>0. /\ pc = "wait" /\ pc' = "wait" /\ ~stop
      /\ UNCHANGED <<mode, published, batch, bufferIdx, buf, wake>>
  BY DEF OpenWgc
<1>1. CASE UNCHANGED <<sharedVars, sourceVars, gpuVars, source>>
  <2>1. defer' = defer
    BY DEF OpenWgc
  <2>2. BatchInv' /\ WindowInv'
    BY <1>0, <1>1 DEF CaptureInv, BatchInv, WindowInv, Window, At, SlotOf, DeferOn
  <2>3. FlightInv' /\ PendingInv' /\ HandInv'
    BY <1>0, <1>1, <2>1 DEF CaptureInv, FlightInv, Flying, PendingInv, HandInv, SlotOf, DeferOn
  <2> QED
    BY <2>2, <2>3 DEF CaptureInv
<1>2. CASE source' = "wgc" /\ ~UNCHANGED <<sharedVars, sourceVars, gpuVars, source>>
  <2>1. inFlightSlot' = StillInFlight(copying') /\ pendingSlot' = NoSlot
    BY <1>2 DEF OpenWgc
  <2>2. WindowInv' /\ copying' = {}
    <3>1. CASE pendingSlot = NoSlot
      <4>1. PICK fin \in WaitFor(Buffers) : px' = Landed(fin) /\ copying' = copying \ fin
        BY <1>2, <3>1 DEF OpenWgc
      <4>2. fin = copying
        BY <1>0, <4>1, WaitEnds DEF TypeOK
      <4>3. ring' = Confirmed(ring, copying \ fin)
        BY <1>2, <3>1, <4>1 DEF OpenWgc
      <4> QED
        BY <1>0, <4>1, <4>2, <4>3, LandWindow DEF CaptureInv
    <3>2. CASE pendingSlot # NoSlot
      <4>1. CopyAndWait(pendingBuf, pendingSlot, TRUE)
        BY <1>0, <1>2, <3>2 DEF OpenWgc, CopyAndWait
      <4>2. ring' = TurnOn(Confirmed(ring, copying'), pendingSlot)
        BY <1>2, <3>2 DEF OpenWgc
      <4>3. copying' = {}
        BY <4>1 DEF CopyAndWait
      <4> QED
        BY <1>0, <3>2, <4>1, <4>2, <4>3, CopyWindow DEF CaptureInv
    <3> QED
      BY <3>1, <3>2
  <2>3. \A b \in Buffers : inFlightSlot'[b] = NoSlot
    BY <2>1, <2>2 DEF StillInFlight
  <2>4. FlightInv' /\ PendingInv' /\ HandInv' /\ BatchInv'
    BY <1>0, <2>1, <2>2, <2>3 DEF CaptureInv, FlightInv, PendingInv, HandInv, BatchInv
  <2> QED
    BY <2>2, <2>4 DEF CaptureInv
<1> QED
  BY <1>1, <1>2 DEF OpenWgc

LEMMA BeginGrabStep == ASSUME TypeOK, CaptureInv, BeginGrab PROVE CaptureInv'
<1> USE DEF sharedVars, stopVars, policyVars, sourceVars, gpuVars, loopVars
<1>0. /\ pc = "wait" /\ pc' = "grab" /\ ~stop
      /\ UNCHANGED <<mode, published, batch, bufferIdx, source, wake, pendingSlot, pendingBuf,
                     defer>>
      /\ ring' = Confirmed(ring, copying') /\ inFlightSlot' = StillInFlight(copying')
  BY DEF BeginGrab
<1>1. PICK fin \in WaitFor({bufferIdx}) : px' = Landed(fin) /\ copying' = copying \ fin
  BY DEF BeginGrab
<1>2. fin \subseteq copying /\ bufferIdx \notin copying'
  BY <1>0, <1>1, WaitEnds
<1>3. WindowInv'
  BY <1>0, <1>1, <1>2, LandWindow DEF CaptureInv
<1>4. \A b \in Buffers : b # bufferIdx /\ DeferOn => buf'[b] = buf[b]
  BY DEF BeginGrab, GrabBuffer, TypeOK
<1>5. \A b \in copying' : buf'[b] = buf[b]
  BY <1>0, <1>1, <1>2, <1>4 DEF CaptureInv, FlightInv, TypeOK
<1>6. FlightInv'
  BY <1>0, <1>1, <1>2, <1>5, LandFlight DEF CaptureInv
<1>7. PendingInv'
  <2> SUFFICES ASSUME pendingSlot # NoSlot PROVE PendingInv'
    BY <1>0 DEF PendingInv
  <2>1. /\ pendingSlot = SlotOf(published - 1) /\ pendingSlot \in Slots
        /\ pendingBuf \in Buffers /\ pendingBuf = 1 - bufferIdx /\ pendingBuf # bufferIdx
        /\ published - 1 \in Window
    BY NewestInWindow DEF CaptureInv, PendingInv, TypeOK, Buffers
  <2>2. \A b \in Buffers : inFlightSlot[b] # pendingSlot
    <3> SUFFICES ASSUME NEW b \in Buffers, inFlightSlot[b] = pendingSlot PROVE FALSE
      OBVIOUS
    <3>1. b = bufferIdx /\ inFlightSlot[b] # NoSlot
      BY <2>1 DEF CaptureInv, PendingInv, Buffers, TypeOK
    <3>2. Flying(b) = published - 2 /\ Flying(b) \in Window
      BY <1>0, <3>1, FlyingOld DEF CaptureInv
    <3>3. SlotOf(Flying(b)) = pendingSlot
      BY <3>1 DEF CaptureInv, FlightInv
    <3> QED
      BY <2>1, <3>2, <3>3, WindowApart DEF TypeOK
  <2>3. ring'[pendingSlot] = ring[pendingSlot]
    BY <1>0, <2>1, <2>2 DEF Confirmed
  <2>4. inFlightSlot'[pendingBuf] = NoSlot
    BY <1>0, <2>1 DEF StillInFlight, CaptureInv, PendingInv
  <2>5. buf'[pendingBuf] = buf[pendingBuf]
    BY <1>4, <2>1 DEF CaptureInv, PendingInv
  <2> QED
    BY <1>0, <2>3, <2>4, <2>5 DEF CaptureInv, PendingInv, DeferOn, SlotOf
<1>8. BatchInv' /\ HandInv'
  BY <1>0 DEF CaptureInv, BatchInv, HandInv
<1> QED
  BY <1>3, <1>6, <1>7, <1>8 DEF CaptureInv

LEMMA GrabFrameStep == ASSUME TypeOK, CaptureInv, GrabFrame PROVE CaptureInv'
<1>0. /\ pc = "grab" /\ pc' = "place" /\ wake' = NoWake
      /\ UNCHANGED <<mode, px, published, defer, bufferIdx, source, pendingSlot, pendingBuf,
                     copying>>
      /\ ring' = Confirmed(ring, copying') /\ inFlightSlot' = StillInFlight(copying')
  BY DEF GrabFrame
<1>1. px' = Landed({}) /\ copying' = copying \ {}
  BY <1>0 DEF Landed, TypeOK
<1>2. bufferIdx \notin copying'
  BY <1>0 DEF CaptureInv, FlightInv
<1>3. WindowInv'
  BY <1>0, <1>1, LandWindow DEF CaptureInv
<1>4. \A b \in Buffers : b # bufferIdx /\ DeferOn => buf'[b] = buf[b]
  BY DEF GrabFrame, GrabBuffer, TypeOK
<1>5. \A b \in copying' : buf'[b] = buf[b]
  BY <1>0, <1>2, <1>4 DEF CaptureInv, FlightInv, TypeOK
<1>6. FlightInv'
  BY <1>0, <1>1, <1>2, <1>5, LandFlight DEF CaptureInv
<1>7. PendingInv'
  <2> SUFFICES ASSUME pendingSlot # NoSlot PROVE PendingInv'
    BY <1>0 DEF PendingInv
  <2>1. /\ pendingSlot \in Slots /\ pendingSlot = SlotOf(published - 1)
        /\ pendingBuf \in Buffers /\ pendingBuf = 1 - bufferIdx /\ pendingBuf # bufferIdx
    BY DEF CaptureInv, PendingInv, TypeOK, Buffers
  <2>2. \A b \in Buffers : inFlightSlot[b] = NoSlot
    BY <1>0, <2>1 DEF CaptureInv, PendingInv, FlightInv, TypeOK, Buffers
  <2>3. ring'[pendingSlot] = ring[pendingSlot]
    BY <1>0, <2>1, <2>2 DEF Confirmed, Slots, NoSlot
  <2>4. inFlightSlot'[pendingBuf] = NoSlot
    BY <1>0, <2>1, <2>2 DEF StillInFlight
  <2>5. buf'[pendingBuf] = buf[pendingBuf]
    BY <1>4, <2>1 DEF CaptureInv, PendingInv
  <2> QED
    BY <1>0, <2>3, <2>4, <2>5 DEF CaptureInv, PendingInv, DeferOn, SlotOf
<1>8. BatchInv'
  <2>1. PICK intra, long \in BOOLEAN : /\ intra => published > 0
                                       /\ batch' = UpdateBatch(batch, published, intra, long)
    BY DEF GrabFrame
  <2>2. CASE intra
    BY <1>0, <2>1, <2>2 DEF UpdateBatch, CaptureInv, BatchInv, TypeOK, Batches
  <2>3. CASE ~intra
    BY <1>0, <2>1, <2>3 DEF UpdateBatch, BatchInv, TypeOK
  <2> QED
    BY <2>2, <2>3
<1>9. HandInv'
  <2>1. source = "nvfbc" => buf'[GrabBuffer] = published
    BY GrabBufferType DEF GrabFrame, TypeOK
  <2> QED
    BY <1>0, <2>1 DEF HandInv, NoWake, GrabBuffer, DeferOn
<1> QED
  BY <1>3, <1>6, <1>7, <1>8, <1>9 DEF CaptureInv

LEMMA GrabTimeoutStep == ASSUME TypeOK, CaptureInv, ~stop, GrabTimeout PROVE CaptureInv'
<1>0. /\ pc = "grab" /\ pc' = "wait"
      /\ UNCHANGED <<mode, published, batch, bufferIdx, source, wake>>
      /\ inFlightSlot' = StillInFlight(copying')
  BY DEF GrabTimeout, loopVars
<1>1. WindowInv' /\ copying' = {} /\ pendingSlot' = NoSlot
  <2>1. CASE defer.pending /\ pendingSlot # NoSlot /\ DeferOn
    <3>1. CopyAndWait(pendingBuf, pendingSlot, TRUE)
      BY <2>1 DEF GrabTimeout, CopyAndWait
    <3>2. ring' = TurnOn(Confirmed(ring, copying'), pendingSlot) /\ pendingSlot' = NoSlot
      BY <2>1 DEF GrabTimeout
    <3>3. copying' = {}
      BY <3>1 DEF CopyAndWait
    <3> QED
      BY <1>0, <2>1, <3>1, <3>2, <3>3, CopyWindow DEF CaptureInv
  <2>2. CASE ~(defer.pending /\ pendingSlot # NoSlot /\ DeferOn)
    <3>1. PICK fin \in WaitFor(Buffers) : px' = Landed(fin) /\ copying' = copying \ fin
      BY <2>2 DEF GrabTimeout
    <3>2. fin = copying
      BY <3>1, WaitEnds DEF TypeOK
    <3>3. ring' = Confirmed(ring, copying \ fin) /\ pendingSlot' = pendingSlot
      BY <2>2, <3>1 DEF GrabTimeout
    <3>4. pendingSlot = NoSlot
      BY <2>2 DEF CaptureInv, PendingInv
    <3> QED
      BY <1>0, <3>1, <3>2, <3>3, <3>4, LandWindow DEF CaptureInv
  <2> QED
    BY <2>1, <2>2
<1>2. \A b \in Buffers : inFlightSlot'[b] = NoSlot
  BY <1>0, <1>1 DEF StillInFlight
<1>3. FlightInv' /\ PendingInv' /\ HandInv' /\ BatchInv'
  BY <1>0, <1>1, <1>2 DEF CaptureInv, FlightInv, PendingInv, HandInv, BatchInv
<1> QED
  BY <1>1, <1>3 DEF CaptureInv

\* A grab that failed or lost the session moves nothing.
LEMMA GrabOverStep == ASSUME TypeOK, CaptureInv, GrabFailed \/ GrabLost PROVE CaptureInv'
<1> USE DEF sharedVars, stopVars, policyVars, sourceVars, gpuVars, loopVars
<1>0. /\ pc = "grab" /\ pc' \in {"wait", "done"}
      /\ UNCHANGED <<mode, sharedVars, policyVars, sourceVars, gpuVars, loopVars>>
  BY DEF GrabFailed, GrabLost
<1>1. BatchInv' /\ WindowInv' /\ HandInv'
  BY <1>0 DEF CaptureInv, BatchInv, WindowInv, HandInv, Window, At, SlotOf, DeferOn, GrabBuffer
<1>2. \A b \in Buffers : Flying(b)' = Flying(b)
  BY <1>0 DEF Flying
<1>3. FlightInv'
  BY <1>0, <1>2 DEF CaptureInv, FlightInv, SlotOf, DeferOn
<1>4. PendingInv'
  BY <1>0 DEF CaptureInv, PendingInv, SlotOf, DeferOn
<1> QED
  BY <1>1, <1>3, <1>4 DEF CaptureInv

LEMMA PlaceStep == ASSUME TypeOK, CaptureInv, ~stop, Place PROVE CaptureInv'
<1>0. /\ pc = "place" /\ pc' = (IF wake'.waits THEN "open" ELSE "store")
      /\ UNCHANGED <<mode, published, batch, bufferIdx, source, inFlightSlot, buf, pendingBuf>>
      /\ ~wake.ready /\ wake.waits = FALSE
      /\ inFlightSlot[bufferIdx] = NoSlot
      /\ source = "nvfbc" => buf[GrabBuffer] = published
  BY DEF Place, CaptureInv, HandInv, FlightInv
<1>1. BatchInv'
  BY <1>0 DEF CaptureInv, BatchInv
<1>2. pendingSlot' = NoSlot
  <2>1. CASE source = "nvfbc" /\ DeferOn
    BY <2>1 DEF Place, CaptureInv, PendingInv
  <2>2. CASE ~(source = "nvfbc" /\ DeferOn)
    BY <2>2 DEF Place, CaptureInv, PendingInv
  <2> QED
    BY <2>1, <2>2
<1>3. PendingInv'
  BY <1>2 DEF PendingInv
<1>4. /\ ~wake'.ready
      /\ wake'.waits \in BOOLEAN
      /\ wake'.waits => DeferOn /\ source = "nvfbc" /\ defer'.pending
  <2>1. CASE source = "nvfbc" /\ DeferOn
    <3>1. /\ wake'.waits = DeferThis(defer, batch) /\ ~wake'.ready
          /\ defer'.pending = DeferThis(defer, batch)
      <4> DEFINE waits == DeferThis(defer, batch)
      <4>1. waits \in BOOLEAN
        BY DEF DeferThis
      <4>2. \/ wake' = [NoWake EXCEPT !.waits = waits]
            \/ wake' = [NoWake EXCEPT !.waits = waits, !.replaced = pendingSlot]
        BY <2>1 DEF Place
      <4>3. defer' = [ema |-> DeferEma(defer, batch), last |-> batch.member, pending |-> waits]
        BY <2>1 DEF Place, DecideDefer
      <4> HIDE DEF waits
      <4>4. wake'.waits = waits /\ ~wake'.ready /\ defer'.pending = waits
        BY <4>1, <4>2, <4>3 DEF NoWake
      <4> QED
        BY <4>4 DEF waits
    <3> QED
      BY <2>1, <3>1 DEF DeferThis
  <2>2. CASE ~(source = "nvfbc" /\ DeferOn)
    BY <1>0, <2>2 DEF Place
  <2> QED
    BY <2>1, <2>2
<1>5. HandInv'
  <2>1. GrabBuffer' = GrabBuffer /\ DeferOn' = DeferOn
    BY <1>0 DEF GrabBuffer, DeferOn
  <2>2. DeferOn => GrabBuffer = bufferIdx
    BY DEF GrabBuffer
  <2> QED
    BY <1>0, <1>4, <2>1, <2>2 DEF HandInv
<1>6. CASE /\ source = "nvfbc" /\ DeferOn
           /\ defer.pending /\ pendingSlot # NoSlot /\ CopyPending(defer, batch)
  <2>1. CopyAndWait(pendingBuf, pendingSlot, TRUE) /\ ring' = TurnOn(ring, pendingSlot)
    BY <1>6 DEF Place, CopyAndWait
  <2>2. \A b \in Buffers : inFlightSlot[b] = NoSlot
    BY <1>0, <1>6 DEF CaptureInv, PendingInv, Buffers, TypeOK
  <2>3. WindowInv'
    BY <1>0, <1>6, <2>1, <2>2, CopyWindow DEF CaptureInv
  <2>4. copying' = {}
    BY <2>1 DEF CopyAndWait
  <2>5. FlightInv'
    BY <1>0, <2>2, <2>4 DEF FlightInv, TypeOK
  <2> QED
    BY <1>1, <1>3, <1>5, <2>3, <2>5 DEF CaptureInv
<1>7. CASE UNCHANGED <<ring, px, copying>>
  <2>1. WindowInv'
    BY <1>0, <1>7 DEF CaptureInv, WindowInv, Window, At, SlotOf, DeferOn
  <2>2. \A b \in Buffers : inFlightSlot[b] # NoSlot =>
            Flying(b)' = Flying(b) /\ Flying(b) # published
    <3> SUFFICES ASSUME NEW b \in Buffers, inFlightSlot[b] # NoSlot
                 PROVE  Flying(b)' = Flying(b) /\ Flying(b) # published
      OBVIOUS
    <3>1. b # bufferIdx
      BY <1>0
    <3> QED
      BY <1>0, <3>1 DEF Flying, TypeOK
  <2>3. \A b \in Buffers : inFlightSlot[b] # NoSlot => SlotOf(Flying(b))' = SlotOf(Flying(b))
    BY <2>2 DEF SlotOf
  <2>4. DeferOn' = DeferOn
    BY <1>0 DEF DeferOn
  <2>5. FlightInv'
    BY <1>0, <1>7, <2>2, <2>3, <2>4 DEF CaptureInv, FlightInv
  <2> QED
    BY <1>1, <1>3, <1>5, <2>1, <2>5 DEF CaptureInv
<1> QED
  BY <1>6, <1>7 DEF Place

LEMMA StoreStep == ASSUME TypeOK, CaptureInv, ~stop, Store PROVE CaptureInv'
<1> DEFINE s == SlotOf(published)
<1> USE DEF sharedVars, stopVars, policyVars, sourceVars, gpuVars, loopVars
<1>0. /\ pc = "store" /\ pc' = "open"
      /\ UNCHANGED <<mode, published, batch, defer, bufferIdx, source, buf, pendingSlot,
                     pendingBuf>>
      /\ ~wake.ready /\ wake.waits = FALSE /\ pendingSlot = NoSlot
      /\ inFlightSlot[bufferIdx] = NoSlot
      /\ source = "nvfbc" => buf[GrabBuffer] = published
  BY DEF Store, CaptureInv, HandInv, FlightInv, PendingInv
<1>1. s \in Slots /\ s # NoSlot /\ (\A i \in Window : SlotOf(i) # s)
      /\ published \notin Window /\ published \in Nat
  BY WindowApart DEF Window, Slots, NoSlot, TypeOK
<1>2. \A b \in Buffers : inFlightSlot[b] # NoSlot =>
          b = 1 - bufferIdx /\ Flying(b) = published - 1 /\ Flying(b) \in Window
          /\ inFlightSlot[b] # s /\ inFlightSlot[b] \in Slots
  BY <1>0, <1>1, FlyingOld DEF CaptureInv, FlightInv, TypeOK, Buffers
<1>3. Window' = Window /\ DeferOn' = DeferOn /\ GrabBuffer' = GrabBuffer
      /\ \A i \in Int : SlotOf(i)' = SlotOf(i)
  BY <1>0 DEF Window, DeferOn, GrabBuffer, SlotOf
<1>4. \A b \in Buffers : Flying(b)' = IF b = bufferIdx THEN published ELSE published - 1
  BY <1>0 DEF Flying
<1>5. BatchInv' /\ PendingInv'
  BY <1>0 DEF CaptureInv, BatchInv, PendingInv
\* The picture is in its slot, and every copy out of the other buffer kept or landed.
<1>6. ASSUME wake'.ready, wake'.waits = FALSE, px'[s] = published,
             UNCHANGED <<ring, inFlightSlot>>,
             copying' \subseteq copying,
             \A t \in Slots \ {s} : px'[t] = Landed(copying \ copying')[t]
      PROVE  CaptureInv'
  <2>1. \A b \in Buffers : inFlightSlot[b] # NoSlot =>
            IF b \in copying' THEN buf[b] = published - 1
                              ELSE px'[inFlightSlot[b]] = published - 1
    <3> SUFFICES ASSUME NEW b \in Buffers, inFlightSlot[b] # NoSlot
                 PROVE  IF b \in copying' THEN buf[b] = published - 1
                                          ELSE px'[inFlightSlot[b]] = published - 1
      OBVIOUS
    <3> DEFINE t == inFlightSlot[b]
    <3>1. t \in Slots \ {s} /\ Flying(b) = published - 1
      BY <1>2
    <3>2. CASE b \in copying
      BY <1>6, <3>1, <3>2, LandedAt DEF CaptureInv, FlightInv
    <3>3. CASE b \notin copying
      <4>1. \A c \in copying \ copying' : inFlightSlot[c] # t
        BY <3>3, FlightApart DEF CaptureInv, TypeOK
      <4>2. px'[t] = px[t]
        BY <1>6, <3>1, <4>1, LandedAt DEF CaptureInv
      <4> QED
        BY <1>6, <3>1, <3>3, <4>2 DEF CaptureInv, FlightInv
    <3> QED
      BY <3>2, <3>3
  <2>2. FlightInv'
    <3>1. \A b \in Buffers : inFlightSlot[b] # NoSlot =>
              /\ DeferOn /\ source = "nvfbc" /\ published - 1 >= 0
              /\ inFlightSlot[b] = SlotOf(published - 1)
              /\ ~ring[inFlightSlot[b]].valid /\ b # bufferIdx
      BY <1>0, <1>1, <1>2 DEF CaptureInv, FlightInv
    <3>2. copying' \subseteq {b \in Buffers : inFlightSlot[b] # NoSlot}
      BY <1>6 DEF CaptureInv, FlightInv
    <3> QED
      BY <1>0, <1>1, <1>3, <1>4, <1>6, <2>1, <3>1, <3>2 DEF FlightInv
  <2>3. WindowInv'
    <3> SUFFICES ASSUME NEW i \in Window
                 PROVE  /\ ring[SlotOf(i)].batchStart + ring[SlotOf(i)].member = i
                        /\ ring[SlotOf(i)].valid \/ ~DeferOn => px'[SlotOf(i)] = i
      BY <1>3, <1>6, WindowApart DEF WindowInv, At
    <3>1. SlotOf(i) \in Slots \ {s} /\ px'[SlotOf(i)] = Landed(copying \ copying')[SlotOf(i)]
      BY <1>1, <1>6, WindowApart
    <3>2. \A b \in copying \ copying' : inFlightSlot[b] = SlotOf(i) =>
              ~ring[SlotOf(i)].valid /\ DeferOn
      BY <1>1, <1>2 DEF CaptureInv, FlightInv
    <3>3. CASE \E b \in copying \ copying' : inFlightSlot[b] = SlotOf(i)
      BY <3>2, <3>3 DEF CaptureInv, WindowInv, At
    <3>4. CASE \A b \in copying \ copying' : inFlightSlot[b] # SlotOf(i)
      <4>1. px'[SlotOf(i)] = px[SlotOf(i)]
        BY <3>1, <3>4, LandedAt DEF CaptureInv
      <4> QED
        BY <4>1 DEF CaptureInv, WindowInv, At
    <3> QED
      BY <3>3, <3>4
  <2>4. HandInv'
    BY <1>0, <1>1, <1>3, <1>6 DEF HandInv
  <2> QED
    BY <1>5, <2>2, <2>3, <2>4 DEF CaptureInv
<1>7. CASE source = "wgc"
  <2>1. /\ px' = [px EXCEPT ![s] = published] /\ wake' = [wake EXCEPT !.ready = TRUE]
        /\ UNCHANGED <<ring, copying, inFlightSlot>>
    BY <1>7 DEF Store
  <2>2. \A t \in Slots \ {s} : px'[t] = Landed({})[t]
    BY <2>1 DEF Landed, TypeOK
  <2>3. px'[s] = published /\ wake'.ready /\ wake'.waits = FALSE
    BY <1>0, <1>1, <2>1 DEF TypeOK
  <2>4. copying \ copying' = {}
    BY <2>1
  <2> QED
    BY <1>6, <2>1, <2>2, <2>3, <2>4
<1>8. CASE source = "nvfbc"
  <2> DEFINE L == Landed(copying)
  <2>1. CASE /\ px' = [L EXCEPT ![s] = buf[GrabBuffer]] /\ copying' = {}
             /\ wake' = [wake EXCEPT !.ready = TRUE] /\ UNCHANGED <<ring, inFlightSlot>>
    <3>1. px'[s] = published /\ wake'.ready /\ wake'.waits = FALSE
      <4>1. px'[s] = buf[GrabBuffer]
        BY <1>1, <2>1, LandedType DEF TypeOK
      <4> QED
        BY <1>0, <1>8, <2>1, <4>1 DEF TypeOK
    <3>2. \A t \in Slots \ {s} : px'[t] = Landed(copying)[t]
      BY <2>1, LandedType DEF TypeOK
    <3>3. copying \ copying' = copying
      BY <2>1
    <3> QED
      BY <1>6, <2>1, <3>1, <3>2, <3>3
  <2>2. CASE /\ NoWait
             /\ px' = [px EXCEPT ![s] = Torn]
             /\ copying' = copying \cup {bufferIdx}
             /\ inFlightSlot' = [inFlightSlot EXCEPT ![bufferIdx] = s]
             /\ ring' = [ring EXCEPT ![s].copyInFlight = TRUE]
             /\ UNCHANGED wake
    <3>1. DeferOn /\ buf[bufferIdx] = published /\ bufferIdx \in Buffers
      BY <1>0, <1>8, <2>2 DEF NoWait, GrabBuffer, TypeOK
    <3>2. \A t \in Slots \ {s} : px'[t] = px[t] /\ ring'[t] = ring[t]
      BY <2>2 DEF TypeOK
    <3>3. inFlightSlot'[bufferIdx] = s
          /\ \A b \in Buffers : b # bufferIdx => inFlightSlot'[b] = inFlightSlot[b]
      BY <2>2, <3>1 DEF TypeOK
    <3>4. WindowInv'
      <4>1. \A i \in Window : SlotOf(i) \in Slots \ {s} /\ i \in Int
        BY <1>1, WindowApart
      <4> QED
        BY <1>3, <3>2, <4>1 DEF CaptureInv, WindowInv, At
    <3>5. HandInv'
      BY <1>0, <2>2, <3>1, <1>3 DEF HandInv
    <3>6. FlightInv'
      <4>1. \A b \in Buffers : inFlightSlot[b] # NoSlot =>
                /\ b # bufferIdx /\ DeferOn /\ published - 1 >= 0
                /\ inFlightSlot[b] = SlotOf(published - 1) /\ inFlightSlot[b] \in Slots \ {s}
                /\ ~ring[inFlightSlot[b]].valid
                /\ IF b \in copying THEN buf[b] = published - 1
                                     ELSE px[inFlightSlot[b]] = published - 1
        BY <1>0, <1>1, <1>2 DEF CaptureInv, FlightInv
      <4>2. copying' \subseteq {b \in Buffers : inFlightSlot'[b] # NoSlot}
        BY <1>1, <2>2, <3>1, <3>3 DEF CaptureInv, FlightInv
      <4>3. ASSUME NEW b \in Buffers, inFlightSlot'[b] # NoSlot
            PROVE  /\ Flying(b)' >= 0
                   /\ inFlightSlot'[b] = SlotOf(Flying(b)')
                   /\ IF b \in copying' THEN buf[b] = Flying(b)'
                                         ELSE px'[inFlightSlot'[b]] = Flying(b)'
                   /\ IF Flying(b)' = published THEN ~wake'.ready
                                                ELSE ~ring'[inFlightSlot'[b]].valid
        <5>1. CASE b = bufferIdx
          BY <1>0, <1>1, <1>4, <2>2, <3>1, <3>3, <5>1
        <5>2. CASE b # bufferIdx
          <6>1. /\ inFlightSlot'[b] = inFlightSlot[b] /\ inFlightSlot[b] # NoSlot
                /\ (b \in copying' <=> b \in copying) /\ Flying(b)' = published - 1
            BY <1>4, <2>2, <3>3, <4>3, <5>2
          <6> QED
            BY <1>1, <3>2, <4>1, <6>1
        <5> QED
          BY <5>1, <5>2
      <4>4. \A b \in Buffers : Flying(b)' \in Int
        BY <1>1, <1>4
      <4> QED
        BY <1>0, <1>3, <1>8, <3>1, <4>2, <4>3, <4>4 DEF FlightInv
    <3> QED
      BY <1>5, <3>4, <3>5, <3>6 DEF CaptureInv
  <2> QED
    BY <1>8, <2>1, <2>2 DEF Store, CopyAndWait
<1> QED
  BY <1>7, <1>8 DEF TypeOK

LEMMA OpenBatchStep == ASSUME TypeOK, CaptureInv, OpenBatch PROVE CaptureInv'
<1> USE DEF stopVars, sourceVars, gpuVars, loopVars
<1>0. /\ pc = "open" /\ pc' = "publish"
      /\ UNCHANGED <<mode, px, published, batch, defer, bufferIdx, pendingSlot, pendingBuf,
                     inFlightSlot, buf, copying, source, wake>>
  BY DEF OpenBatch
<1>1. Window' = Window /\ DeferOn' = DeferOn /\ GrabBuffer' = GrabBuffer
      /\ \A i \in Int : SlotOf(i)' = SlotOf(i)
  BY <1>0 DEF Window, DeferOn, GrabBuffer, SlotOf
<1>2. \A b \in Buffers : Flying(b)' = Flying(b) /\ Flying(b) \in Int
  BY <1>0 DEF Flying, TypeOK
<1>3. BatchInv' /\ PendingInv' /\ HandInv'
  BY <1>0, <1>1 DEF CaptureInv, BatchInv, PendingInv, HandInv, TypeOK
<1>4. CASE ring' = ring
  <2>1. WindowInv'
    BY <1>0, <1>1, <1>4, WindowApart DEF CaptureInv, WindowInv, At
  <2>2. FlightInv'
    BY <1>0, <1>1, <1>2, <1>4 DEF CaptureInv, FlightInv
  <2> QED
    BY <1>3, <2>1, <2>2 DEF CaptureInv
\* Frames are brought back only where no copy is put off: every slot of the
\* window already has its picture.
<1>5. CASE /\ mode.phaseKeep
           /\ ring' = BroughtBack(ring, SlotOf(published - 1), rot.start + rot.spacing)
  <2>1. ~DeferOn
    BY <1>5 DEF DeferOn
  <2>2. \A b \in Buffers : inFlightSlot[b] = NoSlot
    BY <2>1 DEF CaptureInv, FlightInv
  <2>3. FlightInv'
    BY <1>0, <2>2 DEF CaptureInv, FlightInv
  <2>4. \A t \in Slots : /\ ring'[t].batchStart = ring[t].batchStart
                         /\ ring'[t].member = ring[t].member
    BY <1>5 DEF BroughtBack, TypeOK, Slot
  <2>5. WindowInv'
    BY <1>0, <1>1, <2>1, <2>4, WindowApart DEF CaptureInv, WindowInv, At
  <2> QED
    BY <1>3, <2>3, <2>5 DEF CaptureInv
<1> QED
  BY <1>4, <1>5 DEF OpenBatch

LEMMA PublishStep == ASSUME TypeOK, CaptureInv, Publish PROVE CaptureInv'
<1> DEFINE s == SlotOf(published)
           kept == KeepThis(batch, rot.keeper)
<1> USE DEF stopVars, sourceVars, gpuVars, loopVars
<1>0. /\ pc = "publish" /\ pc' = "settle" /\ published' = published + 1
      /\ UNCHANGED <<mode, px, batch, defer, bufferIdx, pendingSlot, pendingBuf,
                     inFlightSlot, buf, copying, source, wake>>
      /\ published \in Nat
  BY DEF Publish, TypeOK
<1>1. s \in Slots /\ s # NoSlot /\ \A i \in Window : SlotOf(i) \in Slots \ {s}
  BY WindowApart DEF Window, Slots, NoSlot, TypeOK
<1>2. Window' \subseteq Window \cup {published} /\ DeferOn' = DeferOn /\ GrabBuffer' = GrabBuffer
      /\ \A i \in Int : SlotOf(i)' = SlotOf(i)
  BY <1>0, RingAssumption DEF Window, DeferOn, GrabBuffer, SlotOf
<1>3. /\ ring'[s].batchStart = batch.start /\ ring'[s].member = batch.member
      /\ ring'[s].valid <=> kept /\ wake.ready
      /\ ring'[s].valid \in BOOLEAN
      /\ \A t \in Slots \ {s} : ring'[t] = ring[t]
  <2>1. kept \in BOOLEAN /\ wake.ready \in BOOLEAN
    BY DEF KeepThis, TypeOK
  <2> HIDE DEF kept
  <2>2. ring' = [ring EXCEPT ![s] = [timestamp |-> StampOf(batch, rot.spacing),
                      batchStart |-> batch.start, member |-> batch.member,
                      valid |-> kept /\ wake.ready, awaitingCopy |-> kept /\ ~wake.ready,
                      copyInFlight |-> ring[s].copyInFlight]]
    BY DEF Publish, kept
  <2> QED
    BY <1>1, <2>1, <2>2 DEF TypeOK
<1>4. BatchInv'
  BY <1>0 DEF CaptureInv, BatchInv
<1>5. PendingInv'
  BY <1>0 DEF CaptureInv, PendingInv
<1>6. WindowInv'
  <2> SUFFICES ASSUME NEW i \in Window \cup {published}
               PROVE  /\ ring'[SlotOf(i)].batchStart + ring'[SlotOf(i)].member = i
                      /\ ring'[SlotOf(i)].valid \/ ~DeferOn => px[SlotOf(i)] = i
    BY <1>0, <1>2, WindowApart DEF WindowInv, At
  <2>1. CASE i = published
    <3>1. batch.start + batch.member = published
      BY <1>0 DEF CaptureInv, BatchInv
    <3>2. wake.ready \/ ~DeferOn => px[s] = published
      BY <1>0 DEF CaptureInv, HandInv
    <3> QED
      BY <1>3, <2>1, <3>1, <3>2
  <2>2. CASE i \in Window
    BY <1>1, <1>3, <2>2 DEF CaptureInv, WindowInv, At
  <2> QED
    BY <2>1, <2>2
<1>7. HandInv'
  <2>1. SlotOf(published - 1)' = s
    <3>1. (published - 1)' = published
      BY <1>0
    <3> QED
      BY <3>1 DEF SlotOf
  <2> QED
    BY <1>0, <1>2, <1>3, <2>1 DEF CaptureInv, HandInv, At
<1>8. FlightInv'
  <2>1. \A b \in Buffers : Flying(b)' = Flying(b) /\ Flying(b) \in Int
    BY <1>0 DEF Flying, TypeOK
  <2>2. ASSUME NEW b \in Buffers, inFlightSlot[b] # NoSlot
        PROVE  Flying(b)' # published' /\ ~ring'[inFlightSlot[b]].valid
    <3>1. Flying(b) \in {published, published - 1}
      BY <1>0 DEF Flying
    <3>2. CASE Flying(b) = published
      BY <1>0, <1>3, <2>1, <2>2, <3>2 DEF CaptureInv, FlightInv
    <3>3. CASE Flying(b) = published - 1
      <4>1. Flying(b) \in Window
        BY <1>0, <2>2, <3>3, FlightApart DEF CaptureInv
      <4> QED
        BY <1>0, <1>1, <1>3, <2>1, <2>2, <3>3, <4>1 DEF CaptureInv, FlightInv
    <3> QED
      BY <3>1, <3>2, <3>3
  <2> QED
    BY <1>0, <1>2, <2>1, <2>2 DEF CaptureInv, FlightInv
<1> QED
  BY <1>4, <1>5, <1>6, <1>7, <1>8 DEF CaptureInv

LEMMA SettleStep == ASSUME TypeOK, CaptureInv, Settle PROVE CaptureInv'
<1> USE DEF stopVars, policyVars, gpuVars, loopVars
<1>0. /\ pc = "settle" /\ pc' = "wait"
      /\ UNCHANGED <<mode, px, published, batch, defer, inFlightSlot, buf, copying, source, wake>>
      /\ published > 0 /\ pendingSlot = NoSlot
  BY DEF Settle, CaptureInv, BatchInv, PendingInv
<1>1. Window' = Window /\ DeferOn' = DeferOn /\ \A i \in Int : SlotOf(i)' = SlotOf(i)
  BY <1>0 DEF Window, DeferOn, SlotOf
\* Slots are only ever turned off here.
<1>2. \A t \in Slots : /\ ring'[t].batchStart = ring[t].batchStart
                       /\ ring'[t].member = ring[t].member
                       /\ ring'[t].valid => ring[t].valid
  <2> DEFINE dropped == IF wake.replaced # NoSlot THEN NotAwaited(ring, wake.replaced) ELSE ring
  <2>1. dropped \in [Slots -> Slot]
    BY NotAwaitedType DEF TypeOK
  <2>2. \A t \in Slots : /\ dropped[t].batchStart = ring[t].batchStart
                         /\ dropped[t].member = ring[t].member
                         /\ dropped[t].valid = ring[t].valid
    BY DEF NotAwaited, TypeOK, Slot
  <2>3. ring' = TakenBack(dropped, SlotOf(published - 2)) \/ ring' = dropped
    BY DEF Settle
  <2> HIDE DEF dropped
  <2>4. ASSUME NEW t \in Slots
        PROVE  LET R == TakenBack(dropped, SlotOf(published - 2))
               IN /\ R[t].batchStart = dropped[t].batchStart
                  /\ R[t].member = dropped[t].member
                  /\ R[t].valid => dropped[t].valid
    BY <2>1 DEF TakenBack, Slot
  <2> QED
    BY <2>2, <2>3, <2>4
<1>3. BatchInv' /\ HandInv'
  BY <1>0 DEF CaptureInv, BatchInv, HandInv
<1>4. WindowInv'
  BY <1>0, <1>1, <1>2, WindowApart DEF CaptureInv, WindowInv, At
<1>5. DeferOn /\ source = "nvfbc" => bufferIdx' = 1 - bufferIdx
  BY DEF Settle
<1>6. FlightInv'
  <2>1. ASSUME NEW b \in Buffers, inFlightSlot[b] # NoSlot
        PROVE  Flying(b)' = Flying(b) /\ Flying(b) # published /\ Flying(b) \in Int
               /\ inFlightSlot[b] \in Slots
    <3>1. bufferIdx' = 1 - bufferIdx
      BY <1>5, <2>1 DEF CaptureInv, FlightInv
    <3> QED
      BY <1>0, <2>1, <3>1 DEF Flying, TypeOK, Buffers
  <2> QED
    BY <1>0, <1>1, <1>2, <2>1 DEF CaptureInv, FlightInv
<1>7. PendingInv'
  <2>1. CASE wake.waits /\ KeepThis(batch, rot.keeper)
    <3>1. /\ DeferOn /\ source = "nvfbc" /\ defer.pending
          /\ inFlightSlot[bufferIdx] = NoSlot /\ buf[bufferIdx] = published - 1
          /\ ~ring[SlotOf(published - 1)].valid
      BY <1>0, <2>1 DEF CaptureInv, HandInv, At
    <3>2. /\ pendingSlot' = SlotOf(published - 1) /\ pendingBuf' = bufferIdx
          /\ bufferIdx' = 1 - bufferIdx
      BY <2>1, <3>1 DEF Settle, GrabBuffer
    <3>3. bufferIdx = 1 - bufferIdx' /\ SlotOf(published - 1) \in Slots
      BY <3>2, SlotType DEF TypeOK, Buffers
    <3>4. SlotOf(published - 1)' = SlotOf(published - 1)
      BY <1>0 DEF SlotOf
    <3> QED
      BY <1>0, <1>1, <1>2, <3>1, <3>2, <3>3, <3>4 DEF PendingInv
  <2>2. CASE ~(wake.waits /\ KeepThis(batch, rot.keeper))
    BY <1>0, <2>2 DEF Settle, PendingInv
  <2> QED
    BY <2>1, <2>2
<1> QED
  BY <1>3, <1>4, <1>6, <1>7 DEF CaptureInv

LEMMA GpuDoneStep == ASSUME TypeOK, CaptureInv, GpuDone PROVE CaptureInv'
<1> USE DEF stopVars, policyVars, sourceVars, loopVars
<1>0. /\ UNCHANGED <<mode, ring, published, batch, defer, bufferIdx, pendingSlot, pendingBuf,
                     inFlightSlot, buf, source, wake, pc>>
      /\ published \in Nat
  BY DEF GpuDone, TypeOK
<1>1. PICK b \in copying : px' = Landed({b}) /\ copying' = copying \ {b}
  BY DEF GpuDone
<1>2. /\ b \in Buffers /\ inFlightSlot[b] # NoSlot /\ inFlightSlot[b] \in Slots
      /\ inFlightSlot[b] = SlotOf(Flying(b)) /\ DeferOn /\ buf[b] = Flying(b)
      /\ IF Flying(b) = published THEN ~wake.ready ELSE ~ring[inFlightSlot[b]].valid
      /\ Flying(b) \in Window \cup {published}
  BY <1>1, FlightApart DEF CaptureInv, FlightInv, TypeOK
<1>3. /\ px'[inFlightSlot[b]] = Flying(b)
      /\ \A t \in Slots : t # inFlightSlot[b] => px'[t] = px[t]
  BY <1>1, <1>2, LandedAt DEF CaptureInv
<1>4. Window' = Window /\ DeferOn' = DeferOn /\ GrabBuffer' = GrabBuffer
      /\ (\A i \in Int : SlotOf(i)' = SlotOf(i)) /\ \A c \in Buffers : Flying(c)' = Flying(c)
  BY <1>0 DEF Window, DeferOn, GrabBuffer, SlotOf, Flying
<1>5. BatchInv' /\ PendingInv'
  BY <1>0, <1>4 DEF CaptureInv, BatchInv, PendingInv
<1>6. WindowInv'
  <2>1. ASSUME NEW i \in Window, At(i).valid PROVE px'[SlotOf(i)] = px[SlotOf(i)]
    <3>1. SlotOf(i) # inFlightSlot[b]
      <4>1. i # published
        BY <1>0 DEF Window
      <4>2. SlotOf(i) = SlotOf(Flying(b)) => i = Flying(b)
        BY <1>2, WindowApart
      <4> QED
        BY <1>2, <2>1, <4>1, <4>2 DEF At
    <3> QED
      BY <1>3, <3>1, WindowApart
  <2> QED
    BY <1>0, <1>2, <1>4, <2>1, WindowApart DEF CaptureInv, WindowInv, At
<1>7. HandInv'
  <2>1. wake.ready => px'[SlotOf(published)] = px[SlotOf(published)]
    BY <1>2, <1>3, WindowApart
  <2>2. SlotOf(published)' = SlotOf(published) /\ At(published - 1)' = At(published - 1)
    BY <1>0 DEF SlotOf, At
  <2> QED
    BY <1>0, <1>4, <2>1, <2>2 DEF CaptureInv, HandInv
<1>8. FlightInv'
  <2>1. ASSUME NEW c \in Buffers, inFlightSlot[c] # NoSlot
        PROVE  /\ IF c \in copying' THEN buf[c] = Flying(c)
                                     ELSE px'[inFlightSlot[c]] = Flying(c)
               /\ Flying(c) \in Int
    <3>1. Flying(c) \in Int
      BY <1>0 DEF Flying
    <3>2. CASE c = b
      BY <1>1, <1>3, <3>1, <3>2
    <3>3. CASE c # b
      <4>1. inFlightSlot[c] # inFlightSlot[b] /\ inFlightSlot[c] \in Slots
        BY <1>2, <2>1, <3>3, FlightApart DEF CaptureInv, TypeOK
      <4> QED
        BY <1>1, <1>3, <2>1, <3>1, <3>3, <4>1 DEF CaptureInv, FlightInv
    <3> QED
      BY <3>2, <3>3
  <2>2. copying' \subseteq copying
    BY <1>1
  <2> QED
    BY <1>0, <1>4, <2>1, <2>2 DEF CaptureInv, FlightInv
<1> QED
  BY <1>5, <1>6, <1>7, <1>8 DEF CaptureInv

-----------------------------------------------------------------------------
(* The invariant.                                                          *)

LEMMA InitInv == Init => IInv
<1> SUFFICES ASSUME Init PROVE IInv
  OBVIOUS
<1>1. TypeOK
  BY InitType
<1>2. StopInv
  BY DEF Init, StopInv
<1>3. Window = {} /\ published = 0
  BY RingAssumption DEF Init, Window
<1>4. BatchInv /\ WindowInv /\ HandInv /\ PendingInv
  BY <1>3 DEF Init, BatchInv, WindowInv, HandInv, PendingInv
<1>5. FlightInv
  BY DEF Init, FlightInv
<1> QED
  BY <1>1, <1>2, <1>4, <1>5 DEF IInv, CaptureInv

LEMMA InvStep == IInv /\ [Next]_vars => IInv'
<1> SUFFICES ASSUME IInv, [Next]_vars PROVE IInv'
  OBVIOUS
<1> USE DEF sharedVars, stopVars, policyVars, sourceVars, gpuVars, loopVars
<1>1. TypeOK /\ TypeOK'
  BY TypeStep DEF IInv
<1>2. StopInv'
  BY DEF IInv, StopInv, Next, Wake, vars, OpenWgc, BeginGrab, GrabFrame, GrabTimeout,
         GrabFailed, GrabLost, Place, Store, OpenBatch, Publish, Settle, LoopExit, GpuDone,
         AskStop, Joined
<1>3. ASSUME ~asked' PROVE CaptureInv'
  <2>1. ~asked
    BY <1>1, <1>3 DEF Next, Wake, vars, OpenWgc, BeginGrab, GrabFrame, GrabTimeout,
         GrabFailed, GrabLost, Place, Store, OpenBatch, Publish, Settle, LoopExit, GpuDone,
         AskStop, Joined
  <2>2. CaptureInv /\ (stop => pc = "done")
    BY <2>1 DEF IInv, StopInv
  <2>3. CASE OpenWgc
    BY <1>1, <2>2, <2>3, OpenWgcStep
  <2>4. CASE BeginGrab
    BY <1>1, <2>2, <2>4, BeginGrabStep
  <2>5. CASE GrabFrame
    BY <1>1, <2>2, <2>5, GrabFrameStep
  <2>6. CASE GrabTimeout
    <3>1. ~stop
      BY <2>2, <2>6 DEF GrabTimeout
    <3> QED
      BY <1>1, <2>2, <2>6, <3>1, GrabTimeoutStep
  <2>7. CASE GrabFailed \/ GrabLost
    BY <1>1, <2>2, <2>7, GrabOverStep
  <2>8. CASE Place
    <3>1. ~stop
      BY <2>2, <2>8 DEF Place
    <3> QED
      BY <1>1, <2>2, <2>8, <3>1, PlaceStep
  <2>9. CASE Store
    <3>1. ~stop
      BY <2>2, <2>9 DEF Store
    <3> QED
      BY <1>1, <2>2, <2>9, <3>1, StoreStep
  <2>10. CASE OpenBatch
    BY <1>1, <2>2, <2>10, OpenBatchStep
  <2>11. CASE Publish
    BY <1>1, <2>2, <2>11, PublishStep
  <2>12. CASE Settle
    BY <1>1, <2>2, <2>12, SettleStep
  <2>13. CASE LoopExit
    BY <2>2, <2>13 DEF LoopExit
  <2>14. CASE GpuDone
    BY <1>1, <2>2, <2>14, GpuDoneStep
  <2>15. CASE AskStop
    BY <1>3, <2>15 DEF AskStop
  <2>16. CASE Joined \/ UNCHANGED vars
    <3>1. UNCHANGED vars
      BY <2>16 DEF Joined
    <3> QED
      BY <2>2, <3>1 DEF vars, CaptureInv, BatchInv, WindowInv, HandInv, FlightInv, PendingInv,
         Window, At, SlotOf, DeferOn, GrabBuffer, Flying
  <2> QED
    BY <2>3, <2>4, <2>5, <2>6, <2>7, <2>8, <2>9, <2>10, <2>11, <2>12, <2>13, <2>14, <2>15,
       <2>16 DEF Next, Wake
<1> QED
  BY <1>1, <1>2, <1>3 DEF IInv

\* The strengthening holds in every reachable state: it fixes, for each point of
\* the capture loop, which frame a buffer, a copy on its way and a waiting note
\* stand for.
THEOREM CaptureInvariant == Spec => []IInv
<1>1. Init => IInv
  BY InitInv
<1>2. IInv /\ [Next]_vars => IInv'
  BY InvStep
<1> QED
  BY <1>1, <1>2, PTL DEF Spec

\* A slot the present thread may pick holds the picture of the frame its stamp
\* and member name, whatever the ring's size, the launch options, the batch
\* sizes and the order in which the GPU finishes copies.
THEOREM ShownPicture == Spec => []ShownIsCaptured
<1>1. IInv => ShownIsCaptured
  BY DEF IInv, CaptureInv, WindowInv, ShownIsCaptured
<1>2. Spec => []IInv
  BY CaptureInvariant
<1> QED
  BY <1>1, <1>2, PTL

-----------------------------------------------------------------------------
(* What is kept.                                                           *)

\* Slots in the window are the frames they name, and the newest is the member
\* the keep rule saw last, kept only if it was the one named.
NameInv ==
    /\ \A i \in Window : At(i).batchStart + At(i).member = i
    /\ published > 0 => At(published - 1).member = rot.last
    /\ published > 0 /\ pc # "publish" /\ rot.keeper >= 0 /\ Kept(published - 1) =>
          rot.last = rot.keeper
    /\ pc = "settle" => rot.last = batch.member

\* In the batch still open, the frame kept is the newest one, or the member
\* the rotation names.
OpenInv ==
    \A i \in Window :
        At(i).batchStart = batch.start /\ Kept(i) =>
            IF rot.keeper < 0 THEN i = published - 1 \/ (pc = "settle" /\ i = published - 2)
                              ELSE At(i).member = rot.keeper

\* Two frames of a batch are kept only until the newer one is settled.
PairInv ==
    \A i, j \in Window :
        i < j /\ At(i).batchStart = At(j).batchStart /\ Kept(i) /\ Kept(j) =>
            pc = "settle" /\ i = published - 2 /\ RetractPrev(batch, rot.keeper)

\* Without the rotation's guidance the last member of a batch is kept.
RealInv ==
    ~mode.phaseKeep =>
        /\ rot.keeper = -1
        /\ \A i \in Window :
              Kept(i) <=> \/ i = published - 1
                          \/ pc = "settle" /\ i = published - 2
                          \/ At(i + 1).member = 0

\* What the wake in hand may ask of the slots once it is counted.
WakeInv ==
    /\ pc = "place" => wake = NoWake
    /\ pc = "store" => ~wake.waits
    /\ pc \in {"open", "publish", "settle"} /\ wake.waits =>
          DeferOn /\ source = "nvfbc" /\ defer.pending /\ batch.member = 0
    /\ pc \in {"store", "open", "publish", "settle"} /\ wake.replaced # NoSlot =>
          /\ DeferOn /\ batch.member > 0
          /\ wake.replaced = SlotOf(IF pc = "settle" THEN published - 2 ELSE published - 1)
    /\ pc \in {"open", "publish"} /\ ~DeferOn => wake.ready
    /\ pc = "settle" => (Kept(published - 1) <=> KeepThis(batch, rot.keeper))

\* A frame left waiting is the newest one, and it is kept.
WaitingInv ==
    pendingSlot # NoSlot =>
        /\ DeferOn /\ source = "nvfbc" /\ defer.pending
        /\ pc \in {"wait", "grab", "place", "done"}
        /\ published > 0 /\ pendingSlot = SlotOf(published - 1) /\ Kept(published - 1)

\* Without the deferral no frame is published ahead of its picture.
PlainInv ==
    ~DeferOn => \A s \in Slots : ~ring[s].copyInFlight /\ ~ring[s].awaitingCopy

WindowKeep == NameInv /\ OpenInv /\ PairInv /\ RealInv

KeepInv == BatchInv /\ WindowKeep /\ WakeInv /\ WaitingInv /\ PlainInv

\* Every frame published ahead of its picture is pending, in flight, or just
\* replaced, and every copy in flight is known to the source.
AwaitedInv ==
    /\ \A i \in Window : At(i).awaitingCopy =>
          \/ pendingSlot = SlotOf(i)
          \/ pc = "settle" /\ wake.waits /\ i = published - 1
          \/ \E b \in Buffers : inFlightSlot[b] = SlotOf(i)
          \/ pc \in {"store", "open", "publish", "settle"} /\ wake.replaced = SlotOf(i)
    /\ pc \in {"open", "publish"} /\ ~wake.ready =>
          wake.waits \/ \E b \in Buffers : inFlightSlot[b] = SlotOf(published)

-----------------------------------------------------------------------------
(* What the operators on slots leave alone.                                *)

\* The same frame, as far as the keep rule is concerned.
SameFrame(S, T) ==
    /\ S.batchStart = T.batchStart /\ S.member = T.member /\ S.timestamp = T.timestamp
    /\ (S.valid \/ S.awaitingCopy) = (T.valid \/ T.awaitingCopy)

\* S is T, its picture perhaps arrived: the frame has moved from awaited to shown.
Arrives(S, T) ==
    /\ SameFrame(S, T)
    /\ S.awaitingCopy => T.awaitingCopy
    /\ S.valid = (T.valid \/ (T.awaitingCopy /\ ~S.awaitingCopy))
    /\ S.copyInFlight => T.copyInFlight

\* A copy found done brings its frame's picture.
LEMMA ConfirmedArrives ==
    ASSUME NEW R \in [Slots -> Slot], NEW busy, NEW s \in Slots
    PROVE  Arrives(Confirmed(R, busy)[s], R[s])
BY DEF Confirmed, Slot, SameFrame, Arrives

\* So does turning the slot on of a frame that was kept.
LEMMA TurnOnArrives ==
    ASSUME NEW R \in [Slots -> Slot], NEW s \in Slots, NEW t \in Slots,
           R[t].valid \/ R[t].awaitingCopy
    PROVE  Arrives(TurnOn(R, t)[s], R[s])
BY DEF TurnOn, Slot, SameFrame, Arrives

\* A frame's batch opened no later than the frame itself.
LEMMA OlderStart ==
    ASSUME TypeOK, NameInv, NEW i \in Window
    PROVE  At(i).batchStart \in Nat /\ At(i).batchStart <= i /\ i < published
<1>1. At(i) \in Slot /\ i \in Int /\ i < published
  BY WindowApart DEF At, TypeOK, Window
<1>2. At(i).batchStart \in Nat /\ At(i).member \in Nat /\ At(i).batchStart + At(i).member = i
  BY <1>1 DEF NameInv, Slot
<1> QED
  BY <1>1, <1>2

\* A step between a count and the next batch or member that changes no frame
\* the keep rule is about leaves the window kept as it was.
LEMMA QuietWindow ==
    ASSUME TypeOK, WindowKeep, pc \notin {"publish", "settle"}, pc' \notin {"publish", "settle"},
           UNCHANGED <<mode, published, rot>>, batch'.start \in {batch.start, published},
           \A i \in Window : SameFrame(ring'[SlotOf(i)], ring[SlotOf(i)])
    PROVE  WindowKeep'
<1>1. Window' = Window /\ \A i : SlotOf(i)' = SlotOf(i)
  BY DEF Window, SlotOf
<1>2. \A i \in Window : /\ At(i)'.batchStart = At(i).batchStart
                        /\ At(i)'.member = At(i).member
                        /\ Kept(i)' <=> Kept(i)
  BY <1>1 DEF At, Kept, SameFrame
<1>3. published > 0 => published - 1 \in Window
  BY NewestInWindow
<1>4. NameInv'
  BY <1>1, <1>2, <1>3 DEF WindowKeep, NameInv
<1>5. OpenInv' /\ PairInv'
  <2>1. \A i \in Window : At(i).batchStart # published
    BY OlderStart, WindowApart DEF WindowKeep, TypeOK
  <2> QED
    BY <1>1, <1>2, <2>1 DEF WindowKeep, OpenInv, PairInv
<1>6. RealInv'
  <2>1. \A i \in Window : i # published - 1 => i + 1 \in Window
    BY RingAssumption DEF Window, TypeOK
  <2> QED
    BY <1>1, <1>2, <2>1 DEF WindowKeep, RealInv
<1> QED
  BY <1>4, <1>5, <1>6 DEF WindowKeep

-----------------------------------------------------------------------------
(* The keep invariant, action by action.                                   *)

\* The frame left waiting is the window's newest, and its slot is in the ring.
LEMMA WaitingSlot ==
    ASSUME TypeOK, WaitingInv, pendingSlot # NoSlot
    PROVE  /\ pendingSlot \in Slots
           /\ published - 1 \in Window /\ SlotOf(published - 1) = pendingSlot
           /\ ring[pendingSlot].valid \/ ring[pendingSlot].awaitingCopy
<1>1. published > 0 /\ pendingSlot = SlotOf(published - 1) /\ Kept(published - 1)
  BY DEF WaitingInv
<1> QED
  BY <1>1, NewestInWindow DEF Kept, At, TypeOK

\* The forms a slot's fields take in a wake's way to its count.
QuietRing ==
    \/ UNCHANGED ring
    \/ \E busy : ring' = Confirmed(ring, busy)
    \/ \E busy : pendingSlot # NoSlot /\ ring' = TurnOn(Confirmed(ring, busy), pendingSlot)
    \/ pendingSlot # NoSlot /\ ring' = TurnOn(ring, pendingSlot)

\* Copies found done turn their slots on, and so does a copy of the waiting frame.
LEMMA QuietSlots ==
    ASSUME TypeOK, WaitingInv, QuietRing, NEW s \in Slots
    PROVE  Arrives(ring'[s], ring[s])
<1>1. CASE UNCHANGED ring
  BY <1>1 DEF SameFrame, Arrives, TypeOK, Slot
<1>2. CASE \E busy : ring' = Confirmed(ring, busy)
  BY <1>2, ConfirmedArrives DEF TypeOK
<1>3. ASSUME NEW busy, pendingSlot # NoSlot,
             ring' = TurnOn(Confirmed(ring, busy), pendingSlot)
      PROVE  Arrives(ring'[s], ring[s])
  <2> DEFINE R == Confirmed(ring, busy)
  <2>1. R \in [Slots -> Slot]
    BY ConfirmedType DEF TypeOK
  <2>2. \A t \in Slots : Arrives(R[t], ring[t])
    BY ConfirmedArrives DEF TypeOK
  <2> HIDE DEF R
  <2>3. pendingSlot \in Slots
    BY <1>3, WaitingSlot
  <2>4. R[pendingSlot].valid \/ R[pendingSlot].awaitingCopy
    BY <1>3, <2>2, <2>3, WaitingSlot DEF SameFrame, Arrives
  <2>5. Arrives(TurnOn(R, pendingSlot)[s], R[s])
    BY <2>1, <2>3, <2>4, TurnOnArrives
  <2>6. ring' = TurnOn(R, pendingSlot)
    BY <1>3 DEF R
  <2>7. Arrives(ring'[s], R[s]) /\ Arrives(R[s], ring[s])
    BY <2>2, <2>5, <2>6
  <2> QED
    BY <2>7 DEF SameFrame, Arrives
<1>4. CASE pendingSlot # NoSlot /\ ring' = TurnOn(ring, pendingSlot)
  BY <1>4, WaitingSlot, TurnOnArrives DEF TypeOK
<1> QED
  BY <1>1, <1>2, <1>3, <1>4 DEF QuietRing

\* Such a step, short of a count, keeps what KeepInv says of the slots.
LEMMA QuietStep ==
    ASSUME TypeOK, KeepInv, QuietRing,
           pc \notin {"publish", "settle"}, pc' \notin {"publish", "settle"},
           UNCHANGED <<mode, published, rot>>, batch'.start \in {batch.start, published}
    PROVE  /\ WindowKeep' /\ PlainInv'
           /\ published > 0 => (Kept(published - 1)' <=> Kept(published - 1))
<1>1. \A s \in Slots : Arrives(ring'[s], ring[s])
  BY QuietSlots DEF KeepInv
<1>same. \A s \in Slots : SameFrame(ring'[s], ring[s])
  BY <1>1 DEF Arrives
<1>2. WindowKeep'
  BY <1>same, QuietWindow, WindowApart DEF KeepInv
<1>3. PlainInv'
  BY <1>1 DEF KeepInv, PlainInv, DeferOn, Arrives
<1>4. published > 0 => (Kept(published - 1)' <=> Kept(published - 1))
  <2> SUFFICES ASSUME published > 0 PROVE Kept(published - 1)' <=> Kept(published - 1)
    OBVIOUS
  <2>1. SlotOf(published - 1) \in Slots /\ SlotOf(published - 1)' = SlotOf(published - 1)
    BY SlotType DEF TypeOK, SlotOf
  <2> QED
    BY <1>same, <2>1 DEF Kept, At, SameFrame
<1> QED
  BY <1>2, <1>3, <1>4

LEMMA OpenWgcKeep == ASSUME TypeOK, KeepInv, OpenWgc PROVE KeepInv'
<1> USE DEF sharedVars, stopVars, policyVars, sourceVars, gpuVars, loopVars
<1>0. pc = "wait" /\ pc' = "wait" /\ UNCHANGED <<mode, published, batch, rot, defer, wake>>
  BY DEF OpenWgc
<1>1. QuietRing /\ (pendingSlot' = NoSlot \/ UNCHANGED <<pendingSlot, source>>)
  BY DEF OpenWgc, QuietRing
<1>2. WindowKeep' /\ PlainInv' /\ (published > 0 => (Kept(published - 1)' <=> Kept(published - 1)))
  BY <1>0, <1>1, QuietStep
<1>3. BatchInv' /\ WakeInv'
  BY <1>0 DEF KeepInv, BatchInv, WakeInv
<1>4. WaitingInv'
  BY <1>0, <1>1, <1>2 DEF KeepInv, WaitingInv, DeferOn, SlotOf, Kept, At
<1> QED
  BY <1>2, <1>3, <1>4 DEF KeepInv

LEMMA BeginGrabKeep == ASSUME TypeOK, KeepInv, BeginGrab PROVE KeepInv'
<1> USE DEF sharedVars, stopVars, policyVars, sourceVars, gpuVars, loopVars
<1>0. /\ pc = "wait" /\ pc' = "grab" /\ ring' = Confirmed(ring, copying')
      /\ UNCHANGED <<mode, published, batch, rot, defer, wake, source, pendingSlot>>
  BY DEF BeginGrab
<1>1. WindowKeep' /\ PlainInv' /\ (published > 0 => (Kept(published - 1)' <=> Kept(published - 1)))
  BY <1>0, QuietStep DEF QuietRing
<1>2. BatchInv' /\ WakeInv'
  BY <1>0 DEF KeepInv, BatchInv, WakeInv
<1>3. WaitingInv'
  BY <1>0, <1>1 DEF KeepInv, WaitingInv, DeferOn, SlotOf, Kept, At
<1> QED
  BY <1>1, <1>2, <1>3 DEF KeepInv

LEMMA GrabTimeoutKeep == ASSUME TypeOK, KeepInv, GrabTimeout PROVE KeepInv'
<1>0. /\ pc = "grab" /\ pc' = "wait" /\ UNCHANGED <<mode, published, batch, rot, wake, source>>
  BY DEF GrabTimeout, loopVars
<1>1. QuietRing /\ pendingSlot' = NoSlot
  BY DEF GrabTimeout, QuietRing, KeepInv, WaitingInv
<1>2. WindowKeep' /\ PlainInv'
  BY <1>0, <1>1, QuietStep
<1>3. BatchInv' /\ WakeInv' /\ WaitingInv'
  BY <1>0, <1>1 DEF KeepInv, BatchInv, WakeInv, WaitingInv
<1> QED
  BY <1>2, <1>3 DEF KeepInv

LEMMA GrabOverKeep ==
    ASSUME TypeOK, KeepInv, GrabFailed \/ GrabLost \/ LoopExit PROVE KeepInv'
<1> USE DEF sharedVars, policyVars, sourceVars, loopVars
<1>0. /\ pc \in {"wait", "grab"} /\ pc' \in {"wait", "done"}
      /\ UNCHANGED <<mode, ring, published, batch, rot, defer, wake, source, pendingSlot>>
  BY DEF GrabFailed, GrabLost, LoopExit
<1>1. WindowKeep' /\ PlainInv' /\ (published > 0 => (Kept(published - 1)' <=> Kept(published - 1)))
  BY <1>0, QuietStep DEF QuietRing
<1>2. BatchInv' /\ WakeInv'
  BY <1>0 DEF KeepInv, BatchInv, WakeInv
<1>3. WaitingInv'
  BY <1>0, <1>1 DEF KeepInv, WaitingInv, DeferOn, SlotOf, Kept, At
<1> QED
  BY <1>1, <1>2, <1>3 DEF KeepInv

\* The GPU and the present thread change nothing the keep rule is about.
LEMMA OthersKeep ==
    ASSUME TypeOK, KeepInv, GpuDone \/ AskStop \/ Joined \/ UNCHANGED vars PROVE KeepInv'
<1> USE DEF sharedVars, stopVars, policyVars, sourceVars, gpuVars, loopVars
<1>1. UNCHANGED <<mode, ring, published, batch, rot, defer, wake, source, pendingSlot, pc>>
  BY DEF GpuDone, AskStop, Joined, vars
<1>2. BatchInv' /\ PlainInv' /\ WakeInv' /\ WaitingInv'
  BY <1>1 DEF KeepInv, BatchInv, PlainInv, WakeInv, WaitingInv, DeferOn, SlotOf, Kept, At
<1>3. WindowKeep'
  BY <1>1 DEF KeepInv, WindowKeep, NameInv, OpenInv, PairInv, RealInv, Window, Kept, At, SlotOf
<1> QED
  BY <1>2, <1>3 DEF KeepInv

LEMMA GrabFrameKeep == ASSUME TypeOK, KeepInv, GrabFrame PROVE KeepInv'
<1>0. /\ pc = "grab" /\ pc' = "place" /\ wake' = NoWake /\ ring' = Confirmed(ring, copying)
      /\ UNCHANGED <<mode, published, rot, defer, source, pendingSlot>>
  BY DEF GrabFrame
<1>1. PICK intra \in BOOLEAN, long \in BOOLEAN :
          /\ intra => published > 0
          /\ batch' = UpdateBatch(batch, published, intra, long)
  BY DEF GrabFrame
<1>2. batch'.start \in {batch.start, published}
  BY <1>1 DEF UpdateBatch, TypeOK, Batches
<1>3. WindowKeep' /\ PlainInv' /\ (published > 0 => (Kept(published - 1)' <=> Kept(published - 1)))
  BY <1>0, <1>2, QuietStep DEF QuietRing
<1>4. BatchInv' /\ WakeInv'
  <2>1. batch'.start + batch'.member = published
    BY <1>0, <1>1 DEF KeepInv, BatchInv, UpdateBatch, TypeOK, Batches
  <2> QED
    BY <1>0, <2>1 DEF BatchInv, WakeInv
<1>5. WaitingInv'
  BY <1>0, <1>3 DEF KeepInv, WaitingInv, DeferOn, SlotOf, Kept, At
<1> QED
  BY <1>3, <1>4, <1>5 DEF KeepInv

LEMMA PlaceKeep == ASSUME TypeOK, KeepInv, Place PROVE KeepInv'
<1>0. /\ pc = "place" /\ pc' = (IF wake'.waits THEN "open" ELSE "store")
      /\ UNCHANGED <<mode, published, batch, rot, source>>
      /\ wake = NoWake
  BY DEF Place, KeepInv, WakeInv
<1>1. QuietRing /\ pendingSlot' = NoSlot
  BY DEF Place, QuietRing, KeepInv, WaitingInv
<1>2. WindowKeep' /\ PlainInv'
  BY <1>0, <1>1, QuietStep
<1>3. BatchInv' /\ WaitingInv'
  BY <1>0, <1>1 DEF KeepInv, BatchInv, WaitingInv
<1>4. WakeInv'
  <2>0. \/ ~wake'.waits /\ wake'.replaced = NoSlot
        \/ /\ DeferOn /\ source = "nvfbc" /\ defer' = DecideDefer(defer, batch)
           /\ wake'.waits = DeferThis(defer, batch)
           /\ \/ wake'.replaced = NoSlot
              \/ /\ defer.pending /\ pendingSlot # NoSlot /\ ~CopyPending(defer, batch)
                 /\ wake'.replaced = pendingSlot
    <3>1. CASE ~(source = "nvfbc" /\ DeferOn)
      BY <1>0, <3>1 DEF Place, NoWake
    <3>2. CASE source = "nvfbc" /\ DeferOn
      <4>1. defer' = DecideDefer(defer, batch)
        BY <3>2 DEF Place
      <4>2. CASE wake' = [NoWake EXCEPT !.waits = DeferThis(defer, batch)]
        BY <3>2, <4>1, <4>2 DEF NoWake
      <4>3. CASE /\ defer.pending /\ pendingSlot # NoSlot /\ ~CopyPending(defer, batch)
                 /\ wake' = [NoWake EXCEPT !.waits = DeferThis(defer, batch),
                                           !.replaced = pendingSlot]
        BY <3>2, <4>1, <4>3 DEF NoWake
      <4> QED
        BY <3>2, <4>2, <4>3 DEF Place
    <3> QED
      BY <3>1, <3>2
  <2>1. wake'.waits => DeferOn /\ source = "nvfbc" /\ defer'.pending /\ batch.member = 0
    BY <2>0 DEF DecideDefer, DeferThis
  <2>2. wake'.replaced # NoSlot => DeferOn /\ batch.member > 0 /\ wake'.replaced = SlotOf(published - 1)
    <3> SUFFICES ASSUME wake'.replaced # NoSlot
                 PROVE  DeferOn /\ batch.member > 0 /\ wake'.replaced = SlotOf(published - 1)
      OBVIOUS
    <3>1. DeferOn /\ defer.pending /\ ~CopyPending(defer, batch) /\ wake'.replaced = pendingSlot
          /\ pendingSlot # NoSlot
      BY <2>0
    <3>2. batch.member \in Nat /\ batch.member # 0
      BY <3>1 DEF CopyPending, TypeOK, Batches
    <3> QED
      BY <3>1, <3>2 DEF KeepInv, WaitingInv
  <2> QED
    BY <1>0, <2>1, <2>2 DEF WakeInv, DeferOn, SlotOf
<1> QED
  BY <1>2, <1>3, <1>4 DEF KeepInv

LEMMA StoreKeep == ASSUME TypeOK, KeepInv, Store PROVE KeepInv'
<1>0. /\ pc = "store" /\ pc' = "open" /\ pendingSlot' = NoSlot
      /\ UNCHANGED <<mode, published, batch, rot, defer, source>>
      /\ wake'.waits = FALSE /\ wake'.replaced = wake.replaced
      /\ ~DeferOn => UNCHANGED ring /\ wake'.ready
  BY DEF Store, policyVars, KeepInv, WakeInv, WaitingInv, NoWait, TypeOK
<1>1. \A s \in Slots : SameFrame(ring'[s], ring[s])
  BY DEF Store, SameFrame, TypeOK, Slot
<1>2. WindowKeep'
  BY <1>0, <1>1, QuietWindow, WindowApart DEF KeepInv
<1>3. BatchInv' /\ WaitingInv' /\ PlainInv'
  BY <1>0 DEF KeepInv, BatchInv, WaitingInv, PlainInv, DeferOn
<1>4. WakeInv'
  BY <1>0 DEF KeepInv, WakeInv, DeferOn, SlotOf
<1> QED
  BY <1>2, <1>3, <1>4 DEF KeepInv

\* A frame is brought back only as the only one of its batch.
LEMMA OpenBatchKeep == ASSUME TypeOK, KeepInv, OpenBatch PROVE KeepInv'
<1> DEFINE prev == SlotOf(published - 1)
           back == /\ batch.member = 0 /\ mode.phaseKeep
                   /\ rot.keeper = 1 /\ rot.last = 0 /\ published >= 1
<1>0. /\ pc = "open" /\ pc' = "publish" /\ pendingSlot = NoSlot
      /\ UNCHANGED <<mode, published, batch, defer, source, pendingSlot, wake>>
      /\ rot'.last = rot.last
      /\ rot' = rot \/ (batch.member = 0 /\ mode.phaseKeep)
  BY DEF OpenBatch, sourceVars, loopVars, KeepInv, WaitingInv, TypeOK
<1>1. ring' = IF back THEN BroughtBack(ring, prev, rot.start + rot.spacing) ELSE ring
  BY DEF OpenBatch
<1>2. /\ Window' = Window /\ (\A i : SlotOf(i)' = SlotOf(i)) /\ Window \subseteq Int
      /\ published \in Nat /\ (\A i \in Window : i < published /\ published > 0)
      /\ \A i \in Window : SlotOf(i) \in Slots
  <2>1. Window' = Window /\ \A i : SlotOf(i)' = SlotOf(i)
    BY <1>0 DEF Window, SlotOf
  <2>2. published \in Nat /\ \A i \in Window : i < published /\ published > 0
    BY DEF Window, TypeOK
  <2> QED
    BY <2>1, <2>2, WindowApart
<1>3. /\ \A s \in Slots : /\ ring'[s].batchStart = ring[s].batchStart
                          /\ ring'[s].member = ring[s].member
                          /\ ~back \/ s # prev => ring'[s] = ring[s]
      /\ PlainInv'
  <2>1. CASE ~back
    BY <1>0, <1>1, <2>1 DEF KeepInv, PlainInv, DeferOn
  <2>2. CASE back
    <3>1. ~DeferOn /\ \A s \in Slots : ~ring[s].copyInFlight /\ ~ring[s].awaitingCopy
      BY <2>2 DEF DeferOn, KeepInv, PlainInv
    <3>2. prev \in Slots
      BY SlotType, <1>2
    <3>3. ring' = [ring EXCEPT ![prev].timestamp = rot.start + rot.spacing, ![prev].valid = TRUE]
      BY <1>1, <2>2, <3>1, <3>2 DEF BroughtBack
    <3>4. \A s \in Slots : /\ ring'[s].batchStart = ring[s].batchStart
                           /\ ring'[s].member = ring[s].member
                           /\ s # prev => ring'[s] = ring[s]
                           /\ ring'[s].copyInFlight = ring[s].copyInFlight
                           /\ ring'[s].awaitingCopy = ring[s].awaitingCopy
      BY <3>2, <3>3 DEF TypeOK, Slot
    <3>5. PlainInv'
      BY <3>1, <3>4 DEF PlainInv
    <3> QED
      BY <2>2, <3>4, <3>5
  <2> QED
    BY <2>1, <2>2
<1>4. \A i \in Window : /\ At(i)'.batchStart = At(i).batchStart
                        /\ At(i)'.member = At(i).member
                        /\ ~back \/ i # published - 1 => (Kept(i)' <=> Kept(i))
  <2>1. \A i \in Window : i # published - 1 => SlotOf(i) # prev
    <3>1. published > 0 => published - 1 \in Window
      BY NewestInWindow
    <3> QED
      BY <1>2, <3>1, WindowApart
  <2> QED
    BY <1>2, <1>3, <2>1 DEF At, Kept
<1>5. NameInv'
  BY <1>0, <1>2, <1>4, NewestInWindow DEF KeepInv, WindowKeep, NameInv
<1>6. \A i \in Window : At(i).batchStart \in Nat /\ At(i).batchStart <= i
  BY OlderStart DEF KeepInv, WindowKeep
<1>7. OpenInv'
  <2>1. CASE batch.member = 0
    <3>1. batch.start = published
      BY <1>0, <2>1 DEF KeepInv, BatchInv, TypeOK, Batches
    <3>2. \A i \in Window : At(i).batchStart # published
      BY <1>2, <1>6
    <3> QED
      BY <1>0, <1>2, <1>4, <3>1, <3>2 DEF OpenInv
  <2>2. CASE batch.member # 0
    BY <1>0, <1>2, <1>4, <2>2 DEF OpenInv, KeepInv, WindowKeep
  <2> QED
    BY <2>1, <2>2
<1>8. PairInv'
  <2> SUFFICES ASSUME NEW i \in Window, NEW j \in Window, i < j,
                      At(i).batchStart = At(j).batchStart, Kept(i)', Kept(j)'
               PROVE  FALSE
    BY <1>2, <1>4 DEF PairInv
  <2>1. i # published - 1
    BY <1>2
  <2>2. CASE back /\ j = published - 1
    <3>1. At(j).member = 0 /\ At(j).batchStart + At(j).member = j
      <4>1. rot.last = 0 /\ published > 0
        BY <1>2, <2>2
      <4>2. At(published - 1).member = 0
        BY <4>1 DEF KeepInv, WindowKeep, NameInv
      <4> QED
        BY <2>2, <4>2 DEF KeepInv, WindowKeep, NameInv
    <3> QED
      BY <1>2, <1>6, <3>1
  <2>3. CASE ~back \/ j # published - 1
    BY <1>0, <1>4, <2>1, <2>3 DEF KeepInv, WindowKeep, PairInv
  <2> QED
    BY <2>2, <2>3
<1>9. RealInv'
  <2> SUFFICES ASSUME ~mode.phaseKeep PROVE RealInv'
    BY <1>0 DEF RealInv
  <2>1. \A i \in Window : i # published - 1 => i + 1 \in Window
    BY RingAssumption DEF Window, TypeOK
  <2>2. rot' = rot /\ \A i \in Window : Kept(i)' <=> Kept(i)
    BY <1>0, <1>4
  <2> QED
    BY <1>0, <1>2, <1>4, <2>1, <2>2 DEF KeepInv, WindowKeep, RealInv
<1>10. BatchInv' /\ WakeInv' /\ WaitingInv'
  BY <1>0 DEF KeepInv, BatchInv, WakeInv, WaitingInv, DeferOn, SlotOf
<1> QED
  BY <1>3, <1>5, <1>7, <1>8, <1>9, <1>10 DEF KeepInv, WindowKeep

LEMMA PublishKeep == ASSUME TypeOK, KeepInv, Publish PROVE KeepInv'
<1> DEFINE s == SlotOf(published)
           kept == KeepThis(batch, rot.keeper)
<1> PICK n \in Nat : n = published
  BY DEF TypeOK
<1>0. /\ pc = "publish" /\ pc' = "settle" /\ published' = published + 1 /\ pendingSlot = NoSlot
      /\ rot'.last = batch.member /\ rot'.keeper = rot.keeper
      /\ UNCHANGED <<mode, batch, defer, source, pendingSlot, wake>>
  BY DEF Publish, sourceVars, loopVars, KeepInv, WaitingInv, TypeOK
<1>1. /\ published \in Nat /\ s \in Slots /\ N \in Nat /\ N >= 3
      /\ batch.start \in Nat /\ batch.member \in Nat
      /\ batch.start + batch.member = published
      /\ rot.keeper \in Int
  BY <1>0, SlotType, RingAssumption DEF TypeOK, Batches, KeepInv, BatchInv
<1>2. /\ ring'[s].batchStart = batch.start
      /\ ring'[s].member = batch.member
      /\ ring'[s].valid = (kept /\ wake.ready)
      /\ ring'[s].awaitingCopy = (kept /\ ~wake.ready)
      /\ ring'[s].copyInFlight = ring[s].copyInFlight
      /\ \A t \in Slots : t # s => ring'[t] = ring[t]
  BY <1>1 DEF Publish, TypeOK
<1> HIDE DEF kept
<1>3. (\A i : SlotOf(i)' = SlotOf(i)) /\ Window \subseteq Int
      /\ \A i \in Window' : i = published \/ i \in Window
  BY <1>0, <1>1, WindowApart DEF SlotOf, Window
<1>4. \A i \in Window : /\ At(i)' = At(i) /\ (Kept(i)' <=> Kept(i)) /\ i < published
                        /\ At(i).batchStart \in Nat /\ At(i).batchStart <= i
                        /\ At(i).batchStart + At(i).member = i
  <2>1. \A i \in Window : SlotOf(i) # s /\ SlotOf(i) \in Slots /\ i < published
    BY <1>1, WindowApart DEF Window
  <2> QED
    BY <1>2, <1>3, <2>1, OlderStart DEF At, Kept, KeepInv, WindowKeep, NameInv
<1>5. /\ At(n)'.batchStart = batch.start /\ At(n)'.member = batch.member
      /\ Kept(n)' <=> kept
  BY <1>2, <1>3 DEF At, Kept
<1>6. \A i \in Window : At(i).batchStart = batch.start /\ Kept(i) =>
          IF rot.keeper < 0 THEN i = published - 1 ELSE At(i).member = rot.keeper
  BY <1>0 DEF KeepInv, WindowKeep, OpenInv
<1>7. kept => rot.keeper < 0 \/ batch.member = rot.keeper
  BY DEF kept, KeepThis
<1>8. NameInv'
  <2>1. At(published - 1)' = At(n)' /\ (Kept(published - 1)' <=> Kept(n)')
    BY <1>0 DEF Kept, At, SlotOf
  <2>2. \A i \in Window' : At(i)'.batchStart + At(i)'.member = i
    BY <1>1, <1>3, <1>4, <1>5
  <2> QED
    BY <1>0, <1>1, <1>5, <1>7, <2>1, <2>2 DEF NameInv
<1>9. OpenInv'
  <2> SUFFICES ASSUME NEW i \in Window', At(i)'.batchStart = batch.start, Kept(i)'
               PROVE  IF rot.keeper < 0 THEN i = published \/ i = published - 1
                                        ELSE At(i)'.member = rot.keeper
    BY <1>0, <1>1 DEF OpenInv
  <2>1. CASE i = published
    BY <1>5, <1>7, <2>1
  <2>2. CASE i \in Window
    BY <1>4, <1>6, <2>2
  <2> QED
    BY <1>3, <2>1, <2>2
<1>10. PairInv'
  <2> SUFFICES ASSUME NEW i \in Window', NEW j \in Window', i < j,
                      At(i)'.batchStart = At(j)'.batchStart, Kept(i)', Kept(j)'
               PROVE  i = published - 1 /\ RetractPrev(batch, rot.keeper)
    BY <1>0, <1>1 DEF PairInv
  <2>1. i \in Window
    <3>1. j <= published /\ i \in Int /\ j \in Int
      BY <1>0, <1>1 DEF Window
    <3> QED
      BY <1>1, <1>3, <3>1
  <2>2. CASE j \in Window
    BY <1>0, <1>4, <2>1, <2>2 DEF KeepInv, WindowKeep, PairInv
  <2>3. CASE j = published
    <3>1. kept /\ At(i).batchStart = batch.start /\ Kept(i)
      BY <1>4, <1>5, <2>1, <2>3
    <3>2. rot.keeper < 0
      BY <1>1, <1>4, <1>6, <1>7, <2>1, <3>1
    <3>3. i = published - 1 /\ batch.member > 0
      BY <1>1, <1>4, <1>6, <2>1, <3>1, <3>2
    <3> QED
      BY <3>1, <3>3 DEF kept, RetractPrev
  <2> QED
    BY <1>3, <2>2, <2>3
<1>11. RealInv'
  <2> SUFFICES ASSUME ~mode.phaseKeep PROVE RealInv'
    BY <1>0 DEF RealInv
  <2>1. rot.keeper = -1 /\ kept
    BY DEF KeepInv, WindowKeep, RealInv, kept, KeepThis
  <2>2. ASSUME NEW i \in Window'
        PROVE  Kept(i)' <=> i = published \/ i = published - 1 \/ At(i + 1)'.member = 0
    <3>1. CASE i = published
      BY <1>5, <2>1, <3>1
    <3>2. CASE i \in Window /\ i = published - 1
      BY <1>4, <3>2 DEF KeepInv, WindowKeep, RealInv
    <3>3. CASE i \in Window /\ i # published - 1
      <4>1. i + 1 \in Window /\ i # published
        BY <1>1, <3>3 DEF Window
      <4>2. Kept(i) <=> At(i + 1).member = 0
        BY <1>0, <3>3 DEF KeepInv, WindowKeep, RealInv
      <4> QED
        BY <1>4, <3>3, <4>1, <4>2
    <3> QED
      BY <1>3, <3>1, <3>2, <3>3
  <2> QED
    BY <1>0, <1>1, <2>1, <2>2 DEF RealInv
<1>12. BatchInv' /\ WaitingInv'
  BY <1>0, <1>1 DEF BatchInv, WaitingInv
<1>13. PlainInv'
  BY <1>0, <1>2 DEF KeepInv, PlainInv, WakeInv, DeferOn
<1>14. WakeInv'
  <2>1. Kept(published - 1)' <=> KeepThis(batch', rot'.keeper)
    BY <1>0, <1>1, <1>5 DEF kept
  <2> QED
    BY <1>0, <1>1, <2>1 DEF KeepInv, WakeInv, DeferOn, SlotOf
<1> QED
  BY <1>8, <1>9, <1>10, <1>11, <1>12, <1>13, <1>14 DEF KeepInv, WindowKeep

\* The frame a wake has replaced is the member before it, which is taken back.
LEMMA ReplacedTakenBack ==
    ASSUME TypeOK, KeepInv, pc = "settle", wake.replaced # NoSlot
    PROVE  /\ RetractPrev(batch, rot.keeper) /\ published >= 2
           /\ wake.replaced = SlotOf(published - 2)
<1>1. DeferOn /\ batch.member > 0 /\ wake.replaced = SlotOf(published - 2)
  BY DEF KeepInv, WakeInv
<1>2. rot.keeper = -1
  BY <1>1 DEF DeferOn, KeepInv, WindowKeep, RealInv
<1>3. published >= 2
  BY <1>1 DEF KeepInv, BatchInv, TypeOK, Batches
<1> QED
  BY <1>1, <1>2, <1>3 DEF RetractPrev, KeepThis

\* What settling does to the slots: one frame, if any, is taken back, and that
\* is also the only one a wake ever replaces.
LEMMA SettleSlots ==
    ASSUME TypeOK, KeepInv, Settle
    PROVE  LET retract == RetractPrev(batch, rot.keeper) /\ published >= 2
               prev == SlotOf(published - 2)
           IN  \A s \in Slots :
                  /\ ring'[s].batchStart = ring[s].batchStart
                  /\ ring'[s].member = ring[s].member
                  /\ ring'[s].timestamp = ring[s].timestamp
                  /\ ring'[s].copyInFlight = ring[s].copyInFlight
                  /\ ring'[s].valid = (ring[s].valid /\ ~(retract /\ s = prev))
                  /\ ring'[s].awaitingCopy = (ring[s].awaitingCopy /\ ~(retract /\ s = prev))
<1> DEFINE retract == RetractPrev(batch, rot.keeper) /\ published >= 2
           prev == SlotOf(published - 2)
           dropped == IF wake.replaced # NoSlot THEN NotAwaited(ring, wake.replaced) ELSE ring
<1>0. ring' = (IF retract THEN TakenBack(dropped, prev) ELSE dropped) /\ pc = "settle"
  BY DEF Settle
<1>1. wake.replaced # NoSlot => retract /\ wake.replaced = prev
  BY <1>0, ReplacedTakenBack
<1>2. prev \in Slots
  BY SlotType DEF TypeOK
<1>3. CASE ~retract
  <2>1. ring' = ring
    BY <1>0, <1>1, <1>3
  <2> QED
    BY <1>3, <2>1 DEF TypeOK, Slot
<1>4. CASE retract
  <2>1. ring' = [ring EXCEPT ![prev].valid = FALSE, ![prev].awaitingCopy = FALSE]
    <3>1. CASE wake.replaced = NoSlot
      BY <1>0, <1>4, <3>1 DEF TakenBack
    <3>2. CASE wake.replaced # NoSlot
      BY <1>0, <1>1, <1>2, <1>4, <3>2 DEF TakenBack, NotAwaited, TypeOK, Slot
    <3> QED
      BY <3>1, <3>2
  <2> QED
    BY <1>2, <1>4, <2>1 DEF TypeOK, Slot
<1> QED
  BY <1>3, <1>4

LEMMA SettleKeep == ASSUME TypeOK, KeepInv, Settle PROVE KeepInv'
<1> DEFINE retract == RetractPrev(batch, rot.keeper) /\ published >= 2
<1>0. /\ pc = "settle" /\ pc' = "wait" /\ pendingSlot = NoSlot
      /\ UNCHANGED <<mode, published, batch, defer, source, rot>>
  BY DEF Settle, policyVars, loopVars, KeepInv, WaitingInv
<1>1. /\ published \in Nat /\ published > 0
      /\ batch.start \in Nat /\ batch.member \in Nat
      /\ batch.start + batch.member = published - 1
      /\ rot.keeper \in Int
      /\ retract \in BOOLEAN
  BY <1>0 DEF TypeOK, Batches, KeepInv, BatchInv
<1>2. retract <=> KeepThis(batch, rot.keeper) /\ batch.member > 0
  BY <1>1 DEF RetractPrev
<1> HIDE DEF retract
<1>3. Window' = Window /\ (\A i : SlotOf(i)' = SlotOf(i)) /\ Window \subseteq Int
      /\ (\A i \in Window : i < published /\ i >= 0)
  <2>1. Window' = Window /\ \A i : SlotOf(i)' = SlotOf(i)
    BY <1>0 DEF Window, SlotOf
  <2>2. \A i \in Window : i < published /\ i >= 0 /\ i \in Int
    BY DEF Window, TypeOK
  <2> QED
    BY <2>1, <2>2
<1>4. \A i \in Window : /\ At(i)'.batchStart = At(i).batchStart
                        /\ At(i)'.member = At(i).member
                        /\ Kept(i)' <=> (Kept(i) /\ ~(retract /\ i = published - 2))
  <2>1. \A i \in Window : SlotOf(i) \in Slots
                          /\ (SlotOf(i) = SlotOf(published - 2) /\ published >= 2
                                <=> i = published - 2)
    <3>1. published >= 2 => published - 2 \in Window
      BY NewestInWindow, <1>1
    <3>2. published - 2 \in Window => published >= 2
      BY <1>1, <1>3
    <3> QED
      BY <3>1, <3>2, WindowApart
  <2>2. retract => published >= 2
    BY DEF retract
  <2>3. \A s \in Slots :
          /\ ring'[s].batchStart = ring[s].batchStart
          /\ ring'[s].member = ring[s].member
          /\ ring'[s].valid = (ring[s].valid /\ ~(retract /\ s = SlotOf(published - 2)))
          /\ ring'[s].awaitingCopy = (ring[s].awaitingCopy
                                        /\ ~(retract /\ s = SlotOf(published - 2)))
    BY SettleSlots DEF retract
  <2> QED
    BY <1>3, <2>1, <2>2, <2>3 DEF At, Kept
<1>5. NameInv'
  BY <1>0, <1>1, <1>3, <1>4, NewestInWindow DEF KeepInv, WindowKeep, NameInv
<1>6. \A i \in Window : At(i).batchStart \in Nat /\ At(i).batchStart <= i
  BY OlderStart DEF KeepInv, WindowKeep
<1>7. OpenInv'
  <2> SUFFICES ASSUME NEW i \in Window, At(i).batchStart = batch.start, Kept(i)'
               PROVE  IF rot.keeper < 0 THEN i = published - 1 ELSE At(i).member = rot.keeper
    BY <1>0, <1>3, <1>4 DEF OpenInv
  <2>1. IF rot.keeper < 0 THEN i = published - 1 \/ i = published - 2
                          ELSE At(i).member = rot.keeper
    BY <1>4 DEF KeepInv, WindowKeep, OpenInv
  <2>2. rot.keeper < 0 /\ i = published - 2 => FALSE
    <3> SUFFICES ASSUME rot.keeper < 0, i = published - 2 PROVE FALSE
      OBVIOUS
    <3>1. batch.member = 0
      BY <1>1, <1>2, <1>4 DEF KeepThis
    <3> QED
      BY <1>1, <1>6, <3>1
  <2> QED
    BY <2>1, <2>2
<1>8. PairInv'
  <2> SUFFICES ASSUME NEW i \in Window, NEW j \in Window, i < j,
                      At(i).batchStart = At(j).batchStart, Kept(i)', Kept(j)'
               PROVE  FALSE
    BY <1>3, <1>4 DEF PairInv
  <2>1. i = published - 2 /\ RetractPrev(batch, rot.keeper)
    BY <1>4 DEF KeepInv, WindowKeep, PairInv
  <2>2. retract
    BY <1>1, <1>3, <2>1 DEF retract
  <2> QED
    BY <1>4, <2>1, <2>2
<1>9. RealInv'
  <2> SUFFICES ASSUME ~mode.phaseKeep PROVE RealInv'
    BY <1>0 DEF RealInv
  <2>1. rot.keeper = -1 /\ (retract <=> batch.member > 0)
    BY <1>2 DEF KeepInv, WindowKeep, RealInv, KeepThis
  <2>2. ASSUME NEW i \in Window
        PROVE  Kept(i)' <=> i = published - 1 \/ At(i + 1)'.member = 0
    <3>0. Kept(i) <=> i = published - 1 \/ i = published - 2 \/ At(i + 1).member = 0
      BY <1>0 DEF KeepInv, WindowKeep, RealInv
    <3>1. CASE i = published - 1
      BY <1>1, <1>4, <3>0, <3>1
    <3>2. CASE i # published - 1
      <4>1. i + 1 \in Window
        BY <3>2, RingAssumption DEF Window, TypeOK
      <4>2. At(i + 1)'.member = At(i + 1).member
        BY <1>4, <4>1
      <4>3. i = published - 2 => At(i + 1).member = batch.member
        <5>1. At(published - 1).member = batch.member
          BY <1>0, <1>1 DEF KeepInv, WindowKeep, NameInv
        <5>2. i = published - 2 => i + 1 = published - 1
          BY <1>1
        <5> QED
          BY <5>1, <5>2
      <4> QED
        BY <1>1, <1>4, <2>1, <3>0, <3>2, <4>2, <4>3
    <3> QED
      BY <3>1, <3>2
  <2> QED
    BY <1>0, <1>3, <2>1, <2>2 DEF RealInv
<1>10. PlainInv'
  BY <1>0, SettleSlots DEF KeepInv, PlainInv, DeferOn
<1>11. BatchInv' /\ WakeInv'
  BY <1>0, <1>1 DEF BatchInv, WakeInv
<1>12. WaitingInv'
  <2> SUFFICES ASSUME pendingSlot' # NoSlot PROVE WaitingInv'
    BY DEF WaitingInv
  <2>1. wake.waits /\ KeepThis(batch, rot.keeper) /\ pendingSlot' = SlotOf(published - 1)
    BY <1>0 DEF Settle
  <2>2. DeferOn /\ source = "nvfbc" /\ defer.pending /\ Kept(published - 1)
    BY <1>0, <2>1 DEF KeepInv, WakeInv
  <2>3. Kept(published - 1)'
    <3>1. published - 1 \in Window /\ published - 1 # published - 2
      BY <1>1, NewestInWindow
    <3>2. \A i \in Window : i # published - 2 => (Kept(i)' <=> Kept(i))
      BY <1>4
    <3>3. PICK m \in Window : m = published - 1
      BY <3>1
    <3>4. Kept(published - 1)' <=> Kept(m)'
      BY <1>0, <3>3 DEF Kept, At, SlotOf
    <3> QED
      BY <2>2, <3>1, <3>2, <3>3, <3>4
  <2> QED
    BY <1>0, <1>1, <1>3, <2>1, <2>2, <2>3 DEF WaitingInv, DeferOn
<1> QED
  BY <1>5, <1>7, <1>8, <1>9, <1>10, <1>11, <1>12 DEF KeepInv, WindowKeep

-----------------------------------------------------------------------------
LEMMA KeepInit == Init => KeepInv
<1> SUFFICES ASSUME Init PROVE KeepInv
  OBVIOUS
<1>1. Window = {}
  BY DEF Init, Window
<1>2. BatchInv /\ WakeInv /\ WaitingInv /\ PlainInv
  BY DEF Init, BatchInv, WakeInv, WaitingInv, PlainInv, EmptySlot, NoSlot
<1>3. WindowKeep
  BY <1>1 DEF Init, WindowKeep, NameInv, OpenInv, PairInv, RealInv
<1> QED
  BY <1>2, <1>3 DEF KeepInv

LEMMA KeepStep == TypeOK /\ KeepInv /\ [Next]_vars => KeepInv'
BY OpenWgcKeep, BeginGrabKeep, GrabFrameKeep, GrabTimeoutKeep, GrabOverKeep, PlaceKeep, StoreKeep,
   OpenBatchKeep, PublishKeep, SettleKeep, OthersKeep DEF Next, Wake

\* KeepInv holds in every reachable state, after Stop() too: the policy's
\* batches, the flags of the window's slots, and what the wake in hand and the
\* source still mean to do with them always fit together.
THEOREM KeepInvariant == Spec => []KeepInv
<1>1. Init => KeepInv
  BY KeepInit
<1>2. TypeOK /\ KeepInv /\ [Next]_vars => KeepInv'
  BY KeepStep
<1> QED
  BY <1>1, <1>2, TypeCorrect, PTL DEF Spec

\* Plain keep-real (no -phasekeep): between wakes the kept frames of the window
\* are exactly the last members of their batches, whatever was deferred,
\* replaced, turned on late or taken back on the way.
THEOREM RealKept == Spec => []KeepReal
<1>1. KeepInv => KeepReal
  BY DEF KeepInv, WindowKeep, RealInv, KeepReal
<1> QED
  BY <1>1, KeepInvariant, PTL

\* Whatever the keep rule and however the rotation's guidance changes between
\* batches, no batch has two frames kept between wakes.
THEOREM OneKept == Spec => []OneKeptPerBatch
<1>1. TypeOK /\ KeepInv => OneKeptPerBatch
  <2> SUFFICES ASSUME TypeOK, KeepInv, pc = "wait", NEW i \in Window, NEW j \in Window,
                      Kept(i), Kept(j), At(i).batchStart = At(j).batchStart, i # j
               PROVE  FALSE
    BY DEF OneKeptPerBatch
  <2>1. i < j \/ j < i
    BY WindowApart
  <2> QED
    BY <2>1 DEF KeepInv, WindowKeep, PairInv
<1> QED
  BY <1>1, TypeCorrect, KeepInvariant, PTL

-----------------------------------------------------------------------------
(* A frame published ahead of its picture can still get it, action by      *)
(* action, while the present thread has not stopped the capture.           *)

\* Looking for copies found done: an awaited frame's copy is not among them.
LEMMA LookAwaited ==
    ASSUME TypeOK, KeepInv, AwaitedInv, QuietRing,
           pc \in {"wait", "grab"}, pc' \in {"wait", "grab", "place", "done"},
           UNCHANGED published,
           NEW busy, inFlightSlot' = StillInFlight(busy),
           \/ ring' = Confirmed(ring, busy) /\ pendingSlot' = pendingSlot
           \/ pendingSlot # NoSlot /\ ring' = TurnOn(Confirmed(ring, busy), pendingSlot)
    PROVE  AwaitedInv'
<1>1. Window' = Window /\ \A i : SlotOf(i)' = SlotOf(i)
  BY DEF Window, SlotOf
<1>2. ASSUME NEW i \in Window, At(i)'.awaitingCopy
      PROVE  pendingSlot' = SlotOf(i) \/ \E b \in Buffers : inFlightSlot'[b] = SlotOf(i)
  <2>1. SlotOf(i) \in Slots /\ ring'[SlotOf(i)].awaitingCopy /\ SlotOf(i) # NoSlot
    BY <1>1, <1>2, WindowApart DEF At, Slots, NoSlot
  <2>2. At(i).awaitingCopy
    BY <2>1, QuietSlots DEF At, Arrives, KeepInv
  <2>3. ~\E b \in Buffers \ busy : inFlightSlot[b] = SlotOf(i)
    <3>1. Confirmed(ring, busy)[SlotOf(i)].awaitingCopy
      BY <2>1, ConfirmedType DEF TurnOn, TypeOK, Slot
    <3> QED
      BY <2>1, <3>1 DEF Confirmed, TypeOK, Slot
  <2>4. pendingSlot = SlotOf(i) => pendingSlot' = SlotOf(i)
    BY <2>1, ConfirmedType DEF TurnOn, TypeOK, Slot
  <2>5. pendingSlot = SlotOf(i) \/ \E b \in Buffers : inFlightSlot[b] = SlotOf(i)
    BY <2>2 DEF AwaitedInv
  <2> QED
    BY <2>3, <2>4, <2>5 DEF StillInFlight
<1> QED
  BY <1>1, <1>2 DEF AwaitedInv

\* Nothing that AwaitedInv is about changes.
LEMMA SameAwaited ==
    ASSUME AwaitedInv, UNCHANGED <<ring, published, pendingSlot, inFlightSlot, wake>>,
           \/ pc' = pc
           \/ pc \in {"wait", "grab"} /\ pc' \in {"wait", "grab", "done"}
    PROVE  AwaitedInv'
<1>1. Window' = Window /\ \A i : SlotOf(i)' = SlotOf(i) /\ At(i)' = At(i)
  BY DEF Window, SlotOf, At
<1> QED
  BY <1>1 DEF AwaitedInv

LEMMA PlaceAwaited == ASSUME TypeOK, KeepInv, AwaitedInv, Place PROVE AwaitedInv'
<1>0. /\ pc = "place" /\ pc' = (IF wake'.waits THEN "open" ELSE "store")
      /\ UNCHANGED <<published, inFlightSlot>>
      /\ wake = NoWake
  BY DEF Place, KeepInv, WakeInv
<1>1. Window' = Window /\ \A i : SlotOf(i)' = SlotOf(i)
  BY <1>0 DEF Window, SlotOf
<1>2. QuietRing /\ (ring' = TurnOn(ring, pendingSlot)
                      \/ pendingSlot = NoSlot \/ wake'.replaced = pendingSlot)
  BY DEF Place, QuietRing, KeepInv, WaitingInv, NoWake
<1>3. ASSUME NEW i \in Window, At(i)'.awaitingCopy
      PROVE  (\E b \in Buffers : inFlightSlot'[b] = SlotOf(i)) \/ wake'.replaced = SlotOf(i)
  <2>1. SlotOf(i) \in Slots /\ ring'[SlotOf(i)].awaitingCopy /\ SlotOf(i) # NoSlot
    BY <1>1, <1>3, WindowApart DEF At, Slots, NoSlot
  <2>2. At(i).awaitingCopy
    BY <1>2, <2>1, QuietSlots DEF At, Arrives, KeepInv
  <2>3. pendingSlot = SlotOf(i) => wake'.replaced = SlotOf(i)
    BY <1>2, <2>1 DEF TurnOn, TypeOK, Slot
  <2>4. pendingSlot = SlotOf(i) \/ \E b \in Buffers : inFlightSlot[b] = SlotOf(i)
    BY <1>0, <2>2 DEF AwaitedInv
  <2> QED
    BY <1>0, <2>3, <2>4
<1> QED
  BY <1>0, <1>1, <1>3 DEF AwaitedInv

LEMMA StoreAwaited == ASSUME TypeOK, KeepInv, FlightInv, AwaitedInv, Store PROVE AwaitedInv'
<1>0. /\ pc = "store" /\ pc' = "open" /\ pendingSlot' = pendingSlot /\ pendingSlot = NoSlot
      /\ published' = published /\ wake'.replaced = wake.replaced
      /\ inFlightSlot[bufferIdx] = NoSlot
      /\ bufferIdx \in Buffers /\ SlotOf(published) \in Slots
  BY SlotType DEF Store, KeepInv, WaitingInv, FlightInv, TypeOK
<1>1. Window' = Window /\ \A i : SlotOf(i)' = SlotOf(i)
  BY <1>0 DEF Window, SlotOf
<1>2. /\ \A s \in Slots : ring'[s].awaitingCopy = ring[s].awaitingCopy
      /\ \/ UNCHANGED inFlightSlot /\ wake'.ready
         \/ inFlightSlot' = [inFlightSlot EXCEPT ![bufferIdx] = SlotOf(published)]
  BY DEF Store, TypeOK, Slot
<1>3. ASSUME NEW i \in Window, At(i)'.awaitingCopy
      PROVE  \/ \E b \in Buffers : inFlightSlot'[b] = SlotOf(i)
             \/ wake'.replaced = SlotOf(i)
  <2>1. At(i).awaitingCopy /\ SlotOf(i) \in Slots /\ SlotOf(i) # NoSlot
    BY <1>1, <1>2, <1>3, WindowApart DEF At, Slots, NoSlot
  <2>2. (\E b \in Buffers : inFlightSlot[b] = SlotOf(i)) \/ wake.replaced = SlotOf(i)
    BY <1>0, <2>1 DEF AwaitedInv
  <2>3. \A b \in Buffers : inFlightSlot[b] # NoSlot => inFlightSlot'[b] = inFlightSlot[b]
    BY <1>0, <1>2 DEF TypeOK
  <2> QED
    BY <1>0, <2>1, <2>2, <2>3
<1>4. wake'.ready \/ inFlightSlot'[bufferIdx] = SlotOf(published)
  BY <1>0, <1>2 DEF TypeOK
<1> QED
  BY <1>0, <1>1, <1>3, <1>4 DEF AwaitedInv

LEMMA OpenBatchAwaited == ASSUME TypeOK, KeepInv, AwaitedInv, OpenBatch PROVE AwaitedInv'
<1>0. /\ pc = "open" /\ pc' = "publish"
      /\ UNCHANGED <<published, pendingSlot, inFlightSlot, wake>>
  BY DEF OpenBatch, sourceVars, loopVars
<1>1. Window' = Window /\ \A i : SlotOf(i)' = SlotOf(i)
  BY <1>0 DEF Window, SlotOf
<1>2. \A s \in Slots : ring'[s].awaitingCopy => ring[s].awaitingCopy
  <2>1. CASE UNCHANGED ring
    BY <2>1
  <2>2. CASE ring' # ring
    <3>1. ~DeferOn
      BY <2>2 DEF OpenBatch, DeferOn
    <3>2. SlotOf(published - 1) \in Slots
          /\ \A s \in Slots : ~ring[s].copyInFlight /\ ~ring[s].awaitingCopy
      BY <3>1, SlotType DEF KeepInv, PlainInv, TypeOK
    <3>3. ring' = [ring EXCEPT ![SlotOf(published - 1)].timestamp = rot.start + rot.spacing,
                               ![SlotOf(published - 1)].valid = TRUE]
      BY <2>2, <3>2 DEF OpenBatch, BroughtBack
    <3> QED
      BY <3>2, <3>3 DEF TypeOK, Slot
  <2> QED
    BY <2>1, <2>2
<1>3. \A i \in Window : At(i)'.awaitingCopy => At(i).awaitingCopy
  BY <1>1, <1>2, WindowApart DEF At
<1> QED
  BY <1>0, <1>1, <1>3 DEF AwaitedInv

LEMMA PublishAwaited == ASSUME TypeOK, KeepInv, AwaitedInv, Publish PROVE AwaitedInv'
<1> PICK n \in Nat : n = published
  BY DEF TypeOK
<1>0. /\ pc = "publish" /\ pc' = "settle" /\ published' = published + 1
      /\ UNCHANGED <<pendingSlot, inFlightSlot, wake>>
  BY DEF Publish, sourceVars, loopVars
<1>1. /\ SlotOf(published) \in Slots /\ N \in Nat
      /\ \A i : SlotOf(i)' = SlotOf(i)
      /\ \A i \in Window' : i = published \/ i \in Window
  BY <1>0, SlotType, RingAssumption DEF TypeOK, SlotOf, Window
<1>2. /\ \A t \in Slots : t # SlotOf(published) => ring'[t] = ring[t]
      /\ ring'[SlotOf(published)].awaitingCopy => ~wake.ready
  BY <1>1 DEF Publish, TypeOK, KeepThis
<1>3. \A i \in Window : At(i)' = At(i)
  <2>1. \A i \in Window : SlotOf(i) # SlotOf(published) /\ SlotOf(i) \in Slots
    BY WindowApart DEF Window, TypeOK
  <2> QED
    BY <1>1, <1>2, <2>1 DEF At
<1>4. ASSUME NEW i \in Window', At(i)'.awaitingCopy
      PROVE  \/ pendingSlot = SlotOf(i)
             \/ wake.waits /\ i = published
             \/ \E b \in Buffers : inFlightSlot[b] = SlotOf(i)
             \/ wake.replaced = SlotOf(i)
  <2>1. CASE i = published
    <3>1. ~wake.ready
      BY <1>1, <1>2, <1>4, <2>1 DEF At
    <3> QED
      BY <1>0, <2>1, <3>1 DEF AwaitedInv
  <2>2. CASE i \in Window
    BY <1>0, <1>3, <1>4, <2>2 DEF AwaitedInv
  <2> QED
    BY <1>1, <2>1, <2>2
<1> QED
  BY <1>0, <1>1, <1>4 DEF AwaitedInv, TypeOK

LEMMA SettleAwaited == ASSUME TypeOK, KeepInv, AwaitedInv, Settle PROVE AwaitedInv'
<1>0. /\ pc = "settle" /\ pc' = "wait" /\ UNCHANGED <<published, inFlightSlot, wake>>
      /\ pendingSlot = NoSlot
  BY DEF Settle, loopVars, KeepInv, WaitingInv
<1>1. Window' = Window /\ \A i : SlotOf(i)' = SlotOf(i)
  BY <1>0 DEF Window, SlotOf
<1>2. wake.waits => pendingSlot' = SlotOf(published - 1)
  <2> SUFFICES ASSUME wake.waits PROVE pendingSlot' = SlotOf(published - 1)
    OBVIOUS
  <2>1. rot.keeper = -1
    BY <1>0 DEF KeepInv, WakeInv, DeferOn, WindowKeep, RealInv
  <2> QED
    BY <2>1 DEF Settle, KeepThis
<1>3. ASSUME NEW i \in Window, At(i)'.awaitingCopy
      PROVE  pendingSlot' = SlotOf(i) \/ \E b \in Buffers : inFlightSlot[b] = SlotOf(i)
  <2>1. SlotOf(i) \in Slots /\ ring'[SlotOf(i)].awaitingCopy /\ SlotOf(i) # NoSlot
    BY <1>1, <1>3, WindowApart DEF At, Slots, NoSlot
  <2>2. At(i).awaitingCopy /\ wake.replaced # SlotOf(i)
    BY <1>0, <2>1, SettleSlots, ReplacedTakenBack DEF At
  <2> QED
    BY <1>0, <1>2, <2>1, <2>2 DEF AwaitedInv
<1> QED
  BY <1>0, <1>1, <1>3 DEF AwaitedInv

\* Until Stop() every awaited frame is pending, in flight or just replaced.
AInv == ~asked => AwaitedInv

LEMMA AwaitedStep == IInv /\ KeepInv /\ AInv /\ [Next]_vars => AInv'
<1> SUFFICES ASSUME IInv, KeepInv, AInv, [Next]_vars, ~asked' PROVE AwaitedInv'
  BY DEF AInv
<1> USE DEF sharedVars, stopVars, policyVars, sourceVars, gpuVars, loopVars
<1>0. /\ TypeOK /\ ~AskStop
      /\ asked' = asked
  BY DEF IInv, Next, Wake, OpenWgc, BeginGrab, GrabFrame, GrabTimeout, GrabFailed, GrabLost,
         Place, Store, OpenBatch, Publish, Settle, LoopExit, GpuDone, AskStop, Joined, vars
<1>1. FlightInv /\ AwaitedInv
  BY <1>0 DEF IInv, AInv, CaptureInv
<1>2. CASE OpenWgc
  <2>1. pc = "wait" /\ pc' = "wait" /\ QuietRing
    BY <1>2 DEF OpenWgc, QuietRing
  <2>2. CASE UNCHANGED <<sharedVars, sourceVars, gpuVars, source>>
    BY <1>1, <1>2, <2>1, <2>2, SameAwaited DEF OpenWgc
  <2>3. CASE ~UNCHANGED <<sharedVars, sourceVars, gpuVars, source>>
    <3>1. /\ inFlightSlot' = StillInFlight(copying') /\ published' = published
          /\ \/ ring' = Confirmed(ring, copying') /\ pendingSlot' = pendingSlot
             \/ pendingSlot # NoSlot /\ ring' = TurnOn(Confirmed(ring, copying'), pendingSlot)
      BY <1>2, <2>3 DEF OpenWgc
    <3> QED
      BY <1>0, <1>1, <2>1, <3>1, LookAwaited
  <2> QED
    BY <2>2, <2>3
<1>3. CASE BeginGrab
  BY <1>0, <1>1, <1>3, LookAwaited DEF BeginGrab, QuietRing
<1>4. CASE GrabFrame
  BY <1>0, <1>1, <1>4, LookAwaited DEF GrabFrame, QuietRing
<1>5. CASE GrabTimeout
  <2>1. /\ pc = "grab" /\ pc' = "wait" /\ QuietRing /\ published' = published
        /\ inFlightSlot' = StillInFlight(copying')
        /\ \/ ring' = Confirmed(ring, copying') /\ pendingSlot' = pendingSlot
           \/ pendingSlot # NoSlot /\ ring' = TurnOn(Confirmed(ring, copying'), pendingSlot)
    BY <1>5 DEF GrabTimeout, QuietRing
  <2> QED
    BY <1>0, <1>1, <2>1, LookAwaited
<1>6. CASE GrabFailed \/ GrabLost \/ LoopExit
  BY <1>1, <1>6, SameAwaited DEF GrabFailed, GrabLost, LoopExit
<1>7. CASE GpuDone \/ Joined \/ UNCHANGED vars
  BY <1>1, <1>7, SameAwaited DEF GpuDone, Joined, vars
<1> QED
  BY <1>0, <1>1, <1>2, <1>3, <1>4, <1>5, <1>6, <1>7, PlaceAwaited, StoreAwaited,
     OpenBatchAwaited, PublishAwaited, SettleAwaited DEF Next, Wake

\* Where a frame is pending, in flight or about to be noted, its picture is too.
LEMMA AwaitedPicture ==
    ASSUME TypeOK, CaptureInv, AwaitedInv, NEW i \in Window, At(i).awaitingCopy
    PROVE  \/ pendingSlot = SlotOf(i) /\ buf[pendingBuf] = i
           \/ pc = "settle" /\ wake.waits /\ i = published - 1 /\ buf[GrabBuffer] = i
           \/ \E b \in Buffers :
                 /\ inFlightSlot[b] = SlotOf(i)
                 /\ IF b \in copying THEN buf[b] = i ELSE px[SlotOf(i)] = i
           \/ pc # "wait" /\ wake.replaced = SlotOf(i)
<1>1. SlotOf(i) # NoSlot
  BY WindowApart DEF Slots, NoSlot
<1>2. CASE pendingSlot = SlotOf(i)
  <2>1. /\ published > 0 /\ pendingSlot = SlotOf(published - 1)
        /\ buf[pendingBuf] = published - 1
    BY <1>1, <1>2 DEF CaptureInv, PendingInv
  <2>2. i = published - 1
    BY <1>2, <2>1, NewestInWindow, WindowApart
  <2> QED
    BY <1>2, <2>1, <2>2
<1>3. CASE pc = "settle" /\ wake.waits /\ i = published - 1
  BY <1>3 DEF CaptureInv, HandInv, GrabBuffer
<1>4. CASE \E b \in Buffers : inFlightSlot[b] = SlotOf(i)
  <2>1. PICK b \in Buffers : inFlightSlot[b] = SlotOf(i)
    BY <1>4
  <2>2. Flying(b) = i
    BY <1>1, <2>1, FlightApart, WindowApart DEF CaptureInv, FlightInv
  <2> QED
    BY <1>1, <2>1, <2>2 DEF CaptureInv, FlightInv
<1> QED
  BY <1>2, <1>3, <1>4 DEF AwaitedInv

\* A frame published ahead of its picture can still get it: until Stop(), its
\* picture waits in a buffer that no grab has written since, or is on its way,
\* or the frame is the one the wake in hand has replaced.
THEOREM AwaitedRecoverable == Spec => []AwaitedIsRecoverable
<1>1. Init => AInv
  BY DEF Init, AInv, AwaitedInv, Window
<1>2. IInv /\ KeepInv /\ AInv /\ [Next]_vars => AInv'
  BY AwaitedStep
<1>3. IInv /\ AInv => AwaitedIsRecoverable
  BY AwaitedPicture DEF IInv, AInv, AwaitedIsRecoverable
<1> QED
  BY <1>1, <1>2, <1>3, CaptureInvariant, KeepInvariant, PTL DEF Spec

-----------------------------------------------------------------------------
(* The ring implements the store of frames.                                *)

\* Pictures that have arrived are an arrival in the store.
LEMMA QuietStore ==
    ASSUME TypeOK, published' = published,
           \A i \in Window : Arrives(ring'[SlotOf(i)], ring[SlotOf(i)])
    PROVE  [Store_!Next]_(Store_!vars)
<1>1. Window' = Window /\ \A i : SlotOf(i)' = SlotOf(i)
  BY DEF Window, SlotOf
<1> DEFINE S == waitingFrames \ waitingFrames'
<1>2. shownFrames' = shownFrames \cup S /\ waitingFrames' = waitingFrames \ S
  BY <1>1 DEF shownFrames, waitingFrames, At, Arrives
<1> HIDE DEF S
<1>3. CASE S = {}
  BY <1>2, <1>3 DEF Store_!vars
<1>4. CASE S # {}
  <2>1. S \in SUBSET waitingFrames
    BY DEF S
  <2> QED
    BY <1>2, <1>4, <2>1 DEF Store_!Next, Store_!Arrive
<1> QED
  BY <1>3, <1>4

LEMMA OpenBatchStore == ASSUME TypeOK, KeepInv, OpenBatch PROVE [Store_!Next]_(Store_!vars)
<1>0. published' = published
  BY DEF OpenBatch
<1>1. Window' = Window /\ \A i : SlotOf(i)' = SlotOf(i)
  BY <1>0 DEF Window, SlotOf
<1>2. CASE UNCHANGED ring
  BY <1>0, <1>1, <1>2 DEF Store_!vars, shownFrames, waitingFrames, At
<1>3. CASE ring' # ring
  <2>1. /\ published > 0 /\ SlotOf(published - 1) \in Slots
        /\ \A s \in Slots : ~ring[s].copyInFlight /\ ~ring[s].awaitingCopy
    <3>0. published >= 1 /\ mode.phaseKeep
      BY <1>3 DEF OpenBatch
    <3>1. published > 0 /\ mode.phaseKeep
      BY <3>0 DEF TypeOK
    <3>2. ~DeferOn
      BY <3>1 DEF DeferOn
    <3> QED
      BY <3>1, <3>2, SlotType DEF KeepInv, PlainInv, TypeOK
  <2>2. ring' = [ring EXCEPT ![SlotOf(published - 1)].timestamp = rot.start + rot.spacing,
                             ![SlotOf(published - 1)].valid = TRUE]
    BY <1>3, <2>1 DEF OpenBatch, BroughtBack
  <2>3. \A s \in Slots : /\ ring'[s].awaitingCopy = FALSE
                         /\ ring'[s].valid = (ring[s].valid \/ s = SlotOf(published - 1))
    BY <2>1, <2>2 DEF TypeOK, Slot
  <2>4. \A i \in Window : SlotOf(i) \in Slots
                          /\ (SlotOf(i) = SlotOf(published - 1) <=> i = published - 1)
    BY <2>1, NewestInWindow, WindowApart
  <2>5. /\ shownFrames' = shownFrames \cup {published - 1}
        /\ waitingFrames' = {} /\ waitingFrames = {}
    BY <1>1, <2>1, <2>3, <2>4, NewestInWindow DEF shownFrames, waitingFrames, At
  <2> QED
    BY <1>0, <2>1, <2>5 DEF Store_!Next, Store_!BringBack
<1> QED
  BY <1>2, <1>3

LEMMA PublishStore == ASSUME TypeOK, KeepInv, Publish PROVE [Store_!Next]_(Store_!vars)
<1> DEFINE kept == KeepThis(batch, rot.keeper)
           R == ring'[SlotOf(published)]
<1>0. /\ published' = published + 1 /\ published \in Nat /\ N \in Nat /\ N >= 3
      /\ SlotOf(published) \in Slots
  BY RingAssumption, SlotType DEF Publish, TypeOK
<1>1. /\ \A i : SlotOf(i)' = SlotOf(i)
      /\ Window' = Store_!Held(published + 1)
      /\ Window' \subseteq Window \cup {published} /\ published \in Window'
  BY <1>0, WindowApart DEF SlotOf, Window, Store_!Held
<1>2. /\ \A t \in Slots : t # SlotOf(published) => ring'[t] = ring[t]
      /\ R.valid = (kept /\ wake.ready) /\ R.awaitingCopy = (kept /\ ~wake.ready)
  BY <1>0 DEF Publish, TypeOK
<1>3. \A i \in Window : i # published /\ At(i)' = At(i)
  <2>1. \A i \in Window : i # published /\ SlotOf(i) # SlotOf(published) /\ SlotOf(i) \in Slots
    BY WindowApart DEF Window, TypeOK
  <2> QED
    BY <1>1, <1>2, <2>1 DEF At
<1> DEFINE S == {i \in Window' : i = published /\ R.valid}
           W == {i \in Window' : i = published /\ R.awaitingCopy}
<1>4. /\ shownFrames' = (shownFrames \cap Window') \cup S
      /\ waitingFrames' = (waitingFrames \cap Window') \cup W
  BY <1>1, <1>3 DEF shownFrames, waitingFrames, At
<1>5. \/ S = {published} /\ W = {}
      \/ S = {} /\ W = {published}
      \/ S = {} /\ W = {}
  BY <1>1, <1>2
<1> HIDE DEF S, W
<1>6. \/ /\ shownFrames' = (shownFrames \cup {published}) \cap Window'
         /\ waitingFrames' = waitingFrames \cap Window'
      \/ /\ shownFrames' = shownFrames \cap Window'
         /\ waitingFrames' = (waitingFrames \cup {published}) \cap Window'
      \/ /\ shownFrames' = shownFrames \cap Window'
         /\ waitingFrames' = waitingFrames \cap Window'
  BY <1>1, <1>4, <1>5
<1> QED
  BY <1>0, <1>1, <1>6 DEF Store_!Next, Store_!Enter

LEMMA SettleStore == ASSUME TypeOK, KeepInv, Settle PROVE [Store_!Next]_(Store_!vars)
<1> DEFINE retract == RetractPrev(batch, rot.keeper) /\ published >= 2
<1>0. published' = published /\ published \in Nat /\ pc = "settle"
  BY DEF Settle, TypeOK
<1>1. Window' = Window /\ \A i : SlotOf(i)' = SlotOf(i)
  BY <1>0 DEF Window, SlotOf
<1>2. \A s \in Slots :
          /\ ring'[s].valid = (ring[s].valid /\ ~(retract /\ s = SlotOf(published - 2)))
          /\ ring'[s].awaitingCopy = (ring[s].awaitingCopy
                                        /\ ~(retract /\ s = SlotOf(published - 2)))
  BY SettleSlots
<1>3. CASE ~retract
  BY <1>0, <1>1, <1>2, <1>3, WindowApart DEF Store_!vars, shownFrames, waitingFrames, At
<1>4. CASE retract
  <2>1. \A i \in Window : SlotOf(i) \in Slots
                          /\ (SlotOf(i) = SlotOf(published - 2) <=> i = published - 2)
    BY <1>0, <1>4, NewestInWindow, WindowApart
  <2>2. /\ shownFrames' = shownFrames \ {published - 2}
        /\ waitingFrames' = waitingFrames \ {published - 2}
    BY <1>1, <1>2, <1>4, <2>1 DEF shownFrames, waitingFrames, At
  <2>3. published - 1 \in shownFrames \cup waitingFrames
    <3>1. Kept(published - 1)
      BY <1>0, <1>4 DEF RetractPrev, KeepInv, WakeInv
    <3>2. published - 1 \in Window
      BY <1>0, <1>4, NewestInWindow
    <3> QED
      BY <3>1, <3>2 DEF Kept, shownFrames, waitingFrames
  <2> QED
    BY <1>0, <2>2, <2>3 DEF Store_!Next, Store_!TakeBack
<1> QED
  BY <1>3, <1>4

LEMMA StoreRefines == TypeOK /\ KeepInv /\ [Next]_vars => [Store_!Next]_(Store_!vars)
<1> SUFFICES ASSUME TypeOK, KeepInv, [Next]_vars PROVE [Store_!Next]_(Store_!vars)
  OBVIOUS
<1> USE DEF sharedVars, stopVars, policyVars, sourceVars, gpuVars, loopVars
<1>1. CASE OpenWgc \/ BeginGrab \/ GrabFrame \/ GrabTimeout \/ Place
  <2>1. QuietRing /\ published' = published
    BY <1>1 DEF OpenWgc, BeginGrab, GrabFrame, GrabTimeout, Place, QuietRing
  <2> QED
    BY <2>1, QuietSlots, QuietStore, WindowApart DEF KeepInv
<1>2. CASE Store
  <2>1. published' = published /\ \A i \in Window : Arrives(ring'[SlotOf(i)], ring[SlotOf(i)])
    <3>1. published' = published
      BY <1>2 DEF Store
    <3>2. CASE UNCHANGED ring
      BY <3>1, <3>2, WindowApart DEF Arrives, SameFrame, TypeOK, Slot
    <3>3. CASE ring' = [ring EXCEPT ![SlotOf(published)].copyInFlight = TRUE]
      <4>1. \A i \in Window : SlotOf(i) # SlotOf(published) /\ SlotOf(i) \in Slots
        BY WindowApart DEF Window, TypeOK
      <4> QED
        BY <3>1, <3>3, <4>1 DEF Arrives, SameFrame, TypeOK, Slot
    <3> QED
      BY <1>2, <3>1, <3>2, <3>3, WindowApart DEF Store
  <2> QED
    BY <2>1, QuietStore
<1>3. CASE UNCHANGED <<ring, published>>
  BY <1>3 DEF Store_!vars, shownFrames, waitingFrames, Window, At, SlotOf
<1>4. CASE GrabFailed \/ GrabLost \/ LoopExit \/ GpuDone \/ AskStop \/ Joined \/ UNCHANGED vars
  BY <1>3, <1>4 DEF GrabFailed, GrabLost, LoopExit, GpuDone, AskStop, Joined, vars
<1> QED
  BY <1>1, <1>2, <1>4, OpenBatchStore, PublishStore, SettleStore DEF Next, Wake

\* The ring implements the store of frames: every step of the capture loop and
\* of the GPU enters one frame, brings pictures, takes back the frame before the
\* newest, brings back the newest, or changes nothing the store shows.
THEOREM RingImplementsStore == Spec => ImplementsFrameStore
<1>1. Init => Store_!Init
  BY DEF Init, Store_!Init, shownFrames, waitingFrames, Window
<1>2. TypeOK /\ KeepInv /\ [Next]_vars => [Store_!Next]_(Store_!vars)
  BY StoreRefines
<1> QED
  BY <1>1, <1>2, TypeCorrect, KeepInvariant, PTL DEF Spec, ImplementsFrameStore, Store_!Spec
===============================================================================
