--------------------------- MODULE RingReaderProofs ---------------------------
(***************************************************************************)
(* Proofs about RingReader, on top of the capture thread's invariant.      *)
(***************************************************************************)
EXTENDS RingReader, CaptureRingProofs

-----------------------------------------------------------------------------
(* What the capture thread does to a picture the reader relies on.         *)

\* A copy that lands in the slot of a frame of the window is that frame's own.
LEMMA LandedKeeps ==
    ASSUME TypeOK, FlightInv, NEW fin, fin \subseteq copying,
           NEW j \in Window, px[SlotOf(j)] = j
    PROVE  Landed(fin)[SlotOf(j)] = j
<1>1. SlotOf(j) \in Slots /\ SlotOf(j) # NoSlot
  BY WindowApart DEF Slots, NoSlot
<1>2. CASE \E b \in fin : inFlightSlot[b] = SlotOf(j)
  <2>1. PICK b \in fin : inFlightSlot[b] = SlotOf(j)
    BY <1>2
  <2>2. b \in copying /\ b \in Buffers /\ inFlightSlot[b] # NoSlot
    BY <1>1, <2>1 DEF TypeOK
  <2>3. Flying(b) = j
    BY <1>1, <2>1, <2>2, FlightApart, WindowApart DEF FlightInv
  <2> QED
    BY <1>1, <2>1, <2>2, <2>3, LandedAt DEF FlightInv
<1>3. CASE ~\E b \in fin : inFlightSlot[b] = SlotOf(j)
  BY <1>1, <1>3, LandedAt
<1> QED
  BY <1>2, <1>3

\* So is the copy of the frame left waiting.
LEMMA CopyKeeps ==
    ASSUME TypeOK, FlightInv, PendingInv, pendingSlot # NoSlot,
           CopyAndWait(pendingBuf, pendingSlot, TRUE),
           NEW j \in Window, px[SlotOf(j)] = j
    PROVE  px'[SlotOf(j)] = j
<1>1. px' = [Landed(copying) EXCEPT ![pendingSlot] = buf[pendingBuf]]
  BY DEF CopyAndWait
<1>2. /\ pendingSlot = SlotOf(published - 1) /\ buf[pendingBuf] = published - 1
      /\ published - 1 \in Window /\ SlotOf(j) \in Slots /\ pendingSlot \in Slots
  BY NewestInWindow, WindowApart DEF PendingInv
<1>3. Landed(copying)[SlotOf(j)] = j /\ Landed(copying) \in [Slots -> Pictures]
  BY LandedKeeps, LandedType DEF TypeOK
<1>4. CASE j = published - 1
  BY <1>1, <1>2, <1>3, <1>4
<1>5. CASE j # published - 1
  <2>1. SlotOf(j) # pendingSlot
    BY <1>2, <1>5, WindowApart
  <2> QED
    BY <1>1, <1>2, <1>3, <2>1
<1> QED
  BY <1>4, <1>5

\* A picture in the slot of a frame of the window stays there.
LEMMA PictureStays ==
    ASSUME TypeOK, CaptureInv, stop => pc = "done", Wake \/ GpuDone, NEW j \in Window, px[SlotOf(j)] = j
    PROVE  px'[SlotOf(j)] = j
<1> USE DEF sharedVars, stopVars, policyVars, sourceVars, gpuVars, loopVars
<1>0. FlightInv /\ PendingInv
  BY DEF CaptureInv
<1>s. Wake => ~stop
  BY DEF Wake, OpenWgc, BeginGrab, GrabFrame, GrabTimeout, GrabFailed, GrabLost, Place, Store,
         OpenBatch, Publish, Settle, LoopExit
<1>1. CASE OpenWgc
  <2>1. CASE UNCHANGED px
    BY <2>1
  <2>2. CASE \E fin \in WaitFor(Buffers) : px' = Landed(fin)
    BY <1>0, <2>2, WaitForType, LandedKeeps
  <2>3. CASE pendingSlot # NoSlot /\ \E done \in BOOLEAN : CopyAndWait(pendingBuf, pendingSlot, done)
    <3>1. CopyAndWait(pendingBuf, pendingSlot, TRUE)
      BY <1>1, <1>s, <2>3 DEF CopyAndWait, Wake
    <3> QED
      BY <1>0, <2>3, <3>1, CopyKeeps
  <2> QED
    BY <1>1, <2>1, <2>2, <2>3 DEF OpenWgc
<1>2. CASE BeginGrab
  <2>1. PICK fin \in WaitFor({bufferIdx}) : px' = Landed(fin)
    BY <1>2 DEF BeginGrab
  <2> QED
    BY <1>0, <2>1, WaitForType, LandedKeeps
<1>3. CASE GrabFrame \/ GrabFailed \/ GrabLost \/ OpenBatch \/ Publish \/ Settle \/ LoopExit
  BY <1>3 DEF GrabFrame, GrabFailed, GrabLost, OpenBatch, Publish, Settle, LoopExit
<1>4. CASE GrabTimeout
  <2>1. CASE pendingSlot # NoSlot /\ \E done \in BOOLEAN : CopyAndWait(pendingBuf, pendingSlot, done)
    <3>1. CopyAndWait(pendingBuf, pendingSlot, TRUE)
      BY <1>4, <1>s, <2>1 DEF CopyAndWait, Wake
    <3> QED
      BY <1>0, <2>1, <3>1, CopyKeeps
  <2>2. CASE \E fin \in WaitFor(Buffers) : px' = Landed(fin)
    BY <1>0, <2>2, WaitForType, LandedKeeps
  <2> QED
    BY <1>4, <2>1, <2>2 DEF GrabTimeout
<1>5. CASE Place
  <2>1. CASE UNCHANGED px
    BY <2>1
  <2>2. CASE pendingSlot # NoSlot /\ \E done \in BOOLEAN : CopyAndWait(pendingBuf, pendingSlot, done)
    <3>1. CopyAndWait(pendingBuf, pendingSlot, TRUE)
      BY <1>5, <1>s, <2>2 DEF CopyAndWait, Wake
    <3> QED
      BY <1>0, <2>2, <3>1, CopyKeeps
  <2> QED
    BY <1>5, <2>1, <2>2 DEF Place
<1>6. CASE Store
  <2>1. SlotOf(j) \in Slots /\ SlotOf(published) \in Slots /\ SlotOf(j) # SlotOf(published)
    BY WindowApart DEF Window, TypeOK
  <2>2. Landed(copying)[SlotOf(j)] = j /\ Landed(copying) \in [Slots -> Pictures]
    BY <1>0, LandedKeeps, LandedType DEF TypeOK
  <2>3. px' \in {[px EXCEPT ![SlotOf(published)] = published],
                 [Landed(copying) EXCEPT ![SlotOf(published)] = buf[GrabBuffer]],
                 [px EXCEPT ![SlotOf(published)] = Torn]}
    BY <1>6 DEF Store, CopyAndWait
  <2> QED
    BY <2>1, <2>2, <2>3 DEF TypeOK
<1>7. CASE GpuDone
  <2>1. PICK b \in copying : px' = Landed({b})
    BY <1>7 DEF GpuDone
  <2> QED
    BY <1>0, <2>1, LandedKeeps
<1> QED
  BY <1>1, <1>2, <1>3, <1>4, <1>5, <1>6, <1>7 DEF Wake

\* The count of frames never goes back, so a frame once gone from the window
\* does not come back.
LEMMA WindowMoves ==
    ASSUME TypeOK, Next
    PROVE  /\ published' \in {published, published + 1}
           /\ \A i \in Int : i < published /\ i \in Window' => i \in Window
           /\ \A i \in Window : i > published' - N => i \in Window'
<1>1. published' = published \/ published' = published + 1
  BY DEF Next, Wake, OpenWgc, BeginGrab, GrabFrame, GrabTimeout, GrabFailed, GrabLost, Place,
         Store, OpenBatch, Publish, Settle, LoopExit, GpuDone, AskStop, Joined, vars,
         sharedVars, stopVars, policyVars, sourceVars, gpuVars, loopVars
<1>2. published \in Nat /\ N \in Nat
  BY RingAssumption DEF TypeOK
<1> QED
  BY <1>1, <1>2 DEF Window

-----------------------------------------------------------------------------
(* The reader.                                                             *)

\* Seen from the capture thread, every step of the composition is one of its
\* own or none.
LEMMA StepsRing == NextR => [Next]_vars
<1> SUFFICES ASSUME NextR PROVE [Next]_vars
  OBVIOUS
<1>1. CASE Begin \/ ReadValid \/ ReadAwaiting \/ ReadStamp \/ Finish
  BY <1>1 DEF Begin, ReadValid, ReadAwaiting, ReadStamp, Finish
<1>2. CASE StopCapture \/ Capture \/ Ended
  BY <1>2 DEF StopCapture, Capture, Ended, Next
<1> QED
  BY <1>1, <1>2 DEF NextR

\* The walk stays within the frames counted when it began.
LEMMA OnwardType ==
    ASSUME ReaderTypeOK, look.at # "done"
    PROVE  LET l == Onward(look)
           IN /\ l \in [for : {"idle", "bracket", "recent"}, p : Nat, i : Int, target : Nat,
                       at : {"valid", "awaiting", "stamp", "done"}]
              /\ l.p = look.p /\ l.for = look.for /\ l.at \in {"valid", "done"}
              /\ l.at # "done" => l.i \in Oldest(l.p) .. (l.p - 1)
<1>1. Oldest(look.p) \in Int /\ look.p \in Nat /\ look.i \in Int
  BY RingAssumption DEF Oldest, ReaderTypeOK
<1>2. look.i \in Oldest(look.p) .. (look.p - 1)
  BY DEF ReaderTypeOK
<1>3. CASE look.i - 1 >= Oldest(look.p)
  <2> DEFINE k == [look EXCEPT !.i = look.i - 1]
             l == [k EXCEPT !.at = "valid"]
  <2>1. Onward(look) = l
    BY <1>3 DEF Onward
  <2>2. /\ k \in [for : {"idle", "bracket", "recent"}, p : Nat, i : Int, target : Nat,
                  at : {"valid", "awaiting", "stamp", "done"}]
        /\ k.p = look.p /\ k.for = look.for /\ k.i = look.i - 1
    BY <1>1 DEF ReaderTypeOK
  <2> HIDE DEF k
  <2>3. /\ l \in [for : {"idle", "bracket", "recent"}, p : Nat, i : Int, target : Nat,
                  at : {"valid", "awaiting", "stamp", "done"}]
        /\ l.p = look.p /\ l.for = look.for /\ l.i = look.i - 1 /\ l.at = "valid"
    BY <2>2
  <2> HIDE DEF l
  <2>4. l.i \in Oldest(l.p) .. (l.p - 1)
    BY <1>1, <1>2, <1>3, <2>3
  <2> QED
    BY <2>1, <2>3, <2>4
<1>4. CASE ~(look.i - 1 >= Oldest(look.p))
  <2>1. Onward(look) = [look EXCEPT !.at = "done"]
    BY <1>4 DEF Onward
  <2> QED
    BY <1>1, <1>2, <2>1 DEF ReaderTypeOK
<1> QED
  BY <1>3, <1>4

\* Moving one field on within the same frame keeps the walk's type.
LEMMA FieldType ==
    ASSUME ReaderTypeOK, look.at # "done", NEW f \in {"awaiting", "stamp", "done"}
    PROVE  LET l == [look EXCEPT !.at = f]
           IN /\ l \in [for : {"idle", "bracket", "recent"}, p : Nat, i : Int, target : Nat,
                       at : {"valid", "awaiting", "stamp", "done"}]
              /\ l.p = look.p /\ l.for = look.for /\ l.i = look.i /\ l.at = f
              /\ l.at # "done" => l.i \in Oldest(l.p) .. (l.p - 1)
BY DEF ReaderTypeOK

\* What ReadStamp picks has its type.
LEMMA PickType ==
    ASSUME TypeOK, ReaderTypeOK, look.at = "stamp"
    PROVE  /\ look.i \in Nat /\ SlotOf(look.i) \in Slots
           /\ ring[SlotOf(look.i)] \in Slot
           /\ [has |-> TRUE, idx |-> look.i, ts |-> ring[SlotOf(look.i)].timestamp,
               named |-> ring[SlotOf(look.i)].batchStart + ring[SlotOf(look.i)].member] \in Picks
<1>1. look.i \in Nat
  BY RingAssumption DEF ReaderTypeOK, Oldest
<1>2. SlotOf(look.i) \in Slots
  BY <1>1, SlotType
<1>3. ring[SlotOf(look.i)] \in Slot
  BY <1>2 DEF TypeOK
<1>4. ring[SlotOf(look.i)].timestamp \in Nat
      /\ ring[SlotOf(look.i)].batchStart + ring[SlotOf(look.i)].member \in Nat
  BY <1>3 DEF Slot
<1> QED
  BY <1>1, <1>2, <1>3, <1>4 DEF Picks

LEMMA ReaderTypeStep == TypeOK /\ ReaderTypeOK /\ [NextR]_allVars => ReaderTypeOK'
<1> SUFFICES ASSUME TypeOK, ReaderTypeOK, [NextR]_allVars PROVE ReaderTypeOK'
  OBVIOUS
<1>1. CASE Begin
  <2>1. PICK for \in {"bracket", "recent"}, target \in 0 .. MaxFrames :
            look' = [for |-> for, p |-> published, i |-> published - 1, target |-> target,
                     at |-> IF published - 1 >= Oldest(published) THEN "valid" ELSE "done"]
    BY <1>1 DEF Begin
  <2>2. published \in Nat /\ Oldest(published) \in Int
    BY RingAssumption DEF TypeOK, Oldest
  <2>3. steady' \subseteq Nat
    BY <1>1, <2>2 DEF Begin, Window
  <2> QED
    BY <1>1, <2>1, <2>2, <2>3 DEF Begin, ReaderTypeOK, NoPick, Picks
<1>2. CASE ReadValid
  <2>1. /\ look.at = "valid"
        /\ look' \in {[look EXCEPT !.at = "stamp"], [look EXCEPT !.at = "awaiting"], Onward(look)}
        /\ UNCHANGED <<before, after, recent, steady>>
    BY <1>2 DEF ReadValid
  <2> QED
    BY <2>1, OnwardType, FieldType DEF ReaderTypeOK
<1>3. CASE ReadAwaiting
  <2>1. /\ look.at = "awaiting"
        /\ look' \in {[look EXCEPT !.at = "stamp"], Onward(look)}
        /\ UNCHANGED <<before, after, recent, steady>>
    BY <1>3 DEF ReadAwaiting
  <2> QED
    BY <2>1, OnwardType, FieldType DEF ReaderTypeOK
<1>4. CASE ReadStamp
  <2>1. look.at = "stamp" /\ UNCHANGED steady
    BY <1>4 DEF ReadStamp
  <2>2. look' \in {[look EXCEPT !.at = "done"], Onward(look)}
    BY <1>4 DEF ReadStamp
  <2>3. before' \in Picks /\ after' \in Picks
    BY <1>4, <2>1, PickType DEF ReadStamp, ReaderTypeOK
  <2>4. recent' \subseteq [idx : Nat, ahead : BOOLEAN]
    <3> DEFINE r == [idx |-> look.i, ahead |-> ring[SlotOf(look.i)].timestamp > look.target]
    <3>1. r \in [idx : Nat, ahead : BOOLEAN]
      BY <1>1, <2>1, PickType
    <3>2. recent' = recent \/ recent' = recent \cup {r}
      BY <1>4 DEF ReadStamp
    <3> QED
      BY <3>1, <3>2 DEF ReaderTypeOK
  <2> QED
    BY <2>1, <2>2, <2>3, <2>4, OnwardType, FieldType DEF ReaderTypeOK
<1>5. CASE Finish
  BY <1>5 DEF Finish, ReaderTypeOK, Idle, NoPick, Picks
<1>6. CASE Capture
  BY <1>6 DEF Capture, ReaderTypeOK
<1>7. CASE StopCapture \/ Ended \/ UNCHANGED allVars
  BY <1>7 DEF StopCapture, Ended, allVars, readerVars, ReaderTypeOK
<1> QED
  BY <1>1, <1>2, <1>3, <1>4, <1>5, <1>6, <1>7 DEF NextR

LEMMA WalkStep == RInv /\ NextR /\ ~asked' => WalkInv'
<1> SUFFICES ASSUME RInv, NextR, ~asked' PROVE WalkInv'
  OBVIOUS
<1>1. TypeOK /\ ReaderTypeOK
  BY DEF RInv, IInv
<1>2. ~asked
  <2>1. CASE Begin \/ ReadValid \/ ReadAwaiting \/ ReadStamp \/ Finish
    BY <2>1 DEF Begin, ReadValid, ReadAwaiting, ReadStamp, Finish, vars, stopVars
  <2>2. CASE StopCapture \/ Ended
    BY <1>1, <2>2 DEF StopCapture, AskStop, Ended, Joined, vars, stopVars
  <2>3. CASE Capture
    BY <2>3 DEF Capture, Wake, OpenWgc, BeginGrab, GrabFrame, GrabTimeout, GrabFailed, GrabLost,
         Place, Store, OpenBatch, Publish, Settle, LoopExit, GpuDone, stopVars
  <2> QED
    BY <2>1, <2>2, <2>3 DEF NextR
<1>3. CaptureInv /\ (stop => pc = "done") /\ WalkInv
  BY <1>2 DEF RInv, IInv, StopInv
<1>4. published \in Nat /\ N \in Nat /\ N >= 3
  BY <1>1, RingAssumption DEF TypeOK
\* The reader's own steps leave the ring alone.
<1>5. ASSUME UNCHANGED vars
      PROVE  \A i \in Int : Held(i)' = Held(i) /\ (i \in Window') = (i \in Window)
                             /\ (i \in Window => i < published)
  BY <1>4, <1>5 DEF vars, sharedVars, Held, Window, SlotOf
<1>6. CASE Begin
  BY <1>4, <1>6 DEF Begin, WalkInv, PickInv, NoPick, vars, sharedVars
<1>7. CASE ReadValid
  <2>1. /\ look.at = "valid" /\ UNCHANGED vars /\ UNCHANGED <<before, after>>
        /\ look' \in {[look EXCEPT !.at = "stamp"], [look EXCEPT !.at = "awaiting"], Onward(look)}
    BY <1>7 DEF ReadValid
  <2>2. look'.p = look.p /\ look'.for = look.for /\ published' = published
    BY <1>1, <2>1, OnwardType, FieldType DEF vars, sharedVars
  <2>3. look.i \in Int /\ look.p \in Nat
    BY <1>1 DEF ReaderTypeOK
  <2>4. look'.for = "bracket" /\ look'.at = "stamp" => Held(look.i) /\ look'.i = look.i
    <3> SUFFICES ASSUME look'.for = "bracket", look'.at = "stamp"
                 PROVE  Held(look.i) /\ look'.i = look.i
      OBVIOUS
    <3>1. Onward(look).at # "stamp"
      BY <1>1, <2>1, OnwardType
    <3>2. look' = [look EXCEPT !.at = "stamp"] \/ look' = [look EXCEPT !.at = "awaiting"]
      BY <2>1, <3>1
    <3>3. [look EXCEPT !.at = "awaiting"].at = "awaiting"
      BY <1>1, <2>1, FieldType
    <3>4. look' = [look EXCEPT !.at = "stamp"]
      BY <3>2, <3>3
    <3>5. look'.i = look.i /\ ring[SlotOf(look.i)].valid
      <4>1. [look EXCEPT !.at = "stamp"] # [look EXCEPT !.at = "awaiting"]
        BY <1>1, <2>1, FieldType
      <4> QED
        BY <1>1, <1>7, <2>1, <3>1, <3>4, <4>1, FieldType DEF ReadValid
    <3> QED
      BY <1>3, <3>5 DEF Held, CaptureInv, WindowInv, At
  <2>5. PickInv(before)' /\ PickInv(after)'
    BY <1>1, <1>3, <1>5, <2>1, <2>2 DEF WalkInv, PickInv, ReaderTypeOK, Picks, Oldest
  <2>6. look.for = "bracket" => look'.at # "awaiting"
    <3> SUFFICES ASSUME look.for = "bracket" PROVE look'.at # "awaiting"
      OBVIOUS
    <3>1. look' = [look EXCEPT !.at = "stamp"] \/ look' = Onward(look)
      BY <1>7 DEF ReadValid
    <3> QED
      BY <1>1, <2>1, <3>1, OnwardType, FieldType
  <2>7. look'.for = "bracket" /\ look'.at = "stamp" => Held(look.i)'
    BY <1>5, <2>1, <2>3, <2>4
  <2>8. (look.p <= published)'
    BY <1>3, <2>2 DEF WalkInv
  <2> QED
    BY <2>2, <2>5, <2>6, <2>7, <2>8 DEF WalkInv
<1>8. CASE ReadAwaiting
  <2>1. /\ look.at = "awaiting" /\ UNCHANGED vars /\ UNCHANGED <<before, after>>
        /\ look' \in {[look EXCEPT !.at = "stamp"], Onward(look)}
    BY <1>8 DEF ReadAwaiting
  <2>2. look'.p = look.p /\ look'.for = look.for /\ published' = published
    BY <1>1, <2>1, OnwardType, FieldType DEF vars, sharedVars
  <2>3. look'.for # "bracket"
    BY <1>3, <2>1, <2>2 DEF WalkInv
  <2>4. PickInv(before)' /\ PickInv(after)'
    BY <1>1, <1>3, <1>5, <2>1, <2>2 DEF WalkInv, PickInv, ReaderTypeOK, Picks, Oldest
  <2> QED
    BY <1>3, <2>2, <2>3, <2>4 DEF WalkInv
<1>9. CASE ReadStamp
  <2> DEFINE pick == [has |-> TRUE, idx |-> look.i, ts |-> ring[SlotOf(look.i)].timestamp,
                      named |-> ring[SlotOf(look.i)].batchStart + ring[SlotOf(look.i)].member]
  <2>1. /\ look.at = "stamp" /\ UNCHANGED vars
        /\ look' \in {[look EXCEPT !.at = "done"], Onward(look)}
        /\ before' \in {before, pick} /\ after' \in {after, pick}
        /\ look.for = "bracket" \/ UNCHANGED <<before, after>>
    BY <1>9 DEF ReadStamp
  <2>2. look'.p = look.p /\ look'.for = look.for /\ look'.at # "stamp" /\ look'.at # "awaiting"
        /\ published' = published
    BY <1>1, <2>1, OnwardType, FieldType DEF vars, sharedVars
  <2>3. look.for = "bracket" =>
            /\ pick.idx \in Oldest(look.p) .. (look.p - 1)
            /\ Held(pick.idx)
            /\ pick.idx \in Window => pick.named = pick.idx
    BY <1>1, <1>3, <2>1 DEF ReaderTypeOK, WalkInv, CaptureInv, WindowInv, At
  <2>4. look.for = "bracket" => PickInv(pick)
    BY <2>3 DEF PickInv
  <2> HIDE DEF pick
  <2>5. PickInv(before') /\ PickInv(after')
    BY <1>3, <2>1, <2>4 DEF WalkInv
  <2>6. /\ before' \in Picks /\ after' \in Picks
    BY <1>1, <1>9, ReaderTypeStep DEF NextR, ReaderTypeOK
  <2>7. PickInv(before)' /\ PickInv(after)'
    BY <1>1, <1>5, <2>1, <2>2, <2>5, <2>6 DEF PickInv, Picks, Oldest
  <2> QED
    BY <1>3, <2>2, <2>7 DEF WalkInv
<1>10. CASE Finish
  BY <1>4, <1>10 DEF Finish, WalkInv, PickInv, NoPick, Idle, vars, sharedVars
<1>11. CASE StopCapture \/ Ended
  <2>1. ~AskStop
    BY <1>2, ~asked' DEF AskStop
  <2>2. UNCHANGED vars /\ UNCHANGED readerVars
    BY <1>11, <2>1 DEF StopCapture, Ended, Joined
  <2> QED
    BY <1>1, <1>3, <1>5, <2>2
       DEF WalkInv, PickInv, ReaderTypeOK, Picks, Oldest, readerVars, vars, sharedVars
<1>12. CASE Capture
  <2>1. (Wake \/ GpuDone) /\ UNCHANGED <<look, before, after>>
    BY <1>12 DEF Capture
  <2>2. /\ published' \in {published, published + 1}
        /\ \A i \in Int : i < published /\ i \in Window' => i \in Window
    BY <1>1, <2>1, WindowMoves DEF Next
  <2>3. ASSUME NEW i \in Int, i < published, Held(i) PROVE Held(i)'
    <3> SUFFICES ASSUME i \in Window' PROVE px'[SlotOf(i)] = i
      BY DEF Held, SlotOf
    <3>1. i \in Window /\ px[SlotOf(i)] = i
      BY <2>2, <2>3 DEF Held
    <3> QED
      BY <1>1, <1>3, <2>1, <3>1, PictureStays
  <2>4. ASSUME NEW pick \in Picks, PickInv(pick)
        PROVE  /\ pick.has => pick.idx \in Oldest(look.p) .. (look.p - 1)
               /\ pick.has => Held(pick.idx)'
               /\ pick.has /\ pick.idx \in Window' => pick.named = pick.idx
    <3> SUFFICES ASSUME pick.has
                 PROVE  /\ pick.idx \in Oldest(look.p) .. (look.p - 1)
                        /\ Held(pick.idx)'
                        /\ pick.idx \in Window' => pick.named = pick.idx
      OBVIOUS
    <3>1. pick.idx \in Int /\ pick.idx < published
      BY <1>1, <1>3, <1>4, <2>4 DEF PickInv, Picks, WalkInv, ReaderTypeOK
    <3> QED
      BY <2>2, <2>3, <2>4, <3>1 DEF PickInv
  <2>5. before \in Picks /\ after \in Picks
    BY <1>1 DEF ReaderTypeOK
  <2>6. PickInv(before)' /\ PickInv(after)'
    <3>1. PickInv(before)'
      BY <1>3, <2>1, <2>4, <2>5 DEF WalkInv, PickInv, Oldest
    <3>2. PickInv(after)'
      BY <1>3, <2>1, <2>4, <2>5 DEF WalkInv, PickInv, Oldest
    <3> QED
      BY <3>1, <3>2
  <2>7. look.for = "bracket" /\ look.at = "stamp" => Held(look.i)'
    <3> SUFFICES ASSUME look.for = "bracket", look.at = "stamp" PROVE Held(look.i)'
      OBVIOUS
    <3>1. look.i \in Int /\ look.i < published /\ Held(look.i)
      BY <1>1, <1>3, <1>4 DEF WalkInv, ReaderTypeOK
    <3> QED
      BY <2>1, <2>3, <3>1
  <2>8. look.p <= published'
    BY <1>1, <1>3, <1>4, <2>2 DEF WalkInv, ReaderTypeOK
  <2> QED
    BY <1>3, <2>1, <2>6, <2>7, <2>8 DEF WalkInv
<1> QED
  BY <1>6, <1>7, <1>8, <1>9, <1>10, <1>11, <1>12 DEF NextR

LEMMA InitRInv == InitR => RInv
<1> SUFFICES ASSUME InitR PROVE RInv
  OBVIOUS
<1>1. IInv
  BY InitInv DEF InitR
<1>2. ReaderTypeOK /\ WalkInv
  BY DEF InitR, Init, ReaderInit, ReaderTypeOK, WalkInv, PickInv, NoPick, Idle, Picks
<1> QED
  BY <1>1, <1>2 DEF RInv

LEMMA RInvStep == RInv /\ [NextR]_allVars => RInv'
<1> SUFFICES ASSUME RInv, [NextR]_allVars PROVE RInv'
  OBVIOUS
<1>1. IInv'
  BY InvStep, StepsRing DEF RInv, allVars
<1>2. ReaderTypeOK'
  BY ReaderTypeStep DEF RInv, IInv
<1>3. ASSUME ~asked' PROVE WalkInv'
  <2>1. CASE NextR
    BY <1>3, <2>1, WalkStep
  <2>2. CASE UNCHANGED allVars
    BY <1>3, <2>2 DEF RInv, WalkInv, PickInv, Held, Window, SlotOf, Oldest, allVars, readerVars, vars,
       stopVars, sharedVars
  <2> QED
    BY <2>1, <2>2
<1> QED
  BY <1>1, <1>2, <1>3 DEF RInv

\* The composition of the capture thread and the reader keeps its invariant.
THEOREM ReaderInvariant == SpecR => []RInv
<1>1. InitR => RInv
  BY InitRInv
<1>2. RInv /\ [NextR]_allVars => RInv'
  BY RInvStep
<1> QED
  BY <1>1, <1>2, PTL DEF SpecR

\* A side of the bracket stays good to draw until the ring has come round to its
\* slot, for every size of the ring and every interleaving of the two threads.
THEOREM BracketStaysIntact == SpecR => []BracketIntact
<1>1. ASSUME RInv PROVE BracketIntact
  <2> SUFFICES ASSUME ~asked, NEW pick \in {before, after}, pick.has,
                      published < pick.idx + N \/ published = look.p
               PROVE  pick.named = pick.idx /\ px[SlotOf(pick.idx)] = pick.idx
    BY DEF BracketIntact, Intact
  <2>1. PickInv(pick) /\ look.p <= published /\ pick \in Picks
    BY <1>1 DEF RInv, WalkInv, ReaderTypeOK
  <2>2. published \in Nat /\ look.p \in Nat /\ N \in Nat /\ pick.idx \in Nat
    BY <1>1, <2>1, RingAssumption DEF RInv, IInv, TypeOK, ReaderTypeOK, Picks
  <2>3. pick.idx < look.p /\ pick.idx > look.p - N
    BY <2>1, <2>2 DEF PickInv, Oldest
  <2>4. pick.idx \in Window
    BY <2>1, <2>2, <2>3 DEF Window
  <2> QED
    BY <2>1, <2>4 DEF PickInv, Held
<1>2. RInv => BracketIntact
  BY <1>1
<1> QED
  BY <1>2, ReaderInvariant, PTL

\* Every variable of the reader has its type, and a walk stands at a frame that
\* had been counted when it began, whatever the capture thread does meanwhile.
THEOREM ReaderTypeCorrect == SpecR => []ReaderTypeOK
<1>1. RInv => ReaderTypeOK
  BY DEF RInv
<1> QED
  BY <1>1, ReaderInvariant, PTL

-----------------------------------------------------------------------------
(* The bracket is the nearest one.                                         *)

\* A frame that has counted ever since the walk began is still in the window.
SteadyInv ==
    look.for = "bracket" =>
        /\ look.p <= published
        /\ \A f \in steady : f \in Window /\ f < look.p /\ At(f).valid

\* The bracket's side is as near to the target as frame f, the newer of equals.
Covered(f) ==
    LET ts == At(f).timestamp
    IN IF ts <= look.target
       THEN before.has /\ (before.ts > ts \/ (before.ts = ts /\ before.idx >= f))
       ELSE after.has /\ (after.ts < ts \/ (after.ts = ts /\ after.idx >= f))

\* The sides lie either side of the target and are newer than the frame looked
\* at, and cover all that was passed.
NearInv ==
    look.for = "bracket" =>
        /\ look.at # "awaiting"
        /\ before.has => before.ts <= look.target /\ (look.at # "done" => before.idx > look.i)
        /\ after.has => after.ts > look.target /\ (look.at # "done" => after.idx > look.i)
        /\ \A f \in steady : f > look.i \/ look.at = "done" => Covered(f)

\* The stamp of a frame that counts stays what it is for as long as the frame is
\* in the window: keep-real gives a new stamp only to a frame it had left out.
LEMMA StampStays ==
    ASSUME TypeOK, KeepInv, Wake \/ GpuDone, NEW f \in Window, f \in Window', At(f).valid
    PROVE  At(f)'.timestamp = At(f).timestamp
<1> USE DEF sharedVars, stopVars, policyVars, sourceVars, gpuVars, loopVars
<1>0. /\ \A i : SlotOf(i)' = SlotOf(i)
      /\ SlotOf(f) \in Slots /\ f \in Int /\ f < published /\ published \in Nat /\ published > 0
  BY WindowApart DEF SlotOf, Window, TypeOK
<1>1. CASE OpenWgc \/ BeginGrab \/ GrabFrame \/ GrabTimeout \/ Place
  <2>1. QuietRing
    BY <1>1 DEF OpenWgc, BeginGrab, GrabFrame, GrabTimeout, Place, QuietRing
  <2> QED
    BY <1>0, <2>1, QuietSlots DEF KeepInv, Arrives, SameFrame, At
<1>2. CASE Store
  <2>1. \A s \in Slots : ring'[s].timestamp = ring[s].timestamp
    BY <1>2 DEF Store, TypeOK, Slot
  <2> QED
    BY <1>0, <2>1 DEF At
<1>3. CASE OpenBatch
  <2>1. CASE UNCHANGED ring
    BY <1>0, <2>1 DEF At
  <2>2. CASE ring' # ring
    <3>1. /\ rot.keeper = 1 /\ rot.last = 0 /\ pc = "open"
          /\ ring' = BroughtBack(ring, SlotOf(published - 1), rot.start + rot.spacing)
      BY <1>3, <2>2 DEF OpenBatch
    <3>2. ~Kept(published - 1)
      BY <1>0, <3>1 DEF KeepInv, WindowKeep, NameInv
    <3>3. f # published - 1
      BY <3>2 DEF Kept
    <3>4. SlotOf(f) # SlotOf(published - 1)
      BY <1>0, <3>3, NewestInWindow, WindowApart
    <3>5. ring'[SlotOf(f)] = ring[SlotOf(f)]
      BY <1>0, <3>1, <3>4 DEF BroughtBack, TypeOK
    <3> QED
      BY <1>0, <3>5 DEF At
  <2> QED
    BY <2>1, <2>2
<1>4. CASE Publish
  <2>1. SlotOf(f) # SlotOf(published)
    BY <1>0, WindowApart
  <2>2. ring'[SlotOf(f)] = ring[SlotOf(f)]
    BY <1>0, <1>4, <2>1 DEF Publish, TypeOK
  <2> QED
    BY <1>0, <2>2 DEF At
<1>5. CASE Settle
  BY <1>0, <1>5, SettleSlots DEF At
<1>6. CASE GrabFailed \/ GrabLost \/ LoopExit \/ GpuDone
  BY <1>0, <1>6 DEF GrabFailed, GrabLost, LoopExit, GpuDone, At
<1> QED
  BY <1>1, <1>2, <1>3, <1>4, <1>5, <1>6 DEF Wake

\* While the walk goes on, the capture thread changes no stamp of a frame that
\* keeps counting.
LEMMA CaptureNear ==
    ASSUME TypeOK, KeepInv, ReaderTypeOK, SteadyInv, NearInv, Capture
    PROVE  SteadyInv' /\ NearInv'
<1> SUFFICES ASSUME look.for = "bracket" PROVE SteadyInv' /\ NearInv'
  BY DEF Capture, SteadyInv, NearInv
<1>0. /\ Wake \/ GpuDone
      /\ UNCHANGED <<look, before, after>>
      /\ steady' \subseteq steady
      /\ \A f \in steady' : f > published' - N /\ ring'[SlotOf(f)].valid
  BY DEF Capture, Counts
<1>1. /\ published \in Nat /\ published' \in Int /\ published <= published'
      /\ look.p \in Nat /\ N \in Nat /\ look.p <= published
  <2>1. published' = published \/ published' = published + 1
    BY <1>0, WindowMoves DEF Next
  <2> QED
    BY <2>1, RingAssumption DEF TypeOK, ReaderTypeOK, SteadyInv
<1>2. ASSUME NEW f \in steady'
      PROVE  /\ f \in Window /\ f \in Window' /\ f < look.p /\ f \in Int
             /\ At(f).valid /\ At(f)'.valid
  <2>0. f \in Nat /\ f < look.p
    BY <1>0 DEF SteadyInv, ReaderTypeOK
  <2>1. f \in Window /\ At(f).valid
    BY <1>0 DEF SteadyInv
  <2>2. f \in Window'
    BY <1>0, <2>1, WindowMoves DEF Next
  <2> QED
    BY <1>0, <2>0, <2>1, <2>2 DEF At, SlotOf
<1>3. SteadyInv'
  BY <1>0, <1>1, <1>2 DEF SteadyInv
<1>4. ASSUME NEW f \in steady', Covered(f) PROVE Covered(f)'
  <2>1. At(f)'.timestamp = At(f).timestamp
    BY <1>0, <1>2, StampStays
  <2> QED
    BY <1>0, <1>4, <2>1 DEF Covered
<1>5. NearInv'
  BY <1>0, <1>4 DEF NearInv
<1> QED
  BY <1>3, <1>5

\* A walk that ends has passed every frame of the window.
LEMMA PassedAll ==
    ASSUME TypeOK, ReaderTypeOK, SteadyInv, look.for = "bracket", look.at # "done",
           NEW f \in steady, f > Onward(look).i \/ Onward(look).at = "done"
    PROVE  f >= look.i
<1>1. /\ look.p \in Nat /\ look.i \in Int /\ N \in Nat /\ published \in Nat /\ f \in Nat
      /\ look.p <= published /\ f > published - N /\ Oldest(look.p) \in Int
  BY RingAssumption DEF ReaderTypeOK, SteadyInv, TypeOK, Window, Oldest
<1>2. f >= Oldest(look.p)
  BY <1>1 DEF Oldest
<1>3. CASE look.i - 1 >= Oldest(look.p)
  <2>1. Onward(look) = [look EXCEPT !.i = look.i - 1, !.at = "valid"]
    BY <1>3 DEF Onward
  <2>2. Onward(look).i = look.i - 1 /\ Onward(look).at = "valid"
    BY <2>1 DEF ReaderTypeOK
  <2> QED
    BY <1>1, <2>2
<1>4. CASE ~(look.i - 1 >= Oldest(look.p))
  BY <1>1, <1>2, <1>4
<1> QED
  BY <1>3, <1>4

\* The walk only goes to older frames.
LEMMA OnwardOlder ==
    ASSUME ReaderTypeOK
    PROVE  /\ Onward(look).target = look.target /\ Onward(look).i <= look.i
           /\ Onward(look).at # "done" => Onward(look).i = look.i - 1
<1>1. look.i \in Int
  BY DEF ReaderTypeOK
<1>2. CASE look.i - 1 >= Oldest(look.p)
  <2>1. Onward(look) = [look EXCEPT !.i = look.i - 1, !.at = "valid"]
    BY <1>2 DEF Onward
  <2>2. Onward(look).i = look.i - 1 /\ Onward(look).target = look.target
    BY <2>1 DEF ReaderTypeOK
  <2> QED
    BY <1>1, <2>2
<1>3. CASE ~(look.i - 1 >= Oldest(look.p))
  <2>1. Onward(look) = [look EXCEPT !.at = "done"]
    BY <1>3 DEF Onward
  <2> QED
    BY <1>1, <2>1 DEF ReaderTypeOK
<1> QED
  BY <1>2, <1>3

\* The frame looked at takes its place in the bracket, unless a newer one is as
\* near to the target.
LEMMA StampNear ==
    ASSUME TypeOK, ReaderTypeOK, SteadyInv, NearInv, ReadStamp, look.for = "bracket"
    PROVE  SteadyInv' /\ NearInv'
<1> DEFINE ts == ring[SlotOf(look.i)].timestamp
           pick == [has |-> TRUE, idx |-> look.i, ts |-> ts,
                    named |-> ring[SlotOf(look.i)].batchStart + ring[SlotOf(look.i)].member]
<1>0. /\ look.at = "stamp" /\ look' = Onward(look) /\ UNCHANGED <<vars, steady>>
      /\ \/ /\ ts <= look.target /\ UNCHANGED after
            /\ before' = IF Nearer(look.target - ts, before, look.target) THEN pick ELSE before
         \/ /\ ts > look.target /\ UNCHANGED before
            /\ after' = IF Nearer(ts - look.target, after, look.target) THEN pick ELSE after
  BY DEF ReadStamp
<1>1. /\ look.i \in Nat /\ look.target \in Nat /\ ts \in Nat
      /\ before.ts \in Nat /\ before.idx \in Nat /\ after.ts \in Nat /\ after.idx \in Nat
      /\ look'.target = look.target /\ look'.for = look.for /\ look'.p = look.p
      /\ look'.at \in {"valid", "done"} /\ look'.i \in Int
      /\ look'.at # "done" => look'.i = look.i - 1
      /\ pick.has /\ pick.idx = look.i /\ pick.ts = ts
  <2>1. ring[SlotOf(look.i)] \in Slot /\ look.i \in Nat
    BY <1>0, PickType
  <2>2. /\ look'.target = look.target /\ look'.for = look.for /\ look'.p = look.p
        /\ look'.at \in {"valid", "done"} /\ look'.i \in Int
        /\ look'.at # "done" => look'.i = look.i - 1
    BY <1>0, OnwardType, OnwardOlder
  <2> QED
    BY <2>1, <2>2 DEF Slot, ReaderTypeOK, Picks
<1> HIDE DEF pick
<1>2. published' = published /\ \A f \in steady : At(f)' = At(f) /\ f \in Nat /\ (f \in Window)' = (f \in Window)
  BY <1>0 DEF vars, sharedVars, At, SlotOf, ReaderTypeOK, Window
<1>3. SteadyInv'
  BY <1>0, <1>1, <1>2 DEF SteadyInv
<1>4. /\ before.has => before.ts <= look.target /\ before.idx > look.i
      /\ after.has => after.ts > look.target /\ after.idx > look.i
  BY <1>0 DEF NearInv
<1>5. /\ before'.has => before'.ts <= look.target /\ before'.idx >= look.i /\ before'.idx \in Nat
      /\ after'.has => after'.ts > look.target /\ after'.idx >= look.i /\ after'.idx \in Nat
  BY <1>0, <1>1, <1>4
<1>6. ASSUME NEW f \in steady, f >= look.i PROVE Covered(f)'
  <2>1. CASE f > look.i
    <3>1. Covered(f)
      BY <2>1 DEF NearInv
    <3>2. \/ before' = before
          \/ before' = pick /\ ts <= look.target /\ (~before.has \/ ts > before.ts)
      BY <1>0, <1>1, <1>4 DEF Nearer
    <3>3. \/ after' = after
          \/ after' = pick /\ ts > look.target /\ (~after.has \/ ts < after.ts)
      BY <1>0, <1>1, <1>4 DEF Nearer
    <3>4. At(f) \in Slot
      BY SlotType, <1>2 DEF TypeOK, At
    <3>5. At(f).timestamp \in Nat
      BY <3>4 DEF Slot
    <3>6. CASE At(f).timestamp <= look.target
      <4>1. before.has /\ (before.ts > At(f).timestamp
                             \/ (before.ts = At(f).timestamp /\ before.idx >= f))
        BY <3>1, <3>6 DEF Covered
      <4>2. before'.has /\ (before'.ts > At(f).timestamp
                              \/ (before'.ts = At(f).timestamp /\ before'.idx >= f))
        BY <1>1, <3>2, <3>5, <4>1
      <4> QED
        BY <1>1, <1>2, <3>6, <4>2 DEF Covered
    <3>7. CASE ~(At(f).timestamp <= look.target)
      <4>1. after.has /\ (after.ts < At(f).timestamp
                             \/ (after.ts = At(f).timestamp /\ after.idx >= f))
        BY <3>1, <3>7 DEF Covered
      <4>2. after'.has /\ (after'.ts < At(f).timestamp
                              \/ (after'.ts = At(f).timestamp /\ after'.idx >= f))
        BY <1>1, <3>3, <3>5, <4>1
      <4> QED
        BY <1>1, <1>2, <3>7, <4>2 DEF Covered
    <3> QED
      BY <3>6, <3>7
  <2>2. CASE f = look.i
    <3>1. At(f).timestamp = ts
      BY <2>2 DEF At
    <3>2. CASE ts <= look.target
      <4>1. before' = pick \/ (before' = before /\ before.has /\ before.ts >= ts)
        BY <1>0, <1>1, <1>4, <3>2 DEF Nearer
      <4>2. before'.has /\ (before'.ts > ts \/ (before'.ts = ts /\ before'.idx >= f))
        BY <1>1, <1>4, <2>2, <4>1
      <4> QED
        BY <1>1, <1>2, <3>1, <3>2, <4>2 DEF Covered
    <3>3. CASE ~(ts <= look.target)
      <4>1. after' = pick \/ (after' = after /\ after.has /\ after.ts <= ts)
        BY <1>0, <1>1, <1>4, <3>3 DEF Nearer
      <4>2. after'.has /\ (after'.ts < ts \/ (after'.ts = ts /\ after'.idx >= f))
        BY <1>1, <1>4, <2>2, <4>1
      <4> QED
        BY <1>1, <1>2, <3>1, <3>3, <4>2 DEF Covered
    <3> QED
      BY <3>2, <3>3
  <2> QED
    BY <1>1, <1>2, <1>6, <2>1, <2>2
<1>7. \A f \in steady : f > look'.i \/ look'.at = "done" => Covered(f)'
  BY <1>0, <1>6, PassedAll
<1> QED
  BY <1>0, <1>1, <1>3, <1>5, <1>7 DEF NearInv

\* A frame found off is passed over; one that has counted all along never is.
LEMMA ValidNear ==
    ASSUME TypeOK, ReaderTypeOK, SteadyInv, NearInv, ReadValid, look.for = "bracket"
    PROVE  SteadyInv' /\ NearInv'
<1>0. /\ look.at = "valid" /\ UNCHANGED <<vars, before, after, steady>>
      /\ look' = IF ring[SlotOf(look.i)].valid THEN [look EXCEPT !.at = "stamp"] ELSE Onward(look)
  BY DEF ReadValid
<1>1. published' = published /\ \A f \in steady : At(f)' = At(f) /\ f \in Nat /\ (f \in Window)' = (f \in Window)
  BY <1>0 DEF vars, sharedVars, At, SlotOf, ReaderTypeOK, Window
<1>2. /\ look'.target = look.target /\ look'.for = look.for /\ look'.p = look.p
      /\ look'.at \in {"valid", "stamp", "done"} /\ look'.i \in Int /\ look'.i <= look.i
      /\ look'.at = "stamp" => look'.i = look.i /\ look' = [look EXCEPT !.at = "stamp"]
  <2>1. CASE look' = [look EXCEPT !.at = "stamp"]
    BY <2>1 DEF ReaderTypeOK
  <2>2. CASE look' = Onward(look)
    BY <1>0, <2>2, OnwardType, OnwardOlder
  <2> QED
    BY <1>0, <2>1, <2>2
<1>3. SteadyInv'
  BY <1>0, <1>1, <1>2 DEF SteadyInv
<1>4. \A f \in steady : f > look.i => Covered(f)
  BY DEF NearInv
<1>5. \A f \in steady : f > look'.i \/ look'.at = "done" => f > look.i
  <2> SUFFICES ASSUME NEW f \in steady, f > look'.i \/ look'.at = "done" PROVE f > look.i
    OBVIOUS
  <2>1. CASE ring[SlotOf(look.i)].valid
    <3>1. look' = [look EXCEPT !.at = "stamp"]
      BY <1>0, <2>1
    <3>2. look'.i = look.i /\ look'.at = "stamp"
      BY <3>1 DEF ReaderTypeOK
    <3> QED
      BY <3>2
  <2>2. CASE ~ring[SlotOf(look.i)].valid
    <3>1. f >= look.i
      BY <1>0, <2>2, PassedAll
    <3>2. f # look.i
      BY <2>2 DEF SteadyInv, At
    <3> QED
      BY <1>1, <3>1, <3>2 DEF ReaderTypeOK
  <2> QED
    BY <2>1, <2>2
<1>6. \A f \in steady : Covered(f) => Covered(f)'
  BY <1>0, <1>1, <1>2 DEF Covered
<1>7. /\ before.has => before.ts <= look.target /\ before.idx > look.i /\ before.idx \in Int
      /\ after.has => after.ts > look.target /\ after.idx > look.i /\ after.idx \in Int
      /\ look.i \in Int
  BY <1>0 DEF NearInv, ReaderTypeOK, Picks
<1> QED
  BY <1>0, <1>2, <1>3, <1>4, <1>5, <1>6, <1>7 DEF NearInv

LEMMA NearStep ==
    TypeOK /\ KeepInv /\ ReaderTypeOK /\ SteadyInv /\ NearInv /\ [NextR]_allVars
        => SteadyInv' /\ NearInv'
<1> SUFFICES ASSUME TypeOK, KeepInv, ReaderTypeOK, SteadyInv, NearInv, [NextR]_allVars
             PROVE  SteadyInv' /\ NearInv'
  OBVIOUS
<1>1. CASE Begin
  <2>1. PICK for \in {"bracket", "recent"}, target \in 0 .. MaxFrames :
            /\ look' = [for |-> for, p |-> published, i |-> published - 1, target |-> target,
                        at |-> IF published - 1 >= Oldest(published) THEN "valid" ELSE "done"]
            /\ steady' = {i \in Window : Counts(ring, i, for)}
    BY <1>1 DEF Begin
  <2>2. /\ before' = NoPick /\ after' = NoPick /\ UNCHANGED <<ring, published>>
        /\ published \in Nat /\ Oldest(published) \in Int /\ N \in Nat /\ N >= 3
        /\ look'.for = for /\ look'.p = published /\ look'.i = published - 1
        /\ look'.at = IF published - 1 >= Oldest(published) THEN "valid" ELSE "done"
    BY <1>1, <2>1, RingAssumption DEF Begin, vars, sharedVars, TypeOK, Oldest
  <2> SUFFICES ASSUME for = "bracket" PROVE SteadyInv' /\ NearInv'
    BY <2>2 DEF SteadyInv, NearInv
  <2>3. Window' = Window /\ (\A i : At(i)' = At(i)) /\ \A i \in Window : i < published
    BY <2>2 DEF Window, At, SlotOf
  <2>4. SteadyInv'
    BY <2>1, <2>2, <2>3 DEF SteadyInv, Counts, At
  <2>5. \A f \in steady' : ~(f > look'.i) /\ look'.at # "done"
    <3>1. \A f \in Window : ~(f > published - 1)
      BY <2>2 DEF Window
    <3>2. \A f \in Window : published - 1 >= Oldest(published)
      BY <2>2 DEF Window, Oldest
    <3> QED
      BY <2>1, <2>2, <3>1, <3>2
  <2>6. ~before'.has /\ ~after'.has /\ look'.at # "awaiting"
    BY <2>2 DEF NoPick
  <2> QED
    BY <2>4, <2>5, <2>6 DEF NearInv
<1>2. CASE ReadValid \/ ReadStamp
  <2>1. CASE look.for = "bracket"
    BY <1>2, <2>1, ValidNear, StampNear
  <2>2. CASE look.for # "bracket"
    <3>1. look'.for = look.for
      <4>1. look.at # "done"
        BY <1>2 DEF ReadValid, ReadStamp
      <4>2. look' \in {Onward(look), [look EXCEPT !.at = "stamp"], [look EXCEPT !.at = "awaiting"],
                       [look EXCEPT !.at = "done"]}
        BY <1>2 DEF ReadValid, ReadStamp
      <4> QED
        BY <4>1, <4>2, OnwardType, FieldType
    <3> QED
      BY <2>2, <3>1 DEF SteadyInv, NearInv
  <2> QED
    BY <2>1, <2>2
<1>3. CASE ReadAwaiting
  <2>1. look.at = "awaiting" /\ look.for # "bracket"
    BY <1>3 DEF ReadAwaiting, NearInv
  <2>2. look'.for = look.for
    BY <1>3, <2>1, OnwardType, FieldType DEF ReadAwaiting
  <2> QED
    BY <2>1, <2>2 DEF SteadyInv, NearInv
<1>4. CASE Finish
  BY <1>4 DEF Finish, Idle, SteadyInv, NearInv
<1>5. CASE Capture
  BY <1>5, CaptureNear
<1>6. CASE StopCapture \/ Ended \/ UNCHANGED allVars
  <2>1. UNCHANGED <<ring, published, readerVars>>
    BY <1>6 DEF StopCapture, AskStop, Ended, Joined, allVars, vars, sharedVars
  <2>2. Window' = Window /\ \A i : At(i)' = At(i)
    BY <2>1 DEF Window, At, SlotOf
  <2> QED
    BY <2>1, <2>2 DEF SteadyInv, NearInv, Covered, readerVars
<1> QED
  BY <1>1, <1>2, <1>3, <1>4, <1>5, <1>6 DEF NextR

\* However the capture thread moves meanwhile, the bracket's sides are the
\* frames nearest to the target of all that were shown throughout the walk, and
\* of frames with one stamp the newest: nothing the capture thread stores, turns
\* on, takes back or recycles during the walk makes it pass over a steady frame.
THEOREM BracketIsNearest == SpecR => []NearestBracket
<1>1. InitR => SteadyInv /\ NearInv
  BY DEF InitR, ReaderInit, Idle, SteadyInv, NearInv
<1>2. RInv /\ KeepInv /\ SteadyInv /\ NearInv /\ [NextR]_allVars => SteadyInv' /\ NearInv'
  BY NearStep DEF RInv, IInv
<1>3. InitR => KeepInv
  BY KeepInit DEF InitR
<1>4. RInv /\ KeepInv /\ [NextR]_allVars => KeepInv'
  <2>1. [NextR]_allVars => [Next]_vars
    BY StepsRing DEF allVars
  <2> QED
    BY <2>1, KeepStep DEF RInv, IInv
<1>5. NearInv => NearestBracket
  BY DEF NearInv, NearestBracket, Covered
<1> QED
  BY <1>1, <1>2, <1>3, <1>4, <1>5, ReaderInvariant, PTL DEF SpecR
=============================================================================
