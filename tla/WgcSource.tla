------------------------------ MODULE WgcSource ------------------------------
(***************************************************************************)
(* WgcCaptureSource and the pool of frames Windows fills for it.  A ring   *)
(* slot names the texture of the pool its frame is in; the frame goes back *)
(* to the pool when the slot is given the next one, and no picture is      *)
(* copied.  The pool is on a device of its own, or on the present's where  *)
(* that does not work.  Who opens and closes it, and when, is in Session.  *)
(***************************************************************************)
EXTENDS Integers, Sequences, FiniteSets

CONSTANT Slots      \* m_ringSlots

ASSUME WgcAssumption == Slots \in Nat \ {0}

Slot == 0 .. Slots - 1
Textures == 0 .. Slots + 1      \* m_buffers: one for every slot and two more
None == -1
InSlots == [s \in Slot |-> None]

VARIABLES
    pool,     \* none yet; on its own device and not tried; in use, there or on the present's
              \* device; wanted on the present's device; refused
    free,     \* the buffers Windows may paint
    arrived,  \* the frames that wait to be taken, oldest first
    hand,     \* m_frame: the frame between Wait and Store
    storing,  \* Store has named it
    frame,    \* m_slotFrame
    named,    \* m_wgcTexture
    write,    \* m_writeCount, modulo the slots
    read      \* the texture the present took from a slot, and the stores before that slot's next

wgcVars == <<pool, free, arrived, hand, storing, frame, named, write, read>>

InUse == pool \in {"own", "present"}
Unread == [texture |-> None, left |-> 0]

Closed ==
    /\ free = {} /\ arrived = <<>> /\ hand = None /\ storing = FALSE
    /\ frame = InSlots /\ named = InSlots

WgcInit == pool = "none" /\ Closed /\ write = 0 /\ read = Unread

\* Close: every slot stops naming a texture, and the pool goes with its frames.
Close ==
    /\ free' = {} /\ arrived' = <<>> /\ hand' = None /\ storing' = FALSE
    /\ frame' = InSlots /\ named' = InSlots
    /\ UNCHANGED <<write, read>>

-----------------------------------------------------------------------------
\* Start.  Any step of it may fail, which closes everything.
Start(place) ==
    /\ pool' = place /\ free' = Textures
    /\ UNCHANGED <<arrived, hand, storing, frame, named, write, read>>

StartFails(otherwise) == pool' = otherwise /\ Close

\* Open, on a device of its own if that is wanted;
OpenFirst(own) == pool = "none" /\ Start(IF own THEN "untried" ELSE "present")
OpenFirstFails(own) == pool = "none" /\ StartFails(IF own THEN "fallback" ELSE "refused")

\* CheckOwnDevice: the first frame is opened on the present's device and goes back;
OpensFirstFrame ==
    /\ pool = "untried" /\ arrived # <<>>
    /\ pool' = "own"
    /\ free' = free \union {Head(arrived)} /\ arrived' = Tail(arrived)
    /\ UNCHANGED <<hand, storing, frame, named, write, read>>

\* it cannot be opened, or none comes in half a second;
NotOpened == pool = "untried" /\ StartFails("fallback")

\* and then on the present's device.
OpenOnPresent == pool = "fallback" /\ Start("present")
OpenOnPresentFails == pool = "fallback" /\ StartFails("refused")

-----------------------------------------------------------------------------
\* Windows paints a buffer of the pool, which one makes no difference, and hands the frame over.
Paint ==
    /\ free # {}
    /\ LET t == CHOOSE u \in free : \A v \in free : u <= v
       IN free' = free \ {t} /\ arrived' = Append(arrived, t)
    /\ UNCHANGED <<pool, hand, storing, frame, named, write, read>>

\* Wait takes a frame.
Take ==
    /\ hand = None /\ arrived # <<>>
    /\ hand' = Head(arrived) /\ arrived' = Tail(arrived)
    /\ UNCHANGED <<pool, free, storing, frame, named, write, read>>

\* Mutant: the frame left out is not given back.
LeaveOutAndKeep ==
    /\ hand = None /\ arrived # <<>>
    /\ arrived' = Tail(arrived)
    /\ UNCHANGED <<pool, free, hand, storing, frame, named, write, read>>

\* A frame that only a move of the mouse pointer brought, or one with no texture, goes back.
LeaveOut ==
    /\ hand = None /\ arrived # <<>>
    /\ arrived' = Tail(arrived) /\ free' = free \union {Head(arrived)}
    /\ UNCHANGED <<pool, hand, storing, frame, named, write, read>>

\* Store names the frame's texture in the slot first, or nothing where the present's device cannot
\* open it;
Name(opens) ==
    /\ hand # None /\ ~storing /\ (opens \/ pool = "own")
    /\ storing' = TRUE
    /\ named' = [named EXCEPT ![write] = IF opens THEN hand ELSE None]
    /\ UNCHANGED <<pool, free, arrived, hand, frame, write, read>>

\* One store less until the slot that was read is given its next frame.
Nearer == IF read.left > 0 THEN [read EXCEPT !.left = @ - 1] ELSE Unread

\* Mutant: the frame just stored is given back with the one before.
GiveBackAll ==
    /\ storing /\ storing' = FALSE
    /\ free' = free \union ({frame[write], hand} \ {None})
    /\ frame' = [frame EXCEPT ![write] = None]
    /\ hand' = None /\ write' = (write + 1) % Slots /\ read' = Nearer
    /\ UNCHANGED <<pool, arrived, named>>

\* and only then gives back the frame the slot had, and the loop publishes the slot.
GiveBack ==
    /\ storing /\ storing' = FALSE
    /\ free' = free \union ({frame[write]} \ {None})
    /\ frame' = [frame EXCEPT ![write] = hand]
    /\ hand' = None /\ write' = (write + 1) % Slots /\ read' = Nearer
    /\ UNCHANGED <<pool, arrived, named>>

\* SourceFor and CopySourceFor: the texture the slot back frames ago names, if any.
Reads(back) ==
    LET texture == named[(write - back) % Slots]
    IN IF texture = None THEN Unread ELSE [texture |-> texture, left |-> Slots - back]
==============================================================================
