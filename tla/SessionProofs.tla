--------------------------- MODULE SessionProofs ---------------------------
(***************************************************************************)
(* What is proved of module Session, for every set of command lines and    *)
(* answers, any number of displays and slots, any stall limit and however  *)
(* many frames are painted: which textures of the pool may be painted      *)
(* over, what the relay holds at each step of its life, and that late-     *)
(* batch correction has what it stands on.                                 *)
(***************************************************************************)
EXTENDS Session, FiniteSetTheorems, SequenceTheorems, WellFoundedInduction, TLAPS

PoolType ==
    /\ pool \in {"none", "untried", "fallback", "own", "present", "refused"}
    /\ free \subseteq Textures /\ arrived \in Seq(Textures)
    /\ hand \in Textures \union {None} /\ storing \in BOOLEAN
    /\ frame \in [Slot -> Textures \union {None}] /\ named \in [Slot -> Textures \union {None}]
    /\ write \in Slot

\* A texture is in one place: to be painted, waiting, in hand or in one slot.
Apart ==
    /\ \A i, j \in DOMAIN arrived : arrived[i] = arrived[j] => i = j
    /\ \A i \in DOMAIN arrived : arrived[i] \notin free
    /\ hand \notin free /\ \A i \in DOMAIN arrived : arrived[i] # hand
    /\ \A s \in Slot : frame[s] # None =>
           /\ frame[s] \notin free /\ frame[s] # hand
           /\ \A i \in DOMAIN arrived : arrived[i] # frame[s]
           /\ \A z \in Slot : frame[z] = frame[s] => z = s

\* and none is lost while there is a pool.
Started == pool \in {"untried", "own", "present"}
Whole ==
    /\ Started => \A t \in Textures :
           \/ t \in free \/ t = hand
           \/ \E i \in DOMAIN arrived : t = arrived[i]
           \/ \E s \in Slot : t = frame[s]
    /\ ~Started => Closed

\* A slot names the frame it has, or the one it is being given.
Naming ==
    /\ storing => hand # None
    /\ \A s \in Slot :
           named[s] \in {None, IF storing /\ s = write THEN hand ELSE frame[s]}

\* What the present took from a slot is that slot's frame for as many stores as it counts.
Reading ==
    \/ read = Unread
    \/ /\ step \in Loop /\ thread # "nvfbc"
       /\ read \in [texture : Textures, left : 0 .. Slots - 1]
       /\ thread = "wgc" => read.texture = frame[(write + read.left) % Slots]

\* The capture thread and its source.
Capturing ==
    /\ thread \in {"none", "nvfbc", "wgc"}
    /\ thread # "none" => step \in Loop \union {"present", "join"}
    /\ thread = "none" => pool \in {"none", "refused"}
    /\ thread = "nvfbc" =>
           sessions = {"ring"} /\ hand = None /\ frame = InSlots /\ named = InSlots
    /\ thread = "wgc" => InUse /\ sessions = {}
    /\ pool \notin {"none", "refused"} => offered
    /\ offered => step \in Loop \union {"join", "teardown", "etwWait", "dispose"}

\* What is held at each step of a launch.
Steps ==
    {"start", "choose", "resolve", "status", "solo", "etw", "ring", "present", "join", "teardown",
     "etwWait", "dispose", "end", "relaunch", "exit"} \union Loop
Holding ==
    /\ step \in Steps
    /\ step \notin {"start", "relaunch", "exit"} => lock = "mine"
    /\ sessions \in {{}, {"startup"}, {"ring"}}
    /\ step \in {"start", "choose", "resolve", "status", "end", "relaunch", "exit"} =>
           sessions = {}
    /\ step \in {"etwWait", "dispose"} => sessions # {"startup"}

\* The flip timing's trace and its callback.
Tracing ==
    /\ trace = "mine" => instance /\ step # "etwWait"
    /\ instance => step \in Loop \union {"ring", "present", "join", "teardown", "etwWait"}
    /\ consumer # "none" => instance \/ gaveUp

\* Late-batch correction is only wanted with what it stands on, and then has it.
Backed ==
    /\ step = "etw" =>
           /\ "dejitter" \in DOMAIN cfg /\ cfg = [f \in DOMAIN cfg |-> cfg[f]]
           /\ cfg.dejitter => cfg.etw /\ cfg.join /\ cfg.comb
    /\ step \in Loop \union {"ring", "present"} /\ cfg.dejitter =>
           trace = "mine" /\ consumer # "none" /\ cfg.join /\ cfg.comb

PoolInv == PoolType /\ Apart /\ Whole /\ Naming

SessionInv ==
    PoolInv /\ Reading /\ Capturing /\ Holding /\ Tracing /\ Backed

-----------------------------------------------------------------------------
\* The pool.

\* A set of numbers has a least one, so Windows has a buffer to paint where one is free.
LEMMA LeastOne ==
    ASSUME NEW S, S \subseteq Nat, S # {}
    PROVE  \E u \in S : \A v \in S : u <= v
<1> DEFINE R == {p \in Nat \X Nat : p[1] < p[2]}
<1>1. IsWellFoundedOn(R, Nat)
  BY NatLessThanWellFounded, Zenon DEF OpToRel
<1> HIDE DEF R
<1>2. PICK x \in S : \A y \in S : <<y, x>> \notin R
  BY <1>1, WFMin
<1>3. ASSUME NEW y \in S PROVE x <= y
  <2>1. x \in Nat /\ y \in Nat /\ <<y, x>> \notin R
    BY <1>2
  <2>2. \A a, b \in Nat : a < b => <<a, b>> \in R
    BY SMT DEF R
  <2> QED BY <2>1, <2>2
<1> QED BY <1>3

\* The slots and textures are numbers, none of them None.
LEMMA Numbers ==
    /\ Slots \in Nat \ {0} /\ Slot = 0 .. Slots - 1 /\ Textures = 0 .. Slots + 1
    /\ Textures \subseteq Nat /\ None = -1 /\ None \notin Textures
    /\ InSlots \in [Slot -> Textures \union {None}] /\ \A s \in Slot : InSlots[s] = None
BY WgcAssumption DEF Slot, Textures, None, InSlots

\* The oldest frame that waits is taken off the line, and the others stay in order.
LEMMA Taken ==
    ASSUME arrived \in Seq(Textures), arrived # <<>>
    PROVE  /\ Head(arrived) = arrived[1] /\ 1 \in DOMAIN arrived /\ Head(arrived) \in Textures
           /\ Tail(arrived) \in Seq(Textures)
           /\ DOMAIN Tail(arrived) = 1 .. Len(arrived) - 1
           /\ DOMAIN arrived = 1 .. Len(arrived) /\ Len(arrived) \in Nat \ {0}
           /\ \A i \in DOMAIN Tail(arrived) : Tail(arrived)[i] = arrived[i + 1] /\ i + 1 \in DOMAIN arrived
<1>1. Len(arrived) \in Nat \ {0} /\ DOMAIN arrived = 1 .. Len(arrived)
  BY EmptySeq, LenProperties
<1>2. /\ Tail(arrived) \in Seq(Textures) /\ Len(Tail(arrived)) = Len(arrived) - 1
      /\ \A i \in 1 .. Len(Tail(arrived)) : Tail(arrived)[i] = arrived[i + 1]
      /\ Head(arrived) \in Textures
  BY HeadTailProperties
<1>3. DOMAIN Tail(arrived) = 1 .. Len(arrived) - 1
  BY <1>2, LenProperties
<1> QED BY <1>1, <1>2, <1>3

\* A pool that is closed is whole, whatever it was.
LEMMA CloseKeeps ==
    ASSUME PoolInv, Close, pool' \in {"none", "fallback", "refused"}
    PROVE  PoolInv'
<1> USE Numbers DEF PoolInv, PoolType
<1>1. PoolType'
  BY EmptySeq DEF Close
<1>2. Apart'
  BY DEF Close, Apart
<1>3. Whole'
  BY DEF Close, Whole, Started, Closed
<1>4. Naming'
  BY DEF Close, Naming
<1> QED BY <1>1, <1>2, <1>3, <1>4

\* A pool that starts has every texture to be painted.
LEMMA StartKeeps ==
    ASSUME PoolInv, ~Started, NEW place \in {"untried", "present"}, Start(place)
    PROVE  PoolInv'
<1> USE Numbers DEF PoolInv, PoolType
<1>0. Closed
  BY DEF Whole
<1>1. PoolType'
  BY DEF Start
<1>2. Apart'
  BY <1>0 DEF Start, Apart, Closed
<1>3. Whole'
  BY DEF Start, Whole, Started
<1>4. Naming'
  BY <1>0 DEF Start, Naming, Closed
<1> QED BY <1>1, <1>2, <1>3, <1>4

\* Windows paints.
LEMMA PaintKeeps ==
    ASSUME PoolInv, Paint
    PROVE  PoolInv'
<1> USE Numbers
<1> DEFINE t == CHOOSE u \in free : \A v \in free : u <= v
<1>1. t \in free
  BY LeastOne DEF Paint, PoolInv, PoolType
<1> HIDE DEF t
<1>2. /\ free # {} /\ free' = free \ {t} /\ arrived' = Append(arrived, t)
      /\ pool' = pool /\ hand' = hand /\ storing' = storing /\ frame' = frame /\ named' = named
      /\ write' = write
  BY DEF Paint, t
<1>3. t \in Textures
  BY <1>1 DEF PoolInv, PoolType
<1>4. /\ arrived' \in Seq(Textures) /\ DOMAIN arrived = 1 .. Len(arrived) /\ Len(arrived) \in Nat
      /\ DOMAIN arrived' = 1 .. Len(arrived) + 1
      /\ \A i \in DOMAIN arrived : arrived'[i] = arrived[i]
      /\ arrived'[Len(arrived) + 1] = t
  <2>1. arrived \in Seq(Textures)
    BY DEF PoolInv, PoolType
  <2> QED BY <1>2, <1>3, <2>1, AppendProperties, LenProperties
<1>5. PoolType'
  BY <1>2, <1>4 DEF PoolInv, PoolType
<1>6. Apart'
  BY <1>1, <1>2, <1>4 DEF PoolInv, PoolType, Apart
<1>7. Started
  BY <1>2 DEF PoolInv, Whole, Closed
<1>8. Whole'
  <2>1. Started' /\ Len(arrived) + 1 \in DOMAIN arrived'
    BY <1>2, <1>4, <1>7 DEF Started
  <2>2. ASSUME NEW u \in Textures
        PROVE  \/ u \in free' \/ u = hand'
               \/ \E i \in DOMAIN arrived' : u = arrived'[i]
               \/ \E s \in Slot : u = frame'[s]
    <3>1. CASE u = t
      BY <3>1, <2>1, <1>4
    <3>2. CASE u # t
      <4>1. \/ u \in free \/ u = hand
            \/ \E i \in DOMAIN arrived : u = arrived[i]
            \/ \E s \in Slot : u = frame[s]
        BY <1>7 DEF PoolInv, Whole
      <4>2. \A i \in DOMAIN arrived : i \in DOMAIN arrived' /\ arrived'[i] = arrived[i]
        BY <1>4
      <4>3. u \in free => u \in free'
        BY <3>2, <1>2
      <4>4. hand' = hand /\ frame' = frame
        BY <1>2
      <4>5. CASE \E i \in DOMAIN arrived : u = arrived[i]
        BY <4>5, <4>2
      <4> QED BY <4>1, <4>3, <4>4, <4>5
    <3> QED BY <3>1, <3>2
  <2> QED BY <2>1, <2>2 DEF Whole
<1>9. Naming'
  BY <1>2 DEF PoolInv, Naming
<1> QED BY <1>5, <1>6, <1>8, <1>9 DEF PoolInv

\* A frame that waited goes into the hand,
LEMMA TakeKeeps ==
    ASSUME PoolInv, Take
    PROVE  PoolInv'
<1> USE Numbers
<1>1. /\ hand = None /\ arrived # <<>> /\ hand' = Head(arrived) /\ arrived' = Tail(arrived)
      /\ pool' = pool /\ free' = free /\ storing' = storing /\ frame' = frame /\ named' = named
      /\ write' = write
  BY DEF Take
<1>2. PoolType /\ Apart /\ Whole /\ Naming
  BY DEF PoolInv
<1>3. /\ hand' = arrived[1] /\ 1 \in DOMAIN arrived /\ hand' \in Textures
      /\ arrived' \in Seq(Textures) /\ DOMAIN arrived' = 1 .. Len(arrived) - 1
      /\ DOMAIN arrived = 1 .. Len(arrived) /\ Len(arrived) \in Nat \ {0}
      /\ \A i \in DOMAIN arrived' : arrived'[i] = arrived[i + 1] /\ i + 1 \in DOMAIN arrived
  BY <1>1, <1>2, Taken DEF PoolType
<1>4. PoolType'
  BY <1>1, <1>2, <1>3 DEF PoolType
<1>5. Apart'
  <2>1. \A i \in DOMAIN arrived' : arrived'[i] = arrived[i + 1] /\ i + 1 \in DOMAIN arrived /\ i + 1 # 1
    BY <1>3
  <2>2. \A i, j \in DOMAIN arrived' : arrived'[i] = arrived'[j] => i = j
    BY <1>2, <1>3, <2>1 DEF Apart
  <2>3. \A i \in DOMAIN arrived' : arrived'[i] # hand' /\ arrived'[i] \notin free'
    BY <1>1, <1>2, <1>3, <2>1 DEF Apart
  <2>4. hand' \notin free'
    BY <1>1, <1>2, <1>3 DEF Apart
  <2>5. ASSUME NEW s \in Slot, frame[s] # None
        PROVE  /\ frame[s] \notin free' /\ frame[s] # hand'
               /\ \A i \in DOMAIN arrived' : arrived'[i] # frame[s]
               /\ \A z \in Slot : frame[z] = frame[s] => z = s
    BY <1>1, <1>2, <1>3, <2>1, <2>5 DEF Apart
  <2> QED BY <1>1, <2>2, <2>3, <2>4, <2>5 DEF Apart
<1>6. Started
  BY <1>1, <1>2 DEF Whole, Closed
<1>7. ASSUME NEW i \in DOMAIN arrived
      PROVE  arrived[i] = hand' \/ \E j \in DOMAIN arrived' : arrived[i] = arrived'[j]
  <2>1. CASE i = 1
    BY <2>1, <1>3
  <2>2. CASE i # 1
    <3>1. i - 1 \in DOMAIN arrived' /\ (i - 1) + 1 = i
      BY <2>2, <1>3
    <3> QED BY <3>1, <1>3
  <2> QED BY <2>1, <2>2
<1>8. Whole'
  BY <1>1, <1>2, <1>6, <1>7 DEF Whole, Started
<1>9. Naming'
  BY <1>1, <1>2 DEF Naming
<1> QED BY <1>4, <1>5, <1>8, <1>9 DEF PoolInv

\* or goes back to be painted.
LEMMA BackKeeps ==
    ASSUME PoolInv, arrived # <<>>, arrived' = Tail(arrived), free' = free \union {Head(arrived)},
           pool' \in {"untried", "own", "present"}, UNCHANGED <<hand, storing, frame, named, write>>
    PROVE  PoolInv'
<1> USE Numbers
<1>1. PoolType /\ Apart /\ Whole /\ Naming
  BY DEF PoolInv
<1>2. /\ Head(arrived) = arrived[1] /\ 1 \in DOMAIN arrived /\ Head(arrived) \in Textures
      /\ arrived' \in Seq(Textures) /\ DOMAIN arrived' = 1 .. Len(arrived) - 1
      /\ DOMAIN arrived = 1 .. Len(arrived) /\ Len(arrived) \in Nat \ {0}
      /\ \A i \in DOMAIN arrived' : arrived'[i] = arrived[i + 1] /\ i + 1 \in DOMAIN arrived
  BY <1>1, Taken DEF PoolType
<1>4. PoolType'
  BY <1>1, <1>2 DEF PoolType
<1>5. Apart'
  <2>0. free' = free \union {arrived[1]}
    BY <1>2
  <2>1. \A i \in DOMAIN arrived' : arrived'[i] = arrived[i + 1] /\ i + 1 \in DOMAIN arrived /\ i + 1 # 1
    BY <1>2
  <2>2. \A i, j \in DOMAIN arrived' : arrived'[i] = arrived'[j] => i = j
    BY <1>1, <1>2, <2>1 DEF Apart
  <2>3. \A i \in DOMAIN arrived' : arrived'[i] # hand' /\ arrived'[i] \notin free'
    BY <1>1, <1>2, <2>0, <2>1 DEF Apart
  <2>4. hand' \notin free'
    BY <1>1, <1>2, <2>0 DEF Apart
  <2>5. ASSUME NEW s \in Slot, frame[s] # None
        PROVE  /\ frame[s] \notin free' /\ frame[s] # hand'
               /\ \A i \in DOMAIN arrived' : arrived'[i] # frame[s]
               /\ \A z \in Slot : frame[z] = frame[s] => z = s
    <3>1. /\ frame[s] \notin free /\ frame[s] # hand
          /\ \A i \in DOMAIN arrived : arrived[i] # frame[s]
          /\ \A z \in Slot : frame[z] = frame[s] => z = s
      BY <1>1, <2>5 DEF Apart
    <3>2. frame[s] # arrived[1]
      BY <1>2, <3>1
    <3>3. frame[s] \notin free'
      BY <2>0, <3>1, <3>2
    <3>4. \A i \in DOMAIN arrived' : arrived'[i] # frame[s]
      BY <2>1, <3>1
    <3> QED BY <3>1, <3>3, <3>4
  <2> QED BY <2>2, <2>3, <2>4, <2>5 DEF Apart
<1>6. Started
  BY <1>1 DEF Whole, Closed
<1>7. ASSUME NEW i \in DOMAIN arrived
      PROVE  arrived[i] \in free' \/ \E j \in DOMAIN arrived' : arrived[i] = arrived'[j]
  <2>1. CASE i = 1
    BY <2>1, <1>2
  <2>2. CASE i # 1
    <3>1. i - 1 \in DOMAIN arrived' /\ (i - 1) + 1 = i
      BY <2>2, <1>2
    <3> QED BY <3>1, <1>2
  <2> QED BY <2>1, <2>2
<1>8. Whole'
  BY <1>1, <1>6, <1>7 DEF Whole, Started
<1>9. Naming'
  BY <1>1 DEF Naming
<1> QED BY <1>4, <1>5, <1>8, <1>9 DEF PoolInv

\* The slot that is given a frame names it, or nothing.
LEMMA NameKeeps ==
    ASSUME PoolInv, NEW opens \in BOOLEAN, Name(opens)
    PROVE  PoolInv'
<1> USE Numbers
<1>1. PoolType /\ Apart /\ Whole /\ Naming
  BY DEF PoolInv
<1>2. PoolType'
  BY <1>1 DEF Name, PoolType
<1>3. Apart'
  BY <1>1 DEF Name, Apart
<1>4. Whole'
  BY <1>1 DEF Name, Whole, Started, Closed
<1>5. Naming'
  BY <1>1 DEF Name, Naming, PoolType
<1> QED BY <1>2, <1>3, <1>4, <1>5 DEF PoolInv

\* It gives back the frame it had, and has that one.
LEMMA GiveBackKeeps ==
    ASSUME PoolInv, GiveBack
    PROVE  PoolInv'
<1> USE Numbers
<1>1. PoolType /\ Apart /\ Whole /\ Naming
  BY DEF PoolInv
<1>2. /\ storing /\ storing' = FALSE /\ hand' = None /\ hand \in Textures
      /\ free' = free \union ({frame[write]} \ {None}) /\ frame' = [frame EXCEPT ![write] = hand]
      /\ pool' = pool /\ arrived' = arrived /\ named' = named /\ write \in Slot
      /\ frame[write] \in Textures \union {None}
  BY <1>1 DEF GiveBack, PoolType, Naming
<1>3. write' \in Slot
  BY <1>1 DEF GiveBack, PoolType
<1>4. PoolType'
  BY <1>1, <1>2, <1>3 DEF PoolType
<1>5. Apart'
  <2>1. \A s \in Slot : frame'[s] = IF s = write THEN hand ELSE frame[s]
    BY <1>1, <1>2 DEF PoolType
  <2>2. \A i \in DOMAIN arrived : arrived[i] \in Textures
    BY <1>1 DEF PoolType
  <2>3. \A i \in DOMAIN arrived : arrived[i] # hand' /\ arrived[i] \notin free'
    BY <1>1, <1>2, <2>2 DEF Apart
  <2>4. hand' \notin free'
    BY <1>1, <1>2 DEF PoolType
  <2>5. ASSUME NEW s \in Slot, frame'[s] # None
        PROVE  /\ frame'[s] \notin free' /\ frame'[s] # hand'
               /\ \A i \in DOMAIN arrived : arrived[i] # frame'[s]
               /\ \A z \in Slot : frame'[z] = frame'[s] => z = s
    <3>1. CASE s = write
      <4>1. frame'[s] = hand
        BY <3>1, <2>1
      <4>2. hand # frame[write] /\ hand \notin free /\ hand # None
        BY <1>1, <1>2 DEF Apart
      <4>3. \A z \in Slot : frame'[z] = hand => z = s
        BY <1>1, <2>1, <3>1, <4>2 DEF Apart
      <4> QED BY <1>1, <1>2, <4>1, <4>2, <4>3 DEF Apart
    <3>2. CASE s # write
      <4>1. frame'[s] = frame[s] /\ frame[s] # None
        BY <3>2, <2>1, <2>5
      <4>2. frame[s] # frame[write] /\ frame[s] \notin free /\ frame[s] # hand
        BY <1>1, <1>2, <3>2, <4>1 DEF Apart
      <4>3. \A z \in Slot : frame'[z] = frame[s] => z = s
        BY <1>1, <2>1, <4>1, <4>2 DEF Apart
      <4> QED BY <1>1, <1>2, <4>1, <4>2, <4>3 DEF Apart
    <3> QED BY <3>1, <3>2
  <2> QED BY <1>1, <1>2, <2>3, <2>4, <2>5 DEF Apart
<1>6. Started
  BY <1>1, <1>2 DEF Whole, Closed
<1>7. Whole'
  <2>1. \A s \in Slot : frame'[s] = IF s = write THEN hand ELSE frame[s]
    BY <1>1, <1>2 DEF PoolType
  <2>2. ASSUME NEW t \in Textures
        PROVE  \/ t \in free' \/ t = hand'
               \/ \E i \in DOMAIN arrived' : t = arrived'[i]
               \/ \E s \in Slot : t = frame'[s]
    <3>1. \/ t \in free \/ t = hand
          \/ \E i \in DOMAIN arrived : t = arrived[i]
          \/ \E s \in Slot : t = frame[s]
      BY <1>1, <1>6 DEF Whole
    <3>2. CASE t = hand
      BY <3>2, <2>1, <1>2
    <3>3. CASE \E s \in Slot : t = frame[s]
      <4>1. PICK s \in Slot : t = frame[s]
        BY <3>3
      <4>2. CASE s = write
        BY <4>1, <4>2, <1>2
      <4>3. CASE s # write
        BY <4>1, <4>3, <2>1
      <4> QED BY <4>2, <4>3
    <3> QED BY <1>2, <3>1, <3>2, <3>3
  <2> QED BY <1>2, <1>6, <2>2 DEF Whole, Started
<1>8. Naming'
  BY <1>1, <1>2 DEF Naming, PoolType
<1> QED BY <1>4, <1>5, <1>7, <1>8 DEF PoolInv

\* The pool is only changed by the capture thread and by Windows.
LEMMA PoolStays ==
    ASSUME PoolInv, UNCHANGED <<pool, free, arrived, hand, storing, frame, named, write>>
    PROVE  PoolInv'
BY DEF PoolInv, PoolType, Apart, Whole, Started, Closed, Naming

-----------------------------------------------------------------------------
\* The slots around the ring.

\* The slot so many stores back is the one so many stores ahead, and is not the next one.
LEMMA SlotBack ==
    ASSUME NEW w \in Slot, NEW back \in 1 .. Slots - 1
    PROVE  /\ (w - back) % Slots \in Slot /\ (w - back) % Slots # w
           /\ (w - back) % Slots = (w + (Slots - back)) % Slots
<1> USE Numbers
<1>1. CASE back <= w
  <2>1. (w - back) % Slots = w - back
    BY <1>1
  <2>2. (w + (Slots - back)) % Slots = w - back
    BY <1>1
  <2> QED BY <1>1, <2>1, <2>2
<1>2. CASE w < back
  <2>1. (w - back) % Slots = w - back + Slots
    BY <1>2
  <2>2. (w + (Slots - back)) % Slots = w - back + Slots
    BY <1>2
  <2> QED BY <1>2, <2>1, <2>2
<1> QED BY <1>1, <1>2, Numbers

\* A store brings the slot that was read one store nearer.
LEMMA SlotNearer ==
    ASSUME NEW w \in Slot, NEW left \in 1 .. Slots - 1
    PROVE  /\ (w + left) % Slots \in Slot /\ (w + left) % Slots # w
           /\ (((w + 1) % Slots) + (left - 1)) % Slots = (w + left) % Slots
<1> USE Numbers
<1>1. CASE w + left < Slots
  <2>1. (w + left) % Slots = w + left /\ (w + 1) % Slots = w + 1
    BY <1>1
  <2> QED BY <1>1, <2>1
<1>2. CASE w + left >= Slots
  <2>1. (w + left) % Slots = w + left - Slots
    BY <1>2
  <2>2. CASE w + 1 = Slots
    <3>1. (w + 1) % Slots = 0
      BY <2>2
    <3>2. (left - 1) % Slots = left - 1
      OBVIOUS
    <3> QED BY <2>1, <2>2, <3>1, <3>2
  <2>3. CASE w + 1 # Slots
    <3>1. (w + 1) % Slots = w + 1
      BY <2>3
    <3> QED BY <1>2, <2>1, <3>1
  <2> QED BY <2>2, <2>3
<1> QED BY <1>1, <1>2, Numbers

-----------------------------------------------------------------------------
\* The steps.

\* What the steps have to keep beside the pool.
Life == Reading /\ Capturing /\ Holding /\ Tracing /\ Backed

\* The main thread before the mode runs, and as it relaunches.
LEMMA LaunchKeeps ==
    ASSUME SessionInv, Launch
    PROVE  PoolInv' /\ Life'
<1> USE DEF SessionInv, Goes, launchVars, captureVars, traceVars, displayVars, worldVars, wgcVars,
        NotSetUp
<1>1. PoolInv'
  BY PoolStays DEF Launch, TakeLock, FromCommandLine, FromPrompts, NoLaunch, Resolve, SetUp, DeviceFails, StartupSessionFails, ModeFails, TurnOnCapture, LetGo, Relaunched, NotRelaunched
<1> SUFFICES Life'
  BY <1>1
<1> USE DEF Life, Reading, Capturing, Holding, Tracing, Backed, Loop, Steps, InUse, Started
<1>2. CASE TakeLock
  BY <1>2 DEF TakeLock
<1>3. CASE FromCommandLine
  BY <1>3 DEF FromCommandLine
<1>4. CASE FromPrompts
  BY <1>4 DEF FromPrompts
<1>5. CASE NoLaunch
  BY <1>5 DEF NoLaunch
<1>6. CASE Resolve
  BY <1>6 DEF Resolve
<1>7. CASE SetUp
  <2> DEFINE m == ParseMode(choice.mode)
             o == choice.options
             runs == [temporal |-> TRUE, d3d11 |-> m.d3d11, wgc |-> o.wgc, own |-> o.wgcOpen,
                      copyEngine |-> o.wgc /\ o.copyEngine, etw |-> o.etw,
                      join |-> o.etw /\ ~o.noJoin, comb |-> o.lock,
                      dejitter |-> o.dejitter /\ (o.etw /\ ~o.noJoin) /\ o.lock]
  <2>1. ModeRuns = IF m.kind # "Temporal" THEN NoCfg ELSE runs
    BY DEF ModeRuns
  <2>2. step' = "etw" => cfg' = runs
    BY <1>7, <2>1 DEF SetUp, NoCfg
  <2>3. /\ "dejitter" \in DOMAIN runs /\ runs = [f \in DOMAIN runs |-> runs[f]]
        /\ runs.dejitter => runs.etw /\ runs.join /\ runs.comb
    OBVIOUS
  <2> HIDE DEF runs
  <2>4. Backed'
    BY <1>7, <2>2, <2>3 DEF SetUp
  <2> QED BY <1>7, <2>4 DEF SetUp
<1>8. CASE DeviceFails
  BY <1>8 DEF DeviceFails
<1>9. CASE StartupSessionFails
  BY <1>9 DEF StartupSessionFails
<1>10. CASE ModeFails
  BY <1>10 DEF ModeFails
<1>11. CASE TurnOnCapture
  BY <1>11 DEF TurnOnCapture
<1>12. CASE LetGo
  BY <1>12 DEF LetGo
<1>13. CASE Relaunched
  BY <1>13 DEF Relaunched
<1>14. CASE NotRelaunched
  BY <1>14 DEF NotRelaunched
<1> QED BY <1>2, <1>3, <1>4, <1>5, <1>6, <1>7, <1>8, <1>9, <1>10, <1>11, <1>12, <1>13, <1>14 DEF Launch

\* A frame the present reads from a slot is that slot's.
LEMMA ComposeKeeps ==
    ASSUME SessionInv, Compose
    PROVE  Life'
<1>1. PICK back \in 1 .. Slots - 1 : read' = Reads(back)
  BY DEF Compose
<1>2. /\ PoolType /\ Naming /\ Capturing /\ Holding /\ write \in Slot
      /\ UNCHANGED <<pool, hand, frame, named, write, thread>>
  BY DEF SessionInv, PoolInv, PoolType, Compose, captureVars
<1>3. Slots - back \in 1 .. Slots - 1
  BY Numbers
<1> DEFINE s == (write - back) % Slots
<1>4. s \in Slot /\ s # write /\ s = (write + (Slots - back)) % Slots
  BY <1>2, SlotBack
<1> HIDE DEF s
<1>5. named[s] \in {None, frame[s]} /\ named[s] \in Textures \union {None}
  BY <1>2, <1>4 DEF Naming, PoolType
<1>6. read' = IF named[s] = None THEN Unread ELSE [texture |-> named[s], left |-> Slots - back]
  BY <1>1 DEF Reads, s
<1>7. thread = "nvfbc" => named[s] = None
  BY <1>2, <1>4, Numbers DEF Capturing
<1>8. step' \in Loop
  BY DEF Compose, Goes, Loop
<1>9. Reading'
  <2>1. CASE named[s] = None
    BY <2>1, <1>6 DEF Reading, Unread
  <2>2. CASE named[s] # None
    <3>1. /\ read' = [texture |-> named[s], left |-> Slots - back]
          /\ named[s] = frame[s] /\ named[s] \in Textures
      BY <2>2, <1>5, <1>6
    <3>2. read'.texture = frame[(write + read'.left) % Slots]
      BY <3>1, <1>4
    <3>3. read' \in [texture : Textures, left : 0 .. Slots - 1]
      BY <3>1, <1>3
    <3> QED BY <2>2, <1>2, <1>7, <1>8, <3>2, <3>3 DEF Reading
  <2> QED BY <2>1, <2>2
<1> QED
  BY <1>9 DEF Compose, SessionInv, Life, Capturing, Holding, Tracing, Backed, Goes, Loop, Steps,
     launchVars, captureVars, traceVars, displayVars, worldVars, InUse, Started

\* The main thread from the mode's Run to the end.
LEMMA RunKeeps ==
    ASSUME SessionInv, Run
    PROVE  PoolInv' /\ Life'
<1> USE DEF SessionInv, Goes, launchVars, captureVars, traceVars, displayVars, worldVars, wgcVars
<1>1. PoolInv'
  BY PoolStays DEF Run, SoloLost, SoloClosed, StartTrace, StartTraceFails, NoTrace, StartRing, StartRingFails, SetUpPresent, PresentRefused, Paced, WaitTimesOut, ManagerLost, Compose, Check, Join, ReleaseStartup, EtwStopped, Dispose, Ended
<1> SUFFICES Life'
  BY <1>1
<1> USE DEF Life, Reading, Capturing, Holding, Tracing, Backed, Loop, Steps, InUse, Started
<1>2. CASE SoloLost
  BY <1>2 DEF SoloLost
<1>3. CASE SoloClosed
  BY <1>3 DEF SoloClosed
<1>4. CASE StartTrace
  BY <1>4 DEF StartTrace
<1>5. CASE StartTraceFails
  BY <1>5 DEF StartTraceFails
<1>6. CASE NoTrace
  BY <1>6 DEF NoTrace
<1>7. CASE StartRing
  BY <1>7 DEF StartRing, PoolInv, Whole, Closed
<1>8. CASE StartRingFails
  BY <1>8 DEF StartRingFails
<1>9. CASE SetUpPresent
  BY <1>9 DEF SetUpPresent
<1>10. CASE PresentRefused
  BY <1>10 DEF PresentRefused
<1>11. CASE Paced
  BY <1>11 DEF Paced
<1>12. CASE WaitTimesOut
  BY <1>12 DEF WaitTimesOut
<1>13. CASE ManagerLost
  BY <1>13 DEF ManagerLost
<1>14. CASE Compose
  BY <1>14, ComposeKeeps
<1>15. CASE Check
  BY <1>15 DEF Check
<1>16. CASE Join
  BY <1>16 DEF Join
<1>17. CASE ReleaseStartup
  BY <1>17 DEF ReleaseStartup
<1>18. CASE EtwStopped
  BY <1>18 DEF EtwStopped
<1>19. CASE Dispose
  BY <1>19 DEF Dispose
<1>20. CASE Ended
  BY <1>20 DEF Ended
<1> QED BY <1>2, <1>3, <1>4, <1>5, <1>6, <1>7, <1>8, <1>9, <1>10, <1>11, <1>12, <1>13, <1>14, <1>15, <1>16, <1>17, <1>18, <1>19, <1>20 DEF Run

\* The capture thread.
LEMMA CaptureKeeps ==
    ASSUME SessionInv, CaptureThread
    PROVE  PoolInv' /\ Life'
<1> USE DEF SessionInv
<1>1. /\ step' = step /\ lock' = lock /\ cfg' = cfg /\ offered' = offered
      /\ UNCHANGED <<trace, consumer, instance, gaveUp>>
  BY DEF CaptureThread, TryWgc, GoOnOpening, TakeOver, CaptureLost, ThreadEnds, TakeFrame,
     StoreFrame, NotMain, captureVars, launchVars, traceVars
<1>2. Tracing' /\ Backed'
  BY <1>1 DEF Tracing, Backed
<1> SUFFICES PoolInv' /\ Reading' /\ Capturing' /\ Holding'
  BY <1>2 DEF Life
<1>3. CASE TryWgc
  <2>1. /\ thread = "nvfbc" /\ pool = "none" /\ offered /\ read = Unread /\ ~Started
        /\ UNCHANGED <<sessions, thread>>
    BY <1>3, <1>1 DEF TryWgc, OpenFirst, OpenFirstFails, Reading, captureVars, Started
  <2>2. CASE OpenFirst(cfg.own)
    <3>1. PICK place \in {"untried", "present"} : pool' = place /\ Start(place)
      BY <2>2 DEF OpenFirst, Start
    <3>2. PoolInv'
      BY <2>1, <3>1, StartKeeps
    <3>3. UNCHANGED <<hand, frame, named, read>>
      BY <3>1 DEF Start
    <3> QED BY <1>1, <2>1, <3>1, <3>2, <3>3 DEF Reading, Capturing, Holding, Started, InUse
  <2>3. CASE OpenFirstFails(cfg.own)
    <3>1. pool' \in {"fallback", "refused"} /\ Close
      BY <2>3 DEF OpenFirstFails, StartFails
    <3>2. PoolInv'
      BY <3>1, CloseKeeps
    <3>3. hand' = None /\ frame' = InSlots /\ named' = InSlots /\ read' = read
      BY <3>1 DEF Close
    <3> QED BY <1>1, <2>1, <3>1, <3>2, <3>3 DEF Reading, Capturing, Holding, Started, InUse
  <2> QED BY <1>3, <2>2, <2>3 DEF TryWgc
<1>4. CASE GoOnOpening
  <2>1. thread = "nvfbc" /\ read = Unread /\ UNCHANGED <<sessions, thread>>
    BY <1>4 DEF GoOnOpening, Reading, captureVars
  <2>2. CASE OpensFirstFrame
    <3>1. PoolInv'
      BY <2>2, BackKeeps DEF OpensFirstFrame
    <3> QED
      BY <1>1, <2>1, <2>2, <3>1 DEF OpensFirstFrame, Reading, Capturing, Holding, Started, InUse
  <2>3. CASE OpenOnPresent
    <3>1. ~Started
      BY <2>3 DEF OpenOnPresent, Started
    <3>2. PoolInv'
      BY <2>3, <3>1, StartKeeps DEF OpenOnPresent
    <3>3. offered
      BY <2>1, <2>3 DEF OpenOnPresent, Capturing
    <3> QED
      BY <1>1, <2>1, <2>3, <3>2, <3>3
         DEF OpenOnPresent, Start, Reading, Capturing, Holding, Started, InUse
  <2>4. CASE NotOpened \/ OpenOnPresentFails
    <3>0. offered
      BY <2>1, <2>4 DEF NotOpened, OpenOnPresentFails, Capturing
    <3>1. pool' \in {"fallback", "refused"} /\ Close
      BY <2>4 DEF NotOpened, OpenOnPresentFails, StartFails
    <3>2. PoolInv'
      BY <3>1, CloseKeeps
    <3>3. hand' = None /\ frame' = InSlots /\ named' = InSlots /\ read' = read
      BY <3>1 DEF Close
    <3> QED BY <3>0, <1>1, <2>1, <3>1, <3>2, <3>3 DEF Reading, Capturing, Holding, Started, InUse
  <2> QED BY <1>4, <2>2, <2>3, <2>4 DEF GoOnOpening
<1>5. CASE TakeOver
  <2>1. PoolInv'
    BY <1>5, PoolStays DEF TakeOver, wgcVars
  <2> QED
    BY <1>1, <1>5, <2>1 DEF TakeOver, wgcVars, Reading, Capturing, Holding, Started, InUse
<1>6. CASE CaptureLost
  <2>1. PoolInv'
    BY <1>6, PoolStays DEF CaptureLost, wgcVars
  <2> QED
    BY <1>1, <1>6, <2>1
       DEF CaptureLost, wgcVars, Reading, Capturing, Holding, Started, InUse, Opening, PoolInv,
           PoolType
<1>7. CASE ThreadEnds
  <2>1. thread' = "none" /\ sessions' = sessions /\ read' = read
    BY <1>7 DEF ThreadEnds, wgcVars, Close
  <2>2. CASE thread = "nvfbc" /\ ~Opening /\ UNCHANGED wgcVars
    <3>1. PoolInv'
      BY <2>2, PoolStays DEF wgcVars
    <3> QED
      BY <1>1, <2>1, <2>2, <3>1
         DEF wgcVars, Reading, Capturing, Holding, Started, InUse, Opening, PoolInv, PoolType
  <2>3. CASE thread = "wgc" /\ hand = None /\ pool' = "none" /\ Close
    <3>1. PoolInv'
      BY <2>3, CloseKeeps
    <3> QED
      BY <1>1, <2>1, <2>3, <3>1 DEF Reading, Capturing, Holding, Started, InUse
  <2> QED BY <1>7, <2>2, <2>3 DEF ThreadEnds
<1>8. CASE TakeFrame
  <2>1. /\ thread = "wgc" /\ InUse /\ pool' = pool
        /\ UNCHANGED <<thread, sessions, frame, write, read>>
    BY <1>8 DEF TakeFrame, captureVars, Take, LeaveOut, Capturing
  <2>2. PoolInv'
    <3>1. CASE Take
      BY <3>1, TakeKeeps
    <3>2. CASE LeaveOut
      BY <2>1, <3>2, BackKeeps DEF LeaveOut, InUse
    <3> QED BY <1>8, <3>1, <3>2 DEF TakeFrame
  <2> QED BY <1>1, <2>1, <2>2 DEF Reading, Capturing, Holding, Started, InUse
<1>9. CASE StoreFrame
  <2>1. thread = "wgc" /\ InUse /\ pool' = pool /\ UNCHANGED <<thread, sessions>>
    BY <1>9 DEF StoreFrame, captureVars, Name, GiveBack, Capturing
  <2>2. CASE Name(TRUE) \/ Name(FALSE)
    <3>1. PoolInv'
      BY <2>2, NameKeeps
    <3>2. UNCHANGED <<frame, write, read>>
      BY <2>2 DEF Name
    <3> QED BY <1>1, <2>1, <3>1, <3>2 DEF Reading, Capturing, Holding, Started, InUse
  <2>3. CASE GiveBack
    <3>1. PoolInv'
      BY <2>3, GiveBackKeeps
    <3>2. Capturing' /\ Holding'
      BY <1>1, <2>1 DEF Capturing, Holding, Started, InUse
    <3>3. read' = IF read.left > 0 THEN [read EXCEPT !.left = @ - 1] ELSE Unread
      BY <2>3 DEF GiveBack, Nearer
    <3>4. CASE read = Unread
      <4>1. read' = Unread
        BY <3>3, <3>4 DEF Unread
      <4> QED BY <3>1, <3>2, <4>1 DEF Reading
    <3>5. CASE read # Unread /\ read.left = 0
      <4>1. read' = Unread
        BY <3>3, <3>5
      <4> QED BY <3>1, <3>2, <4>1 DEF Reading
    <3>6. CASE read # Unread /\ read.left # 0
      <4>1. /\ step \in Loop /\ read \in [texture : Textures, left : 0 .. Slots - 1]
            /\ read.texture = frame[(write + read.left) % Slots]
        BY <2>1, <3>6 DEF Reading
      <4> DEFINE left == read.left
      <4>2. left \in 1 .. Slots - 1
        BY <3>6, <4>1, Numbers
      <4>3. read' = [texture |-> read.texture, left |-> left - 1]
        BY <3>3, <4>1, <4>2
      <4>4. /\ write \in Slot /\ write' = (write + 1) % Slots
            /\ frame' = [frame EXCEPT ![write] = hand] /\ frame \in [Slot -> Textures \union {None}]
        BY <2>3 DEF GiveBack, PoolInv, PoolType
      <4>5. /\ (write + left) % Slots \in Slot /\ (write + left) % Slots # write
            /\ (write' + (left - 1)) % Slots = (write + left) % Slots
        BY <4>2, <4>4, SlotNearer
      <4> HIDE DEF left
      <4>6. read.texture = frame[(write + left) % Slots]
        BY <4>1 DEF left
      <4>7. read'.texture = frame'[(write' + read'.left) % Slots]
        BY <4>3, <4>4, <4>5, <4>6
      <4>8. read' \in [texture : Textures, left : 0 .. Slots - 1]
        BY <4>1, <4>2, <4>3, Numbers
      <4> QED BY <1>1, <2>1, <3>1, <3>2, <4>1, <4>7, <4>8 DEF Reading
    <3> QED BY <3>4, <3>5, <3>6
  <2> QED BY <1>9, <2>2, <2>3 DEF StoreFrame
<1> QED BY <1>3, <1>4, <1>5, <1>6, <1>7, <1>8, <1>9 DEF CaptureThread

\* Windows, the flip timing, the display, the user and another relay.
LEMMA OthersKeep ==
    ASSUME SessionInv, Painted \/ Consumer \/ Outside \/ OtherRelay
    PROVE  PoolInv' /\ Life'
<1> USE DEF SessionInv, Life, Reading, Capturing, Holding, Tracing, Backed, launchVars, captureVars,
        traceVars, displayVars, worldVars, wgcVars, InUse, Started
<1>1. CASE Painted
  <2>1. PoolInv'
    BY <1>1, PaintKeeps DEF Painted
  <2> QED BY <1>1, <2>1 DEF Painted, NotMain, Paint
<1>2. CASE Consumer
  <2>1. PoolInv'
    BY <1>2, PoolStays DEF Consumer
  <2>2. UNCHANGED <<trace, instance, gaveUp>>
    BY <1>2 DEF Consumer, EventComes, EventDone, ConsumerEnds
  <2>3. consumer' # "none" => consumer # "none"
    BY <1>2 DEF Consumer, EventComes, EventDone, ConsumerEnds
  <2>4. trace = "mine" /\ consumer # "none" => consumer' # "none"
    BY <1>2 DEF Consumer, EventComes, EventDone, ConsumerEnds
  <2> QED BY <1>2, <2>1, <2>2, <2>3, <2>4 DEF Consumer
<1>3. CASE Outside
  <2>1. PoolInv'
    BY <1>3, PoolStays DEF Outside
  <2>2. UNCHANGED <<sessions, thread, offered>>
    BY <1>3 DEF Outside, CloseWindow, Invalidate, Freeze
  <2> QED BY <1>3, <2>1, <2>2 DEF Outside
<1>4. CASE OtherRelay
  <2>1. PoolInv'
    BY <1>4, PoolStays DEF OtherRelay
  <2> QED BY <1>4, <2>1 DEF OtherRelay
<1> QED BY <1>1, <1>2, <1>3, <1>4

\* All of it holds from the start,
LEMMA SessionInit == Init => SessionInv
<1> SUFFICES ASSUME Init PROVE SessionInv
  OBVIOUS
<1> USE Numbers, EmptySeq DEF Init, WgcInit, Closed
<1>1. PoolInv
  BY DEF PoolInv, PoolType, Apart, Whole, Started, Naming
<1>2. Reading /\ Capturing
  BY DEF Reading, Capturing, Started, Loop
<1>3. Holding /\ Tracing /\ Backed
  BY DEF Holding, Tracing, Backed, Steps, Loop
<1> QED BY <1>1, <1>2, <1>3 DEF SessionInv

\* and through every step.
LEMMA SessionStep == SessionInv /\ [Next]_vars => SessionInv'
<1> SUFFICES ASSUME SessionInv, [Next]_vars PROVE SessionInv'
  OBVIOUS
<1>1. CASE Next
  BY <1>1, LaunchKeeps, RunKeeps, CaptureKeeps, OthersKeep DEF Next, SessionInv, Life
<1>2. CASE UNCHANGED vars
  <2>1. PoolInv'
    BY <1>2, PoolStays DEF vars, wgcVars, SessionInv
  <2> QED
    BY <1>2, <2>1 DEF vars, launchVars, captureVars, traceVars, displayVars, worldVars, wgcVars,
       SessionInv, Reading, Capturing, Holding, Tracing, Backed, Started, InUse
<1> QED BY <1>1, <1>2

-----------------------------------------------------------------------------
\* What is kept, whichever thread runs and whatever fails: no texture of the pool is in two places
\* or lost, what the present reads is the frame of a slot that is not the next to be given one, and
\* each step of a launch holds what it should.
THEOREM SessionInvariant == Spec => []SessionInv
BY SessionInit, SessionStep, PTL DEF Spec

\* The texture the present took from a slot is never to be painted, nor waits with a new picture,
\* until Store gives that slot another frame: the frame goes back to the pool only then.
THEOREM ReadStays == Spec => []SourceStays
<1>1. SessionInv => SourceStays
  <2> SUFFICES ASSUME SessionInv, read.texture # None PROVE read.texture \notin free \union ToSet(arrived)
    BY DEF SourceStays
  <2>1. PoolInv /\ Reading /\ Capturing /\ read # Unread
    BY DEF SessionInv, Unread
  <2>2. CASE thread = "wgc"
    <3>1. read \in [texture : Textures, left : 0 .. Slots - 1] /\ write \in Slot
      BY <2>1 DEF Reading, PoolInv, PoolType
    <3> DEFINE s == (write + read.left) % Slots
    <3>2. s \in Slot
      <4>1. CASE read.left = 0
        BY <3>1, <4>1, Numbers
      <4>2. CASE read.left \in 1 .. Slots - 1
        BY <3>1, <4>2, SlotNearer
      <4> QED BY <3>1, <4>1, <4>2, Numbers
    <3>3. read.texture = frame[s]
      BY <2>1, <2>2 DEF Reading
    <3> HIDE DEF s
    <3>4. frame[s] \in Textures
      BY <3>1, <3>3
    <3>5. frame[s] \notin free /\ \A i \in DOMAIN arrived : arrived[i] # frame[s]
      BY <2>1, <3>2, <3>4, Numbers DEF PoolInv, Apart
    <3> QED BY <3>3, <3>5 DEF ToSet
  <2>3. CASE thread # "wgc"
    <3>1. free = {} /\ arrived = <<>>
      BY <2>1, <2>3 DEF Reading, Capturing, PoolInv, Whole, Started, Closed
    <3> QED BY <3>1 DEF ToSet
  <2> QED BY <2>2, <2>3
<1> QED BY <1>1, SessionInvariant, PTL

\* The pool never runs dry: with two textures more than slots, one is always to be painted or has
\* been and waits to be taken, so a picture is never waited for in vain.
THEOREM PoolNeverDry == Spec => []PoolHasRoom
<1>1. SessionInv => PoolHasRoom
  <2> SUFFICES ASSUME SessionInv, InUse, free = {}, arrived = <<>> PROVE FALSE
    BY DEF PoolHasRoom
  <2>1. \A t \in Textures : t = hand \/ \E s \in Slot : t = frame[s]
    BY DEF SessionInv, PoolInv, Whole, Started, InUse
  <2> DEFINE held == [i \in 0 .. Slots |-> IF i = Slots THEN hand ELSE frame[i]]
             holders == {i \in 0 .. Slots : held[i] \in Textures}
             g == [i \in holders |-> held[i]]
  <2>2. \A t \in Textures : \E i \in holders : g[i] = t
    <3> TAKE t \in Textures
    <3>1. CASE t = hand
      <4>1. Slots \in holders /\ g[Slots] = t
        BY <3>1, Numbers
      <4> QED BY <4>1
    <3>2. CASE \E s \in Slot : t = frame[s]
      <4>1. PICK s \in Slot : t = frame[s]
        BY <3>2
      <4>2. s \in holders /\ g[s] = t
        BY <4>1, Numbers
      <4> QED BY <4>2
    <3> QED BY <2>1, <3>1, <3>2
  <2>3. g \in Surjection(holders, Textures)
    BY <2>2 DEF Surjection
  <2>4. /\ IsFiniteSet(0 .. Slots) /\ Cardinality(0 .. Slots) = Slots + 1
        /\ IsFiniteSet(Textures) /\ Cardinality(Textures) = Slots + 2
    BY Numbers, FS_Interval
  <2>5. IsFiniteSet(holders) /\ Cardinality(holders) <= Slots + 1
    BY <2>4, FS_Subset
  <2>6. Cardinality(Textures) <= Cardinality(holders)
    BY <2>3, <2>5, FS_Surjection
  <2>7. Cardinality(holders) \in Nat
    BY <2>5, FS_CardinalityType
  <2> QED BY <2>4, <2>5, <2>6, <2>7, Numbers
<1> QED BY <1>1, SessionInvariant, PTL

\* Each thread that captures has its source, there is one session at most and only under the lock,
\* and the pool is only used on a device the present has offered.
THEOREM CaptureIsOne == Spec => []OneCapture
<1>1. SessionInv => OneCapture
  <2> SUFFICES ASSUME SessionInv PROVE OneCapture
    OBVIOUS
  <2> USE DEF SessionInv, Capturing, Holding
  <2>1. Cardinality(sessions) <= 1
    <3>1. Cardinality({}) = 0
      BY FS_EmptySet
    <3>2. Cardinality({"startup"}) = 1 /\ Cardinality({"ring"}) = 1
      BY FS_Singleton
    <3> QED BY <3>1, <3>2
  <2>2. sessions # {} \/ thread # "none" => lock = "mine"
    BY DEF Loop
  <2> QED BY <2>1, <2>2 DEF OneCapture, InUse, Started
<1> QED BY <1>1, SessionInvariant, PTL

\* Teardown finds nothing capturing, and the process leaves, or is relaunched, with no session, no
\* trace and no callback but one that three seconds were not enough for.
THEOREM NothingLeft == Spec => []LeavesNothing
<1>1. SessionInv => LeavesNothing
  BY DEF SessionInv, Capturing, Holding, Tracing, LeavesNothing, InUse, Loop
<1> QED BY <1>1, SessionInvariant, PTL

\* A turn with late-batch correction has a trace, its thread, the flip join and the comb lock: what
\* the options say is dropped where flip timing could not start.
THEOREM DejitterStands == Spec => []DejitterBacked
<1>1. SessionInv => DejitterBacked
  BY DEF SessionInv, Backed, DejitterBacked
<1> QED BY <1>1, SessionInvariant, PTL
============================================================================
