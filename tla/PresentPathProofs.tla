-------------------------- MODULE PresentPathProofs --------------------------
(***************************************************************************)
(* What is proved of module PresentPath, for every ring, every setting and *)
(* every movement of source and target: the memory of the two policies     *)
(* stays whole, a blend mode never falls behind by more than 7/8 of a      *)
(* source period and its gate, and the nearest mode keeps near the target. *)
(***************************************************************************)
EXTENDS PresentPath, SequenceTheorems, TLAPS

\* What Bracket says of target t, as far as the decisions need it.
BracketOK(b, t) ==
    /\ b.hasBefore \in BOOLEAN /\ b.hasAfter \in BOOLEAN /\ b.exempt \in BOOLEAN
    /\ b.beforeTs \in Nat /\ b.afterTs \in Nat /\ b.beforeDiff \in Nat /\ b.afterDiff \in Nat
    /\ b.hasBefore => b.beforeTs + b.beforeDiff = t
    /\ ~b.hasBefore => b.beforeTs = 0 /\ b.beforeDiff = 0
    /\ b.hasAfter => b.afterTs = t + b.afterDiff

\* The gate is at least the narrow one and at most the wide one.
LEMMA GateBounds ==
    ASSUME NEW s \in CompositeStates, NEW c \in Setting
    PROVE  /\ WideGate(c) \in Nat
           /\ PassthroughGate(s, c) \in Nat
           /\ PassthroughGate(s, c) <= WideGate(c)
BY DEF CompositeStates, Setting, WideGate, PassthroughGate

\* One blend-mode decision keeps the memory whole.
LEMMA DecideKeepsMemory ==
    ASSUME NEW s \in CompositeStates, NEW c \in Setting, NEW t \in Nat, NEW b,
           BracketOK(b, t), CompOK(s, c)
    PROVE  /\ DecideComposite(b, s, c).st \in CompositeStates
           /\ CompOK(DecideComposite(b, s, c).st, c)
           /\ DecideComposite(b, s, c).op \in Ops
<1> DEFINE op == Candidate(b, s, c)
           gate == PassthroughGate(s, c)
<1>g. gate \in Nat /\ gate <= WideGate(c) /\ WideGate(c) \in Nat
  BY GateBounds
<1>1. op \in {"before", "after", "synth", "comb", "hold"}
  BY DEF Candidate
<1>2. /\ op = "before" => b.hasBefore /\ b.beforeDiff < gate
      /\ op = "after" => b.hasAfter /\ b.afterDiff < gate
      /\ op = "synth" => b.hasBefore /\ b.hasAfter
  BY DEF Candidate, EligibleBefore, EligibleAfter
<1>3. CASE op \in {"comb", "hold"} \/ OutputTs(b, op) < s.out
  <2>1. DecideComposite(b, s, c) = HeldBack(b, s, op)
    BY <1>3 DEF DecideComposite
  <2> QED BY <2>1 DEF HeldBack, Ops
<1>4. CASE ~(op \in {"comb", "hold"} \/ OutputTs(b, op) < s.out)
  <2>1. DecideComposite(b, s, c) = Consumed(b, s, op)
    BY <1>4 DEF DecideComposite
  <2>2. Target(b) \in Nat /\ (b.hasBefore => Target(b) = t)
    BY DEF Target, BracketOK
  <2>3. /\ OutputTs(b, op) \in Nat
        /\ Target(b) <= OutputTs(b, op) + WideGate(c)
    <3>1. CASE op = "before"
      BY <3>1, <1>2, <1>g, <2>2 DEF OutputTs, BracketOK, Target
    <3>2. CASE op = "after"
      BY <3>2, <1>2, <1>g, <2>2 DEF OutputTs, BracketOK, Target
    <3>3. CASE op = "synth"
      BY <3>3, <1>2, <1>g, <2>2 DEF OutputTs
    <3> QED BY <3>1, <3>2, <3>3, <1>1, <1>4
  <2>4. s.passAfter \in BOOLEAN
    BY DEF CompositeStates
  <2>5. (IF op = "synth" THEN s.passAfter ELSE op = "after") \in BOOLEAN
    BY <2>4
  <2>6. Consumed(b, s, op).st =
           [out |-> OutputTs(b, op), target |-> Target(b), synth |-> op = "synth",
            passAfter |-> IF op = "synth" THEN s.passAfter ELSE op = "after"]
    BY DEF Consumed
  <2>7. Consumed(b, s, op).op = op
    BY DEF Consumed
  <2>8. Consumed(b, s, op).st \in CompositeStates
    BY <2>2, <2>3, <2>5, <2>6 DEF CompositeStates
  <2>9. CompOK(Consumed(b, s, op).st, c)
    BY <2>2, <2>3, <2>6 DEF CompOK
  <2> QED BY <2>1, <2>7, <2>8, <2>9, <1>1 DEF Ops
<1> QED BY <1>3, <1>4

\* With a frame on each side, the instant a decision leaves on the screen is near the target.
LEMMA DecideFresh ==
    ASSUME NEW s \in CompositeStates, NEW c \in Setting, NEW t \in Nat, NEW b,
           BracketOK(b, t), CompOK(s, c), b.hasBefore, b.hasAfter
    PROVE  t - DecideComposite(b, s, c).st.out <= (c.srcPeriod * 7) \div 8 + WideGate(c)
<1> DEFINE op == Candidate(b, s, c)
           gate == PassthroughGate(s, c)
           cut == (c.srcPeriod * 7) \div 8
<1>g. gate \in Nat /\ gate <= WideGate(c) /\ WideGate(c) \in Nat
  BY GateBounds
<1>c. cut \in Nat /\ (c.srcPeriod > 0 => cut >= 0)
  BY DEF Setting
<1>t. Target(b) = t
  BY DEF Target, BracketOK
<1>1. op \in {"before", "after", "synth", "comb"}
  BY DEF Candidate
<1>2. CASE op = "comb"
  <2>1. s.target # Never /\ t - s.target < cut
    BY <1>2, <1>t DEF Candidate, SynthWouldManufactureTooth
  <2>2. DecideComposite(b, s, c).st = s
    BY <1>2 DEF DecideComposite, HeldBack
  <2> QED BY <2>1, <2>2, <1>g, <1>c DEF CompOK
<1>3. CASE op # "comb"
  <2>1. OutputTs(b, op) \in Nat /\ t - OutputTs(b, op) <= cut + WideGate(c)
    <3>1. CASE op = "before"
      BY <3>1, <1>g, <1>c DEF OutputTs, BracketOK, Candidate, EligibleBefore
    <3>2. CASE op = "after"
      BY <3>2, <1>g, <1>c DEF OutputTs, BracketOK, Candidate, EligibleAfter
    <3>3. CASE op = "synth"
      <4>1. OutputTs(b, op) = t
        BY <3>3, <1>t DEF OutputTs
      <4> QED BY <4>1, <1>g, <1>c
    <3> QED BY <3>1, <3>2, <3>3, <1>1, <1>3
  <2>2. CASE OutputTs(b, op) < s.out
    <3>1. DecideComposite(b, s, c).st = s
      BY <2>2 DEF DecideComposite, HeldBack
    <3> QED BY <2>1, <2>2, <3>1, <1>g, <1>c DEF CompositeStates
  <2>3. CASE ~(OutputTs(b, op) < s.out)
    <3>1. DecideComposite(b, s, c).st.out = OutputTs(b, op)
      BY <2>3, <1>1, <1>3 DEF DecideComposite, Consumed
    <3> QED BY <2>1, <3>1
  <2> QED BY <2>2, <2>3
<1> QED BY <1>2, <1>3

\* Where SelectFrame leaves the target.
LEMMA SelectNear ==
    ASSUME NEW s \in [shown : Nat, pickAfter : BOOLEAN, gateOpen : BOOLEAN], NEW c \in Setting,
           NEW t \in Nat, NEW b, BracketOK(b, t)
    PROVE  /\ SelectFrame(b, s, c).st \in [shown : Nat, pickAfter : BOOLEAN, gateOpen : BOOLEAN]
           /\ SelectFrame(b, s, c).pick \in Ops
           /\ b.hasBefore /\ b.hasAfter =>
                 \/ t - SelectFrame(b, s, c).st.shown <= b.afterDiff + c.stickiness
                 \/ t - SelectFrame(b, s, c).st.shown < 2 * c.stickiness
<1> DEFINE gate == IF AtGate(b, s) THEN GateOpen(b, s, c) ELSE s.gateOpen
           before == [pick |-> "before",
                      st |-> [shown |-> b.beforeTs, pickAfter |-> FALSE, gateOpen |-> gate]]
           after == [pick |-> "after",
                     st |-> [shown |-> b.afterTs, pickAfter |-> TRUE, gateOpen |-> gate]]
           stay == [pick |-> "repeat", st |-> [s EXCEPT !.gateOpen = gate]]
           chosen == SelectFrame(b, s, c)
<1>1. gate \in BOOLEAN
  BY DEF GateOpen, AtGate
<1>2. c.stickiness \in Nat /\ s.shown \in Nat /\ s.pickAfter \in BOOLEAN
  BY DEF Setting
<1>3. \/ BeforeNew(b, s) /\ AfterNew(b, s) /\ BeforeCloser(b, s.pickAfter, c) /\ chosen = before
      \/ AfterNew(b, s) /\ chosen = after
      \/ BeforeNew(b, s) /\ ~AfterNew(b, s) /\ chosen = before
      \/ ~BeforeNew(b, s) /\ ~(AfterNew(b, s) /\ GateOpen(b, s, c)) /\ chosen = stay
  BY DEF SelectFrame
<1> HIDE DEF gate, chosen
<1>4. CASE BeforeNew(b, s) /\ AfterNew(b, s) /\ BeforeCloser(b, s.pickAfter, c) /\ chosen = before
  BY <1>1, <1>2, <1>4 DEF BeforeCloser, BracketOK, Ops, chosen
<1>5. CASE AfterNew(b, s) /\ chosen = after
  BY <1>1, <1>2, <1>5 DEF AfterNew, BracketOK, Ops, chosen
<1>6. CASE BeforeNew(b, s) /\ ~AfterNew(b, s) /\ chosen = before
  BY <1>1, <1>2, <1>6 DEF BeforeNew, AfterNew, BracketOK, Ops, chosen
<1>7. CASE ~BeforeNew(b, s) /\ ~(AfterNew(b, s) /\ GateOpen(b, s, c)) /\ chosen = stay
  <2>1. /\ chosen.st \in [shown : Nat, pickAfter : BOOLEAN, gateOpen : BOOLEAN]
        /\ chosen.st.shown = s.shown /\ chosen.pick \in Ops
    BY <1>1, <1>2, <1>7 DEF Ops
  <2>2. ASSUME b.hasBefore, b.hasAfter
        PROVE  t - s.shown <= b.afterDiff + c.stickiness \/ t - s.shown < 2 * c.stickiness
    <3>1. CASE AfterNew(b, s)
      <4>1. AtGate(b, s) /\ ~GateOpen(b, s, c)
        BY <1>7, <2>2, <3>1 DEF AtGate
      <4>2. b.beforeDiff < 2 * c.stickiness
        BY <4>1, <1>2 DEF GateOpen, BracketOK
      <4> QED BY <4>2, <1>2, <1>7, <2>2 DEF BeforeNew, BracketOK
    <3>2. CASE ~AfterNew(b, s)
      BY <3>2, <2>2, <1>2 DEF AfterNew, BracketOK
    <3> QED BY <3>1, <3>2
  <2> QED BY <2>1, <2>2 DEF chosen
<1> QED BY <1>3, <1>4, <1>5, <1>6, <1>7

-----------------------------------------------------------------------------
(* The steps.                                                              *)

LEMMA SlotRange ==
    ASSUME NEW f \in Nat
    PROVE  SlotOf(f) \in 0 .. (N - 1)
BY PathAssumption DEF SlotOf

LEMMA WindowStamps ==
    ASSUME PathTypeOK, NEW f \in Window
    PROVE  f \in Nat /\ f # None /\ SlotOf(f) \in 0 .. (N - 1) /\ Stamp(f) \in Nat
<1>1. f \in Nat /\ f # None
  BY DEF PathTypeOK, Window, None
<1>2. SlotOf(f) \in 0 .. (N - 1)
  BY <1>1, SlotRange
<1>3. \A s \in 0 .. (N - 1) : ring[s].ts \in Nat
  BY DEF PathTypeOK
<1> QED BY <1>1, <1>2, <1>3 DEF Stamp

\* The two frames found make a bracket the decisions can rely on.
LEMMA BracketSound ==
    ASSUME PathTypeOK, NEW t \in Nat, NEW before \in Window \cup {None},
           NEW after \in Window \cup {None}, NEW exempt \in BOOLEAN,
           IsBefore(before, t), IsAfter(after, t)
    PROVE  BracketOK(Bracket(before, after, t, exempt), t)
<1>1. before # None => Stamp(before) \in Nat /\ Stamp(before) <= t
  BY WindowStamps DEF IsBefore
<1>2. after # None => Stamp(after) \in Nat /\ Stamp(after) > t
  BY WindowStamps DEF IsAfter
<1> DEFINE b == Bracket(before, after, t, exempt)
<1>3. /\ b.hasBefore = (before # None) /\ b.hasAfter = (after # None) /\ b.exempt = exempt
      /\ b.beforeTs = IF before # None THEN Stamp(before) ELSE 0
      /\ b.afterTs = IF after # None THEN Stamp(after) ELSE 0
      /\ b.beforeDiff = IF before # None THEN t - Stamp(before) ELSE 0
      /\ b.afterDiff = IF after # None THEN Stamp(after) - t ELSE 0
  BY DEF Bracket
<1>4. b.hasBefore \in BOOLEAN /\ b.hasAfter \in BOOLEAN /\ b.exempt \in BOOLEAN
  BY <1>3
<1> HIDE DEF b
<1>5. b.beforeTs \in Nat /\ b.beforeDiff \in Nat /\ b.afterTs \in Nat /\ b.afterDiff \in Nat
  BY <1>1, <1>2, <1>3
<1>6. /\ b.hasBefore => b.beforeTs + b.beforeDiff = t
      /\ ~b.hasBefore => b.beforeTs = 0 /\ b.beforeDiff = 0
      /\ b.hasAfter => b.afterTs = t + b.afterDiff
  <2>1. (b.hasBefore <=> before # None) /\ (b.hasAfter <=> after # None)
    BY <1>3, Zenon
  <2>2. /\ before # None => b.beforeTs = Stamp(before) /\ b.beforeDiff = t - Stamp(before)
        /\ before = None => b.beforeTs = 0 /\ b.beforeDiff = 0
        /\ after # None => b.afterTs = Stamp(after) /\ b.afterDiff = Stamp(after) - t
    BY <1>3
  <2> QED BY <1>1, <1>2, <2>1, <2>2
<1>7. BracketOK(b, t)
  BY <1>4, <1>5, <1>6 DEF BracketOK
<1> QED BY <1>7 DEF b

LEMMA PictureType ==
    ASSUME PathTypeOK, NEW before \in Window \cup {None}, NEW after \in Window \cup {None},
           NEW op, op \in {"before", "synth"} => before # None,
           op \in {"after", "synth"} => after # None
    PROVE  Picture(op, before, after) \in [slots : Seq(0 .. (N - 1)), drew : Seq(Nat \cup {None})]
<1> DEFINE Memory == [slots : Seq(0 .. (N - 1)), drew : Seq(Nat \cup {None})]
<1>1. ASSUME NEW f \in Window PROVE Pass(f) \in Memory
  BY WindowStamps DEF Pass
<1>2. ASSUME before # None, after # None PROVE Blend(before, after) \in Memory
  <2>1. /\ before \in Nat /\ SlotOf(before) \in 0 .. (N - 1)
        /\ after \in Nat /\ SlotOf(after) \in 0 .. (N - 1)
    BY <1>2, WindowStamps
  <2>2. /\ <<SlotOf(before), SlotOf(after)>> \in Seq(0 .. (N - 1))
        /\ <<before, after>> \in Seq(Nat \cup {None})
        /\ <<>> \in Seq(0 .. (N - 1))
    BY <2>1
  <2> QED BY <2>2 DEF Blend
<1>3. Redrawn \in Seq(Nat \cup {None})
  <2>1. /\ last.slots \in Seq(0 .. (N - 1)) /\ last.drew \in Seq(Nat \cup {None})
        /\ \A s \in 0 .. (N - 1) : ring[s].frame \in Nat \cup {None}
    BY DEF PathTypeOK
  <2>2. DOMAIN last.slots = 1 .. Len(last.slots) /\ Len(last.slots) \in Nat
    BY <2>1
  <2>3. \A i \in DOMAIN last.slots : ring[last.slots[i]].frame \in Nat \cup {None}
    <3> SUFFICES ASSUME NEW i \in DOMAIN last.slots PROVE last.slots[i] \in 0 .. (N - 1)
      BY <2>1
    <3> QED BY <2>1, <2>2, ElementOfSeq
  <2> QED BY <2>1, <2>2, <2>3 DEF Redrawn
<1>4. NothingDrawn \in Memory
  BY DEF NothingDrawn
<1>5. [last EXCEPT !.drew = Redrawn] \in Memory
  BY <1>3 DEF PathTypeOK
<1>6. Hold(before, after) \in Memory
  BY <1>1, <1>4, <1>5 DEF Hold
<1> QED BY <1>1, <1>2, <1>6 DEF Picture

\* What one present does to the policies' memory, the picture and its history.
LEMMA PresentStep ==
    ASSUME PathInv, Present
    PROVE  PathInv' /\ Fresh' /\ NearTarget'
<1>1. /\ target' \in Nat /\ UNCHANGED <<cfg, ring, published>>
      /\ \E before, after \in Window \cup {None}, exempt, failed \in BOOLEAN :
            /\ IsBefore(before, target') /\ IsAfter(after, target')
            /\ PresentAt(target', before, after, exempt, failed)
  <2>1. target' \in Int /\ target' >= Start /\ Start \in Nat
    BY PathAssumption DEF Present, PathInv, PathTypeOK
  <2>2. (cfg.srcPeriod > 0) \in BOOLEAN /\ cfg.drawsFail \in BOOLEAN
    BY PathAssumption DEF PathInv, PathTypeOK, Setting
  <2>3. PICK before \in Window \cup {None} :
           /\ IsBefore(before, target')
           /\ \E after \in Window \cup {None} :
                 /\ IsAfter(after, target')
                 /\ \E exempt \in {FALSE, cfg.srcPeriod > 0}, failed \in {FALSE, cfg.drawsFail} :
                       PresentAt(target', before, after, exempt, failed)
    BY DEF Present
  <2>4. PICK after \in Window \cup {None} :
           /\ IsAfter(after, target')
           /\ \E exempt \in {FALSE, cfg.srcPeriod > 0}, failed \in {FALSE, cfg.drawsFail} :
                 PresentAt(target', before, after, exempt, failed)
    BY <2>3
  <2>5. \E exempt, failed \in BOOLEAN : PresentAt(target', before, after, exempt, failed)
    BY <2>2, <2>4
  <2>6. UNCHANGED <<cfg, ring, published>>
    BY DEF Present
  <2> QED BY <2>1, <2>3, <2>4, <2>5, <2>6
<1>2. PICK before \in Window \cup {None}, after \in Window \cup {None},
           exempt \in BOOLEAN, failed \in BOOLEAN :
         /\ IsBefore(before, target') /\ IsAfter(after, target')
         /\ PresentAt(target', before, after, exempt, failed)
  BY <1>1
<1> DEFINE b == Bracket(before, after, target', exempt)
           pick == SelectFrame(b, sel, cfg)
           decision == DecideComposite(b, comp, cfg)
           op == IF cfg.backend = "nearest" THEN pick.pick ELSE decision.op
           pic == IF op = "synth" /\ cfg.backend = "synth9" /\ failed
                  THEN Emergency(b, before, after) ELSE Picture(op, before, after)
           unchanged == cfg.backend = "d3d11" /\ failed
           Memory == [slots : Seq(0 .. (N - 1)), drew : Seq(Nat \cup {None})]
           Selections == [shown : Nat, pickAfter : BOOLEAN, gateOpen : BOOLEAN]
<1>3. cfg \in Setting /\ comp \in CompositeStates /\ CompOK(comp, cfg) /\ sel \in Selections
  BY PathAssumption DEF PathInv, PathTypeOK
<1>4. BracketOK(b, target')
  BY <1>1, <1>2, BracketSound DEF PathInv
<1>5. /\ b.hasBefore = (before # None) /\ b.hasAfter = (after # None)
      /\ b.hasAfter => b.afterDiff \in Nat
  BY <1>4 DEF Bracket, BracketOK
<1>6. /\ decision.st \in CompositeStates /\ CompOK(decision.st, cfg) /\ decision.op \in Ops
      /\ b.hasBefore /\ b.hasAfter =>
            target' - decision.st.out <= (cfg.srcPeriod * 7) \div 8 + WideGate(cfg)
  BY <1>1, <1>3, <1>4, DecideKeepsMemory, DecideFresh
<1>7. /\ pick.st \in Selections /\ pick.pick \in Ops
      /\ b.hasBefore /\ b.hasAfter =>
            \/ target' - pick.st.shown <= b.afterDiff + cfg.stickiness
            \/ target' - pick.st.shown < 2 * cfg.stickiness
  BY <1>1, <1>3, <1>4, SelectNear
<1>8. /\ op \in {"before", "synth"} => before # None
      /\ op \in {"after", "synth"} => after # None
  <2>1. /\ pick.pick = "before" => b.hasBefore
        /\ pick.pick = "after" => b.hasAfter
        /\ pick.pick # "synth"
    BY DEF SelectFrame, BeforeNew, AfterNew
  <2>2. /\ decision.op \in {"before", "synth"} => b.hasBefore
        /\ decision.op \in {"after", "synth"} => b.hasAfter
    BY DEF DecideComposite, HeldBack, Consumed, Candidate, EligibleBefore, EligibleAfter
  <2> QED BY <2>1, <2>2, <1>5
<1>9. pic \in Memory
  <2>1. CASE op = "synth" /\ cfg.backend = "synth9" /\ failed
    <3>1. before \in Window /\ after \in Window
      BY <2>1, <1>8
    <3>2. \A f \in Window : Pass(f) \in Memory
      BY WindowStamps DEF Pass, PathInv
    <3> QED BY <2>1, <3>1, <3>2 DEF Emergency
  <2>2. CASE ~(op = "synth" /\ cfg.backend = "synth9" /\ failed)
    BY <2>2, <1>8, PictureType DEF PathInv
  <2> QED BY <2>1, <2>2
<1> HIDE DEF b, pick, decision, pic, Memory, Selections
<1>10. /\ IF cfg.backend = "nearest" THEN sel' = pick.st /\ UNCHANGED comp
                                     ELSE comp' = decision.st /\ UNCHANGED sel
       /\ last' = IF unchanged THEN last ELSE pic
       /\ shown' =
             [op |-> op,
              ahead |-> IF b.hasBefore /\ b.hasAfter THEN b.afterDiff ELSE None,
              advance |-> IF op = "synth" /\ ~exempt /\ consumed # Never
                          THEN target' - consumed ELSE None]
       /\ consumed' = IF op \in Holds THEN consumed ELSE target'
  BY <1>2 DEF PresentAt, b, pick, decision, pic
<1>11. PathTypeOK'
  <2>1. /\ cfg' \in Settings /\ published' \in Nat /\ target' \in Nat
        /\ ring' \in [0 .. (N - 1) -> [frame : Nat \cup {None}, ts : Nat, valid : BOOLEAN]]
    BY <1>1 DEF PathInv, PathTypeOK
  <2>2. sel' \in Selections /\ comp' \in CompositeStates
    BY <1>3, <1>6, <1>7, <1>10
  <2>3. last' \in Memory
    BY <1>9, <1>10 DEF PathInv, PathTypeOK, Memory
  <2>4. op \in Ops /\ (b.hasAfter => b.afterDiff \in Nat)
    BY <1>5, <1>6, <1>7
  <2>5. consumed \in Int /\ consumed' \in Int /\ target' - consumed \in Int
    BY <1>1, <1>10 DEF PathInv, PathTypeOK
  <2>6. shown' \in [op : Ops, ahead : Nat \cup {None}, advance : Int]
    BY <1>10, <2>4, <2>5 DEF None
  <2> QED BY <2>1, <2>2, <2>3, <2>5, <2>6 DEF PathTypeOK, Selections, Memory
<1>12. CompOK(comp', cfg')
  BY <1>1, <1>3, <1>6, <1>10
<1>13. shown'.ahead # None => b.hasBefore /\ b.hasAfter /\ shown'.ahead = b.afterDiff
  BY <1>10
<1>14. Fresh'
  BY <1>1, <1>6, <1>10, <1>13 DEF Fresh, WideGate
<1>15. NearTarget'
  BY <1>1, <1>7, <1>10, <1>13 DEF NearTarget
<1> QED BY <1>11, <1>12, <1>14, <1>15 DEF PathInv

\* A wake changes the ring only.
LEMMA CaptureStep ==
    ASSUME PathInv, CaptureFrame \/ CaptureTwin
    PROVE  PathInv' /\ UNCHANGED <<cfg, target, sel, comp, shown>>
<1> DEFINE Slot == [frame : Nat \cup {None}, ts : Nat, valid : BOOLEAN]
<1>1. UNCHANGED <<cfg, target, sel, comp, last, shown, consumed>>
  BY DEF CaptureFrame, CaptureTwin
<1>2. published \in Nat /\ published' = published + 1 /\ ring \in [0 .. (N - 1) -> Slot]
  BY DEF PathInv, PathTypeOK, CaptureFrame, CaptureTwin
<1>3. Newest \in Nat
  <2>1. published # 0 => published - 1 \in Nat
    BY <1>2
  <2>2. published # 0 => SlotOf(published - 1) \in 0 .. (N - 1)
    BY <2>1, SlotRange
  <2>3. \A s \in 0 .. (N - 1) : ring[s].ts \in Nat
    BY <1>2
  <2> QED BY <2>2, <2>3, PathAssumption DEF Newest, Stamp
<1>4. ring' \in [0 .. (N - 1) -> Slot]
  <2>1. CASE CaptureFrame
    <3>1. PICK gap \in Gaps, valid \in BOOLEAN :
             ring' = [ring EXCEPT ![SlotOf(published)] =
                         [frame |-> published, ts |-> Newest + gap, valid |-> valid]]
      BY <2>1 DEF CaptureFrame, Arrives
    <3>2. Newest + gap \in Nat
      BY <1>3, PathAssumption
    <3> QED BY <1>2, <3>1, <3>2
  <2>2. CASE CaptureTwin
    <3>1. ring' = [ring EXCEPT ![SlotOf(published)] =
                                  [frame |-> published, ts |-> Newest, valid |-> TRUE],
                               ![SlotOf(published - 1)].valid = FALSE]
      BY <2>2 DEF CaptureTwin
    <3> QED BY <1>2, <1>3, <3>1
  <2> QED BY <2>1, <2>2
<1>5. PathTypeOK'
  BY <1>1, <1>2, <1>4 DEF PathInv, PathTypeOK
<1> QED BY <1>1, <1>5 DEF PathInv

\* The invariant that carries the two properties of what is shown.
ShownInv == PathInv /\ Fresh /\ NearTarget

\* The memory of the policies stays whole, and neither mode falls behind: together the
\* three are inductive.
THEOREM ShownInvariant == Spec => []ShownInv
<1>1. Init => ShownInv
  <2> SUFFICES ASSUME Init PROVE ShownInv
    OBVIOUS
  <2>1. PathTypeOK
    <3>1. /\ ring \in [0 .. (N - 1) -> [frame : Nat \cup {None}, ts : Nat, valid : BOOLEAN]]
          /\ cfg \in Settings /\ published \in Nat /\ target \in Nat /\ consumed \in Int
      BY PathAssumption DEF Init, None, Never
    <3>2. /\ sel \in [shown : Nat, pickAfter : BOOLEAN, gateOpen : BOOLEAN]
          /\ comp \in CompositeStates
      BY DEF Init, FirstSelection, FirstComposite, CompositeStates, Never
    <3>3. /\ last \in [slots : Seq(0 .. (N - 1)), drew : Seq(Nat \cup {None})]
          /\ shown \in [op : Ops, ahead : Nat \cup {None}, advance : Int]
      BY DEF Init, NothingDrawn, NothingShown, Ops, None
    <3> QED BY <3>1, <3>2, <3>3 DEF PathTypeOK
  <2>2. CompOK(comp, cfg)
    BY DEF Init, FirstComposite, CompOK
  <2>3. shown.ahead = None
    BY DEF Init, NothingShown
  <2> QED BY <2>1, <2>2, <2>3 DEF ShownInv, PathInv, Fresh, NearTarget
<1>2. ShownInv /\ [Next]_vars => ShownInv'
  <2> SUFFICES ASSUME ShownInv, [Next]_vars PROVE ShownInv'
    OBVIOUS
  <2>1. CASE CaptureFrame \/ CaptureTwin
    BY <2>1, CaptureStep DEF ShownInv, Fresh, NearTarget, WideGate
  <2>2. CASE Present
    BY <2>2, PresentStep DEF ShownInv
  <2>3. CASE UNCHANGED vars
    BY <2>3 DEF vars, ShownInv, PathInv, PathTypeOK, CompOK, Fresh, NearTarget, WideGate
  <2> QED BY <2>1, <2>2, <2>3 DEF Next
<1> QED BY <1>1, <1>2, PTL DEF Spec

\* The blend modes never fall behind (DecideComposite's tooth guard and monotone guard).
THEOREM NeverBehind == Spec => []Fresh
<1>1. ShownInv => Fresh
  BY DEF ShownInv
<1> QED BY <1>1, ShownInvariant, PTL

\* The nearest mode keeps near the target (SelectFrame's band and gate).
THEOREM KeepsNear == Spec => []NearTarget
<1>1. ShownInv => NearTarget
  BY DEF ShownInv
<1> QED BY <1>1, ShownInvariant, PTL

\* The memory of the policies stays whole.
THEOREM PathInvariant == Spec => []PathInv
<1>1. ShownInv => PathInv
  BY DEF ShownInv
<1> QED BY <1>1, ShownInvariant, PTL
===============================================================================
