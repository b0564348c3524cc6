--------------------- MODULE BtGtkDeviceManager_proofs ---------------------
(***************************************************************************)
(* Type correctness of the device manager and the first invariant its      *)
(* header states: while no window is selected, no key is pressed.          *)
(***************************************************************************)
EXTENDS BtGtkDeviceManager, SequenceTheorems, TLAPS

USE DEF Pairs, Types

-----------------------------------------------------------------------------
(* The call stack as a sequence.                                           *)

\* The length of a prefix.
LEMMA PrefixLen ==
  ASSUME NEW S, NEW q \in Seq(S), NEW n \in Nat, n <= Len(q)
  PROVE  Len(SubSeq(q, 1, n)) = n
<1>1. \A i \in 1..n : q[i] \in S
  OBVIOUS
<1>2. 1 \in Int /\ n \in Int
  OBVIOUS
<1>3. Len(SubSeq(q, 1, n)) = IF 1 <= n THEN n - 1 + 1 ELSE 0
  BY <1>1, <1>2, SubSeqProperties
<1> QED BY <1>3

\* Popping the topmost frame leaves the others in place.
LEMMA PoppedProps ==
  ASSUME stack \in Seq(Frame), ~Idle
  PROVE  /\ Len(stack) \in Nat \ {0}
         /\ Popped \in Seq(Frame)
         /\ Len(Popped) = Len(stack) - 1
         /\ \A i \in 1..Len(Popped) : Popped[i] = stack[i]
         /\ Top \in Frame
<1>1. Len(stack) \in Nat \ {0} /\ Top \in Frame
  BY DEF Idle, Top
<1>2. Popped \in Seq(Frame)
  BY DEF Idle, Popped
<1>3. Len(Popped) = Len(stack) - 1
  <2>1. Len(stack) - 1 \in Nat /\ Len(stack) - 1 <= Len(stack)
    BY <1>1
  <2> QED BY <2>1, PrefixLen DEF Popped
<1>4. \A i \in 1..(Len(stack) - 1) : Popped[i] = stack[i]
  BY DEF Idle, Popped
<1> QED BY <1>1, <1>2, <1>3, <1>4

\* Replacing the topmost frame leaves the others in place.
LEMMA ReplacedProps ==
  ASSUME stack \in Seq(Frame), ~Idle, NEW f \in Frame
  PROVE  /\ Replaced(f) \in Seq(Frame)
         /\ Len(Replaced(f)) = Len(stack)
         /\ \A i \in 1..Len(stack) :
              Replaced(f)[i] = IF i = Len(stack) THEN f ELSE stack[i]
  BY DEF Idle, Replaced

\* Pushing a frame leaves the others in place.
LEMMA AppendProps ==
  ASSUME NEW q \in Seq(Frame), NEW f \in Frame
  PROVE  /\ Append(q, f) \in Seq(Frame)
         /\ Len(Append(q, f)) = Len(q) + 1
         /\ \A i \in 1..Len(q) : Append(q, f)[i] = q[i]
         /\ Append(q, f)[Len(q) + 1] = f
  OBVIOUS

\* The frames the functions push are frames.
LEMMA FrameTypes ==
  ASSUME TypeOK
  PROVE  /\ Blank \in Frame
         /\ DeselectFrame \in Frame
         /\ MgmtFrame \in Frame
         /\ \A d \in Data : SelectFrame(d) \in Frame
         /\ \A s \in Slots : UnplugFrame(s) \in Frame
         /\ \A l \in Listeners : FinalizeFrame(l) \in Frame
         /\ \A s \in Slots, k \in Keys, t \in Types, ls \in SUBSET Listeners :
              KeyFrame(s, k, t, ls) \in Frame
         /\ \A s \in Slots, ls \in SUBSET Listeners, pc \in {"cancel", "finalizeKeys"} :
              KeysFrame(pc, s, ls) \in Frame
<1>1. Blank \in Frame
  BY DEF Blank, Frame
<1>2. DeselectFrame \in Frame
  BY <1>1 DEF DeselectFrame, Indices, Frame
<1>3. MgmtFrame \in Frame
  BY <1>1 DEF MgmtFrame, Registered, Frame
<1>4. \A d \in Data : SelectFrame(d) \in Frame
  BY <1>1 DEF SelectFrame, Frame
<1>5. \A s \in Slots, k \in Keys, t \in Types, ls \in SUBSET Listeners :
        KeyFrame(s, k, t, ls) \in Frame
  BY <1>1, ZenonT(40) DEF KeyFrame, Frame
<1>6. ASSUME NEW s \in Slots, NEW ls \in SUBSET Listeners,
             NEW pc \in {"cancel", "finalizeKeys"}
      PROVE  KeysFrame(pc, s, ls) \in Frame
  <2>1. pressed[s] \X ls \in SUBSET Pairs
    BY DEF TypeOK
  <2>2. {p \in pressed[s] \X ls : p[2] \in audience[s][p[1]]} \in SUBSET Pairs
    BY <2>1
  <2> QED BY <1>1, <2>1, <2>2, ZenonT(30) DEF KeysFrame, Frame
<1>7. \A s \in Slots : UnplugFrame(s) \in Frame
  BY <1>1 DEF UnplugFrame, Frame
<1>8. \A l \in Listeners : FinalizeFrame(l) \in Frame
  BY <1>1 DEF FinalizeFrame, Indices, Frame
<1> QED BY <1>1, <1>2, <1>3, <1>4, <1>5, <1>6, <1>7, <1>8

-----------------------------------------------------------------------------
(* Type correctness.                                                       *)

\* Frames whose loop variables advance stay frames.
LEMMA TopTypes ==
  ASSUME TypeOK, ~Idle
  PROVE  /\ Top \in Frame
         /\ \A l \in Listeners :
              [Top EXCEPT !.ls = @ \ {l}, !.cb = TRUE] \in Frame
         /\ \A p \in Pairs : [Top EXCEPT !.todo = @ \ {p}] \in Frame
         /\ \A p \in Pairs :
              [Top EXCEPT !.todo = @ \ {p}, !.cb = TRUE] \in Frame
         /\ \A s \in Slots : [Top EXCEPT !.slots = @ \ {s}] \in Frame
<1>1. Top \in Frame
  BY PoppedProps DEF TypeOK
<1>2. \A l \in Listeners : [Top EXCEPT !.ls = @ \ {l}, !.cb = TRUE] \in Frame
  BY <1>1 DEF Frame
<1>3. \A p \in Pairs : [Top EXCEPT !.todo = @ \ {p}] \in Frame
  BY <1>1 DEF Frame
<1>4. \A p \in Pairs : [Top EXCEPT !.todo = @ \ {p}, !.cb = TRUE] \in Frame
  BY <1>1, ZenonT(40) DEF Frame
<1>5. \A s \in Slots : [Top EXCEPT !.slots = @ \ {s}] \in Frame
  BY <1>1 DEF Frame
<1> QED BY <1>1, <1>2, <1>3, <1>4, <1>5

\* The history of what listeners were told has its type after a call.
LEMMA SendTypes ==
  ASSUME TypeOK, NEW l \in Listeners, NEW s, NEW k,
         NEW t \in Types, Send(l, s, k, t)
  PROVE  got' \in [Slots -> [Keys -> [Listeners -> {"up", "down", "closed", "bad"}]]]
<1> DEFINE V == {"up", "down", "closed", "bad"}
<1>1. got \in [Slots -> [Keys -> [Listeners -> V]]]
  BY DEF TypeOK
<1>2. \A was \in V : Told(was, t) \in V
  BY DEF Told
<1>3. CASE s \in Slots /\ k \in Keys
  <2>1. got[s][k][l] \in V /\ Told(got[s][k][l], t) \in V
    BY <1>1, <1>2, <1>3
  <2> QED BY <1>1, <2>1, <1>3 DEF Send
<1>4. CASE ~(s \in Slots /\ k \in Keys)
  BY <1>1, <1>4 DEF Send
<1> QED BY <1>3, <1>4

\* Clearing the pressed keys of a device preserves the types.
LEMMA ForgetTypes ==
  ASSUME TypeOK, NEW s, ForgetKeys(s)
  PROVE  /\ pressed' \in [Slots -> SUBSET Keys]
         /\ audience' \in [Slots -> [Keys -> SUBSET Listeners]]
         /\ origin' \in [Slots -> [Keys -> Data \cup {None}]]
  BY DEF ForgetKeys, TypeOK

\* Leaving a canceling function preserves the types.
LEMMA LeaveTypes ==
  ASSUME TypeOK, LeaveCanceling
  PROVE  /\ depth' \in Int
         /\ canceled' \in [Listeners -> SUBSET Keys]
  BY DEF LeaveCanceling, TypeOK

\* What the backend starts preserves the types.
LEMMA BackendTypes ==
  ASSUME TypeOK, NEW s \in Slots
  PROVE  /\ OnDeviceAdded(s) => TypeOK'
         /\ OnDeviceRemoved(s) => TypeOK'
         /\ \A k \in Keys : OnBluePress(s, k) => TypeOK'
         /\ \A k \in Keys, t \in Types : OnBlueRelease(s, k, t) => TypeOK'
<1> USE DEF devVars, winVars, toolkitVars, lstVars
<1>1. Registered \in SUBSET Listeners
  BY DEF Registered
<1>2. OnDeviceAdded(s) => TypeOK'
  BY FrameTypes DEF OnDeviceAdded, TypeOK
<1>3. ASSUME OnDeviceRemoved(s) PROVE TypeOK'
  <2>1. UnplugFrame(s) \in Frame /\ KeysFrame("cancel", s, Registered) \in Frame
    BY <1>1, FrameTypes
  <2>2. stack' \in Seq(Frame)
    BY <1>3, <2>1 DEF OnDeviceRemoved
  <2> QED BY <1>3, <2>2 DEF OnDeviceRemoved, TypeOK
<1>4. ASSUME NEW k \in Keys, OnBluePress(s, k) PROVE TypeOK'
  <2>1. stack' \in Seq(Frame)
    BY <1>1, <1>4, FrameTypes DEF OnBluePress
  <2>2. got' \in [Slots -> [Keys -> [Listeners -> {"up", "down", "closed", "bad"}]]]
    BY <1>4 DEF OnBluePress, TypeOK
  <2> QED BY <1>1, <1>4, <2>1, <2>2 DEF OnBluePress, TypeOK
<1>5. ASSUME NEW k \in Keys, NEW t \in Types, OnBlueRelease(s, k, t) PROVE TypeOK'
  <2>1. Registered \cap audience[s][k] \in SUBSET Listeners
    BY <1>1
  <2>2. stack' \in Seq(Frame)
    BY <1>5, <2>1, FrameTypes DEF OnBlueRelease
  <2> QED BY <1>5, <2>2 DEF OnBlueRelease, TypeOK
<1> QED BY <1>2, <1>3, <1>4, <1>5

\* What the toolkit reports preserves the types.
LEMMA ToolkitTypes ==
  ASSUME TypeOK, NEW w \in Windows
  PROVE  /\ OnIsActiveChanged(w) => TypeOK'
         /\ DeleteWindow(w) => TypeOK'
<1> USE DEF devVars, winVars, toolkitVars, lstVars
<1>1. ASSUME OnIsActiveChanged(w) PROVE TypeOK'
  <2>1. /\ stack \in Seq(Frame)
        /\ Append(stack, DeselectFrame) \in Seq(Frame)
        /\ \A d \in Data :
             Append(Append(stack, SelectFrame(d)), DeselectFrame) \in Seq(Frame)
        /\ tracked \in SUBSET Data
    BY FrameTypes DEF TypeOK
  <2>3. stack' \in Seq(Frame)
    BY <1>1, <2>1 DEF OnIsActiveChanged
  <2>2. selected' \in Data \cup {None} /\ depth' \in Int
    BY <1>1 DEF OnIsActiveChanged, TypeOK
  <2> QED BY <1>1, <2>2, <2>3 DEF OnIsActiveChanged, TypeOK
<1>2. DeleteWindow(w) => TypeOK'
  BY DEF DeleteWindow, CountCall, TypeOK
<1> QED BY <1>1, <1>2

\* The replacement of a destroyed window preserves the types.
LEMMA ReplaceTypes ==
  ASSUME TypeOK, NEW d \in Data, ReplaceDeleted(d)
  PROVE  /\ selected' \in Data \cup {None}
         /\ tracked' \in SUBSET Data
         /\ depth' \in Int
         /\ fault' \in BOOLEAN
         /\ stack' \in Seq(Frame)
<1>1. Append(Append(stack, SelectFrame(d)), DeselectFrame) \in Seq(Frame)
  BY FrameTypes DEF TypeOK
<1>2. /\ stack \in Seq(Frame) /\ selected \in Data \cup {None}
      /\ tracked \in SUBSET Data /\ depth \in Int /\ fault \in BOOLEAN
  BY DEF TypeOK
<1>3. CASE fault' = TRUE /\ UNCHANGED <<winVars, depth, stack>>
  BY <1>2, <1>3 DEF winVars
<1>4. ASSUME NEW e \in tracked,
             tracked' = (tracked \cup {d}) \ {e}, UNCHANGED fault,
             \/ /\ depth' = depth + 1
                /\ stack' = Append(Append(stack, SelectFrame(d)), DeselectFrame)
                /\ UNCHANGED selected
             \/ selected' = d /\ UNCHANGED <<depth, stack>>
      PROVE  /\ selected' \in Data \cup {None}
             /\ tracked' \in SUBSET Data
             /\ depth' \in Int
             /\ fault' \in BOOLEAN
             /\ stack' \in Seq(Frame)
  BY <1>1, <1>2, <1>4
<1> QED BY <1>3, <1>4 DEF ReplaceDeleted

\* What the application calls preserves the types.
LEMMA ApplicationTypes ==
  ASSUME TypeOK
  PROVE  /\ \A w \in Windows : AddAccessor(w) => TypeOK'
         /\ \A w \in Windows : RemoveAccessor(w) => TypeOK'
         /\ \A l \in Listeners : AddListener(l) => TypeOK'
         /\ \A l \in Listeners, b \in BOOLEAN : RemoveListener(l, b) => TypeOK'
         /\ EnableKeyEvent => TypeOK'
<1> USE DEF devVars, winVars, toolkitVars, lstVars
<1>1. ASSUME NEW w \in Windows, AddAccessor(w) PROVE TypeOK'
  <2> DEFINE d == CHOOSE x \in Unused(w) : TRUE
  <2>1. d \in Data
    BY <1>1 DEF AddAccessor, Unused
  <2>2. /\ Append(stack, DeselectFrame) \in Seq(Frame)
        /\ Append(Append(stack, SelectFrame(d)), DeselectFrame) \in Seq(Frame)
    BY <2>1, FrameTypes DEF TypeOK
  <2> HIDE DEF d
  <2>3. \/ ReplaceDeleted(d)
        \/ /\ tracked' = tracked \cup {d}
           /\ selected' \in {d, None, selected}
           /\ depth' \in {depth, depth + 1}
           /\ stack' \in {stack, Append(stack, DeselectFrame),
                          Append(Append(stack, SelectFrame(d)), DeselectFrame)}
           /\ UNCHANGED fault
    BY <1>1 DEF AddAccessor, d
  <2>4. /\ selected' \in Data \cup {None}
        /\ tracked' \in SUBSET Data
        /\ depth' \in Int
        /\ fault' \in BOOLEAN
        /\ stack' \in Seq(Frame)
    <3>1. /\ stack \in Seq(Frame) /\ selected \in Data \cup {None}
          /\ tracked \in SUBSET Data /\ depth \in Int /\ fault \in BOOLEAN
      BY DEF TypeOK
    <3> QED BY <2>1, <2>2, <2>3, <3>1, ReplaceTypes, SMTT(40)
  <2>5. calls' \in [now : Nat, ever : BOOLEAN]
    BY <1>1 DEF AddAccessor, CountCall, TypeOK
  <2> QED BY <1>1, <2>4, <2>5 DEF AddAccessor, TypeOK
<1>2. ASSUME NEW w \in Windows, RemoveAccessor(w) PROVE TypeOK'
  <2>1. Append(stack, DeselectFrame) \in Seq(Frame)
    BY FrameTypes DEF TypeOK
  <2>2. stack' \in Seq(Frame)
    BY <1>2, <2>1 DEF RemoveAccessor, RemoveData, TypeOK
  <2>3. depth' \in Int /\ tracked' \in SUBSET Data
    BY <1>2 DEF RemoveAccessor, RemoveData, TypeOK
  <2>4. calls' \in [now : Nat, ever : BOOLEAN]
    BY <1>2 DEF RemoveAccessor, CountCall, TypeOK
  <2>5. UNCHANGED <<selected, fault>>
    BY <1>2 DEF RemoveAccessor, RemoveData
  <2> QED BY <1>2, <2>2, <2>3, <2>4, <2>5 DEF RemoveAccessor, TypeOK
<1>3. ASSUME NEW l \in Listeners, AddListener(l) PROVE TypeOK'
  BY <1>3 DEF AddListener, CountCall, TypeOK
<1>4. ASSUME NEW l \in Listeners, NEW b \in BOOLEAN, RemoveListener(l, b) PROVE TypeOK'
  <2>1. Append(stack, FinalizeFrame(l)) \in Seq(Frame)
    BY FrameTypes DEF TypeOK
  <2>2. stack' \in Seq(Frame) /\ depth' \in Int
    <3>1. stack \in Seq(Frame) /\ depth \in Int
      BY DEF TypeOK
    <3> QED BY <1>4, <2>1, <3>1 DEF RemoveListener
  <2>3. lst' \in [Listeners -> {"new", "added", "leaving", "removed"}]
    <3>1. lst \in [Listeners -> {"new", "added", "leaving", "removed"}]
      BY DEF TypeOK
    <3> QED BY <1>4, <3>1 DEF RemoveListener
  <2>4. calls' \in [now : Nat, ever : BOOLEAN]
    BY <1>4 DEF RemoveListener, CountCall, TypeOK
  <2> QED BY <1>4, <2>2, <2>3, <2>4 DEF RemoveListener, TypeOK
<1>5. EnableKeyEvent => TypeOK'
  BY DEF EnableKeyEvent, CountCall, TypeOK
<1> QED BY <1>1, <1>2, <1>3, <1>4, <1>5

\* One iteration of the topmost loop preserves the types.
LEMMA StepTypes ==
  ASSUME TypeOK, Step
  PROVE  TypeOK'
<1> USE DEF devVars, winVars, toolkitVars, lstVars
<1>1. ~Idle /\ Top \in Frame /\ Popped \in Seq(Frame)
  BY PoppedProps DEF Step, TypeOK
<1>2. \A f \in Frame : Replaced(f) \in Seq(Frame)
  BY <1>1, ReplacedProps DEF TypeOK
<1>3. Return => stack' \in Seq(Frame) /\ calls' \in [now : Nat, ever : BOOLEAN]
  BY <1>1 DEF Return, TypeOK
<1>4. CASE KeyStep
  <2>1. CASE Return /\ UNCHANGED got
    BY <1>3, <1>4, <2>1 DEF KeyStep, TypeOK
  <2>2. ASSUME NEW l \in Top.ls, UNCHANGED calls,
               stack' = Replaced([Top EXCEPT !.ls = @ \ {l}, !.cb = TRUE]),
               Send(l, Top.slot, Top.key, Top.type)
        PROVE  TypeOK'
    <3>1. l \in Listeners /\ Top.type \in Types
      BY <1>1 DEF Frame
    <3>2. stack' \in Seq(Frame)
      BY <1>1, <1>2, <2>2, <3>1, TopTypes
    <3>3. got' \in [Slots -> [Keys -> [Listeners -> {"up", "down", "closed", "bad"}]]]
      BY <2>2, <3>1, SendTypes
    <3> QED BY <1>4, <2>2, <3>2, <3>3 DEF KeyStep, TypeOK
  <2> QED BY <1>4, <2>1, <2>2 DEF KeyStep
<1>5. CASE MgmtStep
  <2>1. CASE Return
    BY <1>3, <1>5, <2>1 DEF MgmtStep, TypeOK
  <2>2. ASSUME NEW l \in Top.ls, UNCHANGED calls,
               stack' = Replaced([Top EXCEPT !.ls = @ \ {l}, !.cb = TRUE])
        PROVE  TypeOK'
    <3>1. l \in Listeners
      BY <1>1 DEF Frame
    <3>2. stack' \in Seq(Frame)
      BY <1>1, <1>2, <2>2, <3>1, TopTypes
    <3> QED BY <1>5, <2>2, <3>2 DEF MgmtStep, TypeOK
  <2> QED BY <1>5, <2>1, <2>2 DEF MgmtStep
<1>6. ASSUME NEW p \in Top.todo, CancelOne(p)
      PROVE  /\ stack' \in Seq(Frame)
             /\ canceled' \in [Listeners -> SUBSET Keys]
             /\ got' \in [Slots -> [Keys -> [Listeners -> {"up", "down", "closed", "bad"}]]]
  <2>1. p \in Pairs
    BY <1>1 DEF Frame
  <2>2. p[1] \in Keys /\ p[2] \in Listeners
    BY <2>1
  <2>3. stack' \in Seq(Frame)
    BY <1>1, <1>2, <1>6, <2>1, TopTypes DEF CancelOne
  <2>4. canceled' \in [Listeners -> SUBSET Keys]
    <3>1. canceled \in [Listeners -> SUBSET Keys]
      BY DEF TypeOK
    <3>2. \/ UNCHANGED canceled
          \/ canceled' = [canceled EXCEPT ![p[2]] = @ \cup {p[1]}]
      BY <1>6 DEF CancelOne
    <3> QED BY <2>2, <3>1, <3>2
  <2>5. got' \in [Slots -> [Keys -> [Listeners -> {"up", "down", "closed", "bad"}]]]
    <3>1. UNCHANGED got \/ Send(p[2], Top.slot, p[1], "cancel")
      BY <1>6 DEF CancelOne
    <3> QED BY <2>2, <3>1, SendTypes DEF TypeOK
  <2> QED BY <2>3, <2>4, <2>5
<1>7. CASE CancelStep
  <2>1. CASE ForgetKeys(Top.slot) /\ Return /\ UNCHANGED <<canceled, got>>
    BY <1>3, <1>7, <2>1, ForgetTypes DEF CancelStep, TypeOK
  <2>2. CASE (\E p \in Top.todo : CancelOne(p))
             /\ UNCHANGED <<pressed, audience, origin, calls>>
    BY <1>6, <1>7, <2>2 DEF CancelStep, TypeOK
  <2> QED BY <1>7, <2>1, <2>2 DEF CancelStep
<1>8. CASE FinalizeKeysStep
  <2>1. CASE Return /\ UNCHANGED <<canceled, got>>
    BY <1>3, <1>8, <2>1 DEF FinalizeKeysStep, TypeOK
  <2>2. CASE (\E p \in Top.todo : CancelOne(p)) /\ UNCHANGED calls
    BY <1>6, <1>8, <2>2 DEF FinalizeKeysStep, TypeOK
  <2> QED BY <1>8, <2>1, <2>2 DEF FinalizeKeysStep
<1>9. ASSUME NEW s \in Top.slots, NEW pc \in {"cancel", "finalizeKeys"},
             NEW ls \in SUBSET Listeners, VisitDevice(s, pc, ls)
      PROVE  stack' \in Seq(Frame) /\ fault' \in BOOLEAN
  <2>1. s \in Slots
    BY <1>1 DEF Frame
  <2>2. /\ Replaced([Top EXCEPT !.slots = @ \ {s}]) \in Seq(Frame)
        /\ KeysFrame(pc, s, ls) \in Frame
    BY <1>1, <1>2, <2>1, TopTypes, FrameTypes
  <2>3. stack \in Seq(Frame) /\ fault \in BOOLEAN
    BY DEF TypeOK
  <2> DEFINE rest == Replaced([Top EXCEPT !.slots = @ \ {s}])
  <2>4. Append(rest, KeysFrame(pc, s, ls)) \in Seq(Frame)
    BY <2>2
  <2>5. \/ fault' = TRUE /\ UNCHANGED stack
        \/ UNCHANGED fault /\ stack' \in {rest, Append(rest, KeysFrame(pc, s, ls))}
    BY <1>9 DEF VisitDevice
  <2> QED BY <2>2, <2>3, <2>4, <2>5
<1>10. CASE DeselectStep
  <2>1. CASE selected' = None /\ LeaveCanceling /\ Return /\ UNCHANGED fault
    BY <1>3, <1>10, <2>1, LeaveTypes DEF DeselectStep, TypeOK
  <2>2. CASE (\E s \in Top.slots : VisitDevice(s, "cancel", Registered))
             /\ UNCHANGED <<selected, canceled, depth, calls>>
    <3>1. Registered \in SUBSET Listeners
      BY DEF Registered
    <3> QED BY <1>9, <1>10, <2>2, <3>1 DEF DeselectStep, TypeOK
  <2> QED BY <1>10, <2>1, <2>2 DEF DeselectStep
<1>11. CASE FinalizeStep
  <2>1. CASE /\ lst' = [lst EXCEPT ![Top.lst] = "removed"]
             /\ LeaveCanceling /\ Return /\ UNCHANGED fault
    BY <1>3, <1>11, <2>1, LeaveTypes DEF FinalizeStep, TypeOK
  <2>2. CASE (\E s \in Top.slots : VisitDevice(s, "finalizeKeys", Listeners \cap {Top.lst}))
             /\ UNCHANGED <<lst, canceled, depth, calls>>
    <3>1. Listeners \cap {Top.lst} \in SUBSET Listeners
      OBVIOUS
    <3> QED BY <1>9, <1>11, <2>2, <3>1 DEF FinalizeStep, TypeOK
  <2> QED BY <1>11, <2>1, <2>2 DEF FinalizeStep
<1>12. CASE UnplugStep
  <2>1. stack' \in Seq(Frame)
    BY <1>2, <1>12, FrameTypes DEF UnplugStep
  <2> QED BY <1>12, <2>1, ForgetTypes, LeaveTypes DEF UnplugStep, TypeOK
<1>13. CASE SelectStep
  <2>1. Top.data \in Data \cup {None}
    BY <1>1 DEF Frame
  <2> QED BY <1>3, <1>13, <2>1 DEF SelectStep, TypeOK
<1> QED BY <1>4, <1>5, <1>7, <1>8, <1>10, <1>11, <1>12, <1>13 DEF Step

\* In every reachable state every variable has its type.
THEOREM TypeCorrect == Spec => []TypeOK
<1>1. ASSUME Init PROVE TypeOK
  <2>1. /\ calls \in [now : Nat, ever : BOOLEAN] /\ depth \in Int
        /\ selected \in Data \cup {None} /\ tracked \in SUBSET Data
    BY <1>1 DEF Init
  <2>6. keyEventOn \in BOOLEAN
    <3>1. keyEventOn = KeyEventAtStart
      BY <1>1 DEF Init
    <3> QED BY <3>1, StartAssumption
  <2>7. fault \in BOOLEAN
    BY <1>1 DEF Init
  <2>2. /\ btDevices \in [Slots -> {"out", "null", "device"}]
        /\ pressed \in [Slots -> SUBSET Keys]
        /\ audience \in [Slots -> [Keys -> SUBSET Listeners]]
        /\ origin \in [Slots -> [Keys -> Data \cup {None}]]
    BY <1>1 DEF Init
  <2>3. /\ active \in [Windows -> BOOLEAN]
        /\ deleted \in [Windows -> BOOLEAN]
        /\ lst \in [Listeners -> {"new", "added", "leaving", "removed"}]
        /\ canceled \in [Listeners -> SUBSET Keys]
    BY <1>1 DEF Init
  <2>4. got \in [Slots -> [Keys -> [Listeners -> {"up", "down", "closed", "bad"}]]]
    BY <1>1 DEF Init
  <2>5. stack \in Seq(Frame)
    <3>1. stack = <<>>
      BY <1>1 DEF Init
    <3> QED BY <3>1
  <2> QED BY <2>1, <2>2, <2>3, <2>4, <2>5, <2>6, <2>7 DEF TypeOK
<1>2. TypeOK /\ [Next]_vars => TypeOK'
  <2> SUFFICES ASSUME TypeOK, [Next]_vars PROVE TypeOK'
    OBVIOUS
  <2>1. CASE Step
    BY <2>1, StepTypes
  <2>2. CASE Backend
    BY <2>2, BackendTypes DEF Backend
  <2>3. CASE Toolkit
    BY <2>3, ToolkitTypes DEF Toolkit
  <2>4. CASE Application
    BY <2>4, ApplicationTypes DEF Application
  <2>5. CASE UNCHANGED vars
    BY <2>5 DEF vars, devVars, winVars, toolkitVars, lstVars, TypeOK
  <2> QED BY <2>1, <2>2, <2>3, <2>4, <2>5 DEF Next, Dead
<1> QED BY <1>1, <1>2, PTL DEF Spec

-----------------------------------------------------------------------------
(* The header's first invariant.                                           *)

\* The parts of HeaderInv that are about the call stack, of a stack q and of
\* the keys P pressed on the devices.
FrameOK(q, P, i) ==
  /\ q[i].pc = "select" => q[i].data # None
  /\ q[i].pc = "deselect" =>
       \A s \in Slots :
         \/ s \in q[i].slots
         \/ P[s] = {}
         \/ i < Len(q) /\ q[i + 1].pc = "cancel" /\ q[i + 1].slot = s
Covered(q, P) == \A i \in 1..Len(q) : FrameOK(q, P, i)

\* A frame that has its own loop still before it can be pushed or replaced.
Fresh(f, P) ==
  /\ f.pc = "select" => f.data # None
  /\ f.pc = "deselect" => \A s \in Slots : s \in f.slots \/ P[s] = {}

\* Pushing a fresh frame.
LEMMA CoveredPush ==
  ASSUME NEW q \in Seq(Frame), NEW f \in Frame, NEW P,
         Covered(q, P), Fresh(f, P)
  PROVE  Covered(Append(q, f), P)
<1> DEFINE r == Append(q, f)
<1>1. /\ r \in Seq(Frame) /\ Len(r) = Len(q) + 1 /\ r[Len(q) + 1] = f
      /\ \A i \in 1..Len(q) : r[i] = q[i]
      /\ Len(q) \in Nat
  BY AppendProps
<1> HIDE DEF r
<1>2. ASSUME NEW i \in 1..Len(q) PROVE FrameOK(r, P, i)
  <2>1. FrameOK(q, P, i) /\ r[i] = q[i]
    BY <1>1 DEF Covered
  <2>2. i < Len(q) => i + 1 \in 1..Len(q) /\ r[i + 1] = q[i + 1] /\ i < Len(r)
    BY <1>1
  <2> QED BY <2>1, <2>2 DEF FrameOK
<1>3. FrameOK(r, P, Len(q) + 1)
  BY <1>1 DEF FrameOK, Fresh
<1>4. \A i \in 1..Len(r) : i \in 1..Len(q) \/ i = Len(q) + 1
  BY <1>1
<1> QED BY <1>2, <1>3, <1>4 DEF Covered, r

\* Keys are released: what was covered stays covered.
LEMMA CoveredFewer ==
  ASSUME NEW q, NEW P, NEW R, Covered(q, P),
         \A s \in Slots : P[s] = {} => R[s] = {}
  PROVE  Covered(q, R)
  BY DEF Covered, FrameOK

\* The topmost loop returns; if it was canceling a device's keys there are none.
LEMMA CoveredPop ==
  ASSUME NEW P, NEW R, stack \in Seq(Frame), ~Idle, Covered(stack, P),
         \A s \in Slots : P[s] = {} => R[s] = {},
         Top.pc = "cancel" /\ Top.slot \in Slots => R[Top.slot] = {}
  PROVE  Covered(Popped, R)
<1>1. /\ Len(stack) \in Nat \ {0} /\ Len(Popped) = Len(stack) - 1
      /\ \A i \in 1..Len(Popped) : Popped[i] = stack[i]
  BY PoppedProps
<1>2. SUFFICES ASSUME NEW i \in 1..Len(Popped) PROVE FrameOK(Popped, R, i)
  BY DEF Covered
<1>3. FrameOK(stack, P, i) /\ Popped[i] = stack[i]
  BY <1>1 DEF Covered
<1>4. CASE i < Len(Popped)
  <2>1. i + 1 \in 1..Len(Popped) /\ Popped[i + 1] = stack[i + 1]
    BY <1>1, <1>4
  <2> QED BY <1>3, <1>4, <2>1 DEF FrameOK
<1>5. CASE i = Len(Popped)
  <2>1. stack[i + 1] = Top
    BY <1>1, <1>5 DEF Top
  <2> QED BY <1>3, <2>1 DEF FrameOK
<1> QED BY <1>1, <1>4, <1>5

\* The topmost loop advances: no device with pressed keys is left out.
LEMMA CoveredReplace ==
  ASSUME NEW P, stack \in Seq(Frame), ~Idle, Covered(stack, P), NEW f \in Frame,
         Top.pc = "cancel" => f.pc = Top.pc /\ f.slot = Top.slot, Fresh(f, P)
  PROVE  Covered(Replaced(f), P)
<1> DEFINE r == Replaced(f)
<1>1. /\ Len(stack) \in Nat \ {0} /\ Len(r) = Len(stack)
      /\ \A i \in 1..Len(stack) : r[i] = IF i = Len(stack) THEN f ELSE stack[i]
  BY PoppedProps, ReplacedProps
<1>2. SUFFICES ASSUME NEW i \in 1..Len(stack) PROVE FrameOK(r, P, i)
  BY <1>1 DEF Covered
<1> HIDE DEF r
<1>3. CASE i = Len(stack)
  BY <1>1, <1>3 DEF FrameOK, Fresh
<1>4. CASE i < Len(stack)
  <2>1. FrameOK(stack, P, i) /\ r[i] = stack[i]
    BY <1>1, <1>4 DEF Covered
  <2>2. stack[i + 1].pc = "cancel" => /\ r[i + 1].pc = stack[i + 1].pc
                                     /\ r[i + 1].slot = stack[i + 1].slot
    <3>1. i + 1 \in 1..Len(stack)
      BY <1>1, <1>4
    <3> QED BY <1>1, <3>1 DEF Top
  <2> QED BY <1>1, <1>4, <2>1, <2>2 DEF FrameOK
<1> QED BY <1>1, <1>3, <1>4

\* deselectAccessor() has a device's keys canceled: all others stay covered.
LEMMA CoveredVisit ==
  ASSUME NEW P, stack \in Seq(Frame), ~Idle, Covered(stack, P), NEW s \in Slots,
         NEW f \in Frame, f = [Top EXCEPT !.slots = @ \ {s}],
         NEW g \in Frame, g.slot = s, g.pc = "cancel", Top.pc = "deselect"
  PROVE  Covered(Append(Replaced(f), g), P)
<1> DEFINE r == Append(Replaced(f), g)
<1>1. /\ Len(stack) \in Nat \ {0} /\ Top = stack[Len(stack)]
      /\ Replaced(f) \in Seq(Frame) /\ Len(Replaced(f)) = Len(stack)
      /\ \A i \in 1..Len(stack) :
           Replaced(f)[i] = IF i = Len(stack) THEN f ELSE stack[i]
  BY PoppedProps, ReplacedProps DEF Top
<1>2. /\ Len(r) = Len(stack) + 1 /\ r[Len(stack) + 1] = g
      /\ \A i \in 1..Len(stack) : r[i] = IF i = Len(stack) THEN f ELSE stack[i]
  <2> DEFINE q == Replaced(f)
  <2>1. /\ Len(Append(q, g)) = Len(q) + 1 /\ Append(q, g)[Len(q) + 1] = g
        /\ \A i \in 1..Len(q) : Append(q, g)[i] = q[i]
    BY <1>1, AppendProps
  <2>2. /\ Len(q) = Len(stack)
        /\ \A i \in 1..Len(stack) : q[i] = IF i = Len(stack) THEN f ELSE stack[i]
    BY <1>1
  <2> HIDE DEF q
  <2> QED BY <2>1, <2>2, ZenonT(40) DEF q
<1>3. f.pc = "deselect" /\ f.slot = Top.slot /\ f.slots = Top.slots \ {s}
  <2>1. Top \in Frame
    BY PoppedProps
  <2> QED BY <2>1 DEF Frame
<1> HIDE DEF r
<1>4. ASSUME NEW i \in 1..Len(stack), i < Len(stack) PROVE FrameOK(r, P, i)
  <2>1. FrameOK(stack, P, i) /\ r[i] = stack[i]
    BY <1>1, <1>2, <1>4 DEF Covered
  <2>2. i + 1 \in 1..Len(stack) /\ r[i + 1].pc = stack[i + 1].pc
        /\ r[i + 1].slot = stack[i + 1].slot
    <3>1. i + 1 \in 1..Len(stack)
      BY <1>1, <1>4
    <3>2. r[i + 1] = IF i + 1 = Len(stack) THEN f ELSE stack[i + 1]
      BY <1>2, <3>1
    <3> QED BY <1>1, <1>3, <3>1, <3>2
  <2> QED BY <1>1, <1>2, <1>4, <2>1, <2>2 DEF FrameOK
<1>5. FrameOK(r, P, Len(stack))
  <2>1. FrameOK(stack, P, Len(stack))
    BY <1>1 DEF Covered
  <2>2. r[Len(stack)] = f /\ r[Len(stack) + 1] = g /\ Len(stack) < Len(r)
    <3>1. Len(stack) \in 1..Len(stack)
      BY <1>1
    <3>2. r[Len(stack)] = f
      BY <1>2, <3>1
    <3>3. Len(stack) < Len(stack) + 1
      BY <1>1
    <3> QED BY <1>2, <3>2, <3>3
  <2>3. \A x \in Slots : x \in Top.slots \/ P[x] = {}
    BY <1>1, <2>1 DEF FrameOK
  <2>4. f.pc = "deselect" /\ f.slots = Top.slots \ {s}
    BY <1>3
  <2> QED BY <2>2, <2>3, <2>4 DEF FrameOK
<1>6. FrameOK(r, P, Len(stack) + 1)
  BY <1>1, <1>2 DEF FrameOK
<1>7. \A i \in 1..Len(r) : (i \in 1..Len(stack) /\ i < Len(stack))
                           \/ i = Len(stack) \/ i = Len(stack) + 1
  BY <1>1, <1>2
<1> QED BY <1>4, <1>5, <1>6, <1>7 DEF Covered, r

\* HeaderInv, with the parts that are about the call stack taken together,
\* before a step and after it.
LEMMA HeaderInvParts ==
  HeaderInv <=> /\ keyEventOn
                /\ NoneSelectedNonePressed
                /\ \A s \in Slots : btDevices[s] # "device" => pressed[s] = {}
                /\ Covered(stack, pressed)
  BY DEF HeaderInv, DeselectCovers, Covered, FrameOK

LEMMA HeaderInvPartsNext ==
  HeaderInv' <=> /\ keyEventOn'
                 /\ NoneSelectedNonePressed'
                 /\ \A s \in Slots : btDevices'[s] # "device" => pressed'[s] = {}
                 /\ Covered(stack', pressed')
  BY DEF HeaderInv, DeselectCovers, Covered, FrameOK

\* A window's data is never null.
LEMMA DataNotNone == None \notin Data
  BY NoneAssumption DEF Data

\* The frames the functions push are fresh.
LEMMA FreshFrames ==
  ASSUME TypeOK, HeaderInv
  PROVE  /\ Fresh(DeselectFrame, pressed)
         /\ Fresh(MgmtFrame, pressed)
         /\ \A d \in Data : Fresh(SelectFrame(d), pressed)
         /\ \A s : Fresh(UnplugFrame(s), pressed)
         /\ \A l : Fresh(FinalizeFrame(l), pressed)
         /\ \A s, k, t, ls : Fresh(KeyFrame(s, k, t, ls), pressed)
         /\ \A s, ls : Fresh(KeysFrame("cancel", s, ls), pressed)
         /\ \A s, ls : Fresh(KeysFrame("finalizeKeys", s, ls), pressed)
<1>1. Fresh(DeselectFrame, pressed)
  BY DEF Fresh, DeselectFrame, Blank, Indices, HeaderInv
<1>2. \A d \in Data : Fresh(SelectFrame(d), pressed)
  BY DataNotNone DEF Fresh, SelectFrame, Blank
<1>3. Fresh(MgmtFrame, pressed)
  BY DEF Fresh, MgmtFrame, Blank
<1>4. \A s : Fresh(UnplugFrame(s), pressed)
  BY DEF Fresh, UnplugFrame, Blank
<1>5. \A l : Fresh(FinalizeFrame(l), pressed)
  BY DEF Fresh, FinalizeFrame, Blank
<1>6. \A s, k, t, ls : Fresh(KeyFrame(s, k, t, ls), pressed)
  BY DEF Fresh, KeyFrame, Blank
<1>7. \A s, ls : /\ Fresh(KeysFrame("cancel", s, ls), pressed)
                 /\ Fresh(KeysFrame("finalizeKeys", s, ls), pressed)
  BY DEF Fresh, KeysFrame, Blank
<1> QED BY <1>1, <1>2, <1>3, <1>4, <1>5, <1>6, <1>7

\* What the backend starts preserves the invariant: keys are pressed only while
\* no function runs, and only on a device while a window is selected.
LEMMA BackendHeader ==
  ASSUME TypeOK, HeaderInv, NEW s \in Slots
  PROVE  /\ OnDeviceAdded(s) => HeaderInv'
         /\ OnDeviceRemoved(s) => HeaderInv'
         /\ \A k \in Keys : OnBluePress(s, k) => HeaderInv'
         /\ \A k \in Keys, t \in Types : OnBlueRelease(s, k, t) => HeaderInv'
<1> USE DEF devVars, winVars, toolkitVars, lstVars
<1>1. HeaderInv' <=> /\ keyEventOn'
                     /\ NoneSelectedNonePressed'
                     /\ \A r \in Slots : btDevices'[r] # "device" => pressed'[r] = {}
                     /\ Covered(stack', pressed')
  BY HeaderInvPartsNext
<1>2. ASSUME NEW f, f.pc \notin {"select", "deselect"}, NEW P
      PROVE  Covered(<<f>>, P)
  BY <1>2 DEF Covered, FrameOK
<1>3. ASSUME OnDeviceAdded(s) PROVE HeaderInv'
  <2>1. Covered(stack', pressed')
    BY <1>2, <1>3 DEF OnDeviceAdded, MgmtFrame, Blank
  <2> QED BY <1>1, <1>3, <2>1
          DEF OnDeviceAdded, HeaderInv, NoneSelectedNonePressed, TypeOK
<1>4. ASSUME OnDeviceRemoved(s) PROVE HeaderInv'
  <2>1. UnplugFrame(s).pc = "unplug"
        /\ KeysFrame("cancel", s, Registered).pc = "cancel"
    BY DEF UnplugFrame, KeysFrame, Blank
  <2>2. Covered(stack', pressed')
    BY <1>4, <2>1 DEF OnDeviceRemoved, Covered, FrameOK
  <2> QED BY <1>1, <1>4, <2>2
          DEF OnDeviceRemoved, HeaderInv, NoneSelectedNonePressed
<1>5. ASSUME NEW k \in Keys, OnBluePress(s, k) PROVE HeaderInv'
  <2>1. Covered(stack', pressed')
    BY <1>2, <1>5 DEF OnBluePress, KeyFrame, Blank
  <2> QED BY <1>1, <1>5, <2>1
          DEF OnBluePress, HeaderInv, NoneSelectedNonePressed, TypeOK
<1>6. ASSUME NEW k \in Keys, NEW t \in Types, OnBlueRelease(s, k, t) PROVE HeaderInv'
  <2>1. Covered(stack', pressed')
    BY <1>2, <1>6 DEF OnBlueRelease, KeyFrame, Blank
  <2> QED BY <1>1, <1>6, <2>1
          DEF OnBlueRelease, HeaderInv, NoneSelectedNonePressed, TypeOK
<1> QED BY <1>3, <1>4, <1>5, <1>6

\* What is pushed while functions run: at most a frame that selects a window
\* and above it one that deselects, all of them fresh.
LEMMA PushHeader ==
  ASSUME TypeOK, HeaderInv, NEW d \in Data
  PROVE  /\ Covered(stack, pressed)
         /\ Covered(Append(stack, DeselectFrame), pressed)
         /\ Covered(Append(Append(stack, SelectFrame(d)), DeselectFrame), pressed)
<1>1. /\ stack \in Seq(Frame) /\ DeselectFrame \in Frame /\ SelectFrame(d) \in Frame
      /\ Append(stack, SelectFrame(d)) \in Seq(Frame)
  BY FrameTypes DEF TypeOK
<1>2. Fresh(DeselectFrame, pressed) /\ Fresh(SelectFrame(d), pressed)
  BY FreshFrames
<1>3. Covered(stack, pressed)
  BY HeaderInvParts
<1>4. Covered(Append(stack, SelectFrame(d)), pressed)
  BY <1>1, <1>2, <1>3, CoveredPush
<1> QED BY <1>1, <1>2, <1>3, <1>4, CoveredPush

\* What the toolkit reports preserves the invariant.
LEMMA ToolkitHeader ==
  ASSUME TypeOK, HeaderInv, NEW w \in Windows
  PROVE  /\ OnIsActiveChanged(w) => HeaderInv'
         /\ DeleteWindow(w) => HeaderInv'
<1> USE DEF devVars, winVars, toolkitVars, lstVars
<1>1. ASSUME OnIsActiveChanged(w) PROVE HeaderInv'
  <2>1. UNCHANGED <<btDevices, pressed, keyEventOn>>
    BY <1>1 DEF OnIsActiveChanged
  <2>2. \/ UNCHANGED <<selected, stack>>
        \/ UNCHANGED selected /\ stack' = Append(stack, DeselectFrame)
        \/ \E d \in tracked :
             \/ selected' = d /\ UNCHANGED stack
             \/ /\ UNCHANGED selected
                /\ stack' = Append(Append(stack, SelectFrame(d)), DeselectFrame)
    BY <1>1 DEF OnIsActiveChanged
  <2>3. tracked \in SUBSET Data
    BY DEF TypeOK
  <2>4. Covered(stack, pressed) /\ Covered(Append(stack, DeselectFrame), pressed)
    <3>1. stack \in Seq(Frame) /\ DeselectFrame \in Frame
          /\ Fresh(DeselectFrame, pressed) /\ Covered(stack, pressed)
      BY FrameTypes, FreshFrames, HeaderInvParts DEF TypeOK
    <3> QED BY <3>1, CoveredPush
  <2>6. Covered(stack', pressed')
    BY <2>1, <2>2, <2>3, <2>4, PushHeader
  <2>7. selected' = None => selected = None
    BY <2>2, <2>3, DataNotNone
  <2> QED BY <2>1, <2>6, <2>7, HeaderInvParts, HeaderInvPartsNext
          DEF NoneSelectedNonePressed
<1>2. ASSUME DeleteWindow(w) PROVE HeaderInv'
  <2>1. UNCHANGED <<btDevices, pressed, keyEventOn, selected, stack>>
    BY <1>2 DEF DeleteWindow
  <2> QED BY <2>1, HeaderInvParts, HeaderInvPartsNext DEF NoneSelectedNonePressed
<1> QED BY <1>1, <1>2

\* What the application calls preserves the invariant.
LEMMA ApplicationHeader ==
  ASSUME TypeOK, HeaderInv
  PROVE  /\ \A w \in Windows : AddAccessor(w) => HeaderInv'
         /\ \A w \in Windows : RemoveAccessor(w) => HeaderInv'
         /\ \A l \in Listeners : AddListener(l) => HeaderInv'
         /\ \A l \in Listeners, b \in BOOLEAN : RemoveListener(l, b) => HeaderInv'
         /\ EnableKeyEvent => HeaderInv'
<1> USE DEF devVars, winVars, toolkitVars, lstVars
<1>1. ASSUME NEW w \in Windows, AddAccessor(w) PROVE HeaderInv'
  <2> DEFINE d == CHOOSE x \in Unused(w) : TRUE
  <2>1. d \in Data
    BY <1>1 DEF AddAccessor, Unused
  <2> HIDE DEF d
  <2>2. UNCHANGED <<btDevices, pressed, keyEventOn>>
    BY <1>1 DEF AddAccessor
  <2>3. stack' \in {stack, Append(stack, DeselectFrame),
                    Append(Append(stack, SelectFrame(d)), DeselectFrame)}
    BY <1>1 DEF AddAccessor, ReplaceDeleted, d
  <2>4. selected' = d \/ UNCHANGED selected
    BY <1>1 DEF AddAccessor, ReplaceDeleted, winVars, d
  <2>5. Covered(stack', pressed')
    BY <2>1, <2>2, <2>3, PushHeader
  <2> QED BY <2>1, <2>2, <2>4, <2>5, DataNotNone, HeaderInvParts, HeaderInvPartsNext
          DEF NoneSelectedNonePressed
<1>2. ASSUME NEW w \in Windows, RemoveAccessor(w) PROVE HeaderInv'
  <2>1. PICK d \in tracked : RemoveData(d)
    BY <1>2 DEF RemoveAccessor
  <2>2. d \in Data
    BY DEF TypeOK
  <2>3. UNCHANGED <<btDevices, pressed, keyEventOn, selected>>
        /\ stack' \in {stack, Append(stack, DeselectFrame)}
    BY <1>2, <2>1 DEF RemoveAccessor, RemoveData
  <2>4. Covered(stack', pressed')
    BY <2>2, <2>3, PushHeader
  <2> QED BY <2>3, <2>4, HeaderInvParts, HeaderInvPartsNext
          DEF NoneSelectedNonePressed
<1>3. ASSUME NEW l \in Listeners, AddListener(l) PROVE HeaderInv'
  <2>1. UNCHANGED <<btDevices, pressed, keyEventOn, selected, stack>>
    BY <1>3 DEF AddListener
  <2> QED BY <2>1, HeaderInvParts, HeaderInvPartsNext DEF NoneSelectedNonePressed
<1>4. ASSUME NEW l \in Listeners, NEW b \in BOOLEAN, RemoveListener(l, b) PROVE HeaderInv'
  <2>1. UNCHANGED <<btDevices, pressed, keyEventOn, selected>>
        /\ stack' \in {stack, Append(stack, FinalizeFrame(l))}
    BY <1>4 DEF RemoveListener
  <2>2. stack \in Seq(Frame) /\ FinalizeFrame(l) \in Frame
        /\ Fresh(FinalizeFrame(l), pressed)
    BY FrameTypes, FreshFrames DEF TypeOK
  <2>3. Covered(stack', pressed')
    BY <2>1, <2>2, CoveredPush, HeaderInvParts
  <2> QED BY <2>1, <2>3, HeaderInvParts, HeaderInvPartsNext
          DEF NoneSelectedNonePressed
<1>5. ASSUME EnableKeyEvent PROVE HeaderInv'
  <2>1. UNCHANGED <<btDevices, pressed, selected, stack>> /\ keyEventOn'
    BY <1>5 DEF EnableKeyEvent
  <2> QED BY <2>1, HeaderInvParts, HeaderInvPartsNext DEF NoneSelectedNonePressed
<1> QED BY <1>1, <1>2, <1>3, <1>4, <1>5

\* One iteration of the topmost loop preserves the invariant.
LEMMA StepHeader ==
  ASSUME TypeOK, HeaderInv, Step
  PROVE  HeaderInv'
<1> USE DEF devVars, winVars, toolkitVars, lstVars
<1>1. ~Idle /\ Top \in Frame /\ stack \in Seq(Frame) /\ Top = stack[Len(stack)]
      /\ Len(stack) \in Nat \ {0}
  BY PoppedProps DEF Step, TypeOK, Top
<1>2. Covered(stack, pressed) /\ FrameOK(stack, pressed, Len(stack))
  BY <1>1, HeaderInvParts DEF Covered
<1>3. Return /\ UNCHANGED pressed /\ Top.pc # "cancel" => Covered(stack', pressed')
  BY <1>1, <1>2, CoveredPop DEF Return
<1>4. ASSUME Top.pc \notin {"select", "deselect"}, NEW f \in Frame,
             f.pc = Top.pc, f.slot = Top.slot
      PROVE  Covered(Replaced(f), pressed)
  BY <1>1, <1>2, <1>4, CoveredReplace DEF Fresh
<1>5. CASE KeyStep
  <2>1. CASE Return
    BY <1>3, <1>5, <2>1, HeaderInvParts, HeaderInvPartsNext
       DEF KeyStep, NoneSelectedNonePressed
  <2>2. CASE \E l \in Top.ls :
               stack' = Replaced([Top EXCEPT !.ls = @ \ {l}, !.cb = TRUE])
    <3>1. PICK l \in Top.ls :
            stack' = Replaced([Top EXCEPT !.ls = @ \ {l}, !.cb = TRUE])
      BY <2>2
    <3> DEFINE f == [Top EXCEPT !.ls = @ \ {l}, !.cb = TRUE]
    <3>2. f \in Frame /\ f.pc = Top.pc /\ f.slot = Top.slot
      BY <1>1 DEF Frame
    <3>3. Covered(stack', pressed')
      BY <1>4, <1>5, <3>1, <3>2 DEF KeyStep
    <3> QED BY <1>5, <3>3, HeaderInvParts, HeaderInvPartsNext
            DEF KeyStep, NoneSelectedNonePressed
  <2> QED BY <1>5, <2>1, <2>2 DEF KeyStep
<1>6. CASE MgmtStep
  <2>1. CASE Return
    BY <1>3, <1>6, <2>1, HeaderInvParts, HeaderInvPartsNext
       DEF MgmtStep, NoneSelectedNonePressed
  <2>2. CASE \E l \in Top.ls :
               stack' = Replaced([Top EXCEPT !.ls = @ \ {l}, !.cb = TRUE])
    <3>1. PICK l \in Top.ls :
            stack' = Replaced([Top EXCEPT !.ls = @ \ {l}, !.cb = TRUE])
      BY <2>2
    <3> DEFINE f == [Top EXCEPT !.ls = @ \ {l}, !.cb = TRUE]
    <3>2. f \in Frame /\ f.pc = Top.pc /\ f.slot = Top.slot
      BY <1>1 DEF Frame
    <3>3. Covered(stack', pressed')
      BY <1>4, <1>6, <3>1, <3>2 DEF MgmtStep
    <3> QED BY <1>6, <3>3, HeaderInvParts, HeaderInvPartsNext
            DEF MgmtStep, NoneSelectedNonePressed
  <2> QED BY <1>6, <2>1, <2>2 DEF MgmtStep
<1>7. ASSUME Top.pc \in {"cancel", "finalizeKeys"}, NEW p \in Top.todo, CancelOne(p)
      PROVE  Covered(stack', pressed)
  <2>1. PICK f \in {[Top EXCEPT !.todo = @ \ {p}],
                    [Top EXCEPT !.todo = @ \ {p}, !.cb = TRUE]} :
          stack' = Replaced(f)
    BY <1>7 DEF CancelOne
  <2>2. f \in Frame /\ f.pc = Top.pc /\ f.slot = Top.slot
    <3>1. CASE f = [Top EXCEPT !.todo = @ \ {p}]
      BY <1>1, <3>1 DEF Frame
    <3>2. CASE f = [Top EXCEPT !.todo = @ \ {p}, !.cb = TRUE]
      BY <1>1, <3>2, ZenonT(30) DEF Frame
    <3> QED BY <2>1, <3>1, <3>2
  <2> QED BY <1>4, <1>7, <2>1, <2>2
<1>8. CASE CancelStep
  <2>1. CASE ForgetKeys(Top.slot) /\ Return
    <3>1. /\ \A s \in Slots : pressed[s] = {} => pressed'[s] = {}
          /\ Top.slot \in Slots => pressed'[Top.slot] = {}
      BY <2>1 DEF ForgetKeys, TypeOK
    <3>2. Covered(stack', pressed')
      BY <1>1, <1>2, <2>1, <3>1, CoveredPop DEF Return
    <3> QED BY <1>8, <3>1, <3>2, HeaderInvParts, HeaderInvPartsNext
            DEF CancelStep, NoneSelectedNonePressed
  <2>2. CASE (\E p \in Top.todo : CancelOne(p)) /\ UNCHANGED pressed
    <3>1. Covered(stack', pressed')
      BY <1>7, <1>8, <2>2 DEF CancelStep
    <3> QED BY <1>8, <2>2, <3>1, HeaderInvParts, HeaderInvPartsNext
            DEF CancelStep, NoneSelectedNonePressed
  <2> QED BY <1>8, <2>1, <2>2 DEF CancelStep
<1>9. CASE FinalizeKeysStep
  <2>1. Covered(stack', pressed')
    BY <1>3, <1>7, <1>9 DEF FinalizeKeysStep
  <2> QED BY <1>9, <2>1, HeaderInvParts, HeaderInvPartsNext
          DEF FinalizeKeysStep, NoneSelectedNonePressed
<1>10. CASE DeselectStep
  <2>1. CASE Top.slots = {} /\ selected' = None /\ Return
    <3>1. \A s \in Slots : pressed[s] = {}
      BY <1>1, <1>2, <1>10, <2>1 DEF FrameOK, DeselectStep
    <3>2. Covered(stack', pressed')
      BY <1>3, <1>10, <2>1 DEF DeselectStep
    <3>3. keyEventOn' = keyEventOn /\ btDevices' = btDevices /\ pressed' = pressed
      BY <1>10 DEF DeselectStep
    <3> QED BY <3>1, <3>2, <3>3, HeaderInvParts, HeaderInvPartsNext
            DEF NoneSelectedNonePressed
  <2>2. ASSUME NEW s \in Top.slots, VisitDevice(s, "cancel", Registered),
               UNCHANGED selected
        PROVE  HeaderInv'
    <3> DEFINE f == [Top EXCEPT !.slots = @ \ {s}]
               g == KeysFrame("cancel", s, Registered)
    <3>1. s \in Slots /\ Registered \in SUBSET Listeners
      BY <1>1 DEF Frame, Registered
    <3>2. /\ f \in Frame /\ f.pc = Top.pc /\ f.slot = Top.slot
          /\ f.slots = Top.slots \ {s}
      BY <1>1, <3>1 DEF Frame
    <3>3. g \in Frame /\ g.slot = s /\ g.pc = "cancel"
      <4>1. g \in Frame
        BY <3>1, FrameTypes
      <4> QED BY <4>1 DEF KeysFrame, Blank
    <3>4. Top.pc = "deselect"
      BY <1>10 DEF DeselectStep
    <3>5. \/ UNCHANGED stack
          \/ stack' = Append(Replaced(f), g)
          \/ selected = None /\ stack' = Replaced(f)
      BY <2>2 DEF VisitDevice, HeaderInv
    <3>6. Covered(Append(Replaced(f), g), pressed)
      <4> HIDE DEF g
      <4> QED BY <1>1, <1>2, <3>1, <3>2, <3>3, <3>4, CoveredVisit
    <3>7. selected = None => Covered(Replaced(f), pressed)
      <4>1. selected = None => Fresh(f, pressed)
        BY <3>2, <3>4 DEF Fresh, HeaderInv, NoneSelectedNonePressed
      <4> HIDE DEF f
      <4> QED BY <1>1, <1>2, <3>2, <4>1, CoveredReplace
    <3>8. UNCHANGED <<btDevices, pressed, keyEventOn>>
      BY <1>10 DEF DeselectStep
    <3>9. Covered(stack', pressed')
      BY <1>2, <3>5, <3>6, <3>7, <3>8
    <3> QED BY <2>2, <3>8, <3>9, HeaderInvParts, HeaderInvPartsNext
            DEF NoneSelectedNonePressed
  <2> QED BY <1>10, <2>1, <2>2 DEF DeselectStep
<1>11. CASE FinalizeStep
  <2>1. CASE Return
    BY <1>3, <1>11, <2>1, HeaderInvParts, HeaderInvPartsNext
       DEF FinalizeStep, LeaveCanceling, NoneSelectedNonePressed
  <2>2. ASSUME NEW s \in Top.slots,
               VisitDevice(s, "finalizeKeys", Listeners \cap {Top.lst})
        PROVE  HeaderInv'
    <3> DEFINE f == [Top EXCEPT !.slots = @ \ {s}]
               g == KeysFrame("finalizeKeys", s, Listeners \cap {Top.lst})
    <3>1. s \in Slots
      BY <1>1 DEF Frame
    <3>2. f \in Frame /\ f.pc = Top.pc /\ f.slot = Top.slot
      BY <1>1, <3>1 DEF Frame
    <3>3. g \in Frame /\ Fresh(g, pressed)
      <4>1. Listeners \cap {Top.lst} \in SUBSET Listeners
        OBVIOUS
      <4> QED BY <3>1, <4>1, FrameTypes, FreshFrames
    <3>4. Covered(Replaced(f), pressed) /\ Replaced(f) \in Seq(Frame)
      <4>1. Top.pc \notin {"select", "deselect"}
        BY <1>11 DEF FinalizeStep
      <4> HIDE DEF f
      <4> QED BY <1>1, <1>4, <3>2, <4>1, ReplacedProps
    <3>5. Covered(Append(Replaced(f), g), pressed)
      <4> HIDE DEF f, g
      <4> QED BY <3>3, <3>4, CoveredPush
    <3>6. stack' \in {stack, Replaced(f), Append(Replaced(f), g)}
      BY <2>2 DEF VisitDevice
    <3>7. Covered(stack', pressed') /\ UNCHANGED <<btDevices, pressed, selected, keyEventOn>>
      BY <1>2, <1>11, <3>4, <3>5, <3>6 DEF FinalizeStep
    <3> QED BY <3>7, HeaderInvParts, HeaderInvPartsNext DEF NoneSelectedNonePressed
  <2> QED BY <1>11, <2>1, <2>2 DEF FinalizeStep
<1>12. CASE UnplugStep
  <2>1. /\ \A s \in Slots : pressed[s] = {} => pressed'[s] = {}
        /\ Top.slot \in Slots => pressed'[Top.slot] = {}
    BY <1>12 DEF UnplugStep, ForgetKeys, TypeOK
  <2>2. \A s \in Slots : btDevices'[s] # "device" => pressed'[s] = {}
    BY <1>12, <2>1 DEF UnplugStep, TypeOK, HeaderInv
  <2>3. Covered(stack', pressed)
    <3>1. MgmtFrame \in Frame /\ Fresh(MgmtFrame, pressed)
      BY FrameTypes, FreshFrames
    <3>2. Top.pc # "cancel" /\ stack' = Replaced(MgmtFrame)
      BY <1>12 DEF UnplugStep
    <3> QED BY <1>1, <1>2, <3>1, <3>2, CoveredReplace
  <2>4. Covered(stack', pressed')
    BY <2>1, <2>3, CoveredFewer
  <2>5. selected' = selected /\ keyEventOn' = keyEventOn
    BY <1>12 DEF UnplugStep
  <2> QED BY <2>1, <2>2, <2>4, <2>5, HeaderInvParts, HeaderInvPartsNext
          DEF NoneSelectedNonePressed
<1>13. CASE SelectStep
  <2>1. Top.data # None
    BY <1>1, <1>2, <1>13 DEF FrameOK, SelectStep
  <2>2. Covered(stack', pressed')
    BY <1>3, <1>13 DEF SelectStep
  <2> QED BY <1>13, <2>1, <2>2, HeaderInvParts, HeaderInvPartsNext
          DEF SelectStep, NoneSelectedNonePressed
<1> QED BY <1>5, <1>6, <1>8, <1>9, <1>10, <1>11, <1>12, <1>13 DEF Step

\* The header's first invariant, btgtkdevicemanager.h:138, for every number of
\* devices, keys, listeners and windows and however deeply listeners nest calls:
\* while no window is selected no key is pressed, if the KeyEvent class is enabled
\* from the start.  NoneSelectedNonePressed is a conjunct of HeaderInv.
THEOREM HeaderInvariant ==
  ASSUME KeyEventAtStart
  PROVE  Spec => []HeaderInv
<1>1. ASSUME Init PROVE HeaderInv
  <2>1. Covered(stack, pressed)
    BY <1>1 DEF Init, Covered, FrameOK
  <2> QED BY <1>1, <2>1, HeaderInvParts DEF Init, NoneSelectedNonePressed
<1>2. TypeOK /\ HeaderInv /\ [Next]_vars => HeaderInv'
  <2> SUFFICES ASSUME TypeOK, HeaderInv, [Next]_vars PROVE HeaderInv'
    OBVIOUS
  <2>1. CASE Step
    BY <2>1, StepHeader
  <2>2. CASE Backend
    BY <2>2, BackendHeader DEF Backend
  <2>3. CASE Toolkit
    BY <2>3, ToolkitHeader DEF Toolkit
  <2>4. CASE Application
    BY <2>4, ApplicationHeader DEF Application
  <2>5. CASE UNCHANGED vars
    BY <2>5, HeaderInvParts, HeaderInvPartsNext
       DEF vars, devVars, winVars, lstVars, NoneSelectedNonePressed
  <2> QED BY <2>1, <2>2, <2>3, <2>4, <2>5 DEF Next, Dead
<1> QED BY <1>1, <1>2, TypeCorrect, PTL DEF Spec
=============================================================================
