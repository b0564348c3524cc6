------------------- MODULE BtGtkDeviceManagerCalls_proofs -------------------
(***************************************************************************)
(* What the device manager keeps while listeners call it from within its   *)
(* loops: canceling functions nest, the selected window is a tracked one,  *)
(* and listeners hear of the beginning and the end of every key press.     *)
(***************************************************************************)
EXTENDS BtGtkDeviceManager_proofs, FiniteSetTheorems

USE DEF Pairs, Types

\* The functions that count themselves in m_nCancelingNestedDepth.
CancelPcs == {"deselect", "finalize", "unplug"}

\* The loops that call listeners, and what a frame refers to.
FrameFine(f) ==
  /\ f.cb => f.pc \in {"key", "mgmt", "cancel", "finalizeKeys"}
  /\ f.pc \in {"key", "cancel", "finalizeKeys", "unplug"} => f.slot \in Slots
  /\ f.pc = "key" => f.key \in Keys
  /\ f.pc = "finalize" => f.lst \in Listeners

\* Frame f calls g: a loop over devices the one of a device, addAccessor() and
\* onIsActiveChanged() deselectAccessor(), or a listener one of the manager's.
Above(f, g) ==
  \/ g.pc = "cancel" /\ (f.pc = "deselect" \/ (f.pc = "unplug" /\ f.slot = g.slot))
  \/ g.pc = "finalizeKeys" /\ f.pc = "finalize" /\ \A p \in g.todo : p[2] = f.lst
  \/ g.pc = "deselect" /\ f.pc = "select"
  \/ g.pc \in {"deselect", "finalize", "select"} /\ f.cb
Bottom(f) == f.pc \notin {"cancel", "finalizeKeys"}

\* The call stack q is one that calls of the code's functions make.
Stacked(q) ==
  /\ \A i \in 1..Len(q) : FrameFine(q[i])
  /\ q # <<>> => Bottom(q[1])
  /\ \A i \in 1..(Len(q) - 1) : Above(q[i], q[i + 1])

\* The canceling functions on the call stack q.
CancelingIn(q) == {i \in 1..Len(q) : q[i].pc \in CancelPcs}

NestInv == TypeOK /\ Stacked(stack) /\ CancelingNests

-----------------------------------------------------------------------------
(* The call stack.                                                         *)

LEMMA StackedPush ==
  ASSUME NEW q \in Seq(Frame), NEW f \in Frame, Stacked(q), FrameFine(f),
         q = <<>> => Bottom(f), q # <<>> => Above(q[Len(q)], f)
  PROVE  Stacked(Append(q, f)) /\ Append(q, f) \in Seq(Frame)
<1> DEFINE r == Append(q, f)
<1>1. /\ r \in Seq(Frame) /\ Len(r) = Len(q) + 1 /\ r[Len(q) + 1] = f
      /\ \A i \in 1..Len(q) : r[i] = q[i]
      /\ Len(q) \in Nat /\ (q = <<>> <=> Len(q) = 0)
  BY AppendProps
<1> HIDE DEF r
<1>2. \A i \in 1..Len(r) : i \in 1..Len(q) \/ i = Len(q) + 1
  BY <1>1
<1>3. \A i \in 1..Len(r) : FrameFine(r[i])
  BY <1>1, <1>2 DEF Stacked
<1>4. Bottom(r[1])
  <2>1. CASE q = <<>>
    BY <1>1, <2>1
  <2>2. CASE q # <<>>
    <3>1. 1 \in 1..Len(q)
      BY <1>1, <2>2
    <3> QED BY <1>1, <2>2, <3>1 DEF Stacked
  <2> QED BY <2>1, <2>2
<1>5. ASSUME NEW i \in 1..(Len(r) - 1) PROVE Above(r[i], r[i + 1])
  <2>1. CASE i < Len(q)
    <3>1. i \in 1..Len(q) /\ i + 1 \in 1..Len(q) /\ i \in 1..(Len(q) - 1)
      BY <1>1, <2>1
    <3> QED BY <1>1, <3>1 DEF Stacked
  <2>2. CASE i = Len(q)
    <3>1. i \in 1..Len(q) /\ q # <<>>
      BY <1>1, <2>2
    <3> QED BY <1>1, <2>2, <3>1
  <2> QED BY <1>1, <2>1, <2>2
<1> QED BY <1>1, <1>3, <1>4, <1>5 DEF Stacked, r

LEMMA StackedPop ==
  ASSUME stack \in Seq(Frame), ~Idle, Stacked(stack)
  PROVE  Stacked(Popped)
<1>1. /\ Len(stack) \in Nat \ {0} /\ Len(Popped) = Len(stack) - 1
      /\ \A i \in 1..Len(Popped) : Popped[i] = stack[i]
      /\ Popped \in Seq(Frame)
  BY PoppedProps
<1>2. \A i \in 1..Len(Popped) : i \in 1..Len(stack)
  BY <1>1
<1>3. \A i \in 1..(Len(Popped) - 1) :
        i \in 1..Len(Popped) /\ i + 1 \in 1..Len(Popped) /\ i \in 1..(Len(stack) - 1)
  BY <1>1
<1>4. Popped # <<>> => 1 \in 1..Len(Popped)
  BY <1>1
<1> QED BY <1>1, <1>2, <1>3, <1>4 DEF Stacked, Idle

\* The topmost loop advances.
LEMMA StackedReplace ==
  ASSUME stack \in Seq(Frame), ~Idle, Stacked(stack), NEW f \in Frame, FrameFine(f),
         f.pc = Top.pc, f.slot = Top.slot, f.lst = Top.lst, f.todo \subseteq Top.todo
  PROVE  Stacked(Replaced(f)) /\ Replaced(f) \in Seq(Frame)
<1> DEFINE r == Replaced(f)
<1>1. /\ Len(stack) \in Nat \ {0} /\ Len(r) = Len(stack) /\ r \in Seq(Frame)
      /\ \A i \in 1..Len(stack) : r[i] = IF i = Len(stack) THEN f ELSE stack[i]
  BY PoppedProps, ReplacedProps
<1> HIDE DEF r
<1>2. \A i \in 1..Len(r) : FrameFine(r[i])
  BY <1>1 DEF Stacked
<1>3. Bottom(r[1])
  <2>1. 1 \in 1..Len(stack) /\ Bottom(stack[1])
    BY <1>1 DEF Stacked, Idle
  <2>2. r[1].pc = stack[1].pc
    BY <1>1, <2>1 DEF Top
  <2> QED BY <2>1, <2>2 DEF Bottom
<1>4. ASSUME NEW i \in 1..(Len(r) - 1) PROVE Above(r[i], r[i + 1])
  <2>1. /\ i \in 1..Len(stack) /\ i # Len(stack) /\ i + 1 \in 1..Len(stack)
        /\ i \in 1..(Len(stack) - 1)
    BY <1>1
  <2>2. Above(stack[i], stack[i + 1]) /\ r[i] = stack[i]
    BY <1>1, <2>1 DEF Stacked
  <2>3. CASE i + 1 # Len(stack)
    BY <1>1, <2>1, <2>2, <2>3
  <2>4. CASE i + 1 = Len(stack)
    <3>1. stack[i + 1] = Top /\ r[i + 1] = f
      BY <1>1, <2>1, <2>4 DEF Top
    <3> QED BY <2>2, <3>1 DEF Above
  <2> QED BY <2>3, <2>4
<1> QED BY <1>1, <1>2, <1>3, <1>4 DEF Stacked, r

\* How many canceling functions are on the call stack.
LEMMA CancelingFinite ==
  ASSUME NEW q \in Seq(Frame)
  PROVE  IsFiniteSet(CancelingIn(q)) /\ Cardinality(CancelingIn(q)) \in Nat
<1>1. Len(q) \in Nat
  OBVIOUS
<1>2. IsFiniteSet(1..Len(q))
  BY <1>1, FS_Interval
<1>3. IsFiniteSet(CancelingIn(q))
  BY <1>2, FS_Subset DEF CancelingIn
<1> QED BY <1>3, FS_CardinalityType

LEMMA CancelingPush ==
  ASSUME NEW q \in Seq(Frame), NEW f \in Frame
  PROVE  Cardinality(CancelingIn(Append(q, f))) =
           IF f.pc \in CancelPcs THEN Cardinality(CancelingIn(q)) + 1
                                 ELSE Cardinality(CancelingIn(q))
<1> DEFINE r == Append(q, f)
           n == Len(q) + 1
<1>1. /\ Len(r) = n /\ r[n] = f /\ \A i \in 1..Len(q) : r[i] = q[i]
      /\ Len(q) \in Nat
  BY AppendProps
<1> HIDE DEF r
<1>2. \A i : i \in 1..Len(r) <=> i \in 1..Len(q) \/ i = n
  BY <1>1
<1>3. n \notin CancelingIn(q)
  BY <1>1 DEF CancelingIn
<1>4. CASE f.pc \in CancelPcs
  <2>1. CancelingIn(r) = CancelingIn(q) \cup {n}
    BY <1>1, <1>2, <1>4 DEF CancelingIn
  <2> QED BY <1>3, <1>4, <2>1, CancelingFinite, FS_AddElement DEF r
<1>5. CASE f.pc \notin CancelPcs
  <2>1. CancelingIn(r) = CancelingIn(q)
    BY <1>1, <1>2, <1>5 DEF CancelingIn
  <2> QED BY <1>5, <2>1 DEF r
<1> QED BY <1>4, <1>5

LEMMA CancelingPop ==
  ASSUME stack \in Seq(Frame), ~Idle
  PROVE  Cardinality(CancelingIn(Popped)) =
           IF Top.pc \in CancelPcs THEN Cardinality(CancelingIn(stack)) - 1
                                   ELSE Cardinality(CancelingIn(stack))
<1> DEFINE n == Len(stack)
<1>1. /\ n \in Nat \ {0} /\ Len(Popped) = n - 1 /\ Top = stack[n]
      /\ \A i \in 1..Len(Popped) : Popped[i] = stack[i]
  BY PoppedProps DEF Top
<1>2. \A i : i \in 1..n <=> i \in 1..Len(Popped) \/ i = n
  BY <1>1
<1>3. n \notin 1..Len(Popped)
  BY <1>1
<1>4. CASE Top.pc \in CancelPcs
  <2>1. CancelingIn(Popped) = CancelingIn(stack) \ {n} /\ n \in CancelingIn(stack)
    <3> HIDE DEF n
    <3>1. CancelingIn(stack) = {i \in 1..n : stack[i].pc \in CancelPcs}
      BY DEF CancelingIn, n
    <3> QED BY <1>1, <1>2, <1>3, <1>4, <3>1 DEF CancelingIn
  <2> QED BY <1>4, <2>1, CancelingFinite, FS_RemoveElement
<1>5. CASE Top.pc \notin CancelPcs
  <2>1. CancelingIn(Popped) = CancelingIn(stack)
    BY <1>1, <1>2, <1>3, <1>5 DEF CancelingIn
  <2> QED BY <1>5, <2>1
<1> QED BY <1>4, <1>5

LEMMA CancelingReplace ==
  ASSUME stack \in Seq(Frame), ~Idle, NEW f \in Frame, f.pc = Top.pc
  PROVE  CancelingIn(Replaced(f)) = CancelingIn(stack)
<1>1. /\ Len(stack) \in Nat \ {0} /\ Len(Replaced(f)) = Len(stack)
      /\ \A i \in 1..Len(stack) : Replaced(f)[i] = IF i = Len(stack) THEN f ELSE stack[i]
  BY PoppedProps, ReplacedProps
<1>2. \A i \in 1..Len(stack) : Replaced(f)[i].pc = stack[i].pc
  BY <1>1 DEF Top
<1> QED BY <1>1, <1>2 DEF CancelingIn

\* The frames the functions push, and when they may be pushed.
LEMMA PushedFrames ==
         /\ FrameFine(DeselectFrame) /\ DeselectFrame.pc = "deselect" /\ ~DeselectFrame.cb
         /\ FrameFine(MgmtFrame) /\ MgmtFrame.pc = "mgmt"
         /\ \A d : FrameFine(SelectFrame(d)) /\ SelectFrame(d).pc = "select" /\ SelectFrame(d).data = d
         /\ \A s \in Slots : FrameFine(UnplugFrame(s)) /\ UnplugFrame(s).pc = "unplug"
                             /\ UnplugFrame(s).slot = s
         /\ \A l \in Listeners : FrameFine(FinalizeFrame(l)) /\ FinalizeFrame(l).pc = "finalize"
                                 /\ FinalizeFrame(l).lst = l
         /\ \A s \in Slots, k \in Keys : \A t, ls :
              /\ FrameFine(KeyFrame(s, k, t, ls)) /\ KeyFrame(s, k, t, ls).pc = "key"
              /\ KeyFrame(s, k, t, ls).slot = s /\ KeyFrame(s, k, t, ls).key = k
              /\ KeyFrame(s, k, t, ls).type = t /\ KeyFrame(s, k, t, ls).ls = ls
<1>1. FrameFine(DeselectFrame) /\ DeselectFrame.pc = "deselect" /\ ~DeselectFrame.cb
  BY DEF DeselectFrame, Blank, FrameFine
<1>2. FrameFine(MgmtFrame) /\ MgmtFrame.pc = "mgmt"
  BY DEF MgmtFrame, Blank, FrameFine
<1>3. ASSUME NEW d
      PROVE  FrameFine(SelectFrame(d)) /\ SelectFrame(d).pc = "select" /\ SelectFrame(d).data = d
  BY DEF SelectFrame, Blank, FrameFine
<1>4. ASSUME NEW s \in Slots
      PROVE  FrameFine(UnplugFrame(s)) /\ UnplugFrame(s).pc = "unplug" /\ UnplugFrame(s).slot = s
  BY DEF UnplugFrame, Blank, FrameFine
<1>5. ASSUME NEW l \in Listeners
      PROVE  FrameFine(FinalizeFrame(l)) /\ FinalizeFrame(l).pc = "finalize"
             /\ FinalizeFrame(l).lst = l
  BY DEF FinalizeFrame, Blank, FrameFine
<1>6. ASSUME NEW s \in Slots, NEW k \in Keys, NEW t, NEW ls
      PROVE  /\ FrameFine(KeyFrame(s, k, t, ls)) /\ KeyFrame(s, k, t, ls).pc = "key"
             /\ KeyFrame(s, k, t, ls).slot = s /\ KeyFrame(s, k, t, ls).key = k
             /\ KeyFrame(s, k, t, ls).type = t /\ KeyFrame(s, k, t, ls).ls = ls
  BY DEF KeyFrame, Blank, FrameFine
<1> QED BY <1>1, <1>2, <1>3, <1>4, <1>5, <1>6

\* The loop over the pressed keys of a device.
LEMMA KeysFrames ==
  ASSUME NEW pc \in {"cancel", "finalizeKeys"}, NEW s \in Slots, NEW ls
  PROVE  LET g == KeysFrame(pc, s, ls)
         IN  /\ FrameFine(g) /\ g.pc = pc /\ g.slot = s
             /\ g.todo = pressed[s] \X ls
             /\ g.heard = {p \in pressed[s] \X ls : p[2] \in audience[s][p[1]]}
             /\ \A p \in g.todo : p[2] \in ls
  BY DEF KeysFrame, Blank, FrameFine

\* The topmost loop after one more iteration.
LEMMA TopAdvances ==
  ASSUME TypeOK, Stacked(stack), ~Idle
  PROVE  /\ Top \in Frame /\ FrameFine(Top) /\ stack \in Seq(Frame)
         /\ Top.pc \in {"key", "mgmt"} =>
              \A l : LET f == [Top EXCEPT !.ls = @ \ {l}, !.cb = TRUE]
                     IN  /\ f \in Frame /\ FrameFine(f) /\ f.pc = Top.pc /\ f.slot = Top.slot
                         /\ f.lst = Top.lst /\ f.todo = Top.todo /\ f.key = Top.key
                         /\ f.type = Top.type /\ f.ls = Top.ls \ {l}
         /\ Top.pc \in {"cancel", "finalizeKeys"} =>
              \A p : \A f \in {[Top EXCEPT !.todo = @ \ {p}],
                               [Top EXCEPT !.todo = @ \ {p}, !.cb = TRUE]} :
                /\ f \in Frame /\ FrameFine(f) /\ f.pc = Top.pc /\ f.slot = Top.slot
                /\ f.lst = Top.lst /\ f.todo = Top.todo \ {p} /\ f.heard = Top.heard
         /\ Top.pc \in {"deselect", "finalize"} =>
              \A s : LET f == [Top EXCEPT !.slots = @ \ {s}]
                     IN  /\ f \in Frame /\ FrameFine(f) /\ f.pc = Top.pc /\ f.slot = Top.slot
                         /\ f.lst = Top.lst /\ f.todo = Top.todo /\ f.slots = Top.slots \ {s}
<1>1. Top \in Frame /\ FrameFine(Top) /\ stack \in Seq(Frame)
  <2>1. stack \in Seq(Frame) /\ Len(stack) \in 1..Len(stack)
    BY PoppedProps DEF TypeOK
  <2> QED BY <2>1, PoppedProps DEF Stacked, Top
<1>2. ASSUME Top.pc \in {"key", "mgmt"}, NEW l
      PROVE  LET f == [Top EXCEPT !.ls = @ \ {l}, !.cb = TRUE]
             IN  /\ f \in Frame /\ FrameFine(f) /\ f.pc = Top.pc /\ f.slot = Top.slot
                 /\ f.lst = Top.lst /\ f.todo = Top.todo /\ f.key = Top.key
                 /\ f.type = Top.type /\ f.ls = Top.ls \ {l}
  BY <1>1, <1>2 DEF Frame, FrameFine
<1>3. ASSUME Top.pc \in {"cancel", "finalizeKeys"}, NEW p,
             NEW f \in {[Top EXCEPT !.todo = @ \ {p}],
                        [Top EXCEPT !.todo = @ \ {p}, !.cb = TRUE]}
      PROVE  /\ f \in Frame /\ FrameFine(f) /\ f.pc = Top.pc /\ f.slot = Top.slot
             /\ f.lst = Top.lst /\ f.todo = Top.todo \ {p} /\ f.heard = Top.heard
  <2>1. /\ f.pc = Top.pc /\ f.slot = Top.slot
        /\ f.lst = Top.lst /\ f.todo = Top.todo \ {p} /\ f.heard = Top.heard
    BY <1>1 DEF Frame
  <2>2. f \in Frame
    <3>1. CASE f = [Top EXCEPT !.todo = @ \ {p}]
      BY <1>1, <3>1 DEF Frame
    <3>2. CASE f = [Top EXCEPT !.todo = @ \ {p}, !.cb = TRUE]
      BY <1>1, <3>2, ZenonT(30) DEF Frame
    <3> QED BY <3>1, <3>2
  <2>3. FrameFine(f)
    BY <1>1, <1>3, <2>1 DEF FrameFine
  <2> QED BY <2>1, <2>2, <2>3
<1>4. ASSUME Top.pc \in {"deselect", "finalize"}, NEW s
      PROVE  LET f == [Top EXCEPT !.slots = @ \ {s}]
             IN  /\ f \in Frame /\ FrameFine(f) /\ f.pc = Top.pc /\ f.slot = Top.slot
                 /\ f.lst = Top.lst /\ f.todo = Top.todo /\ f.slots = Top.slots \ {s}
  BY <1>1, <1>4 DEF Frame, FrameFine
<1> QED BY <1>1, <1>2, <1>3, <1>4

-----------------------------------------------------------------------------
(* Nested canceling.                                                       *)

LEMMA NestParts ==
  /\ CancelingNests <=> /\ depth = Cardinality(CancelingIn(stack))
                        /\ depth = 0 => \A l \in Listeners : canceled[l] = {}
  /\ CancelingNests' <=> /\ depth' = Cardinality(CancelingIn(stack'))
                         /\ depth' = 0 => \A l \in Listeners : canceled'[l] = {}
  BY DEF CancelingNests, Canceling, CancelingIn, CancelPcs

\* A frame may be pushed now.
Pushable(f) == f \in Frame /\ FrameFine(f) /\ (Idle => Bottom(f)) /\ (~Idle => Above(Top, f))
Counted(f) == IF f.pc \in CancelPcs THEN 1 ELSE 0

LEMMA NestPush ==
  ASSUME NestInv, NEW f, Pushable(f), stack' = Append(stack, f),
         depth' = depth + Counted(f), UNCHANGED canceled
  PROVE  Stacked(stack') /\ CancelingNests'
<1>1. /\ stack \in Seq(Frame) /\ f \in Frame /\ Cardinality(CancelingIn(stack)) \in Nat
      /\ depth = Cardinality(CancelingIn(stack))
  BY CancelingFinite, NestParts DEF NestInv, TypeOK, Pushable
<1>2. Stacked(stack')
  BY <1>1, StackedPush DEF NestInv, Pushable, Idle, Top
<1>3. Cardinality(CancelingIn(stack')) = depth'
  BY <1>1, CancelingPush DEF Counted
<1>4. depth' = 0 => depth = 0
  BY <1>1 DEF Counted
<1> QED BY <1>2, <1>3, <1>4, NestParts DEF NestInv

\* One function calls another at once.
LEMMA NestPushTwo ==
  ASSUME NestInv, NEW f, Pushable(f), NEW g \in Frame, FrameFine(g), Above(f, g),
         stack' = Append(Append(stack, f), g),
         depth' = depth + Counted(f) + Counted(g), UNCHANGED canceled
  PROVE  Stacked(stack') /\ CancelingNests'
<1> DEFINE q == Append(stack, f)
<1>1. /\ stack \in Seq(Frame) /\ f \in Frame /\ Cardinality(CancelingIn(stack)) \in Nat
      /\ depth = Cardinality(CancelingIn(stack))
  BY CancelingFinite, NestParts DEF NestInv, TypeOK, Pushable
<1>2. Stacked(q) /\ q \in Seq(Frame)
  BY <1>1, StackedPush DEF NestInv, Pushable, Idle, Top
<1>3. q # <<>> /\ q[Len(q)] = f
  BY <1>1
<1>4. Cardinality(CancelingIn(q)) = depth + Counted(f)
  BY <1>1, CancelingPush DEF Counted
<1> HIDE DEF q
<1>5. Stacked(stack')
  BY <1>2, <1>3, StackedPush DEF q
<1>6. Cardinality(CancelingIn(stack')) = depth'
  <2>1. stack' = Append(q, g)
    BY DEF q
  <2>2. Cardinality(CancelingIn(stack')) = Cardinality(CancelingIn(q)) + Counted(g)
    BY <1>1, <1>2, <1>4, <2>1, CancelingPush DEF Counted
  <2> QED BY <1>4, <2>2
<1>7. depth' = 0 => depth = 0
  BY <1>1 DEF Counted
<1> QED BY <1>5, <1>6, <1>7, NestParts DEF NestInv

\* A loop that cancels keys was called by a canceling function.
LEMMA CallerCancels ==
  ASSUME TypeOK, Stacked(stack), NEW i \in 1..Len(stack),
         stack[i].pc \in {"cancel", "finalizeKeys"}
  PROVE  /\ i - 1 \in 1..Len(stack) /\ i - 1 \in 1..(Len(stack) - 1) /\ (i - 1) + 1 = i
         /\ stack[i - 1].pc \in CancelPcs /\ Above(stack[i - 1], stack[i])
<1>1. stack \in Seq(Frame) /\ Len(stack) \in Nat
  BY DEF TypeOK
<1>2. i # 1
  <2>1. stack # <<>>
    BY <1>1
  <2> QED BY <2>1 DEF Stacked, Bottom
<1>3. i - 1 \in 1..Len(stack) /\ i - 1 \in 1..(Len(stack) - 1) /\ (i - 1) + 1 = i
  BY <1>1, <1>2
<1>4. Above(stack[i - 1], stack[i])
  BY <1>3 DEF Stacked
<1> QED BY <1>3, <1>4 DEF Above, CancelPcs

LEMMA DeepEnough ==
  ASSUME NestInv, NEW i \in 1..Len(stack), stack[i].pc \in CancelPcs
  PROVE  depth \in Nat \ {0}
<1>1. i \in CancelingIn(stack)
  BY DEF CancelingIn
<1>2. stack \in Seq(Frame)
  BY DEF NestInv, TypeOK
<1>3. Cardinality(CancelingIn(stack)) \in Nat \ {0}
  BY <1>1, <1>2, CancelingFinite, FS_EmptySet
<1> QED BY <1>3, NestParts DEF NestInv

LEMMA NestPop ==
  ASSUME NestInv, ~Idle, stack' = Popped,
         \/ Top.pc \notin CancelPcs /\ UNCHANGED <<depth, canceled>>
         \/ Top.pc \in CancelPcs /\ LeaveCanceling
  PROVE  Stacked(stack') /\ CancelingNests'
<1>1. stack \in Seq(Frame) /\ depth = Cardinality(CancelingIn(stack)) /\ depth \in Nat
  BY CancelingFinite, NestParts DEF NestInv, TypeOK
<1>2. Stacked(stack')
  BY <1>1, StackedPop DEF NestInv
<1>3. depth' = Cardinality(CancelingIn(stack'))
  BY <1>1, CancelingPop DEF LeaveCanceling
<1>4. depth' = 0 => \A l \in Listeners : canceled'[l] = {}
  <2>1. CASE Top.pc \notin CancelPcs
    BY <2>1, NestParts DEF NestInv
  <2>2. CASE LeaveCanceling
    <3>1. depth' = 0 => depth = 1
      BY <1>1, <2>2 DEF LeaveCanceling
    <3> QED BY <2>2, <3>1 DEF LeaveCanceling
  <2> QED BY <2>1, <2>2
<1> QED BY <1>2, <1>3, <1>4, NestParts

\* The topmost loop advances, perhaps noting that it canceled a key.
LEMMA NestReplace ==
  ASSUME NestInv, ~Idle, NEW f \in Frame, FrameFine(f), stack' = Replaced(f), depth' = depth,
         f.pc = Top.pc, f.slot = Top.slot, f.lst = Top.lst, f.todo \subseteq Top.todo,
         UNCHANGED canceled \/ Top.pc \in {"cancel", "finalizeKeys"}
  PROVE  Stacked(stack') /\ CancelingNests'
<1>1. stack \in Seq(Frame) /\ TypeOK
  BY DEF NestInv, TypeOK
<1>2. Stacked(stack')
  BY <1>1, StackedReplace DEF NestInv
<1>3. depth' = Cardinality(CancelingIn(stack'))
  BY <1>1, CancelingReplace, NestParts DEF NestInv
<1>4. Top.pc \in {"cancel", "finalizeKeys"} => depth # 0
  <2>1. ASSUME Top.pc \in {"cancel", "finalizeKeys"} PROVE depth # 0
    <3>1. Len(stack) \in 1..Len(stack) /\ stack[Len(stack)].pc \in {"cancel", "finalizeKeys"}
      BY <1>1, <2>1, PoppedProps DEF Top
    <3>2. Len(stack) - 1 \in 1..Len(stack) /\ stack[Len(stack) - 1].pc \in CancelPcs
      BY <1>1, <3>1, CallerCancels DEF NestInv
    <3> QED BY <3>2, DeepEnough
  <2> QED BY <2>1
<1> QED BY <1>2, <1>3, <1>4, NestParts DEF NestInv

\* A loop over the devices calls the one of a device.
LEMMA NestVisit ==
  ASSUME NestInv, ~Idle, NEW f \in Frame, FrameFine(f), NEW g \in Frame, FrameFine(g), Above(f, g),
         stack' = Append(Replaced(f), g), UNCHANGED <<depth, canceled>>,
         f.pc = Top.pc, f.slot = Top.slot, f.lst = Top.lst, f.todo \subseteq Top.todo,
         g.pc \notin CancelPcs
  PROVE  Stacked(stack') /\ CancelingNests'
<1> DEFINE q == Replaced(f)
<1>1. stack \in Seq(Frame) /\ TypeOK
  BY DEF NestInv, TypeOK
<1>2. Stacked(q) /\ q \in Seq(Frame)
  BY <1>1, StackedReplace DEF NestInv
<1>3. q # <<>> /\ q[Len(q)] = f
  <2>1. /\ Len(stack) \in Nat \ {0} /\ Len(q) = Len(stack)
        /\ \A i \in 1..Len(stack) : q[i] = IF i = Len(stack) THEN f ELSE stack[i]
    BY <1>1, PoppedProps, ReplacedProps
  <2> HIDE DEF q
  <2> QED BY <2>1
<1>4. Cardinality(CancelingIn(q)) = depth
  BY <1>1, CancelingReplace, NestParts DEF NestInv
<1>5. stack' = Append(q, g)
  OBVIOUS
<1> HIDE DEF q
<1>6. Stacked(stack')
  BY <1>2, <1>3, <1>5, StackedPush
<1>7. Cardinality(CancelingIn(stack')) = depth'
  BY <1>2, <1>4, <1>5, CancelingPush
<1> QED BY <1>6, <1>7, NestParts DEF NestInv

\* The backend's calls.
LEMMA BackendNest ==
  ASSUME NestInv, NEW s \in Slots,
         \/ OnDeviceAdded(s) \/ OnDeviceRemoved(s)
         \/ \E k \in Keys : OnBluePress(s, k) \/ \E t \in Types : OnBlueRelease(s, k, t)
  PROVE  Stacked(stack') /\ CancelingNests'
<1>1. stack = <<>> /\ Idle
  BY DEF OnDeviceAdded, OnDeviceRemoved, OnBluePress, OnBlueRelease, Idle
<1>2. ASSUME NEW f \in Frame, FrameFine(f), Bottom(f), stack' = <<f>>,
             depth' = depth + Counted(f), UNCHANGED canceled
      PROVE  Stacked(stack') /\ CancelingNests'
  <2>1. stack' = Append(stack, f)
    BY <1>1, <1>2
  <2> QED BY <1>1, <1>2, <2>1, NestPush DEF Pushable
<1>3. UNCHANGED canceled
  BY DEF OnDeviceAdded, OnDeviceRemoved, OnBluePress, OnBlueRelease, lstVars
<1>4. depth \in Int
  BY DEF NestInv, TypeOK
<1>5. CASE OnDeviceAdded(s)
  <2>1. MgmtFrame \in Frame /\ FrameFine(MgmtFrame) /\ MgmtFrame.pc = "mgmt"
    BY FrameTypes, PushedFrames DEF NestInv
  <2>2. Bottom(MgmtFrame) /\ Counted(MgmtFrame) = 0
    BY <2>1 DEF Bottom, Counted, CancelPcs
  <2>3. stack' = <<MgmtFrame>> /\ depth' = depth
    BY <1>5 DEF OnDeviceAdded
  <2> QED BY <1>2, <1>3, <1>4, <2>1, <2>2, <2>3
<1>6. CASE \E k \in Keys : OnBluePress(s, k) \/ \E t \in Types : OnBlueRelease(s, k, t)
  <2>1. PICK k \in Keys, t \in Types, ls \in SUBSET Listeners :
          stack' = <<KeyFrame(s, k, t, ls)>> /\ depth' = depth
    BY <1>6 DEF OnBluePress, OnBlueRelease, Registered
  <2> DEFINE f == KeyFrame(s, k, t, ls)
  <2>2. f \in Frame
    BY FrameTypes DEF NestInv
  <2>3. FrameFine(f) /\ f.pc = "key"
    BY PushedFrames
  <2> HIDE DEF f
  <2>4. Bottom(f) /\ Counted(f) = 0
    BY <2>3 DEF Bottom, Counted, CancelPcs
  <2> QED BY <1>2, <1>3, <1>4, <2>1, <2>2, <2>3, <2>4 DEF f
<1>7. CASE OnDeviceRemoved(s)
  <2> DEFINE f == UnplugFrame(s)
             g == KeysFrame("cancel", s, Registered)
  <2>1. f \in Frame /\ g \in Frame
    BY FrameTypes DEF NestInv, Registered
  <2>2. FrameFine(f) /\ f.pc = "unplug" /\ f.slot = s
    BY PushedFrames
  <2>3. FrameFine(g) /\ g.pc = "cancel" /\ g.slot = s
    BY KeysFrames
  <2>4. depth' = depth + 1 /\ (stack' = <<f>> \/ stack' = <<f, g>>)
    BY <1>7 DEF OnDeviceRemoved
  <2> HIDE DEF f, g
  <2>5. /\ Bottom(f) /\ Counted(f) = 1 /\ Counted(g) = 0 /\ Above(f, g)
    BY <2>2, <2>3 DEF Bottom, Counted, CancelPcs, Above
  <2>6. CASE stack' = <<f>>
    BY <1>2, <1>3, <2>1, <2>2, <2>4, <2>5, <2>6
  <2>7. CASE stack' = <<f, g>>
    <3>1. stack' = Append(Append(stack, f), g)
      BY <1>1, <2>1, <2>7
    <3>2. depth' = depth + Counted(f) + Counted(g)
      BY <1>4, <2>4, <2>5
    <3> QED BY <1>1, <1>3, <2>1, <2>2, <2>3, <2>5, <3>1, <3>2, NestPushTwo DEF Pushable
  <2> QED BY <2>4, <2>6, <2>7
<1> QED BY <1>5, <1>6, <1>7

\* The manager's own canceling functions, called from the main loop or by a listener.
Deselects == stack' = Append(stack, DeselectFrame) /\ depth' = depth + 1
Selects(d) == /\ stack' = Append(Append(stack, SelectFrame(d)), DeselectFrame)
              /\ depth' = depth + 1
Finalizes(l) == stack' = Append(stack, FinalizeFrame(l)) /\ depth' = depth + 1

LEMMA CallsNest ==
  ASSUME NestInv, MayCall, UNCHANGED canceled,
         \/ UNCHANGED <<stack, depth>>
         \/ Deselects \/ (\E d \in Data : Selects(d)) \/ (\E l \in Listeners : Finalizes(l))
  PROVE  Stacked(stack') /\ CancelingNests'
<1>1. depth \in Int
  BY DEF NestInv, TypeOK
<1>2. CASE UNCHANGED <<stack, depth>>
  BY <1>2, NestParts DEF NestInv
<1>3. ASSUME NEW f \in Frame, FrameFine(f), f.pc \in {"deselect", "finalize", "select"}
      PROVE  Pushable(f)
  BY <1>3 DEF Pushable, Bottom, Above, MayCall
<1>4. CASE Deselects
  <2>1. /\ DeselectFrame \in Frame /\ FrameFine(DeselectFrame) /\ DeselectFrame.pc = "deselect"
    BY FrameTypes, PushedFrames DEF NestInv
  <2>2. Pushable(DeselectFrame) /\ Counted(DeselectFrame) = 1
    BY <1>3, <2>1 DEF Counted, CancelPcs
  <2> QED BY <1>4, <2>2, NestPush DEF Deselects
<1>5. ASSUME NEW l \in Listeners, Finalizes(l) PROVE Stacked(stack') /\ CancelingNests'
  <2> DEFINE f == FinalizeFrame(l)
  <2>1. f \in Frame /\ FrameFine(f) /\ f.pc = "finalize"
    BY FrameTypes, PushedFrames DEF NestInv
  <2>2. stack' = Append(stack, f) /\ depth' = depth + 1
    BY <1>5 DEF Finalizes
  <2> HIDE DEF f
  <2>3. Pushable(f) /\ Counted(f) = 1
    BY <1>3, <2>1 DEF Counted, CancelPcs
  <2> QED BY <2>2, <2>3, NestPush
<1>6. ASSUME NEW d \in Data, Selects(d) PROVE Stacked(stack') /\ CancelingNests'
  <2> DEFINE f == SelectFrame(d)
             g == DeselectFrame
  <2>1. f \in Frame /\ FrameFine(f) /\ f.pc = "select"
    BY FrameTypes, PushedFrames DEF NestInv
  <2>2. g \in Frame /\ FrameFine(g) /\ g.pc = "deselect"
    BY FrameTypes, PushedFrames DEF NestInv
  <2>3. stack' = Append(Append(stack, f), g) /\ depth' = depth + 1
    BY <1>6 DEF Selects
  <2> HIDE DEF f, g
  <2>4. Pushable(f) /\ Counted(f) = 0 /\ Counted(g) = 1 /\ Above(f, g)
    BY <1>3, <2>1, <2>2 DEF Counted, CancelPcs, Above
  <2>5. depth' = depth + Counted(f) + Counted(g)
    BY <1>1, <2>3, <2>4
  <2> QED BY <2>2, <2>3, <2>4, <2>5, NestPushTwo
<1> QED BY <1>2, <1>4, <1>5, <1>6

\* What the toolkit and the application do to the call stack.
LEMMA ToolkitCalls ==
  ASSUME TypeOK, NEW w \in Windows, OnIsActiveChanged(w) \/ DeleteWindow(w)
  PROVE  /\ MayCall /\ UNCHANGED canceled
         /\ UNCHANGED <<stack, depth>> \/ Deselects \/ (\E d \in Data : Selects(d))
<1>1. CASE OnIsActiveChanged(w)
  <2>1. MayCall /\ UNCHANGED canceled
    BY <1>1 DEF OnIsActiveChanged, MayCall, lstVars
  <2>2. tracked \subseteq Data
    BY DEF TypeOK
  <2>3. UNCHANGED <<stack, depth>> \/ Deselects \/ (\E d \in tracked : Selects(d))
    BY <1>1 DEF OnIsActiveChanged, Deselects, Selects
  <2> QED BY <2>1, <2>2, <2>3
<1>2. CASE DeleteWindow(w)
  BY <1>2 DEF DeleteWindow, lstVars
<1> QED BY <1>1, <1>2

LEMMA AddAccessorCalls ==
  ASSUME TypeOK, NEW w \in Windows, AddAccessor(w),
         NEW d, d = CHOOSE x \in Unused(w) : TRUE
  PROVE  /\ MayCall /\ UNCHANGED canceled
         /\ d \in Data /\ WindowOf(d) = w /\ d \notin Referenced
         /\ UNCHANGED <<stack, depth>> \/ Deselects \/ Selects(d)
<1>1. d \in Data /\ WindowOf(d) = w /\ d \notin Referenced
  BY DEF AddAccessor, Unused
<1>2. MayCall /\ UNCHANGED canceled
  BY DEF AddAccessor, lstVars
<1>3. UNCHANGED <<stack, depth>> \/ Deselects \/ Selects(d)
  BY DEF AddAccessor, ReplaceDeleted, Deselects, Selects
<1> QED BY <1>1, <1>2, <1>3

LEMMA ApplicationCalls ==
  ASSUME TypeOK, Application
  PROVE  /\ MayCall /\ UNCHANGED canceled
         /\ \/ UNCHANGED <<stack, depth>>
            \/ Deselects \/ (\E d \in Data : Selects(d)) \/ (\E l \in Listeners : Finalizes(l))
<1>1. ASSUME NEW w \in Windows, AddAccessor(w)
      PROVE  /\ MayCall /\ UNCHANGED canceled
             /\ UNCHANGED <<stack, depth>> \/ Deselects \/ (\E d \in Data : Selects(d))
  BY <1>1, AddAccessorCalls
<1>2. ASSUME NEW w \in Windows, RemoveAccessor(w)
      PROVE  MayCall /\ UNCHANGED canceled /\ (UNCHANGED <<stack, depth>> \/ Deselects)
  BY <1>2 DEF RemoveAccessor, RemoveData, Deselects, lstVars
<1>3. ASSUME NEW l \in Listeners, AddListener(l)
      PROVE  MayCall /\ UNCHANGED <<canceled, stack, depth>>
  BY <1>3 DEF AddListener
<1>4. ASSUME NEW l \in Listeners, NEW b \in BOOLEAN, RemoveListener(l, b)
      PROVE  MayCall /\ UNCHANGED canceled /\ (UNCHANGED <<stack, depth>> \/ Finalizes(l))
  BY <1>4 DEF RemoveListener, Finalizes
<1>5. ASSUME EnableKeyEvent PROVE MayCall /\ UNCHANGED <<canceled, stack, depth>>
  BY <1>5 DEF EnableKeyEvent
<1> QED BY <1>1, <1>2, <1>3, <1>4, <1>5 DEF Application

\* A loop over the devices reaches one.
LEMMA Visits ==
  ASSUME TypeOK, Stacked(stack), ~Idle, NEW s \in Top.slots, NEW pc, NEW ls \in SUBSET Listeners,
         \/ pc = "cancel" /\ Top.pc = "deselect"
         \/ pc = "finalizeKeys" /\ Top.pc = "finalize" /\ ls = {Top.lst},
         VisitDevice(s, pc, ls),
         NEW f, f = [Top EXCEPT !.slots = @ \ {s}], NEW g, g = KeysFrame(pc, s, ls)
  PROVE  /\ f \in Frame /\ FrameFine(f) /\ f.pc = Top.pc /\ f.slot = Top.slot
         /\ f.lst = Top.lst /\ f.todo = Top.todo /\ f.slots = Top.slots \ {s}
         /\ g \in Frame /\ FrameFine(g) /\ g.pc = pc /\ g.slot = s /\ s \in Slots
         /\ g.todo = pressed[s] \X ls
         /\ g.heard = {p \in pressed[s] \X ls : p[2] \in audience[s][p[1]]}
         /\ Above(f, g)
         /\ \/ UNCHANGED stack /\ fault'
            \/ stack' = Replaced(f) /\ ~(keyEventOn /\ selected # None)
            \/ stack' = Append(Replaced(f), g) /\ keyEventOn /\ selected # None
<1>1. /\ f \in Frame /\ FrameFine(f) /\ f.pc = Top.pc /\ f.slot = Top.slot
      /\ f.lst = Top.lst /\ f.todo = Top.todo /\ f.slots = Top.slots \ {s}
  BY TopAdvances
<1>2. s \in Slots
  BY TopAdvances DEF Frame
<1>3. g \in Frame
  BY <1>2, FrameTypes
<1>4. /\ FrameFine(g) /\ g.pc = pc /\ g.slot = s
      /\ g.todo = pressed[s] \X ls
      /\ g.heard = {p \in pressed[s] \X ls : p[2] \in audience[s][p[1]]}
      /\ \A p \in g.todo : p[2] \in ls
  BY <1>2, KeysFrames
<1>5. Above(f, g)
  BY <1>1, <1>4 DEF Above
<1>6. \/ UNCHANGED stack /\ fault'
      \/ stack' = Replaced(f) /\ ~(keyEventOn /\ selected # None)
      \/ stack' = Append(Replaced(f), g) /\ keyEventOn /\ selected # None
  BY DEF VisitDevice
<1> QED BY <1>1, <1>2, <1>3, <1>4, <1>5, <1>6

\* A key is canceled for a listener, or skipped.
LEMMA Cancels ==
  ASSUME TypeOK, Stacked(stack), ~Idle, Top.pc \in {"cancel", "finalizeKeys"},
         NEW p \in Top.todo, CancelOne(p)
  PROVE  \E f \in Frame : /\ FrameFine(f) /\ stack' = Replaced(f)
                          /\ f.pc = Top.pc /\ f.slot = Top.slot /\ f.lst = Top.lst
                          /\ f.todo = Top.todo \ {p} /\ f.heard = Top.heard
<1> DEFINE F == {[Top EXCEPT !.todo = @ \ {p}], [Top EXCEPT !.todo = @ \ {p}, !.cb = TRUE]}
<1>1. \A f \in F : /\ f \in Frame /\ FrameFine(f) /\ f.pc = Top.pc /\ f.slot = Top.slot
                   /\ f.lst = Top.lst /\ f.todo = Top.todo \ {p} /\ f.heard = Top.heard
  BY TopAdvances, Zenon
<1>2. \E f \in F : stack' = Replaced(f)
  BY DEF CancelOne
<1> HIDE DEF F
<1> QED BY <1>1, <1>2

\* A loop over listeners calls the next one.
LEMMA Calls ==
  ASSUME TypeOK, Stacked(stack), ~Idle, Top.pc \in {"key", "mgmt"}, NEW l \in Top.ls,
         stack' = Replaced([Top EXCEPT !.ls = @ \ {l}, !.cb = TRUE])
  PROVE  \E f \in Frame : /\ FrameFine(f) /\ stack' = Replaced(f)
                          /\ f.pc = Top.pc /\ f.slot = Top.slot /\ f.lst = Top.lst
                          /\ f.todo = Top.todo /\ f.key = Top.key /\ f.type = Top.type
                          /\ f.ls = Top.ls \ {l}
  BY TopAdvances

\* onDeviceRemoved() is called from the main loop only.
LEMMA UnplugAtBottom ==
  ASSUME TypeOK, Stacked(stack), ~Idle, Top.pc = "unplug"
  PROVE  Len(stack) = 1
<1>1. stack \in Seq(Frame) /\ Len(stack) \in Nat \ {0} /\ Top = stack[Len(stack)]
  BY PoppedProps DEF TypeOK, Top
<1>2. ASSUME Len(stack) # 1 PROVE FALSE
  <2> DEFINE n == Len(stack)
  <2>1. n \in Nat \ {0} /\ n # 1
    BY <1>1, <1>2
  <2>2. Above(stack[n - 1], Top)
    <3> HIDE DEF n
    <3>1. n - 1 \in 1..(n - 1) /\ (n - 1) + 1 = n
      BY <2>1
    <3> USE DEF n
    <3>2. Above(stack[n - 1], stack[(n - 1) + 1])
      BY <3>1 DEF Stacked
    <3> QED BY <1>1, <3>1, <3>2
  <2> QED BY <2>2 DEF Above
<1> QED BY <1>2

LEMMA StepNest ==
  ASSUME NestInv, Step
  PROVE  Stacked(stack') /\ CancelingNests'
<1>1. ~Idle /\ TypeOK /\ Stacked(stack)
  BY DEF Step, NestInv
<1>2. CASE KeyStep \/ MgmtStep
  <2>1. Top.pc \in {"key", "mgmt"} /\ UNCHANGED <<depth, canceled>>
    BY <1>2 DEF KeyStep, MgmtStep, lstVars
  <2>2. stack' = Popped \/ \E l \in Top.ls : stack' = Replaced([Top EXCEPT !.ls = @ \ {l}, !.cb = TRUE])
    BY <1>2 DEF KeyStep, MgmtStep, Return
  <2>3. CASE stack' = Popped
    BY <1>1, <2>1, <2>3, NestPop DEF CancelPcs
  <2>4. ASSUME NEW l \in Top.ls, stack' = Replaced([Top EXCEPT !.ls = @ \ {l}, !.cb = TRUE])
        PROVE  Stacked(stack') /\ CancelingNests'
    <3>1. PICK f \in Frame : /\ FrameFine(f) /\ stack' = Replaced(f)
                             /\ f.pc = Top.pc /\ f.slot = Top.slot /\ f.lst = Top.lst
                             /\ f.todo = Top.todo
      BY <1>1, <2>1, <2>4, Calls
    <3> QED BY <1>1, <2>1, <3>1, NestReplace
  <2> QED BY <2>2, <2>3, <2>4
<1>3. CASE CancelStep \/ FinalizeKeysStep
  <2>1. Top.pc \in {"cancel", "finalizeKeys"} /\ UNCHANGED depth
    BY <1>3 DEF CancelStep, FinalizeKeysStep
  <2>2. (stack' = Popped /\ UNCHANGED canceled) \/ \E p \in Top.todo : CancelOne(p)
    BY <1>3 DEF CancelStep, FinalizeKeysStep, Return
  <2>3. CASE stack' = Popped /\ UNCHANGED canceled
    BY <1>1, <2>1, <2>3, NestPop DEF CancelPcs
  <2>4. ASSUME NEW p \in Top.todo, CancelOne(p) PROVE Stacked(stack') /\ CancelingNests'
    <3>1. PICK f \in Frame : /\ FrameFine(f) /\ stack' = Replaced(f)
                             /\ f.pc = Top.pc /\ f.slot = Top.slot /\ f.lst = Top.lst
                             /\ f.todo = Top.todo \ {p}
      BY <1>1, <2>1, <2>4, Cancels
    <3> QED BY <1>1, <2>1, <3>1, NestReplace
  <2> QED BY <2>2, <2>3, <2>4
<1>4. CASE DeselectStep \/ FinalizeStep
  <2>1. /\ Top.pc \in {"deselect", "finalize"}
        /\ \/ stack' = Popped /\ LeaveCanceling
           \/ /\ UNCHANGED <<depth, canceled>>
              /\ \E s \in Top.slots, pc \in {"cancel", "finalizeKeys"}, ls \in SUBSET Listeners :
                   /\ \/ pc = "cancel" /\ Top.pc = "deselect"
                      \/ pc = "finalizeKeys" /\ Top.pc = "finalize" /\ ls = {Top.lst}
                   /\ VisitDevice(s, pc, ls)
    <3>1. Top.pc = "finalize" => Listeners \cap {Top.lst} = {Top.lst}
      BY <1>1, TopAdvances DEF FrameFine
    <3>2. Registered \in SUBSET Listeners
      BY DEF Registered
    <3>3. CASE DeselectStep
      BY <3>2, <3>3 DEF DeselectStep, Return
    <3>4. CASE FinalizeStep
      <4>1. Top.pc = "finalize" /\ {Top.lst} \in SUBSET Listeners
        BY <3>1, <3>4 DEF FinalizeStep
      <4> QED BY <3>1, <3>4, <4>1 DEF FinalizeStep, Return
    <3> QED BY <1>4, <3>3, <3>4
  <2>2. CASE stack' = Popped /\ LeaveCanceling
    BY <1>1, <2>1, <2>2, NestPop DEF CancelPcs
  <2>3. ASSUME UNCHANGED <<depth, canceled>>,
               NEW s \in Top.slots, NEW pc \in {"cancel", "finalizeKeys"},
               NEW ls \in SUBSET Listeners,
               \/ pc = "cancel" /\ Top.pc = "deselect"
               \/ pc = "finalizeKeys" /\ Top.pc = "finalize" /\ ls = {Top.lst},
               VisitDevice(s, pc, ls)
        PROVE  Stacked(stack') /\ CancelingNests'
    <3> DEFINE f == [Top EXCEPT !.slots = @ \ {s}]
               g == KeysFrame(pc, s, ls)
    <3>1. /\ f \in Frame /\ FrameFine(f) /\ f.pc = Top.pc /\ f.slot = Top.slot
          /\ f.lst = Top.lst /\ f.todo = Top.todo
          /\ g \in Frame /\ FrameFine(g) /\ g.pc = pc /\ Above(f, g)
          /\ stack' = stack \/ stack' = Replaced(f) \/ stack' = Append(Replaced(f), g)
      BY <1>1, <2>3, Visits
    <3> HIDE DEF f, g
    <3>2. CASE stack' = stack
      BY <2>3, <3>2, NestParts DEF NestInv
    <3>3. CASE stack' = Replaced(f)
      BY <1>1, <2>3, <3>1, <3>3, NestReplace
    <3>4. CASE stack' = Append(Replaced(f), g)
      BY <1>1, <2>3, <3>1, <3>4, NestVisit DEF CancelPcs
    <3> QED BY <3>1, <3>2, <3>3, <3>4
  <2> QED BY <2>1, <2>2, <2>3
<1>5. CASE SelectStep
  <2>1. Top.pc = "select" /\ stack' = Popped /\ UNCHANGED <<depth, canceled>>
    BY <1>5 DEF SelectStep, Return, lstVars
  <2> QED BY <1>1, <2>1, NestPop DEF CancelPcs
<1>6. CASE UnplugStep
  <2>1. Top.pc = "unplug" /\ LeaveCanceling /\ stack' = Replaced(MgmtFrame)
    BY <1>6 DEF UnplugStep
  <2>2. stack \in Seq(Frame) /\ Len(stack) = 1 /\ stack[1].pc = "unplug"
    BY <1>1, <2>1, UnplugAtBottom DEF TypeOK, Top
  <2>3. MgmtFrame \in Frame /\ FrameFine(MgmtFrame) /\ MgmtFrame.pc = "mgmt"
    BY <1>1, FrameTypes, PushedFrames
  <2>4. Len(stack') = 1 /\ stack'[1] = MgmtFrame
    BY <1>1, <2>1, <2>2, <2>3, ReplacedProps
  <2>5. Stacked(stack')
    BY <2>3, <2>4 DEF Stacked, Bottom
  <2>6. depth = 1
    <3>1. CancelingIn(stack) = {1}
      BY <2>2 DEF CancelingIn, CancelPcs
    <3> QED BY <3>1, FS_Singleton, NestParts DEF NestInv
  <2>7. depth' = Cardinality(CancelingIn(stack'))
    <3>1. CancelingIn(stack') = {}
      BY <2>3, <2>4 DEF CancelingIn, CancelPcs
    <3>2. depth' = 0
      BY <2>1, <2>6 DEF LeaveCanceling
    <3>3. Cardinality({}) = 0
      BY FS_EmptySet, Zenon
    <3> QED BY <3>1, <3>2, <3>3
  <2> QED BY <2>1, <2>5, <2>6, <2>7, NestParts DEF LeaveCanceling
<1> QED BY <1>2, <1>3, <1>4, <1>5, <1>6 DEF Step

LEMMA NestInvariance == Spec => []NestInv
<1>1. Init => Stacked(stack) /\ CancelingNests
  <2> SUFFICES ASSUME Init PROVE Stacked(stack) /\ CancelingNests
    OBVIOUS
  <2>1. stack = <<>> /\ depth = 0 /\ \A l \in Listeners : canceled[l] = {}
    BY DEF Init
  <2>2. CancelingIn(stack) = {} /\ Stacked(stack)
    BY <2>1 DEF CancelingIn, Stacked
  <2>3. Cardinality({}) = 0
    BY FS_EmptySet, Zenon
  <2> QED BY <2>1, <2>2, <2>3, NestParts
<1>2. TypeOK /\ (Stacked(stack) /\ CancelingNests) /\ [Next]_vars
        => (Stacked(stack) /\ CancelingNests)'
  <2> SUFFICES ASSUME NestInv, [Next]_vars PROVE Stacked(stack') /\ CancelingNests'
    BY DEF NestInv, Stacked, Bottom
  <2>1. CASE Step
    BY <2>1, StepNest
  <2>2. CASE Backend
    BY <2>2, BackendNest DEF Backend
  <2>3. CASE Toolkit
    BY <2>3, ToolkitCalls, CallsNest DEF Toolkit, NestInv
  <2>4. CASE Application
    BY <2>4, ApplicationCalls, CallsNest DEF NestInv
  <2>5. CASE UNCHANGED vars
    BY <2>5, NestParts DEF vars, lstVars, NestInv
  <2> QED BY <2>1, <2>2, <2>3, <2>4, <2>5 DEF Next, Dead
<1> QED BY <1>1, <1>2, TypeCorrect, PTL DEF Spec, NestInv

\* However listeners nest their calls, m_nCancelingNestedDepth counts the
\* canceling functions that run, and no canceled key is left when the last returns.
THEOREM CancelingIsNested == Spec => []CancelingNests
  BY NestInvariance, PTL DEF NestInv

-----------------------------------------------------------------------------
(* The selected window.                                                    *)

\* The window data to be selected when the functions on the call stack q go
\* on, and whether one of these is deselectAccessor().
WaitingIn(q) == {q[i].data : i \in {j \in 1..Len(q) : q[j].pc = "select"}}
DeselectingIn(q) == \E i \in 1..Len(q) : q[i].pc = "deselect"

LEMMA ShapePush ==
  ASSUME NEW q \in Seq(Frame), NEW f \in Frame
  PROVE  /\ WaitingIn(Append(q, f)) \subseteq
              WaitingIn(q) \cup (IF f.pc = "select" THEN {f.data} ELSE {})
         /\ DeselectingIn(q) \/ f.pc = "deselect" => DeselectingIn(Append(q, f))
<1> DEFINE r == Append(q, f)
           n == Len(q) + 1
<1>1. /\ Len(r) = n /\ r[n] = f /\ \A i \in 1..Len(q) : r[i] = q[i]
      /\ Len(q) \in Nat
  BY AppendProps
<1> HIDE DEF r
<1>2. \A i : i \in 1..Len(r) <=> i \in 1..Len(q) \/ i = n
  BY <1>1
<1>3. WaitingIn(r) \subseteq WaitingIn(q) \cup (IF f.pc = "select" THEN {f.data} ELSE {})
  BY <1>1, <1>2 DEF WaitingIn
<1>4. DeselectingIn(q) \/ f.pc = "deselect" => DeselectingIn(r)
  BY <1>1, <1>2 DEF DeselectingIn
<1> QED BY <1>3, <1>4 DEF r

LEMMA ShapePop ==
  ASSUME stack \in Seq(Frame), ~Idle
  PROVE  /\ WaitingIn(Popped) \subseteq WaitingIn(stack)
         /\ DeselectingIn(stack) => Top.pc = "deselect" \/ DeselectingIn(Popped)
<1> DEFINE n == Len(stack)
           r == Popped
<1>1. /\ n \in Nat \ {0} /\ Len(r) = n - 1 /\ Top = stack[n]
      /\ \A i \in 1..Len(r) : r[i] = stack[i]
  BY PoppedProps DEF Top
<1>2. \A i : i \in 1..n <=> i \in 1..Len(r) \/ i = n
  BY <1>1
<1> HIDE DEF r
<1>3. WaitingIn(r) \subseteq WaitingIn(stack)
  BY <1>1, <1>2 DEF WaitingIn
<1>4. DeselectingIn(stack) => Top.pc = "deselect" \/ DeselectingIn(r)
  BY <1>1, <1>2 DEF DeselectingIn
<1> QED BY <1>3, <1>4 DEF r

LEMMA ShapeReplace ==
  ASSUME stack \in Seq(Frame), ~Idle, NEW f \in Frame, f.pc # "select",
         f.pc = Top.pc \/ Top.pc # "deselect"
  PROVE  /\ WaitingIn(Replaced(f)) \subseteq WaitingIn(stack)
         /\ DeselectingIn(stack) => DeselectingIn(Replaced(f))
<1> DEFINE n == Len(stack)
           r == Replaced(f)
<1>1. /\ n \in Nat \ {0} /\ Len(r) = n /\ Top = stack[n]
      /\ \A i \in 1..n : r[i] = IF i = n THEN f ELSE stack[i]
      /\ r[n] = f
  BY PoppedProps, ReplacedProps DEF Top
<1> HIDE DEF r
<1>2. WaitingIn(r) \subseteq WaitingIn(stack)
  BY <1>1 DEF WaitingIn
<1>3. DeselectingIn(stack) => DeselectingIn(r)
  BY <1>1 DEF DeselectingIn
<1> QED BY <1>2, <1>3 DEF r

\* Above a function that waits to select is the deselectAccessor() it waits for.
LEMMA OverSelect ==
  ASSUME TypeOK, Stacked(stack), ~Idle, Popped # <<>>, Popped[Len(Popped)].pc = "select"
  PROVE  Top.pc = "deselect"
<1> DEFINE n == Len(stack)
<1>1. /\ n \in Nat \ {0} /\ Len(Popped) = n - 1 /\ Top = stack[n] /\ Popped \in Seq(Frame)
      /\ \A i \in 1..Len(Popped) : Popped[i] = stack[i]
  BY PoppedProps DEF TypeOK, Top
<1>2. Len(Popped) # 0
  BY <1>1
<1>3. n - 1 \in 1..(n - 1) /\ (n - 1) + 1 = n /\ n - 1 \in 1..n
  <2> HIDE DEF n
  <2> QED BY <1>1, <1>2
<1>4. Above(stack[n - 1], stack[(n - 1) + 1]) /\ FrameFine(stack[n - 1])
  BY <1>3 DEF Stacked
<1>5. Popped[n - 1] = stack[n - 1] /\ stack[(n - 1) + 1] = Top
  BY <1>1, <1>3
<1> QED BY <1>1, <1>4, <1>5 DEF Above, FrameFine

\* While addAccessor() or onIsActiveChanged() goes on to select, none is selected.
NoneAtSelect == ~Idle /\ Top.pc = "select" => selected = None

\* What a loop's iteration does to the selection.
StepKeeps ==
  /\ UNCHANGED <<tracked, active, deleted>> /\ calls'.ever = calls.ever
  /\ calls' = calls \/ stack' = <<>>
  /\ WaitingIn(stack') \subseteq WaitingIn(stack)
  /\ \/ selected' = None
     \/ selected' = selected /\ (DeselectingIn(stack) => DeselectingIn(stack'))
     \/ Top.pc = "select" /\ selected' \in WaitingIn(stack)
  /\ NoneAtSelect'

LEMMA ReturnKeeps ==
  ASSUME TypeOK, Stacked(stack), ~Idle, Return, UNCHANGED <<tracked, active, deleted>>,
         \/ Top.pc = "deselect" /\ selected' = None
         \/ Top.pc = "select" /\ selected' = Top.data
         \/ Top.pc \notin {"deselect", "select"} /\ selected' = selected
  PROVE  StepKeeps
<1>1. /\ stack \in Seq(Frame) /\ Len(stack) \in Nat \ {0} /\ Len(Popped) = Len(stack) - 1
      /\ Popped \in Seq(Frame) /\ Top = stack[Len(stack)]
  BY PoppedProps DEF TypeOK, Top
<1>2. stack' = Popped /\ calls'.ever = calls.ever
  BY DEF Return, TypeOK
<1>3. calls' = calls \/ stack' = <<>>
  <2>1. CASE Len(stack) = 1
    <3>1. Len(Popped) = 0
      BY <1>1, <2>1
    <3> QED BY <1>1, <1>2, <3>1
  <2> QED BY <2>1 DEF Return
<1>4. /\ WaitingIn(stack') \subseteq WaitingIn(stack)
      /\ DeselectingIn(stack) => Top.pc = "deselect" \/ DeselectingIn(stack')
  BY <1>1, <1>2, ShapePop
<1>5. Top.pc = "select" => Top.data \in WaitingIn(stack)
  BY <1>1 DEF WaitingIn
<1>6. NoneAtSelect'
  <2>1. ASSUME stack' # <<>>, stack'[Len(stack')].pc = "select" PROVE selected' = None
    <3>1. Popped # <<>> /\ Popped[Len(Popped)].pc = "select"
      BY <1>2, <2>1
    <3>2. Top.pc = "deselect"
      BY <3>1, OverSelect
    <3> QED BY <3>2
  <2> QED BY <2>1 DEF NoneAtSelect, Idle, Top
<1> QED BY <1>2, <1>3, <1>4, <1>5, <1>6 DEF StepKeeps

LEMMA AdvanceKeeps ==
  ASSUME TypeOK, ~Idle, NEW f \in Frame, f.pc # "select",
         f.pc = Top.pc \/ Top.pc # "deselect", UNCHANGED <<tracked, active, deleted, selected, calls>>,
         \/ stack' = Replaced(f)
         \/ \E g \in Frame : g.pc # "select" /\ stack' = Append(Replaced(f), g)
  PROVE  StepKeeps
<1> DEFINE q == Replaced(f)
<1>1. /\ stack \in Seq(Frame) /\ Len(stack) \in Nat \ {0} /\ q \in Seq(Frame)
      /\ Len(q) = Len(stack)
      /\ \A i \in 1..Len(stack) : q[i] = IF i = Len(stack) THEN f ELSE stack[i]
  BY PoppedProps, ReplacedProps DEF TypeOK
<1>2. WaitingIn(q) \subseteq WaitingIn(stack) /\ (DeselectingIn(stack) => DeselectingIn(q))
  BY <1>1, ShapeReplace
<1> HIDE DEF q
<1>3. /\ WaitingIn(stack') \subseteq WaitingIn(stack)
      /\ DeselectingIn(stack) => DeselectingIn(stack')
      /\ stack' # <<>> /\ stack'[Len(stack')].pc # "select"
  <2>1. CASE stack' = q
    <3>1. Len(stack) \in 1..Len(stack) /\ q # <<>>
      BY <1>1
    <3> QED BY <1>1, <1>2, <2>1, <3>1
  <2>2. ASSUME NEW g \in Frame, g.pc # "select", stack' = Append(q, g)
        PROVE  /\ WaitingIn(stack') \subseteq WaitingIn(stack)
               /\ DeselectingIn(stack) => DeselectingIn(stack')
               /\ stack' # <<>> /\ stack'[Len(stack')].pc # "select"
    <3>1. stack' # <<>> /\ stack'[Len(stack')].pc # "select"
      BY <1>1, <2>2
    <3>2. /\ WaitingIn(stack') \subseteq WaitingIn(q)
          /\ DeselectingIn(q) => DeselectingIn(stack')
      BY <1>1, <2>2, ShapePush
    <3> QED BY <1>2, <3>1, <3>2
  <2> QED BY <2>1, <2>2 DEF q
<1> QED BY <1>3 DEF StepKeeps, NoneAtSelect, Idle, Top

LEMMA StepSelection ==
  ASSUME TypeOK, Stacked(stack), Step
  PROVE  StepKeeps
<1>1. ~Idle
  BY DEF Step
<1>2. CASE KeyStep \/ MgmtStep
  <2>1. /\ Top.pc \in {"key", "mgmt"} /\ UNCHANGED <<tracked, active, deleted, selected>>
        /\ \/ Return
           \/ /\ UNCHANGED calls
              /\ \E l \in Top.ls : stack' = Replaced([Top EXCEPT !.ls = @ \ {l}, !.cb = TRUE])
    BY <1>2 DEF KeyStep, MgmtStep, winVars, toolkitVars
  <2>2. CASE Return
    BY <1>1, <2>1, <2>2, ReturnKeeps
  <2>3. ASSUME NEW l \in Top.ls, stack' = Replaced([Top EXCEPT !.ls = @ \ {l}, !.cb = TRUE]),
               UNCHANGED calls
        PROVE  StepKeeps
    <3>1. PICK f \in Frame : f.pc = Top.pc /\ stack' = Replaced(f)
      BY <1>1, <2>1, <2>3, Calls
    <3> QED BY <1>1, <2>1, <2>3, <3>1, AdvanceKeeps
  <2> QED BY <2>1, <2>2, <2>3
<1>3. CASE CancelStep \/ FinalizeKeysStep
  <2>1. /\ Top.pc \in {"cancel", "finalizeKeys"} /\ UNCHANGED <<tracked, active, deleted, selected>>
        /\ \/ Return
           \/ UNCHANGED calls /\ \E p \in Top.todo : CancelOne(p)
    BY <1>3 DEF CancelStep, FinalizeKeysStep, winVars, toolkitVars
  <2>2. CASE Return
    BY <1>1, <2>1, <2>2, ReturnKeeps
  <2>3. ASSUME NEW p \in Top.todo, CancelOne(p), UNCHANGED calls
        PROVE  StepKeeps
    <3>1. PICK f \in Frame : f.pc = Top.pc /\ stack' = Replaced(f)
      BY <1>1, <2>1, <2>3, Cancels
    <3> QED BY <1>1, <2>1, <2>3, <3>1, AdvanceKeeps
  <2> QED BY <2>1, <2>2, <2>3
<1>4. CASE DeselectStep \/ FinalizeStep
  <2>1. Registered \in SUBSET Listeners /\ Listeners \cap {Top.lst} \in SUBSET Listeners
    BY DEF Registered
  <2>2. /\ Top.pc \in {"deselect", "finalize"} /\ UNCHANGED <<tracked, active, deleted>>
        /\ \/ Return /\ (Top.pc = "deselect" => selected' = None)
                     /\ (Top.pc = "finalize" => selected' = selected)
           \/ /\ UNCHANGED <<selected, calls>>
              /\ \E s \in Top.slots, pc \in {"cancel", "finalizeKeys"}, ls \in SUBSET Listeners :
                   VisitDevice(s, pc, ls)
    <3>1. CASE DeselectStep
      BY <2>1, <3>1 DEF DeselectStep, toolkitVars
    <3>2. CASE FinalizeStep
      BY <2>1, <3>2 DEF FinalizeStep, winVars, toolkitVars
    <3> QED BY <1>4, <3>1, <3>2
  <2>3. CASE Return /\ (Top.pc = "deselect" => selected' = None)
                    /\ (Top.pc = "finalize" => selected' = selected)
    BY <1>1, <2>2, <2>3, ReturnKeeps
  <2>4. ASSUME NEW s \in Top.slots, NEW pc \in {"cancel", "finalizeKeys"},
               NEW ls \in SUBSET Listeners, VisitDevice(s, pc, ls), UNCHANGED <<selected, calls>>
        PROVE  StepKeeps
    <3> DEFINE f == [Top EXCEPT !.slots = @ \ {s}]
               g == KeysFrame(pc, s, ls)
    <3>1. f \in Frame /\ f.pc = Top.pc
      BY <1>1, <2>2, TopAdvances
    <3>2. s \in Slots
      BY <1>1, TopAdvances DEF Frame
    <3>3. g \in Frame /\ g.pc # "select"
      BY <3>2, FrameTypes, KeysFrames
    <3>4. stack' = stack \/ stack' = Replaced(f) \/ stack' = Append(Replaced(f), g)
      BY <2>4 DEF VisitDevice
    <3> HIDE DEF f, g
    <3>5. CASE stack' = stack
      <4>1. NoneAtSelect'
        BY <2>2, <3>5 DEF NoneAtSelect, Idle, Top
      <4> QED BY <2>2, <2>4, <3>5, <4>1 DEF StepKeeps
    <3> QED BY <1>1, <2>2, <2>4, <3>1, <3>3, <3>4, <3>5, AdvanceKeeps
  <2> QED BY <2>2, <2>3, <2>4
<1>5. CASE SelectStep
  BY <1>1, <1>5, ReturnKeeps DEF SelectStep, winVars, toolkitVars
<1>6. CASE UnplugStep
  <2>1. MgmtFrame \in Frame /\ MgmtFrame.pc = "mgmt"
    BY FrameTypes, PushedFrames
  <2>2. /\ Top.pc = "unplug" /\ UNCHANGED <<tracked, active, deleted, selected, calls>>
        /\ stack' = Replaced(MgmtFrame)
    BY <1>6 DEF UnplugStep, winVars, toolkitVars
  <2> QED BY <1>1, <2>1, <2>2, AdvanceKeeps
<1> QED BY <1>2, <1>3, <1>4, <1>5, <1>6 DEF Step

\* A call of the toolkit, the application or a listener leaves deselecting
\* functions running, and the one that called it has nothing to select.
LEMMA CallShape ==
  ASSUME TypeOK, Stacked(stack), MayCall,
         \/ UNCHANGED stack \/ Deselects
         \/ (\E d \in Data : Selects(d)) \/ (\E l \in Listeners : Finalizes(l))
  PROVE  /\ NoneAtSelect'
         /\ DeselectingIn(stack) => DeselectingIn(stack')
         /\ Deselects => WaitingIn(stack') \subseteq WaitingIn(stack) /\ DeselectingIn(stack')
         /\ \A d \in Data : Selects(d) =>
              WaitingIn(stack') \subseteq WaitingIn(stack) \cup {d} /\ DeselectingIn(stack')
         /\ \A l \in Listeners : Finalizes(l) => WaitingIn(stack') \subseteq WaitingIn(stack)
<1>1. stack \in Seq(Frame)
  BY DEF TypeOK
<1>2. ASSUME NEW q \in Seq(Frame), NEW f \in Frame, f.pc # "select", stack' = Append(q, f)
      PROVE  /\ NoneAtSelect'
             /\ WaitingIn(stack') \subseteq WaitingIn(q)
             /\ DeselectingIn(q) \/ f.pc = "deselect" => DeselectingIn(stack')
  <2>1. stack'[Len(stack')] = f
    BY <1>2
  <2> QED BY <1>2, <2>1, ShapePush DEF NoneAtSelect, Top
<1>3. DeselectFrame \in Frame /\ DeselectFrame.pc = "deselect"
  BY FrameTypes, PushedFrames
<1>4. ASSUME Deselects
      PROVE  /\ NoneAtSelect' /\ WaitingIn(stack') \subseteq WaitingIn(stack)
             /\ DeselectingIn(stack')
  BY <1>1, <1>2, <1>3, <1>4 DEF Deselects
<1>5. ASSUME NEW d \in Data, Selects(d)
      PROVE  /\ NoneAtSelect' /\ WaitingIn(stack') \subseteq WaitingIn(stack) \cup {d}
             /\ DeselectingIn(stack')
  <2> DEFINE f == SelectFrame(d)
             q == Append(stack, f)
  <2>1. f \in Frame /\ f.data = d
    BY FrameTypes, PushedFrames
  <2>2. q \in Seq(Frame) /\ stack' = Append(q, DeselectFrame)
    BY <1>1, <1>5, <2>1 DEF Selects
  <2>3. WaitingIn(q) \subseteq WaitingIn(stack) \cup {d}
    <3> HIDE DEF f
    <3> QED BY <1>1, <2>1, ShapePush
  <2> HIDE DEF q
  <2> QED BY <1>2, <1>3, <2>2, <2>3
<1>6. ASSUME NEW l \in Listeners, Finalizes(l)
      PROVE  /\ NoneAtSelect' /\ WaitingIn(stack') \subseteq WaitingIn(stack)
             /\ DeselectingIn(stack) => DeselectingIn(stack')
  <2> DEFINE f == FinalizeFrame(l)
  <2>1. f \in Frame /\ f.pc = "finalize" /\ stack' = Append(stack, f)
    BY <1>6, FrameTypes, PushedFrames DEF Finalizes
  <2> HIDE DEF f
  <2> QED BY <1>1, <1>2, <2>1
<1>7. ASSUME UNCHANGED stack PROVE NoneAtSelect'
  <2>1. ~Idle => FrameFine(Top)
    BY TopAdvances
  <2> QED BY <1>7, <2>1 DEF MayCall, FrameFine, NoneAtSelect, Idle, Top
<1> QED BY <1>4, <1>5, <1>6, <1>7

-----------------------------------------------------------------------------
(* The selected window is a tracked and active one.                        *)

TrackedOnce == \A d, e \in tracked : WindowOf(d) = WindowOf(e) => d = e

\* d is tracked, and its window active unless it was destroyed.
Current(d) == d \in tracked /\ (active[WindowOf(d)] \/ deleted[WindowOf(d)])

\* Until a listener calls the manager: the selected window data is current
\* unless it is being deselected, and those to be selected next are current.
CurrentInv ==
  /\ TypeOK /\ Stacked(stack)
  /\ TrackedOnce
  /\ ~calls.ever => /\ selected # None => Current(selected) \/ DeselectingIn(stack)
                    /\ \A d \in WaitingIn(stack) : Current(d)
  /\ SelectedIsFound

LEMMA IdleShape ==
  ASSUME Idle
  PROVE  WaitingIn(stack) = {} /\ ~DeselectingIn(stack)
  BY DEF Idle, WaitingIn, DeselectingIn

\* The backend's calls leave the selection alone.
LEMMA BackendSelection ==
  ASSUME TypeOK, ~fault, Backend
  PROVE  /\ Idle /\ UNCHANGED <<selected, tracked, active, deleted, calls, fault>>
         /\ WaitingIn(stack') = {} /\ NoneAtSelect'
<1>1. PICK s \in Slots :
        \/ OnDeviceAdded(s) \/ OnDeviceRemoved(s)
        \/ \E k \in Keys : OnBluePress(s, k) \/ \E t \in Types : OnBlueRelease(s, k, t)
  BY DEF Backend
<1>2. Idle /\ UNCHANGED <<selected, tracked, active, deleted, calls, fault>>
  BY <1>1 DEF OnDeviceAdded, OnDeviceRemoved, OnBluePress, OnBlueRelease, winVars, toolkitVars
<1>3. \A i \in 1..Len(stack') : stack'[i].pc # "select"
  <2> DEFINE f == UnplugFrame(s)
             g == KeysFrame("cancel", s, Registered)
  <2>1. MgmtFrame.pc = "mgmt" /\ f.pc = "unplug" /\ g.pc = "cancel"
    BY PushedFrames, KeysFrames
  <2>2. \A k \in Keys : \A t, ls : KeyFrame(s, k, t, ls).pc = "key"
    BY PushedFrames
  <2>3. \/ stack' = <<MgmtFrame>> \/ stack' = <<f>> \/ stack' = <<f, g>>
        \/ \E k \in Keys : \E t, ls : stack' = <<KeyFrame(s, k, t, ls)>>
    BY <1>1 DEF OnDeviceAdded, OnDeviceRemoved, OnBluePress, OnBlueRelease
  <2> HIDE DEF f, g
  <2> QED BY <2>1, <2>2, <2>3
<1>4. stack' \in Seq(Frame)
  BY BackendTypes DEF Backend, TypeOK
<1> QED BY <1>2, <1>3, <1>4 DEF WaitingIn, NoneAtSelect, Idle, Top

\* The part of CurrentInv a step has to establish.
SelectionOK ==
  /\ TrackedOnce
  /\ ~calls.ever => /\ selected # None => Current(selected) \/ DeselectingIn(stack)
                    /\ \A d \in WaitingIn(stack) : Current(d)
  /\ SelectedIsFound

LEMMA CountedCall ==
  ASSUME TypeOK, MayCall, CountCall
  PROVE  /\ ~calls'.ever => Idle /\ ~calls.ever
         /\ Idle => calls'.now = 0
         /\ ~Idle => calls'.now = calls.now + 1 /\ calls.now < MaxCalls
  BY DEF MayCall, CountCall, TypeOK

\* The toolkit reports that a window became active or inactive.
LEMMA ActiveSelection ==
  ASSUME CurrentInv, ~fault, NEW w \in Windows, OnIsActiveChanged(w)
  PROVE  SelectionOK'
<1>1. /\ TypeOK /\ Stacked(stack) /\ MayCall /\ Idle /\ ~deleted[w]
      /\ UNCHANGED <<tracked, deleted, calls, fault>> /\ active' = [active EXCEPT ![w] = ~@]
  BY DEF OnIsActiveChanged, CurrentInv, MayCall
<1>2. WaitingIn(stack) = {} /\ ~DeselectingIn(stack)
  BY <1>1, IdleShape
<1>3. TrackedOnce' /\ SelectedIsFound'
  BY <1>1 DEF CurrentInv, TrackedOnce, SelectedIsFound
<1>4. \A d \in tracked : d \in Data /\ WindowOf(d) \in Windows
  BY <1>1 DEF TypeOK, Data, WindowOf
<1>5. \A d \in tracked : WindowOf(d) = w /\ ~active[w] => Current(d)'
  BY <1>1, <1>4 DEF TypeOK, Current
<1>6. \A d : Current(d) /\ WindowOf(d) # w => Current(d)'
  BY <1>1, <1>4 DEF TypeOK, Current
<1>7. \A d : Current(d) /\ WindowOf(d) = w => active[w]
  BY <1>1 DEF Current
<1>8. ASSUME ~calls.ever, selected' = selected, selected # None,
             selected \in tracked /\ WindowOf(selected) = w /\ active[w] => DeselectingIn(stack')
      PROVE  Current(selected)' \/ DeselectingIn(stack')
  <2>1. Current(selected)
    BY <1>2, <1>8 DEF CurrentInv
  <2> QED BY <1>6, <1>7, <1>8, <2>1 DEF Current
<1>9. CASE UNCHANGED <<selected, stack>> /\ \A d \in tracked : WindowOf(d) # w
  BY <1>1, <1>2, <1>3, <1>8, <1>9 DEF SelectionOK
<1>10. ASSUME NEW d \in tracked, WindowOf(d) = w, ~active[w], selected' = d, UNCHANGED stack
       PROVE  SelectionOK'
  BY <1>1, <1>2, <1>3, <1>5, <1>10 DEF SelectionOK
<1>11. ASSUME NEW d \in tracked, WindowOf(d) = w, ~active[w], UNCHANGED selected, Selects(d)
       PROVE  SelectionOK'
  <2>1. d \in Data
    BY <1>4
  <2>2. WaitingIn(stack') \subseteq WaitingIn(stack) \cup {d} /\ DeselectingIn(stack')
    BY <1>1, <1>11, <2>1, CallShape
  <2>3. Current(d)'
    BY <1>5, <1>11
  <2> QED BY <1>1, <1>2, <1>3, <2>2, <2>3 DEF SelectionOK
<1>12. ASSUME UNCHANGED selected, Deselects PROVE SelectionOK'
  <2>1. WaitingIn(stack') \subseteq WaitingIn(stack) /\ DeselectingIn(stack')
    BY <1>1, <1>12, CallShape
  <2> QED BY <1>1, <1>2, <1>3, <2>1 DEF SelectionOK
<1>13. ASSUME NEW d \in tracked, WindowOf(d) = w, active[w], selected # d,
              UNCHANGED <<selected, stack>>
       PROVE  SelectionOK'
  <2>1. selected \notin tracked \/ WindowOf(selected) # w
    BY <1>13 DEF CurrentInv, TrackedOnce
  <2> QED BY <1>1, <1>2, <1>3, <1>8, <1>13, <2>1 DEF SelectionOK
<1> QED BY <1>9, <1>10, <1>11, <1>12, <1>13 DEF OnIsActiveChanged, Deselects, Selects

LEMMA DeleteSelection ==
  ASSUME CurrentInv, ~fault, NEW w \in Windows, DeleteWindow(w)
  PROVE  SelectionOK'
<1>1. /\ TypeOK /\ MayCall /\ CountCall /\ UNCHANGED <<selected, tracked, stack, fault>>
      /\ deleted' = [deleted EXCEPT ![w] = TRUE] /\ active' = [active EXCEPT ![w] = FALSE]
  BY DEF DeleteWindow, winVars, CurrentInv
<1>2. TrackedOnce' /\ SelectedIsFound'
  BY <1>1 DEF CurrentInv, TrackedOnce, SelectedIsFound
<1>3. ~calls'.ever => ~calls.ever
  BY <1>1, CountedCall
<1>4. \A d \in tracked : WindowOf(d) \in Windows
  BY <1>1 DEF TypeOK, Data, WindowOf
<1>5. \A d : Current(d) => Current(d)'
  BY <1>1, <1>4 DEF TypeOK, Current
<1> QED BY <1>1, <1>2, <1>3, <1>5 DEF SelectionOK, CurrentInv

LEMMA RemoveSelection ==
  ASSUME CurrentInv, ~fault, NEW w \in Windows, RemoveAccessor(w)
  PROVE  SelectionOK'
<1>1. /\ TypeOK /\ Stacked(stack) /\ MayCall /\ CountCall
      /\ UNCHANGED <<selected, fault, active, deleted>>
  BY DEF RemoveAccessor, RemoveData, toolkitVars, CurrentInv
<1>2. PICK d \in tracked : /\ tracked' = tracked \ {d}
                           /\ selected = d => Deselects
                           /\ selected # d => UNCHANGED stack
  BY DEF RemoveAccessor, RemoveData, Deselects
<1>3. TrackedOnce' /\ SelectedIsFound'
  BY <1>1, <1>2 DEF CurrentInv, TrackedOnce, SelectedIsFound
<1>4. \A e : Current(e) /\ e # d => Current(e)'
  BY <1>1, <1>2 DEF Current
<1>5. ASSUME ~calls'.ever
      PROVE  /\ selected' # None => Current(selected)' \/ DeselectingIn(stack')
             /\ WaitingIn(stack') = {}
  <2>1. ~calls.ever /\ Idle /\ WaitingIn(stack) = {} /\ ~DeselectingIn(stack)
    BY <1>1, <1>5, CountedCall, IdleShape
  <2>2. CASE selected = d
    <3>1. WaitingIn(stack') \subseteq WaitingIn(stack) /\ DeselectingIn(stack')
      BY <1>1, <1>2, <2>2, CallShape
    <3> QED BY <2>1, <3>1
  <2>3. CASE selected # d
    BY <1>1, <1>2, <1>4, <2>1, <2>3 DEF CurrentInv
  <2> QED BY <2>2, <2>3
<1> QED BY <1>3, <1>5 DEF SelectionOK

\* What addAccessor() does with the new window data d.
LEMMA AddAccessorCases ==
  ASSUME TypeOK, NEW w \in Windows, AddAccessor(w)
  PROVE  \E d \in Data :
           /\ WindowOf(d) = w /\ d # selected
           /\ MayCall /\ CountCall /\ ~deleted[w] /\ UNCHANGED <<active, deleted>>
           /\ \A e \in tracked : WindowOf(e) # w
           /\ \/ /\ selected = None /\ tracked' = tracked \cup {d}
                 /\ selected' = (IF active[w] THEN d ELSE None) /\ UNCHANGED <<stack, fault>>
              \/ /\ selected # None /\ active[w] /\ deleted[WindowOf(selected)]
                 /\ ReplaceDeleted(d)
              \/ /\ selected # None /\ active[w] /\ tracked' = tracked \cup {d}
                 /\ Selects(d) /\ UNCHANGED <<selected, fault>>
              \/ /\ selected # None /\ tracked' = tracked \cup {d}
                 /\ Deselects /\ UNCHANGED <<selected, fault>>
<1>1. PICK d : d = CHOOSE x \in Unused(w) : TRUE
  OBVIOUS
<1>2. d \in Data /\ WindowOf(d) = w /\ d # selected
  BY <1>1, AddAccessorCalls DEF Referenced
<1>3. /\ MayCall /\ CountCall /\ ~deleted[w] /\ UNCHANGED <<active, deleted>>
      /\ \A e \in tracked : WindowOf(e) # w
  BY DEF AddAccessor, toolkitVars
<1>4. \/ /\ selected = None /\ tracked' = tracked \cup {d}
         /\ selected' = (IF active[w] THEN d ELSE None) /\ UNCHANGED <<stack, fault>>
      \/ /\ selected # None /\ active[w] /\ deleted[WindowOf(selected)]
         /\ ReplaceDeleted(d)
      \/ /\ selected # None /\ active[w] /\ tracked' = tracked \cup {d}
         /\ Selects(d) /\ UNCHANGED <<selected, fault>>
      \/ /\ selected # None /\ tracked' = tracked \cup {d}
         /\ Deselects /\ UNCHANGED <<selected, fault>>
  BY <1>1 DEF AddAccessor, Selects, Deselects
<1> QED BY <1>2, <1>3, <1>4

\* Its loop for a destroyed window: it finds none, or one to replace.
LEMMA ReplaceCases ==
  ASSUME NEW d, ReplaceDeleted(d)
  PROVE  \/ /\ \A e \in tracked : WindowOf(e) # WindowOf(selected)
            /\ UNCHANGED <<selected, tracked, stack>>
         \/ \E e \in tracked :
              /\ WindowOf(e) = WindowOf(selected)
              /\ UNCHANGED fault /\ tracked' = (tracked \cup {d}) \ {e}
              /\ \/ selected = e /\ Selects(d) /\ UNCHANGED selected
                 \/ selected # e /\ selected' = d /\ UNCHANGED stack
  BY DEF ReplaceDeleted, Selects, winVars

LEMMA AddSelection ==
  ASSUME CurrentInv, ~fault, NEW w \in Windows, AddAccessor(w)
  PROVE  SelectionOK'
<1>1. PICK d \in Data :
        /\ WindowOf(d) = w
        /\ MayCall /\ CountCall /\ ~deleted[w] /\ UNCHANGED <<active, deleted>>
        /\ \A e \in tracked : WindowOf(e) # w
        /\ \/ /\ selected = None /\ tracked' = tracked \cup {d}
              /\ selected' = (IF active[w] THEN d ELSE None) /\ UNCHANGED <<stack, fault>>
           \/ /\ selected # None /\ active[w] /\ deleted[WindowOf(selected)]
              /\ ReplaceDeleted(d)
           \/ /\ selected # None /\ active[w] /\ tracked' = tracked \cup {d}
              /\ Selects(d) /\ UNCHANGED <<selected, fault>>
           \/ /\ selected # None /\ tracked' = tracked \cup {d}
              /\ Deselects /\ UNCHANGED <<selected, fault>>
  BY AddAccessorCases DEF CurrentInv
<1>2. TypeOK /\ Stacked(stack)
  BY DEF CurrentInv
<1>4. ASSUME tracked' \subseteq tracked \cup {d} PROVE TrackedOnce'
  BY <1>1, <1>2, <1>4 DEF CurrentInv, TrackedOnce
<1>5. ~fault' => SelectedIsFound'
  BY DEF SelectedIsFound
<1>6. ~calls'.ever => ~calls.ever /\ Idle /\ WaitingIn(stack) = {} /\ ~DeselectingIn(stack)
  BY <1>1, <1>2, CountedCall, IdleShape
<1>7. ASSUME d \in tracked', active[w] PROVE Current(d)'
  BY <1>1, <1>2, <1>7 DEF Current
<1>8. CASE /\ selected = None /\ tracked' = tracked \cup {d}
           /\ selected' = (IF active[w] THEN d ELSE None) /\ UNCHANGED <<stack, fault>>
  BY <1>4, <1>5, <1>6, <1>7, <1>8 DEF SelectionOK
<1>9. CASE /\ active[w] /\ tracked' = tracked \cup {d}
           /\ Selects(d) /\ UNCHANGED <<selected, fault>>
  <2>1. WaitingIn(stack') \subseteq WaitingIn(stack) \cup {d} /\ DeselectingIn(stack')
    BY <1>1, <1>2, <1>9, CallShape
  <2> QED BY <1>4, <1>5, <1>6, <1>7, <1>9, <2>1 DEF SelectionOK
<1>10. CASE tracked' = tracked \cup {d} /\ Deselects /\ UNCHANGED <<selected, fault>>
  <2>1. WaitingIn(stack') \subseteq WaitingIn(stack) /\ DeselectingIn(stack')
    BY <1>1, <1>2, <1>10, CallShape
  <2> QED BY <1>4, <1>5, <1>6, <1>10, <2>1 DEF SelectionOK
<1>11. CASE selected # None /\ active[w] /\ deleted[WindowOf(selected)] /\ ReplaceDeleted(d)
  <2>1. CASE /\ \A e \in tracked : WindowOf(e) # WindowOf(selected)
             /\ UNCHANGED <<selected, tracked, stack>>
    <3>1. ~Current(selected)
      BY <2>1 DEF Current
    <3>2. calls'.ever
      BY <1>6, <1>11, <3>1 DEF CurrentInv
    <3> QED BY <1>4, <2>1, <3>2 DEF SelectionOK, SelectedIsFound
  <2>2. ASSUME NEW e \in tracked, WindowOf(e) = WindowOf(selected), UNCHANGED fault,
               tracked' = (tracked \cup {d}) \ {e},
               \/ Selects(d) /\ UNCHANGED selected
               \/ selected' = d /\ UNCHANGED stack
        PROVE  SelectionOK'
    <3>1. e # d /\ d \in tracked'
      BY <1>1, <1>2, <2>2
    <3>2. Current(d)'
      BY <1>7, <1>11, <3>1
    <3>3. CASE Selects(d) /\ UNCHANGED selected
      <4>1. WaitingIn(stack') \subseteq WaitingIn(stack) \cup {d} /\ DeselectingIn(stack')
        BY <1>1, <1>2, <3>3, CallShape
      <4> QED BY <1>4, <1>5, <1>6, <2>2, <3>2, <4>1 DEF SelectionOK
    <3>4. CASE selected' = d /\ UNCHANGED stack
      BY <1>4, <1>5, <1>6, <2>2, <3>2, <3>4 DEF SelectionOK
    <3> QED BY <2>2, <3>3, <3>4
  <2> QED BY <1>11, <2>1, <2>2, ReplaceCases
<1> QED BY <1>1, <1>8, <1>9, <1>10, <1>11

\* Listeners come and go, the KeyEvent class is enabled.
LEMMA OtherCalls ==
  ASSUME NEW l \in Listeners,
         AddListener(l) \/ (\E b \in BOOLEAN : RemoveListener(l, b)) \/ EnableKeyEvent
  PROVE  /\ MayCall /\ CountCall /\ UNCHANGED <<selected, tracked, active, deleted, fault>>
         /\ UNCHANGED stack \/ Finalizes(l)
<1>1. CASE AddListener(l)
  BY <1>1 DEF AddListener, winVars, toolkitVars
<1>2. CASE \E b \in BOOLEAN : RemoveListener(l, b)
  BY <1>2 DEF RemoveListener, winVars, toolkitVars, Finalizes
<1>3. CASE EnableKeyEvent
  BY <1>3 DEF EnableKeyEvent, winVars, toolkitVars
<1> QED BY <1>1, <1>2, <1>3

LEMMA OtherSelection ==
  ASSUME CurrentInv, ~fault, MayCall, CountCall,
         UNCHANGED <<selected, tracked, active, deleted, fault>>,
         UNCHANGED stack \/ \E l \in Listeners : Finalizes(l)
  PROVE  SelectionOK'
<1>1. TypeOK /\ Stacked(stack)
  BY DEF CurrentInv
<1>2. TrackedOnce' /\ SelectedIsFound'
  BY DEF CurrentInv, TrackedOnce, SelectedIsFound
<1>3. \A d : Current(d) => Current(d)'
  BY DEF Current
<1>4. /\ WaitingIn(stack') \subseteq WaitingIn(stack)
      /\ DeselectingIn(stack) => DeselectingIn(stack')
  BY <1>1, CallShape
<1>5. ~calls'.ever => ~calls.ever
  BY <1>1, CountedCall
<1> QED BY <1>2, <1>3, <1>4, <1>5 DEF SelectionOK, CurrentInv

LEMMA LoopSelection ==
  ASSUME CurrentInv, NoneAtSelect, Step
  PROVE  SelectionOK'
<1>1. TypeOK /\ Stacked(stack) /\ StepKeeps
  BY StepSelection DEF CurrentInv
<1>2. TrackedOnce' /\ UNCHANGED <<tracked, active, deleted>> /\ calls'.ever = calls.ever
  BY <1>1 DEF CurrentInv, TrackedOnce, StepKeeps
<1>3. \A d : Current(d) => Current(d)'
  BY <1>2 DEF Current
<1>4. SelectedIsFound'
  <2>1. ASSUME fault' PROVE \E s \in Slots : btDevices'[s] = "null"
    <3>1. ~fault /\ TypeOK /\ ~Idle
      BY <1>1 DEF Step
    <3>2. DeselectStep \/ FinalizeStep
      BY <2>1, <3>1 DEF Step, KeyStep, MgmtStep, CancelStep, FinalizeKeysStep, UnplugStep,
                        SelectStep
    <3>3. UNCHANGED btDevices /\ \E s \in Top.slots : btDevices[s] = "null"
      BY <2>1, <3>1, <3>2 DEF DeselectStep, FinalizeStep, VisitDevice, devVars
    <3>4. Top.slots \subseteq Slots
      BY <3>1, PoppedProps DEF TypeOK, Frame
    <3> QED BY <3>3, <3>4
  <2> QED BY <2>1 DEF SelectedIsFound
<1>5. WaitingIn(stack') \subseteq WaitingIn(stack)
  BY <1>1 DEF StepKeeps
<1>6. ASSUME ~calls'.ever, selected' # None PROVE Current(selected)' \/ DeselectingIn(stack')
  <2>1. CASE selected' = selected /\ (DeselectingIn(stack) => DeselectingIn(stack'))
    BY <1>2, <1>3, <1>6, <2>1 DEF CurrentInv
  <2>2. CASE selected' \in WaitingIn(stack)
    <3>1. Current(selected')
      BY <1>2, <1>6, <2>2 DEF CurrentInv
    <3> QED BY <1>2, <3>1 DEF Current
  <2> QED BY <1>1, <1>6, <2>1, <2>2 DEF StepKeeps
<1> QED BY <1>2, <1>3, <1>4, <1>5, <1>6 DEF SelectionOK, CurrentInv

LEMMA NoneAtSelectStep ==
  ASSUME TypeOK, Stacked(stack), NoneAtSelect, [Next]_vars
  PROVE  NoneAtSelect'
<1>1. CASE Step
  BY <1>1, StepSelection DEF StepKeeps
<1>2. CASE ~fault /\ Backend
  BY <1>2, BackendSelection
<1>3. CASE Toolkit
  BY <1>3, ToolkitCalls, CallShape DEF Toolkit
<1>4. CASE Application
  BY <1>4, ApplicationCalls, CallShape
<1>5. CASE UNCHANGED vars
  BY <1>5 DEF vars, winVars, NoneAtSelect, Idle, Top
<1> QED BY <1>1, <1>2, <1>3, <1>4, <1>5 DEF Next, Dead

LEMMA SelectionStep ==
  ASSUME CurrentInv, NoneAtSelect, [Next]_vars
  PROVE  SelectionOK'
<1>1. CASE Step
  BY <1>1, LoopSelection
<1>2. CASE ~fault /\ Backend
  <2>1. /\ Idle /\ UNCHANGED <<selected, tracked, active, deleted, calls, fault>>
        /\ WaitingIn(stack') = {}
    BY <1>2, BackendSelection DEF CurrentInv
  <2>2. ~DeselectingIn(stack)
    BY <2>1, IdleShape
  <2>3. \A d : Current(d) => Current(d)'
    BY <2>1 DEF Current
  <2>4. TrackedOnce' /\ SelectedIsFound'
    BY <1>2, <2>1 DEF CurrentInv, TrackedOnce, SelectedIsFound
  <2> QED BY <2>1, <2>2, <2>3, <2>4 DEF SelectionOK, CurrentInv
<1>3. CASE ~fault /\ Toolkit
  BY <1>3, ActiveSelection, DeleteSelection DEF Toolkit
<1>4. CASE ~fault /\ Application
  <2>1. ASSUME NEW l \in Listeners,
               AddListener(l) \/ (\E b \in BOOLEAN : RemoveListener(l, b)) \/ EnableKeyEvent
        PROVE  SelectionOK'
    BY <1>4, <2>1, OtherCalls, OtherSelection
  <2>2. ASSUME EnableKeyEvent PROVE SelectionOK'
    <3>1. /\ MayCall /\ CountCall /\ UNCHANGED <<selected, tracked, active, deleted, fault>>
          /\ UNCHANGED stack
      BY <2>2 DEF EnableKeyEvent, winVars, toolkitVars
    <3> QED BY <1>4, <3>1, OtherSelection
  <2> QED BY <1>4, <2>1, <2>2, AddSelection, RemoveSelection DEF Application
<1>5. CASE UNCHANGED vars
  BY <1>5 DEF vars, devVars, winVars, toolkitVars, SelectionOK, CurrentInv, TrackedOnce, Current,
              SelectedIsFound
<1> QED BY <1>1, <1>2, <1>3, <1>4, <1>5 DEF Next, Dead

LEMMA SelectionInvariance == Spec => [](CurrentInv /\ NoneAtSelect)
<1>1. Init => SelectionOK /\ NoneAtSelect
  BY DEF Init, SelectionOK, TrackedOnce, SelectedIsFound, WaitingIn, NoneAtSelect, Idle
<1>2. CurrentInv <=> TypeOK /\ Stacked(stack) /\ SelectionOK
  BY DEF CurrentInv, SelectionOK
<1>3. (TypeOK /\ Stacked(stack) /\ SelectionOK) /\ NoneAtSelect /\ [Next]_vars
        => SelectionOK' /\ NoneAtSelect'
  BY <1>2, SelectionStep, NoneAtSelectStep
<1> QED BY <1>1, <1>2, <1>3, NestInvariance, PTL DEF Spec, NestInv

\* Until a listener calls the manager, the selected window is between
\* dispatches a tracked one, and active unless it was destroyed.
THEOREM SelectedStaysCurrent == Spec => []SelectedIsCurrent
<1>1. CurrentInv => SelectedIsCurrent
  BY IdleShape DEF CurrentInv, SelectedIsCurrent, Current
<1> QED BY <1>1, SelectionInvariance, PTL

\* Until then the assertion of addAccessor() holds: what it looks for is found.
THEOREM SelectedStaysFound == Spec => []SelectedIsFound
<1>1. CurrentInv => SelectedIsFound
  BY DEF CurrentInv
<1> QED BY <1>1, SelectionInvariance, PTL

-----------------------------------------------------------------------------
(* The keys pressed while a window is selected were pressed for it.        *)

\* A listener's call may remove the window data about to be selected, and leave
\* the selected one untracked; one more may then add another for its window.
\* While a listener makes at most one call in a dispatch, that twin has to wait
\* for a deselectAccessor() that still runs.
WaitingFound == \A d \in WaitingIn(stack) :
  d \in tracked \/ (calls.now # 0 /\ \A e \in tracked : WindowOf(e) # WindowOf(d))
TwinsWait == selected # None =>
  \A e \in tracked : WindowOf(e) = WindowOf(selected) /\ e # selected =>
    DeselectingIn(stack) /\ (calls.now = 0 => ~deleted[WindowOf(selected)])
TwinInv == WaitingFound /\ TwinsWait

\* No window data of w but d is tracked.
LEMMA NoTwin ==
  ASSUME TrackedOnce, NEW d \in tracked
  PROVE  \A e \in tracked : WindowOf(e) = WindowOf(d) => e = d
  BY DEF TrackedOnce

LEMMA LoopTwins ==
  ASSUME CurrentInv, NoneAtSelect, TwinInv, Step
  PROVE  TwinInv'
<1>1. StepKeeps
  BY StepSelection DEF CurrentInv
<1>2. UNCHANGED <<tracked, active, deleted>> /\ WaitingIn(stack') \subseteq WaitingIn(stack)
  BY <1>1 DEF StepKeeps
<1>3. stack' = <<>> => WaitingIn(stack') = {} /\ ~DeselectingIn(stack')
  BY DEF WaitingIn, DeselectingIn
<1>4. WaitingFound'
  BY <1>1, <1>2, <1>3 DEF TwinInv, WaitingFound, StepKeeps
<1>5. CASE selected' = None
  BY <1>4, <1>5 DEF TwinInv, TwinsWait
<1>6. CASE selected' = selected /\ (DeselectingIn(stack) => DeselectingIn(stack'))
  BY <1>1, <1>2, <1>3, <1>4, <1>6 DEF TwinInv, TwinsWait, StepKeeps
<1>7. CASE selected' \in WaitingIn(stack)
  <2>1. \A e \in tracked : WindowOf(e) = WindowOf(selected') => e = selected'
    BY <1>7, NoTwin DEF TwinInv, WaitingFound, CurrentInv
  <2> QED BY <1>2, <1>4, <2>1 DEF TwinInv, TwinsWait
<1> QED BY <1>1, <1>5, <1>6, <1>7 DEF StepKeeps

\* Calls that leave the tracked windows alone.
LEMMA QuietTwins ==
  ASSUME CurrentInv, TwinInv, MaxCalls <= 1, MayCall, CountCall,
         UNCHANGED <<selected, tracked>>,
         \/ UNCHANGED deleted /\ UNCHANGED stack
         \/ UNCHANGED deleted /\ (\E l \in Listeners : Finalizes(l))
         \/ UNCHANGED stack
  PROVE  TwinInv'
<1>1. TypeOK /\ Stacked(stack) /\ calls.now \in Nat
  BY DEF CurrentInv, TypeOK
<1>2. /\ WaitingIn(stack') \subseteq WaitingIn(stack)
      /\ DeselectingIn(stack) => DeselectingIn(stack')
  BY <1>1, CallShape
<1>3. CASE Idle
  <2>1. WaitingIn(stack) = {} /\ ~DeselectingIn(stack)
    BY <1>3, IdleShape
  <2> QED BY <1>2, <2>1 DEF TwinInv, WaitingFound, TwinsWait
<1>4. CASE ~Idle
  <2>1. calls'.now # 0
    BY <1>1, <1>4, CountedCall
  <2> QED BY <1>2, <2>1, <1>4 DEF TwinInv, WaitingFound, TwinsWait
<1> QED BY <1>3, <1>4

LEMMA ActiveTwins ==
  ASSUME CurrentInv, TwinInv, NEW w \in Windows, OnIsActiveChanged(w)
  PROVE  TwinInv'
<1>1. /\ TypeOK /\ Stacked(stack) /\ MayCall /\ Idle /\ UNCHANGED <<tracked, deleted, calls>>
      /\ TrackedOnce
  BY DEF OnIsActiveChanged, CurrentInv, MayCall
<1>2. WaitingIn(stack) = {} /\ ~DeselectingIn(stack)
  BY <1>1, IdleShape
<1>3. \/ UNCHANGED <<selected, stack>>
      \/ UNCHANGED selected /\ Deselects
      \/ \E d \in tracked : selected' = d /\ UNCHANGED stack
      \/ \E d \in tracked : Selects(d) /\ UNCHANGED selected
  BY DEF OnIsActiveChanged, Deselects, Selects
<1>4. tracked \subseteq Data
  BY <1>1 DEF TypeOK
<1>5. WaitingFound'
  <2>1. WaitingIn(stack') \subseteq tracked
    BY <1>1, <1>2, <1>3, <1>4, CallShape
  <2> QED BY <1>1, <2>1 DEF WaitingFound
<1>6. \A e \in tracked : selected # None /\ WindowOf(e) = WindowOf(selected) => e = selected
  BY <1>2 DEF TwinInv, TwinsWait
<1>7. TwinsWait'
  BY <1>1, <1>3, <1>6, NoTwin DEF TwinsWait
<1> QED BY <1>5, <1>7 DEF TwinInv

LEMMA RemoveTwins ==
  ASSUME CurrentInv, TwinInv, MaxCalls <= 1, NEW w \in Windows, RemoveAccessor(w)
  PROVE  TwinInv'
<1>1. /\ TypeOK /\ Stacked(stack) /\ MayCall /\ CountCall /\ calls.now \in Nat
      /\ UNCHANGED <<selected, deleted>> /\ TrackedOnce
  BY DEF RemoveAccessor, RemoveData, toolkitVars, CurrentInv, TypeOK
<1>2. PICK d \in tracked : tracked' = tracked \ {d} /\ (Deselects \/ UNCHANGED stack)
  BY DEF RemoveAccessor, RemoveData, Deselects
<1>3. /\ WaitingIn(stack') \subseteq WaitingIn(stack)
      /\ DeselectingIn(stack) => DeselectingIn(stack')
  BY <1>1, <1>2, CallShape
<1>4. CASE Idle
  <2>1. WaitingIn(stack) = {} /\ ~DeselectingIn(stack)
    BY <1>4, IdleShape
  <2> QED BY <1>1, <1>2, <1>3, <2>1 DEF TwinInv, WaitingFound, TwinsWait
<1>5. CASE ~Idle
  <2>1. calls'.now # 0 /\ calls.now = 0
    BY <1>1, <1>5, CountedCall, BoundAssumption
  <2>2. WaitingFound'
    BY <1>1, <1>2, <1>3, <2>1, NoTwin DEF TwinInv, WaitingFound
  <2> QED BY <1>1, <1>2, <1>3, <2>1, <2>2 DEF TwinInv, TwinsWait
<1> QED BY <1>4, <1>5

LEMMA AddTwins ==
  ASSUME CurrentInv, TwinInv, MaxCalls <= 1, NEW w \in Windows, AddAccessor(w)
  PROVE  TwinInv'
<1>1. PICK d \in Data :
        /\ WindowOf(d) = w /\ d # selected
        /\ MayCall /\ CountCall /\ ~deleted[w] /\ UNCHANGED <<active, deleted>>
        /\ \A e \in tracked : WindowOf(e) # w
        /\ \/ /\ selected = None /\ tracked' = tracked \cup {d}
              /\ selected' = (IF active[w] THEN d ELSE None) /\ UNCHANGED <<stack, fault>>
           \/ /\ selected # None /\ active[w] /\ deleted[WindowOf(selected)]
              /\ ReplaceDeleted(d)
           \/ /\ selected # None /\ active[w] /\ tracked' = tracked \cup {d}
              /\ Selects(d) /\ UNCHANGED <<selected, fault>>
           \/ /\ selected # None /\ tracked' = tracked \cup {d}
              /\ Deselects /\ UNCHANGED <<selected, fault>>
  BY AddAccessorCases DEF CurrentInv
<1>2. TypeOK /\ Stacked(stack) /\ TrackedOnce
  BY DEF CurrentInv
<1>3. /\ Idle => WaitingIn(stack) = {} /\ ~DeselectingIn(stack)
      /\ ~Idle => calls'.now # 0 /\ calls.now = 0
  BY <1>1, <1>2, CountedCall, IdleShape, BoundAssumption DEF TypeOK
<1>4. WaitingIn(stack) \subseteq tracked
  BY <1>3 DEF TwinInv, WaitingFound
<1>5. ASSUME selected # None, NEW e \in tracked, WindowOf(e) = WindowOf(selected), e # selected
      PROVE  ~deleted[WindowOf(selected)]
  BY <1>3, <1>5 DEF TwinInv, TwinsWait
<1>6. CASE /\ selected = None /\ tracked' = tracked \cup {d}
           /\ selected' = (IF active[w] THEN d ELSE None) /\ UNCHANGED <<stack, fault>>
  BY <1>1, <1>4, <1>6 DEF TwinInv, WaitingFound, TwinsWait
<1>7. CASE /\ selected # None /\ tracked' = tracked \cup {d}
           /\ Selects(d) \/ Deselects
           /\ UNCHANGED <<selected, fault>>
  <2>1. WaitingIn(stack') \subseteq WaitingIn(stack) \cup {d} /\ DeselectingIn(stack')
    BY <1>1, <1>2, <1>7, CallShape
  <2>2. WaitingFound'
    BY <1>4, <1>7, <2>1 DEF WaitingFound
  <2>3. ASSUME NEW e \in tracked', WindowOf(e) = WindowOf(selected), e # selected
        PROVE  calls'.now = 0 => ~deleted[WindowOf(selected)]
    BY <1>1, <1>5, <1>7, <2>3
  <2>4. TwinsWait'
    BY <1>1, <1>7, <2>1, <2>3 DEF TwinsWait
  <2> QED BY <2>2, <2>4 DEF TwinInv
<1>8. ASSUME selected # None, \A e \in tracked : WindowOf(e) # WindowOf(selected),
             UNCHANGED <<selected, tracked, stack>>
      PROVE  TwinInv'
  BY <1>4, <1>8 DEF TwinInv, WaitingFound, TwinsWait
<1>9. ASSUME selected # None, deleted[WindowOf(selected)],
             NEW e \in tracked, WindowOf(e) = WindowOf(selected), UNCHANGED fault,
             tracked' = (tracked \cup {d}) \ {e},
             \/ selected = e /\ Selects(d) /\ UNCHANGED selected
             \/ selected # e /\ selected' = d /\ UNCHANGED stack
      PROVE  TwinInv'
  <2>1. selected = e /\ Selects(d) /\ UNCHANGED selected
    BY <1>5, <1>9
  <2>2. WaitingIn(stack') \subseteq WaitingIn(stack) \cup {d} /\ DeselectingIn(stack')
    BY <1>1, <1>2, <2>1, CallShape
  <2>3. WindowOf(e) # w /\ e # d
    BY <1>1, <1>9
  <2>4. WaitingFound'
    <3>1. ASSUME NEW x \in WaitingIn(stack'), x \notin tracked'
          PROVE  calls'.now # 0 /\ \A y \in tracked' : WindowOf(y) # WindowOf(x)
      <4>1. x = e /\ x \in WaitingIn(stack)
        BY <1>4, <1>9, <2>2, <2>3, <3>1
      <4>2. calls'.now # 0
        BY <1>3, <4>1
      <4>3. \A y \in tracked : WindowOf(y) = WindowOf(e) => y = e
        BY <1>2, NoTwin
      <4> QED BY <1>1, <1>9, <2>3, <4>1, <4>2, <4>3
    <3> QED BY <3>1 DEF WaitingFound
  <2>5. TwinsWait'
    BY <1>1, <1>2, <1>9, <2>1, <2>3, NoTwin DEF TwinsWait
  <2> QED BY <2>4, <2>5 DEF TwinInv
<1> QED BY <1>1, <1>6, <1>7, <1>8, <1>9, ReplaceCases

LEMMA TwinStep ==
  ASSUME CurrentInv, NoneAtSelect, TwinInv, MaxCalls <= 1, [Next]_vars
  PROVE  TwinInv'
<1>1. CASE Step
  BY <1>1, LoopTwins
<1>2. CASE ~fault /\ Backend
  <2>1. /\ Idle /\ UNCHANGED <<selected, tracked, deleted>> /\ WaitingIn(stack') = {}
    BY <1>2, BackendSelection DEF CurrentInv
  <2>2. ~DeselectingIn(stack)
    BY <2>1, IdleShape
  <2> QED BY <2>1, <2>2 DEF TwinInv, WaitingFound, TwinsWait
<1>3. CASE Toolkit
  <2>1. ASSUME NEW w \in Windows, DeleteWindow(w) PROVE TwinInv'
    <3>1. MayCall /\ CountCall /\ UNCHANGED <<selected, tracked, stack>>
      BY <2>1 DEF DeleteWindow, winVars
    <3> QED BY <3>1, QuietTwins
  <2> QED BY <1>3, <2>1, ActiveTwins DEF Toolkit
<1>4. CASE Application
  <2>1. ASSUME NEW l \in Listeners, AddListener(l) \/ (\E b \in BOOLEAN : RemoveListener(l, b))
        PROVE  TwinInv'
    BY <2>1, OtherCalls, QuietTwins
  <2>2. ASSUME EnableKeyEvent PROVE TwinInv'
    <3>1. MayCall /\ CountCall /\ UNCHANGED <<selected, tracked, deleted, stack>>
      BY <2>2 DEF EnableKeyEvent, winVars, toolkitVars
    <3> QED BY <3>1, QuietTwins
  <2> QED BY <1>4, <2>1, <2>2, AddTwins, RemoveTwins DEF Application
<1>5. CASE UNCHANGED vars
  BY <1>5 DEF vars, winVars, toolkitVars, TwinInv, WaitingFound, TwinsWait
<1> QED BY <1>1, <1>2, <1>3, <1>4, <1>5 DEF Next, Dead

\* A pressed key's window is the selected one, after every step of the manager.
LEMMA PressedStep ==
  ASSUME CurrentInv, NoneAtSelect, HeaderInv, TwinInv, MaxCalls <= 1, PressedForSelected,
         [Next]_vars
  PROVE  PressedForSelected'
<1> USE DEF PressedForSelected
<1>1. /\ pressed \in [Slots -> SUBSET Keys] /\ origin \in [Slots -> [Keys -> Data \cup {None}]]
      /\ selected = None => \A s \in Slots : pressed[s] = {}
  BY DEF CurrentInv, TypeOK, HeaderInv, NoneSelectedNonePressed
<1>2. ASSUME UNCHANGED <<pressed, origin>>, selected' \in {None, selected} \/ selected = None
      PROVE  PressedForSelected'
  BY <1>1, <1>2
<1>3. CASE Step
  <2>1. StepKeeps /\ ~Idle
    BY <1>3, StepSelection DEF CurrentInv, Step
  <2>2. selected' \in {None, selected} \/ selected = None
    BY <2>1 DEF StepKeeps, NoneAtSelect
  <2>3. ASSUME ForgetKeys(Top.slot) PROVE PressedForSelected'
    BY <1>1, <2>2, <2>3 DEF ForgetKeys
  <2>4. UNCHANGED <<pressed, origin>> \/ ForgetKeys(Top.slot)
    BY <1>3 DEF Step, KeyStep, MgmtStep, CancelStep, FinalizeKeysStep, DeselectStep,
                FinalizeStep, UnplugStep, SelectStep, devVars
  <2> QED BY <1>2, <2>2, <2>3, <2>4
<1>4. CASE ~fault /\ Backend
  <2>1. UNCHANGED selected
    BY <1>4, BackendSelection DEF CurrentInv
  <2>2. ASSUME NEW s \in Slots, NEW k \in Keys, OnBluePress(s, k) PROVE PressedForSelected'
    <3>1. /\ pressed' = [pressed EXCEPT ![s] = @ \cup {k}]
          /\ origin' = [origin EXCEPT ![s][k] = selected]
      BY <2>2 DEF OnBluePress
    <3> QED BY <1>1, <2>1, <3>1
  <2>3. ASSUME NEW s \in Slots, NEW k \in Keys, NEW t \in Types, OnBlueRelease(s, k, t)
        PROVE  PressedForSelected'
    <3>1. /\ pressed' = [pressed EXCEPT ![s] = @ \ {k}]
          /\ origin' = [origin EXCEPT ![s][k] = None]
      BY <2>3 DEF OnBlueRelease
    <3> QED BY <1>1, <2>1, <3>1
  <2>4. ASSUME NEW s \in Slots, OnDeviceAdded(s) \/ OnDeviceRemoved(s)
        PROVE  UNCHANGED <<pressed, origin>>
    BY <2>4 DEF OnDeviceAdded, OnDeviceRemoved, devVars
  <2> QED BY <1>2, <1>4, <2>1, <2>2, <2>3, <2>4 DEF Backend
<1>5. CASE Toolkit
  <2>1. ASSUME NEW w \in Windows, OnIsActiveChanged(w) PROVE PressedForSelected'
    <3>1. UNCHANGED <<pressed, origin>>
      BY <2>1 DEF OnIsActiveChanged, devVars
    <3>2. selected' \in {None, selected} \/ selected = None
      BY <2>1 DEF OnIsActiveChanged
    <3> QED BY <1>2, <3>1, <3>2
  <2>2. ASSUME NEW w \in Windows, DeleteWindow(w) PROVE PressedForSelected'
    BY <1>2, <2>2 DEF DeleteWindow, devVars, winVars
  <2> QED BY <1>5, <2>1, <2>2 DEF Toolkit
<1>6. CASE Application
  <2>1. ASSUME NEW w \in Windows, AddAccessor(w) PROVE PressedForSelected'
    <3>1. UNCHANGED <<pressed, origin>>
      BY <2>1 DEF AddAccessor, devVars
    <3>2. selected' \in {None, selected} \/ selected = None
      <4>1. ASSUME NEW d, ReplaceDeleted(d), selected # None, deleted[WindowOf(selected)], MayCall
            PROVE  selected' = selected
        <5>1. calls.now = 0 \/ Idle
          BY <4>1, BoundAssumption DEF MayCall, CurrentInv, TypeOK
        <5>2. \A e \in tracked : WindowOf(e) = WindowOf(selected) => e = selected
          BY <4>1, <5>1, IdleShape DEF TwinInv, TwinsWait
        <5> QED BY <4>1, <5>2, ReplaceCases
      <4> QED BY <2>1, <4>1, AddAccessorCases DEF CurrentInv
    <3> QED BY <1>2, <3>1, <3>2
  <2>2. ASSUME NEW w \in Windows, RemoveAccessor(w) PROVE PressedForSelected'
    BY <1>2, <2>2 DEF RemoveAccessor, RemoveData, devVars
  <2>3. ASSUME \/ \E l \in Listeners : AddListener(l) \/ \E b \in BOOLEAN : RemoveListener(l, b)
               \/ EnableKeyEvent
        PROVE  PressedForSelected'
    BY <1>2, <2>3 DEF AddListener, RemoveListener, EnableKeyEvent, devVars, winVars
  <2> QED BY <1>6, <2>1, <2>2, <2>3 DEF Application
<1>7. CASE UNCHANGED vars
  BY <1>2, <1>7 DEF vars, devVars, winVars
<1> QED BY <1>3, <1>4, <1>5, <1>6, <1>7 DEF Next, Dead

\* The second invariant of the header, as far as it goes: the pressed keys were
\* pressed for the selected window while listeners make at most one call in a
\* dispatch.  With two it fails.
THEOREM PressedForTheSelected ==
  ASSUME KeyEventAtStart, MaxCalls <= 1
  PROVE  Spec => []PressedForSelected
<1>1. Spec => []HeaderInv
  BY HeaderInvariant
<1>2. Init => TwinInv /\ PressedForSelected
  BY DEF Init, TwinInv, WaitingFound, TwinsWait, PressedForSelected, WaitingIn
<1>3. /\ CurrentInv /\ NoneAtSelect /\ HeaderInv /\ TwinInv /\ PressedForSelected /\ [Next]_vars
      => TwinInv' /\ PressedForSelected'
  BY TwinStep, PressedStep
<1> QED BY <1>1, <1>2, <1>3, SelectionInvariance, PTL DEF Spec

-----------------------------------------------------------------------------
(* The listeners that are being finalized.                                 *)

FinalizingIn(q) == {q[i].lst : i \in {j \in 1..Len(q) : q[j].pc = "finalize"}}
FinalizeOnce(q) == \A i, j \in 1..Len(q) :
  q[i].pc = "finalize" /\ q[j].pc = "finalize" /\ q[i].lst = q[j].lst => i = j

\* The listeners that are leaving are those finalizeListener() runs for, once each.
LeavingInv ==
  /\ FinalizeOnce(stack)
  /\ \A l \in Listeners : lst[l] = "leaving" <=> l \in FinalizingIn(stack)

\* The loops over pressed keys on the call stack q, and whether one of them
\* belongs to cancelSelectedAccessorKeys().
LoopPcs == {"cancel", "finalizeKeys"}
LoopsIn(q) == {q[i] : i \in {j \in 1..Len(q) : q[j].pc \in LoopPcs}}
ClosingIn(q) == \E f \in LoopsIn(q) : f.pc = "cancel"

\* Whom onBlueKey(), always the first function called, still has to tell of a key.
TellingIn(q, T) ==
  {p \in Pairs : /\ q # <<>> /\ q[1].pc = "key" /\ q[1].type \in T
                 /\ p[1] = q[1].key /\ p[2] \in q[1].ls}
Presses(q) == TellingIn(q, {"press"})
Releases(q) == TellingIn(q, {"release", "cancel"})
Unplugging(q) == q # <<>> /\ q[1].pc = "unplug"

\* The call stack becomes r: the function at its bottom is as far as it was.
SameBottom(q, r) ==
  /\ (q # <<>> /\ q[1].pc = "key") \/ (r # <<>> /\ r[1].pc = "key") =>
       q # <<>> /\ r # <<>> /\ q[1] = r[1]
  /\ Unplugging(r) => Unplugging(q)

LEMMA BottomTelling ==
  ASSUME NEW q, NEW r, SameBottom(q, r)
  PROVE  Presses(q) = Presses(r) /\ Releases(q) = Releases(r)
<1>1. ASSUME NEW T PROVE TellingIn(q, T) = TellingIn(r, T)
  BY DEF SameBottom, TellingIn
<1> QED BY <1>1 DEF Presses, Releases

LEMMA EventsPush ==
  ASSUME NEW q \in Seq(Frame), NEW f \in Frame, f.pc \notin {"key", "unplug"}
  PROVE  /\ SameBottom(q, Append(q, f))
         /\ LoopsIn(q) \subseteq LoopsIn(Append(q, f))
         /\ LoopsIn(Append(q, f)) \subseteq LoopsIn(q) \cup (IF f.pc \in LoopPcs THEN {f} ELSE {})
         /\ f.pc \in LoopPcs => f \in LoopsIn(Append(q, f))
         /\ FinalizingIn(Append(q, f)) =
              FinalizingIn(q) \cup (IF f.pc = "finalize" THEN {f.lst} ELSE {})
         /\ FinalizeOnce(q) /\ (f.pc = "finalize" => f.lst \notin FinalizingIn(q)) =>
              FinalizeOnce(Append(q, f))
<1> DEFINE r == Append(q, f)
           n == Len(q) + 1
<1>1. /\ Len(r) = n /\ r[n] = f /\ \A i \in 1..Len(q) : r[i] = q[i]
      /\ Len(q) \in Nat /\ (q # <<>> <=> Len(q) # 0) /\ r # <<>>
  BY AppendProps
<1> HIDE DEF r
<1>2. \A i : i \in 1..Len(r) <=> i \in 1..Len(q) \/ i = n
  BY <1>1
<1>3. n \notin 1..Len(q)
  BY <1>1
<1>4. SameBottom(q, r)
  <2>1. CASE q = <<>>
    <3>1. r[1] = f
      BY <1>1, <2>1
    <3> QED BY <2>1, <3>1 DEF SameBottom, Unplugging
  <2>2. CASE q # <<>>
    <3>1. r[1] = q[1]
      BY <1>1, <2>2
    <3> QED BY <1>1, <2>2, <3>1 DEF SameBottom, Unplugging
  <2> QED BY <2>1, <2>2
<1>5. /\ LoopsIn(q) \subseteq LoopsIn(r)
      /\ LoopsIn(r) \subseteq LoopsIn(q) \cup (IF f.pc \in LoopPcs THEN {f} ELSE {})
      /\ f.pc \in LoopPcs => f \in LoopsIn(r)
  BY <1>1, <1>2 DEF LoopsIn
<1>6. FinalizingIn(r) = FinalizingIn(q) \cup (IF f.pc = "finalize" THEN {f.lst} ELSE {})
  BY <1>1, <1>2 DEF FinalizingIn
<1>7. ASSUME FinalizeOnce(q), f.pc = "finalize" => f.lst \notin FinalizingIn(q)
      PROVE  FinalizeOnce(r)
  <2>1. ASSUME f.pc = "finalize", NEW i \in 1..Len(q), q[i].pc = "finalize" PROVE q[i].lst # f.lst
    BY <1>7, <2>1 DEF FinalizingIn
  <2> QED BY <1>1, <1>2, <1>7, <2>1 DEF FinalizeOnce
<1> QED BY <1>4, <1>5, <1>6, <1>7 DEF r

LEMMA EventsPop ==
  ASSUME stack \in Seq(Frame), ~Idle, Top.pc # "key"
  PROVE  /\ SameBottom(stack, Popped)
         /\ LoopsIn(Popped) \subseteq LoopsIn(stack)
         /\ \A f \in LoopsIn(stack) : f \in LoopsIn(Popped) \/ f = Top
         /\ FinalizeOnce(stack) => FinalizeOnce(Popped)
         /\ FinalizeOnce(stack) => FinalizingIn(Popped) =
              IF Top.pc = "finalize" THEN FinalizingIn(stack) \ {Top.lst} ELSE FinalizingIn(stack)
<1> DEFINE n == Len(stack)
           r == Popped
<1>1. /\ n \in Nat \ {0} /\ Len(r) = n - 1 /\ Top = stack[n] /\ r \in Seq(Frame)
      /\ \A i \in 1..Len(r) : r[i] = stack[i]
  BY PoppedProps DEF Top
<1>2. \A i : i \in 1..n <=> i \in 1..Len(r) \/ i = n
  BY <1>1
<1>3. n \notin 1..Len(r)
  BY <1>1
<1> HIDE DEF r
<1>4. SameBottom(stack, r)
  <2>1. CASE n = 1
    <3>1. r = <<>> /\ stack[1] = Top
      BY <1>1, <2>1
    <3> QED BY <3>1 DEF SameBottom, Unplugging
  <2>2. CASE n # 1
    <3>1. 1 \in 1..Len(r) /\ r # <<>> /\ stack # <<>>
      BY <1>1, <2>2
    <3> QED BY <1>1, <3>1 DEF SameBottom, Unplugging
  <2> QED BY <2>1, <2>2
<1>5. /\ LoopsIn(r) \subseteq LoopsIn(stack)
      /\ \A f \in LoopsIn(stack) : f \in LoopsIn(r) \/ f = Top
  BY <1>1, <1>2 DEF LoopsIn
<1>6. FinalizeOnce(stack) => FinalizeOnce(r)
  BY <1>1, <1>2 DEF FinalizeOnce
<1>7. ASSUME FinalizeOnce(stack)
      PROVE  FinalizingIn(r) =
               IF Top.pc = "finalize" THEN FinalizingIn(stack) \ {Top.lst} ELSE FinalizingIn(stack)
  <2>1. CASE Top.pc # "finalize"
    BY <1>1, <1>2, <2>1 DEF FinalizingIn
  <2>2. CASE Top.pc = "finalize"
    <3>1. ASSUME NEW i \in 1..Len(r), stack[i].pc = "finalize" PROVE stack[i].lst # Top.lst
      <4>1. i \in 1..n /\ n \in 1..n /\ i # n
        BY <1>2, <1>3, <3>1
      <4> QED BY <1>1, <1>7, <2>2, <3>1, <4>1 DEF FinalizeOnce
    <3> QED BY <1>1, <1>2, <2>2, <3>1 DEF FinalizingIn
  <2> QED BY <2>1, <2>2
<1> QED BY <1>4, <1>5, <1>6, <1>7 DEF r

LEMMA EventsReplace ==
  ASSUME stack \in Seq(Frame), ~Idle, NEW f \in Frame, f.lst = Top.lst, f.pc = Top.pc, f.pc # "key"
  PROVE  /\ SameBottom(stack, Replaced(f))
         /\ LoopsIn(Replaced(f)) \subseteq LoopsIn(stack) \cup (IF f.pc \in LoopPcs THEN {f} ELSE {})
         /\ \A g \in LoopsIn(stack) : g \in LoopsIn(Replaced(f)) \/ g = Top
         /\ f.pc \in LoopPcs => f \in LoopsIn(Replaced(f)) /\ Top \in LoopsIn(stack)
         /\ FinalizeOnce(stack) => FinalizeOnce(Replaced(f))
         /\ FinalizingIn(Replaced(f)) = FinalizingIn(stack)
<1> DEFINE n == Len(stack)
           r == Replaced(f)
<1>1. /\ n \in Nat \ {0} /\ Len(r) = n /\ Top = stack[n] /\ n \in 1..n
      /\ \A i \in 1..n : r[i] = IF i = n THEN f ELSE stack[i]
      /\ r[n] = f /\ r # <<>> /\ stack # <<>>
  BY PoppedProps, ReplacedProps DEF Top, Idle
<1> HIDE DEF r
<1>2. /\ LoopsIn(r) \subseteq LoopsIn(stack) \cup (IF f.pc \in LoopPcs THEN {f} ELSE {})
      /\ \A g \in LoopsIn(stack) : g \in LoopsIn(r) \/ g = Top
      /\ f.pc \in LoopPcs => f \in LoopsIn(r) /\ Top \in LoopsIn(stack)
  BY <1>1 DEF LoopsIn
<1>3. \A i \in 1..n : r[i].pc = stack[i].pc /\ r[i].lst = stack[i].lst
  BY <1>1
<1>4. (FinalizeOnce(stack) => FinalizeOnce(r)) /\ FinalizingIn(r) = FinalizingIn(stack)
  BY <1>1, <1>3 DEF FinalizeOnce, FinalizingIn
<1>5. SameBottom(stack, r)
  <2>1. 1 \in 1..n
    BY <1>1
  <2>2. CASE n = 1
    BY <1>1, <1>3, <2>1, <2>2 DEF SameBottom, Unplugging
  <2>3. CASE n # 1
    BY <1>1, <2>1, <2>3 DEF SameBottom, Unplugging
  <2> QED BY <2>2, <2>3
<1> QED BY <1>2, <1>4, <1>5 DEF r

-----------------------------------------------------------------------------
(* What listeners hear of the keys of the only device, s.                  *)

\* A listener that was never added heard nothing.
UntoldNew(s) == \A l \in Listeners :
  lst[l] = "new" => canceled[l] = {} /\ \A k \in Keys : got[s][k][l] = "up"

\* Who heard of a press and not of its end heard of a key that is pressed, or
\* that was released just now: onBlueKey() will tell them.
DownHeard(s) == \A k \in Keys, l \in Registered : got[s][k][l] = "down" =>
  \/ k \in pressed[s] /\ l \in audience[s][k]
  \/ <<k, l>> \in Releases(stack)

\* A key in a listener's m_aCanceledKeys was canceled for it.
CanceledTold(s) == \A l \in Registered : \A k \in canceled[l] : got[s][k][l] # "down"

\* Who heard of the end of a press while the key is still pressed was told by a
\* canceling function that still runs.
ClosedWhy(s) == \A k \in pressed[s] : \A l \in audience[s][k] \cap Registered :
  got[s][k][l] = "closed" => k \in canceled[l] /\ (ClosingIn(stack) \/ lst[l] = "leaving")

\* A loop over pressed keys f is right about who heard of the press, unless
\* the extra data of the listener tells it that another one was faster.
LoopRight(s, f) == \A p \in f.todo :
  /\ lst[p[2]] # "new" /\ p \notin Releases(stack)
  /\ p[2] \in Registered =>
       IF p \in f.heard THEN got[s][p[1]][p[2]] = "closed" => p[1] \in canceled[p[2]]
                        ELSE got[s][p[1]][p[2]] # "down"

\* When cancelSelectedAccessorKeys() clears the pressed keys it told everybody.
LoopComplete(s, f) == f.pc = "cancel" =>
  \A k \in pressed[s], l \in Registered : got[s][k][l] = "down" => <<k, l>> \in f.todo
LoopsRight(s) == \A f \in LoopsIn(stack) : LoopRight(s, f) /\ LoopComplete(s, f)

\* The listeners onBlueKey() still has to tell.
PressesRight(s) == \A p \in Presses(stack) :
  /\ lst[p[2]] # "new" /\ (p[2] \in Registered => got[s][p[1]][p[2]] # "down")
  /\ p[1] \in pressed[s] => p[2] \in audience[s][p[1]]
ReleasesRight(s) == \A p \in Releases(stack) :
  /\ lst[p[2]] # "new" /\ (p[2] \in Registered => got[s][p[1]][p[2]] # "closed")
  /\ p[1] \notin pressed[s]

UnplugClear(s) == Unplugging(stack) => pressed[s] = {} \/ ClosingIn(stack)
AudienceOld(s) == \A k \in pressed[s] : \A l \in audience[s][k] : lst[l] # "new"
NoneBad(s) == \A k \in Keys, l \in Listeners : got[s][k][l] # "bad"

EventInv(s) ==
  /\ UntoldNew(s) /\ DownHeard(s) /\ CanceledTold(s) /\ ClosedWhy(s)
  /\ LoopsRight(s) /\ PressesRight(s) /\ ReleasesRight(s)
  /\ UnplugClear(s) /\ AudienceOld(s) /\ NoneBad(s)

\* Listeners are added, removed or finalized, but none is added again.
LstMoves == \A l \in Listeners :
  /\ lst'[l] = "new" => lst[l] = "new"
  /\ l \in Registered' => l \in Registered \/ lst[l] = "new"
  /\ l \in Registered' /\ lst[l] = "leaving" => lst'[l] = "leaving"

\* The last canceling function resets the extra data of all listeners.
CanceledMoves ==
  \/ UNCHANGED canceled
  \/ /\ LoopsIn(stack) = {} /\ \A l \in Listeners : canceled'[l] = {}
     /\ \A l \in Registered' : lst'[l] # "leaving"

\* The key being told of stays, and no key press is told to more listeners.
TellingMoves == Releases(stack') = Releases(stack) /\ Presses(stack') \subseteq Presses(stack)

LEMMA RegisteredType == Registered \subseteq Listeners /\ Registered' \subseteq Listeners
  BY DEF Registered

LEMMA EventTypes ==
  ASSUME TypeOK, NEW s \in Slots
  PROVE  /\ pressed[s] \subseteq Keys
         /\ \A k \in Keys : audience[s][k] \subseteq Listeners
         /\ \A l \in Listeners : canceled[l] \subseteq Keys
         /\ \A q, T : \A p \in TellingIn(q, T) : p[1] \in Keys /\ p[2] \in Listeners
         /\ \A f \in LoopsIn(stack) : /\ f \in Frame /\ f.todo \subseteq Pairs
                                      /\ \A p \in f.todo : p[1] \in Keys /\ p[2] \in Listeners
<1>1. /\ pressed[s] \subseteq Keys
      /\ \A k \in Keys : audience[s][k] \subseteq Listeners
      /\ \A l \in Listeners : canceled[l] \subseteq Keys
  BY DEF TypeOK
<1>2. \A q, T : \A p \in TellingIn(q, T) : p[1] \in Keys /\ p[2] \in Listeners
  BY DEF TellingIn
<1>3. ASSUME NEW f \in LoopsIn(stack)
      PROVE  /\ f \in Frame /\ f.todo \subseteq Pairs
             /\ \A p \in f.todo : p[1] \in Keys /\ p[2] \in Listeners
  <2>1. f \in Frame
    BY DEF TypeOK, LoopsIn
  <2>2. f.todo \subseteq Pairs
    BY <2>1 DEF Frame
  <2> QED BY <2>1, <2>2
<1> QED BY <1>1, <1>2, <1>3

\* Steps that press, release and tell nothing.
LEMMA EventsQuiet ==
  ASSUME TypeOK, NEW s \in Slots, EventInv(s), NEW G,
         UNCHANGED <<got, pressed, audience>>, LstMoves, CanceledMoves, TellingMoves,
         LoopsIn(stack') \subseteq LoopsIn(stack) \cup G,
         \A g \in G : g.todo \subseteq Pairs /\ LoopRight(s, g) /\ LoopComplete(s, g),
         G = {} \/ UNCHANGED canceled,
         ClosingIn(stack) => ClosingIn(stack'), UnplugClear(s)'
  PROVE  EventInv(s)'
<1>1. /\ pressed[s] \subseteq Keys /\ \A k \in Keys : audience[s][k] \subseteq Listeners
      /\ Registered' \subseteq Listeners /\ Registered \subseteq Listeners
  BY EventTypes, RegisteredType
<1>2. UntoldNew(s)'
  BY DEF EventInv, UntoldNew, LstMoves, CanceledMoves
<1>3. \A l \in Registered' : l \in Registered \/ (canceled[l] = {} /\ \A k \in Keys : got[s][k][l] = "up")
  BY <1>1 DEF EventInv, UntoldNew, LstMoves
<1>4. DownHeard(s)'
  BY <1>1, <1>3 DEF EventInv, DownHeard, TellingMoves
<1>5. CanceledTold(s)'
  BY <1>1, <1>3 DEF EventInv, CanceledTold, CanceledMoves
<1>6. ClosedWhy(s)'
  <2>1. ASSUME NEW k \in pressed[s], NEW l \in audience[s][k], l \in Registered', got[s][k][l] = "closed"
        PROVE  k \in canceled'[l] /\ (ClosingIn(stack') \/ lst'[l] = "leaving")
    <3>1. l \in Registered /\ l \in Listeners
      BY <1>1, <1>3, <2>1
    <3>2. k \in canceled[l] /\ (ClosingIn(stack) \/ lst[l] = "leaving")
      BY <2>1, <3>1 DEF EventInv, ClosedWhy
    <3>3. ClosingIn(stack') \/ lst'[l] = "leaving"
      BY <2>1, <3>1, <3>2 DEF LstMoves
    <3>4. UNCHANGED canceled
      <4>1. LoopsIn(stack) = {} => ~ClosingIn(stack)
        BY DEF ClosingIn
      <4> QED BY <2>1, <3>1, <3>2, <4>1 DEF CanceledMoves, LstMoves
    <3> QED BY <3>2, <3>3, <3>4
  <2> QED BY <2>1 DEF ClosedWhy
<1>7. ASSUME NEW f \in LoopsIn(stack) \cup G, f \in LoopsIn(stack')
      PROVE  LoopRight(s, f)' /\ LoopComplete(s, f)'
  <2>1. /\ LoopRight(s, f) /\ LoopComplete(s, f)
        /\ \A p \in f.todo : p[1] \in Keys /\ p[2] \in Listeners
    <3>1. CASE f \in LoopsIn(stack)
      BY <3>1, EventTypes DEF EventInv, LoopsRight
    <3>2. CASE f \in G
      BY <3>2
    <3> QED BY <3>1, <3>2
  <2>2. UNCHANGED canceled
    BY <1>7 DEF CanceledMoves
  <2>3. LoopRight(s, f)'
    BY <1>1, <2>1, <2>2 DEF LoopRight, LstMoves, TellingMoves
  <2>4. LoopComplete(s, f)'
    BY <1>1, <1>3, <2>1 DEF LoopComplete
  <2> QED BY <2>3, <2>4
<1>8. LoopsRight(s)'
  BY <1>7 DEF LoopsRight
<1>9. PressesRight(s)' /\ ReleasesRight(s)'
  <2>1. /\ \A p \in Presses(stack) : p[1] \in Keys /\ p[2] \in Listeners
        /\ \A p \in Releases(stack) : p[1] \in Keys /\ p[2] \in Listeners
    BY EventTypes DEF Presses, Releases
  <2>2. PressesRight(s)'
    BY <2>1 DEF EventInv, PressesRight, LstMoves, TellingMoves
  <2>3. ReleasesRight(s)'
    BY <2>1 DEF EventInv, ReleasesRight, LstMoves, TellingMoves
  <2> QED BY <2>2, <2>3
<1>10. AudienceOld(s)' /\ NoneBad(s)'
  BY <1>1 DEF EventInv, AudienceOld, NoneBad, LstMoves
<1> QED BY <1>2, <1>4, <1>5, <1>6, <1>8, <1>9, <1>10 DEF EventInv

\* The pressed keys are cleared, and who still heard of a press will be told.
LEMMA EventsForget ==
  ASSUME TypeOK, NEW s \in Slots, EventInv(s),
         UNCHANGED <<got, lst>>, CanceledMoves, TellingMoves, pressed'[s] = {},
         \A k \in pressed[s], l \in Registered : got[s][k][l] # "down",
         LoopsIn(stack') \subseteq LoopsIn(stack)
  PROVE  EventInv(s)'
<1>1. Registered' = Registered /\ Registered \subseteq Listeners
  BY DEF Registered
<1>2. UntoldNew(s)'
  BY DEF EventInv, UntoldNew, CanceledMoves
<1>3. DownHeard(s)'
  BY <1>1 DEF EventInv, DownHeard, TellingMoves
<1>4. CanceledTold(s)'
  BY <1>1 DEF EventInv, CanceledTold, CanceledMoves
<1>5. ClosedWhy(s)' /\ AudienceOld(s)' /\ UnplugClear(s)'
  BY DEF ClosedWhy, AudienceOld, UnplugClear
<1>6. LoopsRight(s)'
  <2>1. ASSUME NEW f \in LoopsIn(stack') PROVE LoopRight(s, f)' /\ LoopComplete(s, f)'
    <3>1. LoopRight(s, f) /\ UNCHANGED canceled
      BY <2>1 DEF EventInv, LoopsRight, CanceledMoves
    <3>2. LoopRight(s, f)'
      BY <1>1, <3>1 DEF LoopRight, TellingMoves
    <3> QED BY <3>2 DEF LoopComplete
  <2> QED BY <2>1 DEF LoopsRight
<1>7. PressesRight(s)'
  BY <1>1 DEF EventInv, PressesRight, TellingMoves
<1>8. ReleasesRight(s)'
  BY <1>1 DEF EventInv, ReleasesRight, TellingMoves
<1>9. NoneBad(s)'
  BY DEF EventInv, NoneBad
<1> QED BY <1>2, <1>3, <1>4, <1>5, <1>6, <1>7, <1>8, <1>9 DEF EventInv

\* What sendKeyEventToListener() makes of the history.
LEMMA SendGot ==
  ASSUME TypeOK, NEW s \in Slots, NEW k \in Keys, NEW l \in Listeners, NEW t, Send(l, s, k, t)
  PROVE  \A k2 \in Keys, l2 \in Listeners :
           got'[s][k2][l2] = IF l \in Registered /\ k2 = k /\ l2 = l
                               THEN Told(got[s][k][l], t) ELSE got[s][k2][l2]
<1>1. got \in [Slots -> [Keys -> [Listeners -> {"up", "down", "closed", "bad"}]]]
  BY DEF TypeOK
<1>2. CASE l \in Registered
  <2>1. got' = [got EXCEPT ![s][k][l] = Told(got[s][k][l], t)]
    BY <1>2 DEF Send
  <2> QED BY <1>1, <1>2, <2>1
<1>3. CASE l \notin Registered
  BY <1>3 DEF Send
<1> QED BY <1>2, <1>3

\* A loop over pressed keys cancels one for one listener, or skips it.
LEMMA EventsCancel ==
  ASSUME TypeOK, NEW s \in Slots, EventInv(s), UNCHANGED <<pressed, audience, lst>>,
         NEW f \in LoopsIn(stack), NEW k \in Keys, NEW l \in Listeners, <<k, l>> \in f.todo,
         NEW g, g.pc = f.pc, g.todo = f.todo \ {<<k, l>>}, g.heard = f.heard,
         f.pc = "cancel" \/ lst[l] = "leaving",
         LoopsIn(stack') \subseteq LoopsIn(stack) \cup {g}, ClosingIn(stack) => ClosingIn(stack'),
         f.pc = "cancel" => ClosingIn(stack'), UnplugClear(s)', TellingMoves,
         \/ k \in canceled[l] /\ UNCHANGED <<canceled, got>>
         \/ /\ k \notin canceled[l]
            /\ canceled' = [canceled EXCEPT ![l] = @ \cup {k}]
            /\ IF <<k, l>> \in f.heard THEN Send(l, s, k, "cancel") ELSE UNCHANGED got
  PROVE  EventInv(s)'
<1> DEFINE p == <<k, l>>
<1>1. /\ pressed[s] \subseteq Keys /\ \A j \in Keys : audience[s][j] \subseteq Listeners
      /\ Registered' = Registered /\ Registered \subseteq Listeners
      /\ canceled \in [Listeners -> SUBSET Keys]
      /\ got \in [Slots -> [Keys -> [Listeners -> {"up", "down", "closed", "bad"}]]]
  BY EventTypes DEF Registered, TypeOK
<1>2. lst[l] # "new" /\ p \notin Releases(stack)
  BY DEF EventInv, LoopsRight, LoopRight
<1>3. \A m \in Listeners : canceled[m] \subseteq canceled'[m] /\ (m # l => canceled'[m] = canceled[m])
  BY <1>1
<1>4. \A m \in Listeners : \A j \in canceled'[m] : j \in canceled[m] \/ (j = k /\ m = l)
  BY <1>1
<1>5. \/ UNCHANGED got
      \/ /\ l \in Registered /\ got[s][k][l] \in {"up", "down"}
         /\ k \in canceled'[l]
         /\ \A j \in Keys, m \in Listeners :
              got'[s][j][m] = IF j = k /\ m = l THEN "closed" ELSE got[s][j][m]
  <2>1. CASE UNCHANGED got
    BY <2>1
  <2>2. CASE Send(l, s, k, "cancel") /\ p \in f.heard /\ k \notin canceled[l] /\ l \in Registered
    <3>1. \A j \in Keys, m \in Listeners :
            got'[s][j][m] = IF j = k /\ m = l THEN Told(got[s][k][l], "cancel") ELSE got[s][j][m]
      BY <2>2, SendGot
    <3>2. got[s][k][l] # "closed"
      BY <2>2 DEF EventInv, LoopsRight, LoopRight
    <3>3. got[s][k][l] # "bad"
      BY DEF EventInv, NoneBad
    <3>4. Told(got[s][k][l], "cancel") = "closed" /\ got[s][k][l] \in {"up", "down"}
      BY <1>1, <3>2, <3>3 DEF Told
    <3>5. k \in canceled'[l]
      BY <1>1, <2>2
    <3> QED BY <2>2, <3>1, <3>4, <3>5
  <2>3. CASE Send(l, s, k, "cancel") /\ l \notin Registered
    BY <2>3 DEF Send
  <2> QED BY <2>1, <2>2, <2>3
<1>6. /\ l \in Registered /\ k \in canceled'[l] => got'[s][k][l] # "down"
      /\ \A j \in Keys, m \in Listeners : got'[s][j][m] = "down" => got[s][j][m] = "down"
      /\ \A j \in Keys, m \in Listeners : got'[s][j][m] = "closed" =>
           got[s][j][m] = "closed" \/ (j = k /\ m = l /\ k \in canceled'[l])
      /\ \A j \in Keys, m \in Listeners : got'[s][j][m] # "bad"
  <2>1. l \in Registered /\ UNCHANGED got /\ k \in canceled'[l] => got'[s][k][l] # "down"
    <3>1. CASE k \in canceled[l]
      BY <3>1 DEF EventInv, CanceledTold
    <3>2. CASE k \notin canceled[l] /\ p \notin f.heard
      BY <3>2 DEF EventInv, LoopsRight, LoopRight
    <3>3. CASE k \notin canceled[l] /\ p \in f.heard /\ l \in Registered /\ UNCHANGED got
      <4>1. Told(got[s][k][l], "cancel") # "down"
        BY DEF Told
      <4>2. got'[s][k][l] = Told(got[s][k][l], "cancel")
        BY <3>3, SendGot
      <4> QED BY <4>1, <4>2
    <3> QED BY <3>1, <3>2, <3>3
  <2>2. \A j \in Keys, m \in Listeners : got[s][j][m] # "bad"
    BY DEF EventInv, NoneBad
  <2> QED BY <1>5, <2>1, <2>2
<1>7. UntoldNew(s)'
  <2>1. ASSUME NEW m \in Listeners, lst[m] = "new"
        PROVE  canceled'[m] = {} /\ \A j \in Keys : got'[s][j][m] = "up"
    BY <1>2, <1>3, <1>5, <2>1 DEF EventInv, UntoldNew
  <2> QED BY <2>1 DEF UntoldNew
<1>8. DownHeard(s)'
  BY <1>1, <1>6 DEF EventInv, DownHeard, TellingMoves
<1>9. CanceledTold(s)'
  BY <1>1, <1>4, <1>6 DEF EventInv, CanceledTold
<1>10. ClosedWhy(s)'
  <2>1. ASSUME NEW j \in pressed[s], NEW m \in audience[s][j], m \in Registered, got'[s][j][m] = "closed"
        PROVE  j \in canceled'[m] /\ (ClosingIn(stack') \/ lst[m] = "leaving")
    <3>1. j \in Keys /\ m \in Listeners
      BY <1>1, <2>1
    <3>2. CASE got[s][j][m] = "closed"
      <4>1. j \in canceled[m] /\ (ClosingIn(stack) \/ lst[m] = "leaving")
        BY <2>1, <3>2 DEF EventInv, ClosedWhy
      <4> QED BY <1>3, <3>1, <4>1
    <3>3. CASE j = k /\ m = l /\ k \in canceled'[l]
      BY <3>3
    <3> QED BY <1>6, <2>1, <3>1, <3>2, <3>3
  <2> QED BY <1>1, <2>1 DEF ClosedWhy
<1>11. ASSUME NEW h \in LoopsIn(stack) PROVE LoopRight(s, h)'
  <2>1. LoopRight(s, h) /\ \A x \in h.todo : x[1] \in Keys /\ x[2] \in Listeners
    BY EventTypes DEF EventInv, LoopsRight
  <2>2. ASSUME NEW x \in h.todo, x[2] \in Registered, x \in h.heard, got'[s][x[1]][x[2]] = "closed"
        PROVE  x[1] \in canceled'[x[2]]
    <3>1. CASE got[s][x[1]][x[2]] = "closed"
      BY <1>3, <2>1, <2>2, <3>1 DEF LoopRight
    <3>2. CASE x[1] = k /\ x[2] = l /\ k \in canceled'[l]
      BY <3>2
    <3> QED BY <1>6, <2>1, <2>2, <3>1, <3>2
  <2>3. ASSUME NEW x \in h.todo, x[2] \in Registered, x \notin h.heard
        PROVE  got'[s][x[1]][x[2]] # "down"
    BY <1>6, <2>1, <2>3 DEF LoopRight
  <2> QED BY <1>1, <2>1, <2>2, <2>3 DEF LoopRight, TellingMoves
<1>12. ASSUME NEW h \in LoopsIn(stack) PROVE LoopComplete(s, h)'
  <2>1. LoopComplete(s, h)
    BY DEF EventInv, LoopsRight
  <2> QED BY <1>1, <1>6, <2>1 DEF LoopComplete
<1>13. LoopRight(s, g)'
  BY <1>11 DEF LoopRight
<1>14. LoopComplete(s, g)'
  <2>1. ASSUME g.pc = "cancel", NEW j \in pressed[s], NEW m \in Registered, got'[s][j][m] = "down"
        PROVE  <<j, m>> \in g.todo
    <3>1. <<j, m>> \in f.todo
      BY <1>1, <1>12, <2>1 DEF LoopComplete
    <3>2. <<j, m>> # <<k, l>>
      <4>1. f.pc = "cancel" /\ got[s][j][m] = "down"
        BY <1>1, <1>6, <2>1
      <4>2. ASSUME j = k, m = l PROVE FALSE
        <5>1. k \in canceled'[l]
          BY <1>1, <1>3, <4>2
        <5> QED BY <1>6, <2>1, <4>2, <5>1
      <4> QED BY <4>2
    <3> QED BY <3>1, <3>2
  <2> QED BY <1>1, <2>1 DEF LoopComplete
<1>15. LoopsRight(s)'
  BY <1>11, <1>12, <1>13, <1>14 DEF LoopsRight
<1>16. PressesRight(s)'
  <2>1. \A x \in Presses(stack) : x[1] \in Keys /\ x[2] \in Listeners
    BY EventTypes DEF Presses
  <2> QED BY <1>1, <1>6, <2>1 DEF EventInv, PressesRight, TellingMoves
<1>17. ReleasesRight(s)'
  <2>1. \A x \in Releases(stack) : x[1] \in Keys /\ x[2] \in Listeners /\ x = <<x[1], x[2]>>
    BY DEF Releases, TellingIn
  <2>2. \A x \in Releases(stack) : ~(x[1] = k /\ x[2] = l)
    BY <1>2, <2>1
  <2> QED BY <1>1, <1>6, <2>1, <2>2 DEF EventInv, ReleasesRight, TellingMoves
<1>18. AudienceOld(s)' /\ NoneBad(s)'
  BY <1>1, <1>6 DEF EventInv, AudienceOld, NoneBad
<1> QED BY <1>7, <1>8, <1>9, <1>10, <1>15, <1>16, <1>17, <1>18 DEF EventInv

\* Between dispatches.
LEMMA IdleEvents ==
  ASSUME Idle, LeavingInv
  PROVE  /\ LoopsIn(stack) = {} /\ ~ClosingIn(stack) /\ FinalizingIn(stack) = {}
         /\ Presses(stack) = {} /\ Releases(stack) = {} /\ ~Unplugging(stack)
         /\ \A l \in Listeners : lst[l] # "leaving"
<1>1. LoopsIn(stack) = {} /\ FinalizingIn(stack) = {} /\ ~Unplugging(stack)
  BY DEF Idle, LoopsIn, FinalizingIn, Unplugging
<1>2. Presses(stack) = {} /\ Releases(stack) = {}
  BY DEF Idle, Presses, Releases, TellingIn
<1> QED BY <1>1, <1>2 DEF ClosingIn, LeavingInv

\* A single function that is no loop over pressed keys.
LEMMA SingleFrame ==
  ASSUME NEW f
  PROVE  /\ FinalizingIn(<<f>>) = (IF f.pc = "finalize" THEN {f.lst} ELSE {})
         /\ FinalizeOnce(<<f>>)
         /\ f.pc \notin LoopPcs => LoopsIn(<<f>>) = {} /\ ~ClosingIn(<<f>>)
         /\ f.pc # "key" => Presses(<<f>>) = {} /\ Releases(<<f>>) = {}
         /\ f.pc = "key" => /\ ~Unplugging(<<f>>)
                            /\ f.type = "press" => Releases(<<f>>) = {}
                            /\ f.type # "press" => Presses(<<f>>) = {}
                            /\ \A p \in Presses(<<f>>) \cup Releases(<<f>>) :
                                 p[1] = f.key /\ p[2] \in f.ls
                            /\ f.key \in Keys =>
                                 \A l \in f.ls \cap Listeners :
                                   f.type \in {"release", "cancel"} => <<f.key, l>> \in Releases(<<f>>)
<1> DEFINE q == <<f>>
<1>1. Len(q) = 1 /\ q[1] = f /\ q # <<>>
  OBVIOUS
<1> HIDE DEF q
<1>2. \A i : i \in 1..Len(q) <=> i = 1
  BY <1>1
<1>3. FinalizingIn(q) = (IF f.pc = "finalize" THEN {f.lst} ELSE {}) /\ FinalizeOnce(q)
  BY <1>1, <1>2 DEF FinalizingIn, FinalizeOnce
<1>4. f.pc \notin LoopPcs => LoopsIn(q) = {} /\ ~ClosingIn(q)
  BY <1>1, <1>2 DEF LoopsIn, ClosingIn
<1>5. f.pc # "key" => Presses(q) = {} /\ Releases(q) = {}
  BY <1>1 DEF Presses, Releases, TellingIn
<1>6. ASSUME f.pc = "key"
      PROVE  /\ ~Unplugging(q)
             /\ f.type = "press" => Releases(q) = {}
             /\ f.type # "press" => Presses(q) = {}
             /\ \A p \in Presses(q) \cup Releases(q) : p[1] = f.key /\ p[2] \in f.ls
             /\ f.key \in Keys =>
                  \A l \in f.ls \cap Listeners :
                    f.type \in {"release", "cancel"} => <<f.key, l>> \in Releases(q)
  <2>1. ~Unplugging(q)
    BY <1>1, <1>6 DEF Unplugging
  <2>2. /\ f.type = "press" => Releases(q) = {}
        /\ f.type # "press" => Presses(q) = {}
        /\ \A p \in Presses(q) \cup Releases(q) : p[1] = f.key /\ p[2] \in f.ls
    BY <1>1, <1>6 DEF Presses, Releases, TellingIn
  <2>3. f.key \in Keys =>
          \A l \in f.ls \cap Listeners :
            f.type \in {"release", "cancel"} => <<f.key, l>> \in Releases(q)
    BY <1>1, <1>6 DEF Releases, TellingIn
  <2> QED BY <2>1, <2>2, <2>3
<1> QED BY <1>3, <1>4, <1>5, <1>6 DEF q

LEMMA EventsPress ==
  ASSUME TypeOK, NEW s \in Slots, EventInv(s), LeavingInv, NEW k \in Keys, OnBluePress(s, k)
  PROVE  EventInv(s)'
<1> DEFINE f == KeyFrame(s, k, "press", Registered)
<1>1. /\ Idle /\ k \notin pressed[s] /\ stack' = <<f>> /\ UNCHANGED <<lst, canceled>>
      /\ pressed' = [pressed EXCEPT ![s] = @ \cup {k}]
      /\ audience' = [audience EXCEPT ![s][k] = Registered]
      /\ got' = [got EXCEPT ![s][k] = [l \in Listeners |-> IF @[l] = "closed" THEN "up" ELSE @[l]]]
  BY DEF OnBluePress, lstVars
<1>2. /\ pressed \in [Slots -> SUBSET Keys] /\ audience \in [Slots -> [Keys -> SUBSET Listeners]]
      /\ got \in [Slots -> [Keys -> [Listeners -> {"up", "down", "closed", "bad"}]]]
      /\ Registered' = Registered /\ Registered \subseteq Listeners
  BY <1>1 DEF TypeOK, Registered
<1>3. /\ pressed'[s] = pressed[s] \cup {k} /\ audience'[s][k] = Registered
      /\ \A j \in Keys : j # k => audience'[s][j] = audience[s][j]
      /\ pressed[s] \subseteq Keys
  BY <1>1, <1>2
<1>4. /\ \A j \in Keys, l \in Listeners : j # k => got'[s][j][l] = got[s][j][l]
      /\ \A l \in Listeners :
           got'[s][k][l] = IF got[s][k][l] = "closed" THEN "up" ELSE got[s][k][l]
  BY <1>1, <1>2
<1>5. f.pc = "key" /\ f.slot = s /\ f.key = k /\ f.type = "press" /\ f.ls = Registered
  BY PushedFrames
<1> HIDE DEF f
<1>6. /\ LoopsIn(stack') = {} /\ Releases(stack') = {} /\ ~Unplugging(stack')
      /\ \A p \in Presses(stack') : p[1] = k /\ p[2] \in Registered
  BY <1>1, <1>5, SingleFrame DEF LoopPcs
<1>7. /\ LoopsIn(stack) = {} /\ ~ClosingIn(stack) /\ Releases(stack) = {}
      /\ \A l \in Listeners : lst[l] # "leaving"
  BY <1>1, IdleEvents
<1>8. \A l \in Registered : got[s][k][l] # "down"
  BY <1>1, <1>7 DEF EventInv, DownHeard
<1>9. UntoldNew(s)'
  BY <1>1, <1>4 DEF EventInv, UntoldNew
<1>10. DownHeard(s)'
  BY <1>2, <1>3, <1>4, <1>7, <1>8 DEF EventInv, DownHeard
<1>11. CanceledTold(s)'
  <2>1. \A l \in Listeners : canceled[l] \subseteq Keys
    BY EventTypes
  <2> QED BY <1>1, <1>2, <1>4, <1>8, <2>1 DEF EventInv, CanceledTold
<1>12. ClosedWhy(s)'
  <2>1. ASSUME NEW j \in pressed'[s], NEW l \in audience'[s][j], l \in Registered,
               got'[s][j][l] = "closed"
        PROVE  FALSE
    <3>1. j # k
      BY <1>2, <1>4, <2>1
    <3>2. j \in pressed[s] /\ j \in Keys /\ l \in audience[s][j] /\ got[s][j][l] = "closed"
      BY <1>2, <1>3, <1>4, <2>1, <3>1
    <3> QED BY <1>2, <1>7, <2>1, <3>2 DEF EventInv, ClosedWhy
  <2> QED BY <1>2, <2>1 DEF ClosedWhy
<1>13. LoopsRight(s)' /\ ReleasesRight(s)' /\ UnplugClear(s)'
  BY <1>6 DEF LoopsRight, ReleasesRight, UnplugClear
<1>14. PressesRight(s)'
  BY <1>1, <1>2, <1>3, <1>4, <1>6, <1>8, ZenonT(40) DEF PressesRight, Registered
<1>15. AudienceOld(s)'
  BY <1>1, <1>2, <1>3 DEF EventInv, AudienceOld, Registered
<1>16. NoneBad(s)'
  BY <1>4 DEF EventInv, NoneBad
<1> QED BY <1>9, <1>10, <1>11, <1>12, <1>13, <1>14, <1>15, <1>16 DEF EventInv

LEMMA EventsRelease ==
  ASSUME TypeOK, NEW s \in Slots, EventInv(s), LeavingInv, NEW k \in Keys, NEW t,
         OnBlueRelease(s, k, t)
  PROVE  EventInv(s)'
<1> DEFINE ls == Registered \cap audience[s][k]
           f == KeyFrame(s, k, t, ls)
<1>1. /\ Idle /\ k \in pressed[s] /\ t \in {"release", "cancel"} /\ stack' = <<f>>
      /\ UNCHANGED <<lst, canceled, got>>
      /\ pressed' = [pressed EXCEPT ![s] = @ \ {k}]
      /\ audience' = [audience EXCEPT ![s][k] = {}]
  BY DEF OnBlueRelease, lstVars
<1>2. /\ pressed \in [Slots -> SUBSET Keys] /\ audience \in [Slots -> [Keys -> SUBSET Listeners]]
      /\ Registered' = Registered /\ Registered \subseteq Listeners
  BY <1>1 DEF TypeOK, Registered
<1>3. /\ pressed'[s] = pressed[s] \ {k} /\ pressed[s] \subseteq Keys
      /\ \A j \in Keys : j # k => audience'[s][j] = audience[s][j]
  BY <1>1, <1>2
<1>4. f.pc = "key" /\ f.slot = s /\ f.key = k /\ f.type = t /\ f.ls = ls
  BY PushedFrames
<1> HIDE DEF f
<1>5. /\ LoopsIn(stack') = {} /\ Presses(stack') = {} /\ ~Unplugging(stack')
      /\ \A p \in Releases(stack') : p[1] = k /\ p[2] \in ls
      /\ \A l \in ls : <<k, l>> \in Releases(stack')
  BY <1>1, <1>2, <1>4, SingleFrame DEF LoopPcs
<1>6. /\ LoopsIn(stack) = {} /\ ~ClosingIn(stack) /\ Releases(stack) = {}
      /\ \A l \in Listeners : lst[l] # "leaving"
  BY <1>1, IdleEvents
<1>7. UntoldNew(s)' /\ CanceledTold(s)' /\ NoneBad(s)'
  BY <1>1, <1>2 DEF EventInv, UntoldNew, CanceledTold, NoneBad
<1>8. DownHeard(s)'
  <2>1. ASSUME NEW j \in Keys, NEW l \in Registered, got[s][j][l] = "down"
        PROVE  (j \in pressed'[s] /\ l \in audience'[s][j]) \/ <<j, l>> \in Releases(stack')
    <3>1. j \in pressed[s] /\ l \in audience[s][j]
      BY <1>6, <2>1 DEF EventInv, DownHeard
    <3> QED BY <1>3, <1>5, <2>1, <3>1
  <2> QED BY <1>1, <1>2, <2>1 DEF DownHeard
<1>9. ClosedWhy(s)'
  <2>1. \A j \in pressed[s], l \in Registered : l \in audience[s][j] => got[s][j][l] # "closed"
    BY <1>2, <1>6 DEF EventInv, ClosedWhy
  <2> QED BY <1>1, <1>2, <1>3, <2>1 DEF ClosedWhy
<1>10. LoopsRight(s)' /\ PressesRight(s)' /\ UnplugClear(s)'
  BY <1>5 DEF LoopsRight, PressesRight, UnplugClear
<1>11. ReleasesRight(s)'
  <2>1. \A l \in ls : lst[l] # "new" /\ got[s][k][l] # "closed"
    BY <1>1, <1>2, <1>6 DEF EventInv, ClosedWhy, Registered
  <2> QED BY <1>1, <1>3, <1>5, <2>1 DEF ReleasesRight
<1>12. AudienceOld(s)'
  BY <1>1, <1>2, <1>3 DEF EventInv, AudienceOld
<1> QED BY <1>7, <1>8, <1>9, <1>10, <1>11, <1>12 DEF EventInv

\* The functions that listeners never call run alone.
LEMMA OnlyFrame ==
  ASSUME TypeOK, Stacked(stack), ~Idle, Top.pc \in {"key", "mgmt", "unplug"}
  PROVE  /\ stack = <<Top>> /\ Popped = <<>>
         /\ \A f \in Frame : Replaced(f) = <<f>>
<1>1. stack \in Seq(Frame) /\ Len(stack) \in Nat \ {0} /\ Top = stack[Len(stack)]
  BY PoppedProps DEF TypeOK, Top
<1>2. ASSUME Len(stack) # 1 PROVE FALSE
  <2> DEFINE n == Len(stack)
  <2>1. n \in Nat \ {0} /\ n # 1
    BY <1>1, <1>2
  <2>2. n - 1 \in 1..(n - 1) /\ (n - 1) + 1 = n
    <3> HIDE DEF n
    <3> QED BY <2>1
  <2>3. Above(stack[n - 1], stack[(n - 1) + 1])
    BY <2>2 DEF Stacked
  <2> QED BY <1>1, <2>2, <2>3 DEF Above
<1>3. Len(stack) = 1 /\ stack = <<Top>>
  BY <1>1, <1>2
<1>4. Popped = <<>>
  <2>1. Popped \in Seq(Frame) /\ Len(Popped) = 0
    BY <1>1, <1>3, PoppedProps
  <2> QED BY <2>1
<1>5. ASSUME NEW f \in Frame PROVE Replaced(f) = <<f>>
  <2>1. Replaced(f) \in Seq(Frame) /\ Len(Replaced(f)) = 1 /\ Replaced(f)[1] = f
    BY <1>1, <1>3, ReplacedProps
  <2> QED BY <2>1
<1> QED BY <1>3, <1>4, <1>5

\* While such a function runs no listener is being finalized and no key is canceled.
LEMMA NothingCanceled ==
  ASSUME NestInv, LeavingInv, NEW f, stack = <<f>>, f.pc \notin LoopPcs, f.pc \notin CancelPcs
  PROVE  /\ LoopsIn(stack) = {} /\ ~ClosingIn(stack)
         /\ \A l \in Listeners : lst[l] # "leaving" /\ canceled[l] = {}
<1>1. LoopsIn(stack) = {} /\ ~ClosingIn(stack) /\ FinalizingIn(stack) = {}
  BY SingleFrame DEF CancelPcs
<1>2. CancelingIn(stack) = {}
  BY DEF CancelingIn
<1>3. Cardinality({}) = 0
  BY FS_EmptySet, Zenon
<1>4. depth = 0
  BY <1>2, <1>3, NestParts DEF NestInv
<1> QED BY <1>1, <1>4, NestParts DEF NestInv, LeavingInv

\* onBlueKey() tells the next listener.
LEMMA EventsTell ==
  ASSUME NestInv, NEW s \in Slots, \A r \in Slots : r = s, EventInv(s), LeavingInv, ~Idle,
         Top.pc = "key", ~KeyDone, NEW l \in Top.ls,
         stack' = Replaced([Top EXCEPT !.ls = @ \ {l}, !.cb = TRUE]),
         Send(l, Top.slot, Top.key, Top.type), UNCHANGED <<pressed, audience, lst, canceled>>
  PROVE  EventInv(s)'
<1> DEFINE k == Top.key
           t == Top.type
<1>1. TypeOK /\ Stacked(stack) /\ stack = <<Top>> /\ Top \in Frame /\ FrameFine(Top)
  BY OnlyFrame, TopAdvances DEF NestInv
<1>2. /\ Top.slot = s /\ k \in Keys /\ l \in Listeners /\ t \in Types
      /\ t = "press" => k \in pressed[s]
  BY <1>1 DEF Frame, FrameFine, KeyDone
<1>3. PICK f \in Frame : /\ stack' = <<f>> /\ f.pc = "key" /\ f.key = k /\ f.type = t
                         /\ f.ls = Top.ls \ {l}
  BY <1>1, Calls, OnlyFrame
<1>4. /\ LoopsIn(stack) = {} /\ ~ClosingIn(stack)
      /\ \A m \in Listeners : lst[m] # "leaving" /\ canceled[m] = {}
  BY <1>1, NothingCanceled DEF LoopPcs, CancelPcs
<1>5. LoopsIn(stack') = {} /\ ~ClosingIn(stack') /\ ~Unplugging(stack')
  BY <1>3, SingleFrame DEF LoopPcs
<1>6. /\ t = "press" => Releases(stack) = {} /\ Releases(stack') = {} /\ <<k, l>> \in Presses(stack)
      /\ t # "press" => /\ Presses(stack) = {} /\ Presses(stack') = {}
                        /\ <<k, l>> \in Releases(stack)
  BY <1>1, <1>2, <1>3 DEF Presses, Releases, TellingIn
<1>7. /\ \A p \in Presses(stack') : p \in Presses(stack) /\ p[1] = k /\ p[2] # l
      /\ \A p \in Releases(stack') : p \in Releases(stack) /\ p[1] = k /\ p[2] # l
  BY <1>1, <1>2, <1>3 DEF Presses, Releases, TellingIn
<1>8. \A j \in Keys, m \in Listeners :
        <<j, m>> \in Releases(stack) /\ ~(j = k /\ m = l) => <<j, m>> \in Releases(stack')
  BY <1>1, <1>2, <1>3 DEF Releases, TellingIn
<1> DEFINE told == IF t = "press" THEN "down" ELSE "closed"
<1>9. Registered' = Registered /\ Registered \subseteq Listeners
  BY DEF Registered
<1>10. lst[l] # "new"
  BY <1>2, <1>6 DEF EventInv, PressesRight, ReleasesRight, Types
<1>11. ASSUME l \in Registered PROVE Told(got[s][k][l], t) = told
  <2>1. got[s][k][l] \in {"up", "down", "closed", "bad"} /\ got[s][k][l] # "bad"
    BY <1>1, <1>2 DEF TypeOK, EventInv, NoneBad
  <2>2. CASE t = "press"
    <3>1. got[s][k][l] # "down" /\ l \in audience[s][k]
      BY <1>2, <1>6, <1>11, <2>2 DEF EventInv, PressesRight
    <3>2. got[s][k][l] # "closed"
      BY <1>2, <1>4, <1>11, <2>2, <3>1 DEF EventInv, ClosedWhy
    <3> QED BY <2>1, <2>2, <3>1, <3>2 DEF Told
  <2>3. CASE t # "press"
    <3>1. got[s][k][l] # "closed"
      BY <1>2, <1>6, <1>11, <2>3 DEF EventInv, ReleasesRight
    <3> QED BY <2>1, <2>3, <3>1 DEF Told
  <2> QED BY <2>2, <2>3
<1>12. \A j \in Keys, m \in Listeners :
         got'[s][j][m] = IF l \in Registered /\ j = k /\ m = l THEN told ELSE got[s][j][m]
  BY <1>1, <1>2, <1>11, SendGot
<1> HIDE DEF k, t
<1>13. UntoldNew(s)' /\ CanceledTold(s)' /\ NoneBad(s)' /\ AudienceOld(s)'
  <2>1. UntoldNew(s)'
    BY <1>10, <1>12 DEF EventInv, UntoldNew
  <2>2. CanceledTold(s)'
    BY <1>4, <1>9 DEF CanceledTold
  <2>3. NoneBad(s)'
    BY <1>12 DEF EventInv, NoneBad
  <2>4. AudienceOld(s)'
    BY DEF EventInv, AudienceOld
  <2> QED BY <2>1, <2>2, <2>3, <2>4
<1>14. DownHeard(s)'
  <2>1. ASSUME NEW j \in Keys, NEW m \in Registered, got'[s][j][m] = "down"
        PROVE  (j \in pressed[s] /\ m \in audience[s][j]) \/ <<j, m>> \in Releases(stack')
    <3>1. CASE l \in Registered /\ j = k /\ m = l
      <4>1. t = "press"
        BY <1>9, <1>12, <2>1, <3>1
      <4> QED BY <1>2, <1>6, <3>1, <4>1 DEF EventInv, PressesRight
    <3>2. CASE ~(l \in Registered /\ j = k /\ m = l)
      <4>1. got[s][j][m] = "down" /\ ~(j = k /\ m = l)
        BY <1>9, <1>12, <2>1, <3>2
      <4> QED BY <1>8, <1>9, <2>1, <4>1 DEF EventInv, DownHeard
    <3> QED BY <3>1, <3>2
  <2> QED BY <1>9, <2>1 DEF DownHeard
<1>15. ClosedWhy(s)'
  <2>1. ASSUME NEW j \in pressed[s], NEW m \in audience[s][j], m \in Registered,
               got'[s][j][m] = "closed"
        PROVE  FALSE
    <3>1. j \in Keys /\ m \in Listeners
      BY <1>1, <1>9, <2>1, EventTypes
    <3>2. got[s][j][m] # "closed"
      BY <1>4, <2>1, <3>1 DEF EventInv, ClosedWhy
    <3>3. j = k /\ t # "press"
      BY <1>12, <2>1, <3>1, <3>2
    <3>4. k \notin pressed[s]
      BY <1>6, <3>3 DEF EventInv, ReleasesRight
    <3> QED BY <2>1, <3>3, <3>4
  <2> QED BY <1>9, <2>1 DEF ClosedWhy
<1>16. LoopsRight(s)' /\ UnplugClear(s)'
  BY <1>5 DEF LoopsRight, UnplugClear
<1>17. PressesRight(s)'
  <2>1. \A p \in Presses(stack') : p[1] \in Keys /\ p[2] \in Listeners
    BY DEF Presses, TellingIn
  <2> QED BY <1>7, <1>9, <1>12, <2>1 DEF EventInv, PressesRight
<1>18. ReleasesRight(s)'
  <2>1. \A p \in Releases(stack') : p[1] \in Keys /\ p[2] \in Listeners
    BY DEF Releases, TellingIn
  <2> QED BY <1>7, <1>9, <1>12, <2>1 DEF EventInv, ReleasesRight
<1> QED BY <1>13, <1>14, <1>15, <1>16, <1>17, <1>18 DEF EventInv

\* A loop over the pressed keys is right when it starts.
LEMMA FreshLoop ==
  ASSUME TypeOK, NEW s \in Slots, EventInv(s), NEW ls \in SUBSET Registered,
         NEW pc \in {"cancel", "finalizeKeys"}, pc = "cancel" => ls = Registered,
         NEW g, g = KeysFrame(pc, s, ls)
  PROVE  g \in Frame /\ g.pc = pc /\ g.todo \subseteq Pairs /\ LoopRight(s, g) /\ LoopComplete(s, g)
<1>1. Registered \subseteq Listeners /\ pressed[s] \subseteq Keys
  BY RegisteredType, EventTypes
<1>2. g \in Frame
  BY <1>1, FrameTypes
<1>3. /\ g.pc = pc /\ g.todo = pressed[s] \X ls
      /\ g.heard = {p \in pressed[s] \X ls : p[2] \in audience[s][p[1]]}
  BY KeysFrames
<1>4. g.todo \subseteq Pairs
  BY <1>1, <1>3
<1>5. ASSUME NEW p \in g.todo
      PROVE  /\ lst[p[2]] # "new" /\ p \notin Releases(stack)
             /\ p[2] \in Registered =>
                  IF p \in g.heard THEN got[s][p[1]][p[2]] = "closed" => p[1] \in canceled[p[2]]
                                   ELSE got[s][p[1]][p[2]] # "down"
  <2>1. /\ p[1] \in pressed[s] /\ p[1] \in Keys /\ p[2] \in Registered /\ p[2] \in Listeners
        /\ p = <<p[1], p[2]>>
    BY <1>1, <1>3
  <2>2. lst[p[2]] # "new"
    BY <2>1 DEF Registered
  <2>3. p \notin Releases(stack)
    BY <2>1 DEF EventInv, ReleasesRight
  <2>4. p \in g.heard => p[2] \in audience[s][p[1]]
    BY <1>3
  <2>5. p \notin g.heard => p[2] \notin audience[s][p[1]]
    BY <1>3
  <2>6. ASSUME p \in g.heard, got[s][p[1]][p[2]] = "closed" PROVE p[1] \in canceled[p[2]]
    BY <2>1, <2>4, <2>6 DEF EventInv, ClosedWhy
  <2>7. ASSUME p \notin g.heard PROVE got[s][p[1]][p[2]] # "down"
    BY <2>1, <2>3, <2>5, <2>7 DEF EventInv, DownHeard
  <2> QED BY <2>2, <2>3, <2>6, <2>7
<1>6. LoopComplete(s, g)
  BY <1>3 DEF LoopComplete
<1> QED BY <1>2, <1>3, <1>4, <1>5, <1>6 DEF LoopRight

\* The canceling function that returns last is the only one that runs.
LEMMA LastCanceling ==
  ASSUME NestInv, ~Idle, Top.pc \in CancelPcs, depth = 1
  PROVE  LoopsIn(stack) = {} /\ FinalizingIn(Popped) = {}
<1> DEFINE n == Len(stack)
<1>1. /\ TypeOK /\ Stacked(stack) /\ stack \in Seq(Frame) /\ n \in Nat \ {0} /\ Top = stack[n]
      /\ Len(Popped) = n - 1 /\ \A i \in 1..Len(Popped) : Popped[i] = stack[i]
  BY PoppedProps DEF NestInv, TypeOK, Top
<1>2. n \in CancelingIn(stack)
  BY <1>1 DEF CancelingIn
<1>3. \A i \in CancelingIn(stack) : i = n
  <2>1. Cardinality(CancelingIn(stack)) = 1 /\ IsFiniteSet(CancelingIn(stack))
    BY <1>1, CancelingFinite, NestParts DEF NestInv
  <2>2. PICK x : CancelingIn(stack) = {x}
    BY <2>1, FS_Singleton
  <2> QED BY <1>2, <2>2
<1>4. ASSUME NEW i \in 1..n, stack[i].pc \in LoopPcs PROVE FALSE
  <2>1. i - 1 \in CancelingIn(stack)
    BY <1>1, <1>4, CallerCancels DEF LoopPcs, CancelingIn
  <2> QED BY <1>1, <1>3, <2>1
<1>5. ASSUME NEW i \in 1..Len(Popped), Popped[i].pc = "finalize" PROVE FALSE
  <2>1. i \in 1..n /\ i # n
    BY <1>1
  <2>2. i \in CancelingIn(stack)
    BY <1>1, <1>5, <2>1 DEF CancelingIn, CancelPcs
  <2> QED BY <1>3, <2>1, <2>2
<1> QED BY <1>4, <1>5 DEF LoopsIn, FinalizingIn

\* Steps that tell nothing and leave the bottom of the call stack alone.
LEMMA EventsStep ==
  ASSUME TypeOK, NEW s \in Slots, EventInv(s), NEW G,
         UNCHANGED <<got, pressed, audience>>, LstMoves, CanceledMoves, SameBottom(stack, stack'),
         LoopsIn(stack') \subseteq LoopsIn(stack) \cup G,
         \A g \in G : g.todo \subseteq Pairs /\ LoopRight(s, g) /\ LoopComplete(s, g),
         G = {} \/ UNCHANGED canceled,
         ClosingIn(stack) => ClosingIn(stack')
  PROVE  EventInv(s)'
<1>1. TellingMoves
  BY BottomTelling DEF TellingMoves
<1>2. UnplugClear(s)'
  BY DEF EventInv, UnplugClear, SameBottom
<1> QED BY <1>1, <1>2, EventsQuiet

\* A canceling function returns.
LEMMA EventsLeave ==
  ASSUME NestInv, NEW s \in Slots, EventInv(s), LeavingInv, ~Idle,
         Top.pc \in {"deselect", "finalize"}, stack' = Popped, LeaveCanceling,
         UNCHANGED <<got, pressed, audience>>,
         lst' = IF Top.pc = "finalize" THEN [lst EXCEPT ![Top.lst] = "removed"] ELSE lst
  PROVE  EventInv(s)' /\ LeavingInv'
<1>1. TypeOK /\ stack \in Seq(Frame) /\ Top \in Frame
  BY PoppedProps DEF NestInv, TypeOK
<1>2. /\ SameBottom(stack, stack') /\ LoopsIn(stack') \subseteq LoopsIn(stack)
      /\ \A f \in LoopsIn(stack) : f \in LoopsIn(stack') \/ f = Top
      /\ FinalizeOnce(stack')
      /\ FinalizingIn(stack') =
           IF Top.pc = "finalize" THEN FinalizingIn(stack) \ {Top.lst} ELSE FinalizingIn(stack)
  BY <1>1, EventsPop DEF LeavingInv
<1>3. \A l \in Listeners :
        lst'[l] = IF Top.pc = "finalize" /\ l = Top.lst THEN "removed" ELSE lst[l]
  BY <1>1 DEF TypeOK
<1>4. LeavingInv'
  <2>1. ASSUME NEW l \in Listeners PROVE lst'[l] = "leaving" <=> l \in FinalizingIn(stack')
    BY <1>2, <1>3, <2>1 DEF LeavingInv
  <2> QED BY <1>2, <2>1 DEF LeavingInv
<1>5. LstMoves
  BY <1>3 DEF LstMoves, Registered
<1>6. CanceledMoves
  <2>1. CASE depth = 1
    <3>1. LoopsIn(stack) = {} /\ FinalizingIn(stack') = {}
      BY <2>1, LastCanceling DEF CancelPcs
    <3>2. \A l \in Registered' : lst'[l] # "leaving"
      BY <1>4, <3>1 DEF LeavingInv, Registered
    <3>3. \A l \in Listeners : canceled'[l] = {}
      BY <2>1 DEF LeaveCanceling
    <3> QED BY <3>1, <3>2, <3>3 DEF CanceledMoves
  <2>2. CASE depth # 1
    BY <2>2 DEF LeaveCanceling, CanceledMoves
  <2> QED BY <2>1, <2>2
<1>7. ClosingIn(stack) => ClosingIn(stack')
  BY <1>2 DEF ClosingIn
<1>8. EventInv(s)'
  <2> DEFINE G == {}
  <2>1. /\ LoopsIn(stack') \subseteq LoopsIn(stack) \cup G
        /\ \A g \in G : g.todo \subseteq Pairs /\ LoopRight(s, g) /\ LoopComplete(s, g)
        /\ G = {} \/ UNCHANGED canceled
    BY <1>2
  <2> HIDE DEF G
  <2> QED BY <1>1, <1>2, <1>5, <1>6, <1>7, <2>1, EventsStep
<1> QED BY <1>4, <1>8

\* onDeviceRemoved() goes on once the device's keys are canceled.
LEMMA EventsUnplug ==
  ASSUME NestInv, NEW s \in Slots, \A r \in Slots : r = s, EventInv(s), LeavingInv, ~Idle, UnplugStep
  PROVE  EventInv(s)' /\ LeavingInv'
<1>1. /\ Top.pc = "unplug" /\ stack' = Replaced(MgmtFrame) /\ LeaveCanceling
      /\ UNCHANGED <<got, lst>> /\ ForgetKeys(Top.slot)
  BY DEF UnplugStep
<1>2. TypeOK /\ Stacked(stack) /\ stack = <<Top>> /\ Top \in Frame /\ FrameFine(Top)
  BY <1>1, OnlyFrame, TopAdvances DEF NestInv
<1>3. MgmtFrame \in Frame /\ MgmtFrame.pc = "mgmt"
  BY <1>2, FrameTypes, PushedFrames
<1>4. stack' = <<MgmtFrame>>
  BY <1>1, <1>2, <1>3, OnlyFrame
<1>5. /\ LoopsIn(stack) = {} /\ ~ClosingIn(stack) /\ FinalizingIn(stack) = {}
      /\ Presses(stack) = {} /\ Releases(stack) = {} /\ Unplugging(stack)
  BY <1>1, <1>2, SingleFrame DEF LoopPcs, Unplugging
<1>6. /\ LoopsIn(stack') = {} /\ FinalizingIn(stack') = {} /\ FinalizeOnce(stack')
      /\ Presses(stack') = {} /\ Releases(stack') = {}
  BY <1>3, <1>4, SingleFrame DEF LoopPcs
<1>7. Top.slot = s
  BY <1>1, <1>2 DEF FrameFine
<1>8. pressed' = [pressed EXCEPT ![s] = {}]
  BY <1>1, <1>7 DEF ForgetKeys
<1>9. pressed[s] = {} /\ pressed'[s] = {}
  BY <1>2, <1>5, <1>8 DEF EventInv, UnplugClear, TypeOK
<1>10. \A l \in Listeners : lst[l] # "leaving"
  BY <1>5 DEF LeavingInv
<1>11. CanceledMoves
  <2>1. canceled' = [l \in Listeners |-> {}] \/ UNCHANGED canceled
    BY <1>1 DEF LeaveCanceling
  <2>2. Registered' \subseteq Listeners
    BY DEF Registered
  <2> QED BY <1>1, <1>5, <1>10, <2>1, <2>2 DEF CanceledMoves
<1>12. EventInv(s)'
  BY <1>1, <1>2, <1>5, <1>6, <1>9, <1>11, EventsForget DEF TellingMoves
<1>13. LeavingInv'
  BY <1>1, <1>6, <1>10 DEF LeavingInv
<1> QED BY <1>12, <1>13

LEMMA SameBottomTwice ==
  ASSUME NEW q, NEW r, NEW u, SameBottom(q, r), SameBottom(r, u)
  PROVE  SameBottom(q, u)
  BY DEF SameBottom

\* What most steps leave alone.
EventsAlone == UNCHANGED <<got, pressed, audience, lst, canceled>>

LEMMA AloneMoves == EventsAlone => LstMoves /\ CanceledMoves
  BY DEF EventsAlone, LstMoves, CanceledMoves, Registered

\* A function returns that is no canceling one and no onBlueKey().
LEMMA EventsReturn ==
  ASSUME TypeOK, NEW s \in Slots, EventInv(s), LeavingInv, ~Idle,
         Top.pc \in {"mgmt", "select", "finalizeKeys"}, stack' = Popped, EventsAlone
  PROVE  EventInv(s)' /\ LeavingInv'
<1>1. stack \in Seq(Frame)
  BY DEF TypeOK
<1>2. /\ SameBottom(stack, stack') /\ LoopsIn(stack') \subseteq LoopsIn(stack)
      /\ \A f \in LoopsIn(stack) : f \in LoopsIn(stack') \/ f = Top
      /\ FinalizeOnce(stack') /\ FinalizingIn(stack') = FinalizingIn(stack)
  BY <1>1, EventsPop DEF LeavingInv
<1>3. ClosingIn(stack) => ClosingIn(stack')
  BY <1>2 DEF ClosingIn
<1>4. LeavingInv'
  BY <1>2 DEF LeavingInv, EventsAlone
<1> DEFINE G == {}
<1>5. /\ LoopsIn(stack') \subseteq LoopsIn(stack) \cup G
      /\ \A g \in G : g.todo \subseteq Pairs /\ LoopRight(s, g) /\ LoopComplete(s, g)
      /\ G = {}
  BY <1>2
<1> HIDE DEF G
<1>6. EventInv(s)'
  BY <1>2, <1>3, <1>5, AloneMoves, EventsStep DEF EventsAlone
<1> QED BY <1>4, <1>6

\* A loop over devices or over the listeners of a management event advances.
LEMMA EventsAdvance ==
  ASSUME TypeOK, NEW s \in Slots, EventInv(s), LeavingInv, ~Idle, NEW f \in Frame,
         f.pc = Top.pc, f.lst = Top.lst, f.pc \in {"mgmt", "deselect", "finalize"},
         stack' = Replaced(f), EventsAlone
  PROVE  EventInv(s)' /\ LeavingInv'
<1>1. stack \in Seq(Frame)
  BY DEF TypeOK
<1>2. /\ SameBottom(stack, stack') /\ LoopsIn(stack') \subseteq LoopsIn(stack)
      /\ \A g \in LoopsIn(stack) : g \in LoopsIn(stack') \/ g = Top
      /\ FinalizeOnce(stack') /\ FinalizingIn(stack') = FinalizingIn(stack)
  BY <1>1, EventsReplace DEF LeavingInv, LoopPcs
<1>3. ClosingIn(stack) => ClosingIn(stack')
  BY <1>2 DEF ClosingIn
<1>4. LeavingInv'
  BY <1>2 DEF LeavingInv, EventsAlone
<1> DEFINE G == {}
<1>5. /\ LoopsIn(stack') \subseteq LoopsIn(stack) \cup G
      /\ \A g \in G : g.todo \subseteq Pairs /\ LoopRight(s, g) /\ LoopComplete(s, g)
      /\ G = {}
  BY <1>2
<1> HIDE DEF G
<1>6. EventInv(s)'
  BY <1>2, <1>3, <1>5, AloneMoves, EventsStep DEF EventsAlone
<1> QED BY <1>4, <1>6

\* The listener finalizeListener() runs for is leaving.
LEMMA FinalizedLeaves ==
  ASSUME LeavingInv, NEW i \in 1..Len(stack), stack[i].pc = "finalize", stack[i].lst \in Listeners
  PROVE  lst[stack[i].lst] = "leaving"
  BY DEF LeavingInv, FinalizingIn

\* A loop over the devices reaches the only one.
LEMMA EventsVisit ==
  ASSUME NestInv, NEW s \in Slots, \A r \in Slots : r = s, EventInv(s), LeavingInv, ~Idle,
         NEW r \in Top.slots, NEW pc, NEW ls \in SUBSET Listeners,
         \/ pc = "cancel" /\ Top.pc = "deselect" /\ ls = Registered
         \/ pc = "finalizeKeys" /\ Top.pc = "finalize" /\ ls = {Top.lst},
         VisitDevice(r, pc, ls), EventsAlone
  PROVE  EventInv(s)' /\ LeavingInv'
<1> DEFINE f == [Top EXCEPT !.slots = @ \ {r}]
           g == KeysFrame(pc, r, ls)
           q == Replaced(f)
<1>1. TypeOK /\ Stacked(stack) /\ stack \in Seq(Frame) /\ Top \in Frame /\ FrameFine(Top)
  BY TopAdvances DEF NestInv
<1>2. /\ f \in Frame /\ f.pc = Top.pc /\ f.lst = Top.lst /\ r = s
      /\ g \in Frame /\ g.pc = pc
      /\ stack' = stack \/ stack' = q \/ stack' = Append(q, g)
  BY <1>1, Visits
<1>3. ls \in SUBSET Registered
  <2>1. CASE Top.pc = "finalize" /\ ls = {Top.lst}
    <3>1. Top = stack[Len(stack)] /\ Len(stack) \in 1..Len(stack)
      BY <1>1, PoppedProps DEF Top
    <3>2. lst[Top.lst] = "leaving" /\ Top.lst \in Listeners
      BY <1>1, <2>1, <3>1, FinalizedLeaves DEF FrameFine
    <3> QED BY <2>1, <3>2 DEF Registered
  <2> QED BY <2>1
<1>4. g.todo \subseteq Pairs /\ LoopRight(s, g) /\ LoopComplete(s, g)
  <2>1. pc \in {"cancel", "finalizeKeys"} /\ (pc = "cancel" => ls = Registered) /\ g = KeysFrame(pc, s, ls)
    BY <1>2
  <2> HIDE DEF g
  <2> QED BY <1>1, <1>3, <2>1, FreshLoop
<1> HIDE DEF f, g
<1>5. CASE stack' = stack
  <2>1. LeavingInv'
    BY <1>5 DEF LeavingInv, EventsAlone
  <2>2. SameBottom(stack, stack')
    BY <1>5 DEF SameBottom
  <2> DEFINE G == {}
  <2>3. /\ LoopsIn(stack') \subseteq LoopsIn(stack) \cup G
        /\ \A h \in G : h.todo \subseteq Pairs /\ LoopRight(s, h) /\ LoopComplete(s, h)
        /\ G = {} /\ (ClosingIn(stack) => ClosingIn(stack'))
    BY <1>5
  <2> HIDE DEF G
  <2>4. EventInv(s)'
    BY <1>1, <2>2, <2>3, AloneMoves, EventsStep DEF EventsAlone
  <2> QED BY <2>1, <2>4
<1>6. CASE stack' = q
  BY <1>1, <1>2, <1>6, EventsAdvance
<1>7. CASE stack' = Append(q, g)
  <2>1. /\ SameBottom(stack, q) /\ LoopsIn(q) \subseteq LoopsIn(stack)
        /\ \A h \in LoopsIn(stack) : h \in LoopsIn(q) \/ h = Top
        /\ FinalizeOnce(q) /\ FinalizingIn(q) = FinalizingIn(stack) /\ q \in Seq(Frame)
    BY <1>1, <1>2, EventsReplace, ReplacedProps DEF LeavingInv, LoopPcs
  <2> HIDE DEF q
  <2>2. /\ SameBottom(q, stack') /\ LoopsIn(q) \subseteq LoopsIn(stack')
        /\ LoopsIn(stack') \subseteq LoopsIn(q) \cup {g}
        /\ FinalizeOnce(stack') /\ FinalizingIn(stack') = FinalizingIn(q)
    <3>1. g \in Frame /\ g.pc \in LoopPcs /\ g.pc \notin {"key", "unplug", "finalize"}
      BY <1>2 DEF LoopPcs
    <3>2. /\ SameBottom(q, Append(q, g)) /\ LoopsIn(q) \subseteq LoopsIn(Append(q, g))
          /\ LoopsIn(Append(q, g)) \subseteq LoopsIn(q) \cup (IF g.pc \in LoopPcs THEN {g} ELSE {})
          /\ FinalizingIn(Append(q, g)) =
               FinalizingIn(q) \cup (IF g.pc = "finalize" THEN {g.lst} ELSE {})
          /\ FinalizeOnce(q) /\ (g.pc = "finalize" => g.lst \notin FinalizingIn(q)) =>
               FinalizeOnce(Append(q, g))
      BY <2>1, <3>1, EventsPush, Zenon
    <3>3. FinalizeOnce(Append(q, g)) /\ FinalizingIn(Append(q, g)) = FinalizingIn(q)
      BY <2>1, <3>1, <3>2
    <3> QED BY <1>7, <3>1, <3>2, <3>3
  <2>3. SameBottom(stack, stack')
    BY <2>1, <2>2, SameBottomTwice
  <2>4. LeavingInv'
    BY <2>1, <2>2 DEF LeavingInv, EventsAlone
  <2>5. ClosingIn(stack) => ClosingIn(stack')
    BY <2>1, <2>2 DEF ClosingIn
  <2> DEFINE G == {g}
  <2>6. /\ LoopsIn(stack') \subseteq LoopsIn(stack) \cup G
        /\ \A h \in G : h.todo \subseteq Pairs /\ LoopRight(s, h) /\ LoopComplete(s, h)
    BY <1>4, <2>1, <2>2
  <2> HIDE DEF G
  <2>7. EventInv(s)'
    BY <1>1, <2>3, <2>5, <2>6, AloneMoves, EventsStep DEF EventsAlone
  <2> QED BY <2>4, <2>7
<1> QED BY <1>2, <1>5, <1>6, <1>7

\* cancelSelectedAccessorKeys() clears the pressed keys.
LEMMA EventsCleared ==
  ASSUME TypeOK, Stacked(stack), NEW s \in Slots, \A r \in Slots : r = s, EventInv(s), LeavingInv,
         ~Idle, Top.pc = "cancel", Top.todo = {}, ForgetKeys(Top.slot), stack' = Popped,
         UNCHANGED <<got, lst, canceled>>
  PROVE  EventInv(s)' /\ LeavingInv'
<1>1. /\ stack \in Seq(Frame) /\ Top \in Frame /\ FrameFine(Top) /\ Top = stack[Len(stack)]
      /\ Len(stack) \in 1..Len(stack)
  BY PoppedProps, TopAdvances DEF TypeOK, Top
<1>2. Top.slot = s /\ Top \in LoopsIn(stack)
  BY <1>1 DEF FrameFine, LoopsIn, LoopPcs
<1>3. pressed'[s] = {}
  BY <1>2 DEF ForgetKeys, TypeOK
<1>4. /\ SameBottom(stack, stack') /\ LoopsIn(stack') \subseteq LoopsIn(stack)
      /\ FinalizeOnce(stack') /\ FinalizingIn(stack') = FinalizingIn(stack)
  BY <1>1, EventsPop DEF LeavingInv
<1>5. TellingMoves
  BY <1>4, BottomTelling DEF TellingMoves
<1>6. \A k \in pressed[s], l \in Registered : got[s][k][l] # "down"
  BY <1>2 DEF EventInv, LoopsRight, LoopComplete
<1>7. EventInv(s)'
  BY <1>3, <1>4, <1>5, <1>6, EventsForget DEF CanceledMoves
<1>8. LeavingInv'
  BY <1>4 DEF LeavingInv
<1> QED BY <1>7, <1>8

\* A loop over pressed keys cancels one for one listener, or skips it.
LEMMA EventsCancelOne ==
  ASSUME TypeOK, Stacked(stack), NEW s \in Slots, \A r \in Slots : r = s, EventInv(s), LeavingInv,
         ~Idle, Top.pc \in LoopPcs, NEW p \in Top.todo, CancelOne(p),
         UNCHANGED <<pressed, audience, lst>>
  PROVE  EventInv(s)' /\ LeavingInv'
<1> DEFINE n == Len(stack)
<1>1. /\ stack \in Seq(Frame) /\ Top \in Frame /\ FrameFine(Top) /\ Top = stack[n] /\ n \in 1..n
  <2>1. stack \in Seq(Frame) /\ Top \in Frame /\ FrameFine(Top)
    BY TopAdvances
  <2>2. n \in Nat \ {0}
    BY <2>1, PoppedProps
  <2> QED BY <2>1, <2>2 DEF Top
<1>2. Top.slot = s /\ Top \in LoopsIn(stack)
  BY <1>1 DEF FrameFine, LoopsIn, LoopPcs
<1>3. PICK k \in Keys, l \in Listeners : p = <<k, l>>
  BY <1>1 DEF Frame
<1>4. p[1] = k /\ p[2] = l
  BY <1>3
<1>5. PICK g \in Frame : /\ stack' = Replaced(g) /\ g.pc = Top.pc /\ g.lst = Top.lst
                         /\ g.todo = Top.todo \ {p} /\ g.heard = Top.heard
  BY Cancels DEF LoopPcs
<1>6. /\ SameBottom(stack, stack') /\ LoopsIn(stack') \subseteq LoopsIn(stack) \cup {g}
      /\ \A h \in LoopsIn(stack) : h \in LoopsIn(stack') \/ h = Top
      /\ g \in LoopsIn(stack') /\ FinalizeOnce(stack') /\ FinalizingIn(stack') = FinalizingIn(stack)
  <2>1. g.pc # "key" /\ g.pc \in LoopPcs
    BY <1>5 DEF LoopPcs
  <2> QED BY <1>1, <1>5, <2>1, EventsReplace DEF LeavingInv
<1>7. ClosingIn(stack) => ClosingIn(stack')
  BY <1>5, <1>6 DEF ClosingIn
<1>8. Top.pc = "cancel" => ClosingIn(stack')
  BY <1>5, <1>6 DEF ClosingIn
<1>9. UnplugClear(s)'
  BY <1>6, <1>7 DEF EventInv, UnplugClear, SameBottom
<1>10. TellingMoves
  BY <1>6, BottomTelling DEF TellingMoves
<1>11. Top.pc = "cancel" \/ lst[l] = "leaving"
  <2>1. CASE Top.pc = "finalizeKeys"
    <3>1. n - 1 \in 1..n /\ Above(stack[n - 1], stack[n])
      BY <1>1, <2>1, CallerCancels
    <3>2. FrameFine(stack[n - 1])
      BY <3>1 DEF Stacked
    <3>3. stack[n - 1].pc = "finalize" /\ l = stack[n - 1].lst
      BY <1>1, <1>4, <2>1, <3>1 DEF Above
    <3> QED BY <3>1, <3>3, FinalizedLeaves
  <2> QED BY <2>1 DEF LoopPcs
<1>12. \/ k \in canceled[l] /\ UNCHANGED <<canceled, got>>
       \/ /\ k \notin canceled[l]
          /\ canceled' = [canceled EXCEPT ![l] = @ \cup {k}]
          /\ IF <<k, l>> \in Top.heard THEN Send(l, s, k, "cancel") ELSE UNCHANGED got
  BY <1>2, <1>3, <1>4 DEF CancelOne
<1>13. EventInv(s)'
  <2> DEFINE f == Top
  <2>1. /\ f \in LoopsIn(stack) /\ <<k, l>> \in f.todo
        /\ g.pc = f.pc /\ g.todo = f.todo \ {<<k, l>>} /\ g.heard = f.heard
        /\ f.pc = "cancel" \/ lst[l] = "leaving"
        /\ f.pc = "cancel" => ClosingIn(stack')
        /\ \/ k \in canceled[l] /\ UNCHANGED <<canceled, got>>
           \/ /\ k \notin canceled[l]
              /\ canceled' = [canceled EXCEPT ![l] = @ \cup {k}]
              /\ IF <<k, l>> \in f.heard THEN Send(l, s, k, "cancel") ELSE UNCHANGED got
    BY <1>2, <1>3, <1>5, <1>8, <1>11, <1>12
  <2> HIDE DEF f
  <2> QED BY <1>6, <1>7, <1>9, <1>10, <2>1, EventsCancel
<1>14. LeavingInv'
  BY <1>6 DEF LeavingInv
<1> QED BY <1>13, <1>14

\* onBlueKey() returns.
LEMMA EventsKeyDone ==
  ASSUME NestInv, NEW s \in Slots, \A r \in Slots : r = s, EventInv(s), LeavingInv, ~Idle,
         Top.pc = "key", KeyDone, stack' = Popped, EventsAlone
  PROVE  EventInv(s)' /\ LeavingInv'
<1>1. TypeOK /\ Stacked(stack) /\ stack = <<Top>> /\ Top \in Frame /\ FrameFine(Top) /\ Popped = <<>>
  BY OnlyFrame, TopAdvances DEF NestInv
<1>2. /\ LoopsIn(stack) = {} /\ ~ClosingIn(stack)
      /\ \A m \in Listeners : lst[m] # "leaving"
  BY <1>1, NothingCanceled DEF LoopPcs, CancelPcs
<1>3. Releases(stack) = {}
  <2>1. \A p \in Releases(stack) : p[2] \in Top.ls
    BY <1>1, SingleFrame
  <2>2. Top.type = "press" => Releases(stack) = {}
    BY <1>1, SingleFrame
  <2> QED BY <2>1, <2>2 DEF KeyDone
<1>4. /\ LoopsIn(stack') = {} /\ Releases(stack') = {} /\ Presses(stack') = {}
      /\ ~Unplugging(stack') /\ FinalizeOnce(stack') /\ FinalizingIn(stack') = {}
  <2>1. stack' = <<>>
    BY <1>1
  <2> QED BY <2>1 DEF LoopsIn, Releases, Presses, TellingIn, Unplugging, FinalizeOnce, FinalizingIn
<1>5. TellingMoves /\ UnplugClear(s)'
  BY <1>3, <1>4 DEF TellingMoves, UnplugClear
<1> DEFINE G == {}
<1>6. /\ LoopsIn(stack') \subseteq LoopsIn(stack) \cup G
      /\ \A g \in G : g.todo \subseteq Pairs /\ LoopRight(s, g) /\ LoopComplete(s, g)
      /\ G = {} /\ (ClosingIn(stack) => ClosingIn(stack'))
  BY <1>2, <1>4
<1> HIDE DEF G
<1>7. EventInv(s)'
  BY <1>1, <1>5, <1>6, AloneMoves, EventsQuiet DEF EventsAlone
<1>8. LeavingInv'
  BY <1>2, <1>4 DEF LeavingInv, EventsAlone
<1> QED BY <1>7, <1>8

LEMMA StepEvents ==
  ASSUME NestInv, NEW s \in Slots, \A r \in Slots : r = s, EventInv(s), LeavingInv, Step
  PROVE  EventInv(s)' /\ LeavingInv'
<1>1. ~Idle /\ TypeOK /\ Stacked(stack) /\ Top \in Frame /\ FrameFine(Top)
  BY TopAdvances DEF Step, NestInv
<1>2. CASE KeyStep
  <2>1. Top.pc = "key" /\ UNCHANGED <<pressed, audience, lst, canceled>>
    BY <1>2 DEF KeyStep, devVars, lstVars
  <2>2. CASE KeyDone /\ Return /\ UNCHANGED got
    BY <1>1, <2>1, <2>2, EventsKeyDone DEF Return, EventsAlone
  <2>3. ASSUME ~KeyDone, NEW l \in Top.ls,
               stack' = Replaced([Top EXCEPT !.ls = @ \ {l}, !.cb = TRUE]),
               Send(l, Top.slot, Top.key, Top.type)
        PROVE  EventInv(s)' /\ LeavingInv'
    <3>1. EventInv(s)'
      BY <1>1, <2>1, <2>3, EventsTell
    <3>2. stack = <<Top>>
      BY <1>1, <2>1, OnlyFrame
    <3>3. PICK f \in Frame : stack' = <<f>> /\ f.pc = "key"
      BY <1>1, <2>1, <2>3, Calls, OnlyFrame
    <3>4. FinalizingIn(stack) = {} /\ FinalizingIn(stack') = {} /\ FinalizeOnce(stack')
      BY <2>1, <3>2, <3>3, SingleFrame
    <3>5. LeavingInv'
      BY <2>1, <3>4 DEF LeavingInv
    <3> QED BY <3>1, <3>5
  <2> QED BY <1>2, <2>2, <2>3 DEF KeyStep
<1>3. CASE MgmtStep
  <2>1. Top.pc = "mgmt" /\ EventsAlone
    BY <1>3 DEF MgmtStep, devVars, lstVars, EventsAlone
  <2>2. CASE Return
    BY <1>1, <2>1, <2>2, EventsReturn DEF Return
  <2>3. ASSUME NEW l \in Top.ls, stack' = Replaced([Top EXCEPT !.ls = @ \ {l}, !.cb = TRUE])
        PROVE  EventInv(s)' /\ LeavingInv'
    <3>1. PICK f \in Frame : f.pc = Top.pc /\ f.lst = Top.lst /\ stack' = Replaced(f)
      BY <1>1, <2>1, <2>3, Calls
    <3> QED BY <1>1, <2>1, <3>1, EventsAdvance
  <2> QED BY <1>3, <2>2, <2>3 DEF MgmtStep
<1>4. CASE CancelStep
  <2>1. Top.pc = "cancel" /\ UNCHANGED lst
    BY <1>4 DEF CancelStep
  <2>2. CASE Top.todo = {} /\ ForgetKeys(Top.slot) /\ Return /\ UNCHANGED <<canceled, got>>
    BY <1>1, <2>1, <2>2, EventsCleared DEF Return
  <2>3. ASSUME NEW p \in Top.todo, CancelOne(p), UNCHANGED <<pressed, audience>>
        PROVE  EventInv(s)' /\ LeavingInv'
    BY <1>1, <2>1, <2>3, EventsCancelOne DEF LoopPcs
  <2> QED BY <1>4, <2>2, <2>3 DEF CancelStep
<1>5. CASE FinalizeKeysStep
  <2>1. Top.pc = "finalizeKeys" /\ UNCHANGED <<pressed, audience, lst>>
    BY <1>5 DEF FinalizeKeysStep, devVars
  <2>2. CASE Return /\ UNCHANGED <<canceled, got>>
    BY <1>1, <2>1, <2>2, EventsReturn DEF Return, EventsAlone
  <2>3. ASSUME NEW p \in Top.todo, CancelOne(p) PROVE EventInv(s)' /\ LeavingInv'
    BY <1>1, <2>1, <2>3, EventsCancelOne DEF LoopPcs
  <2> QED BY <1>5, <2>2, <2>3 DEF FinalizeKeysStep
<1>6. CASE DeselectStep
  <2>1. Top.pc = "deselect" /\ UNCHANGED <<got, pressed, audience, lst>> /\ Registered \in SUBSET Listeners
    BY <1>6 DEF DeselectStep, devVars, Registered
  <2>2. CASE LeaveCanceling /\ Return
    BY <1>1, <2>1, <2>2, EventsLeave DEF Return
  <2>3. ASSUME NEW r \in Top.slots, VisitDevice(r, "cancel", Registered), UNCHANGED canceled
        PROVE  EventInv(s)' /\ LeavingInv'
    BY <1>1, <2>1, <2>3, EventsVisit DEF EventsAlone
  <2> QED BY <1>6, <2>2, <2>3 DEF DeselectStep
<1>7. CASE FinalizeStep
  <2>1. /\ Top.pc = "finalize" /\ UNCHANGED <<got, pressed, audience>>
        /\ Listeners \cap {Top.lst} = {Top.lst} /\ {Top.lst} \in SUBSET Listeners
    BY <1>1, <1>7 DEF FinalizeStep, devVars, FrameFine
  <2>2. CASE lst' = [lst EXCEPT ![Top.lst] = "removed"] /\ LeaveCanceling /\ Return
    BY <1>1, <2>1, <2>2, EventsLeave DEF Return
  <2>3. ASSUME NEW r \in Top.slots, VisitDevice(r, "finalizeKeys", Listeners \cap {Top.lst}),
               UNCHANGED <<lst, canceled>>
        PROVE  EventInv(s)' /\ LeavingInv'
    <3>1. VisitDevice(r, "finalizeKeys", {Top.lst})
      BY <2>1, <2>3
    <3> QED BY <1>1, <2>1, <2>3, <3>1, EventsVisit DEF EventsAlone
  <2> QED BY <1>7, <2>2, <2>3 DEF FinalizeStep
<1>8. CASE SelectStep
  <2>1. Top.pc = "select" /\ EventsAlone /\ stack' = Popped
    BY <1>8 DEF SelectStep, Return, devVars, lstVars, EventsAlone
  <2> QED BY <1>1, <2>1, EventsReturn
<1> QED BY <1>1, <1>2, <1>3, <1>4, <1>5, <1>6, <1>7, <1>8, EventsUnplug DEF Step

\* What a call does to the call stack.
LEMMA CallStack ==
  ASSUME TypeOK,
         \/ UNCHANGED stack \/ Deselects
         \/ (\E d \in Data : Selects(d)) \/ (\E l \in Listeners : Finalizes(l))
  PROVE  /\ SameBottom(stack, stack') /\ LoopsIn(stack') \subseteq LoopsIn(stack)
         /\ ClosingIn(stack) => ClosingIn(stack')
         /\ UNCHANGED stack \/ Deselects \/ (\E d \in Data : Selects(d)) =>
              /\ FinalizingIn(stack') = FinalizingIn(stack)
              /\ FinalizeOnce(stack) => FinalizeOnce(stack')
         /\ \A l \in Listeners : Finalizes(l) =>
              /\ FinalizingIn(stack') = FinalizingIn(stack) \cup {l}
              /\ FinalizeOnce(stack) /\ l \notin FinalizingIn(stack) => FinalizeOnce(stack')
<1>1. stack \in Seq(Frame)
  BY DEF TypeOK
<1>2. ASSUME NEW q \in Seq(Frame), NEW f \in Frame, f.pc \in {"deselect", "finalize", "select"}
      PROVE  /\ SameBottom(q, Append(q, f)) /\ LoopsIn(Append(q, f)) = LoopsIn(q)
             /\ FinalizingIn(Append(q, f)) =
                  FinalizingIn(q) \cup (IF f.pc = "finalize" THEN {f.lst} ELSE {})
             /\ FinalizeOnce(q) /\ (f.pc = "finalize" => f.lst \notin FinalizingIn(q)) =>
                  FinalizeOnce(Append(q, f))
  <2>1. f.pc \notin {"key", "unplug"} /\ f.pc \notin LoopPcs
    BY <1>2 DEF LoopPcs
  <2>2. /\ SameBottom(q, Append(q, f)) /\ LoopsIn(q) \subseteq LoopsIn(Append(q, f))
        /\ LoopsIn(Append(q, f)) \subseteq LoopsIn(q) \cup (IF f.pc \in LoopPcs THEN {f} ELSE {})
        /\ FinalizingIn(Append(q, f)) =
             FinalizingIn(q) \cup (IF f.pc = "finalize" THEN {f.lst} ELSE {})
        /\ FinalizeOnce(q) /\ (f.pc = "finalize" => f.lst \notin FinalizingIn(q)) =>
             FinalizeOnce(Append(q, f))
    BY <2>1, EventsPush, Zenon
  <2>3. LoopsIn(Append(q, f)) = LoopsIn(q)
    BY <2>1, <2>2
  <2> QED BY <2>2, <2>3
<1>3. DeselectFrame \in Frame /\ DeselectFrame.pc = "deselect"
  BY FrameTypes, PushedFrames
<1>4. ASSUME UNCHANGED stack
      PROVE  /\ SameBottom(stack, stack') /\ LoopsIn(stack') = LoopsIn(stack)
             /\ FinalizingIn(stack') = FinalizingIn(stack)
             /\ FinalizeOnce(stack) => FinalizeOnce(stack')
  BY <1>4 DEF SameBottom
<1>5. ASSUME Deselects
      PROVE  /\ SameBottom(stack, stack') /\ LoopsIn(stack') = LoopsIn(stack)
             /\ FinalizingIn(stack') = FinalizingIn(stack)
             /\ FinalizeOnce(stack) => FinalizeOnce(stack')
  BY <1>1, <1>2, <1>3, <1>5 DEF Deselects
<1>6. ASSUME NEW d \in Data, Selects(d)
      PROVE  /\ SameBottom(stack, stack') /\ LoopsIn(stack') = LoopsIn(stack)
             /\ FinalizingIn(stack') = FinalizingIn(stack)
             /\ FinalizeOnce(stack) => FinalizeOnce(stack')
  <2> DEFINE f == SelectFrame(d)
             q == Append(stack, f)
  <2>1. f \in Frame /\ f.pc = "select"
    BY FrameTypes, PushedFrames
  <2>2. q \in Seq(Frame) /\ stack' = Append(q, DeselectFrame)
    BY <1>1, <1>6, <2>1 DEF Selects
  <2> HIDE DEF f
  <2>3. /\ SameBottom(stack, q) /\ LoopsIn(q) = LoopsIn(stack)
        /\ FinalizingIn(q) = FinalizingIn(stack)
        /\ FinalizeOnce(stack) => FinalizeOnce(q)
    BY <1>1, <1>2, <2>1
  <2> HIDE DEF q
  <2>4. /\ SameBottom(q, stack') /\ LoopsIn(stack') = LoopsIn(q)
        /\ FinalizingIn(stack') = FinalizingIn(q)
        /\ FinalizeOnce(q) => FinalizeOnce(stack')
    BY <1>2, <1>3, <2>2
  <2> QED BY <2>3, <2>4, SameBottomTwice
<1>7. ASSUME NEW l \in Listeners, Finalizes(l)
      PROVE  /\ SameBottom(stack, stack') /\ LoopsIn(stack') = LoopsIn(stack)
             /\ FinalizingIn(stack') = FinalizingIn(stack) \cup {l}
             /\ FinalizeOnce(stack) /\ l \notin FinalizingIn(stack) => FinalizeOnce(stack')
  <2> DEFINE f == FinalizeFrame(l)
  <2>1. f \in Frame /\ f.pc = "finalize" /\ f.lst = l /\ stack' = Append(stack, f)
    BY <1>7, FrameTypes, PushedFrames DEF Finalizes
  <2> HIDE DEF f
  <2> QED BY <1>1, <1>2, <2>1
<1>8. SameBottom(stack, stack') /\ LoopsIn(stack') = LoopsIn(stack)
  BY <1>4, <1>5, <1>6, <1>7
<1>9. ClosingIn(stack) => ClosingIn(stack')
  BY <1>8 DEF ClosingIn
<1> QED BY <1>4, <1>5, <1>6, <1>7, <1>8, <1>9

\* A call moves at most one listener.
LEMMA CallEvents ==
  ASSUME TypeOK, NEW s \in Slots, EventInv(s), LeavingInv,
         UNCHANGED <<got, pressed, audience, canceled>>,
         \/ /\ UNCHANGED lst
            /\ UNCHANGED stack \/ Deselects \/ (\E d \in Data : Selects(d))
         \/ \E l \in Listeners :
              \/ Finalizes(l) /\ lst[l] = "added" /\ lst' = [lst EXCEPT ![l] = "leaving"]
              \/ UNCHANGED stack /\ lst[l] = "new" /\ lst' = [lst EXCEPT ![l] = "added"]
              \/ UNCHANGED stack /\ lst[l] = "added" /\ lst' = [lst EXCEPT ![l] = "removed"]
  PROVE  EventInv(s)' /\ LeavingInv'
<1>1. /\ SameBottom(stack, stack') /\ LoopsIn(stack') \subseteq LoopsIn(stack)
      /\ ClosingIn(stack) => ClosingIn(stack')
  BY CallStack
<1>2. lst \in [Listeners -> {"new", "added", "leaving", "removed"}]
  BY DEF TypeOK
<1>3. LstMoves /\ LeavingInv'
  <2>1. CASE /\ UNCHANGED lst
             /\ UNCHANGED stack \/ Deselects \/ (\E d \in Data : Selects(d))
    BY <2>1, CallStack DEF LstMoves, LeavingInv, Registered
  <2>2. ASSUME NEW l \in Listeners, Finalizes(l), lst[l] = "added",
               lst' = [lst EXCEPT ![l] = "leaving"]
        PROVE  LstMoves /\ LeavingInv'
    <3>1. \A m \in Listeners : lst'[m] = IF m = l THEN "leaving" ELSE lst[m]
      BY <1>2, <2>2
    <3>2. /\ l \notin FinalizingIn(stack)
          /\ FinalizingIn(stack') = FinalizingIn(stack) \cup {l} /\ FinalizeOnce(stack')
      BY <2>2, CallStack DEF LeavingInv
    <3>3. LstMoves
      BY <2>2, <3>1 DEF LstMoves, Registered
    <3> QED BY <3>1, <3>2, <3>3 DEF LeavingInv
  <2>3. ASSUME NEW l \in Listeners, NEW v \in {"added", "removed"}, UNCHANGED stack,
               \A m \in Listeners : lst'[m] = IF m = l THEN v ELSE lst[m],
               lst[l] # "leaving", v = "added" => lst[l] = "new"
        PROVE  LstMoves /\ LeavingInv'
    <3>1. LstMoves
      BY <2>3 DEF LstMoves, Registered
    <3>2. LeavingInv'
      BY <2>3 DEF LeavingInv
    <3> QED BY <3>1, <3>2
  <2>4. ASSUME NEW l \in Listeners, UNCHANGED stack, lst[l] = "new",
               lst' = [lst EXCEPT ![l] = "added"]
        PROVE  LstMoves /\ LeavingInv'
    <3>1. \A m \in Listeners : lst'[m] = IF m = l THEN "added" ELSE lst[m]
      BY <1>2, <2>4
    <3> QED BY <2>3, <2>4, <3>1
  <2>5. ASSUME NEW l \in Listeners, UNCHANGED stack, lst[l] = "added",
               lst' = [lst EXCEPT ![l] = "removed"]
        PROVE  LstMoves /\ LeavingInv'
    <3>1. \A m \in Listeners : lst'[m] = IF m = l THEN "removed" ELSE lst[m]
      BY <1>2, <2>5
    <3> QED BY <2>3, <2>5, <3>1
  <2> QED BY <2>1, <2>2, <2>4, <2>5, Zenon
<1> DEFINE G == {}
<1>4. /\ LoopsIn(stack') \subseteq LoopsIn(stack) \cup G
      /\ \A g \in G : g.todo \subseteq Pairs /\ LoopRight(s, g) /\ LoopComplete(s, g)
      /\ G = {} /\ CanceledMoves
  BY <1>1 DEF CanceledMoves
<1> HIDE DEF G
<1>5. EventInv(s)'
  BY <1>1, <1>3, <1>4, EventsStep
<1> QED BY <1>3, <1>5

LEMMA ToolkitEvents ==
  ASSUME TypeOK, NEW s \in Slots, EventInv(s), LeavingInv, Toolkit
  PROVE  EventInv(s)' /\ LeavingInv'
<1>1. UNCHANGED <<got, pressed, audience, canceled, lst>>
  BY DEF Toolkit, OnIsActiveChanged, DeleteWindow, devVars, lstVars
<1>2. UNCHANGED stack \/ Deselects \/ (\E d \in Data : Selects(d))
  BY ToolkitCalls DEF Toolkit
<1> QED BY <1>1, <1>2, CallEvents

LEMMA ApplicationEvents ==
  ASSUME TypeOK, NEW s \in Slots, EventInv(s), LeavingInv, Application
  PROVE  EventInv(s)' /\ LeavingInv'
<1>1. ASSUME NEW w \in Windows, AddAccessor(w) \/ RemoveAccessor(w)
      PROVE  EventInv(s)' /\ LeavingInv'
  <2>1. UNCHANGED <<got, pressed, audience, canceled, lst>>
    BY <1>1 DEF AddAccessor, RemoveAccessor, devVars, lstVars
  <2>2. UNCHANGED stack \/ Deselects \/ (\E d \in Data : Selects(d))
    <3>1. CASE AddAccessor(w)
      BY <3>1, AddAccessorCalls
    <3>2. CASE RemoveAccessor(w)
      BY <3>2 DEF RemoveAccessor, RemoveData, Deselects
    <3> QED BY <1>1, <3>1, <3>2
  <2> QED BY <2>1, <2>2, CallEvents
<1>2. ASSUME NEW l \in Listeners, AddListener(l) PROVE EventInv(s)' /\ LeavingInv'
  <2>1. /\ UNCHANGED <<got, pressed, audience, canceled>>
        /\ UNCHANGED stack /\ lst[l] = "new" /\ lst' = [lst EXCEPT ![l] = "added"]
    BY <1>2 DEF AddListener, devVars
  <2> QED BY <2>1, CallEvents
<1>3. ASSUME NEW l \in Listeners, NEW b \in BOOLEAN, RemoveListener(l, b)
      PROVE  EventInv(s)' /\ LeavingInv'
  <2>1. /\ UNCHANGED <<got, pressed, audience, canceled>>
        /\ \/ Finalizes(l) /\ lst[l] = "added" /\ lst' = [lst EXCEPT ![l] = "leaving"]
           \/ UNCHANGED stack /\ lst[l] = "added" /\ lst' = [lst EXCEPT ![l] = "removed"]
    BY <1>3 DEF RemoveListener, Finalizes, devVars
  <2> QED BY <2>1, CallEvents
<1>4. ASSUME EnableKeyEvent PROVE EventInv(s)' /\ LeavingInv'
  <2>1. UNCHANGED <<got, pressed, audience, canceled, lst, stack>>
    BY <1>4 DEF EnableKeyEvent, devVars
  <2> QED BY <2>1, CallEvents
<1> QED BY <1>1, <1>2, <1>3, <1>4 DEF Application

\* The backend adds or removes a device.
LEMMA DeviceEvents ==
  ASSUME TypeOK, NEW s \in Slots, \A r \in Slots : r = s, EventInv(s), LeavingInv, HeaderInv,
         NEW r \in Slots, OnDeviceAdded(r) \/ OnDeviceRemoved(r)
  PROVE  EventInv(s)' /\ LeavingInv'
<1> DEFINE f == UnplugFrame(s)
           g == KeysFrame("cancel", s, Registered)
<1>1. Idle /\ UNCHANGED <<got, pressed, audience, lst, canceled>>
  BY DEF OnDeviceAdded, OnDeviceRemoved, devVars, lstVars
<1>2. /\ LoopsIn(stack) = {} /\ ~ClosingIn(stack) /\ FinalizingIn(stack) = {}
      /\ Presses(stack) = {} /\ Releases(stack) = {}
      /\ \A l \in Listeners : lst[l] # "leaving"
  BY <1>1, IdleEvents
<1>3. /\ MgmtFrame.pc = "mgmt" /\ f \in Frame /\ f.pc = "unplug"
      /\ g \in Frame /\ g.pc = "cancel"
  BY RegisteredType, FrameTypes, PushedFrames, KeysFrames
<1>4. g.todo \subseteq Pairs /\ LoopRight(s, g) /\ LoopComplete(s, g)
  <2> HIDE DEF g
  <2> QED BY FreshLoop DEF g
<1>5. \/ stack' = <<MgmtFrame>>
      \/ stack' = <<f>> /\ pressed[s] = {}
      \/ stack' = <<f, g>>
  <2>1. CASE OnDeviceAdded(r)
    BY <2>1 DEF OnDeviceAdded
  <2>2. CASE OnDeviceRemoved(r)
    <3>1. r = s /\ keyEventOn /\ (selected = None => pressed[s] = {})
      BY DEF HeaderInv, NoneSelectedNonePressed
    <3> QED BY <2>2, <3>1 DEF OnDeviceRemoved
  <2> QED BY <2>1, <2>2
<1> HIDE DEF f, g
<1>6. ASSUME NEW G, LoopsIn(stack') \subseteq G, G \subseteq {g}, UnplugClear(s)',
             Presses(stack') = {}, Releases(stack') = {},
             FinalizeOnce(stack'), FinalizingIn(stack') = {}
      PROVE  EventInv(s)' /\ LeavingInv'
  <2>1. LstMoves /\ CanceledMoves /\ TellingMoves
    BY <1>1, <1>2, <1>6, AloneMoves DEF EventsAlone, TellingMoves
  <2>2. /\ LoopsIn(stack') \subseteq LoopsIn(stack) \cup G
        /\ \A h \in G : h.todo \subseteq Pairs /\ LoopRight(s, h) /\ LoopComplete(s, h)
    BY <1>2, <1>4, <1>6
  <2>3. EventInv(s)'
    BY <1>1, <1>2, <1>6, <2>1, <2>2, EventsQuiet
  <2>4. LeavingInv'
    BY <1>1, <1>2, <1>6 DEF LeavingInv
  <2> QED BY <2>3, <2>4
<1>7. CASE stack' = <<MgmtFrame>>
  <2>1. /\ LoopsIn(stack') = {} /\ Presses(stack') = {} /\ Releases(stack') = {}
        /\ FinalizeOnce(stack') /\ FinalizingIn(stack') = {}
    BY <1>3, <1>7, SingleFrame DEF LoopPcs
  <2>2. UnplugClear(s)'
    BY <1>3, <1>7 DEF UnplugClear, Unplugging
  <2> QED BY <1>6, <2>1, <2>2
<1>8. CASE stack' = <<f>> /\ pressed[s] = {}
  <2>1. /\ LoopsIn(stack') = {} /\ Presses(stack') = {} /\ Releases(stack') = {}
        /\ FinalizeOnce(stack') /\ FinalizingIn(stack') = {}
    BY <1>3, <1>8, SingleFrame DEF LoopPcs
  <2>2. UnplugClear(s)'
    BY <1>1, <1>8 DEF UnplugClear
  <2> QED BY <1>6, <2>1, <2>2
<1>9. CASE stack' = <<f, g>>
  <2> DEFINE q == <<f>>
  <2>1. /\ LoopsIn(q) = {} /\ Presses(q) = {} /\ Releases(q) = {}
        /\ FinalizeOnce(q) /\ FinalizingIn(q) = {} /\ q \in Seq(Frame) /\ stack' = Append(q, g)
    <3>1. /\ LoopsIn(q) = {} /\ Presses(q) = {} /\ Releases(q) = {}
          /\ FinalizeOnce(q) /\ FinalizingIn(q) = {}
      BY <1>3, SingleFrame DEF LoopPcs
    <3>2. q \in Seq(Frame) /\ stack' = Append(q, g)
      BY <1>3, <1>9
    <3> QED BY <3>1, <3>2
  <2> HIDE DEF q
  <2>2. g.pc \in LoopPcs /\ g.pc \notin {"key", "unplug", "finalize"}
    BY <1>3 DEF LoopPcs
  <2>3. /\ SameBottom(q, Append(q, g))
        /\ LoopsIn(Append(q, g)) \subseteq LoopsIn(q) \cup (IF g.pc \in LoopPcs THEN {g} ELSE {})
        /\ g.pc \in LoopPcs => g \in LoopsIn(Append(q, g))
        /\ FinalizingIn(Append(q, g)) =
             FinalizingIn(q) \cup (IF g.pc = "finalize" THEN {g.lst} ELSE {})
        /\ FinalizeOnce(q) /\ (g.pc = "finalize" => g.lst \notin FinalizingIn(q)) =>
             FinalizeOnce(Append(q, g))
    BY <1>3, <2>1, <2>2, EventsPush, Zenon
  <2>4. FinalizeOnce(stack') /\ FinalizingIn(stack') = {} /\ LoopsIn(stack') \subseteq {g}
    BY <2>1, <2>2, <2>3
  <2>5. Presses(stack') = {} /\ Releases(stack') = {}
    BY <2>1, <2>3, BottomTelling
  <2>6. UnplugClear(s)'
    BY <1>3, <2>1, <2>2, <2>3 DEF UnplugClear, ClosingIn
  <2> QED BY <1>6, <2>4, <2>5, <2>6
<1> QED BY <1>5, <1>7, <1>8, <1>9

\* What holds of the only device's events, if there is a device.
EventsInv == \A s \in Slots : EventInv(s) /\ LeavingInv

LEMMA EventsKept ==
  ASSUME \A r, s \in Slots : r = s, NestInv, HeaderInv, EventsInv, [Next]_vars
  PROVE  EventsInv'
<1> SUFFICES ASSUME NEW s \in Slots PROVE EventInv(s)' /\ LeavingInv'
  BY DEF EventsInv
<1>1. TypeOK /\ EventInv(s) /\ LeavingInv /\ \A r \in Slots : r = s
  BY DEF NestInv, EventsInv
<1>2. CASE Step
  BY <1>1, <1>2, StepEvents
<1>3. CASE Backend
  <2>1. ASSUME NEW r \in Slots, OnDeviceAdded(r) \/ OnDeviceRemoved(r)
        PROVE  EventInv(s)' /\ LeavingInv'
    BY <1>1, <2>1, DeviceEvents
  <2>2. ASSUME NEW k \in Keys, OnBluePress(s, k) \/ \E t \in Types : OnBlueRelease(s, k, t)
        PROVE  EventInv(s)' /\ LeavingInv'
    <3>1. EventInv(s)'
      BY <1>1, <2>2, EventsPress, EventsRelease
    <3>2. Idle /\ UNCHANGED lst
      BY <2>2 DEF OnBluePress, OnBlueRelease, lstVars
    <3>3. PICK t, ls : stack' = <<KeyFrame(s, k, t, ls)>>
      BY <2>2 DEF OnBluePress, OnBlueRelease
    <3>4. KeyFrame(s, k, t, ls).pc = "key"
      BY PushedFrames
    <3>5. FinalizingIn(stack') = {} /\ FinalizeOnce(stack')
      BY <3>3, <3>4, SingleFrame
    <3>6. \A l \in Listeners : lst[l] # "leaving"
      BY <1>1, <3>2, IdleEvents
    <3>7. LeavingInv'
      BY <3>2, <3>5, <3>6 DEF LeavingInv
    <3> QED BY <3>1, <3>7
  <2> QED BY <1>1, <1>3, <2>1, <2>2 DEF Backend
<1>4. CASE Toolkit
  BY <1>1, <1>4, ToolkitEvents
<1>5. CASE Application
  BY <1>1, <1>5, ApplicationEvents
<1>6. CASE UNCHANGED vars
  <2>1. UNCHANGED <<got, pressed, audience, canceled, lst, stack>>
    BY <1>6 DEF vars, devVars, lstVars
  <2> QED BY <1>1, <2>1, CallEvents
<1> QED BY <1>2, <1>3, <1>4, <1>5, <1>6 DEF Next, Dead

LEMMA EventsInit == Init => EventsInv
<1> SUFFICES ASSUME Init, NEW s \in Slots PROVE EventInv(s) /\ LeavingInv
  BY DEF EventsInv
<1>1. /\ stack = <<>> /\ pressed[s] = {} /\ \A l \in Listeners : lst[l] = "new" /\ canceled[l] = {}
      /\ \A k \in Keys, l \in Listeners : got[s][k][l] = "up"
  BY DEF Init
<1>2. Registered = {}
  BY <1>1 DEF Registered
<1>3. /\ LoopsIn(stack) = {} /\ FinalizingIn(stack) = {} /\ FinalizeOnce(stack)
      /\ Presses(stack) = {} /\ Releases(stack) = {} /\ ~Unplugging(stack)
  BY <1>1 DEF LoopsIn, FinalizingIn, FinalizeOnce, Presses, Releases, TellingIn, Unplugging
<1>4. LeavingInv
  BY <1>1, <1>3 DEF LeavingInv
<1>5. UntoldNew(s) /\ DownHeard(s) /\ CanceledTold(s) /\ ClosedWhy(s) /\ NoneBad(s)
  BY <1>1, <1>2 DEF UntoldNew, DownHeard, CanceledTold, ClosedWhy, NoneBad
<1>6. LoopsRight(s) /\ PressesRight(s) /\ ReleasesRight(s) /\ UnplugClear(s) /\ AudienceOld(s)
  BY <1>1, <1>3 DEF LoopsRight, PressesRight, ReleasesRight, UnplugClear, AudienceOld
<1> QED BY <1>4, <1>5, <1>6 DEF EventInv

LEMMA EventsInvariance ==
  ASSUME KeyEventAtStart, \A r, s \in Slots : r = s
  PROVE  Spec => []EventsInv
<1>1. Spec => []HeaderInv
  BY HeaderInvariant
<1>2. NestInv /\ HeaderInv /\ EventsInv /\ [Next]_vars => EventsInv'
  BY EventsKept
<1> QED BY <1>1, <1>2, EventsInit, NestInvariance, PTL DEF Spec

\* Of the keys of the only device no listener is told twice in a row that one
\* went down, nor that one press ended, whatever listeners call while they are told.
THEOREM EventsStayPaired ==
  ASSUME KeyEventAtStart, \A r, s \in Slots : r = s
  PROVE  Spec => []EventsPaired
<1>1. EventsInv => EventsPaired
  BY DEF EventsInv, EventInv, NoneBad, EventsPaired
<1> QED BY <1>1, EventsInvariance, PTL

\* Between dispatches whoever was told of a press and not of its end was told of
\* a key that is pressed.
THEOREM NoKeyStaysStuck ==
  ASSUME KeyEventAtStart, \A r, s \in Slots : r = s
  PROVE  Spec => []NoStuckKey
<1>1. EventsInv => NoStuckKey
  <2> SUFFICES ASSUME EventsInv, Idle, NEW s \in Slots, NEW k \in Keys, NEW l \in Listeners,
                      got[s][k][l] = "down", lst[l] = "added"
               PROVE  k \in pressed[s]
    BY DEF NoStuckKey
  <2>1. EventInv(s) /\ LeavingInv /\ l \in Registered
    BY DEF EventsInv, Registered
  <2>2. Releases(stack) = {}
    BY <2>1, IdleEvents
  <2> QED BY <2>1, <2>2 DEF EventInv, DownHeard
<1> QED BY <1>1, EventsInvariance, PTL

=============================================================================
