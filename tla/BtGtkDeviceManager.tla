------------------------ MODULE BtGtkDeviceManager ------------------------
(***************************************************************************)
(* The server side device manager: BtGtkDeviceManager, the BtKeysDevice    *)
(* objects it owns, the GtkWindowData it keeps for each tracked window and *)
(* the BtGtkListenerExtraData it keeps for each listener.                  *)
(*                                                                         *)
(* Everything runs in the Gtk main loop's thread, but the listeners are    *)
(* called synchronously from within the manager's loops and may call the   *)
(* manager again (add or remove windows and listeners).  The call stack is *)
(* therefore part of the state: a frame is a function that is in the       *)
(* middle of a loop over listeners or devices, and Step runs the topmost   *)
(* frame up to its next callback.                                          *)
(***************************************************************************)
EXTENDS Integers, FiniteSets, Sequences

CONSTANTS
  Slots,       \* backend ids, the indices of m_aBtDevices
  Keys,        \* HARDWARE_KEY values
  Listeners,   \* ListenerData objects; one is added at most once
  Windows,     \* Gtk::Window objects, each with its GtkAccessor
  None,        \* a null shared_ptr
  MaxData,     \* bound: GtkWindowData objects alive per window
  MaxCalls,    \* bound: calls listeners make during one main loop dispatch
  MaxActive,   \* windows the toolkit may report active at a time
  KeyEventAtStart  \* whether the KeyEvent class is enabled by the constructor

ASSUME NoneAssumption == None \notin Slots \cup (Windows \X Nat)
ASSUME BoundAssumption == MaxData \in Nat /\ MaxCalls \in Nat /\ MaxActive \in Nat
ASSUME StartAssumption == KeyEventAtStart \in BOOLEAN

VARIABLES
  btDevices,   \* m_aBtDevices: "out" beyond the vector's size, "null" or "device"
  pressed,     \* the keys of each device's m_oPressedKeys
  audience,    \* m_nPressedTimeStamp: the listeners added before the key press
  origin,      \* history: the window data selected when the key was pressed
  selected,    \* m_refSelected
  tracked,     \* m_aGtkWindowData (exactly its members are enabled)
  active,      \* toolkit: isWindowActive() of each window
  deleted,     \* toolkit: GtkAccessor::isDeleted() of each window
  lst,         \* registration of each listener in StdDeviceManager
  canceled,    \* BtGtkListenerExtraData::m_aCanceledKeys
  depth,       \* m_nCancelingNestedDepth
  keyEventOn,  \* isEventClassEnabled(KeyEvent)
  stack,       \* the frames of the running functions, the topmost last
  calls,       \* calls made by listeners: now, in this dispatch, and if ever
  got,         \* history: what each listener was told of each key of each device
  fault        \* a null or past-the-end element was dereferenced: the process died

devVars == <<btDevices, pressed, audience, origin>>
winVars == <<selected, tracked>>
toolkitVars == <<active, deleted>>
lstVars == <<lst, canceled, keyEventOn>>
vars == <<devVars, winVars, toolkitVars, lstVars, depth, stack, calls, got, fault>>

\* A GtkWindowData object: the window it was created for and its number.
Data == Windows \X (1..MaxData)
WindowOf(d) == d[1]

Types == {"press", "release", "cancel"}
Pairs == Keys \X Listeners

-----------------------------------------------------------------------------
(* Frames.  pc names the loop, the other fields hold its local variables.  *)

Frame == [pc    : {"key", "mgmt", "cancel", "finalizeKeys",
                   "deselect", "finalize", "unplug", "select"},
          slot  : Slots \cup {None},    \* the device the loop works for
          key   : Keys \cup {None},
          type  : Types,                \* the event sent by a "key" loop
          ls    : SUBSET Listeners,     \* listeners still to call
          todo  : SUBSET Pairs,         \* copied pressed keys, per listener
          heard : SUBSET Pairs,         \* those not younger than the key press
          slots : SUBSET Slots,         \* devices still to visit
          data  : Data \cup {None},     \* the window data to select afterwards
          lst   : Listeners \cup {None},
          cb    : BOOLEAN]              \* a listener is being called

Blank == [pc |-> "select", slot |-> None, key |-> None, type |-> "cancel",
          ls |-> {}, todo |-> {}, heard |-> {}, slots |-> {}, data |-> None,
          lst |-> None, cb |-> FALSE]

Idle == stack = <<>>
Top == stack[Len(stack)]
Popped == SubSeq(stack, 1, Len(stack) - 1)
Replaced(f) == [stack EXCEPT ![Len(stack)] = f]

\* StdDeviceManager::getListeners(): the snapshot a loop runs over.
Registered == {l \in Listeners : lst[l] \in {"added", "leaving"}}

\* The positions of m_aBtDevices, null or not.
Indices == {s \in Slots : btDevices[s] # "out"}

SelectFrame(d) == [Blank EXCEPT !.pc = "select", !.data = d]
\* Mutant: a single device is taken for none.
DeselectFrameShort ==
  [Blank EXCEPT !.pc = "deselect",
                !.slots = {s \in Indices : Indices # {s}}]
DeselectFrame == [Blank EXCEPT !.pc = "deselect", !.slots = Indices]
MgmtFrame == [Blank EXCEPT !.pc = "mgmt", !.ls = Registered]
UnplugFrame(s) == [Blank EXCEPT !.pc = "unplug", !.slot = s]
FinalizeFrame(l) ==
  [Blank EXCEPT !.pc = "finalize", !.lst = l, !.slots = Indices]
KeyFrame(s, k, t, ls) ==
  [Blank EXCEPT !.pc = "key", !.slot = s, !.key = k, !.type = t, !.ls = ls]

\* Mutant: the comparison with the listener's time stamp is the wrong way round.
KeysFrameYounger(pc, s, ls) ==
  LET todo == pressed[s] \X ls
  IN  [Blank EXCEPT !.pc = pc, !.slot = s, !.todo = todo,
                    !.heard = {p \in todo : p[2] \notin audience[s][p[1]]}]

\* The copy of m_oPressedKeys a canceling loop works on, for the listeners ls.
KeysFrame(pc, s, ls) ==
  LET todo == pressed[s] \X ls
  IN  [Blank EXCEPT !.pc = pc, !.slot = s, !.todo = todo,
                    !.heard = {p \in todo : p[2] \in audience[s][p[1]]}]

\* sendKeyEventToListener: the listener, if still registered, is called.
Told(was, t) ==
  IF t = "press"
    THEN IF was = "up" THEN "down" ELSE "bad"
    ELSE IF was = "bad" \/ was = "closed" THEN "bad" ELSE "closed"

Send(l, s, k, t) ==
  got' = IF l \in Registered THEN [got EXCEPT ![s][k][l] = Told(@, t)] ELSE got

\* Mutant: resetExtraDataOfAllListeners() is forgotten.
LeaveCancelingDirty ==
  /\ depth' = depth - 1
  /\ UNCHANGED canceled

\* The end of a canceling function: --m_nCancelingNestedDepth.
LeaveCanceling ==
  /\ depth' = depth - 1
  /\ canceled' = IF depth = 1 THEN [l \in Listeners |-> {}] ELSE canceled

-----------------------------------------------------------------------------
Init ==
  /\ btDevices = [s \in Slots |-> "out"]
  /\ pressed = [s \in Slots |-> {}]
  /\ audience = [s \in Slots |-> [k \in Keys |-> {}]]
  /\ origin = [s \in Slots |-> [k \in Keys |-> None]]
  /\ selected = None
  /\ tracked = {}
  /\ active = [w \in Windows |-> FALSE]
  /\ deleted = [w \in Windows |-> FALSE]
  /\ lst = [l \in Listeners |-> "new"]
  /\ canceled = [l \in Listeners |-> {}]
  /\ depth = 0
  /\ keyEventOn = KeyEventAtStart
  /\ stack = <<>>
  /\ calls = [now |-> 0, ever |-> FALSE]
  /\ got = [s \in Slots |-> [k \in Keys |-> [l \in Listeners |-> "up"]]]
  /\ fault = FALSE

-----------------------------------------------------------------------------
(* What the backend calls from its own main loop sources.                  *)

\* The backend reuses the position of a removed device before it appends.
NextSlot(s) ==
  /\ btDevices[s] # "device"
  /\ btDevices[s] = "out" => \A r \in Slots : btDevices[r] # "null"

OnDeviceAdded(s) ==
  /\ Idle
  /\ btDevices' = [btDevices EXCEPT ![s] = "device"]
  /\ stack' = <<MgmtFrame>>
  /\ UNCHANGED <<pressed, audience, origin, winVars, toolkitVars, lstVars,
                 depth, calls, got, fault>>

\* cancelDeviceKeys: the keys of one device are canceled, then it is removed.
OnDeviceRemoved(s) ==
  /\ Idle
  /\ btDevices[s] = "device"
  /\ depth' = depth + 1
  /\ stack' = IF keyEventOn /\ selected # None
                THEN <<UnplugFrame(s), KeysFrame("cancel", s, Registered)>>
                ELSE <<UnplugFrame(s)>>
  /\ UNCHANGED <<devVars, winVars, toolkitVars, lstVars, calls, got, fault>>

OnBluePress(s, k) ==
  /\ Idle
  /\ btDevices[s] = "device"
  /\ selected # None
  /\ k \notin pressed[s]                  \* else key repeat: suppressed
  /\ pressed' = [pressed EXCEPT ![s] = @ \cup {k}]
  /\ audience' = [audience EXCEPT ![s][k] = Registered]
  /\ origin' = [origin EXCEPT ![s][k] = selected]
  /\ got' = [got EXCEPT ![s][k] = [l \in Listeners |->
                                     IF @[l] = "closed" THEN "up" ELSE @[l]]]
  /\ stack' = <<KeyFrame(s, k, "press", Registered)>>
  /\ UNCHANGED <<btDevices, winVars, toolkitVars, lstVars, depth, calls, fault>>

OnBlueRelease(s, k, t) ==
  /\ Idle
  /\ btDevices[s] = "device"
  /\ selected # None
  /\ t \in {"release", "cancel"}
  /\ k \in pressed[s]                     \* else orphan release: ignored
  /\ pressed' = [pressed EXCEPT ![s] = @ \ {k}]
  /\ audience' = [audience EXCEPT ![s][k] = {}]
  /\ origin' = [origin EXCEPT ![s][k] = None]
  /\ stack' = <<KeyFrame(s, k, t, Registered \cap audience[s][k])>>
  /\ UNCHANGED <<btDevices, winVars, toolkitVars, lstVars, depth, calls, got, fault>>

-----------------------------------------------------------------------------
(* What the toolkit reports and what the application calls, the latter from *)
(* the main loop or from within a listener's callback.                      *)

MayCall == ~Idle => (Top.cb /\ calls.now < MaxCalls)
CountCall == calls' = IF Idle THEN [now |-> 0, ever |-> calls.ever]
                              ELSE [now |-> calls.now + 1, ever |-> TRUE]

\* GtkWindowData::onSigIsActiveChanged, connected only while tracked.
OnIsActiveChanged(w) ==
  /\ Idle
  /\ ~deleted[w]
  /\ active[w] \/ Cardinality({v \in Windows : active[v]}) < MaxActive
  /\ active' = [active EXCEPT ![w] = ~@]
  /\ \/ /\ \A d \in tracked : WindowOf(d) # w
        /\ UNCHANGED <<selected, depth, stack>>
     \/ \E d \in tracked :
          /\ WindowOf(d) = w
          /\ \/ /\ ~active[w] /\ selected \in {None, d}
                /\ selected' = d
                /\ UNCHANGED <<depth, stack>>
             \/ /\ ~active[w] /\ selected \notin {None, d}
                /\ depth' = depth + 1
                /\ stack' = Append(Append(stack, SelectFrame(d)), DeselectFrame)
                /\ UNCHANGED selected
             \/ /\ active[w] /\ selected = d
                /\ depth' = depth + 1
                /\ stack' = Append(stack, DeselectFrame)
                /\ UNCHANGED selected
             \/ /\ active[w] /\ selected # d
                /\ UNCHANGED <<selected, depth, stack>>
  /\ UNCHANGED <<devVars, tracked, deleted, lstVars, calls, got, fault>>

\* The window is destroyed: its accessor tells so, no is-active signal comes.
DeleteWindow(w) ==
  /\ MayCall
  /\ ~deleted[w]
  /\ deleted' = [deleted EXCEPT ![w] = TRUE]
  /\ active' = [active EXCEPT ![w] = FALSE]
  /\ CountCall
  /\ UNCHANGED <<devVars, winVars, lstVars, depth, stack, got, fault>>

\* Objects still referenced cannot be recycled by the GtkWindowDataFactory.
Referenced == tracked \cup {selected} \cup {stack[i].data : i \in 1..Len(stack)}
Unused(w) == {d \in Data : WindowOf(d) = w /\ d \notin Referenced}

\* Mutant: the removed window stays selected.
RemoveDataStaysSelected(d) ==
  /\ tracked' = tracked \ {d}
  /\ UNCHANGED <<selected, depth, stack, fault>>

\* removeAccessor(it): d is disabled and erased, and deselected if selected.
RemoveData(d) ==
  /\ tracked' = tracked \ {d}
  /\ IF selected = d
       THEN depth' = depth + 1 /\ stack' = Append(stack, DeselectFrame)
       ELSE UNCHANGED <<depth, stack>>
  /\ UNCHANGED <<selected, fault>>

\* Also addAccessor() for a destroyed window that is still tracked.
RemoveAccessor(w) ==
  /\ MayCall
  /\ \E d \in tracked : WindowOf(d) = w /\ RemoveData(d)
  /\ CountCall
  /\ UNCHANGED <<devVars, toolkitVars, lstVars, got>>

\* The active window d is added while the selected one is destroyed.
ReplaceDeleted(d) ==
  LET found == {e \in tracked : WindowOf(e) = WindowOf(selected)} IN
  \/ /\ found = {}                 \* itSelectedFind is past the end
     /\ fault' = TRUE
     /\ UNCHANGED <<winVars, depth, stack>>
  \/ \E e \in found :
       /\ tracked' = (tracked \cup {d}) \ {e}
       /\ IF selected = e
            THEN /\ depth' = depth + 1
                 /\ stack' = Append(Append(stack, SelectFrame(d)), DeselectFrame)
                 /\ UNCHANGED selected
            ELSE /\ selected' = d
                 /\ UNCHANGED <<depth, stack>>
       /\ UNCHANGED fault

AddAccessor(w) ==
  /\ MayCall
  /\ ~deleted[w]
  /\ \A d \in tracked : WindowOf(d) # w
  /\ Unused(w) # {}
  /\ LET d == CHOOSE x \in Unused(w) : TRUE IN
     \/ /\ selected = None
        /\ tracked' = tracked \cup {d}
        /\ selected' = IF active[w] THEN d ELSE None
        /\ UNCHANGED <<depth, stack, fault>>
     \/ /\ selected # None /\ active[w] /\ deleted[WindowOf(selected)]
        /\ ReplaceDeleted(d)
     \/ /\ selected # None /\ active[w] /\ ~deleted[WindowOf(selected)]
        /\ tracked' = tracked \cup {d}
        /\ depth' = depth + 1
        /\ stack' = Append(Append(stack, SelectFrame(d)), DeselectFrame)
        /\ UNCHANGED <<selected, fault>>
     \/ /\ selected # None /\ ~active[w]
        /\ tracked' = tracked \cup {d}
        /\ depth' = depth + 1
        /\ stack' = Append(stack, DeselectFrame)
        /\ UNCHANGED <<selected, fault>>
  /\ CountCall
  /\ UNCHANGED <<devVars, toolkitVars, lstVars, got>>

AddListener(l) ==
  /\ MayCall
  /\ lst[l] = "new"
  /\ lst' = [lst EXCEPT ![l] = "added"]
  /\ CountCall
  /\ UNCHANGED <<devVars, winVars, toolkitVars, canceled, keyEventOn,
                 depth, stack, got, fault>>

\* removeEventListener(l, TRUE) calls finalizeListener before l is dropped.
RemoveListener(l, finalize) ==
  /\ MayCall
  /\ lst[l] = "added"
  /\ IF finalize
       THEN /\ lst' = [lst EXCEPT ![l] = "leaving"]
            /\ depth' = depth + 1
            /\ stack' = Append(stack, FinalizeFrame(l))
       ELSE /\ lst' = [lst EXCEPT ![l] = "removed"]
            /\ UNCHANGED <<depth, stack>>
  /\ CountCall
  /\ UNCHANGED <<devVars, winVars, toolkitVars, canceled, keyEventOn, got, fault>>

EnableKeyEvent ==
  /\ MayCall
  /\ ~keyEventOn
  /\ keyEventOn' = TRUE
  /\ CountCall
  /\ UNCHANGED <<devVars, winVars, toolkitVars, lst, canceled, depth, stack,
                 got, fault>>

-----------------------------------------------------------------------------
(* The loops, one iteration at a time.                                     *)

\* The function returns; the dispatch is over when it was the last one.
Return ==
  /\ stack' = Popped
  /\ calls' = IF Len(stack) = 1 THEN [now |-> 0, ever |-> calls.ever] ELSE calls

\* onBlueKey(): the loop ends early when a callback canceled the press.
KeyDone == Top.ls = {} \/ (Top.type = "press" /\ Top.key \notin pressed[Top.slot])

KeyStep ==
  /\ Top.pc = "key"
  /\ \/ /\ KeyDone
        /\ Return
        /\ UNCHANGED got
     \/ /\ ~KeyDone
        /\ \E l \in Top.ls :
             /\ stack' = Replaced([Top EXCEPT !.ls = @ \ {l}, !.cb = TRUE])
             /\ Send(l, Top.slot, Top.key, Top.type)
        /\ UNCHANGED calls
  /\ UNCHANGED <<devVars, winVars, toolkitVars, lstVars, depth, fault>>

\* sendDeviceMgmtToListeners()
MgmtStep ==
  /\ Top.pc = "mgmt"
  /\ \/ /\ Top.ls = {}
        /\ Return
     \/ /\ \E l \in Top.ls :
             stack' = Replaced([Top EXCEPT !.ls = @ \ {l}, !.cb = TRUE])
        /\ UNCHANGED calls
  /\ UNCHANGED <<devVars, winVars, toolkitVars, lstVars, depth, got, fault>>

\* Mutant: the extra data is not consulted.
CancelOneAgain(p) ==
  /\ canceled' = [canceled EXCEPT ![p[2]] = @ \cup {p[1]}]
  /\ IF p \in Top.heard
       THEN /\ Send(p[2], Top.slot, p[1], "cancel")
            /\ stack' = Replaced([Top EXCEPT !.todo = @ \ {p}, !.cb = TRUE])
       ELSE /\ stack' = Replaced([Top EXCEPT !.todo = @ \ {p}])
            /\ UNCHANGED got

\* One key, one listener: skipped if the listener's extra data has the key.
CancelOne(p) ==
  LET k == p[1]
      l == p[2]
  IN  IF k \in canceled[l]
        THEN /\ stack' = Replaced([Top EXCEPT !.todo = @ \ {p}])
             /\ UNCHANGED <<canceled, got>>
        ELSE /\ canceled' = [canceled EXCEPT ![l] = @ \cup {k}]
             /\ IF p \in Top.heard
                  THEN /\ Send(l, Top.slot, k, "cancel")
                       /\ stack' = Replaced([Top EXCEPT !.todo = @ \ {p}, !.cb = TRUE])
                  ELSE /\ stack' = Replaced([Top EXCEPT !.todo = @ \ {p}])
                       /\ UNCHANGED got

\* Mutant: m_oPressedKeys.clear() is forgotten.
ForgetKeysNot(s) == UNCHANGED <<pressed, audience, origin>>

\* Mutant: the time stamps of the keys are reset to null.
ForgetKeysNull(s) ==
  /\ pressed' = [pressed EXCEPT ![s] = {}]
  /\ audience' = [audience EXCEPT ![s] = None]
  /\ UNCHANGED origin

\* No key is pressed on a device any more: cleared, or the device is gone.
ForgetKeys(s) ==
  /\ pressed' = [pressed EXCEPT ![s] = {}]
  /\ audience' = [audience EXCEPT ![s] = [k \in Keys |-> {}]]
  /\ origin' = [origin EXCEPT ![s] = [k \in Keys |-> None]]

\* cancelSelectedAccessorKeys(): all copied keys, then m_oPressedKeys.clear().
CancelStep ==
  /\ Top.pc = "cancel"
  /\ \/ /\ Top.todo = {}
        /\ ForgetKeys(Top.slot)
        /\ Return
        /\ UNCHANGED <<canceled, got>>
     \/ /\ \E p \in Top.todo : CancelOne(p)
        /\ UNCHANGED <<pressed, audience, origin, calls>>
  /\ UNCHANGED <<btDevices, winVars, toolkitVars, lst, keyEventOn, depth, fault>>

\* BtKeysDevice::finalizeListener(): one listener, m_oPressedKeys is kept.
FinalizeKeysStep ==
  /\ Top.pc = "finalizeKeys"
  /\ \/ /\ Top.todo = {} \/ selected = None
        /\ Return
        /\ UNCHANGED <<canceled, got>>
     \/ /\ selected # None
        /\ \E p \in Top.todo : CancelOne(p)
        /\ UNCHANGED calls
  /\ UNCHANGED <<devVars, winVars, toolkitVars, lst, keyEventOn, depth, fault>>

\* A device loop of deselectAccessor() or finalizeListener() reaches slot s:
\* a null element is dereferenced, else the device's own loop is called.
VisitDevice(s, pc, ls) ==
  LET rest == Replaced([Top EXCEPT !.slots = @ \ {s}]) IN
  IF btDevices[s] = "null"
    THEN /\ fault' = TRUE
         /\ UNCHANGED stack
    ELSE /\ stack' = IF keyEventOn /\ selected # None
                       THEN Append(rest, KeysFrame(pc, s, ls))
                       ELSE rest
         /\ UNCHANGED fault

DeselectStep ==
  /\ Top.pc = "deselect"
  /\ \/ /\ Top.slots = {}
        /\ selected' = None
        /\ LeaveCanceling
        /\ Return
        /\ UNCHANGED fault
     \/ /\ \E s \in Top.slots : VisitDevice(s, "cancel", Registered)
        /\ UNCHANGED <<selected, canceled, depth, calls>>
  /\ UNCHANGED <<devVars, tracked, toolkitVars, lst, keyEventOn, got>>

FinalizeStep ==
  /\ Top.pc = "finalize"
  /\ \/ /\ Top.slots = {}
        /\ lst' = [lst EXCEPT ![Top.lst] = "removed"]
        /\ LeaveCanceling
        /\ Return
        /\ UNCHANGED fault
     \/ /\ \E s \in Top.slots : VisitDevice(s, "finalizeKeys", Listeners \cap {Top.lst})
        /\ UNCHANGED <<lst, canceled, depth, calls>>
  /\ UNCHANGED <<devVars, winVars, toolkitVars, keyEventOn, got>>

\* The rest of onDeviceRemoved() after the device's keys have been canceled.
UnplugStep ==
  /\ Top.pc = "unplug"
  /\ btDevices' = [btDevices EXCEPT ![Top.slot] = "null"]
  /\ ForgetKeys(Top.slot)
  /\ LeaveCanceling
  /\ stack' = Replaced(MgmtFrame)
  /\ UNCHANGED <<winVars, toolkitVars, lst, keyEventOn,
                 calls, got, fault>>

\* The rest of addAccessor() and onIsActiveChanged() after deselectAccessor().
SelectStep ==
  /\ Top.pc = "select"
  /\ selected' = Top.data
  /\ Return
  /\ UNCHANGED <<devVars, tracked, toolkitVars, lstVars, depth, got, fault>>

-----------------------------------------------------------------------------
Step ==
  /\ ~fault /\ ~Idle
  /\ \/ KeyStep \/ MgmtStep \/ CancelStep \/ FinalizeKeysStep
     \/ DeselectStep \/ FinalizeStep \/ UnplugStep \/ SelectStep

Backend ==
  \E s \in Slots :
    \/ NextSlot(s) /\ OnDeviceAdded(s)
    \/ OnDeviceRemoved(s)
    \/ \E k \in Keys : OnBluePress(s, k) \/ \E t \in Types : OnBlueRelease(s, k, t)

Toolkit == \E w \in Windows : OnIsActiveChanged(w) \/ DeleteWindow(w)

Application ==
  \/ \E w \in Windows : AddAccessor(w) \/ RemoveAccessor(w)
  \/ \E l \in Listeners : AddListener(l) \/ \E b \in BOOLEAN : RemoveListener(l, b)
  \/ EnableKeyEvent

Dead == fault /\ UNCHANGED vars

Next == Step \/ (~fault /\ (Backend \/ Toolkit \/ Application)) \/ Dead

Spec == Init /\ [][Next]_vars

-----------------------------------------------------------------------------
(* Properties.                                                             *)

\* Every variable has its type.
TypeOK ==
  /\ btDevices \in [Slots -> {"out", "null", "device"}]
  /\ pressed \in [Slots -> SUBSET Keys]
  /\ audience \in [Slots -> [Keys -> SUBSET Listeners]]
  /\ origin \in [Slots -> [Keys -> Data \cup {None}]]
  /\ selected \in Data \cup {None}
  /\ tracked \in SUBSET Data
  /\ active \in [Windows -> BOOLEAN]
  /\ deleted \in [Windows -> BOOLEAN]
  /\ lst \in [Listeners -> {"new", "added", "leaving", "removed"}]
  /\ canceled \in [Listeners -> SUBSET Keys]
  /\ depth \in Int
  /\ keyEventOn \in BOOLEAN
  /\ stack \in Seq(Frame)
  /\ calls \in [now : Nat, ever : BOOLEAN]
  /\ got \in [Slots -> [Keys -> [Listeners -> {"up", "down", "closed", "bad"}]]]
  /\ fault \in BOOLEAN

\* The header's first invariant: while no window is selected no key of any
\* device is pressed, whatever the listeners call while they are called.
NoneSelectedNonePressed ==
  selected = None => \A s \in Slots : pressed[s] = {}

\* Why it holds: every running deselectAccessor() still has to visit a device
\* with pressed keys, or is just having its keys canceled.  The windows selected
\* afterwards are not null, and the removed devices have no pressed keys.
DeselectCovers ==
  \A i \in 1..Len(stack) : stack[i].pc = "deselect" =>
    \A s \in Slots :
      \/ s \in stack[i].slots
      \/ pressed[s] = {}
      \/ i < Len(stack) /\ stack[i + 1].pc = "cancel" /\ stack[i + 1].slot = s
HeaderInv ==
  /\ keyEventOn
  /\ NoneSelectedNonePressed
  /\ \A s \in Slots : btDevices[s] # "device" => pressed[s] = {}
  /\ \A i \in 1..Len(stack) : stack[i].pc = "select" => stack[i].data # None
  /\ DeselectCovers

\* The header's second invariant: the keys pressed while a window is selected
\* were all pressed for that window.  Holds as long as listeners make at most
\* one call during a dispatch.
PressedForSelected ==
  \A s \in Slots : \A k \in pressed[s] :
    selected # None => origin[s][k] = selected

\* btgtkdevicemanager.h:139, "if m_refSelected is not null, all pressed buttons
\* and hats were generated for the selected window", asked between dispatches.
\* Refuted when a listener makes two calls: deselectAccessor() returns to a
\* function that selects window data which is no longer in m_aGtkWindowData.
PressedForSelectedAtRest == Idle => PressedForSelected

\* Nested canceling: m_nCancelingNestedDepth counts the canceling functions on
\* the call stack, and once the last returns no listener has leftover
\* m_aCanceledKeys that would suppress a later cancel.
Canceling == {i \in 1..Len(stack) : stack[i].pc \in {"deselect", "finalize", "unplug"}}
CancelingNests ==
  /\ depth = Cardinality(Canceling)
  /\ depth = 0 => \A l \in Listeners : canceled[l] = {}

\* A listener is never told twice in a row that a key went down, nor twice that one
\* press ended, however callbacks nest cancels in the loops that called them.  It
\* may be told of the end alone, if the key is canceled before its turn came.
EventsPaired ==
  \A s \in Slots, k \in Keys, l \in Listeners : got[s][k][l] # "bad"

\* Between dispatches a listener that was told of a press and not of its end
\* has a key that is really pressed: cancels reach every listener.
NoStuckKey ==
  Idle /\ ~fault =>
    \A s \in Slots, k \in Keys, l \in Listeners :
      got[s][k][l] = "down" /\ lst[l] = "added" => k \in pressed[s]

\* Between dispatches the selected window is a tracked one, and it is active
\* unless it was destroyed: holds until a listener calls the manager.
SelectedIsCurrent ==
  ~calls.ever /\ Idle /\ selected # None =>
    /\ selected \in tracked
    /\ active[WindowOf(selected)] \/ deleted[WindowOf(selected)]

\* btgtkdevicemanager.cc:292, assert(bFoundWindow): the selected window's data
\* is found when a destroyed window is replaced by an active one.  Holds until
\* a listener calls the manager; the only fault left is a null device.
SelectedIsFound == ~calls.ever /\ fault => \E s \in Slots : btDevices[s] = "null"

\* btgtkdevicemanager.h:144: an element of m_aBtDevices "can be null!", so a
\* loop over the devices copes with one.  Refuted: the loops call every element.
NullIsHandled == fault => \A s \in Slots : btDevices[s] # "null"
=============================================================================
