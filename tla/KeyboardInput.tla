--------------------------- MODULE KeyboardInput ---------------------------
(***************************************************************************)
(* The keys of stmm-input-btkb's keyboard screen: from the keyboard, the   *)
(* mouse buttons and the fingers, through the window's m_aPressedKeys, to  *)
(* the device that stands for the window in the server.                    *)
(*                                                                         *)
(* The client and the connection are the channel KeyChannel describes,     *)
(* which BtKeyClient implements; of the server there are the keys pressed  *)
(* in the device.                                                          *)
(***************************************************************************)
EXTENDS Integers, Sequences, FiniteSets, SequencesExt

CONSTANTS
  Keys,       \* HARDWARE_KEY values other than HK_NULL
  HK_NULL,    \* no key; what a release of mouse or finger passes for any key
  Exit,       \* a mouse click on the exit button rather than on a key
  Fingers,    \* GdkEventSequence objects
  None,       \* nullptr
  MaxSent,    \* bound: keys accepted by the client, numbered from 1
  MaxHeld,    \* bound: inputs that are down at a time
  MaxEntries  \* bound: entries of m_aPressedKeys

ASSUME InputAssumption ==
  /\ HK_NULL \notin Keys /\ Exit \notin Keys /\ None \notin Fingers
  /\ {MaxSent, MaxHeld, MaxEntries} \subseteq Nat

VARIABLES
  pressed,    \* m_aPressedKeys
  running,    \* m_bRunning of the keyboard screen
  active,     \* isWindowActive()
  held,       \* the user: the keys and fingers, and how many mouse buttons, are down
  up,         \* the client's state is CONNECTED or SENDING
  accepted, waiting, newest,   \* the channel
  event,      \* the type and key of each number that is waiting
  device,     \* m_oPressedKeys of the device
  wire,       \* history: what the client was told of each key
  last,       \* history: the number of each key's last event while it waits, or 0
  done,       \* history: the keys whose last event was heeded by the device
  missed      \* history: the entry types with a release nobody listened to

channel == <<accepted, waiting, newest, event>>
vars == <<pressed, running, active, held, up, channel, device, wire, last, done, missed>>

Channel == INSTANCE KeyChannel

Types == {"KEYBOARD", "MOUSE", "TOUCH"}     \* PRESS_TYPE
EventTypes == {"PRESS", "RELEASE", "CANCEL"}

\* A PressedKey; the finger is null unless the type is PRESS_TYPE_TOUCH.
Entries == [key : Keys, type : Types, finger : Fingers \cup {None}]
ByKeyboard(k) == [key |-> k, type |-> "KEYBOARD", finger |-> None]
ByMouse(k) == [key |-> k, type |-> "MOUSE", finger |-> None]
ByFinger(k, f) == [key |-> k, type |-> "TOUCH", finger |-> f]

Places(q) == 1..Len(q)
KeysOf(q) == {q[i].key : i \in Places(q)}
OfType(q, t) == {i \in Places(q) : q[i].type = t}

Init ==
  /\ pressed = <<>>
  /\ running = FALSE /\ active = TRUE
  /\ held = [keys |-> {}, buttons |-> 0, fingers |-> {}]
  /\ up = FALSE
  /\ Channel!Init /\ event = <<>>
  /\ device = {}
  /\ wire = [k \in Keys |-> "up"]
  /\ last = [k \in Keys |-> 0]
  /\ done = {} /\ missed = {}

-----------------------------------------------------------------------------
(* Sending.                                                                *)

\* What a press or release makes of what was sent of the key before.
Wired(was, type) ==
  IF type = "PRESS" THEN IF was = "up" THEN "down" ELSE "bad"
                    ELSE IF was = "down" THEN "up" ELSE "bad"

\* sendKeyToServer(type, c[1]), sendKeyToServer(type, c[2]), ...: the client
\* refuses what it is told while it has no connection.
Send(type, c) ==
  LET n == Len(c)
      place(k) == CHOOSE i \in 1..n : c[i] = k
      sent == {c[i] : i \in 1..n}
  IN
  /\ wire' = [k \in Keys |-> IF k \in sent THEN Wired(wire[k], type) ELSE wire[k]]
  /\ last' = [k \in Keys |-> CASE k \in sent /\ up  -> accepted + place(k)
                               [] k \in sent /\ ~up -> 0
                               [] k \notin sent     -> last[k]]
  /\ done' = done \ sent
  /\ IF up THEN /\ accepted + n <= MaxSent
                /\ Channel!Accept(n)
                /\ event' = [i \in waiting \cup (accepted + 1)..(accepted + n) |->
                               IF i \in waiting THEN event[i] ELSE <<type, c[i - accepted]>>]
           ELSE UNCHANGED channel

SendNothing == UNCHANGED <<channel, wire, last, done>>

\* A release nobody listens to, of an input with entries in m_aPressedKeys;
\* types without entries are forgotten.
Unheard(types) ==
  missed' = {t \in missed \cup types : OfType(pressed', t) # {}}

-----------------------------------------------------------------------------
(* m_aPressedKeys.                                                         *)

\* Mutant: the repeated press of a key that is held is taken for another input.
HasEntryNever(e) == FALSE

HasEntry(e) == \E i \in Places(pressed) : pressed[i] = e

\* bKeyAlreadyPressed
AlreadyPressed(e) == e.key \in KeysOf(pressed)

\* pressKey(): the press is sent if no other input has pressed the key.
PressKey(e) ==
  \/ /\ HasEntry(e)
     /\ UNCHANGED pressed /\ SendNothing
  \/ /\ ~HasEntry(e)
     /\ Len(pressed) < MaxEntries
     /\ pressed' = Append(pressed, e)
     /\ IF AlreadyPressed(e) THEN SendNothing ELSE Send("PRESS", <<e.key>>)

\* The entries releaseKey() looks for.
Matches(i, k, type, f) ==
  /\ k = HK_NULL \/ pressed[i].key = k
  /\ pressed[i].type = type /\ pressed[i].finger = f

\* Mutant: the release is sent although another input has pressed the key.
StillPressedNever(k, rest) == FALSE

\* bKeyStillPressed
StillPressed(k, rest) == k \in KeysOf(rest)

\* releaseKey(): the first entry that matches is erased; the release is sent
\* if it was the last one of its key.
ReleaseKey(k, type, f, bCancel) ==
  LET found == {i \in Places(pressed) : Matches(i, k, type, f)}
  IN
  \/ /\ found = {}
     /\ UNCHANGED pressed /\ SendNothing
  \/ \E i \in found :
       /\ \A j \in found : i <= j
       /\ pressed' = RemoveAt(pressed, i)
       /\ IF StillPressed(pressed[i].key, RemoveAt(pressed, i))
            THEN SendNothing
            ELSE Send(IF bCancel THEN "CANCEL" ELSE "RELEASE", <<pressed[i].key>>)

\* The order in which the keys lose their last entry when every entry is
\* released from the first to the last.
ReleaseOrder(c) ==
  /\ KeysOf(pressed) = {c[i] : i \in DOMAIN c}
  /\ \A i, j \in DOMAIN c : i < j =>
       \E l \in Places(pressed) :
         /\ pressed[l].key = c[j]
         /\ \A m \in Places(pressed) : pressed[m].key = c[i] => m < l

\* finalizeKeys(): every entry is released as canceled.
FinalizeKeys ==
  /\ pressed' = <<>>
  /\ \E c \in [1..Cardinality(KeysOf(pressed)) -> KeysOf(pressed)] :
       ReleaseOrder(c) /\ Send("CANCEL", c)
  /\ Unheard({})

-----------------------------------------------------------------------------
(* The inputs the user holds down.                                         *)

MayHold == Cardinality(held.keys) + held.buttons + Cardinality(held.fingers) < MaxHeld

-----------------------------------------------------------------------------
(* The keyboard.                                                           *)

\* onKeyPressEvent(): a key goes down, or repeats while it is held.
KeyboardPress(k) ==
  /\ k \in held.keys \/ MayHold
  /\ held' = [held EXCEPT !.keys = @ \cup {k}]
  /\ IF active /\ running THEN PressKey(ByKeyboard(k)) ELSE UNCHANGED pressed /\ SendNothing
  /\ Unheard({})
  /\ UNCHANGED <<running, active, up, device>>

\* onKeyReleaseEvent()
KeyboardRelease(k) ==
  /\ k \in held.keys
  /\ held' = [held EXCEPT !.keys = @ \ {k}]
  /\ IF active /\ running
       THEN ReleaseKey(k, "KEYBOARD", None, FALSE)
       ELSE UNCHANGED pressed /\ SendNothing
  /\ Unheard(IF running THEN {} ELSE {"KEYBOARD"})
  /\ UNCHANGED <<running, active, up, device>>

-----------------------------------------------------------------------------
(* The mouse.                                                              *)

\* onMouseButtonPressed(): on a key, beside the keys, or on the exit button,
\* which leaves the entries as they are.
MousePress(target) ==
  /\ MayHold
  /\ held' = [held EXCEPT !.buttons = @ + 1]
  /\ running' = (running /\ target # Exit)
  /\ IF running /\ target \in Keys
       THEN PressKey(ByMouse(target))
       ELSE UNCHANGED pressed /\ SendNothing
  /\ Unheard({})
  /\ UNCHANGED <<active, up, device>>

\* onMouseButtonReleased(): whichever button, the first mouse entry goes.
MouseRelease ==
  /\ held.buttons > 0
  /\ held' = [held EXCEPT !.buttons = @ - 1]
  /\ IF running
       THEN ReleaseKey(HK_NULL, "MOUSE", None, FALSE) /\ Unheard({})
       ELSE UNCHANGED pressed /\ SendNothing /\ Unheard({"MOUSE"})
  /\ UNCHANGED <<running, active, up, device>>

-----------------------------------------------------------------------------
(* The fingers: onTouchEvent().                                            *)

TouchBegin(f, target) ==
  /\ f \notin held.fingers /\ MayHold
  /\ held' = [held EXCEPT !.fingers = @ \cup {f}]
  /\ IF running /\ target \in Keys
       THEN PressKey(ByFinger(target, f))
       ELSE UNCHANGED pressed /\ SendNothing
  /\ Unheard({})
  /\ UNCHANGED <<running, active, up, device>>

TouchEnd(f, bCancel) ==
  /\ f \in held.fingers
  /\ held' = [held EXCEPT !.fingers = @ \ {f}]
  /\ IF running
       THEN ReleaseKey(HK_NULL, "TOUCH", f, bCancel) /\ Unheard({})
       ELSE UNCHANGED pressed /\ SendNothing /\ Unheard({"TOUCH"})
  /\ UNCHANGED <<running, active, up, device>>

-----------------------------------------------------------------------------
(* The window.                                                             *)

\* onButtonKeyboard(), changeTo(): the button's window is the active one.
OpenKeyboard ==
  /\ ~running /\ active
  /\ running' = TRUE
  /\ UNCHANGED <<pressed, active, held, up, device, missed>>
  /\ SendNothing

\* Mutant: the keys are released when the window becomes active again.
ActiveChangesLate ==
  /\ active' = ~active
  /\ IF running /\ active'
       THEN FinalizeKeys
       ELSE UNCHANGED pressed /\ SendNothing /\ Unheard({})
  /\ UNCHANGED <<running, held, up, device>>

\* onSigIsActiveChanged()
ActiveChanges ==
  /\ active' = ~active
  /\ IF running /\ ~active'
       THEN FinalizeKeys
       ELSE UNCHANGED pressed /\ SendNothing /\ Unheard({})
  /\ UNCHANGED <<running, held, up, device>>

\* onButtonRemove(): after the removal is requested the client refuses keys.
ButtonRemove ==
  /\ ~running /\ up
  /\ FinalizeKeys
  /\ up' = FALSE
  /\ UNCHANGED <<running, active, held, device>>

-----------------------------------------------------------------------------
(* The connection and the server.                                          *)

Connected ==
  /\ ~up
  /\ up' = TRUE
  /\ UNCHANGED <<pressed, running, active, held, channel, device, wire, last, done, missed>>

StillWaiting == [k \in Keys |-> IF last[k] \in waiting' THEN last[k] ELSE 0]

\* The connection ends; what had been sent may still be read.
ConnectionLost(S) ==
  /\ up' = FALSE
  /\ Channel!Lose(S)
  /\ event' = [i \in waiting' |-> event[i]]
  /\ last' = StillWaiting
  /\ UNCHANGED <<pressed, running, active, held, device, wire, done, missed>>

\* Mutant: only a release that is not a cancel is heeded.
HeedReleaseOnly(e) ==
  CASE e[1] = "PRESS"   -> device \cup {e[2]}
    [] e[1] = "RELEASE" -> device \ {e[2]}
    [] e[1] = "CANCEL"  -> device

\* BtKeysDevice::onBlueKey(): a press of a pressed key is suppressed as repeat,
\* a release of a key that is not pressed is ignored.
Heed(e) == IF e[1] = "PRESS" THEN device \cup {e[2]} ELSE device \ {e[2]}

\* BtGtkDeviceManager::onBlueKey(): keys are dropped while no window of the
\* server is selected; the device has no pressed keys then.
Arrive(n) ==
  LET e == event[n]
  IN
  /\ Channel!Deliver(n)
  /\ event' = [i \in waiting' |-> event[i]]
  /\ last' = StillWaiting
  /\ \/ /\ device' = Heed(e)
        /\ done' = IF last[e[2]] = n THEN done \cup {e[2]} ELSE done
     \/ /\ device = {}
        /\ UNCHANGED <<device, done>>
  /\ UNCHANGED <<pressed, running, active, held, up, wire, missed>>

\* Another window or none is selected, or the device is removed.
ServerCancels ==
  /\ device # {}
  /\ device' = {} /\ done' = {}
  /\ UNCHANGED <<pressed, running, active, held, up, channel, wire, last, missed>>

-----------------------------------------------------------------------------
Arrives == \E n \in waiting : Arrive(n)

Next ==
  \/ \E k \in Keys : KeyboardPress(k) \/ KeyboardRelease(k)
  \/ (\E t \in Keys \cup {HK_NULL, Exit} : MousePress(t)) \/ MouseRelease
  \/ \E f \in Fingers : (\E t \in Keys \cup {HK_NULL} : TouchBegin(f, t))
                        \/ \E c \in BOOLEAN : TouchEnd(f, c)
  \/ OpenKeyboard \/ ActiveChanges \/ ButtonRemove
  \/ Connected \/ (\E S \in SUBSET waiting : ConnectionLost(S))
  \/ Arrives \/ ServerCancels

Spec == Init /\ [][Next]_vars

-----------------------------------------------------------------------------
\* The entries of m_aPressedKeys are of the right form and unique
\* (btkbwindow.h:326), and every number that is waiting has its event.
TypeOK ==
  /\ pressed \in Seq(Entries)
  /\ \A i, j \in Places(pressed) : pressed[i] = pressed[j] => i = j
  /\ \A i \in Places(pressed) : pressed[i].finger # None <=> pressed[i].type = "TOUCH"
  /\ {running, active, up} \subseteq BOOLEAN
  /\ held \in [keys : SUBSET Keys, buttons : Nat, fingers : SUBSET Fingers]
  /\ accepted \in Nat /\ newest \in Nat /\ waiting \subseteq (newest + 1)..accepted
  /\ event \in [waiting -> EventTypes \X Keys]
  /\ device \subseteq Keys /\ done \subseteq Keys
  /\ wire \in [Keys -> {"up", "down", "bad"}]
  /\ last \in [Keys -> {0} \cup waiting]
  /\ missed \subseteq Types

\* However many inputs hold a key, in whatever order they press and let go, the
\* client is told of its first press and its last release only, and a key is
\* down for the client exactly while some entry has it.
FirstPressLastRelease ==
  \A k \in Keys : wire[k] = IF k \in KeysOf(pressed) THEN "down" ELSE "up"

\* The device agrees with the window about every key whose last event it
\* heeded: a key is stuck in the device, or missing there, only if that event
\* is on its way, was refused or lost with the connection, came while no window
\* was selected, or was undone when the server canceled its keys.
DeviceFollows ==
  \A k \in done : k \in device <=> k \in KeysOf(pressed)

\* No entry outlives the input that made it, except those whose release came
\* while the screen was not running: the exit button leaves them behind, until
\* the input is let go again, the window is deactivated or Remove is clicked.
EntriesHeld ==
  /\ \A i \in OfType(pressed, "KEYBOARD") :
       pressed[i].key \in held.keys \/ "KEYBOARD" \in missed
  /\ \A i \in OfType(pressed, "TOUCH") :
       pressed[i].finger \in held.fingers \/ "TOUCH" \in missed
  /\ \/ Cardinality(OfType(pressed, "MOUSE")) <= held.buttons
     \/ "MOUSE" \in missed
=============================================================================
