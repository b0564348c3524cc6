# A TLA+ model of stmm-input-bt

stmm-input-bt makes a keyboard of one computer a device of another: the client
program `stmm-input-btkb` sends keys over a bluetooth L2CAP socket, the library
`libstmm-input-gtk-bt` accepts the clients and reports their keys, one device
for each client, to the listeners of the window that is active. This directory
models the two in TLA+, checks the models with TLC and proves what matters most
with TLAPS. `PROJECT.json` names, for every definition, the lines of the source
it translates.

## Inventory

Both programs have one thread, the Gtk main loop; the client starts a thread
for each inquiry of servers. Their difficulty is order more than parallelism: an
iteration of the main loop polls all sources first and dispatches them
afterwards, when the state may have changed; signals and listeners are called
synchronously in the middle of loops and may call back; sockets block, hang up
and are closed twice; keys are held by several inputs at once; arrays are
resized while indices into them are kept.

| component | state | operations | talks to | modules |
|---|---|---|---|---|
| device manager (`btgtkdevicemanager.cc`, `btgtkkeysdevice.cc`, `btgtkwindowdata.cc`, `btgtklistenerextradata.cc`, `recycler.h`) | devices by backend id, pressed keys, tracked windows and the selected one, canceled keys of each listener, nesting depth | add, remove device; key; add, remove, (de)activate window; add, remove listener; enable class | called by the server and Gtk, calls listeners, which call it back | `BtGtkDeviceManager` |
| bluetooth server (`btgtkbackend.cc`, `bluetoothsources.cc`, `keypacket.h`) | address and receive source of each backend id, the accept source | accept, receive, close, remove, delete | sockets; calls the device manager | `GtkBackend`, `DeviceRegistry` |
| key client (`btkeyclient.cc`, `btclientsources.cc`) | connection state, socket, buffered keys, packets, pending sources, interval timer | connect, disconnect, send key, send remove, timer, two callbacks | called by the window; sockets | `BtKeyClient`, `KeyChannel` |
| circular buffer (`circularbuffer.h`) | array, two indices, count | write, read, clear, peek | used by the client | `CircularBuffer`, `BoundedFifo` |
| keyboard input (`btkbwindow.cc` 823-937, `keyboardscreen.cc` 140-345) | the pressed keys, each with the input that holds it | press and release of keyboard, mouse and fingers; (de)activate; remove | called by Gtk; calls the client | `KeyboardInput`, over `KeyChannel` |
| server inquiry (`btkeyservers.cc`, the window's list and staged server) | servers, error, future of the inquiry, hung flag; list, choice, staged server, buttons | refresh, poll, time out; select, choose, type in, connect; the end of `main()` | a thread for each inquiry; the window | `BtKeyServers` |
| key grid and configuration (`btkbwindow.cc`, `keyboardscreen.cc`, `util.cc`, edit screens) | keys and weights of the grid, exit button, cell positions, stored configuration | load, resize, edit, draw, click, save | Gtk | `KeyGrid` |
| command line, key tables, widget helpers, plugin entry points, tests, examples, scripts | | | | not modelled, see the end |

What makes each correct:

* device manager: the two invariants its header states (no window selected, no
  key pressed; all pressed keys belong to the selected window), no listener is
  told twice of a press or of its end, none is left with a key it believes to be
  down, nested canceling leaves nothing behind.
* server: a client stays one device over all its connections until it removes
  it, one source reads for a device, no connection leaks, every key that
  arrives is read, a removal is not lost while the connection stands.
* client: state, socket and sources agree whatever order they are dispatched
  in; keys arrive in order, once, and are not lost silently; connection attempts
  and batches end, and no accepted key waits for ever, unless a removal does.
* circular buffer: it is a fifo.
* keyboard input: however many inputs hold a key, its first press and last
  release are sent and nothing else, so that no key is stuck in the server.
* server inquiry: list, buttons, staged server and connection agree, whenever
  inquiries end; every refresh ends, and so does the program.
* key grid: every index stays in range through any sequence of edits; a click
  finds the key that is drawn under it; what is stored is what is loaded.

The behaviours a test hardly reaches are listed, with the line where they bite,
under "hazards" in `PROJECT.json`.

## How the modules compose

    KeyboardInput ----> KeyChannel <==== BtKeyClient        the keyboard's program
         |                                  | its buffer
         | device                      CircularBuffer ====> BoundedFifo
         v
    BtGtkDeviceManager ----> DeviceRegistry <==== GtkBackend     the server

`A ====> B` is a refinement that TLC checks and TLAPS proves (`INSTANCE ... WITH`),
`A ----> B` the use of a promise. `KeyChannel` is what the window relies on of
the client: `KeyboardInput` does its sending with the actions of an instance of
it, and `BtKeyClient` is shown to keep it (`KeepsChannel`). `DeviceRegistry` is
what the manager relies on of the server (`NextSlot` takes it for granted), and
`GtkBackend` is shown to keep it (`KeepsRegistry`). So the three large modules
are checked apart, each against what its neighbour promises, and `KeyboardInput`
follows a key from the finger to the device in the server.

## Modules

### BtGtkDeviceManager

Listeners are called from the middle of loops over keys, listeners and devices
and may call the manager again, so the call stack is a variable: a frame is a
function in the middle of a loop, with its local variables, and `Step` runs the
topmost frame to its next callback. `Application` is what both the main program
and a listener may call. A new dispatch starts only when the stack is empty.
`got` records what each listener was told of each key; `origin` for which
window a key was pressed; `fault` that a null or past-the-end element was
dereferenced. Window data objects are recycled by the code (`recycler.h`), so
they are a window and a small number. The toolkit's part (a window is active,
an accessor deleted) and the base class's listener list are external.
Time stamps are not numbers: what a key press needs is which listeners were
added before it (`audience`).

### GtkBackend and DeviceRegistry

A client has an address and at most one connection it knows of; the server may
know of an older one too. The network may hang up, hold unread records, or drop
a connection that was not accepted yet. `Poll` marks the ready sources; the
actions of `Accept` and `Receive` are the dispatches, the packets of a record one
step each, because listeners are called in between. What a client sends is a
record of any number of keys, and what follows them (`Batches`): nothing or the
removal behind keys, but also NOOPs and packets that are none; a key is not sent behind
a removal in the same record, as the client disconnects after it. `recv()` may fail
(`ReceiveFails`). The uninitialized packet of
the error paths is a nondeterministic command; a key reported from one is not
counted in `heard`. `Dead` stands for a RefPtr to a source that closed itself.
`DeviceRegistry` is the table the manager is asked to keep and the order of the
keys.

### BtKeyClient, KeyChannel, CircularBuffer and BoundedFifo

The client's five states, its socket number, the attached sources with the
event each is ready for, and the timer. `Poll` starts an iteration of the main
loop; the Gtk event, the timer and the sources of the iteration are dispatched
in any order. A source that the client dropped stays attached until it is
dispatched and then closes its descriptor number, as its destructor does. Keys
are numbered in the order they were entered, which makes order and loss visible
in `hist`. The four times are counted in ticks of the interval timer, up to the
first that exceeds every limit. `SendPackets` is `sendPacketsFromBufferedKeys()`
and is used by every caller with what the caller changed before. `asserts` is
the build, chosen at the start and never changed: with assertions a failing one
ends the behaviour. Failing calls to `socket()` and `fcntl()`, which change
nothing, are left out. The buffer is a sequence here; `CircularBuffer` models
the array it is kept in and implements `BoundedFifo`. `KeyChannel` forgets
states, packets and sources: keys are accepted, wait, arrive in order or are
lost.

### KeyboardInput

`pressed` is `m_aPressedKeys`, with the key, the type and the finger of each
entry; `held` is what the user really holds down, which the program cannot see.
Every handler of keyboard, mouse and touch is an action, with the conditions
under which it is not called at all (`running`, `active`). `Send` is
`sendKeyToServer()`: it gives the keys to the channel if there is a connection,
otherwise the client refuses them. `FinalizeKeys` releases every entry from the
first to the last, so the order of the keys it sends is constrained by
`ReleaseOrder` rather than computed by a loop. A key that arrives is heeded by
the device as `BtKeysDevice::onBlueKey()` does, or dropped because no window is
selected; `ServerCancels` is the manager canceling the device's keys. The history
variables say what the client was told of each key (`wire`), which event of a key
was its last and still waits (`last`), the keys whose last event the device heeded
(`done`), and the inputs whose release nobody listened to (`missed`). The server
is taken to have the KeyEvent class enabled.

### BtKeyServers

Each refresh has a thread of its own, because a thread that was declared hung
may still run when the next refresh replaces its future: `waitsFor` is the
thread the destructor of the old future joins, during which the main loop
stands still. `refreshServers()` is one step, in which the thread ends with an
error and the extra address, if any, or with any set of addresses. `elapsed`
counts the timer's seconds up to `Limit`. `IntervalTimeout` is a whole call of
the timer with the window's handler of the signal it emits. The staged server is
what `m_oCurServer` is; while a client is or gets connected, `target` is the
server it was given. The configuration may hold an address without a valid
port, or neither (`Configured`). The end of `main()` is modelled because it waits for the
future, unless a thread has hung.

### KeyGrid

The two dimensions are treated alike in the code, once for columns and once for
rows, and once for both here. `cells` is `m_aEditHK`, row after row: it grows and
never shrinks, so it has cells beyond the grid. Loading is the whole of
`loadStateFromConfig()` with the vectors the constructor makes of it, for good
configurations and for bad ones. Cell sizes are computed in floating point by
the code: where the quotient is a whole number, truncation may yield one less
(`Shares`), and both outcomes are explored. Texts of numbers are sequences of
numbers, of which `Valid` keeps those in range. `Hits` are the cells that contain a
point, of which `getKeyFromCoords()` takes the first in its order.

### MC modules and mutants

The MC modules give the constants values. The definitions after a comment
`Mutant:` are variants of the definition below them with a likely bug, which
show that a property notices it.

## Runs

All bounds are constants of the modules.

| run | instance | shows |
|---|---|---|
| ManagerNested | 1 device, 1 key, 2 listeners, 2 windows, listeners call back twice in a dispatch | types, nested canceling is balanced, no listener is told twice of a press or its end, no key is left stuck |
| ManagerTwoDevices | 2 devices, 1 key, 1 listener, 2 windows, 1 call back | the header's two invariants as far as they hold, the inductive one that is proved; until a listener calls back, the selected window is tracked and found again |
| Backend | 2 clients, 2 connections, 2 keys, in one record or two, and all kinds of packets behind them | types, one source for each device, no connection leaks, a removal is lost only with its connection, the backend implements `DeviceRegistry` |
| BackendReads | 2 clients, 2 connections, 2 keys, in one record or two, removals behind them, fair | every key that arrived is read |
| Client | 3 keys, buffer of 2, 2 descriptors, up to 3 sources, `connect()` may succeed at once, both builds, fair | types, agreement of state, socket and sources, no silent loss, only a stale source closes the client's socket behind its back, the client implements `KeyChannel`; connecting and sending end and accepted keys do not wait for ever, but for a removal |
| CircularBuffer | 3 elements, 2 values | the representation's invariant, implements `BoundedFifo` |
| Keyboard | 2 keys, 1 finger, 2 inputs at a time, 3 keys sent | first press and last release only, the device follows, no entry without an input |
| Servers | 2 addresses, 3 ports, any configured server, with and without an extra server, 3 refreshes, a limit of 2 seconds, fair | buttons, list and staged server agree with the state, the main loop stands still only for a hung thread, every refresh ends, the program ends |
| Grid | grids up to 2 x 3, good, bad and empty configurations, 3 edits, a canvas of 50 x 60 | indices in range, lists and clicks show the same keys, the exit button is on the canvas, the grid survives a restart |

The bounds are two of everything that can be confused with another: devices sharing a key,
windows, listeners, clients, and descriptors whose numbers are used again. Two
connections let a client connect again with its former one unread, or the other
client take the place of a removed device. Three keys are one being
sent and two that fill the buffer, or two in the buffer and one it cannot take,
and two places make a buffer empty, partly filled or full; how the real one wraps is the circular buffer's matter,
whose three elements let the indices pass each other. Three sources are a
connection that had to wait for `connect()` and for a `send()`, and one more
that had to wait for either, so that a source of the first is left over in the
second. Two nested calls are one in the
loop that a first call started. The limits of the timer are the least that tell
one tick from several. Two inputs at a time are enough for a key held twice and
for two keys held at once. Three refreshes are one that hangs, one that replaces
it and one that finds what the second left behind. The grid is not square, so
that rows and columns cannot be exchanged unnoticed; three edits resize and set
a value, with a canvas small enough for cells of no width. These are the least
numbers at which each hazard happens, and every property fails for its mutant at
them.

Fairness. In client and server, polling and the dispatch of what was ready are
weakly fair, and so is the client's timer: the main loop dispatches every ready
source of the same priority before it polls again, and all sources here have the
default priority. In Servers the timer ticks, a
thread that has ended is joined and `main()` goes on, but nothing makes an
inquiry return. Nothing is assumed of peers, users and network; so no run says that
a key arrives, only that it does not wait for ever in the client and that what
arrived is read by the server.

## What the code does otherwise than it says

Three runs end in a counterexample; each is a finding in `PROJECT.json` with the
comment or assertion it contradicts.

| run | short |
|---|---|
| NullDevice | deselecting a window or removing a listener after a device was removed dereferences its null pointer |
| ManagerReplaced | 1 device, 1 key, 1 listener, 3 windows, 2 calls back: a callback removes the window that is being activated and adds it again, the window data of before is selected (btgtkdevicemanager.cc:387-390), and later, when the window is destroyed and another one takes its place, a key pressed for the former stays pressed, against btgtkdevicemanager.h:139 |
| ClientAsserts | the send source fires again after its batch and fails an assertion; the same property fails for keys left in the buffer by a sending timeout when a NOOP becomes due, for a full buffer when Remove is pressed, and for the missing timer after an immediate `connect()` |

Other properties hold with an exception that says exactly what the code does:

* `RemovalLostOnlyWhenClosed`: a REMOVE packet is dropped with the hang up or
  reconnection behind it or with a connection that fails to be read, although the library's README (line 100) says a device
  lives until its client removes it.
* `SocketClosedOnlyByStale`: a source of an earlier connection closes its
  descriptor number when it is destroyed (btclientsources.cc:57), which may by
  then be the socket of the new connection (btkeyclient.h:102).
* `SendingEnds` and `KeysSettle`: the time limit documented as "The timeout in
  milliseconds for sending a packet" (btkeyclient.h:49) is not applied to a batch
  with a request for removal (btkeyclient.cc:348-350). If it meets a full socket the
  client waits for the peer for ever, and Connect and Disconnect do nothing
  meanwhile (62-65, 198-201). `KeysSettle` is checked with NOOPs switched on, as they
  are by default: without them keys that a sending timeout leaves in the buffer wait
  for the next key.
* `EntriesHeld`: the exit button leaves the screen without finalizing
  (keyboardscreen.cc:331), so that entries outlive their inputs until the window
  is deactivated, Remove is pressed, or the key is pressed and released again.
* `ProgramEnds`: a refresh that runs when the window is closed is waited for,
  however long it takes, as nothing declares it hung any more (unless an earlier
  one was); `StandsStillForHung`: a refresh after one that hangs stops the main loop
  until the hung thread returns.
* `ListAgrees`: "if sError is not empty aServers is empty" (btkeyservers.h:134)
  does not hold, as a failed inquiry adds the extra address even if there is
  none (btkeyservers.cc:201); the zero address is never shown. Without a configured
  server the address of the staged one is not initialized (btkbwindow.h:338), and a
  configured address may come without a valid port; only with a port is the
  address valid.
* `HeaderInv` and the other properties of the manager that speak of pressed
  keys: for the KeyEvent class enabled from the start. While the class is
  disabled, keys stay pressed without a window.
* `SelectedIsCurrent` and `SelectedIsFound`: until a listener first calls the
  manager. A callback may remove the window that is about to be selected
  (btgtkdevicemanager.cc:388-390), which is then selected untracked.
* `PressedForSelected`: for listeners that make at most one call in a dispatch;
  ManagerReplaced shows what two can do.
* `EventsPaired` and `NoStuckKey`: for one device. The cancel of a second device's
  key is skipped, because the listeners' canceled keys do not tell devices apart.

What the modules show besides, for which no run is kept:

* a listener may be told that a press was canceled of which it was not told,
  because a listener called before it made the manager cancel the key
  (btgtkkeysdevice.cc:126);
* adding an inactive window deselects the active one
  (btgtkdevicemanager.cc:299-301);
* `accept()` on a blocking socket stops the main loop when the waiting client
  went away after the poll (`AcceptBlocks`);
* an uninitialized packet may be reported as a key (`CloseKept`);
* receive sources outlive the backend they call (`CallsDeleted`);
* a removal that had to wait for the socket ends in the connected state;
* without assertions a batch that had to wait is sent again on every poll;
* a staged server that is cleared is not stored (btkbwindow.cc:1071), so the old
  one returns at the next start;
* changing the number of columns moves keys to other cells, because a cell's
  index depends on it (`Index`); changing the number of rows does not;
* `m_aEditHK` keeps its cells when the grid shrinks, so the comment on its size
  (btkbwindow.h:309) does not hold, nor does that on the size of
  `m_aPressedKeys` (326);
* a click before the first drawing uses positions that are empty or those of an
  earlier drawing, and the exit button's center is not initialized;
* the timer's comment says 500 milliseconds (btkeyservers.h:82), its interval is
  1000.

## Proofs

Each theorem holds for all constants that satisfy the module's `ASSUME`, which
says that special values are not ordinary ones (`None` is no descriptor and no
source id, a key is no other kind of packet, what may follow the keys of a record
are no keys, and the ports of the command line and the default are valid ones), and that bounds are natural numbers. Two kinds of
bounds are of the model only: how many events the environment may cause, and how
many calls listeners may make in a dispatch. The theorems hold for each of their
values, so they hold without them, but where a hypothesis says otherwise.

`BtGtkDeviceManager_proofs`

* `TypeCorrect`: `Spec => []TypeOK`. Lemmas on pushing, replacing and popping
  frames keep each action's proof short.
* `HeaderInvariant`: `Spec => []HeaderInv` if the KeyEvent class is enabled from
  the start, for any numbers of devices, keys, listeners, windows and nested
  calls. The header's "no window selected, no key pressed", its first conjunct,
  is not inductive: `deselectAccessor()` cancels the keys of one device after the
  other, calling listeners in between who may start further such loops, and
  resets `m_refSelected` at its end whatever has been selected meanwhile.
  `HeaderInv` adds why no key is pressed then: `DeselectCovers` says that every
  device with pressed keys has still to be visited by each running
  `deselectAccessor()`, or is having its keys canceled in the frame above it,
  removed devices have no pressed keys, and the windows waiting to be selected
  exist. No key is pressed meanwhile, because a key event needs an empty stack.

`BtGtkDeviceManagerCalls_proofs`, on what nested calls keep

* `CancelingIsNested`: `Spec => []CancelingNests`, for any constants. `NestInv` adds
  `Stacked`: each two neighbours of the call stack are a function and one it
  calls (`Above`), and the loop over a device's keys is never at the bottom. So
  whoever resets the canceled keys is the last of the canceling functions, and a
  cancel is marked only while one of them runs.
* `SelectedStaysCurrent`, `SelectedStaysFound`: `Spec => []SelectedIsCurrent` and
  `Spec => []SelectedIsFound`, for any constants. Between the callbacks of one
  `deselectAccessor()` the selected window data may be out of date, but only there
  (`DeselectingIn`), and the data that wait to be selected by a function further
  down (`WaitingIn`) are current as long as no listener has called the manager;
  that window data are tracked once (`TrackedOnce`) makes what is found unique.
* `PressedForTheSelected`: `Spec => []PressedForSelected`, if the KeyEvent class is
  enabled from the start and listeners make at most one call in a dispatch. It
  rests on `HeaderInvariant` and on `TwinInv`: a tracked twin of the selected window
  data, made by removing and adding the window again, exists only while a
  `deselectAccessor()` runs that will reset the selection. The second hypothesis is
  needed: the run ManagerReplaced refutes the property without it.
* `EventsStayPaired`, `NoKeyStaysStuck`: `Spec => []EventsPaired` and
  `Spec => []NoStuckKey`, if the class is enabled from the start and there is one
  device, for any listeners, windows, keys and depth of nested calls. `EventsInv`
  says who heard what and why: a listener that heard of a press and of no end heard
  of a key that is pressed, or one that `onBlueKey()` is about to tell (`DownHeard`);
  one that heard of the end of a key still pressed has it among its canceled keys,
  and a canceling function runs (`ClosedWhy`); every running loop over pressed
  keys is right about whom it has still to tell, unless the canceled keys say that
  another loop was faster (`LoopRight`), and the one that clears the pressed keys
  at its end has left out nobody (`LoopComplete`). Keys are canceled for a listener
  that leaves by its own `finalizeListener()`, which runs once (`LeavingInv`). With two devices
  `NoStuckKey` fails, as said above.

`CircularBuffer_proofs`

* `BufferCorrect`: `Spec => []BufferInv` for every capacity.
* `BufferIsFifo`: `Spec => IsFifo`, the refinement of `BoundedFifo`. The lemmas
  `WriteGood` and `ReadGood` say what a write and a read do to the content; they
  rest on the write index being `count` places ahead of the read index.

`KeyboardInput_proofs`

* `TypeCorrect`: `Spec => []TypeOK`, and with it that entries are unique and that
  those of fingers, and only those, have a finger.
* `TellsFirstAndLast`: `Spec => []FirstPressLastRelease`. It is inductive with
  the entries' type; what the proof needs are lemmas on the keys that remain when
  an entry is appended or removed at a place (`AppendedKeys`, `RemovedKeys`), and
  that finalizing sends every key once whatever the order of its entries.
* `DeviceFollowsWindow`: `Spec => []DeviceFollows`. The invariant `LastEvents`
  is added: the event that is the last one of a key says whether the key is
  pressed, no event of the key comes after it, and none at all once the device
  has heeded it. `SendFollowed` shows it for whatever is sent, `StillFollowed`
  for whatever is lost or arrives.
* `NoEntryLeftBehind`: `Spec => []EntriesHeld`. An entry may outlive its input
  only where a release came while the screen was not running, so `HeldInv` adds
  why it does not elsewhere: an inactive window that runs has no entries of the
  keyboard (`KeyboardLetGo`), and a finger has one entry, so that the one its
  release removes is all it had (`OneEntryEach`). The mouse's entries are counted
  against the buttons that are down.

`BtKeyClient_proofs`

* `TypeCorrect`, `LinksCorrect`, `NothingLostSilently`: `Spec => []TypeOK`,
  `Spec => []PendingMatches`, `Spec => []NoSilentLoss`, for any sizes of buffer and time
  limits and for both builds. `PendingMatches` is inductive once the ids of attached sources are known
  to be distinct and older than the next one (`Identified`), for a source that is
  dispatched removes itself and must not be another the client refers to. `KeysInv`
  adds that no more than the buffer's size is in the buffer and in the batch.
* `SocketCorrect`: `Spec => SocketClosedOnlyByStale`, an action property, from the
  same invariant: who closes a descriptor is the client, which then has no socket
  or another one, or a source it does not refer to.
* `ClientKeepsChannel`: `Spec => KeepsChannel`, the refinement of `KeyChannel` on which
  `KeyboardInput` relies. `Ordered` is added for the build with assertions: keys that were sent are older
  than those of the batch that waits, and these than the buffered ones, both are
  in order, and a key that was given up is in neither. So a batch that is sent makes
  the newest key newer, whatever was lost between.

`BtKeyServers_proofs`

* `TypeCorrect`, `ButtonsCorrect`, `ListCorrect`, `StagedCorrect` and
  `WaitsForHungOnly`: the five invariants of the run. They are inductive together
  with `Causes`: a refresh starts without an error, a future nobody polls belongs
  to a thread that was declared hung, and only an inquiry that failed returns
  what is no address.

`GtkBackend_proofs`

* `TypeCorrect`, `OneSourceForEach` and `NothingLeaks`: for any number of
  clients, connections, records and packets. `OneSource` alone is not inductive:
  a source that is destroyed when its client reconnects must have been the only
  one of its connection (`Readers`), or the other would read a closed socket; the
  connection accepted must have had no source before and belong to a client
  (`Queue`); a place that still refers to a connection must have the source that
  a reconnection destroys (`Referred`), or `NoLeak` would fail; and a source that
  was ready is dispatched with a record to read (`Unread`). `FieldInv` covers what
  the network does, `ClosingInv` what closes a connection, `AcceptClientInv`
  the acceptance.
* `RemovalsKept`: `Spec => RemovalLostOnlyWhenClosed`, an action property. To the
  invariants above it adds `Mirror`, the manager's table is the backend's as long as
  the backend is not deleted, `Distinct`, no address has two places, and `Erred`, a
  source is ready for an error only when its connection hung up.
* `BackendKeepsRegistry`: `Spec => KeepsRegistry`, the refinement of `DeviceRegistry` on
  which the manager relies. That a client is one device is `Mirror` and `Distinct`;
  that its keys are reported in order needs `Order`, which follows them from the
  client to the manager: the keys of a record are in order and newer than those
  before it in the same connection, those of the record that is being read are older
  than the ones still in the socket, those of an older connection of the client are
  older than those of a newer one, and none that is on its way is older than one
  already reported, because a client that reconnects has its former connection
  closed before the first key of the new one is read.

`KeyGrid_proofs`

* `TypeCorrect`, `ListsCorrect`, `ClickCorrect` and `ExitCorrect`: the four
  invariants of the run, for grids of any size, any keys, weights, percentages,
  canvases and stored numbers. `GridInv` is the inductive invariant. It adds
  what was drawn: `Placed`, the positions of columns and rows are not negative,
  never decrease, and end with the margin behind the canvas at most. So no point is in two cells (`WithinOne`)
  and the exit button's center, which is at most the margin before the start of
  its cell, is less than half a button away from the canvas
  (`CenterReachable`).
  That `EditedIndex` changes the cell the list shows and no other is
  `IndexInjective`: cells have different places in `m_aEditHK`.
* `GridKeptCorrect`: `Spec => GridSurvives`, an action property. In a state of
  the invariant every value that is stored is within the limits it is read with,
  so none is dropped, nothing moves up (`ValidAll`, `VectorKept`) and clamping
  changes nothing.

What a sum along a row or the filter of a list computes is proved by its least
counterexample (`Least`, `CountUp`), as the rule of induction itself takes an
operator. `Sums` and `Filters` say what the recursive functions `Total` and
`Valid` have at each place; that a function with these values exists, and that
it is the one their definitions choose, are `SumsExist`, `TotalIs`, `FiltersExist`
and `ValidIs`. The module's assumptions are facts of the constants in the source:
codes are 32-bit numbers that are not negative, weights and percentages have
the ranges of their spin buttons, and the margin (3) is less than half the exit
button (16 pixels), without which `ExitReachable` would fail for a button in a
cell of no width at the start of a row.

## Not modelled, and why

* Outside the provers' reach: liveness under fairness and ENABLED, so all
  temporal properties with `~>` are only model-checked. Every invariant and
  every action property of a passing run, and every refinement, is proved.
* `EventsPaired` and `NoStuckKey` are checked and proved for one device only; the
  second fails for two.
* Proved for listeners that make at most one call in a dispatch, and refuted for
  two: `PressedForSelected`.
* The command line (option parsing, once before the window exists), the widget
  helpers (wrappers of Gtk calls), and the plugin's entry points (a factory
  function): no behaviour to check.
* `hardwarekey.h` and `inputstrings.cc`: tables of constants. The grid's keys
  are members of a small set with and without a name.
* Of `btkbwindow.cc` the construction of the widgets (about half of its lines),
  labels and texts, the log and fullscreen settings and the window's size, which
  are stored but touch nothing else.
* Names of servers and progress messages of the inquiry.
* `share/thirdparty/catch2/catch.hpp`: third-party code, 14075 of the 22931
  lines that count as implementation; the tests use it.
