---------------------------- MODULE BtKeyClient ----------------------------
(***************************************************************************)
(* The client that sends the keys of stmm-input-btkb to a server: the      *)
(* state machine of BtKeyClient, the main loop sources it attaches, and    *)
(* the sockets they watch.                                                 *)
(*                                                                         *)
(* Everything runs in the main loop's thread.  An iteration of the main    *)
(* loop polls all the sources and then dispatches, in any order, those     *)
(* that were ready, the interval timer and one Gtk event.  What a source   *)
(* was ready for may therefore be stale when it is dispatched, and a       *)
(* source whose RefPtr was reset stays attached until then.                *)
(***************************************************************************)
EXTENDS Integers, Sequences, FiniteSets

CONSTANTS
  Fds,             \* file descriptors
  None,            \* -1 as a descriptor, a null RefPtr
  Noop, Remove,    \* the entries KEY_NOOP and KEY_REMOVE_DEVICE
  MaxKeys,         \* bound: keys entered, numbered from 1
  MaxSources,      \* bound: sources created
  BufferSize,      \* s_nSendBufferSize
  TimeoutConnect,  \* m_nTimeoutConnect / m_nInterval
  TimeoutSend,     \* m_nTimeoutSend / m_nInterval
  NoopAfter,       \* m_nNoopAfter / m_nInterval
  Immediate        \* whether connect() may succeed at once

Keys == 1..MaxKeys
Ids == 0..MaxSources

ASSUME ValuesAssumption == None \notin Fds \cup Ids /\ {Noop, Remove} \cap Keys = {}
ASSUME SizesAssumption ==
  /\ {MaxKeys, MaxSources, TimeoutConnect, TimeoutSend, NoopAfter} \subseteq Nat
  /\ BufferSize \in Nat \ {0}
ASSUME ImmediateAssumption == Immediate \in BOOLEAN

VARIABLES
  state,           \* m_eState
  clientFD,        \* m_nClientFD
  buffered,        \* m_aBufferedKeys, the queue CircularBuffer implements
  packets,         \* the first m_nTotPackets elements of m_aPackets
  pendingConnect,  \* the id of m_refPendingConnect
  pendingSend,     \* the id of m_refPendingSend
  timer,           \* m_refIntervalTimeout is not null
  age,             \* ticks of the timer since the three recorded times
  sources,         \* the attached PendingWriteSource objects
  nextId,          \* s_nSourceId
  socks,           \* the kernel: what each descriptor refers to
  due,             \* what else the main loop's current iteration may dispatch
  entered,         \* history: the number of keys entered while connected
  hist,            \* history: keys sent, keys given up, and their order
  asserts,         \* whether the build has assertions: never changes
  failed           \* the assertion that failed or the null pointer used

linkVars == <<clientFD, pendingConnect, pendingSend, sources, nextId>>
vars == <<state, linkVars, buffered, packets, timer, age, socks, due, entered,
          hist, asserts, failed>>

States == {"DISCONNECTED", "CONNECTING", "CONNECTED", "SENDING", "REMOVING"}
SockStates == {"closed", "connecting", "open", "blocked", "broken"}

\* Ticks are counted up to the first value that exceeds every limit.
NoopLimit == IF NoopAfter > 2 * TimeoutSend THEN NoopAfter ELSE 2 * TimeoutSend
Older(n, limit) == IF n > limit THEN n ELSE n + 1
Aged == [connecting |-> Older(age.connecting, TimeoutConnect),
         sending    |-> Older(age.sending, TimeoutSend),
         sent       |-> Older(age.sent, NoopLimit)]

KeysOf(q) == {q[i] : i \in 1..Len(q)} \cap Keys

\* What is being sent by the pending source.
InFlight == IF state \in {"SENDING", "REMOVING"} THEN KeysOf(packets) ELSE {}

\* The packets reach the kernel: they must be newer than all sent before.
Delivered(h, b) ==
  [h EXCEPT !.sent = @ \cup KeysOf(b),
            !.inOrder = @ /\ \A i \in 1..Len(b) : b[i] \in Keys =>
                /\ \A k \in h.sent : k < b[i]
                /\ \A j \in 1..(i - 1) : b[j] \in Keys => b[j] < b[i]]

GivenUp(h, ks) == [h EXCEPT !.gone = @ \cup (ks \ h.sent)]

Init ==
  /\ state = "DISCONNECTED"
  /\ clientFD = None
  /\ buffered = <<>> /\ packets = <<>>
  /\ pendingConnect = None /\ pendingSend = None
  /\ timer = FALSE
  /\ age = [connecting |-> 0, sending |-> 0, sent |-> 1]  \* m_nLastSentTime is -1
  /\ sources = {} /\ nextId = 0
  /\ socks = [f \in Fds |-> "closed"]
  /\ due = {}
  /\ entered = 0
  /\ hist = [sent |-> {}, gone |-> {}, inOrder |-> TRUE]
  /\ asserts \in BOOLEAN
  /\ failed = "no"

-----------------------------------------------------------------------------
(* The main loop and the sockets.                                          *)

Event(f) == CASE socks[f] \in {"closed", "broken"}      -> "error"
              [] socks[f] = "open"                      -> "out"
              [] socks[f] \in {"connecting", "blocked"} -> "none"

\* The next iteration begins.  Sources that are not ready are not dispatched;
\* the timer and the Gtk event need not be ready either.
Poll ==
  /\ \A s \in sources : s.ev = "none"
  /\ sources' = {[s EXCEPT !.ev = Event(s.fd)] : s \in sources}
  /\ due' = {"gtk"} \cup {"timer" : t \in {timer} \cap {TRUE}}
  /\ UNCHANGED <<state, clientFD, pendingConnect, pendingSend, nextId, buffered,
                 packets, timer, age, socks, entered, hist, failed>>

\* The peer, or the kernel, decides about a socket.
SocketChanges(f) ==
  /\ \/ socks[f] = "connecting" /\ socks' = [socks EXCEPT ![f] = "open"]
     \/ socks[f] = "blocked" /\ socks' = [socks EXCEPT ![f] = "open"]
     \/ /\ socks[f] \in {"connecting", "open", "blocked"}
        /\ socks' = [socks EXCEPT ![f] = "broken"]
  /\ UNCHANGED <<state, linkVars, buffered, packets, timer, age, due, entered,
                 hist, failed>>

Attached(slot, f) == [id |-> nextId, slot |-> slot, fd |-> f, ev |-> "none"]

\* An assertion fails, or the build without it crashes: the process is gone.
Fails(what) ==
  /\ failed' = what
  /\ UNCHANGED <<state, linkVars, buffered, packets, timer, age, socks, entered,
                 hist>>

-----------------------------------------------------------------------------
(* Connecting and disconnecting.                                           *)

ConnectToServer ==
  /\ "gtk" \in due
  /\ state # "REMOVING" /\ clientFD = None
  /\ nextId + 2 <= MaxSources
  /\ \E f \in Fds :
       /\ socks[f] = "closed"
       /\ clientFD' = f
       /\ \/ /\ socks' = [socks EXCEPT ![f] = "connecting"]
             /\ sources' = sources \cup {Attached("connect", f)}
             /\ pendingConnect' = nextId
             /\ nextId' = nextId + 1
             /\ timer' = TRUE
             /\ age' = [age EXCEPT !.connecting = 0]
             /\ state' = "CONNECTING"
          \/ /\ Immediate
             /\ socks' = [socks EXCEPT ![f] = "open"]
             /\ state' = "CONNECTED"
             /\ UNCHANGED <<sources, pendingConnect, nextId, timer, age>>
  /\ due' = due \ {"gtk"}
  /\ UNCHANGED <<pendingSend, buffered, packets, entered, hist, failed>>

\* Mutant: m_refPendingSend is not reset.
DisconnectInternalKeepsSend(h, now) ==
  /\ clientFD' = None
  /\ socks' = [now EXCEPT ![clientFD] = "closed"]
  /\ pendingConnect' = None
  /\ state' = "DISCONNECTED"
  /\ hist' = h
  /\ UNCHANGED pendingSend

\* disconnectInternal(): the sources stay attached.  now is the sockets' state
\* and h the history when it is called.
DisconnectInternal(h, now) ==
  /\ clientFD' = None
  /\ socks' = [now EXCEPT ![clientFD] = "closed"]
  /\ pendingConnect' = None /\ pendingSend' = None
  /\ state' = "DISCONNECTED"
  /\ hist' = h

DisconnectFromServer ==
  /\ "gtk" \in due
  /\ state # "REMOVING" /\ clientFD # None
  /\ DisconnectInternal(GivenUp(hist, InFlight), socks)
  /\ due' = due \ {"gtk"}
  /\ UNCHANGED <<sources, nextId, buffered, packets, timer, age, entered, failed>>

-----------------------------------------------------------------------------
(* Sending.                                                                *)

SendResult(w) == CASE w = "open"    -> "ok"
                   [] w = "blocked" -> "again"
                   [] OTHER         -> "error"

\* After a successful send() the socket's buffer may be full.
AfterSend(now) == {[now EXCEPT ![clientFD] = w] : w \in {"open", "blocked"}}

\* Mutant: the packets of the preceding batch are kept and sent again.
BatchKept(b) == packets \o b

\* Mutant: the loop that reads the buffer ends one packet early.
BatchShort(b) == SubSeq(b, 1, Len(b) - 1)

\* The packets made of the keys read from the buffer: m_nTotPackets was reset.
Batch(b) == b

\* sendPacketsFromBufferedKeys() for the buffered keys b.  a are the ages, h is
\* the history, now are the sockets, kept the sources and n the number of keys
\* entered when it is called.
SendPackets(b, a, h, now, kept, n) ==
  LET result == SendResult(now[clientFD])
      newState == IF \E i \in 1..Len(b) : b[i] = Remove THEN "REMOVING" ELSE "SENDING"
      ps == Batch(b)
  IN
  \/ /\ result # "error" /\ ~timer            \* m_refIntervalTimeout is null
     /\ Fails("noTimer")
  \/ /\ result = "ok" /\ timer
     /\ packets' = ps /\ buffered' = <<>>
     /\ age' = [a EXCEPT !.sent = 0]
     /\ \/ /\ newState = "REMOVING"
           /\ DisconnectInternal(Delivered(h, ps), now)
        \/ /\ newState = "SENDING"
           /\ state' = "CONNECTED"
           /\ socks' \in AfterSend(now)
           /\ hist' = Delivered(h, ps)
           /\ UNCHANGED <<clientFD, pendingConnect, pendingSend>>
     /\ sources' = kept
     /\ UNCHANGED <<nextId, timer, failed>>
     /\ entered' = n
  \/ /\ result = "again" /\ timer
     /\ packets' = ps /\ buffered' = <<>>
     /\ age' = [a EXCEPT !.sending = 0]
     /\ state' = newState
     /\ IF pendingSend = None
          THEN /\ sources' = kept \cup {Attached("send", clientFD)}
               /\ pendingSend' = nextId
               /\ nextId' = nextId + 1
          ELSE /\ sources' = kept
               /\ UNCHANGED <<pendingSend, nextId>>
     /\ socks' = now
     /\ hist' = h
     /\ UNCHANGED <<clientFD, pendingConnect, timer, failed>>
     /\ entered' = n
  \/ /\ result = "error"
     /\ packets' = ps /\ buffered' = <<>>
     /\ age' = a
     /\ DisconnectInternal(GivenUp(h, KeysOf(ps)), now)
     /\ sources' = kept
     /\ UNCHANGED <<nextId, timer, failed>>
     /\ entered' = n

\* Mutant: no place is made for the new key.
MadePlaceNever == buffered

\* A full buffer forgets its oldest key.
MadePlace == IF Len(buffered) = BufferSize THEN Tail(buffered) ELSE buffered
Forgotten == KeysOf(buffered) \ KeysOf(MadePlace)

\* A Gtk event may send several keys: the releases of finalizeKeys().
SendKeyToServer ==
  /\ "gtk" \in due
  /\ entered < MaxKeys
  /\ LET key == entered + 1
         h == GivenUp(hist, Forgotten)
         b == Append(MadePlace, key)
     IN  \/ /\ state = "SENDING"
            /\ buffered' = b
            /\ hist' = h
            /\ entered' = key
            /\ UNCHANGED <<state, linkVars, packets, timer, age, socks, failed>>
         \/ /\ state = "CONNECTED"
            /\ SendPackets(b, age, h, socks, sources, key)
  /\ UNCHANGED due

\* The Remove button is sensitive in these two states only.
SendRemoveToServer ==
  /\ "gtk" \in due
  /\ \/ /\ state = "SENDING"
        /\ SendPackets(<<Remove>>, age, GivenUp(hist, InFlight \cup KeysOf(buffered)),
                       socks, sources, entered)
     \/ /\ state = "CONNECTED" /\ Len(buffered) = BufferSize
        /\ Fails("full")
     \/ /\ state = "CONNECTED" /\ Len(buffered) < BufferSize
        /\ SendPackets(Append(buffered, Remove), age, hist, socks, sources, entered)
  /\ due' = due \ {"gtk"}

-----------------------------------------------------------------------------
(* The callbacks of the sources.                                           *)

\* Mutant: a connection attempt does not time out.
ConnectingTooLongNever == FALSE

ConnectingTooLong == Aged.connecting > TimeoutConnect

\* Mutant: a batch that waits does not time out.
SendingTooLongNever == FALSE

SendingTooLong == Aged.sending > TimeoutSend

\* Mutant: no NOOP is sent.
NoopNeededNever == FALSE

NoopNeeded == NoopAfter > 0 /\ Aged.sent > NoopLimit

\* doIntervalTimeout(): every interval, from the first pending connect on.
IntervalTimeout ==
  /\ timer /\ "timer" \in due
  /\ \/ /\ state = "CONNECTING" /\ ConnectingTooLong
        /\ age' = Aged
        /\ DisconnectInternal(hist, socks)
        /\ UNCHANGED <<sources, nextId, buffered, packets, timer, entered, failed>>
     \/ /\ state = "CONNECTED" /\ NoopNeeded
        /\ \/ asserts /\ buffered # <<>> /\ Fails("notEmpty")
           \/ ~asserts /\ Len(buffered) = BufferSize /\ Fails("full")
           \/ /\ IF asserts THEN buffered = <<>> ELSE Len(buffered) < BufferSize
              /\ SendPackets(Append(buffered, Noop), Aged, hist, socks, sources, entered)
     \/ /\ state = "SENDING" /\ SendingTooLong   \* m_refPendingSend is kept
        /\ age' = Aged
        /\ state' = "CONNECTED"
        /\ hist' = GivenUp(hist, InFlight)
        /\ UNCHANGED <<linkVars, buffered, packets, timer, socks, entered, failed>>
     \/ /\ CASE state = "CONNECTING" -> ~ConnectingTooLong
            [] state = "CONNECTED"  -> ~NoopNeeded
            [] state = "SENDING"    -> ~SendingTooLong
            [] OTHER                -> TRUE
        /\ age' = Aged
        /\ UNCHANGED <<state, linkVars, buffered, packets, timer, socks, entered,
                       hist, failed>>
  /\ due' = due \ {"timer"}

\* The client still refers to the source.
IsPending(s) == IF s.slot = "connect" THEN s.id = pendingConnect
                                      ELSE s.id = pendingSend

\* A source the client has given up is removed: its destructor closes the
\* descriptor, whatever it refers to by now.
DispatchStale(s) ==
  /\ s.ev # "none" /\ ~IsPending(s)
  /\ sources' = sources \ {s}
  /\ socks' = [socks EXCEPT ![s.fd] = "closed"]
  /\ UNCHANGED <<state, clientFD, pendingConnect, pendingSend, nextId, buffered,
                 packets, timer, age, due, entered, hist, failed>>

\* The two slots for a source whose descriptor is in error: it closes the
\* descriptor again when it is removed.
DispatchError(s) ==
  /\ s.ev = "error" /\ IsPending(s)
  /\ IF s.slot = "send" /\ asserts /\ state # "SENDING"
       THEN Fails("pendingSend")
       ELSE /\ DisconnectInternal(GivenUp(hist, InFlight), socks)
            /\ sources' = sources \ {s}
            /\ UNCHANGED <<nextId, buffered, packets, timer, age, entered, failed>>
  /\ UNCHANGED due

\* Mutant: the source is removed without removePoll().
DispatchConnectedCloses(s) ==
  /\ s.slot = "connect" /\ s.ev = "out" /\ IsPending(s)
  /\ pendingConnect' = None
  /\ state' = "CONNECTED"
  /\ sources' = sources \ {s}
  /\ socks' = [socks EXCEPT ![s.fd] = "closed"]
  /\ UNCHANGED <<clientFD, pendingSend, nextId, buffered, packets, timer, age,
                 due, entered, hist, failed>>

\* doPendingConnect() without error: removePoll() leaves the descriptor open.
DispatchConnected(s) ==
  /\ s.slot = "connect" /\ s.ev = "out" /\ IsPending(s)
  /\ pendingConnect' = None
  /\ state' = "CONNECTED"
  /\ sources' = sources \ {s}
  /\ UNCHANGED <<clientFD, pendingSend, nextId, buffered, packets, timer, age, socks,
                 due, entered, hist, failed>>

\* doPendingSend() without error: the source stays attached when send() succeeds.
DispatchSend(s) ==
  LET idle == (sources \ {s}) \cup {[s EXCEPT !.ev = "none"]}
      h == Delivered(hist, packets)
      a == [age EXCEPT !.sent = 0]
  IN
  /\ s.slot = "send" /\ s.ev = "out" /\ IsPending(s)
  /\ \/ asserts /\ state # "SENDING" /\ Fails("pendingSend")
     \/ /\ ~asserts \/ state = "SENDING"
        /\ \/ /\ SendResult(socks[clientFD]) # "ok"
              /\ DisconnectInternal(GivenUp(hist, InFlight), socks)
              /\ sources' = sources \ {s}
              /\ UNCHANGED <<nextId, buffered, packets, timer, age, entered, failed>>
           \/ /\ SendResult(socks[clientFD]) = "ok"
              /\ \/ /\ buffered # <<>>
                    /\ \E now \in AfterSend(socks) :
                         SendPackets(buffered, a, h, now, idle, entered)
                 \/ /\ buffered = <<>>
                    /\ state' = "CONNECTED"
                    /\ socks' \in AfterSend(socks)
                    /\ sources' = idle
                    /\ age' = a
                    /\ hist' = h
                    /\ UNCHANGED <<clientFD, pendingConnect, pendingSend, nextId,
                                   buffered, packets, timer, entered, failed>>
  /\ UNCHANGED due

-----------------------------------------------------------------------------
Dispatch(s) ==
  DispatchStale(s) \/ DispatchError(s) \/ DispatchConnected(s) \/ DispatchSend(s)

Dead == failed # "no" /\ UNCHANGED vars

Runs == failed = "no" /\ UNCHANGED asserts

Next ==
  \/ /\ Runs
     /\ \/ Poll
        \/ \E f \in Fds : SocketChanges(f)
        \/ ConnectToServer \/ DisconnectFromServer
        \/ SendKeyToServer \/ SendRemoveToServer
        \/ IntervalTimeout
        \/ \E s \in sources : Dispatch(s)
  \/ Dead

Spec == Init /\ [][Next]_vars

\* The main loop runs: it polls, dispatches what is ready, and the timer ticks.
FairSpec ==
  /\ Spec
  /\ WF_vars(Runs /\ Poll)
  /\ WF_vars(Runs /\ IntervalTimeout)
  /\ WF_vars(Runs /\ \E s \in sources : Dispatch(s))

-----------------------------------------------------------------------------
TypeOK ==
  /\ state \in States
  /\ clientFD \in Fds \cup {None}
  /\ buffered \in Seq(Keys \cup {Noop, Remove}) /\ Len(buffered) <= BufferSize
  /\ packets \in Seq(Keys \cup {Noop, Remove}) /\ Len(packets) <= BufferSize
  /\ {pendingConnect, pendingSend} \subseteq Ids \cup {None}
  /\ timer \in BOOLEAN
  /\ age \in [connecting : Nat, sending : Nat, sent : Nat]
  /\ \A s \in sources :
       /\ s \in [id : Ids, slot : {"connect", "send"}, fd : Fds,
                 ev : {"none", "out", "error"}]
       /\ s.id < nextId
       /\ \A r \in sources : r.id = s.id => r = s
  /\ nextId \in Ids
  /\ socks \in [Fds -> SockStates]
  /\ due \subseteq {"gtk", "timer"}
  /\ entered \in 0..MaxKeys
  /\ hist \in [sent : SUBSET Keys, gone : SUBSET Keys, inOrder : BOOLEAN]
  /\ asserts \in BOOLEAN
  /\ failed \in {"no", "noTimer", "full", "notEmpty", "pendingSend"}

\* The state agrees with the socket and with the sources the client refers to:
\* a connection being made has the one source that ends it, a batch that waits
\* has the one that sends it, and a client without socket refers to neither.
\* A referenced source is attached, of the right kind, and watches the socket.
PendingMatches ==
  /\ state = "DISCONNECTED" <=> clientFD = None
  /\ state = "CONNECTING" <=> pendingConnect # None
  /\ state \in {"SENDING", "REMOVING"} => pendingSend # None
  /\ state \in {"DISCONNECTED", "CONNECTING"} => pendingSend = None
  /\ pendingConnect # None =>
       \E s \in sources : s.id = pendingConnect /\ s.slot = "connect" /\ s.fd = clientFD
  /\ pendingSend # None =>
       \E s \in sources : s.id = pendingSend /\ s.slot = "send" /\ s.fd = clientFD

Newest(ks) == IF ks = {} THEN 0 ELSE CHOOSE k \in ks : \A j \in ks : j <= k

\* The client keeps its promise to the window: the server receives the keys in
\* the order they were entered and none twice, through a batch that waits, the
\* timeout that gives it up, a buffer that forgets its oldest key, and a
\* reconnection with keys still buffered; a key given up never arrives.  (Without
\* assertions it goes on where AssertionsHold fails, and sends a batch again.)
Channel == INSTANCE KeyChannel
             WITH accepted <- IF asserts THEN entered ELSE 0,
                  waiting  <- IF asserts THEN (1..entered) \ (hist.sent \cup hist.gone) ELSE {},
                  newest   <- IF asserts /\ hist.inOrder THEN Newest(hist.sent) ELSE 0
KeepsChannel == Channel!Spec

\* A key that was accepted has been sent, is in the buffer or in the batch that
\* waits, or was given up: by a full buffer, a timeout, a disconnection, or the
\* removal of the device.
NoSilentLoss ==
  1..entered \subseteq hist.sent \cup hist.gone \cup KeysOf(buffered) \cup InFlight

\* The socket the client goes on using is closed under it in one way only: by
\* the destructor of a source of an earlier connection, whose descriptor it has.
SocketClosedOnlyByStale ==
  [][\A f \in {clientFD, clientFD'} \cap Fds :
       clientFD' = clientFD /\ socks[f] # "closed" /\ socks'[f] = "closed" =>
         \E s \in sources \ sources' : s.fd = f /\ ~IsPending(s)]_vars

\* A connection attempt always ends: the timer runs while connecting and gives
\* up the attempt the peer does not answer.
ConnectingEnds == (state = "CONNECTING") ~> (state # "CONNECTING")

\* The removal waits for a socket that is full.
RemovalWaits == state = "REMOVING" /\ socks[clientFD] = "blocked"

\* A batch that waits is sent or given up, also where the socket stays full: keys
\* by the timer, which leaves the connection as it is.  The removal is the exception:
\* nothing times it out, and both buttons do nothing while it waits, so that a
\* socket that stays full keeps the client REMOVING for ever.
SendingEnds ==
  (state \in {"SENDING", "REMOVING"})
    ~> (state \in {"CONNECTED", "DISCONNECTED"} \/ failed # "no" \/ []RemovalWaits)

Unsettled(k) == k \in (1..entered) \ (hist.sent \cup hist.gone)

\* No key is forgotten in the buffer of a client that stays connected.  The timeout
\* of a batch, or a connection made with keys still buffered, leaves keys behind
\* that nothing sends until another key is entered: the NOOP that is due takes them
\* along (or finds the assertion of line 336 violated).  Without NOOPs, --noop 0, they
\* wait for the next key.
KeysSettle ==
  \A k \in Keys :
    Unsettled(k)
      ~> (~Unsettled(k) \/ state = "DISCONNECTED" \/ failed # "no" \/ []RemovalWaits)

=============================================================================
