----------------------------- MODULE GtkBackend -----------------------------
(***************************************************************************)
(* The bluetooth server of the device manager: GtkBackend, its accept      *)
(* source and a receive source for each connection, the listening socket   *)
(* and the connections of the clients.                                     *)
(*                                                                         *)
(* A client is known by its bluetooth address.  It may lose its connection *)
(* and connect again before the server has noticed.  Everything the server *)
(* does runs in the main loop's thread: an iteration polls the sockets and *)
(* dispatches, in any order, the sources that were ready.  The packets of  *)
(* a record are handled one step at a time.                                *)
(***************************************************************************)
EXTENDS Integers, Sequences, FiniteSets

CONSTANTS
  Addrs, Fds,        \* bluetooth addresses, descriptors of connections
  None,              \* a null RefPtr, the empty address
  Dead,              \* a RefPtr to a source that was destroyed and closed
  Noop, Remove,      \* PACKET_CMD_NOOP, PACKET_CMD_REMOVE_DEVICE
  BadMagic, BadCmd,  \* packets that fail a check
  Short,             \* the bytes after the last whole packet of a record
  Batches,           \* what follows the keys of a record, if it has any
  MaxKeys,           \* bound: keys sent, numbered from 1
  MaxInbox           \* bound: records in a connection

Keys == 1..MaxKeys
Entries == Keys \cup {Noop, Remove, BadMagic, BadCmd, Short}

ASSUME BackendAssumption ==
  /\ None \notin Addrs \cup Fds /\ Dead \notin Fds
  /\ Keys \cap {Noop, Remove, BadMagic, BadCmd, Short} = {}
  /\ Batches \subseteq Seq({Noop, Remove, BadMagic, BadCmd, Short})
  /\ {MaxKeys, MaxInbox} \subseteq Nat

VARIABLES
  addrs,             \* m_aPermanentAddrs
  inputSources,      \* m_aInputSources: the descriptor of each source
  sources,           \* the attached BlueServerReceiveSource objects
  acceptReady,       \* the accept source was ready when last polled
  current,           \* the source being dispatched and its packets, or None
  blocked,           \* the main loop waits within accept()
  backlog,           \* the listening socket's queue of connections
  conns,             \* the connections
  devices,           \* m_aBtDevices of the manager
  heard,             \* history: the newest key of each client reported to it
  sent,              \* history: the number of keys sent
  deleted,           \* the backend and its manager were deleted
  failed             \* a callback of the deleted backend was called

server == <<addrs, inputSources, sources, acceptReady, current, blocked>>
manager == <<devices, heard, deleted, failed>>
network == <<backlog, conns, sent>>
vars == <<server, manager, network>>

NoConn == [st |-> "free", addr |-> None, up |-> FALSE, hup |-> FALSE, inbox |-> <<>>]

Init ==
  /\ addrs = <<>> /\ inputSources = <<>> /\ sources = {}
  /\ acceptReady = FALSE /\ current = None /\ blocked = FALSE
  /\ backlog = <<>>
  /\ conns = [f \in Fds |-> NoConn]
  /\ devices = <<>>
  /\ heard = [a \in Addrs |-> 0]
  /\ sent = 0
  /\ deleted = FALSE /\ failed = FALSE

-----------------------------------------------------------------------------
(* The clients and the network.                                            *)

\* A client has one connection at a time, as far as it knows.
ClientConnects(f, a) ==
  /\ ~deleted
  /\ conns[f].st = "free"
  /\ \A g \in Fds : conns[g].addr = a => ~conns[g].up
  /\ conns' = [conns EXCEPT ![f] = [NoConn EXCEPT !.st = "queued", !.addr = a, !.up = TRUE]]
  /\ backlog' = Append(backlog, f)
  /\ UNCHANGED <<server, manager, sent>>

\* A record: the next n keys, in order, and what follows them.
Record(n, b) == [i \in 1..n |-> sent + i] \o b

\* A client sends what it has buffered in one record: any number of keys, and a
\* NOOP or the removal behind them.  Others may send anything.
ClientSends(f) ==
  /\ conns[f].up /\ Len(conns[f].inbox) < MaxInbox
  /\ \E n \in 0..(MaxKeys - sent), b \in Batches :
       /\ Record(n, b) # <<>>
       /\ sent' = sent + n
       /\ conns' = [conns EXCEPT ![f].inbox = Append(@, Record(n, b))]
  /\ UNCHANGED <<server, manager, backlog>>

\* The client closes its socket or goes out of range.
ClientGoes(f) ==
  /\ conns[f].up
  /\ conns' = [conns EXCEPT ![f].up = FALSE]
  /\ UNCHANGED <<server, manager, backlog, sent>>

\* The server's kernel notices.  A connection that waits is gone for good.
HangUp(f) ==
  /\ conns[f].st # "free" /\ ~conns[f].up /\ ~conns[f].hup
  /\ IF conns[f].st = "queued"
       THEN /\ conns' = [conns EXCEPT ![f] = NoConn]
            /\ \E i \in 1..Len(backlog) :
                 /\ backlog[i] = f
                 /\ backlog' = SubSeq(backlog, 1, i - 1) \o SubSeq(backlog, i + 1, Len(backlog))
       ELSE /\ conns' = [conns EXCEPT ![f].hup = TRUE]
            /\ UNCHANGED backlog
  /\ UNCHANGED <<server, manager, sent>>

-----------------------------------------------------------------------------
(* The main loop.                                                          *)

Event(f) == CASE conns[f].hup                               -> "error"
              [] ~conns[f].hup /\ conns[f].inbox # <<>>     -> "in"
              [] ~conns[f].hup /\ conns[f].inbox = <<>>     -> "none"

Idle == current = None /\ ~blocked

Poll ==
  /\ Idle /\ ~acceptReady /\ \A s \in sources : s.ev = "none"
  /\ sources' = {[s EXCEPT !.ev = Event(s.fd)] : s \in sources}
  /\ acceptReady' = (backlog # <<>>)
  /\ UNCHANGED <<addrs, inputSources, current, blocked, manager, network>>

-----------------------------------------------------------------------------
(* Accepting.                                                              *)

\* getBackendId(), counted from 1; 0 if there is none.
BackendId(a) ==
  IF \E i \in 1..Len(addrs) : addrs[i] = a
    THEN CHOOSE i \in 1..Len(addrs) : addrs[i] = a /\ \A j \in 1..(i - 1) : addrs[j] # a
    ELSE 0

Known(a) == BackendId(a) > 0

\* Mutant: free places are not used again.
PlaceAtEnd(a) == IF Known(a) THEN BackendId(a) ELSE Len(addrs) + 1

PlaceFor(a) == CASE Known(a)                  -> BackendId(a)
                 [] ~Known(a) /\ Known(None)  -> BackendId(None)
                 [] OTHER                     -> Len(addrs) + 1

\* Sequence q with x at place i, its last or the one after it.
Put(q, i, x) == IF i > Len(q) THEN Append(q, x) ELSE [q EXCEPT ![i] = x]

\* Mutant: m_aInputSources does not grow with m_aPermanentAddrs.
SourcesPutShort(i, f) == [j \in 1..Len(inputSources) |-> IF j = i THEN f ELSE inputSources[j]]

SourcesPut(i, f) == Put(inputSources, i, f)

\* Mutant: the source of the former connection is not destroyed.
ReplacedKept(i) == {}

\* The source of a known client's former connection is destroyed.
Replaced(i) == {s \in sources : i <= Len(inputSources) /\ s.fd = inputSources[i]}

\* Mutant: a source is attached for new clients only.
AttachedNew(i, f) == {[fd |-> f, id |-> i, ev |-> "none"] : x \in {y \in {1} : i > Len(addrs)}}

Attached(i, f) == {[fd |-> f, id |-> i, ev |-> "none"]}

\* doServerAcceptClient(), for the oldest connection waiting.
AcceptClient ==
  LET f == Head(backlog)
      a == conns[f].addr
      i == PlaceFor(a)
      closed == {s.fd : s \in Replaced(i)}
  IN
  /\ ~deleted /\ current = None
  /\ acceptReady \/ blocked
  /\ backlog # <<>>
  /\ backlog' = Tail(backlog)
  /\ conns' = [g \in Fds |-> CASE g = f                -> [conns[g] EXCEPT !.st = "accepted"]
                               [] g # f /\ g \in closed -> NoConn
                               [] OTHER                -> conns[g]]
  /\ sources' = (sources \ Replaced(i)) \cup Attached(i, f)
  /\ addrs' = Put(addrs, i, a)
  /\ inputSources' = SourcesPut(i, f)
  /\ devices' = IF Known(a) THEN devices ELSE Put(devices, i, a)
  /\ acceptReady' = FALSE /\ blocked' = FALSE
  /\ UNCHANGED <<current, heard, deleted, failed, sent>>

\* The connection the source was ready for is gone: accept() waits for another.
AcceptBlocks ==
  /\ ~deleted /\ Idle
  /\ acceptReady /\ backlog = <<>>
  /\ acceptReady' = FALSE /\ blocked' = TRUE
  /\ UNCHANGED <<addrs, inputSources, sources, current, manager, network>>

-----------------------------------------------------------------------------
(* Receiving.                                                              *)

Closed(s) == conns' = [conns EXCEPT ![s.fd] = NoConn]

AddrsReset(i) == [addrs EXCEPT ![i] = None]

\* The manager's callback of a packet that closes the connection without
\* removing the device: doServerReceive() takes the packet for one of a key if
\* its command, which may be uninitialized, is PACKET_CMD_KEY.  That key no
\* client sent; it is not counted in heard.
CloseKept(s, cmds) ==
  /\ Closed(s)
  /\ sources' = {r \in sources : r.fd # s.fd}
  /\ \E cmd \in cmds :
       inputSources' = [inputSources EXCEPT ![s.id] = IF cmd = "key" THEN Dead ELSE None]
  /\ current' = None
  /\ UNCHANGED <<addrs, acceptReady, blocked, backlog, sent, devices, heard, deleted, failed>>

\* The deleted backend's slot is called.
CallsDeleted ==
  /\ deleted
  /\ failed' = TRUE
  /\ UNCHANGED <<server, network, devices, heard, deleted>>

ReceiveError(s) ==
  /\ Idle /\ s.ev = "error"
  /\ \/ ~deleted /\ CloseKept(s, {"key", "other"})
     \/ CallsDeleted

\* recv() fails although the source was ready: the connection broke meanwhile,
\* or the kernel could not copy the record.
ReceiveFails(s) ==
  /\ Idle /\ s.ev = "in"
  /\ \/ ~deleted /\ CloseKept(s, {"key", "other"})
     \/ CallsDeleted

\* recv() reads a whole record.
ReceiveRecord(s) ==
  /\ Idle /\ s.ev = "in"
  /\ current' = [fd |-> s.fd, id |-> s.id, rest |-> Head(conns[s.fd].inbox)]
  /\ conns' = [conns EXCEPT ![s.fd].inbox = Tail(@)]
  /\ sources' = (sources \ {s}) \cup {[s EXCEPT !.ev = "none"]}
  /\ UNCHANGED <<addrs, inputSources, acceptReady, blocked, backlog, sent, manager>>

RecordDone ==
  /\ current # None /\ current.rest = <<>>
  /\ current' = None
  /\ UNCHANGED <<addrs, inputSources, sources, acceptReady, blocked, manager, network>>

PacketDone == current' = [current EXCEPT !.rest = Tail(@)]

\* Mutant: a NOOP is taken for a packet that fails the checks.
ReceiveNoopBad ==
  /\ current # None /\ current.rest # <<>> /\ Head(current.rest) = Noop
  /\ ~deleted /\ CloseKept(current, {"other"})

ReceiveNoop ==
  /\ current # None /\ current.rest # <<>> /\ Head(current.rest) = Noop
  /\ PacketDone
  /\ UNCHANGED <<addrs, inputSources, sources, acceptReady, blocked, manager, network>>

ReceiveKey ==
  /\ current # None /\ current.rest # <<>> /\ Head(current.rest) \in Keys
  /\ \/ /\ ~deleted
        /\ heard' = [heard EXCEPT ![devices[current.id]] = Head(current.rest)]
        /\ PacketDone
        /\ UNCHANGED <<addrs, inputSources, sources, acceptReady, blocked, devices,
                       deleted, failed, network>>
     \/ CallsDeleted

RefAfterRemoval == None

ReceiveRemove ==
  /\ current # None /\ current.rest # <<>> /\ Head(current.rest) = Remove
  /\ \/ /\ ~deleted
        /\ Closed(current)
        /\ sources' = {r \in sources : r.fd # current.fd}
        /\ inputSources' = [inputSources EXCEPT ![current.id] = RefAfterRemoval]
        /\ addrs' = AddrsReset(current.id)
        /\ devices' = [devices EXCEPT ![current.id] = None]
        /\ current' = None
        /\ UNCHANGED <<acceptReady, blocked, heard, deleted, failed, backlog, sent>>
     \/ CallsDeleted

\* A packet that fails a check is passed on, an incomplete one is not read.
ReceiveBad ==
  /\ current # None /\ current.rest # <<>>
  /\ Head(current.rest) \in {BadMagic, BadCmd, Short}
  /\ \/ /\ ~deleted
        /\ CloseKept(current, IF Head(current.rest) = BadCmd THEN {"other"}
                                                             ELSE {"key", "other"})
     \/ CallsDeleted

-----------------------------------------------------------------------------
\* ~GtkBackend() destroys the accept source only.
DeleteBackend ==
  /\ ~deleted /\ Idle
  /\ deleted' = TRUE
  /\ devices' = <<>> /\ addrs' = <<>> /\ inputSources' = <<>>
  /\ acceptReady' = FALSE
  /\ backlog' = <<>>
  /\ conns' = [f \in Fds |-> IF conns[f].st = "queued" THEN NoConn ELSE conns[f]]
  /\ UNCHANGED <<sources, current, blocked, heard, sent, failed>>

Accept == AcceptClient \/ AcceptBlocks
Receive == (\E s \in sources : ReceiveError(s) \/ ReceiveFails(s) \/ ReceiveRecord(s))
             \/ RecordDone \/ ReceiveNoop \/ ReceiveKey \/ ReceiveRemove \/ ReceiveBad

Crashed == failed /\ UNCHANGED vars

Next ==
  \/ /\ ~failed
     /\ \/ \E f \in Fds : (\E a \in Addrs : ClientConnects(f, a))
                          \/ ClientSends(f) \/ ClientGoes(f) \/ HangUp(f)
        \/ Poll \/ Accept \/ Receive
        \/ DeleteBackend
  \/ Crashed

Spec == Init /\ [][Next]_vars

\* The main loop polls and dispatches what was ready.
FairSpec ==
  /\ Spec
  /\ WF_vars(~failed /\ Poll)
  /\ WF_vars(~failed /\ Accept)
  /\ WF_vars(~failed /\ Receive)

-----------------------------------------------------------------------------
Places == 1..Len(addrs)

TypeOK ==
  /\ addrs \in Seq(Addrs \cup {None})
  /\ inputSources \in Seq(Fds \cup {None, Dead})
  /\ Len(inputSources) = Len(addrs)
  /\ \A s \in sources : s \in [fd : Fds, id : Nat \ {0}, ev : {"none", "in", "error"}]
  /\ current # None => current \in [fd : Fds, id : Nat \ {0}, rest : Seq(Entries)]
  /\ {acceptReady, blocked, deleted, failed} \subseteq BOOLEAN
  /\ backlog \in Seq(Fds)
  /\ conns \in [Fds -> [st : {"free", "queued", "accepted"}, addr : Addrs \cup {None},
                       up : BOOLEAN, hup : BOOLEAN, inbox : Seq(Seq(Entries))]]
  /\ devices \in Seq(Addrs \cup {None})
  /\ heard \in [Addrs -> {0} \cup Keys] /\ sent \in {0} \cup Keys

\* Every source that is attached is the one the backend refers to at its place,
\* and reads the connection of the client the place belongs to: a connection
\* that was replaced, closed or removed has no source left that could report
\* keys for a place that is another client's by now.  The place of a removed device
\* refers to no source, as doServerAcceptClient() asserts, and no descriptor is
\* referred to from two places.
OneSource ==
  ~deleted =>
    /\ \A s \in sources :
         /\ s.id \in Places
         /\ inputSources[s.id] = s.fd
         /\ conns[s.fd].st = "accepted"
         /\ conns[s.fd].addr = addrs[s.id]
    /\ \A i \in Places : addrs[i] = None => inputSources[i] = None
    /\ \A i, j \in Places : inputSources[i] = inputSources[j] /\ inputSources[i] \in Fds => i = j

\* No connection is leaked: the server has a source, or is handling the record,
\* for every connection it accepted.
NoLeak ==
  \A f \in Fds : conns[f].st = "accepted" => \E s \in sources : s.fd = f

\* The backend keeps its promise to the manager: a client that reconnects keeps
\* its device, at most one device exists for an address, places are used again,
\* and keys are reported in order and for existing devices only.
Registry == INSTANCE DeviceRegistry
              WITH Addrs <- Addrs, Keys <- Keys, None <- None,
                   devices <- devices, heard <- heard
KeepsRegistry == Registry!Spec

Contains(r, k) == \E i \in 1..Len(r) : r[i] = k

\* Packet k is in an unread record of f, or in the one being handled.
Waiting(f, k) ==
  \/ \E n \in 1..Len(conns[f].inbox) : Contains(conns[f].inbox[n], k)
  \/ current # None /\ current.fd = f /\ Contains(current.rest, k)

\* Every key that reached the server is handled in the end, also one behind others
\* in its record, unless the connection it waits in is closed, the backend deleted,
\* or the main loop waits in accept().
KeysRead ==
  \A k \in Keys :
    (\E f \in Fds : Waiting(f, k)) ~> (deleted \/ blocked \/ \A f \in Fds : ~Waiting(f, k))

\* A client that asks for the removal of its device loses the device, also where
\* the request follows keys in one record.  Where it does not, although its
\* connection carried the request: the connection was closed first, because the
\* client hung up right after it or connected again, because recv() failed, or
\* because a packet before the request is not one.
ClosedEarly(s) ==
  \/ conns[s.fd].hup
  \/ \E r \in sources' \ sources : r.id = s.id
  \/ current = None /\ s.ev = "in"
  \/ current # None /\ current.fd = s.fd /\ Head(current.rest) \in {BadMagic, BadCmd, Short}
RemovalLostOnlyWhenClosed ==
  [][\A s \in sources :
       (\A r \in sources' : r.fd # s.fd) /\ Waiting(s.fd, Remove) =>
         devices'[s.id] = None \/ ClosedEarly(s)]_vars

=============================================================================
