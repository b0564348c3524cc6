---------------------------- MODULE BtKeyServers ----------------------------
(***************************************************************************)
(* The inquiry of servers in stmm-input-btkb: BtKeyServers, its inquiry    *)
(* threads and timer, and the part of BtkbWindow that lists the servers    *)
(* and stages the one to connect to.                                       *)
(*                                                                         *)
(* The threads only return a result; everything else runs in the main      *)
(* loop's thread, which stands still while it waits for a thread.          *)
(***************************************************************************)
EXTENDS Integers

CONSTANTS
  Addrs,         \* valid bluetooth addresses
  Zero,          \* the address 00:00:00:00:00:00
  None,          \* no row, no thread, no server
  Ports,         \* valid ports
  CommandPort,   \* m_nL2capPort, the port from the command line
  DefaultPort,   \* s_nDefaultL2capPort
  MaxRefreshes,  \* bound: refreshes, each with its thread
  Limit          \* max(14000, 2 * 1280 * m_n1s28PeriodsAddr) / 1000

ASSUME ServersAssumption ==
  /\ Zero \notin Addrs /\ None \notin Addrs \cup (1..MaxRefreshes)
  /\ 0 \notin Ports /\ {CommandPort, DefaultPort} \subseteq Ports
  /\ MaxRefreshes \in Nat \ {0} /\ Limit \in Nat

VARIABLES
  extra,       \* m_oExtraAddr: never changes
  servers,     \* the addresses of m_aServers; their port is CommandPort
  lastError,   \* m_sLastError, "none" if empty
  refreshing,  \* m_nRefreshStarted >= 0
  elapsed,     \* seconds since then
  hung,        \* m_bHungThread
  threads,     \* the inquiry threads and their results
  future,      \* the thread m_oRefreshFuture belongs to
  waitsFor,    \* the thread the main loop's thread waits for
  shown,       \* the addresses in m_refTreeModelServers
  choice,      \* m_sSelectedAddr, or None if m_nSelectedPort is 0
  cur,         \* m_oCurServer
  target,      \* the server the client is or gets connected to
  buttons,     \* the sensitivity of the buttons
  phase        \* of main()

window == <<shown, choice, cur, target, buttons>>
inquiry == <<servers, lastError, refreshing, elapsed, hung, future>>
vars == <<extra, inquiry, threads, waitsFor, window, phase>>

Threads == 1..MaxRefreshes
Unstarted == [st |-> "unstarted", err |-> FALSE, found |-> {}]
Running == [Unstarted EXCEPT !.st = "running"]

Empty == [addr |-> Zero, port |-> 0]
Server(a, p) == [addr |-> a, port |-> p]

\* setSensitivityForState()
Sensitivity(isRefreshing, isTarget) ==
  [connect |-> isTarget = None, choose |-> isTarget = None, refresh |-> ~isRefreshing]

ExtraOnly == {extra} \cap Addrs

\* loadStateFromConfig(): without a valid port in the configuration the server has
\* the port 0, with a valid address or with what m_oCurServer, which is not
\* initialized, happens to hold.
Configured == [addr : Addrs, port : Ports] \cup [addr : Addrs \cup {Zero}, port : {0}]

\* The window was made and has the server of the configuration, if any.  Its
\* list asks for the servers, which starts a refresh unless there is an extra
\* server.
Init ==
  /\ extra \in Addrs \cup {Zero}
  /\ servers = ExtraOnly /\ shown = servers
  /\ lastError = "none"
  /\ refreshing = (extra = Zero)
  /\ elapsed = 0
  /\ hung = FALSE
  /\ threads = [t \in Threads |-> IF t = 1 /\ refreshing THEN Running ELSE Unstarted]
  /\ future = IF refreshing THEN 1 ELSE None
  /\ waitsFor = None
  /\ choice = None
  /\ cur \in Configured
  /\ target = None
  /\ buttons = Sensitivity(refreshing, target)
  /\ phase = "running"

LoopRuns == phase = "running" /\ waitsFor = None

-----------------------------------------------------------------------------
(* The inquiry.                                                            *)

\* refreshServers() returns, with an error or with what was found.
ThreadEnds(t) ==
  /\ threads[t].st = "running"
  /\ \E r \in {[st |-> "ended", err |-> TRUE, found |-> {extra}]}
              \cup {[st |-> "ended", err |-> FALSE, found |-> s \cup ExtraOnly] : s \in SUBSET Addrs} :
       threads' = [threads EXCEPT ![t] = r]
  /\ UNCHANGED <<extra, inquiry, waitsFor, window, phase>>

\* The thread a new value of m_oRefreshFuture makes the main loop wait for: the
\* destructor of the old state joins its thread.
Joined(t) == IF t # None /\ threads[t].st = "running" THEN t ELSE None

\* onRefreshServers(), startRefreshServers()
RefreshServers ==
  \E t \in Threads :
    /\ LoopRuns /\ buttons.refresh
    /\ threads[t].st = "unstarted" /\ \A u \in 1..(t - 1) : threads[u].st # "unstarted"
    /\ lastError' = "none"
    /\ refreshing' = TRUE /\ elapsed' = 0
    /\ threads' = [threads EXCEPT ![t] = Running]
    /\ future' = t
    /\ waitsFor' = Joined(future)
    /\ buttons' = IF waitsFor' = None THEN Sensitivity(TRUE, target) ELSE buttons
    /\ UNCHANGED <<extra, servers, hung, shown, choice, cur, target, phase>>

\* The thread that was waited for ends, and the handler goes on.
Joins ==
  /\ phase = "running" /\ waitsFor # None
  /\ threads[waitsFor].st = "ended"
  /\ waitsFor' = None
  /\ buttons' = Sensitivity(refreshing, target)
  /\ UNCHANGED <<extra, inquiry, threads, shown, choice, cur, target, phase>>

\* Mutant: the list is made again whatever the error.
ServersChangedAlways ==
  /\ buttons' = Sensitivity(refreshing', target)
  /\ shown' = servers' /\ choice' = None
  /\ UNCHANGED <<cur, target>>

\* Mutant: after an error the handler returns before the buttons are set.
ServersChangedEarly ==
  /\ IF lastError' = "none"
       THEN buttons' = Sensitivity(refreshing', target) /\ shown' = servers' /\ choice' = None
       ELSE UNCHANGED <<buttons, shown, choice>>
  /\ UNCHANGED <<cur, target>>

\* onServersChanged(): after an error the list stays as it is.
ServersChanged ==
  /\ buttons' = Sensitivity(refreshing', target)
  /\ IF lastError' = "none"
       THEN shown' = servers' /\ choice' = None
       ELSE UNCHANGED <<shown, choice>>
  /\ UNCHANGED <<cur, target>>

\* Mutant: the limit is noticed a second late.
TooLongLate == elapsed > Limit

TooLong == elapsed + 1 > Limit

\* Mutant: that the thread hangs is not recorded.
GivesUpUnmarked ==
  /\ lastError' = "hung"
  /\ refreshing' = FALSE
  /\ UNCHANGED <<servers, future, elapsed, hung>>

\* Mutant: after the limit the time is counted again.
GivesUpNever ==
  /\ elapsed' = 0
  /\ UNCHANGED <<refreshing, lastError, servers, future, hung>>

\* The refresh takes too long; its thread goes on.
GivesUp ==
  /\ hung' = TRUE /\ lastError' = "hung"
  /\ refreshing' = FALSE
  /\ UNCHANGED <<servers, future, elapsed>>

\* doIntervalTimeout(), every second
IntervalTimeout ==
  /\ LoopRuns /\ refreshing
  /\ \/ /\ threads[future].st = "ended"
        /\ servers' = threads[future].found
        /\ lastError' = IF threads[future].err THEN "hci" ELSE lastError
        /\ refreshing' = FALSE /\ future' = None
        /\ UNCHANGED <<elapsed, hung>>
        /\ ServersChanged
     \/ /\ threads[future].st # "ended" /\ TooLong
        /\ GivesUp
        /\ ServersChanged
     \/ /\ threads[future].st # "ended" /\ ~TooLong
        /\ elapsed' = elapsed + 1
        /\ UNCHANGED <<servers, lastError, refreshing, hung, future, window>>
  /\ UNCHANGED <<extra, threads, waitsFor, phase>>

-----------------------------------------------------------------------------
(* The staged server.                                                      *)

\* onChooseServer(): a server that is not among the servers any more is ignored.
Staged(a) == IF a \in servers \cap Addrs THEN Server(a, CommandPort) ELSE cur

\* Mutant: the selection is staged at once.
StageAtOnceAlways == TRUE

StageAtOnce == cur.port = 0

\* onServerSelectionChanged(): the first server selected is staged at once.
SelectServer(a) ==
  /\ LoopRuns
  /\ a \in shown /\ choice # a
  /\ choice' = a
  /\ cur' = IF StageAtOnce THEN Staged(a) ELSE cur
  /\ UNCHANGED <<extra, inquiry, threads, waitsFor, shown, target, buttons, phase>>

\* onServerSelectionChanged(): no server is selected any more.
DeselectServer ==
  /\ LoopRuns
  /\ choice # None /\ choice' = None
  /\ UNCHANGED <<extra, inquiry, threads, waitsFor, shown, cur, target, buttons, phase>>

ChooseServer ==
  /\ LoopRuns /\ buttons.choose
  /\ choice # None
  /\ cur' = Staged(choice)
  /\ UNCHANGED <<extra, inquiry, threads, waitsFor, shown, choice, target, buttons, phase>>

\* onInputStagedServer() and, after the address screen, setAddr(): an address or
\* none.  Nothing can happen to the staged server while that screen is shown.
InputServer(a) ==
  /\ LoopRuns /\ buttons.choose
  /\ cur' = IF a = None THEN Empty
            ELSE Server(a, IF cur.port = 0 THEN DefaultPort ELSE cur.port)
  /\ UNCHANGED <<extra, inquiry, threads, waitsFor, shown, choice, target, buttons, phase>>

\* onButtonConnect(): the kernel refuses port 0 at once.
Connect ==
  /\ LoopRuns /\ buttons.connect
  /\ cur.port # 0
  /\ target' = cur
  /\ buttons' = Sensitivity(refreshing, target')
  /\ UNCHANGED <<extra, inquiry, threads, waitsFor, shown, choice, cur, phase>>

\* onClientStateChanged() once the client is disconnected
Disconnected ==
  /\ LoopRuns /\ target # None
  /\ target' = None
  /\ buttons' = Sensitivity(refreshing, target')
  /\ UNCHANGED <<extra, inquiry, threads, waitsFor, shown, choice, cur, phase>>

-----------------------------------------------------------------------------
(* The end of main().                                                      *)

\* The window is closed: the main loop ends.
Close ==
  /\ LoopRuns
  /\ phase' = "leaving"
  /\ UNCHANGED <<extra, inquiry, threads, waitsFor, window>>

\* The thread of m_oRefreshFuture has not returned.
InquiryRuns == future # None /\ threads[future].st = "running"

\* std::terminate() after a thread has hung, otherwise the future's destructor
\* joins the thread.
MayLeave == hung \/ ~InquiryRuns

Leave ==
  /\ phase = "leaving"
  /\ MayLeave
  /\ phase' = "gone"
  /\ UNCHANGED <<extra, inquiry, threads, waitsFor, window>>

Gone == phase = "gone" /\ UNCHANGED vars

-----------------------------------------------------------------------------
Next ==
  \/ \E t \in Threads : ThreadEnds(t)
  \/ RefreshServers \/ Joins \/ IntervalTimeout
  \/ (\E a \in Addrs : SelectServer(a)) \/ DeselectServer \/ ChooseServer
  \/ (\E a \in Addrs \cup {None} : InputServer(a))
  \/ Connect \/ Disconnected
  \/ Close \/ Leave \/ Gone

Spec == Init /\ [][Next]_vars

\* The timer ticks and main() goes on; nothing makes an inquiry return.
FairSpec ==
  /\ Spec
  /\ WF_vars(IntervalTimeout) /\ WF_vars(Joins) /\ WF_vars(Leave)

-----------------------------------------------------------------------------
Servers == [addr : Addrs \cup {Zero}, port : Ports \cup {0}]

TypeOK ==
  /\ extra \in Addrs \cup {Zero}
  /\ servers \subseteq Addrs \cup {Zero}
  /\ lastError \in {"none", "hci", "hung"}
  /\ {refreshing, hung} \subseteq BOOLEAN
  /\ elapsed \in 0..Limit
  /\ threads \in [Threads -> [st : {"unstarted", "running", "ended"}, err : BOOLEAN,
                              found : SUBSET (Addrs \cup {Zero})]]
  /\ {future, waitsFor} \subseteq Threads \cup {None}
  /\ shown \subseteq Addrs /\ choice \in shown \cup {None}
  /\ cur \in Servers
  /\ target \in {None} \cup Servers
  /\ buttons \in [connect : BOOLEAN, choose : BOOLEAN, refresh : BOOLEAN]
  /\ phase \in {"running", "leaving", "gone"}

\* While the main loop runs the buttons allow what the state allows, so that
\* the assertion of onRefreshServers() (btkbwindow.cc:628) holds, and so does
\* that of doIntervalTimeout() on the future (btkeyservers.cc:260).
ButtonsAgree ==
  /\ LoopRuns => buttons = Sensitivity(refreshing, target)
  /\ refreshing => future # None

\* The list shows the servers of the last refresh that ended without error: the
\* zero address that a failed inquiry returns is never shown, although it is among
\* the servers until the next refresh (btkeyservers.cc:201).  A staged server with
\* a port has an address to connect to and to store (btkbwindow.cc:1071): neither
\* the zero one nor the one that was not initialized.
ListAgrees ==
  /\ lastError = "none" /\ ~refreshing => shown = servers
  /\ Zero \notin shown
  /\ cur.port # 0 => cur.addr \in Addrs

\* The server the window calls staged is the one the client is connected to,
\* whatever is selected, refreshed or typed while it is.
StagedIsConnected == target # None => cur = target

\* The main loop stands still only for a thread that was declared hung, after
\* the message that asks for a restart (btkeyservers.cc:287).
StandsStillForHung == waitsFor # None => hung

\* A refresh ends, though its thread may never: only a main loop that stands
\* still and the end of the program keep it from it.
RefreshEnds == refreshing ~> (~refreshing \/ waitsFor # None \/ phase # "running")

\* The program ends once its window is closed, unless a refresh is running then:
\* an inquiry that was given up is known to hang and not joined (main.cc:229),
\* whatever refreshes came after it.
ProgramEnds == (phase = "leaving") ~> (phase = "gone" \/ refreshing)
=============================================================================
