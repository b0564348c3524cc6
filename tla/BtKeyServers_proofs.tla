------------------------ MODULE BtKeyServers_proofs ------------------------
(***************************************************************************)
(* The safety properties of the server inquiry, for every number of        *)
(* addresses and refreshes and every limit.                                *)
(***************************************************************************)
EXTENDS BtKeyServers, TLAPS

\* What the properties rest on: a refresh starts without an error, an inquiry
\* that was given up has hung, a server to connect to has a port, and only an
\* inquiry with an error returns an address that is none.
Causes ==
  /\ refreshing => lastError = "none"
  /\ future # None /\ ~refreshing => hung
  /\ target # None => target.port # 0
  /\ \A t \in Threads : ~threads[t].err => threads[t].found \subseteq Addrs

\* The inductive invariant.
Inv ==
  /\ TypeOK /\ Causes
  /\ ButtonsAgree /\ ListAgrees /\ StagedIsConnected /\ StandsStillForHung

\* No thread is not a thread.
LEMMA NoneIsNoThread == None \notin Threads
  BY ServersAssumption DEF Threads

LEMMA SensitivityType ==
  ASSUME NEW r \in BOOLEAN, NEW t
  PROVE  /\ Sensitivity(r, t) \in [connect : BOOLEAN, choose : BOOLEAN, refresh : BOOLEAN]
         /\ Sensitivity(r, t).connect <=> t = None
         /\ Sensitivity(r, t).choose <=> t = None
         /\ Sensitivity(r, t).refresh <=> ~r
<1>1. (t = None) \in BOOLEAN /\ (~r) \in BOOLEAN
  OBVIOUS
<1> QED BY <1>1 DEF Sensitivity

\* A server that is chosen has a port and an address.
LEMMA StagedType ==
  ASSUME Inv, NEW a
  PROVE  Staged(a) \in Servers /\ (Staged(a).port # 0 => Staged(a).addr \in Addrs)
<1>1. CASE a \in servers \cap Addrs
  BY <1>1, ServersAssumption DEF Staged, Server, Servers
<1>2. CASE a \notin servers \cap Addrs
  BY <1>2 DEF Staged, Inv, TypeOK, ListAgrees
<1> QED BY <1>1, <1>2

LEMMA InitInv == Init => Inv
<1> SUFFICES ASSUME Init PROVE Inv
  OBVIOUS
<1>0. refreshing \in BOOLEAN
  BY Zenon DEF Init
<1>1. /\ servers \subseteq Addrs /\ shown = servers /\ lastError = "none" /\ elapsed = 0
      /\ hung = FALSE /\ waitsFor = None /\ choice = None /\ target = None
      /\ buttons = Sensitivity(refreshing, target)
      /\ phase = "running" /\ extra \in Addrs \cup {Zero}
  BY DEF Init, ExtraOnly
<1>2. /\ threads \in [Threads -> [st : {"unstarted", "running", "ended"}, err : BOOLEAN,
                                  found : SUBSET (Addrs \cup {Zero})]]
      /\ \A t \in Threads : threads[t].found = {}
  BY DEF Init, Running, Unstarted
<1>3. /\ future \in Threads \cup {None}
      /\ refreshing <=> future # None
  BY ServersAssumption, NoneIsNoThread DEF Init, Threads
<1>4. cur \in Servers /\ (cur.port # 0 => cur.addr \in Addrs)
  BY ServersAssumption DEF Init, Configured, Servers
<1>5. TypeOK
  <2>1. elapsed \in 0..Limit
    BY <1>1, ServersAssumption
  <2> QED BY <1>0, <1>1, <1>2, <1>3, <1>4, <2>1, SensitivityType DEF TypeOK
<1> QED BY <1>0, <1>1, <1>2, <1>3, <1>4, <1>5, ServersAssumption
        DEF Inv, Causes, ButtonsAgree, ListAgrees, StagedIsConnected, StandsStillForHung, LoopRuns

-----------------------------------------------------------------------------
LEMMA ThreadEndsInv == Inv /\ (\E t \in Threads : ThreadEnds(t)) => Inv'
<1> SUFFICES ASSUME Inv, NEW t \in Threads, ThreadEnds(t) PROVE Inv'
  OBVIOUS
<1>1. PICK r \in {[st |-> "ended", err |-> TRUE, found |-> {extra}]}
              \cup {[st |-> "ended", err |-> FALSE, found |-> s \cup ExtraOnly] : s \in SUBSET Addrs} :
        threads' = [threads EXCEPT ![t] = r]
  BY DEF ThreadEnds
<1>2. /\ r \in [st : {"unstarted", "running", "ended"}, err : BOOLEAN,
                found : SUBSET (Addrs \cup {Zero})]
      /\ ~r.err => r.found \subseteq Addrs
  <2>1. CASE r = [st |-> "ended", err |-> TRUE, found |-> {extra}]
    <3>1. {extra} \in SUBSET (Addrs \cup {Zero})
      BY DEF Inv, TypeOK
    <3> QED BY <2>1, <3>1
  <2>2. CASE r # [st |-> "ended", err |-> TRUE, found |-> {extra}]
    <3>1. PICK s \in SUBSET Addrs : r = [st |-> "ended", err |-> FALSE, found |-> s \cup ExtraOnly]
      BY <2>2, <1>1
    <3>2. s \cup ExtraOnly \in SUBSET Addrs
      BY DEF ExtraOnly
    <3> QED BY <3>1, <3>2
  <2> QED BY <2>1, <2>2
<1>3. UNCHANGED <<extra, inquiry, waitsFor, window, phase>>
  BY DEF ThreadEnds
<1>4. TypeOK'
  BY <1>1, <1>2, <1>3 DEF Inv, TypeOK, inquiry, window
<1>5. Causes'
  BY <1>1, <1>2, <1>3 DEF Inv, TypeOK, Causes, inquiry, window
<1> QED BY <1>3, <1>4, <1>5
        DEF Inv, ButtonsAgree, ListAgrees, StagedIsConnected, StandsStillForHung, LoopRuns,
            inquiry, window

\* The buttons do not allow a refresh while one runs, so that the thread of the
\* future that is replaced has ended or hangs.
LEMMA RefreshServersInv == Inv /\ RefreshServers => Inv'
<1> SUFFICES ASSUME Inv, RefreshServers PROVE Inv'
  OBVIOUS
<1>1. PICK t \in Threads :
        /\ LoopRuns /\ buttons.refresh
        /\ lastError' = "none" /\ refreshing' = TRUE /\ elapsed' = 0
        /\ threads' = [threads EXCEPT ![t] = Running]
        /\ future' = t /\ waitsFor' = Joined(future)
        /\ buttons' = IF waitsFor' = None THEN Sensitivity(TRUE, target) ELSE buttons
        /\ UNCHANGED <<extra, servers, hung, shown, choice, cur, target, phase>>
  BY DEF RefreshServers
<1>2. ~refreshing
  BY <1>1, SensitivityType DEF Inv, TypeOK, ButtonsAgree
<1>3. /\ waitsFor' \in Threads \cup {None}
      /\ waitsFor' # None => hung
  BY <1>1, <1>2 DEF Inv, TypeOK, Causes, Joined
<1>4. /\ threads' \in [Threads -> [st : {"unstarted", "running", "ended"}, err : BOOLEAN,
                                   found : SUBSET (Addrs \cup {Zero})]]
      /\ \A u \in Threads : ~threads'[u].err => threads'[u].found \subseteq Addrs
  BY <1>1 DEF Inv, TypeOK, Causes, Running, Unstarted
<1>5. buttons' \in [connect : BOOLEAN, choose : BOOLEAN, refresh : BOOLEAN]
  BY <1>1, SensitivityType DEF Inv, TypeOK
<1>6. TypeOK'
  <2>1. elapsed' \in 0..Limit /\ future' \in Threads \cup {None}
    BY <1>1, ServersAssumption
  <2> QED BY <1>1, <1>3, <1>4, <1>5, <2>1 DEF Inv, TypeOK
<1> QED BY <1>1, <1>3, <1>4, <1>6, NoneIsNoThread
        DEF Inv, Causes, ButtonsAgree, ListAgrees, StagedIsConnected, StandsStillForHung, LoopRuns

LEMMA JoinsInv == Inv /\ Joins => Inv'
<1> SUFFICES ASSUME Inv, Joins PROVE Inv'
  OBVIOUS
<1>1. /\ waitsFor' = None /\ buttons' = Sensitivity(refreshing, target)
      /\ UNCHANGED <<extra, inquiry, threads, shown, choice, cur, target, phase>>
  BY DEF Joins
<1>2. buttons' \in [connect : BOOLEAN, choose : BOOLEAN, refresh : BOOLEAN]
  BY <1>1, SensitivityType DEF Inv, TypeOK
<1>3. TypeOK'
  BY <1>1, <1>2 DEF Inv, TypeOK, inquiry
<1> QED BY <1>1, <1>3
        DEF Inv, Causes, ButtonsAgree, ListAgrees, StagedIsConnected, StandsStillForHung, LoopRuns, inquiry

\* An inquiry that ends without error returns valid addresses, and an error
\* leaves the list as it was.
LEMMA IntervalTimeoutInv == Inv /\ IntervalTimeout => Inv'
<1> SUFFICES ASSUME Inv, IntervalTimeout PROVE Inv'
  OBVIOUS
<1>1. /\ LoopRuns /\ refreshing /\ future \in Threads
      /\ UNCHANGED <<extra, threads, waitsFor, phase>>
  BY DEF IntervalTimeout, Inv, TypeOK, ButtonsAgree
<1>2. /\ threads[future].found \subseteq Addrs \cup {Zero}
      /\ ~threads[future].err => threads[future].found \subseteq Addrs
  BY <1>1 DEF Inv, TypeOK, Causes
<1>3. CASE /\ ~TooLong /\ elapsed' = elapsed + 1
           /\ UNCHANGED <<servers, lastError, refreshing, hung, future, window>>
  <2>1. elapsed' \in 0..Limit
    BY <1>3, ServersAssumption DEF TooLong, Inv, TypeOK
  <2>2. TypeOK'
    BY <1>1, <1>3, <2>1 DEF Inv, TypeOK, window
  <2> QED BY <1>1, <1>3, <2>2
          DEF Inv, Causes, ButtonsAgree, ListAgrees, StagedIsConnected, StandsStillForHung,
              LoopRuns, window
<1>4. ASSUME refreshing' = FALSE, elapsed' = elapsed, hung' \in BOOLEAN, hung => hung',
             servers' \subseteq Addrs \cup {Zero},
             lastError' \in {"none", "hci", "hung"},
             lastError' = "none" => servers' \subseteq Addrs,
             future' \in Threads \cup {None}, future' # None => hung',
             ServersChanged
      PROVE  Inv'
  <2>2. /\ shown' \subseteq Addrs /\ choice' \in shown' \cup {None}
        /\ lastError' = "none" => shown' = servers'
        /\ cur' = cur /\ target' = target
    BY <1>4 DEF ServersChanged, Inv, TypeOK, ListAgrees
  <2>3. buttons' = Sensitivity(refreshing', target)
    BY <1>4 DEF ServersChanged
  <2>4. TypeOK'
    BY <1>1, <1>4, <2>2, <2>3, SensitivityType DEF Inv, TypeOK
  <2> QED BY <1>1, <1>4, <2>2, <2>3, <2>4, ServersAssumption
          DEF Inv, TypeOK, Causes, ButtonsAgree, ListAgrees, StagedIsConnected,
              StandsStillForHung, LoopRuns
<1>5. CASE /\ servers' = threads[future].found
           /\ lastError' = IF threads[future].err THEN "hci" ELSE lastError
           /\ refreshing' = FALSE /\ future' = None
           /\ UNCHANGED <<elapsed, hung>>
           /\ ServersChanged
  <2>1. hung \in BOOLEAN /\ lastError = "none" /\ threads[future].err \in BOOLEAN
    BY <1>1 DEF Inv, TypeOK, Causes
  <2> QED BY <1>2, <1>4, <1>5, <2>1
<1>6. CASE GivesUp /\ ServersChanged
  <2>1. servers \subseteq Addrs \cup {Zero} /\ future \in Threads \cup {None}
    BY DEF Inv, TypeOK
  <2> QED BY <1>4, <1>6, <2>1 DEF GivesUp
<1> QED BY <1>3, <1>5, <1>6 DEF IntervalTimeout

-----------------------------------------------------------------------------
(* The staged server.                                                      *)

\* The staged server changes only while there is no server to connect to.
LEMMA RestagedInv ==
  ASSUME Inv, target = None \/ cur' = cur,
         cur' \in Servers, cur'.port # 0 => cur'.addr \in Addrs,
         choice' \in shown \cup {None},
         UNCHANGED <<extra, inquiry, threads, waitsFor, shown, target, buttons, phase>>
  PROVE  Inv'
<1>1. TypeOK'
  BY DEF Inv, TypeOK, inquiry
<1> QED BY <1>1
        DEF Inv, Causes, ButtonsAgree, ListAgrees, StagedIsConnected, StandsStillForHung,
            LoopRuns, inquiry

\* A server to connect to has a port: nothing is staged at once.
LEMMA SelectServerInv == Inv /\ (\E a \in Addrs : SelectServer(a)) => Inv'
<1> SUFFICES ASSUME Inv, NEW a \in Addrs, SelectServer(a) PROVE Inv'
  OBVIOUS
<1>1. /\ choice' \in shown \cup {None}
      /\ cur' = IF StageAtOnce THEN Staged(a) ELSE cur
      /\ UNCHANGED <<extra, inquiry, threads, waitsFor, shown, target, buttons, phase>>
  BY DEF SelectServer
<1>2. target = None \/ cur' = cur
  BY <1>1 DEF Inv, Causes, StagedIsConnected, StageAtOnce
<1>3. cur' \in Servers /\ (cur'.port # 0 => cur'.addr \in Addrs)
  BY <1>1, StagedType DEF Inv, TypeOK, ListAgrees
<1> QED BY <1>1, <1>2, <1>3, RestagedInv

LEMMA DeselectServerInv == Inv /\ DeselectServer => Inv'
<1> SUFFICES ASSUME Inv, DeselectServer PROVE Inv'
  OBVIOUS
<1>1. /\ choice' \in shown \cup {None} /\ cur' = cur
      /\ UNCHANGED <<extra, inquiry, threads, waitsFor, shown, target, buttons, phase>>
  BY DEF DeselectServer
<1> QED BY <1>1, RestagedInv DEF Inv, TypeOK, ListAgrees

LEMMA ChooseServerInv == Inv /\ ChooseServer => Inv'
<1> SUFFICES ASSUME Inv, ChooseServer PROVE Inv'
  OBVIOUS
<1>1. /\ LoopRuns /\ buttons.choose /\ cur' = Staged(choice)
      /\ UNCHANGED <<extra, inquiry, threads, waitsFor, shown, choice, target, buttons, phase>>
  BY DEF ChooseServer
<1>2. target = None
  BY <1>1, SensitivityType DEF Inv, TypeOK, ButtonsAgree
<1> QED BY <1>1, <1>2, StagedType, RestagedInv DEF Inv, TypeOK

LEMMA InputServerInv == Inv /\ (\E a \in Addrs \cup {None} : InputServer(a)) => Inv'
<1> SUFFICES ASSUME Inv, NEW a \in Addrs \cup {None}, InputServer(a) PROVE Inv'
  OBVIOUS
<1>1. /\ LoopRuns /\ buttons.choose
      /\ cur' = IF a = None THEN Empty
                ELSE Server(a, IF cur.port = 0 THEN DefaultPort ELSE cur.port)
      /\ UNCHANGED <<extra, inquiry, threads, waitsFor, shown, choice, target, buttons, phase>>
  BY DEF InputServer
<1>2. target = None
  BY <1>1, SensitivityType DEF Inv, TypeOK, ButtonsAgree
<1>3. cur' \in Servers /\ (cur'.port # 0 => cur'.addr \in Addrs)
  <2>1. cur \in Servers
    BY DEF Inv, TypeOK
  <2>2. CASE a = None
    BY <1>1, <2>2 DEF Empty, Servers
  <2>3. CASE a # None
    BY <1>1, <2>1, <2>3, ServersAssumption DEF Server, Servers
  <2> QED BY <2>2, <2>3
<1> QED BY <1>1, <1>2, <1>3, RestagedInv DEF Inv, TypeOK

LEMMA ConnectInv == Inv /\ (Connect \/ Disconnected) => Inv'
<1> SUFFICES ASSUME Inv, Connect \/ Disconnected PROVE Inv'
  OBVIOUS
<1>1. /\ target' \in {None} \cup Servers
      /\ target' # None => target' = cur /\ cur.port # 0
      /\ buttons' = Sensitivity(refreshing, target')
      /\ UNCHANGED <<extra, inquiry, threads, waitsFor, shown, choice, cur, phase>>
  BY DEF Connect, Disconnected, Inv, TypeOK
<1>2. TypeOK'
  BY <1>1, SensitivityType DEF Inv, TypeOK, inquiry
<1> QED BY <1>1, <1>2
        DEF Inv, Causes, ButtonsAgree, ListAgrees, StagedIsConnected, StandsStillForHung,
            LoopRuns, inquiry

-----------------------------------------------------------------------------
LEMMA EndInv == Inv /\ (Close \/ Leave \/ UNCHANGED vars) => Inv'
<1> SUFFICES ASSUME Inv, Close \/ Leave \/ UNCHANGED vars PROVE Inv'
  OBVIOUS
<1>1. /\ UNCHANGED <<extra, inquiry, threads, waitsFor, window>>
      /\ phase' = phase \/ phase' \in {"leaving", "gone"}
  BY DEF Close, Leave, vars
<1>2. TypeOK'
  BY <1>1 DEF Inv, TypeOK, inquiry, window
<1> QED BY <1>1, <1>2
        DEF Inv, Causes, ButtonsAgree, ListAgrees, StagedIsConnected, StandsStillForHung,
            LoopRuns, inquiry, window

LEMMA NextInv == Inv /\ [Next]_vars => Inv'
  BY ThreadEndsInv, RefreshServersInv, JoinsInv, IntervalTimeoutInv, SelectServerInv, DeselectServerInv,
     ChooseServerInv, InputServerInv, ConnectInv, EndInv DEF Next, Gone

LEMMA Invariance == Spec => []Inv
  BY InitInv, NextInv, PTL DEF Spec

\* Every variable keeps its type, and the selected row is one of the list.
THEOREM TypeCorrect == Spec => []TypeOK
<1>1. Inv => TypeOK
  BY DEF Inv
<1> QED BY <1>1, Invariance, PTL

\* The buttons allow what the state allows, whenever a handler runs: the
\* assertions of onRefreshServers() and doIntervalTimeout() hold.
THEOREM ButtonsCorrect == Spec => []ButtonsAgree
<1>1. Inv => ButtonsAgree
  BY DEF Inv
<1> QED BY <1>1, Invariance, PTL

\* The list shows the servers found last, and never the zero address; a staged
\* server with a port has a valid address.
THEOREM ListCorrect == Spec => []ListAgrees
<1>1. Inv => ListAgrees
  BY DEF Inv
<1> QED BY <1>1, Invariance, PTL

\* The staged server is the one the client is connected to.
THEOREM StagedCorrect == Spec => []StagedIsConnected
<1>1. Inv => StagedIsConnected
  BY DEF Inv
<1> QED BY <1>1, Invariance, PTL

\* The main loop waits for threads that were declared hung, and for no other.
THEOREM WaitsForHungOnly == Spec => []StandsStillForHung
<1>1. Inv => StandsStillForHung
  BY DEF Inv
<1> QED BY <1>1, Invariance, PTL
=============================================================================
