------------------------- MODULE BtKeyClient_proofs -------------------------
(***************************************************************************)
(* The client's state agrees with its socket and its sources, no key is    *)
(* lost silently, and the keys it delivers are those of KeyChannel, for    *)
(* any number of keys, sources and descriptors and any limits.             *)
(***************************************************************************)
EXTENDS BtKeyClient, SequenceTheorems, WellFoundedInduction, TLAPS

Entries == Keys \cup {Noop, Remove}
Source == [id : Ids, slot : {"connect", "send"}, fd : Fds, ev : {"none", "out", "error"}]
History == [sent : SUBSET Keys, gone : SUBSET Keys, inOrder : BOOLEAN]

-----------------------------------------------------------------------------
(* The inductive invariant: the links of the client's state to sockets and  *)
(* sources, and the keys on their way.                                      *)

Identified(S, n) ==
  \A s \in S : s \in Source /\ s.id < n /\ \A r \in S : r.id = s.id => r = s

\* A source that the client refers to as id is attached.
Attends(S, slot, id, f) == \E s \in S : s.id = id /\ s.slot = slot /\ s.fd = f

\* While nothing has waited since the connection was made, there is an id left
\* for the source that a send() may need.
Room == clientFD # None /\ pendingSend = None => nextId < MaxSources

Links ==
  /\ state \in States /\ clientFD \in Fds \cup {None}
  /\ pendingConnect \in Ids \cup {None} /\ pendingSend \in Ids \cup {None}
  /\ nextId \in Ids /\ Identified(sources, nextId)
  /\ socks \in [Fds -> SockStates]
  /\ PendingMatches
  /\ Room

Increasing(q) == \A i, j \in 1..Len(q) : i < j /\ q[i] \in Keys /\ q[j] \in Keys => q[i] < q[j]

\* The keys that may still arrive.
OnTheirWay == InFlight \cup KeysOf(buffered)

\* With assertions keys do not overtake each other: those sent are older than
\* those of the batch that waits, and these than those in the buffer.
Ordered ==
  /\ hist.inOrder
  /\ hist.sent \cup hist.gone \cup OnTheirWay \subseteq 1..entered
  /\ OnTheirWay \cap hist.gone = {}
  /\ \A k \in hist.sent, j \in OnTheirWay : k < j
  /\ \A k \in InFlight, j \in KeysOf(buffered) : k < j
  /\ Increasing(packets) /\ Increasing(buffered)

KeysInv ==
  /\ buffered \in Seq(Entries) /\ Len(buffered) <= BufferSize
  /\ packets \in Seq(Entries) /\ Len(packets) <= BufferSize
  /\ entered \in 0..MaxKeys
  /\ hist \in History
  /\ NoSilentLoss
  /\ asserts => Ordered

Rest ==
  /\ timer \in BOOLEAN /\ asserts \in BOOLEAN
  /\ age \in [connecting : Nat, sending : Nat, sent : Nat]
  /\ due \subseteq {"gtk", "timer"}
  /\ failed \in {"no", "noTimer", "full", "notEmpty", "pendingSend"}

Inv == Links /\ KeysInv /\ Rest

LEMMA InvariantMeans == Inv => TypeOK /\ PendingMatches /\ NoSilentLoss
<1>1. Inv => PendingMatches /\ NoSilentLoss
  BY DEF Inv, Links, KeysInv
<1>2. Inv => TypeOK
  BY DEF Inv, Links, KeysInv, Rest, Identified, TypeOK, Entries, Source, History
<1> QED BY <1>1, <1>2

-----------------------------------------------------------------------------
(* Sequences of keys.                                                      *)

LEMMA KeysOfMember ==
  ASSUME NEW q, NEW k
  PROVE  k \in KeysOf(q) <=> k \in Keys /\ \E i \in 1..Len(q) : q[i] = k
  BY DEF KeysOf

LEMMA KeysOfEmpty == KeysOf(<<>>) = {} /\ Increasing(<<>>)
  BY DEF KeysOf, Increasing

LEMMA KeysOfAppended ==
  ASSUME NEW q \in Seq(Entries), NEW e \in Entries
  PROVE  /\ Append(q, e) \in Seq(Entries) /\ Len(Append(q, e)) = Len(q) + 1
         /\ KeysOf(Append(q, e)) = KeysOf(q) \cup ({e} \cap Keys)
         /\ Increasing(q) /\ (\A k \in KeysOf(q) : e \in Keys => k < e)
              => Increasing(Append(q, e))
<1> DEFINE r == Append(q, e)
           n == Len(q)
<1>1. /\ r \in Seq(Entries) /\ Len(r) = n + 1 /\ n \in Nat
      /\ \A i \in 1..n : r[i] = q[i]
      /\ r[n + 1] = e
  OBVIOUS
<1> HIDE DEF r
<1>2. KeysOf(r) = KeysOf(q) \cup ({e} \cap Keys)
  <2>1. ASSUME NEW k \in KeysOf(r) PROVE k \in KeysOf(q) \cup ({e} \cap Keys)
    <3>1. PICK i \in 1..(n + 1) : r[i] = k /\ k \in Keys
      BY <1>1, <2>1, KeysOfMember
    <3>2. CASE i = n + 1
      BY <1>1, <3>1, <3>2
    <3>3. CASE i # n + 1
      <4>1. i \in 1..n
        BY <1>1, <3>3
      <4> QED BY <1>1, <3>1, <4>1, KeysOfMember
    <3> QED BY <3>2, <3>3
  <2>2. ASSUME NEW k \in KeysOf(q) PROVE k \in KeysOf(r)
    <3>1. PICK i \in 1..n : q[i] = k /\ k \in Keys
      BY <2>2, KeysOfMember
    <3>2. i \in 1..Len(r) /\ r[i] = k
      BY <1>1, <3>1
    <3> QED BY <3>1, <3>2, KeysOfMember
  <2>3. e \in Keys => e \in KeysOf(r)
    <3>1. n + 1 \in 1..Len(r)
      BY <1>1
    <3> QED BY <1>1, <3>1, KeysOfMember
  <2> QED BY <2>1, <2>2, <2>3
<1>3. ASSUME Increasing(q), \A k \in KeysOf(q) : e \in Keys => k < e
      PROVE  Increasing(r)
  <2>1. SUFFICES ASSUME NEW i \in 1..(n + 1), NEW j \in 1..(n + 1), i < j,
                        r[i] \in Keys, r[j] \in Keys
                 PROVE  r[i] < r[j]
    BY <1>1 DEF Increasing
  <2>2. i \in 1..n /\ r[i] = q[i]
    BY <1>1, <2>1
  <2>3. CASE j = n + 1
    <3>1. q[i] \in KeysOf(q)
      BY <2>1, <2>2, KeysOfMember
    <3> QED BY <1>1, <1>3, <2>1, <2>2, <2>3, <3>1
  <2>4. CASE j # n + 1
    <3>1. j \in 1..n /\ r[j] = q[j]
      BY <1>1, <2>4
    <3> QED BY <1>3, <2>1, <2>2, <3>1 DEF Increasing
  <2> QED BY <2>3, <2>4
<1> QED BY <1>1, <1>2, <1>3 DEF r

LEMMA KeysOfTail ==
  ASSUME NEW q \in Seq(Entries), q # <<>>
  PROVE  /\ Tail(q) \in Seq(Entries) /\ Len(Tail(q)) = Len(q) - 1
         /\ KeysOf(Tail(q)) \subseteq KeysOf(q)
         /\ Increasing(q) => Increasing(Tail(q))
<1> DEFINE r == Tail(q)
           n == Len(q)
<1>1. /\ r \in Seq(Entries) /\ Len(r) = n - 1 /\ n \in Nat \ {0}
      /\ \A i \in 1..(n - 1) : r[i] = q[i + 1]
  OBVIOUS
<1> HIDE DEF r
<1>2. ASSUME NEW k \in KeysOf(r) PROVE k \in KeysOf(q)
  <2>1. PICK i \in 1..(n - 1) : r[i] = k /\ k \in Keys
    BY <1>1, <1>2, KeysOfMember
  <2>2. i + 1 \in 1..n /\ q[i + 1] = k
    BY <1>1, <2>1
  <2> QED BY <2>1, <2>2, KeysOfMember
<1>3. ASSUME Increasing(q) PROVE Increasing(r)
  <2>1. SUFFICES ASSUME NEW i \in 1..(n - 1), NEW j \in 1..(n - 1), i < j,
                        r[i] \in Keys, r[j] \in Keys
                 PROVE  r[i] < r[j]
    BY <1>1 DEF Increasing
  <2>2. i + 1 \in 1..n /\ j + 1 \in 1..n /\ i + 1 < j + 1 /\ r[i] = q[i + 1] /\ r[j] = q[j + 1]
    BY <1>1, <2>1
  <2> QED BY <1>3, <2>1, <2>2 DEF Increasing
<1> QED BY <1>1, <1>2, <1>3 DEF r

LEMMA KeysOfSingle ==
  ASSUME NEW e \in Entries
  PROVE  /\ <<e>> \in Seq(Entries) /\ Len(<<e>>) = 1
         /\ KeysOf(<<e>>) = {e} \cap Keys
         /\ Increasing(<<e>>)
<1>1. <<e>> \in Seq(Entries) /\ Len(<<e>>) = 1 /\ <<e>>[1] = e
  OBVIOUS
<1>2. KeysOf(<<e>>) = {e} \cap Keys
  BY <1>1 DEF KeysOf
<1>3. Increasing(<<e>>)
  BY <1>1 DEF Increasing
<1> QED BY <1>1, <1>2, <1>3

LEMMA CommandsAreNoKeys ==
  /\ Noop \in Entries /\ Remove \in Entries /\ Keys \subseteq Entries
  /\ {Noop} \cap Keys = {} /\ {Remove} \cap Keys = {}
  BY ValuesAssumption DEF Entries

-----------------------------------------------------------------------------
(* The history.                                                            *)

LEMMA GivenUpType ==
  ASSUME NEW h \in History, NEW ks \in SUBSET Keys
  PROVE  /\ GivenUp(h, ks) \in History
         /\ GivenUp(h, ks).sent = h.sent
         /\ GivenUp(h, ks).gone = h.gone \cup (ks \ h.sent)
         /\ GivenUp(h, ks).inOrder = h.inOrder
  BY DEF GivenUp, History

LEMMA DeliveredType ==
  ASSUME NEW h \in History, NEW q \in Seq(Entries)
  PROVE  /\ Delivered(h, q) \in History
         /\ Delivered(h, q).sent = h.sent \cup KeysOf(q)
         /\ Delivered(h, q).gone = h.gone
         /\ h.inOrder /\ Increasing(q) /\ (\A k \in h.sent, j \in KeysOf(q) : k < j)
              => Delivered(h, q).inOrder
<1> DEFINE ok == /\ h.inOrder
                 /\ \A i \in 1..Len(q) : q[i] \in Keys =>
                      /\ \A k \in h.sent : k < q[i]
                      /\ \A j \in 1..(i - 1) : q[j] \in Keys => q[j] < q[i]
           s == h.sent \cup KeysOf(q)
<1>1. Delivered(h, q) = [h EXCEPT !.sent = s, !.inOrder = ok]
  BY DEF Delivered
<1>2. s \in SUBSET Keys
  BY DEF History, KeysOf
<1>3. ok \in BOOLEAN
  OBVIOUS
<1>4. ASSUME h.inOrder, Increasing(q), \A k \in h.sent, j \in KeysOf(q) : k < j
      PROVE  ok
  <2>1. ASSUME NEW i \in 1..Len(q), q[i] \in Keys, NEW k \in h.sent PROVE k < q[i]
    BY <1>4, <2>1, KeysOfMember
  <2>2. ASSUME NEW i \in 1..Len(q), q[i] \in Keys, NEW j \in 1..(i - 1), q[j] \in Keys
        PROVE  q[j] < q[i]
    <3>1. Len(q) \in Nat /\ j \in 1..Len(q) /\ j < i
      OBVIOUS
    <3> QED BY <1>4, <2>2, <3>1 DEF Increasing
  <2> QED BY <1>4, <2>1, <2>2
<1> HIDE DEF ok, s
<1>5. /\ Delivered(h, q) \in History
      /\ Delivered(h, q).sent = s /\ Delivered(h, q).gone = h.gone
      /\ Delivered(h, q).inOrder = ok
  BY <1>1, <1>2, <1>3 DEF History
<1> QED BY <1>4, <1>5 DEF s

-----------------------------------------------------------------------------
(* The keys.                                                               *)

\* What a step adds to the history: keys that were on their way or are new.
Grows(h, n) ==
  /\ entered <= n
  /\ hist.sent \subseteq h.sent /\ hist.gone \subseteq h.gone
  /\ h.sent \subseteq hist.sent \cup OnTheirWay \cup (entered + 1)..n

\* No key gets lost when q is sent with history h.
Complete(q, h, n) == 1..n \subseteq h.sent \cup h.gone \cup KeysOf(q)

\* The keys of q are newer than all that were sent, and none was given up.
Sendable(q, h, n) ==
  /\ h.inOrder
  /\ h.sent \cup h.gone \cup KeysOf(q) \subseteq 1..n
  /\ KeysOf(q) \cap h.gone = {}
  /\ \A k \in h.sent, j \in KeysOf(q) : k < j
  /\ Increasing(q)
  /\ Grows(h, n)
  /\ KeysOf(q) \subseteq OnTheirWay \cup (entered + 1)..n

KeyStep == KeysInv' /\ (asserts => Grows(hist', entered'))

LEMMA HistType == KeysInv => hist \in History
  BY DEF KeysInv

\* What SendPackets does to the keys.
LEMMA SendPacketsEffect ==
  ASSUME NEW q, NEW a, NEW h, NEW now, NEW kept, NEW n, SendPackets(q, a, h, now, kept, n)
  PROVE  \/ UNCHANGED <<state, buffered, packets, entered, hist>>
         \/ /\ buffered' = <<>> /\ packets' = q /\ entered' = n
            /\ \/ state' \in {"CONNECTED", "DISCONNECTED"} /\ hist' = Delivered(h, q)
               \/ state' \in {"SENDING", "REMOVING"} /\ hist' = h
               \/ state' = "DISCONNECTED" /\ hist' = GivenUp(h, KeysOf(q))
<1>1. CASE Fails("noTimer")
  BY <1>1 DEF Fails
<1>2. CASE ~Fails("noTimer")
  BY <1>2 DEF SendPackets, DisconnectInternal, Batch
<1> QED BY <1>1, <1>2

\* Steps that keep the keys where they are.
LEMMA KeysKept ==
  ASSUME KeysInv, UNCHANGED <<buffered, packets, entered, hist, asserts>>, InFlight' = InFlight
  PROVE  KeyStep
<1>1. UNCHANGED <<OnTheirWay, NoSilentLoss>>
  BY DEF OnTheirWay, NoSilentLoss, KeysOf
<1>2. asserts => Ordered'
  BY <1>1 DEF KeysInv, Ordered, Increasing
<1>3. entered \in Nat
  BY SizesAssumption DEF KeysInv
<1>4. Grows(hist', entered')
  BY <1>3 DEF Grows
<1> QED BY <1>1, <1>2, <1>4 DEF KeysInv, KeyStep

\* The batch that waits is given up.
LEMMA BatchGivenUp ==
  ASSUME KeysInv, UNCHANGED <<buffered, packets, entered, asserts>>,
         hist' = GivenUp(hist, InFlight), state' \notin {"SENDING", "REMOVING"}
  PROVE  KeyStep
<1>1. InFlight \subseteq Keys /\ InFlight' = {}
  BY DEF InFlight, KeysOf
<1>2. /\ hist' \in History /\ hist'.sent = hist.sent
      /\ hist'.gone = hist.gone \cup (InFlight \ hist.sent)
      /\ hist'.inOrder = hist.inOrder
  BY <1>1, HistType, GivenUpType
<1>3. OnTheirWay' = KeysOf(buffered)
  BY <1>1 DEF OnTheirWay, KeysOf
<1>4. NoSilentLoss'
  BY <1>1, <1>2 DEF KeysInv, NoSilentLoss, KeysOf
<1>5. entered \in Nat
  BY SizesAssumption DEF KeysInv
<1>6. Grows(hist', entered')
  BY <1>2, <1>5 DEF Grows
<1>7. ASSUME asserts PROVE Ordered'
  <2>1. Ordered
    BY <1>7 DEF KeysInv
  <2>2. \A k \in InFlight, j \in KeysOf(buffered) : k # j
    <3>1. \A n \in Nat : ~(n < n)
      OBVIOUS
    <3>2. InFlight \subseteq Nat
      BY <1>1, SizesAssumption DEF Keys
    <3>3. \A k \in InFlight, j \in KeysOf(buffered) : k < j
      BY <2>1 DEF Ordered
    <3> QED BY <3>1, <3>2, <3>3, Zenon
  <2>3. /\ hist'.sent \cup hist'.gone \cup OnTheirWay' \subseteq 1..entered
        /\ OnTheirWay' \cap hist'.gone = {}
        /\ \A k \in hist'.sent, j \in OnTheirWay' : k < j
    BY <1>2, <1>3, <2>1, <2>2 DEF Ordered, OnTheirWay
  <2> QED BY <1>1, <1>2, <2>1, <2>3 DEF Ordered, Increasing
<1> QED BY <1>2, <1>4, <1>6, <1>7 DEF KeysInv, KeyStep

\* A batch is sent, waits, or is given up because the connection is lost.
LEMMA SendPacketsKeys ==
  ASSUME KeysInv, NEW q \in Seq(Entries), Len(q) <= BufferSize,
         NEW a, NEW h \in History, NEW now, NEW kept, NEW n \in 0..MaxKeys,
         Complete(q, h, n), asserts => Sendable(q, h, n),
         SendPackets(q, a, h, now, kept, n), asserts' = asserts
  PROVE  KeyStep
<1>1. CASE UNCHANGED <<state, buffered, packets, entered, hist>>
  <2>1. InFlight' = InFlight
    BY <1>1 DEF InFlight, KeysOf
  <2> QED BY <1>1, <2>1, KeysKept
<1>2. CASE ~UNCHANGED <<state, buffered, packets, entered, hist>>
  <2> buffered' = <<>> /\ packets' = q /\ entered' = n
    BY <1>2, SendPacketsEffect
  <2>1. KeysOf(buffered') = {} /\ Increasing(buffered') /\ KeysOf(q) \subseteq Keys
    BY KeysOfEmpty DEF KeysOf
  <2>2. buffered' \in Seq(Entries) /\ Len(buffered') <= BufferSize
    BY SizesAssumption
  <2>3. CASE state' \in {"CONNECTED", "DISCONNECTED"} /\ hist' = Delivered(h, q)
    <3>1. /\ hist' \in History
          /\ hist'.sent = h.sent \cup KeysOf(q) /\ hist'.gone = h.gone
          /\ asserts => hist'.inOrder
      BY <2>3, DeliveredType DEF Sendable
    <3>2. InFlight' = {} /\ OnTheirWay' = {}
      BY <2>1, <2>3 DEF InFlight, OnTheirWay
    <3>3. NoSilentLoss'
      BY <3>1 DEF NoSilentLoss, Complete
    <3>4. ASSUME asserts PROVE Ordered' /\ Grows(hist', entered')
      BY <2>1, <3>1, <3>2, <3>4 DEF Ordered, Sendable, Grows, Increasing
    <3> QED BY <2>2, <3>1, <3>3, <3>4 DEF KeyStep, KeysInv
  <2>4. CASE state' \in {"SENDING", "REMOVING"} /\ hist' = h
    <3>1. InFlight' = KeysOf(q) /\ OnTheirWay' = KeysOf(q)
      BY <2>1, <2>4 DEF InFlight, OnTheirWay
    <3>2. NoSilentLoss'
      BY <2>4, <3>1 DEF NoSilentLoss, Complete
    <3>3. ASSUME asserts PROVE Ordered' /\ Grows(hist', entered')
      BY <2>1, <2>4, <3>1, <3>3 DEF Ordered, Sendable, Increasing
    <3> QED BY <2>2, <2>4, <3>2, <3>3 DEF KeyStep, KeysInv
  <2>5. CASE state' = "DISCONNECTED" /\ hist' = GivenUp(h, KeysOf(q))
    <3>1. /\ hist' \in History /\ hist'.sent = h.sent
          /\ hist'.gone = h.gone \cup (KeysOf(q) \ h.sent)
          /\ hist'.inOrder = h.inOrder
      BY <2>1, <2>5, GivenUpType
    <3>2. InFlight' = {} /\ OnTheirWay' = {}
      BY <2>1, <2>5 DEF InFlight, OnTheirWay
    <3>3. NoSilentLoss'
      BY <3>1 DEF NoSilentLoss, Complete
    <3>4. ASSUME asserts PROVE Ordered' /\ Grows(hist', entered')
      BY <2>1, <3>1, <3>2, <3>4 DEF Ordered, Sendable, Grows, Increasing
    <3> QED BY <2>2, <3>1, <3>3, <3>4 DEF KeyStep, KeysInv
  <2> QED BY <1>2, <2>3, <2>4, <2>5, SendPacketsEffect
<1> QED BY <1>1, <1>2

LEMMA MadePlaceKeys ==
  ASSUME KeysInv
  PROVE  /\ MadePlace \in Seq(Entries) /\ Len(MadePlace) + 1 <= BufferSize
         /\ KeysOf(MadePlace) \subseteq KeysOf(buffered)
         /\ Increasing(buffered) => Increasing(MadePlace)
<1>1. buffered \in Seq(Entries) /\ Len(buffered) <= BufferSize /\ Len(buffered) \in Nat
  BY DEF KeysInv
<1>2. CASE Len(buffered) = BufferSize
  <2>1. buffered # <<>>
    BY <1>2, SizesAssumption
  <2>2. MadePlace = Tail(buffered)
    BY <1>2 DEF MadePlace
  <2> QED BY <1>1, <1>2, <2>1, <2>2, KeysOfTail, SizesAssumption
<1>3. CASE Len(buffered) # BufferSize
  <2>1. MadePlace = buffered
    BY <1>3 DEF MadePlace
  <2> QED BY <1>1, <1>3, <2>1, SizesAssumption
<1> QED BY <1>2, <1>3

LEMMA SendKeyToServerKeys ==
  ASSUME KeysInv, SendKeyToServer, asserts' = asserts
  PROVE  KeyStep
<1> DEFINE key == entered + 1
           h == GivenUp(hist, Forgotten)
           q == Append(MadePlace, key)
<1>1. /\ entered \in Nat /\ key \in Keys /\ key \in 0..MaxKeys /\ {key} \cap Keys = {key}
      /\ 1..key = 1..entered \cup {key}
  BY SizesAssumption DEF KeysInv, SendKeyToServer, Keys
<1>2. Forgotten \in SUBSET Keys /\ Forgotten = KeysOf(buffered) \ KeysOf(MadePlace)
  BY DEF Forgotten, KeysOf
<1>3. /\ h \in History /\ h.sent = hist.sent
      /\ h.gone = hist.gone \cup (Forgotten \ hist.sent) /\ h.inOrder = hist.inOrder
  BY <1>2, HistType, GivenUpType
<1>4. /\ q \in Seq(Entries) /\ Len(q) <= BufferSize
      /\ KeysOf(q) = KeysOf(MadePlace) \cup {key}
  BY <1>1, CommandsAreNoKeys, MadePlaceKeys, KeysOfAppended
<1>5. ASSUME asserts
      PROVE  /\ Increasing(q)
             /\ \A k \in 1..entered : k < key
             /\ Ordered
  <2>1. Ordered
    BY <1>5 DEF KeysInv
  <2>2. \A k \in KeysOf(MadePlace) : k < key
    BY <1>1, <2>1, MadePlaceKeys DEF Ordered, OnTheirWay
  <2>3. Increasing(MadePlace)
    BY <2>1, MadePlaceKeys DEF Ordered
  <2> QED BY <1>1, <2>1, <2>2, <2>3, CommandsAreNoKeys, MadePlaceKeys, KeysOfAppended
<1> HIDE DEF key, h, q
<1>6. CASE state = "CONNECTED" /\ SendPackets(q, age, h, socks, sources, key)
  <2>1. InFlight = {} /\ OnTheirWay = KeysOf(buffered)
    BY <1>6 DEF InFlight, OnTheirWay
  <2>2. Complete(q, h, key)
    BY <1>1, <1>2, <1>3, <1>4, <2>1 DEF Complete, KeysInv, NoSilentLoss
  <2>3. ASSUME asserts PROVE Grows(h, key)
    <3>1. entered <= key
      BY <1>1 DEF key
    <3> QED BY <1>3, <3>1 DEF Grows
  <2>4. ASSUME asserts PROVE Sendable(q, h, key)
    <3>1. h.sent \cup h.gone \cup KeysOf(q) \subseteq 1..key
      BY <1>1, <1>2, <1>3, <1>4, <1>5, <2>1, <2>4, MadePlaceKeys DEF Ordered
    <3>2. KeysOf(q) \cap h.gone = {}
      <4>1. key \notin hist.gone /\ key \notin Forgotten
        BY <1>2, <1>5, <2>1, <2>4 DEF Ordered, key
      <4> QED BY <1>2, <1>3, <1>4, <1>5, <2>1, <2>4, <4>1, MadePlaceKeys DEF Ordered
    <3>3. \A k \in h.sent, j \in KeysOf(q) : k < j
      BY <1>3, <1>4, <1>5, <2>1, <2>4, MadePlaceKeys DEF Ordered
    <3>4. KeysOf(q) \subseteq OnTheirWay \cup (entered + 1)..key
      BY <1>1, <1>4, <2>1, MadePlaceKeys DEF key
    <3> QED BY <1>3, <1>5, <2>3, <2>4, <3>1, <3>2, <3>3, <3>4 DEF Sendable, Ordered
  <2> QED BY <1>1, <1>3, <1>4, <1>6, <2>2, <2>4, SendPacketsKeys
<1>7. CASE /\ state = "SENDING" /\ buffered' = q /\ hist' = h /\ entered' = key
           /\ UNCHANGED <<state, packets>>
  <2>1. InFlight' = InFlight /\ KeysOf(buffered') = KeysOf(q) /\ OnTheirWay' = InFlight \cup KeysOf(q)
    BY <1>7 DEF InFlight, OnTheirWay, KeysOf
  <2>2. NoSilentLoss'
    BY <1>1, <1>2, <1>3, <1>4, <1>7, <2>1 DEF NoSilentLoss, KeysInv
  <2>3. ASSUME asserts PROVE Grows(hist', entered')
    <3>1. entered <= key
      BY <1>1 DEF key
    <3> QED BY <1>3, <1>7, <3>1 DEF Grows
  <2>4. ASSUME asserts PROVE Ordered'
    <3>1. hist'.sent \cup hist'.gone \cup OnTheirWay' \subseteq 1..entered'
      BY <1>1, <1>2, <1>3, <1>4, <1>5, <1>7, <2>1, <2>4, MadePlaceKeys DEF Ordered, OnTheirWay
    <3>2. OnTheirWay' \cap hist'.gone = {}
      <4>1. key \notin hist.gone /\ key \notin Forgotten
        BY <1>2, <1>5, <2>4 DEF Ordered, OnTheirWay, key
      <4>2. InFlight \cap Forgotten = {}
        <5>1. \A k \in InFlight, j \in KeysOf(buffered) : k # j
          <6>1. InFlight \subseteq Nat /\ KeysOf(buffered) \subseteq Nat
            BY DEF InFlight, KeysOf, Keys
          <6> QED BY <1>5, <2>4, <6>1 DEF Ordered
        <5> QED BY <1>2, <5>1
      <4> QED BY <1>2, <1>3, <1>4, <1>5, <1>7, <2>1, <2>4, <4>1, <4>2, MadePlaceKeys
              DEF Ordered, OnTheirWay
    <3>3. \A k \in hist'.sent, j \in OnTheirWay' : k < j
      BY <1>3, <1>4, <1>5, <1>7, <2>1, <2>4, MadePlaceKeys DEF Ordered, OnTheirWay
    <3>4. \A k \in InFlight', j \in KeysOf(buffered)' : k < j
      BY <1>4, <1>5, <2>1, <2>4, MadePlaceKeys DEF Ordered, OnTheirWay
    <3>5. Increasing(packets)' /\ Increasing(buffered)'
      BY <1>5, <1>7, <2>4 DEF Ordered, Increasing
    <3> QED BY <1>3, <1>5, <1>7, <2>4, <3>1, <3>2, <3>3, <3>4, <3>5 DEF Ordered
  <2> QED BY <1>1, <1>3, <1>4, <1>7, <2>2, <2>3, <2>4 DEF KeyStep, KeysInv
<1> QED BY <1>6, <1>7 DEF SendKeyToServer, key, h, q

\* What was entered so far is sent with an entry that is no key.
LEMMA CommandSendable ==
  ASSUME KeysInv, NEW e \in {Noop, Remove}, Len(buffered) < BufferSize, InFlight = {}
  PROVE  LET q == Append(buffered, e)
         IN  /\ q \in Seq(Entries) /\ Len(q) <= BufferSize
             /\ Complete(q, hist, entered)
             /\ asserts => Sendable(q, hist, entered)
<1> DEFINE q == Append(buffered, e)
<1>1. /\ buffered \in Seq(Entries) /\ Len(buffered) \in Nat /\ entered \in Nat
      /\ e \in Entries /\ {e} \cap Keys = {}
  BY SizesAssumption, CommandsAreNoKeys DEF KeysInv
<1>2. /\ q \in Seq(Entries) /\ Len(q) <= BufferSize
      /\ KeysOf(q) = KeysOf(buffered)
      /\ Increasing(buffered) => Increasing(q)
  <2>1. /\ q \in Seq(Entries) /\ Len(q) = Len(buffered) + 1
        /\ KeysOf(q) = KeysOf(buffered) \cup ({e} \cap Keys)
        /\ Increasing(buffered) /\ (\A k \in KeysOf(buffered) : e \in Keys => k < e)
             => Increasing(q)
    BY <1>1, KeysOfAppended
  <2>2. e \notin Keys
    BY <1>1
  <2> HIDE DEF q
  <2>3. Len(q) <= BufferSize
    BY <1>1, <2>1, SizesAssumption
  <2> QED BY <1>1, <2>1, <2>2, <2>3
<1> HIDE DEF q
<1>3. OnTheirWay = KeysOf(buffered)
  BY DEF OnTheirWay
<1>4. Complete(q, hist, entered)
  BY <1>2 DEF Complete, KeysInv, NoSilentLoss
<1>5. Grows(hist, entered)
  BY <1>1 DEF Grows
<1>6. ASSUME asserts PROVE Sendable(q, hist, entered)
  BY <1>2, <1>3, <1>5, <1>6 DEF Sendable, KeysInv, Ordered
<1> QED BY <1>2, <1>4, <1>6 DEF q

LEMMA SendRemoveToServerKeys ==
  ASSUME KeysInv, SendRemoveToServer, asserts' = asserts
  PROVE  KeyStep
<1>1. CASE state = "CONNECTED" /\ Fails("full")
  <2>1. InFlight' = InFlight
    BY <1>1 DEF Fails, InFlight, KeysOf
  <2> QED BY <1>1, <2>1, KeysKept DEF Fails
<1>2. CASE /\ state = "CONNECTED" /\ Len(buffered) < BufferSize
           /\ SendPackets(Append(buffered, Remove), age, hist, socks, sources, entered)
  <2>1. InFlight = {}
    BY <1>2 DEF InFlight
  <2>2. hist \in History /\ entered \in 0..MaxKeys
    BY DEF KeysInv
  <2> QED BY <1>2, <2>1, <2>2, CommandSendable, SendPacketsKeys
<1>3. CASE /\ state = "SENDING"
           /\ SendPackets(<<Remove>>, age, GivenUp(hist, InFlight \cup KeysOf(buffered)),
                          socks, sources, entered)
  <2> DEFINE q == <<Remove>>
             h == GivenUp(hist, InFlight \cup KeysOf(buffered))
  <2>1. /\ q \in Seq(Entries) /\ Len(q) <= BufferSize
        /\ KeysOf(q) = {} /\ Increasing(q)
    BY KeysOfSingle, CommandsAreNoKeys, SizesAssumption
  <2>2. InFlight \cup KeysOf(buffered) \subseteq Keys
    BY DEF InFlight, KeysOf
  <2>3. /\ h \in History /\ h.sent = hist.sent /\ h.inOrder = hist.inOrder
        /\ h.gone = hist.gone \cup ((InFlight \cup KeysOf(buffered)) \ hist.sent)
    BY <2>2, HistType, GivenUpType
  <2>4. entered \in 0..MaxKeys /\ entered \in Nat
    BY SizesAssumption DEF KeysInv
  <2> HIDE DEF q, h
  <2>5. Complete(q, h, entered)
    BY <2>3 DEF Complete, KeysInv, NoSilentLoss
  <2>6. Grows(h, entered)
    BY <2>3, <2>4 DEF Grows
  <2>7. asserts => Sendable(q, h, entered)
    BY <2>1, <2>3, <2>6 DEF Sendable, KeysInv, Ordered, OnTheirWay
  <2>8. SendPackets(q, age, h, socks, sources, entered)
    BY <1>3 DEF q, h
  <2> QED BY <2>1, <2>3, <2>4, <2>5, <2>7, <2>8, SendPacketsKeys
<1> QED BY <1>1, <1>2, <1>3 DEF SendRemoveToServer

LEMMA IntervalTimeoutKeys ==
  ASSUME KeysInv, IntervalTimeout, asserts' = asserts
  PROVE  KeyStep
<1>1. CASE /\ state = "CONNECTING" /\ DisconnectInternal(hist, socks)
           /\ UNCHANGED <<buffered, packets, entered>>
  <2>1. InFlight = {} /\ InFlight' = {} /\ hist' = hist
    BY <1>1 DEF InFlight, DisconnectInternal
  <2> QED BY <1>1, <2>1, KeysKept
<1>2. CASE Fails("notEmpty") \/ Fails("full")
  <2>1. UNCHANGED <<state, buffered, packets, entered, hist>>
    BY <1>2 DEF Fails
  <2>2. InFlight' = InFlight
    BY <2>1 DEF InFlight, KeysOf
  <2> QED BY <2>1, <2>2, KeysKept
<1>3. CASE /\ state = "CONNECTED"
           /\ IF asserts THEN buffered = <<>> ELSE Len(buffered) < BufferSize
           /\ SendPackets(Append(buffered, Noop), Aged, hist, socks, sources, entered)
  <2>1. InFlight = {} /\ hist \in History /\ entered \in 0..MaxKeys
    BY <1>3 DEF InFlight, KeysInv
  <2>2. Len(buffered) < BufferSize
    BY <1>3, SizesAssumption
  <2> QED BY <1>3, <2>1, <2>2, CommandSendable, SendPacketsKeys
<1>4. CASE /\ state' = "CONNECTED" /\ hist' = GivenUp(hist, InFlight)
           /\ UNCHANGED <<buffered, packets, entered>>
  BY <1>4, BatchGivenUp
<1>5. CASE UNCHANGED <<state, buffered, packets, entered, hist>>
  <2>1. InFlight' = InFlight
    BY <1>5 DEF InFlight, KeysOf
  <2> QED BY <1>5, <2>1, KeysKept
<1> QED BY <1>1, <1>2, <1>3, <1>4, <1>5 DEF IntervalTimeout

LEMMA DispatchErrorKeys ==
  ASSUME KeysInv, NEW s, DispatchError(s), asserts' = asserts
  PROVE  KeyStep
<1>1. CASE Fails("pendingSend")
  <2>1. InFlight' = InFlight
    BY <1>1 DEF Fails, InFlight, KeysOf
  <2> QED BY <1>1, <2>1, KeysKept DEF Fails
<1>2. CASE /\ DisconnectInternal(GivenUp(hist, InFlight), socks)
           /\ UNCHANGED <<buffered, packets, entered>>
  BY <1>2, BatchGivenUp DEF DisconnectInternal
<1> QED BY <1>1, <1>2 DEF DispatchError

LEMMA DispatchSendKeys ==
  ASSUME KeysInv, NEW s, DispatchSend(s), asserts' = asserts
  PROVE  KeyStep
<1> DEFINE idle == (sources \ {s}) \cup {[s EXCEPT !.ev = "none"]}
           h == Delivered(hist, packets)
           a == [age EXCEPT !.sent = 0]
<1>1. CASE Fails("pendingSend")
  <2>1. InFlight' = InFlight
    BY <1>1 DEF Fails, InFlight, KeysOf
  <2> QED BY <1>1, <2>1, KeysKept DEF Fails
<1>2. CASE /\ DisconnectInternal(GivenUp(hist, InFlight), socks)
           /\ UNCHANGED <<buffered, packets, entered>>
  BY <1>2, BatchGivenUp DEF DisconnectInternal
<1>3. /\ h \in History /\ h.sent = hist.sent \cup KeysOf(packets) /\ h.gone = hist.gone
      /\ hist.inOrder /\ Increasing(packets)
           /\ (\A k \in hist.sent, j \in KeysOf(packets) : k < j) => h.inOrder
      /\ packets \in Seq(Entries) /\ buffered \in Seq(Entries) /\ Len(buffered) <= BufferSize
      /\ entered \in 0..MaxKeys /\ entered \in Nat /\ InFlight \subseteq KeysOf(packets)
  BY DeliveredType, SizesAssumption DEF KeysInv, InFlight
<1>4. ASSUME asserts, state = "SENDING"
      PROVE  Ordered /\ h.inOrder /\ InFlight = KeysOf(packets)
  <2>1. Ordered /\ InFlight = KeysOf(packets)
    BY <1>4 DEF KeysInv, InFlight
  <2> QED BY <1>3, <2>1 DEF Ordered, OnTheirWay
<1> HIDE DEF h, a, idle
<1>5. Complete(buffered, h, entered)
  BY <1>3 DEF Complete, KeysInv, NoSilentLoss
<1>6. ASSUME asserts, state = "SENDING" PROVE Grows(h, entered)
  BY <1>3, <1>4, <1>6 DEF Grows, OnTheirWay
<1>7. CASE /\ ~asserts \/ state = "SENDING"
           /\ \E now \in AfterSend(socks) : SendPackets(buffered, a, h, now, idle, entered)
  <2>1. ASSUME asserts PROVE Sendable(buffered, h, entered)
    BY <1>3, <1>4, <1>6, <1>7, <2>1 DEF Sendable, Ordered, OnTheirWay
  <2> QED BY <1>3, <1>5, <1>7, <2>1, SendPacketsKeys
<1>8. CASE /\ ~asserts \/ state = "SENDING"
           /\ buffered = <<>> /\ state' = "CONNECTED" /\ hist' = h
           /\ UNCHANGED <<buffered, packets, entered>>
  <2>1. KeysOf(buffered) = {} /\ KeysOf(buffered') = {}
    BY <1>8, KeysOfEmpty
  <2>2. InFlight' = {} /\ OnTheirWay' = {}
    BY <1>8, <2>1 DEF InFlight, OnTheirWay
  <2>3. NoSilentLoss'
    BY <1>5, <1>8, <2>1 DEF NoSilentLoss, Complete
  <2>4. ASSUME asserts PROVE Ordered' /\ Grows(hist', entered')
    <3>1. Ordered /\ h.inOrder /\ InFlight = KeysOf(packets) /\ Grows(h, entered)
      BY <1>4, <1>6, <1>8, <2>4
    <3>2. Increasing(packets)' /\ Increasing(buffered)'
      BY <1>8, <3>1 DEF Ordered, Increasing
    <3> QED BY <1>3, <1>8, <2>2, <3>1, <3>2 DEF Ordered, OnTheirWay, Grows
  <2> QED BY <1>3, <1>8, <2>3, <2>4 DEF KeyStep, KeysInv
<1> QED BY <1>1, <1>2, <1>7, <1>8 DEF DispatchSend, h, a, idle

-----------------------------------------------------------------------------
(* State, socket and sources.                                              *)

\* The links in terms of what an action changes.
Linked(st, f, pc, ps, S, n, sk) ==
  /\ st \in States /\ f \in Fds \cup {None}
  /\ pc \in Ids \cup {None} /\ ps \in Ids \cup {None}
  /\ n \in Ids /\ Identified(S, n)
  /\ sk \in [Fds -> SockStates]
  /\ st = "DISCONNECTED" <=> f = None
  /\ st = "CONNECTING" <=> pc # None
  /\ st \in {"SENDING", "REMOVING"} => ps # None
  /\ st \in {"DISCONNECTED", "CONNECTING"} => ps = None
  /\ pc # None => Attends(S, "connect", pc, f)
  /\ ps # None => Attends(S, "send", ps, f)
  /\ f # None /\ ps = None => n < MaxSources

LEMMA LinksAre ==
  /\ Links <=> Linked(state, clientFD, pendingConnect, pendingSend, sources, nextId, socks)
  /\ Links' <=> Linked(state', clientFD', pendingConnect', pendingSend', sources', nextId', socks')
<1>1. Links <=> Linked(state, clientFD, pendingConnect, pendingSend, sources, nextId, socks)
  BY DEF Links, Linked, PendingMatches, Room, Attends
<1>2. Links' <=> Linked(state', clientFD', pendingConnect', pendingSend', sources', nextId', socks')
  BY DEF Links, Linked, PendingMatches, Room, Attends, Identified
<1> QED BY <1>1, <1>2

LEMMA LinksKept ==
  ASSUME Links, UNCHANGED <<state, linkVars>>, socks' \in [Fds -> SockStates]
  PROVE  Links'
  BY LinksAre DEF Linked, linkVars

LEMMA IdsAre == Ids \subseteq Nat /\ None \notin Ids /\ None \notin Fds /\ MaxSources \in Nat
  BY ValuesAssumption, SizesAssumption DEF Ids

\* A source attached under the next id.
LEMMA AttachedIdentified ==
  ASSUME NEW S, NEW n \in Ids, Identified(S, n), NEW slot \in {"connect", "send"},
         NEW f \in Fds, n < MaxSources
  PROVE  LET r == [id |-> n, slot |-> slot, fd |-> f, ev |-> "none"]
         IN  /\ n + 1 \in Ids /\ Identified(S \cup {r}, n + 1)
             /\ Attends(S \cup {r}, slot, n, f)
             /\ \A k, i, g : Attends(S, k, i, g) => Attends(S \cup {r}, k, i, g)
<1> DEFINE r == [id |-> n, slot |-> slot, fd |-> f, ev |-> "none"]
<1>1. n \in Nat /\ n + 1 \in Ids
  BY SizesAssumption DEF Ids
<1>2. r \in Source /\ r.id = n /\ r.slot = slot /\ r.fd = f
  BY DEF Source
<1> HIDE DEF r
<1>3. \A s \in S : s.id \in Nat /\ s.id < n
  BY IdsAre DEF Identified, Source
<1>4. Identified(S \cup {r}, n + 1)
  BY <1>1, <1>2, <1>3 DEF Identified
<1> QED BY <1>1, <1>2, <1>4 DEF Attends, r

\* A source removed, or one that is no longer ready.
LEMMA RemovedIdentified ==
  ASSUME NEW S, NEW n, Identified(S, n), NEW s \in S
  PROVE  /\ Identified(S \ {s}, n)
         /\ \A k, i, g : Attends(S, k, i, g) /\ ~(s.id = i /\ s.slot = k) => Attends(S \ {s}, k, i, g)
  BY DEF Identified, Attends

LEMMA IdleIdentified ==
  ASSUME NEW S, NEW n, Identified(S, n), NEW s \in S
  PROVE  LET idle == (S \ {s}) \cup {[s EXCEPT !.ev = "none"]}
         IN  /\ Identified(idle, n)
             /\ \A k, i, g : Attends(S, k, i, g) => Attends(idle, k, i, g)
<1> DEFINE r == [s EXCEPT !.ev = "none"]
           idle == (S \ {s}) \cup {r}
<1>1. s \in Source
  BY DEF Identified
<1>2. r \in Source /\ r.id = s.id /\ r.slot = s.slot /\ r.fd = s.fd
  BY <1>1 DEF Source
<1> HIDE DEF r
<1>3. Identified(idle, n)
  BY <1>2 DEF Identified
<1>4. \A k, i, g : Attends(S, k, i, g) => Attends(idle, k, i, g)
  BY <1>2 DEF Attends
<1> QED BY <1>3, <1>4 DEF r

LEMMA DisconnectInternalLinks ==
  ASSUME Links, NEW h, NEW now \in [Fds -> SockStates], DisconnectInternal(h, now),
         Identified(sources', nextId), nextId' = nextId
  PROVE  Links'
<1>1. /\ clientFD' = None /\ pendingConnect' = None /\ pendingSend' = None
      /\ state' = "DISCONNECTED" /\ socks' = [now EXCEPT ![clientFD] = "closed"]
  BY DEF DisconnectInternal
<1>2. socks' \in [Fds -> SockStates]
  BY <1>1 DEF SockStates
<1>3. nextId \in Ids
  BY DEF Links
<1> QED BY <1>1, <1>2, <1>3, LinksAre DEF Linked, States

LEMMA AfterSendType ==
  ASSUME NEW now \in [Fds -> SockStates], NEW then \in AfterSend(now)
  PROVE  then \in [Fds -> SockStates]
  BY DEF AfterSend, SockStates

\* What SendPackets does to the links.
LEMMA SendPacketsLinks ==
  ASSUME Links, state \in {"CONNECTED", "SENDING", "REMOVING"},
         NEW q, NEW a, NEW h, NEW now \in [Fds -> SockStates], NEW n,
         NEW kept, Identified(kept, nextId),
         \A k, i, g : Attends(sources, k, i, g) => Attends(kept, k, i, g),
         SendPackets(q, a, h, now, kept, n)
  PROVE  Links'
<1>1. /\ Linked(state, clientFD, pendingConnect, pendingSend, sources, nextId, socks)
      /\ clientFD \in Fds /\ pendingConnect = None
  BY LinksAre DEF Linked
<1>2. CASE Fails("noTimer")
  BY <1>2, LinksKept DEF Fails, Links
<1>3. CASE DisconnectInternal(hist', now) /\ sources' = kept /\ UNCHANGED nextId
  BY <1>3, DisconnectInternalLinks
<1>4. CASE /\ state' = "CONNECTED" /\ socks' \in AfterSend(now) /\ sources' = kept
           /\ UNCHANGED <<clientFD, pendingConnect, pendingSend, nextId>>
  <2>1. socks' \in [Fds -> SockStates]
    BY <1>4, AfterSendType
  <2> QED BY <1>1, <1>4, <2>1, LinksAre DEF Linked, States
<1>5. CASE /\ state' \in {"SENDING", "REMOVING"} /\ pendingSend = None
           /\ sources' = kept \cup {Attached("send", clientFD)}
           /\ pendingSend' = nextId /\ nextId' = nextId + 1
           /\ socks' = now /\ UNCHANGED <<clientFD, pendingConnect>>
  <2>1. nextId \in Ids /\ nextId < MaxSources /\ nextId # None /\ clientFD # None
    BY <1>1, <1>5, IdsAre DEF Linked
  <2>2. /\ nextId' \in Ids /\ Identified(sources', nextId')
        /\ Attends(sources', "send", pendingSend', clientFD')
    BY <1>1, <1>5, <2>1, AttachedIdentified DEF Attached
  <2> QED BY <1>1, <1>5, <2>1, <2>2, LinksAre DEF Linked, States
<1>6. CASE /\ state' \in {"SENDING", "REMOVING"} /\ pendingSend # None
           /\ sources' = kept /\ socks' = now
           /\ UNCHANGED <<clientFD, pendingConnect, pendingSend, nextId>>
  BY <1>1, <1>6, LinksAre DEF Linked, States
<1>7. \A h2 : DisconnectInternal(h2, now) => DisconnectInternal(hist', now)
  BY DEF DisconnectInternal
<1> QED BY <1>2, <1>3, <1>4, <1>5, <1>6, <1>7 DEF SendPackets

LEMMA ConnectToServerLinks == Links /\ ConnectToServer => Links'
<1> SUFFICES ASSUME Links, ConnectToServer PROVE Links'
  OBVIOUS
<1>1. /\ Linked(state, clientFD, pendingConnect, pendingSend, sources, nextId, socks)
      /\ clientFD = None /\ pendingSend = None /\ pendingSend' = pendingSend
      /\ pendingConnect = None /\ nextId \in Nat /\ MaxSources \in Nat
  BY LinksAre, IdsAre DEF ConnectToServer, Linked
<1>2. PICK f \in Fds :
        /\ clientFD' = f
        /\ \/ /\ socks' = [socks EXCEPT ![f] = "connecting"]
              /\ sources' = sources \cup {Attached("connect", f)}
              /\ pendingConnect' = nextId
              /\ nextId' = nextId + 1
              /\ nextId + 2 <= MaxSources
              /\ state' = "CONNECTING"
           \/ /\ socks' = [socks EXCEPT ![f] = "open"]
              /\ nextId + 2 <= MaxSources
              /\ state' = "CONNECTED"
              /\ UNCHANGED <<sources, pendingConnect, nextId>>
  BY DEF ConnectToServer
<1>3. socks' \in [Fds -> SockStates] /\ f # None
  BY <1>1, <1>2, IdsAre DEF Linked, SockStates
<1>4. CASE state' = "CONNECTING"
  <2>1. /\ nextId' \in Ids /\ Identified(sources', nextId')
        /\ Attends(sources', "connect", pendingConnect', f)
    BY <1>1, <1>2, <1>4, AttachedIdentified DEF Attached, Linked
  <2>2. nextId # None /\ nextId \in Ids /\ nextId' < MaxSources
    BY <1>1, <1>2, <1>4, IdsAre DEF Linked
  <2> QED BY <1>1, <1>2, <1>3, <1>4, <2>1, <2>2, LinksAre DEF Linked, States
<1>5. CASE state' = "CONNECTED"
  <2>1. nextId < MaxSources
    BY <1>1, <1>2, <1>5
  <2> QED BY <1>1, <1>2, <1>3, <1>5, <2>1, LinksAre DEF Linked, States
<1> QED BY <1>2, <1>4, <1>5

LEMMA DisconnectLinks ==
  ASSUME Links, NEW h, DisconnectInternal(h, socks), sources' \subseteq sources, nextId' = nextId
  PROVE  Links'
<1>1. Identified(sources', nextId) /\ socks \in [Fds -> SockStates]
  BY DEF Links, Identified
<1> QED BY <1>1, DisconnectInternalLinks

LEMMA SendKeyToServerLinks == Links /\ SendKeyToServer => Links'
<1> SUFFICES ASSUME Links, SendKeyToServer PROVE Links'
  OBVIOUS
<1>1. socks \in [Fds -> SockStates] /\ Identified(sources, nextId)
  BY DEF Links
<1>2. CASE state = "SENDING" /\ UNCHANGED <<state, linkVars, socks>>
  BY <1>1, <1>2, LinksKept
<1>3. ASSUME NEW q, NEW a, NEW h, NEW n, state = "CONNECTED",
             SendPackets(q, a, h, socks, sources, n)
      PROVE  Links'
  BY <1>1, <1>3, SendPacketsLinks
<1> QED BY <1>2, <1>3 DEF SendKeyToServer

LEMMA SendRemoveToServerLinks == Links /\ SendRemoveToServer => Links'
<1> SUFFICES ASSUME Links, SendRemoveToServer PROVE Links'
  OBVIOUS
<1>1. socks \in [Fds -> SockStates] /\ Identified(sources, nextId)
  BY DEF Links
<1>2. CASE Fails("full")
  BY <1>1, <1>2, LinksKept DEF Fails
<1>3. ASSUME NEW q, NEW a, NEW h, NEW n, state \in {"CONNECTED", "SENDING"},
             SendPackets(q, a, h, socks, sources, n)
      PROVE  Links'
  BY <1>1, <1>3, SendPacketsLinks
<1> QED BY <1>2, <1>3 DEF SendRemoveToServer

LEMMA IntervalTimeoutLinks == Links /\ IntervalTimeout => Links'
<1> SUFFICES ASSUME Links, IntervalTimeout PROVE Links'
  OBVIOUS
<1>1. /\ socks \in [Fds -> SockStates] /\ Identified(sources, nextId)
      /\ Linked(state, clientFD, pendingConnect, pendingSend, sources, nextId, socks)
  BY LinksAre DEF Links
<1>2. CASE DisconnectInternal(hist, socks) /\ UNCHANGED <<sources, nextId>>
  BY <1>2, DisconnectLinks
<1>3. CASE Fails("notEmpty") \/ Fails("full")
  BY <1>1, <1>3, LinksKept DEF Fails
<1>4. ASSUME NEW q, NEW a, state = "CONNECTED", SendPackets(q, a, hist, socks, sources, entered)
      PROVE  Links'
  BY <1>1, <1>4, SendPacketsLinks
<1>5. CASE state = "SENDING" /\ state' = "CONNECTED" /\ UNCHANGED <<linkVars, socks>>
  BY <1>1, <1>5, LinksAre DEF Linked, States, linkVars
<1>6. CASE UNCHANGED <<state, linkVars, socks>>
  BY <1>1, <1>6, LinksKept
<1> QED BY <1>2, <1>3, <1>4, <1>5, <1>6 DEF IntervalTimeout

LEMMA DispatchStaleLinks ==
  ASSUME Links, NEW s \in sources, DispatchStale(s)
  PROVE  Links'
<1>1. /\ Linked(state, clientFD, pendingConnect, pendingSend, sources, nextId, socks)
      /\ Identified(sources, nextId) /\ s.slot \in {"connect", "send"}
      /\ sources' = sources \ {s} /\ socks' = [socks EXCEPT ![s.fd] = "closed"]
      /\ UNCHANGED <<state, clientFD, pendingConnect, pendingSend, nextId>>
      /\ ~(s.slot = "connect" /\ s.id = pendingConnect)
      /\ ~(s.slot = "send" /\ s.id = pendingSend)
  BY LinksAre DEF DispatchStale, IsPending, Links, Identified, Source
<1>2. socks' \in [Fds -> SockStates]
  BY <1>1 DEF Linked, SockStates
<1>3. /\ Identified(sources', nextId)
      /\ pendingConnect # None => Attends(sources', "connect", pendingConnect, clientFD)
      /\ pendingSend # None => Attends(sources', "send", pendingSend, clientFD)
  BY <1>1, RemovedIdentified DEF Linked
<1> QED BY <1>1, <1>2, <1>3, LinksAre DEF Linked

LEMMA DispatchErrorLinks ==
  ASSUME Links, NEW s \in sources, DispatchError(s)
  PROVE  Links'
<1>1. CASE Fails("pendingSend")
  BY <1>1, LinksKept DEF Fails, Links
<1>2. CASE /\ DisconnectInternal(GivenUp(hist, InFlight), socks)
           /\ sources' = sources \ {s} /\ UNCHANGED nextId
  BY <1>2, DisconnectLinks
<1> QED BY <1>1, <1>2 DEF DispatchError

LEMMA DispatchConnectedLinks ==
  ASSUME Links, NEW s \in sources, DispatchConnected(s)
  PROVE  Links' /\ state = "CONNECTING"
<1>1. /\ Linked(state, clientFD, pendingConnect, pendingSend, sources, nextId, socks)
      /\ Identified(sources, nextId)
      /\ s.slot = "connect" /\ s.id = pendingConnect /\ s.id \in Ids
      /\ sources' = sources \ {s} /\ state' = "CONNECTED" /\ pendingConnect' = None
      /\ UNCHANGED <<clientFD, pendingSend, nextId, socks>>
  BY LinksAre DEF DispatchConnected, IsPending, Links, Identified, Source
<1>2. pendingConnect # None /\ state = "CONNECTING"
  BY <1>1, IdsAre DEF Linked
<1>3. Identified(sources', nextId) /\ pendingSend = None /\ clientFD # None
  BY <1>1, <1>2, RemovedIdentified DEF Linked
<1> QED BY <1>1, <1>2, <1>3, LinksAre DEF Linked, States

LEMMA DispatchSendLinks ==
  ASSUME Links, NEW s \in sources, DispatchSend(s)
  PROVE  Links'
<1> DEFINE idle == (sources \ {s}) \cup {[s EXCEPT !.ev = "none"]}
           h == Delivered(hist, packets)
           a == [age EXCEPT !.sent = 0]
<1>1. /\ Linked(state, clientFD, pendingConnect, pendingSend, sources, nextId, socks)
      /\ socks \in [Fds -> SockStates] /\ Identified(sources, nextId)
      /\ s.id \in Ids
      /\ \/ Fails("pendingSend")
         \/ s.slot = "send" /\ s.id = pendingSend
  BY LinksAre DEF Links, DispatchSend, IsPending, Identified, Source
<1>2. /\ Identified(idle, nextId)
      /\ \A k, i, g : Attends(sources, k, i, g) => Attends(idle, k, i, g)
  BY <1>1, IdleIdentified
<1>3. CASE Fails("pendingSend")
  BY <1>1, <1>3, LinksKept DEF Fails
<1>4. CASE /\ DisconnectInternal(GivenUp(hist, InFlight), socks)
           /\ sources' = sources \ {s} /\ UNCHANGED nextId
  BY <1>4, DisconnectLinks
<1>5. ASSUME s.slot = "send" /\ s.id = pendingSend
      PROVE  pendingSend # None /\ state \in {"CONNECTED", "SENDING", "REMOVING"}
  BY <1>1, <1>5, IdsAre DEF Linked, States
<1> HIDE DEF idle, h, a
<1>6. CASE /\ s.slot = "send" /\ s.id = pendingSend
           /\ \E now \in AfterSend(socks) : SendPackets(buffered, a, h, now, idle, entered)
  <2>1. PICK now \in AfterSend(socks) : SendPackets(buffered, a, h, now, idle, entered)
    BY <1>6
  <2>2. now \in [Fds -> SockStates]
    BY <1>1, AfterSendType
  <2> QED BY <1>2, <1>5, <1>6, <2>1, <2>2, SendPacketsLinks
<1>7. CASE /\ s.slot = "send" /\ s.id = pendingSend
           /\ state' = "CONNECTED" /\ socks' \in AfterSend(socks) /\ sources' = idle
           /\ UNCHANGED <<clientFD, pendingConnect, pendingSend, nextId>>
  <2>1. socks' \in [Fds -> SockStates]
    BY <1>1, <1>7, AfterSendType
  <2> QED BY <1>1, <1>2, <1>5, <1>7, <2>1, LinksAre DEF Linked, States
<1>8. s.slot = "send" /\ IsPending(s) => s.id = pendingSend
  BY DEF IsPending
<1> QED BY <1>3, <1>4, <1>6, <1>7, <1>8 DEF DispatchSend, idle, h, a

-----------------------------------------------------------------------------
(* Every step.                                                             *)

Ages == [connecting : Nat, sending : Nat, sent : Nat]
Failures == {"no", "noTimer", "full", "notEmpty", "pendingSend"}

\* What the remaining variables may become.
RestStep == timer' \in BOOLEAN /\ age' \in Ages /\ failed' \in Failures /\ due' \subseteq {"gtk", "timer"}

LEMMA AgesType ==
  ASSUME Rest
  PROVE  /\ timer \in BOOLEAN /\ asserts \in BOOLEAN /\ age \in Ages /\ failed \in Failures
         /\ due \subseteq {"gtk", "timer"}
         /\ Aged \in Ages /\ [age EXCEPT !.sent = 0] \in Ages /\ [age EXCEPT !.connecting = 0] \in Ages
<1>1. age \in Ages
  BY DEF Rest, Ages
<1>2. \A n \in Nat : \A limit : Older(n, limit) \in Nat
  BY DEF Older
<1>3. Aged \in Ages
  BY <1>1, <1>2 DEF Aged, Ages
<1>4. [age EXCEPT !.sent = 0] \in Ages /\ [age EXCEPT !.connecting = 0] \in Ages
  BY <1>1 DEF Ages
<1> QED BY <1>1, <1>3, <1>4 DEF Rest, Failures

LEMMA FailsRest ==
  ASSUME Rest, NEW what \in Failures, Fails(what)
  PROVE  timer' \in BOOLEAN /\ age' \in Ages /\ failed' \in Failures
  BY AgesType DEF Fails

LEMMA SendPacketsRest ==
  ASSUME Rest, NEW q, NEW a \in Ages, NEW h, NEW now, NEW kept, NEW n,
         SendPackets(q, a, h, now, kept, n)
  PROVE  timer' \in BOOLEAN /\ age' \in Ages /\ failed' \in Failures
<1>1. CASE Fails("noTimer")
  BY <1>1, FailsRest DEF Failures
<1>2. CASE ~Fails("noTimer")
  <2>1. /\ age' \in {[a EXCEPT !.sent = 0], [a EXCEPT !.sending = 0], a}
        /\ timer' = timer /\ failed' = failed
    BY <1>2 DEF SendPackets
  <2>2. [a EXCEPT !.sent = 0] \in Ages /\ [a EXCEPT !.sending = 0] \in Ages
    BY DEF Ages
  <2> QED BY <2>1, <2>2, AgesType
<1> QED BY <1>1, <1>2

LEMMA SendKeyToServerRest == Rest /\ SendKeyToServer => RestStep
<1> SUFFICES ASSUME Rest, SendKeyToServer PROVE RestStep
  OBVIOUS
<1>1. CASE UNCHANGED <<timer, age, failed>>
  BY <1>1, AgesType DEF SendKeyToServer, RestStep
<1>2. ASSUME NEW q, NEW h, NEW n, SendPackets(q, age, h, socks, sources, n) PROVE RestStep
  BY <1>2, AgesType, SendPacketsRest DEF SendKeyToServer, RestStep
<1> QED BY <1>1, <1>2 DEF SendKeyToServer

LEMMA SendRemoveToServerRest == Rest /\ SendRemoveToServer => RestStep
<1> SUFFICES ASSUME Rest, SendRemoveToServer PROVE RestStep
  OBVIOUS
<1>1. due' \subseteq {"gtk", "timer"}
  BY AgesType DEF SendRemoveToServer
<1>2. CASE Fails("full")
  BY <1>1, <1>2, FailsRest DEF Failures, RestStep
<1>3. ASSUME NEW q, NEW h, NEW n, SendPackets(q, age, h, socks, sources, n) PROVE RestStep
  BY <1>1, <1>3, AgesType, SendPacketsRest DEF RestStep
<1> QED BY <1>2, <1>3 DEF SendRemoveToServer

LEMMA IntervalTimeoutRest == Rest /\ IntervalTimeout => RestStep
<1> SUFFICES ASSUME Rest, IntervalTimeout PROVE RestStep
  OBVIOUS
<1>1. due' \subseteq {"gtk", "timer"}
  BY AgesType DEF IntervalTimeout
<1>2. CASE Fails("notEmpty") \/ Fails("full")
  BY <1>1, <1>2, FailsRest DEF Failures, RestStep
<1>3. ASSUME NEW q, SendPackets(q, Aged, hist, socks, sources, entered) PROVE RestStep
  BY <1>1, <1>3, AgesType, SendPacketsRest DEF RestStep
<1>4. CASE age' = Aged /\ UNCHANGED <<timer, failed>>
  BY <1>1, <1>4, AgesType DEF RestStep
<1> QED BY <1>2, <1>3, <1>4 DEF IntervalTimeout

LEMMA DispatchRest == ASSUME NEW s, Rest, Dispatch(s) PROVE RestStep
<1> DEFINE idle == (sources \ {s}) \cup {[s EXCEPT !.ev = "none"]}
           h == Delivered(hist, packets)
           a == [age EXCEPT !.sent = 0]
<1>1. due' \subseteq {"gtk", "timer"} /\ a \in Ages
  BY AgesType DEF Dispatch, DispatchStale, DispatchError, DispatchConnected, DispatchSend
<1>2. CASE Fails("pendingSend")
  BY <1>1, <1>2, FailsRest DEF Failures, RestStep
<1> HIDE DEF h, a, idle
<1>3. ASSUME NEW now, SendPackets(buffered, a, h, now, idle, entered) PROVE RestStep
  BY <1>1, <1>3, SendPacketsRest DEF RestStep
<1>4. CASE age' \in {a, age} /\ UNCHANGED <<timer, failed>>
  BY <1>1, <1>4, AgesType DEF RestStep
<1>5. CASE DispatchStale(s) \/ DispatchConnected(s)
  BY <1>4, <1>5 DEF DispatchStale, DispatchConnected
<1>6. CASE DispatchError(s)
  BY <1>2, <1>4, <1>6 DEF DispatchError
<1>7. CASE DispatchSend(s)
  BY <1>2, <1>3, <1>4, <1>7 DEF DispatchSend, h, a, idle
<1> QED BY <1>5, <1>6, <1>7 DEF Dispatch

LEMMA OtherRest ==
  ASSUME Rest,
         Poll \/ ConnectToServer \/ DisconnectFromServer \/ \E f \in Fds : SocketChanges(f)
  PROVE  RestStep
<1>1. CASE Poll
  BY <1>1, AgesType DEF Poll, RestStep
<1>2. CASE ConnectToServer
  BY <1>2, AgesType DEF ConnectToServer, RestStep
<1>3. CASE DisconnectFromServer
  BY <1>3, AgesType DEF DisconnectFromServer, RestStep
<1>4. CASE \E f \in Fds : SocketChanges(f)
  BY <1>4, AgesType DEF SocketChanges, RestStep
<1> QED BY <1>1, <1>2, <1>3, <1>4

-----------------------------------------------------------------------------
(* Every step.                                                             *)

Dispatched == \E s \in sources : Dispatch(s)

LEMMA NextCases ==
  ASSUME [Next]_vars
  PROVE  \/ UNCHANGED vars
         \/ /\ asserts' = asserts
            /\ \/ Poll \/ (\E f \in Fds : SocketChanges(f))
               \/ ConnectToServer \/ DisconnectFromServer
               \/ SendKeyToServer \/ SendRemoveToServer \/ IntervalTimeout \/ Dispatched
  BY DEF Next, Runs, Dead, Dispatched

LEMMA InitInv == Init => Inv
<1> SUFFICES ASSUME Init PROVE Inv
  BY DEF Init
<1>1. Links
  <2>1. 0 \in Ids /\ None \notin Fds
    BY IdsAre, SizesAssumption DEF Ids
  <2>2. sources = {} /\ nextId = 0 /\ Identified(sources, nextId)
    BY DEF Init, Identified
  <2> QED BY <2>1, <2>2 DEF Init, Links, States, SockStates, PendingMatches, Room
<1>2. KeysInv
  <2>1. KeysOf(buffered) = {} /\ InFlight = {} /\ Increasing(buffered) /\ Increasing(packets)
    BY KeysOfEmpty DEF Init, InFlight
  <2>2. hist \in History /\ hist.sent = {} /\ hist.gone = {} /\ hist.inOrder
    BY DEF Init, History
  <2>3. Ordered
    BY <2>1, <2>2 DEF Ordered, OnTheirWay
  <2>4. /\ buffered \in Seq(Entries) /\ Len(buffered) <= BufferSize
        /\ packets \in Seq(Entries) /\ Len(packets) <= BufferSize /\ entered \in 0..MaxKeys
    BY SizesAssumption DEF Init
  <2>5. NoSilentLoss
    BY DEF Init, NoSilentLoss
  <2> QED BY <2>2, <2>3, <2>4, <2>5 DEF KeysInv
<1>3. Rest
  BY DEF Init, Rest
<1> QED BY <1>1, <1>2, <1>3 DEF Inv

LEMMA LinksInv == Inv /\ [Next]_vars => Links'
<1> SUFFICES ASSUME Links, [Next]_vars PROVE Links'
  BY DEF Inv
<1>1. CASE UNCHANGED vars
  BY <1>1, LinksKept DEF vars, linkVars, Links
<1>2. CASE Poll
  <2>1. /\ \A s \in sources : Event(s.fd) \in {"none", "out", "error"}
        /\ Linked(state, clientFD, pendingConnect, pendingSend, sources, nextId, socks)
        /\ sources' = {[s EXCEPT !.ev = Event(s.fd)] : s \in sources}
        /\ UNCHANGED <<state, clientFD, pendingConnect, pendingSend, nextId, socks>>
    <3>1. \A f \in Fds : Event(f) \in {"none", "out", "error"}
      BY DEF Links, SockStates, Event
    <3> QED BY <1>2, <3>1, LinksAre DEF Poll, Links, Identified, Source
  <2>2. \A s \in sources :
          LET r == [s EXCEPT !.ev = Event(s.fd)]
          IN  r \in Source /\ r.id = s.id /\ r.slot = s.slot /\ r.fd = s.fd /\ r \in sources'
    BY <2>1 DEF Linked, Identified, Source
  <2>3. \A r \in sources' : \E s \in sources : r = [s EXCEPT !.ev = Event(s.fd)]
    BY <2>1
  <2>4. Identified(sources', nextId)
    <3>1. \A s \in sources : s.id < nextId /\ \A t \in sources : t.id = s.id => t = s
      BY <2>1 DEF Linked, Identified
    <3>2. ASSUME NEW r \in sources'
          PROVE  r \in Source /\ r.id < nextId /\ \A q \in sources' : q.id = r.id => q = r
      <4>1. PICK s \in sources : r = [s EXCEPT !.ev = Event(s.fd)]
        BY <2>3
      <4>2. r \in Source /\ r.id = s.id /\ r.id < nextId
        BY <2>2, <3>1, <4>1
      <4>3. ASSUME NEW q \in sources', q.id = r.id PROVE q = r
        <5>1. PICK t \in sources : q = [t EXCEPT !.ev = Event(t.fd)]
          BY <2>3
        <5>2. q.id = t.id
          BY <2>2, <5>1
        <5>3. t = s
          BY <3>1, <4>2, <4>3, <5>2
        <5> QED BY <4>1, <5>1, <5>3
      <4> QED BY <4>2, <4>3
    <3> QED BY <3>2 DEF Identified
  <2>5. \A k, i, g : Attends(sources, k, i, g) => Attends(sources', k, i, g)
    BY <2>2 DEF Attends
  <2> QED BY <2>1, <2>4, <2>5, LinksAre DEF Linked
<1>3. CASE \E f \in Fds : SocketChanges(f)
  <2>1. socks' \in [Fds -> SockStates] /\ UNCHANGED <<state, linkVars>>
    BY <1>3 DEF SocketChanges, Links, SockStates
  <2> QED BY <2>1, LinksKept
<1>4. CASE DisconnectFromServer
  BY <1>4, DisconnectLinks DEF DisconnectFromServer
<1>5. CASE Dispatched
  BY <1>5, DispatchStaleLinks, DispatchErrorLinks, DispatchConnectedLinks, DispatchSendLinks
     DEF Dispatched, Dispatch
<1> QED BY <1>1, <1>2, <1>3, <1>4, <1>5, NextCases, ConnectToServerLinks,
           SendKeyToServerLinks, SendRemoveToServerLinks, IntervalTimeoutLinks

LEMMA KeysStep == Inv /\ [Next]_vars => KeyStep
<1> SUFFICES ASSUME Inv, [Next]_vars PROVE KeyStep
  OBVIOUS
<1> KeysInv /\ Links
  BY DEF Inv
<1>1. ASSUME UNCHANGED <<state, buffered, packets, entered, hist, asserts>> PROVE KeyStep
  <2>1. InFlight' = InFlight
    BY <1>1 DEF InFlight, KeysOf
  <2> QED BY <1>1, <2>1, KeysKept
<1>2. CASE UNCHANGED vars
  BY <1>1, <1>2 DEF vars
<1>3. CASE asserts' = asserts /\ (Poll \/ \E f \in Fds : SocketChanges(f))
  BY <1>1, <1>3 DEF Poll, SocketChanges
<1>4. CASE asserts' = asserts /\ ConnectToServer
  <2>1. state = "DISCONNECTED" /\ state' \in {"CONNECTING", "CONNECTED"}
    BY <1>4 DEF ConnectToServer, Links, PendingMatches
  <2>2. InFlight = {} /\ InFlight' = {}
    BY <2>1 DEF InFlight
  <2> QED BY <1>4, <2>2, KeysKept DEF ConnectToServer
<1>5. CASE asserts' = asserts /\ DisconnectFromServer
  BY <1>5, BatchGivenUp DEF DisconnectFromServer, DisconnectInternal
<1>6. ASSUME asserts' = asserts, NEW s \in sources, Dispatch(s) PROVE KeyStep
  <2>1. CASE DispatchStale(s)
    BY <1>1, <1>6, <2>1 DEF DispatchStale
  <2>2. CASE DispatchConnected(s)
    <3>1. state = "CONNECTING" /\ state' = "CONNECTED"
      BY <2>2, DispatchConnectedLinks DEF DispatchConnected
    <3>2. InFlight = {} /\ InFlight' = {}
      BY <3>1 DEF InFlight
    <3> QED BY <1>6, <2>2, <3>2, KeysKept DEF DispatchConnected
  <2>3. CASE DispatchError(s)
    BY <1>6, <2>3, DispatchErrorKeys
  <2>4. CASE DispatchSend(s)
    BY <1>6, <2>4, DispatchSendKeys
  <2> QED BY <1>6, <2>1, <2>2, <2>3, <2>4 DEF Dispatch
<1> QED BY <1>2, <1>3, <1>4, <1>5, <1>6, NextCases, SendKeyToServerKeys,
           SendRemoveToServerKeys, IntervalTimeoutKeys DEF Dispatched

LEMMA RestInv == Inv /\ [Next]_vars => Rest'
<1> SUFFICES ASSUME Rest, [Next]_vars PROVE Rest'
  BY DEF Inv
<1>1. CASE UNCHANGED vars
  BY <1>1 DEF vars, Rest
<1>2. CASE RestStep /\ asserts' = asserts
  BY <1>2 DEF RestStep, Rest, Ages, Failures
<1> QED BY <1>1, <1>2, NextCases, OtherRest, SendKeyToServerRest, SendRemoveToServerRest,
           IntervalTimeoutRest, DispatchRest DEF Dispatched

LEMMA Invariance == Spec => []Inv
<1>1. Inv /\ [Next]_vars => Inv'
  BY LinksInv, KeysStep, RestInv DEF Inv, KeyStep
<1> QED BY InitInv, <1>1, PTL DEF Spec

\* Every variable of the client keeps its type.
THEOREM TypeCorrect == Spec => []TypeOK
  BY Invariance, InvariantMeans, PTL

\* State, socket and sources agree, whatever order sources, timer and events are
\* dispatched in.
THEOREM LinksCorrect == Spec => []PendingMatches
  BY Invariance, InvariantMeans, PTL

\* No key is lost without a reason.
THEOREM NothingLostSilently == Spec => []NoSilentLoss
  BY Invariance, InvariantMeans, PTL

-----------------------------------------------------------------------------
(* The socket in use.                                                      *)

\* Steps that end with another socket or none, or that close none.
LEMMA SocketKept ==
  ASSUME \/ clientFD' = None
         \/ clientFD' # clientFD
         \/ clientFD \in Fds => (socks[clientFD] # "closed" => socks'[clientFD] # "closed")
  PROVE  \A f \in {clientFD, clientFD'} \cap Fds :
           clientFD' = clientFD /\ socks[f] # "closed" => socks'[f] # "closed"
  BY IdsAre

LEMMA SendPacketsSocket ==
  ASSUME socks \in [Fds -> SockStates], NEW q, NEW a, NEW h, NEW kept, NEW n,
         NEW now \in {socks} \cup AfterSend(socks), SendPackets(q, a, h, now, kept, n)
  PROVE  \/ clientFD' = None
         \/ clientFD' # clientFD
         \/ clientFD \in Fds => (socks[clientFD] # "closed" => socks'[clientFD] # "closed")
<1>1. ASSUME clientFD \in Fds, NEW then \in AfterSend(now) PROVE then[clientFD] # "closed"
  BY <1>1 DEF AfterSend
<1>2. ASSUME clientFD \in Fds, socks[clientFD] # "closed" PROVE now[clientFD] # "closed"
  BY <1>2 DEF AfterSend
<1>3. CASE Fails("noTimer")
  BY <1>3 DEF Fails
<1>4. CASE clientFD' = None
  BY <1>4
<1>5. CASE socks' \in AfterSend(now)
  BY <1>1, <1>5
<1>6. CASE socks' = now
  BY <1>2, <1>6
<1> QED BY <1>3, <1>4, <1>5, <1>6 DEF SendPackets, DisconnectInternal

\* Only a source of an earlier connection closes the socket the client goes on
\* using.
THEOREM SocketCorrect == Spec => SocketClosedOnlyByStale
<1> DEFINE Kept == \/ clientFD' = None
                   \/ clientFD' # clientFD
                   \/ clientFD \in Fds => (socks[clientFD] # "closed" => socks'[clientFD] # "closed")
           Goal == \A f \in {clientFD, clientFD'} \cap Fds :
                     clientFD' = clientFD /\ socks[f] # "closed" /\ socks'[f] = "closed" =>
                       \E s \in sources \ sources' : s.fd = f /\ ~IsPending(s)
<1>1. ASSUME Inv, [Next]_vars PROVE Goal
  <2>1. CASE Kept
    BY <2>1, SocketKept
  <2>2. socks \in [Fds -> SockStates]
    BY <1>1 DEF Inv, Links
  <2>3. CASE UNCHANGED socks
    BY <2>1, <2>3
  <2>4. CASE \E f \in Fds : SocketChanges(f)
    <3>1. PICK f \in Fds : socks' \in {[socks EXCEPT ![f] = "open"], [socks EXCEPT ![f] = "broken"]}
      BY <2>4 DEF SocketChanges
    <3> QED BY <2>1, <2>2, <3>1
  <2>5. ASSUME NEW h, DisconnectInternal(h, socks) PROVE Goal
    BY <2>1, <2>5 DEF DisconnectInternal
  <2>6. ASSUME NEW q, NEW a, NEW h, NEW now \in {socks} \cup AfterSend(socks), NEW kept, NEW n,
               SendPackets(q, a, h, now, kept, n)
        PROVE  Goal
    BY <2>1, <2>2, <2>6, SendPacketsSocket
  <2>7. ASSUME NEW what, Fails(what) PROVE Goal
    BY <2>3, <2>7 DEF Fails
  <2> HIDE DEF Kept, Goal
  <2>8. CASE ConnectToServer
    <3>1. clientFD = None /\ clientFD' # None
      BY <2>8, IdsAre DEF ConnectToServer
    <3> QED BY <2>1, <3>1 DEF Kept
  <2>9. CASE SendKeyToServer
    BY <2>3, <2>6, <2>9 DEF SendKeyToServer
  <2>10. CASE SendRemoveToServer
    BY <2>6, <2>7, <2>10 DEF SendRemoveToServer
  <2>11. CASE IntervalTimeout
    BY <2>3, <2>5, <2>6, <2>7, <2>11 DEF IntervalTimeout
  <2>12. ASSUME NEW s \in sources, Dispatch(s) PROVE Goal
    <3>1. CASE DispatchStale(s)
      <4>1. /\ s \in sources \ sources' /\ ~IsPending(s) /\ s.fd \in Fds
            /\ socks' = [socks EXCEPT ![s.fd] = "closed"]
        BY <1>1, <3>1 DEF DispatchStale, Inv, Links, Identified, Source
      <4>2. ASSUME NEW f \in Fds, socks[f] # "closed", socks'[f] = "closed" PROVE f = s.fd
        BY <2>2, <4>1, <4>2
      <4> QED BY <4>1, <4>2 DEF Goal
    <3>2. CASE DispatchConnected(s)
      BY <2>3, <3>2 DEF DispatchConnected
    <3>3. CASE DispatchError(s)
      BY <2>5, <2>7, <3>3 DEF DispatchError
    <3>4. CASE DispatchSend(s)
      <4>1. CASE socks' \in AfterSend(socks)
        <5>1. clientFD \in Fds => socks'[clientFD] # "closed"
          BY <2>2, <4>1 DEF AfterSend
        <5> QED BY <2>1, <5>1 DEF Kept
      <4> QED BY <2>5, <2>6, <2>7, <3>4, <4>1 DEF DispatchSend
    <3> QED BY <2>12, <3>1, <3>2, <3>3, <3>4 DEF Dispatch
  <2> QED BY <1>1, <2>3, <2>4, <2>5, <2>8, <2>9, <2>10, <2>11, <2>12, NextCases
          DEF Dispatched, Poll, DisconnectFromServer, vars
<1>2. ASSUME Inv, [Next]_vars PROVE [Goal]_vars
  BY <1>1, <1>2
<1> QED BY <1>2, Invariance, PTL DEF Spec, SocketClosedOnlyByStale

-----------------------------------------------------------------------------
(* The channel.                                                            *)

\* Every set of keys has a greatest one.
LEMMA Greatest ==
  ASSUME NEW n \in Nat, NEW T \in SUBSET (1..n), T # {}
  PROVE  \E x \in T : \A y \in T : y <= x
<1> DEFINE D == {n - x : x \in T}
<1>1. D \subseteq Nat /\ D # {}
  <2>1. \A x \in T : x \in Nat /\ x <= n /\ n - x \in Nat /\ n - x \in D
    OBVIOUS
  <2>2. PICK x \in T : TRUE
    OBVIOUS
  <2> QED BY <2>1, <2>2
<1>2. PICK d \in D : \A e \in D : <<e, d>> \notin OpToRel(<, Nat)
  BY <1>1, NatLessThanWellFounded, WFMin
<1>3. \A e \in D : ~(e < d)
  BY <1>1, <1>2 DEF OpToRel
<1>4. PICK x \in T : d = n - x
  OBVIOUS
<1>5. ASSUME NEW y \in T PROVE y <= x
  <2>1. n - y \in D /\ ~(n - y < n - x)
    BY <1>3, <1>4
  <2> QED BY <2>1
<1> QED BY <1>5

LEMMA NewestIs ==
  ASSUME NEW n \in Nat, NEW T \in SUBSET (1..n)
  PROVE  /\ Newest(T) \in Nat
         /\ T = {} => Newest(T) = 0
         /\ T # {} => Newest(T) \in T
         /\ \A k \in T : k <= Newest(T)
<1>1. CASE T = {}
  BY <1>1 DEF Newest
<1>2. CASE T # {}
  <2>1. \E x \in T : \A y \in T : y <= x
    BY <1>2, Greatest
  <2>2. Newest(T) \in T /\ \A k \in T : k <= Newest(T)
    BY <1>2, <2>1, Zenon DEF Newest
  <2>3. T \subseteq Nat
    OBVIOUS
  <2> QED BY <1>2, <2>2, <2>3
<1> QED BY <1>1, <1>2

\* Keys that are sent or given up leave the channel, and no key overtakes another.
LEMMA ChannelStep ==
  ASSUME Inv, [Next]_vars
  PROVE  [Channel!Next]_Channel!vars
<1> DEFINE old == (1..entered) \ (hist.sent \cup hist.gone)
           new == (1..entered') \ (hist'.sent \cup hist'.gone)
<1>1. asserts' = asserts
  BY NextCases DEF vars
<1>2. CASE ~asserts
  BY <1>1, <1>2 DEF Channel!vars
<1>3. CASE asserts
  <2>1. /\ KeysInv /\ KeysInv' /\ Grows(hist', entered') /\ Ordered /\ Ordered'
        /\ entered \in Nat /\ entered' \in Nat
    BY <1>1, <1>3, KeysStep, SizesAssumption DEF Inv, KeyStep, KeysInv
  <2>2. old = OnTheirWay
    <3>1. \A k \in OnTheirWay : k \notin hist.sent
      <4>1. OnTheirWay \subseteq Nat
        BY <2>1 DEF Ordered
      <4> QED BY <2>1, <4>1 DEF Ordered
    <3> QED BY <2>1, <3>1 DEF Ordered, KeysInv, NoSilentLoss, OnTheirWay
  <2>3. new = OnTheirWay'
    <3>1. \A k \in OnTheirWay' : k \notin hist'.sent
      <4>1. OnTheirWay' \subseteq Nat
        BY <2>1 DEF Ordered
      <4> QED BY <2>1, <4>1 DEF Ordered
    <3> QED BY <2>1, <3>1 DEF Ordered, KeysInv, NoSilentLoss, OnTheirWay
  <2> DEFINE S == hist.sent
             R == hist'.sent
             all == old \cup (entered + 1)..entered'
             m == Newest(S)
             k == Newest(R)
  <2>4. /\ S \in SUBSET (1..entered) /\ R \in SUBSET (1..entered')
        /\ S \subseteq R /\ R \subseteq S \cup all /\ entered <= entered'
    BY <2>1, <2>2 DEF Ordered, Grows
  <2>5. /\ \A j \in new : \A i \in R : i < j
        /\ new \subseteq all
    <3>1. hist.gone \subseteq hist'.gone
      BY <2>1 DEF Grows
    <3> QED BY <2>1, <2>3, <2>4, <3>1 DEF Ordered
  <2>6. /\ m \in Nat /\ k \in Nat
        /\ S = {} => m = 0
        /\ S # {} => m \in S
        /\ \A i \in S : i <= m
        /\ R = {} => k = 0
        /\ R # {} => k \in R
        /\ \A i \in R : i <= k
    BY <2>1, <2>4, NewestIs
  <2>7. all \subseteq Nat /\ S \subseteq Nat /\ R \subseteq Nat
    BY <2>1, <2>4
  <2> HIDE DEF old, new, S, R, m, k
  <2>8. k \in {m} \cup all
    <3>1. CASE R = {}
      BY <2>4, <2>6, <3>1
    <3>2. CASE R # {} /\ k \in S
      <4>1. m \in S /\ m \in R /\ k <= m /\ m <= k
        BY <2>4, <2>6, <3>2
      <4> QED BY <2>6, <4>1
    <3>3. CASE R # {} /\ k \notin S
      BY <2>4, <2>6, <3>3
    <3> QED BY <3>1, <3>2, <3>3
  <2>9. k >= m
    <3>1. CASE S = {}
      BY <2>6, <3>1
    <3>2. CASE S # {}
      <4>1. m \in R
        BY <2>4, <2>6, <3>2
      <4> QED BY <2>6, <4>1
    <3> QED BY <3>1, <3>2
  <2>10. new \subseteq {j \in all : j > k}
    <3>1. ASSUME NEW j \in new PROVE j > k
      <4>1. j \in all /\ j \in Nat
        BY <2>5, <2>7
      <4>2. CASE R = {}
        <5>1. j > 0
          BY <2>1, <3>1 DEF new
        <5> QED BY <2>6, <4>2, <5>1
      <4>3. CASE R # {}
        BY <2>5, <2>6, <2>7, <4>1, <4>3
      <4> QED BY <4>2, <4>3
    <3> QED BY <2>5, <3>1
  <2>11. hist.inOrder /\ hist'.inOrder
    BY <2>1 DEF Ordered
  <2> QED BY <1>1, <1>3, <2>4, <2>8, <2>9, <2>10, <2>11
          DEF Channel!Next, old, new, S, R, m, k
<1> QED BY <1>2, <1>3

\* The client keeps its promise to the window.
THEOREM ClientKeepsChannel == Spec => KeepsChannel
<1>1. Init => Channel!Init
  BY DEF Init, Channel!Init, Newest
<1> QED BY <1>1, ChannelStep, Invariance, PTL DEF Spec, KeepsChannel, Channel!Spec
=============================================================================
