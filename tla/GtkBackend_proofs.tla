-------------------------- MODULE GtkBackend_proofs --------------------------
(***************************************************************************)
(* Sources, places and connections of the bluetooth server stay in         *)
(* agreement, it keeps the promise DeviceRegistry states, and it loses no  *)
(* client's request for the removal of its device but with the connection, *)
(* for any number of clients, connections and packets.                     *)
(***************************************************************************)
EXTENDS GtkBackend, SequenceTheorems, WellFoundedInduction, TLAPS

Conns == [st : {"free", "queued", "accepted"}, addr : Addrs \cup {None},
          up : BOOLEAN, hup : BOOLEAN, inbox : Seq(Seq(Entries))]
Sources == [fd : Fds, id : Nat \ {0}, ev : {"none", "in", "error"}]

\* The connections that wait are the ones in the listening socket's queue, each
\* once, and a connection is a client's until it is closed.
Queue ==
  /\ \A n \in 1..Len(backlog) : conns[backlog[n]].st = "queued"
  /\ \A m, n \in 1..Len(backlog) : backlog[m] = backlog[n] => m = n
  /\ \A f \in Fds : conns[f].st # "free" => conns[f].addr \in Addrs

\* No two sources read the same connection, and the record that is handled was
\* read by one of them.
Readers ==
  /\ \A r, s \in sources : r.fd = s.fd => r = s
  /\ \A s \in sources : conns[s.fd].st = "accepted"
  /\ current # None => \E s \in sources : s.fd = current.fd /\ s.id = current.id

\* A place that refers to a connection has a source.
Referred ==
  ~deleted => \A i \in Places : inputSources[i] \in Fds => \E s \in sources : s.id = i

\* A source is dispatched only when there is something to read or an error.
Unread == \A s \in sources : s.ev = "in" => conns[s.fd].inbox # <<>>

\* The inductive invariant.
Agree == OneSource /\ NoLeak /\ Queue /\ Readers /\ Referred /\ Unread
Inv == TypeOK /\ Agree

-----------------------------------------------------------------------------
(* Sequences.                                                              *)

LEMMA PutType ==
  ASSUME NEW S, NEW q \in Seq(S), NEW x \in S, NEW i \in 1..(Len(q) + 1)
  PROVE  /\ Put(q, i, x) \in Seq(S)
         /\ Len(Put(q, i, x)) = IF i > Len(q) THEN Len(q) + 1 ELSE Len(q)
         /\ Put(q, i, x)[i] = x
         /\ \A j \in 1..Len(q) : j # i => Put(q, i, x)[j] = q[j]
<1>1. CASE i > Len(q)
  BY <1>1 DEF Put
<1>2. CASE ~(i > Len(q))
  BY <1>2 DEF Put
<1> QED BY <1>1, <1>2

LEMMA UpdateType ==
  ASSUME NEW S, NEW q \in Seq(S), NEW x \in S, NEW i
  PROVE  /\ [q EXCEPT ![i] = x] \in Seq(S)
         /\ Len([q EXCEPT ![i] = x]) = Len(q)
         /\ i \in 1..Len(q) => [q EXCEPT ![i] = x][i] = x
         /\ \A j \in 1..Len(q) : j # i => [q EXCEPT ![i] = x][j] = q[j]
<1> DEFINE n == Len(q)
           r == [q EXCEPT ![i] = x]
<1>1. n \in Nat /\ q \in [1..n -> S]
  OBVIOUS
<1> HIDE DEF n
<1>2. r \in [1..n -> S]
  BY <1>1
<1>3. r \in Seq(S) /\ Len(r) = n
  BY <1>1, <1>2
<1>4. /\ i \in 1..n => r[i] = x
      /\ \A j \in 1..n : j # i => r[j] = q[j]
  BY <1>1
<1> QED BY <1>3, <1>4 DEF n

LEMMA TakenOut ==
  ASSUME NEW S, NEW q \in Seq(S), NEW i \in 1..Len(q)
  PROVE  LET r == SubSeq(q, 1, i - 1) \o SubSeq(q, i + 1, Len(q))
         IN  /\ r \in Seq(S) /\ Len(r) = Len(q) - 1
             /\ \A j \in 1..(Len(q) - 1) : r[j] = IF j < i THEN q[j] ELSE q[j + 1]
<1> DEFINE front == SubSeq(q, 1, i - 1)
           rest == SubSeq(q, i + 1, Len(q))
           r == front \o rest
<1>1. Len(q) \in Nat
  OBVIOUS
<1>2. /\ front \in Seq(S) /\ Len(front) = i - 1
      /\ \A j \in 1..(i - 1) : front[j] = q[j]
  BY <1>1, SubSeqProperties
<1>3. /\ rest \in Seq(S) /\ Len(rest) = Len(q) - i
      /\ \A j \in 1..(Len(q) - i) : rest[j] = q[i + j]
  BY <1>1, SubSeqProperties
<1>4. r = front \o rest
  OBVIOUS
<1> HIDE DEF front, rest, r
<1>5. LET t == front \o rest
      IN  /\ t \in Seq(S)
          /\ Len(t) = Len(front) + Len(rest)
          /\ \A j \in 1..(Len(front) + Len(rest)) :
               t[j] = IF j <= Len(front) THEN front[j] ELSE rest[j - Len(front)]
  BY <1>2, <1>3, ConcatProperties, Zenon
<1>6. /\ r \in Seq(S)
      /\ Len(r) = Len(front) + Len(rest)
      /\ \A j \in 1..(Len(front) + Len(rest)) :
           r[j] = IF j <= Len(front) THEN front[j] ELSE rest[j - Len(front)]
  BY <1>4, <1>5
<1>7. Len(r) = Len(q) - 1 /\ Len(front) + Len(rest) = Len(q) - 1
  BY <1>1, <1>2, <1>3, <1>6
<1>8. ASSUME NEW j \in 1..(Len(q) - 1) PROVE r[j] = IF j < i THEN q[j] ELSE q[j + 1]
  <2>1. CASE j < i
    <3>1. j \in 1..(i - 1) /\ j <= Len(front) /\ j \in 1..(Len(front) + Len(rest))
      BY <1>1, <1>2, <1>7, <2>1
    <3> QED BY <1>2, <1>6, <2>1, <3>1
  <2>2. CASE j >= i
    <3>1. r[j] = rest[j - (i - 1)] /\ j - (i - 1) \in 1..(Len(q) - i)
      BY <1>1, <1>2, <1>3, <1>6, <1>7, <2>2, SMTT(30)
    <3>2. rest[j - (i - 1)] = q[i + (j - (i - 1))] /\ i + (j - (i - 1)) = j + 1
      BY <1>1, <1>3, <3>1
    <3> QED BY <1>1, <2>2, <3>1, <3>2
  <2> QED BY <1>1, <2>1, <2>2
<1> QED BY <1>6, <1>7, <1>8, Zenon DEF r, front, rest

-----------------------------------------------------------------------------
(* The clients and the network.                                            *)

LEMMA NoConnType == NoConn \in Conns /\ NoConn.st = "free"
<1>1. <<>> \in Seq(Seq(Entries))
  OBVIOUS
<1> QED BY <1>1 DEF NoConn, Conns

\* What happens outside the server changes no accepted connection's state.
LEMMA NetworkInv ==
  ASSUME Inv, TypeOK', Queue',
         UNCHANGED <<addrs, inputSources, sources, current, deleted>>,
         \A f \in Fds : /\ conns'[f].st = "accepted" <=> conns[f].st = "accepted"
                        /\ conns[f].st = "accepted" =>
                             /\ conns'[f].addr = conns[f].addr
                             /\ conns[f].inbox # <<>> => conns'[f].inbox # <<>>
  PROVE  Inv'
<1>1. \A s \in sources : s.fd \in Fds
  BY DEF Inv, TypeOK
<1>2. OneSource'
  BY <1>1 DEF Inv, Agree, OneSource, Readers, Places
<1>3. NoLeak' /\ Readers'
  BY <1>1 DEF Inv, Agree, NoLeak, Readers
<1>4. Referred' /\ Unread'
  BY <1>1 DEF Inv, Agree, Referred, Places, Readers, Unread
<1> QED BY <1>2, <1>3, <1>4 DEF Inv, Agree

LEMMA ClientConnectsInv ==
  ASSUME Inv, NEW f \in Fds, NEW a \in Addrs, ClientConnects(f, a)
  PROVE  Inv'
<1>1. /\ conns[f].st = "free"
      /\ conns' = [conns EXCEPT ![f] = [NoConn EXCEPT !.st = "queued", !.addr = a, !.up = TRUE]]
      /\ backlog' = Append(backlog, f)
      /\ UNCHANGED <<addrs, inputSources, sources, acceptReady, current, blocked,
                     devices, heard, deleted, failed, sent>>
  BY DEF ClientConnects, server, manager
<1>2. /\ conns' \in [Fds -> Conns]
      /\ conns'[f].st = "queued" /\ conns'[f].addr = a
      /\ \A g \in Fds : g # f => conns'[g] = conns[g]
  <2> DEFINE new == [NoConn EXCEPT !.st = "queued", !.addr = a, !.up = TRUE]
  <2>1. new \in Conns /\ new.st = "queued" /\ new.addr = a
    BY NoConnType DEF Conns
  <2>2. conns \in [Fds -> Conns]
    BY DEF Inv, TypeOK, Conns
  <2>3. conns' = [conns EXCEPT ![f] = new]
    BY <1>1
  <2> HIDE DEF new
  <2> QED BY <2>1, <2>2, <2>3
<1>3. /\ backlog' \in Seq(Fds) /\ Len(backlog) \in Nat /\ Len(backlog') = Len(backlog) + 1
      /\ \A n \in 1..Len(backlog) : backlog'[n] = backlog[n] /\ backlog[n] \in Fds
      /\ backlog'[Len(backlog) + 1] = f
  BY <1>1 DEF Inv, TypeOK
<1>4. TypeOK'
  BY <1>1, <1>2, <1>3 DEF Inv, TypeOK, Conns
<1>5. Queue'
  <2>1. \A n \in 1..Len(backlog) : backlog[n] # f
    BY <1>1 DEF Inv, Agree, Queue
  <2>2. ASSUME NEW n \in 1..Len(backlog') PROVE conns'[backlog'[n]].st = "queued"
    BY <1>2, <1>3, <2>1 DEF Inv, Agree, Queue
  <2>3. \A m, n \in 1..Len(backlog') : backlog'[m] = backlog'[n] => m = n
    BY <1>3, <2>1 DEF Inv, Agree, Queue
  <2>4. \A g \in Fds : conns'[g].st # "free" => conns'[g].addr \in Addrs
    BY <1>2 DEF Inv, Agree, Queue
  <2> QED BY <2>2, <2>3, <2>4 DEF Queue
<1> QED BY <1>1, <1>2, <1>4, <1>5, NetworkInv

\* Only a field changes that says what the client or the kernel knows, or what
\* waits to be read.
LEMMA FieldInv ==
  ASSUME Inv, UNCHANGED <<server, manager, backlog>>, sent' \in {0} \cup Keys,
         conns' \in [Fds -> Conns],
         \A f \in Fds : /\ conns'[f].st = conns[f].st /\ conns'[f].addr = conns[f].addr
                        /\ conns[f].inbox # <<>> => conns'[f].inbox # <<>>
  PROVE  Inv'
<1>1. TypeOK'
  BY DEF Inv, TypeOK, Conns, server, manager
<1>2. \A n \in 1..Len(backlog) : backlog[n] \in Fds
  BY DEF Inv, TypeOK
<1>3. Queue'
  BY <1>2 DEF Inv, Agree, Queue
<1> QED BY <1>1, <1>3, NetworkInv DEF server, manager

\* The keys of a record are in order.
Rising(r) == \A i, j \in 1..Len(r) : i < j /\ {r[i], r[j]} \subseteq Keys => r[i] < r[j]

\* A record has the next keys, in order, and no others.
LEMMA RecordGood ==
  ASSUME sent \in {0} \cup Keys, NEW n \in 0..(MaxKeys - sent), NEW b \in Batches
  PROVE  /\ sent \in Nat /\ sent + n \in Nat /\ sent <= sent + n /\ sent + n \in {0} \cup Keys
         /\ Record(n, b) \in Seq(Entries) /\ Rising(Record(n, b))
         /\ \A k \in Keys : Contains(Record(n, b), k) => sent < k /\ k <= sent + n
<1> DEFINE S == {Noop, Remove, BadMagic, BadCmd, Short}
           ks == [i \in 1..n |-> sent + i]
           r == Record(n, b)
<1>1. MaxKeys \in Nat /\ sent \in Nat /\ n \in Nat /\ sent + n <= MaxKeys
  BY BackendAssumption DEF Keys
<1>2. /\ sent + n \in Nat /\ sent <= sent + n /\ sent + n \in {0} \cup Keys
      /\ \A i \in 1..n : sent + i \in Keys /\ sent < sent + i /\ sent + i <= sent + n
  BY <1>1 DEF Keys
<1>3. ks \in Seq(Entries) /\ Len(ks) = n /\ \A i \in 1..n : ks[i] = sent + i
  BY <1>1, <1>2 DEF Entries
<1>4. b \in Seq(S) /\ S \subseteq Entries /\ Keys \cap S = {}
  BY BackendAssumption DEF Entries
<1> HIDE DEF S
<1>5. /\ b \in Seq(Entries) /\ Len(b) \in Nat
      /\ \A i \in 1..Len(b) : b[i] \notin Keys
  BY <1>4
<1> HIDE DEF ks
<1>6. /\ r \in Seq(Entries) /\ Len(r) = n + Len(b)
      /\ \A i \in 1..(n + Len(b)) : r[i] = IF i <= n THEN ks[i] ELSE b[i - n]
  BY <1>1, <1>3, <1>5 DEF Record, ks
<1> HIDE DEF r
<1>7. ASSUME NEW i \in 1..Len(r), r[i] \in Keys
      PROVE  i \in 1..n /\ r[i] = sent + i
  <2>1. i \in 1..(n + Len(b))
    BY <1>6
  <2>2. CASE i <= n
    BY <1>1, <1>3, <1>6, <2>1, <2>2
  <2>3. CASE i > n
    <3>1. i - n \in 1..Len(b) /\ ~(i <= n)
      BY <1>1, <1>5, <2>1, <2>3
    <3> QED BY <1>5, <1>6, <1>7, <2>1, <3>1
  <2> QED BY <1>1, <2>1, <2>2, <2>3
<1>8. Rising(r)
  <2> SUFFICES ASSUME NEW i \in 1..Len(r), NEW j \in 1..Len(r), i < j, r[i] \in Keys, r[j] \in Keys
               PROVE  r[i] < r[j]
    BY DEF Rising
  <2> QED BY <1>1, <1>7
<1>9. ASSUME NEW k \in Keys, Contains(r, k) PROVE sent < k /\ k <= sent + n
  BY <1>2, <1>7, <1>9 DEF Contains
<1> QED BY <1>1, <1>2, <1>6, <1>8, <1>9 DEF r

\* What a client sends is a new record, with keys newer than all before.
LEMMA Sent ==
  ASSUME Inv, NEW f \in Fds, ClientSends(f)
  PROVE  \E b \in Seq(Entries) :
           /\ conns' = [conns EXCEPT ![f].inbox = Append(@, b)]
           /\ sent' \in {0} \cup Keys /\ sent' \in Nat /\ sent <= sent' /\ Rising(b)
           /\ \A k \in Keys : Contains(b, k) => sent < k /\ k <= sent'
<1>1. sent \in {0} \cup Keys
  BY DEF Inv, TypeOK
<1>2. PICK n \in 0..(MaxKeys - sent), b \in Batches :
        sent' = sent + n /\ conns' = [conns EXCEPT ![f].inbox = Append(@, Record(n, b))]
  BY DEF ClientSends
<1> DEFINE r == Record(n, b)
<1>3. /\ sent + n \in Nat /\ sent <= sent + n /\ sent + n \in {0} \cup Keys
      /\ r \in Seq(Entries) /\ Rising(r)
      /\ \A k \in Keys : Contains(r, k) => sent < k /\ k <= sent + n
  BY <1>1, RecordGood
<1>4. conns' = [conns EXCEPT ![f].inbox = Append(@, r)]
  BY <1>2
<1> HIDE DEF r
<1> QED BY <1>2, <1>3, <1>4

LEMMA ClientSendsInv ==
  ASSUME Inv, NEW f \in Fds, ClientSends(f)
  PROVE  Inv'
<1>1. PICK b \in Seq(Entries) : /\ conns' = [conns EXCEPT ![f].inbox = Append(@, b)]
                                /\ sent' \in {0} \cup Keys
  BY Sent
<1>2. conns[f] \in Conns /\ conns \in [Fds -> Conns]
  BY DEF Inv, TypeOK, Conns
<1>3. Append(conns[f].inbox, b) \in Seq(Seq(Entries))
  BY <1>2 DEF Conns
<1>4. /\ conns' \in [Fds -> Conns]
      /\ \A g \in Fds : /\ conns'[g].st = conns[g].st /\ conns'[g].addr = conns[g].addr
                         /\ conns[g].inbox # <<>> => conns'[g].inbox # <<>>
  <2>1. Append(conns[f].inbox, b) # <<>>
    <3>1. conns[f].inbox \in Seq(Seq(Entries))
      BY <1>2 DEF Conns
    <3>2. Len(Append(conns[f].inbox, b)) = Len(conns[f].inbox) + 1 /\ Len(conns[f].inbox) \in Nat
      BY <3>1
    <3>3. Len(Append(conns[f].inbox, b)) # 0 /\ Len(<<>>) = 0
      BY <3>2
    <3> QED BY <3>3, Zenon
  <2> QED BY <1>1, <1>2, <1>3, <2>1 DEF Conns
<1> QED BY <1>1, <1>4, FieldInv DEF ClientSends

LEMMA ClientGoesInv ==
  ASSUME Inv, NEW f \in Fds, ClientGoes(f)
  PROVE  Inv'
<1>1. conns' = [conns EXCEPT ![f].up = FALSE] /\ UNCHANGED <<server, manager, backlog, sent>>
  BY DEF ClientGoes
<1>2. /\ conns' \in [Fds -> Conns]
      /\ \A g \in Fds : /\ conns'[g].st = conns[g].st /\ conns'[g].addr = conns[g].addr
                         /\ conns'[g].inbox = conns[g].inbox
  <2>1. conns \in [Fds -> Conns]
    BY DEF Inv, TypeOK, Conns
  <2>2. /\ conns'[f] = [conns[f] EXCEPT !.up = FALSE]
        /\ \A g \in Fds : g # f => conns'[g] = conns[g]
    BY <1>1, <2>1
  <2>3. conns[f] \in Conns
    BY <2>1
  <2>4. [conns[f] EXCEPT !.up = FALSE] \in Conns
    BY <2>3 DEF Conns
  <2>5. /\ conns'[f].st = conns[f].st /\ conns'[f].addr = conns[f].addr
        /\ conns'[f].inbox = conns[f].inbox
    BY <2>2, <2>3 DEF Conns
  <2> QED BY <1>1, <2>1, <2>2, <2>4, <2>5
<1>3. sent' \in {0} \cup Keys
  BY <1>1 DEF Inv, TypeOK
<1> QED BY <1>1, <1>2, <1>3, FieldInv

LEMMA HangUpInv ==
  ASSUME Inv, NEW f \in Fds, HangUp(f)
  PROVE  Inv'
<1>1. CASE conns[f].st = "queued"
  <2>1. PICK i \in 1..Len(backlog) :
          /\ backlog[i] = f
          /\ backlog' = SubSeq(backlog, 1, i - 1) \o SubSeq(backlog, i + 1, Len(backlog))
    BY <1>1 DEF HangUp
  <2>2. /\ conns' = [conns EXCEPT ![f] = NoConn]
        /\ UNCHANGED <<addrs, inputSources, sources, acceptReady, current, blocked,
                       devices, heard, deleted, failed, sent>>
    BY <1>1 DEF HangUp, server, manager
  <2>3. /\ backlog' \in Seq(Fds) /\ Len(backlog') = Len(backlog) - 1 /\ Len(backlog) \in Nat
        /\ \A j \in 1..(Len(backlog) - 1) :
             backlog'[j] = IF j < i THEN backlog[j] ELSE backlog[j + 1]
    <3>1. backlog \in Seq(Fds)
      BY DEF Inv, TypeOK
    <3>2. Len(backlog) \in Nat
      BY <3>1
    <3>3. LET r == SubSeq(backlog, 1, i - 1) \o SubSeq(backlog, i + 1, Len(backlog))
          IN  /\ r \in Seq(Fds) /\ Len(r) = Len(backlog) - 1
              /\ \A j \in 1..(Len(backlog) - 1) :
                   r[j] = IF j < i THEN backlog[j] ELSE backlog[j + 1]
      BY <3>1, TakenOut, Zenon
    <3> QED BY <2>1, <3>2, <3>3, Zenon
  <2>4. /\ conns' \in [Fds -> Conns]
        /\ conns'[f] = NoConn
        /\ \A g \in Fds : g # f => conns'[g] = conns[g]
    BY <2>2 DEF Inv, TypeOK, Conns, NoConn
  <2>5. TypeOK'
    BY <2>2, <2>3, <2>4 DEF Inv, TypeOK, Conns
  <2>6. Queue'
    <3>1. ASSUME NEW j \in 1..Len(backlog')
          PROVE  /\ backlog'[j] \in Fds /\ backlog'[j] # f
                 /\ conns[backlog'[j]].st = "queued"
      <4> DEFINE n == IF j < i THEN j ELSE j + 1
      <4>1. n \in 1..Len(backlog) /\ n # i /\ backlog'[j] = backlog[n]
        BY <2>3
      <4> HIDE DEF n
      <4>2. backlog[n] \in Fds
        BY <4>1 DEF Inv, TypeOK
      <4>3. backlog[n] # f /\ conns[backlog[n]].st = "queued"
        BY <2>1, <4>1 DEF Inv, Agree, Queue
      <4> QED BY <4>1, <4>2, <4>3
    <3>2. \A j \in 1..Len(backlog') : conns'[backlog'[j]].st = "queued"
      BY <2>4, <3>1
    <3>3. \A m, n \in 1..Len(backlog') : backlog'[m] = backlog'[n] => m = n
      <4> DEFINE place(j) == IF j < i THEN j ELSE j + 1
      <4>1. ASSUME NEW j \in 1..Len(backlog')
            PROVE  place(j) \in 1..Len(backlog) /\ backlog'[j] = backlog[place(j)]
        BY <2>3
      <4>2. ASSUME NEW m \in 1..Len(backlog'), NEW n \in 1..Len(backlog'), place(m) = place(n)
            PROVE  m = n
        BY <2>3, <4>2
      <4> HIDE DEF place
      <4> QED BY <4>1, <4>2 DEF Inv, Agree, Queue
    <3>4. \A g \in Fds : conns'[g].st # "free" => conns'[g].addr \in Addrs
      BY <2>4 DEF Inv, Agree, Queue, NoConn
    <3> QED BY <3>2, <3>3, <3>4 DEF Queue
  <2>7. conns'[f].st = "free"
    BY <2>4 DEF NoConn
  <2> QED BY <1>1, <2>2, <2>4, <2>5, <2>6, <2>7, NetworkInv
<1>2. CASE conns[f].st # "queued"
  <2>1. conns' = [conns EXCEPT ![f].hup = TRUE] /\ UNCHANGED <<server, manager, backlog, sent>>
    BY <1>2 DEF HangUp
  <2>2. /\ conns' \in [Fds -> Conns]
        /\ \A g \in Fds : /\ conns'[g].st = conns[g].st /\ conns'[g].addr = conns[g].addr
                           /\ conns'[g].inbox = conns[g].inbox
    <3>1. conns \in [Fds -> Conns]
      BY DEF Inv, TypeOK, Conns
    <3>2. /\ conns'[f] = [conns[f] EXCEPT !.hup = TRUE]
          /\ \A g \in Fds : g # f => conns'[g] = conns[g]
      BY <2>1, <3>1
    <3>3. conns[f] \in Conns
      BY <3>1
    <3>4. [conns[f] EXCEPT !.hup = TRUE] \in Conns
      BY <3>3 DEF Conns
    <3>5. /\ conns'[f].st = conns[f].st /\ conns'[f].addr = conns[f].addr
          /\ conns'[f].inbox = conns[f].inbox
      BY <3>2, <3>3 DEF Conns
    <3> QED BY <2>1, <3>1, <3>2, <3>4, <3>5
  <2>3. sent' \in {0} \cup Keys
    BY <2>1 DEF Inv, TypeOK
  <2> QED BY <2>1, <2>2, <2>3, FieldInv
<1> QED BY <1>1, <1>2

-----------------------------------------------------------------------------
(* Accepting.                                                              *)

LEMMA Least ==
  ASSUME NEW T \in SUBSET Nat, T # {}
  PROVE  \E x \in T : \A y \in T : x <= y
<1>1. PICK x \in T : \A y \in T : <<y, x>> \notin OpToRel(<, Nat)
  BY NatLessThanWellFounded, WFMin
<1>2. \A y \in T : ~(y < x)
  BY <1>1 DEF OpToRel
<1> QED BY <1>2

\* The place an address has, if it has one.
LEMMA BackendIdType ==
  ASSUME Inv, NEW a
  PROVE  /\ BackendId(a) \in {0} \cup Places
         /\ Known(a) <=> \E i \in Places : addrs[i] = a
         /\ Known(a) => /\ BackendId(a) \in Places /\ addrs[BackendId(a)] = a
                        /\ \A j \in 1..(BackendId(a) - 1) : addrs[j] # a
<1> DEFINE T == {i \in Places : addrs[i] = a}
<1>1. Len(addrs) \in Nat
  BY DEF Inv, TypeOK
<1>2. CASE T = {}
  BY <1>1, <1>2 DEF BackendId, Known, Places
<1>3. CASE T # {}
  <2>1. T \subseteq Nat
    BY <1>1 DEF Places
  <2>2. PICK i \in T : \A j \in T : i <= j
    BY <1>3, <2>1, Least
  <2>3. \A j \in 1..(i - 1) : addrs[j] # a
    BY <1>1, <2>2 DEF Places
  <2>4. \E k \in 1..Len(addrs) : addrs[k] = a /\ \A j \in 1..(k - 1) : addrs[j] # a
    BY <2>2, <2>3 DEF Places
  <2>5. /\ BackendId(a) \in 1..Len(addrs) /\ addrs[BackendId(a)] = a
        /\ \A j \in 1..(BackendId(a) - 1) : addrs[j] # a
    BY <2>4 DEF BackendId
  <2> QED BY <1>1, <2>5 DEF Known, Places
<1> QED BY <1>2, <1>3

\* The new connection's source reads for the client's own place, or for one that
\* is free; the source that read for it before is gone with its connection.
LEMMA AcceptClientInv ==
  ASSUME Inv, AcceptClient
  PROVE  Inv'
<1> DEFINE f == Head(backlog)
           a == conns[f].addr
           i == PlaceFor(a)
           closed == {s.fd : s \in Replaced(i)}
<1>1. /\ ~deleted /\ current = None /\ backlog # <<>> /\ backlog' = Tail(backlog)
      /\ conns' = [g \in Fds |-> CASE g = f                 -> [conns[g] EXCEPT !.st = "accepted"]
                                   [] g # f /\ g \in closed -> NoConn
                                   [] OTHER                 -> conns[g]]
      /\ sources' = (sources \ Replaced(i)) \cup {[fd |-> f, id |-> i, ev |-> "none"]}
      /\ addrs' = Put(addrs, i, a) /\ inputSources' = Put(inputSources, i, f)
      /\ devices' = (IF Known(a) THEN devices ELSE Put(devices, i, a))
      /\ acceptReady' = FALSE /\ blocked' = FALSE
      /\ UNCHANGED <<current, heard, deleted, failed, sent>>
  BY DEF AcceptClient, SourcesPut, Attached
<1>2. /\ f \in Fds /\ conns[f].st = "queued" /\ a \in Addrs /\ a # None
      /\ Len(backlog) \in Nat \ {0}
      /\ Len(backlog') = Len(backlog) - 1 /\ backlog' \in Seq(Fds)
      /\ \A n \in 1..Len(backlog') : backlog'[n] = backlog[n + 1] /\ backlog[n + 1] # f
  <2>1. /\ backlog \in Seq(Fds) /\ Len(backlog) \in Nat \ {0} /\ f = backlog[1] /\ f \in Fds
        /\ Len(backlog') = Len(backlog) - 1 /\ backlog' \in Seq(Fds)
        /\ \A n \in 1..Len(backlog') : backlog'[n] = backlog[n + 1]
    BY <1>1 DEF Inv, TypeOK
  <2>2. /\ conns[f].st = "queued"
        /\ \A n \in 1..Len(backlog') : backlog[n + 1] # f
    BY <2>1 DEF Inv, Agree, Queue
  <2> QED BY <2>1, <2>2, BackendAssumption DEF Inv, Agree, Queue
<1>3. Len(addrs) \in Nat /\ Len(inputSources) = Len(addrs)
  BY DEF Inv, TypeOK
<1> HIDE DEF f, a
<1>4. /\ i \in 1..(Len(addrs) + 1)
      /\ i \in Places => addrs[i] \in {a, None}
      /\ ~Known(a) => i = Len(addrs) + 1 \/ addrs[i] = None
  BY <1>3, BackendIdType DEF PlaceFor, Places
<1> HIDE DEF i
<1>5. /\ addrs' \in Seq(Addrs \cup {None})
      /\ Len(addrs') = IF i > Len(addrs) THEN Len(addrs) + 1 ELSE Len(addrs)
      /\ addrs'[i] = a /\ \A j \in Places : j # i => addrs'[j] = addrs[j]
  <2>1. addrs \in Seq(Addrs \cup {None}) /\ a \in Addrs \cup {None}
    BY <1>2 DEF Inv, TypeOK
  <2>2. /\ Put(addrs, i, a) \in Seq(Addrs \cup {None})
        /\ Len(Put(addrs, i, a)) = IF i > Len(addrs) THEN Len(addrs) + 1 ELSE Len(addrs)
        /\ Put(addrs, i, a)[i] = a
        /\ \A j \in 1..Len(addrs) : j # i => Put(addrs, i, a)[j] = addrs[j]
    <3> DEFINE S == Addrs \cup {None}
    <3>1. addrs \in Seq(S) /\ a \in S /\ i \in 1..(Len(addrs) + 1)
      BY <1>4, <2>1
    <3> HIDE DEF S
    <3>2. /\ Put(addrs, i, a) \in Seq(S)
          /\ Len(Put(addrs, i, a)) = IF i > Len(addrs) THEN Len(addrs) + 1 ELSE Len(addrs)
          /\ Put(addrs, i, a)[i] = a
          /\ \A j \in 1..Len(addrs) : j # i => Put(addrs, i, a)[j] = addrs[j]
      BY <3>1, PutType
    <3> QED BY <3>2 DEF S
  <2> QED BY <1>1, <2>2 DEF Places
<1>6. /\ inputSources' \in Seq(Fds \cup {None, Dead})
      /\ Len(inputSources') = Len(addrs')
      /\ inputSources'[i] = f /\ \A j \in Places : j # i => inputSources'[j] = inputSources[j]
  <2>1. inputSources \in Seq(Fds \cup {None, Dead}) /\ f \in Fds \cup {None, Dead}
    BY <1>2 DEF Inv, TypeOK
  <2>2. i \in 1..(Len(inputSources) + 1)
    BY <1>3, <1>4
  <2>3. /\ Put(inputSources, i, f) \in Seq(Fds \cup {None, Dead})
        /\ Len(Put(inputSources, i, f)) =
             IF i > Len(inputSources) THEN Len(inputSources) + 1 ELSE Len(inputSources)
        /\ Put(inputSources, i, f)[i] = f
        /\ \A j \in 1..Len(inputSources) : j # i => Put(inputSources, i, f)[j] = inputSources[j]
    <3> DEFINE S == Fds \cup {None, Dead}
    <3>1. inputSources \in Seq(S) /\ f \in S
      BY <2>1
    <3> HIDE DEF S
    <3>2. /\ Put(inputSources, i, f) \in Seq(S)
          /\ Len(Put(inputSources, i, f)) =
               IF i > Len(inputSources) THEN Len(inputSources) + 1 ELSE Len(inputSources)
          /\ Put(inputSources, i, f)[i] = f
          /\ \A j \in 1..Len(inputSources) : j # i => Put(inputSources, i, f)[j] = inputSources[j]
      BY <2>2, <3>1, PutType
    <3> QED BY <3>2 DEF S
  <2> QED BY <1>1, <1>3, <1>5, <2>3 DEF Places
<1>7. i \in Places' /\ \A j \in Places' : j = i \/ j \in Places
  BY <1>3, <1>4, <1>5 DEF Places
<1>8. ASSUME NEW s \in sources
      PROVE  /\ s \in Sources /\ s.fd \in Fds /\ s.fd # f /\ conns[s.fd].st = "accepted"
             /\ s.id \in Places /\ inputSources[s.id] = s.fd /\ conns[s.fd].addr = addrs[s.id]
             /\ s \in Replaced(i) <=> s.id = i
  <2>1. /\ s \in Sources /\ conns[s.fd].st = "accepted"
        /\ s.id \in Places /\ inputSources[s.id] = s.fd /\ conns[s.fd].addr = addrs[s.id]
    BY <1>1 DEF Inv, TypeOK, Agree, OneSource, Readers, Sources
  <2>2. s.fd \in Fds /\ s.fd # f
    BY <1>2, <2>1 DEF Sources
  <2>3. s \in Replaced(i) => s.id = i
    BY <1>1, <1>3, <1>4, <2>1, <2>2 DEF Replaced, Inv, Agree, OneSource, Places
  <2>4. s.id = i => s \in Replaced(i)
    BY <1>3, <2>1 DEF Replaced, Places
  <2> QED BY <2>1, <2>2, <2>3, <2>4
<1>9. ASSUME NEW g \in Fds
      PROVE  /\ g = f => conns'[g] = [conns[g] EXCEPT !.st = "accepted"]
             /\ g # f /\ g \in closed => conns'[g] = NoConn
             /\ g # f /\ g \notin closed => conns'[g] = conns[g]
  BY <1>1
<1> HIDE DEF closed
<1>10. /\ conns' \in [Fds -> Conns]
       /\ conns'[f].st = "accepted" /\ conns'[f].addr = a
  <2>1. conns \in [Fds -> Conns]
    BY DEF Inv, TypeOK, Conns
  <2>2. ASSUME NEW g \in Fds PROVE conns'[g] \in Conns
    <3>1. CASE g = f
      <4> DEFINE c == conns[f]
      <4>1. c \in Conns /\ conns'[g] = [c EXCEPT !.st = "accepted"]
        BY <1>9, <2>1, <3>1
      <4> HIDE DEF c
      <4> QED BY <4>1 DEF Conns
    <3>2. CASE g # f
      BY <1>9, <2>1, <3>2, NoConnType
    <3> QED BY <3>1, <3>2
  <2>3. conns' = [g \in Fds |-> conns'[g]]
    BY <1>1
  <2> QED BY <1>2, <1>9, <2>1, <2>2, <2>3 DEF Conns, a
<1>11. \A s \in sources : s \notin Replaced(i) => s.fd \notin closed /\ conns'[s.fd] = conns[s.fd]
  BY <1>8, <1>9, ZenonT(30) DEF Inv, Agree, Readers, closed, Replaced
<1> DEFINE new == [fd |-> f, id |-> i, ev |-> "none"]
<1>12. /\ new \in Sources /\ new \in sources' /\ new.fd = f /\ new.id = i
       /\ \A s \in sources' : s = new \/ (s \in sources /\ s \notin Replaced(i))
       /\ \A s \in sources : s \notin Replaced(i) => s \in sources'
  BY <1>1, <1>2, <1>3, <1>4 DEF Sources
<1> HIDE DEF new
<1>13. TypeOK'
  <2>1. devices' \in Seq(Addrs \cup {None})
    <3>1. devices \in Seq(Addrs \cup {None})
      BY DEF Inv, TypeOK
    <3>2. Put(devices, i, a) \in Seq(Addrs \cup {None})
      BY <1>2, <3>1, SMTT(30) DEF Put
    <3> QED BY <1>1, <3>1, <3>2
  <2>2. \A s \in sources' : s \in Sources
    BY <1>8, <1>12
  <2> QED BY <1>1, <1>2, <1>5, <1>6, <1>10, <2>1, <2>2 DEF Inv, TypeOK, Conns, Sources
<1>14. OneSource'
  <2>1. ASSUME NEW s \in sources'
        PROVE  /\ s.id \in Places' /\ inputSources'[s.id] = s.fd
               /\ conns'[s.fd].st = "accepted" /\ conns'[s.fd].addr = addrs'[s.id]
    <3>1. CASE s = new
      BY <1>5, <1>6, <1>7, <1>10, <1>12, <3>1
    <3>2. CASE s \in sources /\ s \notin Replaced(i)
      <4>1. s.id \in Places /\ s.id # i
        BY <1>8, <3>2
      <4>2. s.id \in Places'
        BY <1>3, <1>5, <4>1 DEF Places
      <4> QED BY <1>5, <1>6, <1>8, <1>11, <3>2, <4>1, <4>2
    <3> QED BY <1>12, <3>1, <3>2
  <2>2. ASSUME NEW j \in Places', addrs'[j] = None PROVE inputSources'[j] = None
    BY <1>1, <1>2, <1>5, <1>6, <1>7, <2>2 DEF Inv, Agree, OneSource
  <2>3. ASSUME NEW j \in Places, inputSources[j] = f PROVE FALSE
    BY <1>1, <1>2, <1>8, <2>3 DEF Inv, Agree, OneSource, Referred
  <2>4. ASSUME NEW j \in Places', NEW k \in Places', inputSources'[j] = inputSources'[k],
               inputSources'[j] \in Fds
        PROVE  j = k
    BY <1>1, <1>6, <1>7, <2>3, <2>4 DEF Inv, Agree, OneSource
  <2> QED BY <2>1, <2>2, <2>4 DEF OneSource
<1>15. NoLeak'
  <2> SUFFICES ASSUME NEW g \in Fds, conns'[g].st = "accepted"
               PROVE  \E s \in sources' : s.fd = g
    BY DEF NoLeak
  <2>1. CASE g = f
    BY <1>12, <2>1
  <2>2. CASE g # f
    <3>1. g \notin closed /\ conns'[g] = conns[g]
      BY <1>9, <2>2, NoConnType
    <3>2. PICK s \in sources : s.fd = g
      BY <3>1 DEF Inv, Agree, NoLeak
    <3>3. s \notin Replaced(i)
      BY <3>1, <3>2 DEF closed
    <3> QED BY <1>12, <3>2, <3>3
  <2> QED BY <2>1, <2>2
<1>16. Queue'
  <2>1. ASSUME NEW n \in 1..Len(backlog')
        PROVE  conns'[backlog'[n]].st = "queued"
    <3>1. backlog'[n] = backlog[n + 1] /\ n + 1 \in 1..Len(backlog)
      BY <1>2
    <3>2. backlog'[n] \in Fds /\ backlog'[n] # f /\ conns[backlog'[n]].st = "queued"
      BY <1>2, <3>1 DEF Inv, TypeOK, Agree, Queue
    <3>3. backlog'[n] \notin closed
      BY <1>8, <3>2 DEF closed, Replaced
    <3> QED BY <1>9, <3>2, <3>3
  <2>2. ASSUME NEW m \in 1..Len(backlog'), NEW n \in 1..Len(backlog'), backlog'[m] = backlog'[n]
        PROVE  m = n
    <3>1. /\ m + 1 \in 1..Len(backlog) /\ n + 1 \in 1..Len(backlog)
          /\ backlog[m + 1] = backlog[n + 1]
      BY <1>2, <2>2
    <3>2. m + 1 = n + 1
      BY <3>1 DEF Inv, Agree, Queue
    <3> QED BY <3>2
  <2>3. ASSUME NEW g \in Fds, conns'[g].st # "free" PROVE conns'[g].addr \in Addrs
    BY <1>2, <1>9, <1>10, <2>3, NoConnType DEF Inv, Agree, Queue
  <2> QED BY <2>1, <2>2, <2>3 DEF Queue
<1>17. Readers'
  <2>1. ASSUME NEW r \in sources', NEW s \in sources', r.fd = s.fd PROVE r = s
    BY <1>8, <1>12, <2>1 DEF Inv, Agree, Readers
  <2>2. ASSUME NEW s \in sources' PROVE conns'[s.fd].st = "accepted"
    BY <1>8, <1>10, <1>11, <1>12
  <2> QED BY <1>1, <2>1, <2>2 DEF Readers
<1>18. Referred'
  <2> SUFFICES ASSUME NEW j \in Places', inputSources'[j] \in Fds
               PROVE  \E s \in sources' : s.id = j
    BY DEF Referred
  <2>1. CASE j = i
    BY <1>12, <2>1
  <2>2. CASE j # i
    <3>1. j \in Places /\ inputSources[j] \in Fds
      BY <1>6, <1>7, <2>2
    <3>2. PICK s \in sources : s.id = j
      BY <1>1, <3>1 DEF Inv, Agree, Referred
    <3> QED BY <1>8, <1>12, <2>2, <3>2
  <2> QED BY <2>1, <2>2
<1>19. Unread'
  <2>1. new.ev = "none"
    BY DEF new
  <2> QED BY <1>11, <1>12, <2>1 DEF Inv, Agree, Unread
<1> QED BY <1>13, <1>14, <1>15, <1>16, <1>17, <1>18, <1>19 DEF Inv, Agree

-----------------------------------------------------------------------------
(* Receiving.                                                              *)

\* A connection is closed together with its source, and the place it was read
\* for refers to it no more.
LEMMA ClosingInv ==
  ASSUME Inv, ~deleted, NEW f, NEW i, NEW x \in {None, Dead}, NEW c \in sources,
         c.fd = f, c.id = i,
         conns' = [conns EXCEPT ![f] = NoConn],
         sources' = {r \in sources : r.fd # f},
         inputSources' = [inputSources EXCEPT ![i] = x],
         addrs' = addrs \/ (addrs' = AddrsReset(i) /\ x = None),
         devices' \in Seq(Addrs \cup {None}), current' = None,
         UNCHANGED <<acceptReady, blocked, backlog, sent, heard, deleted, failed>>
  PROVE  Inv'
<1>1. /\ f \in Fds /\ i \in Places /\ inputSources[i] = f
      /\ conns[f].st = "accepted" /\ conns[f].addr = addrs[i] /\ addrs[i] # None
  <2>1. /\ i \in Places /\ inputSources[i] = f
        /\ conns[f].st = "accepted" /\ conns[f].addr = addrs[i]
    BY DEF Inv, Agree, OneSource
  <2>2. f \in Fds
    BY DEF Inv, TypeOK
  <2>3. addrs[i] # None
    BY <2>1, <2>2, BackendAssumption DEF Inv, Agree, Queue
  <2> QED BY <2>1, <2>2, <2>3
<1>2. /\ conns' \in [Fds -> Conns] /\ conns'[f].st = "free"
      /\ \A g \in Fds : g # f => conns'[g] = conns[g]
  BY NoConnType DEF Inv, TypeOK, Conns
<1>3. /\ addrs' \in Seq(Addrs \cup {None}) /\ Len(addrs') = Len(addrs)
      /\ \A j \in Places : j # i => addrs'[j] = addrs[j]
      /\ addrs'[i] = addrs[i] \/ (addrs'[i] = None /\ x = None)
  <2>1. addrs \in Seq(Addrs \cup {None}) /\ None \in Addrs \cup {None}
    BY DEF Inv, TypeOK
  <2>2. /\ AddrsReset(i) \in Seq(Addrs \cup {None}) /\ Len(AddrsReset(i)) = Len(addrs)
        /\ AddrsReset(i)[i] = None
        /\ \A j \in Places : j # i => AddrsReset(i)[j] = addrs[j]
    BY <1>1, <2>1, UpdateType DEF AddrsReset, Places
  <2> QED BY <2>1, <2>2
<1>4. /\ inputSources' \in Seq(Fds \cup {None, Dead}) /\ Len(inputSources') = Len(addrs')
      /\ inputSources'[i] = x /\ x \notin Fds
      /\ \A j \in Places : j # i => inputSources'[j] = inputSources[j]
  BY <1>1, <1>3, BackendAssumption DEF Inv, TypeOK, Places
<1>5. Places' = Places
  BY <1>3 DEF Places
<1>6. \A s \in sources' : s \in sources /\ s.fd # f /\ s.fd \in Fds
  BY DEF Inv, TypeOK
<1>7. TypeOK'
  BY <1>2, <1>3, <1>4, <1>6 DEF Inv, TypeOK, Conns
<1>8. OneSource'
  <2>1. ASSUME NEW s \in sources'
        PROVE  /\ s.id \in Places' /\ inputSources'[s.id] = s.fd
               /\ conns'[s.fd].st = "accepted" /\ conns'[s.fd].addr = addrs'[s.id]
    <3>1. /\ s.id \in Places /\ inputSources[s.id] = s.fd
          /\ conns[s.fd].st = "accepted" /\ conns[s.fd].addr = addrs[s.id]
      BY <1>6 DEF Inv, Agree, OneSource
    <3>2. s.id # i
      BY <1>1, <1>6, <3>1
    <3> QED BY <1>2, <1>3, <1>4, <1>5, <1>6, <3>1, <3>2
  <2>2. ASSUME NEW j \in Places', addrs'[j] = None PROVE inputSources'[j] = None
    BY <1>1, <1>3, <1>4, <1>5, <2>2 DEF Inv, Agree, OneSource
  <2>3. ASSUME NEW j \in Places', NEW k \in Places', inputSources'[j] = inputSources'[k],
               inputSources'[j] \in Fds
        PROVE  j = k
    BY <1>4, <1>5, <2>3 DEF Inv, Agree, OneSource
  <2> QED BY <2>1, <2>2, <2>3 DEF OneSource
<1>9. NoLeak'
  BY <1>2 DEF Inv, Agree, NoLeak
<1>10. Queue'
  <2>1. \A n \in 1..Len(backlog) : backlog[n] \in Fds /\ backlog[n] # f
    BY <1>1 DEF Inv, TypeOK, Agree, Queue
  <2> QED BY <1>2, <2>1 DEF Inv, Agree, Queue
<1>11. Readers'
  BY <1>2, <1>6 DEF Inv, Agree, Readers
<1>12. Referred'
  <2> SUFFICES ASSUME NEW j \in Places', inputSources'[j] \in Fds
               PROVE  \E s \in sources' : s.id = j
    BY DEF Referred
  <2>1. j \in Places /\ j # i /\ inputSources[j] \in Fds
    BY <1>4, <1>5
  <2>2. PICK s \in sources : s.id = j
    BY <2>1 DEF Inv, Agree, Referred
  <2>3. s.fd # f
    BY <2>1, <2>2 DEF Inv, Agree, Readers
  <2> QED BY <2>2, <2>3
<1>13. Unread'
  BY <1>2, <1>6 DEF Inv, Agree, Unread
<1> QED BY <1>7, <1>8, <1>9, <1>10, <1>11, <1>12, <1>13 DEF Inv, Agree

\* The source that is dispatched, or read the record that is handled.
LEMMA CloseKeptInv ==
  ASSUME Inv, ~deleted, NEW s, NEW cmds, CloseKept(s, cmds),
         \E c \in sources : c.fd = s.fd /\ c.id = s.id
  PROVE  Inv'
<1>1. PICK x \in {None, Dead} : inputSources' = [inputSources EXCEPT ![s.id] = x]
  BY DEF CloseKept
<1>2. devices' \in Seq(Addrs \cup {None})
  BY DEF CloseKept, Inv, TypeOK
<1>3. PICK c \in sources : c.fd = s.fd /\ c.id = s.id
  OBVIOUS
<1> QED BY <1>1, <1>2, <1>3, ClosingInv DEF CloseKept, Closed

\* The deleted backend's slot is called: nothing else changes.
LEMMA CallsDeletedInv ==
  ASSUME Inv, CallsDeleted
  PROVE  Inv'
<1>1. UNCHANGED <<addrs, inputSources, sources, acceptReady, current, blocked, backlog, conns,
                  devices, heard, sent, deleted>> /\ failed' = TRUE
  BY DEF CallsDeleted, server, network
<1>2. TypeOK'
  BY <1>1 DEF Inv, TypeOK
<1> QED BY <1>1, <1>2 DEF Inv, Agree, OneSource, NoLeak, Queue, Readers, Referred, Unread, Places

LEMMA ReceiveErrorInv ==
  ASSUME Inv, NEW s \in sources, ReceiveError(s)
  PROVE  Inv'
  BY CloseKeptInv, CallsDeletedInv DEF ReceiveError

LEMMA ReceiveFailsInv ==
  ASSUME Inv, NEW s \in sources, ReceiveFails(s)
  PROVE  Inv'
  BY CloseKeptInv, CallsDeletedInv DEF ReceiveFails

LEMMA CurrentRead ==
  ASSUME Inv, current # None
  PROVE  \E c \in sources : c.fd = current.fd /\ c.id = current.id
  BY DEF Inv, Agree, Readers

LEMMA ReceiveBadInv == Inv /\ ReceiveBad => Inv'
  BY CloseKeptInv, CallsDeletedInv, CurrentRead DEF ReceiveBad

LEMMA ReceiveRemoveInv ==
  ASSUME Inv, ReceiveRemove
  PROVE  Inv'
<1>1. CASE CallsDeleted
  BY <1>1, CallsDeletedInv
<1>2. CASE ~CallsDeleted
  <2>1. /\ current # None /\ ~deleted
        /\ conns' = [conns EXCEPT ![current.fd] = NoConn]
        /\ sources' = {r \in sources : r.fd # current.fd}
        /\ inputSources' = [inputSources EXCEPT ![current.id] = None]
        /\ addrs' = AddrsReset(current.id)
        /\ devices' = [devices EXCEPT ![current.id] = None]
        /\ current' = None
        /\ UNCHANGED <<acceptReady, blocked, heard, deleted, failed, backlog, sent>>
    BY <1>2 DEF ReceiveRemove, Closed, RefAfterRemoval
  <2>2. devices' \in Seq(Addrs \cup {None})
    <3>1. devices \in Seq(Addrs \cup {None}) /\ None \in Addrs \cup {None}
      BY DEF Inv, TypeOK
    <3> QED BY <2>1, <3>1, UpdateType
  <2>3. PICK c \in sources : c.fd = current.fd /\ c.id = current.id
    BY <2>1, CurrentRead
  <2> QED BY <2>1, <2>2, <2>3, ClosingInv
<1> QED BY <1>1, <1>2

\* What is read, and in which order sources are dispatched, changes no place.
LEMMA ReadingInv ==
  ASSUME Inv, UNCHANGED <<addrs, inputSources, backlog, deleted>>, TypeOK', Unread',
         \A f \in Fds : conns'[f].st = conns[f].st /\ conns'[f].addr = conns[f].addr,
         \A s \in sources : \E r \in sources' : r.fd = s.fd /\ r.id = s.id,
         \A r \in sources' : \E s \in sources : r.fd = s.fd /\ r.id = s.id,
         \A r, s \in sources' : r.fd = s.fd => r = s,
         current' # None => \E s \in sources : s.fd = current'.fd /\ s.id = current'.id
  PROVE  Inv'
<1>1. Places' = Places /\ \A s \in sources : s.fd \in Fds
  BY DEF Places, Inv, TypeOK
<1>2. OneSource'
  <2>1. ASSUME ~deleted, NEW r \in sources'
        PROVE  /\ r.id \in Places' /\ inputSources'[r.id] = r.fd
               /\ conns'[r.fd].st = "accepted" /\ conns'[r.fd].addr = addrs'[r.id]
    BY <1>1, <2>1 DEF Inv, Agree, OneSource
  <2> QED BY <1>1, <2>1 DEF Inv, Agree, OneSource
<1>3. NoLeak'
  BY DEF Inv, Agree, NoLeak
<1>4. Queue'
  BY DEF Inv, TypeOK, Agree, Queue
<1>5. Readers'
  <2>1. ASSUME NEW r \in sources' PROVE conns'[r.fd].st = "accepted"
    BY <1>1 DEF Inv, Agree, Readers
  <2> QED BY <2>1 DEF Readers
<1>6. Referred'
  BY <1>1 DEF Inv, Agree, Referred
<1> QED BY <1>2, <1>3, <1>4, <1>5, <1>6 DEF Inv, Agree

LEMMA PollInv ==
  ASSUME Inv, Poll
  PROVE  Inv'
<1>1. /\ sources' = {[s EXCEPT !.ev = Event(s.fd)] : s \in sources}
      /\ acceptReady' \in BOOLEAN
      /\ UNCHANGED <<addrs, inputSources, current, blocked, devices, heard, deleted, failed,
                     backlog, conns, sent>>
  BY DEF Poll, manager, network
<1>2. \A s \in sources : s \in Sources /\ Event(s.fd) \in {"none", "in", "error"}
  BY DEF Inv, TypeOK, Sources, Event
<1>3. \A s \in sources : /\ [s EXCEPT !.ev = Event(s.fd)] \in Sources
                         /\ [s EXCEPT !.ev = Event(s.fd)].fd = s.fd
                         /\ [s EXCEPT !.ev = Event(s.fd)].id = s.id
  BY <1>2 DEF Sources
<1>4. TypeOK'
  <2>1. \A s \in sources' : s \in Sources
    BY <1>1, <1>3
  <2> QED BY <1>1, <2>1 DEF Inv, TypeOK, Sources
<1>5. \A r, s \in sources' : r.fd = s.fd => r = s
  <2>1. ASSUME NEW r \in sources', NEW s \in sources', r.fd = s.fd PROVE r = s
    <3>1. PICK p \in sources : r = [p EXCEPT !.ev = Event(p.fd)]
      BY <1>1
    <3>2. PICK q \in sources : s = [q EXCEPT !.ev = Event(q.fd)]
      BY <1>1
    <3>3. p.fd = q.fd
      BY <1>3, <2>1, <3>1, <3>2
    <3>4. p = q
      BY <3>3 DEF Inv, Agree, Readers
    <3> QED BY <3>1, <3>2, <3>4
  <2> QED BY <2>1
<1>6. /\ \A s \in sources : \E r \in sources' : r.fd = s.fd /\ r.id = s.id
      /\ \A r \in sources' : \E s \in sources : r.fd = s.fd /\ r.id = s.id
  BY <1>1, <1>3
<1>7. current' # None => \E s \in sources : s.fd = current'.fd /\ s.id = current'.id
  BY <1>1, CurrentRead
<1>8. Unread'
  <2>1. \A s \in sources : [s EXCEPT !.ev = Event(s.fd)].ev = Event(s.fd)
    BY <1>2 DEF Sources
  <2>2. \A f \in Fds : Event(f) = "in" => conns[f].inbox # <<>>
    BY DEF Event
  <2>3. ASSUME NEW r \in sources', r.ev = "in" PROVE conns'[r.fd].inbox # <<>>
    <3>1. PICK s \in sources : r = [s EXCEPT !.ev = Event(s.fd)]
      BY <1>1
    <3>2. r.fd = s.fd /\ s.fd \in Fds /\ Event(s.fd) = "in"
      BY <1>2, <1>3, <2>1, <2>3, <3>1 DEF Sources
    <3> QED BY <1>1, <2>2, <3>2
  <2> QED BY <2>3 DEF Unread
<1> QED BY <1>1, <1>4, <1>5, <1>6, <1>7, <1>8, ReadingInv

LEMMA ReceiveRecordInv ==
  ASSUME Inv, NEW s \in sources, ReceiveRecord(s)
  PROVE  Inv'
<1> DEFINE new == [s EXCEPT !.ev = "none"]
           read == [fd |-> s.fd, id |-> s.id, rest |-> Head(conns[s.fd].inbox)]
<1>1. /\ current' = read /\ conns' = [conns EXCEPT ![s.fd].inbox = Tail(@)]
      /\ sources' = (sources \ {s}) \cup {new}
      /\ UNCHANGED <<addrs, inputSources, acceptReady, blocked, backlog, sent,
                     devices, heard, deleted, failed>>
  BY DEF ReceiveRecord, manager
<1>2. new \in Sources /\ new.fd = s.fd /\ new.id = s.id /\ s \in Sources
  BY DEF Inv, TypeOK, Sources
<1>3. /\ read.fd = s.fd /\ read.id = s.id
      /\ read \in [fd : Fds, id : Nat \ {0}, rest : Seq(Entries)]
      /\ conns' \in [Fds -> Conns]
      /\ \A f \in Fds : conns'[f].st = conns[f].st /\ conns'[f].addr = conns[f].addr
  <2>1. s.ev = "in"
    BY DEF ReceiveRecord
  <2>2. conns \in [Fds -> Conns] /\ s.fd \in Fds /\ s.id \in Nat \ {0}
    BY <1>2 DEF Inv, TypeOK, Conns, Sources
  <2>3. conns[s.fd].inbox \in Seq(Seq(Entries))
    BY <2>2 DEF Conns
  <2>4. conns[s.fd].inbox # <<>>
    BY <2>1 DEF Inv, Agree, Unread
  <2>5. Head(conns[s.fd].inbox) \in Seq(Entries) /\ Tail(conns[s.fd].inbox) \in Seq(Seq(Entries))
    BY <2>3, <2>4
  <2> QED BY <1>1, <2>2, <2>5, ZenonT(30) DEF Conns
<1> HIDE DEF new, read
<1>4. TypeOK'
  <2>1. \A r \in sources' : r \in Sources
    BY <1>1, <1>2 DEF Inv, TypeOK, Sources
  <2> QED BY <1>1, <1>3, <2>1 DEF Inv, TypeOK, Sources, Conns
<1>5. \A q, r \in sources' : q.fd = r.fd => q = r
  BY <1>1, <1>2 DEF Inv, Agree, Readers
<1>6. /\ \A q \in sources : \E r \in sources' : r.fd = q.fd /\ r.id = q.id
      /\ \A r \in sources' : \E q \in sources : r.fd = q.fd /\ r.id = q.id
  BY <1>1, <1>2
<1>7. \E q \in sources : q.fd = current'.fd /\ q.id = current'.id
  BY <1>1, <1>3
<1>8. Unread'
  <2>1. new.ev = "none"
    BY <1>2 DEF new, Sources
  <2>2. ASSUME NEW r \in sources, r # s PROVE conns'[r.fd] = conns[r.fd]
    BY <1>1, <2>2 DEF Inv, TypeOK, Agree, Readers
  <2> QED BY <1>1, <2>1, <2>2 DEF Inv, Agree, Unread
<1> QED BY <1>1, <1>3, <1>4, <1>5, <1>6, <1>7, <1>8, ReadingInv

-----------------------------------------------------------------------------
LEMMA InitInv == Init => Inv
<1> SUFFICES ASSUME Init PROVE Inv
  OBVIOUS
<1>1. conns \in [Fds -> Conns] /\ \A f \in Fds : conns[f].st = "free"
  BY NoConnType DEF Init
<1>2. TypeOK
  <2>1. heard \in [Addrs -> {0} \cup Keys] /\ sent \in {0} \cup Keys
    BY DEF Init
  <2>2. /\ addrs \in Seq(Addrs \cup {None}) /\ devices \in Seq(Addrs \cup {None})
        /\ inputSources \in Seq(Fds \cup {None, Dead}) /\ Len(inputSources) = Len(addrs)
        /\ backlog \in Seq(Fds)
    BY DEF Init
  <2>3. {acceptReady, blocked, deleted, failed} \subseteq BOOLEAN /\ current = None /\ sources = {}
    BY DEF Init
  <2> QED BY <1>1, <2>1, <2>2, <2>3 DEF TypeOK, Conns
<1> QED BY <1>1, <1>2
        DEF Init, Inv, Agree, OneSource, NoLeak, Queue, Readers, Referred, Unread, Places

\* The packets of a record are handled one after the other.
LEMMA RecordInv ==
  ASSUME Inv, RecordDone \/ ReceiveNoop \/ ReceiveKey
  PROVE  Inv'
<1>1. CASE CallsDeleted
  BY <1>1, CallsDeletedInv
<1>2. CASE ~CallsDeleted
  <2>1. /\ current # None
        /\ UNCHANGED <<addrs, inputSources, sources, acceptReady, blocked, devices,
                       deleted, failed, backlog, conns, sent>>
        /\ current' = None \/ (current.rest # <<>> /\ PacketDone)
    BY <1>2 DEF RecordDone, ReceiveNoop, ReceiveKey, manager, network
  <2>2. current \in [fd : Fds, id : Nat \ {0}, rest : Seq(Entries)]
    BY <2>1 DEF Inv, TypeOK
  <2>3. current' # None => /\ current' \in [fd : Fds, id : Nat \ {0}, rest : Seq(Entries)]
                           /\ current'.fd = current.fd /\ current'.id = current.id
    <3> SUFFICES ASSUME current.rest # <<>>, PacketDone
                 PROVE  /\ current' \in [fd : Fds, id : Nat \ {0}, rest : Seq(Entries)]
                        /\ current'.fd = current.fd /\ current'.id = current.id
      BY <2>1
    <3>1. Tail(current.rest) \in Seq(Entries)
      BY <2>2
    <3> QED BY <2>2, <3>1 DEF PacketDone
  <2>4. heard' \in [Addrs -> {0} \cup Keys]
    <3>1. heard' = heard \/ (/\ Head(current.rest) \in Keys
                             /\ heard' = [heard EXCEPT ![devices[current.id]] = Head(current.rest)])
      BY <1>2 DEF RecordDone, ReceiveNoop, ReceiveKey, manager
    <3> QED BY <3>1 DEF Inv, TypeOK
  <2>5. TypeOK'
    BY <2>1, <2>3, <2>4 DEF Inv, TypeOK
  <2>6. current' # None => \E s \in sources : s.fd = current'.fd /\ s.id = current'.id
    BY <2>1, <2>3, CurrentRead
  <2>7. Unread' /\ \A r, s \in sources' : r.fd = s.fd => r = s
    BY <2>1 DEF Inv, Agree, Unread, Readers
  <2> QED BY <2>1, <2>5, <2>6, <2>7, ReadingInv
<1> QED BY <1>1, <1>2

LEMMA AcceptBlocksInv ==
  ASSUME Inv, AcceptBlocks
  PROVE  Inv'
<1>1. /\ UNCHANGED <<addrs, inputSources, sources, current, backlog, conns, sent, devices,
                     heard, deleted, failed>>
      /\ acceptReady' = FALSE /\ blocked' = TRUE
  BY DEF AcceptBlocks, manager, network
<1>2. TypeOK'
  BY <1>1 DEF Inv, TypeOK
<1> QED BY <1>1, <1>2 DEF Inv, Agree, OneSource, NoLeak, Queue, Readers, Referred, Unread, Places

\* The connections that were accepted stay open, and their sources attached.
LEMMA DeleteBackendInv ==
  ASSUME Inv, DeleteBackend
  PROVE  Inv'
<1>1. /\ deleted' = TRUE /\ devices' = <<>> /\ addrs' = <<>> /\ inputSources' = <<>>
      /\ acceptReady' = FALSE /\ backlog' = <<>>
      /\ conns' = [f \in Fds |-> IF conns[f].st = "queued" THEN NoConn ELSE conns[f]]
      /\ UNCHANGED <<sources, current, blocked, heard, sent, failed>>
  BY DEF DeleteBackend
<1>2. /\ conns' \in [Fds -> Conns]
      /\ \A f \in Fds : conns'[f] = IF conns[f].st = "queued" THEN NoConn ELSE conns[f]
  BY <1>1, NoConnType DEF Inv, TypeOK, Conns
<1>3. TypeOK'
  <2>1. /\ addrs' \in Seq(Addrs \cup {None}) /\ devices' \in Seq(Addrs \cup {None})
        /\ inputSources' \in Seq(Fds \cup {None, Dead}) /\ Len(inputSources') = Len(addrs')
        /\ backlog' \in Seq(Fds)
    BY <1>1
  <2>2. {acceptReady', blocked', deleted', failed'} \subseteq BOOLEAN
    BY <1>1 DEF Inv, TypeOK
  <2> QED BY <1>1, <1>2, <2>1, <2>2 DEF Inv, TypeOK, Conns
<1>4. \A s \in sources : s.fd \in Fds /\ conns'[s.fd] = conns[s.fd]
  BY <1>2 DEF Inv, TypeOK, Agree, Readers
<1>5. OneSource' /\ Referred'
  BY <1>1 DEF OneSource, Referred
<1>6. NoLeak'
  BY <1>1, <1>2, NoConnType DEF Inv, Agree, NoLeak
<1>7. Queue'
  BY <1>1, <1>2, NoConnType DEF Inv, Agree, Queue
<1>8. Readers' /\ Unread'
  BY <1>1, <1>4 DEF Inv, Agree, Readers, Unread
<1> QED BY <1>3, <1>5, <1>6, <1>7, <1>8 DEF Inv, Agree

LEMMA NextInv == Inv /\ [Next]_vars => Inv'
<1> SUFFICES ASSUME Inv, [Next]_vars PROVE Inv'
  OBVIOUS
<1>1. CASE UNCHANGED vars
  <2>1. UNCHANGED <<addrs, inputSources, sources, acceptReady, current, blocked, backlog, conns,
                    devices, heard, sent, deleted, failed>>
    BY <1>1 DEF vars, server, manager, network
  <2>2. TypeOK'
    BY <2>1 DEF Inv, TypeOK
  <2> QED BY <2>1, <2>2
          DEF Inv, Agree, OneSource, NoLeak, Queue, Readers, Referred, Unread, Places
<1>2. CASE Receive
  BY <1>2, ReceiveErrorInv, ReceiveFailsInv, ReceiveRecordInv, RecordInv, ReceiveRemoveInv,
     ReceiveBadInv DEF Receive
<1>3. CASE Accept
  BY <1>3, AcceptClientInv, AcceptBlocksInv DEF Accept
<1> QED BY <1>1, <1>2, <1>3, ClientConnectsInv, ClientSendsInv, ClientGoesInv, HangUpInv,
           PollInv, DeleteBackendInv DEF Next, Crashed

LEMMA Invariance == Spec => []Inv
  BY InitInv, NextInv, PTL DEF Spec

\* Every variable of the server keeps its type.
THEOREM TypeCorrect == Spec => []TypeOK
<1>1. Inv => TypeOK
  BY DEF Inv
<1> QED BY <1>1, Invariance, PTL

\* A source reads the connection of the client whose place it reports for, and
\* no place or connection has two.
THEOREM OneSourceForEach == Spec => []OneSource
<1>1. Inv => OneSource
  BY DEF Inv, Agree
<1> QED BY <1>1, Invariance, PTL

\* Every accepted connection has a source until it is closed.
THEOREM NothingLeaks == Spec => []NoLeak
<1>1. Inv => NoLeak
  BY DEF Inv, Agree
<1> QED BY <1>1, Invariance, PTL

-----------------------------------------------------------------------------
(* The promise to the device manager, and removals.                        *)

\* The manager's table mirrors the backend's, and no address has two places.
Mirror == ~deleted => devices = addrs
Distinct == \A i, j \in Places : addrs[i] = addrs[j] /\ addrs[i] # None => i = j

\* A source is ready for an error only once its connection has hung up.
Erred == \A s \in sources : s.ev = "error" => conns[s.fd].hup

PlacesInv == Inv /\ Mirror /\ Distinct /\ Erred

-----------------------------------------------------------------------------
(* The places.                                                             *)

\* A place that is written its own value, or another.
LEMMA PutSame ==
  ASSUME NEW S, NEW q \in Seq(S), NEW i \in 1..Len(q)
  PROVE  Put(q, i, q[i]) = q
<1> DEFINE n == Len(q)
<1>1. n \in Nat /\ q \in [1..n -> S] /\ i \in 1..n
  OBVIOUS
<1>2. Put(q, i, q[i]) = [q EXCEPT ![i] = q[i]]
  <2>1. ~(i > Len(q))
    BY <1>1
  <2> QED BY <2>1, Zenon DEF Put
<1> HIDE DEF n
<1>3. [q EXCEPT ![i] = q[i]] = q
  BY <1>1
<1> QED BY <1>2, <1>3

\* What accepting a client makes of the places.
LEMMA AcceptPlaces ==
  ASSUME PlacesInv, AcceptClient, NEW a, a = conns[Head(backlog)].addr, NEW i, i = PlaceFor(a)
  PROVE  /\ ~deleted /\ a \in Addrs /\ Head(backlog) \in Fds
         /\ conns[Head(backlog)].st = "queued"
         /\ i \in 1..(Len(addrs) + 1) /\ Len(addrs) \in Nat
         /\ \/ /\ Known(a) /\ UNCHANGED <<addrs, devices>> /\ i \in Places /\ addrs[i] = a
            \/ /\ \A j \in Places : addrs[j] # a
               /\ addrs' = Put(addrs, i, a) /\ devices' = Put(devices, i, a)
               /\ \/ i = Len(addrs) + 1 /\ \A j \in Places : addrs[j] # None
                  \/ i \in Places /\ addrs[i] = None /\ \A j \in 1..(i - 1) : addrs[j] # None
<1>1. /\ ~deleted /\ backlog # <<>>
      /\ addrs' = Put(addrs, i, a)
      /\ devices' = IF Known(a) THEN devices ELSE Put(devices, i, a)
  BY DEF AcceptClient
<1>2. addrs \in Seq(Addrs \cup {None}) /\ Len(addrs) \in Nat /\ Inv
  BY DEF PlacesInv, Inv, TypeOK
<1>3. Head(backlog) \in Fds /\ conns[Head(backlog)].st = "queued"
  <2>1. backlog \in Seq(Fds)
    BY <1>2 DEF Inv, TypeOK
  <2>2. Len(backlog) \in Nat \ {0} /\ Head(backlog) = backlog[1]
    BY <1>1, <2>1
  <2> QED BY <1>2, <2>1, <2>2 DEF Inv, Agree, Queue
<1>4. a \in Addrs
  BY <1>2, <1>3 DEF Inv, Agree, Queue
<1>5. CASE Known(a)
  <2>1. i = BackendId(a)
    BY <1>5 DEF PlaceFor
  <2>2. i \in Places /\ addrs[i] = a
    BY <1>2, <1>5, <2>1, BackendIdType
  <2>3. addrs' = addrs
    <3> DEFINE S == Addrs \cup {None}
    <3>1. addrs \in Seq(S) /\ i \in 1..Len(addrs)
      BY <1>2, <2>2 DEF Places
    <3> HIDE DEF S
    <3> QED BY <1>1, <2>2, <3>1, PutSame
  <2> QED BY <1>1, <1>2, <1>3, <1>4, <1>5, <2>2, <2>3 DEF Places
<1>6. CASE ~Known(a)
  <2>1. \A j \in Places : addrs[j] # a
    BY <1>2, <1>6, BackendIdType
  <2>2. CASE Known(None)
    <3>1. i = BackendId(None)
      BY <1>6, <2>2 DEF PlaceFor
    <3>2. i \in Places /\ addrs[i] = None /\ \A j \in 1..(i - 1) : addrs[j] # None
      BY <1>2, <2>2, <3>1, BackendIdType
    <3> QED BY <1>1, <1>2, <1>3, <1>4, <1>6, <2>1, <3>2 DEF Places
  <2>3. CASE ~Known(None)
    <3>1. i = Len(addrs) + 1
      BY <1>6, <2>3 DEF PlaceFor
    <3>2. \A j \in Places : addrs[j] # None
      BY <1>2, <2>3, BackendIdType
    <3> QED BY <1>1, <1>2, <1>3, <1>4, <1>6, <2>1, <3>1, <3>2
  <2> QED BY <2>2, <2>3
<1> QED BY <1>5, <1>6

\* The sources accepting a client leaves, and the one it adds.
LEMMA AcceptSources ==
  ASSUME Inv, AcceptClient, NEW i, i = PlaceFor(conns[Head(backlog)].addr),
         conns[Head(backlog)].st = "queued"
  PROVE  /\ \A s \in sources' :
              \/ s = [fd |-> Head(backlog), id |-> i, ev |-> "none"]
              \/ s \in sources \ Replaced(i)
         /\ [fd |-> Head(backlog), id |-> i, ev |-> "none"] \in sources' \ sources
         /\ \A s \in sources \ Replaced(i) : s \in sources' /\ conns'[s.fd] = conns[s.fd]
         /\ \A s \in Replaced(i) : s \in sources /\ s.id = i
<1> DEFINE f == Head(backlog)
           closed == {s.fd : s \in Replaced(i)}
<1>1. /\ sources' = (sources \ Replaced(i)) \cup {[fd |-> f, id |-> i, ev |-> "none"]}
      /\ conns' = [g \in Fds |-> CASE g = f                 -> [conns[g] EXCEPT !.st = "accepted"]
                                   [] g # f /\ g \in closed -> NoConn
                                   [] OTHER                 -> conns[g]]
      /\ ~deleted
  BY DEF AcceptClient, Attached
<1>2. \A s \in sources : s.fd \in Fds /\ conns[s.fd].st = "accepted"
  BY DEF Inv, TypeOK, Agree, Readers
<1>3. [fd |-> f, id |-> i, ev |-> "none"] \notin sources
  <2>1. ASSUME [fd |-> f, id |-> i, ev |-> "none"] \in sources PROVE FALSE
    BY <1>2, <2>1
  <2> QED BY <2>1
<1>4. ASSUME NEW s \in sources \ Replaced(i) PROVE s \in sources' /\ conns'[s.fd] = conns[s.fd]
  <2>1. s.fd \in Fds /\ s.fd # f
    BY <1>2
  <2>2. s.fd \notin closed
    BY DEF Inv, Agree, Readers, Replaced
  <2> HIDE DEF closed, f
  <2> QED BY <1>1, <2>1, <2>2
<1>5. ASSUME NEW s \in Replaced(i) PROVE s \in sources /\ s.id = i
  <2>1. s \in sources /\ i <= Len(inputSources) /\ s.fd = inputSources[i] /\ s.fd \in Fds
    BY <1>2 DEF Replaced
  <2>2. s.id \in Places /\ inputSources[s.id] = s.fd
    BY <1>1, <2>1 DEF Inv, Agree, OneSource
  <2>3. i \in Places
    <3>1. i \in 1..(Len(addrs) + 1) /\ Len(inputSources) = Len(addrs) /\ Len(addrs) \in Nat
      BY BackendIdType DEF PlaceFor, Places, Inv, TypeOK
    <3> QED BY <2>1, <3>1 DEF Places
  <2> QED BY <1>1, <2>1, <2>2, <2>3 DEF Inv, Agree, OneSource
<1> QED BY <1>1, <1>3, <1>4, <1>5

LEMMA AcceptClientPlaces ==
  ASSUME PlacesInv, AcceptClient
  PROVE  Mirror' /\ Distinct' /\ Erred'
<1> DEFINE a == conns[Head(backlog)].addr
           i == PlaceFor(a)
<1>1. /\ ~deleted /\ a \in Addrs /\ conns[Head(backlog)].st = "queued"
      /\ i \in 1..(Len(addrs) + 1) /\ Len(addrs) \in Nat
      /\ \/ UNCHANGED <<addrs, devices>>
         \/ /\ \A j \in Places : addrs[j] # a
            /\ addrs' = Put(addrs, i, a) /\ devices' = Put(devices, i, a)
  BY AcceptPlaces
<1>2. deleted' = deleted
  BY DEF AcceptClient
<1>3. Mirror'
  BY <1>1, <1>2 DEF PlacesInv, Mirror
<1>4. Distinct'
  <2>1. CASE UNCHANGED addrs
    BY <2>1 DEF PlacesInv, Distinct, Places
  <2>2. CASE addrs' = Put(addrs, i, a) /\ \A j \in Places : addrs[j] # a
    <3> DEFINE S == Addrs \cup {None}
    <3>1. addrs \in Seq(S) /\ a \in S
      BY <1>1 DEF PlacesInv, Inv, TypeOK
    <3> HIDE DEF S, i, a
    <3>2. /\ Len(addrs') = IF i > Len(addrs) THEN Len(addrs) + 1 ELSE Len(addrs)
          /\ addrs'[i] = a
          /\ \A j \in 1..Len(addrs) : j # i => addrs'[j] = addrs[j]
      BY <1>1, <2>2, <3>1, PutType
    <3>3. \A j \in Places' : j = i \/ (j \in Places /\ addrs'[j] = addrs[j] /\ addrs[j] # a)
      BY <1>1, <2>2, <3>2 DEF Places
    <3> QED BY <3>2, <3>3 DEF PlacesInv, Distinct
  <2> QED BY <1>1, <2>1, <2>2
<1>5. Erred'
  <2>1. Inv
    BY DEF PlacesInv
  <2>2. /\ \A s \in sources' : \/ s = [fd |-> Head(backlog), id |-> i, ev |-> "none"]
                                 \/ s \in sources \ Replaced(i)
        /\ \A s \in sources \ Replaced(i) : conns'[s.fd] = conns[s.fd]
    BY <1>1, <2>1, AcceptSources, Zenon
  <2> QED BY <2>2 DEF PlacesInv, Erred
<1> QED BY <1>3, <1>4, <1>5

-----------------------------------------------------------------------------
(* The other steps.                                                        *)

\* The tables stay, and no source is readied for an error or its connection
\* forgets that it hung up.
LEMMA TablesStay ==
  ASSUME PlacesInv, UNCHANGED <<addrs, devices, deleted>>,
         \A s \in sources' : s.ev = "error" =>
           conns'[s.fd].hup \/ (s \in sources /\ (conns[s.fd].hup => conns'[s.fd].hup))
  PROVE  Mirror' /\ Distinct' /\ Erred'
  BY DEF PlacesInv, Mirror, Distinct, Erred, Places

LEMMA NetworkPlaces ==
  ASSUME PlacesInv, NEW f \in Fds,
         (\E a \in Addrs : ClientConnects(f, a)) \/ ClientSends(f) \/ ClientGoes(f) \/ HangUp(f)
  PROVE  Mirror' /\ Distinct' /\ Erred'
<1>1. UNCHANGED <<addrs, devices, deleted, sources>>
  BY DEF ClientConnects, ClientSends, ClientGoes, HangUp, server, manager
<1>2. conns \in [Fds -> Conns] /\ \A s \in sources : s.fd \in Fds /\ conns[s.fd].st = "accepted"
  BY DEF PlacesInv, Inv, TypeOK, Conns, Agree, Readers
<1>3. ASSUME NEW g \in Fds, conns[g].st = "accepted", conns[g].hup PROVE conns'[g].hup
  <2>1. conns[g] \in Conns
    BY <1>2
  <2>2. CASE \E a \in Addrs : ClientConnects(f, a)
    <3>1. conns[f].st = "free" /\ \E x : conns' = [conns EXCEPT ![f] = x]
      BY <2>2 DEF ClientConnects
    <3> QED BY <1>2, <1>3, <3>1
  <2>3. CASE ClientSends(f)
    <3>1. \E x : conns' = [conns EXCEPT ![f].inbox = x]
      BY <2>3 DEF ClientSends
    <3> QED BY <1>2, <1>3, <2>1, <3>1 DEF Conns
  <2>4. CASE ClientGoes(f)
    BY <1>2, <1>3, <2>1, <2>4 DEF ClientGoes, Conns
  <2>5. CASE HangUp(f)
    BY <1>2, <1>3, <2>1, <2>5 DEF HangUp, Conns
  <2> QED BY <2>2, <2>3, <2>4, <2>5
<1> QED BY <1>1, <1>2, <1>3, TablesStay

\* Polling readies a source for an error when its connection has hung up.
LEMMA PollPlaces ==
  ASSUME PlacesInv, Poll
  PROVE  Mirror' /\ Distinct' /\ Erred'
<1>1. /\ sources' = {[s EXCEPT !.ev = Event(s.fd)] : s \in sources}
      /\ UNCHANGED <<addrs, devices, deleted, conns>>
  BY DEF Poll, manager, network
<1>2. ASSUME NEW r \in sources', r.ev = "error" PROVE conns'[r.fd].hup
  <2>1. PICK s \in sources : r = [s EXCEPT !.ev = Event(s.fd)]
    BY <1>1
  <2>2. s \in Sources
    BY DEF PlacesInv, Inv, TypeOK, Sources
  <2>3. r.fd = s.fd /\ Event(s.fd) = "error"
    BY <1>2, <2>1, <2>2 DEF Sources
  <2> QED BY <1>1, <2>3 DEF Event
<1> QED BY <1>1, <1>2, TablesStay

\* A connection that is closed is no other source's.
LEMMA ClosedPlaces ==
  ASSUME PlacesInv, NEW f, conns' = [conns EXCEPT ![f] = NoConn],
         sources' = {r \in sources : r.fd # f}
  PROVE  \A s \in sources' : s \in sources /\ conns'[s.fd] = conns[s.fd]
<1>1. \A s \in sources : s.fd \in Fds
  BY DEF PlacesInv, Inv, TypeOK
<1>2. conns \in [Fds -> Conns]
  BY DEF PlacesInv, Inv, TypeOK, Conns
<1> QED BY <1>1, <1>2

LEMMA CloseKeptPlaces ==
  ASSUME PlacesInv, NEW s, NEW cmds, CloseKept(s, cmds)
  PROVE  Mirror' /\ Distinct' /\ Erred'
<1>1. /\ conns' = [conns EXCEPT ![s.fd] = NoConn] /\ sources' = {r \in sources : r.fd # s.fd}
      /\ UNCHANGED <<addrs, devices, deleted>>
  BY DEF CloseKept, Closed
<1> QED BY <1>1, ClosedPlaces, TablesStay

LEMMA CallsDeletedPlaces ==
  ASSUME PlacesInv, CallsDeleted
  PROVE  Mirror' /\ Distinct' /\ Erred'
<1>1. UNCHANGED <<addrs, devices, deleted, sources, conns>>
  BY DEF CallsDeleted, server, network
<1> QED BY <1>1, TablesStay

LEMMA ReceiveRemovePlaces ==
  ASSUME PlacesInv, ReceiveRemove, ~CallsDeleted
  PROVE  /\ Mirror' /\ Distinct' /\ Erred'
         /\ ~deleted /\ current # None /\ current.id \in Places /\ devices = addrs
         /\ devices[current.id] \in Addrs
         /\ devices' = [devices EXCEPT ![current.id] = None] /\ devices'[current.id] = None
<1> DEFINE i == current.id
<1>1. /\ current # None /\ ~deleted /\ UNCHANGED <<deleted, heard>>
      /\ conns' = [conns EXCEPT ![current.fd] = NoConn]
      /\ sources' = {r \in sources : r.fd # current.fd}
      /\ addrs' = [addrs EXCEPT ![i] = None]
      /\ devices' = [devices EXCEPT ![i] = None]
  BY DEF ReceiveRemove, Closed, AddrsReset
<1>2. Inv
  BY DEF PlacesInv
<1>3. /\ i \in Places /\ devices = addrs
      /\ addrs[i] \in Addrs
  <2>1. PICK c \in sources : c.fd = current.fd /\ c.id = i
    BY <1>1, <1>2, CurrentRead
  <2>2. c.fd \in Fds /\ conns[c.fd].st = "accepted" /\ conns[c.fd].addr = addrs[i] /\ i \in Places
    BY <1>1, <1>2, <2>1 DEF Inv, TypeOK, Agree, OneSource
  <2> QED BY <1>1, <1>2, <2>2 DEF PlacesInv, Mirror, Inv, Agree, Queue
<1>4. /\ Len(addrs') = Len(addrs) /\ addrs'[i] = None
      /\ \A j \in Places : j # i => addrs'[j] = addrs[j]
  <2> DEFINE S == Addrs \cup {None}
  <2>1. addrs \in Seq(S) /\ None \in S
    BY <1>2 DEF Inv, TypeOK
  <2> HIDE DEF S
  <2> QED BY <1>1, <1>3, <2>1, UpdateType DEF Places
<1>5. Mirror' /\ devices'[i] = None
  BY <1>1, <1>3, <1>4 DEF Mirror
<1>6. Distinct'
  <2>1. \A j \in Places' : j \in Places /\ (addrs'[j] # None => addrs'[j] = addrs[j])
    BY <1>4 DEF Places
  <2> QED BY <2>1 DEF PlacesInv, Distinct
<1>7. Erred'
  BY <1>1, ClosedPlaces DEF PlacesInv, Erred
<1> QED BY <1>1, <1>3, <1>5, <1>6, <1>7

LEMMA ReceivePlaces ==
  ASSUME PlacesInv, Receive
  PROVE  Mirror' /\ Distinct' /\ Erred'
<1>1. CASE \E s, cmds : CloseKept(s, cmds)
  BY <1>1, CloseKeptPlaces
<1>2. CASE CallsDeleted
  BY <1>2, CallsDeletedPlaces
<1>3. CASE ReceiveRemove
  BY <1>2, <1>3, ReceiveRemovePlaces
<1>4. ASSUME NEW s \in sources, ReceiveRecord(s) PROVE Mirror' /\ Distinct' /\ Erred'
  <2>1. /\ conns' = [conns EXCEPT ![s.fd].inbox = Tail(@)]
        /\ sources' = (sources \ {s}) \cup {[s EXCEPT !.ev = "none"]}
        /\ UNCHANGED <<addrs, devices, deleted>>
    BY <1>4 DEF ReceiveRecord, manager
  <2>2. conns \in [Fds -> Conns] /\ s \in Sources /\ \A r \in sources : r.fd \in Fds
    BY DEF PlacesInv, Inv, TypeOK, Conns, Sources
  <2>3. \A f \in Fds : conns'[f].hup = conns[f].hup
    <3>1. \A f \in Fds : conns[f] \in Conns
      BY <2>2
    <3> QED BY <2>1, <2>2, <3>1 DEF Conns
  <2>4. [s EXCEPT !.ev = "none"].ev = "none"
    BY <2>2 DEF Sources
  <2> QED BY <2>1, <2>2, <2>3, <2>4, TablesStay
<1>5. CASE RecordDone \/ ReceiveNoop \/ (ReceiveKey /\ ~CallsDeleted)
  <2>1. UNCHANGED <<addrs, devices, deleted, sources, conns>>
    BY <1>5 DEF RecordDone, ReceiveNoop, ReceiveKey, manager, network
  <2> QED BY <2>1, TablesStay
<1> QED BY <1>1, <1>2, <1>3, <1>4, <1>5 DEF Receive, ReceiveError, ReceiveFails, ReceiveBad

LEMMA NextPlaces == PlacesInv /\ [Next]_vars => PlacesInv'
<1> SUFFICES ASSUME PlacesInv, [Next]_vars PROVE Mirror' /\ Distinct' /\ Erred'
  BY NextInv DEF PlacesInv
<1>1. CASE UNCHANGED vars \/ AcceptBlocks
  <2>1. UNCHANGED <<addrs, devices, deleted, sources, conns>>
    BY <1>1 DEF vars, server, manager, network, AcceptBlocks
  <2> QED BY <2>1, TablesStay
<1>2. CASE DeleteBackend
  <2>1. /\ deleted' = TRUE /\ addrs' = <<>> /\ sources' = sources
        /\ conns' = [f \in Fds |-> IF conns[f].st = "queued" THEN NoConn ELSE conns[f]]
    BY <1>2 DEF DeleteBackend
  <2>2. \A s \in sources : s.fd \in Fds /\ conns[s.fd].st = "accepted"
    BY DEF PlacesInv, Inv, TypeOK, Agree, Readers
  <2>3. Mirror' /\ Distinct'
    BY <2>1 DEF Mirror, Distinct, Places
  <2>4. Erred'
    BY <2>1, <2>2 DEF PlacesInv, Erred
  <2> QED BY <2>3, <2>4
<1> QED BY <1>1, <1>2, AcceptClientPlaces, NetworkPlaces, PollPlaces, ReceivePlaces
        DEF Next, Accept, Crashed

LEMMA InitPlaces == Init => PlacesInv
  BY InitInv DEF Init, PlacesInv, Mirror, Distinct, Erred, Places

LEMMA PlacesInvariance == Spec => []PlacesInv
  BY InitPlaces, NextPlaces, PTL DEF Spec

-----------------------------------------------------------------------------
(* Requests for a removal.                                                 *)

\* What becomes of a source that is destroyed.
LEMMA SourceGoes ==
  ASSUME PlacesInv, Next, NEW s \in sources, \A r \in sources' : r.fd # s.fd
  PROVE  devices'[s.id] = None \/ ClosedEarly(s)
<1>1. Inv
  BY DEF PlacesInv
<1>2. s \notin sources'
  OBVIOUS
<1>3. CASE AcceptClient
  <2> DEFINE i == PlaceFor(conns[Head(backlog)].addr)
             new == [fd |-> Head(backlog), id |-> i, ev |-> "none"]
  <2>1. conns[Head(backlog)].st = "queued"
    BY <1>3, AcceptPlaces
  <2>2. /\ new \in sources' \ sources
        /\ \A r \in sources \ Replaced(i) : r \in sources'
        /\ \A r \in Replaced(i) : r.id = i
    BY <1>1, <1>3, <2>1, AcceptSources
  <2>3. new.id = s.id
    BY <1>2, <2>2
  <2> QED BY <2>2, <2>3 DEF ClosedEarly
<1>4. ASSUME NEW t \in sources, ReceiveError(t) PROVE ClosedEarly(s)
  <2>1. sources' = sources \/ sources' = {r \in sources : r.fd # t.fd}
    BY <1>4 DEF ReceiveError, CloseKept, CallsDeleted, server
  <2>2. s.fd = t.fd
    BY <1>2, <2>1
  <2>3. t.ev = "error"
    BY <1>4 DEF ReceiveError
  <2> QED BY <2>2, <2>3 DEF PlacesInv, Erred, ClosedEarly
<1>10. ASSUME NEW t \in sources, ReceiveFails(t) PROVE ClosedEarly(s)
  <2>1. sources' = sources \/ sources' = {r \in sources : r.fd # t.fd}
    BY <1>10 DEF ReceiveFails, CloseKept, CallsDeleted, server
  <2>2. s = t
    BY <1>1, <1>2, <2>1 DEF Inv, Agree, Readers
  <2> QED BY <1>10, <2>2 DEF ReceiveFails, Idle, ClosedEarly
<1>5. CASE ReceiveBad
  <2>1. sources' = sources \/ sources' = {r \in sources : r.fd # current.fd}
    BY <1>5 DEF ReceiveBad, CloseKept, CallsDeleted, server
  <2>2. current.fd = s.fd
    BY <1>2, <2>1
  <2> QED BY <1>5, <2>2 DEF ReceiveBad, ClosedEarly
<1>6. CASE ReceiveRemove
  <2>1. ~CallsDeleted
    BY <1>2 DEF CallsDeleted, server
  <2>2. sources' = {r \in sources : r.fd # current.fd}
    BY <1>6, <2>1 DEF ReceiveRemove
  <2>3. current # None /\ devices'[current.id] = None
    BY <1>6, <2>1, ReceiveRemovePlaces
  <2>4. PICK c \in sources : c.fd = current.fd /\ c.id = current.id
    BY <1>1, <2>3, CurrentRead
  <2>5. c = s
    BY <1>1, <1>2, <2>2, <2>4 DEF Inv, Agree, Readers
  <2> QED BY <2>3, <2>4, <2>5
<1>7. ASSUME NEW t \in sources, ReceiveRecord(t) PROVE FALSE
  <2>1. sources' = (sources \ {t}) \cup {[t EXCEPT !.ev = "none"]} /\ t \in Sources
    BY <1>1, <1>7 DEF ReceiveRecord, Inv, TypeOK, Sources
  <2>2. [t EXCEPT !.ev = "none"].fd = t.fd
    BY <2>1 DEF Sources
  <2> QED BY <1>2, <2>1, <2>2
<1>8. CASE Poll
  <2>1. sources' = {[r EXCEPT !.ev = Event(r.fd)] : r \in sources} /\ s \in Sources
    BY <1>1, <1>8 DEF Poll, Inv, TypeOK, Sources
  <2>2. [s EXCEPT !.ev = Event(s.fd)].fd = s.fd
    BY <2>1 DEF Sources
  <2> QED BY <2>1, <2>2
<1>9. CASE \/ Crashed \/ AcceptBlocks \/ RecordDone \/ ReceiveNoop \/ ReceiveKey \/ DeleteBackend
           \/ \E f \in Fds : (\E a \in Addrs : ClientConnects(f, a))
                             \/ ClientSends(f) \/ ClientGoes(f) \/ HangUp(f)
  <2>1. sources' = sources
    BY <1>9 DEF Crashed, AcceptBlocks, RecordDone, ReceiveNoop, ReceiveKey, CallsDeleted,
                DeleteBackend, ClientConnects, ClientSends, ClientGoes, HangUp, vars, server
  <2> QED BY <1>2, <2>1
<1> QED BY <1>3, <1>4, <1>5, <1>6, <1>7, <1>8, <1>9, <1>10 DEF Next, Accept, Receive

\* A client that asks for the removal of its device loses the device, unless the
\* connection that carries the request is closed first.
THEOREM RemovalsKept == Spec => RemovalLostOnlyWhenClosed
<1> DEFINE A == \A s \in sources :
                  (\A r \in sources' : r.fd # s.fd) /\ Waiting(s.fd, Remove) =>
                    devices'[s.id] = None \/ ClosedEarly(s)
<1>1. PlacesInv /\ [Next]_vars => [A]_vars
  BY SourceGoes
<1> HIDE DEF A
<1>2. Spec => [][A]_vars
  BY <1>1, PlacesInvariance, PTL DEF Spec
<1> QED BY <1>2 DEF A, RemovalLostOnlyWhenClosed

-----------------------------------------------------------------------------
(* Records and the keys in them.                                           *)

HasIn(q, k) == \E n \in 1..Len(q) : Contains(q[n], k)

\* The keys of a connection's records, in the order of the records.
OrderedBox(q) ==
  /\ \A n \in 1..Len(q) : Rising(q[n])
  /\ \A m, n \in 1..Len(q) : m < n =>
       \A k, j \in Keys : Contains(q[m], k) /\ Contains(q[n], j) => k < j

LEMMA EmptyBox == OrderedBox(<<>>) /\ \A k : ~HasIn(<<>>, k)
  BY DEF OrderedBox, HasIn

LEMMA AppendBox ==
  ASSUME NEW q \in Seq(Seq(Entries)), OrderedBox(q), NEW b \in Seq(Entries), Rising(b),
         \A k, j \in Keys : HasIn(q, k) /\ Contains(b, j) => k < j
  PROVE  /\ OrderedBox(Append(q, b))
         /\ \A k : HasIn(Append(q, b), k) <=> HasIn(q, k) \/ Contains(b, k)
<1> DEFINE r == Append(q, b)
<1>1. /\ Len(q) \in Nat /\ Len(r) = Len(q) + 1 /\ r[Len(q) + 1] = b
      /\ \A n \in 1..Len(q) : r[n] = q[n]
  OBVIOUS
<1>2. \A n \in 1..Len(r) : n \in 1..Len(q) \/ n = Len(q) + 1
  BY <1>1
<1>3. 1..Len(q) \subseteq 1..Len(r) /\ Len(q) + 1 \in 1..Len(r)
  BY <1>1
<1> HIDE DEF r
<1>4. ASSUME NEW m \in 1..Len(r), NEW n \in 1..Len(r), m < n,
             NEW k \in Keys, NEW j \in Keys, Contains(r[m], k), Contains(r[n], j)
      PROVE  k < j
  <2>1. m \in 1..Len(q) /\ r[m] = q[m]
    BY <1>1, <1>2, <1>4
  <2>2. CASE n = Len(q) + 1
    BY <1>1, <1>4, <2>1, <2>2 DEF HasIn
  <2>3. CASE n \in 1..Len(q)
    BY <1>1, <1>4, <2>1, <2>3 DEF OrderedBox
  <2> QED BY <1>2, <2>2, <2>3
<1>5. \A n \in 1..Len(r) : Rising(r[n])
  BY <1>1, <1>2 DEF OrderedBox
<1>6. ASSUME NEW k PROVE HasIn(r, k) <=> HasIn(q, k) \/ Contains(b, k)
  BY <1>1, <1>2, <1>3 DEF HasIn
<1> QED BY <1>4, <1>5, <1>6 DEF OrderedBox, r

LEMMA TailBox ==
  ASSUME NEW q \in Seq(Seq(Entries)), q # <<>>, OrderedBox(q)
  PROVE  /\ OrderedBox(Tail(q)) /\ Rising(Head(q))
         /\ \A k : HasIn(q, k) <=> Contains(Head(q), k) \/ HasIn(Tail(q), k)
         /\ \A k, j \in Keys : Contains(Head(q), k) /\ HasIn(Tail(q), j) => k < j
<1> DEFINE r == Tail(q)
           h == Head(q)
<1>1. /\ Len(q) \in Nat \ {0} /\ Len(r) = Len(q) - 1 /\ q[1] = h
      /\ \A n \in 1..Len(r) : r[n] = q[n + 1]
  OBVIOUS
<1>2. /\ \A n \in 1..Len(r) : n + 1 \in 1..Len(q) /\ n + 1 > 1
      /\ \A n \in 1..Len(q) : n = 1 \/ (n - 1 \in 1..Len(r) /\ (n - 1) + 1 = n)
      /\ 1 \in 1..Len(q)
  BY <1>1
<1> HIDE DEF r, h
<1>3. ASSUME NEW m \in 1..Len(r), NEW n \in 1..Len(r), m < n,
             NEW k \in Keys, NEW j \in Keys, Contains(r[m], k), Contains(r[n], j)
      PROVE  k < j
  <2>1. m + 1 < n + 1 /\ Contains(q[m + 1], k) /\ Contains(q[n + 1], j)
    BY <1>1, <1>3
  <2> QED BY <1>2, <2>1 DEF OrderedBox
<1>4. \A n \in 1..Len(r) : Rising(r[n])
  BY <1>1, <1>2 DEF OrderedBox
<1>5. Rising(h)
  BY <1>1, <1>2 DEF OrderedBox
<1>6. ASSUME NEW k PROVE HasIn(q, k) <=> Contains(h, k) \/ HasIn(r, k)
  <2>1. ASSUME NEW n \in 1..Len(q), Contains(q[n], k) PROVE Contains(h, k) \/ HasIn(r, k)
    <3>1. CASE n = 1
      BY <1>1, <2>1, <3>1
    <3>2. CASE n - 1 \in 1..Len(r) /\ (n - 1) + 1 = n
      <4>1. r[n - 1] = q[n]
        BY <1>1, <3>2
      <4> QED BY <2>1, <3>2, <4>1 DEF HasIn
    <3> QED BY <1>2, <3>1, <3>2
  <2>2. ASSUME NEW n \in 1..Len(r), Contains(r[n], k) PROVE HasIn(q, k)
    BY <1>1, <1>2, <2>2 DEF HasIn
  <2>3. Contains(h, k) => HasIn(q, k)
    BY <1>1, <1>2 DEF HasIn
  <2> QED BY <2>1, <2>2, <2>3 DEF HasIn
<1>7. ASSUME NEW k \in Keys, NEW j \in Keys, Contains(h, k), HasIn(r, j) PROVE k < j
  <2>1. PICK n \in 1..Len(r) : Contains(r[n], j)
    BY <1>7 DEF HasIn
  <2>2. Contains(q[1], k) /\ Contains(q[n + 1], j) /\ 1 < n + 1
    BY <1>1, <1>2, <1>7, <2>1
  <2> QED BY <1>2, <2>2 DEF OrderedBox
<1> QED BY <1>3, <1>4, <1>5, <1>6, <1>7 DEF OrderedBox, r, h

LEMMA TailRising ==
  ASSUME NEW r \in Seq(Entries), r # <<>>, Rising(r)
  PROVE  /\ Rising(Tail(r)) /\ Contains(r, Head(r))
         /\ \A k : Contains(Tail(r), k) => Contains(r, k)
         /\ \A k \in Keys : Head(r) \in Keys /\ Contains(Tail(r), k) => Head(r) < k
<1> DEFINE t == Tail(r)
<1>1. /\ Len(r) \in Nat \ {0} /\ Len(t) = Len(r) - 1 /\ r[1] = Head(r)
      /\ \A n \in 1..Len(t) : t[n] = r[n + 1]
  OBVIOUS
<1>2. /\ \A n \in 1..Len(t) : n + 1 \in 1..Len(r) /\ 1 < n + 1
      /\ \A m, n \in 1..Len(t) : m < n => m + 1 < n + 1
      /\ 1 \in 1..Len(r)
  BY <1>1
<1> HIDE DEF t
<1>3. ASSUME NEW m \in 1..Len(t), NEW n \in 1..Len(t), m < n, t[m] \in Keys, t[n] \in Keys
      PROVE  t[m] < t[n]
  BY <1>1, <1>2, <1>3 DEF Rising
<1>4. ASSUME Head(r) \in Keys, NEW k \in Keys, Contains(t, k) PROVE Head(r) < k
  <2>1. PICK n \in 1..Len(t) : t[n] = k
    BY <1>4 DEF Contains
  <2> QED BY <1>1, <1>2, <1>4, <2>1 DEF Rising
<1> QED BY <1>1, <1>2, <1>3, <1>4 DEF Rising, Contains, t

-----------------------------------------------------------------------------
(* The keys on their way.                                                  *)

Live(f) == conns[f].st # "free"

\* Key k has been sent through f and not been handled yet.
InRest(k) == current # None /\ Contains(current.rest, k)
OnWay(f, k) == HasIn(conns[f].inbox, k) \/ (InRest(k) /\ current.fd = f)

\* The same client's connections f and g, f the older one.
Before(f, g) ==
  /\ Live(f) /\ Live(g) /\ f # g /\ conns[f].addr = conns[g].addr
  /\ \/ conns[f].st = "accepted" /\ conns[g].st = "queued"
     \/ \E m, n \in 1..Len(backlog) : m < n /\ backlog[m] = f /\ backlog[n] = g

\* Every connection that waits is in the listening socket's queue.
Queued == \A f \in Fds : conns[f].st = "queued" => \E n \in 1..Len(backlog) : backlog[n] = f

Numbered ==
  /\ \A f \in Fds : Live(f) => \A k \in Keys : OnWay(f, k) => k <= sent
  /\ \A a \in Addrs : heard[a] <= sent

\* The record that is handled comes before those that are still to be read.
RestFirst ==
  current # None =>
    /\ Rising(current.rest)
    /\ \A k, j \in Keys : InRest(k) /\ HasIn(conns[current.fd].inbox, j) => k < j

\* A client sends through its newest connection only.
OlderFirst ==
  \A f, g \in Fds : Before(f, g) =>
    /\ ~conns[f].up
    /\ \A k, j \in Keys : OnWay(f, k) /\ OnWay(g, j) => k < j

\* No key on its way is older than one that was reported of its client.
HeardFirst ==
  ~deleted => \A f \in Fds : Live(f) => \A k \in Keys : OnWay(f, k) => heard[conns[f].addr] < k

Order ==
  /\ Queued /\ Numbered /\ RestFirst /\ OlderFirst /\ HeardFirst
  /\ \A f \in Fds : Live(f) => OrderedBox(conns[f].inbox)

\* What the proof of the refinement rests on.
RegistryInv == PlacesInv /\ Order

LEMMA Types ==
  ASSUME Inv
  PROVE  /\ Keys \subseteq Nat /\ sent \in Nat
         /\ conns \in [Fds -> Conns]
         /\ \A f \in Fds : conns[f].inbox \in Seq(Seq(Entries))
         /\ \A a \in Addrs : heard[a] \in Nat
         /\ current # None => /\ current.rest \in Seq(Entries) /\ current.fd \in Fds
                              /\ conns[current.fd].st = "accepted"
<1>1. /\ conns \in [Fds -> Conns] /\ heard \in [Addrs -> {0} \cup Keys] /\ sent \in {0} \cup Keys
      /\ current # None => current \in [fd : Fds, id : Nat \ {0}, rest : Seq(Entries)]
  BY DEF Inv, TypeOK, Conns
<1>2. Keys \subseteq Nat
  BY BackendAssumption DEF Keys
<1>3. \A f \in Fds : conns[f].inbox \in Seq(Seq(Entries))
  BY <1>1 DEF Conns
<1>4. current # None => conns[current.fd].st = "accepted"
  BY DEF Inv, Agree, Readers
<1> QED BY <1>1, <1>2, <1>3, <1>4

\* A step after which no more is on its way, and at most a connection is new.
LEMMA NoMoreOnWay ==
  ASSUME Inv, Order, sent' = sent, UNCHANGED heard, deleted => deleted', Queued',
         \A f \in Fds : conns'[f].st # "free" =>
           \/ /\ Live(f) /\ conns'[f].addr = conns[f].addr /\ conns'[f].inbox = conns[f].inbox
              /\ conns'[f].up => conns[f].up
           \/ ~Live(f) /\ conns'[f].inbox = <<>> /\ (current' = None \/ current'.fd # f),
         \/ current' = None
         \/ /\ current # None /\ current' # None /\ current'.fd = current.fd
            /\ conns'[current.fd].inbox = conns[current.fd].inbox
            /\ Rising(current'.rest) /\ \A k : Contains(current'.rest, k) => Contains(current.rest, k),
         \A f, g \in Fds : Before(f, g)' =>
           \/ Before(f, g)
           \/ ~conns'[f].up /\ conns'[g].inbox = <<>> /\ (current' = None \/ current'.fd # g)
  PROVE  Order'
<1>1. /\ Keys \subseteq Nat /\ sent \in Nat /\ \A a \in Addrs : heard[a] \in Nat
      /\ current # None => current.fd \in Fds /\ Live(current.fd)
  BY Types DEF Live
<1>2. \A k : ~HasIn(<<>>, k)
  BY EmptyBox
<1>3. ASSUME NEW f \in Fds, conns'[f].st # "free", NEW k, OnWay(f, k)'
      PROVE  /\ OnWay(f, k) /\ Live(f) /\ conns'[f].addr = conns[f].addr
             /\ conns'[f].up => conns[f].up
  BY <1>1, <1>2, <1>3 DEF OnWay, InRest
<1>4. Numbered'
  BY <1>3 DEF Order, Numbered, Live
<1>5. RestFirst'
  <2> SUFFICES ASSUME current' # None
               PROVE  /\ Rising(current'.rest)
                      /\ \A k, j \in Keys :
                           InRest(k)' /\ HasIn(conns'[current'.fd].inbox, j) => k < j
    BY DEF RestFirst
  <2> QED BY <1>1 DEF Order, RestFirst, InRest
<1>6. OlderFirst'
  <2> SUFFICES ASSUME NEW f \in Fds, NEW g \in Fds, Before(f, g)'
               PROVE  /\ ~conns'[f].up
                      /\ \A k, j \in Keys : OnWay(f, k)' /\ OnWay(g, j)' => k < j
    BY DEF OlderFirst
  <2>1. conns'[f].st # "free" /\ conns'[g].st # "free"
    BY DEF Before, Live
  <2>2. CASE Before(f, g)
    <3>1. ~conns[f].up /\ \A k, j \in Keys : OnWay(f, k) /\ OnWay(g, j) => k < j
      BY <2>2 DEF Order, OlderFirst
    <3>2. \A k, j \in Keys : OnWay(f, k)' /\ OnWay(g, j)' => k < j
      BY <1>3, <2>1, <3>1
    <3>3. Live(f) /\ (conns'[f].up => conns[f].up)
      BY <2>1, <2>2 DEF Before
    <3> QED BY <3>1, <3>2, <3>3
  <2>3. CASE ~conns'[f].up /\ conns'[g].inbox = <<>> /\ (current' = None \/ current'.fd # g)
    <3>1. \A j : ~OnWay(g, j)'
      BY <1>2, <2>3 DEF OnWay, InRest
    <3> QED BY <2>3, <3>1
  <2> QED BY <2>2, <2>3
<1>7. HeardFirst'
  BY <1>3 DEF Order, HeardFirst, Live
<1>8. \A f \in Fds : Live(f)' => OrderedBox(conns'[f].inbox)
  BY EmptyBox DEF Order, Live
<1> QED BY <1>4, <1>5, <1>6, <1>7, <1>8 DEF Order

\* Connections keep their states, clients and records.
LEMMA SameBoxes ==
  ASSUME Inv, Order, UNCHANGED <<current, backlog, heard, deleted, sent>>,
         \A g \in Fds : /\ conns'[g].st = conns[g].st /\ conns'[g].addr = conns[g].addr
                        /\ conns'[g].inbox = conns[g].inbox /\ (conns'[g].up => conns[g].up)
  PROVE  Order'
<1>1. \/ current' = None
      \/ /\ current # None /\ current' # None /\ current'.fd = current.fd
         /\ conns'[current.fd].inbox = conns[current.fd].inbox
         /\ Rising(current'.rest) /\ \A k : Contains(current'.rest, k) => Contains(current.rest, k)
  BY Types DEF Order, RestFirst
<1>2. Queued'
  BY DEF Order, Queued
<1>3. \A f, g \in Fds : Before(f, g)' => Before(f, g)
  BY DEF Before, Live
<1> QED BY <1>1, <1>2, <1>3, NoMoreOnWay DEF Live

LEMMA ClientConnectsOrder ==
  ASSUME Inv, Order, NEW f \in Fds, NEW a \in Addrs, ClientConnects(f, a)
  PROVE  Order'
<1>1. /\ conns[f].st = "free"
      /\ \A g \in Fds : conns[g].addr = a => ~conns[g].up
      /\ conns' = [conns EXCEPT ![f] = [NoConn EXCEPT !.st = "queued", !.addr = a, !.up = TRUE]]
      /\ backlog' = Append(backlog, f)
      /\ UNCHANGED <<current, heard, deleted, sent>>
  BY DEF ClientConnects, server, manager
<1>2. /\ conns'[f].st = "queued" /\ conns'[f].addr = a /\ conns'[f].inbox = <<>>
      /\ \A g \in Fds : g # f => conns'[g] = conns[g]
  <2> DEFINE new == [NoConn EXCEPT !.st = "queued", !.addr = a, !.up = TRUE]
  <2>1. new.st = "queued" /\ new.addr = a /\ new.inbox = <<>>
    BY DEF NoConn
  <2>2. conns' = [conns EXCEPT ![f] = new]
    BY <1>1
  <2> HIDE DEF new
  <2> QED BY <2>1, <2>2, Types
<1>3. /\ Len(backlog) \in Nat /\ Len(backlog') = Len(backlog) + 1
      /\ \A n \in 1..Len(backlog) : backlog'[n] = backlog[n] /\ backlog[n] # f
      /\ backlog'[Len(backlog) + 1] = f
  <2>1. backlog \in Seq(Fds)
    BY DEF Inv, TypeOK
  <2> QED BY <1>1, <2>1 DEF Inv, Agree, Queue
<1>4. \A n \in 1..Len(backlog') : n \in 1..Len(backlog) \/ n = Len(backlog) + 1
  BY <1>3
<1>5. Queued'
  <2>1. 1..Len(backlog) \subseteq 1..Len(backlog') /\ Len(backlog) + 1 \in 1..Len(backlog')
    BY <1>3
  <2> QED BY <1>2, <1>3, <2>1 DEF Order, Queued
<1>6. current # None => current.fd # f
  BY <1>1, Types
<1>7. ASSUME NEW g \in Fds, NEW h \in Fds, Before(g, h)'
      PROVE  Before(g, h) \/ (~conns'[g].up /\ h = f)
  <2>1. /\ conns'[g].st # "free" /\ conns'[h].st # "free" /\ g # h
        /\ conns'[g].addr = conns'[h].addr
        /\ \/ conns'[g].st = "accepted" /\ conns'[h].st = "queued"
           \/ \E m, n \in 1..Len(backlog') : m < n /\ backlog'[m] = g /\ backlog'[n] = h
    BY <1>7 DEF Before, Live
  <2>2. CASE h = f
    BY <1>1, <1>2, <2>1, <2>2
  <2>3. CASE g = f
    BY <1>2, <1>3, <1>4, <2>1, <2>3
  <2>4. CASE g # f /\ h # f
    BY <1>2, <1>3, <1>4, <2>1, <2>4 DEF Before, Live
  <2> QED BY <2>2, <2>3, <2>4
<1>8. \A g \in Fds : conns'[g].st # "free" =>
        \/ /\ Live(g) /\ conns'[g].addr = conns[g].addr /\ conns'[g].inbox = conns[g].inbox
           /\ conns'[g].up => conns[g].up
        \/ ~Live(g) /\ conns'[g].inbox = <<>> /\ (current' = None \/ current'.fd # g)
  BY <1>1, <1>2, <1>6 DEF Live
<1>9. \/ current' = None
      \/ /\ current # None /\ current' # None /\ current'.fd = current.fd
         /\ conns'[current.fd].inbox = conns[current.fd].inbox
         /\ Rising(current'.rest) /\ \A k : Contains(current'.rest, k) => Contains(current.rest, k)
  BY <1>1, <1>2, <1>6, Types DEF Order, RestFirst
<1>10. \A g, h \in Fds : Before(g, h)' =>
         \/ Before(g, h)
         \/ ~conns'[g].up /\ conns'[h].inbox = <<>> /\ (current' = None \/ current'.fd # h)
  BY <1>1, <1>2, <1>6, <1>7
<1> QED BY <1>1, <1>5, <1>8, <1>9, <1>10, NoMoreOnWay

\* Connections and backlog stay, and packets of the record are taken off it.
LEMMA TakenOrder ==
  ASSUME Inv, Order, UNCHANGED <<conns, backlog, sent, heard, deleted>>,
         \/ current' = None \/ current' = current
         \/ current # None /\ current.rest # <<>> /\ PacketDone
  PROVE  Order'
<1>1. \/ current' = None
      \/ /\ current # None /\ current' # None /\ current'.fd = current.fd
         /\ conns'[current.fd].inbox = conns[current.fd].inbox
         /\ Rising(current'.rest) /\ \A k : Contains(current'.rest, k) => Contains(current.rest, k)
  <2>1. CASE current' = current
    BY <2>1 DEF Order, RestFirst
  <2>2. CASE current # None /\ current.rest # <<>> /\ PacketDone
    <3>1. /\ current.rest \in Seq(Entries) /\ Rising(current.rest)
          /\ current \in [fd : Fds, id : Nat \ {0}, rest : Seq(Entries)]
      BY <2>2 DEF Order, RestFirst, Inv, TypeOK
    <3>2. current'.fd = current.fd /\ current'.rest = Tail(current.rest)
      BY <2>2, <3>1 DEF PacketDone
    <3> QED BY <2>2, <3>1, <3>2, TailRising
  <2> QED BY <2>1, <2>2
<1>2. Queued'
  BY DEF Order, Queued
<1>3. \A f, g \in Fds : Before(f, g)' => Before(f, g)
  BY DEF Before, Live
<1> QED BY <1>1, <1>2, <1>3, NoMoreOnWay DEF Live

\* The client loses its connection.
LEMMA ClientGoesOrder ==
  ASSUME Inv, Order, NEW f \in Fds, ClientGoes(f)
  PROVE  Order'
<1>1. /\ conns' = [conns EXCEPT ![f].up = FALSE]
      /\ UNCHANGED <<current, backlog, heard, deleted, sent>>
  BY DEF ClientGoes, server, manager
<1>2. ASSUME NEW g \in Fds
      PROVE  /\ conns'[g].st = conns[g].st /\ conns'[g].addr = conns[g].addr
             /\ conns'[g].inbox = conns[g].inbox /\ (conns'[g].up => conns[g].up)
  <2>1. conns[g] \in Conns /\ conns \in [Fds -> Conns]
    BY Types
  <2> QED BY <1>1, <2>1 DEF Conns
<1> QED BY <1>1, <1>2, SameBoxes

\* The server's kernel notices.
LEMMA HangUpOrder ==
  ASSUME Inv, Order, NEW f \in Fds, HangUp(f)
  PROVE  Order'
<1>1. UNCHANGED <<current, heard, deleted, sent>>
  BY DEF HangUp, server, manager
<1>2. conns \in [Fds -> Conns]
  BY Types
<1>3. CASE conns[f].st # "queued"
  <2>1. conns' = [conns EXCEPT ![f].hup = TRUE] /\ UNCHANGED backlog
    BY <1>3 DEF HangUp
  <2>2. ASSUME NEW g \in Fds
        PROVE  /\ conns'[g].st = conns[g].st /\ conns'[g].addr = conns[g].addr
               /\ conns'[g].inbox = conns[g].inbox /\ (conns'[g].up => conns[g].up)
    <3>1. conns[g] \in Conns
      BY <1>2
    <3> QED BY <1>2, <2>1, <3>1 DEF Conns
  <2> QED BY <1>1, <2>1, <2>2, SameBoxes
<1>4. CASE conns[f].st = "queued"
  <2>1. conns' = [conns EXCEPT ![f] = NoConn]
    BY <1>4 DEF HangUp
  <2>2. conns'[f].st = "free" /\ \A g \in Fds : g # f => conns'[g] = conns[g]
    BY <1>2, <2>1, NoConnType
  <2>3. PICK i \in 1..Len(backlog) :
          /\ backlog[i] = f
          /\ backlog' = SubSeq(backlog, 1, i - 1) \o SubSeq(backlog, i + 1, Len(backlog))
    BY <1>4 DEF HangUp
  <2>4. /\ Len(backlog) \in Nat \ {0} /\ Len(backlog') = Len(backlog) - 1
        /\ \A j \in 1..(Len(backlog) - 1) :
             backlog'[j] = IF j < i THEN backlog[j] ELSE backlog[j + 1]
    <3>1. backlog \in Seq(Fds)
      BY DEF Inv, TypeOK
    <3>2. Len(backlog) \in Nat \ {0}
      BY <2>3, <3>1
    <3>3. LET r == SubSeq(backlog, 1, i - 1) \o SubSeq(backlog, i + 1, Len(backlog))
          IN  /\ r \in Seq(Fds) /\ Len(r) = Len(backlog) - 1
              /\ \A j \in 1..(Len(backlog) - 1) :
                   r[j] = IF j < i THEN backlog[j] ELSE backlog[j + 1]
      BY <3>1, TakenOut, Zenon
    <3> QED BY <2>3, <3>2, <3>3, Zenon
  <2> HIDE <2>3
  <2>5. backlog[i] = f /\ i \in 1..Len(backlog)
    BY <2>3
  <2>6. ASSUME NEW n \in 1..Len(backlog), backlog[n] # f
        PROVE  \E j \in 1..Len(backlog') : backlog'[j] = backlog[n]
    <3>1. CASE n < i
      <4>1. n \in 1..Len(backlog') /\ backlog'[n] = backlog[n]
        BY <2>4, <2>5, <3>1
      <4> QED BY <4>1
    <3>2. CASE n > i
      <4>1. n - 1 \in 1..Len(backlog') /\ (n - 1) + 1 = n /\ ~(n - 1 < i)
        BY <2>4, <2>5, <3>2
      <4>2. backlog'[n - 1] = backlog[n]
        BY <2>4, <4>1
      <4> QED BY <4>1, <4>2
    <3> QED BY <2>5, <2>6, <3>1, <3>2
  <2>7. Queued'
    BY <2>2, <2>6 DEF Order, Queued
  <2>8. ASSUME NEW g \in Fds, NEW h \in Fds, Before(g, h)' PROVE Before(g, h)
    <3>1. g # f /\ h # f /\ conns'[g] = conns[g] /\ conns'[h] = conns[h]
      BY <2>2, <2>8 DEF Before, Live
    <3>2. ASSUME NEW m \in 1..Len(backlog'), NEW n \in 1..Len(backlog'), m < n
          PROVE  \E u, v \in 1..Len(backlog) :
                   u < v /\ backlog[u] = backlog'[m] /\ backlog[v] = backlog'[n]
      <4> DEFINE u == IF m < i THEN m ELSE m + 1
                 v == IF n < i THEN n ELSE n + 1
      <4>1. u \in 1..Len(backlog) /\ v \in 1..Len(backlog) /\ u < v
        BY <2>4, <2>5, <3>2
      <4>2. backlog[u] = backlog'[m] /\ backlog[v] = backlog'[n]
        BY <2>4, <3>2
      <4> HIDE DEF u, v
      <4> QED BY <4>1, <4>2
    <3> QED BY <2>8, <3>1, <3>2 DEF Before, Live
  <2>9. \A g \in Fds : conns'[g].st # "free" => g # f /\ conns'[g] = conns[g]
    BY <2>2
  <2>10. current # None => current.fd # f /\ conns'[current.fd] = conns[current.fd]
    BY <1>4, <2>2, Types
  <2>11. current # None => /\ current' # None /\ current'.fd = current.fd
                           /\ Rising(current'.rest)
                           /\ \A k : Contains(current'.rest, k) => Contains(current.rest, k)
    BY <1>1 DEF Order, RestFirst
  <2> QED BY <1>1, <2>7, <2>8, <2>9, <2>10, <2>11, NoMoreOnWay DEF Live
<1> QED BY <1>3, <1>4

\* A connection is closed by the server, and the record with it.
LEMMA ClosedOrder ==
  ASSUME Inv, Order, NEW f, conns' = [conns EXCEPT ![f] = NoConn], current' = None,
         UNCHANGED <<backlog, heard, sent>>, deleted => deleted',
         f \in Fds => conns[f].st = "accepted"
  PROVE  Order'
<1>1. conns \in [Fds -> Conns]
  BY Types
<1>2. \A g \in Fds : IF g = f THEN conns'[g].st = "free" ELSE conns'[g] = conns[g]
  BY <1>1, NoConnType
<1>3. Queued'
  BY <1>2 DEF Order, Queued
<1>4. \A g, h \in Fds : Before(g, h)' => Before(g, h)
  BY <1>2 DEF Before, Live
<1> QED BY <1>2, <1>3, <1>4, NoMoreOnWay DEF Live

\* The backend is deleted, and the listening socket with it.
LEMMA DeleteBackendOrder ==
  ASSUME Inv, Order, DeleteBackend
  PROVE  Order'
<1>1. /\ deleted' = TRUE /\ backlog' = <<>> /\ current' = None
      /\ conns' = [f \in Fds |-> IF conns[f].st = "queued" THEN NoConn ELSE conns[f]]
      /\ UNCHANGED <<heard, sent>>
  BY DEF DeleteBackend, Idle
<1>2. \A g \in Fds : conns'[g].st # "free" => conns'[g] = conns[g] /\ conns'[g].st # "queued"
  BY <1>1, NoConnType
<1>3. Queued'
  BY <1>2 DEF Queued
<1>4. \A g, h \in Fds : ~Before(g, h)'
  BY <1>1, <1>2 DEF Before, Live
<1> QED BY <1>1, <1>2, <1>3, <1>4, NoMoreOnWay DEF Live

\* The connection that waited longest is the server's now.
LEMMA AcceptClientOrder ==
  ASSUME PlacesInv, Order, AcceptClient
  PROVE  Order'
<1> DEFINE f == Head(backlog)
           closed == {s.fd : s \in Replaced(PlaceFor(conns[f].addr))}
<1>1. /\ current = None /\ current' = None /\ UNCHANGED <<heard, deleted, sent>>
      /\ backlog # <<>> /\ backlog' = Tail(backlog)
      /\ conns' = [g \in Fds |-> CASE g = f                 -> [conns[g] EXCEPT !.st = "accepted"]
                                   [] g # f /\ g \in closed -> NoConn
                                   [] OTHER                 -> conns[g]]
  BY DEF AcceptClient
<1>2. Inv /\ conns \in [Fds -> Conns]
  BY Types DEF PlacesInv
<1>3. /\ Len(backlog) \in Nat \ {0} /\ Len(backlog') = Len(backlog) - 1 /\ f = backlog[1]
      /\ \A n \in 1..Len(backlog') : backlog'[n] = backlog[n + 1]
  <2>1. backlog \in Seq(Fds)
    BY <1>2 DEF Inv, TypeOK
  <2> QED BY <1>1, <2>1
<1>4. f \in Fds /\ conns[f].st = "queued"
  <2>1. backlog \in Seq(Fds) /\ 1 \in 1..Len(backlog)
    BY <1>2, <1>3 DEF Inv, TypeOK
  <2> QED BY <1>2, <1>3, <2>1 DEF Inv, Agree, Queue
<1>5. \A g \in closed : g \in Fds => conns[g].st = "accepted"
  BY <1>2 DEF Replaced, Inv, Agree, Readers
<1> HIDE DEF f, closed
<1>6. /\ conns'[f].st = "accepted" /\ conns'[f].addr = conns[f].addr
      /\ conns'[f].inbox = conns[f].inbox /\ conns'[f].up = conns[f].up
  <2>1. conns'[f] = [conns[f] EXCEPT !.st = "accepted"] /\ conns[f] \in Conns
    BY <1>1, <1>2, <1>4
  <2> QED BY <2>1 DEF Conns
<1>7. ASSUME NEW g \in Fds, g # f
      PROVE  conns'[g] = conns[g] \/ (conns'[g].st = "free" /\ conns[g].st = "accepted")
  BY <1>1, <1>5, <1>7, NoConnType
<1>8. Queued'
  <2> SUFFICES ASSUME NEW g \in Fds, conns'[g].st = "queued"
               PROVE  \E n \in 1..Len(backlog') : backlog'[n] = g
    BY DEF Queued
  <2>1. g # f /\ conns[g].st = "queued"
    BY <1>6, <1>7
  <2>2. PICK n \in 1..Len(backlog) : backlog[n] = g
    BY <2>1 DEF Order, Queued
  <2>3. n - 1 \in 1..Len(backlog') /\ (n - 1) + 1 = n
    BY <1>3, <2>1, <2>2
  <2> QED BY <1>3, <2>2, <2>3
<1>9. ASSUME NEW g \in Fds, NEW h \in Fds, Before(g, h)' PROVE Before(g, h)
  <2>1. /\ conns'[g].st # "free" /\ conns'[h].st # "free" /\ g # h
        /\ conns'[g].addr = conns'[h].addr
        /\ \/ conns'[g].st = "accepted" /\ conns'[h].st = "queued"
           \/ \E m, n \in 1..Len(backlog') : m < n /\ backlog'[m] = g /\ backlog'[n] = h
    BY <1>9 DEF Before, Live
  <2>2. Live(g) /\ Live(h) /\ conns[g].addr = conns[h].addr
    BY <1>4, <1>6, <1>7, <2>1 DEF Live
  <2>3. CASE \E m, n \in 1..Len(backlog') : m < n /\ backlog'[m] = g /\ backlog'[n] = h
    <3>1. PICK m, n \in 1..Len(backlog') : m < n /\ backlog'[m] = g /\ backlog'[n] = h
      BY <2>3
    <3>2. /\ m + 1 \in 1..Len(backlog) /\ n + 1 \in 1..Len(backlog) /\ m + 1 < n + 1
          /\ backlog[m + 1] = g /\ backlog[n + 1] = h
      BY <1>3, <3>1
    <3> QED BY <2>1, <2>2, <3>2 DEF Before
  <2>4. CASE conns'[g].st = "accepted" /\ conns'[h].st = "queued" /\ g # f
    <3>1. conns[g].st = "accepted" /\ conns[h].st = "queued"
      BY <1>6, <1>7, <2>1, <2>4
    <3> QED BY <2>1, <2>2, <3>1 DEF Before
  <2>5. CASE g = f /\ conns'[h].st = "queued"
    <3>1. conns[h].st = "queued" /\ h # f
      BY <1>7, <2>1, <2>5
    <3>2. PICK n \in 1..Len(backlog) : backlog[n] = h
      BY <3>1 DEF Order, Queued
    <3>3. 1 \in 1..Len(backlog) /\ 1 < n /\ backlog[1] = g
      BY <1>3, <2>5, <3>1, <3>2
    <3> QED BY <2>1, <2>2, <3>2, <3>3 DEF Before
  <2> QED BY <2>1, <2>3, <2>4, <2>5
<1>10. \A g \in Fds : conns'[g].st # "free" =>
         /\ Live(g) /\ conns'[g].addr = conns[g].addr /\ conns'[g].inbox = conns[g].inbox
         /\ conns'[g].up => conns[g].up
  BY <1>4, <1>6, <1>7 DEF Live
<1> QED BY <1>1, <1>2, <1>8, <1>9, <1>10, NoMoreOnWay

\* A new record joins those of a client's newest connection.
LEMMA ClientSendsOrder ==
  ASSUME Inv, Order, NEW f \in Fds, ClientSends(f)
  PROVE  Order'
<1>1. /\ conns[f].up /\ UNCHANGED <<current, backlog, heard, deleted>>
  BY DEF ClientSends, server, manager
<1>2. /\ conns \in [Fds -> Conns] /\ Keys \subseteq Nat /\ sent \in Nat
      /\ conns[f].inbox \in Seq(Seq(Entries))
      /\ \A a \in Addrs : heard[a] \in Nat
      /\ \A g \in Fds : Live(g) => conns[g].addr \in Addrs
  BY Types DEF Inv, Agree, Queue, Live
<1>3. PICK b \in Seq(Entries) :
        /\ conns' = [conns EXCEPT ![f].inbox = Append(@, b)]
        /\ sent' \in Nat /\ sent <= sent' /\ Rising(b)
        /\ \A k \in Keys : Contains(b, k) => sent < k /\ k <= sent'
  BY Sent
<1> DEFINE q == conns[f].inbox
<1>4. /\ conns'[f].inbox = Append(q, b) /\ conns'[f].st = conns[f].st
      /\ conns'[f].addr = conns[f].addr /\ conns'[f].up = conns[f].up
      /\ \A g \in Fds : g # f => conns'[g] = conns[g]
  <2>1. conns[f] \in Conns
    BY <1>2
  <2> QED BY <1>2, <1>3, <2>1 DEF Conns
<1>5. ASSUME Live(f)
      PROVE  /\ OrderedBox(conns'[f].inbox)
             /\ \A k : HasIn(conns'[f].inbox, k) <=> HasIn(q, k) \/ Contains(b, k)
  <2>1. OrderedBox(q) /\ \A k \in Keys : HasIn(q, k) => k <= sent
    BY <1>5 DEF Order, Numbered, OnWay
  <2>2. \A k, j \in Keys : HasIn(q, k) /\ Contains(b, j) => k < j
    BY <1>2, <1>3, <2>1
  <2> HIDE DEF q
  <2>3. q \in Seq(Seq(Entries))
    BY <1>2 DEF q
  <2> QED BY <1>3, <1>4, <2>1, <2>2, <2>3, AppendBox
<1>6. ASSUME NEW g \in Fds, Live(g), NEW k \in Keys, OnWay(g, k)'
      PROVE  OnWay(g, k) \/ (g = f /\ sent < k /\ k <= sent')
  <2>1. CASE InRest(k)' /\ current'.fd = g
    BY <1>1, <2>1 DEF OnWay, InRest
  <2>2. CASE HasIn(conns'[g].inbox, k) /\ g # f
    BY <1>4, <2>2 DEF OnWay
  <2>3. CASE HasIn(conns'[f].inbox, k) /\ g = f
    BY <1>3, <1>5, <1>6, <2>3 DEF OnWay
  <2> QED BY <1>6, <2>1, <2>2, <2>3 DEF OnWay
<1>7. \A g \in Fds : Live(g)' <=> Live(g)
  BY <1>4 DEF Live
<1>8. Queued'
  BY <1>1, <1>4 DEF Order, Queued
<1>9. Numbered'
  <2>1. ASSUME NEW g \in Fds, Live(g)', NEW k \in Keys, OnWay(g, k)' PROVE k <= sent'
    <3>1. (OnWay(g, k) /\ k <= sent) \/ k <= sent'
      BY <1>6, <1>7, <2>1 DEF Order, Numbered
    <3> QED BY <1>2, <1>3, <3>1
  <2>2. ASSUME NEW a \in Addrs PROVE heard'[a] <= sent'
    BY <1>1, <1>2, <1>3 DEF Order, Numbered
  <2> QED BY <2>1, <2>2 DEF Numbered
<1>10. RestFirst'
  <2> SUFFICES ASSUME current' # None
               PROVE  /\ Rising(current'.rest)
                      /\ \A k, j \in Keys :
                           InRest(k)' /\ HasIn(conns'[current'.fd].inbox, j) => k < j
    BY DEF RestFirst
  <2>1. /\ current # None /\ current' = current /\ current.fd \in Fds /\ Live(current.fd)
    BY <1>1, Types DEF Live
  <2>2. Rising(current'.rest)
    BY <2>1 DEF Order, RestFirst
  <2>3. ASSUME NEW k \in Keys, NEW j \in Keys, InRest(k)', HasIn(conns'[current'.fd].inbox, j)
        PROVE  k < j
    <3>1. InRest(k) /\ OnWay(current.fd, k) /\ k <= sent
      BY <2>1, <2>3 DEF InRest, OnWay, Order, Numbered
    <3>2. CASE HasIn(conns[current.fd].inbox, j)
      BY <2>1, <3>1, <3>2 DEF Order, RestFirst
    <3>3. CASE sent < j
      BY <1>2, <3>1, <3>3
    <3>4. HasIn(conns[current.fd].inbox, j) \/ sent < j
      BY <1>3, <1>4, <1>5, <2>1, <2>3
    <3> QED BY <3>2, <3>3, <3>4
  <2> QED BY <2>2, <2>3
<1>11. OlderFirst'
  <2> SUFFICES ASSUME NEW g \in Fds, NEW h \in Fds, Before(g, h)'
               PROVE  /\ ~conns'[g].up
                      /\ \A k, j \in Keys : OnWay(g, k)' /\ OnWay(h, j)' => k < j
    BY DEF OlderFirst
  <2>1. Before(g, h) /\ Live(g) /\ Live(h)
    BY <1>1, <1>4 DEF Before, Live
  <2>2. ~conns[g].up /\ g # f
    BY <1>1, <2>1 DEF Order, OlderFirst
  <2>3. ~conns'[g].up
    BY <1>4, <2>2
  <2>4. ASSUME NEW k \in Keys, NEW j \in Keys, OnWay(g, k)', OnWay(h, j)' PROVE k < j
    <3>1. OnWay(g, k) /\ k <= sent
      BY <1>6, <2>1, <2>2, <2>4 DEF Order, Numbered
    <3>2. OnWay(h, j) \/ sent < j
      BY <1>6, <2>1, <2>4
    <3>3. CASE OnWay(h, j)
      BY <2>1, <3>1, <3>3 DEF Order, OlderFirst
    <3>4. CASE sent < j
      BY <1>2, <3>1, <3>4
    <3> QED BY <3>2, <3>3, <3>4
  <2> QED BY <2>3, <2>4
<1>12. HeardFirst'
  <2> SUFFICES ASSUME ~deleted, NEW g \in Fds, Live(g)', NEW k \in Keys, OnWay(g, k)'
               PROVE  heard'[conns'[g].addr] < k
    BY <1>1 DEF HeardFirst
  <2>1. Live(g) /\ conns'[g].addr = conns[g].addr /\ conns[g].addr \in Addrs
    BY <1>2, <1>4, <1>7
  <2>2. CASE OnWay(g, k)
    BY <1>1, <2>1, <2>2 DEF Order, HeardFirst
  <2>3. CASE sent < k
    <3>1. heard[conns[g].addr] <= sent /\ heard[conns[g].addr] \in Nat
      BY <1>2, <2>1 DEF Order, Numbered
    <3> QED BY <1>1, <1>2, <2>1, <2>3, <3>1
  <2> QED BY <1>6, <2>1, <2>2, <2>3
<1>13. ASSUME NEW g \in Fds, Live(g)' PROVE OrderedBox(conns'[g].inbox)
  BY <1>4, <1>5, <1>7, <1>13 DEF Order
<1> QED BY <1>8, <1>9, <1>10, <1>11, <1>12, <1>13 DEF Order

\* The oldest record of a connection is read.
LEMMA ReceiveRecordOrder ==
  ASSUME Inv, Order, NEW s \in sources, ReceiveRecord(s)
  PROVE  Order'
<1> DEFINE f == s.fd
           q == conns[f].inbox
<1>1. /\ current = None /\ s.ev = "in"
      /\ current' = [fd |-> f, id |-> s.id, rest |-> Head(q)]
      /\ conns' = [conns EXCEPT ![f].inbox = Tail(@)]
      /\ UNCHANGED <<backlog, heard, deleted, sent>>
  BY DEF ReceiveRecord, Idle, manager
<1>2. /\ conns \in [Fds -> Conns] /\ Keys \subseteq Nat /\ sent \in Nat
      /\ q \in Seq(Seq(Entries)) /\ q # <<>> /\ f \in Fds /\ Live(f)
  <2>1. f \in Fds /\ conns[f].st = "accepted" /\ q # <<>>
    BY <1>1 DEF Inv, TypeOK, Agree, Readers, Unread
  <2> QED BY <2>1, Types DEF Live
<1>3. /\ conns'[f].inbox = Tail(q) /\ conns'[f].st = conns[f].st
      /\ conns'[f].addr = conns[f].addr /\ conns'[f].up = conns[f].up
      /\ \A g \in Fds : g # f => conns'[g] = conns[g]
  <2>1. conns[f] \in Conns
    BY <1>2
  <2> QED BY <1>1, <1>2, <2>1 DEF Conns
<1>4. /\ OrderedBox(Tail(q)) /\ Rising(Head(q))
      /\ \A k : HasIn(q, k) <=> Contains(Head(q), k) \/ HasIn(Tail(q), k)
      /\ \A k, j \in Keys : Contains(Head(q), k) /\ HasIn(Tail(q), j) => k < j
  <2>1. OrderedBox(q)
    BY <1>2 DEF Order
  <2> HIDE DEF q
  <2> QED BY <1>2, <2>1, TailBox
<1> HIDE DEF f, q
<1>5. current'.fd = f /\ current'.rest = Head(q)
  BY <1>1
<1>6. ASSUME NEW g \in Fds, NEW k, OnWay(g, k)' PROVE OnWay(g, k)
  <2>1. CASE g # f
    BY <1>3, <1>5, <1>6, <2>1 DEF OnWay
  <2>2. CASE g = f
    BY <1>3, <1>4, <1>5, <1>6, <2>2 DEF OnWay, InRest, q
  <2> QED BY <2>1, <2>2
<1>7. \A g \in Fds : Live(g)' => Live(g) /\ conns'[g].addr = conns[g].addr
  BY <1>3 DEF Live
<1>8. Queued'
  BY <1>1, <1>3 DEF Order, Queued
<1>9. Numbered'
  BY <1>1, <1>6, <1>7 DEF Order, Numbered
<1>10. RestFirst'
  BY <1>3, <1>4, <1>5 DEF RestFirst, InRest
<1>11. OlderFirst'
  <2>1. ASSUME NEW g \in Fds, NEW h \in Fds, Before(g, h)'
        PROVE  Before(g, h) /\ conns'[g].up = conns[g].up
    BY <1>1, <1>3, <2>1 DEF Before, Live
  <2> QED BY <1>6, <2>1 DEF Order, OlderFirst
<1>12. HeardFirst'
  BY <1>1, <1>6, <1>7 DEF Order, HeardFirst
<1>13. ASSUME NEW g \in Fds, Live(g)' PROVE OrderedBox(conns'[g].inbox)
  BY <1>3, <1>4, <1>7, <1>13 DEF Order
<1> QED BY <1>8, <1>9, <1>10, <1>11, <1>12, <1>13 DEF Order

\* The client whose record is handled, and its other connections.
LEMMA Handled ==
  ASSUME PlacesInv, Order, current # None, ~deleted, NEW a, a = devices[current.id]
  PROVE  /\ current.id \in 1..Len(devices) /\ a \in Addrs
         /\ current.fd \in Fds /\ conns[current.fd].addr = a /\ conns[current.fd].st = "accepted"
         /\ \A g \in Fds : Live(g) /\ conns[g].addr = a => g = current.fd \/ Before(current.fd, g)
<1>1. Inv /\ devices = addrs
  BY DEF PlacesInv, Mirror
<1>2. PICK c \in sources : c.fd = current.fd /\ c.id = current.id
  BY <1>1, CurrentRead
<1>3. /\ current.fd \in Fds /\ current.id \in Places /\ inputSources[current.id] = current.fd
      /\ conns[current.fd].st = "accepted" /\ conns[current.fd].addr = a
  BY <1>1, <1>2 DEF Inv, TypeOK, Agree, OneSource
<1>4. a \in Addrs /\ None \notin Addrs
  BY <1>1, <1>3, BackendAssumption DEF Inv, Agree, Queue
<1>5. ASSUME NEW g \in Fds, conns[g].st = "accepted", conns[g].addr = a PROVE g = current.fd
  <2>1. PICK s \in sources : s.fd = g
    BY <1>1, <1>5 DEF Inv, Agree, NoLeak
  <2>2. s.id \in Places /\ inputSources[s.id] = g /\ addrs[s.id] = a
    BY <1>1, <1>5, <2>1 DEF Inv, Agree, OneSource
  <2>3. s.id = current.id
    BY <1>1, <1>3, <1>4, <2>2 DEF PlacesInv, Distinct
  <2> QED BY <1>3, <2>2, <2>3
<1>6. ASSUME NEW g \in Fds, Live(g), conns[g].addr = a, g # current.fd
      PROVE  Before(current.fd, g)
  <2>1. conns[g] \in Conns
    BY <1>1, Types
  <2>2. conns[g].st = "queued"
    BY <1>5, <1>6, <2>1 DEF Live, Conns
  <2> QED BY <1>3, <1>6, <2>2 DEF Before, Live
<1> QED BY <1>1, <1>3, <1>4, <1>6 DEF Places

\* The key of the record is reported: it is newer than those reported of its
\* client before, and older than those on their way.
LEMMA ReceiveKeyOrder ==
  ASSUME PlacesInv, Order, ReceiveKey, ~CallsDeleted,
         NEW a, a = devices[current.id], NEW k, k = Head(current.rest)
  PROVE  /\ Order'
         /\ current.id \in 1..Len(devices) /\ a \in Addrs /\ k \in Keys /\ k > heard[a]
         /\ heard' = [heard EXCEPT ![a] = k] /\ devices' = devices
<1>1. /\ current # None /\ current.rest # <<>> /\ k \in Keys /\ ~deleted
      /\ heard' = [heard EXCEPT ![a] = k] /\ PacketDone
      /\ UNCHANGED <<devices, deleted, conns, backlog, sent>>
  BY DEF ReceiveKey, network
<1> DEFINE f == current.fd
<1>2. /\ current.id \in 1..Len(devices) /\ a \in Addrs
      /\ f \in Fds /\ conns[f].addr = a /\ conns[f].st = "accepted"
      /\ \A g \in Fds : Live(g) /\ conns[g].addr = a => g = f \/ Before(f, g)
  BY <1>1, Handled
<1>3. /\ Inv /\ Keys \subseteq Nat /\ sent \in Nat /\ current.rest \in Seq(Entries)
      /\ \A c \in Addrs : heard[c] \in Nat
  BY <1>1, Types DEF PlacesInv
<1>4. \A c \in Addrs : heard'[c] = IF c = a THEN k ELSE heard[c]
  <2>1. heard \in [Addrs -> {0} \cup Keys]
    BY <1>3 DEF Inv, TypeOK
  <2> QED BY <1>1, <2>1
<1>5. Live(f) /\ InRest(k) /\ OnWay(f, k) /\ k <= sent /\ heard[a] < k
  <2>1. Contains(current.rest, k)
    BY <1>1, <1>3, TailRising DEF Order, RestFirst
  <2>2. Live(f) /\ InRest(k) /\ OnWay(f, k)
    BY <1>1, <1>2, <2>1 DEF Live, InRest, OnWay
  <2> QED BY <1>1, <1>2, <2>2 DEF Order, Numbered, HeardFirst
<1>6. current'.fd = f /\ current'.rest = Tail(current.rest)
  <2>1. current \in [fd : Fds, id : Nat \ {0}, rest : Seq(Entries)]
    BY <1>1, <1>3 DEF Inv, TypeOK
  <2> QED BY <1>1, <2>1 DEF PacketDone
<1>7. /\ Rising(current'.rest) /\ \A j : Contains(current'.rest, j) => Contains(current.rest, j)
      /\ \A j \in Keys : Contains(current'.rest, j) => k < j
  BY <1>1, <1>3, <1>6, TailRising DEF Order, RestFirst
<1> HIDE DEF f
<1>8. ASSUME NEW g \in Fds, NEW j, OnWay(g, j)'
      PROVE  /\ OnWay(g, j)
             /\ HasIn(conns[g].inbox, j) \/ (g = f /\ Contains(current'.rest, j))
  BY <1>1, <1>6, <1>7, <1>8 DEF OnWay, InRest, f
<1>9. Queued'
  BY <1>1 DEF Order, Queued
<1>10. Numbered'
  BY <1>1, <1>4, <1>5, <1>8 DEF Order, Numbered, Live
<1>11. RestFirst'
  BY <1>1, <1>6, <1>7 DEF Order, RestFirst, InRest, f
<1>12. OlderFirst'
  BY <1>1, <1>8 DEF Order, OlderFirst, Before, Live
<1>13. HeardFirst'
  <2> SUFFICES ASSUME NEW g \in Fds, Live(g), NEW j \in Keys, OnWay(g, j)'
               PROVE  heard'[conns[g].addr] < j
    BY <1>1 DEF HeardFirst, Live
  <2>1. /\ OnWay(g, j) /\ conns[g].addr \in Addrs
        /\ HasIn(conns[g].inbox, j) \/ (g = f /\ k < j)
    BY <1>3, <1>7, <1>8 DEF Inv, Agree, Queue, Live
  <2>2. CASE conns[g].addr # a
    BY <1>1, <1>4, <2>1, <2>2 DEF Order, HeardFirst
  <2>3. CASE g = f
    BY <1>1, <1>2, <1>4, <1>5, <2>1, <2>3 DEF Order, RestFirst, f
  <2>4. CASE conns[g].addr = a /\ Before(f, g)
    BY <1>1, <1>2, <1>4, <1>5, <2>1, <2>4 DEF Order, OlderFirst
  <2> QED BY <1>2, <2>2, <2>3, <2>4
<1>14. \A g \in Fds : Live(g)' => OrderedBox(conns'[g].inbox)
  BY <1>1 DEF Order, Live
<1>15. Order'
  BY <1>9, <1>10, <1>11, <1>12, <1>13, <1>14 DEF Order
<1> QED BY <1>1, <1>2, <1>3, <1>5, <1>15

-----------------------------------------------------------------------------
(* The refinement.                                                         *)

\* A step of the manager's table.
Kept == [Registry!Next]_(Registry!vars)

LEMMA KeptSame ==
  ASSUME UNCHANGED <<devices, heard>>
  PROVE  Kept
  BY DEF Kept, Registry!vars

LEMMA NetworkKept ==
  ASSUME Inv, Order, NEW f \in Fds,
         (\E a \in Addrs : ClientConnects(f, a)) \/ ClientSends(f) \/ ClientGoes(f) \/ HangUp(f)
  PROVE  Order' /\ Kept
<1>1. UNCHANGED <<devices, heard>>
  BY DEF ClientConnects, ClientSends, ClientGoes, HangUp, manager
<1> QED BY <1>1, KeptSame, ClientConnectsOrder, ClientSendsOrder, ClientGoesOrder, HangUpOrder

\* The client that is accepted has its device, or is given the first free place.
LEMMA AcceptClientKept ==
  ASSUME PlacesInv, Order, AcceptClient
  PROVE  Order' /\ Kept
<1> DEFINE a == conns[Head(backlog)].addr
           i == PlaceFor(a)
<1>1. /\ ~deleted /\ a \in Addrs /\ Len(addrs) \in Nat
      /\ \/ UNCHANGED <<addrs, devices>>
         \/ /\ \A j \in Places : addrs[j] # a
            /\ devices' = Put(devices, i, a)
            /\ \/ i = Len(addrs) + 1 /\ \A j \in Places : addrs[j] # None
               \/ i \in Places /\ addrs[i] = None /\ \A j \in 1..(i - 1) : addrs[j] # None
  BY AcceptPlaces
<1>2. heard' = heard
  BY DEF AcceptClient
<1>3. devices = addrs
  BY <1>1 DEF PlacesInv, Mirror
<1> HIDE DEF a, i
<1>4. CASE UNCHANGED devices
  BY <1>2, <1>4, KeptSame, AcceptClientOrder
<1>5. CASE /\ \A j \in Places : addrs[j] # a
           /\ devices' = Put(devices, i, a)
           /\ \/ i = Len(addrs) + 1 /\ \A j \in Places : addrs[j] # None
              \/ i \in Places /\ addrs[i] = None /\ \A j \in 1..(i - 1) : addrs[j] # None
  <2>1. \A j \in 1..Len(devices) : devices[j] # a
    BY <1>3, <1>5 DEF Places
  <2>4. Registry!Added(a)
    <3>2. CASE i = Len(addrs) + 1 /\ \A j \in Places : addrs[j] # None
      <4>1. devices' = Append(devices, a)
        <5>1. i > Len(devices)
          BY <1>1, <1>3, <3>2
        <5> QED BY <1>5, <5>1, Zenon DEF Put
      <4> QED BY <1>2, <1>3, <2>1, <3>2, <4>1 DEF Registry!Added, Registry!Free, Places
    <3>3. CASE i \in Places /\ addrs[i] = None /\ \A j \in 1..(i - 1) : addrs[j] # None
      <4>1. devices' = [devices EXCEPT ![i] = a] /\ i \in 1..Len(devices)
        <5>1. ~(i > Len(devices)) /\ i \in 1..Len(devices)
          BY <1>1, <1>3, <3>3 DEF Places
        <5> QED BY <1>5, <5>1, Zenon DEF Put
      <4>2. /\ Registry!Free(i) /\ \A j \in 1..(i - 1) : ~Registry!Free(j)
            /\ devices' = [devices EXCEPT ![i] = a]
        BY <1>3, <3>3, <4>1 DEF Registry!Free
      <4> QED BY <1>2, <2>1, <4>1, <4>2, Zenon DEF Registry!Added
    <3> QED BY <1>5, <3>2, <3>3
  <2> QED BY <1>1, <2>4, AcceptClientOrder DEF Kept, Registry!Next
<1> QED BY <1>1, <1>4, <1>5

LEMMA ReceiveRemoveKept ==
  ASSUME PlacesInv, Order, ReceiveRemove, ~CallsDeleted
  PROVE  Order' /\ Kept
<1>1. /\ ~deleted /\ current # None /\ current.id \in Places /\ devices = addrs
      /\ devices[current.id] \in Addrs
      /\ devices' = [devices EXCEPT ![current.id] = None]
  BY ReceiveRemovePlaces
<1>2. /\ conns' = [conns EXCEPT ![current.fd] = NoConn] /\ current' = None
      /\ UNCHANGED <<backlog, heard, sent, deleted>>
  BY DEF ReceiveRemove, Closed
<1>3. Inv /\ conns[current.fd].st = "accepted"
  BY <1>1, Types DEF PlacesInv
<1>4. Order'
  BY <1>2, <1>3, ClosedOrder
<1>5. Registry!Removed(current.id) /\ current.id \in 1..Len(devices)
  BY <1>1, <1>2, BackendAssumption DEF Registry!Removed, Registry!Free, Places
<1> QED BY <1>4, <1>5 DEF Kept, Registry!Next

LEMMA ReceiveKept ==
  ASSUME PlacesInv, Order, Receive
  PROVE  Order' /\ Kept
<1>1. ASSUME NEW s, NEW cmds, CloseKept(s, cmds), s \in sources \/ (s = current /\ current # None)
      PROVE  Order' /\ Kept
  <2>1. /\ conns' = [conns EXCEPT ![s.fd] = NoConn] /\ current' = None
        /\ UNCHANGED <<backlog, devices, heard, sent, deleted>>
    BY <1>1 DEF CloseKept, Closed
  <2>2. Inv /\ conns[s.fd].st = "accepted"
    BY <1>1, Types DEF PlacesInv, Inv, Agree, Readers
  <2> QED BY <2>1, <2>2, ClosedOrder, KeptSame
<1>2. CASE CallsDeleted
  <2>1. UNCHANGED <<conns, backlog, sent, heard, deleted, current, devices>>
    BY <1>2 DEF CallsDeleted, network, server
  <2> QED BY <2>1, TakenOrder, KeptSame DEF PlacesInv
<1>3. CASE ReceiveRemove /\ ~CallsDeleted
  BY <1>3, ReceiveRemoveKept
<1>4. ASSUME NEW s \in sources, ReceiveRecord(s) PROVE Order' /\ Kept
  <2>1. UNCHANGED <<devices, heard>>
    BY <1>4 DEF ReceiveRecord, manager
  <2> QED BY <1>4, <2>1, ReceiveRecordOrder, KeptSame DEF PlacesInv
<1>5. CASE RecordDone \/ ReceiveNoop
  <2>1. /\ UNCHANGED <<conns, backlog, sent, heard, deleted, devices>>
        /\ current' = None \/ (current # None /\ current.rest # <<>> /\ PacketDone)
    BY <1>5 DEF RecordDone, ReceiveNoop, network, manager
  <2> QED BY <2>1, TakenOrder, KeptSame DEF PlacesInv
<1>6. CASE ReceiveKey /\ ~CallsDeleted
  <2> DEFINE a == devices[current.id]
             k == Head(current.rest)
  <2>1. /\ Order'
        /\ current.id \in 1..Len(devices) /\ a \in Addrs /\ k \in Keys /\ k > heard[a]
        /\ heard' = [heard EXCEPT ![a] = k] /\ devices' = devices
    BY <1>6, ReceiveKeyOrder
  <2>2. Registry!Reported(current.id, k)
    <3>1. ~Registry!Free(current.id)
      BY <2>1, BackendAssumption DEF Registry!Free
    <3> QED BY <2>1, <3>1 DEF Registry!Reported
  <2>3. Registry!Next
    BY <2>1, <2>2 DEF Registry!Next
  <2> QED BY <2>1, <2>3 DEF Kept
<1>7. CASE \E s \in sources : ReceiveError(s) \/ ReceiveFails(s)
  BY <1>1, <1>2, <1>7 DEF ReceiveError, ReceiveFails
<1>8. CASE ReceiveBad
  BY <1>1, <1>2, <1>8 DEF ReceiveBad
<1> QED BY <1>2, <1>3, <1>4, <1>5, <1>6, <1>7, <1>8 DEF Receive

LEMMA NextKept ==
  ASSUME RegistryInv, [Next]_vars
  PROVE  RegistryInv' /\ Kept
<1>1. PlacesInv /\ Order /\ Inv
  BY DEF RegistryInv, PlacesInv
<1>2. PlacesInv'
  BY <1>1, NextPlaces
<1>3. CASE UNCHANGED vars \/ AcceptBlocks \/ Poll
  <2>1. UNCHANGED <<conns, backlog, sent, heard, deleted, current, devices>>
    BY <1>3 DEF vars, server, manager, network, AcceptBlocks, Poll
  <2>2. Order' /\ Kept
    BY <1>1, <2>1, TakenOrder, KeptSame
  <2> QED BY <1>2, <2>2 DEF RegistryInv
<1>4. CASE DeleteBackend
  <2>1. devices' = <<>> /\ heard' = heard
    BY <1>4 DEF DeleteBackend
  <2>2. Kept
    BY <2>1 DEF Kept, Registry!Next, Registry!Deleted
  <2> QED BY <1>1, <1>2, <1>4, <2>2, DeleteBackendOrder DEF RegistryInv
<1>5. CASE AcceptClient
  BY <1>1, <1>2, <1>5, AcceptClientKept DEF RegistryInv
<1>6. CASE Receive
  BY <1>1, <1>2, <1>6, ReceiveKept DEF RegistryInv
<1>7. CASE \E f \in Fds : (\E a \in Addrs : ClientConnects(f, a))
                          \/ ClientSends(f) \/ ClientGoes(f) \/ HangUp(f)
  BY <1>1, <1>2, <1>7, NetworkKept DEF RegistryInv
<1> QED BY <1>3, <1>4, <1>5, <1>6, <1>7 DEF Next, Accept, Crashed

LEMMA InitKept == Init => Order /\ Registry!Init
<1> SUFFICES ASSUME Init PROVE Order /\ Registry!Init
  OBVIOUS
<1>1. /\ current = None /\ backlog = <<>> /\ conns = [f \in Fds |-> NoConn]
      /\ heard = [a \in Addrs |-> 0] /\ sent = 0 /\ devices = <<>>
  BY DEF Init
<1>2. \A f \in Fds : ~Live(f) /\ conns[f].st # "queued"
  BY <1>1, NoConnType DEF Live
<1>3. Order
  BY <1>1, <1>2 DEF Order, Queued, Numbered, RestFirst, OlderFirst, HeardFirst, Before
<1> QED BY <1>1, <1>3 DEF Registry!Init

\* Whatever the clients send and whenever they reconnect, the manager is told of
\* one device for each client, in the first free place, of the removal of
\* existing devices, and of a client's keys in the order they were entered.
THEOREM BackendKeepsRegistry == Spec => KeepsRegistry
<1>1. Spec => []PlacesInv
  BY PlacesInvariance
<1>2. Init => Order /\ Registry!Init
  BY InitKept
<1>3. PlacesInv /\ Order /\ [Next]_vars => Order' /\ [Registry!Next]_(Registry!vars)
  BY NextKept DEF RegistryInv, Kept
<1> QED BY <1>1, <1>2, <1>3, PTL DEF Spec, KeepsRegistry, Registry!Spec

=============================================================================
