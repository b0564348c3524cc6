------------------------ MODULE KeyboardInput_proofs ------------------------
(***************************************************************************)
(* The first press and the last release of a key are told to the client,   *)
(* and nothing else, the device follows them, and no entry outlives the    *)
(* input that made it unless its release was not listened to, for any      *)
(* number of keys, fingers and entries.                                    *)
(***************************************************************************)
EXTENDS KeyboardInput, FiniteSetTheorems, SequenceTheorems, TLAPS

\* Every number that is waiting has an event of a key.
EventTypeOK ==
  /\ accepted \in Nat /\ waiting \subseteq 1..accepted
  /\ event \in [waiting -> EventTypes \X Keys]
  /\ last \in [Keys -> {0} \cup waiting]
  /\ done \subseteq Keys

\* What DeviceFollows rests on: the last event of a key says whether the key is
\* pressed, and no event of the key comes after it; once the device has heeded
\* it, none comes at all.
LastEvents ==
  /\ \A n \in waiting : event[n][2] \notin done
  /\ \A k \in Keys : last[k] # 0 =>
       /\ event[last[k]][2] = k
       /\ event[last[k]][1] = "PRESS" <=> k \in KeysOf(pressed)
       /\ \A n \in waiting : event[n][2] = k => n <= last[k]

Followed == EventTypeOK /\ LastEvents /\ DeviceFollows

\* The inductive invariant.
Inv ==
  /\ pressed \in Seq(Entries)
  /\ wire \in [Keys -> {"up", "down", "bad"}]
  /\ FirstPressLastRelease
  /\ Followed

-----------------------------------------------------------------------------
(* The entries.                                                            *)

LEMMA EntryTypes ==
  ASSUME NEW k \in Keys
  PROVE  /\ ByKeyboard(k) \in Entries /\ ByKeyboard(k).key = k
         /\ ByMouse(k) \in Entries /\ ByMouse(k).key = k
         /\ \A f \in Fingers : ByFinger(k, f) \in Entries /\ ByFinger(k, f).key = k
  BY DEF Entries, Types, ByKeyboard, ByMouse, ByFinger

LEMMA AppendedKeys ==
  ASSUME NEW q \in Seq(Entries), NEW e \in Entries
  PROVE  Append(q, e) \in Seq(Entries) /\ KeysOf(Append(q, e)) = KeysOf(q) \cup {e.key}
<1>1. /\ Append(q, e) \in Seq(Entries) /\ Len(Append(q, e)) = Len(q) + 1
      /\ Len(q) \in Nat
      /\ \A i \in 1..Len(q) : Append(q, e)[i] = q[i]
      /\ Append(q, e)[Len(q) + 1] = e
  OBVIOUS
<1> QED BY <1>1 DEF KeysOf, Places

\* RemoveAt moves the entries after the one that is removed up by one.
LEMMA RemovedEntries ==
  ASSUME NEW q \in Seq(Entries), NEW i \in Places(q), NEW r, r = RemoveAt(q, i)
  PROVE  /\ r \in Seq(Entries) /\ Len(r) = Len(q) - 1
         /\ \A j \in 1..(Len(q) - 1) : r[j] = IF j < i THEN q[j] ELSE q[j + 1]
<1>1. Len(q) \in Nat /\ i \in 1..Len(q)
  BY DEF Places
<1> DEFINE front == SubSeq(q, 1, i - 1)
           rest == SubSeq(q, i + 1, Len(q))
<1>2. /\ front \in Seq(Entries) /\ Len(front) = i - 1
      /\ \A j \in 1..(i - 1) : front[j] = q[j]
  BY <1>1, SubSeqProperties
<1>3. /\ rest \in Seq(Entries) /\ Len(rest) = Len(q) - i
      /\ \A j \in 1..(Len(q) - i) : rest[j] = q[i + j]
  BY <1>1, SubSeqProperties
<1>4. r = front \o rest
  BY DEF RemoveAt
<1> HIDE DEF front, rest
<1>5. /\ r \in Seq(Entries) /\ Len(r) = Len(front) + Len(rest)
      /\ \A j \in 1..Len(r) : r[j] = IF j <= Len(front) THEN front[j] ELSE rest[j - Len(front)]
  <2>1. /\ front \o rest \in Seq(Entries)
        /\ Len(front \o rest) = Len(front) + Len(rest)
        /\ \A j \in 1..(Len(front) + Len(rest)) :
             (front \o rest)[j] = IF j <= Len(front) THEN front[j] ELSE rest[j - Len(front)]
    BY <1>2, <1>3, ConcatProperties, Zenon
  <2> QED BY <1>4, <2>1
<1>6. Len(r) = Len(q) - 1
  BY <1>1, <1>2, <1>3, <1>5
<1>7. ASSUME NEW j \in 1..(Len(q) - 1) PROVE r[j] = IF j < i THEN q[j] ELSE q[j + 1]
  <2>1. CASE j < i
    BY <1>1, <1>2, <1>5, <1>6, <2>1, SMTT(40)
  <2>2. CASE j >= i
    <3>1. r[j] = rest[j - (i - 1)] /\ j - (i - 1) \in 1..(Len(q) - i)
      BY <1>1, <1>2, <1>5, <1>6, <2>2
    <3>2. rest[j - (i - 1)] = q[i + (j - (i - 1))] /\ i + (j - (i - 1)) = j + 1
      BY <1>1, <1>3, <3>1
    <3> QED BY <1>1, <2>2, <3>1, <3>2
  <2> QED BY <1>1, <2>1, <2>2
<1> QED BY <1>5, <1>6, <1>7

\* Every entry that is left has a place of its own in the old list, other than
\* the place that was removed.
LEMMA RemovedPlaces ==
  ASSUME NEW q \in Seq(Entries), NEW i \in Places(q), NEW r, r = RemoveAt(q, i)
  PROVE  \E old \in [Places(r) -> Places(q) \ {i}] :
           /\ \A m \in Places(r) : r[m] = q[old[m]]
           /\ \A m, n \in Places(r) : old[m] = old[n] => m = n
<1> DEFINE old == [m \in Places(r) |-> IF m < i THEN m ELSE m + 1]
<1>1. /\ Len(r) = Len(q) - 1
      /\ \A j \in 1..(Len(q) - 1) : r[j] = IF j < i THEN q[j] ELSE q[j + 1]
      /\ Len(q) \in Nat /\ i \in 1..Len(q)
  <2>1. Len(q) \in Nat /\ i \in 1..Len(q)
    BY DEF Places
  <2> QED BY <2>1, RemovedEntries, Zenon
<1>2. \A m \in Places(r) : old[m] \in Places(q) \ {i} /\ r[m] = q[old[m]]
  BY <1>1 DEF Places
<1>3. \A m, n \in Places(r) : old[m] = old[n] => m = n
  BY <1>1 DEF Places
<1>4. old \in [Places(r) -> Places(q) \ {i}]
  BY <1>2
<1> HIDE DEF old
<1> QED BY <1>2, <1>3, <1>4

LEMMA RemovedKeys ==
  ASSUME NEW q \in Seq(Entries), NEW i \in Places(q)
  PROVE  /\ RemoveAt(q, i) \in Seq(Entries)
         /\ KeysOf(q) = KeysOf(RemoveAt(q, i)) \cup {q[i].key}
<1> DEFINE r == RemoveAt(q, i)
<1>1. Len(q) \in Nat /\ i \in 1..Len(q)
  BY DEF Places
<1>2. /\ r \in Seq(Entries) /\ Len(r) = Len(q) - 1
      /\ \A j \in 1..(Len(q) - 1) : r[j] = IF j < i THEN q[j] ELSE q[j + 1]
  BY RemovedEntries
<1>3. ASSUME NEW j \in Places(q), j # i PROVE \E m \in Places(r) : r[m] = q[j]
  <2>1. CASE j < i
    BY <1>1, <1>2, <2>1 DEF Places
  <2>2. CASE j > i
    <3>1. j - 1 \in Places(r) /\ r[j - 1] = q[j]
      BY <1>1, <1>2, <2>2 DEF Places
    <3> QED BY <3>1
  <2> QED BY <1>1, <1>3, <2>1, <2>2 DEF Places
<1>4. ASSUME NEW m \in Places(r) PROVE \E j \in Places(q) : q[j] = r[m]
  BY <1>1, <1>2 DEF Places
<1> HIDE DEF r
<1>5. KeysOf(q) \subseteq KeysOf(r) \cup {q[i].key}
  BY <1>3 DEF KeysOf
<1>6. KeysOf(r) \subseteq KeysOf(q)
  BY <1>4 DEF KeysOf
<1> QED BY <1>2, <1>5, <1>6 DEF KeysOf, r

LEMMA FiniteKeys ==
  ASSUME NEW q \in Seq(Entries)
  PROVE  Cardinality(KeysOf(q)) \in Nat
<1>1. IsFiniteSet(Places(q))
  BY FS_Interval DEF Places
<1>2. [i \in Places(q) |-> q[i].key] \in Surjection(Places(q), KeysOf(q))
  BY DEF KeysOf, Surjection
<1>3. IsFiniteSet(KeysOf(q))
  BY <1>1, <1>2, FS_Surjection
<1> QED BY <1>3, FS_CardinalityType

-----------------------------------------------------------------------------
(* What the client is told of each key, and what becomes of it.            *)

\* Keys that are sent leave a last event each, unless the client refuses them.
LEMMA SendFollowed ==
  ASSUME Inv, NEW type \in EventTypes,
         NEW m \in Nat, NEW c \in [1..m -> Keys], \A i, j \in 1..m : c[i] = c[j] => i = j,
         Send(type, c), device' = device,
         \A k \in Keys : k \in KeysOf(pressed') <=>
           IF \E i \in 1..m : c[i] = k THEN type = "PRESS" ELSE k \in KeysOf(pressed)
  PROVE  Followed'
<1> DEFINE sent == {c[i] : i \in 1..m}
           place(k) == CHOOSE i \in 1..m : c[i] = k
<1>1. Len(c) = m
  OBVIOUS
<1>2. /\ last' = [k \in Keys |-> CASE k \in sent /\ up  -> accepted + place(k)
                                 [] k \in sent /\ ~up -> 0
                                 [] k \notin sent     -> last[k]]
      /\ done' = done \ sent
  BY <1>1 DEF Send
<1>3. ASSUME NEW k \in sent PROVE place(k) \in 1..m /\ c[place(k)] = k
  OBVIOUS
<1>4. /\ \A k \in sent : k \in Keys
      /\ \A k \in Keys : k \in KeysOf(pressed') <=>
           IF k \in sent THEN type = "PRESS" ELSE k \in KeysOf(pressed)
  OBVIOUS
<1>5. EventTypeOK /\ LastEvents /\ DeviceFollows
  BY DEF Inv, Followed
<1>6. DeviceFollows'
  BY <1>2, <1>4, <1>5 DEF DeviceFollows, EventTypeOK
<1>7. CASE ~up
  <2>1. UNCHANGED <<accepted, waiting, event>>
    BY <1>7 DEF Send, channel
  <2>2. ASSUME NEW k \in Keys PROVE last'[k] = IF k \in sent THEN 0 ELSE last[k]
    BY <1>2, <1>7
  <2>3. last' \in [Keys -> {0} \cup waiting']
    BY <1>2, <2>1, <2>2, <1>5 DEF EventTypeOK
  <2> HIDE DEF sent, place
  <2>4. EventTypeOK'
    BY <1>2, <1>5, <2>1, <2>3 DEF EventTypeOK
  <2>5. LastEvents'
    BY <1>2, <1>4, <1>5, <2>1, <2>2 DEF EventTypeOK, LastEvents
  <2> QED BY <1>6, <2>4, <2>5 DEF Followed
<1>8. CASE up
  <2>1. /\ accepted' = accepted + m
        /\ waiting' = waiting \cup (accepted + 1)..(accepted + m)
        /\ event' = [i \in waiting \cup (accepted + 1)..(accepted + m) |->
                       IF i \in waiting THEN event[i] ELSE <<type, c[i - accepted]>>]
    BY <1>1, <1>8 DEF Send, Channel!Accept
  <2>2. /\ \A i \in waiting : event'[i] = event[i] /\ i <= accepted /\ i \in Nat
        /\ \A i \in (accepted + 1)..(accepted + m) : event'[i] = <<type, c[i - accepted]>>
    BY <1>5, <2>1 DEF EventTypeOK
  <2>3. ASSUME NEW k \in sent
        PROVE  /\ last'[k] = accepted + place(k)
               /\ last'[k] \in (accepted + 1)..(accepted + m)
               /\ event'[last'[k]] = <<type, k>>
    <3>1. last'[k] = accepted + place(k) /\ place(k) \in 1..m /\ c[place(k)] = k
      BY <1>2, <1>3, <1>4, <1>8
    <3> HIDE DEF place
    <3>2. last'[k] \in (accepted + 1)..(accepted + m) /\ last'[k] - accepted = place(k)
      BY <1>5, <3>1 DEF EventTypeOK
    <3> QED BY <2>2, <3>1, <3>2
  <2>4. ASSUME NEW k \in Keys, k \notin sent PROVE last'[k] = last[k]
    BY <1>2, <2>4
  <2>5. ASSUME NEW i \in (accepted + 1)..(accepted + m)
        PROVE  /\ c[i - accepted] \in sent
               /\ last'[c[i - accepted]] = i
    <3>1. i - accepted \in 1..m
      BY <1>5 DEF EventTypeOK
    <3>2. place(c[i - accepted]) = i - accepted
      BY <1>3, <3>1
    <3>3. accepted + (i - accepted) = i
      BY <1>5 DEF EventTypeOK
    <3> QED BY <2>3, <3>1, <3>2, <3>3, ZenonT(40)
  <2> HIDE DEF sent, place
  <2>6. last' \in [Keys -> {0} \cup waiting']
    <3>1. ASSUME NEW k \in Keys PROVE last'[k] \in {0} \cup waiting'
      BY <1>5, <2>1, <2>3, <2>4 DEF EventTypeOK
    <3>2. last' = [k \in Keys |-> last'[k]]
      BY <1>2
    <3> QED BY <3>1, <3>2
  <2>7. event' \in [waiting' -> EventTypes \X Keys]
    <3>1. ASSUME NEW i \in waiting' PROVE event'[i] \in EventTypes \X Keys
      BY <1>4, <1>5, <2>1, <2>2, <2>5 DEF EventTypeOK
    <3> QED BY <2>1, <3>1
  <2>8. EventTypeOK'
    <3>1. accepted' \in Nat /\ waiting' \subseteq 1..accepted'
      BY <1>5, <2>1 DEF EventTypeOK
    <3> QED BY <1>2, <1>5, <2>6, <2>7, <3>1 DEF EventTypeOK
  <2>9. ASSUME NEW i \in waiting' PROVE event'[i][2] \notin done'
    BY <1>2, <1>5, <2>1, <2>2, <2>5 DEF LastEvents
  <2>10. ASSUME NEW k \in Keys, last'[k] # 0
         PROVE  /\ event'[last'[k]][2] = k
                /\ event'[last'[k]][1] = "PRESS" <=> k \in KeysOf(pressed')
                /\ \A i \in waiting' : event'[i][2] = k => i <= last'[k]
    <3>1. CASE k \in sent
      <4>1. ASSUME NEW i \in waiting', event'[i][2] = k PROVE i <= last'[k]
        <5>1. accepted \in Nat /\ last'[k] \in (accepted + 1)..(accepted + m)
          BY <1>5, <2>3, <3>1 DEF EventTypeOK
        <5>2. CASE i \in waiting
          BY <2>2, <5>1, <5>2
        <5>3. CASE i \in (accepted + 1)..(accepted + m)
          <6>1. c[i - accepted] = k
            BY <2>2, <4>1, <5>3
          <6> QED BY <2>5, <5>1, <5>3, <6>1
        <5> QED BY <2>1, <5>2, <5>3
      <4>2. event'[last'[k]][1] = type /\ event'[last'[k]][2] = k
        BY <2>3, <3>1
      <4>3. type = "PRESS" <=> k \in KeysOf(pressed')
        BY <1>4, <3>1
      <4> QED BY <4>1, <4>2, <4>3
    <3>2. CASE k \notin sent
      <4>1. last'[k] = last[k] /\ last[k] \in waiting
        BY <1>5, <2>4, <2>10, <3>2 DEF EventTypeOK
      <4>2. ASSUME NEW i \in waiting', event'[i][2] = k PROVE i \in waiting /\ event[i][2] = k
        BY <2>1, <2>2, <2>5, <3>2, <4>2
      <4> QED BY <1>4, <1>5, <2>2, <2>10, <3>2, <4>1, <4>2 DEF LastEvents
    <3> QED BY <3>1, <3>2
  <2>11. LastEvents'
    BY <2>9, <2>10 DEF LastEvents
  <2> QED BY <1>6, <2>8, <2>11 DEF Followed
<1> QED BY <1>7, <1>8

\* The press of a key without entries, once it has one.
LEMMA PressTold ==
  ASSUME Inv, NEW k \in Keys, k \notin KeysOf(pressed),
         pressed' \in Seq(Entries), KeysOf(pressed') = KeysOf(pressed) \cup {k},
         Send("PRESS", <<k>>), device' = device
  PROVE  Inv'
<1>1. wire' = [j \in Keys |-> IF j \in {k} THEN Wired(wire[j], "PRESS") ELSE wire[j]]
  BY DEF Send
<1>2. wire' \in [Keys -> {"up", "down", "bad"}] /\ FirstPressLastRelease'
  BY <1>1 DEF Inv, FirstPressLastRelease, Wired
<1>3. Followed'
  <2> DEFINE c == <<k>>
             type == "PRESS"
             m == 1
  <2>1. /\ m \in Nat /\ c \in [1..m -> Keys] /\ type \in EventTypes /\ type = "PRESS"
        /\ \A i, j \in 1..m : c[i] = c[j] => i = j
        /\ \A j \in Keys : (\E i \in 1..m : c[i] = j) <=> j = k
        /\ Send(type, c)
    BY DEF EventTypes
  <2> HIDE DEF c, type, m
  <2>2. \A j \in Keys : j \in KeysOf(pressed') <=>
          IF \E i \in 1..m : c[i] = j THEN type = "PRESS" ELSE j \in KeysOf(pressed)
    BY <2>1
  <2> QED BY <2>1, <2>2, SendFollowed
<1> QED BY <1>2, <1>3 DEF Inv

\* The release of the keys that have lost their last entry.
LEMMA ReleaseTold ==
  ASSUME Inv, NEW type \in {"RELEASE", "CANCEL"},
         NEW m \in Nat, NEW c \in [1..m -> KeysOf(pressed)],
         \A i, j \in 1..m : c[i] = c[j] => i = j,
         pressed' \in Seq(Entries), KeysOf(pressed') = KeysOf(pressed) \ {c[i] : i \in 1..m},
         Send(type, c), device' = device
  PROVE  Inv'
<1>1. wire' = [j \in Keys |-> IF j \in {c[i] : i \in 1..m} THEN Wired(wire[j], type) ELSE wire[j]]
  BY DEF Send
<1>2. wire' \in [Keys -> {"up", "down", "bad"}] /\ FirstPressLastRelease'
  BY <1>1 DEF Inv, FirstPressLastRelease, Wired
<1>3. Followed'
  <2>1. KeysOf(pressed) \subseteq Keys
    <3>1. \A i \in Places(pressed) : pressed[i] \in Entries
      BY DEF Inv, Places
    <3> QED BY <3>1 DEF KeysOf, Entries
  <2>2. c \in [1..m -> Keys] /\ type \in EventTypes /\ type # "PRESS"
    BY <2>1 DEF EventTypes
  <2> QED BY <2>2, SendFollowed
<1> QED BY <1>2, <1>3 DEF Inv

LEMMA NothingTold ==
  ASSUME Inv, pressed' \in Seq(Entries), KeysOf(pressed') = KeysOf(pressed), SendNothing,
         device' = device
  PROVE  Inv'
  BY DEF Inv, FirstPressLastRelease, Followed, EventTypeOK, LastEvents, DeviceFollows,
         SendNothing, channel

LEMMA PressKeyInv ==
  ASSUME Inv, NEW e \in Entries, PressKey(e), device' = device
  PROVE  Inv'
<1>1. CASE UNCHANGED pressed /\ SendNothing
  BY <1>1, NothingTold DEF Inv
<1>2. CASE /\ pressed' = Append(pressed, e)
           /\ IF AlreadyPressed(e) THEN SendNothing ELSE Send("PRESS", <<e.key>>)
  <2>1. /\ pressed' \in Seq(Entries) /\ KeysOf(pressed') = KeysOf(pressed) \cup {e.key}
        /\ e.key \in Keys
    BY <1>2, AppendedKeys DEF Inv, Entries
  <2>2. CASE AlreadyPressed(e)
    BY <1>2, <2>1, <2>2, NothingTold DEF AlreadyPressed
  <2>3. CASE ~AlreadyPressed(e)
    BY <1>2, <2>1, <2>3, PressTold DEF AlreadyPressed
  <2> QED BY <2>2, <2>3
<1> QED BY <1>1, <1>2 DEF PressKey

LEMMA ReleaseKeyInv ==
  ASSUME Inv, NEW k, NEW type, NEW f, NEW c, ReleaseKey(k, type, f, c),
         device' = device
  PROVE  Inv'
<1>1. CASE UNCHANGED pressed /\ SendNothing
  BY <1>1, NothingTold DEF Inv
<1>2. ASSUME NEW i \in Places(pressed), pressed' = RemoveAt(pressed, i),
             IF StillPressed(pressed[i].key, RemoveAt(pressed, i))
               THEN SendNothing
               ELSE Send(IF c THEN "CANCEL" ELSE "RELEASE", <<pressed[i].key>>)
      PROVE  Inv'
  <2> DEFINE key == pressed[i].key
             sent == IF c THEN "CANCEL" ELSE "RELEASE"
  <2>1. /\ pressed' \in Seq(Entries)
        /\ KeysOf(pressed) = KeysOf(pressed') \cup {key}
    BY <1>2, RemovedKeys DEF Inv
  <2>2. CASE StillPressed(key, pressed')
    BY <1>2, <2>1, <2>2, NothingTold DEF StillPressed
  <2>3. CASE ~StillPressed(key, pressed')
    <3>1. KeysOf(pressed') = KeysOf(pressed) \ {key} /\ key \in KeysOf(pressed)
      BY <2>1, <2>3 DEF StillPressed
    <3>2. Send(sent, <<key>>) /\ sent \in {"RELEASE", "CANCEL"}
      BY <1>2, <2>3
    <3> HIDE DEF key, sent
    <3> DEFINE one == <<key>>
    <3>3. /\ 1 \in Nat /\ one \in [1..1 -> KeysOf(pressed)]
          /\ \A x, y \in 1..1 : one[x] = one[y] => x = y
          /\ {one[x] : x \in 1..1} = {key}
          /\ Send(sent, one)
      BY <3>1, <3>2
    <3> HIDE DEF one
    <3> QED BY <2>1, <3>1, <3>2, <3>3, ReleaseTold, SMTT(30)
  <2> QED BY <2>2, <2>3
<1> QED BY <1>1, <1>2 DEF ReleaseKey

\* Whatever the order of the entries, every key that has one is released once.
LEMMA FinalizeKeysInv ==
  ASSUME Inv, FinalizeKeys, device' = device
  PROVE  Inv'
<1>1. PICK c \in [1..Cardinality(KeysOf(pressed)) -> KeysOf(pressed)] :
        ReleaseOrder(c) /\ Send("CANCEL", c)
  BY DEF FinalizeKeys
<1>2. pressed' = <<>>
  BY DEF FinalizeKeys
<1>3. Cardinality(KeysOf(pressed)) \in Nat
  BY FiniteKeys DEF Inv
<1> DEFINE m == Cardinality(KeysOf(pressed))
<1>4. {c[i] : i \in 1..m} = KeysOf(pressed)
  BY <1>1 DEF ReleaseOrder
<1>5. \A i, j \in 1..m : c[i] = c[j] => i = j
  <2>1. ASSUME NEW i \in 1..m, NEW j \in 1..m, i < j PROVE c[i] # c[j]
    <3>1. PICK l \in Places(pressed) :
            /\ pressed[l].key = c[j]
            /\ \A n \in Places(pressed) : pressed[n].key = c[i] => n < l
      BY <1>1, <2>1 DEF ReleaseOrder
    <3>2. l \in Nat
      BY DEF Places
    <3> QED BY <3>1, <3>2
  <2> QED BY <1>3, <2>1
<1>6. pressed' \in Seq(Entries) /\ KeysOf(pressed') = KeysOf(pressed) \ KeysOf(pressed)
  BY <1>2 DEF KeysOf, Places
<1> QED BY <1>1, <1>3, <1>4, <1>5, <1>6, ReleaseTold

-----------------------------------------------------------------------------
LEMMA InitInv == Init => Inv
  BY DEF Init, Channel!Init, Inv, FirstPressLastRelease, Followed, EventTypeOK, LastEvents,
         DeviceFollows, KeysOf, Places

LEMMA KeyboardInv ==
  ASSUME Inv, NEW k \in Keys, KeyboardPress(k) \/ KeyboardRelease(k)
  PROVE  Inv'
<1>0. device' = device
  BY DEF KeyboardPress, KeyboardRelease
<1>1. CASE UNCHANGED pressed /\ SendNothing
  BY <1>0, <1>1, NothingTold DEF Inv
<1>2. CASE PressKey(ByKeyboard(k))
  BY <1>0, <1>2, EntryTypes, PressKeyInv
<1>3. CASE ReleaseKey(k, "KEYBOARD", None, FALSE)
  BY <1>0, <1>3, ReleaseKeyInv
<1> QED BY <1>1, <1>2, <1>3 DEF KeyboardPress, KeyboardRelease

LEMMA MouseInv ==
  ASSUME Inv, (\E t \in Keys \cup {HK_NULL, Exit} : MousePress(t)) \/ MouseRelease
  PROVE  Inv'
<1>0. device' = device
  BY DEF MousePress, MouseRelease
<1>1. CASE UNCHANGED pressed /\ SendNothing
  BY <1>0, <1>1, NothingTold DEF Inv
<1>2. ASSUME NEW t \in Keys, PressKey(ByMouse(t)) PROVE Inv'
  BY <1>0, <1>2, EntryTypes, PressKeyInv
<1>3. CASE ReleaseKey(HK_NULL, "MOUSE", None, FALSE)
  BY <1>0, <1>3, ReleaseKeyInv
<1> QED BY <1>1, <1>2, <1>3 DEF MousePress, MouseRelease

LEMMA TouchInv ==
  ASSUME Inv, NEW f \in Fingers,
         (\E t \in Keys \cup {HK_NULL} : TouchBegin(f, t)) \/ (\E c \in BOOLEAN : TouchEnd(f, c))
  PROVE  Inv'
<1>0. device' = device
  BY DEF TouchBegin, TouchEnd
<1>1. CASE UNCHANGED pressed /\ SendNothing
  BY <1>0, <1>1, NothingTold DEF Inv
<1>2. ASSUME NEW t \in Keys, PressKey(ByFinger(t, f)) PROVE Inv'
  BY <1>0, <1>2, EntryTypes, PressKeyInv
<1>3. ASSUME NEW c, ReleaseKey(HK_NULL, "TOUCH", f, c) PROVE Inv'
  BY <1>0, <1>3, ReleaseKeyInv
<1> QED BY <1>1, <1>2, <1>3 DEF TouchBegin, TouchEnd

LEMMA WindowInv ==
  ASSUME Inv, OpenKeyboard \/ ActiveChanges \/ ButtonRemove
  PROVE  Inv'
<1>0. device' = device
  BY DEF OpenKeyboard, ActiveChanges, ButtonRemove
<1>1. CASE UNCHANGED pressed /\ SendNothing
  BY <1>0, <1>1, NothingTold DEF Inv
<1>2. CASE FinalizeKeys
  BY <1>0, <1>2, FinalizeKeysInv
<1> QED BY <1>1, <1>2 DEF OpenKeyboard, ActiveChanges, ButtonRemove

\* What waits is lost or heeded in order, so that the last event of a key is the
\* last one the device heeds.
LEMMA StillFollowed ==
  ASSUME Inv, waiting' \subseteq waiting, accepted' = accepted,
         event' = [i \in waiting' |-> event[i]], last' = StillWaiting,
         UNCHANGED <<pressed, wire>>,
         done' \subseteq Keys, \A n \in waiting' : event[n][2] \notin done', DeviceFollows'
  PROVE  Inv'
<1>1. EventTypeOK /\ LastEvents
  BY DEF Inv, Followed
<1>2. \A k \in Keys : last'[k] = IF last[k] \in waiting' THEN last[k] ELSE 0
  BY DEF StillWaiting
<1>3. EventTypeOK'
  <2>1. last' \in [Keys -> {0} \cup waiting']
    BY DEF StillWaiting
  <2>2. event' \in [waiting' -> EventTypes \X Keys]
    BY <1>1 DEF EventTypeOK
  <2> QED BY <1>1, <2>1, <2>2 DEF EventTypeOK
<1>4. \A n \in waiting' : event'[n] = event[n] /\ n \in waiting
  OBVIOUS
<1>5. LastEvents'
  <2>1. ASSUME NEW k \in Keys, last'[k] # 0
        PROVE  /\ event'[last'[k]][2] = k
               /\ event'[last'[k]][1] = "PRESS" <=> k \in KeysOf(pressed')
               /\ \A n \in waiting' : event'[n][2] = k => n <= last'[k]
    <3>1. last'[k] = last[k] /\ last[k] \in waiting'
      BY <1>2, <2>1
    <3> QED BY <1>1, <1>4, <2>1, <3>1 DEF LastEvents
  <2>2. \A n \in waiting' : event'[n][2] \notin done'
    BY <1>4
  <2> QED BY <2>1, <2>2 DEF LastEvents
<1> QED BY <1>3, <1>5 DEF Inv, FirstPressLastRelease, Followed

LEMMA ConnectionLostInv ==
  ASSUME Inv, NEW S \in SUBSET waiting, ConnectionLost(S)
  PROVE  Inv'
<1>1. /\ waiting' \subseteq waiting /\ accepted' = accepted
      /\ event' = [i \in waiting' |-> event[i]] /\ last' = StillWaiting
      /\ UNCHANGED <<pressed, device, wire, done>>
  BY DEF ConnectionLost, Channel!Lose
<1>2. DeviceFollows' /\ done' \subseteq Keys /\ \A n \in waiting' : event[n][2] \notin done'
  BY <1>1 DEF Inv, Followed, EventTypeOK, LastEvents, DeviceFollows
<1> QED BY <1>1, <1>2, StillFollowed

LEMMA ArriveInv ==
  ASSUME Inv, NEW n \in waiting, Arrive(n)
  PROVE  Inv'
<1> DEFINE type == event[n][1]
           key == event[n][2]
<1>1. /\ waiting' = {j \in waiting : j > n} /\ accepted' = accepted
      /\ event' = [i \in waiting' |-> event[i]] /\ last' = StillWaiting
      /\ UNCHANGED <<pressed, wire>>
  BY DEF Arrive, Channel!Deliver
<1>2. /\ EventTypeOK /\ LastEvents /\ DeviceFollows
      /\ key \in Keys /\ key \notin done /\ n \in Nat /\ n # 0
  BY DEF Inv, Followed, EventTypeOK, LastEvents
<1>3. CASE UNCHANGED <<device, done>>
  <2>1. DeviceFollows' /\ done' \subseteq Keys /\ \A i \in waiting' : event[i][2] \notin done'
    BY <1>1, <1>2, <1>3 DEF EventTypeOK, LastEvents, DeviceFollows
  <2> QED BY <1>1, <2>1, StillFollowed
<1>4. CASE /\ device' = Heed(event[n])
           /\ done' = IF last[key] = n THEN done \cup {key} ELSE done
  <2>1. device' = IF type = "PRESS" THEN device \cup {key} ELSE device \ {key}
    BY <1>4 DEF Heed
  <2>2. last[key] = n => (type = "PRESS" <=> key \in KeysOf(pressed))
    BY <1>2 DEF LastEvents
  <2>3. ASSUME NEW i \in waiting', last[key] = n PROVE event[i][2] # key
    BY <1>1, <1>2, <2>3 DEF LastEvents, EventTypeOK
  <2> HIDE DEF key, type
  <2>4. done' \subseteq Keys
    BY <1>2, <1>4 DEF EventTypeOK
  <2>5. \A i \in waiting' : event[i][2] \notin done'
    BY <1>1, <1>2, <1>4, <2>3 DEF LastEvents
  <2>6. DeviceFollows'
    BY <1>1, <1>2, <1>4, <2>1, <2>2 DEF DeviceFollows
  <2> QED BY <1>1, <2>4, <2>5, <2>6, StillFollowed
<1> QED BY <1>3, <1>4 DEF Arrive

LEMMA NextInv == Inv /\ [Next]_vars => Inv'
<1> SUFFICES ASSUME Inv, [Next]_vars PROVE Inv'
  OBVIOUS
<1>1. CASE Connected \/ UNCHANGED vars
  <2>1. UNCHANGED <<pressed, wire, accepted, waiting, event, last, done, device>>
    BY <1>1 DEF Connected, vars, channel
  <2> QED BY <2>1
        DEF Inv, FirstPressLastRelease, Followed, EventTypeOK, LastEvents, DeviceFollows
<1>2. CASE ServerCancels
  BY <1>2 DEF ServerCancels, channel, Inv, FirstPressLastRelease, Followed, EventTypeOK,
              LastEvents, DeviceFollows
<1> QED BY <1>1, <1>2, KeyboardInv, MouseInv, TouchInv, WindowInv, ConnectionLostInv, ArriveInv
        DEF Next, Arrives

-----------------------------------------------------------------------------
(* The entries and the inputs that hold them.                              *)

\* The entries of m_aPressedKeys are unique, and those of fingers have one.
Shaped ==
  /\ \A i, j \in Places(pressed) : pressed[i] = pressed[j] => i = j
  /\ \A i \in Places(pressed) : pressed[i].finger # None <=> pressed[i].type = "TOUCH"

\* What waits is newer than what has arrived.
ChannelOK == newest \in 0..accepted /\ waiting \subseteq (newest + 1)..accepted

\* The types Inv does not state.
Rest ==
  /\ held \in [keys : SUBSET Keys, buttons : Nat, fingers : SUBSET Fingers]
  /\ running \in BOOLEAN /\ active \in BOOLEAN /\ up \in BOOLEAN
  /\ ChannelOK
  /\ device \subseteq Keys
  /\ missed \subseteq Types

\* The conjuncts of EntriesHeld.
KeyboardHeld ==
  \A i \in OfType(pressed, "KEYBOARD") : pressed[i].key \in held.keys \/ "KEYBOARD" \in missed
TouchHeld ==
  \A i \in OfType(pressed, "TOUCH") : pressed[i].finger \in held.fingers \/ "TOUCH" \in missed
MouseHeld ==
  Cardinality(OfType(pressed, "MOUSE")) <= held.buttons \/ "MOUSE" \in missed

\* While the running screen's window is not active, the releases of the
\* keyboard pass unheard: no entry waits for one.
KeyboardLetGo == running /\ ~active => OfType(pressed, "KEYBOARD") = {}

\* The release of a finger removes one entry: the finger has no other.
OneEntryEach ==
  "TOUCH" \in missed \/
    \A i, j \in OfType(pressed, "TOUCH") : pressed[i].finger = pressed[j].finger => i = j

HeldInv == Inv /\ Shaped /\ Rest /\ EntriesHeld /\ KeyboardLetGo /\ OneEntryEach

LEMMA HeldParts == EntriesHeld <=> KeyboardHeld /\ TouchHeld /\ MouseHeld
  BY DEF EntriesHeld, KeyboardHeld, TouchHeld, MouseHeld

LEMMA HeldPartsNext == EntriesHeld' <=> KeyboardHeld' /\ TouchHeld' /\ MouseHeld'
  BY DEF EntriesHeld, KeyboardHeld, TouchHeld, MouseHeld

LEMMA FinitePlaces ==
  ASSUME NEW q \in Seq(Entries), NEW t
  PROVE  IsFiniteSet(OfType(q, t)) /\ Cardinality(OfType(q, t)) \in Nat
<1>1. IsFiniteSet(Places(q))
  BY FS_Interval DEF Places
<1>2. IsFiniteSet(OfType(q, t))
  BY <1>1, FS_Subset DEF OfType
<1> QED BY <1>2, FS_CardinalityType

\* A set whose elements have each a counterpart of their own has no more.
LEMMA NotMore ==
  ASSUME NEW S, NEW T, IsFiniteSet(T), NEW old, \A m \in S : old[m] \in T,
         \A m, n \in S : old[m] = old[n] => m = n
  PROVE  Cardinality(S) <= Cardinality(T)
<1> DEFINE g == [m \in S |-> old[m]]
<1>1. g \in Injection(S, T)
  BY DEF Injection, IsInjective
<1> HIDE DEF g
<1> QED BY <1>1, FS_Injection

\* A missed release is remembered while entries of its type are left.
LEMMA UnheardTypes ==
  ASSUME NEW types \in SUBSET Types, missed \subseteq Types, Unheard(types)
  PROVE  /\ missed' \subseteq Types
         /\ \A t \in missed \cup types : t \in missed' \/ OfType(pressed', t) = {}
  BY DEF Unheard

\* A press adds an entry at the end, or none.
LEMMA PressPlaces ==
  ASSUME Inv, Shaped, NEW e \in Entries, e.finger # None <=> e.type = "TOUCH", PressKey(e)
  PROVE  /\ Shaped'
         /\ \/ UNCHANGED pressed
            \/ /\ Len(pressed) \in Nat /\ Len(pressed') = Len(pressed) + 1
               /\ \A i \in Places(pressed) : pressed'[i] = pressed[i]
               /\ pressed'[Len(pressed) + 1] = e
<1>1. CASE UNCHANGED pressed
  BY <1>1 DEF Shaped
<1>2. CASE ~HasEntry(e) /\ pressed' = Append(pressed, e)
  <2>1. /\ Len(pressed) \in Nat /\ Len(pressed') = Len(pressed) + 1
        /\ \A i \in Places(pressed) : pressed'[i] = pressed[i]
        /\ pressed'[Len(pressed) + 1] = e
    BY <1>2 DEF Inv, Places
  <2>2. \A i \in Places(pressed) : pressed[i] # e
    BY <1>2 DEF HasEntry
  <2>3. \A i \in Places(pressed') : i \in Places(pressed) \/ i = Len(pressed) + 1
    BY <2>1 DEF Places
  <2>4. Shaped'
    BY <2>1, <2>2, <2>3 DEF Shaped
  <2> QED BY <2>1, <2>4
<1> QED BY <1>1, <1>2 DEF PressKey

\* No entry matches, or one that does is taken away.
NoneTaken(k, type, f) ==
  UNCHANGED pressed /\ \A i \in Places(pressed) : ~Matches(i, k, type, f)
OneTaken(k, type, f) ==
  \E i \in Places(pressed) :
    /\ Matches(i, k, type, f)
    /\ \E old \in [Places(pressed') -> Places(pressed) \ {i}] :
         /\ \A m \in Places(pressed') : pressed'[m] = pressed[old[m]]
         /\ \A m, n \in Places(pressed') : old[m] = old[n] => m = n

LEMMA ReleasePlaces ==
  ASSUME Inv, Shaped, NEW k, NEW type, NEW f, NEW c, ReleaseKey(k, type, f, c)
  PROVE  Shaped' /\ (NoneTaken(k, type, f) \/ OneTaken(k, type, f))
<1>1. CASE NoneTaken(k, type, f)
  BY <1>1 DEF Shaped, NoneTaken
<1>2. ASSUME NEW i \in Places(pressed), Matches(i, k, type, f), pressed' = RemoveAt(pressed, i)
      PROVE  /\ Shaped'
             /\ \E old \in [Places(pressed') -> Places(pressed) \ {i}] :
                  /\ \A m \in Places(pressed') : pressed'[m] = pressed[old[m]]
                  /\ \A m, n \in Places(pressed') : old[m] = old[n] => m = n
  <2>1. pressed \in Seq(Entries)
    BY DEF Inv
  <2>2. PICK old \in [Places(pressed') -> Places(pressed) \ {i}] :
          /\ \A m \in Places(pressed') : pressed'[m] = pressed[old[m]]
          /\ \A m, n \in Places(pressed') : old[m] = old[n] => m = n
    <3> DEFINE q == pressed
               r == pressed'
    <3>1. q \in Seq(Entries) /\ i \in Places(q) /\ r = RemoveAt(q, i)
      BY <1>2, <2>1
    <3> HIDE DEF q, r
    <3>2. \E old \in [Places(r) -> Places(q) \ {i}] :
            /\ \A m \in Places(r) : r[m] = q[old[m]]
            /\ \A m, n \in Places(r) : old[m] = old[n] => m = n
      BY <3>1, RemovedPlaces
    <3> QED BY <3>2 DEF q, r
  <2>3. \A m \in Places(pressed') : old[m] \in Places(pressed)
    BY <2>2
  <2>4. Shaped'
    BY <2>2, <2>3 DEF Shaped
  <2> QED BY <2>2, <2>4
<1> QED BY <1>1, <1>2 DEF ReleaseKey, NoneTaken, OneTaken

\* Entries that stay are held as before.
LEMMA FewerHeld ==
  ASSUME HeldInv, NEW types \in SUBSET Types, Unheard(types), pressed' \in Seq(Entries),
         NEW old \in [Places(pressed') -> Places(pressed)],
         \A m \in Places(pressed') : pressed'[m] = pressed[old[m]],
         \A m, n \in Places(pressed') : old[m] = old[n] => m = n
  PROVE  /\ held'.keys = held.keys => KeyboardHeld'
         /\ held'.fingers = held.fingers => TouchHeld'
         /\ held'.buttons = held.buttons => MouseHeld'
         /\ OneEntryEach'
         /\ OfType(pressed, "KEYBOARD") = {} => OfType(pressed', "KEYBOARD") = {}
<1>1. KeyboardHeld /\ TouchHeld /\ MouseHeld /\ OneEntryEach
  BY HeldParts DEF HeldInv
<1>2. \A t \in missed : t \in missed' \/ OfType(pressed', t) = {}
  BY UnheardTypes DEF HeldInv, Rest
<1>3. ASSUME NEW t, NEW m \in OfType(pressed', t)
      PROVE  /\ m \in Places(pressed') /\ old[m] \in OfType(pressed, t)
             /\ pressed'[m] = pressed[old[m]]
  BY DEF OfType
<1>4. ASSUME held'.keys = held.keys PROVE KeyboardHeld'
  BY <1>1, <1>2, <1>3, <1>4 DEF KeyboardHeld
<1>5. ASSUME held'.fingers = held.fingers PROVE TouchHeld'
  BY <1>1, <1>2, <1>3, <1>5 DEF TouchHeld
<1>6. Cardinality(OfType(pressed', "MOUSE")) <= Cardinality(OfType(pressed, "MOUSE"))
  <2> DEFINE S == OfType(pressed', "MOUSE")
             T == OfType(pressed, "MOUSE")
  <2>1. IsFiniteSet(T)
    BY FinitePlaces DEF HeldInv, Inv
  <2>2. \A m \in S : m \in Places(pressed') /\ old[m] \in T
    BY <1>3
  <2>3. \A m, n \in S : old[m] = old[n] => m = n
    BY <2>2
  <2> HIDE DEF S, T
  <2>4. Cardinality(S) <= Cardinality(T)
    BY <2>1, <2>2, <2>3, NotMore
  <2> QED BY <2>4 DEF S, T
<1>7. ASSUME held'.buttons = held.buttons PROVE MouseHeld'
  <2>1. /\ Cardinality(OfType(pressed, "MOUSE")) \in Nat
        /\ Cardinality(OfType(pressed', "MOUSE")) \in Nat
        /\ held.buttons \in Nat
    BY FinitePlaces DEF HeldInv, Inv, Rest
  <2>2. CASE "MOUSE" \in missed'
    BY <2>2 DEF MouseHeld
  <2>3. CASE "MOUSE" \in missed /\ OfType(pressed', "MOUSE") = {}
    BY <1>7, <2>1, <2>3, FS_EmptySet DEF MouseHeld
  <2>4. CASE Cardinality(OfType(pressed, "MOUSE")) <= held.buttons
    BY <1>6, <1>7, <2>1, <2>4 DEF MouseHeld
  <2> QED BY <1>1, <1>2, <2>2, <2>3, <2>4 DEF MouseHeld
<1>8. OneEntryEach'
  <2>1. CASE "TOUCH" \in missed
    BY <1>2, <2>1 DEF OneEntryEach
  <2>2. CASE \A i, j \in OfType(pressed, "TOUCH") : pressed[i].finger = pressed[j].finger => i = j
    BY <1>3, <2>2 DEF OneEntryEach
  <2> QED BY <1>1, <2>1, <2>2 DEF OneEntryEach
<1>9. OfType(pressed, "KEYBOARD") = {} => OfType(pressed', "KEYBOARD") = {}
  BY <1>3
<1> QED BY <1>4, <1>5, <1>7, <1>8, <1>9

\* The list as it was.
LEMMA SameHeld ==
  ASSUME HeldInv, NEW types \in SUBSET Types, Unheard(types), UNCHANGED pressed
  PROVE  /\ held'.keys = held.keys => KeyboardHeld'
         /\ held'.fingers = held.fingers => TouchHeld'
         /\ held'.buttons = held.buttons => MouseHeld'
         /\ OneEntryEach'
         /\ Shaped'
<1> DEFINE old == [m \in Places(pressed') |-> m]
<1>1. /\ old \in [Places(pressed') -> Places(pressed)] /\ pressed' \in Seq(Entries)
      /\ \A m \in Places(pressed') : pressed'[m] = pressed[old[m]]
      /\ \A m, n \in Places(pressed') : old[m] = old[n] => m = n
  BY DEF HeldInv, Inv
<1>2. Shaped'
  BY DEF HeldInv, Shaped
<1> HIDE DEF old
<1> QED BY <1>1, <1>2, FewerHeld

\* No entry at all.
LEMMA NoneHeld ==
  ASSUME HeldInv, pressed' = <<>>, held'.buttons \in Nat
  PROVE  Shaped' /\ EntriesHeld' /\ KeyboardLetGo' /\ OneEntryEach'
<1>1. Places(pressed') = {}
  BY DEF Places
<1>2. \A t : OfType(pressed', t) = {}
  BY <1>1 DEF OfType
<1>3. KeyboardHeld' /\ TouchHeld'
  BY <1>2 DEF KeyboardHeld, TouchHeld
<1>4. Cardinality(OfType(pressed', "MOUSE")) = 0
  BY <1>2, FS_EmptySet, Zenon
<1>5. MouseHeld'
  BY <1>4 DEF MouseHeld
<1> QED BY <1>1, <1>2, <1>3, <1>5, HeldPartsNext DEF Shaped, KeyboardLetGo, OneEntryEach

\* A press: the entry it adds is of an input that is down.
LEMMA PressHeld ==
  ASSUME HeldInv, NEW e \in Entries, e.finger # None <=> e.type = "TOUCH", PressKey(e),
         Unheard({}),
         held.keys \subseteq held'.keys, held.fingers \subseteq held'.fingers,
         held'.buttons \in Nat, held'.buttons >= held.buttons,
         e.type = "KEYBOARD" => e.key \in held'.keys,
         e.type = "MOUSE" => held'.buttons = held.buttons + 1,
         e.type = "TOUCH" => e.finger \in held'.fingers \ held.fingers
  PROVE  /\ Shaped' /\ EntriesHeld' /\ OneEntryEach'
         /\ \A i \in OfType(pressed', "KEYBOARD") :
              i \in OfType(pressed, "KEYBOARD") \/ e.type = "KEYBOARD"
<1>1. KeyboardHeld /\ TouchHeld /\ MouseHeld /\ OneEntryEach /\ Inv /\ Shaped
  BY HeldParts DEF HeldInv
<1>2. \A t \in missed : t \in missed' \/ OfType(pressed', t) = {}
  BY UnheardTypes DEF HeldInv, Rest
<1>3. /\ Shaped'
      /\ \/ UNCHANGED pressed
         \/ /\ Len(pressed) \in Nat /\ Len(pressed') = Len(pressed) + 1
            /\ \A i \in Places(pressed) : pressed'[i] = pressed[i]
            /\ pressed'[Len(pressed) + 1] = e
  BY <1>1, PressPlaces
<1> DEFINE new == Len(pressed) + 1
<1>4. ASSUME NEW t, NEW i \in OfType(pressed', t)
      PROVE  \/ i \in OfType(pressed, t) /\ pressed'[i] = pressed[i]
             \/ i = new /\ pressed'[i] = e /\ e.type = t
  BY <1>3 DEF OfType, Places
<1>5. /\ held.buttons \in Nat /\ Cardinality(OfType(pressed, "MOUSE")) \in Nat
      /\ IsFiniteSet(OfType(pressed, "MOUSE")) /\ OfType(pressed, "MOUSE") \subseteq Nat
      /\ new \notin OfType(pressed, "MOUSE")
  <2>1. held.buttons \in Nat /\ pressed \in Seq(Entries) /\ Len(pressed) \in Nat
    BY <1>1 DEF HeldInv, Rest, Inv
  <2>2. OfType(pressed, "MOUSE") \subseteq Nat /\ new \notin OfType(pressed, "MOUSE")
    BY <2>1 DEF OfType, Places
  <2> QED BY <2>1, <2>2, FinitePlaces
<1> HIDE DEF new
<1>6. KeyboardHeld'
  BY <1>1, <1>2, <1>4 DEF KeyboardHeld
<1>7. TouchHeld'
  BY <1>1, <1>2, <1>4 DEF TouchHeld
<1>8. MouseHeld'
  <2> DEFINE S == OfType(pressed', "MOUSE")
             T == OfType(pressed, "MOUSE")
  <2>1. CASE "MOUSE" \in missed'
    BY <2>1 DEF MouseHeld
  <2>2. CASE S = {}
    <3>1. Cardinality(S) = 0
      BY <2>2, FS_EmptySet, Zenon
    <3> QED BY <3>1 DEF MouseHeld
  <2>3. CASE Cardinality(T) <= held.buttons
    <3>1. CASE e.type = "MOUSE"
      <4>1. S \subseteq T \cup {new}
        BY <1>4
      <4>2. /\ IsFiniteSet(T \cup {new})
            /\ Cardinality(T \cup {new}) = Cardinality(T) + 1
        <5> HIDE DEF T
        <5>1. IsFiniteSet(T) /\ new \notin T
          BY <1>5 DEF T
        <5> QED BY <5>1, FS_AddElement
      <4>3. Cardinality(S) <= Cardinality(T \cup {new}) /\ Cardinality(S) \in Nat
        BY <4>1, <4>2, FS_Subset, FS_CardinalityType
      <4> HIDE DEF S, T
      <4>4. Cardinality(S) <= held'.buttons
        BY <1>5, <2>3, <3>1, <4>2, <4>3 DEF T
      <4> QED BY <4>4 DEF S, MouseHeld
    <3>2. CASE e.type # "MOUSE"
      <4>1. S \subseteq T
        BY <1>4, <3>2
      <4>2. Cardinality(S) <= Cardinality(T) /\ Cardinality(S) \in Nat
        BY <1>5, <4>1, FS_Subset, FS_CardinalityType
      <4> HIDE DEF S, T
      <4>3. Cardinality(S) <= held'.buttons
        BY <1>5, <2>3, <4>2 DEF T
      <4> QED BY <4>3 DEF S, MouseHeld
    <3> QED BY <3>1, <3>2
  <2> QED BY <1>1, <1>2, <2>1, <2>2, <2>3 DEF MouseHeld
<1>9. OneEntryEach'
  <2>1. CASE "TOUCH" \in missed
    BY <1>2, <2>1 DEF OneEntryEach
  <2>2. CASE "TOUCH" \notin missed
    <3>1. \A i \in OfType(pressed, "TOUCH") : pressed[i].finger \in held.fingers
      BY <1>1, <2>2 DEF TouchHeld
    <3>2. \A i, j \in OfType(pressed, "TOUCH") : pressed[i].finger = pressed[j].finger => i = j
      BY <1>1, <2>2 DEF OneEntryEach
    <3>3. ASSUME NEW i \in OfType(pressed', "TOUCH"), NEW j \in OfType(pressed', "TOUCH"),
                 pressed'[i].finger = pressed'[j].finger
          PROVE  i = j
      BY <1>4, <3>1, <3>2, <3>3
    <3> QED BY <3>3 DEF OneEntryEach
  <2> QED BY <2>1, <2>2
<1>10. \A i \in OfType(pressed', "KEYBOARD") :
         i \in OfType(pressed, "KEYBOARD") \/ e.type = "KEYBOARD"
  BY <1>4
<1> QED BY <1>3, <1>6, <1>7, <1>8, <1>9, <1>10, HeldPartsNext

\* The entry types.
LEMMA EntryShapes ==
  ASSUME NEW k \in Keys
  PROVE  /\ ByKeyboard(k).finger = None /\ ByKeyboard(k).type = "KEYBOARD"
         /\ ByMouse(k).finger = None /\ ByMouse(k).type = "MOUSE"
         /\ \A f \in Fingers : /\ ByFinger(k, f).finger = f /\ ByFinger(k, f).type = "TOUCH"
                               /\ f # None
  BY InputAssumption DEF ByKeyboard, ByMouse, ByFinger

\* The keys a step sends are newer than what waits.
LEMMA SendChannel ==
  ASSUME Inv, ChannelOK, NEW type, NEW c, Len(c) \in Nat, Send(type, c)
  PROVE  ChannelOK'
<1>1. accepted \in Nat
  BY DEF Inv, Followed, EventTypeOK
<1>2. CASE ~up
  BY <1>2 DEF Send, channel, ChannelOK
<1>3. CASE up
  <2>1. /\ accepted' = accepted + Len(c)
        /\ waiting' = waiting \cup (accepted + 1)..(accepted + Len(c))
        /\ newest' = newest
    BY <1>3 DEF Send, Channel!Accept
  <2>2. /\ newest \in 0..accepted
        /\ \A j \in waiting : j \in (newest + 1)..accepted
    BY DEF ChannelOK
  <2>3. ASSUME NEW j \in waiting' PROVE j \in (newest' + 1)..accepted'
    BY <1>1, <2>1, <2>2
  <2>4. newest' \in 0..accepted'
    BY <1>1, <2>1, <2>2
  <2> QED BY <2>3, <2>4 DEF ChannelOK
<1> QED BY <1>2, <1>3

LEMMA SendNothingChannel == ChannelOK /\ SendNothing => ChannelOK'
  BY DEF ChannelOK, SendNothing, channel

LEMMA KeyChannelOK ==
  ASSUME Inv, ChannelOK,
         \/ \E e : PressKey(e)
         \/ \E k, type, f, c : ReleaseKey(k, type, f, c)
  PROVE  ChannelOK'
<1>1. ASSUME NEW type, NEW k, Send(type, <<k>>) PROVE ChannelOK'
  <2> DEFINE one == <<k>>
  <2>1. Len(one) \in Nat /\ Send(type, one)
    BY <1>1
  <2> HIDE DEF one
  <2> QED BY <2>1, SendChannel
<1>2. CASE \E e : PressKey(e)
  BY <1>1, <1>2, SendNothingChannel DEF PressKey
<1>3. CASE \E k, type, f, c : ReleaseKey(k, type, f, c)
  BY <1>1, <1>3, SendNothingChannel DEF ReleaseKey
<1> QED BY <1>2, <1>3

LEMMA FinalizeChannel ==
  ASSUME Inv, ChannelOK, FinalizeKeys
  PROVE  ChannelOK' /\ pressed' = <<>> /\ (missed \subseteq Types => missed' \subseteq Types)
<1>1. PICK c \in [1..Cardinality(KeysOf(pressed)) -> KeysOf(pressed)] : Send("CANCEL", c)
  BY DEF FinalizeKeys
<1>2. Cardinality(KeysOf(pressed)) \in Nat
  BY FiniteKeys DEF Inv
<1>3. Len(c) \in Nat
  BY <1>2
<1>4. missed \subseteq Types => missed' \subseteq Types
  BY DEF FinalizeKeys, Unheard
<1> QED BY <1>1, <1>3, <1>4, SendChannel DEF FinalizeKeys

LEMMA KeyboardHeldInv ==
  ASSUME HeldInv, NEW k \in Keys, KeyboardPress(k) \/ KeyboardRelease(k)
  PROVE  HeldInv'
<1>1. Inv /\ Shaped /\ Rest /\ KeyboardLetGo
  BY DEF HeldInv
<1>2. Inv'
  BY <1>1, KeyboardInv
<1>3. pressed' \in Seq(Entries)
  BY <1>2 DEF Inv
<1>4. CASE KeyboardPress(k)
  <2>1. /\ held'.keys = held.keys \cup {k} /\ held'.buttons = held.buttons
        /\ held'.fingers = held.fingers /\ held.buttons \in Nat
        /\ held' \in [keys : SUBSET Keys, buttons : Nat, fingers : SUBSET Fingers]
    BY <1>1, <1>4 DEF KeyboardPress, Rest
  <2>2. Unheard({}) /\ {} \in SUBSET Types /\ UNCHANGED <<running, active, up, device>>
    BY <1>4 DEF KeyboardPress
  <2>3. CASE ~(active /\ running)
    <3>1. UNCHANGED pressed /\ SendNothing
      BY <1>4, <2>3 DEF KeyboardPress
    <3>2. Shaped' /\ TouchHeld' /\ MouseHeld' /\ OneEntryEach'
      BY <2>1, <2>2, <3>1, SameHeld
    <3>3. KeyboardHeld'
      <4>1. KeyboardHeld
        BY HeldParts DEF HeldInv
      <4>2. "KEYBOARD" \in missed => "KEYBOARD" \in missed' \/ OfType(pressed', "KEYBOARD") = {}
        BY <1>1, <2>2, UnheardTypes DEF Rest
      <4> QED BY <2>1, <3>1, <4>1, <4>2 DEF KeyboardHeld
    <3>4. KeyboardLetGo'
      BY <1>1, <2>2, <3>1 DEF KeyboardLetGo
    <3>5. ChannelOK'
      BY <1>1, <3>1, SendNothingChannel DEF Rest
    <3>6. Rest'
      BY <1>1, <2>1, <2>2, <3>5, UnheardTypes DEF Rest
    <3> QED BY <1>2, <3>2, <3>3, <3>4, <3>6, HeldPartsNext DEF HeldInv
  <2>4. CASE active /\ running
    <3> DEFINE e == ByKeyboard(k)
    <3>1. PressKey(e)
      BY <1>4, <2>4 DEF KeyboardPress
    <3>2. e \in Entries /\ e.key = k /\ e.type = "KEYBOARD" /\ e.finger = None
      BY EntryTypes, EntryShapes
    <3> HIDE DEF e
    <3>3. Shaped' /\ EntriesHeld' /\ OneEntryEach'
      BY <2>1, <2>2, <3>1, <3>2, PressHeld
    <3>4. KeyboardLetGo'
      BY <2>2, <2>4 DEF KeyboardLetGo
    <3>5. ChannelOK'
      BY <1>1, <3>1, KeyChannelOK DEF Rest
    <3>6. Rest'
      BY <1>1, <2>1, <2>2, <3>5, UnheardTypes DEF Rest
    <3> QED BY <1>2, <3>3, <3>4, <3>6 DEF HeldInv
  <2> QED BY <2>3, <2>4
<1>5. CASE KeyboardRelease(k)
  <2> DEFINE types == IF running THEN {} ELSE {"KEYBOARD"}
  <2>1. /\ held'.keys = held.keys \ {k} /\ held'.buttons = held.buttons
        /\ held'.fingers = held.fingers
        /\ held' \in [keys : SUBSET Keys, buttons : Nat, fingers : SUBSET Fingers]
    BY <1>1, <1>5 DEF KeyboardRelease, Rest
  <2>2. /\ Unheard(types) /\ types \in SUBSET Types
        /\ UNCHANGED <<running, active, up, device>>
    BY <1>5 DEF KeyboardRelease, Types
  <2>3. /\ missed' \subseteq Types
        /\ \A t \in missed \cup types : t \in missed' \/ OfType(pressed', t) = {}
    BY <1>1, <2>2, UnheardTypes DEF Rest
  <2>4. KeyboardHeld
    BY HeldParts DEF HeldInv
  <2>5. CASE ~(active /\ running)
    <3>1. UNCHANGED pressed /\ SendNothing
      BY <1>5, <2>5 DEF KeyboardRelease
    <3>2. Shaped' /\ TouchHeld' /\ MouseHeld' /\ OneEntryEach'
      BY <2>1, <2>2, <3>1, SameHeld
    <3>3. KeyboardLetGo'
      BY <1>1, <2>2, <3>1 DEF KeyboardLetGo
    <3>4. KeyboardHeld'
      <4>1. CASE running
        BY <1>1, <2>5, <3>1, <4>1 DEF KeyboardLetGo, KeyboardHeld
      <4>2. CASE ~running
        BY <2>3, <4>2 DEF KeyboardHeld
      <4> QED BY <4>1, <4>2
    <3>5. ChannelOK'
      BY <1>1, <3>1, SendNothingChannel DEF Rest
    <3>6. Rest'
      BY <1>1, <2>1, <2>2, <2>3, <3>5 DEF Rest
    <3> QED BY <1>2, <3>2, <3>3, <3>4, <3>6, HeldPartsNext DEF HeldInv
  <2>6. CASE active /\ running
    <3>1. ReleaseKey(k, "KEYBOARD", None, FALSE)
      BY <1>5, <2>6 DEF KeyboardRelease
    <3>2. /\ Shaped'
          /\ NoneTaken(k, "KEYBOARD", None) \/ OneTaken(k, "KEYBOARD", None)
      BY <1>1, <3>1, ReleasePlaces
    <3>3. KeyboardLetGo'
      BY <2>2, <2>6 DEF KeyboardLetGo
    <3>4. ChannelOK'
      BY <1>1, <3>1, KeyChannelOK DEF Rest
    <3>5. Rest'
      BY <1>1, <2>1, <2>2, <2>3, <3>4 DEF Rest
    <3>6. ASSUME NEW i \in Places(pressed), pressed[i].type = "KEYBOARD", pressed[i].key = k
          PROVE  Matches(i, k, "KEYBOARD", None)
      BY <1>1, <3>6 DEF Shaped, Matches
    <3>7. CASE NoneTaken(k, "KEYBOARD", None)
      <4>1. TouchHeld' /\ MouseHeld' /\ OneEntryEach'
        BY <2>1, <2>2, <3>7, SameHeld DEF NoneTaken
      <4>2. KeyboardHeld'
        BY <2>1, <2>3, <2>4, <3>6, <3>7 DEF KeyboardHeld, OfType, NoneTaken
      <4> QED BY <1>2, <3>2, <3>3, <3>5, <4>1, <4>2, HeldPartsNext DEF HeldInv
    <3>8. ASSUME NEW i \in Places(pressed), Matches(i, k, "KEYBOARD", None),
                 NEW old \in [Places(pressed') -> Places(pressed) \ {i}],
                 \A m \in Places(pressed') : pressed'[m] = pressed[old[m]],
                 \A m, n \in Places(pressed') : old[m] = old[n] => m = n
          PROVE  HeldInv'
      <4>1. old \in [Places(pressed') -> Places(pressed)]
        OBVIOUS
      <4>2. TouchHeld' /\ MouseHeld' /\ OneEntryEach'
        BY <1>3, <2>1, <2>2, <3>8, <4>1, FewerHeld
      <4>3. ASSUME NEW j \in Places(pressed), pressed[j].type = "KEYBOARD", pressed[j].key = k
            PROVE  j = i
        <5>1. /\ pressed[i] = [key |-> k, type |-> "KEYBOARD", finger |-> None] \/ k = HK_NULL
              /\ pressed[j] = [key |-> k, type |-> "KEYBOARD", finger |-> None]
          <6>1. pressed[i] \in Entries /\ pressed[j] \in Entries
            BY <1>1 DEF Inv, Places
          <6>2. /\ pressed[i].type = "KEYBOARD" /\ pressed[i].finger = None
                /\ pressed[i].key = k \/ k = HK_NULL
                /\ pressed[j].finger = None
            BY <1>1, <3>6, <3>8, <4>3 DEF Matches
          <6> QED BY <4>3, <6>1, <6>2 DEF Entries
        <5> QED BY <1>1, <5>1, InputAssumption DEF Shaped
      <4>4. KeyboardHeld'
        <5>1. ASSUME NEW m \in OfType(pressed', "KEYBOARD")
              PROVE  pressed'[m].key \in held'.keys \/ "KEYBOARD" \in missed'
          <6>1. /\ old[m] \in Places(pressed) /\ old[m] # i /\ pressed'[m] = pressed[old[m]]
                /\ pressed[old[m]].type = "KEYBOARD"
            BY <3>8 DEF OfType
          <6>2. pressed[old[m]].key # k
            BY <4>3, <6>1
          <6>3. pressed[old[m]].key \in held.keys \/ "KEYBOARD" \in missed
            BY <2>4, <6>1 DEF KeyboardHeld, OfType
          <6> QED BY <2>1, <2>3, <6>1, <6>2, <6>3
        <5> QED BY <5>1 DEF KeyboardHeld
      <4> QED BY <1>2, <3>2, <3>3, <3>5, <4>2, <4>4, HeldPartsNext DEF HeldInv
    <3> QED BY <3>2, <3>7, <3>8 DEF OneTaken
  <2> QED BY <2>5, <2>6
<1> QED BY <1>4, <1>5

\* The press of the mouse or of a finger, on a key or beside the keys; the exit
\* button stops the screen.
LEMMA MousePressHeldInv ==
  ASSUME HeldInv, NEW t \in Keys \cup {HK_NULL, Exit}, MousePress(t)
  PROVE  HeldInv'
<1>1. Inv /\ Shaped /\ Rest /\ KeyboardLetGo /\ KeyboardHeld /\ TouchHeld /\ MouseHeld
  BY HeldParts DEF HeldInv
<1>2. Inv'
  BY <1>1, MouseInv
<1>3. /\ held'.keys = held.keys /\ held'.buttons = held.buttons + 1
      /\ held'.fingers = held.fingers /\ held.buttons \in Nat
      /\ held' \in [keys : SUBSET Keys, buttons : Nat, fingers : SUBSET Fingers]
  BY <1>1 DEF MousePress, Rest
<1>4. Unheard({}) /\ {} \in SUBSET Types /\ UNCHANGED <<active, up, device>>
  BY DEF MousePress
<1>5. running' \in BOOLEAN /\ (running' => running)
  BY DEF MousePress
<1>6. /\ missed' \subseteq Types
      /\ \A x \in missed : x \in missed' \/ OfType(pressed', x) = {}
  BY <1>1, <1>4, UnheardTypes DEF Rest
<1>7. CASE UNCHANGED pressed /\ SendNothing
  <2>1. Shaped' /\ KeyboardHeld' /\ TouchHeld' /\ OneEntryEach'
    BY <1>3, <1>4, <1>7, SameHeld
  <2>2. MouseHeld'
    <3>1. /\ Cardinality(OfType(pressed, "MOUSE")) \in Nat
          /\ OfType(pressed', "MOUSE") = OfType(pressed, "MOUSE")
      BY <1>1, <1>7, FinitePlaces DEF Inv
    <3>2. CASE OfType(pressed', "MOUSE") = {}
      <4>1. Cardinality(OfType(pressed', "MOUSE")) = 0
        BY <3>2, FS_EmptySet, Zenon
      <4> QED BY <1>3, <4>1 DEF MouseHeld
    <3>3. CASE Cardinality(OfType(pressed, "MOUSE")) <= held.buttons
      BY <1>3, <3>1, <3>3 DEF MouseHeld
    <3> QED BY <1>1, <1>6, <3>2, <3>3 DEF MouseHeld
  <2>3. KeyboardLetGo'
    BY <1>1, <1>4, <1>5, <1>7 DEF KeyboardLetGo
  <2>4. ChannelOK'
    BY <1>1, <1>7, SendNothingChannel DEF Rest
  <2>5. Rest'
    BY <1>1, <1>3, <1>4, <1>5, <1>6, <2>4 DEF Rest
  <2> QED BY <1>2, <2>1, <2>2, <2>3, <2>5, HeldPartsNext DEF HeldInv
<1>8. CASE t \in Keys /\ PressKey(ByMouse(t))
  <2> DEFINE e == ByMouse(t)
  <2>1. PressKey(e) /\ e \in Entries /\ e.type = "MOUSE" /\ e.finger = None
    BY <1>8, EntryTypes, EntryShapes
  <2> HIDE DEF e
  <2>2. /\ Shaped' /\ EntriesHeld' /\ OneEntryEach'
        /\ \A i \in OfType(pressed', "KEYBOARD") : i \in OfType(pressed, "KEYBOARD")
    BY <1>3, <1>4, <2>1, PressHeld
  <2>3. KeyboardLetGo'
    BY <1>1, <1>4, <1>5, <2>2 DEF KeyboardLetGo
  <2>4. ChannelOK'
    BY <1>1, <2>1, KeyChannelOK DEF Rest
  <2>5. Rest'
    BY <1>1, <1>3, <1>4, <1>5, <1>6, <2>4 DEF Rest
  <2> QED BY <1>2, <2>2, <2>3, <2>5 DEF HeldInv
<1> QED BY <1>7, <1>8 DEF MousePress

LEMMA MouseReleaseHeldInv ==
  ASSUME HeldInv, MouseRelease
  PROVE  HeldInv'
<1> DEFINE types == IF running THEN {} ELSE {"MOUSE"}
           S == OfType(pressed', "MOUSE")
           T == OfType(pressed, "MOUSE")
<1>1. Inv /\ Shaped /\ Rest /\ KeyboardLetGo /\ MouseHeld
  BY HeldParts DEF HeldInv
<1>2. Inv' /\ pressed' \in Seq(Entries)
  <2>1. Inv'
    BY <1>1, MouseInv
  <2> QED BY <2>1 DEF Inv
<1>3. /\ held'.keys = held.keys /\ held'.buttons = held.buttons - 1
      /\ held'.fingers = held.fingers /\ held.buttons \in Nat /\ held'.buttons \in Nat
      /\ held' \in [keys : SUBSET Keys, buttons : Nat, fingers : SUBSET Fingers]
  BY <1>1 DEF MouseRelease, Rest
<1>4. /\ Unheard(types) /\ types \in SUBSET Types
      /\ UNCHANGED <<running, active, up, device>>
  BY DEF MouseRelease, Types
<1>5. /\ missed' \subseteq Types
      /\ \A t \in missed \cup types : t \in missed' \/ OfType(pressed', t) = {}
  BY <1>1, <1>4, UnheardTypes DEF Rest
<1>6. ASSUME S = {} PROVE MouseHeld'
  <2>1. Cardinality(S) = 0
    BY <1>6, FS_EmptySet, Zenon
  <2> QED BY <1>3, <2>1 DEF MouseHeld
<1>7. ASSUME ChannelOK' PROVE Rest'
  BY <1>1, <1>3, <1>4, <1>5, <1>7 DEF Rest
<1>8. CASE ~running
  <2>1. UNCHANGED pressed /\ SendNothing
    BY <1>8 DEF MouseRelease
  <2>2. Shaped' /\ KeyboardHeld' /\ TouchHeld' /\ OneEntryEach'
    BY <1>3, <1>4, <2>1, SameHeld
  <2>3. MouseHeld'
    BY <1>5, <1>6, <1>8 DEF MouseHeld
  <2>4. ChannelOK' /\ KeyboardLetGo'
    BY <1>1, <1>4, <2>1, SendNothingChannel DEF Rest, KeyboardLetGo
  <2> QED BY <1>2, <1>7, <2>2, <2>3, <2>4, HeldPartsNext DEF HeldInv
<1>9. CASE running
  <2>1. ReleaseKey(HK_NULL, "MOUSE", None, FALSE)
    BY <1>9 DEF MouseRelease
  <2>2. Shaped' /\ (NoneTaken(HK_NULL, "MOUSE", None) \/ OneTaken(HK_NULL, "MOUSE", None))
    BY <1>1, <2>1, ReleasePlaces
  <2>3. ChannelOK'
    BY <1>1, <2>1, KeyChannelOK DEF Rest
  <2>4. \A i \in T : Matches(i, HK_NULL, "MOUSE", None)
    BY <1>1 DEF Shaped, OfType, Matches
  <2>5. CASE NoneTaken(HK_NULL, "MOUSE", None)
    <3>1. KeyboardHeld' /\ TouchHeld' /\ OneEntryEach'
      BY <1>3, <1>4, <2>5, SameHeld DEF NoneTaken
    <3>2. S = {}
      BY <2>4, <2>5 DEF NoneTaken, OfType
    <3>3. KeyboardLetGo'
      BY <1>1, <1>4, <2>5 DEF KeyboardLetGo, NoneTaken
    <3> QED BY <1>2, <1>6, <1>7, <2>2, <2>3, <3>1, <3>2, <3>3, HeldPartsNext DEF HeldInv
  <2>6. ASSUME NEW i \in Places(pressed), Matches(i, HK_NULL, "MOUSE", None),
               NEW old \in [Places(pressed') -> Places(pressed) \ {i}],
               \A m \in Places(pressed') : pressed'[m] = pressed[old[m]],
               \A m, n \in Places(pressed') : old[m] = old[n] => m = n
        PROVE  HeldInv'
    <3>1. old \in [Places(pressed') -> Places(pressed)]
      OBVIOUS
    <3>2. /\ KeyboardHeld' /\ TouchHeld' /\ OneEntryEach'
          /\ OfType(pressed, "KEYBOARD") = {} => OfType(pressed', "KEYBOARD") = {}
      BY <1>2, <1>3, <1>4, <2>6, <3>1, FewerHeld
    <3>3. KeyboardLetGo'
      BY <1>1, <1>4, <3>2 DEF KeyboardLetGo
    <3>4. /\ IsFiniteSet(T) /\ Cardinality(T) \in Nat /\ Cardinality(S) \in Nat
          /\ i \in T
      <4>1. i \in T
        BY <2>6 DEF OfType, Matches
      <4> QED BY <1>1, <1>2, <4>1, FinitePlaces DEF Inv
    <3>5. /\ \A m \in S : m \in Places(pressed') /\ old[m] \in T \ {i}
          /\ \A m, n \in S : old[m] = old[n] => m = n
      BY <2>6 DEF OfType
    <3> HIDE DEF S, T
    <3>6. IsFiniteSet(T \ {i}) /\ Cardinality(T \ {i}) = Cardinality(T) - 1
      BY <3>4, FS_RemoveElement
    <3>7. Cardinality(S) <= Cardinality(T) - 1
      <4> DEFINE U == T \ {i}
      <4>1. IsFiniteSet(U) /\ \A m \in S : old[m] \in U
        BY <3>5, <3>6
      <4>2. Cardinality(U) = Cardinality(T) - 1
        BY <3>6
      <4> HIDE DEF U
      <4>3. Cardinality(S) <= Cardinality(U)
        BY <3>5, <4>1, NotMore
      <4> QED BY <4>2, <4>3
    <3>8. MouseHeld'
      <4>1. CASE "MOUSE" \in missed
        BY <1>5, <1>6, <4>1 DEF MouseHeld, S
      <4>2. CASE Cardinality(T) <= held.buttons
        BY <1>3, <3>4, <3>7, <4>2 DEF MouseHeld, S
      <4> QED BY <1>1, <4>1, <4>2 DEF MouseHeld, T
    <3> QED BY <1>2, <1>7, <2>2, <2>3, <3>2, <3>3, <3>8, HeldPartsNext DEF HeldInv
  <2> QED BY <2>2, <2>5, <2>6 DEF OneTaken
<1> QED BY <1>8, <1>9 DEF MouseRelease

LEMMA TouchBeginHeldInv ==
  ASSUME HeldInv, NEW f \in Fingers, NEW t \in Keys \cup {HK_NULL}, TouchBegin(f, t)
  PROVE  HeldInv'
<1>1. Inv /\ Shaped /\ Rest /\ KeyboardLetGo /\ TouchHeld
  BY HeldParts DEF HeldInv
<1>2. Inv'
  BY <1>1, TouchInv
<1>3. /\ held'.keys = held.keys /\ held'.buttons = held.buttons
      /\ held'.fingers = held.fingers \cup {f} /\ f \notin held.fingers
      /\ held.buttons \in Nat
      /\ held' \in [keys : SUBSET Keys, buttons : Nat, fingers : SUBSET Fingers]
  BY <1>1 DEF TouchBegin, Rest
<1>4. Unheard({}) /\ {} \in SUBSET Types /\ UNCHANGED <<running, active, up, device>>
  BY DEF TouchBegin
<1>5. /\ missed' \subseteq Types
      /\ \A x \in missed : x \in missed' \/ OfType(pressed', x) = {}
  BY <1>1, <1>4, UnheardTypes DEF Rest
<1>6. CASE UNCHANGED pressed /\ SendNothing
  <2>1. Shaped' /\ KeyboardHeld' /\ MouseHeld' /\ OneEntryEach'
    BY <1>3, <1>4, <1>6, SameHeld
  <2>2. TouchHeld'
    BY <1>1, <1>3, <1>5, <1>6 DEF TouchHeld
  <2>3. KeyboardLetGo' /\ ChannelOK'
    BY <1>1, <1>4, <1>6, SendNothingChannel DEF KeyboardLetGo, Rest
  <2>4. Rest'
    BY <1>1, <1>3, <1>4, <1>5, <2>3 DEF Rest
  <2> QED BY <1>2, <2>1, <2>2, <2>3, <2>4, HeldPartsNext DEF HeldInv
<1>7. CASE t \in Keys /\ PressKey(ByFinger(t, f))
  <2> DEFINE e == ByFinger(t, f)
  <2>1. PressKey(e) /\ e \in Entries /\ e.type = "TOUCH" /\ e.finger = f /\ f # None
    BY <1>7, EntryTypes, EntryShapes
  <2> HIDE DEF e
  <2>2. /\ Shaped' /\ EntriesHeld' /\ OneEntryEach'
        /\ \A i \in OfType(pressed', "KEYBOARD") : i \in OfType(pressed, "KEYBOARD")
    BY <1>3, <1>4, <2>1, PressHeld
  <2>3. KeyboardLetGo' /\ ChannelOK'
    BY <1>1, <1>4, <2>1, <2>2, KeyChannelOK DEF KeyboardLetGo, Rest
  <2>4. Rest'
    BY <1>1, <1>3, <1>4, <1>5, <2>3 DEF Rest
  <2> QED BY <1>2, <2>2, <2>3, <2>4 DEF HeldInv
<1> QED BY <1>6, <1>7 DEF TouchBegin

LEMMA TouchEndHeldInv ==
  ASSUME HeldInv, NEW f \in Fingers, NEW bCancel \in BOOLEAN, TouchEnd(f, bCancel)
  PROVE  HeldInv'
<1> DEFINE types == IF running THEN {} ELSE {"TOUCH"}
           T == OfType(pressed, "TOUCH")
<1>1. Inv /\ Shaped /\ Rest /\ KeyboardLetGo /\ TouchHeld /\ OneEntryEach
  BY HeldParts DEF HeldInv
<1>2. Inv' /\ pressed' \in Seq(Entries)
  <2>1. Inv'
    BY <1>1, TouchInv
  <2> QED BY <2>1 DEF Inv
<1>3. /\ held'.keys = held.keys /\ held'.buttons = held.buttons
      /\ held'.fingers = held.fingers \ {f}
      /\ held' \in [keys : SUBSET Keys, buttons : Nat, fingers : SUBSET Fingers]
  BY <1>1 DEF TouchEnd, Rest
<1>4. /\ Unheard(types) /\ types \in SUBSET Types
      /\ UNCHANGED <<running, active, up, device>>
  BY DEF TouchEnd, Types
<1>5. /\ missed' \subseteq Types
      /\ \A t \in missed \cup types : t \in missed' \/ OfType(pressed', t) = {}
  BY <1>1, <1>4, UnheardTypes DEF Rest
<1>6. ASSUME ChannelOK' PROVE Rest'
  BY <1>1, <1>3, <1>4, <1>5, <1>6 DEF Rest
<1>7. CASE ~running
  <2>1. UNCHANGED pressed /\ SendNothing
    BY <1>7 DEF TouchEnd
  <2>2. Shaped' /\ KeyboardHeld' /\ MouseHeld' /\ OneEntryEach'
    BY <1>3, <1>4, <2>1, SameHeld
  <2>3. TouchHeld'
    BY <1>5, <1>7 DEF TouchHeld
  <2>4. ChannelOK' /\ KeyboardLetGo'
    BY <1>1, <1>4, <2>1, SendNothingChannel DEF Rest, KeyboardLetGo
  <2> QED BY <1>2, <1>6, <2>2, <2>3, <2>4, HeldPartsNext DEF HeldInv
<1>8. CASE running
  <2>1. ReleaseKey(HK_NULL, "TOUCH", f, bCancel)
    BY <1>8 DEF TouchEnd
  <2>2. Shaped' /\ (NoneTaken(HK_NULL, "TOUCH", f) \/ OneTaken(HK_NULL, "TOUCH", f))
    BY <1>1, <2>1, ReleasePlaces
  <2>3. ChannelOK'
    BY <1>1, <2>1, KeyChannelOK DEF Rest
  <2>4. \A i \in T : pressed[i].finger = f => Matches(i, HK_NULL, "TOUCH", f)
    BY DEF OfType, Matches
  <2>5. CASE NoneTaken(HK_NULL, "TOUCH", f)
    <3>1. KeyboardHeld' /\ MouseHeld' /\ OneEntryEach'
      BY <1>3, <1>4, <2>5, SameHeld DEF NoneTaken
    <3>2. OfType(pressed', "TOUCH") = T /\ \A i \in T : pressed[i].finger # f
      BY <2>4, <2>5 DEF NoneTaken, OfType
    <3>3. pressed' = pressed
      BY <2>5 DEF NoneTaken
    <3>4. TouchHeld'
      BY <1>1, <1>3, <1>5, <3>2, <3>3 DEF TouchHeld
    <3>5. KeyboardLetGo'
      BY <1>1, <1>4, <3>3 DEF KeyboardLetGo
    <3> QED BY <1>2, <1>6, <2>2, <2>3, <3>1, <3>4, <3>5, HeldPartsNext DEF HeldInv
  <2>6. ASSUME NEW i \in Places(pressed), Matches(i, HK_NULL, "TOUCH", f),
               NEW old \in [Places(pressed') -> Places(pressed) \ {i}],
               \A m \in Places(pressed') : pressed'[m] = pressed[old[m]],
               \A m, n \in Places(pressed') : old[m] = old[n] => m = n
        PROVE  HeldInv'
    <3>1. old \in [Places(pressed') -> Places(pressed)]
      OBVIOUS
    <3>2. /\ KeyboardHeld' /\ MouseHeld' /\ OneEntryEach'
          /\ OfType(pressed, "KEYBOARD") = {} => OfType(pressed', "KEYBOARD") = {}
      BY <1>2, <1>3, <1>4, <2>6, <3>1, FewerHeld
    <3>3. KeyboardLetGo'
      BY <1>1, <1>4, <3>2 DEF KeyboardLetGo
    <3>4. i \in T /\ pressed[i].finger = f
      BY <2>6 DEF OfType, Matches
    <3>5. ASSUME NEW m \in OfType(pressed', "TOUCH")
          PROVE  pressed'[m].finger \in held'.fingers \/ "TOUCH" \in missed'
      <4>1. old[m] \in T /\ old[m] # i /\ pressed'[m] = pressed[old[m]]
        BY <2>6 DEF OfType
      <4>2. CASE "TOUCH" \in missed
        BY <1>5, <4>2
      <4>3. CASE "TOUCH" \notin missed
        BY <1>1, <1>3, <3>4, <4>1, <4>3 DEF TouchHeld, OneEntryEach
      <4> QED BY <4>2, <4>3
    <3>6. TouchHeld'
      BY <3>5 DEF TouchHeld
    <3> QED BY <1>2, <1>6, <2>2, <2>3, <3>2, <3>3, <3>6, HeldPartsNext DEF HeldInv
  <2> QED BY <2>2, <2>5, <2>6 DEF OneTaken
<1> QED BY <1>7, <1>8 DEF TouchEnd

LEMMA WindowHeldInv ==
  ASSUME HeldInv, OpenKeyboard \/ ActiveChanges \/ ButtonRemove
  PROVE  HeldInv'
<1>1. Inv /\ Shaped /\ Rest /\ KeyboardLetGo /\ Inv'
  BY WindowInv DEF HeldInv
<1>2. UNCHANGED <<held, device>> /\ running' \in BOOLEAN /\ active' \in BOOLEAN /\ up' \in BOOLEAN
  BY <1>1 DEF OpenKeyboard, ActiveChanges, ButtonRemove, Rest
<1>3. CASE FinalizeKeys
  <2>1. ChannelOK' /\ pressed' = <<>> /\ missed' \subseteq Types
    BY <1>1, <1>3, FinalizeChannel DEF Rest
  <2>2. Shaped' /\ EntriesHeld' /\ KeyboardLetGo' /\ OneEntryEach'
    <3>1. held'.buttons \in Nat
      BY <1>1, <1>2 DEF Rest
    <3> QED BY <2>1, <3>1, NoneHeld
  <2>3. Rest'
    BY <1>1, <1>2, <2>1 DEF Rest
  <2> QED BY <1>1, <2>2, <2>3 DEF HeldInv
<1>4. CASE /\ UNCHANGED pressed /\ SendNothing
           /\ Unheard({}) \/ UNCHANGED missed
           /\ running' /\ ~active' => running /\ ~active
  <2>1. ChannelOK'
    BY <1>1, <1>4, SendNothingChannel DEF Rest
  <2>2. KeyboardLetGo'
    BY <1>1, <1>4 DEF KeyboardLetGo
  <2>3. CASE Unheard({})
    <3>1. Shaped' /\ KeyboardHeld' /\ TouchHeld' /\ MouseHeld' /\ OneEntryEach'
      BY <1>2, <1>4, <2>3, SameHeld
    <3>2. Rest'
      BY <1>1, <1>2, <2>1, <2>3, UnheardTypes DEF Rest
    <3> QED BY <1>1, <2>2, <3>1, <3>2, HeldPartsNext DEF HeldInv
  <2>4. CASE UNCHANGED missed
    <3>1. Shaped' /\ EntriesHeld' /\ OneEntryEach'
      BY <1>2, <1>4, <2>4 DEF HeldInv, Shaped, EntriesHeld, OneEntryEach
    <3>2. Rest'
      BY <1>1, <1>2, <2>1, <2>4 DEF Rest
    <3> QED BY <1>1, <2>2, <3>1, <3>2 DEF HeldInv
  <2> QED BY <1>4, <2>3, <2>4
<1>5. CASE OpenKeyboard
  BY <1>4, <1>5 DEF OpenKeyboard
<1>6. CASE ActiveChanges
  <2>1. active \in BOOLEAN
    BY <1>1 DEF Rest
  <2> QED BY <1>3, <1>4, <1>6, <2>1 DEF ActiveChanges
<1>7. CASE ButtonRemove
  BY <1>3, <1>7 DEF ButtonRemove
<1> QED BY <1>5, <1>6, <1>7

\* The connection and the server leave the entries alone.
LEMMA ServerHeldInv ==
  ASSUME HeldInv, Connected \/ (\E S \in SUBSET waiting : ConnectionLost(S)) \/ Arrives
                  \/ ServerCancels \/ UNCHANGED vars
  PROVE  HeldInv'
<1>1. Inv /\ Shaped /\ Rest
  BY DEF HeldInv
<1>2. Inv'
  BY <1>1, NextInv DEF Next
<1>3. UNCHANGED <<pressed, running, active, held, missed>>
  BY DEF Connected, ConnectionLost, Arrives, Arrive, ServerCancels, vars
<1>4. Shaped' /\ EntriesHeld' /\ KeyboardLetGo' /\ OneEntryEach'
  BY <1>3 DEF HeldInv, Shaped, EntriesHeld, KeyboardLetGo, OneEntryEach
<1>5. accepted \in Nat /\ event \in [waiting -> EventTypes \X Keys]
  BY <1>1 DEF Inv, Followed, EventTypeOK
<1>6. newest \in 0..accepted /\ \A j \in waiting : j \in (newest + 1)..accepted
  BY <1>1 DEF Rest, ChannelOK
<1>7. up' \in BOOLEAN /\ device' \subseteq Keys
  <2>1. up \in BOOLEAN /\ device \subseteq Keys
    BY <1>1 DEF Rest
  <2>2. ASSUME NEW n \in waiting, Arrive(n) PROVE up' \in BOOLEAN /\ device' \subseteq Keys
    <3>1. event[n][2] \in Keys
      BY <1>5
    <3> QED BY <2>1, <2>2, <3>1 DEF Arrive, Heed
  <2> QED BY <2>1, <2>2 DEF Connected, ConnectionLost, Arrives, ServerCancels, vars
<1>8. ChannelOK'
  <2>1. CASE UNCHANGED <<accepted, waiting, newest>>
    BY <1>1, <2>1 DEF Rest, ChannelOK
  <2>2. ASSUME NEW S, ConnectionLost(S) PROVE ChannelOK'
    BY <1>5, <1>6, <2>2 DEF ConnectionLost, Channel!Lose, ChannelOK
  <2>3. ASSUME NEW n \in waiting, Arrive(n) PROVE ChannelOK'
    <3>1. waiting' = {j \in waiting : j > n} /\ newest' = n /\ accepted' = accepted
      BY <2>3 DEF Arrive, Channel!Deliver
    <3> QED BY <1>5, <1>6, <3>1 DEF ChannelOK
  <2> QED BY <2>1, <2>2, <2>3 DEF Connected, Arrives, ServerCancels, vars, channel
<1>9. Rest'
  BY <1>1, <1>3, <1>7, <1>8 DEF Rest
<1> QED BY <1>2, <1>4, <1>9 DEF HeldInv

LEMMA InitHeldInv == Init => HeldInv
<1> SUFFICES ASSUME Init PROVE HeldInv
  OBVIOUS
<1>1. Inv
  BY InitInv
<1>2. Shaped /\ KeyboardLetGo /\ OneEntryEach /\ KeyboardHeld /\ TouchHeld
  BY DEF Init, Shaped, KeyboardLetGo, OneEntryEach, KeyboardHeld, TouchHeld, OfType, Places
<1>3. MouseHeld
  <2>1. OfType(pressed, "MOUSE") = {} /\ held.buttons = 0
    BY DEF Init, OfType, Places
  <2>2. Cardinality(OfType(pressed, "MOUSE")) = 0
    BY <2>1, FS_EmptySet, Zenon
  <2> QED BY <2>1, <2>2 DEF MouseHeld
<1>4. Rest
  <2>1. held \in [keys : SUBSET Keys, buttons : Nat, fingers : SUBSET Fingers]
    BY DEF Init
  <2>2. ChannelOK
    BY DEF Init, Channel!Init, ChannelOK
  <2> QED BY <2>1, <2>2 DEF Init, Rest
<1> QED BY <1>1, <1>2, <1>3, <1>4, HeldParts DEF HeldInv

LEMMA NextHeldInv == HeldInv /\ [Next]_vars => HeldInv'
  BY KeyboardHeldInv, MousePressHeldInv, MouseReleaseHeldInv, TouchBeginHeldInv,
     TouchEndHeldInv, WindowHeldInv, ServerHeldInv
     DEF Next

-----------------------------------------------------------------------------
\* Every variable keeps its type: the entries of m_aPressedKeys are unique and
\* of the right form (btkbwindow.h:326), every number that waits has its event.
THEOREM TypeCorrect == Spec => []TypeOK
<1>1. HeldInv => TypeOK
  BY DEF HeldInv, Inv, Followed, EventTypeOK, Shaped, Rest, ChannelOK, TypeOK
<1> QED BY <1>1, InitHeldInv, NextHeldInv, PTL DEF Spec

\* No entry outlives the input that made it, except those whose release came
\* while the screen was not running.
THEOREM NoEntryLeftBehind == Spec => []EntriesHeld
<1>1. HeldInv => EntriesHeld
  BY DEF HeldInv
<1> QED BY <1>1, InitHeldInv, NextHeldInv, PTL DEF Spec

\* A key is down for the client exactly while some entry of m_aPressedKeys has
\* it: the client is told of the first press and the last release only.
THEOREM TellsFirstAndLast == Spec => []FirstPressLastRelease
<1>1. Inv => FirstPressLastRelease
  BY DEF Inv
<1> QED BY <1>1, InitInv, NextInv, PTL DEF Spec

\* Whatever is lost, refused or canceled on the way, the device agrees with the
\* window about every key whose last event it heeded.
THEOREM DeviceFollowsWindow == Spec => []DeviceFollows
<1>1. Inv => DeviceFollows
  BY DEF Inv, Followed
<1> QED BY <1>1, InitInv, NextInv, PTL DEF Spec
=============================================================================
