----------------------- MODULE CircularBuffer_proofs -----------------------
(***************************************************************************)
(* The circular buffer implements the bounded fifo, for every capacity and *)
(* every set of values.                                                    *)
(***************************************************************************)
EXTENDS CircularBuffer, SequenceTheorems, TLAPS

USE SizeAssumption DEF Indices

\* BufferInv and items as operators of a count, two indices and an array.
Good(c, r, w, a) ==
  /\ c \in 0..Size /\ r \in Indices /\ w \in Indices
  /\ a \in [Indices -> Values \cup {Empty}]
  /\ w = Wrapped(r + c)
  /\ \A i \in 0..(c - 1) : a[Wrapped(r + i)] \in Values
Content(c, r, a) == [i \in 1..c |-> a[Wrapped(r + (i - 1))]]

\* They are what they stand for, before a step and after it.
LEMMA Stands ==
  /\ BufferInv <=> Good(count, readIdx, writeIdx, array)
  /\ BufferInv' <=> Good(count', readIdx', writeIdx', array')
  /\ items = Content(count, readIdx, array)
  /\ items' = Content(count', readIdx', array')
  BY DEF BufferInv, Good, items, Content, Peek, Wrapped

\* The queued values.
LEMMA ContentProps ==
  ASSUME NEW c, NEW r, NEW w, NEW a, Good(c, r, w, a)
  PROVE  /\ Content(c, r, a) \in Seq(Values)
         /\ Len(Content(c, r, a)) = c
         /\ \A i \in 1..c : Content(c, r, a)[i] = a[Wrapped(r + (i - 1))]
<1>1. c \in Nat /\ \A i \in 1..c : i - 1 \in 0..(c - 1)
  BY DEF Good
<1>2. \A i \in 1..c : a[Wrapped(r + (i - 1))] \in Values
  BY <1>1 DEF Good
<1> QED BY <1>1, <1>2 DEF Content

\* The element written is none of those that are still queued.
LEMMA WriteGood ==
  ASSUME NEW c, NEW r, NEW w, NEW a, Good(c, r, w, a), c # Size,
         NEW b \in [Indices -> Values \cup {Empty}], b[w] \in Values,
         \A i \in Indices : i # w => b[i] = a[i]
  PROVE  /\ Good(c + 1, r, Advanced(w), b)
         /\ Content(c + 1, r, b) = Append(Content(c, r, a), b[w])
<1>1. /\ c \in Nat /\ c < Size /\ r \in Indices /\ w \in Indices
      /\ a \in [Indices -> Values \cup {Empty}] /\ w = Wrapped(r + c)
  BY DEF Good
<1> DEFINE v == b[w]
<1>2. v \in Values
  OBVIOUS
<1>3. \A i \in 0..(c - 1) : Wrapped(r + i) \in Indices /\ Wrapped(r + i) # w
  BY <1>1 DEF Wrapped
<1>4. \A i \in 0..(c - 1) : b[Wrapped(r + i)] = a[Wrapped(r + i)]
  BY <1>2, <1>3
<1>5. Good(c + 1, r, Advanced(w), b)
  <2>1. Advanced(w) \in Indices /\ Advanced(w) = Wrapped(r + (c + 1))
    BY <1>1 DEF Wrapped, Advanced
  <2>2. \A i \in 0..c : i \in 0..(c - 1) \/ i = c
    BY <1>1
  <2>3. \A i \in 0..(c - 1) : b[Wrapped(r + i)] \in Values
    BY <1>4 DEF Good
  <2>4. \A i \in 0..c : b[Wrapped(r + i)] \in Values
    BY <1>1, <1>2, <2>2, <2>3
  <2>5. c + 1 \in 0..Size /\ (c + 1) - 1 = c
    BY <1>1
  <2> QED BY <1>1, <1>2, <2>1, <2>4, <2>5 DEF Good
<1> DEFINE s == Content(c, r, a)
           t == Content(c + 1, r, b)
<1>6. /\ s \in Seq(Values) /\ Len(s) = c
      /\ \A i \in 1..c : s[i] = a[Wrapped(r + (i - 1))]
  BY ContentProps
<1>7. /\ t \in Seq(Values) /\ Len(t) = c + 1
      /\ \A i \in 1..(c + 1) : t[i] = b[Wrapped(r + (i - 1))]
  BY <1>5, ContentProps
<1> HIDE DEF s, t
<1>8. t = Append(s, v)
  <2>1. /\ Append(s, v) \in Seq(Values) /\ Len(Append(s, v)) = c + 1
        /\ \A i \in 1..c : Append(s, v)[i] = s[i]
        /\ Append(s, v)[c + 1] = v
    BY <1>1, <1>6
  <2>2. \A i \in 1..c : t[i] = s[i]
    <3>1. \A i \in 1..c : i - 1 \in 0..(c - 1) /\ i \in 1..(c + 1)
      BY <1>1
    <3> QED BY <1>4, <1>6, <1>7, <3>1
  <2>3. t[c + 1] = v
    <3>1. c + 1 \in 1..(c + 1) /\ (c + 1) - 1 = c
      BY <1>1
    <3> QED BY <1>1, <1>2, <1>7, <3>1
  <2>4. \A i \in 1..(c + 1) : i \in 1..c \/ i = c + 1
    BY <1>1
  <2>5. \A i \in 1..Len(t) : t[i] = Append(s, v)[i]
    BY <1>7, <2>1, <2>2, <2>3, <2>4
  <2> QED BY <1>7, <2>1, <2>5, SeqEqual
<1> QED BY <1>5, <1>8 DEF s, t

\* Reading takes the oldest value and leaves the others.
LEMMA ReadGood ==
  ASSUME NEW c, NEW r, NEW w, NEW a, Good(c, r, w, a), c # 0
  PROVE  /\ Good(c - 1, Advanced(r), w, a)
         /\ Content(c, r, a) # <<>>
         /\ Head(Content(c, r, a)) = a[r]
         /\ Content(c - 1, Advanced(r), a) = Tail(Content(c, r, a))
<1>1. c \in Nat \ {0} /\ c <= Size /\ r \in Indices /\ w = Wrapped(r + c)
  BY DEF Good
<1>2. \A i \in 0..(c - 2) : Wrapped(Advanced(r) + i) = Wrapped(r + (i + 1))
  BY <1>1 DEF Wrapped, Advanced
<1>3. Good(c - 1, Advanced(r), w, a)
  <2>1. Advanced(r) \in Indices /\ w = Wrapped(Advanced(r) + (c - 1))
    BY <1>1 DEF Wrapped, Advanced
  <2>2. \A i \in 0..(c - 2) : i + 1 \in 0..(c - 1)
    BY <1>1
  <2>3. \A i \in 0..(c - 2) : a[Wrapped(Advanced(r) + i)] \in Values
    BY <1>2, <2>2 DEF Good
  <2>4. c - 1 \in 0..Size /\ (c - 1) - 1 = c - 2
    BY <1>1
  <2> QED BY <2>1, <2>3, <2>4 DEF Good
<1> DEFINE s == Content(c, r, a)
           t == Content(c - 1, Advanced(r), a)
<1>4. /\ s \in Seq(Values) /\ Len(s) = c
      /\ \A i \in 1..c : s[i] = a[Wrapped(r + (i - 1))]
  BY ContentProps
<1>5. /\ t \in Seq(Values) /\ Len(t) = c - 1
      /\ \A i \in 1..(c - 1) : t[i] = a[Wrapped(Advanced(r) + (i - 1))]
  BY <1>3, ContentProps
<1> HIDE DEF s, t
<1>6. s # <<>> /\ Head(s) = s[1] /\ s[1] = a[r]
  <2>1. 1 \in 1..c /\ Wrapped(r + (1 - 1)) = r
    BY <1>1 DEF Wrapped
  <2> QED BY <1>1, <1>4, <2>1
<1>7. t = Tail(s)
  <2>1. /\ Tail(s) \in Seq(Values) /\ Len(Tail(s)) = c - 1
        /\ \A i \in 1..(c - 1) : Tail(s)[i] = s[i + 1]
    BY <1>1, <1>4, <1>6, HeadTailProperties
  <2>2. \A i \in 1..(c - 1) : t[i] = s[i + 1]
    <3>1. ASSUME NEW i \in 1..(c - 1) PROVE t[i] = s[i + 1]
      <4>1. i - 1 \in 0..(c - 2) /\ i + 1 \in 1..c /\ (i - 1) + 1 = (i + 1) - 1
        BY <1>1
      <4> QED BY <1>2, <1>4, <1>5, <4>1
    <3> QED BY <3>1
  <2> QED BY <1>5, <2>1, <2>2, SeqEqual
<1> QED BY <1>3, <1>6, <1>7 DEF s, t

\* The invariant holds initially and every call preserves it and is a call of
\* the abstract queue.
LEMMA InitStep == Init => BufferInv /\ Fifo!Init
<1> SUFFICES ASSUME Init PROVE BufferInv /\ Fifo!Init
  OBVIOUS
<1>1. BufferInv
  BY DEF Init, BufferInv, Wrapped
<1>2. items = <<>>
  <2>1. items \in Seq(Values) /\ Len(items) = 0
    BY <1>1, Stands, ContentProps DEF Init
  <2> QED BY <2>1
<1> QED BY <1>1, <1>2 DEF Init, Fifo!Init

LEMMA NextStep ==
  ASSUME BufferInv, [Next]_vars
  PROVE  BufferInv' /\ [Fifo!Next]_<<items, out>>
<1>0. /\ Good(count, readIdx, writeIdx, array)
      /\ Len(items) = count /\ count \in 0..Size
  BY Stands, ContentProps DEF Good
<1>1. ASSUME NEW v \in Values, Write(v) PROVE BufferInv' /\ Fifo!Write(v)
  <2>1. BufferInv' /\ items' = Append(items, v)
    <3>1. /\ count # Size /\ count' = count + 1 /\ readIdx' = readIdx
          /\ writeIdx' = Advanced(writeIdx) /\ array' = [array EXCEPT ![writeIdx] = v]
      BY <1>1 DEF Write, IsFull
    <3>2. /\ array' \in [Indices -> Values \cup {Empty}] /\ array'[writeIdx] = v
          /\ \A i \in Indices : i # writeIdx => array'[i] = array[i]
      BY <1>0, <3>1 DEF Good
    <3>3. /\ Good(count + 1, readIdx, Advanced(writeIdx), array')
          /\ Content(count + 1, readIdx, array')
               = Append(Content(count, readIdx, array), v)
      <4> DEFINE b == array'
      <4>1. /\ b \in [Indices -> Values \cup {Empty}] /\ b[writeIdx] = v
            /\ \A i \in Indices : i # writeIdx => b[i] = array[i]
        BY <3>2
      <4>2. count # Size /\ Good(count, readIdx, writeIdx, array)
        BY <1>0, <3>1
      <4> HIDE DEF b
      <4>3. /\ Good(count + 1, readIdx, Advanced(writeIdx), b)
            /\ Content(count + 1, readIdx, b) = Append(Content(count, readIdx, array), v)
        BY <4>1, <4>2, WriteGood
      <4> QED BY <4>3 DEF b
    <3> QED BY <3>1, <3>3, Stands
  <2>2. Len(items) < Size
    BY <1>0, <1>1 DEF Write, IsFull
  <2> QED BY <1>1, <2>1, <2>2 DEF Fifo!Write, Write
<1>2. ASSUME Read PROVE BufferInv' /\ Fifo!Read
  <2>1. BufferInv' /\ items # <<>> /\ Head(items) = array[readIdx]
        /\ items' = Tail(items)
    <3>1. /\ count # 0 /\ count' = count - 1 /\ readIdx' = Advanced(readIdx)
          /\ writeIdx' = writeIdx /\ array' = array
      BY <1>2 DEF Read, IsEmpty
    <3>2. /\ Good(count - 1, Advanced(readIdx), writeIdx, array)
          /\ Content(count, readIdx, array) # <<>>
          /\ Head(Content(count, readIdx, array)) = array[readIdx]
          /\ Content(count - 1, Advanced(readIdx), array)
               = Tail(Content(count, readIdx, array))
      BY <1>0, <3>1, ReadGood
    <3> QED BY <3>1, <3>2, Stands
  <2> QED BY <1>2, <2>1 DEF Fifo!Read, Read
<1>3. ASSUME Clear PROVE BufferInv' /\ Fifo!Clear
  <2>1. BufferInv'
    BY <1>3 DEF Clear, BufferInv, Wrapped
  <2>2. items' \in Seq(Values) /\ Len(items') = 0
    BY <1>3, <2>1, Stands, ContentProps DEF Clear
  <2>3. items' = <<>>
    BY <2>2
  <2> QED BY <1>3, <2>1, <2>3 DEF Fifo!Clear, Clear
<1>4. CASE UNCHANGED vars
  <2>1. BufferInv' /\ items' = items
    BY <1>4, Stands DEF vars
  <2> QED BY <1>4, <2>1 DEF vars
<1> QED BY <1>1, <1>2, <1>3, <1>4 DEF Next, Fifo!Next

\* The indices and the count stay consistent in every execution.
THEOREM BufferCorrect == Spec => []BufferInv
<1>1. Init => BufferInv
  BY InitStep
<1>2. BufferInv /\ [Next]_vars => BufferInv'
  BY NextStep
<1> QED BY <1>1, <1>2, PTL DEF Spec

\* CircularBuffer implements BoundedFifo: what is read is what was written, in
\* that order and once each, and never more than Size values are queued.
THEOREM BufferIsFifo == Spec => IsFifo
<1>1. Init => Fifo!Init
  BY InitStep
<1>2. BufferInv /\ [Next]_vars => [Fifo!Next]_<<items, out>>
  BY NextStep
<1> QED BY <1>1, <1>2, BufferCorrect, PTL DEF Spec, IsFifo, Fifo!Spec
=============================================================================
