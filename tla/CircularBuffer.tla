--------------------------- MODULE CircularBuffer ---------------------------
(***************************************************************************)
(* The fixed capacity fifo BtKeyClient keeps its keys in: an array, the    *)
(* indices of the next value to read and to write, and a count.            *)
(***************************************************************************)
EXTENDS Integers, Sequences

CONSTANTS
  Values,   \* what is stored
  Empty,    \* the value the array's elements are initialized with
  Size      \* the capacity

ASSUME SizeAssumption == Size \in Nat \ {0}

VARIABLES
  count,    \* m_nCount
  readIdx,  \* m_nReadIdx
  writeIdx, \* m_nWriteIdx
  array,    \* m_aT
  out       \* what the last read() returned, as a set: empty before it

vars == <<count, readIdx, writeIdx, array, out>>

Indices == 0..(Size - 1)

Init ==
  /\ count = 0 /\ readIdx = 0 /\ writeIdx = 0
  /\ array = [i \in Indices |-> Empty]
  /\ out = {}

\* Mutant: the index wraps around one element too late.
AdvancedLate(i) == IF i = Size THEN 0 ELSE i + 1

\* An index is incremented and wraps around at the capacity.
Advanced(i) == IF i + 1 = Size THEN 0 ELSE i + 1

IsEmpty == count = 0
IsFull == count = Size

\* The position of element n counted from the beginning of the array.
Wrapped(n) == IF n >= Size THEN n - Size ELSE n

\* peekValue(i)
Peek(i) == array[Wrapped(readIdx + i)]

Write(v) ==
  /\ ~IsFull
  /\ array' = [array EXCEPT ![writeIdx] = v]
  /\ writeIdx' = Advanced(writeIdx)
  /\ count' = count + 1
  /\ UNCHANGED <<readIdx, out>>

Read ==
  /\ ~IsEmpty
  /\ out' = {array[readIdx]}
  /\ readIdx' = Advanced(readIdx)
  /\ count' = count - 1
  /\ UNCHANGED <<writeIdx, array>>

\* Mutant: the write index is left where it was.
ClearReadOnly ==
  /\ count' = 0 /\ readIdx' = 0
  /\ UNCHANGED <<writeIdx, array, out>>

Clear ==
  /\ count' = 0 /\ readIdx' = 0 /\ writeIdx' = 0
  /\ UNCHANGED <<array, out>>

Next == (\E v \in Values : Write(v)) \/ Read \/ Clear

Spec == Init /\ [][Next]_vars

-----------------------------------------------------------------------------
\* The indices stay within the array, the write index is count elements ahead
\* of the read index, and the counted elements hold written values.
BufferInv ==
  /\ count \in 0..Size /\ readIdx \in Indices /\ writeIdx \in Indices
  /\ array \in [Indices -> Values \cup {Empty}]
  /\ writeIdx = Wrapped(readIdx + count)
  /\ \A i \in 0..(count - 1) : Peek(i) \in Values

\* The buffer is a fifo: values are read once each in the order they were
\* written, across every wrap around of the indices and every clear().
items == [i \in 1..count |-> Peek(i - 1)]
Fifo == INSTANCE BoundedFifo
IsFifo == Fifo!Spec
=============================================================================
