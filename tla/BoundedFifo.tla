---------------------------- MODULE BoundedFifo ----------------------------
(***************************************************************************)
(* What CircularBuffer promises: a first-in first-out queue of at most     *)
(* Size values.  The caller must not read from an empty queue nor write to *)
(* a full one.                                                             *)
(***************************************************************************)
EXTENDS Integers, Sequences

CONSTANTS Values, Size

VARIABLES
  items,   \* the queued values, the oldest first
  out      \* the value the last read() returned, as a set: empty before it

Init == items = <<>> /\ out = {}

Write(v) ==
  /\ Len(items) < Size
  /\ items' = Append(items, v)
  /\ UNCHANGED out

Read ==
  /\ items # <<>>
  /\ out' = {Head(items)}
  /\ items' = Tail(items)

Clear == items' = <<>> /\ UNCHANGED out

Next == (\E v \in Values : Write(v)) \/ Read \/ Clear

Spec == Init /\ [][Next]_<<items, out>>
=============================================================================
