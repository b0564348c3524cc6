----------------------------- MODULE KeyChannel -----------------------------
(***************************************************************************)
(* What the key client promises the window it sends keys for: the keys it  *)
(* accepts are numbered, and each is handed to the server at most once, in *)
(* the order of the numbers.  Keys may be lost on the way, but a key that  *)
(* was overtaken by a newer one never arrives late.                        *)
(***************************************************************************)
EXTENDS Naturals

VARIABLES
  accepted,   \* the number of keys accepted
  waiting,    \* the keys that may still arrive
  newest      \* the newest key that arrived, or 0

vars == <<accepted, waiting, newest>>

Init == accepted = 0 /\ waiting = {} /\ newest = 0

\* n more keys are accepted.
Accept(n) ==
  /\ accepted' = accepted + n
  /\ waiting' = waiting \cup (accepted + 1)..(accepted + n)
  /\ UNCHANGED newest

\* Keys are given up: the connection is lost, a batch too old, a buffer full.
Lose(S) ==
  /\ waiting' = waiting \ S
  /\ UNCHANGED <<accepted, newest>>

\* A key arrives, and none before it will.
Deliver(k) ==
  /\ k \in waiting
  /\ waiting' = {j \in waiting : j > k}
  /\ newest' = k
  /\ UNCHANGED accepted

\* A step of the client may do several of these: what it may do at most.
Next ==
  /\ accepted' >= accepted
  /\ LET all == waiting \cup (accepted + 1)..accepted'
     IN  /\ newest' \in {newest} \cup all
         /\ newest' >= newest
         /\ waiting' \subseteq {j \in all : j > newest'}

Spec == Init /\ [][Next]_vars
=============================================================================
