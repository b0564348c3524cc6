--------------------------- MODULE MCBtKeyClient ---------------------------
(* Instances of BtKeyClient for TLC.                                       *)
EXTENDS BtKeyClient, TLC

CONSTANTS f1, f2

TwoFds == {f1, f2}

\* The client never looks at the number of a descriptor.
Symmetry == Permutations(Fds)
=============================================================================
