---------------------------- MODULE MCGtkBackend ----------------------------
(* Instances of GtkBackend for TLC.                                        *)
EXTENDS GtkBackend, TLC

CONSTANTS a1, a2, f1, f2, f3

OneAddr == {a1}
TwoAddrs == {a1, a2}
TwoFds == {f1, f2}
ThreeFds == {f1, f2, f3}

\* What a client that follows the protocol sends behind its keys.
Protocol == {<<>>, <<Remove>>}

\* Every kind of packet, behind keys or alone.
EveryKind == {<<>>, <<Noop, Remove>>, <<BadMagic>>, <<BadCmd>>, <<Short>>}

\* Neither the addresses nor the descriptors are ordered.
Symmetry == Permutations(Addrs) \cup Permutations(Fds)
=============================================================================
