--------------------------- MODULE MCBtKeyServers ---------------------------
(* Instances of BtKeyServers for TLC.                                      *)
EXTENDS BtKeyServers

CONSTANTS a1, a2

TwoAddrs == {a1, a2}

\* The ports of the command line, the default and the configuration.
ThreePorts == {CommandPort, DefaultPort, 4099}
=============================================================================
