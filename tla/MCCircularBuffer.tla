-------------------------- MODULE MCCircularBuffer --------------------------
(* Instance of CircularBuffer for TLC.                                     *)
EXTENDS CircularBuffer
CONSTANTS a, b
TwoValues == {a, b}
=============================================================================
