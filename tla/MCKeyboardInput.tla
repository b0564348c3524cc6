-------------------------- MODULE MCKeyboardInput --------------------------
(* Instances of KeyboardInput for TLC.                                     *)
EXTENDS KeyboardInput

CONSTANTS k1, k2, f1

TwoKeys == {k1, k2}
OneFinger == {f1}

\* No key is special.
Symmetry == Permutations(Keys)
=============================================================================
