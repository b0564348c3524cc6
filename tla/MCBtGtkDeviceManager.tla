----------------------- MODULE MCBtGtkDeviceManager -----------------------
(* Instances of BtGtkDeviceManager for TLC.                                *)
EXTENDS BtGtkDeviceManager, TLC

CONSTANTS s1, s2, k1, k2, l1, l2, w1, w2, w3

OneSlot == {s1}
TwoSlots == {s1, s2}
OneKey == {k1}
TwoKeys == {k1, k2}
OneListener == {l1}
TwoListeners == {l1, l2}
OneWindow == {w1}
TwoWindows == {w1, w2}
ThreeWindows == {w1, w2, w3}

\* The order of devices, keys and listeners does not matter.
Symmetry == Permutations(Slots) \cup Permutations(Keys)
              \cup Permutations(Listeners)
=============================================================================
