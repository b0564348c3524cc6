\* A listener calls the manager twice while a window is being deselected.
SPECIFICATION Spec
CONSTANTS
  s1 = s1  s2 = s2  k1 = k1  k2 = k2  l1 = l1  l2 = l2  w1 = w1  w2 = w2  w3 = w3
  None = None
  Slots <- OneSlot
  Keys <- OneKey
  Listeners <- OneListener
  Windows <- ThreeWindows
  MaxData = 2
  MaxCalls = 2
  MaxActive = 1
  KeyEventAtStart = TRUE
SYMMETRY Symmetry
INVARIANT
  PressedForSelectedAtRest
