\* Two devices share a key, listeners call the manager once.
SPECIFICATION Spec
CONSTANTS
  s1 = s1  s2 = s2  k1 = k1  k2 = k2  l1 = l1  l2 = l2  w1 = w1  w2 = w2  w3 = w3
  None = None
  Slots <- TwoSlots
  Keys <- OneKey
  Listeners <- OneListener
  Windows <- TwoWindows
  MaxData = 2
  MaxCalls = 1
  MaxActive = 2
  KeyEventAtStart = TRUE
SYMMETRY Symmetry
INVARIANTS
  HeaderInv
  PressedForSelected
  SelectedIsCurrent
  SelectedIsFound
