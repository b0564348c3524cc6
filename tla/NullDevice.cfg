\* A device was removed, then a loop runs over m_aBtDevices.
SPECIFICATION Spec
CONSTANTS
  s1 = s1  s2 = s2  k1 = k1  k2 = k2  l1 = l1  l2 = l2  w1 = w1  w2 = w2  w3 = w3
  None = None
  Slots <- OneSlot
  Keys <- OneKey
  Listeners <- OneListener
  Windows <- TwoWindows
  MaxData = 2
  MaxCalls = 0
  MaxActive = 1
  KeyEventAtStart = TRUE
SYMMETRY Symmetry
INVARIANTS
  NullIsHandled
