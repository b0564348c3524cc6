\* Two keys held by the keyboard, the mouse and a finger at once.
SPECIFICATION Spec
CONSTANTS
  k1 = k1  k2 = k2  f1 = f1  None = None  HK_NULL = HK_NULL  Exit = Exit
  Keys <- TwoKeys
  Fingers <- OneFinger
  MaxSent = 3
  MaxHeld = 2
  MaxEntries = 2
SYMMETRY Symmetry
INVARIANTS
  TypeOK
  FirstPressLastRelease
  DeviceFollows
  EntriesHeld
