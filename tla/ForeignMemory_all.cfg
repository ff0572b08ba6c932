CONSTANTS
  Slots = {s1, s2}
  s1 = s1
  s2 = s2
  Listings = {0, 1, 2, 3}
  View = 2

SPECIFICATION Spec
INVARIANT HeapIsHeld
INVARIANT ScanIsExact
