SPECIFICATION Spec
CONSTANTS
  l1 = l1
  l2 = l2
  f1 = f1
  f2 = f2
  f3 = f3
  Good = Good
  Wrong = Wrong
  Junk = Junk
  Torn = Torn
  None = None
  Lookups <- MCLookups
  Files <- MCFiles
  MaxFaults = 0
INVARIANTS
  EntryIsWhole
