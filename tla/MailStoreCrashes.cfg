SPECIFICATION Spec
CONSTANTS
  None = None
  k1 = k1
  k2 = k2
  w1 = w1
  w2 = w2
  Threads = {w1}
  Keys = {k1, k2}
  NumericId <- Named
  Ops <- Everything
  MaxSaves = 4
  MaxCrashes = 2
INVARIANTS
  TypeOK
  SavedIsListed
  
