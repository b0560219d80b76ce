SPECIFICATION FairSpec
CONSTANTS
  None = None
  kept = kept
  moved = moved
  binhex = binhex
  mainWindow = mainWindow
  composeWindow = composeWindow
  Msgs <- OneMoved
  KeepCopies = {}
  NonMime = {}
  Workers <- TwoWindows
INVARIANTS
  TypeOK
  SentWasAccepted
  
  
PROPERTIES
  
  PassEnds
