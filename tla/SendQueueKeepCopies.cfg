SPECIFICATION Spec
CONSTANTS
  None = None
  kept = kept
  moved = moved
  binhex = binhex
  mainWindow = mainWindow
  composeWindow = composeWindow
  Msgs <- KeptAndBinHex
  KeepCopies = {kept}
  NonMime = {binhex}
  Workers <- OneWindow
INVARIANTS
  SentWasAccepted
  
PROPERTIES
  NoMessageVanishes
