SPECIFICATION Spec
CONSTANTS
  None = None
  a1 = a1
  plain = plain
  twin = twin
  dotted = dotted
  Accounts = {a1}
  Names = {plain, twin, dotted}
  Ids <- AllIds
  LocalId <- LocalIds
  ListId <- ListIds
  Mail = {m1}
  Present <- OnFirst
  MaxEntries = 2
  MaxActions = 2
  MaxCrashes = 1
INVARIANTS
  TypeOK
  
  
  ListedOnce
PROPERTIES
  OnlyAsked
CHECK_DEADLOCK FALSE
