SPECIFICATION FairSpec
CONSTANTS
  inbox = inbox
  other = other
  m1 = m1
  m2 = m2
  w1 = w1
  w2 = w2
  None = None
  Boxes <- TwoBoxes
  Trash = other
  Messages <- OneMessage
  Start <- InInbox
  Main = w1
  Windows <- TwoWindows
  Commands <- InPlace
  OnDelete <- Everything
  Synced <- OnlyInbox
  MaxUid = 2
  MaxActions = 1
  Faults = TRUE
INVARIANTS TypeOK ActionsKept ExecutedOnce CancelHolds
PROPERTIES WorkEnds
CHECK_DEADLOCK FALSE
