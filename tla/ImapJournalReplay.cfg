SPECIFICATION Spec
CONSTANTS
  inbox = inbox
  other = other
  m1 = m1
  m2 = m2
  w1 = w1
  w2 = w2
  None = None
  Boxes <- TwoBoxes
  Trash = other
  Messages <- TwoMessages
  Start <- InEach
  Main = w1
  Windows <- OneWindow
  Commands <- AllCommands
  OnDelete <- Everything
  Synced <- TwoBoxes
  MaxUid = 3
  MaxActions = 3
  Faults = FALSE
INVARIANTS ReplayAgrees
PROPERTIES OnItsMessage
CHECK_DEADLOCK FALSE
