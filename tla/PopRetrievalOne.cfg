SPECIFICATION FairSpec
CONSTANTS
  u1 = u1
  u2 = u2
  None = None
  Uidls <- OneUidl
  MessageId <- OwnIds
  Big <- OneUidl
  Chosen <- AllMarks
  Options <- AllKinds
INVARIANTS TypeOK NoMailLost  
PROPERTIES OnlyAskedDeletions CheckEnds
CHECK_DEADLOCK FALSE
