SPECIFICATION Spec
CONSTANTS
  u1 = u1
  u2 = u2
  None = None
  Uidls <- TwoUidls
  MessageId <- SharedId
  Big = {}
  Chosen <- FetchDelete
  Options <- DeletingAsMarked
INVARIANTS NoMailLost
CHECK_DEADLOCK FALSE
