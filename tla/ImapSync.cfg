SPECIFICATION Spec
CONSTANTS
  None = None
  inbox = inbox
  twin = twin
  m1 = m1
  m2 = m2
  w1 = w1
  w2 = w2
  Windows = {w1}
  Boxes = {inbox}
  Listed = inbox
  Mail = {m1, m2}
  Validities <- SomeValidities
  MaxUid = 2
  IntMax = 1
  HeadersOnly = FALSE
  MaxFaults = 1
  MaxCalls = 2
INVARIANTS
  TypeOK
  SeenIsStored
  TextComesBack
PROPERTIES
  ResyncRepairs
  LabelKept
SYMMETRY SameMail
CHECK_DEADLOCK FALSE
