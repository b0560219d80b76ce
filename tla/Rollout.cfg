SPECIFICATION Spec
CONSTANTS
  v1 = v1
  v2 = v2
  c1 = c1
  c2 = c2
  Cut = Cut
  None = None
  Versions = {v1, v2}
  Sources = {c1, c2}
  MaxCommits = 2
  MaxFaults = 1
  MaxCalls = 1
SYMMETRY Symmetry
INVARIANTS
  TypeOK
  RecordsCurrent
  PublishedMatches
CHECK_DEADLOCK FALSE
