SPECIFICATION Spec
CONSTANTS
  None = None
  System = System
  ann = ann
  sam = sam
  t1 = t1
  t2 = t2
  Claims = {c1}
  Users = {ann, sam}
  Txs = {t1, t2}
  Role <- MCRole
  Limit <- MCLimit
  Amounts = {1, 2, 3}
  Assessments = {a1, a2}
  Policies <- MCPolicies
  Days = {0, 1}
  MaxClock = 6
SYMMETRY Symmetry
INVARIANTS
  TypeOK
  LoadedIsCurrent
  TrailIsPath
  ApprovedWithinAuthority
  FourEyesInOrder
  RowTellsTrail
PROPERTIES
  ImplementsTrail
CHECK_DEADLOCK FALSE
