SPECIFICATION Spec
CONSTANTS
  Clients = {c1, c2}
  Uploaders = {c1, c2}
  Limit = 2
  WindowSeconds = 2
  Second = 3
  NoBucket = NoBucket
  MaxTime = 14
  MaxWait = 2
  Contents = {pdf}
  NoContent = NoContent
  MaxFiles = 3
INVARIANTS
  TypeOK
  WindowKept
  UploadsKept
SYMMETRY
  Symmetry
CHECK_DEADLOCK FALSE
