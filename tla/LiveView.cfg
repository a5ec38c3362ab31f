SPECIFICATION FairSpec
CONSTANTS
  Claims = {c1, c2}
  CreatedAt <- OneAfterTheOther
  Filters = {"", "submitted"}
  PageSize = 1
  MaxFlight = 2
  Sockets = {m1, m2, f1, f2}
  Mine = {m1, m2}
  PoolSize = 2
  MaxDisturbances = 2
INVARIANTS
  TypeOK
  QuietIsCurrent
  GaugeSettles
PROPERTIES
  Settles
CHECK_DEADLOCK FALSE
