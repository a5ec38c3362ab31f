SPECIFICATION FairSpec
CONSTANTS
  e1 = e1
  e2 = e2
  e3 = e3
  k1 = k1
  k2 = k2
  Events = {e1, e2, e3}
  Keys = {k1, k2}
  Key <- MCKey
  Relays = {r1, r2}
  BatchSize = 2
  MaxAttempts = 2
  Flaky = {e1}
  MaxCrashes = 1
INVARIANTS
  TypeOK
  BatchesDisjoint
  CopiesAccounted
PROPERTIES
  ImplementsChannel
  OvertakenOnlyForCause
  OutboxDrains
CHECK_DEADLOCK FALSE
