SPECIFICATION FairSpec
CONSTANTS
  Sockets = {s1, s2, s3, s4}
  NoSocket = NoSocket
  MaxLogins = 3
  MaxDrops = 2
INVARIANTS
  TypeOK
  OneSocket
  StateIsTrue
  RefusedOnce
PROPERTY
  ComesBack
CHECK_DEADLOCK FALSE
