SPECIFICATION Spec
CONSTANTS
  Sockets = {s1, s2, s3}
  NoSocket = NoSocket
  MaxLogins = 2
  MaxDrops = 0
INVARIANT
  NoneOutlivesSession
CHECK_DEADLOCK FALSE
