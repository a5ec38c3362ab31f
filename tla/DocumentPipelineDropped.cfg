SPECIFICATION Spec
CONSTANTS
  Docs = {d1, d2}
  PartitionOf <- OwnPartition
  Ingesters = {i1}
  Deciders = {w1}
  FirstOwner <- Owners
  MaxCopies = 0
  MaxMoves = 0
  MaxCrashes = 0
  MaxRaises = 1
INVARIANT
  NothingDropped
CHECK_DEADLOCK FALSE
