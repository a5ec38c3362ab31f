SPECIFICATION FairSpec
CONSTANTS
  Docs = {d1}
  PartitionOf <- OwnPartition
  Ingesters = {i1, i2}
  Deciders = {w1, w2}
  FirstOwner <- Owners
  MaxCopies = 1
  MaxMoves = 1
  MaxCrashes = 1
  MaxRaises = 1
INVARIANTS
  TypeOK
  OneOutcomeEach
  CallsExplained
  OffsetsCoverWork
PROPERTY
  PipelineConcludes
CHECK_DEADLOCK FALSE
