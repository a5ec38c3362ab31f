SPECIFICATION FairSpec
CONSTANTS
  Assessments = {a1, a2}
  Replicas = {r1, r2}
  BatchSize = 2
  MaxTopic = 3
  MaxFailures = 1
  MaxCrashes = 1
INVARIANTS
  TypeOK
  AppliedInOrder
PROPERTIES
  ImplementsOnceEach
  EveryAssessmentApplied
CHECK_DEADLOCK FALSE
