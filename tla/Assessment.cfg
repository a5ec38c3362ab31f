SPECIFICATION FairSpec
CONSTANTS
  Processes = {w1, w2, seeder}
  Workers = {w1, w2}
  Seeder = seeder
  Texts <- MCTexts
  BatchSize = 2
  MaxRetries = 2
  MaxFaults = 2
  Requirements <- MCRequirements
  Narrative = "narrative"
  Clauses = {"clause1", "clause2"}
  Precedents = {"precedent"}
  PerRequirement = 2
  PrecedentLimit = 1
  Similarity <- MCSimilarity
  Files <- MCFiles
  Docs = {d1, d2}
  Forged = "forged"
INVARIANTS
  TypeOK
  SpendCounted
  CacheKept
  EvidenceSound
  LatestSawAssessed
PROPERTY
  TransactionsEnd
CHECK_DEADLOCK FALSE
