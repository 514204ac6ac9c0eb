SPECIFICATION MCSpec
CONSTANTS
  Requests = {r1, r2}
  Names = {Unnamed}
  Unnamed = Unnamed
  Prices = {1}
  FirstPrice = 0
  MAX_WRITES = 2
  TeamIds = {t1}
  SandboxIds = {s1, s2}
  KnownCounts = {0, 2}
  NoEntry = NoEntry
INVARIANTS
  TypeOK
  TeamsSearchableOrLost
  CleanSandboxIsEmpty
PROPERTIES
  TeamsBecomeSearchable
  FetchCatchesUp
  ReadersCatchUp
