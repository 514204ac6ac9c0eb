CONSTANTS
  Requests = {r1, r2}
  Names = {Unnamed, n1}
  Unnamed = Unnamed
  Prices = {0, 1}
  FirstPrice = 0
  MAX_WRITES = 2
  NoEntry = NoEntry
SPECIFICATION MCSpec
SYMMETRY Symmetry
INVARIANTS
  CatalogueTypeOK
  StaleListHasACause
PROPERTIES
  OwnColumnsUnlessOvertaken
  ImportSkipsUnlessOvertaken
