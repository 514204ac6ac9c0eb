CONSTANTS
  Requests = {r1}
  Names = {Unnamed, n1}
  Unnamed = Unnamed
  Prices = {1}
  FirstPrice = 0
  MAX_WRITES = 1
  NoEntry = NoEntry
SPECIFICATION MCSpec
PROPERTIES
  AskedColumnsUnlessOvertaken
