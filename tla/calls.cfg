CONSTANTS
  Levels = {bid_level, ask_level}
  Quantities = {0, 1, 2}
  MaxUpdates = 5
  Numbering = "range"
  Readers <- MCReaders
  Intervals = {"1m", "3m"}
  Limit = 2
  Depth = 1
  Prices = {1, 2}
  MaxPeriods = 4
  MaxTrades = 2
  MaxReads = 2
  MaxRequests = 4
  Handshakes = {"signed", "login", "token"}
  Calls = {c1, c2}
  a = a
  b = b
  Names = {a, b}
  NoName = NoName
  Batches <- MCBatches
  Profiles <- MCProfiles
SPECIFICATION CallsSpec
INVARIANTS BookIsVenueBook NoSilentDrift HistoryIsTrue  AnswersAreReal ResultsAreTrue
PROPERTIES GapsAreReal
CHECK_DEADLOCK FALSE
