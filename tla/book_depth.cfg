CONSTANTS
  Levels = {bid_level, ask_level}
  Quantities = {0, 1, 2}
  MaxUpdates = 1
  Numbering = "range"
  Readers <- MCHtx
  Intervals = {"1m", "3m"}
  Limit = 2
  Depth = 1
  Prices = {1, 2}
  MaxPeriods = 1
  MaxTrades = 2
  MaxReads = 2
  MaxRequests = 1
  Handshakes = {"signed", "login", "token"}
  Calls = {c1}
  a = a
  b = b
  Names = {a, b}
  NoName = NoName
  Batches <- MCBatches
  Profiles <- MCBitget
SPECIFICATION CallsSpec
INVARIANTS BooksKeepToDepth
CHECK_DEADLOCK FALSE
