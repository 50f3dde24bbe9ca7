SPECIFICATION FeedsSpec
CONSTANTS
  Clients <- MCClients
  Symbols = {"A", "B"}
  Watched = "A"
  MaxCalls = 2
  MaxFrames = 2
  MaxTroubles = 2
INVARIANTS EventsAreTrue FeedsResume PingsAreAnswered
PROPERTY TickStays
CHECK_DEADLOCK FALSE
