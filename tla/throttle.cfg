SPECIFICATION FairSpec
CONSTANTS
  post = post
  get = get
  Calls <- MCCalls
  Gets <- MCGets
  Weights = {2, 3}
  WordSize = 16
  Capacity = 2
  Window = 2
  MaxRetries = 1
  DelayMs <- MCDelayMs
  RetryAfters = {1, 3}
  DefaultCoolOff = 2
INVARIANTS NoDoubleExecution DefiniteAnswerIsTrue SlidingBudget
PROPERTIES ImplementsOrderOutcome CallsReturn
