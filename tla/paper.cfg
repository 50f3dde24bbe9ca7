SPECIFICATION BindingSpec
CONSTANTS
  BTC_USDT = BTC_USDT
  ETH_BTC = ETH_BTC
  BTC = BTC
  ETH = ETH
  USDT = USDT
  Symbols = {BTC_USDT, ETH_BTC}
  Assets = {BTC, ETH, USDT}
  BaseOf <- MCBaseOf
  QuoteOf <- MCQuoteOf
  Prices = {1, 2}
  Quantities = {1}
  Requests <- MCRequests
  TakerBps = 1
  SlippageBps = 1
  Scale = 10
  Deposits = {250}
  MaxOrders = 3
  Hosts <- MCHosts
  Tape <- MCTape
  TapeSymbol = BTC_USDT
  PollBuffer = 2
  ListBuffer = 1
  Timeout = 1
  MaxTime = 2
  MaxBoundOrders = 2
INVARIANTS LockedIsReserved LedgerBalances EventsTellAll CallersKnowTheirOrders ReplayTradesAtShownPrices
