CONSTANTS
  Clients <- MCClients
  Quantity <- MCQuantity
  Funds = 5
  Managed = {1, 3}
  MaxCalls = 2
  MaxUnread = 2
  Traders <- MCTraders
  Leverages = {0, 2, 4}
  VenueDefault = 5
  MaxPosition = 2
  MaxTasks = 3
  Programs <- MCPrograms
SPECIFICATION ClientSpec
INVARIANTS ShownIsTrue BalancesTellHeld OutcomesAreTrue NeverOverfilled HandlesAreTold PositionsAreTrue OrdersRunOnTheTerms ContactsAreAsAsked
CHECK_DEADLOCK FALSE
