CONSTANTS
  Clients <- MCClients
  Requests <- MCRequests
  Contended <- MCContended
SPECIFICATION Spec
INVARIANTS StopsProtect LimitsKeepTheirTerms PathsAgree
PROPERTY OrdersActOnTheirSide
CHECK_DEADLOCK FALSE
