SPECIFICATION SigningSpec
CONSTANTS
  t1 = t1
  t2 = t2
  Threads <- MCThreads
  Times <- MCTimes
  Offsets <- MCOffsets
  Clients <- MCClients
  Drifts <- MCDrifts
  Second = 2
  MaxTime = 2
  MaxCalls = 2
  MaxStray = 2
SYMMETRY Symmetry
INVARIANTS StampsAreTimely AnswersAreTold RefusedNoncesWereOvertaken
