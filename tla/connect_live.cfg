SPECIFICATION FairSpec
CONSTANTS
  h1 = h1
  h2 = h2
  Hosts <- TwoHosts
  Cycle = 2
  Targets = {"master"}
  Modes = {"off", "shuffle"}
  NumQueries = 0
  MaxCalls = 2
  Recorded = {}
  NoHost = NoHost
CHECK_DEADLOCK FALSE
PROPERTIES ConnectAnswered
