SPECIFICATION FairSpec
CONSTANTS
  h1 = h1
  h2 = h2
  Hosts <- TwoHosts
  Cycle = 2
  Targets <- SomeTargets
  Modes = {"off", "roundrobin"}
  NumQueries = 1
  MaxCalls = 1
  Recorded <- SomeRecorded
  NoHost = NoHost
CHECK_DEADLOCK FALSE
INVARIANTS OneVerdict NoLeak ResultsAreReal
PROPERTIES ConnectsToRole TriesUnknown
