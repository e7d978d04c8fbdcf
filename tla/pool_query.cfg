SPECIFICATION FairSpec
CONSTANTS
  r1 = r1  r2 = r2  r3 = r3
  c1 = c1  c2 = c2  c3 = c3
  h1 = h1
  Request <- ThreeRequests
  Client <- ThreeClients
  Queries <- TwoQueries
  Host = {h1}
  NoHost = NoHost
  NoRequest = NoRequest
  NoClient = NoClient
  MaxSize = 1
  MinSize = 0
  MaxUses = 2
  ConnTimeout = FALSE
  IdleTimeout = TRUE
  Lifetime = FALSE
  Verify = TRUE
  LoadBalance = FALSE
CHECK_DEADLOCK FALSE
INVARIANTS QueryOutcome
PROPERTIES QueriesTold EndCompletes
