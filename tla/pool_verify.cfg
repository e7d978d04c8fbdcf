SPECIFICATION Spec
CONSTANTS
  r1 = r1  r2 = r2  r3 = r3  r4 = r4
  c1 = c1  c2 = c2  c3 = c3  c4 = c4
  h1 = h1  h2 = h2
  Request <- MCRequest
  Client <- MCClient
  Host <- MCHost
  NoHost = NoHost
  NoRequest = NoRequest
  MaxSize = 2
  MinSize = 1
  MaxUses = 2
  ConnTimeout = TRUE
  IdleTimeout = TRUE
  Lifetime = TRUE
  Verify = TRUE
  LoadBalance = FALSE
SYMMETRY Alike
CHECK_DEADLOCK FALSE
INVARIANTS IdleUsable SizeBound HeldUnheard
