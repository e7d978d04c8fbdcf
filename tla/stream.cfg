SPECIFICATION FairSpec
CONSTANTS
  Kinds <- AllKinds
  Totals <- SomeTotals
  Sizes <- SomeSizes
  MaxReads = 5
CHECK_DEADLOCK FALSE
INVARIANTS StreamExact PortalClosedAtEnd
PROPERTIES ReadAnswered CloseAnswered StreamFinishes
