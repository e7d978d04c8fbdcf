SPECIFICATION LoopSpec
CONSTANTS
  NumQueries = 3
  NoQuery = NoQuery
  Kinds <- AllKinds
  Timeout = TRUE
  MaxEnds = 2
CHECK_DEADLOCK FALSE
INVARIANTS AnswersMatch OnePlace AnsweredOnce ResultsInOrder FaultOnlyAtShutdown
PROPERTIES QueriesAnswered EndCompletes
