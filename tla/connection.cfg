CONSTANTS
    Runtimes <- AllRuntimes
    Answers <- AllAnswers
SPECIFICATION FairSpec
INVARIANTS OnlySecured EndIsLast
PROPERTIES FailuresReported EndArrives
CHECK_DEADLOCK FALSE
