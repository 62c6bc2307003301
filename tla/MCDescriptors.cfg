SPECIFICATION MCFairSpec
CONSTANTS
    Kids = {1, 2, 3}
    FdMax = 8
    maxfd = 7
    Clients = {1, 2}
    QLEN = 2
    MaxConns = 3
    FdTop = 5
    CloseLimit = 5
    MAXLINE = 4
    Codes <- MCCodes
    Lengths = {0, 1, 3, 5}
    Answers = 2
    MaxLines = 4
INVARIANTS
    ChildAttached
    RefusedForCause
    StandardFilesRight
    AnswersMatch
    StuckOnlyAfterEmptyLine
PROPERTIES
    PcloseReturns
    MessageArrives
CHECK_DEADLOCK FALSE
