SPECIFICATION Spec
CONSTANTS
    MAXLINE = 4
    Codes <- MCCodes
    Lengths = {0, 1, 2, 3, 4, 5}
    Answers = 2
INVARIANT
    NoFormatError
CHECK_DEADLOCK FALSE
