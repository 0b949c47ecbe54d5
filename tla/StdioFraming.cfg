SPECIFICATION FairSpec
CONSTANTS
    MaxRequestBytes = 2
    Lines <- AllLines
    Lockstep = FALSE
    MaxLines = 3
INVARIANTS
    TypeOK
    InOrderAtMostOnce
    AnswersWholeLines
    NothingOwed
PROPERTIES
    CatchesUp
