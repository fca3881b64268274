CONSTANTS
    NumSteps = 7
    Steps <- MCSteps
    Inputs <- MCInputs
    NoStep = none
    none = none
    Thread = {t1, t2}
    Clicks <- MCClicks
    Capacity = 2
    MaxAsks = 2
SPECIFICATION FairSpec
INVARIANTS
    TypeOK
    CacheCoherent
    AnswersCorrect
PROPERTIES
    ImplementsLruOrder
    ImplementsService
    CallsReturn
CHECK_DEADLOCK FALSE
