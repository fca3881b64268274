CONSTANTS
    NumSteps = 7
    Steps <- MCSteps
    Inputs <- MCInputs
    NoStep = none
    none = none
    Thread = {t1, t2}
    Questions <- MCQuestions
    MaxCalls = 2
SPECIFICATION FairSpec
INVARIANTS
    InversesSound
    ForwardInvertsBackward
PROPERTIES
    CallsReturn
CHECK_DEADLOCK FALSE
