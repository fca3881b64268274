CONSTANTS
    Half = 8
    Infinity = 7
    Missing = none
    none = none
    Magnitudes <- MCMagnitudes
    DayLength = 2
    FirstDays <- MCFirstDays
    Catalog <- MCCatalog
    Exprs <- MCExprs
    Depth <- MCDepth
    MaxDepth = 4
    Ops <- MCOps
    Snapshots <- MCSnapshots
    Steps <- MCSteps
    Conditions <- MCConditions
    MaxSteps = 3
    NoStep = none
SPECIFICATION PlanSpec
INVARIANTS
    ValidPlansRun
    ValidPlansAreChains
    SelectionsAreMeant
    EncodedSortAgrees
    GroupsAreKeys
CHECK_DEADLOCK FALSE
