CONSTANTS
    Snapshot <- MCSnapshot
    Missing <- MCMissing
    MaxInt = 10
    NoExclusion = none
    none = none
    Plans <- SumPlans
    RowSets <- FewRows
    NoBase = nobase
    nobase = nobase
    MaxRuns = 1
    MaxIds = 2
SPECIFICATION Spec
INVARIANTS
    ExactContributionsAreRuns
CHECK_DEADLOCK FALSE
