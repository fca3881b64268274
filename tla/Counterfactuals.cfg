CONSTANTS
    Snapshot <- MCSnapshot
    Missing <- MCMissing
    MaxInt = 10
    NoExclusion = none
    none = none
    Plans <- PathPlans
    RowSets <- PathRows
    NoBase = nobase
    nobase = nobase
    MaxRuns = 2
    MaxIds = 3
SPECIFICATION Spec
INVARIANTS
    CounterfactualsAreFullRuns
    TracesAgree
    StopsAreExplained
    ExclusionsFailAlike
    ContributionsMatchRuns
PROPERTIES
    HandlesStable
CHECK_DEADLOCK FALSE
