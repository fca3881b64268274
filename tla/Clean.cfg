CONSTANTS
    Raw <- MCRaw
    Inputs <- MCInputs
    PageSizes = {2, 4}
    Fingerprint <- MCFingerprint
    Low = 1
    High = 9
    Absent = none
    none = none
    Bad = bad
    bad = bad
    NonScalar = array
    array = array
SPECIFICATION CleanSpec
INVARIANTS
    CleanedIsSnapshot
    EveryRecordCounted
    LogExplainsChanges
CHECK_DEADLOCK FALSE
