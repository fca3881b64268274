CONSTANTS
    Fetcher = {f1, f2}
    f1 = f1
    f2 = f2
    Ids <- MCIds
    FirstRows <- MCFirst
    PageSize = 2
    MaxAttempts = 2
    NoFile = nofile
    nofile = nofile
    Torn = torn
    torn = torn
    MaxChanges = 1
    MaxStarts = 2
    MaxPages = 3
    RecordsPerPage = 2
    Outside = {3}
SPECIFICATION FetchSpec
INVARIANTS
    TypeOK
    NothingSkipped
    NothingRepeated
    QuietFetchIsExact
    OpenedIsOneFetch
    LosesAtMostRemovals
    SourceAccountsForAll
PROPERTIES
    FetchEnds
    ScfFetchEnds
CHECK_DEADLOCK FALSE
