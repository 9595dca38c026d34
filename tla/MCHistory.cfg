\* Two recordings, two versions, MaxEdits changes with the hook installed.
SPECIFICATION Spec
CONSTANTS
    Hashes <- MCHashes
    Versions <- MCVersions
    Outs <- MCOuts
    Reasons <- MCReasons
    Blank = Blank
    None = None
    Whole = 2
    Starts <- MCStarts
    Hooked = TRUE
    StagesAll = TRUE
    Reclosing = FALSE
    MaxEdits = 3
INVARIANTS
    TypeOK
    NothingCommittedIsUnsaid
    HistoryIsAppendOnly
    HonestWorkAppends
CHECK_DEADLOCK FALSE
