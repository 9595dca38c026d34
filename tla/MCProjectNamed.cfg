\* A project whose own record is named with -store.
SPECIFICATION Spec
CONSTANTS
    Hashes <- MCHashes
    Versions = {}
    Outs = {}
    Reasons <- MCReasons
    Blank = Blank
    Whole = 1
    None = None
    Computed = Computed
    Systems <- MCSystems
    Records <- MCRecords
    NoRecord = NoRecord
    Unset = Unset
    Starts <- MCStarts
    Entries <- MCEntries
    MaxEntries = 2
    MaxEdits = 1
INVARIANT
    OwnRecordIsForNobodyElse
CHECK_DEADLOCK FALSE
