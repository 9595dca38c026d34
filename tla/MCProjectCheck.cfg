\* A project of either name, with its own record or one elsewhere, in MaxEdits edits.
SPECIFICATION Spec
CONSTANTS
    Hashes <- MCHashes
    Versions = {}
    Outs = {}
    Reasons <- MCReasons
    Blank = Blank
    Whole = 1
    None = None
    Computed = Computed
    Systems <- MCSystems
    Records <- MCRecords
    NoRecord = NoRecord
    Unset = Unset
    Starts <- MCStarts
    Entries <- MCEntries
    MaxEntries = 2
    MaxEdits = 3
INVARIANTS
    CloneStaysGreen
    NothingDeclinedIsUnpublished
PROPERTY
    RenameIsLoud
CHECK_DEADLOCK FALSE
