\* Two commands at a time, killed or failing anywhere, a data file lost.
SPECIFICATION Spec
CONSTANTS
    Hashes <- MCHashes
    Versions <- MCVersions
    Outs <- MCOuts
    Reasons <- MCReasons
    Blank = Blank
    None = None
    Whole = 2
    Procs = {p1, p2}
    Files <- MCFiles
    Starts <- MCStarts
    Out <- MCOut
    MaxCommands = 4
    MaxLosses = 1
SYMMETRY ProcSymmetry
INVARIANTS
    TypeOK
    DataBeforeManifest
    OneIdPerRecording
    ToldIsListed
    SaidIsRecorded
CHECK_DEADLOCK FALSE
