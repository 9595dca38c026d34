\* A program and two it may start, with a limit that can be passed.
SPECIFICATION Spec
CONSTANTS
    Leader = Leader
    Helpers = {h1, h2}
    MaxOutput = 1
    PipeSize = 1
    MaxWritten = 2
INVARIANTS
    TypeOK
    OutputIsWhole
    NoStragglers
PROPERTY
    Returns
CHECK_DEADLOCK FALSE
