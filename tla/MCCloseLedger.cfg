\* Two differences, closed, proposed or neither while a replay runs, with -record
\* or without; an entry of two lines, edited and committed at any time.
SPECIFICATION Spec
CONSTANTS
    Hashes <- MCHashes
    Versions <- MCVersions
    Outs <- MCOuts
    Blank = Blank
    Whole = 2
    None = None
    Decisions = {d1}
    Laws = {law1}
    NoLaw = NoLaw
    Observables = {o1}
    Lines = {l1, l2}
    Start <- MCStart
    Keys <- MCKeys
    MaxChanges = 2
SYMMETRY LineSymmetry
INVARIANTS
    TypeOK
    EvidenceBehindEveryClose
    OneCloseEach
    VerdictsStand
PROPERTY
    AccountedForStays
CHECK_DEADLOCK FALSE
