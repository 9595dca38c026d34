\* The sample system's boundary, its laws and its witnesses.
SPECIFICATION DistinguishSpec
CONSTANTS
    Lacking = Lacking
    Bytes <- MCBytes
    Reserved <- MCReserved
    Lettered <- MCLettered
    Documents <- MCDocuments
    WitnessLists <- MCWitnessLists
    Suites <- MCSuites
    Samples <- MCSamples
INVARIANTS
    SubjectRestored
    VerdictsAreTrue
    ShippedBoundaryHolds
CHECK_DEADLOCK FALSE
