\* Three inputs, two workers, progress reported: safety, the refinement of the
\* sequential replay, and termination.
SPECIFICATION FairSpec
CONSTANTS
    N = 3
    Bytes <- MCBytes
    Fails = Fails
    Worlds <- MCWorlds
    Workers = {w1, w2}
    WithProgress = TRUE
    Nobody = Nobody
INVARIANTS
    TypeOK
    OneHand
    CollectsTheFacts
    EveryInputAccountedFor
    ProgressComplete
PROPERTIES
    RefinesSequential
    Terminates
CHECK_DEADLOCK FALSE
