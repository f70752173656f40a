SPECIFICATION Spec
CONSTANTS
    r1 = r1
    r2 = r2
    h1 = h1
    h2 = h2
    f = f
    g = g
    Runs <- MCRuns
    Host <- MCHost
    Tree <- MCTree
    Length <- MCLength
    Lengths = {1, 3}
    MaxLength = 2
    LongPaths <- MCLongPaths
    MaxTrouble = 1
INVARIANTS
    TypeOK
    StoredIfAlone
    OkIsWholeFile
    FinishedIsStored
