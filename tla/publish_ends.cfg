\* One clone, two runs, HEAD moved twice; CI runs may stay away.
\* All runs may have been made: nothing has to happen then.
CONSTANTS
    c0 = c0
    a = a
    b = b
    d = d
    Commit = {c0, a, b}
    Past <- MCPast
    Root = c0
    Verified = {c0, a, b}
    Publishers = {p1}
    MaxRuns = 2
    MaxMoves = 2
    MaxCommits = 2
    Attempts = 2
    MainRef = MainRef
    None = None
    Faults = {"net", "lost", "interrupt"}
SPECIFICATION FairSpec
PROPERTIES EveryRunEnds
CHECK_DEADLOCK FALSE
