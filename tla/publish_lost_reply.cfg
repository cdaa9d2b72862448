\* A push is applied at GitHub and reported as failed.
\* All runs may have been made: nothing has to happen then.
CONSTANTS
    c0 = c0
    a = a
    b = b
    d = d
    Commit = {c0, a, b}
    Past <- MCPast
    Root = c0
    Verified = {c0, a, b}
    Publishers = {p1}
    MaxRuns = 1
    MaxMoves = 0
    MaxCommits = 2
    Attempts = 2
    MainRef = MainRef
    None = None
    Faults = {"lost"}
SPECIFICATION Spec
INVARIANTS UntouchedMeansUntouched
CHECK_DEADLOCK FALSE
