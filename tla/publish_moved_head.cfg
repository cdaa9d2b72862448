\* Two clones; a developer commits while the script runs.
\* All runs may have been made: nothing has to happen then.
CONSTANTS
    c0 = c0
    a = a
    b = b
    d = d
    Commit = {c0, a, b}
    Past <- MCPast
    Root = c0
    Verified = {c0, a, b}
    Publishers = {p1, p2}
    MaxRuns = 1
    MaxMoves = 1
    MaxCommits = 2
    Attempts = 2
    MainRef = MainRef
    None = None
    Faults = {}
SPECIFICATION Spec
INVARIANTS SameShaPushed
CHECK_DEADLOCK FALSE
