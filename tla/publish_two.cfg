\* Two clones with commits that extend or exclude each other; commands fail.
\* All runs may have been made: nothing has to happen then.
CONSTANTS
    c0 = c0
    a = a
    b = b
    d = d
    Commit = {c0, a, b, d}
    Past <- MCPast
    Root = c0
    Verified = {c0, a, b}
    Publishers = {p1, p2}
    MaxRuns = 1
    MaxMoves = 1
    MaxCommits = 2
    Attempts = 2
    MainRef = MainRef
    None = None
    Faults = {"net", "interrupt", "ruleset"}
SPECIFICATION Spec
INVARIANTS TypeOK PassMeansPublished LeftBranchAnnounced UntouchedMeansUntouched
PROPERTIES MainAdvancesTested
CHECK_DEADLOCK FALSE
