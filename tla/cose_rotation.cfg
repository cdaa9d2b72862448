\* Two concurrent calls while two key files are replaced.
CONSTANTS
    ed = ed
    ml = ml
    k1 = k1
    k2 = k2
    Algorithms = {ed, ml}
    Key = {k1, k2}
    Content = {c1}
    Calls = {p1, p2}
    Required <- MCRequired
    Directory = {d1, d2}
    MaxAttempts = 2
    MaxReplaced = 2
    NoKey = NoKey
    Nothing = Nothing
    Requests <- MCRequests
    Offered <- MCOffered
    Faults = {"io", "openssl"}
SYMMETRY Symmetry
SPECIFICATION Spec
INVARIANTS TypeOK ScratchIsPrivate ScratchAccounted
PROPERTIES ImplementsBaseline ReleasedAlwaysMatches
