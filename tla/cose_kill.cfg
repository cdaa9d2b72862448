\* One call after another, killed anywhere, until no scratch name is free.
CONSTANTS
    ed = ed
    ml = ml
    k1 = k1
    k2 = k2
    Algorithms = {ed, ml}
    Key = {k1, k2}
    Content = {c1}
    Calls = {p1}
    Required <- MCRequired
    Directory = {d1, d2}
    MaxAttempts = 2
    MaxReplaced = 1
    NoKey = NoKey
    Nothing = Nothing
    Requests <- MCRequests
    Offered <- MCOffered
    Faults = {"io", "kill", "remove"}
SPECIFICATION FairSpec
INVARIANTS ScratchAccounted
PROPERTIES EveryCallReturns
