\* Calls, one after another, while key files are replaced and openssl may hang.
CONSTANTS
    ed = ed
    ml = ml
    k1 = k1
    k2 = k2
    c1 = c1
    t1 = t1
    t2 = t2
    Algorithms = {ed, ml}
    Unsupported = Unsupported
    Key = {k1, k2}
    Content = {c1}
    Instant = {t1, t2}
    Readable = {t1}
    Calls = {p1}
    BASELINE <- MCBaseline
    NoKey = NoKey
    Nothing = Nothing
    Requests <- MCRequests
    Offered <- MCOffered
    MaxReplaced = 1
SPECIFICATION FairSpec
INVARIANTS TypeOK AcceptedHybrid ReleasedHybrid
PROPERTIES ImplementsBaseline ReleasedAlwaysMatches EveryCallReturns
