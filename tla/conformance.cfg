\* The parts that are computed from one input: the validate command with its file, the
\* CBOR decoders, the witness quorum and the recovery.
\* When all changes are made, nothing has to happen.
CONSTANTS
    BASELINE <- MCBaseline
    KNOWN = {"core.v1", "identity.v1", "recovery.v1", "transparency.v1"}
    Good <- MCGood
    Values <- MCValues
    MaxEdits = 3
    HEADS <- MCHeads
    TEXT <- MCText
    UTF8 = {1, 2, 3, 5, 6}
    SAFE = 1
    DEPTH = 2
    ITEMS = 2
    RUST <- MCRust
    PYTHON <- MCPython
    MaxHeads = 5
    Parts <- MCParts
    SignatureParts <- MCSignatureParts
    MaxChanges = 2
    MaxTogether = 2
    WORDS <- MCWords
    OPTIONS <- MCOptions
    RESTS <- MCRests
    MaxWords = 7
    CLIENTS = {c1, c2}
    WITNESSES = {w1, w2, w3, w4, w5}
    FAULTY = {w4, w5}
    ALLOWED = {w1, w2, w3, w4}
    MINIMUM = 3
    LOGS = {"log"}
    SIZES = {1}
    ROOTS = {"root a", "root b", "no hash"}
    HASHES = {"root a", "root b"}
    PEOPLE = {g1, g2, other}
    ALLOWED_GUARDIANS = {g1, g2}
    THRESHOLD = 2
    REQUESTS <- MCRequests
    LAST = 3
SPECIFICATION MCSpec
INVARIANTS OutputAsHinted VerdictsCarryOver EncodingIsUnique DecodersAgree OneEnvelopeIsRight
INVARIANTS AcceptedIsHybrid ProductionIsSignable RustAloneOnlyHere PythonAloneOnlyHere
INVARIANTS ShapeIsWeaker CanonicalFormsAgree
INVARIANTS SplitViewsExcluded AuthorizedByConsent
CHECK_DEADLOCK FALSE
