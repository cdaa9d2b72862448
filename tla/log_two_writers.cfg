\* Two writers and no fault at all.
CONSTANTS
    Writers = {w1, w2}
    EventId = {e1, e2}
    NoHash = NoHash
    NoEvent = NoEvent
    Faults = {}
SYMMETRY Symmetry
SPECIFICATION Spec
INVARIANTS HashLinked
