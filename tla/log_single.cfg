\* One writer, whole-line writes, failed calls and power failures.
CONSTANTS
    Writers = {w1}
    EventId = {e1, e2, e3, e4}
    NoHash = NoHash
    NoEvent = NoEvent
    Faults = {"io", "power"}
SPECIFICATION Spec
INVARIANT ChainIntact
PROPERTIES ImplementsHistory
