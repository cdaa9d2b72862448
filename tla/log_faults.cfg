\* Two appending processes, four events, every fault.
CONSTANTS
    Writers = {w1, w2}
    EventId = {e1, e2, e3, e4}
    NoHash = NoHash
    NoEvent = NoEvent
    Faults = {"io", "tear", "power"}
SYMMETRY Symmetry
SPECIFICATION Spec
INVARIANTS TypeOK AckedDurable AckedInPlace
PROPERTIES DiskAppendOnly DamageBlocksAppends AuditsGrow
