----------------------------- MODULE MCEventLog -----------------------------
(* Instances of EventLog for TLC. *)
EXTENDS EventLog, TLC

\* Processes and identities are interchangeable.
Symmetry == Permutations(Writers) \cup Permutations(EventId)
=============================================================================
