--------------------------- MODULE MCCoseProvider ---------------------------
(* Instances of CoseProvider for TLC. *)
EXTENDS CoseProvider, TLC

CONSTANTS ed, ml, k1, k2

\* The two algorithms of the baseline, in the order of REQUIRED_SIGNATURES.
MCRequired == <<ed, ml>>

\* Two manifests that differ in one key.
MCManifest == CHOOSE m \in Manifest : m.keys[ed] = k1 /\ m.keys[ml] = k2
MCOther == CHOOSE m \in Manifest : m.keys[ed] = k2 /\ m.keys[ml] = k2
MCRequests == {MCManifest, MCOther}

\* Documents for a verifier: at most one signature is not the right one, being by
\* another key, over another manifest, or made for the other algorithm.
MCRight(a) == [key |-> MCManifest.keys[a], message |-> MessageFor(a, MCManifest)]
MCWrong(a, b) ==
    {[key |-> k, message |-> MessageFor(a, MCManifest)] : k \in Key \ {MCManifest.keys[a]}}
    \cup {[MCRight(a) EXCEPT !.message = MessageFor(a, MCOther)], MCRight(b)}
MCDocument(s, t) ==
    [manifest |-> MCManifest, signatures |-> [a \in Algorithms |-> IF a = ed THEN s ELSE t]]
MCOffered ==
    {MCDocument(s, MCRight(ml)) : s \in MCWrong(ed, ml) \cup {MCRight(ed)}}
    \cup {MCDocument(MCRight(ed), t) : t \in MCWrong(ml, ed)}

\* Calls and scratch names are interchangeable.
Symmetry == Permutations(Calls) \cup Permutations(Directory)
=============================================================================
