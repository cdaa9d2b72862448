-------------------------- MODULE MCSignatureBundle --------------------------
(* Instances of SignatureBundle for TLC. *)
EXTENDS SignatureBundle, TLC

CONSTANTS ed, ml, k1, k2, c1, t1, t2

MCBaseline == <<ed, ml>>

MCManifest == [keys |-> [a \in Algorithms |-> k1], content |-> c1]
MCOther == [keys |-> [a \in Algorithms |-> IF a = ed THEN k2 ELSE k1], content |-> c1]

\* Signing either manifest; the caller's key_id may be another one.
MCRequests == {[manifest |-> MCManifest, key_id |-> TRUE],
               [manifest |-> MCManifest, key_id |-> FALSE],
               [manifest |-> MCOther, key_id |-> TRUE]}

MCEntry(a, k, m, t) ==
    [algorithm |-> a, bound |-> TRUE,
     value |-> [algorithm |-> a, key |-> k, message |-> [manifest |-> m, created |-> t]]]
MCRight(a) == MCEntry(a, k1, MCManifest, t1)
MCBundle(entries) ==
    [about |-> MCManifest, created |-> t1, policy |-> TRUE, signatures |-> entries]

\* Bundles a verifier may be given: right ones, in either order; an algorithm
\* missing, repeated or unknown; a signature by another key, of another time, or
\* by the other algorithm; an entry, a policy or a digest that does not match.
MCBundles ==
    {MCBundle(e) : e \in
        {<<MCRight(ed), MCRight(ml)>>, <<MCRight(ml), MCRight(ed)>>,
         <<>>, <<MCRight(ml)>>, <<MCRight(ed), MCRight(ed)>>,
         <<MCRight(ed), MCRight(ml), MCRight(ed)>>,
         <<[MCRight(ed) EXCEPT !.algorithm = Unsupported], MCRight(ml)>>,
         <<[MCRight(ml) EXCEPT !.algorithm = ed], MCRight(ml)>>,
         <<[MCRight(ed) EXCEPT !.bound = FALSE], MCRight(ml)>>,
         <<MCEntry(ed, k2, MCManifest, t1), MCRight(ml)>>,
         <<MCEntry(ed, k1, MCManifest, t2), MCRight(ml)>>,
         <<MCRight(ed), MCEntry(ml, k1, MCOther, t1)>>}}
    \cup {[MCBundle(<<MCRight(ed), MCRight(ml)>>) EXCEPT !.policy = FALSE],
          [MCBundle(<<MCRight(ed), MCRight(ml)>>) EXCEPT !.about = MCOther]}

MCOffered == {[manifest |-> MCManifest, bundle |-> b] : b \in MCBundles}

Symmetry == Permutations(Calls)
=============================================================================
