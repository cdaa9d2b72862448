--------------------------- MODULE HybridBaseline ---------------------------
(***************************************************************************)
(* What a signing and verifying implementation promises, for JSON bundles  *)
(* and COSE envelopes alike (spec/TFWS-3.0.md, invariants 1 and 2): what   *)
(* it releases and what it accepts carries, for each required algorithm, a *)
(* signature over that very manifest by the key its descriptor names.      *)
(*                                                                         *)
(* A key stands for a key pair; its public half is named by its digest.  A *)
(* signature is the key that made it and the message it covers, and an     *)
(* OpenSSL verification compares exactly these.                            *)
(***************************************************************************)
CONSTANTS
    Algorithms,     \* the algorithms of the mandatory baseline
    Key,            \* key pairs
    Content         \* what a manifest says besides its keys

VARIABLES
    released,       \* documents a signer has returned
    accepted        \* documents a verifier has accepted

bvars == <<released, accepted>>

Manifest  == [keys : [Algorithms -> Key], content : Content]
Message   == [algorithm : Algorithms, manifest : Manifest]
Signature == [key : Key, message : Message]
Document  == [manifest : Manifest, signatures : [Algorithms -> Signature]]

\* The bytes algorithm a signs for manifest m.
MessageFor(a, m) == [algorithm |-> a, manifest |-> m]

\* OpenSSL verifies signature s of message t under key k.
Verifies(k, t, s) == s.key = k /\ s.message = t

\* Invariants 1 and 2: both algorithms, one manifest, the keys it names.
Complete(d) ==
    \A a \in Algorithms :
        Verifies(d.manifest.keys[a], MessageFor(a, d.manifest), d.signatures[a])

BInit == released = {} /\ accepted = {}

\* Only complete documents join a set of documents.
Grows(docs, new) ==
    /\ docs \subseteq new
    /\ \A d \in new \ docs : d \in Document /\ Complete(d)

Release == Grows(released, released') /\ accepted' = accepted
Accept  == Grows(accepted, accepted') /\ released' = released

BNext == Release \/ Accept

BSpec == BInit /\ [][BNext]_bvars

=============================================================================
