--------------------------- MODULE SignatureBundle ---------------------------
(***************************************************************************)
(* sign_manifest and verify_bundle (reference/python/tfws3/crypto.py):     *)
(* several calls at once, in any processes, over one key directory whose   *)
(* files an operator replaces one by one.                                  *)
(*                                                                         *)
(*   bind     reads each public key file and compares its digest with the  *)
(*            descriptor (_validate_key_binding)                           *)
(*   prepare  hashes the manifest; a signer takes the time, a verifier     *)
(*            compares the bundle's metadata                               *)
(*   entry    one algorithm of the baseline, or one entry of the bundle:   *)
(*            checks it and starts openssl, which opens a key file by its  *)
(*            path -- the public one for the second time                   *)
(*   openssl  waits for openssl, at most 30 seconds (_run)                 *)
(*                                                                         *)
(* openssl's own files are in a temporary directory mkdtemp creates for    *)
(* the call alone; nothing else can be said of them here.                  *)
(***************************************************************************)
EXTENDS Naturals, Sequences, FiniteSets

CONSTANTS
    Algorithms,     \* signature algorithms of the mandatory baseline
    Unsupported,    \* an algorithm name that is not one of them
    Key,            \* key pairs, for either algorithm
    Content,        \* what a manifest says besides its keys
    Instant,        \* texts of "created", without line breaks
    Readable,       \* those that parse_rfc3339 reads
    Calls,          \* concurrent calls
    BASELINE,       \* the baseline in order
    NoKey,          \* a key file that is absent
    Nothing,        \* a local variable without a value
    Requests,       \* [manifest, key_id]: does the caller's key_id match
    Offered,        \* [manifest, bundle]: pairs presented to verify_bundle
    MaxReplaced     \* bound on the key files replaced (for TLC)

Manifest  == [keys : [Algorithms -> Key], content : Content]
\* signature_message: subject, digest and key_epoch are functions of the manifest.
Message   == [manifest : Manifest, created : Instant]
\* A signature is known by the key pair that made it and the bytes it covers.
Signature == [algorithm : Algorithms, key : Key, message : Message]
\* bound: the entry's key_id and public_key_uri are those of the descriptor.
Entry     == [algorithm : Algorithms \cup {Unsupported}, bound : BOOLEAN,
              value : Signature]
\* about: the manifest whose subject, digest and key_epoch the bundle carries;
\* policy: its fields, its version and its policy_id are the required ones.
Bundle    == [about : Manifest, created : Instant, policy : BOOLEAN,
              signatures : Seq(Entry)]
Pair      == [manifest : Manifest, bundle : Bundle]

ASSUME BaselineAssumption ==
    /\ BASELINE \in Seq(Algorithms) /\ BASELINE # <<>>
    /\ \A a \in Algorithms : \E i \in 1..Len(BASELINE) : BASELINE[i] = a
    /\ \A i, j \in 1..Len(BASELINE) : BASELINE[i] = BASELINE[j] => i = j
ASSUME InputAssumption ==
    /\ Requests \subseteq [manifest : Manifest, key_id : BOOLEAN]
    /\ Offered \subseteq Pair
    /\ Unsupported \notin Algorithms /\ NoKey \notin Key
    /\ Nothing \notin Signature \cup Instant
    /\ MaxReplaced \in Nat /\ Readable \subseteq Instant

VARIABLES
    released,       \* pairs of a manifest and the bundle signed for it
    accepted,       \* pairs verify_bundle has accepted
    public,         \* the public key file of each algorithm
    private,        \* the private key file of each algorithm
    replaced,       \* how many key files were replaced
    pc,             \* where each call is
    job,            \* what it was called with
    at,             \* its position in BASELINE, or in the bundle's entries
    created,        \* the time a signer puts in the bundle
    seen,           \* algorithms a verifier has met
    made,           \* entries a signer has made
    out,            \* what openssl will answer
    result          \* how the last call ended

docs  == <<released, accepted>>
kvars == <<public, private, replaced>>
cvars == <<job, at, created, seen, made, out>>
vars  == <<docs, kvars, pc, cvars, result>>

SignJob(r)   == [op |-> "sign", manifest |-> r.manifest, key_id |-> r.key_id]
VerifyJob(o) == [op |-> "verify", manifest |-> o.manifest, bundle |-> o.bundle]

Signing(p) == job[p].op = "sign"

\* The entry a call is at: a verifier goes through the bundle's own list.
Steps(p) == IF Signing(p) THEN Len(BASELINE) ELSE Len(job[p].bundle.signatures)
Alg(p)   == IF Signing(p) THEN BASELINE[at[p]]
            ELSE job[p].bundle.signatures[at[p]].algorithm

\* signature_message of the call.
Msg(p) == [manifest |-> job[p].manifest,
           created  |-> IF Signing(p) THEN created[p] ELSE job[p].bundle.created]

-----------------------------------------------------------------------------

Init ==
    /\ released = {} /\ accepted = {}
    /\ public \in [Algorithms -> Key] /\ private = public
    /\ replaced = 0
    /\ pc = [p \in Calls |-> "idle"]
    /\ job = [p \in Calls |-> Nothing]
    /\ at = [p \in Calls |-> 1]
    /\ created = [p \in Calls |-> Nothing]
    /\ seen = [p \in Calls |-> {}]
    /\ made = [p \in Calls |-> <<>>]
    /\ out = [p \in Calls |-> Nothing]
    /\ result = [p \in Calls |-> "none"]

\* The call ends with r, and its locals are gone.
Forget(p, r) ==
    /\ pc' = [pc EXCEPT ![p] = "idle"]
    /\ job' = [job EXCEPT ![p] = Nothing]
    /\ at' = [at EXCEPT ![p] = 1]
    /\ created' = [created EXCEPT ![p] = Nothing]
    /\ seen' = [seen EXCEPT ![p] = {}]
    /\ made' = [made EXCEPT ![p] = <<>>]
    /\ out' = [out EXCEPT ![p] = Nothing]
    /\ result' = [result EXCEPT ![p] = r]

\* A CryptoError leaves sign_manifest or verify_bundle.
Raise(p, error) == Forget(p, error) /\ UNCHANGED docs

Goto(p, l) ==
    /\ pc' = [pc EXCEPT ![p] = l]
    /\ UNCHANGED <<docs, result>>

Start(p) ==
    /\ pc[p] = "idle"
    /\ \E j \in {SignJob(r) : r \in Requests}
              \cup {VerifyJob(o) : o \in Offered \cup released} :
          job' = [job EXCEPT ![p] = j]
    /\ pc' = [pc EXCEPT ![p] = "bind"]
    /\ result' = [result EXCEPT ![p] = "none"]
    /\ UNCHANGED <<docs, kvars, at, created, seen, made, out>>

\* Mutant of Bound: the file is there, its digest is not compared.
BoundToAny(p) ==
    /\ Signing(p) => job[p].key_id
    /\ public[BASELINE[at[p]]] # NoKey

\* Does the descriptor of the call's algorithm name the public key file?
Bound(p) ==
    /\ Signing(p) => job[p].key_id
    /\ public[BASELINE[at[p]]] = job[p].manifest.keys[BASELINE[at[p]]]

\* One round of _validate_key_binding.
Bind(p) ==
    /\ pc[p] = "bind"
    /\ \/ /\ Bound(p) /\ at[p] < Len(BASELINE)
          /\ at' = [at EXCEPT ![p] = @ + 1]
          /\ Goto(p, "bind")
          /\ UNCHANGED <<job, created, seen, made, out>>
       \/ /\ Bound(p) /\ at[p] = Len(BASELINE)
          /\ at' = [at EXCEPT ![p] = 1]
          /\ Goto(p, "prepare")
          /\ UNCHANGED <<job, created, seen, made, out>>
       \/ ~Bound(p) /\ Raise(p, "key binding")
    /\ UNCHANGED kvars

\* What verify_bundle asks of a bundle before it looks at the entries.
Fitting(b, m) == b.policy /\ b.created \in Readable /\ b.about = m

\* payload_hash and "created": a signer takes the caller's text as it is, or the time,
\* and signature_message refuses a line break in it; a verifier reads it, between the
\* version and the rest of the metadata.
Prepare(p) ==
    /\ pc[p] = "prepare"
    /\ \/ /\ Signing(p)
          /\ \E t \in Instant : created' = [created EXCEPT ![p] = t]
          /\ Goto(p, "entry")
          /\ UNCHANGED <<job, at, seen, made, out>>
       \/ /\ ~Signing(p) /\ Fitting(job[p].bundle, job[p].manifest)
          /\ Goto(p, "entry")
          /\ UNCHANGED cvars
       \/ Signing(p) /\ Raise(p, "created")
       \/ /\ ~Signing(p) /\ job[p].bundle.created \notin Readable
          /\ Raise(p, "created")
       \/ /\ ~Signing(p)
          /\ \/ ~job[p].bundle.policy
             \/ job[p].bundle.created \in Readable /\ job[p].bundle.about # job[p].manifest
          /\ Raise(p, "metadata")
    /\ UNCHANGED kvars

\* Mutant of Fits: an algorithm may come twice.
FitsTwice(p) ==
    LET e == job[p].bundle.signatures[at[p]] IN
    e.algorithm \in Algorithms /\ e.bound

\* What verify_bundle asks of an entry before it verifies it.
Fits(p) ==
    LET e == job[p].bundle.signatures[at[p]] IN
    e.algorithm \notin seen[p] /\ e.algorithm \in Algorithms /\ e.bound

\* _sign_one starts openssl, which opens the private key file and signs.
SignOne(p) ==
    /\ pc[p] = "entry" /\ Signing(p) /\ at[p] <= Steps(p)
    /\ \/ /\ private[Alg(p)] # NoKey
          /\ out' = [out EXCEPT ![p] = [ok |-> TRUE, value |->
                [algorithm |-> Alg(p), key |-> private[Alg(p)], message |-> Msg(p)]]]
          /\ Goto(p, "openssl")
          /\ UNCHANGED <<job, at, created, seen, made>>
       \/ private[Alg(p)] = NoKey /\ Raise(p, "private key")
    /\ UNCHANGED kvars

\* The answer of openssl pkeyutl -verify for an entry, under the key file it opens.
Answer(p) ==
    LET e == job[p].bundle.signatures[at[p]] IN
    [ok |-> e.value = [algorithm |-> e.algorithm, key |-> public[e.algorithm],
                       message |-> Msg(p)],
     value |-> Nothing]

\* _verify_one starts openssl, which opens the public key file once more.
VerifyOne(p) ==
    /\ pc[p] = "entry" /\ ~Signing(p) /\ at[p] <= Steps(p)
    /\ \/ /\ Fits(p)
          /\ seen' = [seen EXCEPT ![p] = @ \cup {Alg(p)}]
          /\ out' = [out EXCEPT ![p] = Answer(p)]
          /\ Goto(p, "openssl")
          /\ UNCHANGED <<job, at, created, made>>
       \/ ~Fits(p) /\ Raise(p, "entry")
    /\ UNCHANGED kvars

\* Mutant of Collect: the time is taken anew for each signature.
CollectStamping(p) ==
    /\ pc[p] = "openssl"
    /\ \/ /\ out[p].ok
          /\ made' = IF Signing(p)
                     THEN [made EXCEPT ![p] = Append(@, [algorithm |-> Alg(p),
                              bound |-> TRUE, value |-> out[p].value])]
                     ELSE made
          /\ \E t \in Instant :
                created' = IF Signing(p) THEN [created EXCEPT ![p] = t] ELSE created
          /\ at' = [at EXCEPT ![p] = @ + 1]
          /\ out' = [out EXCEPT ![p] = Nothing]
          /\ Goto(p, "entry")
          /\ UNCHANGED <<job, seen>>
       \/ Raise(p, "signature")
    /\ UNCHANGED kvars

\* openssl has ended within the time limit.  _run returns its output or, when the exit
\* code is not 0, raises: a verification that fails, or an openssl that does.
Collect(p) ==
    /\ pc[p] = "openssl"
    /\ \/ /\ out[p].ok
          /\ made' = IF Signing(p)
                     THEN [made EXCEPT ![p] = Append(@, [algorithm |-> Alg(p),
                              bound |-> TRUE, value |-> out[p].value])]
                     ELSE made
          /\ at' = [at EXCEPT ![p] = @ + 1]
          /\ out' = [out EXCEPT ![p] = Nothing]
          /\ Goto(p, "entry")
          /\ UNCHANGED <<job, created, seen>>
       \/ Raise(p, "signature")
    /\ UNCHANGED kvars

\* Mutant of Timeout: subprocess.run without a time limit.
TimeoutNever(p) ==
    /\ pc[p] = "openssl" /\ FALSE
    /\ Raise(p, "timeout") /\ UNCHANGED kvars

\* Mutant of Timeout: a stopped openssl is taken for one that has ended.
TimeoutIgnored(p) ==
    /\ pc[p] = "openssl" /\ out[p].value # Nothing
    /\ out' = [out EXCEPT ![p] = [ok |-> TRUE, value |-> Nothing]]
    /\ UNCHANGED <<docs, kvars, pc, job, at, created, seen, made, result>>

\* The 30 seconds are over, and openssl is killed.
Timeout(p) ==
    /\ pc[p] = "openssl"
    /\ Raise(p, "timeout")
    /\ UNCHANGED kvars

\* What sign_manifest returns.
Signed(p) == [about |-> job[p].manifest, created |-> created[p], policy |-> TRUE,
              signatures |-> made[p]]

\* The loop is over: the bundle is returned; or the baseline must be complete.
Return(p) ==
    /\ pc[p] = "entry" /\ at[p] > Steps(p)
    /\ \/ /\ Signing(p)
          /\ released' = released
                \cup {[manifest |-> job[p].manifest, bundle |-> Signed(p)]}
          /\ accepted' = accepted
          /\ Forget(p, "returned")
       \/ /\ ~Signing(p) /\ seen[p] = Algorithms
          /\ accepted' = accepted
                \cup {[manifest |-> job[p].manifest, bundle |-> job[p].bundle]}
          /\ released' = released
          /\ Forget(p, "returned")
       \/ ~Signing(p) /\ seen[p] # Algorithms /\ Raise(p, "baseline incomplete")
    /\ UNCHANGED kvars

\* A key file cannot be read, a temporary file not written, openssl not started.
IoError(p) ==
    /\ pc[p] = "bind" \/ (pc[p] = "entry" /\ at[p] <= Steps(p))
    /\ Raise(p, "os error")
    /\ UNCHANGED kvars

\* An operator replaces or removes one key file.
Replace(a, k) ==
    /\ replaced < MaxReplaced
    /\ replaced' = replaced + 1
    /\ \/ public' = [public EXCEPT ![a] = k] /\ private' = private
       \/ private' = [private EXCEPT ![a] = k] /\ public' = public
    /\ UNCHANGED <<docs, pc, cvars, result>>

\* What the interpreter itself does; how long openssl takes is not up to it.
Work(p) ==
    \/ Bind(p) \/ Prepare(p) \/ SignOne(p) \/ VerifyOne(p) \/ Timeout(p) \/ Return(p)

Next ==
    \/ \E p \in Calls : Start(p) \/ Work(p) \/ Collect(p) \/ IoError(p)
    \/ \E a \in Algorithms, k \in Key \cup {NoKey} : Replace(a, k)

Spec == Init /\ [][Next]_vars

\* Every call is run by the scheduler; openssl may hang, the time limit does not.
FairSpec == Spec /\ \A p \in Calls : WF_vars(Work(p))

-----------------------------------------------------------------------------
(* Properties *)

\* Type correctness of the key files and of every call's locals.
TypeOK ==
    /\ released \subseteq Pair /\ accepted \subseteq Pair
    /\ public \in [Algorithms -> Key \cup {NoKey}]
    /\ private \in [Algorithms -> Key \cup {NoKey}]
    /\ replaced \in 0..MaxReplaced
    /\ pc \in [Calls -> {"idle", "bind", "prepare", "entry", "openssl"}]
    /\ at \in [Calls -> Nat \ {0}]
    /\ created \in [Calls -> Instant \cup {Nothing}]
    /\ seen \in [Calls -> SUBSET Algorithms]
    /\ made \in [Calls -> Seq(Entry)]
    /\ out \in [Calls -> [ok : BOOLEAN, value : Signature \cup {Nothing}] \cup {Nothing}]

\* The entries of a bundle for algorithm a.
EntriesFor(b, a) ==
    {i \in 1..Len(b.signatures) : b.signatures[i].algorithm = a}

\* Both algorithms, once each, over one message that says what the bundle says.
Hybrid(pair) ==
    /\ Len(pair.bundle.signatures) = Cardinality(Algorithms)
    /\ \A a \in Algorithms : \E i \in EntriesFor(pair.bundle, a) :
          LET s == pair.bundle.signatures[i].value IN
          /\ s.algorithm = a
          /\ s.message = [manifest |-> pair.manifest, created |-> pair.bundle.created]

\* Invariants 1 and 2 of the specification: what is accepted carries one signature
\* per algorithm, both over this manifest and this time, in whatever order and
\* with whatever key files the calls met (verify_bundle's loop and last check).
AcceptedHybrid == \A pair \in accepted : Hybrid(pair)

\* The same of what sign_manifest returns, though every signature is made by an
\* openssl process of its own: one time, one manifest.
ReleasedHybrid == \A pair \in released : Hybrid(pair)

\* A pair as a document of the baseline.
AsDocument(pair) ==
    [manifest |-> pair.manifest,
     signatures |-> [a \in Algorithms |->
        LET s == pair.bundle.signatures[
                    CHOOSE i \in EntriesFor(pair.bundle, a) : TRUE].value
        IN  [key |-> s.key,
             message |-> [algorithm |-> s.algorithm, manifest |-> s.message.manifest]]]]

B == INSTANCE HybridBaseline WITH
        released <- {AsDocument(pair) : pair \in released},
        accepted <- {AsDocument(pair) : pair \in accepted}

\* Until a key file is replaced, signing and verifying implement the baseline:
\* every bundle is over its manifest by the keys the manifest names.
ImplementsBaseline ==
    B!BInit /\ [][replaced' = 0 => [B!BNext]_<<released, accepted>>]_vars

\* What sign_manifest makes, verify_bundle accepts as long as no key file is replaced:
\* whenever it refuses it, a file could not be read, openssl hung, openssl failed on a
\* signature that matches, or the signer's caller gave a "created" that is no timestamp
\* (sign_manifest does not look at it, verify_bundle does).
ReleasedAlwaysMatches ==
    [][\A p \in Calls :
          /\ replaced = 0
          /\ pc[p] # "idle" /\ pc'[p] = "idle" /\ ~Signing(p)
          /\ [manifest |-> job[p].manifest, bundle |-> job[p].bundle] \in released
          => \/ result'[p] \in {"returned", "os error", "timeout"}
             \/ result'[p] = "signature" /\ out[p].ok
             \/ result'[p] = "created" /\ job[p].bundle.created \notin Readable]_vars

\* spec/TFWS-3.0.md, Public-key binding: the keys a bundle was verified with are
\* the ones whose digests the signed descriptors state.
VerifiedUnderBoundKeys ==
    \A pair \in accepted : \A a \in Algorithms : \A i \in EntriesFor(pair.bundle, a) :
        pair.bundle.signatures[i].value.key = pair.manifest.keys[a]

\* Every call comes to an end, even when openssl hangs.
EveryCallReturns == \A p \in Calls : pc[p] # "idle" ~> pc[p] = "idle"

=============================================================================
