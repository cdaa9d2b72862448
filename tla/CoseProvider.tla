---------------------------- MODULE CoseProvider ----------------------------
(***************************************************************************)
(* sign_manifest_cose and verify_manifest_cose (crates/tfws-core/src/      *)
(* cose.rs) over the OpenSSL provider (crates/tfws-openssl-provider/src/   *)
(* lib.rs).  Several calls run at once in threads or processes that share  *)
(* the key directories and the scratch root, while an operator replaces    *)
(* key files one by one.                                                   *)
(*                                                                         *)
(* A call handles the required algorithms in order, and for each one       *)
(*   bind      reads the public key once and compares it to the descriptor *)
(*   private   (signing) reads the private key, to see that it is one      *)
(*   scratch   creates a directory of its own                              *)
(*   fill      writes the message, the key and the signature into it       *)
(*   openssl   (signing) runs openssl -sign, which opens the private key   *)
(*             file again                                                  *)
(*   check     runs openssl -verify on what the directory holds            *)
(* The directory is removed when its owner is dropped, however the         *)
(* algorithm ended; a killed process drops nothing, and nobody looks at    *)
(* whether the removal succeeds.                                           *)
(***************************************************************************)
EXTENDS Naturals, Sequences, FiniteSets, HybridBaseline

CONSTANTS
    Calls,          \* concurrent calls of the provider
    Required,       \* REQUIRED_SIGNATURES, in order
    Directory,      \* names a scratch directory may be given
    MaxAttempts,    \* how often a taken name is tried again (64 in the code)
    MaxReplaced,    \* bound on the key files replaced (for TLC)
    NoKey,          \* a key file that is absent
    Nothing,        \* a local variable without a value
    Requests,       \* manifests whose signing is asked for
    Offered,        \* documents presented for verification, signed or not
    Faults          \* what may go wrong: see FaultsAssumption

\* "io": a file operation, the start of openssl or openssl -sign fails; "kill": a call
\* dies; "remove": remove_dir_all fails; "openssl": openssl -verify exits with another
\* code than 0 for a reason of its own.
ASSUME FaultsAssumption == Faults \subseteq {"io", "kill", "remove", "openssl"}
ASSUME RequiredAssumption ==
    /\ Required \in Seq(Algorithms) /\ Required # <<>>
    /\ \A a \in Algorithms : \E i \in 1..Len(Required) : Required[i] = a
    /\ \A i, j \in 1..Len(Required) : Required[i] = Required[j] => i = j
ASSUME InputAssumption == Requests \subseteq Manifest /\ Offered \subseteq Document
ASSUME BoundAssumption == MaxAttempts \in Nat \ {0} /\ MaxReplaced \in Nat
\* What a scratch directory may hold.
Files == [message : Message \cup {Nothing}, key : Key \cup {Nothing},
          signature : Signature \cup {Nothing}]

ASSUME SentinelAssumption ==
    /\ NoKey \notin Key
    /\ Nothing \notin Key \cup Signature \cup Directory /\ Nothing \notin Files

VARIABLES
    public,         \* the public key file of each algorithm
    private,        \* the private key file of each algorithm
    replaced,       \* how many key files were replaced
    scratch,        \* what each existing scratch directory holds
    orphans,        \* history: directories a dead call or a failed removal left
    pc,             \* where each call is
    job,            \* the call's operation and its document or manifest
    index,          \* the position in Required it has reached
    bound,          \* the public key bytes it read and compared
    dir,            \* its scratch directory
    attempts,       \* names it has tried for the directory
    made,           \* signatures it has made so far
    result          \* how the last call ended

kvars == <<public, private, replaced>>
cvars == <<job, index, bound, dir, attempts, made>>
vars  == <<released, accepted, kvars, scratch, orphans, pc, cvars, result>>

EmptyDir == [message |-> Nothing, key |-> Nothing, signature |-> Nothing]

SignJob(m)   == [op |-> "sign", document |-> [manifest |-> m]]
VerifyJob(d) == [op |-> "verify", document |-> d]

Signing(p) == job[p].op = "sign"
Alg(p)     == Required[index[p]]
Msg(p)     == MessageFor(Alg(p), job[p].document.manifest)
Named(p)   == job[p].document.manifest.keys[Alg(p)]     \* descriptor_for

-----------------------------------------------------------------------------

Init ==
    /\ BInit
    /\ public \in [Algorithms -> Key] /\ private = public
    /\ replaced = 0
    /\ scratch = [d \in Directory |-> Nothing] /\ orphans = {}
    /\ pc = [p \in Calls |-> "idle"]
    /\ job = [p \in Calls |-> Nothing]
    /\ index = [p \in Calls |-> 1]
    /\ bound = [p \in Calls |-> Nothing]
    /\ dir = [p \in Calls |-> Nothing]
    /\ attempts = [p \in Calls |-> 0]
    /\ made = [p \in Calls |-> <<>>]
    /\ result = [p \in Calls |-> "none"]

\* What a failed remove_dir_all leaves of a directory: all of its files or none.  (It
\* may stop in between; that the name stays taken is what matters.)
Leftovers(files) == {files, EmptyDir}

\* Drop of the scratch directory, if the call has one; the result of remove_dir_all
\* is thrown away.
Remove(p) ==
    \/ dir[p] = Nothing /\ UNCHANGED <<scratch, orphans>>
    \/ /\ dir[p] # Nothing
       /\ scratch' = [scratch EXCEPT ![dir[p]] = Nothing]
       /\ orphans' = orphans
    \/ /\ "remove" \in Faults /\ dir[p] # Nothing
       /\ \E rest \in Leftovers(scratch[dir[p]]) :
             scratch' = [scratch EXCEPT ![dir[p]] = rest]
       /\ orphans' = orphans \cup {dir[p]}

\* The call ends with r, and its locals are gone.
Forget(p, r) ==
    /\ pc' = [pc EXCEPT ![p] = "idle"]
    /\ job' = [job EXCEPT ![p] = Nothing]
    /\ index' = [index EXCEPT ![p] = 1]
    /\ bound' = [bound EXCEPT ![p] = Nothing]
    /\ dir' = [dir EXCEPT ![p] = Nothing]
    /\ attempts' = [attempts EXCEPT ![p] = 0]
    /\ made' = [made EXCEPT ![p] = <<>>]
    /\ result' = [result EXCEPT ![p] = r]

\* Mutant of Raise: an early return that forgets the directory.
RaiseKeeping(p, error) ==
    /\ Forget(p, error)
    /\ UNCHANGED <<bvars, scratch, orphans>>

\* An error return: a partial document is dropped with the directory.
Raise(p, error) ==
    /\ Remove(p)
    /\ Forget(p, error)
    /\ UNCHANGED bvars

Goto(p, l) ==
    /\ pc' = [pc EXCEPT ![p] = l]
    /\ UNCHANGED <<bvars, result>>

\* sign_manifest_cose of a manifest that encodes, verify_manifest_cose of an
\* envelope that parses and decodes: what both do before their first algorithm.
Start(p) ==
    /\ pc[p] = "idle"
    /\ \E j \in {SignJob(m) : m \in Requests}
              \cup {VerifyJob(d) : d \in Offered \cup released} :
         job' = [job EXCEPT ![p] = j]
    /\ pc' = [pc EXCEPT ![p] = "bind"]
    /\ result' = [result EXCEPT ![p] = "none"]
    /\ UNCHANGED <<bvars, kvars, scratch, orphans, index, bound, dir, attempts, made>>

\* Mutant of Bind: any public key file will do, its digest is not compared.
BindAny(p) ==
    /\ pc[p] = "bind"
    /\ public[Alg(p)] # NoKey
    /\ bound' = [bound EXCEPT ![p] = public[Alg(p)]]
    /\ Goto(p, IF Signing(p) THEN "private" ELSE "scratch")
    /\ UNCHANGED <<kvars, scratch, orphans, job, index, dir, attempts, made>>

\* validate_public_key_binding: one read of the public key file.
Bind(p) ==
    /\ pc[p] = "bind"
    /\ \/ /\ public[Alg(p)] = Named(p)
          /\ bound' = [bound EXCEPT ![p] = public[Alg(p)]]
          /\ Goto(p, IF Signing(p) THEN "private" ELSE "scratch")
          /\ UNCHANGED <<scratch, orphans, job, index, dir, attempts, made>>
       \/ /\ public[Alg(p)] # Named(p)
          /\ Raise(p, "KeyBindingMismatch")
    /\ UNCHANGED kvars

\* validated_private_key: there is a private key, whichever it is.
Private(p) ==
    /\ pc[p] = "private"
    /\ \/ /\ private[Alg(p)] # NoKey
          /\ Goto(p, "scratch")
          /\ UNCHANGED <<scratch, orphans, cvars>>
       \/ /\ private[Alg(p)] = NoKey
          /\ Raise(p, "OperationFailed")
    /\ UNCHANGED kvars

\* A name that is free becomes the scratch directory of p.
Create(p, d) ==
    /\ scratch' = [scratch EXCEPT ![d] = EmptyDir]
    /\ dir' = [dir EXCEPT ![p] = d]
    /\ attempts' = [attempts EXCEPT ![p] = 0]
    /\ Goto(p, "fill")
    /\ UNCHANGED <<kvars, orphans, job, index, bound, made>>

\* A name that is taken is given up for another one.
Retry(p) ==
    /\ attempts' = [attempts EXCEPT ![p] = @ + 1]
    /\ Goto(p, "scratch")
    /\ UNCHANGED <<kvars, scratch, orphans, job, index, bound, dir, made>>

\* Mutants of Scratch: create_dir_all, which accepts a name that is taken; a loop
\* without an end; a loop that runs once too often.
ScratchShared(p) == pc[p] = "scratch" /\ \E d \in Directory : Create(p, d)
ScratchForever(p) ==
    /\ pc[p] = "scratch"
    /\ \E d \in Directory : scratch[d] = Nothing /\ Create(p, d)
ScratchOnceMore(p) ==
    /\ pc[p] = "scratch"
    /\ \E d \in Directory :
        \/ scratch[d] = Nothing /\ Create(p, d)
        \/ scratch[d] # Nothing /\ attempts[p] < MaxAttempts /\ Retry(p)

\* ScratchDirectory::new: create_dir fails on a name that is taken.
Scratch(p) ==
    /\ pc[p] = "scratch"
    /\ \E d \in Directory :
        \/ scratch[d] = Nothing /\ Create(p, d)
        \/ /\ scratch[d] # Nothing
           /\ \/ attempts[p] + 1 < MaxAttempts /\ Retry(p)
              \/ /\ attempts[p] + 1 = MaxAttempts
                 /\ Raise(p, "OperationFailed")
                 /\ UNCHANGED kvars

\* The fs::write calls of sign_bytes and verify_bytes.
Fill(p) ==
    /\ pc[p] = "fill"
    /\ scratch' = [scratch EXCEPT ![dir[p]] =
          [message   |-> Msg(p),
           key       |-> bound[p],
           signature |-> IF Signing(p) THEN Nothing
                         ELSE job[p].document.signatures[Alg(p)]]]
    /\ Goto(p, IF Signing(p) THEN "openssl" ELSE "check")
    /\ UNCHANGED <<kvars, orphans, cvars>>

\* openssl -sign opens the private key by its path, signs the message file and
\* writes the signature file, which sign_bytes then reads.
OpenSslSign(p) ==
    /\ pc[p] = "openssl"
    /\ \/ /\ private[Alg(p)] # NoKey
          /\ LET s == [key |-> private[Alg(p)], message |-> scratch[dir[p]].message]
             IN  /\ scratch' = [scratch EXCEPT ![dir[p]].signature = s]
                 /\ made' = [made EXCEPT ![p] = Append(@, s)]
          /\ Goto(p, "check")
          /\ UNCHANGED <<orphans, job, index, bound, dir, attempts>>
       \/ /\ private[Alg(p)] = NoKey
          /\ Raise(p, "OperationFailed")
    /\ UNCHANGED kvars

\* The document a signing call returns once it has a signature per algorithm.
Envelope(p) ==
    [manifest   |-> job[p].document.manifest,
     signatures |-> [a \in Algorithms |->
        made[p][CHOOSE i \in 1..Len(Required) : Required[i] = a]]]

\* What follows a successful check: the next algorithm, or the call's return.
Checked(p) ==
    \/ /\ index[p] < Len(Required)
       /\ index' = [index EXCEPT ![p] = @ + 1]
       /\ bound' = [bound EXCEPT ![p] = Nothing]
       /\ dir' = [dir EXCEPT ![p] = Nothing]
       /\ Goto(p, "bind")
       /\ UNCHANGED <<job, attempts, made>>
    \/ /\ index[p] = Len(Required)
       /\ released' = IF Signing(p) THEN released \cup {Envelope(p)} ELSE released
       /\ accepted' = IF Signing(p) THEN accepted ELSE accepted \cup {job[p].document}
       /\ Forget(p, "returned")

\* openssl -verify exits with 0 on the files of a scratch directory.
Passes(files) ==
    /\ files # Nothing /\ files.signature # Nothing
    /\ Verifies(files.key, files.message, files.signature)

\* Mutant of Check: a signature just made is not verified.
CheckVerifyOnly(p) ==
    /\ pc[p] = "check"
    /\ \/ Signing(p) \/ Passes(scratch[dir[p]])
    /\ Remove(p)
    /\ Checked(p)
    /\ UNCHANGED kvars

\* openssl -verify with the public key, message and signature of the directory:
\* the verification proper, or the check of a signature just made.  Any exit code but
\* 0 counts as a bad signature, whatever the reason.
Check(p) ==
    /\ pc[p] = "check"
    /\ \/ /\ Passes(scratch[dir[p]])
          /\ Remove(p)
          /\ Checked(p)
       \/ /\ ~Passes(scratch[dir[p]]) \/ "openssl" \in Faults
          /\ Raise(p, "SignatureInvalid")
    /\ UNCHANGED kvars

\* A read, a write, create_dir or the start of openssl fails.
IoError(p) ==
    /\ "io" \in Faults
    /\ pc[p] # "idle"
    /\ Raise(p, IF pc[p] = "bind" THEN "KeyBindingMismatch" ELSE "OperationFailed")
    /\ UNCHANGED kvars

\* ScratchDirectory::new cannot make the new directory private, and not remove it
\* either (when it can, the call ends as in IoError).
Unprotected(p, d) ==
    /\ {"io", "remove"} \subseteq Faults
    /\ pc[p] = "scratch" /\ scratch[d] = Nothing
    /\ scratch' = [scratch EXCEPT ![d] = EmptyDir]
    /\ orphans' = orphans \cup {d}
    /\ Forget(p, "OperationFailed")
    /\ UNCHANGED <<bvars, kvars>>

\* The process dies: nothing is dropped, the directory stays.
Kill(p) ==
    /\ "kill" \in Faults
    /\ pc[p] # "idle"
    /\ Forget(p, "killed")
    /\ orphans' = orphans \cup ({dir[p]} \ {Nothing})
    /\ UNCHANGED <<bvars, kvars, scratch>>

\* An operator replaces or removes one key file.
Replace(a, k) ==
    /\ replaced < MaxReplaced
    /\ replaced' = replaced + 1
    /\ \/ public' = [public EXCEPT ![a] = k] /\ private' = private
       \/ private' = [private EXCEPT ![a] = k] /\ public' = public
    /\ UNCHANGED <<bvars, scratch, orphans, pc, cvars, result>>

Step(p) ==
    \/ Bind(p) \/ Private(p) \/ Scratch(p) \/ Fill(p) \/ OpenSslSign(p) \/ Check(p)

Next ==
    \/ \E p \in Calls : Start(p) \/ Step(p) \/ IoError(p) \/ Kill(p)
    \/ \E p \in Calls, d \in Directory : Unprotected(p, d)
    \/ \E a \in Algorithms, k \in Key \cup {NoKey} : Replace(a, k)

Spec == Init /\ [][Next]_vars

\* The scheduler runs every call, and every openssl process ends.
FairSpec == Spec /\ \A p \in Calls : WF_vars(Step(p))

-----------------------------------------------------------------------------
(* Properties *)

\* Type correctness of the key files, the scratch root and the calls.
TypeOK ==
    /\ released \subseteq Document /\ accepted \subseteq Document
    /\ public \in [Algorithms -> Key \cup {NoKey}]
    /\ private \in [Algorithms -> Key \cup {NoKey}]
    /\ replaced \in 0..MaxReplaced /\ orphans \subseteq Directory
    /\ pc \in [Calls -> {"idle", "bind", "private", "scratch", "fill", "openssl", "check"}]
    /\ index \in [Calls -> 1..Len(Required)]
    /\ bound \in [Calls -> Key \cup {Nothing}]
    /\ dir \in [Calls -> Directory \cup {Nothing}]
    /\ attempts \in [Calls -> 0..(MaxAttempts - 1)]
    /\ made \in [Calls -> Seq(Signature)]

\* Spec invariants 1 and 2, whatever key files are replaced half-way through:
\* what a call returns or accepts carries both signatures, over one manifest, by
\* the keys that manifest names (the binding check and the post-sign check).
ImplementsBaseline == BSpec

\* A call finds in its scratch directory only what it wrote there itself
\* (create_dir fails on a name that is taken).
ScratchIsPrivate ==
    \A p \in Calls : dir[p] # Nothing =>
        /\ scratch[dir[p]] # Nothing
        /\ scratch[dir[p]].message \in {Nothing, Msg(p)}
        /\ scratch[dir[p]].key \in {Nothing, bound[p]}
        /\ \A q \in Calls : dir[q] = dir[p] => q = p

\* A released envelope is a good one whenever openssl looks at it: the key, message and
\* signature it is given match, so that if the answer is SignatureInvalid all the same,
\* openssl failed for a reason of its own (verify_bytes cannot tell the two apart).
ReleasedAlwaysMatches ==
    [][\A p \in Calls :
          /\ pc[p] # "idle" /\ pc'[p] = "idle" /\ result'[p] = "SignatureInvalid"
          /\ job[p].op = "verify" /\ job[p].document \in released
          => Passes(scratch[dir[p]]) /\ "openssl" \in Faults]_vars

\* The scratch root holds the directories of calls at work, and what a killed call or a
\* failed removal left there, which no call ever uses again: no error path leaves the
\* message or a signature behind of itself (Drop, create_dir).
ScratchAccounted ==
    /\ \A d \in Directory :
          scratch[d] # Nothing <=> d \in orphans \/ \E p \in Calls : dir[p] = d
    /\ \A p \in Calls : dir[p] \notin orphans

\* Every call comes to an end, even when killed calls have left directories that
\* take every name there is.
EveryCallReturns == \A p \in Calls : pc[p] # "idle" ~> pc[p] = "idle"

=============================================================================
