# TFWS: specifications, model checking and proofs

This directory holds TLA+ models of the Trust-First Web Standard reference
implementation, the TLC configurations that check them and the theorems TLAPS
proves about them.  Every definition is translated from the source;
`PROJECT.json` names, for each one, the lines it stands for, and for each
property a mutation of the code (a `Mutant of ...` operator beside the
definition it mutates) that the property's run must refute.

    tlc -config log_faults.cfg MCEventLog.tla     one run
    tlapm EventLogProofs.tla                      one module's proofs

## 1. The system

| Component | Source | State it keeps | Operations | Interacts with |
|---|---|---|---|---|
| Event log | `reference/python/tfws3/eventlog.py`, `cli.py` 147-173 | a JSON-lines file, fsynced by each append | `append_event`, `read_events`, `verify_chain` | other processes with the same file, the file system |
| Merkle root | `eventlog.py` 79-93 | none (a loop over layers) | `merkle_root` | event-verify |
| Hybrid signature bundle (Python) | `crypto.py` | key files; one call's loop over algorithms or entries | `sign_manifest`, `verify_bundle` | `openssl` processes, the key directory |
| Key generation (Python) | `crypto.py` 78-116 | the key directory it creates | `generate_keyset` | `openssl`, the file system |
| CBOR/COSE conformance (Python) | `crypto.py` 356-495, `canonical.py` | decoder offset and depth | `verify_manifest_cose_conformance`, `decode_manifest_cbor`, `canonicalize` | fixed vectors |
| Manifest rules (Python, Rust, TypeScript) | `models.py`, `crates/tfws-core/src/lib.rs`, `sdks/typescript` | none | `validate_manifest`, `Manifest::validate`, `validateManifestShape` | everything that reads a manifest |
| Deterministic CBOR, COSE envelope bytes (Rust) | `cbor.rs`, `cose.rs` | decoder position | encode, decode, `parse_envelope` | provider, CLI |
| COSE signing and verification, OpenSSL provider (Rust) | `cose.rs` 175-288, `crates/tfws-openssl-provider` | key files, scratch directories | `sign_manifest_cose`, `verify_manifest_cose`, `ScratchDirectory` | `openssl` processes, other calls in the same scratch root |
| Witness quorum and split views | `transparency.py` | the checkpoints of one call | `verify_witness_quorum`, `detect_incompatible_checkpoints` | logs, witnesses |
| Recovery | `recovery.py` | none | `evaluate_recovery` | guardians, the clock |
| Command lines, WASM, URL policy | `cli.py`, `crates/tfws-cli`, `crates/tfws-wasm`, `netpolicy.py` | files they write | one operation per process | the components above |
| Protected-main publisher | `scripts/publish-protected-main.ps1` | git refs, the flags of one run | one audit or publication | GitHub: branches, CI runs, the ruleset; developers; other clones |

**Interactions.** The components share no memory.  They meet in files (the log, the
key directories, the scratch root), in processes they start (`openssl`, `git`,
`gh`) and, for the publisher, in the refs of one GitHub repository.  Nothing in the
source takes a lock.  The behaviours that are hard are therefore the ones between
two steps that touch such a shared thing:

- *event log*: read, verify, then append, with other writers in between; a write
  that is short; a call that fails after some bytes landed; power lost before
  `fsync`.  It is right when what was returned stays, stays in place, and damage
  is never silent.
- *signing and verifying* (both implementations): a key file is read, compared and
  opened again later by another process; one of the two signatures fails; two
  calls draw one scratch name; a process is killed and leaves its directory;
  `openssl` hangs.  They are right when everything released or accepted carries
  both signatures, over one manifest, by the keys the manifest names.
- *publisher*: HEAD, remote main, the ruleset and the stale branches are looked at
  and used later; a push is applied and its reply is lost; a run stops half-way.
  It is right when a reported PASS is true, and a reported failure says what it
  left behind.
- *manifest rules, CBOR, recovery, quorum*: pure functions, whose difficulty is at
  boundaries and in agreement: the decoders and validators of several languages
  should accept the same inputs; a quorum must not depend on the order of
  statements; two quorums of a split log must share a witness.
- *key generation and the command lines*: several files written one after
  another, with no way back when one of them fails.

## 2. Modules

| Module | Models | Lines of the code |
|---|---|---|
| `EventLog` | the log and its writers, auditors and failures | `eventlog.py` 14-76 |
| `AppendOnlyLog` | what the log promises (abstract) | `spec/TFWS-3.0.md` invariant 7 |
| `EventLogProofs` | theorems about `EventLog` | |
| `HybridBaseline` | what any signer and verifier promises (abstract) | `spec/TFWS-3.0.md` invariants 1, 2 |
| `CoseProvider` | the COSE calls over the OpenSSL provider | `cose.rs` 175-288, provider `lib.rs` |
| `CoseProviderProofs` | theorems about `CoseProvider` | |
| `SignatureBundle` | the Python signer and verifier | `crypto.py` 30-47, 152-353 |
| `SafePublish` | runs of the publisher | `publish-protected-main.ps1` |
| `SafePublishProofs` | theorems about `SafePublish` | |
| `SignatureBundleProofs` | theorems about `SignatureBundle` | |
| `ManifestPolicy` | the manifest rules of Python, Rust and TypeScript | `models.py`, `lib.rs` of tfws-core, `index.mjs`, parts of `canonical.py` and `cbor.rs` |
| `CborCodec` | both decoders of deterministic CBOR and the encoder | `cbor.rs`, `canonical.py` 6-242 |
| `CborCodecProofs` | theorems about `CborCodec` | |
| `CoseEnvelope` | both readers of the COSE_Sign envelope | `cose.rs` 217-713, `crypto.py` 381-495 |
| `CoseEnvelopeProofs` | a theorem about `CoseEnvelope` | |
| `CommandLine` | the arguments of `tfws-cli` | `main.rs` of tfws-cli 13-78, 223-304 |
| `ValidateCommand` | the command from arguments to exit code: composes `CommandLine`, `ManifestPolicy` and `CoseEnvelope` | `main.rs` 80-134, 325-404 |
| `ValidateCommandProofs` | theorems about `ManifestPolicy`, `CommandLine` and `ValidateCommand` | |
| `WitnessQuorum` | checkpoints, witnesses and clients | `transparency.py` |
| `Recovery` | guardians, threshold and time lock | `recovery.py` |
| `QuorumProofs` | theorems about `WitnessQuorum` and `Recovery` | |
| `Checks` | a list of checks with early returns | |
| `MCEventLog`, `MCCoseProvider`, `MCSignatureBundle`, `MCSafePublish`, `MCConformance` | values of the constants for TLC | |

`CoseProvider` extends `HybridBaseline` (it adds its own variables to
`released` and `accepted`); `SignatureBundle` has documents of another shape and
instantiates it with a mapping (`AsDocument`); `EventLog` instantiates
`AppendOnlyLog`.  `ValidateCommand` extends the three modules its command runs
through and puts their steps one after another.

### EventLog

The file is a sequence of lines; the last one is what follows the last newline
(empty in a well-formed log).  A line is a sequence of *pieces*, the head and the
tail of an event's JSON text: a torn write leaves a head alone, or both pieces
without the newline, which is the distinction `read_events` makes.  `disk` is the
prefix that is on stable storage.

| Action | Code |
|---|---|
| `Begin` | `append_event` up to the `open`: read, verify the chain, draw the id, build the event (22-47) |
| `Refuse` | `read_events`, `verify_chain` or `canonicalize` raises (30-47) |
| `Write` | one `write(2)` at whatever is then the end of the file (48-51); short when `"tear"` |
| `Sync` | `fsync` and the return of the event (52-53) |
| `Fail` | `OSError` anywhere, or the process is killed; nothing that landed is undone |
| `Audit` | `event-verify` (`cli.py` 160-173) |
| `PowerFailure` | the file is cut anywhere behind the durable prefix |

The hash of an event is its id: `append_event` draws a fresh `uuid4` for each event,
so two events have equal hashes only when they are equal.  That no id repeats and
SHA-256 does not collide is assumed.

### CoseProvider

Each call is at one algorithm of `REQUIRED_SIGNATURES` and goes through `Bind`,
`Private` (signing), `Scratch`, `Fill`, `OpenSslSign` (signing) and `Check`; the
module's header says which function each one is.  A signature is the key that made it
and the message it covers, so that `openssl -verify` is equality.  Key files are
replaced one at a time by `Replace`.  A key file's public half stands for its digest.
Error returns go through `Raise`, which drops the scratch directory as `Drop` does
(`Remove`); `Kill` does not.  The envelope's bytes, header checks and size limits are no part of
it: `Start` takes manifests that encode and envelopes that parse.

What can go wrong is chosen by `Faults`: `"io"` (a file operation, the start of
`openssl` or a signing fails), `"kill"`, `"remove"` (`remove_dir_all` fails, whose result `Drop`
throws away, as does `ScratchDirectory::new` when it cannot protect what it has made,
`Unprotected`) and `"openssl"` (`openssl -verify` ends with another exit code than 0 for a
reason of its own, which `Check` cannot tell from a signature that does not match: both are
`SignatureInvalid`).  `orphans` is a history variable: the directories that dead calls and failed
removals have left.  No guard reads it.

### SignatureBundle

A call binds every public key first (`Bind`, one read per algorithm), then prepares
the message (`Prepare`), then goes through the baseline (signing) or through the
entries of the bundle in the bundle's own order (verifying).  `SignOne` and
`VerifyOne` are the moment at which `openssl` opens a key file by its path, which for
a public key is the second time; `Collect` and `Timeout` are the two ways the wait of
`_run` ends.  `mkdtemp` gives every call temporary files of its own.  A bundle names the
manifest it is about (subject, digest and key epoch are functions of it), and an entry
says whether its `key_id` and URI are those of the descriptor.  `created` is one of the texts
`Instant`, of which `parse_rfc3339` reads those in `Readable`: `sign_manifest` signs over whatever its
caller gave (`Prepare` refuses only what `signature_message` refuses, a line break), and
`verify_bundle` refuses what it cannot read.

### SafePublish

Each action of a run is one command of the script with the test that follows it, in
the order of the script; `Catch` is the catch block with what it says.  Two
places take several commands as one step: the reads of HEAD and of remote main in the
audit (`Audit`), and a fetch with the `rev-parse` behind it (`Fetch`).  GitHub is
modelled from how the script uses it: pushes are fast-forward, the ruleset on main
wants signed and tested commits while it is active, a push starts a CI run that shows
up later and ends either way.  `applied` in `flags` is not a variable of the script:
it records what GitHub did for the run.  The signature check at GitHub fails for a
commit GitHub has never been given (`AtGitHub`).

The audit reads `$LocalHead` first and lists the commits to publish afterwards, from
HEAD as it is then.  A HEAD that has moved in between is noticed later, unless it has
moved back: `PassMeansPublished` therefore says that the listed commits are the
published ones only when HEAD has moved at most once.  What main got, and that CI passed
on it, holds however often it moves.

### ManifestPolicy

One operator per group of rules and implementation (`PythonKeys` and `RustKeys`,
`PythonSubject`, `RustSubject` and `ScriptSubject`, ...), put together as
`PythonAccepts` (the verify command), `PythonSigns` (`payload_hash`), `RustAccepts`
(`Manifest::validate` after serde) and `ScriptAccepts` (`validateManifestShape`);
`PythonDecodes` and `RustDecodes` are the CBOR entries.  A member of a manifest is a
class of values that some rule tells apart: a subject is an origin, an origin with an
empty query, one whose slashes are missing, and so on.  `form` says which of its objects,
if any, is written as an array, and `bulk` how large its CBOR form is.  The variable is what a publisher
wrote, changed member by member; every validator reads every version.

The implementations differ in these places, and the run shows that there is no other
among the values of `MCConformance`.  This is complete for those classes of values and
not for every text: a string that `urlparse` and the url crate read differently in a way that no
class stands for would be another row.

| Manifest says | Python | Rust | TypeScript |
|---|---|---|---|
| `https:host` or `https://host/.` as subject | refused | accepted (the URL standard repairs it) | accepted |
| `https://host?` or `https://host#` (empty query, empty fragment) | accepted | refused | accepted |
| `https://host/;` (empty parameter) | accepted | refused (a path) | refused |
| a port that is no port, a host that is no host (`https://a b`) | accepted | refused | refused |
| a bad or unordered `updated_at`, `expires_at`; `expires_at` null | refused | accepted | not looked at |
| U+001C to U+001F alone as operator name or `key_id` | refused (`strip`) | accepted (`trim`) | not looked at |
| an object with the right names for `required_algorithms` | accepted | refused | refused |
| a number as operator name or as optional capability | accepted | refused | not looked at |
| jurisdiction `A1` | accepted | refused | not looked at |
| a relative artifact URI, a blank media type | accepted | refused | not looked at |
| a member twice | the last counts | refused | the last counts |
| `-0`, or more than 128 levels, in `identity` | accepted | refused (`serde_json`) | not looked at |
| an array in place of any object: the manifest, its policy, capabilities or operator, a descriptor, an artifact | refused | accepted (serde reads a struct from either) | refused for the manifest, policy and capabilities, not looked at for the others |

The TypeScript check also does not look at descriptors, repeated capabilities, unknown
members or artifacts (`ShapeIsWeaker` has it refuse nothing that Rust accepts).  A manifest that leaves
out `identity`, `operator.jurisdiction` or `expires_at` has two canonical forms: Rust
writes null where Python writes nothing, so neither implementation reproduces the
other's payload digest (`CanonicalFormsAgree`).

The CBOR decoders add rules, and `spec/CBOR-COSE.md` section 12 wants the same result of both.
`VerdictsCarryOver` says where, beyond the table above, they part:

| CBOR manifest or envelope | Python | Rust |
|---|---|---|
| between 1 and 4 MiB | refused | accepted |
| `identity` that is no object | accepted | refused |
| `identity` with 1025 to 4096 members | accepted | refused |
| the header label `true` in place of 1 | accepted | refused |

### CborCodec

An input is a sequence of *heads* (type, form of the argument, argument, where it is cut),
chosen one at a time and read by the Rust decoder, the Python decoder and the Rust encoder
together; a text is a number with a length and a place in the bytewise order.  The
recursion of the decoders is a stack of open arrays and maps, which they share for as long
as both read; `Deliver` and `Close` are what their loops do with an item that is complete,
and keep its deterministic encoding, so that `Value` is what `encode_value` would write: an
entry is kept at the place of its key among those before it (`Insert`).

| Definition | Code |
|---|---|
| `ReadHead` with `RustValue`, `RustKey` | `decode_value`, `decode_array`, `decode_map` up to their loops, each check in its order |
| `ReadHead` with `PythonItem`, `PythonArgument` | `_CborDecoder.item`, `_argument` |
| `ReadHead` with `EncoderValue` | `validate_value_profile`, `validate_number`, as far as the input is a value at all |
| `Close` | the end of the loop over an array or a map |
| `End` with `RustEnd`, `PythonEnd`, `EncoderEnd` | `decode_manifest_cbor`, `_decode_cbor_document` and `encode_manifest_cbor` around them: size, trailing bytes, the second encoding |

The limits are the constants `RUST` and `PYTHON`: 4 MiB against 1 MiB for a document, 1024
against 4096 pairs in a map, 4 MiB against 1 MiB for a text; nesting (32) and arrays (4096)
have one limit in both.  `DecodersAgree` shows that, when none of the limits that differ is
touched, both accept the same inputs (but for the array that serde takes for a struct) and
name the same error where the code is meant to; `EncodingIsUnique` that Python, which never
encodes what it has read, still accepts one encoding per value, and that Rust reads back
what Rust writes, up to every limit.

### CoseEnvelope

An envelope is written right and then changed in one part after another: a size, tag, item,
header map, signature or what follows it.  `RustParse` is the list of checks of
`parse_envelope` from left to right (each early return is a `When`; `FirstError` is the first of
the errors they find), `PythonVerifies` that of `verify_manifest_cose_conformance`, which decodes
everything before it looks at anything.  A header map is a sequence of label and value, the
label being its encoded byte, because Python turns labels into dictionary keys, where
`true` is 1: an envelope whose algorithm stands under the label `true`, behind the key id, passes in
Python and is refused in Rust.  `true` and 1 in one map are refused by both, in Python by the look at the keys
there are already (`LabelsOnce`), since their encodings ascend.  `OneEnvelopeIsRight` says that there is
no other envelope that passes anywhere, and that an envelope over 1 MiB passes in Rust only.

### CommandLine and ValidateCommand

`CommandLine` takes words one at a time (`Command`, `Argument`, `InputValue`,
`OutputValue`, `NoMoreWords` are the branches of `parse_args`) and keeps beside them what
`output_format_hint` makes of all the words, those behind a refused one included (`RESTS`).
In `ValidateCommand` a file is then read (`ReadFile`), of the format that was asked for or
another one; what it says is chosen by `ManifestSays` (an edit of `ManifestPolicy`) and
`EnvelopeSays` (a change of `CoseEnvelope`).  `Code` is `validate_bytes`, `ExitCode` is
`main`, and `PythonSays` what the Python reference makes of the same file.  An
unbound manifest makes every key of its envelope unbound (`Enclosing`), which is how the
development manifest of `tfws init` fails in an envelope and passes outside.

There is no fallback from one decoder to another, and what a decoder makes of the bytes of another format is
a constant (`CborOf`), so no property is about it.  Words that are not Unicode and a standard output
that is closed make `env::args()` and `println!` panic (exit code 101); the model has neither.

### WitnessQuorum

A client is shown a checkpoint (`Show`: its validation and the look at the policy), takes
statements one after another in any order and as often as they come (`Statement`: one turn
of the loop), and decides (`Decide`).  Honest witnesses sign at most one root for a log and a
size; the others have signed everything.  Nothing in the code asks that the minimum be large
enough for two quorums to meet in an honest witness, so `SplitViewsExcluded` has
that as its condition (`MajorityQuorum`).  A statement for an older tree of the same log counts
as a conflict too, so a quorum may be refused although no view was split; that is what the code
does and no property forbids it.

### Recovery

Guardians consent (`Consent`), anybody sends approvals with at most one right signature
(`HalfApproval`), time passes (`Tick`), and `Evaluate` is what `evaluate_recovery` answers at
that moment.  Times are instants, and one below 0 stands for a text that `parse_rfc3339` refuses (`Unreadable`).
`AuthorizedByConsent` is an equivalence: neither an approval too many nor an instant too early
or too late changes who may recover, and when.

## 3. Runs

Every run takes between a few seconds and two minutes on two cores; `publish_two` (2.9 million states)
and `conformance` (1.6 million) are the largest.

| Run | Question | Bounds, and why they are enough |
|---|---|---|
| `log_faults` | do returned events stay durable and in place, is damage permanent rather than silent, does what auditors accepted only grow, under every fault? | 2 writers, 4 events: a fork needs two writers and one more event after it; a torn line needs a second append |
| `log_single` | does one writer implement `AppendOnlyLog`? | 4 events, failed calls and power failures, whole-line writes |
| `log_two_writers` | *violated*: is the log hash-linked once nobody is appending? | 2 writers, 2 events, no fault at all |
| `cose_rotation` | are only complete documents released and accepted, are scratch directories private and all accounted for, is a released envelope refused only when `openssl` fails on files that match? | 2 calls, 2 scratch names, 2 replaced key files (each of the two files of a pair once), documents with any one signature wrong in each possible way |
| `cose_kill` | does every call end, when killed calls and failed removals have taken every name, and what do they leave? | 1 call after another, 2 names, 2 attempts |
| `bundle_rotation` | are released and accepted bundles hybrid whatever is replaced, and by the manifest's keys until something is? is a released bundle refused for no reason but those named? does every call end when `openssl` hangs? | one call after another: concurrent calls share nothing but the key files and the bundles released before. Every initial choice of key pairs and one replaced or removed file: a completed rotation is another initial choice. 14 bundles: missing, repeated, unknown, reordered entries, wrong key, time, manifest, policy, descriptor; a `created` that is no timestamp |
| `bundle_rebound` | *violated*: are accepted bundles by the keys the descriptors name? | 1 call, 1 replaced file |
| `publish_two` | is a PASS true, does a failure tell what it left, does main take tested commits only? | 2 clones; commits a, b behind a, and d beside them, d unsigned; one move of a HEAD; failing commands, interruptions, the ruleset dropped at any moment. More clones, runs and moves are left to `SafePublishProofs` |
| `publish_ends` | does every run end? | 1 clone, 2 runs, 2 moves, so that the awaited CI run never exists |
| `publish_moved_head` | *violated*: is the pushed SHA the one whose CI was awaited? | 2 clones, one move |
| `publish_lost_reply` | *violated*: is main untouched when the script says so? | 1 clone, one lost reply |
| `conformance` | what is computed from one input, by everything that computes it: (a) does the verdict of `validate` on a CBOR or COSE file carry over to Python, and are errors written as they were asked for? do manifests and envelopes that are accepted carry the whole baseline, can what passes the production gate be signed, where do the implementations and their canonical forms differ? (b) do the CBOR decoders agree, and has a value one encoding? (c) can two clients accept split views? (d) who is behind an authorised recovery? | (a) up to 7 words of 9, so that both options, a repetition of one and the file fit; two good manifests (one of `tfws init`, one bound) with up to 3 of 21 members changed, each to every class of values: a rule relates at most three members; in CBOR and COSE files up to 2 changes of manifest and envelope together, so that a wrong part can hide another. (b) inputs of up to 5 heads out of 28, depth 2, two items, two and three pairs, sizes on both sides of every limit: a map of two pairs in an order, or a nested one, fits. (c) 2 clients, 4 allowed witnesses and one that is not, one of the allowed dishonest, minimum 3: the smallest quorums that meet in an honest witness. (d) 2 guardians and another, threshold 2, the time lock's start, end and the instants about them, five requests of which one is right |

In `log_faults` a power failure also clears what auditors had accepted: an auditor may
have read an event that was not yet fsynced and that the failure then takes.

Bounds that only TLC needs: `MaxReplaced`, `MaxRuns`, `MaxMoves`, the number of
`EventId`s; `MaxAttempts` (64 in the code), `Attempts` (60) and `MaxCommits` (20) are
the code's own limits made small.  So are `DEPTH`, `ITEMS`, `RUST` and `PYTHON`, with their
order kept, and `SAFE`.  `MaxEdits`, `MaxChanges`, `MaxTogether`, `MaxWords`, `MaxHeads` and
`LAST` bound what is written, typed, read and waited for.

The four parts (a) to (d) of `conformance` share no state, so `MCConformance` lets one of them
move while the others stand at their beginning, which visits every state of each.
The publisher's runs switch the deadlock check off:
when every clone has made its runs and every build has ended, nothing has to happen; so
does `conformance`, where an input that has been read to its end is followed by nothing.
Symmetry is used over writers, events, calls and scratch names, never in a run that
checks liveness.

**Fairness.** `CoseProvider!FairSpec` asks that a call which can take a step takes one:
the operating system schedules it, and every `openssl` process ends (the provider
waits for it without a limit, so that a passphrase prompt would block it; `PROJECT.json`
lists that as a hazard).  `SignatureBundle!FairSpec` does *not*
ask that `openssl` ends, only that the interpreter runs and that its 30-second limit
expires.  `SafePublish!FairSpec` asks that the shell runs the script and that GitHub ends
the builds it has started; it does not ask that a CI run exists for the commit
the script looks for.

### What the violated runs show

1. `log_two_writers`: two overlapping `append_event` calls read the same log and both
   return; the log never verifies again.  `spec/TFWS-3.0.md` invariant 7 says that the
   history is hash-linked.
2. `bundle_rebound`: `verify_bundle` compares the digest of a public key file and then
   lets `openssl` open the path again; a key file replaced in between is the one
   verified with.  `spec/TFWS-3.0.md` says a verifier must reject such a bundle.  The Rust
   provider copies the bytes it compared, and `cose_rotation` and
   `CallsImplementBaseline` show the difference that makes.
3. `publish_moved_head`: both pushes name HEAD, not `$LocalHead`.
4. `publish_lost_reply`: `$MainPushed` is set only after `git push` has reported success,
   so a lost reply makes the script say that main was not updated by this run.

Three related weaknesses show in the models without a run of their own.

`sign_manifest` compares the public key files and signs with the private ones, and nothing checks that the
two belong together or verifies what was signed: a private key file that is replaced, or was the wrong one
from the start, gives a bundle that every verifier refuses, although `spec/TFWS-3.0.md` invariant 2 says that
every signature is bound to the descriptors.  The Rust provider verifies what it has signed.  The
properties of `SignatureBundle` about its keys therefore hold until a key file is replaced.

`openssl -verify` may fail for a reason of its own, and both `sign_bytes` and `verify_bytes` then say
`SignatureInvalid`: the Rust provider calls a released envelope a bad signature, or a good
private key a wrong one.  `ReleasedAlwaysMatches` says what is left: the files `openssl` was given match.

A line that lost only its
newline still reads as an event (`Readable`), so the next append lands on the same line
and returns an event nobody can read back.  `AckedInPlace` and `DamageBlocksAppends` say
what remains true then: the log no longer verifies, and says so for good.

## 4. Proofs

All theorems hold for every value of the constants that satisfies the `ASSUME`s of the
module (any number of writers, calls, keys, names, algorithms).

**EventLogProofs.**  `DurabilityInv` strengthens `TypeOK` and `AckedDurable`: the disk
is always a prefix of the file (`Extends`), a writer that has landed its line has both
pieces in the file, and all sequences are well typed; it is inductive because `Land`
only extends a file and `Extends` is transitive.  From it follow `TypeCorrect`,
`ReturnedEventsAreDurable` and `StableStorageIsAppendOnly`.  `NoSilentLoss` needs no
further invariant: a valid file that holds both pieces of an event has them on one
line, and the chain fixes that line's number.  `DamageIsPermanent`: a prefix of a valid
log that ends with a newline is valid (`EndedPrefixIsValid`), so damage to ended lines
on disk is damage of every later file.  With one writer and no torn line
(two assumptions of the theorem), `ChainInv` says that every line but the
last is an event linked to the one before it and that the writer's held event is the
one that comes next; it gives `OneWriterKeepsTheChain` and, step by step,
`OneWriterImplementsHistory`: `Write` is `Extend`, `Sync` is `Promise`,
`PowerFailure` is `Lose`, every other step stutters.  Induction over a sequence's length
is done through the least counterexample (`LeastNatural`).  `AcceptedHistoryGrows` is about
any number of writers and any fault: the log that `event-verify` accepted last was
readable and is still a beginning of the file (`AuditInv`), and of two readable logs of which one
is a beginning of the other the events are too (`EventsGrow`: the lines that hold an event are
counted by a one-to-one map, `Positions`).

**CoseProviderProofs.**  `IInv` says of every call at work: its job is well formed; once
bound, its key is the one its descriptor names (`JobOK`); every algorithm before the
current one has been verified with the right key and message (`PastOK`); a signer has
made one signature per algorithm (`MadeOK`); its directory holds exactly its message,
its bound key and the signature in question (`FilesOK`), and belongs to it alone
(`DirOK`).  `OthersKeep` is the non-interference lemma: a step of one call leaves this
true of every other.  `PassesMeansVerified` turns a passed check into one more right
algorithm; `EnvelopeComplete` and `AcceptedComplete` add them up.  The theorems are
`CallsImplementBaseline` (refinement of `HybridBaseline`, with key files replaced and
calls killed at will), `ScratchStaysPrivate`, `TypesStay` (with `Bounds` for the counters that
`IInv` does not need) and `ReleasedStaysMatching`: the files `openssl` is given for an envelope that a signer
has returned match, at every later time.  `ScratchStaysAccounted` holds under every fault and rests on an exact
account: the directories that exist are those of the calls at work and the `orphans`, and no
directory is both.

**SignatureBundleProofs.**  `IInv` is local to each call: its job, bound keys and position are
well formed (`LocalTypes`), a signer has one entry per algorithm before its position, made over
its own manifest and time, and a verifier has seen exactly the algorithms of the entries it has
checked, each with a signature that verifies (`LocalOK`); `OthersStay` carries it over the steps of other
calls.  The bundle brings its own entries, so the count and the repetition
check together have to give one entry per algorithm: `BundleTypesStay`,
`AcceptedStaysHybrid` and `ReleasedStaysHybrid` follow, whatever key files are replaced.  `KInv`
adds "until a key file is replaced, private and public files belong together and every call works with
the key the files hold, which is the one the manifest names once it is bound", which is what the refinement `BundleImplementsBaseline` needs.
`ReleasedStaysMatching` adds what a released bundle looks like to `verify_bundle` (every entry fits, in
the order of the baseline), so that of the ways to refuse one only those remain that the property names.

**ValidateCommandProofs, the manifest rules.**  Both validators count descriptors and refuse repeated
algorithms; that this leaves exactly one active descriptor per algorithm
(`AcceptedStaysHybrid`, for a baseline of any length without repetitions) is
`CountedIsComplete`: a one-to-one map between finite sets of one size is onto.  The
invariant is that lists stay lists and objects stay objects or arrays (`KindsOK`, from the
assumption on what a publisher may write).  From it `RustAloneStaysHere` and
`PythonAloneStaysHere` prove the first table above complete, rule by rule, for every combination
of the classes of values the model has, and not only for those with up to three changes (Python alone: no capability
that may be required is a number); they say nothing of values that no class stands for.  Also
`ShapeStaysWeaker`: the TypeScript check refuses nothing that Rust accepts, but for the arrays, for a baseline of
two algorithms, since two is what it counts.  `CanonicalFormsStayAgreed` and
`ProductionStaysSignable` need no invariant.

**CborCodecProofs.**  `EncodingStaysUnique` and `DecodersStayAgreed` hold for any set of heads, texts and
limits, and inputs of any length.  What is read is a sequence, and what is kept of it a stack of
sequences of sequences, so the first part is about the operators: `Induction` over the naturals, again by
the least counterexample, shows that `FlattenSeq` and `Size`, both recursive functions, are
additive (`FlattenAppend`, `SizeAppend`); `Less` is a strict order of the keys (`LessOrders`), and
`Insert` appends an entry whose key comes last (`InsertLast`).  A lemma per check list says what it
finds and in which order (`RustValueIs`, `RustKeyIs`, `PythonItemIs`, ...).

Nothing of what the two properties say holds before the end of the input, so the invariant `CInv`
says what leads there.  While the input is open (`Reading`), a map with its entry
half read lacks its value, an open item is one that the array or map below it still lacks
(`Nested`), and none of them is a key as long as one decoder sees nothing wrong (`NoneIsKey`); the
offset is the size of the heads (`Size`).  As long as Python reads, the input *is* the deterministic
encoding of what has been kept, frame by frame, and in every open map the keys so far come before the last
one (`PythonInOrder`): this is why comparing neighbours is enough, and why Python need not encode the
document again.  The encoder has nothing against what Rust still reads, and stops with it but for a key out
of place (`EncoderFollows`).  On heads in short form and within both limits (`Uniform`), the
decoders say the same so far, or differ in one of the ways that `DecodersAgree` allows: that Python counts a key as
nested and Rust does not is one of them (`SayTheSame`).  `ReadHeadKeeps` has one lemma per part of the
invariant, `CloseKeeps` carries it over the end of an array or map (`FrontInOrder`, `DeliverInOrder`), and at
`End` the parts add up: an accepted input is complete and the pieces of a complete
stack are its `Value` (`CompleteInOrder`), so `EndIsUnique` and `EndAgrees` follow.  TLC
has checked `CInv` on the instance of `conformance`.

**CoseEnvelopeProofs.**  A verifier is a chain of `When`s, so that it accepts exactly when each of them finds
nothing (`Joined`, `FirstOfNone`); a lemma per function says what that is (`BodyHeadersMean`, `SignatureMeans`,
`ParseMeans`, `HeadersMean`, `PythonMeans`, ...).  The invariant is the type of an envelope (`EnvelopeOK`).  That
Rust accepts the right envelope only is then a matter of items that are neither unreadable nor long
(`RustPartsRight`); for Python the point is the header map: labels that ascend and are found under their
names are two pairs in their order (`TwoHeaders`), unless one of them is `true`, which is what
`Mend` undoes (`PythonRight`).  `OneEnvelopeStaysRight` holds for any number of changes of any
parts, where the run makes two.

**ValidateCommandProofs, the command.**  For the command line, the invariant says that the words consumed end where parsing stands (an
option whose value is awaited is the last word), and that the format parsed is json exactly when
the two words `--output-format json` stand side by side among them.  Since no option is a value of
another, the hint over all words cannot see less than the parser (`OutputStaysAsHinted`).
`VerdictsAlwaysCarryOver` puts the command together with the Python reference: an envelope
is accepted, by either, only around a manifest that is accepted and has keys, what each CBOR decoder accepts is compared
rule by rule, and the differences of the envelopes are those of `CoseEnvelopeProofs` (`PythonRight`).

**QuorumProofs.**  For the witnesses, `WInv`: whoever is counted by a client has signed what the client was shown,
an honest witness never signs two incompatible checkpoints, and a client that holds a checkpoint for valid
has a quorum for it.  `QuorumsMeet` counts: two subsets of the allowed witnesses whose sizes
exceed the whole together with the dishonest ones share an honest member, who
would have signed both (`SplitViewsStayExcluded`).  For the recovery: every approval
with both signatures is by someone who consents, and everyone who consents has one; the approved guardians are
then exactly the guardians who consent (`ApprovedConsented`), and as a part of a finite set no more than there are, so that the
check of the policy cannot stand in the way (`AuthorizedStaysByConsent`).

**SafePublishProofs.**  `RunOK` says of each run: it is silent until it ends (`Begun`); nobody has
pushed the branch it has not pushed yet (`Fresh`); past a wait, CI has passed on that branch for
`$LocalHead`, past the deletion the branch is gone (`Seen`); the listed commits belong to
`$LocalHead`, or HEAD is elsewhere, or it has moved twice (`Audited`); a PASS is true (`Published`);
and the flags tell what was done (`FlagsRight`, only as long as every push is answered).
`Grows` is what no step takes back: main moves forward, a passed CI run stays passed.  From it
`OthersKeep` carries `RunOK` over every step of another clone, of GitHub and of its administrators.
`TypesStay`, `PassStaysPublished` and `MainAdvancesTestedAlways` hold under every fault;
`LeftBranchStaysAnnounced` and `UntouchedStaysUntouched` assume that no reply to a push is lost,
which `publish_lost_reply` shows to be necessary.

Every safety property that a passing run checks, and every action property, is stated by a theorem of the module's
specification (`ChainIntact`, `ImplementsHistory`, `LeftBranchAnnounced` and `UntouchedMeansUntouched`
under the assumptions on the faults that their runs make too).
Left to TLC are the liveness properties, `EveryCallReturns` of the two signers and `EveryRunEnds`, which need
fairness: the provers cannot reason about `ENABLED`.

## 5. Not modelled, and why

- *Merkle root* (`eventlog.py` 79-93): a fold over the layers of a log's hashes that nothing in the
  repository compares with another root.  A layer of odd length repeats its last hash, so a log and the
  log with its last event repeated have one root; only the chain rules refuse the second.
- *Key generation and binding, the Python command line*: one process that writes one file after
  another and has no way back.  What a failure leaves behind is listed under the hazards of
  `PROJECT.json`; the code promises nothing about it that could be checked.
- *The WebAssembly binding*: two exports without state that call the functions modelled in
  `ManifestPolicy`; a property of them would repeat one of the command's.
- *URL policy*: a predicate on one URL that nothing calls.
- *How canonical JSON writes texts and orders members*: library code (`serde_jcs`, `json.dumps`).
- *Repository tools, sketches in `src/formal`, schemas and vectors*: no running state.
- *Cryptography*: signatures and hashes are perfect here.  The CLI's fixture signature is a yes or no.
