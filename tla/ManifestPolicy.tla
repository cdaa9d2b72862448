--------------------------- MODULE ManifestPolicy ---------------------------
(***************************************************************************)
(* The rules a manifest must satisfy, as each implementation checks them:  *)
(*                                                                         *)
(*   Python      load_json, validate_manifest and canonicalize             *)
(*   Rust        serde_json with deny_unknown_fields, Manifest::validate   *)
(*   TypeScript  validateManifestShape                                     *)
(*                                                                         *)
(* and the two decoders of the CBOR form.  A manifest is a record of what  *)
(* its members say, each a class of values that some rule tells apart.  A  *)
(* publisher writes a good manifest and then changes one member after      *)
(* another; every validator reads every version.                           *)
(***************************************************************************)
EXTENDS Naturals, Sequences, FiniteSets

CONSTANTS
    BASELINE,       \* the algorithms of the mandatory baseline, in order
    KNOWN,          \* the capabilities that may be required
    Good,           \* manifests a publisher starts from
    Values,         \* for each member, the values it may be changed to
    MaxEdits        \* bound on the changes (for TLC)

Algorithms == {BASELINE[i] : i \in 1..Len(BASELINE)}

Descriptor == [algorithm : STRING, defect : STRING]

\* A file the manifest lists, each member as a class of values.
Artifact == [uri : STRING, media_type : STRING, sha512 : STRING]

\* Members whose values are not texts alone: lists, which object is written as an
\* array, and the size of the CBOR form (medium is over Python's limit, large over both).
Kinds ==
    [keys      |-> Seq(Descriptor),
     artifacts |-> Seq(Artifact),
     form      |-> {"object", "array", "operator array", "policy array",
                    "capabilities array", "descriptor array", "artifact array"},
     bulk      |-> {"small", "medium", "large"}]

ASSUME BaselineAssumption ==
    /\ BASELINE \in Seq(STRING) /\ BASELINE # <<>>
    /\ \A i, j \in 1..Len(BASELINE) : BASELINE[i] = BASELINE[j] => i = j
\* "number" stands for a JSON number, where a text belongs.
ASSUME KnownAssumption == "number" \notin KNOWN
ASSUME KindsAssumption ==
    \A f \in DOMAIN Kinds :
        /\ \A m \in Good : f \in DOMAIN m /\ m[f] \in Kinds[f]
        /\ f \in DOMAIN Values => \A v \in Values[f] : v \in Kinds[f]

VARIABLES
    manifest,       \* what the publisher has written
    edits           \* how often it was changed

vars == <<manifest, edits>>

Init == manifest \in Good /\ edits = 0

Edit ==
    /\ edits < MaxEdits
    /\ edits' = edits + 1
    /\ \E member \in DOMAIN Values : \E v \in Values[member] :
          manifest' = [manifest EXCEPT ![member] = v]

Next == Edit

Spec == Init /\ [][Next]_vars

-----------------------------------------------------------------------------
(* What the validators have in common *)

Distinct(s) == \A i, j \in 1..Len(s) : s[i] = s[j] => i = j
Members(s)  == {s[i] : i \in 1..Len(s)}

\* A descriptor whose key_id, URI, digest, status and usage are right.
Active(d) == d.algorithm \in Algorithms /\ d.defect = "none"

\* The same to Rust, whose trim keeps U+001C to U+001F, which strip takes for blanks.
RustActive(d) == d.algorithm \in Algorithms /\ d.defect \in {"none", "separators"}

-----------------------------------------------------------------------------
(* Python *)

\* No array stands where an object has to, if there is one in its place at all.
PythonForm(m) ==
    \/ m.form = "object"
    \/ m.form = "descriptor array" /\ m.keys = <<>>
    \/ m.form = "artifact array" /\ m.artifacts = <<>>

\* The members are there, and no others: validate_manifest and the checks of the
\* nested objects.  json.load keeps the last of two members of one name.
PythonFields(m) == PythonForm(m) /\ m.missing = "none" /\ m.unknown = "none"

\* urlparse finds an https origin.  It takes an empty query, fragment or parameter for
\* none, reads neither port nor host, and does not repair what the url crate does.
PythonSubject(m) ==
    m.subject \in {"origin", "origin/", "empty query", "empty fragment", "empty params",
                   "bad port", "invalid host"}

\* Mutant of PythonKeys: the environment is not looked at.
PythonKeysUnbound(m, unbound) ==
    \/ m.keys = <<>> /\ unbound
    \/ /\ Len(m.keys) = Len(BASELINE)
       /\ \A i \in 1..Len(m.keys) : Active(m.keys[i])
       /\ Distinct([i \in 1..Len(m.keys) |-> m.keys[i].algorithm])

\* validate_key_descriptors, with allow_unbound_development.
PythonKeys(m, unbound) ==
    \/ m.keys = <<>> /\ unbound /\ m.environment = "development"
    \/ /\ Len(m.keys) = Len(BASELINE)
       /\ \A i \in 1..Len(m.keys) : Active(m.keys[i])
       /\ Distinct([i \in 1..Len(m.keys) |-> m.keys[i].algorithm])

\* tuple() of an object is the sequence of its member names.
PythonPolicy(m) == m.policy_id = "baseline" /\ m.algorithms = BASELINE

\* Mutant of PythonCapabilities: one name may be required and optional.
PythonCapabilitiesOverlap(m) ==
    /\ Distinct(m.required) /\ Distinct(m.optional)
    /\ Members(m.required) \subseteq KNOWN

PythonCapabilities(m) ==
    /\ Distinct(m.required) /\ Distinct(m.optional)
    /\ Members(m.required) \cap Members(m.optional) = {}
    /\ Members(m.required) \subseteq KNOWN

PythonTimes(m) == m.updated_at = "valid" /\ m.expires_at \in {"absent", "later"}

\* str() makes text of a name that is none; isupper() wants no letter in every place.
PythonOperator(m) ==
    /\ m.name \in {"text", "number"}
    /\ m.jurisdiction \in {"absent", "null", "SK", "A1"}

PythonArtifacts(m) ==
    \A i \in 1..Len(m.artifacts) :
        /\ m.artifacts[i].uri \in {"absolute", "relative"}
        /\ m.artifacts[i].media_type \in {"text", "blank"}
        /\ m.artifacts[i].sha512 = "right"

\* validate_manifest(manifest, allow_nonproduction, allow_unbound_development).
PythonValidates(m, nonproduction, unbound) ==
    /\ PythonFields(m)
    /\ m.tfws_version = "3.0"
    /\ PythonSubject(m)
    /\ m.environment \in {"development", "staging", "production"}
    /\ nonproduction \/ m.environment = "production"
    /\ m.key_epoch \in {"one", "largest"}
    /\ PythonPolicy(m) /\ PythonKeys(m, unbound) /\ PythonCapabilities(m)
    /\ PythonTimes(m) /\ PythonOperator(m) /\ PythonArtifacts(m)

\* load_json raises on any float, canonicalize on an integer out of range.
PythonNumbers(m) == m.identity \notin {"float", "out of range"}

\* The manifest that is read, validated and put in canonical form; production is the
\* gate of the verify command.
PythonAccepts(m, production) ==
    PythonValidates(m, ~production, TRUE) /\ PythonNumbers(m)

\* What payload_hash, and with it sign_manifest and verify_bundle, ask of a manifest.
PythonSigns(m) == PythonValidates(m, TRUE, FALSE) /\ PythonNumbers(m)

\* decode_manifest_cbor: the data model has no null, no float and no repeated name, and
\* there are limits on bytes and nesting.
PythonDecodes(m) ==
    /\ m.bulk = "small" /\ m.identity \notin {"null", "nested", "deep"}
    /\ m.jurisdiction # "null" /\ m.expires_at # "null" /\ ~m.repeated
    /\ PythonNumbers(m) /\ PythonValidates(m, TRUE, TRUE)

-----------------------------------------------------------------------------
(* Rust *)

\* Any object may be written as the array of its members in the order of the struct
\* (visit_seq of the derived Deserialize); a member in the array cannot be left out.
RustForm(m) ==
    /\ m.form = "array" => m.identity # "absent" /\ m.expires_at # "absent"
    /\ m.form = "operator array" => m.jurisdiction # "absent"

\* serde: the members that are no Option, no others, none twice, all of their type.
RustFields(m) ==
    /\ RustForm(m)
    /\ m.missing = "none" /\ m.unknown = "none" /\ ~m.repeated
    /\ m.name # "number" /\ ~m.object
    /\ \A c \in Members(m.required) \cup Members(m.optional) : c # "number"

\* The url crate finds an https origin: it supplies slashes and drops blanks ("no
\* slashes"), removes dot segments, and tells an empty query or fragment from none.
RustSubject(m) == m.subject \in {"origin", "origin/", "no slashes", "dot path"}

\* Mutant of RustKeys: algorithms are not remembered in `seen'.
RustKeysRepeated(m) ==
    IF m.keys = <<>> THEN m.environment = "development"
    ELSE /\ Len(m.keys) = Len(BASELINE)
         /\ \A i \in 1..Len(m.keys) : RustActive(m.keys[i])

RustKeys(m) ==
    IF m.keys = <<>> THEN m.environment = "development"
    ELSE /\ Len(m.keys) = Len(BASELINE)
         /\ \A i \in 1..Len(m.keys) : RustActive(m.keys[i])
         /\ Distinct([i \in 1..Len(m.keys) |-> m.keys[i].algorithm])

\* Mutant of RustCapabilities: one name may be required and optional.
RustCapabilitiesOverlap(m) ==
    /\ Distinct(m.required) /\ Distinct(m.optional)
    /\ Members(m.required) \subseteq KNOWN

RustCapabilities(m) ==
    /\ Distinct(m.required) /\ Distinct(m.optional)
    /\ Members(m.required) \cap Members(m.optional) = {}
    /\ Members(m.required) \subseteq KNOWN

RustOperator(m) ==
    /\ m.name \in {"text", "separators"}
    /\ m.jurisdiction \in {"absent", "null", "SK"}

RustArtifacts(m) ==
    \A i \in 1..Len(m.artifacts) :
        m.artifacts[i] = [uri |-> "absolute", media_type |-> "text", sha512 |-> "right"]

\* The struct and Manifest::validate: no rule is about the two timestamps.
RustValidates(m) ==
    /\ RustFields(m)
    /\ m.tfws_version = "3.0"
    /\ RustSubject(m)
    /\ m.environment \in {"development", "staging", "production"}
    /\ m.key_epoch \in {"one", "largest"}
    /\ m.policy_id = "baseline" /\ m.algorithms = BASELINE
    /\ RustKeys(m) /\ RustCapabilities(m) /\ RustOperator(m) /\ RustArtifacts(m)
    /\ m.identity \notin {"float", "out of range"}

\* serde_json::from_slice: at most 128 levels, and -0 is a float.
RustAccepts(m) == RustValidates(m) /\ m.identity \notin {"deep", "minus zero"}

\* Mutant of RustDecodes: null is read as an absent Option.
RustDecodesNull(m) ==
    /\ m.bulk # "large" /\ m.identity \notin {"text", "nested", "deep", "wide"}
    /\ RustValidates(m)

\* decode_manifest_cbor: limits on bytes, nesting and the pairs of a map, no null, and
\* an identity is an object.
RustDecodes(m) ==
    /\ m.bulk # "large" /\ m.identity \notin {"null", "text", "nested", "deep", "wide"}
    /\ m.jurisdiction # "null" /\ m.expires_at # "null"
    /\ RustValidates(m)

-----------------------------------------------------------------------------
(* TypeScript *)

\* Neither the manifest nor an object that it reads a member of is an array.
ScriptForm(m) == m.form \notin {"array", "policy array", "capabilities array"}

\* new URL is the same standard as the url crate; search and hash are "" for empty ones.
ScriptSubject(m) == RustSubject(m) \/ m.subject \in {"empty query", "empty fragment"}

\* Mutant of ScriptAccepts: two keys in every environment.
ScriptAcceptsBound(m) ==
    /\ m.missing \notin {"tfws_version", "subject", "signature_policy", "capabilities", "keys"}
    /\ ScriptForm(m) /\ m.tfws_version = "3.0" /\ ScriptSubject(m)
    /\ ~m.object /\ m.algorithms = BASELINE
    /\ Members(m.required) \subseteq KNOWN
    /\ Len(m.keys) = 2

\* validateManifestShape.
ScriptAccepts(m) ==
    /\ m.missing \notin {"tfws_version", "subject", "signature_policy", "capabilities", "keys"}
    /\ ScriptForm(m) /\ m.tfws_version = "3.0" /\ ScriptSubject(m)
    /\ ~m.object /\ m.algorithms = BASELINE
    /\ Members(m.required) \subseteq KNOWN
    /\ m.environment # "development" => Len(m.keys) = 2

-----------------------------------------------------------------------------
(* The optional members in the canonical form, which the signature covers *)

Optional == {"identity", "jurisdiction", "expires_at"}

\* canonicalize writes what was read.
PythonCanonical(m) == [f \in {o \in Optional : m[o] # "absent"} |-> m[f]]

\* Mutant of RustCanonical: Options that are None are skipped.
RustCanonicalSkipping(m) ==
    [f \in {o \in Optional : m[o] \notin {"absent", "null"}} |-> m[f]]

\* serde_jcs writes every Option, and null for one that is None.
RustCanonical(m) ==
    [f \in Optional |-> IF m[f] = "absent" THEN "null" ELSE m[f]]

-----------------------------------------------------------------------------
(* Properties *)

DescriptorsFor(m, a) ==
    {i \in 1..Len(m.keys) :
        m.keys[i].algorithm = a /\ m.keys[i].defect \in {"none", "separators"}}

\* spec/TFWS-3.0.md, Public-key binding: what either implementation accepts for
\* staging or production has exactly one active descriptor per baseline algorithm.
\* Both only count the descriptors and look for repetitions.
AcceptedIsHybrid ==
    PythonAccepts(manifest, FALSE) \/ RustAccepts(manifest) =>
        \/ manifest.environment = "development" /\ manifest.keys = <<>>
        \/ \A a \in Algorithms : Cardinality(DescriptorsFor(manifest, a)) = 1

\* What passes the production gate of the verify command can be signed: the gate
\* leaves no way to an unbound manifest.
ProductionIsSignable == PythonAccepts(manifest, TRUE) => PythonSigns(manifest)

\* What Rust alone accepts: what it does not check or trim, its URL parser repairs, or
\* serde takes in place of an object, against "type": "object" in the manifest's schema.
RustAlone(m) ==
    \/ m.form # "object"
    \/ m.subject \in {"no slashes", "dot path"}
    \/ m.updated_at # "valid"
    \/ m.expires_at \notin {"absent", "later"}
    \/ m.name = "separators"
    \/ \E i \in 1..Len(m.keys) : m.keys[i].defect = "separators"

\* What Python alone accepts: values that are not of their type, weaker texts, and JSON
\* that serde_json does not read.
PythonAlone(m) ==
    \/ m.subject \in {"empty query", "empty fragment", "empty params", "bad port",
                      "invalid host"}
    \/ m.object \/ m.repeated
    \/ "number" \in {m.name} \cup Members(m.optional)
    \/ m.jurisdiction = "A1"
    \/ m.identity \in {"deep", "minus zero"}
    \/ \E i \in 1..Len(m.artifacts) :
          "relative" = m.artifacts[i].uri \/ "blank" = m.artifacts[i].media_type

\* Among the values that the members of a manifest are told apart by, the JSON validators
\* of the two implementations differ where the table in README.md says.
RustAloneOnlyHere ==
    RustAccepts(manifest) /\ ~PythonAccepts(manifest, FALSE) => RustAlone(manifest)

\* The other way round.
PythonAloneOnlyHere ==
    PythonAccepts(manifest, FALSE) /\ ~RustAccepts(manifest) => PythonAlone(manifest)

\* The shape check of the TypeScript SDK refuses nothing that Rust accepts, unless an
\* array stands in the place of the manifest, its policy or its capabilities.
ShapeIsWeaker ==
    /\ RustAccepts(manifest)
    /\ manifest.form \notin {"array", "policy array", "capabilities array"}
    => ScriptAccepts(manifest)

\* Signatures carry over between the implementations -- both sign the canonical form
\* of a manifest both accept -- as far as the optional members go, exactly for manifests
\* that write every one.  (Order and escapes are those of RFC 8785 in both.)
CanonicalFormsAgree ==
    PythonAccepts(manifest, FALSE) /\ RustAccepts(manifest) =>
        (RustCanonical(manifest) = PythonCanonical(manifest)
            <=> \A f \in Optional : manifest[f] # "absent")

=============================================================================
