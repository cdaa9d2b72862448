-------------------------- MODULE ValidateCommand --------------------------
(***************************************************************************)
(* `tfws-cli validate' (main.rs) from its arguments to its exit code: the  *)
(* command line, the rules of a manifest, its deterministic CBOR form and  *)
(* the COSE envelope around it, put together as main and validate_bytes    *)
(* do, with what the Python reference says of the same file.               *)
(*                                                                         *)
(* After the arguments a file is read.  It is a manifest as JSON or as     *)
(* deterministic CBOR, or an envelope of that CBOR; what it says is chosen *)
(* in steps, as in the modules of its parts, and the exit code is a        *)
(* function of what has been chosen so far.                                *)
(***************************************************************************)
EXTENDS ManifestPolicy, CoseEnvelope, CommandLine

CONSTANTS
    MaxTogether     \* bound on the changes of a CBOR manifest and its envelope (for TLC)

VARIABLES
    file            \* "unread", "missing", or what is in the file

vvars == <<avars, file, vars, evars>>

VInit == AInit /\ file = "unread" /\ Init /\ EInit

-----------------------------------------------------------------------------
(* What each decoder makes of each file *)

\* serde_json::from_slice and Manifest::validate: which of their errors it is.
JsonCode(m) ==
    FirstError(
        When(~RustFields(m)
             \/ "absent" \in {m.name, m.policy_id} \/ m.identity = "deep"
             \/ m.key_epoch \in {"float", "true"}, "invalid_json")
        \o When(~RustAccepts(m), "manifest_policy_invalid"), "accepted")

\* decode_manifest_cbor of the deterministic encoding of m.  (Of several errors the code
\* reports the one that comes first in the bytes.)
CborCode(m) ==
    IF RustDecodes(m) THEN "accepted"
    ELSE FirstError(
        When(m.bulk = "large" \/ m.identity \in {"nested", "deep", "wide"}, "resource_limit")
        \o When(\/ m.identity \in {"null", "float", "out of range"}
                \/ m.key_epoch \in {"float", "too large"}
                \/ "null" \in {m.jurisdiction, m.expires_at}, "unsupported_cbor_type")
        \o When(m.repeated, "non_deterministic_cbor"), "manifest_policy_invalid")

\* What decode_manifest_cbor of the Python reference says of it, as far as it matters.
PythonCode(m) == IF PythonDecodes(m) THEN "accepted" ELSE "manifest_policy_invalid"

Larger(a, b) == IF a = "small" \/ b = "large" THEN b ELSE a

\* The envelope with the manifest in it, which a decoder judges by code.
Enclosing(code) ==
    [envelope EXCEPT !.manifest = code, !.size = Larger(@, manifest.bulk),
                     !.keys = IF manifest.keys = <<>> THEN "unbound" ELSE @]

\* An opening bracket is the head of a byte string, an opening brace that of a text
\* longer than any file; an envelope opens with a tag.  (White space before the brace is
\* a number, which is no manifest either; the code that is given may be another one.)
CborOf(kind) ==
    CASE kind = "json"   -> IF manifest.form = "array" THEN "unsupported_cbor_type"
                            ELSE "malformed_cbor"
      [] kind = "cbor"   -> CborCode(manifest)
      [] kind = "cose"   -> IF envelope.size = "large" THEN "resource_limit"
                            ELSE "unsupported_cbor_type"

\* validate_bytes: the decoder of the selected format, whatever the bytes look like.
Code(format, kind) ==
    CASE format = "json" -> IF kind = "json" THEN JsonCode(manifest) ELSE "invalid_json"
      [] format = "cbor" -> CborOf(kind)
      [] format = "cose" ->
            IF kind = "cose" THEN RustVerifies(Enclosing(CborCode(manifest)))
            ELSE "invalid_cose_structure"

\* What main returns, once it can.
ExitCode ==
    IF verdict # "accepted" THEN 2
    ELSE IF file = "missing" \/ Code(input_format, file) # "accepted" THEN 1
    ELSE 0

\* What the Python reference says of the file.
PythonSays(kind) ==
    CASE kind = "json" -> PythonAccepts(manifest, FALSE)
      [] kind = "cbor" -> PythonDecodes(manifest)
      [] kind = "cose" -> PythonVerifies(Enclosing(PythonCode(manifest))) = "accepted"

-----------------------------------------------------------------------------
(* Steps *)

Arguments == ANext /\ UNCHANGED <<file, vars, evars>>

\* fs::read: there may be no file, or one of another format.
ReadFile ==
    /\ verdict = "accepted" /\ file = "unread"
    /\ file' \in INPUTS \cup {"missing"}
    /\ UNCHANGED <<avars, vars, evars>>

\* What a file says matters to the decoder of its own format only.
ManifestSays ==
    /\ file = input_format
    /\ file \in {"cbor", "cose"} => edits + changes < MaxTogether
    /\ Edit /\ UNCHANGED <<avars, file, evars>>

EnvelopeSays ==
    /\ file = input_format /\ file = "cose" /\ edits + changes < MaxTogether
    /\ Change /\ UNCHANGED <<avars, file, vars>>

VNext == Arguments \/ ReadFile \/ ManifestSays \/ EnvelopeSays

VSpec == VInit /\ [][VNext]_vvars

-----------------------------------------------------------------------------
(* Properties *)

\* spec/CBOR-COSE.md section 12: both implementations come to the same result.  What
\* ends with exit code 0 is accepted by the Python reference and the other way round, for
\* a manifest in CBOR and for an envelope around it, beyond the differences in the JSON
\* form only between the two byte limits, for an identity that is no object or has too
\* many members for Rust, and with the label true in place of 1.
VerdictsCarryOver ==
    file = input_format /\ file \in {"cbor", "cose"} =>
        /\ ExitCode = 0 /\ ~PythonSays(file) =>
              \/ RustAlone(manifest) \/ manifest.bulk = "medium"
              \/ file = "cose" /\ envelope.size = "medium"
        /\ PythonSays(file) /\ ExitCode # 0 =>
              \/ PythonAlone(manifest) \/ manifest.identity \in {"text", "wide"}
              \/ file = "cose" /\ \E i \in 1..2 : SaysTrue(envelope.signature[i], i)

=============================================================================
