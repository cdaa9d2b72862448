---------------------------- MODULE CoseEnvelope ----------------------------
(***************************************************************************)
(* The COSE_Sign envelope: parse_envelope and verify_manifest_cose of      *)
(* tfws-core (cose.rs) with the fixture verifier of tfws-cli, and          *)
(* verify_manifest_cose_conformance of the Python reference (crypto.py).   *)
(*                                                                         *)
(* An envelope is written right and then changed in one place after        *)
(* another.  Rust reads it from left to right and stops at the first thing *)
(* that is not what it expects; Python decodes all of it as CBOR and then  *)
(* looks at the parts in an order of its own.                              *)
(***************************************************************************)
EXTENDS Checks

CONSTANTS
    Parts,          \* for each part of an envelope, what it may be changed to
    SignatureParts, \* the same for a signature
    MaxChanges      \* bound on the changes (for TLC)

Algorithm == <<"-19", "-49">>       \* of REQUIRED_SIGNATURES
ContentType == "application/tfws+cbor"
CoseType == "application/cose"          \* with its parameter cose-type
Kid == "release-1"
TRUE_BYTE == 245                    \* the CBOR encoding of true

\* CoseEnvelopeError::category, with those of the CBOR in the envelope.
Codes == {"malformed_cbor", "non_deterministic_cbor", "unsupported_cbor_type",
          "resource_limit", "invalid_cose_structure", "unsupported_header",
          "invalid_content_type", "invalid_type", "invalid_algorithm", "invalid_kid",
          "hybrid_baseline_incomplete", "key_binding_mismatch", "signature_invalid",
          "manifest_policy_invalid"}

\* What may stand in the place of an array, a map or a byte string, or of a header's value.
Classes == {"right", "long", "indefinite", "cut", "another type", "another count",
            "not empty", "null", "float"}
HeaderValues == {Algorithm[1], Algorithm[2], ContentType, CoseType, Kid,
                 "another", "another type", "empty", "any"}
HeaderMaps ==
    [shape : Classes, pairs : Seq(Nat \X HeaderValues), after : {"nothing", "trailing"}]

PartKinds ==
    [size |-> {"small", "medium", "large"},
     tag |-> {"right", "long", "another tag", "untagged"},
     outer |-> Classes, protected |-> Classes, headers |-> HeaderMaps,
     unprotected |-> Classes, payload |-> Classes, signatures |-> Classes,
     after |-> {"nothing", "trailing"}, keys |-> {"bound", "another digest", "unbound"}]
SignatureKinds ==
    [entry |-> Classes, protected |-> Classes, headers |-> HeaderMaps,
     unprotected |-> Classes, bytes |-> Classes \cup {"another size"},
     verifies |-> BOOLEAN]

ASSUME PartsAssumption ==
    /\ \A part \in DOMAIN Parts :
          part \in DOMAIN PartKinds /\ \A v \in Parts[part] : v \in PartKinds[part]
    /\ \A part \in DOMAIN SignatureParts :
          /\ part \in DOMAIN SignatureKinds
          /\ \A v \in SignatureParts[part] : v \in SignatureKinds[part]

VARIABLES
    envelope,       \* what the verifiers are given
    changes         \* how often it was changed

evars == <<envelope, changes>>

\* A header map is a sequence of <<label, value>>; a label is its encoding, one byte.
HeaderMap(pairs) == [shape |-> "right", pairs |-> pairs, after |-> "nothing"]

Right ==
    [size |-> "small", tag |-> "right", outer |-> "right", protected |-> "right",
     headers |-> HeaderMap(<< <<3, ContentType>>, <<16, CoseType>> >>),
     unprotected |-> "right", payload |-> "right", signatures |-> "right",
     signature |-> [i \in 1..2 |->
        [entry |-> "right", protected |-> "right",
         headers |-> HeaderMap(<< <<1, Algorithm[i]>>, <<4, Kid>> >>),
         unprotected |-> "right", bytes |-> "right", verifies |-> TRUE]],
     after |-> "nothing", manifest |-> "accepted", keys |-> "bound"]

EInit == envelope = Right /\ changes = 0

Change ==
    /\ changes < MaxChanges /\ changes' = changes + 1
    /\ \/ \E part \in DOMAIN Parts : \E v \in Parts[part] :
             envelope' = [envelope EXCEPT ![part] = v]
       \/ \E i \in 1..2, part \in DOMAIN SignatureParts : \E v \in SignatureParts[part] :
             envelope' = [envelope EXCEPT !.signature[i][part] = v]

ESpec == EInit /\ [][Change]_evars

-----------------------------------------------------------------------------
(* Rust *)

\* expect_array, expect_empty_map, read_map_length, read_bytes: what stands where an
\* array, a map or a byte string of a certain size has to be.
RustItem(c) ==
    When(c = "indefinite", "non_deterministic_cbor")
    \o When(c = "cut", "malformed_cbor")
    \o When(c = "not empty", "unsupported_header")
    \o When(c \in {"another type", "null", "float", "another count"},
            "invalid_cose_structure")

Pair(m, i) == IF i <= Len(m.pairs) THEN m.pairs[i] ELSE <<0, "none">>

\* read_text and read_bytes of a header's value.
RustHeaderValue(v) == When(v = "another type", "invalid_cose_structure")

RustHeaderEnd(m) ==
    When(m.after # "nothing", "malformed_cbor")
    \o When(m.shape = "long", "non_deterministic_cbor")

\* validate_body_protected.
RustBodyHeaders(m) ==
    RustItem(m.shape)
    \o When(Len(m.pairs) # 2 \/ Pair(m, 1)[1] # 3, "unsupported_header")
    \o RustHeaderValue(Pair(m, 1)[2])
    \o When(Pair(m, 1)[2] # ContentType, "invalid_content_type")
    \o When(Pair(m, 2)[1] # 16, "unsupported_header")
    \o RustHeaderValue(Pair(m, 2)[2])
    \o When(Pair(m, 2)[2] # CoseType, "invalid_type")
    \o RustHeaderEnd(m)

\* validate_signature_protected.
RustSignatureHeaders(m, algorithm) ==
    RustItem(m.shape)
    \o When(Len(m.pairs) # 2 \/ Pair(m, 1)[1] # 1, "unsupported_header")
    \o When(Pair(m, 1)[2] # algorithm, "invalid_algorithm")
    \o When(Pair(m, 2)[1] # 4, "unsupported_header")
    \o RustHeaderValue(Pair(m, 2)[2])
    \o When(Pair(m, 2)[2] = "empty", "invalid_kid")
    \o RustHeaderEnd(m)

\* parse_signature.
RustSignature(s, algorithm) ==
    RustItem(s.entry) \o RustItem(s.protected)
    \o RustSignatureHeaders(s.headers, algorithm)
    \o RustItem(s.unprotected) \o RustItem(s.bytes)
    \o When(s.bytes = "another size", "signature_invalid")

\* The items of an envelope whose head encode_envelope writes as short as it can.
SignatureItems(s) == {s.entry, s.protected, s.unprotected, s.bytes}
Items(e) ==
    {e.tag, e.outer, e.protected, e.unprotected, e.payload, e.signatures}
      \cup SignatureItems(e.signature[1]) \cup SignatureItems(e.signature[2])

\* parse_envelope.  What encode_envelope would write differs in arguments that are long.
RustParse(e) ==
    When(e.size = "large", "resource_limit")
    \o When(e.tag # "right", "invalid_cose_structure")
    \o RustItem(e.outer) \o RustItem(e.protected) \o RustBodyHeaders(e.headers)
    \o RustItem(e.unprotected) \o RustItem(e.payload) \o RustItem(e.signatures)
    \o RustSignature(e.signature[1], Algorithm[1])
    \o RustSignature(e.signature[2], Algorithm[2])
    \o When(e.after # "nothing", "malformed_cbor")
    \o When("long" \in Items(e), "non_deterministic_cbor")

\* descriptor_for, the key_id and the verifier's answer; keys says what the manifest has.
RustBinding(e, s) ==
    When(e.keys = "unbound", "hybrid_baseline_incomplete")
    \o When(Pair(s.headers, 2)[2] # Kid, "invalid_kid")
    \o When(e.keys # "bound", "key_binding_mismatch")
    \o When(~s.verifies, "signature_invalid")

\* verify_manifest_cose_with_limits with ConformanceFixtureVerifier.
RustVerifies(e) ==
    FirstError(RustParse(e) \o When(e.manifest # "accepted", e.manifest)
                 \o RustBinding(e, e.signature[1]) \o RustBinding(e, e.signature[2]),
               "accepted")

-----------------------------------------------------------------------------
(* Python *)

\* _CborDecoder.item in the envelope, where it takes any type but floats.
PythonDecode(c) ==
    When(c \in {"indefinite", "long"}, "non_deterministic_cbor")
    \o When(c = "cut", "malformed_cbor")
    \o When(c = "float", "unsupported_cbor_type")

PythonItems(e) ==
    LET Entry(s) == PythonDecode(s.entry) \o PythonDecode(s.protected)
                    \o PythonDecode(s.unprotected) \o PythonDecode(s.bytes)
    IN  PythonDecode(e.tag) \o PythonDecode(e.outer) \o PythonDecode(e.protected)
        \o PythonDecode(e.unprotected) \o PythonDecode(e.payload)
        \o PythonDecode(e.signatures)
        \o Entry(e.signature[1]) \o Entry(e.signature[2])

\* A label as a Python dictionary key: True is 1 (and False is 0, which no rule names).
Label(byte) == IF byte = TRUE_BYTE THEN 1 ELSE byte
Labels(m)   == {Label(m.pairs[i][1]) : i \in 1..Len(m.pairs)}

\* `key in result': no two labels are one key, 1 and true included.
LabelsOnce(m) ==
    \A i, j \in 1..Len(m.pairs) : Label(m.pairs[i][1]) = Label(m.pairs[j][1]) => i = j

\* Mutant of PythonHeaders: the order of the encodings is trusted to tell labels apart.
PythonHeadersInOrder(c, m) ==
    When(c # "right", "invalid_cose_structure")
    \o PythonDecode(m.shape)
    \o When(\E i \in 2..Len(m.pairs) : m.pairs[i - 1][1] >= m.pairs[i][1],
            "non_deterministic_cbor")
    \o When(m.after # "nothing", "malformed_cbor")
    \o When(m.shape # "right", "invalid_cose_structure")

\* _decode_protected: a map whose labels are in order and not repeated.
PythonHeaders(c, m) ==
    When(c # "right", "invalid_cose_structure")
    \o PythonDecode(m.shape)
    \o When(\E i \in 2..Len(m.pairs) : m.pairs[i - 1][1] >= m.pairs[i][1],
            "non_deterministic_cbor")
    \o When(~LabelsOnce(m), "non_deterministic_cbor")
    \o When(m.after # "nothing", "malformed_cbor")
    \o When(m.shape # "right", "invalid_cose_structure")

\* headers.get(label).
Header(m, label) ==
    LET i == SelectLastInSeq(m.pairs, LAMBDA p : Label(p[1]) = label)
    IN  IF i = 0 THEN "none" ELSE m.pairs[i][2]

PythonSignature(s, algorithm) ==
    When(s.entry # "right", "invalid_cose_structure")
    \o When(s.unprotected # "right", "unsupported_header")
    \o PythonHeaders(s.protected, s.headers)
    \o When(~(Labels(s.headers) \subseteq {1, 4}), "unsupported_header")
    \o When(Header(s.headers, 1) # algorithm, "invalid_algorithm")
    \o When(Header(s.headers, 4) # Kid, "invalid_kid")
    \o When(s.bytes # "right", "signature_invalid")

\* verify_manifest_cose_conformance: the whole document is decoded first, and what is
\* bound to the manifest's keys comes before any signature.
PythonVerifies(e) ==
    FirstError(
        When(e.size # "small", "resource_limit")
        \o PythonItems(e)
        \o When(e.after # "nothing", "malformed_cbor")
        \o When(e.tag # "right" \/ e.outer # "right", "invalid_cose_structure")
        \o When(e.unprotected # "right", "unsupported_header")
        \o When(e.payload # "right", "invalid_cose_structure")
        \o PythonHeaders(e.protected, e.headers)
        \o When(~(Labels(e.headers) \subseteq {3, 16}), "unsupported_header")
        \o When(Header(e.headers, 3) # ContentType, "invalid_content_type")
        \o When(Header(e.headers, 16) # CoseType, "invalid_type")
        \o When(e.signatures # "right", "invalid_cose_structure")
        \o PythonSignature(e.signature[1], Algorithm[1])
        \o PythonSignature(e.signature[2], Algorithm[2])
        \o When(e.manifest # "accepted", e.manifest)
        \o When(e.keys # "bound", "key_binding_mismatch")
        \o When(\E i \in 1..2 : ~e.signature[i].verifies, "signature_invalid"),
        "accepted")

-----------------------------------------------------------------------------
(* Properties *)

RightIsAccepted ==
    RustVerifies(Right) = "accepted" /\ PythonVerifies(Right) = "accepted"

\* The label true in place of 1, which sorts behind 4.
SaysTrue(s, i) == s.headers.pairs = << <<4, Kid>>, <<TRUE_BYTE, Algorithm[i]>> >>

\* spec/CBOR-COSE.md sections 6 and 7: one envelope is right for a manifest and its two
\* signatures, and either verifier accepts that one only, however many places of another
\* are wrong together.  Python accepts fewer bytes, and the label true in place of 1.
OneEnvelopeIsRight ==
    LET Mended == [envelope EXCEPT !.signature = [i \in 1..2 |->
            IF SaysTrue(envelope.signature[i], i)
            THEN [envelope.signature[i] EXCEPT !.headers = Right.signature[i].headers]
            ELSE envelope.signature[i]]]
    IN  \/ envelope = Right /\ RightIsAccepted
        \/ /\ envelope # Right
           /\ RustVerifies(envelope) = "accepted"
                 => [envelope EXCEPT !.size = "small"] = Right
           /\ PythonVerifies(envelope) = "accepted" => Mended = Right

=============================================================================
