------------------------- MODULE CoseEnvelopeProofs -------------------------
(***************************************************************************)
(* Theorems about CoseEnvelope: of all envelopes, however they were        *)
(* changed and however often, both verifiers accept the right one only.    *)
(***************************************************************************)
EXTENDS CoseEnvelope, TLAPS

-----------------------------------------------------------------------------
(* Lists of errors *)

Errors == Seq(Codes)

LEMMA OneError == ASSUME NEW e \in Codes PROVE <<e>> \in Errors /\ <<e>> # <<>>
BY DEF Errors

LEMMA NoError == <<>> \in Errors
BY DEF Errors

LEMMA CodesMean ==
    /\ "malformed_cbor" \in Codes /\ "non_deterministic_cbor" \in Codes
    /\ "unsupported_cbor_type" \in Codes /\ "resource_limit" \in Codes
    /\ "invalid_cose_structure" \in Codes /\ "unsupported_header" \in Codes
    /\ "invalid_content_type" \in Codes /\ "invalid_type" \in Codes
    /\ "invalid_algorithm" \in Codes /\ "invalid_kid" \in Codes
    /\ "hybrid_baseline_incomplete" \in Codes /\ "key_binding_mismatch" \in Codes
    /\ "signature_invalid" \in Codes /\ "manifest_policy_invalid" \in Codes
    /\ "accepted" \notin Codes
BY DEF Codes

\* Checks one after another find nothing when each of them finds nothing.  (Two
\* implications of their own: so the provers see from either which lists it is about.)
LEMMA Joined ==
    \A a, b :
        /\ a \in Errors /\ b \in Errors => a \o b \in Errors
        /\ a \in Errors /\ b \in Errors => (a \o b = <<>> <=> a = <<>> /\ b = <<>>)
BY DEF Errors

LEMMA FirstOfNone ==
    ASSUME NEW errors \in Errors
    PROVE  /\ FirstError(errors, "accepted") = "accepted" <=> errors = <<>>
           /\ errors # <<>> => FirstError(errors, "accepted") \in Codes
<1>1. ASSUME errors # <<>> PROVE errors[1] \in Codes
  BY <1>1 DEF Errors
<1> QED
  BY <1>1, CodesMean DEF FirstError

-----------------------------------------------------------------------------
(* Rust *)

Unreadable == {"indefinite", "cut", "not empty", "another type", "null", "float",
               "another count"}

LEMMA RustItemMeans ==
    ASSUME NEW c
    PROVE  RustItem(c) \in Errors /\ (RustItem(c) = <<>> <=> c \notin Unreadable)
<1> DEFINE w1 == When(c = "indefinite", "non_deterministic_cbor")
           w2 == When(c = "cut", "malformed_cbor")
           w3 == When(c = "not empty", "unsupported_header")
           w4 == When(c \in {"another type", "null", "float", "another count"},
                      "invalid_cose_structure")
<1>1. w1 \in Errors /\ w2 \in Errors /\ w3 \in Errors /\ w4 \in Errors
  BY OneError, NoError, CodesMean DEF When
<1>2. /\ w1 = <<>> <=> c # "indefinite"
      /\ w2 = <<>> <=> c # "cut"
      /\ w3 = <<>> <=> c # "not empty"
      /\ w4 = <<>> <=> c \notin {"another type", "null", "float", "another count"}
  BY OneError, CodesMean DEF When
<1>3. RustItem(c) = w1 \o w2 \o w3 \o w4
  BY DEF RustItem
<1> HIDE DEF w1, w2, w3, w4
<1>4. /\ RustItem(c) \in Errors
      /\ RustItem(c) = <<>> <=> w1 = <<>> /\ w2 = <<>> /\ w3 = <<>> /\ w4 = <<>>
  BY <1>1, <1>3, Joined
<1> QED
  BY <1>2, <1>4 DEF Unreadable

LEMMA HeaderEndMeans ==
    ASSUME NEW m
    PROVE  /\ RustHeaderEnd(m) \in Errors
           /\ RustHeaderEnd(m) = <<>> <=> m.after = "nothing" /\ m.shape # "long"
<1> DEFINE w1 == When(m.after # "nothing", "malformed_cbor")
           w2 == When(m.shape = "long", "non_deterministic_cbor")
<1>1. w1 \in Errors /\ w2 \in Errors
  BY OneError, NoError, CodesMean DEF When
<1>2. /\ w1 = <<>> <=> m.after = "nothing"
      /\ w2 = <<>> <=> m.shape # "long"
  BY OneError, CodesMean DEF When
<1>3. RustHeaderEnd(m) = w1 \o w2
  BY DEF RustHeaderEnd
<1> HIDE DEF w1, w2
<1>4. /\ RustHeaderEnd(m) \in Errors
      /\ RustHeaderEnd(m) = <<>> <=> w1 = <<>> /\ w2 = <<>>
  BY <1>1, <1>3, Joined
<1> QED
  BY <1>2, <1>4

LEMMA HeaderValueMeans ==
    ASSUME NEW v
    PROVE  /\ RustHeaderValue(v) \in Errors
           /\ RustHeaderValue(v) = <<>> <=> v # "another type"
BY OneError, NoError, CodesMean DEF RustHeaderValue, When

LEMMA BodyHeadersMean ==
    ASSUME NEW m
    PROVE  /\ RustBodyHeaders(m) \in Errors
           /\ RustBodyHeaders(m) = <<>> <=>
                /\ m.shape \notin Unreadable /\ m.shape # "long" /\ m.after = "nothing"
                /\ Len(m.pairs) = 2
                /\ Pair(m, 1)[1] = 3 /\ Pair(m, 1)[2] = ContentType
                /\ Pair(m, 2)[1] = 16 /\ Pair(m, 2)[2] = CoseType
<1> DEFINE i == RustItem(m.shape)
           w1 == When(Len(m.pairs) # 2 \/ Pair(m, 1)[1] # 3, "unsupported_header")
           v1 == RustHeaderValue(Pair(m, 1)[2])
           w2 == When(Pair(m, 1)[2] # ContentType, "invalid_content_type")
           w3 == When(Pair(m, 2)[1] # 16, "unsupported_header")
           v2 == RustHeaderValue(Pair(m, 2)[2])
           w4 == When(Pair(m, 2)[2] # CoseType, "invalid_type")
           f == RustHeaderEnd(m)
<1>1. w1 \in Errors /\ w2 \in Errors /\ w3 \in Errors /\ w4 \in Errors
  BY OneError, NoError, CodesMean DEF When
<1>2. i \in Errors /\ v1 \in Errors /\ v2 \in Errors /\ f \in Errors
  BY RustItemMeans, HeaderValueMeans, HeaderEndMeans
<1>3. /\ w1 = <<>> <=> Len(m.pairs) = 2 /\ Pair(m, 1)[1] = 3
      /\ w2 = <<>> <=> Pair(m, 1)[2] = ContentType
      /\ w3 = <<>> <=> Pair(m, 2)[1] = 16
      /\ w4 = <<>> <=> Pair(m, 2)[2] = CoseType
  BY OneError, CodesMean DEF When
<1>4. /\ i = <<>> <=> m.shape \notin Unreadable
      /\ v1 = <<>> <=> Pair(m, 1)[2] # "another type"
      /\ v2 = <<>> <=> Pair(m, 2)[2] # "another type"
      /\ f = <<>> <=> m.after = "nothing" /\ m.shape # "long"
  BY RustItemMeans, HeaderValueMeans, HeaderEndMeans
<1>5. RustBodyHeaders(m) = i \o w1 \o v1 \o w2 \o w3 \o v2 \o w4 \o f
  BY DEF RustBodyHeaders
<1> HIDE DEF i, w1, v1, w2, w3, v2, w4, f
<1>6. /\ RustBodyHeaders(m) \in Errors
      /\ RustBodyHeaders(m) = <<>> <=> /\ i = <<>> /\ w1 = <<>> /\ v1 = <<>> /\ w2 = <<>>
                                      /\ w3 = <<>> /\ v2 = <<>> /\ w4 = <<>> /\ f = <<>>
  BY <1>1, <1>2, <1>5, Joined
<1>7. ContentType # "another type" /\ CoseType # "another type"
  BY DEF ContentType, CoseType
<1> QED
  BY <1>3, <1>4, <1>6, <1>7

LEMMA SignatureHeadersMean ==
    ASSUME NEW m, NEW algorithm
    PROVE  /\ RustSignatureHeaders(m, algorithm) \in Errors
           /\ RustSignatureHeaders(m, algorithm) = <<>> <=>
                /\ m.shape \notin Unreadable /\ m.shape # "long" /\ m.after = "nothing"
                /\ Len(m.pairs) = 2
                /\ Pair(m, 1)[1] = 1 /\ Pair(m, 1)[2] = algorithm
                /\ Pair(m, 2)[1] = 4 /\ Pair(m, 2)[2] \notin {"another type", "empty"}
<1> DEFINE i == RustItem(m.shape)
           w1 == When(Len(m.pairs) # 2 \/ Pair(m, 1)[1] # 1, "unsupported_header")
           w2 == When(Pair(m, 1)[2] # algorithm, "invalid_algorithm")
           w3 == When(Pair(m, 2)[1] # 4, "unsupported_header")
           v2 == RustHeaderValue(Pair(m, 2)[2])
           w4 == When(Pair(m, 2)[2] = "empty", "invalid_kid")
           f == RustHeaderEnd(m)
<1>1. w1 \in Errors /\ w2 \in Errors /\ w3 \in Errors /\ w4 \in Errors
  BY OneError, NoError, CodesMean DEF When
<1>2. i \in Errors /\ v2 \in Errors /\ f \in Errors
  BY RustItemMeans, HeaderValueMeans, HeaderEndMeans
<1>3. /\ w1 = <<>> <=> Len(m.pairs) = 2 /\ Pair(m, 1)[1] = 1
      /\ w2 = <<>> <=> Pair(m, 1)[2] = algorithm
      /\ w3 = <<>> <=> Pair(m, 2)[1] = 4
      /\ w4 = <<>> <=> Pair(m, 2)[2] # "empty"
  BY OneError, CodesMean DEF When
<1>4. /\ i = <<>> <=> m.shape \notin Unreadable
      /\ v2 = <<>> <=> Pair(m, 2)[2] # "another type"
      /\ f = <<>> <=> m.after = "nothing" /\ m.shape # "long"
  BY RustItemMeans, HeaderValueMeans, HeaderEndMeans
<1>5. RustSignatureHeaders(m, algorithm) = i \o w1 \o w2 \o w3 \o v2 \o w4 \o f
  BY DEF RustSignatureHeaders
<1> HIDE DEF i, w1, w2, w3, v2, w4, f
<1>6. /\ RustSignatureHeaders(m, algorithm) \in Errors
      /\ RustSignatureHeaders(m, algorithm) = <<>>
           <=> /\ i = <<>> /\ w1 = <<>> /\ w2 = <<>> /\ w3 = <<>>
               /\ v2 = <<>> /\ w4 = <<>> /\ f = <<>>
  BY <1>1, <1>2, <1>5, Joined
<1> QED
  BY <1>3, <1>4, <1>6

LEMMA SignatureMeans ==
    ASSUME NEW s, NEW algorithm
    PROVE  /\ RustSignature(s, algorithm) \in Errors
           /\ RustSignature(s, algorithm) = <<>> <=>
                /\ s.entry \notin Unreadable /\ s.protected \notin Unreadable
                /\ RustSignatureHeaders(s.headers, algorithm) = <<>>
                /\ s.unprotected \notin Unreadable
                /\ s.bytes \notin Unreadable /\ s.bytes # "another size"
<1> DEFINE i1 == RustItem(s.entry)
           i2 == RustItem(s.protected)
           h == RustSignatureHeaders(s.headers, algorithm)
           i3 == RustItem(s.unprotected)
           i4 == RustItem(s.bytes)
           w == When(s.bytes = "another size", "signature_invalid")
<1>1. i1 \in Errors /\ i2 \in Errors /\ h \in Errors /\ i3 \in Errors /\ i4 \in Errors
  BY RustItemMeans, SignatureHeadersMean
<1>2. w \in Errors /\ (w = <<>> <=> s.bytes # "another size")
  BY OneError, NoError, CodesMean DEF When
<1>3. /\ i1 = <<>> <=> s.entry \notin Unreadable
      /\ i2 = <<>> <=> s.protected \notin Unreadable
      /\ i3 = <<>> <=> s.unprotected \notin Unreadable
      /\ i4 = <<>> <=> s.bytes \notin Unreadable
  BY RustItemMeans
<1>4. RustSignature(s, algorithm) = i1 \o i2 \o h \o i3 \o i4 \o w
  BY DEF RustSignature
<1> HIDE DEF i1, i2, h, i3, i4, w
<1>5. w \in Errors
  BY <1>2
<1>6. /\ RustSignature(s, algorithm) \in Errors
      /\ RustSignature(s, algorithm) = <<>>
           <=> i1 = <<>> /\ i2 = <<>> /\ h = <<>> /\ i3 = <<>> /\ i4 = <<>> /\ w = <<>>
  BY <1>1, <1>4, <1>5, Joined
<1> QED
  BY <1>2, <1>3, <1>6 DEF h

LEMMA ParseMeans ==
    ASSUME NEW e
    PROVE  /\ RustParse(e) \in Errors
           /\ RustParse(e) = <<>> <=>
                /\ e.size # "large" /\ e.tag = "right"
                /\ e.outer \notin Unreadable /\ e.protected \notin Unreadable
                /\ RustBodyHeaders(e.headers) = <<>>
                /\ e.unprotected \notin Unreadable /\ e.payload \notin Unreadable
                /\ e.signatures \notin Unreadable
                /\ RustSignature(e.signature[1], Algorithm[1]) = <<>>
                /\ RustSignature(e.signature[2], Algorithm[2]) = <<>>
                /\ e.after = "nothing" /\ "long" \notin Items(e)
<1> DEFINE w1 == When(e.size = "large", "resource_limit")
           w2 == When(e.tag # "right", "invalid_cose_structure")
           i1 == RustItem(e.outer)
           i2 == RustItem(e.protected)
           h == RustBodyHeaders(e.headers)
           i3 == RustItem(e.unprotected)
           i4 == RustItem(e.payload)
           i5 == RustItem(e.signatures)
           s1 == RustSignature(e.signature[1], Algorithm[1])
           s2 == RustSignature(e.signature[2], Algorithm[2])
           w3 == When(e.after # "nothing", "malformed_cbor")
           w4 == When("long" \in Items(e), "non_deterministic_cbor")
<1>1. w1 \in Errors /\ w2 \in Errors /\ w3 \in Errors /\ w4 \in Errors
  BY OneError, NoError, CodesMean DEF When
<1>2. i1 \in Errors /\ i2 \in Errors /\ i3 \in Errors /\ i4 \in Errors /\ i5 \in Errors
  BY RustItemMeans
<1>3. h \in Errors /\ s1 \in Errors /\ s2 \in Errors
  BY BodyHeadersMean, SignatureMeans
<1>4. /\ w1 = <<>> <=> e.size # "large"
      /\ w2 = <<>> <=> e.tag = "right"
      /\ w3 = <<>> <=> e.after = "nothing"
      /\ w4 = <<>> <=> "long" \notin Items(e)
  BY OneError, CodesMean DEF When
<1>5. /\ i1 = <<>> <=> e.outer \notin Unreadable
      /\ i2 = <<>> <=> e.protected \notin Unreadable
      /\ i3 = <<>> <=> e.unprotected \notin Unreadable
      /\ i4 = <<>> <=> e.payload \notin Unreadable
      /\ i5 = <<>> <=> e.signatures \notin Unreadable
  BY RustItemMeans
<1>6. RustParse(e) = w1 \o w2 \o i1 \o i2 \o h \o i3 \o i4 \o i5 \o s1 \o s2 \o w3 \o w4
  BY DEF RustParse
<1> HIDE DEF w1, w2, w3, w4, i1, i2, i3, i4, i5, h, s1, s2
<1>7. /\ RustParse(e) \in Errors
      /\ RustParse(e) = <<>>
           <=> /\ w1 = <<>> /\ w2 = <<>> /\ i1 = <<>> /\ i2 = <<>> /\ h = <<>> /\ i3 = <<>>
               /\ i4 = <<>> /\ i5 = <<>> /\ s1 = <<>> /\ s2 = <<>> /\ w3 = <<>> /\ w4 = <<>>
  BY <1>1, <1>2, <1>3, <1>6, Joined
<1> QED
  BY <1>4, <1>5, <1>7 DEF h, s1, s2

LEMMA BindingMeans ==
    ASSUME NEW e, NEW s, s.verifies \in BOOLEAN
    PROVE  /\ RustBinding(e, s) \in Errors
           /\ RustBinding(e, s) = <<>> <=>
                e.keys = "bound" /\ Pair(s.headers, 2)[2] = Kid /\ s.verifies
<1> DEFINE w1 == When(e.keys = "unbound", "hybrid_baseline_incomplete")
           w2 == When(Pair(s.headers, 2)[2] # Kid, "invalid_kid")
           w3 == When(e.keys # "bound", "key_binding_mismatch")
           w4 == When(~s.verifies, "signature_invalid")
<1>1. w1 \in Errors /\ w2 \in Errors /\ w3 \in Errors /\ w4 \in Errors
  BY OneError, NoError, CodesMean DEF When
<1>2. /\ w1 = <<>> <=> e.keys # "unbound"
      /\ w2 = <<>> <=> Pair(s.headers, 2)[2] = Kid
      /\ w3 = <<>> <=> e.keys = "bound"
      /\ w4 = <<>> <=> s.verifies
  BY OneError, CodesMean DEF When
<1>3. RustBinding(e, s) = w1 \o w2 \o w3 \o w4
  BY DEF RustBinding
<1> HIDE DEF w1, w2, w3, w4
<1>4. /\ RustBinding(e, s) \in Errors
      /\ RustBinding(e, s) = <<>> <=> w1 = <<>> /\ w2 = <<>> /\ w3 = <<>> /\ w4 = <<>>
  BY <1>1, <1>3, Joined
<1> QED
  BY <1>2, <1>4

\* What Rust says of an envelope is a code, unless every check passes.
LEMMA RustMeans ==
    ASSUME NEW e, e.manifest \in Codes \cup {"accepted"},
           e.signature[1].verifies \in BOOLEAN, e.signature[2].verifies \in BOOLEAN
    PROVE  RustVerifies(e) = "accepted" <=>
             /\ RustParse(e) = <<>> /\ e.manifest = "accepted"
             /\ RustBinding(e, e.signature[1]) = <<>>
             /\ RustBinding(e, e.signature[2]) = <<>>
<1> DEFINE p == RustParse(e)
           w == When(e.manifest # "accepted", e.manifest)
           b1 == RustBinding(e, e.signature[1])
           b2 == RustBinding(e, e.signature[2])
           all == p \o w \o b1 \o b2
<1>1. w \in Errors /\ (w = <<>> <=> e.manifest = "accepted")
  BY OneError, NoError DEF When
<1>2. p \in Errors /\ b1 \in Errors /\ b2 \in Errors
  BY ParseMeans, BindingMeans
<1>3. RustVerifies(e) = FirstError(all, "accepted")
  BY DEF RustVerifies
<1> HIDE DEF p, w, b1, b2
<1>4. w \in Errors
  BY <1>1
<1>5. all \in Errors /\ (all = <<>> <=> p = <<>> /\ w = <<>> /\ b1 = <<>> /\ b2 = <<>>)
  BY <1>2, <1>4, Joined
<1> HIDE DEF all
<1>6. RustVerifies(e) = "accepted" <=> all = <<>>
  BY <1>3, <1>5, FirstOfNone
<1> QED
  BY <1>1, <1>5, <1>6 DEF p, b1, b2

-----------------------------------------------------------------------------
(* Python *)

LEMMA DecodeMeans ==
    ASSUME NEW c
    PROVE  /\ PythonDecode(c) \in Errors
           /\ PythonDecode(c) = <<>> <=> c \notin {"indefinite", "long", "cut", "float"}
<1> DEFINE w1 == When(c \in {"indefinite", "long"}, "non_deterministic_cbor")
           w2 == When(c = "cut", "malformed_cbor")
           w3 == When(c = "float", "unsupported_cbor_type")
<1>1. w1 \in Errors /\ w2 \in Errors /\ w3 \in Errors
  BY OneError, NoError, CodesMean DEF When
<1>2. /\ w1 = <<>> <=> c \notin {"indefinite", "long"}
      /\ w2 = <<>> <=> c # "cut"
      /\ w3 = <<>> <=> c # "float"
  BY OneError, CodesMean DEF When
<1>3. PythonDecode(c) = w1 \o w2 \o w3
  BY DEF PythonDecode
<1> HIDE DEF w1, w2, w3
<1>4. /\ PythonDecode(c) \in Errors
      /\ PythonDecode(c) = <<>> <=> w1 = <<>> /\ w2 = <<>> /\ w3 = <<>>
  BY <1>1, <1>3, Joined
<1> QED
  BY <1>2, <1>4

LEMMA ItemsMean ==
    ASSUME NEW e
    PROVE  /\ PythonItems(e) \in Errors
           /\ /\ e.tag = "right" /\ e.outer = "right" /\ e.protected = "right"
              /\ e.unprotected = "right" /\ e.payload = "right" /\ e.signatures = "right"
              /\ \A i \in 1..2 :
                    /\ e.signature[i].entry = "right" /\ e.signature[i].protected = "right"
                    /\ e.signature[i].unprotected = "right"
                    /\ e.signature[i].bytes = "right"
              => PythonItems(e) = <<>>
<1> DEFINE Entry(s) == PythonDecode(s.entry) \o PythonDecode(s.protected)
                       \o PythonDecode(s.unprotected) \o PythonDecode(s.bytes)
           s1 == e.signature[1]
           s2 == e.signature[2]
<1>1. \A c : PythonDecode(c) \in Errors
  BY DecodeMeans
<1>2. \A s : Entry(s) \in Errors
  BY <1>1, Joined
<1>3. PythonDecode("right") = <<>>
  BY DecodeMeans
<1>4. PythonItems(e) =
        PythonDecode(e.tag) \o PythonDecode(e.outer) \o PythonDecode(e.protected)
        \o PythonDecode(e.unprotected) \o PythonDecode(e.payload)
        \o PythonDecode(e.signatures) \o Entry(s1) \o Entry(s2)
  BY DEF PythonItems
<1>5. ASSUME NEW s, s.entry = "right", s.protected = "right", s.unprotected = "right",
             s.bytes = "right"
      PROVE  Entry(s) = <<>>
  BY <1>1, <1>3, <1>5, Joined
<1> HIDE DEF Entry
<1>6. PythonItems(e) \in Errors
  BY <1>1, <1>2, <1>4, Joined
<1>7. ASSUME e.tag = "right", e.outer = "right", e.protected = "right",
             e.unprotected = "right", e.payload = "right", e.signatures = "right",
             Entry(s1) = <<>>, Entry(s2) = <<>>
      PROVE  PythonItems(e) = <<>>
  BY <1>1, <1>3, <1>4, <1>7, Joined
<1> QED
  BY <1>5, <1>6, <1>7

Ascending(m) == \A i \in 2..Len(m.pairs) : ~(m.pairs[i - 1][1] >= m.pairs[i][1])

LEMMA HeadersMean ==
    ASSUME NEW c, NEW m
    PROVE  /\ PythonHeaders(c, m) \in Errors
           /\ PythonHeaders(c, m) = <<>> <=>
                /\ c = "right" /\ Ascending(m) /\ LabelsOnce(m)
                /\ m.after = "nothing" /\ m.shape = "right"
<1> DEFINE w1 == When(c # "right", "invalid_cose_structure")
           d == PythonDecode(m.shape)
           w2 == When(\E i \in 2..Len(m.pairs) : m.pairs[i - 1][1] >= m.pairs[i][1],
                      "non_deterministic_cbor")
           once == When(~LabelsOnce(m), "non_deterministic_cbor")
           w3 == When(m.after # "nothing", "malformed_cbor")
           w4 == When(m.shape # "right", "invalid_cose_structure")
<1>1. w1 \in Errors /\ w2 \in Errors /\ once \in Errors /\ w3 \in Errors /\ w4 \in Errors
  BY OneError, NoError, CodesMean DEF When
<1>2. /\ w1 = <<>> <=> c = "right"
      /\ w2 = <<>> <=> Ascending(m)
      /\ once = <<>> <=> LabelsOnce(m)
      /\ w3 = <<>> <=> m.after = "nothing"
      /\ w4 = <<>> <=> m.shape = "right"
  BY OneError, CodesMean DEF When, Ascending
<1>3. d \in Errors /\ (d = <<>> <=> m.shape \notin {"indefinite", "long", "cut", "float"})
  BY DecodeMeans
<1>4. PythonHeaders(c, m) = w1 \o d \o w2 \o once \o w3 \o w4
  BY DEF PythonHeaders
<1> HIDE DEF w1, d, w2, once, w3, w4
<1>5. d \in Errors
  BY <1>3
<1>6. /\ PythonHeaders(c, m) \in Errors
      /\ PythonHeaders(c, m) = <<>>
           <=> w1 = <<>> /\ d = <<>> /\ w2 = <<>> /\ once = <<>>
               /\ w3 = <<>> /\ w4 = <<>>
  BY <1>1, <1>4, <1>5, Joined
<1> QED
  BY <1>2, <1>3, <1>6

LEMMA PythonSignatureMeans ==
    ASSUME NEW s, NEW algorithm
    PROVE  /\ PythonSignature(s, algorithm) \in Errors
           /\ PythonSignature(s, algorithm) = <<>> <=>
                /\ s.entry = "right" /\ s.unprotected = "right"
                /\ PythonHeaders(s.protected, s.headers) = <<>>
                /\ Labels(s.headers) \subseteq {1, 4}
                /\ Header(s.headers, 1) = algorithm /\ Header(s.headers, 4) = Kid
                /\ s.bytes = "right"
<1> DEFINE w1 == When(s.entry # "right", "invalid_cose_structure")
           w2 == When(s.unprotected # "right", "unsupported_header")
           h == PythonHeaders(s.protected, s.headers)
           w3 == When(~(Labels(s.headers) \subseteq {1, 4}), "unsupported_header")
           w4 == When(Header(s.headers, 1) # algorithm, "invalid_algorithm")
           w5 == When(Header(s.headers, 4) # Kid, "invalid_kid")
           w6 == When(s.bytes # "right", "signature_invalid")
<1>1. /\ w1 \in Errors /\ w2 \in Errors /\ w3 \in Errors
      /\ w4 \in Errors /\ w5 \in Errors /\ w6 \in Errors
  BY OneError, NoError, CodesMean DEF When
<1>2. /\ w1 = <<>> <=> s.entry = "right"
      /\ w2 = <<>> <=> s.unprotected = "right"
      /\ w3 = <<>> <=> Labels(s.headers) \subseteq {1, 4}
      /\ w4 = <<>> <=> Header(s.headers, 1) = algorithm
      /\ w5 = <<>> <=> Header(s.headers, 4) = Kid
      /\ w6 = <<>> <=> s.bytes = "right"
  BY OneError, CodesMean DEF When
<1>3. h \in Errors
  BY HeadersMean
<1>4. PythonSignature(s, algorithm) = w1 \o w2 \o h \o w3 \o w4 \o w5 \o w6
  BY DEF PythonSignature
<1> HIDE DEF w1, w2, h, w3, w4, w5, w6
<1>5. /\ PythonSignature(s, algorithm) \in Errors
      /\ PythonSignature(s, algorithm) = <<>>
           <=> /\ w1 = <<>> /\ w2 = <<>> /\ h = <<>> /\ w3 = <<>>
               /\ w4 = <<>> /\ w5 = <<>> /\ w6 = <<>>
  BY <1>1, <1>3, <1>4, Joined
<1> QED
  BY <1>2, <1>5 DEF h

LEMMA PythonMeans ==
    ASSUME NEW e, e.manifest \in Codes \cup {"accepted"}
    PROVE  PythonVerifies(e) = "accepted" <=>
             /\ e.size = "small" /\ PythonItems(e) = <<>> /\ e.after = "nothing"
             /\ e.tag = "right" /\ e.outer = "right" /\ e.unprotected = "right"
             /\ e.payload = "right" /\ PythonHeaders(e.protected, e.headers) = <<>>
             /\ Labels(e.headers) \subseteq {3, 16}
             /\ Header(e.headers, 3) = ContentType /\ Header(e.headers, 16) = CoseType
             /\ e.signatures = "right"
             /\ PythonSignature(e.signature[1], Algorithm[1]) = <<>>
             /\ PythonSignature(e.signature[2], Algorithm[2]) = <<>>
             /\ e.manifest = "accepted" /\ e.keys = "bound"
             /\ \A i \in 1..2 : ~(~e.signature[i].verifies)
<1> DEFINE w1 == When(e.size # "small", "resource_limit")
           t == PythonItems(e)
           w2 == When(e.after # "nothing", "malformed_cbor")
           w3 == When(e.tag # "right" \/ e.outer # "right", "invalid_cose_structure")
           w4 == When(e.unprotected # "right", "unsupported_header")
           w5 == When(e.payload # "right", "invalid_cose_structure")
           h == PythonHeaders(e.protected, e.headers)
           w6 == When(~(Labels(e.headers) \subseteq {3, 16}), "unsupported_header")
           w7 == When(Header(e.headers, 3) # ContentType, "invalid_content_type")
           w8 == When(Header(e.headers, 16) # CoseType, "invalid_type")
           w9 == When(e.signatures # "right", "invalid_cose_structure")
           s1 == PythonSignature(e.signature[1], Algorithm[1])
           s2 == PythonSignature(e.signature[2], Algorithm[2])
           v1 == When(e.manifest # "accepted", e.manifest)
           v2 == When(e.keys # "bound", "key_binding_mismatch")
           v3 == When(\E i \in 1..2 : ~e.signature[i].verifies, "signature_invalid")
           all == w1 \o t \o w2 \o w3 \o w4 \o w5 \o h \o w6 \o w7 \o w8 \o w9
                    \o s1 \o s2 \o v1 \o v2 \o v3
<1>1. /\ w1 \in Errors /\ w2 \in Errors /\ w3 \in Errors /\ w4 \in Errors /\ w5 \in Errors
      /\ w6 \in Errors /\ w7 \in Errors /\ w8 \in Errors /\ w9 \in Errors
  BY OneError, NoError, CodesMean DEF When
<1>2. /\ w1 = <<>> <=> e.size = "small"
      /\ w2 = <<>> <=> e.after = "nothing"
      /\ w3 = <<>> <=> e.tag = "right" /\ e.outer = "right"
      /\ w4 = <<>> <=> e.unprotected = "right"
      /\ w5 = <<>> <=> e.payload = "right"
  BY OneError, CodesMean DEF When
<1>3. /\ w6 = <<>> <=> Labels(e.headers) \subseteq {3, 16}
      /\ w7 = <<>> <=> Header(e.headers, 3) = ContentType
      /\ w8 = <<>> <=> Header(e.headers, 16) = CoseType
      /\ w9 = <<>> <=> e.signatures = "right"
  BY OneError, CodesMean DEF When
<1>4. /\ v2 \in Errors /\ (v2 = <<>> <=> e.keys = "bound")
      /\ v3 \in Errors /\ (v3 = <<>> <=> \A i \in 1..2 : ~(~e.signature[i].verifies))
  BY OneError, NoError, CodesMean DEF When
<1>5. v1 \in Errors /\ (v1 = <<>> <=> e.manifest = "accepted")
  BY OneError, NoError DEF When
<1>6. t \in Errors /\ h \in Errors /\ s1 \in Errors /\ s2 \in Errors
  BY ItemsMean, HeadersMean, PythonSignatureMeans
<1>7. PythonVerifies(e) = FirstError(all, "accepted")
  BY DEF PythonVerifies
<1> HIDE DEF w1, t, w2, w3, w4, w5, h, w6, w7, w8, w9, s1, s2, v1, v2, v3
<1>8. v1 \in Errors /\ v2 \in Errors /\ v3 \in Errors
  BY <1>4, <1>5
<1>9. /\ all \in Errors
      /\ all = <<>> <=>
           /\ w1 = <<>> /\ t = <<>> /\ w2 = <<>> /\ w3 = <<>> /\ w4 = <<>> /\ w5 = <<>>
           /\ h = <<>> /\ w6 = <<>> /\ w7 = <<>> /\ w8 = <<>> /\ w9 = <<>>
           /\ s1 = <<>> /\ s2 = <<>> /\ v1 = <<>> /\ v2 = <<>> /\ v3 = <<>>
  BY <1>1, <1>6, <1>8, Joined
<1> HIDE DEF all
<1>10. PythonVerifies(e) = "accepted" <=> all = <<>>
  BY <1>7, <1>9, FirstOfNone
<1> QED
  BY <1>2, <1>3, <1>4, <1>5, <1>9, <1>10 DEF t, h, s1, s2

-----------------------------------------------------------------------------
(* Header maps *)

Found(m, label) == {i \in 1..Len(m.pairs) : Label(m.pairs[i][1]) = label}

LEMMA HeaderExpanded ==
    ASSUME NEW m, NEW label
    PROVE  Header(m, label) =
             LET i == IF Found(m, label) # {}
                      THEN CHOOSE x \in Found(m, label) : \A y \in Found(m, label) : x >= y
                      ELSE 0
             IN  IF i = 0 THEN "none" ELSE m.pairs[i][2]
BY DEF Header, SelectLastInSeq, Max, Found

\* A header that is there is found.
LEMMA HeaderFound ==
    ASSUME NEW m, NEW label, Header(m, label) # "none"
    PROVE  \E i \in 1..Len(m.pairs) : Label(m.pairs[i][1]) = label
<1>1. Found(m, label) # {}
  BY HeaderExpanded
<1> QED
  BY <1>1 DEF Found

\* Where a label stands once, its header is what stands there.
LEMMA HeaderOnce ==
    ASSUME NEW m, NEW label, NEW k \in Nat \ {0}, Found(m, label) = {k}
    PROVE  Header(m, label) = m.pairs[k][2]
<1>1. (CHOOSE x \in {k} : \A y \in {k} : x >= y) = k
  OBVIOUS
<1> QED
  BY <1>1, HeaderExpanded

\* Two labels in their order, with the headers found for them, and nothing else; x and y
\* are what they are to a dictionary.
LEMMA TwoHeaders ==
    ASSUME NEW m \in HeaderMaps, NEW p \in Nat, NEW q \in Nat, p < q, NEW a, NEW b,
           NEW x, NEW y, Label(p) = x, Label(q) = y, x # y,
           a # "none", b # "none", Ascending(m),
           \A i \in 1..Len(m.pairs) : m.pairs[i][1] \in {p, q},
           Header(m, x) = a, Header(m, y) = b
    PROVE  m.pairs = << <<p, a>>, <<q, b>> >>
<1> DEFINE n == Len(m.pairs)
<1>1. m.pairs \in Seq(Nat \X HeaderValues)
  BY DEF HeaderMaps
<1>2. n \in Nat /\ \A i \in 1..n : m.pairs[i] \in Nat \X HeaderValues
  BY <1>1
<1>3. \A i \in 1..n : m.pairs[i][1] \in Nat /\ m.pairs[i] = <<m.pairs[i][1], m.pairs[i][2]>>
  BY <1>2
<1>4. \A i \in 1..n : m.pairs[i][1] \in {p, q}
  OBVIOUS
<1>5. PICK i \in 1..n : m.pairs[i][1] = p
  <2>1. \E i \in 1..n : Label(m.pairs[i][1]) = x
    BY HeaderFound
  <2> QED
    BY <1>4, <2>1
<1>6. PICK j \in 1..n : m.pairs[j][1] = q
  <2>1. \E j \in 1..n : Label(m.pairs[j][1]) = y
    BY HeaderFound
  <2> QED
    BY <1>4, <2>1
<1>7. ~(n >= 3)
  <2> SUFFICES ASSUME n >= 3 PROVE FALSE
    OBVIOUS
  <2>1. 1 \in 1..n /\ 2 \in 1..n /\ 3 \in 1..n /\ 2 \in 2..n /\ 3 \in 2..n
    BY <1>2
  <2>2. ~(m.pairs[1][1] >= m.pairs[2][1]) /\ ~(m.pairs[2][1] >= m.pairs[3][1])
    <3>1. ~(m.pairs[2 - 1][1] >= m.pairs[2][1]) /\ ~(m.pairs[3 - 1][1] >= m.pairs[3][1])
      BY <2>1 DEF Ascending
    <3> QED
      BY <3>1
  <2>3. m.pairs[1][1] \in {p, q} /\ m.pairs[2][1] \in {p, q} /\ m.pairs[3][1] \in {p, q}
    BY <1>4, <2>1
  <2> QED
    BY <2>2, <2>3
<1>8. n = 2
  <2>1. i # j
    BY <1>5, <1>6
  <2>2. n \in Nat /\ ~(n >= 3)
    BY <1>2, <1>7
  <2> HIDE DEF n
  <2> QED
    BY <2>1, <2>2
<1>9. m.pairs[1][1] = p /\ m.pairs[2][1] = q
  <2>1. 1 \in 1..n /\ 2 \in 1..n /\ 2 \in 2..n
    BY <1>8
  <2>2. ~(m.pairs[1][1] >= m.pairs[2][1])
    <3>1. ~(m.pairs[2 - 1][1] >= m.pairs[2][1])
      BY <2>1 DEF Ascending
    <3> QED
      BY <3>1
  <2>3. m.pairs[1][1] \in {p, q} /\ m.pairs[2][1] \in {p, q}
    BY <1>4, <2>1
  <2> QED
    BY <2>2, <2>3
<1>10. Found(m, x) = {1} /\ Found(m, y) = {2}
  <2>1. 1..n = {1, 2}
    BY <1>8
  <2>2. Label(m.pairs[1][1]) = x /\ Label(m.pairs[2][1]) = y
    BY <1>8, <1>9
  <2> QED
    BY <2>1, <2>2 DEF Found
<1>11. m.pairs[1][2] = a /\ m.pairs[2][2] = b
  <2>1. 1 \in Nat \ {0} /\ 2 \in Nat \ {0}
    OBVIOUS
  <2>2. Header(m, x) = m.pairs[1][2]
    <3>1. Found(m, x) = {1}
      BY <1>10
    <3> QED
      BY <2>1, <3>1, HeaderOnce
  <2>3. Header(m, y) = m.pairs[2][2]
    <3>1. Found(m, y) = {2}
      BY <1>10
    <3> QED
      BY <2>1, <3>1, HeaderOnce
  <2> QED
    BY <2>2, <2>3
<1>12. m.pairs[1] = <<p, a>> /\ m.pairs[2] = <<q, b>>
  BY <1>3, <1>8, <1>9, <1>11
<1> QED
  BY <1>1, <1>8, <1>12

\* What Rust takes for two pairs are these two.
LEMMA TwoPairs ==
    ASSUME NEW m \in HeaderMaps, Len(m.pairs) = 2, NEW p, NEW q, NEW a, NEW b,
           Pair(m, 1)[1] = p, Pair(m, 1)[2] = a, Pair(m, 2)[1] = q, Pair(m, 2)[2] = b
    PROVE  m.pairs = << <<p, a>>, <<q, b>> >>
<1>1. m.pairs \in Seq(Nat \X HeaderValues)
  BY DEF HeaderMaps
<1>2. /\ m.pairs[1] = <<m.pairs[1][1], m.pairs[1][2]>>
      /\ m.pairs[2] = <<m.pairs[2][1], m.pairs[2][2]>>
  <2>1. m.pairs[1] \in Nat \X HeaderValues /\ m.pairs[2] \in Nat \X HeaderValues
    BY <1>1
  <2> QED
    BY <2>1
<1>3. Pair(m, 1) = m.pairs[1] /\ Pair(m, 2) = m.pairs[2]
  BY DEF Pair
<1> QED
  BY <1>1, <1>2, <1>3

LEMMA HeaderMapMeans ==
    ASSUME NEW m \in HeaderMaps, NEW pairs, m.shape = "right", m.after = "nothing",
           m.pairs = pairs
    PROVE  m = HeaderMap(pairs)
BY DEF HeaderMaps, HeaderMap

\* What the two read from a map of two different labels in their order.
Reads(m, p, a, q, b) ==
    /\ m.shape = "right" /\ m.after = "nothing" /\ Len(m.pairs) = 2
    /\ Pair(m, 1)[1] = p /\ Pair(m, 1)[2] = a
    /\ Pair(m, 2)[1] = q /\ Pair(m, 2)[2] = b
    /\ Ascending(m) /\ LabelsOnce(m) /\ Labels(m) = {p, q}
    /\ Header(m, p) = a /\ Header(m, q) = b

LEMMA TwoMean ==
    ASSUME NEW p \in Nat, NEW q \in Nat, p < q, p # TRUE_BYTE, q # TRUE_BYTE, NEW a, NEW b,
           NEW m, m = HeaderMap(<< <<p, a>>, <<q, b>> >>)
    PROVE  Reads(m, p, a, q, b)
<1>1. m.shape = "right" /\ m.after = "nothing" /\ m.pairs = << <<p, a>>, <<q, b>> >>
  BY DEF HeaderMap
<1>2. /\ Len(m.pairs) = 2 /\ m.pairs[1] = <<p, a>> /\ m.pairs[2] = <<q, b>>
      /\ m.pairs[1][1] = p /\ m.pairs[2][1] = q /\ m.pairs[1][2] = a /\ m.pairs[2][2] = b
  BY <1>1
<1>3. Pair(m, 1) = m.pairs[1] /\ Pair(m, 2) = m.pairs[2]
  BY <1>2 DEF Pair
<1>4. 1..Len(m.pairs) = {1, 2} /\ 2..Len(m.pairs) = {2}
  <2>1. Len(m.pairs) = 2
    BY <1>2
  <2>2. 1..2 = {1, 2} /\ 2..2 = {2}
    OBVIOUS
  <2> QED
    BY <2>1, <2>2, Zenon
<1>5. Ascending(m)
  <2>1. ~(m.pairs[2 - 1][1] >= m.pairs[2][1])
    BY <1>2
  <2> QED
    BY <1>4, <2>1 DEF Ascending
<1>6. Label(m.pairs[1][1]) = p /\ Label(m.pairs[2][1]) = q
  BY <1>2 DEF Label
<1>7. Labels(m) = {p, q}
  BY <1>4, <1>6 DEF Labels
<1>0. p # q
  OBVIOUS
<1>11. \A i \in 1..Len(m.pairs) :
          \/ i = 1 /\ Label(m.pairs[i][1]) = p
          \/ i = 2 /\ Label(m.pairs[i][1]) = q
  BY <1>4, <1>6, Zenon
<1>10. LabelsOnce(m)
  <2> SUFFICES ASSUME NEW i \in 1..Len(m.pairs), NEW j \in 1..Len(m.pairs),
                      Label(m.pairs[i][1]) = Label(m.pairs[j][1])
               PROVE  i = j
    BY DEF LabelsOnce
  <2> QED
    BY <1>0, <1>11, Zenon
<1>8. Found(m, p) = {1} /\ Found(m, q) = {2}
  <2>1. 1 \in 1..Len(m.pairs) /\ 2 \in 1..Len(m.pairs)
    BY <1>4, Zenon
  <2>2. Found(m, p) = {1}
    BY <1>0, <1>6, <1>11, <2>1, Zenon DEF Found
  <2>3. Found(m, q) = {2}
    BY <1>0, <1>6, <1>11, <2>1, Zenon DEF Found
  <2> QED
    BY <2>2, <2>3
<1>9. Header(m, p) = a /\ Header(m, q) = b
  <2>1. 1 \in Nat \ {0} /\ 2 \in Nat \ {0}
    OBVIOUS
  <2>2. Header(m, p) = m.pairs[1][2]
    BY <1>8, <2>1, HeaderOnce
  <2>3. Header(m, q) = m.pairs[2][2]
    BY <1>8, <2>1, HeaderOnce
  <2> QED
    BY <1>2, <2>2, <2>3
<1> QED
  BY <1>1, <1>2, <1>3, <1>5, <1>7, <1>9, <1>10 DEF Reads

-----------------------------------------------------------------------------
(* What an envelope may be *)

Signature ==
    [entry : Classes, protected : Classes, headers : HeaderMaps, unprotected : Classes,
     bytes : Classes \cup {"another size"}, verifies : BOOLEAN]
Envelope ==
    [size : {"small", "medium", "large"},
     tag : {"right", "long", "another tag", "untagged"},
     outer : Classes, protected : Classes, headers : HeaderMaps, unprotected : Classes,
     payload : Classes, signatures : Classes, signature : [1..2 -> Signature],
     after : {"nothing", "trailing"}, manifest : Codes \cup {"accepted"},
     keys : {"bound", "another digest", "unbound"}]

LEMMA EnvelopeMeans ==
    ASSUME NEW e \in Envelope
    PROVE  /\ e.signature \in [1..2 -> Signature] /\ e.headers \in HeaderMaps
           /\ e.manifest \in Codes \cup {"accepted"}
           /\ \A i \in 1..2 :
                 e.signature[i] \in Signature /\ e.signature[i].verifies \in BOOLEAN
<1>1. /\ e.signature \in [1..2 -> Signature] /\ e.headers \in HeaderMaps
      /\ e.manifest \in Codes \cup {"accepted"}
  BY DEF Envelope
<1>2. \A s \in Signature : s.verifies \in BOOLEAN
  BY DEF Signature
<1> QED
  BY <1>1, <1>2

LEMMA ClassesMean ==
    /\ "right" \in Classes
    /\ \A c \in Classes : c \notin Unreadable => c \in {"right", "long"}
BY DEF Classes, Unreadable

LEMMA Pairs == ASSUME NEW S, NEW p \in S, NEW q \in S PROVE <<p, q>> \in Seq(S)
OBVIOUS

LEMMA HeaderMapOK ==
    ASSUME NEW p \in Seq(Nat \X HeaderValues)
    PROVE  HeaderMap(p) \in HeaderMaps
<1>1. "nothing" \in {"nothing", "trailing"}
  OBVIOUS
<1> QED
  BY <1>1, ClassesMean DEF HeaderMap, HeaderMaps

\* The headers of the right envelope are header maps.
LEMMA RightHeaders ==
    /\ Right.headers = HeaderMap(<< <<3, ContentType>>, <<16, CoseType>> >>)
    /\ Right.headers \in HeaderMaps
    /\ \A i \in 1..2 :
          /\ Right.signature[i].headers = HeaderMap(<< <<1, Algorithm[i]>>, <<4, Kid>> >>)
          /\ Right.signature[i].headers \in HeaderMaps
<1>1. /\ ContentType \in HeaderValues /\ CoseType \in HeaderValues
      /\ Algorithm[1] \in HeaderValues /\ Algorithm[2] \in HeaderValues
      /\ Kid \in HeaderValues
  BY DEF HeaderValues
<1>2. Right.headers = HeaderMap(<< <<3, ContentType>>, <<16, CoseType>> >>)
  BY DEF Right
<1>3. HeaderMap(<< <<3, ContentType>>, <<16, CoseType>> >>) \in HeaderMaps
  <2>1. /\ <<3, ContentType>> \in Nat \X HeaderValues
        /\ <<16, CoseType>> \in Nat \X HeaderValues
    BY <1>1
  <2> QED
    BY <2>1, Pairs, HeaderMapOK
<1>4. ASSUME NEW i \in 1..2
      PROVE  /\ Right.signature[i].headers = HeaderMap(<< <<1, Algorithm[i]>>, <<4, Kid>> >>)
             /\ HeaderMap(<< <<1, Algorithm[i]>>, <<4, Kid>> >>) \in HeaderMaps
  <2>1. Right.signature[i].headers = HeaderMap(<< <<1, Algorithm[i]>>, <<4, Kid>> >>)
    BY DEF Right
  <2>2. Algorithm[i] \in HeaderValues
    BY <1>1
  <2>3. <<1, Algorithm[i]>> \in Nat \X HeaderValues /\ <<4, Kid>> \in Nat \X HeaderValues
    BY <1>1, <2>2
  <2> QED
    BY <2>1, <2>3, Pairs, HeaderMapOK
<1> QED
  BY <1>2, <1>3, <1>4

LEMMA RightOK == Right \in Envelope
<1>1. \A i \in 1..2 : Right.signature[i] \in Signature
  <2> SUFFICES ASSUME NEW i \in 1..2 PROVE Right.signature[i] \in Signature
    OBVIOUS
  <2> DEFINE h == HeaderMap(<< <<1, Algorithm[i]>>, <<4, Kid>> >>)
  <2>1. Right.signature[i] =
          [entry |-> "right", protected |-> "right", headers |-> h,
           unprotected |-> "right", bytes |-> "right", verifies |-> TRUE]
    BY DEF Right
  <2>2. h \in HeaderMaps
    BY RightHeaders
  <2> HIDE DEF h
  <2> QED
    BY <2>1, <2>2, ClassesMean DEF Signature
<1>2. Right.signature \in [1..2 -> Signature]
  <2>1. Right.signature = [i \in 1..2 |-> Right.signature[i]]
    BY DEF Right
  <2> QED
    BY <1>1, <2>1
<1> DEFINE s == Right.signature
           h == Right.headers
<1>3. Right =
        [size |-> "small", tag |-> "right", outer |-> "right", protected |-> "right",
         headers |-> h, unprotected |-> "right", payload |-> "right",
         signatures |-> "right", signature |-> s, after |-> "nothing",
         manifest |-> "accepted", keys |-> "bound"]
  BY DEF Right
<1>4. h \in HeaderMaps /\ s \in [1..2 -> Signature]
  BY <1>2, RightHeaders
<1> HIDE DEF s, h
<1> QED
  BY <1>3, <1>4, ClassesMean DEF Envelope

LEMMA ChangedPart ==
    ASSUME NEW e \in Envelope, NEW part \in DOMAIN PartKinds, NEW v \in PartKinds[part]
    PROVE  [e EXCEPT ![part] = v] \in Envelope
<1>1. CASE part = "size"
  BY <1>1 DEF Envelope, PartKinds
<1>2. CASE part = "tag"
  BY <1>2 DEF Envelope, PartKinds
<1>3. CASE part = "outer"
  BY <1>3 DEF Envelope, PartKinds
<1>4. CASE part = "protected"
  BY <1>4 DEF Envelope, PartKinds
<1>5. CASE part = "headers"
  BY <1>5 DEF Envelope, PartKinds
<1>6. CASE part = "unprotected"
  BY <1>6 DEF Envelope, PartKinds
<1>7. CASE part = "payload"
  BY <1>7 DEF Envelope, PartKinds
<1>8. CASE part = "signatures"
  BY <1>8 DEF Envelope, PartKinds
<1>9. CASE part = "after"
  BY <1>9 DEF Envelope, PartKinds
<1>10. CASE part = "keys"
  BY <1>10 DEF Envelope, PartKinds
<1>11. part \in {"size", "tag", "outer", "protected", "headers", "unprotected", "payload",
                "signatures", "after", "keys"}
  BY DEF PartKinds
<1> QED
  BY <1>1, <1>2, <1>3, <1>4, <1>5, <1>6, <1>7, <1>8, <1>9, <1>10, <1>11

LEMMA ChangedSignature ==
    ASSUME NEW s \in Signature, NEW part \in DOMAIN SignatureKinds,
           NEW v \in SignatureKinds[part]
    PROVE  [s EXCEPT ![part] = v] \in Signature
<1>1. CASE part = "entry"
  BY <1>1 DEF Signature, SignatureKinds
<1>2. CASE part = "protected"
  BY <1>2 DEF Signature, SignatureKinds
<1>3. CASE part = "headers"
  BY <1>3 DEF Signature, SignatureKinds
<1>4. CASE part = "unprotected"
  BY <1>4 DEF Signature, SignatureKinds
<1>5. CASE part = "bytes"
  BY <1>5 DEF Signature, SignatureKinds
<1>6. CASE part = "verifies"
  BY <1>6 DEF Signature, SignatureKinds
<1>7. part \in {"entry", "protected", "headers", "unprotected", "bytes", "verifies"}
  BY DEF SignatureKinds
<1> QED
  BY <1>1, <1>2, <1>3, <1>4, <1>5, <1>6, <1>7

LEMMA ChangedSignatures ==
    ASSUME NEW e \in Envelope, NEW i \in 1..2, NEW part \in DOMAIN SignatureKinds,
           NEW v \in SignatureKinds[part]
    PROVE  [e EXCEPT !.signature[i][part] = v] \in Envelope
<1> DEFINE s == [e.signature[i] EXCEPT ![part] = v]
           t == [e.signature EXCEPT ![i] = s]
<1>1. e.signature \in [1..2 -> Signature]
  BY DEF Envelope
<1>2. s \in Signature
  BY <1>1, ChangedSignature
<1>3. [e EXCEPT !.signature[i][part] = v] = [e EXCEPT !.signature = t]
  OBVIOUS
<1> HIDE DEF s
<1>4. t \in [1..2 -> Signature]
  BY <1>1, <1>2
<1> HIDE DEF t
<1>5. [e EXCEPT !.signature = t] \in Envelope
  BY <1>4 DEF Envelope
<1> QED
  BY <1>3, <1>5

\* What the verifiers are given is an envelope, whatever was changed in it.
EnvelopeOK == envelope \in Envelope

LEMMA EnvelopeStaysOK ==
    /\ EInit => EnvelopeOK
    /\ EnvelopeOK /\ [Change]_evars => EnvelopeOK'
<1>1. EInit => EnvelopeOK
  BY RightOK DEF EInit, EnvelopeOK
<1>2. ASSUME EnvelopeOK, Change PROVE EnvelopeOK'
  <2>1. ASSUME NEW part \in DOMAIN Parts, NEW v \in Parts[part],
               envelope' = [envelope EXCEPT ![part] = v]
        PROVE  EnvelopeOK'
    <3>1. part \in DOMAIN PartKinds /\ v \in PartKinds[part]
      BY <2>1, PartsAssumption
    <3> QED
      BY <1>2, <2>1, <3>1, ChangedPart DEF EnvelopeOK
  <2>2. ASSUME NEW i \in 1..2, NEW part \in DOMAIN SignatureParts,
               NEW v \in SignatureParts[part],
               envelope' = [envelope EXCEPT !.signature[i][part] = v]
        PROVE  EnvelopeOK'
    <3>1. part \in DOMAIN SignatureKinds /\ v \in SignatureKinds[part]
      BY <2>2, PartsAssumption
    <3> QED
      BY <1>2, <2>2, <3>1, ChangedSignatures DEF EnvelopeOK
  <2> QED
    BY <1>2, <2>1, <2>2 DEF Change
<1>3. ASSUME EnvelopeOK, UNCHANGED evars PROVE EnvelopeOK'
  BY <1>3 DEF evars, EnvelopeOK
<1> QED
  BY <1>1, <1>2, <1>3

-----------------------------------------------------------------------------
(* The right envelope, part by part *)

SignatureRight(s, i) ==
    /\ s.entry = "right" /\ s.protected = "right" /\ s.unprotected = "right"
    /\ s.bytes = "right" /\ s.verifies
    /\ s.headers = HeaderMap(<< <<1, Algorithm[i]>>, <<4, Kid>> >>)

PartsRight(e) ==
    /\ e.tag = "right" /\ e.outer = "right" /\ e.protected = "right"
    /\ e.headers = HeaderMap(<< <<3, ContentType>>, <<16, CoseType>> >>)
    /\ e.unprotected = "right" /\ e.payload = "right" /\ e.signatures = "right"
    /\ e.after = "nothing" /\ e.manifest = "accepted" /\ e.keys = "bound"

LEMMA RightParts ==
    /\ Right.size = "small" /\ PartsRight(Right)
    /\ \A i \in 1..2 : SignatureRight(Right.signature[i], i)
<1>1. Right.size = "small" /\ PartsRight(Right)
  BY DEF Right, PartsRight
<1>2. ASSUME NEW i \in 1..2 PROVE SignatureRight(Right.signature[i], i)
  <2> DEFINE h == HeaderMap(<< <<1, Algorithm[i]>>, <<4, Kid>> >>)
  <2>1. Right.signature[i] =
          [entry |-> "right", protected |-> "right", headers |-> h,
           unprotected |-> "right", bytes |-> "right", verifies |-> TRUE]
    BY DEF Right
  <2> HIDE DEF h
  <2>2. /\ Right.signature[i].entry = "right" /\ Right.signature[i].protected = "right"
        /\ Right.signature[i].unprotected = "right" /\ Right.signature[i].bytes = "right"
        /\ Right.signature[i].verifies = TRUE /\ Right.signature[i].headers = h
    BY <2>1
  <2> QED
    BY <2>2 DEF SignatureRight, h
<1> QED
  BY <1>1, <1>2

LEMMA OneRightSignature ==
    ASSUME NEW i, NEW s \in Signature, NEW t \in Signature,
           SignatureRight(s, i), SignatureRight(t, i)
    PROVE  s = t
<1> DEFINE h == HeaderMap(<< <<1, Algorithm[i]>>, <<4, Kid>> >>)
<1>1. /\ s.headers = h /\ t.headers = h
      /\ s.entry = "right" /\ s.protected = "right" /\ s.unprotected = "right"
      /\ s.bytes = "right" /\ s.verifies
      /\ t.entry = "right" /\ t.protected = "right" /\ t.unprotected = "right"
      /\ t.bytes = "right" /\ t.verifies
  BY DEF SignatureRight
<1> HIDE DEF h
<1>2. ASSUME NEW u \in Signature, u.headers = h, u.entry = "right", u.protected = "right",
             u.unprotected = "right", u.bytes = "right", u.verifies = TRUE
      PROVE  u = [entry |-> "right", protected |-> "right", headers |-> h,
                  unprotected |-> "right", bytes |-> "right", verifies |-> TRUE]
  BY <1>2 DEF Signature
<1>3. s.verifies = TRUE /\ t.verifies = TRUE
  BY <1>1 DEF Signature
<1> QED
  BY <1>1, <1>2, <1>3

LEMMA OneRightEnvelope ==
    ASSUME NEW e \in Envelope, e.size = "small", PartsRight(e),
           \A i \in 1..2 : e.signature[i] = Right.signature[i]
    PROVE  e = Right
<1> DEFINE h == HeaderMap(<< <<3, ContentType>>, <<16, CoseType>> >>)
           r == Right
<1>1. r \in Envelope /\ r.size = "small" /\ PartsRight(r)
  BY RightOK, RightParts
<1>2. e.signature = r.signature
  <2>1. e.signature \in [1..2 -> Signature] /\ r.signature \in [1..2 -> Signature]
    BY <1>1 DEF Envelope
  <2> QED
    BY <2>1
<1>3. /\ e.tag = "right" /\ e.outer = "right" /\ e.protected = "right" /\ e.headers = h
      /\ e.unprotected = "right" /\ e.payload = "right" /\ e.signatures = "right"
      /\ e.after = "nothing" /\ e.manifest = "accepted" /\ e.keys = "bound"
  BY DEF PartsRight
<1>4. /\ r.tag = "right" /\ r.outer = "right" /\ r.protected = "right" /\ r.headers = h
      /\ r.unprotected = "right" /\ r.payload = "right" /\ r.signatures = "right"
      /\ r.after = "nothing" /\ r.manifest = "accepted" /\ r.keys = "bound"
  BY <1>1 DEF PartsRight
<1> HIDE DEF h, r
<1>5. ASSUME NEW s, NEW f \in Envelope, f.size = "small", f.tag = "right",
             f.outer = "right", f.protected = "right", f.headers = h, f.unprotected = "right",
             f.payload = "right", f.signatures = "right", f.signature = s,
             f.after = "nothing", f.manifest = "accepted", f.keys = "bound"
      PROVE  f = [size |-> "small", tag |-> "right", outer |-> "right",
                  protected |-> "right", headers |-> h, unprotected |-> "right",
                  payload |-> "right", signatures |-> "right", signature |-> s,
                  after |-> "nothing", manifest |-> "accepted", keys |-> "bound"]
  BY <1>5 DEF Envelope
<1>6. e = r
  BY <1>1, <1>2, <1>3, <1>4, <1>5
<1> QED
  BY <1>6 DEF r

\* Where Rust finds no long item, there is none.
LEMMA ItemsShort ==
    ASSUME NEW e, "long" \notin Items(e)
    PROVE  /\ "long" \notin {e.outer, e.protected, e.unprotected, e.payload, e.signatures}
           /\ \A i \in 1..2 :
                 "long" \notin {e.signature[i].entry, e.signature[i].protected,
                               e.signature[i].unprotected, e.signature[i].bytes}
BY DEF Items, SignatureItems

-----------------------------------------------------------------------------
(* What each accepts *)

LEMMA AlgorithmsMean ==
    /\ \A i \in 1..2 : Algorithm[i] # "none"
    /\ ContentType # "none" /\ CoseType # "none" /\ Kid # "none"
    /\ Kid \notin {"another type", "empty"}
<1>1. Algorithm[1] = "-19" /\ Algorithm[2] = "-49"
  BY DEF Algorithm
<1>2. \A i \in 1..2 : Algorithm[i] # "none"
  BY <1>1
<1>3. ContentType # "none" /\ CoseType # "none" /\ Kid # "none"
  BY DEF ContentType, CoseType, Kid
<1>4. Kid \notin {"another type", "empty"}
  BY DEF Kid
<1> QED
  BY <1>2, <1>3, <1>4

\* A signature that Rust reads without an error, and whose items are short, is right as
\* soon as it names the manifest's key and verifies.
LEMMA RustSignatureRight ==
    ASSUME NEW s \in Signature, NEW i \in 1..2, RustSignature(s, Algorithm[i]) = <<>>,
           "long" \notin {s.entry, s.protected, s.unprotected, s.bytes},
           Pair(s.headers, 2)[2] = Kid, s.verifies
    PROVE  SignatureRight(s, i)
<1>1. /\ s.entry \notin Unreadable /\ s.protected \notin Unreadable
      /\ s.unprotected \notin Unreadable /\ s.bytes \notin Unreadable
      /\ s.bytes # "another size" /\ RustSignatureHeaders(s.headers, Algorithm[i]) = <<>>
  BY SignatureMeans
<1>2. /\ s.entry = "right" /\ s.protected = "right" /\ s.unprotected = "right"
      /\ s.bytes = "right"
  BY <1>1, ClassesMean DEF Signature
<1> DEFINE m == s.headers
<1>3. m \in HeaderMaps
  BY DEF Signature
<1>4. /\ m.shape \notin Unreadable /\ m.shape # "long" /\ m.after = "nothing"
      /\ Len(m.pairs) = 2
      /\ Pair(m, 1)[1] = 1 /\ Pair(m, 1)[2] = Algorithm[i]
      /\ Pair(m, 2)[1] = 4 /\ Pair(m, 2)[2] = Kid
  BY <1>1, SignatureHeadersMean
<1>5. m.shape = "right"
  <2>1. m.shape \in Classes
    BY <1>3 DEF HeaderMaps
  <2> QED
    BY <1>4, <2>1, ClassesMean
<1>6. m.pairs = << <<1, Algorithm[i]>>, <<4, Kid>> >>
  BY <1>3, <1>4, TwoPairs
<1>7. m = HeaderMap(<< <<1, Algorithm[i]>>, <<4, Kid>> >>)
  BY <1>3, <1>4, <1>5, <1>6, HeaderMapMeans
<1> QED
  BY <1>2, <1>7 DEF SignatureRight

LEMMA RustPartsRight ==
    ASSUME NEW e \in Envelope, RustVerifies(e) = "accepted"
    PROVE  PartsRight(e) /\ \A i \in 1..2 : e.signature[i] = Right.signature[i]
<1>1. /\ e.signature[1].verifies \in BOOLEAN /\ e.signature[2].verifies \in BOOLEAN
      /\ e.manifest \in Codes \cup {"accepted"} /\ e.headers \in HeaderMaps
  BY EnvelopeMeans
<1>2. /\ RustParse(e) = <<>> /\ e.manifest = "accepted"
      /\ RustBinding(e, e.signature[1]) = <<>> /\ RustBinding(e, e.signature[2]) = <<>>
  BY <1>1, RustMeans
<1>3. /\ e.tag = "right" /\ e.outer \notin Unreadable /\ e.protected \notin Unreadable
      /\ RustBodyHeaders(e.headers) = <<>>
      /\ e.unprotected \notin Unreadable /\ e.payload \notin Unreadable
      /\ e.signatures \notin Unreadable
      /\ RustSignature(e.signature[1], Algorithm[1]) = <<>>
      /\ RustSignature(e.signature[2], Algorithm[2]) = <<>>
      /\ e.after = "nothing" /\ "long" \notin Items(e)
  BY <1>2, ParseMeans
<1>4. /\ "long" \notin {e.outer, e.protected, e.unprotected, e.payload, e.signatures}
      /\ \A i \in 1..2 : "long" \notin {e.signature[i].entry, e.signature[i].protected,
                                       e.signature[i].unprotected, e.signature[i].bytes}
  BY <1>3, ItemsShort
<1>5. /\ e.keys = "bound"
      /\ \A i \in 1..2 : Pair(e.signature[i].headers, 2)[2] = Kid /\ e.signature[i].verifies
  <2>1. /\ e.keys = "bound"
        /\ Pair(e.signature[1].headers, 2)[2] = Kid /\ e.signature[1].verifies
    BY <1>1, <1>2, BindingMeans
  <2>2. Pair(e.signature[2].headers, 2)[2] = Kid /\ e.signature[2].verifies
    BY <1>1, <1>2, BindingMeans
  <2> QED
    BY <2>1, <2>2
<1>6. /\ e.outer = "right" /\ e.protected = "right" /\ e.unprotected = "right"
      /\ e.payload = "right" /\ e.signatures = "right"
  <2>1. /\ e.outer \in Classes /\ e.protected \in Classes /\ e.unprotected \in Classes
        /\ e.payload \in Classes /\ e.signatures \in Classes
    BY DEF Envelope
  <2> QED
    BY <1>3, <1>4, <2>1, ClassesMean
<1>7. e.headers = HeaderMap(<< <<3, ContentType>>, <<16, CoseType>> >>)
  <2> DEFINE m == e.headers
  <2>1. /\ m.shape \notin Unreadable /\ m.shape # "long" /\ m.after = "nothing"
        /\ Len(m.pairs) = 2
        /\ Pair(m, 1)[1] = 3 /\ Pair(m, 1)[2] = ContentType
        /\ Pair(m, 2)[1] = 16 /\ Pair(m, 2)[2] = CoseType
    BY <1>3, BodyHeadersMean
  <2>2. m.shape = "right"
    <3>1. m.shape \in Classes
      BY <1>1 DEF HeaderMaps
    <3> QED
      BY <2>1, <3>1, ClassesMean
  <2>3. m.pairs = << <<3, ContentType>>, <<16, CoseType>> >>
    BY <1>1, <2>1, TwoPairs
  <2> QED
    BY <1>1, <2>1, <2>2, <2>3, HeaderMapMeans
<1>8. \A i \in 1..2 : e.signature[i] = Right.signature[i]
  <2> SUFFICES ASSUME NEW i \in 1..2 PROVE e.signature[i] = Right.signature[i]
    OBVIOUS
  <2>1. e.signature[i] \in Signature /\ Right.signature[i] \in Signature
    BY RightOK, EnvelopeMeans
  <2>2. RustSignature(e.signature[i], Algorithm[i]) = <<>>
    BY <1>3
  <2>3. SignatureRight(e.signature[i], i)
    BY <1>4, <1>5, <2>1, <2>2, RustSignatureRight
  <2> QED
    BY <2>1, <2>3, RightParts, OneRightSignature
<1> QED
  BY <1>2, <1>3, <1>5, <1>6, <1>7, <1>8 DEF PartsRight

\* With another size the right envelope is still the right one.
LEMMA RustRight ==
    ASSUME NEW e \in Envelope, RustVerifies(e) = "accepted"
    PROVE  [e EXCEPT !.size = "small"] = Right
<1> DEFINE f == [e EXCEPT !["size"] = "small"]
<1>1. [e EXCEPT !.size = "small"] = f
  BY Zenon
<1>2. f \in Envelope
  <2>1. "size" \in DOMAIN PartKinds /\ "small" \in PartKinds["size"]
    BY DEF PartKinds
  <2> QED
    BY <2>1, ChangedPart
<1>3. /\ f.size = "small" /\ f.tag = e.tag /\ f.outer = e.outer /\ f.protected = e.protected
      /\ f.headers = e.headers /\ f.unprotected = e.unprotected /\ f.payload = e.payload
      /\ f.signatures = e.signatures /\ f.signature = e.signature /\ f.after = e.after
      /\ f.manifest = e.manifest /\ f.keys = e.keys
  BY DEF Envelope
<1> HIDE DEF f
<1>4. PartsRight(f)
  BY <1>3, RustPartsRight DEF PartsRight
<1>5. \A i \in 1..2 : f.signature[i] = Right.signature[i]
  BY <1>3, RustPartsRight
<1> QED
  BY <1>1, <1>2, <1>3, <1>4, <1>5, OneRightEnvelope

\* A signature that Python accepts is right, except that it may say true for the label 1.
LEMMA PythonSignatureRight ==
    ASSUME NEW s \in Signature, NEW i \in 1..2, PythonSignature(s, Algorithm[i]) = <<>>,
           s.verifies
    PROVE  /\ s.entry = "right" /\ s.protected = "right" /\ s.unprotected = "right"
           /\ s.bytes = "right"
           /\ SaysTrue(s, i) \/ SignatureRight(s, i)
<1> DEFINE m == s.headers
<1>1. /\ s.entry = "right" /\ s.unprotected = "right" /\ s.bytes = "right"
      /\ PythonHeaders(s.protected, m) = <<>> /\ Labels(m) \subseteq {1, 4}
      /\ Header(m, 1) = Algorithm[i] /\ Header(m, 4) = Kid
  BY PythonSignatureMeans
<1>2. /\ s.protected = "right" /\ Ascending(m) /\ LabelsOnce(m)
      /\ m.after = "nothing" /\ m.shape = "right"
  BY <1>1, HeadersMean
<1>3. m \in HeaderMaps
  BY DEF Signature
<1>4. Algorithm[i] # "none" /\ Kid # "none"
  BY AlgorithmsMean
<1>5. \A j \in 1..Len(m.pairs) : m.pairs[j][1] \in {1, 4, TRUE_BYTE}
  <2> SUFFICES ASSUME NEW j \in 1..Len(m.pairs) PROVE m.pairs[j][1] \in {1, 4, TRUE_BYTE}
    OBVIOUS
  <2>1. Label(m.pairs[j][1]) \in {1, 4}
    BY <1>1 DEF Labels
  <2> QED
    BY <2>1 DEF Label
<1>6. /\ 1 \in Nat /\ 4 \in Nat /\ TRUE_BYTE \in Nat /\ 1 < 4 /\ 4 < TRUE_BYTE
      /\ Label(1) = 1 /\ Label(4) = 4 /\ Label(TRUE_BYTE) = 1
  BY DEF Label, TRUE_BYTE
<1>7. CASE \A j \in 1..Len(m.pairs) : m.pairs[j][1] # TRUE_BYTE
  <2>1. \A j \in 1..Len(m.pairs) : m.pairs[j][1] \in {1, 4}
    BY <1>5, <1>7
  <2>2. m.pairs = << <<1, Algorithm[i]>>, <<4, Kid>> >>
    <3> HIDE DEF m
    <3> QED
      BY <1>1, <1>2, <1>3, <1>4, <1>6, <2>1, TwoHeaders
  <2>3. m = HeaderMap(<< <<1, Algorithm[i]>>, <<4, Kid>> >>)
    BY <1>2, <1>3, <2>2, HeaderMapMeans
  <2> QED
    BY <1>1, <1>2, <2>3 DEF SignatureRight
<1>8. CASE \E k \in 1..Len(m.pairs) : m.pairs[k][1] = TRUE_BYTE
  <2>1. PICK k \in 1..Len(m.pairs) : m.pairs[k][1] = TRUE_BYTE
    BY <1>8
  <2>2. \A j \in 1..Len(m.pairs) : m.pairs[j][1] \in {4, TRUE_BYTE}
    <3> SUFFICES ASSUME NEW j \in 1..Len(m.pairs), m.pairs[j][1] = 1 PROVE FALSE
      BY <1>5
    <3>1. j = k
      BY <1>2, <1>6, <2>1 DEF LabelsOnce
    <3> QED
      BY <1>6, <2>1, <3>1
  <2>3. m.pairs = << <<4, Kid>>, <<TRUE_BYTE, Algorithm[i]>> >>
    <3> HIDE DEF m
    <3> QED
      BY <1>1, <1>2, <1>3, <1>4, <1>6, <2>2, TwoHeaders
  <2> QED
    BY <1>1, <1>2, <2>3 DEF SaysTrue
<1> QED
  BY <1>1, <1>2, <1>7, <1>8

LEMMA PythonPartsRight ==
    ASSUME NEW e \in Envelope, PythonVerifies(e) = "accepted"
    PROVE  /\ e.size = "small" /\ PartsRight(e)
           /\ \A i \in 1..2 : e.signature[i].verifies
           /\ \A i \in 1..2 : PythonSignature(e.signature[i], Algorithm[i]) = <<>>
<1>1. e.manifest \in Codes \cup {"accepted"} /\ e.headers \in HeaderMaps
  BY EnvelopeMeans
<1>2. /\ e.size = "small" /\ e.after = "nothing"
      /\ e.tag = "right" /\ e.outer = "right" /\ e.unprotected = "right"
      /\ e.payload = "right" /\ PythonHeaders(e.protected, e.headers) = <<>>
      /\ Labels(e.headers) \subseteq {3, 16}
      /\ Header(e.headers, 3) = ContentType /\ Header(e.headers, 16) = CoseType
      /\ e.signatures = "right"
      /\ PythonSignature(e.signature[1], Algorithm[1]) = <<>>
      /\ PythonSignature(e.signature[2], Algorithm[2]) = <<>>
      /\ e.manifest = "accepted" /\ e.keys = "bound"
      /\ \A i \in 1..2 : ~(~e.signature[i].verifies)
  BY <1>1, PythonMeans
<1>3. \A i \in 1..2 : e.signature[i].verifies
  <2> SUFFICES ASSUME NEW i \in 1..2 PROVE e.signature[i].verifies
    OBVIOUS
  <2>1. e.signature[i].verifies \in BOOLEAN /\ ~(~e.signature[i].verifies)
    BY <1>2, EnvelopeMeans
  <2> QED
    BY <2>1
<1> DEFINE m == e.headers
<1>4. e.protected = "right" /\ Ascending(m) /\ m.after = "nothing" /\ m.shape = "right"
  BY <1>2, HeadersMean
<1>5. \A j \in 1..Len(m.pairs) : m.pairs[j][1] \in {3, 16}
  <2> SUFFICES ASSUME NEW j \in 1..Len(m.pairs) PROVE m.pairs[j][1] \in {3, 16}
    OBVIOUS
  <2>1. Label(m.pairs[j][1]) \in {3, 16}
    BY <1>2 DEF Labels
  <2> QED
    BY <2>1 DEF Label, TRUE_BYTE
<1>6. m.pairs = << <<3, ContentType>>, <<16, CoseType>> >>
  <2>1. ContentType # "none" /\ CoseType # "none"
    BY AlgorithmsMean
  <2> HIDE DEF m
  <2>2. Header(m, 3) = ContentType /\ Header(m, 16) = CoseType
    BY <1>2 DEF m
  <2>3. m \in HeaderMaps
    BY <1>1 DEF m
  <2>4. 3 \in Nat /\ 16 \in Nat /\ 3 < 16 /\ Label(3) = 3 /\ Label(16) = 16
    BY DEF Label, TRUE_BYTE
  <2> QED
    BY <1>4, <1>5, <2>1, <2>2, <2>3, <2>4, TwoHeaders
<1>7. m = HeaderMap(<< <<3, ContentType>>, <<16, CoseType>> >>)
  BY <1>1, <1>4, <1>6, HeaderMapMeans
<1>8. PartsRight(e)
  BY <1>2, <1>4, <1>7 DEF PartsRight
<1>9. \A i \in 1..2 : PythonSignature(e.signature[i], Algorithm[i]) = <<>>
  BY <1>2
<1> QED
  BY <1>2, <1>3, <1>8, <1>9

Mend(s, i) == IF SaysTrue(s, i) THEN [s EXCEPT !.headers = Right.signature[i].headers] ELSE s

\* Mended, what Python accepts is the right envelope.
LEMMA PythonRight ==
    ASSUME NEW e \in Envelope, PythonVerifies(e) = "accepted"
    PROVE  [e EXCEPT !.signature = [i \in 1..2 |-> Mend(e.signature[i], i)]] = Right
<1> DEFINE t == [i \in 1..2 |-> Mend(e.signature[i], i)]
           f == [e EXCEPT !.signature = t]
<1>1. /\ e.size = "small" /\ PartsRight(e)
      /\ \A i \in 1..2 : e.signature[i].verifies
      /\ \A i \in 1..2 : PythonSignature(e.signature[i], Algorithm[i]) = <<>>
  BY PythonPartsRight
<1>2. ASSUME NEW i \in 1..2
      PROVE  /\ Mend(e.signature[i], i) \in Signature
             /\ SignatureRight(Mend(e.signature[i], i), i)
  <2> DEFINE s == e.signature[i]
             h == Right.signature[i].headers
             u == [s EXCEPT !["headers"] = h]
  <2>1. s \in Signature /\ s.verifies
    BY <1>1, EnvelopeMeans
  <2>2. /\ s.entry = "right" /\ s.protected = "right" /\ s.unprotected = "right"
        /\ s.bytes = "right"
        /\ SaysTrue(s, i) \/ SignatureRight(s, i)
    <3>1. PythonSignature(s, Algorithm[i]) = <<>>
      BY <1>1
    <3> HIDE DEF s
    <3> QED
      BY <2>1, <3>1, PythonSignatureRight
  <2>3. CASE SaysTrue(s, i)
    <3>1. Mend(s, i) = u
      <4>1. Mend(s, i) = [s EXCEPT !.headers = h]
        BY <2>3 DEF Mend
      <4>2. [s EXCEPT !.headers = h] = u
        BY Zenon
      <4> QED
        BY <4>1, <4>2
    <3>2. /\ h \in HeaderMaps
          /\ h = HeaderMap(<< <<1, Algorithm[i]>>, <<4, Kid>> >>)
      BY RightHeaders
    <3> HIDE DEF s, h
    <3>3. u \in Signature
      <4>1. "headers" \in DOMAIN SignatureKinds /\ h \in SignatureKinds["headers"]
        BY <3>2 DEF SignatureKinds
      <4> QED
        BY <2>1, <4>1, ChangedSignature
    <3>4. /\ u.headers = h /\ u.entry = s.entry /\ u.protected = s.protected
          /\ u.unprotected = s.unprotected /\ u.bytes = s.bytes /\ u.verifies = s.verifies
      BY <2>1 DEF Signature
    <3> HIDE DEF u
    <3>5. SignatureRight(u, i)
      BY <2>1, <2>2, <3>2, <3>4 DEF SignatureRight
    <3> QED
      BY <3>1, <3>3, <3>5 DEF s
  <2>4. CASE ~SaysTrue(s, i)
    <3>1. Mend(s, i) = s
      BY <2>4 DEF Mend
    <3>2. SignatureRight(s, i)
      BY <2>2, <2>4
    <3> QED
      BY <2>1, <3>1, <3>2
  <2> QED
    BY <2>3, <2>4
<1>3. t \in [1..2 -> Signature] /\ \A i \in 1..2 : t[i] = Right.signature[i]
  <2>1. ASSUME NEW i \in 1..2 PROVE t[i] = Right.signature[i]
    <3>1. Right.signature[i] \in Signature /\ SignatureRight(Right.signature[i], i)
      BY RightOK, RightParts, EnvelopeMeans
    <3>2. t[i] = Mend(e.signature[i], i)
      OBVIOUS
    <3> QED
      BY <1>2, <3>1, <3>2, OneRightSignature
  <2>2. t \in [1..2 -> Signature]
    BY <1>2
  <2> QED
    BY <2>1, <2>2
<1> HIDE DEF t
<1>4. f \in Envelope
  BY <1>3 DEF Envelope
<1>5. /\ f.size = e.size /\ f.tag = e.tag /\ f.outer = e.outer /\ f.protected = e.protected
      /\ f.headers = e.headers /\ f.unprotected = e.unprotected /\ f.payload = e.payload
      /\ f.signatures = e.signatures /\ f.signature = t /\ f.after = e.after
      /\ f.manifest = e.manifest /\ f.keys = e.keys
  BY DEF Envelope
<1> HIDE DEF f
<1>6. PartsRight(f)
  BY <1>1, <1>5 DEF PartsRight
<1>7. f = Right
  BY <1>1, <1>3, <1>4, <1>5, <1>6, OneRightEnvelope
<1> QED
  BY <1>7 DEF f, t

-----------------------------------------------------------------------------
(* The right envelope is accepted *)

LEMMA RightReads ==
    /\ Reads(Right.headers, 3, ContentType, 16, CoseType)
    /\ \A i \in 1..2 : Reads(Right.signature[i].headers, 1, Algorithm[i], 4, Kid)
<1>1. 1 < 4 /\ 3 < 16 /\ TRUE_BYTE \notin {1, 3, 4, 16}
  BY DEF TRUE_BYTE
<1>2. Reads(Right.headers, 3, ContentType, 16, CoseType)
  BY <1>1, RightHeaders, TwoMean
<1>3. ASSUME NEW i \in 1..2
      PROVE  Reads(Right.signature[i].headers, 1, Algorithm[i], 4, Kid)
  BY <1>1, RightHeaders, TwoMean
<1> QED
  BY <1>2, <1>3

LEMMA RightParsed == RustParse(Right) = <<>>
<1> DEFINE r == Right
<1>1. r.size = "small" /\ PartsRight(r)
  BY RightParts
<1>2. "right" \notin Unreadable /\ "right" # "long" /\ "right" # "another size"
  BY DEF Unreadable
<1>3. RustBodyHeaders(r.headers) = <<>>
  BY <1>2, RightReads, BodyHeadersMean DEF Reads
<1>4. ASSUME NEW i \in 1..2 PROVE RustSignature(r.signature[i], Algorithm[i]) = <<>>
  <2> DEFINE s == r.signature[i]
  <2>1. /\ s.entry = "right" /\ s.protected = "right" /\ s.unprotected = "right"
        /\ s.bytes = "right"
    BY RightParts DEF SignatureRight
  <2>2. RustSignatureHeaders(s.headers, Algorithm[i]) = <<>>
    <3> DEFINE m == s.headers
               a == Algorithm[i]
    <3>1. Reads(m, 1, a, 4, Kid)
      BY RightReads
    <3> HIDE DEF m, a
    <3>2. /\ m.shape = "right" /\ m.after = "nothing" /\ Len(m.pairs) = 2
          /\ Pair(m, 1)[1] = 1 /\ Pair(m, 1)[2] = a /\ Pair(m, 2)[1] = 4
          /\ Pair(m, 2)[2] \notin {"another type", "empty"}
      BY <3>1, AlgorithmsMean DEF Reads
    <3>3. RustSignatureHeaders(m, a) = <<>>
      BY <1>2, <3>2, SignatureHeadersMean
    <3> QED
      BY <3>3 DEF m, a
  <2> HIDE DEF s
  <2>3. RustSignature(s, Algorithm[i]) = <<>>
    BY <1>2, <2>1, <2>2, SignatureMeans
  <2> QED
    BY <2>3 DEF s
<1>5. "long" \notin Items(r)
  <2>1. \A i \in 1..2 :
           /\ r.signature[i].entry = "right" /\ r.signature[i].protected = "right"
           /\ r.signature[i].unprotected = "right" /\ r.signature[i].bytes = "right"
    BY RightParts DEF SignatureRight
  <2> HIDE DEF r
  <2> QED
    BY <1>1, <2>1 DEF PartsRight, Items, SignatureItems
<1> HIDE DEF r
<1>6. RustParse(r) = <<>>
  BY <1>1, <1>2, <1>3, <1>4, <1>5, ParseMeans DEF PartsRight
<1> QED
  BY <1>6 DEF r

LEMMA AcceptsRight == RightIsAccepted
<1> DEFINE r == Right
<1>1. /\ r.size = "small" /\ PartsRight(r) /\ r.manifest \in Codes \cup {"accepted"}
      /\ \A i \in 1..2 :
            r.signature[i].verifies \in BOOLEAN /\ SignatureRight(r.signature[i], i)
  BY RightOK, RightParts, EnvelopeMeans
<1>2. RustVerifies(r) = "accepted"
  <2>1. ASSUME NEW i \in 1..2 PROVE RustBinding(r, r.signature[i]) = <<>>
    <3> DEFINE s == r.signature[i]
    <3>1. Pair(s.headers, 2)[2] = Kid
      BY RightReads DEF Reads
    <3>2. r.keys = "bound" /\ s.verifies
      BY <1>1 DEF PartsRight, SignatureRight
    <3>3. s.verifies \in BOOLEAN
      BY <1>1
    <3> HIDE DEF r, s
    <3>4. RustBinding(r, s) = <<>>
             <=> r.keys = "bound" /\ Pair(s.headers, 2)[2] = Kid /\ s.verifies
      BY <3>3, BindingMeans
    <3> QED
      BY <3>1, <3>2, <3>4 DEF s
  <2>2. r.manifest = "accepted"
    BY <1>1 DEF PartsRight
  <2> QED
    BY <1>1, <2>1, <2>2, RightParsed, RustMeans
<1>3. PythonVerifies(r) = "accepted"
  <2>1. ASSUME NEW i \in 1..2 PROVE PythonSignature(r.signature[i], Algorithm[i]) = <<>>
    <3> DEFINE s == r.signature[i]
               m == s.headers
    <3>1. /\ s.entry = "right" /\ s.protected = "right" /\ s.unprotected = "right"
          /\ s.bytes = "right"
      BY <1>1 DEF SignatureRight
    <3>2. /\ m.shape = "right" /\ m.after = "nothing" /\ Ascending(m) /\ LabelsOnce(m)
          /\ Labels(m) = {1, 4}
          /\ Header(m, 1) = Algorithm[i] /\ Header(m, 4) = Kid
      BY RightReads DEF Reads
    <3> HIDE DEF s
    <3>3. PythonHeaders(s.protected, m) = <<>>
      BY <3>1, <3>2, HeadersMean
    <3>4. PythonSignature(s, Algorithm[i]) = <<>>
      BY <3>1, <3>2, <3>3, PythonSignatureMeans
    <3> QED
      BY <3>4 DEF s
  <2>2. PythonItems(r) = <<>>
    BY <1>1, ItemsMean DEF PartsRight, SignatureRight
  <2>3. PythonHeaders(r.protected, r.headers) = <<>>
    BY <1>1, RightReads, HeadersMean DEF PartsRight, Reads
  <2>4. /\ Labels(r.headers) \subseteq {3, 16} /\ Header(r.headers, 3) = ContentType
        /\ Header(r.headers, 16) = CoseType
    BY RightReads DEF Reads
  <2>5. \A i \in 1..2 : r.signature[i].verifies
    BY <1>1 DEF SignatureRight
  <2>6. /\ r.size = "small" /\ r.after = "nothing" /\ r.tag = "right" /\ r.outer = "right"
        /\ r.unprotected = "right" /\ r.payload = "right" /\ r.signatures = "right"
        /\ r.manifest = "accepted" /\ r.keys = "bound"
    BY <1>1 DEF PartsRight
  <2>7. /\ PythonSignature(r.signature[1], Algorithm[1]) = <<>>
        /\ PythonSignature(r.signature[2], Algorithm[2]) = <<>>
    BY <2>1
  <2> HIDE DEF r
  <2> QED
    BY <1>1, <2>2, <2>3, <2>4, <2>5, <2>6, <2>7, PythonMeans
<1> QED
  BY <1>2, <1>3 DEF RightIsAccepted

-----------------------------------------------------------------------------
(* The theorem *)

LEMMA OneIsRight == EnvelopeOK => OneEnvelopeIsRight
<1> SUFFICES ASSUME EnvelopeOK PROVE OneEnvelopeIsRight
  OBVIOUS
<1> DEFINE Mended == [envelope EXCEPT !.signature = [i \in 1..2 |->
               IF SaysTrue(envelope.signature[i], i)
               THEN [envelope.signature[i] EXCEPT !.headers = Right.signature[i].headers]
               ELSE envelope.signature[i]]]
<1>1. RustVerifies(envelope) = "accepted" => [envelope EXCEPT !.size = "small"] = Right
  BY RustRight DEF EnvelopeOK
<1>2. PythonVerifies(envelope) = "accepted" => Mended = Right
  <2>1. Mended = [envelope EXCEPT !.signature =
                    [i \in 1..2 |-> Mend(envelope.signature[i], i)]]
    BY DEF Mend
  <2> HIDE DEF Mended
  <2> QED
    BY <2>1, PythonRight DEF EnvelopeOK
<1>3. OneEnvelopeIsRight <=>
        \/ envelope = Right /\ RightIsAccepted
        \/ /\ envelope # Right
           /\ RustVerifies(envelope) = "accepted"
                 => [envelope EXCEPT !.size = "small"] = Right
           /\ PythonVerifies(envelope) = "accepted" => Mended = Right
  BY DEF OneEnvelopeIsRight
<1> HIDE DEF Mended
<1> QED
  BY <1>1, <1>2, <1>3, AcceptsRight

\* Both verifiers accept the right envelope; of all that can be made of it, Rust accepts
\* it in another size and nothing else, Python nothing but what says true for the label 1
\* (the duplicates check of _CborDecoder.item leaves no place for both).
THEOREM OneEnvelopeStaysRight == ESpec => []OneEnvelopeIsRight
<1>1. ESpec => []EnvelopeOK
  BY EnvelopeStaysOK, PTL DEF ESpec
<1> QED
  BY <1>1, OneIsRight, PTL

=============================================================================
