------------------------------ MODULE CborCodec ------------------------------
(***************************************************************************)
(* The deterministic CBOR form of a manifest: the strict decoder and the   *)
(* encoder of tfws-core (cbor.rs) and the decoder of the Python reference  *)
(* (canonical.py), all reading one input.                                  *)
(*                                                                         *)
(* An input is a sequence of heads, chosen one at a time.  The recursion   *)
(* of the decoders is a stack of the arrays and maps that are open; the    *)
(* two decoders have the same one for as long as both read.  A value that  *)
(* has been read is kept as its deterministic encoding, which encode_value *)
(* would make of it.  The encoder reads the same heads as a value.         *)
(***************************************************************************)
EXTENDS Checks

CONSTANTS
    HEADS,          \* what an input may be made of: [type, form, arg, cut]
    TEXT,           \* number of bytes of each text; texts are in bytewise order
    UTF8,           \* the texts that are valid UTF-8
    SAFE,           \* the greatest integer of the profile
    DEPTH, ITEMS,   \* nesting and array limit, the same in both
    RUST, PYTHON,   \* the other limits: [bytes, pairs, text]
    MaxHeads        \* bound on the input (for TLC)

ASSUME LimitsAssumption ==
    /\ DEPTH \in Nat /\ ITEMS \in Nat /\ SAFE \in Nat
    /\ RUST \in [bytes : Nat, pairs : Nat, text : Nat]
    /\ PYTHON \in [bytes : Nat, pairs : Nat, text : Nat]

Major == [uint |-> 0, nint |-> 1, bytes |-> 2, text |-> 3, array |-> 4, map |-> 5,
          tag |-> 6, bool |-> 7, null |-> 8, other |-> 9]

\* arg is the value of an integer, the number of a text or of a byte string's bytes,
\* the count of an array or map.  A form other than "short" is an argument longer
\* than it has to be ("long"), of indefinite length or reserved (28 to 30).  cut says
\* where the input ends within the item.
Heads ==
    {h \in [type : DOMAIN Major, form : {"short", "long", "indefinite", "reserved"},
            arg : Nat, cut : {"no", "head", "body"}] :
        /\ h.type = "text" => h.arg \in DOMAIN TEXT
        /\ h.type = "bool" => h.form = "short" /\ h.cut = "no"}

ASSUME HeadsAssumption ==
    /\ TEXT \in Seq(Nat)
    /\ HEADS \subseteq Heads

VARIABLES
    input,          \* the heads read so far
    offset,         \* decoder.position(), self.offset
    stack,          \* the root and the open arrays and maps
    rust, python,   \* "reading", or what the decoder says of the input
    encoder,        \* the same for encode_manifest_cbor and the value of the input
    closed          \* the end of the input has been reached

cvars == <<input, offset, stack, rust, python, encoder, closed>>

Short(h) == [h EXCEPT !.form = "short"]

Bytes(h) == (IF h.form = "long" THEN 2 ELSE 1)
              + (IF h.type = "text" /\ h.cut = "no" THEN TEXT[h.arg] ELSE 0)

Size(heads) ==
    LET size[n \in 0..Len(heads)] == IF n = 0 THEN 0 ELSE size[n - 1] + Bytes(heads[n])
    IN  size[Len(heads)]

\* An encoded key as compare_encoded_keys and the Python decoder see it: by length,
\* then bytewise.
KeyBytes(h) ==
    <<Bytes(h), Major[h.type], IF h.form = "long" THEN 1 ELSE 0, h.arg>>

Less(a, b) ==
    \E i \in 1..4 : a[i] < b[i] /\ \A j \in 1..(i - 1) : a[j] = b[j]

\* encode_value writes the entries of a map in the order of their keys, so an entry is
\* kept at its place among those before it.  The first head of an entry is its key.
Insert(entries, entry) ==
    LET before == {i \in DOMAIN entries : Less(KeyBytes(entries[i][1]), KeyBytes(entry[1]))}
    IN  InsertAt(entries, Cardinality(before) + 1, entry)

Open(h, key) ==
    [head |-> h, left |-> h.arg, key |-> key, name |-> h, seen |-> {}, done |-> <<>>]

Root == Open([type |-> "array", form |-> "short", arg |-> 1, cut |-> "no"], FALSE)

Top   == stack[Len(stack)]
Level == Len(stack) - 1
Complete == Len(stack) = 1 /\ Top.left = 0
Value == stack[1].done[1]      \* of the whole document, once it is complete

\* A map with a key that is no text is read to its end, and then refused.
PythonReads == python \in {"reading", "reading on"}

CInit ==
    /\ input = <<>> /\ offset = 0 /\ stack = <<Root>>
    /\ rust = "reading" /\ python = "reading" /\ encoder = "reading"
    /\ closed = FALSE

-----------------------------------------------------------------------------
(* What each makes of the next head *)

TooLarge(h, limits) ==
    \/ h.type = "text" /\ TEXT[h.arg] > limits.text
    \/ h.type = "array" /\ h.arg > ITEMS
    \/ h.type = "map" /\ h.arg > limits.pairs

\* MAX_SAFE_INTEGER, the same in both and for both signs.
Unsafe(h) == h.type \in {"uint", "nint"} /\ h.arg > SAFE

\* decode_value.
RustValue(h) ==
    FirstError(
        When(Level > DEPTH, "resource_limit")
        \o When(h.form = "indefinite" /\ h.type \in {"bytes", "text", "array", "map"},
                "non_deterministic_cbor")
        \o When(h.form \in {"reserved", "indefinite"}, "unsupported_cbor_type")
        \o When(h.type \in {"bytes", "tag", "null", "other"}, "unsupported_cbor_type")
        \o When(h.cut # "no" \/ (h.type = "text" /\ h.arg \notin UTF8), "malformed_cbor")
        \o When(Unsafe(h), "unsupported_cbor_type")
        \o When(TooLarge(h, RUST), "resource_limit"), "reading")

\* The keys in decode_map: the names are compared first, then the bytes.
RustKey(h) ==
    FirstError(
        When(h.type = "text" /\ h.form = "indefinite", "non_deterministic_cbor")
        \o When(h.type # "text" \/ h.form = "reserved", "unsupported_cbor_type")
        \o When(h.cut # "no" \/ h.arg \notin UTF8, "malformed_cbor")
        \o When(TooLarge(h, RUST), "resource_limit")
        \o When(h.arg \in Top.seen, "non_deterministic_cbor")
        \o When(Top.seen # {}
                /\ ~Less(KeyBytes(Top.name), KeyBytes(h)), "non_deterministic_cbor"), "reading")

\* Mutant of PythonArgument: the smallest value of a width is not looked at.
PythonArgumentLong(h) ==
    When(h.form = "indefinite", "non_deterministic_cbor")
    \o When(h.form = "reserved" \/ h.cut = "head", "malformed_cbor")

\* _argument, for every item but those of major type 7.
PythonArgument(h) ==
    When(h.form = "indefinite", "non_deterministic_cbor")
    \o When(h.form = "reserved" \/ h.cut = "head", "malformed_cbor")
    \o When(h.form = "long", "non_deterministic_cbor")

\* `key in result', for what the order of the encodings lets through: to a dictionary
\* true is 1 and false is 0, behind every integer key.
AnotherKey(h) ==
    h.type = "bool" /\ \E i \in DOMAIN Top.done :
        Top.done[i][1].type = "uint" /\ Top.done[i][1].arg = h.arg

\* _CborDecoder.item.  A key is an item of its own, one level deeper; a scalar key is
\* compared at once, any other is refused when it is complete (Close).
PythonItem(h) ==
    FirstError(
        When(Level > DEPTH, "resource_limit")
        \o When(h.type \in {"null", "other"}, "unsupported_cbor_type")
        \o PythonArgument(h)
        \o When(Unsafe(h), "unsupported_cbor_type")
        \o When(TooLarge(h, PYTHON), "resource_limit")
        \o When(h.cut # "no", "malformed_cbor")
        \o When(h.type \in {"bytes", "tag"}, "unsupported_cbor_type")
        \o When(h.type = "text" /\ h.arg \notin UTF8, "malformed_cbor")
        \o When(Top.key /\ h.type \notin {"array", "map"} /\ Top.seen # {}
                /\ (~Less(KeyBytes(Top.name), KeyBytes(h)) \/ AnotherKey(h)),
                "non_deterministic_cbor"), "reading")

\* What serde_json can have as a value, or as a name that is new in its map.
IsValue(h) ==
    /\ h.type \notin {"bytes", "tag"} /\ h.form \in {"short", "long"} /\ h.cut = "no"
    /\ h.type = "text" => h.arg \in UTF8
    /\ Top.key => h.type = "text" /\ h.arg \notin Top.seen

\* validate_value_profile and validate_number; encode_value repeats their rules.
EncoderValue(h) ==
    FirstError(
        When(~IsValue(h), "no value")
        \o When(~Top.key /\ Level > DEPTH, "resource_limit")
        \o When(h.type \in {"null", "other"}, "unsupported_cbor_type")
        \o When(Unsafe(h), "unsupported_cbor_type")
        \o When(TooLarge(h, RUST), "resource_limit"), "reading")

-----------------------------------------------------------------------------
(* Steps *)

\* The item under way in the topmost of s is complete; e is its encoding.
Deliver(s, h, e) ==
    LET f == s[Len(s)]
        g == IF f.key THEN [f EXCEPT !.key = FALSE, !.name = h, !.seen = @ \cup {h.arg}]
             ELSE IF f.head.type = "map"
             THEN [f EXCEPT !.key = TRUE, !.left = @ - 1,
                            !.done = Insert(@, <<Short(f.name)>> \o e)]
             ELSE [f EXCEPT !.left = @ - 1, !.done = Append(@, e)]
    IN  [s EXCEPT ![Len(s)] = g]

\* The next head: decode_value, decode_array and decode_map up to their loops.
ReadHead ==
    /\ ~closed /\ Top.left > 0 /\ Len(input) < MaxHeads
    /\ rust = "reading" \/ PythonReads
    /\ \E h \in HEADS :
        /\ input' = Append(input, h)
        /\ offset' = offset + Bytes(h)
        /\ rust' = IF rust # "reading" THEN rust
                   ELSE IF Top.key THEN RustKey(h) ELSE RustValue(h)
        /\ python' = IF ~PythonReads THEN python
                     ELSE IF PythonItem(h) # "reading" THEN PythonItem(h)
                     ELSE IF Top.key /\ h.type # "text" THEN "reading on" ELSE python
        /\ encoder' = IF encoder = "reading" THEN EncoderValue(h) ELSE encoder
        /\ stack' = IF rust' # "reading" /\ ~PythonReads' THEN stack
                    ELSE IF h.type \in {"array", "map"}
                    THEN Append(stack, Open(h, h.type = "map"))
                    ELSE Deliver(stack, h, <<Short(h)>>)
    /\ UNCHANGED closed

\* An array or a map is complete and returned to the one it is in.  Python refuses
\* one that is a key.
Close ==
    /\ ~closed /\ Len(stack) > 1 /\ Top.left = 0 /\ (rust = "reading" \/ PythonReads)
    /\ stack' = Deliver(Front(stack), Top.head, <<Short(Top.head)>> \o FlattenSeq(Top.done))
    /\ python' = IF PythonReads /\ stack[Level].key
                 THEN "unsupported_cbor_type" ELSE python
    /\ UNCHANGED <<input, offset, rust, encoder, closed>>

\* Mutant of RustEnd: the document is not encoded again.
RustEndUnchecked(rest) ==
    FirstError(
        When(offset + rest > RUST.bytes, "resource_limit")
        \o When(rust # "reading", rust)
        \o When(Top.left > 0 /\ ~Top.key /\ Level > DEPTH, "resource_limit")
        \o When(Top.left > 0 \/ rest > 0, "malformed_cbor")
        \o When(Complete /\ input[1].type \notin {"map", "array"}, "manifest_policy_invalid"),
                "accepted")

\* decode_manifest_cbor around decode_value.  The size is the first thing it looks at;
\* serde refuses what is no map and no array, and judges the rest by the manifest rules.
RustEnd(rest) ==
    FirstError(
        When(offset + rest > RUST.bytes, "resource_limit")
        \o When(rust # "reading", rust)
        \o When(Top.left > 0 /\ ~Top.key /\ Level > DEPTH, "resource_limit")
        \o When(Top.left > 0 \/ rest > 0, "malformed_cbor")
        \o When(Complete /\ Value # input, "non_deterministic_cbor")
        \o When(Complete /\ input[1].type \notin {"map", "array"}, "manifest_policy_invalid"),
                "accepted")

\* _decode_cbor_document, then decode_manifest_cbor and _validate_manifest_cbor_value,
\* which refuses the keys that are no text.
PythonEnd(rest) ==
    FirstError(
        When(offset + rest > PYTHON.bytes, "resource_limit")
        \o When(~PythonReads, python)
        \o When(Top.left > 0 /\ Level > DEPTH, "resource_limit")
        \o When(Top.left > 0 \/ rest > 0, "malformed_cbor")
        \o When(Complete /\ input[1].type # "map", "manifest_policy_invalid")
        \o When(python = "reading on", "unsupported_cbor_type"), "accepted")

\* encode_manifest_cbor_with_limits: the size of what was written comes last.
EncoderEnd ==
    FirstError(
        When(encoder # "reading", encoder)
        \o When(~Complete, "no value")
        \o When(Complete /\ Size(Value) > RUST.bytes, "resource_limit"), "accepted")

\* The input ends: before a head, within one, or rest bytes after the document or
\* after the place where both had stopped.
End ==
    /\ ~closed /\ closed' = TRUE
    /\ rust = "reading" \/ PythonReads => Top.left > 0 \/ Len(stack) = 1
    /\ \E rest \in 0..2 :
        /\ rest > 0 => (rust = "reading" \/ PythonReads => Top.left = 0)
        /\ rest > 0 => input = <<>> \/ input[Len(input)].cut = "no"
        /\ rust' = RustEnd(rest) /\ python' = PythonEnd(rest) /\ encoder' = EncoderEnd
        /\ offset' = offset + rest
    /\ UNCHANGED <<input, stack>>

CNext == ReadHead \/ Close \/ End

CSpec == CInit /\ [][CNext]_cvars

-----------------------------------------------------------------------------
(* Properties *)

\* No limit in which the decoders differ is touched.
WithinBoth ==
    /\ offset <= RUST.bytes /\ offset <= PYTHON.bytes
    /\ \A i \in 1..Len(input) :
        /\ input[i].type = "map" =>
              input[i].arg <= RUST.pairs /\ input[i].arg <= PYTHON.pairs
        /\ input[i].type = "text" =>
              TEXT[input[i].arg] <= RUST.text /\ TEXT[input[i].arg] <= PYTHON.text

\* spec/CBOR-COSE.md section 6: a value has one encoding.  Python never encodes what it
\* has read, so its checks of single heads and of neighbouring keys must amount to it;
\* and the Rust decoder takes back what the Rust encoder writes, up to every limit.
EncodingIsUnique ==
    /\ closed /\ python = "accepted" => input = Value
    /\ closed /\ rust = "accepted" => encoder = "accepted"
    /\ /\ closed /\ Complete /\ encoder = "accepted"
       /\ input = Value /\ offset = Size(Value) /\ input[1].type \in {"map", "array"}
       => rust = "accepted"

\* spec/CBOR-COSE.md section 12: both accept the same inputs, but for what their limits
\* leave open and for an array, which serde takes for a struct.  When every argument is
\* in its short form and keys are texts, they also give the same reason.
DecodersAgree ==
    closed /\ WithinBoth =>
        /\ python = "accepted" => rust = "accepted"
        /\ rust = "accepted" => python = "accepted" \/ input[1].type = "array"
        /\ (\A i \in 1..Len(input) : input[i].form = "short" /\ input[i].cut = "no")
             => \/ rust \in {python, "unsupported_cbor_type"}
                \/ python = "manifest_policy_invalid"
                \/ python = "resource_limit" /\ Top.key

=============================================================================
