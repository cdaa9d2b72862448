--------------------------- MODULE MCConformance ---------------------------
(* ValidateCommand, CborCodec, WitnessQuorum and Recovery for TLC. *)
EXTENDS ValidateCommand, CborCodec, WitnessQuorum, Recovery

MCBaseline == <<"ed25519", "ml-dsa-65">>

Key(a, d) == [algorithm |-> a, defect |-> d]
Ed == Key("ed25519", "none")
Ml == Key("ml-dsa-65", "none")
File(u, t, h) == [uri |-> u, media_type |-> t, sha512 |-> h]

\* The manifest of `tfws init', and one that is bound and says everything.
MCUnbound ==
    [form |-> "object", tfws_version |-> "3.0", subject |-> "origin",
     environment |-> "development", name |-> "text", jurisdiction |-> "absent",
     key_epoch |-> "one", policy_id |-> "baseline", algorithms |-> MCBaseline, object |-> FALSE,
     keys |-> <<>>, required |-> <<"core.v1">>, optional |-> <<>>,
     identity |-> "absent", artifacts |-> <<>>, updated_at |-> "valid",
     expires_at |-> "later", missing |-> "none", unknown |-> "none",
     repeated |-> FALSE, bulk |-> "small"]
MCGood ==
    {MCUnbound,
     [MCUnbound EXCEPT !.environment = "production", !.keys = <<Ed, Ml>>,
        !.jurisdiction = "SK", !.identity = "object",
        !.artifacts = <<File("absolute", "text", "right")>>]}

MCValues ==
    [form |-> {"array", "policy array", "operator array", "capabilities array",
               "descriptor array", "artifact array"},
     tfws_version |-> {"2.9"},
     subject |-> {"origin/", "empty query", "empty fragment", "empty params", "bad port",
                  "invalid host", "no slashes", "dot path", "path", "credentials", "http"},
     environment |-> {"development", "staging", "production", "test"},
     name |-> {"blank", "separators", "number", "absent"},
     jurisdiction |-> {"absent", "null", "SK", "sk", "A1", "SVK"},
     key_epoch |-> {"zero", "largest", "too large", "float", "true"},
     policy_id |-> {"other", "absent"},
     algorithms |-> {<<"ml-dsa-65", "ed25519">>, <<"ed25519">>,
                     <<"ed25519", "ml-dsa-65", "ed25519">>},
     object |-> {TRUE},
     keys |-> {<<>>, <<Ed>>, <<Ed, Ml>>, <<Ml, Ed>>, <<Ed, Ed>>, <<Ed, Ml, Ml>>,
               <<Ed, Key("rsa", "none")>>}
              \cup {<<Ed, Key("ml-dsa-65", d)>> : d \in
                      {"key_id", "separators", "public_key_uri", "public_key_sha256",
                       "status", "usage"}},
     required |-> {<<>>, <<"core.v1", "core.v1">>, <<"core.v1", "agent.v1">>,
                   <<"recovery.v1">>, <<"number">>},
     optional |-> {<<"agent.v1">>, <<"core.v1">>, <<"agent.v1", "agent.v1">>, <<"number">>},
     identity |-> {"absent", "null", "object", "text", "float", "out of range",
                   "minus zero", "nested", "deep", "wide"},
     artifacts |-> {<<>>, <<File("absolute", "text", "wrong")>>}
                   \cup {<<File(u, t, "right")>> : u \in {"absolute", "relative", ""},
                                                  t \in {"text", "blank", ""}},
     updated_at |-> {"no zone", "garbage"},
     expires_at |-> {"absent", "null", "earlier", "garbage"},
     missing |-> {"subject", "keys", "artifacts", "capabilities", "updated_at"},
     unknown |-> {"top", "nested"},
     repeated |-> {TRUE}, bulk |-> {"medium", "large"}]

-----------------------------------------------------------------------------
(* The command line *)

MCOptions == {"--input-format", "--output-format", "--version"}
MCWords == MCOptions \cup INPUTS \cup OUTPUTS \cup {"validate", "manifest"}
MCRests == {<<>>, <<"json">>, <<"--output-format">>, <<"--output-format", "json">>}

-----------------------------------------------------------------------------
(* CBOR inputs *)

Item(type, form, arg, cut) == [type |-> type, form |-> form, arg |-> arg, cut |-> cut]
Plain(type, arg) == Item(type, "short", arg, "no")

\* Texts: two of one byte, one of two, one that is not UTF-8, one longer than
\* Python's limit and one longer than both.
MCText == <<1, 1, 2, 1, 5, 9>>
MCHeads ==
    {Plain(type, 1) : type \in {"uint", "bytes", "tag", "bool"}}
    \cup {Plain("nint", 2), Plain("null", 0), Plain("other", 0)}
    \cup {Plain("text", n) : n \in 1..5}
    \cup {Plain(type, n) : type \in {"array", "map"}, n \in 0..3}
    \cup {Item("uint", "long", 1, "no"), Item("nint", "indefinite", 0, "no"),
          Item("text", "short", 6, "body"), Item("text", "long", 1, "no"),
          Item("text", "indefinite", 1, "no"), Item("map", "long", 1, "head"),
          Item("map", "indefinite", 0, "no"), Item("array", "reserved", 0, "no")}
MCRust   == [bytes |-> 8, pairs |-> 2, text |-> 8]
MCPython == [bytes |-> 7, pairs |-> 3, text |-> 4]

-----------------------------------------------------------------------------
(* Envelopes *)

Wrong == {"indefinite", "long", "cut", "another type"}

\* A header map in another form, or with other pairs in it.
Malformed(pairs) ==
    {[HeaderMap(pairs) EXCEPT !.shape = c] : c \in Wrong}
    \cup {[HeaderMap(pairs) EXCEPT !.after = "trailing"]}

BodyPairs ==
    LET content == <<3, ContentType>>  type == <<16, CoseType>>
    IN  {<<>>, <<content>>, <<type>>, <<type, content>>, <<content, content>>,
         << <<1, Algorithm[1]>>, type>>, << <<3, CoseType>>, type>>,
         <<content, <<16, ContentType>> >>, << <<3, "another type">>, type>>,
         <<content, type, <<17, "any">> >>}
SignaturePairs(algorithm) ==
    LET alg == <<1, algorithm>>  kid == <<4, Kid>>
    IN  {<<>>, <<alg>>, <<alg, kid>>, <<kid, alg>>, <<kid, <<TRUE_BYTE, algorithm>> >>,
         << <<1, Algorithm[1]>>, kid, <<TRUE_BYTE, algorithm>> >>,
         <<alg, kid, <<5, "any">> >>}
        \cup {<<alg, <<4, other>> >> : other \in {"another", "empty", "another type"}}

MCParts ==
    [size |-> {"medium", "large"}, tag |-> {"another tag", "untagged", "long"},
     outer |-> Wrong \cup {"another count"}, protected |-> Wrong \cup {"null", "float"},
     headers |-> Malformed(Right.headers.pairs) \cup {HeaderMap(p) : p \in BodyPairs},
     unprotected |-> Wrong \cup {"not empty"}, payload |-> Wrong \cup {"null"},
     signatures |-> Wrong \cup {"another count"}, after |-> {"trailing"},
     keys |-> {"another digest"}]
MCSignatureParts ==
    [entry |-> Wrong \cup {"another count"}, protected |-> Wrong,
     headers |-> UNION {Malformed(Right.signature[i].headers.pairs) : i \in 1..2}
        \cup {HeaderMap(p) : p \in UNION {SignaturePairs(Algorithm[i]) : i \in 1..2}},
     unprotected |-> Wrong \cup {"not empty"}, bytes |-> Wrong \cup {"another size"},
     verifies |-> {FALSE}]

-----------------------------------------------------------------------------
(* Recovery *)

\* Requests that are right, lower the epoch, give no reason, have no time lock, or a
\* created_at that is no instant.
MCRequest == [old_epoch |-> 1, new_epoch |-> 2, reason |-> "lost key",
              created_at |-> 0, execute_after |-> 2]
MCRequests ==
    {MCRequest, [MCRequest EXCEPT !.new_epoch = 1], [MCRequest EXCEPT !.reason = "blank"],
     [MCRequest EXCEPT !.execute_after = 0], [MCRequest EXCEPT !.created_at = -1]}

-----------------------------------------------------------------------------
(* The four share nothing, so that one moves while the others have not begun. *)

CommandBegun == args # <<>> \/ verdict # "parsing"
QuorumBegun == \E w \in WITNESSES \ FAULTY : signed[w] # {}
Begun(part) ==
    CASE part = "command" -> CommandBegun
      [] part = "codec"   -> input # <<>> \/ closed
      [] part = "quorum"  -> QuorumBegun \/ \E c \in CLIENTS : shown[c] # NONE
      [] part = "recovery" -> approvals # {} \/ now > 0
PARTS == {"command", "codec", "quorum", "recovery"}
Moves(part) == \A other \in PARTS \ {part} : ~Begun(other)

\* Which request and which manifest the others start from makes no difference to them.
First == manifest = MCUnbound /\ request = MCRequest

MCInit == VInit /\ CInit /\ WInit /\ RInit
MCNext ==
    \/ Moves("command") /\ request = MCRequest /\ VNext /\ UNCHANGED <<cvars, wvars, rvars>>
    \/ Moves("codec") /\ First /\ CNext /\ UNCHANGED <<vvars, wvars, rvars>>
    \/ Moves("quorum") /\ First /\ WNext /\ UNCHANGED <<vvars, cvars, rvars>>
    \/ /\ Moves("recovery") /\ manifest = MCUnbound
       /\ RNext /\ UNCHANGED <<vvars, cvars, wvars>>
MCSpec == MCInit /\ [][MCNext]_<<vvars, cvars, wvars, rvars>>
=============================================================================
