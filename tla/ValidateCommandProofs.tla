------------------------ MODULE ValidateCommandProofs ------------------------
(***************************************************************************)
(* Theorems about ManifestPolicy, for any baseline without repetitions,    *)
(* any manifests to start from and any changes of them; about CommandLine, *)
(* for any words and any number of them; and about ValidateCommand, for    *)
(* any changes of manifests and of envelopes.                              *)
(***************************************************************************)
EXTENDS ValidateCommand, CoseEnvelopeProofs, FiniteSetTheorems, SequenceTheorems, TLAPS

-----------------------------------------------------------------------------
(* The manifest rules *)

\* Lists stay lists, and objects stay objects or arrays, whatever they say.
KindsOK == \A f \in DOMAIN Kinds : f \in DOMAIN manifest /\ manifest[f] \in Kinds[f]

LEMMA KindsKept == (Init => KindsOK) /\ (KindsOK /\ [Next]_vars => KindsOK')
<1>1. Init => KindsOK
  BY KindsAssumption DEF Init, KindsOK
<1>2. KindsOK /\ [Next]_vars => KindsOK'
  <2> SUFFICES ASSUME KindsOK, [Next]_vars, NEW f \in DOMAIN Kinds
               PROVE  f \in DOMAIN manifest' /\ manifest'[f] \in Kinds[f]
    BY DEF KindsOK
  <2>0. f \in DOMAIN manifest /\ manifest[f] \in Kinds[f]
    BY DEF KindsOK
  <2>1. CASE Edit
    <3>1. PICK member \in DOMAIN Values : \E v \in Values[member] :
             manifest' = [manifest EXCEPT ![member] = v]
      BY <2>1 DEF Edit
    <3>2. PICK v \in Values[member] : manifest' = [manifest EXCEPT ![member] = v]
      BY <3>1
    <3>3. CASE member = f
      <4>1. v \in Kinds[f]
        BY <3>2, <3>3, KindsAssumption
      <4> QED
        BY <2>0, <3>2, <3>3, <4>1
    <3>4. CASE member # f
      BY <2>0, <3>2, <3>4
    <3> QED
      BY <3>3, <3>4
  <2>2. CASE UNCHANGED vars
    BY <2>0, <2>2 DEF vars
  <2> QED
    BY <2>1, <2>2 DEF Next
<1> QED
  BY <1>1, <1>2

LEMMA KindsStayOK == Spec => []KindsOK
BY KindsKept, PTL DEF Spec

LEMMA KindsMean ==
    ASSUME KindsOK
    PROVE  /\ manifest.keys \in Seq(Descriptor)
           /\ manifest.artifacts \in Seq(Artifact)
           /\ manifest.form \in {"object", "array", "operator array", "policy array",
                                 "capabilities array", "descriptor array", "artifact array"}
           /\ manifest.bulk \in {"small", "medium", "large"}
BY DEF KindsOK, Kinds

LEMMA UpTo ==
    ASSUME NEW n \in Nat
    PROVE  IsFiniteSet(1..n) /\ Cardinality(1..n) = n
BY FS_Interval

\* As many baseline algorithms as the list has places.
LEMMA BaselineSize ==
    IsFiniteSet(Algorithms) /\ Cardinality(Algorithms) = Len(BASELINE)
<1> DEFINE n == Len(BASELINE)
           f == [i \in 1..n |-> BASELINE[i]]
<1>1. n \in Nat /\ IsFiniteSet(1..n) /\ Cardinality(1..n) = n
  <2>1. n \in Nat
    BY BaselineAssumption
  <2> QED
    BY <2>1, UpTo
<1>2. f \in Bijection(1..n, Algorithms)
  <2>1. f \in [1..n -> Algorithms]
    BY DEF Algorithms
  <2>2. \A i, j \in 1..n : f[i] = f[j] => i = j
    BY BaselineAssumption
  <2>3. \A a \in Algorithms : \E i \in 1..n : f[i] = a
    BY DEF Algorithms
  <2> QED
    BY <2>1, <2>2, <2>3 DEF Bijection, Injection, Surjection, IsInjective
<1>3. ExistsBijection(1..n, Algorithms)
  BY <1>2 DEF ExistsBijection
<1> QED
  BY <1>1, <1>3, FS_Bijection

\* Counting the descriptors and refusing repetitions is enough: one-to-one into a
\* set of the same size is onto.
LEMMA CountedIsComplete ==
    ASSUME NEW m, m.keys \in Seq(Descriptor),
           Len(m.keys) = Len(BASELINE),
           \A i \in 1..Len(m.keys) : RustActive(m.keys[i]),
           Distinct([i \in 1..Len(m.keys) |-> m.keys[i].algorithm])
    PROVE  \A a \in Algorithms : Cardinality(DescriptorsFor(m, a)) = 1
<1> DEFINE n == Len(m.keys)
           f == [i \in 1..n |-> m.keys[i].algorithm]
<1>1. n \in Nat /\ IsFiniteSet(1..n) /\ Cardinality(1..n) = n
  <2>1. n \in Nat
    OBVIOUS
  <2> QED
    BY <2>1, UpTo
<1>2. f \in [1..n -> Algorithms]
  BY DEF RustActive
<1>3. \A i, j \in 1..n : f[i] = f[j] => i = j
  <2>1. f \in Seq(Algorithms) /\ Len(f) = n
    BY <1>1, <1>2
  <2> QED
    BY <2>1 DEF Distinct
<1>4. f \in Injection(1..n, Algorithms)
  BY <1>2, <1>3 DEF Injection, IsInjective
<1>5. f \in Surjection(1..n, Algorithms)
  BY <1>1, <1>4, BaselineSize, FS_Injection
<1> SUFFICES ASSUME NEW a \in Algorithms
             PROVE  Cardinality(DescriptorsFor(m, a)) = 1
  OBVIOUS
<1>6. PICK k \in 1..n : f[k] = a
  BY <1>5 DEF Surjection
<1>7. DescriptorsFor(m, a) = {k}
  BY <1>3, <1>6 DEF DescriptorsFor, RustActive
<1> QED
  BY <1>7, FS_Singleton

\* Both check the descriptors with the same two rules.
LEMMA KindsMakeHybrid == KindsOK => AcceptedIsHybrid
<1> SUFFICES ASSUME KindsOK,
                    PythonAccepts(manifest, FALSE) \/ RustAccepts(manifest),
                    ~(manifest.environment = "development" /\ manifest.keys = <<>>)
             PROVE  \A a \in Algorithms : Cardinality(DescriptorsFor(manifest, a)) = 1
  BY DEF AcceptedIsHybrid
<1>1. /\ Len(manifest.keys) = Len(BASELINE)
      /\ \A i \in 1..Len(manifest.keys) : RustActive(manifest.keys[i])
      /\ Distinct([i \in 1..Len(manifest.keys) |-> manifest.keys[i].algorithm])
  <2>1. PythonKeys(manifest, TRUE) \/ RustKeys(manifest)
    BY DEF PythonAccepts, PythonValidates, RustAccepts, RustValidates
  <2> QED
    BY <2>1 DEF PythonKeys, RustKeys, Active, RustActive
<1>2. manifest.keys \in Seq(Descriptor)
  BY KindsMean
<1> QED
  BY <1>1, <1>2, CountedIsComplete

\* What validate_manifest or Manifest::validate accepts for staging or production
\* has exactly one active descriptor for each algorithm, for any baseline.
THEOREM AcceptedStaysHybrid == Spec => []AcceptedIsHybrid
BY KindsMakeHybrid, KindsStayOK, PTL

\* Whatever the manifest says, canonicalize and canonical_bytes write the same
\* optional members exactly when none of them is left out.
THEOREM CanonicalFormsStayAgreed == Spec => []CanonicalFormsAgree
<1>1. CanonicalFormsAgree
  <2> SUFFICES RustCanonical(manifest) = PythonCanonical(manifest)
                   <=> \A f \in Optional : manifest[f] # "absent"
    BY DEF CanonicalFormsAgree
  <2>1. ASSUME RustCanonical(manifest) = PythonCanonical(manifest)
        PROVE  \A f \in Optional : manifest[f] # "absent"
    <3>1. DOMAIN RustCanonical(manifest) = Optional
      BY DEF RustCanonical
    <3>2. DOMAIN PythonCanonical(manifest) = {o \in Optional : manifest[o] # "absent"}
      BY DEF PythonCanonical
    <3> QED
      BY <2>1, <3>1, <3>2
  <2>2. ASSUME \A f \in Optional : manifest[f] # "absent"
        PROVE  RustCanonical(manifest) = PythonCanonical(manifest)
    BY <2>2 DEF RustCanonical, PythonCanonical
  <2> QED
    BY <2>1, <2>2
<1> QED
  BY <1>1, PTL

\* The production gate of the verify command is not open to an unbound manifest: the
\* one environment that may be unbound is not the one the gate asks for.
THEOREM ProductionStaysSignable == Spec => []ProductionIsSignable
<1>1. ProductionIsSignable
  <2> SUFFICES ASSUME PythonAccepts(manifest, TRUE) PROVE PythonSigns(manifest)
    BY DEF ProductionIsSignable
  <2>1. PythonValidates(manifest, FALSE, TRUE) /\ PythonNumbers(manifest)
    BY DEF PythonAccepts
  <2>2. PythonKeys(manifest, TRUE) /\ manifest.environment = "production"
    BY <2>1 DEF PythonValidates
  <2>3. PythonKeys(manifest, FALSE)
    BY <2>2 DEF PythonKeys
  <2> QED
    BY <2>1, <2>3 DEF PythonSigns, PythonValidates
<1> QED
  BY <1>1, PTL

-----------------------------------------------------------------------------
(* Where the implementations differ *)

LEMMA FineArtifact ==
    ASSUME NEW a, a = [uri |-> "absolute", media_type |-> "text", sha512 |-> "right"]
    PROVE  /\ a.uri \in {"absolute", "relative"}
           /\ a.media_type \in {"text", "blank"} /\ a.sha512 = "right"
OBVIOUS

\* One rule list against the other.
LEMMA RustCovered ==
    ASSUME NEW m, RustValidates(m), ~RustAlone(m)
    PROVE  PythonValidates(m, TRUE, TRUE) /\ PythonNumbers(m)
<1>1. /\ m.form = "object" /\ m.subject \notin {"no slashes", "dot path"}
      /\ m.updated_at = "valid" /\ m.expires_at \in {"absent", "later"}
      /\ m.name # "separators"
      /\ \A i \in 1..Len(m.keys) : m.keys[i].defect # "separators"
  BY DEF RustAlone
<1>2. PythonFields(m)
  BY <1>1 DEF RustValidates, RustFields, PythonFields, PythonForm
<1>3. PythonSubject(m)
  BY <1>1 DEF RustValidates, RustSubject, PythonSubject
<1>4. PythonPolicy(m) /\ PythonKeys(m, TRUE)
  BY <1>1 DEF RustValidates, RustKeys, RustActive, Active, PythonPolicy, PythonKeys
<1>5. PythonCapabilities(m) /\ PythonTimes(m)
  BY <1>1 DEF RustValidates, RustCapabilities, PythonCapabilities, PythonTimes
<1>6. PythonOperator(m)
  BY <1>1 DEF RustValidates, RustOperator, PythonOperator
<1>7. PythonArtifacts(m)
  BY FineArtifact DEF RustValidates, RustArtifacts, PythonArtifacts
<1> QED
  BY <1>2, <1>3, <1>4, <1>5, <1>6, <1>7
  DEF RustValidates, PythonValidates, PythonNumbers

\* The other against the one.
LEMMA PythonCovered ==
    ASSUME KindsOK, PythonValidates(manifest, TRUE, TRUE), PythonNumbers(manifest),
           ~PythonAlone(manifest)
    PROVE  RustValidates(manifest) /\ manifest.identity \notin {"deep", "minus zero"}
<1>1. /\ PythonFields(manifest) /\ PythonSubject(manifest) /\ PythonPolicy(manifest)
      /\ PythonKeys(manifest, TRUE) /\ PythonCapabilities(manifest)
      /\ PythonOperator(manifest) /\ PythonArtifacts(manifest) /\ PythonNumbers(manifest)
      /\ manifest.tfws_version = "3.0" /\ manifest.key_epoch \in {"one", "largest"}
      /\ manifest.environment \in {"development", "staging", "production"}
  BY DEF PythonValidates
<1>2. /\ manifest.subject \notin {"empty query", "empty fragment", "empty params",
                                   "bad port", "invalid host"}
      /\ ~manifest.object /\ ~manifest.repeated
      /\ "number" \notin {manifest.name} \cup Members(manifest.optional)
      /\ manifest.jurisdiction # "A1" /\ manifest.identity \notin {"deep", "minus zero"}
      /\ \A i \in 1..Len(manifest.artifacts) :
            "relative" # manifest.artifacts[i].uri /\ "blank" # manifest.artifacts[i].media_type
  BY DEF PythonAlone
<1>3. RustFields(manifest)
  <2>1. RustForm(manifest) /\ manifest.missing = "none" /\ manifest.unknown = "none"
    BY <1>1 DEF PythonFields, PythonForm, RustForm
  <2>2. "number" \notin Members(manifest.required)
    BY <1>1, KnownAssumption DEF PythonCapabilities
  <2>3. \A c \in Members(manifest.required) \cup Members(manifest.optional) : c # "number"
    BY <1>2, <2>2
  <2> QED
    BY <1>2, <2>1, <2>3 DEF RustFields
<1>4. RustSubject(manifest)
  BY <1>1, <1>2 DEF PythonSubject, RustSubject
<1>5. RustKeys(manifest)
  <2>1. CASE manifest.keys = <<>>
    <3>1. Len(manifest.keys) # Len(BASELINE)
      BY <2>1, BaselineAssumption, EmptySeq
    <3> QED
      BY <1>1, <2>1, <3>1 DEF PythonKeys, RustKeys
  <2>2. CASE manifest.keys # <<>>
    BY <1>1, <2>2 DEF PythonKeys, RustKeys, Active, RustActive
  <2> QED
    BY <2>1, <2>2
<1>6. RustCapabilities(manifest)
  BY <1>1 DEF PythonCapabilities, RustCapabilities
<1>7. RustOperator(manifest)
  BY <1>1, <1>2 DEF PythonOperator, RustOperator
<1>8. RustArtifacts(manifest)
  <2> SUFFICES ASSUME NEW i \in 1..Len(manifest.artifacts)
               PROVE  manifest.artifacts[i] =
                        [uri |-> "absolute", media_type |-> "text", sha512 |-> "right"]
    BY DEF RustArtifacts
  <2>1. manifest.artifacts[i] \in Artifact
    BY KindsMean, ElementOfSeq
  <2>2. /\ manifest.artifacts[i].uri = "absolute"
        /\ manifest.artifacts[i].media_type = "text"
        /\ manifest.artifacts[i].sha512 = "right"
    BY <1>1, <1>2 DEF PythonArtifacts
  <2> QED
    BY <2>1, <2>2 DEF Artifact
<1> QED
  BY <1>1, <1>2, <1>3, <1>4, <1>5, <1>6, <1>7, <1>8
  DEF RustValidates, PythonPolicy, PythonNumbers

\* What Rust accepts beyond Python is text it does not check (the timestamps) or trim, a
\* URL its parser repairs, or an array in place of an object (Manifest::validate against
\* validate_manifest), as far as the model tells the values of members apart.
THEOREM RustAloneStaysHere == Spec => []RustAloneOnlyHere
<1>1. RustAloneOnlyHere
  BY RustCovered DEF RustAloneOnlyHere, RustAccepts, PythonAccepts
<1> QED
  BY <1>1, PTL

\* What Python accepts beyond Rust is a value it converts instead of checking its type,
\* a URL urlparse does not look into, an artifact text it does not read, or JSON that
\* serde_json refuses (validate_manifest against serde_json and Manifest::validate), as
\* far as the model tells the values of members apart.
THEOREM PythonAloneStaysHere == Spec => []PythonAloneOnlyHere
<1>1. KindsOK => PythonAloneOnlyHere
  BY PythonCovered DEF PythonAloneOnlyHere, RustAccepts, PythonAccepts
<1> QED
  BY <1>1, KindsStayOK, PTL

\* validateManifestShape refuses nothing Manifest::validate accepts, as long as the
\* baseline has the two algorithms that the shape check counts on.
THEOREM ShapeStaysWeaker ==
    ASSUME Len(BASELINE) = 2
    PROVE  Spec => []ShapeIsWeaker
<1>1. ShapeIsWeaker
  <2> SUFFICES ASSUME RustAccepts(manifest),
                      manifest.form \notin {"array", "policy array", "capabilities array"}
               PROVE  ScriptAccepts(manifest)
    BY DEF ShapeIsWeaker
  <2>1. ScriptForm(manifest)
    BY DEF ScriptForm
  <2>2. ScriptSubject(manifest)
    BY DEF RustAccepts, RustValidates, ScriptSubject
  <2>3. manifest.environment # "development" => Len(manifest.keys) = 2
    BY DEF RustAccepts, RustValidates, RustKeys
  <2>4. Members(manifest.required) \subseteq KNOWN
    BY DEF RustAccepts, RustValidates, RustCapabilities
  <2> QED
    BY <2>1, <2>2, <2>3, <2>4 DEF RustAccepts, RustValidates, RustFields, ScriptAccepts
<1> QED
  BY <1>1, PTL

-----------------------------------------------------------------------------
(* The command line *)

Ends(words, word) == words # <<>> /\ words[Len(words)] = word

\* What the hint says of the words so far is what parse_args has understood, because
\* "--output-format" is the last word exactly when its value is awaited.
ParsingOK ==
    /\ OutputFormatHint(args) = output_format
    /\ Ends(args, "--output-format") <=> expects = "output format"
    /\ expects = "output format" => ~output_seen
    /\ ~output_seen => output_format = "human"

LineInv ==
    /\ args \in Seq(WORDS)
    /\ verdict = "parsing" => ParsingOK
    /\ OutputAsHinted

LEMMA HintOfOneMore ==
    ASSUME NEW words \in Seq(WORDS), NEW word
    PROVE  /\ ~(Ends(words, "--output-format") /\ word = "json") =>
                 OutputFormatHint(Append(words, word)) = OutputFormatHint(words)
           /\ Ends(words, "--output-format") /\ word = "json" =>
                 OutputFormatHint(Append(words, word)) = "json"
<1> DEFINE more == Append(words, word)
           Asks(w, i) == w[i] = "--output-format" /\ w[i + 1] = "json"
<1>1. /\ Len(words) \in Nat /\ Len(more) = Len(words) + 1
      /\ \A i \in 1..Len(words) : more[i] = words[i]
      /\ more[Len(words) + 1] = word
  OBVIOUS
<1>2. words # <<>> <=> Len(words) > 0
  OBVIOUS
<1>3. ASSUME ~(Ends(words, "--output-format") /\ word = "json")
      PROVE  (\E i \in 1..(Len(more) - 1) : Asks(more, i))
                <=> \E i \in 1..(Len(words) - 1) : Asks(words, i)
  <2>1. ASSUME NEW i \in 1..(Len(more) - 1), Asks(more, i)
        PROVE  i \in 1..(Len(words) - 1) /\ Asks(words, i)
    <3>1. i # Len(words)
      BY <1>1, <1>2, <1>3, <2>1 DEF Ends
    <3> QED
      BY <1>1, <2>1, <3>1
  <2>2. ASSUME NEW i \in 1..(Len(words) - 1), Asks(words, i)
        PROVE  i \in 1..(Len(more) - 1) /\ Asks(more, i)
    BY <1>1, <2>2
  <2> QED
    BY <2>1, <2>2
<1>4. ASSUME Ends(words, "--output-format"), word = "json"
      PROVE  \E i \in 1..(Len(more) - 1) : Asks(more, i)
  <2>1. Len(words) \in 1..(Len(more) - 1) /\ Asks(more, Len(words))
    BY <1>1, <1>2, <1>4 DEF Ends
  <2> QED
    BY <2>1
<1> QED
  BY <1>3, <1>4 DEF OutputFormatHint

\* Words behind others take nothing back.
LEMMA HintStays ==
    ASSUME NEW words \in Seq(WORDS), NEW rest \in Seq(WORDS),
           OutputFormatHint(words) = "json"
    PROVE  OutputFormatHint(words \o rest) = "json"
<1>1. PICK i \in 1..(Len(words) - 1) :
         words[i] = "--output-format" /\ words[i + 1] = "json"
  BY DEF OutputFormatHint
<1>2. /\ i \in 1..(Len(words \o rest) - 1)
      /\ (words \o rest)[i] = words[i] /\ (words \o rest)[i + 1] = words[i + 1]
  OBVIOUS
<1> QED
  BY <1>1, <1>2 DEF OutputFormatHint

\* A word that is taken goes to the end of the line.
LEMMA TakeKeeps ==
    ASSUME LineInv, verdict = "parsing", NEW word \in WORDS, Take(word)
    PROVE  /\ args' \in Seq(WORDS) /\ verdict' = "parsing"
           /\ \A w : Ends(args, w)' <=> word = w
           /\ ~(expects = "output format" /\ word = "json")
                => OutputFormatHint(args)' = output_format
           /\ expects = "output format" /\ word = "json"
                => OutputFormatHint(args)' = "json"
<1>1. args \in Seq(WORDS) /\ ParsingOK
  BY DEF LineInv
<1>2. args' = Append(args, word) /\ verdict' = "parsing"
  BY DEF Take
<1>3. args' \in Seq(WORDS) /\ args' # <<>> /\ args'[Len(args')] = word
  BY <1>1, <1>2
<1>4. \A w : Ends(args, w)' <=> word = w
  BY <1>3 DEF Ends
<1>5. OutputFormatHint(args)' = OutputFormatHint(Append(args, word))
  BY <1>2 DEF OutputFormatHint
<1> QED
  BY <1>1, <1>2, <1>3, <1>4, <1>5, HintOfOneMore DEF ParsingOK

LEMMA RefuseKeeps ==
    ASSUME LineInv, verdict = "parsing", NEW word \in WORDS,
           NEW code \in {"invalid_arguments", "unsupported_input_format"},
           Refuse(<<word>>, code)
    PROVE  LineInv'
<1>1. args \in Seq(WORDS) /\ OutputFormatHint(args) = output_format
  BY DEF LineInv, ParsingOK
<1>2. PICK rest \in RESTS : args' = args \o <<word>> \o rest
  BY DEF Refuse
<1>3. rest \in Seq(WORDS) /\ <<word>> \in Seq(WORDS)
  BY WordsAssumption
<1>4. args \o <<word>> \in Seq(WORDS)
  BY <1>1, <1>3
<1>5. args' \in Seq(WORDS)
  BY <1>2, <1>3, <1>4
<1>6. output_format = "json" => hint' = "json"
  <2>1. OutputFormatHint(args) = "json" => OutputFormatHint(args \o <<word>>) = "json"
    BY <1>1, <1>3, HintStays
  <2>2. OutputFormatHint(args \o <<word>>) = "json" =>
          OutputFormatHint((args \o <<word>>) \o rest) = "json"
    BY <1>3, <1>4, HintStays
  <2>3. hint' = OutputFormatHint(args \o <<word>> \o rest)
    BY <1>2 DEF Refuse, OutputFormatHint
  <2> QED
    BY <1>1, <2>1, <2>2, <2>3
<1>7. verdict' = code /\ output_format' = output_format
  BY DEF Refuse
<1> QED
  BY <1>5, <1>6, <1>7 DEF LineInv, OutputAsHinted

\* One turn of the loop.
LEMMA WordKeeps == ASSUME LineInv, NextWord PROVE LineInv'
<1>1. verdict = "parsing" /\ ParsingOK
  BY DEF NextWord, LineInv
<1>2. PICK word \in WORDS :
         Command(word) \/ Argument(word) \/ InputValue(word) \/ OutputValue(word)
  BY DEF NextWord
<1>3. ASSUME Take(word), verdict' = "parsing" => ParsingOK'
      PROVE  LineInv'
  BY <1>1, <1>3, TakeKeeps DEF LineInv, OutputAsHinted
<1>4. CASE Command(word)
  <2>1. CASE Take(word)
    <3>1. word = "validate" /\ expects' = "argument"
             /\ UNCHANGED <<output_format, output_seen>>
      BY <1>1, <1>4, <2>1 DEF Command, Take, Refuse
    <3> QED
      BY <1>1, <1>3, <1>4, <2>1, <3>1, TakeKeeps DEF ParsingOK, Command
  <2>2. CASE Refuse(<<word>>, "invalid_arguments")
    BY <1>1, <2>2, RefuseKeeps
  <2> QED
    BY <1>4, <2>1, <2>2 DEF Command
<1>5. CASE Argument(word)
  <2>1. CASE Take(word)
    <3>1. /\ UNCHANGED <<output_format, output_seen>>
          /\ word = "--output-format" <=> expects' = "output format"
          /\ expects' = "output format" => ~output_seen
      BY <1>1, <1>5, <2>1, WordsAssumption DEF Argument, Take, Refuse
    <3> QED
      BY <1>1, <1>3, <1>5, <2>1, <3>1, TakeKeeps DEF ParsingOK, Argument
  <2>2. CASE Refuse(<<word>>, "invalid_arguments")
    BY <1>1, <2>2, RefuseKeeps
  <2> QED
    BY <1>5, <2>1, <2>2 DEF Argument
<1>6. CASE InputValue(word)
  <2>1. CASE word \in INPUTS
    <3>1. Take(word) /\ expects' = "argument" /\ UNCHANGED <<output_format, output_seen>>
      BY <1>6, <2>1 DEF InputValue
    <3>2. word # "--output-format"
      BY <2>1 DEF INPUTS
    <3> QED
      BY <1>1, <1>3, <1>6, <3>1, <3>2, TakeKeeps DEF ParsingOK, InputValue
  <2>2. CASE Refuse(<<word>>, "unsupported_input_format")
    BY <1>1, <2>2, RefuseKeeps
  <2> QED
    BY <1>6, <2>1, <2>2 DEF InputValue
<1>7. CASE OutputValue(word)
  <2>1. CASE word \in OUTPUTS
    <3>1. /\ Take(word) /\ expects' = "argument" /\ output_format' = word
          /\ output_seen' = TRUE
      BY <1>7, <2>1 DEF OutputValue
    <3>2. word \in {"human", "json"} /\ output_format = "human"
      BY <1>1, <1>7, <2>1 DEF OUTPUTS, ParsingOK, OutputValue
    <3>3. OutputFormatHint(args)' = word
      BY <1>1, <1>7, <3>1, <3>2, TakeKeeps DEF OutputValue
    <3>4. ~Ends(args, "--output-format")'
      BY <1>1, <3>1, <3>2, TakeKeeps
    <3> QED
      BY <1>3, <3>1, <3>3, <3>4 DEF ParsingOK
  <2>2. CASE Refuse(<<word>>, "invalid_arguments")
    BY <1>1, <2>2, RefuseKeeps
  <2> QED
    BY <1>7, <2>1, <2>2 DEF OutputValue
<1> QED
  BY <1>2, <1>4, <1>5, <1>6, <1>7

\* The end of the line.
LEMMA EndKeeps == ASSUME LineInv, NoMoreWords PROVE LineInv'
<1>1. /\ args \in Seq(WORDS) /\ hint' = output_format /\ output_format' = output_format
      /\ verdict' \in {"accepted", "invalid_arguments"}
      /\ args' = <<>> \/ args' = args
  BY DEF NoMoreWords, LineInv, ParsingOK
<1>2. args' \in Seq(WORDS)
  <2>1. << >> \in Seq(WORDS)
    OBVIOUS
  <2> QED
    BY <1>1, <2>1, Zenon
<1>3. OutputAsHinted'
  BY <1>1 DEF OutputAsHinted
<1> QED
  BY <1>1, <1>2, <1>3 DEF LineInv

\* Whatever the arguments are, errors and results are written in the format that
\* parse_args has understood, however output_format_hint reads the words.
THEOREM OutputStaysAsHinted == ASpec => []OutputAsHinted
<1>1. AInit => LineInv
  <2> SUFFICES ASSUME AInit PROVE LineInv
    OBVIOUS
  <2>1. args = <<>> /\ Len(args) = 0 /\ args \in Seq(WORDS)
    BY DEF AInit
  <2>2. OutputFormatHint(args) = "human"
    BY <2>1 DEF OutputFormatHint
  <2> QED
    BY <2>1, <2>2 DEF AInit, LineInv, ParsingOK, OutputAsHinted, Ends
<1>2. LineInv /\ [ANext]_avars => LineInv'
  <2> SUFFICES ASSUME LineInv, [ANext]_avars PROVE LineInv'
    OBVIOUS
  <2>1. CASE NextWord
    BY <2>1, WordKeeps
  <2>2. CASE NoMoreWords
    BY <2>2, EndKeeps
  <2>3. CASE UNCHANGED avars
    BY <2>3 DEF avars, LineInv, ParsingOK, OutputAsHinted, OutputFormatHint, Ends
  <2> QED
    BY <2>1, <2>2, <2>3 DEF ANext
<1>3. LineInv => OutputAsHinted
  BY DEF LineInv
<1> QED
  BY <1>1, <1>2, <1>3, PTL DEF ASpec

-----------------------------------------------------------------------------
(* The decoders *)

LEMMA CborMeans ==
    ASSUME NEW m
    PROVE  /\ CborCode(m) \in Codes \cup {"accepted"}
           /\ CborCode(m) = "accepted" <=> RustDecodes(m)
<1> DEFINE w1 == When(m.bulk = "large" \/ m.identity \in {"nested", "deep", "wide"},
                      "resource_limit")
           w2 == When(\/ m.identity \in {"null", "float", "out of range"}
                      \/ m.key_epoch \in {"float", "too large"}
                      \/ "null" \in {m.jurisdiction, m.expires_at}, "unsupported_cbor_type")
           w3 == When(m.repeated, "non_deterministic_cbor")
           all == w1 \o w2 \o w3
<1>1. w1 \in Errors /\ w2 \in Errors /\ w3 \in Errors
  BY OneError, NoError, CodesMean DEF When
<1>2. CborCode(m) = IF RustDecodes(m) THEN "accepted"
                    ELSE FirstError(all, "manifest_policy_invalid")
  BY DEF CborCode
<1> HIDE DEF w1, w2, w3
<1>3. all \in Errors
  BY <1>1, Joined
<1> HIDE DEF all
<1>4. FirstError(all, "manifest_policy_invalid") \in Codes
  <2>1. all # <<>> => all[1] \in Codes
    BY <1>3 DEF Errors
  <2> QED
    BY <2>1, CodesMean DEF FirstError
<1> QED
  BY <1>2, <1>4, CodesMean

LEMMA PythonCodeMeans ==
    ASSUME NEW m
    PROVE  /\ PythonCode(m) \in Codes \cup {"accepted"}
           /\ PythonCode(m) = "accepted" <=> PythonDecodes(m)
BY CodesMean DEF PythonCode

LEMMA EnclosingOK ==
    ASSUME KindsOK, EnvelopeOK, NEW code \in Codes \cup {"accepted"}
    PROVE  /\ Enclosing(code) \in Envelope
           /\ Enclosing(code).manifest = code
           /\ Enclosing(code).size = Larger(envelope.size, manifest.bulk)
           /\ Enclosing(code).signature = envelope.signature
           /\ manifest.keys = <<>> => Enclosing(code).keys = "unbound"
<1>1. manifest.bulk \in {"small", "medium", "large"}
  BY KindsMean
<1>2. Larger(envelope.size, manifest.bulk) \in {"small", "medium", "large"}
  BY <1>1 DEF Larger, EnvelopeOK, Envelope
<1> QED
  BY <1>2 DEF Enclosing, EnvelopeOK, Envelope

\* An envelope that is accepted is of a manifest that is accepted and has keys.
LEMMA EnclosedMeans ==
    ASSUME KindsOK, EnvelopeOK, NEW code \in Codes \cup {"accepted"},
           \/ RustVerifies(Enclosing(code)) = "accepted"
           \/ PythonVerifies(Enclosing(code)) = "accepted"
    PROVE  code = "accepted" /\ manifest.keys # <<>>
<1> DEFINE e == Enclosing(code)
<1>1. /\ e.manifest = code /\ e.signature = envelope.signature
      /\ manifest.keys = <<>> => e.keys = "unbound"
  BY EnclosingOK
<1>2. /\ e.manifest \in Codes \cup {"accepted"}
      /\ e.signature[1].verifies \in BOOLEAN /\ e.signature[2].verifies \in BOOLEAN
  BY <1>1, EnvelopeMeans DEF EnvelopeOK
<1>3. CASE RustVerifies(e) = "accepted"
  <2> HIDE DEF e
  <2>1. e.manifest = "accepted" /\ RustBinding(e, e.signature[1]) = <<>>
    BY <1>2, <1>3, RustMeans
  <2>2. e.keys = "bound"
    BY <1>2, <2>1, BindingMeans
  <2> QED
    BY <1>1, <2>1, <2>2
<1>4. CASE PythonVerifies(e) = "accepted"
  <2> HIDE DEF e
  <2>1. e.manifest = "accepted" /\ e.keys = "bound"
    BY <1>2, <1>4, PythonMeans
  <2> QED
    BY <1>1, <2>1
<1> QED
  BY <1>3, <1>4

-----------------------------------------------------------------------------
(* The theorem *)

FormatOK == file # "unread" => verdict = "accepted"

CommandOK == KindsOK /\ EnvelopeOK /\ FormatOK

LEMMA FormatKept == (VInit => FormatOK) /\ (FormatOK /\ [VNext]_vvars => FormatOK')
<1>1. VInit => FormatOK
  BY DEF VInit, FormatOK
<1>2. ASSUME FormatOK, Arguments PROVE FormatOK'
  BY <1>2 DEF Arguments, ANext, NextWord, NoMoreWords, FormatOK
<1>3. ASSUME FormatOK, ReadFile PROVE FormatOK'
  BY <1>3 DEF ReadFile, avars, FormatOK
<1>4. ASSUME FormatOK, ManifestSays \/ EnvelopeSays \/ UNCHANGED vvars PROVE FormatOK'
  BY <1>4 DEF ManifestSays, EnvelopeSays, vvars, avars, FormatOK
<1> QED
  BY <1>1, <1>2, <1>3, <1>4 DEF VNext

LEMMA CommandStaysOK == VSpec => []CommandOK
<1>1. VInit => CommandOK
  BY KindsKept, EnvelopeStaysOK, FormatKept DEF VInit, CommandOK
<1>2. CommandOK /\ [VNext]_vvars => CommandOK'
  <2> SUFFICES ASSUME CommandOK, [VNext]_vvars PROVE CommandOK'
    OBVIOUS
  <2>1. [Next]_vars /\ [Change]_evars
    <3>1. CASE Arguments
      BY <3>1 DEF Arguments
    <3>2. CASE ReadFile
      BY <3>2 DEF ReadFile
    <3>3. CASE ManifestSays
      BY <3>3 DEF ManifestSays, Next
    <3>4. CASE EnvelopeSays
      BY <3>4 DEF EnvelopeSays
    <3>5. CASE UNCHANGED vvars
      BY <3>5 DEF vvars
    <3> QED
      BY <3>1, <3>2, <3>3, <3>4, <3>5 DEF VNext
  <2> QED
    BY <2>1, KindsKept, EnvelopeStaysOK, FormatKept DEF CommandOK
<1> QED
  BY <1>1, <1>2, PTL DEF VSpec

\* What the two decoders make of the CBOR form.
LEMMA DecodersCover ==
    ASSUME KindsOK
    PROVE  /\ RustDecodes(manifest) /\ ~RustAlone(manifest) /\ manifest.bulk # "medium"
                => PythonDecodes(manifest) /\ manifest.bulk = "small"
           /\ /\ PythonDecodes(manifest) /\ ~PythonAlone(manifest)
              /\ manifest.identity \notin {"text", "wide"}
              => RustDecodes(manifest)
<1>1. ASSUME RustDecodes(manifest), ~RustAlone(manifest), manifest.bulk # "medium"
      PROVE  PythonDecodes(manifest) /\ manifest.bulk = "small"
  <2>1. manifest.bulk = "small"
    BY <1>1, KindsMean DEF RustDecodes
  <2>2. PythonValidates(manifest, TRUE, TRUE) /\ PythonNumbers(manifest)
    BY <1>1, RustCovered DEF RustDecodes
  <2>3. ~manifest.repeated
    BY <1>1 DEF RustDecodes, RustValidates, RustFields
  <2> QED
    BY <1>1, <2>1, <2>2, <2>3 DEF RustDecodes, PythonDecodes
<1>2. ASSUME PythonDecodes(manifest), ~PythonAlone(manifest),
             manifest.identity \notin {"text", "wide"}
      PROVE  RustDecodes(manifest)
  <2>1. RustValidates(manifest)
    BY <1>2, PythonCovered DEF PythonDecodes
  <2> QED
    BY <1>2, <2>1 DEF PythonDecodes, RustDecodes
<1> QED
  BY <1>1, <1>2

\* The exit code of a file in its own format.
LEMMA ExitMeans ==
    ASSUME CommandOK, file = input_format, file \in {"cbor", "cose"}
    PROVE  /\ file = "cbor" => (ExitCode = 0 <=> RustDecodes(manifest))
           /\ file = "cose" =>
                (ExitCode = 0
                   <=> RustVerifies(Enclosing(CborCode(manifest))) = "accepted")
<1>1. verdict = "accepted" /\ file # "missing"
  BY DEF CommandOK, FormatOK
<1>2. ExitCode = 0 <=> Code(file, file) = "accepted"
  BY <1>1 DEF ExitCode
<1>3. file = "cbor" => Code(file, file) = CborCode(manifest)
  BY DEF Code, CborOf
<1>4. file = "cose" => Code(file, file) = RustVerifies(Enclosing(CborCode(manifest)))
  BY DEF Code
<1> QED
  BY <1>2, <1>3, <1>4, CborMeans

\* Envelopes: the one that is right is accepted by both, if its manifest is.
LEMMA RustCarriesOver ==
    ASSUME CommandOK, RustVerifies(Enclosing(CborCode(manifest))) = "accepted",
           ~RustAlone(manifest), manifest.bulk # "medium", envelope.size # "medium"
    PROVE  PythonVerifies(Enclosing(PythonCode(manifest))) = "accepted"
<1> DEFINE code == CborCode(manifest)
           e == Enclosing(code)
<1>1. /\ e \in Envelope /\ e.size = Larger(envelope.size, manifest.bulk)
      /\ code \in Codes \cup {"accepted"}
  BY CborMeans, EnclosingOK DEF CommandOK
<1>2. code = "accepted" /\ RustDecodes(manifest)
  BY CborMeans, EnclosedMeans DEF CommandOK
<1>3. PythonDecodes(manifest) /\ manifest.bulk = "small"
  BY <1>2, DecodersCover DEF CommandOK
<1>4. Enclosing(PythonCode(manifest)) = e
  BY <1>2, <1>3, PythonCodeMeans
<1> HIDE DEF e
<1>5. e.size = "small"
  <2>1. e.size # "large"
    <3>1. /\ e.manifest \in Codes \cup {"accepted"}
          /\ e.signature[1].verifies \in BOOLEAN /\ e.signature[2].verifies \in BOOLEAN
      BY <1>1, EnvelopeMeans
    <3>2. RustParse(e) = <<>>
      BY <3>1, RustMeans DEF e
    <3> QED
      BY <3>2, ParseMeans
  <2>2. envelope.size \in {"small", "medium", "large"}
    BY DEF CommandOK, EnvelopeOK, Envelope
  <2> QED
    BY <1>1, <1>3, <2>1, <2>2 DEF Larger
<1>6. e = Right
  <2>1. [e EXCEPT !.size = "small"] = Right
    BY <1>1, RustRight DEF e
  <2> QED
    BY <1>1, <1>5, <2>1 DEF Envelope
<1> QED
  BY <1>4, <1>6, AcceptsRight DEF RightIsAccepted

LEMMA PythonCarriesOver ==
    ASSUME CommandOK, PythonVerifies(Enclosing(PythonCode(manifest))) = "accepted",
           ~PythonAlone(manifest), manifest.identity \notin {"text", "wide"},
           \A i \in 1..2 : ~SaysTrue(envelope.signature[i], i)
    PROVE  RustVerifies(Enclosing(CborCode(manifest))) = "accepted"
<1> DEFINE code == PythonCode(manifest)
           e == Enclosing(code)
<1>1. /\ e \in Envelope /\ e.signature = envelope.signature
      /\ code \in Codes \cup {"accepted"}
  BY PythonCodeMeans, EnclosingOK DEF CommandOK
<1>2. code = "accepted" /\ PythonDecodes(manifest)
  BY PythonCodeMeans, EnclosedMeans DEF CommandOK
<1>3. RustDecodes(manifest)
  BY <1>2, DecodersCover DEF CommandOK
<1>4. Enclosing(CborCode(manifest)) = e
  BY <1>2, <1>3, CborMeans
<1> HIDE DEF e
<1>5. e = Right
  <2>1. [e EXCEPT !.signature = [i \in 1..2 |-> Mend(e.signature[i], i)]] = Right
    BY <1>1, PythonRight DEF e
  <2>2. \A i \in 1..2 : Mend(e.signature[i], i) = e.signature[i]
    BY <1>1 DEF Mend
  <2>3. e.signature \in [1..2 -> Signature]
    BY <1>1, EnvelopeMeans
  <2>4. [i \in 1..2 |-> Mend(e.signature[i], i)] = e.signature
    BY <2>2, <2>3
  <2> QED
    BY <1>1, <2>1, <2>4 DEF Envelope
<1> QED
  BY <1>4, <1>5, AcceptsRight DEF RightIsAccepted

\* For any words on the command line, any manifest and any envelope around it, exit code
\* 0 carries over to the Python reference and back, but for the differences it lists
\* (validate_bytes against decode_manifest_cbor and verify_manifest_cose_conformance).
THEOREM VerdictsAlwaysCarryOver == VSpec => []VerdictsCarryOver
<1>1. CommandOK => VerdictsCarryOver
  <2> SUFFICES ASSUME CommandOK, file = input_format, file \in {"cbor", "cose"}
               PROVE  /\ ExitCode = 0 /\ ~PythonSays(file) =>
                            \/ RustAlone(manifest) \/ manifest.bulk = "medium"
                            \/ file = "cose" /\ envelope.size = "medium"
                      /\ PythonSays(file) /\ ExitCode # 0 =>
                            \/ PythonAlone(manifest) \/ manifest.identity \in {"text", "wide"}
                            \/ /\ file = "cose"
                               /\ \E i \in 1..2 : SaysTrue(envelope.signature[i], i)
    BY DEF VerdictsCarryOver
  <2>1. CASE file = "cbor"
    <3>1. PythonSays(file) <=> PythonDecodes(manifest)
      BY <2>1 DEF PythonSays
    <3> QED
      BY <2>1, <3>1, ExitMeans, DecodersCover DEF CommandOK
  <2>2. CASE file = "cose"
    <3>1. PythonSays(file)
             <=> PythonVerifies(Enclosing(PythonCode(manifest))) = "accepted"
      BY <2>2 DEF PythonSays
    <3> QED
      BY <2>2, <3>1, ExitMeans, RustCarriesOver, PythonCarriesOver
  <2> QED
    BY <2>1, <2>2
<1> QED
  BY <1>1, CommandStaysOK, PTL

=============================================================================
