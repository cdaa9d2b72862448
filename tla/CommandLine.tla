---------------------------- MODULE CommandLine ----------------------------
(***************************************************************************)
(* The arguments of tfws-cli (main.rs): parse_args takes them word by      *)
(* word, and output_format_hint looks at all of them beforehand, so that   *)
(* an error in the arguments can be written as it was asked for.           *)
(***************************************************************************)
EXTENDS Naturals, Sequences

CONSTANTS
    WORDS,          \* what arguments are made of
    OPTIONS,        \* the words that start with a dash
    RESTS,          \* what may stand behind a word that is refused
    MaxWords        \* bound on the words (for TLC)

INPUTS  == {"json", "cbor", "cose"}
OUTPUTS == {"human", "json"}

ASSUME WordsAssumption ==
    /\ OPTIONS \subseteq WORDS
    /\ {"--input-format", "--output-format"} \subseteq OPTIONS
    /\ OPTIONS \cap (INPUTS \cup OUTPUTS \cup {"validate"}) = {}
    /\ \A rest \in RESTS : rest \in Seq(WORDS)

VARIABLES
    args,           \* the words so far; parse_args consumes those it accepts
    expects,        \* what the next word is: "command", "argument", or a value
    input_format, output_format,
    path,           \* "none" or "given": which file it is makes no difference
    output_seen,
    hint,           \* error_output_format of main
    verdict         \* "parsing", "accepted", or the code of the error

avars == <<args, expects, input_format, output_format, path, output_seen, hint, verdict>>

AInit ==
    /\ args = <<>> /\ expects = "command"
    /\ input_format = "none" /\ output_format = "human" /\ path = "none"
    /\ output_seen = FALSE /\ hint = "human" /\ verdict = "parsing"

\* Mutant of OutputFormatHint: chunks(2) instead of windows(2).
OutputFormatHintChunks(words) ==
    IF \E i \in 1..(Len(words) - 1) :
          i % 2 = 1 /\ words[i] = "--output-format" /\ words[i + 1] = "json"
    THEN "json" ELSE "human"

\* output_format_hint: any two neighbours.
OutputFormatHint(words) ==
    IF \E i \in 1..(Len(words) - 1) :
          words[i] = "--output-format" /\ words[i + 1] = "json"
    THEN "json" ELSE "human"

Take(word) == args' = Append(args, word) /\ UNCHANGED <<hint, verdict>>

\* An error returns at once; the hint has seen the words behind it too.
Refuse(words, code) ==
    /\ verdict' = code
    /\ \E rest \in RESTS : args' = args \o words \o rest
    /\ hint' = OutputFormatHint(args')
    /\ UNCHANGED <<expects, input_format, output_format, path, output_seen>>

Command(word) ==
    /\ expects = "command"
    /\ \/ /\ word = "validate" /\ expects' = "argument" /\ Take(word)
          /\ UNCHANGED <<input_format, output_format, path, output_seen>>
       \/ word # "validate" /\ Refuse(<<word>>, "invalid_arguments")

\* One turn of the loop, up to the value of an option.
Argument(word) ==
    /\ expects = "argument"
    /\ \/ /\ word = "--input-format" /\ input_format = "none"
          /\ expects' = "input format" /\ Take(word)
          /\ UNCHANGED <<input_format, output_format, path, output_seen>>
       \/ /\ word = "--output-format" /\ ~output_seen
          /\ expects' = "output format" /\ Take(word)
          /\ UNCHANGED <<input_format, output_format, path, output_seen>>
       \/ /\ word \notin OPTIONS /\ path = "none" /\ path' = "given" /\ Take(word)
          /\ UNCHANGED <<expects, input_format, output_format, output_seen>>
       \/ /\ \/ word = "--input-format" /\ input_format # "none"
             \/ word = "--output-format" /\ output_seen
             \/ word \in OPTIONS \ {"--input-format", "--output-format"}
             \/ word \notin OPTIONS /\ path # "none"
          /\ Refuse(<<word>>, "invalid_arguments")

\* InputFormat::parse.
InputValue(word) ==
    /\ expects = "input format"
    /\ \/ /\ word \in INPUTS /\ input_format' = word /\ expects' = "argument"
          /\ Take(word) /\ UNCHANGED <<output_format, path, output_seen>>
       \/ word \notin INPUTS /\ Refuse(<<word>>, "unsupported_input_format")

\* OutputFormat::parse.
OutputValue(word) ==
    /\ expects = "output format"
    /\ \/ /\ word \in OUTPUTS /\ output_format' = word /\ output_seen' = TRUE
          /\ expects' = "argument" /\ Take(word)
          /\ UNCHANGED <<input_format, path>>
       \/ word \notin OUTPUTS /\ Refuse(<<word>>, "invalid_arguments")

Ready == expects = "argument" /\ input_format # "none" /\ path # "none"

\* args.next() has no more: the configuration is complete, and what else parse_args had
\* is gone with it, or something is missing.
NoMoreWords ==
    /\ verdict = "parsing" /\ hint' = OutputFormatHint(args)
    /\ \/ Ready /\ verdict' = "accepted" /\ args' = <<>> /\ output_seen' = FALSE
       \/ ~Ready /\ verdict' = "invalid_arguments" /\ UNCHANGED <<args, output_seen>>
    /\ UNCHANGED <<expects, input_format, output_format, path>>

NextWord ==
    /\ verdict = "parsing" /\ Len(args) < MaxWords
    /\ \E word \in WORDS :
          Command(word) \/ Argument(word) \/ InputValue(word) \/ OutputValue(word)

ANext == NextWord \/ NoMoreWords

ASpec == AInit /\ [][ANext]_avars

-----------------------------------------------------------------------------
(* Properties *)

\* README.md: "--output-format json returns a stable machine-readable error".  The
\* hint, which knows nothing of options and values, is json wherever parse_args had
\* understood that json is asked for, and is what an accepted line asks for.
OutputAsHinted ==
    /\ verdict \notin {"parsing", "accepted"} /\ output_format = "json" => hint = "json"
    /\ verdict = "accepted" => hint = output_format

=============================================================================
