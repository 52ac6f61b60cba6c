---------------------------- MODULE CommandArguments ----------------------------
(***************************************************************************)
(* cli/arguments.ts: the command line, from its tokens to an invocation.   *)
(*                                                                         *)
(* A token is [text, inline]: what precedes its first "=" and, <<>> for a  *)
(* token without one, <<what follows>>.  A value after a space has no "="  *)
(* here.  An invocation is [kind, ...], of kind "help", "version",         *)
(* "usage-error" or "run"; a run has [command, inputs, out, runId,         *)
(* corpusDigest, designatedOracle, corpusRoot, strictInputs, strict], its  *)
(* inputs a function from the flags given to the sequence of their values. *)
(***************************************************************************)
EXTENDS SequencesExt

Commands == {"compile", "seal", "preflight", "score", "aggregate-strength"}

(* The input flags of a command, in the order in which a usage error names *)
(* them.                                                                   *)
InputKeys(command) ==
    CASE command \in {"compile", "seal"} -> <<"--in">>
      [] command = "preflight" -> <<"--contract", "--probes", "--observations">>
      [] command = "score" ->
            <<"--record", "--isolation-manifest", "--evaluator-configuration", "--contract",
              "--probe", "--preflight-verdict", "--policy", "--private-manifest">>
      [] command = "aggregate-strength" -> <<"--evidence", "--floors", "--policy">>

OptionalInputKeys ==
    {"--in", "--isolation-manifest", "--evaluator-configuration", "--private-manifest"}

RepeatableInputKeys == {"--record", "--evidence"}

(* The flags of one command that take a value and name no input.           *)
NamingFlags(command) ==
    {"--out"} \cup
        CASE command = "preflight" -> {"--run-id"}
          [] command = "score" -> {"--corpus-digest", "--corpus-root", "--designated-oracle"}
          [] OTHER -> {}

RequiredFlags(command) ==
    (ToSet(InputKeys(command)) \ OptionalInputKeys) \cup
        CASE command = "preflight" -> {"--run-id"}
          [] command = "score" -> {"--corpus-digest"}
          [] OTHER -> {}

ValueFlags(command) == ToSet(InputKeys(command)) \cup NamingFlags(command)

(* Every flag that takes a value.                                         *)
Flags == UNION {ValueFlags(c) : c \in Commands}

SwitchFlags(command) ==
    {"--strict"} \cup
        IF command \in {"compile", "seal"} THEN {"--strict-inputs", "--no-strict-inputs"} ELSE {}

Stdin == "-"

Empty == ""

Blank == " "

(* The texts of this model that begin with "-" and are longer than that.   *)
FlagShaped ==
    Flags \cup (UNION {SwitchFlags(c) : c \in Commands})
    \cup {"--", "--help", "-h", "--version", "-V", "--unknown"}

UsageError == [kind |-> "usage-error"]

-----------------------------------------------------------------------------
(* takeValue: the inline value, or the next token; a flag there is a       *)
(* missing value.  <<>> is a refusal.                                      *)
Taken(tokens, i) ==
    IF tokens[i].inline # <<>>
    THEN IF tokens[i].inline[1] = Empty THEN <<>>
         ELSE << [value |-> tokens[i].inline[1], next |-> i + 1] >>
    ELSE IF i = Len(tokens) THEN <<>>
    ELSE IF \/ tokens[i + 1].text \in FlagShaped
            \/ tokens[i + 1].text = Empty /\ tokens[i + 1].inline = <<>>
         THEN <<>>
    ELSE << [value |-> tokens[i + 1].text, next |-> i + 2] >>

(* What was parsed so far: at which token, with which outcome, and what    *)
(* each flag was given, in the order given.                                *)
Parsing(i) ==
    [at |-> i, ended |-> <<>>, given |-> [flag \in Flags |-> <<>>],
     strict |-> FALSE, strictInputs |-> TRUE]

(* A repeated path flag has to agree with itself; a second designated      *)
(* oracle is refused even when it does.                                    *)
RefusesRepeat(given, flag, value) ==
    /\ flag \notin RepeatableInputKeys
    /\ given[flag] # <<>>
    /\ flag = "--designated-oracle" \/ given[flag][1] # value

Refused(parsing) == [parsing EXCEPT !.ended = <<UsageError>>]

TakeFlag(parsing, tokens) ==
    LET flag == tokens[parsing.at].text
        taken == Taken(tokens, parsing.at)
    IN IF taken = <<>> \/ RefusesRepeat(parsing.given, flag, taken[1].value)
       THEN Refused(parsing)
       ELSE [parsing EXCEPT !.at = taken[1].next,
                            !.given[flag] = Append(@, taken[1].value)]

(* One turn of the loop over the tokens.                                   *)
TakeToken(command, parsing, tokens) ==
    LET token == tokens[parsing.at]
        next == [parsing EXCEPT !.at = @ + 1]
    IN IF parsing.ended # <<>> \/ parsing.at > Len(tokens) THEN parsing
       ELSE IF token.inline = <<>> /\ token.text = "--"
            THEN IF parsing.at = Len(tokens) THEN next ELSE Refused(parsing)
       ELSE IF token.inline = <<>> /\ token.text \in {"--help", "-h"}
            THEN [parsing EXCEPT !.ended = <<[kind |-> "help"]>>]
       ELSE IF token.text \in ValueFlags(command) THEN TakeFlag(parsing, tokens)
       ELSE IF token.inline # <<>> \/ token.text \notin SwitchFlags(command)
            THEN Refused(parsing)
       ELSE IF token.text = "--strict" THEN [next EXCEPT !.strict = TRUE]
       ELSE [next EXCEPT !.strictInputs = (token.text = "--strict-inputs")]

Parsed(command, tokens) ==
    LET turn[n \in 0 .. Len(tokens)] ==
            IF n = 0 THEN Parsing(1) ELSE TakeToken(command, turn[n - 1], tokens)
    IN turn[Len(tokens)]

-----------------------------------------------------------------------------
Missing(command, given) ==
    {flag \in RequiredFlags(command) : given[flag] = <<>>}

(* One stdin cannot serve two readers.                                     *)
StdinTwice(command, given) ==
    Len(FlattenSeq([i \in DOMAIN InputKeys(command) |->
          LET values == given[InputKeys(command)[i]]
          IN SelectSeq(IF InputKeys(command)[i] \in RepeatableInputKeys \/ values = <<>>
                       THEN values ELSE <<Last(values)>>, LAMBDA v : v = Stdin)])) > 1

InputsOf(command, given) ==
    [flag \in {f \in ToSet(InputKeys(command)) : given[f] # <<>>} |->
        IF flag \in RepeatableInputKeys THEN given[flag] ELSE <<Last(given[flag])>>]

(* A value that was not given is <<>>.                                     *)
Named(given, flag) ==
    IF given[flag] = <<>> THEN <<>> ELSE <<Last(given[flag])>>

(* parseCommand.                                                           *)
ParseCommand(command, tokens) ==
    LET parsed == Parsed(command, tokens)
        given == parsed.given
    IN IF parsed.ended # <<>> THEN parsed.ended[1]
       ELSE IF \/ Named(given, "--run-id") = <<Blank>>
               \/ Missing(command, given) # {}
               \/ StdinTwice(command, given)
            THEN UsageError
       ELSE [kind |-> "run", command |-> command,
             inputs |-> InputsOf(command, given),
             out |-> Named(given, "--out"), runId |-> Named(given, "--run-id"),
             corpusDigest |-> Named(given, "--corpus-digest"),
             designatedOracle |-> Named(given, "--designated-oracle"),
             corpusRoot |-> Named(given, "--corpus-root"),
             strictInputs |-> parsed.strictInputs, strict |-> parsed.strict]

(* parseArguments.                                                         *)
ParseArguments(argv) ==
    IF argv = <<>> THEN UsageError
    ELSE LET first == IF argv[1].inline = <<>> THEN argv[1].text ELSE "--unknown" IN
         IF first \in {"--help", "-h", "help"}
         THEN IF Len(argv) = 1 \/ argv[2].text \in Commands THEN [kind |-> "help"] ELSE UsageError
         ELSE IF first \in {"--version", "-V"} THEN [kind |-> "version"]
         ELSE IF first \notin Commands THEN UsageError
         ELSE ParseCommand(first, Tail(argv))
=================================================================================
