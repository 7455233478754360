---------------------------- MODULE CommandLine ----------------------------
(***************************************************************************)
(* parse_arguments of the command line program and what main makes of its  *)
(* result.  One step reads one argument, or an option and its value.       *)
(*                                                                         *)
(* Arguments are texts; what the parser tells apart about one is which     *)
(* option it is, whether it is empty or starts with a dash, and the number *)
(* it spells.  The wording of the failures is left out.                    *)
(***************************************************************************)
EXTENDS Naturals, Sequences, FiniteSets

CONSTANTS
    ArgumentLists,             \* the argument vectors the program is started with
    Dashed,                    \* the texts that start with a dash
    Numeral,                   \* text -> number, for digits or 0x and hex digits
    kGuestAddressSpaceSize,    \* 2^32
    CountLimit,                \* 2^64: std::size_t and std::uint64_t
    Defaults                   \* the defaults of the four numbers in Options

\* The options that take a value, by the member of Options that they set.
ValuedOption ==
    [memory_base |-> "--memory-base", memory_size |-> "--memory-size",
     stack_size |-> "--stack-size", maximum_steps |-> "--max-steps"]

Members == DOMAIN ValuedOption
HelpTexts == {"-h", "--help"}

ASSUME CommandLineAssumption ==
    /\ \A m \in Members : ValuedOption[m] \in Dashed
    /\ HelpTexts \cup {"--", "--debug"} \subseteq Dashed
    /\ "" \notin Dashed
    /\ DOMAIN Numeral \cap (Dashed \cup {""}) = {}
    /\ \A list \in ArgumentLists : list \in Seq(STRING)
    /\ \A text \in DOMAIN Numeral : Numeral[text] \in Nat
    /\ {kGuestAddressSpaceSize, CountLimit} \subseteq Nat
    /\ Defaults \in [Members -> Nat]
    /\ Defaults.memory_base < kGuestAddressSpaceSize

VARIABLES
    arguments,
    index,                 \* of the argument to read next, from 1
    positional_only,
    seen,                  \* the *_seen flags and help_requested that are set
    options,
    program_path,          \* an optional
    parse_result,          \* the ParseResult, "None" while there is none
    exit_status            \* main's, {} while it runs or goes on to run_cli

command_line_vars == <<arguments, index, positional_only, seen, options,
                       program_path, parse_result, exit_status>>

CommandLineInit ==
    /\ arguments \in ArgumentLists
    /\ index = 1
    /\ positional_only = FALSE
    /\ seen = {}
    /\ options = [m \in Members |-> Defaults[m]]
    /\ program_path = {}
    /\ parse_result = "None"
    /\ exit_status = {}

-----------------------------------------------------------------------------
\* The width of the member's type bounds what std::from_chars accepts.
TypeLimit(member) ==
    IF member = "memory_base" THEN kGuestAddressSpaceSize ELSE CountLimit

(***************************************************************************)
(* parse_unsigned, an optional.  The empty text, a sign, a prefix without  *)
(* digits, trailing characters and a number out of range all fail.         *)
(***************************************************************************)
parse_unsigned(text, limit) ==
    {n \in {Numeral[t] : t \in DOMAIN Numeral \cap {text}} : n < limit}

Parsing == parse_result = "None" /\ index <= Len(arguments)
argument == arguments[index]
AsOption(texts) == ~ positional_only /\ argument \in texts

\* Mutant: a repeated option silently replaces the first.
Repeated_never(flag) == FALSE

Repeated(flag) == flag \in seen

Fails ==
    /\ parse_result' = "Failure"
    /\ UNCHANGED <<arguments, index, positional_only, seen, options, program_path,
                   exit_status>>

EndOfOptions ==
    /\ Parsing
    /\ AsOption({"--"})
    /\ positional_only' = TRUE
    /\ index' = index + 1
    /\ UNCHANGED <<arguments, seen, options, program_path, parse_result, exit_status>>

\* --help and --debug, given once.
ReadFlag ==
    /\ Parsing
    /\ \E flag \in {"help", "debug"} :
          /\ AsOption(IF flag = "help" THEN HelpTexts ELSE {"--debug"})
          /\ ~ Repeated(flag)
          /\ seen' = seen \cup {flag}
    /\ index' = index + 1
    /\ UNCHANGED <<arguments, positional_only, options, program_path, parse_result,
                   exit_status>>

\* parse_option_value, an optional: the next argument, if there is one.
OptionValue ==
    IF index + 1 > Len(arguments) \/ arguments[index + 1] = "" THEN {}
    ELSE {arguments[index + 1]}

ParsedValue(member) ==
    UNION {parse_unsigned(text, TypeLimit(member)) : text \in OptionValue}

ReadValuedOption ==
    /\ Parsing
    /\ \E member \in Members : \E value \in ParsedValue(member) :
          /\ AsOption({ValuedOption[member]})
          /\ ~ Repeated(member)
          /\ seen' = seen \cup {member}
          /\ options' = [options EXCEPT ![member] = value]
    /\ index' = index + 2
    /\ UNCHANGED <<arguments, positional_only, program_path, parse_result, exit_status>>

IsPath == (positional_only \/ argument \notin Dashed) /\ argument # ""

ReadPath ==
    /\ Parsing
    /\ IsPath
    /\ program_path = {}
    /\ program_path' = {argument}
    /\ index' = index + 1
    /\ UNCHANGED <<arguments, positional_only, seen, options, parse_result, exit_status>>

\* The returns of parse_failure inside the loop.
RejectArgument ==
    /\ Parsing
    /\ \/ AsOption(HelpTexts) /\ Repeated("help")
       \/ AsOption({"--debug"}) /\ Repeated("debug")
       \/ \E member \in Members :
             /\ AsOption({ValuedOption[member]})
             /\ Repeated(member) \/ ParsedValue(member) = {}
       \/ /\ AsOption(Dashed)
          /\ argument \notin HelpTexts \cup {"--", "--debug"}
                                \cup {ValuedOption[m] : m \in Members}
       \/ argument = ""
       \/ IsPath /\ program_path # {}
    /\ Fails

-----------------------------------------------------------------------------
valid_memory_configuration(o) ==
    /\ o.memory_size # 0
    /\ o.stack_size # 0
    /\ o.stack_size <= o.memory_size
    /\ o.maximum_steps # 0
    /\ o.memory_size <= kGuestAddressSpaceSize - o.memory_base

\* The tests after the loop, of which the last repeats the ones before it.
FinishParsing ==
    /\ parse_result = "None"
    /\ index > Len(arguments)
    /\ parse_result' =
           IF "help" \in seen
           THEN IF Len(arguments) = 1 THEN "Help" ELSE "Failure"
           ELSE IF program_path # {} /\ valid_memory_configuration(options)
                THEN "Success" ELSE "Failure"
    /\ UNCHANGED <<arguments, index, positional_only, seen, options, program_path,
                   exit_status>>

kUsageExitStatus == 2

\* main, when it does not go on to run_cli.
ReturnFromMain ==
    /\ parse_result \in {"Help", "Failure"}
    /\ exit_status = {}
    /\ exit_status' = {IF parse_result = "Help" THEN 0 ELSE kUsageExitStatus}
    /\ UNCHANGED <<arguments, index, positional_only, seen, options, program_path,
                   parse_result>>

\* run_cli takes over, or the process has ended.
Ended ==
    /\ parse_result = "Success" \/ exit_status # {}
    /\ UNCHANGED command_line_vars

CommandLineNext ==
    \/ EndOfOptions
    \/ ReadFlag
    \/ ReadValuedOption
    \/ ReadPath
    \/ RejectArgument
    \/ FinishParsing
    \/ ReturnFromMain
    \/ Ended

CommandLineSpec == CommandLineInit /\ [][CommandLineNext]_command_line_vars

-----------------------------------------------------------------------------
(***************************************************************************)
(* The command language, said without a parser.  The role of every         *)
(* argument follows from the arguments before it.                          *)
(***************************************************************************)
\* The role of a text where options are still read.
TextRole(text) ==
    CASE text = "--" -> "separator"
      [] text \in HelpTexts -> "help"
      [] text = "--debug" -> "debug"
      [] \E m \in Members : text = ValuedOption[m] ->
             CHOOSE m \in Members : text = ValuedOption[m]
      [] text \in Dashed \ ({"--", "--debug"} \cup HelpTexts
                            \cup {ValuedOption[m] : m \in Members}) -> "unknown"
      [] OTHER -> "path"

RoleOf[k \in 0 .. Len(arguments)] ==
    IF k = 0 THEN "separator"        \* before the first argument
    ELSE IF RoleOf[k - 1] \in Members THEN "value"
    ELSE IF \E j \in 1 .. (k - 1) : RoleOf[j] = "separator" THEN "path"
    ELSE TextRole(arguments[k])

With(role) == {k \in 1 .. Len(arguments) : RoleOf[k] = role}

\* The values a list gives to a member of Options.
Given(member) ==
    {Numeral[arguments[k + 1]] :
        k \in {j \in With(member) : j < Len(arguments)
                                    /\ arguments[j + 1] \in DOMAIN Numeral}}

TheOnly(values) == CHOOSE n \in values : TRUE

Meaning(member) ==
    IF With(member) = {} THEN Defaults[member] ELSE TheOnly(Given(member))

IsHelp == Len(arguments) = 1 /\ With("help") # {}

IsProgram ==
    /\ With("help") = {} /\ With("unknown") = {}
    /\ Cardinality(With("debug")) <= 1
    /\ Cardinality(With("path")) = 1
    /\ \A k \in With("path") : arguments[k] # ""
    /\ \A m \in Members :
          /\ Cardinality(With(m)) <= 1
          /\ With(m) # {} => \E n \in Given(m) : n < TypeLimit(m)
    /\ Meaning("memory_size") # 0
    /\ Meaning("stack_size") \in 1 .. Meaning("memory_size")
    /\ Meaning("maximum_steps") # 0
    /\ Meaning("memory_base") + Meaning("memory_size") <= kGuestAddressSpaceSize

(***************************************************************************)
(* The parser accepts the command language, no more and no less, and what  *)
(* run_cli is given is what the arguments say: each option has the value   *)
(* written after it or its default, whatever the order, a value is never   *)
(* taken for an option or a path or the reverse, and after "--" everything *)
(* is a path.  All else ends with status 2, help with 0.                   *)
(***************************************************************************)
ParsesTheLanguage ==
    /\ parse_result = "Success" =>
          /\ IsProgram
          /\ options = [m \in Members |-> Meaning(m)]
          /\ program_path = {arguments[k] : k \in With("path")}
          /\ "debug" \in seen <=> With("debug") # {}
    /\ parse_result = "Help" <=> (IsHelp /\ parse_result # "None")
    /\ parse_result = "Failure" => ~ IsProgram /\ ~ IsHelp
    /\ \A status \in exit_status : status = IF IsHelp THEN 0 ELSE 2
=============================================================================
