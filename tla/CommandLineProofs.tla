------------------------- MODULE CommandLineProofs -------------------------
(***************************************************************************)
(* parse_arguments accepts exactly the command language, for every         *)
(* argument list, every set of texts that start with a dash and every      *)
(* meaning of the numerals.                                                *)
(***************************************************************************)
EXTENDS CommandLine, TLAPS, WellFoundedInduction, FiniteSetTheorems

-----------------------------------------------------------------------------
(***************************************************************************)
(* The role of an argument, which is defined by recursion over the list.   *)
(***************************************************************************)

\* The role of argument k of a list, from the roles of the arguments before it.
NextRole(list, f, k) ==
    IF k = 0 THEN "separator"
    ELSE IF f[k - 1] \in Members THEN "value"
    ELSE IF \E j \in 1 .. (k - 1) : f[j] = "separator" THEN "path"
    ELSE TextRole(list[k])

\* A set of naturals that is not empty has a least element.
LEMMA LeastNumber ==
    ASSUME NEW S \in SUBSET Nat, S # {}
    PROVE  \E m \in S : \A n \in S : m <= n
<1>1. PICK m \in S : \A n \in S : <<n, m>> \notin OpToRel(<, Nat)
  BY NatLessThanWellFounded, WFMin
<1>2. ASSUME NEW n \in S
      PROVE  m <= n
  <2>1. <<n, m>> \notin OpToRel(<, Nat)
    BY <1>1
  <2>. QED
    BY <2>1 DEF OpToRel
<1>. QED
  BY <1>2

\* Every prefix of a list has roles: those of a shorter prefix extend to it.
LEMMA RolesExist ==
    ASSUME NEW list, NEW n \in Nat
    PROVE  \E f : f = [k \in 0 .. n |-> NextRole(list, f, k)]
<1>. DEFINE Roles(f, m) == f = [k \in 0 .. m |-> NextRole(list, f, k)]
            S == {m \in Nat : \A f : ~ Roles(f, m)}
<1>1. SUFFICES ASSUME S # {} PROVE FALSE
  OBVIOUS
<1>2. PICK m \in S : \A l \in S : m <= l
  <2>1. S \in SUBSET Nat
    OBVIOUS
  <2>. HIDE DEF S
  <2>. QED
    BY <1>1, <2>1, LeastNumber
<1>3. m \in Nat /\ \A f : ~ Roles(f, m)
  OBVIOUS
<1>4. CASE m = 0
  <2>. DEFINE f == [k \in 0 .. 0 |-> "separator"]
  <2>1. \A k \in 0 .. 0 : f[k] = NextRole(list, f, k)
    BY DEF NextRole
  <2>2. f = [k \in 0 .. 0 |-> NextRole(list, f, k)]
    BY <2>1
  <2>. QED
    BY <1>3, <1>4, <2>2
<1>5. CASE m # 0
  <2>1. m - 1 \in Nat /\ m - 1 \notin S
    BY <1>2, <1>3, <1>5
  <2>2. PICK f : Roles(f, m - 1)
    BY <2>1
  <2>. DEFINE g == [k \in 0 .. m |-> IF k = m THEN NextRole(list, f, m) ELSE f[k]]
  <2>3. \A k \in 0 .. (m - 1) : g[k] = f[k]
    BY <1>3
  <2>4. ASSUME NEW k \in 0 .. m
        PROVE  g[k] = NextRole(list, g, k)
    <3>1. NextRole(list, g, k) = NextRole(list, f, k)
      <4>1. k # 0 => k - 1 \in 0 .. (m - 1) /\ \A j \in 1 .. (k - 1) : j \in 0 .. (m - 1)
        BY <1>3
      <4>. HIDE DEF g
      <4>. QED
        BY <2>3, <4>1 DEF NextRole
    <3>2. k # m => k \in 0 .. (m - 1) /\ f[k] = NextRole(list, f, k)
      BY <1>3, <2>2
    <3>. QED
      BY <3>1, <3>2
  <2>5. g = [k \in 0 .. m |-> NextRole(list, g, k)]
    <3>1. g = [k \in 0 .. m |-> g[k]]
      OBVIOUS
    <3>. HIDE DEF g
    <3>. QED
      BY <2>4, <3>1
  <2>6. Roles(g, m)
    BY <2>5
  <2>. QED
    BY <1>3, <2>6
<1>. QED
  BY <1>4, <1>5

\* The recursive definition of RoleOf describes a function.
LEMMA RoleOfEquation ==
    ASSUME arguments \in Seq(STRING)
    PROVE  RoleOf = [k \in 0 .. Len(arguments) |-> NextRole(arguments, RoleOf, k)]
<1>1. Len(arguments) \in Nat
  OBVIOUS
<1>2. \E f : f = [k \in 0 .. Len(arguments) |-> NextRole(arguments, f, k)]
  BY <1>1, RolesExist
<1>3. RoleOf = CHOOSE f : f = [k \in 0 .. Len(arguments) |-> NextRole(arguments, f, k)]
  BY DEF RoleOf, NextRole
<1>. QED
  BY <1>2, <1>3
\* The role of an argument that options are still read at.
LEMMA TextRoles ==
    ASSUME NEW text
    PROVE  /\ text = "--" => TextRole(text) = "separator"
           /\ text \in HelpTexts => TextRole(text) = "help"
           /\ text = "--debug" => TextRole(text) = "debug"
           /\ \A m \in Members : text = ValuedOption[m] => TextRole(text) = m
           /\ (/\ text \in Dashed
               /\ text \notin HelpTexts \cup {"--", "--debug"}
                                   \cup {ValuedOption[m] : m \in Members})
                 => TextRole(text) = "unknown"
           /\ text \notin Dashed => TextRole(text) = "path"
<1>1. Members = {"memory_base", "memory_size", "stack_size", "maximum_steps"}
  BY DEF Members, ValuedOption
<1>2. /\ ValuedOption["memory_base"] = "--memory-base"
      /\ ValuedOption["memory_size"] = "--memory-size"
      /\ ValuedOption["stack_size"] = "--stack-size"
      /\ ValuedOption["maximum_steps"] = "--max-steps"
  BY DEF ValuedOption
<1>. DEFINE Texts == {ValuedOption[m] : m \in Members}
<1>3. Texts = {"--memory-base", "--memory-size", "--stack-size", "--max-steps"}
  BY <1>1, <1>2
<1>4. HelpTexts = {"-h", "--help"}
  BY DEF HelpTexts
<1>5. (\E m \in Members : text = ValuedOption[m]) <=> text \in Texts
  OBVIOUS
<1>6. Texts \cup HelpTexts \cup {"--", "--debug"} \subseteq Dashed
  BY CommandLineAssumption
<1>7. ASSUME NEW m \in Members, text = ValuedOption[m]
      PROVE  m = CHOOSE n \in Members : text = ValuedOption[n]
  <2>1. \A n \in Members : text = ValuedOption[n] => n = m
    BY <1>1, <1>2, <1>7
  <2>. QED
    BY <1>7, <2>1
<1>8. CASE text \in Texts
  <2>1. PICK m \in Members : text = ValuedOption[m]
    BY <1>8
  <2>2. TextRole(text) = CHOOSE n \in Members : text = ValuedOption[n]
    BY <1>3, <1>4, <1>5, <1>8 DEF TextRole
  <2>3. text \notin HelpTexts \cup {"--", "--debug"}
    BY <1>3, <1>4, <1>8
  <2>. QED
    BY <1>6, <1>7, <1>8, <2>2, <2>3
<1>9. CASE text \notin Texts
  <2>. DEFINE D == text \in Dashed \ ({"--", "--debug"} \cup HelpTexts \cup Texts)
  <2>1. TextRole(text) = CASE text = "--" -> "separator"
                           [] text \in HelpTexts -> "help"
                           [] text = "--debug" -> "debug"
                           [] D -> "unknown"
                           [] OTHER -> "path"
    BY <1>5, <1>9 DEF TextRole
  <2>. QED
    BY <1>4, <1>6, <1>9, <2>1
<1>. QED
  BY <1>8, <1>9

-----------------------------------------------------------------------------
(***************************************************************************)
(* The inductive invariant.                                                *)
(***************************************************************************)

\* The arguments before index that have the given role.
ReadAs(role) == {k \in 1 .. (index - 1) : RoleOf[k] = role}

Flags == {"help", "debug"} \cup Members

\* What the parser keeps is what the arguments before index say.
ParserState ==
    /\ index \in 1 .. (Len(arguments) + 1)
    /\ RoleOf[index - 1] \notin Members
    /\ positional_only \in BOOLEAN
    /\ positional_only <=> ReadAs("separator") # {}
    /\ seen \subseteq Flags
    /\ options \in [Members -> Nat]

\* An option is seen when it has been read, and none is read twice.
SeenOnce ==
    \A flag \in Flags :
        /\ flag \in seen <=> ReadAs(flag) # {}
        /\ \A j, k \in ReadAs(flag) : j = k

\* An option that was read has the number after it as its value.
ValuesRead ==
    \A m \in Members :
        /\ ReadAs(m) = {} => options[m] = Defaults[m]
        /\ \A k \in ReadAs(m) :
              /\ k + 1 < index
              /\ arguments[k + 1] \in DOMAIN Numeral
              /\ Numeral[arguments[k + 1]] < TypeLimit(m)
              /\ options[m] = Numeral[arguments[k + 1]]

\* At most one path was read, which is not empty, and no unknown option.
PathRead ==
    /\ ReadAs("unknown") = {}
    /\ \A j, k \in ReadAs("path") : j = k
    /\ \A k \in ReadAs("path") : arguments[k] # ""
    /\ program_path = {arguments[k] : k \in ReadAs("path")}

ParserInvariant ==
    /\ arguments \in Seq(STRING)
    /\ parse_result \in {"None", "Help", "Success", "Failure"}
    /\ parse_result = "None" =>
          exit_status = {} /\ ParserState /\ SeenOnce /\ ValuesRead /\ PathRead

\* The option texts start with a dash; no option is called like another role.
LEMMA MemberNames ==
    /\ Members = {"memory_base", "memory_size", "stack_size", "maximum_steps"}
    /\ \A m \in Members : ValuedOption[m] \in Dashed
    /\ \A m \in Members : m \notin {"separator", "value", "path", "unknown", "help", "debug"}
BY CommandLineAssumption DEF Members, ValuedOption

LEMMA RolesKept ==
    ASSUME UNCHANGED arguments
    PROVE  RoleOf' = RoleOf
BY DEF RoleOf

\* The role of the argument at index, and of a value after it.
LEMMA RoleHere ==
    ASSUME arguments \in Seq(STRING), ParserState, Parsing
    PROVE  /\ index \in 1 .. Len(arguments) /\ Len(arguments) \in Nat
           /\ RoleOf[index] = IF positional_only THEN "path" ELSE TextRole(argument)
           /\ (RoleOf[index] \in Members /\ index # Len(arguments))
                 => RoleOf[index + 1] = "value"
<1>1. index \in 1 .. Len(arguments) /\ Len(arguments) \in Nat
  BY DEF ParserState, Parsing
<1>. DEFINE D == 0 .. Len(arguments)
<1>2. \A k \in D : RoleOf[k] = NextRole(arguments, RoleOf, k)
  BY RoleOfEquation
<1>3. index \in D /\ index # 0 /\ (index # Len(arguments) => index + 1 \in D /\ index + 1 # 0)
      /\ (index + 1) - 1 = index
  BY <1>1
<1>4. RoleOf[index - 1] \notin Members
  BY DEF ParserState
<1>5. positional_only <=> \E j \in 1 .. (index - 1) : RoleOf[j] = "separator"
  BY DEF ParserState, ReadAs
<1>6. RoleOf[index] = IF positional_only THEN "path" ELSE TextRole(argument)
  BY <1>2, <1>3, <1>4, <1>5 DEF NextRole, argument, ParserState
<1>7. ASSUME RoleOf[index] \in Members, index # Len(arguments)
      PROVE  RoleOf[index + 1] = "value"
  <2>1. RoleOf[index + 1] = NextRole(arguments, RoleOf, index + 1)
    BY <1>2, <1>3, <1>7
  <2>. QED
    BY <1>3, <1>7, <2>1 DEF NextRole
<1>. QED
  BY <1>1, <1>6, <1>7

\* Reading one argument, of which the role is known.
LEMMA ReadOne ==
    ASSUME arguments \in Seq(STRING), ParserState, Parsing, UNCHANGED arguments,
           index' = index + 1
    PROVE  /\ \A role : RoleOf[index] = role => ReadAs(role)' = ReadAs(role) \cup {index}
           /\ \A role : RoleOf[index] # role => ReadAs(role)' = ReadAs(role)
           /\ \A role : index \notin ReadAs(role)
           /\ RoleOf'[index' - 1] = RoleOf[index]
           /\ index' \in 1 .. (Len(arguments') + 1)
<1>1. index \in 1 .. Len(arguments) /\ Len(arguments) \in Nat
  BY RoleHere
<1>2. RoleOf' = RoleOf
  BY RolesKept
<1>3. 1 .. (index' - 1) = 1 .. (index - 1) \cup {index} /\ index \notin 1 .. (index - 1)
      /\ index' - 1 = index
  BY <1>1
<1>4. \A role : ReadAs(role)' = {k \in 1 .. (index - 1) \cup {index} : RoleOf[k] = role}
  BY <1>2, <1>3 DEF ReadAs
<1>5. index' \in 1 .. (Len(arguments') + 1)
  BY <1>1
<1>. QED
  BY <1>2, <1>3, <1>4, <1>5 DEF ReadAs

\* Reading an option and its value.
LEMMA ReadTwo ==
    ASSUME arguments \in Seq(STRING), ParserState, Parsing, UNCHANGED arguments,
           index' = index + 2, index # Len(arguments), RoleOf[index] \in Members
    PROVE  /\ \A role : RoleOf[index] = role => ReadAs(role)' = ReadAs(role) \cup {index}
           /\ \A role : (RoleOf[index] # role /\ role # "value")
                            => ReadAs(role)' = ReadAs(role)
           /\ \A role : index \notin ReadAs(role)
           /\ RoleOf'[index' - 1] = "value"
           /\ index' \in 1 .. (Len(arguments') + 1)
<1>1. index \in 1 .. Len(arguments) /\ Len(arguments) \in Nat /\ RoleOf[index + 1] = "value"
  BY RoleHere
<1>2. RoleOf' = RoleOf
  BY RolesKept
<1>3. 1 .. (index' - 1) = 1 .. (index - 1) \cup {index, index + 1}
      /\ index \notin 1 .. (index - 1) /\ index' - 1 = index + 1
  BY <1>1
<1>4. \A role : ReadAs(role)'
                   = {k \in 1 .. (index - 1) \cup {index, index + 1} : RoleOf[k] = role}
  BY <1>2, <1>3 DEF ReadAs
<1>5. RoleOf[index] # "value"
  BY MemberNames
<1>6. index' \in 1 .. (Len(arguments') + 1)
  BY <1>1
<1>7. ASSUME NEW role, RoleOf[index] = role
      PROVE  ReadAs(role)' = ReadAs(role) \cup {index}
  <2>1. ReadAs(role)'
           = {k \in 1 .. (index - 1) \cup {index, index + 1} : RoleOf[k] = role}
    BY <1>4
  <2>2. RoleOf[index + 1] # role
    BY <1>1, <1>5, <1>7
  <2>. QED
    BY <1>7, <2>1, <2>2, Zenon DEF ReadAs
<1>. QED
  BY <1>1, <1>2, <1>3, <1>4, <1>6, <1>7 DEF ReadAs

-----------------------------------------------------------------------------
(***************************************************************************)
(* Each action that reads keeps the invariant.                             *)
(***************************************************************************)
Reading == ParserState /\ SeenOnce /\ ValuesRead /\ PathRead

\* What a step that reads no option and no path leaves as it was.
LEMMA ValuesKept ==
    ASSUME ValuesRead, arguments \in Seq(STRING), index \in Nat, index' \in Nat,
           index <= index', UNCHANGED <<arguments, options>>,
           \A m \in Members : ReadAs(m)' = ReadAs(m)
    PROVE  ValuesRead'
<1>1. ASSUME NEW m \in Members
      PROVE  /\ ReadAs(m)' = {} => options'[m] = Defaults[m]
             /\ \A k \in ReadAs(m)' :
                   /\ k + 1 < index'
                   /\ arguments'[k + 1] \in DOMAIN Numeral
                   /\ Numeral[arguments'[k + 1]] < TypeLimit(m)
                   /\ options'[m] = Numeral[arguments'[k + 1]]
  <2>1. ReadAs(m)' = ReadAs(m)
    BY <1>1
  <2>2. \A k \in ReadAs(m) : k \in Int
    BY DEF ReadAs
  <2>3. ASSUME NEW k \in ReadAs(m)
        PROVE  /\ k + 1 < index'
               /\ arguments[k + 1] \in DOMAIN Numeral
               /\ Numeral[arguments[k + 1]] < TypeLimit(m)
               /\ options[m] = Numeral[arguments[k + 1]]
    BY <2>2 DEF ValuesRead
  <2>. QED
    BY <2>1, <2>3 DEF ValuesRead
<1>. QED
  BY <1>1 DEF ValuesRead

LEMMA PathKept ==
    ASSUME PathRead, UNCHANGED <<arguments, program_path>>,
           \A role \in {"path", "unknown"} : ReadAs(role)' = ReadAs(role)
    PROVE  PathRead'
<1>1. ReadAs("path")' = ReadAs("path") /\ ReadAs("unknown")' = ReadAs("unknown")
  OBVIOUS
<1>. QED
  BY <1>1 DEF PathRead

LEMMA SeenKept ==
    ASSUME SeenOnce, UNCHANGED seen, \A flag \in Flags : ReadAs(flag)' = ReadAs(flag)
    PROVE  SeenOnce'
BY DEF SeenOnce

LEMMA SeenAdded ==
    ASSUME SeenOnce, NEW flag \in Flags, flag \notin seen, seen' = seen \cup {flag},
           ReadAs(flag)' = ReadAs(flag) \cup {index},
           \A other \in Flags \ {flag} : ReadAs(other)' = ReadAs(other)
    PROVE  SeenOnce'
<1>1. ReadAs(flag) = {}
  BY DEF SeenOnce
<1>2. ASSUME NEW other \in Flags
      PROVE  /\ other \in seen' <=> ReadAs(other)' # {}
             /\ \A j, k \in ReadAs(other)' : j = k
  <2>1. CASE other = flag
    BY <1>1, <2>1
  <2>2. CASE other # flag
    BY <2>2 DEF SeenOnce
  <2>. QED
    BY <2>1, <2>2
<1>. QED
  BY <1>2 DEF SeenOnce

LEMMA EndOfOptionsKeeps ==
    ASSUME arguments \in Seq(STRING), Reading, EndOfOptions
    PROVE  Reading'
<1>1. /\ Parsing /\ ~ positional_only /\ argument = "--" /\ index' = index + 1
      /\ positional_only' = TRUE /\ UNCHANGED <<arguments, seen, options, program_path>>
  BY DEF EndOfOptions, AsOption
<1>2. RoleOf[index] = "separator" /\ index \in Nat
  BY <1>1, RoleHere, TextRoles DEF Reading
<1>3. /\ ReadAs("separator")' = ReadAs("separator") \cup {index}
      /\ \A role : role # "separator" => ReadAs(role)' = ReadAs(role)
      /\ RoleOf'[index' - 1] = "separator" /\ index' \in 1 .. (Len(arguments') + 1)
  BY <1>1, <1>2, ReadOne DEF Reading
<1>4. ParserState'
  BY <1>1, <1>3, MemberNames DEF Reading, ParserState
<1>5. SeenOnce'
  <2>1. \A flag \in Flags : flag # "separator"
    BY MemberNames DEF Flags
  <2>. QED
    BY <1>1, <1>3, <2>1, SeenKept DEF Reading
<1>6. ValuesRead'
  <2>1. \A m \in Members : m # "separator"
    BY MemberNames
  <2>2. index' \in Nat /\ index <= index'
    BY <1>1, <1>2
  <2>. QED
    BY <1>1, <1>2, <1>3, <2>1, <2>2, ValuesKept DEF Reading
<1>7. PathRead'
  BY <1>1, <1>3, PathKept DEF Reading
<1>. QED
  BY <1>4, <1>5, <1>6, <1>7 DEF Reading

LEMMA ReadFlagKeeps ==
    ASSUME arguments \in Seq(STRING), Reading, ReadFlag
    PROVE  Reading'
<1>1. /\ Parsing /\ ~ positional_only /\ index' = index + 1
      /\ UNCHANGED <<arguments, positional_only, options, program_path>>
  BY DEF ReadFlag, AsOption
<1>2. PICK flag \in {"help", "debug"} :
          /\ argument \in IF flag = "help" THEN HelpTexts ELSE {"--debug"}
          /\ flag \notin seen /\ seen' = seen \cup {flag}
  BY DEF ReadFlag, AsOption, Repeated
<1>3. RoleOf[index] = flag /\ index \in Nat
  BY <1>1, <1>2, RoleHere, TextRoles DEF Reading
<1>4. /\ ReadAs(flag)' = ReadAs(flag) \cup {index}
      /\ \A role : role # flag => ReadAs(role)' = ReadAs(role)
      /\ RoleOf'[index' - 1] = flag /\ index' \in 1 .. (Len(arguments') + 1)
  BY <1>1, <1>3, ReadOne DEF Reading
<1>5. flag \notin Members /\ flag \in Flags /\ flag \notin {"path", "unknown", "separator"}
  BY MemberNames DEF Flags
<1>6. ParserState'
  <2>1. ReadAs("separator")' = ReadAs("separator")
    BY <1>4, <1>5
  <2>. QED
    BY <1>1, <1>2, <1>4, <1>5, <2>1 DEF Reading, ParserState
<1>7. SeenOnce'
  BY <1>2, <1>4, <1>5, SeenAdded DEF Reading
<1>8. ValuesRead'
  <2>1. index' \in Nat /\ index <= index'
    BY <1>1, <1>3
  <2>2. \A m \in Members : ReadAs(m)' = ReadAs(m)
    BY <1>4, <1>5
  <2>. QED
    BY <1>1, <1>3, <2>1, <2>2, ValuesKept DEF Reading
<1>9. PathRead'
  BY <1>1, <1>4, <1>5, PathKept DEF Reading
<1>. QED
  BY <1>6, <1>7, <1>8, <1>9 DEF Reading

LEMMA ReadPathKeeps ==
    ASSUME arguments \in Seq(STRING), Reading, ReadPath
    PROVE  Reading'
<1>1. /\ Parsing /\ index' = index + 1
      /\ program_path = {} /\ program_path' = {argument}
      /\ UNCHANGED <<arguments, positional_only, options, seen>>
  BY DEF ReadPath, IsPath
<1>2. RoleOf[index] = "path" /\ index \in Nat
  <2>1. positional_only \/ argument \notin Dashed
    BY DEF ReadPath, IsPath
  <2>2. /\ RoleOf[index] = IF positional_only THEN "path" ELSE TextRole(argument)
        /\ index \in Nat
    BY <1>1, RoleHere DEF Reading
  <2>. QED
    BY <2>1, <2>2, TextRoles
<1>3. /\ ReadAs("path")' = ReadAs("path") \cup {index}
      /\ \A role : role # "path" => ReadAs(role)' = ReadAs(role)
      /\ RoleOf'[index' - 1] = "path" /\ index' \in 1 .. (Len(arguments') + 1)
  BY <1>1, <1>2, ReadOne DEF Reading
<1>4. "path" \notin Members /\ "path" \notin Flags
  BY MemberNames DEF Flags
<1>5. ParserState'
  <2>1. ReadAs("separator")' = ReadAs("separator")
    BY <1>3
  <2>. QED
    BY <1>1, <1>3, <1>4, <2>1 DEF Reading, ParserState
<1>6. SeenOnce'
  BY <1>1, <1>3, <1>4, SeenKept DEF Reading
<1>7. ValuesRead'
  <2>1. index' \in Nat /\ index <= index'
    BY <1>1, <1>2
  <2>2. \A m \in Members : ReadAs(m)' = ReadAs(m)
    BY <1>3, <1>4
  <2>. QED
    BY <1>1, <1>2, <2>1, <2>2, ValuesKept DEF Reading
<1>8. PathRead'
  <2>1. ReadAs("path") = {}
    BY <1>1 DEF Reading, PathRead
  <2>2. ReadAs("path")' = {index} /\ ReadAs("unknown")' = {}
    BY <1>3, <2>1 DEF Reading, PathRead
  <2>3. arguments'[index] = argument /\ argument # ""
    BY <1>1, Zenon DEF argument, ReadPath, IsPath
  <2>. QED
    BY <1>1, <2>2, <2>3 DEF PathRead
<1>. QED
  BY <1>5, <1>6, <1>7, <1>8 DEF Reading

\* The value of an option is the next argument, a numeral below the limit.
LEMMA ParsedValues ==
    ASSUME NEW member \in Members, arguments \in Seq(STRING), index \in Nat
    PROVE  /\ \A value \in ParsedValue(member) :
                 /\ index + 1 <= Len(arguments)
                 /\ arguments[index + 1] \in DOMAIN Numeral
                 /\ value = Numeral[arguments[index + 1]] /\ value < TypeLimit(member)
           /\ (/\ arguments[index + 1] \in DOMAIN Numeral
               /\ Numeral[arguments[index + 1]] < TypeLimit(member)
               /\ index + 1 <= Len(arguments))
                 => ParsedValue(member) # {}
<1>1. ASSUME NEW text, NEW limit
      PROVE  parse_unsigned(text, limit)
                = IF text \in DOMAIN Numeral /\ Numeral[text] < limit
                  THEN {Numeral[text]} ELSE {}
  BY Zenon DEF parse_unsigned
<1>2. PICK text : text = arguments[index + 1]
  OBVIOUS
<1>3. PICK missing \in BOOLEAN : missing <=> index + 1 > Len(arguments)
  OBVIOUS
<1>4. missing <=> ~ (index + 1 <= Len(arguments))
  BY <1>3
<1>5. text \in DOMAIN Numeral => text # ""
  BY CommandLineAssumption, Zenon
<1>6. OptionValue = IF missing \/ text = "" THEN {} ELSE {text}
  BY <1>2, <1>3, Zenon DEF OptionValue
<1>7. CASE missing \/ text = ""
  <2>1. ParsedValue(member) = {}
    BY <1>6, <1>7, Zenon DEF ParsedValue
  <2>. QED
    BY <1>2, <1>4, <1>5, <1>7, <2>1, Zenon
<1>8. CASE ~ (missing \/ text = "")
  <2>1. OptionValue = {text}
    BY <1>6, <1>8, Zenon
  <2>2. ParsedValue(member) = parse_unsigned(text, TypeLimit(member))
    BY <2>1, Zenon DEF ParsedValue
  <2>3. ParsedValue(member)
           = IF text \in DOMAIN Numeral /\ Numeral[text] < TypeLimit(member)
             THEN {Numeral[text]} ELSE {}
    BY <1>1, <2>2, Zenon
  <2>. QED
    BY <1>2, <1>4, <1>8, <2>3, Zenon
<1>. QED
  BY <1>7, <1>8, Zenon

LEMMA ReadValuedOptionKeeps ==
    ASSUME arguments \in Seq(STRING), Reading, ReadValuedOption
    PROVE  Reading'
<1>1. /\ Parsing /\ ~ positional_only /\ index' = index + 2
      /\ UNCHANGED <<arguments, positional_only, program_path>>
  BY DEF ReadValuedOption, AsOption
<1>2. PICK member \in Members : \E n \in ParsedValue(member) :
          /\ argument = ValuedOption[member]
          /\ member \notin seen /\ seen' = seen \cup {member}
          /\ options' = [options EXCEPT ![member] = n]
  BY DEF ReadValuedOption, AsOption, Repeated
<1>3. PICK value \in ParsedValue(member) :
          /\ argument = ValuedOption[member]
          /\ member \notin seen /\ seen' = seen \cup {member}
          /\ options' = [options EXCEPT ![member] = value]
  BY <1>2
<1>4. RoleOf[index] = member /\ index \in Nat /\ Len(arguments) \in Nat
  BY <1>1, <1>3, RoleHere, TextRoles DEF Reading
<1>5. /\ index + 1 <= Len(arguments) /\ arguments[index + 1] \in DOMAIN Numeral
      /\ value = Numeral[arguments[index + 1]] /\ value < TypeLimit(member)
  BY <1>4, ParsedValues
<1>6. index # Len(arguments)
  BY <1>4, <1>5
<1>7. /\ ReadAs(member)' = ReadAs(member) \cup {index}
      /\ \A role : (role # member /\ role # "value") => ReadAs(role)' = ReadAs(role)
      /\ RoleOf'[index' - 1] = "value" /\ index' \in 1 .. (Len(arguments') + 1)
  BY <1>1, <1>3, <1>4, <1>6, ReadTwo DEF Reading
<1>8. /\ member \in Flags /\ "value" \notin Flags /\ "value" \notin Members
      /\ member \notin {"path", "unknown", "separator"}
  BY MemberNames DEF Flags
<1>9. value \in Nat
  BY <1>5, CommandLineAssumption
<1>10. ParserState'
  <2>1. ReadAs("separator")' = ReadAs("separator")
    BY <1>7, <1>8
  <2>2. options' \in [Members -> Nat]
    BY <1>3, <1>9 DEF Reading, ParserState
  <2>3. seen' \subseteq Flags
    BY <1>3, <1>8 DEF Reading, ParserState
  <2>. QED
    BY <1>1, <1>7, <1>8, <2>1, <2>2, <2>3 DEF Reading, ParserState
<1>11. SeenOnce'
  <2>1. \A other \in Flags \ {member} : ReadAs(other)' = ReadAs(other)
    BY <1>7, <1>8
  <2>. QED
    BY <1>3, <1>7, <1>8, <2>1, SeenAdded DEF Reading
<1>12. ValuesRead'
  <2>1. ReadAs(member) = {}
    BY <1>3, <1>8 DEF Reading, SeenOnce
  <2>2. options \in [Members -> Nat]
    BY DEF Reading, ParserState
  <2>3. ASSUME NEW m \in Members
        PROVE  /\ ReadAs(m)' = {} => options'[m] = Defaults[m]
               /\ \A k \in ReadAs(m)' :
                     /\ k + 1 < index'
                     /\ arguments'[k + 1] \in DOMAIN Numeral
                     /\ Numeral[arguments'[k + 1]] < TypeLimit(m)
                     /\ options'[m] = Numeral[arguments'[k + 1]]
    <3>1. CASE m = member
      <4>1. ReadAs(m)' = {index}
        BY <1>7, <2>1, <3>1
      <4>2. options'[m] = value
        BY <1>3, <2>2, <3>1
      <4>3. index + 1 < index' /\ arguments' = arguments
        BY <1>1, <1>4
      <4>. QED
        BY <1>5, <3>1, <4>1, <4>2, <4>3
    <3>2. CASE m # member
      <4>1. ReadAs(m)' = ReadAs(m)
        BY <1>7, <1>8, <3>2
      <4>2. options'[m] = options[m]
        BY <1>3, <2>2, <3>2
      <4>3. \A k \in ReadAs(m) : k \in Int
        BY DEF ReadAs
      <4>4. arguments' = arguments /\ index' = index + 2
        BY <1>1
      <4>5. /\ ReadAs(m) = {} => options[m] = Defaults[m]
            /\ \A k \in ReadAs(m) :
                  /\ k + 1 < index
                  /\ arguments[k + 1] \in DOMAIN Numeral
                  /\ Numeral[arguments[k + 1]] < TypeLimit(m)
                  /\ options[m] = Numeral[arguments[k + 1]]
        BY DEF Reading, ValuesRead
      <4>6. \A k \in ReadAs(m) : k + 1 < index'
        BY <1>4, <4>3, <4>4, <4>5
      <4>. QED
        BY <4>1, <4>2, <4>4, <4>5, <4>6
    <3>. QED
      BY <3>1, <3>2
  <2>. QED
    BY <2>3 DEF ValuesRead
<1>13. PathRead'
  BY <1>1, <1>7, <1>8, PathKept DEF Reading
<1>. QED
  BY <1>10, <1>11, <1>12, <1>13 DEF Reading

-----------------------------------------------------------------------------
(***************************************************************************)
(* The verdict.                                                            *)
(***************************************************************************)

\* A set of argument positions has at most one element, or two different ones.
LEMMA AtMostOne ==
    ASSUME NEW n \in Nat, NEW S \in SUBSET (1 .. n)
    PROVE  /\ (\A j, k \in S : j = k) => Cardinality(S) <= 1
           /\ Cardinality(S) <= 1 => \A j, k \in S : j = k
           /\ (S # {} /\ \A j, k \in S : j = k) => Cardinality(S) = 1
           /\ Cardinality(S) = 1 => S # {}
<1>1. IsFiniteSet(S)
  <2>1. IsFiniteSet(1 .. n)
    BY FS_Interval
  <2>. QED
    BY <2>1, FS_Subset
<1>2. ASSUME \A j, k \in S : j = k, S # {}
      PROVE  Cardinality(S) = 1
  <2>1. PICK j \in S : TRUE
    BY <1>2
  <2>2. S = {j}
    BY <1>2
  <2>. QED
    BY <2>2, FS_Singleton
<1>3. Cardinality({}) = 0
  BY FS_EmptySet
<1>4. ASSUME Cardinality(S) <= 1, NEW j \in S, NEW k \in S, j # k
      PROVE  FALSE
  <2>1. {j} \subseteq S /\ {j} # S
    BY <1>4
  <2>2. Cardinality({j}) <= Cardinality(S) /\ Cardinality({j}) # Cardinality(S)
    BY <1>1, <2>1, FS_Subset
  <2>3. Cardinality(S) \in Nat /\ Cardinality({j}) = 1
    BY <1>1, FS_CardinalityType, FS_Singleton
  <2>. QED
    BY <1>4, <2>2, <2>3
<1>. QED
  BY <1>2, <1>3, <1>4

LEMMA LanguageKept ==
    ASSUME UNCHANGED arguments
    PROVE  /\ \A role : With(role)' = With(role)
           /\ \A m : Meaning(m)' = Meaning(m)
           /\ IsHelp' <=> IsHelp
           /\ IsProgram' <=> IsProgram
<1>1. RoleOf' = RoleOf
  BY RolesKept
<1>2. \A role : With(role)' = With(role)
  BY <1>1 DEF With
<1>3. \A m : Given(m)' = Given(m)
  BY <1>2 DEF Given
<1>4. \A m : Meaning(m)' = Meaning(m)
  BY <1>2, <1>3 DEF Meaning
<1>. QED
  BY <1>2, <1>3, <1>4, Zenon DEF IsHelp, IsProgram

\* Two arguments in the place of one.
LEMMA Ambiguous ==
    ASSUME arguments \in Seq(STRING), NEW role, NEW j \in With(role), NEW k \in With(role),
           j # k
    PROVE  ~ (Cardinality(With(role)) <= 1) /\ Cardinality(With(role)) # 1
<1>1. Len(arguments) \in Nat /\ With(role) \in SUBSET (1 .. Len(arguments))
  BY DEF With
<1>2. ~ (Cardinality(With(role)) <= 1)
  BY <1>1, AtMostOne
<1>. QED
  BY <1>2

\* An argument that cannot be read is in no command.
LEMMA RejectedIsWrong ==
    ASSUME arguments \in Seq(STRING), Reading, RejectArgument
    PROVE  ~ IsProgram /\ ~ IsHelp
<1>1. Parsing
  BY DEF RejectArgument
<1>2. /\ index \in 1 .. Len(arguments) /\ Len(arguments) \in Nat
      /\ RoleOf[index] = IF positional_only THEN "path" ELSE TextRole(argument)
  BY <1>1, RoleHere DEF Reading
<1>3. index \in With(RoleOf[index])
  BY <1>2 DEF With
<1>4. \A role : \A j \in ReadAs(role) : j \in With(role) /\ j # index /\ index # 1
  BY <1>2 DEF ReadAs, With
<1>5. RoleOf[index] # "help" \/ index # 1 => ~ IsHelp
  <2>1. ASSUME IsHelp PROVE index = 1 /\ RoleOf[index] = "help"
    <3>1. Len(arguments) = 1 /\ With("help") # {}
      BY <2>1 DEF IsHelp
    <3>2. PICK k \in 1 .. Len(arguments) : RoleOf[k] = "help"
      BY <3>1 DEF With
    <3>. QED
      BY <1>2, <3>1, <3>2
  <2>. QED
    BY <2>1
<1>6. CASE AsOption(HelpTexts) /\ Repeated("help")
  <2>1. RoleOf[index] = "help"
    BY <1>2, <1>6, TextRoles DEF AsOption
  <2>2. ReadAs("help") # {}
    BY <1>6 DEF Repeated, Reading, SeenOnce, Flags
  <2>3. With("help") # {} /\ index # 1
    BY <1>3, <1>4, <2>1, <2>2
  <2>. QED
    BY <1>5, <2>3, Zenon DEF IsProgram
<1>7. CASE AsOption({"--debug"}) /\ Repeated("debug")
  <2>1. RoleOf[index] = "debug"
    BY <1>2, <1>7, TextRoles DEF AsOption
  <2>2. PICK j : j \in ReadAs("debug")
    BY <1>7 DEF Repeated, Reading, SeenOnce, Flags
  <2>3. index \in With("debug") /\ j \in With("debug") /\ j # index
    BY <1>3, <1>4, <2>1, <2>2
  <2>4. ~ (Cardinality(With("debug")) <= 1)
    BY <2>3, Ambiguous
  <2>. QED
    BY <1>5, <2>1, <2>4, Zenon DEF IsProgram
<1>8. ASSUME NEW member \in Members, AsOption({ValuedOption[member]}),
             Repeated(member) \/ ParsedValue(member) = {}
      PROVE  ~ IsProgram /\ ~ IsHelp
  <2>1. RoleOf[index] = member
    BY <1>2, <1>8, TextRoles DEF AsOption
  <2>2. ~ IsHelp
    BY <1>5, <2>1, MemberNames
  <2>3. CASE Repeated(member)
    <3>1. PICK j : j \in ReadAs(member)
      BY <2>3 DEF Repeated, Reading, SeenOnce, Flags
    <3>2. index \in With(member) /\ j \in With(member) /\ j # index
      BY <1>3, <1>4, <2>1, <3>1
    <3>3. ~ (Cardinality(With(member)) <= 1)
      BY <3>2, Ambiguous
    <3>. QED
      BY <2>2, <3>3, Zenon DEF IsProgram
  <2>4. CASE ParsedValue(member) = {}
    <3>1. SUFFICES ASSUME IsProgram PROVE FALSE
      BY <2>2
    <3>2. index \in With(member)
      BY <1>3, <2>1
    <3>3. /\ Cardinality(With(member)) <= 1
          /\ \E n \in Given(member) : n < TypeLimit(member)
      BY <3>1, <3>2, Zenon DEF IsProgram
    <3>4. PICK n \in Given(member) : n < TypeLimit(member)
      BY <3>3
    <3>5. PICK k \in With(member) : /\ k < Len(arguments)
                                    /\ arguments[k + 1] \in DOMAIN Numeral
                                    /\ n = Numeral[arguments[k + 1]]
      BY DEF Given
    <3>6. k = index
      BY <3>2, <3>3, Ambiguous
    <3>7. index + 1 <= Len(arguments) /\ index \in Nat
      BY <1>2, <3>5, <3>6
    <3>. QED
      BY <2>4, <3>4, <3>5, <3>6, <3>7, ParsedValues
  <2>. QED
    BY <1>8, <2>3, <2>4
<1>9. CASE /\ AsOption(Dashed)
           /\ argument \notin HelpTexts \cup {"--", "--debug"}
                                 \cup {ValuedOption[m] : m \in Members}
  <2>1. RoleOf[index] = "unknown"
    BY <1>2, <1>9, TextRoles DEF AsOption
  <2>2. With("unknown") # {}
    BY <1>3, <2>1
  <2>. QED
    BY <1>5, <2>1, <2>2, Zenon DEF IsProgram
<1>10. CASE argument = ""
  <2>1. argument \notin Dashed
    BY <1>10, CommandLineAssumption, Zenon
  <2>2. RoleOf[index] = "path"
    BY <1>2, <2>1, TextRoles
  <2>3. index \in With("path") /\ arguments[index] = ""
    BY <1>3, <1>10, <2>2, Zenon DEF argument
  <2>. QED
    BY <1>5, <2>2, <2>3, Zenon DEF IsProgram
<1>11. CASE IsPath /\ program_path # {}
  <2>1. positional_only \/ argument \notin Dashed
    BY <1>11, Zenon DEF IsPath
  <2>2. RoleOf[index] = "path"
    BY <1>2, <2>1, TextRoles
  <2>3. ReadAs("path") # {}
    BY <1>11, Zenon DEF Reading, PathRead
  <2>4. PICK j : j \in ReadAs("path")
    BY <2>3
  <2>5. index \in With("path") /\ j \in With("path") /\ j # index
    BY <1>3, <1>4, <2>2, <2>4
  <2>6. Cardinality(With("path")) # 1
    BY <2>5, Ambiguous
  <2>. QED
    BY <1>5, <2>2, <2>6, Zenon DEF IsProgram
<1>. QED
  BY <1>6, <1>7, <1>8, <1>9, <1>10, <1>11, Zenon DEF RejectArgument

\* After the last argument, what was read is the whole list.
LEMMA ReadToTheEnd ==
    ASSUME arguments \in Seq(STRING), Reading, index > Len(arguments)
    PROVE  \A role : ReadAs(role) = With(role)
<1>1. index \in 1 .. (Len(arguments) + 1) /\ Len(arguments) \in Nat
  BY DEF Reading, ParserState
<1>2. 1 .. (index - 1) = 1 .. Len(arguments)
  BY <1>1
<1>. QED
  BY <1>2 DEF ReadAs, With

\* The options are then what the list says.
LEMMA OptionsMeant ==
    ASSUME arguments \in Seq(STRING), Reading, index > Len(arguments), NEW m \in Members
    PROVE  /\ Meaning(m) = options[m]
           /\ Cardinality(With(m)) <= 1
           /\ With(m) # {} => \E n \in Given(m) : n < TypeLimit(m)
<1>1. ReadAs(m) = With(m)
  BY ReadToTheEnd
<1>2. Len(arguments) \in Nat /\ With(m) \in SUBSET (1 .. Len(arguments))
      /\ index = Len(arguments) + 1
  BY DEF With, Reading, ParserState
<1>3. \A j, k \in With(m) : j = k
  BY <1>1 DEF Reading, SeenOnce, Flags
<1>4. Cardinality(With(m)) <= 1
  BY <1>2, <1>3, AtMostOne
<1>5. CASE With(m) = {}
  <2>1. options[m] = Defaults[m]
    BY <1>1, <1>5 DEF Reading, ValuesRead
  <2>. QED
    BY <1>4, <1>5, <2>1 DEF Meaning
<1>6. CASE With(m) # {}
  <2>1. PICK k : k \in With(m)
    BY <1>6
  <2>2. /\ k + 1 < index /\ arguments[k + 1] \in DOMAIN Numeral
        /\ Numeral[arguments[k + 1]] < TypeLimit(m)
        /\ options[m] = Numeral[arguments[k + 1]]
    BY <1>1, <2>1 DEF Reading, ValuesRead
  <2>3. k < Len(arguments)
    BY <1>2, <2>1, <2>2
  <2>4. {j \in With(m) : j < Len(arguments) /\ arguments[j + 1] \in DOMAIN Numeral} = {k}
    BY <1>3, <2>1, <2>2, <2>3
  <2>5. Given(m) = {options[m]}
    BY <2>2, <2>4 DEF Given
  <2>6. TheOnly(Given(m)) = options[m]
    BY <2>5 DEF TheOnly
  <2>. QED
    BY <1>4, <1>6, <2>2, <2>5, <2>6 DEF Meaning
<1>. QED
  BY <1>5, <1>6

\* Without help, the tests after the loop decide whether the list is a command.
LEMMA ProgramOrNot ==
    ASSUME arguments \in Seq(STRING), Reading, index > Len(arguments), "help" \notin seen
    PROVE  /\ IsProgram <=> program_path # {} /\ valid_memory_configuration(options)
           /\ ~ IsHelp
<1>1. \A role : ReadAs(role) = With(role)
  BY ReadToTheEnd
<1>2. With("help") = {} /\ With("unknown") = {}
  <2>1. ReadAs("help") = {}
    BY DEF Reading, SeenOnce, Flags
  <2>2. ReadAs("unknown") = {}
    BY Zenon DEF Reading, PathRead
  <2>. QED
    BY <1>1, <2>1, <2>2
<1>3. \A role : Len(arguments) \in Nat /\ With(role) \in SUBSET (1 .. Len(arguments))
  BY DEF With
<1>4. Cardinality(With("debug")) <= 1
  <2>1. \A j, k \in With("debug") : j = k
    BY <1>1 DEF Reading, SeenOnce, Flags
  <2>. QED
    BY <1>3, <2>1, AtMostOne
<1>5. Cardinality(With("path")) = 1 <=> program_path # {}
  <2>1. (\A j, k \in With("path") : j = k) /\ (program_path # {} <=> With("path") # {})
    BY <1>1, Zenon DEF Reading, PathRead
  <2>. QED
    BY <1>3, <2>1, AtMostOne
<1>6. \A k \in With("path") : arguments[k] # ""
  BY <1>1, Zenon DEF Reading, PathRead
<1>7. \A m \in Members : /\ Cardinality(With(m)) <= 1
                         /\ With(m) # {} => \E n \in Given(m) : n < TypeLimit(m)
  BY OptionsMeant
<1>8. valid_memory_configuration(options) <=>
          /\ Meaning("memory_size") # 0
          /\ Meaning("stack_size") \in 1 .. Meaning("memory_size")
          /\ Meaning("maximum_steps") # 0
          /\ Meaning("memory_base") + Meaning("memory_size") <= kGuestAddressSpaceSize
  <2>1. \A m \in {"memory_base", "memory_size", "stack_size", "maximum_steps"} :
            Meaning(m) = options[m] /\ options[m] \in Nat
    BY OptionsMeant, MemberNames DEF Reading, ParserState
  <2>2. PICK base, size, stack, steps \in Nat :
            /\ options.memory_base = base /\ Meaning("memory_base") = base
            /\ options.memory_size = size /\ Meaning("memory_size") = size
            /\ options.stack_size = stack /\ Meaning("stack_size") = stack
            /\ options.maximum_steps = steps /\ Meaning("maximum_steps") = steps
    BY <2>1
  <2>3. kGuestAddressSpaceSize \in Nat
    BY CommandLineAssumption, Zenon
  <2>4. /\ size <= kGuestAddressSpaceSize - base <=> base + size <= kGuestAddressSpaceSize
        /\ (stack # 0 /\ stack <= size) <=> stack \in 1 .. size
    BY <2>3
  <2>. QED
    BY <2>2, <2>4 DEF valid_memory_configuration
<1>9. IsProgram <=> program_path # {} /\ valid_memory_configuration(options)
  BY <1>2, <1>4, <1>5, <1>6, <1>7, <1>8, Zenon DEF IsProgram
<1>10. ~ IsHelp
  BY <1>2 DEF IsHelp
<1>. QED
  BY <1>9, <1>10

LEMMA FinishIsRight ==
    ASSUME ParserInvariant, FinishParsing
    PROVE  ParsesTheLanguage' /\ ParserInvariant'
<1>1. /\ arguments \in Seq(STRING) /\ Reading /\ exit_status = {} /\ index > Len(arguments)
      /\ UNCHANGED <<arguments, index, positional_only, seen, options, program_path,
                     exit_status>>
  BY DEF FinishParsing, ParserInvariant, Reading
<1>2. \A role : ReadAs(role) = With(role)
  BY <1>1, ReadToTheEnd
<1>3. exit_status' = {} /\ ("debug" \in seen <=> With("debug") # {})
      /\ ("help" \in seen <=> With("help") # {})
  BY <1>1, <1>2 DEF Reading, SeenOnce, Flags
<1>4. /\ \A role : With(role)' = With(role)
      /\ \A m : Meaning(m)' = Meaning(m)
      /\ IsHelp' <=> IsHelp
      /\ IsProgram' <=> IsProgram
  BY <1>1, LanguageKept
<1>5. CASE "help" \in seen
  <2>1. ~ IsProgram /\ (IsHelp <=> Len(arguments) = 1)
    BY <1>3, <1>5, Zenon DEF IsProgram, IsHelp
  <2>2. parse_result' = IF Len(arguments) = 1 THEN "Help" ELSE "Failure"
    BY <1>5 DEF FinishParsing
  <2>. QED
    BY <1>1, <1>3, <1>4, <2>1, <2>2 DEF ParsesTheLanguage, ParserInvariant
<1>6. CASE "help" \notin seen
  <2>1. /\ IsProgram <=> program_path # {} /\ valid_memory_configuration(options)
        /\ ~ IsHelp
    BY <1>1, <1>6, ProgramOrNot
  <2>2. parse_result' = IF program_path # {} /\ valid_memory_configuration(options)
                        THEN "Success" ELSE "Failure"
    BY <1>6 DEF FinishParsing
  <2>3. options' = [m \in Members |-> Meaning(m)']
    <3>1. options = [m \in Members |-> options[m]]
      BY <1>1 DEF Reading, ParserState
    <3>2. \A m \in Members : options[m] = Meaning(m)'
      BY <1>1, <1>4, OptionsMeant
    <3>. QED
      BY <1>1, <3>1, <3>2
  <2>4. program_path' = {arguments'[k] : k \in With("path")'}
    BY <1>1, <1>2, <1>4, Zenon DEF Reading, PathRead
  <2>. QED
    BY <1>1, <1>3, <1>4, <2>1, <2>2, <2>3, <2>4 DEF ParsesTheLanguage, ParserInvariant
<1>. QED
  BY <1>5, <1>6

LEMMA ParserStep ==
    ASSUME ParserInvariant, ParsesTheLanguage, [CommandLineNext]_command_line_vars
    PROVE  ParserInvariant' /\ ParsesTheLanguage'
<1>1. ASSUME Reading', UNCHANGED <<arguments, parse_result, exit_status>>,
             parse_result = "None"
      PROVE  ParserInvariant' /\ ParsesTheLanguage'
  <2>1. ParserInvariant'
    BY <1>1 DEF ParserInvariant, Reading
  <2>2. parse_result' = "None" /\ exit_status' = {}
    BY <1>1 DEF ParserInvariant
  <2>. QED
    BY <2>1, <2>2 DEF ParsesTheLanguage
<1>2. Parsing => /\ arguments \in Seq(STRING) /\ Reading /\ parse_result = "None"
                 /\ exit_status = {}
  BY DEF Parsing, ParserInvariant, Reading
<1>3. CASE EndOfOptions
  BY <1>1, <1>2, <1>3, EndOfOptionsKeeps DEF EndOfOptions
<1>4. CASE ReadFlag
  BY <1>1, <1>2, <1>4, ReadFlagKeeps DEF ReadFlag
<1>5. CASE ReadValuedOption
  BY <1>1, <1>2, <1>5, ReadValuedOptionKeeps DEF ReadValuedOption
<1>6. CASE ReadPath
  BY <1>1, <1>2, <1>6, ReadPathKeeps DEF ReadPath
<1>7. CASE RejectArgument
  <2>1. Parsing /\ Fails
    BY <1>7, Zenon DEF RejectArgument
  <2>2. ~ IsProgram /\ ~ IsHelp
    BY <1>2, <1>7, <2>1, RejectedIsWrong
  <2>3. UNCHANGED arguments /\ parse_result' = "Failure" /\ exit_status' = {}
    BY <1>2, <2>1 DEF Fails
  <2>4. ~ IsProgram' /\ ~ IsHelp'
    BY <2>2, <2>3, LanguageKept
  <2>. QED
    BY <1>2, <2>1, <2>3, <2>4 DEF ParsesTheLanguage, ParserInvariant
<1>8. CASE FinishParsing
  BY <1>8, FinishIsRight
<1>9. CASE ReturnFromMain
  <2>1. /\ UNCHANGED <<arguments, seen, options, program_path, parse_result>>
        /\ parse_result \in {"Help", "Failure"}
        /\ exit_status' = {IF parse_result = "Help" THEN 0 ELSE 2}
    BY <1>9 DEF ReturnFromMain, kUsageExitStatus
  <2>2. /\ \A role : With(role)' = With(role)
        /\ \A m : Meaning(m)' = Meaning(m)
        /\ IsHelp' <=> IsHelp
        /\ IsProgram' <=> IsProgram
    BY <2>1, LanguageKept
  <2>3. (parse_result = "Help" <=> IsHelp) /\ (parse_result = "Failure" => ~ IsProgram)
    BY <2>1 DEF ParsesTheLanguage
  <2>. QED
    BY <2>1, <2>2, <2>3 DEF ParsesTheLanguage, ParserInvariant
<1>10. CASE UNCHANGED command_line_vars
  <2>1. UNCHANGED <<arguments, index, positional_only, seen, options, program_path,
                    parse_result, exit_status>>
    BY <1>10 DEF command_line_vars
  <2>2. /\ \A role : With(role)' = With(role)
        /\ \A m : Meaning(m)' = Meaning(m)
        /\ IsHelp' <=> IsHelp
        /\ IsProgram' <=> IsProgram
    BY <2>1, LanguageKept
  <2>3. ParsesTheLanguage'
    BY <2>1, <2>2 DEF ParsesTheLanguage
  <2>4. \A role : ReadAs(role)' = ReadAs(role)
    BY <2>1, RolesKept DEF ReadAs
  <2>5. RoleOf' = RoleOf
    BY <2>1, RolesKept
  <2>6. ParserState /\ SeenOnce /\ ValuesRead /\ PathRead
           => ParserState' /\ SeenOnce' /\ ValuesRead' /\ PathRead'
    <3>1. ParserState => ParserState'
      BY <2>1, <2>4, <2>5 DEF ParserState
    <3>2. SeenOnce => SeenOnce'
      BY <2>1, <2>4 DEF SeenOnce
    <3>3. ValuesRead => ValuesRead'
      BY <2>1, <2>4, Zenon DEF ValuesRead
    <3>4. PathRead => PathRead'
      BY <2>1, <2>4, Zenon DEF PathRead
    <3>. QED
      BY <3>1, <3>2, <3>3, <3>4
  <2>. QED
    BY <2>1, <2>3, <2>6 DEF ParserInvariant
<1>11. CASE Ended
  BY <1>10, <1>11 DEF Ended
<1>. QED
  BY <1>3, <1>4, <1>5, <1>6, <1>7, <1>8, <1>9, <1>10, <1>11 DEF CommandLineNext

LEMMA ParserStart ==
    ASSUME CommandLineInit
    PROVE  ParserInvariant /\ ParsesTheLanguage
<1>1. /\ arguments \in Seq(STRING) /\ index = 1 /\ positional_only = FALSE /\ seen = {}
      /\ program_path = {} /\ parse_result = "None" /\ exit_status = {}
  BY CommandLineAssumption, Zenon DEF CommandLineInit
<1>2. options = [m \in Members |-> Defaults[m]] /\ Defaults \in [Members -> Nat]
  BY CommandLineAssumption, Zenon DEF CommandLineInit
<1>3. \A role : ReadAs(role) = {}
  BY <1>1 DEF ReadAs
<1>4. RoleOf[0] = "separator"
  <2>1. 0 \in 0 .. Len(arguments)
    BY <1>1
  <2>. QED
    BY <1>1, <2>1, RoleOfEquation DEF NextRole
<1>5. ParserState
  <2>1. index - 1 = 0 /\ index \in 1 .. (Len(arguments) + 1)
    BY <1>1
  <2>2. RoleOf[index - 1] \notin Members
    BY <1>4, <2>1, MemberNames
  <2>3. options \in [Members -> Nat]
    BY <1>2
  <2>. QED
    BY <1>1, <1>3, <2>1, <2>2, <2>3, Zenon DEF ParserState
<1>6. SeenOnce /\ ValuesRead
  BY <1>1, <1>2, <1>3 DEF SeenOnce, ValuesRead
<1>7. PathRead
  BY <1>1, <1>3, Zenon DEF PathRead
<1>. QED
  BY <1>1, <1>5, <1>6, <1>7 DEF ParserInvariant, ParsesTheLanguage

(***************************************************************************)
(* parse_arguments accepts the command language, no more and no less, and  *)
(* gives run_cli what the arguments say; main ends with status 0 for help  *)
(* and 2 for everything else that is not a command.                        *)
(***************************************************************************)
THEOREM ArgumentsAreParsed == CommandLineSpec => []ParsesTheLanguage
<1>1. CommandLineInit => ParserInvariant /\ ParsesTheLanguage
  BY ParserStart
<1>2. (ParserInvariant /\ ParsesTheLanguage) /\ [CommandLineNext]_command_line_vars
         => (ParserInvariant /\ ParsesTheLanguage)'
  BY ParserStep
<1>. QED
  BY <1>1, <1>2, PTL DEF CommandLineSpec

=============================================================================
