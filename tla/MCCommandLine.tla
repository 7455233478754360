--------------------------- MODULE MCCommandLine ---------------------------
(***************************************************************************)
(* CommandLine with an 8-bit guest address space and 10-bit counts.        *)
(***************************************************************************)
EXTENDS CommandLine, TLC

MCNumeral == "0" :> 0 @@ "0x10" :> 16 @@ "192" :> 192 @@ "256" :> 256 @@ "9999" :> 9999

MCDefaults ==
    [memory_base |-> 128, memory_size |-> 64, stack_size |-> 32, maximum_steps |-> 50]

Values == DOMAIN MCNumeral \cup {"12k", "-1", ""}
OptionTexts == {ValuedOption[m] : m \in Members}
MCDashed == {"--", "-h", "--help", "--debug", "-1"} \cup OptionTexts

Texts == MCDashed \cup {"a.elf", "192", ""}

\* An argument, or an option with a value.
Items == {<<text>> : text \in Texts} \cup (OptionTexts \X Values)

\* Up to three items in any order, and all four options at once.
MCArgumentLists ==
    {<< >>} \cup Items
    \cup {first \o second : first, second \in Items}
    \cup {first \o second \o third : first, second, third \in Items}
    \cup {<<"--memory-size", size, "--memory-base", base, "--debug",
             "--max-steps", "0x10", "a.elf">> : size, base \in Values}
=============================================================================
