\* Lists of up to three arguments or option-value pairs.
SPECIFICATION CommandLineSpec
CONSTANTS
    ArgumentLists <- MCArgumentLists
    Dashed <- MCDashed
    Numeral <- MCNumeral
    kGuestAddressSpaceSize = 256
    CountLimit = 1024
    Defaults <- MCDefaults
INVARIANT
    ParsesTheLanguage
