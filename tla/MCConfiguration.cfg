\* Each part at its own bounds.
CONSTANTS
    octets = octets  integer = integer
    Types = {octets, integer}
    Configs <- SmallConfigs
    MaxRequests = 2
    Leaves <- SmallLeaves
    KeyPaths <- SmallPaths
    MaxNodes = 7
    MaxCalls = 4
    Keys = {"a", "b"}
    StackLimit = 3
    MaxText = 6
    Nibbles = 2
    Digits = {0, 1, 2, 7, 8, 15}
    MaxChars = 4
    SwitchNames = {"v", "w"}
    SwitchValues = {"", "1"}
    Argvs <- SmallArgvs
    Wrappers <- SmallWrappers
    MaxEdits = 2
    Starts <- SmallStarts
    Letters = {"a", "*", "?", "/", "=", ",", "1", " "}
    MaxLetters = 3
    Files <- SmallFiles
    Levels = {3}
SPECIFICATION ConfigurationSpec
INVARIANTS AnswersOwnColumn IndexesFit ValuesSound ReadsDocuments
    ConversionsExact ArgvReadsBack FirstPatternDecides
PROPERTIES ImplementsTree
