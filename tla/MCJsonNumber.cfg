\* Texts of up to three lexemes.
CONSTANTS
    Keys = {"a", "b"}
    StackLimit = 3
    MaxText = 3
SPECIFICATION JsonSpec
INVARIANTS ReadReturns
CHECK_DEADLOCK FALSE
