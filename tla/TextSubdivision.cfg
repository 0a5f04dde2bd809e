\* Parts of up to five characters over a limit of three units.
SPECIFICATION TextSpec
CONSTANTS
    UnitLimit = 3
    WideTokens = 1
    MaxCharacters = 5
INVARIANTS
    PunctuationIsSilent
CHECK_DEADLOCK FALSE
