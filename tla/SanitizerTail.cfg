\* What a client of /v1/chat/completions gets of an answer of three symbols.
SPECIFICATION SanitizerSpec
CONSTANTS
    Names = {"t"}
    HoldBack = 3
    MaxText = 3
    MaxToken = 2
INVARIANTS
    ContentSurvives
CHECK_DEADLOCK FALSE
