SPECIFICATION Spec
CONSTANTS
    MaxTurns = 2
    MaxRewrites = 2
    ModelCallLimit = 2
    ToolCallLimit = 2
INVARIANTS
    LearnerResponsesAccountForThemselves
    AnswersComeWithTheirEvidence
    ModelCallsAreBounded
    TurnsAreWhole
    LedgersHoldEveryTurn
PROPERTIES
    ImplementsTurnProtocol
