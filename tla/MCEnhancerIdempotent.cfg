\* One draft block per rule, enhanced twice.
CONSTANTS
    NumBlocks = 2
    MCRuleNames = {"if_statement", "function_declaration"}
    MCTypes = {"Function"}
    BodyShapes = {"plain"}
    Passes = 2
    Lang = "go"
    Drafts <- MCDrafts
INIT Init
NEXT Next
INVARIANT Idempotent
CHECK_DEADLOCK FALSE
