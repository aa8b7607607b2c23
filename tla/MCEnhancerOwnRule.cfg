\* Two blocks of different rules: whose classification lands in the second block.
CONSTANTS
    NumBlocks = 2
    MCRuleNames = {"if_statement", "function_declaration"}
    MCTypes = {"Function"}
    BodyShapes = {"plain"}
    Passes = 1
    Lang = "go"
    Drafts <- MCDrafts
INIT Init
NEXT Next
INVARIANT OwnRuleMetadata
CHECK_DEADLOCK FALSE
