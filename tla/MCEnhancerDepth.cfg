\* Blocks whose first field is a nested parenthesised construct.
CONSTANTS
    NumBlocks = 2
    MCRuleNames = {"if_statement"}
    MCTypes = {"Function"}
    BodyShapes = {"plain", "nested"}
    Passes = 1
    Lang = "go"
    Drafts <- MCDrafts
INIT Init
NEXT Next
INVARIANT InsertedAtDepthOne
CHECK_DEADLOCK FALSE
