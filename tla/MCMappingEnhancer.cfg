\* Two rule blocks; every body shape the draft generator or an earlier
\* enhancement produces, except nested calls; one and two calls.
CONSTANTS
    NumBlocks = 2
    MCRuleNames = {"if_statement", "function_declaration", "unknown_widget_thing", ""}
    MCTypes = {"If", "Synthetic", "Function"}
    BodyShapes = {"plain", "enhanced", "lateRoles", "open"}
    Passes = 2
    Lang = "go"
    Drafts <- MCDrafts
INIT Init
NEXT Next
INVARIANTS
    TypeOK
    NonDestructive
    InsertionRespectsEarlierFields
CHECK_DEADLOCK FALSE
