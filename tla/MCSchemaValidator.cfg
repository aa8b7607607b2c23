\* All contents of up to 4 lines over 11 kinds of line.
CONSTANTS
    MaxLines = 4
    GoodType = "Function"
    BadType = "Widget"
    GoodRole = "Declaration"
    BadRole = "Condition"
    ValidTypes = {"Function", "Identifier"}
    ValidRoles = {"Declaration", "Reference"}
    Contents <- MCContents
INIT Init
NEXT Next
INVARIANTS
    TypeOK
    VerdictSound
    TypeIssuesExact
CHECK_DEADLOCK FALSE
