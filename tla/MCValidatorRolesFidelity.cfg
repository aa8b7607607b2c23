\* Contents of up to 3 lines: is RolesFidelity upheld?
CONSTANTS
    MaxLines = 3
    GoodType = "Function"
    BadType = "Widget"
    GoodRole = "Declaration"
    BadRole = "Condition"
    ValidTypes = {"Function", "Identifier"}
    ValidRoles = {"Declaration", "Reference"}
    Contents <- MCContents
INIT Init
NEXT Next
INVARIANT RolesFidelity
CHECK_DEADLOCK FALSE
