\* All contents of up to 4 lines over 7 kinds of line; each formatted twice,
\* the second time for either language.
CONSTANTS
    MaxLines = 4
    OldLang = "old"
    Langs = {"go", "golang"}
    Passes = 2
    Drafts <- MCDrafts
INIT Init
NEXT Next
INVARIANTS
    TypeOK
    HeaderUnique
    FormatIdempotent
PROPERTY
    ImplementsAbstract
CHECK_DEADLOCK FALSE
