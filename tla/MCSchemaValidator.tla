------------------------- MODULE MCSchemaValidator -------------------------
(* Every content of up to MaxLines lines over a line alphabet holding a     *)
(* flush and an indented header, a rule line, type: lines with a permitted *)
(* and a non-permitted value, and roles: lines in both the bracketed form  *)
(* and the form the enhancer writes, with permitted and non-permitted      *)
(* roles.                                                                  *)
EXTENDS SchemaValidator

CONSTANTS
    MaxLines,
    GoodType, BadType,      \* a type in ValidTypes, and one outside it
    GoodRole, BadRole       \* a role in ValidRoles, and one outside it

RolesLines ==
    { [RolesLine(rs) EXCEPT !.bracketed = b] :
        rs \in {<<GoodRole>>, <<GoodRole, BadRole>>}, b \in BOOLEAN }

Alphabet ==
    { HeaderLine("go"), [HeaderLine("go") EXCEPT !.indent = TRUE], BlankLine,
      RuleLine("identifier"), TypeLine(GoodType), TypeLine(BadType), CloseLine }
    \cup RolesLines

MCContents == UNION { [1..n -> Alphabet] : n \in 0..MaxLines }

=============================================================================
