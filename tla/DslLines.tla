------------------------------ MODULE DslLines ------------------------------
(***************************************************************************)
(* Lines of a mapping file (spec 6), as the line-oriented code of          *)
(* gen_uastmaps.py sees them: a record of what its substring tests find.   *)
(*   kind     "header" (strip() starts with [language ), "blank" (strip()  *)
(*            is empty), "rule" (contains => uast(, hence also uast( ),    *)
(*            "field", "close";                                            *)
(*   indent   the line has leading whitespace;                             *)
(*   name     for a rule line, what _extract_rule_name returns: the text   *)
(*            before a single <-, or "" when there are zero or several;    *)
(*            for a header line, the language name it declares;            *)
(*   type     the value of a type: "..." field, "" when there is none;     *)
(*   token    the value of a token: field, "" when there is none;          *)
(*   hasRoles / roles   whether a roles: field is present, and its list;   *)
(*   bracketed  the roles list is written roles: [...] rather than         *)
(*            roles: "r1", "r2", (the form _create_roles_line writes);      *)
(*   parens   the ( and ) characters of the line, in order.                *)
(* Wording, quoting and the header's extension and file lists are left out.*)
(***************************************************************************)
EXTENDS Sequences

Mk(k) == [kind |-> k, indent |-> FALSE, name |-> "", type |-> "", token |-> "",
          hasRoles |-> FALSE, roles |-> << >>, bracketed |-> FALSE, parens |-> << >>]

LineRec == [kind : {"header", "blank", "rule", "field", "close"}, indent : BOOLEAN,
            name : STRING, type : STRING, token : STRING,
            hasRoles : BOOLEAN, roles : Seq(STRING), bracketed : BOOLEAN, parens : Seq({"(", ")"})]

HeaderLine(lang) == [Mk("header") EXCEPT !.name = lang]
BlankLine  == Mk("blank")
RuleLine(n) == [Mk("rule") EXCEPT !.name = n]
TypeLine(t) == [Mk("field") EXCEPT !.type = t, !.indent = TRUE]
CloseLine  == [Mk("close") EXCEPT !.parens = <<")">>]
\* _create_token_line: token: "<strategy>",
TokenLine(s) == [Mk("field") EXCEPT !.token = s, !.indent = TRUE]
\* _create_roles_line: roles: "<r1>", "<r2>",
RolesLine(r) == [Mk("field") EXCEPT !.hasRoles = TRUE, !.roles = r, !.indent = TRUE]

=============================================================================
