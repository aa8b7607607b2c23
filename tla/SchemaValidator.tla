--------------------------- MODULE SchemaValidator ---------------------------
(***************************************************************************)
(* UASTMapValidator.validate_uast_map (build/scripts/uastmapsgen/          *)
(* gen_uastmaps.py): three structural checks that each return at once,     *)
(* then one scan over all lines collecting type: and roles: values that    *)
(* the schema's NodeType and Role enumerations do not contain. The         *)
(* enumerations are the constants ValidTypes and ValidRoles (loading them  *)
(* is the driver's concern). Lines are DslLines records.                   *)
(***************************************************************************)
EXTENDS Naturals, Sequences, DslLines

CONSTANTS
    Contents,       \* the mapping texts the validator may be given
    ValidTypes,     \* definitions.NodeType.enum
    ValidRoles      \* definitions.Role.enum

ASSUME ValidTypes /= {} /\ ValidRoles /= {}

VARIABLES
    content,        \* content.split('\n')
    k,              \* the line number of enumerate(lines, 1)
    issues,         \* spec_compliance_issues: [line, kind, values] records
    pc,             \* "start", "scan", "done"
    valid,          \* the returned flag
    reason          \* which message is returned

vars == <<content, k, issues, pc, valid, reason>>

\* Mutant: a header anywhere in the content is accepted ('[language ' in content).
HasLanguageSectionAnywhere(ls) == \E j \in 1..Len(ls) : ls[j].kind = "header"

\* _has_content, _has_language_section (content.startswith('[language '),
\* so an indented header does not count) and _has_uast_mappings.
HasContent(ls) == \E j \in 1..Len(ls) : ls[j].kind /= "blank"
HasLanguageSection(ls) == Len(ls) >= 1 /\ ls[1].kind = "header" /\ ~ls[1].indent
HasUastMappings(ls) == \E j \in 1..Len(ls) : ls[j].kind = "rule"

\* _extract_roles_value: re.search(r'roles:\s*\[(.*?)\]') and the quoted names
\* inside; a roles: line without brackets yields None, an empty list too.
ExtractRolesValue(l) == IF l.bracketed THEN l.roles ELSE << >>

\* Mutant: lines numbered from 0 (enumerate(lines)).
IssueLineFromZero(j) == j - 1

\* Mutant: the 1-based index is incremented once more (enumerate(lines, 1) + 1).
IssueLineShifted(j) == j + 1

\* The line number reported for the j-th line: enumerate(lines, 1).
IssueLine(j) == j

\* The issues one line contributes (_check_spec_compliance loop body).
LineIssues(l, j) ==
    LET badRoles == SelectSeq(ExtractRolesValue(l), LAMBDA r : r \notin ValidRoles)
    IN (IF l.type /= "" /\ l.type \notin ValidTypes
        THEN <<[line |-> IssueLine(j), kind |-> "type", values |-> <<l.type>>]>>
        ELSE << >>)
       \o (IF l.hasRoles /\ badRoles /= << >>
           THEN <<[line |-> IssueLine(j), kind |-> "roles", values |-> badRoles]>>
           ELSE << >>)

-----------------------------------------------------------------------------

Init ==
    /\ content \in Contents
    /\ k = 1 /\ issues = << >> /\ pc = "start"
    /\ valid = FALSE /\ reason = "none"

Return(v, r) == valid' = v /\ reason' = r /\ pc' = "done"

RejectEmpty ==
    /\ pc = "start" /\ ~HasContent(content)
    /\ Return(FALSE, "Empty content")
    /\ UNCHANGED <<content, k, issues>>

RejectMissingSection ==
    /\ pc = "start" /\ HasContent(content) /\ ~HasLanguageSection(content)
    /\ Return(FALSE, "Missing language section")
    /\ UNCHANGED <<content, k, issues>>

RejectNoMappings ==
    /\ pc = "start" /\ HasContent(content) /\ HasLanguageSection(content)
    /\ ~HasUastMappings(content)
    /\ Return(FALSE, "No UAST mappings found")
    /\ UNCHANGED <<content, k, issues>>

StartCompliance ==
    /\ pc = "start" /\ HasContent(content) /\ HasLanguageSection(content)
    /\ HasUastMappings(content)
    /\ pc' = "scan"
    /\ UNCHANGED <<content, k, issues, valid, reason>>

CheckLine ==
    /\ pc = "scan" /\ k <= Len(content)
    /\ issues' = issues \o LineIssues(content[k], k)
    /\ k' = k + 1
    /\ UNCHANGED <<content, pc, valid, reason>>

Conclude ==
    /\ pc = "scan" /\ k > Len(content)
    /\ IF issues = << >> THEN Return(TRUE, "Valid and SPEC-compliant")
                         ELSE Return(FALSE, "SPEC compliance issues")
    /\ UNCHANGED <<content, k, issues>>

Next ==
    \/ RejectEmpty \/ RejectMissingSection \/ RejectNoMappings
    \/ StartCompliance \/ CheckLine \/ Conclude

Spec == Init /\ [][Next]_vars

-----------------------------------------------------------------------------
(* Properties *)

IssueRec == [line : 1..Len(content), kind : {"type", "roles"}, values : Seq(STRING)]

TypeOK ==
    /\ content \in Seq(LineRec) /\ issues \in Seq(IssueRec)
    /\ k \in 1..(Len(content) + 1)
    /\ pc \in {"start", "scan", "done"} /\ valid \in BOOLEAN

InvalidType(l) == l.type /= "" /\ l.type \notin ValidTypes

\* A file reported valid has its header on the first line, at least one
\* rule, and no type: value outside the schema's NodeType enumeration.
VerdictSound ==
    (pc = "done" /\ valid) =>
        /\ Len(content) >= 1 /\ content[1].kind = "header" /\ ~content[1].indent
        /\ \E j \in 1..Len(content) : content[j].kind = "rule"
        /\ \A j \in 1..Len(content) : ~InvalidType(content[j])

\* Every type issue names the line (numbered from 1) that carries exactly that
\* invalid type, and every line with an invalid type is reported, once the
\* compliance scan has run.
TypeIssuesExact ==
    (pc = "done" /\ reason \in {"SPEC compliance issues", "Valid and SPEC-compliant"}) =>
        LET ti == SelectSeq(issues, LAMBDA is : is.kind = "type")
        IN /\ \A n \in 1..Len(ti) :
                /\ ti[n].line \in 1..Len(content)
                /\ <<content[ti[n].line].type>> = ti[n].values
                /\ InvalidType(content[ti[n].line])
           /\ \A j \in 1..Len(content) :
                InvalidType(content[j]) => \E n \in 1..Len(ti) : ti[n].line = j

\* Spec 4.6 (5): a roles: field with a value outside the Role enumeration
\* makes the file invalid.
RolesFidelity ==
    (pc = "done" /\ \E j \in 1..Len(content) :
        content[j].hasRoles /\ \E r \in 1..Len(content[j].roles) :
            content[j].roles[r] \notin ValidRoles) => ~valid

\* Spec 8 / 4.6: for a type not in the NodeType enumeration the validator
\* returns invalid with a message naming that type (violations are
\* concatenated, not cut off at the first).
EnumFidelity ==
    (pc = "done" /\ \E j \in 1..Len(content) : InvalidType(content[j])) =>
        /\ ~valid
        /\ \A j \in 1..Len(content) : InvalidType(content[j]) =>
              \E n \in 1..Len(issues) : issues[n].values = <<content[j].type>>

=============================================================================
