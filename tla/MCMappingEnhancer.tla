-------------------------- MODULE MCMappingEnhancer --------------------------
(***************************************************************************)
(* Drafts for MappingEnhancer: an optional language header, then NumBlocks *)
(* rule blocks separated by blank lines, in the DSL shape of spec 6:       *)
(*     <rule_name> <- <other-tokens> => uast(                              *)
(*         <field lines>                                                   *)
(*     )                                                                   *)
(***************************************************************************)
EXTENDS MappingEnhancer

CONSTANTS
    NumBlocks,      \* rule blocks per draft
    MCRuleNames,    \* rule names as _extract_rule_name returns them ("" = malformed)
    MCTypes,        \* literal type: values written by the draft generator
    BodyShapes,     \* which block bodies the drafts use
    Lang            \* language name in the draft header

\* Block bodies, named by shape:
\*   "plain"      type: "<T>",  )
\*   "enhanced"   token: "self",  roles: "Reference",  type: "<T>",  )
\*                (the shape a previous enhancement leaves behind)
\*   "lateRoles"  type: "<T>",  roles: "Reference",  )
\*   "lateToken"  type: "<T>",  token: "self",  )
\*   "nested"     children: (  ),  type: "<T>",  )
\*   "open"       type: "<T>",            (no closing parenthesis)
Body(shape, t) ==
    CASE shape = "plain"     -> <<TypeLine(t), CloseLine>>
      [] shape = "enhanced"  -> <<TokenLine("self"), RolesLine(<<"Reference">>), TypeLine(t), CloseLine>>
      [] shape = "lateRoles" -> <<TypeLine(t), RolesLine(<<"Reference">>), CloseLine>>
      [] shape = "lateToken" -> <<TypeLine(t), TokenLine("self"), CloseLine>>
      [] shape = "nested"    -> <<[Mk("field") EXCEPT !.parens = <<"(">>, !.indent = TRUE], CloseLine, TypeLine(t), CloseLine>>
      [] shape = "open"      -> <<TypeLine(t)>>

Blocks == { <<RuleLine(n)>> \o Body(b, t) : n \in MCRuleNames, b \in BodyShapes, t \in MCTypes }

RECURSIVE JoinBlocks(_, _)
JoinBlocks(bs, k) ==
    IF k > Len(bs) THEN << >>
    ELSE (IF k = 1 THEN << >> ELSE <<BlankLine>>) \o bs[k] \o JoinBlocks(bs, k + 1)

MCDrafts ==
    { h \o JoinBlocks(bs, 1) : h \in {<< >>, <<HeaderLine(Lang), BlankLine>>},
                               bs \in [1..NumBlocks -> Blocks] }

=============================================================================
