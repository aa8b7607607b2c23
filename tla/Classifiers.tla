----------------------------- MODULE Classifiers -----------------------------
(***************************************************************************)
(* The three stateless classifiers of build/scripts/uastmapsgen/           *)
(* gen_uastmaps.py: UASTTypeMapper, UASTRoleMapper and TokenStrategyMapper. *)
(* Rule names are TLA+ strings; TLC evaluates Len, SubSeq and \o on        *)
(* strings, so endswith, "in" and lower() are defined on them directly.    *)
(***************************************************************************)
EXTENDS Naturals, Sequences

-----------------------------------------------------------------------------
(* String helpers standing for Python's str.lower, str.endswith and "in". *)

Upper == "ABCDEFGHIJKLMNOPQRSTUVWXYZ"
Lowers == "abcdefghijklmnopqrstuvwxyz"

\* str.lower() on one character (ASCII letters; other characters unchanged).
LowerChar(c) ==
    IF \E k \in 1..26 : SubSeq(Upper, k, k) = c
    THEN LET k == CHOOSE k \in 1..26 : SubSeq(Upper, k, k) = c
         IN SubSeq(Lowers, k, k)
    ELSE c

RECURSIVE Lower(_)
Lower(s) == IF s = "" THEN "" ELSE LowerChar(SubSeq(s, 1, 1)) \o Lower(SubSeq(s, 2, Len(s)))

EndsWith(s, suf) ==
    Len(s) >= Len(suf) /\ SubSeq(s, Len(s) - Len(suf) + 1, Len(s)) = suf

HasSubstring(s, p) ==
    \E k \in 1..(Len(s) - Len(p) + 1) : SubSeq(s, k, k + Len(p) - 1) = p

AnyIn(pats, s) == \E p \in pats : HasSubstring(s, p)

-----------------------------------------------------------------------------
(* UASTTypeMapper._create_canonical_types: the exact-name table, written   *)
(* as groups of rule names sharing one canonical type.                     *)
Keywords ==
    {"if", "for", "while", "return", "break", "continue", "goto", "var", "const",
     "type", "func", "struct", "interface", "map", "chan", "select", "defer",
     "go", "range", "fallthrough", "default", "case", "switch", "else", "true",
     "false", "nil"}

CanonicalTypeGroups ==
  { <<"File", {"file", "program", "source_file"}>>,
    <<"Identifier", {"identifier", "blank_identifier", "field_identifier",
        "package_identifier", "type_identifier", "variable_identifier"}>>,
    <<"Literal", {"string_literal", "number_literal", "integer_literal",
        "float_literal", "boolean_literal", "null_literal", "imaginary_literal"}>>,
    <<"Function", {"function_declaration", "function_definition", "function_type"}>>,
    <<"Method", {"method_declaration", "method_definition"}>>,
    <<"Lambda", {"lambda_expression", "arrow_function", "anonymous_function"}>>,
    <<"Class", {"class_declaration", "class_definition"}>>,
    <<"Struct", {"struct_declaration", "struct_definition"}>>,
    <<"Interface", {"interface_declaration", "interface_definition"}>>,
    <<"Enum", {"enum_declaration", "enum_definition"}>>,
    <<"EnumMember", {"enum_member"}>>,
    <<"Variable", {"variable_declaration"}>>, <<"Parameter", {"parameter"}>>,
    <<"Field", {"field_declaration"}>>, <<"Property", {"property_declaration"}>>,
    <<"Getter", {"getter"}>>, <<"Setter", {"setter"}>>,
    <<"If", {"if_statement"}>>,
    <<"Loop", {"for_statement", "while_statement", "do_while_statement"}>>,
    <<"Switch", {"switch_statement"}>>, <<"Case", {"case_statement"}>>,
    <<"Return", {"return_statement"}>>, <<"Break", {"break_statement"}>>,
    <<"Continue", {"continue_statement"}>>, <<"Throw", {"throw_statement"}>>,
    <<"Try", {"try_statement"}>>, <<"Catch", {"catch_clause"}>>,
    <<"Finally", {"finally_clause"}>>,
    <<"BinaryOp", {"binary_expression"}>>, <<"UnaryOp", {"unary_expression"}>>,
    <<"Assignment", {"assignment_statement", "assignment_expression"}>>,
    <<"Call", {"call_expression", "function_call", "method_call"}>>,
    <<"Await", {"await_expression"}>>, <<"Yield", {"yield_expression"}>>,
    <<"Block", {"block"}>>,
    <<"Synthetic", {"expression_statement", "statement", "type_declaration"} \cup Keywords>>,
    <<"Import", {"import_declaration", "import_statement"}>>,
    <<"Package", {"package_declaration"}>>, <<"Module", {"module_declaration"}>>,
    <<"Namespace", {"namespace_declaration"}>>,
    <<"Comment", {"comment"}>>, <<"DocString", {"doc_string", "documentation_comment"}>>,
    <<"TypeAnnotation", {"type_annotation"}>>, <<"Cast", {"cast_expression"}>>,
    <<"List", {"array_type", "slice_type", "list_expression"}>>,
    <<"Dict", {"map_type", "dict_expression"}>>, <<"Set", {"set_expression"}>>,
    <<"Tuple", {"tuple_expression"}>>, <<"KeyValue", {"key_value_pair"}>>,
    <<"Index", {"index_expression"}>>, <<"Slice", {"slice_expression"}>>,
    <<"Spread", {"spread_element"}>>, <<"Decorator", {"decorator"}>>,
    <<"Attribute", {"attribute", "annotation"}>>,
    <<"Generator", {"generator_function"}>>,
    <<"Comprehension", {"list_comprehension", "dict_comprehension", "set_comprehension"}>>,
    <<"Pattern", {"pattern"}>>, <<"Match", {"match_statement"}>> }

ExactNames == UNION {g[2] : g \in CanonicalTypeGroups}

CanonicalTypes ==
    [n \in ExactNames |-> (CHOOSE g \in CanonicalTypeGroups : n \in g[2])[1]]

(* UASTTypeMapper._create_suffix_patterns: a Python dict, iterated in its  *)
(* insertion order, so an ordered sequence of <<suffix, type>> pairs.      *)
SuffixPatterns ==
  << <<"_statement", "Synthetic">>, <<"_expression", "Synthetic">>,
     <<"_declaration", "Synthetic">>, <<"_identifier", "Identifier">>,
     <<"_literal", "Literal">>, <<"_type", "Synthetic">>,
     <<"_annotation", "TypeAnnotation">>, <<"_call", "Call">>,
     <<"_operation", "Synthetic">>, <<"_operator", "Synthetic">>,
     <<"_block", "Block">>, <<"_body", "Block">>, <<"_list", "List">>,
     <<"_array", "List">>, <<"_dict", "Dict">>, <<"_map", "Dict">>,
     <<"_set", "Set">>, <<"_tuple", "Tuple">>, <<"_function", "Function">>,
     <<"_method", "Method">>, <<"_lambda", "Lambda">>, <<"_class", "Class">>,
     <<"_struct", "Struct">>, <<"_interface", "Interface">>, <<"_enum", "Enum">>,
     <<"_variable", "Variable">>, <<"_field", "Field">>,
     <<"_property", "Property">>, <<"_parameter", "Parameter">>,
     <<"_if", "If">>, <<"_for", "Loop">>, <<"_while", "Loop">>,
     <<"_switch", "Switch">>, <<"_case", "Case">>, <<"_return", "Return">>,
     <<"_break", "Break">>, <<"_continue", "Continue">>, <<"_throw", "Throw">>,
     <<"_try", "Try">>, <<"_catch", "Catch">>, <<"_finally", "Finally">>,
     <<"_import", "Import">>, <<"_package", "Package">>,
     <<"_module", "Module">>, <<"_namespace", "Namespace">>,
     <<"_comment", "Comment">>, <<"_doc", "DocString">>,
     <<"_decorator", "Decorator">>, <<"_attribute", "Attribute">>,
     <<"_generator", "Generator">>, <<"_comprehension", "Comprehension">>,
     <<"_pattern", "Pattern">>, <<"_match", "Match">> >>

\* _has_suffix_match: any suffix of the table ends the lower-cased name.
HasSuffixMatch(n) ==
    \E k \in 1..Len(SuffixPatterns) : EndsWith(Lower(n), SuffixPatterns[k][1])

\* _get_suffix_type: the loop over the table, returning at the first match.
RECURSIVE ScanSuffixes(_, _)
ScanSuffixes(l, k) ==
    IF k > Len(SuffixPatterns) THEN "Synthetic"
    ELSE IF EndsWith(l, SuffixPatterns[k][1]) THEN SuffixPatterns[k][2]
    ELSE ScanSuffixes(l, k + 1)

GetSuffixType(n) == ScanSuffixes(Lower(n), 1)

\* determine_uast_type: exact (case-sensitive) name, then suffix, then Synthetic.
DetermineUastType(n) ==
    IF n \in ExactNames THEN CanonicalTypes[n]
    ELSE IF HasSuffixMatch(n) THEN GetSuffixType(n)
    ELSE "Synthetic"

-----------------------------------------------------------------------------
(* UASTRoleMapper.determine_uast_roles: dispatch on the canonical type;    *)
(* only the Identifier case reads the (lower-cased) rule name.            *)
IdentifierRoles(l) ==
    IF AnyIn({"function_name", "method_name", "class_name"}, l)
    THEN <<"Name">> ELSE <<"Reference">>

DetermineUastRoles(n, t) ==
    CASE t \in {"Function", "Method"}                   -> <<"Function", "Declaration">>
      [] t \in {"Class", "Interface", "Struct", "Enum"} -> <<"Declaration">>
      [] t = "Variable"                                 -> <<"Variable", "Declaration">>
      [] t = "Parameter"                                -> <<"Parameter">>
      [] t = "Identifier"                               -> IdentifierRoles(Lower(n))
      [] t = "Call"                                     -> <<"Call">>
      [] t = "Assignment"                               -> <<"Assignment">>
      [] t = "If"                                       -> <<"Condition">>
      [] t = "Loop"                                     -> <<"Loop">>
      [] t \in {"Switch", "Case"}                       -> <<"Branch">>
      [] t \in {"Return", "Break", "Continue"}          -> <<t>>
      [] t = "Block"                                    -> <<"Body">>
      [] t = "Import"                                   -> <<"Import">>
      [] t = "Comment"                                  -> <<"Comment">>
      [] t = "DocString"                                -> <<"Doc">>
      [] t = "Literal"                                  -> <<"Literal">>
      [] t \in {"BinaryOp", "UnaryOp"}                  -> <<"Operator">>
      [] OTHER                                          -> << >>

-----------------------------------------------------------------------------
(* TokenStrategyMapper.determine_token_strategy: an elif chain over       *)
(* substring tests of the lower-cased name. The statement, expression and *)
(* keyword branches return "self", the same as the final default, so only *)
(* the three tests before "child:identifier" decide the result.           *)
IdentifierLike(l) ==
    AnyIn({"identifier", "name", "variable_name", "function_name", "class_name",
           "type_name", "field_identifier", "package_identifier"}, l)

LiteralLike(l) ==
    AnyIn({"string_literal", "number_literal", "boolean_literal", "null_literal",
           "integer_literal", "float_literal", "imaginary_literal"}, l)

DeclarationLike(l) ==
    AnyIn({"function_declaration", "class_declaration", "variable_declaration",
           "type_declaration", "method_declaration", "interface_declaration",
           "enum_declaration", "struct_declaration"}, l)

DetermineTokenStrategy(n) ==
    LET l == Lower(n) IN
    IF IdentifierLike(l) \/ LiteralLike(l) THEN "self"
    ELSE IF DeclarationLike(l) THEN "child:identifier"
    ELSE "self"

=============================================================================
