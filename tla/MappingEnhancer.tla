--------------------------- MODULE MappingEnhancer ---------------------------
(***************************************************************************)
(* UASTMappingEnhancer.enhance_uast_mappings and _process_uast_rule_block  *)
(* (build/scripts/uastmapsgen/gen_uastmaps.py): the line scanner that adds *)
(* token: and roles: fields to every uast( block and corrects type: values.*)
(*                                                                         *)
(* Lines are the records of DslLines.                                    *)
(* One pass is one call of enhance_uast_mappings; with Passes = 2 the      *)
(* output of the first call is fed to a second one.                        *)
(***************************************************************************)
EXTENDS Naturals, Sequences, DslLines, Classifiers

CONSTANTS
    Drafts,     \* the draft texts (sequences of lines) the enhancer may be given
    Passes      \* number of consecutive calls, each on the previous output

ASSUME Passes \in 1..2

VARIABLES
    lines,      \* the text being enhanced: lines = content.split('\n')
    out,        \* enhanced_lines of the outer loop, with the current block's lines
    i,          \* the outer index i, or current_index while inside a block
    pc,         \* "scan": outer while loop; "block": _process_uast_rule_block; "done"
    rule,       \* rule_name of the block being processed
    cls,        \* [type, token, roles]: uast_type, token_strategy, uast_roles
    found,      \* found_uast
    paren,      \* paren_count
    tokenAdded, rolesAdded, hasToken, hasRoles,
    pass,       \* which call of enhance_uast_mappings is running
    src,        \* history: for each output line, the input index it copies, 0 if inserted
    first       \* history: the output of the first call

vars == <<lines, out, i, pc, rule, cls, found, paren, tokenAdded, rolesAdded,
          hasToken, hasRoles, pass, src, first>>

-----------------------------------------------------------------------------
(* Lines *)

ShouldSkipLine(l) == l.kind \in {"header", "blank"}
IsUastMappingRule(l) == l.kind = "rule"
IsUastBlockStart(l) == l.kind = "rule"
HasTokenField(l) == l.token /= ""

\* _update_paren_count: +1 per '(', -1 per ')', stopping at the first zero.
RECURSIVE UpdateParenCount(_, _)
UpdateParenCount(p, cs) ==
    IF cs = << >> THEN p
    ELSE IF Head(cs) = "(" THEN UpdateParenCount(p + 1, Tail(cs))
    ELSE IF p - 1 = 0 THEN 0
    ELSE UpdateParenCount(p - 1, Tail(cs))

\* Mutant: every type: value that differs from the classification is rewritten
\* (the broadening spec 9 warns against).
FixAnyDifferingType(l, n, t) ==
    IF l.type = "" \/ l.type = t THEN l ELSE [l EXCEPT !.type = t]

\* _fix_incorrect_uast_types: only the literal values "If" and "Synthetic" are rewritten.
FixIncorrectUastTypes(l, n, t) ==
    IF l.type = "" THEN l
    ELSE IF l.type = "If" /\ n \notin {"if", "if_statement"} THEN [l EXCEPT !.type = t]
    ELSE IF l.type = "Synthetic" /\ t /= "Synthetic" THEN [l EXCEPT !.type = t]
    ELSE l

\* Mutant: the existing token: field is not consulted.
ShouldAddTokenFieldIgnoringPresence(hasTok, added, p) == ~added /\ p = 1

ShouldAddTokenField(hasTok, added, p) == ~hasTok /\ ~added /\ p = 1

ShouldAddRolesField(hasRol, added, roles, p) ==
    ~hasRol /\ ~added /\ roles /= << >> /\ p = 1

Classify(n) ==
    LET t == DetermineUastType(n)
    IN [type |-> t, token |-> DetermineTokenStrategy(n), roles |-> DetermineUastRoles(n, t)]

\* Append lines ls to the output, recording where each came from.
Emit(ls, ss) == out' = out \o ls /\ src' = src \o ss

-----------------------------------------------------------------------------
(* The scan *)

Init ==
    /\ lines \in Drafts
    /\ out = << >> /\ src = << >>
    /\ i = 1 /\ pc = "scan"
    /\ rule = "" /\ cls = Classify("")
    /\ found = FALSE /\ paren = 0
    /\ tokenAdded = FALSE /\ rolesAdded = FALSE
    /\ hasToken = FALSE /\ hasRoles = FALSE
    /\ pass = 1 /\ first = << >>

BlockVars == <<rule, cls, found, paren, tokenAdded, rolesAdded, hasToken, hasRoles>>

\* Outer loop: a header or blank line, or any line without => uast(, is copied.
ScanCopyLine ==
    /\ pc = "scan" /\ i <= Len(lines)
    /\ ShouldSkipLine(lines[i]) \/ ~IsUastMappingRule(lines[i])
    /\ Emit(<<lines[i]>>, <<i>>)
    /\ i' = i + 1
    /\ UNCHANGED <<lines, pc, pass, first, BlockVars>>

\* Outer loop meets a rule line: classify its name, copy it, and enter the block
\* loop at the NEXT line with all block flags cleared.
StartRuleBlock ==
    /\ pc = "scan" /\ i <= Len(lines)
    /\ ~ShouldSkipLine(lines[i]) /\ IsUastMappingRule(lines[i])
    /\ rule' = lines[i].name
    /\ cls' = Classify(lines[i].name)
    /\ Emit(<<lines[i]>>, <<i>>)
    /\ i' = i + 1 /\ pc' = "block"
    /\ found' = FALSE /\ paren' = 0
    /\ tokenAdded' = FALSE /\ rolesAdded' = FALSE
    /\ hasToken' = FALSE /\ hasRoles' = FALSE
    /\ UNCHANGED <<lines, pass, first>>

\* Block loop: a line containing uast( (re)opens the block at depth 1.
BlockStartLine ==
    /\ pc = "block" /\ i <= Len(lines)
    /\ IsUastBlockStart(lines[i])
    /\ found' = TRUE /\ paren' = 1
    /\ Emit(<<lines[i]>>, <<i>>)
    /\ i' = i + 1
    /\ UNCHANGED <<lines, pc, rule, cls, tokenAdded, rolesAdded, hasToken, hasRoles, pass, first>>

\* Block loop before any uast( line: the line is copied untouched.
BlockCopyLine ==
    /\ pc = "block" /\ i <= Len(lines)
    /\ ~IsUastBlockStart(lines[i]) /\ ~found
    /\ Emit(<<lines[i]>>, <<i>>)
    /\ i' = i + 1
    /\ UNCHANGED <<lines, pc, pass, first, BlockVars>>

\* Block loop inside the block: count parentheses, note existing fields, fix the
\* type, insert token: and roles: before the line when the depth after it is 1,
\* copy the line, and leave the block when the depth is back to 0.
BlockFieldLine ==
    /\ pc = "block" /\ i <= Len(lines)
    /\ ~IsUastBlockStart(lines[i]) /\ found
    /\ LET l    == lines[i]
           p    == UpdateParenCount(paren, l.parens)
           hTok == hasToken \/ HasTokenField(l)
           hRol == hasRoles \/ l.hasRoles
           addT == ShouldAddTokenField(hTok, tokenAdded, p)
           addR == ShouldAddRolesField(hRol, rolesAdded, cls.roles, p)
           \* an inserted line takes the leading whitespace of the line it precedes
           ins  == (IF addT THEN <<[TokenLine(cls.token) EXCEPT !.indent = l.indent]>> ELSE << >>)
                   \o (IF addR THEN <<[RolesLine(cls.roles) EXCEPT !.indent = l.indent]>> ELSE << >>)
       IN /\ Emit(ins \o <<FixIncorrectUastTypes(l, rule, cls.type)>>,
                  [k \in 1..Len(ins) |-> 0] \o <<i>>)
          /\ paren' = p
          /\ hasToken' = hTok /\ hasRoles' = hRol
          /\ tokenAdded' = (tokenAdded \/ addT)
          /\ rolesAdded' = (rolesAdded \/ addR)
          /\ pc' = IF p = 0 THEN "scan" ELSE "block"
    /\ i' = i + 1
    /\ UNCHANGED <<lines, rule, cls, found, pass, first>>

\* Mutant: current_index is advanced once more when the block loop runs out.
BlockEndOfInputSkipping ==
    /\ pc = "block" /\ i > Len(lines)
    /\ pc' = "scan" /\ i' = i + 1
    /\ UNCHANGED <<lines, out, src, pass, first, BlockVars>>

\* The block loop runs out of lines (an unterminated block): it returns, and so
\* does the outer loop.
BlockEndOfInput ==
    /\ pc = "block" /\ i > Len(lines)
    /\ pc' = "scan"
    /\ UNCHANGED <<lines, out, src, i, pass, first, BlockVars>>

\* The outer loop has consumed every line: '\n'.join(enhanced_lines) is returned.
FinishPass ==
    /\ pc = "scan" /\ i > Len(lines)
    /\ pc' = "done"
    /\ UNCHANGED <<lines, out, src, i, pass, first, BlockVars>>

\* enhance_uast_mappings is called again on the text it returned.
Rerun ==
    /\ pc = "done" /\ pass < Passes
    /\ pass' = pass + 1 /\ first' = out
    /\ lines' = out /\ out' = << >> /\ src' = << >>
    /\ i' = 1 /\ pc' = "scan"
    /\ UNCHANGED BlockVars

Next ==
    \/ ScanCopyLine \/ StartRuleBlock
    \/ BlockStartLine \/ BlockCopyLine \/ BlockFieldLine \/ BlockEndOfInput
    \/ FinishPass \/ Rerun

Spec == Init /\ [][Next]_vars

-----------------------------------------------------------------------------
(* Properties *)

TypeOK ==
    /\ lines \in Seq(LineRec) /\ out \in Seq(LineRec)
    /\ src \in Seq(Nat) /\ Len(src) = Len(out)
    /\ i \in 1..(Len(lines) + 1)
    /\ pc \in {"scan", "block", "done"}
    /\ paren \in Nat
    /\ {found, tokenAdded, rolesAdded, hasToken, hasRoles} \subseteq BOOLEAN
    /\ pass \in 1..Passes

Inserted(k) == src[k] = 0

\* The rule line that opens the output block containing position k (0: none).
SegStart(k) ==
    LET rs == {j \in 1..k : out[j].kind = "rule"}
    IN IF rs = {} THEN 0 ELSE CHOOSE j \in rs : \A r \in rs : r <= j

\* The enhancer is non-destructive: the copied lines of the output are the
\* lines consumed so far, each once and in order, equal to the input except
\* that a type: value may have been rewritten, and only from "If" or
\* "Synthetic"; every other output line is an inserted token: or a non-empty
\* roles: line; and when the call returns every input line has been consumed.
\* (enhanced_lines.append / extend in both loops, _fix_incorrect_uast_types.)
NonDestructive ==
    LET ks == {k \in 1..Len(out) : ~Inserted(k)}
    IN /\ {src[k] : k \in ks} = 1..(i - 1)
       /\ \A k1, k2 \in ks : k1 < k2 => src[k1] < src[k2]
       /\ \A k \in ks :
            LET o == out[k]  l == lines[src[k]]
            IN /\ [o EXCEPT !.type = l.type] = l
               /\ o.type /= l.type => l.type \in {"If", "Synthetic"}
       /\ \A k \in 1..Len(out) \ ks :
            LET o == [out[k] EXCEPT !.indent = TRUE]
            IN \/ o = TokenLine(o.token) /\ HasTokenField(o)
               \/ o = RolesLine(o.roles) /\ o.roles /= << >>
       /\ pc = "done" => i = Len(lines) + 1

\* The first copied line after position k: the line an insertion precedes.
NextCopied(k) ==
    LET cs == {j \in (k + 1)..Len(out) : ~Inserted(j)}
    IN IF cs = {} THEN Len(out) ELSE CHOOSE j \in cs : \A c \in cs : j <= c

\* An inserted token: (roles:) line is never placed where a token: (roles:)
\* field is already in its output block, from the block's first line up to
\* and including the line it is inserted before, and never twice: the sticky
\* has_token_field / token_added flags of _process_uast_rule_block.
InsertionRespectsEarlierFields ==
    \A k \in 1..Len(out) : Inserted(k) =>
        \A j \in ((SegStart(k) + 1)..NextCopied(k)) \ {k} :
            /\ HasTokenField(out[k]) => ~HasTokenField(out[j])
            /\ out[k].hasRoles => ~out[j].hasRoles

\* Spec 4.5: each rule's own metadata block receives the token: and roles:
\* inferred from that rule's name. An inserted line must carry the
\* classification of the rule line that opens its block. (The block loop of
\* _process_uast_rule_block starts after the rule line that contains uast(.)
OwnRuleMetadata ==
    \A k \in 1..Len(out) : Inserted(k) =>
        /\ SegStart(k) > 0
        /\ LET c == Classify(out[SegStart(k)].name)
           IN /\ HasTokenField(out[k]) => out[k].token = c.token
              /\ out[k].hasRoles => out[k].roles = c.roles

\* Spec 8, idempotence: running the enhancer on its own output returns that
\* output unchanged.
Idempotent == (pass = 2 /\ pc = "done") => out = first

\* Spec 8, field non-duplication: a block that already contains a roles:
\* field never receives a second one (drafts hold at most one per block).
NoDuplicateRoles ==
    \A k1, k2 \in 1..Len(out) :
        (k1 < k2 /\ SegStart(k1) = SegStart(k2) /\ out[k1].hasRoles) => ~out[k2].hasRoles

\* Spec 4.5 (c): a field is inserted before a line that is a direct child of
\* the uast( call, i.e. where the nesting depth before it is exactly 1,
\* never inside a nested parenthesised construct.
DepthBefore(k) ==
    LET RECURSIVE D(_, _)
        D(p, j) == IF j >= k THEN p ELSE D(UpdateParenCount(p, out[j].parens), j + 1)
    IN D(1, SegStart(k) + 1)

InsertedAtDepthOne ==
    \A k \in 1..Len(out) : Inserted(k) => DepthBefore(k) = 1

=============================================================================
