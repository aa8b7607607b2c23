--------------------------- MODULE SectionFormatter ---------------------------
(***************************************************************************)
(* LanguageSectionFormatter.ensure_language_section                        *)
(* (build/scripts/uastmapsgen/gen_uastmaps.py): drop every existing        *)
(* [language ...] section (a header line and the lines after it up to and  *)
(* including the next blank line), strip the remaining text, and put one   *)
(* new header and a blank line in front of it. Lines are DslLines records. *)
(* With Passes = 2 the result is formatted a second time, with a language  *)
(* name chosen again.                                                      *)
(***************************************************************************)
EXTENDS Naturals, Sequences, DslLines

CONSTANTS
    Drafts,     \* the contents the formatter may be given, as line sequences
    Langs,      \* canonical language names
    Passes      \* number of consecutive calls, each on the previous result

ASSUME Passes \in 1..2

VARIABLES
    lines,      \* content.split('\n')
    lang,       \* lang_name
    filtered,   \* filtered_lines of _remove_existing_language_section
    skip,       \* skip_until_empty
    i,          \* position of the for loop
    pc,         \* "start", "filter", "done"
    result,     \* the returned text, as lines
    pass,       \* which call is running
    first       \* history: <<result, lang>> of the first call

vars == <<lines, lang, filtered, skip, i, pc, result, pass, first>>

\* _has_content: content.strip() is not empty.
HasContent(ls) == \E k \in 1..Len(ls) : ls[k].kind /= "blank"

\* Mutant: line.startswith without strip(), so indented headers are missed.
IsLanguageSectionStartUnstripped(l) == l.kind = "header" /\ ~l.indent

\* _is_language_section_start: line.strip().startswith('[language ').
IsLanguageSectionStart(l) == l.kind = "header"

\* _should_stop_skipping: skipping and line.strip() == ''.
ShouldStopSkipping(sk, l) == sk /\ l.kind = "blank"

\* '\n'.join(filtered_lines).strip(): leading and trailing blank lines go,
\* and so does the leading whitespace of the first remaining line.
RECURSIVE DropLeadingBlanks(_)
DropLeadingBlanks(ls) ==
    IF ls /= << >> /\ Head(ls).kind = "blank" THEN DropLeadingBlanks(Tail(ls)) ELSE ls

RECURSIVE DropTrailingBlanks(_)
DropTrailingBlanks(ls) ==
    IF ls /= << >> /\ ls[Len(ls)].kind = "blank"
    THEN DropTrailingBlanks(SubSeq(ls, 1, Len(ls) - 1)) ELSE ls

StripText(ls) ==
    LET t == DropTrailingBlanks(DropLeadingBlanks(ls))
    IN IF t = << >> THEN t ELSE [t EXCEPT ![1].indent = FALSE]

\* Mutant: the header is closed by ']\n' only, with no blank line after it.
CreateLanguageHeaderNoBlank(n) == <<HeaderLine(n)>>

\* _create_language_header: '[language "<name>", ...]' followed by '\n\n',
\* i.e. the header line and one blank line before the body.
CreateLanguageHeader(n) == <<HeaderLine(n), BlankLine>>

\* header + content_without_header, split into lines: an empty body still
\* leaves one empty line after the final '\n'.
Concatenate(h, body) == h \o (IF body = << >> THEN <<BlankLine>> ELSE body)

-----------------------------------------------------------------------------

Init ==
    /\ lines \in Drafts /\ lang \in Langs
    /\ filtered = << >> /\ skip = FALSE /\ i = 1
    /\ pc = "start" /\ result = << >>
    /\ pass = 1 /\ first = << >>

\* Whitespace-only content is returned unchanged, with no header.
ReturnUnchanged ==
    /\ pc = "start" /\ ~HasContent(lines)
    /\ result' = lines /\ pc' = "done"
    /\ UNCHANGED <<lines, lang, filtered, skip, i, pass, first>>

StartRemoval ==
    /\ pc = "start" /\ HasContent(lines)
    /\ pc' = "filter"
    /\ UNCHANGED <<lines, lang, filtered, skip, i, result, pass, first>>

\* Mutant: the header and the line after it (assumed blank) are both dropped.
DropHeaderLineAndNext ==
    /\ pc = "filter" /\ i <= Len(lines)
    /\ IsLanguageSectionStart(lines[i])
    /\ skip' = TRUE /\ i' = i + 2
    /\ UNCHANGED <<lines, lang, filtered, pc, result, pass, first>>

\* One iteration of the for loop, one action per branch.
DropHeaderLine ==
    /\ pc = "filter" /\ i <= Len(lines)
    /\ IsLanguageSectionStart(lines[i])
    /\ skip' = TRUE /\ i' = i + 1
    /\ UNCHANGED <<lines, lang, filtered, pc, result, pass, first>>

\* Mutant: the blank line that ends a header block falls through and is kept.
EndHeaderSectionKeepingBlank ==
    /\ pc = "filter" /\ i <= Len(lines)
    /\ ~IsLanguageSectionStart(lines[i]) /\ ShouldStopSkipping(skip, lines[i])
    /\ skip' = FALSE /\ filtered' = Append(filtered, lines[i]) /\ i' = i + 1
    /\ UNCHANGED <<lines, lang, pc, result, pass, first>>

EndHeaderSection ==
    /\ pc = "filter" /\ i <= Len(lines)
    /\ ~IsLanguageSectionStart(lines[i]) /\ ShouldStopSkipping(skip, lines[i])
    /\ skip' = FALSE /\ i' = i + 1
    /\ UNCHANGED <<lines, lang, filtered, pc, result, pass, first>>

DropSectionLine ==
    /\ pc = "filter" /\ i <= Len(lines)
    /\ ~IsLanguageSectionStart(lines[i]) /\ ~ShouldStopSkipping(skip, lines[i])
    /\ skip
    /\ i' = i + 1
    /\ UNCHANGED <<lines, lang, filtered, skip, pc, result, pass, first>>

KeepLine ==
    /\ pc = "filter" /\ i <= Len(lines)
    /\ ~IsLanguageSectionStart(lines[i]) /\ ~skip
    /\ filtered' = Append(filtered, lines[i]) /\ i' = i + 1
    /\ UNCHANGED <<lines, lang, skip, pc, result, pass, first>>

\* After the loop: strip, and prepend the new header.
AssembleResult ==
    /\ pc = "filter" /\ i > Len(lines)
    /\ result' = Concatenate(CreateLanguageHeader(lang), StripText(filtered))
    /\ pc' = "done"
    /\ UNCHANGED <<lines, lang, filtered, skip, i, pass, first>>

\* ensure_language_section is called again on its result.
Rerun ==
    /\ pc = "done" /\ pass < Passes
    /\ pass' = pass + 1 /\ first' = <<result, lang>>
    /\ lines' = result /\ lang' \in Langs
    /\ filtered' = << >> /\ skip' = FALSE /\ i' = 1
    /\ pc' = "start" /\ result' = << >>

Next ==
    \/ ReturnUnchanged \/ StartRemoval
    \/ DropHeaderLine \/ EndHeaderSection \/ DropSectionLine \/ KeepLine
    \/ AssembleResult \/ Rerun

Spec == Init /\ [][Next]_vars

\* The loop state is internal: until the call returns, the abstract
\* formatter has not taken its step.
AbstractFormatter ==
    INSTANCE AbstractSectionFormatter WITH pc <- IF pc = "done" THEN "done" ELSE "start"

-----------------------------------------------------------------------------
(* Properties *)

TypeOK ==
    /\ lines \in Seq(LineRec) /\ filtered \in Seq(LineRec) /\ result \in Seq(LineRec)
    /\ lang \in Langs /\ skip \in BOOLEAN
    /\ i \in 1..(Len(lines) + 1)
    /\ pc \in {"start", "filter", "done"} /\ pass \in 1..Passes

\* Spec 8, header uniqueness: for content with zero, one or many header-like
\* lines, the result has exactly one header line, first, naming the language
\* of this call (the old header is fully removed).
HeaderUnique ==
    (pc = "done" /\ HasContent(lines)) =>
        /\ result[1] = HeaderLine(lang)
        /\ \A k \in 2..Len(result) : result[k].kind /= "header"

\* Formatting is idempotent: formatting the result again for the same
\* language returns it unchanged (the header section the formatter writes is
\* exactly one section that the next call removes).
FormatIdempotent ==
    (pass = 2 /\ pc = "done" /\ lang = first[2]) => result = first[1]

\* The line-by-line loop of _remove_existing_language_section, with its
\* skip_until_empty flag, followed by strip() and the new header, returns
\* what spec 4.4 describes: every header block removed, the rest in order.
ImplementsAbstract == AbstractFormatter!Spec

\* Spec 1: the draft is rewritten "without disturbing existing content":
\* every rule line of the content reaches the result.
RuleLinesSurvive ==
    (pc = "done") =>
        Len(SelectSeq(result, LAMBDA l : l.kind = "rule"))
            = Len(SelectSeq(lines, LAMBDA l : l.kind = "rule"))

=============================================================================
