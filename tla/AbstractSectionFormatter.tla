----------------------- MODULE AbstractSectionFormatter -----------------------
(***************************************************************************)
(* What the Section Formatter promises (spec 4.4), as one step per call:   *)
(* content with no non-blank line is returned unchanged; otherwise every   *)
(* header block (a header line and the lines after it up to and including  *)
(* the next blank line) is removed, the remaining text is stripped, and    *)
(* one header for the call's language and one blank line are put before   *)
(* it. SectionFormatter, which walks the lines one at a time, implements   *)
(* this specification.                                                     *)
(***************************************************************************)
EXTENDS Naturals, Sequences, FiniteSetsExt, DslLines

CONSTANTS Drafts, Langs, Passes

VARIABLES lines, lang, pc, result, pass, first

avars == <<lines, lang, pc, result, pass, first>>

Blank(l) == l.kind = "blank"

\* Line j lies in a header block: some header at or before j, and no blank
\* line strictly between that header and j.
InHeaderBlock(ls, j) ==
    \E h \in 1..j :
        /\ ls[h].kind = "header"
        /\ \A k \in (h + 1)..(j - 1) : ~Blank(ls[k])

\* The lines outside every header block, in their original order.
Retained(ls) ==
    LET keep == SelectSeq([k \in 1..Len(ls) |-> k], LAMBDA k : ~InHeaderBlock(ls, k))
    IN  [n \in 1..Len(keep) |-> ls[keep[n]]]

\* str.strip on the joined lines: the text from the first to the last
\* non-blank line, without the first line's indentation.
Stripped(ls) ==
    LET nb == {k \in 1..Len(ls) : ~Blank(ls[k])}
    IN  IF nb = {} THEN << >>
        ELSE [SubSeq(ls, Min(nb), Max(nb)) EXCEPT ![1].indent = FALSE]

\* header + "\n\n" + body, split at newlines: an empty body is one empty
\* last line.
Formatted(ls, n) ==
    IF \A k \in 1..Len(ls) : Blank(ls[k]) THEN ls
    ELSE LET body == Stripped(Retained(ls))
         IN  <<HeaderLine(n), BlankLine>> \o (IF body = << >> THEN <<BlankLine>> ELSE body)

Init ==
    /\ lines \in Drafts /\ lang \in Langs /\ pc = "start" /\ result = << >>
    /\ pass = 1 /\ first = << >>

Format ==
    /\ pc = "start"
    /\ result' = Formatted(lines, lang) /\ pc' = "done"
    /\ UNCHANGED <<lines, lang, pass, first>>

\* The formatter is called again on its own output.
FormatAgain ==
    /\ pc = "done" /\ pass < Passes
    /\ pass' = pass + 1 /\ first' = <<result, lang>>
    /\ lines' = result /\ lang' \in Langs
    /\ pc' = "start" /\ result' = << >>

Spec == Init /\ [][Format \/ FormatAgain]_avars

=============================================================================
