------------------------- MODULE MCSectionFormatter -------------------------
(* Every content of up to MaxLines lines over a small line alphabet: old    *)
(* headers (flush and indented), blank lines, rule, field and close lines. *)
EXTENDS SectionFormatter

CONSTANTS
    MaxLines,   \* longest content
    OldLang     \* language named by a stale header in the content

Alphabet ==
    { HeaderLine(OldLang), [HeaderLine(OldLang) EXCEPT !.indent = TRUE], BlankLine,
      RuleLine("identifier"), [RuleLine("identifier") EXCEPT !.indent = TRUE],
      TypeLine("Synthetic"), CloseLine }

MCDrafts == UNION { [1..n -> Alphabet] : n \in 0..MaxLines }

=============================================================================
