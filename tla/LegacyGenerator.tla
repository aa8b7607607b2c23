--------------------------- MODULE LegacyGenerator ---------------------------
(***************************************************************************)
(* main() of the older scripts/uastmapsgen/gen_uastmaps.py: the same walk  *)
(* as GenerationDriver, with its own copy of the language table, no schema *)
(* to load, and node_types_found set only after a catalog was written.     *)
(***************************************************************************)
EXTENDS RunReport

VARIABLES
    li,         \* position in the sorted entries
    ci,         \* which node-types.json of the current directory is next
    found       \* node_types_found

vars == <<pc, li, ci, found, processed, skipped, errors, warnings, files, written, grammars>>

\* get_language_info with its raw_map: patterns starting with '.' are
\* extensions, the others file names; an unknown directory gets none.
LegacyLanguageInfo(lang) ==
    IF lang \in RegisteredLanguages
    THEN [name |-> CanonicalName(lang), extensions |-> lang \notin WithoutExtensions,
          files |-> lang \in WithFileNames]
    ELSE [name |-> lang, extensions |-> FALSE, files |-> FALSE]

\* not extensions and not ff.
NoPatterns(info) == ~info.extensions /\ ~info.files

Entry == Entries[li]

-----------------------------------------------------------------------------

\* The grammars directory is left free here: a model fixes it, or
\* GrammarFetch fills it.
Init ==
    /\ pc = "lang" /\ li = 1 /\ ci = 1 /\ found = FALSE
    /\ OutputsInit

SkipNonDirectory ==
    /\ pc = "lang" /\ li <= Len(Entries) /\ ~IsDir(Entry)
    /\ li' = li + 1
    /\ UNCHANGED <<pc, ci, found, reportVars, outputVars>>

SkipLanguage ==
    /\ pc = "lang" /\ li <= Len(Entries) /\ IsDir(Entry)
    /\ NoPatterns(LegacyLanguageInfo(Entry))
    /\ skipped' = Append(skipped, Entry) /\ li' = li + 1
    /\ UNCHANGED <<pc, ci, found, processed, errors, warnings, outputVars>>

\* Mutant: the catalogs of a directory are counted from 0.
EnterLanguageZeroBased ==
    /\ pc = "lang" /\ li <= Len(Entries) /\ IsDir(Entry)
    /\ ~NoPatterns(LegacyLanguageInfo(Entry))
    /\ pc' = "walk" /\ ci' = 0 /\ found' = FALSE
    /\ UNCHANGED <<li, reportVars, outputVars>>

EnterLanguage ==
    /\ pc = "lang" /\ li <= Len(Entries) /\ IsDir(Entry)
    /\ ~NoPatterns(LegacyLanguageInfo(Entry))
    /\ pc' = "walk" /\ ci' = 1 /\ found' = FALSE
    /\ UNCHANGED <<li, reportVars, outputVars>>

\* The try block for catalog ci runs to its end: the content is validated,
\* written, recorded as processed, and node_types_found is set.
GenerateMap ==
    /\ pc = "walk" /\ ci <= Catalogs(Entry)
    /\ \E valid \in BOOLEAN : WarnUnless(valid, Entry)
    /\ WriteFile(Entry, ci, TRUE)
    /\ processed' = Append(processed, Entry)
    /\ found' = TRUE /\ ci' = ci + 1
    /\ UNCHANGED <<pc, li, skipped, errors>>

\* subprocess.run raises: the error is recorded, node_types_found stays.
CommandFails ==
    /\ pc = "walk" /\ ci <= Catalogs(Entry)
    /\ errors' = Append(errors, Entry) /\ ci' = ci + 1
    /\ UNCHANGED <<pc, li, found, processed, skipped, warnings, outputVars>>

\* The write raises after open(out_path, 'w') truncated the file.
WriteFails ==
    /\ pc = "walk" /\ ci <= Catalogs(Entry)
    /\ \E valid \in BOOLEAN : WarnUnless(valid, Entry)
    /\ WriteFile(Entry, ci, FALSE)
    /\ errors' = Append(errors, Entry) /\ ci' = ci + 1
    /\ UNCHANGED <<pc, li, found, processed, skipped>>

\* Mutant: the if not node_types_found branch is dropped.
LeaveLanguageUnrecorded ==
    /\ pc = "walk" /\ ci > Catalogs(Entry)
    /\ pc' = "lang" /\ li' = li + 1
    /\ UNCHANGED <<ci, found, reportVars, outputVars>>

LeaveLanguage ==
    /\ pc = "walk" /\ ci > Catalogs(Entry)
    /\ skipped' = IF found THEN skipped ELSE Append(skipped, Entry)
    /\ pc' = "lang" /\ li' = li + 1
    /\ UNCHANGED <<ci, found, processed, errors, warnings, outputVars>>

\* The summary is printed and existing maps are re-read.
Finish ==
    /\ pc = "lang" /\ li > Len(Entries) /\ pc' = "done"
    /\ UNCHANGED <<li, ci, found, reportVars, outputVars>>

LegacyStep ==
    \/ SkipNonDirectory \/ SkipLanguage \/ EnterLanguage
    \/ GenerateMap \/ CommandFails \/ WriteFails \/ LeaveLanguage
    \/ Finish

\* The script reads the grammars directory and never changes it.
Next == LegacyStep /\ UNCHANGED grammars

Spec == Init /\ [][Next]_vars

-----------------------------------------------------------------------------
(* Properties *)

TypeOK ==
    /\ OutputsTypeOK
    /\ pc \in {"lang", "walk", "done"}
    /\ li \in 1..(Len(Entries) + 1) /\ ci \in 1..(MaxCatalogs + 1)
    /\ found \in BOOLEAN

\* Spec 4.7: a language is skipped exactly when it has no patterns or no
\* node-types.json; a language whose catalogs all failed is an error only.
SkippedIffNoCatalog ==
    pc = "done" =>
        \A d \in Dirs :
            Listed(skipped, d) <=> (NoPatterns(LegacyLanguageInfo(d)) \/ Catalogs(d) = 0)

=============================================================================
