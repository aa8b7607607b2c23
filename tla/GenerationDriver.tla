--------------------------- MODULE GenerationDriver ---------------------------
(***************************************************************************)
(* UASTMapGenerator (build/scripts/uastmapsgen/gen_uastmaps.py) with the   *)
(* LanguageMapper it consults: load the schema, then for each sorted       *)
(* directory entry skip what is no directory or has no registry entry,     *)
(* walk the directory and run _generate_single_uast_map on every           *)
(* node-types.json found, and report a language with none as skipped.      *)
(* The content of a map is not modelled: per catalog the drafting command  *)
(* fails, or its output passes or fails validation and the write completes *)
(* or fails after open().                                                  *)
(***************************************************************************)
EXTENDS RunReport

VARIABLES
    li,         \* position in the sorted entries
    ci,         \* which node-types.json of the current directory is next
    found       \* node_types_found

vars == <<pc, li, ci, found, processed, skipped, errors, warnings, files, written, grammars>>

\* LanguageMapper.get_language_info: an unknown directory gets its own name
\* and no patterns.
GetLanguageInfo(lang) ==
    IF lang \in RegisteredLanguages
    THEN [name |-> CanonicalName(lang), extensions |-> lang \notin WithoutExtensions,
          files |-> lang \in WithFileNames]
    ELSE [name |-> lang, extensions |-> FALSE, files |-> FALSE]

\* _should_skip_language.
ShouldSkipLanguage(info) == ~info.extensions /\ ~info.files

\* Mutant: the flag is set only when the catalog was processed (as the older
\* script does).
FoundOnlyOnSuccess(f, ok) == f \/ ok

\* _process_language: node_types_found = True after every call of
\* _generate_single_uast_map, whatever its outcome.
FoundAfterCatalog(f, ok) == TRUE

Entry == Entries[li]

-----------------------------------------------------------------------------

\* The grammars directory is left free here: a model fixes it, or
\* GrammarFetch fills it.
Init ==
    /\ pc = "load" /\ li = 1 /\ ci = 1 /\ found = FALSE
    /\ OutputsInit

\* UASTMapGenerator() builds UASTMapValidator, which loads the schema and
\* both enumerations.
LoadSchema ==
    /\ pc = "load" /\ pc' = "lang"
    /\ UNCHANGED <<li, ci, found, reportVars, outputVars>>

\* A missing or corrupt schema, or an empty enumeration, raises out of main.
SchemaLoadFails ==
    /\ pc = "load" /\ pc' = "aborted"
    /\ UNCHANGED <<li, ci, found, reportVars, outputVars>>

SkipNonDirectory ==
    /\ pc = "lang" /\ li <= Len(Entries) /\ ~IsDir(Entry)
    /\ li' = li + 1
    /\ UNCHANGED <<pc, ci, found, reportVars, outputVars>>

SkipLanguage ==
    /\ pc = "lang" /\ li <= Len(Entries) /\ IsDir(Entry)
    /\ ShouldSkipLanguage(GetLanguageInfo(Entry))
    /\ skipped' = Append(skipped, Entry) /\ li' = li + 1
    /\ UNCHANGED <<pc, ci, found, processed, errors, warnings, outputVars>>

\* Mutant: the catalogs of a directory are counted from 0.
EnterLanguageZeroBased ==
    /\ pc = "lang" /\ li <= Len(Entries) /\ IsDir(Entry)
    /\ ~ShouldSkipLanguage(GetLanguageInfo(Entry))
    /\ pc' = "walk" /\ ci' = 0 /\ found' = FALSE
    /\ UNCHANGED <<li, reportVars, outputVars>>

EnterLanguage ==
    /\ pc = "lang" /\ li <= Len(Entries) /\ IsDir(Entry)
    /\ ~ShouldSkipLanguage(GetLanguageInfo(Entry))
    /\ pc' = "walk" /\ ci' = 1 /\ found' = FALSE
    /\ UNCHANGED <<li, reportVars, outputVars>>

\* _generate_single_uast_map for catalog ci: the command succeeds, the
\* validator's verdict may add a warning, and the file is written.
GenerateMap ==
    /\ pc = "walk" /\ ci <= Catalogs(Entry)
    /\ \E valid \in BOOLEAN : WarnUnless(valid, Entry)
    /\ WriteFile(Entry, ci, TRUE)
    /\ processed' = Append(processed, Entry)
    /\ found' = FoundAfterCatalog(found, TRUE) /\ ci' = ci + 1
    /\ UNCHANGED <<pc, li, skipped, errors>>

\* The drafting command exits non-zero (CalledProcessError) or raises: the
\* error is recorded and nothing is written.
CommandFails ==
    /\ pc = "walk" /\ ci <= Catalogs(Entry)
    /\ errors' = Append(errors, Entry)
    /\ found' = FoundAfterCatalog(found, FALSE) /\ ci' = ci + 1
    /\ UNCHANGED <<pc, li, processed, skipped, warnings, outputVars>>

\* Mutant: a failed write is swallowed and the language reported processed.
WriteFailsUnreported ==
    /\ pc = "walk" /\ ci <= Catalogs(Entry)
    /\ \E valid \in BOOLEAN : WarnUnless(valid, Entry)
    /\ WriteFile(Entry, ci, FALSE)
    /\ processed' = Append(processed, Entry)
    /\ found' = FoundAfterCatalog(found, TRUE) /\ ci' = ci + 1
    /\ UNCHANGED <<pc, li, skipped, errors>>

\* Validation has run; open(out_path, 'w') truncates the file and the write
\* raises part-way: the generic handler records an error.
WriteFails ==
    /\ pc = "walk" /\ ci <= Catalogs(Entry)
    /\ \E valid \in BOOLEAN : WarnUnless(valid, Entry)
    /\ WriteFile(Entry, ci, FALSE)
    /\ errors' = Append(errors, Entry)
    /\ found' = FoundAfterCatalog(found, FALSE) /\ ci' = ci + 1
    /\ UNCHANGED <<pc, li, processed, skipped>>

\* Mutant: the language with no catalog is not recorded.
LeaveLanguageUnrecorded ==
    /\ pc = "walk" /\ ci > Catalogs(Entry)
    /\ pc' = "lang" /\ li' = li + 1
    /\ UNCHANGED <<ci, found, reportVars, outputVars>>

\* os.walk is exhausted: a language without node-types.json is skipped.
LeaveLanguage ==
    /\ pc = "walk" /\ ci > Catalogs(Entry)
    /\ skipped' = IF found THEN skipped ELSE Append(skipped, Entry)
    /\ pc' = "lang" /\ li' = li + 1
    /\ UNCHANGED <<ci, found, processed, errors, warnings, outputVars>>

\* All entries visited: the results are returned and printed.
Finish ==
    /\ pc = "lang" /\ li > Len(Entries) /\ pc' = "done"
    /\ UNCHANGED <<li, ci, found, reportVars, outputVars>>

DriverStep ==
    \/ LoadSchema \/ SchemaLoadFails
    \/ SkipNonDirectory \/ SkipLanguage \/ EnterLanguage
    \/ GenerateMap \/ CommandFails \/ WriteFails \/ LeaveLanguage
    \/ Finish

\* The driver reads the grammars directory and never changes it.
Next == DriverStep /\ UNCHANGED grammars

Spec == Init /\ [][Next]_vars

-----------------------------------------------------------------------------
(* Properties *)

TypeOK ==
    /\ OutputsTypeOK
    /\ pc \in {"load", "lang", "walk", "done", "aborted"}
    /\ li \in 1..(Len(Entries) + 1) /\ ci \in 1..(MaxCatalogs + 1)
    /\ found \in BOOLEAN

\* Spec 4.7: a language is recorded as skipped exactly when it has no
\* registry patterns or no node-types.json at all; a language whose every
\* catalog failed is an error, not skipped (node_types_found is set after
\* each _generate_single_uast_map call).
SkippedIffNoCatalog ==
    pc = "done" =>
        \A d \in Dirs :
            Listed(skipped, d) <=> (ShouldSkipLanguage(GetLanguageInfo(d)) \/ Catalogs(d) = 0)

=============================================================================
