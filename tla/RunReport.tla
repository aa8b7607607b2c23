------------------------------ MODULE RunReport ------------------------------
(***************************************************************************)
(* The results both drivers build while they walk the grammars directory  *)
(* (the RunReport lists of the current driver, the processed / skipped /   *)
(* errors / validation_errors lists of the older script), and what they    *)
(* promise about them. GenerationDriver and LegacyGenerator extend this    *)
(* module with their own loop state.                                       *)
(***************************************************************************)
EXTENDS GrammarTree

VARIABLES
    pc,         \* where the driver is: "load", "lang", "walk", "done", "aborted"
    processed,  \* results['processed'] (the lang of each tuple)
    skipped,    \* results['skipped']
    errors,     \* results['errors'] (the lang of each tuple)
    warnings    \* results['validation_errors'] (the lang of each tuple)

reportVars == <<processed, skipped, errors, warnings>>
outputVars == <<files, written>>

\* The report starts empty; the output directory may hold earlier maps.
OutputsInit ==
    /\ FilesInit
    /\ processed = << >> /\ skipped = << >> /\ errors = << >> /\ warnings = << >>

\* The validator's verdict on the content is not modelled here: a catalog's
\* content may or may not pass validate_uast_map.
WarnUnless(valid, d) == warnings' = IF valid THEN warnings ELSE Append(warnings, d)

Listed(s, d) == \E n \in 1..Len(s) : s[n] = d
Times(s, d) == Len(SelectSeq(s, LAMBDA x : x = d))

OutputsTypeOK ==
    /\ FilesTypeOK
    /\ \A s \in {processed, skipped, errors, warnings} : s \in Seq(Names)

-----------------------------------------------------------------------------
(* Properties of the report and the output directory, shared by the drivers *)

\* Spec 7: no outcome is ever silently dropped. When the run completes, every
\* language directory appears in the report as processed, skipped or error.
ReportComplete ==
    pc = "done" =>
        \A d \in Dirs : Listed(processed, d) \/ Listed(skipped, d) \/ Listed(errors, d)

\* Spec 7(b): a language whose drafting failed produces no output file. A
\* language reported as an error and never as processed was not written
\* by this run.
ErrorLeavesNoFile ==
    \A d \in Dirs : (Listed(errors, d) /\ ~Listed(processed, d)) => d \notin written

\* Spec 5 and 6: one mapping file per successfully processed language; each
\* language is processed at most once, so no two writes target one path.
ProcessedOnce == \A d \in Dirs : Times(processed, d) <= 1

\* Every file this run wrote completely belongs to a language reported as
\* processed, and every processed language's file is complete unless a later
\* catalog of that language failed while writing it.
FilesMatchReport ==
    pc = "done" =>
        \A d \in Dirs :
            /\ (d \in written /\ files[d].whole) => Listed(processed, d)
            /\ (Listed(processed, d) /\ ~files[d].whole) => Listed(errors, d)

=============================================================================
