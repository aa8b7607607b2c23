-------------------------- MODULE ProviderValidator --------------------------
(***************************************************************************)
(* scripts/validate_providers.py: for every pkg/uast/providers/<p>.yaml,    *)
(* find a grammar.json for p (grammars_json/ first, then six fixed paths   *)
(* under grammars/p, then any match of a recursive glob) and check the     *)
(* provider's mapping keys against the grammar's rule names. The exit code *)
(* is 0 exactly when every provider was counted valid.                     *)
(*                                                                         *)
(* The grammar files are those GrammarFetch leaves: a copy in grammars_json *)
(* and the files of a complete clone; a partial clone has no files.        *)
(***************************************************************************)
EXTENDS Integers, Sequences, FiniteSets

CONSTANTS
    Providers,      \* the stems of pkg/uast/providers/*.yaml
    ProviderNodes,  \* [Providers -> set of mapping keys]
    NullKey,        \* the key None (a "null:" or "~:" key in the YAML)
    RepoGrammars    \* [p -> [locations of grammar.json in p's repo -> rule names]]

VARIABLES
    clones,         \* from GrammarFetch: [entry -> "absent" | "partial" | "complete"]
    copies,         \* from GrammarFetch: entries with grammars_json/<p>_grammar.json
    vpc,            \* "idle", "loop", "done"
    vtodo,          \* providers the loop has not reached
    verdict,        \* [Providers -> "pending" | "valid" | "invalid" | "missing"]
    validCount,     \* valid_count
    exitCode        \* sys.exit argument, or -1 while running

validatorVars == <<vpc, vtodo, verdict, validCount, exitCode>>

\* Candidates 2-6 of find_grammar_file, as places in the repository:
\* src/grammar.json, grammar.json, tree-sitter-p/grammar.json,
\* tree-sitter-p/src/grammar.json, grammars/p/src/grammar.json.
FixedCandidates == <<"src", "root", "ts", "tssrc", "nested">>

\* grammars_json/<p>_grammar.json: the copy of the repository's src/grammar.json.
CopyPath == "copy"

GrammarFilesOnDisk(p) == IF clones[p] = "complete" THEN DOMAIN RepoGrammars[p] ELSE {}

\* Mutant: the glob is tried before the fixed candidates.
FindGrammarFileGlobOnly(p) == IF p \in copies THEN {CopyPath} ELSE GrammarFilesOnDisk(p)

\* find_grammar_file: what it may return (the empty set: None). glob.glob
\* returns matches in the order the file system lists them, so matches[0]
\* is any of them.
FindGrammarFile(p) ==
    LET fixed == SelectSeq(FixedCandidates, LAMBDA l : l \in GrammarFilesOnDisk(p))
    IN  IF p \in copies THEN {CopyPath}
        ELSE IF fixed /= << >> THEN {Head(fixed)}
        ELSE GrammarFilesOnDisk(p)

\* extract_grammar_nodes: the rule names of a grammar file.
GrammarNodes(p, g) == IF g = CopyPath THEN RepoGrammars[p]["src"] ELSE RepoGrammars[p][g]

\* validate_provider once the grammar file exists: some nodes, none unknown
\* to the grammar except None, and some in common.
ValidateProvider(pn, gn) ==
    /\ pn /= {}
    /\ (pn \ gn) \ {NullKey} = {}
    /\ pn \cap gn /= {}

ValidatorInit ==
    /\ vpc = "idle" /\ vtodo = {} /\ verdict = [p \in Providers |-> "pending"]
    /\ validCount = 0 /\ exitCode = -1

\* main(): the providers directory is listed and the counters are set.
ValidatorStart ==
    /\ vpc = "idle"
    /\ vpc' = "loop" /\ vtodo' = Providers /\ validCount' = 0
    /\ UNCHANGED <<verdict, exitCode>>

\* Mutant: valid_count += 1 outside the if.
CheckProviderCountingAll ==
    /\ vpc = "loop"
    /\ \E p \in vtodo : \E g \in FindGrammarFile(p) :
        /\ verdict' = [verdict EXCEPT ![p] =
                         IF ValidateProvider(ProviderNodes[p], GrammarNodes(p, g))
                         THEN "valid" ELSE "invalid"]
        /\ validCount' = validCount + 1
        /\ vtodo' = vtodo \ {p}
    /\ UNCHANGED <<vpc, exitCode>>

\* A grammar file is found and validate_provider decides.
CheckProvider ==
    /\ vpc = "loop"
    /\ \E p \in vtodo : \E g \in FindGrammarFile(p) :
        LET ok == ValidateProvider(ProviderNodes[p], GrammarNodes(p, g))
        IN  /\ verdict' = [verdict EXCEPT ![p] = IF ok THEN "valid" ELSE "invalid"]
            /\ validCount' = IF ok THEN validCount + 1 ELSE validCount
            /\ vtodo' = vtodo \ {p}
    /\ UNCHANGED <<vpc, exitCode>>

\* find_grammar_file returns None: "Grammar file not found", continue.
GrammarMissing ==
    /\ vpc = "loop"
    /\ \E p \in vtodo :
        /\ FindGrammarFile(p) = {}
        /\ verdict' = [verdict EXCEPT ![p] = "missing"]
        /\ vtodo' = vtodo \ {p}
    /\ UNCHANGED <<vpc, validCount, exitCode>>

\* sys.exit(0) if valid_count == total_count, else sys.exit(1).
ValidatorFinish ==
    /\ vpc = "loop" /\ vtodo = {}
    /\ vpc' = "done"
    /\ exitCode' = IF validCount = Cardinality(Providers) THEN 0 ELSE 1
    /\ UNCHANGED <<vtodo, verdict, validCount>>

\* The script only reads the grammar files.
ValidatorNext ==
    /\ \/ ValidatorStart \/ CheckProvider \/ GrammarMissing \/ ValidatorFinish
    /\ UNCHANGED <<clones, copies>>

-----------------------------------------------------------------------------
(* Properties *)

ValidatorTypeOK ==
    /\ vpc \in {"idle", "loop", "done"} /\ vtodo \subseteq Providers
    /\ verdict \in [Providers -> {"pending", "valid", "invalid", "missing"}]
    /\ validCount \in 0..Cardinality(Providers) /\ exitCode \in {-1, 0, 1}

\* The exit status is 0 exactly when every provider was found valid: a
\* provider without a grammar file, or one checked against a grammar it does
\* not match, makes the run fail.
ExitZeroIffAllValid ==
    vpc = "done" => ((exitCode = 0) <=> \A p \in Providers : verdict[p] = "valid")

\* A provider whose repository has src/grammar.json is judged against that
\* grammar, whether the fetch managed to copy it to grammars_json or not.
JudgedByOwnGrammar ==
    \A p \in Providers :
        (verdict[p] \in {"valid", "invalid"} /\ "src" \in DOMAIN RepoGrammars[p]) =>
            (verdict[p] = "valid") <=> ValidateProvider(ProviderNodes[p], RepoGrammars[p]["src"])

=============================================================================
