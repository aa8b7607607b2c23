------------------------------ MODULE Toolchain ------------------------------
(***************************************************************************)
(* The grammar tool chain: pull_grammars.py is run one or more times       *)
(* (each run may be killed or fail part-way), and then one of the scripts  *)
(* that read what it left runs: the older gen_uastmaps.py, the current    *)
(* build/scripts/uastmapsgen/gen_uastmaps.py, the bulk                     *)
(* generate_all_uastmaps.py, or validate_providers.py. The two            *)
(* gen_uastmaps.py drivers share their loop and report variables; only    *)
(* one of them runs.                                                       *)
(*                                                                         *)
(* The generators see the grammars directory through GrammarsView: a clone  *)
(* that is absent is not listed, a partial one is a directory with no      *)
(* node-types.json, and a complete one has its repository's catalogs.      *)
(***************************************************************************)
EXTENDS Naturals, Sequences, SequencesExt

CONSTANTS
    ForestEntries, WithGrammarJson, WithUrl, RootGrammarJson, MaxRuns,
    Entries,        \* sorted names the generators may list under grammars/
    RepoNodeTypes,  \* [ForestNames -> how many node-types.json the repo holds]
    Providers, ProviderNodes, NullKey, RepoGrammars

VARIABLES
    fpc, forest, clones, copies, fi, pulled, outcome, runs,
    pc, li, ci, found, processed, skipped, errors, warnings, files, written,
    bpc, btodo, bcur, bci,
    vpc, vtodo, verdict, validCount, exitCode,
    phase           \* "fetch", then the one consumer that runs

fetchVars == <<fpc, forest, clones, copies, fi, pulled, outcome, runs>>
legacyVars == <<pc, li, ci, found, processed, skipped, errors, warnings>>
outVars == <<files, written>>
bulkVars == <<bpc, btodo, bcur, bci>>
validatorVars == <<vpc, vtodo, verdict, validCount, exitCode>>
vars == <<fetchVars, legacyVars, outVars, bulkVars, validatorVars, phase>>

Consumers == {"legacy", "driver", "bulk", "providers"}

GrammarsView ==
    [d \in Range(Entries) |->
        [dir |-> clones[d] /= "absent",
         nodeTypes |-> IF clones[d] = "complete" THEN RepoNodeTypes[d] ELSE 0]]

F == INSTANCE GrammarFetch
L == INSTANCE LegacyGenerator WITH grammars <- GrammarsView
D == INSTANCE GenerationDriver WITH grammars <- GrammarsView
B == INSTANCE BulkGenerator WITH grammars <- GrammarsView
V == INSTANCE ProviderValidator

-----------------------------------------------------------------------------

Init ==
    /\ F!FetchInit /\ L!Init /\ B!BulkInit /\ V!ValidatorInit
    /\ phase = "fetch"

Fetch ==
    /\ phase = "fetch" /\ F!FetchNext
    /\ UNCHANGED <<legacyVars, outVars, bulkVars, validatorVars, phase>>

\* No pull_grammars.py run is in progress when a consumer starts. The
\* current driver starts by loading its schema, the older one at its loop.
StartConsumer ==
    /\ phase = "fetch" /\ fpc = "idle" /\ runs > 0
    /\ \E c \in Consumers :
        /\ phase' = c
        /\ pc' = IF c = "driver" THEN "load" ELSE pc
    /\ UNCHANGED <<fetchVars, li, ci, found, processed, skipped, errors, warnings,
                   outVars, bulkVars, validatorVars>>

\* The generators read the grammars directory: clones is in fetchVars.
Legacy ==
    /\ phase = "legacy" /\ L!LegacyStep
    /\ UNCHANGED <<fetchVars, bulkVars, validatorVars, phase>>

Driver ==
    /\ phase = "driver" /\ D!DriverStep
    /\ UNCHANGED <<fetchVars, bulkVars, validatorVars, phase>>

Bulk ==
    /\ phase = "bulk" /\ B!BulkStep
    /\ UNCHANGED <<fetchVars, legacyVars, validatorVars, phase>>

Providers_ ==
    /\ phase = "providers" /\ V!ValidatorNext
    /\ UNCHANGED <<fetchVars, legacyVars, outVars, bulkVars, phase>>

Next == Fetch \/ StartConsumer \/ Legacy \/ Driver \/ Bulk \/ Providers_

Spec == Init /\ [][Next]_vars

-----------------------------------------------------------------------------
(* Properties *)

TypeOK ==
    /\ F!FetchTypeOK /\ D!TypeOK /\ B!BulkTypeOK /\ V!ValidatorTypeOK
    /\ phase \in {"fetch"} \cup Consumers

\* pull_grammars.py, after any number of killed or failed runs: once a run
\* returns normally, every grammar repository it reached that has
\* src/grammar.json has its copy in grammars_json.
CopiesAfterCleanRun == F!CopiesAfterCleanRun

\* "Pulled grammar for <entry>": a grammar reported pulled is a complete
\* clone, including one left partial by an earlier killed run.
PulledMeansCloned == F!PulledMeansCloned

\* Either gen_uastmaps.py run on what the fetch left, partial clones
\* included: when it completes, every directory is reported processed,
\* skipped or error.
ReportComplete == L!ReportComplete

\* Either gen_uastmaps.py: when it completes, every map it wrote completely
\* belongs to a language reported processed, and a processed language whose
\* map is truncated is also reported as an error.
FilesMatchReport == L!FilesMatchReport

\* The current gen_uastmaps.py, on clones left partial or absent: a
\* language is skipped exactly when it has no registry patterns or no
\* node-types.json, never because all of its catalogs failed.
DriverSkippedIffNoCatalog == phase = "driver" => D!SkippedIffNoCatalog

\* generate_all_uastmaps.py run on what the fetch left: exit 0 means every
\* grammar directory with node-types.json has a complete map from this run.
BulkMapsComplete == B!BulkMapsComplete

\* validate_providers.py run on what the fetch left: exit 0 exactly when
\* every provider was valid, whatever clones are missing or partial.
ExitZeroIffAllValid == V!ExitZeroIffAllValid

\* validate_providers.py judges a provider by its repository's
\* src/grammar.json, from grammars_json or from the clone alike.
JudgedByOwnGrammar == V!JudgedByOwnGrammar

=============================================================================
