----------------------------- MODULE GrammarFetch -----------------------------
(***************************************************************************)
(* pkg/uast/scripts/pull_grammars.py: clone go-sitter-forest, then for     *)
(* each of its entries with a grammar.json holding a "url", clone that     *)
(* grammar repository into grammars/<entry> unless the directory exists,   *)
(* and copy its src/grammar.json to grammars_json/<entry>_grammar.json.     *)
(*                                                                         *)
(* A repository on disk is "absent", "complete", or "partial": a clone     *)
(* whose process was killed (git removes the directory itself when clone   *)
(* fails with an error, but not when it is killed). A partial clone holds  *)
(* no checked-out files. The script may be run again after any run,        *)
(* up to MaxRuns times.                                                     *)
(***************************************************************************)
EXTENDS Naturals, Sequences, SequencesExt

CONSTANTS
    ForestEntries,      \* os.listdir(GO_SITTER_FOREST_DIR) of a complete clone
    WithGrammarJson,    \* entries that are directories holding grammar.json
    WithUrl,            \* entries whose grammar.json has a non-empty "url"
    RootGrammarJson,    \* entries whose grammar repository has src/grammar.json
    MaxRuns             \* how many times the script is started

VARIABLES
    fpc,        \* "idle" (no run in progress), "forest", "entries", "copy"
    forest,     \* the go-sitter-forest clone
    clones,     \* [entry -> "absent" | "partial" | "complete"]: grammars/<entry>
    copies,     \* entries whose grammars_json/<entry>_grammar.json exists
    fi,         \* position in the forest listing
    pulled,     \* entries this run printed "Pulled grammar for" about
    outcome,    \* how the last run ended: "none", "clean", "failed", "crashed"
    runs        \* runs started so far

fetchVars == <<fpc, forest, clones, copies, fi, pulled, outcome, runs>>

ForestNames == Range(ForestEntries)
RepoState == {"absent", "partial", "complete"}

\* os.listdir of the forest directory: a killed clone has no checkout.
Listing == IF forest = "complete" THEN ForestEntries ELSE << >>

FEntry == Listing[fi]

\* The continue of lines 33-40: not a directory with grammar.json, or no url.
HasGrammarUrl(e) == e \in WithGrammarJson /\ e \in WithUrl

\* os.path.isfile(src_grammar_json) in the target directory.
SrcGrammarJsonExists(e) == clones[e] = "complete" /\ e \in RootGrammarJson

-----------------------------------------------------------------------------

FetchInit ==
    /\ fpc = "idle" /\ forest = "absent" /\ clones = [e \in ForestNames |-> "absent"]
    /\ copies = {} /\ fi = 1 /\ pulled = {} /\ outcome = "none" /\ runs = 0

\* python pull_grammars.py: the directories are made and main() starts.
StartRun ==
    /\ fpc = "idle" /\ runs < MaxRuns
    /\ fpc' = "forest" /\ fi' = 1 /\ pulled' = {} /\ runs' = runs + 1
    /\ outcome' = "none"
    /\ UNCHANGED <<forest, clones, copies>>

\* ensure_repo_cloned(GO_SITTER_FOREST_REPO, ...): the directory is absent
\* and git clone succeeds.
CloneForest ==
    /\ fpc = "forest" /\ forest = "absent"
    /\ forest' = "complete" /\ fpc' = "entries"
    /\ UNCHANGED <<clones, copies, fi, pulled, outcome, runs>>

\* git clone fails and removes its directory; run() raises outside any try,
\* so main() ends.
ForestCloneFails ==
    /\ fpc = "forest" /\ forest = "absent"
    /\ fpc' = "idle" /\ outcome' = "failed"
    /\ UNCHANGED <<forest, clones, copies, fi, pulled, runs>>

\* The process is killed during the clone: the directory stays, partial.
ForestCloneKilled ==
    /\ fpc = "forest" /\ forest = "absent"
    /\ forest' = "partial" /\ fpc' = "idle" /\ outcome' = "crashed"
    /\ UNCHANGED <<clones, copies, fi, pulled, runs>>

\* The directory exists, whatever it holds: "Repo already cloned".
ForestPresent ==
    /\ fpc = "forest" /\ forest /= "absent"
    /\ fpc' = "entries"
    /\ UNCHANGED <<forest, clones, copies, fi, pulled, outcome, runs>>

\* An entry that is not a directory with grammar.json and a url is passed over.
SkipEntry ==
    /\ fpc = "entries" /\ fi <= Len(Listing) /\ ~HasGrammarUrl(FEntry)
    /\ fi' = fi + 1
    /\ UNCHANGED <<fpc, forest, clones, copies, pulled, outcome, runs>>

\* ensure_repo_cloned(url, target_dir) clones an absent grammar, and the
\* script prints "Pulled grammar for <entry>".
CloneGrammar ==
    /\ fpc = "entries" /\ fi <= Len(Listing) /\ HasGrammarUrl(FEntry)
    /\ clones[FEntry] = "absent"
    /\ clones' = [clones EXCEPT ![FEntry] = "complete"]
    /\ pulled' = pulled \cup {FEntry} /\ fpc' = "copy"
    /\ UNCHANGED <<forest, copies, fi, outcome, runs>>

\* git clone fails and removes its directory: "ERROR: Failed to clone",
\* continue with the next entry.
CloneGrammarFails ==
    /\ fpc = "entries" /\ fi <= Len(Listing) /\ HasGrammarUrl(FEntry)
    /\ clones[FEntry] = "absent"
    /\ fi' = fi + 1
    /\ UNCHANGED <<fpc, forest, clones, copies, pulled, outcome, runs>>

\* The process is killed during the grammar clone.
CloneGrammarKilled ==
    /\ fpc = "entries" /\ fi <= Len(Listing) /\ HasGrammarUrl(FEntry)
    /\ clones[FEntry] = "absent"
    /\ clones' = [clones EXCEPT ![FEntry] = "partial"]
    /\ fpc' = "idle" /\ outcome' = "crashed"
    /\ UNCHANGED <<forest, copies, fi, pulled, runs>>

\* Mutant: an existing clone is reported but its grammar.json not copied.
GrammarPresentNoCopy ==
    /\ fpc = "entries" /\ fi <= Len(Listing) /\ HasGrammarUrl(FEntry)
    /\ clones[FEntry] /= "absent"
    /\ pulled' = pulled \cup {FEntry} /\ fi' = fi + 1
    /\ UNCHANGED <<fpc, forest, clones, copies, outcome, runs>>

\* target_dir exists: "Repo already cloned ... skipping clone", and the
\* script prints "Pulled grammar for <entry>" all the same.
GrammarPresent ==
    /\ fpc = "entries" /\ fi <= Len(Listing) /\ HasGrammarUrl(FEntry)
    /\ clones[FEntry] /= "absent"
    /\ pulled' = pulled \cup {FEntry} /\ fpc' = "copy"
    /\ UNCHANGED <<forest, clones, copies, fi, outcome, runs>>

\* Step 4: shutil.copyfile if src/grammar.json is a file, else a warning.
CopyGrammarJson ==
    /\ fpc = "copy"
    /\ copies' = IF SrcGrammarJsonExists(FEntry) THEN copies \cup {FEntry} ELSE copies
    /\ fi' = fi + 1 /\ fpc' = "entries"
    /\ UNCHANGED <<forest, clones, pulled, outcome, runs>>

\* The process is killed after the clone and before the copy.
KilledBeforeCopy ==
    /\ fpc = "copy"
    /\ fpc' = "idle" /\ outcome' = "crashed"
    /\ UNCHANGED <<forest, clones, copies, fi, pulled, runs>>

\* The listing is exhausted and main() returns.
FinishRun ==
    /\ fpc = "entries" /\ fi > Len(Listing)
    /\ fpc' = "idle" /\ outcome' = "clean"
    /\ UNCHANGED <<forest, clones, copies, fi, pulled, runs>>

FetchNext ==
    \/ StartRun
    \/ CloneForest \/ ForestCloneFails \/ ForestCloneKilled \/ ForestPresent
    \/ SkipEntry \/ CloneGrammar \/ CloneGrammarFails \/ CloneGrammarKilled
    \/ GrammarPresent \/ CopyGrammarJson \/ KilledBeforeCopy \/ FinishRun

-----------------------------------------------------------------------------
(* Properties *)

FetchTypeOK ==
    /\ fpc \in {"idle", "forest", "entries", "copy"}
    /\ forest \in RepoState /\ clones \in [ForestNames -> RepoState]
    /\ copies \subseteq ForestNames /\ pulled \subseteq ForestNames
    /\ fi \in 1..(Len(ForestEntries) + 1)
    /\ outcome \in {"none", "clean", "failed", "crashed"} /\ runs \in 0..MaxRuns

\* After a run that returned normally, every cloned grammar whose repository
\* has src/grammar.json has its copy in grammars_json/, even when an earlier
\* run was killed between the clone and the copy: step 4 runs for existing
\* clones too.
CopiesAfterCleanRun ==
    (fpc = "idle" /\ outcome = "clean") =>
        \A e \in ForestNames :
            (HasGrammarUrl(e) /\ SrcGrammarJsonExists(e)) => e \in copies

\* "Pulled grammar for <entry> into grammars/<entry>": every grammar the
\* script reports as pulled is a complete clone.
PulledMeansCloned == \A e \in pulled : clones[e] = "complete"

=============================================================================
