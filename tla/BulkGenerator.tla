---------------------------- MODULE BulkGenerator ----------------------------
(***************************************************************************)
(* scripts/generate_all_uastmaps.py: for every directory of grammars/, in  *)
(* the order os.listdir returns (unsorted), and every node-types.json      *)
(* os.walk finds under it, run "uast mapping --generate" with its stdout    *)
(* redirected into pkg/uast/uastmaps/<lang>.uastmap. There is no registry  *)
(* lookup and no try: check=True makes a failing command raise out of       *)
(* main(), and the script exits with an error.                             *)
(***************************************************************************)
EXTENDS GrammarTree, FiniteSets

VARIABLES
    bpc,        \* "idle", "lang", "walk", "done", "aborted"
    btodo,      \* directories os.listdir returned and the loop has not reached
    bcur,       \* the directory being walked
    bci         \* which node-types.json of bcur is next

bulkVars == <<bpc, btodo, bcur, bci>>

NoDir == "none"

BulkInit == bpc = "idle" /\ btodo = {} /\ bcur = NoDir /\ bci = 1

\* main() starts: os.makedirs(output_dir), then os.listdir(grammars_dir);
\* names that are not directories are passed over by the isdir test.
BulkStart ==
    /\ bpc = "idle"
    /\ bpc' = "lang" /\ btodo' = Dirs
    /\ UNCHANGED <<bcur, bci, files, written>>

\* The next directory in listdir order; which one is not specified.
BulkEnter ==
    /\ bpc = "lang"
    /\ \E d \in btodo :
        /\ bcur' = d /\ btodo' = btodo \ {d}
    /\ bpc' = "walk" /\ bci' = 1
    /\ UNCHANGED <<files, written>>

\* open(out_path, 'w') truncates the map, and the command's stdout fills it.
\* Every catalog of one directory writes the same <lang>.uastmap.
BulkGenerate ==
    /\ bpc = "walk" /\ bci <= Catalogs(bcur)
    /\ WriteFile(bcur, bci, TRUE)
    /\ bci' = bci + 1
    /\ UNCHANGED <<bpc, btodo, bcur>>

\* Mutant: check=False, so a failing command is not noticed.
BulkCommandFailsUnchecked ==
    /\ bpc = "walk" /\ bci <= Catalogs(bcur)
    /\ WriteFile(bcur, bci, FALSE)
    /\ bci' = bci + 1
    /\ UNCHANGED <<bpc, btodo, bcur>>

\* The command exits non-zero after writing part of its output into the
\* truncated file: CalledProcessError ends the script.
BulkCommandFails ==
    /\ bpc = "walk" /\ bci <= Catalogs(bcur)
    /\ WriteFile(bcur, bci, FALSE)
    /\ bpc' = "aborted"
    /\ UNCHANGED <<btodo, bcur, bci>>

BulkLeave ==
    /\ bpc = "walk" /\ bci > Catalogs(bcur)
    /\ bpc' = "lang"
    /\ UNCHANGED <<btodo, bcur, bci, files, written>>

\* The listing is exhausted and the script exits 0.
BulkFinish ==
    /\ bpc = "lang" /\ btodo = {}
    /\ bpc' = "done"
    /\ UNCHANGED <<btodo, bcur, bci, files, written>>

BulkStep ==
    \/ BulkStart \/ BulkEnter \/ BulkGenerate \/ BulkCommandFails
    \/ BulkLeave \/ BulkFinish

\* The script reads the grammars directory and never changes it.
BulkNext == BulkStep /\ UNCHANGED grammars

-----------------------------------------------------------------------------
(* Properties *)

BulkTypeOK ==
    /\ bpc \in {"idle", "lang", "walk", "done", "aborted"}
    /\ btodo \subseteq Names /\ bcur \in Names \cup {NoDir}
    /\ bci \in 1..(MaxCatalogs + 1)

\* A bulk run that exits 0 leaves, for every grammar directory holding a
\* node-types.json, a map this run wrote and whose write completed; the map
\* holds the directory's last catalog in walk order.
BulkMapsComplete ==
    bpc = "done" =>
        \A d \in Dirs :
            Catalogs(d) > 0 =>
                /\ d \in written /\ files[d].whole /\ files[d].cat = Catalogs(d)

=============================================================================
