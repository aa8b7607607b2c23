----------------------------- MODULE GrammarTree -----------------------------
(***************************************************************************)
(* What the generation scripts read and write: the grammars directory (for  *)
(* each name os.listdir may return, whether it is a directory and how many  *)
(* node-types.json files os.walk finds under it), the output files          *)
(* <lang>.uastmap, and the language table. The generators never change the  *)
(* grammars directory; GrammarFetch is what fills it.                       *)
(***************************************************************************)
EXTENDS Naturals, Sequences, SequencesExt

CONSTANT
    Entries     \* sorted(os.listdir(grammars_dir)): a sequence of names

Names == Range(Entries)

VARIABLES
    grammars,   \* [Names -> [dir : BOOLEAN, nodeTypes : Nat]]
    files,      \* the output directory: [Names -> FileRec]
    written     \* names whose output file this run opened for writing

\* os.path.isdir(lang_dir), and the node-types.json files os.walk yields.
IsDir(d) == grammars[d].dir
Catalogs(d) == grammars[d].nodeTypes
\* The entries that are directories, in listing order.
Dirs == Range(SelectSeq(Entries, IsDir))

MaxCatalogs == Max({Catalogs(d) : d \in Names} \cup {0})

\* The directory names the language table knows (LanguageMapper.
\* _create_language_map; raw_map of the older script has the same entries).
\* Every entry has at least one pattern; the patterns themselves are reduced
\* to whether some start with '.' (extensions) and some do not (file names).
RegisteredLanguages ==
    {"go", "javascript", "typescript", "tsx", "python", "java", "c", "cpp", "rust",
     "rust_with_rstml", "ruby", "php", "c_sharp", "kotlin", "swift", "scala",
     "haskell", "ocaml", "fsharp", "clojure", "erlang", "elixir", "elm", "bash",
     "fish", "sql", "html", "css", "xml", "json", "yaml", "toml", "ini", "markdown",
     "markdown_inline", "dockerfile", "make", "lua", "perl", "r", "dart", "crystal",
     "nim", "nim_format_string", "fortran", "commonlisp", "cmake", "tcl", "hcl",
     "gotmpl", "helm", "git_config", "gitignore", "gitattributes", "ssh_config",
     "dotenv", "properties", "gowork", "gosum", "csv", "psv", "proxima", "proto",
     "prql", "latex", "ansible"}
WithFileNames == {"dockerfile", "make", "cmake", "ssh_config", "gowork", "gosum"}
WithoutExtensions == {"ssh_config", "gowork", "gosum"}
CanonicalName(lang) == IF lang = "c_sharp" THEN "csharp" ELSE lang

\* An output file: present or not, which catalog of this run wrote it (0: it
\* is left from an earlier run), and whether the write completed.
FileRec == [exists : BOOLEAN, cat : 0..MaxCatalogs, whole : BOOLEAN]
NoFile == [exists |-> FALSE, cat |-> 0, whole |-> TRUE]
OldFile == [exists |-> TRUE, cat |-> 0, whole |-> TRUE]

\* os.makedirs(output_dir, exist_ok=True): the directory may already hold
\* maps from an earlier run.
FilesInit ==
    /\ files \in [Names -> {NoFile, OldFile}]
    /\ written = {}

\* with open(out_path, 'w') as outf: ...: opening truncates, and the write
\* of catalog k either completes or stops part-way.
WriteFile(d, k, whole) ==
    /\ files' = [files EXCEPT ![d] = [exists |-> TRUE, cat |-> k, whole |-> whole]]
    /\ written' = written \cup {d}

FilesTypeOK ==
    /\ grammars \in [Names -> [dir : BOOLEAN, nodeTypes : Nat]]
    /\ files \in [Names -> FileRec] /\ written \subseteq Dirs

=============================================================================
