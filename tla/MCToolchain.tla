----------------------------- MODULE MCToolchain -----------------------------
(***************************************************************************)
(* A go-sitter-forest with four entries: go (its repository has            *)
(* src/grammar.json and one node-types.json), internal (no grammar.json),  *)
(* typescript (grammars in typescript/src and tsx/src, two catalogs, no    *)
(* root src/grammar.json), and zig (not in the language table). Two        *)
(* providers, go (with a null key) and typescript.                         *)
(***************************************************************************)
EXTENDS Toolchain

MCForestEntries == <<"go", "internal", "typescript", "zig">>
MCWithGrammarJson == {"go", "typescript", "zig"}
MCRootGrammarJson == {"go", "zig"}
MCRepoNodeTypes == ("go" :> 1) @@ ("internal" :> 0) @@ ("typescript" :> 2) @@ ("zig" :> 1)

MCProviders == {"go", "typescript"}
MCProviderNodes == ("go" :> {"a", "null"}) @@ ("typescript" :> {"a", "b"})
\* go also carries a vendored grammar.json deeper in the tree.
MCRepoGrammars ==
    ("go" :> (("src" :> {"a", "b"}) @@ ("vendored" :> {"c"})))
    @@ ("typescript" :> (("ts_src" :> {"a"}) @@ ("tsx_src" :> {"a", "b"})))

=============================================================================
