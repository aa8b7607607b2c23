-------------------------- MODULE MCGenerationDriver --------------------------
(***************************************************************************)
(* A grammars directory for GenerationDriver: a stray file, go with one    *)
(* node-types.json, latex with none, typescript with the typescript and   *)
(* tsx catalogs of its grammar repository, and zig, missing from the      *)
(* language table.                                                         *)
(***************************************************************************)
EXTENDS GenerationDriver

MCEntries == <<"README.md", "go", "latex", "typescript", "zig">>

Dir(n) == [dir |-> TRUE, nodeTypes |-> n]

MCGrammars ==
    ("README.md" :> [dir |-> FALSE, nodeTypes |-> 0]) @@ ("go" :> Dir(1))
    @@ ("latex" :> Dir(0)) @@ ("typescript" :> Dir(2)) @@ ("zig" :> Dir(1))

MCInit == Init /\ grammars = MCGrammars

=============================================================================
