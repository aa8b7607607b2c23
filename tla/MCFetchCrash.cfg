\* Two pull_grammars.py runs, the first of which may be killed mid-clone.
CONSTANTS
    ForestEntries <- MCForestEntries
    WithGrammarJson <- MCWithGrammarJson
    WithUrl <- MCWithGrammarJson
    RootGrammarJson <- MCRootGrammarJson
    MaxRuns = 2
    Entries <- MCForestEntries
    RepoNodeTypes <- MCRepoNodeTypes
    Providers <- MCProviders
    ProviderNodes <- MCProviderNodes
    NullKey = "null"
    RepoGrammars <- MCRepoGrammars
SPECIFICATION Spec
INVARIANT
    PulledMeansCloned
CHECK_DEADLOCK FALSE
