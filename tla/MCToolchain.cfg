\* Two pull_grammars.py runs, each of which may be killed, then one consumer.
CONSTANTS
    ForestEntries <- MCForestEntries
    WithGrammarJson <- MCWithGrammarJson
    WithUrl <- MCWithGrammarJson
    RootGrammarJson <- MCRootGrammarJson
    MaxRuns = 2
    Entries <- MCForestEntries
    RepoNodeTypes <- MCRepoNodeTypes
    Providers <- MCProviders
    ProviderNodes <- MCProviderNodes
    NullKey = "null"
    RepoGrammars <- MCRepoGrammars
SPECIFICATION Spec
INVARIANTS
    TypeOK
    CopiesAfterCleanRun
    ReportComplete
    FilesMatchReport
    DriverSkippedIffNoCatalog
    BulkMapsComplete
    ExitZeroIffAllValid
    JudgedByOwnGrammar
CHECK_DEADLOCK FALSE
