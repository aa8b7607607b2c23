# TLA+ models of the UAST map generator

This directory holds TLA+ models of the Python tooling in `src/` that generates
`.uastmap` files, the DSL files that map tree-sitter grammars to the UAST. The
main script is `src/build/scripts/uastmapsgen/gen_uastmaps.py`, called "the
generator" below. The models are checked with TLC.

## The system

The generator has these parts. Line numbers refer to the generator.

| Part | Code | What it does |
|---|---|---|
| Language Registry | `LanguageMapper`, 21-105 | A constant table from a directory name to the canonical name, extensions and file names. |
| Type Classifier | `UASTTypeMapper`, 108-366 | A rule name is looked up in an exact table. Failing that, it is matched against an ordered table of suffixes, case-insensitively. Failing that, the type is `Synthetic`. |
| Role Classifier | `UASTRoleMapper`, 369-467 | Maps a type (and, for identifiers, the name) to a list of roles. |
| Token Classifier | `TokenStrategyMapper`, 470-524 | Chooses the token strategy `"self"` or `"child:identifier"` by substring tests. |
| Section Formatter | `LanguageSectionFormatter`, 527-579 | Removes every `[language ...]` section and puts one fresh header in front. |
| Mapping Enhancer | `UASTMappingEnhancer`, 582-749 | Scans each `rule <- ... => uast(` block. It tracks parenthesis depth, corrects `type:` values, and inserts `token:` and `roles:` fields. |
| Schema Validator | `UASTMapValidator`, 752-862 | Runs three structural checks, then compares each `type:` and `roles:` value against the enumerations of the JSON schema. |
| Generation Driver | `UASTMapGenerator`, 865-978 | For each grammar directory and each `node-types.json` under it, the driver runs the external draft command. It pipes the result through Formatter, Enhancer and Validator, writes the file, and records the outcome in the run report. |
| Report Generator | `ReportGenerator`, 981-1048 | Prints the run report. |

The three classifiers are pure functions used by the Enhancer. Formatter,
Enhancer and Validator are applied in that order to the same text by the
Driver.

Around the generator sit scripts that share its files:

| Part | Code | What it does |
|---|---|---|
| Grammar fetching | `src/pkg/uast/scripts/pull_grammars.py` | Clones go-sitter-forest. For each of its entries with a `grammar.json` holding a `url`, it clones that repository into `grammars/<entry>`, unless the directory already exists. It then copies the repository's `src/grammar.json` to `grammars_json/<entry>_grammar.json`. |
| Older generator | `src/scripts/uastmapsgen/gen_uastmaps.py` ("the older script") | A single-function version of the generator's driver loop. |
| Bulk generation | `src/scripts/generate_all_uastmaps.py` | Runs `uast mapping --generate` for every `node-types.json` under every directory of `grammars/`. Output goes into `<lang>.uastmap` with no error handling. |
| Provider validation | `src/scripts/validate_providers.py` | Finds a `grammar.json` for each provider YAML, checks the provider's node names against the grammar's rules, and exits 0 only if every provider is valid. |
| Benchmark tooling | `src/scripts/benchmark_runner.py` and `src/scripts/benchmark/` | Runs `go test`, parses its output, and plots it. |

The fetch script fills `grammars/` and `grammars_json/`, and the other three
scripts read them. The generators also write the map files.

## How the text is abstracted

`DslLines.tla` represents one line of DSL text as a record. The record holds
what the code's substring tests see:
- `kind`: header, blank, rule (contains `=> uast(`), field or close;
- whether the line is indented;
- the rule name;
- the `type:` and `token:` values;
- whether a `roles:` field is present, with the roles it lists;
- whether those roles are bracketed, which is what the validator's regex needs;
- the line's parentheses, in order.

A text is a sequence of such records, which is `content.split('\n')`.
- The formatter's final `strip()` is modelled by what it does: it drops the leading and trailing blank lines, and the first remaining line loses its indentation.
- `_create_token_line` and `_create_roles_line` produce `TokenLine` and `RolesLine` records. These take the indentation of the line they precede.

The classifiers (`Classifiers.tla`) work on real TLA+ strings. TLC evaluates
`Len`, `SubSeq` and `\o` on strings, so `lower()`, `endswith` and `in` are
defined directly on them (`Lower`, `EndsWith`, `HasSubstring`).

## Modules

| Module | Models | State and actions |
|---|---|---|
| `Classifiers` | Type, Role and Token classifiers | Operators, no state. `CanonicalTypeGroups` and `SuffixPatterns` are the two tables. The suffix table is a sequence in dict insertion order. `ScanSuffixes` is the loop of `_get_suffix_type`. `DetermineUastType`, `DetermineUastRoles` and `DetermineTokenStrategy` are the entry points. |
| `DslLines` | the line representation | Records and the constructors for the lines the code writes. |
| `MappingEnhancer` | `enhance_uast_mappings`, `_process_uast_rule_block` | Variables are the code's locals: `lines`, `out` (enhanced_lines), `i`/current_index, `rule`, `cls` (type, token strategy and roles), `found` (found_uast), `paren`, and the four field flags. `pc` records which loop is running. There is one action per branch of each loop iteration: `ScanCopyLine`, `StartRuleBlock`, `BlockStartLine`, `BlockCopyLine` and `BlockFieldLine` (the whole `elif found_uast` branch including insertion, type fix and block end), then `BlockEndOfInput` and `FinishPass`. `Rerun` feeds the output to a second call. The history variables `src` (which input line each output line copies; 0 if inserted) and `first` (the first call's output) exist only for the properties. |
| `SectionFormatter` | `ensure_language_section` | One action per branch of the filter loop: `DropHeaderLine`, `EndHeaderSection`, `DropSectionLine` and `KeepLine`. `ReturnUnchanged` is the whitespace-only early return. `AssembleResult` does the strip and concatenation. `Rerun` formats the result again, for a language chosen again. |
| `SchemaValidator` | `validate_uast_map`, `_check_spec_compliance` | Three early-return actions, then `CheckLine` once per line and `Conclude`. The schema enumerations are the constants `ValidTypes` and `ValidRoles`. |
| `GrammarTree` | what the three generators share | The constant `Entries` is the sorted directory listing. The variable `grammars` holds, per name, whether it is a directory and how many `node-types.json` files it holds. A model fixes it, or `Toolchain` derives it from the clones. `RegisteredLanguages` is the 66 names of the language table. Each entry's patterns are reduced to whether it has extensions and whether it has file names, because that is all the skip rule tests. The output directory `files` holds, per language: whether a file exists, which catalog of this run wrote it (0 for a file left by an earlier run), and whether the write completed. `written` is the set of languages whose file this run opened. |
| `RunReport` | the run report of both drivers | The RunReport lists `processed`, `skipped`, `errors` and `warnings`, each holding the language of its tuples. The report properties shared by both drivers are defined here. |
| `GenerationDriver` | `UASTMapGenerator`, `LanguageMapper.get_language_info` | The loop state is `li` (the entry), `ci` (the catalog) and `found` (node_types_found). `LoadSchema` and `SchemaLoadFails` model the validator's constructor. Then come `SkipNonDirectory`, `SkipLanguage` and `EnterLanguage`. Each catalog ends in one of three ways: `GenerateMap` (may add a validation warning), `CommandFails`, or `WriteFails` (after `open(..., 'w')`). `LeaveLanguage` records a language with no catalog as skipped, and `Finish` ends the run. The content of a map is not carried: whether it validates is a free choice. |
| `LegacyGenerator` | `main()` of `src/scripts/uastmapsgen/gen_uastmaps.py` | The same shape as `GenerationDriver`. There is no schema, and `found` is set only when a write succeeded. |
| `AbstractSectionFormatter` | spec 4.4 | What the formatter promises, as one `Format` step per call. A line is removed when it lies in a header block: at or after a header line, with no blank line in between. The remaining lines are stripped, and a header and a blank line are put in front. `SectionFormatter` maps its `pc` onto this module's (`AbstractFormatter`), so the filter loop is stuttering and `AssembleResult` or `ReturnUnchanged` is the abstract step. |
| `GrammarFetch` | `pull_grammars.py` | `forest`, and each entry of `clones`, is `absent`, `complete` or `partial`. A clone that fails with an error is removed by git, while a killed clone leaves a directory with no checkout. `copies` is the set of `grammars_json` files, `pulled` the set of entries this run reported as pulled, and `outcome` how the last run ended. The actions are: `StartRun`; the forest clone (`CloneForest`, `ForestCloneFails` raising out of `main`, `ForestCloneKilled`, `ForestPresent`); and per entry `SkipEntry`, `CloneGrammar`, `CloneGrammarFails` (the `except` that continues), `CloneGrammarKilled`, `GrammarPresent`, `CopyGrammarJson`, `KilledBeforeCopy` and `FinishRun`. The script may be started again after any run, up to `MaxRuns` times. |
| `BulkGenerator` | `generate_all_uastmaps.py` | `btodo` is the unsorted listing, from which `BulkEnter` takes any directory. `BulkGenerate` writes each catalog, with truncation by `open(..., 'w')`. `BulkCommandFails` writes part of a file and ends the script (`check=True`, no `try`). |
| `ProviderValidator` | `validate_providers.py` | `FindGrammarFile` is the seven candidates in order: the `grammars_json` copy, five fixed paths, then any glob match. `ValidateProvider` is the node-set test of `validate_provider`, with `None` keys filtered. It reads `clones` and `copies` from `GrammarFetch`. The variables are the loop's `verdict` and `validCount`, and the exit code. |
| `Toolchain` | the scripts together | `GrammarFetch` runs first, any number of times up to `MaxRuns`, and then one consumer runs: the older script, the current generation driver, the bulk generator or the provider validator. The generators see `grammars/` through `GrammarsView`. An absent clone is not a directory, a partial one is a directory without `node-types.json`, and a complete one holds its repository's catalogs. The components are named instances (`F`, `L`, `D`, `B`, `V`) with `grammars <- GrammarsView`. Each consumer's step (`LegacyStep`, `DriverStep`, `BulkStep`) is its next-state relation without `UNCHANGED grammars`, which an instance cannot take for a substituted variable. |
| `BenchmarkRunner` | `src/scripts/benchmark_runner.py`, and `benchmark_plot.py` by the files it writes | `bpc` is the step of `main()` a run is at. `folders` holds, per run, which of its files exist and, for each plot in `plots/`, the run whose output it was drawn from. `staging` is `benchmark_plots/` with the same information. The actions are `Start`, the three exits of the benchmark and parse steps, `CreateResultsFolder`, the three writes of `save_results`, `GeneratePlots` (the subprocess may stop after any of its files), `MovePlots` (the two globs) and `CreateReadme`. `Interrupted` ends a run between any two steps, and `PlotByHand` runs the plot script on a saved output between runs. `plotted` and `completed` are history. A folder's `results.json` is absent, partial or complete: `save_results` opens it (`SaveResultsJson`) before `json.dump` fills it (`DumpResultsJson`), so an interrupt can leave it cut short. `benchmark_comparison_multi.py` only reads these folders and may be run at any time, so it is the operator `CompareMultipleRuns(names)`, not an action: it loads the folders in argument order, builds the common benchmark keys with the script's re-seeding loop, orders each benchmark's runs by name (`TrendRuns`), and ends `crashed` (torn JSON, zero B/op), `error` or `done` with its trends. |
| `MCMappingEnhancer`, `MCSectionFormatter`, `MCSchemaValidator`, `MCGenerationDriver`, `MCToolchain`, `MCBenchmarkRunner` | model instances | These generate the inputs. |

## Runs

Runs marked "pass" must complete without a violation. Runs marked "violation"
are expected to find the property violated; the third column says what was
found.

| Run (cfg) | Expect | Checks |
|---|---|---|
| enhancer (`MCMappingEnhancer.cfg`) | pass | `NonDestructive`: copied lines are exactly the consumed input, in order. The only change is a `type:` rewritten from `If` or `Synthetic`. Every other output line is an inserted token line or a non-empty roles line. `InsertionRespectsEarlierFields`: no field is inserted where one of its kind is already in the block up to the insertion point. `TypeOK`. |
| formatter (`MCSectionFormatter.cfg`) | pass | `HeaderUnique`: exactly one header, first, naming this call's language, whatever headers the input had. `FormatIdempotent`: a second call for the same language returns the same text. `ImplementsAbstract`: the line-by-line filter with its `skip_until_empty` flag, followed by `strip()`, refines `AbstractSectionFormatter`. `TypeOK`. |
| validator (`MCSchemaValidator.cfg`) | pass | `VerdictSound`: "valid" implies a first-line unindented header, a rule, and no invalid type. `TypeIssuesExact`: type issues name exactly the lines with an invalid type, numbered from 1. `TypeOK`. |
| enhancer_own_rule (`MCEnhancerOwnRule.cfg`) | violation | `OwnRuleMetadata`: fields land in the next rule's block with this rule's classification. |
| enhancer_idempotent (`MCEnhancerIdempotent.cfg`) | violation | `Idempotent`: a second run inserts another roles line. |
| enhancer_depth (`MCEnhancerDepth.cfg`) | violation | `InsertedAtDepthOne`: fields are inserted inside a nested `children: (`. |
| validator_roles (`MCValidatorRolesFidelity.cfg`) | violation | `RolesFidelity`: unbracketed roles, as the enhancer writes them, are never checked. |
| driver_error_file (`MCDriverErrorFile.cfg`) | violation | `ErrorLeavesNoFile`: a write that fails after `open(..., 'w')` leaves a truncated map for a language reported as an error. |
| driver_processed_once (`MCDriverProcessedOnce.cfg`) | violation | `ProcessedOnce`: `typescript`, whose cloned grammar holds the typescript and tsx catalogs, is processed twice. Its map keeps whichever catalog os.walk visits last. |
| toolchain (`MCToolchain.cfg`) | pass | Two fetch runs are followed by one consumer, and any clone may fail or be killed. `CopiesAfterCleanRun`: after a run that returns normally, every clone with `src/grammar.json` has its copy, even when an earlier run was killed before copying. `ReportComplete`: the older script reports every directory, partial clones included. `FilesMatchReport`: for the older script, a file written completely belongs to a processed language, and a processed language's file is incomplete only if an error follows. `DriverSkippedIffNoCatalog`: the current driver lists a language as skipped exactly when it has no patterns or no catalog, under every outcome of every catalog and with files left by an earlier run. `BulkMapsComplete`: a bulk run that exits 0 leaves a complete map, from the last catalog, for every directory with `node-types.json`. `ExitZeroIffAllValid`: the validator exits 0 exactly when every provider is valid. `JudgedByOwnGrammar`: a provider whose repository has `src/grammar.json` is judged by it, whether through the copy or the clone. `TypeOK`. |
| benchmark (`MCBenchmarkRunner.cfg`) | pass | `OwnPlotsPresent`: a run that completed, and whose plot script ran to its end, has in `plots/` every plot drawn for its own data, each drawn from its own output. This holds whatever earlier interrupted runs and hand-made plots left in `benchmark_plots/`. |
| fetch_crash (`MCFetchCrash.cfg`) | violation | `PulledMeansCloned`: a grammar clone killed in one run leaves a partial directory. The next run skips the clone because the directory exists, and prints "Pulled grammar for" that entry. |

The enhancer and validator violations were reproduced by running the Python
code on the text that TLC's counterexample describes. The driver and fetch violations
were traced through the code along the path of the counterexample. These are the
truncating `open`, the two catalogs of one cloned grammar, and the existence
test of `ensure_repo_cloned` (line 16). `PROJECT.json` records them as findings. Each
property of a passing run also has a mutant in `PROJECT.json`: a plausible bug
in one mapped definition that makes TLC report the property violated.

Seven more disagreements were found while modelling. Each property is stated in
its module, and TLC reports it violated, but no run is kept for it:
- `NoDuplicateRoles` (MappingEnhancer): a `roles:` field after `type:` is
  duplicated. This has the same cause as the `Idempotent` violation.
- `EnumFidelity` (SchemaValidator): the early structural returns hide invalid
  types. The code follows its own documented order of checks here.
- `RuleLinesSurvive` (SectionFormatter): a rule right after a header line is
  dropped with the old section. This is what spec 4.4 describes, against the
  promise of spec 1.
- `SkippedIffNoCatalog` (LegacyGenerator): the older script lists a language
  whose catalogs all failed as skipped as well as an error. The current
  driver's run checks the same property, and it holds there.
- `PlotsFromOwnRun` (BenchmarkRunner): the README of a results folder
  presents `plots/` as that run's plots, but a plot left in
  `benchmark_plots/` by a hand-made run, or by a run interrupted after its
  plot script, is moved into the next run's folder when that run's plot
  script does not draw the same file (its data lacks that benchmark type, or
  the script stops early). TLC finds this in two runs.
- `CommonToAllLoaded` (BenchmarkRunner): `compare_multiple_runs` promises
  the benchmarks common to all runs, but when two runs share none the
  empty intersection is taken for 'not started' (line 57) and the next
  run's keys start it again. With folders {Parse, DSLQueries},
  {DSLQueries} and {Parse} given in reverse order, Parse is reported as
  compared. `MCBenchmarkCommonKeys.cfg` checks it, and the script itself
  gives the same report on those three folders.
- `ComparisonEndsCleanly` (BenchmarkRunner): the comparison skips a folder
  without `results.json`, but stops with an exception on a
  `results.json` cut short by an interrupted run (line 26) and on a
  benchmark whose earliest run has 0 B/op (line 107), although
  `calculate_volatility` guards a zero mean. Both were reproduced with the
  script.

The type classifier is not checked against a definition of its own. One
written from spec 4.1 uses the same two tables, and no two suffixes of the
table both end one name, so the order of the suffix scan is never tested;
such a check would restate the classifier.

## Bounds and why they are enough

**Enhancer.**
- Drafts have two rule blocks, with or without a header section.
- Rule names are one with type If, one declaration, one unknown name and the empty (malformed) name.
- Draft types are If, Synthetic and Function.
- Body shapes are plain, pre-enhanced, late roles and unterminated.
- The enhancer runs twice.

Two blocks are the least that show interaction between blocks: the block
boundary is found one rule late, and an unterminated block swallows the next
one. The four names cover every branch of `_fix_incorrect_uast_types` and an
empty role list. The violation cfgs use the smallest inputs that show each
behaviour.

**Formatter.** Every content of up to 4 lines over 7 line kinds:
- headers, flush and indented, for a stale language;
- blank lines;
- rule and field lines, flush and indented.

Four lines allow two headers, a blank, and a body line.

**Validator.** Every content of up to 4 lines over 11 line kinds:
- flush and indented headers;
- blank lines, rule lines and close lines;
- type lines, with a valid and an invalid type;
- roles lines, bracketed and unbracketed, with valid roles only or with an invalid one.

**Classifiers.** All 120 exact names and 212 generated names.

**Drivers, violation runs.** The grammars directory of `MCGenerationDriver` has five entries:
- a plain file;
- a registered language with one catalog;
- a registered language with none;
- typescript with two catalogs;
- an unregistered language.

Each catalog may fail the command, fail validation, or fail the write, and the output directory may start with earlier maps. These cover every branch of the loop. Two catalogs under one language are needed for the overwrite, and more catalogs add nothing new.

**Tool chain.** The forest has four entries:
- go, whose repository has `src/grammar.json`, one catalog, and a vendored `grammar.json` deeper in the tree;
- internal, which has no `grammar.json`;
- typescript, with grammars under `typescript/src` and `tsx/src`, two catalogs, and no root `src/grammar.json`;
- zig, which has a root grammar but is not in the language table.

There are two fetch runs. One run is enough to leave a clone partial or uncopied, and the second is the one that finds that clone. There are two providers. go has a null key, which the validator must filter. typescript's verdict depends on which glob match comes first. The generation driver runs on the grammars these clones give, so it meets an absent, a partial and a two-catalog directory, and maps left by an earlier run. Every action of every component fires, and the run has 211,628 distinct states.

**Benchmark.** Up to three runs, each with or without `--no-plots`. The plot script exists or not for the whole behaviour (in this repository it does not, see below). The plot types are Parse and DSLQueries. There are four outputs: both types; Parse with a DSLQueries line the pattern drops (its test case has a '-'); DSLQueries alone, at 0 B/op; and Parse alone, on a line the pattern drops, so nothing is accepted. Two runs are the least that carry a leftover from one run to the next. The third lets a hand-made plot of one run's output reach a later run after an interrupted one, and is the least the comparison's re-seeding needs (two runs sharing nothing, then a third). The comparison properties (`CommonToAllLoaded`, `ComparisonEndsCleanly`) are stated for states where `AllRunsOver` holds: no run is in progress, all `MaxRuns` were started, and no plot exists. This loses no state of the results: any run may be interrupted at any step, a run that fails in `go test` leaves no folder, and the plot steps and `--no-plots` never touch `results.json` or `output.txt`, so every combination of result folders a behaviour can leave is also left by one of these. The run has 3,450,383 distinct states and takes about 40 seconds.

## Fairness, deadlock and liveness

Every script here is sequential and terminates, and nothing runs
concurrently. A finished run is a state with no successor, so every cfg sets
`CHECK_DEADLOCK FALSE`.

No run checks liveness, and none assumes fairness. Every loop of these
scripts runs over a finite listing, a finite `os.walk` or a finite list of
lines, so a model step that advances such a loop always ends it; a property
that every run ends would hold by the shape of the model. The one real way
for a script not to end is an external command that never returns (the
`subprocess.run` calls without a timeout in `gen_uastmaps.py` line 973 and
`generate_all_uastmaps.py` line 24, and `git clone` in `pull_grammars.py` line 17),
and a hang there is outside what the model can say.

The formatter run checks a refinement. `ImplementsAbstract` is
`AbstractFormatter!Spec`, which TLC checks as a temporal property of the
formatter's behaviours.

## Not modelled, and the plan

- **Driver content.** The drivers do not carry the text of a map through Formatter, Enhancer and Validator. The pipeline is checked component by component above, and the drivers see only its verdict.
- **Role and token classifiers.** These need checks against reference definitions from spec 4.2 and 4.3. The token strategy tests identifier-like names before declaration-like ones (line 477), so a name containing both a declaration pattern and `name` would get `self`; no rule name of the supported grammars contains both (`namespace_declaration` matches no declaration pattern), so no run is spent on it.
- **Abstract enhancer.** A specification that inserts the fields per block in one step, with the line scanner shown to refine it on the inputs where the code agrees with it.
- **Report Generator.** This only prints, and is not modelled.
- **Schema loading.** The JSON parsing is not modelled. Its failure is the `SchemaLoadFails` action, which ends the run before any language; spec 7(a) asks for exactly this, so no property is stated about it.
- **Parenthesis cut-off.** `_update_paren_count` (line 695) stops at the first `)` that reaches zero. The block ends at that `)` whatever follows it on the line, so the cut-off changes nothing the enhancer does; no modelled draft has text after such a `)`.
- **Benchmark comparison and plotting.** `benchmark_comparison_multi.py` is modelled up to the trends it computes; its printing, CSV export and trend plot are output only and are not modelled. The trend values are abstracted to which runs they compare; only a zero B/op is kept, for the division at line 107. `benchmark_plot.py` is modelled only by which files it writes, in which order. The runner looks for the plot script at `scripts/benchmark_plot.py` (line 120), but it lives at `scripts/benchmark/benchmark_plot.py`, so in this repository plots are never generated: the model lets the script exist or not. The parse pattern (line 63) drops lines whose test case has a '-', that have no sub-benchmark or `-N` suffix, or that carry a custom metric; the model abstracts a line to whether the pattern accepts it.
- **Script inputs.** The JSON and YAML that the fetch script and the provider validator parse are reduced to the sets of names they yield: which entries have a url, which rules a grammar has, and which keys a provider maps. A `git pull` of an existing clone is commented out in the code, and is not modelled.
- **Glob order.** `validate_providers.py` takes the glob's first match, whose order depends on the file system. The model lets it be any match. No property is stated about which one, because the script makes no promise.
