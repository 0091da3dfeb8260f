# CodeScent: a verification project

CodeScent is a local code-intelligence server. It indexes a repository into
SQLite, runs rule packs over it, keeps a lifecycle for every finding and serves
both to coding agents over MCP, to hooks, to a CLI and to a small dashboard.
This directory holds TLA+ models of it, the TLC configurations that check them
on small instances and TLAPS proofs for every instance.

`PROJECT.json` is the index: components, runs, mutants (a plausible bug for
every property, which TLC must reject), the map from definitions to source
lines, findings, hazards and theorems.

## The system

| component | state it keeps | what is hard | model |
| --- | --- | --- | --- |
| storage lock (`storage/repository.py`) | `ACTIVE_WRITERS`, `ACTIVE_READERS`, one `Condition` per process; SQLite's file locks between processes | threads, waits without timeout, failures between claim and `try` | `StorageLock`, `ReadersWriter` |
| finding lifecycle (`services/code_health.py`, `services/findings.py`, `storage/repositories/findings.py`) | `findings`, `finding_events`, `verification_runs` | scans overlap each other, edits and clients | `FindingLifecycle` |
| index (`services/repo_index.py`) | `files`, symbols, imports, references | hashes read outside the transaction, files read twice | `IndexScan`, `Reindex` |
| scan cache (`services/scan_cache.py`) | `scan_cache.json` | a fingerprint older than the findings under it; a shared temporary file | `IndexScan`, `ScanCacheFile` |
| freshness, bootstrap, hook and watch (`services/freshness.py`, `services/bootstrap.py`, `cli/hooks.py`, `cli/admin.py`) | the hook's stamp file, the debouncer | check-then-touch, edits inside the window, `.codescent` removed under others, a refresh that fails half way | `Reindex` |
| schema (`storage/schema.py`) | `user_version`, `schema_version` | crash and repetition, two engine versions on one file | `Migration` |
| configuration (`services/config.py`, `services/rules.py`) | `config.toml` | unlocked read, truncate, write | `ConfigFile` |
| hook installation (`services/hook_install.py`) | the agent's settings file | other tools' entries, a shared temporary file | `HookInstall` |
| CI ratchet (`services/ci.py`) | `finding_baseline`, `health_baseline`, `baseline_meta` | three tables read on three connections while replaced | `Ratchet` |
| result store, session trail (`services/result_store.py`, `services/session_stats.py`) | `stored_results`, `session_events` | three transactions per retrieval; expiry and clean-up between them | `ResultStore` |
| search (`services/search*.py`, `engine/search/`) | `frecency_signals` | two backends and a fuzzy floor behind one filter; an answer is written down and ranks the next | `Search` |
| graph tools (`services/context.py`, `services/cbm_backend.py`, `services/graph_backend.py`) | none (reads the index) | a backend that fails between two questions of one call; paging | `CodeGraph` |
| answer packs, task briefs | stored rows | several reads composed, a budget to trim to | `ContextPack` |
| finding lists, backlog, plan, resume | none | several reads of a table others write | `Triage` |
| refactoring plans and their verification | `verification_runs` | tree, index, git and findings drift apart between the reads | `RefactorPlan` |
| git facts, calibration (`services/git.py`, `services/calibration.py`) | none | failing git calls read as empty history | `RepoSignals` |
| subjective review | stored opinions | an `await` on the client's model, with consent and findings moving | `SubjectiveReview` |
| search hook (`cli/hooks.py`, `services/search_collapse.py`) | none | a deadline raised as an exception into code that swallows exceptions | `HookAugment` |
| architecture view | none | a fixpoint with a cap; two sources of modules | `Architecture` |
| import cycles, structural duplicates (`engine/rules/`) | none | an iterative Tarjan; a fingerprint that forgets names | `ImportCycles`, `StructuralDuplicates` |

Every service call first runs `initialize_storage` (one write transaction) and
then reads and writes on separate connections, so all components share the
storage lock; hooks, CLI and server are separate processes that share only the
database file and the working tree. A scan indexes (one transaction), analyses
the files, and writes its result (another transaction). `mark_finding` reads on
one connection and writes on another. The tools that answer questions read
tables, git and files one after the other while all this goes on. What can go
wrong between those steps is listed, with its line, under "hazards" in
`PROJECT.json`.

What makes each component correct: *lock* - a process's writer is alone, nobody
waits for a writer that is gone, nobody is refused without cause; *lifecycle* -
status, `resolved_at`, ledger and events agree with each other and with what the
scan found, a person's decision is respected, resolved is earned; *index and
cache* - the incremental result equals the full one for the same tree; *hook,
watch, refresh* - an edit is not forgotten, and a reply does not call an old index
fresh; *files of their own* - a crash or a racing writer loses nothing a person
set; *ratchet* - accepted debt passes; *answers* - what is shown satisfies what was
asked, agrees with the tables it was read from and with the reply's own account
of itself.

## Modules and how they compose

The components meet in three places, and the models are cut there.

- *The write transaction.* `StorageLock` shows that a transaction is alone, may be
  refused and ends; `ReadersWriter` is what it promises, and
  `ImplementsReadersWriter` the refinement. All other modules take a
  transaction as one step that may be refused.
- *The scan.* `FindingLifecycle` and `IndexScan` are two views of one scan, cut at
  the write transaction: `Analyze` is all of `IndexScan` up to `"analyzed"`, and
  `IndexScan`'s `Commit` keeps of `CommitScan` only which text the findings are
  about and their `file_id`. `IndexScan` takes from `ScanCacheFile` that a load
  finds a whole entry or nothing. `Reindex` takes an index call as a read and a
  write and asks who starts one.
- *The tables.* The modules that answer questions take what the others write as
  tables that change between their reads: by edits, index calls, scans, marks,
  commits and backend failures.

`MCUpkeep` composes the parts with a file or table of their own (`ScanCacheFile`,
`HookInstall`, `ConfigFile`, `Migration`, `Ratchet`, `ResultStore`) and `MCAnswers`
those that answer questions; `MCLiveness` puts the lock and the life of a finding into
one run for what must eventually happen. The parts share nothing but the repository, so a
variable `focus` says which part moves, and each is explored to the end with the
others at one initial state; the interleavings of parts without a common variable
would only multiply the states. Initial values are thinned where parts of them
are alike: `weight` starts with no path or with two paths often shown.

`Ordering` holds what they all use: `sorted()` and comprehensions, stated by what the
result satisfies (every element once, in the order; the kept elements in the order
they had) instead of by how it is computed. TLC evaluates the same definitions, and
a proof can reason about them, which the library's definitions by `CHOOSE` over
functions or by recursion do not allow.

### StorageLock

| model | code |
| --- | --- |
| `activeWriters`, `activeReaders[p]` | `ACTIVE_WRITERS`, `ACTIVE_READERS` of process `p` for the one database path |
| `pc[t]`, `depth[t]` | where thread `t` is in a context manager, how many read connections it nests (`list_findings` nests two) |
| `outcome[t]` | how its last call ended: `ok`, `concurrent_write`, another `operational` error, `raised` by the body |
| `ClaimReader`, `ReleaseReader`, `ClaimWriter`, `ReleaseWriter` | `_claim_reader`, `_release_reader`, `_claim_writer`, `_release_writer`; each holds the Condition, so each is one step |
| `wait`, `woken`, `NotifyAll` | `Condition.wait` and `notify_all`; a woken reader re-tests |
| `ReadConnectFails`, `WriteConnectFails` | `_connect` raising between the claim and the `try` |
| `BeginTimesOut`, `CommitTimesOut`, `StatementTimesOut` | `busy_timeout` expiring; enabled only while another holds the lock |

SQLite's SHARED, RESERVED and PENDING locks are external actions.

### FindingLifecycle

| model | code |
| --- | --- |
| `reports`, `directive` | what the rules would report of the files now, per stable key; the ignore comment's line |
| `noise` | the keys that `is_scan_time_suppressed` drops, which their rule and path decide |
| `status`, `resolvedAt`, `evidence` | the columns of `findings`; `"none"` is no row |
| `ledger` | `verification_runs`, each with the body it vouches for (an auxiliary field: the code deletes rows instead) |
| `events` | the `finding_events` rows the last transaction appended |
| `snapshot[s]`, `marking[m]` | findings a scan has computed and not yet written; what `mark_finding` read of the ledger before it writes |
| `Analyze`, `CommitScan`, `RefuseScan`, `AbortScan` | `scan` up to the transaction, the transaction, the transaction `StorageLock` refuses, and the one discarded by a deleted file |
| `Upsert`, `ResolvedAbsent`, `Regressed`, `Stale`, `ScanEvents` | the SQL `CASE`, `_resolved_absent_ids`, `_regressed_ids`, `_invalidate_stale_verifications`, the event inserts |
| `CheckVerification`, `UpdateStatus`, `Mark`, `RecordVerification` | the two connections of `mark_finding(resolved)`, every other mark, `record_verification` |

Evidence is a body and a line: `_verification_fingerprint` keeps the one and
drops the other, so two of each tell an edit from a shift. A stable key has a
sequence of reports, because several code sites can share it. An ignore comment
matches when its line is a line the analysis saw; the comment is read inside the
transaction, after the analysis. `overtaken`, for the properties, holds the markers
whose finding lost its runs to a scan since they read the ledger.

Left out: severity, title, message and the `scan_runs` row; the apply-default flag
is always on, as in every caller but the precision harness; a directive that names
another rule is no directive; a repository with inline suppression off is one
without directives.

### IndexScan

| model | code |
| --- | --- |
| `disk`, `undone` | the working tree, and the files that got back a text whose hash a row, the cache or a call had on record; `Indexed` are the files `build_file_inventory` maps to a language, the others those only the Go and generic packs read |
| `hash`, `graph` | `files.hash`; the text the row's symbols, imports and references were parsed from |
| `cache` | `scan_cache.json`: `key` for the fingerprint, `report` for the text of each file the findings are about |
| `report`, `linked` | the same of the `findings` table, and whether `file_id` is set |
| `seen[c]`, `previous[c]`, `found[c]` | the locals `file_hashes`, `previous_hashes`, `findings` of a call |
| `Inventory`, `LoadHashes`, `Persist` | `index_repo`: first read of the files, read of the stored hashes, write transaction with the second read |
| `PersistFails`, `Refused` | `IntegrityError` on `files.path`, `FileNotFoundError` of the parser, a transaction `StorageLock` refuses |
| `ReadKey`, `Hit`, `Miss`, `RunPacks`, `PacksFail`, `StoreCache` | `scan_rule_packs_cached` |
| `Commit`, `CommitFails` | the transaction of `scan`, and its rollback when a reported file is gone |
| `quiet`, `calm` | for the properties: calls without an edit since they began, or without another index commit since they loaded the hashes |

Every step that opens files takes the tree of that instant, while the code reads
file by file. What a call records of a file depends on its reads of that file
only, and the invariant below is a statement about each file, so it does not
matter which files are read in one step. Any text may come back. Hashes alone decide
what is read again, so a file whose text came back while its old hash was on record
may keep what was read of the other text; the properties hold of all other files, and
`index_scan_warm` shows what happens with these. Changed-source and coverage
findings, which are recomputed in every scan, are left out; git status, config and
engine version in the fingerprint only make a miss possible whenever a hit is.

### Reindex

| model | code |
| --- | --- |
| `AgentEdits`, `ClaimSlot`, `Touch`, `HookIndexes`, `HookRaises` | the PostToolUse hook: the stamp's age is compared, then the stamp is touched, then `index_repo`; what it raises is suppressed |
| `Observe`, `Fires`, `WatchIndexes`, `WatchDies` | a poll of `watch`, `ReindexDebouncer.observe`, the index call, and an error that ends the loop |
| `CallBegins`, `Disabled`, `StatusFresh`, `StatusStale`, `CallIndexes`, `CallRaises`, `Scans`, `StatusAfter` | `ensure_bootstrapped` and `ensure_fresh_index`, each look at the world a step of its own |
| `Reason`, `Confidence`, `Warning`, `Reply` | `_classify`, `FreshnessMetadata`, `next_tools_with_refresh_recovery` |
| `Removes` | a file goes; a repository may hold nothing to index, from the start or from then on |
| `Turn` | `config.toml` changes, `reset` removes `.codescent`, the clock is set back |
| `gap` | for the property: an edit was left to a later trigger, because the slot was taken, an index call failed, or two overlapped |

Time is seconds up to the window. `Crews` says which of hooks, watch and call are
there together.

### Files and tables of their own

- `ScanCacheFile` - `store` as open (truncate), write and rename of one temporary
  name, with full disks, deaths and the `OSError` of a file already renamed; handles
  follow the file through renames.
- `HookInstall` - read, merge or strip, write the temporary file and swap it in,
  while the user edits and another installer works. A group is the sequence of its
  handlers, an event may be no list at all.
- `ConfigFile` - `load`, the version rewrite of `initialize_storage` and
  `save_rule_packs`: an unlocked read, then an open that empties the file, then a
  write. A reader in between sees an empty file, which is the defaults.
- `Migration` - the statements of one transaction: base tables, the version steps,
  reconciliation of columns, backfill, stamp; `RollBack` at any of them. Engines of
  two versions take turns on one database.
- `Ratchet` - `run` reads a scan, the health counts, the accepted row and the
  baseline in that order on connections of their own, `update_baseline` scans and
  then replaces them. `settled` says that nothing changed since the scan the
  baseline was taken from.
- `ResultStore` - `create`, the three transactions of `retrieve` (expiry, row, count),
  what each mode selects, clean-up, the session events and their statistics. An id
  is the tool, the payload and the second, so two calls can collide.

### Answers

- `Search` - a call reads the git state, the records and, for its filter, the git
  state once more, takes rows for each query from the fff engine or the native
  scan, or from the fuzzy floor, ranks them, cuts the window and writes down what it
  showed, one transaction for each query. Filters are the tokens of their grammar as they
  are written (a scheme, an operator, digits, a unit, wildcards, a colon), and
  `Parsed` decides as `_classify` does; whether a path or a line matches one
  pattern is data.
- `CodeGraph` - `SelectBackend` asks once, `PullSymbols` and `PullEdges` fall back
  question by question. The index's table of calls is stated as what the parser
  stores, the rows of cbm as the code derives them. What a query matches is two
  relations: `LikeMatch` for SQL's `like`, to which `_` and `%` are wildcards, and
  `NameMatch` for the substrings Python looks for. `Relates` gives the reasons of a
  related file from imports, tests, directories, shared words and git.
- `ContextPack` - the reads of an answer pack and of a task brief, their caps, the
  order in which a payload over its budget is trimmed, and what was stored before.
- `Triage` - list, gate, next, backlog, plan, progress and resume over findings that
  are marked and rescanned between the reads; a rescan drops the verification runs of
  changed bodies (`dropped` remembers which).
- `RefactorPlan` - preflight, plan, tests, `review_diff_risk`, `verify_refactor` over
  disk, index and HEAD, which edits, commits and index calls move apart. Each read
  may raise out of the tool (`ReadFails`), and so may a scan that is refused or finds a
  file gone, which leaves the index without the rows (`HalfScanned`).
- `ImportCycles` - resolution of absolute and relative imports, Tarjan's walk with its
  explicit stack, one move a step, then for each component the breadth-first search
  of its cycle (`StartTour`, `LookAround`, `CloseTour`), a node a step, and the choice
  of the findings.
- `RepoSignals` - churn, authors, co-change, changed paths since a ref in its two git
  calls, silo findings, quality flags and calibrated confidence.
- `SubjectiveReview` - consent, prompt, the wait, the sampled answer parsed with
  defaults, storage.
- `HookAugment` - the argument parser of the intercepted search, the ranked loop and
  the alarm that may fire at any step of it; `hook.cut` is the file in whose parser it
  fired and was swallowed.
- `Architecture` - label propagation, one file a step; the views cut from its modules;
  the clusters of cbm and their fallback.
- `StructuralDuplicates` - fingerprints (names by first occurrence), groups, the
  capped evidence, one function a step; a syntax tree is a sequence of nodes of
  which some are names.

## Runs

| run | bounds | shows |
| --- | --- | --- |
| `storage_lock` | two threads of the server, one of a hook, two nested reads, at most 3 claims | a writer is alone, no wake-up is lost, a commit meets no reader of its process, and the refinement |
| `liveness` | the lock without nesting and with connects that succeed; a finding that the noise gate drops or not, two scanners, a client that reopens | a refusal has a cause, nobody hangs; the status keeps catching up with the files; no deadlock |
| `storage_lock_leak` | one connect may fail | violated: see Findings |
| `finding_lifecycle` | one key at one or two sites, two scanners, one marker, two bodies, two lines, one edit | rows, ledger and events agree through overlapping scans |
| `finding_lifecycle_race` | one scanner, one marker | violated: see Findings |
| `index_scan` | a Python and a Go file, a scan and a full rebuild, three edits | rows, warm scans and undisturbed scans are those of a full one |
| `index_scan_warm` | one Python file, one scanner, three edits | violated: see Findings |
| `index_scan_live` | one file, a scanner and an edit hook, two edits, failures | index, findings and their link reach a tree that rests, of the files not undone |
| `reindex` | one file that may be missing, two hooks, watch and a call, a window of two seconds, two edits, one turn | replies are true, hooks leave no gap, watch catches up |
| `upkeep` | six parts, two or three writers each | crash safety, no lost settings, accepted debt, honest retrieval |
| `answers` | eleven parts, one or two callers each, one to four moves of the world | honest filters, exact graph answers, packs, lists, verdicts, cycles, history, opinions, modules, duplicates |
| `hook_deadline` | rankings of a few files, a budget of three steps | violated: see Findings |

Why the bounds are enough. Three threads are the least that let a writer meet a
reader of its own process while another process holds SQLite's locks; two nested
connections are what the code does, and `MaxClaims` stops a leaking count. Findings
influence each other only by being in one analysis, so one key is enough, but the sites
of a key do, so there are two; the trees start arbitrary, and one edit then lets an
older scan commit after a newer one, two bodies and two lines tell what it changed.
`index_scan` has one file of each kind the fingerprint joins, two index transactions
of either kind and enough edits to create, change, undo and delete a file between any
two reads. In `reindex` the second hook is what a claimed slot turns away, the second
edit what the first one's run no longer covers. In `upkeep` a third writer of the
cache is needed to rename below two others, two engine versions and four openings
are what it takes to go up, back and up again, and two sites with one key are the
counts that a baseline confuses first, in a file without a row in the index; a second
handler of others gives order something to mean. In `answers` every list is longer than the
window or page it is cut to, every cap is exceeded, every backend state occurs, and
the world moves at least once between any two reads of a call; the bound on the passes
of label propagation is two instead of ten, so that the imports of five files reach it.

`CHECK_DEADLOCK FALSE` stands where the system may really stop: the callers of the
bounded worlds run out of calls, and in `storage_lock` a leaked writer claim leaves
every reader waiting.

### Fairness

- `StorageLock`: a thread inside a context manager keeps running (weak), and a reader
  that can leave eventually does (strong: a body runs finitely many statements and
  each may interrupt the chance to leave). Nothing is assumed about entering.
- `FindingLifecycle`: a client keeps rescanning and calls that began end (weak), and the
  transaction of a scan is not refused for ever (strong on `CommitScan`), since whoever
  holds the lock ends; without rescans nothing in the code reconciles, and the property
  says no more.
- `IndexScan`: a call that began goes on (weak), somebody keeps scanning (weak), and a
  transaction is not refused for ever (strong on `Persist` and `Commit`), since
  whoever holds the lock ends (`NobodyHangs`). A client that rebuilds for ever
  would keep unlinking the findings, so this run has none.
- `Reindex`: the watch loop polls, hooks end and time passes (weak). Nobody has to edit,
  to call a tool or to change the configuration.

## Findings

- **A failed connect leaks the claim** (`storage_lock_leak`). `_connect` runs
  between the claim and the `try`. If it raises, for instance because
  `reset` removed `.codescent`, the claim is never released: later writers of the
  process are refused with "Another CodeScent write transaction is already active."
  and, after a writer's leak, readers wait forever.
- **A resolution outlives its verification** (`finding_lifecycle_race`). A scan
  that commits between the two connections of `mark_finding` deletes the
  verification because the body changed; the finding is marked resolved all the
  same.
- **A warm scan is not the cold one** (`index_scan_warm`). The cache is stored under
  hashes taken before the packs read the files. An edit that the packs see and that is
  undone before the next scan leaves the findings of the other text under the
  fingerprint of the tree as it is; they are served until a file changes, although "a
  warm scan is byte-identical to a cold one for the same repo state"
  (`scan_cache.py:7`).
- **The search hook outlives its deadline** (`hook_deadline`). The alarm raises
  `TimeoutError`, which is an `OSError`; while a ranked file is parsed it lands in
  `except (OSError, UnicodeDecodeError, ValueError)`, the loop goes on to the next
  file, and the timer does not fire again.

### Known deviations

Where the code does less than a name, a comment or a test might suggest, the models
follow the code, and the properties name them as their exceptions. Some can be seen by
checking a definition that no run lists, named in parentheses.

*Index, findings and files.*
- Two sites with one stable key and different bodies make every rescan of unchanged
  files delete the verification, although a run is dropped when the "body changed
  since last scan" (`Twins`; `code_health.py:488`).
- A new row, the end of a suppression and the noise gate change a status without an
  event (`Silent`).
- A row keeps the hash of the first read and the graph of the second; after an undo
  between them the hash matches and no incremental index parses the file again
  (`undone`; `repo_index.py:89`, `:150`). A full rebuild does.
- Where nothing is to be indexed, the first look at the status makes the database, the
  index counts as fresh, and the reply says 'created' by init, index and scan although
  no scan ran (`call.bare`; `bootstrap.py:74`); so it does when another process makes the
  index meanwhile (`call.overtaken`).
- The baseline records the counts of indexed files only (`ci.py:206`), so a finding of
  the Go or the generic pack lists its file as regressed in every gate (`ci.py:395`),
  accepted or not; the exit status does not depend on that list.
- Indexing an edited file deletes its row, the foreign key nulls
  `findings.file_id`, and `quality_flags_for_paths` joins on it: flags of the files
  just edited vanish until the next scan (`FindingsReachFiles`).
- An edit whose hook was turned away by the slot waits for the next trigger, and a
  watch whose index call raises ends (`gap`, `WatchDies`).
- Two overlapping rewrites of `config.toml` lose a setting, and a reader between
  truncate and write sees the defaults (`torn`); two overlapping stores of the scan
  cache can leave a mix (`overlap`); an installer undoes what others wrote since its
  read (`current`).
- `list_findings` reads events on a nested connection, after another process may have
  committed.
- `--update-baseline` ends in an `IntegrityError`, with the exit status of a failed
  gate, when two ratcheted findings share one stable key, which is unique in
  `finding_baseline` (`AcceptSucceeds`; `ci.py:220-241`, `cli/reporting.py:271`).

*Search.*
- A page in count or partial mode does not tell that more than the 20 ranked rows
  matched (`mcp/search_tools.py:462`).
- Showing a page records it, and the record ranks the next page.
- The wheel's client answers with nothing where it fails, so the native floor the
  module head of `search_run.py` promises does not run.
- `multi_search_content` takes its limit unclamped, from the end when negative.
- A search whose record meets a running write transaction fails, though it has
  its rows.
- A token with an unknown scheme and a wildcard, as `lang:*.py`, is taken as a glob
  over the path, without the warning that the comment beside it promises (`Stray`;
  `constraints.py:206-219`).
- Relative imports of `_persisted_related_reason_map` are compared without their
  dots, so a sibling imported as `.auth` is not a related file for it.

*Graph tools.*
- A cbm that fails between its symbols and its edges mixes the two indexes in one
  answer; its clusters' fallback is still labelled cbm with 0.9
  (`cbm_backend.py:212-230`, `architecture.py:84-88`).
- `get_file_context` does not clamp its cursor.
- In a query, `_` and `%` are wildcards to the index (`like`,
  `context_support.py:251`) and letters to the rows of cbm and to the fallback
  (`context.py:447`), so the same question may have different answers.

*Reports and plans.*
- A stored collection is offered whole but a retrieval is capped
  (`FullCollectionReachable`; `mcp/finding_payloads.py:289`); an answer can offer
  `retrieval_available` without an id (`core/symbol_formatter.py`).
- The resume brief names the tools of the oldest listed events
  (`RecentToolsAreRecent`), and the next improvement may be none while findings are
  open (`NextWhenOpen`).
- `verify_refactor` compares with what git shows, and says preserved when git cannot
  show it (`VerdictIsProved`; `verify_refactor.py:128-137`, `git.py:242-263`).
- A rule's base confidence is that of its first finding in an order by status, so
  verdicts below the sample size can change it (`ColdStartUnchanged`).
- `_cluster_deprioritized` looks at the first ten files of a cluster, so a larger one
  can be set aside as one of tests although other files are in it, against "Keeps
  this plan's top item aligned with get_next_improvement instead of proposing a test
  split (R5)" (`improvement_plan.py:167-175`, whose files `_cluster` cuts to `_MEMBER_LIMIT`).
- `review_diff_risk` fails on a changed file that is not indexed, and reviews the first
  20 changed files without saying so (`risk.py:22`, `:163`); a preflight may mix two
  generations of the index.
- A preflight fails as a whole where `git log` or `git show` outlives its timeout
  (`git.py:288-315`) or the scan it starts is refused or misses a file.
- A verification that a brief advises to act on may be dropped by a scan before anybody
  does (`dropped`).
- A failing status pass drops untracked files from `git_changed_paths_since`, a
  timed-out log makes `git_author_churn` empty and so resolves silo findings.
- The two readings of the quality flags differ while a row waits for its file, and on
  hotspots when git fails or newer commits fill the log (`FlagsAgree`).
- Import levels beyond the root resolve from the root.
- `rg foo -e bar` is enriched for `foo`.
- An alarm that the parser swallows leaves the hits of that file at module level, where
  its import lines show (`search_collapse.py:102`).
- Label propagation moves one file a pass along a chain of imports against the path
  order, so its ten passes cut longer ones off and some label is not dominant (`CutOff`).
- Consent that is withdrawn while the model answers does not stop the storage of the
  opinion.

## Proofs

| module | theorems | property |
| --- | --- | --- |
| `StorageLock_proofs` | `TypeCorrect`, `WriterAlone`, `Counted`, `WakeupKept`, `CommitIsolated`, `RefinesReadersWriter`; `RefusalsHaveCause`, `WaitersHaveWriter` (no connect fails) | `TypeOK`, `WriterRunsAlone`, `ReadersCounted`, `NoLostWakeup`, `CommitSeenByNoReader`, `ImplementsReadersWriter`, `RefusalHasCause` |
| `FindingLifecycle_proofs` | `LifecycleTyped`, `ResolvedAtKept`, `LedgerCurrent`, `ScansReconcile`, `TriageKept`, `EventsComplete`, `RescanNoOp`, `ResolutionIsEarned`, `LedgerStaysAttached` | `TypeOK`, `ResolvedAtIffResolved`, `LedgerMatchesEvidence`, `ScanReconciles`, `TriageSurvivesScan`, `EventsMatchTransitions`, `RescanIsIdempotent`, `OnlyOvertakenIsUnearned`, `LedgerDropsOnlyOnBodyChange` |
| `IndexScan_proofs` | `TypeCorrect`, `RowsExact`, `WarmIsCold`, `QuietScanExact`, `QuietIndexExact` | `TypeOK`, `FreshRowsAreExact`, `WarmScanIsCold`, `QuietScanIsExact`, `QuietIndexIsExact` |
| `Reindex_proofs` | `RepliesAreTrue`, `HooksLeaveNoGap` | `ReplyIsTrue`, `HookLeavesNoGap` |
| `Upkeep_proofs` | `CacheTyped`, `CacheNotPoisoned`, `SoloStoresLand`, `InstallsKeepOthers`, `SettingsSurvive`, `MigrationsAreWhole`, `DebtPasses`, `TrailMatches`, `RetrievalHonest` | `TypeOK`, `CrashDoesNotPoison`, `SoloStoreLands`, `InstallKeepsOthers`, `SettingsKept`, `MigrationIsWhole`, `AcceptedDebtPasses`, `TrailMatchesStore`, `RetrievalIsHonest` |
| `Answers_proofs` | `OpinionsOfPrompts`, `VerdictsMoveRight`, `ChangedSinceComplete`, `FlagsAgreement`, `HistoryRead`, `ReportsAreWhole`, `AdviceIsConsistent`, `ComponentsExact`, `CyclesExact`, `EnrichmentRanked`, `GroupsAreExact`, `SettledModules` | `OpinionsAreOfTheirPrompt`, `VerdictsMoveConfidence`, `HistoryIsReadRight` with its parts, `ChangeReportsAreWhole`, `TriageIsConsistent`, `CyclesAreExact` with its first part, `EnrichmentIsRanked`, `DuplicatesAreExact`, `ModulesAreSettled` |
| `Retrieval_proofs` | `PacksAreHonest`, `GraphIsExact`, `FiltersHold`, `RepeatKeeps` | `PackIsHonest`, `GraphAnswersAreExact`, `FilterIsHonest`, `RepeatKeepsWindow` |
| `Ordering_proofs` | lemmas the last three rest on | |

*Lock.* Mutual exclusion rests on counting: a writer is admitted only when
`ACTIVE_READERS` is zero, so no reader may be open that the count misses, while
`_release_reader` pops the entry at `<= 1`. The invariant therefore carries
`ReadersCounted` (the count is at least the number of open read connections, as a
cardinality), that a thread's place matches its depth, that a thread in a
transaction is registered, and that it is the only one. A leaked claim keeps the
inequality, which is why it is not an equality. `NoLostWakeup` follows since
every step that unregisters the writer wakes every waiter of the process. Where no
connect fails, nothing leaks: the count is the number of claims (`ReadersExact`) and
a registered writer is one in a transaction, so a refusal names a thread that is
there, and a waiting reader waits for one that runs.

*Lifecycle.* `ResolvedAtIffResolved` is inductive by itself.
`LedgerMatchesEvidence` needs that a finding without a row has no ledger (the
scan that inserts a row compares no fingerprint), and rows need that a marker in
the middle of its call checked a finding that has one. `LedgerStaysAttached` also has
to tell the sites of a key apart: the scan compares each with the row as it was, and only
when all have the body of the row does it drop nothing. The action properties
follow from this invariant at each scan. `ResolutionIsEarned` adds that what a
marker read still holds unless it was overtaken.

*Index and scan.* Hashes are compared long after they were taken. A hash on record, in
a row, in a call or in the cache, that differs from the file now can only become the
file's by an edit that brings its text back, and that edit puts the file into `undone`;
which is why no other edit makes the premise of `FreshRowsAreExact` or `WarmScanIsCold`
true again. At `Persist`, either the file still has the hashed text, and the second
read is of the same text, or the row does not match. `FoundExact` is the same argument
for what a scan is about to store, and `QuietExact` and `CalmExact` say that an
undisturbed call still holds the tree and the stored hashes.

*Cache file.* A writer that overlaps no other is the only one with the temporary
file open, so the file is empty, then whole; `HandlesOpen` keeps the others' files
apart.

*Hooks and replies.* That the index is the tree when no hook is under way is not
inductive: between an edit and its hook's commit it is not. `GapKnown` says who
makes up for it. A run is calm while nobody else has committed and no edit was
left behind since it read; a calm run knows the index, and the tree unless some
hook is under way that began after it (`CalmRuns`). So as long as no gap was
noted the index is the tree or some hook covers it: one that has not read yet, or
one that read the tree as it is, or one that is no longer calm and will end in a
gap (`Covers`). When the last hook under way commits, it is itself the one that
covers. `CallKnown` ties what a call has done to its place and to what it read of
the configuration, unless something overtook it.

*Hook settings.* A filtered list is its places kept, and a list of groups is flattened by
pairs of places in lexicographic order. Stripping keeps a handler exactly when it is
foreign, and its place moves down with those before it, so the places of the foreign
handlers before and after correspond in order, and lists whose places do hold the
same handlers. The invariant says what a run still holds of the file: a copy in
`current` is the file as it is, and a temporary file holds what its writer made of
its copy.

*Configuration.* While no two callers overlapped and none broke off, at most one is
between its read and its write (`Alone`), and the settings are in the file until
that one empties it, and then in what it holds (`Kept`).

*Migration.* The committed database has every step up to its version, whichever of
its two places states it (`Sound`); the open transaction has done at each place what
stands before it and has undone nothing of the committed one (`Underway`). A
rollback then has nothing to prove, and a commit hands the one over to the other.

*Ratchet.* As long as nothing changed, the three tables are those of one scan
(`TablesSettled`), and a gate that began and stayed undisturbed has read those of its
own (`GateSettled`); then no finding is new or worse, and a count of a part is at
most the count of all, which is a fact about cardinalities.

*Result store.* `StoreInv` says that a row's count is what the trail tells of it, plus the
retrievals between their count and their event, plus those whose event failed. That
a new row starts at zero needs that its id was never retrieved (`Untouched`): an
id carries the second of its creation, the second of a removed row's id has
passed, and `reset`, which takes the trail with it, takes time. A client's
events are at most the transactions it made (`TrailCovered`). An answer holds
elements of the stored collection by what each mode selects; that a sample has no
element twice is a lemma on rounding (the places of a sample are at least one apart).

*Reviews, history, flags.* An opinion's prompt is carried from the consent to the storage
(`ReviewInv`). A verdict moves one count by one, and a share grows with its
numerator under integer division too; the base confidence is the first row's in the
order, which the invariant pins to one finding. `HistoryInv` says what the first git
call left for the second. `FlagsInv` says of the reading that is kept that it has every
flag of its rows but the hotspots whose path no commit of its log touches; the second
reading is the same of the tables as they are now, so two that differ differ in rows or
in commits.

*Log.* The text of a log is the lines of its commits chained. Reading the lines of one
commit closes the commit before it and leaves exactly its paths pending, by
induction over its lines (`CommitIsRead`); so after the lines of the first k commits the
counts are cardinalities of sets of commits (`LogIsCounted`), by induction over the
commits. When every commit touches a tracked path, the commits of the log are the
last of the history in reverse, and a set of places has as many elements as its
mirror image. A share of four in five leaves the others at most a fifth.

*Changes.* `PlanInv` has one conjunct per place of a call: what a preflight has gathered so
far (`PreflightSoFar`) and what a review has (`ReviewSoFar`). The order of a plan's
steps is lexicographic, and the rank of each step a lemma of its own.

*Triage.* That the views agree is a fact about every state of the tables: clusters
partition the planned findings, `ClusterBefore` and the order of the list are strict
orders, the next improvement is the first of one, and a name stands for one finding.
Only the resume brief reads more than once, so only it needs an invariant
(`ResumeInv`): a run it has counted is in the ledger or was dropped by a scan since.

*Packs.* Trimming drops the last entry of the first list that has one until the payload
fits. That the number of drops exists, that what is left of each list is a prefix,
and that earlier lists are empty before a later one is cut, go by induction on the
number of drops; an entry costs at most two units, so what is left misses the budget
by no more than an entry. `DraftInv` says that a draft is what the reads so far gave.

*Graph.* Rows are in a strict order since there is one per site; a page is a slice, and the
pages of an unchanged listing join to it (`SliceIs`, `PagesJoin`). `SteadyInv` is about
the listing whose pages are being asked for, `SymbolInv` about the backend that
answers: the rows a fallback gives are those of the index.

*Duplicates.* Two occurrences have one number exactly when the names' first places are
the same, so two fingerprints are equal exactly when one tree is the other with
its names renamed. A group counts its members and keeps as many places as it may.

*Import cycles.* The invariant of Tarjan's walk (`CyclesInv`): a file at work
reaches every open file with a number from its own on (`NodesReach`), and each open
file reaches one at work that was numbered no later (`StackReaches`); a low link is
the number of an open file that is reached (`LowIsReached`) and no larger than that
of any looked at (`LowIsLow`); what is closed off imports nothing else
(`ClosedStays`). So when a file keeps its own number, what is above it is closed
under imports up to closed components and reaches back to it, which is its
component. "Reaches" is membership in every set that is closed under imports, so
that both directions go by exhibiting a set. For a cycle (`ToursInv`): the lengths
of the walks in the queue never decrease, and what has been looked at has its
successors in the queue, one step further on. A shorter closed walk would have its
last node in the queue earlier, by induction along it, and the queue cannot run out,
since the members reach the first.

*Modules.* A pass that moves no file has visited each with the labels as they were,
so each label is dominant among the neighbours' (`LabelsDominate`); propagation ends
with such a pass or with the last one the bound allows (`CutOff`). The modules are
one per label, in the order of their sizes, so that those left out are no larger
(`CommunitiesOnce`).

*Search hook.* The hook holds the chained matches of the files it has passed
(`AugmentInv`), the one whose parse the alarm cut at module level. Fewer lists are the
beginning of more
(`ChainedGrows`), so where it stops, its first matches are the first of all; trimming
takes the largest head that fits.

*Search.* A window is the foremost rows of a strict order. Recording a window moves the
weights of its own paths up, so what was foremost stays so: `RepeatHold` says that a
native answer about to be recorded is the top of the world as it is. `FilterHold`
says that every row, on whichever route it was found, is one the filter allows, with
the git state seen at some instant of the call. The proof showed that the property
could not hold of a caller whose next call was under way, since the reply is still
the last one; it is stated of idle callers. `FiltersHold` has one hypothesis,
`GrammarIsKept`: what the parser makes of a token of the grammar, or of a stray one,
keeps no path that the token does not. TLC evaluates it on the tokens of the runs, which
are of every scheme (`MCGrammar`).

*Ordering.* A sorted sequence is the bijection that gives each element its rank, which
exists and is unique for a strict order on a finite set. Induction is over the
natural numbers, from their well-foundedness on sets of naturals, because the
library's induction theorems take an operator. Running sums and iterations are
recursive functions.

Small idealisations that the proofs made explicit: definitions of one name that start on
one line of one file are ordered the same way by both backends, and the functions of a
file start on distinct lines.

The assumptions are the named `ASSUME`s: sets of threads, sites and files are finite
or not empty where a proof needs it, bounds are numbers, and the values that stand
for "none" are not values. TLC evaluates them in the runs.

Only model-checked:

- liveness (`NobodyHangs`, `EventuallyReconciled`, `EventuallyUpToDate`,
  `WatchCatchesUp`), which is out of the prover's reach; of `NobodyHangs`, that a
  waiting reader has a live writer to wait for is `WaitersHaveWriter`;
- `GrammarIsKept`, the hypothesis of `FiltersHold`, on the filters of the run.

## Plan

Done: everything in the table above. Next, the most important first:

1. A refinement of `ResultStore` to a store whose retrieval is atomic, as far as
   its counts allow.
2. The coverage join and the dead-code rule as modules of `answers`.

## Not modelled

- The rule packs and parsers, apart from import cycles and structural duplicates:
  pure functions of the text, whose results are inputs of `FindingLifecycle` and
  `IndexScan`.
- Coverage reports: one format read and joined with the symbols.
- Reports, SARIF, guides, precision measurements and the evaluation harness: they
  format or measure what the modelled components store.
- The MCP server's argument checks and its error boundary, and the dashboard: their
  calls arrive as the clients of the modelled components and their threads as
  those of `StorageLock`.
- Of the modelled parts: wording, payload layout, token estimates, which files the
  inventory excludes, the matching of a pattern with a line, the risk weights, and
  the subprocess protocols of git, cbm and fff, which are data.
