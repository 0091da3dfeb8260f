------------------------------- MODULE IndexScan -------------------------------
(***************************************************************************)
(* Indexing and scanning a working tree that is edited meanwhile:          *)
(* services/repo_index.py (index_repo), services/scan_cache.py and the     *)
(* analysis half of services/code_health.py (scan, scan_rule_packs_cached).*)
(* A call reads every file to hash it, reads the stored hashes on another  *)
(* connection, reads the changed files again to parse them inside the      *)
(* write transaction, and a scan reads them all once more in the packs.    *)
(* The content hash stands for the text in the index and in the cache key. *)
(*                                                                         *)
(* Each step reads the whole tree at once; the code reads file by file.    *)
(* What a call records of a file depends on its reads of that file, and    *)
(* the properties hold file by file (IndexScan_proofs), so it does not     *)
(* matter to them which files one step reads together.                     *)
(***************************************************************************)
EXTENDS Naturals

CONSTANTS
    Path,          \* the files that rule packs read
    Indexed,       \* those the language inventory maps; the rest are Go and generic files
    Version,       \* what the text of a file can be
    Absent,        \* the text of a file, or the row, that does not exist
    NoCache,       \* no scan_cache.json
    Hooks,         \* clients of index_repo(): hook_reindex, watch, index
    Rebuilders,    \* clients of index_repo(full=True)
    Scanners,      \* clients of CodeHealthService.scan
    MaxEdits       \* bound: edits of the working tree

Text == Version \cup {Absent}
Tree == [Path -> Text]
Blank == [p \in Path |-> Absent]
Callers == Hooks \cup Rebuilders \cup Scanners

ASSUME PathAssumption == Indexed \subseteq Path
ASSUME TextAssumption == Absent \notin Version
ASSUME CacheAssumption == NoCache \notin [key : Tree, report : Tree]
ASSUME CallerAssumption ==
    Hooks \cap Scanners = {} /\ Hooks \cap Rebuilders = {} /\ Rebuilders \cap Scanners = {}
ASSUME EditAssumption == MaxEdits \in Nat

VARIABLES
    disk,       \* the working tree
    undone,     \* the files that got back a text whose hash was still on record
    edits,      \* how often the tree was edited
    hash,       \* files.hash; Absent when there is no row
    graph,      \* the text whose symbols, imports and references the row owns
    cache,      \* scan_cache.json: the hashes fingerprinted, the findings stored
    report,     \* the text of each file that its stored findings are about
    linked,     \* the files whose findings have a file_id
    pc,         \* where each caller is
    seen,       \* the hashes a caller computed
    previous,   \* the hashes it loaded from files
    found,      \* the texts the packs analysed for it
    quiet,      \* the callers since whose start nobody edited the tree
    calm        \* the callers since whose load of the hashes no other index committed

tree == <<disk, undone, edits>>
index == <<hash, graph>>
findings == <<report, linked>>
locals == <<pc, seen, previous, found>>
vars == <<tree, index, cache, findings, locals, quiet, calm>>

Pc == {"idle", "inventoried", "loaded", "persisted", "keyed", "missed", "computed",
       "analyzed"}

Init ==
    /\ disk \in Tree
    /\ undone = {}
    /\ edits = 0
    /\ hash = Blank
    /\ graph = Blank
    /\ cache = NoCache
    /\ report = Blank
    /\ linked = {}
    /\ pc = [c \in Callers |-> "idle"]
    /\ seen = [c \in Callers |-> Blank]
    /\ previous = [c \in Callers |-> Blank]
    /\ found = [c \in Callers |-> Blank]
    /\ quiet = Callers
    /\ calm = Callers

-----------------------------------------------------------------------------
(* The working tree *)

\* A row, the cache or a call under way holds the hash of this text.
OnRecord(p, text) ==
    \/ hash[p] = text
    \/ cache # NoCache /\ cache.key[p] = text
    \/ \E c \in Callers : pc[c] # "idle" /\ seen[c][p] = text

\* Someone writes, creates or deletes a file, or undoes that.
Edit(p, text) ==
    /\ edits < MaxEdits
    /\ text # disk[p]
    /\ disk' = [disk EXCEPT ![p] = text]
    /\ undone' = IF OnRecord(p, text) THEN undone \cup {p} ELSE undone
    /\ edits' = edits + 1
    /\ quiet' = {c \in quiet : pc[c] = "idle"}
    /\ UNCHANGED <<index, cache, findings, locals, calm>>

-----------------------------------------------------------------------------
(* RepoIndexService.index_repo *)

Goto(c, place) == pc' = [pc EXCEPT ![c] = place]

\* The call returns or raises; its local variables are gone.
Return(c) ==
    /\ Goto(c, "idle")
    /\ seen' = [seen EXCEPT ![c] = Blank]
    /\ previous' = [previous EXCEPT ![c] = Blank]
    /\ found' = [found EXCEPT ![c] = Blank]
    /\ quiet' = quiet \cup {c}

\* build_file_inventory hashes the files it maps to a language.
Inventory(c) ==
    /\ pc[c] = "idle"
    /\ Goto(c, "inventoried")
    /\ seen' = [seen EXCEPT ![c] = [p \in Path |-> IF p \in Indexed THEN disk[p] ELSE Absent]]
    /\ UNCHANGED <<tree, index, cache, findings, previous, found, quiet, calm>>

\* _load_hashes, on a connection of its own.
LoadHashes(c) ==
    /\ pc[c] = "inventoried"
    /\ Goto(c, "loaded")
    /\ previous' = [previous EXCEPT ![c] = hash]
    /\ UNCHANGED <<tree, index, cache, findings, seen, found, quiet, calm>>

Changed(c) == {p \in Indexed : previous[c][p] # seen[c][p]}

\* The rows the transaction deletes and the files it inserts again.
Removed(c) ==
    IF c \in Rebuilders THEN Indexed ELSE {p \in Changed(c) : previous[c][p] # Absent}

ToIndex(c) ==
    {p \in Indexed : seen[c][p] # Absent /\ (c \in Rebuilders \/ p \in Changed(c))}

\* files.path is unique: another caller inserted a file this one takes for new.
Collides(c) == \E p \in ToIndex(c) \ Removed(c) : hash[p] # Absent

\* The parser opens a file that was deleted after the inventory.
Vanished(c) == \E p \in ToIndex(c) : disk[p] = Absent

HashAfter(c) ==
    [p \in Path |-> IF p \in ToIndex(c) THEN seen[c][p]
                    ELSE IF p \in Removed(c) THEN Absent ELSE hash[p]]

\* Mutant of GraphAfter: a modified file's row is updated with its graph kept.
GraphOfFirstInsert(c) ==
    [p \in Path |-> IF p \in ToIndex(c) /\ graph[p] = Absent THEN disk[p]
                    ELSE IF p \in Removed(c) \ ToIndex(c) THEN Absent ELSE graph[p]]

\* The parser reads each changed file again, inside the transaction.
GraphAfter(c) ==
    [p \in Path |-> IF p \in ToIndex(c) THEN disk[p]
                    ELSE IF p \in Removed(c) THEN Absent ELSE graph[p]]

\* The write transaction: deleting a row takes its graph along and sets the
\* file_id of its findings to null.
Persist(c) ==
    /\ pc[c] = "loaded"
    /\ ~Collides(c) /\ ~Vanished(c)
    /\ hash' = HashAfter(c)
    /\ graph' = GraphAfter(c)
    /\ linked' = linked \ Removed(c)
    /\ calm' = {d \in calm : pc[d] # "loaded"} \cup {c}
    /\ IF c \in Scanners
       THEN /\ Goto(c, "persisted")
            /\ previous' = [previous EXCEPT ![c] = Blank]
            /\ UNCHANGED <<seen, found, quiet>>
       ELSE Return(c)
    /\ UNCHANGED <<tree, cache, report>>

\* IntegrityError or FileNotFoundError: the transaction rolls back, the call raises.
PersistFails(c) ==
    /\ pc[c] = "loaded"
    /\ Collides(c) \/ Vanished(c)
    /\ Return(c)
    /\ calm' = calm \cup {c}
    /\ UNCHANGED <<tree, index, cache, findings>>

\* The claim, BEGIN IMMEDIATE or COMMIT is refused (StorageLock).
Refused(c) ==
    /\ pc[c] \in {"loaded", "analyzed"}
    /\ Return(c)
    /\ calm' = calm \cup {c}
    /\ UNCHANGED <<tree, index, cache, findings>>

-----------------------------------------------------------------------------
(* scan_rule_packs_cached *)

\* pack_input_hashes adds the files the inventory does not map; the fingerprint
\* is the hash of both.
ReadKey(c) ==
    /\ pc[c] = "persisted"
    /\ Goto(c, "keyed")
    /\ seen' = [seen EXCEPT ![c] = [p \in Path |-> IF p \in Indexed THEN @[p] ELSE disk[p]]]
    /\ UNCHANGED <<tree, index, cache, findings, previous, found, quiet, calm>>

\* Mutant of Hit: only the files of the inventory are compared.
HitOnSameInventory(c) ==
    /\ pc[c] = "keyed"
    /\ cache # NoCache /\ \A p \in Indexed : cache.key[p] = seen[c][p]
    /\ Goto(c, "analyzed")
    /\ found' = [found EXCEPT ![c] = cache.report]
    /\ UNCHANGED <<tree, index, cache, findings, seen, previous, quiet, calm>>

\* The cached findings are reused and no rule runs.
Hit(c) ==
    /\ pc[c] = "keyed"
    /\ cache # NoCache /\ cache.key = seen[c]
    /\ Goto(c, "analyzed")
    /\ found' = [found EXCEPT ![c] = cache.report]
    /\ UNCHANGED <<tree, index, cache, findings, seen, previous, quiet, calm>>

\* Another fingerprint; or the same files under another git status, config or
\* engine version, which are not modelled; or an unreadable file (ScanCacheFile).
Miss(c) ==
    /\ pc[c] = "keyed"
    /\ Goto(c, "missed")
    /\ UNCHANGED <<tree, index, cache, findings, seen, previous, found, quiet, calm>>

\* run_rule_packs reads the files once more.
RunPacks(c) ==
    /\ pc[c] = "missed"
    /\ Goto(c, "computed")
    /\ found' = [found EXCEPT ![c] = disk]
    /\ UNCHANGED <<tree, index, cache, findings, seen, previous, quiet, calm>>

\* A file deleted while the packs run makes one of them raise.
PacksFail(c) ==
    /\ pc[c] = "missed"
    /\ \E p \in Path : seen[c][p] # Absent /\ disk[p] = Absent
    /\ Return(c)
    /\ calm' = calm \cup {c}
    /\ UNCHANGED <<tree, index, cache, findings>>

\* Mutant of StoreCache: the fingerprint is taken again when the findings are stored.
StoreCacheRekeyed(c) ==
    /\ pc[c] = "computed"
    /\ Goto(c, "analyzed")
    /\ cache' \in {[key |-> disk, report |-> found[c]], cache}
    /\ UNCHANGED <<tree, index, findings, seen, previous, found, quiet, calm>>

\* ScanCache.store: a write that fails is logged, and the scan goes on.
StoreCache(c) ==
    /\ pc[c] = "computed"
    /\ Goto(c, "analyzed")
    /\ cache' \in {[key |-> seen[c], report |-> found[c]], cache}
    /\ UNCHANGED <<tree, index, findings, seen, previous, found, quiet, calm>>

-----------------------------------------------------------------------------
(* The transaction of CodeHealthService.scan, as far as FindingLifecycle does *)
(* not go into it: which text the findings are about, and their file_id.      *)

\* Mutant of Linked: the upsert leaves the file_id of a known finding alone.
LinkedOnInsert(c) ==
    {p \in Path : IF found[c][p] = Absent \/ report[p] # Absent THEN p \in linked
                  ELSE hash[p] # Absent}

\* The upsert sets file_id, to null for a file that has no row in files.
Linked(c) ==
    {p \in Path : IF found[c][p] = Absent THEN p \in linked ELSE hash[p] # Absent}

Commit(c) ==
    /\ pc[c] = "analyzed"
    /\ \A p \in Path : found[c][p] # Absent => disk[p] # Absent
    /\ report' = found[c]
    /\ linked' = Linked(c)
    /\ Return(c)
    /\ calm' = calm \cup {c}
    /\ UNCHANGED <<tree, index, cache>>

\* match_suppressions opens a reported file that was deleted: rolled back.
CommitFails(c) ==
    /\ pc[c] = "analyzed"
    /\ \E p \in Path : found[c][p] # Absent /\ disk[p] = Absent
    /\ Return(c)
    /\ calm' = calm \cup {c}
    /\ UNCHANGED <<tree, index, cache, findings>>

-----------------------------------------------------------------------------
Step(c) ==
    \/ Inventory(c) \/ LoadHashes(c)
    \/ Persist(c) \/ PersistFails(c) \/ Refused(c)
    \/ ReadKey(c) \/ Hit(c) \/ Miss(c)
    \/ RunPacks(c) \/ PacksFail(c) \/ StoreCache(c)
    \/ Commit(c) \/ CommitFails(c)

Next ==
    \/ \E p \in Path, text \in Text : Edit(p, text)
    \/ \E c \in Callers : Step(c)

Spec == Init /\ [][Next]_vars

\* Scanners keep scanning and callers keep running.  A transaction is not
\* refused forever: whoever holds the lock ends (WriterEnds in StorageLock).
Fairness ==
    /\ \A c \in Scanners : WF_vars(Inventory(c))
    /\ \A c \in Callers :
        /\ WF_vars(pc[c] # "idle" /\ Step(c))
        /\ SF_vars(Persist(c))
        /\ SF_vars(Commit(c))

FairSpec == Spec /\ Fairness

-----------------------------------------------------------------------------
(* Properties *)

TypeOK ==
    /\ disk \in Tree /\ undone \subseteq Path /\ edits \in 0..MaxEdits
    /\ hash \in Tree /\ graph \in Tree
    /\ cache \in [key : Tree, report : Tree] \cup {NoCache}
    /\ report \in Tree /\ linked \subseteq Path
    /\ pc \in [Callers -> Pc]
    /\ seen \in [Callers -> Tree] /\ previous \in [Callers -> Tree]
    /\ found \in [Callers -> Tree]
    /\ quiet \subseteq Callers /\ calm \subseteq Callers

\* A row whose hash is that of the file owns the graph of that file, whoever
\* indexed it and whatever was edited meanwhile, unless an edit brought back a text
\* whose hash was on record: since only the hash decides what is parsed again, a
\* wrong graph under it stays (index_repo, _changed_paths).
FreshRowsAreExact ==
    \A p \in Indexed \ undone : hash[p] = disk[p] => graph[p] = disk[p]

\* The findings cached for the tree as it is are, of each file whose text was not
\* brought back, those the packs would compute (scan_rule_packs_cached).
WarmScanIsCold ==
    (cache # NoCache /\ cache.key = disk) =>
        \A p \in Path \ undone : cache.report[p] = disk[p]

\* What the code says of the cache, with no exception for a text brought back: "a
\* warm scan is byte-identical to a cold one for the same repo state".
WarmScanIsIdentical ==
    (cache # NoCache /\ cache.key = disk) => cache.report = disk

\* An index call with no edit since it began, and no other index since it loaded the
\* hashes, leaves the rows a full rebuild would, incremental or not, but for the
\* graph of a file whose text was brought back; a full rebuild leaves that right too.
QuietIndexIsExact ==
    [][\A c \in Callers : (Persist(c) /\ c \in quiet /\ c \in calm) =>
          \A p \in Indexed :
              /\ hash'[p] = disk[p]
              /\ p \notin undone \/ c \in Rebuilders => graph'[p] = disk[p]]_vars

\* A scan with no edit since it began stores the findings of the tree, from
\* the cache or from the packs, whatever other callers do; from the cache, those of
\* a file whose text was brought back may be older.
QuietScanIsExact ==
    [][\A c \in Scanners : (Commit(c) /\ c \in quiet) =>
          \A p \in Path \ undone : report'[p] = disk[p]]_vars

Joined(p) == (report[p] # Absent /\ hash[p] # Absent) => p \in linked

\* Between calls the findings of an indexed file are joined with it by file_id,
\* the way quality_flags_for_paths reads the "active quality flags" of the files
\* git calls modified.
FindingsReachFiles ==
    (\A c \in Callers : pc[c] = "idle") => \A p \in Path : Joined(p)

\* Once edits stop, index and findings reach the tree and stay there, after
\* failures and with older calls still committing: the hash and the link of every
\* file, the graph and the findings of those whose text was not brought back.
UpToDate ==
    /\ \A p \in Indexed : hash[p] = disk[p]
    /\ \A p \in Indexed \ undone : graph[p] = disk[p]
    /\ \A p \in Path \ undone : report[p] = disk[p]
    /\ \A p \in Path : Joined(p)

EventuallyUpToDate == <>[]UpToDate
=============================================================================
