------------------------------- MODULE Search -------------------------------
(* Path and content search: a query is routed to the fff engine or to the    *)
(* native scan, filtered, ranked with what the developer touched lately, cut  *)
(* to a window and paged.  Every answer is recorded, and the record ranks the *)
(* next answers.                                                              *)
EXTENDS Integers, Sequences, FiniteSets, SequencesExt, FiniteSetsExt

CONSTANTS
  Callers,
  Path,         \* the files, numbered in the order of their names
  Query, Prose, \* queries, and those of two words or more
  PathScore,    \* rank_path of a query and a path; 0 for no match
  TokenScore,   \* the mean over the words of a query
  LineMatch,    \* the places that hold a query
  TokenMatch,   \* the places that hold something like one of its words
  Spans,        \* the definitions of a file: [first, last]
  ImportLine,   \* the places that only import
  Markers,       \* the places of a TODO, FIXME or HACK, with the marker's boost
  TestPath,     \* the files that look like tests
  Quality,      \* the sum of a path's quality deltas
  Filters,      \* constraint strings: sets of tokens as they are written
  FileSize, FileAge, \* bytes, seconds
  Untracked,    \* the files git would call untracked
  Limits,       \* limits a caller asks for
  MaxLimit, FrecencyCap, MaxWeight,
  MaxSearches, MaxChanges

ASSUME SearchAssumption ==
  /\ Path \subseteq Nat /\ Prose \subseteq Query
  /\ PathScore \in [Query -> [Path -> 0..100]] /\ TokenScore \in [Query -> [Path -> 0..100]]
  /\ \A q \in Query : LineMatch[q] \subseteq TokenMatch[q] /\ TokenMatch[q] \subseteq Path \X Nat
  /\ FileSize \in [Path -> Nat] /\ FileAge \in [Path -> Nat] /\ Untracked \subseteq Path
  /\ IsFiniteSet(Path) /\ IsFiniteSet(Query) /\ \A q \in Query : IsFiniteSet(TokenMatch[q])
  /\ Quality \in [Path -> Int]
  /\ Limits \subseteq Int /\ MaxLimit \in Nat \ {0}
  /\ FrecencyCap \in Nat /\ MaxWeight \in Nat /\ FrecencyCap <= MaxWeight

VARIABLES
  tree,     \* the inventory
  dirty,    \* what git calls modified
  weight,   \* frecency_signals: how often a path was shown, old showings fading
  recent,   \* the paths shown within a day
  question, \* what each caller asks, again and again: tool, query, filter
  ask,      \* each caller's call: what it read so far, then what it found
  answer,   \* what it returned
  wasDirty,  \* ghost: the paths that were dirty at some moment of the call
  still,    \* ghost: 1 when since the call of its last answer began nothing but that
            \* answer's record changed what a search reads; -1 when something did
            \* within its current call
  searches, changes

searchVars == <<tree, dirty, weight, recent, question, ask, answer, wasDirty, still, searches, changes>>

NoAsk == [at |-> "idle"]
NoAnswer == [window |-> {}, native |-> FALSE,
             warned |-> {}, confidence |-> "none"]
\* Several queries are asked at once; changed files take no filter.
Questions ==
  [kind : {"files", "content", "lines"}, query : Query, filter : Filters]
  \cup [kind : {"multi"}, query : {"all"}, filter : Filters]
  \cup [kind : {"changed", "todos", "tests"}, query : Query, filter : {{}}]

SearchInit ==
  /\ tree = Path
  /\ dirty = {}
  /\ weight \in [Path -> {0, FrecencyCap}]
  /\ recent = {}
  /\ question \in [Callers -> Questions]
  /\ ask = [c \in Callers |-> NoAsk]
  /\ answer = [c \in Callers |-> NoAnswer]
  /\ wasDirty = [c \in Callers |-> {}]
  /\ still = [c \in Callers |-> 0]
  /\ searches = 0 /\ changes = 0

-----------------------------------------------------------------------------
(* The world between the steps *)

\* Something moves under the callers.
Disturbs(callers) ==
  [c \in Callers |-> IF c \notin callers THEN still[c] ELSE IF ask[c].at = "idle" THEN 0 ELSE -1]

\* The developer edits, commits or removes a file, or time passes: a day ends the
\* recency of a query, a week halves the weights.
WorldMoves ==
  /\ changes < MaxChanges
  /\ changes' = changes + 1
  /\ \/ \E p \in tree : dirty' = (dirty \cup {p}) \ (dirty \cap {p})
        /\ UNCHANGED <<tree, weight, recent>>
     \/ \E p \in tree : tree' = tree \ {p} /\ dirty' = dirty \ {p}
        /\ UNCHANGED <<weight, recent>>
     \/ recent # {} /\ recent' = {} /\ weight' \in {weight, [p \in Path |-> weight[p] \div 2]}
        /\ UNCHANGED <<tree, dirty>>
  /\ wasDirty' = [c \in Callers |-> wasDirty[c] \cup (IF ask[c].at = "idle" THEN {} ELSE dirty')]
  /\ still' = Disturbs(Callers)
  /\ UNCHANGED <<question, ask, answer, searches>>

-----------------------------------------------------------------------------
(* Filter and rank: the grammar of filters *)

SizeUnits == [b |-> 1, k |-> 1024, kb |-> 1024, m |-> 1048576, mb |-> 1048576]
TimeUnits == [s |-> 1, m |-> 60, h |-> 3600, d |-> 86400, w |-> 604800]
NoNumber == -1  \* no digits, two dots, or beyond a float

\* _parse_amount, in tenths of the smallest unit.
Amount(t, units, default) ==
  LET unit == IF t.unit = "" THEN default ELSE t.unit
  IN  IF t.tenths = NoNumber \/ unit \notin DOMAIN units THEN NoNumber ELSE t.tenths * units[unit]

\* A token with a wildcard is a glob over the path, any other a prefix of it.
Matched(t) == IF t.starred THEN t.globbed ELSE t.prefixed

\* The constraint a token becomes: its scheme decides, then a wildcard, then that it
\* has no colon.  A token that is nothing of this is dropped and reported.
Parsed(t) ==
  CASE t.scheme = "!" /\ ~t.empty -> [kind |-> "exclude", paths |-> Matched(t)]
    [] t.scheme = "git" /\ t.value \in {"modified", "changed"} -> [kind |-> "modified"]
    [] t.scheme = "git" /\ t.value = "untracked" -> [kind |-> "untracked"]
    [] t.scheme = "size" /\ t.op \in {"<", "<=", ">", ">="} /\ Amount(t, SizeUnits, "b") # NoNumber ->
         [kind |-> "size", op |-> t.op, bytes |-> Amount(t, SizeUnits, "b") \div 10]
    [] t.scheme = "mtime" /\ t.op \in {"<", ">"} /\ Amount(t, TimeUnits, "d") # NoNumber ->
         [kind |-> "age", op |-> t.op, tenths |-> Amount(t, TimeUnits, "d")]
    [] t.scheme = "" /\ (t.starred \/ ~t.colon) -> [kind |-> "pattern", paths |-> Matched(t)]
    [] OTHER -> [kind |-> "ignored"]

\* constraint_warnings parses once more.
Dropped(filter) == {t \in filter : Parsed(t).kind = "ignored"}

Compares(n, op, bound) ==
  CASE op = "<" -> n < bound [] op = "<=" -> n <= bound [] op = ">" -> n > bound [] OTHER -> n >= bound

\* What a constraint asks of a path alone.
Satisfies(constraint, p) ==
  CASE constraint.kind = "pattern" -> p \in constraint.paths
    [] constraint.kind = "exclude" -> p \notin constraint.paths
    [] constraint.kind = "untracked" -> p \in Untracked
    [] constraint.kind = "size" -> Compares(FileSize[p], constraint.op, constraint.bytes)
    [] constraint.kind = "age" -> Compares(10 * FileAge[p], constraint.op, constraint.tenths)
    [] OTHER -> TRUE

\* The predicate is built with the git state of that moment; size and age are asked
\* of the file when it is used, and a file that is gone has neither.
Keeps(constraint, modified, p) ==
  /\ Satisfies(constraint, p)
  /\ constraint.kind \in {"modified", "untracked"} => p \in modified
  /\ constraint.kind \in {"size", "age"} => p \in tree

Passes(filter, modified, p) == \A token \in filter : Keeps(Parsed(token), modified, p)
Allowed(c, p) == Passes(question[c].filter, ask[c].modified, p)

ClippedBy(n, most) == IF n < most THEN n ELSE most

\* apply_signals, in its units.
Signals(view, p, score) ==
  score + (IF p \in view.dirty THEN 45 ELSE 0)
        + ClippedBy(view.weight[p], FrecencyCap) * 30
        + (IF p \in view.recent THEN 15 ELSE 0)
        + Quality[p]

Row(c, p, line, hits, score, why) ==
  [path |-> p, line |-> line, hits |-> hits, why |-> why, score |-> Signals(ask[c].view, p, score)]

RanksBefore(a, b) ==
  \/ a.score > b.score
  \/ a.score = b.score /\ (a.path < b.path \/ (a.path = b.path /\ a.line < b.line))

\* The most relevant rows, cut to the window: those with fewer than n before them.
Window(rows, n) == {r \in rows : Cardinality({s \in rows : RanksBefore(s, r)}) < n}

\* The innermost definition around a line.
EnclosingSymbols(p, line) ==
  {s \in Spans[p] : s.first <= line /\ line <= s.last
     /\ \A t \in Spans[p] : t.first <= line /\ line <= t.last =>
          t.last - t.first > s.last - s.first
          \/ (t.last - t.first = s.last - s.first /\ t.first <= s.first)}

\* Matches within one definition become one row; a match outside stays, unless it is an
\* import and the file has a definition to show.
Collapsed(c, sites, why) ==
  UNION {LET here == {site[2] : site \in {s \in sites : s[1] = p}}
             inside == {l \in here : EnclosingSymbols(p, l) # {}}
             outside == {l \in here \ inside : inside # {} => <<p, l>> \notin ImportLine}
         IN  {Row(c, p, Min({l \in here : EnclosingSymbols(p, l) = s}),
                  Cardinality({l \in here : EnclosingSymbols(p, l) = s}), 100, why)
                 : s \in {EnclosingSymbols(p, l) : l \in inside}}
             \cup {Row(c, p, l, 1, 100, why) : l \in outside}
         : p \in Path}

LineRows(c, sites, why) ==
  IF question[c].kind = "lines" THEN {Row(c, s[1], s[2], 1, 100, why) : s \in sites}
  ELSE Collapsed(c, sites, why)

\* Only files of the inventory that the filter allows are read.
Searchable(c, sites) == {s \in sites : s[1] \in tree /\ Allowed(c, s[1])}

-----------------------------------------------------------------------------
(* Routing: what each engine makes of a query.  The engine is absent or unhealthy, *)
(* lacks the capability, raises, or answers; the wheel answers with nothing where   *)
(* it fails.                                                                        *)

\* Mutant of FffPaths: the filter is left to the engine.
FffPathsUnfiltered(c, q) ==
  {{Row(c, list[i], 0, 1, 101 - i, "fff") : i \in DOMAIN list}
     : list \in {<<>>} \cup {<<p>> : p \in Path} \cup {<<p, r>> : p, r \in Path}}

\* fuzzy_paths in the engine's order, the inventory's or not; a path may be gone.
FffPaths(c, q) ==
  {{Row(c, list[i], 0, 1, 101 - i, "fff") : i \in {j \in DOMAIN list : Allowed(c, list[j])}}
     : list \in {<<>>} \cup {<<p>> : p \in Path} \cup {<<p, r>> : p, r \in Path}}

\* grep_content: places the engine has scanned so far, within its own caps.
FffLines(c, q) ==
  {LineRows(c, Searchable(c, sites), "fff") : sites \in SUBSET LineMatch[q]}

NativePaths(c, q) ==
  {Row(c, p, 0, 1, PathScore[q][p], "path") : p \in {r \in tree : Allowed(c, r) /\ PathScore[q][r] > 0}}
NativeLines(c, q) == LineRows(c, Searchable(c, LineMatch[q]), "content")

\* The fallback of a query in prose that found nothing.
FuzzyPaths(c, q) ==
  {Row(c, p, 0, 1, TokenScore[q][p], "fuzzy") : p \in {r \in tree : Allowed(c, r) /\ TokenScore[q][r] > 0}}
FuzzyLines(c, q) == LineRows(c, Searchable(c, TokenMatch[q]), "fuzzy")

FuzzyFloor(found, fuzzy, q) == IF found # {} \/ q \notin Prose THEN found ELSE fuzzy

\* What a caller may find, over the engines.
PathRoutes(c, q) == {FuzzyFloor(found, FuzzyPaths(c, q), q) : found \in {NativePaths(c, q)} \cup FffPaths(c, q)}
LineRoutes(c, q) == {FuzzyFloor(found, FuzzyLines(c, q), q) : found \in {NativeLines(c, q)} \cup FffLines(c, q)}

\* Several queries: one row for a path, its first, with the best score and every query
\* that found it; no fallback.
Merged(found) ==
  {LET rows == UNION {{r \in found[q] : r.path = p} : q \in Query}
       first == CHOOSE r \in rows : \A s \in rows : ~RanksBefore(s, r)
   IN [first EXCEPT !.score = Max({r.score : r \in rows})]
   : p \in {r.path : r \in UNION {found[q] : q \in Query}}}
FoundBy(found, p) == {q \in Query : \E r \in found[q] : r.path = p}

\* search_changed_files: what git or the index calls changed, of the files still there.
ChangedRows(q, changed) ==
  {[path |-> p, line |-> 0, why |-> "changed", score |-> PathScore[q][p] + 25]
     : p \in {r \in changed \cap tree : PathScore[q][r] > 0}}

\* search_todos: the markers whose file or line holds the query.
TodoRows(q) ==
  {[path |-> m[1], line |-> m[2], why |-> "todo",
    score |-> 80 + Markers[m] + (IF PathScore[q][m[1]] = 100 THEN 15 ELSE 0)
                 + (IF m \in LineMatch[q] THEN 20 ELSE 0)]
     : m \in {n \in DOMAIN Markers : n[1] \in tree
               /\ (PathScore[q][n[1]] = 100 \/ n \in LineMatch[q])}}

\* search_tests: every test file, those that hold the word first.
TestRows(q) ==
  {[path |-> p, line |-> 0, why |-> "test",
    score |-> 40 + (IF PathScore[q][p] = 100 THEN 35 ELSE 0)
                 + (IF \E s \in LineMatch[q] : s[1] = p THEN 40 ELSE 0)] : p \in TestPath \cap tree}

ListKinds == {"changed", "todos", "tests"}
ListRows(kind, q, changed) ==
  CASE kind = "changed" -> ChangedRows(q, changed) [] kind = "todos" -> TodoRows(q) [] OTHER -> TestRows(q)

-----------------------------------------------------------------------------
(* The calls *)

\* The git status of the signals, which the changed files are listed from as well.
SearchBegins(c) ==
  /\ ask[c].at = "idle" /\ searches < MaxSearches
  /\ ask' = [ask EXCEPT ![c] = [at |-> "begun", dirty |-> dirty]]
  /\ wasDirty' = [wasDirty EXCEPT ![c] = dirty]
  /\ searches' = searches + 1
  /\ UNCHANGED <<tree, dirty, weight, recent, question, answer, still, changes>>

\* _index_signals: the records of one connection, after git answered.
ReadsSignals(c) ==
  /\ ask[c].at = "begun" /\ question[c].kind \notin ListKinds
  /\ ask' = [ask EXCEPT ![c] = [at |-> "ranked",
       view |-> [dirty |-> ask[c].dirty, weight |-> weight, recent |-> recent]]]
  /\ UNCHANGED <<tree, dirty, weight, recent, question, answer, wasDirty, still, searches, changes>>

\* build_constraint_filter asks git once more, for itself.
ResolvesFilter(c) ==
  /\ ask[c].at = "ranked"
  /\ ask' = [ask EXCEPT ![c] = [at |-> "asked", view |-> ask[c].view, modified |-> dirty]]
  /\ UNCHANGED <<tree, dirty, weight, recent, question, answer, wasDirty, still, searches, changes>>

Clamped(limit, most) == ClippedBy(Max({limit, 1}), most)

\* The reply of a tool, and the weight each query will record; one that shows nothing
\* records nothing.
Found(c, window, gain) ==
  LET ignored == Dropped(question[c].filter)
      reply == [window |-> {row.path : row \in window},
                native |-> window # {} /\ \A row \in window : row.why = "path",
                warned |-> ignored,
                confidence |-> IF window = {} THEN "low"
                               ELSE IF ignored # {} THEN "medium" ELSE "high"]
      due == {q \in DOMAIN gain : \E p \in Path : gain[q][p] > 0}
  IN ask' = [ask EXCEPT ![c] = [at |-> "found", reply |-> reply, gain |-> gain, due |-> due]]

FrecencyGain(window) == [p \in Path |-> Cardinality({row \in window : row.path = p})]

\* Mutant of FindsPage: every row found is recorded, the window or not.
FindsPageRecordAll(c, found) ==
  Found(c, Window(found, MaxLimit), [q \in {question[c].query} |-> FrecencyGain(found)])

\* search_*_page: a window of MaxLimit rows is ranked and recorded as a whole, whatever
\* page of it is shown.
FindsPage(c, found) ==
  LET window == Window(found, MaxLimit)
  IN  Found(c, window, [q \in {question[c].query} |-> FrecencyGain(window)])

\* multi_search_content: results[:limit], which a negative limit takes from the end; each
\* query records the paths of them that it found.
FindsMerged(c, found, limit) ==
  LET all == Merged(found)
      most == IF limit >= 0 THEN limit ELSE Max({Cardinality(all) + limit, 0})
      shown == {row.path : row \in Window(all, most)}
  IN Found(c, Window(all, most),
           [q \in Query |-> [p \in Path |-> IF p \in shown /\ q \in FoundBy(found, p) THEN 1 ELSE 0]])

\* Each query of several is routed for itself.
SearchRetrieves(c) ==
  /\ ask[c].at = "asked"
  /\ LET q == question[c].query IN
     CASE question[c].kind = "files" -> \E found \in PathRoutes(c, q) : FindsPage(c, found)
       [] question[c].kind \in {"content", "lines"} -> \E found \in LineRoutes(c, q) : FindsPage(c, found)
       [] OTHER ->
            LET routes == [s \in Query |-> {NativeLines(c, s)} \cup FffLines(c, s)]
            IN  \E limit \in Limits, found \in [Query -> UNION {routes[s] : s \in Query}] :
                  /\ \A s \in Query : found[s] \in routes[s]
                  /\ FindsMerged(c, found, limit)
  /\ UNCHANGED <<tree, dirty, weight, recent, question, answer, wasDirty, still, searches, changes>>

\* The lists take no filter and no signals, and record nothing.
SearchLists(c) ==
  /\ ask[c].at = "begun" /\ question[c].kind \in ListKinds
  /\ \E limit \in Limits :
       Found(c, Window(ListRows(question[c].kind, question[c].query, ask[c].dirty), Clamped(limit, MaxLimit)),
             <<>>)
  /\ UNCHANGED <<tree, dirty, weight, recent, question, answer, wasDirty, still, searches, changes>>

SearchEnds(c, reply) ==
  /\ answer' = [answer EXCEPT ![c] = reply]
  /\ ask' = [ask EXCEPT ![c] = NoAsk]

\* record_frecency: one transaction for each query, in the order the caller gave them,
\* inserts a row for each row selected.  The last one ends the call.
SearchRecords(c) ==
  /\ ask[c].at = "found"
  /\ \E q \in ask[c].due :
       LET last == ask[c].due = {q} IN
       /\ weight' = [p \in Path |-> ClippedBy(weight[p] + ask[c].gain[q][p], MaxWeight)]
       /\ recent' = recent \cup {p \in Path : ask[c].gain[q][p] > 0}
       /\ still' = [Disturbs(Callers) EXCEPT ![c] = IF last THEN ClippedBy(still[c] + 1, 1) ELSE still[c]]
       /\ IF last THEN SearchEnds(c, ask[c].reply)
          ELSE ask' = [ask EXCEPT ![c].due = @ \ {q}] /\ UNCHANGED answer
  /\ UNCHANGED <<tree, dirty, question, wasDirty, searches, changes>>

SearchSkipsRecord(c) ==
  /\ ask[c].at = "found" /\ ask[c].due = {}
  /\ SearchEnds(c, ask[c].reply)
  /\ still' = [still EXCEPT ![c] = ClippedBy(@ + 1, 1)]
  /\ UNCHANGED <<tree, dirty, weight, recent, question, wasDirty, searches, changes>>

\* A scan holds the database: the search has its rows and fails all the same, with what
\* earlier queries recorded.
RecordRefused(c) ==
  /\ ask[c].at = "found" /\ ask[c].due # {}
  /\ SearchEnds(c, NoAnswer)
  /\ still' = [still EXCEPT ![c] = 0]
  /\ UNCHANGED <<tree, dirty, weight, recent, question, wasDirty, searches, changes>>

SearchNext ==
  \/ WorldMoves
  \/ \E c \in Callers : \/ SearchBegins(c) \/ ReadsSignals(c) \/ ResolvesFilter(c)
                        \/ SearchRetrieves(c) \/ SearchLists(c)
                        \/ SearchRecords(c) \/ SearchSkipsRecord(c) \/ RecordRefused(c)

SearchSpec == SearchInit /\ [][SearchNext]_searchVars

-----------------------------------------------------------------------------
(* Properties *)

\* A colon after no scheme of the grammar, and a wildcard.
Stray(token) == token.scheme = "" /\ token.colon /\ token.starred

\* The grammar says which tokens are of it (token.known) and which paths each keeps; the
\* parser takes these and, against its own comment, the stray ones, and what it makes of
\* one keeps no more.
GrammarIsKept ==
  \A filter \in Filters : \A token \in filter :
    /\ token.known \/ Stray(token) <=> Parsed(token).kind # "ignored"
    /\ token.known \/ Stray(token) => {p \in Path : Satisfies(Parsed(token), p)} \subseteq token.keeps

\* A filter holds on every route, engine or native, literal or fuzzy, for what its
\* grammar says each token keeps (constraints.py:1-21): an answered path satisfies each
\* token of the grammar, git's at some moment of the call, and the tokens outside the
\* grammar are reported, with a confidence that is not high (search_run.py:46,
\* freshness.py:147).  An unknown scheme with a wildcard is the exception: it is taken
\* for a glob over the path and filters unreported (constraints.py:210).
FilterIsHonest ==
  \A c \in Callers : ask[c].at = "idle" /\ answer[c] # NoAnswer =>
    /\ \A token \in question[c].filter :
         IF token.known \/ Stray(token)
         THEN /\ token \notin answer[c].warned
              /\ answer[c].window \subseteq token.keeps
              /\ token.scheme = "git" => answer[c].window \subseteq wasDirty[c]
         ELSE token \in answer[c].warned
    /\ answer[c].warned # {} => answer[c].confidence # "high"

\* A search that is repeated answers with the same files: recording an answer ranks
\* what it showed higher and never brings in what it did not show
\* (search_support.py:158, ranking.py:92).
RepeatKeepsWindow ==
  [][\A c \in Callers :
       (answer'[c] # answer[c] /\ still[c] = 1 /\ question[c].kind = "files"
          /\ answer[c].native /\ answer'[c].native)
       => answer'[c].window = answer[c].window]_searchVars

=============================================================================
