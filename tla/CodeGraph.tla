------------------------------ MODULE CodeGraph ------------------------------
(* Symbols, references, callers, callees and related files.  The call graph     *)
(* comes from a local cbm process where one answers and from the index          *)
(* otherwise, and the process can fail between two questions of one call.       *)
EXTENDS Integers, Sequences, FiniteSets, SequencesExt, FiniteSetsExt, Ordering

CONSTANTS
  NameMatch,     \* query -> the names that hold it, letter by letter
  LikeMatch,     \* query -> the names SQL finds like it: _ and % are wildcards
  Builtin,       \* names of the language's own functions and methods
  IndexSites,    \* uses of a name: [path, line, nth, name, lang]
  IndexSymbols,  \* definitions: [name, path, first, last]
  CbmSites, CbmSymbols,  \* what cbm answers
  Outside,       \* paths that leave the repository
  HybridLsp,     \* the languages whose calls cbm resolves
  AskedNames,    \* qualified names a caller asks the context of
  IndexedFiles, TestFile, Target,  \* files; the one whose related files are asked for
  ModuleOf, Directory, PathWords,  \* of a path
  NamedLike,     \* the paths that hold the last part of the target's module
  ImportRows,       \* path -> its imports: [dots, module]
  Words,         \* name -> its words, the short ones dropped
  GitHistory, CoChanged, \* what git knows of the target: paths, gone ones too
  ReasonWeight,  \* in hundredths
  GraphLimits,   \* limits a caller asks for
  Cursors,       \* cursors into the related files of a file
  PageSize,      \* MAX_PAGE_LIMIT and RELATED_FILE_LIMIT
  MaxMoves

Personal == {"git_modified", "recent_query", "frecency"}
GraphQuery == DOMAIN NameMatch
Nobody == [name |-> "none", path |-> 0, first |-> 0, last |-> 0]
Reasons == <<"test_match", "import_graph", "git_history", "co_change", "directory_proximity",
             "search_similarity", "git_modified", "recent_query", "frecency">>

ASSUME GraphAssumption ==
  /\ PageSize \in Nat \ {0} /\ GraphLimits \subseteq Int /\ Cursors \subseteq Int
  /\ TestFile \subseteq IndexedFiles /\ Target \in IndexedFiles
  /\ IsFiniteSet(IndexedFiles \cup GitHistory \cup CoChanged)
  /\ IndexedFiles \cup GitHistory \cup CoChanged \subseteq Nat
  /\ ReasonWeight \in [ToSet(Reasons) -> Nat]
  /\ \A sites \in {IndexSites, CbmSites} :
       /\ IsFiniteSet(sites)
       /\ \A c \in sites : c.path \in Nat /\ c.line \in Nat /\ c.nth \in Nat
       /\ \A c, d \in sites : c.path = d.path /\ c.line = d.line /\ c.nth = d.nth => c = d
  /\ \A symbols \in {IndexSymbols, CbmSymbols} :
       IsFiniteSet(symbols) /\ \A s \in symbols : s.path \in Nat /\ s.first \in Nat
  /\ \A c \in IndexSites : c.path \notin Outside
  /\ \A query \in GraphQuery : Nobody.name \notin NameMatch[query]

VARIABLES
  cbm,      \* the process: absent, sick, up, or healthy but failing
  personal, \* path -> the signals of what the developer touches
  session,  \* what the caller asks, page after page: tool, query, limit
  lookup,   \* the call: where it is and what it has
  page,     \* the last answer
  seen,     \* ghost: the rows of the pages so far
  steady,   \* ghost: nothing changed since the first page
  moves

graphVars == <<cbm, personal, session, lookup, page, seen, steady, moves>>

NoLookup == [at |-> "idle", offset |-> 0, backend |-> "none", symbols |-> {}, from |-> {}]
NoPage == [rows |-> <<>>, next |-> 0, more |-> FALSE, from |-> {}]
RelatedPaths == (IndexedFiles \cup GitHistory \cup CoChanged) \ {Target}
NoSignals == [p \in RelatedPaths |-> {}]

GraphInit ==
  /\ cbm \in {"absent", "sick", "up", "failing"}
  /\ personal = NoSignals
  /\ session \in [tool : {"references", "callers", "callees", "symbols"}, query : GraphQuery, limit : GraphLimits]
             \cup [tool : {"symbol"}, query : AskedNames, limit : GraphLimits]
             \cup [tool : {"related", "file"}, query : {"path"}, limit : GraphLimits]
  /\ lookup = NoLookup
  /\ page = NoPage
  /\ seen = <<>>
  /\ steady = TRUE
  /\ moves = 0

-----------------------------------------------------------------------------
(* Rows *)

\* Ordered by path and line; the storage order breaks ties.
SiteBefore(a, b) ==
  \/ a.path < b.path
  \/ a.path = b.path /\ (a.line < b.line \/ (a.line = b.line /\ a.nth < b.nth))
RowBefore(a, b) == SiteBefore(a.site, b.site)

Around(symbols, site) ==
  {s \in symbols : s.path = site.path /\ s.first <= site.line /\ site.line <= s.last}
\* The rows of cbm, and of the index in its stead, are searched in Python, the tables in SQL.
Holds(query, name) == name \in NameMatch[query]

\* Mutant of Enclosing: the outermost definition makes the call.
EnclosingOutermost(symbols, site) ==
  IF Around(symbols, site) = {} THEN Nobody
  ELSE CHOOSE s \in Around(symbols, site) : \A t \in Around(symbols, site) : s.first <= t.first

\* _enclosing_symbol: the innermost definition makes the call.
Enclosing(symbols, site) ==
  IF Around(symbols, site) = {} THEN Nobody
  ELSE CHOOSE s \in Around(symbols, site) : \A t \in Around(symbols, site) : t.first <= s.first

\* _cbm_caller_rows and _cbm_callee_rows.
CallerRows(query, sites, symbols) ==
  {[site |-> c, caller |-> Enclosing(symbols, c)] : c \in {d \in sites : Holds(query, d.name)}}
CalleeRows(query, sites, symbols) ==
  {r \in {[site |-> c, caller |-> Enclosing(symbols, c)] : c \in {d \in sites : d.name \notin Builtin}} :
     r.caller # Nobody /\ Holds(query, r.caller.name)}

\* The index stores a use of a name twice, as a reference and as a call that
\* _caller_symbol_id gives to a definition; the tables are read with one query each.
CallerOf(site) ==
  LET around == Around(IndexSymbols, site) IN
  IF around = {} THEN Nobody ELSE CHOOSE s \in around : \A t \in around : t.first <= s.first
EdgeTable == {[site |-> c, caller |-> CallerOf(c)] : c \in IndexSites}
Edges(tool, names) ==
  IF tool = "callers" THEN {r \in EdgeTable : r.site.name \in names}
  ELSE {r \in EdgeTable : r.caller # Nobody /\ r.caller.name \in names /\ r.site.name \notin Builtin}
IndexRows(tool, query) ==
  IF tool = "references"
  THEN {[site |-> c, caller |-> Nobody] : c \in {d \in IndexSites : d.name \in LikeMatch[query]}}
  ELSE Edges(tool, LikeMatch[query])

\* read_persisted_symbols, and read_persisted_symbol, which takes the first of its name.
DefinedBefore(s, t) == s.path < t.path \/ (s.path = t.path /\ s.first < t.first)
SymbolRows(query) == SetToSortSeq({s \in IndexSymbols : s.name \in LikeMatch[query]}, DefinedBefore)
Defining(name) ==
  LET named == {s \in IndexSymbols : s.name = name} IN
  IF named = {} THEN <<>> ELSE <<CHOOSE s \in named : \A t \in named : ~DefinedBefore(t, s)>>

\* Why a file is related to the target.  The dots of an import are dropped, not resolved.
Imported(p) == {i.module : i \in ImportRows[p]}
NamesIn(p) == {x.name : x \in {y \in IndexSymbols \cup IndexSites : y.path = p}}
Terms(p) == PathWords[p] \cup UNION {Words[n] : n \in NamesIn(p)}
\* A test without an import is not asked.
TestsOfTarget == {t \in TestFile : ImportRows[t] # {} /\ (ModuleOf[Target] \in Imported(t) \/ t \in NamedLike)}
Relates(reason, p) ==
  CASE reason = "test_match" -> p \in TestsOfTarget
    [] reason = "git_history" -> p \in GitHistory
    [] reason = "co_change" -> p \in CoChanged
    [] reason \in Personal \/ p \notin IndexedFiles -> FALSE
    [] reason = "import_graph" -> ModuleOf[p] \in Imported(Target) \/ ModuleOf[Target] \in Imported(p)
    [] reason = "directory_proximity" -> Directory[p] = Directory[Target]
    [] reason = "search_similarity" -> Terms(p) \cap Terms(Target) # {}
Neighbours == [p \in RelatedPaths |-> {r \in DOMAIN ReasonWeight : Relates(r, p)}]

\* _related_rows: the sum of the weights up to 1, the surest first.
Sureness(reasons) ==
  Min({Total([i \in DOMAIN Reasons |-> IF Reasons[i] \in reasons THEN ReasonWeight[Reasons[i]] ELSE 0]), 100})
Surer(a, b) == a.sure > b.sure \/ (a.sure = b.sure /\ a.path < b.path)
RelatedRows(extra) ==
  Sorted({[path |-> p, reasons |-> Neighbours[p] \cup extra[p], sure |-> Sureness(Neighbours[p] \cup extra[p])]
            : p \in {q \in RelatedPaths : Neighbours[q] # {}}}, Surer)

\* Python's s[from:to].
Slice(s, from, to) ==
  LET At(i) == Min({Max({IF i < 0 THEN Len(s) + i ELSE i, 0}), Len(s)})
  IN  SubSeq(s, At(from) + 1, At(to))

-----------------------------------------------------------------------------
(* The world *)

CbmMoves ==
  /\ moves < MaxMoves
  /\ moves' = moves + 1
  /\ cbm' \in {"absent", "sick", "up", "failing"} \ {cbm}
  /\ steady' = FALSE
  /\ UNCHANGED <<personal, session, lookup, page, seen>>

DeveloperTouches ==
  /\ moves < MaxMoves /\ session.tool \in {"related", "file"}
  /\ moves' = moves + 1
  /\ \E p \in RelatedPaths, signal \in Personal :
       personal' = [personal EXCEPT ![p] = @ \cup {signal}]
  /\ personal' # personal
  /\ steady' = FALSE
  /\ UNCHANGED <<cbm, session, lookup, page, seen>>

-----------------------------------------------------------------------------
(* The calls *)

PageLimit == Min({Max({session.limit, 1}), PageSize})
Pulls(tool) == tool \in {"callers", "callees"}

\* The first page, or the one the last answer points to.  The cursor of a file's
\* related files is taken as it is, a negative one included.
AskGraph ==
  /\ lookup.at = "idle"
  /\ \E follow \in BOOLEAN, start \in Cursors :
       /\ IF follow THEN page.more ELSE page = NoPage /\ (session.tool # "file" => start = 0)
       /\ lookup' = [NoLookup EXCEPT !.at = IF Pulls(session.tool) THEN "asked" ELSE "local",
                                     !.offset = IF follow THEN page.next ELSE start]
       /\ steady' = (steady /\ (follow \/ start = 0))
  /\ UNCHANGED <<cbm, personal, session, page, seen, moves>>

\* select_graph_backend asks for the health once; the backend remembers the answer.
\* The tool has asked before, for its statistics, and may have been told otherwise.
SelectBackend ==
  /\ lookup.at = "asked"
  /\ lookup' = IF cbm \in {"up", "failing"}
               THEN [lookup EXCEPT !.at = "symbols", !.backend = "cbm"]
               ELSE [lookup EXCEPT !.at = "local", !.backend = "native"]
  /\ UNCHANGED <<cbm, personal, session, page, seen, steady, moves>>

\* _pull: what fails falls back to the index, for this question only.
Answers == cbm = "up"

PullSymbols ==
  /\ lookup.at = "symbols"
  /\ lookup' = [lookup EXCEPT !.at = "edges",
       !.symbols = IF Answers THEN {s \in CbmSymbols : s.path \notin Outside} ELSE IndexSymbols,
       !.from = {IF Answers THEN "cbm" ELSE "index"}]
  /\ UNCHANGED <<cbm, personal, session, page, seen, steady, moves>>

\* call_edges: inside the repository, of a language whose calls cbm resolves.
CbmEdges == {c \in CbmSites : c.path \notin Outside /\ c.lang \in HybridLsp}

\* graph_payload and the related pages: rows[offset : offset + limit] and whether there are more.
Reply(rows, from, offset, limit) ==
  LET shown == Slice(rows, offset, offset + limit) IN
  /\ page' = [rows |-> shown, next |-> offset + limit, more |-> offset + limit < Len(rows),
              from |-> from]
  /\ seen' = seen \o shown
  /\ lookup' = NoLookup
  /\ UNCHANGED <<cbm, personal, session, steady, moves>>

PullEdges ==
  /\ lookup.at = "edges"
  /\ LET sites == IF Answers THEN CbmEdges ELSE IndexSites
         rows == IF session.tool = "callers" THEN CallerRows(session.query, sites, lookup.symbols)
                 ELSE CalleeRows(session.query, sites, lookup.symbols)
     IN  Reply(Sorted(rows, RowBefore), lookup.from \cup {IF Answers THEN "cbm" ELSE "index"},
               lookup.offset, PageLimit)

\* One read of the index; find_symbol has no cursor.
ReadIndex ==
  /\ lookup.at = "local" /\ session.tool \in {"references", "callers", "callees", "symbols"}
  /\ IF session.tool = "symbols"
     THEN Reply(Slice(SymbolRows(session.query), 0, PageLimit), {"index"}, 0, PageLimit)
     ELSE Reply(Sorted(IndexRows(session.tool, session.query), RowBefore), {"index"},
                lookup.offset, PageLimit)

\* get_symbol_context: the first definition of the name, or NOT_FOUND.
ReadSymbol ==
  /\ lookup.at = "local" /\ session.tool = "symbol"
  /\ Reply(Defining(session.query), {"index"}, 0, 1)

\* get_related_files ranks with the personal signals, get_file_context without.
ReadRelated ==
  /\ lookup.at = "local" /\ session.tool = "related"
  /\ Reply(RelatedRows(personal), {"index"}, lookup.offset, PageLimit)
ReadFile ==
  /\ lookup.at = "local" /\ session.tool = "file"
  /\ Reply(RelatedRows(NoSignals), {"index"}, lookup.offset, PageSize)

GraphNext ==
  \/ CbmMoves \/ DeveloperTouches
  \/ AskGraph \/ SelectBackend \/ PullSymbols \/ PullEdges
  \/ ReadIndex \/ ReadSymbol \/ ReadRelated \/ ReadFile

GraphSpec == GraphInit /\ [][GraphNext]_graphVars

-----------------------------------------------------------------------------
(* Properties *)

\* Whoever answers, a call that cbm reports and CodeScent shows lies in the
\* repository and is of a language whose calls cbm resolves, and a callee is never a
\* builtin; what the index answers in place of a cbm that failed throughout are its own
\* calls (cbm_backend.py:9, :221; context.py:478).
OnlyTrustedCalls ==
  Pulls(session.tool) /\ page.from # {} =>
    \A k \in DOMAIN page.rows :
      LET row == page.rows[k] IN
      /\ row.site.path \notin Outside
      /\ row.site \notin IndexSites => row.site.lang \in HybridLsp
      /\ session.tool = "callees" => row.site.name \notin Builtin
      /\ page.from = {"index"} =>
           row \in IndexRows(session.tool, session.query) \cup Edges(session.tool, NameMatch[session.query])

\* Following the cursor from the start shows every row once and in order, as long as
\* nothing changes under it (context_support.py:226, context.py:158, :381).  A cbm that
\* fails throughout leaves the calls of the index whose names hold the query, where the
\* index alone takes an underscore for any letter (context.py:447, :298).
PagesAreComplete ==
  steady /\ page # NoPage /\ ~page.more /\ lookup.at = "idle" =>
    /\ session.tool = "related" => seen = RelatedRows(personal)
    /\ session.tool = "file" => seen = RelatedRows(NoSignals)
    /\ session.tool = "symbol" =>
         LET named == {s \in IndexSymbols : s.name = session.query} IN
         /\ named # {} => \E s \in named : seen = <<s>> /\ \A t \in named : ~DefinedBefore(t, s)
         /\ named = {} => seen = <<>>
    /\ session.tool \in {"references", "callers", "callees"} =>
         /\ \A i, j \in DOMAIN seen : i < j => RowBefore(seen[i], seen[j])
         /\ page.from = {"index"} =>
              ToSet(seen) = IF Pulls(session.tool) /\ cbm = "failing"
                            THEN Edges(session.tool, NameMatch[session.query])
                            ELSE IndexRows(session.tool, session.query)
         /\ page.from = {"cbm"} => {r.site : r \in ToSet(seen)} =
              {c \in CbmEdges :
                 IF session.tool = "callers" THEN Holds(session.query, c.name)
                 ELSE c.name \notin Builtin /\ Holds(session.query, Enclosing(CbmSymbols, c).name)}

\* An answer of the graph tools holds what it should and its pages hold all of it
\* (cbm_backend.py, context.py).
GraphAnswersAreExact == OnlyTrustedCalls /\ PagesAreComplete

=============================================================================
