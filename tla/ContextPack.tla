----------------------------- MODULE ContextPack -----------------------------
(* Answer packs and task briefs.  Both are composed of several reads, of the    *)
(* index and of the findings, that other processes change in between; a pack    *)
(* that is over its budget is stored whole and then trimmed.                    *)
EXTENDS Integers, Sequences, FiniteSets, SequencesExt, FiniteSetsExt, Ordering

CONSTANTS
  PackFiles,     \* paths, as numbers in path order
  PackTests,     \* those that are tests
  FileHits, LineHits,  \* query -> the paths that match, best first; "" is blank
  SymbolHits,    \* query -> the symbols that match, best first: [name, path]
  SymbolsIn,     \* path -> the names of its first symbols
  LikelyTests,   \* path -> its likely tests
  RelatedFiles,  \* path -> its related files, the surest first
  FindingPath,   \* finding, in the order of path, rule and id -> its path
  Cost,          \* query -> its tokens
  Budgets,       \* budgets a caller gives; NoBudget for none
  DefaultBudget, \* TokenBudgets().context
  FileCap, SymbolCap, TestCap, FindingCap, RelatedCap, SeedLimit,
  MaxPackMoves   \* calls, and changes of the index and the findings

NoBudget == -1
NoFocus == 0
NoSymbol == "none"
PackQuery == DOMAIN Cost
FindingId == DOMAIN FindingPath

ASSUME PackAssumption ==
  /\ PackTests \subseteq PackFiles /\ NoFocus \notin PackFiles /\ NoSymbol \notin PackQuery
  /\ DefaultBudget \in Nat /\ Budgets \subseteq Nat \cup {NoBudget}
  /\ \A n \in {FileCap, SymbolCap, TestCap, FindingCap, RelatedCap, SeedLimit} : n \in Nat \ {0}
  /\ \A q \in PackQuery :
       /\ FileHits[q] \in Seq(PackFiles) /\ LineHits[q] \in Seq(PackFiles)
       /\ SymbolHits[q] \in Seq([name : STRING, path : PackFiles]) /\ Cost[q] \in Nat
  /\ \A f \in PackFiles :
       SymbolsIn[f] \in Seq(STRING) /\ LikelyTests[f] \in Seq(PackFiles) /\ RelatedFiles[f] \in Seq(PackFiles)
  /\ FindingId \subseteq Nat /\ IsFiniteSet(FindingId)

VARIABLES
  indexed,   \* the files of the index
  actionable,  \* the findings whose status asks for work
  draft,     \* the call: what it asks and what it has gathered
  shelf,     \* the stored results, whole
  packed,    \* the last answer
  packMoves

packVars == <<indexed, actionable, draft, shelf, packed, packMoves>>

NoParts == [files |-> <<>>, symbols |-> <<>>, tests |-> <<>>, findings |-> <<>>, related |-> <<>>]
NoDraft == [at |-> "idle", kind |-> "none", query |-> "", focus |-> NoFocus, symbol |-> "", budget |-> 0,
            fresh |-> TRUE, seeds |-> <<>>, todo |-> <<>>, parts |-> NoParts]
NoPack == [kind |-> "none", parts |-> NoParts, tokens |-> 0, budget |-> 0, result |-> 0,
             exceeded |-> FALSE, advice |-> <<>>]

PackInit ==
  /\ indexed = PackFiles
  /\ actionable = FindingId
  /\ draft = NoDraft
  /\ shelf = <<>>
  /\ packed = NoPack
  /\ packMoves = 0

-----------------------------------------------------------------------------
(* What a call gathers *)

\* dedupe_cap: each item once, the first limit of them.
DedupeCap(items, limit) ==
  LET once == AtPlaces(items, {n \in DOMAIN items : \A k \in 1..n - 1 : items[k] # items[n]})
  IN SubSeq(once, 1, Min({limit, Len(once)}))

In(items, set) == Kept(items, LAMBDA i : i \in set)
NotIn(items, set) == Kept(items, LAMBDA i : i \notin set)

QuerySeeds(query, cap) ==
  DedupeCap(SubSeq(FileHits[query], 1, Min({SeedLimit, Len(FileHits[query])}))
              \o SubSeq(LineHits[query], 1, Min({SeedLimit, Len(LineHits[query])})), cap)

FoundSymbols(query, limit) ==
  LET live == Kept(SymbolHits[query], LAMBDA s : s.path \in indexed)
  IN SubSeq(live, 1, Min({limit, Len(live)}))
Names(symbols) == [i \in DOMAIN symbols |-> symbols[i].name]

\* in_scope_findings and _open_findings.
Scope(files) ==
  LET ids == {f \in FindingId : FindingPath[f] \in files /\ f \in actionable}
      order == Sorted(ids, <)
  IN SubSeq(order, 1, Min({FindingCap, Len(order)}))

-----------------------------------------------------------------------------
(* The size of a pack *)

\* estimate_tokens over the serialized lists, here a cost for each item.
Tokens(query, parts) ==
  Cost[query] + Len(parts.files) + 2 * Len(parts.symbols) + Len(parts.tests)
    + 2 * Len(parts.findings) + Len(parts.related)

Sections == <<"related", "findings", "tests", "symbols", "files">>

\* _drop_last: the last item of the first list that has one.
DropLast(parts) ==
  LET full == {i \in DOMAIN Sections : parts[Sections[i]] # <<>>} IN
  IF full = {} THEN parts ELSE [parts EXCEPT ![Sections[Min(full)]] = Front(@)]

Size(parts) ==
  Len(parts.related) + Len(parts.findings) + Len(parts.tests) + Len(parts.symbols) + Len(parts.files)

\* fit_budget: drops until the pack fits or nothing is left.
FitBudget(query, parts, budget) ==
  LET trimmed[n \in 0..Size(parts)] == IF n = 0 THEN parts ELSE DropLast(trimmed[n - 1])
      fits == {n \in 0..Size(parts) : Tokens(query, trimmed[n]) <= budget}
  IN trimmed[IF fits = {} THEN Size(parts) ELSE Min(fits)]

-----------------------------------------------------------------------------
(* The world *)

\* A refresh adds or removes a file of the index between two reads.
IndexMoves ==
  /\ packMoves < MaxPackMoves
  /\ \E f \in PackFiles : indexed' = (indexed \cup {f}) \ (indexed \cap {f})
  /\ packMoves' = packMoves + 1
  /\ UNCHANGED <<actionable, draft, shelf, packed>>

\* A scan or a caller opens or closes a finding.
FindingMoves ==
  /\ packMoves < MaxPackMoves
  /\ \E f \in FindingId : actionable' = (actionable \cup {f}) \ (actionable \cap {f})
  /\ packMoves' = packMoves + 1
  /\ UNCHANGED <<indexed, draft, shelf, packed>>

-----------------------------------------------------------------------------
(* The calls *)

\* answer_pack, the tool: a caller that gives no budget gets the default one.
AskPack(query, focus, budget, maxTokens) ==
  /\ draft.at = "idle" /\ packMoves < MaxPackMoves
  /\ draft' = [NoDraft EXCEPT !.at = "seeds", !.kind = "pack", !.query = query, !.focus = focus,
                              !.budget = IF budget # NoBudget THEN budget
                                         ELSE IF maxTokens # NoBudget THEN maxTokens ELSE DefaultBudget]
  /\ packed' = NoPack
  /\ packMoves' = packMoves + 1
  /\ UNCHANGED <<indexed, actionable, shelf>>

\* start_task: bootstrap refreshes the index, or could not.
AskBrief(query, focus, symbol, fresh) ==
  /\ draft.at = "idle" /\ packMoves < MaxPackMoves
  /\ draft' = [NoDraft EXCEPT !.at = "seeds", !.kind = "brief", !.query = query, !.focus = focus,
                              !.symbol = symbol, !.fresh = fresh]
  /\ packed' = NoPack
  /\ packMoves' = packMoves + 1
  /\ UNCHANGED <<indexed, actionable, shelf>>

\* _top_files: the focus, or what a query that is not blank finds.
PackSeeds ==
  IF draft.focus # NoFocus THEN <<draft.focus>> ELSE QuerySeeds(draft.query, FileCap)

\* _seed_files: the focus, the files of the focus symbol if it has any, or the query.
BriefSeeds(matches) ==
  LET symbolFiles == DedupeCap([i \in DOMAIN matches |-> matches[i].path], SeedLimit) IN
  IF draft.focus # NoFocus THEN <<draft.focus>>
  ELSE IF symbolFiles # <<>> THEN symbolFiles
  ELSE QuerySeeds(draft.query, SeedLimit)

FindSeeds ==
  /\ draft.at = "seeds"
  /\ LET matches == IF draft.kind = "brief" /\ draft.focus = NoFocus /\ draft.symbol # NoSymbol
                    THEN FoundSymbols(draft.symbol, 3) ELSE <<>>
         seeds == IF draft.kind = "pack" THEN PackSeeds ELSE BriefSeeds(matches)
     IN draft' = [draft EXCEPT !.at = IF draft.kind = "pack" THEN "symbols" ELSE "files",
                               !.seeds = seeds, !.todo = seeds,
                               !.parts = [NoParts EXCEPT !.files = seeds, !.symbols = Names(matches)]]
  /\ UNCHANGED <<indexed, actionable, shelf, packed, packMoves>>

FindSymbols ==
  /\ draft.at = "symbols"
  /\ draft' = [draft EXCEPT !.at = "files",
                            !.parts.symbols = IF draft.query = "" THEN <<>>
                              ELSE DedupeCap(Names(FoundSymbols(draft.query, SymbolCap)), SymbolCap)]
  /\ UNCHANGED <<indexed, actionable, shelf, packed, packMoves>>

\* One file of related_neighbors, and of the loop of start_task, with what get_file_context
\* and get_related_files say of it; a file that is not in the index raises LookupError and
\* is passed over.  A pack keeps apart what it adds, a brief appends to its own files.
Gathered(file) ==
  LET near == RelatedFiles[file]
      nearTests == LikelyTests[file] \o In(near, PackTests)
      own == IF draft.kind = "brief" /\ file \in PackTests THEN <<file>> ELSE <<>>
      parts == [draft.parts EXCEPT !.tests = @ \o own]
  IN IF file \notin indexed THEN parts
     ELSE IF draft.kind = "pack"
     THEN [parts EXCEPT !.tests = @ \o nearTests,
                        !.related = @ \o NotIn(NotIn(near, PackTests), ToSet(draft.seeds))]
     ELSE [parts EXCEPT !.tests = @ \o nearTests,
                        !.files = @ \o <<file>> \o NotIn(near, PackTests),
                        !.symbols = @ \o SymbolsIn[file]]

ReadNeighbours ==
  /\ draft.at = "files" /\ draft.todo # <<>>
  /\ draft' = [draft EXCEPT !.todo = Tail(@), !.parts = Gathered(Head(draft.todo))]
  /\ UNCHANGED <<indexed, actionable, shelf, packed, packMoves>>

\* A pack caps its lists when every file has been read, and then reads the findings.
ReadPackFindings ==
  /\ draft.kind = "pack" /\ draft.at = "files" /\ draft.todo = <<>>
  /\ LET top == ToSet(draft.seeds) IN
     draft' = [draft EXCEPT !.at = "measure", !.parts.tests = DedupeCap(NotIn(@, top), TestCap),
                            !.parts.related = DedupeCap(@, RelatedCap), !.parts.findings = Scope(top)]
  /\ UNCHANGED <<indexed, actionable, shelf, packed, packMoves>>

\* warnings and next tools of a brief, which is not sized.
ReadBriefFindings ==
  /\ draft.kind = "brief" /\ draft.at = "files" /\ draft.todo = <<>>
  /\ LET files == DedupeCap(draft.parts.files, FileCap)
         symbols == DedupeCap(draft.parts.symbols, SymbolCap)
         findings == Scope(ToSet(files))
         tests == DedupeCap(draft.parts.tests, TestCap)
         empty == files = <<>> /\ symbols = <<>> /\ tests = <<>> /\ findings = <<>>
     IN packed' = [NoPack EXCEPT !.kind = "brief",
                     !.parts = [NoParts EXCEPT !.files = files, !.symbols = symbols,
                                               !.tests = tests, !.findings = findings],
                     !.advice = (IF symbols = <<>> THEN <<>> ELSE <<"get_symbol_context">>)
                                  \o (IF findings = <<>> THEN <<>> ELSE <<"explain_finding">>)
                                  \o <<"select_tests">>
                                  \o (IF empty THEN <<"search_files", "search_content", "get_repo_map">> ELSE <<>>)
                                  \o (IF draft.fresh THEN <<>> ELSE <<"refresh_index">>)]
  /\ draft' = NoDraft
  /\ UNCHANGED <<indexed, actionable, shelf, packMoves>>

Packed(parts, result) ==
  [kind |-> "pack", parts |-> parts, tokens |-> Tokens(draft.query, parts), budget |-> draft.budget,
   result |-> result, exceeded |-> result # 0 /\ Tokens(draft.query, parts) > draft.budget,
   advice |-> (IF parts.symbols = <<>> THEN <<>> ELSE <<"get_symbol_context">>) \o <<"select_tests">>
                \o (IF result = 0 THEN <<>> ELSE <<"retrieve_result">>)]

Fits ==
  /\ draft.at = "measure" /\ Tokens(draft.query, draft.parts) <= draft.budget
  /\ packed' = Packed(draft.parts, 0)
  /\ draft' = NoDraft
  /\ UNCHANGED <<indexed, actionable, shelf, packMoves>>

\* Mutant of TrimAndStore: what is left of the pack is stored.
StoreTrimmed ==
  /\ draft.at = "measure" /\ Tokens(draft.query, draft.parts) > draft.budget
  /\ LET kept == FitBudget(draft.query, draft.parts, draft.budget) IN
     /\ shelf' = Append(shelf, kept)
     /\ packed' = Packed(kept, Len(shelf'))
  /\ draft' = NoDraft
  /\ UNCHANGED <<indexed, actionable, packMoves>>

\* The whole pack is stored, and the trimmed one refers to it.
TrimAndStore ==
  /\ draft.at = "measure" /\ Tokens(draft.query, draft.parts) > draft.budget
  /\ shelf' = Append(shelf, draft.parts)
  /\ packed' = Packed(FitBudget(draft.query, draft.parts, draft.budget), Len(shelf'))
  /\ draft' = NoDraft
  /\ UNCHANGED <<indexed, actionable, packMoves>>

\* store_full finds the write lock held: the call fails and there is no pack.
StoreRefused ==
  /\ draft.at = "measure" /\ Tokens(draft.query, draft.parts) > draft.budget
  /\ draft' = NoDraft
  /\ UNCHANGED <<indexed, actionable, shelf, packed, packMoves>>

PackNext ==
  \/ IndexMoves \/ FindingMoves
  \/ \E q \in PackQuery, f \in PackFiles \cup {NoFocus}, b, m \in Budgets : AskPack(q, f, b, m)
  \/ \E q \in PackQuery, s \in PackQuery \cup {NoSymbol}, f \in PackFiles \cup {NoFocus}, fresh \in BOOLEAN :
       AskBrief(q, f, s, fresh)
  \/ FindSeeds \/ FindSymbols \/ ReadNeighbours \/ ReadPackFindings \/ ReadBriefFindings
  \/ Fits \/ TrimAndStore \/ StoreRefused

PackSpec == PackInit /\ [][PackNext]_packVars

-----------------------------------------------------------------------------

\* An answer pack says its own size; it fits its budget, or nothing could be dropped any more
\* and it says so.  A pack that was trimmed names a stored result that holds each of its lists
\* whole, it dropped no more than it had to, and a finding it kept is about a file it kept
\* (answer_pack, fit_budget and to_pack).
PackIsHonest ==
  packed.kind = "pack" =>
    /\ packed.tokens <= packed.budget \/ (packed.exceeded /\ Size(packed.parts) = 0)
    /\ packed.result = 0 => ~packed.exceeded
    /\ packed.result # 0 =>
         LET whole == shelf[packed.result] IN
         /\ \A l \in ToSet(Sections) : IsPrefix(packed.parts[l], whole[l])
         /\ Size(whole) > Size(packed.parts) \/ packed.exceeded
         /\ \A i \in DOMAIN Sections : packed.parts[Sections[i]] # whole[Sections[i]] =>
              /\ \A j \in 1..i - 1 : packed.parts[Sections[j]] = <<>>
              /\ packed.tokens + 2 > packed.budget
    /\ \A f \in ToSet(packed.parts.findings) : FindingPath[f] \in ToSet(packed.parts.files)

=============================================================================
