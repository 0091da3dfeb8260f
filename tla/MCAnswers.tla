------------------------------ MODULE MCAnswers ------------------------------
(* The parts that answer questions about the repository and share nothing but  *)
(* its tables: one run explores each of them to the end, with the others at    *)
(* one of their initial states.                                                *)
EXTENDS Search, CodeGraph, ContextPack, Triage, RefactorPlan,
        ImportCycles, RepoSignals, SubjectiveReview, MCHookAugment, Architecture,
        StructuralDuplicates, TLC

\* The filters are of the grammar, and parsed by it.
ASSUME MCGrammar == GrammarIsKept

VARIABLE focus   \* the part that moves

(* search: a source file, one of its tests and an import line beside a symbol *)
MCPaths == 1..3
MCPathScore == ("word" :> <<74, 100, 100>>) @@ ("two words" :> <<0, 0, 0>>)
MCTokenScore == ("word" :> <<0, 0, 0>>) @@ ("two words" :> <<80, 60, 0>>)
MCLineMatch == ("word" :> {<<1, 1>>, <<1, 3>>, <<1, 4>>}) @@ ("two words" :> {<<3, 1>>})
MCTokenMatch == ("word" :> MCLineMatch["word"]) @@ ("two words" :> {<<2, 1>>, <<3, 1>>})
MCSpans == <<{[first |-> 2, last |-> 6], [first |-> 3, last |-> 4]}, {}, {}>>
MCMarkers == (<<1, 4>> :> 10) @@ (<<2, 2>> :> 12)
MCImportLine == {<<1, 1>>}
MCQuality == <<0, -5, 5>>
\* Tokens as written, with what the grammar says they keep.
MCSize == <<100, 2000, 10240>>
MCAge == <<30, 86400, 700000>>
Pattern(scheme, starred, prefixed, globbed, colon, empty, known, keeps) ==
  [scheme |-> scheme, starred |-> starred, prefixed |-> prefixed, globbed |-> globbed,
   colon |-> colon, empty |-> empty, known |-> known, keeps |-> keeps]
Git(value, known, keeps) == [scheme |-> "git", value |-> value, known |-> known, keeps |-> keeps]
Bound(scheme, op, tenths, unit, known, keeps) ==
  [scheme |-> scheme, op |-> op, tenths |-> tenths, unit |-> unit, known |-> known, keeps |-> keeps]
MCFilters ==
  {{},
   \* src/ foo:bar size:<=10kb
   {Pattern("", FALSE, {1, 2}, {}, FALSE, FALSE, TRUE, {1, 2}),
    Pattern("", FALSE, {}, {}, TRUE, FALSE, FALSE, {}),
    Bound("size", "<=", 100, "kb", TRUE, {1, 2, 3})},
   \* git:changed !tests/*.py mtime:<1d
   {Git("changed", TRUE, {1, 2, 3}),
    Pattern("!", TRUE, {}, {2}, FALSE, FALSE, TRUE, {1, 3}),
    Bound("mtime", "<", 10, "d", TRUE, {1})},
   \* git:untracked git:staged *.py ! size:>1.5kb mtime:<=1w
   {Git("untracked", TRUE, {2, 3}), Git("staged", FALSE, {}),
    Pattern("", TRUE, {}, {1, 2, 3}, FALSE, FALSE, TRUE, {1, 2, 3}),
    Pattern("!", FALSE, {}, {}, FALSE, TRUE, FALSE, {}),
    Bound("size", ">", 15, "kb", TRUE, {2, 3}),
    Bound("mtime", "<=", 10, "w", FALSE, {})},
   \* mtime:>1 (days) size:<1kib
   {Bound("mtime", ">", 10, "", TRUE, {3}), Bound("size", "<", 10, "kib", FALSE, {})},
   \* lang:*.py
   {Pattern("", TRUE, {}, {}, TRUE, FALSE, FALSE, {})}}

(* graph: a name inside another, a query with an underscore, one symbol within another, an unresolved language *)
MCNameMatch == ("run" :> {"run", "rerun"}) @@ ("len" :> {"len"}) @@ ("r_n" :> {})
MCLikeMatch == ("run" :> {"run", "rerun"}) @@ ("len" :> {"len"}) @@ ("r_n" :> {"run", "rerun"})
Use(path, line, nth, name, lang) ==
  [path |-> path, line |-> line, nth |-> nth, name |-> name, lang |-> lang]
MCIndexSites == {Use(1, 3, 1, "run", "python"), Use(1, 3, 2, "len", "python"),
                 Use(1, 7, 1, "run", "python"), Use(2, 2, 1, "rerun", "ruby")}
Defined(name, path, first, last) == [name |-> name, path |-> path, first |-> first, last |-> last]
MCIndexSymbols == {Defined("run", 1, 1, 6), Defined("rerun", 1, 2, 5), Defined("len", 2, 1, 9)}
MCCbmSites == {Use(1, 3, 1, "run", "python"), Use(1, 3, 2, "len", "python"),
               Use(2, 2, 1, "rerun", "ruby"), Use(2, 4, 1, "run", "go"),
               Use(2, 6, 1, "run", "ruby"), Use(9, 1, 1, "run", "python")}
MCCbmSymbols == MCIndexSymbols \cup {Defined("run", 9, 1, 3)}
MCImportRows == <<{[dots |-> 0, module |-> "m2"]}, {[dots |-> 1, module |-> "m1"]}, {}, {}>>
MCModuleOf == <<"m1", "m2", "m3", "m4">>
MCDirectory == <<1, 2, 1, 3>>
MCPathWords == <<{"user"}, {}, {"user"}, {"order"}>>
MCWords == ("run" :> {}) @@ ("rerun" :> {"rerun"}) @@ ("len" :> {})
MCReasonWeight == [test_match |-> 70, import_graph |-> 65, git_history |-> 60, co_change |-> 62,
                   directory_proximity |-> 35, search_similarity |-> 30,
                   git_modified |-> 50, recent_query |-> 45, frecency |-> 40]
MCCursors == {0, -2, 9}

(* context: three files of which one is a test, and budgets from absurd to tight *)
MCFileHits == ("" :> <<>>) @@ ("login" :> <<1, 2>>)
MCLineHits == ("" :> <<>>) @@ ("login" :> <<2, 3, 1>>)
MCSymbolHits == ("" :> <<[name |-> "c", path |-> 2]>>)
    @@ ("login" :> <<[name |-> "a", path |-> 3], [name |-> "b", path |-> 1], [name |-> "a", path |-> 2]>>)
MCSymbolsIn == <<<<"b">>, <<"a", "c">>, <<"a">>>>
MCLikelyTests == <<<<3>>, <<>>, <<3>>>>
MCRelatedFiles == <<<<2, 3>>, <<1>>, <<1, 2>>>>
MCFindingPath == <<1, 1, 2>>
MCBudgets == {-1, 1, 6}
MCCost == ("" :> 0) @@ ("login" :> 2)

(* triage: an info, a warning, and a warning about the structure of a test *)
MCSeverity == <<0, 1, 1>>
MCRule == <<"dead", "large", "large">>
MCDir == <<"src", "src", "tests">>
MCEffort == [dead |-> [base |-> 1, more |-> 2], large |-> [base |-> 8, more |-> 8]]
MCConfidence == <<60, 90, 90>>
MCChurn == <<0, 5, 9>>
MCFirstStatus == <<{"open"}, {"open", "resolved"}, {"in_progress"}>>

(* refactoring: version 0 is absent, 2 changes a signature, 3 does not parse *)
MCContent == [v \in 0..3 |->
  CASE v = 0 -> [parses |-> TRUE, surface |-> <<>>, branches |-> 0, imports |-> {}]
    [] v = 1 -> [parses |-> TRUE, surface |-> [run |-> "x"], branches |-> 0, imports |-> {1}]
    [] v = 2 -> [parses |-> TRUE, surface |-> [run |-> "x, y"], branches |-> 1, imports |-> {}]
    [] OTHER -> [parses |-> FALSE, surface |-> <<>>, branches |-> 0, imports |-> {}]]
MCFirstDisk == {<<1, 0, 1>>, <<1, 1, 0>>}
Smell(file, smelly, severity, tier, rule, confidence) ==
  [file |-> file, smelly |-> smelly, severity |-> severity, tier |-> tier, rule |-> rule,
   confidence |-> confidence]
MCFlagOf == <<Smell(1, {1, 2}, 1, 1, "large", 90), Smell(1, {1, 2}, 2, 0, "dead", 60),
              Smell(3, {1}, 0, 1, "large", 50)>>

(* import cycles: a package and two modules, absolute and relative imports *)
MCModuleKey == <<<<"pkg">>, <<"pkg", "a">>, <<"pkg", "b">>>>
Imp(level, tail, name) == [level |-> level, tail |-> tail, name |-> name]
MCImports == {Imp(0, <<"pkg">>, <<>>), Imp(0, <<"pkg">>, <<"a">>), Imp(1, <<>>, <<"b">>),
              Imp(3, <<"pkg", "b">>, <<>>), Imp(2, <<"pkg">>, <<"a">>)}

(* git facts: three findings of one rule on two files *)
MCMarkedOf == [f \in Marked |-> [path |-> IF f = 3 THEN 2 ELSE 1, rule |-> "cycle",
                                 flag |-> IF f = 2 THEN "dead" ELSE "hotspot", confidence |-> 90]]

(* reviews: prose, a list with a score out of range, a second list *)
MCTexts == {[form |-> "text", items |-> <<>>], [form |-> "blank", items |-> <<>>],
            [form |-> "array", items |-> <<[what |-> "a", score |-> 120], [what |-> "", score |-> -3]>>],
            [form |-> "array", items |-> <<[what |-> "a", score |-> 40]>>]}
MCNoScore == -1000

(* architecture: five files in three directories *)
MCDirectoryOf == [p \in Sources |-> (<<2, 2, 3, 3, 1>>)[p]]
MCImportPairs == {<<p, q>> \in Sources \X Sources : p < q} \cup {<<2, 1>>}

(* duplicates: renamed copies, other uses of the names, a body below the minimum *)
MCTokens == {<<"a", "b", "a">>, <<"x", "y", "x">>, <<"a", "b", "b">>, <<"", "a", "b">>, <<"b", "a", "c">>, <<"a", "b">>}
MCBody(names, line) ==
  [line |-> line, tokens |-> [i \in DOMAIN names |-> [node |-> IF names[i] = "" THEN "number" ELSE "name",
                                                      name |-> names[i]]]]
MCTrees == {<<>>} \cup {<<MCBody(a, 5)>> : a \in MCTokens} \cup {<<MCBody(a, 5), MCBody(b, 2)>> : a, b \in MCTokens}

-----------------------------------------------------------------------------
Parts == {"search", "graph", "pack", "triage", "refactor", "cycles", "signals",
          "review", "augment", "architecture", "duplicates"}

\* The initial values of a part when it is the one that moves, one of them otherwise.
Only(part, values) == IF focus = part THEN values ELSE {CHOOSE v \in values : TRUE}

AnswersInit ==
  /\ focus \in Parts
  /\ weight \in Only("search", {[p \in Path |-> IF p \in often THEN FrecencyCap ELSE 0] : often \in {{}, {1, 2}}})
  /\ question \in Only("search", [Callers -> Questions])
  /\ cbm \in Only("graph", {"absent", "sick", "up", "failing"})
  /\ session \in IF focus = "graph" THEN [tool : {"references", "callers", "callees", "symbols"},
                                          query : GraphQuery, limit : GraphLimits]
                                         \cup [tool : {"symbol"}, query : AskedNames, limit : GraphLimits]
                                         \cup [tool : {"related", "file"}, query : {"path"}, limit : GraphLimits]
                 ELSE {[tool |-> "file", query |-> "path", limit |-> 0]}
  /\ status \in Only("triage", {s \in [Findings -> Status] : \A f \in Findings : s[f] \in FirstStatus[f]})
  /\ disk \in Only("refactor", FirstDisk)
  /\ parsed \in IF focus = "cycles" THEN [Paths -> {set \in SUBSET Imports : Cardinality(set) <= MaxImports}]
                ELSE {[p \in Paths |-> {}]}
  /\ commits \in IF focus = "signals" THEN Histories
                 ELSE {<<>>}
  /\ smells \in Only("review", SUBSET Smells)
  /\ bashCall \in Only("augment", Commands)
  /\ ranking \in IF focus = "augment" THEN Rankings ELSE {<<>>}
  /\ edges \in IF focus = "architecture" THEN {set \in SUBSET ImportPairs : Cardinality(set) <= MaxEdges}
               ELSE {{}}
  /\ trees \in IF focus = "duplicates" THEN [1..FileCount -> Trees] ELSE {[f \in 1..FileCount |-> <<>>]}
  /\ SearchInit /\ GraphInit /\ PackInit /\ TriageInit /\ RefactorInit
  /\ CyclesInit /\ SignalsInit /\ ReviewInit /\ AugmentInit /\ ArchInit /\ DupInit

SearchStep == focus = "search" /\ SearchNext
    /\ UNCHANGED <<graphVars, packVars, triageVars, planVars, tarjanVars, signalVars,
                   reviewVars, augmentVars, archVars, dupVars>>
GraphStep == focus = "graph" /\ GraphNext
    /\ UNCHANGED <<searchVars, packVars, triageVars, planVars, tarjanVars, signalVars,
                   reviewVars, augmentVars, archVars, dupVars>>
PackStep == focus = "pack" /\ PackNext
    /\ UNCHANGED <<searchVars, graphVars, triageVars, planVars, tarjanVars, signalVars,
                   reviewVars, augmentVars, archVars, dupVars>>
TriageStep == focus = "triage" /\ TriageNext
    /\ UNCHANGED <<searchVars, graphVars, packVars, planVars, tarjanVars, signalVars,
                   reviewVars, augmentVars, archVars, dupVars>>
RefactorStep == focus = "refactor" /\ RefactorNext
    /\ UNCHANGED <<searchVars, graphVars, packVars, triageVars, tarjanVars, signalVars,
                   reviewVars, augmentVars, archVars, dupVars>>
CyclesStep == focus = "cycles" /\ CyclesNext
    /\ UNCHANGED <<searchVars, graphVars, packVars, triageVars, planVars, signalVars,
                   reviewVars, augmentVars, archVars, dupVars>>
SignalsStep == focus = "signals" /\ SignalsNext
    /\ UNCHANGED <<searchVars, graphVars, packVars, triageVars, planVars, tarjanVars,
                   reviewVars, augmentVars, archVars, dupVars>>
ReviewStep == focus = "review" /\ ReviewNext
    /\ UNCHANGED <<searchVars, graphVars, packVars, triageVars, planVars, tarjanVars, signalVars,
                   augmentVars, archVars, dupVars>>
AugmentStep == focus = "augment" /\ AugmentNext
    /\ UNCHANGED <<searchVars, graphVars, packVars, triageVars, planVars, tarjanVars, signalVars,
                   reviewVars, archVars, dupVars>>
ArchStep == focus = "architecture" /\ ArchNext
    /\ UNCHANGED <<searchVars, graphVars, packVars, triageVars, planVars, tarjanVars, signalVars,
                   reviewVars, augmentVars, dupVars>>
DupStep == focus = "duplicates" /\ DupNext
    /\ UNCHANGED <<searchVars, graphVars, packVars, triageVars, planVars, tarjanVars, signalVars,
                   reviewVars, augmentVars, archVars>>

AnswersNext ==
  /\ UNCHANGED focus
  /\ \/ SearchStep \/ GraphStep \/ PackStep \/ TriageStep \/ RefactorStep \/ CyclesStep
     \/ SignalsStep \/ ReviewStep \/ AugmentStep \/ ArchStep \/ DupStep

AnswersSpec == AnswersInit /\ [][AnswersNext]_<<focus, searchVars, graphVars, packVars, triageVars,
    planVars, tarjanVars, signalVars, reviewVars, augmentVars, archVars, dupVars>>
=============================================================================
