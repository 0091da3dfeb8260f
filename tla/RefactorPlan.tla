----------------------------- MODULE RefactorPlan -----------------------------
(* What a caller asks before and after an edit: the preflight, the plan and the *)
(* tests of a finding, the risk of the diff, and whether the edit kept the      *)
(* public surface.  Each tool makes several reads, of the index, the findings,  *)
(* git and the disk, while files are edited, committed and reindexed.           *)
EXTENDS Integers, Sequences, FiniteSets, SequencesExt, FiniteSetsExt, Ordering

CONSTANTS
  Files,          \* paths, as numbers in path order
  PlanSources,        \* the Python files: what the index can hold
  TestPaths,      \* the sources that are tests
  Content,        \* version -> [parses, surface: symbol -> signature, branches, imports]
  FirstDisk,      \* what can be on disk and in HEAD at the start: path -> version
  Flags,          \* the ids of findings
  FlagOf,         \* id -> [file, smelly: versions of the file, severity, tier, rule, confidence]
  SectionCap,     \* SECTION_ITEM_CAP
  DiffLimit,      \* DEFAULT_CHANGED_FILE_LIMIT
  MinSample, MaxDelta,   \* the adaptive settings: the sample, and the delta in hundredths
  Missing,        \* the version of a path with no file
  MaxPlanMoves

ASSUME RefactorAssumption ==
  /\ Files \subseteq Nat \ {0} /\ IsFiniteSet(Files) /\ Flags \subseteq Nat \ {0} /\ IsFiniteSet(Flags)
  /\ PlanSources \subseteq Files /\ TestPaths \subseteq PlanSources
  /\ \A id \in Flags : /\ FlagOf[id].file \in Files /\ FlagOf[id].confidence \in 0..100
                        /\ FlagOf[id].severity \in 0..2 /\ FlagOf[id].tier \in Nat
  /\ SectionCap \in Nat \ {0} /\ DiffLimit \in Nat \ {0} /\ MinSample \in Nat \ {0} /\ MaxDelta \in 0..100

VARIABLES
  disk,      \* path -> the version in the working tree
  head,      \* path -> the version in HEAD
  landed,   \* the paths of each commit
  indexedAs,   \* path -> the version the index holds
  flagged,      \* the ids in the findings table
  plan,      \* the tool that is running, and what it has read
  verdict,   \* its answer
  suggested, \* the suggested_verifications: how many
  planMoves
planVars == <<disk, head, landed, indexedAs, flagged, plan, verdict, suggested, planMoves>>

NoPath == 0
Unread == [state |-> "unread", files |-> {}, tests |-> {}]
IdlePlan == [tool |-> "none", at |-> "idle", id |-> NoPath, path |-> NoPath, impact |-> Unread, partners |-> {},
             tests |-> {}, diff |-> {}, changed |-> {}, todo |-> <<>>, health |-> <<>>, warnings |-> {},
             asked |-> Missing, after |-> Missing, weights |-> <<>>]
NoVerdict == [tool |-> "none", state |-> "none", plan |-> IdlePlan, ranked |-> <<>>, score |-> 0,
              preserved |-> FALSE, losses |-> {}]

RefactorInit ==
  /\ disk \in FirstDisk /\ head = disk /\ landed = <<{f \in Files : disk[f] # Missing}>>
  /\ indexedAs = [f \in Files |-> IF f \in PlanSources THEN disk[f] ELSE Missing]
  /\ flagged = {id \in Flags : disk[FlagOf[id].file] \in FlagOf[id].smelly}
  /\ plan = IdlePlan /\ verdict = NoVerdict /\ suggested = 0 /\ planMoves = 0

-----------------------------------------------------------------------------
(* What one read finds *)

\* git_changed_paths: modified and untracked files; nothing when git fails.
Changed(gitWorks) == IF gitWorks THEN {f \in Files : disk[f] # head[f]} ELSE {}

Known(f) == indexedAs[f] # Missing
Importers(f) == {g \in Files : Known(g) /\ f \in Content[indexedAs[g]].imports}
PlanTests(f) == TestPaths \cap Importers(f)
RelatedTo(f) == (Importers(f) \cup {g \in Content[indexedAs[f]].imports : Known(g)}) \ {f}

\* _impact_file_signals: an explicit target that is not indexed raises, a finding's
\* file does not.
ImpactOf(f, tolerant) ==
  IF f = NoPath THEN [state |-> "read", files |-> {}, tests |-> {}]
  ELSE IF Known(f)
  THEN [state |-> "read", files |-> {f} \cup RelatedTo(f), tests |-> PlanTests(f) \cup (RelatedTo(f) \cap TestPaths)]
  ELSE IF tolerant THEN [state |-> "read", files |-> {f}, tests |-> {}] ELSE Unread

\* git_co_change_counts: the paths of the commits of a path.
CoChange(f, gitWorks) ==
  IF gitWorks THEN UNION {landed[i] : i \in {j \in DOMAIN landed : f \in landed[j]}} \ {f} ELSE {}

\* _bound: the first of a section, in the order its key gives.
Capped(set, key) ==
  LET sorted == Sorted(set, LAMBDA a, b : key[a] < key[b] \/ (key[a] = key[b] /\ a < b))
  IN ToSet(SubSeq(sorted, 1, Min({SectionCap, Len(sorted)})))

\* select_tests, for one path.
Selected(f) == IF f \in TestPaths THEN {f}
               ELSE IF f \in PlanSources /\ Known(f) THEN PlanTests(f) \cup (RelatedTo(f) \cap TestPaths) ELSE {}

\* get_noise_baseline, weights in hundredths: the more often a rule fires, the less it counts.
NoiseWeight(rule) ==
  LET firing == Cardinality({id \in flagged : FlagOf[id].rule = rule})
  IN IF Cardinality(flagged) < MinSample THEN 100 ELSE 100 - (MaxDelta * firing) \div Cardinality(flagged)

\* rank_findings: severity, tier, confidence times weight, id.
RankBefore(a, b, weight) ==
  LET key(id) == <<-FlagOf[id].severity, FlagOf[id].tier, -FlagOf[id].confidence * weight[FlagOf[id].rule], id>>
      differ == {i \in 1..4 : key(a)[i] # key(b)[i]}
  IN differ # {} /\ key(a)[Min(differ)] < key(b)[Min(differ)]
Weights == [rule \in {FlagOf[id].rule : id \in Flags} |-> NoiseWeight(rule)]

SeverityScore == <<30, 70, 90>>
\* _file_risk_score, in hundredths; the impact's confidence is 50 or 95.
FileRisk(flags, impact) ==
  LET sure == IF Cardinality(impact.files) < 2 THEN 50 ELSE 95
  IN IF flags = {} THEN sure \div 2
     ELSE Max({sure} \cup {SeverityScore[FlagOf[id].severity + 1] : id \in flags}
                     \cup {FlagOf[id].confidence : id \in flags})

\* verify_python_sources: the symbols that are gone or have another signature.
Losses(before, after) ==
  {s \in DOMAIN Content[before].surface :
     s \notin DOMAIN Content[after].surface \/ Content[before].surface[s] # Content[after].surface[s]}

-----------------------------------------------------------------------------
(* The world around the tools *)

World == planMoves < MaxPlanMoves /\ planMoves' = planMoves + 1

Edit(f, version) ==
  /\ World /\ disk[f] # version
  /\ disk' = [disk EXCEPT ![f] = version]
  /\ UNCHANGED <<head, landed, indexedAs, flagged, plan, verdict, suggested>>

Commit ==
  /\ World /\ Changed(TRUE) # {}
  /\ head' = disk
  /\ landed' = Append(landed, Changed(TRUE))
  /\ UNCHANGED <<disk, indexedAs, flagged, plan, verdict, suggested>>

\* CodeHealthService.scan: the index and then the rows follow the disk, in two
\* transactions; one that fails may have done the first.
Indexed == indexedAs' = [f \in Files |-> IF f \in PlanSources THEN disk[f] ELSE Missing]
Scanned == Indexed /\ flagged' = flagged \cup {id \in Flags : disk[FlagOf[id].file] \in FlagOf[id].smelly}
Unscanned == UNCHANGED <<indexedAs, flagged>>
HalfScanned == UNCHANGED flagged /\ (Indexed \/ UNCHANGED indexedAs)

\* ensure_fresh_index: a failing refresh is only reported.
Refreshed(works) == IF works THEN Scanned ELSE HalfScanned

PlanReply(answer) == verdict' = answer /\ plan' = IdlePlan
Running(tool, at) == plan.tool = tool /\ plan.at = at
Step == UNCHANGED <<disk, head, landed, planMoves>>

-----------------------------------------------------------------------------
(* refactor_preflight *)

Ask(tool, id, path) ==
  /\ World /\ plan = IdlePlan /\ verdict = NoVerdict
  /\ plan' = [IdlePlan EXCEPT !.tool = tool, !.at = "first", !.id = id, !.path = path,
                              !.asked = IF path = NoPath THEN Missing ELSE head[path]]
  /\ UNCHANGED <<disk, head, landed, indexedAs, flagged, verdict, suggested>>

\* An exception none of the handlers on the way is for, and the tool fails with it: git's
\* log or show outlives its timeout under the related files of an impact or of a
\* context, a file goes away under an inventory, the database cannot be read.
ReadFails ==
  /\ plan.tool # "verify" /\ plan.at \in {"first", "tests", "select", "changed", "ensure", "score", "context"}
  /\ PlanReply([NoVerdict EXCEPT !.tool = plan.tool, !.state = "failed"])
  /\ Step /\ Unscanned /\ UNCHANGED suggested

\* get_impact without a refresh, for a path or for a finding; a target that is not
\* known becomes a warning, and the path is then the target itself.
PreflightImpact ==
  /\ Running("preflight", "first")
  /\ LET lost == plan.id # NoPath /\ plan.id \notin flagged
         f == IF plan.id = NoPath THEN plan.path ELSE FlagOf[plan.id].file
         impact == IF lost THEN Unread ELSE ImpactOf(f, plan.id # NoPath)
         path == IF impact.state = "read" THEN f ELSE plan.path
     IN plan' = [plan EXCEPT !.at = "partners", !.impact = impact, !.path = path,
                   !.warnings = {w \in {"impact", "target"} : \/ w = "impact" /\ impact.state # "read"
                                                              \/ w = "target" /\ path = NoPath}]
  /\ Step /\ Unscanned /\ UNCHANGED <<verdict, suggested>>

PreflightPartners(gitWorks) ==
  /\ Running("preflight", "partners")
  /\ LET partners == IF plan.path = NoPath THEN {} ELSE CoChange(plan.path, gitWorks)
     IN plan' = [plan EXCEPT !.at = "tests", !.partners = partners,
                   !.warnings = @ \cup IF plan.path # NoPath /\ partners = {} THEN {"co_change"} ELSE {}]
  /\ Step /\ Unscanned /\ UNCHANGED <<verdict, suggested>>

\* select_tests refreshes first: what it reads may be newer than the impact.
PreflightRefresh(works) ==
  /\ Running("preflight", "tests")
  /\ plan' = [plan EXCEPT !.at = "select"]
  /\ Refreshed(works) /\ Step /\ UNCHANGED <<verdict, suggested>>
PreflightTests ==
  /\ Running("preflight", "select")
  /\ plan' = [plan EXCEPT !.at = IF plan.path = NoPath THEN "answer" ELSE "changed",
                          !.tests = IF plan.path = NoPath THEN {} ELSE Selected(plan.path)]
  /\ Step /\ Unscanned /\ UNCHANGED <<verdict, suggested>>

-----------------------------------------------------------------------------
(* review_diff_risk and get_changed_file_health, which is also the last section *)
(* of a preflight                                                               *)

\* _changed_files: only what the index could hold, and at most DiffLimit of them.
ReadChanged(gitWorks) ==
  /\ \/ plan.tool \in {"review", "health"} /\ plan.at = "first"
     \/ Running("preflight", "changed")
  /\ LET diff == {f \in Changed(gitWorks) \cap PlanSources : disk[f] # Missing}
         listed == Sorted(diff, <)
         shown == SubSeq(listed, 1, Min({DiffLimit, Len(listed)}))
     IN plan' = [plan EXCEPT !.at = "ensure", !.diff = diff, !.changed = ToSet(shown),
                             !.todo = IF plan.tool = "review" THEN shown ELSE <<plan.path>>]
  /\ Step /\ Unscanned /\ UNCHANGED <<verdict, suggested>>

\* _ensure_findings, before the weights are read and again before each file: an empty
\* table is scanned; a scan that another writer refuses, or that a file goes away under,
\* makes the call fail.
EnsureFindings(works) ==
  /\ plan.at = "ensure" /\ (~works => flagged = {})
  /\ IF ~works THEN PlanReply([NoVerdict EXCEPT !.tool = plan.tool, !.state = "failed"]) /\ HalfScanned
     ELSE /\ plan' = [plan EXCEPT !.at = "score", !.weights = IF @ = <<>> THEN Weights ELSE @]
          /\ IF flagged = {} THEN Scanned ELSE Unscanned
          /\ UNCHANGED verdict
  /\ Step /\ UNCHANGED suggested

\* Mutant of Unindexed: the lookup error leaves the preflight.
UnindexedFails == PlanReply([NoVerdict EXCEPT !.tool = plan.tool, !.state = "internal"])

\* A file that is not in the index: the preflight warns, the other two tools fail.
Unindexed ==
  IF plan.tool = "preflight"
  THEN /\ plan' = [plan EXCEPT !.at = "answer", !.todo = <<>>, !.warnings = @ \cup {"health"}]
       /\ UNCHANGED verdict
  ELSE PlanReply([NoVerdict EXCEPT !.tool = plan.tool, !.state = "internal"])

\* _get_file_health, one file: its rows, its tests and its impact.
ScoreFile ==
  /\ plan.at = "score" /\ plan.todo # <<>>
  /\ LET f == Head(plan.todo)
         flags == {id \in flagged : FlagOf[id].file = f}
         impact == ImpactOf(f, FALSE)
     IN IF impact.state # "read" THEN Unindexed
        ELSE /\ plan' = [plan EXCEPT !.todo = Tail(@), !.at = "ensure",
                           !.health = Append(@, [file |-> f, flags |-> flags, tests |-> PlanTests(f),
                                                 score |-> FileRisk(flags, impact)])]
             /\ UNCHANGED verdict
  /\ Step /\ Unscanned /\ UNCHANGED suggested

\* The bundle of a preflight, its sections held to the cap.
Bundle ==
  IF plan.tool # "preflight" THEN plan
  ELSE LET last == [f \in Files |-> IF f = plan.path THEN 0 ELSE f]
           often == [f \in Files |-> -Cardinality({i \in DOMAIN landed : {f, plan.path} \subseteq landed[i]})]
       IN [plan EXCEPT !.impact.files = Capped(@, last), !.impact.tests = Capped(@, last),
                       !.tests = Capped(@, last), !.partners = Capped(@, often)]

\* review_diff_risk: the findings of all files, once each and ranked; the highest score.
Answer ==
  /\ \/ plan.at = "answer"
     \/ plan.at = "score" /\ plan.todo = <<>>
  /\ LET health == ToSet(plan.health)
         flags == UNION {h.flags : h \in health}
     IN PlanReply([NoVerdict EXCEPT !.tool = plan.tool, !.state = "answered", !.plan = Bundle,
                 !.ranked = Sorted(flags, LAMBDA a, b : RankBefore(a, b, plan.weights)),
                 !.score = Max({0} \cup {h.score : h \in health})])
  /\ Step /\ Unscanned /\ UNCHANGED suggested

-----------------------------------------------------------------------------
(* plan_refactor, suggest_tests and verify_change of a finding *)

\* get_finding: an unknown id is an error of the caller.
ReadFinding(works) ==
  /\ plan.tool \in {"plan", "verify_change"} /\ plan.at = "first"
  /\ IF plan.id \notin flagged
     THEN PlanReply([NoVerdict EXCEPT !.tool = plan.tool, !.state = "unknown"]) /\ Unscanned
     ELSE /\ plan' = [plan EXCEPT !.at = "context", !.path = FlagOf[plan.id].file]
          /\ Refreshed(works) /\ UNCHANGED verdict
  /\ Step /\ UNCHANGED suggested

\* get_finding_context and suggest_tests: a file that is not indexed has no context
\* and no tests, which is not an error.
ReadContext ==
  /\ plan.at = "context"
  /\ plan' = [plan EXCEPT !.at = IF plan.tool = "plan" THEN "answer" ELSE "record",
                          !.tests = IF Known(plan.path) THEN PlanTests(plan.path) ELSE {}]
  /\ Step /\ Unscanned /\ UNCHANGED <<verdict, suggested>>

\* verify_change: the suggestion is written in a transaction that can be refused.
RecordSuggestion(refused) ==
  /\ plan.at = "record"
  /\ IF refused THEN PlanReply([NoVerdict EXCEPT !.tool = plan.tool, !.state = "refused"]) /\ UNCHANGED suggested
     ELSE /\ suggested' = suggested + 1
          /\ PlanReply([NoVerdict EXCEPT !.tool = plan.tool, !.state = "answered", !.plan = plan])
  /\ Step /\ Unscanned

-----------------------------------------------------------------------------
(* verify_refactor *)

\* The version on disk is read first: an unreadable file or one of another language
\* gives no verdict.
ReadAfter ==
  /\ Running("verify", "first")
  /\ IF plan.path \notin PlanSources \/ disk[plan.path] = Missing
     THEN PlanReply([NoVerdict EXCEPT !.tool = "verify", !.state = "unverifiable"])
     ELSE plan' = [plan EXCEPT !.at = "before", !.after = disk[plan.path]] /\ UNCHANGED verdict
  /\ Step /\ Unscanned /\ UNCHANGED suggested

\* git show of the file at the ref.  When there is none, or git fails, or the ref is
\* unknown, the version before has no symbols: there is nothing to lose.
ReadBefore(gitWorks) ==
  /\ Running("verify", "before")
  /\ LET before == IF gitWorks THEN head[plan.path] ELSE Missing
         losses == Losses(before, plan.after)
     IN IF ~Content[plan.after].parses \/ ~Content[before].parses
        THEN PlanReply([NoVerdict EXCEPT !.tool = "verify", !.state = "unverifiable"])
        ELSE PlanReply([NoVerdict EXCEPT !.tool = "verify", !.state = "answered", !.preserved = losses = {},
                      !.losses = losses,
                      !.plan = [plan EXCEPT !.warnings = IF before = Missing THEN {"no_before"} ELSE {}]])
  /\ Step /\ Unscanned /\ UNCHANGED suggested

RefactorNext ==
  \/ \E f \in Files, v \in DOMAIN Content : Edit(f, v)
  \/ Commit
  \/ \E id \in Flags, tool \in {"preflight", "plan", "verify_change"} : Ask(tool, id, NoPath)
  \/ \E f \in Files, tool \in {"preflight", "health", "verify"} : Ask(tool, NoPath, f)
  \/ Ask("review", NoPath, NoPath)
  \/ PreflightImpact \/ PreflightTests \/ ScoreFile \/ Answer \/ ReadContext \/ ReadAfter \/ ReadFails
  \/ \E works \in BOOLEAN : \/ PreflightPartners(works) \/ PreflightRefresh(works) \/ ReadChanged(works)
                            \/ EnsureFindings(works) \/ ReadFinding(works) \/ RecordSuggestion(works)
                            \/ ReadBefore(works)

RefactorSpec == RefactorInit /\ [][RefactorNext]_planVars

-----------------------------------------------------------------------------

\* No input that is missing fails a preflight: whatever is edited, deleted, committed or
\* reindexed between its sections, it ends in an answer, unless an exception that is not
\* about the input leaves it (ReadFails, EnsureFindings), and each section that is empty
\* for want of an input has its warning ("Missing inputs degrade to an empty section
\* with a reason in warnings").
PreflightDegrades ==
  verdict.tool = "preflight" =>
    LET p == verdict.plan IN
    /\ verdict.state \in {"answered", "failed"}
    /\ verdict.state = "answered" =>
         /\ p.impact.state # "read" => "impact" \in p.warnings
         /\ p.path = NoPath => "target" \in p.warnings
         /\ p.path # NoPath /\ p.partners = {} => "co_change" \in p.warnings
         /\ p.path # NoPath /\ p.health = <<>> => "health" \in p.warnings

\* The review of a diff hides nothing within its limit and puts nothing before something
\* graver.  A diff of at most DiffLimit files is reviewed whole, and of a longer one only
\* files that come later by path are left out; each row it read of each file is ranked
\* once, an error before a warning before an info, and at one severity the verified
\* before the heuristic, however noisy the rule is in this repository; and no file scores
\* above the diff ("Every finding is preserved -- only its rank position changes",
\* rank_findings).
ReviewIsRanked ==
  verdict.tool = "review" /\ verdict.state = "answered" =>
    LET order == verdict.ranked
        reviewed == {h.file : h \in ToSet(verdict.plan.health)}
        diff == verdict.plan.diff
    IN
    /\ Cardinality(diff) <= DiffLimit => reviewed = diff
    /\ reviewed \subseteq diff /\ \A f \in reviewed, g \in diff \ reviewed : f < g
    /\ ToSet(order) = UNION {h.flags : h \in ToSet(verdict.plan.health)}
    /\ Cardinality(ToSet(order)) = Len(order)
    /\ \A i, j \in DOMAIN order : i < j =>
         /\ FlagOf[order[i]].severity >= FlagOf[order[j]].severity
         /\ FlagOf[order[i]].severity = FlagOf[order[j]].severity => FlagOf[order[i]].tier <= FlagOf[order[j]].tier
    /\ \A h \in ToSet(verdict.plan.health) : h.score <= verdict.score

\* A verdict of preserved is proved: the file kept every public symbol, with its
\* signature, that it had in HEAD when the caller asked: "When it cannot prove safety it
\* reports concrete violations rather than blessing a risky change" (verify_refactor).
VerdictIsProved ==
  verdict.tool = "verify" /\ verdict.preserved => Losses(verdict.plan.asked, verdict.plan.after) = {}

\* A report about a change leaves nothing out but what its bounds cut: no section of a
\* preflight, no file and no row of a review (refactor_preflight, review_diff_risk).
ChangeReportsAreWhole == PreflightDegrades /\ ReviewIsRanked

=============================================================================
