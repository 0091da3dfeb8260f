-------------------------------- MODULE Triage --------------------------------
(* What a caller is told to do next: the gated finding list, the backlog, the   *)
(* next improvement, the improvement plan, and the brief that resumes a         *)
(* session.  Each is computed from reads of a table other callers write.        *)
EXTENDS Integers, Sequences, FiniteSets, SequencesExt, FiniteSetsExt, Ordering

CONSTANTS
  Findings,      \* ids, as numbers in id order
  Severity,      \* id -> 0 info, 1 warning, 2 error
  Verified,      \* findings of the verified tier
  TestStructural,\* size and structure findings on test files
  Rule, Dir,     \* id -> its rule and directory
  Effort,        \* rule -> [base, more]: points for one finding, and in tenths for the next
  Confidence,    \* id -> hundredths
  ChurnOf,         \* id -> the commits of its file times the lines of its evidence
  FirstStatus,   \* id -> the statuses it can start with
  ToolNames,
  InlineCap, ActiveLimit, ListedEvents,
  MemberLimit,   \* files a cluster names
  MaxScanned,    \* findings one rescan closes, reopens or finds changed
  MaxTriageMoves

Open == {"open", "in_progress", "needs_review", "regressed"}   \* ACTIONABLE_STATUSES
Status == Open \cup {"resolved", "wontfix"}
NoFinding == 0

ASSUME TriageAssumption ==
  /\ Findings \subseteq Nat \ {0} /\ IsFiniteSet(Findings)
  /\ InlineCap \in Nat /\ ActiveLimit \in Nat \ {0} /\ ListedEvents \in Nat /\ MemberLimit \in Nat \ {0}
  /\ \A f \in Findings :
       /\ FirstStatus[f] \subseteq Status /\ Severity[f] \in 0..2
       /\ ChurnOf[f] \in Nat /\ Confidence[f] \in Nat
       /\ Effort[Rule[f]].base \in Nat \ {0} /\ Effort[Rule[f]].more \in Nat

VARIABLES
  status,    \* id -> its status
  passed,    \* findings with a verification run that exited with 0
  ran,       \* findings with any verification run
  dropped,   \* findings whose runs a scan took away since resume_task read them
  touched,   \* findings with an event or a run, the latest last
  calls,     \* the tool_called events of the session, the oldest first
  resume,    \* resume_task: the reads so far
  brief,     \* its answer
  rescan,    \* rescan: where it is, and what it found regressed
  listed,    \* the last list_findings or improvement plan, and what was stored of it
  triageMoves

triageVars == <<status, passed, ran, dropped, touched, calls, resume, brief, rescan, listed, triageMoves>>

NoResume == [at |-> "idle", rows |-> [f \in Findings |-> "resolved"], acted |-> <<>>,
             good |-> {}, todo |-> {}]
NoBrief == [state |-> "none", active |-> <<>>, verified |-> {}, tools |-> <<>>, top |-> NoFinding,
            last |-> "none"]
NoRescan == [at |-> "idle", back |-> {}, told |-> {}]
NoList == [kind |-> "none", items |-> <<>>, omitted |-> 0, stored |-> <<>>]

TriageInit ==
  /\ status \in [Findings -> Status] /\ \A f \in Findings : status[f] \in FirstStatus[f]
  /\ passed = {} /\ ran = {} /\ dropped = {}
  /\ touched = <<>> /\ calls = <<>>
  /\ resume = NoResume /\ brief = NoBrief /\ rescan = NoRescan /\ listed = NoList
  /\ triageMoves = 0

-----------------------------------------------------------------------------
(* The views, of one read of the table *)

\* gate_findings: at or above the severity asked for, or verified; everything
\* when that is nothing.
Gate(min, all) ==
  LET headline == {f \in Findings : all \/ Severity[f] >= min \/ f \in Verified} IN
  [headline |-> IF headline = {} THEN Findings ELSE headline,
   deferred |-> IF headline = {} THEN {} ELSE Findings \ headline]

StatusFilter == [all |-> Status, open |-> {"open"}, backlog |-> Open, regressed |-> {"regressed"}]

\* _headline_then_tail: the gravest first, and then by id.
BySeverity(set) ==
  Sorted(set, LAMBDA a, b : Severity[a] > Severity[b] \/ (Severity[a] = Severity[b] /\ a < b))

\* list_findings: the headline and then the tail, those with a status of the filter.
ListRowsOf(filter, min, all) ==
  LET kept == {f \in Findings : status[f] \in StatusFilter[filter]} IN
  BySeverity(Gate(min, all).headline \cap kept) \o BySeverity(Gate(min, all).deferred \cap kept)

\* get_backlog, as a set: the headline and the tail.
Backlog(min, all) ==
  {f \in Gate(min, all).headline \cup Gate(min, all).deferred : status[f] \in Open}

\* _finding_priority: test structure last, info after the rest, the most churned first.
Before(a, b) ==
  LET key(f) == <<IF f \in TestStructural THEN 1 ELSE 0, IF Severity[f] = 0 THEN 1 ELSE 0, -ChurnOf[f], f>>
  IN \E i \in 1..4 : key(a)[i] < key(b)[i] /\ \A j \in 1..i - 1 : key(a)[j] = key(b)[j]

\* get_next_improvement: of the headline, by status and then by priority, and
\* never the structure of a test.
NextImprovement(min, all) ==
  LET of(s) == {f \in Gate(min, all).headline \ TestStructural : status[f] = s}
      order == Kept(<<"regressed", "needs_review", "open", "in_progress">>, LAMBDA s : of(s) # {})
  IN IF order = <<>> THEN NoFinding
     ELSE CHOOSE f \in of(Head(order)) : \A g \in of(Head(order)) \ {f} : Before(f, g)

\* _build_clusters: the open findings of the headline, by rule and directory.
Clusters(min, all) ==
  LET planned == {f \in Gate(min, all).headline : status[f] \in Open} IN
  {{g \in planned : Rule[g] = Rule[f] /\ Dir[g] = Dir[f]} : f \in planned}

\* _cluster: what it gains and costs, the weights of its findings and the points.
Gain(cluster) ==
  LET member == Sorted(cluster, <)
      weight(f) == (IF Severity[f] = 0 THEN 1 ELSE 3) * Confidence[f]
  IN Total([n \in 1..Cardinality(cluster) |-> weight(member[n])])
Points(cluster) ==
  LET effort == Effort[Rule[CHOOSE f \in cluster : TRUE]]
  IN effort.base * (10 + (Cardinality(cluster) - 1) * effort.more)

\* Its ratio, rounded to thousandths.
Roi(cluster) == (200 * Gain(cluster) + Points(cluster)) \div (2 * Points(cluster))

\* _cluster_deprioritized: the files it names, the first of them by path, are all tests.
Named(cluster) == {f \in cluster : Cardinality({g \in cluster : g < f}) < MemberLimit}
Deprioritized(cluster) == Named(cluster) \subseteq TestStructural

\* The order of get_improvement_plan: test structure last, the best ratio first.
ClusterBefore(a, b) ==
  \/ Deprioritized(b) /\ ~Deprioritized(a)
  \/ Deprioritized(a) = Deprioritized(b)
     /\ (Roi(a) > Roi(b) \/ (Roi(a) = Roi(b) /\ Min(a) < Min(b)))
ImprovementPlan(min, all) == Sorted(Clusters(min, all), ClusterBefore)

-----------------------------------------------------------------------------
(* The callers *)

Touch(f) == Append(SelectSeq(touched, LAMBDA g : g # f), f)

\* mark_finding: resolved needs a passing run, or becomes needs_review.
Mark(f, s) ==
  /\ triageMoves < MaxTriageMoves
  /\ status' = [status EXCEPT ![f] = IF s = "resolved" /\ f \notin passed THEN "needs_review" ELSE s]
  /\ touched' = Touch(f)
  /\ triageMoves' = triageMoves + 1
  /\ UNCHANGED <<passed, ran, dropped, calls, resume, brief, rescan, listed>>

\* record_verification.
RecordRun(f, exitCode) ==
  /\ triageMoves < MaxTriageMoves
  /\ ran' = ran \cup {f}
  /\ passed' = IF exitCode = 0 THEN passed \cup {f} ELSE passed
  /\ touched' = Touch(f)
  /\ triageMoves' = triageMoves + 1
  /\ UNCHANGED <<status, dropped, calls, resume, brief, rescan, listed>>

\* Any tool that records itself in the trail of the session.
CallTool(tool) ==
  /\ triageMoves < MaxTriageMoves
  /\ calls' = Append(calls, tool)
  /\ triageMoves' = triageMoves + 1
  /\ UNCHANGED <<status, passed, ran, dropped, touched, resume, brief, rescan, listed>>

\* rescan: the scan closes what is gone, reopens what came back and drops the runs of
\* what has another body (_invalidate_stale_verifications), in one transaction; a
\* read after it lists what is regressed.
RescanScans(gone, back, changed) ==
  /\ rescan.at = "idle" /\ triageMoves < MaxTriageMoves
  /\ Cardinality(gone \cup back \cup changed) <= MaxScanned
  /\ \A f \in gone : status[f] \in Open
  /\ \A f \in back : status[f] = "resolved"
  /\ status' = [f \in Findings |-> IF f \in gone THEN "resolved"
                                   ELSE IF f \in back THEN "regressed" ELSE status[f]]
  /\ \A f \in changed : status'[f] # "resolved"
  /\ passed' = passed \ changed /\ ran' = ran \ changed
  /\ dropped' = dropped \cup (ran \cap changed)
  /\ LET acted == gone \cup back \cup (ran \cap changed) IN
     touched' = SelectSeq(touched, LAMBDA g : g \notin acted) \o Sorted(acted, >)
  /\ rescan' = [at |-> "report", back |-> back, told |-> {}]
  /\ triageMoves' = triageMoves + 1
  /\ UNCHANGED <<calls, resume, brief, listed>>
RescanReports ==
  /\ rescan.at = "report"
  /\ rescan' = [rescan EXCEPT !.at = "done", !.told = {f \in Findings : status[f] = "regressed"}]
  /\ UNCHANGED <<status, passed, ran, dropped, touched, calls, resume, brief, listed, triageMoves>>

\* bounded_finding_list and improvement_plan_payload: what is beyond the limit is
\* left out of the answer, and then the whole collection is stored.
BoundedList(kind, rows) ==
  /\ listed = NoList /\ triageMoves < MaxTriageMoves
  /\ triageMoves' = triageMoves + 1
  /\ listed' = [kind |-> kind, items |-> SubSeq(rows, 1, Min({Len(rows), InlineCap})),
                omitted |-> Max({0, Len(rows) - InlineCap}),
                stored |-> IF Len(rows) > InlineCap THEN rows ELSE <<>>]
  /\ UNCHANGED <<status, passed, ran, dropped, touched, calls, resume, brief, rescan>>
ListFindings(filter, min, all) == BoundedList("findings", ListRowsOf(filter, min, all))
GetPlan(min, all) == BoundedList("clusters", ImprovementPlan(min, all))

-----------------------------------------------------------------------------
(* resume_task *)

\* list_findings: the rows, with their events.
ResumeReadsFindings ==
  /\ resume.at = "idle"
  /\ resume' = [at |-> "runs", rows |-> status, acted |-> touched, good |-> {}, todo |-> Findings]
  /\ UNCHANGED <<status, passed, ran, dropped, touched, calls, brief, rescan, listed, triageMoves>>

\* Mutant of ResumeReadsRuns: every run counts as a passing one.
ResumeCountsRuns ==
  /\ resume.at = "runs" /\ resume.todo # {}
  /\ LET f == Min(resume.todo) IN
     /\ resume' = [resume EXCEPT !.todo = @ \ {f}, !.good = IF f \in ran THEN @ \cup {f} ELSE @,
                                 !.acted = IF f \in ran /\ ~Contains(@, f) THEN Append(@, f) ELSE @]
     /\ dropped' = dropped \ {f}
  /\ UNCHANGED <<status, passed, ran, touched, calls, brief, rescan, listed, triageMoves>>

\* list_verification_runs, one read for each finding; a run is an activity of its own.
ResumeReadsRuns ==
  /\ resume.at = "runs" /\ resume.todo # {}
  /\ LET f == Min(resume.todo) IN
     /\ resume' = [resume EXCEPT !.todo = @ \ {f}, !.good = IF f \in passed THEN @ \cup {f} ELSE @,
                                 !.acted = IF f \in ran /\ ~Contains(@, f) THEN Append(@, f) ELSE @]
     /\ dropped' = dropped \ {f}
  /\ UNCHANGED <<status, passed, ran, touched, calls, brief, rescan, listed, triageMoves>>

Recency(f) == IF Contains(resume.acted, f) THEN CHOOSE i \in DOMAIN resume.acted : resume.acted[i] = f ELSE 0
StatusRank == [in_progress |-> 0, regressed |-> 1, needs_review |-> 2, open |-> 3]

\* _active_findings: what was in flight before what was only open, the latest first.
ActiveFindings ==
  LET rank(f) == StatusRank[resume.rows[f]]
      sorted == SetToSortSeq({f \in Findings : resume.rows[f] \in Open},
                  LAMBDA a, b : \/ rank(a) < rank(b)
                                \/ rank(a) = rank(b) /\ Recency(a) > Recency(b)
                                \/ rank(a) = rank(b) /\ Recency(a) = Recency(b) /\ a < b)
  IN SubSeq(sorted, 1, Min({ActiveLimit, Len(sorted)}))

\* list_events, the oldest first and at most ListedEvents of them, and _recent_tools.
RecentTools ==
  FoldLeft(LAMBDA kept, t : IF Contains(kept, t) THEN kept ELSE Append(kept, t), <<>>,
           Reverse(SubSeq(calls, 1, Min({ListedEvents, Len(calls)}))))

\* The events and the ratchet are read last, and _recommend picks the advice.
ResumeAnswers ==
  /\ resume.at = "runs" /\ resume.todo = {}
  /\ LET active == ActiveFindings
         top == IF active = <<>> THEN NoFinding ELSE Head(active)
     IN brief' = [state |-> IF top = NoFinding THEN "nothing_in_progress"
                            ELSE IF top \in resume.good THEN "verified_unresolved" ELSE "in_progress",
                  active |-> active, verified |-> resume.good, tools |-> RecentTools, top |-> top,
                  last |-> IF calls = <<>> THEN "none" ELSE Last(calls)]
  /\ resume' = [resume EXCEPT !.at = "done"]
  /\ UNCHANGED <<status, passed, ran, dropped, touched, calls, rescan, listed, triageMoves>>

TriageNext ==
  \/ \E f \in Findings, s \in Status : Mark(f, s)
  \/ \E f \in Findings, exitCode \in {0, 1} : RecordRun(f, exitCode)
  \/ \E t \in ToolNames : CallTool(t)
  \/ \E gone, back, changed \in SUBSET Findings : RescanScans(gone, back, changed)
  \/ RescanReports
  \/ \E filter \in DOMAIN StatusFilter, min \in 0..2, all \in BOOLEAN : ListFindings(filter, min, all)
  \/ \E min \in 0..2, all \in BOOLEAN : GetPlan(min, all)
  \/ ResumeReadsFindings \/ ResumeReadsRuns \/ ResumeAnswers

TriageSpec == TriageInit /\ [][TriageNext]_triageVars

-----------------------------------------------------------------------------

\* The advice of resume_task keeps until the code changes under it: when it says that a
\* finding is verified and only has to be marked resolved, mark_finding does resolve it,
\* whatever the other callers did between the reads of the brief and after them, unless
\* a scan since then found the finding with another body and dropped its runs.
ResumeAdviceWorks ==
  brief.state = "verified_unresolved" => brief.top \in passed \cup dropped

\* The views agree.  What is offered as the next improvement is in the backlog and is
\* never the structure of a test; the list of the backlog and get_backlog name the same
\* findings whatever the gate; every finding of the improvement plan is in one cluster
\* only; and while there is a next improvement, and no cluster has more files than it
\* names, the plan does not lead with the structure of tests (get_next_improvement,
\* get_backlog, list_findings, get_improvement_plan).
TriageViewsAgree == listed # NoList =>
  \A min \in 0..2 :
    LET next == NextImprovement(min, FALSE)
        plan == ImprovementPlan(min, FALSE)
    IN /\ next # NoFinding => next \in Backlog(min, FALSE) \ TestStructural
       /\ ToSet(ListRowsOf("backlog", min, FALSE)) = Backlog(0, TRUE)
       /\ \A i, j \in DOMAIN plan : i # j => plan[i] \cap plan[j] = {}
       /\ next # NoFinding /\ (\A i \in DOMAIN plan : Cardinality(plan[i]) <= MemberLimit) =>
            plan # <<>> /\ ~(plan[1] \subseteq TestStructural)

\* The recent tools of a brief begin with the last one that was called: "Events arrive
\* oldest-first; reverse for most-recent-first" (_recent_tools).
RecentToolsAreRecent ==
  brief.last # "none" => brief.tools # <<>> /\ Head(brief.tools) = brief.last

\* A repository with open work gets a next improvement: "The headline degrades to the
\* full set when nothing is actionable, so an info-only repo still yields a next
\* improvement" (get_next_improvement).
NextWhenOpen ==
  (\E f \in Findings \ TestStructural : status[f] \in Open) => NextImprovement(1, FALSE) # NoFinding

\* What the tools advise from the findings table keeps and does not contradict itself
\* (resume_task, get_next_improvement, get_backlog, get_improvement_plan).
TriageIsConsistent == ResumeAdviceWorks /\ TriageViewsAgree

=============================================================================
