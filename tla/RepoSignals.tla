----------------------------- MODULE RepoSignals ------------------------------
(* What is derived from git and from the verdicts on findings: the churn and    *)
(* the coupling of a path, what changed since a ref, the knowledge silos, the   *)
(* quality flags of a path, and the calibration of a rule.                      *)
EXTENDS Integers, Sequences, FiniteSets, SequencesExt, FiniteSetsExt, Ordering

CONSTANTS
  Tracked,       \* paths, as numbers in path order
  HighChurn,     \* _is_excluded_cochange_path: lock files, logs, state
  Authors,
  LogLimit,      \* GIT_LOG_MAX_COMMITS
  CoChangeLimit, \* CO_CHANGE_MAX_RESULTS
  SiloChurn,     \* MIN_SILO_CHURN
  Marked,        \* findings, as numbers
  MarkedOf,      \* finding -> [path, rule, flag, confidence]
  GivenStatuses, \* the statuses a finding is moved to
  SampleSize, Shift, Floor, Threshold,   \* the adaptive settings, in hundredths
  MaxSignalMoves

Accepted == {"resolved"}
Rejected == {"ignored", "wontfix"}
Active == {"in_progress", "needs_review", "open", "regressed"}
\* The statuses in the order of their names.
StatusOrder == <<"ignored", "in_progress", "needs_review", "open", "regressed", "resolved", "wontfix">>

ASSUME SignalsAssumption ==
  /\ Tracked \subseteq Nat \ {0} /\ IsFiniteSet(Tracked) /\ HighChurn \subseteq Tracked
  /\ "none" \notin Authors /\ LogLimit \in Nat \ {0} /\ CoChangeLimit \in Nat
  /\ Marked \subseteq Nat /\ IsFiniteSet(Marked)
  /\ \A f \in Marked : MarkedOf[f].path \in Tracked /\ MarkedOf[f].confidence \in 0..100
  /\ GivenStatuses \subseteq ToSet(StatusOrder)
  /\ SampleSize \in Nat \ {0} /\ Shift \in 0..100 /\ Floor \in 0..100

VARIABLES
  commits,    \* [author, paths] of each commit, the oldest first
  base,       \* how many of them the merge base has
  modified, untracked,   \* the paths git status reports
  verdicts,   \* finding -> its status
  linked,     \* the findings whose row names a row of the files table
  flags,      \* quality_signals_for: the rows it has read, then its answer and the length of the log
  since,      \* git_changed_paths_since: its answer, and what had changed when it began
  signalMoves
signalVars == <<commits, base, modified, untracked, verdicts, linked, flags, since, signalMoves>>

NoFlags == [at |-> "idle", rows |-> {}, of |-> <<>>, log |-> 0]
NoSince == [at |-> "idle", worked |-> FALSE, paths |-> {}, before |-> {}, new |-> {}]

\* No history, a first commit, or that and one that touches a path.
Histories ==
  {<<>>} \cup {<<[author |-> a, paths |-> Tracked]>> : a \in Authors}
  \cup {<<[author |-> a, paths |-> Tracked], [author |-> b, paths |-> {p}]>> : a, b \in Authors, p \in Tracked}

SignalsInit ==
  /\ commits \in Histories
  /\ base = Len(commits) /\ modified = {} /\ untracked = {}
  /\ verdicts = [f \in Marked |-> "open"] /\ linked = Marked
  /\ flags = NoFlags /\ since = NoSince /\ signalMoves = 0

-----------------------------------------------------------------------------
(* The log of git, line by line *)

\* git log --name-only: of the commits that touch one of the paths asked for, the last
\* LogLimit, the latest first; each a header and then its paths, all of them or those
\* asked for.
Latest(history, paths) ==
  LET touches(c) == c.paths \cap paths # {}
      touching == Kept(Reverse(history), touches)
  IN SubSeq(touching, 1, Min({LogLimit, Len(touching)}))

Listed(c, paths, full) == IF full THEN c.paths ELSE c.paths \cap paths
CommitLines(c, paths, full) ==
  LET path == Sorted(Listed(c, paths, full), <)
  IN <<[author |-> c.author, path |-> 0]>> \o [i \in DOMAIN path |-> [author |-> "none", path |-> path[i]]]
Log(history, paths, full) ==
  LET latest == Latest(history, paths)
  IN Chained([k \in DOMAIN latest |-> CommitLines(latest[k], paths, full)])[Len(latest)]

NoCounts == [total |-> [p \in Tracked |-> 0], by |-> [p \in Tracked |-> [a \in Authors |-> 0]],
             pending |-> {}, author |-> "none"]

\* _add_author_churn, and _add_change_counts for the totals: the paths of the commit
\* that has been read count, except those that change all the time.
Adds(acc, p) == IF p \in acc.pending \ HighChurn THEN 1 ELSE 0
Flushed(acc) ==
  IF acc.author = "none" THEN acc
  ELSE [total |-> [p \in Tracked |-> acc.total[p] + Adds(acc, p)],
        by |-> [p \in Tracked |-> [a \in Authors |-> acc.by[p][a] + IF a = acc.author THEN Adds(acc, p) ELSE 0]],
        pending |-> {}, author |-> acc.author]

\* One line: a header ends the commit before it, a path belongs to the commit.
Line(acc, line) ==
  IF line.path = 0 THEN [Flushed(acc) EXCEPT !.author = line.author, !.pending = {}]
  ELSE [acc EXCEPT !.pending = @ \cup {line.path}]

ReadLines(text) ==
  LET after[n \in 0..Len(text)] == IF n = 0 THEN NoCounts ELSE Line(after[n - 1], text[n])
  IN after[Len(text)]

\* Mutant of ChurnIn: the last commit of the log is not counted.
ChurnWithoutLast(history) == ReadLines(Log(history, Tracked, FALSE))

\* git_change_counts and git_author_churn: the end of the log ends its last commit.
ChurnIn(history) == Flushed(ReadLines(Log(history, Tracked, FALSE)))
Churn == ChurnIn(commits)

\* git_co_change_counts: the whole commits of a path, without the path, the most
\* frequent first.
CoChanges(p) ==
  LET counts == Flushed(ReadLines(Log(commits, {p}, TRUE))).total
      oftener(a, b) == counts[a] > counts[b] \/ (counts[a] = counts[b] /\ a < b)
      order == Sorted({q \in Tracked \ {p} : counts[q] > 0}, oftener)
  IN SubSeq(order, 1, Min({CoChangeLimit, Len(order)}))

\* git_related_paths: the same from one git show a commit, without limits.
GitRelated(p) ==
  (UNION {commits[i].paths : i \in {j \in DOMAIN commits : p \in commits[j].paths}}) \ (HighChurn \cup {p})

\* build_knowledge_silo_findings: many commits, and four of five by one author.
Silos ==
  {p \in Tracked : /\ Churn.total[p] >= SiloChurn
                   /\ \E a \in Authors : 5 * Churn.by[p][a] >= 4 * Churn.total[p]}

-----------------------------------------------------------------------------
(* Quality flags *)

ActiveRows == {f \in Marked : verdicts[f] \in Active}

\* _flags_from: size makes a hotspot of a path with commits.
FlagsOf(rows, p, counts) ==
  {MarkedOf[f].flag : f \in {g \in rows : /\ MarkedOf[g].path = p
                                          /\ MarkedOf[g].flag = "hotspot" => counts[p] > 0}}

\* quality_flags_for_paths: the rows that are joined with a row of the files table.
PathFlags(p) == FlagsOf(ActiveRows \cap linked, p, Churn.total)

-----------------------------------------------------------------------------
(* Calibration *)

MarkRank(f) == CHOOSE i \in DOMAIN StatusOrder : StatusOrder[i] = verdicts[f]
RowsOf(rule) == {f \in Marked : MarkedOf[f].rule = rule}

\* members[0].confidence: list_findings orders the rows by status.
BaseConfidence(rule) ==
  MarkedOf[CHOOSE f \in RowsOf(rule) : \A g \in RowsOf(rule) : MarkRank(f) < MarkRank(g) \/ (MarkRank(f) = MarkRank(g) /\ f <= g)].confidence

Clamp(value) == Max({Floor, Min({value, 100})})

\* Mutant of Adjusted: the rate is of the accepted to the rejected.
AdjustedByRatio(rule) ==
  LET accepted == Cardinality({f \in RowsOf(rule) : verdicts[f] \in Accepted})
      rejected == Cardinality({f \in RowsOf(rule) : verdicts[f] \in Rejected})
  IN IF accepted + rejected < SampleSize THEN BaseConfidence(rule)
     ELSE Clamp(BaseConfidence(rule) + (Shift * (rejected - accepted)) \div (accepted + rejected))

\* _rule_calibration and _adjust: with enough verdicts the confidence moves towards the
\* share of them that accepted, by Shift at most, and not below the floor.
Adjusted(rule) ==
  LET accepted == Cardinality({f \in RowsOf(rule) : verdicts[f] \in Accepted})
      rejected == Cardinality({f \in RowsOf(rule) : verdicts[f] \in Rejected})
  IN IF accepted + rejected < SampleSize THEN BaseConfidence(rule)
     ELSE Clamp(BaseConfidence(rule) + (Shift * (accepted - rejected)) \div (accepted + rejected))

\* _suppression_candidates: rules whose findings in one scope are often dismissed.
Candidates ==
  {c \in {<<MarkedOf[f].rule, MarkedOf[f].path>> : f \in Marked} :
     Cardinality({f \in RowsOf(c[1]) : MarkedOf[f].path = c[2] /\ verdicts[f] \in Rejected}) >= Threshold}

-----------------------------------------------------------------------------

SignalMove == signalMoves < MaxSignalMoves /\ signalMoves' = signalMoves + 1

EditPath(p) ==
  /\ SignalMove /\ p \notin modified \cup untracked
  /\ \/ /\ \E i \in DOMAIN commits : p \in commits[i].paths
        /\ modified' = modified \cup {p} /\ UNCHANGED untracked
     \/ /\ \A i \in DOMAIN commits : p \notin commits[i].paths
        /\ untracked' = untracked \cup {p} /\ UNCHANGED modified
  /\ UNCHANGED <<commits, base, verdicts, linked, flags, since>>
GitCommit(author, paths) ==
  /\ SignalMove /\ paths # {} /\ paths \subseteq modified \cup untracked
  /\ commits' = Append(commits, [author |-> author, paths |-> paths])
  /\ modified' = modified \ paths /\ untracked' = untracked \ paths
  /\ UNCHANGED <<base, verdicts, linked, flags, since>>
Branch ==
  /\ SignalMove /\ base < Len(commits)
  /\ base' = Len(commits)
  /\ UNCHANGED <<commits, modified, untracked, verdicts, linked, flags, since>>

\* A verdict on a finding (update_status).
GiveVerdict(f, status) ==
  /\ SignalMove /\ verdicts[f] # status
  /\ verdicts' = [verdicts EXCEPT ![f] = status]
  /\ UNCHANGED <<commits, base, modified, untracked, linked, flags, since>>

\* A reindexed file has a new row, which its findings name after the next scan.
ReplaceFileRow(p) ==
  /\ SignalMove /\ p \in modified
  /\ linked' = {f \in linked : MarkedOf[f].path # p}
  /\ UNCHANGED <<commits, base, modified, untracked, verdicts, flags, since>>
Relink ==
  /\ SignalMove /\ linked # Marked
  /\ linked' = Marked
  /\ UNCHANGED <<commits, base, modified, untracked, verdicts, flags, since>>

\* quality_signals_for: the rows first and then git, which can fail.
ReadRows ==
  /\ flags.at = "idle"
  /\ flags' = [NoFlags EXCEPT !.at = "git", !.rows = ActiveRows]
  /\ UNCHANGED <<commits, base, modified, untracked, verdicts, linked, since, signalMoves>>
ReadLog(works) ==
  /\ flags.at = "git"
  /\ flags' = [flags EXCEPT !.at = "done", !.log = IF works THEN Len(commits) ELSE 0,
                 !.of = [p \in Tracked |-> FlagsOf(flags.rows, p, IF works THEN Churn.total ELSE NoCounts.total)]]
  /\ UNCHANGED <<commits, base, modified, untracked, verdicts, linked, since, signalMoves>>

CommittedSince == UNION {commits[i].paths : i \in base + 1..Len(commits)}

\* git diff merge_base: between the merge base and the working tree.
DiffPaths == CommittedSince \cup modified

\* git_changed_paths_since: the difference to the merge base, then the status; a
\* difference that fails is no answer, a status that fails adds nothing to it.
ReadDiff(diffWorks) ==
  /\ since.at = "idle"
  /\ since' = IF diffWorks THEN [at |-> "status", worked |-> TRUE, paths |-> DiffPaths,
                                 before |-> CommittedSince \cup modified \cup untracked, new |-> untracked]
              ELSE [NoSince EXCEPT !.at = "done"]
  /\ UNCHANGED <<commits, base, modified, untracked, verdicts, linked, flags, signalMoves>>
ReadStatus(statusWorks) ==
  /\ since.at = "status"
  /\ since' = [since EXCEPT !.at = "done", !.worked = statusWorks,
                            !.paths = @ \cup IF statusWorks THEN modified \cup untracked ELSE {}]
  /\ UNCHANGED <<commits, base, modified, untracked, verdicts, linked, flags, signalMoves>>

SignalsNext ==
  \/ \E p \in Tracked : EditPath(p) \/ ReplaceFileRow(p)
  \/ \E a \in Authors, paths \in SUBSET Tracked : GitCommit(a, paths)
  \/ \E f \in Marked, s \in GivenStatuses : GiveVerdict(f, s)
  \/ Branch \/ Relink \/ ReadRows
  \/ \E works \in BOOLEAN : ReadLog(works) \/ ReadDiff(works) \/ ReadStatus(works)

SignalsSpec == SignalsInit /\ [][SignalsNext]_signalVars

-----------------------------------------------------------------------------

\* The log is read as the history is.  A path has as many commits as the last LogLimit
\* of the history hold, each by its author; what is offered as coupled did change with
\* the path; a silo has one author for four of five commits (git_change_counts,
\* git_author_churn, git_co_change_counts, git_related_paths).
SignalsMatchHistory == commits # <<>> =>
  LET recent == SubSeq(commits, Max({1, Len(commits) - LogLimit + 1}), Len(commits))
      churn == Churn
  IN \A p \in Tracked \ HighChurn :
       /\ churn.total[p] = Cardinality({i \in DOMAIN recent : p \in recent[i].paths})
       /\ \A a \in Authors : churn.by[p][a] = Cardinality({i \in DOMAIN recent : p \in recent[i].paths /\ recent[i].author = a})
       /\ ToSet(CoChanges(p)) \subseteq GitRelated(p)
       /\ p \in Silos => \E a \in Authors : Cardinality({i \in DOMAIN recent : p \in recent[i].paths /\ recent[i].author # a})
                                             <= churn.total[p] \div 5

\* What changed since a ref is complete although git is asked twice.  A path that had
\* changed when the difference was read, and whose change was not undone, is in the
\* answer; only a file that was untracked then and is committed by now can fall between
\* the two (git_changed_paths_since).
ChangedSinceIsComplete ==
  since.at = "done" /\ since.worked =>
    \A p \in since.before : p \in since.paths \/ (p \in since.new /\ \E i \in DOMAIN commits : p \in commits[i].paths)

FlagsOn(p, rows) == {MarkedOf[f].flag : f \in {g \in rows : MarkedOf[g].path = p}}

\* quality_signals_for reads the rows, then the log, and ranks with the answer; meanwhile
\* verdicts are given, files are reindexed and commits are made, and quality_flags_for_paths,
\* which joins the files table, annotates the same paths later.  Each flag that one has and
\* the other has not is of a finding that is in one of the two readings only, but for a
\* hotspot: that one is missing where a commit came after the log that was read (after
\* none, when git failed), and stays where newer commits pushed the path out of the log.
FlagsAgree ==
  flags.at = "done" =>
    LET joined == ActiveRows \cap linked
    IN \A p \in Tracked \ HighChurn :
         /\ PathFlags(p) \ flags.of[p] \subseteq
              FlagsOn(p, joined \ flags.rows) \cup
              {m \in {"hotspot"} : \E i \in flags.log + 1..Len(commits) : p \in commits[i].paths}
         /\ flags.of[p] \ PathFlags(p) \subseteq
              FlagsOn(p, flags.rows \ joined) \cup {m \in {"hotspot"} : Churn.total[p] = 0}

Uniform(rule) == \A f, g \in RowsOf(rule) : MarkedOf[f].confidence = MarkedOf[g].confidence
Calibrated(rule) == Cardinality({f \in RowsOf(rule) : verdicts[f] \in Accepted \cup Rejected}) >= SampleSize

\* Verdicts move a calibrated rule the right way: once it has its sample, and while its
\* findings have one confidence, a finding that becomes accepted never lowers the rule's
\* confidence and one that becomes rejected never raises it; while it has its sample it
\* stays within Shift of its base unless the floor lifts it.  Only dismissals make a
\* scope a candidate for suppression (_rule_calibration, _adjust, _suppression_candidates).
VerdictsMoveConfidence ==
  [][\A f \in Marked :
       LET r == MarkedOf[f].rule IN
       /\ verdicts'[f] # verdicts[f] /\ Candidates' # Candidates => verdicts'[f] \in Rejected \/ verdicts[f] \in Rejected
       /\ Uniform(r) /\ Calibrated(r) /\ verdicts'[f] # verdicts[f] =>
           /\ verdicts'[f] \in Accepted => Adjusted(r)' >= Adjusted(r)
           /\ verdicts'[f] \in Rejected => Adjusted(r)' <= Adjusted(r)
           /\ Calibrated(r)' => Adjusted(r)' \in Clamp(BaseConfidence(r) - Shift)..Clamp(BaseConfidence(r) + Shift)]_signalVars

\* "below min_sample_size the base confidence is used unchanged (cold start)"
\* (AdaptiveSettings): a rule without its sample has the confidence it had when none of
\* its findings was touched.
ColdStartUnchanged ==
  \A r \in {MarkedOf[f].rule : f \in Marked} :
    ~Calibrated(r) => Adjusted(r) = MarkedOf[Min(RowsOf(r))].confidence

\* What git says reaches the reader whole: counts, authors, couplings, what changed
\* since a ref and the flags built from them (git.py, quality_signals.py).
HistoryIsReadRight == SignalsMatchHistory /\ ChangedSinceIsComplete /\ FlagsAgree

=============================================================================
