------------------------------- MODULE Ratchet -------------------------------
(* `codescent ci`: the gate compares a scan with the accepted baseline, which   *)
(* --update-baseline replaces.  The gate reads the baseline's three tables on   *)
(* separate connections.                                                        *)
EXTENDS Integers, FiniteSets, FiniteSetsExt

CONSTANTS Site,           \* places a finding is reported at: [key, file, severity, transient]
          Indexed,        \* the files the index has rows for; Go and other files have none
          MaxReports,     \* changes of what is reported
          NoReport

ASSUME SiteAssumption == IsFiniteSet(Site) /\ \A s \in Site : s.severity \in {"error", "warning", "info"}

VARIABLES reported,   \* the sites a scan reports now
          silenced,   \* the keys that are suppressed
          health,     \* health_baseline: the count of each file, or {} before any
          accepted,   \* baseline_meta has its row
          baseline,   \* finding_baseline: the stable keys
          gate,       \* the run: where it is, its options, what it has read
          update,     \* --update-baseline: where it is, and its scan
          report,     \* the last CiReport
          settled,    \* ghost: nothing changed since the scan the baseline was taken from
          reports

tables == <<health, accepted, baseline>>
ratchetVars == <<reported, silenced, health, accepted, baseline, gate, update, report,
                 settled, reports>>

Keys(sites) == {s.key : s \in sites}
File == {s.file : s \in Site}
NoGate == [at |-> "idle", active |-> {}, counts |-> {}, accepted |-> FALSE, health |-> FALSE,
           scope |-> File, failOn |-> "error", net |-> FALSE, ratchet |-> FALSE,
           settled |-> FALSE]
NoUpdate == [at |-> "idle", active |-> {}, settled |-> FALSE]

RatchetInit ==
    /\ reported = {} /\ silenced = {}
    /\ health = {} /\ accepted = FALSE /\ baseline = {}
    /\ gate = NoGate /\ update = NoUpdate
    /\ report = NoReport
    /\ settled = FALSE
    /\ reports = 0

-----------------------------------------------------------------------------
(* The world around *)

\* The files, their ignore comments or the rules change what a scan reports.
Change ==
    /\ reports < MaxReports
    /\ reports' = reports + 1
    /\ \/ reported' \in SUBSET Site /\ reported' # reported /\ UNCHANGED silenced
       \/ silenced' \in SUBSET Keys(Site) /\ Cardinality(silenced') <= 1
          /\ silenced' # silenced /\ UNCHANGED reported
    /\ settled' = FALSE
    /\ update' = [update EXCEPT !.settled = FALSE]
    /\ gate' = IF gate.at = "begun" THEN gate ELSE [gate EXCEPT !.settled = FALSE]
    /\ UNCHANGED <<health, accepted, baseline, report>>

\* CodeHealthScanResult.active_findings.
Active == {s \in reported : s.key \notin silenced}

\* _ratchet_findings: without the rule that depends on the index's changed files.
Stable(sites) == {s \in sites : ~s.transient}

\* The pairs the health baseline keeps: the count of each file that has a row in the
\* index, and of no other.
CountsOf(sites) == {<<f, Cardinality({s \in sites : s.file = f})>> : f \in File \cap Indexed}

-----------------------------------------------------------------------------
(* update_baseline *)

\* A baseline of a release before the stable keys has counts only.
AcceptOldRelease ==
    /\ ~accepted /\ health = {} /\ update.at = "idle"
    /\ health' = CountsOf(Active)
    /\ UNCHANGED <<reported, silenced, accepted, baseline, gate, update, report, settled, reports>>

UpdateScans ==
    /\ update.at = "idle"
    /\ update' = [at |-> "scanned", active |-> Active, settled |-> TRUE]
    /\ UNCHANGED <<reported, silenced, health, accepted, baseline, gate, report, settled, reports>>

\* finding_baseline.stable_key is unique: two sites with one key break the insert.
Twins(sites) == \E s, t \in sites : s # t /\ s.key = t.key

\* Mutant of UpdateCommits: the rule outside the comparison is recorded too.
UpdateCommitsAll ==
    /\ update.at = "scanned" /\ ~Twins(Stable(update.active))
    /\ health' = CountsOf(update.active)
    /\ baseline' = Keys(update.active)
    /\ accepted' = TRUE
    /\ settled' = update.settled
    /\ gate' = [gate EXCEPT !.settled = FALSE]
    /\ update' = NoUpdate
    /\ UNCHANGED <<reported, silenced, report, reports>>

\* One transaction replaces the three tables.
UpdateCommits ==
    /\ update.at = "scanned" /\ ~Twins(Stable(update.active))
    /\ health' = CountsOf(update.active)
    /\ baseline' = Keys(Stable(update.active))
    /\ accepted' = TRUE
    /\ settled' = update.settled
    /\ gate' = [gate EXCEPT !.settled = FALSE]
    /\ update' = NoUpdate
    /\ UNCHANGED <<reported, silenced, report, reports>>

UpdateRaises ==
    /\ update.at = "scanned" /\ Twins(Stable(update.active))
    /\ update' = [NoUpdate EXCEPT !.at = "raised"]
    /\ UNCHANGED <<reported, silenced, health, accepted, baseline, gate, report, settled, reports>>

\* IntegrityError ends the command; somebody calls it again.
UpdateEnds ==
    /\ update.at = "raised"
    /\ update' = NoUpdate
    /\ UNCHANGED <<reported, silenced, health, accepted, baseline, gate, report, settled, reports>>

-----------------------------------------------------------------------------
(* CiService.run *)

GateSteps(from, next) == gate.at = from /\ gate' = next /\ report' = NoReport
    /\ UNCHANGED <<reported, silenced, health, accepted, baseline, update, settled, reports>>

\* The options of the command and the ratchet section of the configuration.  Without
\* a base ref, or when git cannot tell, the scope is every file.
GateBegins ==
    \E ratchet, net \in BOOLEAN, scope \in {File, {}} \cup {{f} : f \in File},
       failOn \in {"error", "info"} :
        /\ ratchet \/ (~net /\ scope = File /\ failOn = "error")
        /\ GateSteps("idle", [NoGate EXCEPT !.at = "begun", !.ratchet = ratchet, !.net = net,
                                        !.scope = scope, !.failOn = failOn,
                                        !.settled = settled])

GateScans ==
    GateSteps("begun", [gate EXCEPT !.at = IF gate.ratchet THEN "scanned" ELSE "read",
                                !.active = Active, !.settled = settled])

GateReadsCounts == GateSteps("scanned", [gate EXCEPT !.at = "counted", !.counts = health])

GateReadsAccepted ==
    GateSteps("counted", [gate EXCEPT !.at = "accepted", !.accepted = accepted])

GateReadsHealth ==
    GateSteps("accepted", [gate EXCEPT !.at = "read", !.health = health # {}])

Rank(severity) == CASE severity = "error" -> 0 [] severity = "warning" -> 1 [] OTHER -> 2

\* _scan_risk_level and _risk_rank.
RiskRank(sites) ==
    IF \E s \in sites : s.severity \in {"error", "warning"} THEN 3
    ELSE IF sites # {} THEN 2 ELSE 1

\* The keys of the baseline that are not active any more, in any file.
Resolved(keys) == keys \ Keys(Stable(gate.active))

New(keys) == {s \in Stable(gate.active) : s.file \in gate.scope /\ s.key \notin keys}

\* _has_blocking_new and the net health, without an accepted baseline nothing.
Blocks(new) == \E s \in new : Rank(s.severity) <= Rank(gate.failOn)

\* _health_from_scan: a file with more findings than its baseline count regressed; a
\* file without a count has a baseline of none.
Regressed ==
    {f \in {s.file : s \in gate.active} :
        \A n \in 0..Cardinality(Site) : <<f, n>> \in gate.counts =>
            Cardinality({s \in gate.active : s.file = f}) > n}

\* The gate: new debt when it ratchets, the risk level against the threshold else.
Report ==
    /\ gate.at = "read"
    /\ \E threshold \in {2, 3} :
        LET new == IF gate.accepted THEN New(baseline) ELSE {}
            resolved == IF gate.accepted THEN Resolved(baseline) ELSE {}
            net == Cardinality(resolved) - Cardinality(new)
        IN  report' =
              [ok |-> IF gate.ratchet THEN ~Blocks(new) /\ ~(gate.net /\ net < 0)
                      ELSE RiskRank(gate.active) < threshold,
               ratchet |-> gate.ratchet, new |-> Cardinality(new),
               resolved |-> Cardinality(resolved),
               regressed |-> IF gate.ratchet THEN Regressed ELSE {},
               exists |-> gate.ratchet => gate.accepted \/ gate.health,
               stale |-> gate.ratchet /\ gate.health /\ ~gate.accepted,
               settled |-> gate.settled]
    /\ gate' = NoGate
    /\ UNCHANGED <<reported, silenced, health, accepted, baseline, update, settled, reports>>

RatchetNext ==
    \/ Change \/ AcceptOldRelease
    \/ UpdateScans \/ UpdateCommits \/ UpdateRaises \/ UpdateEnds
    \/ GateBegins \/ GateScans \/ GateReadsCounts \/ GateReadsAccepted \/ GateReadsHealth \/ Report

RatchetSpec == RatchetInit /\ [][RatchetNext]_ratchetVars

-----------------------------------------------------------------------------
(* Properties *)

\* The debt a team has accepted never fails its build: a gate that runs with nothing
\* changed since the baseline's scan passes whatever its options are, with nothing
\* new, resolved or stale, and no file of the index regressed (ci.py:123, :146).  A
\* file outside the index has no count in the baseline (ci.py:206) and is listed as
\* regressed for as long as it has a finding; that list does not fail the build.
AcceptedDebtPasses ==
    report # NoReport /\ report.ratchet /\ report.settled =>
        /\ report.ok /\ report.new = 0 /\ report.resolved = 0
        /\ report.regressed \cap Indexed = {} /\ ~report.stale /\ report.exists

\* Accepting a baseline never fails: --update-baseline takes the current findings,
\* whatever they are (cli/reporting.py:271).
AcceptSucceeds == update.at # "raised"
=============================================================================
