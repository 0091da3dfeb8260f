-------------------------- MODULE FindingLifecycle --------------------------
(***************************************************************************)
(* The life of a finding in the database: services/code_health.py (scan),  *)
(* services/findings.py (mark_finding, record_verification) and            *)
(* storage/repositories/findings.py.  A scan analyses the files first and  *)
(* writes the result in one write transaction later; marking a finding     *)
(* resolved reads the verification ledger on one connection and writes the *)
(* status on another.  Files, other scans and other clients move on in     *)
(* between.                                                                *)
(***************************************************************************)
EXTENDS Naturals, Sequences

CONSTANTS
    Findings,            \* stable keys (rule, file, symbol, substance)
    Bodies,              \* what _verification_fingerprint keeps of the evidence
    Lines,               \* the line positions it drops
    NoLine,              \* no ignore comment
    NoEvidence,          \* the evidence of a finding without a row
    Scanners,            \* clients running CodeHealthService.scan
    Markers,             \* clients running FindingsService.mark_finding
    Idle,                \* a client between two calls
    ClientStatuses,      \* the statuses, besides resolved, clients ask for
    MaxSites,            \* bound: code sites that share one stable key
    MaxEdits             \* bound: edits of the working tree

Evidence == [body : Bodies, line : Lines]

ASSUME AbsentAssumption ==
    /\ NoEvidence \notin Evidence /\ NoLine \notin Lines
    /\ Idle \notin [Findings -> Seq(Evidence)]
    /\ Idle \notin [finding : Findings, verified : BOOLEAN]
ASSUME BoundAssumption == MaxSites \in Nat \ {0} /\ MaxEdits \in Nat

VARIABLES
    reports,     \* what the rules report of the files as they are now
    directive,   \* the line of the ignore comment near each finding
    noise,       \* the findings is_scan_time_suppressed drops, by their rule and path
    edits,       \* how often the working tree was edited
    status,      \* findings.status, "none" when there is no row
    resolvedAt,  \* the findings whose resolved_at is set
    evidence,    \* findings.evidence_json
    ledger,      \* verification_runs of each finding
    events,      \* finding_events rows the last transaction appended
    snapshot,    \* the findings each scanner computed and has not written
    marking,     \* what each marker read of the ledger and has not acted on
    overtaken    \* the markers whose finding lost its runs to a scan since they read

files == <<reports, directive, noise, edits>>
rows == <<status, resolvedAt, evidence, ledger, events>>
vars == <<files, rows, snapshot, marking, overtaken>>

Actionable == {"open", "in_progress", "regressed", "needs_review"}
Triaged == {"deferred", "wontfix", "ignored"}
FindingStatus == Actionable \cup Triaged \cup {"resolved", "suppressed"}

ASSUME ClientAssumption == ClientStatuses \subseteq FindingStatus \ {"resolved"}

\* The reports that share a stable key, in the order the packs emit them.
Reported == UNION {[1..n -> Evidence] : n \in 0..MaxSites}
Analysis == [Findings -> Reported]

\* A recorded run, with the body it vouches for.  The code does not store
\* the body: it deletes the rows when the body changes.
Run == [passing : BOOLEAN, vouches : Bodies]
Check == [finding : Findings, verified : BOOLEAN]
Event == [finding : Findings,
          type : {"status_changed", "resolved", "regressed", "suppressed",
                  "verification_stale"}]
Log(S, type) == {[finding |-> f, type |-> type] : f \in S}

Fingerprint(e) == e.body
Detected(found) == {f \in Findings : found[f] # <<>>}
Final(found, f) == found[f][Len(found[f])]

Init ==
    /\ reports \in Analysis
    /\ directive = [f \in Findings |-> NoLine]
    /\ noise \in SUBSET Findings
    /\ edits = 0
    /\ status = [f \in Findings |-> "none"]
    /\ resolvedAt = {}
    /\ evidence = [f \in Findings |-> NoEvidence]
    /\ ledger = [f \in Findings |-> {}]
    /\ events = {}
    /\ snapshot = [s \in Scanners |-> Idle]
    /\ marking = [m \in Markers |-> Idle]
    /\ overtaken = {}

-----------------------------------------------------------------------------
(* The working tree *)

\* Someone edits a file: the reports at one key change, or its ignore comment.
Edit(f) ==
    /\ edits < MaxEdits
    /\ edits' = edits + 1
    /\ \E r \in Reported : reports' = [reports EXCEPT ![f] = r]
    /\ \E l \in Lines \cup {NoLine} : directive' = [directive EXCEPT ![f] = l]
    /\ UNCHANGED <<noise, rows, snapshot, marking, overtaken>>

-----------------------------------------------------------------------------
(* CodeHealthService.scan *)

\* _compute_suppressions reads the ignore comments inside the transaction and
\* matches them with the lines the analysis saw.
InlineSuppressed(found) ==
    {f \in Detected(found) : \E i \in DOMAIN found[f] : found[f][i].line = directive[f]}

SuppressedKeys(found) ==
    InlineSuppressed(found) \cup (Detected(found) \cap noise)

\* Mutant of ResolvedAbsent: a regressed finding is forgotten.
ResolvedAbsentIfOpen(found) ==
    {f \in Findings \ Detected(found) : status[f] \in {"open", "in_progress"}}

ResolvedAbsent(found) ==
    {f \in Findings \ Detected(found) : status[f] \in Actionable}

Regressed(found) ==
    {f \in Detected(found) \ SuppressedKeys(found) : status[f] = "resolved"}

\* Mutant of Upsert: it reopens before it suppresses.
UpsertReopensFirst(f, suppressed) ==
    IF status[f] = "suppressed" THEN "open"
    ELSE IF f \in suppressed THEN "suppressed"
    ELSE IF status[f] = "none" THEN "open"
    ELSE IF status[f] = "resolved" THEN "regressed"
    ELSE status[f]

\* The status the upsert leaves; a second report of the same key leaves it.
Upsert(f, suppressed) ==
    IF f \in suppressed THEN "suppressed"
    ELSE IF status[f] \in {"none", "suppressed"} THEN "open"
    ELSE IF status[f] = "resolved" THEN "regressed"
    ELSE status[f]

ScanStatus(found) ==
    [f \in Findings |->
        IF f \in Detected(found) THEN Upsert(f, SuppressedKeys(found))
        ELSE IF f \in ResolvedAbsent(found) THEN "resolved"
        ELSE status[f]]

\* The upsert clears resolved_at of a resolved row, _record_resolved_absent
\* sets it.
ScanResolvedAt(found) ==
    (resolvedAt \ {f \in Detected(found) : status[f] = "resolved"})
        \cup ResolvedAbsent(found)

\* Mutants of Stale: the fingerprints are read after the upsert, or they keep
\* the line positions.
StaleAfterUpsert(found) ==
    {f \in Detected(found) :
        \E i \in DOMAIN found[f] :
            Fingerprint(found[f][i]) # Fingerprint(Final(found, f))}

StaleWhenMoved(found) ==
    {f \in Detected(found) :
        /\ status[f] # "none"
        /\ \E i \in DOMAIN found[f] : found[f][i] # evidence[f]}

\* _invalidate_stale_verifications: some report of the key has another
\* fingerprint than the evidence the row had before the upsert.
Stale(found) ==
    {f \in Detected(found) :
        /\ status[f] # "none"
        /\ \E i \in DOMAIN found[f] :
              Fingerprint(found[f][i]) # Fingerprint(evidence[f])}

ScanLedger(found) ==
    [f \in Findings |-> IF f \in Stale(found) THEN {} ELSE ledger[f]]

\* Mutant of ScanEvents: a suppression is logged again on every scan.
ScanEventsRepeated(found) ==
    Log(ResolvedAbsent(found), "resolved")
        \cup Log(Regressed(found), "regressed")
        \cup Log(InlineSuppressed(found), "suppressed")
        \cup Log({f \in Stale(found) : ledger[f] # {}}, "verification_stale")

ScanEvents(found) ==
    Log(ResolvedAbsent(found), "resolved")
        \cup Log(Regressed(found), "regressed")
        \cup Log({f \in InlineSuppressed(found) : status[f] # "suppressed"},
                 "suppressed")
        \cup Log({f \in Stale(found) : ledger[f] # {}}, "verification_stale")

\* Index, rule packs, changed source and coverage: all before the transaction.
Analyze(s) ==
    /\ snapshot[s] = Idle
    /\ snapshot' = [snapshot EXCEPT ![s] = reports]
    /\ UNCHANGED <<files, rows, marking, overtaken>>

\* The write transaction.
CommitScan(s) ==
    /\ snapshot[s] # Idle
    /\ snapshot' = [snapshot EXCEPT ![s] = Idle]
    /\ LET found == snapshot[s]
       IN  /\ status' = ScanStatus(found)
           /\ resolvedAt' = ScanResolvedAt(found)
           /\ evidence' = [f \in Findings |->
                              IF f \in Detected(found) THEN Final(found, f)
                              ELSE evidence[f]]
           /\ ledger' = ScanLedger(found)
           /\ events' = ScanEvents(found)
           /\ overtaken' = overtaken \cup
                  {m \in Markers : marking[m] # Idle /\ marking[m].finding \in Stale(found)}
    /\ UNCHANGED <<files, marking>>

\* The transaction is refused: the claim, BEGIN IMMEDIATE or COMMIT (StorageLock).
RefuseScan(s) ==
    /\ snapshot[s] # Idle
    /\ snapshot' = [snapshot EXCEPT ![s] = Idle]
    /\ UNCHANGED <<files, rows, marking, overtaken>>

\* _compute_suppressions reads every reported file again; one that was deleted
\* since raises and discards the transaction.
AbortScan(s) ==
    /\ snapshot[s] # Idle
    /\ \E f \in Detected(snapshot[s]) : reports[f] = <<>>
    /\ snapshot' = [snapshot EXCEPT ![s] = Idle]
    /\ UNCHANGED <<files, rows, marking, overtaken>>

-----------------------------------------------------------------------------
(* FindingsService.mark_finding and record_verification.  A finding without *)
(* a row fails on the foreign key of finding_events or verification_runs    *)
(* and changes nothing.                                                     *)

SetStatus(f, new) ==
    /\ status' = [status EXCEPT ![f] = new]
    /\ resolvedAt' = IF new = "resolved" THEN resolvedAt \cup {f}
                     ELSE resolvedAt \ {f}
    /\ events' = Log({f}, "status_changed")
    /\ UNCHANGED <<evidence, ledger>>

\* Any status but resolved is written at once.
Mark(m, f) ==
    /\ marking[m] = Idle
    /\ status[f] # "none"
    /\ \E new \in ClientStatuses : SetStatus(f, new)
    /\ UNCHANGED <<files, snapshot, marking, overtaken>>

\* Mutant of HasPassingVerification: the exit code is not tested.
HasVerification(f) == ledger[f] # {}

HasPassingVerification(f) == \E run \in ledger[f] : run.passing

\* mark_finding(resolved) reads the ledger.
CheckVerification(m, f) ==
    /\ marking[m] = Idle
    /\ status[f] # "none"
    /\ marking' = [marking EXCEPT
                      ![m] = [finding |-> f, verified |-> HasPassingVerification(f)]]
    /\ overtaken' = overtaken \ {m}
    /\ UNCHANGED <<files, rows, snapshot>>

\* ... and then writes resolved, or needs_review when the gate is closed.
UpdateStatus(m) ==
    /\ marking[m] # Idle
    /\ SetStatus(marking[m].finding,
                 IF marking[m].verified THEN "resolved" ELSE "needs_review")
    /\ marking' = [marking EXCEPT ![m] = Idle]
    /\ UNCHANGED <<files, snapshot, overtaken>>

\* A client reports the outcome of a command it ran for the finding.
RecordVerification(f) ==
    /\ status[f] # "none"
    /\ \E passing \in BOOLEAN :
          ledger' = [ledger EXCEPT
                        ![f] = @ \cup {[passing |-> passing,
                                        vouches |-> Fingerprint(evidence[f])]}]
    /\ events' = {}
    /\ UNCHANGED <<files, status, resolvedAt, evidence, snapshot, marking, overtaken>>

-----------------------------------------------------------------------------
Next ==
    \/ \E f \in Findings : Edit(f) \/ RecordVerification(f)
    \/ \E s \in Scanners : Analyze(s) \/ CommitScan(s) \/ RefuseScan(s) \/ AbortScan(s)
    \/ \E m \in Markers :
          \/ UpdateStatus(m)
          \/ \E f \in Findings : Mark(m, f) \/ CheckVerification(m, f)

Spec == Init /\ [][Next]_vars

\* A client that keeps rescanning, and never stops inside a call.  Its transaction
\* is not refused forever: whoever holds the lock ends (NobodyHangs in StorageLock).
Fairness ==
    /\ \A s \in Scanners : WF_vars(Analyze(s)) /\ SF_vars(CommitScan(s))
    /\ \A m \in Markers : WF_vars(UpdateStatus(m))

FairSpec == Spec /\ Fairness
-----------------------------------------------------------------------------
(* Properties *)

\* The variables take the values the code gives them, and a finding has
\* evidence exactly when it has a row.
TypeOK ==
    /\ reports \in Analysis
    /\ directive \in [Findings -> Lines \cup {NoLine}]
    /\ noise \subseteq Findings
    /\ edits \in 0..MaxEdits
    /\ status \in [Findings -> FindingStatus \cup {"none"}]
    /\ resolvedAt \subseteq Findings
    /\ evidence \in [Findings -> Evidence \cup {NoEvidence}]
    /\ \A f \in Findings : status[f] = "none" <=> evidence[f] = NoEvidence
    /\ ledger \in [Findings -> SUBSET Run]
    /\ events \subseteq Event
    /\ snapshot \in [Scanners -> Analysis \cup {Idle}]
    /\ marking \in [Markers -> Check \cup {Idle}]
    /\ overtaken \subseteq Markers

\* resolved_at is set exactly on resolved findings, although the upsert, the
\* absence pass and update_status maintain it separately.
ResolvedAtIffResolved == \A f \in Findings : f \in resolvedAt <=> status[f] = "resolved"

\* Every run in the ledger vouches for the body the row now shows, whatever
\* order scans and record_verification commit in
\* (_invalidate_stale_verifications).
LedgerMatchesEvidence ==
    \A f \in Findings : \A run \in ledger[f] : run.vouches = Fingerprint(evidence[f])

\* Several sites of one key show different bodies.
Twins(found, f) ==
    \E i, j \in DOMAIN found[f] : Fingerprint(found[f][i]) # Fingerprint(found[f][j])

\* A run leaves the ledger only in a scan that changed the body the row shows, or that
\* found the key at two sites with two bodies: a shift of lines, in any interleaving
\* of scans, edits and verifications, drops none (_invalidate_stale_verifications).
LedgerDropsOnlyOnBodyChange ==
    [][\A f \in Findings :
          ~(ledger[f] \subseteq ledger'[f]) =>
              \/ Fingerprint(evidence'[f]) # Fingerprint(evidence[f])
              \/ \E s \in Scanners : CommitScan(s) /\ Twins(snapshot[s], f)]_vars

\* A finding becomes resolved only when the scan that commits did not report
\* it, or when the ledger holds a passing run for the body the row shows:
\* "resolution requires a passing verification or a clean rescan".
Earned(f) ==
    \/ \E s \in Scanners : CommitScan(s) /\ snapshot[s][f] = <<>>
    \/ \E run \in ledger[f] : run.passing /\ run.vouches = Fingerprint(evidence[f])

ResolvedIsEarned ==
    [][\A f \in Findings :
          (status[f] # "resolved" /\ status'[f] = "resolved") => Earned(f)]_vars

\* The only way past that gate is a scan that invalidates the runs of the finding
\* between the gate's read and the write (mark_finding's two connections).
OnlyOvertakenIsUnearned ==
    [][\A f \in Findings :
          (status[f] # "resolved" /\ status'[f] = "resolved") =>
              \/ Earned(f)
              \/ \E m \in overtaken : UpdateStatus(m) /\ marking[m].finding = f]_vars

\* What a scan writes agrees with what it found: no reported finding stays
\* resolved or without a row, no unreported one stays actionable.
ScanReconciles ==
    [][\A s \in Scanners : CommitScan(s) =>
          \A f \in Findings :
              IF f \in Detected(snapshot[s]) THEN status'[f] \notin {"none", "resolved"}
              ELSE status'[f] \notin Actionable]_vars

\* A scan does not overturn what a person decided: a deferred, wontfix or
\* ignored finding changes only to suppressed.
TriageSurvivesScan ==
    [][\A s \in Scanners : CommitScan(s) =>
          \A f \in Findings :
              status[f] \in Triaged => status'[f] \in {status[f], "suppressed"}]_vars

\* The changes of status a scan appends no event for: a new row, a suppression that
\* ends, and the noise gate.
Silent(f) ==
    \/ status[f] \in {"none", "suppressed"} /\ status'[f] = "open"
    \/ f \in noise /\ status'[f] = "suppressed"

\* The events a scan appends, computed from the rows read before the upsert, are the
\* changes its CASE made: resolved, regressed, the suppressions by a comment and the
\* loss of verifications, each exactly when it happens.  No other status changes but
\* the silent ones (_resolved_absent_ids, _regressed_ids, _record_suppressions).
EventsMatchTransitions ==
    [][\A s \in Scanners : CommitScan(s) =>
          \A f \in Findings :
              LET logged == {e.type : e \in {x \in events' : x.finding = f}}
                  becomes(new) == status[f] # new /\ status'[f] = new
              IN  /\ "resolved" \in logged <=> becomes("resolved")
                  /\ "regressed" \in logged <=> becomes("regressed")
                  /\ "suppressed" \in logged <=>
                         becomes("suppressed") /\ f \in InlineSuppressed(snapshot[s])
                  /\ "verification_stale" \in logged <=> ledger'[f] # ledger[f]
                  /\ status'[f] # status[f] =>
                         Silent(f) \/ logged \cap {"resolved", "regressed", "suppressed"} # {}
       ]_vars

\* Writing the same analysis again changes no status and closes nothing: a
\* rescan of unchanged files is a no-op.
RescanIsIdempotent ==
    [][\A s \in Scanners : CommitScan(s) =>
          \A found \in {snapshot[s]} :
              ScanStatus(found)' = status' /\ ScanResolvedAt(found)' = resolvedAt']_vars

\* Under repeated scans the database keeps catching up with the files, even
\* when an older scan commits after a newer one.
EventuallyReconciled ==
    \A f \in Findings :
        []<>(IF reports[f] # <<>> THEN status[f] \notin {"none", "resolved"}
             ELSE status[f] \notin Actionable)
=============================================================================
