----------------------- MODULE FindingLifecycle_proofs -----------------------
(***************************************************************************)
(* Proofs about FindingLifecycle for every set of findings, bodies, lines, *)
(* scanners and markers and any number of sites per stable key.            *)
(***************************************************************************)
EXTENDS FindingLifecycle, TLAPS

\* A finding without a row has no ledger.
NoRowNoRuns == \A f \in Findings : status[f] = "none" => ledger[f] = {}

\* A marker between its two connections checked a finding with a row; rows are
\* never deleted.
CheckedHasRow ==
    \A m \in Markers : marking[m] # Idle => status[marking[m].finding] # "none"

\* ResolvedAtIffResolved is inductive on its own; LedgerMatchesEvidence needs
\* NoRowNoRuns, since the scan that inserts a row compares no fingerprint.
IInv ==
    /\ TypeOK
    /\ ResolvedAtIffResolved
    /\ NoRowNoRuns
    /\ LedgerMatchesEvidence
    /\ CheckedHasRow

-----------------------------------------------------------------------------
\* What an analysis reports at one key is a sequence with a last element.
LEMMA ReportedIsSequence ==
    ASSUME NEW r \in Reported
    PROVE  /\ DOMAIN r = 1..Len(r)
           /\ \A i \in DOMAIN r : r[i] \in Evidence
           /\ r # <<>> => Len(r) \in DOMAIN r
<1>1. PICK n \in 0..MaxSites : r \in [1..n -> Evidence]
  BY DEF Reported
<1>2. n \in Nat
  BY <1>1, BoundAssumption
<1>3. Len(r) = n /\ DOMAIN r = 1..n
  BY <1>1, <1>2
<1>4. n = 0 => r = <<>>
  BY <1>1, <1>2
<1> QED BY <1>1, <1>2, <1>3, <1>4

\* The evidence a scan writes is evidence one of its reports has.
LEMMA FinalIsReported ==
    ASSUME NEW found \in Analysis, NEW f \in Detected(found)
    PROVE  /\ f \in Findings
           /\ Final(found, f) \in Evidence
           /\ \E i \in DOMAIN found[f] : Final(found, f) = found[f][i]
<1>1. f \in Findings /\ found[f] \in Reported /\ found[f] # <<>>
  BY DEF Detected, Analysis
<1> QED BY <1>1, ReportedIsSequence DEF Final

\* A scanner that has something to write holds an analysis.
LEMMA SnapshotIsAnalysis ==
    ASSUME TypeOK, NEW s \in Scanners, snapshot[s] # Idle
    PROVE  snapshot[s] \in Analysis
BY DEF TypeOK

\* A marker between its two connections holds a check.
LEMMA MarkingIsCheck ==
    ASSUME TypeOK, NEW m \in Markers, marking[m] # Idle
    PROVE  marking[m] \in Check
BY DEF TypeOK

-----------------------------------------------------------------------------
\* The initial states satisfy the invariant.
LEMMA InitIInv == Init => IInv
BY BoundAssumption, AbsentAssumption
   DEF Init, IInv, TypeOK, ResolvedAtIffResolved, NoRowNoRuns,
       LedgerMatchesEvidence, CheckedHasRow, FindingStatus, Event

\* What the status column of a scan's rows becomes.
LEMMA ScanStatusType ==
    ASSUME TypeOK, NEW found \in Analysis
    PROVE  /\ ScanStatus(found) \in [Findings -> FindingStatus \cup {"none"}]
           /\ \A f \in Findings :
                 ScanStatus(found)[f] = "none" <=>
                     status[f] = "none" /\ f \notin Detected(found)
<1> DEFINE sup == SuppressedKeys(found)
<1>1. ASSUME NEW f \in Findings
      PROVE  /\ Upsert(f, sup) \in FindingStatus
             /\ Upsert(f, sup) # "none"
  BY <1>1 DEF TypeOK, Upsert, FindingStatus, Actionable, Triaged
<1>2. \A f \in ResolvedAbsent(found) : status[f] # "none"
  BY DEF ResolvedAbsent, Actionable
<1>3. ASSUME NEW f \in Findings
      PROVE  /\ ScanStatus(found)[f] \in FindingStatus \cup {"none"}
             /\ ScanStatus(found)[f] = "none" <=>
                    status[f] = "none" /\ f \notin Detected(found)
  <2>1. CASE f \in Detected(found)
    BY <1>1, <2>1 DEF ScanStatus
  <2>2. CASE f \notin Detected(found) /\ f \in ResolvedAbsent(found)
    BY <1>2, <2>2 DEF ScanStatus, FindingStatus
  <2>3. CASE f \notin Detected(found) /\ f \notin ResolvedAbsent(found)
    BY <2>3 DEF ScanStatus, TypeOK
  <2> QED BY <2>1, <2>2, <2>3
<1> QED BY <1>3 DEF ScanStatus

\* A scan appends well-formed events.
LEMMA ScanEventsType == ASSUME NEW found PROVE ScanEvents(found) \subseteq Event
<1>1. ASSUME NEW S, S \subseteq Findings,
             NEW type \in {"resolved", "regressed", "suppressed", "verification_stale"}
      PROVE  Log(S, type) \subseteq Event
  BY <1>1 DEF Log, Event
<1>2. /\ ResolvedAbsent(found) \subseteq Findings
      /\ Regressed(found) \subseteq Findings
      /\ {f \in InlineSuppressed(found) : status[f] # "suppressed"} \subseteq Findings
      /\ {f \in Stale(found) : ledger[f] # {}} \subseteq Findings
  BY DEF ResolvedAbsent, Regressed, InlineSuppressed, Stale, Detected
<1> QED BY <1>1, <1>2 DEF ScanEvents

\* Setting one status keeps the types and the resolved_at column right.
LEMMA SetStatusStep ==
    ASSUME IInv, NEW f \in Findings, status[f] # "none",
           NEW new \in FindingStatus, SetStatus(f, new)
    PROVE  /\ status' \in [Findings -> FindingStatus \cup {"none"}]
           /\ resolvedAt' \subseteq Findings
           /\ events' \subseteq Event
           /\ \A g \in Findings : status'[g] = "none" <=> evidence'[g] = NoEvidence
           /\ ResolvedAtIffResolved' /\ NoRowNoRuns' /\ LedgerMatchesEvidence'
           /\ \A g \in Findings : status[g] # "none" => status'[g] # "none"
<1>1. \A g \in Findings : status'[g] = IF g = f THEN new ELSE status[g]
  BY DEF SetStatus, IInv, TypeOK
<1>2. new # "none"
  BY DEF FindingStatus, Actionable, Triaged
<1>3. status' \in [Findings -> FindingStatus \cup {"none"}]
  BY DEF SetStatus, IInv, TypeOK
<1>4. events' \subseteq Event
  BY DEF SetStatus, Log, Event
<1>5. resolvedAt' \subseteq Findings /\ ResolvedAtIffResolved'
  BY <1>1 DEF SetStatus, IInv, TypeOK, ResolvedAtIffResolved
<1>6. /\ \A g \in Findings : status'[g] = "none" <=> evidence'[g] = NoEvidence
      /\ NoRowNoRuns' /\ LedgerMatchesEvidence'
  BY <1>1, <1>2 DEF SetStatus, IInv, TypeOK, NoRowNoRuns, LedgerMatchesEvidence
<1> QED BY <1>1, <1>2, <1>3, <1>4, <1>5, <1>6

\* The write transaction of a scan.
LEMMA CommitScanStep ==
    ASSUME IInv, NEW s \in Scanners, CommitScan(s)
    PROVE  IInv'
<1> DEFINE found == snapshot[s]
<1>1. found \in Analysis
  BY SnapshotIsAnalysis DEF CommitScan, IInv
<1>2. /\ status' = ScanStatus(found)
      /\ resolvedAt' = ScanResolvedAt(found)
      /\ ledger' = ScanLedger(found)
      /\ events' = ScanEvents(found)
      /\ \A f \in Findings :
            evidence'[f] = IF f \in Detected(found) THEN Final(found, f) ELSE evidence[f]
  BY DEF CommitScan
<1>3. \A f \in Findings : f \in Detected(found) => evidence'[f] \in Evidence
  BY <1>1, <1>2, FinalIsReported
<1>4. \A f \in Findings : status'[f] = "none" <=> evidence'[f] = NoEvidence
  BY <1>1, <1>2, <1>3, ScanStatusType, AbsentAssumption DEF IInv, TypeOK
<1>5. TypeOK'
  <2>1. evidence' \in [Findings -> Evidence \cup {NoEvidence}]
    BY <1>2, <1>3 DEF CommitScan, IInv, TypeOK
  <2>2. resolvedAt' \subseteq Findings
    BY <1>2 DEF ScanResolvedAt, ResolvedAbsent, IInv, TypeOK
  <2>3. ledger' \in [Findings -> SUBSET Run]
    BY <1>2 DEF ScanLedger, IInv, TypeOK
  <2>4. status' \in [Findings -> FindingStatus \cup {"none"}] /\ events' \subseteq Event
    BY <1>1, <1>2, ScanStatusType, ScanEventsType DEF IInv
  <2>5. snapshot' \in [Scanners -> Analysis \cup {Idle}]
    BY DEF CommitScan, IInv, TypeOK
  <2> QED BY <1>4, <2>1, <2>2, <2>3, <2>4, <2>5 DEF CommitScan, files, IInv, TypeOK
<1>6. ResolvedAtIffResolved'
  <2> SUFFICES ASSUME NEW f \in Findings
               PROVE  f \in resolvedAt' <=> status'[f] = "resolved"
    BY DEF ResolvedAtIffResolved
  <2>1. CASE f \in Detected(found)
    <3>1. f \notin resolvedAt'
      BY <1>2, <2>1 DEF ScanResolvedAt, ResolvedAbsent, IInv, ResolvedAtIffResolved
    <3>2. status'[f] # "resolved"
      BY <1>2, <2>1 DEF ScanStatus, Upsert
    <3> QED BY <3>1, <3>2
  <2>2. CASE f \notin Detected(found)
    BY <1>2, <2>2
       DEF ScanResolvedAt, ScanStatus, ResolvedAbsent, IInv, ResolvedAtIffResolved
  <2> QED BY <2>1, <2>2
<1>7. NoRowNoRuns'
  BY <1>1, <1>2, ScanStatusType DEF ScanLedger, IInv, NoRowNoRuns
<1>8. LedgerMatchesEvidence'
  <2> SUFFICES ASSUME NEW f \in Findings, NEW run \in ledger'[f]
               PROVE  run.vouches = Fingerprint(evidence'[f])
    BY DEF LedgerMatchesEvidence
  <2>1. f \notin Stale(found) /\ run \in ledger[f]
    BY <1>2 DEF ScanLedger
  <2>2. run.vouches = Fingerprint(evidence[f]) /\ status[f] # "none"
    BY <2>1 DEF IInv, LedgerMatchesEvidence, NoRowNoRuns
  <2>3. CASE f \in Detected(found)
    \* Every report kept the fingerprint, so the one the row keeps did.
    BY <1>1, <1>2, <2>1, <2>2, <2>3, FinalIsReported DEF Stale
  <2>4. CASE f \notin Detected(found)
    BY <1>2, <2>2, <2>4
  <2> QED BY <2>3, <2>4
<1>9. CheckedHasRow'
  <2>1. \A m \in Markers : marking[m] # Idle => marking[m].finding \in Findings
    BY MarkingIsCheck DEF IInv, Check
  <2> QED
    BY <1>1, <1>2, <2>1, ScanStatusType DEF CommitScan, IInv, CheckedHasRow
<1> QED BY <1>5, <1>6, <1>7, <1>8, <1>9 DEF IInv

\* Every other action, and stuttering.
LEMMA Step == IInv /\ [Next]_vars => IInv'
<1> SUFFICES ASSUME IInv, [Next]_vars PROVE IInv'
  OBVIOUS
<1> USE DEF IInv
<1>1. CASE UNCHANGED rows /\ TypeOK' /\ CheckedHasRow'
  BY <1>1 DEF rows, ResolvedAtIffResolved, NoRowNoRuns, LedgerMatchesEvidence
<1>a. ASSUME UNCHANGED marking,
             \A g \in Findings : status[g] # "none" => status'[g] # "none"
      PROVE  CheckedHasRow'
  BY <1>a, MarkingIsCheck DEF Check, CheckedHasRow
<1>2. ASSUME NEW f \in Findings, Edit(f) PROVE IInv'
  <2>1. reports' \in Analysis
    BY <1>2 DEF Edit, TypeOK, Analysis
  <2>2. directive' \in [Findings -> Lines \cup {NoLine}]
    BY <1>2 DEF Edit, TypeOK
  <2>3. edits' \in 0..MaxEdits
    BY <1>2, BoundAssumption DEF Edit, TypeOK
  <2>4. TypeOK'
    BY <1>2, <2>1, <2>2, <2>3 DEF Edit, rows, TypeOK
  <2> QED BY <1>1, <1>2, <1>a, <2>4 DEF Edit, rows
<1>3. ASSUME NEW f \in Findings, RecordVerification(f) PROVE IInv'
  <2>1. PICK passing \in BOOLEAN :
           ledger' = [ledger EXCEPT
                         ![f] = @ \cup {[passing |-> passing,
                                         vouches |-> Fingerprint(evidence[f])]}]
    BY <1>3 DEF RecordVerification
  <2>2. Fingerprint(evidence[f]) \in Bodies
    BY <1>3 DEF RecordVerification, TypeOK, Fingerprint, Evidence
  <2>3. ledger' \in [Findings -> SUBSET Run]
    BY <2>1, <2>2 DEF TypeOK, Run
  <2>4. TypeOK'
    BY <1>3, <2>3 DEF RecordVerification, files, TypeOK
  <2>5. LedgerMatchesEvidence' /\ NoRowNoRuns' /\ ResolvedAtIffResolved'
    BY <1>3, <2>1
       DEF RecordVerification, TypeOK, LedgerMatchesEvidence, NoRowNoRuns,
           ResolvedAtIffResolved
  <2> QED BY <1>3, <1>a, <2>4, <2>5 DEF RecordVerification
<1>4. ASSUME NEW s \in Scanners, Analyze(s) \/ RefuseScan(s) \/ AbortScan(s) PROVE IInv'
  <2>1. snapshot' \in [Scanners -> Analysis \cup {Idle}]
    BY <1>4 DEF Analyze, RefuseScan, AbortScan, TypeOK
  <2>2. TypeOK'
    BY <1>4, <2>1 DEF Analyze, RefuseScan, AbortScan, files, rows, TypeOK
  <2> QED BY <1>1, <1>4, <1>a, <2>2 DEF Analyze, RefuseScan, AbortScan, rows
<1>5. ASSUME NEW s \in Scanners, CommitScan(s) PROVE IInv'
  BY <1>5, CommitScanStep
<1>6. ASSUME NEW m \in Markers, UpdateStatus(m) PROVE IInv'
  <2> DEFINE f == marking[m].finding
             new == IF marking[m].verified THEN "resolved" ELSE "needs_review"
  <2>1. f \in Findings
    BY <1>6, MarkingIsCheck DEF UpdateStatus, Check
  <2>2. new \in FindingStatus
    BY DEF FindingStatus, Actionable
  <2>3. status[f] # "none"
    BY <1>6 DEF UpdateStatus, CheckedHasRow
  <2>4. SetStatus(f, new)
    BY <1>6 DEF UpdateStatus
  <2>5. marking' \in [Markers -> Check \cup {Idle}]
    BY <1>6 DEF UpdateStatus, TypeOK
  <2>6. CheckedHasRow'
    <3> SUFFICES ASSUME NEW k \in Markers, marking'[k] # Idle
                 PROVE  status'[marking'[k].finding] # "none"
      BY DEF CheckedHasRow
    <3>1. marking'[k] = marking[k] /\ marking[k] # Idle
      BY <1>6 DEF UpdateStatus, TypeOK
    <3>2. marking[k].finding \in Findings /\ status[marking[k].finding] # "none"
      BY <3>1, MarkingIsCheck DEF Check, CheckedHasRow
    <3> HIDE DEF f, new
    <3> QED BY <2>1, <2>2, <2>3, <2>4, <3>1, <3>2, SetStatusStep
  <2> HIDE DEF f, new
  <2> QED
    BY <1>6, <2>1, <2>2, <2>3, <2>4, <2>5, <2>6, SetStatusStep
       DEF UpdateStatus, SetStatus, files, TypeOK
<1>7. ASSUME NEW m \in Markers, NEW f \in Findings, Mark(m, f) PROVE IInv'
  <2>1. PICK new \in FindingStatus : SetStatus(f, new)
    BY <1>7, ClientAssumption DEF Mark
  <2> QED
    BY <1>7, <1>a, <2>1, SetStatusStep DEF Mark, SetStatus, files, TypeOK
<1>8. ASSUME NEW m \in Markers, NEW f \in Findings, CheckVerification(m, f) PROVE IInv'
  <2>1. [finding |-> f, verified |-> HasPassingVerification(f)] \in Check
    BY DEF Check, HasPassingVerification
  <2>2. marking' \in [Markers -> Check \cup {Idle}]
    BY <1>8, <2>1 DEF CheckVerification, TypeOK
  <2>3. TypeOK'
    BY <1>8, <2>2 DEF CheckVerification, files, rows, TypeOK
  <2>4. CheckedHasRow'
    BY <1>8 DEF CheckVerification, rows, TypeOK, CheckedHasRow
  <2> QED BY <1>1, <1>8, <2>3, <2>4 DEF CheckVerification
<1>9. CASE UNCHANGED vars
  BY <1>1, <1>9, <1>a DEF vars, files, rows, TypeOK
<1> QED BY <1>2, <1>3, <1>4, <1>5, <1>6, <1>7, <1>8, <1>9 DEF Next

LEMMA Invariant == Spec => []IInv
<1>1. Init => IInv
  BY InitIInv
<1>2. IInv /\ [Next]_vars => IInv'
  BY Step
<1> QED BY <1>1, <1>2, PTL DEF Spec

\* Every variable keeps its type and a finding has evidence exactly when it has
\* a row.
THEOREM LifecycleTyped == Spec => []TypeOK
<1>1. IInv => TypeOK
  BY DEF IInv
<1> QED BY <1>1, Invariant, PTL

\* resolved_at is set exactly on the resolved findings.
THEOREM ResolvedAtKept == Spec => []ResolvedAtIffResolved
<1>1. IInv => ResolvedAtIffResolved
  BY DEF IInv
<1> QED BY <1>1, Invariant, PTL

\* The ledger only holds runs for the body the row shows, in every
\* interleaving of scans and clients and with any number of sites per key.
THEOREM LedgerCurrent == Spec => []LedgerMatchesEvidence
<1>1. IInv => LedgerMatchesEvidence
  BY DEF IInv
<1> QED BY <1>1, Invariant, PTL

-----------------------------------------------------------------------------
\* After a scan no reported finding is resolved and no unreported one is
\* actionable.
THEOREM ScansReconcile == Spec => ScanReconciles
<1>1. ASSUME IInv, NEW s \in Scanners, CommitScan(s), NEW f \in Findings
      PROVE  IF f \in Detected(snapshot[s]) THEN status'[f] \notin {"none", "resolved"}
             ELSE status'[f] \notin Actionable
  <2>1. status' = ScanStatus(snapshot[s])
    BY <1>1 DEF CommitScan
  <2>2. CASE f \in Detected(snapshot[s])
    BY <1>1, <2>1, <2>2 DEF ScanStatus, Upsert
  <2>3. CASE f \notin Detected(snapshot[s])
    BY <1>1, <2>1, <2>3 DEF ScanStatus, ResolvedAbsent, Actionable
  <2> QED BY <2>2, <2>3
<1> DEFINE A == \A s \in Scanners : CommitScan(s) =>
                   \A f \in Findings :
                      IF f \in Detected(snapshot[s])
                      THEN status'[f] \notin {"none", "resolved"}
                      ELSE status'[f] \notin Actionable
<1>2. IInv /\ [Next]_vars => [A]_vars
  BY <1>1
<1> QED BY <1>2, Invariant, PTL DEF Spec, ScanReconciles

\* A scan changes a triaged finding only to suppressed.
THEOREM TriageKept == Spec => TriageSurvivesScan
<1>1. ASSUME NEW s \in Scanners, CommitScan(s),
             NEW f \in Findings, status[f] \in Triaged
      PROVE  status'[f] \in {status[f], "suppressed"}
  BY <1>1 DEF CommitScan, ScanStatus, Upsert, ResolvedAbsent, Triaged, Actionable
<1> DEFINE A == \A s \in Scanners : CommitScan(s) =>
                   \A f \in Findings :
                      status[f] \in Triaged => status'[f] \in {status[f], "suppressed"}
<1>2. [Next]_vars => [A]_vars
  BY <1>1
<1> QED BY <1>2, PTL DEF Spec, TriageSurvivesScan

\* The kinds of event a scan logs for one finding.
LEMMA LoggedByScan ==
    ASSUME NEW found, NEW f \in Findings
    PROVE  LET logged == {e.type : e \in {x \in ScanEvents(found) : x.finding = f}}
           IN  /\ "resolved" \in logged <=> f \in ResolvedAbsent(found)
               /\ "regressed" \in logged <=> f \in Regressed(found)
               /\ "suppressed" \in logged <=>
                      f \in InlineSuppressed(found) /\ status[f] # "suppressed"
               /\ "verification_stale" \in logged <=>
                      f \in Stale(found) /\ ledger[f] # {}
<1> DEFINE logged == {e.type : e \in {x \in ScanEvents(found) : x.finding = f}}
           Fresh == {g \in InlineSuppressed(found) : status[g] # "suppressed"}
           Dropped == {g \in Stale(found) : ledger[g] # {}}
<1>1. ASSUME NEW S, NEW type
      PROVE  \A x : x \in Log(S, type) /\ x.finding = f => f \in S /\ x.type = type
  BY DEF Log
<1>2. ASSUME NEW S, NEW type, f \in S
      PROVE  \E x \in Log(S, type) : x.finding = f /\ x.type = type
  <2> [finding |-> f, type |-> type] \in Log(S, type)
    BY <1>2 DEF Log
  <2> QED OBVIOUS
<1>3. ScanEvents(found) = Log(ResolvedAbsent(found), "resolved")
                             \cup Log(Regressed(found), "regressed")
                             \cup Log(Fresh, "suppressed")
                             \cup Log(Dropped, "verification_stale")
  BY DEF ScanEvents
<1>4. \A t : t \in logged <=> \E x \in ScanEvents(found) : x.finding = f /\ x.type = t
  OBVIOUS
<1> HIDE DEF logged, Fresh, Dropped
<1>5. "resolved" \in logged <=> f \in ResolvedAbsent(found)
  BY <1>1, <1>2, <1>3, <1>4
<1>6. "regressed" \in logged <=> f \in Regressed(found)
  BY <1>1, <1>2, <1>3, <1>4
<1>7. "suppressed" \in logged <=> f \in Fresh
  BY <1>1, <1>2, <1>3, <1>4
<1>8. "verification_stale" \in logged <=> f \in Dropped
  BY <1>1, <1>2, <1>3, <1>4
<1> QED BY <1>5, <1>6, <1>7, <1>8 DEF logged, Fresh, Dropped

\* The events of a scan are exactly the transitions its upsert made to resolved,
\* regressed and suppressed by a comment, and every other change is a silent one.
THEOREM EventsComplete == Spec => EventsMatchTransitions
<1> DEFINE logged(f) == {e.type : e \in {x \in events' : x.finding = f}}
           becomes(f, new) == status[f] # new /\ status'[f] = new
           Told(found, f) ==
             /\ "resolved" \in logged(f) <=> becomes(f, "resolved")
             /\ "regressed" \in logged(f) <=> becomes(f, "regressed")
             /\ "suppressed" \in logged(f) <=>
                    becomes(f, "suppressed") /\ f \in InlineSuppressed(found)
             /\ "verification_stale" \in logged(f) <=> ledger'[f] # ledger[f]
             /\ status'[f] # status[f] =>
                    Silent(f) \/ logged(f) \cap {"resolved", "regressed", "suppressed"} # {}
<1>1. ASSUME IInv, NEW s \in Scanners, CommitScan(s), NEW f \in Findings
      PROVE  Told(snapshot[s], f)
  <2> DEFINE found == snapshot[s]
  <2>1. /\ status' = ScanStatus(found) /\ events' = ScanEvents(found)
        /\ ledger' = ScanLedger(found)
    BY <1>1 DEF CommitScan
  <2> HIDE DEF found
  <2>2. /\ "resolved" \in logged(f) <=> f \in ResolvedAbsent(found)
        /\ "regressed" \in logged(f) <=> f \in Regressed(found)
        /\ "suppressed" \in logged(f) <=>
               f \in InlineSuppressed(found) /\ status[f] # "suppressed"
        /\ "verification_stale" \in logged(f) <=> f \in Stale(found) /\ ledger[f] # {}
    BY <2>1, LoggedByScan
  <2>3. f \in ResolvedAbsent(found) <=> becomes(f, "resolved")
    BY <2>1 DEF ResolvedAbsent, ScanStatus, Upsert, Actionable
  <2>4. f \in Regressed(found) <=> becomes(f, "regressed")
    BY <2>1 DEF Regressed, ResolvedAbsent, ScanStatus, Upsert, Actionable
  <2>5. f \in InlineSuppressed(found) => status'[f] = "suppressed"
    BY <2>1 DEF InlineSuppressed, SuppressedKeys, ScanStatus, Upsert
  <2>6. f \in Stale(found) /\ ledger[f] # {} <=> ledger'[f] # ledger[f]
    BY <2>1 DEF ScanLedger
  <2>7. status'[f] # status[f] =>
           \/ Silent(f)
           \/ f \in ResolvedAbsent(found) \/ f \in Regressed(found)
           \/ f \in InlineSuppressed(found) /\ status[f] # "suppressed"
    BY <2>1 DEF Silent, ScanStatus, Upsert, ResolvedAbsent, Regressed, SuppressedKeys
  <2>8. "suppressed" \in logged(f) <=> becomes(f, "suppressed") /\ f \in InlineSuppressed(found)
    BY <2>2, <2>5
  <2>9. status'[f] # status[f] =>
           Silent(f) \/ logged(f) \cap {"resolved", "regressed", "suppressed"} # {}
    <3> HIDE DEF logged
    <3> QED BY <2>2, <2>7
  <2> HIDE DEF logged, becomes
  <2> QED BY <2>2, <2>3, <2>4, <2>6, <2>8, <2>9 DEF found
<1> DEFINE A == \A s \in Scanners : CommitScan(s) => \A f \in Findings : Told(snapshot[s], f)
<1>2. IInv /\ [Next]_vars => [A]_vars
  BY <1>1
<1>3. [][A]_vars => EventsMatchTransitions
  BY DEF EventsMatchTransitions
<1> QED BY <1>2, <1>3, Invariant, PTL DEF Spec

\* Committing the same analysis twice is committing it once.
THEOREM RescanNoOp == Spec => RescanIsIdempotent
<1>1. ASSUME IInv, NEW s \in Scanners, CommitScan(s), NEW found \in {snapshot[s]}
      PROVE  ScanStatus(found)' = status' /\ ScanResolvedAt(found)' = resolvedAt'
  <2>1. /\ status' = ScanStatus(found) /\ resolvedAt' = ScanResolvedAt(found)
        /\ directive' = directive /\ noise' = noise /\ found \in Analysis
    BY <1>1, SnapshotIsAnalysis DEF CommitScan, files, IInv
  <2>2. /\ Detected(found)' = Detected(found)
        /\ SuppressedKeys(found)' = SuppressedKeys(found)
    BY <2>1 DEF Detected, SuppressedKeys, InlineSuppressed
  <2>3. ASSUME NEW f \in Findings
        PROVE  /\ f \in Detected(found) =>
                     /\ Upsert(f, SuppressedKeys(found))' = status'[f]
                     /\ status'[f] # "resolved"
               /\ f \notin Detected(found) => status'[f] \notin Actionable
    BY <2>1, <2>2
       DEF ScanStatus, Upsert, ResolvedAbsent, Actionable
  <2>4. ResolvedAbsent(found)' = {}
    BY <2>2, <2>3 DEF ResolvedAbsent
  <2>5. status' = [f \in Findings |-> status'[f]]
    BY <2>1 DEF ScanStatus
  <2>6. ScanStatus(found)' = status'
    BY <2>2, <2>3, <2>4, <2>5 DEF ScanStatus
  <2>7. ScanResolvedAt(found)' = resolvedAt'
    BY <2>2, <2>3, <2>4 DEF ScanResolvedAt, Detected
  <2> QED BY <2>6, <2>7
<1> DEFINE A == \A s \in Scanners : CommitScan(s) =>
                   \A found \in {snapshot[s]} :
                      ScanStatus(found)' = status' /\ ScanResolvedAt(found)' = resolvedAt'
<1>2. IInv /\ [Next]_vars => [A]_vars
  BY <1>1
<1> QED BY <1>2, Invariant, PTL DEF Spec, RescanIsIdempotent

-----------------------------------------------------------------------------
\* A run leaves the ledger only when a scan changes the body of the row, or reports its
\* key at two sites with two bodies, for any number of sites per key.
THEOREM LedgerStaysAttached == Spec => LedgerDropsOnlyOnBodyChange
<1>1. ASSUME IInv, Next, NEW f \in Findings, ~(ledger[f] \subseteq ledger'[f])
      PROVE  \/ Fingerprint(evidence'[f]) # Fingerprint(evidence[f])
             \/ \E s \in Scanners : CommitScan(s) /\ Twins(snapshot[s], f)
  <2>1. ASSUME NEW s \in Scanners, CommitScan(s)
        PROVE  \/ Fingerprint(evidence'[f]) # Fingerprint(evidence[f])
               \/ Twins(snapshot[s], f)
    <3> DEFINE found == snapshot[s]
    <3>1. found \in Analysis
      BY <1>1, <2>1, SnapshotIsAnalysis DEF CommitScan, IInv
    <3>2. f \in Stale(found)
      BY <1>1, <2>1 DEF CommitScan, ScanLedger
    <3>3. f \in Detected(found) /\ evidence'[f] = Final(found, f)
      BY <2>1, <3>2 DEF CommitScan, Stale
    <3>4. PICK i \in DOMAIN found[f] : Fingerprint(found[f][i]) # Fingerprint(evidence[f])
      BY <3>2 DEF Stale
    <3>5. PICK j \in DOMAIN found[f] : Final(found, f) = found[f][j]
      BY <3>1, <3>3, FinalIsReported
    \* Either the report that differs from the row is like the one the row keeps, or
    \* the two are twins.
    <3> QED BY <3>3, <3>4, <3>5 DEF Twins
  <2>2. ASSUME NEW g \in Findings, RecordVerification(g) PROVE FALSE
    BY <1>1, <2>2 DEF RecordVerification, IInv, TypeOK
  <2>3. CASE UNCHANGED ledger
    BY <1>1, <2>3
  <2> QED
    BY <1>1, <2>1, <2>2, <2>3
       DEF Next, Edit, Analyze, RefuseScan, AbortScan, UpdateStatus, Mark,
           CheckVerification, SetStatus, rows
<1> DEFINE A == \A f \in Findings :
                   ~(ledger[f] \subseteq ledger'[f]) =>
                       \/ Fingerprint(evidence'[f]) # Fingerprint(evidence[f])
                       \/ \E s \in Scanners : CommitScan(s) /\ Twins(snapshot[s], f)
<1>2. IInv /\ [Next]_vars => [A]_vars
  BY <1>1
<1> QED BY <1>2, Invariant, PTL DEF Spec, LedgerDropsOnlyOnBodyChange

\* What a marker read of the ledger still holds, unless a scan overtook it.
CheckHolds ==
    \A m \in Markers :
        (marking[m] # Idle /\ marking[m].verified) =>
            m \in overtaken \/ HasPassingVerification(marking[m].finding)

LEMMA CheckStep ==
    ASSUME IInv, CheckHolds, [Next]_vars
    PROVE  CheckHolds'
<1> SUFFICES ASSUME NEW m \in Markers, marking'[m] # Idle, marking'[m].verified
             PROVE  m \in overtaken' \/ \E run \in ledger'[marking'[m].finding] : run.passing
  BY DEF CheckHolds, HasPassingVerification
<1> DEFINE Goal == m \in overtaken' \/ \E run \in ledger'[marking'[m].finding] : run.passing
<1>1. ASSUME marking'[m] = marking[m], m \in overtaken => m \in overtaken',
             m \in overtaken' \/ ledger[marking[m].finding] \subseteq ledger'[marking[m].finding]
      PROVE  Goal
  BY <1>1 DEF CheckHolds, HasPassingVerification
<1>a. marking'[m] = marking[m] => marking[m].finding \in Findings
  BY MarkingIsCheck DEF IInv, Check
<1>2. ASSUME NEW s \in Scanners, CommitScan(s) PROVE Goal
  <2>1. marking' = marking /\ overtaken \subseteq overtaken'
    BY <1>2 DEF CommitScan
  <2>2. CASE marking[m].finding \in Stale(snapshot[s])
    BY <1>2, <2>1, <2>2 DEF CommitScan
  <2>3. CASE marking[m].finding \notin Stale(snapshot[s])
    BY <1>1, <1>2, <1>a, <2>1, <2>3 DEF CommitScan, ScanLedger
  <2> QED BY <2>2, <2>3
<1>3. ASSUME NEW f \in Findings, RecordVerification(f) PROVE Goal
  BY <1>1, <1>3, <1>a DEF RecordVerification, IInv, TypeOK
<1>4. ASSUME NEW k \in Markers, NEW f \in Findings, CheckVerification(k, f) PROVE Goal
  <2>1. CASE k = m
    BY <1>4, <2>1 DEF CheckVerification, rows, IInv, TypeOK, HasPassingVerification
  <2>2. CASE k # m
    BY <1>1, <1>4, <2>2 DEF CheckVerification, rows, IInv, TypeOK
  <2> QED BY <2>1, <2>2
<1>5. ASSUME NEW k \in Markers, UpdateStatus(k) PROVE Goal
  BY <1>1, <1>5 DEF UpdateStatus, SetStatus, IInv, TypeOK
<1>6. CASE UNCHANGED <<ledger, marking, overtaken>>
  BY <1>1, <1>6
<1> QED
  BY <1>2, <1>3, <1>4, <1>5, <1>6
     DEF Next, Edit, Analyze, RefuseScan, AbortScan, Mark, SetStatus, vars, rows

\* A finding becomes resolved only by a clean rescan, by a passing run for its
\* current body, or by a marker whose runs a scan dropped after it read them.
\* FindingLifecycleRace shows that the last case happens.
THEOREM ResolutionIsEarned == Spec => OnlyOvertakenIsUnearned
<1>1. Init => CheckHolds
  BY DEF Init, CheckHolds
<1>2. IInv /\ CheckHolds /\ [Next]_vars => CheckHolds'
  BY CheckStep
<1>3. ASSUME IInv, CheckHolds, Next,
             NEW f \in Findings, status[f] # "resolved", status'[f] = "resolved"
      PROVE  \/ Earned(f)
             \/ \E m \in overtaken : UpdateStatus(m) /\ marking[m].finding = f
  <2>1. ASSUME NEW s \in Scanners, CommitScan(s) PROVE Earned(f)
    BY <1>3, <2>1 DEF CommitScan, ScanStatus, Upsert, Detected, Earned
  <2>2. ASSUME NEW m \in Markers, UpdateStatus(m), m \notin overtaken PROVE Earned(f)
    <3>1. f = marking[m].finding /\ marking[m].verified /\ marking[m] # Idle
      BY <1>3, <2>2 DEF UpdateStatus, SetStatus, IInv, TypeOK
    <3>2. HasPassingVerification(f)
      BY <1>3, <2>2, <3>1 DEF CheckHolds
    <3> QED
      BY <1>3, <3>2 DEF HasPassingVerification, IInv, LedgerMatchesEvidence, Earned
  <2>3. ASSUME NEW m \in Markers, UpdateStatus(m), m \in overtaken
        PROVE  marking[m].finding = f
    BY <1>3, <2>3 DEF UpdateStatus, SetStatus, IInv, TypeOK
  <2>4. ASSUME NEW m \in Markers, NEW g \in Findings, Mark(m, g) PROVE FALSE
    BY <1>3, <2>4, ClientAssumption DEF Mark, SetStatus, IInv, TypeOK
  <2>5. CASE UNCHANGED status
    BY <1>3, <2>5
  <2> QED
    BY <1>3, <2>1, <2>2, <2>3, <2>4, <2>5
       DEF Next, Edit, RecordVerification, Analyze, RefuseScan, AbortScan, CheckVerification, rows
<1> DEFINE A == \A f \in Findings :
                   (status[f] # "resolved" /\ status'[f] = "resolved") =>
                       \/ Earned(f)
                       \/ \E m \in overtaken : UpdateStatus(m) /\ marking[m].finding = f
<1>4. IInv /\ CheckHolds /\ [Next]_vars => [A]_vars
  BY <1>3
<1> QED BY <1>1, <1>2, <1>4, Invariant, PTL DEF Spec, OnlyOvertakenIsUnearned
=============================================================================
