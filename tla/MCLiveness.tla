----------------------------- MODULE MCLiveness -----------------------------
(* What must eventually happen, of the storage lock (with every connect      *)
(* succeeding) and of the life of a finding.  One run explores each of the   *)
(* two to the end, with the other at its initial state.  The lock has two    *)
(* threads of the server and one of a hook; a finding has one site, which    *)
(* the noise gate drops or not, and two scanners.                            *)
EXTENDS StorageLock, TLC

CONSTANTS t1, t2, t3, server, hook, shown, small, above, scan1, scan2, agent1,
          NoLine, NoEvidence, Idle

VARIABLES
    focus,   \* the part that moves
    reports, directive, noise, edits, status, resolvedAt, evidence, ledger, events,
    snapshot, marking, overtaken

MCThreads == {t1, t2, t3}
MCProcs == {server, hook}
MCProcOf == (t1 :> server) @@ (t2 :> server) @@ (t3 :> hook)

Lifecycle == INSTANCE FindingLifecycle WITH
    Findings <- {shown}, Scanners <- {scan1, scan2}, Markers <- {agent1},
    Bodies <- {small}, Lines <- {above}, ClientStatuses <- {"open"},
    MaxSites <- 1, MaxEdits <- 1

lifecycleVars == <<reports, directive, noise, edits, status, resolvedAt, evidence,
                   ledger, events, snapshot, marking, overtaken>>
all == <<focus, vars, lifecycleVars>>

LivenessInit ==
    /\ focus \in {"lock", "lifecycle"}
    /\ Init /\ Lifecycle!Init
    /\ focus = "lock" => reports = [f \in {shown} |-> <<>>] /\ noise = {}

Locks(A) == focus = "lock" /\ A /\ UNCHANGED <<focus, lifecycleVars>>
Lives(A) == focus = "lifecycle" /\ A /\ UNCHANGED <<focus, vars>>

LivenessNext == Locks(Next) \/ Lives(Lifecycle!Next)

\* The fairness of the part that moves: see StorageLock and FindingLifecycle.
LivenessSpec ==
    /\ LivenessInit /\ [][LivenessNext]_all
    /\ \A t \in Threads :
          WF_all(Locks(Proceed(t))) /\ SF_all(Locks(ReleaseReader(t)))
    /\ \A s \in {scan1, scan2} :
          WF_all(Lives(Lifecycle!Analyze(s))) /\ SF_all(Lives(Lifecycle!CommitScan(s)))
    /\ WF_all(Lives(Lifecycle!UpdateStatus(agent1)))

\* Where the life of a finding moves, the database keeps catching up with the files
\* (CodeHealthService.scan).
EventuallyReconciled == focus = "lifecycle" => Lifecycle!EventuallyReconciled
=============================================================================
