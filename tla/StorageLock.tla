---------------------------- MODULE StorageLock ----------------------------
(***************************************************************************)
(* storage/repository.py: read_connection and write_transaction.  Every    *)
(* service of the server reaches the SQLite database through these two     *)
(* context managers.  Threads of one process are coordinated by            *)
(* ACTIVE_WRITERS, ACTIVE_READERS and one Condition; processes only by     *)
(* SQLite's own file locks, which are modelled from how the code uses them *)
(* (rollback journal: SHARED per statement, RESERVED, PENDING).            *)
(***************************************************************************)
EXTENDS Naturals, FiniteSets

CONSTANTS
    Threads,         \* every thread of every process that opens the database
    Procs,           \* the operating-system processes
    ProcOf,          \* the process a thread runs in
    NoThread,        \* no thread holds the RESERVED lock
    MaxDepth,        \* bound: read connections one thread nests
    MaxClaims,       \* bound: a read claim leaks only below this count
    ConnectMayFail   \* whether sqlite3.connect may raise (.codescent removed)

ASSUME ProcOfAssumption == ProcOf \in [Threads -> Procs]
ASSUME ThreadsAssumption == IsFiniteSet(Threads) /\ NoThread \notin Threads
ASSUME BoundAssumption ==
    MaxDepth \in Nat \ {0} /\ MaxClaims \in Nat /\ ConnectMayFail \in BOOLEAN

VARIABLES
    activeWriters,   \* processes whose ACTIVE_WRITERS holds the database path
    activeReaders,   \* ACTIVE_READERS[path] of each process; 0 is "no entry"
    pc,              \* where each thread is in the two context managers
    depth,           \* read connections each thread has claimed and not left
    outcome,         \* how each thread's last transaction ended
    shared,          \* SQLite: threads running a SELECT (SHARED lock)
    reserved,        \* SQLite: the thread holding RESERVED, or NoThread
    pending          \* SQLite: the RESERVED holder is committing (PENDING)

claims == <<activeWriters, activeReaders, depth>>
sqlite == <<shared, reserved, pending>>
vars == <<claims, pc, outcome, sqlite>>

ReadPc == {"rconnect", "reading", "rstmt", "rclose"}
WritePc == {"wconnect", "wbegin", "writing", "wcommit", "wclose"}
Pc == {"idle", "wait", "woken"} \cup ReadPc \cup WritePc
Outcome == {"ok", "concurrent_write", "operational", "raised"}

WriterActive(t) == ProcOf[t] \in activeWriters
Goto(t, label) == pc' = [pc EXCEPT ![t] = label]
Ends(t, result) == outcome' = [outcome EXCEPT ![t] = result]

\* notify_all on the process's Condition: its waiting readers run again, and
\* the thread that notifies moves on.
NotifyAll(t, label) ==
    pc' = [u \in Threads |->
              IF u = t THEN label
              ELSE IF pc[u] = "wait" /\ ProcOf[u] = ProcOf[t] THEN "woken"
              ELSE pc[u]]

Init ==
    /\ activeWriters = {}
    /\ activeReaders = [p \in Procs |-> 0]
    /\ depth = [t \in Threads |-> 0]
    /\ pc = [t \in Threads |-> "idle"]
    /\ outcome = [t \in Threads |-> "ok"]
    /\ shared = {} /\ reserved = NoThread /\ pending = FALSE

-----------------------------------------------------------------------------
(* read_connection *)

\* Mutant of ClaimReader: "if" where the code says "while", a woken reader does
\* not look for a new writer.
ClaimReaderOnceWoken(t) ==
    /\ pc[t] \in {"idle", "woken", "reading"}
    /\ depth[t] < MaxDepth
    /\ UNCHANGED <<activeWriters, outcome, sqlite>>
    /\ \/ /\ WriterActive(t) /\ pc[t] # "woken"
          /\ Goto(t, "wait")
          /\ UNCHANGED <<activeReaders, depth>>
       \/ /\ ~WriterActive(t) \/ pc[t] = "woken"
          /\ activeReaders' = [activeReaders EXCEPT ![ProcOf[t]] = @ + 1]
          /\ depth' = [depth EXCEPT ![t] = @ + 1]
          /\ Goto(t, "rconnect")

\* _claim_reader, first test or the test after a wake-up: wait while the
\* process has a writer, else count one more reader.
ClaimReader(t) ==
    /\ pc[t] \in {"idle", "woken", "reading"}
    /\ depth[t] < MaxDepth
    /\ UNCHANGED <<activeWriters, outcome, sqlite>>
    /\ \/ /\ WriterActive(t)
          /\ Goto(t, "wait")
          /\ UNCHANGED <<activeReaders, depth>>
       \/ /\ ~WriterActive(t)
          /\ activeReaders' = [activeReaders EXCEPT ![ProcOf[t]] = @ + 1]
          /\ depth' = [depth EXCEPT ![t] = @ + 1]
          /\ Goto(t, "rconnect")

ReadConnect(t) ==
    /\ pc[t] = "rconnect"
    /\ Goto(t, "reading")
    /\ UNCHANGED <<claims, outcome, sqlite>>

\* _connect raises before the try: the claim is never released, the enclosing
\* read connections of the thread unwind.
ReadConnectFails(t) ==
    /\ ConnectMayFail
    /\ pc[t] = "rconnect"
    /\ activeReaders[ProcOf[t]] < MaxClaims
    /\ depth' = [depth EXCEPT ![t] = @ - 1]
    /\ Goto(t, IF depth[t] > 1 THEN "rclose" ELSE "idle")
    /\ Ends(t, "operational")
    /\ UNCHANGED <<activeWriters, activeReaders, sqlite>>

\* A SELECT takes SHARED unless a commit is pending.
BeginStatement(t) ==
    /\ pc[t] = "reading"
    /\ ~pending
    /\ shared' = shared \cup {t}
    /\ Goto(t, "rstmt")
    /\ UNCHANGED <<claims, outcome, reserved, pending>>

EndStatement(t) ==
    /\ pc[t] = "rstmt"
    /\ shared' = shared \ {t}
    /\ Goto(t, "reading")
    /\ UNCHANGED <<claims, outcome, reserved, pending>>

\* The SELECT's busy timeout: read_connection translates no error.
StatementTimesOut(t) ==
    /\ pc[t] = "reading"
    /\ pending
    /\ Ends(t, "operational")
    /\ Goto(t, "rclose")
    /\ UNCHANGED <<claims, sqlite>>

\* Mutant of ReleaseReader: the last reader leaves its entry behind.
ReleaseReaderKeepsEntry(t) ==
    /\ pc[t] \in {"reading", "rclose"}
    /\ depth' = [depth EXCEPT ![t] = @ - 1]
    /\ NotifyAll(t, IF depth[t] > 1 THEN pc[t] ELSE "idle")
    /\ outcome' = [outcome EXCEPT ![t] = IF pc[t] = "reading" THEN "ok" ELSE @]
    /\ UNCHANGED <<activeWriters, activeReaders, sqlite>>

\* The finally block: close, then _release_reader, which notifies only when
\* the last reader leaves.
ReleaseReader(t) ==
    /\ pc[t] \in {"reading", "rclose"}
    /\ depth' = [depth EXCEPT ![t] = @ - 1]
    /\ LET last == activeReaders[ProcOf[t]] <= 1
           after == IF depth[t] > 1 THEN pc[t] ELSE "idle"
       IN  /\ activeReaders' = [activeReaders EXCEPT
                                   ![ProcOf[t]] = IF last THEN 0 ELSE @ - 1]
           /\ IF last THEN NotifyAll(t, after) ELSE Goto(t, after)
    /\ outcome' = [outcome EXCEPT ![t] = IF pc[t] = "reading" THEN "ok" ELSE @]
    /\ UNCHANGED <<activeWriters, sqlite>>

-----------------------------------------------------------------------------
(* write_transaction *)

\* Mutants of ClaimWriter: it does not look at the readers, or at the writers.
ClaimWriterOverReaders(t) ==
    /\ pc[t] = "idle"
    /\ ~WriterActive(t)
    /\ activeWriters' = activeWriters \cup {ProcOf[t]}
    /\ Goto(t, "wconnect")
    /\ UNCHANGED <<activeReaders, depth, outcome, sqlite>>

ClaimWriterOverWriter(t) ==
    /\ pc[t] = "idle"
    /\ activeReaders[ProcOf[t]] = 0
    /\ activeWriters' = activeWriters \cup {ProcOf[t]}
    /\ Goto(t, "wconnect")
    /\ UNCHANGED <<activeReaders, depth, outcome, sqlite>>

\* _claim_writer never waits: it raises when the process has a writer or a
\* reader, else it registers the writer.
ClaimWriter(t) ==
    /\ pc[t] = "idle"
    /\ UNCHANGED <<activeReaders, depth, sqlite>>
    /\ \/ /\ WriterActive(t) \/ activeReaders[ProcOf[t]] > 0
          /\ Ends(t, "concurrent_write")
          /\ UNCHANGED <<activeWriters, pc>>
       \/ /\ ~WriterActive(t) /\ activeReaders[ProcOf[t]] = 0
          /\ activeWriters' = activeWriters \cup {ProcOf[t]}
          /\ Goto(t, "wconnect")
          /\ UNCHANGED outcome

WriteConnect(t) ==
    /\ pc[t] = "wconnect"
    /\ Goto(t, "wbegin")
    /\ UNCHANGED <<claims, outcome, sqlite>>

\* _connect raises before the try: the claim stays in ACTIVE_WRITERS.
WriteConnectFails(t) ==
    /\ ConnectMayFail
    /\ pc[t] = "wconnect"
    /\ Ends(t, "operational")
    /\ Goto(t, "idle")
    /\ UNCHANGED <<claims, sqlite>>

BeginImmediate(t) ==
    /\ pc[t] = "wbegin"
    /\ reserved = NoThread
    /\ reserved' = t
    /\ Goto(t, "writing")
    /\ UNCHANGED <<claims, outcome, shared, pending>>

\* Mutant of BeginTimesOut: no busy_timeout.
BeginNeverTimesOut(t) == pc[t] = "wbegin" /\ FALSE /\ UNCHANGED vars

\* "begin immediate" gives up after busy_timeout: OperationalError, rollback,
\* concurrent_write.
BeginTimesOut(t) ==
    /\ pc[t] = "wbegin"
    /\ reserved # NoThread
    /\ Ends(t, "concurrent_write")
    /\ Goto(t, "wclose")
    /\ UNCHANGED <<claims, sqlite>>

\* The body ended and commit asks for the exclusive lock.
StartCommit(t) ==
    /\ pc[t] = "writing"
    /\ pending' = TRUE
    /\ Goto(t, "wcommit")
    /\ UNCHANGED <<claims, outcome, shared, reserved>>

Commit(t) ==
    /\ pc[t] = "wcommit"
    /\ shared = {}
    /\ reserved' = NoThread /\ pending' = FALSE
    /\ Ends(t, "ok")
    /\ Goto(t, "wclose")
    /\ UNCHANGED <<claims, shared>>

CommitTimesOut(t) ==
    /\ pc[t] = "wcommit"
    /\ shared # {}
    /\ reserved' = NoThread /\ pending' = FALSE
    /\ Ends(t, "concurrent_write")
    /\ Goto(t, "wclose")
    /\ UNCHANGED <<claims, shared>>

\* A statement of the body fails: every OperationalError is reported as
\* concurrent_write, any other DatabaseError is re-raised; both roll back.
BodyRollsBack(t) ==
    /\ pc[t] = "writing"
    /\ reserved' = NoThread
    /\ \/ Ends(t, "concurrent_write")
       \/ Ends(t, "raised")
    /\ Goto(t, "wclose")
    /\ UNCHANGED <<claims, shared, pending>>

\* The body raises something that is not a sqlite3 error: no except clause
\* matches, closing the connection discards the transaction.
BodyRaises(t) ==
    /\ pc[t] = "writing"
    /\ Ends(t, "raised")
    /\ Goto(t, "wclose")
    /\ UNCHANGED <<claims, sqlite>>

\* Mutant of ReleaseWriter: it notifies nobody.
ReleaseWriterSilently(t) ==
    /\ pc[t] = "wclose"
    /\ reserved' = IF reserved = t THEN NoThread ELSE reserved
    /\ activeWriters' = activeWriters \ {ProcOf[t]}
    /\ Goto(t, "idle")
    /\ UNCHANGED <<activeReaders, depth, outcome, shared, pending>>

\* The finally block: close (which drops a lock still held), then
\* _release_writer and notify_all.
ReleaseWriter(t) ==
    /\ pc[t] = "wclose"
    /\ reserved' = IF reserved = t THEN NoThread ELSE reserved
    /\ activeWriters' = activeWriters \ {ProcOf[t]}
    /\ NotifyAll(t, "idle")
    /\ UNCHANGED <<activeReaders, depth, outcome, shared, pending>>

-----------------------------------------------------------------------------
\* What a thread does once it is inside a context manager.
Proceed(t) ==
    \/ (pc[t] = "woken" /\ ClaimReader(t))
    \/ ReadConnect(t) \/ ReadConnectFails(t)
    \/ EndStatement(t) \/ StatementTimesOut(t)
    \/ WriteConnect(t) \/ WriteConnectFails(t)
    \/ BeginImmediate(t) \/ BeginTimesOut(t)
    \/ StartCommit(t) \/ Commit(t) \/ CommitTimesOut(t)
    \/ BodyRollsBack(t) \/ BodyRaises(t) \/ ReleaseWriter(t)

Next ==
    \E t \in Threads :
        \/ ClaimReader(t) \/ ReadConnect(t) \/ ReadConnectFails(t)
        \/ BeginStatement(t) \/ EndStatement(t) \/ StatementTimesOut(t)
        \/ ReleaseReader(t)
        \/ ClaimWriter(t) \/ WriteConnect(t) \/ WriteConnectFails(t)
        \/ BeginImmediate(t) \/ BeginTimesOut(t)
        \/ StartCommit(t) \/ Commit(t) \/ CommitTimesOut(t)
        \/ BodyRollsBack(t) \/ BodyRaises(t) \/ ReleaseWriter(t)

Spec == Init /\ [][Next]_vars

\* A thread the scheduler runs does not stop inside a transaction, and a body
\* runs finitely many statements, so a reader that can leave eventually does.
Fairness ==
    \A t \in Threads : WF_vars(Proceed(t)) /\ SF_vars(ReleaseReader(t))

FairSpec == Spec /\ Fairness

-----------------------------------------------------------------------------
InRead(t) == depth[t] > 0
InWrite(t) == pc[t] \in WritePc

\* The claims of a process when its threads have nested d read connections.
ClaimsAt(d, p) == {c \in Threads \X (1..MaxDepth) :
                      ProcOf[c[1]] = p /\ c[2] <= d[c[1]]}
Claims(p) == ClaimsAt(depth, p)

\* The variables take the values the code gives them.
TypeOK ==
    /\ activeWriters \subseteq Procs
    /\ activeReaders \in [Procs -> Nat]
    /\ depth \in [Threads -> 0..MaxDepth]
    /\ pc \in [Threads -> Pc]
    /\ outcome \in [Threads -> Outcome]
    /\ shared \subseteq Threads
    /\ reserved \in Threads \cup {NoThread}
    /\ pending \in BOOLEAN

\* Inside one process a write transaction runs alone: no other writer and no
\* reader is inside its context manager (the guard of _claim_writer and the
\* wait of _claim_reader together).
WriterRunsAlone ==
    \A t, u \in Threads :
        (InWrite(t) /\ t # u /\ ProcOf[t] = ProcOf[u]) => ~InWrite(u) /\ ~InRead(u)

\* ACTIVE_READERS never falls below the read connections that are open, so
\* its early pop at "<= 1" cannot uncover a reader (_release_reader).
ReadersCounted == \A p \in Procs : activeReaders[p] >= Cardinality(Claims(p))

\* A reader waits only while its process has a registered writer: the
\* notify_all of _release_writer is never missed.
NoLostWakeup == \A t \in Threads : pc[t] = "wait" => WriterActive(t)

\* A waiting reader waits for a write transaction that a thread of its process
\* is still running, so it has something to wait for (_claim_reader's loop).
\* Needs every connect to succeed.
WaitsForLiveWriter ==
    \A t \in Threads : pc[t] = "wait" =>
        \E u \in Threads : ProcOf[u] = ProcOf[t] /\ InWrite(u)

\* _claim_writer's error, "Another CodeScent write transaction is already
\* active", is raised only while some thread of the process is inside a
\* transaction or a read connection.
RefusalHasCause ==
    [][\A t \in Threads :
          (pc[t] = "idle" /\ outcome[t] # "concurrent_write"
                          /\ outcome'[t] = "concurrent_write") =>
              \E u \in Threads : ProcOf[u] = ProcOf[t] /\ (InWrite(u) \/ InRead(u))]_vars

\* A commit takes effect only when no thread of its process is inside a read
\* connection and no statement of any process is running, so the reads of one
\* connection see one state of the writes of their own process.
CommitSeenByNoReader ==
    [][\A t \in Threads :
          (pc[t] = "wcommit" /\ pc'[t] = "wclose" /\ outcome'[t] = "ok") =>
              /\ shared = {}
              /\ \A u \in Threads : ProcOf[u] = ProcOf[t] => ~InRead(u)]_vars

\* A writer that was admitted always ends and releases its claim, whatever
\* the other processes do: every SQLite wait has a timeout.
WriterEnds == \A t \in Threads : InWrite(t) ~> pc[t] = "idle"

\* A waiting reader is eventually woken.
WaiterWoken == \A t \in Threads : pc[t] = "wait" ~> pc[t] # "wait"

\* Nobody hangs (_claim_reader, write_transaction): a waiting reader waits for a
\* live writer, that writer ends, and its end wakes the reader.
NobodyHangs == []WaitsForLiveWriter /\ WriterEnds /\ WaiterWoken

\* The promise of the two context managers.
Promise == INSTANCE ReadersWriter WITH
    readers <- {t \in Threads : InRead(t)},
    writers <- {t \in Threads : InWrite(t)}

\* The claims implement a readers-writer lock per process.
ImplementsReadersWriter == Promise!Spec
=============================================================================
