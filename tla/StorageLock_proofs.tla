-------------------------- MODULE StorageLock_proofs --------------------------
(***************************************************************************)
(* Theorems about StorageLock, for any finite set of threads, any number   *)
(* of processes, any nesting bound, and with or without failing connects.  *)
(***************************************************************************)
EXTENDS StorageLock, FiniteSetTheorems, TLAPS

(***************************************************************************)
(* The inductive invariant.  WriterRunsAlone is not inductive: it needs    *)
(* that a writer's claim is registered, that a registered writer excludes  *)
(* counted readers, and that every open read connection is counted.        *)
(***************************************************************************)
PlaceMatchesDepth ==
    \A t \in Threads :
        /\ pc[t] \in ReadPc => depth[t] > 0
        /\ pc[t] \in WritePc \cup {"idle"} => depth[t] = 0

WriterRegistered == \A t \in Threads : InWrite(t) => WriterActive(t)

OneWriter ==
    \A t, u \in Threads :
        (InWrite(t) /\ InWrite(u) /\ ProcOf[t] = ProcOf[u]) => t = u

WriterNoReaders == \A p \in activeWriters : activeReaders[p] = 0

IInv ==
    /\ TypeOK
    /\ PlaceMatchesDepth
    /\ WriterRegistered
    /\ OneWriter
    /\ WriterNoReaders
    /\ ReadersCounted
    /\ NoLostWakeup

-----------------------------------------------------------------------------
(* Counting claims. *)

LEMMA ClaimsFinite ==
    ASSUME NEW d, NEW p
    PROVE  IsFiniteSet(ClaimsAt(d, p))
<1>1. IsFiniteSet(Threads \X (1..MaxDepth))
  <2>1. IsFiniteSet(1..MaxDepth)
    BY FS_Interval, BoundAssumption
  <2>. QED  BY <2>1, FS_Product, ThreadsAssumption
<1>2. ClaimsAt(d, p) \subseteq Threads \X (1..MaxDepth)
  BY DEF ClaimsAt
<1>. QED  BY <1>1, <1>2, FS_Subset

\* One more or one fewer read connection of thread t: between the two
\* nestings d and e, exactly one claim of t's process differs.
LEMMA ClaimsGrow ==
    ASSUME NEW d \in [Threads -> 0..MaxDepth], NEW e \in [Threads -> 0..MaxDepth],
           NEW t \in Threads, NEW p \in Procs,
           e[t] = d[t] + 1, \A u \in Threads \ {t} : e[u] = d[u]
    PROVE  Cardinality(ClaimsAt(e, p))
             = Cardinality(ClaimsAt(d, p)) + (IF p = ProcOf[t] THEN 1 ELSE 0)
<1>0. MaxDepth \in Nat
  BY BoundAssumption
<1>1. CASE p = ProcOf[t]
  <2>0. d[t] \in 0..MaxDepth /\ e[t] \in 0..MaxDepth
    OBVIOUS
  <2>1. ClaimsAt(e, p) = ClaimsAt(d, p) \cup {<<t, d[t] + 1>>}
    <3>1. \A u \in Threads, n \in 1..MaxDepth : n <= e[u] <=> n <= d[u] \/ (u = t /\ n = d[t] + 1)
      BY <1>0, <2>0
    <3>2. d[t] + 1 \in 1..MaxDepth
      BY <1>0, <2>0
    <3>3. \A u \in Threads, n \in 1..MaxDepth :
            <<u, n>> \in ClaimsAt(e, p) <=> <<u, n>> \in ClaimsAt(d, p) \/ <<u, n>> = <<t, d[t] + 1>>
      BY <1>1, <3>1 DEF ClaimsAt
    <3>4. /\ ClaimsAt(e, p) \subseteq Threads \X (1..MaxDepth) /\ ClaimsAt(d, p) \subseteq Threads \X (1..MaxDepth)
          /\ <<t, d[t] + 1>> \in Threads \X (1..MaxDepth)
      BY <3>2 DEF ClaimsAt
    <3>5. \A c \in Threads \X (1..MaxDepth) : c \in ClaimsAt(e, p) <=> c \in ClaimsAt(d, p) \/ c = <<t, d[t] + 1>>
      BY <3>3
    <3> QED BY <3>4, <3>5
  <2>2. <<t, d[t] + 1>> \notin ClaimsAt(d, p)
    BY <1>0 DEF ClaimsAt
  <2>3. Cardinality(ClaimsAt(e, p)) = Cardinality(ClaimsAt(d, p)) + 1
    <3>1. IsFiniteSet(ClaimsAt(d, p))
      BY ClaimsFinite
    <3> DEFINE S == ClaimsAt(d, p)
               x == <<t, d[t] + 1>>
    <3>2. IsFiniteSet(S) /\ x \notin S /\ ClaimsAt(e, p) = S \cup {x}
      BY <2>1, <2>2, <3>1
    <3> HIDE DEF S, x
    <3>3. Cardinality(S \cup {x}) = Cardinality(S) + 1
      BY <3>2, FS_AddElement
    <3> QED BY <3>2, <3>3 DEF S
  <2>. QED  BY <1>1, <2>3
<1>2. CASE p # ProcOf[t]
  <2>1. ClaimsAt(e, p) = ClaimsAt(d, p)
    BY <1>0, <1>2 DEF ClaimsAt
  <2>2. Cardinality(ClaimsAt(d, p)) \in Nat
    BY ClaimsFinite, FS_CardinalityType
  <2>. QED  BY <1>2, <2>1, <2>2
<1>. QED  BY <1>1, <1>2

\* A thread inside a read connection makes its process count a reader.
LEMMA ReaderCounted ==
    ASSUME TypeOK, ReadersCounted, NEW t \in Threads, InRead(t)
    PROVE  activeReaders[ProcOf[t]] > 0
<1>. DEFINE p == ProcOf[t]
<1>1. p \in Procs /\ MaxDepth \in Nat \ {0}
  BY ProcOfAssumption, BoundAssumption
<1>2. <<t, 1>> \in Claims(p)
  BY <1>1 DEF Claims, ClaimsAt, InRead, TypeOK
<1>3. Cardinality(Claims(p)) \in Nat /\ Cardinality(Claims(p)) # 0
  BY <1>2, ClaimsFinite, FS_CardinalityType, FS_EmptySet DEF Claims
<1>. QED  BY <1>1, <1>3 DEF ReadersCounted, TypeOK

-----------------------------------------------------------------------------
(* Types. *)

\* Types alone are not inductive: a read connection can only be left by a
\* thread that has entered one.
LEMMA TypeStep ==
    TypeOK /\ PlaceMatchesDepth /\ [Next]_vars => TypeOK' /\ PlaceMatchesDepth'
<1>. SUFFICES ASSUME TypeOK, PlaceMatchesDepth, [Next]_vars
              PROVE  TypeOK' /\ PlaceMatchesDepth'
  OBVIOUS
<1>. USE ProcOfAssumption, ThreadsAssumption, BoundAssumption
         DEF TypeOK, PlaceMatchesDepth, Pc, ReadPc, WritePc, Outcome, Goto, Ends,
             claims, sqlite
<1>1. ASSUME NEW t \in Threads, ClaimReader(t)
      PROVE  TypeOK' /\ PlaceMatchesDepth'
  BY <1>1 DEF ClaimReader
<1>2. ASSUME NEW t \in Threads, ReadConnect(t)
      PROVE  TypeOK' /\ PlaceMatchesDepth'
  BY <1>2 DEF ReadConnect
<1>3. ASSUME NEW t \in Threads, ReadConnectFails(t)
      PROVE  TypeOK' /\ PlaceMatchesDepth'
  <2>1. depth[t] \in 1..MaxDepth
    BY <1>3 DEF ReadConnectFails
  <2>. QED  BY <1>3, <2>1 DEF ReadConnectFails
<1>4. ASSUME NEW t \in Threads,
             BeginStatement(t) \/ EndStatement(t) \/ StatementTimesOut(t)
      PROVE  TypeOK' /\ PlaceMatchesDepth'
  BY <1>4 DEF BeginStatement, EndStatement, StatementTimesOut
<1>5. ASSUME NEW t \in Threads, ReleaseReader(t)
      PROVE  TypeOK' /\ PlaceMatchesDepth'
  <2>1. depth[t] \in 1..MaxDepth /\ pc[t] \in {"reading", "rclose"}
    BY <1>5 DEF ReleaseReader
  <2>2. depth' = [depth EXCEPT ![t] = @ - 1] /\ depth[t] - 1 \in 0..MaxDepth
    BY <1>5, <2>1 DEF ReleaseReader
  <2>3. /\ activeReaders' \in [Procs -> Nat]
        /\ UNCHANGED <<activeWriters, sqlite>>
        /\ outcome' \in [Threads -> Outcome]
    BY <1>5 DEF ReleaseReader
  <2>4. PICK label \in {pc[t], "idle"} :
          /\ label = (IF depth[t] > 1 THEN pc[t] ELSE "idle")
          /\ NotifyAll(t, label) \/ Goto(t, label)
    BY <1>5 DEF ReleaseReader
  <2>5. /\ pc' \in [Threads -> Pc]
        /\ pc'[t] = label
        /\ \A u \in Threads \ {t} : pc'[u] = pc[u] \/ pc'[u] = "woken"
    BY <2>1, <2>4 DEF NotifyAll
  <2>6. TypeOK'
    BY <2>2, <2>3, <2>5
  <2>7. ASSUME NEW u \in Threads
        PROVE  /\ pc'[u] \in ReadPc => depth'[u] > 0
               /\ pc'[u] \in WritePc \cup {"idle"} => depth'[u] = 0
    <3>1. CASE u = t
      <4>1. depth'[t] = depth[t] - 1
        BY <2>2
      <4>. QED  BY <2>1, <2>4, <2>5, <3>1, <4>1
    <3>2. CASE u # t
      <4>1. depth'[u] = depth[u]
        BY <2>2, <3>2
      <4>. QED  BY <2>5, <3>2, <4>1
    <3>. QED  BY <3>1, <3>2
  <2>. QED  BY <2>6, <2>7
<1>6. ASSUME NEW t \in Threads,
             ClaimWriter(t) \/ WriteConnect(t) \/ WriteConnectFails(t)
      PROVE  TypeOK' /\ PlaceMatchesDepth'
  <2>1. CASE ClaimWriter(t)
    BY <2>1 DEF ClaimWriter
  <2>2. CASE WriteConnect(t)
    BY <2>2 DEF WriteConnect
  <2>3. CASE WriteConnectFails(t)
    BY <2>3 DEF WriteConnectFails
  <2>. QED  BY <1>6, <2>1, <2>2, <2>3
<1>7. ASSUME NEW t \in Threads,
             BeginImmediate(t) \/ BeginTimesOut(t) \/ StartCommit(t) \/ Commit(t)
      PROVE  TypeOK' /\ PlaceMatchesDepth'
  <2>1. CASE BeginImmediate(t)
    BY <2>1 DEF BeginImmediate
  <2>2. CASE BeginTimesOut(t)
    BY <2>2 DEF BeginTimesOut
  <2>3. CASE StartCommit(t)
    BY <2>3 DEF StartCommit
  <2>4. CASE Commit(t)
    BY <2>4 DEF Commit
  <2>. QED  BY <1>7, <2>1, <2>2, <2>3, <2>4
<1>8. ASSUME NEW t \in Threads,
             CommitTimesOut(t) \/ BodyRollsBack(t) \/ BodyRaises(t)
      PROVE  TypeOK' /\ PlaceMatchesDepth'
  <2>1. CASE CommitTimesOut(t)
    BY <2>1 DEF CommitTimesOut
  <2>2. CASE BodyRollsBack(t)
    BY <2>2 DEF BodyRollsBack
  <2>3. CASE BodyRaises(t)
    BY <2>3 DEF BodyRaises
  <2>. QED  BY <1>8, <2>1, <2>2, <2>3
<1>9. ASSUME NEW t \in Threads, ReleaseWriter(t)
      PROVE  TypeOK' /\ PlaceMatchesDepth'
  BY <1>9 DEF ReleaseWriter, NotifyAll
<1>10. CASE UNCHANGED vars
  BY <1>10 DEF vars
<1>. QED
  BY <1>1, <1>2, <1>3, <1>4, <1>5, <1>6, <1>7, <1>8, <1>9, <1>10 DEF Next

LEMMA TypeInit == Init => TypeOK /\ PlaceMatchesDepth
<1>. SUFFICES ASSUME Init  PROVE TypeOK /\ PlaceMatchesDepth
  OBVIOUS
<1>1. "idle" \in Pc /\ "ok" \in Outcome /\ "idle" \notin ReadPc
  BY DEF Pc, Outcome, ReadPc
<1>2. 0 \in 0..MaxDepth
  BY BoundAssumption
<1>. QED  BY <1>1, <1>2, ProcOfAssumption, ThreadsAssumption
             DEF Init, TypeOK, PlaceMatchesDepth

\* Every variable of the storage lock keeps its type, whatever the threads do.
THEOREM TypeCorrect == Spec => []TypeOK
<1>1. TypeOK /\ PlaceMatchesDepth /\ [Next]_vars => (TypeOK /\ PlaceMatchesDepth)'
  BY TypeStep
<1>. QED  BY TypeInit, <1>1, PTL DEF Spec

-----------------------------------------------------------------------------
(* Mutual exclusion. *)

\* A step inside a context manager: the claims and the threads inside a write
\* transaction stay as they are, and no thread starts to wait.
Inside(t) ==
    /\ UNCHANGED claims
    /\ \A u \in Threads : pc'[u] \in WritePc <=> pc[u] \in WritePc
    /\ \A u \in Threads : pc'[u] = "wait" => pc[u] = "wait"

LEMMA InsideStep ==
    ASSUME IInv, NEW t \in Threads, Inside(t)
    PROVE  /\ WriterRegistered' /\ OneWriter' /\ WriterNoReaders'
           /\ ReadersCounted' /\ NoLostWakeup'
BY DEF IInv, Inside, claims, WriterRegistered, OneWriter, WriterNoReaders,
       ReadersCounted, NoLostWakeup, InWrite, WriterActive, Claims, ClaimsAt

LEMMA InsideActions ==
    ASSUME TypeOK, NEW t \in Threads,
           \/ ReadConnect(t) \/ BeginStatement(t) \/ EndStatement(t)
           \/ StatementTimesOut(t) \/ WriteConnect(t) \/ BeginImmediate(t)
           \/ BeginTimesOut(t) \/ StartCommit(t) \/ Commit(t)
           \/ CommitTimesOut(t) \/ BodyRollsBack(t) \/ BodyRaises(t)
    PROVE  Inside(t)
<1>. USE DEF TypeOK, Inside, Goto, WritePc, sqlite
<1>1. CASE ReadConnect(t) \/ BeginStatement(t) \/ EndStatement(t) \/ StatementTimesOut(t)
  BY <1>1 DEF ReadConnect, BeginStatement, EndStatement, StatementTimesOut
<1>2. CASE WriteConnect(t) \/ BeginImmediate(t) \/ BeginTimesOut(t) \/ StartCommit(t)
  BY <1>2 DEF WriteConnect, BeginImmediate, BeginTimesOut, StartCommit
<1>3. CASE Commit(t) \/ CommitTimesOut(t) \/ BodyRollsBack(t) \/ BodyRaises(t)
  BY <1>3 DEF Commit, CommitTimesOut, BodyRollsBack, BodyRaises
<1>. QED  BY <1>1, <1>2, <1>3

\* Leaving one read connection keeps the count above the open connections,
\* whether the count is decremented, dropped to zero, or leaked.
LEMMA LeaveCounted ==
    ASSUME TypeOK, TypeOK', ReadersCounted, NEW t \in Threads,
           depth[t] = depth'[t] + 1, \A u \in Threads \ {t} : depth[u] = depth'[u],
           \/ activeReaders' = activeReaders
           \/ activeReaders' = [activeReaders EXCEPT
                ![ProcOf[t]] = IF activeReaders[ProcOf[t]] <= 1 THEN 0 ELSE @ - 1]
    PROVE  ReadersCounted'
<1>. SUFFICES ASSUME NEW p \in Procs
              PROVE  activeReaders'[p] >= Cardinality(ClaimsAt(depth', p))
  BY DEF ReadersCounted, Claims
<1>1. /\ depth \in [Threads -> 0..MaxDepth] /\ depth' \in [Threads -> 0..MaxDepth]
      /\ activeReaders \in [Procs -> Nat]
  BY DEF TypeOK
<1>2. Cardinality(ClaimsAt(depth, p))
        = Cardinality(ClaimsAt(depth', p)) + (IF p = ProcOf[t] THEN 1 ELSE 0)
  BY <1>1, ClaimsGrow
<1>3. activeReaders[p] >= Cardinality(ClaimsAt(depth, p))
  BY DEF ReadersCounted, Claims
<1>4. Cardinality(ClaimsAt(depth', p)) \in Nat
  BY ClaimsFinite, FS_CardinalityType
<1>5. activeReaders'[p] = activeReaders[p]
      \/ /\ p = ProcOf[t]
         /\ activeReaders'[p]
              = (IF activeReaders[p] <= 1 THEN 0 ELSE activeReaders[p] - 1)
  BY <1>1
<1>. QED  BY <1>1, <1>2, <1>3, <1>4, <1>5

LEMMA MutexStep == IInv /\ [Next]_vars => IInv'
<1>. SUFFICES ASSUME IInv, [Next]_vars  PROVE IInv'
  OBVIOUS
<1>0. TypeOK' /\ PlaceMatchesDepth'
  BY TypeStep DEF IInv
<1>. DEFINE Rest == /\ WriterRegistered /\ OneWriter /\ WriterNoReaders
                    /\ ReadersCounted /\ NoLostWakeup
<1>1. ASSUME NEW t \in Threads, ClaimReader(t)  PROVE Rest'
  <2>1. CASE WriterActive(t)
    <3>1. UNCHANGED claims /\ pc' = [pc EXCEPT ![t] = "wait"] /\ pc[t] \notin WritePc
      BY <1>1, <2>1 DEF ClaimReader, Goto, claims, WritePc
    <3>. QED  BY <2>1, <3>1 DEF IInv, TypeOK, claims, WriterRegistered, OneWriter,
                WriterNoReaders, ReadersCounted, NoLostWakeup, InWrite,
                WriterActive, Claims, ClaimsAt, WritePc
  <2>2. CASE ~WriterActive(t)
    <3>1. /\ UNCHANGED activeWriters
          /\ activeReaders' = [activeReaders EXCEPT ![ProcOf[t]] = @ + 1]
          /\ depth' = [depth EXCEPT ![t] = @ + 1] /\ depth[t] < MaxDepth
          /\ pc' = [pc EXCEPT ![t] = "rconnect"] /\ pc[t] \notin WritePc
      BY <1>1, <2>2 DEF ClaimReader, Goto, WritePc
    <3>2. ReadersCounted'
      <4>. SUFFICES ASSUME NEW p \in Procs
                    PROVE  activeReaders'[p] >= Cardinality(ClaimsAt(depth', p))
        BY DEF ReadersCounted, Claims
      <4>1. Cardinality(ClaimsAt(depth', p))
              = Cardinality(ClaimsAt(depth, p)) + (IF p = ProcOf[t] THEN 1 ELSE 0)
        <5>1. /\ depth' \in [Threads -> 0..MaxDepth] /\ depth'[t] = depth[t] + 1
              /\ depth \in [Threads -> 0..MaxDepth]
              /\ \A u \in Threads \ {t} : depth'[u] = depth[u]
          BY <1>0, <3>1 DEF IInv, TypeOK
        <5>. QED  BY <5>1, ClaimsGrow
      <4>2. activeReaders[p] >= Cardinality(ClaimsAt(depth, p))
        BY DEF IInv, ReadersCounted, Claims
      <4>3. Cardinality(ClaimsAt(depth, p)) \in Nat
        BY ClaimsFinite, FS_CardinalityType
      <4>. QED  BY <3>1, <4>1, <4>2, <4>3 DEF IInv, TypeOK
    <3>3. WriterNoReaders'
      BY <2>2, <3>1 DEF IInv, TypeOK, WriterNoReaders, WriterActive
    <3>. QED  BY <3>1, <3>2, <3>3 DEF IInv, TypeOK, WriterRegistered, OneWriter,
                NoLostWakeup, InWrite, WriterActive, WritePc
  <2>. QED  BY <2>1, <2>2
<1>2. ASSUME NEW t \in Threads, ReadConnectFails(t)  PROVE Rest'
  <2>1. /\ UNCHANGED <<activeWriters, activeReaders>>
        /\ depth' = [depth EXCEPT ![t] = @ - 1] /\ depth[t] > 0
        /\ pc'[t] \in {"rclose", "idle"} /\ pc[t] = "rconnect"
        /\ \A u \in Threads \ {t} : pc'[u] = pc[u]
    BY <1>2 DEF ReadConnectFails, Goto, IInv, TypeOK, PlaceMatchesDepth, ReadPc
  <2>2. ReadersCounted'
    <3>1. /\ depth[t] = depth'[t] + 1
          /\ \A u \in Threads \ {t} : depth[u] = depth'[u]
      BY <2>1, BoundAssumption DEF IInv, TypeOK
    <3>2. activeReaders' = activeReaders
      BY <2>1
    <3>. QED  BY <1>0, <3>1, <3>2, LeaveCounted DEF IInv
  <2>. QED  BY <2>1, <2>2 DEF IInv, WriterRegistered, OneWriter, WriterNoReaders,
              NoLostWakeup, InWrite, WriterActive, WritePc
<1>3. ASSUME NEW t \in Threads, ReleaseReader(t)  PROVE Rest'
  <2>1. /\ UNCHANGED activeWriters
        /\ depth' = [depth EXCEPT ![t] = @ - 1] /\ depth[t] > 0
        /\ activeReaders' = [activeReaders EXCEPT
              ![ProcOf[t]] = IF activeReaders[ProcOf[t]] <= 1 THEN 0 ELSE @ - 1]
        /\ pc[t] \in {"reading", "rclose"}
    BY <1>3 DEF ReleaseReader, IInv, PlaceMatchesDepth, ReadPc
  <2>2. PICK label \in {pc[t], "idle"} : NotifyAll(t, label) \/ Goto(t, label)
    BY <1>3 DEF ReleaseReader
  <2>3. /\ pc'[t] = label
        /\ \A u \in Threads \ {t} :
              pc'[u] = pc[u] \/ (pc[u] = "wait" /\ pc'[u] = "woken")
    BY <2>2 DEF NotifyAll, Goto, IInv, TypeOK
  <2>4. ReadersCounted'
    <3>1. /\ depth[t] = depth'[t] + 1
          /\ \A u \in Threads \ {t} : depth[u] = depth'[u]
      BY <2>1, BoundAssumption DEF IInv, TypeOK
    <3>2. activeReaders' = [activeReaders EXCEPT
              ![ProcOf[t]] = IF activeReaders[ProcOf[t]] <= 1 THEN 0 ELSE @ - 1]
      BY <2>1
    <3>. QED  BY <1>0, <3>1, <3>2, LeaveCounted DEF IInv
  <2>5. WriterNoReaders'
    BY <2>1 DEF IInv, TypeOK, WriterNoReaders
  <2>. QED  BY <2>1, <2>2, <2>3, <2>4, <2>5 DEF IInv, WriterRegistered, OneWriter,
              NoLostWakeup, InWrite, WriterActive, WritePc
<1>4. ASSUME NEW t \in Threads, ClaimWriter(t)  PROVE Rest'
  <2>1. UNCHANGED <<activeReaders, depth>> /\ pc[t] = "idle"
    BY <1>4 DEF ClaimWriter
  <2>2. CASE UNCHANGED <<activeWriters, pc>>
    BY <2>1, <2>2 DEF IInv, WriterRegistered, OneWriter, WriterNoReaders,
       ReadersCounted, NoLostWakeup, InWrite, WriterActive, Claims
  <2>3. CASE /\ ~WriterActive(t) /\ activeReaders[ProcOf[t]] = 0
             /\ activeWriters' = activeWriters \cup {ProcOf[t]}
             /\ Goto(t, "wconnect")
    BY <2>1, <2>3 DEF IInv, TypeOK, Goto, WriterRegistered, OneWriter,
       WriterNoReaders, ReadersCounted, NoLostWakeup, InWrite, WriterActive,
       Claims, WritePc
  <2>. QED  BY <1>4, <2>2, <2>3 DEF ClaimWriter
<1>5. ASSUME NEW t \in Threads, WriteConnectFails(t)  PROVE Rest'
  BY <1>5 DEF WriteConnectFails, claims, Goto, IInv, TypeOK, WriterRegistered,
     OneWriter, WriterNoReaders, ReadersCounted, NoLostWakeup, InWrite,
     WriterActive, Claims, WritePc
<1>6. ASSUME NEW t \in Threads, ReleaseWriter(t)  PROVE Rest'
  <2>1. /\ UNCHANGED <<activeReaders, depth>> /\ pc[t] = "wclose"
        /\ activeWriters' = activeWriters \ {ProcOf[t]}
        /\ NotifyAll(t, "idle")
    BY <1>6 DEF ReleaseWriter
  <2>2. \A u \in Threads : u # t /\ InWrite(u) => ProcOf[u] # ProcOf[t]
    BY <2>1 DEF IInv, OneWriter, InWrite, WritePc
  <2>3. /\ pc'[t] = "idle"
        /\ \A u \in Threads \ {t} :
              pc'[u] = (IF pc[u] = "wait" /\ ProcOf[u] = ProcOf[t]
                        THEN "woken" ELSE pc[u])
    BY <2>1 DEF NotifyAll
  <2>. QED  BY <2>1, <2>2, <2>3 DEF IInv, WriterRegistered, OneWriter,
              WriterNoReaders, ReadersCounted, NoLostWakeup, InWrite,
              WriterActive, Claims, WritePc
<1>7. ASSUME UNCHANGED vars  PROVE Rest'
  BY <1>7 DEF vars, claims, IInv, WriterRegistered, OneWriter, WriterNoReaders,
     ReadersCounted, NoLostWakeup, InWrite, WriterActive, Claims
<1>8. \/ \E t \in Threads : \/ ClaimReader(t) \/ ReadConnectFails(t)
                            \/ ReleaseReader(t) \/ ClaimWriter(t)
                            \/ WriteConnectFails(t) \/ ReleaseWriter(t) \/ Inside(t)
      \/ UNCHANGED vars
  BY InsideActions DEF Next, IInv
<1>9. ASSUME NEW t \in Threads, Inside(t)  PROVE Rest'
  BY <1>9, InsideStep
<1>10. Rest'
  BY <1>1, <1>2, <1>3, <1>4, <1>5, <1>6, <1>7, <1>8, <1>9
<1>. QED  BY <1>0, <1>10 DEF IInv

LEMMA MutexInit == Init => IInv
<1>. SUFFICES ASSUME Init  PROVE IInv
  OBVIOUS
<1>1. ReadersCounted
  <2>. SUFFICES ASSUME NEW p \in Procs
                PROVE  activeReaders[p] >= Cardinality(Claims(p))
    BY DEF ReadersCounted
  <2>1. Claims(p) = {}
    BY BoundAssumption DEF Init, Claims, ClaimsAt
  <2>. QED  BY <2>1, FS_EmptySet DEF Init
<1>. QED  BY <1>1, TypeInit DEF Init, IInv, WriterRegistered, OneWriter,
            WriterNoReaders, NoLostWakeup, InWrite, WritePc

LEMMA Mutex == Spec => []IInv
BY MutexInit, MutexStep, PTL DEF Spec

\* ACTIVE_READERS counts at least the open read connections, so popping its entry
\* at <= 1 (_release_reader) uncovers nobody.
THEOREM Counted == Spec => []ReadersCounted
<1>1. IInv => ReadersCounted
  BY DEF IInv
<1>. QED  BY <1>1, Mutex, PTL

\* Inside one process a write transaction runs alone (_claim_writer and
\* _claim_reader), whatever the other processes do and even when connects fail.
THEOREM WriterAlone == Spec => []WriterRunsAlone
<1>1. IInv => WriterRunsAlone
  <2>. SUFFICES ASSUME IInv, NEW t \in Threads, NEW u \in Threads,
                       InWrite(t), t # u, ProcOf[t] = ProcOf[u]
                PROVE  ~InWrite(u) /\ ~InRead(u)
    BY DEF WriterRunsAlone
  <2>1. ~InWrite(u)
    BY DEF IInv, OneWriter
  <2>2. ~InRead(u)
    <3>1. activeReaders[ProcOf[u]] = 0
      BY DEF IInv, WriterRegistered, WriterActive, WriterNoReaders
    <3>. QED  BY <3>1, ReaderCounted DEF IInv
  <2>. QED  BY <2>1, <2>2
<1>. QED  BY <1>1, Mutex, PTL

\* A waiting reader always has a registered writer to wake it (the loop of
\* _claim_reader and the notify_all of _release_writer).
THEOREM WakeupKept == Spec => []NoLostWakeup
<1>1. IInv => NoLostWakeup
  BY DEF IInv
<1>. QED  BY <1>1, Mutex, PTL

\* A commit is seen by no read connection of its process and by no running
\* statement of any process.
THEOREM CommitIsolated == Spec => CommitSeenByNoReader
<1>. DEFINE Isolated ==
       \A t \in Threads :
          (pc[t] = "wcommit" /\ pc'[t] = "wclose" /\ outcome'[t] = "ok") =>
              /\ shared = {}
              /\ \A u \in Threads : ProcOf[u] = ProcOf[t] => ~InRead(u)
<1>1. IInv /\ [Next]_vars => [Isolated]_vars
  <2>. SUFFICES ASSUME IInv, Next, NEW t \in Threads,
                       pc[t] = "wcommit", pc'[t] = "wclose", outcome'[t] = "ok"
                PROVE  /\ shared = {}
                       /\ \A u \in Threads : ProcOf[u] = ProcOf[t] => ~InRead(u)
    OBVIOUS
  <2>. USE DEF IInv, TypeOK, Goto, Ends, NotifyAll
  <2>1. ASSUME NEW u \in Threads,
               \/ ClaimReader(u) \/ ReadConnect(u) \/ ReadConnectFails(u)
               \/ BeginStatement(u) \/ EndStatement(u) \/ StatementTimesOut(u)
        PROVE  FALSE
    BY <2>1 DEF ClaimReader, ReadConnect, ReadConnectFails, BeginStatement,
                EndStatement, StatementTimesOut
  <2>2. ASSUME NEW u \in Threads, ReleaseReader(u)  PROVE FALSE
    BY <2>2 DEF ReleaseReader
  <2>3. ASSUME NEW u \in Threads,
               \/ ClaimWriter(u) \/ WriteConnect(u) \/ WriteConnectFails(u)
               \/ BeginImmediate(u) \/ BeginTimesOut(u) \/ StartCommit(u)
        PROVE  FALSE
    BY <2>3 DEF ClaimWriter, WriteConnect, WriteConnectFails, BeginImmediate,
                BeginTimesOut, StartCommit
  <2>4. ASSUME NEW u \in Threads,
               \/ CommitTimesOut(u) \/ BodyRollsBack(u) \/ BodyRaises(u)
               \/ ReleaseWriter(u)
        PROVE  FALSE
    BY <2>4 DEF CommitTimesOut, BodyRollsBack, BodyRaises, ReleaseWriter
  <2>5. PICK u \in Threads : Commit(u)
    BY <2>1, <2>2, <2>3, <2>4 DEF Next
  <2>6. shared = {}
    BY <2>5 DEF Commit
  <2>7. ASSUME NEW v \in Threads, ProcOf[v] = ProcOf[t]  PROVE ~InRead(v)
    <3>1. activeReaders[ProcOf[v]] = 0
      BY <2>7 DEF WriterRegistered, WriterActive, WriterNoReaders, InWrite, WritePc
    <3>. QED  BY <3>1, ReaderCounted
  <2>. QED  BY <2>6, <2>7
<1>. QED  BY <1>1, Mutex, PTL DEF Spec, CommitSeenByNoReader

\* The claims implement one readers-writer lock per process: each step of the
\* two context managers is a step of ReadersWriter or leaves it unchanged.
THEOREM RefinesReadersWriter == Spec => ImplementsReadersWriter
<1>. DEFINE R == {t \in Threads : InRead(t)}
            W == {t \in Threads : InWrite(t)}
<1>1. Init => Promise!Init
  BY DEF Init, Promise!Init, InRead, InWrite, WritePc
<1>2. IInv /\ IInv' /\ [Next]_vars => [Promise!Next]_(Promise!vars)
  <2>. SUFFICES ASSUME IInv, IInv', [Next]_vars, ~UNCHANGED Promise!vars
                PROVE  Promise!Next
    OBVIOUS
  <2>0. R' # R \/ W' # W
    BY DEF Promise!vars
  <2>. USE DEF InRead, InWrite
  <2>1. ASSUME NEW t \in Threads, Inside(t)  PROVE FALSE
    BY <2>0, <2>1 DEF Inside, claims
  <2>2. ASSUME NEW t \in Threads, ClaimReader(t)  PROVE Promise!StartRead(t)
    <3>1. W' = W
      BY <2>2 DEF ClaimReader, Goto, IInv, TypeOK, WritePc
    <3>2. /\ ~WriterActive(t)
          /\ depth' = [depth EXCEPT ![t] = @ + 1]
      BY <2>0, <2>2, <3>1 DEF ClaimReader
    <3>3. R' = R \cup {t}
      BY <3>2 DEF IInv, TypeOK
    <3>4. t \notin R
      BY <2>0, <3>1, <3>3
    <3>5. W \cap Promise!Peers(t) = {}
      BY <3>2 DEF IInv, WriterRegistered, WriterActive, Promise!Peers
    <3>. QED  BY <3>1, <3>3, <3>4, <3>5 DEF Promise!StartRead
  <2>3. ASSUME NEW t \in Threads, ReadConnectFails(t) \/ ReleaseReader(t)
        PROVE  Promise!EndRead(t)
    <3>1. /\ depth' = [depth EXCEPT ![t] = @ - 1]
          /\ pc[t] \in ReadPc
      BY <2>3 DEF ReadConnectFails, ReleaseReader, ReadPc
    <3>2. depth[t] > 0 /\ pc[t] \notin WritePc
      BY <3>1 DEF IInv, PlaceMatchesDepth, ReadPc, WritePc
    <3>3. \A u \in Threads : pc'[u] \in WritePc <=> pc[u] \in WritePc
      <4>1. CASE ReadConnectFails(t)
        BY <3>2, <4>1 DEF ReadConnectFails, Goto, IInv, TypeOK, WritePc
      <4>2. CASE ReleaseReader(t)
        <5>1. PICK label \in {pc[t], "idle"} : NotifyAll(t, label) \/ Goto(t, label)
          BY <4>2 DEF ReleaseReader
        <5>. QED  BY <3>2, <5>1 DEF NotifyAll, Goto, IInv, TypeOK, WritePc
      <4>. QED  BY <2>3, <4>1, <4>2
    <3>4. W' = W
      BY <3>3
    <3>5. R' = R \/ R' = R \ {t}
      BY <3>1 DEF IInv, TypeOK
    <3>. QED  BY <2>0, <3>2, <3>4, <3>5 DEF Promise!EndRead
  <2>4. ASSUME NEW t \in Threads, ClaimWriter(t)  PROVE Promise!StartWrite(t)
    <3>1. R' = R
      BY <2>4 DEF ClaimWriter
    <3>2. /\ ~WriterActive(t) /\ activeReaders[ProcOf[t]] = 0
          /\ Goto(t, "wconnect")
      BY <2>0, <2>4, <3>1 DEF ClaimWriter
    <3>3. W' = W \cup {t}
      BY <3>2 DEF Goto, IInv, TypeOK, WritePc
    <3>4. W \cap Promise!Peers(t) = {}
      BY <3>2 DEF IInv, WriterRegistered, WriterActive, Promise!Peers
    <3>5. R \cap Promise!Peers(t) = {}
      BY <3>2, ReaderCounted DEF IInv, Promise!Peers
    <3>. QED  BY <3>1, <3>3, <3>4, <3>5 DEF Promise!StartWrite
  <2>5. ASSUME NEW t \in Threads, WriteConnectFails(t) \/ ReleaseWriter(t)
        PROVE  Promise!EndWrite(t)
    <3>1. R' = R
      BY <2>5 DEF WriteConnectFails, ReleaseWriter, claims
    <3>2. t \in W
      BY <2>5 DEF WriteConnectFails, ReleaseWriter, WritePc
    <3>3. W' = W \ {t}
      <4>1. CASE WriteConnectFails(t)
        BY <4>1 DEF WriteConnectFails, Goto, IInv, TypeOK, WritePc
      <4>2. CASE ReleaseWriter(t)
        BY <4>2 DEF ReleaseWriter, NotifyAll, IInv, TypeOK, WritePc
      <4>. QED  BY <2>5, <4>1, <4>2
    <3>. QED  BY <3>1, <3>2, <3>3 DEF Promise!EndWrite
  <2>6. ~UNCHANGED vars
    BY <2>0 DEF vars, claims
  <2>7. \E t \in Threads : \/ ClaimReader(t) \/ ReadConnectFails(t)
                           \/ ReleaseReader(t) \/ ClaimWriter(t)
                           \/ WriteConnectFails(t) \/ ReleaseWriter(t) \/ Inside(t)
    BY <2>6, InsideActions DEF Next, IInv
  <2>. QED  BY <2>1, <2>2, <2>3, <2>4, <2>5, <2>7 DEF Promise!Next
<1>. QED  BY <1>1, <1>2, Mutex, PTL DEF Spec, Promise!Spec, ImplementsReadersWriter

-----------------------------------------------------------------------------
(* The claims when no connect fails: then nothing leaks, the count is exact and *)
(* a registered writer is running.                                             *)

ReadersExact == \A p \in Procs : activeReaders[p] = Cardinality(Claims(p))

WritersLive == \A p \in activeWriters : \E u \in Threads : ProcOf[u] = p /\ InWrite(u)

\* Who is in a write transaction, when its registration changes with it.
LEMMA WritersLiveStep ==
    ASSUME ~ConnectMayFail, IInv, WritersLive, [Next]_vars
    PROVE  WritersLive'
<1>. USE DEF WritersLive, InWrite, IInv, TypeOK, WritePc
<1>1. ASSUME NEW t \in Threads, Inside(t)  PROVE WritersLive'
  BY <1>1 DEF Inside, claims
<1>2. ASSUME NEW t \in Threads, ClaimReader(t)  PROVE WritersLive'
  <2>1. UNCHANGED activeWriters /\ pc[t] \notin WritePc
    BY <1>2 DEF ClaimReader
  <2>2. \A u \in Threads : u # t => pc'[u] = pc[u]
    BY <1>2 DEF ClaimReader, Goto
  <2>. QED  BY <2>1, <2>2
<1>3. ASSUME NEW t \in Threads, ReleaseReader(t)  PROVE WritersLive'
  <2>1. UNCHANGED activeWriters /\ pc[t] \notin WritePc
    BY <1>3 DEF ReleaseReader
  <2>2. PICK label : NotifyAll(t, label) \/ Goto(t, label)
    BY <1>3 DEF ReleaseReader
  <2>3. \A u \in Threads : u # t /\ pc[u] \in WritePc => pc'[u] = pc[u]
    BY <2>2 DEF NotifyAll, Goto
  <2>. QED  BY <2>1, <2>3
<1>4. ASSUME NEW t \in Threads, ClaimWriter(t)  PROVE WritersLive'
  <2>1. CASE UNCHANGED <<activeWriters, pc>>
    BY <2>1
  <2>2. CASE activeWriters' = activeWriters \cup {ProcOf[t]} /\ Goto(t, "wconnect")
    <3>1. pc'[t] = "wconnect" /\ \A u \in Threads : u # t => pc'[u] = pc[u]
      BY <2>2 DEF Goto
    <3>2. pc[t] \notin WritePc
      BY <1>4 DEF ClaimWriter
    <3>. QED  BY <2>2, <3>1, <3>2
  <2>. QED  BY <1>4, <2>1, <2>2 DEF ClaimWriter
<1>5. ASSUME NEW t \in Threads, ReleaseWriter(t)  PROVE WritersLive'
  <2>1. activeWriters' = activeWriters \ {ProcOf[t]} /\ NotifyAll(t, "idle")
    BY <1>5 DEF ReleaseWriter
  <2>2. \A u \in Threads : u # t /\ pc[u] \in WritePc => pc'[u] = pc[u]
    BY <2>1 DEF NotifyAll
  <2>. QED  BY <2>1, <2>2
<1>6. ASSUME NEW t \in Threads, ReadConnectFails(t) \/ WriteConnectFails(t)  PROVE FALSE
  BY <1>6 DEF ReadConnectFails, WriteConnectFails
<1>7. CASE UNCHANGED vars
  BY <1>7 DEF vars, claims
<1>8. CASE Next
  <2>1. \E t \in Threads : \/ ClaimReader(t) \/ ReadConnectFails(t)
                           \/ ReleaseReader(t) \/ ClaimWriter(t)
                           \/ WriteConnectFails(t) \/ ReleaseWriter(t) \/ Inside(t)
    BY <1>8, InsideActions DEF Next
  <2>. QED  BY <2>1, <1>1, <1>2, <1>3, <1>4, <1>5, <1>6
<1>. QED  BY <1>7, <1>8

\* One reader more or less is counted exactly.
LEMMA ReadersExactStep ==
    ASSUME ~ConnectMayFail, IInv, TypeOK', ReadersExact, [Next]_vars
    PROVE  ReadersExact'
<1>1. ASSUME UNCHANGED <<activeReaders, depth>>  PROVE ReadersExact'
  BY <1>1 DEF ReadersExact, Claims, ClaimsAt
<1>2. ASSUME NEW t \in Threads, ClaimReader(t), ~UNCHANGED <<activeReaders, depth>>
      PROVE  ReadersExact'
  <2>1. /\ activeReaders' = [activeReaders EXCEPT ![ProcOf[t]] = @ + 1]
        /\ depth' = [depth EXCEPT ![t] = @ + 1]
    BY <1>2 DEF ClaimReader
  <2>2. /\ depth' \in [Threads -> 0..MaxDepth] /\ depth'[t] = depth[t] + 1
        /\ depth \in [Threads -> 0..MaxDepth]
        /\ \A u \in Threads \ {t} : depth'[u] = depth[u]
    BY <2>1 DEF IInv, TypeOK
  <2>3. ASSUME NEW p \in Procs  PROVE activeReaders'[p] = Cardinality(ClaimsAt(depth', p))
    <3>1. Cardinality(ClaimsAt(depth', p))
            = Cardinality(ClaimsAt(depth, p)) + (IF p = ProcOf[t] THEN 1 ELSE 0)
      BY <2>2, ClaimsGrow
    <3>2. activeReaders[p] = Cardinality(ClaimsAt(depth, p)) /\ activeReaders[p] \in Nat
      BY DEF ReadersExact, Claims, IInv, TypeOK
    <3>3. activeReaders'[p] = activeReaders[p] + (IF p = ProcOf[t] THEN 1 ELSE 0)
      BY <2>1, <3>2 DEF IInv, TypeOK
    <3>. QED  BY <3>1, <3>2, <3>3
  <2>. QED  BY <2>3 DEF ReadersExact, Claims
<1>3. ASSUME NEW t \in Threads, ReleaseReader(t)  PROVE ReadersExact'
  <2>1. /\ activeReaders' = [activeReaders EXCEPT
              ![ProcOf[t]] = IF activeReaders[ProcOf[t]] <= 1 THEN 0 ELSE @ - 1]
        /\ depth' = [depth EXCEPT ![t] = @ - 1] /\ depth[t] > 0
    BY <1>3 DEF ReleaseReader, IInv, PlaceMatchesDepth, ReadPc
  <2>2. /\ depth' \in [Threads -> 0..MaxDepth] /\ depth[t] = depth'[t] + 1
        /\ depth \in [Threads -> 0..MaxDepth]
        /\ \A u \in Threads \ {t} : depth[u] = depth'[u]
    BY <2>1, BoundAssumption DEF IInv, TypeOK
  <2>3. ASSUME NEW p \in Procs  PROVE activeReaders'[p] = Cardinality(ClaimsAt(depth', p))
    <3>1. Cardinality(ClaimsAt(depth, p))
            = Cardinality(ClaimsAt(depth', p)) + (IF p = ProcOf[t] THEN 1 ELSE 0)
      BY <2>2, ClaimsGrow
    <3>2. activeReaders[p] = Cardinality(ClaimsAt(depth, p)) /\ activeReaders[p] \in Nat
      BY DEF ReadersExact, Claims, IInv, TypeOK
    <3>3. Cardinality(ClaimsAt(depth', p)) \in Nat
      BY ClaimsFinite, FS_CardinalityType
    <3>4. CASE p = ProcOf[t]
      <4>1. activeReaders'[p] = IF activeReaders[p] <= 1 THEN 0 ELSE activeReaders[p] - 1
        BY <2>1, <3>4 DEF IInv, TypeOK
      <4>. QED  BY <3>1, <3>2, <3>3, <3>4, <4>1
    <3>5. CASE p # ProcOf[t]
      <4>1. activeReaders'[p] = activeReaders[p]
        BY <2>1, <3>5 DEF IInv, TypeOK
      <4>. QED  BY <3>1, <3>2, <3>3, <3>5, <4>1
    <3>. QED  BY <3>4, <3>5
  <2>. QED  BY <2>3 DEF ReadersExact, Claims
<1>4. ASSUME NEW t \in Threads, ReadConnectFails(t) \/ WriteConnectFails(t)  PROVE FALSE
  BY <1>4 DEF ReadConnectFails, WriteConnectFails
<1>5. ASSUME NEW t \in Threads, ClaimWriter(t) \/ ReleaseWriter(t) \/ Inside(t)
      PROVE  UNCHANGED <<activeReaders, depth>>
  BY <1>5 DEF ClaimWriter, ReleaseWriter, Inside, claims
<1>6. CASE UNCHANGED vars
  BY <1>1, <1>6 DEF vars, claims
<1>7. CASE Next
  <2>1. \E t \in Threads : \/ ClaimReader(t) \/ ReadConnectFails(t)
                           \/ ReleaseReader(t) \/ ClaimWriter(t)
                           \/ WriteConnectFails(t) \/ ReleaseWriter(t) \/ Inside(t)
    BY <1>7, InsideActions DEF Next, IInv
  <2>. QED  BY <2>1, <1>1, <1>2, <1>3, <1>4, <1>5
<1>. QED  BY <1>6, <1>7

LEMMA Exact ==
    ASSUME ~ConnectMayFail
    PROVE  Spec => [](IInv /\ ReadersExact /\ WritersLive)
<1>1. Init => IInv /\ ReadersExact /\ WritersLive
  <2>. SUFFICES ASSUME Init  PROVE IInv /\ ReadersExact /\ WritersLive
    OBVIOUS
  <2>1. ASSUME NEW p \in Procs  PROVE Cardinality(Claims(p)) = 0
    <3>1. Claims(p) = {}
      BY BoundAssumption DEF Init, Claims, ClaimsAt
    <3>. QED  BY <3>1, FS_EmptySet
  <2>. QED  BY <2>1, MutexInit DEF Init, ReadersExact, WritersLive
<1>2. (IInv /\ ReadersExact /\ WritersLive) /\ [Next]_vars
        => (IInv /\ ReadersExact /\ WritersLive)'
  <2>. SUFFICES ASSUME IInv, ReadersExact, WritersLive, [Next]_vars
                PROVE  IInv' /\ ReadersExact' /\ WritersLive'
    OBVIOUS
  <2>1. IInv'
    BY MutexStep
  <2>2. TypeOK'
    BY <2>1 DEF IInv
  <2>. QED  BY <2>1, <2>2, ReadersExactStep, WritersLiveStep
<1>. QED  BY <1>1, <1>2, PTL DEF Spec

\* If no connect fails, _claim_writer refuses only while a thread of its process is
\* inside a transaction or a read connection.
THEOREM RefusalsHaveCause ==
    ASSUME ~ConnectMayFail
    PROVE  Spec => RefusalHasCause
<1>. DEFINE Caused ==
       \A t \in Threads :
          (pc[t] = "idle" /\ outcome[t] # "concurrent_write"
                          /\ outcome'[t] = "concurrent_write") =>
              \E u \in Threads : ProcOf[u] = ProcOf[t] /\ (InWrite(u) \/ InRead(u))
<1>1. (IInv /\ ReadersExact /\ WritersLive) /\ [Next]_vars => [Caused]_vars
  <2>. SUFFICES ASSUME IInv, ReadersExact, WritersLive, Next, NEW t \in Threads,
                       pc[t] = "idle", outcome[t] # "concurrent_write",
                       outcome'[t] = "concurrent_write"
                PROVE  \E u \in Threads : ProcOf[u] = ProcOf[t] /\ (InWrite(u) \/ InRead(u))
    OBVIOUS
  <2>. USE DEF IInv, TypeOK, Ends
  <2>1. ASSUME NEW u \in Threads,
               \/ ClaimReader(u) \/ ReadConnect(u) \/ ReadConnectFails(u)
               \/ BeginStatement(u) \/ EndStatement(u) \/ StatementTimesOut(u)
        PROVE  FALSE
    BY <2>1 DEF ClaimReader, ReadConnect, ReadConnectFails, BeginStatement,
                EndStatement, StatementTimesOut
  <2>2. ASSUME NEW u \in Threads, ReleaseReader(u)  PROVE FALSE
    BY <2>2 DEF ReleaseReader
  <2>3. ASSUME NEW u \in Threads,
               \/ WriteConnect(u) \/ WriteConnectFails(u)
               \/ BeginImmediate(u) \/ BeginTimesOut(u) \/ StartCommit(u)
        PROVE  FALSE
    BY <2>3 DEF WriteConnect, WriteConnectFails, BeginImmediate, BeginTimesOut, StartCommit
  <2>4. ASSUME NEW u \in Threads,
               \/ Commit(u) \/ CommitTimesOut(u) \/ BodyRollsBack(u) \/ BodyRaises(u)
               \/ ReleaseWriter(u)
        PROVE  FALSE
    BY <2>4 DEF Commit, CommitTimesOut, BodyRollsBack, BodyRaises, ReleaseWriter
  <2>5. PICK u \in Threads : ClaimWriter(u)
    BY <2>1, <2>2, <2>3, <2>4 DEF Next
  <2>6. u = t /\ (WriterActive(t) \/ activeReaders[ProcOf[t]] > 0)
    BY <2>5 DEF ClaimWriter
  <2>7. CASE WriterActive(t)
    BY <2>7 DEF WritersLive, WriterActive
  <2>8. CASE activeReaders[ProcOf[t]] > 0
    <3>. DEFINE p == ProcOf[t]
    <3>1. p \in Procs /\ MaxDepth \in Nat
      BY ProcOfAssumption, BoundAssumption
    <3>2. Cardinality(Claims(p)) > 0
      BY <2>8, <3>1 DEF ReadersExact
    <3>3. Claims(p) # {}
      <4>. HIDE DEF p
      <4>1. SUFFICES ASSUME Claims(p) = {} PROVE FALSE
        OBVIOUS
      <4>2. Cardinality({}) = 0
        BY FS_EmptySet
      <4>. QED  BY <3>2, <4>1, <4>2
    <3>4. PICK c \in Threads \X (1..MaxDepth) : ProcOf[c[1]] = p /\ c[2] <= depth[c[1]]
      BY <3>3 DEF Claims, ClaimsAt
    <3>5. InRead(c[1])
      BY <3>1, <3>4 DEF InRead
    <3>. QED  BY <3>4, <3>5
  <2>. QED  BY <2>6, <2>7, <2>8
<1>. QED  BY <1>1, Exact, PTL DEF Spec, RefusalHasCause

\* If no connect fails, a waiting reader waits for a write transaction that a thread
\* of its process is running (the loop of _claim_reader).
THEOREM WaitersHaveWriter ==
    ASSUME ~ConnectMayFail
    PROVE  Spec => []WaitsForLiveWriter
<1>1. IInv /\ ReadersExact /\ WritersLive => WaitsForLiveWriter
  BY DEF IInv, NoLostWakeup, WriterActive, WritersLive, WaitsForLiveWriter
<1>. QED  BY <1>1, Exact, PTL
=============================================================================
