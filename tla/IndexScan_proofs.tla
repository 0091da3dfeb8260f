--------------------------- MODULE IndexScan_proofs ---------------------------
(***************************************************************************)
(* Proofs about IndexScan for every set of files, texts and callers and any *)
(* number of edits, undone ones included.                                   *)
(***************************************************************************)
EXTENDS IndexScan, TLAPS

\* The hash a caller's key has of a file: of the inventory first, of all files once the
\* fingerprint is computed.
HasKey(c) == pc[c] \in {"keyed", "missed", "computed"}

\* What a scanner is about to store under a key is exact for each file whose
\* hash in the key is still that of the file, unless that hash came back.
FoundExact ==
    \A c \in Callers : pc[c] = "computed" =>
        \A p \in Path \ undone : seen[c][p] = disk[p] => found[c][p] = disk[p]

\* The same of what the cache holds.
CacheExact ==
    cache # NoCache =>
        \A p \in Path \ undone : cache.key[p] = disk[p] => cache.report[p] = disk[p]

\* With no edit since a call began, its hashes and findings are those of the tree.
QuietExact ==
    \A c \in quiet :
        /\ pc[c] # "idle" => \A p \in Indexed : seen[c][p] = disk[p]
        /\ HasKey(c) => \A p \in Path : seen[c][p] = disk[p]
        /\ pc[c] = "analyzed" => \A p \in Path \ undone : found[c][p] = disk[p]

\* With no other index since a call began, the hashes it loaded are still stored.
CalmExact == \A c \in calm : pc[c] = "loaded" => previous[c] = hash

IInv ==
    /\ TypeOK /\ FreshRowsAreExact
    /\ FoundExact /\ CacheExact /\ QuietExact /\ CalmExact

-----------------------------------------------------------------------------
\* A call that returns leaves its place and its local variables typed.
LEMMA ReturnTyped ==
    ASSUME TypeOK, NEW c \in Callers, Return(c)
    PROVE  /\ pc' \in [Callers -> Pc] /\ seen' \in [Callers -> Tree]
           /\ previous' \in [Callers -> Tree] /\ found' \in [Callers -> Tree]
           /\ quiet' \subseteq Callers
<1>1. Blank \in Tree /\ "idle" \in Pc
  BY DEF Blank, Tree, Text, Pc
<1> QED BY <1>1 DEF Return, Goto, TypeOK

LEMMA TypeStep == ASSUME TypeOK, [Next]_vars PROVE TypeOK'
<1> USE DEF TypeOK, Tree, Text, Pc, tree, index, findings, locals
<1>1. ASSUME NEW p \in Path, NEW text \in Text, Edit(p, text) PROVE TypeOK'
  BY <1>1, EditAssumption DEF Edit
<1>2. ASSUME NEW c \in Callers, Step(c) PROVE TypeOK'
  <2>1. CASE Inventory(c)
    BY <2>1 DEF Inventory, Goto
  <2>2. CASE LoadHashes(c)
    BY <2>2 DEF LoadHashes, Goto
  <2>3. CASE Persist(c)
    <3>1. hash' \in Tree /\ graph' \in Tree
      BY <2>3 DEF Persist, HashAfter, GraphAfter
    <3>2. linked' \subseteq Path /\ calm' \subseteq Callers
      BY <2>3 DEF Persist
    <3>3. /\ pc' \in [Callers -> Pc] /\ seen' \in [Callers -> Tree]
          /\ previous' \in [Callers -> Tree] /\ found' \in [Callers -> Tree]
          /\ quiet' \subseteq Callers
      <4>1. CASE c \in Scanners
        <5>1. /\ pc' = [pc EXCEPT ![c] = "persisted"] /\ previous' = [previous EXCEPT ![c] = Blank]
              /\ seen' = seen /\ found' = found /\ quiet' = quiet
          BY <2>3, <4>1 DEF Persist, Goto
        <5>2. Blank \in Tree /\ "persisted" \in Pc
          BY DEF Blank
        <5> QED BY <5>1, <5>2
      <4>2. CASE c \notin Scanners
        BY <2>3, <4>2, ReturnTyped DEF Persist
      <4> QED BY <4>1, <4>2
    <3>4. disk' = disk /\ undone' = undone /\ edits' = edits /\ cache' = cache /\ report' = report
      BY <2>3 DEF Persist
    <3> QED BY <3>1, <3>2, <3>3, <3>4
  <2>4. CASE PersistFails(c)
    BY <2>4, ReturnTyped DEF PersistFails
  <2>5. CASE Refused(c)
    BY <2>5, ReturnTyped DEF Refused
  <2>6. CASE ReadKey(c)
    BY <2>6 DEF ReadKey, Goto
  <2>7. CASE Hit(c)
    BY <2>7 DEF Hit, Goto
  <2>8. CASE Miss(c)
    BY <2>8 DEF Miss, Goto
  <2>9. CASE RunPacks(c)
    BY <2>9 DEF RunPacks, Goto
  <2>10. CASE PacksFail(c)
    BY <2>10, ReturnTyped DEF PacksFail
  <2>11. CASE StoreCache(c)
    BY <2>11 DEF StoreCache, Goto
  <2>12. CASE Commit(c)
    BY <2>12, ReturnTyped DEF Commit, Linked
  <2>13. CASE CommitFails(c)
    BY <2>13, ReturnTyped DEF CommitFails
  <2> QED BY <1>2, <2>1, <2>2, <2>3, <2>4, <2>5, <2>6, <2>7, <2>8, <2>9, <2>10,
             <2>11, <2>12, <2>13 DEF Step
<1>3. CASE UNCHANGED vars
  BY <1>3 DEF vars
<1> QED BY <1>1, <1>2, <1>3 DEF Next

\* Every reachable state is well typed.
THEOREM TypeCorrect == Spec => []TypeOK
<1>1. Init => TypeOK
  BY EditAssumption DEF Init, TypeOK, Tree, Text, Blank, Pc
<1> QED BY <1>1, TypeStep, PTL DEF Spec

-----------------------------------------------------------------------------
\* An edit of a file leads away from every hash on record, or the file got one back.
LEMMA EditLeads ==
    ASSUME TypeOK, NEW p \in Path, NEW text \in Text, Edit(p, text),
           NEW q \in Path, q \notin undone'
    PROVE  /\ q \notin undone
           /\ hash[q] = disk'[q] => hash[q] = disk[q]
           /\ cache # NoCache /\ cache.key[q] = disk'[q] => cache.key[q] = disk[q]
           /\ \A c \in Callers :
                 pc[c] # "idle" /\ seen[c][q] = disk'[q] => seen[c][q] = disk[q]
<1>1. CASE q = p
  <2>1. ~OnRecord(p, text) /\ disk'[p] = text
    BY <1>1 DEF Edit, TypeOK, Tree
  <2> QED BY <1>1, <2>1 DEF Edit, OnRecord
<1>2. CASE q # p
  BY <1>2 DEF Edit, TypeOK, Tree
<1> QED BY <1>1, <1>2

\* A step of one caller leaves the tree, and the place and local variables of
\* the others.
LEMMA OthersKept ==
    ASSUME TypeOK, NEW c \in Callers, Step(c)
    PROVE  /\ disk' = disk /\ undone' = undone
           /\ \A d \in Callers \ {c} :
                /\ pc'[d] = pc[d] /\ seen'[d] = seen[d]
                /\ previous'[d] = previous[d] /\ found'[d] = found[d]
                /\ d \in quiet' <=> d \in quiet
<1> USE DEF TypeOK, tree, index, findings, locals
<1>1. CASE Inventory(c)
  BY <1>1 DEF Inventory, Goto
<1>2. CASE LoadHashes(c)
  BY <1>2 DEF LoadHashes, Goto
<1>3. CASE Persist(c) /\ c \in Scanners
  BY <1>3 DEF Persist, Goto
<1>4. CASE Persist(c) /\ c \notin Scanners
  BY <1>4 DEF Persist, Return, Goto
<1>5. CASE PersistFails(c)
  BY <1>5 DEF PersistFails, Return, Goto
<1>6. CASE Refused(c)
  BY <1>6 DEF Refused, Return, Goto
<1>7. CASE ReadKey(c)
  BY <1>7 DEF ReadKey, Goto
<1>8. CASE Hit(c)
  BY <1>8 DEF Hit, Goto
<1>9. CASE Miss(c)
  BY <1>9 DEF Miss, Goto
<1>10. CASE RunPacks(c)
  BY <1>10 DEF RunPacks, Goto
<1>11. CASE PacksFail(c)
  BY <1>11 DEF PacksFail, Return, Goto
<1>12. CASE StoreCache(c)
  BY <1>12 DEF StoreCache, Goto
<1>13. CASE Commit(c)
  BY <1>13 DEF Commit, Return, Goto
<1>14. CASE CommitFails(c)
  BY <1>14 DEF CommitFails, Return, Goto
<1> QED BY <1>1, <1>2, <1>3, <1>4, <1>5, <1>6, <1>7, <1>8, <1>9, <1>10, <1>11,
           <1>12, <1>13, <1>14 DEF Step

\* What each step does to its own caller.
LEMMA OwnStep ==
    ASSUME TypeOK, NEW c \in Callers, Step(c)
    PROVE  \/ pc'[c] = "idle"
           \/ /\ pc'[c] \in {"inventoried", "loaded", "persisted"}
              /\ \A p \in Indexed : seen'[c][p] = IF pc[c] = "idle" THEN disk[p] ELSE seen[c][p]
              /\ c \in quiet' <=> c \in quiet
           \/ /\ HasKey(c)' /\ ~HasKey(c)
              /\ pc[c] # "idle"
              /\ \A p \in Path : seen'[c][p] = IF p \in Indexed THEN seen[c][p] ELSE disk[p]
              /\ pc'[c] = "keyed"
              /\ c \in quiet' <=> c \in quiet
           \/ /\ HasKey(c) /\ HasKey(c)'
              /\ seen'[c] = seen[c]
              /\ pc'[c] = "computed" => \A p \in Path : found'[c][p] = disk[p]
              /\ c \in quiet' <=> c \in quiet
           \/ /\ HasKey(c) /\ pc'[c] = "analyzed" /\ seen'[c] = seen[c]
              /\ c \in quiet' <=> c \in quiet
              /\ \/ pc[c] = "computed" /\ found'[c] = found[c]
                 \/ cache # NoCache /\ cache.key = seen[c] /\ found'[c] = cache.report
<1> USE DEF TypeOK, tree, index, findings, locals, HasKey
<1>0. Indexed \subseteq Path
  BY PathAssumption
<1>1. CASE Inventory(c)
  BY <1>0, <1>1 DEF Inventory, Goto
<1>2. CASE LoadHashes(c)
  BY <1>2 DEF LoadHashes, Goto
<1>3. CASE Persist(c) /\ c \in Scanners
  BY <1>3 DEF Persist, Goto
<1>4. CASE Return(c)
  BY <1>4 DEF Return, Goto
<1>7. CASE ReadKey(c)
  BY <1>7 DEF ReadKey, Goto
<1>8. CASE Hit(c)
  BY <1>8 DEF Hit, Goto
<1>9. CASE Miss(c)
  BY <1>9 DEF Miss, Goto
<1>10. CASE RunPacks(c)
  BY <1>10 DEF RunPacks, Goto
<1>12. CASE StoreCache(c)
  BY <1>12 DEF StoreCache, Goto
<1> QED BY <1>1, <1>2, <1>3, <1>4, <1>7, <1>8, <1>9, <1>10, <1>12
        DEF Step, Persist, PersistFails, Refused, PacksFail, Commit, CommitFails

\* Only the index transaction changes the rows, only a store the cache.
LEMMA StoresKept ==
    ASSUME NEW c \in Callers, Step(c)
    PROVE  /\ Persist(c) \/ (hash' = hash /\ graph' = graph)
           /\ StoreCache(c) \/ cache' = cache
BY DEF Step, Inventory, LoadHashes, Persist, PersistFails, Refused, ReadKey, Hit, Miss,
       RunPacks, PacksFail, StoreCache, Commit, CommitFails, index

-----------------------------------------------------------------------------
LEMMA RowsStep ==
    ASSUME IInv, [Next]_vars
    PROVE  FreshRowsAreExact'
<1> SUFFICES ASSUME NEW q \in Indexed, q \notin undone', hash'[q] = disk'[q]
             PROVE  graph'[q] = disk'[q]
  BY DEF FreshRowsAreExact
<1>0. /\ q \in Path
      /\ q \notin undone /\ hash[q] = disk[q] => graph[q] = disk[q]
  BY PathAssumption DEF IInv, FreshRowsAreExact
<1>1. ASSUME NEW p \in Path, NEW text \in Text, Edit(p, text)
      PROVE  graph'[q] = disk'[q]
  <2>1. hash' = hash /\ graph' = graph
    BY <1>1 DEF Edit, index
  <2>2. q \notin undone /\ (hash[q] = disk'[q] => hash[q] = disk[q])
    BY <1>0, <1>1, EditLeads DEF IInv
  <2> QED BY <1>0, <2>1, <2>2
<1>2. ASSUME NEW c \in Callers, Step(c)
      PROVE  graph'[q] = disk'[q]
  <2>1. disk' = disk /\ undone' = undone
    BY <1>2, OthersKept DEF IInv
  <2>2. CASE Persist(c)
    <3>1. /\ hash'[q] = IF q \in ToIndex(c) THEN seen[c][q]
                        ELSE IF q \in Removed(c) THEN Absent ELSE hash[q]
          /\ graph'[q] = IF q \in ToIndex(c) THEN disk[q]
                         ELSE IF q \in Removed(c) THEN Absent ELSE graph[q]
      BY <1>0, <2>2 DEF Persist, HashAfter, GraphAfter
    <3> QED BY <1>0, <2>1, <3>1
  <2>3. CASE hash' = hash /\ graph' = graph
    BY <1>0, <2>1, <2>3
  <2> QED BY <1>2, <2>2, <2>3, StoresKept
<1>3. CASE UNCHANGED vars
  BY <1>0, <1>3 DEF vars, tree, index
<1> QED BY <1>1, <1>2, <1>3 DEF Next

LEMMA FoundStep ==
    ASSUME IInv, [Next]_vars
    PROVE  FoundExact'
<1> SUFFICES ASSUME NEW d \in Callers, pc'[d] = "computed", NEW q \in Path,
                    q \notin undone', seen'[d][q] = disk'[q]
             PROVE  found'[d][q] = disk'[q]
  BY DEF FoundExact
<1>1. ASSUME NEW p \in Path, NEW text \in Text, Edit(p, text)
      PROVE  found'[d][q] = disk'[q]
  <2>1. pc' = pc /\ seen' = seen /\ found' = found
    BY <1>1 DEF Edit, locals
  <2>2. pc[d] # "idle" /\ seen[d][q] = disk'[q]
    BY <2>1
  <2>3. seen[d][q] = disk[q] /\ q \notin undone
    BY <1>1, <2>2, EditLeads DEF IInv
  <2> QED BY <2>1, <2>2, <2>3 DEF IInv, FoundExact
<1>2. ASSUME NEW c \in Callers, Step(c)
      PROVE  found'[d][q] = disk'[q]
  <2>1. disk' = disk /\ undone' = undone
    BY <1>2, OthersKept DEF IInv
  <2>2. CASE d # c
    <3>1. pc'[d] = pc[d] /\ seen'[d] = seen[d] /\ found'[d] = found[d]
      BY <1>2, <2>2, OthersKept DEF IInv
    <3> QED BY <2>1, <3>1 DEF IInv, FoundExact
  <2>3. CASE d = c
    BY <1>2, <2>1, <2>3, OwnStep DEF IInv, HasKey
  <2> QED BY <2>2, <2>3
<1>3. CASE UNCHANGED vars
  BY <1>3 DEF vars, tree, locals, IInv, FoundExact
<1> QED BY <1>1, <1>2, <1>3 DEF Next

LEMMA CacheStep ==
    ASSUME IInv, [Next]_vars
    PROVE  CacheExact'
<1> SUFFICES ASSUME cache' # NoCache, NEW q \in Path, q \notin undone',
                    cache'.key[q] = disk'[q]
             PROVE  cache'.report[q] = disk'[q]
  BY DEF CacheExact
<1>0. cache # NoCache /\ q \notin undone /\ cache.key[q] = disk[q] => cache.report[q] = disk[q]
  BY DEF IInv, CacheExact
<1>1. ASSUME NEW p \in Path, NEW text \in Text, Edit(p, text)
      PROVE  cache'.report[q] = disk'[q]
  <2>1. cache' = cache
    BY <1>1 DEF Edit
  <2>2. q \notin undone /\ cache.key[q] = disk[q]
    BY <1>1, <2>1, EditLeads DEF IInv
  <2> QED BY <1>0, <2>1, <2>2
<1>2. ASSUME NEW c \in Callers, Step(c)
      PROVE  cache'.report[q] = disk'[q]
  <2>1. disk' = disk /\ undone' = undone
    BY <1>2, OthersKept DEF IInv
  <2>2. CASE cache' = cache
    BY <1>0, <2>1, <2>2
  <2>3. CASE StoreCache(c) /\ cache' # cache
    <3>1. cache' = [key |-> seen[c], report |-> found[c]] /\ pc[c] = "computed"
      BY <2>3 DEF StoreCache
    <3>2. seen[c][q] = disk[q] => found[c][q] = disk[q]
      BY <2>1, <3>1 DEF IInv, FoundExact
    <3> QED BY <2>1, <3>1, <3>2
  <2> QED BY <1>2, <2>2, <2>3, StoresKept
<1>3. CASE UNCHANGED vars
  BY <1>0, <1>3 DEF vars, tree
<1> QED BY <1>1, <1>2, <1>3 DEF Next

LEMMA QuietStep ==
    ASSUME IInv, [Next]_vars
    PROVE  QuietExact'
<1> SUFFICES ASSUME NEW d \in quiet'
             PROVE  /\ pc'[d] # "idle" => \A q \in Indexed : seen'[d][q] = disk'[q]
                    /\ HasKey(d)' => \A q \in Path : seen'[d][q] = disk'[q]
                    /\ pc'[d] = "analyzed" => \A q \in Path \ undone' : found'[d][q] = disk'[q]
  BY DEF QuietExact
<1>0. d \in Callers
  BY TypeStep DEF IInv, TypeOK
<1>a. d \in quiet =>
        /\ pc[d] # "idle" => \A q \in Indexed : seen[d][q] = disk[q]
        /\ HasKey(d) => \A q \in Path : seen[d][q] = disk[q]
        /\ pc[d] = "analyzed" => \A q \in Path \ undone : found[d][q] = disk[q]
  BY DEF IInv, QuietExact
<1>1. ASSUME NEW p \in Path, NEW text \in Text, Edit(p, text)
      PROVE  pc'[d] = "idle"
  BY <1>1 DEF Edit, locals
<1>2. ASSUME NEW c \in Callers, Step(c)
      PROVE  /\ pc'[d] # "idle" => \A q \in Indexed : seen'[d][q] = disk'[q]
             /\ HasKey(d)' => \A q \in Path : seen'[d][q] = disk'[q]
             /\ pc'[d] = "analyzed" => \A q \in Path \ undone' : found'[d][q] = disk'[q]
  <2>1. disk' = disk /\ undone' = undone
    BY <1>2, OthersKept DEF IInv
  <2>2. CASE d # c
    <3>1. /\ pc'[d] = pc[d] /\ seen'[d] = seen[d] /\ found'[d] = found[d]
          /\ d \in quiet
      BY <1>0, <1>2, <2>2, OthersKept DEF IInv
    <3> QED BY <1>a, <2>1, <3>1 DEF HasKey
  <2>3. CASE d = c /\ pc'[c] = "analyzed"
    <3>1. /\ HasKey(c) /\ c \in quiet
          /\ \/ pc[c] = "computed" /\ found'[c] = found[c]
             \/ cache # NoCache /\ cache.key = seen[c] /\ found'[c] = cache.report
      BY <1>2, <2>3, OwnStep DEF IInv, HasKey
    <3>2. \A q \in Path : seen[c][q] = disk[q]
      BY <1>a, <2>3, <3>1
    <3>3. \A q \in Path \ undone : found'[c][q] = disk[q]
      BY <3>1, <3>2 DEF IInv, FoundExact, CacheExact
    <3>4. seen'[c] = seen[c]
      BY <1>2, <2>3, OwnStep DEF IInv, HasKey
    <3> QED BY <2>1, <2>3, <3>2, <3>3, <3>4, PathAssumption DEF HasKey
  <2>4. CASE d = c /\ pc'[c] # "analyzed"
    BY <1>0, <1>2, <1>a, <2>1, <2>4, OwnStep, PathAssumption DEF IInv, HasKey
  <2> QED BY <2>2, <2>3, <2>4
<1>3. CASE UNCHANGED vars
  BY <1>a, <1>3 DEF vars, tree, locals, HasKey
<1> QED BY <1>1, <1>2, <1>3 DEF Next, HasKey

LEMMA CalmStep ==
    ASSUME IInv, [Next]_vars
    PROVE  CalmExact'
<1> SUFFICES ASSUME NEW d \in calm', pc'[d] = "loaded"
             PROVE  previous'[d] = hash'
  BY DEF CalmExact
<1>0. d \in Callers
  BY TypeStep DEF IInv, TypeOK
<1>1. ASSUME NEW p \in Path, NEW text \in Text, Edit(p, text)
      PROVE  previous'[d] = hash'
  BY <1>1 DEF Edit, locals, index, IInv, CalmExact
<1>2. ASSUME NEW c \in Callers, Step(c)
      PROVE  previous'[d] = hash'
  <2>1. CASE d # c
    <3>1. pc[d] = "loaded" /\ previous'[d] = previous[d]
      BY <1>0, <1>2, <2>1, OthersKept DEF IInv
    <3>2. ~Persist(c) /\ d \in calm
      BY <1>2, <2>1, <3>1 DEF Step, Inventory, LoadHashes, Persist, PersistFails, Refused,
             ReadKey, Hit, Miss, RunPacks, PacksFail, StoreCache, Commit, CommitFails
    <3> QED BY <1>2, <3>1, <3>2, StoresKept DEF IInv, CalmExact
  <2>2. CASE d = c
    <3>1. CASE LoadHashes(c)
      BY <2>2, <3>1 DEF LoadHashes, index, IInv, TypeOK
    <3>2. CASE ~LoadHashes(c)
      BY <1>2, <2>2, <3>2 DEF Step, Inventory, Persist, PersistFails, Refused, ReadKey,
             Hit, Miss, RunPacks, PacksFail, StoreCache, Commit, CommitFails, Return, Goto,
             IInv, TypeOK
    <3> QED BY <3>1, <3>2
  <2> QED BY <2>1, <2>2
<1>3. CASE UNCHANGED vars
  BY <1>3 DEF vars, index, locals, IInv, CalmExact
<1> QED BY <1>1, <1>2, <1>3 DEF Next

LEMMA Inductive == Spec => []IInv
<1>1. Init => IInv
  <2> SUFFICES ASSUME Init PROVE IInv
    OBVIOUS
  <2>1. TypeOK
    BY EditAssumption DEF Init, TypeOK, Tree, Text, Blank, Pc
  <2>2. \A p \in Indexed : p \in Path /\ hash[p] = Absent /\ graph[p] = Absent
    BY PathAssumption DEF Init, Blank
  <2>3. FreshRowsAreExact
    BY <2>2 DEF FreshRowsAreExact
  <2> QED BY <2>1, <2>3 DEF IInv, Init, HasKey, FoundExact, CacheExact,
                QuietExact, CalmExact
<1>2. IInv /\ [Next]_vars => IInv'
  BY TypeStep, RowsStep, FoundStep, CacheStep, QuietStep, CalmStep DEF IInv
<1> QED BY <1>1, <1>2, PTL DEF Spec

-----------------------------------------------------------------------------
(* What the content hashes promise *)

\* A row whose hash is the file's owns the file's graph, in every interleaving of
\* callers and edits, unless an edit brought back a hash on record.
THEOREM RowsExact == Spec => []FreshRowsAreExact
<1>1. IInv => FreshRowsAreExact
  BY DEF IInv
<1> QED BY <1>1, Inductive, PTL

\* A cache hit returns what the packs would compute, but for files whose text came back.
THEOREM WarmIsCold == Spec => []WarmScanIsCold
<1>1. IInv => WarmScanIsCold
  BY DEF IInv, CacheExact, WarmScanIsCold
<1> QED BY <1>1, Inductive, PTL

\* A scan during which nobody edits stores the findings of the tree, but for files
\* whose text came back earlier.
THEOREM QuietScanExact == Spec => QuietScanIsExact
<1> DEFINE A == \A c \in Scanners : (Commit(c) /\ c \in quiet) =>
                  \A p \in Path \ undone : report'[p] = disk[p]
<1>1. ASSUME IInv, NEW c \in Scanners, Commit(c), c \in quiet, NEW p \in Path \ undone
      PROVE  report'[p] = disk[p]
  <2>1. report' = found[c] /\ pc[c] = "analyzed"
    BY <1>1 DEF Commit
  <2> QED BY <1>1, <2>1 DEF IInv, QuietExact
<1>2. IInv /\ [Next]_vars => [A]_vars
  BY <1>1
<1> QED BY <1>2, Inductive, PTL DEF Spec, QuietScanIsExact

\* An undisturbed index call leaves the rows a full rebuild would, but for the graphs of
\* files whose text came back earlier; an undisturbed full rebuild leaves all.
THEOREM QuietIndexExact == Spec => QuietIndexIsExact
<1> DEFINE A == \A c \in Callers : (Persist(c) /\ c \in quiet /\ c \in calm) =>
                  \A p \in Indexed :
                      /\ hash'[p] = disk[p]
                      /\ p \notin undone \/ c \in Rebuilders => graph'[p] = disk[p]
<1>1. ASSUME IInv, NEW c \in Callers, Persist(c), c \in quiet, c \in calm, NEW p \in Indexed
      PROVE  /\ hash'[p] = disk[p]
             /\ p \notin undone \/ c \in Rebuilders => graph'[p] = disk[p]
  <2>1. pc[c] = "loaded" /\ p \in Path
    BY <1>1, PathAssumption DEF Persist
  <2>2. seen[c][p] = disk[p] /\ previous[c] = hash
    BY <1>1, <2>1 DEF IInv, QuietExact, CalmExact
  <2>3. /\ hash'[p] = IF p \in ToIndex(c) THEN seen[c][p]
                      ELSE IF p \in Removed(c) THEN Absent ELSE hash[p]
        /\ graph'[p] = IF p \in ToIndex(c) THEN disk[p]
                       ELSE IF p \in Removed(c) THEN Absent ELSE graph[p]
    BY <1>1, <2>1 DEF Persist, HashAfter, GraphAfter
  <2>4. p \notin undone /\ hash[p] = disk[p] => graph[p] = disk[p]
    BY <1>1 DEF IInv, FreshRowsAreExact
  <2> QED BY <1>1, <2>2, <2>3, <2>4 DEF ToIndex, Removed, Changed
<1>2. IInv /\ [Next]_vars => [A]_vars
  BY <1>1
<1> QED BY <1>2, Inductive, PTL DEF Spec, QuietIndexIsExact
=============================================================================
