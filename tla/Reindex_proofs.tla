---------------------------- MODULE Reindex_proofs ----------------------------
(* HookLeavesNoGap and ReplyIsTrue for any files, hooks, crews and window.       *)
EXTENDS Reindex, TLAPS

Place == {"idle", "away", "started", "touch", "read", "write", "begun", "scan", "after",
          "replied", "ended"}
Texts == [File -> Nat]
Run == [inventory : Texts, stored : Texts, calm : BOOLEAN]
Call == [auto : BOOLEAN, existed : BOOLEAN, scanned : BOOLEAN, failed : BOOLEAN,
         overtaken : BOOLEAN, exact : BOOLEAN, bare : BOOLEAN]

Typed ==
    /\ tree \in Texts
    /\ db \in BOOLEAN
    /\ index \in Texts
    /\ auto \in BOOLEAN
    /\ pc \in [Runners -> Place]
    /\ run \in [Runners -> Run]
    /\ call \in Call
    /\ gap \in BOOLEAN
    /\ edits \in Nat

Underway(h) == pc[h] \in {"started", "touch", "read", "write"}

\* The hook will index the tree as it is, or end in a gap.
Covers(h) ==
    \/ pc[h] \in {"started", "touch", "read"}
    \/ pc[h] = "write" /\ (~run[h].calm \/ run[h].inventory = tree)

\* A calm run knows the index, and the tree unless a hook comes after it.
CalmRuns ==
    \A r \in Runners : pc[r] = "write" /\ run[r].calm =>
        /\ run[r].stored = index
        /\ run[r].inventory = tree \/ \E h \in Hooks \ {r} : Underway(h)

GapKnown ==
    /\ ~db => gap /\ index = Nothing
    /\ CalmRuns
    /\ db /\ ~gap => index = tree \/ \E h \in Hooks : Covers(h)

\* What a call has done by the place it is at, and what it knows unless overtaken.
CallKnown ==
    /\ answer # None => pc["call"] = "replied"
    /\ pc["call"] \in {"begun", "read", "write", "scan"} => ~call.scanned /\ ~call.failed
    /\ pc["call"] = "after" => call.scanned /\ ~call.failed
    /\ pc["call"] = "begun" /\ ~call.overtaken =>
          call.auto = auto /\ (~call.existed => index = Nothing)

IInv == Typed /\ GapKnown /\ CallKnown /\ ReplyIsTrue

-----------------------------------------------------------------------------

LEMMA RunnersDistinct ==
    /\ "watch" \in Runners /\ "call" \in Runners /\ Hooks \subseteq Runners
    /\ "watch" \notin Hooks /\ "call" \notin Hooks
  BY HooksAssumption DEF Runners

LEMMA NothingTyped == Nothing \in Texts /\ Unread \in Run /\ NoCall \in Call
<1>1. Nothing \in Texts
  BY DEF Nothing, Texts, Absent
<1>2. Unread \in Run
  BY <1>1 DEF Unread, Run
<1>3. NoCall \in Call
  BY DEF NoCall, Call
<1> QED BY <1>1, <1>2, <1>3

\* A fresh index is the tree.
LEMMA FreshIsTree == ASSUME Typed, Drift = {} PROVE tree = index
  BY DEF Typed, Texts, Drift

LEMMA Starts == Init => IInv
<1> SUFFICES ASSUME Init PROVE IInv
  OBVIOUS
<1> USE RunnersDistinct, NothingTyped
<1>1. tree \in Texts
  BY DEF Init, Texts, Absent
<1>2. PICK crew \in Crews : pc = [r \in Runners |-> IF r \in crew THEN "idle" ELSE "away"]
  BY DEF Init
<1>3. pc \in [Runners -> Place] /\ \A r \in Runners : pc[r] \in {"idle", "away"}
  BY <1>2 DEF Place
<1>4. run \in [Runners -> Run]
  BY DEF Init
<1>5. Typed
  BY <1>1, <1>3, <1>4 DEF Init, Typed
<1>6. GapKnown
  BY <1>3 DEF Init, GapKnown, CalmRuns
<1>7. CallKnown /\ ReplyIsTrue
  BY <1>3 DEF Init, CallKnown, ReplyIsTrue
<1> QED BY <1>5, <1>6, <1>7 DEF IInv

-----------------------------------------------------------------------------
(* Types *)

LEMMA LeaveGapTyped == ASSUME Typed, LeaveGap PROVE gap' \in BOOLEAN /\ run' \in [Runners -> Run]
<1>1. \A r \in Runners : [run[r] EXCEPT !.calm = FALSE] \in Run
  BY DEF Typed, Run
<1> QED BY <1>1 DEF LeaveGap, Typed

LEMMA OvertakeTyped == ASSUME Typed, Overtake PROVE call' \in Call
  BY DEF Overtake, Typed, Call

LEMMA PersistsTyped ==
    ASSUME Typed, NEW r \in Runners, NEW to \in {"idle", "scan"}, Persists(r, to), call' \in Call
    PROVE  Typed'
<1>1. index' \in Texts
  BY DEF Persists, Typed, Texts, Run
<1>2. \A s \in Runners : [run[s] EXCEPT !.calm = FALSE] \in Run
  BY DEF Typed, Run
<1>3. run' \in [Runners -> Run]
  BY <1>2, NothingTyped DEF Persists, Typed
<1>4. gap' \in BOOLEAN
  BY DEF Persists, Typed, Run
<1>5. pc' \in [Runners -> Place]
  BY DEF Persists, Goto, Typed, Place
<1> QED BY <1>1, <1>3, <1>4, <1>5 DEF Persists, Typed

LEMMA ReadsTyped == ASSUME Typed, NEW r \in Runners, Reads(r) PROVE Typed'
<1>1. [inventory |-> tree, stored |-> index, calm |-> TRUE] \in Run
  BY DEF Typed, Run, Texts
<1> QED BY <1>1 DEF Reads, Goto, Typed, Place

LEMMA StaysTyped == Typed /\ [Next]_vars => Typed'
<1> SUFFICES ASSUME Typed, [Next]_vars PROVE Typed'
  OBVIOUS
<1> USE RunnersDistinct, NothingTyped
<1>1. ASSUME NEW p \in File, NEW h \in Hooks, AgentEdits(p, h) PROVE Typed'
  BY <1>1 DEF AgentEdits, Goto, Typed, Place, Texts
<1>2. ASSUME NEW h \in Hooks, ClaimSlot(h) PROVE Typed'
  <2>1. pc' \in [Runners -> Place]
    BY <1>2 DEF ClaimSlot, Goto, Typed, Place
  <2>2. gap' \in BOOLEAN /\ run' \in [Runners -> Run]
    BY <1>2, LeaveGapTyped DEF ClaimSlot, Typed
  <2> QED BY <1>2, <2>1, <2>2 DEF ClaimSlot, Typed
<1>3. ASSUME NEW h \in Hooks, Touch(h) PROVE Typed'
  BY <1>3 DEF Touch, Goto, Typed, Place
<1>4. ASSUME NEW r \in Runners, Reads(r) PROVE Typed'
  BY <1>4, ReadsTyped
<1>5. ASSUME NEW h \in Hooks, HookIndexes(h) PROVE Typed'
  BY <1>5, PersistsTyped, OvertakeTyped DEF HookIndexes
<1>6. ASSUME NEW h \in Hooks, HookRaises(h) PROVE Typed'
  <2>1. \A s \in Runners : [run[s] EXCEPT !.calm = FALSE] \in Run
    BY DEF Typed, Run
  <2>2. run' \in [Runners -> Run]
    BY <1>6, <2>1 DEF HookRaises, Typed
  <2> QED BY <1>6, <2>2 DEF HookRaises, Raises, Goto, Typed, Place
<1>7. CASE Tick
  BY <1>7 DEF Tick, Typed
<1>8. CASE Turn
  <2>1. /\ call' \in Call
        /\ run' \in [Runners -> Run] /\ gap' \in BOOLEAN
        /\ auto' \in BOOLEAN /\ db' \in BOOLEAN /\ index' \in Texts
    BY <1>8, LeaveGapTyped, OvertakeTyped DEF Turn, Typed
  <2> QED BY <1>8, <2>1 DEF Turn, Typed
<1>9. CASE Observe
  <2>1. call' \in Call
    BY <1>9, OvertakeTyped DEF Observe, Typed
  <2> QED BY <1>9, <2>1 DEF Observe, Goto, Typed, Place
<1>10. CASE WatchIndexes
  BY <1>10, PersistsTyped, OvertakeTyped DEF WatchIndexes
<1>11. CASE WatchDies
  BY <1>11 DEF WatchDies, Raises, Goto, Typed, Place
<1>12. CASE CallBegins
  BY <1>12 DEF CallBegins, Goto, Typed, Place, NoCall, Call
<1>13. CASE Disabled
  BY <1>13 DEF Disabled, Reply, Goto, Typed, Place, Call
<1>14. CASE StatusFresh
  BY <1>14 DEF StatusFresh, Reply, Goto, Typed, Place, Call
<1>15. CASE StatusStale
  BY <1>15 DEF StatusStale, Goto, Typed, Place
<1>16. CASE CallIndexes
  BY <1>16, PersistsTyped DEF CallIndexes, Typed
<1>17. CASE CallRaises
  BY <1>17 DEF CallRaises, Raises, Reply, Goto, Typed, Place, Call
<1>18. CASE Scans
  BY <1>18 DEF Scans, Goto, Typed, Place, Call
<1>19. CASE StatusAfter
  BY <1>19 DEF StatusAfter, Reply, Goto, Typed, Place, Call
<1>20. CASE Leaves
  BY <1>20 DEF Leaves, Goto, Typed, Place
<1>21. CASE UNCHANGED vars
  BY <1>21 DEF vars, Typed
<1>22. ASSUME NEW p \in File, Removes(p) PROVE Typed'
  BY <1>22, LeaveGapTyped DEF Removes, Typed, Texts, Absent
<1> QED
  BY <1>1, <1>2, <1>3, <1>4, <1>5, <1>6, <1>7, <1>8, <1>9, <1>10, <1>11, <1>12, <1>13, <1>14,
     <1>15, <1>16, <1>17, <1>18, <1>19, <1>20, <1>21, <1>22
  DEF Next, HookStep, WatchStep, CallStep

-----------------------------------------------------------------------------
(* The gap *)

\* Who commits a calm run leaves the tree, or a hook that comes after it.
LEMMA PersistsKnown ==
    ASSUME Typed, GapKnown, NEW r \in Runners, NEW to \in {"idle", "scan"}, Persists(r, to)
    PROVE  GapKnown'
<1> USE RunnersDistinct
<1>1. \A s \in Runners \ {r} : /\ pc'[s] = pc[s]
                               /\ pc[s] = "write" => ~run'[s].calm
  BY DEF Persists, Goto, Typed, Run
<1>2. pc'[r] = to /\ pc[r] = "write" /\ db /\ db' = db /\ tree' = tree /\ gap' = ~run[r].calm
  BY DEF Persists, Goto, Typed
<1>3. CalmRuns'
  BY <1>1, <1>2 DEF CalmRuns
<1>4. ASSUME ~gap' PROVE index' = tree' \/ \E h \in Hooks : Covers(h)'
  <2>1. run[r].calm
    BY <1>2, <1>4
  <2>2. run[r].stored = index
        /\ (run[r].inventory = tree \/ \E h \in Hooks \ {r} : Underway(h))
    BY <1>2, <2>1 DEF GapKnown, CalmRuns
  <2>3. index' = [p \in File |-> IF p \in Differs(r) THEN run[r].inventory[p] ELSE index[p]]
    BY DEF Persists
  <2>4. \A p \in File : index'[p] = run[r].inventory[p]
    BY <2>2, <2>3 DEF Differs
  <2>5. run[r].inventory \in Texts
    BY DEF Typed, Run
  <2>6. index' = run[r].inventory
    BY <2>3, <2>4, <2>5 DEF Texts
  <2>7. CASE run[r].inventory = tree
    BY <1>2, <2>6, <2>7
  <2>8. ASSUME NEW h \in Hooks \ {r}, Underway(h) PROVE Covers(h)'
    BY <1>1, <2>8 DEF Underway, Covers
  <2> QED BY <2>2, <2>7, <2>8
<1> QED BY <1>2, <1>3, <1>4 DEF GapKnown

LEMMA ReadsKnown == ASSUME Typed, GapKnown, NEW r \in Runners, Reads(r) PROVE GapKnown'
<1> USE RunnersDistinct
<1>1. /\ \A s \in Runners \ {r} : pc'[s] = pc[s] /\ run'[s] = run[s]
      /\ pc[r] = "read" /\ pc'[r] = "write"
      /\ run'[r] = [inventory |-> tree, stored |-> index, calm |-> TRUE]
      /\ UNCHANGED <<tree, index, gap>>
  BY DEF Reads, Goto, Typed
<1>2. \A h \in Hooks : Underway(h) => Underway(h)'
  BY <1>1 DEF Underway
<1>3. CalmRuns'
  BY <1>1, <1>2 DEF GapKnown, CalmRuns
<1>4. \A h \in Hooks : Covers(h) => Covers(h)'
  BY <1>1 DEF Covers
<1>5. ~db => gap
  BY DEF GapKnown
<1>6. db' = TRUE
  BY DEF Reads
<1> QED BY <1>1, <1>3, <1>4, <1>5, <1>6 DEF GapKnown

\* An edit left behind makes every run uncalm.
LEMMA LeaveGapKnown ==
    ASSUME Typed, LeaveGap, \A r \in Runners : pc'[r] = "write" => pc[r] = "write"
    PROVE  CalmRuns' /\ gap'
<1>1. \A r \in Runners : pc'[r] = "write" => ~run'[r].calm
  BY DEF LeaveGap, Typed, Run
<1> QED BY <1>1 DEF CalmRuns, LeaveGap

\* Steps of watch and call that neither read nor commit change nothing of a hook.
LEMMA OthersKnown ==
    ASSUME Typed, GapKnown, UNCHANGED <<tree, index, gap>>,
           \A h \in Hooks : pc'[h] = pc[h] /\ run'[h] = run[h],
           \A r \in {"watch", "call"} : pc'[r] = "write" => pc[r] = "write" /\ run'[r] = run[r],
           db' = db \/ db' = TRUE
    PROVE  GapKnown'
<1> USE RunnersDistinct
<1>1. CalmRuns'
  BY DEF GapKnown, CalmRuns, Underway, Runners
<1>2. \A h \in Hooks : Covers(h) => Covers(h)'
  BY DEF Covers
<1> QED BY <1>1, <1>2 DEF GapKnown, Typed

LEMMA StaysKnown == Typed /\ GapKnown /\ [Next]_vars => GapKnown'
<1> SUFFICES ASSUME Typed, GapKnown, [Next]_vars PROVE GapKnown'
  OBVIOUS
<1> USE RunnersDistinct
<1>1. ASSUME NEW p \in File, NEW h \in Hooks, AgentEdits(p, h) PROVE GapKnown'
  <2>1. /\ pc[h] = "idle" /\ pc'[h] = "started"
        /\ \A s \in Runners \ {h} : pc'[s] = pc[s]
        /\ UNCHANGED <<db, index, run, gap>>
    BY <1>1 DEF AgentEdits, Goto, Typed
  <2>2. Underway(h)' /\ Covers(h)'
    BY <2>1 DEF Underway, Covers
  <2>3. CalmRuns'
    BY <2>1, <2>2 DEF GapKnown, CalmRuns
  <2> QED BY <2>1, <2>2, <2>3 DEF GapKnown
<1>2. ASSUME NEW h \in Hooks, ClaimSlot(h) PROVE GapKnown'
  <2>1. /\ pc[h] = "started" /\ \A s \in Runners \ {h} : pc'[s] = pc[s]
        /\ pc'[h] \in {"touch", "idle"} /\ UNCHANGED <<tree, db, index>>
    BY <1>2 DEF ClaimSlot, Goto, Typed
  <2>2. CASE db /\ age \notin 0..Window - 1
    <3>1. pc'[h] = "touch" /\ UNCHANGED <<run, gap>>
      BY <1>2, <2>2 DEF ClaimSlot, Goto, Typed
    <3>2. \A g \in Hooks : (Underway(g) => Underway(g)') /\ (Covers(g) => Covers(g)')
      BY <2>1, <3>1 DEF Underway, Covers
    <3>3. CalmRuns'
      BY <2>1, <3>1, <3>2 DEF GapKnown, CalmRuns
    <3> QED BY <2>1, <3>1, <3>2, <3>3 DEF GapKnown
  <2>3. CASE ~(db /\ age \notin 0..Window - 1)
    <3>1. LeaveGap
      BY <1>2, <2>3 DEF ClaimSlot
    <3>2. CalmRuns' /\ gap'
      BY <2>1, <3>1, LeaveGapKnown
    <3> QED BY <2>1, <3>2 DEF GapKnown
  <2> QED BY <2>2, <2>3
<1>3. ASSUME NEW h \in Hooks, Touch(h) PROVE GapKnown'
  <2>1. /\ pc[h] = "touch" /\ pc'[h] = "read" /\ \A s \in Runners \ {h} : pc'[s] = pc[s]
        /\ UNCHANGED <<tree, db, index, run, gap>>
    BY <1>3 DEF Touch, Goto, Typed
  <2>2. \A g \in Hooks : (Underway(g) => Underway(g)') /\ (Covers(g) => Covers(g)')
    BY <2>1 DEF Underway, Covers
  <2>3. CalmRuns'
    BY <2>1, <2>2 DEF GapKnown, CalmRuns
  <2> QED BY <2>1, <2>2, <2>3 DEF GapKnown
<1>4. ASSUME NEW r \in Runners, Reads(r) PROVE GapKnown'
  BY <1>4, ReadsKnown
<1>5. ASSUME NEW h \in Hooks, HookIndexes(h) PROVE GapKnown'
  BY <1>5, PersistsKnown DEF HookIndexes
<1>6. ASSUME NEW h \in Hooks, HookRaises(h) PROVE GapKnown'
  <2>1. /\ \A s \in Runners \ {h} : pc'[s] = pc[s] /\ (pc[s] = "write" => ~run'[s].calm)
        /\ pc'[h] = "idle" /\ gap' = TRUE /\ UNCHANGED <<db, index>>
    BY <1>6 DEF HookRaises, Raises, Goto, Typed, Run
  <2>2. CalmRuns'
    BY <2>1 DEF CalmRuns
  <2> QED BY <2>1, <2>2 DEF GapKnown
<1>7. CASE Tick
  BY <1>7 DEF Tick, GapKnown, CalmRuns, Underway, Covers
<1>8. CASE Turn
  <2>1. CASE UNCHANGED <<db, index, run, gap>>
    BY <1>8, <2>1 DEF Turn, GapKnown, CalmRuns, Underway, Covers
  <2>2. CASE LeaveGap /\ db' = FALSE /\ index' = Nothing
    <3>1. CalmRuns' /\ gap'
      BY <1>8, <2>2, LeaveGapKnown DEF Turn
    <3> QED BY <2>2, <3>1 DEF GapKnown
  <2> QED BY <1>8, <2>1, <2>2 DEF Turn
<1>9. CASE Observe
  BY <1>9, OthersKnown DEF Observe, Goto, Typed
<1>10. CASE WatchIndexes
  BY <1>10, PersistsKnown DEF WatchIndexes
<1>11. CASE WatchDies
  BY <1>11, OthersKnown DEF WatchDies, Raises, Goto, Typed
<1>12. CASE CallBegins
  BY <1>12, OthersKnown DEF CallBegins, Goto, Typed
<1>13. CASE Disabled
  BY <1>13, OthersKnown DEF Disabled, Reply, Goto, Typed
<1>14. CASE StatusFresh
  BY <1>14, OthersKnown DEF StatusFresh, Reply, Goto, Typed
<1>15. CASE StatusStale
  BY <1>15, OthersKnown DEF StatusStale, Goto, Typed
<1>16. CASE CallIndexes
  BY <1>16, PersistsKnown DEF CallIndexes
<1>17. CASE CallRaises
  BY <1>17, OthersKnown DEF CallRaises, Raises, Reply, Goto, Typed
<1>18. CASE Scans
  BY <1>18, OthersKnown DEF Scans, Goto, Typed
<1>19. CASE StatusAfter
  BY <1>19, OthersKnown DEF StatusAfter, Reply, Goto, Typed
<1>20. CASE Leaves
  BY <1>20, OthersKnown DEF Leaves, Goto, Typed
<1>21. CASE UNCHANGED vars
  BY <1>21 DEF vars, GapKnown, CalmRuns, Underway, Covers
<1>22. ASSUME NEW p \in File, Removes(p) PROVE GapKnown'
  <2>1. CalmRuns' /\ gap'
    BY <1>22, LeaveGapKnown DEF Removes
  <2> QED BY <1>22, <2>1 DEF Removes, GapKnown
<1> QED
  BY <1>1, <1>2, <1>3, <1>4, <1>5, <1>6, <1>7, <1>8, <1>9, <1>10, <1>11, <1>12, <1>13, <1>14,
     <1>15, <1>16, <1>17, <1>18, <1>19, <1>20, <1>21, <1>22
  DEF Next, HookStep, WatchStep, CallStep

-----------------------------------------------------------------------------
(* The call *)

\* What others do leaves a call's reply alone, and what it knows unless it is overtaken.
LEMMA BesideKnown ==
    ASSUME Typed, CallKnown, ReplyIsTrue, pc'["call"] = pc["call"], answer' = answer,
           Overtake \/ (UNCHANGED <<call, auto, index>>)
    PROVE  CallKnown' /\ ReplyIsTrue'
<1> USE RunnersDistinct
<1>1. /\ pc["call"] \in {"idle", "replied", "away"} => call' = call
      /\ call'.scanned = call.scanned /\ call'.failed = call.failed
      /\ call' = call \/ call'.overtaken
  BY DEF Overtake, Typed, Call
<1>2. ReplyIsTrue'
  <2>1. answer # None => call' = call
    BY <1>1 DEF CallKnown
  <2> QED BY <2>1 DEF ReplyIsTrue
<1>3. pc["call"] = "begun" /\ ~call'.overtaken => call' = call /\ UNCHANGED <<auto, index>>
  BY DEF Overtake, Typed, Call
<1> QED BY <1>1, <1>2, <1>3 DEF CallKnown

\* A committed index call moves the call itself on, or overtakes it.
LEMMA PersistsBeside ==
    ASSUME Typed, CallKnown, ReplyIsTrue, NEW r \in Runners \ {"call"}, Persists(r, "idle"), Overtake
    PROVE  CallKnown' /\ ReplyIsTrue'
<1>1. pc'["call"] = pc["call"] /\ answer' = answer
  BY RunnersDistinct DEF Persists, Goto, Typed
<1> QED BY <1>1, BesideKnown

\* A reply is put together as the code's metadata say.
LEMMA ReplyMade ==
    ASSUME Typed, NEW fresh \in BOOLEAN, NEW stale \in BOOLEAN, NEW refreshed \in BOOLEAN,
           NEW error \in BOOLEAN, NEW disabled \in BOOLEAN,
           Reply(Meta(fresh, stale, refreshed, error, disabled))
    PROVE  /\ pc'["call"] = "replied"
           /\ answer'.meta.fresh = fresh
           /\ ~refreshed /\ answer'.ran # {} => answer'.reason = "created"
           /\ answer'.confidence = IF error \/ disabled THEN "low" ELSE IF stale THEN "medium" ELSE "high"
           /\ error => answer'.warning # "none" /\ answer'.recover
           /\ answer'.ran = IF call.auto /\ ~error /\ (~call.existed \/ refreshed)
                            THEN IF call.existed THEN {"index", "scan"} ELSE {"init", "index", "scan"}
                            ELSE {}
           /\ error /\ ~fresh => answer'.guided
<1> DEFINE m == Meta(fresh, stale, refreshed, error, disabled)
<1>1. /\ m.fresh = fresh /\ m.stale = stale /\ m.refreshed = refreshed
      /\ m.error = error /\ m.disabled = disabled
  BY DEF Meta
<1>2. call.auto \in BOOLEAN /\ call.existed \in BOOLEAN
  BY DEF Typed, Call
<1>3. answer' = [reason |-> Reason(m), ran |-> Ran(Reason(m)), meta |-> m,
                 confidence |-> Confidence(m), warning |-> Warning(m),
                 recover |-> m.error \/ m.disabled,
                 guided |-> CASE Reason(m) = "disabled" -> ~m.fresh
                              [] OTHER -> Reason(m) = "failed"]
  BY DEF Reply
<1>4. Reason(m) = IF ~call.auto THEN "disabled"
                  ELSE IF error THEN "failed"
                  ELSE IF ~call.existed THEN "created"
                  ELSE IF refreshed THEN "refreshed" ELSE "fresh"
  <2> HIDE DEF m
  <2> QED BY <1>1, <1>2 DEF Reason
<1>5. Confidence(m) = IF error \/ disabled THEN "low" ELSE IF stale THEN "medium" ELSE "high"
  <2> HIDE DEF m
  <2> QED BY <1>1 DEF Confidence
<1>6. error => Warning(m) = "refresh failed"
  <2> HIDE DEF m
  <2> QED BY <1>1 DEF Warning
<1> HIDE DEF m
<1>7. answer'.ran = Ran(Reason(m))
  BY <1>3
<1>8. Ran(Reason(m)) = IF call.auto /\ ~error /\ (~call.existed \/ refreshed)
                       THEN IF call.existed THEN {"index", "scan"} ELSE {"init", "index", "scan"}
                       ELSE {}
  BY <1>2, <1>4 DEF Ran
<1>9. error /\ ~fresh => answer'.guided
  <2> SUFFICES ASSUME error, ~fresh PROVE answer'.guided
    OBVIOUS
  <2>1. Reason(m) \in {"disabled", "failed"}
    BY <1>4
  <2>2. answer'.guided = CASE Reason(m) = "disabled" -> ~m.fresh
                           [] OTHER -> Reason(m) = "failed"
    BY <1>3
  <2> QED BY <1>1, <2>1, <2>2
<1>10. error => answer'.warning # "none" /\ answer'.recover
  BY <1>1, <1>3, <1>6
<1>11. answer'.meta.fresh = fresh /\ answer'.confidence = Confidence(m)
  BY <1>1, <1>3
<1>12. pc'["call"] = "replied"
  BY RunnersDistinct DEF Reply, Goto, Typed
<1>13. answer'.reason = Reason(m)
  BY <1>3
<1>14. ~refreshed /\ answer'.ran # {} => answer'.reason = "created"
  BY <1>4, <1>7, <1>8, <1>13
<1> QED BY <1>5, <1>7, <1>8, <1>9, <1>10, <1>11, <1>12, <1>14

LEMMA StaysTrue == IInv /\ [Next]_vars => CallKnown' /\ ReplyIsTrue'
<1> SUFFICES ASSUME IInv, [Next]_vars PROVE CallKnown' /\ ReplyIsTrue'
  OBVIOUS
<1> USE RunnersDistinct
<1>a. Typed /\ GapKnown /\ CallKnown /\ ReplyIsTrue
  BY DEF IInv
<1>b. call \in Call
  BY <1>a DEF Typed
<1>1. ASSUME NEW p \in File, NEW h \in Hooks, AgentEdits(p, h) PROVE CallKnown' /\ ReplyIsTrue'
  BY <1>1, <1>a, BesideKnown DEF AgentEdits, Goto, Typed
<1>2. ASSUME NEW h \in Hooks, ClaimSlot(h) PROVE CallKnown' /\ ReplyIsTrue'
  BY <1>2, <1>a, BesideKnown DEF ClaimSlot, Goto, Typed
<1>3. ASSUME NEW h \in Hooks, Touch(h) PROVE CallKnown' /\ ReplyIsTrue'
  BY <1>3, <1>a, BesideKnown DEF Touch, Goto, Typed
<1>4. ASSUME NEW r \in Runners \ {"call"}, Reads(r) PROVE CallKnown' /\ ReplyIsTrue'
  BY <1>4, <1>a, BesideKnown DEF Reads, Goto, Typed
<1>5. ASSUME NEW h \in Hooks, HookIndexes(h) PROVE CallKnown' /\ ReplyIsTrue'
  BY <1>5, <1>a, PersistsBeside DEF HookIndexes
<1>6. ASSUME NEW h \in Hooks, HookRaises(h) PROVE CallKnown' /\ ReplyIsTrue'
  BY <1>6, <1>a, BesideKnown DEF HookRaises, Raises, Goto, Typed
<1>7. CASE Tick
  BY <1>7, <1>a, BesideKnown DEF Tick
<1>8. CASE Turn
  BY <1>8, <1>a, BesideKnown DEF Turn
<1>9. CASE Observe
  BY <1>9, <1>a, BesideKnown DEF Observe, Goto, Typed
<1>10. CASE WatchIndexes
  BY <1>10, <1>a, PersistsBeside DEF WatchIndexes
<1>11. CASE WatchDies
  BY <1>11, <1>a, BesideKnown DEF WatchDies, Raises, Goto, Typed
<1>12. CASE CallBegins
  <2>1. /\ call' = [NoCall EXCEPT !.auto = auto, !.existed = db]
        /\ pc'["call"] = "begun" /\ answer' = None /\ UNCHANGED <<auto, index, db>>
    BY <1>12, <1>a DEF CallBegins, Goto, Typed
  <2>2. /\ ~call'.scanned /\ ~call'.failed /\ call'.auto = auto /\ call'.existed = db
    BY <2>1 DEF NoCall
  <2> QED BY <1>a, <2>1, <2>2 DEF CallKnown, ReplyIsTrue, GapKnown
<1>13. CASE Disabled
  <2> DEFINE fresh == db /\ Drift = {}
  <2>1. /\ Reply(Meta(fresh, ~fresh, FALSE, FALSE, ~fresh))
        /\ call' = [call EXCEPT !.exact = fresh] /\ pc["call"] = "begun" /\ ~auto
    BY <1>13 DEF Disabled
  <2>2. fresh \in BOOLEAN
    BY <1>a DEF Typed
  <2> HIDE DEF fresh
  <2>3. /\ pc'["call"] = "replied" /\ answer'.meta.fresh = fresh
        /\ answer'.confidence = IF ~fresh THEN "low" ELSE "high"
        /\ answer'.ran = IF call.auto /\ ~call.existed
                         THEN IF call.existed THEN {"index", "scan"} ELSE {"init", "index", "scan"}
                         ELSE {}
        /\ answer'.ran # {} => answer'.reason = "created"
    BY <1>a, <2>1, <2>2, ReplyMade
  <2>4. ~call.scanned /\ ~call.failed /\ (call.auto => call.overtaken)
    BY <1>a, <1>b, <2>1 DEF CallKnown, Call
  <2>5. /\ call'.exact = fresh /\ call'.scanned = call.scanned /\ call'.failed = call.failed
        /\ call'.overtaken = call.overtaken
    BY <1>b, <2>1 DEF Call
  <2> QED BY <2>3, <2>4, <2>5 DEF CallKnown, ReplyIsTrue
<1>14. CASE StatusFresh
  <2>1. /\ Reply(Meta(TRUE, FALSE, FALSE, FALSE, FALSE))
        /\ call' = [call EXCEPT !.exact = TRUE, !.bare = (tree = Nothing)]
        /\ pc["call"] = "begun" /\ auto /\ Drift = {}
    BY <1>14 DEF StatusFresh
  <2>2. /\ pc'["call"] = "replied" /\ answer'.meta.fresh
        /\ answer'.ran = IF call.auto /\ ~call.existed
                         THEN IF call.existed THEN {"index", "scan"} ELSE {"init", "index", "scan"}
                         ELSE {}
        /\ answer'.ran # {} => answer'.reason = "created"
    BY <1>a, <2>1, ReplyMade
  <2>3. tree = index
    BY <1>a, <2>1, FreshIsTree
  <2>4. ~call.scanned /\ ~call.failed /\ (~call.existed => call.overtaken \/ tree = Nothing)
    BY <1>a, <1>b, <2>1, <2>3 DEF CallKnown, Call
  <2>5. /\ call'.exact /\ call'.scanned = call.scanned /\ call'.failed = call.failed
        /\ call'.overtaken = call.overtaken /\ call'.bare = (tree = Nothing)
    BY <1>b, <2>1 DEF Call
  <2> QED BY <2>2, <2>4, <2>5 DEF CallKnown, ReplyIsTrue
<1>15. CASE StatusStale \/ Reads("call") \/ CallIndexes
  <2>1. /\ pc["call"] \in {"begun", "read", "write"} /\ pc'["call"] \in {"read", "write", "scan"}
        /\ call' = call /\ answer' = answer
    BY <1>15, <1>a DEF StatusStale, Reads, CallIndexes, Persists, Goto, Typed
  <2> QED BY <1>a, <2>1 DEF CallKnown, ReplyIsTrue
<1>16. CASE CallRaises
  <2>1. /\ Reply(Meta(FALSE, TRUE, FALSE, TRUE, FALSE)) /\ call' = [call EXCEPT !.failed = TRUE]
        /\ pc["call"] \in {"write", "scan"}
    BY <1>16 DEF CallRaises, Raises
  <2>2. /\ pc'["call"] = "replied" /\ answer'.meta.fresh = FALSE /\ answer'.confidence = "low"
        /\ answer'.ran = {} /\ answer'.guided /\ answer'.recover /\ answer'.warning # "none"
    BY <1>a, <2>1, ReplyMade
  <2>3. ~call'.scanned
    BY <1>a, <1>b, <2>1 DEF CallKnown, Call
  <2> QED BY <2>2, <2>3 DEF CallKnown, ReplyIsTrue
<1>17. CASE Scans
  <2>1. /\ pc["call"] = "scan" /\ pc'["call"] = "after" /\ answer' = answer
        /\ call'.scanned /\ call'.failed = call.failed
    BY <1>17, <1>a, <1>b DEF Scans, Goto, Typed, Call
  <2> QED BY <1>a, <2>1 DEF CallKnown, ReplyIsTrue
<1>18. CASE StatusAfter
  <2>1. /\ Reply(Meta(tree = index, TRUE, TRUE, FALSE, FALSE))
        /\ call' = [call EXCEPT !.exact = (tree = index)] /\ pc["call"] = "after"
    BY <1>18 DEF StatusAfter
  <2>2. /\ pc'["call"] = "replied" /\ answer'.meta.fresh = (tree = index)
        /\ answer'.confidence = "medium"
        /\ answer'.ran = IF call.auto
                         THEN IF call.existed THEN {"index", "scan"} ELSE {"init", "index", "scan"}
                         ELSE {}
    BY <1>a, <2>1, ReplyMade
  <2>3. /\ call'.exact = (tree = index) /\ call'.scanned /\ ~call'.failed /\ call'.auto = call.auto
    BY <1>a, <1>b, <2>1 DEF CallKnown, Call
  <2> QED BY <2>2, <2>3 DEF CallKnown, ReplyIsTrue
<1>19. CASE Leaves
  BY <1>19, <1>a DEF Leaves, Goto, Typed, CallKnown, ReplyIsTrue
<1>20. CASE UNCHANGED vars
  BY <1>20, <1>a DEF vars, CallKnown, ReplyIsTrue
<1>21. ASSUME NEW p \in File, Removes(p) PROVE CallKnown' /\ ReplyIsTrue'
  BY <1>21, <1>a, BesideKnown DEF Removes
<1> QED
  BY <1>1, <1>2, <1>3, <1>4, <1>5, <1>6, <1>7, <1>8, <1>9, <1>10, <1>11, <1>12, <1>13, <1>14,
     <1>15, <1>16, <1>17, <1>18, <1>19, <1>20, <1>21
  DEF Next, HookStep, WatchStep, CallStep

LEMMA Stays == IInv /\ [Next]_vars => IInv'
  BY StaysTyped, StaysKnown, StaysTrue DEF IInv

-----------------------------------------------------------------------------

\* What a task brief says of its index and of its refresh is true, whoever indexes,
\* edits, resets or changes the configuration beside the call.
THEOREM RepliesAreTrue == Spec => []ReplyIsTrue
<1> QED BY Starts, Stays, PTL DEF Spec, IInv

\* An agent's edit is in the index once no hook is under way, unless a gap was left:
\* a hook turned away by the slot, a hook that failed, or overlapping index calls.
THEOREM HooksLeaveNoGap == Spec => []HookLeavesNoGap
<1>1. IInv => HookLeavesNoGap
  BY DEF IInv, GapKnown, HookLeavesNoGap, Covers
<1> QED BY <1>1, Starts, Stays, PTL DEF Spec
=============================================================================
