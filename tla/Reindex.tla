------------------------------- MODULE Reindex -------------------------------
(* Who brings the index up to date: the hook after an agent's edit, `codescent *)
(* watch`, and a tool call that indexes before it answers (freshness,          *)
(* bootstrap).  IndexScan splits an index call further; here it reads once and *)
(* writes once.                                                                *)
EXTENDS Naturals, Integers, FiniteSets

CONSTANTS File, Hooks,
          Crews,        \* sets of runners that are there together
          Window,       \* seconds: the debounce window of hook and watch
          MaxEdits,     \* edits and removals of files
          MaxTurns,     \* changes of the configuration, resets and refused writes
          None

ASSUME WindowAssumption == Window \in Nat \ {0}
ASSUME HooksAssumption == Hooks \cap {"watch", "call"} = {}

Absent == 0
Nothing == [p \in File |-> Absent]

VARIABLES tree,     \* the text of each file, as a number of its edit, or Absent
          db,       \* .codescent/index.sqlite exists
          index,    \* the text whose hash the index stores
          auto,     \* auto_bootstrap in config.toml
          age,      \* of the hook's stamp; Window is older or no stamp, -1 the future
          pc,       \* of each hook, of watch and of the call
          run,      \* the inventory and the hashes an index call has read
          seen,     \* watch: the changed set it waits on, and for how long
          call,     \* the call's reads, and what happened to it
          answer,   \* the last reply of the call
          gap,      \* ghost: a change of the tree may be left to a later trigger
          edits, turns

work == <<tree, edits>>
vars == <<tree, db, index, auto, age, pc, run, seen, call, answer, gap, edits, turns>>

Runners == Hooks \cup {"watch", "call"}
Unread == [inventory |-> Nothing, stored |-> Nothing, calm |-> TRUE]
NoCall == [auto |-> FALSE, existed |-> FALSE, scanned |-> FALSE, failed |-> FALSE,
           overtaken |-> FALSE, exact |-> FALSE, bare |-> FALSE]

\* A repository may hold no file that is indexed.
Init ==
    /\ tree \in [File -> {Absent, 1}]
    /\ db \in BOOLEAN
    /\ index = IF db THEN tree ELSE Nothing
    /\ auto \in BOOLEAN
    /\ age = Window
    /\ \E crew \in Crews : pc = [r \in Runners |-> IF r \in crew THEN "idle" ELSE "away"]
    /\ run = [r \in Runners |-> Unread]
    /\ seen = [changed |-> {}, since |-> 0]
    /\ call = NoCall
    /\ answer = None
    /\ gap = ~db
    /\ edits = 0
    /\ turns = 0

Goto(r, place) == pc' = [pc EXCEPT ![r] = place]

\* What happens beside the call while it runs.
Overtake == call' = IF pc["call"] \in {"idle", "replied", "away"} THEN call ELSE [call EXCEPT !.overtaken = TRUE]

\* An edit is left behind: no run that has read already covers it.
LeaveGap ==
    /\ gap' = TRUE
    /\ run' = [r \in Runners |-> IF pc[r] = "write" THEN [run[r] EXCEPT !.calm = FALSE]
                                 ELSE run[r]]

-----------------------------------------------------------------------------
(* The world around *)

\* The agent writes a file, and PostToolUse starts a hook.
AgentEdits(p, h) ==
    /\ edits < MaxEdits /\ pc[h] = "idle"
    /\ tree' = [tree EXCEPT ![p] = edits + 2]
    /\ edits' = edits + 1
    /\ Goto(h, "started")
    /\ UNCHANGED <<db, index, auto, age, run, seen, call, answer, gap, turns>>

\* A file is removed, by the user or by an agent's shell: no hook starts.
Removes(p) ==
    /\ edits < MaxEdits /\ tree[p] # Absent
    /\ tree' = [tree EXCEPT ![p] = Absent]
    /\ edits' = edits + 1
    /\ LeaveGap
    /\ UNCHANGED <<db, index, auto, age, pc, seen, call, answer, turns>>

\* A second passes.
Tick ==
    /\ age' = IF age < Window THEN age + 1 ELSE Window
    /\ seen' = [seen EXCEPT !.since = IF seen.changed = {} THEN 0
                                      ELSE IF @ < Window THEN @ + 1 ELSE Window]
    /\ <<age', seen'>> # <<age, seen>>
    /\ UNCHANGED <<tree, db, index, auto, pc, run, call, answer, gap, edits, turns>>

\* config.toml changes, `codescent reset` removes .codescent, or the clock is set back.
Turn ==
    /\ turns < MaxTurns
    /\ turns' = turns + 1
    /\ \/ auto' = ~auto /\ UNCHANGED <<db, index, age, run, gap>>
       \/ db /\ db' = FALSE /\ index' = Nothing /\ age' = Window /\ LeaveGap
          /\ UNCHANGED auto
       \/ age \in 0..Window - 1 /\ age' = -1 /\ UNCHANGED <<auto, db, index, run, gap>>
    /\ Overtake
    /\ UNCHANGED <<tree, pc, seen, answer, edits>>

-----------------------------------------------------------------------------
(* get_status and index_repo *)

\* The files whose hash is not the stored one, and the stored files that are gone.
Drift == {p \in File : tree[p] # index[p]}

\* initialize_storage, the inventory and the stored hashes.
Reads(r) ==
    /\ pc[r] = "read"
    /\ Goto(r, "write")
    /\ db' = TRUE
    /\ run' = [run EXCEPT ![r] = [inventory |-> tree, stored |-> index, calm |-> TRUE]]
    /\ UNCHANGED <<tree, index, auto, age, seen, call, answer, gap, edits, turns>>

Differs(r) == {p \in File : run[r].inventory[p] # run[r].stored[p]}

\* A row another caller inserted in the meantime violates files.path.
Collides(r) == \E p \in Differs(r) : run[r].stored[p] = Absent /\ index[p] # Absent

\* Without another commit or an edit left behind since the read, the index is the
\* tree of that read.
Persists(r, to) ==
    /\ pc[r] = "write" /\ db /\ ~Collides(r)
    /\ Goto(r, to)
    /\ index' = [p \in File |-> IF p \in Differs(r) THEN run[r].inventory[p] ELSE index[p]]
    /\ gap' = ~run[r].calm
    /\ run' = [s \in Runners |-> IF s = r THEN Unread
                                 ELSE IF pc[s] = "write" THEN [run[s] EXCEPT !.calm = FALSE]
                                 ELSE run[s]]
    /\ UNCHANGED <<tree, db, auto, age, seen, answer, edits, turns>>

\* The claim or a lock is refused, the insert collides, or .codescent was removed.
Raises(r) ==
    /\ pc[r] = "write"
    /\ \/ (Collides(r) \/ ~db) /\ UNCHANGED turns
       \/ turns < MaxTurns /\ turns' = turns + 1
    /\ UNCHANGED <<tree, db, index, auto, age, edits>>

-----------------------------------------------------------------------------
(* hook-reindex *)

\* Mutant of ClaimSlot: the stamp is compared without its lower bound.
ClaimSlotFromFuture(h) ==
    /\ pc[h] = "started"
    /\ IF db /\ age >= Window THEN Goto(h, "touch") ELSE Goto(h, "idle")
    /\ IF db /\ age \notin 0..Window - 1 THEN UNCHANGED <<run, gap>> ELSE LeaveGap
    /\ UNCHANGED <<tree, db, index, auto, age, seen, call, answer, edits, turns>>

\* Without an index the hook does nothing; within the window it leaves the edit
\* to a later trigger.
ClaimSlot(h) ==
    /\ pc[h] = "started"
    /\ IF db /\ age \notin 0..Window - 1 THEN Goto(h, "touch") ELSE Goto(h, "idle")
    /\ IF db /\ age \notin 0..Window - 1 THEN UNCHANGED <<run, gap>> ELSE LeaveGap
    /\ UNCHANGED <<tree, db, index, auto, age, seen, call, answer, edits, turns>>

\* The stamp is touched by a call of its own: two hooks can both get here.
Touch(h) ==
    /\ pc[h] = "touch"
    /\ Goto(h, "read")
    /\ age' = 0
    /\ UNCHANGED <<tree, db, index, auto, run, seen, call, answer, gap, edits, turns>>

HookIndexes(h) == Persists(h, "idle") /\ Overtake

\* contextlib.suppress(Exception): nobody hears of it.
HookRaises(h) ==
    /\ Raises(h) /\ Goto(h, "idle")
    /\ gap' = TRUE
    /\ run' = [r \in Runners |-> IF r = h THEN Unread
                                 ELSE IF pc[r] = "write" THEN [run[r] EXCEPT !.calm = FALSE]
                                 ELSE run[r]]
    /\ UNCHANGED <<seen, call, answer>>

-----------------------------------------------------------------------------
(* codescent watch *)

\* ReindexDebouncer.observe: the same paths were changed for a whole window.
Fires == Drift # {} /\ Drift = seen.changed /\ seen.since >= Window

\* Mutant of Observe: every poll of a changed tree restarts the window.
ObserveRestarts ==
    /\ pc["watch"] = "idle"
    /\ seen' = [changed |-> Drift, since |-> 0]
    /\ UNCHANGED pc
    /\ db' = TRUE
    /\ IF db THEN UNCHANGED call ELSE Overtake
    /\ UNCHANGED <<tree, index, auto, age, run, answer, gap, edits, turns>>

\* A poll: get_status creates the state, then the debouncer looks at the changes.
Observe ==
    /\ pc["watch"] = "idle"
    /\ IF Fires
       THEN Goto("watch", "read") /\ seen' = [changed |-> {}, since |-> 0]
       ELSE /\ UNCHANGED pc
            /\ seen' = [changed |-> Drift,
                        since |-> IF Drift = seen.changed THEN seen.since ELSE 0]
    /\ db' = TRUE
    /\ IF db THEN UNCHANGED call ELSE Overtake
    /\ UNCHANGED <<tree, index, auto, age, run, answer, gap, edits, turns>>

WatchIndexes == Persists("watch", "idle") /\ Overtake

\* Only KeyboardInterrupt is caught: an index call that raises ends the watch.
WatchDies ==
    /\ Raises("watch") /\ Goto("watch", "ended")
    /\ run' = [run EXCEPT !["watch"] = Unread]
    /\ UNCHANGED <<seen, call, answer, gap>>

-----------------------------------------------------------------------------
(* ensure_bootstrapped and ensure_fresh_index, before a task brief *)

\* auto_bootstrap and the file are looked at before ensure_fresh_index looks again.
CallBegins ==
    /\ pc["call"] = "idle"
    /\ Goto("call", "begun")
    /\ call' = [NoCall EXCEPT !.auto = auto, !.existed = db]
    /\ answer' = None
    /\ UNCHANGED <<tree, db, index, auto, age, run, seen, gap, edits, turns>>

Meta(fresh, stale, refreshed, error, disabled) ==
    [fresh |-> fresh, stale |-> stale, refreshed |-> refreshed, error |-> error,
     disabled |-> disabled]

\* FreshnessMetadata.confidence.
Confidence(meta) ==
    IF meta.error \/ meta.disabled THEN "low"
    ELSE IF meta.stale THEN "medium" ELSE "high"

\* FreshnessMetadata.warnings.
Warning(meta) ==
    CASE meta.error -> "refresh failed"
      [] meta.disabled /\ ~meta.error -> "disabled"
      [] meta.stale /\ ~meta.error /\ ~meta.disabled ->
            IF meta.refreshed THEN "was refreshed" ELSE "is stale"
      [] OTHER -> "none"

\* Mutant of Reason: the missing file is looked at before the error.
ReasonCreatedFirst(meta) ==
    CASE ~call.auto -> "disabled"
      [] call.auto /\ ~call.existed -> "created"
      [] call.auto /\ call.existed /\ meta.error -> "failed"
      [] call.auto /\ call.existed /\ ~meta.error ->
            IF meta.refreshed THEN "refreshed" ELSE "fresh"

\* _classify.
Reason(meta) ==
    CASE ~call.auto -> "disabled"
      [] call.auto /\ meta.error -> "failed"
      [] call.auto /\ ~meta.error ->
            IF ~call.existed THEN "created"
            ELSE IF meta.refreshed THEN "refreshed" ELSE "fresh"

Ran(reason) ==
    CASE reason = "created" -> {"init", "index", "scan"}
      [] reason = "refreshed" -> {"index", "scan"}
      [] OTHER -> {}

\* The brief: next_tools_with_refresh_recovery puts the scan first when it is due.
Reply(meta) ==
    /\ Goto("call", "replied")
    /\ answer' = [reason |-> Reason(meta), ran |-> Ran(Reason(meta)), meta |-> meta,
                   confidence |-> Confidence(meta), warning |-> Warning(meta),
                   recover |-> meta.error \/ meta.disabled,
                   guided |-> CASE Reason(meta) = "disabled" -> ~meta.fresh
                                [] OTHER -> Reason(meta) = "failed"]

\* auto_bootstrap is off: nothing is created, the state is only looked at.
Disabled ==
    /\ pc["call"] = "begun" /\ ~auto
    /\ LET fresh == db /\ Drift = {}
       IN  /\ Reply(Meta(fresh, ~fresh, FALSE, FALSE, ~fresh))
           /\ call' = [call EXCEPT !.exact = fresh]
    /\ UNCHANGED <<tree, db, index, auto, age, run, seen, gap, edits, turns>>

\* get_status initialises the storage; a fresh index is answered from.  Where no
\* file is indexed the index it has just created is fresh.
StatusFresh ==
    /\ pc["call"] = "begun" /\ auto
    /\ db' = TRUE
    /\ Drift = {}
    /\ call' = [call EXCEPT !.exact = TRUE, !.bare = (tree = Nothing)]
    /\ Reply(Meta(TRUE, FALSE, FALSE, FALSE, FALSE))
    /\ UNCHANGED <<tree, index, auto, age, run, seen, gap, edits, turns>>

StatusStale ==
    /\ pc["call"] = "begun" /\ auto
    /\ db' = TRUE
    /\ Drift # {}
    /\ Goto("call", "read")
    /\ UNCHANGED <<tree, index, auto, age, run, seen, call, answer, gap, edits, turns>>

CallIndexes == Persists("call", "scan") /\ UNCHANGED call

\* Any exception of the scan becomes refresh_error, and the call goes on.
CallRaises ==
    /\ \/ Raises("call")
       \/ /\ pc["call"] = "scan" /\ turns < MaxTurns /\ turns' = turns + 1
          /\ UNCHANGED <<tree, db, index, auto, age, edits>>
    /\ run' = [run EXCEPT !["call"] = Unread]
    /\ call' = [call EXCEPT !.failed = TRUE]
    /\ Reply(Meta(FALSE, TRUE, FALSE, TRUE, FALSE))
    /\ UNCHANGED <<seen, gap>>

Scans ==
    /\ pc["call"] = "scan"
    /\ Goto("call", "after")
    /\ call' = [call EXCEPT !.scanned = TRUE]
    /\ UNCHANGED <<tree, db, index, auto, age, run, seen, answer, gap, edits, turns>>

\* The second get_status may see an index that is stale again.
StatusAfter ==
    /\ pc["call"] = "after"
    /\ db' = TRUE
    /\ call' = [call EXCEPT !.exact = (tree = index)]
    /\ Reply(Meta(tree = index, TRUE, TRUE, FALSE, FALSE))
    /\ UNCHANGED <<tree, index, auto, age, run, seen, gap, edits, turns>>

\* The brief is out.
Leaves ==
    /\ pc["call"] = "replied"
    /\ Goto("call", "idle")
    /\ call' = NoCall
    /\ answer' = None
    /\ UNCHANGED <<tree, db, index, auto, age, run, seen, gap, edits, turns>>

CallStep ==
    \/ CallBegins \/ Disabled \/ StatusFresh \/ StatusStale \/ Reads("call") \/ CallIndexes
    \/ CallRaises \/ Scans \/ StatusAfter \/ Leaves

HookStep(h) ==
    \/ ClaimSlot(h) \/ Touch(h) \/ Reads(h) \/ HookIndexes(h) \/ HookRaises(h)

WatchStep == Observe \/ Reads("watch") \/ WatchIndexes \/ WatchDies

Next ==
    \/ \E p \in File, h \in Hooks : AgentEdits(p, h)
    \/ \E p \in File : Removes(p)
    \/ \E h \in Hooks : HookStep(h)
    \/ Tick \/ Turn \/ WatchStep \/ CallStep

Spec == Init /\ [][Next]_vars

\* The watch loop polls again and again, hooks end and time passes.  Nobody has to
\* edit, to call a tool or to change the configuration.
FairSpec ==
    /\ Spec
    /\ WF_vars(WatchStep)
    /\ \A h \in Hooks : WF_vars(HookStep(h))
    /\ WF_vars(Tick)

-----------------------------------------------------------------------------
(* Properties *)

\* What a task brief says of its index: it is called fresh only if it was the tree
\* when it was looked at, a refresh that failed is never told as a run and lowers
\* the confidence, and a scan that ran is told.  A run that is told did run, but for
\* one case: 'created' is said of an index that was not there when the call began and
\* is fresh at the look, because another process made it or changed the
\* configuration, or because the repository holds nothing to index
\* (bootstrap.py:74, freshness.py:56).
ReplyIsTrue ==
    answer # None =>
        /\ answer.meta.fresh \/ answer.confidence = "high" => call.exact
        /\ call.failed => /\ answer.ran = {} /\ answer.guided /\ answer.recover
                          /\ answer.confidence = "low" /\ answer.warning # "none"
        /\ answer.ran # {} /\ ~call.scanned =>
              /\ answer.reason = "created"
              /\ call.overtaken \/ (call.bare /\ answer.meta.fresh)
        /\ call.scanned /\ call.auto => answer.ran # {}

\* With no hook under way every edit of the agent is in the index, unless the last
\* hook was turned away by the slot, failed, or overlapped another index call, or a
\* file went without a hook (cli/hooks.py:173: only redundant scans are dropped).
HookLeavesNoGap ==
    db /\ ~gap /\ (\A h \in Hooks : pc[h] \in {"idle", "away"}) => index = tree

\* While `codescent watch` lives, edits do not stay out of the index for ever: once
\* the tree rests, the debouncer fires and the index is the tree (repo_index.py:47).
WatchCatchesUp == <>[](index = tree \/ pc["watch"] \in {"away", "ended"})
=============================================================================
