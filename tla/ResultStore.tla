---------------------------- MODULE ResultStore ----------------------------
(* Tool results too long to return inline: they are stored under an opaque  *)
(* id and handed out later.  Storing, retrieving, counting and the session  *)
(* trail are separate transactions, so other clients, expiry, clean-up and  *)
(* reset come between them.                                                 *)
EXTENDS Integers, Sequences, FiniteSets, SequencesExt, Ordering

CONSTANTS
  Clients,      \* concurrent callers, each with a session of its own
  Lists,        \* the collections a tool may find: sequences of items
  FileOf,       \* the file an item names
  Requests,     \* what clients ask of a stored result: mode, limit, file
  InlineLimit,  \* INLINE_ITEM_LIMIT, and the length find_symbol calls large
  MaxRetrieve,  \* MAX_RETRIEVE_LIMIT
  EventLimit,   \* MAX_EVENTS of the session statistics
  Horizon,      \* bound on the clock
  MaxEvents,    \* bound on the session events
  MaxCalls      \* bound on the results stored, and on those counted, for a client

ASSUME ResultStoreAssumption ==
  /\ IsFiniteSet(Clients)
  /\ Lists \subseteq Seq(DOMAIN FileOf)
  /\ \A l \in Lists : \A i, j \in DOMAIN l : l[i] = l[j] => i = j  \* rows with ids of their own
  /\ InlineLimit \in Nat /\ EventLimit \in Nat /\ Horizon \in Nat /\ MaxEvents \in Nat /\ MaxCalls \in Nat
  /\ MaxRetrieve \in Nat \ {0}
  /\ Requests \subseteq [mode : {"exact", "summary", "filtered", "sample"}, limit : Int,
                         file : {FileOf[i] : i \in DOMAIN FileOf} \cup {"any"}]
  /\ \A i \in DOMAIN FileOf : FileOf[i] # "any"

VARIABLES
  rows,      \* stored_results: id -> [summary, expires, count]
  events,    \* session_events
  now,       \* the wall clock
  phase, call,  \* where each client is, and the arguments and locals of its call
  reply,     \* what its last call returned
  minted, served, \* per session: results stored, retrievals counted
  removed,   \* ids whose rows were deleted
  uncounted, \* per id: retrievals that failed after they were counted
  disturbed  \* clients whose call met a refusal, a collision or a removal

storeVars == <<rows, events, now, phase, call, reply, minted, served, removed, uncounted, disturbed>>
history == <<minted, served, removed, uncounted, disturbed>>

Never == Horizon + 1
Tools == {"list", "plan", "find_symbol"}

\* The id is a digest of the tool, the payload and the time of storing.
Ids == [tool : Tools, list : Lists, created : 0..Horizon]
Nothing == [kind |-> "none"]

----------------------------------------------------------------------------
(* What a retrieval selects.                                                *)

Bounded(limit) ==
  LET low == IF limit > 1 THEN limit ELSE 1 IN IF low < MaxRetrieve THEN low ELSE MaxRetrieve

Shorter(n, s) == IF n < Len(s) THEN n ELSE Len(s)
First(s, n) == SubSeq(s, 1, Shorter(n, s))

\* round(p / q): the nearest integer, the even one of two.
Rounded(p, q) ==
  LET down == p \div q
      rest == 2 * (p % q)
  IN IF rest > q \/ (rest = q /\ down % 2 = 1) THEN down + 1 ELSE down

Sample(s, k) ==
  IF Len(s) <= k THEN s
  ELSE IF k = 1 THEN <<s[1]>>
  ELSE [i \in 1..k |-> s[1 + Rounded((i - 1) * (Len(s) - 1), k - 1)]]

Records(id, summary, request) ==
  CASE request.mode = "summary" /\ summary # <<>> -> summary
    [] request.mode = "filtered" /\ request.file # "any" ->
         Kept(id.list, LAMBDA i : FileOf[i] = request.file)
    [] request.mode = "sample" -> Sample(id.list, Bounded(request.limit))
    [] OTHER -> id.list

\* An exact retrieval that had to drop items is labelled a summary.
Response(id, summary, request) ==
  LET records == Records(id, summary, request)
      visible == First(records, Bounded(request.limit))
      omitted == Len(records) - Len(visible)
  IN [kind |-> "found", id |-> id, items |-> visible, omitted |-> omitted,
      mode |-> IF request.mode = "exact" /\ omitted > 0 THEN "summary" ELSE request.mode]

Failed(code, id) == [kind |-> code, id |-> id]

----------------------------------------------------------------------------
(* The session trail.                                                       *)

Recorded(type, c, id) == [type |-> type, session |-> c, id |-> id]
CanRecord == Len(events) < MaxEvents

\* context_stats reads the oldest EventLimit events of its session.
OwnEvents(c, n) == {i \in 1..n : events[i].session = c}
Trail(c) == {i \in OwnEvents(c, Len(events)) : Cardinality(OwnEvents(c, i)) <= EventLimit}
CountOf(type, trail) == Cardinality({i \in trail : events[i].type = type})
Stats(c) ==
  [tool_calls         |-> CountOf("tool_called", Trail(c)),
   summarized_results |-> CountOf("large_result_summarized", Trail(c)),
   retrievals         |-> CountOf("result_retrieved", Trail(c))]

----------------------------------------------------------------------------
StoreInit ==
  /\ rows = << >> /\ events = << >> /\ now = 0
  /\ phase = [c \in Clients |-> "idle"]
  /\ call = [c \in Clients |-> Nothing]
  /\ reply = [c \in Clients |-> Nothing]
  /\ minted = [c \in Clients |-> 0] /\ served = [c \in Clients |-> 0]
  /\ removed = {} /\ disturbed = {} /\ uncounted = [id \in Ids |-> 0]

Goto(c, place) == phase' = [phase EXCEPT ![c] = place]
Return(c, r) ==
  /\ Goto(c, "idle")
  /\ reply' = [reply EXCEPT ![c] = r]
  /\ call' = [call EXCEPT ![c] = Nothing]
BeginCall(c, args) ==
  /\ phase[c] = "idle"
  /\ call' = [call EXCEPT ![c] = args]
  /\ reply' = [reply EXCEPT ![c] = Nothing]
  /\ disturbed' = disturbed \ {c}

\* bounded_finding_list: short lists are returned, others stored first.
ListCall(c, list) ==
  /\ BeginCall(c, [tool |-> "list", list |-> list, summary |-> <<>>, expires |-> Never])
  /\ Len(list) > InlineLimit
  /\ Goto(c, "insert")
  /\ UNCHANGED <<rows, events, now, minted, served, removed, uncounted>>

\* improvement_plan_payload: clusters name several files, so no hint names one.
PlanCall(c, list) ==
  /\ BeginCall(c, [tool |-> "plan", list |-> list, summary |-> <<>>, expires |-> Never])
  /\ Len(list) > InlineLimit
  /\ Goto(c, "insert")
  /\ UNCHANGED <<rows, events, now, minted, served, removed, uncounted>>

\* find_symbol records the call before it stores anything.
SymbolCall(c, list) ==
  /\ BeginCall(c, [tool |-> "find_symbol", list |-> list, summary |-> First(list, InlineLimit),
               expires |-> Never])
  /\ Goto(c, "record_call")
  /\ UNCHANGED <<rows, events, now, minted, served, removed, uncounted>>

\* A caller of the service that lets its result expire.
StoreCall(c, list, expires) ==
  /\ BeginCall(c, [tool |-> "list", list |-> list, summary |-> <<>>, expires |-> expires])
  /\ Goto(c, "insert")
  /\ UNCHANGED <<rows, events, now, minted, served, removed, uncounted>>

RecordCall(c) ==
  /\ phase[c] = "record_call" /\ CanRecord
  /\ events' = Append(events, Recorded("tool_called", c, Nothing))
  /\ IF Len(call[c].list) > InlineLimit
     THEN Goto(c, "insert") /\ UNCHANGED <<call, reply>>
     ELSE Return(c, [kind |-> "inline"])
  /\ UNCHANGED <<rows, now, history>>

NewId(c) == [tool |-> call[c].tool, list |-> call[c].list, created |-> now]

\* create_result's transaction; the primary key refuses an equal id.
Insert(c) ==
  LET id == NewId(c) IN
  /\ phase[c] = "insert"
  /\ IF id \in DOMAIN rows
     THEN /\ disturbed' = disturbed \cup {c}
          /\ Return(c, Failed("internal", id))
          /\ UNCHANGED <<rows, minted>>
     ELSE /\ rows' = [i \in DOMAIN rows \cup {id} |->
                        IF i = id THEN [summary |-> call[c].summary,
                                        expires |-> call[c].expires, count |-> 0]
                        ELSE rows[i]]
          /\ minted' = [minted EXCEPT ![c] = @ + 1]
          /\ call' = [call EXCEPT ![c] = [tool |-> @.tool, id |-> id]]
          /\ Goto(c, "read_back")
          /\ UNCHANGED <<reply, disturbed>>
  /\ UNCHANGED <<events, now, served, removed, uncounted>>

\* create_result returns the row from a second connection.
ReadBack(c) ==
  /\ phase[c] = "read_back"
  /\ CASE call[c].id \notin DOMAIN rows -> Return(c, Failed("internal", call[c].id))
       [] call[c].id \in DOMAIN rows /\ call[c].tool = "find_symbol" ->
            Goto(c, "record_summary") /\ UNCHANGED <<call, reply>>
       [] OTHER -> Return(c, [kind |-> "stored", id |-> call[c].id])
  /\ UNCHANGED <<rows, events, now, history>>

RecordSummary(c) ==
  /\ phase[c] = "record_summary" /\ CanRecord
  /\ events' = Append(events, Recorded("large_result_summarized", c, call[c].id))
  /\ Return(c, [kind |-> "stored", id |-> call[c].id])
  /\ UNCHANGED <<rows, now, history>>

Live(id) == id \in DOMAIN rows /\ rows[id].expires > now

\* retrieve_result of an id: the first read tells live rows from the others.
Retrieve(c, id, request) ==
  /\ BeginCall(c, [id |-> id, request |-> request,
               row |-> IF Live(id) THEN rows[id] ELSE Nothing])
  /\ Goto(c, IF Live(id) THEN "count" ELSE "recheck")
  /\ UNCHANGED <<rows, events, now, minted, served, removed, uncounted>>

\* Mutant of Recheck: whatever the first read missed is missing.
RecheckNothing(c) ==
  /\ phase[c] = "recheck"
  /\ Return(c, Failed("missing_result", call[c].id))
  /\ UNCHANGED <<rows, events, now, history>>

\* _is_expired reads again, expired rows included.
Recheck(c) ==
  LET id == call[c].id IN
  /\ phase[c] = "recheck"
  /\ Return(c, IF id \in DOMAIN rows /\ rows[id].expires <= now
               THEN Failed("expired_result", id) ELSE Failed("missing_result", id))
  /\ UNCHANGED <<rows, events, now, history>>

\* Mutant of Count: the new count is computed from the row read before.
CountFromRead(c) ==
  LET id == call[c].id IN
  /\ phase[c] = "count" /\ id \in DOMAIN rows
  /\ rows' = [rows EXCEPT ![id].count = call[c].row.count + 1]
  /\ served' = [served EXCEPT ![c] = @ + 1]
  /\ Goto(c, "counted")
  /\ UNCHANGED <<call, reply, events, now, minted, removed, uncounted, disturbed>>

\* increment_retrieval_count: its LookupError is no ResultStoreError.
Count(c) ==
  LET id == call[c].id IN
  /\ phase[c] = "count"
  /\ IF id \in DOMAIN rows
     THEN /\ rows' = [rows EXCEPT ![id].count = @ + 1]
          /\ served' = [served EXCEPT ![c] = @ + 1]
          /\ Goto(c, "counted") /\ UNCHANGED <<call, reply>>
     ELSE Return(c, Failed("internal", id)) /\ UNCHANGED <<rows, served>>
  /\ UNCHANGED <<events, now, minted, removed, uncounted, disturbed>>

Miscounted(c) == uncounted' = [uncounted EXCEPT ![call[c].id] = @ + 1]

\* increment_retrieval_count returns the row from a second connection.
ReadCount(c) ==
  /\ phase[c] = "counted"
  /\ IF call[c].id \in DOMAIN rows
     THEN Goto(c, "record_retrieval") /\ UNCHANGED <<call, reply, uncounted>>
     ELSE Return(c, Failed("internal", call[c].id)) /\ Miscounted(c)
  /\ UNCHANGED <<rows, events, now, minted, served, removed, disturbed>>

\* The tool reports the payload it read before it counted.
RecordRetrieval(c) ==
  LET a == call[c] IN
  /\ phase[c] = "record_retrieval" /\ CanRecord
  /\ events' = Append(events, Recorded("result_retrieved", c, a.id))
  /\ Return(c, Response(a.id, a.row.summary, a.request))
  /\ UNCHANGED <<rows, now, history>>

\* The storage lock refuses a write transaction: the tool call fails.
Refused(c) ==
  /\ phase[c] \in {"record_call", "insert", "record_summary", "count", "record_retrieval"}
  /\ disturbed' = disturbed \cup {c}
  /\ Return(c, Failed("internal", Nothing))
  /\ IF phase[c] = "record_retrieval" THEN Miscounted(c) ELSE UNCHANGED uncounted
  /\ UNCHANGED <<rows, events, now, minted, served, removed>>

Tick == now < Horizon /\ now' = now + 1
        /\ UNCHANGED <<rows, events, phase, call, reply, history>>

Using(ids) == {c \in Clients : phase[c] # "idle" /\ "id" \in DOMAIN call[c] /\ call[c].id \in ids}

Drop(ids) ==
  /\ rows' = [id \in DOMAIN rows \ ids |-> rows[id]]
  /\ removed' = removed \cup ids
  /\ disturbed' = disturbed \cup Using(ids)

\* cleanup_expired
CleanUp ==
  LET expired == {id \in DOMAIN rows : rows[id].expires <= now} IN
  /\ expired # {} /\ Drop(expired)
  /\ UNCHANGED <<events, now, phase, call, reply, minted, served, uncounted>>

\* reset removes the database; the next call creates an empty one.
Reset ==
  /\ DOMAIN rows # {} /\ now < Horizon
  /\ Drop(DOMAIN rows)
  /\ events' = << >> /\ now' = now + 1
  /\ UNCHANGED <<phase, call, reply, minted, served, uncounted>>

StoreNext ==
  \/ \E c \in Clients :
       \/ \E l \in Lists : /\ minted[c] < MaxCalls
                           /\ \/ ListCall(c, l) \/ PlanCall(c, l) \/ SymbolCall(c, l)
                              \/ \E t \in now + 1..Horizon : StoreCall(c, l, t)
       \/ RecordCall(c) \/ Insert(c) \/ ReadBack(c) \/ RecordSummary(c)
       \/ \E id \in DOMAIN rows \cup removed, q \in Requests :
            served[c] < MaxCalls /\ Retrieve(c, id, q)
       \/ Recheck(c) \/ Count(c) \/ ReadCount(c) \/ RecordRetrieval(c) \/ Refused(c)
  \/ Tick \/ CleanUp \/ Reset

StoreSpec == StoreInit /\ [][StoreNext]_storeVars

----------------------------------------------------------------------------
(* Properties.                                                              *)

\* A call reports a result missing only when it was deleted, expired only when
\* its time has come, and fails as an internal error only when the lock refused
\* it, an equal id existed or the row was deleted while it ran.
RepliesAreHonest ==
  \A c \in Clients : LET r == reply[c] IN
    /\ r.kind = "missing_result" => r.id \in removed
    /\ r.kind = "expired_result" =>
         r.id \in removed \/ (r.id \in DOMAIN rows /\ rows[r.id].expires <= now)
    /\ r.kind = "internal" => c \in disturbed

Retrieved(id) ==
  Cardinality({i \in DOMAIN events : events[i].type = "result_retrieved" /\ events[i].id = id})
Counting(id) == Cardinality({c \in Clients : phase[c] \in {"counted", "record_retrieval"}
                                             /\ call[c].id = id})

\* The counts, the trail and the statistics an agent sees tell one story,
\* whatever was refused half way: every counted retrieval is in the trail, still
\* running, or failed after it was counted, and context_stats claims no summary
\* and no retrieval that the store did not perform.
TrailMatchesStore ==
  /\ \A id \in DOMAIN rows : rows[id].count = Retrieved(id) + Counting(id) + uncounted[id]
  /\ \A c \in Clients : /\ Stats(c).summarized_results <= minted[c]
                        /\ Stats(c).retrievals <= served[c]

\* The hints a truncated list comes with: the whole of it, or one file of it.
Hints(id) ==
  {[mode |-> "exact", limit |-> MaxRetrieve, file |-> "any"]} \cup
  {[mode |-> "filtered", limit |-> MaxRetrieve, file |-> FileOf[i]] :
     i \in {j \in ToSet(id.list) : id.tool # "plan"}}
Reached(id) == UNION {ToSet(Response(id, rows[id].summary, q).items) : q \in Hints(id)}
InFile(id, file) == Cardinality({n \in DOMAIN id.list : FileOf[id.list[n]] = file})

\* Following the hints reaches every item of a file that has no more than
\* MAX_RETRIEVE_LIMIT of them (plans, whose hints name no file, aside); what still calls itself exact is the whole list;
\* and a sample has as many different items as were asked for, from the first
\* item of the list to its last.
ModesCoverList ==
  \A id \in DOMAIN rows :
    /\ \A i \in ToSet(id.list) :
         id.tool # "plan" /\ InFile(id, FileOf[i]) <= MaxRetrieve => i \in Reached(id)
    /\ \A q \in Requests : LET r == Response(id, rows[id].summary, q) IN
         r.mode = "exact" => r.items = id.list
    /\ \A k \in 2..MaxRetrieve : LET s == Sample(id.list, k) IN
         Len(id.list) > k => /\ Cardinality(ToSet(s)) = k
                             /\ s[1] = id.list[1] /\ s[k] = Last(id.list)

\* "the full collection is never dropped": the hints reach every item.
FullCollectionReachable ==
  \A id \in DOMAIN rows : ToSet(id.list) \subseteq Reached(id)

\* What a retrieval returns is honest, in its errors and in its contents
\* (retrieve_result, response_for_mode).
RetrievalIsHonest == RepliesAreHonest /\ ModesCoverList

=============================================================================
