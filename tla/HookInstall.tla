----------------------------- MODULE HookInstall -----------------------------
(* `codescent install-hook` and its --remove, on a settings file that Claude    *)
(* Code and its user write too.  The file is read, transformed and replaced     *)
(* without a lock.                                                              *)
EXTENDS Integers, Sequences, FiniteSets, Ordering

CONSTANTS Event,
          HookEvent,    \* the events codescent registers for, PreToolUse among them
          Installers,
          Foreign,      \* handlers, and malformed groups, that are not codescent's
          MaxUserEdits,
          NotList,      \* an event whose value is no list
          Missing,      \* an event that is not in the file
          NoHooks       \* no "hooks" key, or one that is no object

VARIABLES settings,  \* the file: its "hooks" object, or NoHooks
          spare,     \* settings.json.tmp and who wrote it, or NoHooks
          copy,      \* what each installer has read
          place,     \* where it is
          current,   \* ghost: the installers whose copy is the file
          userEdits

hookVars == <<settings, spare, copy, place, current, userEdits>>

Ours == "codescent"

\* A group is the sequence of its handlers.
Group == {<<>>} \cup {<<h>> : h \in Foreign \cup {Ours}} \cup {<<Ours, h>> : h \in Foreign}
Handler == Foreign \cup {Ours}
EventValue == Seq(Seq(Handler)) \cup {NotList, Missing}
Groups == {<<>>} \cup {<<g>> : g \in Group} \cup {<<g, <<h>>>> : g \in Group, h \in Foreign}

ASSUME HookAssumption ==
    /\ HookEvent \subseteq Event /\ Ours \notin Foreign
    /\ NotList \notin Seq(Seq(Handler)) /\ Missing \notin Seq(Seq(Handler))
    /\ NoHooks \notin [Event -> EventValue]

\* codescent_hook_groups: before a tool runs a group for its searches and one for
\* those of the shell, with a handler for each of their programs; else one handler.
Registered(e) == IF e = "PreToolUse" THEN <<<<Ours>>, <<Ours, Ours>>>> ELSE <<<<Ours>>>>

NoEvents == [e \in Event |-> Missing]
IsList(entry) == entry \notin {NotList, Missing}

HookInit ==
    /\ settings = NoHooks
    /\ spare = NoHooks
    /\ copy = [i \in Installers |-> NoHooks]
    /\ place = [i \in Installers |-> "idle"]
    /\ current = Installers
    /\ userEdits = 0

-----------------------------------------------------------------------------

IsForeign(h) == h # Ours
Trim(group) == Kept(group, IsForeign)

\* A group of codescent's handlers only is dropped, one that was empty stays.
Keeps(group) == group = <<>> \/ Trim(group) # <<>>

\* Mutant of StripGroups: a group that was trimmed is appended after the others.
StripTrimmedLast(groups) ==
    LET whole(g) == \A k \in DOMAIN g : IsForeign(g[k])
        trimmed == Kept(groups, LAMBDA g : ~whole(g) /\ Trim(g) # <<>>)
    IN  Kept(groups, whole) \o [k \in DOMAIN trimmed |-> Trim(trimmed[k])]

\* _strip_event_groups.
StripGroups(groups) ==
    LET kept == Kept(groups, Keeps) IN [k \in DOMAIN kept |-> Trim(kept[k])]

\* remove_codescent_hooks: an event without groups and a map without events go.
Removed(old) ==
    IF old = NoHooks THEN NoHooks
    ELSE LET new == [e \in Event |->
                       IF IsList(old[e])
                       THEN IF StripGroups(old[e]) = <<>> THEN Missing ELSE StripGroups(old[e])
                       ELSE old[e]]
         IN  IF new = NoEvents THEN NoHooks ELSE new

\* merge_codescent_hooks: strip, then extend each event's list, or start one.
Merged(old) ==
    LET bare == IF Removed(old) = NoHooks THEN NoEvents ELSE Removed(old)
    IN  [e \in Event |->
           IF e \in HookEvent
           THEN (IF IsList(bare[e]) THEN bare[e] ELSE <<>>) \o Registered(e)
           ELSE bare[e]]

-----------------------------------------------------------------------------

\* Claude Code or its user writes the file.
UserEdits ==
    /\ userEdits < MaxUserEdits
    /\ userEdits' = userEdits + 1
    /\ \E e \in Event, entry \in Groups \cup {NotList, Missing} :
          settings' = [(IF settings = NoHooks THEN NoEvents ELSE settings) EXCEPT ![e] = entry]
    /\ current' = {i \in Installers : place[i] = "idle"}
    /\ UNCHANGED <<spare, copy, place>>

\* _load_settings.
Load(i) ==
    /\ place[i] = "idle"
    /\ place' = [place EXCEPT ![i] = "loaded"]
    /\ copy' = [copy EXCEPT ![i] = settings]
    /\ UNCHANGED <<settings, spare, current, userEdits>>

\* _write_settings fills the one temporary file.
WriteSpare(i, operation) ==
    /\ place[i] = "loaded"
    /\ place' = [place EXCEPT ![i] = operation]
    /\ spare' = [by |-> i, text |-> IF operation = "install" THEN Merged(copy[i])
                                    ELSE Removed(copy[i])]
    /\ UNCHANGED <<settings, copy, current, userEdits>>

\* The temporary file may hold what another installer wrote, or be gone: then the
\* replace raises.
Swap(i) ==
    /\ place[i] \in {"install", "remove"}
    /\ place' = [place EXCEPT ![i] = "idle"]
    /\ copy' = [copy EXCEPT ![i] = NoHooks]
    /\ IF spare = NoHooks
       THEN settings' = settings /\ current' = current \cup {i}
       ELSE /\ settings' = spare.text
            /\ current' = {j \in Installers : j = i \/ place[j] = "idle"}
    /\ spare' = NoHooks
    /\ UNCHANGED userEdits

HookNext ==
    \/ UserEdits
    \/ \E i \in Installers : Load(i) \/ WriteSpare(i, "install") \/ WriteSpare(i, "remove")
                            \/ Swap(i)

HookSpec == HookInit /\ [][HookNext]_hookVars

-----------------------------------------------------------------------------
(* Properties *)

EntryOf(s, e) == IF s = NoHooks THEN Missing ELSE s[e]
GroupsOf(s, e) == IF IsList(EntryOf(s, e)) THEN EntryOf(s, e) ELSE <<>>

\* Where handlers stand in a list of groups, and those handlers in that order.
PlacesOf(groups, handlers) ==
    UNION {{<<k, n>> : n \in {m \in DOMAIN groups[k] : groups[k][m] \in handlers}} :
              k \in DOMAIN groups}
InOrder(p, q) == p[1] < q[1] \/ (p[1] = q[1] /\ p[2] < q[2])
HandlersIn(groups, handlers) ==
    LET places == PlacesOf(groups, handlers)
    IN  [i \in 1..Cardinality(places) |->
           LET p == Sorted(places, InOrder)[i] IN groups[p[1]][p[2]]]

Empties(groups) == Cardinality({k \in DOMAIN groups : groups[k] = <<>>})

\* Whatever the file held, installing and removing leave every handler that is not
\* codescent's in its event and its order, and empty groups too; after an install
\* each registered event has codescent's handlers once, after a removal none has
\* any.  That holds for a run whose file nobody else wrote in between
\* (hook_install.py:114, :139; cli/hooks.py:257).
InstallKeepsOthers ==
    [][\A i \in Installers :
         /\ place[i] # "idle" /\ place'[i] = "idle"
         /\ i \in current /\ spare # NoHooks /\ spare.by = i
         => \A e \in Event :
              LET old == GroupsOf(settings, e)
                  new == GroupsOf(settings', e)
                  due == IF place[i] = "install" /\ e \in HookEvent THEN Registered(e) ELSE <<>>
              IN  /\ HandlersIn(new, Foreign) = HandlersIn(old, Foreign)
                  /\ HandlersIn(new, {Ours}) = HandlersIn(due, {Ours})
                  /\ Empties(new) = Empties(old)
                  /\ EntryOf(settings, e) = NotList /\ due = <<>> => EntryOf(settings', e) = NotList
    ]_hookVars
=============================================================================
