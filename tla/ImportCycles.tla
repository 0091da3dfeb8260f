----------------------------- MODULE ImportCycles -----------------------------
(* The import cycle rule: imports are resolved to files, the strongly connected *)
(* components of the graph are found by Tarjan's algorithm with an explicit     *)
(* stack, one move of its loop a step, and each component of two files or more  *)
(* is reported with a representative cycle, found breadth first, a node a step. *)
EXTENDS Integers, Sequences, FiniteSets, SequencesExt, FiniteSetsExt, Ordering

CONSTANTS
  Paths,        \* the Python files that are not tests, as numbers in path order
  ModuleKey,    \* path -> the segments of its module
  Packages,     \* the paths that are __init__ files
  Imports,      \* what a file can import: [level, tail, name]; name <<>> or <<segment>>
  MaxImports,   \* imports of one file
  Limit         \* MAX_IMPORT_CYCLE_FINDINGS

ASSUME ImportCyclesAssumption ==
  /\ Paths \subseteq Nat \ {0} /\ IsFiniteSet(Paths) /\ Packages \subseteq Paths
  /\ Limit \in Nat \ {0} /\ MaxImports \in Nat

VARIABLES
  parsed,      \* path -> the imports of the file
  graph, selfLoops,   \* what they resolve to; the graph is <<>> before that
  index, lowlink,     \* path -> its number, for the paths that are open or closed
  stack,       \* the paths of components that are not closed
  work,        \* the loop's stack of [node, left]: the successors it has not looked at
  components,  \* the closed components
  tour,        \* the component whose cycle is looked for: its members, the walks of
               \* the queue and of the parents, the next of them to look at
  cycles,      \* the components with their cycles, [size, members, cycle]
  found        \* the findings, gravest first
tarjanVars == <<parsed, graph, selfLoops, index, lowlink, stack, work, components, tour, cycles, found>>

NoFile == 0
NoTour == [members |-> {}, queue |-> <<>>, next |-> 1]
Unreported == <<[size |-> 0, members |-> {}, cycle |-> <<>>]>>

CyclesInit ==
  /\ parsed \in [Paths -> {set \in SUBSET Imports : Cardinality(set) <= MaxImports}]
  /\ graph = <<>> /\ selfLoops = {}
  /\ index = <<>> /\ lowlink = <<>> /\ stack = <<>> /\ work = <<>> /\ components = {}
  /\ tour = NoTour /\ cycles = {} /\ found = Unreported

-----------------------------------------------------------------------------
(* Resolution *)

\* _module_to_path: of two files with one key the first path has it.
FileOfModule(key) ==
  LET named == {p \in Paths : ModuleKey[p] = key}
  IN IF key = <<>> \/ named = {} THEN NoFile ELSE Min(named)

\* _package_parts.
PackageOf(p) == IF p \in Packages THEN ModuleKey[p] ELSE Front(ModuleKey[p])

\* _absolute_module: a relative import that climbs too far starts at the root.
Absolute(p, imp) ==
  LET package == PackageOf(p)
      keep == Len(package) - (imp.level - 1)
  IN IF imp.level = 0 THEN imp.tail
     ELSE SubSeq(package, 1, IF keep >= 0 THEN keep ELSE 0) \o imp.tail

\* _resolve_import: the submodule of that name, or else the module.
Resolved(p, imp) ==
  LET absolute == Absolute(p, imp)
      submodule == IF imp.name = <<>> THEN NoFile ELSE FileOfModule(absolute \o imp.name)
  IN IF absolute = <<>> THEN NoFile ELSE IF submodule # NoFile THEN submodule ELSE FileOfModule(absolute)

\* _build_graph: imports of other repositories are left out, those of the file itself apart.
BuildGraph ==
  /\ graph = <<>>
  /\ graph' = [p \in Paths |-> {Resolved(p, imp) : imp \in parsed[p]} \ {NoFile, p}]
  /\ selfLoops' = {p \in Paths : \E imp \in parsed[p] : Resolved(p, imp) = p}
  /\ UNCHANGED <<parsed, index, lowlink, stack, work, components, tour, cycles, found>>

-----------------------------------------------------------------------------
(* _strongly_connected_components *)

Opened(p) == p \in DOMAIN index
Num(f, p, n) == [q \in DOMAIN f \cup {p} |-> IF q = p THEN n ELSE f[q]]

\* _open_node, and its successors on the loop's stack.
OpenNode(p) ==
  /\ index' = Num(index, p, Cardinality(DOMAIN index))
  /\ lowlink' = Num(lowlink, p, Cardinality(DOMAIN index))
  /\ stack' = Append(stack, p)

Root ==
  /\ graph # <<>> /\ work = <<>> /\ found = Unreported
  /\ \E p \in Paths : /\ ~Opened(p) /\ \A q \in Paths : q < p => Opened(q)
                      /\ OpenNode(p)
                      /\ work' = <<[node |-> p, left |-> graph[p]]>>
  /\ UNCHANGED <<parsed, graph, selfLoops, components, tour, cycles, found>>

Top == work[Len(work)]
Looking == work # <<>> /\ Top.left # {}

\* Mutant of Seen: a successor whose component is closed counts as well.
SeenAnywhere ==
  /\ Looking
  /\ LET next == Min(Top.left) IN
     /\ Opened(next)
     /\ work' = [work EXCEPT ![Len(work)].left = @ \ {next}]
     /\ lowlink' = [lowlink EXCEPT ![Top.node] = Min({@, index[next]})]
  /\ UNCHANGED <<parsed, graph, selfLoops, index, stack, components, tour, cycles, found>>

\* _advance, a successor that was opened before: its number counts while it is on the stack.
Seen ==
  /\ Looking
  /\ LET next == Min(Top.left) IN
     /\ Opened(next)
     /\ work' = [work EXCEPT ![Len(work)].left = @ \ {next}]
     /\ lowlink' = IF Contains(stack, next) THEN [lowlink EXCEPT ![Top.node] = Min({@, index[next]})] ELSE lowlink
  /\ UNCHANGED <<parsed, graph, selfLoops, index, stack, components, tour, cycles, found>>

\* _advance, a new one: it is opened and becomes the top.
Descend ==
  /\ Looking
  /\ LET next == Min(Top.left) IN
     /\ ~Opened(next)
     /\ OpenNode(next)
     /\ work' = Append([work EXCEPT ![Len(work)].left = @ \ {next}], [node |-> next, left |-> graph[next]])
  /\ UNCHANGED <<parsed, graph, selfLoops, components, tour, cycles, found>>

\* _finalize_node: a node with its own number closes its component (_pop_component);
\* the number it could reach goes to its parent.
Finalize ==
  /\ work # <<>> /\ Top.left = {}
  /\ LET node == Top.node
         start == CHOOSE i \in DOMAIN stack : stack[i] = node
     IN /\ IF lowlink[node] = index[node]
           THEN /\ components' = components \cup {ToSet(SubSeq(stack, start, Len(stack)))}
                /\ stack' = SubSeq(stack, 1, start - 1)
           ELSE UNCHANGED <<components, stack>>
        /\ work' = Front(work)
        /\ lowlink' = IF Len(work) = 1 THEN lowlink
                      ELSE [lowlink EXCEPT ![work[Len(work) - 1].node] = Min({@, lowlink[node]})]
  /\ UNCHANGED <<parsed, graph, selfLoops, index, tour, cycles, found>>

-----------------------------------------------------------------------------
(* The findings *)

Walked == graph # <<>> /\ work = <<>> /\ \A p \in Paths : Opened(p)
Searched == {k.members : k \in cycles}
Unsearched == {c \in components : Cardinality(c) >= 2} \ Searched

\* _representative_cycle of a component: a breadth-first walk from its first member.
StartTour ==
  /\ Walked /\ found = Unreported /\ tour = NoTour
  /\ \E c \in Unsearched : tour' = [members |-> c, queue |-> <<<<Min(c)>>>>, next |-> 1]
  /\ UNCHANGED <<parsed, graph, selfLoops, index, lowlink, stack, work, components, cycles, found>>

TourStart == Min(tour.members)
InHand == tour.queue[tour.next]
Exhausted == tour.next > Len(tour.queue)
Closes == Exhausted \/ TourStart \in graph[Last(InHand)]
Reached == {Last(tour.queue[i]) : i \in DOMAIN tour.queue}

\* A node with no import of the first member: the members it imports that have no
\* parent yet join the queue, in path order.
LookAround ==
  /\ tour # NoTour /\ ~Closes
  /\ LET fresh == Sorted((graph[Last(InHand)] \cap tour.members) \ Reached, <)
     IN tour' = [tour EXCEPT !.queue = @ \o [n \in DOMAIN fresh |-> Append(InHand, fresh[n])], !.next = @ + 1]
  /\ UNCHANGED <<parsed, graph, selfLoops, index, lowlink, stack, work, components, cycles, found>>

\* The first node that imports the first member closes the cycle (_path_to); a walk that
\* finds none gives the members in path order.
CloseTour ==
  /\ tour # NoTour /\ Closes
  /\ LET path == IF Exhausted THEN Sorted(tour.members, <) ELSE InHand
     IN cycles' = cycles \cup {[size |-> Cardinality(tour.members), members |-> tour.members,
                                cycle |-> Append(path, TourStart)]}
  /\ tour' = NoTour
  /\ UNCHANGED <<parsed, graph, selfLoops, index, lowlink, stack, work, components, found>>

\* _findings_for_graph: the largest first, then by first member; self loops have size one.
Graver(a, b) == a.size > b.size \/ (a.size = b.size /\ Min(a.members) < Min(b.members))
Loops == {[size |-> 1, members |-> {p}, cycle |-> <<p, p>>] : p \in selfLoops}
Report ==
  /\ Walked /\ found = Unreported /\ tour = NoTour /\ Unsearched = {}
  /\ LET ranked == Sorted(cycles \cup Loops, Graver)
     IN found' = SubSeq(ranked, 1, Min({Limit, Len(ranked)}))
  /\ UNCHANGED <<parsed, graph, selfLoops, index, lowlink, stack, work, components, tour, cycles>>

CyclesNext == BuildGraph \/ Root \/ Seen \/ Descend \/ Finalize \/ StartTour \/ LookAround \/ CloseTour \/ Report

CyclesSpec == CyclesInit /\ [][CyclesNext]_tarjanVars

-----------------------------------------------------------------------------

\* The reference: what a file reaches by any chain of imports, itself included, is in
\* every set that holds it and the imports of its members.
SelfContained == {set \in SUBSET Paths : \A p \in set : graph[p] \subseteq set}
Reaches(p) == {q \in Paths : \A set \in SelfContained : p \in set => q \in set}

\* The components are exact.  A component that Tarjan's loop has closed holds all the
\* files that import each other through any chain of imports and no others, at every
\* step of the walk, and when the walk is over every file is in one; so nothing a
\* finding reports can be split, merged or missed by the order in which the files are
\* visited (_strongly_connected_components).
ComponentsAreExact ==
  /\ \A c \in components : \A p \in c : c = {q \in Reaches(p) : p \in Reaches(q)}
  /\ Walked => UNION components = Paths

\* A reported cycle is one: a closed walk along imports of its members, with no file
\* twice, and as short as any through its first member (_representative_cycle).
Shorter(n, members, start) ==
  {walk \in UNION {[1..k -> members] : k \in 1..n - 1} :
     /\ walk[1] = start /\ start \in graph[walk[Len(walk)]]
     /\ \A j \in 1..Len(walk) - 1 : walk[j + 1] \in graph[walk[j]]}
RealCycle(cycle, members) ==
  LET n == Len(cycle) - 1
  IN /\ cycle[1] = cycle[n + 1] /\ Cardinality({cycle[j] : j \in 1..n}) = n
     /\ \A j \in 1..n : cycle[j] \in members /\ cycle[j + 1] \in graph[cycle[j]]
     /\ Shorter(n, members, cycle[1]) = {}
CyclesAreReal ==
  found # Unreported =>
    \A i \in DOMAIN found : found[i].size > 1 => RealCycle(found[i].cycle, found[i].members)

\* A component is left out only when the limit is reached by findings that are as large.
GravestAreFound ==
  found # Unreported =>
    \A c \in components : Cardinality(c) >= 2 =>
      \/ \E i \in DOMAIN found : found[i].members = c
      \/ Len(found) = Limit /\ \A i \in DOMAIN found : found[i].size >= Cardinality(c)

\* The findings are the cycles of the import graph: their members, their witness and
\* their choice (import_cycles.py).
CyclesAreExact == ComponentsAreExact /\ CyclesAreReal /\ GravestAreFound

=============================================================================
