----------------------------- MODULE Architecture -----------------------------
(* get_architecture: the modules of the overview.  Without a code graph server  *)
(* they are the communities that label propagation finds in the import graph,   *)
(* one file a step, from the directories of the files.                          *)
EXTENDS Integers, Sequences, FiniteSets, FiniteSetsExt, Functions, Ordering

CONSTANTS
  Sources,        \* the Python files, as numbers in path order
  DirectoryOf,    \* file -> its directory, as a number in name order
  ImportPairs,    \* the imports between files that a repository may have
  MaxEdges,       \* how many of them
  MaxPasses,      \* _MAX_LP_ITERATIONS
  ModuleCap, MemberCap

ASSUME ArchitectureAssumption ==
  /\ Sources \subseteq Nat \ {0} /\ IsFiniteSet(Sources) /\ Sources # {}
  /\ \A e \in ImportPairs : e[1] \in Sources /\ e[2] \in Sources /\ e[1] # e[2]
  /\ \A p \in Sources : DirectoryOf[p] \in Nat
  /\ MaxPasses \in Nat \ {0} /\ ModuleCap \in Nat \ {0} /\ MemberCap \in Nat \ {0}

VARIABLES
  edges,      \* the imports that resolve to another file of the repository
  source,     \* what derives the modules: unknown, cbm or heuristic
  labels,     \* file -> the label of its community
  visiting,   \* [pass, next, changed]: the pass, the files visited in it, whether one moved
  modules     \* the answer, the largest first; <<>> before it
archVars == <<edges, source, labels, visiting, modules>>

ArchInit ==
  /\ edges \in {set \in SUBSET ImportPairs : Cardinality(set) <= MaxEdges}
  /\ source = "unknown" /\ labels = [p \in Sources |-> DirectoryOf[p]]
  /\ visiting = [pass |-> 1, next |-> 1, changed |-> FALSE]
  /\ modules = <<>>

\* _import_graph: imports count in both directions.
Adjacent(p) == {q \in Sources : <<p, q>> \in edges \/ <<q, p>> \in edges}
Votes(p, label) == Cardinality({q \in Adjacent(p) : labels[q] = label}) + (IF labels[p] = label THEN 1 ELSE 0)

\* _dominant_label: of the labels of a file and its neighbours the most frequent, and the
\* least of those.
DominantLabel(p) ==
  LET all == Range(labels)
  IN Min({label \in all : \A other \in all : Votes(p, other) <= Votes(p, label)})

Visited == visiting.next > Cardinality(Sources)
Settled == Visited /\ ~visiting.changed
Ended == Settled \/ (Visited /\ visiting.pass = MaxPasses)

-----------------------------------------------------------------------------

\* select_graph_backend: a healthy server of code graphs is preferred.
SelectClusterer(healthy) ==
  /\ source = "unknown"
  /\ source' = IF healthy THEN "cbm" ELSE "heuristic"
  /\ UNCHANGED <<edges, labels, visiting, modules>>

\* Mutant of VisitFile: only the last file of a pass says whether one moved.
VisitFileForgetting ==
  /\ source = "heuristic" /\ ~Visited
  /\ LET p == Sorted(Sources, <)[visiting.next] IN
     /\ labels' = [labels EXCEPT ![p] = DominantLabel(p)]
     /\ visiting' = [visiting EXCEPT !.next = @ + 1, !.changed = DominantLabel(p) # labels[p]]
  /\ UNCHANGED <<edges, source, modules>>

\* One file of a pass of _label_propagation; the next ones see its new label.
VisitFile ==
  /\ source = "heuristic" /\ ~Visited
  /\ LET p == Sorted(Sources, <)[visiting.next] IN
     /\ labels' = [labels EXCEPT ![p] = DominantLabel(p)]
     /\ visiting' = [visiting EXCEPT !.next = @ + 1, !.changed = @ \/ DominantLabel(p) # labels[p]]
  /\ UNCHANGED <<edges, source, modules>>

NextPass ==
  /\ source = "heuristic" /\ Visited /\ ~Ended
  /\ visiting' = [pass |-> visiting.pass + 1, next |-> 1, changed |-> FALSE]
  /\ UNCHANGED <<edges, source, labels, modules>>

MembersOf(label) == {p \in Sources : labels[p] = label}
Leading(seq, n) == SubSeq(seq, 1, IF Len(seq) < n THEN Len(seq) ELSE n)

\* _module_view: the size is the size of the community, the members are capped.
ModuleView(label) ==
  [label |-> label, size |-> Cardinality(MembersOf(label)),
   members |-> Leading(Sorted(MembersOf(label), <), MemberCap),
   linked |-> \E p \in MembersOf(label) : Adjacent(p) \cap MembersOf(label) # {}]

LargerFirst(a, b) == a.size > b.size \/ (a.size = b.size /\ a.label < b.label)

\* _heuristic_modules: the largest first and then by label.
ReportModules ==
  /\ source = "heuristic" /\ modules = <<>> /\ Ended
  /\ modules' = Leading(Sorted({ModuleView(label) : label \in Range(labels)}, LargerFirst), ModuleCap)
  /\ UNCHANGED <<edges, source, labels, visiting>>

\* _cbm_modules: the server's clusters at its confidence.  When the server fails after
\* its health check the clusters are those of the directories, under the same name.
Directories == {{p \in Sources : DirectoryOf[p] = d} : d \in Range(DirectoryOf)}
ReportClusters(works, partition) ==
  /\ source = "cbm" /\ modules = <<>>
  /\ modules' = Leading(Sorted(
                  {[label |-> Min(c), size |-> Cardinality(c), members |-> Leading(Sorted(c, <), MemberCap), linked |-> TRUE] :
                     c \in IF works THEN partition ELSE Directories},
                  LargerFirst), ModuleCap)
  /\ UNCHANGED <<edges, source, labels, visiting>>

ArchNext ==
  \/ VisitFile \/ NextPass \/ ReportModules
  \/ \E healthy \in BOOLEAN : SelectClusterer(healthy)
  \/ \E works \in BOOLEAN, p \in Sources : ReportClusters(works, {{p}, Sources \ {p}} \ {{}})

ArchSpec == ArchInit /\ [][ArchNext]_archVars

-----------------------------------------------------------------------------

\* No file has more neighbours in another module than in its own, itself included.
LabelsDominate == \A p \in Sources, label \in Range(labels) : Votes(p, label) <= Votes(p, labels[p])

\* Each module is a whole community and each community is one module, but for those the
\* cap leaves out, none of which is larger than one that is listed.
CommunitiesOnce ==
  /\ \A k \in DOMAIN modules : modules[k].size = Cardinality(MembersOf(modules[k].label))
  /\ \A k, m \in DOMAIN modules : k # m => modules[k].label # modules[m].label
  /\ \A p \in Sources :
       \/ \E k \in DOMAIN modules : modules[k].label = labels[p]
       \/ /\ Len(modules) = ModuleCap
          /\ \A k \in DOMAIN modules : modules[k].size >= Cardinality(MembersOf(labels[p]))

\* The bound on the passes ended them, in one that moved a file.
CutOff == visiting.pass = MaxPasses /\ visiting.changed

\* Labels are updated in place and the passes are bounded: whatever the imports, and wherever
\* the bound falls, the modules reported are whole communities of the labels reached, once
\* each and the largest; and the label of every file is a dominant one unless every pass was
\* run and the last still moved a file.  That propagation settles before its bound is not
\* said: a relabelling that runs down a chain of imports against the path order moves one
\* file a pass (_label_propagation, _heuristic_modules).
ModulesAreSettled ==
  modules # <<>> /\ source = "heuristic" => CommunitiesOnce /\ (LabelsDominate \/ CutOff)

=============================================================================
