------------------------- MODULE StructuralDuplicates --------------------------
(* The structural near-duplicate rule: the fingerprint of a function forgets    *)
(* its names but not where a name occurs again; functions are grouped by it,    *)
(* one after the other, and each group of two or more is a finding.             *)
EXTENDS Integers, Sequences, FiniteSets, SequencesExt, FiniteSetsExt, Ordering

CONSTANTS
  Trees,         \* the files a repository may hold: sequences of functions in the order of
                 \* the walk, each [line, tokens], a token being [node, name], name "" for a
                 \* node without one that is normalised
  FileCount,     \* Python files, in path order
  MinNodes,      \* MIN_STRUCTURAL_NODES (and MIN_STRUCTURAL_STATEMENTS)
  MaxLocations,  \* MAX_STRUCTURAL_CLUSTER_LOCATIONS
  MaxShown       \* MAX_STRUCTURAL_LOCATION_EVIDENCE

\* Two functions do not start on one line.
ASSUME StructuralDuplicatesAssumption ==
  /\ FileCount \in Nat /\ MinNodes \in Nat
  /\ MaxLocations \in Nat \ {0} /\ MaxShown \in 1..MaxLocations
  /\ \A tree \in Trees :
       /\ tree \in Seq(ToSet(tree))
       /\ \A i \in DOMAIN tree : tree[i].line \in Nat /\ tree[i].tokens \in Seq(ToSet(tree[i].tokens))
       /\ \A i, j \in DOMAIN tree : tree[i].line = tree[j].line => i = j

VARIABLES
  trees,      \* the files
  grouped,    \* how many of them have been grouped
  visited,    \* how many functions of the next one
  counts,     \* fingerprint -> members
  locations,  \* fingerprint -> the first of them, as [file, line]
  duplicates  \* the findings: fingerprint -> [count, shown, hidden]
dupVars == <<trees, grouped, visited, counts, locations, duplicates>>

DupInit ==
  /\ trees \in [1..FileCount -> Trees]
  /\ grouped = 0 /\ visited = 0 /\ counts = <<>> /\ locations = <<>> /\ duplicates = <<>>

HasName(token) == token.name # ""

\* The places where a name occurs first, and the one of the name at i.
FirstPlaces(tokens) ==
  {j \in 1..Len(tokens) : HasName(tokens[j]) /\ \A k \in 1..j - 1 : tokens[k].name # tokens[j].name}
FirstPlace(tokens, i) == CHOOSE j \in FirstPlaces(tokens) : tokens[j].name = tokens[i].name

\* The number of the name at i among the names, by first occurrence.
Number(tokens, i) == Cardinality({j \in FirstPlaces(tokens) : j < FirstPlace(tokens, i)})

\* Mutant of Fingerprint: every name has the same token.
FingerprintWithoutNames(tokens) == [i \in DOMAIN tokens |-> <<tokens[i].node, 0>>]

\* _render and _NameNormalizer: a name is the number of its first occurrence.
Fingerprint(tokens) ==
  [i \in DOMAIN tokens |-> <<tokens[i].node, IF HasName(tokens[i]) THEN Number(tokens, i) + 1 ELSE 0>>]

\* structural_fingerprint: small functions have none.
Fingerprinted(function) == Len(function.tokens) >= MinNodes

With(f, key, value) == [k \in DOMAIN f \cup {key} |-> IF k = key THEN value ELSE f[k]]

\* group_structural_duplicates: one function; the locations stop at the cap.
GroupFunction ==
  /\ grouped < FileCount /\ visited < Len(trees[grouped + 1])
  /\ LET function == trees[grouped + 1][visited + 1]
         key == Fingerprint(function.tokens)
         old == IF key \in DOMAIN locations THEN locations[key] ELSE <<>>
         here == [file |-> grouped + 1, line |-> function.line]
     IN  IF Fingerprinted(function)
         THEN /\ counts' = With(counts, key, (IF key \in DOMAIN counts THEN counts[key] ELSE 0) + 1)
              /\ locations' = With(locations, key, IF Len(old) < MaxLocations THEN Append(old, here) ELSE old)
         ELSE UNCHANGED <<counts, locations>>
  /\ visited' = visited + 1
  /\ UNCHANGED <<trees, grouped, duplicates>>

NextFile ==
  /\ grouped < FileCount /\ visited = Len(trees[grouped + 1])
  /\ grouped' = grouped + 1 /\ visited' = 0
  /\ UNCHANGED <<trees, counts, locations, duplicates>>

EarlierLine(a, b) == a.file < b.file \/ (a.file = b.file /\ a.line < b.line)

\* _cluster_finding and _locations_evidence: the first locations of those that were kept.
Evidence(key) ==
  LET sorted == Sorted(ToSet(locations[key]), EarlierLine)
      shown == SubSeq(sorted, 1, Min({MaxShown, Len(sorted)}))
  IN [count |-> counts[key], shown |-> shown, hidden |-> counts[key] - Len(shown)]

ReportDuplicates ==
  /\ grouped = FileCount /\ duplicates = <<>>
  /\ duplicates' = [key \in {k \in DOMAIN counts : counts[k] >= 2} |-> Evidence(key)]
  /\ UNCHANGED <<trees, grouped, visited, counts, locations>>

DupNext == GroupFunction \/ NextFile \/ ReportDuplicates

DupSpec == DupInit /\ [][DupNext]_dupVars

-----------------------------------------------------------------------------

\* The reference: one function is the other with its names replaced one for one.
Alike(a, b) ==
  /\ Len(a) = Len(b)
  /\ \A i \in DOMAIN a : a[i].node = b[i].node /\ (HasName(a[i]) <=> HasName(b[i]))
  /\ \A i, j \in DOMAIN a : a[i].name = a[j].name <=> b[i].name = b[j].name

TokensAt(s) == trees[s[1]][s[2]].tokens
\* The functions that are large enough, as [file, place] pairs, and those met so far.
LargeFunctions == UNION {{<<f, i>> : i \in {n \in DOMAIN trees[f] : Fingerprinted(trees[f][n])}} : f \in 1..FileCount}
Met == {s \in LargeFunctions : s[1] <= grouped \/ (s[1] = grouped + 1 /\ s[2] <= visited)}

\* Two functions are in one group exactly when renaming makes them equal, in whatever
\* files and order they come (structural_fingerprint, group_structural_duplicates): the
\* numbers by first occurrence neither separate renamed copies nor join functions that use
\* their names differently.
DuplicatesAreRenamings ==
  \A s \in Met : counts[Fingerprint(TokensAt(s))] = Cardinality({t \in Met : Alike(TokensAt(s), TokensAt(t))})

\* A finding stands for all functions of its group, two at least.  It shows as many of them
\* as it may, and what it shows and what it says it hides are its members, each once: the
\* cap on the kept locations does not show in either (_locations_evidence).
EvidenceIsComplete ==
  \A key \in DOMAIN duplicates :
    LET d == duplicates[key]
        members == {s \in LargeFunctions : Fingerprint(TokensAt(s)) = key}
    IN  /\ d.count = Cardinality(members) /\ d.count >= 2
        /\ Cardinality(ToSet(d.shown)) = Min({MaxShown, d.count})
        /\ Cardinality(ToSet(d.shown)) + d.hidden = d.count
        /\ ToSet(d.shown) \subseteq {[file |-> s[1], line |-> trees[s[1]][s[2]].line] : s \in members}

\* The groups are right and their evidence is complete (structural_duplicates.py).
DuplicatesAreExact == DuplicatesAreRenamings /\ EvidenceIsComplete

=============================================================================
