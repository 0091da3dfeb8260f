-------------------------- MODULE Retrieval_proofs --------------------------
(* Proofs about what the read side returns: answer packs, the pages of the     *)
(* graph tools, and searches.                                                  *)
EXTENDS ContextPack, CodeGraph, Search, Ordering_proofs

-----------------------------------------------------------------------------
(* Trimming: fit_budget drops the last item of one list after another *)

SectionNames == {"related", "findings", "tests", "symbols", "files"}
Items == PackFiles \cup FindingId \cup STRING
Lists == [SectionNames -> Seq(Items)]

LEMMA SectionsAre ==
  /\ DOMAIN Sections = 1..5
  /\ Sections[1] = "related" /\ Sections[2] = "findings" /\ Sections[3] = "tests"
  /\ Sections[4] = "symbols" /\ Sections[5] = "files"
  /\ \A i \in 1..5 : Sections[i] \in SectionNames
  /\ \A l \in SectionNames : \E i \in 1..5 : l = Sections[i]
  /\ \A i, j \in 1..5 : Sections[i] = Sections[j] => i = j
BY DEF Sections, SectionNames

\* One list after another is emptied, from its end.
LEMMA DropsOne ==
  ASSUME NEW p \in Lists, NEW query \in PackQuery, Size(p) # 0
  PROVE  /\ \E i \in 1..5 : /\ p[Sections[i]] # <<>> /\ \A j \in 1..i - 1 : p[Sections[j]] = <<>>
                            /\ DropLast(p) = [p EXCEPT ![Sections[i]] = Front(@)]
         /\ DropLast(p) \in Lists
         /\ Size(DropLast(p)) = Size(p) - 1
         /\ Tokens(query, DropLast(p)) >= Tokens(query, p) - 2
<1> DEFINE full == {i \in DOMAIN Sections : p[Sections[i]] # <<>>}
           first == Min(full)
           kept == Front(p[Sections[first]])
           q == [p EXCEPT ![Sections[first]] = kept]
<1>1. /\ p.related \in Seq(Items) /\ p.findings \in Seq(Items) /\ p.tests \in Seq(Items)
      /\ p.symbols \in Seq(Items) /\ p.files \in Seq(Items)
  BY DEF Lists, SectionNames
<1>2. full # {} /\ full \in SUBSET (1..5)
  <2>1. ASSUME full = {} PROVE FALSE
    <3>1. p[Sections[1]] = <<>> /\ p[Sections[2]] = <<>> /\ p[Sections[3]] = <<>>
          /\ p[Sections[4]] = <<>> /\ p[Sections[5]] = <<>>
      BY <2>1, SectionsAre
    <3>2. p.related = <<>> /\ p.findings = <<>> /\ p.tests = <<>> /\ p.symbols = <<>> /\ p.files = <<>>
      BY <3>1, SectionsAre
    <3>3. Size(p) = 0
      BY <3>2 DEF Size
    <3> QED BY <3>3
  <2> QED BY <2>1, SectionsAre
<1>3. IsFiniteSet(full)
  <2>1. IsFiniteSet(1..5)
    BY FS_Interval, 1 \in Int, 5 \in Int
  <2> HIDE DEF full
  <2> QED BY <1>2, <2>1, FS_Subset
<1>4. first \in full /\ \A i \in full : first <= i
  <2> HIDE DEF full
  <2> QED BY <1>2, <1>3, MinOfFinite
<1>5. DropLast(p) = q
  BY <1>2 DEF DropLast
<1>6. first \in 1..5 /\ p[Sections[first]] # <<>> /\ \A j \in 1..first - 1 : p[Sections[j]] = <<>>
  <2>1. first \in 1..5 /\ p[Sections[first]] # <<>>
    BY <1>2, <1>4
  <2> HIDE DEF first
  <2>2. ASSUME NEW j \in 1..first - 1 PROVE p[Sections[j]] = <<>>
    <3>1. j \in 1..5 /\ ~(first <= j)
      BY <2>1
    <3> QED BY <1>4, <3>1, SectionsAre
  <2> QED BY <2>1, <2>2
<1> HIDE DEF full, first
<1>7. p[Sections[first]] \in Seq(Items)
  BY <1>6, SectionsAre DEF Lists
<1>8. kept \in Seq(Items) /\ Len(kept) = Len(p[Sections[first]]) - 1
  BY <1>6, <1>7 DEF Front
<1> HIDE DEF kept
<1>9. q \in Lists
  BY <1>8 DEF Lists
<1>10. \A l \in SectionNames : q[l] = IF l = Sections[first] THEN kept ELSE p[l]
  BY DEF Lists
<1>11. Sections[first] \in SectionNames
  BY <1>6, SectionsAre
<1> HIDE DEF q
<1>12. \A l \in SectionNames : q[l] = p[l] \/ (l = Sections[first] /\ Len(q[l]) = Len(p[l]) - 1)
  BY <1>8, <1>10
<1>13. \A l \in SectionNames : l # Sections[first] => q[l] = p[l]
  BY <1>10
<1>14. Len(q[Sections[first]]) = Len(p[Sections[first]]) - 1
  BY <1>8, <1>10, <1>11
<1>17. \A s \in Seq(Items) : Len(s) \in Nat
  OBVIOUS
<1>15. /\ Len(p.related) \in Nat /\ Len(p.findings) \in Nat /\ Len(p.tests) \in Nat
       /\ Len(p.symbols) \in Nat /\ Len(p.files) \in Nat /\ Cost[query] \in Nat
  BY ONLY <1>1, <1>17, PackAssumption, query \in PackQuery
<1>18. /\ q.related \in Seq(Items) /\ q.findings \in Seq(Items) /\ q.tests \in Seq(Items)
       /\ q.symbols \in Seq(Items) /\ q.files \in Seq(Items)
  BY <1>9 DEF Lists, SectionNames
<1>19. /\ Len(q.related) \in Nat /\ Len(q.findings) \in Nat /\ Len(q.tests) \in Nat
       /\ Len(q.symbols) \in Nat /\ Len(q.files) \in Nat
  BY ONLY <1>18, <1>17
<1> DEFINE a1 == Len(p.related)  a2 == Len(p.findings)  a3 == Len(p.tests)  a4 == Len(p.symbols)  a5 == Len(p.files)
           b1 == Len(q.related)  b2 == Len(q.findings)  b3 == Len(q.tests)  b4 == Len(q.symbols)  b5 == Len(q.files)
           c == Cost[query]
<1>21. Size(p) = a1 + a2 + a3 + a4 + a5 /\ Size(q) = b1 + b2 + b3 + b4 + b5
  BY DEF Size
<1>22. /\ Tokens(query, p) = c + a5 + 2 * a4 + a3 + 2 * a2 + a1
       /\ Tokens(query, q) = c + b5 + 2 * b4 + b3 + 2 * b2 + b1
  BY DEF Tokens
<1>20. \/ b1 = a1 - 1 /\ b2 = a2 /\ b3 = a3 /\ b4 = a4 /\ b5 = a5
       \/ b1 = a1 /\ b2 = a2 - 1 /\ b3 = a3 /\ b4 = a4 /\ b5 = a5
       \/ b1 = a1 /\ b2 = a2 /\ b3 = a3 - 1 /\ b4 = a4 /\ b5 = a5
       \/ b1 = a1 /\ b2 = a2 /\ b3 = a3 /\ b4 = a4 - 1 /\ b5 = a5
       \/ b1 = a1 /\ b2 = a2 /\ b3 = a3 /\ b4 = a4 /\ b5 = a5 - 1
  <2>1. CASE first = 1
    BY <2>1, <1>13, <1>14, SectionsAre DEF SectionNames
  <2>2. CASE first = 2
    BY <2>2, <1>13, <1>14, SectionsAre DEF SectionNames
  <2>3. CASE first = 3
    BY <2>3, <1>13, <1>14, SectionsAre DEF SectionNames
  <2>4. CASE first = 4
    BY <2>4, <1>13, <1>14, SectionsAre DEF SectionNames
  <2>5. CASE first = 5
    BY <2>5, <1>13, <1>14, SectionsAre DEF SectionNames
  <2> QED BY <1>6, <2>1, <2>2, <2>3, <2>4, <2>5
<1>23. /\ a1 \in Nat /\ a2 \in Nat /\ a3 \in Nat /\ a4 \in Nat /\ a5 \in Nat /\ c \in Nat
       /\ b1 \in Nat /\ b2 \in Nat /\ b3 \in Nat /\ b4 \in Nat /\ b5 \in Nat
  BY <1>15, <1>19
<1> HIDE DEF a1, a2, a3, a4, a5, b1, b2, b3, b4, b5, c
<1>16. Size(q) = Size(p) - 1 /\ Tokens(query, q) >= Tokens(query, p) - 2
  <2>1. Size(q) = Size(p) - 1
    BY ONLY <1>20, <1>21, <1>23
  <2>2. Tokens(query, q) >= Tokens(query, p) - 2
    BY ONLY <1>20, <1>22, <1>23
  <2> QED BY <2>1, <2>2
<1> QED BY <1>5, <1>6, <1>9, <1>16 DEF q, kept

Starts(s, t) == Len(s) <= Len(t) /\ \A n \in 1..Len(s) : s[n] = t[n]

LEMMA StartsIsPrefix ==
  ASSUME NEW S, NEW s \in Seq(S), NEW t \in Seq(S), Starts(s, t)
  PROVE  IsPrefix(s, t)
<1>1. SubSeq(s, 1, Len(s)) = SubSeq(t, 1, Len(s))
  <2>1. Len(s) \in Nat /\ Len(t) \in Nat /\ Len(s) <= Len(t)
    BY DEF Starts
  <2>2. SubSeq(s, 1, Len(s)) = [n \in 1..Len(s) |-> s[n]]
    BY <2>1
  <2>3. SubSeq(t, 1, Len(s)) = [n \in 1..Len(s) |-> t[n]]
    BY <2>1
  <2>4. [n \in 1..Len(s) |-> s[n]] = [n \in 1..Len(s) |-> t[n]]
    BY DEF Starts
  <2> QED BY <2>2, <2>3, <2>4
<1> QED BY <1>1 DEF IsPrefix, Starts

LEMMA NothingLeft ==
  ASSUME NEW p \in Lists, Size(p) = 0
  PROVE  DropLast(p) = p
<1>1. /\ p.related \in Seq(Items) /\ p.findings \in Seq(Items) /\ p.tests \in Seq(Items)
      /\ p.symbols \in Seq(Items) /\ p.files \in Seq(Items)
  BY DEF Lists, SectionNames
<1>2. \A s \in Seq(Items) : Len(s) \in Nat /\ (Len(s) = 0 => s = <<>>)
  OBVIOUS
<1> DEFINE a1 == Len(p.related)  a2 == Len(p.findings)  a3 == Len(p.tests)  a4 == Len(p.symbols)  a5 == Len(p.files)
<1>3. a1 = 0 /\ a2 = 0 /\ a3 = 0 /\ a4 = 0 /\ a5 = 0
  <2>1. a1 \in Nat /\ a2 \in Nat /\ a3 \in Nat /\ a4 \in Nat /\ a5 \in Nat
    BY <1>1, <1>2
  <2>2. a1 + a2 + a3 + a4 + a5 = 0
    BY DEF Size
  <2> HIDE DEF a1, a2, a3, a4, a5
  <2> QED BY <2>1, <2>2
<1>4. p.related = <<>> /\ p.findings = <<>> /\ p.tests = <<>> /\ p.symbols = <<>> /\ p.files = <<>>
  BY <1>1, <1>2, <1>3
<1>5. \A i \in 1..5 : p[Sections[i]] = <<>>
  BY <1>4, SectionsAre DEF Sections
<1>6. {i \in DOMAIN Sections : p[Sections[i]] # <<>>} = {}
  BY <1>5, SectionsAre
<1> QED BY <1>6 DEF DropLast

LEMMA SizeTyped ==
  ASSUME NEW p \in Lists
  PROVE  Size(p) \in Nat
<1>1. /\ p.related \in Seq(Items) /\ p.findings \in Seq(Items) /\ p.tests \in Seq(Items)
      /\ p.symbols \in Seq(Items) /\ p.files \in Seq(Items)
  BY DEF Lists, SectionNames
<1> DEFINE a1 == Len(p.related)  a2 == Len(p.findings)  a3 == Len(p.tests)  a4 == Len(p.symbols)  a5 == Len(p.files)
<1>2. a1 \in Nat /\ a2 \in Nat /\ a3 \in Nat /\ a4 \in Nat /\ a5 \in Nat
  BY <1>1
<1>3. Size(p) = a1 + a2 + a3 + a4 + a5
  BY DEF Size
<1> HIDE DEF a1, a2, a3, a4, a5
<1> QED BY <1>2, <1>3

LEMMA TokensTyped ==
  ASSUME NEW p \in Lists, NEW query \in PackQuery
  PROVE  Tokens(query, p) \in Nat
<1>1. /\ p.related \in Seq(Items) /\ p.findings \in Seq(Items) /\ p.tests \in Seq(Items)
      /\ p.symbols \in Seq(Items) /\ p.files \in Seq(Items)
  BY DEF Lists, SectionNames
<1> DEFINE a1 == Len(p.related)  a2 == Len(p.findings)  a3 == Len(p.tests)  a4 == Len(p.symbols)  a5 == Len(p.files)  c == Cost[query]
<1>2. a1 \in Nat /\ a2 \in Nat /\ a3 \in Nat /\ a4 \in Nat /\ a5 \in Nat
  BY <1>1
<1>3. c \in Nat
  BY PackAssumption
<1>4. Tokens(query, p) = c + a5 + 2 * a4 + a3 + 2 * a2 + a1
  BY DEF Tokens
<1> HIDE DEF a1, a2, a3, a4, a5, c
<1> QED BY <1>2, <1>3, <1>4

\* What is left of the lists p after some of their last items have been dropped: a prefix of
\* each, and nothing of the lists before one that lost an item.
LeftOf(r, p) ==
  /\ r \in Lists
  /\ \A l \in SectionNames : Starts(r[l], p[l])
  /\ \A i \in 1..5 : r[Sections[i]] # p[Sections[i]] => \A j \in 1..i - 1 : r[Sections[j]] = <<>>

LEMMA DroppedIsLeft ==
  ASSUME NEW p \in Lists, NEW r, LeftOf(r, p), Size(r) # 0, NEW query \in PackQuery
  PROVE  LeftOf(DropLast(r), p)
<1>1. r \in Lists
  BY DEF LeftOf
<1> DEFINE q == DropLast(r)
<1>2. PICK i \in 1..5 : /\ r[Sections[i]] # <<>> /\ \A j \in 1..i - 1 : r[Sections[j]] = <<>>
                        /\ q = [r EXCEPT ![Sections[i]] = Front(@)]
  BY <1>1, DropsOne
<1>3. q \in Lists
  BY <1>1, DropsOne
<1>4. \A l \in SectionNames : q[l] = IF l = Sections[i] THEN Front(r[l]) ELSE r[l]
  BY <1>1, <1>2 DEF Lists
<1> HIDE DEF q
<1>5. ASSUME NEW l \in SectionNames PROVE Starts(q[l], p[l])
  <2>1. Starts(r[l], p[l])
    BY DEF LeftOf
  <2>2. r[l] \in Seq(Items) /\ p[l] \in Seq(Items)
    BY <1>1 DEF Lists
  <2>3. CASE l = Sections[i]
    <3>1. r[l] # <<>> /\ q[l] = Front(r[l])
      BY <1>2, <1>4, <2>3
    <3>2. Len(q[l]) = Len(r[l]) - 1 /\ \A n \in 1..Len(q[l]) : q[l][n] = r[l][n]
      BY <2>2, <3>1 DEF Front
    <3>3. Len(r[l]) \in Nat /\ Len(p[l]) \in Nat
      BY <2>2
    <3> QED BY <2>1, <3>2, <3>3 DEF Starts
  <2> QED BY <1>4, <2>1, <2>3
<1>6. ASSUME NEW m \in 1..5, q[Sections[m]] # p[Sections[m]], NEW j \in 1..m - 1
      PROVE  q[Sections[j]] = <<>>
  <2>1. j \in 1..5 /\ j # m /\ Sections[j] \in SectionNames /\ Sections[m] \in SectionNames
    BY SectionsAre
  <2>2. CASE m = i
    <3>1. q[Sections[j]] = r[Sections[j]]
      BY <1>4, <2>1, <2>2, SectionsAre
    <3> QED BY <1>2, <2>2, <3>1
  <2>3. CASE m # i
    <3>1. q[Sections[m]] = r[Sections[m]]
      BY <1>4, <2>1, <2>3, SectionsAre
    <3>2. r[Sections[j]] = <<>>
      BY <1>6, <3>1 DEF LeftOf
    <3>3. j # i
      BY <1>2, <3>2
    <3>4. q[Sections[j]] = r[Sections[j]]
      BY <1>4, <2>1, <3>3, SectionsAre
    <3> QED BY <3>2, <3>4
  <2> QED BY <2>2, <2>3
<1>7. LeftOf(q, p)
  BY <1>3, <1>5, <1>6 DEF LeftOf
<1> QED BY <1>7 DEF q

\* fit_budget: what it keeps is left of the lists it is given, fits or is nothing, and one item
\* more would not have fitted.
LEMMA FitBudgetKeeps ==
  ASSUME NEW p \in Lists, NEW query \in PackQuery, NEW budget \in Int, Tokens(query, p) > budget
  PROVE  LET k == FitBudget(query, p, budget) IN
         /\ LeftOf(k, p)
         /\ Tokens(query, k) <= budget \/ Size(k) = 0
         /\ Size(p) > Size(k) \/ Tokens(query, k) > budget
         /\ Tokens(query, k) + 2 > budget
<1> DEFINE z == Size(p)
           Run(t) == t = [n \in 0..z |-> IF n = 0 THEN p ELSE DropLast(t[n - 1])]
           trimmed == CHOOSE t : Run(t)
           fits == {n \in 0..z : Tokens(query, trimmed[n]) <= budget}
           last == IF fits = {} THEN z ELSE Min(fits)
<1>1. z \in Nat
  BY SizeTyped
<1>2. FitBudget(query, p, budget) = trimmed[last]
  BY DEF FitBudget
<1> HIDE DEF z
<1>3. \E t : Run(t)
  <2> DEFINE step == [r \in Lists |-> DropLast(r)]
  <2>1. \A r \in Lists : DropLast(r) \in Lists
    BY DropsOne, NothingLeft
  <2>2. step \in [Lists -> Lists]
    BY <2>1
  <2> HIDE DEF step
  <2>9. \E f \in [0..z -> Lists] : Iterates(f, step, p, z)
    BY <1>1, <2>2, IterationExists
  <2>3. PICK f \in [0..z -> Lists] : f[0] = p /\ \A n \in 1..z : f[n] = step[f[n - 1]]
    BY <2>9 DEF Iterates
  <2>4. \A n \in 1..z : f[n - 1] \in Lists
    BY <1>1, <2>3
  <2>5. \A n \in 1..z : f[n] = DropLast(f[n - 1])
    BY <2>3, <2>4 DEF step
  <2>6. \A n \in 0..z : f[n] = IF n = 0 THEN p ELSE DropLast(f[n - 1])
    BY <1>1, <2>3, <2>5
  <2>7. f = [n \in 0..z |-> f[n]]
    OBVIOUS
  <2>8. f = [n \in 0..z |-> IF n = 0 THEN p ELSE DropLast(f[n - 1])]
    BY <2>6, <2>7
  <2> QED BY <2>8
<1>4. Run(trimmed)
  <2> HIDE DEF Run
  <2> QED BY <1>3
<1> HIDE DEF trimmed
<1>5. trimmed[0] = p /\ \A n \in 1..z : trimmed[n] = DropLast(trimmed[n - 1])
  <2>1. \A n \in 0..z : trimmed[n] = IF n = 0 THEN p ELSE DropLast(trimmed[n - 1])
    BY <1>4
  <2> QED BY <1>1, <2>1
<1> HIDE DEF Run
<1>6. \A n \in 0..z : LeftOf(trimmed[n], p) /\ Size(trimmed[n]) = z - n
  <2> DEFINE Good(n) == LeftOf(trimmed[n], p) /\ Size(trimmed[n]) = z - n
             S == {n \in Nat : n <= z => Good(n)}
  <2>1. Good(0)
    <3>1. LeftOf(p, p)
      <4>1. \A l \in SectionNames : p[l] \in Seq(Items)
        BY DEF Lists
      <4>2. \A l \in SectionNames : Starts(p[l], p[l])
        BY <4>1 DEF Starts
      <4> QED BY <4>2 DEF LeftOf
    <3> QED BY <1>1, <1>5, <3>1 DEF z
  <2>2. ASSUME NEW n \in Nat, n + 1 <= z, Good(n) PROVE Good(n + 1)
    <3>1. n + 1 \in 1..z /\ (n + 1) - 1 = n
      BY <1>1, <2>2
    <3>2. trimmed[n + 1] = DropLast(trimmed[n])
      BY <1>5, <3>1
    <3>3. Size(trimmed[n]) = z - n /\ Size(trimmed[n]) # 0
      BY <1>1, <2>2
    <3>4. LeftOf(trimmed[n + 1], p)
      BY <2>2, <3>2, <3>3, DroppedIsLeft
    <3>5. trimmed[n] \in Lists
      BY <2>2 DEF LeftOf
    <3>6. Size(trimmed[n + 1]) = Size(trimmed[n]) - 1
      BY <3>2, <3>3, <3>5, DropsOne
    <3>7. Size(trimmed[n + 1]) = z - (n + 1)
      BY <1>1, <3>3, <3>6
    <3> QED BY <3>4, <3>7
  <2> HIDE DEF Good
  <2>3. 0 \in S /\ \A n \in Nat : n \in S => n + 1 \in S
    BY <1>1, <2>1, <2>2
  <2>4. Nat \subseteq S
    <3> HIDE DEF S
    <3> QED BY <2>3, NatSetInduction
  <2>5. \A n \in 0..z : Good(n)
    BY <1>1, <2>4
  <2> QED BY <2>5 DEF Good
<1>7. \A n \in 0..z : Tokens(query, trimmed[n]) \in Nat
  BY <1>6, TokensTyped DEF LeftOf
<1>8. \A n \in 1..z : Tokens(query, trimmed[n]) >= Tokens(query, trimmed[n - 1]) - 2
  <2> TAKE n \in 1..z
  <2>1. n - 1 \in 0..z
    BY <1>1
  <2>2. trimmed[n - 1] \in Lists /\ Size(trimmed[n - 1]) # 0
    BY <1>1, <1>6, <2>1 DEF LeftOf
  <2> QED BY <1>5, <2>2, DropsOne
<1>9. CASE fits = {}
  <2>1. last = z /\ Tokens(query, trimmed[z]) > budget
    BY <1>1, <1>7, <1>9
  <2>2. LeftOf(trimmed[z], p) /\ Size(trimmed[z]) = 0
    BY <1>1, <1>6
  <2>3. Tokens(query, trimmed[z]) \in Nat
    BY <1>1, <1>7
  <2> HIDE DEF last
  <2> QED BY <1>2, <2>1, <2>2, <2>3
<1>10. CASE fits # {}
  <2>1. fits \in SUBSET Int /\ IsFiniteSet(fits)
    <3>1. IsFiniteSet(0..z)
      BY <1>1, FS_Interval, 0 \in Int, z \in Int
    <3>2. fits \subseteq 0..z
      OBVIOUS
    <3> HIDE DEF fits
    <3>3. IsFiniteSet(fits)
      BY <3>1, <3>2, FS_Subset
    <3> QED BY <1>1, <3>2, <3>3
  <2>2. last \in fits /\ \A n \in fits : last <= n
    <3> HIDE DEF fits
    <3> QED BY <1>10, <2>1, MinOfFinite
  <2>3. last \in 0..z /\ Tokens(query, trimmed[last]) <= budget
    BY <2>2
  <2>4. last # 0
    BY <1>5, <1>7, <2>3
  <2>5. last \in 1..z /\ last - 1 \in 0..z /\ ~(last <= last - 1)
    BY <1>1, <2>3, <2>4
  <2>6. last - 1 \notin fits
    BY <2>2, <2>5
  <2>7. ~(Tokens(query, trimmed[last - 1]) <= budget)
    BY <2>5, <2>6
  <2> HIDE DEF last, fits
  <2>8. Tokens(query, trimmed[last]) + 2 > budget
    BY <1>7, <1>8, <2>3, <2>5, <2>7
  <2>9. LeftOf(trimmed[last], p) /\ z > Size(trimmed[last])
    BY <1>1, <1>6, <2>5
  <2> QED BY <1>2, <2>3, <2>8, <2>9 DEF z
<1> QED BY <1>9, <1>10

-----------------------------------------------------------------------------
(* Gathering: what the calls put into the lists *)

LEMMA MinInRange ==
  ASSUME NEW a \in Nat, NEW n \in Nat
  PROVE  Min({a, n}) \in 0..n
<1>1. Min({a, n}) = IF a <= n THEN a ELSE n
  BY MaxMinOfTwo
<1> QED BY <1>1

\* dedupe_cap keeps items of the list it is given, and a comprehension those that pass its test.
LEMMA DedupeCapTyped ==
  ASSUME NEW T, NEW items \in Seq(T), NEW limit \in Nat
  PROVE  DedupeCap(items, limit) \in Seq(T)
<1> DEFINE places == {n \in DOMAIN items : \A k \in 1..n - 1 : items[k] # items[n]}
           once == AtPlaces(items, places)
<1>1. once \in Seq(T)
  <2>1. places \in SUBSET DOMAIN items
    OBVIOUS
  <2> HIDE DEF places
  <2> QED BY <2>1, AtPlacesTyped
<1>2. DedupeCap(items, limit) = SubSeq(once, 1, Min({limit, Len(once)}))
  BY DEF DedupeCap
<1> HIDE DEF once
<1>3. Len(once) \in Nat
  BY <1>1
<1>4. Min({limit, Len(once)}) \in 0..Len(once)
  BY <1>3, MinInRange
<1>5. \A m \in 0..Len(once) : SubSeq(once, 1, m) \in Seq(T)
  BY <1>1, <1>3
<1> QED BY <1>2, <1>4, <1>5

LEMMA InTyped ==
  ASSUME NEW T, NEW items \in Seq(T), NEW set
  PROVE  In(items, set) \in Seq(T) /\ NotIn(items, set) \in Seq(T)
<1>1. AtPlaces(items, {n \in DOMAIN items : items[n] \in set}) \in Seq(T)
  <2> DEFINE places == {n \in DOMAIN items : items[n] \in set}
  <2>1. places \in SUBSET DOMAIN items
    OBVIOUS
  <2> HIDE DEF places
  <2>2. AtPlaces(items, places) \in Seq(T)
    BY <2>1, AtPlacesTyped
  <2> QED BY <2>2 DEF places
<1>2. AtPlaces(items, {n \in DOMAIN items : items[n] \notin set}) \in Seq(T)
  <2> DEFINE places == {n \in DOMAIN items : items[n] \notin set}
  <2>1. places \in SUBSET DOMAIN items
    OBVIOUS
  <2> HIDE DEF places
  <2>2. AtPlaces(items, places) \in Seq(T)
    BY <2>1, AtPlacesTyped
  <2> QED BY <2>2 DEF places
<1> QED BY <1>1, <1>2 DEF In, NotIn, Kept

LEMMA TakeTyped ==
  ASSUME NEW T, NEW s \in Seq(T), NEW limit \in Nat
  PROVE  SubSeq(s, 1, Min({limit, Len(s)})) \in Seq(T)
<1>1. Len(s) \in Nat
  OBVIOUS
<1>2. Min({limit, Len(s)}) \in 0..Len(s)
  BY <1>1, MinInRange
<1>3. \A m \in 0..Len(s) : SubSeq(s, 1, m) \in Seq(T)
  BY <1>1
<1> QED BY <1>2, <1>3

LEMMA CapsAre ==
  /\ FileCap \in Nat /\ SymbolCap \in Nat /\ TestCap \in Nat /\ FindingCap \in Nat
  /\ RelatedCap \in Nat /\ SeedLimit \in Nat
BY PackAssumption

LEMMA QuerySeedsTyped ==
  ASSUME NEW query \in PackQuery, NEW cap \in Nat
  PROVE  QuerySeeds(query, cap) \in Seq(PackFiles)
<1> DEFINE a == SubSeq(FileHits[query], 1, Min({SeedLimit, Len(FileHits[query])}))
           b == SubSeq(LineHits[query], 1, Min({SeedLimit, Len(LineHits[query])}))
<1>1. FileHits[query] \in Seq(PackFiles) /\ LineHits[query] \in Seq(PackFiles)
  BY PackAssumption
<1>2. a \in Seq(PackFiles) /\ b \in Seq(PackFiles)
  BY <1>1, CapsAre, TakeTyped
<1>3. QuerySeeds(query, cap) = DedupeCap(a \o b, cap)
  BY DEF QuerySeeds
<1> HIDE DEF a, b
<1>4. a \o b \in Seq(PackFiles)
  BY <1>2
<1> QED BY <1>3, <1>4, DedupeCapTyped

FoundSymbol == [name : STRING, path : PackFiles]

LEMMA FoundSymbolsTyped ==
  ASSUME NEW query \in PackQuery, NEW limit \in Nat
  PROVE  FoundSymbols(query, limit) \in Seq(FoundSymbol)
<1> DEFINE hits == SymbolHits[query]
           places == {n \in DOMAIN hits : hits[n].path \in indexed}
           live == AtPlaces(hits, places)
<1>1. hits \in Seq(FoundSymbol)
  BY PackAssumption DEF FoundSymbol
<1>2. places \in SUBSET DOMAIN hits
  OBVIOUS
<1>3. FoundSymbols(query, limit) = SubSeq(live, 1, Min({limit, Len(live)}))
  BY DEF FoundSymbols, Kept
<1> HIDE DEF hits, places
<1>4. live \in Seq(FoundSymbol)
  BY <1>1, <1>2, AtPlacesTyped
<1> HIDE DEF live
<1> QED BY <1>3, <1>4, TakeTyped

LEMMA NamesTyped ==
  ASSUME NEW symbols \in Seq(FoundSymbol)
  PROVE  /\ Names(symbols) \in Seq(STRING)
         /\ [i \in DOMAIN symbols |-> symbols[i].path] \in Seq(PackFiles)
<1>1. Len(symbols) \in Nat /\ DOMAIN symbols = 1..Len(symbols)
  OBVIOUS
<1>2. \A i \in 1..Len(symbols) : symbols[i].name \in STRING /\ symbols[i].path \in PackFiles
  <2>1. \A i \in 1..Len(symbols) : symbols[i] \in FoundSymbol
    OBVIOUS
  <2> QED BY <2>1 DEF FoundSymbol
<1>3. Names(symbols) \in [1..Len(symbols) -> STRING]
  BY <1>1, <1>2 DEF Names
<1>4. [i \in DOMAIN symbols |-> symbols[i].path] \in [1..Len(symbols) -> PackFiles]
  BY <1>1, <1>2
<1> QED BY <1>1, <1>3, <1>4

\* in_scope_findings returns findings of the files it is asked about.
LEMMA ScopeIsInScope ==
  ASSUME NEW files
  PROVE  /\ Scope(files) \in Seq(FindingId)
         /\ \A f \in ToSet(Scope(files)) : FindingPath[f] \in files
<1> DEFINE ids == {f \in FindingId : FindingPath[f] \in files /\ f \in actionable}
           R == Pairs(ids, <)
           order == Ranked(ids, R)
<1>1. ids \in SUBSET FindingId /\ \A f \in ids : FindingPath[f] \in files
  OBVIOUS
<1>2. IsFiniteSet(ids) /\ ids \in SUBSET Nat
  <2> HIDE DEF ids
  <2> QED BY <1>1, PackAssumption, FS_Subset
<1>3. Scope(files) = SubSeq(order, 1, Min({FindingCap, Len(order)}))
  BY DEF Scope, Sorted
<1> HIDE DEF ids
<1>4. StrictOrder(ids, R)
  BY <1>2 DEF StrictOrder, Pairs
<1> HIDE DEF R
<1>5. order \in Seq(ids)
  BY <1>2, <1>4, RankedIsSequence
<1> HIDE DEF order
<1>6. Scope(files) \in Seq(ids)
  BY <1>3, <1>5, CapsAre, TakeTyped
<1>7. Scope(files) \in Seq(FindingId)
  BY <1>1, <1>6
<1>8. \A f \in ToSet(Scope(files)) : f \in ids
  BY <1>6 DEF ToSet
<1> QED BY <1>1, <1>7, <1>8

-----------------------------------------------------------------------------
(* The invariant of the calls *)

LEMMA ItemsHold ==
  /\ \A s \in Seq(PackFiles) : s \in Seq(Items)
  /\ \A s \in Seq(FindingId) : s \in Seq(Items)
  /\ \A s \in Seq(STRING) : s \in Seq(Items)
  /\ <<>> \in Seq(Items)
BY DEF Items

Stages == {"idle", "seeds", "symbols", "files", "measure"}
Drafts ==
  [at : Stages, kind : {"none", "pack", "brief"}, query : PackQuery \cup {""}, focus : PackFiles \cup {NoFocus},
   symbol : PackQuery \cup {NoSymbol, ""}, budget : Int, fresh : BOOLEAN,
   seeds : Seq(PackFiles), todo : Seq(PackFiles), parts : Lists]
Tools ==
  {"get_symbol_context", "explain_finding", "select_tests", "refresh_index", "retrieve_result",
   "search_files", "search_content", "get_repo_map"}
Packs ==
  [kind : {"none", "pack", "brief"}, parts : Lists, tokens : Int, budget : Int, result : Nat,
   exceeded : BOOLEAN, advice : Seq(Tools)]

\* A call that is under way has a query it was asked; a pack has the seeds for its files from
\* the moment they are known, and the findings it measures are of those files.
DraftInv ==
  /\ draft.at # "idle" => draft.query \in PackQuery /\ draft.kind # "none"
  /\ draft.kind = "brief" /\ draft.at = "seeds" => draft.symbol \in PackQuery \cup {NoSymbol}
  /\ draft.kind = "pack" /\ draft.at \in {"symbols", "files", "measure"} => draft.parts.files = draft.seeds
  /\ draft.at = "measure" =>
       /\ draft.kind = "pack"
       /\ \A f \in ToSet(draft.parts.findings) : FindingPath[f] \in ToSet(draft.parts.files)

PackInv ==
  /\ draft \in Drafts /\ packed \in Packs /\ shelf \in Seq(Lists)
  /\ packed.result \in 0..Len(shelf)
  /\ DraftInv
  /\ PackIsHonest

LEMMA NoPartsTyped == NoParts \in Lists
<1>1. DOMAIN NoParts = SectionNames
  BY DEF NoParts, SectionNames
<1>2. \A l \in SectionNames : NoParts[l] \in Seq(Items)
  <2>1. \A l \in SectionNames : NoParts[l] = <<>>
    BY DEF NoParts, SectionNames
  <2> QED BY <2>1, ItemsHold
<1>3. NoParts = [l \in SectionNames |-> NoParts[l]]
  BY <1>1 DEF NoParts
<1> QED BY <1>2, <1>3 DEF Lists

LEMMA NothingTyped == NoDraft \in Drafts /\ NoPack \in Packs
<1>1. <<>> \in Seq(PackFiles) /\ <<>> \in Seq(Tools) /\ 0 \in Int /\ 0 \in Nat
  OBVIOUS
<1>2. NoFocus \in PackFiles \cup {NoFocus}
  OBVIOUS
<1> HIDE DEF NoParts
<1>3. NoDraft \in Drafts
  BY <1>1, <1>2, NoPartsTyped DEF NoDraft, Drafts, Stages
<1>4. NoPack \in Packs
  BY <1>1, NoPartsTyped DEF NoPack, Packs
<1> QED BY <1>3, <1>4

LEMMA PackInitInv == PackInit => PackInv
<1> SUFFICES ASSUME PackInit PROVE PackInv
  OBVIOUS
<1>1. draft \in Drafts /\ packed \in Packs
  BY NothingTyped DEF PackInit
<1>2. shelf \in Seq(Lists) /\ packed.result \in 0..Len(shelf)
  BY DEF PackInit, NoPack
<1>3. DraftInv /\ PackIsHonest
  BY DEF PackInit, NoDraft, NoPack, DraftInv, PackIsHonest
<1> QED BY <1>1, <1>2, <1>3 DEF PackInv

-----------------------------------------------------------------------------
(* The calls *)

LEMMA PartsTyped ==
  ASSUME NEW p \in Lists, NEW s \in Seq(Items)
  PROVE  /\ [p EXCEPT !.files = s] \in Lists /\ [p EXCEPT !.symbols = s] \in Lists
         /\ [p EXCEPT !.tests = s] \in Lists /\ [p EXCEPT !.related = s] \in Lists
         /\ [p EXCEPT !.findings = s] \in Lists
BY DEF Lists

LEMMA PartsAre ==
  ASSUME NEW p \in Lists
  PROVE  /\ p.related \in Seq(Items) /\ p.findings \in Seq(Items) /\ p.tests \in Seq(Items)
         /\ p.symbols \in Seq(Items) /\ p.files \in Seq(Items)
         /\ DOMAIN p = SectionNames
BY DEF Lists, SectionNames

\* A stored result and the answer that names it stay as they are.
LEMMA HonestKept ==
  ASSUME PackIsHonest, UNCHANGED <<shelf, packed>>
  PROVE  PackIsHonest'
BY DEF PackIsHonest

LEMMA AskStep ==
  ASSUME PackInv,
         \/ \E q \in PackQuery, f \in PackFiles \cup {NoFocus}, b, m \in Budgets : AskPack(q, f, b, m)
         \/ \E q \in PackQuery, s \in PackQuery \cup {NoSymbol}, f \in PackFiles \cup {NoFocus}, fresh \in BOOLEAN :
              AskBrief(q, f, s, fresh)
  PROVE  PackInv'
<1>1. shelf' = shelf /\ packed' = NoPack
  BY DEF AskPack, AskBrief
<1>2. shelf' \in Seq(Lists) /\ packed' \in Packs /\ packed'.result \in 0..Len(shelf')
  BY <1>1, NothingTyped DEF PackInv, NoPack
<1>3. PackIsHonest'
  BY <1>1 DEF PackIsHonest, NoPack
<1>4. draft' \in Drafts /\ DraftInv'
  <2>1. ASSUME NEW q \in PackQuery, NEW f \in PackFiles \cup {NoFocus}, NEW b \in Budgets, NEW m \in Budgets,
               AskPack(q, f, b, m)
        PROVE  draft' \in Drafts /\ DraftInv'
    <3> DEFINE bud == IF b # NoBudget THEN b ELSE IF m # NoBudget THEN m ELSE DefaultBudget
    <3>1. bud \in Int
      BY PackAssumption DEF NoBudget
    <3>2. draft' = [NoDraft EXCEPT !.at = "seeds", !.kind = "pack", !.query = q, !.focus = f, !.budget = bud]
      BY <2>1 DEF AskPack
    <3> HIDE DEF bud
    <3>3. draft' \in Drafts
      BY <3>1, <3>2, NothingTyped DEF Drafts, Stages
    <3>4. draft'.at = "seeds" /\ draft'.kind = "pack" /\ draft'.query = q
      BY <3>2 DEF NoDraft
    <3> QED BY <3>3, <3>4 DEF DraftInv
  <2>2. ASSUME NEW q \in PackQuery, NEW s \in PackQuery \cup {NoSymbol}, NEW f \in PackFiles \cup {NoFocus},
               NEW fresh \in BOOLEAN, AskBrief(q, f, s, fresh)
        PROVE  draft' \in Drafts /\ DraftInv'
    <3>2. draft' = [NoDraft EXCEPT !.at = "seeds", !.kind = "brief", !.query = q, !.focus = f,
                                   !.symbol = s, !.fresh = fresh]
      BY <2>2 DEF AskBrief
    <3>3. draft' \in Drafts
      BY <3>2, NothingTyped DEF Drafts, Stages
    <3>4. draft'.at = "seeds" /\ draft'.kind = "brief" /\ draft'.query = q /\ draft'.symbol = s
      BY <3>2 DEF NoDraft
    <3> QED BY <3>3, <3>4 DEF DraftInv
  <2> QED BY <2>1, <2>2
<1> QED BY <1>2, <1>3, <1>4 DEF PackInv

LEMMA FindSeedsStep ==
  ASSUME PackInv, FindSeeds
  PROVE  PackInv'
<1> DEFINE matches == IF draft.kind = "brief" /\ draft.focus = NoFocus /\ draft.symbol # NoSymbol
                      THEN FoundSymbols(draft.symbol, 3) ELSE <<>>
           seeds == IF draft.kind = "pack" THEN PackSeeds ELSE BriefSeeds(matches)
           parts == [NoParts EXCEPT !.files = seeds, !.symbols = Names(matches)]
           at == IF draft.kind = "pack" THEN "symbols" ELSE "files"
<1>1. draft \in Drafts /\ draft.at = "seeds" /\ draft.query \in PackQuery /\ draft.kind \in {"pack", "brief"}
  BY DEF PackInv, DraftInv, FindSeeds, Drafts
<1>2. matches \in Seq(FoundSymbol)
  <2>1. CASE draft.kind = "brief" /\ draft.focus = NoFocus /\ draft.symbol # NoSymbol
    <3>1. draft.symbol \in PackQuery
      BY <1>1, <2>1 DEF PackInv, DraftInv
    <3> QED BY <2>1, <3>1, FoundSymbolsTyped
  <2>2. CASE ~(draft.kind = "brief" /\ draft.focus = NoFocus /\ draft.symbol # NoSymbol)
    <3>1. matches = <<>> /\ <<>> \in Seq(FoundSymbol)
      BY <2>2
    <3> QED BY <3>1
  <2> QED BY <2>1, <2>2
<1> HIDE DEF matches
<1>3. draft.focus \in PackFiles \cup {NoFocus}
  BY <1>1 DEF Drafts
<1>4. seeds \in Seq(PackFiles)
  <2>1. \A cap \in Nat : QuerySeeds(draft.query, cap) \in Seq(PackFiles)
    BY <1>1, QuerySeedsTyped
  <2>2. PackSeeds \in Seq(PackFiles)
    BY <1>3, <2>1, CapsAre DEF PackSeeds
  <2>3. DedupeCap([i \in DOMAIN matches |-> matches[i].path], SeedLimit) \in Seq(PackFiles)
    BY <1>2, NamesTyped, CapsAre, DedupeCapTyped
  <2>4. BriefSeeds(matches) \in Seq(PackFiles)
    BY <1>3, <2>1, <2>3, CapsAre DEF BriefSeeds
  <2> QED BY <2>2, <2>4
<1> HIDE DEF seeds
<1>5. parts \in Lists /\ parts.files = seeds
  <2>1. seeds \in Seq(Items) /\ Names(matches) \in Seq(Items)
    BY <1>2, <1>4, NamesTyped, ItemsHold
  <2> DEFINE one == [NoParts EXCEPT !.files = seeds]
             two == [one EXCEPT !.symbols = Names(matches)]
  <2>2. one \in Lists
    BY <2>1, NoPartsTyped, PartsTyped
  <2>3. two \in Lists
    BY <2>1, <2>2, PartsTyped
  <2>4. parts = two /\ two.files = seeds
    BY DEF NoParts
  <2> QED BY <2>3, <2>4
<1>6. draft' = [draft EXCEPT !.at = at, !.seeds = seeds, !.todo = seeds, !.parts = parts]
  BY DEF FindSeeds, matches, seeds
<1>7. at \in Stages /\ at # "idle" /\ at # "measure" /\ at # "seeds"
  BY DEF Stages
<1> HIDE DEF parts, at
<1>8. draft' \in Drafts /\ draft'.at = at /\ draft'.kind = draft.kind /\ draft'.query = draft.query
      /\ draft'.seeds = seeds /\ draft'.parts = parts
  BY <1>1, <1>4, <1>5, <1>6, <1>7 DEF Drafts
<1>9. DraftInv'
  BY <1>1, <1>5, <1>7, <1>8 DEF DraftInv
<1>10. UNCHANGED <<shelf, packed>>
  BY DEF FindSeeds
<1> QED BY <1>8, <1>9, <1>10, HonestKept DEF PackInv

LEMMA FindSymbolsStep ==
  ASSUME PackInv, FindSymbols
  PROVE  PackInv'
<1> DEFINE new == IF draft.query = "" THEN <<>>
                  ELSE DedupeCap(Names(FoundSymbols(draft.query, SymbolCap)), SymbolCap)
           parts == [draft.parts EXCEPT !.symbols = new]
<1>1. draft \in Drafts /\ draft.at = "symbols" /\ draft.query \in PackQuery
  BY DEF PackInv, DraftInv, FindSymbols
<1>2. new \in Seq(Items)
  <2>1. Names(FoundSymbols(draft.query, SymbolCap)) \in Seq(STRING)
    BY <1>1, CapsAre, FoundSymbolsTyped, NamesTyped
  <2>2. DedupeCap(Names(FoundSymbols(draft.query, SymbolCap)), SymbolCap) \in Seq(STRING)
    BY <2>1, CapsAre, DedupeCapTyped
  <2> QED BY <2>2, ItemsHold
<1>3. draft.parts \in Lists
  BY <1>1 DEF Drafts
<1> HIDE DEF new
<1>4. parts \in Lists /\ parts.files = draft.parts.files
  <2>1. parts \in Lists
    BY <1>2, <1>3, PartsTyped
  <2>2. parts.files = draft.parts.files
    BY <1>3 DEF Lists
  <2> QED BY <2>1, <2>2
<1>5. draft' = [draft EXCEPT !.at = "files", !.parts = parts]
  BY <1>1 DEF FindSymbols, new, Drafts
<1> HIDE DEF parts
<1>6. draft' \in Drafts /\ draft'.at = "files" /\ draft'.kind = draft.kind /\ draft'.query = draft.query
      /\ draft'.seeds = draft.seeds /\ draft'.parts = parts
  BY <1>1, <1>4, <1>5 DEF Drafts, Stages
<1>7. DraftInv'
  BY <1>1, <1>4, <1>6 DEF DraftInv, PackInv
<1>8. UNCHANGED <<shelf, packed>>
  BY DEF FindSymbols
<1> QED BY <1>6, <1>7, <1>8, HonestKept DEF PackInv

LEMMA GatheredTyped ==
  ASSUME draft \in Drafts, NEW file \in PackFiles
  PROVE  /\ Gathered(file) \in Lists
         /\ draft.kind = "pack" => Gathered(file).files = draft.parts.files
<1> DEFINE near == RelatedFiles[file]
           nearTests == LikelyTests[file] \o In(near, PackTests)
           own == IF draft.kind = "brief" /\ file \in PackTests THEN <<file>> ELSE <<>>
           more == NotIn(NotIn(near, PackTests), ToSet(draft.seeds))
           beside == <<file>> \o NotIn(near, PackTests)
           p0 == draft.parts
           p1 == [p0 EXCEPT !.tests = @ \o own]
           p2 == [p1 EXCEPT !.tests = @ \o nearTests]
           forPack == [p2 EXCEPT !.related = @ \o more]
           p3 == [p2 EXCEPT !.files = @ \o beside]
           forBrief == [p3 EXCEPT !.symbols = @ \o SymbolsIn[file]]
<1>1. p0 \in Lists
  BY DEF Drafts
<1>2. near \in Seq(PackFiles) /\ LikelyTests[file] \in Seq(PackFiles) /\ SymbolsIn[file] \in Seq(STRING)
  BY PackAssumption
<1>3. /\ nearTests \in Seq(Items) /\ own \in Seq(Items) /\ more \in Seq(Items)
      /\ beside \in Seq(Items) /\ SymbolsIn[file] \in Seq(Items)
  <2> HIDE DEF near
  <2>1. In(near, PackTests) \in Seq(PackFiles) /\ NotIn(near, PackTests) \in Seq(PackFiles)
    BY <1>2, InTyped
  <2>2. more \in Seq(PackFiles)
    BY <2>1, InTyped
  <2>3. nearTests \in Seq(PackFiles) /\ own \in Seq(PackFiles) /\ beside \in Seq(PackFiles)
    BY <1>2, <2>1
  <2> HIDE DEF nearTests, own, more, beside
  <2> QED BY <1>2, <2>2, <2>3, ItemsHold
<1>4. Gathered(file) = IF file \notin indexed THEN p1 ELSE IF draft.kind = "pack" THEN forPack ELSE forBrief
  <2>1. DOMAIN p0 = SectionNames
    BY <1>1, PartsAre
  <2>2. p1.tests = p0.tests \o own /\ p2.tests = p1.tests \o nearTests
    BY <2>1 DEF SectionNames
  <2>3. forPack = [p1 EXCEPT !.tests = @ \o nearTests, !.related = @ \o more]
    OBVIOUS
  <2>4. forBrief = [p1 EXCEPT !.tests = @ \o nearTests, !.files = @ \o beside, !.symbols = @ \o SymbolsIn[file]]
    OBVIOUS
  <2>5. forBrief = [p1 EXCEPT !.tests = @ \o nearTests, !.files = @ \o <<file>> \o NotIn(near, PackTests),
                              !.symbols = @ \o SymbolsIn[file]]
    <3>1. p1.files \o <<file>> \o NotIn(near, PackTests) = p1.files \o beside
      <4>1. p1.files = p0.files /\ p0.files \in Seq(Items)
        BY <1>1, PartsAre, <2>1 DEF SectionNames
      <4>2. <<file>> \in Seq(Items) /\ NotIn(near, PackTests) \in Seq(Items)
        BY <1>2, InTyped, ItemsHold DEF Items
      <4>3. \A a, b, c \in Seq(Items) : a \o b \o c = a \o (b \o c)
        OBVIOUS
      <4> DEFINE a == p1.files  c == NotIn(near, PackTests)
      <4>4. a \in Seq(Items)
        BY <4>1
      <4> HIDE DEF a, c
      <4>5. a \o <<file>> \o c = a \o (<<file>> \o c)
        BY <4>2, <4>3, <4>4 DEF c
      <4> QED BY ONLY <4>5 DEF a, c, beside
    <3> QED BY <2>4, <3>1
  <2> QED BY <2>3, <2>5 DEF Gathered
<1> HIDE DEF nearTests, own, more, beside, p0
<1>5. \A s, t \in Seq(Items) : s \o t \in Seq(Items)
  OBVIOUS
<1>6. p1 \in Lists
  BY <1>1, <1>3, <1>5, PartsAre, PartsTyped
<1>7. p1.files = p0.files
  BY <1>1 DEF Lists
<1> HIDE DEF p1
<1>8. p2 \in Lists
  BY <1>3, <1>5, <1>6, PartsAre, PartsTyped
<1>9. p2.files = p0.files
  BY <1>6, <1>7 DEF Lists
<1> HIDE DEF p2
<1>10. forPack \in Lists
  BY <1>3, <1>5, <1>8, PartsAre, PartsTyped
<1>11. forPack.files = p0.files
  BY <1>8, <1>9 DEF Lists
<1>12. p3 \in Lists
  BY <1>3, <1>5, <1>8, PartsAre, PartsTyped
<1> HIDE DEF p3, forPack
<1>13. forBrief \in Lists
  BY <1>3, <1>5, <1>12, PartsAre, PartsTyped
<1> HIDE DEF forBrief
<1> QED BY <1>4, <1>6, <1>7, <1>10, <1>11, <1>13 DEF p0

LEMMA ReadNeighboursStep ==
  ASSUME PackInv, ReadNeighbours
  PROVE  PackInv'
<1>1. draft \in Drafts /\ draft.at = "files" /\ draft.todo # <<>>
  BY DEF PackInv, ReadNeighbours
<1>2. Head(draft.todo) \in PackFiles /\ Tail(draft.todo) \in Seq(PackFiles)
  <2>1. draft.todo \in Seq(PackFiles)
    BY <1>1 DEF Drafts
  <2> QED BY <1>1, <2>1
<1> DEFINE parts == Gathered(Head(draft.todo))
           rest == Tail(draft.todo)
<1>3. parts \in Lists /\ (draft.kind = "pack" => parts.files = draft.parts.files)
  BY <1>1, <1>2, GatheredTyped
<1>4. draft' = [draft EXCEPT !.todo = rest, !.parts = parts]
  BY DEF ReadNeighbours
<1> HIDE DEF parts, rest
<1>5. draft' \in Drafts /\ draft'.at = "files" /\ draft'.kind = draft.kind /\ draft'.query = draft.query
      /\ draft'.seeds = draft.seeds /\ draft'.parts = parts
  BY <1>1, <1>2, <1>3, <1>4 DEF Drafts, rest
<1>6. DraftInv'
  BY <1>1, <1>3, <1>5 DEF DraftInv, PackInv
<1>7. UNCHANGED <<shelf, packed>>
  BY DEF ReadNeighbours
<1> QED BY <1>5, <1>6, <1>7, HonestKept DEF PackInv

LEMMA ReadPackFindingsStep ==
  ASSUME PackInv, ReadPackFindings
  PROVE  PackInv'
<1> DEFINE top == ToSet(draft.seeds)
           tests == DedupeCap(NotIn(draft.parts.tests, top), TestCap)
           related == DedupeCap(draft.parts.related, RelatedCap)
           findings == Scope(top)
           p1 == [draft.parts EXCEPT !.tests = tests]
           p2 == [p1 EXCEPT !.related = related]
           parts == [p2 EXCEPT !.findings = findings]
<1>1. draft \in Drafts /\ draft.at = "files" /\ draft.kind = "pack"
  BY DEF PackInv, ReadPackFindings
<1>2. draft.parts \in Lists /\ draft.parts.files = draft.seeds /\ draft.query \in PackQuery
  BY <1>1 DEF Drafts, PackInv, DraftInv
<1>3. tests \in Seq(Items) /\ related \in Seq(Items) /\ findings \in Seq(Items)
  <2>1. draft.parts.tests \in Seq(Items) /\ draft.parts.related \in Seq(Items)
    BY <1>2, PartsAre
  <2>2. NotIn(draft.parts.tests, top) \in Seq(Items)
    BY <2>1, InTyped
  <2>3. findings \in Seq(FindingId)
    BY ScopeIsInScope
  <2> QED BY <2>1, <2>2, <2>3, CapsAre, DedupeCapTyped, ItemsHold
<1>4. \A f \in ToSet(findings) : FindingPath[f] \in top
  BY ScopeIsInScope
<1> HIDE DEF tests, related, findings
<1>5. p1 \in Lists
  BY <1>2, <1>3, PartsTyped
<1>6. p1.files = draft.seeds
  BY <1>2 DEF Lists
<1>7. [draft EXCEPT !.at = "measure", !.parts = parts]
        = [draft EXCEPT !.at = "measure",
             !.parts = [draft.parts EXCEPT !.tests = tests, !.related = related, !.findings = findings]]
  OBVIOUS
<1>8. draft' = [draft EXCEPT !.at = "measure",
                  !.parts = [draft.parts EXCEPT !.tests = tests, !.related = related, !.findings = findings]]
  <2>1. draft.parts = draft["parts"] /\ DOMAIN draft.parts = SectionNames
    BY <1>2, PartsAre
  <2> QED BY <1>1, <2>1 DEF ReadPackFindings, tests, related, findings, Drafts, SectionNames
<1> HIDE DEF p1
<1>9. p2 \in Lists
  BY <1>3, <1>5, PartsTyped
<1>10. p2.files = draft.seeds
  BY <1>5, <1>6 DEF Lists
<1> HIDE DEF p2
<1>11. parts \in Lists
  BY <1>3, <1>9, PartsTyped
<1>12. parts.files = draft.seeds
  BY <1>9, <1>10 DEF Lists
<1>13. parts.findings = findings
  BY <1>9 DEF Lists, SectionNames
<1>14. draft' = [draft EXCEPT !.at = "measure", !.parts = parts]
  BY <1>7, <1>8
<1> HIDE DEF parts
<1>15. draft' \in Drafts /\ draft'.at = "measure" /\ draft'.kind = "pack" /\ draft'.query = draft.query
       /\ draft'.seeds = draft.seeds /\ draft'.parts = parts
  BY <1>1, <1>11, <1>14 DEF Drafts, Stages
<1>16. DraftInv'
  BY <1>2, <1>4, <1>12, <1>13, <1>15 DEF DraftInv
<1>17. UNCHANGED <<shelf, packed>>
  BY DEF ReadPackFindings
<1> QED BY <1>15, <1>16, <1>17, HonestKept DEF PackInv

LEMMA AdviceTyped ==
  /\ <<>> \in Seq(Tools) /\ <<"get_symbol_context">> \in Seq(Tools) /\ <<"explain_finding">> \in Seq(Tools)
  /\ <<"select_tests">> \in Seq(Tools) /\ <<"refresh_index">> \in Seq(Tools)
  /\ <<"retrieve_result">> \in Seq(Tools)
  /\ <<"search_files", "search_content", "get_repo_map">> \in Seq(Tools)
<1>1. \A T : /\ <<>> \in Seq(T) /\ \A x \in T : <<x>> \in Seq(T)
            /\ \A x, y, z \in T : <<x, y, z>> \in Seq(T)
  OBVIOUS
<1>2. /\ <<>> \in Seq(Tools) /\ \A x \in Tools : <<x>> \in Seq(Tools)
      /\ \A x, y, z \in Tools : <<x, y, z>> \in Seq(Tools)
  BY <1>1
<1> QED BY <1>2 DEF Tools

LEMMA ReadBriefFindingsStep ==
  ASSUME PackInv, ReadBriefFindings
  PROVE  PackInv'
<1> DEFINE files == DedupeCap(draft.parts.files, FileCap)
           symbols == DedupeCap(draft.parts.symbols, SymbolCap)
           findings == Scope(ToSet(files))
           tests == DedupeCap(draft.parts.tests, TestCap)
           empty == files = <<>> /\ symbols = <<>> /\ tests = <<>> /\ findings = <<>>
           parts == [NoParts EXCEPT !.files = files, !.symbols = symbols, !.tests = tests, !.findings = findings]
           first == IF symbols = <<>> THEN <<>> ELSE <<"get_symbol_context">>
           second == IF findings = <<>> THEN <<>> ELSE <<"explain_finding">>
           third == IF empty THEN <<"search_files", "search_content", "get_repo_map">> ELSE <<>>
           fourth == IF draft.fresh THEN <<>> ELSE <<"refresh_index">>
           advice == first \o second \o <<"select_tests">> \o third \o fourth
<1>1. draft \in Drafts /\ packed \in Packs
  BY DEF PackInv
<1>2. draft.parts \in Lists
  BY <1>1 DEF Drafts
<1>3. /\ files \in Seq(Items) /\ symbols \in Seq(Items) /\ tests \in Seq(Items) /\ findings \in Seq(Items)
  BY <1>2, PartsAre, CapsAre, DedupeCapTyped, ScopeIsInScope, ItemsHold
<1>4. advice \in Seq(Tools)
  <2>1. first \in Seq(Tools) /\ second \in Seq(Tools) /\ third \in Seq(Tools) /\ fourth \in Seq(Tools)
        /\ <<"select_tests">> \in Seq(Tools)
    <3> HIDE DEF empty, symbols, findings
    <3> QED BY AdviceTyped
  <2> HIDE DEF first, second, third, fourth
  <2> QED BY <2>1
<1>5. packed' = [NoPack EXCEPT !.kind = "brief", !.parts = parts, !.advice = advice]
  BY DEF ReadBriefFindings
<1> HIDE DEF files, symbols, findings, tests, advice
<1>6. parts \in Lists
  <2> DEFINE p1 == [NoParts EXCEPT !.files = files]
             p2 == [p1 EXCEPT !.symbols = symbols]
             p3 == [p2 EXCEPT !.tests = tests]
             p4 == [p3 EXCEPT !.findings = findings]
  <2>1. parts = p4
    OBVIOUS
  <2>2. p1 \in Lists
    BY <1>3, NoPartsTyped, PartsTyped
  <2>3. p2 \in Lists
    BY <1>3, <2>2, PartsTyped
  <2> HIDE DEF p2
  <2>4. p3 \in Lists
    BY <1>3, <2>3, PartsTyped
  <2> HIDE DEF p3
  <2>5. p4 \in Lists
    BY <1>3, <2>4, PartsTyped
  <2> QED BY <2>1, <2>5
<1> HIDE DEF parts
<1>7. packed' \in Packs /\ packed'.kind = "brief" /\ packed'.result = 0
  BY <1>4, <1>5, <1>6, NothingTyped DEF Packs, NoPack
<1>8. draft' = NoDraft /\ shelf' = shelf
  BY DEF ReadBriefFindings
<1>9. draft' \in Drafts /\ DraftInv'
  BY <1>8, NothingTyped DEF DraftInv, NoDraft
<1>10. PackIsHonest'
  BY <1>7 DEF PackIsHonest
<1>11. shelf' \in Seq(Lists) /\ packed'.result \in 0..Len(shelf')
  BY <1>7, <1>8 DEF PackInv
<1> QED BY <1>7, <1>9, <1>10, <1>11 DEF PackInv

LEMMA PackedTyped ==
  ASSUME draft \in Drafts, draft.query \in PackQuery, NEW parts \in Lists, NEW result \in Nat
  PROVE  /\ Packed(parts, result) \in Packs
         /\ Packed(parts, result).kind = "pack" /\ Packed(parts, result).parts = parts
         /\ Packed(parts, result).tokens = Tokens(draft.query, parts)
         /\ Packed(parts, result).budget = draft.budget /\ Packed(parts, result).result = result
         /\ Packed(parts, result).exceeded <=> result # 0 /\ Tokens(draft.query, parts) > draft.budget
<1> DEFINE first == IF parts.symbols = <<>> THEN <<>> ELSE <<"get_symbol_context">>
           last == IF result = 0 THEN <<>> ELSE <<"retrieve_result">>
           advice == first \o <<"select_tests">> \o last
           over == result # 0 /\ Tokens(draft.query, parts) > draft.budget
<1>1. advice \in Seq(Tools)
  <2>1. first \in Seq(Tools) /\ last \in Seq(Tools) /\ <<"select_tests">> \in Seq(Tools)
    BY AdviceTyped
  <2> HIDE DEF first, last
  <2> QED BY <2>1
<1>2. Packed(parts, result)
        = [kind |-> "pack", parts |-> parts, tokens |-> Tokens(draft.query, parts), budget |-> draft.budget,
           result |-> result, exceeded |-> over, advice |-> advice]
  BY DEF Packed
<1>3. over \in BOOLEAN
  OBVIOUS
<1>4. Tokens(draft.query, parts) \in Int /\ draft.budget \in Int
  <2>1. Tokens(draft.query, parts) \in Nat
    BY TokensTyped
  <2>2. draft.budget \in Int
    BY DEF Drafts
  <2> QED BY <2>1, <2>2
<1> HIDE DEF advice
<1>5. over <=> result # 0 /\ Tokens(draft.query, parts) > draft.budget
  OBVIOUS
<1> HIDE DEF over
<1> QED BY <1>1, <1>2, <1>3, <1>4, <1>5 DEF Packs

LEMMA FitsStep ==
  ASSUME PackInv, Fits
  PROVE  PackInv'
<1>1. draft \in Drafts /\ draft.at = "measure" /\ draft.query \in PackQuery /\ shelf \in Seq(Lists)
  BY DEF PackInv, DraftInv, Fits
<1>2. draft.parts \in Lists /\ draft.budget \in Int
  BY <1>1 DEF Drafts
<1>3. packed' = Packed(draft.parts, 0) /\ draft' = NoDraft /\ shelf' = shelf
      /\ Tokens(draft.query, draft.parts) <= draft.budget
  BY DEF Fits
<1>4. /\ packed' \in Packs /\ packed'.kind = "pack" /\ packed'.parts = draft.parts
      /\ packed'.tokens = Tokens(draft.query, draft.parts)
      /\ packed'.budget = draft.budget /\ packed'.result = 0 /\ ~packed'.exceeded
  BY <1>1, <1>2, <1>3, PackedTyped
<1>5. draft' \in Drafts /\ DraftInv'
  BY <1>3, NothingTyped DEF DraftInv, NoDraft
<1>6. \A f \in ToSet(draft.parts.findings) : FindingPath[f] \in ToSet(draft.parts.files)
  BY <1>1 DEF PackInv, DraftInv
<1>7. PackIsHonest'
  BY <1>3, <1>4, <1>6 DEF PackIsHonest
<1>8. packed'.result \in 0..Len(shelf')
  BY <1>1, <1>3, <1>4
<1> QED BY <1>1, <1>3, <1>4, <1>5, <1>7, <1>8 DEF PackInv

LEMMA TrimAndStoreStep ==
  ASSUME PackInv, TrimAndStore
  PROVE  PackInv'
<1> DEFINE whole == draft.parts
           kept == FitBudget(draft.query, draft.parts, draft.budget)
           n == Len(shelf')
<1>1. draft \in Drafts /\ draft.at = "measure" /\ draft.query \in PackQuery /\ shelf \in Seq(Lists)
  BY DEF PackInv, DraftInv, TrimAndStore
<1>2. whole \in Lists /\ draft.budget \in Int
  BY <1>1 DEF Drafts
<1>3. packed' = Packed(kept, n) /\ draft' = NoDraft /\ shelf' = Append(shelf, whole)
      /\ Tokens(draft.query, whole) > draft.budget
  BY DEF TrimAndStore
<1>4. /\ LeftOf(kept, whole)
      /\ Tokens(draft.query, kept) <= draft.budget \/ Size(kept) = 0
      /\ Size(whole) > Size(kept) \/ Tokens(draft.query, kept) > draft.budget
      /\ Tokens(draft.query, kept) + 2 > draft.budget
  BY <1>1, <1>2, <1>3, FitBudgetKeeps
<1>5. shelf' \in Seq(Lists) /\ n \in Nat /\ n # 0 /\ n \in 0..n /\ shelf'[n] = whole
  <2>1. Len(shelf) \in Nat /\ n = Len(shelf) + 1
    BY <1>1, <1>2, <1>3
  <2>2. shelf' \in Seq(Lists) /\ shelf'[Len(shelf) + 1] = whole
    BY <1>1, <1>2, <1>3
  <2> QED BY <2>1, <2>2
<1>6. kept \in Lists
  BY <1>4 DEF LeftOf
<1> HIDE DEF kept, n
<1>7. /\ packed' \in Packs /\ packed'.kind = "pack" /\ packed'.parts = kept
      /\ packed'.tokens = Tokens(draft.query, kept)
      /\ packed'.budget = draft.budget /\ packed'.result = n
      /\ packed'.exceeded <=> Tokens(draft.query, kept) > draft.budget
  BY <1>1, <1>3, <1>5, <1>6, PackedTyped
<1>8. draft' \in Drafts /\ DraftInv'
  BY <1>3, NothingTyped DEF DraftInv, NoDraft
<1>9. Tokens(draft.query, kept) \in Int
  BY <1>1, <1>6, TokensTyped
<1>10. \A l \in ToSet(Sections) : IsPrefix(kept[l], whole[l])
  <2>1. ToSet(Sections) \subseteq SectionNames
    BY SectionsAre DEF ToSet
  <2>2. \A l \in SectionNames : Starts(kept[l], whole[l]) /\ kept[l] \in Seq(Items) /\ whole[l] \in Seq(Items)
    BY <1>2, <1>4, <1>6 DEF LeftOf, Lists
  <2> QED BY <2>1, <2>2, StartsIsPrefix
<1>11. \A i \in DOMAIN Sections : kept[Sections[i]] # whole[Sections[i]] =>
         \A j \in 1..i - 1 : kept[Sections[j]] = <<>>
  BY <1>4, SectionsAre DEF LeftOf
<1>12. \A f \in ToSet(kept.findings) : FindingPath[f] \in ToSet(kept.files)
  <2>1. CASE kept.findings = <<>>
    BY <2>1 DEF ToSet
  <2>2. CASE kept.findings # <<>>
    <3>1. kept.files = whole.files
      <4>1. kept[Sections[2]] # <<>>
        BY <2>2, SectionsAre
      <4>2. 2 \in 1..5 - 1 /\ 5 \in 1..5
        OBVIOUS
      <4>3. kept[Sections[5]] = whole[Sections[5]]
        BY <1>4, <4>1, <4>2 DEF LeftOf
      <4> QED BY <4>3, SectionsAre
    <3>2. Starts(kept.findings, whole.findings)
      BY <1>4 DEF LeftOf, SectionNames
    <3>3. kept.findings \in Seq(Items) /\ whole.findings \in Seq(Items)
      BY <1>2, <1>6, PartsAre
    <3>4. \A f \in ToSet(kept.findings) : f \in ToSet(whole.findings)
      BY <3>2, <3>3 DEF Starts, ToSet
    <3>5. \A f \in ToSet(whole.findings) : FindingPath[f] \in ToSet(whole.files)
      BY <1>1 DEF PackInv, DraftInv
    <3> QED BY <3>1, <3>4, <3>5
  <2> QED BY <2>1, <2>2
<1>13. PackIsHonest'
  <2>1. packed'.tokens <= packed'.budget \/ (packed'.exceeded /\ Size(packed'.parts) = 0)
    BY <1>2, <1>4, <1>7, <1>9
  <2>2. packed'.tokens + 2 > packed'.budget
    BY <1>4, <1>7
  <2>3. Size(whole) > Size(packed'.parts) \/ packed'.exceeded
    BY <1>4, <1>7
  <2>4. shelf'[packed'.result] = whole /\ packed'.result # 0
    BY <1>5, <1>7
  <2> HIDE DEF whole
  <2> QED BY <1>7, <1>10, <1>11, <1>12, <2>1, <2>2, <2>3, <2>4 DEF PackIsHonest
<1>14. packed'.result \in 0..Len(shelf')
  BY <1>5, <1>7 DEF n
<1> QED BY <1>5, <1>7, <1>8, <1>13, <1>14 DEF PackInv

\* An answer pack says its size and fits its budget, or has nothing left and says so; what it
\* dropped is in the stored result, whole, and no more was dropped than had to be; a finding it
\* kept is about a file it kept, whatever the index and the findings did between its reads
\* (answer_pack, fit_budget, to_pack).
THEOREM PacksAreHonest == PackSpec => []PackIsHonest
<1>1. PackInit => PackInv
  BY PackInitInv
<1>2. PackInv /\ [PackNext]_packVars => PackInv'
  <2> SUFFICES ASSUME PackInv, [PackNext]_packVars PROVE PackInv'
    OBVIOUS
  <2>1. CASE IndexMoves \/ FindingMoves
    <3>1. UNCHANGED <<draft, shelf, packed>>
      BY <2>1 DEF IndexMoves, FindingMoves
    <3> QED BY <3>1, HonestKept DEF PackInv, DraftInv
  <2>2. CASE \/ \E q \in PackQuery, f \in PackFiles \cup {NoFocus}, b, m \in Budgets : AskPack(q, f, b, m)
             \/ \E q \in PackQuery, s \in PackQuery \cup {NoSymbol}, f \in PackFiles \cup {NoFocus}, fresh \in BOOLEAN :
                  AskBrief(q, f, s, fresh)
    BY <2>2, AskStep
  <2>3. CASE FindSeeds \/ FindSymbols \/ ReadNeighbours
    BY <2>3, FindSeedsStep, FindSymbolsStep, ReadNeighboursStep
  <2>4. CASE ReadPackFindings \/ ReadBriefFindings \/ Fits \/ TrimAndStore
    BY <2>4, ReadPackFindingsStep, ReadBriefFindingsStep, FitsStep, TrimAndStoreStep
  <2>5. CASE StoreRefused
    <3>1. draft' = NoDraft /\ UNCHANGED <<shelf, packed>>
      BY <2>5 DEF StoreRefused
    <3>2. draft' \in Drafts /\ DraftInv'
      BY <3>1, NothingTyped DEF DraftInv, NoDraft
    <3> QED BY <3>1, <3>2, HonestKept DEF PackInv
  <2>6. CASE UNCHANGED packVars
    <3>1. UNCHANGED <<draft, shelf, packed>>
      BY <2>6 DEF packVars
    <3> QED BY <3>1, HonestKept DEF PackInv, DraftInv
  <2> QED BY <2>1, <2>2, <2>3, <2>4, <2>5, <2>6 DEF PackNext
<1>3. PackInv => PackIsHonest
  BY DEF PackInv
<1> QED BY <1>1, <1>2, <1>3, PTL DEF PackSpec

-----------------------------------------------------------------------------
(* Graph tools: slices and rows *)

LEMMA Clamping ==
  ASSUME NEW n \in Nat, NEW i \in Int
  PROVE  Min({Max({i, 0}), n}) = IF i <= 0 THEN 0 ELSE IF i <= n THEN i ELSE n
<1>1. Max({i, 0}) = IF i >= 0 THEN i ELSE 0
  BY MaxMinOfTwo
<1>2. Max({i, 0}) \in Int
  BY <1>1
<1>3. Min({Max({i, 0}), n}) = IF Max({i, 0}) <= n THEN Max({i, 0}) ELSE n
  BY <1>2, MaxMinOfTwo
<1> QED BY <1>1, <1>3

Upto(n, len) == IF n <= len THEN n ELSE len

\* A slice of a page is inside the list it is taken from, whatever its bounds, and slices that
\* follow one another make up the list.
LEMMA SliceIs ==
  ASSUME NEW T, NEW s \in Seq(T), NEW from \in Int, NEW to \in Int
  PROVE  /\ Slice(s, from, to) \in Seq(T)
         /\ \A k \in DOMAIN Slice(s, from, to) : \E i \in DOMAIN s : Slice(s, from, to)[k] = s[i]
         /\ from >= 0 /\ to >= from =>
              Slice(s, from, to) = SubSeq(s, Upto(from, Len(s)) + 1, Upto(to, Len(s)))
<1> DEFINE n == Len(s)
           At(i) == Min({Max({IF i < 0 THEN n + i ELSE i, 0}), n})
           a == At(from)
           b == At(to)
<1>1. n \in Nat
  OBVIOUS
<1>2. Slice(s, from, to) = SubSeq(s, a + 1, b)
  BY DEF Slice
<1> HIDE DEF n
<1>3. \A i \in Int : At(i) \in 0..n /\ (i >= 0 => At(i) = Upto(i, n))
  <2> TAKE i \in Int
  <2> DEFINE m == IF i < 0 THEN n + i ELSE i
  <2>1. m \in Int
    BY <1>1
  <2>2. At(i) = IF m <= 0 THEN 0 ELSE IF m <= n THEN m ELSE n
    <3> HIDE DEF m
    <3>1. Min({Max({m, 0}), n}) = IF m <= 0 THEN 0 ELSE IF m <= n THEN m ELSE n
      BY <1>1, <2>1, Clamping
    <3> QED BY <3>1 DEF m
  <2>3. At(i) \in 0..n
    <3> HIDE DEF At, m
    <3> QED BY <1>1, <2>1, <2>2
  <2>4. i >= 0 => At(i) = Upto(i, n)
    <3>1. i >= 0 => m = i
      OBVIOUS
    <3> HIDE DEF At, m
    <3> QED BY <1>1, <2>2, <3>1 DEF Upto
  <2> QED BY <2>3, <2>4
<1> HIDE DEF At
<1>4. a \in 0..n /\ b \in 0..n
  BY <1>3
<1> HIDE DEF a, b
<1>5. SubSeq(s, a + 1, b) \in Seq(T)
  BY <1>1, <1>4 DEF n
<1>6. \A k \in DOMAIN SubSeq(s, a + 1, b) : k + a \in DOMAIN s /\ SubSeq(s, a + 1, b)[k] = s[k + a]
  <2>1. DOMAIN s = 1..n
    BY DEF n
  <2>2. CASE b <= a
    <3> DEFINE sub == SubSeq(s, a + 1, b)
    <3>1. Len(sub) = 0 /\ sub \in Seq(T)
      BY <1>5, <1>4, <1>1, <2>2
    <3> HIDE DEF sub
    <3>2. DOMAIN sub = {}
      BY <3>1
    <3> QED BY <3>2 DEF sub
  <2>3. CASE b > a
    <3>1. DOMAIN SubSeq(s, a + 1, b) = 1..b - a
      BY <1>4, <1>1, <2>3 DEF n
    <3>2. \A k \in 1..b - a : SubSeq(s, a + 1, b)[k] = s[k + a] /\ k + a \in 1..n
      BY <1>4, <1>1, <2>3 DEF n
    <3> QED BY <2>1, <3>1, <3>2
  <2> QED BY <1>1, <1>4, <2>2, <2>3
<1>7. from >= 0 /\ to >= from => a = Upto(from, n) /\ b = Upto(to, n)
  BY <1>3 DEF a, b
<1> QED BY <1>2, <1>5, <1>6, <1>7 DEF n

LEMMA PagesJoin ==
  ASSUME NEW T, NEW s \in Seq(T), NEW i \in Nat, NEW j \in Nat, i <= j
  PROVE  SubSeq(s, 1, Upto(i, Len(s))) \o SubSeq(s, Upto(i, Len(s)) + 1, Upto(j, Len(s)))
           = SubSeq(s, 1, Upto(j, Len(s)))
<1> DEFINE n == Len(s)
           a == Upto(i, n)
           b == Upto(j, n)
<1>1. n \in Nat
  OBVIOUS
<1>2. a \in 0..n /\ b \in 0..n /\ a <= b
  <2> HIDE DEF n
  <2> QED BY <1>1 DEF Upto
<1> HIDE DEF a, b
<1>3. \A k, l \in 0..Len(s) : k <= l => SubSeq(s, 1, k) \o SubSeq(s, k + 1, l) = SubSeq(s, 1, l)
  <2> SUFFICES ASSUME NEW k \in 0..Len(s), NEW l \in 0..Len(s), k <= l
      PROVE  SubSeq(s, 1, k) \o SubSeq(s, k + 1, l) = SubSeq(s, 1, l)
    OBVIOUS
  <2> DEFINE u == SubSeq(s, 1, k)  v == SubSeq(s, k + 1, l)  w == SubSeq(s, 1, l)
  <2>1. u \in Seq(T) /\ Len(u) = k /\ \A x \in 1..k : u[x] = s[x]
    OBVIOUS
  <2>2. v \in Seq(T) /\ Len(v) = l - k /\ \A x \in 1..l - k : v[x] = s[x + k]
    OBVIOUS
  <2>3. w \in Seq(T) /\ Len(w) = l /\ \A x \in 1..l : w[x] = s[x]
    OBVIOUS
  <2> HIDE DEF u, v, w
  <2>4. u \o v \in Seq(T) /\ Len(u \o v) = l
    BY <2>1, <2>2
  <2>5. \A x \in 1..l : (u \o v)[x] = s[x]
    BY <2>1, <2>2
  <2>6. u \o v = w
    <3> DEFINE uv == u \o v
    <3>1. uv \in Seq(T) /\ Len(uv) = l /\ \A x \in 1..l : uv[x] = s[x]
      BY <2>4, <2>5
    <3> HIDE DEF uv
    <3>2. uv = [x \in 1..l |-> uv[x]] /\ w = [x \in 1..l |-> w[x]]
      BY <2>3, <3>1
    <3>3. uv = w
      BY <2>3, <3>1, <3>2
    <3> QED BY <3>3 DEF uv
  <2> QED BY <2>6 DEF u, v, w
<1>4. SubSeq(s, 1, a) \o SubSeq(s, a + 1, b) = SubSeq(s, 1, b)
  BY <1>2, <1>3 DEF n
<1> QED BY <1>4 DEF a, b, n

-----------------------------------------------------------------------------
(* Rows in order *)

\* Rows of calls, one for each site.
SiteRows(set) ==
  /\ IsFiniteSet(set)
  /\ \A r \in set : r.site.path \in Nat /\ r.site.line \in Nat /\ r.site.nth \in Nat
  /\ \A r, t \in set : r.site.path = t.site.path /\ r.site.line = t.site.line /\ r.site.nth = t.site.nth => r = t

LEMMA SiteRowsSorted ==
  ASSUME NEW set, SiteRows(set)
  PROVE  /\ Sorted(set, RowBefore) \in Seq(set) /\ ToSet(Sorted(set, RowBefore)) = set
         /\ \A i, j \in DOMAIN Sorted(set, RowBefore) :
              i < j => RowBefore(Sorted(set, RowBefore)[i], Sorted(set, RowBefore)[j])
<1> DEFINE R == Pairs(set, RowBefore)
<1>1. \A r, t \in set : <<r, t>> \in R <=> RowBefore(r, t)
  BY DEF Pairs
<1> HIDE DEF R
<1>2. StrictOrder(set, R)
  <2>1. \A r \in set : ~RowBefore(r, r)
    BY DEF SiteRows, RowBefore, SiteBefore
  <2>2. \A x, y, z \in set : RowBefore(x, y) /\ RowBefore(y, z) => RowBefore(x, z)
    BY DEF SiteRows, RowBefore, SiteBefore
  <2>3. \A x, y \in set : x = y \/ RowBefore(x, y) \/ RowBefore(y, x)
    BY DEF SiteRows, RowBefore, SiteBefore
  <2> QED BY <1>1, <2>1, <2>2, <2>3 DEF StrictOrder
<1>3. IsFiniteSet(set)
  BY DEF SiteRows
<1> DEFINE s == Ranked(set, R)
<1>4. /\ s \in Seq(set) /\ {s[i] : i \in DOMAIN s} = set
      /\ \A i, j \in DOMAIN s : i < j => <<s[i], s[j]>> \in R
  BY <1>2, <1>3, RankedIsSequence
<1>5. Sorted(set, RowBefore) = s
  BY DEF Sorted, R
<1> HIDE DEF s
<1>6. \A i, j \in DOMAIN s : i < j => RowBefore(s[i], s[j])
  <2>1. \A i \in DOMAIN s : s[i] \in set
    BY <1>4
  <2> QED BY <1>1, <1>4, <2>1
<1> QED BY <1>4, <1>5, <1>6 DEF ToSet

\* The rows of callers and callees, over calls that are finite and told apart by their place.
Sites(sites) ==
  /\ IsFiniteSet(sites)
  /\ \A c \in sites : c.path \in Nat /\ c.line \in Nat /\ c.nth \in Nat
  /\ \A c, d \in sites : c.path = d.path /\ c.line = d.line /\ c.nth = d.nth => c = d

LEMMA SitesAre == Sites(IndexSites) /\ Sites(CbmSites) /\ Sites(CbmEdges)
<1>1. Sites(IndexSites) /\ Sites(CbmSites)
  BY GraphAssumption DEF Sites
<1>2. CbmEdges \in SUBSET CbmSites
  BY DEF CbmEdges
<1>3. IsFiniteSet(CbmEdges)
  BY <1>1, <1>2, FS_Subset DEF Sites
<1> QED BY <1>1, <1>2, <1>3 DEF Sites

\* A row for some of the sites, each with its own caller.
LEMMA RowsOfSites ==
  ASSUME NEW sites, Sites(sites), NEW caller, NEW set,
         \A r \in set : \E c \in sites : r = [site |-> c, caller |-> caller[c]]
  PROVE  SiteRows(set)
<1> DEFINE row == [c \in sites |-> [site |-> c, caller |-> caller[c]]]
           all == {row[c] : c \in sites}
<1>1. IsFiniteSet(all)
  <2> HIDE DEF row
  <2> QED BY ImageIsFinite DEF Sites
<1>2. set \in SUBSET all
  OBVIOUS
<1>3. IsFiniteSet(set)
  <2> HIDE DEF all
  <2> QED BY <1>1, <1>2, FS_Subset
<1>4. \A r \in set : r.site \in sites /\ r = [site |-> r.site, caller |-> caller[r.site]]
  OBVIOUS
<1>5. \A r \in set : r.site.path \in Nat /\ r.site.line \in Nat /\ r.site.nth \in Nat
  BY <1>4 DEF Sites
<1>6. \A r, t \in set : r.site.path = t.site.path /\ r.site.line = t.site.line /\ r.site.nth = t.site.nth => r = t
  <2> SUFFICES ASSUME NEW r \in set, NEW t \in set, r.site.path = t.site.path, r.site.line = t.site.line,
                      r.site.nth = t.site.nth
      PROVE  r = t
    OBVIOUS
  <2>1. r.site = t.site
    BY <1>4 DEF Sites
  <2>2. [site |-> r.site, caller |-> caller[r.site]] = [site |-> t.site, caller |-> caller[t.site]]
    BY <2>1
  <2> QED BY <1>4, <2>2
<1> QED BY <1>3, <1>5, <1>6 DEF SiteRows

Visible == {s \in CbmSymbols : s.path \notin Outside}

LEMMA PulledRowsAreSites ==
  ASSUME NEW sites, Sites(sites), NEW symbols, NEW query
  PROVE  /\ SiteRows(CallerRows(query, sites, symbols)) /\ SiteRows(CalleeRows(query, sites, symbols))
         /\ \A r \in CallerRows(query, sites, symbols) :
              r.site \in sites /\ r.caller = Enclosing(symbols, r.site) /\ Holds(query, r.site.name)
         /\ \A r \in CalleeRows(query, sites, symbols) :
              /\ r.site \in sites /\ r.caller = Enclosing(symbols, r.site)
              /\ r.site.name \notin Builtin /\ r.caller # Nobody /\ Holds(query, r.caller.name)
<1> DEFINE caller == [c \in sites |-> Enclosing(symbols, c)]
           a == CallerRows(query, sites, symbols)
           b == CalleeRows(query, sites, symbols)
<1>1. \A r \in a : \E c \in sites : r = [site |-> c, caller |-> Enclosing(symbols, c)] /\ Holds(query, c.name)
  BY DEF CallerRows
<1>2. \A r \in b : /\ \E c \in sites : r = [site |-> c, caller |-> Enclosing(symbols, c)] /\ c.name \notin Builtin
                   /\ r.caller # Nobody /\ Holds(query, r.caller.name)
  BY DEF CalleeRows
<1>3. \A c \in sites : caller[c] = Enclosing(symbols, c)
  OBVIOUS
<1> HIDE DEF a, b, caller
<1>4. SiteRows(a) /\ SiteRows(b)
  <2>1. \A r \in a : \E c \in sites : r = [site |-> c, caller |-> caller[c]]
    BY <1>1, <1>3
  <2>2. \A r \in b : \E c \in sites : r = [site |-> c, caller |-> caller[c]]
    BY <1>2, <1>3
  <2> QED BY <2>1, <2>2, RowsOfSites
<1>5. \A r \in a : r.site \in sites /\ r.caller = Enclosing(symbols, r.site) /\ Holds(query, r.site.name)
  BY <1>1
<1>6. \A r \in b : /\ r.site \in sites /\ r.caller = Enclosing(symbols, r.site)
                   /\ r.site.name \notin Builtin /\ r.caller # Nobody /\ Holds(query, r.caller.name)
  BY <1>2
<1> QED BY <1>4, <1>5, <1>6 DEF a, b

\* Where cbm answers neither question, its rows are the calls of the index.
LEMMA FallbackIsIndex ==
  ASSUME NEW query
  PROVE  /\ CallerRows(query, IndexSites, IndexSymbols) = Edges("callers", NameMatch[query])
         /\ CalleeRows(query, IndexSites, IndexSymbols) = Edges("callees", NameMatch[query])
<1>1. \A c \in IndexSites : Enclosing(IndexSymbols, c) = CallerOf(c)
  BY DEF Enclosing, CallerOf
<1>2. CallerRows(query, IndexSites, IndexSymbols) = {r \in EdgeTable : r.site.name \in NameMatch[query]}
  BY <1>1 DEF CallerRows, EdgeTable, Holds
<1>3. CalleeRows(query, IndexSites, IndexSymbols)
        = {r \in EdgeTable : r.caller # Nobody /\ r.caller.name \in NameMatch[query] /\ r.site.name \notin Builtin}
  BY <1>1 DEF CalleeRows, EdgeTable, Holds
<1> QED BY <1>2, <1>3 DEF Edges

LEMMA IndexRowsAreSites ==
  ASSUME NEW tool, NEW query
  PROVE  /\ SiteRows(IndexRows(tool, query))
         /\ \A r \in IndexRows(tool, query) : r.site \in IndexSites
         /\ tool = "callees" => \A r \in IndexRows(tool, query) : r.site.name \notin Builtin
<1> DEFINE set == IndexRows(tool, query)
<1>1. CASE tool = "references"
  <2> DEFINE caller == [c \in IndexSites |-> Nobody]
  <2>1. \A r \in set : \E c \in IndexSites : r = [site |-> c, caller |-> Nobody]
    BY <1>1 DEF IndexRows
  <2>2. \A c \in IndexSites : caller[c] = Nobody
    OBVIOUS
  <2> HIDE DEF set, caller
  <2>3. \A r \in set : \E c \in IndexSites : r = [site |-> c, caller |-> caller[c]]
    BY <2>1, <2>2
  <2>4. SiteRows(set)
    BY <2>3, SitesAre, RowsOfSites
  <2>5. \A r \in set : r.site \in IndexSites
    BY <2>1
  <2> QED BY <1>1, <2>4, <2>5 DEF set
<1>2. CASE tool # "references"
  <2> DEFINE caller == [c \in IndexSites |-> CallerOf(c)]
  <2>1. set \subseteq EdgeTable /\ (tool = "callees" => \A r \in set : r.site.name \notin Builtin)
    BY <1>2 DEF IndexRows, Edges
  <2>2. \A r \in EdgeTable : \E c \in IndexSites : r = [site |-> c, caller |-> CallerOf(c)]
    BY DEF EdgeTable
  <2>3. \A c \in IndexSites : caller[c] = CallerOf(c)
    OBVIOUS
  <2> HIDE DEF set, caller
  <2>4. \A r \in set : \E c \in IndexSites : r = [site |-> c, caller |-> caller[c]]
    BY <2>1, <2>2, <2>3
  <2>5. SiteRows(set)
    BY <2>4, SitesAre, RowsOfSites
  <2>6. \A r \in set : r.site \in IndexSites
    BY <2>4
  <2> QED BY <2>1, <2>5, <2>6 DEF set
<1> QED BY <1>1, <1>2

LEMMA EdgesAreSites ==
  ASSUME NEW tool, NEW names
  PROVE  SiteRows(Edges(tool, names))
<1> DEFINE caller == [c \in IndexSites |-> CallerOf(c)]
           set == Edges(tool, names)
<1>1. \A r \in set : r \in EdgeTable
  BY DEF Edges
<1>2. \A r \in EdgeTable : \E c \in IndexSites : r = [site |-> c, caller |-> caller[c]]
  BY DEF EdgeTable
<1> HIDE DEF set, caller
<1>3. \A r \in set : \E c \in IndexSites : r = [site |-> c, caller |-> caller[c]]
  BY <1>1, <1>2
<1>4. SiteRows(set)
  BY <1>3, SitesAre, RowsOfSites
<1> QED BY <1>4 DEF set

\* The calls that a cbm which answers both questions is asked for.
LEMMA CbmRowsAre ==
  ASSUME NEW query \in GraphQuery
  PROVE  /\ {r.site : r \in CallerRows(query, CbmEdges, Visible)} = {c \in CbmEdges : Holds(query, c.name)}
         /\ {r.site : r \in CalleeRows(query, CbmEdges, Visible)} =
              {c \in CbmEdges : c.name \notin Builtin /\ Holds(query, Enclosing(CbmSymbols, c).name)}
<1>1. ASSUME NEW c \in CbmEdges PROVE Enclosing(Visible, c) = Enclosing(CbmSymbols, c)
  <2>1. c.path \notin Outside
    BY DEF CbmEdges
  <2>2. Around(Visible, c) = Around(CbmSymbols, c)
    BY <2>1 DEF Around, Visible
  <2> QED BY <2>2 DEF Enclosing
<1>2. \A c \in CbmEdges : Holds(query, Enclosing(CbmSymbols, c).name) => Enclosing(CbmSymbols, c) # Nobody
  BY GraphAssumption DEF Holds
<1>3. \A c \in CbmEdges : Holds(query, c.name) =>
        [site |-> c, caller |-> Enclosing(Visible, c)] \in CallerRows(query, CbmEdges, Visible)
  BY DEF CallerRows
<1>4. \A c \in CbmEdges : c.name \notin Builtin /\ Holds(query, Enclosing(CbmSymbols, c).name) =>
        [site |-> c, caller |-> Enclosing(Visible, c)] \in CalleeRows(query, CbmEdges, Visible)
  BY <1>1, <1>2 DEF CalleeRows
<1>5. \A r \in CallerRows(query, CbmEdges, Visible) : r.site \in CbmEdges /\ Holds(query, r.site.name)
  BY SitesAre, PulledRowsAreSites
<1>6. \A r \in CalleeRows(query, CbmEdges, Visible) :
        r.site \in CbmEdges /\ r.site.name \notin Builtin /\ Holds(query, Enclosing(CbmSymbols, r.site).name)
  BY <1>1, SitesAre, PulledRowsAreSites
<1>7. {r.site : r \in CallerRows(query, CbmEdges, Visible)} = {c \in CbmEdges : Holds(query, c.name)}
  <2>1. ASSUME NEW c \in CbmEdges, Holds(query, c.name)
        PROVE  c \in {r.site : r \in CallerRows(query, CbmEdges, Visible)}
    <3> DEFINE r == [site |-> c, caller |-> Enclosing(Visible, c)]
    <3>1. r \in CallerRows(query, CbmEdges, Visible) /\ r.site = c
      BY <1>3, <2>1
    <3> HIDE DEF r
    <3> QED BY <3>1
  <2> QED BY <1>5, <2>1
<1>8. {r.site : r \in CalleeRows(query, CbmEdges, Visible)} =
        {c \in CbmEdges : c.name \notin Builtin /\ Holds(query, Enclosing(CbmSymbols, c).name)}
  <2>1. ASSUME NEW c \in CbmEdges, c.name \notin Builtin, Holds(query, Enclosing(CbmSymbols, c).name)
        PROVE  c \in {r.site : r \in CalleeRows(query, CbmEdges, Visible)}
    <3> DEFINE r == [site |-> c, caller |-> Enclosing(Visible, c)]
    <3>1. r \in CalleeRows(query, CbmEdges, Visible) /\ r.site = c
      BY <1>4, <2>1
    <3> HIDE DEF r
    <3> QED BY <3>1
  <2> QED BY <1>6, <2>1
<1> QED BY <1>7, <1>8

\* _related_rows is a list: its rows are of different paths.
LEMMA RelatedRowsTyped ==
  ASSUME NEW extra
  PROVE  \E T : RelatedRows(extra) \in Seq(T)
<1> DEFINE paths == {q \in RelatedPaths : Neighbours[q] # {}}
           row == [p \in paths |-> [path |-> p, reasons |-> Neighbours[p] \cup extra[p],
                                    sure |-> Sureness(Neighbours[p] \cup extra[p])]]
           set == {row[p] : p \in paths}
           R == Pairs(set, Surer)
<1>1. IsFiniteSet(paths) /\ paths \subseteq Nat
  <2>1. paths \in SUBSET (IndexedFiles \cup GitHistory \cup CoChanged)
    BY DEF RelatedPaths
  <2> HIDE DEF paths
  <2> QED BY <2>1, GraphAssumption, FS_Subset
<1>2. \A reasons : Sureness(reasons) \in Int
  <2> TAKE reasons
  <2> DEFINE w == [i \in DOMAIN Reasons |-> IF Reasons[i] \in reasons THEN ReasonWeight[Reasons[i]] ELSE 0]
  <2>1. DOMAIN Reasons = 1..9
    BY DEF Reasons
  <2>2. \A i \in 1..9 : ReasonWeight[Reasons[i]] \in Nat
    BY <2>1, GraphAssumption DEF ToSet
  <2>3. w \in [1..9 -> Int]
    BY <2>1, <2>2
  <2> HIDE DEF w
  <2>4. w \in Seq(Int)
    <3>1. \A n \in Nat : \A f \in [1..n -> Int] : f \in Seq(Int)
      OBVIOUS
    <3> QED BY <2>3, <3>1, 9 \in Nat
  <2>5. Total(w) \in Int
    BY <2>4, TotalTyped
  <2>6. Min({Total(w), 100}) \in Int
    BY <2>5, MaxMinOfTwo
  <2> QED BY <2>6 DEF Sureness, w
<1>3. \A p \in paths : row[p].path = p /\ row[p].sure \in Int
  BY <1>2
<1>4. RelatedRows(extra) = Ranked(set, R)
  <2>1. set = {[path |-> p, reasons |-> Neighbours[p] \cup extra[p],
                sure |-> Sureness(Neighbours[p] \cup extra[p])] : p \in paths}
    OBVIOUS
  <2> QED BY <2>1 DEF RelatedRows, Sorted
<1>5. \A r, t \in set : <<r, t>> \in R <=> Surer(r, t)
  BY DEF Pairs
<1> HIDE DEF paths, row
<1>6. IsFiniteSet(set)
  BY <1>1, ImageIsFinite
<1>7. /\ \A r \in set : r.path \in Int /\ r.sure \in Int
      /\ \A r, t \in set : r.path = t.path => r = t
  BY <1>1, <1>3
<1> HIDE DEF set, R
<1>8. StrictOrder(set, R)
  <2>1. \A r \in set : ~Surer(r, r)
    BY <1>7 DEF Surer
  <2>2. \A x, y, z \in set : Surer(x, y) /\ Surer(y, z) => Surer(x, z)
    BY <1>7 DEF Surer
  <2>3. \A x, y \in set : x = y \/ Surer(x, y) \/ Surer(y, x)
    BY <1>7 DEF Surer
  <2> QED BY <1>5, <2>1, <2>2, <2>3 DEF StrictOrder
<1>9. Ranked(set, R) \in Seq(set)
  BY <1>6, <1>8, RankedIsSequence
<1> QED BY <1>4, <1>9

-----------------------------------------------------------------------------
(* The invariant of the graph calls *)

CallTools == {"references", "callers", "callees"}
Lookups ==
  [at : {"idle", "asked", "local", "symbols", "edges"}, offset : Int, backend : {"none", "cbm", "native"},
   symbols : SUBSET (IndexSymbols \cup CbmSymbols), from : SUBSET {"cbm", "index"}]

\* Everything there is to show, as the index and cbm are now, and who says so.
Source == IF Pulls(session.tool) /\ cbm = "up" THEN "cbm" ELSE "index"
Fallen == Pulls(session.tool) /\ cbm = "failing"
RowSet ==
  IF Fallen THEN Edges(session.tool, NameMatch[session.query])
  ELSE IF Source = "index" THEN IndexRows(session.tool, session.query)
  ELSE IF session.tool = "callers" THEN CallerRows(session.query, CbmEdges, Visible)
  ELSE CalleeRows(session.query, CbmEdges, Visible)
Listing ==
  IF session.tool = "related" THEN RelatedRows(personal)
  ELSE IF session.tool = "file" THEN RelatedRows(NoSignals)
  ELSE Sorted(RowSet, RowBefore)
Offset == IF lookup.at = "idle" THEN page.next ELSE lookup.offset

GraphTyped ==
  /\ session.tool \in CallTools \cup {"symbols", "symbol", "related", "file"}
  /\ session.tool \in CallTools => session.query \in GraphQuery
  /\ session.limit \in Int
  /\ cbm \in {"absent", "sick", "up", "failing"} /\ steady \in BOOLEAN
  /\ lookup \in Lookups /\ page.next \in Int

\* Only the tools that may ask cbm get to ask it, and what they hold is all of one side's.
LookupInv ==
  /\ lookup.at \in {"asked", "symbols", "edges"} => Pulls(session.tool)
  /\ lookup.at = "edges" =>
       \/ lookup.from = {"index"} /\ lookup.symbols = IndexSymbols
       \/ lookup.from = {"cbm"} /\ lookup.symbols = Visible

\* While nothing changes, the pages so far are the head of the listing up to the offset.
SteadyInv ==
  steady /\ session.tool \in CallTools \cup {"related", "file"} =>
    /\ Offset \in Nat
    /\ seen = SubSeq(Listing, 1, Upto(Offset, Len(Listing)))
    /\ page # NoPage => /\ page.from = {Source}
                        /\ lookup.at = "idle" => (page.more <=> page.next < Len(Listing))
    /\ lookup.at = "local" => Source = "index" /\ ~Fallen
    /\ lookup.at = "symbols" => cbm \in {"up", "failing"}
    /\ lookup.at = "edges" => lookup.from = {Source} /\ cbm \in {"up", "failing"}

SymbolInv ==
  session.tool = "symbol" =>
    /\ page = NoPage => seen = <<>>
    /\ page # NoPage => ~page.more /\ lookup.at = "idle" /\ seen = Defining(session.query)

GraphInv == GraphTyped /\ LookupInv /\ SteadyInv /\ SymbolInv /\ OnlyTrustedCalls

LEMMA SourceIs ==
  ASSUME GraphTyped
  PROVE  /\ Source \in {"cbm", "index"}
         /\ Source = "cbm" => session.tool \in {"callers", "callees"}
BY DEF Source, Pulls

LEMMA RowSetIsRows ==
  ASSUME GraphTyped
  PROVE  SiteRows(RowSet)
<1>1. SiteRows(IndexRows(session.tool, session.query))
  BY IndexRowsAreSites
<1>2. /\ SiteRows(CallerRows(session.query, CbmEdges, Visible))
      /\ SiteRows(CalleeRows(session.query, CbmEdges, Visible))
  BY SitesAre, PulledRowsAreSites
<1> QED BY <1>1, <1>2, EdgesAreSites DEF RowSet

LEMMA ListingTyped ==
  ASSUME GraphTyped
  PROVE  \E T : Listing \in Seq(T)
<1>1. Sorted(RowSet, RowBefore) \in Seq(RowSet)
  BY RowSetIsRows, SiteRowsSorted
<1> QED BY <1>1, RelatedRowsTyped DEF Listing

\* A name that is defined has a definition that none precedes.
LEMMA FirstDefinition ==
  ASSUME NEW named \in SUBSET IndexSymbols, named # {}
  PROVE  \E s \in named : \A t \in named : ~DefinedBefore(t, s)
<1>1. IsFiniteSet(named) /\ \A s \in named : s.path \in Nat /\ s.first \in Nat
  <2>1. IsFiniteSet(IndexSymbols) /\ \A s \in IndexSymbols : s.path \in Nat /\ s.first \in Nat
    BY GraphAssumption
  <2> QED BY <2>1, FS_Subset
<1> DEFINE path == [s \in named |-> s.path]
           paths == {path[s] : s \in named}
           low == Min(paths)
           near == {s \in named : s.path = low}
           start == [s \in near |-> s.first]
           starts == {start[s] : s \in near}
           lead == Min(starts)
<1>2. paths \in SUBSET Int /\ paths # {}
  BY <1>1
<1>3. IsFiniteSet(paths)
  <2> HIDE DEF path
  <2> QED BY <1>1, ImageIsFinite
<1>4. low \in paths /\ \A y \in paths : low <= y
  <2> HIDE DEF paths
  <2> QED BY <1>2, <1>3, MinOfFinite
<1> HIDE DEF low
<1>5. near # {} /\ IsFiniteSet(near)
  <2>1. near \in SUBSET named
    OBVIOUS
  <2>2. near # {}
    BY <1>4
  <2> HIDE DEF near
  <2> QED BY <1>1, <2>1, <2>2, FS_Subset
<1>6. starts \in SUBSET Int /\ starts # {}
  <2>1. \A s \in near : start[s] \in Int
    BY <1>1
  <2> HIDE DEF start, near
  <2> QED BY <1>5, <2>1
<1>7. IsFiniteSet(starts)
  <2> HIDE DEF start, near
  <2> QED BY <1>5, ImageIsFinite
<1>8. lead \in starts /\ \A y \in starts : lead <= y
  <2> HIDE DEF starts
  <2> QED BY <1>6, <1>7, MinOfFinite
<1> HIDE DEF lead
<1>9. PICK s \in near : s.first = lead
  BY <1>8
<1>10. \A t \in named : low <= t.path
  BY <1>4
<1>11. \A t \in near : lead <= t.first
  BY <1>8
<1>12. \A t \in named : ~DefinedBefore(t, s)
  BY <1>1, <1>4, <1>9, <1>10, <1>11 DEF DefinedBefore
<1> QED BY <1>9, <1>12

\* What the pages have shown at their end.
LEMMA ShownIsComplete ==
  ASSUME GraphInv
  PROVE  PagesAreComplete
<1> SUFFICES ASSUME steady, page # NoPage, ~page.more, lookup.at = "idle" PROVE
      /\ session.tool = "related" => seen = RelatedRows(personal)
      /\ session.tool = "file" => seen = RelatedRows(NoSignals)
      /\ session.tool = "symbol" =>
           LET named == {s \in IndexSymbols : s.name = session.query} IN
           /\ named # {} => \E s \in named : seen = <<s>> /\ \A t \in named : ~DefinedBefore(t, s)
           /\ named = {} => seen = <<>>
      /\ session.tool \in {"references", "callers", "callees"} =>
           /\ \A i, j \in DOMAIN seen : i < j => RowBefore(seen[i], seen[j])
           /\ page.from = {"index"} =>
                ToSet(seen) = IF Pulls(session.tool) /\ cbm = "failing"
                              THEN Edges(session.tool, NameMatch[session.query])
                              ELSE IndexRows(session.tool, session.query)
           /\ page.from = {"cbm"} => {r.site : r \in ToSet(seen)} =
                {c \in CbmEdges :
                   IF session.tool = "callers" THEN Holds(session.query, c.name)
                   ELSE c.name \notin Builtin /\ Holds(session.query, Enclosing(CbmSymbols, c).name)}
  BY DEF PagesAreComplete
<1>1. ASSUME session.tool \in CallTools \cup {"related", "file"} PROVE seen = Listing /\ page.from = {Source}
  <2>1. PICK T : Listing \in Seq(T)
    BY ListingTyped DEF GraphInv
  <2>2. /\ Offset = page.next /\ Offset \in Nat /\ seen = SubSeq(Listing, 1, Upto(Offset, Len(Listing)))
        /\ page.from = {Source} /\ ~(page.next < Len(Listing))
    BY <1>1 DEF GraphInv, SteadyInv, Offset
  <2>3. Len(Listing) \in Nat
    BY <2>1
  <2>4. Upto(Offset, Len(Listing)) = Len(Listing)
    BY <2>2, <2>3 DEF Upto
  <2>5. SubSeq(Listing, 1, Len(Listing)) = Listing
    BY <2>1
  <2> QED BY <2>2, <2>4, <2>5
<1>2. session.tool = "related" => seen = RelatedRows(personal)
  BY <1>1 DEF Listing
<1>3. session.tool = "file" => seen = RelatedRows(NoSignals)
  BY <1>1 DEF Listing
<1>4. ASSUME session.tool = "symbol" PROVE
        LET named == {s \in IndexSymbols : s.name = session.query} IN
        /\ named # {} => \E s \in named : seen = <<s>> /\ \A t \in named : ~DefinedBefore(t, s)
        /\ named = {} => seen = <<>>
  <2> DEFINE named == {s \in IndexSymbols : s.name = session.query}
             R == {p \in named \X named : DefinedBefore(p[1], p[2])}
             first == CHOOSE s \in named : \A t \in named : ~DefinedBefore(t, s)
  <2>1. seen = IF named = {} THEN <<>> ELSE <<first>>
    BY <1>4 DEF GraphInv, SymbolInv, Defining
  <2>2. ASSUME named # {} PROVE \E s \in named : \A t \in named : ~DefinedBefore(t, s)
    BY <2>2, FirstDefinition
  <2> HIDE DEF named
  <2>3. named # {} => first \in named /\ \A t \in named : ~DefinedBefore(t, first)
    BY <2>2
  <2> HIDE DEF first
  <2>4. /\ named # {} => \E s \in named : seen = <<s>> /\ \A t \in named : ~DefinedBefore(t, s)
        /\ named = {} => seen = <<>>
    BY <2>1, <2>3
  <2> QED BY <2>4 DEF named
<1>5. ASSUME session.tool \in {"references", "callers", "callees"} PROVE
        /\ \A i, j \in DOMAIN seen : i < j => RowBefore(seen[i], seen[j])
        /\ page.from = {"index"} =>
             ToSet(seen) = IF Pulls(session.tool) /\ cbm = "failing"
                           THEN Edges(session.tool, NameMatch[session.query])
                           ELSE IndexRows(session.tool, session.query)
        /\ page.from = {"cbm"} => {r.site : r \in ToSet(seen)} =
             {c \in CbmEdges :
                IF session.tool = "callers" THEN Holds(session.query, c.name)
                ELSE c.name \notin Builtin /\ Holds(session.query, Enclosing(CbmSymbols, c).name)}
  <2>1. seen = Sorted(RowSet, RowBefore) /\ page.from = {Source} /\ session.query \in GraphQuery
    BY <1>1, <1>5 DEF Listing, GraphInv, GraphTyped, CallTools
  <2>2. ToSet(seen) = RowSet /\ \A i, j \in DOMAIN seen : i < j => RowBefore(seen[i], seen[j])
    BY <2>1, RowSetIsRows, SiteRowsSorted DEF GraphInv
  <2>3. page.from = {"index"} =>
          RowSet = IF Pulls(session.tool) /\ cbm = "failing"
                   THEN Edges(session.tool, NameMatch[session.query])
                   ELSE IndexRows(session.tool, session.query)
    BY <2>1 DEF RowSet, Fallen
  <2>4. page.from = {"cbm"} => RowSet = IF session.tool = "callers"
                                        THEN CallerRows(session.query, CbmEdges, Visible)
                                        ELSE CalleeRows(session.query, CbmEdges, Visible)
    BY <2>1 DEF RowSet, Fallen, Source
  <2>5. /\ {r.site : r \in CallerRows(session.query, CbmEdges, Visible)}
             = {c \in CbmEdges : Holds(session.query, c.name)}
        /\ {r.site : r \in CalleeRows(session.query, CbmEdges, Visible)}
             = {c \in CbmEdges : c.name \notin Builtin /\ Holds(session.query, Enclosing(CbmSymbols, c).name)}
    BY <2>1, CbmRowsAre
  <2>6. ASSUME page.from = {"cbm"} PROVE {r.site : r \in ToSet(seen)} =
             {c \in CbmEdges :
                IF session.tool = "callers" THEN Holds(session.query, c.name)
                ELSE c.name \notin Builtin /\ Holds(session.query, Enclosing(CbmSymbols, c).name)}
    <3>1. CASE session.tool = "callers"
      BY <2>2, <2>4, <2>5, <2>6, <3>1
    <3>2. CASE session.tool # "callers"
      BY <2>2, <2>4, <2>5, <2>6, <3>2
    <3> QED BY <3>1, <3>2
  <2> QED BY <2>2, <2>3, <2>6
<1> QED BY <1>2, <1>3, <1>4, <1>5

-----------------------------------------------------------------------------
(* The steps *)

LEMMA GraphInitInv == GraphInit => GraphInv
<1> SUFFICES ASSUME GraphInit PROVE GraphInv
  OBVIOUS
<1>1. GraphTyped
  <2>1. session.tool \in CallTools => session.query \in GraphQuery
    BY DEF GraphInit, CallTools
  <2>2. session.tool \in CallTools \cup {"symbols", "symbol", "related", "file"}
    BY DEF GraphInit, CallTools
  <2>3. session.limit \in Int
    BY GraphAssumption DEF GraphInit
  <2>4. lookup \in Lookups
    BY DEF GraphInit, NoLookup, Lookups
  <2> QED BY <2>1, <2>2, <2>3, <2>4 DEF GraphInit, GraphTyped, NoPage
<1>2. LookupInv /\ SymbolInv /\ OnlyTrustedCalls
  BY DEF GraphInit, LookupInv, SymbolInv, OnlyTrustedCalls, NoLookup, NoPage
<1>3. SteadyInv
  <2>1. PICK T : Listing \in Seq(T)
    BY <1>1, ListingTyped
  <2>2. Len(Listing) \in Nat
    BY <2>1
  <2>3. Upto(0, Len(Listing)) = 0
    BY <2>2 DEF Upto
  <2>4. SubSeq(Listing, 1, 0) = <<>>
    BY <2>1
  <2>5. Offset = 0 /\ lookup.at = "idle" /\ page = NoPage /\ seen = <<>>
    BY DEF GraphInit, Offset, NoLookup, NoPage
  <2> QED BY <2>3, <2>4, <2>5 DEF SteadyInv
<1> QED BY <1>1, <1>2, <1>3 DEF GraphInv

LEMMA PageLimitIs ==
  ASSUME GraphTyped
  PROVE  PageLimit \in Nat \ {0}
<1>1. session.limit \in Int /\ PageSize \in Nat \ {0}
  BY GraphAssumption DEF GraphTyped
<1>2. Max({session.limit, 1}) = IF session.limit >= 1 THEN session.limit ELSE 1
  BY <1>1, MaxMinOfTwo
<1>3. Max({session.limit, 1}) \in Nat \ {0}
  BY <1>1, <1>2
<1> DEFINE m == Max({session.limit, 1})
<1>4. m \in Nat \ {0}
  BY <1>3
<1> HIDE DEF m
<1>5. m \in Int /\ PageSize \in Int
  BY <1>1, <1>4
<1>6. Min({m, PageSize}) = IF m <= PageSize THEN m ELSE PageSize
  BY <1>5, MaxMinOfTwo
<1>7. PageLimit = Min({m, PageSize})
  BY DEF PageLimit, m
<1> QED BY <1>1, <1>4, <1>6, <1>7

\* What may be shown of a call.
Trusted(row, from) ==
  /\ row.site.path \notin Outside
  /\ row.site \notin IndexSites => row.site.lang \in HybridLsp
  /\ session.tool = "callees" => row.site.name \notin Builtin
  /\ from = {"index"} =>
       row \in IndexRows(session.tool, session.query) \cup Edges(session.tool, NameMatch[session.query])

\* Every tool ends with a page of some rows: here is what makes that page right.
LEMMA ReplyStep ==
  ASSUME GraphInv, NEW T, NEW rows \in Seq(T), NEW from \in SUBSET {"cbm", "index"}, from # {},
         NEW offset \in Int, NEW limit \in Nat \ {0}, Reply(rows, from, offset, limit), lookup.at # "idle",
         steady /\ session.tool \in CallTools \cup {"related", "file"} =>
           rows = Listing /\ from = {Source} /\ offset = lookup.offset,
         Pulls(session.tool) => \A i \in DOMAIN rows : Trusted(rows[i], from),
         session.tool = "symbol" => rows = Defining(session.query) /\ offset = 0 /\ limit = 1
  PROVE  GraphInv'
<1> DEFINE shown == Slice(rows, offset, offset + limit)
<1>1. /\ page' = [rows |-> shown, next |-> offset + limit, more |-> offset + limit < Len(rows), from |-> from]
      /\ seen' = seen \o shown /\ lookup' = NoLookup
      /\ UNCHANGED <<cbm, personal, session, steady, moves>>
  BY DEF Reply
<1>2. offset + limit \in Int /\ offset + limit >= offset
  OBVIOUS
<1>3. /\ shown \in Seq(T)
      /\ \A k \in DOMAIN shown : \E i \in DOMAIN rows : shown[k] = rows[i]
      /\ offset >= 0 => shown = SubSeq(rows, Upto(offset, Len(rows)) + 1, Upto(offset + limit, Len(rows)))
  <2> DEFINE to == offset + limit
  <2>1. to \in Int /\ to >= offset
    BY <1>2
  <2> HIDE DEF to
  <2>2. /\ Slice(rows, offset, to) \in Seq(T)
        /\ \A k \in DOMAIN Slice(rows, offset, to) : \E i \in DOMAIN rows : Slice(rows, offset, to)[k] = rows[i]
        /\ offset >= 0 =>
             Slice(rows, offset, to) = SubSeq(rows, Upto(offset, Len(rows)) + 1, Upto(to, Len(rows)))
    BY <2>1, SliceIs
  <2> QED BY <2>2 DEF to
<1> HIDE DEF shown
<1>4. page' # NoPage /\ page'.rows = shown /\ page'.next = offset + limit /\ page'.from = from
      /\ (page'.more <=> offset + limit < Len(rows))
  BY <1>1 DEF NoPage
<1>5. GraphTyped'
  <2>1. NoLookup \in Lookups
    BY DEF NoLookup, Lookups
  <2> QED BY <1>1, <1>2, <1>4, <2>1 DEF GraphInv, GraphTyped
<1>6. lookup'.at = "idle"
  BY <1>1 DEF NoLookup
<1>7. LookupInv'
  BY <1>6 DEF LookupInv
<1>8. OnlyTrustedCalls'
  <2>1. SUFFICES ASSUME Pulls(session.tool), NEW k \in DOMAIN shown PROVE Trusted(shown[k], from)
    BY <1>1, <1>4 DEF OnlyTrustedCalls, Trusted
  <2>2. PICK i \in DOMAIN rows : shown[k] = rows[i]
    BY <1>3
  <2> QED BY <2>1, <2>2
<1>9. SymbolInv'
  <2> SUFFICES ASSUME session.tool = "symbol" PROVE ~page'.more /\ seen' = Defining(session.query)
    BY <1>1, <1>4, <1>6 DEF SymbolInv
  <2>1. page = NoPage /\ seen = <<>>
    BY DEF GraphInv, SymbolInv
  <2>2. rows = Defining(session.query) /\ offset = 0 /\ limit = 1
    OBVIOUS
  <2>3. rows = <<>> \/ \E s : rows = <<s>>
    BY <2>2 DEF Defining
  <2>4. Len(rows) \in {0, 1}
    BY <2>3
  <2>5. Upto(0, Len(rows)) = 0 /\ Upto(1, Len(rows)) = Len(rows)
    BY <2>4 DEF Upto
  <2>11. offset + limit = 1 /\ 0 + 1 = 1
    BY <2>2
  <2>6. shown = SubSeq(rows, 1, Len(rows))
    <3>1. offset = 0 /\ offset >= 0
      BY <2>2
    <3>2. shown = SubSeq(rows, Upto(offset, Len(rows)) + 1, Upto(offset + limit, Len(rows)))
      BY <1>3, <3>1
    <3>3. shown = SubSeq(rows, Upto(0, Len(rows)) + 1, Upto(1, Len(rows)))
      BY ONLY <2>11, <3>1, <3>2
    <3> QED BY ONLY <2>5, <2>11, <3>3
  <2>7. SubSeq(rows, 1, Len(rows)) = rows
    OBVIOUS
  <2>8. <<>> \o rows = rows
    OBVIOUS
  <2>9. seen' = Defining(session.query)
    BY <1>1, <2>1, <2>2, <2>6, <2>7, <2>8
  <2>10. ~page'.more
    <3>1. ~(offset + limit < Len(rows))
      <4>1. \A n \in {0, 1} : ~(1 < n)
        OBVIOUS
      <4>2. ~(1 < Len(rows))
        BY ONLY <2>4, <4>1
      <4> QED BY ONLY <2>11, <4>2
    <3> QED BY <1>4, <3>1
  <2> QED BY <2>9, <2>10
<1>10. SteadyInv'
  <2> SUFFICES ASSUME steady, session.tool \in CallTools \cup {"related", "file"}
      PROVE  /\ Offset' \in Nat
             /\ seen' = SubSeq(Listing', 1, Upto(Offset', Len(Listing')))
             /\ page'.from = {Source'}
             /\ page'.more <=> page'.next < Len(Listing')
    BY <1>1, <1>6 DEF SteadyInv
  <2>1. Source' = Source /\ Listing' = Listing
    BY <1>1 DEF Source, Fallen, Listing, RowSet
  <2>2. rows = Listing /\ from = {Source} /\ offset = lookup.offset
    OBVIOUS
  <2>3. Offset = offset /\ Offset \in Nat /\ seen = SubSeq(Listing, 1, Upto(Offset, Len(Listing)))
    BY <2>2 DEF Offset, GraphInv, SteadyInv
  <2>4. Offset' = offset + limit
    BY <1>4, <1>6 DEF Offset
  <2>5. offset \in Nat /\ offset + limit \in Nat /\ offset <= offset + limit
    BY <2>3
  <2>6. seen = SubSeq(rows, 1, Upto(offset, Len(rows)))
    BY <2>2, <2>3
  <2>7. shown = SubSeq(rows, Upto(offset, Len(rows)) + 1, Upto(offset + limit, Len(rows)))
    BY <1>3, <2>5
  <2>8. seen' = SubSeq(rows, 1, Upto(offset + limit, Len(rows)))
    BY <1>1, <2>5, <2>6, <2>7, PagesJoin
  <2> QED BY <1>4, <2>1, <2>2, <2>4, <2>5, <2>8
<1> QED BY <1>5, <1>7, <1>8, <1>9, <1>10 DEF GraphInv

\* The listing is the same as long as nothing that it is read from changes.
LEMMA ListingKept ==
  ASSUME UNCHANGED <<cbm, personal, session>>
  PROVE  Source' = Source /\ Fallen' = Fallen /\ Listing' = Listing
BY DEF Source, Fallen, Listing, RowSet

LEMMA WorldStep ==
  ASSUME GraphInv, CbmMoves \/ DeveloperTouches
  PROVE  GraphInv'
<1>1. ~steady' /\ steady' \in BOOLEAN /\ UNCHANGED <<session, lookup, page, seen>>
  BY DEF CbmMoves, DeveloperTouches
<1>2. cbm' \in {"absent", "sick", "up", "failing"}
  BY DEF CbmMoves, DeveloperTouches, GraphInv, GraphTyped
<1>3. GraphTyped'
  BY <1>1, <1>2 DEF GraphInv, GraphTyped
<1>4. LookupInv' /\ SymbolInv' /\ OnlyTrustedCalls'
  BY <1>1 DEF GraphInv, LookupInv, SymbolInv, OnlyTrustedCalls
<1>5. SteadyInv'
  BY <1>1 DEF SteadyInv
<1> QED BY <1>3, <1>4, <1>5 DEF GraphInv

LEMMA AskGraphStep ==
  ASSUME GraphInv, AskGraph
  PROVE  GraphInv'
<1>1. PICK follow \in BOOLEAN, start \in Cursors :
        /\ IF follow THEN page.more ELSE page = NoPage /\ (session.tool # "file" => start = 0)
        /\ lookup' = [NoLookup EXCEPT !.at = IF Pulls(session.tool) THEN "asked" ELSE "local",
                                      !.offset = IF follow THEN page.next ELSE start]
        /\ steady' = (steady /\ (follow \/ start = 0))
  BY DEF AskGraph
<1> DEFINE at == IF Pulls(session.tool) THEN "asked" ELSE "local"
           offset == IF follow THEN page.next ELSE start
<1>2. UNCHANGED <<cbm, personal, session, page, seen, moves>> /\ lookup.at = "idle"
  BY DEF AskGraph
<1>3. offset \in Int
  BY GraphAssumption DEF GraphInv, GraphTyped
<1>4. lookup' = [NoLookup EXCEPT !.at = at, !.offset = offset]
  BY <1>1
<1>5. at \in {"asked", "local"} /\ (at = "asked" => Pulls(session.tool)) /\ (at = "local" => ~Pulls(session.tool))
  OBVIOUS
<1> HIDE DEF at, offset
<1>6. lookup' \in Lookups /\ lookup'.at = at /\ lookup'.offset = offset
  BY <1>3, <1>4, <1>5 DEF Lookups, NoLookup
<1>7. GraphTyped'
  BY <1>1, <1>2, <1>6 DEF GraphInv, GraphTyped
<1>8. LookupInv' /\ OnlyTrustedCalls'
  BY <1>2, <1>5, <1>6 DEF GraphInv, LookupInv, OnlyTrustedCalls
<1>9. SymbolInv'
  <2>1. CASE follow
    <3>1. page.more /\ page # NoPage
      <4>1. page.more
        BY <1>1, <2>1
      <4>2. ~NoPage.more
        BY DEF NoPage
      <4> QED BY <4>1, <4>2
    <3> QED BY <1>2, <3>1 DEF GraphInv, SymbolInv
  <2>2. CASE ~follow
    <3>1. page = NoPage
      BY <1>1, <2>2
    <3> QED BY <1>2, <3>1 DEF GraphInv, SymbolInv
  <2> QED BY <2>1, <2>2
<1>10. SteadyInv'
  <2> SUFFICES ASSUME steady', session.tool \in CallTools \cup {"related", "file"}
      PROVE  /\ Offset' \in Nat
             /\ seen' = SubSeq(Listing', 1, Upto(Offset', Len(Listing')))
             /\ page' # NoPage => page'.from = {Source'}
             /\ lookup'.at = "local" => Source' = "index" /\ ~Fallen'
    BY <1>2, <1>5, <1>6 DEF SteadyInv
  <2>1. steady /\ (follow \/ start = 0)
    BY <1>1
  <2>2. Source' = Source /\ Fallen' = Fallen /\ Listing' = Listing
    BY <1>2, ListingKept
  <2>3. /\ page.next \in Nat /\ seen = SubSeq(Listing, 1, Upto(page.next, Len(Listing)))
        /\ page # NoPage => page.from = {Source}
    BY <1>2, <2>1 DEF GraphInv, SteadyInv, Offset
  <2>4. offset = page.next
    <3>1. CASE follow
      BY <3>1 DEF offset
    <3>2. CASE ~follow
      BY <1>1, <2>1, <3>2 DEF offset, NoPage
    <3> QED BY <3>1, <3>2
  <2>5. Offset' = page.next
    BY <1>5, <1>6, <2>4 DEF Offset
  <2>6. lookup'.at = "local" => Source = "index" /\ ~Fallen
    BY <1>5, <1>6 DEF Source, Fallen
  <2> QED BY <1>2, <2>2, <2>3, <2>5, <2>6
<1> QED BY <1>7, <1>8, <1>9, <1>10 DEF GraphInv

\* The two steps that ask cbm.
LEMMA PullStep ==
  ASSUME GraphInv, SelectBackend \/ PullSymbols
  PROVE  GraphInv'
<1>1. UNCHANGED <<cbm, personal, session, page, seen, steady, moves>> /\ lookup.at # "idle"
  BY DEF SelectBackend, PullSymbols
<1>2. lookup \in Lookups /\ Pulls(session.tool)
  BY DEF GraphInv, GraphTyped, LookupInv, SelectBackend, PullSymbols
<1>3. /\ lookup' \in Lookups /\ lookup'.offset = lookup.offset /\ lookup'.at \in {"symbols", "local", "edges"}
      /\ lookup'.at = "local" => cbm \notin {"up", "failing"}
      /\ lookup'.at = "symbols" => cbm \in {"up", "failing"}
      /\ lookup'.at = "edges" => lookup.at = "symbols"
      /\ lookup'.at = "edges" =>
           IF cbm = "up" THEN lookup'.from = {"cbm"} /\ lookup'.symbols = Visible
           ELSE lookup'.from = {"index"} /\ lookup'.symbols = IndexSymbols
  <2>1. CASE SelectBackend
    BY <1>2, <2>1 DEF SelectBackend, Lookups
  <2>2. CASE PullSymbols
    <3> DEFINE symbols == IF Answers THEN {s \in CbmSymbols : s.path \notin Outside} ELSE IndexSymbols
               from == {IF Answers THEN "cbm" ELSE "index"}
    <3>1. lookup' = [lookup EXCEPT !.at = "edges", !.symbols = symbols, !.from = from]
      BY <2>2 DEF PullSymbols
    <3>2. symbols \in SUBSET (IndexSymbols \cup CbmSymbols) /\ from \in SUBSET {"cbm", "index"}
      OBVIOUS
    <3>3. IF cbm = "up" THEN from = {"cbm"} /\ symbols = Visible ELSE from = {"index"} /\ symbols = IndexSymbols
      BY DEF Answers, Visible
    <3> HIDE DEF symbols, from
    <3>4. lookup' \in Lookups /\ lookup'.at = "edges" /\ lookup'.symbols = symbols /\ lookup'.from = from
          /\ lookup'.offset = lookup.offset
      BY <1>2, <3>1, <3>2 DEF Lookups
    <3>5. lookup.at = "symbols"
      BY <2>2 DEF PullSymbols
    <3> QED BY <3>3, <3>4, <3>5
  <2> QED BY <2>1, <2>2
<1>4. GraphTyped' /\ LookupInv'
  BY <1>1, <1>2, <1>3 DEF GraphInv, GraphTyped, LookupInv
<1>5. OnlyTrustedCalls'
  BY <1>1 DEF GraphInv, OnlyTrustedCalls
<1>6. SymbolInv'
  BY <1>1, <1>2 DEF SymbolInv, Pulls
<1>7. SteadyInv'
  <2> SUFFICES ASSUME steady, session.tool \in CallTools \cup {"related", "file"}
      PROVE  /\ Offset' \in Nat
             /\ seen' = SubSeq(Listing', 1, Upto(Offset', Len(Listing')))
             /\ page' # NoPage => page'.from = {Source'}
             /\ lookup'.at = "local" => Source' = "index" /\ ~Fallen'
             /\ lookup'.at \in {"symbols", "edges"} => cbm \in {"up", "failing"}
             /\ lookup'.at = "edges" => lookup'.from = {Source'}
    BY <1>1, <1>3 DEF SteadyInv
  <2>1. Source' = Source /\ Fallen' = Fallen /\ Listing' = Listing
    BY <1>1, ListingKept
  <2>2. Offset' = Offset
    BY <1>1, <1>3 DEF Offset
  <2>3. /\ Offset \in Nat /\ seen = SubSeq(Listing, 1, Upto(Offset, Len(Listing)))
        /\ page # NoPage => page.from = {Source}
    BY <1>1 DEF GraphInv, SteadyInv
  <2>4. lookup'.at = "local" => Source = "index" /\ ~Fallen
    BY <1>3 DEF Source, Fallen
  <2>6. lookup'.at \in {"symbols", "edges"} => cbm \in {"up", "failing"}
    BY <1>3 DEF GraphInv, SteadyInv
  <2>5. lookup'.at = "edges" => lookup'.from = {Source}
    BY <1>2, <1>3 DEF Source
  <2> QED BY <1>1, <2>1, <2>2, <2>3, <2>4, <2>5, <2>6
<1> QED BY <1>4, <1>5, <1>6, <1>7 DEF GraphInv

LEMMA PullEdgesStep ==
  ASSUME GraphInv, PullEdges
  PROVE  GraphInv'
<1> DEFINE sites == IF Answers THEN CbmEdges ELSE IndexSites
           q == session.query
           set == IF session.tool = "callers" THEN CallerRows(q, sites, lookup.symbols)
                  ELSE CalleeRows(q, sites, lookup.symbols)
           rows == Sorted(set, RowBefore)
           from == lookup.from \cup {IF Answers THEN "cbm" ELSE "index"}
<1>1. /\ lookup.at = "edges" /\ session.tool \in {"callers", "callees"}
      /\ \/ lookup.from = {"index"} /\ lookup.symbols = IndexSymbols
         \/ lookup.from = {"cbm"} /\ lookup.symbols = Visible
  BY DEF PullEdges, GraphInv, LookupInv, Pulls
<1>2. Reply(rows, from, lookup.offset, PageLimit)
  BY DEF PullEdges
<1>3. Sites(sites)
  BY SitesAre
<1>4. from \in SUBSET {"cbm", "index"} /\ from # {}
  BY <1>1
<1>5. PageLimit \in Nat \ {0} /\ lookup.offset \in Int
  BY PageLimitIs DEF GraphInv, GraphTyped, Lookups
<1>6. SiteRows(set)
  <2> HIDE DEF sites
  <2> QED BY <1>3, PulledRowsAreSites
<1>7. /\ \A r \in set : r.site \in sites
      /\ session.tool = "callees" => \A r \in set : r.site.name \notin Builtin
  <2> HIDE DEF sites
  <2> QED BY <1>3, PulledRowsAreSites
<1>8. from = {"index"} => set = Edges(session.tool, NameMatch[q])
  <2> SUFFICES ASSUME from = {"index"} PROVE set = Edges(session.tool, NameMatch[q])
    OBVIOUS
  <2>1. ~Answers /\ lookup.from = {"index"} /\ lookup.symbols = IndexSymbols
    BY <1>1
  <2>2. sites = IndexSites
    BY <2>1
  <2> QED BY <1>1, <2>1, <2>2, FallbackIsIndex
<1>9. steady => set = RowSet /\ from = {Source}
  <2> SUFFICES ASSUME steady PROVE set = RowSet /\ from = {Source}
    OBVIOUS
  <2>1. lookup.from = {Source} /\ (Source = "cbm" <=> Answers) /\ (Fallen <=> ~Answers)
    BY <1>1 DEF GraphInv, SteadyInv, CallTools, Source, Fallen, Pulls, Answers
  <2>2. CASE Answers
    BY <1>1, <2>1, <2>2 DEF RowSet
  <2>3. CASE ~Answers
    <3>1. Source = "index" /\ from = {"index"}
      BY <2>1, <2>3, SourceIs DEF GraphInv
    <3> QED BY <1>8, <2>1, <2>3, <3>1 DEF RowSet
  <2> QED BY <2>2, <2>3
<1>10. \A c \in sites : c.path \notin Outside /\ (c \notin IndexSites => c.lang \in HybridLsp)
  BY GraphAssumption DEF CbmEdges
<1> HIDE DEF sites, set, from
<1>11. rows \in Seq(set) /\ ToSet(rows) = set
  BY <1>6, SiteRowsSorted
<1>12. \A i \in DOMAIN rows : Trusted(rows[i], from)
  <2> TAKE i \in DOMAIN rows
  <2>1. rows[i] \in set
    BY <1>11
  <2> QED BY <1>7, <1>8, <1>10, <2>1 DEF Trusted, q
<1>13. steady /\ session.tool \in CallTools \cup {"related", "file"} =>
         rows = Listing /\ from = {Source} /\ lookup.offset = lookup.offset
  BY <1>1, <1>9 DEF Listing
<1> HIDE DEF rows
<1>14. lookup.at # "idle" /\ session.tool # "symbol"
  BY <1>1
<1> QED BY <1>2, <1>4, <1>5, <1>11, <1>12, <1>13, <1>14, ReplyStep

LEMMA ReadIndexStep ==
  ASSUME GraphInv, ReadIndex
  PROVE  GraphInv'
<1>1. lookup.at = "local" /\ session.tool \in {"references", "callers", "callees", "symbols"}
  BY DEF ReadIndex
<1>2. PageLimit \in Nat \ {0} /\ lookup.offset \in Int
  BY PageLimitIs DEF GraphInv, GraphTyped, Lookups
<1>3. CASE session.tool = "symbols"
  \* find_symbol is not paged: nothing is said of its rows.
  <2>1. /\ page' = [rows |-> page'.rows, next |-> 0 + PageLimit, more |-> page'.more, from |-> {"index"}]
        /\ lookup' = NoLookup /\ UNCHANGED <<cbm, session, steady>>
    BY <1>3, <1>1 DEF ReadIndex, Reply
  <2>2. page'.next \in Int
    BY <1>2, <2>1
  <2>3. NoLookup \in Lookups /\ NoLookup.at = "idle"
    BY DEF NoLookup, Lookups
  <2>4. GraphTyped' /\ LookupInv'
    BY <2>1, <2>2, <2>3 DEF GraphInv, GraphTyped, LookupInv
  <2>5. SteadyInv' /\ SymbolInv' /\ OnlyTrustedCalls'
    BY <1>3, <2>1 DEF SteadyInv, SymbolInv, OnlyTrustedCalls, CallTools, Pulls
  <2> QED BY <2>4, <2>5 DEF GraphInv
<1>4. CASE session.tool # "symbols"
  <2> DEFINE set == IndexRows(session.tool, session.query)
             rows == Sorted(set, RowBefore)
             from == {"index"}
  <2>1. Reply(rows, from, lookup.offset, PageLimit)
    BY <1>4, <1>1 DEF ReadIndex
  <2>2. SiteRows(set) /\ \A r \in set : r.site \in IndexSites
        /\ (session.tool = "callees" => r.site.name \notin Builtin)
    BY IndexRowsAreSites
  <2>3. rows \in Seq(set) /\ ToSet(rows) = set
    BY <2>2, SiteRowsSorted
  <2>4. \A i \in DOMAIN rows : Trusted(rows[i], from)
    <3> TAKE i \in DOMAIN rows
    <3>1. rows[i] \in set
      BY <2>3
    <3> QED BY <2>2, <3>1, GraphAssumption DEF Trusted
  <2>5. steady /\ session.tool \in CallTools \cup {"related", "file"} =>
          rows = Listing /\ from = {Source} /\ lookup.offset = lookup.offset
    <3>1. steady => Source = "index" /\ ~Fallen
      BY <1>1, <1>4 DEF GraphInv, SteadyInv, CallTools
    <3> QED BY <1>1, <1>4, <3>1 DEF Listing, RowSet
  <2>6. from \in SUBSET {"cbm", "index"} /\ from # {}
    OBVIOUS
  <2> HIDE DEF rows, set, from
  <2>7. lookup.at # "idle" /\ session.tool # "symbol"
    BY <1>1
  <2> QED BY <1>2, <2>1, <2>3, <2>4, <2>5, <2>6, <2>7, ReplyStep
<1> QED BY <1>3, <1>4

LEMMA ReadSymbolStep ==
  ASSUME GraphInv, ReadSymbol
  PROVE  GraphInv'
<1> DEFINE rows == Defining(session.query)
           from == {"index"}
<1>1. lookup.at # "idle" /\ session.tool = "symbol" /\ Reply(rows, from, 0, 1)
  BY DEF ReadSymbol
<1>2. \E T : rows \in Seq(T)
  <2>1. rows = <<>> \/ \E s : rows = <<s>>
    BY DEF Defining
  <2>2. \A s : <<s>> \in Seq({s}) /\ <<>> \in Seq({s})
    OBVIOUS
  <2> QED BY <2>1, <2>2
<1>3. PICK T : rows \in Seq(T)
  BY <1>2
<1>4. ~Pulls(session.tool) /\ session.tool \notin CallTools \cup {"related", "file"}
  BY <1>1 DEF Pulls, CallTools
<1>5. from \in SUBSET {"cbm", "index"} /\ from # {} /\ 0 \in Int /\ 1 \in Nat \ {0}
  OBVIOUS
<1>6. rows = Defining(session.query)
  OBVIOUS
<1> HIDE DEF rows, from
<1> QED BY <1>1, <1>3, <1>4, <1>5, <1>6, ReplyStep

LEMMA ReadRelatedStep ==
  ASSUME GraphInv, ReadRelated \/ ReadFile
  PROVE  GraphInv'
<1> DEFINE extra == IF session.tool = "related" THEN personal ELSE NoSignals
           rows == RelatedRows(extra)
           limit == IF session.tool = "related" THEN PageLimit ELSE PageSize
           from == {"index"}
<1>1. /\ lookup.at # "idle" /\ session.tool \in {"related", "file"}
      /\ Reply(rows, from, lookup.offset, limit)
  BY DEF ReadRelated, ReadFile
<1>2. PICK T : rows \in Seq(T)
  BY RelatedRowsTyped
<1>3. limit \in Nat \ {0} /\ lookup.offset \in Int
  BY PageLimitIs, GraphAssumption DEF GraphInv, GraphTyped, Lookups
<1>4. ~Pulls(session.tool) /\ session.tool # "symbol"
  BY <1>1 DEF Pulls
<1>5. rows = Listing /\ from = {Source}
  BY <1>1, <1>4 DEF Listing, Source
<1>6. from \in SUBSET {"cbm", "index"} /\ from # {}
  OBVIOUS
<1> HIDE DEF rows, from, limit
<1> QED BY <1>1, <1>2, <1>3, <1>4, <1>5, <1>6, ReplyStep

\* Whoever answers, and however often cbm fails between two questions of one call, only calls
\* inside the repository and of a resolved language are shown; the pages of a session under which
\* nothing changed hold every row once, in order: those of the index alone, of cbm alone, or,
\* where cbm fails throughout, the index's that hold the query letter by letter
\* (cbm_backend.py, context.py, context_support.py).
THEOREM GraphIsExact == GraphSpec => []GraphAnswersAreExact
<1>1. GraphInit => GraphInv
  BY GraphInitInv
<1>2. GraphInv /\ [GraphNext]_graphVars => GraphInv'
  <2> SUFFICES ASSUME GraphInv, [GraphNext]_graphVars PROVE GraphInv'
    OBVIOUS
  <2>1. CASE CbmMoves \/ DeveloperTouches
    BY <2>1, WorldStep
  <2>2. CASE AskGraph
    BY <2>2, AskGraphStep
  <2>3. CASE SelectBackend \/ PullSymbols
    BY <2>3, PullStep
  <2>4. CASE PullEdges
    BY <2>4, PullEdgesStep
  <2>5. CASE ReadIndex
    BY <2>5, ReadIndexStep
  <2>6. CASE ReadSymbol
    BY <2>6, ReadSymbolStep
  <2>7. CASE ReadRelated \/ ReadFile
    BY <2>7, ReadRelatedStep
  <2>8. CASE UNCHANGED graphVars
    <3>1. UNCHANGED <<cbm, personal, session, lookup, page, seen, steady>>
      BY <2>8 DEF graphVars
    <3>2. Source' = Source /\ Fallen' = Fallen /\ Listing' = Listing
      BY <3>1, ListingKept
    <3>3. GraphTyped' /\ LookupInv' /\ SymbolInv' /\ OnlyTrustedCalls'
      BY <3>1 DEF GraphInv, GraphTyped, LookupInv, SymbolInv, OnlyTrustedCalls
    <3>4. Offset' = Offset
      BY <3>1 DEF Offset
    <3>5. SteadyInv'
      BY <3>1, <3>2, <3>4 DEF GraphInv, SteadyInv
    <3> QED BY <3>3, <3>5 DEF GraphInv
  <2> QED BY <2>1, <2>2, <2>3, <2>4, <2>5, <2>6, <2>7, <2>8 DEF GraphNext
<1>3. GraphInv => GraphAnswersAreExact
  BY ShownIsComplete DEF GraphInv, GraphAnswersAreExact
<1> QED BY <1>1, <1>2, <1>3, PTL DEF GraphSpec

-----------------------------------------------------------------------------
(* search: a repeated search and its window.                                   *)

\* Of an order, the elements with fewer than n before them.
Foremost(S, R, n) == {x \in S : Cardinality({y \in S : <<y, x>> \in R}) < n}

LEMMA PlaceInOrder ==
  ASSUME NEW S, NEW R, IsFiniteSet(S), StrictOrder(S, R), NEW k \in 1..Cardinality(S)
  PROVE  /\ Ranked(S, R)[k] \in S
         /\ Cardinality({y \in S : <<y, Ranked(S, R)[k]>> \in R}) = k - 1
<1> DEFINE s == Ranked(S, R)
           m == Cardinality(S)
           before == {y \in S : <<y, s[k]>> \in R}
           sub == [i \in 1..k - 1 |-> s[i]]
<1>1. s \in Bijection(1..m, S) /\ \A i, j \in 1..m : i < j => <<s[i], s[j]>> \in R
  BY RankedSorts
<1>2. m \in Nat
  BY FS_CardinalityType
<1> HIDE DEF s, m
<1>3. /\ \A i \in 1..m : s[i] \in S
      /\ \A x \in S : \E i \in 1..m : s[i] = x
      /\ \A i, j \in 1..m : s[i] = s[j] => i = j
  BY <1>1 DEF Bijection, Injection, Surjection, IsInjective
<1>4. k \in 1..m
  BY DEF m
<1>5. \A i \in 1..m : <<s[i], s[k]>> \in R <=> i < k
  <2> TAKE i \in 1..m
  <2>1. i < k => <<s[i], s[k]>> \in R
    BY <1>1, <1>4
  <2>2. k < i => <<s[k], s[i]>> \in R
    BY <1>1, <1>4
  <2>3. ~(<<s[k], s[k]>> \in R) /\ (<<s[i], s[k]>> \in R /\ <<s[k], s[i]>> \in R => <<s[i], s[i]>> \in R)
        /\ ~(<<s[i], s[i]>> \in R)
    BY <1>3, <1>4 DEF StrictOrder
  <2>4. i < k \/ i = k \/ k < i
    BY <1>2, <1>4
  <2> QED BY <1>2, <1>4, <2>1, <2>2, <2>3, <2>4
<1>6. 1..k - 1 \subseteq 1..m /\ \A i \in 1..m : i < k <=> i \in 1..k - 1
  BY <1>2, <1>4
<1>7. sub \in Surjection(1..k - 1, before)
  <2>1. \A i \in 1..k - 1 : s[i] \in before
    BY <1>3, <1>5, <1>6
  <2>2. \A y \in before : \E i \in 1..k - 1 : s[i] = y
    BY <1>3, <1>5, <1>6
  <2> HIDE DEF before
  <2> QED BY <2>1, <2>2 DEF Surjection
<1>8. sub \in Injection(1..k - 1, before)
  BY <1>3, <1>6, <1>7 DEF Injection, IsInjective, Surjection
<1>9. IsFiniteSet(1..k - 1) /\ Cardinality(1..k - 1) = k - 1
  BY <1>2, <1>4, FS_Interval
<1> HIDE DEF before, sub
<1>10. Cardinality(before) = k - 1
  BY <1>7, <1>8, <1>9, FS_Surjection
<1> QED BY <1>3, <1>4, <1>10 DEF before, s

\* The foremost n are n, where there are more.
LEMMA ForemostAre ==
  ASSUME NEW S, NEW R, IsFiniteSet(S), StrictOrder(S, R), NEW n \in Nat
  PROVE  /\ IsFiniteSet(Foremost(S, R, n)) /\ Cardinality(Foremost(S, R, n)) <= n
         /\ Foremost(S, R, n) # S => Cardinality(Foremost(S, R, n)) = n
<1> DEFINE s == Ranked(S, R)
           m == Cardinality(S)
           W == Foremost(S, R, n)
           k == IF n < m THEN n ELSE m
           sub == [i \in 1..k |-> s[i]]
<1>1. m \in Nat
  BY FS_CardinalityType
<1>2. \A i \in 1..m : s[i] \in S /\ Cardinality({y \in S : <<y, s[i]>> \in R}) = i - 1
  BY PlaceInOrder
<1>0. s \in Bijection(1..m, S)
  BY RankedSorts
<1> HIDE DEF s, m
<1>3. /\ \A x \in S : \E i \in 1..m : s[i] = x
      /\ \A i, j \in 1..m : s[i] = s[j] => i = j
  BY <1>0 DEF Bijection, Injection, Surjection, IsInjective
<1>4. k \in Nat /\ k <= n /\ k <= m /\ \A i \in 1..m : i - 1 < n <=> i \in 1..k
  BY <1>1
<1>5. \A i \in 1..m : s[i] \in W <=> i \in 1..k
  BY <1>2, <1>4 DEF Foremost
<1>6. 1..k \subseteq 1..m
  BY <1>1, <1>4
<1>7. W \subseteq S
  BY DEF Foremost
<1> HIDE DEF W, k
<1>8. sub \in Surjection(1..k, W)
  <2>1. \A i \in 1..k : s[i] \in W
    BY <1>5, <1>6
  <2>2. \A y \in W : \E i \in 1..k : s[i] = y
    BY <1>3, <1>5, <1>7
  <2> QED BY <2>1, <2>2 DEF Surjection
<1>9. sub \in Injection(1..k, W)
  BY <1>3, <1>6, <1>8 DEF Injection, IsInjective, Surjection
<1>10. IsFiniteSet(1..k) /\ Cardinality(1..k) = k
  BY <1>4, FS_Interval
<1>11. IsFiniteSet(W) /\ Cardinality(W) = k
  <2> HIDE DEF sub
  <2> QED BY <1>8, <1>9, <1>10, FS_Surjection
<1>12. W # S => k = n
  <2>1. SUFFICES ASSUME NEW x \in S, x \notin W PROVE k = n
    BY <1>7
  <2>2. PICK i \in 1..m : s[i] = x
    BY <1>3
  <2>3. i \notin 1..k
    BY <1>5, <2>1, <2>2
  <2> QED BY <1>1, <2>3 DEF k
<1> QED BY <1>4, <1>11, <1>12 DEF W

\* The foremost stay the foremost when each of them stays before all the others.
LEMMA ForemostStay ==
  ASSUME NEW S, NEW R, NEW Q, IsFiniteSet(S), StrictOrder(S, R), StrictOrder(S, Q), NEW n \in Nat,
         \A x \in Foremost(S, R, n) : \A y \in S \ Foremost(S, R, n) : <<x, y>> \in Q
  PROVE  Foremost(S, Q, n) = Foremost(S, R, n)
<1> DEFINE W == Foremost(S, R, n)
<1>1. W \subseteq S /\ IsFiniteSet(W) /\ Cardinality(W) <= n /\ (W # S => Cardinality(W) = n) /\ Cardinality(W) \in Nat
  <2>1. W \subseteq S
    BY DEF Foremost
  <2> HIDE DEF W
  <2> QED BY <2>1, ForemostAre, FS_CardinalityType DEF W
<1>2. \A x \in W : \A y \in S \ W : <<x, y>> \in Q
  OBVIOUS
<1> HIDE DEF W
<1>3. ASSUME NEW x \in W PROVE x \in Foremost(S, Q, n)
  <2> DEFINE before == {y \in S : <<y, x>> \in Q}
  <2>1. before \subseteq W \ {x}
    <3>1. \A y \in S \ W : <<y, x>> \notin Q
      BY <1>1, <1>2, <1>3 DEF StrictOrder
    <3>2. <<x, x>> \notin Q
      BY <1>1, <1>3 DEF StrictOrder
    <3> QED BY <3>1, <3>2
  <2>2. IsFiniteSet(W \ {x}) /\ Cardinality(W \ {x}) = Cardinality(W) - 1
    BY <1>1, <1>3, FS_RemoveElement
  <2>3. Cardinality(before) <= Cardinality(W \ {x}) /\ Cardinality(before) \in Nat
    <3> HIDE DEF before
    <3> QED BY <2>1, <2>2, FS_Subset, FS_CardinalityType
  <2>4. Cardinality(before) < n
    <3> HIDE DEF before
    <3> QED BY <1>1, <2>2, <2>3
  <2> QED BY <1>1, <1>3, <2>4 DEF Foremost
<1>4. ASSUME NEW x \in S, x \notin W PROVE x \notin Foremost(S, Q, n)
  <2> DEFINE before == {y \in S : <<y, x>> \in Q}
  <2>1. W \subseteq before /\ before \subseteq S
    BY <1>1, <1>2, <1>4
  <2>2. Cardinality(W) <= Cardinality(before) /\ Cardinality(before) \in Nat
    <3> HIDE DEF before
    <3>1. IsFiniteSet(before)
      BY <2>1, FS_Subset
    <3> QED BY <2>1, <3>1, FS_Subset, FS_CardinalityType
  <2>3. Cardinality(W) = n
    BY <1>1, <1>4
  <2>4. ~(Cardinality(before) < n)
    <3> HIDE DEF before
    <3> QED BY <1>1, <2>2, <2>3
  <2> QED BY <2>4 DEF Foremost
<1>5. Foremost(S, Q, n) \subseteq S
  BY DEF Foremost
<1> QED BY <1>1, <1>3, <1>4, <1>5 DEF W

\* What a native search of paths makes of a view.
Score(v, q, p) == Signals(v, p, PathScore[q][p])
PathRow(v, q, p) == [path |-> p, line |-> 0, hits |-> 1, why |-> "path", score |-> Score(v, q, p)]
Eligible(v, filter, q) == {p \in tree : Passes(filter, v.dirty, p) /\ PathScore[q][p] > 0}
NativeIn(v, filter, q) == {PathRow(v, q, p) : p \in Eligible(v, filter, q)}
PathBefore(v, q) == {e \in Path \X Path : RanksBefore(PathRow(v, q, e[1]), PathRow(v, q, e[2]))}
TopPaths(v, filter, q) == Foremost(Eligible(v, filter, q), PathBefore(v, q), MaxLimit)
ViewTyped(v) == v.weight \in [Path -> 0..MaxWeight]

LEMMA ScoreIs ==
  ASSUME NEW v, ViewTyped(v), NEW q \in Query, NEW p \in Path
  PROVE  /\ Score(v, q, p) = PathScore[q][p] + (IF p \in v.dirty THEN 45 ELSE 0)
              + (IF v.weight[p] < FrecencyCap THEN v.weight[p] ELSE FrecencyCap) * 30
              + (IF p \in v.recent THEN 15 ELSE 0) + Quality[p]
         /\ PathScore[q][p] \in Int /\ v.weight[p] \in Nat /\ v.weight[p] <= MaxWeight /\ Quality[p] \in Int
         /\ Score(v, q, p) \in Int
<1>0. Quality \in [Path -> Int] /\ FrecencyCap \in Nat /\ MaxWeight \in Nat /\ PathScore \in [Query -> [Path -> 0..100]]
  BY SearchAssumption DEF SearchAssumption
<1>1. PathScore[q][p] \in Int /\ Quality[p] \in Int /\ FrecencyCap \in Nat /\ MaxWeight \in Nat
  <2>1. PathScore[q] \in [Path -> 0..100]
    BY <1>0
  <2>2. PathScore[q][p] \in 0..100
    BY <2>1
  <2> QED BY <1>0, <2>2
<1>2. v.weight[p] \in Nat /\ v.weight[p] <= MaxWeight
  BY <1>1 DEF ViewTyped
<1>3. Score(v, q, p) = PathScore[q][p] + (IF p \in v.dirty THEN 45 ELSE 0)
              + (IF v.weight[p] < FrecencyCap THEN v.weight[p] ELSE FrecencyCap) * 30
              + (IF p \in v.recent THEN 15 ELSE 0) + Quality[p]
  BY DEF Score, Signals, ClippedBy
<1> QED BY <1>1, <1>2, <1>3

LEMMA PathsAreOrdered ==
  ASSUME NEW v, ViewTyped(v), NEW q \in Query, NEW E \in SUBSET Path
  PROVE  /\ \A x, y \in Path : <<x, y>> \in PathBefore(v, q) <=>
               Score(v, q, x) > Score(v, q, y) \/ (Score(v, q, x) = Score(v, q, y) /\ x < y)
         /\ StrictOrder(E, PathBefore(v, q))
<1>1. \A x, y \in Path : <<x, y>> \in PathBefore(v, q) <=>
               Score(v, q, x) > Score(v, q, y) \/ (Score(v, q, x) = Score(v, q, y) /\ x < y)
  <2> TAKE x, y \in Path
  <2>1. <<x, y>> \in PathBefore(v, q) <=> RanksBefore(PathRow(v, q, x), PathRow(v, q, y))
    BY DEF PathBefore
  <2>2. /\ PathRow(v, q, x).score = Score(v, q, x) /\ PathRow(v, q, x).path = x /\ PathRow(v, q, x).line = 0
        /\ PathRow(v, q, y).score = Score(v, q, y) /\ PathRow(v, q, y).path = y /\ PathRow(v, q, y).line = 0
    BY DEF PathRow
  <2>3. ~(0 < 0)
    OBVIOUS
  <2> QED BY <2>1, <2>2, <2>3 DEF RanksBefore
<1>2. \A x \in Path : x \in Int /\ Score(v, q, x) \in Int
  BY ScoreIs, SearchAssumption DEF SearchAssumption
<1>3. StrictOrder(E, PathBefore(v, q))
  <2>1. \A x \in E : <<x, x>> \notin PathBefore(v, q)
    BY <1>1, <1>2
  <2>2. \A x, y, z \in E : <<x, y>> \in PathBefore(v, q) /\ <<y, z>> \in PathBefore(v, q) => <<x, z>> \in PathBefore(v, q)
    <3> TAKE x, y, z \in E
    <3> x \in Path /\ y \in Path /\ z \in Path
      OBVIOUS
    <3> QED BY <1>1, <1>2
  <2>3. \A x, y \in E : x = y \/ <<x, y>> \in PathBefore(v, q) \/ <<y, x>> \in PathBefore(v, q)
    <3> TAKE x, y \in E
    <3>1. x \in Path /\ y \in Path
      OBVIOUS
    <3>2. x \in Int /\ y \in Int /\ Score(v, q, x) \in Int /\ Score(v, q, y) \in Int
      BY <1>2, <3>1
    <3> QED BY <1>1, <3>1, <3>2
  <2> QED BY <2>1, <2>2, <2>3 DEF StrictOrder
<1> QED BY <1>1, <1>3

\* The window of rows is that of their paths.
LEMMA WindowIsTop ==
  ASSUME NEW v, NEW filter, NEW q \in Query, tree \subseteq Path
  PROVE  {row.path : row \in Window(NativeIn(v, filter, q), MaxLimit)} = TopPaths(v, filter, q)
<1> DEFINE E == Eligible(v, filter, q)
           rows == NativeIn(v, filter, q)
           Row1(p) == PathRow(v, q, p)
           Before(p) == {y \in E : <<y, p>> \in PathBefore(v, q)}
           Ahead(p) == {s \in rows : RanksBefore(s, Row1(p))}
<1>1. E \subseteq Path /\ IsFiniteSet(E)
  <2>1. E \subseteq Path
    BY DEF Eligible
  <2> HIDE DEF E
  <2> QED BY <2>1, FS_Subset, SearchAssumption DEF SearchAssumption
<1>2. rows = {Row1(p) : p \in E}
  BY DEF NativeIn
<1>3. \A p : Row1(p).path = p
  BY DEF PathRow
<1>4. \A x, p \in E : <<x, p>> \in PathBefore(v, q) <=> RanksBefore(Row1(x), Row1(p))
  BY <1>1 DEF PathBefore
<1> HIDE DEF E, rows, Row1
<1>5. ASSUME NEW p \in E PROVE Cardinality(Ahead(p)) = Cardinality(Before(p))
  <2> DEFINE f == [y \in Before(p) |-> Row1(y)]
  <2>1. f \in Surjection(Before(p), Ahead(p))
    <3>1. \A y \in Before(p) : Row1(y) \in Ahead(p)
      BY <1>2, <1>4, <1>5
    <3>2. \A s \in Ahead(p) : \E y \in Before(p) : Row1(y) = s
      BY <1>2, <1>4, <1>5
    <3> HIDE DEF Before, Ahead
    <3> QED BY <3>1, <3>2 DEF Surjection
  <2>2. f \in Injection(Before(p), Ahead(p))
    <3> HIDE DEF Before, Ahead
    <3> QED BY <1>3, <2>1 DEF Surjection, Injection, IsInjective
  <2>3. IsFiniteSet(Before(p))
    BY <1>1, FS_Subset
  <2> HIDE DEF Before, Ahead, f
  <2> QED BY <2>1, <2>2, <2>3, FS_Surjection
<1>6. \A p \in E : Row1(p) \in Window(rows, MaxLimit) <=> p \in TopPaths(v, filter, q)
  BY <1>2, <1>5 DEF Window, TopPaths, Foremost, E
<1>7. Window(rows, MaxLimit) \subseteq rows /\ TopPaths(v, filter, q) \subseteq E
  BY DEF Window, TopPaths, Foremost, E
<1> DEFINE W == Window(rows, MaxLimit)
           T == TopPaths(v, filter, q)
<1>8. W = {Row1(p) : p \in T}
  <2>1. \A r \in W : \E p \in T : r = Row1(p)
    BY <1>2, <1>6, <1>7
  <2>2. \A p \in T : Row1(p) \in W
    BY <1>6, <1>7
  <2> HIDE DEF W, T
  <2> QED BY <2>1, <2>2
<1>9. {row.path : row \in W} = T
  <2> HIDE DEF W, T
  <2> QED BY <1>3, <1>8
<1> QED BY <1>9 DEF rows

\* What showing a window records keeps it the window.
LEMMA TopStays ==
  ASSUME NEW v, NEW w, NEW filter, NEW q \in Query, tree \subseteq Path, ViewTyped(v), ViewTyped(w),
         w.dirty = v.dirty, NEW top, top = TopPaths(v, filter, q),
         \A p \in Path : w.weight[p] = ClippedBy(v.weight[p] + (IF p \in top THEN 1 ELSE 0), MaxWeight),
         \A p \in Path : p \in w.recent <=> p \in v.recent \/ p \in top
  PROVE  TopPaths(w, filter, q) = top
<1> DEFINE E == Eligible(v, filter, q)
           R == PathBefore(v, q)
           Q == PathBefore(w, q)
<1>1. Eligible(w, filter, q) = E
  BY DEF Eligible
<1>2. E \subseteq Path
  BY DEF Eligible
<1>3. IsFiniteSet(E) /\ MaxLimit \in Nat
  BY <1>2, FS_Subset, SearchAssumption DEF SearchAssumption
<1> HIDE DEF E
<1>4. StrictOrder(E, R) /\ StrictOrder(E, Q)
  BY <1>2, PathsAreOrdered
<1>5. top = Foremost(E, R, MaxLimit) /\ TopPaths(w, filter, q) = Foremost(E, Q, MaxLimit)
  BY <1>1 DEF TopPaths, E
<1>6. top \subseteq E
  BY <1>5 DEF Foremost
<1>7. ASSUME NEW x \in top, NEW y \in E \ top PROVE <<x, y>> \in Q
  <2>1. x \in E /\ y \in E /\ x # y /\ x \in Path /\ y \in Path
    BY <1>2, <1>6, <1>7
  <2>2. <<x, y>> \in R
    <3>1. SUFFICES ASSUME <<y, x>> \in R PROVE FALSE
      BY <1>4, <2>1 DEF StrictOrder
    <3> DEFINE before(z) == {u \in E : <<u, z>> \in R}
    <3>2. Cardinality(before(y)) < Cardinality(before(x))
      <4> HIDE DEF R
      <4> QED BY <1>3, <1>4, <2>1, <3>1, RankGrows
    <3>3. Cardinality(before(y)) \in Nat /\ Cardinality(before(x)) \in Nat
      <4>1. before(y) \subseteq E /\ before(x) \subseteq E
        OBVIOUS
      <4> HIDE DEF before
      <4> QED BY <1>3, <4>1, FS_Subset, FS_CardinalityType
    <3>4. Cardinality(before(x)) < MaxLimit
      BY <1>5, <1>7 DEF Foremost
    <3>5. ~(Cardinality(before(y)) < MaxLimit)
      BY <1>5, <1>7 DEF Foremost
    <3> HIDE DEF before
    <3> QED BY <1>3, <3>2, <3>3, <3>4, <3>5
  <2>3. Score(v, q, x) > Score(v, q, y) \/ (Score(v, q, x) = Score(v, q, y) /\ x < y)
    BY <2>1, <2>2, PathsAreOrdered
  <2>4. Score(w, q, x) >= Score(v, q, x)
    <3>1. w.weight[x] = (IF v.weight[x] + 1 < MaxWeight THEN v.weight[x] + 1 ELSE MaxWeight) /\ x \in w.recent
      BY <1>7, <2>1 DEF ClippedBy
    <3>2. MaxWeight \in Nat /\ FrecencyCap \in Nat
      BY SearchAssumption DEF SearchAssumption
    <3>3. v.weight[x] <= w.weight[x] /\ w.weight[x] \in Nat /\ v.weight[x] \in Nat
      BY <2>1, <3>1, <3>2, ScoreIs
    <3>4. (IF v.weight[x] < FrecencyCap THEN v.weight[x] ELSE FrecencyCap)
            <= (IF w.weight[x] < FrecencyCap THEN w.weight[x] ELSE FrecencyCap)
      BY <3>2, <3>3
    <3>5. /\ Score(v, q, x) = PathScore[q][x] + (IF x \in v.dirty THEN 45 ELSE 0)
              + (IF v.weight[x] < FrecencyCap THEN v.weight[x] ELSE FrecencyCap) * 30
              + (IF x \in v.recent THEN 15 ELSE 0) + Quality[x]
          /\ Score(w, q, x) = PathScore[q][x] + (IF x \in v.dirty THEN 45 ELSE 0)
              + (IF w.weight[x] < FrecencyCap THEN w.weight[x] ELSE FrecencyCap) * 30
              + 15 + Quality[x]
          /\ PathScore[q][x] \in Int /\ Quality[x] \in Int
      BY <2>1, <3>1, ScoreIs
    <3> DEFINE a == IF v.weight[x] < FrecencyCap THEN v.weight[x] ELSE FrecencyCap
               b == IF w.weight[x] < FrecencyCap THEN w.weight[x] ELSE FrecencyCap
               c == IF x \in v.dirty THEN 45 ELSE 0
               d == IF x \in v.recent THEN 15 ELSE 0
    <3>6. a \in Int /\ b \in Int /\ a <= b /\ c \in Int /\ d \in Int /\ d <= 15
      BY <3>2, <3>3, <3>4
    <3>7. Score(v, q, x) = PathScore[q][x] + c + a * 30 + d + Quality[x]
          /\ Score(w, q, x) = PathScore[q][x] + c + b * 30 + 15 + Quality[x]
      BY <3>5
    <3> HIDE DEF a, b, c, d
    <3> QED BY <3>5, <3>6, <3>7
  <2>5. Score(w, q, y) = Score(v, q, y)
    <3>1. w.weight[y] = v.weight[y]
      <4>1. v.weight[y] \in Nat /\ v.weight[y] <= MaxWeight /\ MaxWeight \in Nat
        BY <2>1, ScoreIs, SearchAssumption DEF SearchAssumption
      <4>2. w.weight[y] = ClippedBy(v.weight[y] + 0, MaxWeight)
        BY <1>7, <2>1
      <4> QED BY <4>1, <4>2 DEF ClippedBy
    <3>2. y \in w.recent <=> y \in v.recent
      BY <1>7, <2>1
    <3> QED BY <2>1, <3>1, <3>2, ScoreIs
  <2>6. Score(v, q, x) \in Int /\ Score(v, q, y) \in Int /\ Score(w, q, x) \in Int
    BY <2>1, ScoreIs
  <2>7. Score(w, q, x) > Score(w, q, y) \/ (Score(w, q, x) = Score(w, q, y) /\ x < y)
    BY <2>3, <2>4, <2>5, <2>6
  <2> QED BY <2>1, <2>7, PathsAreOrdered
<1> HIDE DEF R, Q
<1> QED BY <1>3, <1>4, <1>5, <1>7, ForemostStay

-----------------------------------------------------------------------------
(* search: the rows a route may give.                                          *)

GoodRow(c, r) ==
  /\ r.path \in Path /\ r.line \in Int /\ r.score \in Int /\ Allowed(c, r.path)
  /\ DOMAIN r = {"path", "line", "hits", "why", "score"}
GoodRows(c, rows) == IsFiniteSet(rows) /\ \A r \in rows : GoodRow(c, r)

LEMMA SignalsTyped ==
  ASSUME NEW v, ViewTyped(v), NEW p \in Path, NEW s \in Int
  PROVE  Signals(v, p, s) \in Int
<1>1. Quality \in [Path -> Int] /\ FrecencyCap \in Nat /\ MaxWeight \in Nat
  BY SearchAssumption DEF SearchAssumption
<1>2. Quality[p] \in Int
  BY <1>1
<1>3. v.weight[p] \in Nat
  BY <1>1 DEF ViewTyped
<1> QED BY <1>1, <1>2, <1>3 DEF Signals, ClippedBy

LEMMA RowIsGood ==
  ASSUME NEW c, ViewTyped(ask[c].view), NEW p \in Path, Allowed(c, p), NEW line \in Int,
         NEW hits, NEW score \in Int, NEW why
  PROVE  /\ GoodRow(c, Row(c, p, line, hits, score, why))
         /\ Row(c, p, line, hits, score, why).path = p /\ Row(c, p, line, hits, score, why).why = why
<1>1. Signals(ask[c].view, p, score) \in Int
  BY SignalsTyped
<1> QED BY <1>1 DEF GoodRow, Row

LEMMA ScoresTyped ==
  ASSUME NEW q \in Query, NEW p \in Path
  PROVE  PathScore[q][p] \in Int /\ TokenScore[q][p] \in Int
<1>1. PathScore \in [Query -> [Path -> 0..100]] /\ TokenScore \in [Query -> [Path -> 0..100]]
  BY SearchAssumption DEF SearchAssumption
<1>2. PathScore[q] \in [Path -> 0..100] /\ TokenScore[q] \in [Path -> 0..100]
  BY <1>1
<1>3. PathScore[q][p] \in 0..100 /\ TokenScore[q][p] \in 0..100
  BY <1>2
<1> QED BY <1>3

LEMMA FewAreFinite ==
  ASSUME NEW S, S \subseteq 1..2
  PROVE  IsFiniteSet(S)
<1>1. IsFiniteSet(1..2)
  BY ONLY FS_Interval, 1 \in Int, 2 \in Int
<1> QED BY <1>1, FS_Subset

LEMMA GoodImage ==
  ASSUME NEW c, NEW S, IsFiniteSet(S), NEW f, \A x \in S : GoodRow(c, f[x])
  PROVE  GoodRows(c, {f[x] : x \in S})
<1>1. IsFiniteSet({f[x] : x \in S})
  BY ImageIsFinite
<1> QED BY <1>1 DEF GoodRows

FffRows(c, list) == {Row(c, list[i], 0, 1, 101 - i, "fff") : i \in {j \in DOMAIN list : Allowed(c, list[j])}}

LEMMA FffRowsGood ==
  ASSUME NEW c, ViewTyped(ask[c].view), NEW list, DOMAIN list \subseteq 1..2, \A i \in DOMAIN list : list[i] \in Path
  PROVE  GoodRows(c, FffRows(c, list))
<1> DEFINE S == {j \in DOMAIN list : Allowed(c, list[j])}
           f == [i \in S |-> Row(c, list[i], 0, 1, 101 - i, "fff")]
<1>1. S \subseteq 1..2
  OBVIOUS
<1>2. IsFiniteSet(S)
  <2> HIDE DEF S
  <2> QED BY <1>1, FewAreFinite
<1>3. \A i \in S : GoodRow(c, f[i])
  <2> TAKE i \in S
  <2>1. list[i] \in Path /\ Allowed(c, list[i]) /\ 101 - i \in Int
    BY <1>1
  <2>2. GoodRow(c, Row(c, list[i], 0, 1, 101 - i, "fff"))
    BY <2>1, RowIsGood
  <2> QED BY <2>2
<1>4. FffRows(c, list) = {f[i] : i \in S}
  BY DEF FffRows
<1> HIDE DEF S, f
<1> QED BY <1>2, <1>3, <1>4, GoodImage

LEMMA PathRoutesGood ==
  ASSUME NEW c, ViewTyped(ask[c].view), tree \subseteq Path, NEW q \in Query, NEW found \in PathRoutes(c, q)
  PROVE  GoodRows(c, found)
<1>1. GoodRows(c, NativePaths(c, q))
  <2> DEFINE S == {r \in tree : Allowed(c, r) /\ PathScore[q][r] > 0}
             f == [p \in S |-> Row(c, p, 0, 1, PathScore[q][p], "path")]
  <2>1. S \subseteq Path /\ IsFiniteSet(S)
    <3>1. S \subseteq Path
      OBVIOUS
    <3> HIDE DEF S
    <3> QED BY <3>1, FS_Subset, SearchAssumption DEF SearchAssumption
  <2>2. \A p \in S : GoodRow(c, f[p])
    <3> TAKE p \in S
    <3>1. p \in Path /\ Allowed(c, p) /\ PathScore[q][p] \in Int
      BY <2>1, ScoresTyped
    <3>2. GoodRow(c, Row(c, p, 0, 1, PathScore[q][p], "path"))
      BY <3>1, RowIsGood
    <3> QED BY <3>2
  <2>3. NativePaths(c, q) = {f[p] : p \in S}
    BY DEF NativePaths
  <2> HIDE DEF S, f
  <2> QED BY <2>1, <2>2, <2>3, GoodImage
<1>2. GoodRows(c, FuzzyPaths(c, q))
  <2> DEFINE S == {r \in tree : Allowed(c, r) /\ TokenScore[q][r] > 0}
             f == [p \in S |-> Row(c, p, 0, 1, TokenScore[q][p], "fuzzy")]
  <2>1. S \subseteq Path /\ IsFiniteSet(S)
    <3>1. S \subseteq Path
      OBVIOUS
    <3> HIDE DEF S
    <3> QED BY <3>1, FS_Subset, SearchAssumption DEF SearchAssumption
  <2>2. \A p \in S : GoodRow(c, f[p])
    <3> TAKE p \in S
    <3>1. p \in Path /\ Allowed(c, p) /\ TokenScore[q][p] \in Int
      BY <2>1, ScoresTyped
    <3>2. GoodRow(c, Row(c, p, 0, 1, TokenScore[q][p], "fuzzy"))
      BY <3>1, RowIsGood
    <3> QED BY <3>2
  <2>3. FuzzyPaths(c, q) = {f[p] : p \in S}
    BY DEF FuzzyPaths
  <2> HIDE DEF S, f
  <2> QED BY <2>1, <2>2, <2>3, GoodImage
<1>3. \A rows \in FffPaths(c, q) : GoodRows(c, rows)
  <2> TAKE rows \in FffPaths(c, q)
  <2>1. PICK list \in {<<>>} \cup {<<p>> : p \in Path} \cup {<<p, r>> : p, r \in Path} :
          rows = {Row(c, list[i], 0, 1, 101 - i, "fff") : i \in {j \in DOMAIN list : Allowed(c, list[j])}}
    BY DEF FffPaths
  <2>2. DOMAIN list \subseteq 1..2 /\ \A i \in DOMAIN list : list[i] \in Path
    <3>1. CASE list = <<>>
      BY <3>1
    <3>2. ASSUME NEW p \in Path, list = <<p>> PROVE DOMAIN list \subseteq 1..2 /\ \A i \in DOMAIN list : list[i] \in Path
      BY <3>2
    <3>3. ASSUME NEW p \in Path, NEW r \in Path, list = <<p, r>>
          PROVE DOMAIN list \subseteq 1..2 /\ \A i \in DOMAIN list : list[i] \in Path
      BY <3>3
    <3> QED BY <3>1, <3>2, <3>3
  <2>3. rows = FffRows(c, list)
    BY <2>1 DEF FffRows
  <2>4. GoodRows(c, FffRows(c, list))
    BY <2>2, FffRowsGood
  <2> QED BY <2>3, <2>4
<1> QED BY <1>1, <1>2, <1>3 DEF PathRoutes, FuzzyFloor

LEMMA LineRowsGood ==
  ASSUME NEW c, ViewTyped(ask[c].view), tree \subseteq Path, NEW q \in Query, NEW S \in SUBSET TokenMatch[q], NEW why
  PROVE  GoodRows(c, LineRows(c, Searchable(c, S), why))
<1> DEFINE sites == Searchable(c, S)
<1>1. IsFiniteSet(sites) /\ \A s \in sites : s[1] \in Path /\ s[2] \in Nat /\ Allowed(c, s[1])
  <2>1. sites \subseteq TokenMatch[q] /\ \A s \in sites : Allowed(c, s[1])
    BY DEF Searchable
  <2>2. TokenMatch[q] \subseteq Path \X Nat /\ IsFiniteSet(TokenMatch[q])
    BY SearchAssumption DEF SearchAssumption
  <2> HIDE DEF sites
  <2> QED BY <2>1, <2>2, FS_Subset
<1> HIDE DEF sites
<1>2. CASE question[c].kind = "lines"
  <2> DEFINE f == [s \in sites |-> Row(c, s[1], s[2], 1, 100, why)]
  <2>1. \A s \in sites : GoodRow(c, f[s])
    BY <1>1, RowIsGood
  <2>2. LineRows(c, sites, why) = {f[s] : s \in sites}
    BY <1>2 DEF LineRows
  <2> HIDE DEF f
  <2> QED BY <1>1, <2>1, <2>2, GoodImage DEF sites
<1>3. GoodRows(c, Collapsed(c, sites, why))
  <2> DEFINE at(p) == {s \in sites : s[1] = p}
             here(p) == {site[2] : site \in at(p)}
             inside(p) == {l \in here(p) : EnclosingSymbols(p, l) # {}}
             outside(p) == {l \in here(p) \ inside(p) : inside(p) # {} => <<p, l>> \notin ImportLine}
             within(p, s) == {l \in here(p) : EnclosingSymbols(p, l) = s}
             symbols(p) == {EnclosingSymbols(p, l) : l \in inside(p)}
             InRow(p, s) == Row(c, p, Min(within(p, s)), Cardinality(within(p, s)), 100, why)
             OutRow(p, l) == Row(c, p, l, 1, 100, why)
             ins(p) == {InRow(p, s) : s \in symbols(p)}
             outs(p) == {OutRow(p, l) : l \in outside(p)}
             parts == [p \in Path |-> ins(p) \cup outs(p)]
  <2>1. Collapsed(c, sites, why) = UNION {parts[p] : p \in Path}
    BY DEF Collapsed
  <2>2. ASSUME NEW p \in Path PROVE IsFiniteSet(here(p)) /\ here(p) \subseteq Nat /\ (here(p) # {} => Allowed(c, p))
    <3> DEFINE g == [s \in at(p) |-> s[2]]
    <3>1. IsFiniteSet(at(p))
      <4>1. at(p) \subseteq sites
        OBVIOUS
      <4> QED BY <1>1, <4>1, FS_Subset
    <3>2. here(p) = {g[s] : s \in at(p)}
      OBVIOUS
    <3>3. IsFiniteSet({g[s] : s \in at(p)})
      <4> HIDE DEF g, at
      <4> QED BY <3>1, ImageIsFinite
    <3>4. here(p) \subseteq Nat /\ (here(p) # {} => Allowed(c, p))
      BY <1>1
    <3> QED BY <3>2, <3>3, <3>4
  <2>3. ASSUME NEW p \in Path PROVE IsFiniteSet(parts[p]) /\ \A r \in parts[p] : GoodRow(c, r)
    <3> DEFINE H == here(p)
               I == inside(p)
               O == outside(p)
    <3>1. IsFiniteSet(H) /\ H \subseteq Nat /\ (H # {} => Allowed(c, p)) /\ I \subseteq H /\ O \subseteq H
      BY <2>2
    <3>2. IsFiniteSet(I) /\ IsFiniteSet(O)
      <4> HIDE DEF H, I, O
      <4> QED BY <3>1, FS_Subset
    <3>3. IsFiniteSet(symbols(p))
      <4> DEFINE g == [l \in I |-> EnclosingSymbols(p, l)]
      <4>1. symbols(p) = {g[l] : l \in I}
        OBVIOUS
      <4> HIDE DEF g, I, symbols
      <4> QED BY <3>2, <4>1, ImageIsFinite
    <3>4. \A s \in symbols(p) : GoodRow(c, InRow(p, s))
      <4> TAKE s \in symbols(p)
      <4> DEFINE L == within(p, s)
      <4>1. L \subseteq H /\ L # {}
        OBVIOUS
      <4>2. IsFiniteSet(L) /\ L \in SUBSET Int
        <5> HIDE DEF L, H
        <5>1. IsFiniteSet(L)
          BY <3>1, <4>1, FS_Subset
        <5>2. L \subseteq Int
          BY <3>1, <4>1
        <5> QED BY <5>1, <5>2
      <4>3. Min(L) \in Int
        <5> HIDE DEF L
        <5> QED BY <4>1, <4>2, MinOfFinite
      <4>4. Allowed(c, p)
        BY <3>1, <4>1
      <4> HIDE DEF L
      <4>5. GoodRow(c, Row(c, p, Min(L), Cardinality(L), 100, why))
        BY <4>3, <4>4, RowIsGood
      <4> QED BY <4>5 DEF L
    <3>5. \A l \in O : GoodRow(c, OutRow(p, l))
      <4> TAKE l \in O
      <4>1. l \in Int /\ Allowed(c, p)
        <5> HIDE DEF H, O
        <5> QED BY <3>1
      <4>2. GoodRow(c, Row(c, p, l, 1, 100, why))
        BY <4>1, RowIsGood
      <4> QED BY <4>2
    <3>6. IsFiniteSet(ins(p)) /\ IsFiniteSet(outs(p))
      <4> DEFINE f == [s \in symbols(p) |-> InRow(p, s)]
                 g == [l \in O |-> OutRow(p, l)]
      <4>1. ins(p) = {f[s] : s \in symbols(p)} /\ outs(p) = {g[l] : l \in O}
        OBVIOUS
      <4> HIDE DEF f, g, ins, outs, symbols, O
      <4> QED BY <3>2, <3>3, <4>1, ImageIsFinite
    <3>7. IsFiniteSet(ins(p) \cup outs(p))
      <4> HIDE DEF ins, outs
      <4> QED BY <3>6, FS_Union
    <3>8. \A r \in ins(p) \cup outs(p) : GoodRow(c, r)
      <4> HIDE DEF InRow, OutRow, symbols
      <4> QED BY <3>4, <3>5
    <3> HIDE DEF ins, outs
    <3> QED BY <3>7, <3>8
  <2> HIDE DEF parts
  <2>4. IsFiniteSet({parts[p] : p \in Path})
    <3>1. IsFiniteSet(Path)
      BY SearchAssumption DEF SearchAssumption
    <3> QED BY <3>1, ImageIsFinite
  <2>5. IsFiniteSet(UNION {parts[p] : p \in Path})
    BY <2>3, <2>4, FS_UNION
  <2> QED BY <2>1, <2>3, <2>5 DEF GoodRows
<1> QED BY <1>2, <1>3 DEF LineRows, sites

\* Of several queries' rows, each row kept is one of a path some query found.
LEMMA MergedGood ==
  ASSUME NEW c, NEW found, \A s \in Query : GoodRows(c, found[s])
  PROVE  \A r \in Merged(found) : r.path \in Path /\ Allowed(c, r.path)
<1> DEFINE all == UNION {found[s] : s \in Query}
           rowsOf(p) == UNION {{r \in found[s] : r.path = p} : s \in Query}
           First(rows) == CHOOSE r \in rows : \A s \in rows : ~RanksBefore(s, r)
           MergedRow(p) == [First(rowsOf(p)) EXCEPT !.score = Max({r.score : r \in rowsOf(p)})]
<1>1. Merged(found) = {MergedRow(p) : p \in {r.path : r \in all}}
  BY DEF Merged
<1>2. IsFiniteSet(all) /\ \A r \in all : GoodRow(c, r)
  <2> DEFINE f == [s \in Query |-> found[s]]
  <2>1. all = UNION {f[s] : s \in Query}
    OBVIOUS
  <2>2. \A s \in Query : IsFiniteSet(f[s]) /\ \A r \in f[s] : GoodRow(c, r)
    BY DEF GoodRows
  <2> HIDE DEF f, all
  <2>3. IsFiniteSet(Query)
    BY SearchAssumption DEF SearchAssumption
  <2>4. IsFiniteSet({f[s] : s \in Query})
    BY <2>3, ImageIsFinite
  <2>5. IsFiniteSet(UNION {f[s] : s \in Query})
    BY <2>2, <2>4, FS_UNION
  <2> QED BY <2>1, <2>2, <2>5
<1>3. \A p : rowsOf(p) = {r \in all : r.path = p}
  OBVIOUS
<1> HIDE DEF all
<1>4. ASSUME NEW p \in {r.path : r \in all} PROVE First(rowsOf(p)) \in rowsOf(p)
  <2> DEFINE rows == rowsOf(p)
  <2>1. rows # {} /\ IsFiniteSet(rows) /\ \A r \in rows : r.score \in Int /\ r.line \in Int /\ r.path = p
    <3>1. rows = {r \in all : r.path = p}
      BY <1>3
    <3>2. rows \subseteq all /\ rows # {}
      BY <1>4, <3>1
    <3> HIDE DEF rows
    <3>3. IsFiniteSet(rows)
      BY <1>2, <3>2, FS_Subset
    <3> QED BY <1>2, <3>1, <3>2, <3>3 DEF GoodRow
  <2> HIDE DEF rows
  <2>2. PICK best \in rows : \A s \in rows : best.score >= s.score
    <3> DEFINE f == [r \in rows |-> r.score]
               scores == {f[r] : r \in rows}
    <3>1. scores # {} /\ scores \in SUBSET Int
      BY <2>1
    <3>2. IsFiniteSet(scores)
      <4> HIDE DEF f
      <4> QED BY <2>1, ImageIsFinite
    <3>3. \E m \in scores : \A y \in scores : m >= y
      <4> HIDE DEF scores
      <4> QED BY <3>1, <3>2, MaxOfFinite
    <3> QED BY <3>3
  <2> DEFINE bests == {r \in rows : r.score = best.score}
  <2>3. PICK first \in bests : \A s \in bests : first.line <= s.line
    <3> DEFINE f == [r \in bests |-> r.line]
               lines == {f[r] : r \in bests}
    <3>1. lines # {} /\ lines \in SUBSET Int
      BY <2>1, <2>2
    <3>2. IsFiniteSet(lines)
      <4>1. bests \subseteq rows
        OBVIOUS
      <4> HIDE DEF f, bests
      <4>2. IsFiniteSet(bests)
        BY <2>1, <4>1, FS_Subset
      <4> QED BY <4>2, ImageIsFinite
    <3>3. \E m \in lines : \A y \in lines : m <= y
      <4> HIDE DEF lines
      <4> QED BY <3>1, <3>2, MinOfFinite
    <3> QED BY <3>3
  <2>4. \A s \in rows : ~RanksBefore(s, first)
    <3> TAKE s \in rows
    <3>1. /\ first \in rows /\ first.score = best.score /\ best.score >= s.score
          /\ (s.score = best.score => first.line <= s.line)
      BY <2>2, <2>3
    <3>2. /\ s.score \in Int /\ first.score \in Int /\ s.line \in Int /\ first.line \in Int /\ s.path = p /\ first.path = p
      BY <2>1, <3>1
    <3>3. p \in Int
      <4>1. \E r \in all : r.path = p
        BY <1>4
      <4>2. p \in Path
        BY <1>2, <4>1 DEF GoodRow
      <4> QED BY <4>2, SearchAssumption DEF SearchAssumption
    <3> QED BY <3>1, <3>2, <3>3 DEF RanksBefore
  <2>5. \E r \in rows : \A s \in rows : ~RanksBefore(s, r)
    BY <2>3, <2>4
  <2> QED BY <2>5 DEF rows
<1>5. ASSUME NEW p \in {r.path : r \in all} PROVE MergedRow(p).path = p /\ p \in Path /\ Allowed(c, p)
  <2> DEFINE r == First(rowsOf(p))
  <2>1. r \in all /\ r.path = p
    BY <1>3, <1>4
  <2> HIDE DEF r, First
  <2>2. GoodRow(c, r)
    BY <1>2, <2>1
  <2>3. MergedRow(p).path = r.path
    BY <2>2 DEF GoodRow, r
  <2> QED BY <2>1, <2>2, <2>3 DEF GoodRow
<1> HIDE DEF MergedRow
<1> QED BY <1>1, <1>5

-----------------------------------------------------------------------------
(* search: the invariant.                                                      *)

CallTyped(call) ==
  /\ call.at \in {"idle", "begun", "ranked", "asked", "found"}
  /\ call.at \in {"ranked", "asked"} => ViewTyped(call.view)
  /\ call.at = "found" => call.due \subseteq DOMAIN call.gain /\ \A s \in call.due : call.gain[s] \in [Path -> Nat]

SearchTyped ==
  /\ tree \subseteq Path /\ weight \in [Path -> 0..MaxWeight]
  /\ question \in [Callers -> Questions] /\ still \in [Callers -> {-1, 0, 1}]
  /\ ask = [c \in Callers |-> ask[c]] /\ answer = [c \in Callers |-> answer[c]]
  /\ wasDirty = [c \in Callers |-> wasDirty[c]]
  /\ \A c \in Callers : CallTyped(ask[c]) /\ (ask[c].at # "idle" => dirty \subseteq wasDirty[c])

\* What an answer promises of its filter.
Honest(filter, reply, met) ==
  /\ reply.warned = Dropped(filter)
  /\ reply.warned # {} => reply.confidence # "high"
  /\ \A p \in reply.window : p \in Path /\ \A token \in filter :
       /\ Satisfies(Parsed(token), p)
       /\ Parsed(token).kind \in {"modified", "untracked"} => p \in met

FilterHold(c) ==
  /\ ask[c].at = "asked" => ask[c].modified \subseteq wasDirty[c]
  /\ ask[c].at = "found" => Honest(question[c].filter, ask[c].reply, wasDirty[c])
  /\ ask[c].at = "idle" => answer[c] = NoAnswer \/ Honest(question[c].filter, answer[c], wasDirty[c])

World == [dirty |-> dirty, weight |-> weight, recent |-> recent]

\* The world is what showing a window has made of a view that had it for its top.
Shown(filter, q, window) ==
  \E v : /\ ViewTyped(v) /\ v.dirty = dirty /\ window = TopPaths(v, filter, q)
         /\ \A p \in Path : weight[p] = ClippedBy(v.weight[p] + (IF p \in window THEN 1 ELSE 0), MaxWeight)
         /\ \A p \in Path : p \in recent <=> p \in v.recent \/ p \in window

\* A window about to be recorded is the top of the world as it is.
Tops(filter, q, window, gain) ==
  /\ window = TopPaths(World, filter, q) /\ window # {} /\ window \subseteq Path
  /\ \A p \in Path : gain[p] = IF p \in window THEN 1 ELSE 0

RepeatHold(c) ==
  /\ ask[c].at = "begun" /\ still[c] >= 0 => ask[c].dirty = dirty
  /\ ask[c].at \in {"ranked", "asked"} /\ still[c] >= 0 => ask[c].view = World
  /\ ask[c].at = "asked" /\ still[c] >= 0 => ask[c].modified = dirty
  /\ ask[c].at = "found" /\ still[c] >= 0 /\ question[c].kind = "files" /\ ask[c].reply.native =>
       /\ Tops(question[c].filter, question[c].query, ask[c].reply.window, ask[c].gain[question[c].query])
       /\ ask[c].due = {question[c].query}
  /\ ask[c].at = "found" /\ question[c].kind = "files" => ask[c].due \subseteq {question[c].query}
  /\ still[c] = 1 /\ question[c].kind = "files" /\ answer[c].native =>
       Shown(question[c].filter, question[c].query, answer[c].window)

SearchInv == SearchTyped /\ \A c \in Callers : FilterHold(c) /\ RepeatHold(c)

LEMMA SearchInitHolds == SearchInit => SearchInv
<1> SUFFICES ASSUME SearchInit PROVE SearchInv
  OBVIOUS
<1>1. weight \in [Path -> 0..MaxWeight]
  <2>1. FrecencyCap \in 0..MaxWeight /\ 0 \in 0..MaxWeight
    BY SearchAssumption DEF SearchAssumption
  <2> QED BY <2>1 DEF SearchInit
<1>2. SearchTyped
  BY <1>1 DEF SearchInit, SearchTyped, CallTyped, NoAsk
<1>3. \A c \in Callers : FilterHold(c) /\ RepeatHold(c)
  BY DEF SearchInit, FilterHold, RepeatHold, NoAsk
<1> QED BY <1>2, <1>3 DEF SearchInv

LEMMA QuestionIs ==
  ASSUME SearchTyped, NEW c \in Callers
  PROVE  /\ question[c].kind \in {"files", "content", "lines", "multi", "changed", "todos", "tests"}
         /\ question[c].kind \in {"files", "content", "lines"} => question[c].query \in Query
         /\ question[c].kind \in {"changed", "todos", "tests"} => question[c].filter = {}
<1>1. question[c] \in Questions
  BY DEF SearchTyped
<1> QED BY <1>1 DEF Questions

\* What was shown stays shown while nothing moves.
LEMMA ShownStays ==
  ASSUME tree' = tree, dirty' = dirty, weight' = weight, recent' = recent
  PROVE  /\ World' = World
         /\ \A v, f, q : TopPaths(v, f, q)' = TopPaths(v, f, q)
         /\ \A f, q, w, g : Tops(f, q, w, g)' = Tops(f, q, w, g)
         /\ \A f, q, w : Shown(f, q, w)' = Shown(f, q, w)
<1>1. World' = World
  BY DEF World
<1>2. \A v, f, q : TopPaths(v, f, q)' = TopPaths(v, f, q)
  <2>1. \A f, m, p : Passes(f, m, p)' = Passes(f, m, p)
    BY DEF Passes, Keeps
  <2>2. \A v, f, q : Eligible(v, f, q)' = Eligible(v, f, q)
    BY <2>1 DEF Eligible
  <2> QED BY <2>2 DEF TopPaths
<1>3. \A f, q, w, g : Tops(f, q, w, g)' = Tops(f, q, w, g)
  BY <1>1, <1>2 DEF Tops
<1>4. \A f, q, w : Shown(f, q, w)' = Shown(f, q, w)
  BY <1>2 DEF Shown
<1> QED BY <1>1, <1>2, <1>3, <1>4

\* What holds of a caller depends on its own call and on the world alone.
LEMMA OthersHold ==
  ASSUME SearchTyped, NEW d \in Callers, FilterHold(d), RepeatHold(d),
         question' = question, ask'[d] = ask[d], answer'[d] = answer[d],
         wasDirty[d] \subseteq wasDirty'[d],
         \/ tree' = tree /\ dirty' = dirty /\ weight' = weight /\ recent' = recent /\ still'[d] = still[d]
         \/ still'[d] = (IF ask[d].at = "idle" THEN 0 ELSE -1)
  PROVE  FilterHold(d)' /\ RepeatHold(d)'
<1>1. FilterHold(d)'
  <2>1. \A f, r, w : Honest(f, r, w)' = Honest(f, r, w)
    BY DEF Honest
  <2>2. \A f, r : Honest(f, r, wasDirty[d]) => Honest(f, r, wasDirty'[d])
    BY DEF Honest
  <2> QED BY <2>1, <2>2 DEF FilterHold
<1>2. ASSUME tree' = tree /\ dirty' = dirty /\ weight' = weight /\ recent' = recent /\ still'[d] = still[d]
      PROVE RepeatHold(d)'
  BY <1>2, ShownStays DEF RepeatHold
<1>3. ASSUME still'[d] = (IF ask[d].at = "idle" THEN 0 ELSE -1)
      PROVE RepeatHold(d)'
  BY <1>3 DEF RepeatHold
<1> QED BY <1>1, <1>2, <1>3

LEMMA SearchWorldStep ==
  ASSUME SearchInv, WorldMoves
  PROVE  SearchInv'
<1> USE DEF SearchInv
<1>1. UNCHANGED <<question, ask, answer>>
  BY DEF WorldMoves
<1>2. \A d \in Callers : /\ still'[d] = (IF ask[d].at = "idle" THEN 0 ELSE -1)
                         /\ wasDirty[d] \subseteq wasDirty'[d]
  BY DEF WorldMoves, Disturbs
<1>3. \A d \in Callers : FilterHold(d)' /\ RepeatHold(d)'
  BY <1>1, <1>2, OthersHold
<1>4. tree' \subseteq Path /\ weight' \in [Path -> 0..MaxWeight]
  <2>1. tree' \subseteq Path
    BY DEF WorldMoves, SearchTyped
  <2>2. ASSUME weight' = weight PROVE weight' \in [Path -> 0..MaxWeight]
    BY <2>2 DEF SearchTyped
  <2>3. ASSUME weight' = [p \in Path |-> weight[p] \div 2] PROVE weight' \in [Path -> 0..MaxWeight]
    <3>1. weight \in [Path -> 0..MaxWeight] /\ MaxWeight \in Nat
      BY SearchAssumption DEF SearchTyped, SearchAssumption
    <3>2. \A p \in Path : weight[p] \in 0..MaxWeight
      BY <3>1
    <3>3. \A n \in 0..MaxWeight : n \div 2 \in 0..MaxWeight
      BY <3>1
    <3> QED BY <2>3, <3>2, <3>3
  <2> QED BY <2>1, <2>2, <2>3 DEF WorldMoves
<1>5. still' \in [Callers -> {-1, 0, 1}] /\ wasDirty' = [d \in Callers |-> wasDirty'[d]]
  <2>1. still' = [d \in Callers |-> IF ask[d].at = "idle" THEN 0 ELSE -1]
    BY DEF WorldMoves, Disturbs
  <2>2. wasDirty' = [d \in Callers |-> wasDirty[d] \cup (IF ask[d].at = "idle" THEN {} ELSE dirty')]
    BY DEF WorldMoves
  <2> QED BY <2>1, <2>2
<1>6. \A d \in Callers : ask'[d].at # "idle" => dirty' \subseteq wasDirty'[d]
  BY DEF WorldMoves
<1>7. SearchTyped'
  BY <1>1, <1>4, <1>5, <1>6 DEF SearchTyped, CallTyped, ViewTyped
<1> QED BY <1>3, <1>7

\* Of a call that takes a step, whatever it is: what is typed stays typed.
LEMMA CallMoves ==
  ASSUME SearchTyped, NEW c \in Callers, NEW call, ask' = [ask EXCEPT ![c] = call], CallTyped(call),
         tree' = tree, dirty' = dirty, question' = question,
         weight' \in [Path -> 0..MaxWeight], still' \in [Callers -> {-1, 0, 1}],
         answer' = [d \in Callers |-> answer'[d]], wasDirty' = [d \in Callers |-> wasDirty'[d]],
         \A d \in Callers \ {c} : wasDirty'[d] = wasDirty[d],
         call.at # "idle" => dirty \subseteq wasDirty'[c]
  PROVE  /\ SearchTyped' /\ ask'[c] = call
         /\ \A d \in Callers \ {c} : ask'[d] = ask[d]
<1>1. ask'[c] = call /\ \A d \in Callers \ {c} : ask'[d] = ask[d]
  BY DEF SearchTyped
<1>2. ask' = [d \in Callers |-> ask'[d]]
  BY DEF SearchTyped
<1>3. \A d \in Callers : CallTyped(ask'[d]) /\ (ask'[d].at # "idle" => dirty' \subseteq wasDirty'[d])
  BY <1>1 DEF SearchTyped
<1>4. \A d \in Callers : CallTyped(ask[d])'
  BY <1>3 DEF CallTyped, ViewTyped
<1>5. tree' \subseteq Path /\ question' \in [Callers -> Questions]
  BY DEF SearchTyped
<1> QED BY <1>1, <1>2, <1>3, <1>4, <1>5 DEF SearchTyped

LEMMA BeginStep ==
  ASSUME SearchInv, NEW c \in Callers, SearchBegins(c)
  PROVE  SearchInv'
<1> USE DEF SearchInv
<1> DEFINE call == [at |-> "begun", dirty |-> dirty]
<1>1. /\ UNCHANGED <<tree, dirty, weight, recent, question, answer, still>>
      /\ ask' = [ask EXCEPT ![c] = call]
      /\ wasDirty' = [wasDirty EXCEPT ![c] = dirty] /\ SearchTyped
  BY DEF SearchBegins
<1>2. call.at = "begun" /\ call.dirty = dirty
  OBVIOUS
<1> HIDE DEF call
<1>3. CallTyped(call)
  BY <1>2 DEF CallTyped
<1>4. /\ wasDirty' = [d \in Callers |-> wasDirty'[d]] /\ wasDirty'[c] = dirty
      /\ \A d \in Callers \ {c} : wasDirty'[d] = wasDirty[d]
  BY <1>1 DEF SearchTyped
<1>5. SearchTyped' /\ ask'[c] = call /\ \A d \in Callers \ {c} : ask'[d] = ask[d]
  <2>1. /\ weight' \in [Path -> 0..MaxWeight] /\ still' \in [Callers -> {-1, 0, 1}]
        /\ answer' = [d \in Callers |-> answer'[d]]
    BY <1>1 DEF SearchTyped
  <2> QED BY <1>1, <1>3, <1>4, <2>1, CallMoves
<1>6. \A d \in Callers \ {c} : FilterHold(d)' /\ RepeatHold(d)'
  BY <1>1, <1>4, <1>5, OthersHold
<1>7. FilterHold(c)'
  BY <1>2, <1>5 DEF FilterHold
<1>8. RepeatHold(c)'
  BY <1>1, <1>2, <1>5, ShownStays DEF RepeatHold
<1> QED BY <1>5, <1>6, <1>7, <1>8

\* A call that has read one thing more, and found nothing yet.
LEMMA ReadMoves ==
  ASSUME SearchInv, NEW c \in Callers, NEW call, ask' = [ask EXCEPT ![c] = call], CallTyped(call),
         ask[c].at # "idle", call.at \in {"ranked", "asked"},
         UNCHANGED <<tree, dirty, weight, recent, question, answer, wasDirty, still>>,
         call.at = "asked" => call.modified = dirty,
         still[c] >= 0 => call.view = World
  PROVE  SearchInv'
<1> USE DEF SearchInv
<1>1. SearchTyped' /\ ask'[c] = call /\ \A d \in Callers \ {c} : ask'[d] = ask[d]
  <2>1. /\ weight' \in [Path -> 0..MaxWeight] /\ still' \in [Callers -> {-1, 0, 1}]
        /\ answer' = [d \in Callers |-> answer'[d]] /\ wasDirty' = [d \in Callers |-> wasDirty'[d]]
        /\ dirty \subseteq wasDirty'[c] /\ SearchTyped
    BY DEF SearchTyped
  <2> QED BY <2>1, CallMoves
<1>2. \A d \in Callers \ {c} : FilterHold(d)' /\ RepeatHold(d)'
  BY <1>1, OthersHold
<1>3. FilterHold(c)'
  <2>1. dirty \subseteq wasDirty[c]
    BY DEF SearchTyped
  <2> QED BY <1>1, <2>1 DEF FilterHold
<1>4. RepeatHold(c)'
  BY <1>1, ShownStays DEF RepeatHold
<1> QED BY <1>1, <1>2, <1>3, <1>4

LEMMA SignalsStep ==
  ASSUME SearchInv, NEW c \in Callers, ReadsSignals(c)
  PROVE  SearchInv'
<1> DEFINE call == [at |-> "ranked", view |-> [dirty |-> ask[c].dirty, weight |-> weight, recent |-> recent]]
<1>1. /\ ask[c].at = "begun" /\ ask' = [ask EXCEPT ![c] = call]
      /\ UNCHANGED <<tree, dirty, weight, recent, question, answer, wasDirty, still>>
  BY DEF ReadsSignals
<1>2. call.at = "ranked" /\ call.view = [dirty |-> ask[c].dirty, weight |-> weight, recent |-> recent]
  OBVIOUS
<1> HIDE DEF call
<1>3. weight \in [Path -> 0..MaxWeight] /\ RepeatHold(c)
  BY DEF SearchInv, SearchTyped
<1>4. CallTyped(call)
  BY <1>2, <1>3 DEF CallTyped, ViewTyped
<1>5. still[c] >= 0 => call.view = World
  BY <1>1, <1>2, <1>3 DEF RepeatHold, World
<1> QED BY <1>1, <1>2, <1>4, <1>5, ReadMoves

LEMMA ResolveStep ==
  ASSUME SearchInv, NEW c \in Callers, ResolvesFilter(c)
  PROVE  SearchInv'
<1> DEFINE call == [at |-> "asked", view |-> ask[c].view, modified |-> dirty]
<1>1. /\ ask[c].at = "ranked" /\ ask' = [ask EXCEPT ![c] = call]
      /\ UNCHANGED <<tree, dirty, weight, recent, question, answer, wasDirty, still>>
  BY DEF ResolvesFilter
<1>2. call.at = "asked" /\ call.view = ask[c].view /\ call.modified = dirty
  OBVIOUS
<1> HIDE DEF call
<1>3. CallTyped(ask[c]) /\ RepeatHold(c)
  BY DEF SearchInv, SearchTyped
<1>4. CallTyped(call)
  BY <1>1, <1>2, <1>3 DEF CallTyped
<1>5. still[c] >= 0 => call.view = World
  BY <1>1, <1>2, <1>3 DEF RepeatHold
<1> QED BY <1>1, <1>2, <1>4, <1>5, ReadMoves

Due(gain) == {q \in DOMAIN gain : \E p \in Path : gain[q][p] > 0}

\* The call becomes one that has found what it will show, with an honest reply.
HonestCall(c, window, gain, call) ==
  /\ ask' = [ask EXCEPT ![c] = call]
  /\ call.at = "found" /\ call.gain = gain /\ call.due = Due(gain)
  /\ call.reply.window = {row.path : row \in window}
  /\ call.reply.native => window # {} /\ \A row \in window : row.why = "path"
  /\ Honest(question[c].filter, call.reply, wasDirty[c])

\* What a reply promises, of whatever rows it is made.
LEMMA FoundIsHonest ==
  ASSUME SearchTyped, NEW c \in Callers, FilterHold(c), NEW window, NEW gain, Found(c, window, gain),
         \/ question[c].filter = {} /\ \A r \in window : r.path \in Path
         \/ ask[c].at = "asked" /\ \A r \in window : r.path \in Path /\ Allowed(c, r.path)
  PROVE  \E call : HonestCall(c, window, gain, call)
<1> DEFINE ignored == Dropped(question[c].filter)
           reply == [window |-> {row.path : row \in window},
                     native |-> window # {} /\ \A row \in window : row.why = "path",
                     warned |-> ignored,
                     confidence |-> IF window = {} THEN "low"
                                    ELSE IF ignored # {} THEN "medium" ELSE "high"]
           call == [at |-> "found", reply |-> reply, gain |-> gain, due |-> Due(gain)]
<1>1. ask' = [ask EXCEPT ![c] = call]
  BY DEF Found, Due
<1>2. \A p \in reply.window : p \in Path /\ \A token \in question[c].filter :
        Satisfies(Parsed(token), p) /\ (Parsed(token).kind \in {"modified", "untracked"} => p \in wasDirty[c])
  <2> TAKE p \in reply.window
  <2>1. p \in Path /\ (question[c].filter = {} \/ (ask[c].at = "asked" /\ Allowed(c, p)))
    OBVIOUS
  <2>2. CASE question[c].filter = {}
    BY <2>1, <2>2
  <2>3. CASE ask[c].at = "asked" /\ Allowed(c, p)
    <3>1. ask[c].modified \subseteq wasDirty[c]
      BY <2>3 DEF FilterHold
    <3>2. \A token \in question[c].filter : Keeps(Parsed(token), ask[c].modified, p)
      BY <2>3 DEF Allowed, Passes
    <3>3. \A token \in question[c].filter :
            Satisfies(Parsed(token), p) /\ (Parsed(token).kind \in {"modified", "untracked"} => p \in ask[c].modified)
      BY <3>2 DEF Keeps
    <3> QED BY <2>1, <3>1, <3>3
  <2> QED BY <2>1, <2>2, <2>3
<1>3. reply.warned = ignored /\ (ignored # {} => reply.confidence # "high")
  OBVIOUS
<1>4. Honest(question[c].filter, reply, wasDirty[c])
  <2> HIDE DEF reply
  <2> QED BY <1>2, <1>3 DEF Honest
<1>5. /\ reply.window = {row.path : row \in window}
      /\ reply.native => window # {} /\ \A row \in window : row.why = "path"
  OBVIOUS
<1>6. call.at = "found" /\ call.gain = gain /\ call.due = Due(gain) /\ call.reply = reply
  OBVIOUS
<1> HIDE DEF reply, call
<1>7. HonestCall(c, window, gain, call)
  BY <1>1, <1>4, <1>5, <1>6 DEF HonestCall
<1> QED BY <1>7

LEMMA GainTyped ==
  ASSUME NEW window, IsFiniteSet(window)
  PROVE  FrecencyGain(window) \in [Path -> Nat]
<1>1. \A p \in Path : Cardinality({row \in window : row.path = p}) \in Nat
  BY FS_Subset, FS_CardinalityType
<1> QED BY <1>1 DEF FrecencyGain

LEMMA WindowIsOf ==
  ASSUME NEW rows, NEW n
  PROVE  Window(rows, n) \subseteq rows /\ (IsFiniteSet(rows) => IsFiniteSet(Window(rows, n)))
<1>1. Window(rows, n) \subseteq rows
  BY DEF Window
<1> QED BY <1>1, FS_Subset

\* A native answer is the foremost of the native rows, each with one row.
LEMMA NativeIsTop ==
  ASSUME NEW c, tree \subseteq Path, NEW q \in Query, NEW found \in PathRoutes(c, q),
         ask[c].view = World, ask[c].modified = dirty,
         NEW window, window = Window(found, MaxLimit), window # {}, \A row \in window : row.why = "path"
  PROVE  Tops(question[c].filter, q, {row.path : row \in window}, FrecencyGain(window))
<1> DEFINE filter == question[c].filter
           rows == NativeIn(World, filter, q)
<1>1. found = rows
  <2>1. PICK r \in window : r.why = "path"
    OBVIOUS
  <2>2. r \in found
    BY <2>1, WindowIsOf
  <2>3. r \notin FuzzyPaths(c, q)
    BY <2>1 DEF FuzzyPaths, Row
  <2>4. found \notin FffPaths(c, q)
    BY <2>1, <2>2 DEF FffPaths, Row
  <2>5. found = NativePaths(c, q)
    BY <2>2, <2>3, <2>4 DEF PathRoutes, FuzzyFloor
  <2>6. Eligible(World, filter, q) = {r2 \in tree : Allowed(c, r2) /\ PathScore[q][r2] > 0}
    BY DEF Eligible, Allowed, World
  <2>7. \A p : PathRow(World, q, p) = Row(c, p, 0, 1, PathScore[q][p], "path")
    BY DEF PathRow, Row, Score
  <2>8. NativePaths(c, q) = {Row(c, p, 0, 1, PathScore[q][p], "path") : p \in Eligible(World, filter, q)}
    BY <2>6 DEF NativePaths
  <2> QED BY <2>5, <2>7, <2>8 DEF NativeIn
<1>2. {row.path : row \in window} = TopPaths(World, filter, q)
  BY <1>1, WindowIsTop
<1>3. \A r, s \in rows : r.path = s.path => r = s
  BY DEF NativeIn, PathRow
<1>4. window \subseteq rows
  BY <1>1, WindowIsOf
<1> DEFINE T == {row.path : row \in window}
<1>5. T # {} /\ T \subseteq Path
  <2>1. \A r \in rows : r.path \in Path
    BY DEF NativeIn, PathRow, Eligible
  <2> QED BY <1>4, <2>1
<1>6. \A p \in Path : FrecencyGain(window)[p] = IF p \in T THEN 1 ELSE 0
  <2> TAKE p \in Path
  <2> DEFINE here == {row \in window : row.path = p}
  <2>1. FrecencyGain(window)[p] = Cardinality(here)
    BY DEF FrecencyGain
  <2>2. ASSUME p \in T PROVE Cardinality(here) = 1
    <3>1. PICK r \in window : r.path = p
      BY <2>2
    <3>2. here = {r}
      BY <1>3, <1>4, <3>1
    <3> HIDE DEF here
    <3> QED BY <3>2, FS_Singleton
  <2>3. ASSUME p \notin T PROVE Cardinality(here) = 0
    <3>1. here = {}
      BY <2>3
    <3> HIDE DEF here
    <3> QED BY <3>1, FS_EmptySet
  <2> QED BY <2>1, <2>2, <2>3
<1> HIDE DEF T
<1> QED BY <1>2, <1>5, <1>6 DEF Tops, T

\* A call that has found what it will show.
LEMMA FindStep ==
  ASSUME SearchInv, NEW c \in Callers, ask[c].at # "idle", NEW window, NEW gain, Found(c, window, gain),
         UNCHANGED <<tree, dirty, weight, recent, question, answer, wasDirty, still>>,
         \A s \in DOMAIN gain : gain[s] \in [Path -> Nat],
         \/ question[c].filter = {} /\ \A r \in window : r.path \in Path
         \/ ask[c].at = "asked" /\ \A r \in window : r.path \in Path /\ Allowed(c, r.path),
         question[c].kind = "files" => DOMAIN gain = {question[c].query},
         question[c].kind = "files" /\ still[c] >= 0 /\ window # {} /\ (\A row \in window : row.why = "path") =>
           Tops(question[c].filter, question[c].query, {row.path : row \in window}, gain[question[c].query])
  PROVE  SearchInv'
<1> USE DEF SearchInv
<1> DEFINE filter == question[c].filter
           q == question[c].query
           kind == question[c].kind
<1>0. PICK call : HonestCall(c, window, gain, call)
  <2>1. SearchTyped /\ FilterHold(c)
    OBVIOUS
  <2>2. \/ question[c].filter = {} /\ \A r \in window : r.path \in Path
        \/ ask[c].at = "asked" /\ \A r \in window : r.path \in Path /\ Allowed(c, r.path)
    OBVIOUS
  <2> HIDE DEF SearchInv
  <2> QED BY <2>1, <2>2, FoundIsHonest
<1>1. /\ ask' = [ask EXCEPT ![c] = call]
      /\ call.at = "found" /\ call.gain = gain /\ call.due = Due(gain)
      /\ call.reply.window = {row.path : row \in window}
      /\ call.reply.native => window # {} /\ \A row \in window : row.why = "path"
      /\ Honest(filter, call.reply, wasDirty[c])
  BY <1>0 DEF HonestCall
<1>2. CallTyped(call)
  BY <1>1 DEF CallTyped, Due
<1>3. SearchTyped' /\ ask'[c] = call /\ \A d \in Callers \ {c} : ask'[d] = ask[d]
  <2>1. /\ weight' \in [Path -> 0..MaxWeight] /\ still' \in [Callers -> {-1, 0, 1}]
        /\ answer' = [d \in Callers |-> answer'[d]] /\ wasDirty' = [d \in Callers |-> wasDirty'[d]]
        /\ dirty \subseteq wasDirty'[c] /\ SearchTyped
    BY DEF SearchTyped
  <2> QED BY <1>1, <1>2, <2>1, CallMoves
<1>4. \A d \in Callers \ {c} : FilterHold(d)' /\ RepeatHold(d)'
  BY <1>3, OthersHold
<1>5. FilterHold(c)'
  <2>1. \A f, r, w : Honest(f, r, w)' = Honest(f, r, w)
    BY DEF Honest
  <2> QED BY <1>1, <1>3, <2>1 DEF FilterHold
<1>6. kind = "files" /\ still[c] >= 0 /\ call.reply.native =>
        Tops(filter, q, call.reply.window, call.gain[q]) /\ call.due = {q}
  <2> SUFFICES ASSUME kind = "files", still[c] >= 0, call.reply.native
               PROVE  Tops(filter, q, call.reply.window, call.gain[q]) /\ call.due = {q}
    OBVIOUS
  <2>1. DOMAIN gain = {q} /\ Tops(filter, q, call.reply.window, gain[q])
    BY <1>1
  <2>2. \E p \in Path : gain[q][p] = 1
    BY <2>1 DEF Tops
  <2>3. Due(gain) = {q}
    BY <2>1, <2>2 DEF Due
  <2> QED BY <1>1, <2>1, <2>3
<1>7. RepeatHold(c)'
  <2>1. still[c] = 1 /\ kind = "files" /\ answer[c].native => Shown(filter, q, answer[c].window)
    BY DEF RepeatHold
  <2>2. kind = "files" => call.due \subseteq {q}
    BY <1>1 DEF Due
  <2>3. ask'[c] = call /\ call.at = "found" /\ UNCHANGED <<question, still, answer>>
    BY <1>1, <1>3
  <2>4. /\ \A f, s, w : Shown(f, s, w)' = Shown(f, s, w)
        /\ \A f, s, w, g : Tops(f, s, w, g)' = Tops(f, s, w, g)
    BY ShownStays
  <2>5. kind = "files" /\ still[c] >= 0 /\ call.reply.native =>
          Tops(filter, q, call.reply.window, call.gain[q])' /\ call.due = {q}
    <3> HIDE DEF SearchInv
    <3> QED BY <1>6, <2>3, <2>4
  <2> HIDE DEF SearchInv
  <2> QED BY <2>1, <2>2, <2>3, <2>4, <2>5 DEF RepeatHold
<1> QED BY <1>3, <1>4, <1>5, <1>7

\* What a retrieval finds is filtered, and its gains are numbers; a native answer is the top.
LEMMA RetrieveStep ==
  ASSUME SearchInv, NEW c \in Callers, SearchRetrieves(c)
  PROVE  SearchInv'
<1> DEFINE filter == question[c].filter
           q == question[c].query
           kind == question[c].kind
<1>0. /\ ask[c].at = "asked" /\ ViewTyped(ask[c].view) /\ tree \subseteq Path /\ SearchTyped
      /\ UNCHANGED <<tree, dirty, weight, recent, question, answer, wasDirty, still>>
      /\ still[c] >= 0 => ask[c].view = World /\ ask[c].modified = dirty
  BY DEF SearchRetrieves, SearchInv, SearchTyped, CallTyped, RepeatHold
<1>1. \E window, gain :
        /\ Found(c, window, gain) /\ \A s \in DOMAIN gain : gain[s] \in [Path -> Nat]
        /\ \A r \in window : r.path \in Path /\ Allowed(c, r.path)
        /\ kind = "files" => DOMAIN gain = {q}
        /\ kind = "files" /\ still[c] >= 0 /\ window # {} /\ (\A row \in window : row.why = "path") =>
             Tops(filter, q, {row.path : row \in window}, gain[q])
  <2>1. CASE kind = "files"
    <3>1. q \in Query
      BY <1>0, <2>1, QuestionIs
    <3>2. PICK found \in PathRoutes(c, q) : FindsPage(c, found)
      BY <2>1 DEF SearchRetrieves
    <3> DEFINE window == Window(found, MaxLimit)
    <3>3. GoodRows(c, found)
      BY <1>0, <3>1, PathRoutesGood
    <3>4. window \subseteq found /\ IsFiniteSet(window)
      BY <3>3, WindowIsOf DEF GoodRows
    <3> DEFINE gain == [s \in {q} |-> FrecencyGain(window)]
    <3>5. Found(c, window, gain)
      BY <3>2 DEF FindsPage
    <3>6. \A r \in window : r.path \in Path /\ Allowed(c, r.path)
      BY <3>3, <3>4 DEF GoodRows, GoodRow
    <3>7. still[c] >= 0 /\ window # {} /\ (\A row \in window : row.why = "path") =>
             Tops(filter, q, {row.path : row \in window}, FrecencyGain(window))
      BY <1>0, <3>1, NativeIsTop
    <3>8. FrecencyGain(window) \in [Path -> Nat]
      BY <3>4, GainTyped
    <3> HIDE DEF window
    <3>9. DOMAIN gain = {q} /\ gain[q] = FrecencyGain(window)
      OBVIOUS
    <3> HIDE DEF gain
    <3>10. \A s \in DOMAIN gain : gain[s] \in [Path -> Nat]
      BY <3>8, <3>9
    <3>11. still[c] >= 0 /\ window # {} /\ (\A row \in window : row.why = "path") =>
             Tops(filter, q, {row.path : row \in window}, gain[q])
      BY <3>7, <3>9
    <3> HIDE DEF filter, q
    <3> QED BY <3>5, <3>6, <3>9, <3>10, <3>11
  <2>2. CASE kind \in {"content", "lines"}
    <3>1. q \in Query /\ kind # "files"
      BY <1>0, <2>2, QuestionIs
    <3>2. PICK found \in LineRoutes(c, q) : FindsPage(c, found)
      BY <2>2 DEF SearchRetrieves
    <3> DEFINE window == Window(found, MaxLimit)
    <3>3. GoodRows(c, found)
      <4>1. LineMatch[q] \subseteq TokenMatch[q]
        BY <3>1, SearchAssumption DEF SearchAssumption
      <4>2. GoodRows(c, NativeLines(c, q)) /\ GoodRows(c, FuzzyLines(c, q))
        BY <1>0, <3>1, <4>1, LineRowsGood DEF NativeLines, FuzzyLines
      <4>3. \A rows \in FffLines(c, q) : GoodRows(c, rows)
        BY <1>0, <3>1, <4>1, LineRowsGood DEF FffLines
      <4> QED BY <4>2, <4>3 DEF LineRoutes, FuzzyFloor
    <3>4. window \subseteq found /\ IsFiniteSet(window)
      BY <3>3, WindowIsOf DEF GoodRows
    <3> DEFINE gain == [s \in {q} |-> FrecencyGain(window)]
    <3>5. Found(c, window, gain)
      BY <3>2 DEF FindsPage
    <3>6. \A r \in window : r.path \in Path /\ Allowed(c, r.path)
      BY <3>3, <3>4 DEF GoodRows, GoodRow
    <3>8. FrecencyGain(window) \in [Path -> Nat]
      BY <3>4, GainTyped
    <3> HIDE DEF window
    <3>9. DOMAIN gain = {q} /\ gain[q] = FrecencyGain(window)
      OBVIOUS
    <3> HIDE DEF gain
    <3> QED BY <3>1, <3>5, <3>6, <3>8, <3>9
  <2>3. CASE kind \notin {"files", "content", "lines"}
    <3> DEFINE routes == [s \in Query |-> {NativeLines(c, s)} \cup FffLines(c, s)]
    <3>1. PICK limit \in Limits, found \in [Query -> UNION {routes[s] : s \in Query}] :
            (\A s \in Query : found[s] \in routes[s]) /\ FindsMerged(c, found, limit)
      BY <2>3 DEF SearchRetrieves
    <3>2. \A s \in Query : GoodRows(c, found[s])
      <4> TAKE s \in Query
      <4>1. LineMatch[s] \subseteq TokenMatch[s]
        BY SearchAssumption DEF SearchAssumption
      <4>2. GoodRows(c, NativeLines(c, s))
        BY <1>0, <4>1, LineRowsGood DEF NativeLines
      <4>3. \A rows \in FffLines(c, s) : GoodRows(c, rows)
        BY <1>0, <4>1, LineRowsGood DEF FffLines
      <4>4. found[s] \in {NativeLines(c, s)} \cup FffLines(c, s)
        BY <3>1
      <4> QED BY <4>2, <4>3, <4>4
    <3> DEFINE all == Merged(found)
               most == IF limit >= 0 THEN limit ELSE Max({Cardinality(all) + limit, 0})
               window == Window(all, most)
               shown == {row.path : row \in window}
               gain == [s \in Query |-> [p \in Path |-> IF p \in shown /\ s \in FoundBy(found, p) THEN 1 ELSE 0]]
    <3>4. Found(c, window, gain)
      BY <3>1 DEF FindsMerged
    <3>5. \A x \in window : x.path \in Path /\ Allowed(c, x.path)
      BY <3>2, MergedGood, WindowIsOf
    <3>6. \A s \in DOMAIN gain : gain[s] \in [Path -> Nat]
      OBVIOUS
    <3> HIDE DEF window, gain
    <3> QED BY <2>3, <3>4, <3>5, <3>6
  <2> QED BY <2>1, <2>2, <2>3
<1>2. PICK window, gain :
        /\ Found(c, window, gain) /\ \A s \in DOMAIN gain : gain[s] \in [Path -> Nat]
        /\ \A r \in window : r.path \in Path /\ Allowed(c, r.path)
        /\ kind = "files" => DOMAIN gain = {q}
        /\ kind = "files" /\ still[c] >= 0 /\ window # {} /\ (\A row \in window : row.why = "path") =>
             Tops(filter, q, {row.path : row \in window}, gain[q])
  BY <1>1
<1> QED BY <1>0, <1>2, FindStep

LEMMA ListStep ==
  ASSUME SearchInv, NEW c \in Callers, SearchLists(c)
  PROVE  SearchInv'
<1> DEFINE kind == question[c].kind
           q == question[c].query
<1>1. /\ ask[c].at = "begun" /\ kind \in ListKinds /\ tree \subseteq Path /\ SearchTyped
      /\ UNCHANGED <<tree, dirty, weight, recent, question, answer, wasDirty, still>>
  BY DEF SearchLists, SearchInv, SearchTyped
<1>2. question[c].filter = {} /\ kind # "files"
  BY <1>1, QuestionIs DEF ListKinds
<1>3. PICK limit \in Limits :
        Found(c, Window(ListRows(kind, q, ask[c].dirty), Clamped(limit, MaxLimit)), <<>>)
  BY DEF SearchLists
<1> DEFINE window == Window(ListRows(kind, q, ask[c].dirty), Clamped(limit, MaxLimit))
<1>4. \A r \in ListRows(kind, q, ask[c].dirty) : r.path \in Path
  <2>1. \A r \in ChangedRows(q, ask[c].dirty) : r.path \in Path
    BY <1>1 DEF ChangedRows
  <2>2. \A r \in TodoRows(q) : r.path \in Path
    BY <1>1 DEF TodoRows
  <2>3. \A r \in TestRows(q) : r.path \in Path
    BY <1>1 DEF TestRows
  <2> QED BY <2>1, <2>2, <2>3 DEF ListRows
<1>5. \A r \in window : r.path \in Path
  BY <1>4, WindowIsOf
<1>6. \A s \in DOMAIN <<>> : <<>>[s] \in [Path -> Nat]
  OBVIOUS
<1>7. Found(c, window, <<>>)
  BY <1>3
<1> HIDE DEF window
<1> QED BY <1>1, <1>2, <1>5, <1>6, <1>7, FindStep

\* Of a caller whose call ends, whatever becomes of its answer.
LEMMA EndTyped ==
  ASSUME SearchTyped, NEW c \in Callers, NEW reply, SearchEnds(c, reply),
         UNCHANGED <<tree, dirty, question, wasDirty>>,
         weight' \in [Path -> 0..MaxWeight], still' \in [Callers -> {-1, 0, 1}]
  PROVE  /\ SearchTyped'
         /\ ask'[c].at = "idle" /\ answer'[c] = reply
         /\ \A d \in Callers \ {c} : ask'[d] = ask[d] /\ answer'[d] = answer[d]
<1>1. CallTyped(NoAsk) /\ NoAsk.at = "idle"
  BY DEF CallTyped, NoAsk
<1>2. ask' = [ask EXCEPT ![c] = NoAsk]
  BY DEF SearchEnds
<1>3. /\ answer' = [d \in Callers |-> answer'[d]] /\ wasDirty' = [d \in Callers |-> wasDirty'[d]]
      /\ answer'[c] = reply /\ \A d \in Callers \ {c} : answer'[d] = answer[d]
  BY DEF SearchEnds, SearchTyped
<1>4. SearchTyped' /\ ask'[c] = NoAsk /\ \A d \in Callers \ {c} : ask'[d] = ask[d]
  BY <1>1, <1>2, <1>3, CallMoves
<1> QED BY <1>1, <1>3, <1>4

LEMMA StillMoves ==
  ASSUME SearchTyped, NEW c \in Callers
  PROVE  /\ ClippedBy(still[c] + 1, 1) \in {0, 1}
         /\ ClippedBy(still[c] + 1, 1) = 1 => still[c] >= 0
<1>1. still[c] \in {-1, 0, 1}
  BY DEF SearchTyped
<1> QED BY <1>1 DEF ClippedBy

LEMMA RecordStep ==
  ASSUME SearchInv, NEW c \in Callers, SearchRecords(c)
  PROVE  SearchInv'
<1> USE DEF SearchInv
<1>0. PICK s \in ask[c].due :
        LET last == ask[c].due = {s} IN
        /\ weight' = [p \in Path |-> ClippedBy(weight[p] + ask[c].gain[s][p], MaxWeight)]
        /\ recent' = recent \cup {p \in Path : ask[c].gain[s][p] > 0}
        /\ still' = [Disturbs(Callers) EXCEPT ![c] = IF last THEN ClippedBy(still[c] + 1, 1) ELSE still[c]]
        /\ IF last THEN SearchEnds(c, ask[c].reply)
           ELSE ask' = [ask EXCEPT ![c].due = @ \ {s}] /\ UNCHANGED answer
  BY DEF SearchRecords
<1> DEFINE last == ask[c].due = {s}
           reply == ask[c].reply
           gain == ask[c].gain[s]
           filter == question[c].filter
           q == question[c].query
<1>1. /\ ask[c].at = "found" /\ SearchTyped /\ UNCHANGED <<tree, dirty, question, wasDirty>>
      /\ gain \in [Path -> Nat] /\ CallTyped(ask[c])
  BY <1>0 DEF SearchRecords, SearchTyped, CallTyped
<1>2. weight' \in [Path -> 0..MaxWeight]
  <2>1. \A p \in Path : weight[p] \in Nat /\ gain[p] \in Nat /\ MaxWeight \in Nat
    <3>1. weight \in [Path -> 0..MaxWeight] /\ gain \in [Path -> Nat] /\ MaxWeight \in Nat
      BY <1>1, SearchAssumption DEF SearchTyped, SearchAssumption
    <3> HIDE DEF gain
    <3> TAKE p \in Path
    <3>2. weight[p] \in 0..MaxWeight /\ gain[p] \in Nat
      BY <3>1
    <3> QED BY <3>1, <3>2
  <2>2. \A p \in Path : ClippedBy(weight[p] + gain[p], MaxWeight) \in 0..MaxWeight
    <3> HIDE DEF gain
    <3> QED BY <2>1 DEF ClippedBy
  <2>3. weight' = [p \in Path |-> ClippedBy(weight[p] + gain[p], MaxWeight)]
    BY <1>0
  <2> HIDE DEF gain
  <2> QED BY <2>2, <2>3
<1>3. /\ still' \in [Callers -> {-1, 0, 1}]
      /\ still'[c] = IF last THEN ClippedBy(still[c] + 1, 1) ELSE still[c]
      /\ \A d \in Callers \ {c} : still'[d] = (IF ask[d].at = "idle" THEN 0 ELSE -1)
  <2>1. still' = [Disturbs(Callers) EXCEPT ![c] = IF last THEN ClippedBy(still[c] + 1, 1) ELSE still[c]]
    BY <1>0
  <2>2. Disturbs(Callers) = [d \in Callers |-> IF ask[d].at = "idle" THEN 0 ELSE -1]
    BY DEF Disturbs
  <2>3. still[c] \in {-1, 0, 1}
    BY <1>1 DEF SearchTyped
  <2> HIDE DEF last
  <2> QED BY <1>1, <2>1, <2>2, <2>3, StillMoves
<1>4. ASSUME last
      PROVE  SearchInv'
  <2>1. SearchEnds(c, reply) /\ still'[c] = ClippedBy(still[c] + 1, 1)
    BY <1>0, <1>3, <1>4
  <2>2. /\ SearchTyped' /\ ask'[c].at = "idle" /\ answer'[c] = reply
        /\ \A d \in Callers \ {c} : ask'[d] = ask[d] /\ answer'[d] = answer[d]
    <3> HIDE DEF reply
    <3> QED BY <1>1, <1>2, <1>3, <2>1, EndTyped
  <2>3. \A d \in Callers \ {c} : FilterHold(d)' /\ RepeatHold(d)'
    BY <1>1, <1>3, <2>2, OthersHold
  <2>4. FilterHold(c)'
    <3>1. \A f, r, w : Honest(f, r, w)' = Honest(f, r, w)
      BY DEF Honest
    <3>2. Honest(filter, reply, wasDirty[c])
      BY <1>1 DEF FilterHold
    <3> QED BY <1>1, <2>2, <3>1, <3>2 DEF FilterHold
  <2>5. ASSUME NEW f, f = filter, NEW p, p = q, NEW window, window = reply.window,
               still'[c] = 1, question[c].kind = "files", reply.native
        PROVE  Shown(f, p, window)'
    <3>1. PICK g, v : g = gain /\ v = World
      OBVIOUS
    <3>2. Tops(filter, q, reply.window, ask[c].gain[q]) /\ ask[c].due = {q}
      BY <1>1, <2>1, <2>5, StillMoves DEF RepeatHold
    <3>3. Tops(f, p, window, g)
      BY <1>0, <2>5, <3>1, <3>2
    <3>4. \A m, r : Passes(f, m, r)' = Passes(f, m, r)
      BY <1>1 DEF Passes, Keeps
    <3>5. Eligible(v, f, p)' = Eligible(v, f, p)
      BY <1>1, <3>4 DEF Eligible
    <3>6. window = TopPaths(v, f, p)'
      BY <3>1, <3>3, <3>5 DEF TopPaths, Tops
    <3>7. ViewTyped(v) /\ v.dirty = dirty' /\ v.weight = weight /\ v.recent = recent
      BY <1>1, <3>1 DEF World, ViewTyped, SearchTyped
    <3>8. \A r \in Path : g[r] = IF r \in window THEN 1 ELSE 0
      BY <3>3 DEF Tops
    <3>9. \A r \in Path : weight'[r] = ClippedBy(v.weight[r] + (IF r \in window THEN 1 ELSE 0), MaxWeight)
      BY <1>0, <3>1, <3>7, <3>8
    <3>10. \A r \in Path : r \in recent' <=> r \in v.recent \/ r \in window
      BY <1>0, <3>1, <3>7, <3>8
    <3> QED BY <3>6, <3>7, <3>9, <3>10 DEF Shown
  <2>6. RepeatHold(c)'
    <3>1. PICK f, p, window : f = filter /\ p = q /\ window = reply.window
      OBVIOUS
    <3>2. question'[c].filter = f /\ question'[c].query = p /\ answer'[c].window = window /\ answer'[c].native = reply.native
      BY <1>1, <2>2, <3>1
    <3>3. still'[c] = 1 /\ question'[c].kind = "files" /\ answer'[c].native => Shown(f, p, window)'
      BY <1>1, <2>2, <2>5, <3>1, <3>2
    <3> QED BY <2>2, <3>2, <3>3 DEF RepeatHold
  <2> QED BY <2>2, <2>3, <2>4, <2>6
<1>5. ASSUME ~last
      PROVE  SearchInv'
  <2> DEFINE call == [ask[c] EXCEPT !.due = @ \ {s}]
  <2>1. ask' = [ask EXCEPT ![c] = call] /\ answer' = answer /\ still'[c] = still[c]
    BY <1>0, <1>1, <1>3, <1>5 DEF SearchTyped
  <2>2. /\ call.at = "found" /\ call.reply = reply /\ call.gain = ask[c].gain
        /\ call.due \subseteq ask[c].due
    BY <1>1
  <2> HIDE DEF call, last
  <2>4. CallTyped(call)
    BY <1>1, <2>2 DEF CallTyped
  <2>5. SearchTyped' /\ ask'[c] = call /\ \A d \in Callers \ {c} : ask'[d] = ask[d]
    <3>1. /\ answer' = [d \in Callers |-> answer'[d]] /\ wasDirty' = [d \in Callers |-> wasDirty'[d]]
          /\ dirty \subseteq wasDirty'[c]
      BY <1>1, <2>1 DEF SearchTyped
    <3> QED BY <1>1, <1>2, <1>3, <2>1, <2>4, <3>1, CallMoves
  <2>6. \A d \in Callers \ {c} : FilterHold(d)' /\ RepeatHold(d)'
    BY <1>1, <1>3, <2>1, <2>5, OthersHold
  <2>7. FilterHold(c)'
    <3>1. \A f, r, w : Honest(f, r, w)' = Honest(f, r, w)
      BY DEF Honest
    <3>2. Honest(filter, reply, wasDirty[c])
      BY <1>1 DEF FilterHold
    <3> QED BY <1>1, <2>2, <2>5, <3>1, <3>2 DEF FilterHold
  <2>8. RepeatHold(c)'
    <3>1. question[c].kind # "files"
      BY <1>0, <1>1, <1>5 DEF RepeatHold, last
    <3> QED BY <1>1, <2>1, <2>2, <2>5, <3>1 DEF RepeatHold
  <2> QED BY <2>5, <2>6, <2>7, <2>8
<1> QED BY <1>4, <1>5

LEMMA SkipStep ==
  ASSUME SearchInv, NEW c \in Callers, SearchSkipsRecord(c)
  PROVE  SearchInv'
<1> USE DEF SearchInv
<1> DEFINE reply == ask[c].reply
           filter == question[c].filter
<1>0. /\ ask[c].at = "found" /\ SearchEnds(c, reply) /\ SearchTyped
      /\ UNCHANGED <<tree, dirty, weight, recent, question, wasDirty>>
      /\ still' = [still EXCEPT ![c] = ClippedBy(still[c] + 1, 1)] /\ ask[c].due = {}
  BY DEF SearchSkipsRecord
<1>1. weight' \in [Path -> 0..MaxWeight]
  BY <1>0 DEF SearchTyped
<1>3. /\ still' \in [Callers -> {-1, 0, 1}] /\ still'[c] = ClippedBy(still[c] + 1, 1)
      /\ \A d \in Callers \ {c} : still'[d] = still[d]
  BY <1>0, StillMoves DEF SearchTyped
<1>4. /\ SearchTyped' /\ ask'[c].at = "idle" /\ answer'[c] = reply
      /\ \A d \in Callers \ {c} : ask'[d] = ask[d] /\ answer'[d] = answer[d]
  <2> HIDE DEF reply
  <2> QED BY <1>0, <1>1, <1>3, EndTyped
<1>5. \A d \in Callers \ {c} : FilterHold(d)' /\ RepeatHold(d)'
  BY <1>0, <1>3, <1>4, OthersHold
<1>6. FilterHold(c)'
  <2>1. \A f, r, w : Honest(f, r, w)' = Honest(f, r, w)
    BY DEF Honest
  <2>2. Honest(filter, reply, wasDirty[c])
    BY <1>0 DEF FilterHold
  <2> QED BY <1>0, <1>4, <2>1, <2>2 DEF FilterHold
<1>7. ~(still'[c] = 1 /\ question[c].kind = "files" /\ reply.native)
  <2>1. SUFFICES ASSUME still'[c] = 1, question[c].kind = "files", reply.native PROVE FALSE
    OBVIOUS
  <2>2. ask[c].due = {question[c].query}
    BY <1>0, <1>3, <2>1, StillMoves DEF RepeatHold
  <2> QED BY <1>0, <2>2
<1>8. RepeatHold(c)'
  BY <1>0, <1>4, <1>7 DEF RepeatHold
<1> QED BY <1>4, <1>5, <1>6, <1>8

LEMMA RefusedStep ==
  ASSUME SearchInv, NEW c \in Callers, RecordRefused(c)
  PROVE  SearchInv'
<1> USE DEF SearchInv
<1>0. /\ ask[c].at = "found" /\ SearchEnds(c, NoAnswer) /\ SearchTyped
      /\ UNCHANGED <<tree, dirty, weight, recent, question, wasDirty>>
      /\ still' = [still EXCEPT ![c] = 0]
  BY DEF RecordRefused
<1>1. weight' \in [Path -> 0..MaxWeight]
  BY <1>0 DEF SearchTyped
<1>3. /\ still' \in [Callers -> {-1, 0, 1}] /\ still'[c] = 0
      /\ \A d \in Callers \ {c} : still'[d] = still[d]
  BY <1>0 DEF SearchTyped
<1>4. /\ SearchTyped' /\ ask'[c].at = "idle" /\ answer'[c] = NoAnswer
      /\ \A d \in Callers \ {c} : ask'[d] = ask[d] /\ answer'[d] = answer[d]
  BY <1>0, <1>1, <1>3, EndTyped
<1>5. \A d \in Callers \ {c} : FilterHold(d)' /\ RepeatHold(d)'
  BY <1>0, <1>3, <1>4, OthersHold
<1>6. FilterHold(c)' /\ RepeatHold(c)'
  <2>1. FilterHold(c)'
    BY <1>4 DEF FilterHold, NoAnswer
  <2>2. RepeatHold(c)'
    BY <1>3, <1>4 DEF RepeatHold
  <2> QED BY <2>1, <2>2
<1> QED BY <1>4, <1>5, <1>6

LEMMA SearchStays ==
  ASSUME SearchInv, UNCHANGED searchVars
  PROVE  SearchInv'
<1>1. UNCHANGED <<tree, dirty, weight, recent, question, ask, answer, wasDirty, still>>
  BY DEF searchVars
<1>2. SearchTyped'
  BY <1>1 DEF SearchInv, SearchTyped, CallTyped, ViewTyped
<1>3. \A d \in Callers : FilterHold(d)' /\ RepeatHold(d)'
  BY <1>1, OthersHold DEF SearchInv
<1> QED BY <1>2, <1>3 DEF SearchInv

LEMMA SearchStep == SearchInv /\ [SearchNext]_searchVars => SearchInv'
<1> SUFFICES ASSUME SearchInv, [SearchNext]_searchVars PROVE SearchInv'
  OBVIOUS
<1>1. CASE WorldMoves
  BY <1>1, SearchWorldStep
<1>2. ASSUME NEW c \in Callers, SearchBegins(c) PROVE SearchInv'
  BY <1>2, BeginStep
<1>3. ASSUME NEW c \in Callers, SearchRetrieves(c) PROVE SearchInv'
  BY <1>3, RetrieveStep
<1>4. ASSUME NEW c \in Callers, SearchRecords(c) PROVE SearchInv'
  BY <1>4, RecordStep
<1>5. ASSUME NEW c \in Callers, SearchSkipsRecord(c) PROVE SearchInv'
  BY <1>5, SkipStep
<1>6. ASSUME NEW c \in Callers, RecordRefused(c) PROVE SearchInv'
  BY <1>6, RefusedStep
<1>7. ASSUME NEW c \in Callers, ReadsSignals(c) PROVE SearchInv'
  BY <1>7, SignalsStep
<1>8. ASSUME NEW c \in Callers, ResolvesFilter(c) PROVE SearchInv'
  BY <1>8, ResolveStep
<1>9. ASSUME NEW c \in Callers, SearchLists(c) PROVE SearchInv'
  BY <1>9, ListStep
<1>10. CASE UNCHANGED searchVars
  BY <1>10, SearchStays
<1> QED BY <1>1, <1>2, <1>3, <1>4, <1>5, <1>6, <1>7, <1>8, <1>9, <1>10 DEF SearchNext

LEMMA SearchInvariant == SearchSpec => []SearchInv
<1> QED BY SearchInitHolds, SearchStep, PTL DEF SearchSpec

\* Where the parser keeps the grammar (GrammarIsKept, which TLC checks of its filters), a
\* filter holds on every route: each answered path satisfies each token of the grammar or taken
\* for a glob, and exactly the others are reported (constraints.py, search_support.py).
THEOREM FiltersHold ==
  ASSUME GrammarIsKept
  PROVE  SearchSpec => []FilterIsHonest
<1>1. SearchInv => FilterIsHonest
  <2> SUFFICES ASSUME SearchInv, NEW c \in Callers, ask[c].at = "idle", answer[c] # NoAnswer
               PROVE  /\ \A token \in question[c].filter :
                           IF token.known \/ Stray(token)
                           THEN /\ token \notin answer[c].warned
                                /\ answer[c].window \subseteq token.keeps
                                /\ token.scheme = "git" => answer[c].window \subseteq wasDirty[c]
                           ELSE token \in answer[c].warned
                      /\ answer[c].warned # {} => answer[c].confidence # "high"
    BY DEF FilterIsHonest
  <2>1. Honest(question[c].filter, answer[c], wasDirty[c])
    BY DEF SearchInv, FilterHold
  <2>2. question[c].filter \in Filters \cup {{}}
    <3>1. question[c] \in Questions
      BY DEF SearchInv, SearchTyped
    <3> QED BY <3>1 DEF Questions
  <2>3. ASSUME NEW token \in question[c].filter
        PROVE  IF token.known \/ Stray(token)
               THEN /\ token \notin answer[c].warned
                    /\ answer[c].window \subseteq token.keeps
                    /\ token.scheme = "git" => answer[c].window \subseteq wasDirty[c]
               ELSE token \in answer[c].warned
    <3>1. /\ token.known \/ Stray(token) <=> Parsed(token).kind # "ignored"
          /\ token.known \/ Stray(token) => {p \in Path : Satisfies(Parsed(token), p)} \subseteq token.keeps
      BY <2>2, <2>3 DEF GrammarIsKept
    <3>2. token \in answer[c].warned <=> Parsed(token).kind = "ignored"
      BY <2>1, <2>3 DEF Honest, Dropped
    <3>3. token.known \/ Stray(token) => answer[c].window \subseteq token.keeps
      BY <2>1, <2>3, <3>1 DEF Honest
    <3>4. token.scheme = "git" => Parsed(token).kind \in {"modified", "untracked", "ignored"}
      BY DEF Parsed
    <3>5. (token.known \/ Stray(token)) /\ token.scheme = "git" => answer[c].window \subseteq wasDirty[c]
      BY <2>1, <2>3, <3>1, <3>4 DEF Honest
    <3> QED BY <3>1, <3>2, <3>3, <3>5
  <2> QED BY <2>1, <2>3 DEF Honest
<1> QED BY <1>1, SearchInvariant, PTL

\* A search that is repeated answers with the same files: what it recorded moves the window's
\* paths up and no other, so the foremost stay the foremost (ranking.py, search_support.py).
THEOREM RepeatKeeps == SearchSpec => RepeatKeepsWindow
<1> DEFINE Repeats == \A c \in Callers :
       (answer'[c] # answer[c] /\ still[c] = 1 /\ question[c].kind = "files"
          /\ answer[c].native /\ answer'[c].native)
       => answer'[c].window = answer[c].window
<1>1. SearchInv /\ [SearchNext]_searchVars => [Repeats]_searchVars
  <2> SUFFICES ASSUME SearchInv, SearchNext, NEW c \in Callers,
                      answer'[c] # answer[c], still[c] = 1, question[c].kind = "files", answer[c].native, answer'[c].native
               PROVE  answer'[c].window = answer[c].window
    OBVIOUS
  <2>0. PICK d \in Callers : ask[d].at = "found" /\ \E r \in {NoAnswer, ask[d].reply} : SearchEnds(d, r)
    <3>1. answer' # answer
      OBVIOUS
    <3>2. PICK d \in Callers : SearchRecords(d) \/ SearchSkipsRecord(d) \/ RecordRefused(d)
      BY <3>1 DEF SearchNext, WorldMoves, SearchBegins, ReadsSignals, ResolvesFilter, SearchRetrieves, SearchLists
    <3>3. ASSUME SearchRecords(d) PROVE ask[d].at = "found" /\ SearchEnds(d, ask[d].reply)
      <4>1. ask[d].at = "found" /\ (SearchEnds(d, ask[d].reply) \/ UNCHANGED answer)
        BY <3>3 DEF SearchRecords
      <4> QED BY <3>1, <4>1
    <3> QED BY <3>2, <3>3 DEF SearchSkipsRecord, RecordRefused
  <2>1. PICK reply \in {NoAnswer, ask[d].reply} : SearchEnds(d, reply) /\ ask[d].at = "found"
    BY <2>0
  <2>2. d = c /\ answer'[c] = reply
    BY <2>1 DEF SearchEnds, SearchInv, SearchTyped
  <2>3. reply = ask[c].reply
    BY <2>1, <2>2 DEF NoAnswer
  <2> DEFINE filter == question[c].filter
             q == question[c].query
             window == answer[c].window
  <2>4. Tops(filter, q, ask[c].reply.window, ask[c].gain[q])
    BY <2>1, <2>2, <2>3 DEF SearchInv, RepeatHold
  <2>5. Shown(filter, q, window)
    BY DEF SearchInv, RepeatHold
  <2>6. PICK v : /\ ViewTyped(v) /\ v.dirty = dirty /\ window = TopPaths(v, filter, q)
                 /\ \A p \in Path : weight[p] = ClippedBy(v.weight[p] + (IF p \in window THEN 1 ELSE 0), MaxWeight)
                 /\ \A p \in Path : p \in recent <=> p \in v.recent \/ p \in window
    BY <2>5 DEF Shown
  <2>7. ViewTyped(World) /\ World.dirty = dirty /\ World.weight = weight /\ World.recent = recent /\ tree \subseteq Path
    BY DEF World, ViewTyped, SearchInv, SearchTyped
  <2>8. q \in Query
    BY QuestionIs DEF SearchInv
  <2>9. TopPaths(World, filter, q) = window
    <3> HIDE DEF filter, q, window
    <3> QED BY <2>6, <2>7, <2>8, TopStays
  <2> QED BY <2>2, <2>3, <2>4, <2>9 DEF Tops
<1> QED BY <1>1, SearchInvariant, PTL DEF SearchSpec, RepeatKeepsWindow

=============================================================================
