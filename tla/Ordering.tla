------------------------------ MODULE Ordering ------------------------------
(* sorted() and list comprehensions, defined by what they satisfy.  SortSeq   *)
(* and SelectSeq, on which the community operators rest, are evaluated by TLC *)
(* and opaque to the provers; modules with proofs use these instead.          *)
EXTENDS Integers, Sequences, FiniteSets

\* The elements of a set in the order of a relation: each at its rank.
Ranked(S, R) ==
  [i \in 1..Cardinality(S) |-> CHOOSE x \in S : Cardinality({y \in S : <<y, x>> \in R}) = i - 1]

StrictOrder(S, R) ==
  /\ \A x \in S : <<x, x>> \notin R
  /\ \A x, y, z \in S : <<x, y>> \in R /\ <<y, z>> \in R => <<x, z>> \in R
  /\ \A x, y \in S : x = y \/ <<x, y>> \in R \/ <<y, x>> \in R

Pairs(S, Before(_, _)) == {p \in S \X S : Before(p[1], p[2])}
Sorted(S, Before(_, _)) == Ranked(S, Pairs(S, Before))

\* The elements of a sequence at a set of places, in their order.
AtPlaces(s, places) ==
  LET place == Sorted(places, <) IN [n \in 1..Cardinality(places) |-> s[place[n]]]

Kept(s, Test(_)) == AtPlaces(s, {n \in DOMAIN s : Test(s[n])})

\* sum() of a list of numbers.
Total(s) ==
  LET sum[n \in 0..Len(s)] == IF n = 0 THEN 0 ELSE sum[n - 1] + s[n]
  IN sum[Len(s)]

\* The first lists of a sequence of lists in one, for each number of them.
Chained(lists) ==
  LET first[n \in 0..Len(lists)] == IF n = 0 THEN <<>> ELSE first[n - 1] \o lists[n]
  IN first
=============================================================================
