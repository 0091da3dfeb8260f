---------------------------- MODULE Answers_proofs ----------------------------
(* Theorems about the parts that answer questions about the repository.        *)
EXTENDS SubjectiveReview, RepoSignals, RefactorPlan, Triage,
        StructuralDuplicates, Architecture, ImportCycles, HookAugment, Ordering_proofs

-----------------------------------------------------------------------------
(* subjective_review: any number of reviewers, findings and answers.           *)

FieldsOfReview == {"at", "prompt", "text", "outcome", "found"}

\* A row is of its id, and the id holds what the row says.
RowOf(o) == o.what = o.id[3]

ReviewInv ==
  /\ DOMAIN review = Reviewers /\ \A r \in Reviewers : DOMAIN review[r] = FieldsOfReview
  /\ \A id \in DOMAIN opinions :
       /\ opinions[id].id = id /\ RowOf(opinions[id])
       /\ \E e \in exchange : e.prompt = opinions[id].prompt /\ opinions[id] \in OpinionsOf(e.prompt, e.text)
  /\ \A r \in Reviewers : \A o \in review[r].found : RowOf(o) /\ o.id \in DOMAIN opinions
  /\ \A r \in Reviewers : review[r].at = "answered" =>
       \E e \in exchange : e.prompt = review[r].prompt /\ e.text = review[r].text

\* What is read out of an answer to a prompt is of that prompt, and says what its id says.
LEMMA OpinionsAreRows ==
  ASSUME NEW prompt, NEW text, NEW o \in OpinionsOf(prompt, text)
  PROVE  RowOf(o) /\ o.prompt = prompt
BY DEF OpinionsOf, RowOf

\* Another reviewer, and the table, are as they were; the exchange may have grown.
LEMMA OneReviewerMoves ==
  ASSUME ReviewInv, NEW r \in Reviewers, NEW changed,
         review' = [review EXCEPT ![r] = changed], DOMAIN changed = FieldsOfReview,
         opinions' = opinions, exchange \subseteq exchange',
         changed.found \subseteq review[r].found,
         changed.at = "answered" => \E e \in exchange' : e.prompt = changed.prompt /\ e.text = changed.text
  PROVE  ReviewInv'
<1>1. \A s \in Reviewers : review'[s] = IF s = r THEN changed ELSE review[s]
  BY DEF ReviewInv
<1>2. DOMAIN review' = Reviewers /\ \A s \in Reviewers : DOMAIN review'[s] = FieldsOfReview
  BY <1>1 DEF ReviewInv
<1>3. \A id \in DOMAIN opinions' :
         /\ opinions'[id].id = id /\ RowOf(opinions'[id])
         /\ \E e \in exchange' : e.prompt = opinions'[id].prompt /\ opinions'[id] \in OpinionsOf(e.prompt, e.text)
  BY DEF ReviewInv
<1>4. \A s \in Reviewers : \A o \in review'[s].found : RowOf(o) /\ o.id \in DOMAIN opinions'
  BY <1>1 DEF ReviewInv
<1>5. \A s \in Reviewers : review'[s].at = "answered" =>
         \E e \in exchange' : e.prompt = review'[s].prompt /\ e.text = review'[s].text
  BY <1>1 DEF ReviewInv
<1> QED BY <1>2, <1>3, <1>4, <1>5 DEF ReviewInv

LEMMA StoreStep ==
  ASSUME ReviewInv, NEW r \in Reviewers, StoreOpinions(r)
  PROVE  ReviewInv'
<1> DEFINE rows == OpinionsOf(review[r].prompt, review[r].text)
           changed == [End(r, "enabled") EXCEPT !.found = rows]
<1>1. review[r].at = "answered" /\ review' = [review EXCEPT ![r] = changed]
      /\ opinions' = Replaced(rows) /\ exchange' = exchange
  BY DEF StoreOpinions, Turn
<1>2. DOMAIN changed = FieldsOfReview /\ changed.found = rows /\ changed.at = "done"
  BY DEF ReviewInv, End, FieldsOfReview
<1>3. PICK asked \in exchange : asked.prompt = review[r].prompt /\ asked.text = review[r].text
  BY <1>1 DEF ReviewInv
<1>4. \A o \in rows : RowOf(o) /\ o.prompt = asked.prompt /\ o \in OpinionsOf(asked.prompt, asked.text)
  BY <1>3, OpinionsAreRows
<1> HIDE DEF rows, changed
<1>5. \A s \in Reviewers : review'[s] = IF s = r THEN changed ELSE review[s]
  BY <1>1 DEF ReviewInv
<1>6. DOMAIN opinions' = DOMAIN opinions \cup {o.id : o \in rows}
  BY <1>1 DEF Replaced
<1>7. \A id \in DOMAIN opinions' :
         /\ opinions'[id].id = id /\ RowOf(opinions'[id])
         /\ \E e \in exchange' : e.prompt = opinions'[id].prompt /\ opinions'[id] \in OpinionsOf(e.prompt, e.text)
  <2> TAKE id \in DOMAIN opinions'
  <2>1. CASE \E o \in rows : o.id = id
    <3>1. opinions'[id] \in rows /\ opinions'[id].id = id
      BY <1>1, <1>6, <2>1 DEF Replaced
    <3> QED BY <3>1, <1>1, <1>4
  <2>2. CASE ~ \E o \in rows : o.id = id
    <3>1. id \in DOMAIN opinions /\ opinions'[id] = opinions[id]
      BY <1>1, <1>6, <2>2 DEF Replaced
    <3> QED BY <3>1, <1>1 DEF ReviewInv
  <2> QED BY <2>1, <2>2
<1>8. \A s \in Reviewers : \A o \in review'[s].found : RowOf(o) /\ o.id \in DOMAIN opinions'
  BY <1>2, <1>4, <1>5, <1>6 DEF ReviewInv
<1>9. \A s \in Reviewers : review'[s].at = "answered" =>
         \E e \in exchange' : e.prompt = review'[s].prompt /\ e.text = review'[s].text
  BY <1>1, <1>2, <1>5 DEF ReviewInv
<1>10. DOMAIN review' = Reviewers /\ \A s \in Reviewers : DOMAIN review'[s] = FieldsOfReview
  BY <1>1, <1>2, <1>5 DEF ReviewInv
<1> QED BY <1>7, <1>8, <1>9, <1>10 DEF ReviewInv

LEMMA ReviewInvariant == ReviewSpec => []ReviewInv
<1>1. ReviewInit => ReviewInv
  BY DEF ReviewInit, ReviewInv, IdleReview, FieldsOfReview
<1>2. ReviewInv /\ [ReviewNext]_reviewVars => ReviewInv'
  <2> SUFFICES ASSUME ReviewInv, [ReviewNext]_reviewVars PROVE ReviewInv'
    OBVIOUS
  <2>1. ASSUME UNCHANGED <<review, opinions, exchange>> PROVE ReviewInv'
    BY <2>1 DEF ReviewInv
  <2>2. ASSUME NEW r \in Reviewers, CallReview(r) PROVE ReviewInv'
    <3>1. review' = [review EXCEPT ![r] = [IdleReview EXCEPT !.at = "asked"]] /\ opinions' = opinions /\ exchange' = exchange
      BY <2>2 DEF CallReview
    <3> QED BY <3>1, OneReviewerMoves DEF IdleReview, FieldsOfReview
  <2>3. ASSUME NEW r \in Reviewers, CheckConsent(r) PROVE ReviewInv'
    BY <2>3, OneReviewerMoves DEF CheckConsent, Turn, ReviewInv, FieldsOfReview
  <2>4. ASSUME NEW r \in Reviewers, Refuse(r) PROVE ReviewInv'
    BY <2>4, OneReviewerMoves DEF Refuse, Turn, End, ReviewInv, FieldsOfReview
  <2>5. ASSUME NEW r \in Reviewers, SamplingFails(r) PROVE ReviewInv'
    BY <2>5, OneReviewerMoves DEF SamplingFails, Turn, End, ReviewInv, FieldsOfReview
  <2>6. ASSUME NEW r \in Reviewers, NEW session \in BOOLEAN, BuildPrompt(r, session) PROVE ReviewInv'
    BY <2>6, OneReviewerMoves DEF BuildPrompt, Turn, End, ReviewInv, FieldsOfReview
  <2>7. ASSUME NEW r \in Reviewers, NEW text \in Texts, ModelAnswers(r, text) PROVE ReviewInv'
    <3> DEFINE changed == [review[r] EXCEPT !.at = "answered", !.text = text]
               asked == [prompt |-> review[r].prompt, text |-> text]
    <3>1. review' = [review EXCEPT ![r] = changed] /\ opinions' = opinions /\ exchange' = exchange \cup {asked}
      BY <2>7 DEF ModelAnswers, Turn
    <3>2. DOMAIN changed = FieldsOfReview /\ changed.found = review[r].found
          /\ changed.prompt = asked.prompt /\ changed.text = asked.text
      BY DEF ReviewInv, FieldsOfReview
    <3>3. asked \in exchange' /\ exchange \subseteq exchange'
      BY <3>1
    <3> HIDE DEF changed, asked
    <3> QED BY <3>1, <3>2, <3>3, OneReviewerMoves
  <2> QED BY <2>1, <2>2, <2>3, <2>4, <2>5, <2>6, <2>7, StoreStep
        DEF ReviewNext, reviewVars, SetConsent, ChangeSmells
<1> QED BY <1>1, <1>2, PTL DEF ReviewSpec

\* However many calls wait for the model while findings and consent change, each stored
\* opinion is of a prompt that was sent and of an answer to it, and a call's opinions are
\* in the table (_store_subjective_findings).
THEOREM OpinionsOfPrompts == ReviewSpec => []OpinionsAreOfTheirPrompt
<1>1. ReviewInv => OpinionsAreOfTheirPrompt
  BY DEF ReviewInv, OpinionsAreOfTheirPrompt, RowOf
<1> QED BY <1>1, ReviewInvariant, PTL

-----------------------------------------------------------------------------
(* The verdicts on findings, what changed since a ref and the quality flags:    *)
(* any repository, any set of findings, any adaptive settings.                  *)

LEMMA DivisionBounds ==
  ASSUME NEW x \in Int, NEW n \in Nat \ {0}
  PROVE  x \div n \in Int /\ n * (x \div n) <= x /\ x < n * (x \div n) + n
OBVIOUS

\* Rounding down keeps the order of two quotients.
LEMMA DivisionGrows ==
  ASSUME NEW x \in Int, NEW y \in Int, NEW n \in Nat \ {0}, NEW m \in Nat \ {0}, x * m <= y * n
  PROVE  x \div n <= y \div m
<1> DEFINE p == x \div n
           q == y \div m
<1>1. p \in Int /\ n * p <= x /\ q \in Int /\ y < m * q + m
  BY DivisionBounds
<1> HIDE DEF p, q
<1>2. SUFFICES ASSUME q + 1 <= p PROVE FALSE
  BY <1>1 DEF p, q
<1>3. m * (n * p) <= m * x /\ n * y < n * (m * q + m)
  BY <1>1
<1>4. (n * m) * (q + 1) <= (n * m) * p
  BY <1>1, <1>2
<1>5. m * (n * p) = (n * m) * p /\ n * (m * q + m) = (n * m) * (q + 1) /\ m * x = x * m /\ n * y = y * n
  BY <1>1
<1>6. (n * m) * p \in Int /\ (n * m) * (q + 1) \in Int /\ x * m \in Int /\ y * n \in Int
  BY <1>1
<1> QED BY <1>3, <1>4, <1>5, <1>6

\* More for and fewer against move the share up.
LEMMA ShareGrows ==
  ASSUME NEW S \in Nat, NEW a \in Nat, NEW r \in Nat, NEW b \in Nat, NEW s \in Nat,
         a + r > 0, b + s > 0, a <= b, s <= r
  PROVE  (S * (a - r)) \div (a + r) <= (S * (b - s)) \div (b + s)
<1>1. a * s <= a * r /\ a * r <= b * r
  OBVIOUS
<1>2. (a - r) * (b + s) = a * b + a * s - r * b - r * s
      /\ (b - s) * (a + r) = b * a + b * r - s * a - s * r
  OBVIOUS
<1>3. (a - r) * (b + s) <= (b - s) * (a + r)
  BY <1>1, <1>2
<1> DEFINE x == (a - r) * (b + s)
           y == (b - s) * (a + r)
<1>4. x \in Int /\ y \in Int /\ x <= y
  BY <1>3
<1>5. S * x <= S * y
  <2> HIDE DEF x, y
  <2> QED BY <1>4
<1>6. (S * (a - r)) * (b + s) = S * x /\ (S * (b - s)) * (a + r) = S * y
  OBVIOUS
<1>7. S * (a - r) \in Int /\ S * (b - s) \in Int /\ a + r \in Nat \ {0} /\ b + s \in Nat \ {0}
  OBVIOUS
<1> QED BY <1>5, <1>6, <1>7, DivisionGrows

\* The share is between minus and plus the whole.
LEMMA ShareBounded ==
  ASSUME NEW S \in Nat, NEW a \in Nat, NEW r \in Nat, a + r > 0
  PROVE  (S * (a - r)) \div (a + r) \in -S..S
<1> DEFINE n == a + r
           q == (S * (a - r)) \div n
<1>1. n \in Nat \ {0} /\ S * (a - r) \in Int
  OBVIOUS
<1>2. q \in Int /\ n * q <= S * (a - r) /\ S * (a - r) < n * q + n
  BY <1>1, DivisionBounds
<1>3. S * (a - r) <= S * n /\ S * (a - r) >= -(S * n) /\ S * n = n * S /\ n * S \in Nat
  OBVIOUS
<1> HIDE DEF q, n
<1>4. q >= S + 1 => n * q >= n * S + n
  BY <1>1, <1>2
<1>5. q <= -S - 1 => n * q <= -(n * S) - n
  BY <1>1, <1>2
<1>6. n * q \in Int
  BY <1>1, <1>2
<1> QED BY <1>1, <1>2, <1>3, <1>4, <1>5, <1>6 DEF q, n

LEMMA ClampGrows ==
  ASSUME NEW x \in Int, NEW y \in Int, x <= y
  PROVE  Clamp(x) \in Int /\ Clamp(x) <= Clamp(y)
<1>1. Floor \in Int
  BY SignalsAssumption
<1>2. ASSUME NEW v \in Int
      PROVE  Clamp(v) = LET top == IF v <= 100 THEN v ELSE 100 IN IF Floor >= top THEN Floor ELSE top
  BY <1>1, MaxMinOfTwo DEF Clamp
<1> QED BY <1>1, <1>2

SignalsTyped == verdicts \in [Marked -> ToSet(StatusOrder)]

\* While the findings of a rule have one confidence, that is the confidence of the rule.
LEMMA UniformBase ==
  ASSUME SignalsTyped, NEW f \in Marked, Uniform(MarkedOf[f].rule)
  PROVE  BaseConfidence(MarkedOf[f].rule) = MarkedOf[f].confidence
<1> DEFINE S == RowsOf(MarkedOf[f].rule)
           Goes(x, y) == MarkRank(x) < MarkRank(y) \/ (MarkRank(x) = MarkRank(y) /\ x < y)
           R == {p \in S \X S : Goes(p[1], p[2])}
<1>1. IsFiniteSet(S) /\ f \in S /\ S \subseteq Nat
  BY SignalsAssumption, FS_Subset DEF RowsOf
<1>2. \A x \in S : MarkRank(x) \in Int
  <2> TAKE x \in S
  <2>1. verdicts[x] \in {StatusOrder[i] : i \in DOMAIN StatusOrder} /\ DOMAIN StatusOrder = 1..7
    BY DEF SignalsTyped, RowsOf, ToSet, StatusOrder
  <2>2. \E i \in DOMAIN StatusOrder : StatusOrder[i] = verdicts[x]
    BY <2>1
  <2>3. MarkRank(x) \in DOMAIN StatusOrder
    BY <2>2 DEF MarkRank
  <2> QED BY <2>1, <2>3
<1> HIDE DEF S
<1>3. StrictOrder(S, R)
  <2>1. \A x \in S : <<x, x>> \notin R
    BY <1>1, <1>2
  <2>2. \A x, y, z \in S : <<x, y>> \in R /\ <<y, z>> \in R => <<x, z>> \in R
    BY <1>1, <1>2
  <2>3. \A x, y \in S : x = y \/ <<x, y>> \in R \/ <<y, x>> \in R
    BY <1>1, <1>2
  <2> QED BY ONLY <2>1, <2>2, <2>3 DEF StrictOrder
<1>4. \E x \in S : \A y \in S : y = x \/ <<x, y>> \in R
  <2> HIDE DEF R
  <2> QED BY <1>1, <1>3, FirstOfOrder
<1>5. \E x \in S : \A y \in S : MarkRank(x) < MarkRank(y) \/ (MarkRank(x) = MarkRank(y) /\ x <= y)
  <2>1. PICK x \in S : \A y \in S : y = x \/ <<x, y>> \in R
    BY <1>4
  <2>2. ASSUME NEW y \in S PROVE MarkRank(x) < MarkRank(y) \/ (MarkRank(x) = MarkRank(y) /\ x <= y)
    <3>1. MarkRank(x) \in Int /\ MarkRank(y) \in Int /\ x \in Int /\ y \in Int
      BY <1>1, <1>2
    <3>2. y = x \/ Goes(x, y)
      BY <2>1
    <3> QED BY <3>1, <3>2
  <2> QED BY <2>1, <2>2
<1> DEFINE w == CHOOSE x \in S : \A y \in S : MarkRank(x) < MarkRank(y) \/ (MarkRank(x) = MarkRank(y) /\ x <= y)
<1>6. w \in S
  BY <1>5
<1>7. BaseConfidence(MarkedOf[f].rule) = MarkedOf[w].confidence
  BY DEF BaseConfidence, S
<1> HIDE DEF w
<1> QED BY <1>1, <1>6, <1>7 DEF Uniform, S

\* The findings of a rule whose status is one of some.
Holding(rule, statuses) == {f \in RowsOf(rule) : verdicts[f] \in statuses}

LEMMA HoldingCounts ==
  ASSUME NEW rule, NEW statuses
  PROVE  IsFiniteSet(Holding(rule, statuses)) /\ Cardinality(Holding(rule, statuses)) \in Nat
<1>1. IsFiniteSet(Holding(rule, statuses))
  BY SignalsAssumption, FS_Subset DEF Holding, RowsOf
<1> QED BY <1>1, FS_CardinalityType

\* A verdict moves one finding of its rule out of the statuses or into them.
LEMMA VerdictCounts ==
  ASSUME SignalsTyped, NEW f \in Marked, NEW state, verdicts' = [verdicts EXCEPT ![f] = state], NEW statuses
  PROVE  LET rule == MarkedOf[f].rule
             before == Cardinality(Holding(rule, statuses))
             after == Cardinality(Holding(rule, statuses)')
         IN  /\ before \in Nat /\ after \in Nat
             /\ state \in statuses => after >= before
             /\ state \in statuses /\ verdicts[f] \notin statuses => after = before + 1
             /\ state \notin statuses => after <= before
             /\ state \notin statuses /\ verdicts[f] \in statuses => after + 1 = before
             /\ (state \in statuses <=> verdicts[f] \in statuses) => after = before
<1> DEFINE A == Holding(MarkedOf[f].rule, statuses)
           B == {g \in RowsOf(MarkedOf[f].rule) : verdicts'[g] \in statuses}
<1>1. B = Holding(MarkedOf[f].rule, statuses)'
  BY DEF Holding, RowsOf
<1>2. IsFiniteSet(A) /\ Cardinality(A) \in Nat
  BY HoldingCounts
<1>3. f \in RowsOf(MarkedOf[f].rule) /\ verdicts'[f] = state
  BY DEF RowsOf, SignalsTyped
<1>4. \A g \in Marked \ {f} : verdicts'[g] = verdicts[g]
  BY DEF SignalsTyped
<1>5. B = (A \ {f}) \cup (IF state \in statuses THEN {f} ELSE {}) /\ (f \in A <=> verdicts[f] \in statuses)
  BY <1>3, <1>4 DEF Holding, RowsOf
<1> HIDE DEF A, B
<1>6. IsFiniteSet(A \ {f}) /\ Cardinality(A \ {f}) = IF f \in A THEN Cardinality(A) - 1 ELSE Cardinality(A)
  BY <1>2, FS_RemoveElement
<1>7. Cardinality((A \ {f}) \cup {f}) = Cardinality(A \ {f}) + 1
  BY <1>6, FS_AddElement
<1>8. Cardinality(A \ {f}) \in Nat
  BY <1>6, FS_CardinalityType
<1>9. CASE state \in statuses
  <2>1. Cardinality(B) = Cardinality(A \ {f}) + 1
    BY <1>5, <1>7, <1>9
  <2> QED BY <1>1, <1>2, <1>5, <1>6, <1>8, <1>9, <2>1 DEF A
<1>10. CASE state \notin statuses
  <2>1. Cardinality(B) = Cardinality(A \ {f})
    BY <1>5, <1>10
  <2> QED BY <1>1, <1>2, <1>5, <1>6, <1>8, <1>10, <2>1 DEF A
<1> QED BY <1>9, <1>10

LEMMA CalibratedCount ==
  ASSUME NEW rule
  PROVE  Cardinality(Holding(rule, Accepted \cup Rejected))
           = Cardinality(Holding(rule, Accepted)) + Cardinality(Holding(rule, Rejected))
<1> DEFINE A == Holding(rule, Accepted)
           B == Holding(rule, Rejected)
<1>1. Holding(rule, Accepted \cup Rejected) = A \cup B
  BY DEF Holding, Accepted, Rejected
<1>4. A \cap B = {}
  BY DEF Holding, Accepted, Rejected
<1>2. IsFiniteSet(A) /\ IsFiniteSet(B) /\ Cardinality(A) \in Nat /\ Cardinality(B) \in Nat
  BY HoldingCounts
<1> HIDE DEF A, B
<1>3. Cardinality(A \cup B) = Cardinality(A) + Cardinality(B) - Cardinality(A \cap B)
  BY <1>2, FS_Union
<1>5. Cardinality(A \cap B) = 0
  BY <1>4, FS_EmptySet, Zenon
<1>6. Cardinality(A \cup B) = Cardinality(A) + Cardinality(B)
  BY ONLY <1>2, <1>3, <1>5
<1> QED BY <1>1, <1>6 DEF A, B

CalibrationIs ==
  SignalsTyped =>
    \A f \in Marked :
      LET rule == MarkedOf[f].rule
          a == Cardinality(Holding(rule, Accepted))
          r == Cardinality(Holding(rule, Rejected))
      IN  /\ Calibrated(rule) <=> a + r >= SampleSize
          /\ Adjusted(rule) = IF a + r < SampleSize THEN BaseConfidence(rule)
                              ELSE Clamp(BaseConfidence(rule) + (Shift * (a - r)) \div (a + r))
          /\ Uniform(rule) => BaseConfidence(rule) = MarkedOf[f].confidence

\* What the sample, the confidence and the base of a rule are, now and after a step.
LEMMA CalibrationNow == CalibrationIs
<1> SUFFICES ASSUME SignalsTyped, NEW f \in Marked
    PROVE LET rule == MarkedOf[f].rule
              a == Cardinality(Holding(rule, Accepted))
              r == Cardinality(Holding(rule, Rejected))
          IN  /\ Calibrated(rule) <=> a + r >= SampleSize
              /\ Adjusted(rule) = IF a + r < SampleSize THEN BaseConfidence(rule)
                                  ELSE Clamp(BaseConfidence(rule) + (Shift * (a - r)) \div (a + r))
              /\ Uniform(rule) => BaseConfidence(rule) = MarkedOf[f].confidence
  BY DEF CalibrationIs
<1> DEFINE rule == MarkedOf[f].rule
<1>1. Calibrated(rule) <=> Cardinality(Holding(rule, Accepted \cup Rejected)) >= SampleSize
  BY DEF Calibrated, Holding
<1>2. Uniform(rule) => BaseConfidence(rule) = MarkedOf[f].confidence
  BY UniformBase
<1> HIDE DEF rule
<1>3. Calibrated(rule) <=> Cardinality(Holding(rule, Accepted)) + Cardinality(Holding(rule, Rejected)) >= SampleSize
  BY <1>1, CalibratedCount
<1>4. Adjusted(rule) =
        IF Cardinality(Holding(rule, Accepted)) + Cardinality(Holding(rule, Rejected)) < SampleSize
        THEN BaseConfidence(rule)
        ELSE Clamp(BaseConfidence(rule) + (Shift * (Cardinality(Holding(rule, Accepted)) - Cardinality(Holding(rule, Rejected))))
                     \div (Cardinality(Holding(rule, Accepted)) + Cardinality(Holding(rule, Rejected))))
  BY DEF Adjusted, Holding
<1> QED BY <1>2, <1>3, <1>4 DEF rule
LEMMA CalibrationNext == CalibrationIs'
BY CalibrationNow, PTL

LEMMA VerdictStep ==
  ASSUME SignalsTyped, SignalsTyped', NEW f \in Marked, NEW state \in GivenStatuses, GiveVerdict(f, state),
         Uniform(MarkedOf[f].rule), Calibrated(MarkedOf[f].rule)
  PROVE  LET r == MarkedOf[f].rule IN
         /\ state \in Accepted => Adjusted(r)' >= Adjusted(r)
         /\ state \in Rejected => Adjusted(r)' <= Adjusted(r)
         /\ Calibrated(r)' => Adjusted(r)' \in Clamp(BaseConfidence(r) - Shift)..Clamp(BaseConfidence(r) + Shift)
<1> DEFINE rule == MarkedOf[f].rule
           a == Cardinality(Holding(rule, Accepted))
           r == Cardinality(Holding(rule, Rejected))
           b == Cardinality(Holding(rule, Accepted)')
           s == Cardinality(Holding(rule, Rejected)')
           first == BaseConfidence(rule)
<1>1. verdicts' = [verdicts EXCEPT ![f] = state] /\ verdicts[f] # state
  BY DEF GiveVerdict
<1>2. a \in Nat /\ b \in Nat /\ r \in Nat /\ s \in Nat
  BY <1>1, VerdictCounts
<1>3. state \in Accepted => b >= a /\ s <= r
  <2>1. state \in Accepted => state \notin Rejected
    BY DEF Accepted, Rejected
  <2> QED BY <1>1, <2>1, VerdictCounts
<1>4. state \in Rejected => b <= a /\ s >= r
  <2>1. state \in Rejected => state \notin Accepted
    BY DEF Accepted, Rejected
  <2> QED BY <1>1, <2>1, VerdictCounts
<1>5. state \in Accepted \cup Rejected => b + s >= a + r
  <2>1. state \in Accepted /\ verdicts[f] \in Rejected => b = a + 1 /\ s + 1 = r
    BY <1>1, VerdictCounts DEF Accepted, Rejected
  <2>2. state \in Rejected /\ verdicts[f] \in Accepted => s = r + 1 /\ b + 1 = a
    BY <1>1, VerdictCounts DEF Accepted, Rejected
  <2>3. state \in Accepted /\ verdicts[f] \notin Rejected => s = r
    BY <1>1, VerdictCounts DEF Accepted, Rejected
  <2>4. state \in Rejected /\ verdicts[f] \notin Accepted => b = a
    BY <1>1, VerdictCounts DEF Accepted, Rejected
  <2> QED BY <1>2, <1>3, <1>4, <2>1, <2>2, <2>3, <2>4
<1>6. a + r >= SampleSize /\ (Calibrated(rule)' <=> b + s >= SampleSize) /\ SampleSize \in Nat \ {0}
  BY CalibrationNow, CalibrationNext, SignalsAssumption DEF CalibrationIs
<1>7. first = MarkedOf[f].confidence /\ BaseConfidence(rule)' = first /\ first \in Int
  <2>1. first = MarkedOf[f].confidence /\ BaseConfidence(rule)' = MarkedOf[f].confidence
    BY CalibrationNow, CalibrationNext DEF CalibrationIs, Uniform, RowsOf
  <2> QED BY <2>1, SignalsAssumption
<1>8. Adjusted(rule) = IF a + r < SampleSize THEN first ELSE Clamp(first + (Shift * (a - r)) \div (a + r))
  BY CalibrationNow DEF CalibrationIs
<1>9. Adjusted(rule)' = IF b + s < SampleSize THEN first ELSE Clamp(first + (Shift * (b - s)) \div (b + s))
  BY <1>7, CalibrationNext DEF CalibrationIs, Clamp
<1>10. Shift \in Nat /\ a + r > 0 /\ (b + s >= SampleSize => b + s > 0)
  BY <1>2, <1>6, SignalsAssumption
<1> HIDE DEF a, r, b, s, first
<1> DEFINE up(x, y) == (Shift * (x - y)) \div (x + y)
<1>11. up(a, r) \in -Shift..Shift /\ (b + s >= SampleSize => up(b, s) \in -Shift..Shift)
  BY <1>2, <1>10, ShareBounded
<1>12. state \in Accepted => up(a, r) <= up(b, s)
  BY <1>2, <1>3, <1>5, <1>6, <1>10, ShareGrows
<1>13. state \in Rejected => up(b, s) <= up(a, r)
  BY <1>2, <1>4, <1>5, <1>6, <1>10, ShareGrows
<1>14. Adjusted(rule) = Clamp(first + up(a, r)) /\ (b + s >= SampleSize => Adjusted(rule)' = Clamp(first + up(b, s)))
  BY <1>2, <1>6, <1>8, <1>9
<1> HIDE DEF up, rule
<1>15. state \in Accepted \cup Rejected => b + s >= SampleSize
  BY <1>2, <1>5, <1>6
<1>16. state \in Accepted => Adjusted(rule)' >= Adjusted(rule)
  BY <1>7, <1>10, <1>11, <1>12, <1>14, <1>15, ClampGrows
<1>17. state \in Rejected => Adjusted(rule)' <= Adjusted(rule)
  BY <1>7, <1>10, <1>11, <1>13, <1>14, <1>15, ClampGrows
<1>18. b + s >= SampleSize => Adjusted(rule)' \in Clamp(first - Shift)..Clamp(first + Shift)
  BY <1>7, <1>10, <1>11, <1>14, ClampGrows
<1> QED BY <1>6, <1>16, <1>17, <1>18 DEF rule, first

\* Only a verdict changes the statuses, and it leaves each a status.
LEMMA SignalsTypedStep ==
  SignalsTyped /\ [SignalsNext]_signalVars => SignalsTyped'
<1> SUFFICES ASSUME SignalsTyped, [SignalsNext]_signalVars PROVE SignalsTyped'
  OBVIOUS
<1>1. CASE verdicts' = verdicts
  BY <1>1 DEF SignalsTyped
<1>2. ASSUME NEW f \in Marked, NEW state \in GivenStatuses, GiveVerdict(f, state) PROVE SignalsTyped'
  BY <1>2, SignalsAssumption DEF SignalsTyped, GiveVerdict
<1>3. verdicts' = verdicts \/ \E f \in Marked, state \in GivenStatuses : GiveVerdict(f, state)
  BY DEF SignalsNext, signalVars, EditPath, ReplaceFileRow, GitCommit, Branch, Relink, ReadRows, ReadLog, ReadDiff, ReadStatus
<1> QED BY <1>1, <1>2, <1>3

LEMMA SignalsAreTyped == SignalsSpec => []SignalsTyped
<1>1. SignalsInit => SignalsTyped
  <2>1. "open" = StatusOrder[4] /\ 4 \in DOMAIN StatusOrder
    BY DEF StatusOrder
  <2>2. "open" \in ToSet(StatusOrder)
    BY <2>1 DEF ToSet
  <2> QED BY <2>2 DEF SignalsInit, SignalsTyped
<1> QED BY <1>1, SignalsTypedStep, PTL DEF SignalsSpec

\* For any findings, verdicts and adaptive settings: a verdict moves the confidence of a
\* calibrated rule its own way and keeps it within Shift of the base, and only dismissals
\* make or unmake a candidate for suppression (_adjust, _suppression_candidates).
THEOREM VerdictsMoveRight == SignalsSpec => VerdictsMoveConfidence
<1>1. SignalsTyped /\ SignalsTyped' /\ [SignalsNext]_signalVars =>
      [\A f \in Marked :
         LET r == MarkedOf[f].rule IN
         /\ verdicts'[f] # verdicts[f] /\ Candidates' # Candidates => verdicts'[f] \in Rejected \/ verdicts[f] \in Rejected
         /\ Uniform(r) /\ Calibrated(r) /\ verdicts'[f] # verdicts[f] =>
             /\ verdicts'[f] \in Accepted => Adjusted(r)' >= Adjusted(r)
             /\ verdicts'[f] \in Rejected => Adjusted(r)' <= Adjusted(r)
             /\ Calibrated(r)' => Adjusted(r)' \in Clamp(BaseConfidence(r) - Shift)..Clamp(BaseConfidence(r) + Shift)]_signalVars
  <2> SUFFICES ASSUME SignalsTyped, SignalsTyped', [SignalsNext]_signalVars,
                      NEW f \in Marked, verdicts'[f] # verdicts[f]
      PROVE LET r == MarkedOf[f].rule IN
         /\ Candidates' # Candidates => verdicts'[f] \in Rejected \/ verdicts[f] \in Rejected
         /\ Uniform(r) /\ Calibrated(r) =>
             /\ verdicts'[f] \in Accepted => Adjusted(r)' >= Adjusted(r)
             /\ verdicts'[f] \in Rejected => Adjusted(r)' <= Adjusted(r)
             /\ Calibrated(r)' => Adjusted(r)' \in Clamp(BaseConfidence(r) - Shift)..Clamp(BaseConfidence(r) + Shift)
    OBVIOUS
  <2>1. PICK g \in Marked, state \in GivenStatuses : GiveVerdict(g, state)
    BY DEF SignalsNext, signalVars, EditPath, ReplaceFileRow, GitCommit, Branch, Relink, ReadRows, ReadLog, ReadDiff, ReadStatus
  <2>2. verdicts' = [verdicts EXCEPT ![g] = state]
    BY <2>1 DEF GiveVerdict
  <2>3. g = f /\ verdicts'[f] = state /\ \A h \in Marked \ {f} : verdicts'[h] = verdicts[h]
    BY <2>2 DEF SignalsTyped
  <2>4. ASSUME verdicts'[f] \notin Rejected, verdicts[f] \notin Rejected
        PROVE  Candidates' = Candidates
    <3>1. \A h \in Marked : verdicts'[h] \in Rejected <=> verdicts[h] \in Rejected
      BY <2>3, <2>4
    <3>2. \A c : {h \in RowsOf(c[1]) : MarkedOf[h].path = c[2] /\ verdicts'[h] \in Rejected}
                   = {h \in RowsOf(c[1]) : MarkedOf[h].path = c[2] /\ verdicts[h] \in Rejected}
      BY <3>1 DEF RowsOf
    <3> QED BY <3>2 DEF Candidates
  <2>5. GiveVerdict(f, state)
    BY <2>1, <2>3
  <2> QED BY <2>3, <2>4, <2>5, VerdictStep
<1> QED BY <1>1, SignalsAreTyped, PTL DEF SignalsSpec, VerdictsMoveConfidence

SinceFields == {"at", "worked", "paths", "before", "new"}

\* The two reads of git.  Between them an untracked file can only be committed; nothing
\* leaves the history.
HistoryInv ==
  /\ commits \in Seq([author : Authors, paths : SUBSET Tracked])
  /\ DOMAIN since = SinceFields
  /\ since.at \in {"idle", "status", "done"}
  /\ since.at # "idle" /\ since.worked => since.before \subseteq since.paths \cup since.new
  /\ since.at = "status" => since.worked
  /\ since.at = "status" => \A p \in since.new : p \in untracked \/ \E i \in DOMAIN commits : p \in commits[i].paths
  /\ since.at = "done" /\ since.worked =>
       \A p \in since.before : p \in since.paths \/ (p \in since.new /\ \E i \in DOMAIN commits : p \in commits[i].paths)

LEMMA HistoryInvariant == SignalsSpec => []HistoryInv
<1>1. SignalsInit => HistoryInv
  <2> SUFFICES ASSUME SignalsInit PROVE HistoryInv
    OBVIOUS
  <2>1. commits \in Seq([author : Authors, paths : SUBSET Tracked])
    <3>1. CASE commits = <<>>
      BY <3>1
    <3>2. ASSUME NEW a \in Authors, commits = <<[author |-> a, paths |-> Tracked]>> PROVE commits \in Seq([author : Authors, paths : SUBSET Tracked])
      BY <3>2
    <3>3. ASSUME NEW a \in Authors, NEW b \in Authors, NEW p \in Tracked,
                 commits = <<[author |-> a, paths |-> Tracked], [author |-> b, paths |-> {p}]>>
          PROVE  commits \in Seq([author : Authors, paths : SUBSET Tracked])
      BY <3>3
    <3>4. \/ commits = <<>> \/ \E a \in Authors : commits = <<[author |-> a, paths |-> Tracked]>>
          \/ \E a \in Authors, b \in Authors, p \in Tracked :
               commits = <<[author |-> a, paths |-> Tracked], [author |-> b, paths |-> {p}]>>
      BY DEF SignalsInit, Histories
    <3> QED BY <3>1, <3>2, <3>3, <3>4
  <2> QED BY <2>1 DEF SignalsInit, HistoryInv, NoSince, SinceFields
<1>2. HistoryInv /\ [SignalsNext]_signalVars => HistoryInv'
  <2> SUFFICES ASSUME HistoryInv, [SignalsNext]_signalVars PROVE HistoryInv'
    OBVIOUS
  <2>1. ASSUME UNCHANGED <<commits, since>>, untracked \subseteq untracked' PROVE HistoryInv'
    BY <2>1 DEF HistoryInv
  <2>2. ASSUME NEW p \in Tracked, EditPath(p) PROVE HistoryInv'
    BY <2>1, <2>2 DEF EditPath
  <2>3. ASSUME NEW a \in Authors, NEW paths \in SUBSET Tracked, GitCommit(a, paths) PROVE HistoryInv'
    <3> DEFINE c == [author |-> a, paths |-> paths]
    <3>1. commits' = Append(commits, c) /\ untracked' = untracked \ paths /\ since' = since
      BY <2>3 DEF GitCommit
    <3>2. commits' \in Seq([author : Authors, paths : SUBSET Tracked])
          /\ (\A i \in DOMAIN commits : i \in DOMAIN commits' /\ commits'[i] = commits[i])
          /\ \E i \in DOMAIN commits' : commits'[i] = c
      <4>1. commits \in Seq([author : Authors, paths : SUBSET Tracked]) /\ c \in [author : Authors, paths : SUBSET Tracked]
        BY DEF HistoryInv
      <4>2. Len(commits) + 1 \in DOMAIN commits' /\ commits'[Len(commits) + 1] = c
        BY <3>1, <4>1
      <4> QED BY <3>1, <4>1, <4>2
    <3>3. c.paths = paths
      OBVIOUS
    <3> HIDE DEF c
    <3>4. \A p : (\E i \in DOMAIN commits : p \in commits[i].paths) => \E i \in DOMAIN commits' : p \in commits'[i].paths
      BY <3>2
    <3>5. \A p \in paths : \E i \in DOMAIN commits' : p \in commits'[i].paths
      BY <3>2, <3>3
    <3> QED BY <3>1, <3>2, <3>4, <3>5 DEF HistoryInv
  <2>4. ASSUME NEW works \in BOOLEAN, ReadDiff(works) PROVE HistoryInv'
    BY <2>4 DEF ReadDiff, HistoryInv, NoSince, SinceFields, DiffPaths, CommittedSince
  <2>5. ASSUME NEW works \in BOOLEAN, ReadStatus(works) PROVE HistoryInv'
    <3>1. /\ since.at = "status" /\ commits' = commits /\ untracked' = untracked
          /\ since' = [since EXCEPT !.at = "done", !.worked = works,
                            !.paths = @ \cup IF works THEN modified \cup untracked ELSE {}]
      BY <2>5 DEF ReadStatus
    <3>2. /\ DOMAIN since' = SinceFields /\ since'.at = "done" /\ since'.worked = works
          /\ since'.before = since.before /\ since'.new = since.new
          /\ since'.paths = since.paths \cup IF works THEN modified \cup untracked ELSE {}
      BY <3>1 DEF HistoryInv, SinceFields
    <3>3. since.worked /\ since.before \subseteq since.paths \cup since.new
      BY <3>1 DEF HistoryInv
    <3> QED BY <3>1, <3>2, <3>3 DEF HistoryInv
  <2> QED BY <2>1, <2>2, <2>3, <2>4, <2>5
        DEF SignalsNext, signalVars, ReplaceFileRow, GiveVerdict, Branch, Relink, ReadRows, ReadLog
<1> QED BY <1>1, <1>2, PTL DEF SignalsSpec

\* git_changed_paths_since asks git twice while files are edited and committed, and leaves
\* out only what was untracked at the first and is committed by the second.
THEOREM ChangedSinceComplete == SignalsSpec => []ChangedSinceIsComplete
<1>1. HistoryInv => ChangedSinceIsComplete
  BY DEF HistoryInv, ChangedSinceIsComplete
<1> QED BY <1>1, HistoryInvariant, PTL

-----------------------------------------------------------------------------
(* The log of git: any history, any limit.                                     *)

LogCommit == [author : Authors, paths : SUBSET Tracked]
LogLine == [author : Authors \cup {"none"}, path : Tracked \cup {0}]
LogCounts == [total : [Tracked -> Nat], by : [Tracked -> [Authors -> Nat]],
              pending : SUBSET Tracked, author : Authors \cup {"none"}]

LEMMA FlushTyped ==
  ASSUME NEW acc \in LogCounts
  PROVE  Flushed(acc) \in LogCounts
<1>1. CASE acc.author = "none"
  BY <1>1 DEF Flushed
<1>2. CASE acc.author # "none"
  <2>1. /\ acc.total \in [Tracked -> Nat] /\ acc.by \in [Tracked -> [Authors -> Nat]]
        /\ acc.author \in Authors
    BY <1>2 DEF LogCounts
  <2>2. \A p \in Tracked : Adds(acc, p) \in Nat
    BY DEF Adds
  <2>3. [p \in Tracked |-> acc.total[p] + Adds(acc, p)] \in [Tracked -> Nat]
    BY <2>1, <2>2
  <2>4. ASSUME NEW p \in Tracked, NEW a \in Authors
        PROVE  (acc.by[p][a] + IF a = acc.author THEN Adds(acc, p) ELSE 0) \in Nat
    BY <2>1, <2>2
  <2>5. [p \in Tracked |-> [a \in Authors |-> acc.by[p][a] + IF a = acc.author THEN Adds(acc, p) ELSE 0]]
          \in [Tracked -> [Authors -> Nat]]
    BY <2>4
  <2> QED BY <1>2, <2>1, <2>3, <2>5 DEF Flushed, LogCounts
<1> QED BY <1>1, <1>2

LEMMA LineTyped ==
  ASSUME NEW acc \in LogCounts, NEW line \in LogLine
  PROVE  Line(acc, line) \in LogCounts
<1>1. Flushed(acc) \in LogCounts
  BY FlushTyped
<1>2. line.path \in Tracked \cup {0} /\ line.author \in Authors \cup {"none"}
  BY DEF LogLine
<1>3. CASE line.path = 0
  BY <1>1, <1>2, <1>3 DEF Line, LogCounts
<1>4. CASE line.path # 0
  BY <1>2, <1>4 DEF Line, LogCounts
<1> QED BY <1>3, <1>4

\* Reading a text line by line gives a state after each line.
LEMMA TextIsRead ==
  ASSUME NEW text \in Seq(LogLine)
  PROVE  \E f \in [0..Len(text) -> LogCounts] :
           /\ f[0] = NoCounts /\ \A n \in 1..Len(text) : f[n] = Line(f[n - 1], text[n])
           /\ ReadLines(text) = f[Len(text)]
<1> DEFINE N == Len(text)
           step == [p \in LogCounts \X LogLine |-> Line(p[1], p[2])]
           f == CHOOSE f : f = [n \in 0..N |-> IF n = 0 THEN NoCounts ELSE Line(f[n - 1], text[n])]
<1>1. step \in [LogCounts \X LogLine -> LogCounts]
  BY LineTyped
<1>2. \A p \in LogCounts \X LogLine : step[p] = Line(p[1], p[2])
  OBVIOUS
<1>3. NoCounts \in LogCounts
  BY DEF NoCounts, LogCounts
<1>4. N \in Nat /\ 0 \in 0..N /\ N \in 0..N /\ \A n \in 1..N : n \in 0..N /\ n - 1 \in 0..N /\ n # 0 /\ text[n] \in LogLine
  OBVIOUS
<1>5. \A n \in 0..N : n = 0 \/ n \in 1..N
  BY ONLY <1>4
<1> HIDE DEF step
<1>6. PICK g \in [0..N -> LogCounts] : Runs(g, step, NoCounts, text)
  BY <1>1, <1>3, RunExists
<1>7. ReadLines(text) = f[N]
  BY DEF ReadLines
<1>8. g[0] = NoCounts /\ \A n \in 1..N : g[n] = Line(g[n - 1], text[n])
  <2>1. g[0] = NoCounts /\ \A n \in 1..N : g[n] = step[<<g[n - 1], text[n]>>]
    BY <1>6 DEF Runs
  <2>2. \A n \in 1..N : <<g[n - 1], text[n]>> \in LogCounts \X LogLine
    BY <1>4
  <2> QED BY <1>2, <2>1, <2>2
<1>9. g = [n \in 0..N |-> IF n = 0 THEN NoCounts ELSE Line(g[n - 1], text[n])]
  <2>1. \A n \in 0..N : g[n] = IF n = 0 THEN NoCounts ELSE Line(g[n - 1], text[n])
    BY ONLY <1>5, <1>4, <1>8
  <2> HIDE DEF N
  <2> QED BY <2>1, <1>6
<1>10. f = [n \in 0..N |-> IF n = 0 THEN NoCounts ELSE Line(f[n - 1], text[n])]
  BY <1>9
<1> HIDE DEF f, N
<1>11. f[0] = NoCounts /\ \A n \in 1..N : f[n] = Line(f[n - 1], text[n])
  <2>1. \A n \in 0..N : f[n] = IF n = 0 THEN NoCounts ELSE Line(f[n - 1], text[n])
    BY <1>10
  <2> QED BY <1>4, <2>1
<1> DEFINE S == {n \in 0..N : f[n] \in LogCounts}
<1>12. 0 \in S
  BY <1>3, <1>4, <1>11
<1>13. \A n \in 1..N : n - 1 \in S => n \in S
  BY <1>4, <1>11, LineTyped
<1>14. 0..N \subseteq S
  <2> HIDE DEF S
  <2> QED BY <1>4, <1>12, <1>13, UpToInduction
<1>15. f \in [0..N -> LogCounts]
  <2>1. f = [n \in 0..N |-> f[n]]
    BY <1>10
  <2> QED BY <2>1, <1>14
<1> QED BY <1>7, <1>11, <1>15 DEF N

-----------------------------------------------------------------------------

LEMMA ListedTyped ==
  ASSUME NEW c \in LogCommit, NEW paths \in SUBSET Tracked, NEW full \in BOOLEAN
  PROVE  Listed(c, paths, full) \in SUBSET Tracked /\ IsFiniteSet(Listed(c, paths, full))
<1>1. Listed(c, paths, full) \in SUBSET Tracked
  BY DEF Listed, LogCommit
<1> QED BY <1>1, FS_Subset, SignalsAssumption

PathsOfLines(lines, m) == {lines[i].path : i \in 2..m}

\* The lines of a commit are its header and the paths that are listed.
LEMMA CommitLinesAre ==
  ASSUME NEW c \in LogCommit, NEW paths \in SUBSET Tracked, NEW full \in BOOLEAN,
         NEW lines, lines = CommitLines(c, paths, full)
  PROVE  /\ lines \in Seq(LogLine) /\ Len(lines) \in Nat \ {0}
         /\ lines[1] = [author |-> c.author, path |-> 0]
         /\ PathsOfLines(lines, Len(lines)) = Listed(c, paths, full)
<1> DEFINE set == Listed(c, paths, full)
           R == Pairs(set, <)
           path == Ranked(set, R)
           header == [author |-> c.author, path |-> 0]
           rest == [i \in DOMAIN path |-> [author |-> "none", path |-> path[i]]]
<1>1. set \in SUBSET Tracked /\ IsFiniteSet(set)
  BY ListedTyped
<1>2. \A x \in set : x \in Nat \ {0}
  BY <1>1, SignalsAssumption
<1>3. StrictOrder(set, R)
  BY <1>2 DEF StrictOrder, Pairs
<1>4. lines = <<header>> \o rest
  BY DEF CommitLines, Sorted
<1> HIDE DEF set, R
<1>5. path \in Seq(set) /\ {path[i] : i \in DOMAIN path} = set
  BY <1>1, <1>3, RankedIsSequence
<1> HIDE DEF path
<1>6. Len(path) \in Nat /\ DOMAIN path = 1..Len(path) /\ \A i \in 1..Len(path) : path[i] \in set
  BY <1>5
<1>7. rest \in Seq(LogLine) /\ Len(rest) = Len(path) /\ \A i \in 1..Len(path) : rest[i].path = path[i]
  <2>1. \A i \in 1..Len(path) : [author |-> "none", path |-> path[i]] \in LogLine
    BY <1>1, <1>6 DEF LogLine
  <2>2. rest \in [1..Len(path) -> LogLine]
    BY <1>6, <2>1
  <2>3. \A i \in 1..Len(path) : rest[i].path = path[i]
    BY <1>6
  <2> HIDE DEF rest
  <2> QED BY <1>6, <2>2, <2>3
<1>8. header \in LogLine
  BY DEF LogLine, LogCommit
<1> HIDE DEF rest, header
<1>9. lines \in Seq(LogLine) /\ Len(lines) = Len(path) + 1 /\ lines[1] = header
      /\ \A i \in 2..Len(lines) : lines[i] = rest[i - 1]
  BY <1>4, <1>6, <1>7, <1>8
<1>10. \A i \in 2..Len(lines) : i - 1 \in 1..Len(path) /\ lines[i].path = path[i - 1]
  <2>1. \A i \in 2..Len(lines) : i - 1 \in 1..Len(path)
    BY ONLY <1>6, <1>9
  <2> QED BY <1>7, <1>9, <2>1
<1>11. \A i \in 1..Len(path) : i + 1 \in 2..Len(lines) /\ lines[i + 1].path = path[i]
  <2>1. \A i \in 1..Len(path) : i + 1 \in 2..Len(lines) /\ (i + 1) - 1 = i
    BY ONLY <1>6, <1>9
  <2> QED BY <1>10, <2>1
<1>12. {lines[i].path : i \in 2..Len(lines)} = {path[i] : i \in 1..Len(path)}
  <2>1. ASSUME NEW i \in 2..Len(lines) PROVE lines[i].path \in {path[j] : j \in 1..Len(path)}
    BY ONLY <1>10, <2>1
  <2>2. ASSUME NEW j \in 1..Len(path) PROVE path[j] \in {lines[i].path : i \in 2..Len(lines)}
    BY ONLY <1>11, <2>2
  <2> QED BY ONLY <2>1, <2>2
<1>13. Len(lines) \in Nat \ {0}
  BY ONLY <1>6, <1>9
<1> QED BY <1>5, <1>6, <1>9, <1>12, <1>13 DEF set, header, PathsOfLines

ReadsOn(g, lines) == \A m \in 1..Len(lines) : g[m] = Line(g[m - 1], lines[m])

\* Reading the lines of a commit closes the one before it and leaves the paths of this
\* one to be counted.
LEMMA CommitIsRead ==
  ASSUME NEW c \in LogCommit, NEW paths \in SUBSET Tracked, NEW full \in BOOLEAN,
         NEW lines, lines = CommitLines(c, paths, full),
         NEW g, g[0] \in LogCounts, ReadsOn(g, lines)
  PROVE  g[Len(lines)] = [total |-> Flushed(g[0]).total, by |-> Flushed(g[0]).by,
                          pending |-> Listed(c, paths, full), author |-> c.author]
<1> DEFINE N == Len(lines)
           F == Flushed(g[0])
           seen(m) == PathsOfLines(lines, m)
           state(m) == [total |-> F.total, by |-> F.by, pending |-> seen(m), author |-> c.author]
           S == {k \in 0..N - 1 : g[k + 1] = state(k + 1)}
<1>1. /\ lines \in Seq(LogLine) /\ N \in Nat \ {0} /\ lines[1] = [author |-> c.author, path |-> 0]
      /\ seen(N) = Listed(c, paths, full)
  BY CommitLinesAre
<1>2. Listed(c, paths, full) \in SUBSET Tracked
  BY ListedTyped
<1>3. \A i \in 2..N : lines[i].path \in Tracked /\ lines[i].path # 0
  <2>1. \A i \in 2..N : lines[i].path \in seen(N)
    BY DEF PathsOfLines
  <2> HIDE DEF seen
  <2> QED BY <1>1, <1>2, <2>1, SignalsAssumption
<1>4. F \in LogCounts
  BY FlushTyped
<1>5. F = [total |-> F.total, by |-> F.by, pending |-> F.pending, author |-> F.author]
  BY <1>4 DEF LogCounts
<1> HIDE DEF F
<1>6. 0 \in S
  <2>1. 1 \in 1..N /\ 0 \in 0..N - 1 /\ 1 - 1 = 0 /\ 0 + 1 = 1
    BY <1>1
  <2>2. g[1] = Line(g[0], lines[1])
    BY <2>1 DEF ReadsOn
  <2>3. g[1] = [F EXCEPT !.author = c.author, !.pending = {}]
    <3>1. lines[1].path = 0 /\ lines[1].author = c.author
      BY <1>1
    <3> QED BY <2>2, <3>1 DEF Line, F
  <2>4. g[1] = [total |-> F.total, by |-> F.by, pending |-> {}, author |-> c.author]
    BY <1>5, <2>3
  <2>5. seen(1) = {}
    BY DEF PathsOfLines
  <2> HIDE DEF seen
  <2> QED BY <2>1, <2>4, <2>5
<1>7. ASSUME NEW n \in 1..N - 1, n - 1 \in S PROVE n \in S
  <2>1. n \in 0..N - 1 /\ n + 1 \in 2..N /\ n + 1 \in 1..N /\ (n + 1) - 1 = n /\ (n - 1) + 1 = n
    BY <1>1
  <2>2. g[n] = state(n)
    BY <1>7, <2>1
  <2>3. g[n + 1] = Line(g[n], lines[n + 1])
    BY <2>1 DEF ReadsOn
  <2>4. g[n + 1] = [g[n] EXCEPT !.pending = @ \cup {lines[n + 1].path}]
    BY <1>3, <2>1, <2>3 DEF Line
  <2>5. seen(n + 1) = seen(n) \cup {lines[n + 1].path}
    <3>1. 2..n + 1 = (2..n) \cup {n + 1}
      BY <2>1
    <3> QED BY <3>1 DEF PathsOfLines
  <2> HIDE DEF seen
  <2>6. g[n + 1] = state(n + 1)
    <3> DEFINE t == F.total
               b == F.by
               old == seen(n)
               new == seen(n + 1)
               a == c.author
    <3>1. g[n] = [total |-> t, by |-> b, pending |-> old, author |-> a]
      BY <2>2
    <3>2. g[n + 1] = [g[n] EXCEPT !.pending = new]
      <4>1. g[n].pending = old
        BY <3>1
      <4> QED BY <2>4, <2>5, <4>1
    <3> HIDE DEF t, b, old, new, a
    <3>3. g[n + 1] = [total |-> t, by |-> b, pending |-> new, author |-> a]
      BY ONLY <3>1, <3>2
    <3> QED BY <3>3 DEF t, b, old, new, a
  <2> QED BY <2>1, <2>6
<1>8. 0..N - 1 \subseteq S
  <2> HIDE DEF S
  <2>1. N - 1 \in Nat
    BY <1>1
  <2> HIDE DEF N
  <2> QED BY <1>6, <1>7, <2>1, UpToInduction
<1>9. N - 1 \in S /\ (N - 1) + 1 = N
  <2>1. N - 1 \in 0..N - 1 /\ (N - 1) + 1 = N
    BY <1>1
  <2> HIDE DEF S, N
  <2> QED BY <1>8, <2>1
<1> QED BY <1>1, <1>9 DEF F

\* The commits of the first k of the log that list a path, and those of an author.
Hits(latest, paths, full, k, p) == {i \in 1..k : p \in Listed(latest[i], paths, full) \ HighChurn}
HitsBy(latest, paths, full, k, p, a) == {i \in Hits(latest, paths, full, k, p) : latest[i].author = a}
CountedTo(acc, latest, paths, full, k) ==
  \A p \in Tracked :
    /\ acc.total[p] = Cardinality(Hits(latest, paths, full, k, p))
    /\ \A a \in Authors : acc.by[p][a] = Cardinality(HitsBy(latest, paths, full, k, p, a))

\* One more number below a bound counts once.
LEMMA OneMore ==
  ASSUME NEW k \in Nat \ {0}, NEW A \in SUBSET (1..k - 1), NEW B, B = A \/ B = A \cup {k}
  PROVE  Cardinality(A) \in Nat /\ Cardinality(B) = Cardinality(A) + IF k \in B THEN 1 ELSE 0
<1>1. IsFiniteSet(1..k - 1) /\ k \notin A
  BY FS_Interval
<1>2. IsFiniteSet(A)
  BY <1>1, FS_Subset
<1>3. Cardinality(A) \in Nat
  BY <1>2, FS_CardinalityType
<1>4. Cardinality(A \cup {k}) = Cardinality(A) + 1
  BY <1>1, <1>2, FS_AddElement
<1>5. CASE B = A
  BY <1>1, <1>3, <1>5
<1>6. CASE B = A \cup {k}
  BY <1>3, <1>4, <1>6
<1> QED BY <1>5, <1>6

\* A commit that has been read adds one to each path it lists and to its author.
LEMMA CommitCounts ==
  ASSUME NEW latest \in Seq(LogCommit), NEW paths \in SUBSET Tracked, NEW full \in BOOLEAN,
         NEW k \in 1..Len(latest), NEW acc \in LogCounts, CountedTo(acc, latest, paths, full, k - 1),
         NEW next, next = [total |-> acc.total, by |-> acc.by,
                           pending |-> Listed(latest[k], paths, full), author |-> latest[k].author]
  PROVE  CountedTo(Flushed(next), latest, paths, full, k)
<1>1. latest[k] \in LogCommit /\ k \in Nat \ {0} /\ 1..k = (1..k - 1) \cup {k} /\ k \notin 1..k - 1
  OBVIOUS
<1>2. latest[k].author \in Authors /\ latest[k].author # "none"
  BY <1>1, SignalsAssumption DEF LogCommit
<1>3. /\ next.total = acc.total /\ next.by = acc.by /\ next.author = latest[k].author
      /\ next.pending = Listed(latest[k], paths, full)
  OBVIOUS
<1>4. Flushed(next) =
        [total |-> [p \in Tracked |-> next.total[p] + Adds(next, p)],
         by |-> [p \in Tracked |-> [a \in Authors |-> next.by[p][a] + IF a = next.author THEN Adds(next, p) ELSE 0]],
         pending |-> {}, author |-> next.author]
  BY <1>2, <1>3 DEF Flushed
<1> SUFFICES ASSUME NEW p \in Tracked
    PROVE  /\ Flushed(next).total[p] = Cardinality(Hits(latest, paths, full, k, p))
           /\ \A a \in Authors : Flushed(next).by[p][a] = Cardinality(HitsBy(latest, paths, full, k, p, a))
  BY DEF CountedTo
<1> DEFINE A == Hits(latest, paths, full, k - 1, p)
           B == Hits(latest, paths, full, k, p)
<1>5. A \in SUBSET (1..k - 1) /\ B = (IF p \in Listed(latest[k], paths, full) \ HighChurn THEN A \cup {k} ELSE A)
  BY <1>1 DEF Hits
<1>6. (k \in B <=> p \in Listed(latest[k], paths, full) \ HighChurn) /\ (B = A \/ B = A \cup {k})
  BY <1>1, <1>5
<1>7. Adds(next, p) = IF k \in B THEN 1 ELSE 0
  BY <1>3, <1>6 DEF Adds
<1>8. Flushed(next).total[p] = Cardinality(B)
  <2>1. Flushed(next).total[p] = acc.total[p] + Adds(next, p)
    BY <1>3, <1>4
  <2>2. acc.total[p] = Cardinality(A)
    BY DEF CountedTo
  <2> HIDE DEF A, B
  <2>3. Cardinality(B) = Cardinality(A) + IF k \in B THEN 1 ELSE 0
    <3>1. A \in SUBSET (1..k - 1) /\ k \in Nat \ {0} /\ (B = A \/ B = A \cup {k})
      BY <1>1, <1>5, <1>6
    <3> QED BY ONLY <3>1, OneMore
  <2> QED BY ONLY <1>7, <2>1, <2>2, <2>3
<1>9. ASSUME NEW a \in Authors
      PROVE  Flushed(next).by[p][a] = Cardinality(HitsBy(latest, paths, full, k, p, a))
  <2> DEFINE C == HitsBy(latest, paths, full, k - 1, p, a)
             D == HitsBy(latest, paths, full, k, p, a)
  <2>1. Flushed(next).by[p][a] = acc.by[p][a] + IF a = latest[k].author THEN Adds(next, p) ELSE 0
    BY <1>3, <1>4
  <2>2. acc.by[p][a] = Cardinality(C)
    BY DEF CountedTo
  <2>3. C \in SUBSET (1..k - 1) /\ (D = C \/ D = C \cup {k}) /\ (k \in D <=> k \in B /\ latest[k].author = a)
    <3>1. C = {i \in A : latest[i].author = a} /\ D = {i \in B : latest[i].author = a}
      BY DEF HitsBy
    <3> HIDE DEF A, B, C, D
    <3> QED BY <1>1, <1>5, <1>6, <3>1
  <2>4. acc.by[p][a] + (IF a = latest[k].author THEN Adds(next, p) ELSE 0) = Cardinality(C) + IF k \in D THEN 1 ELSE 0
    <3> HIDE DEF A, B, C, D
    <3>1. Cardinality(C) \in Nat
      BY <1>1, <2>3, OneMore
    <3> QED BY <1>7, <2>2, <2>3, <3>1
  <2> HIDE DEF A, B, C, D
  <2>5. Cardinality(D) = Cardinality(C) + IF k \in D THEN 1 ELSE 0
    BY <1>1, <2>3, OneMore
  <2> QED BY <2>1, <2>4, <2>5 DEF D
<1> QED BY <1>8, <1>9 DEF B

LatestLines(latest, paths, full) == [k \in DOMAIN latest |-> CommitLines(latest[k], paths, full)]

\* What is read from a log are the commits it lists, path by path and author by author.
LEMMA LogIsCounted ==
  ASSUME NEW latest \in Seq(LogCommit), NEW paths \in SUBSET Tracked, NEW full \in BOOLEAN
  PROVE  CountedTo(Flushed(ReadLines(Chained(LatestLines(latest, paths, full))[Len(latest)])),
                   latest, paths, full, Len(latest))
<1> DEFINE N == Len(latest)
           lists == LatestLines(latest, paths, full)
           L == Seq(LogLine)
           C == Chained(lists)
           text == C[N]
<1>1. N \in Nat /\ DOMAIN latest = 1..N /\ \A k \in 1..N : latest[k] \in LogCommit
  OBVIOUS
<1>2. \A k \in 1..N : lists[k] = CommitLines(latest[k], paths, full) /\ lists[k] \in L /\ Len(lists[k]) \in Nat \ {0}
  BY <1>1, CommitLinesAre DEF LatestLines
<1>3. lists \in Seq(L) /\ Len(lists) = N
  <2>1. lists \in [1..N -> L]
    <3>1. lists = [k \in 1..N |-> lists[k]]
      BY <1>1 DEF LatestLines
    <3> HIDE DEF lists, L
    <3> QED BY <1>2, <3>1
  <2> HIDE DEF lists, L, N
  <2>2. lists \in Seq(L)
    BY <1>1, <2>1, IsASequence
  <2> QED BY <1>1, <2>1, <2>2
<1>4. C \in [0..N -> L] /\ C[0] = <<>> /\ \A k \in 1..N : C[k] = C[k - 1] \o lists[k]
  <2> HIDE DEF lists, N
  <2> QED BY <1>3, ChainedLists
<1>5. \A k \in 0..N : Len(C[k]) <= Len(text) /\ \A q \in 1..Len(C[k]) : text[q] = C[k][q]
  <2>1. N \in 0..N
    BY <1>1
  <2> TAKE k \in 0..N
  <2>2. Len(lists) \in 0..Len(lists) /\ k \in 0..Len(lists)
    BY <1>3, <2>1
  <2> HIDE DEF lists, N
  <2>3. /\ Len(Chained(lists)[k]) <= Len(Chained(lists)[Len(lists)])
        /\ \A q \in 1..Len(Chained(lists)[k]) : Chained(lists)[Len(lists)][q] = Chained(lists)[k][q]
    BY <1>3, <2>2, ChainedGrows
  <2> QED BY <1>3, <2>3
<1> HIDE DEF lists, C, N
<1>6. \A k \in 0..N : C[k] \in Seq(LogLine)
  BY <1>4
<1>7. text \in Seq(LogLine)
  BY <1>1, <1>6
<1> HIDE DEF text
<1>8. PICK f \in [0..Len(text) -> LogCounts] :
        /\ f[0] = NoCounts /\ \A n \in 1..Len(text) : f[n] = Line(f[n - 1], text[n])
        /\ ReadLines(text) = f[Len(text)]
  BY <1>7, TextIsRead
<1> DEFINE at(k) == Flushed(f[Len(C[k])])
           S == {k \in 0..N : CountedTo(at(k), latest, paths, full, k)}
<1>9. 0 \in S
  <2>1. Len(C[0]) = 0
    BY <1>4
  <2>2. at(0) = NoCounts
    BY <1>8, <2>1 DEF Flushed, NoCounts
  <2>3. ASSUME NEW p \in Tracked
        PROVE  /\ Hits(latest, paths, full, 0, p) = {}
               /\ \A a \in Authors : HitsBy(latest, paths, full, 0, p, a) = {}
    BY DEF Hits, HitsBy
  <2>4. CountedTo(NoCounts, latest, paths, full, 0)
    BY <2>3, FS_EmptySet DEF CountedTo, NoCounts
  <2>5. 0 \in 0..N
    BY <1>1
  <2> QED BY <2>2, <2>4, <2>5
<1>10. ASSUME NEW k \in 1..N, k - 1 \in S PROVE k \in S
  <2> DEFINE lines == lists[k]
             c == latest[k]
             from == Len(C[k - 1])
             g == [m \in 0..Len(lines) |-> f[from + m]]
  <2>1. k \in 0..N /\ k - 1 \in 0..N
    BY <1>1
  <2>2. c \in LogCommit /\ lines = CommitLines(c, paths, full) /\ lines \in Seq(LogLine) /\ Len(lines) \in Nat \ {0}
    BY <1>1, <1>2
  <2>3. C[k] = C[k - 1] \o lines /\ C[k] \in Seq(LogLine) /\ C[k - 1] \in Seq(LogLine)
    BY <1>4, <1>6, <2>1
  <2>4. /\ from \in Nat /\ Len(C[k]) = from + Len(lines)
        /\ \A m \in 1..Len(lines) : C[k][from + m] = lines[m]
    <3>1. \A b, l \in Seq(LogLine) : /\ Len(b) \in Nat /\ Len(b \o l) = Len(b) + Len(l)
                                      /\ \A m \in 1..Len(l) : (b \o l)[Len(b) + m] = l[m]
      OBVIOUS
    <3>2. /\ Len(C[k - 1]) \in Nat /\ Len(C[k - 1] \o lines) = Len(C[k - 1]) + Len(lines)
          /\ \A m \in 1..Len(lines) : (C[k - 1] \o lines)[Len(C[k - 1]) + m] = lines[m]
      <4> HIDE DEF lines
      <4> QED BY ONLY <2>2, <2>3, <3>1
    <3> HIDE DEF lines
    <3> QED BY ONLY <2>3, <3>2
  <2>5. Len(C[k]) <= Len(text) /\ \A q \in 1..Len(C[k]) : text[q] = C[k][q]
    BY <1>5, <2>1
  <2>6. Len(text) \in Nat /\ Len(lines) \in Nat
    BY <1>7, <2>2
  <2> HIDE DEF lines, c
  <2>7. \A m \in 1..Len(lines) : text[from + m] = lines[m] /\ from + m \in 1..Len(text)
                                  /\ (from + m) - 1 = from + (m - 1)
    <3> HIDE DEF from
    <3>1. \A m \in 1..Len(lines) : from + m \in 1..Len(C[k]) /\ from + m \in 1..Len(text)
                                    /\ (from + m) - 1 = from + (m - 1)
      BY ONLY <2>4, <2>5, <2>6
    <3> QED BY <2>4, <2>5, <3>1
  <2>8. /\ g[0] = f[from] /\ g[Len(lines)] = f[Len(C[k])]
        /\ \A m \in 1..Len(lines) : g[m] = f[from + m] /\ g[m - 1] = f[from + (m - 1)]
    <3> HIDE DEF from
    <3>1. 0 \in 0..Len(lines) /\ Len(lines) \in 0..Len(lines) /\ from + 0 = from
      BY <2>4, <2>6
    <3>2. \A m \in 1..Len(lines) : m \in 0..Len(lines) /\ m - 1 \in 0..Len(lines)
      BY <2>6
    <3> QED BY <2>4, <3>1, <3>2
  <2>9. f[from] \in LogCounts
    <3>1. from \in 0..Len(text)
      <4> HIDE DEF from
      <4> QED BY ONLY <2>4, <2>5, <2>6
    <3> HIDE DEF from
    <3> QED BY <1>8, <3>1
  <2> HIDE DEF g, from
  <2>10. ReadsOn(g, lines)
    <3> SUFFICES ASSUME NEW m \in 1..Len(lines) PROVE g[m] = Line(g[m - 1], lines[m])
      BY DEF ReadsOn
    <3>1. f[from + m] = Line(f[(from + m) - 1], text[from + m])
      BY <1>8, <2>7
    <3> QED BY <2>7, <2>8, <3>1
  <2> DEFINE F == Flushed(g[0])
  <2>11. g[Len(lines)] = [total |-> F.total, by |-> F.by, pending |-> Listed(c, paths, full), author |-> c.author]
    <3>1. g[0] \in LogCounts
      BY <2>8, <2>9
    <3>2. c \in LogCommit /\ lines = CommitLines(c, paths, full)
      BY <2>2
    <3>3. g[Len(lines)] = [total |-> Flushed(g[0]).total, by |-> Flushed(g[0]).by,
                           pending |-> Listed(c, paths, full), author |-> c.author]
      BY <2>10, <3>1, <3>2, CommitIsRead
    <3> QED BY ONLY <3>3
  <2>12. F \in LogCounts /\ CountedTo(F, latest, paths, full, k - 1)
    BY <1>10, <2>8, <2>9, FlushTyped DEF from
  <2> HIDE DEF F
  <2>13. CountedTo(Flushed(g[Len(lines)]), latest, paths, full, k)
    BY <2>11, <2>12, CommitCounts DEF c, N
  <2> QED BY <2>1, <2>8, <2>13
<1>11. 0..N \subseteq S
  <2> HIDE DEF S
  <2> QED BY <1>1, <1>9, <1>10, UpToInduction
<1>12. CountedTo(at(N), latest, paths, full, N)
  BY <1>1, <1>11
<1> QED BY <1>8, <1>12 DEF text, N, C, lists

\* Numbers counted from the other end are as many.
LEMMA MirrorSize ==
  ASSUME NEW m \in Nat, NEW A \in SUBSET (1..m), NEW B \in SUBSET (1..m),
         \A k \in 1..m : k \in B <=> (m - k) + 1 \in A
  PROVE  Cardinality(B) = Cardinality(A)
<1> DEFINE f == [k \in B |-> (m - k) + 1]
<1>1. \A k \in 1..m : (m - k) + 1 \in 1..m /\ (m - ((m - k) + 1)) + 1 = k
  OBVIOUS
<1>2. f \in [B -> A]
  OBVIOUS
<1>3. \A k, n \in B : f[k] = f[n] => k = n
  OBVIOUS
<1>4. \A a \in A : \E k \in B : f[k] = a
  <2> TAKE a \in A
  <2>1. (m - a) + 1 \in B
    BY <1>1
  <2>2. f[(m - a) + 1] = a
    BY <1>1, <2>1
  <2> QED BY <2>1, <2>2
<1> HIDE DEF f
<1>5. f \in Bijection(B, A)
  BY <1>2, <1>3, <1>4 DEF Bijection, Injection, Surjection, IsInjective
<1>6. IsFiniteSet(B)
  <2>1. IsFiniteSet(1..m)
    BY FS_Interval
  <2> QED BY <2>1, FS_Subset
<1> QED BY <1>5, <1>6, SameSize

\* The latest commits are commits of the history that touch one of the paths.
LEMMA LatestAreOfHistory ==
  ASSUME NEW history \in Seq(LogCommit), NEW paths \in SUBSET Tracked
  PROVE  /\ Latest(history, paths) \in Seq(LogCommit)
         /\ \A k \in 1..Len(Latest(history, paths)) : \E j \in DOMAIN history :
              Latest(history, paths)[k] = history[j] /\ history[j].paths \cap paths # {}
<1> DEFINE back == Reverse(history)
           touches(c) == c.paths \cap paths # {}
           places == {n \in DOMAIN back : touches(back[n])}
           touching == AtPlaces(back, places)
           m == Min({LogLimit, Len(touching)})
<1>1. Len(history) \in Nat /\ DOMAIN history = 1..Len(history)
  OBVIOUS
<1>2. back \in Seq(LogCommit) /\ DOMAIN back = 1..Len(history)
      /\ \A n \in DOMAIN back : (Len(history) - n) + 1 \in 1..Len(history) /\ back[n] = history[(Len(history) - n) + 1]
  <2>1. \A n \in 1..Len(history) : (Len(history) - n) + 1 \in 1..Len(history)
    BY <1>1
  <2>2. back \in [1..Len(history) -> LogCommit] /\ \A n \in 1..Len(history) : back[n] = history[(Len(history) - n) + 1]
    BY <2>1 DEF Reverse
  <2> HIDE DEF back
  <2> QED BY <1>1, <2>1, <2>2
<1>3. places \in SUBSET DOMAIN back /\ \A n \in places : touches(back[n])
  OBVIOUS
<1>4. Latest(history, paths) = SubSeq(touching, 1, m)
  BY DEF Latest, Kept
<1> HIDE DEF places, back
<1>5. /\ touching \in Seq(LogCommit) /\ Len(touching) = Cardinality(places) /\ Cardinality(places) \in Nat
      /\ \A n \in 1..Cardinality(places) : \E p \in places : touching[n] = back[p]
  BY <1>2, <1>3, AtPlacesTyped
<1> HIDE DEF touching
<1>6. m \in Nat /\ m <= Len(touching)
  <2>1. \A a, b \in Int : Min({a, b}) = IF a <= b THEN a ELSE b
    BY MaxMinOfTwo
  <2>2. m = IF LogLimit <= Len(touching) THEN LogLimit ELSE Len(touching)
    <3> DEFINE l == Len(touching)
    <3>1. LogLimit \in Int /\ l \in Int /\ m = Min({LogLimit, l})
      BY <1>5, SignalsAssumption
    <3> HIDE DEF m, l
    <3>2. m = IF LogLimit <= l THEN LogLimit ELSE l
      BY ONLY <2>1, <3>1
    <3> QED BY <3>2 DEF l
  <2> HIDE DEF m
  <2> QED BY <1>5, <2>2, SignalsAssumption
<1> HIDE DEF m
<1>7. /\ SubSeq(touching, 1, m) \in Seq(LogCommit) /\ Len(SubSeq(touching, 1, m)) = m
      /\ \A k \in 1..m : SubSeq(touching, 1, m)[k] = touching[k]
  BY ONLY <1>5, <1>6
<1>8. ASSUME NEW k \in 1..m
      PROVE  \E j \in DOMAIN history : touching[k] = history[j] /\ history[j].paths \cap paths # {}
  <2>1. k \in 1..Cardinality(places)
    BY <1>5, <1>6
  <2>2. PICK p \in places : touching[k] = back[p]
    BY <1>5, <2>1
  <2> QED BY <1>1, <1>2, <1>3, <2>2
<1> QED BY <1>4, <1>7, <1>8

\* When every commit touches them, they are the last of the history, the other way round.
LEMMA LatestAreRecent ==
  ASSUME NEW history \in Seq(LogCommit), NEW paths \in SUBSET Tracked,
         \A i \in DOMAIN history : history[i].paths \cap paths # {}
  PROVE  /\ Len(Latest(history, paths)) = IF LogLimit <= Len(history) THEN LogLimit ELSE Len(history)
         /\ \A k \in 1..Len(Latest(history, paths)) :
              Latest(history, paths)[k] = history[(Len(history) - k) + 1]
<1> DEFINE n == Len(history)
           back == Reverse(history)
           touches(c) == c.paths \cap paths # {}
           places == {i \in DOMAIN back : touches(back[i])}
           touching == AtPlaces(back, places)
           m == Min({LogLimit, Len(touching)})
           R == Pairs(1..n, <)
           place == Ranked(1..n, R)
<1>1. n \in Nat /\ DOMAIN history = 1..n
  OBVIOUS
<1>2. DOMAIN back = 1..n /\ \A i \in 1..n : (n - i) + 1 \in 1..n /\ back[i] = history[(n - i) + 1]
  BY <1>1 DEF Reverse
<1>3. Latest(history, paths) = SubSeq(touching, 1, m)
  BY DEF Latest, Kept
<1>4. places = 1..n
  BY <1>1, <1>2
<1>5. IsFiniteSet(1..n) /\ Cardinality(1..n) = n
  <2> HIDE DEF n
  <2>1. IsFiniteSet(1..n) /\ Cardinality(1..n) = IF 1 > n THEN 0 ELSE n - 1 + 1
    BY <1>1, FS_Interval
  <2> QED BY ONLY <1>1, <2>1
<1>6. StrictOrder(1..n, R)
  BY <1>1 DEF StrictOrder, Pairs
<1>7. ASSUME NEW i \in 1..n PROVE place[i] = i
  <2>1. place[i] \in 1..n /\ Cardinality({y \in 1..n : <<y, place[i]>> \in R}) = i - 1
    <3> DEFINE T == 1..n
    <3>1. IsFiniteSet(T) /\ Cardinality(T) = n /\ StrictOrder(T, R) /\ i \in 1..Cardinality(T)
      BY <1>5, <1>6
    <3> HIDE DEF R, T
    <3>2. Ranked(T, R)[i] \in T /\ Cardinality({y \in T : <<y, Ranked(T, R)[i]>> \in R}) = i - 1
      <4> DEFINE k == Cardinality(T)
      <4>1. i \in 1..k
        BY <3>1
      <4> QED BY ONLY <3>1, <4>1, RankOfRanked
    <3> QED BY <3>2 DEF T
  <2> DEFINE x == place[i]
  <2>2. {y \in 1..n : <<y, x>> \in R} = 1..x - 1
    <3>1. \A y \in 1..n : <<y, x>> \in R <=> y < x
      BY <2>1 DEF Pairs
    <3> HIDE DEF x, R
    <3>2. x \in 1..n
      BY <2>1 DEF x
    <3> QED BY <1>1, <3>1, <3>2
  <2> HIDE DEF x
  <2>3. x \in 1..n /\ Cardinality(1..x - 1) = i - 1
    BY <2>1, <2>2 DEF x
  <2>4. x \in Int /\ x - 1 \in Int /\ 1 \in Int /\ ~(1 > x - 1 /\ x # 1) /\ x >= 1
    BY <1>1, <2>3
  <2>5. Cardinality(1..x - 1) = x - 1
    BY <2>4, FS_Interval
  <2>6. x = i
    BY <1>1, <2>3, <2>4, <2>5
  <2> QED BY <2>6 DEF x
<1>8. touching = [i \in 1..n |-> back[place[i]]]
  BY <1>4, <1>5 DEF AtPlaces, Sorted
<1> HIDE DEF place, R, places
<1>9. touching = [i \in 1..n |-> history[(n - i) + 1]]
  BY <1>2, <1>7, <1>8
<1> HIDE DEF touching, back
<1>10. touching \in Seq(LogCommit) /\ Len(touching) = n /\ \A i \in 1..n : touching[i] = history[(n - i) + 1]
  <2>1. \A i \in 1..n : history[(n - i) + 1] \in LogCommit
    BY <1>1, <1>2
  <2>2. touching \in [1..n -> LogCommit]
    BY <1>9, <2>1
  <2>3. \A i \in 1..n : touching[i] = history[(n - i) + 1]
    BY <1>9
  <2> HIDE DEF n
  <2> QED BY <1>1, <2>2, <2>3
<1>11. m = (IF LogLimit <= n THEN LogLimit ELSE n) /\ m \in Nat /\ m <= n
  <2>1. \A a, b \in Int : Min({a, b}) = IF a <= b THEN a ELSE b
    BY MaxMinOfTwo
  <2>2. m = IF LogLimit <= n THEN LogLimit ELSE n
    <3>1. LogLimit \in Int /\ n \in Int /\ m = Min({LogLimit, n})
      BY <1>1, <1>10, SignalsAssumption
    <3> HIDE DEF m, n
    <3> QED BY ONLY <2>1, <3>1
  <2> HIDE DEF m, n
  <2> QED BY <1>1, <2>2, SignalsAssumption
<1> HIDE DEF m
<1>12. Len(SubSeq(touching, 1, m)) = m /\ \A k \in 1..m : SubSeq(touching, 1, m)[k] = touching[k] /\ k \in 1..n
  <2> HIDE DEF n
  <2> QED BY ONLY <1>1, <1>10, <1>11
<1> QED BY <1>3, <1>10, <1>11, <1>12

\* What ends up counted of a log is what its commits list.
LEMMA ChurnIs ==
  ASSUME NEW history \in Seq(LogCommit), NEW paths \in SUBSET Tracked, NEW full \in BOOLEAN
  PROVE  CountedTo(Flushed(ReadLines(Log(history, paths, full))), Latest(history, paths), paths, full,
                   Len(Latest(history, paths)))
<1>1. Latest(history, paths) \in Seq(LogCommit)
  BY LatestAreOfHistory
<1>2. Log(history, paths, full) = Chained(LatestLines(Latest(history, paths), paths, full))[Len(Latest(history, paths))]
  BY DEF Log, LatestLines
<1> QED BY <1>1, <1>2, LogIsCounted

\* The commits of the history up to the limit.
Recent == SubSeq(commits, Max({1, Len(commits) - LogLimit + 1}), Len(commits))
CommitsTyped ==
  commits \in Seq(LogCommit) /\ \A i \in DOMAIN commits : Tracked # {} => commits[i].paths # {}

\* Churn by path and by author is what the recent commits hold.
LEMMA ChurnIsRecent ==
  ASSUME CommitsTyped, commits # <<>>, NEW p \in Tracked \ HighChurn
  PROVE  /\ IsFiniteSet(DOMAIN Recent)
         /\ Churn.total[p] = Cardinality({i \in DOMAIN Recent : p \in Recent[i].paths})
         /\ \A a \in Authors :
              Churn.by[p][a] = Cardinality({i \in DOMAIN Recent : p \in Recent[i].paths /\ Recent[i].author = a})
<1> DEFINE n == Len(commits)
           s == Max({1, n - LogLimit + 1})
           m == IF LogLimit <= n THEN LogLimit ELSE n
           latest == Latest(commits, Tracked)
<1>1. commits \in Seq(LogCommit) /\ n \in Nat \ {0} /\ \A i \in 1..n : commits[i] \in LogCommit
  BY DEF CommitsTyped
<1>2. \A i \in DOMAIN commits : commits[i].paths \cap Tracked = commits[i].paths /\ commits[i].paths # {}
  <2>1. \A i \in DOMAIN commits : commits[i].paths \in SUBSET Tracked
    BY <1>1 DEF LogCommit
  <2> QED BY <2>1 DEF CommitsTyped
<1>3. m \in Nat \ {0} /\ m <= n
  BY <1>1, SignalsAssumption
<1>4. s = (n - m) + 1
  <2>1. \A a, b \in Int : Max({a, b}) = IF a >= b THEN a ELSE b
    BY MaxMinOfTwo
  <2>2. n - LogLimit + 1 \in Int /\ LogLimit \in Nat \ {0}
    BY <1>1, SignalsAssumption
  <2>3. s = IF 1 >= n - LogLimit + 1 THEN 1 ELSE n - LogLimit + 1
    BY <2>1, <2>2
  <2> HIDE DEF s, n
  <2> QED BY <1>1, <2>2, <2>3
<1>5. Latest(commits, Tracked) \in Seq(LogCommit) /\ Len(latest) = m
      /\ \A k \in 1..m : latest[k] = commits[(n - k) + 1]
  <2>1. \A i \in DOMAIN commits : commits[i].paths \cap Tracked # {}
    BY <1>2
  <2> QED BY <1>1, <2>1, LatestAreOfHistory, LatestAreRecent
<1> HIDE DEF latest
<1>6. Len(Recent) = m /\ DOMAIN Recent = 1..m /\ \A i \in 1..m : Recent[i] = commits[(s + i) - 1]
  <2>1. Recent = SubSeq(commits, s, n)
    BY DEF Recent
  <2> HIDE DEF s, m, n
  <2>2. s \in 1..n /\ (n - s) + 1 = m
    BY ONLY <1>1, <1>3, <1>4
  <2> QED BY ONLY <1>1, <1>3, <2>1, <2>2
<1> HIDE DEF s, m
<1>7. \A k \in 1..m : /\ (m - k) + 1 \in 1..m /\ Recent[(m - k) + 1] = latest[k]
                      /\ Listed(latest[k], Tracked, FALSE) = latest[k].paths
  <2> TAKE k \in 1..m
  <2> HIDE DEF n
  <2>1. (m - k) + 1 \in 1..m /\ (s + ((m - k) + 1)) - 1 = (n - k) + 1 /\ (n - k) + 1 \in 1..n
    BY ONLY <1>1, <1>3, <1>4
  <2>2. Recent[(m - k) + 1] = latest[k]
    BY <1>5, <1>6, <2>1
  <2>3. (n - k) + 1 \in DOMAIN commits
    BY <2>1 DEF CommitsTyped, n
  <2> QED BY <1>2, <1>5, <2>1, <2>2, <2>3 DEF Listed
<1>8. CountedTo(Churn, latest, Tracked, FALSE, m)
  <2>1. CountedTo(Flushed(ReadLines(Log(commits, Tracked, FALSE))), latest, Tracked, FALSE, m)
    BY <1>1, <1>5, ChurnIs DEF latest
  <2> QED BY <2>1 DEF Churn, ChurnIn
<1> DEFINE A == {i \in 1..m : p \in Recent[i].paths}
           B == Hits(latest, Tracked, FALSE, m, p)
<1>9. Churn.total[p] = Cardinality(A)
  <2>1. B \in SUBSET (1..m) /\ \A k \in 1..m : k \in B <=> (m - k) + 1 \in A
    BY <1>7 DEF Hits
  <2>2. Churn.total[p] = Cardinality(B)
    BY <1>8 DEF CountedTo
  <2>3. A \in SUBSET (1..m) /\ m \in Nat
    BY <1>3
  <2> HIDE DEF A, B
  <2> QED BY <2>1, <2>2, <2>3, MirrorSize
<1>10. ASSUME NEW a \in Authors
       PROVE  Churn.by[p][a] = Cardinality({i \in 1..m : p \in Recent[i].paths /\ Recent[i].author = a})
  <2> DEFINE C == {i \in 1..m : p \in Recent[i].paths /\ Recent[i].author = a}
             D == HitsBy(latest, Tracked, FALSE, m, p, a)
  <2>1. D \in SUBSET (1..m) /\ \A k \in 1..m : k \in D <=> (m - k) + 1 \in C
    BY <1>7 DEF Hits, HitsBy
  <2>2. Churn.by[p][a] = Cardinality(D)
    BY <1>8 DEF CountedTo
  <2>3. C \in SUBSET (1..m) /\ m \in Nat
    BY <1>3
  <2> HIDE DEF C, D
  <2>4. Churn.by[p][a] = Cardinality(C)
    BY <2>1, <2>2, <2>3, MirrorSize
  <2> QED BY <2>4 DEF C
<1>11. IsFiniteSet(1..m)
  BY <1>3, FS_Interval
<1> QED BY <1>6, <1>9, <1>10, <1>11

\* A coupled path did change with the path.
LEMMA CoChangesAreRelated ==
  ASSUME CommitsTyped, NEW p \in Tracked
  PROVE  ToSet(CoChanges(p)) \subseteq GitRelated(p)
<1> DEFINE tallies == Flushed(ReadLines(Log(commits, {p}, TRUE))).total
           oftener(a, b) == tallies[a] > tallies[b] \/ (tallies[a] = tallies[b] /\ a < b)
           S == {q \in Tracked \ {p} : tallies[q] > 0}
           R == Pairs(S, oftener)
           order == Ranked(S, R)
           m == Min({CoChangeLimit, Len(order)})
           latest == Latest(commits, {p})
           N == Len(latest)
<1>1. commits \in Seq(LogCommit) /\ {p} \in SUBSET Tracked
  BY DEF CommitsTyped
<1>2. /\ latest \in Seq(LogCommit)
      /\ \A k \in 1..N : \E j \in DOMAIN commits : latest[k] = commits[j] /\ commits[j].paths \cap {p} # {}
  BY <1>1, LatestAreOfHistory
<1>3. \A q \in Tracked : tallies[q] = Cardinality(Hits(latest, {p}, TRUE, N, q))
  <2>1. CountedTo(Flushed(ReadLines(Log(commits, {p}, TRUE))), latest, {p}, TRUE, N)
    BY <1>1, ChurnIs
  <2> QED BY <2>1 DEF CountedTo
<1> HIDE DEF tallies, latest
<1>4. \A q \in Tracked : IsFiniteSet(Hits(latest, {p}, TRUE, N, q))
  <2>1. N \in Nat
    BY <1>2
  <2>2. IsFiniteSet(1..N)
    BY <2>1, FS_Interval
  <2>3. \A q \in Tracked : Hits(latest, {p}, TRUE, N, q) \in SUBSET (1..N)
    BY DEF Hits
  <2> HIDE DEF N
  <2> QED BY <2>2, <2>3, FS_Subset
<1>5. \A q \in Tracked : tallies[q] \in Nat
  BY <1>3, <1>4, FS_CardinalityType
<1>6. IsFiniteSet(S)
  BY FS_Subset, SignalsAssumption
<1>7. StrictOrder(S, R)
  <2>1. \A q \in S : tallies[q] \in Nat /\ q \in Nat
    BY <1>5, SignalsAssumption
  <2> HIDE DEF S
  <2>2. \A a, b \in S : <<a, b>> \in R <=> oftener(a, b)
    BY DEF Pairs
  <2> HIDE DEF R
  <2> QED BY <2>1, <2>2 DEF StrictOrder
<1>8. CoChanges(p) = SubSeq(order, 1, m)
  BY DEF CoChanges, Sorted, tallies
<1> HIDE DEF R, S
<1>9. order \in Seq(S)
  BY <1>6, <1>7, RankedIsSequence
<1> HIDE DEF order
<1>10. m \in Nat /\ m <= Len(order)
  <2>1. \A a, b \in Int : Min({a, b}) = IF a <= b THEN a ELSE b
    BY MaxMinOfTwo
  <2>2. m = IF CoChangeLimit <= Len(order) THEN CoChangeLimit ELSE Len(order)
    <3> DEFINE l == Len(order)
    <3>1. CoChangeLimit \in Int /\ l \in Int /\ m = Min({CoChangeLimit, l})
      BY <1>9, SignalsAssumption
    <3> HIDE DEF m, l
    <3>2. m = IF CoChangeLimit <= l THEN CoChangeLimit ELSE l
      BY ONLY <2>1, <3>1
    <3> QED BY <3>2 DEF l
  <2> HIDE DEF m
  <2> QED BY <1>9, <2>2, SignalsAssumption
<1> HIDE DEF m
<1>11. \A i \in DOMAIN SubSeq(order, 1, m) : SubSeq(order, 1, m)[i] \in S
  BY ONLY <1>9, <1>10
<1>12. ASSUME NEW q \in S PROVE q \in GitRelated(p)
  <2>1. q \in Tracked \ {p} /\ tallies[q] > 0
    BY DEF S
  <2>2. Hits(latest, {p}, TRUE, N, q) # {}
    <3> DEFINE H == Hits(latest, {p}, TRUE, N, q)
    <3>1. tallies[q] = Cardinality(H)
      BY <1>3, <2>1
    <3> HIDE DEF H
    <3>2. H # {}
      BY <2>1, <3>1, FS_EmptySet
    <3> QED BY <3>2 DEF H
  <2>3. PICK k \in 1..N : q \in latest[k].paths \ HighChurn
    BY <2>2 DEF Hits, Listed
  <2>4. PICK j \in DOMAIN commits : latest[k] = commits[j] /\ p \in commits[j].paths
    BY <1>2
  <2> QED BY <2>1, <2>3, <2>4 DEF GitRelated
<1> QED BY <1>8, <1>11, <1>12 DEF ToSet

\* What is read from the log is what the history has.
LEMMA HistoryIsMatched == CommitsTyped => SignalsMatchHistory
<1> SUFFICES ASSUME CommitsTyped, commits # <<>>, NEW p \in Tracked \ HighChurn
    PROVE  /\ Churn.total[p] = Cardinality({i \in DOMAIN Recent : p \in Recent[i].paths})
           /\ \A a \in Authors : Churn.by[p][a] = Cardinality({i \in DOMAIN Recent : p \in Recent[i].paths /\ Recent[i].author = a})
           /\ ToSet(CoChanges(p)) \subseteq GitRelated(p)
           /\ p \in Silos => \E a \in Authors : Cardinality({i \in DOMAIN Recent : p \in Recent[i].paths /\ Recent[i].author # a})
                                                 <= Churn.total[p] \div 5
  <2> HIDE DEF Churn
  <2> QED BY DEF SignalsMatchHistory, Recent
<1> DEFINE A == {i \in DOMAIN Recent : p \in Recent[i].paths}
<1>1. /\ IsFiniteSet(DOMAIN Recent) /\ Churn.total[p] = Cardinality(A)
      /\ \A a \in Authors : Churn.by[p][a] = Cardinality({i \in DOMAIN Recent : p \in Recent[i].paths /\ Recent[i].author = a})
  BY ChurnIsRecent
<1>2. ASSUME p \in Silos
      PROVE  \E a \in Authors : Cardinality({i \in DOMAIN Recent : p \in Recent[i].paths /\ Recent[i].author # a})
                                 <= Churn.total[p] \div 5
  <2>1. PICK a \in Authors : 5 * Churn.by[p][a] >= 4 * Churn.total[p]
    <3> HIDE DEF Churn
    <3> QED BY <1>2 DEF Silos
  <2> DEFINE B == {i \in DOMAIN Recent : p \in Recent[i].paths /\ Recent[i].author = a}
             C == {i \in DOMAIN Recent : p \in Recent[i].paths /\ Recent[i].author # a}
             t == Churn.total[p]
             b == Churn.by[p][a]
  <2>2. IsFiniteSet(A) /\ C = A \ B /\ A \cap B = B /\ B \in SUBSET A
    BY <1>1, FS_Subset
  <2>3. t = Cardinality(A) /\ b = Cardinality(B)
    BY <1>1
  <2> HIDE DEF A, B, C
  <2>4. IsFiniteSet(B)
    BY <2>2, FS_Subset
  <2>5. t \in Nat /\ b \in Nat
    BY <2>2, <2>3, <2>4, FS_CardinalityType
  <2>6. Cardinality(C) = t - b
    <3>1. Cardinality(A \ B) = Cardinality(A) - Cardinality(A \cap B)
      BY <2>2, FS_Difference
    <3> QED BY <2>2, <2>3, <3>1
  <2>7. 5 * b >= 4 * t
    BY <2>1
  <2> HIDE DEF t, b
  <2>8. t < 5 * (t \div 5) + 5 /\ t \div 5 \in Int
    BY <2>5, DivisionBounds
  <2>9. Cardinality(C) <= t \div 5
    <3> DEFINE d == t \div 5
    <3>1. d \in Int /\ t < 5 * d + 5
      BY <2>8
    <3> HIDE DEF d
    <3>2. t - b <= d
      BY ONLY <2>5, <2>7, <3>1
    <3> QED BY <2>6, <3>2 DEF d
  <2> QED BY <2>9 DEF C, t
<1>3. ToSet(CoChanges(p)) \subseteq GitRelated(p)
  BY CoChangesAreRelated
<1> QED BY <1>1, <1>2, <1>3

LEMMA CommitsAreTyped == SignalsSpec => []CommitsTyped
<1>1. SignalsInit => CommitsTyped
  <2> SUFFICES ASSUME SignalsInit PROVE CommitsTyped
    OBVIOUS
  <2>1. CASE commits = <<>>
    BY <2>1 DEF CommitsTyped
  <2>2. ASSUME NEW a \in Authors, commits = <<[author |-> a, paths |-> Tracked]>> PROVE CommitsTyped
    <3>1. [author |-> a, paths |-> Tracked] \in LogCommit
      BY DEF LogCommit
    <3> QED BY <2>2, <3>1 DEF CommitsTyped
  <2>3. ASSUME NEW a \in Authors, NEW b \in Authors, NEW p \in Tracked,
               commits = <<[author |-> a, paths |-> Tracked], [author |-> b, paths |-> {p}]>>
        PROVE  CommitsTyped
    <3>1. [author |-> a, paths |-> Tracked] \in LogCommit /\ [author |-> b, paths |-> {p}] \in LogCommit
      BY DEF LogCommit
    <3>2. commits[1].paths = Tracked /\ commits[2].paths = {p} /\ DOMAIN commits = 1..2
      BY <2>3
    <3> QED BY <2>3, <3>1, <3>2 DEF CommitsTyped
  <2> QED BY <2>1, <2>2, <2>3 DEF SignalsInit, Histories
<1>2. CommitsTyped /\ [SignalsNext]_signalVars => CommitsTyped'
  <2> SUFFICES ASSUME CommitsTyped, [SignalsNext]_signalVars PROVE CommitsTyped'
    OBVIOUS
  <2>1. CASE commits' = commits
    BY <2>1 DEF CommitsTyped
  <2>2. ASSUME NEW a \in Authors, NEW paths \in SUBSET Tracked, GitCommit(a, paths) PROVE CommitsTyped'
    <3> DEFINE c == [author |-> a, paths |-> paths]
    <3>1. c \in LogCommit /\ c.paths # {} /\ commits' = Append(commits, c)
      BY <2>2 DEF LogCommit, GitCommit
    <3> HIDE DEF c
    <3>2. commits' \in Seq(LogCommit) /\ \A i \in DOMAIN commits' : (i \in DOMAIN commits /\ commits'[i] = commits[i]) \/ commits'[i] = c
      BY <3>1 DEF CommitsTyped
    <3> QED BY <3>1, <3>2 DEF CommitsTyped
  <2> QED BY <2>1, <2>2
        DEF SignalsNext, signalVars, EditPath, ReplaceFileRow, GiveVerdict, Branch, Relink, ReadRows, ReadLog, ReadDiff, ReadStatus
<1> QED BY <1>1, <1>2, PTL DEF SignalsSpec

LEMMA NoHistoryNoChurn ==
  ASSUME commits = <<>>, NEW p \in Tracked
  PROVE  Churn.total[p] = 0
<1> DEFINE latest == Latest(commits, Tracked)
           N == Len(latest)
<1>1. commits \in Seq(LogCommit) /\ DOMAIN commits = {}
  OBVIOUS
<1>2. /\ latest \in Seq(LogCommit)
      /\ \A k \in 1..N : \E j \in DOMAIN commits : latest[k] = commits[j] /\ commits[j].paths \cap Tracked # {}
  BY <1>1, LatestAreOfHistory
<1>3. N = 0
  <2> HIDE DEF latest
  <2>1. N \in Nat
    BY <1>2
  <2>2. 1 \notin 1..N
    BY <1>1, <1>2
  <2> QED BY <2>1, <2>2
<1>4. Churn.total[p] = Cardinality(Hits(latest, Tracked, FALSE, N, p))
  <2>1. CountedTo(Flushed(ReadLines(Log(commits, Tracked, FALSE))), latest, Tracked, FALSE, N)
    BY <1>1, ChurnIs
  <2> HIDE DEF latest, N
  <2> QED BY <2>1 DEF CountedTo, Churn, ChurnIn
<1> HIDE DEF latest, N
<1>5. Hits(latest, Tracked, FALSE, N, p) = {}
  <2>1. 1..N = {}
    BY <1>3
  <2> QED BY <2>1 DEF Hits
<1> QED BY <1>4, <1>5, FS_EmptySet

\* A path has a churn where one of the last commits touches it.
LEMMA ChurnTells ==
  ASSUME CommitsTyped, commits # <<>>, NEW p \in Tracked \ HighChurn
  PROVE  /\ Churn.total[p] \in Nat
         /\ Churn.total[p] > 0 <=>
              \E i \in 1..Len(commits) : i > Len(commits) - LogLimit /\ p \in commits[i].paths
<1> DEFINE n == Len(commits)
           s == Max({1, n - LogLimit + 1})
           A == {i \in DOMAIN Recent : p \in Recent[i].paths}
           total == Churn.total[p]
<1>1. IsFiniteSet(DOMAIN Recent) /\ total = Cardinality(A)
  BY ChurnIsRecent
<1>2. IsFiniteSet(A)
  BY <1>1, FS_Subset
<1>3. n \in Nat \ {0} /\ commits \in Seq(LogCommit) /\ LogLimit \in Nat \ {0}
  BY SignalsAssumption DEF CommitsTyped
<1>4. s = IF 1 >= n - LogLimit + 1 THEN 1 ELSE n - LogLimit + 1
  <2>1. \A a, b \in Int : Max({a, b}) = IF a >= b THEN a ELSE b
    BY MaxMinOfTwo
  <2>2. n - LogLimit + 1 \in Int
    BY <1>3
  <2> QED BY <2>1, <2>2
<1>5. Recent = SubSeq(commits, s, n)
  BY DEF Recent
<1> HIDE DEF s, total
<1>6. s \in 1..n /\ \A i \in 1..n : i >= s <=> i > n - LogLimit
  BY ONLY <1>3, <1>4
<1>7. DOMAIN Recent = 1..(n - s) + 1 /\ \A i \in 1..(n - s) + 1 : Recent[i] = commits[(i + s) - 1]
  <2> HIDE DEF n
  <2> QED BY ONLY <1>3, <1>5, <1>6, n = Len(commits) DEF n
<1>8. A # {} <=> \E i \in 1..n : i > n - LogLimit /\ p \in commits[i].paths
  <2>1. ASSUME NEW i \in DOMAIN Recent, p \in Recent[i].paths
        PROVE  (i + s) - 1 \in 1..n /\ (i + s) - 1 >= s /\ p \in commits[(i + s) - 1].paths
    <3>1. i \in 1..(n - s) + 1 /\ p \in commits[(i + s) - 1].paths
      BY <1>7, <2>1
    <3> HIDE DEF n
    <3>2. n \in Int /\ s \in 1..n
      BY <1>3, <1>6
    <3> QED BY ONLY <3>1, <3>2
  <2>2. ASSUME NEW i \in 1..n, i >= s, p \in commits[i].paths
        PROVE  (i - s) + 1 \in DOMAIN Recent /\ p \in Recent[(i - s) + 1].paths
    <3>1. (i - s) + 1 \in 1..(n - s) + 1 /\ (((i - s) + 1) + s) - 1 = i
      BY <1>3, <1>6, <2>2
    <3> QED BY <1>7, <2>2, <3>1
  <2> QED BY <1>6, <2>1, <2>2
<1> HIDE DEF A, n
<1>9. total \in Nat /\ (total > 0 <=> A # {})
  BY <1>1, <1>2, FS_CardinalityType, FS_EmptySet
<1> QED BY <1>8, <1>9 DEF n, total

\* What quality_signals_for has answered: the flags of the rows it read, and a hotspot is
\* missing only where no commit of the log it read touches the path.
FlagsRead ==
  /\ flags.log \in 0..Len(commits)
  /\ \A p \in Tracked \ HighChurn :
       /\ flags.of[p] \subseteq FlagsOn(p, flags.rows)
       /\ \A m \in FlagsOn(p, flags.rows) \ flags.of[p] :
            m = "hotspot" /\ \A i \in 1..flags.log : i > flags.log - LogLimit => p \notin commits[i].paths
FlagsInv ==
  /\ flags = [at |-> flags.at, rows |-> flags.rows, of |-> flags.of, log |-> flags.log]
  /\ flags.at \in {"idle", "git", "done"}
  /\ flags.at = "done" => FlagsRead

LEMMA FlagsStep == CommitsTyped /\ FlagsInv /\ [SignalsNext]_signalVars => FlagsInv'
<1> SUFFICES ASSUME CommitsTyped, FlagsInv, [SignalsNext]_signalVars PROVE FlagsInv'
  OBVIOUS
<1>1. ASSUME UNCHANGED <<flags, commits>> PROVE FlagsInv'
  BY <1>1 DEF FlagsInv, FlagsRead, FlagsOn
<1>2. ASSUME NEW a \in Authors, NEW paths \in SUBSET Tracked, GitCommit(a, paths) PROVE FlagsInv'
  <2>1. flags' = flags /\ commits' = Append(commits, [author |-> a, paths |-> paths]) /\ commits \in Seq(LogCommit)
    BY <1>2 DEF GitCommit, CommitsTyped
  <2>2. /\ Len(commits) \in Nat /\ Len(commits') = Len(commits) + 1
        /\ \A i \in 1..Len(commits) : commits'[i] = commits[i]
    BY <2>1
  <2>3. ASSUME flags.at = "done" PROVE FlagsRead'
    <3>1. flags.log \in Nat /\ flags.log <= Len(commits) /\ flags.log \in 0..Len(commits')
      BY <2>2, <2>3 DEF FlagsInv, FlagsRead
    <3>2. \A i \in 1..flags.log : commits'[i] = commits[i]
      BY <2>2, <3>1
    <3> QED BY <2>1, <2>3, <3>1, <3>2 DEF FlagsInv, FlagsRead, FlagsOn
  <2> QED BY <2>1, <2>3 DEF FlagsInv
<1>3. CASE ReadRows
  BY <1>3 DEF ReadRows, NoFlags, FlagsInv
<1>4. ASSUME NEW works \in BOOLEAN, ReadLog(works) PROVE FlagsInv'
  <2> DEFINE tallied == IF works THEN Churn.total ELSE NoCounts.total
             log == IF works THEN Len(commits) ELSE 0
             of == [p \in Tracked |-> FlagsOf(flags.rows, p, tallied)]
  <2>1. /\ flags' = [at |-> "done", rows |-> flags.rows, of |-> of, log |-> log] /\ commits' = commits
    BY <1>4 DEF ReadLog, FlagsInv
  <2>2. log \in 0..Len(commits) /\ Len(commits) \in Nat
    BY DEF CommitsTyped
  <2>3. ASSUME NEW p \in Tracked \ HighChurn, ~(tallied[p] > 0)
        PROVE  \A i \in 1..log : i > log - LogLimit => p \notin commits[i].paths
    <3>1. CASE works /\ commits # <<>>
      <4>1. tallied[p] = Churn.total[p] /\ log = Len(commits)
        BY <3>1
      <4> QED BY <2>3, <3>1, <4>1, ChurnTells
    <3>2. CASE ~(works /\ commits # <<>>)
      BY <3>2
    <3> QED BY <3>1, <3>2
  <2> HIDE DEF tallied, log
  <2>4. ASSUME NEW p \in Tracked \ HighChurn
        PROVE  /\ of[p] \subseteq FlagsOn(p, flags.rows)
               /\ \A m \in FlagsOn(p, flags.rows) \ of[p] :
                    m = "hotspot" /\ \A i \in 1..log : i > log - LogLimit => p \notin commits[i].paths
    <3>1. of[p] = FlagsOf(flags.rows, p, tallied)
      OBVIOUS
    <3>2. of[p] \subseteq FlagsOn(p, flags.rows)
      BY <3>1 DEF FlagsOf, FlagsOn
    <3>3. \A m \in FlagsOn(p, flags.rows) \ of[p] : m = "hotspot" /\ ~(tallied[p] > 0)
      BY <3>1 DEF FlagsOf, FlagsOn
    <3> QED BY <2>3, <3>2, <3>3
  <2>5. FlagsRead'
    <3> HIDE DEF of
    <3>1. flags'.rows = flags.rows /\ flags'.of = of /\ flags'.log = log
      BY <2>1
    <3>2. \A p : FlagsOn(p, flags.rows)' = FlagsOn(p, flags.rows)
      BY <3>1 DEF FlagsOn
    <3> QED BY <2>1, <2>2, <2>4, <3>1 DEF FlagsRead, FlagsOn
  <2> QED BY <2>1, <2>5 DEF FlagsInv
<1> QED BY <1>1, <1>2, <1>3, <1>4
      DEF SignalsNext, signalVars, EditPath, ReplaceFileRow, GiveVerdict, Branch, Relink, ReadDiff, ReadStatus

\* For any findings, verdicts and history, and whatever comes between their reads: a flag
\* that one of quality_signals_for and quality_flags_for_paths gives a path and the other
\* does not is of a finding that only one of them read, or a hotspot whose commits came
\* after the log of the first or fell out of the log of the second.
THEOREM FlagsAgreement == SignalsSpec => []FlagsAgree
<1>1. CommitsTyped /\ FlagsInv => FlagsAgree
  <2> DEFINE joined == ActiveRows \cap linked
  <2> SUFFICES ASSUME CommitsTyped, FlagsInv, flags.at = "done", NEW p \in Tracked \ HighChurn
      PROVE  /\ PathFlags(p) \ flags.of[p] \subseteq
                  FlagsOn(p, joined \ flags.rows) \cup
                  {m \in {"hotspot"} : \E i \in flags.log + 1..Len(commits) : p \in commits[i].paths}
             /\ flags.of[p] \ PathFlags(p) \subseteq
                  FlagsOn(p, flags.rows \ joined) \cup {m \in {"hotspot"} : Churn.total[p] = 0}
    <3> HIDE DEF Churn
    <3> QED BY DEF FlagsAgree
  <2> DEFINE total == Churn.total[p]
  <2>1. PathFlags(p) = {MarkedOf[f].flag : f \in {g \in joined : MarkedOf[g].path = p /\ (MarkedOf[g].flag = "hotspot" => total > 0)}}
    BY DEF PathFlags, FlagsOf
  <2>2. total \in Nat /\ (total > 0 <=> \E i \in 1..Len(commits) : i > Len(commits) - LogLimit /\ p \in commits[i].paths)
    <3>1. CASE commits = <<>>
      BY <3>1, NoHistoryNoChurn
    <3>2. CASE commits # <<>>
      BY <3>2, ChurnTells
    <3> QED BY <3>1, <3>2
  <2> HIDE DEF total, joined
  <2>3. /\ flags.log \in 0..Len(commits) /\ Len(commits) \in Nat /\ LogLimit \in Nat
        /\ flags.of[p] \subseteq FlagsOn(p, flags.rows)
        /\ \A m \in FlagsOn(p, flags.rows) \ flags.of[p] :
             m = "hotspot" /\ \A i \in 1..flags.log : i > flags.log - LogLimit => p \notin commits[i].paths
    BY SignalsAssumption DEF FlagsInv, FlagsRead, CommitsTyped
  <2>4. ASSUME NEW m \in PathFlags(p) \ flags.of[p], m \notin FlagsOn(p, joined \ flags.rows)
        PROVE  m = "hotspot" /\ \E i \in flags.log + 1..Len(commits) : p \in commits[i].paths
    <3>1. PICK f \in joined : /\ MarkedOf[f].path = p /\ MarkedOf[f].flag = m
                              /\ MarkedOf[f].flag = "hotspot" => total > 0
      BY <2>1, <2>4
    <3>2. m \in FlagsOn(p, flags.rows) \ flags.of[p]
      BY <2>4, <3>1 DEF FlagsOn
    <3>3. m = "hotspot" /\ total > 0 /\ \A i \in 1..flags.log : i > flags.log - LogLimit => p \notin commits[i].paths
      BY <2>3, <3>1, <3>2
    <3>4. PICK i \in 1..Len(commits) : i > Len(commits) - LogLimit /\ p \in commits[i].paths
      BY <2>2, <3>3
    <3>5. i \in flags.log + 1..Len(commits)
      <4>1. CASE i <= flags.log
        <5>1. i \in 1..flags.log /\ i > flags.log - LogLimit
          BY <2>3, <3>4, <4>1
        <5> QED BY <3>3, <3>4, <5>1
      <4>2. CASE ~(i <= flags.log)
        BY <2>3, <4>2
      <4> QED BY <4>1, <4>2
    <3> QED BY <3>3, <3>4, <3>5
  <2>5. ASSUME NEW m \in flags.of[p] \ PathFlags(p), m \notin FlagsOn(p, flags.rows \ joined)
        PROVE  m = "hotspot" /\ total = 0
    <3>1. PICK f \in flags.rows : MarkedOf[f].path = p /\ MarkedOf[f].flag = m
      BY <2>3, <2>5 DEF FlagsOn
    <3>2. f \in joined
      BY <2>5, <3>1 DEF FlagsOn
    <3>3. m = "hotspot" /\ ~(total > 0)
      BY <2>1, <2>5, <3>1, <3>2
    <3> QED BY <2>2, <3>3
  <2> QED BY <2>4, <2>5 DEF total
<1>2. SignalsInit => FlagsInv
  BY DEF SignalsInit, FlagsInv, NoFlags
<1>3. SignalsSpec => []FlagsInv
  BY <1>2, FlagsStep, CommitsAreTyped, PTL DEF SignalsSpec
<1> QED BY <1>1, <1>3, CommitsAreTyped, PTL

\* Counts, authors, couplings and silos read from the lines of git's log are those of the
\* history, for any history and limit; with ChangedSinceComplete and FlagsAgreement, what git says
\* reaches the reader whole (git.py, quality_signals.py, knowledge_silo.py).
THEOREM HistoryRead == SignalsSpec => []HistoryIsReadRight
<1>1. CommitsTyped /\ ChangedSinceIsComplete /\ FlagsAgree => HistoryIsReadRight
  BY HistoryIsMatched DEF HistoryIsReadRight
<1> QED BY <1>1, CommitsAreTyped, ChangedSinceComplete, FlagsAgreement, PTL

-----------------------------------------------------------------------------
(* Reports about a change: any files, findings, caps and edits.                *)

PlanFields == {"tool", "at", "id", "path", "impact", "partners", "tests", "diff", "changed", "todo", "health",
               "warnings", "asked", "after", "weights"}
RuleNames == {FlagOf[id].rule : id \in Flags}
Targets == Files \cup {NoPath}
HealthRow == [file : Targets, flags : SUBSET Flags, tests : SUBSET Files, score : Int]

\* What a plan under way holds.
PlanTyped(p) ==
  /\ DOMAIN p = PlanFields /\ DOMAIN p.impact = {"state", "files", "tests"}
  /\ p.id \in Flags \cup {NoPath} /\ p.path \in Targets
  /\ p.partners \subseteq Files /\ p.todo \in Seq(Targets) /\ p.health \in Seq(HealthRow)
  /\ p.weights \in {<<>>} \cup [RuleNames -> Int]
  /\ p.at = "score" => p.weights \in [RuleNames -> Int]

\* How far a preflight has come, and the warnings it then has.
PreflightSoFar(p) ==
  p.tool = "preflight" =>
    /\ p.at \in {"first", "partners", "tests", "select", "changed", "ensure", "score", "answer"}
    /\ p.at # "first" => /\ p.impact.state # "read" => "impact" \in p.warnings
                         /\ p.path = NoPath => "target" \in p.warnings
    /\ p.at \notin {"first", "partners"} /\ p.path # NoPath /\ p.partners = {} => "co_change" \in p.warnings
    /\ p.at \in {"ensure", "score"} /\ p.todo = <<>> => p.health # <<>>
    /\ p.at = "answer" /\ p.path # NoPath /\ p.health = <<>> => "health" \in p.warnings

\* The files of a review are the first of the diff, and all of a short one.
FirstOfDiff(files, diff) ==
  /\ Cardinality(diff) <= DiffLimit => files = diff
  /\ files \subseteq diff /\ \A f \in files, g \in diff \ files : f < g

\* How far a review has come: the files it has scored and those it has not are the
\* changed files.
ReviewSoFar(p) ==
  p.tool = "review" =>
    /\ p.at \in {"first", "ensure", "score"}
    /\ p.at = "first" => p.health = <<>>
    /\ p.at # "first" => /\ {h.file : h \in ToSet(p.health)} \cup ToSet(p.todo) = p.changed
                         /\ FirstOfDiff(p.changed, p.diff)

PlanInv ==
  /\ PlanTyped(plan) /\ PreflightSoFar(plan) /\ ReviewSoFar(plan)
  /\ flagged \subseteq Flags /\ landed \in Seq(SUBSET Files)
  /\ PreflightDegrades /\ ReviewIsRanked

LEMMA IdlePlanFits == PlanTyped(IdlePlan) /\ PreflightSoFar(IdlePlan) /\ ReviewSoFar(IdlePlan)
BY DEF IdlePlan, PlanTyped, PreflightSoFar, ReviewSoFar, PlanFields, Unread, Targets

\* A reply that carries no report: the tool was refused, or could not do its work.
LEMMA EmptyReply ==
  ASSUME PlanInv, NEW tool, NEW state,
         PlanReply([NoVerdict EXCEPT !.tool = tool, !.state = state]),
         state # "answered", tool = "preflight" => state = "failed",
         flagged' \subseteq Flags, landed' = landed
  PROVE  PlanInv'
<1>1. plan' = IdlePlan /\ verdict'.tool = tool /\ verdict'.state = state
  BY DEF PlanReply, NoVerdict
<1>2. PlanTyped(plan)' /\ PreflightSoFar(plan)' /\ ReviewSoFar(plan)'
  BY <1>1, IdlePlanFits DEF PlanTyped, PreflightSoFar, ReviewSoFar
<1>3. PreflightDegrades' /\ ReviewIsRanked'
  BY <1>1 DEF PreflightDegrades, ReviewIsRanked
<1> QED BY <1>2, <1>3 DEF PlanInv

\* The plan goes on, and there is no answer yet.
LEMMA PlanGoesOn ==
  ASSUME PlanInv, PlanTyped(plan'), PreflightSoFar(plan'), ReviewSoFar(plan'),
         verdict' = verdict, flagged' \subseteq Flags, landed' \in Seq(SUBSET Files)
  PROVE  PlanInv'
<1>1. PlanTyped(plan)' /\ PreflightSoFar(plan)' /\ ReviewSoFar(plan)'
  BY DEF PlanTyped, PreflightSoFar, ReviewSoFar
<1>2. PreflightDegrades' /\ ReviewIsRanked'
  BY DEF PlanInv, PreflightDegrades, ReviewIsRanked
<1> QED BY <1>1, <1>2 DEF PlanInv

LEMMA ScansKeepFlags ==
  ASSUME PlanInv
  PROVE  /\ Scanned => flagged' \subseteq Flags
         /\ Unscanned => flagged' \subseteq Flags
         /\ HalfScanned => flagged' \subseteq Flags
         /\ \A works : Refreshed(works) => flagged' \subseteq Flags
BY DEF PlanInv, Scanned, Unscanned, HalfScanned, Refreshed

LEMMA ImpactShape ==
  ASSUME NEW f, NEW tolerant
  PROVE  DOMAIN ImpactOf(f, tolerant) = {"state", "files", "tests"}
BY DEF ImpactOf, Unread

LEMMA PreflightSteps ==
  ASSUME PlanInv, \/ PreflightImpact \/ PreflightTests
                  \/ \E works \in BOOLEAN : PreflightPartners(works) \/ PreflightRefresh(works)
  PROVE  PlanInv'
<1>0. PlanTyped(plan) /\ PreflightSoFar(plan) /\ landed \in Seq(SUBSET Files)
  BY DEF PlanInv
<1>1. ASSUME PreflightImpact PROVE PlanInv'
  <2> DEFINE lost == plan.id # NoPath /\ plan.id \notin flagged
             f == IF plan.id = NoPath THEN plan.path ELSE FlagOf[plan.id].file
             impact == IF lost THEN Unread ELSE ImpactOf(f, plan.id # NoPath)
             path == IF impact.state = "read" THEN f ELSE plan.path
             warnings == {w \in {"impact", "target"} : \/ w = "impact" /\ impact.state # "read"
                                                       \/ w = "target" /\ path = NoPath}
  <2>1. /\ plan.tool = "preflight" /\ Unscanned /\ verdict' = verdict /\ landed' = landed
        /\ plan' = [plan EXCEPT !.at = "partners", !.impact = impact, !.path = path, !.warnings = warnings]
    BY <1>1 DEF PreflightImpact, Running, Step
  <2>2. DOMAIN impact = {"state", "files", "tests"} /\ path \in Targets
        /\ (impact.state # "read" => "impact" \in warnings) /\ (path = NoPath => "target" \in warnings)
    <3>1. DOMAIN impact = {"state", "files", "tests"}
      BY ImpactShape DEF Unread
    <3>2. f \in Targets
      BY <1>0, RefactorAssumption DEF PlanTyped, Targets
    <3> QED BY <1>0, <3>1, <3>2 DEF PlanTyped
  <2> HIDE DEF impact, path, warnings
  <2>3. PlanTyped(plan') /\ PreflightSoFar(plan') /\ ReviewSoFar(plan')
    BY <1>0, <2>1, <2>2 DEF PlanTyped, PlanFields, PreflightSoFar, ReviewSoFar
  <2> QED BY <1>0, <2>1, <2>3, ScansKeepFlags, PlanGoesOn
<1>2. ASSUME PreflightTests PROVE PlanInv'
  <2>1. plan.tool = "preflight" /\ plan.at = "select" /\ Unscanned /\ verdict' = verdict /\ landed' = landed
    BY <1>2 DEF PreflightTests, Running, Step
  <2>2. \E tests, at : /\ plan' = [plan EXCEPT !.at = at, !.tests = tests]
                       /\ at = IF plan.path = NoPath THEN "answer" ELSE "changed"
    BY <1>2 DEF PreflightTests
  <2>3. PlanTyped(plan') /\ PreflightSoFar(plan') /\ ReviewSoFar(plan')
    BY <1>0, <2>1, <2>2 DEF PlanTyped, PlanFields, PreflightSoFar, ReviewSoFar
  <2> QED BY <1>0, <2>1, <2>3, ScansKeepFlags, PlanGoesOn
<1>3. ASSUME NEW works \in BOOLEAN, PreflightPartners(works) PROVE PlanInv'
  <2> DEFINE partners == IF plan.path = NoPath THEN {} ELSE CoChange(plan.path, works)
  <2>1. /\ plan.tool = "preflight" /\ plan.at = "partners" /\ Unscanned /\ verdict' = verdict /\ landed' = landed
        /\ plan' = [plan EXCEPT !.at = "tests", !.partners = partners,
                      !.warnings = @ \cup IF plan.path # NoPath /\ partners = {} THEN {"co_change"} ELSE {}]
    BY <1>3 DEF PreflightPartners, Running, Step
  <2>2. partners \subseteq Files
    BY <1>0 DEF CoChange
  <2> HIDE DEF partners
  <2>3. PlanTyped(plan') /\ PreflightSoFar(plan') /\ ReviewSoFar(plan')
    BY <1>0, <2>1, <2>2 DEF PlanTyped, PlanFields, PreflightSoFar, ReviewSoFar
  <2> QED BY <1>0, <2>1, <2>3, ScansKeepFlags, PlanGoesOn
<1>4. ASSUME NEW works \in BOOLEAN, PreflightRefresh(works) PROVE PlanInv'
  <2>1. /\ plan.tool = "preflight" /\ plan.at = "tests" /\ Refreshed(works) /\ verdict' = verdict /\ landed' = landed
        /\ plan' = [plan EXCEPT !.at = "select"]
    BY <1>4 DEF PreflightRefresh, Running, Step
  <2>3. PlanTyped(plan') /\ PreflightSoFar(plan') /\ ReviewSoFar(plan')
    BY <1>0, <2>1 DEF PlanTyped, PlanFields, PreflightSoFar, ReviewSoFar
  <2> QED BY <1>0, <2>1, <2>3, ScansKeepFlags, PlanGoesOn
<1> QED BY <1>1, <1>2, <1>3, <1>4

\* The first of a sorted set: some of it, and one at least when there is one.
LEMMA FirstOfSorted ==
  ASSUME NEW s, NEW T, s \in Seq(T), NEW cap \in Nat \ {0}
  PROVE  LET first == SubSeq(s, 1, Min({cap, Len(s)}))
         IN  first \in Seq(T) /\ (first = <<>> => s = <<>>)
<1> DEFINE m == Min({cap, Len(s)})
<1>1. Len(s) \in Nat /\ m = IF cap <= Len(s) THEN cap ELSE Len(s)
  <2>1. Len(s) \in Int /\ cap \in Int /\ Len(s) \in Nat
    OBVIOUS
  <2> QED BY <2>1, MaxMinOfTwo
<1>2. m \in 0..Len(s) /\ (m = 0 => Len(s) = 0)
  BY <1>1
<1> HIDE DEF m
<1>3. SubSeq(s, 1, m) \in Seq(T) /\ Len(SubSeq(s, 1, m)) = m
  BY <1>1, <1>2
<1>4. Len(s) = 0 => s = <<>>
  OBVIOUS
<1>5. SubSeq(s, 1, m) = <<>> => m = 0
  BY <1>3
<1> QED BY <1>2, <1>3, <1>4, <1>5 DEF m

\* A section that is cut is empty only if it was.
LEMMA CappedKeepsSome ==
  ASSUME NEW set \in SUBSET Files, NEW key \in [Files -> Int], Capped(set, key) = {}
  PROVE  set = {}
<1> DEFINE R == {p \in set \X set : key[p[1]] < key[p[2]] \/ (key[p[1]] = key[p[2]] /\ p[1] < p[2])}
           sorted == Ranked(set, R)
<1>1. set \subseteq Nat /\ IsFiniteSet(set) /\ SectionCap \in Nat \ {0} /\ \A x \in set : key[x] \in Int
  BY RefactorAssumption, FS_Subset
<1>2. StrictOrder(set, R)
  BY <1>1 DEF StrictOrder
<1>3. Capped(set, key) = ToSet(SubSeq(sorted, 1, Min({SectionCap, Len(sorted)})))
  BY DEF Capped, Sorted, Pairs
<1> HIDE DEF R
<1>4. sorted \in Seq(set) /\ {sorted[i] : i \in DOMAIN sorted} = set
  BY <1>1, <1>2, RankedIsSequence
<1> HIDE DEF sorted
<1> DEFINE first == SubSeq(sorted, 1, Min({SectionCap, Len(sorted)}))
<1>5. first \in Seq(set) /\ (first = <<>> => sorted = <<>>)
  BY <1>1, <1>4, FirstOfSorted
<1> HIDE DEF first
<1>6. DOMAIN first = {}
  BY <1>3 DEF ToSet, first
<1>7. first = <<>>
  BY <1>5, <1>6
<1> QED BY <1>4, <1>5, <1>7

\* The bundle keeps what a warning is about.
LEMMA BundleKeeps ==
  ASSUME PlanInv, plan.tool = "preflight"
  PROVE  /\ Bundle.impact.state = plan.impact.state /\ Bundle.path = plan.path
         /\ Bundle.health = plan.health /\ Bundle.warnings = plan.warnings
         /\ Bundle.partners = {} => plan.partners = {}
<1> DEFINE last == [f \in Files |-> IF f = plan.path THEN 0 ELSE f]
           often == [f \in Files |-> -Cardinality({i \in DOMAIN landed : {f, plan.path} \subseteq landed[i]})]
           bundle == [plan EXCEPT !.impact.files = Capped(@, last), !.impact.tests = Capped(@, last),
                       !.tests = Capped(@, last), !.partners = Capped(@, often)]
<1>1. DOMAIN plan = PlanFields /\ DOMAIN plan.impact = {"state", "files", "tests"} /\ plan.partners \subseteq Files
      /\ landed \in Seq(SUBSET Files)
  BY DEF PlanInv, PlanTyped
<1>2. often \in [Files -> Int]
  <2>1. ASSUME NEW f \in Files
        PROVE  -Cardinality({i \in DOMAIN landed : {f, plan.path} \subseteq landed[i]}) \in Int
    <3> DEFINE places == {i \in DOMAIN landed : {f, plan.path} \subseteq landed[i]}
    <3>0. Len(landed) \in Int /\ DOMAIN landed = 1..Len(landed)
      BY <1>1
    <3>1. IsFiniteSet(1..Len(landed)) /\ DOMAIN landed = 1..Len(landed)
      BY <3>0, FS_Interval
    <3>2. IsFiniteSet(places)
      BY <3>1, FS_Subset
    <3>3. Cardinality(places) \in Nat
      BY <3>2, FS_CardinalityType
    <3> HIDE DEF places
    <3>4. -Cardinality(places) \in Int
      BY <3>3
    <3> QED BY <3>4 DEF places
  <2> QED BY <2>1
<1> HIDE DEF last, often
<1>3. /\ bundle.impact.state = plan.impact.state /\ bundle.path = plan.path
      /\ bundle.health = plan.health /\ bundle.warnings = plan.warnings
      /\ bundle.partners = Capped(plan.partners, often)
  BY <1>1 DEF PlanFields
<1>4. Bundle = bundle
  BY DEF Bundle, last, often
<1>5. Capped(plan.partners, often) = {} => plan.partners = {}
  BY <1>1, <1>2, CappedKeepsSome
<1> QED BY <1>3, <1>4, <1>5

\* What is cut of a sorted set is what comes last.
LEMMA FirstOfDiffIs ==
  ASSUME NEW S \in SUBSET Files
  PROVE  LET inOrder == Ranked(S, Pairs(S, <))
             shown == SubSeq(inOrder, 1, Min({DiffLimit, Len(inOrder)}))
         IN  shown \in Seq(Files) /\ FirstOfDiff(ToSet(shown), S)
<1> DEFINE R == Pairs(S, <)
           inOrder == Ranked(S, R)
           m == Min({DiffLimit, Len(inOrder)})
           shown == SubSeq(inOrder, 1, m)
<1>1. S \subseteq Files /\ IsFiniteSet(S) /\ S \subseteq Nat /\ DiffLimit \in Nat \ {0}
  BY RefactorAssumption, FS_Subset
<1>2. StrictOrder(S, R) /\ \A a, b \in S : <<a, b>> \in R => a < b
  BY <1>1 DEF StrictOrder, Pairs
<1> HIDE DEF R
<1>3. /\ inOrder \in Seq(S) /\ Cardinality(S) \in Nat /\ Len(inOrder) = Cardinality(S)
      /\ {inOrder[i] : i \in DOMAIN inOrder} = S
      /\ \A i, j \in DOMAIN inOrder : i < j => <<inOrder[i], inOrder[j]>> \in R
  BY <1>1, <1>2, RankedIsSequence
<1>4. \A i, j \in DOMAIN inOrder : i < j => inOrder[i] < inOrder[j]
  BY <1>2, <1>3
<1> HIDE DEF inOrder
<1>5. m = IF DiffLimit <= Len(inOrder) THEN DiffLimit ELSE Len(inOrder)
  <2>1. Len(inOrder) \in Int /\ DiffLimit \in Int
    BY <1>1, <1>3
  <2> QED BY <2>1, MaxMinOfTwo
<1>6. m \in 0..Len(inOrder) /\ (Cardinality(S) <= DiffLimit => m = Len(inOrder))
  BY <1>1, <1>3, <1>5
<1> HIDE DEF m
<1>7. shown \in Seq(S) /\ Len(shown) = m /\ \A i \in 1..m : shown[i] = inOrder[i]
  BY <1>3, <1>6
<1> HIDE DEF shown
<1>8. DOMAIN shown = 1..m /\ DOMAIN inOrder = 1..Len(inOrder) /\ 1..m \subseteq 1..Len(inOrder)
  BY <1>3, <1>6, <1>7
<1>9. shown \in Seq(Files)
  <2>1. shown \in [1..m -> Files]
    <3>1. ASSUME NEW i \in 1..m PROVE shown[i] \in Files
      <4>1. shown[i] \in S
        BY <1>7, <1>8
      <4> QED BY <1>1, <4>1
    <3>2. shown = [i \in 1..m |-> shown[i]]
      BY <1>7, <1>8
    <3> QED BY <3>1, <3>2
  <2> QED BY <1>6, <2>1, IsASequence
<1>10. ToSet(shown) \subseteq S
  BY <1>3, <1>7, <1>8 DEF ToSet
<1>11. Cardinality(S) <= DiffLimit => ToSet(shown) = S
  BY <1>3, <1>6, <1>7, <1>8 DEF ToSet
<1>12. ASSUME NEW f \in ToSet(shown), NEW g \in S \ ToSet(shown) PROVE f < g
  <2>1. PICK i \in 1..m : f = inOrder[i]
    BY <1>7, <1>8 DEF ToSet
  <2>2. PICK j \in 1..Len(inOrder) : g = inOrder[j]
    BY <1>3, <1>8
  <2>3. j \notin 1..m
    BY <1>7, <1>8, <2>2 DEF ToSet
  <2>4. i < j
    BY <1>6, <2>3
  <2> QED BY <1>4, <1>8, <2>1, <2>2, <2>4
<1> QED BY <1>9, <1>10, <1>11, <1>12 DEF FirstOfDiff, R, inOrder, m, shown

LEMMA ReadChangedStep ==
  ASSUME PlanInv, NEW gitWorks \in BOOLEAN, ReadChanged(gitWorks)
  PROVE  PlanInv'
<1> DEFINE S == {f \in Changed(gitWorks) \cap PlanSources : disk[f] # Missing}
           inOrder == Ranked(S, Pairs(S, <))
           shown == SubSeq(inOrder, 1, Min({DiffLimit, Len(inOrder)}))
           todo == IF plan.tool = "review" THEN shown ELSE <<plan.path>>
<1>1. S \in SUBSET Files
  BY DEF Changed
<1>2. /\ plan' = [plan EXCEPT !.at = "ensure", !.diff = S, !.changed = ToSet(shown), !.todo = todo]
      /\ Unscanned /\ verdict' = verdict /\ landed' = landed
      /\ plan.tool \in {"review", "health"} => plan.at = "first"
      /\ plan.tool \in {"review", "health", "preflight"}
  BY DEF ReadChanged, Sorted, Step, Running
<1> HIDE DEF S
<1>5. shown \in Seq(Files) /\ FirstOfDiff(ToSet(shown), S)
  BY <1>1, FirstOfDiffIs
<1> HIDE DEF inOrder, shown
<1>6. PlanTyped(plan) /\ PreflightSoFar(plan) /\ ReviewSoFar(plan) /\ landed \in Seq(SUBSET Files)
  BY DEF PlanInv
<1>7. todo \in Seq(Targets) /\ (plan.tool = "preflight" => todo # <<>>)
  <2>1. shown \in Seq(Targets)
    BY <1>5 DEF Targets
  <2>2. <<plan.path>> \in Seq(Targets) /\ <<plan.path>> # <<>>
    BY <1>6 DEF PlanTyped
  <2> QED BY <2>1, <2>2
<1>8. plan.tool = "review" => {h.file : h \in ToSet(plan.health)} \cup ToSet(todo) = ToSet(shown)
  BY <1>2, <1>6 DEF ReviewSoFar, ToSet
<1> HIDE DEF todo
<1> DEFINE now == [plan EXCEPT !.at = "ensure", !.diff = S, !.changed = ToSet(shown), !.todo = todo]
<1>10. /\ DOMAIN now = PlanFields /\ now.at = "ensure" /\ now.changed = ToSet(shown) /\ now.todo = todo
       /\ now.diff = S
       /\ now.tool = plan.tool /\ now.id = plan.id /\ now.path = plan.path /\ now.impact = plan.impact
       /\ now.partners = plan.partners /\ now.health = plan.health /\ now.weights = plan.weights
       /\ now.warnings = plan.warnings
  BY <1>6 DEF PlanTyped, PlanFields
<1>11. plan' = now
  BY <1>2
<1>12. plan.tool = "preflight" => plan.at = "changed"
  BY DEF ReadChanged, Running
<1> HIDE DEF now
<1>9. PlanTyped(plan') /\ PreflightSoFar(plan') /\ ReviewSoFar(plan')
  <2>1. PlanTyped(now)
    BY <1>6, <1>7, <1>10 DEF PlanTyped
  <2>2. PreflightSoFar(now)
    BY <1>6, <1>7, <1>10, <1>12 DEF PreflightSoFar
  <2>3. ReviewSoFar(now)
    BY <1>5, <1>8, <1>10 DEF ReviewSoFar
  <2> QED BY <2>1, <2>2, <2>3, <1>11
<1> QED BY <1>2, <1>6, <1>9, ScansKeepFlags, PlanGoesOn

LEMMA WeightsTyped == ASSUME PlanInv PROVE Weights \in [RuleNames -> Int]
<1>1. ASSUME NEW rule PROVE NoiseWeight(rule) \in Int
  <2> DEFINE firing == Cardinality({id \in flagged : FlagOf[id].rule = rule})
             all == Cardinality(flagged)
  <2>1. IsFiniteSet(flagged) /\ IsFiniteSet({id \in flagged : FlagOf[id].rule = rule})
    BY RefactorAssumption, FS_Subset DEF PlanInv
  <2>2. firing \in Nat /\ all \in Nat /\ MaxDelta \in Nat /\ MinSample \in Nat \ {0}
    BY <2>1, FS_CardinalityType, RefactorAssumption
  <2>3. NoiseWeight(rule) = IF all < MinSample THEN 100 ELSE 100 - (MaxDelta * firing) \div all
    BY DEF NoiseWeight
  <2> HIDE DEF firing, all
  <2>4. all >= MinSample => (MaxDelta * firing) \div all \in Int
    <3>1. all >= MinSample => all \in Nat \ {0} /\ MaxDelta * firing \in Int
      BY <2>2
    <3> QED BY <3>1, DivisionBounds
  <2> QED BY <2>2, <2>3, <2>4
<1> QED BY <1>1 DEF Weights, RuleNames

LEMMA EnsureFindingsStep ==
  ASSUME PlanInv, NEW works \in BOOLEAN, EnsureFindings(works)
  PROVE  PlanInv'
<1>0. PlanTyped(plan) /\ PreflightSoFar(plan) /\ ReviewSoFar(plan) /\ landed \in Seq(SUBSET Files) /\ landed' = landed
  BY DEF PlanInv, EnsureFindings, Step
<1>1. CASE ~works
  BY <1>1, EmptyReply, ScansKeepFlags DEF EnsureFindings, Step
<1>2. CASE works
  <2> DEFINE weights == IF plan.weights = <<>> THEN Weights ELSE plan.weights
  <2>1. /\ plan.at = "ensure" /\ plan' = [plan EXCEPT !.at = "score", !.weights = weights] /\ verdict' = verdict
        /\ Scanned \/ Unscanned
    BY <1>2 DEF EnsureFindings
  <2>2. weights \in [RuleNames -> Int]
    BY <1>0, WeightsTyped DEF PlanTyped
  <2> HIDE DEF weights
  <2>3. PlanTyped(plan') /\ PreflightSoFar(plan') /\ ReviewSoFar(plan')
    BY <1>0, <2>1, <2>2 DEF PlanTyped, PlanFields, PreflightSoFar, ReviewSoFar
  <2> QED BY <1>0, <2>1, <2>3, ScansKeepFlags, PlanGoesOn
<1> QED BY <1>1, <1>2

LEMMA RiskIsNumber ==
  ASSUME NEW marks \in SUBSET Flags, NEW impact
  PROVE  FileRisk(marks, impact) \in Int
<1> DEFINE sure == IF Cardinality(impact.files) < 2 THEN 50 ELSE 95
           severities == {SeverityScore[FlagOf[id].severity + 1] : id \in marks}
           confidences == {FlagOf[id].confidence : id \in marks}
           scores == {sure} \cup severities \cup confidences
<1>1. sure \in Int /\ sure \div 2 \in Int
  OBVIOUS
<1>2. severities \subseteq Int /\ confidences \subseteq Int
  <2>1. \A id \in marks : FlagOf[id].severity \in 0..2 /\ FlagOf[id].confidence \in 0..100
    BY RefactorAssumption DEF RefactorAssumption
  <2>2. \A n \in 0..2 : SeverityScore[n + 1] \in Int
    <3>1. SeverityScore[1] = 30 /\ SeverityScore[2] = 70 /\ SeverityScore[3] = 90
      BY DEF SeverityScore
    <3>2. \A n \in 0..2 : n + 1 = 1 \/ n + 1 = 2 \/ n + 1 = 3
      OBVIOUS
    <3> QED BY <3>1, <3>2
  <2>3. \A n \in 0..100 : n \in Int
    OBVIOUS
  <2> QED BY <2>1, <2>2, <2>3
<1>3. IsFiniteSet(severities) /\ IsFiniteSet(confidences)
  <2>1. IsFiniteSet(marks)
    BY RefactorAssumption, FS_Subset
  <2> DEFINE severityOf == [id \in marks |-> SeverityScore[FlagOf[id].severity + 1]]
             confidenceOf == [id \in marks |-> FlagOf[id].confidence]
  <2>2. severities = {severityOf[id] : id \in marks} /\ confidences = {confidenceOf[id] : id \in marks}
    OBVIOUS
  <2> HIDE DEF severityOf, confidenceOf, severities, confidences
  <2>3. IsFiniteSet({severityOf[id] : id \in marks}) /\ IsFiniteSet({confidenceOf[id] : id \in marks})
    BY <2>1, ImageIsFinite
  <2> QED BY <2>2, <2>3
<1>4. FileRisk(marks, impact) = IF marks = {} THEN sure \div 2 ELSE Max(scores)
  BY DEF FileRisk
<1> HIDE DEF sure, severities, confidences
<1>5. IsFiniteSet(scores) /\ scores # {} /\ scores \subseteq Int
  <2>1. IsFiniteSet({sure})
    BY FS_Singleton
  <2> QED BY <1>1, <1>2, <1>3, <2>1, FS_Union
<1> HIDE DEF scores
<1>6. Max(scores) \in Int
  BY <1>5, MaxOfFinite
<1> QED BY <1>1, <1>4, <1>6

LEMMA ScoreFileStep ==
  ASSUME PlanInv, ScoreFile
  PROVE  PlanInv'
<1> DEFINE f == Head(plan.todo)
           marks == {id \in flagged : FlagOf[id].file = f}
           impact == ImpactOf(f, FALSE)
           row == [file |-> f, flags |-> marks, tests |-> PlanTests(f), score |-> FileRisk(marks, impact)]
<1>0. /\ PlanTyped(plan) /\ PreflightSoFar(plan) /\ ReviewSoFar(plan) /\ landed \in Seq(SUBSET Files)
      /\ landed' = landed /\ Unscanned /\ plan.todo # <<>> /\ plan.at = "score" /\ flagged \subseteq Flags
  BY DEF PlanInv, ScoreFile, Step
<1>1. CASE impact.state # "read" /\ plan.tool = "preflight"
  <2>1. plan' = [plan EXCEPT !.at = "answer", !.todo = <<>>, !.warnings = @ \cup {"health"}] /\ verdict' = verdict
    BY <1>1 DEF ScoreFile, Unindexed
  <2>2. PlanTyped(plan') /\ PreflightSoFar(plan') /\ ReviewSoFar(plan')
    BY <1>0, <1>1, <2>1 DEF PlanTyped, PlanFields, PreflightSoFar, ReviewSoFar
  <2> QED BY <1>0, <2>1, <2>2, ScansKeepFlags, PlanGoesOn
<1>2. CASE impact.state # "read" /\ plan.tool # "preflight"
  <2>1. PlanReply([NoVerdict EXCEPT !.tool = plan.tool, !.state = "internal"])
    BY <1>2 DEF ScoreFile, Unindexed
  <2> QED BY <1>0, <1>2, <2>1, EmptyReply, ScansKeepFlags
<1>3. CASE impact.state = "read"
  <2>1. /\ plan' = [plan EXCEPT !.todo = Tail(@), !.at = "ensure", !.health = Append(@, row)]
        /\ verdict' = verdict
    BY <1>3 DEF ScoreFile
  <2>2. f \in Targets /\ Tail(plan.todo) \in Seq(Targets) /\ ToSet(plan.todo) = {f} \cup ToSet(Tail(plan.todo))
    <3>1. plan.todo \in Seq(Targets) /\ plan.todo # <<>>
      BY <1>0 DEF PlanTyped
    <3>2. f \in Targets /\ Tail(plan.todo) \in Seq(Targets) /\ Len(Tail(plan.todo)) = Len(plan.todo) - 1
          /\ f = plan.todo[1] /\ \A i \in 1..Len(plan.todo) - 1 : Tail(plan.todo)[i] = plan.todo[i + 1]
      BY <3>1
    <3>3. Len(plan.todo) \in Nat \ {0} /\ DOMAIN plan.todo = 1..Len(plan.todo)
          /\ DOMAIN Tail(plan.todo) = 1..Len(plan.todo) - 1
      BY <3>1, <3>2
    <3>4. \A i \in 1..Len(plan.todo) : i = 1 \/ (i - 1 \in 1..Len(plan.todo) - 1 /\ plan.todo[i] = Tail(plan.todo)[i - 1])
      BY <3>1, <3>2, <3>3
    <3>5. \A i \in 1..Len(plan.todo) - 1 : i + 1 \in 1..Len(plan.todo)
      BY <3>3
    <3> HIDE DEF f
    <3>6. ToSet(plan.todo) \subseteq {f} \cup ToSet(Tail(plan.todo))
      <4>1. ASSUME NEW i \in 1..Len(plan.todo) PROVE plan.todo[i] \in {f} \cup ToSet(Tail(plan.todo))
        <5>1. CASE i = 1
          BY <3>2, <5>1
        <5>2. CASE i # 1
          BY <3>3, <3>4, <5>2 DEF ToSet
        <5> QED BY <5>1, <5>2
      <4> QED BY <3>3, <4>1 DEF ToSet
    <3>7. {f} \cup ToSet(Tail(plan.todo)) \subseteq ToSet(plan.todo)
      BY <3>2, <3>3, <3>5 DEF ToSet
    <3> QED BY <3>2, <3>6, <3>7
  <2>3. row \in HealthRow /\ row.file = f
    <3>1. marks \in SUBSET Flags
      BY <1>0
    <3>2. PlanTests(f) \subseteq Files
      BY RefactorAssumption DEF PlanTests
    <3>3. FileRisk(marks, impact) \in Int
      BY <3>1, RiskIsNumber
    <3> HIDE DEF f, marks, impact
    <3> QED BY <2>2, <3>1, <3>2, <3>3 DEF HealthRow, f
  <2> HIDE DEF f, marks, impact, row
  <2>4. Append(plan.health, row) \in Seq(HealthRow) /\ Append(plan.health, row) # <<>>
        /\ ToSet(Append(plan.health, row)) = ToSet(plan.health) \cup {row}
    <3>1. plan.health \in Seq(HealthRow)
      BY <1>0 DEF PlanTyped
    <3>2. Append(plan.health, row) \in Seq(HealthRow) /\ Len(Append(plan.health, row)) = Len(plan.health) + 1
          /\ Append(plan.health, row)[Len(plan.health) + 1] = row
          /\ \A i \in 1..Len(plan.health) : Append(plan.health, row)[i] = plan.health[i]
      BY <2>3, <3>1
    <3> QED BY <3>1, <3>2 DEF ToSet
  <2>5. PlanTyped(plan') /\ PreflightSoFar(plan')
    BY <1>0, <2>1, <2>2, <2>4 DEF PlanTyped, PlanFields, PreflightSoFar
  <2>6. ReviewSoFar(plan')
    <3>1. plan'.tool = plan.tool /\ plan'.at = "ensure" /\ plan'.changed = plan.changed /\ plan'.diff = plan.diff
          /\ plan'.health = Append(plan.health, row) /\ plan'.todo = Tail(plan.todo)
      BY <1>0, <2>1 DEF PlanTyped, PlanFields
    <3>2. {h.file : h \in ToSet(plan'.health)} = {h.file : h \in ToSet(plan.health)} \cup {f}
      BY <2>3, <2>4, <3>1
    <3> QED BY <1>0, <2>2, <3>1, <3>2 DEF ReviewSoFar
  <2> QED BY <1>0, <2>1, <2>5, <2>6, ScansKeepFlags, PlanGoesOn
<1> QED BY <1>1, <1>2, <1>3

\* What puts one finding before another, spelled out.
LEMMA RankIs ==
  ASSUME NEW a \in Flags, NEW b \in Flags, NEW weight \in [RuleNames -> Int]
  PROVE  LET grave(id) == FlagOf[id].severity
             sure(id) == FlagOf[id].confidence * weight[FlagOf[id].rule]
         IN  RankBefore(a, b, weight) <=>
               \/ grave(a) > grave(b)
               \/ grave(a) = grave(b) /\ FlagOf[a].tier < FlagOf[b].tier
               \/ grave(a) = grave(b) /\ FlagOf[a].tier = FlagOf[b].tier /\ sure(a) > sure(b)
               \/ grave(a) = grave(b) /\ FlagOf[a].tier = FlagOf[b].tier /\ sure(a) = sure(b) /\ a < b
<1> DEFINE grave(id) == FlagOf[id].severity
           sure(id) == FlagOf[id].confidence * weight[FlagOf[id].rule]
           k(id) == <<-grave(id), FlagOf[id].tier, -FlagOf[id].confidence * weight[FlagOf[id].rule], id>>
           differ == {i \in 1..4 : k(a)[i] # k(b)[i]}
<1>1. RankBefore(a, b, weight) <=> differ # {} /\ k(a)[Min(differ)] < k(b)[Min(differ)]
  BY DEF RankBefore
<1>2. ASSUME NEW id \in Flags
      PROVE  /\ grave(id) \in Int /\ FlagOf[id].tier \in Int /\ sure(id) \in Int /\ id \in Int
             /\ k(id)[1] = -grave(id) /\ k(id)[2] = FlagOf[id].tier /\ k(id)[3] = -sure(id) /\ k(id)[4] = id
  <2>1. FlagOf[id].confidence \in Int /\ weight[FlagOf[id].rule] \in Int /\ grave(id) \in Int
        /\ FlagOf[id].tier \in Int /\ id \in Int
    <3>1. FlagOf[id].confidence \in Int /\ grave(id) \in Int /\ FlagOf[id].tier \in Int /\ id \in Int
      BY RefactorAssumption
    <3>2. weight[FlagOf[id].rule] \in Int
      BY DEF RuleNames
    <3> QED BY <3>1, <3>2
  <2>2. -FlagOf[id].confidence * weight[FlagOf[id].rule] = -sure(id) /\ sure(id) \in Int
    BY <2>1
  <2> QED BY <2>1, <2>2
<1> HIDE DEF k, sure, grave
<1>3. \A i \in 1..4 : i \in differ <=> k(a)[i] # k(b)[i]
  OBVIOUS
<1>4. differ \in SUBSET Int
  OBVIOUS
<1>5. ASSUME NEW m \in 1..4, k(a)[m] # k(b)[m], \A i \in 1..4 : i < m => k(a)[i] = k(b)[i]
      PROVE  Min(differ) = m /\ differ # {}
  <2>1. m \in differ /\ \A y \in differ : m <= y
    BY <1>5
  <2> HIDE DEF differ
  <2> QED BY <1>4, <2>1, MinIs
<1>6. differ = {} <=> \A i \in 1..4 : k(a)[i] = k(b)[i]
  OBVIOUS
<1> HIDE DEF differ
<1>7. CASE grave(a) # grave(b)
  <2>1. Min(differ) = 1 /\ differ # {}
    BY <1>2, <1>5, <1>7
  <2> QED BY <1>1, <1>2, <1>7, <2>1 DEF grave, sure
<1>8. CASE grave(a) = grave(b) /\ FlagOf[a].tier # FlagOf[b].tier
  <2>1. Min(differ) = 2 /\ differ # {}
    BY <1>2, <1>5, <1>8
  <2> QED BY <1>1, <1>2, <1>8, <2>1 DEF grave, sure
<1>9. CASE grave(a) = grave(b) /\ FlagOf[a].tier = FlagOf[b].tier /\ sure(a) # sure(b)
  <2>1. Min(differ) = 3 /\ differ # {}
    BY <1>2, <1>5, <1>9
  <2> QED BY <1>1, <1>2, <1>9, <2>1 DEF grave, sure
<1>10. CASE grave(a) = grave(b) /\ FlagOf[a].tier = FlagOf[b].tier /\ sure(a) = sure(b) /\ a # b
  <2>1. Min(differ) = 4 /\ differ # {}
    BY <1>2, <1>5, <1>10
  <2> QED BY <1>1, <1>2, <1>10, <2>1 DEF grave, sure
<1>11. CASE a = b
  <2>1. differ = {}
    BY <1>6, <1>11
  <2> QED BY <1>1, <1>2, <1>11, <2>1 DEF grave, sure
<1> QED BY <1>7, <1>8, <1>9, <1>10, <1>11

LEMMA RankIsStrict ==
  ASSUME NEW set \in SUBSET Flags, NEW weight \in [RuleNames -> Int]
  PROVE  StrictOrder(set, {p \in set \X set : RankBefore(p[1], p[2], weight)})
<1> DEFINE grave(id) == FlagOf[id].severity
           tier(id) == FlagOf[id].tier
           sure(id) == FlagOf[id].confidence * weight[FlagOf[id].rule]
<1>1. ASSUME NEW id \in set
      PROVE  grave(id) \in Int /\ tier(id) \in Int /\ sure(id) \in Int /\ id \in Int
  <2>1. id \in Flags
    OBVIOUS
  <2>2. FlagOf[id].severity \in 0..2 /\ FlagOf[id].tier \in Nat /\ FlagOf[id].confidence \in 0..100 /\ id \in Nat
    BY <2>1, RefactorAssumption DEF RefactorAssumption
  <2>3. FlagOf[id].rule \in RuleNames
    BY <2>1 DEF RuleNames
  <2>4. weight[FlagOf[id].rule] \in Int
    BY <2>3
  <2> QED BY <2>2, <2>4
<1>2. ASSUME NEW a \in set, NEW b \in set
      PROVE  RankBefore(a, b, weight) <=>
               \/ grave(a) > grave(b)
               \/ grave(a) = grave(b) /\ tier(a) < tier(b)
               \/ grave(a) = grave(b) /\ tier(a) = tier(b) /\ sure(a) > sure(b)
               \/ grave(a) = grave(b) /\ tier(a) = tier(b) /\ sure(a) = sure(b) /\ a < b
  BY RankIs
<1> HIDE DEF grave, tier, sure
<1>3. \A a \in set : ~RankBefore(a, a, weight)
  BY <1>1, <1>2
<1>4. \A a, b, c \in set : RankBefore(a, b, weight) /\ RankBefore(b, c, weight) => RankBefore(a, c, weight)
  <2> SUFFICES ASSUME NEW a \in set, NEW b \in set, NEW c \in set, RankBefore(a, b, weight), RankBefore(b, c, weight)
      PROVE RankBefore(a, c, weight)
    OBVIOUS
  <2> QED BY <1>1, <1>2
<1>5. \A a, b \in set : a = b \/ RankBefore(a, b, weight) \/ RankBefore(b, a, weight)
  BY <1>1, <1>2
<1> QED BY <1>3, <1>4, <1>5 DEF StrictOrder

LEMMA AnswerStep ==
  ASSUME PlanInv, Answer
  PROVE  PlanInv'
<1> DEFINE health == ToSet(plan.health)
           marks == UNION {h.flags : h \in health}
           order == Sorted(marks, LAMBDA a, b : RankBefore(a, b, plan.weights))
           score == Max({0} \cup {h.score : h \in health})
<1>0. /\ PlanTyped(plan) /\ PreflightSoFar(plan) /\ ReviewSoFar(plan) /\ landed \in Seq(SUBSET Files)
      /\ landed' = landed /\ Unscanned /\ flagged \subseteq Flags
  BY DEF PlanInv, Answer, Step
<1>1. /\ plan' = IdlePlan
      /\ verdict' = [NoVerdict EXCEPT !.tool = plan.tool, !.state = "answered", !.plan = Bundle,
                                      !.ranked = order, !.score = score]
      /\ plan.at = "answer" \/ (plan.at = "score" /\ plan.todo = <<>>)
  BY DEF Answer, PlanReply
<1>2. verdict'.tool = plan.tool /\ verdict'.state = "answered" /\ verdict'.plan = Bundle
      /\ verdict'.ranked = order /\ verdict'.score = score
  BY <1>1 DEF NoVerdict
<1>3. PlanTyped(plan)' /\ PreflightSoFar(plan)' /\ ReviewSoFar(plan)'
  BY <1>1, IdlePlanFits DEF PlanTyped, PreflightSoFar, ReviewSoFar
<1>4. PreflightDegrades'
  <2> SUFFICES ASSUME plan.tool = "preflight"
      PROVE  LET p == Bundle IN
             /\ p.impact.state # "read" => "impact" \in p.warnings
             /\ p.path = NoPath => "target" \in p.warnings
             /\ p.path # NoPath /\ p.partners = {} => "co_change" \in p.warnings
             /\ p.path # NoPath /\ p.health = <<>> => "health" \in p.warnings
    BY <1>2 DEF PreflightDegrades
  <2> HIDE DEF health, marks, order, score
  <2> QED BY <1>0, <1>1, BundleKeeps DEF PreflightSoFar
<1>5. ReviewIsRanked'
  <2> SUFFICES ASSUME plan.tool = "review" PROVE ReviewIsRanked'
    BY <1>2 DEF ReviewIsRanked
  <2>1. Bundle = plan /\ plan.at = "score" /\ plan.todo = <<>>
    BY <1>0, <1>1 DEF Bundle, ReviewSoFar
  <2>2. plan.weights \in [RuleNames -> Int] /\ plan.health \in Seq(HealthRow)
    BY <1>0, <2>1 DEF PlanTyped
  <2>3. health \subseteq HealthRow /\ IsFiniteSet(health)
    <3>1. Len(plan.health) \in Int /\ DOMAIN plan.health = 1..Len(plan.health)
      BY <2>2
    <3>2. IsFiniteSet(DOMAIN plan.health)
      BY <3>1, FS_Interval
    <3>3. IsFiniteSet(health)
      BY <3>2, ImageIsFinite DEF ToSet
    <3> QED BY <2>2, <3>3 DEF ToSet
  <2> HIDE DEF health
  <2>4. marks \in SUBSET Flags /\ IsFiniteSet(marks)
    <3>1. marks \in SUBSET Flags
      BY <2>3 DEF HealthRow
    <3> QED BY <3>1, RefactorAssumption, FS_Subset
  <2> DEFINE R == {p \in marks \X marks : RankBefore(p[1], p[2], plan.weights)}
  <2>5. order = Ranked(marks, R)
    BY DEF Sorted, Pairs
  <2> HIDE DEF marks, order
  <2>6. StrictOrder(marks, R)
    BY <2>2, <2>4, RankIsStrict
  <2>12. \A x, y : <<x, y>> \in R => RankBefore(x, y, plan.weights)
    OBVIOUS
  <2> HIDE DEF R
  <2>7. /\ order \in Seq(marks) /\ Len(order) = Cardinality(marks) /\ ToSet(order) = marks
        /\ \A i, j \in DOMAIN order : i < j => <<order[i], order[j]>> \in R
    BY <2>4, <2>5, <2>6, RankedIsSequence DEF ToSet
  <2>8. \A i, j \in DOMAIN order : i < j =>
         /\ FlagOf[order[i]].severity >= FlagOf[order[j]].severity
         /\ FlagOf[order[i]].severity = FlagOf[order[j]].severity => FlagOf[order[i]].tier <= FlagOf[order[j]].tier
    <3> SUFFICES ASSUME NEW i \in DOMAIN order, NEW j \in DOMAIN order, i < j
        PROVE /\ FlagOf[order[i]].severity >= FlagOf[order[j]].severity
              /\ FlagOf[order[i]].severity = FlagOf[order[j]].severity => FlagOf[order[i]].tier <= FlagOf[order[j]].tier
      OBVIOUS
    <3> DEFINE a == order[i]
               b == order[j]
    <3>0. a \in marks /\ b \in marks /\ <<a, b>> \in R
      BY <2>7
    <3>1. RankBefore(a, b, plan.weights) /\ a \in Flags /\ b \in Flags
      BY <2>4, <2>12, <3>0
    <3> HIDE DEF a, b
    <3>2. /\ FlagOf[a].severity \in Int /\ FlagOf[b].severity \in Int /\ FlagOf[a].tier \in Int /\ FlagOf[b].tier \in Int
      BY <3>1, RefactorAssumption
    <3>3. \/ FlagOf[a].severity > FlagOf[b].severity
          \/ FlagOf[a].severity = FlagOf[b].severity /\ FlagOf[a].tier <= FlagOf[b].tier
      BY <2>2, <3>1, <3>2, RankIs
    <3> QED BY <3>2, <3>3 DEF a, b
  <2>9. \A h \in health : h.score <= score
    <3> DEFINE scoreOf == [h \in health |-> h.score]
               scores == {0} \cup {scoreOf[h] : h \in health}
    <3>1. scores = {0} \cup {h.score : h \in health}
      OBVIOUS
    <3>2. \A h \in health : h.score \in Int /\ h.score \in scores
      BY <2>3, <3>1 DEF HealthRow
    <3>3. scores \subseteq Int /\ scores # {}
      BY <3>1, <3>2
    <3>4. IsFiniteSet(scores)
      <4> HIDE DEF scoreOf
      <4>1. IsFiniteSet({scoreOf[h] : h \in health})
        BY <2>3, ImageIsFinite
      <4>2. IsFiniteSet({0})
        BY FS_Singleton
      <4> QED BY <4>1, <4>2, FS_Union
    <3>5. score = Max(scores)
      BY <3>1
    <3> HIDE DEF scores, score
    <3>6. \A y \in scores : Max(scores) >= y /\ Max(scores) \in Int
      BY <3>3, <3>4, MaxOfFinite
    <3> QED BY <3>2, <3>3, <3>5, <3>6
  <2>10. FirstOfDiff({h.file : h \in health}, plan.diff)
    <3>1. ToSet(plan.todo) = {}
      BY <2>1 DEF ToSet
    <3> QED BY <1>0, <2>1, <3>1 DEF ReviewSoFar, health
  <2> HIDE DEF score
  <2>11. verdict'.plan = plan /\ verdict'.ranked = order /\ verdict'.score = score
    BY <1>2, <2>1
  <2> QED BY <2>7, <2>8, <2>9, <2>10, <2>11 DEF ReviewIsRanked, FirstOfDiff, health, marks
<1> QED BY <1>0, <1>1, <1>3, <1>4, <1>5, ScansKeepFlags DEF PlanInv

LEMMA FindingSteps ==
  ASSUME PlanInv,
         \/ ReadContext \/ ReadAfter \/ ReadFails
         \/ \E works \in BOOLEAN : ReadFinding(works) \/ RecordSuggestion(works) \/ ReadBefore(works)
  PROVE  PlanInv'
<1>0. /\ PlanTyped(plan) /\ PreflightSoFar(plan) /\ ReviewSoFar(plan) /\ landed \in Seq(SUBSET Files)
  BY DEF PlanInv
<1>1. ASSUME ReadContext PROVE PlanInv'
  <2> DEFINE tests == IF Known(plan.path) THEN PlanTests(plan.path) ELSE {}
  <2>1. /\ plan.at = "context" /\ Unscanned /\ verdict' = verdict /\ landed' = landed
        /\ plan' = [plan EXCEPT !.at = IF plan.tool = "plan" THEN "answer" ELSE "record", !.tests = tests]
    BY <1>1 DEF ReadContext, Step
  <2> HIDE DEF tests
  <2>2. plan.tool \notin {"preflight", "review"}
    BY <1>0, <2>1 DEF PreflightSoFar, ReviewSoFar
  <2>3. PlanTyped(plan') /\ PreflightSoFar(plan') /\ ReviewSoFar(plan')
    BY <1>0, <2>1, <2>2 DEF PlanTyped, PlanFields, PreflightSoFar, ReviewSoFar
  <2> QED BY <1>0, <2>1, <2>3, ScansKeepFlags, PlanGoesOn
<1>2. ASSUME ReadAfter PROVE PlanInv'
  <2>1. CASE plan.path \notin PlanSources \/ disk[plan.path] = Missing
    <3>1. PlanReply([NoVerdict EXCEPT !.tool = "verify", !.state = "unverifiable"]) /\ Unscanned /\ landed' = landed
      BY <1>2, <2>1 DEF ReadAfter, Step
    <3>2. flagged' \subseteq Flags
      BY <3>1, ScansKeepFlags
    <3>3. "verify" # "preflight" /\ "unverifiable" # "answered"
      OBVIOUS
    <3> QED BY <3>1, <3>2, <3>3, EmptyReply, Zenon
  <2>2. CASE ~(plan.path \notin PlanSources \/ disk[plan.path] = Missing)
    <3>1. /\ plan.tool = "verify" /\ Unscanned /\ verdict' = verdict /\ landed' = landed
          /\ plan' = [plan EXCEPT !.at = "before", !.after = disk[plan.path]]
      BY <1>2, <2>2 DEF ReadAfter, Step, Running
    <3>2. PlanTyped(plan') /\ PreflightSoFar(plan') /\ ReviewSoFar(plan')
      BY <1>0, <3>1 DEF PlanTyped, PlanFields, PreflightSoFar, ReviewSoFar
    <3> QED BY <1>0, <3>1, <3>2, ScansKeepFlags, PlanGoesOn
  <2> QED BY <2>1, <2>2
<1>3. ASSUME NEW works \in BOOLEAN, ReadFinding(works) PROVE PlanInv'
  <2>1. landed' = landed /\ plan.tool \in {"plan", "verify_change"}
    BY <1>3 DEF ReadFinding, Step
  <2>2. CASE plan.id \notin flagged
    BY <1>3, <2>1, <2>2, EmptyReply, ScansKeepFlags DEF ReadFinding
  <2>3. CASE plan.id \in flagged
    <3>1. /\ plan' = [plan EXCEPT !.at = "context", !.path = FlagOf[plan.id].file] /\ verdict' = verdict
          /\ Refreshed(works)
      BY <1>3, <2>3 DEF ReadFinding
    <3>2. FlagOf[plan.id].file \in Targets
      BY <2>3, RefactorAssumption DEF PlanInv, Targets
    <3>3. PlanTyped(plan') /\ PreflightSoFar(plan') /\ ReviewSoFar(plan')
      BY <1>0, <2>1, <3>1, <3>2 DEF PlanTyped, PlanFields, PreflightSoFar, ReviewSoFar
    <3> QED BY <1>0, <2>1, <3>1, <3>3, ScansKeepFlags, PlanGoesOn
  <2> QED BY <2>2, <2>3
<1>4. ASSUME NEW works \in BOOLEAN, RecordSuggestion(works) PROVE PlanInv'
  <2>1. plan.at = "record" /\ Unscanned /\ landed' = landed
    BY <1>4 DEF RecordSuggestion, Step
  <2>2. plan.tool \notin {"preflight", "review"}
    BY <1>0, <2>1 DEF PreflightSoFar, ReviewSoFar
  <2>3. plan' = IdlePlan /\ verdict'.tool = plan.tool
    BY <1>4 DEF RecordSuggestion, PlanReply, NoVerdict
  <2>4. PlanTyped(plan)' /\ PreflightSoFar(plan)' /\ ReviewSoFar(plan)'
    BY <2>3, IdlePlanFits DEF PlanTyped, PreflightSoFar, ReviewSoFar
  <2>5. PreflightDegrades' /\ ReviewIsRanked'
    BY <2>2, <2>3 DEF PreflightDegrades, ReviewIsRanked
  <2> QED BY <1>0, <2>1, <2>4, <2>5, ScansKeepFlags DEF PlanInv
<1>5. ASSUME NEW works \in BOOLEAN, ReadBefore(works) PROVE PlanInv'
  <2>1. Unscanned /\ landed' = landed /\ plan' = IdlePlan /\ verdict'.tool = "verify"
    BY <1>5 DEF ReadBefore, Step, PlanReply, NoVerdict
  <2>2. PlanTyped(plan)' /\ PreflightSoFar(plan)' /\ ReviewSoFar(plan)'
    BY <2>1, IdlePlanFits DEF PlanTyped, PreflightSoFar, ReviewSoFar
  <2>3. PreflightDegrades' /\ ReviewIsRanked'
    BY <2>1 DEF PreflightDegrades, ReviewIsRanked
  <2> QED BY <1>0, <2>1, <2>2, <2>3, ScansKeepFlags DEF PlanInv
<1>6. ASSUME ReadFails PROVE PlanInv'
  BY <1>0, <1>6, EmptyReply, ScansKeepFlags DEF ReadFails, Step
<1> QED BY <1>1, <1>2, <1>3, <1>4, <1>5, <1>6

LEMMA AskStep ==
  ASSUME PlanInv, NEW tool, NEW id \in Flags \cup {NoPath}, NEW path \in Targets, Ask(tool, id, path)
  PROVE  PlanInv'
<1> DEFINE asked == IF path = NoPath THEN Missing ELSE head[path]
<1>1. /\ plan' = [IdlePlan EXCEPT !.tool = tool, !.at = "first", !.id = id, !.path = path, !.asked = asked]
      /\ verdict' = verdict /\ flagged' = flagged /\ landed' = landed
  BY DEF Ask
<1> HIDE DEF asked
<1>2. PlanTyped(plan') /\ PreflightSoFar(plan') /\ ReviewSoFar(plan')
  <2>1. /\ DOMAIN plan' = PlanFields /\ plan'.tool = tool /\ plan'.at = "first" /\ plan'.id = id /\ plan'.path = path
        /\ plan'.impact = Unread /\ plan'.partners = {} /\ plan'.todo = <<>> /\ plan'.health = <<>> /\ plan'.weights = <<>>
    BY <1>1 DEF IdlePlan, PlanFields
  <2>2. PlanTyped(plan')
    BY <2>1 DEF PlanTyped, Unread
  <2>3. PreflightSoFar(plan') /\ ReviewSoFar(plan')
    BY <2>1 DEF PreflightSoFar, ReviewSoFar
  <2> QED BY <2>2, <2>3
<1> QED BY <1>1, <1>2, PlanGoesOn DEF PlanInv

LEMMA PlanInvariant == RefactorSpec => []PlanInv
<1>1. RefactorInit => PlanInv
  <2> SUFFICES ASSUME RefactorInit PROVE PlanInv
    OBVIOUS
  <2>1. plan = IdlePlan /\ verdict = NoVerdict /\ landed = <<{f \in Files : disk[f] # Missing}>> /\ flagged \subseteq Flags
    BY DEF RefactorInit
  <2>2. landed \in Seq(SUBSET Files)
    BY <2>1
  <2>3. PreflightDegrades /\ ReviewIsRanked
    BY <2>1 DEF PreflightDegrades, ReviewIsRanked, NoVerdict
  <2> QED BY <2>1, <2>2, <2>3, IdlePlanFits DEF PlanInv
<1>2. PlanInv /\ [RefactorNext]_planVars => PlanInv'
  <2> SUFFICES ASSUME PlanInv, [RefactorNext]_planVars PROVE PlanInv'
    OBVIOUS
  <2>0. NoPath \in Targets /\ NoPath \in Flags \cup {NoPath} /\ \A f \in Files : f \in Targets
    BY DEF Targets
  <2>1. CASE UNCHANGED <<plan, verdict, flagged, landed>>
    BY <2>1 DEF PlanInv, PlanTyped, PreflightSoFar, ReviewSoFar, PreflightDegrades, ReviewIsRanked
  <2>2. ASSUME Commit PROVE PlanInv'
    <3>1. landed' = Append(landed, Changed(TRUE)) /\ plan' = plan /\ verdict' = verdict /\ flagged' = flagged
      BY <2>2 DEF Commit
    <3>2. Changed(TRUE) \in SUBSET Files
      BY DEF Changed
    <3> DEFINE changed == Changed(TRUE)
    <3>3. landed' \in Seq(SUBSET Files)
      <4>1. landed \in Seq(SUBSET Files)
        BY DEF PlanInv
      <4>2. changed \in SUBSET Files /\ landed' = Append(landed, changed)
        BY <3>1, <3>2
      <4> HIDE DEF changed
      <4> QED BY <4>1, <4>2
    <3>4. plan' = plan /\ verdict' = verdict /\ flagged' = flagged
      BY <3>1
    <3> QED BY <3>3, <3>4 DEF PlanInv, PlanTyped, PreflightSoFar, ReviewSoFar, PreflightDegrades, ReviewIsRanked
  <2>3. ASSUME NEW f \in Files, NEW v \in DOMAIN Content, Edit(f, v) PROVE PlanInv'
    BY <2>1, <2>3 DEF Edit
  <2>4. CASE UNCHANGED planVars
    BY <2>1, <2>4 DEF planVars
  <2>5. ASSUME NEW id \in Flags, NEW tool \in {"preflight", "plan", "verify_change"}, Ask(tool, id, NoPath) PROVE PlanInv'
    BY <2>0, <2>5, AskStep
  <2>6. ASSUME NEW f \in Files, NEW tool \in {"preflight", "health", "verify"}, Ask(tool, NoPath, f) PROVE PlanInv'
    BY <2>0, <2>6, AskStep
  <2>7. ASSUME Ask("review", NoPath, NoPath) PROVE PlanInv'
    BY <2>0, <2>7, AskStep
  <2> QED BY <2>2, <2>3, <2>4, <2>5, <2>6, <2>7, PreflightSteps, FindingSteps, AnswerStep, ScoreFileStep,
             ReadChangedStep, EnsureFindingsStep DEF RefactorNext
<1> QED BY <1>1, <1>2, PTL DEF RefactorSpec

\* Whatever is edited, committed and reindexed under it, a report about a change leaves
\* nothing out but what its bounds cut: a preflight that answers has a warning for each
\* section it could not fill, and it fails only of what is not about its input; a review
\* has every file of a diff within its limit, the first by path of a longer one, and
\* ranks each finding of each of them once (refactor_preflight, review_diff_risk).
THEOREM ReportsAreWhole == RefactorSpec => []ChangeReportsAreWhole
<1>1. PlanInv => ChangeReportsAreWhole
  BY DEF PlanInv, ChangeReportsAreWhole
<1> QED BY <1>1, PlanInvariant, PTL
-----------------------------------------------------------------------------
(* Triage: any findings, severities, rules, efforts and gates.                  *)

LEMMA GateCovers ==
  ASSUME NEW min \in 0..2, NEW all \in BOOLEAN
  PROVE  /\ Gate(min, all).headline \subseteq Findings
         /\ Gate(min, all).headline \cup Gate(min, all).deferred = Findings
BY DEF Gate

\* The list and the backlog hold every open finding, whatever the gate.
LEMMA BacklogIs ==
  ASSUME NEW min \in 0..2, NEW all \in BOOLEAN
  PROVE  Backlog(min, all) = {f \in Findings : status[f] \in Open}
BY GateCovers DEF Backlog

LEMMA GravestFirst ==
  ASSUME NEW set \in SUBSET Findings
  PROVE  BySeverity(set) \in Seq(set) /\ ToSet(BySeverity(set)) = set
<1> DEFINE Goes(a, b) == Severity[a] > Severity[b] \/ (Severity[a] = Severity[b] /\ a < b)
           R == Pairs(set, Goes)
<1>1. set \subseteq Nat /\ \A f \in set : Severity[f] \in Int
  BY TriageAssumption
<1>0. IsFiniteSet(set)
  BY TriageAssumption, FS_Subset
<1>2. R = {p \in set \X set : Goes(p[1], p[2])}
  BY DEF Pairs
<1>4. BySeverity(set) = Ranked(set, R)
  BY DEF BySeverity, Sorted
<1> HIDE DEF R
<1>3. StrictOrder(set, R)
  <2>1. \A x \in set : <<x, x>> \notin R
    BY <1>1, <1>2
  <2>2. \A x, y, z \in set : <<x, y>> \in R /\ <<y, z>> \in R => <<x, z>> \in R
    BY <1>1, <1>2
  <2>3. \A x, y \in set : x = y \/ <<x, y>> \in R \/ <<y, x>> \in R
    BY <1>1, <1>2
  <2> QED BY ONLY <2>1, <2>2, <2>3 DEF StrictOrder
<1>5. Ranked(set, R) \in Seq(set) /\ {Ranked(set, R)[i] : i \in DOMAIN Ranked(set, R)} = set
  BY <1>0, <1>3, RankedIsSequence
<1> QED BY <1>4, <1>5 DEF ToSet

LEMMA ListIs ==
  ASSUME NEW min \in 0..2, NEW all \in BOOLEAN
  PROVE  ToSet(ListRowsOf("backlog", min, all)) = {f \in Findings : status[f] \in Open}
<1> DEFINE kept == {f \in Findings : status[f] \in Open}
           A == Gate(min, all).headline \cap kept
           B == Gate(min, all).deferred \cap kept
           s == BySeverity(A)
           t == BySeverity(B)
<1>1. ListRowsOf("backlog", min, all) = s \o t
  BY DEF ListRowsOf, StatusFilter
<1>2. A \in SUBSET Findings /\ B \in SUBSET Findings /\ A \cup B = kept
  BY GateCovers
<1> HIDE DEF A, B, kept
<1>3. s \in Seq(A) /\ ToSet(s) = A /\ t \in Seq(B) /\ ToSet(t) = B
  BY <1>2, GravestFirst
<1> HIDE DEF s, t
<1>4. ToSet(s \o t) = ToSet(s) \cup ToSet(t)
  <2>1. Len(s) \in Nat /\ Len(t) \in Nat /\ DOMAIN s = 1..Len(s) /\ DOMAIN t = 1..Len(t)
    BY <1>3
  <2>2. DOMAIN (s \o t) = 1..Len(s) + Len(t)
        /\ \A i \in 1..Len(s) + Len(t) : (s \o t)[i] = IF i <= Len(s) THEN s[i] ELSE t[i - Len(s)]
    BY <1>3
  <2>3. ASSUME NEW x \in ToSet(s \o t) PROVE x \in ToSet(s) \cup ToSet(t)
    <3>1. PICK i \in 1..Len(s) + Len(t) : x = (s \o t)[i]
      BY <2>2 DEF ToSet
    <3>2. CASE i <= Len(s)
      BY <2>1, <2>2, <3>1, <3>2 DEF ToSet
    <3>3. CASE i > Len(s)
      <4>1. i - Len(s) \in DOMAIN t /\ x = t[i - Len(s)]
        BY <2>1, <2>2, <3>1, <3>3
      <4> QED BY <4>1 DEF ToSet
    <3> QED BY <2>1, <3>2, <3>3
  <2>4. ASSUME NEW i \in DOMAIN s PROVE s[i] \in ToSet(s \o t)
    <3>1. i \in DOMAIN (s \o t) /\ (s \o t)[i] = s[i]
      BY <2>1, <2>2
    <3> QED BY <3>1 DEF ToSet
  <2>5. ASSUME NEW i \in DOMAIN t PROVE t[i] \in ToSet(s \o t)
    <3>1. i + Len(s) \in DOMAIN (s \o t) /\ (s \o t)[i + Len(s)] = t[i]
      BY <2>1, <2>2
    <3> QED BY <3>1 DEF ToSet
  <2> QED BY <2>3, <2>4, <2>5 DEF ToSet
<1> QED BY <1>1, <1>2, <1>3, <1>4 DEF kept

\* What puts one finding before another, spelled out.
LEMMA BeforeIs ==
  ASSUME NEW a \in Findings, NEW b \in Findings
  PROVE  LET test(f) == IF f \in TestStructural THEN 1 ELSE 0
             info(f) == IF Severity[f] = 0 THEN 1 ELSE 0
         IN  Before(a, b) <=>
               \/ test(a) < test(b)
               \/ test(a) = test(b) /\ info(a) < info(b)
               \/ test(a) = test(b) /\ info(a) = info(b) /\ ChurnOf[a] > ChurnOf[b]
               \/ test(a) = test(b) /\ info(a) = info(b) /\ ChurnOf[a] = ChurnOf[b] /\ a < b
<1> DEFINE test(f) == IF f \in TestStructural THEN 1 ELSE 0
           info(f) == IF Severity[f] = 0 THEN 1 ELSE 0
           k(f) == <<test(f), info(f), -ChurnOf[f], f>>
<1>1. Before(a, b) <=> \E i \in 1..4 : k(a)[i] < k(b)[i] /\ \A j \in 1..i - 1 : k(a)[j] = k(b)[j]
  BY DEF Before
<1>2. ASSUME NEW f \in Findings
      PROVE  /\ test(f) \in Int /\ info(f) \in Int /\ ChurnOf[f] \in Int /\ f \in Int
             /\ k(f)[1] = test(f) /\ k(f)[2] = info(f) /\ k(f)[3] = -ChurnOf[f] /\ k(f)[4] = f
  BY TriageAssumption
<1> HIDE DEF k, test, info
<1>3. Before(a, b) <=>
        \/ k(a)[1] < k(b)[1]
        \/ k(a)[2] < k(b)[2] /\ k(a)[1] = k(b)[1]
        \/ k(a)[3] < k(b)[3] /\ k(a)[1] = k(b)[1] /\ k(a)[2] = k(b)[2]
        \/ k(a)[4] < k(b)[4] /\ k(a)[1] = k(b)[1] /\ k(a)[2] = k(b)[2] /\ k(a)[3] = k(b)[3]
  <2>1. 1..1-1 = {} /\ 1..2-1 = {1} /\ 1..3-1 = {1, 2} /\ 1..4-1 = {1, 2, 3} /\ 1..4 = {1, 2, 3, 4}
    OBVIOUS
  <2> QED BY <1>1, <2>1
<1> QED BY <1>2, <1>3 DEF test, info

LEMMA BeforeIsStrict ==
  ASSUME NEW set \in SUBSET Findings
  PROVE  StrictOrder(set, Pairs(set, Before))
<1> DEFINE test(f) == IF f \in TestStructural THEN 1 ELSE 0
           info(f) == IF Severity[f] = 0 THEN 1 ELSE 0
<1>1. ASSUME NEW f \in set
      PROVE  test(f) \in Int /\ info(f) \in Int /\ ChurnOf[f] \in Int /\ f \in Int
  BY TriageAssumption
<1>2. ASSUME NEW a \in set, NEW b \in set
      PROVE  Before(a, b) <=>
               \/ test(a) < test(b)
               \/ test(a) = test(b) /\ info(a) < info(b)
               \/ test(a) = test(b) /\ info(a) = info(b) /\ ChurnOf[a] > ChurnOf[b]
               \/ test(a) = test(b) /\ info(a) = info(b) /\ ChurnOf[a] = ChurnOf[b] /\ a < b
  BY BeforeIs
<1> HIDE DEF test, info
<1>3. \A a \in set : ~Before(a, a)
  BY <1>1, <1>2
<1>4. \A a, b, c \in set : Before(a, b) /\ Before(b, c) => Before(a, c)
  <2> SUFFICES ASSUME NEW a \in set, NEW b \in set, NEW c \in set, Before(a, b), Before(b, c)
      PROVE Before(a, c)
    OBVIOUS
  <2> QED BY <1>1, <1>2
<1>5. \A a, b \in set : a = b \/ Before(a, b) \/ Before(b, a)
  BY <1>1, <1>2
<1> QED BY <1>3, <1>4, <1>5 DEF StrictOrder, Pairs

\* The next improvement is an open finding of the headline, and no test's structure.
LEMMA NextIs ==
  ASSUME NEW min \in 0..2, NEW all \in BOOLEAN, NextImprovement(min, all) # NoFinding
  PROVE  /\ NextImprovement(min, all) \in Gate(min, all).headline \ TestStructural
         /\ status[NextImprovement(min, all)] \in Open
<1> DEFINE of(s) == {f \in Gate(min, all).headline \ TestStructural : status[f] = s}
           states == <<"regressed", "needs_review", "open", "in_progress">>
           places == {n \in DOMAIN states : of(states[n]) # {}}
           order == AtPlaces(states, places)
           set == of(Head(order))
           first == CHOOSE f \in set : \A g \in set \ {f} : Before(f, g)
<1>1. NextImprovement(min, all) = IF order = <<>> THEN NoFinding ELSE first
  BY DEF NextImprovement, Kept
<1>2. states \in Seq(Open) /\ places \in SUBSET DOMAIN states
  BY DEF Open
<1> HIDE DEF places, first
<1>3. /\ Cardinality(places) \in Nat /\ order \in Seq(Open) /\ Len(order) = Cardinality(places)
      /\ \A n \in 1..Cardinality(places) : \E p \in places : order[n] = states[p]
  <2> HIDE DEF states
  <2> QED BY <1>2, AtPlacesTyped
<1> HIDE DEF order
<1>4. order # <<>>
  BY <1>1
<1>5. Head(order) = order[1] /\ 1 \in 1..Cardinality(places) /\ Head(order) \in Open
  BY <1>3, <1>4
<1>6. set # {} /\ set \in SUBSET Findings
  BY <1>3, <1>5, GateCovers DEF places
<1>7. IsFiniteSet(set) /\ StrictOrder(set, Pairs(set, Before))
  <2> HIDE DEF set
  <2> QED BY <1>6, BeforeIsStrict, FS_Subset, TriageAssumption
<1>8. \E f \in set : \A g \in set : g = f \/ <<f, g>> \in Pairs(set, Before)
  <2> HIDE DEF set
  <2> QED BY <1>6, <1>7, FirstOfOrder
<1>9. first \in set
  <2> HIDE DEF set
  <2>1. \E f \in set : \A g \in set \ {f} : Before(f, g)
    BY <1>8 DEF Pairs
  <2> QED BY <2>1 DEF first
<1> QED BY <1>1, <1>4, <1>5, <1>9

ClusterOf(planned, f) == {g \in planned : Rule[g] = Rule[f] /\ Dir[g] = Dir[f]}

\* The clusters part the planned findings.
LEMMA ClustersPart ==
  ASSUME NEW min \in 0..2, NEW all \in BOOLEAN
  PROVE  /\ IsFiniteSet(Clusters(min, all))
         /\ \A c \in Clusters(min, all) : c # {} /\ c \subseteq Findings /\ IsFiniteSet(c)
         /\ \A c, d \in Clusters(min, all) : c = d \/ c \cap d = {}
         /\ \A f \in Gate(min, all).headline : status[f] \in Open => \E c \in Clusters(min, all) : f \in c
<1> DEFINE planned == {f \in Gate(min, all).headline : status[f] \in Open}
           of == [f \in planned |-> ClusterOf(planned, f)]
<1>1. Clusters(min, all) = {of[f] : f \in planned}
  BY DEF Clusters, ClusterOf
<1>2. planned \subseteq Findings /\ IsFiniteSet(planned)
  BY GateCovers, TriageAssumption, FS_Subset
<1>3. \A f \in planned : of[f] = {g \in planned : Rule[g] = Rule[f] /\ Dir[g] = Dir[f]}
  BY DEF ClusterOf
<1>4. \A f \in planned : f \in of[f] /\ of[f] \subseteq planned
  BY <1>3
<1>5. \A f, g \in planned : of[f] = of[g] \/ of[f] \cap of[g] = {}
  <2> SUFFICES ASSUME NEW f \in planned, NEW g \in planned, NEW h \in of[f] \cap of[g] PROVE of[f] = of[g]
    OBVIOUS
  <2>1. Rule[h] = Rule[f] /\ Dir[h] = Dir[f] /\ Rule[h] = Rule[g] /\ Dir[h] = Dir[g]
    BY <1>3
  <2>2. /\ of[f] = {i \in planned : Rule[i] = Rule[f] /\ Dir[i] = Dir[f]}
        /\ of[g] = {i \in planned : Rule[i] = Rule[g] /\ Dir[i] = Dir[g]}
    BY <1>3
  <2>3. Rule[f] = Rule[g] /\ Dir[f] = Dir[g]
    BY <2>1
  <2> HIDE DEF of, planned
  <2> QED BY <2>2, <2>3
<1>6. \A f \in Gate(min, all).headline : status[f] \in Open => f \in planned
  OBVIOUS
<1> HIDE DEF planned, of
<1>7. IsFiniteSet({of[f] : f \in planned})
  BY <1>2, ImageIsFinite
<1>8. \A c \in Clusters(min, all) : c # {} /\ c \subseteq planned
  BY <1>1, <1>4
<1>9. \A c \in Clusters(min, all) : IsFiniteSet(c) /\ c \subseteq Findings
  BY <1>2, <1>8, FS_Subset
<1> QED BY <1>1, <1>4, <1>5, <1>6, <1>7, <1>8, <1>9

LEMMA RoiTyped ==
  ASSUME NEW c \in SUBSET Findings, c # {}
  PROVE  Roi(c) \in Int
<1> DEFINE weight(f) == (IF Severity[f] = 0 THEN 1 ELSE 3) * Confidence[f]
           member == Ranked(c, Pairs(c, <))
           weights == [n \in 1..Cardinality(c) |-> weight(member[n])]
           one == CHOOSE f \in c : TRUE
           effort == Effort[Rule[one]]
<1>1. IsFiniteSet(c) /\ Cardinality(c) \in Nat /\ Cardinality(c) # 0
  BY TriageAssumption, FS_Subset, FS_CardinalityType, FS_EmptySet
<1>2. StrictOrder(c, Pairs(c, <))
  BY TriageAssumption DEF StrictOrder, Pairs
<1>3. member \in [1..Cardinality(c) -> c]
  <2>1. member \in Bijection(1..Cardinality(c), c)
    BY <1>1, <1>2, RankedSorts
  <2> QED BY <2>1 DEF Bijection, Injection
<1>4. \A f \in c : weight(f) \in Int
  <2> TAKE f \in c
  <2>1. Confidence[f] \in Int
    BY TriageAssumption
  <2> QED BY <2>1
<1>5. Gain(c) = Total(weights)
  BY DEF Gain, Sorted
<1>6. weights \in Seq(Int)
  <2> HIDE DEF weight, member
  <2> QED BY <1>1, <1>3, <1>4
<1>7. Gain(c) \in Int
  <2> HIDE DEF weights
  <2> QED BY <1>5, <1>6, TotalTyped
<1>8. one \in c
  OBVIOUS
<1>9. effort.base \in Nat \ {0} /\ effort.more \in Nat
  <2> HIDE DEF one
  <2> QED BY <1>8, TriageAssumption
<1>10. Points(c) = effort.base * (10 + (Cardinality(c) - 1) * effort.more)
  BY DEF Points
<1> HIDE DEF effort
<1>11. (Cardinality(c) - 1) * effort.more \in Nat
  BY <1>1, <1>9
<1>12. ASSUME NEW p \in Nat \ {0}, NEW q \in Nat PROVE p * (10 + q) \in Nat \ {0}
  BY <1>12
<1>13. Points(c) \in Nat \ {0}
  BY <1>9, <1>10, <1>11, <1>12
<1> QED BY <1>7, <1>13 DEF Roi

LEMMA ClusterOrderIsStrict ==
  ASSUME NEW C, IsFiniteSet(C), \A c \in C : c # {} /\ c \subseteq Findings /\ IsFiniteSet(c),
         \A c, d \in C : c = d \/ c \cap d = {}
  PROVE  StrictOrder(C, Pairs(C, ClusterBefore))
<1>1. \A c \in C : Roi(c) \in Int
  BY RoiTyped
<1>2. \A c \in C : Min(c) \in c /\ Min(c) \in Int
  <2> TAKE c \in C
  <2>1. c \in SUBSET Int
    BY TriageAssumption
  <2> QED BY <2>1, MinOfFinite
<1>3. \A c, d \in C : Min(c) = Min(d) => c = d
  BY <1>2
<1>4. \A c \in C : Deprioritized(c) \in BOOLEAN
  BY DEF Deprioritized
<1>5. \A a \in C : ~ClusterBefore(a, a)
  BY <1>1, <1>2 DEF ClusterBefore
<1>6. ASSUME NEW a \in C, NEW b \in C, NEW c \in C, ClusterBefore(a, b), ClusterBefore(b, c)
      PROVE  ClusterBefore(a, c)
  BY <1>1, <1>2, <1>4, <1>6 DEF ClusterBefore
<1>7. ASSUME NEW a \in C, NEW b \in C, a # b
      PROVE  ClusterBefore(a, b) \/ ClusterBefore(b, a)
  <2>1. Min(a) # Min(b)
    BY <1>3, <1>7
  <2> QED BY <1>1, <1>2, <1>4, <2>1 DEF ClusterBefore
<1>8. \A a, b \in C : <<a, b>> \in Pairs(C, ClusterBefore) <=> ClusterBefore(a, b)
  BY DEF Pairs
<1> QED BY <1>5, <1>6, <1>7, <1>8 DEF StrictOrder

\* While no cluster has more files than it names, only one that is all test structure
\* goes last.
LEMMA NamesAll ==
  ASSUME NEW c \in SUBSET Findings, Cardinality(c) <= MemberLimit
  PROVE  Deprioritized(c) <=> c \subseteq TestStructural
<1>1. IsFiniteSet(c) /\ Cardinality(c) \in Nat /\ MemberLimit \in Nat
  BY TriageAssumption, FS_Subset, FS_CardinalityType
<1>2. ASSUME NEW f \in c
      PROVE  Cardinality({g \in c : g < f}) < MemberLimit
  <2> DEFINE A == {g \in c : g < f}
  <2>1. A \in SUBSET c /\ f \notin A
    BY TriageAssumption
  <2>2. Cardinality(A) \in Nat /\ Cardinality(A) <= Cardinality(c) /\ (Cardinality(A) = Cardinality(c) => A = c)
    <3> HIDE DEF A
    <3> QED BY <1>1, <2>1, FS_Subset, FS_CardinalityType
  <2> QED BY <1>1, <2>1, <2>2
<1>3. Named(c) = c
  BY <1>2 DEF Named
<1> QED BY <1>3 DEF Deprioritized

\* The plan lists each cluster once, those that go last after the others.
LEMMA PlanIs ==
  ASSUME NEW min \in 0..2, NEW all \in BOOLEAN
  PROVE  LET campaign == ImprovementPlan(min, all) IN
         /\ campaign \in Seq(Clusters(min, all))
         /\ ToSet(campaign) = Clusters(min, all)
         /\ \A i, j \in DOMAIN campaign : i # j => campaign[i] \cap campaign[j] = {}
         /\ \A i, j \in DOMAIN campaign : i < j /\ Deprioritized(campaign[i]) => Deprioritized(campaign[j])
<1> DEFINE C == Clusters(min, all)
           R == Pairs(C, ClusterBefore)
           campaign == Ranked(C, R)
<1>1. ImprovementPlan(min, all) = campaign
  BY DEF ImprovementPlan, Sorted
<1>2. /\ IsFiniteSet(C) /\ \A c \in C : c # {} /\ c \subseteq Findings /\ IsFiniteSet(c)
      /\ \A c, d \in C : c = d \/ c \cap d = {}
  BY ClustersPart
<1> HIDE DEF C
<1>3. StrictOrder(C, R)
  BY <1>2, ClusterOrderIsStrict
<1>4. \A a, b \in C : <<a, b>> \in R => ClusterBefore(a, b)
  BY DEF Pairs
<1> HIDE DEF R
<1>5. /\ campaign \in Seq(C) /\ {campaign[i] : i \in DOMAIN campaign} = C
      /\ \A i, j \in DOMAIN campaign : i < j => <<campaign[i], campaign[j]>> \in R
  BY <1>2, <1>3, RankedIsSequence
<1> HIDE DEF campaign
<1>6. \A i \in DOMAIN campaign : campaign[i] \in C /\ i \in Int
  BY <1>5
<1>7. ASSUME NEW i \in DOMAIN campaign, NEW j \in DOMAIN campaign, i # j
      PROVE  campaign[i] \cap campaign[j] = {}
  <2>1. i < j \/ j < i
    BY <1>6, <1>7
  <2>2. campaign[i] # campaign[j]
    BY <1>3, <1>5, <1>6, <2>1 DEF StrictOrder
  <2> QED BY <1>2, <1>6, <2>2
<1>8. ASSUME NEW i \in DOMAIN campaign, NEW j \in DOMAIN campaign, i < j, Deprioritized(campaign[i])
      PROVE  Deprioritized(campaign[j])
  <2>1. ClusterBefore(campaign[i], campaign[j])
    BY <1>4, <1>5, <1>6, <1>8
  <2> QED BY <1>8, <2>1 DEF ClusterBefore
<1> QED BY <1>1, <1>5, <1>7, <1>8 DEF C, ToSet

\* Any two views of the same table agree, at every moment (get_next_improvement,
\* get_backlog, list_findings and get_improvement_plan).
LEMMA ViewsAgree == TriageViewsAgree
<1> SUFFICES ASSUME NEW min \in 0..2
    PROVE LET next == NextImprovement(min, FALSE)
              campaign == ImprovementPlan(min, FALSE)
          IN /\ next # NoFinding => next \in Backlog(min, FALSE) \ TestStructural
             /\ ToSet(ListRowsOf("backlog", min, FALSE)) = Backlog(0, TRUE)
             /\ \A i, j \in DOMAIN campaign : i # j => campaign[i] \cap campaign[j] = {}
             /\ next # NoFinding /\ (\A i \in DOMAIN campaign : Cardinality(campaign[i]) <= MemberLimit) =>
                  campaign # <<>> /\ ~(campaign[1] \subseteq TestStructural)
  BY DEF TriageViewsAgree
<1> DEFINE next == NextImprovement(min, FALSE)
           campaign == ImprovementPlan(min, FALSE)
<1>1. next # NoFinding => /\ next \in Gate(min, FALSE).headline \ TestStructural
                          /\ status[next] \in Open /\ next \in Findings
  BY NextIs, GateCovers
<1>2. next # NoFinding => next \in Backlog(min, FALSE) \ TestStructural
  BY <1>1, BacklogIs
<1>3. ToSet(ListRowsOf("backlog", min, FALSE)) = Backlog(0, TRUE)
  <2>1. FALSE \in BOOLEAN /\ TRUE \in BOOLEAN /\ 0 \in 0..2
    OBVIOUS
  <2>2. ToSet(ListRowsOf("backlog", min, FALSE)) = {f \in Findings : status[f] \in Open}
    BY <2>1, ListIs
  <2>3. Backlog(0, TRUE) = {f \in Findings : status[f] \in Open}
    BY <2>1, BacklogIs
  <2> QED BY <2>2, <2>3
<1>4. /\ campaign \in Seq(Clusters(min, FALSE)) /\ ToSet(campaign) = Clusters(min, FALSE)
      /\ \A i, j \in DOMAIN campaign : i # j => campaign[i] \cap campaign[j] = {}
      /\ \A i, j \in DOMAIN campaign : i < j /\ Deprioritized(campaign[i]) => Deprioritized(campaign[j])
  BY PlanIs
<1> HIDE DEF campaign, next
<1>5. ASSUME next # NoFinding, \A i \in DOMAIN campaign : Cardinality(campaign[i]) <= MemberLimit
      PROVE  campaign # <<>> /\ ~(campaign[1] \subseteq TestStructural)
  <2>0. next \in Gate(min, FALSE).headline /\ status[next] \in Open /\ FALSE \in BOOLEAN
    BY <1>1, <1>5
  <2>1. PICK c \in Clusters(min, FALSE) : next \in c
    BY <2>0, ClustersPart
  <2>2. PICK n \in DOMAIN campaign : campaign[n] = c
    BY <1>4 DEF ToSet
  <2>3. 1 \in DOMAIN campaign /\ campaign # <<>> /\ n \in Nat /\ n >= 1
    BY <1>4, <2>2
  <2>4. ASSUME NEW i \in DOMAIN campaign PROVE Deprioritized(campaign[i]) <=> campaign[i] \subseteq TestStructural
    <3> DEFINE C == Clusters(min, FALSE)
    <3>0. campaign \in Seq(C)
      BY <1>4
    <3> HIDE DEF C
    <3>1. campaign[i] \in C
      BY <3>0
    <3>2. campaign[i] \in SUBSET Findings
      BY <3>1, ClustersPart DEF C
    <3> QED BY <1>5, <3>2, NamesAll
  <2>5. ~(campaign[n] \subseteq TestStructural)
    BY <1>1, <1>5, <2>1, <2>2
  <2>6. ~Deprioritized(campaign[1])
    BY <1>4, <2>2, <2>3, <2>4, <2>5
  <2> QED BY <2>3, <2>4, <2>6
<1> QED BY <1>2, <1>3, <1>4, <1>5 DEF campaign, next

\* A passing run that a brief has read stays recorded until a scan drops it.
ResumeInv ==
  /\ DOMAIN resume = {"at", "rows", "acted", "good", "todo"}
  /\ passed \subseteq ran
  /\ resume.good \subseteq passed \cup dropped /\ resume.good \cap resume.todo = {}
  /\ resume.todo \subseteq Findings
  /\ resume.at # "done" => brief.state # "verified_unresolved"
  /\ ResumeAdviceWorks

LEMMA ResumeInvariant == TriageSpec => []ResumeInv
<1>1. TriageInit => ResumeInv
  BY DEF TriageInit, ResumeInv, NoResume, NoBrief, ResumeAdviceWorks
<1>2. ResumeInv /\ [TriageNext]_triageVars => ResumeInv'
  <2> SUFFICES ASSUME ResumeInv, [TriageNext]_triageVars PROVE ResumeInv'
    OBVIOUS
  <2>1. ASSUME UNCHANGED <<resume, brief>>, passed' \subseteq ran',
               passed \cup dropped \subseteq passed' \cup dropped'
        PROVE  ResumeInv'
    BY <2>1 DEF ResumeInv, ResumeAdviceWorks
  <2>2. CASE ResumeReadsFindings
    BY <2>2 DEF ResumeReadsFindings, ResumeInv, ResumeAdviceWorks
  <2>3. CASE ResumeReadsRuns
    <3> DEFINE f == Min(resume.todo)
               acted == IF f \in ran /\ ~Contains(resume.acted, f) THEN Append(resume.acted, f) ELSE resume.acted
               good == IF f \in passed THEN resume.good \cup {f} ELSE resume.good
    <3>1. /\ resume' = [resume EXCEPT !.todo = @ \ {f}, !.good = good, !.acted = acted]
          /\ UNCHANGED <<passed, ran, brief>> /\ dropped' = dropped \ {f}
          /\ resume.at = "runs" /\ resume.todo # {}
      BY <2>3 DEF ResumeReadsRuns
    <3>2. /\ DOMAIN resume' = DOMAIN resume /\ resume'.good = good
          /\ resume'.at = "runs" /\ resume'.todo = resume.todo \ {f}
      <4> HIDE DEF f, acted, good
      <4> QED BY <3>1 DEF ResumeInv
    <3>3. f \in resume.todo
      <4>1. resume.todo \subseteq Int /\ IsFiniteSet(resume.todo)
        <5>1. Findings \subseteq Nat /\ IsFiniteSet(Findings)
          BY TriageAssumption
        <5>2. resume.todo \subseteq Findings
          BY DEF ResumeInv
        <5>3. IsFiniteSet(resume.todo)
          BY <5>1, <5>2, FS_Subset
        <5>4. \A g \in Findings : g \in Int
          BY <5>1
        <5>5. ASSUME NEW g \in resume.todo PROVE g \in Int
          <6>1. g \in Findings
            BY <5>2
          <6> QED BY <5>4, <6>1
        <5> QED BY <5>3, <5>5
      <4> QED BY <3>1, <4>1, MinOfFinite
    <3>4. good \subseteq passed \cup (dropped \ {f}) /\ good \cap (resume.todo \ {f}) = {}
      BY <3>3 DEF ResumeInv
    <3> QED BY <3>1, <3>2, <3>4 DEF ResumeInv, ResumeAdviceWorks
  <2>4. CASE ResumeAnswers
    <3>1. brief'.state = "verified_unresolved" => brief'.top \in resume.good
      BY <2>4 DEF ResumeAnswers
    <3>2. resume' = [resume EXCEPT !.at = "done"] /\ UNCHANGED <<passed, ran, dropped>>
      BY <2>4 DEF ResumeAnswers
    <3>3. resume'.at = "done" /\ resume'.good = resume.good /\ resume'.todo = resume.todo
          /\ DOMAIN resume' = DOMAIN resume
      BY <3>2 DEF ResumeInv
    <3> QED BY <3>1, <3>2, <3>3 DEF ResumeInv, ResumeAdviceWorks
  <2>5. ASSUME NEW f \in Findings, NEW e \in {0, 1}, RecordRun(f, e) PROVE ResumeInv'
    <3>1. /\ passed' \subseteq ran' /\ passed \cup dropped \subseteq passed' \cup dropped'
          /\ UNCHANGED <<resume, brief>>
      BY <2>5 DEF RecordRun, ResumeInv
    <3> QED BY <2>1, <3>1
  <2>6. ASSUME NEW gone \in SUBSET Findings, NEW back \in SUBSET Findings, NEW changed \in SUBSET Findings,
               RescanScans(gone, back, changed)
        PROVE  ResumeInv'
    <3>1. /\ passed' = passed \ changed /\ ran' = ran \ changed
          /\ dropped' = dropped \cup (ran \cap changed) /\ UNCHANGED <<resume, brief>>
      BY <2>6, Zenon DEF RescanScans
    <3>2. passed' \subseteq ran' /\ passed \cup dropped \subseteq passed' \cup dropped'
      BY <3>1 DEF ResumeInv
    <3> QED BY <2>1, <3>1, <3>2
  <2>7. ASSUME UNCHANGED <<passed, ran, dropped, resume, brief>> PROVE ResumeInv'
    BY <2>1, <2>7 DEF ResumeInv
  <2> QED BY <2>2, <2>3, <2>4, <2>5, <2>6, <2>7 DEF TriageNext, triageVars, Mark, CallTool,
        RescanReports, ListFindings, GetPlan, BoundedList
<1> QED BY <1>1, <1>2, PTL DEF TriageSpec

\* What the tools advise from the findings table keeps and does not contradict itself,
\* whatever the findings and however the calls interleave: a finding a brief calls
\* verified is one mark_finding resolves, unless a scan since the brief read its runs
\* dropped them because the body changed; and the views agree.
THEOREM AdviceIsConsistent == TriageSpec => []TriageIsConsistent
<1>1. ResumeInv => TriageIsConsistent
  BY ViewsAgree DEF ResumeInv, TriageIsConsistent
<1> QED BY <1>1, ResumeInvariant, PTL

-----------------------------------------------------------------------------
(* structural_duplicates: the fingerprint, and the groups it makes.            *)

\* A sequence as far as its places go: what is at them may be anything.
IsTokens(tokens) == tokens \in Seq(ToSet(tokens))

LEMMA TokensAreSequence ==
  ASSUME NEW tokens, IsTokens(tokens)
  PROVE  Len(tokens) \in Nat /\ DOMAIN tokens = 1..Len(tokens)
BY DEF IsTokens

LEMMA LengthOfDomain ==
  ASSUME NEW n \in Nat, NEW k \in Nat, 1..n = 1..k
  PROVE  n = k
<1>1. ASSUME n # 0 PROVE n \in 1..k
  BY <1>1
<1>2. ASSUME k # 0 PROVE k \in 1..n
  BY <1>2
<1> QED BY <1>1, <1>2

\* The place where a name occurs first: there is one, and it is the only one with the name.
LEMMA FirstPlaceIs ==
  ASSUME NEW tokens, IsTokens(tokens), NEW i \in 1..Len(tokens), HasName(tokens[i])
  PROVE  /\ FirstPlace(tokens, i) \in FirstPlaces(tokens)
         /\ tokens[FirstPlace(tokens, i)].name = tokens[i].name
         /\ \A j \in FirstPlaces(tokens) : tokens[j].name = tokens[i].name => j = FirstPlace(tokens, i)
<1> DEFINE Same == {j \in 1..Len(tokens) : tokens[j].name = tokens[i].name}
<1>1. Len(tokens) \in Nat
  BY TokensAreSequence
<1>2. Min(Same) \in Same /\ \A j \in Same : Min(Same) <= j
  <2>1. Same \subseteq 1..Len(tokens) /\ i \in Same /\ Same \subseteq Int
    BY <1>1
  <2>2. IsFiniteSet(Same)
    <3>1. IsFiniteSet(1..Len(tokens))
      BY <1>1, FS_Interval
    <3> HIDE DEF Same
    <3> QED BY <2>1, <3>1, FS_Subset
  <2> HIDE DEF Same
  <2> QED BY <2>1, <2>2, MinOfFinite
<1>3. Min(Same) \in FirstPlaces(tokens) /\ tokens[Min(Same)].name = tokens[i].name
  <2> DEFINE m == Min(Same)
  <2>1. m \in 1..Len(tokens) /\ tokens[m].name = tokens[i].name /\ \A j \in 1..Len(tokens) : tokens[j].name = tokens[i].name => m <= j
    BY <1>2
  <2> HIDE DEF m
  <2>2. \A k \in 1..m - 1 : k \in 1..Len(tokens) /\ k < m
    BY <1>1, <2>1
  <2>3. \A k \in 1..m - 1 : tokens[k].name # tokens[m].name
    <3> SUFFICES ASSUME NEW k \in 1..m - 1, tokens[k].name = tokens[m].name PROVE FALSE
      OBVIOUS
    <3>1. k \in 1..Len(tokens) /\ k < m
      BY <2>2
    <3>2. m <= k
      BY <2>1, <3>1
    <3>3. m \in Int /\ k \in Int
      BY <1>1, <2>1, <3>1
    <3> QED BY <3>1, <3>2, <3>3
  <2>4. HasName(tokens[m])
    BY <2>1 DEF HasName
  <2>5. m \in FirstPlaces(tokens)
    BY <2>1, <2>3, <2>4 DEF FirstPlaces
  <2> QED BY <2>1, <2>5 DEF m
<1> HIDE DEF Same
<1>4. FirstPlace(tokens, i) \in FirstPlaces(tokens) /\ tokens[FirstPlace(tokens, i)].name = tokens[i].name
  BY <1>3 DEF FirstPlace
<1>5. \A j, k \in FirstPlaces(tokens) : tokens[j].name = tokens[k].name => j = k
  <2> SUFFICES ASSUME NEW j \in FirstPlaces(tokens), NEW k \in FirstPlaces(tokens),
                      tokens[j].name = tokens[k].name, j < k
               PROVE  FALSE
    BY <1>1 DEF FirstPlaces
  <2> j \in 1..k - 1
    BY <1>1 DEF FirstPlaces
  <2> QED BY DEF FirstPlaces
<1> QED BY <1>4, <1>5

\* Two names have one number exactly when they are the same.
LEMMA NumberTellsNames ==
  ASSUME NEW tokens, IsTokens(tokens),
         NEW i \in 1..Len(tokens), NEW j \in 1..Len(tokens), HasName(tokens[i]), HasName(tokens[j])
  PROVE  /\ Number(tokens, i) \in Nat
         /\ Number(tokens, i) = Number(tokens, j) <=> tokens[i].name = tokens[j].name
<1> DEFINE First == FirstPlaces(tokens)
           R == {p \in First \X First : p[1] < p[2]}
           Earlier(n) == {k \in First : <<k, n>> \in R}
<1>1. First \subseteq Int /\ IsFiniteSet(First)
  <2>1. Len(tokens) \in Nat /\ First \subseteq 1..Len(tokens)
    BY TokensAreSequence DEF FirstPlaces
  <2>2. IsFiniteSet(1..Len(tokens)) /\ 1..Len(tokens) \subseteq Int
    BY <2>1, FS_Interval
  <2> HIDE DEF First
  <2> QED BY <2>1, <2>2, FS_Subset
<1>2. StrictOrder(First, R)
  BY <1>1 DEF StrictOrder
<1>3. \A n \in First : Earlier(n) = {k \in First : k < n}
  OBVIOUS
<1>4. \A n, m \in First : n < m => Cardinality(Earlier(n)) < Cardinality(Earlier(m))
  <2> TAKE n, m \in First
  <2> HAVE n < m
  <2> <<n, m>> \in R
    OBVIOUS
  <2> HIDE DEF First, R
  <2> QED BY <1>1, <1>2, RankGrows
<1>5. \A n \in First : Cardinality(Earlier(n)) \in Nat
  <2> TAKE n \in First
  <2> Earlier(n) \subseteq First
    OBVIOUS
  <2> HIDE DEF First, Earlier
  <2> QED BY <1>1, FS_Subset, FS_CardinalityType
<1> HIDE DEF R
<1>6. /\ FirstPlace(tokens, i) \in First /\ tokens[FirstPlace(tokens, i)].name = tokens[i].name
      /\ FirstPlace(tokens, j) \in First /\ tokens[FirstPlace(tokens, j)].name = tokens[j].name
      /\ tokens[i].name = tokens[j].name => FirstPlace(tokens, i) = FirstPlace(tokens, j)
  BY FirstPlaceIs
<1>7. Number(tokens, i) = Cardinality(Earlier(FirstPlace(tokens, i)))
      /\ Number(tokens, j) = Cardinality(Earlier(FirstPlace(tokens, j)))
  BY <1>3, <1>6 DEF Number
<1> HIDE DEF First, Earlier
<1>8. Number(tokens, i) \in Nat
  BY <1>5, <1>6, <1>7
<1>9. ASSUME Number(tokens, i) = Number(tokens, j) PROVE tokens[i].name = tokens[j].name
  <2>1. FirstPlace(tokens, i) \in Int /\ FirstPlace(tokens, j) \in Int
    BY <1>1, <1>6
  <2>2. Cardinality(Earlier(FirstPlace(tokens, i))) = Cardinality(Earlier(FirstPlace(tokens, j)))
        /\ Cardinality(Earlier(FirstPlace(tokens, j))) \in Nat
    BY <1>5, <1>6, <1>7, <1>9
  <2>4. ~(FirstPlace(tokens, i) < FirstPlace(tokens, j)) /\ ~(FirstPlace(tokens, j) < FirstPlace(tokens, i))
    <3>1. /\ FirstPlace(tokens, i) < FirstPlace(tokens, j) =>
              Cardinality(Earlier(FirstPlace(tokens, i))) < Cardinality(Earlier(FirstPlace(tokens, j)))
          /\ FirstPlace(tokens, j) < FirstPlace(tokens, i) =>
              Cardinality(Earlier(FirstPlace(tokens, j))) < Cardinality(Earlier(FirstPlace(tokens, i)))
      BY <1>4, <1>6
    <3> QED BY ONLY <2>2, <3>1
  <2>3. FirstPlace(tokens, i) = FirstPlace(tokens, j)
    BY <2>1, <2>4
  <2> QED BY <1>6, <2>3
<1> QED BY <1>6, <1>7, <1>8, <1>9

\* Two token lists have one fingerprint exactly when renaming makes them equal.
LEMMA FingerprintTellsRenamings ==
  ASSUME NEW a, NEW b, IsTokens(a), IsTokens(b)
  PROVE  Fingerprint(a) = Fingerprint(b) <=> Alike(a, b)
<1>1. /\ Len(a) \in Nat /\ DOMAIN a = 1..Len(a)
      /\ Len(b) \in Nat /\ DOMAIN b = 1..Len(b)
  BY TokensAreSequence
<1>2. ASSUME Fingerprint(a) = Fingerprint(b) PROVE Alike(a, b)
  <2>1. DOMAIN a = DOMAIN b
    BY <1>2 DEF Fingerprint
  <2>2. Len(a) = Len(b)
    BY <1>1, <2>1, LengthOfDomain
  <2>3. \A i \in DOMAIN a : Fingerprint(a)[i] = Fingerprint(b)[i]
    BY <1>2
  <2>4. \A i \in DOMAIN a : /\ a[i].node = b[i].node
                            /\ (IF HasName(a[i]) THEN Number(a, i) + 1 ELSE 0)
                               = (IF HasName(b[i]) THEN Number(b, i) + 1 ELSE 0)
    BY <2>1, <2>3 DEF Fingerprint
  <2>5. \A i \in DOMAIN a : (HasName(a[i]) => Number(a, i) \in Nat) /\ (HasName(b[i]) => Number(b, i) \in Nat)
    BY <1>1, <2>1, NumberTellsNames
  <2>6. \A i \in DOMAIN a : (HasName(a[i]) <=> HasName(b[i])) /\ (HasName(a[i]) => Number(a, i) = Number(b, i))
    BY <2>4, <2>5
  <2>7. \A i, j \in DOMAIN a : a[i].name = a[j].name <=> b[i].name = b[j].name
    <3> TAKE i, j \in DOMAIN a
    <3>1. CASE ~(HasName(a[i]) /\ HasName(a[j]))
      BY <2>6, <3>1 DEF HasName
    <3>2. CASE HasName(a[i]) /\ HasName(a[j])
      <4>1. HasName(b[i]) /\ HasName(b[j]) /\ Number(a, i) = Number(b, i) /\ Number(a, j) = Number(b, j)
        BY <2>6, <3>2
      <4>2. Number(a, i) = Number(a, j) <=> a[i].name = a[j].name
        BY <1>1, <3>2, NumberTellsNames
      <4>3. Number(b, i) = Number(b, j) <=> b[i].name = b[j].name
        BY <1>1, <2>1, <4>1, NumberTellsNames
      <4> QED BY <4>1, <4>2, <4>3
    <3> QED BY <3>1, <3>2
  <2> QED BY <2>2, <2>4, <2>6, <2>7 DEF Alike
<1>3. ASSUME Alike(a, b) PROVE Fingerprint(a) = Fingerprint(b)
  <2>1. DOMAIN a = DOMAIN b /\ Len(a) = Len(b)
    BY <1>1, <1>3 DEF Alike
  <2>2. \A i \in DOMAIN a : a[i].node = b[i].node /\ (HasName(a[i]) <=> HasName(b[i]))
    BY <1>3 DEF Alike
  <2>3. \A i, j \in DOMAIN a : a[i].name = a[j].name <=> b[i].name = b[j].name
    BY <1>3 DEF Alike
  <2>4. FirstPlaces(a) = FirstPlaces(b)
    <3>1. \A j \in 1..Len(a) : \A k \in 1..j - 1 : j \in DOMAIN a /\ k \in DOMAIN a
      BY <1>1
    <3>2. \A j \in 1..Len(a) : (\A k \in 1..j - 1 : a[k].name # a[j].name) <=> (\A k \in 1..j - 1 : b[k].name # b[j].name)
      BY <2>3, <3>1
    <3>3. \A j \in 1..Len(a) : HasName(a[j]) <=> HasName(b[j])
      BY <1>1, <2>2
    <3> QED BY <2>1, <3>2, <3>3 DEF FirstPlaces
  <2>5. \A i \in DOMAIN a : HasName(a[i]) => Number(a, i) = Number(b, i)
    <3> TAKE i \in DOMAIN a
    <3> HAVE HasName(a[i])
    <3>1. i \in 1..Len(a) /\ i \in 1..Len(b) /\ HasName(b[i])
      BY <1>1, <2>1, <2>2
    <3>2. FirstPlace(a, i) \in FirstPlaces(a) /\ a[FirstPlace(a, i)].name = a[i].name
      BY <3>1, FirstPlaceIs
    <3>3. \A j \in FirstPlaces(b) : b[j].name = b[i].name => j = FirstPlace(b, i)
      BY <3>1, FirstPlaceIs
    <3>4. FirstPlace(a, i) \in DOMAIN a
      BY <1>1, <3>2 DEF FirstPlaces
    <3>5. b[FirstPlace(a, i)].name = b[i].name
      BY <2>3, <3>2, <3>4
    <3>6. FirstPlace(a, i) = FirstPlace(b, i)
      BY <2>4, <3>2, <3>3, <3>5
    <3> QED BY <2>4, <3>6 DEF Number
  <2>6. \A i \in DOMAIN a : <<a[i].node, IF HasName(a[i]) THEN Number(a, i) + 1 ELSE 0>>
                          = <<b[i].node, IF HasName(b[i]) THEN Number(b, i) + 1 ELSE 0>>
    BY <2>2, <2>5
  <2> QED BY <2>1, <2>6 DEF Fingerprint
<1> QED BY <1>2, <1>3

PrintOf(s) == Fingerprint(TokensAt(s))
At(s) == [file |-> s[1], line |-> trees[s[1]][s[2]].line]
Members(key) == {s \in Met : PrintOf(s) = key}

DupTyped ==
  /\ trees \in [1..FileCount -> Trees]
  /\ grouped \in 0..FileCount /\ visited \in Nat
  /\ grouped < FileCount => visited <= Len(trees[grouped + 1])

\* A group is there for each fingerprint met; it counts its members and has kept the place
\* of as many of them as it may, each once.
GroupHolds(key) ==
  /\ counts[key] = Cardinality(Members(key)) /\ counts[key] \in Nat
  /\ locations[key] \in Seq({At(s) : s \in Members(key)})
  /\ Len(locations[key]) = IF counts[key] < MaxLocations THEN counts[key] ELSE MaxLocations
  /\ \A i, j \in DOMAIN locations[key] : locations[key][i] = locations[key][j] => i = j
GroupsHold ==
  /\ IsFiniteSet(Met)
  /\ DOMAIN counts = {PrintOf(s) : s \in Met} /\ DOMAIN locations = DOMAIN counts
  /\ \A key \in DOMAIN counts : GroupHolds(key)

DupInv == DupTyped /\ GroupsHold /\ EvidenceIsComplete

\* What a repository may hold is of sequences, and functions start on lines of their own.
LEMMA TreesAre ==
  ASSUME DupTyped, NEW f \in 1..FileCount
  PROVE  /\ Len(trees[f]) \in Nat /\ DOMAIN trees[f] = 1..Len(trees[f])
         /\ \A i \in 1..Len(trees[f]) : trees[f][i].line \in Nat /\ IsTokens(trees[f][i].tokens)
         /\ \A i, j \in 1..Len(trees[f]) : trees[f][i].line = trees[f][j].line => i = j
<1> DEFINE tree == trees[f]
<1>1. tree \in Trees
  BY DEF DupTyped
<1> HIDE DEF tree
<1>2. tree \in Seq(ToSet(tree))
  BY <1>1, StructuralDuplicatesAssumption DEF StructuralDuplicatesAssumption
<1>3. Len(tree) \in Nat /\ DOMAIN tree = 1..Len(tree)
  BY <1>2
<1>4. /\ \A i \in DOMAIN tree : tree[i].line \in Nat /\ tree[i].tokens \in Seq(ToSet(tree[i].tokens))
      /\ \A i, j \in DOMAIN tree : tree[i].line = tree[j].line => i = j
  BY <1>1, StructuralDuplicatesAssumption DEF StructuralDuplicatesAssumption
<1> QED BY <1>3, <1>4 DEF tree, IsTokens

LEMMA FunctionIs ==
  ASSUME DupTyped, NEW s
  PROVE  s \in LargeFunctions <=>
           \E f \in 1..FileCount : \E i \in 1..Len(trees[f]) : s = <<f, i>> /\ Fingerprinted(trees[f][i])
<1>1. \A f \in 1..FileCount : DOMAIN trees[f] = 1..Len(trees[f])
  BY TreesAre
<1> QED BY <1>1 DEF LargeFunctions

\* Functions of different places are on different lines.
LEMMA AtTells ==
  ASSUME DupTyped, NEW s \in LargeFunctions, NEW t \in LargeFunctions, At(s) = At(t)
  PROVE  s = t
<1>1. PICK f \in 1..FileCount : \E i \in 1..Len(trees[f]) : s = <<f, i>>
  BY FunctionIs
<1>2. PICK i \in 1..Len(trees[f]) : s = <<f, i>>
  BY <1>1
<1>3. PICK g \in 1..FileCount : \E j \in 1..Len(trees[g]) : t = <<g, j>>
  BY FunctionIs
<1>4. PICK j \in 1..Len(trees[g]) : t = <<g, j>>
  BY <1>3
<1>5. f = g /\ trees[f][i].line = trees[g][j].line
  BY <1>2, <1>4 DEF At
<1> QED BY <1>2, <1>4, <1>5, TreesAre

LEMMA MetIsLarge == Met \subseteq LargeFunctions
BY DEF Met

\* A sequence that repeats nothing is as long as its set is large.
LEMMA DistinctSequence ==
  ASSUME NEW T, NEW s \in Seq(T), \A i, j \in DOMAIN s : s[i] = s[j] => i = j
  PROVE  IsFiniteSet(ToSet(s)) /\ Cardinality(ToSet(s)) = Len(s)
<1>1. Len(s) \in Nat /\ DOMAIN s = 1..Len(s)
  OBVIOUS
<1>2. ToSet(s) = {s[i] : i \in 1..Len(s)}
  BY <1>1 DEF ToSet
<1> DEFINE f == [i \in 1..Len(s) |-> s[i]]
<1>3. f \in Surjection(1..Len(s), ToSet(s))
  BY <1>2 DEF Surjection
<1>4. f \in Injection(1..Len(s), ToSet(s))
  BY <1>1, <1>2 DEF Injection, IsInjective
<1>5. IsFiniteSet(1..Len(s)) /\ Cardinality(1..Len(s)) = Len(s)
  <2> DEFINE n == Len(s)
  <2>1. n \in Nat
    BY <1>1
  <2> HIDE DEF n
  <2>2. IsFiniteSet(1..n) /\ Cardinality(1..n) = IF 1 > n THEN 0 ELSE n - 1 + 1
    BY <2>1, FS_Interval
  <2>3. IsFiniteSet(1..n) /\ Cardinality(1..n) = n
    BY ONLY <2>1, <2>2
  <2> QED BY <2>3 DEF n
<1> HIDE DEF f
<1> QED BY <1>3, <1>4, <1>5, FS_Surjection

\* The function that the rule looks at.
Here == <<grouped + 1, visited + 1>>

LEMMA TreesKeep ==
  ASSUME trees' = trees
  PROVE  /\ LargeFunctions' = LargeFunctions
         /\ \A s : TokensAt(s)' = TokensAt(s) /\ PrintOf(s)' = PrintOf(s) /\ At(s)' = At(s)
BY DEF LargeFunctions, TokensAt, PrintOf, At

LEMMA MetGrows ==
  ASSUME DupTyped, GroupFunction
  PROVE  /\ Here \notin Met
         /\ Met' = IF Fingerprinted(trees[grouped + 1][visited + 1]) THEN Met \cup {Here} ELSE Met
<1>1. /\ grouped \in Nat /\ grouped + 1 \in 1..FileCount /\ visited \in Nat /\ visited + 1 \in 1..Len(trees[grouped + 1])
  <2>1. grouped \in Nat /\ grouped + 1 \in 1..FileCount /\ visited \in Nat /\ visited < Len(trees[grouped + 1])
    BY StructuralDuplicatesAssumption DEF DupTyped, GroupFunction, StructuralDuplicatesAssumption
  <2>2. Len(trees[grouped + 1]) \in Nat
    BY <2>1, TreesAre
  <2> QED BY <2>1, <2>2
<1>2. Here \in LargeFunctions <=> Fingerprinted(trees[grouped + 1][visited + 1])
  BY <1>1, FunctionIs DEF Here
<1>3. Here \notin Met
  BY <1>1 DEF Met, Here
<1>4. ASSUME NEW s \in LargeFunctions
      PROVE  s \in Met' <=> s \in Met \/ s = Here
  <2>1. PICK f \in 1..FileCount : \E i \in 1..Len(trees[f]) : s = <<f, i>>
    BY <1>4, FunctionIs
  <2>2. PICK i \in 1..Len(trees[f]) : s = <<f, i>>
    BY <2>1
  <2>3. f \in Int /\ i \in Int
    <3>1. Len(trees[f]) \in Nat
      BY TreesAre
    <3> QED BY <3>1
  <2>4. s \in Met' <=> f <= grouped \/ (f = grouped + 1 /\ i <= visited + 1)
    <3>1. grouped' = grouped /\ visited' = visited + 1 /\ LargeFunctions' = LargeFunctions
      BY TreesKeep DEF GroupFunction
    <3> QED BY <1>4, <2>2, <3>1 DEF Met
  <2>5. s \in Met <=> f <= grouped \/ (f = grouped + 1 /\ i <= visited)
    BY <1>4, <2>2 DEF Met
  <2>6. s = Here <=> f = grouped + 1 /\ i = visited + 1
    BY <2>2 DEF Here
  <2> QED BY <1>1, <2>3, <2>4, <2>5, <2>6
<1>5. Met' \subseteq LargeFunctions /\ Met \subseteq LargeFunctions
  BY TreesKeep DEF Met, GroupFunction
<1> QED BY <1>2, <1>3, <1>4, <1>5

\* What is there of a group, if anything.
OldCount(key) == IF key \in DOMAIN counts THEN counts[key] ELSE 0
OldPlaces(key) == IF key \in DOMAIN locations THEN locations[key] ELSE <<>>

LEMMA GroupSoFar ==
  ASSUME GroupsHold, NEW key
  PROVE  /\ OldCount(key) = Cardinality(Members(key)) /\ OldCount(key) \in Nat
         /\ OldPlaces(key) \in Seq({At(s) : s \in Members(key)})
         /\ Len(OldPlaces(key)) = IF OldCount(key) < MaxLocations THEN OldCount(key) ELSE MaxLocations
         /\ \A i, j \in DOMAIN OldPlaces(key) : OldPlaces(key)[i] = OldPlaces(key)[j] => i = j
         /\ IsFiniteSet(Members(key))
<1>1. IsFiniteSet(Members(key))
  <2> Members(key) \subseteq Met
    BY DEF Members
  <2> QED BY FS_Subset DEF GroupsHold
<1>2. CASE key \in DOMAIN counts
  BY <1>1, <1>2 DEF GroupsHold, GroupHolds, OldCount, OldPlaces
<1>3. CASE key \notin DOMAIN counts
  <2>1. Members(key) = {}
    BY <1>3 DEF GroupsHold, Members
  <2>2. OldCount(key) = 0 /\ OldPlaces(key) = <<>>
    BY <1>3 DEF GroupsHold, OldCount, OldPlaces
  <2>3. 0 < MaxLocations
    BY StructuralDuplicatesAssumption DEF StructuralDuplicatesAssumption
  <2>4. Cardinality({}) = 0
    BY FS_EmptySet
  <2>5. <<>> \in Seq({At(s) : s \in Members(key)}) /\ Len(<<>>) = 0 /\ DOMAIN <<>> = {}
    OBVIOUS
  <2> QED BY <1>1, <2>1, <2>2, <2>3, <2>4, <2>5
<1> QED BY <1>2, <1>3

\* Adding a function to its group.
LEMMA GroupGrows ==
  ASSUME DupTyped, GroupsHold, Here \notin Met, Here \in LargeFunctions, NEW key
  PROVE  LET places == IF Len(OldPlaces(key)) < MaxLocations THEN Append(OldPlaces(key), At(Here)) ELSE OldPlaces(key)
         IN  /\ OldCount(key) + 1 = Cardinality(Members(key) \cup {Here}) /\ OldCount(key) + 1 \in Nat
             /\ places \in Seq({At(s) : s \in Members(key) \cup {Here}})
             /\ Len(places) = IF OldCount(key) + 1 < MaxLocations THEN OldCount(key) + 1 ELSE MaxLocations
             /\ \A i, j \in DOMAIN places : places[i] = places[j] => i = j
<1> DEFINE old == OldPlaces(key)
           count == OldCount(key)
           places == IF Len(old) < MaxLocations THEN Append(old, At(Here)) ELSE old
           New == {At(s) : s \in Members(key) \cup {Here}}
<1>1. /\ count = Cardinality(Members(key)) /\ count \in Nat
      /\ old \in Seq({At(s) : s \in Members(key)})
      /\ Len(old) = IF count < MaxLocations THEN count ELSE MaxLocations
      /\ \A i, j \in DOMAIN old : old[i] = old[j] => i = j
      /\ IsFiniteSet(Members(key))
  BY GroupSoFar
<1>2. Here \notin Members(key)
  BY DEF Members
<1>3. count + 1 = Cardinality(Members(key) \cup {Here})
  BY <1>1, <1>2, FS_AddElement
<1>4. MaxLocations \in Nat
  BY StructuralDuplicatesAssumption DEF StructuralDuplicatesAssumption
<1>5. \A i \in DOMAIN old : old[i] # At(Here)
  <2> SUFFICES ASSUME NEW i \in DOMAIN old, old[i] = At(Here) PROVE FALSE
    OBVIOUS
  <2>1. old[i] \in {At(s) : s \in Members(key)}
    BY <1>1
  <2>2. PICK s \in Members(key) : old[i] = At(s)
    BY <2>1
  <2>3. s \in LargeFunctions
    BY MetIsLarge DEF Members
  <2>4. At(s) = At(Here)
    BY <2>2
  <2>5. s = Here
    BY <2>3, <2>4, AtTells
  <2> QED BY <1>2, <2>5
<1>6. old \in Seq(New) /\ At(Here) \in New
  <2>1. {At(s) : s \in Members(key)} \subseteq New
    OBVIOUS
  <2> HIDE DEF New, old
  <2>2. old \in Seq(New)
    BY <1>1, <2>1
  <2> QED BY <2>2 DEF New
<1> DEFINE at == At(Here)
<1>7. at \in New /\ \A i \in DOMAIN old : old[i] # at
  BY <1>5, <1>6
<1> HIDE DEF New, old, count, at
<1>8. CASE Len(old) < MaxLocations
  <2>1. places = Append(old, at)
    BY <1>8 DEF at
  <2> HIDE DEF places
  <2>2. places \in Seq(New) /\ Len(places) = Len(old) + 1 /\ DOMAIN places = 1..Len(old) + 1
    BY <1>6, <1>7, <2>1
  <2>3. \A i \in 1..Len(old) + 1 : places[i] = IF i = Len(old) + 1 THEN at ELSE old[i]
    BY <1>6, <2>1
  <2>4. \A i \in 1..Len(old) + 1 : i # Len(old) + 1 => i \in DOMAIN old
    BY <1>6
  <2>5. \A i, j \in DOMAIN places : places[i] = places[j] => i = j
    BY <1>1, <1>7, <2>2, <2>3, <2>4
  <2>6. Len(places) = IF count + 1 < MaxLocations THEN count + 1 ELSE MaxLocations
    BY <1>1, <1>4, <1>8, <2>2
  <2> QED BY <1>1, <1>3, <2>2, <2>5, <2>6 DEF New, old, count, places, at
<1>9. CASE ~(Len(old) < MaxLocations)
  <2>1. places = old
    BY <1>9
  <2>2. Len(old) = IF count + 1 < MaxLocations THEN count + 1 ELSE MaxLocations
    BY <1>1, <1>4, <1>9
  <2> QED BY <1>1, <1>3, <1>6, <2>1, <2>2 DEF New, old, count, at
<1> QED BY <1>8, <1>9

LEMMA GroupsKeep ==
  ASSUME GroupsHold, trees' = trees, Met' = Met, counts' = counts, locations' = locations
  PROVE  GroupsHold'
<1>1. \A s : PrintOf(s)' = PrintOf(s) /\ At(s)' = At(s)
  BY TreesKeep
<1>2. \A k : Members(k)' = Members(k)
  BY <1>1 DEF Members
<1>3. \A k : GroupHolds(k) => GroupHolds(k)'
  <2> TAKE k
  <2> HAVE GroupHolds(k)
  <2>1. {At(s) : s \in Members(k)}' = {At(s) : s \in Members(k)}
    BY <1>1, <1>2
  <2> QED BY <1>2, <2>1 DEF GroupHolds
<1>4. {PrintOf(s) : s \in Met}' = {PrintOf(s) : s \in Met}
  BY <1>1
<1> QED BY <1>3, <1>4 DEF GroupsHold

LEMMA GroupStep ==
  ASSUME DupTyped, GroupsHold, GroupFunction
  PROVE  GroupsHold'
<1> DEFINE function == trees[grouped + 1][visited + 1]
           key == Fingerprint(function.tokens)
<1>1. Here \notin Met /\ Met' = IF Fingerprinted(function) THEN Met \cup {Here} ELSE Met
  BY MetGrows
<1>2. trees' = trees
  BY DEF GroupFunction
<1>3. \A s : PrintOf(s)' = PrintOf(s) /\ At(s)' = At(s)
  BY <1>2, TreesKeep
<1>4. TokensAt(Here) = function.tokens /\ At(Here) = [file |-> grouped + 1, line |-> function.line] /\ PrintOf(Here) = key
  BY DEF Here, TokensAt, At, PrintOf
<1>5. CASE ~Fingerprinted(function)
  <2> Met' = Met /\ counts' = counts /\ locations' = locations
    BY <1>1, <1>5 DEF GroupFunction
  <2> QED BY <1>2, GroupsKeep
<1>6. CASE Fingerprinted(function)
  <2> DEFINE places == IF Len(OldPlaces(key)) < MaxLocations THEN Append(OldPlaces(key), At(Here)) ELSE OldPlaces(key)
  <2>1. /\ Met' = Met \cup {Here}
        /\ counts' = With(counts, key, OldCount(key) + 1)
        /\ locations' = With(locations, key, places)
    BY <1>1, <1>4, <1>6 DEF GroupFunction, OldCount, OldPlaces
  <2>2. Here \in LargeFunctions
    <3>1. Met' \subseteq LargeFunctions
      BY <1>2, TreesKeep DEF Met
    <3> QED BY <2>1, <3>1
  <2>3. \A k : Members(k)' = IF k = key THEN Members(k) \cup {Here} ELSE Members(k)
    BY <1>3, <1>4, <2>1 DEF Members
  <2>4. /\ OldCount(key) + 1 = Cardinality(Members(key) \cup {Here}) /\ OldCount(key) + 1 \in Nat
        /\ places \in Seq({At(s) : s \in Members(key) \cup {Here}})
        /\ Len(places) = IF OldCount(key) + 1 < MaxLocations THEN OldCount(key) + 1 ELSE MaxLocations
        /\ \A i, j \in DOMAIN places : places[i] = places[j] => i = j
    <3> HIDE DEF key
    <3> QED BY <1>1, <2>2, GroupGrows
  <2> HIDE DEF places, key
  <2>5. DOMAIN counts' = DOMAIN counts \cup {key} /\ DOMAIN locations' = DOMAIN counts \cup {key}
    BY <2>1 DEF With, GroupsHold
  <2>6. counts'[key] = OldCount(key) + 1 /\ locations'[key] = places
    BY <2>1 DEF With
  <2>7. \A k \in DOMAIN counts : k # key => counts'[k] = counts[k] /\ locations'[k] = locations[k]
    BY <2>1 DEF With, GroupsHold
  <2>8. ASSUME NEW k, k = key PROVE GroupHolds(k)'
    <3>1. Members(k)' = Members(k) \cup {Here} /\ counts'[k] = OldCount(k) + 1 /\ locations'[k] = places
      BY <2>3, <2>6, <2>8
    <3>2. {At(s) : s \in Members(k)}' = {At(s) : s \in Members(k) \cup {Here}}
      BY <1>3, <3>1
    <3> DEFINE count == OldCount(k) + 1
               at == {At(s) : s \in Members(k) \cup {Here}}
    <3>3. /\ count = Cardinality(Members(k) \cup {Here}) /\ count \in Nat /\ places \in Seq(at)
          /\ Len(places) = IF count < MaxLocations THEN count ELSE MaxLocations
          /\ \A i, j \in DOMAIN places : places[i] = places[j] => i = j
      BY <2>4, <2>8
    <3>4. counts'[k] = count /\ locations'[k] = places
      BY <3>1
    <3>5. (\A i, j \in DOMAIN locations[k] : locations[k][i] = locations[k][j] => i = j)'
      BY <3>3, <3>4
    <3>6. (locations[k] \in Seq({At(s) : s \in Members(k)}))'
      BY <3>2, <3>3, <3>4
    <3> HIDE DEF count, at
    <3> QED BY <3>1, <3>3, <3>4, <3>5, <3>6 DEF GroupHolds
  <2>9. \A k \in DOMAIN counts : k # key => GroupHolds(k)'
    <3> TAKE k \in DOMAIN counts
    <3> HAVE k # key
    <3>1. Members(k)' = Members(k) /\ counts'[k] = counts[k] /\ locations'[k] = locations[k]
      BY <2>3, <2>7
    <3>2. {At(s) : s \in Members(k)}' = {At(s) : s \in Members(k)}
      BY <1>3, <3>1
    <3>3. GroupHolds(k)
      BY DEF GroupsHold
    <3> QED BY <3>1, <3>2, <3>3 DEF GroupHolds
  <2>10. IsFiniteSet(Met')
    BY <2>1, FS_AddElement DEF GroupsHold
  <2>11. {PrintOf(s) : s \in Met}' = {PrintOf(s) : s \in Met} \cup {key}
    <3>1. PICK here : here = Here
      OBVIOUS
    <3>2. {PrintOf(s) : s \in Met}' = {PrintOf(s) : s \in Met \cup {here}}
      BY <1>3, <2>1, <3>1
    <3> QED BY <1>4, <3>1, <3>2
  <2>12. (\A k \in DOMAIN counts : GroupHolds(k))'
    BY <2>5, <2>8, <2>9
  <2> QED BY <2>5, <2>10, <2>11, <2>12 DEF GroupsHold
<1> QED BY <1>5, <1>6

\* The last function of a file was the last of it that could be met.
LEMMA FileStep ==
  ASSUME DupTyped, GroupsHold, NextFile
  PROVE  GroupsHold'
<1>1. trees' = trees /\ counts' = counts /\ locations' = locations /\ grouped' = grouped + 1 /\ visited' = 0
      /\ visited = Len(trees[grouped + 1])
  BY DEF NextFile
<1>2. grouped \in Nat
  BY StructuralDuplicatesAssumption DEF DupTyped, StructuralDuplicatesAssumption
<1>3. ASSUME NEW s \in LargeFunctions
      PROVE  s \in Met' <=> s \in Met
  <2>1. PICK f \in 1..FileCount : \E i \in 1..Len(trees[f]) : s = <<f, i>>
    BY <1>3, FunctionIs
  <2>2. PICK i \in 1..Len(trees[f]) : s = <<f, i>>
    BY <2>1
  <2>3. Len(trees[f]) \in Nat
    BY TreesAre
  <2>4. f \in Int /\ i \in Int /\ 1 <= i /\ i <= Len(trees[f])
    BY <2>3
  <2>5. s \in Met' <=> f <= grouped + 1 \/ (f = grouped + 2 /\ i <= 0)
    <3>1. LargeFunctions' = LargeFunctions
      BY <1>1, TreesKeep
    <3>2. s \in Met' <=> f <= grouped' \/ (f = grouped' + 1 /\ i <= visited')
      BY <1>3, <2>2, <3>1 DEF Met
    <3> QED BY <1>1, <1>2, <2>4, <3>2
  <2>6. s \in Met <=> f <= grouped \/ (f = grouped + 1 /\ i <= Len(trees[grouped + 1]))
    BY <1>1, <1>3, <2>2 DEF Met
  <2>7. f = grouped + 1 => i <= Len(trees[grouped + 1])
    BY <2>4
  <2> HIDE DEF Met
  <2> QED BY <1>2, <2>4, <2>5, <2>6, <2>7
<1>4. Met' = Met
  <2> Met' \subseteq LargeFunctions /\ Met \subseteq LargeFunctions
    BY <1>1, TreesKeep DEF Met
  <2> QED BY <1>3
<1> QED BY <1>1, <1>4, GroupsKeep

\* Places of functions have an order.
LEMMA PlacesAreOrdered ==
  ASSUME DupTyped, NEW S \in SUBSET {At(s) : s \in Met}
  PROVE  StrictOrder(S, Pairs(S, EarlierLine))
<1>1. \A s \in Met : At(s).file \in Int /\ At(s).line \in Int /\ At(s) = [file |-> At(s).file, line |-> At(s).line]
  <2> TAKE s \in Met
  <2>1. PICK f \in 1..FileCount : \E i \in 1..Len(trees[f]) : s = <<f, i>>
    BY MetIsLarge, FunctionIs
  <2>2. PICK i \in 1..Len(trees[f]) : s = <<f, i>>
    BY <2>1
  <2>3. trees[f][i].line \in Nat /\ f \in Int
    BY TreesAre
  <2> QED BY <2>2, <2>3 DEF At
<1>2. \A p \in S : p.file \in Int /\ p.line \in Int /\ p = [file |-> p.file, line |-> p.line]
  BY <1>1
<1>3. \A p, q \in S : <<p, q>> \in Pairs(S, EarlierLine) <=> EarlierLine(p, q)
  BY DEF Pairs
<1>4. /\ \A p \in S : ~EarlierLine(p, p)
      /\ \A p, q, r \in S : EarlierLine(p, q) /\ EarlierLine(q, r) => EarlierLine(p, r)
      /\ \A p, q \in S : p = q \/ EarlierLine(p, q) \/ EarlierLine(q, p)
  BY <1>2 DEF EarlierLine
<1> QED BY <1>3, <1>4 DEF StrictOrder

\* The evidence of a group.
LEMMA EvidenceIs ==
  ASSUME DupTyped, GroupsHold, NEW key \in DOMAIN counts
  PROVE  LET d == Evidence(key) IN
         /\ d.count = Cardinality(Members(key))
         /\ Cardinality(ToSet(d.shown)) = Min({MaxShown, d.count})
         /\ Cardinality(ToSet(d.shown)) + d.hidden = d.count
         /\ ToSet(d.shown) \subseteq {At(s) : s \in Members(key)}
<1> DEFINE kept == locations[key]
           count == counts[key]
           S == ToSet(kept)
           R == Pairs(S, EarlierLine)
           sorted == Ranked(S, R)
           n == Min({MaxShown, Len(sorted)})
           shown == SubSeq(sorted, 1, n)
           P == {At(s) : s \in Members(key)}
<1>1. /\ count = Cardinality(Members(key)) /\ count \in Nat
      /\ kept \in Seq(P)
      /\ Len(kept) = IF count < MaxLocations THEN count ELSE MaxLocations
      /\ \A i, j \in DOMAIN kept : kept[i] = kept[j] => i = j
  BY DEF GroupsHold, GroupHolds
<1>2. Evidence(key) = [count |-> count, shown |-> shown, hidden |-> count - Len(shown)]
  BY DEF Evidence, Sorted
<1>3. P \subseteq {At(s) : s \in Met}
  BY DEF Members
<1> HIDE DEF P, kept, count
<1>4. S \subseteq P /\ IsFiniteSet(S) /\ Cardinality(S) = Len(kept)
  <2>1. S \subseteq P
    BY <1>1 DEF ToSet
  <2> HIDE DEF S
  <2> QED BY <1>1, <2>1, DistinctSequence DEF S
<1>5. StrictOrder(S, R)
  <2> S \in SUBSET {At(s) : s \in Met}
    BY <1>3, <1>4
  <2> HIDE DEF S
  <2> QED BY PlacesAreOrdered
<1> HIDE DEF S, R
<1>6. /\ sorted \in Seq(S) /\ Len(sorted) = Len(kept)
      /\ \A i, j \in DOMAIN sorted : i < j => <<sorted[i], sorted[j]>> \in R
  BY <1>4, <1>5, RankedIsSequence
<1> HIDE DEF sorted
<1> DEFINE long == Len(sorted)
<1>7. long \in Nat /\ DOMAIN sorted = 1..long /\ \A i \in 1..long : sorted[i] \in S
  BY <1>6
<1>8. \A i, j \in 1..long : sorted[i] = sorted[j] => i = j
  <2>1. \A i, j \in 1..long : i < j => sorted[i] # sorted[j]
    BY <1>5, <1>6, <1>7 DEF StrictOrder
  <2> QED BY <1>7, <2>1
<1> HIDE DEF long
<1>9. MaxLocations \in Nat /\ MaxShown \in Nat /\ MaxShown <= MaxLocations
  BY StructuralDuplicatesAssumption DEF StructuralDuplicatesAssumption
<1>10. n = IF MaxShown <= long THEN MaxShown ELSE long
  <2> MaxShown \in Int /\ long \in Int
    BY <1>7, <1>9
  <2> QED BY MaxMinOfTwo DEF long
<1> HIDE DEF n
<1>11. n \in Nat /\ n <= long
  BY <1>7, <1>9, <1>10
<1>12. shown \in Seq(S) /\ Len(shown) = n /\ DOMAIN shown = 1..n /\ \A i \in 1..n : shown[i] = sorted[i]
  BY <1>6, <1>7, <1>11 DEF long
<1> HIDE DEF shown
<1>13. Cardinality(ToSet(shown)) = n
  <2>1. 1..n \subseteq 1..long
    BY <1>7, <1>11
  <2>2. \A i, j \in DOMAIN shown : shown[i] = shown[j] => i = j
    BY <1>8, <1>12, <2>1
  <2> QED BY <1>12, <2>2, DistinctSequence
<1>14. n = Min({MaxShown, count}) /\ n + (count - n) = count
  <2>1. long = IF count < MaxLocations THEN count ELSE MaxLocations
    BY <1>1, <1>6 DEF long
  <2>2. count \in Int /\ MaxShown \in Int
    BY <1>1, <1>9
  <2>3. Min({MaxShown, count}) = IF MaxShown <= count THEN MaxShown ELSE count
    BY <2>2, MaxMinOfTwo
  <2> QED BY <1>1, <1>9, <1>10, <2>1, <2>3
<1>15. ToSet(shown) \subseteq P
  BY <1>4, <1>12 DEF ToSet
<1>16. LET d == Evidence(key) IN d.count = count /\ d.shown = shown /\ d.hidden = count - n
  BY <1>2, <1>12
<1> QED BY <1>1, <1>13, <1>14, <1>15, <1>16 DEF P

LEMMA EvidenceKeeps ==
  ASSUME EvidenceIsComplete, trees' = trees, duplicates' = duplicates
  PROVE  EvidenceIsComplete'
<1>1. LargeFunctions' = LargeFunctions /\ \A s : TokensAt(s)' = TokensAt(s)
  BY TreesKeep
<1> QED BY <1>1 DEF EvidenceIsComplete

\* What an evidence tells of the functions of its group.
Tells(d, members) ==
  /\ d.count = Cardinality(members) /\ d.count >= 2
  /\ Cardinality(ToSet(d.shown)) = Min({MaxShown, d.count})
  /\ Cardinality(ToSet(d.shown)) + d.hidden = d.count
  /\ ToSet(d.shown) \subseteq {[file |-> s[1], line |-> trees[s[1]][s[2]].line] : s \in members}

GroupMembers(key) == {s \in LargeFunctions : Fingerprint(TokensAt(s)) = key}
AllTell ==
  \A key \in DOMAIN duplicates : \A d, members : d = duplicates[key] /\ members = GroupMembers(key) => Tells(d, members)

LEMMA CompleteTells == EvidenceIsComplete <=> AllTell
BY DEF EvidenceIsComplete, AllTell, Tells, GroupMembers

LEMMA CompleteTellsNext == EvidenceIsComplete' <=> AllTell'
BY CompleteTells, PTL

LEMMA ReportStep ==
  ASSUME DupTyped, GroupsHold, ReportDuplicates
  PROVE  EvidenceIsComplete'
<1>1. /\ trees' = trees /\ grouped = FileCount
      /\ duplicates' = [key \in {k \in DOMAIN counts : counts[k] >= 2} |-> Evidence(key)]
  BY DEF ReportDuplicates
<1>2. Met = LargeFunctions
  <2>1. ASSUME NEW s \in LargeFunctions PROVE s[1] <= grouped
    <3>1. PICK f \in 1..FileCount : \E i \in 1..Len(trees[f]) : s = <<f, i>>
      BY <2>1, FunctionIs
    <3> QED BY <1>1, <3>1, StructuralDuplicatesAssumption DEF StructuralDuplicatesAssumption
  <2> QED BY <2>1 DEF Met
<1>3. ASSUME NEW key \in DOMAIN counts, counts[key] >= 2
      PROVE  Tells(duplicates'[key], {s \in LargeFunctions : Fingerprint(TokensAt(s)) = key})
  <2>1. duplicates'[key] = Evidence(key)
    BY <1>1, <1>3
  <2>2. Members(key) = {s \in LargeFunctions : Fingerprint(TokensAt(s)) = key}
    BY <1>2 DEF Members, PrintOf
  <2>3. {At(s) : s \in Members(key)} = {[file |-> s[1], line |-> trees[s[1]][s[2]].line] : s \in Members(key)}
    BY DEF At
  <2>4. counts[key] = Cardinality(Members(key))
    BY <1>3 DEF GroupsHold, GroupHolds
  <2> DEFINE d == duplicates'[key]
             members == {s \in LargeFunctions : Fingerprint(TokensAt(s)) = key}
  <2>5. /\ d.count = Cardinality(Members(key))
        /\ Cardinality(ToSet(d.shown)) = Min({MaxShown, d.count})
        /\ Cardinality(ToSet(d.shown)) + d.hidden = d.count
        /\ ToSet(d.shown) \subseteq {At(s) : s \in Members(key)}
    BY <1>3, <2>1, EvidenceIs
  <2>6. d.count >= 2
    BY <1>3, <2>4, <2>5
  <2>7. {At(s) : s \in Members(key)} = {[file |-> s[1], line |-> trees[s[1]][s[2]].line] : s \in members}
    BY <2>2, <2>3
  <2>8. Members(key) = members
    BY <2>2
  <2> HIDE DEF members
  <2>9. /\ d.count = Cardinality(members) /\ d.count >= 2
        /\ Cardinality(ToSet(d.shown)) = Min({MaxShown, d.count})
        /\ Cardinality(ToSet(d.shown)) + d.hidden = d.count
        /\ ToSet(d.shown) \subseteq {[file |-> s[1], line |-> trees[s[1]][s[2]].line] : s \in members}
    <3> HIDE DEF d
    <3> QED BY <2>5, <2>6, <2>7, <2>8
  <2>10. Tells(d, members)
    <3> HIDE DEF d
    <3> QED BY <2>9 DEF Tells
  <2> QED BY <2>10 DEF members
<1>4. LargeFunctions' = LargeFunctions /\ \A s : TokensAt(s)' = TokensAt(s)
  BY <1>1, TreesKeep
<1>5. \A key \in DOMAIN duplicates' : Tells(duplicates'[key], {s \in LargeFunctions : Fingerprint(TokensAt(s)) = key})
  BY <1>1, <1>3
<1>6. \A key \in DOMAIN duplicates' : Tells(duplicates'[key], GroupMembers(key))
  BY <1>5 DEF GroupMembers
<1>7. \A d, members : Tells(d, members)' = Tells(d, members)
  BY <1>1 DEF Tells
<1>8. \A key : GroupMembers(key)' = GroupMembers(key)
  BY <1>4 DEF GroupMembers
<1>9. \A key \in DOMAIN duplicates' : \A d, members :
        d = duplicates'[key] /\ members = GroupMembers(key)' => Tells(d, members)'
  BY <1>6, <1>7, <1>8
<1> QED BY <1>9, CompleteTellsNext DEF AllTell

LEMMA DupInitHolds == DupInit => DupInv
<1> SUFFICES ASSUME DupInit PROVE DupInv
  OBVIOUS
<1>1. grouped = 0 /\ visited = 0 /\ counts = <<>> /\ locations = <<>> /\ duplicates = <<>>
      /\ trees \in [1..FileCount -> Trees]
  BY DEF DupInit
<1>2. FileCount \in Nat
  BY StructuralDuplicatesAssumption DEF StructuralDuplicatesAssumption
<1>3. DupTyped
  <2>1. grouped < FileCount => DOMAIN trees = 1..FileCount /\ trees[1] \in Trees
    BY <1>1, <1>2
  <2>2. grouped < FileCount => trees[1] \in Seq(ToSet(trees[1]))
    BY <2>1, StructuralDuplicatesAssumption DEF StructuralDuplicatesAssumption
  <2>3. grouped < FileCount => Len(trees[grouped + 1]) \in Nat
    BY <1>1, <2>2
  <2> QED BY <1>1, <1>2, <2>3 DEF DupTyped
<1>4. Met = {}
  <2> SUFFICES ASSUME NEW s \in Met PROVE FALSE
    OBVIOUS
  <2>1. PICK f \in 1..FileCount : \E i \in 1..Len(trees[f]) : s = <<f, i>>
    BY <1>3, MetIsLarge, FunctionIs
  <2>2. PICK i \in 1..Len(trees[f]) : s = <<f, i>>
    BY <2>1
  <2>3. Len(trees[f]) \in Nat
    BY <1>3, TreesAre
  <2>4. f <= 0 \/ (f = 1 /\ i <= 0)
    BY <1>1, <2>2 DEF Met
  <2> QED BY <1>2, <2>3, <2>4
<1>5. IsFiniteSet(Met) /\ {PrintOf(s) : s \in Met} = {}
  BY <1>4, FS_EmptySet
<1>6. DOMAIN <<>> = {}
  OBVIOUS
<1>7. GroupsHold
  BY <1>1, <1>5, <1>6 DEF GroupsHold
<1>8. EvidenceIsComplete
  BY <1>1, <1>6 DEF EvidenceIsComplete
<1> QED BY <1>3, <1>7, <1>8 DEF DupInv

LEMMA DupTypedStep ==
  ASSUME DupTyped, GroupFunction \/ NextFile \/ ReportDuplicates
  PROVE  DupTyped'
<1>0. trees' = trees /\ FileCount \in Nat
  BY StructuralDuplicatesAssumption DEF GroupFunction, NextFile, ReportDuplicates, StructuralDuplicatesAssumption
<1>1. CASE GroupFunction
  <2>1. grouped < FileCount /\ visited < Len(trees[grouped + 1]) /\ visited' = visited + 1 /\ grouped' = grouped
    BY <1>1 DEF GroupFunction
  <2>2. grouped + 1 \in 1..FileCount
    BY <1>0, <2>1 DEF DupTyped
  <2>3. Len(trees[grouped + 1]) \in Nat
    BY <2>2, TreesAre
  <2>4. visited + 1 <= Len(trees[grouped + 1]) /\ visited + 1 \in Nat
    BY <2>1, <2>3 DEF DupTyped
  <2> QED BY <1>0, <2>1, <2>4 DEF DupTyped
<1>2. CASE NextFile
  <2>1. grouped < FileCount /\ visited' = 0 /\ grouped' = grouped + 1
    BY <1>2 DEF NextFile
  <2>2. grouped + 1 \in 0..FileCount
    BY <1>0, <2>1 DEF DupTyped
  <2>3. grouped' < FileCount => Len(trees[grouped' + 1]) \in Nat
    BY <1>0, <2>1, <2>2, TreesAre
  <2>4. grouped' < FileCount => 0 <= Len(trees[grouped' + 1])
    BY <2>3
  <2> QED BY <1>0, <2>1, <2>2, <2>4 DEF DupTyped
<1>3. CASE ReportDuplicates
  BY <1>3 DEF DupTyped, ReportDuplicates
<1> QED BY <1>1, <1>2, <1>3

LEMMA DupStep == DupInv /\ [DupNext]_dupVars => DupInv'
<1> SUFFICES ASSUME DupInv, [DupNext]_dupVars PROVE DupInv'
  OBVIOUS
<1>1. DupTyped /\ GroupsHold /\ EvidenceIsComplete
  BY DEF DupInv
<1>2. CASE GroupFunction
  <2>1. trees' = trees /\ duplicates' = duplicates
    BY <1>2 DEF GroupFunction
  <2> QED BY <1>1, <1>2, <2>1, DupTypedStep, GroupStep, EvidenceKeeps DEF DupInv
<1>3. CASE NextFile
  <2>1. trees' = trees /\ duplicates' = duplicates
    BY <1>3 DEF NextFile
  <2> QED BY <1>1, <1>3, <2>1, DupTypedStep, FileStep, EvidenceKeeps DEF DupInv
<1>4. CASE ReportDuplicates
  <2>1. trees' = trees /\ grouped' = grouped /\ visited' = visited /\ counts' = counts /\ locations' = locations
    BY <1>4 DEF ReportDuplicates
  <2>2. Met' = Met
    BY <2>1, TreesKeep DEF Met
  <2> QED BY <1>1, <1>4, <2>1, <2>2, DupTypedStep, GroupsKeep, ReportStep DEF DupInv
<1>5. CASE UNCHANGED dupVars
  <2>1. /\ trees' = trees /\ grouped' = grouped /\ visited' = visited /\ counts' = counts
        /\ locations' = locations /\ duplicates' = duplicates
    BY <1>5 DEF dupVars
  <2>2. DupTyped'
    BY <1>1, <2>1 DEF DupTyped
  <2>3. Met' = Met
    BY <2>1, TreesKeep DEF Met
  <2> QED BY <1>1, <2>1, <2>2, <2>3, GroupsKeep, EvidenceKeeps DEF DupInv
<1> QED BY <1>2, <1>3, <1>4, <1>5 DEF DupNext

\* The count of a group is that of the functions which renaming makes equal.
LEMMA GroupsAreRenamings ==
  ASSUME DupTyped, GroupsHold
  PROVE  DuplicatesAreRenamings
<1> SUFFICES ASSUME NEW s \in Met
             PROVE  counts[Fingerprint(TokensAt(s))] = Cardinality({t \in Met : Alike(TokensAt(s), TokensAt(t))})
  BY DEF DuplicatesAreRenamings
<1>1. \A t \in Met : IsTokens(TokensAt(t))
  <2> TAKE t \in Met
  <2>1. PICK f \in 1..FileCount : \E i \in 1..Len(trees[f]) : t = <<f, i>>
    BY MetIsLarge, FunctionIs
  <2>2. PICK i \in 1..Len(trees[f]) : t = <<f, i>>
    BY <2>1
  <2> QED BY <2>2, TreesAre DEF TokensAt
<1>2. \A t \in Met : Alike(TokensAt(s), TokensAt(t)) <=> PrintOf(t) = PrintOf(s)
  BY <1>1, FingerprintTellsRenamings DEF PrintOf
<1>3. {t \in Met : Alike(TokensAt(s), TokensAt(t))} = Members(PrintOf(s))
  BY <1>2 DEF Members
<1>4. PrintOf(s) \in DOMAIN counts
  BY DEF GroupsHold
<1> QED BY <1>3, <1>4 DEF GroupsHold, GroupHolds, PrintOf

\* In any files, of any functions, met in any order: the groups of the structural duplicate
\* rule are the classes of functions that renaming makes equal, and what a finding shows and
\* hides adds up to its group (structural_fingerprint, group_structural_duplicates,
\* _locations_evidence).
THEOREM GroupsAreExact == DupSpec => []DuplicatesAreExact
<1>1. DupInv => DuplicatesAreExact
  BY GroupsAreRenamings DEF DupInv, DuplicatesAreExact
<1> QED BY <1>1, DupInitHolds, DupStep, PTL DEF DupSpec


-----------------------------------------------------------------------------
(* get_architecture: any number of files, and any imports between them.        *)

PathOrder == Ranked(Sources, {p \in Sources \X Sources : p[1] < p[2]})

LEMMA PathOrderSorts == Sorted(Sources, <) = PathOrder
BY DEF PathOrder, Sorted, Pairs

ArchTyped ==
  /\ labels \in [Sources -> Nat]
  /\ visiting = [pass |-> visiting.pass, next |-> visiting.next, changed |-> visiting.changed]
  /\ visiting.next \in Nat \ {0} /\ visiting.changed \in BOOLEAN

\* In a pass that has moved no file yet the files visited have their dominant label.
VisitedDominate ==
  ~visiting.changed => \A i \in 1..Cardinality(Sources) :
     i < visiting.next => labels[PathOrder[i]] = DominantLabel(PathOrder[i])

ModulesHold ==
  /\ source = "unknown" => modules = <<>>
  /\ modules # <<>> /\ source = "heuristic" => Ended /\ CommunitiesOnce

ArchInv == ArchTyped /\ VisitedDominate /\ ModulesHold

LEMMA PathOrderIs ==
  /\ Cardinality(Sources) \in Nat
  /\ \A i \in 1..Cardinality(Sources) : PathOrder[i] \in Sources
  /\ \A p \in Sources : \E i \in 1..Cardinality(Sources) : PathOrder[i] = p
<1> DEFINE R == {p \in Sources \X Sources : p[1] < p[2]}
<1>1. StrictOrder(Sources, R)
  BY ArchitectureAssumption DEF StrictOrder
<1>2. PathOrder = Ranked(Sources, R)
  BY DEF PathOrder
<1> HIDE DEF R
<1>3. PathOrder \in Bijection(1..Cardinality(Sources), Sources)
  BY <1>1, <1>2, RankedSorts, ArchitectureAssumption
<1> QED BY <1>3, ArchitectureAssumption, FS_CardinalityType DEF Bijection, Injection, Surjection

LEMMA VotesAreNumbers ==
  ASSUME ArchTyped, NEW p, NEW label
  PROVE  Votes(p, label) \in Nat
<1> DEFINE V == {q \in Adjacent(p) : labels[q] = label}
<1>1. V \subseteq Sources
  BY DEF Adjacent
<1>2. IsFiniteSet(V)
  BY <1>1, ArchitectureAssumption, FS_Subset
<1>3. Cardinality(V) \in Nat
  <2> HIDE DEF V
  <2> QED BY <1>2, FS_CardinalityType
<1> HIDE DEF V
<1>4. Votes(p, label) = Cardinality(V) + (IF labels[p] = label THEN 1 ELSE 0)
  BY DEF Votes, V
<1> QED BY <1>3, <1>4

LEMMA LabelsInUse ==
  ASSUME ArchTyped
  PROVE  Range(labels) \subseteq Nat /\ Range(labels) # {} /\ IsFiniteSet(Range(labels))
<1>1. DOMAIN labels = Sources /\ \A q \in Sources : labels[q] \in Nat
  BY DEF ArchTyped
<1>2. Range(labels) = {labels[q] : q \in Sources}
  BY <1>1 DEF Range
<1>3. IsFiniteSet({labels[q] : q \in Sources})
  BY ArchitectureAssumption, ImageIsFinite
<1> QED BY <1>1, <1>2, <1>3, ArchitectureAssumption

\* _dominant_label: there is one, a label in use, and no other has more votes.
LEMMA DominantIs ==
  ASSUME ArchTyped, NEW p \in Sources
  PROVE  /\ DominantLabel(p) \in Nat
         /\ \A other \in Range(labels) : Votes(p, other) <= Votes(p, DominantLabel(p))
<1> DEFINE all == Range(labels)
           f == [label \in all |-> Votes(p, label)]
           tallies == {f[label] : label \in all}
           best == {label \in all : \A other \in all : Votes(p, other) <= Votes(p, label)}
<1>1. all \subseteq Nat /\ all # {} /\ IsFiniteSet(all)
  BY LabelsInUse
<1>2. \A label \in all : f[label] \in Nat
  BY VotesAreNumbers
<1>3. IsFiniteSet(tallies) /\ tallies # {} /\ tallies \subseteq Int
  <2> HIDE DEF all, f
  <2>1. IsFiniteSet(tallies)
    BY <1>1, ImageIsFinite
  <2>2. \A n \in tallies : n \in Nat
    BY <1>2
  <2>3. tallies # {}
    BY <1>1
  <2> HIDE DEF tallies
  <2> QED BY <2>1, <2>2, <2>3
<1>4. PICK most \in tallies : \A n \in tallies : most >= n
  <2> HIDE DEF tallies
  <2> QED BY <1>3, MaxOfFinite
<1>5. PICK label \in all : f[label] = most
  OBVIOUS
<1>6. label \in best
  <2>1. ASSUME NEW other \in all PROVE Votes(p, other) <= Votes(p, label)
    <3>1. f[other] \in tallies /\ f[other] = Votes(p, other) /\ f[label] = Votes(p, label)
      OBVIOUS
    <3>2. f[other] \in Int /\ most \in Int
      BY <1>2, <1>3
    <3>3. most >= f[other]
      <4> HIDE DEF f, tallies, all
      <4> QED BY <1>4, <3>1
    <3> HIDE DEF f
    <3> QED BY <1>5, <3>1, <3>2, <3>3
  <2> QED BY <2>1
<1>7. best \subseteq Int /\ IsFiniteSet(best) /\ best # {}
  <2>1. best \subseteq all
    OBVIOUS
  <2> HIDE DEF best, all
  <2>2. IsFiniteSet(best)
    BY <1>1, <2>1, FS_Subset
  <2>3. \A n \in best : n \in Int
    BY <1>1, <2>1
  <2> QED BY <1>6, <2>2, <2>3
<1>8. Min(best) \in best
  <2> HIDE DEF best
  <2> QED BY <1>7, MinOfFinite
<1>9. DominantLabel(p) = Min(best)
  BY DEF DominantLabel
<1> QED BY <1>1, <1>8, <1>9

LEMMA ViewsSort ==
  ASSUME ArchTyped
  PROVE  LET views == {ModuleView(label) : label \in Range(labels)}
         IN  IsFiniteSet(views) /\ views # {} /\ StrictOrder(views, Pairs(views, LargerFirst))
<1> DEFINE all == Range(labels)
           f == [label \in all |-> ModuleView(label)]
           views == {ModuleView(label) : label \in all}
<1>1. all \subseteq Nat /\ all # {} /\ IsFiniteSet(all)
  BY LabelsInUse
<1>2. views = {f[label] : label \in all}
  OBVIOUS
<1>3. IsFiniteSet(views) /\ views # {}
  <2>1. IsFiniteSet({f[label] : label \in all})
    <3> HIDE DEF all, f
    <3> QED BY <1>1, ImageIsFinite
  <2> QED BY <1>1, <1>2, <2>1
<1>4. \A label \in all : /\ ModuleView(label).label = label
                         /\ ModuleView(label).size = Cardinality(MembersOf(label))
                         /\ label \in Int /\ Cardinality(MembersOf(label)) \in Int
  <2> TAKE label \in all
  <2>1. IsFiniteSet(MembersOf(label))
    BY ArchitectureAssumption, FS_Subset DEF MembersOf
  <2>2. Cardinality(MembersOf(label)) \in Int
    BY <2>1, FS_CardinalityType
  <2> QED BY <1>1, <2>2 DEF ModuleView
<1>5. \A a \in views : a.size \in Int /\ a.label \in Int
  <2> HIDE DEF all
  <2> QED BY <1>4
<1>6. \A a, b \in views : a.label = b.label => a = b
  <2> HIDE DEF all
  <2> QED BY <1>4
<1> HIDE DEF views
<1>7. \A a \in views : ~LargerFirst(a, a)
  BY <1>5 DEF LargerFirst
<1>8. \A a, b, c \in views : LargerFirst(a, b) /\ LargerFirst(b, c) => LargerFirst(a, c)
  BY <1>5 DEF LargerFirst
<1>9. \A a, b \in views : a = b \/ LargerFirst(a, b) \/ LargerFirst(b, a)
  BY <1>5, <1>6 DEF LargerFirst
<1>10. \A a, b \in views : <<a, b>> \in Pairs(views, LargerFirst) <=> LargerFirst(a, b)
  BY DEF Pairs
<1>11. StrictOrder(views, Pairs(views, LargerFirst))
  BY <1>7, <1>8, <1>9, <1>10 DEF StrictOrder
<1> QED BY <1>3, <1>11 DEF views

\* _heuristic_modules: what is reported are whole communities, once each, the largest.
LEMMA ReportsCommunities ==
  ASSUME ArchTyped, ReportModules
  PROVE  modules' # <<>> /\ CommunitiesOnce'
<1> DEFINE all == Range(labels)
           views == {ModuleView(label) : label \in all}
           R == Pairs(views, LargerFirst)
           s == Ranked(views, R)
           n == Cardinality(views)
<1>1. modules' = Leading(s, ModuleCap) /\ labels' = labels
  BY DEF ReportModules, Sorted
<1>2. IsFiniteSet(views) /\ views # {} /\ StrictOrder(views, R)
  BY ViewsSort
<1>3. /\ s \in Seq(views) /\ n \in Nat /\ Len(s) = n
      /\ {s[i] : i \in DOMAIN s} = views
      /\ \A i, j \in DOMAIN s : i < j => <<s[i], s[j]>> \in R
  <2> HIDE DEF views, R
  <2> QED BY <1>2, RankedIsSequence
<1>4. n # 0
  <2> HIDE DEF views
  <2> QED BY <1>2, FS_EmptySet
<1> DEFINE m == IF n < ModuleCap THEN n ELSE ModuleCap
<1>5. m \in Nat /\ m <= n /\ m <= ModuleCap /\ m >= 1 /\ (m = n \/ m = ModuleCap)
  <2> HIDE DEF views, n
  <2> QED BY <1>3, <1>4, ArchitectureAssumption
<1>6. modules' = SubSeq(s, 1, m)
  BY <1>1, <1>3 DEF Leading
<1>7. Len(modules') = m /\ DOMAIN modules' = 1..m /\ \A k \in 1..m : modules'[k] = s[k]
  <2> HIDE DEF s, m, n, views
  <2> QED BY <1>3, <1>5, <1>6
<1>8. \A k \in 1..n : s[k] \in views
  <2> HIDE DEF s, n, views
  <2> QED BY <1>3
<1>9. \A a \in views : a.label \in all /\ a.size = Cardinality(MembersOf(a.label))
  <2>1. \A label \in all : ModuleView(label).label = label
                         /\ ModuleView(label).size = Cardinality(MembersOf(label))
    BY DEF ModuleView
  <2>2. \A a \in views : \E label \in all : a = ModuleView(label)
    OBVIOUS
  <2> HIDE DEF views, all
  <2> QED BY <2>1, <2>2
<1>10. \A i, j \in 1..n : i < j => LargerFirst(s[i], s[j])
  <2>1. \A a, b : <<a, b>> \in R => LargerFirst(a, b)
    BY DEF Pairs
  <2> HIDE DEF s, n, views, R
  <2>2. DOMAIN s = 1..n
    BY <1>3
  <2>3. \A i, j \in 1..n : i < j => <<s[i], s[j]>> \in R
    BY <1>3, <2>2
  <2> QED BY <2>1, <2>3
<1>11. \A label \in all : \E i \in 1..n : s[i].label = label
  <2> TAKE label \in all
  <2>1. ModuleView(label) \in views /\ ModuleView(label).label = label
    BY DEF ModuleView
  <2> HIDE DEF views, s, n
  <2>2. PICK i \in DOMAIN s : s[i] = ModuleView(label)
    BY <1>3, <2>1
  <2>3. DOMAIN s = 1..n
    BY <1>3
  <2> QED BY <2>1, <2>2, <2>3
<1>12. \A a \in views : a.label \in Int /\ a.size \in Int
  <2> TAKE a \in views
  <2>1. PICK label \in all : a = ModuleView(label)
    OBVIOUS
  <2>2. label \in Nat
    BY DEF ArchTyped, Range
  <2>3. IsFiniteSet(MembersOf(label))
    BY ArchitectureAssumption, FS_Subset DEF MembersOf
  <2>4. Cardinality(MembersOf(label)) \in Int
    BY <2>3, FS_CardinalityType
  <2>5. a.label = label /\ a.size = Cardinality(MembersOf(label))
    BY <2>1 DEF ModuleView
  <2> QED BY <2>2, <2>4, <2>5
<1>13. \A label : MembersOf(label)' = MembersOf(label)
  BY <1>1 DEF MembersOf
<1> HIDE DEF s, n, views, R
<1>14. \A k \in 1..m : k \in 1..n
  BY <1>3, <1>5
<1>15. \A k \in DOMAIN modules' : modules'[k].size = Cardinality(MembersOf(modules'[k].label))
  BY <1>7, <1>8, <1>9, <1>14
<1>16. \A k, j \in DOMAIN modules' : k # j => modules'[k].label # modules'[j].label
  <2>1. ASSUME NEW k \in 1..n, NEW j \in 1..n, k < j PROVE s[k].label # s[j].label
    <3>1. LargerFirst(s[k], s[j]) /\ s[k] \in views /\ s[j] \in views
      BY <1>8, <1>10, <2>1
    <3>2. s[k].label = s[j].label => s[k].size = s[j].size
      BY <1>9, <3>1
    <3> QED BY <1>12, <3>1, <3>2 DEF LargerFirst
  <2>2. ASSUME NEW k \in 1..m, NEW j \in 1..m, k # j PROVE s[k].label # s[j].label
    <3>1. k \in 1..n /\ j \in 1..n /\ (k < j \/ j < k)
      BY <1>5, <1>14, <2>2
    <3> QED BY <2>1, <3>1
  <2> QED BY <1>7, <2>2
<1>17. \A p \in Sources :
          \/ \E k \in DOMAIN modules' : modules'[k].label = labels[p]
          \/ /\ Len(modules') = ModuleCap
             /\ \A k \in DOMAIN modules' : modules'[k].size >= Cardinality(MembersOf(labels[p]))
  <2> TAKE p \in Sources
  <2>1. labels[p] \in all
    BY DEF ArchTyped, Range
  <2>2. PICK i \in 1..n : s[i].label = labels[p]
    BY <1>11, <2>1
  <2>3. CASE i \in 1..m
    BY <1>7, <2>2, <2>3
  <2>4. CASE i \notin 1..m
    <3>1. m = ModuleCap /\ i > m /\ i \in Int
      BY <1>3, <1>5, <2>4
    <3>2. ASSUME NEW k \in 1..m PROVE s[k].size >= s[i].size
      <4>1. k \in 1..n /\ k < i
        BY <1>5, <1>14, <3>1
      <4>2. LargerFirst(s[k], s[i]) /\ s[k] \in views /\ s[i] \in views
        BY <1>8, <1>10, <4>1
      <4> QED BY <1>12, <4>2 DEF LargerFirst
    <3>3. s[i].size = Cardinality(MembersOf(labels[p]))
      BY <1>8, <1>9, <2>2
    <3> QED BY <1>7, <3>1, <3>2, <3>3
  <2> QED BY <2>3, <2>4
<1>18. modules' # <<>>
  BY <1>5, <1>7
<1> QED BY <1>1, <1>13, <1>15, <1>16, <1>17, <1>18 DEF CommunitiesOnce

LEMMA ArchStep ==
  ASSUME ArchInv, [ArchNext]_archVars
  PROVE  ArchInv'
<1>1. CASE UNCHANGED archVars
  <2>1. \A p : DominantLabel(p)' = DominantLabel(p)
    BY <1>1 DEF archVars, DominantLabel, Votes, Adjacent
  <2>2. \A label : MembersOf(label)' = MembersOf(label)
    BY <1>1 DEF archVars, MembersOf
  <2> QED BY <1>1, <2>1, <2>2
        DEF archVars, ArchInv, ArchTyped, VisitedDominate, ModulesHold, CommunitiesOnce, Ended, Settled, Visited
<1>2. CASE VisitFile
  <2> DEFINE p == PathOrder[visiting.next]
  <2>1. /\ source = "heuristic" /\ ~Visited
        /\ labels' = [labels EXCEPT ![p] = DominantLabel(p)]
        /\ visiting' = [visiting EXCEPT !.next = @ + 1, !.changed = @ \/ DominantLabel(p) # labels[p]]
        /\ edges' = edges /\ source' = source /\ modules' = modules
    BY <1>2, PathOrderSorts DEF VisitFile
  <2>2. visiting.next \in 1..Cardinality(Sources) /\ p \in Sources
    <3>1. visiting.next \in 1..Cardinality(Sources)
      BY <2>1, PathOrderIs DEF Visited, ArchInv, ArchTyped
    <3> QED BY <3>1, PathOrderIs
  <2> HIDE DEF p
  <2>3. DominantLabel(p) \in Nat
    BY <2>2, DominantIs DEF ArchInv
  <2>4. visiting'.next = visiting.next + 1 /\ visiting'.changed = (visiting.changed \/ DominantLabel(p) # labels[p])
        /\ visiting' = [pass |-> visiting'.pass, next |-> visiting'.next, changed |-> visiting'.changed]
    BY <2>1 DEF ArchInv, ArchTyped
  <2>5. ArchTyped'
    <3>1. labels' \in [Sources -> Nat]
      BY <2>1, <2>2, <2>3 DEF ArchInv, ArchTyped
    <3>2. visiting'.next \in Nat \ {0} /\ visiting'.changed \in BOOLEAN
      BY <2>4 DEF ArchInv, ArchTyped
    <3> QED BY <2>4, <3>1, <3>2 DEF ArchTyped
  <2>6. VisitedDominate'
    <3> SUFFICES ASSUME ~visiting'.changed PROVE VisitedDominate'
      BY DEF VisitedDominate
    <3>1. ~visiting.changed /\ DominantLabel(p) = labels[p]
      BY <2>4
    <3>2. labels' = labels
      BY <2>1, <2>2, <3>1 DEF ArchInv, ArchTyped
    <3>3. \A q : DominantLabel(q)' = DominantLabel(q)
      <4>1. edges' = edges
        BY <2>1
      <4> QED BY <3>2, <4>1 DEF DominantLabel, Votes, Adjacent
    <3>4. ASSUME NEW i \in 1..Cardinality(Sources), i < visiting'.next
          PROVE  labels'[PathOrder[i]] = DominantLabel(PathOrder[i])
      <4>1. i < visiting.next \/ i = visiting.next
        BY <2>2, <2>4, <3>4, PathOrderIs
      <4>2. CASE i < visiting.next
        BY <3>1, <3>2, <4>2 DEF ArchInv, VisitedDominate
      <4>3. CASE i = visiting.next
        BY <3>1, <3>2, <4>3 DEF p
      <4> QED BY <4>1, <4>2, <4>3
    <3>5. PathOrder' = PathOrder
      BY DEF PathOrder
    <3> QED BY <3>3, <3>4, <3>5 DEF VisitedDominate
  <2>7. ModulesHold'
    <3>1. ~Ended
      BY <2>1 DEF Ended, Settled
    <3> QED BY <2>1, <3>1 DEF ArchInv, ModulesHold
  <2> QED BY <2>5, <2>6, <2>7 DEF ArchInv
<1>3. CASE NextPass
  <2>1. /\ visiting' = [pass |-> visiting.pass + 1, next |-> 1, changed |-> FALSE] /\ ~Ended
        /\ labels' = labels /\ source' = source /\ modules' = modules /\ source = "heuristic"
    BY <1>3 DEF NextPass
  <2>2. ArchTyped'
    BY <2>1 DEF ArchInv, ArchTyped
  <2>3. VisitedDominate'
    BY <2>1, PathOrderIs DEF VisitedDominate
  <2>4. ModulesHold'
    BY <2>1 DEF ArchInv, ModulesHold
  <2> QED BY <2>2, <2>3, <2>4 DEF ArchInv
<1>4. CASE ReportModules
  <2>1. /\ edges' = edges /\ source' = source /\ labels' = labels /\ visiting' = visiting /\ Ended
        /\ source = "heuristic"
    BY <1>4 DEF ReportModules
  <2>2. ArchTyped' /\ Ended'
    BY <2>1 DEF ArchInv, ArchTyped, Ended, Settled, Visited
  <2>3. \A p : DominantLabel(p)' = DominantLabel(p)
    BY <2>1 DEF DominantLabel, Votes, Adjacent
  <2>4. VisitedDominate'
    <3>1. PathOrder' = PathOrder
      BY DEF PathOrder
    <3> QED BY <2>1, <2>3, <3>1 DEF ArchInv, VisitedDominate
  <2>5. CommunitiesOnce'
    BY <1>4, ReportsCommunities DEF ArchInv
  <2>6. ModulesHold'
    BY <2>1, <2>2, <2>5 DEF ModulesHold
  <2> QED BY <2>2, <2>4, <2>6 DEF ArchInv
<1>5. ASSUME NEW healthy \in BOOLEAN, SelectClusterer(healthy) PROVE ArchInv'
  <2>1. /\ source = "unknown" /\ edges' = edges /\ labels' = labels /\ visiting' = visiting /\ modules' = modules
        /\ source' = IF healthy THEN "cbm" ELSE "heuristic"
    BY <1>5 DEF SelectClusterer
  <2>2. modules = <<>>
    BY <2>1 DEF ArchInv, ModulesHold
  <2>3. \A p : DominantLabel(p)' = DominantLabel(p)
    BY <2>1 DEF DominantLabel, Votes, Adjacent
  <2>4. VisitedDominate'
    <3>1. PathOrder' = PathOrder
      BY DEF PathOrder
    <3> QED BY <2>1, <2>3, <3>1 DEF ArchInv, VisitedDominate
  <2>5. ArchTyped'
    BY <2>1 DEF ArchInv, ArchTyped
  <2>6. ModulesHold'
    BY <2>1, <2>2 DEF ModulesHold
  <2> QED BY <2>4, <2>5, <2>6 DEF ArchInv
<1>6. ASSUME NEW works, NEW partition, ReportClusters(works, partition) PROVE ArchInv'
  <2>1. /\ source = "cbm" /\ edges' = edges /\ labels' = labels /\ visiting' = visiting /\ source' = source
    BY <1>6 DEF ReportClusters
  <2>2. \A p : DominantLabel(p)' = DominantLabel(p)
    BY <2>1 DEF DominantLabel, Votes, Adjacent
  <2>3. VisitedDominate'
    <3>1. PathOrder' = PathOrder
      BY DEF PathOrder
    <3> QED BY <2>1, <2>2, <3>1 DEF ArchInv, VisitedDominate
  <2>4. ArchTyped'
    BY <2>1 DEF ArchInv, ArchTyped
  <2>5. ModulesHold'
    BY <2>1 DEF ModulesHold
  <2> QED BY <2>3, <2>4, <2>5 DEF ArchInv
<1> QED BY <1>1, <1>2, <1>3, <1>4, <1>5, <1>6 DEF ArchNext

\* The pass that moves no file was a pass over dominant labels.
LEMMA SettledDominates ==
  ASSUME ArchInv, Settled
  PROVE  LabelsDominate
<1>1. \A i \in 1..Cardinality(Sources) : i < visiting.next
  BY PathOrderIs DEF ArchInv, ArchTyped, Settled, Visited
<1>2. \A p \in Sources : labels[p] = DominantLabel(p)
  <2> TAKE p \in Sources
  <2>1. PICK i \in 1..Cardinality(Sources) : PathOrder[i] = p
    BY PathOrderIs
  <2> QED BY <1>1, <2>1 DEF ArchInv, VisitedDominate, Settled
<1>3. \A p \in Sources : \A other \in Range(labels) : Votes(p, other) <= Votes(p, DominantLabel(p))
  BY DominantIs DEF ArchInv
<1> QED BY <1>2, <1>3 DEF LabelsDominate

\* Whatever the files, the imports and the bound on the passes: the modules that
\* _heuristic_modules reports are the largest communities, whole and once each, and the label
\* of every file is dominant unless _label_propagation was cut off by its bound in a pass
\* that moved a file.
THEOREM SettledModules == ArchSpec => []ModulesAreSettled
<1>1. ArchInit => ArchInv
  <2> SUFFICES ASSUME ArchInit PROVE ArchInv
    OBVIOUS
  <2>1. ArchTyped
    BY ArchitectureAssumption DEF ArchInit, ArchTyped
  <2>2. VisitedDominate
    BY PathOrderIs DEF ArchInit, VisitedDominate
  <2>3. ModulesHold
    BY DEF ArchInit, ModulesHold
  <2> QED BY <2>1, <2>2, <2>3 DEF ArchInv
<1>2. ArchInv => ModulesAreSettled
  <2> SUFFICES ASSUME ArchInv, modules # <<>>, source = "heuristic"
               PROVE  CommunitiesOnce /\ (LabelsDominate \/ CutOff)
    BY DEF ModulesAreSettled
  <2>1. Ended /\ CommunitiesOnce
    BY DEF ArchInv, ModulesHold
  <2>2. CASE visiting.changed
    BY <2>1, <2>2 DEF Ended, Settled, CutOff
  <2>3. CASE ~visiting.changed
    BY <2>1, <2>3, SettledDominates DEF Ended, Settled
  <2> QED BY <2>1, <2>2, <2>3
<1> QED BY <1>1, <1>2, ArchStep, PTL DEF ArchSpec

-----------------------------------------------------------------------------
(* The import cycles *)

OnStack == {stack[i] : i \in DOMAIN stack}
ClosedOff == DOMAIN index \ OnStack
GraphTyped == graph # <<>> => graph \in [Paths -> SUBSET Paths]
Untouched == graph = <<>> => index = <<>> /\ lowlink = <<>> /\ stack = <<>> /\ work = <<>> /\ components = {}

\* What is numbered, and how.
NumbersTyped ==
  /\ DOMAIN index \in SUBSET Paths
  /\ index \in [DOMAIN index -> Nat] /\ lowlink \in [DOMAIN index -> Nat]
  /\ \A p \in DOMAIN index : index[p] < Cardinality(DOMAIN index)
StackTyped ==
  /\ stack \in Seq(DOMAIN index)
  /\ \A i, j \in DOMAIN stack : i < j => index[stack[i]] < index[stack[j]]
WorkTyped ==
  /\ work \in Seq([node : Paths, left : SUBSET Paths])
  /\ \A i \in DOMAIN work :
       /\ work[i].node \in OnStack
       /\ work[i].left \subseteq graph[work[i].node]
       /\ lowlink[work[i].node] <= index[work[i].node]
  /\ \A i, j \in DOMAIN work : i < j => index[work[i].node] < index[work[j].node]

\* A node at work reaches everything that was pushed since.
NodesReach ==
  \A i \in DOMAIN work : \A y \in OnStack :
    index[work[i].node] <= index[y] => y \in Reaches(work[i].node)
\* What is on the stack reaches a node at work that was pushed no later.
StackReaches ==
  \A x \in OnStack : \E i \in DOMAIN work :
    index[work[i].node] <= index[x] /\ work[i].node \in Reaches(x)
\* What is closed off stays among itself.
ClosedStays == \A p \in ClosedOff : graph[p] \subseteq ClosedOff
\* A path belongs to the last node at work that was pushed no later; the imports it has
\* looked at are numbered, and no smaller than what that node could reach.
BelongsTo(x, i) ==
  /\ index[work[i].node] <= index[x]
  /\ \A j \in DOMAIN work : i < j => index[x] < index[work[j].node]
LookedAt(x, i) == IF x = work[i].node THEN graph[x] \ work[i].left ELSE graph[x]
LowIsLow ==
  \A x \in OnStack : \A i \in DOMAIN work : BelongsTo(x, i) =>
    \A y \in LookedAt(x, i) : y \in DOMAIN index /\ (y \in OnStack => lowlink[work[i].node] <= index[y])
\* What a node could reach, it reaches.
LowIsReached ==
  \A i \in DOMAIN work : \E y \in OnStack :
    index[y] = lowlink[work[i].node] /\ y \in Reaches(work[i].node)
\* The components are of what is closed off, and exact.
Exact(c) == \A p \in c : c = {q \in Reaches(p) : p \in Reaches(q)}
ComponentsClosed == UNION components = ClosedOff /\ \A c \in components : Exact(c)

WalkTyped == GraphTyped /\ Untouched /\ NumbersTyped /\ StackTyped /\ WorkTyped
WalkReaches == NodesReach /\ StackReaches /\ ClosedStays
WalkLow == LowIsLow /\ LowIsReached
CyclesInv == WalkTyped /\ WalkReaches /\ WalkLow /\ ComponentsClosed

-----------------------------------------------------------------------------
LEMMA ReachesFacts ==
  ASSUME graph \in [Paths -> SUBSET Paths]
  PROVE  /\ \A p \in Paths : p \in Reaches(p) /\ Reaches(p) \subseteq Paths /\ graph[p] \subseteq Reaches(p)
         /\ \A p, q, r \in Paths : q \in Reaches(p) /\ r \in Reaches(q) => r \in Reaches(p)
         /\ \A S \in SUBSET Paths : (\A p \in S : graph[p] \subseteq S) => \A p \in S : Reaches(p) \subseteq S
<1>1. ASSUME NEW p \in Paths PROVE p \in Reaches(p) /\ Reaches(p) \subseteq Paths /\ graph[p] \subseteq Reaches(p)
  BY DEF Reaches, SelfContained
<1>2. ASSUME NEW p \in Paths, NEW q \in Paths, NEW r \in Paths, q \in Reaches(p), r \in Reaches(q)
      PROVE  r \in Reaches(p)
  BY <1>2 DEF Reaches
<1>3. ASSUME NEW S \in SUBSET Paths, \A p \in S : graph[p] \subseteq S, NEW p \in S
      PROVE  Reaches(p) \subseteq S
  <2>1. S \in SelfContained
    BY <1>3 DEF SelfContained
  <2> QED BY <2>1, <1>3 DEF Reaches
<1> QED BY <1>1, <1>2, <1>3

LEMMA FileOfModuleTyped ==
  ASSUME NEW key
  PROVE  FileOfModule(key) \in Paths \cup {NoFile}
<1> DEFINE named == {p \in Paths : ModuleKey[p] = key}
<1>1. CASE key = <<>> \/ named = {}
  BY <1>1 DEF FileOfModule
<1>2. CASE ~(key = <<>> \/ named = {})
  <2>1. IsFiniteSet(named) /\ named \in SUBSET Int
    <3>1. named \subseteq Paths /\ Paths \subseteq Int
      BY ImportCyclesAssumption
    <3> QED BY <3>1, ImportCyclesAssumption, FS_Subset
  <2>2. Min(named) \in named
    BY <2>1, <1>2, MinOfFinite
  <2> QED BY <1>2, <2>2 DEF FileOfModule
<1> QED BY <1>1, <1>2

LEMMA ResolvedTyped ==
  ASSUME NEW p, NEW imp
  PROVE  Resolved(p, imp) \in Paths \cup {NoFile}
<1> DEFINE absolute == Absolute(p, imp)
           submodule == IF imp.name = <<>> THEN NoFile ELSE FileOfModule(absolute \o imp.name)
<1> HIDE DEF absolute
<1>1. submodule \in Paths \cup {NoFile} /\ FileOfModule(absolute) \in Paths \cup {NoFile}
  BY FileOfModuleTyped
<1>2. Resolved(p, imp) = IF absolute = <<>> THEN NoFile ELSE IF submodule # NoFile THEN submodule ELSE FileOfModule(absolute)
  BY DEF Resolved, absolute
<1> HIDE DEF submodule
<1> QED BY <1>1, <1>2

LEMMA CyclesInvInit == CyclesInit => CyclesInv
<1> SUFFICES ASSUME CyclesInit PROVE CyclesInv
  OBVIOUS
<1>1. index = <<>> /\ lowlink = <<>> /\ stack = <<>> /\ work = <<>> /\ components = {} /\ graph = <<>>
  BY DEF CyclesInit
<1>2. DOMAIN index = {} /\ DOMAIN lowlink = {} /\ DOMAIN stack = {} /\ DOMAIN work = {}
  BY <1>1
<1>3. OnStack = {} /\ ClosedOff = {}
  BY <1>2 DEF OnStack, ClosedOff
<1>4. GraphTyped /\ Untouched
  BY <1>1 DEF GraphTyped, Untouched
<1>5. NumbersTyped
  BY <1>1, <1>2 DEF NumbersTyped
<1>6. StackTyped /\ WorkTyped
  BY <1>1, <1>2 DEF StackTyped, WorkTyped
<1>7. WalkReaches /\ WalkLow /\ ComponentsClosed
  BY <1>1, <1>2, <1>3 DEF WalkReaches, NodesReach, StackReaches, ClosedStays, WalkLow, LowIsLow, LowIsReached, ComponentsClosed
<1> QED BY <1>4, <1>5, <1>6, <1>7 DEF CyclesInv, WalkTyped

\* Opening a node numbers it above all others and pushes it.
LEMMA OpenNodeFacts ==
  ASSUME NumbersTyped, StackTyped, NEW p \in Paths, ~Opened(p), OpenNode(p)
  PROVE  /\ NumbersTyped' /\ StackTyped'
         /\ p \notin DOMAIN index /\ DOMAIN index' = DOMAIN index \cup {p}
         /\ OnStack \subseteq DOMAIN index /\ OnStack' = OnStack \cup {p} /\ ClosedOff' = ClosedOff
         /\ lowlink'[p] = index'[p]
         /\ \A q \in DOMAIN index : index'[q] = index[q] /\ lowlink'[q] = lowlink[q] /\ index[q] < index'[p]
<1> DEFINE n == Cardinality(DOMAIN index)
<1>1. p \notin DOMAIN index /\ IsFiniteSet(DOMAIN index)
  BY ImportCyclesAssumption, FS_Subset DEF Opened, NumbersTyped
<1>2. n \in Nat /\ Cardinality(DOMAIN index \cup {p}) = n + 1
  BY <1>1, FS_CardinalityType, FS_AddElement
<1>3. /\ index' = [q \in DOMAIN index \cup {p} |-> IF q = p THEN n ELSE index[q]]
      /\ lowlink' = [q \in DOMAIN index \cup {p} |-> IF q = p THEN n ELSE lowlink[q]]
      /\ stack' = Append(stack, p)
  <2>1. DOMAIN lowlink = DOMAIN index
    BY DEF NumbersTyped
  <2> QED BY <2>1 DEF OpenNode, Num
<1> HIDE DEF n
<1>4. DOMAIN index' = DOMAIN index \cup {p} /\ index'[p] = n /\ lowlink'[p] = n
  BY <1>3
<1>5. \A q \in DOMAIN index : index'[q] = index[q] /\ lowlink'[q] = lowlink[q] /\ index[q] < index'[p]
  BY <1>1, <1>3, <1>4 DEF NumbersTyped, n
<1>6. NumbersTyped'
  <2>1. index' \in [DOMAIN index' -> Nat] /\ lowlink' \in [DOMAIN index' -> Nat]
    BY <1>2, <1>3 DEF NumbersTyped
  <2>2. \A q \in DOMAIN index' : index'[q] < n + 1
    BY <1>2, <1>4, <1>5 DEF NumbersTyped
  <2>3. DOMAIN index' \in SUBSET Paths
    BY <1>4 DEF NumbersTyped
  <2> QED BY <2>1, <2>2, <2>3, <1>2, <1>4 DEF NumbersTyped
<1>7. /\ Len(stack) \in Nat /\ DOMAIN stack = 1..Len(stack) /\ \A i \in DOMAIN stack : stack[i] \in DOMAIN index
      /\ stack' \in Seq(DOMAIN index') /\ DOMAIN stack' = 1..Len(stack) + 1 /\ stack'[Len(stack) + 1] = p
      /\ \A i \in 1..Len(stack) : stack'[i] = stack[i]
  BY <1>3, <1>4 DEF StackTyped
<1>8. StackTyped'
  <2>1. ASSUME NEW i \in DOMAIN stack', NEW j \in DOMAIN stack', i < j
        PROVE  index'[stack'[i]] < index'[stack'[j]]
    <3>1. i \in DOMAIN stack /\ stack'[i] = stack[i] /\ stack[i] \in DOMAIN index
      BY <1>7, <2>1
    <3>2. CASE j = Len(stack) + 1
      BY <3>1, <3>2, <1>5, <1>7
    <3>3. CASE j # Len(stack) + 1
      <4>1. j \in DOMAIN stack /\ stack'[j] = stack[j] /\ stack[j] \in DOMAIN index
        BY <3>3, <1>7
      <4> QED BY <3>1, <4>1, <2>1, <1>5 DEF StackTyped
    <3> QED BY <3>2, <3>3
  <2> QED BY <2>1, <1>7 DEF StackTyped
<1>9. OnStack \subseteq DOMAIN index /\ OnStack' = OnStack \cup {p}
  <2>1. OnStack' = {stack'[i] : i \in DOMAIN stack'}
    BY DEF OnStack
  <2> QED BY <1>7, <2>1 DEF OnStack
<1>10. ClosedOff' = ClosedOff
  BY <1>1, <1>4, <1>9 DEF ClosedOff
<1> QED BY <1>1, <1>4, <1>5, <1>6, <1>8, <1>9, <1>10

LEMMA BuildGraphKeeps == CyclesInv /\ BuildGraph => CyclesInv'
<1> SUFFICES ASSUME CyclesInv, BuildGraph PROVE CyclesInv'
  OBVIOUS
<1>1. index' = <<>> /\ lowlink' = <<>> /\ stack' = <<>> /\ work' = <<>> /\ components' = {}
  BY DEF BuildGraph, CyclesInv, WalkTyped, Untouched
<1>2. GraphTyped'
  <2> DEFINE Of(p) == {Resolved(p, imp) : imp \in parsed[p]} \ {NoFile, p}
  <2>1. graph' = [p \in Paths |-> Of(p)]
    BY DEF BuildGraph
  <2>2. \A p \in Paths : Of(p) \subseteq Paths
    BY ResolvedTyped
  <2> HIDE DEF Of
  <2>3. graph' \in [Paths -> SUBSET Paths]
    BY <2>1, <2>2
  <2> QED BY <2>3 DEF GraphTyped
<1>3. DOMAIN index' = {} /\ DOMAIN lowlink' = {} /\ DOMAIN stack' = {} /\ DOMAIN work' = {}
  BY <1>1
<1>4. OnStack' = {} /\ ClosedOff' = {}
  BY <1>3 DEF OnStack, ClosedOff
<1>5. Untouched'
  BY <1>1 DEF Untouched
<1>6. NumbersTyped'
  BY <1>1, <1>3 DEF NumbersTyped
<1>7. StackTyped' /\ WorkTyped'
  BY <1>1, <1>3 DEF StackTyped, WorkTyped
<1>8. WalkReaches' /\ WalkLow' /\ ComponentsClosed'
  BY <1>1, <1>3, <1>4 DEF WalkReaches, NodesReach, StackReaches, ClosedStays, WalkLow, LowIsLow, LowIsReached, ComponentsClosed
<1> QED BY <1>2, <1>5, <1>6, <1>7, <1>8 DEF CyclesInv, WalkTyped

\* Steps that leave the graph leave what is reached and what is exact.
LEMMA SameGraph ==
  ASSUME graph' = graph
  PROVE  /\ (\A p : Reaches(p)' = Reaches(p)) /\ (GraphTyped => GraphTyped')
         /\ \A c : Exact(c)' = Exact(c)
<1>1. \A p : Reaches(p)' = Reaches(p)
  BY DEF Reaches, SelfContained
<1>2. GraphTyped => GraphTyped'
  BY DEF GraphTyped
<1>3. \A c : Exact(c)' = Exact(c)
  BY <1>1 DEF Exact
<1> QED BY <1>1, <1>2, <1>3

LEMMA RootKeeps == CyclesInv /\ Root => CyclesInv'
<1> SUFFICES ASSUME CyclesInv, Root PROVE CyclesInv'
  OBVIOUS
<1>1. PICK p \in Paths : ~Opened(p) /\ OpenNode(p) /\ work' = <<[node |-> p, left |-> graph[p]]>>
  BY DEF Root
<1>2. graph' = graph /\ components' = components /\ graph # <<>> /\ work = <<>> /\ graph \in [Paths -> SUBSET Paths]
  BY DEF Root, CyclesInv, WalkTyped, GraphTyped
<1>3. /\ NumbersTyped' /\ StackTyped'
      /\ p \notin DOMAIN index /\ DOMAIN index' = DOMAIN index \cup {p}
      /\ OnStack \subseteq DOMAIN index /\ OnStack' = OnStack \cup {p} /\ ClosedOff' = ClosedOff
      /\ lowlink'[p] = index'[p]
      /\ \A q \in DOMAIN index : index'[q] = index[q] /\ lowlink'[q] = lowlink[q] /\ index[q] < index'[p]
  BY <1>1, OpenNodeFacts DEF CyclesInv, WalkTyped
<1>4. OnStack = {}
  <2>1. DOMAIN work = {}
    BY <1>2
  <2> QED BY <2>1 DEF CyclesInv, WalkReaches, StackReaches
<1>5. OnStack' = {p}
  BY <1>3, <1>4
<1>6. DOMAIN work' = {1} /\ work'[1].node = p /\ work'[1].left = graph[p]
  BY <1>1
<1>7. /\ (\A q : Reaches(q)' = Reaches(q)) /\ GraphTyped' /\ (\A c : Exact(c)' = Exact(c))
  BY <1>2, SameGraph DEF CyclesInv, WalkTyped
<1>8. p \in Reaches(p)
  BY <1>2, ReachesFacts
<1>9. index'[p] \in Nat
  BY <1>3 DEF NumbersTyped
<1>10. WorkTyped'
  <2>1. [node |-> p, left |-> graph[p]] \in [node : Paths, left : SUBSET Paths]
    BY <1>2
  <2>2. work' \in Seq([node : Paths, left : SUBSET Paths])
    BY <1>1, <2>1
  <2>3. \A i \in DOMAIN work' : i = 1
    BY <1>6
  <2> QED BY <2>2, <2>3, <1>2, <1>3, <1>5, <1>6, <1>9 DEF WorkTyped
<1>11. WalkTyped'
  BY <1>2, <1>3, <1>7, <1>10 DEF WalkTyped, Untouched
<1>12. WalkReaches'
  <2>1. NodesReach'
    BY <1>5, <1>6, <1>7, <1>8 DEF NodesReach
  <2>2. StackReaches'
    BY <1>5, <1>6, <1>7, <1>8, <1>9 DEF StackReaches
  <2>3. ClosedStays'
    BY <1>2, <1>3 DEF ClosedStays, CyclesInv, WalkReaches
  <2> QED BY <2>1, <2>2, <2>3 DEF WalkReaches
<1>13. WalkLow'
  <2>1. LowIsLow'
    BY <1>2, <1>5, <1>6 DEF LowIsLow, LookedAt
  <2>2. LowIsReached'
    BY <1>3, <1>5, <1>6, <1>7, <1>8 DEF LowIsReached
  <2> QED BY <2>1, <2>2 DEF WalkLow
<1>14. ComponentsClosed'
  BY <1>2, <1>3, <1>7 DEF ComponentsClosed, CyclesInv
<1> QED BY <1>11, <1>12, <1>13, <1>14 DEF CyclesInv

\* The top of the loop's stack.
LEMMA AtWork ==
  ASSUME CyclesInv, work # <<>>
  PROVE  /\ graph \in [Paths -> SUBSET Paths]
         /\ Len(work) \in Nat \ {0} /\ DOMAIN work = 1..Len(work) /\ Len(work) \in DOMAIN work
         /\ OnStack \subseteq DOMAIN index /\ DOMAIN index \subseteq Paths
         /\ \A i \in DOMAIN work : work[i] \in [node : Paths, left : SUBSET Paths] /\ work[i].node \in OnStack
         /\ \A i \in DOMAIN work : i # Len(work) =>
              i < Len(work) /\ work[i].node # Top.node /\ index[work[i].node] < index[Top.node]
         /\ \A x \in DOMAIN index : index[x] \in Nat /\ lowlink[x] \in Nat
<1>1. graph # <<>> /\ graph \in [Paths -> SUBSET Paths]
  BY DEF CyclesInv, WalkTyped, Untouched, GraphTyped
<1>2. Len(work) \in Nat \ {0} /\ DOMAIN work = 1..Len(work) /\ Len(work) \in DOMAIN work
      /\ \A i \in DOMAIN work : work[i] \in [node : Paths, left : SUBSET Paths]
  <2>1. work \in Seq([node : Paths, left : SUBSET Paths])
    BY DEF CyclesInv, WalkTyped, WorkTyped
  <2>2. Len(work) \in Nat /\ DOMAIN work = 1..Len(work) /\ Len(work) # 0
    BY <2>1
  <2> DEFINE Frames == [node : Paths, left : SUBSET Paths]
  <2> HIDE DEF Frames
  <2>3. work \in Seq(Frames)
    BY <2>1 DEF Frames
  <2>4. \A i \in DOMAIN work : work[i] \in Frames
    BY <2>3
  <2> QED BY <2>2, <2>4 DEF Frames
<1>3. OnStack \subseteq DOMAIN index /\ DOMAIN index \subseteq Paths
  BY DEF CyclesInv, WalkTyped, StackTyped, NumbersTyped, OnStack
<1>4. \A x \in DOMAIN index : index[x] \in Nat /\ lowlink[x] \in Nat
  BY DEF CyclesInv, WalkTyped, NumbersTyped
<1>5. \A i \in DOMAIN work : work[i].node \in OnStack
  BY DEF CyclesInv, WalkTyped, WorkTyped
<1>6. ASSUME NEW i \in DOMAIN work, i # Len(work)
      PROVE  i < Len(work) /\ work[i].node # Top.node /\ index[work[i].node] < index[Top.node]
  <2>1. i < Len(work)
    BY <1>2, <1>6
  <2>2. index[work[i].node] < index[Top.node]
    BY <2>1, <1>2, <1>6 DEF CyclesInv, WalkTyped, WorkTyped, Top
  <2>3. index[Top.node] \in Nat
    BY <1>2, <1>3, <1>4, <1>5 DEF Top
  <2> QED BY <2>1, <2>2, <2>3
<1> QED BY <1>1, <1>2, <1>3, <1>4, <1>5, <1>6

\* The successor that is looked at next.
LEMMA NextLookedAt ==
  ASSUME CyclesInv, Looking
  PROVE  /\ Min(Top.left) \in Top.left /\ Min(Top.left) \in Paths
         /\ Min(Top.left) \in graph[Top.node] /\ Min(Top.left) \in Reaches(Top.node)
<1>1. work # <<>> /\ Top.left # {}
  BY DEF Looking
<1>2. Top \in [node : Paths, left : SUBSET Paths] /\ graph \in [Paths -> SUBSET Paths]
  BY <1>1, AtWork DEF Top
<1>3. IsFiniteSet(Top.left) /\ Top.left \in SUBSET Int /\ Top.left \subseteq Paths /\ Top.node \in Paths
  <2>1. Top.left \subseteq Paths /\ Top.node \in Paths /\ Paths \subseteq Int
    BY <1>2, ImportCyclesAssumption
  <2> QED BY <2>1, ImportCyclesAssumption, FS_Subset
<1>4. Min(Top.left) \in Top.left
  BY <1>1, <1>3, MinOfFinite
<1>5. Top.left \subseteq graph[Top.node]
  BY <1>1, AtWork DEF Top, CyclesInv, WalkTyped, WorkTyped
<1> QED BY <1>2, <1>3, <1>4, <1>5, ReachesFacts

Advanced == [work EXCEPT ![Len(work)].left = @ \ {Min(Top.left)}]
LEMMA AdvancedFacts ==
  ASSUME CyclesInv, work # <<>>
  PROVE  /\ Advanced \in Seq([node : Paths, left : SUBSET Paths]) /\ Len(Advanced) = Len(work)
         /\ \A i \in DOMAIN work :
              /\ Advanced[i].node = work[i].node
              /\ Advanced[i].left = IF i = Len(work) THEN Top.left \ {Min(Top.left)} ELSE work[i].left
<1>1. /\ Len(work) \in Nat \ {0} /\ DOMAIN work = 1..Len(work) /\ Len(work) \in DOMAIN work
      /\ \A i \in DOMAIN work : work[i] \in [node : Paths, left : SUBSET Paths]
      /\ work \in Seq([node : Paths, left : SUBSET Paths])
  BY AtWork DEF CyclesInv, WalkTyped, WorkTyped
<1> DEFINE rest == Top.left \ {Min(Top.left)}
           last == [node |-> Top.node, left |-> rest]
<1>2. Advanced = [work EXCEPT ![Len(work)] = last]
  <2>1. Top = [node |-> Top.node, left |-> Top.left]
    BY <1>1 DEF Top
  <2>2. \A a, b, c : [[node |-> a, left |-> b] EXCEPT !.left = c] = [node |-> a, left |-> c]
    OBVIOUS
  <2>3. [Top EXCEPT !.left = rest] = last
    BY <2>1, <2>2
  <2>4. Advanced = [work EXCEPT ![Len(work)] = [Top EXCEPT !.left = rest]]
    BY DEF Advanced, Top
  <2> QED BY <2>3, <2>4
<1>3. last \in [node : Paths, left : SUBSET Paths]
  BY <1>1 DEF Top
<1>4. last.node = Top.node /\ last.left = rest
  OBVIOUS
<1> HIDE DEF last, rest
<1>5. Advanced \in Seq([node : Paths, left : SUBSET Paths]) /\ Len(Advanced) = Len(work)
      /\ \A i \in DOMAIN work : Advanced[i] = IF i = Len(work) THEN last ELSE work[i]
  BY <1>1, <1>2, <1>3
<1> QED BY <1>1, <1>4, <1>5 DEF Top, rest

LEMMA SeenKeeps == CyclesInv /\ Seen => CyclesInv'
<1> SUFFICES ASSUME CyclesInv, Seen PROVE CyclesInv'
  OBVIOUS
<1> DEFINE v == Top.node
           next == Min(Top.left)
           k == Len(work)
<1>1. Looking /\ work # <<>> /\ next \in DOMAIN index
      /\ graph' = graph /\ index' = index /\ stack' = stack /\ components' = components
      /\ work' = Advanced
      /\ lowlink' = IF Contains(stack, next) THEN [lowlink EXCEPT ![v] = Min({lowlink[v], index[next]})] ELSE lowlink
  BY DEF Seen, Looking, Opened, Advanced
<1>2. /\ graph \in [Paths -> SUBSET Paths]
      /\ k \in Nat \ {0} /\ DOMAIN work = 1..k /\ k \in DOMAIN work
      /\ OnStack \subseteq DOMAIN index /\ DOMAIN index \subseteq Paths
      /\ \A i \in DOMAIN work : work[i] \in [node : Paths, left : SUBSET Paths] /\ work[i].node \in OnStack
      /\ \A i \in DOMAIN work : i # k => i < k /\ work[i].node # v /\ index[work[i].node] < index[v]
      /\ \A x \in DOMAIN index : index[x] \in Nat /\ lowlink[x] \in Nat
  BY <1>1, AtWork
<1>3. next \in Top.left /\ next \in Paths /\ next \in graph[v] /\ next \in Reaches(v)
  BY <1>1, NextLookedAt
<1>4. /\ work' \in Seq([node : Paths, left : SUBSET Paths]) /\ DOMAIN work' = DOMAIN work
      /\ \A i \in DOMAIN work : work'[i].node = work[i].node
      /\ \A i \in DOMAIN work : work'[i].left = IF i = k THEN work[i].left \ {next} ELSE work[i].left
  <2>1. /\ Advanced \in Seq([node : Paths, left : SUBSET Paths]) /\ Len(Advanced) = Len(work)
        /\ \A i \in DOMAIN work :
              /\ Advanced[i].node = work[i].node
              /\ Advanced[i].left = IF i = Len(work) THEN Top.left \ {Min(Top.left)} ELSE work[i].left
    BY <1>1, AdvancedFacts
  <2>2. DOMAIN Advanced = 1..Len(Advanced)
    BY <2>1
  <2>3. Top.left = work[k].left
    BY DEF Top
  <2> QED BY <1>1, <1>2, <2>1, <2>2, <2>3
<1>5. v = work[k].node /\ v \in OnStack /\ v \in DOMAIN index
  BY <1>2 DEF Top
<1> HIDE DEF v, next, k
<1>6. OnStack' = OnStack /\ ClosedOff' = ClosedOff
  BY <1>1 DEF OnStack, ClosedOff
<1>7. /\ (\A q : Reaches(q)' = Reaches(q)) /\ GraphTyped' /\ (\A c : Exact(c)' = Exact(c))
  BY <1>1, SameGraph DEF CyclesInv, WalkTyped
<1>8. next \in OnStack <=> Contains(stack, next)
  <2>1. stack \in Seq(DOMAIN index)
    BY DEF CyclesInv, WalkTyped, StackTyped
  <2>2. DOMAIN stack = 1..Len(stack)
    BY <2>1
  <2> QED BY ONLY <2>2 DEF OnStack, Contains
<1>9. \E low \in Nat :
        /\ lowlink' = [lowlink EXCEPT ![v] = low]
        /\ low <= lowlink[v] /\ (next \in OnStack => low <= index[next])
        /\ low = lowlink[v] \/ (next \in OnStack /\ low = index[next])
  <2>1. DOMAIN lowlink = DOMAIN index /\ lowlink[v] \in Nat /\ index[next] \in Nat
    BY <1>1, <1>2, <1>5 DEF CyclesInv, WalkTyped, NumbersTyped
  <2>2. CASE next \in OnStack
    <3>1. lowlink' = [lowlink EXCEPT ![v] = Min({lowlink[v], index[next]})]
      BY <1>1, <1>8, <2>2
    <3> DEFINE low == Min({lowlink[v], index[next]})
    <3>2. \A a, b \in Int : Min({a, b}) = IF a <= b THEN a ELSE b
      BY MaxMinOfTwo
    <3>3. low = IF lowlink[v] <= index[next] THEN lowlink[v] ELSE index[next]
      BY <3>2, <2>1
    <3> HIDE DEF low
    <3>4. low \in Nat /\ low <= lowlink[v] /\ low <= index[next] /\ (low = lowlink[v] \/ low = index[next])
      BY <3>3, <2>1
    <3>5. lowlink' = [lowlink EXCEPT ![v] = low]
      BY <3>1 DEF low
    <3> QED BY <3>4, <3>5, <2>2
  <2>3. CASE next \notin OnStack
    <3>1. lowlink' = lowlink
      BY <1>1, <1>8, <2>3
    <3>2. lowlink = [lowlink EXCEPT ![v] = lowlink[v]]
      BY DEF CyclesInv, WalkTyped, NumbersTyped
    <3> QED BY <3>1, <3>2, <2>1, <2>3
  <2> QED BY <2>2, <2>3
<1>10. PICK low \in Nat :
        /\ lowlink' = [lowlink EXCEPT ![v] = low]
        /\ low <= lowlink[v] /\ (next \in OnStack => low <= index[next])
        /\ low = lowlink[v] \/ (next \in OnStack /\ low = index[next])
  BY <1>9
<1>11. /\ lowlink' \in [DOMAIN index -> Nat] /\ lowlink'[v] = low
       /\ \A x \in DOMAIN index : x # v => lowlink'[x] = lowlink[x]
  BY <1>5, <1>10 DEF CyclesInv, WalkTyped, NumbersTyped
<1>12. NumbersTyped' /\ StackTyped' /\ Untouched'
  BY <1>1, <1>2, <1>3, <1>11 DEF NumbersTyped, StackTyped, Untouched, CyclesInv, WalkTyped
<1>13. WorkTyped'
  <2>1. ASSUME NEW i \in DOMAIN work
        PROVE  /\ work'[i].node \in OnStack' /\ work'[i].left \subseteq graph'[work'[i].node]
               /\ lowlink'[work'[i].node] <= index'[work'[i].node]
    <3>1. work[i].left \subseteq graph[work[i].node] /\ lowlink[work[i].node] <= index[work[i].node] /\ work[i].node \in OnStack
      BY DEF CyclesInv, WalkTyped, WorkTyped
    <3>2. work[i].node \in DOMAIN index
      BY <1>2
    <3>3. lowlink'[work[i].node] <= lowlink[work[i].node] /\ lowlink'[work[i].node] \in Nat
      BY <3>2, <1>2, <1>5, <1>10, <1>11
    <3>4. work'[i].node = work[i].node /\ work'[i].left \subseteq work[i].left
      BY <1>4
    <3>5. index[work[i].node] \in Nat /\ lowlink[work[i].node] \in Nat
      BY <3>2, <1>2
    <3>6. lowlink'[work[i].node] <= index[work[i].node]
      BY ONLY <3>1, <3>3, <3>5
    <3> QED BY <3>1, <3>4, <3>6, <1>1, <1>6
  <2>2. \A i, j \in DOMAIN work' : i < j => index'[work'[i].node] < index'[work'[j].node]
    BY <1>1, <1>4 DEF CyclesInv, WalkTyped, WorkTyped
  <2> QED BY <2>1, <2>2, <1>4 DEF WorkTyped
<1>14. WalkTyped'
  BY <1>7, <1>12, <1>13 DEF WalkTyped
<1>15. WalkReaches'
  <2>1. NodesReach'
    BY <1>1, <1>4, <1>6, <1>7 DEF NodesReach, CyclesInv, WalkReaches
  <2>2. StackReaches'
    BY <1>1, <1>4, <1>6, <1>7 DEF StackReaches, CyclesInv, WalkReaches
  <2>3. ClosedStays'
    BY <1>1, <1>6 DEF ClosedStays, CyclesInv, WalkReaches
  <2> QED BY <2>1, <2>2, <2>3 DEF WalkReaches
<1>16. LowIsLow'
  <2>1. ASSUME NEW x \in OnStack', NEW i \in DOMAIN work', BelongsTo(x, i)', NEW y \in LookedAt(x, i)'
        PROVE  y \in DOMAIN index' /\ (y \in OnStack' => lowlink'[work'[i].node] <= index'[y])
    <3>1. x \in OnStack /\ i \in DOMAIN work /\ BelongsTo(x, i) /\ work'[i].node = work[i].node
      BY <2>1, <1>1, <1>4, <1>6 DEF BelongsTo
    <3>2. work[i].node \in DOMAIN index /\ lowlink'[work[i].node] <= lowlink[work[i].node]
          /\ lowlink[work[i].node] \in Nat /\ lowlink'[work[i].node] \in Nat
      BY <3>1, <1>2, <1>5, <1>10, <1>11
    <3>3. CASE y \in LookedAt(x, i)
      <4>1. y \in DOMAIN index /\ (y \in OnStack => lowlink[work[i].node] <= index[y])
        BY <3>1, <3>3 DEF LowIsLow, CyclesInv, WalkLow
      <4> QED BY <4>1, <3>1, <3>2, <1>1, <1>2, <1>6
    <3>4. CASE y \notin LookedAt(x, i)
      <4>1. i = k /\ y = next
        BY <2>1, <3>1, <3>4, <1>1, <1>4 DEF LookedAt
      <4> QED BY <4>1, <3>1, <1>1, <1>5, <1>6, <1>10, <1>11
    <3> QED BY <3>3, <3>4
  <2> QED BY <2>1 DEF LowIsLow
<1>17. LowIsReached'
  <2> SUFFICES ASSUME NEW i \in DOMAIN work'
               PROVE  \E y \in OnStack' : index'[y] = lowlink'[work'[i].node] /\ y \in Reaches(work'[i].node)
    BY <1>7 DEF LowIsReached
  <2>1. i \in DOMAIN work /\ work'[i].node = work[i].node
    BY <1>4
  <2>2. \E y \in OnStack : index[y] = lowlink[work[i].node] /\ y \in Reaches(work[i].node)
    BY <2>1 DEF LowIsReached, CyclesInv, WalkLow
  <2>3. CASE i # k \/ low = lowlink[v]
    <3>1. lowlink'[work[i].node] = lowlink[work[i].node]
      BY <2>1, <2>3, <1>2, <1>5, <1>11
    <3> QED BY <2>1, <2>2, <3>1, <1>1, <1>6
  <2>4. CASE i = k /\ low # lowlink[v]
    BY <2>1, <2>4, <1>1, <1>3, <1>5, <1>6, <1>10, <1>11
  <2> QED BY <2>3, <2>4
<1>18. ComponentsClosed'
  BY <1>1, <1>6, <1>7 DEF ComponentsClosed, CyclesInv
<1> QED BY <1>14, <1>15, <1>16, <1>17, <1>18 DEF CyclesInv, WalkLow

LEMMA DescendKeeps == CyclesInv /\ Descend => CyclesInv'
<1> SUFFICES ASSUME CyclesInv, Descend PROVE CyclesInv'
  OBVIOUS
<1> DEFINE v == Top.node
           next == Min(Top.left)
           k == Len(work)
           new == [node |-> next, left |-> graph[next]]
<1>1. Looking /\ work # <<>> /\ ~Opened(next) /\ OpenNode(next)
      /\ graph' = graph /\ components' = components
      /\ work' = Append(Advanced, new)
  BY DEF Descend, Looking, Advanced
<1>2. /\ graph \in [Paths -> SUBSET Paths]
      /\ k \in Nat \ {0} /\ DOMAIN work = 1..k /\ k \in DOMAIN work
      /\ OnStack \subseteq DOMAIN index /\ DOMAIN index \subseteq Paths
      /\ \A i \in DOMAIN work : work[i] \in [node : Paths, left : SUBSET Paths] /\ work[i].node \in OnStack
      /\ \A i \in DOMAIN work : i # k => i < k /\ work[i].node # v /\ index[work[i].node] < index[v]
      /\ \A x \in DOMAIN index : index[x] \in Nat /\ lowlink[x] \in Nat
  BY <1>1, AtWork
<1>3. next \in Top.left /\ next \in Paths /\ next \in graph[v] /\ next \in Reaches(v)
  BY <1>1, NextLookedAt
<1>4. /\ work' \in Seq([node : Paths, left : SUBSET Paths]) /\ DOMAIN work' = 1..k + 1
      /\ work'[k + 1].node = next /\ work'[k + 1].left = graph[next]
      /\ \A i \in DOMAIN work : work'[i].node = work[i].node
      /\ \A i \in DOMAIN work : work'[i].left = IF i = k THEN work[i].left \ {next} ELSE work[i].left
  <2> DEFINE Frames == [node : Paths, left : SUBSET Paths]
  <2>1. /\ Advanced \in Seq(Frames) /\ Len(Advanced) = k
        /\ \A i \in DOMAIN work :
              /\ Advanced[i].node = work[i].node
              /\ Advanced[i].left = IF i = Len(work) THEN Top.left \ {Min(Top.left)} ELSE work[i].left
    BY <1>1, AdvancedFacts
  <2>2. new \in Frames /\ new.node = next /\ new.left = graph[next]
    BY <1>2, <1>3
  <2>3. Top.left = work[k].left
    BY DEF Top
  <2> HIDE DEF Frames, new
  <2>4. /\ work' \in Seq(Frames) /\ DOMAIN work' = 1..k + 1 /\ work'[k + 1] = new
        /\ \A i \in 1..k : work'[i] = Advanced[i]
    BY <1>1, <1>2, <2>1, <2>2
  <2>5. \A i \in DOMAIN work : work'[i] = Advanced[i]
    BY <1>2, <2>4
  <2>6. \A i \in DOMAIN work : /\ work'[i].node = work[i].node
                               /\ work'[i].left = IF i = k THEN work[i].left \ {next} ELSE work[i].left
    BY <2>1, <2>3, <2>5
  <2> QED BY <2>2, <2>4, <2>6 DEF Frames
<1>5. v = work[k].node /\ v \in OnStack /\ v \in DOMAIN index
  BY <1>2 DEF Top
<1> HIDE DEF v, next, k, new
<1>6. /\ NumbersTyped' /\ StackTyped'
      /\ next \notin DOMAIN index /\ DOMAIN index' = DOMAIN index \cup {next}
      /\ OnStack' = OnStack \cup {next} /\ ClosedOff' = ClosedOff
      /\ lowlink'[next] = index'[next]
      /\ \A q \in DOMAIN index : index'[q] = index[q] /\ lowlink'[q] = lowlink[q] /\ index[q] < index'[next]
  BY <1>1, <1>3, OpenNodeFacts DEF CyclesInv, WalkTyped
<1>7. /\ (\A q : Reaches(q)' = Reaches(q)) /\ GraphTyped' /\ (\A c : Exact(c)' = Exact(c))
  BY <1>1, SameGraph DEF CyclesInv, WalkTyped
<1>8. index'[next] \in Nat /\ next \in Reaches(next)
  BY <1>2, <1>3, <1>6, ReachesFacts DEF NumbersTyped
<1>9. \A i \in DOMAIN work : /\ work[i].node \in DOMAIN index /\ work[i].node \in OnStack /\ work[i].node # next
                             /\ index'[work[i].node] = index[work[i].node] /\ lowlink'[work[i].node] = lowlink[work[i].node]
                             /\ index[work[i].node] < index'[next] /\ index[work[i].node] \in Nat
  BY <1>2, <1>6
<1>10. WorkTyped'
  <2>1. ASSUME NEW i \in 1..k + 1
        PROVE  /\ work'[i].node \in OnStack' /\ work'[i].left \subseteq graph'[work'[i].node]
               /\ lowlink'[work'[i].node] <= index'[work'[i].node]
    <3>1. CASE i = k + 1
      BY <3>1, <1>1, <1>2, <1>3, <1>4, <1>6, <1>8
    <3>2. CASE i # k + 1
      <4>1. i \in DOMAIN work
        BY <3>2, <1>2
      <4>2. work[i].left \subseteq graph[work[i].node] /\ lowlink[work[i].node] <= index[work[i].node]
        BY <4>1 DEF CyclesInv, WalkTyped, WorkTyped
      <4>3. work'[i].node = work[i].node /\ work'[i].left \subseteq work[i].left
        BY <4>1, <1>4
      <4> QED BY <4>1, <4>2, <4>3, <1>1, <1>6, <1>9
    <3> QED BY <3>1, <3>2
  <2>2. ASSUME NEW i \in 1..k + 1, NEW j \in 1..k + 1, i < j
        PROVE  index'[work'[i].node] < index'[work'[j].node]
    <3>0. i \in 1..k
      BY <2>2, <1>2
    <3>1. i \in DOMAIN work /\ work'[i].node = work[i].node /\ index'[work[i].node] = index[work[i].node]
      BY <3>0, <1>2, <1>4, <1>9
    <3>2. CASE j = k + 1
      BY <3>1, <3>2, <1>4, <1>9
    <3>3. CASE j # k + 1
      <4>1. j \in DOMAIN work
        BY <3>3, <1>2
      <4>2. work'[j].node = work[j].node /\ index'[work[j].node] = index[work[j].node]
        BY <4>1, <1>4, <1>9
      <4>3. index[work[i].node] < index[work[j].node]
        BY <2>2, <3>1, <4>1 DEF CyclesInv, WalkTyped, WorkTyped
      <4> QED BY <3>1, <4>2, <4>3
    <3> QED BY <3>2, <3>3
  <2> QED BY <2>1, <2>2, <1>4 DEF WorkTyped
<1>11. WalkTyped'
  <2>1. Untouched'
    BY <1>1, <1>2 DEF Untouched, CyclesInv, WalkTyped
  <2> QED BY <1>6, <1>7, <1>10, <2>1 DEF WalkTyped
<1>12. NodesReach'
  <2>1. ASSUME NEW i \in DOMAIN work', NEW y \in OnStack', index'[work'[i].node] <= index'[y]
        PROVE  y \in Reaches(work'[i].node)
    <3>1. CASE i = k + 1
      <4>1. y = next
        BY <2>1, <3>1, <1>2, <1>4, <1>6, <1>8
      <4> QED BY <3>1, <4>1, <1>4, <1>8
    <3>2. CASE i # k + 1
      <4>1. i \in DOMAIN work /\ work'[i].node = work[i].node /\ work[i].node \in Paths
        BY <3>2, <1>2, <1>4
      <4>2. CASE y \in OnStack
        BY <2>1, <4>1, <4>2, <1>2, <1>6, <1>9 DEF NodesReach, CyclesInv, WalkReaches
      <4>3. CASE y = next
        <5>1. index[work[i].node] <= index[v] /\ v \in Paths
          BY <4>1, <1>2, <1>5
        <5>2. v \in Reaches(work[i].node)
          BY <4>1, <5>1, <1>5 DEF NodesReach, CyclesInv, WalkReaches
        <5> QED BY <4>1, <4>3, <5>1, <5>2, <1>2, <1>3, ReachesFacts
      <4> QED BY <4>2, <4>3, <1>6
    <3> QED BY <3>1, <3>2
  <2> QED BY <2>1, <1>7 DEF NodesReach
<1>13. StackReaches'
  <2>1. ASSUME NEW x \in OnStack'
        PROVE  \E i \in DOMAIN work' : index'[work'[i].node] <= index'[x] /\ work'[i].node \in Reaches(x)
    <3>1. CASE x = next
      <4>1. k + 1 \in DOMAIN work'
        BY <1>2, <1>4
      <4> QED BY <3>1, <4>1, <1>4, <1>8
    <3>2. CASE x # next
      <4>1. x \in OnStack /\ index'[x] = index[x]
        BY <3>2, <1>2, <1>6
      <4>2. PICK i \in DOMAIN work : index[work[i].node] <= index[x] /\ work[i].node \in Reaches(x)
        BY <4>1 DEF StackReaches, CyclesInv, WalkReaches
      <4>3. i \in DOMAIN work' /\ work'[i].node = work[i].node
        BY <1>2, <1>4
      <4> QED BY <4>1, <4>2, <4>3, <1>9
    <3> QED BY <3>1, <3>2
  <2> QED BY <2>1, <1>7 DEF StackReaches
<1>14. ClosedStays'
  BY <1>1, <1>6 DEF ClosedStays, CyclesInv, WalkReaches
<1>15. LowIsLow'
  <2>1. ASSUME NEW x \in OnStack', NEW i \in DOMAIN work', BelongsTo(x, i)', NEW y \in LookedAt(x, i)'
        PROVE  y \in DOMAIN index' /\ (y \in OnStack' => lowlink'[work'[i].node] <= index'[y])
    <3>1. index'[work'[i].node] <= index'[x] /\ \A j \in DOMAIN work' : i < j => index'[x] < index'[work'[j].node]
      BY <2>1 DEF BelongsTo
    <3>2. y \in IF x = work'[i].node THEN graph[x] \ work'[i].left ELSE graph[x]
      BY <2>1, <1>1 DEF LookedAt
    <3>3. CASE x = next
      <4>1. i = k + 1
        <5>1. CASE i # k + 1
          <6>1. i < k + 1 /\ k + 1 \in DOMAIN work'
            BY <5>1, <1>2, <1>4
          <6> QED BY <3>1, <3>3, <6>1, <1>4, <1>8
        <5> QED BY <5>1
      <4>2. FALSE
        BY <3>2, <3>3, <4>1, <1>4
      <4> QED BY <4>2
    <3>4. CASE x # next
      <4>1. x \in OnStack /\ index'[x] = index[x] /\ index[x] < index'[next] /\ index[x] \in Nat
        BY <3>4, <1>2, <1>6
      <4>2. i # k + 1
        BY <3>1, <4>1, <1>4, <1>8
      <4>3. i \in DOMAIN work /\ work'[i].node = work[i].node
        BY <4>2, <1>2, <1>4
      <4>4. BelongsTo(x, i)
        <5>1. \A j \in DOMAIN work : j \in DOMAIN work'
          BY <1>2, <1>4
        <5> QED BY <3>1, <4>1, <4>3, <5>1, <1>4, <1>9 DEF BelongsTo
      <4>5. CASE y \in LookedAt(x, i)
        <5>1. y \in DOMAIN index /\ (y \in OnStack => lowlink[work[i].node] <= index[y])
          BY <4>1, <4>3, <4>4, <4>5 DEF LowIsLow, CyclesInv, WalkLow
        <5>2. y \in DOMAIN index' /\ index'[y] = index[y] /\ y # next
          BY <5>1, <1>6
        <5> QED BY <4>3, <5>1, <5>2, <1>6, <1>9
      <4>6. CASE y \notin LookedAt(x, i)
        <5>1. y = next
          BY <3>2, <4>3, <4>6, <1>4 DEF LookedAt
        <5>2. lowlink[work[i].node] <= index[work[i].node] /\ lowlink[work[i].node] \in Nat
          BY <4>3, <1>2, <1>9 DEF CyclesInv, WalkTyped, WorkTyped
        <5> QED BY <4>3, <5>1, <5>2, <1>6, <1>8, <1>9
      <4> QED BY <4>5, <4>6
    <3> QED BY <3>3, <3>4
  <2> QED BY <2>1 DEF LowIsLow
<1>16. LowIsReached'
  <2>1. ASSUME NEW i \in DOMAIN work'
        PROVE  \E y \in OnStack' : index'[y] = lowlink'[work'[i].node] /\ y \in Reaches(work'[i].node)
    <3>1. CASE i = k + 1
      BY <3>1, <1>4, <1>6, <1>8
    <3>2. CASE i # k + 1
      <4>1. i \in DOMAIN work /\ work'[i].node = work[i].node
        BY <3>2, <1>2, <1>4
      <4>2. PICK y \in OnStack : index[y] = lowlink[work[i].node] /\ y \in Reaches(work[i].node)
        BY <4>1 DEF LowIsReached, CyclesInv, WalkLow
      <4> QED BY <4>1, <4>2, <1>2, <1>6, <1>9
    <3> QED BY <3>1, <3>2
  <2> QED BY <2>1, <1>7 DEF LowIsReached
<1>17. ComponentsClosed'
  BY <1>1, <1>6, <1>7 DEF ComponentsClosed, CyclesInv
<1> QED BY <1>11, <1>12, <1>13, <1>14, <1>15, <1>16, <1>17 DEF CyclesInv, WalkReaches, WalkLow

\* What lies on the stack from the node on is what was pushed no earlier than it.
LEMMA StackFrom ==
  ASSUME CyclesInv, NEW v \in OnStack
  PROVE  LET start == CHOOSE i \in DOMAIN stack : stack[i] = v
         IN /\ start \in DOMAIN stack /\ SubSeq(stack, 1, start - 1) \in Seq(DOMAIN index)
            /\ DOMAIN SubSeq(stack, 1, start - 1) = 1..start - 1
            /\ \A i \in 1..start - 1 : SubSeq(stack, 1, start - 1)[i] = stack[i]
            /\ {stack[i] : i \in 1..start - 1} = {x \in OnStack : index[x] < index[v]}
            /\ ToSet(SubSeq(stack, start, Len(stack))) = {x \in OnStack : index[x] >= index[v]}
<1> DEFINE start == CHOOSE i \in DOMAIN stack : stack[i] = v
<1>1. start \in DOMAIN stack /\ stack[start] = v
  BY DEF OnStack
<1> HIDE DEF start
<1>2. /\ stack \in Seq(DOMAIN index) /\ Len(stack) \in Nat /\ DOMAIN stack = 1..Len(stack)
      /\ \A i, j \in DOMAIN stack : i < j => index[stack[i]] < index[stack[j]]
      /\ \A i \in DOMAIN stack : stack[i] \in DOMAIN index
  BY DEF CyclesInv, WalkTyped, StackTyped
<1>3. \A x \in DOMAIN index : index[x] \in Nat
  BY DEF CyclesInv, WalkTyped, NumbersTyped
<1>4. start \in Nat /\ start >= 1 /\ start <= Len(stack)
  BY <1>1, <1>2
<1>5. \A i \in DOMAIN stack : index[stack[i]] < index[v] <=> i < start
  <2>1. ASSUME NEW i \in DOMAIN stack PROVE index[stack[i]] < index[v] <=> i < start
    <3>1. i \in Nat /\ index[stack[i]] \in Nat /\ index[v] \in Nat
      BY <1>1, <1>2, <1>3
    <3>2. CASE i < start
      BY <3>2, <1>1, <1>2
    <3>3. CASE i = start
      BY <3>1, <3>3, <1>1
    <3>4. CASE i > start
      <4>1. index[v] < index[stack[i]]
        BY <3>4, <1>1, <1>2
      <4> QED BY <3>1, <3>4, <4>1, <1>4
    <3> QED BY <3>1, <3>2, <3>3, <3>4, <1>4
  <2> QED BY <2>1
<1>6. /\ SubSeq(stack, 1, start - 1) \in Seq(DOMAIN index) /\ DOMAIN SubSeq(stack, 1, start - 1) = 1..start - 1
      /\ \A i \in 1..start - 1 : SubSeq(stack, 1, start - 1)[i] = stack[i]
  BY <1>2, <1>4
<1>7. {stack[i] : i \in 1..start - 1} = {x \in OnStack : index[x] < index[v]}
  <2>1. \A i \in 1..start - 1 : i \in DOMAIN stack /\ i < start
    BY <1>2, <1>4
  <2>2. \A i \in DOMAIN stack : i < start => i \in 1..start - 1
    BY <1>2, <1>4
  <2> QED BY <2>1, <2>2, <1>5 DEF OnStack
<1>8. ToSet(SubSeq(stack, start, Len(stack))) = {x \in OnStack : index[x] >= index[v]}
  <2> DEFINE tail == SubSeq(stack, start, Len(stack))
  <2>1. DOMAIN tail = 1..Len(stack) - start + 1 /\ \A i \in DOMAIN tail : tail[i] = stack[start + i - 1]
    BY <1>2, <1>4
  <2> HIDE DEF tail
  <2>2. \A i \in DOMAIN tail : start + i - 1 \in DOMAIN stack /\ ~(start + i - 1 < start)
    BY <2>1, <1>2, <1>4
  <2>3. \A i \in DOMAIN stack : ~(i < start) => (i - start + 1 \in DOMAIN tail /\ tail[i - start + 1] = stack[i])
    <3>1. ASSUME NEW i \in DOMAIN stack, ~(i < start) PROVE i - start + 1 \in DOMAIN tail /\ start + (i - start + 1) - 1 = i
      BY <3>1, <2>1, <1>2, <1>4
    <3> QED BY <3>1, <2>1
  <2>4. \A i \in DOMAIN stack : ~(i < start) <=> index[stack[i]] >= index[v]
    <3>1. \A i \in DOMAIN stack : index[stack[i]] \in Nat /\ index[v] \in Nat
      BY <1>1, <1>2, <1>3
    <3>2. \A i \in DOMAIN stack : ~(index[stack[i]] < index[v]) <=> index[stack[i]] >= index[v]
      BY <3>1
    <3> QED BY <3>2, <1>5
  <2>5. ASSUME NEW x \in ToSet(tail) PROVE x \in OnStack /\ index[x] >= index[v]
    <3>1. PICK i \in DOMAIN tail : x = tail[i]
      BY DEF ToSet
    <3> QED BY <3>1, <2>1, <2>2, <2>4 DEF OnStack
  <2>6. ASSUME NEW x \in OnStack, index[x] >= index[v] PROVE x \in ToSet(tail)
    <3>1. PICK i \in DOMAIN stack : x = stack[i]
      BY DEF OnStack
    <3> QED BY <3>1, <2>3, <2>4, <2>6 DEF ToSet
  <2> QED BY <2>5, <2>6 DEF tail
<1> QED BY <1>1, <1>6, <1>7, <1>8 DEF start

\* A component that is closed is exact, and what is closed off stays among itself.
LEMMA ClosingIsExact ==
  ASSUME CyclesInv, work # <<>>, Top.left = {}, lowlink[Top.node] = index[Top.node]
  PROVE  LET C == {x \in OnStack : index[x] >= index[Top.node]}
         IN Exact(C) /\ \A p \in ClosedOff \cup C : graph[p] \subseteq ClosedOff \cup C
<1> DEFINE v == Top.node
           k == Len(work)
           C == {x \in OnStack : index[x] >= index[v]}
           S == ClosedOff \cup C
<1>1. /\ graph \in [Paths -> SUBSET Paths]
      /\ k \in Nat \ {0} /\ DOMAIN work = 1..k /\ k \in DOMAIN work
      /\ OnStack \subseteq DOMAIN index /\ DOMAIN index \subseteq Paths
      /\ \A i \in DOMAIN work : work[i] \in [node : Paths, left : SUBSET Paths] /\ work[i].node \in OnStack
      /\ \A i \in DOMAIN work : i # k => i < k /\ work[i].node # v /\ index[work[i].node] < index[v]
      /\ \A x \in DOMAIN index : index[x] \in Nat /\ lowlink[x] \in Nat
  BY AtWork
<1>2. v = work[k].node /\ v \in OnStack /\ v \in DOMAIN index /\ work[k].left = {} /\ lowlink[v] = index[v]
  BY <1>1 DEF Top
<1> HIDE DEF v, k
<1>3. ASSUME NEW x \in C PROVE graph[x] \subseteq S
  <2>1. BelongsTo(x, k)
    BY <1>1, <1>2 DEF BelongsTo
  <2>2. LookedAt(x, k) = graph[x]
    BY <1>2 DEF LookedAt
  <2>3. \A y \in graph[x] : y \in DOMAIN index /\ (y \in OnStack => index[v] <= index[y])
    BY <2>1, <2>2, <1>1, <1>2 DEF LowIsLow, CyclesInv, WalkLow
  <2> QED BY <2>3, <1>1, <1>2 DEF ClosedOff
<1>4. \A p \in ClosedOff : graph[p] \subseteq ClosedOff
  BY DEF CyclesInv, WalkReaches, ClosedStays
<1>5. S \subseteq Paths /\ ClosedOff \subseteq Paths /\ C \subseteq Paths
  BY <1>1 DEF ClosedOff
<1>6. \A p \in S : graph[p] \subseteq S
  BY <1>3, <1>4
<1>7. (\A p \in S : Reaches(p) \subseteq S) /\ (\A p \in ClosedOff : Reaches(p) \subseteq ClosedOff)
  BY <1>1, <1>4, <1>5, <1>6, ReachesFacts
<1>8. \A x \in C : x \in Reaches(v) /\ v \in Reaches(x)
  <2>1. ASSUME NEW x \in C PROVE x \in Reaches(v)
    BY <1>1, <1>2 DEF NodesReach, CyclesInv, WalkReaches
  <2>2. ASSUME NEW x \in C PROVE v \in Reaches(x)
    <3>1. PICK i \in DOMAIN work : index[work[i].node] <= index[x] /\ work[i].node \in Reaches(x)
      BY DEF StackReaches, CyclesInv, WalkReaches
    <3>2. work[i].node \in S /\ work[i].node \in OnStack
      BY <3>1, <1>1, <1>7
    <3>3. index[work[i].node] >= index[v]
      BY <3>2 DEF ClosedOff
    <3>4. i = k
      BY <3>2, <3>3, <1>1, <1>2
    <3> QED BY <3>1, <3>4, <1>2
  <2> QED BY <2>1, <2>2
<1>9. Exact(C)
  <2>1. ASSUME NEW p \in C, NEW q \in C PROVE q \in Reaches(p) /\ p \in Reaches(q)
    BY <1>1, <1>2, <1>5, <1>8, ReachesFacts
  <2>2. ASSUME NEW p \in C, NEW q \in Reaches(p), p \in Reaches(q) PROVE q \in C
    <3>1. CASE q \in ClosedOff
      BY <2>2, <3>1, <1>7 DEF ClosedOff
    <3> QED BY <3>1, <1>7
  <2> QED BY <2>1, <2>2 DEF Exact
<1> QED BY <1>6, <1>9 DEF v

\* A node whose component is closed: what it could reach lowers nothing above it.
LEMMA ClosingKeeps ==
  ASSUME CyclesInv, Finalize, lowlink[Top.node] = index[Top.node]
  PROVE  CyclesInv'
<1> DEFINE v == Top.node
           k == Len(work)
           C == {x \in OnStack : index[x] >= index[v]}
           start == CHOOSE i \in DOMAIN stack : stack[i] = v
<1>1. /\ work # <<>> /\ Top.left = {}
      /\ graph' = graph /\ index' = index /\ work' = Front(work)
      /\ components' = components \cup {ToSet(SubSeq(stack, start, Len(stack)))}
      /\ stack' = SubSeq(stack, 1, start - 1)
      /\ lowlink' = IF Len(work) = 1 THEN lowlink
                    ELSE [lowlink EXCEPT ![work[Len(work) - 1].node] = Min({lowlink[work[Len(work) - 1].node], lowlink[v]})]
  BY DEF Finalize
<1>2. /\ graph \in [Paths -> SUBSET Paths]
      /\ k \in Nat \ {0} /\ DOMAIN work = 1..k /\ k \in DOMAIN work
      /\ OnStack \subseteq DOMAIN index /\ DOMAIN index \subseteq Paths
      /\ \A i \in DOMAIN work : work[i] \in [node : Paths, left : SUBSET Paths] /\ work[i].node \in OnStack
      /\ \A i \in DOMAIN work : i # k => i < k /\ work[i].node # v /\ index[work[i].node] < index[v]
      /\ \A x \in DOMAIN index : index[x] \in Nat /\ lowlink[x] \in Nat
  BY <1>1, AtWork
<1>3. v = work[k].node /\ v \in OnStack /\ v \in DOMAIN index /\ lowlink[v] = index[v]
  BY <1>2 DEF Top
<1>4. /\ start \in DOMAIN stack /\ SubSeq(stack, 1, start - 1) \in Seq(DOMAIN index)
      /\ DOMAIN SubSeq(stack, 1, start - 1) = 1..start - 1
      /\ \A i \in 1..start - 1 : SubSeq(stack, 1, start - 1)[i] = stack[i]
      /\ {stack[i] : i \in 1..start - 1} = {x \in OnStack : index[x] < index[v]}
      /\ ToSet(SubSeq(stack, start, Len(stack))) = C
  BY <1>3, StackFrom
<1>5. Exact(C) /\ \A p \in ClosedOff \cup C : graph[p] \subseteq ClosedOff \cup C
  BY <1>1, ClosingIsExact
<1>6. components' = components \cup {C}
  BY <1>1, <1>4
<1>7. lowlink' = lowlink
  <2>1. CASE k = 1
    BY <1>1, <2>1
  <2>2. CASE k # 1
    <3> DEFINE u == work[k - 1].node
    <3>1. k - 1 \in DOMAIN work
      BY <1>2, <2>2
    <3>2. u \in DOMAIN index /\ index[u] < index[v] /\ lowlink[u] <= index[u]
      <4>1. u \in OnStack /\ lowlink[u] <= index[u]
        BY <3>1 DEF CyclesInv, WalkTyped, WorkTyped
      <4>2. k - 1 # k
        <5>1. \A n \in Nat : n - 1 # n
          OBVIOUS
        <5>2. k \in Nat
          BY <1>2
        <5> QED BY <5>1, <5>2
      <4> QED BY <3>1, <4>1, <4>2, <1>2
    <3>3. lowlink' = [lowlink EXCEPT ![u] = Min({lowlink[u], lowlink[v]})]
      BY <1>1, <2>2
    <3> HIDE DEF u
    <3>4. lowlink[u] \in Nat /\ index[u] \in Nat /\ lowlink[v] \in Nat /\ index[v] \in Nat
      BY <1>2, <1>3, <3>2
    <3> HIDE DEF v
    <3>5. \A a, b \in Int : Min({a, b}) = IF a <= b THEN a ELSE b
      BY MaxMinOfTwo
    <3>6. Min({lowlink[u], lowlink[v]}) = lowlink[u]
      BY <3>2, <3>4, <3>5, <1>3
    <3> QED BY <3>3, <3>6 DEF CyclesInv, WalkTyped, NumbersTyped
  <2> QED BY <2>1, <2>2
<1> HIDE DEF v, k, start
<1>8. OnStack' = {x \in OnStack : index[x] < index[v]}
  <2>1. OnStack' = {stack'[i] : i \in DOMAIN stack'}
    BY DEF OnStack
  <2>2. DOMAIN stack' = 1..start - 1 /\ \A i \in 1..start - 1 : stack'[i] = stack[i]
    BY <1>1, <1>4
  <2>3. OnStack' = {stack[i] : i \in 1..start - 1}
    BY ONLY <2>1, <2>2
  <2> QED BY <2>3, <1>4
<1>9. ClosedOff' = ClosedOff \cup C
  BY <1>1, <1>2, <1>3, <1>8 DEF ClosedOff
<1>10. /\ work' \in Seq([node : Paths, left : SUBSET Paths]) /\ DOMAIN work' = 1..k - 1
       /\ \A i \in 1..k - 1 : i \in DOMAIN work /\ work'[i] = work[i] /\ work[i].node \in OnStack' /\ i < k
  <2> DEFINE Frames == [node : Paths, left : SUBSET Paths]
  <2>1. work \in Seq(Frames)
    BY DEF CyclesInv, WalkTyped, WorkTyped
  <2>2. Front(work) = SubSeq(work, 1, Len(work) - 1)
    BY DEF Front
  <2> HIDE DEF Frames
  <2>3. work' \in Seq(Frames) /\ DOMAIN work' = 1..k - 1 /\ \A i \in 1..k - 1 : work'[i] = work[i]
    BY <2>1, <2>2, <1>1, <1>2 DEF k
  <2>4. \A i \in 1..k - 1 : i \in DOMAIN work /\ i # k /\ i < k
    BY <1>2
  <2> QED BY <2>3, <2>4, <1>2, <1>8 DEF Frames
<1>11. /\ (\A q : Reaches(q)' = Reaches(q)) /\ GraphTyped' /\ (\A c : Exact(c)' = Exact(c))
  BY <1>1, SameGraph DEF CyclesInv, WalkTyped
<1>12. StackTyped'
  <2>1. stack' \in Seq(DOMAIN index') /\ DOMAIN stack' = 1..start - 1 /\ \A i \in 1..start - 1 : stack'[i] = stack[i]
    BY <1>1, <1>4
  <2>2. \A i \in 1..start - 1 : i \in DOMAIN stack
    <3>1. DOMAIN stack = 1..Len(stack) /\ Len(stack) \in Nat
      BY DEF CyclesInv, WalkTyped, StackTyped
    <3> QED BY <3>1, <1>4
  <2> QED BY <2>1, <2>2, <1>1 DEF StackTyped, CyclesInv, WalkTyped
<1>13. NumbersTyped'
  BY <1>1, <1>7 DEF NumbersTyped, CyclesInv, WalkTyped
<1>14. WorkTyped'
  BY <1>1, <1>7, <1>10 DEF WorkTyped, CyclesInv, WalkTyped
<1>15. Untouched'
  BY <1>1 DEF Untouched, CyclesInv, WalkTyped
<1>16. NodesReach'
  BY <1>1, <1>8, <1>10, <1>11 DEF NodesReach, CyclesInv, WalkReaches
<1>17. StackReaches'
  <2>1. ASSUME NEW x \in OnStack'
        PROVE  \E i \in DOMAIN work' : index'[work'[i].node] <= index'[x] /\ work'[i].node \in Reaches(x)
    <3>1. x \in OnStack /\ index[x] < index[v]
      BY <1>8
    <3>2. PICK i \in DOMAIN work : index[work[i].node] <= index[x] /\ work[i].node \in Reaches(x)
      BY <3>1 DEF StackReaches, CyclesInv, WalkReaches
    <3>3. i # k
      BY <3>1, <3>2, <1>2, <1>3
    <3>4. i \in 1..k - 1
      BY <3>3, <1>2
    <3> QED BY <3>2, <3>4, <1>1, <1>10
  <2> QED BY <2>1, <1>11 DEF StackReaches
<1>18. ClosedStays'
  BY <1>1, <1>5, <1>9 DEF ClosedStays
<1>19. LowIsLow'
  <2>1. ASSUME NEW x \in OnStack', NEW i \in DOMAIN work', BelongsTo(x, i)', NEW y \in LookedAt(x, i)'
        PROVE  y \in DOMAIN index' /\ (y \in OnStack' => lowlink'[work'[i].node] <= index'[y])
    <3>1. x \in OnStack /\ index[x] < index[v] /\ i \in DOMAIN work /\ work'[i] = work[i] /\ i \in 1..k - 1
      BY <1>8, <1>10
    <3>2. index[work[i].node] <= index[x] /\ \A j \in 1..k - 1 : i < j => index[x] < index[work[j].node]
      BY <2>1, <3>1, <1>1, <1>10 DEF BelongsTo
    <3>3. BelongsTo(x, i)
      <4>1. \A j \in DOMAIN work : j = k \/ j \in 1..k - 1
        BY <1>2
      <4> QED BY <3>1, <3>2, <4>1, <1>3 DEF BelongsTo
    <3>4. y \in LookedAt(x, i)
      BY <2>1, <3>1, <1>1 DEF LookedAt
    <3>5. y \in DOMAIN index /\ (y \in OnStack => lowlink[work[i].node] <= index[y])
      BY <3>1, <3>3, <3>4 DEF LowIsLow, CyclesInv, WalkLow
    <3> QED BY <3>1, <3>5, <1>1, <1>7, <1>8
  <2> QED BY <2>1 DEF LowIsLow
<1>20. LowIsReached'
  <2>1. ASSUME NEW i \in DOMAIN work'
        PROVE  \E y \in OnStack' : index'[y] = lowlink'[work'[i].node] /\ y \in Reaches(work'[i].node)
    <3>1. i \in DOMAIN work /\ work'[i] = work[i] /\ i # k
      BY <1>2, <1>10
    <3>2. PICK y \in OnStack : index[y] = lowlink[work[i].node] /\ y \in Reaches(work[i].node)
      BY <3>1 DEF LowIsReached, CyclesInv, WalkLow
    <3>3. lowlink[work[i].node] <= index[work[i].node] /\ index[work[i].node] < index[v]
      BY <3>1, <1>2 DEF CyclesInv, WalkTyped, WorkTyped
    <3>4. index[y] < index[v]
      <4>1. index[y] \in Nat /\ index[work[i].node] \in Nat /\ index[v] \in Nat
        BY <3>1, <1>2, <1>3
      <4> QED BY <3>2, <3>3, <4>1
    <3> QED BY <3>1, <3>2, <3>4, <1>1, <1>7, <1>8
  <2> QED BY <2>1, <1>11 DEF LowIsReached
<1>21. ComponentsClosed'
  <2> HIDE DEF C
  <2>1. \A S, c : UNION (S \cup {c}) = (UNION S) \cup c
    OBVIOUS
  <2>2. UNION components' = (UNION components) \cup C
    BY ONLY <1>6, <2>1
  <2> QED BY <2>2, <1>5, <1>6, <1>9, <1>11 DEF ComponentsClosed, CyclesInv
<1> QED BY <1>11, <1>12, <1>13, <1>14, <1>15, <1>16, <1>17, <1>18, <1>19, <1>20, <1>21
        DEF CyclesInv, WalkTyped, WalkReaches, WalkLow

\* A node that could reach a smaller number hands it to its parent, and stays on the stack.
LEMMA LeavingKeeps ==
  ASSUME CyclesInv, Finalize, lowlink[Top.node] # index[Top.node]
  PROVE  CyclesInv'
<1> DEFINE v == Top.node
           k == Len(work)
           u == work[k - 1].node
<1>1. /\ work # <<>> /\ Top.left = {}
      /\ graph' = graph /\ index' = index /\ work' = Front(work) /\ components' = components /\ stack' = stack
      /\ lowlink' = IF Len(work) = 1 THEN lowlink
                    ELSE [lowlink EXCEPT ![u] = Min({lowlink[u], lowlink[v]})]
  BY DEF Finalize
<1>2. /\ graph \in [Paths -> SUBSET Paths]
      /\ k \in Nat \ {0} /\ DOMAIN work = 1..k /\ k \in DOMAIN work
      /\ OnStack \subseteq DOMAIN index /\ DOMAIN index \subseteq Paths
      /\ \A i \in DOMAIN work : work[i] \in [node : Paths, left : SUBSET Paths] /\ work[i].node \in OnStack
      /\ \A i \in DOMAIN work : i # k => i < k /\ work[i].node # v /\ index[work[i].node] < index[v]
      /\ \A x \in DOMAIN index : index[x] \in Nat /\ lowlink[x] \in Nat
  BY <1>1, AtWork
<1>3. v = work[k].node /\ v \in OnStack /\ v \in DOMAIN index /\ work[k].left = {}
  BY <1>1, <1>2 DEF Top
<1> HIDE DEF v, k
<1>4. lowlink[v] < index[v]
  <2>1. lowlink[v] <= index[v] /\ lowlink[v] # index[v]
    BY <1>2, <1>3 DEF CyclesInv, WalkTyped, WorkTyped, v
  <2> QED BY <2>1, <1>2, <1>3
<1>5. PICK low \in OnStack : index[low] = lowlink[v] /\ low \in Reaches(v)
  BY <1>2, <1>3 DEF LowIsReached, CyclesInv, WalkLow
<1>6. PICK m \in DOMAIN work : index[work[m].node] <= index[low] /\ work[m].node \in Reaches(low)
  BY DEF StackReaches, CyclesInv, WalkReaches
<1>7. m # k /\ m < k /\ index[work[m].node] < index[v] /\ work[m].node \in Reaches(v)
  <2>1. index[work[m].node] \in Nat /\ index[v] \in Nat /\ index[low] \in Nat
    BY <1>2, <1>3
  <2>2. index[work[m].node] < index[v]
    BY <2>1, <1>4, <1>5, <1>6
  <2>3. work[m].node \in Reaches(v)
    <3>1. v \in Paths /\ low \in Paths /\ work[m].node \in Paths
      BY <1>2, <1>3
    <3> QED BY <3>1, <1>2, <1>5, <1>6, ReachesFacts
  <2> QED BY <2>1, <2>2, <2>3, <1>2, <1>3
<1>8. k > 1 /\ k - 1 \in DOMAIN work
  BY <1>2, <1>7
<1>9. u \in OnStack /\ u \in DOMAIN index /\ u # v /\ index[u] < index[v] /\ lowlink[u] <= index[u]
  <2>1. k - 1 # k
    BY <1>2
  <2> QED BY <2>1, <1>2, <1>8 DEF CyclesInv, WalkTyped, WorkTyped
<1>10. lowlink' = [lowlink EXCEPT ![u] = Min({lowlink[u], lowlink[v]})]
  <2>1. Len(work) # 1
    BY <1>2, <1>8 DEF k
  <2> QED BY ONLY <1>1, <2>1
<1> HIDE DEF u
<1>11. PICK least \in Nat :
          /\ least = Min({lowlink[u], lowlink[v]})
          /\ least <= lowlink[u] /\ least <= lowlink[v] /\ (least = lowlink[u] \/ least = lowlink[v])
  <2>1. lowlink[u] \in Nat /\ lowlink[v] \in Nat
    BY <1>2, <1>3, <1>9
  <2>2. \A a, b \in Int : Min({a, b}) = IF a <= b THEN a ELSE b
    BY MaxMinOfTwo
  <2> DEFINE a == lowlink[u]
             b == lowlink[v]
             l == Min({a, b})
  <2>3. l = IF a <= b THEN a ELSE b
    BY <2>1, <2>2
  <2> HIDE DEF a, b, l
  <2>4. a \in Nat /\ b \in Nat
    BY <2>1 DEF a, b
  <2>5. l \in Nat /\ l <= a /\ l <= b /\ (l = a \/ l = b)
    BY <2>3, <2>4
  <2> QED BY <2>5 DEF a, b, l
<1>12. /\ lowlink' \in [DOMAIN index -> Nat] /\ lowlink'[u] = least
       /\ \A x \in DOMAIN index : x # u => lowlink'[x] = lowlink[x]
       /\ \A x \in DOMAIN index : lowlink'[x] <= lowlink[x] /\ lowlink'[x] \in Nat /\ lowlink[x] \in Nat
  <2>1. lowlink' = [lowlink EXCEPT ![u] = least] /\ lowlink \in [DOMAIN index -> Nat]
    BY <1>10, <1>11 DEF CyclesInv, WalkTyped, NumbersTyped
  <2> QED BY <2>1, <1>9, <1>11
<1>13. OnStack' = OnStack /\ ClosedOff' = ClosedOff
  BY <1>1 DEF OnStack, ClosedOff
<1>14. /\ work' \in Seq([node : Paths, left : SUBSET Paths]) /\ DOMAIN work' = 1..k - 1
       /\ \A i \in 1..k - 1 : i \in DOMAIN work /\ work'[i] = work[i] /\ i < k /\ i # k
  <2> DEFINE Frames == [node : Paths, left : SUBSET Paths]
  <2>1. work \in Seq(Frames)
    BY DEF CyclesInv, WalkTyped, WorkTyped
  <2>2. Front(work) = SubSeq(work, 1, Len(work) - 1)
    BY DEF Front
  <2> HIDE DEF Frames
  <2>3. work' \in Seq(Frames) /\ DOMAIN work' = 1..k - 1 /\ \A i \in 1..k - 1 : work'[i] = work[i]
    BY <2>1, <2>2, <1>1, <1>2 DEF k
  <2>4. \A i \in 1..k - 1 : i \in DOMAIN work /\ i # k /\ i < k
    BY <1>2
  <2> QED BY <2>3, <2>4 DEF Frames
<1>15. /\ (\A q : Reaches(q)' = Reaches(q)) /\ GraphTyped' /\ (\A c : Exact(c)' = Exact(c))
  BY <1>1, SameGraph DEF CyclesInv, WalkTyped
<1>16. NumbersTyped' /\ StackTyped' /\ Untouched'
  BY <1>1, <1>8, <1>12, <1>2 DEF NumbersTyped, StackTyped, Untouched, CyclesInv, WalkTyped
<1>17. WorkTyped'
  <2>1. ASSUME NEW i \in 1..k - 1
        PROVE  /\ work'[i].node \in OnStack' /\ work'[i].left \subseteq graph'[work'[i].node]
               /\ lowlink'[work'[i].node] <= index'[work'[i].node]
    <3>1. /\ work[i].node \in OnStack /\ work[i].left \subseteq graph[work[i].node]
          /\ lowlink[work[i].node] <= index[work[i].node]
      BY <1>14 DEF CyclesInv, WalkTyped, WorkTyped
    <3>2. lowlink'[work[i].node] <= lowlink[work[i].node] /\ lowlink'[work[i].node] \in Nat
          /\ lowlink[work[i].node] \in Nat /\ index[work[i].node] \in Nat
      BY <3>1, <1>2, <1>12
    <3>3. lowlink'[work[i].node] <= index[work[i].node]
      BY ONLY <3>1, <3>2
    <3> QED BY <3>1, <3>3, <1>1, <1>13, <1>14
  <2>2. \A i, j \in 1..k - 1 : i < j => index[work[i].node] < index[work[j].node]
    BY <1>14 DEF WorkTyped, CyclesInv, WalkTyped
  <2> QED BY <2>1, <2>2, <1>1, <1>14 DEF WorkTyped
<1>18. NodesReach'
  BY <1>1, <1>13, <1>14, <1>15 DEF NodesReach, CyclesInv, WalkReaches
<1>19. StackReaches'
  <2>1. ASSUME NEW x \in OnStack
        PROVE  \E i \in 1..k - 1 : index[work[i].node] <= index[x] /\ work[i].node \in Reaches(x)
    <3>1. PICK i \in DOMAIN work : index[work[i].node] <= index[x] /\ work[i].node \in Reaches(x)
      BY DEF StackReaches, CyclesInv, WalkReaches
    <3>2. CASE i # k
      <4>1. i \in 1..k - 1
        BY <3>2, <1>2
      <4> QED BY <3>1, <4>1
    <3>3. CASE i = k
      <4>1. m \in 1..k - 1
        BY <1>2, <1>7
      <4>2. index[v] <= index[x] /\ v \in Reaches(x)
        BY <3>1, <3>3, <1>3
      <4>3. index[work[m].node] <= index[x]
        <5>1. index[x] \in Nat /\ index[v] \in Nat /\ index[work[m].node] \in Nat
          BY <1>2, <1>3
        <5> QED BY <4>2, <5>1, <1>7
      <4>4. work[m].node \in Reaches(x)
        <5>1. x \in Paths /\ v \in Paths /\ work[m].node \in Paths
          BY <1>2, <1>3
        <5> QED BY <4>2, <5>1, <1>2, <1>7, ReachesFacts
      <4> QED BY <4>1, <4>3, <4>4
    <3> QED BY <3>2, <3>3
  <2> QED BY <2>1, <1>1, <1>13, <1>14, <1>15 DEF StackReaches
<1>20. ClosedStays'
  BY <1>1, <1>13 DEF ClosedStays, CyclesInv, WalkReaches
<1>21. LowIsLow'
  <2>1. ASSUME NEW x \in OnStack', NEW i \in DOMAIN work', BelongsTo(x, i)', NEW y \in LookedAt(x, i)'
        PROVE  y \in DOMAIN index' /\ (y \in OnStack' => lowlink'[work'[i].node] <= index'[y])
    <3>1. x \in OnStack /\ i \in DOMAIN work /\ work'[i] = work[i] /\ i \in 1..k - 1 /\ i < k /\ work[i].node \in DOMAIN index
      BY <1>2, <1>13, <1>14
    <3>2. index[work[i].node] <= index[x] /\ \A j \in 1..k - 1 : i < j => index[x] < index[work[j].node]
      BY <2>1, <3>1, <1>1, <1>14 DEF BelongsTo
    <3>3. y \in graph[x] /\ y \in LookedAt(x, i)
      BY <2>1, <3>1, <1>1 DEF LookedAt
    <3>4. CASE index[x] < index[v]
      <4>1. BelongsTo(x, i)
        <5>1. \A j \in DOMAIN work : j = k \/ j \in 1..k - 1
          BY <1>2
        <5> QED BY <3>1, <3>2, <3>4, <5>1, <1>3 DEF BelongsTo
      <4>2. y \in DOMAIN index /\ (y \in OnStack => lowlink[work[i].node] <= index[y])
        BY <3>1, <3>3, <4>1 DEF LowIsLow, CyclesInv, WalkLow
      <4>3. lowlink'[work[i].node] <= lowlink[work[i].node] /\ lowlink'[work[i].node] \in Nat /\ lowlink[work[i].node] \in Nat
        BY <3>1, <1>12
      <4>4. ASSUME y \in OnStack PROVE lowlink'[work[i].node] <= index[y]
        <5>1. lowlink[work[i].node] <= index[y] /\ index[y] \in Nat
          BY <4>2, <4>4, <1>2
        <5> QED BY ONLY <4>3, <5>1
      <4> QED BY <3>1, <4>2, <4>4, <1>1, <1>13
    <3>5. CASE ~(index[x] < index[v])
      <4>1. index[v] <= index[x]
        BY <3>1, <3>5, <1>2, <1>3
      <4>2. i = k - 1
        <5>1. CASE i # k - 1
          <6>1. i < k - 1 /\ k - 1 \in 1..k - 1
            BY <3>1, <5>1, <1>2, <1>8
          <6>2. index[x] < index[u]
            BY <3>2, <6>1 DEF u
          <6>3. index[x] \in Nat /\ index[u] \in Nat /\ index[v] \in Nat
            BY <3>1, <1>2, <1>3, <1>9
          <6> QED BY <4>1, <6>2, <6>3, <1>9
        <5> QED BY <5>1
      <4>3. BelongsTo(x, k)
        BY <4>1, <1>2, <1>3 DEF BelongsTo
      <4>4. y \in LookedAt(x, k)
        BY <3>3, <1>3 DEF LookedAt
      <4>5. y \in DOMAIN index /\ (y \in OnStack => lowlink[v] <= index[y])
        BY <3>1, <4>3, <4>4, <1>2, <1>3 DEF LowIsLow, CyclesInv, WalkLow
      <4>6. work'[i].node = u
        BY <3>1, <4>2 DEF u
      <4>7. least <= lowlink[v] /\ lowlink[v] \in Nat /\ lowlink'[u] = least
        BY <1>2, <1>3, <1>11, <1>12
      <4> QED BY <4>5, <4>6, <4>7, <1>1, <1>2, <1>13
    <3> QED BY <3>4, <3>5
  <2> QED BY <2>1 DEF LowIsLow
<1>22. LowIsReached'
  <2>1. ASSUME NEW i \in 1..k - 1
        PROVE  \E y \in OnStack : index[y] = lowlink'[work[i].node] /\ y \in Reaches(work[i].node)
    <3>1. i \in DOMAIN work /\ work[i].node \in DOMAIN index
      BY <1>2, <1>14
    <3>2. CASE lowlink'[work[i].node] = lowlink[work[i].node]
      BY <3>1, <3>2 DEF LowIsReached, CyclesInv, WalkLow
    <3>3. CASE lowlink'[work[i].node] # lowlink[work[i].node]
      <4>1. work[i].node = u /\ lowlink'[u] = lowlink[v]
        BY <3>1, <3>3, <1>11, <1>12
      <4>2. v \in Reaches(u)
        <5>1. index[u] <= index[v]
          BY <1>2, <1>3, <1>9
        <5> QED BY <5>1, <4>1, <3>1, <1>3 DEF NodesReach, CyclesInv, WalkReaches
      <4>3. low \in Reaches(u)
        <5>1. u \in Paths /\ v \in Paths /\ low \in Paths
          BY <1>2, <1>3, <1>9
        <5> QED BY <4>2, <5>1, <1>2, <1>5, ReachesFacts
      <4> QED BY <4>1, <4>3, <1>5
    <3> QED BY <3>2, <3>3
  <2> QED BY <2>1, <1>1, <1>13, <1>14, <1>15 DEF LowIsReached
<1>23. ComponentsClosed'
  BY <1>1, <1>13, <1>15 DEF ComponentsClosed, CyclesInv
<1> QED BY <1>15, <1>16, <1>17, <1>18, <1>19, <1>20, <1>21, <1>22, <1>23
        DEF CyclesInv, WalkTyped, WalkReaches, WalkLow

LEMMA OthersKeep ==
  ASSUME CyclesInv, UNCHANGED <<graph, index, lowlink, stack, work, components>>
  PROVE  CyclesInv'
<1>1. /\ graph' = graph /\ index' = index /\ lowlink' = lowlink /\ stack' = stack /\ work' = work
      /\ components' = components
  OBVIOUS
<1>2. /\ (\A q : Reaches(q)' = Reaches(q)) /\ GraphTyped' /\ (\A c : Exact(c)' = Exact(c))
  BY <1>1, SameGraph DEF CyclesInv, WalkTyped
<1>3. OnStack' = OnStack /\ ClosedOff' = ClosedOff
  BY <1>1 DEF OnStack, ClosedOff
<1>4. WalkTyped'
  BY <1>1, <1>2, <1>3 DEF CyclesInv, WalkTyped, Untouched, NumbersTyped, StackTyped, WorkTyped
<1>5. WalkReaches'
  BY <1>1, <1>2, <1>3 DEF CyclesInv, WalkReaches, NodesReach, StackReaches, ClosedStays
<1>6. LowIsLow'
  <2>1. \A x, i : (BelongsTo(x, i)' <=> BelongsTo(x, i)) /\ LookedAt(x, i)' = LookedAt(x, i)
    BY <1>1 DEF BelongsTo, LookedAt
  <2> QED BY <2>1, <1>1, <1>3 DEF LowIsLow, CyclesInv, WalkLow
<1>7. LowIsReached' /\ ComponentsClosed'
  BY <1>1, <1>2, <1>3 DEF LowIsReached, ComponentsClosed, CyclesInv, WalkLow
<1> QED BY <1>4, <1>5, <1>6, <1>7 DEF CyclesInv, WalkLow

LEMMA CyclesInvHolds == CyclesSpec => []CyclesInv
<1>1. CyclesInit => CyclesInv
  BY CyclesInvInit
<1>2. CyclesInv /\ [CyclesNext]_tarjanVars => CyclesInv'
  <2> SUFFICES ASSUME CyclesInv, [CyclesNext]_tarjanVars PROVE CyclesInv'
    OBVIOUS
  <2>1. CASE BuildGraph
    BY <2>1, BuildGraphKeeps
  <2>2. CASE Root
    BY <2>2, RootKeeps
  <2>3. CASE Seen
    BY <2>3, SeenKeeps
  <2>4. CASE Descend
    BY <2>4, DescendKeeps
  <2>5. CASE Finalize
    BY <2>5, ClosingKeeps, LeavingKeeps
  <2>6. CASE StartTour \/ LookAround \/ CloseTour \/ Report
    <3>1. UNCHANGED <<graph, index, lowlink, stack, work, components>>
      BY <2>6 DEF StartTour, LookAround, CloseTour, Report
    <3> QED BY <3>1, OthersKeep
  <2>7. CASE UNCHANGED tarjanVars
    BY <2>7, OthersKeep DEF tarjanVars
  <2> QED BY <2>1, <2>2, <2>3, <2>4, <2>5, <2>6, <2>7 DEF CyclesNext
<1> QED BY <1>1, <1>2, PTL DEF CyclesSpec

\* The components are exact: for every graph of imports a component that the loop has
\* closed is the set of all files that import each other, and when the walk is over
\* every file is in one (_strongly_connected_components of import_cycles.py).
THEOREM ComponentsExact == CyclesSpec => []ComponentsAreExact
<1>1. CyclesInv => ComponentsAreExact
  <2> SUFFICES ASSUME CyclesInv PROVE ComponentsAreExact
    OBVIOUS
  <2>1. \A c \in components : \A p \in c : c = {q \in Reaches(p) : p \in Reaches(q)}
    BY DEF CyclesInv, ComponentsClosed, Exact
  <2>2. ASSUME Walked
        PROVE  UNION components = Paths
    <3>1. DOMAIN work = {}
      BY <2>2 DEF Walked
    <3>2. OnStack = {}
      BY <3>1 DEF CyclesInv, WalkReaches, StackReaches
    <3>3. DOMAIN index = Paths
      BY <2>2 DEF Walked, Opened, CyclesInv, WalkTyped, NumbersTyped
    <3> QED BY <3>2, <3>3 DEF ClosedOff, CyclesInv, ComponentsClosed
  <2> QED BY <2>1, <2>2 DEF ComponentsAreExact
<1> QED BY <1>1, CyclesInvHolds, PTL

-----------------------------------------------------------------------------
(* The representative cycles *)

TourFields == [members : SUBSET Paths, queue : Seq(Seq(Paths)), next : Nat]

\* A walk of the queue: along imports of members from the first, with no file twice.
WalkWell(w) ==
  /\ w \in Seq(Paths) /\ Len(w) >= 1 /\ w[1] = TourStart
  /\ \A j \in DOMAIN w : w[j] \in tour.members /\ w[j] \in Reached
  /\ \A j, l \in DOMAIN w : w[j] = w[l] => j = l
  /\ \A j \in 1..Len(w) - 1 : w[j + 1] \in graph[w[j]]
\* A walk that was looked at does not close, and its successors are reached one further.
LookedAround(i) ==
  /\ TourStart \notin graph[Last(tour.queue[i])]
  /\ \A s \in graph[Last(tour.queue[i])] \cap tour.members :
       \E j \in DOMAIN tour.queue : Last(tour.queue[j]) = s /\ Len(tour.queue[j]) <= Len(tour.queue[i]) + 1
QueueWell ==
  /\ tour.queue # <<>> /\ tour.queue[1] = <<TourStart>> /\ tour.next \in 1..Len(tour.queue) + 1
  /\ \A i \in DOMAIN tour.queue : WalkWell(tour.queue[i])
  /\ \A i, j \in DOMAIN tour.queue : i < j => Len(tour.queue[i]) <= Len(tour.queue[j])
  /\ tour.next \in DOMAIN tour.queue => \A j \in DOMAIN tour.queue : Len(tour.queue[j]) <= Len(InHand) + 1
  /\ \A i \in DOMAIN tour.queue : i < tour.next => LookedAround(i)
OnTour == tour.members \in components /\ Cardinality(tour.members) >= 2 /\ tour.members \notin Searched
TourInv == tour \in TourFields /\ (tour # NoTour => OnTour /\ QueueWell)

CycleWell(k) ==
  /\ k.members \in components /\ Cardinality(k.members) >= 2 /\ k.size = Cardinality(k.members)
  /\ RealCycle(k.cycle, k.members)
CyclesWell ==
  /\ IsFiniteSet(cycles) /\ selfLoops \subseteq Paths
  /\ \A k \in cycles : CycleWell(k)
  /\ \A k, l \in cycles : k.members = l.members => k = l
FoundWell == found # Unreported => Walked /\ CyclesAreReal /\ GravestAreFound
ToursInv == TourInv /\ CyclesWell /\ FoundWell

LEMMA ComponentFacts ==
  ASSUME CyclesInv, NEW c \in components, Cardinality(c) >= 2
  PROVE  /\ c \subseteq Paths /\ c \in SUBSET Int /\ IsFiniteSet(c) /\ Exact(c)
         /\ Min(c) \in c /\ \E q \in c : q # Min(c)
         /\ graph \in [Paths -> SUBSET Paths]
<1>1. c \subseteq Paths /\ Exact(c)
  <2>1. c \subseteq ClosedOff /\ Exact(c)
    BY DEF CyclesInv, ComponentsClosed
  <2>2. ClosedOff \subseteq Paths
    BY DEF ClosedOff, CyclesInv, WalkTyped, NumbersTyped
  <2> QED BY <2>1, <2>2
<1>2. c \in SUBSET Int /\ IsFiniteSet(c)
  <2>1. Paths \subseteq Int /\ IsFiniteSet(Paths)
    BY ImportCyclesAssumption
  <2> QED BY <1>1, <2>1, FS_Subset
<1>3. c # {}
  BY FS_EmptySet
<1>4. Min(c) \in c
  BY <1>2, <1>3, MinOfFinite
<1>5. \E q \in c : q # Min(c)
  <2>1. SUFFICES ASSUME \A q \in c : q = Min(c) PROVE FALSE
    OBVIOUS
  <2>2. c = {Min(c)}
    BY <2>1, <1>4
  <2>3. Cardinality(c) = 1
    BY <2>2, FS_Singleton
  <2> QED BY <2>3
<1>6. graph \in [Paths -> SUBSET Paths]
  BY DEF CyclesInv, WalkTyped, Untouched, GraphTyped
<1> QED BY <1>1, <1>2, <1>4, <1>5, <1>6

\* A component that is reached from its first member in itself has an import of it.
LEMMA SomeMemberCloses ==
  ASSUME CyclesInv, NEW c \in components, Cardinality(c) >= 2,
         NEW R \in SUBSET c, Min(c) \in R,
         \A x \in R : graph[x] \cap c \subseteq R /\ Min(c) \notin graph[x]
  PROVE  FALSE
<1> DEFINE start == Min(c)
<1>1. /\ c \subseteq Paths /\ Exact(c) /\ start \in c /\ \E q \in c : q # start
      /\ graph \in [Paths -> SUBSET Paths]
  BY ComponentFacts
<1> HIDE DEF start
<1>2. /\ \A x \in Paths : x \in Reaches(x) /\ Reaches(x) \subseteq Paths /\ graph[x] \subseteq Reaches(x)
      /\ \A x, y, z \in Paths : y \in Reaches(x) /\ z \in Reaches(y) => z \in Reaches(x)
      /\ \A S \in SUBSET Paths : (\A x \in S : graph[x] \subseteq S) => \A x \in S : Reaches(x) \subseteq S
  BY <1>1, ReachesFacts
<1>3. c = {q \in Reaches(start) : start \in Reaches(q)}
  BY <1>1 DEF Exact
<1>4. c \subseteq R
  <2> DEFINE S == R \cup {x \in Reaches(start) : start \notin Reaches(x)}
  <2>1. S \subseteq Paths
    BY <1>1, <1>2
  <2>2. ASSUME NEW x \in S, NEW y \in graph[x] PROVE y \in S
    <3>1. x \in Reaches(start) /\ x \in Paths /\ y \in Paths /\ y \in Reaches(x)
      BY <2>1, <1>1, <1>2, <1>3
    <3>2. y \in Reaches(start)
      BY <3>1, <1>1, <1>2
    <3>3. CASE start \in Reaches(y)
      <4>1. y \in c
        BY <3>2, <3>3, <1>3
      <4>2. start \in Reaches(x)
        BY <3>1, <3>3, <1>1, <1>2
      <4> QED BY <4>1, <4>2
    <3> QED BY <3>2, <3>3
  <2>3. Reaches(start) \subseteq S
    <3>1. start \in S
      BY DEF start
    <3> HIDE DEF S
    <3> QED BY <2>1, <2>2, <3>1, <1>2
  <2> QED BY <2>3, <1>3
<1>5. PICK q \in c : q # start
  BY <1>1
<1>6. start \in Reaches(q) /\ q \in Reaches(start) /\ q \in Paths /\ start \in Paths
  BY <1>1, <1>3
<1> DEFINE T == Reaches(q) \ {start}
<1>7. T \subseteq Paths /\ q \in T
  BY <1>2, <1>5, <1>6
<1>8. ASSUME NEW x \in T, NEW y \in graph[x] PROVE y \in T
  <2>1. x \in Paths /\ y \in Paths /\ y \in Reaches(x) /\ y \in Reaches(q)
    BY <1>1, <1>2, <1>6, <1>7
  <2>2. ASSUME y = start PROVE FALSE
    <3>1. start \in Reaches(x) /\ x \in Reaches(start)
      BY <2>1, <2>2, <1>2, <1>6
    <3>2. x \in R
      BY <3>1, <1>3, <1>4
    <3> QED BY <3>2, <2>2 DEF start
  <2> QED BY <2>1, <2>2
<1>9. Reaches(q) \subseteq T
  <2> HIDE DEF T
  <2> QED BY <1>2, <1>7, <1>8
<1> QED BY <1>6, <1>9

\* What every lemma about a tour begins with.
LEMMA TourFacts ==
  ASSUME CyclesInv, TourInv, tour # NoTour
  PROVE  /\ tour.members \subseteq Paths /\ tour.members \in components /\ Cardinality(tour.members) >= 2
         /\ TourStart \in tour.members /\ graph \in [Paths -> SUBSET Paths]
         /\ Len(tour.queue) \in Nat \ {0} /\ DOMAIN tour.queue = 1..Len(tour.queue)
         /\ tour.next \in Nat /\ tour.next >= 1 /\ tour.next <= Len(tour.queue) + 1
         /\ \A i \in DOMAIN tour.queue :
              /\ Len(tour.queue[i]) \in Nat \ {0} /\ DOMAIN tour.queue[i] = 1..Len(tour.queue[i])
              /\ Last(tour.queue[i]) = tour.queue[i][Len(tour.queue[i])]
              /\ Last(tour.queue[i]) \in tour.members /\ Last(tour.queue[i]) \in Paths
<1>1. OnTour /\ QueueWell /\ tour \in TourFields
  BY DEF TourInv
<1>2. tour.members \subseteq Paths /\ TourStart \in tour.members /\ graph \in [Paths -> SUBSET Paths]
  BY <1>1, ComponentFacts DEF OnTour, TourStart
<1>3. tour.queue \in Seq(Seq(Paths)) /\ tour.next \in Nat
  BY <1>1 DEF TourFields
<1>4. Len(tour.queue) \in Nat \ {0} /\ DOMAIN tour.queue = 1..Len(tour.queue)
  <2>1. tour.queue # <<>>
    BY <1>1 DEF QueueWell
  <2> QED BY <1>3, <2>1
<1>5. tour.next >= 1 /\ tour.next <= Len(tour.queue) + 1
  BY <1>1, <1>4 DEF QueueWell
<1>6. ASSUME NEW i \in DOMAIN tour.queue
      PROVE  /\ Len(tour.queue[i]) \in Nat \ {0} /\ DOMAIN tour.queue[i] = 1..Len(tour.queue[i])
             /\ Last(tour.queue[i]) = tour.queue[i][Len(tour.queue[i])]
             /\ Last(tour.queue[i]) \in tour.members /\ Last(tour.queue[i]) \in Paths
  <2> DEFINE w == tour.queue[i]
  <2>1. w \in Seq(Paths) /\ Len(w) >= 1 /\ \A j \in DOMAIN w : w[j] \in tour.members
    BY <1>1 DEF QueueWell, WalkWell
  <2> HIDE DEF w
  <2>2. Len(w) \in Nat \ {0} /\ DOMAIN w = 1..Len(w) /\ Last(w) = w[Len(w)] /\ Len(w) \in DOMAIN w
    BY <2>1 DEF Last
  <2> QED BY <2>1, <2>2, <1>2 DEF w
<1> QED BY <1>1, <1>2, <1>3, <1>4, <1>5, <1>6 DEF OnTour

\* The queue never runs out: a component of two files or more has a cycle.
LEMMA QueueNeverRunsOut ==
  ASSUME CyclesInv, TourInv, tour # NoTour
  PROVE  ~Exhausted
<1>1. /\ tour.members \in components /\ Cardinality(tour.members) >= 2 /\ TourStart \in tour.members
      /\ Len(tour.queue) \in Nat \ {0} /\ DOMAIN tour.queue = 1..Len(tour.queue)
      /\ tour.next \in Nat
      /\ \A i \in DOMAIN tour.queue : Last(tour.queue[i]) \in tour.members
  BY TourFacts
<1>2. /\ tour.queue[1] = <<TourStart>>
      /\ \A i \in DOMAIN tour.queue : i < tour.next => LookedAround(i)
  BY DEF TourInv, QueueWell
<1>3. SUFFICES ASSUME Exhausted PROVE FALSE
  OBVIOUS
<1>4. \A i \in DOMAIN tour.queue : LookedAround(i)
  BY <1>1, <1>2, <1>3 DEF Exhausted
<1>5. Reached \in SUBSET tour.members
  BY <1>1 DEF Reached
<1>6. TourStart \in Reached
  <2>1. 1 \in DOMAIN tour.queue /\ Last(<<TourStart>>) = TourStart
    BY <1>1 DEF Last
  <2> QED BY <2>1, <1>2 DEF Reached
<1>7. ASSUME NEW x \in Reached PROVE graph[x] \cap tour.members \subseteq Reached /\ TourStart \notin graph[x]
  <2>1. PICK i \in DOMAIN tour.queue : x = Last(tour.queue[i])
    BY DEF Reached
  <2>2. LookedAround(i)
    BY <1>4
  <2> QED BY <2>1, <2>2 DEF LookedAround, Reached
<1> QED BY <1>1, <1>5, <1>6, <1>7, SomeMemberCloses DEF TourStart

\* No closed walk of the members through the first is shorter than the one in hand.
LEMMA NoneShorter ==
  ASSUME CyclesInv, TourInv, tour # NoTour, ~Exhausted
  PROVE  Shorter(Len(InHand), tour.members, TourStart) = {}
<1> DEFINE q == tour.queue
           n == Len(InHand)
<1>1. /\ graph \in [Paths -> SUBSET Paths] /\ TourStart \in tour.members
      /\ Len(q) \in Nat \ {0} /\ DOMAIN q = 1..Len(q)
      /\ tour.next \in Nat /\ tour.next >= 1 /\ tour.next <= Len(q) + 1
      /\ \A i \in DOMAIN q : Len(q[i]) \in Nat \ {0} /\ Last(q[i]) \in tour.members
  BY TourFacts
<1>2. /\ q[1] = <<TourStart>>
      /\ \A i, j \in DOMAIN q : i < j => Len(q[i]) <= Len(q[j])
      /\ \A i \in DOMAIN q : i < tour.next => LookedAround(i)
  BY DEF TourInv, QueueWell
<1>3. tour.next \in DOMAIN q /\ n = Len(q[tour.next]) /\ n \in Nat \ {0}
  <2>1. tour.next \in DOMAIN q
    BY <1>1 DEF Exhausted
  <2> QED BY <2>1, <1>1 DEF InHand
<1>4. \A i \in DOMAIN q : Len(q[i]) < n => i < tour.next
  <2>1. ASSUME NEW i \in DOMAIN q, Len(q[i]) < n PROVE i < tour.next
    <3>1. i \in Nat /\ i # tour.next /\ Len(q[i]) \in Nat
      BY <2>1, <1>1, <1>3
    <3>2. ~(tour.next < i)
      <4>1. ASSUME tour.next < i PROVE FALSE
        <5>1. n <= Len(q[i])
          BY <4>1, <1>2, <1>3
        <5> QED BY <5>1, <2>1, <3>1, <1>3
      <4> QED BY <4>1
    <3> QED BY <3>1, <3>2, <1>1
  <2> QED BY <2>1
<1>5. SUFFICES ASSUME NEW walk \in Shorter(n, tour.members, TourStart) PROVE FALSE
  BY DEF n
<1> HIDE DEF q, n
<1>6. PICK k \in 1..n - 1 : walk \in [1..k -> tour.members]
  BY <1>5 DEF Shorter
<1>7. /\ walk[1] = TourStart /\ TourStart \in graph[walk[Len(walk)]]
      /\ \A j \in 1..Len(walk) - 1 : walk[j + 1] \in graph[walk[j]]
  BY <1>5 DEF Shorter
<1>8. k \in Nat \ {0} /\ k < n /\ Len(walk) = k
  <2>1. k \in Nat \ {0} /\ k < n
    BY <1>3
  <2>2. walk \in Seq(tour.members) /\ DOMAIN walk = 1..k
    BY <2>1, <1>6, IsASequence
  <2> QED BY <2>1, <2>2
<1> DEFINE ReachedBy(j) == \E i \in DOMAIN q : i < tour.next /\ Last(q[i]) = walk[j] /\ Len(q[i]) <= j
           S == {j \in Nat : j \in 1..k => ReachedBy(j)}
<1>9. 0 \in S
  OBVIOUS
<1>10. ASSUME NEW j \in Nat, j \in S PROVE j + 1 \in S
  <2>1. SUFFICES ASSUME j + 1 \in 1..k PROVE ReachedBy(j + 1)
    OBVIOUS
  <2>2. CASE j = 0
    <3>1. 1 \in DOMAIN q /\ Len(q[1]) = 1 /\ Last(q[1]) = TourStart
      BY <1>1, <1>2 DEF Last
    <3>2. 1 < tour.next
      <4>1. 1 < n
        BY <1>3, <1>8
      <4>2. Len(q[1]) < n
        BY <3>1, <4>1
      <4> QED BY ONLY <3>1, <4>2, <1>4
    <3>3. j + 1 = 1
      BY <2>2
    <3>4. Last(q[1]) = walk[1] /\ Len(q[1]) <= 1
      BY <3>1, <1>7
    <3> QED BY <3>1, <3>2, <3>3, <3>4
  <2>3. CASE j # 0
    <3>1. j \in 1..k /\ j \in 1..Len(walk) - 1
      BY <2>1, <2>3, <1>8
    <3>2. PICK i \in DOMAIN q : i < tour.next /\ Last(q[i]) = walk[j] /\ Len(q[i]) <= j
      BY <3>1, <1>10
    <3>3. walk[j + 1] \in graph[Last(q[i])] \cap tour.members
      BY <3>1, <3>2, <2>1, <1>6, <1>7
    <3>4. LookedAround(i)
      BY <3>2, <1>2
    <3>5. PICK m \in DOMAIN q : Last(q[m]) = walk[j + 1] /\ Len(q[m]) <= Len(q[i]) + 1
      BY <3>3, <3>4 DEF LookedAround, q
    <3>6. Len(q[m]) <= j + 1 /\ Len(q[m]) < n
      <4>1. Len(q[m]) \in Nat /\ Len(q[i]) \in Nat /\ j + 1 <= k
        BY <2>1, <1>1, <1>8
      <4> QED BY <4>1, <3>2, <3>5, <1>3, <1>8
    <3> QED BY <3>5, <3>6, <1>4
  <2> QED BY <2>2, <2>3
<1>11. k \in S
  <2> HIDE DEF S
  <2> QED BY <1>8, <1>9, <1>10, NatSetInduction
<1>12. ReachedBy(k)
  BY <1>8, <1>11
<1>13. PICK i \in DOMAIN q : i < tour.next /\ Last(q[i]) = walk[k]
  BY <1>12
<1> QED BY <1>13, <1>2, <1>7, <1>8 DEF LookedAround, q

LEMMA ClosedIsReal ==
  ASSUME CyclesInv, TourInv, tour # NoTour, ~Exhausted, TourStart \in graph[Last(InHand)]
  PROVE  RealCycle(Append(InHand, TourStart), tour.members)
<1> DEFINE n == Len(InHand)
           cycle == Append(InHand, TourStart)
<1>1. /\ Len(tour.queue) \in Nat \ {0} /\ DOMAIN tour.queue = 1..Len(tour.queue)
      /\ tour.next \in Nat /\ tour.next >= 1 /\ TourStart \in tour.members /\ tour.members \subseteq Paths
      /\ \A i \in DOMAIN tour.queue :
            Len(tour.queue[i]) \in Nat \ {0} /\ Last(tour.queue[i]) = tour.queue[i][Len(tour.queue[i])]
  BY TourFacts
<1>2. tour.next \in DOMAIN tour.queue
  BY <1>1 DEF Exhausted
<1>3. WalkWell(InHand) /\ n \in Nat \ {0} /\ Last(InHand) = InHand[n]
  BY <1>1, <1>2 DEF TourInv, QueueWell, InHand
<1>4. /\ InHand \in Seq(Paths) /\ DOMAIN InHand = 1..n /\ InHand[1] = TourStart
      /\ \A j \in 1..n : InHand[j] \in tour.members
      /\ \A j, l \in 1..n : InHand[j] = InHand[l] => j = l
      /\ \A j \in 1..n - 1 : InHand[j + 1] \in graph[InHand[j]]
  BY <1>3 DEF WalkWell
<1> HIDE DEF n
<1>5. Len(cycle) = n + 1 /\ cycle[n + 1] = TourStart /\ \A j \in 1..n : cycle[j] = InHand[j]
  BY <1>1, <1>3, <1>4 DEF n
<1> HIDE DEF cycle
<1>6. cycle[1] = TourStart
  BY <1>3, <1>4, <1>5
<1>7. Cardinality({cycle[j] : j \in 1..n}) = n
  <2> DEFINE f == [j \in 1..n |-> cycle[j]]
             T == {cycle[j] : j \in 1..n}
  <2>1. f \in Bijection(1..n, T)
    <3>1. \A j, l \in 1..n : f[j] = f[l] => j = l
      BY <1>4, <1>5
    <3>2. f \in [1..n -> T] /\ \A t \in T : \E j \in 1..n : f[j] = t
      OBVIOUS
    <3> QED BY <3>1, <3>2 DEF Bijection, Injection, Surjection, IsInjective
  <2>2. IsFiniteSet(1..n) /\ Cardinality(1..n) = n
    BY <1>3, FS_Interval
  <2> HIDE DEF f, T
  <2>3. Cardinality(T) = n
    BY <2>1, <2>2, SameSize
  <2> QED BY <2>3 DEF T
<1>8. ASSUME NEW j \in 1..n PROVE cycle[j] \in tour.members /\ cycle[j + 1] \in graph[cycle[j]]
  <2>1. cycle[j] = InHand[j] /\ InHand[j] \in tour.members
    BY <1>4, <1>5
  <2>2. CASE j = n
    BY <2>1, <2>2, <1>3, <1>5
  <2>3. CASE j # n
    <3>1. j \in 1..n - 1 /\ j + 1 \in 1..n
      BY <2>3, <1>3
    <3> QED BY <2>1, <3>1, <1>4, <1>5
  <2> QED BY <2>1, <2>2, <2>3
<1>9. Shorter(n, tour.members, cycle[1]) = {}
  BY <1>6, NoneShorter DEF n
<1>10. Len(cycle) - 1 = n
  BY <1>3, <1>5
<1>11. RealCycle(cycle, tour.members)
  BY <1>5, <1>6, <1>7, <1>8, <1>9, <1>10 DEF RealCycle
<1> QED BY <1>11 DEF cycle

LEMMA SameCycles ==
  ASSUME graph' = graph
  PROVE  \A c, m : RealCycle(c, m)' <=> RealCycle(c, m)
BY DEF RealCycle, Shorter

\* What does not touch the cycles and only adds components keeps what is known of them.
LEMMA ToursKept ==
  ASSUME CyclesInv, ToursInv, UNCHANGED <<tour, cycles, found>>, components \subseteq components',
         graph' = graph \/ graph = <<>>, selfLoops' \subseteq Paths,
         found = Unreported \/ UNCHANGED tarjanVars
  PROVE  ToursInv'
<1>1. tour' = tour /\ cycles' = cycles /\ found' = found /\ selfLoops' \subseteq Paths
  OBVIOUS
<1>2. CASE graph' = graph
  <2>1. /\ \A w : WalkWell(w)' <=> WalkWell(w)
        /\ \A i : LookedAround(i)' <=> LookedAround(i)
    BY <1>1, <1>2 DEF WalkWell, LookedAround, Reached, TourStart
  <2>2. QueueWell' <=> QueueWell
    BY <1>1, <2>1 DEF QueueWell, InHand, TourStart
  <2>3. OnTour => OnTour'
    BY <1>1 DEF OnTour, Searched
  <2>4. TourInv'
    BY <1>1, <2>2, <2>3 DEF TourInv, ToursInv
  <2>5. \A k : CycleWell(k) => CycleWell(k)'
    BY <1>2, SameCycles DEF CycleWell
  <2>6. CyclesWell'
    BY <1>1, <2>5 DEF CyclesWell, ToursInv
  <2>7. CASE found = Unreported
    BY <1>1, <2>4, <2>6, <2>7 DEF ToursInv, FoundWell
  <2>8. CASE UNCHANGED tarjanVars
    <3>1. (Walked' <=> Walked) /\ (GravestAreFound' <=> GravestAreFound)
      BY <2>8 DEF Walked, Opened, GravestAreFound, tarjanVars
    <3>2. CyclesAreReal' <=> CyclesAreReal
      BY <1>1, <1>2, SameCycles DEF CyclesAreReal
    <3> QED BY <1>1, <2>4, <2>6, <3>1, <3>2 DEF ToursInv, FoundWell
  <2> QED BY <2>7, <2>8
<1>3. CASE graph = <<>>
  <2>1. components = {}
    BY <1>3 DEF CyclesInv, WalkTyped, Untouched
  <2>2. tour = NoTour
    BY <2>1 DEF ToursInv, TourInv, OnTour
  <2>3. cycles = {}
    BY <2>1 DEF ToursInv, CyclesWell, CycleWell
  <2>4. TourInv'
    BY <1>1, <2>2 DEF TourInv, ToursInv
  <2>5. CyclesWell'
    BY <1>1, <2>3 DEF CyclesWell, ToursInv
  <2>6. found = Unreported
    BY <1>3 DEF ToursInv, FoundWell, Walked
  <2> QED BY <1>1, <2>4, <2>5, <2>6 DEF ToursInv, FoundWell
<1> QED BY <1>2, <1>3

LEMMA StartTourKeeps == CyclesInv /\ ToursInv /\ StartTour => ToursInv'
<1> SUFFICES ASSUME CyclesInv, ToursInv, StartTour PROVE ToursInv'
  OBVIOUS
<1>1. PICK c \in Unsearched : tour' = [members |-> c, queue |-> <<<<Min(c)>>>>, next |-> 1]
  BY DEF StartTour
<1>2. /\ graph' = graph /\ components' = components /\ cycles' = cycles /\ found' = found
      /\ selfLoops' = selfLoops /\ found = Unreported
  BY DEF StartTour
<1>3. c \in components /\ Cardinality(c) >= 2 /\ c \notin Searched
  BY DEF Unsearched
<1>4. c \subseteq Paths /\ Min(c) \in c
  BY <1>3, ComponentFacts
<1> DEFINE start == Min(c)
<1>5. tour'.members = c /\ tour'.queue = <<<<start>>>> /\ tour'.next = 1 /\ TourStart' = start
  BY <1>1 DEF TourStart
<1>6. start \in c
  BY <1>4
<1> HIDE DEF start
<1>7. /\ DOMAIN tour'.queue = {1} /\ Len(tour'.queue) = 1 /\ tour'.queue[1] = <<start>>
      /\ Len(<<start>>) = 1 /\ Last(<<start>>) = start /\ DOMAIN <<start>> = {1} /\ <<start>>[1] = start
  BY <1>5 DEF Last
<1>8. tour' \in TourFields
  <2>1. <<<<start>>>> \in Seq(Seq(Paths))
    BY <1>4, <1>6
  <2> QED BY <1>1, <1>4, <2>1 DEF TourFields, start
<1>9. Reached' = {start}
  BY <1>5, <1>7 DEF Reached
<1>10. OnTour'
  BY <1>2, <1>3, <1>5 DEF OnTour, Searched
<1>11. QueueWell'
  <2>1. WalkWell(<<start>>)'
    BY <1>4, <1>5, <1>6, <1>7, <1>9 DEF WalkWell
  <2>2. InHand' = <<start>>
    BY <1>5, <1>7 DEF InHand
  <2>3. tour'.queue # <<>>
    BY <1>7
  <2>4. \A i \in DOMAIN tour'.queue : i = 1 /\ tour'.queue[i] = <<start>> /\ Len(tour'.queue[i]) = 1
    BY <1>7
  <2>5. ASSUME NEW i \in DOMAIN tour'.queue PROVE (WalkWell(tour.queue[i]))'
    <3>1. tour'.queue[i] = <<start>>
      BY <2>4
    <3> QED BY <2>1, <3>1
  <2>6. \A i, j \in DOMAIN tour'.queue : i < j => Len(tour'.queue[i]) <= Len(tour'.queue[j])
    BY <2>4
  <2>7. \A j \in DOMAIN tour'.queue : Len(tour'.queue[j]) <= Len(InHand') + 1
    <3>1. Len(InHand') = 1
      BY <2>2, <1>7
    <3>2. 1 <= Len(InHand') + 1
      BY ONLY <3>1
    <3>3. ASSUME NEW j \in DOMAIN tour'.queue PROVE Len(tour'.queue[j]) <= Len(InHand') + 1
      <4>1. Len(tour'.queue[j]) = 1
        BY <2>4
      <4> QED BY ONLY <4>1, <3>2
    <3> QED BY ONLY <3>3
  <2>8. \A i \in DOMAIN tour'.queue : ~(i < tour'.next)
    <3>1. tour'.next = 1
      BY <1>5
    <3> QED BY ONLY <2>4, <3>1
  <2>9. tour'.next \in 1..Len(tour'.queue) + 1 /\ tour'.queue[1] = <<TourStart'>>
    <3>1. tour'.next = 1 /\ Len(tour'.queue) = 1
      BY <1>5, <1>7
    <3> QED BY <3>1, <1>5, <1>7
  <2> QED BY <2>3, <2>5, <2>6, <2>7, <2>8, <2>9 DEF QueueWell
<1>12. CyclesWell'
  <2>1. \A k : CycleWell(k) => CycleWell(k)'
    BY <1>2, SameCycles DEF CycleWell
  <2> QED BY <1>2, <2>1 DEF CyclesWell, ToursInv
<1> QED BY <1>2, <1>8, <1>10, <1>11, <1>12 DEF ToursInv, TourInv, FoundWell

LEMMA CloseTourKeeps == CyclesInv /\ ToursInv /\ CloseTour => ToursInv'
<1> SUFFICES ASSUME CyclesInv, ToursInv, CloseTour PROVE ToursInv'
  OBVIOUS
<1> DEFINE cycle == Append(InHand, TourStart)
           new == [size |-> Cardinality(tour.members), members |-> tour.members, cycle |-> cycle]
<1>1. TourInv /\ tour # NoTour /\ ~Exhausted /\ TourStart \in graph[Last(InHand)]
  BY QueueNeverRunsOut DEF CloseTour, Closes, ToursInv
<1>2. /\ cycles' = cycles \cup {new}
      /\ tour' = NoTour /\ graph' = graph /\ components' = components /\ found' = found /\ selfLoops' = selfLoops
      /\ index' = index /\ work' = work
  BY <1>1 DEF CloseTour
<1>3. OnTour
  BY <1>1 DEF TourInv
<1>4. RealCycle(cycle, tour.members)
  BY <1>1, ClosedIsReal
<1>5. new.size = Cardinality(tour.members) /\ new.members = tour.members /\ new.cycle = cycle
  OBVIOUS
<1> HIDE DEF cycle, new
<1>6. CycleWell(new)
  BY <1>3, <1>4, <1>5 DEF CycleWell, OnTour
<1>7. \A k : CycleWell(k) => CycleWell(k)'
  BY <1>2, SameCycles DEF CycleWell
<1>8. CyclesWell'
  <2>1. IsFiniteSet(cycles')
    BY <1>2, FS_AddElement DEF ToursInv, CyclesWell
  <2>2. \A k \in cycles' : CycleWell(k)'
    BY <1>2, <1>6, <1>7 DEF ToursInv, CyclesWell
  <2>3. \A k \in cycles : k.members # new.members
    BY <1>3, <1>5 DEF OnTour, Searched
  <2>4. \A k, l \in cycles' : k.members = l.members => k = l
    BY <1>2, <2>3 DEF ToursInv, CyclesWell
  <2> QED BY <1>2, <2>1, <2>2, <2>4 DEF ToursInv, CyclesWell
<1>9. TourInv'
  BY <1>2 DEF TourInv, TourFields, NoTour
<1>10. FoundWell'
  <2>1. Walked' <=> Walked
    BY <1>2 DEF Walked, Opened
  <2>2. CyclesAreReal' <=> CyclesAreReal
    BY <1>2, SameCycles DEF CyclesAreReal
  <2>3. GravestAreFound' <=> GravestAreFound
    BY <1>2 DEF GravestAreFound
  <2> QED BY <1>2, <2>1, <2>2, <2>3 DEF FoundWell, ToursInv
<1> QED BY <1>8, <1>9, <1>10 DEF ToursInv

LEMMA GraverOrders ==
  ASSUME CyclesInv, ToursInv
  PROVE  /\ IsFiniteSet(cycles \cup Loops) /\ StrictOrder(cycles \cup Loops, Pairs(cycles \cup Loops, Graver))
         /\ \A l \in Loops : l.size = 1
         /\ \A k \in cycles : k.size \in Nat /\ k.size >= 2
<1> DEFINE S == cycles \cup Loops
           R == Pairs(S, Graver)
<1>1. /\ IsFiniteSet(cycles) /\ selfLoops \subseteq Paths /\ \A k \in cycles : CycleWell(k)
      /\ \A k, l \in cycles : k.members = l.members => k = l
  BY DEF ToursInv, CyclesWell
<1>2. Paths \subseteq Int /\ IsFiniteSet(Paths)
  BY ImportCyclesAssumption
<1>3. IsFiniteSet(Loops)
  <2> DEFINE f == [p \in selfLoops |-> [size |-> 1, members |-> {p}, cycle |-> <<p, p>>]]
  <2>1. IsFiniteSet(selfLoops)
    BY <1>1, <1>2, FS_Subset
  <2>2. Loops = {f[p] : p \in selfLoops}
    BY DEF Loops
  <2> HIDE DEF f
  <2> QED BY <2>1, <2>2, ImageIsFinite
<1>4. IsFiniteSet(S)
  BY <1>1, <1>3, FS_Union
<1>5. \A k \in cycles : k.size \in Nat /\ k.size >= 2 /\ Min(k.members) \in k.members /\ Min(k.members) \in Int
  <2>1. ASSUME NEW k \in cycles
        PROVE  k.size \in Nat /\ k.size >= 2 /\ Min(k.members) \in k.members /\ Min(k.members) \in Int
    <3>1. k.members \in components /\ Cardinality(k.members) >= 2 /\ k.size = Cardinality(k.members)
      BY <1>1 DEF CycleWell
    <3>2. k.members \in SUBSET Int /\ IsFiniteSet(k.members) /\ Min(k.members) \in k.members
      BY <3>1, ComponentFacts
    <3> QED BY <3>1, <3>2, FS_CardinalityType
  <2> QED BY <2>1
<1>6. \A l \in Loops : l.size = 1 /\ \E p \in selfLoops : l = [size |-> 1, members |-> {p}, cycle |-> <<p, p>>]
                                                          /\ l.members = {p} /\ Min(l.members) = p
  <2>1. ASSUME NEW p \in selfLoops PROVE Min({p}) = p
    BY <1>1, <1>2, MinIs
  <2> QED BY <2>1 DEF Loops
<1>7. \A x \in S : x.size \in Int /\ Min(x.members) \in Int
  <2>1. \A x \in cycles : x.size \in Int /\ Min(x.members) \in Int
    BY <1>5
  <2>2. ASSUME NEW x \in Loops PROVE x.size \in Int /\ Min(x.members) \in Int
    <3> DEFINE least == Min(x.members)
    <3>1. x.size = 1 /\ least \in selfLoops
      BY <1>6
    <3> HIDE DEF least
    <3>2. least \in Int
      BY <3>1, <1>1, <1>2
    <3> QED BY <3>1, <3>2 DEF least
  <2> QED BY <2>1, <2>2
<1>8. \A x, y \in S : <<x, y>> \in R <=> Graver(x, y)
  BY DEF Pairs
<1>9. ASSUME NEW x \in S, NEW y \in S, x # y, x.size = y.size PROVE Min(x.members) # Min(y.members)
  <2>1. CASE x \in cycles /\ y \in cycles
    <3>1. SUFFICES ASSUME Min(x.members) = Min(y.members) PROVE FALSE
      OBVIOUS
    <3>2. x.members \in components /\ y.members \in components
      BY <2>1, <1>1 DEF CycleWell
    <3>3. Exact(x.members) /\ Exact(y.members)
      BY <3>2 DEF CyclesInv, ComponentsClosed
    <3>4. Min(x.members) \in x.members /\ Min(x.members) \in y.members
      BY <2>1, <3>1, <1>5
    <3>5. x.members = y.members
      BY <3>3, <3>4 DEF Exact
    <3> QED BY <2>1, <3>5, <1>1, <1>9
  <2>2. CASE x \in Loops /\ y \in Loops
    BY <2>2, <1>6, <1>9
  <2>3. CASE (x \in cycles /\ y \in Loops) \/ (x \in Loops /\ y \in cycles)
    BY <2>3, <1>5, <1>6, <1>9
  <2> QED BY <2>1, <2>2, <2>3
<1> HIDE DEF S
<1>10. StrictOrder(S, R)
  <2> HIDE DEF R
  <2>1. \A x \in S : <<x, x>> \notin R
    BY <1>7, <1>8 DEF Graver
  <2>2. \A x, y, z \in S : <<x, y>> \in R /\ <<y, z>> \in R => <<x, z>> \in R
    <3>1. ASSUME NEW x \in S, NEW y \in S, NEW z \in S, Graver(x, y), Graver(y, z) PROVE Graver(x, z)
      BY <1>7, <3>1 DEF Graver
    <3> QED BY <3>1, <1>8
  <2>3. ASSUME NEW x \in S, NEW y \in S PROVE x = y \/ <<x, y>> \in R \/ <<y, x>> \in R
    BY <1>7, <1>8, <1>9 DEF Graver
  <2> QED BY <2>1, <2>2, <2>3 DEF StrictOrder
<1> QED BY <1>4, <1>5, <1>6, <1>10 DEF S

LEMMA ReportKeeps == CyclesInv /\ ToursInv /\ Report => ToursInv'
<1> SUFFICES ASSUME CyclesInv, ToursInv, Report PROVE ToursInv'
  OBVIOUS
<1> DEFINE S == cycles \cup Loops
           R == Pairs(S, Graver)
           ranked == Ranked(S, R)
           m == Min({Limit, Len(ranked)})
<1>1. /\ Walked /\ Unsearched = {} /\ tour = NoTour
      /\ found' = SubSeq(ranked, 1, m)
      /\ graph' = graph /\ components' = components /\ cycles' = cycles /\ tour' = tour /\ selfLoops' = selfLoops
      /\ index' = index /\ work' = work
  BY DEF Report, Sorted
<1>2. /\ IsFiniteSet(S) /\ StrictOrder(S, R)
      /\ \A l \in Loops : l.size = 1
      /\ \A k \in cycles : k.size \in Nat /\ k.size >= 2
  BY GraverOrders
<1>3. \A x, y : <<x, y>> \in R => Graver(x, y)
  BY DEF Pairs
<1> HIDE DEF R
<1> HIDE DEF S
<1>4. /\ ranked \in Seq(S) /\ {ranked[i] : i \in DOMAIN ranked} = S
      /\ \A i, j \in DOMAIN ranked : i < j => <<ranked[i], ranked[j]>> \in R
  BY ONLY <1>2, RankedIsSequence
<1> HIDE DEF ranked
<1>5. Len(ranked) \in Nat /\ Limit \in Nat /\ DOMAIN ranked = 1..Len(ranked)
  BY <1>4, ImportCyclesAssumption
<1>6. m \in Nat /\ m <= Len(ranked) /\ (m < Len(ranked) => m = Limit)
  <2>1. \A a, b \in Int : Min({a, b}) = IF a <= b THEN a ELSE b
    BY MaxMinOfTwo
  <2>2. m = IF Limit <= Len(ranked) THEN Limit ELSE Len(ranked)
    BY <1>5, <2>1
  <2> DEFINE size == Len(ranked)
  <2>3. m = (IF Limit <= size THEN Limit ELSE size) /\ size \in Nat /\ Limit \in Nat
    BY <2>2, <1>5
  <2> HIDE DEF m, size
  <2>4. m \in Nat /\ m <= size /\ (m < size => m = Limit)
    BY <2>3
  <2> QED BY <2>4 DEF size
<1> HIDE DEF m, S
<1>7. Len(found') = m /\ DOMAIN found' = 1..m /\ \A i \in 1..m : found'[i] = ranked[i] /\ i \in DOMAIN ranked
  <2>1. ranked \in Seq(S)
    BY <1>4
  <2> QED BY <2>1, <1>1, <1>5, <1>6
<1>8. \A i \in 1..m : found'[i] \in cycles \/ found'[i].size = 1
  <2>1. \A i \in 1..m : ranked[i] \in S
    BY <1>4, <1>7
  <2> QED BY <2>1, <1>2, <1>7 DEF S
<1>9. CyclesAreReal'
  <2>1. ASSUME NEW i \in DOMAIN found', found'[i].size > 1 PROVE (RealCycle(found[i].cycle, found[i].members))'
    <3>1. found'[i] \in cycles
      BY <2>1, <1>7, <1>8
    <3>2. RealCycle(found'[i].cycle, found'[i].members)
      BY <3>1 DEF ToursInv, CyclesWell, CycleWell
    <3> QED BY <3>2, <1>1, SameCycles
  <2> QED BY <2>1 DEF CyclesAreReal
<1>10. GravestAreFound'
  <2>1. ASSUME NEW c \in components, Cardinality(c) >= 2
        PROVE  \/ \E i \in DOMAIN found' : found'[i].members = c
               \/ Len(found') = Limit /\ \A i \in DOMAIN found' : found'[i].size >= Cardinality(c)
    <3>1. PICK k \in cycles : k.members = c
      BY <2>1, <1>1 DEF Unsearched, Searched
    <3>2. k.size = Cardinality(c)
      BY <3>1 DEF ToursInv, CyclesWell, CycleWell
    <3>3. PICK p \in DOMAIN ranked : ranked[p] = k
      BY <3>1, <1>4 DEF S
    <3>4. CASE p <= m
      <4>1. p \in 1..m
        BY <3>4, <1>5, <1>6
      <4> QED BY <4>1, <3>1, <3>3, <1>7
    <3>5. CASE ~(p <= m)
      <4>1. Len(found') = Limit
        BY <3>5, <1>5, <1>6, <1>7
      <4>2. ASSUME NEW i \in 1..m PROVE found'[i].size >= Cardinality(c)
        <5>1. i \in DOMAIN ranked /\ i < p /\ found'[i] = ranked[i]
          BY <3>5, <1>5, <1>6, <1>7
        <5>2. Graver(found'[i], k)
          BY <5>1, <3>3, <1>3, <1>4
        <5>3. found'[i].size \in Int /\ k.size \in Int
          BY <3>1, <1>2, <1>8
        <5> QED BY <5>2, <5>3, <3>2 DEF Graver
      <4> QED BY <4>1, <4>2, <1>7
    <3> QED BY <3>4, <3>5
  <2> QED BY <2>1, <1>1 DEF GravestAreFound
<1>11. Walked'
  BY <1>1 DEF Walked, Opened
<1>12. CyclesWell'
  <2>1. \A k : CycleWell(k) => CycleWell(k)'
    BY <1>1, SameCycles DEF CycleWell
  <2> QED BY <1>1, <2>1 DEF CyclesWell, ToursInv
<1>13. TourInv'
  BY <1>1 DEF TourInv, TourFields, NoTour
<1> QED BY <1>9, <1>10, <1>11, <1>12, <1>13 DEF ToursInv, FoundWell

LEMMA SortedNumbers ==
  ASSUME NEW S \in SUBSET Int, IsFiniteSet(S)
  PROVE  /\ Sorted(S, <) \in Seq(S) /\ {Sorted(S, <)[i] : i \in DOMAIN Sorted(S, <)} = S
<1> DEFINE R == Pairs(S, <)
           s == Sorted(S, <)
<1>1. StrictOrder(S, R)
  BY DEF StrictOrder, Pairs
<1>2. s = Ranked(S, R)
  BY DEF Sorted
<1> HIDE DEF R, s
<1>3. s \in Seq(S) /\ {s[i] : i \in DOMAIN s} = S
  BY <1>1, <1>2, RankedIsSequence
<1> QED BY <1>3, Zenon DEF s

LEMMA Concatenated ==
  ASSUME NEW T, NEW s \in Seq(T), NEW t \in Seq(T)
  PROVE  /\ s \o t \in Seq(T) /\ Len(s \o t) = Len(s) + Len(t)
         /\ \A i \in 1..Len(s) : (s \o t)[i] = s[i]
         /\ \A i \in 1..Len(t) : (s \o t)[Len(s) + i] = t[i]
OBVIOUS

LEMMA LookAroundKeeps == CyclesInv /\ ToursInv /\ LookAround => ToursInv'
<1> SUFFICES ASSUME CyclesInv, ToursInv, LookAround PROVE ToursInv'
  OBVIOUS
<1> DEFINE q == tour.queue
           L == Len(q)
           h == Len(InHand)
           F == (graph[Last(InHand)] \cap tour.members) \ Reached
           fresh == Sorted(F, <)
           m == Len(fresh)
           added == [n \in DOMAIN fresh |-> Append(InHand, fresh[n])]
<1>1. /\ TourInv /\ tour # NoTour /\ ~Exhausted /\ TourStart \notin graph[Last(InHand)]
      /\ OnTour /\ QueueWell /\ tour \in TourFields
      /\ graph' = graph /\ components' = components /\ cycles' = cycles /\ found' = found /\ selfLoops' = selfLoops
      /\ index' = index /\ work' = work
  BY DEF LookAround, Closes, ToursInv, TourInv
<1>2. tour' = [members |-> tour.members, queue |-> q \o added, next |-> tour.next + 1]
  <2>1. tour' = [tour EXCEPT !.queue = q \o added, !.next = tour.next + 1]
    BY DEF LookAround
  <2>2. DOMAIN tour = {"members", "queue", "next"}
    BY <1>1 DEF TourFields
  <2> HIDE DEF added
  <2> QED BY <2>1, <2>2
<1>3. /\ tour.members \subseteq Paths /\ TourStart \in tour.members /\ graph \in [Paths -> SUBSET Paths]
      /\ L \in Nat \ {0} /\ DOMAIN q = 1..L
      /\ tour.next \in Nat /\ tour.next >= 1 /\ tour.next <= L + 1
      /\ \A i \in DOMAIN q :
              /\ Len(q[i]) \in Nat \ {0} /\ DOMAIN q[i] = 1..Len(q[i])
              /\ Last(q[i]) = q[i][Len(q[i])]
              /\ Last(q[i]) \in tour.members /\ Last(q[i]) \in Paths
  BY <1>1, TourFacts
<1>4. tour.next \in 1..L /\ InHand = q[tour.next]
  BY <1>1, <1>3 DEF Exhausted, InHand
<1>5. /\ WalkWell(InHand) /\ h \in Nat \ {0} /\ DOMAIN InHand = 1..h /\ Last(InHand) = InHand[h]
      /\ Last(InHand) \in tour.members /\ Last(InHand) \in Paths
  <2>1. tour.next \in DOMAIN q
    BY <1>3, <1>4
  <2>2. WalkWell(InHand)
    BY <1>1, <1>4, <2>1 DEF QueueWell
  <2> QED BY <1>3, <1>4, <2>1, <2>2
<1>6. /\ InHand \in Seq(Paths) /\ InHand[1] = TourStart
      /\ \A j \in 1..h : InHand[j] \in tour.members /\ InHand[j] \in Reached
      /\ \A j, l \in 1..h : InHand[j] = InHand[l] => j = l
      /\ \A j \in 1..h - 1 : InHand[j + 1] \in graph[InHand[j]]
  BY <1>5 DEF WalkWell
<1>7. /\ fresh \in Seq(F) /\ {fresh[n] : n \in DOMAIN fresh} = F /\ F \subseteq Paths
      /\ m \in Nat /\ DOMAIN fresh = 1..m
  <2>1. Paths \subseteq Int /\ IsFiniteSet(Paths)
    BY ImportCyclesAssumption
  <2>2. F \subseteq Paths
    BY <1>3
  <2>3. F \in SUBSET Int /\ IsFiniteSet(F)
    BY <2>1, <2>2, FS_Subset
  <2> HIDE DEF F
  <2>4. fresh \in Seq(F) /\ {fresh[n] : n \in DOMAIN fresh} = F
    BY <2>3, SortedNumbers
  <2> HIDE DEF fresh
  <2> QED BY <2>2, <2>4
<1>8. \A x \in F : x \in graph[Last(InHand)] /\ x \in tour.members /\ x \notin Reached
  OBVIOUS
<1>9. \A s \in graph[Last(InHand)] \cap tour.members : s \in Reached \/ s \in F
  OBVIOUS
<1> HIDE DEF fresh, F, m, L, h
<1>10. \A n \in 1..m : fresh[n] \in F
  BY <1>7
<1>11. \A x \in F : /\ Append(InHand, x) \in Seq(Paths) /\ Len(Append(InHand, x)) = h + 1
                    /\ DOMAIN Append(InHand, x) = 1..h + 1
                    /\ Append(InHand, x)[h + 1] = x /\ Last(Append(InHand, x)) = x
                    /\ \A j \in 1..h : Append(InHand, x)[j] = InHand[j]
  <2>1. ASSUME NEW x \in F
        PROVE  /\ Append(InHand, x) \in Seq(Paths) /\ Len(Append(InHand, x)) = h + 1
               /\ Append(InHand, x)[h + 1] = x
               /\ \A j \in 1..h : Append(InHand, x)[j] = InHand[j]
    BY <1>5, <1>6, <1>7 DEF h
  <2>2. ASSUME NEW x \in F PROVE DOMAIN Append(InHand, x) = 1..h + 1 /\ Last(Append(InHand, x)) = x
    BY <2>1 DEF Last
  <2> QED BY <2>1, <2>2
<1>12. added \in Seq(Seq(Paths)) /\ Len(added) = m /\ \A n \in 1..m : added[n] = Append(InHand, fresh[n])
  <2>1. added \in [1..m -> Seq(Paths)]
    BY <1>7, <1>10, <1>11
  <2>2. added \in Seq(Seq(Paths))
    BY <2>1, <1>7, IsASequence
  <2> HIDE DEF added
  <2>3. Len(added) = m
    BY <2>1, <2>2, <1>7
  <2> QED BY <2>2, <2>3, <1>7 DEF added
<1> HIDE DEF added
<1>13. /\ tour'.queue \in Seq(Seq(Paths)) /\ Len(tour'.queue) = L + m /\ DOMAIN tour'.queue = 1..L + m
       /\ \A i \in 1..L : tour'.queue[i] = q[i]
       /\ \A n \in 1..m : tour'.queue[L + n] = Append(InHand, fresh[n])
  <2>1. q \in Seq(Seq(Paths)) /\ tour'.queue = q \o added
    BY <1>1, <1>2 DEF TourFields
  <2>2. L = Len(q)
    BY DEF L
  <2> DEFINE Walks == Seq(Paths)
             joined == q \o added
  <2> HIDE DEF q, Walks
  <2>6. q \in Seq(Walks) /\ added \in Seq(Walks)
    BY <2>1, <1>12 DEF Walks
  <2>3. /\ joined \in Seq(Walks) /\ Len(joined) = Len(q) + Len(added)
        /\ \A i \in 1..Len(q) : joined[i] = q[i]
        /\ \A i \in 1..Len(added) : joined[Len(q) + i] = added[i]
    BY ONLY <2>6, Concatenated
  <2> HIDE DEF joined
  <2>7. tour'.queue = joined
    BY <2>1 DEF joined
  <2>4. /\ tour'.queue \in Seq(Seq(Paths)) /\ Len(tour'.queue) = L + m
        /\ \A i \in 1..L : tour'.queue[i] = q[i]
        /\ \A n \in 1..m : tour'.queue[L + n] = added[n]
    BY <2>2, <2>3, <2>7, <1>12 DEF Walks
  <2>5. DOMAIN tour'.queue = 1..L + m
    BY <2>4
  <2> QED BY <2>4, <2>5, <1>12
<1> DEFINE r == tour'.queue
<1>14. tour'.members = tour.members /\ tour'.next = tour.next + 1 /\ TourStart' = TourStart
  BY <1>2 DEF TourStart
<1>15. tour' \in TourFields
  BY <1>1, <1>2, <1>13 DEF TourFields
<1> HIDE DEF q, r
<1>16. \A i \in 1..L + m : i \in 1..L \/ \E n \in 1..m : i = L + n
  <2>1. ASSUME NEW i \in 1..L + m, i \notin 1..L PROVE \E n \in 1..m : i = L + n
    <3>1. i - L \in 1..m /\ i = L + (i - L)
      BY <2>1, <1>3, <1>7
    <3> QED BY <3>1
  <2> QED BY <2>1
<1>17. /\ DOMAIN r = 1..L + m /\ Len(r) = L + m
       /\ (\A i \in 1..L : r[i] = q[i] /\ i \in 1..L + m)
       /\ \A n \in 1..m : L + n \in 1..L + m /\ r[L + n] = Append(InHand, fresh[n]) /\ ~(L + n <= L)
  <2>1. \A i \in 1..L : i \in 1..L + m
    BY <1>3, <1>7
  <2>2. \A n \in 1..m : L + n \in 1..L + m /\ ~(L + n <= L)
    BY <1>3, <1>7
  <2> QED BY <2>1, <2>2, <1>13 DEF r
<1>18. Reached' = Reached \cup F
  <2>1. Reached' = {Last(r[i]) : i \in DOMAIN r} /\ Reached = {Last(q[i]) : i \in DOMAIN q}
    BY DEF Reached, r, q
  <2>2. \A n \in 1..m : Last(r[L + n]) = fresh[n]
    BY <1>10, <1>11, <1>17
  <2>3. F = {fresh[n] : n \in 1..m}
    BY <1>7
  <2>4. ASSUME NEW i \in DOMAIN r PROVE Last(r[i]) \in Reached \cup F
    <3>1. CASE i \in 1..L
      BY <3>1, <2>1, <1>3, <1>17
    <3>2. CASE i \notin 1..L
      <4>1. PICK n \in 1..m : i = L + n
        BY <3>2, <1>16, <1>17
      <4> QED BY <4>1, <2>2, <1>10
    <3> QED BY <3>1, <3>2
  <2>5. Reached \subseteq Reached'
    BY <2>1, <1>3, <1>17
  <2>6. F \subseteq Reached'
    BY <2>1, <2>2, <2>3, <1>17
  <2> QED BY <2>1, <2>4, <2>5, <2>6
<1>19. ASSUME NEW i \in 1..L + m PROVE (WalkWell(tour.queue[i]))'
  <2>1. CASE i \in 1..L
    <3>1. r[i] = q[i] /\ i \in DOMAIN q
      BY <2>1, <1>3, <1>17
    <3>2. WalkWell(q[i])
      BY <3>1, <1>1 DEF QueueWell, q
    <3> QED BY <3>1, <3>2, <1>1, <1>14, <1>18 DEF WalkWell, r
  <2>2. CASE i \notin 1..L
    <3>1. PICK n \in 1..m : i = L + n
      BY <2>2, <1>16
    <3> DEFINE x == fresh[n]
               w == Append(InHand, x)
    <3>2. r[i] = w /\ x \in F
      BY <3>1, <1>10, <1>17
    <3>3. /\ w \in Seq(Paths) /\ Len(w) = h + 1 /\ DOMAIN w = 1..h + 1 /\ w[h + 1] = x
          /\ \A j \in 1..h : w[j] = InHand[j]
      BY <3>2, <1>11
    <3> HIDE DEF w, x
    <3>4. \A j \in 1..h + 1 : j \in 1..h \/ j = h + 1
      BY <1>5
    <3>5. Len(w) >= 1 /\ w[1] = TourStart
      BY <3>3, <1>5, <1>6
    <3>6. \A j \in 1..h + 1 : w[j] \in tour.members /\ w[j] \in Reached \cup F
      BY <3>2, <3>3, <3>4, <1>6, <1>8
    <3>7. \A j, l \in 1..h + 1 : w[j] = w[l] => j = l
      BY <3>2, <3>3, <3>4, <1>6, <1>8
    <3>8. ASSUME NEW j \in 1..h PROVE w[j + 1] \in graph[w[j]]
      <4>1. CASE j = h
        BY <4>1, <3>2, <3>3, <1>5, <1>8
      <4>2. CASE j # h
        <5>1. j \in 1..h - 1 /\ j + 1 \in 1..h
          BY <4>2, <1>5
        <5> QED BY <5>1, <3>3, <1>6
      <4> QED BY <4>1, <4>2
    <3>9. Len(w) - 1 = h
      BY <3>3, <1>5
    <3>10. (WalkWell(tour.queue[i]))' <=>
             /\ r[i] \in Seq(Paths) /\ Len(r[i]) >= 1 /\ r[i][1] = TourStart'
             /\ \A j \in DOMAIN r[i] : r[i][j] \in tour'.members /\ r[i][j] \in Reached'
             /\ \A j, l \in DOMAIN r[i] : r[i][j] = r[i][l] => j = l
             /\ \A j \in 1..Len(r[i]) - 1 : r[i][j + 1] \in graph'[r[i][j]]
      BY DEF WalkWell, r
    <3> QED BY <3>2, <3>3, <3>5, <3>6, <3>7, <3>8, <3>9, <3>10, <1>1, <1>14, <1>18
  <2> QED BY <2>1, <2>2
<1>20. /\ \A i, j \in DOMAIN q : i < j => Len(q[i]) <= Len(q[j])
       /\ \A j \in DOMAIN q : Len(q[j]) <= h + 1
       /\ \A i \in DOMAIN q : i < tour.next => LookedAround(i)
  BY <1>1, <1>3, <1>4 DEF QueueWell, q, h
<1>21. \A n \in 1..m : Len(r[L + n]) = h + 1
  BY <1>10, <1>11, <1>17
<1>22. \A i, j \in DOMAIN r : i < j => Len(r[i]) <= Len(r[j])
  <2>1. ASSUME NEW i \in 1..L + m, NEW j \in 1..L + m, i < j PROVE Len(r[i]) <= Len(r[j])
    <3>1. CASE j \in 1..L
      <4>1. i \in 1..L
        BY <2>1, <3>1, <1>3
      <4>2. Len(q[i]) <= Len(q[j])
        BY <2>1, <3>1, <4>1, <1>3, <1>20
      <4> QED BY <3>1, <4>1, <4>2, <1>17
    <3>2. CASE j \notin 1..L
      <4>1. Len(r[j]) = h + 1
        BY <3>2, <1>16, <1>21
      <4>2. CASE i \in 1..L
        <5>1. Len(q[i]) <= h + 1 /\ r[i] = q[i]
          BY <4>2, <1>3, <1>17, <1>20
        <5> QED BY <4>1, <5>1
      <4>3. CASE i \notin 1..L
        <5>1. Len(r[i]) = h + 1
          BY <4>3, <1>16, <1>21
        <5> QED BY <4>1, <5>1, <1>5
      <4> QED BY <4>2, <4>3
    <3> QED BY <3>1, <3>2
  <2> QED BY <2>1, <1>17
<1>23. ASSUME NEW j \in DOMAIN r PROVE Len(r[j]) <= h + 1
  <2>1. CASE j \in 1..L
    <3>1. Len(q[j]) <= h + 1 /\ r[j] = q[j]
      BY <2>1, <1>3, <1>17, <1>20
    <3> QED BY <3>1
  <2>2. CASE j \notin 1..L
    <3>1. Len(r[j]) = h + 1
      BY <2>2, <1>16, <1>17, <1>21
    <3> QED BY <3>1, <1>5
  <2> QED BY <2>1, <2>2
<1>24. ASSUME tour'.next \in DOMAIN r, NEW j \in DOMAIN r PROVE Len(r[j]) <= Len(InHand') + 1
  <2>1. InHand' = r[tour.next + 1] /\ tour.next + 1 \in 1..L + m
    BY <1>14, <1>17, <1>24 DEF InHand, r
  <2>2. Len(InHand') \in Nat /\ Len(InHand') >= h
    <3>1. CASE tour.next + 1 \in 1..L
      <4>1. InHand' = q[tour.next + 1] /\ tour.next + 1 \in DOMAIN q /\ tour.next \in DOMAIN q /\ tour.next < tour.next + 1
        BY <2>1, <3>1, <1>3, <1>4, <1>17
      <4>2. Len(q[tour.next]) <= Len(q[tour.next + 1])
        BY <4>1, <1>20
      <4>3. h = Len(q[tour.next]) /\ Len(q[tour.next + 1]) \in Nat
        BY <4>1, <1>3, <1>4 DEF h
      <4> QED BY <4>1, <4>2, <4>3, <1>5
    <3>2. CASE tour.next + 1 \notin 1..L
      <4>1. Len(InHand') = h + 1
        BY <2>1, <3>2, <1>16, <1>21
      <4> QED BY <4>1, <1>5
    <3> QED BY <3>1, <3>2
  <2>3. Len(r[j]) <= h + 1
    BY <1>23, <1>24
  <2>4. Len(r[j]) \in Nat
    <3>1. CASE j \in 1..L
      BY <3>1, <1>3, <1>17
    <3>2. CASE j \notin 1..L
      BY <3>2, <1>5, <1>16, <1>17, <1>21
    <3> QED BY <3>1, <3>2
  <2> QED BY <2>2, <2>3, <2>4, <1>5
<1>25. ASSUME NEW i \in DOMAIN r, i < tour'.next PROVE LookedAround(i)'
  <2>1. i \in 1..L /\ i \in DOMAIN q /\ r[i] = q[i] /\ (i < tour.next \/ i = tour.next)
    BY <1>3, <1>4, <1>14, <1>17, <1>25
  <2>2. SUFFICES /\ TourStart \notin graph[Last(q[i])]
                 /\ \A s \in graph[Last(q[i])] \cap tour.members :
                      \E j \in DOMAIN r : Last(r[j]) = s /\ Len(r[j]) <= Len(q[i]) + 1
    BY <2>1, <1>1, <1>14 DEF LookedAround, r
  <2>3. CASE i < tour.next
    <3>1. LookedAround(i)
      BY <2>1, <2>3, <1>20
    <3>2. TourStart \notin graph[Last(q[i])]
      BY <3>1 DEF LookedAround, q
    <3>3. ASSUME NEW s \in graph[Last(q[i])] \cap tour.members
          PROVE  \E j \in DOMAIN r : Last(r[j]) = s /\ Len(r[j]) <= Len(q[i]) + 1
      <4>1. PICK j \in DOMAIN q : Last(q[j]) = s /\ Len(q[j]) <= Len(q[i]) + 1
        BY <3>1 DEF LookedAround, q
      <4>2. j \in DOMAIN r /\ r[j] = q[j]
        BY <4>1, <1>3, <1>17
      <4> QED BY <4>1, <4>2
    <3> QED BY <3>2, <3>3
  <2>4. CASE i = tour.next
    <3>1. q[i] = InHand /\ TourStart \notin graph[Last(q[i])]
      BY <2>4, <1>1, <1>4 DEF q
    <3>2. ASSUME NEW s \in graph[Last(q[i])] \cap tour.members
          PROVE  \E j \in DOMAIN r : Last(r[j]) = s /\ Len(r[j]) <= Len(q[i]) + 1
      <4>1. CASE s \in Reached
        <5>1. PICK j \in DOMAIN q : Last(q[j]) = s
          BY <4>1 DEF Reached, q
        <5>2. Len(q[j]) <= h + 1 /\ j \in DOMAIN r /\ r[j] = q[j]
          BY <5>1, <1>3, <1>17, <1>20
        <5> QED BY <5>1, <5>2, <3>1 DEF h
      <4>2. CASE s \notin Reached
        <5>1. s \in F
          BY <4>2, <3>1, <3>2, <1>9
        <5>2. PICK n \in 1..m : fresh[n] = s
          BY <5>1, <1>7
        <5>3. L + n \in DOMAIN r /\ Last(r[L + n]) = s /\ Len(r[L + n]) = h + 1
          <6>1. L + n \in DOMAIN r /\ r[L + n] = Append(InHand, s)
            BY <5>2, <1>17
          <6>2. Last(Append(InHand, s)) = s
            BY <5>1, <1>11
          <6> QED BY <6>1, <6>2, <1>21
        <5>4. Len(r[L + n]) <= Len(q[i]) + 1
          <6>1. Len(q[i]) = h
            BY <3>1 DEF h
          <6> QED BY <6>1, <5>3, <1>5
        <5> QED BY <5>3, <5>4
      <4> QED BY <4>1, <4>2
    <3> QED BY <3>1, <3>2
  <2> QED BY <2>1, <2>3, <2>4
<1>26. QueueWell'
  <2>1. r # <<>> /\ r[1] = <<TourStart>>
    <3>1. r[1] = q[1] /\ 1 \in DOMAIN r
      BY <1>3, <1>17
    <3> QED BY <3>1, <1>1 DEF QueueWell, q
  <2>2. tour'.next \in 1..Len(r) + 1
    BY <1>3, <1>4, <1>7, <1>14, <1>17
  <2>3. \A i \in DOMAIN r : (WalkWell(tour.queue[i]))'
    BY <1>17, <1>19
  <2>4. r = tour'.queue
    BY DEF r
  <2> QED BY <2>1, <2>2, <2>3, <2>4, <1>14, <1>22, <1>24, <1>25 DEF QueueWell
<1>27. OnTour'
  BY <1>1, <1>14 DEF OnTour, Searched
<1>28. CyclesWell'
  <2>1. \A k : CycleWell(k) => CycleWell(k)'
    BY <1>1, SameCycles DEF CycleWell
  <2> QED BY <1>1, <2>1 DEF CyclesWell, ToursInv
<1>29. FoundWell'
  <2>1. Walked' <=> Walked
    BY <1>1 DEF Walked, Opened
  <2>2. CyclesAreReal' <=> CyclesAreReal
    BY <1>1, SameCycles DEF CyclesAreReal
  <2>3. GravestAreFound' <=> GravestAreFound
    BY <1>1 DEF GravestAreFound
  <2> QED BY <1>1, <2>1, <2>2, <2>3 DEF FoundWell, ToursInv
<1> QED BY <1>15, <1>26, <1>27, <1>28, <1>29 DEF ToursInv, TourInv

\* The findings are the cycles of the import graph: a component of two files or more has
\* a walk back to its first member, the queue finds a shortest one, and what the limit
\* leaves out is no larger than what it keeps (import_cycles.py).
THEOREM CyclesExact == CyclesSpec => []CyclesAreExact
<1>1. CyclesInit => ToursInv
  <2> SUFFICES ASSUME CyclesInit PROVE ToursInv
    OBVIOUS
  <2>1. tour = NoTour /\ cycles = {} /\ found = Unreported /\ selfLoops = {}
    BY DEF CyclesInit
  <2>2. TourInv
    BY <2>1 DEF TourInv, TourFields, NoTour
  <2>3. CyclesWell
    BY <2>1, FS_EmptySet DEF CyclesWell
  <2> QED BY <2>1, <2>2, <2>3 DEF ToursInv, FoundWell
<1>2. CyclesInv /\ ToursInv /\ [CyclesNext]_tarjanVars => ToursInv'
  <2> SUFFICES ASSUME CyclesInv, ToursInv, [CyclesNext]_tarjanVars PROVE ToursInv'
    OBVIOUS
  <2>1. ASSUME BuildGraph \/ Root \/ Seen \/ Descend \/ Finalize PROVE ToursInv'
    <3>1. UNCHANGED <<tour, cycles, found>> /\ components \subseteq components' /\ (graph' = graph \/ graph = <<>>)
          /\ selfLoops' \subseteq Paths
      BY <2>1 DEF BuildGraph, Root, Seen, Descend, Finalize, ToursInv, CyclesWell
    <3>2. ~Walked
      BY <2>1 DEF BuildGraph, Root, Seen, Descend, Finalize, Walked, Looking
    <3>3. found = Unreported
      BY <3>2 DEF ToursInv, FoundWell
    <3> QED BY <3>1, <3>3, ToursKept
  <2>2. CASE StartTour
    BY <2>2, StartTourKeeps
  <2>3. CASE LookAround
    BY <2>3, LookAroundKeeps
  <2>4. CASE CloseTour
    BY <2>4, CloseTourKeeps
  <2>5. CASE Report
    BY <2>5, ReportKeeps
  <2>6. CASE UNCHANGED tarjanVars
    <3>1. UNCHANGED <<tour, cycles, found>> /\ components' = components /\ graph' = graph /\ selfLoops' = selfLoops
      BY <2>6 DEF tarjanVars
    <3> QED BY <2>6, <3>1, ToursKept DEF ToursInv, CyclesWell
  <2> QED BY <2>1, <2>2, <2>3, <2>4, <2>5, <2>6 DEF CyclesNext
<1>3. CyclesInv /\ ToursInv => CyclesAreReal /\ GravestAreFound
  BY DEF ToursInv, FoundWell, CyclesAreReal, GravestAreFound
<1>4. CyclesSpec => []ToursInv
  BY <1>1, <1>2, CyclesInvHolds, PTL DEF CyclesSpec
<1> QED BY <1>3, <1>4, CyclesInvHolds, ComponentsExact, PTL DEF CyclesAreExact

-----------------------------------------------------------------------------
(* hook-augment: any ranking of files, any limit and budget, any alarm.        *)

MatchLine == [line : Nat, symbol : Nat, health : BOOLEAN]

\* What a file of the ranking contributes, and what the first of them do together.
MatchesOf(files, cut) ==
  [k \in DOMAIN files |->
     IF files[k].known THEN CollapsedHits(files[k], files[k].parses /\ k # cut) ELSE <<>>]
MatchesIn == MatchesOf(ranking, hook.cut)

LEMMA CollapsedTyped ==
  ASSUME NEW file \in MatchFile, NEW spans \in BOOLEAN
  PROVE  CollapsedHits(file, spans) \in Seq(MatchLine)
<1> DEFINE symbol(hit) == IF spans THEN hit.symbol ELSE 0
           inSymbol == \E hit \in ToSet(file.hits) : symbol(hit) # 0
           keeps(i) ==
             LET hit == file.hits[i] IN
             IF symbol(hit) = 0 THEN ~(inSymbol /\ hit.importOnly)
             ELSE \A j \in 1..i - 1 : symbol(file.hits[j]) # symbol(hit)
           one(i) == [line |-> file.hits[i].line, symbol |-> symbol(file.hits[i]), health |-> file.changed]
           matches == [i \in DOMAIN file.hits |-> one(i)]
           places == {i \in DOMAIN file.hits : keeps(i)}
<1>1. file.hits \in Seq(MatchHit) /\ file.changed \in BOOLEAN
  BY DEF MatchFile
<1>2. ASSUME NEW i \in DOMAIN file.hits PROVE one(i) \in MatchLine
  <2>1. file.hits[i] \in MatchHit
    BY <1>1
  <2> QED BY <1>1, <2>1 DEF MatchHit, MatchLine
<1>3. Len(file.hits) \in Nat /\ DOMAIN file.hits = 1..Len(file.hits)
  BY <1>1
<1>4. matches \in Seq(MatchLine)
  <2> HIDE DEF one
  <2>1. matches \in [1..Len(file.hits) -> MatchLine]
    BY <1>2, <1>3
  <2> HIDE DEF matches
  <2> QED BY <1>3, <2>1, IsASequence
<1>5. places \in SUBSET DOMAIN matches
  OBVIOUS
<1>6. CollapsedHits(file, spans) = AtPlaces(matches, places)
  BY DEF CollapsedHits
<1> HIDE DEF matches, places
<1> QED BY <1>4, <1>5, <1>6, AtPlacesTyped

LEMMA LineCostTyped ==
  ASSUME NEW lines \in Seq(MatchLine)
  PROVE  LineCost(lines) \in Nat
<1> DEFINE tagged == {i \in DOMAIN lines : lines[i].health}
<1>1. Len(lines) \in Nat /\ tagged \in SUBSET (1..Len(lines)) /\ IsFiniteSet(1..Len(lines))
  BY FS_Interval
<1>2. LineCost(lines) = Len(lines) + Cardinality(tagged)
  BY DEF LineCost
<1> HIDE DEF tagged
<1>3. Cardinality(tagged) \in Nat
  BY <1>1, FS_Subset, FS_CardinalityType
<1> QED BY <1>1, <1>2, <1>3

\* What is left of the lines is as many of the first as fit.
LEMMA TrimmedFits ==
  ASSUME NEW lines \in Seq(MatchLine), Trimmed(lines) # <<>>
  PROVE  \E k \in 1..Len(lines) :
           /\ Trimmed(lines) = SubSeq(lines, 1, k)
           /\ LineCost(SubSeq(lines, 1, k)) <= HookBudget
           /\ \A j \in k + 1..Len(lines) : LineCost(SubSeq(lines, 1, j)) > HookBudget
<1> DEFINE fits == {k \in 1..Len(lines) : LineCost(SubSeq(lines, 1, k)) <= HookBudget}
<1>1. Trimmed(lines) = IF fits = {} THEN <<>> ELSE SubSeq(lines, 1, Max(fits))
  BY DEF Trimmed
<1>2. Len(lines) \in Nat /\ \A j \in 1..Len(lines) : SubSeq(lines, 1, j) \in Seq(MatchLine)
  OBVIOUS
<1>3. \A j \in 1..Len(lines) : LineCost(SubSeq(lines, 1, j)) \in Nat
  BY <1>2, LineCostTyped
<1>4. fits \in SUBSET Int /\ IsFiniteSet(fits) /\ fits # {}
  <2>1. fits \in SUBSET (1..Len(lines)) /\ IsFiniteSet(1..Len(lines))
    BY <1>2, FS_Interval
  <2>2. fits # {}
    BY <1>1
  <2> HIDE DEF fits
  <2>3. IsFiniteSet(fits)
    BY <2>1, FS_Subset
  <2>4. fits \in SUBSET Int
    BY ONLY <1>2, <2>1
  <2> QED BY <2>2, <2>3, <2>4
<1> DEFINE k == Max(fits)
<1>5. k \in fits /\ \A y \in fits : k >= y
  <2> HIDE DEF fits
  <2> QED BY <1>4, MaxOfFinite
<1>6. Trimmed(lines) = SubSeq(lines, 1, k)
  BY <1>1, <1>4
<1> HIDE DEF k
<1>7. k \in 1..Len(lines) /\ LineCost(SubSeq(lines, 1, k)) <= HookBudget
  BY <1>5
<1>8. ASSUME NEW j \in k + 1..Len(lines) PROVE LineCost(SubSeq(lines, 1, j)) > HookBudget
  <2>1. j \in 1..Len(lines) /\ ~(k >= j)
    BY <1>2, <1>7
  <2>2. j \notin fits
    BY <1>5, <2>1
  <2>3. ~(LineCost(SubSeq(lines, 1, j)) <= HookBudget)
    BY <2>1, <2>2
  <2> QED BY <1>3, <2>1, <2>3, HookAugmentAssumption
<1> QED BY <1>6, <1>7, <1>8

\* The hook holds the matches of the files it has passed; the alarm is past once it has
\* cut a parse, and the file it cut is one of them.
AugmentInv ==
  /\ ranking \in Rankings
  /\ hook = [at |-> hook.at, next |-> hook.next, cut |-> hook.cut, matches |-> hook.matches]
  /\ hook.cut \in Nat /\ (hook.cut # 0 => alarm = "fired")
  /\ hook.at \in {"start", "scan"} => hook.next = 1 /\ hook.matches = <<>> /\ hook.cut = 0
  /\ hook.at \in {"files", "parse"} =>
       /\ hook.next \in 1..Len(ranking) + 1 /\ hook.cut < hook.next
       /\ hook.matches = Chained(MatchesIn)[hook.next - 1]
  /\ hook.at = "parse" => hook.next \in 1..Len(ranking) /\ ranking[hook.next].known
  /\ hook.at # "done" => printed = <<>>
  /\ EnrichmentIsRanked

LEMMA MatchesOfTyped ==
  ASSUME NEW files \in Rankings, NEW cut
  PROVE  LET M == MatchesOf(files, cut) IN
         /\ Len(files) \in Nat /\ DOMAIN files = 1..Len(files)
         /\ \A k \in 1..Len(files) : files[k] \in MatchFile
         /\ M \in Seq(Seq(MatchLine)) /\ Len(M) = Len(files)
         /\ \A k \in 1..Len(files) :
              M[k] = IF files[k].known THEN CollapsedHits(files[k], files[k].parses /\ k # cut) ELSE <<>>
<1> DEFINE M == MatchesOf(files, cut)
<1>1. files \in Seq(MatchFile)
  BY HookAugmentAssumption
<1>2. Len(files) \in Nat /\ DOMAIN files = 1..Len(files) /\ \A k \in 1..Len(files) : files[k] \in MatchFile
  BY <1>1
<1>3. \A k \in 1..Len(files) :
        M[k] = IF files[k].known THEN CollapsedHits(files[k], files[k].parses /\ k # cut) ELSE <<>>
  BY <1>2 DEF MatchesOf
<1> DEFINE L == Seq(MatchLine)
<1>4. ASSUME NEW k \in 1..Len(files)
      PROVE  (IF files[k].known THEN CollapsedHits(files[k], files[k].parses /\ k # cut) ELSE <<>>) \in L
  <2> DEFINE spans == files[k].parses /\ k # cut
  <2>1. spans \in BOOLEAN /\ files[k] \in MatchFile
    BY <1>2 DEF MatchFile
  <2> HIDE DEF spans
  <2>2. CollapsedHits(files[k], spans) \in L
    BY <2>1, CollapsedTyped DEF L
  <2> QED BY <2>2 DEF spans, L
<1> HIDE DEF L
<1>5. M \in [1..Len(files) -> L]
  BY <1>2, <1>4 DEF MatchesOf
<1>6. M \in Seq(L)
  BY <1>2, <1>5, IsASequence
<1>7. Len(M) = Len(files)
  BY <1>2, <1>5, <1>6
<1> QED BY <1>2, <1>3, <1>6, <1>7 DEF L

LEMMA MatchesTyped ==
  ASSUME ranking \in Rankings
  PROVE  /\ Len(ranking) \in Nat /\ DOMAIN ranking = 1..Len(ranking)
         /\ \A k \in 1..Len(ranking) : ranking[k] \in MatchFile
         /\ MatchesIn \in Seq(Seq(MatchLine)) /\ Len(MatchesIn) = Len(ranking)
         /\ \A k \in 1..Len(ranking) :
              MatchesIn[k] = IF ranking[k].known THEN CollapsedHits(ranking[k], ranking[k].parses /\ k # hook.cut) ELSE <<>>
BY MatchesOfTyped DEF MatchesIn

LEMMA MatchesTypedNext ==
  ASSUME ranking' \in Rankings
  PROVE  /\ MatchesIn' \in Seq(Seq(MatchLine)) /\ Len(MatchesIn') = Len(ranking')
         /\ \A k \in 1..Len(ranking') : MatchesIn'[k] =
              IF ranking'[k].known THEN CollapsedHits(ranking'[k], ranking'[k].parses /\ k # hook'.cut) ELSE <<>>
BY MatchesOfTyped DEF MatchesIn

\* The head of what the first files give is the head of what all give.
LEMMA PrintedIsRanked ==
  ASSUME ranking \in Rankings, NEW n \in 1..Len(ranking) + 1, NEW taken,
         taken = Chained(MatchesIn)[n - 1],
         n > Len(ranking) \/ Len(taken) >= HookLimit,
         NEW lines, lines = Trimmed(SubSeq(taken, 1, IF Len(taken) < HookLimit THEN Len(taken) ELSE HookLimit)),
         lines # <<>>,
         NEW all, all = Chained(MatchesIn)[Len(ranking)]
  PROVE  /\ Len(lines) <= HookLimit /\ IsPrefix(lines, all) /\ LineCost(lines) <= HookBudget
         /\ Len(lines) < HookLimit /\ Len(lines) < Len(all) =>
              LineCost(SubSeq(all, 1, Len(lines) + 1)) > HookBudget
<1> DEFINE h == IF Len(taken) < HookLimit THEN Len(taken) ELSE HookLimit
           shown == SubSeq(taken, 1, h)
<1>1. Len(ranking) \in Nat /\ MatchesIn \in Seq(Seq(MatchLine)) /\ Len(MatchesIn) = Len(ranking)
  BY MatchesTyped
<1>2. n - 1 \in 0..Len(MatchesIn) /\ Len(MatchesIn) \in 0..Len(MatchesIn) /\ n - 1 \in 0..Len(MatchesIn)
  BY <1>1
<1>3. taken \in Seq(MatchLine) /\ all \in Seq(MatchLine)
  BY <1>1, <1>2, ChainedLists
<1>4. Len(taken) <= Len(all) /\ \A p \in 1..Len(taken) : all[p] = taken[p]
  <2> DEFINE j == Len(MatchesIn)
             i == n - 1
             f == Chained(MatchesIn)
  <2>1. j \in 0..Len(MatchesIn) /\ i \in 0..j
    BY <1>2
  <2> HIDE DEF j, i
  <2>2. Len(f[i]) <= Len(f[j]) /\ \A p \in 1..Len(f[i]) : f[j][p] = f[i][p]
    BY <1>1, <2>1, ChainedGrows
  <2>3. taken = f[i] /\ all = f[j]
    BY <1>1 DEF i, j
  <2> QED BY ONLY <2>2, <2>3
<1>5. HookLimit \in Nat \ {0} /\ HookBudget \in Nat
  BY HookAugmentAssumption
<1>6. h \in Nat /\ h <= Len(taken) /\ h <= HookLimit
  BY ONLY <1>3, <1>5
<1>7. h = HookLimit \/ h = Len(all)
  <2>1. CASE n > Len(ranking)
    <3>1. n - 1 = Len(ranking)
      BY <2>1, <1>1
    <3>2. taken = all
      BY <3>1
    <3> QED BY ONLY <3>2, <1>3, <1>5
  <2>2. CASE Len(taken) >= HookLimit
    BY ONLY <2>2, <1>3, <1>5
  <2> QED BY <2>1, <2>2
<1> HIDE DEF h
<1>8. shown \in Seq(MatchLine) /\ Len(shown) = h /\ \A j \in 0..h : SubSeq(shown, 1, j) = SubSeq(all, 1, j)
  <2>1. shown \in Seq(MatchLine) /\ Len(shown) = h /\ \A p \in 1..h : shown[p] = all[p]
    BY ONLY <1>3, <1>4, <1>6
  <2> HIDE DEF shown
  <2> QED BY ONLY <1>3, <1>4, <1>6, <2>1
<1>9. lines = Trimmed(shown)
  BY DEF h
<1> HIDE DEF shown
<1>10. PICK k \in 1..Len(shown) :
         /\ Trimmed(shown) = SubSeq(shown, 1, k)
         /\ LineCost(SubSeq(shown, 1, k)) <= HookBudget
         /\ \A j \in k + 1..Len(shown) : LineCost(SubSeq(shown, 1, j)) > HookBudget
  BY <1>8, <1>9, TrimmedFits
<1>11. k \in Nat /\ k <= h /\ lines = SubSeq(all, 1, k) /\ Len(all) \in Nat /\ h <= Len(all)
  <2>1. k \in 0..h
    BY ONLY <1>6, <1>8, <1>10
  <2> QED BY ONLY <2>1, <1>3, <1>4, <1>6, <1>8, <1>9, <1>10
<1>12. Len(lines) = k
  BY ONLY <1>3, <1>11
<1>13. Len(lines) <= HookLimit
  BY ONLY <1>5, <1>6, <1>11, <1>12
<1>14. IsPrefix(lines, all)
  <2>1. SubSeq(lines, 1, Len(lines)) = lines
    BY ONLY <1>3, <1>11
  <2>2. Len(lines) <= Len(all)
    BY ONLY <1>6, <1>11, <1>12
  <2> QED BY <1>11, <1>12, <2>1, <2>2 DEF IsPrefix
<1>15. LineCost(lines) <= HookBudget
  BY <1>9, <1>10
<1>16. ASSUME Len(lines) < HookLimit, Len(lines) < Len(all)
       PROVE  LineCost(SubSeq(all, 1, Len(lines) + 1)) > HookBudget
  <2>1. k + 1 \in k + 1..Len(shown) /\ k + 1 \in 0..h
    BY ONLY <1>16, <1>5, <1>6, <1>7, <1>8, <1>11, <1>12
  <2>2. LineCost(SubSeq(shown, 1, k + 1)) > HookBudget /\ SubSeq(shown, 1, k + 1) = SubSeq(all, 1, k + 1)
    BY <1>8, <1>10, <2>1
  <2> QED BY <1>12, <2>2
<1> QED BY <1>13, <1>14, <1>15, <1>16

\* Lists that agree on the first k have the same first k in one.
LEMMA ChainedAgrees ==
  ASSUME NEW T, NEW a \in Seq(Seq(T)), NEW b \in Seq(Seq(T)), NEW k \in Nat,
         k <= Len(a), k <= Len(b), \A n \in 1..k : a[n] = b[n]
  PROVE  Chained(a)[k] = Chained(b)[k]
<1> DEFINE S == {n \in Nat : n <= k => Chained(a)[n] = Chained(b)[n]}
<1>1. 0 \in S
  BY ChainedLists
<1>2. ASSUME NEW n \in Nat, n \in S PROVE n + 1 \in S
  <2> SUFFICES ASSUME n + 1 <= k PROVE Chained(a)[n + 1] = Chained(b)[n + 1]
    OBVIOUS
  <2>1. n + 1 \in 1..Len(a) /\ n + 1 \in 1..Len(b) /\ n + 1 \in 1..k /\ n <= k /\ (n + 1) - 1 = n
    OBVIOUS
  <2>2. Chained(a)[n + 1] = Chained(a)[(n + 1) - 1] \o a[n + 1]
    BY <2>1, ChainedLists
  <2>3. Chained(b)[n + 1] = Chained(b)[(n + 1) - 1] \o b[n + 1]
    BY <2>1, ChainedLists
  <2>4. Chained(a)[n] = Chained(b)[n] /\ a[n + 1] = b[n + 1]
    BY <1>2, <2>1
  <2> QED BY <2>1, <2>2, <2>3, <2>4
<1> HIDE DEF S
<1>3. Nat \subseteq S
  BY <1>1, <1>2, NatSetInduction
<1> QED BY <1>3 DEF S

\* One more file of the ranking, with the spans it is collapsed by.
LEMMA OneMoreFile ==
  ASSUME ranking \in Rankings, NEW n \in 1..Len(ranking)
  PROVE  /\ Chained(MatchesIn)[n] = Chained(MatchesIn)[n - 1] \o MatchesIn[n]
         /\ MatchesIn[n] = <<>> => Chained(MatchesIn)[n] = Chained(MatchesIn)[n - 1]
<1>1. MatchesIn \in Seq(Seq(MatchLine)) /\ n \in 1..Len(MatchesIn) /\ n - 1 \in 0..Len(MatchesIn)
  BY MatchesTyped
<1> DEFINE lists == MatchesIn
<1>2. lists \in Seq(Seq(MatchLine)) /\ n \in 1..Len(lists) /\ n - 1 \in 0..Len(lists)
  BY <1>1
<1> HIDE DEF lists
<1>3. Chained(lists)[n] = Chained(lists)[n - 1] \o lists[n]
  BY <1>2, ChainedLists
<1>4. Chained(lists)[n - 1] \in Seq(MatchLine)
  <2>1. Chained(lists) \in [0..Len(lists) -> Seq(MatchLine)]
    BY <1>2, ChainedLists
  <2> QED BY <1>2, <2>1
<1>5. \A s \in Seq(MatchLine) : s \o <<>> = s
  OBVIOUS
<1> QED BY <1>3, <1>4, <1>5 DEF lists

\* What the hook prints are the best matches of all the ranked files, for any ranking,
\* limit and budget and wherever the alarm fires; when it fires in the parser of a file
\* and is swallowed there, that file's hits are taken at module level and no other's
\* (ranked_matches, build_payload, symbols_for_file).
THEOREM EnrichmentRanked == AugmentSpec => []EnrichmentIsRanked
<1>1. AugmentInit => AugmentInv
  BY DEF AugmentInit, AugmentInv, EnrichmentIsRanked
<1>2. AugmentInv /\ [AugmentNext]_augmentVars => AugmentInv'
  <2> SUFFICES ASSUME AugmentInv, [AugmentNext]_augmentVars PROVE AugmentInv'
    OBVIOUS
  <2> USE DEF AugmentInv
  <2>0. ranking \in Rankings /\ Len(ranking) \in Nat /\ DOMAIN ranking = 1..Len(ranking)
    BY MatchesTyped
  <2>a. UNCHANGED ranking /\ hook'.cut = hook.cut => UNCHANGED MatchesIn
    BY DEF MatchesIn
  <2>b. UNCHANGED <<ranking, printed>> /\ hook'.cut = hook.cut /\ (alarm = "fired" => alarm' = "fired")
        => EnrichmentIsRanked'
    BY DEF EnrichmentIsRanked
  <2>c. Stop => hook' = [at |-> "done", next |-> hook.next, cut |-> hook.cut, matches |-> hook.matches]
    BY DEF Stop
  <2>d. Disarm => (alarm' = "fired" <=> alarm = "fired")
    BY DEF Disarm
  <2>1. CASE ReadCall
    <3>1. UNCHANGED <<ranking, printed>> /\ hook.at = "start" /\ (alarm' = "fired" <=> alarm = "fired")
          /\ \E at \in {"scan", "done"} :
               hook' = [at |-> at, next |-> hook.next, cut |-> hook.cut, matches |-> hook.matches]
      BY <2>1, <2>c, <2>d DEF ReadCall
    <3> QED BY <2>b, <3>1
  <2>2. ASSUME NEW works \in BOOLEAN, ScanFiles(works) PROVE AugmentInv'
    <3>1. UNCHANGED <<ranking, printed>> /\ hook.at = "scan" /\ (alarm' = "fired" <=> alarm = "fired")
          /\ \E at \in {"files", "done"} :
               hook' = [at |-> at, next |-> hook.next, cut |-> hook.cut, matches |-> hook.matches]
      BY <2>2, <2>c, <2>d DEF ScanFiles
    <3>2. Chained(MatchesIn)[0] = <<>> /\ 1 \in 1..Len(ranking) + 1 /\ 1 - 1 = 0
      <4>1. MatchesIn \in Seq(Seq(MatchLine))
        BY <2>0, MatchesTyped
      <4>2. Chained(MatchesIn)[0] = <<>>
        BY <4>1, ChainedLists
      <4> QED BY ONLY <4>2, <2>0
    <3> QED BY <2>a, <2>b, <3>1, <3>2
  <2>3. CASE ReadMatchFile
    <3>1. UNCHANGED <<ranking, printed>> /\ hook.at = "files" /\ (alarm' = "fired" <=> alarm = "fired")
          /\ ~(hook.next > Len(ranking))
          /\ \/ /\ ~ranking[hook.next].known
                /\ hook' = [at |-> "files", next |-> hook.next + 1, cut |-> hook.cut, matches |-> hook.matches]
             \/ /\ ranking[hook.next].known
                /\ hook' = [at |-> "parse", next |-> hook.next, cut |-> hook.cut, matches |-> hook.matches]
             \/ hook' = [at |-> "done", next |-> hook.next, cut |-> hook.cut, matches |-> hook.matches]
      BY <2>3, <2>c, <2>d DEF ReadMatchFile, Enough
    <3>2. /\ hook.next \in 1..Len(ranking) /\ hook.next + 1 \in 1..Len(ranking) + 1
          /\ (hook.next + 1) - 1 = hook.next /\ hook.cut < hook.next + 1
      BY <2>0, <3>1
    <3>3. ~ranking[hook.next].known => Chained(MatchesIn)[hook.next] = Chained(MatchesIn)[hook.next - 1]
      BY <2>0, <3>2, MatchesTyped, OneMoreFile
    <3> QED BY <2>a, <2>b, <3>1, <3>2, <3>3
  <2>4. CASE ParseFile
    <3>1. UNCHANGED <<ranking, printed, alarm>> /\ hook.at = "parse"
          /\ hook' = [at |-> "files", next |-> hook.next + 1, cut |-> hook.cut,
                      matches |-> hook.matches \o CollapsedHits(ranking[hook.next], ranking[hook.next].parses)]
      BY <2>4 DEF ParseFile, TakeFile
    <3>2. /\ hook.next \in 1..Len(ranking) /\ ranking[hook.next].known /\ hook.next # hook.cut
          /\ hook.next + 1 \in 1..Len(ranking) + 1 /\ (hook.next + 1) - 1 = hook.next /\ hook.cut < hook.next + 1
      BY <2>0, <3>1
    <3>3. MatchesIn[hook.next] = CollapsedHits(ranking[hook.next], ranking[hook.next].parses)
      <4>1. MatchesIn[hook.next] = CollapsedHits(ranking[hook.next], ranking[hook.next].parses /\ hook.next # hook.cut)
        BY <2>0, <3>2, MatchesTyped
      <4>2. (ranking[hook.next].parses /\ hook.next # hook.cut) = ranking[hook.next].parses
        <5>1. ranking[hook.next].parses \in BOOLEAN
          BY <2>0, <3>2, MatchesTyped DEF MatchFile
        <5> QED BY <3>2, <5>1
      <4> QED BY <4>1, <4>2
    <3>4. Chained(MatchesIn)[hook.next] = Chained(MatchesIn)[hook.next - 1] \o MatchesIn[hook.next]
      BY <2>0, <3>2, OneMoreFile
    <3> QED BY <2>a, <2>b, <3>1, <3>2, <3>3, <3>4
  <2>5. CASE PrintLines
    <3> DEFINE h == IF Len(hook.matches) < HookLimit THEN Len(hook.matches) ELSE HookLimit
               all == Chained(MatchesIn)[Len(ranking)]
    <3>1. UNCHANGED ranking /\ hook.at = "files" /\ (alarm' = "fired" <=> alarm = "fired")
          /\ (hook.next > Len(ranking) \/ Len(hook.matches) >= HookLimit)
          /\ hook' = [at |-> "done", next |-> hook.next, cut |-> hook.cut, matches |-> hook.matches]
          /\ printed' = Trimmed(SubSeq(hook.matches, 1, h))
      BY <2>5, <2>c, <2>d DEF PrintLines, Enough
    <3>2. printed' # <<>> =>
            /\ Len(printed') <= HookLimit /\ IsPrefix(printed', all) /\ LineCost(printed') <= HookBudget
            /\ Len(printed') < HookLimit /\ Len(printed') < Len(all) =>
                 LineCost(SubSeq(all, 1, Len(printed') + 1)) > HookBudget
      <4> SUFFICES ASSUME printed' # <<>>
          PROVE  /\ Len(printed') <= HookLimit /\ IsPrefix(printed', all) /\ LineCost(printed') <= HookBudget
                 /\ Len(printed') < HookLimit /\ Len(printed') < Len(all) =>
                      LineCost(SubSeq(all, 1, Len(printed') + 1)) > HookBudget
        OBVIOUS
      <4>1. hook.next \in 1..Len(ranking) + 1 /\ hook.matches = Chained(MatchesIn)[hook.next - 1]
        BY <3>1
      <4> HIDE DEF all, AugmentInv
      <4> QED BY <2>0, <3>1, <4>1, PrintedIsRanked DEF all
    <3>3. EnrichmentIsRanked'
      <4>1. (hook'.cut # 0 => alarm' = "fired") /\ UNCHANGED MatchesIn /\ all = Chained(MatchesIn')[Len(ranking')]
        BY <2>a, <3>1
      <4>2. MatchesIn' = [k \in DOMAIN ranking' |->
                            IF ranking'[k].known
                            THEN CollapsedHits(ranking'[k], ranking'[k].parses /\ k # hook'.cut) ELSE <<>>]
        BY DEF MatchesIn, MatchesOf
      <4> HIDE DEF all
      <4> QED BY <3>2, <4>1, <4>2 DEF EnrichmentIsRanked
    <3> QED BY <3>1, <3>3
  <2>6. CASE AlarmFires
    <3>0. UNCHANGED <<ranking, printed>> /\ alarm = "armed" /\ alarm' = "fired" /\ hook.cut = 0 /\ hook.at # "done"
      BY <2>6 DEF AlarmFires, Working
    <3>1. CASE hook.at # "parse"
      <4>1. hook' = [at |-> "done", next |-> hook.next, cut |-> hook.cut, matches |-> hook.matches]
        BY <2>6, <2>c, <3>1 DEF AlarmFires
      <4> QED BY <2>b, <3>0, <4>1
    <3>2. CASE hook.at = "parse"
      <4> DEFINE k == hook.next
      <4>1. hook' = [at |-> "files", next |-> k + 1, cut |-> k,
                     matches |-> hook.matches \o CollapsedHits(ranking[k], FALSE)]
        BY <2>6, <3>2 DEF AlarmFires, TakeFile
      <4>2. /\ k \in 1..Len(ranking) /\ ranking[k].known /\ k + 1 \in 1..Len(ranking) + 1 /\ (k + 1) - 1 = k
            /\ k - 1 \in Nat /\ k \in Nat /\ hook.matches = Chained(MatchesIn)[k - 1]
        BY <2>0, <3>2
      <4>3. /\ MatchesIn \in Seq(Seq(MatchLine)) /\ Len(MatchesIn) = Len(ranking)
            /\ MatchesIn' \in Seq(Seq(MatchLine)) /\ Len(MatchesIn') = Len(ranking)
            /\ \A n \in 1..Len(ranking) :
                 MatchesIn'[n] = IF ranking[n].known THEN CollapsedHits(ranking[n], ranking[n].parses /\ n # k) ELSE <<>>
        <5>1. hook'.cut = k
          BY <4>1
        <5>2. /\ MatchesIn' \in Seq(Seq(MatchLine)) /\ Len(MatchesIn') = Len(ranking')
              /\ \A n \in 1..Len(ranking') : MatchesIn'[n] =
                   IF ranking'[n].known THEN CollapsedHits(ranking'[n], ranking'[n].parses /\ n # hook'.cut) ELSE <<>>
          BY <2>0, <3>0, MatchesTypedNext
        <5> QED BY <2>0, <3>0, <5>1, <5>2, MatchesTyped
      <4>4. \A n \in 1..k - 1 : MatchesIn[n] = MatchesIn'[n]
        <5> SUFFICES ASSUME NEW n \in 1..k - 1 PROVE MatchesIn[n] = MatchesIn'[n]
          OBVIOUS
        <5>1. n \in 1..Len(ranking) /\ n # k /\ n # 0
          BY <2>0, <4>2
        <5>2. MatchesIn[n] = IF ranking[n].known THEN CollapsedHits(ranking[n], ranking[n].parses /\ n # hook.cut) ELSE <<>>
          BY <2>0, <5>1, MatchesTyped
        <5>3. (ranking[n].parses /\ n # hook.cut) = (ranking[n].parses /\ n # k)
          BY <3>0, <5>1
        <5> QED BY <4>3, <5>1, <5>2, <5>3
      <4>5. MatchesIn'[k] = CollapsedHits(ranking[k], FALSE)
        <5>1. (ranking[k].parses /\ k # k) = FALSE
          OBVIOUS
        <5> QED BY <4>2, <4>3, <5>1
      <4> DEFINE before == MatchesIn
                 after == MatchesIn'
      <4>a. /\ before \in Seq(Seq(MatchLine)) /\ after \in Seq(Seq(MatchLine))
            /\ k \in 1..Len(after) /\ k - 1 \in Nat /\ k - 1 <= Len(before) /\ k - 1 <= Len(after)
            /\ \A n \in 1..k - 1 : before[n] = after[n]
        BY <2>0, <4>2, <4>3, <4>4
      <4> HIDE DEF before, after
      <4>6. Chained(before)[k - 1] = Chained(after)[k - 1]
        <5> HIDE DEF k
        <5> QED BY ONLY <4>a, ChainedAgrees
      <4>7. Chained(after)[k] = Chained(after)[k - 1] \o after[k]
        <5> HIDE DEF k
        <5> QED BY ONLY <4>a, ChainedLists
      <4>8. printed = <<>> => EnrichmentIsRanked'
        BY <3>0 DEF EnrichmentIsRanked
      <4>9. /\ hook'.next = k + 1 /\ hook'.cut = k /\ hook'.at = "files" /\ hook' = [at |-> hook'.at, next |-> hook'.next, cut |-> hook'.cut, matches |-> hook'.matches]
            /\ hook'.matches = hook.matches \o CollapsedHits(ranking[k], FALSE)
        BY <4>1
      <4>b. hook.matches = Chained(before)[k - 1] /\ after[k] = CollapsedHits(ranking[k], FALSE)
        BY <4>2, <4>5 DEF before, after
      <4> HIDE DEF k
      <4>10. hook'.matches = Chained(MatchesIn')[hook'.next - 1]
        <5>1. hook'.matches = Chained(after)[k]
          BY <4>6, <4>7, <4>9, <4>b
        <5>2. hook'.next - 1 = k
          BY <4>2, <4>9
        <5> QED BY <5>1, <5>2 DEF after
      <4>11. UNCHANGED <<ranking, printed>> /\ alarm' = "fired" /\ printed = <<>> /\ k < k + 1
        BY <3>0, <4>2
      <4>12. k \in Nat /\ k + 1 \in 1..Len(ranking) + 1 /\ ranking \in Rankings
        BY <2>0, <4>2
      <4> HIDE DEF AugmentInv
      <4> QED BY <4>8, <4>9, <4>10, <4>11, <4>12 DEF AugmentInv
    <3> QED BY <3>1, <3>2
  <2>7. CASE UNCHANGED augmentVars
    <3>1. UNCHANGED <<ranking, hook, alarm, printed, MatchesIn>>
      BY <2>7, <2>a DEF augmentVars
    <3> QED BY <2>b, <3>1
  <2> QED BY <2>1, <2>2, <2>3, <2>4, <2>5, <2>6, <2>7 DEF AugmentNext
<1>3. AugmentInv => EnrichmentIsRanked
  BY DEF AugmentInv
<1> QED BY <1>1, <1>2, <1>3, PTL DEF AugmentSpec
=============================================================================
