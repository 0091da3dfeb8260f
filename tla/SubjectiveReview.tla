--------------------------- MODULE SubjectiveReview ----------------------------
(* subjective_review: with the user's consent a prompt of finding metadata goes *)
(* to the client's model, whose answer, parsed with defaults for what it lacks, *)
(* is stored apart from the deterministic findings.  The call waits for the     *)
(* model, and meanwhile consent and findings may change.                        *)
EXTENDS Integers, Sequences, FiniteSets, SequencesExt

CONSTANTS
  Reviewers,    \* concurrent calls
  Smells,       \* the metadata of deterministic findings, as numbers in report order
  PromptLimit,  \* DEFAULT_PROMPT_FINDING_LIMIT
  Texts,        \* what a model may answer: [form, items], form "blank", "text", "object",
                \* "array" or "scalar"; an item is [what, score], what "" when it is missing
                \* and score NoScore when it is no number
  NoScore,
  MaxReviewMoves

ASSUME SubjectiveReviewAssumption ==
  /\ Smells \subseteq Nat /\ PromptLimit \in Nat \ {0} /\ MaxReviewMoves \in Nat
  /\ NoScore \in Int

VARIABLES
  consent,   \* privacy.allow_llm_review of the configuration
  smells,    \* the findings get_smell_report has
  review,    \* reviewer -> [at, prompt, text, outcome, found]
  opinions,  \* subjective_findings: id -> row
  exchange,  \* what passed through the session: [prompt, text] of each answered request
  reviewMoves
reviewVars == <<consent, smells, review, opinions, exchange, reviewMoves>>

IdleReview == [at |-> "idle", prompt |-> <<>>, text |-> [form |-> "blank", items |-> <<>>],
               outcome |-> "none", found |-> {}]

ReviewInit ==
  /\ consent = FALSE /\ smells \in SUBSET Smells
  /\ review = [r \in Reviewers |-> IdleReview]
  /\ opinions = <<>> /\ exchange = {} /\ reviewMoves = 0

\* build_subjective_review_prompt: the metadata of the first findings.
PromptOf(set) ==
  LET ordered == SetToSortSeq(set, <)
  IN SubSeq(ordered, 1, IF Len(ordered) < PromptLimit THEN Len(ordered) ELSE PromptLimit)

\* _as_confidence: a share of a hundred, half of it when there is none.
OpinionConfidence(score) == IF score = NoScore THEN 50 ELSE IF score < 0 THEN 0 ELSE IF score > 100 THEN 100 ELSE score

\* _coerce_items: an object is one item, an array its objects, anything else is text.
ItemsOf(text) ==
  CASE text.form = "blank" -> <<>>
    [] text.form \in {"object", "array"} -> text.items
    [] OTHER -> <<[what |-> text.form, score |-> NoScore]>>

\* _finding_from_item, _finding_from_text: the id digests the prompt, the place and the
\* content of an item, but not its confidence.
OpinionsOf(prompt, text) ==
  LET items == ItemsOf(text)
      whole == text.form \in {"text", "scalar"}
  IN {[id |-> <<prompt, IF whole THEN 0 ELSE i, items[i].what>>, prompt |-> prompt, what |-> items[i].what,
       confidence |-> OpinionConfidence(items[i].score)] : i \in DOMAIN items}

-----------------------------------------------------------------------------

UserMove == reviewMoves < MaxReviewMoves /\ reviewMoves' = reviewMoves + 1
SetConsent ==
  /\ UserMove /\ consent' = ~consent
  /\ UNCHANGED <<smells, review, opinions, exchange>>
ChangeSmells(set) ==
  /\ UserMove /\ set # smells /\ smells' = set
  /\ UNCHANGED <<consent, review, opinions, exchange>>
CallReview(r) ==
  /\ UserMove /\ review[r].at \in {"idle", "done"}
  /\ review' = [review EXCEPT ![r] = [IdleReview EXCEPT !.at = "asked"]]
  /\ UNCHANGED <<consent, smells, opinions, exchange>>

Turn(r, at, changed) == review[r].at = at /\ review' = [review EXCEPT ![r] = changed]
End(r, outcome) == [review[r] EXCEPT !.at = "done", !.outcome = outcome]

\* is_enabled.
CheckConsent(r) ==
  /\ Turn(r, "asked", IF consent THEN [review[r] EXCEPT !.at = "consented"]
                      ELSE [review[r] EXCEPT !.at = "refused"])
  /\ UNCHANGED <<consent, smells, opinions, exchange, reviewMoves>>

\* The refusal asks again (service.review): consent that has been given in between finds
\* no provider of the name "sampling", and the call fails.
Refuse(r) ==
  /\ Turn(r, "refused", End(r, IF consent THEN "error" ELSE "disabled"))
  /\ UNCHANGED <<consent, smells, opinions, exchange, reviewMoves>>

\* No session to sample through, or the prompt of the findings as they are.
BuildPrompt(r, session) ==
  /\ Turn(r, "consented", IF session THEN [review[r] EXCEPT !.at = "sampling", !.prompt = PromptOf(smells)]
                          ELSE End(r, "unavailable"))
  /\ UNCHANGED <<consent, smells, opinions, exchange, reviewMoves>>

\* from_sampling: the client's model answers.
ModelAnswers(r, text) ==
  /\ Turn(r, "sampling", [review[r] EXCEPT !.at = "answered", !.text = text])
  /\ exchange' = exchange \cup {[prompt |-> review[r].prompt, text |-> text]}
  /\ UNCHANGED <<consent, smells, opinions, reviewMoves>>

\* Every failure of the session is an unavailable model.
SamplingFails(r) ==
  /\ Turn(r, "sampling", End(r, "unavailable"))
  /\ UNCHANGED <<consent, smells, opinions, exchange, reviewMoves>>

\* insert or replace, in one transaction.
Replaced(set) ==
  [id \in DOMAIN opinions \cup {o.id : o \in set} |->
     IF \E o \in set : o.id = id THEN CHOOSE o \in set : o.id = id ELSE opinions[id]]

\* Mutant of StoreOpinions: the prompt is built again from the findings of now.
StoreOpinionsRebuilt(r) ==
  LET found == OpinionsOf(PromptOf(smells), review[r].text) IN
  /\ Turn(r, "answered", [End(r, "enabled") EXCEPT !.found = found])
  /\ opinions' = Replaced(found)
  /\ UNCHANGED <<consent, smells, exchange, reviewMoves>>

\* service.review with the prompt that was sent; consent is not asked for again.
StoreOpinions(r) ==
  LET found == OpinionsOf(review[r].prompt, review[r].text) IN
  /\ Turn(r, "answered", [End(r, "enabled") EXCEPT !.found = found])
  /\ opinions' = Replaced(found)
  /\ UNCHANGED <<consent, smells, exchange, reviewMoves>>

ReviewNext ==
  \/ SetConsent
  \/ \E set \in SUBSET Smells : ChangeSmells(set)
  \/ \E r \in Reviewers :
       \/ CallReview(r) \/ CheckConsent(r) \/ Refuse(r) \/ SamplingFails(r) \/ StoreOpinions(r)
       \/ \E session \in BOOLEAN : BuildPrompt(r, session)
       \/ \E text \in Texts : ModelAnswers(r, text)

ReviewSpec == ReviewInit /\ [][ReviewNext]_reviewVars

-----------------------------------------------------------------------------

\* Opinions are of what was asked.  Whatever changes while the model answers, a stored
\* opinion names a prompt that was sent and an item of an answer to that very prompt; two
\* calls that get one answer share their rows; and a call that reports opinions has them
\* all in the table, unless a later answer gave one of them another confidence
\* (subjective_review, _store_subjective_findings).
OpinionsAreOfTheirPrompt ==
  /\ \A id \in DOMAIN opinions : \E e \in exchange : e.prompt = opinions[id].prompt /\ opinions[id] \in OpinionsOf(e.prompt, e.text)
  /\ \A r \in Reviewers : \A o \in review[r].found :
       o.id \in DOMAIN opinions /\ opinions[o.id].what = o.what

=============================================================================
