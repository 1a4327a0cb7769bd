-------------------------- MODULE ProductEvaluation --------------------------
(***************************************************************************)
(* What one product shows about the conditions of a search, and the scores *)
(* made from it: product_evidence.py, requirement_evaluation.py,           *)
(* candidate_text.py, candidate_bilingual.py, condition_weighting.py and   *)
(* CandidateSearch._evaluate (src/search_v2/candidate_search.py).          *)
(*                                                                         *)
(* A condition is a record [id, kind, label, strength, accepted, at]: kind *)
(* is "number" (a quantity of the product's specification), "labelled" (an *)
(* attribute only the structured fields show, under its name), "common"    *)
(* (of the registry, such as the colour), "price" or "visual"; accepted    *)
(* holds the values that satisfy it and at is the clause of the sentence   *)
(* that says it.  Further fields of an entry (a product is its entry):     *)
(*   facts     observed values, records [label, source, value] with source *)
(*             1 features or structured fields, 2 title, 3 elsewhere; the  *)
(*             value Unreadable is a structured entry without a readable   *)
(*             value                                                       *)
(*   told      per clause, how much of its words the description says      *)
(*             (0 to Full), or Denies when it says the opposite            *)
(*   head      the same for the title and the features                     *)
(*   cut       was the description truncated?                              *)
(*   english   are the English details there, and what they say is en      *)
(* Text matching itself is abstracted to these numbers, units are equal,   *)
(* and every attribute has the weight 1.                                   *)
(***************************************************************************)
EXTENDS ProductNormalization, FiniteSetsExt

CONSTANTS
    MaxEvidence,       \* MAX_EVIDENCE_PER_REQUIREMENT
    MaxMatches         \* MAX_MATCHES_PER_SOURCE

ASSUME EvaluationAssumption ==
    MaxEvidence \in Nat \ {0} /\ MaxMatches \in Nat \ {0}

Unreadable == 0
Full == 2
Denies == -1
Features == 1

About(e, label) == {f \in e.facts : f.label = label}
ValuesFrom(e, label, source) ==
    {f.value : f \in {g \in About(e, label) : g.source = source}} \ {Unreadable}

(* A structured entry under the label, readable or not. *)
StructuredPresent(e, label) == \E f \in About(e, label) : f.source = Features

(* The source a quantity is taken from: a labelled feature wins even when  *)
(* its value cannot be read.                                               *)
NumberSource(e, label) ==
    IF StructuredPresent(e, label) \/ About(e, label) = {} THEN Features
    ELSE Min({f.source : f \in About(e, label)})

(* The source of an attribute of the registry: the best one with a value. *)
CommonSource(e, label) ==
    IF ValuesFrom(e, label, Features) # {} THEN Features ELSE 2

(* The values that decide about a condition. *)
Values(e, c, label) ==
    CASE c.kind = "number" -> ValuesFrom(e, label, NumberSource(e, label))
      [] c.kind = "labelled" ->
           IF [label |-> label, source |-> Features, value |-> Unreadable] \in e.facts THEN {}
           ELSE ValuesFrom(e, label, Features)
      [] c.kind = "common" -> ValuesFrom(e, label, CommonSource(e, label))
      [] c.kind = "price" -> {PriceJpy(e)} \ {0}

(* The bounds that make the evaluation raise. *)
TooMuchEvidence(e, c, label) ==
    CASE c.kind \in {"number", "labelled"} -> Cardinality(Values(e, c, label)) > MaxEvidence
      [] c.kind = "common" ->
           \E s \in {Features, 2} : Cardinality(ValuesFrom(e, label, s)) > MaxMatches
      [] OTHER -> FALSE

\* mutant: one accepted value among several is enough
AdjudicateAny(values, accepted) ==
    IF values = {} THEN "unknown"
    ELSE IF values \cap accepted # {} THEN "match" ELSE "mismatch"

(* adjudicate_requirement *)
Adjudicate(values, accepted) ==
    IF values = {} THEN "unknown"
    ELSE IF Cardinality(values) > 1 THEN "conflict"
    ELSE IF values \subseteq accepted THEN "match" ELSE "mismatch"

Decision(e, c, label) == Adjudicate(Values(e, c, label), c.accepted)

(* required_status of the decisions about one product *)
Status(conditions, states) ==
    LET contradicted == \E c \in conditions :
            \/ c.strength = "required" /\ states[c.id] = "mismatch"
            \/ c.strength = "excluded" /\ states[c.id] = "match"
        uncertain == \E c \in conditions :
            /\ c.strength \in {"required", "excluded"}
            /\ states[c.id] \in {"unknown", "conflict"}
    IN IF contradicted THEN "contradicted"
       ELSE IF uncertain THEN "uncertain" ELSE "confirmed"

(* How often a strength is satisfied; the denominators are the same for    *)
(* every product of a search.                                              *)
Matches(conditions, states, strength) ==
    Cardinality({c \in conditions : c.strength = strength /\ states[c.id] = "match"})

(* condition_weights: the earlier its words in the sentence, the heavier a *)
(* condition among those of its strength.                                  *)
Weight(conditions, c) ==
    Cardinality({d.at : d \in {x \in conditions :
                                 x.strength = c.strength /\ x.at >= c.at}})

(* A text that denies the condition in one sentence earns nothing. *)
Coverage(parts) == IF Denies \in parts THEN 0 ELSE Max(parts \cup {0})

DescriptionCoverage(e, c) == IF e.cut THEN 0 ELSE Coverage({e.told[c.at]})
JapaneseCoverage(e, c) ==
    Coverage({e.head[c.at]} \cup (IF e.cut THEN {} ELSE {e.told[c.at]}))

(* score_conditions: prose counts only where no observed value does. *)
BaseScore(e, c, label, state) ==
    IF state # "unknown" THEN (IF state = "match" THEN Full ELSE 0)
    ELSE IF c.kind = "price" \/ StructuredPresent(e, label) THEN 0
    ELSE DescriptionCoverage(e, c)

(* score_bilingual: the better of the two languages. *)
JapaneseScore(e, c, label, state) ==
    IF c.kind = "visual" THEN JapaneseCoverage(e, c)
    ELSE IF c.kind = "price" \/ state # "unknown" \/ StructuredPresent(e, label)
      THEN BaseScore(e, c, label, state)
    ELSE Max({BaseScore(e, c, label, state), JapaneseCoverage(e, c)})
EnglishScore(e, c, label, state) ==
    IF ~ e.english THEN 0
    ELSE IF c.kind = "price" THEN JapaneseScore(e, c, label, state)
    ELSE Coverage({e.en[c.at]})
ConditionScore(e, c, label, state) ==
    Max({JapaneseScore(e, c, label, state), EnglishScore(e, c, label, state)})

(* The denominator of the weighted ratio of one strength. *)
Denominator(conditions, strength) ==
    SumFunction([c \in {d \in conditions : d.strength = strength} |->
                    Weight(conditions, c) * Full])

(* Sort keys are tuples of integers, compared from the left. *)
Before(k, l) ==
    \E i \in DOMAIN k : k[i] < l[i] /\ \A j \in 1..(i - 1) : k[j] = l[j]
=============================================================================
