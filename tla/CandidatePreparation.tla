------------------------ MODULE CandidatePreparation ------------------------
(***************************************************************************)
(* What CandidateSearch (candidate_search.py) makes of a source before a   *)
(* person approves the retrieval, with build_candidate_queries             *)
(* (candidate_queries.py), the clause scope and the reply checks of        *)
(* bonsai_visual_conditions.py, and the proposal of typed requirements     *)
(* (typed_intent_adapter.py, dynamic_attributes.py) it is ranked by.       *)
(***************************************************************************)
EXTENDS SourceReading

(* The product of the sentence: the parser's span, or else the only clause *)
(* that nothing else consumed.                                             *)
AllFacts(source) == NaturalFacts(source, DOMAIN source)
ProductClauses(source) == Nouns(source, AllFacts(source))

(* The scope both modes need: the parser finds one product, or no more     *)
(* than one noun stands there without it.                                  *)
ScopeClear(source, parsed) ==
    IF parsed THEN Cardinality(ProductClauses(source)) = 1
    ELSE Cardinality(ProductClauses(source)) <= 1

-----------------------------------------------------------------------------
(* The reply of the local model that picks the clauses a picture can show: *)
(* "broken" stands for every malformed, cut or unsure reply; the rest is a *)
(* set of rows [at, strength].                                             *)

(* parse_visual_response and validate_visual_conditions *)
RowsValid(source, parsed, rows) ==
    /\ Cardinality(rows) <= MaxVisual
    /\ \A r \in rows :
         /\ r.at \in VisualClauses(source, parsed)
         /\ r.strength = Strength(source[r.at])

VisualRows(source, clauses) == {[at |-> i, strength |-> Strength(source[i])] : i \in clauses}

-----------------------------------------------------------------------------
(* build_candidate_queries.                                                *)

(* The facts left once the neutral and the pictured clauses are blanked;   *)
(* attributes of the registry are kept beside what the picture shows.      *)
QueryFacts(source, rows) ==
    LET shown == {r.at : r \in rows}
    IN NaturalFacts(source, DOMAIN source \ shown)
         \cup (IF rows = {} THEN {} ELSE {f \in AllFacts(source) : f.kind = "common"})

(* A quantity whose name the clause does not end with, such as the words   *)
(* of a preference before it (numeric_identity_requires_review).           *)
IdentityUnsure(source, f) ==
    f.kind = "quantity" /\ f.label # NoName /\ source[f.at].prefix # {}

\* mutant: clauses that no rule consumed are left out of the search
LeftoverNone(source, parsed, rows) == {}
Leftover(source, parsed, rows) ==
    DOMAIN source \ ({r.at : r \in rows} \cup Neutral(source) \cup Prices(source)
                       \cup {f.at : f \in QueryFacts(source, rows)}
                       \cup (IF parsed THEN ProductClauses(source) ELSE {}))

QueriesBuilt(source, parsed, rows) ==
    LET heard == DOMAIN source \ {r.at : r \in rows}
        facts == QueryFacts(source, rows)
    IN /\ ~ Contradictory(NaturalFacts(source, heard))
       /\ ~ NaturalUncertain(source, heard)
       /\ Cardinality({Strength(source[i]) : i \in Prices(source)}) <= 1
       /\ Cardinality(Leftover(source, parsed, rows)) = (IF parsed THEN 0 ELSE 1)
       /\ ~ \E f \in facts : IdentityUnsure(source, f)
       /\ Cardinality({f \in facts : f.kind # "quantity" \/ f.label # NoName}) <= MaxFacts

(* CandidateSearch._conditions, with the price and the visual conditions.  *)
(* A quantity without a name is given one when the products are known.     *)
Requirement(f) ==
    [id |-> <<f.at, "fact">>, strength |-> f.strength, accepted |-> f.accepted, at |-> f.at, label |-> f.label,
     kind |-> CASE f.kind = "quantity" -> "number"
                [] f.kind = "capability" -> "labelled"
                [] OTHER -> "common"]
PriceRequirement(i, strength, accepted) ==
    [id |-> <<i, "price">>, kind |-> "price", label |-> NoName, strength |-> strength,
     accepted |-> accepted, at |-> i]
VisualRequirement(r) ==
    [id |-> <<r.at, "look">>, kind |-> "visual", label |-> NoName, strength |-> r.strength,
     accepted |-> {}, at |-> r.at]

CandidateConditions(source, rows) ==
    {Requirement(f) : f \in QueryFacts(source, rows)}
      \cup (IF ExplicitPrice(source, Neutral(source)) = NoPrice THEN {}
            ELSE LET first == CHOOSE i \in Prices(source) : \A j \in Prices(source) : i <= j
                 IN {PriceRequirement(first, Strength(source[first]),
                                      ExplicitPrice(source, Neutral(source)))})

-----------------------------------------------------------------------------
(* build_typed_requirement_proposal: two conditions under one generated    *)
(* name, or two that say the same, leave the proposal blocking.            *)
ProposalReady(conditions) ==
    \A c, d \in conditions :
        c # d => /\ c.kind \in {"number", "labelled"} /\ d.kind \in {"number", "labelled"}
                    /\ c.label # NoName => c.label # d.label
                 /\ c.kind = "common" /\ d.kind = "common" =>
                      <<c.label, c.accepted, c.strength>> # <<d.label, d.accepted, d.strength>>
=============================================================================
