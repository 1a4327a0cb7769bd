---------------------------- MODULE TypedRanking ----------------------------
(***************************************************************************)
(* The scores of the route that ranks by typed attributes (ranking.py,     *)
(* typed_ranking.py, provisional_typed_ranking.py) and what the pictures   *)
(* of the products add to a ranking (counterfactual_product_evaluator.py,  *)
(* counterfactual_v4.py, counterfactual_calibration.py,                    *)
(* provisional_counterfactual.py, relative_image_ranking.py).              *)
(*                                                                         *)
(* A score is an integer up to One, four decimals as in the code.  More    *)
(* fields of an entry: name and nameEn (how much of the product's name the *)
(* titles say, up to Full), rating (0 for none), reviews (are there any?), *)
(* negatives (how many unwanted words) and image (is there a picture?).    *)
(* A picture is a number; Margin gives the similarity margin the model     *)
(* computes for it and a visual condition, from -Unit to Unit, and TextFit *)
(* the similarity with the description of the visual conditions.           *)
(***************************************************************************)
EXTENDS ProductEvaluation

CONSTANTS
    MinCalibrated,     \* MINIMUM_PROVISIONAL_CANDIDATES, MINIMUM_EVALUATION_PRODUCTS
    MaxEvaluated,      \* MAXIMUM_EVALUATION_PRODUCTS
    MinSpan,           \* MINIMUM_OBSERVED_SPAN
    Unit,              \* the margin 1.0
    Pictures,          \* pictures a product may have
    Margin,            \* [Pictures -> [place of a visual condition -> -Unit..Unit]]
    TextFit,           \* [Pictures -> 0..2 * Unit]
    ReferencePictures  \* the pictures that are the approved references

ASSUME TypedRankingAssumption ==
    /\ MinCalibrated \in Nat \ {0} /\ MaxEvaluated \in Nat \ {0}
    /\ MinSpan \in Nat \ {0} /\ Unit \in Nat \ {0}

One == 10000
NoPicture == 0
HighRating == 4
MaxRating == 5
Saturated == 2         \* MINIMUM_SATURATED_BOUNDARY_COUNT

-----------------------------------------------------------------------------
(* The picture component.  pictures gives each product the picture that    *)
(* was fetched for it, or NoPicture.                                       *)

Unavailable(status) == [status |-> status, score |-> 0]
Available(score) == [status |-> "available", score |-> score]

(* build_relative_image_batch and its successors: every product alone. *)
RelativeComponent(visual, close, picture) ==
    LET usable == {c.at : c \in visual} \ close
    IN IF picture = NoPicture THEN Unavailable("missing")
       ELSE IF usable = {} THEN Unavailable("unknown")
       ELSE Available(Min({Margin[picture][c] : c \in usable}) + Unit)

(* In the calibrated mode a picture already seen counts as missing. *)
Deduplicated(products, pictures) ==
    [i \in DOMAIN pictures |->
        IF \E j \in DOMAIN pictures : j < i /\ pictures[j] = pictures[i]
        THEN NoPicture ELSE pictures[i]]

Scored(pictures) == {i \in DOMAIN pictures : pictures[i] # NoPicture}

(* _calibrate_condition: is the observed range of margins wide and mixed   *)
(* enough?                                                                 *)
Calibrated(pictures, c) ==
    LET margins == {Margin[pictures[i]][c] : i \in Scored(pictures)}
        at(m) == Cardinality({i \in Scored(pictures) : Margin[pictures[i]][c] = m})
    IN /\ Max(margins) - Min(margins) >= MinSpan
       /\ \/ Min(margins) < 0 /\ Max(margins) > 0
          \/ at(Unit) >= Saturated \/ at(-Unit) >= Saturated

CalibratedMargin(pictures, c, i) ==
    LET margins == {Margin[pictures[j]][c] : j \in Scored(pictures)}
    IN ((Margin[pictures[i]][c] - Min(margins)) * 2 * Unit)
           \div (Max(margins) - Min(margins))

(* build_provisional_counterfactual_batch: all pictures or none. *)
CalibrationReady(visual, close, pictures) ==
    /\ close = {}
    /\ Cardinality(Scored(pictures)) >= MinCalibrated
    /\ \A c \in visual : Calibrated(pictures, c.at)
CalibratedComponent(visual, close, pictures, i) ==
    IF pictures[i] = NoPicture THEN Unavailable("missing")
    ELSE IF ~ CalibrationReady(visual, close, pictures) THEN Unavailable("unknown")
    ELSE Available(Min({CalibratedMargin(pictures, c.at, i) : c \in visual}))

(* The evaluation refuses these: too few or too many products, and a       *)
(* picture of a product that is one of the references.                     *)
EvaluationRefused(minimum, products, pictures) ==
    \/ Len(products) < minimum \/ Len(products) > MaxEvaluated
    \/ \E i \in DOMAIN pictures : pictures[i] \in ReferencePictures

-----------------------------------------------------------------------------
(* The components and their weights in twentieths: title 0.35, typed       *)
(* attributes 0.3, price 0.2, picture 0.1, reviews 0.05.                   *)

Component(weight, score) == [weight |-> weight, score |-> score]
When(available, component) == IF available THEN {component} ELSE {}

TitleComponent(e) == {Component(7, (e.name * One) \div Full)}

(* _typed_score: every condition is in the denominator, whatever is known. *)
Satisfied(c, state) == state = (IF c.strength = "excluded" THEN "mismatch" ELSE "match")
TypedComponent(conditions, states) ==
    When(conditions # {},
         Component(6, (Cardinality({c \in conditions : Satisfied(c, states[c.id])}) * One)
                          \div Cardinality(conditions)))

(* target holds the accepted prices, an exact one or those of a range. *)
PriceComponent(target, e) ==
    LET price == PriceJpy(e)
    IN When(target # {} /\ price # 0,
            Component(4, CASE price \in target -> One
                           [] price < Min(target) -> (price * One) \div Min(target)
                           [] OTHER -> (Max(target) * One) \div price))

PictureComponent(image) ==
    When(image.status = "available", Component(2, (image.score * One) \div (2 * Unit)))

ReviewComponent(e) ==
    When(e.rating # 0,
         Component(1, IF e.rating < HighRating \/ ~ e.reviews THEN 0
                      ELSE (e.rating * One) \div MaxRating))

(* Missing components do not count: the others are weighted up. *)
WeightedScore(components) ==
    SumFunction([x \in components |-> x.weight * x.score])
        \div SumFunction([x \in components |-> x.weight])
Penalty(e) == Min({One \div 2, e.negatives * (One \div 5)})

SourceComponents(conditions, states, target, e) ==
    TitleComponent(e) \cup TypedComponent(conditions, states)
        \cup PriceComponent(target, e) \cup ReviewComponent(e)

TotalScore(components, e) == Max({0, WeightedScore(components) - Penalty(e)})

StatusOrder(status) ==
    CASE status = "confirmed" -> 0 [] status = "uncertain" -> 1 [] OTHER -> 2

(* typed_product_sort_key *)
TypedKey(row) ==
    <<StatusOrder(row.status), -row.required, -row.preferred, -row.total, row.index>>

Outcome(rows) ==
    LET with(status) == Cardinality({i \in DOMAIN rows : rows[i].image.status = status})
    IN IF with("available") >= MinCalibrated THEN "image_ready"
       ELSE IF with("unknown") > 0 THEN "image_unknown" ELSE "image_unavailable"

(* ProvisionalSearchResult.validate_counts *)
ResultAccepted(rows) ==
    LET with(status) == Cardinality({i \in DOMAIN rows : rows[i].image.status = status})
    IN /\ Len(rows) >= MinCalibrated
       /\ CASE Outcome(rows) = "image_ready" -> with("unknown") = 0
            [] Outcome(rows) = "image_unknown" -> with("available") = 0
            [] OTHER -> with("available") = 0 /\ with("missing") > 0
=============================================================================
